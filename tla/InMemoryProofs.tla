---------------------------- MODULE InMemoryProofs ----------------------------
(***************************************************************************)
(* Proofs about what happens in memory alone.                              *)
(*                                                                         *)
(* LineItemRules, the loop of validate(): for every set of rules, of       *)
(* properties and of values, and any number of them.                       *)
(*                                                                         *)
(* ShopifyInstall, whose repository stores nothing: for every set of ids,  *)
(* shops and tokens and any number of events.                              *)
(*                                                                         *)
(* MonogramPool, whose connections are in a field: the service can lose    *)
(* all connections of the pool but the last, and never stops while         *)
(* somebody waits.                                                         *)
(***************************************************************************)
EXTENDS ShopifyInstallProps, MonogramPool, LineItemRules, SequenceTheorems,
        FiniteSetTheorems, WellFoundedInduction, TLAPS

IInv == InstallInv /\ NothingSurvivesReconnecting

LEMMA DomainIsLength ==
  ASSUME NEW S, NEW s \in Seq(S)
  PROVE  DOMAIN s = 1..Len(s) /\ Len(s) \in Nat /\ \A k \in 1..Len(s) : s[k] \in S
BY LenProperties, ElementOfSeq

LEMMA EventFields ==
  ASSUME NEW e \in Events
  PROVE  /\ e.type \in {"Created", "InstallInitiated", "AccessTokenReceived"}
         /\ e.type = "AccessTokenReceived" => e.token \in Tokens
         /\ e.type # "AccessTokenReceived" => e.dto \in Dtos
BY DEF Events

\* Nothing but the events decides what is the latest of a type.
LEMMA NoNewEvent ==
  ASSUME UNCHANGED events, NEW type
  PROVE  /\ OfType(type)' = OfType(type)
         /\ \A k : IsLatest(k, type)' <=> IsLatest(k, type)
BY DEF OfType, IsLatest

\* One more event is the latest of its type and leaves the others alone.
LEMMA OneMore ==
  ASSUME NEW e \in Events, events \in Seq(Events), events' = Append(events, e), NEW type
  PROVE  /\ events' \in Seq(Events) /\ Len(events') = Len(events) + 1
         /\ DOMAIN events' = 1..(Len(events) + 1)
         /\ \A k \in 1..Len(events) : events'[k] = events[k]
         /\ events'[Len(events) + 1] = e
         /\ e.type = type => OfType(type)' = OfType(type) \cup {Len(events) + 1}
         /\ e.type # type => OfType(type)' = OfType(type)
<1>1. /\ events' \in Seq(Events) /\ Len(events') = Len(events) + 1
      /\ \A k \in 1..Len(events) : events'[k] = events[k]
      /\ events'[Len(events) + 1] = e
  BY AppendProperties
<1>2. DOMAIN events' = 1..(Len(events) + 1) /\ DOMAIN events = 1..Len(events) /\ Len(events) \in Nat
  BY <1>1, DomainIsLength
<1>3. /\ e.type = type => OfType(type)' = OfType(type) \cup {Len(events) + 1}
      /\ e.type # type => OfType(type)' = OfType(type)
  BY <1>1, <1>2 DEF OfType
<1> QED
  BY <1>1, <1>2, <1>3

\* Two more events, of which the last begins an installation.
LEMMA TwoMore ==
  ASSUME NEW d \in Events, NEW e \in Events, events \in Seq(Events),
         events' = events \o <<d, e>>, NEW type
  PROVE  /\ events' \in Seq(Events) /\ Len(events') = Len(events) + 2
         /\ DOMAIN events' = 1..(Len(events) + 2)
         /\ \A k \in 1..Len(events) : events'[k] = events[k]
         /\ events'[Len(events) + 1] = d /\ events'[Len(events) + 2] = e
         /\ d.type # type /\ e.type = type =>
              OfType(type)' = OfType(type) \cup {Len(events) + 2}
         /\ d.type # type /\ e.type # type => OfType(type)' = OfType(type)
<1>1. <<d, e>> \in Seq(Events) /\ Len(<<d, e>>) = 2 /\ <<d, e>>[1] = d /\ <<d, e>>[2] = e
  OBVIOUS
<1>2. Len(events) \in Nat /\ DOMAIN events = 1..Len(events)
  BY DomainIsLength
<1>3. /\ events' \in Seq(Events) /\ Len(events') = Len(events) + 2
      /\ \A k \in 1..(Len(events) + 2) :
           events'[k] = IF k <= Len(events) THEN events[k] ELSE <<d, e>>[k - Len(events)]
  BY <1>1, ConcatProperties
<1>4. /\ \A k \in 1..Len(events) : events'[k] = events[k]
      /\ events'[Len(events) + 1] = d /\ events'[Len(events) + 2] = e
  BY <1>1, <1>2, <1>3
<1>5. DOMAIN events' = 1..(Len(events) + 2)
  BY <1>3, DomainIsLength
<1>6. /\ d.type # type /\ e.type = type =>
           OfType(type)' = OfType(type) \cup {Len(events) + 2}
      /\ d.type # type /\ e.type # type => OfType(type)' = OfType(type)
  BY <1>2, <1>4, <1>5 DEF OfType
<1> QED
  BY <1>3, <1>4, <1>5, <1>6

\* A stored event comes back the same but for its aggregate.
LEMMA ReloadedEvent ==
  ASSUME NEW e \in Events
  PROVE  LET f == [e EXCEPT !.aggregate = NoId] IN
         /\ f \in Events /\ f.type = e.type
         /\ e.type = "AccessTokenReceived" => f.token = e.token
         /\ e.type = "InstallInitiated" => f.dto = e.dto
<1>1. CASE e \in [type : {"Created", "InstallInitiated"}, aggregate : Ids \cup {NoId}, dto : Dtos]
  BY <1>1 DEF Events
<1>2. CASE e \in [type : {"AccessTokenReceived"}, aggregate : Ids \cup {NoId}, token : Tokens]
  BY <1>2 DEF Events
<1> QED
  BY <1>1, <1>2 DEF Events

-----------------------------------------------------------------------------
(* The inductive invariant. *)

LEMMA IInit == Init => IInv
<1> SUFFICES ASSUME Init PROVE IInv
  OBVIOUS
<1>1. events = <<>> /\ DOMAIN events = {} /\ \A type : OfType(type) = {}
  BY DEF Init, OfType
<1>2. events \in Seq(Events)
  BY <1>1, EmptySeq
<1>2a. TypeOK
  BY <1>2 DEF Init, TypeOK, Statuses
<1>3. EventsTellTheInstall /\ TokensAgree /\ ShopsAgree /\ NoneUntold /\ NothingSurvivesReconnecting
  BY <1>1 DEF Init, EventsTellTheInstall, TokensAgree, ShopsAgree, NoneUntold,
              NothingSurvivesReconnecting, IsLatest
<1> QED
  BY <1>2a, <1>3 DEF IInv, InstallInv

\* What a connected account starts with.
LEMMA FreshInstall ==
  ASSUME NEW of \in Ids, NEW dto \in Dtos, dto.shop # BadShop, dto.timestamp # BadTime
  PROVE  LET new == InstallFor(of, dto) IN
         /\ new \in Installs /\ new # NoInstall
         /\ new.shop = dto.shop /\ new.nonce = dto.timestamp
         /\ new.code = NA /\ new.installLink = NA /\ new.tokenLink = NA /\ new.token = NA
<1>1. dto.shop \in Shops /\ dto.timestamp \in Times
  BY DEF Dtos
<1> QED
  BY <1>1, NotAnInstall DEF InstallFor, NewInstall, Installs

LEMMA IConnect ==
  ASSUME IInv, NEW dto \in Dtos, NEW fresh \in Ids, NEW other \in Ids,
         Connect(dto, fresh, other)
  PROVE  IInv'
<1> DEFINE created == [type |-> "Created", aggregate |-> fresh, dto |-> dto]
           initiated == [type |-> "InstallInitiated", aggregate |-> other, dto |-> dto]
<1>0. created \in Events /\ initiated \in Events
  BY DEF Events
<1>a. /\ created.type = "Created" /\ created.dto = dto
      /\ initiated.type = "InstallInitiated" /\ initiated.dto = dto
  OBVIOUS
<1> HIDE DEF created, initiated
<1>t. TypeOK /\ events \in Seq(Events) /\ Len(events) \in Nat /\ DOMAIN events = 1..Len(events)
  BY DomainIsLength DEF IInv, InstallInv, TypeOK
<1>1. CASE dto.shop = BadShop
  <2>1. UNCHANGED <<account, spoilt, tried>> /\ outcome' = "error"
    BY <1>1 DEF Connect, Throw
  <2>2. UNCHANGED <<id, user, shop, token, status, events, install, spoilt, tried>>
    BY <2>1 DEF account
  <2> QED
    BY <2>1, <2>2 DEF IInv, InstallInv, TypeOK, EventsTellTheInstall, TokensAgree, ShopsAgree,
                 NoneUntold, NothingSurvivesReconnecting, OfType, IsLatest
<1>2. CASE dto.shop # BadShop /\ dto.timestamp = BadTime
  <2>1. /\ id' = fresh /\ user' = dto.user /\ shop' = dto.shop /\ status' = status
        /\ events' = Append(events, created) /\ tried' = dto
        /\ outcome' = "error" /\ UNCHANGED <<token, install, spoilt>>
    BY <1>2, <1>a DEF Connect, Raised, Begun, Throw, created, initiated
  <2>2. \A type : type # "Created" => OfType(type)' = OfType(type)
    BY <1>0, <1>a, <1>t, <2>1, OneMore
  <2>3. /\ events' \in Seq(Events) /\ DOMAIN events' = 1..(Len(events) + 1)
        /\ \A k \in 1..Len(events) : events'[k] = events[k]
    BY <1>0, <1>t, <2>1, OneMore
  <2>4. TypeOK'
    BY <1>2, <1>t, <2>1, <2>3 DEF TypeOK, Dtos
  <2>5. \A type, k : type # "Created" /\ IsLatest(k, type)' =>
           IsLatest(k, type) /\ k \in DOMAIN events /\ events'[k] = events[k]
    BY <1>t, <2>2, <2>3 DEF IsLatest, OfType
  <2>6. EventsTellTheInstall'
    BY <2>1, <2>2, <2>5 DEF EventsTellTheInstall, IInv, InstallInv
  <2>7. TokensAgree'
    BY <2>1, <2>5 DEF TokensAgree, IInv, InstallInv
  <2>8. ShopsAgree'
    BY <1>2, <2>1 DEF ShopsAgree
  <2>9. NoneUntold' /\ NothingSurvivesReconnecting'
    BY <2>1, <2>2 DEF NoneUntold, NothingSurvivesReconnecting, IInv, InstallInv
  <2> QED
    BY <2>4, <2>6, <2>7, <2>8, <2>9 DEF IInv, InstallInv
<1>3. CASE dto.shop # BadShop /\ dto.timestamp # BadTime
  <2>1. /\ id' = fresh /\ user' = dto.user /\ shop' = dto.shop /\ status' = "PENDING_INSTALL"
        /\ events' = events \o <<created, initiated>> /\ tried' = dto
        /\ outcome' = "ok" /\ token' = token /\ spoilt' = FALSE
        /\ install' = InstallFor(fresh, dto)
    BY <1>3, <1>a DEF Connect, Raised, Begun, Return, created, initiated
  <2>2. /\ install' \in Installs /\ install' # NoInstall
        /\ install'.shop = dto.shop /\ install'.nonce = dto.timestamp
        /\ install'.code = NA /\ install'.installLink = NA
        /\ install'.tokenLink = NA /\ install'.token = NA
    BY <1>3, <2>1, FreshInstall
  <2>3. /\ events' \in Seq(Events) /\ DOMAIN events' = 1..(Len(events) + 2)
        /\ \A k \in 1..Len(events) : events'[k] = events[k]
        /\ events'[Len(events) + 2] = initiated
    BY <1>0, <1>t, <2>1, TwoMore
  <2>4. OfType("InstallInitiated")' = OfType("InstallInitiated") \cup {Len(events) + 2}
    BY <1>0, <1>a, <1>t, <2>1, TwoMore
  <2>5. OfType("AccessTokenReceived")' = OfType("AccessTokenReceived")
    BY <1>0, <1>a, <1>t, <2>1, TwoMore
  <2>6. TypeOK'
    BY <1>3, <1>t, <2>1, <2>2, <2>3 DEF TypeOK, Dtos, Statuses
  <2>7. EventsTellTheInstall'
    <3> SUFFICES ASSUME NEW k, IsLatest(k, "InstallInitiated")'
                 PROVE  events'[k] = initiated
      BY <1>a, <2>2, <2>4 DEF EventsTellTheInstall
    <3>1. k \in 1..(Len(events) + 2) /\ Len(events) + 2 <= k
      BY <2>3, <2>4 DEF IsLatest, OfType
    <3> QED
      BY <1>t, <2>3, <3>1
  <2>8. TokensAgree'
    <3> SUFFICES ASSUME NEW k, IsLatest(k, "AccessTokenReceived")'
                 PROVE  token = events'[k].token
      BY <2>1, <2>2 DEF TokensAgree
    <3>1. IsLatest(k, "AccessTokenReceived") /\ k \in DOMAIN events
      BY <2>5 DEF IsLatest, OfType
    <3>2. ~spoilt
      BY <3>1 DEF IInv, InstallInv, NoneUntold, IsLatest
    <3> QED
      BY <1>t, <2>3, <3>1, <3>2 DEF TokensAgree, IInv, InstallInv
  <2>9. ShopsAgree' /\ NoneUntold' /\ NothingSurvivesReconnecting'
    BY <2>1, <2>2 DEF ShopsAgree, NoneUntold, NothingSurvivesReconnecting
  <2> QED
    BY <2>6, <2>7, <2>8, <2>9 DEF IInv, InstallInv
<1> QED
  BY <1>1, <1>2, <1>3

\* The links and the code belong to the installation itself.
LEMMA LinksOfInstall ==
  ASSUME NEW i \in Installs
  PROVE  /\ i.shop \in Shops /\ i.nonce \in Times /\ i.token \in Tokens \cup {NA}
         /\ [i EXCEPT !.of = NoId] \in Installs
         /\ [i EXCEPT !.installLink = [shop |-> i.shop, nonce |-> i.nonce],
                      !.status = "PENDING_SHOPIFY_ACCEPT"] \in Installs
         /\ \A c \in Codes : [i EXCEPT !.status = "ACCEPTED", !.code = c,
                                       !.tokenLink = i.shop] \in Installs
         /\ \A t \in Tokens : [i EXCEPT !.token = t] \in Installs
BY DEF Installs, Links

LEMMA ILink ==
  ASSUME IInv, GenerateInstallLink
  PROVE  IInv'
<1> DEFINE new == [install EXCEPT !.installLink = InstallLink,
                                  !.status = "PENDING_SHOPIFY_ACCEPT"]
<1>1. /\ install' = IF install = NoInstall THEN NoInstall ELSE new
      /\ outcome' = "ok"
      /\ UNCHANGED <<id, user, shop, token, status, events, spoilt, tried>>
  BY DEF GenerateInstallLink, WithInstall, Return
<1>2. CASE install = NoInstall
  BY <1>1, <1>2 DEF IInv, InstallInv, TypeOK, EventsTellTheInstall, TokensAgree, ShopsAgree,
                    NoneUntold, NothingSurvivesReconnecting, OfType, IsLatest
<1>3. CASE install # NoInstall
  <2>1. install \in Installs /\ TypeOK
    BY <1>3 DEF IInv, InstallInv, TypeOK
  <2>2. /\ new \in Installs /\ new # NoInstall
        /\ new.shop = install.shop /\ new.nonce = install.nonce
        /\ new.token = install.token /\ new.code = install.code
        /\ new.tokenLink = install.tokenLink
        /\ new.installLink.shop = install.shop /\ new.installLink.nonce = install.nonce
    <3>1. new \in Installs
      BY <2>1, LinksOfInstall DEF InstallLink
    <3>2. new # NoInstall
      BY <3>1, NotAnInstall
    <3>3. /\ new.shop = install.shop
          /\ new.nonce = install.nonce
          /\ new.token = install.token
          /\ new.code = install.code
          /\ new.tokenLink = install.tokenLink
          /\ new.installLink.shop = install.shop
          /\ new.installLink.nonce = install.nonce
      BY <2>1 DEF InstallLink, Installs
    <3> QED
      BY <3>1, <3>2, <3>3
  <2> HIDE DEF new
  <2>3. install' = new
    BY <1>1, <1>3
  <2>4. TypeOK'
    BY <1>1, <2>1, <2>2, <2>3 DEF TypeOK
  <2>5. EventsTellTheInstall' /\ TokensAgree' /\ ShopsAgree' /\ NoneUntold'
        /\ NothingSurvivesReconnecting'
    BY <1>1, <1>3, <2>2, <2>3 DEF IInv, InstallInv, EventsTellTheInstall, TokensAgree,
         ShopsAgree, NoneUntold, NothingSurvivesReconnecting, OfType, IsLatest
  <2> QED
    BY <2>4, <2>5 DEF IInv, InstallInv
<1> QED
  BY <1>2, <1>3

LEMMA IAccept ==
  ASSUME IInv, NEW code \in Codes, Accept(code)
  PROVE  IInv'
<1> DEFINE new == [install EXCEPT !.status = "ACCEPTED", !.code = code,
                                  !.tokenLink = install.shop]
<1>1. /\ install' = IF install = NoInstall THEN NoInstall ELSE new
      /\ outcome' = "ok"
      /\ UNCHANGED <<id, user, shop, token, status, events, spoilt, tried>>
  BY DEF Accept, WithInstall, Return
<1>2. CASE install = NoInstall
  BY <1>1, <1>2 DEF IInv, InstallInv, TypeOK, EventsTellTheInstall, TokensAgree, ShopsAgree,
                    NoneUntold, NothingSurvivesReconnecting, OfType, IsLatest
<1>3. CASE install # NoInstall
  <2>1. install \in Installs /\ TypeOK
    BY <1>3 DEF IInv, InstallInv, TypeOK
  <2>2. /\ new \in Installs /\ new # NoInstall
        /\ new.shop = install.shop /\ new.nonce = install.nonce
        /\ new.token = install.token /\ new.installLink = install.installLink
        /\ new.code = code /\ new.tokenLink = install.shop
    <3>1. new \in Installs
      BY <2>1, LinksOfInstall
    <3>2. new # NoInstall
      BY <3>1, NotAnInstall
    <3>3. /\ new.shop = install.shop
          /\ new.nonce = install.nonce
          /\ new.token = install.token
          /\ new.installLink = install.installLink
          /\ new.code = code
          /\ new.tokenLink = install.shop
      BY <2>1 DEF Installs
    <3> QED
      BY <3>1, <3>2, <3>3
  <2>3. code # NA /\ install.shop # NA
    BY <2>1, LinksOfInstall, ShopifyConstants
  <2> HIDE DEF new
  <2>4. install' = new
    BY <1>1, <1>3
  <2>5. TypeOK'
    BY <1>1, <2>1, <2>2, <2>4 DEF TypeOK
  <2>6. EventsTellTheInstall' /\ TokensAgree' /\ ShopsAgree' /\ NoneUntold'
        /\ NothingSurvivesReconnecting'
    BY <1>1, <1>3, <2>2, <2>3, <2>4 DEF IInv, InstallInv, EventsTellTheInstall, TokensAgree,
         ShopsAgree, NoneUntold, NothingSurvivesReconnecting, OfType, IsLatest
  <2> QED
    BY <2>5, <2>6 DEF IInv, InstallInv
<1> QED
  BY <1>2, <1>3

LEMMA IToken ==
  ASSUME IInv, NEW t \in Tokens, NEW fresh \in Ids, GenerateAccessToken(t, fresh)
  PROVE  IInv'
<1> DEFINE e == [type |-> "AccessTokenReceived", aggregate |-> fresh, token |-> t]
<1>0. e \in Events /\ e.type = "AccessTokenReceived" /\ e.token = t /\ t # NA
  BY ShopifyConstants DEF Events
<1>t. TypeOK /\ events \in Seq(Events) /\ Len(events) \in Nat /\ DOMAIN events = 1..Len(events)
  BY DomainIsLength DEF IInv, InstallInv, TypeOK
<1>1. token' = t /\ UNCHANGED <<id, user, shop, status, tried>>
  BY DEF GenerateAccessToken, TokenGiven
<1>2. CASE install = NoInstall
  <2>1. outcome' = "error" /\ spoilt' = TRUE /\ UNCHANGED <<install, events>>
    BY <1>2 DEF GenerateAccessToken, Throw
  <2> QED
    BY <1>t, <1>1, <1>2, <2>1 DEF IInv, InstallInv, TypeOK, EventsTellTheInstall, TokensAgree,
         ShopsAgree, NoneUntold, NothingSurvivesReconnecting, OfType, IsLatest
<1>3. CASE install # NoInstall
  <2> DEFINE new == [install EXCEPT !.token = t]
  <2>1. /\ install' = new /\ events' = Append(events, e)
        /\ outcome' = "ok" /\ UNCHANGED spoilt
    BY <1>3 DEF GenerateAccessToken, Return
  <2>2. install \in Installs
    BY <1>t, <1>3 DEF TypeOK
  <2>3. /\ new \in Installs /\ new # NoInstall /\ new.token = t
        /\ new.shop = install.shop /\ new.nonce = install.nonce
        /\ new.installLink = install.installLink
        /\ new.code = install.code /\ new.tokenLink = install.tokenLink
    <3>1. new \in Installs
      BY <2>2, LinksOfInstall
    <3>2. new # NoInstall
      BY <3>1, NotAnInstall
    <3>3. /\ new.token = t
          /\ new.shop = install.shop
          /\ new.nonce = install.nonce
          /\ new.installLink = install.installLink
          /\ new.code = install.code
          /\ new.tokenLink = install.tokenLink
      BY <2>2 DEF Installs
    <3> QED
      BY <3>1, <3>2, <3>3
  <2> HIDE DEF new, e
  <2>4. /\ events' \in Seq(Events) /\ DOMAIN events' = 1..(Len(events) + 1)
        /\ \A k \in 1..Len(events) : events'[k] = events[k]
        /\ events'[Len(events) + 1] = e
    BY <1>0, <1>t, <2>1, OneMore
  <2>5. OfType("InstallInitiated")' = OfType("InstallInitiated")
    BY <1>0, <1>t, <2>1, OneMore
  <2>6. OfType("AccessTokenReceived")' = OfType("AccessTokenReceived") \cup {Len(events) + 1}
    BY <1>0, <1>t, <2>1, OneMore
  <2>7. TypeOK'
    BY <1>t, <1>1, <2>1, <2>3, <2>4 DEF TypeOK
  <2>8. EventsTellTheInstall'
    <3> SUFFICES ASSUME NEW k, IsLatest(k, "InstallInitiated")'
                 PROVE  install.shop = events'[k].dto.shop /\ install.nonce = events'[k].dto.timestamp
      BY <1>3, <2>1, <2>3, <2>5 DEF EventsTellTheInstall, IInv, InstallInv
    <3>1. IsLatest(k, "InstallInitiated") /\ k \in DOMAIN events
      BY <2>5 DEF IsLatest, OfType
    <3> QED
      BY <1>t, <2>4, <3>1 DEF EventsTellTheInstall, IInv, InstallInv
  <2>9. TokensAgree'
    <3> SUFFICES ASSUME NEW k, IsLatest(k, "AccessTokenReceived")'
                 PROVE  events'[k].token = t
      BY <1>1, <2>1, <2>3 DEF TokensAgree
    <3>1. k \in 1..(Len(events) + 1) /\ Len(events) + 1 <= k
      BY <2>4, <2>6 DEF IsLatest, OfType
    <3> QED
      BY <1>0, <1>t, <2>4, <3>1
  <2>10. ShopsAgree' /\ NoneUntold'
    BY <1>1, <1>3, <2>1, <2>3 DEF ShopsAgree, NoneUntold, IInv, InstallInv
  <2>11. NothingSurvivesReconnecting'
    <3>1. \A k \in OfType("InstallInitiated")' : k < Len(events) + 1
      BY <1>t, <2>5 DEF OfType
    <3>2. Len(events) + 1 \in OfType("AccessTokenReceived")'
      BY <2>6
    <3> QED
      BY <1>3, <2>1, <2>3, <3>1, <3>2 DEF NothingSurvivesReconnecting, IInv
  <2> QED
    BY <2>7, <2>8, <2>9, <2>10, <2>11 DEF IInv, InstallInv
<1> QED
  BY <1>2, <1>3

LEMMA IStatus ==
  ASSUME IInv, NEW s \in Statuses, SetStatus(s)
  PROVE  IInv'
BY DEF SetStatus, Return, IInv, InstallInv, TypeOK, EventsTellTheInstall, TokensAgree, ShopsAgree,
       NoneUntold, NothingSurvivesReconnecting, OfType, IsLatest

\* A call that throws before it changes anything, and a stutter.
LEMMA IThrow ==
  ASSUME IInv, UNCHANGED <<account, spoilt, tried>>, outcome' \in {"ok", "error"}
  PROVE  IInv'
<1>1. UNCHANGED <<id, user, shop, token, status, events, install, spoilt, tried>>
  BY DEF account
<1> QED
  BY <1>1 DEF IInv, InstallInv, TypeOK, EventsTellTheInstall, TokensAgree, ShopsAgree,
              NoneUntold, NothingSurvivesReconnecting, OfType, IsLatest

LEMMA IReload ==
  ASSUME IInv, Reload
  PROVE  IInv'
<1>1. CASE install = NoInstall
  BY <1>1, IThrow DEF Reload, Throw
<1>2. CASE install # NoInstall
  <2> DEFINE new == [install EXCEPT !.of = NoId]
  <2>1. /\ install' = new /\ outcome' = "ok"
        /\ events' = [k \in DOMAIN events |-> [events[k] EXCEPT !.aggregate = NoId]]
        /\ UNCHANGED <<id, user, shop, token, status, spoilt, tried>>
    BY <1>2 DEF Reload, ReloadedInstall, Return
  <2>2. install \in Installs /\ TypeOK /\ events \in Seq(Events) /\ DOMAIN events = 1..Len(events)
        /\ Len(events) \in Nat /\ \A k \in DOMAIN events : events[k] \in Events
    BY <1>2, DomainIsLength DEF IInv, InstallInv, TypeOK
  <2>3. /\ new \in Installs /\ new # NoInstall /\ new.token = install.token
        /\ new.shop = install.shop /\ new.nonce = install.nonce
        /\ new.installLink = install.installLink
        /\ new.code = install.code /\ new.tokenLink = install.tokenLink
    <3>1. new \in Installs
      BY <2>2, LinksOfInstall
    <3>2. new # NoInstall
      BY <3>1, NotAnInstall
    <3>3. /\ new.token = install.token
          /\ new.shop = install.shop
          /\ new.nonce = install.nonce
          /\ new.installLink = install.installLink
          /\ new.code = install.code
          /\ new.tokenLink = install.tokenLink
      BY <2>2 DEF Installs
    <3> QED
      BY <3>1, <3>2, <3>3
  <2> HIDE DEF new
  <2>4. /\ DOMAIN events' = DOMAIN events
        /\ \A k \in DOMAIN events :
             /\ events'[k] \in Events /\ events'[k].type = events[k].type
             /\ events[k].type = "AccessTokenReceived" => events'[k].token = events[k].token
             /\ events[k].type = "InstallInitiated" => events'[k].dto = events[k].dto
    BY <2>1, <2>2, ReloadedEvent
  <2>5. events' \in [1..Len(events) -> Events]
    BY <2>1, <2>2, <2>4
  <2>6. events' \in Seq(Events)
    BY <2>2, <2>5, SeqDef
  <2>7. TypeOK'
    BY <2>1, <2>2, <2>3, <2>6 DEF TypeOK
  <2>8. \A type : OfType(type)' = OfType(type)
    BY <2>4 DEF OfType
  <2>9. \A type, k : IsLatest(k, type)' => /\ IsLatest(k, type) /\ k \in DOMAIN events
                                          /\ events[k].type = type
    BY <2>8 DEF IsLatest, OfType
  <2>10. EventsTellTheInstall'
    BY <1>2, <2>1, <2>3, <2>4, <2>8, <2>9 DEF EventsTellTheInstall, IInv, InstallInv
  <2>11. TokensAgree'
    BY <1>2, <2>1, <2>3, <2>4, <2>9 DEF TokensAgree, IInv, InstallInv
  <2>12. ShopsAgree' /\ NoneUntold' /\ NothingSurvivesReconnecting'
    BY <1>2, <2>1, <2>3, <2>8 DEF ShopsAgree, NoneUntold, NothingSurvivesReconnecting,
         IInv, InstallInv
  <2> QED
    BY <2>7, <2>10, <2>11, <2>12 DEF IInv, InstallInv
<1> QED
  BY <1>1, <1>2

LEMMA INext == IInv /\ [Next]_vars => IInv'
<1> SUFFICES ASSUME IInv, [Next]_vars PROVE IInv'
  OBVIOUS
<1>1. CASE \E dto \in Dtos, fresh, other \in Ids : fresh # other /\ Connect(dto, fresh, other)
  BY <1>1, IConnect
<1>2. CASE GenerateInstallLink
  BY <1>2, ILink
<1>3. CASE \E c \in Codes : Accept(c)
  BY <1>3, IAccept
<1>4. CASE \E t \in Tokens, fresh \in Ids : GenerateAccessToken(t, fresh)
  BY <1>4, IToken
<1>5. CASE \E s \in Statuses \ {"PENDING_INSTALL"} : SetStatus(s)
  BY <1>5, IStatus
<1>6. CASE Reload
  BY <1>6, IReload
<1>7. CASE Request
  BY <1>7, IThrow DEF Request, ConnectRequest, AcceptRequest, GetRequest, DeleteRequest,
                      GetAllRequest, NotImplemented, Throw
<1>8. CASE UNCHANGED vars
  <2>1. UNCHANGED <<account, spoilt, tried>> /\ outcome' = outcome
    BY <1>8 DEF vars
  <2>2. outcome \in {"ok", "error"}
    BY DEF IInv, InstallInv, TypeOK
  <2> QED
    BY <2>1, <2>2, IThrow
<1> QED
  BY <1>1, <1>2, <1>3, <1>4, <1>5, <1>6, <1>7, <1>8 DEF Next

(* In every state the types hold, the events tell of the installation there is,
   and the copies of its token and its shop agree, however often and in whatever
   order the calls are made, and wherever they throw (ShopifyAccount). *)
THEOREM InstallInvariance == Spec => []InstallInv
<1>1. IInv => InstallInv
  BY DEF IInv
<1> QED
  BY <1>1, IInit, INext, PTL DEF Spec

(* Nothing of an earlier installation survives a connection (initInstall). *)
THEOREM ReconnectingStartsAfresh == Spec => []NothingSurvivesReconnecting
<1>1. IInv => NothingSurvivesReconnecting
  BY DEF IInv
<1> QED
  BY <1>1, IInit, INext, PTL DEF Spec

-----------------------------------------------------------------------------
\* What a call that throws may have done.
Harmless ==
  outcome' = "error" =>
    /\ install' = install /\ status' = status
    /\ \/ events' = events
       \/ Len(events') = Len(events) + 1 /\ events'[Len(events')].type = "Created"

LEMMA FailedConnection ==
  ASSUME events \in Seq(Events), NEW dto \in Dtos, NEW fresh \in Ids, NEW other \in Ids,
         Connect(dto, fresh, other)
  PROVE  Harmless
<1> DEFINE created == [type |-> "Created", aggregate |-> fresh, dto |-> dto]
<1>1. CASE dto.shop = BadShop
  BY <1>1 DEF Connect, Harmless, account
<1>2. CASE dto.shop # BadShop /\ dto.timestamp = BadTime
  <2>1. events' = Append(events, created) /\ UNCHANGED <<install, status>>
    BY <1>2 DEF Connect, Raised, Begun
  <2>2. created \in Events /\ created.type = "Created"
    BY DEF Events
  <2> HIDE DEF created
  <2>3. Len(events') = Len(events) + 1 /\ events'[Len(events) + 1] = created
    BY <2>1, <2>2, OneMore
  <2> QED
    BY <2>1, <2>2, <2>3 DEF Harmless
<1>3. CASE dto.shop # BadShop /\ dto.timestamp # BadTime
  BY <1>3 DEF Connect, Return, Harmless
<1> QED
  BY <1>1, <1>2, <1>3

(* A call that throws leaves the installation, the status and all events there
   were as they are (initInstall, generateAccessToken). *)
THEOREM FailuresKeepTheInstall == Spec => FailedCallsKeepTheInstall
<1>1. ASSUME TypeOK, Next PROVE Harmless
  <2>1. CASE \E dto \in Dtos, fresh, other \in Ids : fresh # other /\ Connect(dto, fresh, other)
    BY <1>1, <2>1, FailedConnection DEF TypeOK
  <2>2. CASE GenerateInstallLink \/ (\E c \in Codes : Accept(c))
    BY <2>2 DEF GenerateInstallLink, Accept, WithInstall, Return, Harmless
  <2>3. CASE \E t \in Tokens, fresh \in Ids : GenerateAccessToken(t, fresh)
    BY <2>3 DEF GenerateAccessToken, Return, Harmless
  <2>4. CASE \E s \in Statuses \ {"PENDING_INSTALL"} : SetStatus(s)
    BY <2>4 DEF SetStatus, Return, Harmless
  <2>5. CASE Reload \/ Request
    BY <2>5 DEF Reload, Request, ConnectRequest, AcceptRequest, GetRequest, DeleteRequest,
                GetAllRequest, NotImplemented, Return, Throw, Harmless, account
  <2> QED
    BY <1>1, <2>1, <2>2, <2>3, <2>4, <2>5 DEF Next
<1>2. TypeOK /\ [Next]_vars => [Harmless]_vars
  BY <1>1
<1>3. InstallInv => TypeOK
  BY DEF InstallInv
<1> QED
  BY <1>2, <1>3, InstallInvariance, PTL DEF Spec, FailedCallsKeepTheInstall, Harmless
-----------------------------------------------------------------------------
(* LineItemRules *)

\* The lookup finds the first property of the rule's name, if there is one.
LEMMA FirstOfTheName ==
  ASSUME personalization \in Seq(Properties), NEW rule
  PROVE  \/ Prop(rule) = 0 /\ Absent(rule)
         \/ /\ Prop(rule) \in 1..Len(personalization)
            /\ Judged(rule, Prop(rule)) /\ ~Absent(rule)
<1> DEFINE I == {k \in 1..Len(personalization) : SameName(personalization[k], rule)}
<1>0. Len(personalization) \in Nat
  BY DomainIsLength
<1>1. Prop(rule) = IF I # {} THEN Min(I) ELSE 0
  BY DEF Prop, SelectInSeq
<1>2. CASE I = {}
  BY <1>1, <1>2 DEF Absent, SameName
<1>3. CASE I # {}
  <2>1. I \subseteq Nat
    OBVIOUS
  <2> HIDE DEF I
  <2> DEFINE R == OpToRel(<, Nat)
  <2>a. IsWellFoundedOn(R, Nat)
    BY NatLessThanWellFounded
  <2>b. \A j, k \in Nat : j < k => <<j, k>> \in R
    BY DEF OpToRel
  <2> HIDE DEF R
  <2>2. PICK m \in I : \A k \in I : ~(<<k, m>> \in R)
    BY <1>3, <2>1, <2>a, WFMin
  <2>3. ASSUME NEW k \in I PROVE m =< k
    <3>1. k \in Nat /\ m \in Nat
      BY <2>1
    <3>2. ~(k < m)
      BY <2>2, <2>b, <3>1
    <3>. QED  BY <3>1, <3>2
  <2>4. \E x \in I : \A y \in I : x =< y
    BY <2>3
  <2>5. Min(I) \in I /\ \A y \in I : Min(I) =< y
    BY <2>4 DEF Min
  <2> USE DEF I
  <2>6. Prop(rule) \in 1..Len(personalization) /\ SameName(personalization[Prop(rule)], rule)
    BY <1>1, <1>3, <2>5
  <2>7. ASSUME NEW j \in 1..(Prop(rule) - 1)
        PROVE  ~SameName(personalization[j], rule)
    BY <1>0, <1>1, <1>3, <2>5, <2>6
  <2>. QED  BY <2>6, <2>7 DEF Judged, Absent, SameName
<1>. QED  BY <1>2, <1>3

\* There is one first property of a name.
LEMMA JudgedOnce ==
  ASSUME NEW rule, NEW j \in 1..Len(personalization), NEW k \in 1..Len(personalization),
         Judged(rule, j), Judged(rule, k), Len(personalization) \in Nat
  PROVE  j = k
<1>1. ~(j \in 1..(k - 1)) /\ ~(k \in 1..(j - 1))
  BY DEF Judged
<1>. QED  BY <1>1

\* A missing property breaks nothing but being required.
LEMMA BrokenIfAbsent ==
  ASSUME NEW rule, Absent(rule), NEW reason
  PROVE  Breaks(rule, reason) <=> rule.required /\ reason = "MISSING"
BY DEF Breaks, Judged, Absent

\* One that is there breaks what its value fails.
LEMMA BrokenIfGiven ==
  ASSUME NEW rule, NEW k \in 1..Len(personalization), Judged(rule, k),
         Len(personalization) \in Nat, NEW reason
  PROVE  Breaks(rule, reason) <=> Fails(rule, personalization[k].value, reason)
<1>1. ~Absent(rule)
  BY DEF Judged, Absent
<1>2. \A j \in 1..Len(personalization) : Judged(rule, j) => j = k
  BY JudgedOnce
<1>. QED  BY <1>1, <1>2 DEF Breaks

\* A flag pushed for what comes after all that is listed.
LEMMA PushLast ==
  ASSUME NEW fs \in Seq(Flags), NEW n \in Nat, NEW k \in Nat, NEW S \in SUBSET (Nat \X Nat),
         IsFiniteSet(S), Lists(fs, S),
         \A y \in S : y[1] < n \/ (y[1] = n /\ y[2] < k)
  PROVE  /\ IsFiniteSet(S \cup {<<n, k>>})
         /\ Lists(Append(fs, Flag(rules[n], Checks[k])), S \cup {<<n, k>>})
<1> DEFINE x == <<n, k>>
           T == S \cup {x}
           gs == Append(fs, Flag(rules[n], Checks[k]))
<1>1. x \notin S
  OBVIOUS
<1>2. /\ Cardinality(S) \in Nat /\ IsFiniteSet(T) /\ Cardinality(T) = Cardinality(S) + 1
  BY <1>1, FS_CardinalityType, FS_AddElement
<1>3. /\ Len(fs) = Cardinality(S) /\ Len(gs) = Len(fs) + 1
      /\ gs[Len(fs) + 1] = Flag(rules[n], Checks[k])
      /\ \A j \in 1..Len(fs) : gs[j] = fs[j]
  BY AppendProperties DEF Lists
<1>4. UpToWrong(T, x) = T
  BY DEF UpToWrong
<1>5. ASSUME NEW y \in S
      PROVE  gs[Cardinality(UpToWrong(T, y))] = Flag(rules[y[1]], Checks[y[2]])
  <2>1. UpToWrong(T, y) = UpToWrong(S, y)
    BY DEF UpToWrong
  <2> DEFINE U == UpToWrong(S, y)
  <2>2. U \in SUBSET S /\ y \in U
    BY DEF UpToWrong
  <2> HIDE DEF U
  <2>3. IsFiniteSet(U) /\ Cardinality(U) <= Cardinality(S)
    BY <2>2, FS_Subset
  <2>4. Cardinality(U) \in Nat /\ Cardinality(U) # 0
    BY <2>2, <2>3, FS_CardinalityType, FS_EmptySet
  <2>5. Cardinality(U) \in 1..Len(fs)
    BY <1>2, <1>3, <2>3, <2>4
  <2>6. fs[Cardinality(U)] = Flag(rules[y[1]], Checks[y[2]])
    BY DEF Lists, U
  <2>. QED  BY <1>3, <2>1, <2>5, <2>6 DEF U
<1>6. gs[Cardinality(UpToWrong(T, x))] = Flag(rules[x[1]], Checks[x[2]])
  BY <1>2, <1>3, <1>4
<1> HIDE DEF gs
<1>7. \A y \in T : gs[Cardinality(UpToWrong(T, y))] = Flag(rules[y[1]], Checks[y[2]])
  BY <1>5, <1>6
<1>8. Len(gs) = Cardinality(T)
  BY <1>2, <1>3
<1>. QED  BY <1>2, <1>7, <1>8 DEF Lists, gs
-----------------------------------------------------------------------------
\* What is wrong under the rules before n and, under n, with the first k checks.
WrongsSoFar(n, k) == {x \in Wrongs(n) : x[1] < n \/ x[2] <= k}

LEMMA WrongsOfOneMore ==
  ASSUME NEW n \in Nat \ {0}
  PROVE  /\ WrongsSoFar(n, 0) = Wrongs(n - 1)
         /\ WrongsSoFar(n, 4) = Wrongs(n)
BY DEF WrongsSoFar, Wrongs, Checks

LEMMA WrongsAreFinite ==
  ASSUME NEW n \in Nat
  PROVE  IsFiniteSet(Wrongs(n)) /\ Wrongs(n) \in SUBSET (Nat \X Nat)
<1>0. Len(Checks) = 4
  BY DEF Checks
<1>1. IsFiniteSet(1..n) /\ IsFiniteSet(1..4)
  <2>1. n \in Int /\ 1 \in Int /\ 4 \in Int
    OBVIOUS
  <2>. QED  BY <2>1, FS_Interval
<1>2. IsFiniteSet((1..n) \X (1..4))
  BY <1>1, FS_Product
<1>3. Wrongs(n) \in SUBSET ((1..n) \X (1..4))
  BY <1>0 DEF Wrongs
<1>. QED  BY <1>2, <1>3, FS_Subset

\* One check: a flag is pushed if the check fails, and what is listed grows by it.
LEMMA OneCheck ==
  ASSUME NEW n \in Nat \ {0}, NEW k \in 1..4, rules[n] \in Rules,
         NEW fs \in Seq(Flags), Lists(fs, WrongsSoFar(n, k - 1)),
         NEW test \in BOOLEAN, test <=> Breaks(rules[n], Checks[k])
  PROVE  LET gs == fs \o When(test, Flag(rules[n], Checks[k]))
         IN gs \in Seq(Flags) /\ Lists(gs, WrongsSoFar(n, k))
<1> DEFINE S == WrongsSoFar(n, k - 1)
           T == WrongsSoFar(n, k)
           f == Flag(rules[n], Checks[k])
<1>1. S \in SUBSET (Nat \X Nat) /\ IsFiniteSet(S)
  BY WrongsAreFinite, FS_Subset DEF WrongsSoFar
<1>2. \A y \in S : y[1] < n \/ (y[1] = n /\ y[2] < k)
  BY <1>1 DEF WrongsSoFar, Wrongs
<1>3. f \in Flags
  BY DEF Flag, Flags, Rules, Reasons, Checks
<1>4. CASE test
  <2>1. T = S \cup {<<n, k>>}
    BY <1>4 DEF WrongsSoFar, Wrongs, Checks
  <2>2. fs \o When(test, f) = Append(fs, f) /\ Append(fs, f) \in Seq(Flags)
    BY <1>3, <1>4 DEF When
  <2>3. Lists(Append(fs, f), S \cup {<<n, k>>})
    <3>1. Lists(fs, S) /\ n \in Nat /\ k \in Nat
      OBVIOUS
    <3> HIDE DEF S
    <3>2. Lists(Append(fs, Flag(rules[n], Checks[k])), S \cup {<<n, k>>})
      BY <1>1, <1>2, <3>1, PushLast
    <3>. QED  BY <3>2
  <2> HIDE DEF f, S, T
  <2>4. fs \o When(test, f) \in Seq(Flags) /\ Lists(fs \o When(test, f), T)
    BY <2>1, <2>2, <2>3
  <2>. QED  BY <2>4 DEF f, T
<1>5. CASE ~test
  <2>1. T = S
    BY <1>5 DEF WrongsSoFar, Wrongs, Checks
  <2>2. fs \o When(test, f) = fs
    BY <1>5 DEF When
  <2>. QED  BY <2>1, <2>2
<1>. QED  BY <1>4, <1>5

\* A rule passed: what is wrong under it is listed after what was wrong before.
LEMMA FourChecks ==
  ASSUME NEW n \in Nat \ {0}, rules[n] \in Rules,
         NEW fs \in Seq(Flags), Lists(fs, Wrongs(n - 1)),
         NEW missing \in BOOLEAN, NEW long \in BOOLEAN, NEW other \in BOOLEAN, NEW bad \in BOOLEAN,
         missing <=> Breaks(rules[n], "MISSING"), long <=> Breaks(rules[n], "INVALID_LENGTH"),
         other <=> Breaks(rules[n], "INVALID_OPTION"), bad <=> Breaks(rules[n], "BAD_CHARACTER")
  PROVE  LET gs == (((fs \o When(missing, Flag(rules[n], "MISSING")))
                     \o When(long, Flag(rules[n], "INVALID_LENGTH")))
                     \o When(other, Flag(rules[n], "INVALID_OPTION")))
                     \o When(bad, Flag(rules[n], "BAD_CHARACTER"))
         IN gs \in Seq(Flags) /\ Lists(gs, Wrongs(n))
<1> DEFINE f1 == fs \o When(missing, Flag(rules[n], "MISSING"))
           f2 == f1 \o When(long, Flag(rules[n], "INVALID_LENGTH"))
           f3 == f2 \o When(other, Flag(rules[n], "INVALID_OPTION"))
           f4 == f3 \o When(bad, Flag(rules[n], "BAD_CHARACTER"))
<1>0. /\ Checks[1] = "MISSING" /\ Checks[2] = "INVALID_LENGTH"
      /\ Checks[3] = "INVALID_OPTION" /\ Checks[4] = "BAD_CHARACTER"
  BY DEF Checks
<1>1. Lists(fs, WrongsSoFar(n, 1 - 1))
  BY WrongsOfOneMore
<1>2. f1 \in Seq(Flags) /\ Lists(f1, WrongsSoFar(n, 2 - 1))
  BY <1>0, <1>1, OneCheck
<1> HIDE DEF f1
<1>3. f2 \in Seq(Flags) /\ Lists(f2, WrongsSoFar(n, 3 - 1))
  BY <1>0, <1>2, OneCheck
<1> HIDE DEF f2
<1>4. f3 \in Seq(Flags) /\ Lists(f3, WrongsSoFar(n, 4 - 1))
  BY <1>0, <1>3, OneCheck
<1> HIDE DEF f3
<1>5. f4 \in Seq(Flags) /\ Lists(f4, WrongsSoFar(n, 4))
  BY <1>0, <1>4, OneCheck
<1>. QED  BY <1>5, WrongsOfOneMore DEF f1, f2, f3, f4
-----------------------------------------------------------------------------
\* The loop starts with nothing listed.
LEMMA PassedInit == ValidateInit => Passed
<1> SUFFICES ASSUME ValidateInit PROVE Passed
  OBVIOUS
<1>1. \A S : \A n \in Nat : UpTo(S, n) \in SUBSET Seq(S)
  BY DEF UpTo
<1>2. rules \in Seq(Rules) /\ personalization \in Seq(Properties)
  BY <1>1, RulesConstants DEF ValidateInit
<1>3. Len(rules) \in Nat
  BY <1>2, DomainIsLength
<1>4. Wrongs(0) = {}
  BY DEF Wrongs
<1>5. Lists(<<>>, Wrongs(0))
  BY <1>4, FS_EmptySet DEF Lists
<1>. QED  BY <1>2, <1>3, <1>5 DEF ValidateInit, Passed

\* What is wrong, and how it is listed, does not depend on where the loop is.
LEMMA RulesStay ==
  ASSUME UNCHANGED <<rules, personalization>>
  PROVE  /\ \A rule : Unanswerable(rule)' <=> Unanswerable(rule)
         /\ \A n : Wrongs(n)' = Wrongs(n)
         /\ \A fs, S : Lists(fs, S)' <=> Lists(fs, S)
<1>1. \A rule : Absent(rule)' <=> Absent(rule)
  BY DEF Absent
<1>2. \A rule, reason : Breaks(rule, reason)' <=> Breaks(rule, reason)
  BY <1>1 DEF Breaks, Judged
<1>. QED  BY <1>1, <1>2 DEF Unanswerable, Wrongs, Lists

\* Passing a rule: enough that its flags were listed and that it could be answered.
LEMMA RulePassed ==
  ASSUME Passed, verdict = "running", ruleNo <= Len(rules),
         NEW gs \in Seq(Flags), Lists(gs, Wrongs(ruleNo)), ~Unanswerable(rules[ruleNo]),
         flags' = gs, ruleNo' = ruleNo + 1, UNCHANGED <<rules, personalization, verdict>>
  PROVE  Passed'
<1>1. /\ rules \in Seq(Rules) /\ ruleNo \in 1..(Len(rules) + 1) /\ Len(rules) \in Nat
      /\ \A n \in 1..(ruleNo - 1) : ~Unanswerable(rules[n])
  BY DomainIsLength DEF Passed
<1> PICK k \in Nat : k = ruleNo
  BY <1>1
<1>2. ruleNo' \in 1..(Len(rules') + 1) /\ ruleNo' - 1 = k
  BY <1>1
<1>3. Lists(gs, Wrongs(k))'
  BY RulesStay
<1>4. Lists(flags, Wrongs(ruleNo - 1))'
  BY <1>2, <1>3
<1>5. \A n \in 1..k : ~Unanswerable(rules[n])
  BY <1>1
<1>6. (\A n \in 1..(ruleNo - 1) : ~Unanswerable(rules[n]))'
  BY <1>2, <1>5, RulesStay
<1>. QED  BY <1>2, <1>4, <1>6 DEF Passed

\* Where the loop does not move.
LEMMA NothingPassed ==
  ASSUME Passed, UNCHANGED validateVars
  PROVE  Passed'
<1>0. UNCHANGED <<rules, personalization, ruleNo, flags, verdict>>
  BY DEF validateVars
<1>1. /\ Lists(flags, Wrongs(ruleNo - 1))'
      /\ (\A n \in 1..(ruleNo - 1) : ~Unanswerable(rules[n]))'
      /\ (verdict = "threw" => ruleNo <= Len(rules) /\ Unanswerable(rules[ruleNo]))'
  <2> PICK k, fs, rs : k = ruleNo /\ fs = flags /\ rs = rules
    OBVIOUS
  <2>1. /\ Lists(fs, Wrongs(k - 1)) /\ \A n \in 1..(k - 1) : ~Unanswerable(rs[n])
        /\ verdict = "threw" => k <= Len(rs) /\ Unanswerable(rs[k])
    BY DEF Passed
  <2>2. /\ Lists(fs, Wrongs(k - 1))' /\ \A n \in 1..(k - 1) : ~Unanswerable(rs[n])'
        /\ verdict = "threw" => k <= Len(rs) /\ Unanswerable(rs[k])'
    BY <1>0, <2>1, RulesStay
  <2>. QED  BY <1>0, <2>2
<1>. QED  BY <1>0, <1>1 DEF Passed

\* Returning, and throwing, leave the flags alone.
LEMMA LoopEnds ==
  ASSUME Passed, ReturnFlags \/ ThrowOnMissing
  PROVE  Passed'
<1>1. /\ rules \in Seq(Rules) /\ personalization \in Seq(Properties)
      /\ ruleNo \in 1..(Len(rules) + 1) /\ Len(rules) \in Nat /\ flags \in Seq(Flags)
      /\ verdict = "running" /\ UNCHANGED <<rules, personalization, ruleNo, flags>>
  BY DomainIsLength DEF Passed, ReturnFlags, ThrowOnMissing
<1> PICK k \in Nat, fs \in Seq(Flags) : k = ruleNo /\ fs = flags
  BY <1>1
<1>2. Lists(fs, Wrongs(k - 1)) /\ \A n \in 1..(k - 1) : ~Unanswerable(rules[n])
  BY DEF Passed
<1>3. Lists(fs, Wrongs(k - 1))' /\ \A n \in 1..(k - 1) : ~Unanswerable(rules[n])'
  BY <1>1, <1>2, RulesStay
<1>4. k' = ruleNo' /\ fs' = flags'
  BY <1>1
<1>5. Lists(flags, Wrongs(ruleNo - 1))' /\ (\A n \in 1..(ruleNo - 1) : ~Unanswerable(rules[n]))'
  BY <1>1, <1>3
<1>6. CASE ReturnFlags
  BY <1>1, <1>5, <1>6 DEF Passed, ReturnFlags
<1>7. CASE ThrowOnMissing
  <2>1. ruleNo <= Len(rules) /\ Prop(rules[ruleNo]) = 0 /\ ~rules[ruleNo].required
        /\ rules[ruleNo].options # {} /\ verdict' = "threw"
    BY <1>7 DEF ThrowOnMissing
  <2>2. ~(Prop(rules[ruleNo]) \in 1..Len(personalization))
    BY <2>1
  <2>3. Absent(rules[ruleNo])
    BY <1>1, <2>2, FirstOfTheName
  <2>4. Unanswerable(rules[k])
    BY <2>1, <2>3 DEF Unanswerable
  <2>5. Unanswerable(rules[ruleNo])'
    BY <1>1, <2>4, RulesStay
  <2>. QED  BY <1>1, <1>5, <2>1, <2>5 DEF Passed
<1>. QED  BY <1>6, <1>7

\* A rule whose property is missing.
LEMMA MissingPassed ==
  ASSUME Passed, FlagMissing \/ SkipMissing
  PROVE  Passed'
<1> DEFINE rule == rules[ruleNo]
           missing == rule.required
           gs == flags \o When(missing, Flag(rule, "MISSING"))
<1>1. /\ rules \in Seq(Rules) /\ personalization \in Seq(Properties)
      /\ ruleNo \in Nat \ {0} /\ ruleNo <= Len(rules) /\ rule \in Rules /\ flags \in Seq(Flags)
      /\ verdict = "running" /\ UNCHANGED <<rules, personalization, verdict>>
      /\ ruleNo' = ruleNo + 1 /\ Prop(rule) = 0 /\ Lists(flags, Wrongs(ruleNo - 1))
  BY DomainIsLength DEF Passed, FlagMissing, SkipMissing
<1>2. missing \in BOOLEAN /\ ~Unanswerable(rule) /\ Flag(rule, "MISSING") \in Flags
  BY <1>1 DEF Rules, Unanswerable, FlagMissing, SkipMissing, Flag, Flags, Reasons
<1>3. flags' = gs
  <2> DEFINE f == Flag(rule, "MISSING")
  <2>1. Append(flags, f) = flags \o <<f>> /\ flags = flags \o <<>>
    BY <1>1, <1>2
  <2>2. CASE FlagMissing
    BY <2>1, <2>2 DEF FlagMissing, When
  <2>3. CASE SkipMissing
    BY <2>1, <2>3 DEF SkipMissing, When
  <2>. QED  BY <2>2, <2>3
<1>4. Absent(rule)
  <2>1. ~(Prop(rule) \in 1..Len(personalization))
    BY <1>1
  <2>. QED  BY <1>1, <2>1, FirstOfTheName
<1>5. /\ missing <=> Breaks(rule, "MISSING")
      /\ FALSE <=> Breaks(rule, "INVALID_LENGTH")
      /\ FALSE <=> Breaks(rule, "INVALID_OPTION")
      /\ FALSE <=> Breaks(rule, "BAD_CHARACTER")
  BY <1>4, BrokenIfAbsent
<1>6. gs \in Seq(Flags)
  BY <1>1, <1>2 DEF When
<1>7. ((gs \o When(FALSE, Flag(rule, "INVALID_LENGTH")))
         \o When(FALSE, Flag(rule, "INVALID_OPTION")))
         \o When(FALSE, Flag(rule, "BAD_CHARACTER")) = gs
  BY <1>6 DEF When
<1>8. Lists(gs, Wrongs(ruleNo))
  <2> HIDE DEF missing
  <2>. QED  BY <1>1, <1>2, <1>5, <1>7, FourChecks
<1>. QED  BY <1>1, <1>2, <1>3, <1>6, <1>8, RulePassed

\* A rule whose property is judged.
LEMMA CheckPassed ==
  ASSUME Passed, CheckProperty
  PROVE  Passed'
<1> DEFINE rule == rules[ruleNo]
           v == personalization[Prop(rule)].value
           long == rule.maxLength > 0 /\ Length(v) > rule.maxLength
           other == rule.options # {} /\ v \notin rule.options
           bad == rule.pattern \notin Broken /\ ~Matches(rule.pattern, v)
           g1 == flags \o When(FALSE, Flag(rule, "MISSING"))
           g2 == g1 \o When(long, Flag(rule, "INVALID_LENGTH"))
           g3 == g2 \o When(other, Flag(rule, "INVALID_OPTION"))
           g4 == g3 \o When(bad, Flag(rule, "BAD_CHARACTER"))
<1>1. /\ rules \in Seq(Rules) /\ personalization \in Seq(Properties)
      /\ ruleNo \in Nat \ {0} /\ ruleNo <= Len(rules) /\ rule \in Rules /\ flags \in Seq(Flags)
      /\ verdict = "running" /\ UNCHANGED <<rules, personalization, verdict>>
      /\ ruleNo' = ruleNo + 1 /\ Prop(rule) # 0 /\ Lists(flags, Wrongs(ruleNo - 1))
  BY DomainIsLength DEF Passed, CheckProperty
<1>2. g1 = flags
  BY <1>1 DEF When
<1>3. flags' = g4
  BY <1>2 DEF CheckProperty
<1>4. /\ Prop(rule) \in 1..Len(personalization) /\ Judged(rule, Prop(rule)) /\ ~Absent(rule)
      /\ Len(personalization) \in Nat
  BY <1>1, FirstOfTheName, DomainIsLength
<1>5. /\ FALSE <=> Breaks(rule, "MISSING")
      /\ long <=> Breaks(rule, "INVALID_LENGTH")
      /\ other <=> Breaks(rule, "INVALID_OPTION")
      /\ bad <=> Breaks(rule, "BAD_CHARACTER")
  <2>1. \A reason : Breaks(rule, reason) <=> Fails(rule, v, reason)
    BY <1>4, BrokenIfGiven
  <2>2. rule.maxLength > 0 /\ Length(v) > rule.maxLength
          <=> 0 < rule.maxLength /\ rule.maxLength < Length(v)
    OBVIOUS
  <2>. QED  BY <2>1, <2>2 DEF Fails
<1>6. long \in BOOLEAN /\ other \in BOOLEAN /\ bad \in BOOLEAN
  OBVIOUS
<1>7. g4 \in Seq(Flags) /\ Lists(g4, Wrongs(ruleNo))
  <2> HIDE DEF long, other, bad
  <2>. QED  BY <1>1, <1>5, <1>6, FourChecks
<1>8. ~Unanswerable(rule)
  BY <1>4 DEF Unanswerable
<1> HIDE DEF g4
<1>. QED  BY <1>1, <1>3, <1>7, <1>8, RulePassed
-----------------------------------------------------------------------------
\* The loop of validate(), after any number of rules.
THEOREM LoopInvariance == ValidateSpec => []Passed
<1>1. Passed /\ [ValidateNext]_validateVars => Passed'
  <2> SUFFICES ASSUME Passed, [ValidateNext]_validateVars PROVE Passed'
    OBVIOUS
  <2>1. CASE ValidateNext
    BY <2>1, LoopEnds, MissingPassed, CheckPassed DEF ValidateNext
  <2>2. CASE UNCHANGED validateVars
    BY <2>2, NothingPassed
  <2>. QED  BY <2>1, <2>2
<1>. QED  BY <1>1, PassedInit, PTL DEF ValidateSpec

\* For any rules and properties, validate() returns what is broken, each once and in
\* order, whatever is missing, repeated or spelled otherwise.
THEOREM ValidateFlagsWhatIsBroken == ValidateSpec => []FlagsAreWhatIsBroken
<1>1. Passed => FlagsAreWhatIsBroken
  <2> SUFFICES ASSUME Passed, verdict = "returned" PROVE Lists(flags, Wrongs(Len(rules)))
    BY DEF FlagsAreWhatIsBroken
  <2>1. Len(rules) \in Nat /\ ruleNo - 1 = Len(rules)
    BY DomainIsLength DEF Passed
  <2>. QED  BY <2>1 DEF Passed
<1>. QED  BY <1>1, LoopInvariance, PTL

\* It throws on the optional properties with options that were left out, and on
\* nothing else.
THEOREM ValidateThrowsOnOptions == ValidateSpec => []ThrowsOnOptionalOptions
<1>1. Passed => ThrowsOnOptionalOptions
  <2> SUFFICES ASSUME Passed PROVE ThrowsOnOptionalOptions
    OBVIOUS
  <2>1. Len(rules) \in Nat /\ ruleNo \in 1..(Len(rules) + 1)
    BY DomainIsLength DEF Passed
  <2>. QED  BY <2>1 DEF Passed, ThrowsOnOptionalOptions
<1>. QED  BY <1>1, LoopInvariance, PTL
-----------------------------------------------------------------------------
(* MonogramPool *)

USE PoolConstants

\* Before the first query nothing is held, free or awaited.
LEMMA InitKept == PoolInit => Kept
BY DEF PoolInit, Kept, PoolTypeOK, LastIsNotLost, WaitersAreServed, Known, NewIsOwn, Queued,
       FirstUse, Holds, InFlight, Free, Labels

\* Asking for a connection keeps it: who must wait finds one at work.
LEMMA GetConnectionKept ==
  ASSUME NEW q \in Queries, Kept, GetConnection(q)
  PROVE  Kept'
<1>1. CASE \E c \in Free :
             /\ copies' = [copies EXCEPT ![c] = @ - 1]
             /\ Give(q, c, "granted")
             /\ UNCHANGED <<all, queue>>
  <2> PICK c \in Free : /\ copies' = [copies EXCEPT ![c] = @ - 1]
                        /\ Give(q, c, "granted")
                        /\ UNCHANGED <<all, queue>>
    BY <1>1
  <2>. QED
    BY DEF GetConnection, Give, Kept, PoolTypeOK, LastIsNotLost, WaitersAreServed, Known,
           NewIsOwn, Queued, FirstUse, Holds, InFlight, Free, Labels
<1>2. CASE \E c \in Conns \ all :
             /\ Free = {}
             /\ all' = all \cup {c}
             /\ Give(q, c, "connecting")
             /\ UNCHANGED <<copies, queue>>
  <2> PICK c \in Conns \ all : /\ Free = {}
                               /\ all' = all \cup {c}
                               /\ Give(q, c, "connecting")
                               /\ UNCHANGED <<copies, queue>>
    BY <1>2
  <2>. QED
    BY DEF GetConnection, Give, Kept, PoolTypeOK, LastIsNotLost, WaitersAreServed, Known,
           NewIsOwn, Queued, FirstUse, Holds, InFlight, Free, Labels
<1>3. CASE /\ Free = {} /\ all = Conns
           /\ queue' = Append(queue, q)
           /\ Give(q, None, "waiting")
           /\ UNCHANGED <<all, copies>>
  <2>1. PoolTypeOK' /\ Known' /\ NewIsOwn' /\ FirstUse'
    BY <1>3 DEF GetConnection, Give, Kept, PoolTypeOK, LastIsNotLost, Known, NewIsOwn, FirstUse,
           Holds, InFlight, Free, Labels
  <2>2. LastIsNotLost' /\ WaitersAreServed'
    BY <1>3 DEF GetConnection, Give, Kept, PoolTypeOK, LastIsNotLost, WaitersAreServed, Known,
           FirstUse, Holds, InFlight, Free, Labels
  <2>3. Queued'
    BY <1>3 DEF GetConnection, Give, Kept, PoolTypeOK, Queued, Free, Labels
  <2>. QED  BY <2>1, <2>2, <2>3 DEF Kept
<1>. QED  BY <1>1, <1>2, <1>3 DEF GetConnection

\* What the first waiter is, and the queue without it.
LEMMA FirstWaiter ==
  ASSUME PoolTypeOK, Queued, queue # <<>>
  PROVE  /\ Head(queue) \in Queries /\ pc[Head(queue)] = "waiting"
         /\ Tail(queue) \in Seq(Queries)
         /\ \A q \in Queries \ {Head(queue)} :
              (\E i \in 1..Len(queue) : queue[i] = q)
                <=> \E i \in 1..Len(Tail(queue)) : Tail(queue)[i] = q
         /\ \A i \in 1..Len(Tail(queue)) : Tail(queue)[i] # Head(queue)
         /\ \A i, j \in 1..Len(Tail(queue)) : Tail(queue)[i] = Tail(queue)[j] => i = j
<1>1. /\ Head(queue) = queue[1] /\ 1 \in 1..Len(queue)
      /\ Len(Tail(queue)) = Len(queue) - 1 /\ Len(queue) \in Nat
      /\ \A i \in 1..Len(Tail(queue)) : Tail(queue)[i] = queue[i + 1]
      /\ Tail(queue) \in Seq(Queries)
  BY DEF PoolTypeOK
<1>2. \A i \in 1..Len(queue) : i # 1 => i - 1 \in 1..Len(Tail(queue)) /\ (i - 1) + 1 = i
  BY <1>1
<1>3. \A i \in 1..Len(Tail(queue)) : i + 1 \in 1..Len(queue) /\ i + 1 # 1
  BY <1>1
<1>4. Head(queue) \in Queries /\ pc[Head(queue)] = "waiting"
  BY <1>1 DEF Queued, PoolTypeOK
<1>5. \A i \in 1..Len(Tail(queue)) : Tail(queue)[i] # Head(queue)
  BY <1>1, <1>3 DEF Queued
<1>6. ASSUME NEW i \in 1..Len(Tail(queue)), NEW j \in 1..Len(Tail(queue)),
             Tail(queue)[i] = Tail(queue)[j]
      PROVE  i = j
  <2>1. i + 1 = j + 1
    BY <1>1, <1>3, <1>6 DEF Queued
  <2>. QED  BY <2>1
<1>7. ASSUME NEW q \in Queries \ {Head(queue)}
      PROVE  (\E i \in 1..Len(queue) : queue[i] = q)
               <=> \E i \in 1..Len(Tail(queue)) : Tail(queue)[i] = q
  <2>1. ASSUME NEW i \in 1..Len(queue), queue[i] = q
        PROVE  \E j \in 1..Len(Tail(queue)) : Tail(queue)[j] = q
    <3>1. i - 1 \in 1..Len(Tail(queue)) /\ Tail(queue)[i - 1] = q
      BY <1>1, <1>2, <2>1
    <3>. QED  BY <3>1
  <2>2. ASSUME NEW i \in 1..Len(Tail(queue)), Tail(queue)[i] = q
        PROVE  \E j \in 1..Len(queue) : queue[j] = q
    BY <1>1, <1>3, <2>2
  <2>. QED  BY <2>1, <2>2
<1>. QED  BY <1>1, <1>4, <1>5, <1>6, <1>7

\* A connection that cannot be made was nobody else's.
LEMMA ConnectFailsKept ==
  ASSUME NEW q \in Queries, Kept, ConnectFails(q)
  PROVE  Kept'
<1>1. CASE queue = <<>>
  BY <1>1 DEF ConnectFails, Kept, PoolTypeOK, LastIsNotLost, WaitersAreServed, Known, NewIsOwn,
         Queued, FirstUse, Holds, InFlight, Free, Labels
<1>2. CASE queue # <<>>
  <2> DEFINE w == Head(queue)
  <2>1. w \in Queries /\ w # q /\ pc[w] = "waiting" /\ Tail(queue) \in Seq(Queries)
    BY <1>2, FirstWaiter DEF ConnectFails, Kept
  <2>2. /\ pc' = [pc EXCEPT ![q] = "failed", ![w] = "retrying"]
        /\ queue' = Tail(queue)
    BY <1>2 DEF ConnectFails
  <2> HIDE DEF w
  <2>3. PoolTypeOK'
    BY <2>1, <2>2 DEF ConnectFails, Kept, PoolTypeOK, Labels
  <2>4. LastIsNotLost' /\ WaitersAreServed'
    BY <2>1, <2>2 DEF ConnectFails, Kept, PoolTypeOK, LastIsNotLost, WaitersAreServed, InFlight
  <2>5. Known'
    BY <2>1, <2>2 DEF ConnectFails, Kept, PoolTypeOK, Known, NewIsOwn, Holds, InFlight, Free
  <2>6. NewIsOwn'
    BY <2>1, <2>2 DEF ConnectFails, Kept, PoolTypeOK, Known, NewIsOwn, Holds, InFlight, Free
  <2>7. FirstUse'
    BY <2>1, <2>2 DEF ConnectFails, Kept, PoolTypeOK, Known, FirstUse, Holds, InFlight
  <2>8. Queued'
    <3>1. ASSUME NEW p \in Queries
          PROVE  pc'[p] = "waiting" <=> \E i \in 1..Len(queue') : queue'[i] = p
      <4>1. CASE p = w
        BY <1>2, <2>1, <2>2, FirstWaiter, <4>1 DEF ConnectFails, Kept, PoolTypeOK, w
      <4>2. CASE p # w
        <5>1. pc'[p] = "waiting" <=> pc[p] = "waiting"
          BY <1>2, <2>1, <2>2, <4>2 DEF ConnectFails, Kept, PoolTypeOK
        <5>2. pc[p] = "waiting" <=> \E i \in 1..Len(queue) : queue[i] = p
          BY DEF Kept, Queued
        <5>3. (\E i \in 1..Len(queue) : queue[i] = p)
                <=> \E i \in 1..Len(queue') : queue'[i] = p
          BY <1>2, <2>1, <2>2, FirstWaiter, <4>2 DEF Kept, w
        <5>. QED  BY <5>1, <5>2, <5>3
      <4>. QED  BY <4>1, <4>2
    <3>2. \A i, j \in 1..Len(queue') : queue'[i] = queue'[j] => i = j
      BY <1>2, <2>1, <2>2, FirstWaiter DEF Kept
    <3>3. Free' = {}
      BY <1>2, <2>1, <2>2 DEF ConnectFails, Kept, Queued, Free
    <3>. QED  BY <3>1, <3>2, <3>3 DEF Queued
  <2>. QED  BY <2>3, <2>4, <2>5, <2>6, <2>7, <2>8 DEF Kept
<1>. QED  BY <1>1, <1>2

\* The field takes the connection of a query that holds it.
LEMMA ExecuteKept ==
  ASSUME NEW q \in Queries, Kept, Execute(q)
  PROVE  Kept'
BY DEF Execute, Kept, PoolTypeOK, LastIsNotLost, WaitersAreServed, Known, NewIsOwn, Queued,
       FirstUse, Holds, InFlight, Free, Labels

\* What is released is in the pool, and goes to the first waiter if there is one.
LEMMA ReleaseKept ==
  ASSUME NEW q \in Queries, Kept, Release(q)
  PROVE  Kept'
<1>1. CASE connection = None
  BY <1>1 DEF Release, Kept, PoolTypeOK, LastIsNotLost, WaitersAreServed, Known, NewIsOwn, Queued,
         FirstUse, Holds, InFlight, Free, Labels
<1>2. CASE connection # None /\ queue = <<>>
  <2>1. PoolTypeOK' /\ LastIsNotLost' /\ WaitersAreServed' /\ FirstUse'
    BY <1>2 DEF Release, Put, Kept, PoolTypeOK, LastIsNotLost, WaitersAreServed, FirstUse, Labels
  <2>2. Known' /\ NewIsOwn'
    BY <1>2 DEF Release, Put, Kept, PoolTypeOK, Known, NewIsOwn, Holds, InFlight, Free
  <2>3. Queued'
    BY <1>2 DEF Release, Put, Kept, PoolTypeOK, Queued
  <2>. QED  BY <2>1, <2>2, <2>3 DEF Kept
<1>3. CASE connection # None /\ queue # <<>>
  <2> DEFINE w == Head(queue)
  <2>1. w \in Queries /\ w # q /\ pc[w] = "waiting" /\ Tail(queue) \in Seq(Queries)
    BY <1>3, FirstWaiter DEF Release, Kept
  <2>2. /\ pc' = [pc EXCEPT ![q] = "idle", ![w] = "granted"]
        /\ mine' = [mine EXCEPT ![q] = None, ![w] = connection]
        /\ queue' = Tail(queue) /\ UNCHANGED <<copies, all, connection>>
    BY <1>3 DEF Release, Put
  <2> HIDE DEF w
  <2>3. PoolTypeOK' /\ LastIsNotLost' /\ WaitersAreServed' /\ Known' /\ NewIsOwn' /\ FirstUse'
    BY <1>3, <2>1, <2>2 DEF Release, Kept, PoolTypeOK, LastIsNotLost, WaitersAreServed, Known,
           NewIsOwn, FirstUse, Holds, InFlight, Free, Labels
  <2>4. Queued'
    <3>1. ASSUME NEW p \in Queries
          PROVE  pc'[p] = "waiting" <=> \E i \in 1..Len(queue') : queue'[i] = p
      <4>1. CASE p = w
        BY <1>3, <2>1, <2>2, FirstWaiter, <4>1 DEF Release, Kept, PoolTypeOK, w
      <4>2. CASE p # w
        <5>1. pc'[p] = "waiting" <=> pc[p] = "waiting"
          BY <1>3, <2>1, <2>2, <4>2 DEF Release, Kept, PoolTypeOK
        <5>2. pc[p] = "waiting" <=> \E i \in 1..Len(queue) : queue[i] = p
          BY DEF Kept, Queued
        <5>3. (\E i \in 1..Len(queue) : queue[i] = p)
                <=> \E i \in 1..Len(queue') : queue'[i] = p
          BY <1>3, <2>1, <2>2, FirstWaiter, <4>2 DEF Kept, w
        <5>. QED  BY <5>1, <5>2, <5>3
      <4>. QED  BY <4>1, <4>2
    <3>2. \A i, j \in 1..Len(queue') : queue'[i] = queue'[j] => i = j
      BY <1>3, <2>1, <2>2, FirstWaiter DEF Kept
    <3>3. Free' = {}
      BY <1>3, <2>1, <2>2 DEF Release, Kept, Queued, Free
    <3>. QED  BY <3>1, <3>2, <3>3 DEF Queued
  <2>. QED  BY <2>3, <2>4 DEF Kept
<1>. QED  BY <1>1, <1>2, <1>3
-----------------------------------------------------------------------------
\* In every behaviour, for any callers and any limit of the pool.
THEOREM PoolInvariance == PoolSpec => []Kept
<1>1. Kept /\ [PoolNext]_poolVars => Kept'
  <2> SUFFICES ASSUME Kept, [PoolNext]_poolVars PROVE Kept'
    OBVIOUS
  <2>1. CASE PoolNext
    BY <2>1, GetConnectionKept, ConnectFailsKept, ExecuteKept, ReleaseKept
       DEF PoolNext, Ask, Proceed
  <2>2. CASE UNCHANGED poolVars
    BY <2>2 DEF poolVars, Kept, PoolTypeOK, LastIsNotLost, WaitersAreServed, Known, NewIsOwn, Queued,
           FirstUse, Holds, InFlight, Free
  <2>. QED  BY <2>1, <2>2
<1>. QED  BY <1>1, InitKept, PTL DEF PoolSpec

\* The connection the field names is free or with a query that has not finished:
\* the releases of MyEasyMonogramService never lose the last one.
THEOREM LastConnection == PoolSpec => []LastIsNotLost
<1>1. Kept => LastIsNotLost
  BY DEF Kept
<1>. QED  BY <1>1, PoolInvariance, PTL

\* Nobody waits for a connection when none can come back.
THEOREM NoStarvedPool == PoolSpec => []WaitersAreServed
<1>1. Kept => WaitersAreServed
  BY DEF Kept
<1>. QED  BY <1>1, PoolInvariance, PTL
=============================================================================
