---------------------------- MODULE ShopifyInstall ----------------------------
(***************************************************************************)
(* The aggregate ShopifyAccount with its ShopifyAccountInstall, called in   *)
(* any order: connected (ShopifyAccountCreated.generate and                *)
(* beginConnectionProcess), linked, accepted, given a token, stored and    *)
(* loaded again.  What a call changed before it threw stays changed.       *)
(*                                                                         *)
(* The five use cases end at their first call of the repository, none of   *)
(* whose methods is implemented, so no request reaches an aggregate.       *)
(***************************************************************************)
EXTENDS Integers, Sequences

CONSTANTS Ids,        \* UUIDs
          Users, Shops, Codes, Tokens,
          BadShop,    \* one without a letter or digit
          Times,      \* timestamps of connections, which are their nonces
          BadTime,    \* one that is no integer, or no date
          NA,         \* "NOT_AVAILABLE"
          NoId,       \* a UUID made from undefined
          NoInstall,
          MaxEvents   \* bound: the events of an account

ASSUME ShopifyConstants ==
  /\ NoId \notin Ids /\ MaxEvents \in Nat
  /\ NA \notin Users \cup Shops \cup Codes \cup Tokens /\ BadShop \notin Shops
  /\ Times \subseteq Nat /\ BadTime \notin Times

Dtos == [user : Users, shop : Shops \cup {BadShop}, timestamp : Times \cup {BadTime}]
Links == [shop : Shops, nonce : Times]
Installs == [of : Ids \cup {NoId}, shop : Shops, nonce : Times,
             status : {"PENDING", "PENDING_SHOPIFY_ACCEPT", "ACCEPTED"},
             code : Codes \cup {NA}, installLink : Links \cup {NA},
             tokenLink : Shops \cup {NA}, token : Tokens \cup {NA}]
ASSUME NotAnInstall == NoInstall \notin Installs /\ NA \notin Links

Statuses == {"PENDING", "PENDING_INSTALL", "ACTIVE", "INACTIVE", "DISABLED"}
Events == [type : {"Created", "InstallInitiated"}, aggregate : Ids \cup {NoId}, dto : Dtos]
     \cup [type : {"AccessTokenReceived"}, aggregate : Ids \cup {NoId}, token : Tokens]

VARIABLES
  id, user, shop, token, status, events, install,   \* the aggregate
  outcome,   \* of the last call
  spoilt,    \* history: whether a token was refused since the last connection
  tried      \* history: the last connection the account began

account == <<id, user, shop, token, status, events, install>>
vars == <<account, outcome, spoilt, tried>>
-----------------------------------------------------------------------------
NoDto == [user |-> NA, shop |-> NA, timestamp |-> BadTime]

\* ShopifyAccount.create: the user is the account until somebody connects it.
Init == /\ id \in Ids /\ user = id
        /\ shop = NA /\ token = NA /\ status = "PENDING"
        /\ events = <<>> /\ install = NoInstall
        /\ outcome = "ok" /\ spoilt = FALSE /\ tried = NoDto

Throw == outcome' = "error"
Return == outcome' = "ok"

\* ShopifyAccountInstall.create and init
NewInstall(of, dto) ==
  [of |-> of, shop |-> dto.shop, nonce |-> dto.timestamp, status |-> "PENDING",
   code |-> NA, installLink |-> NA, tokenLink |-> NA, token |-> NA]

\* Mutant: an installation the account has already is used again.
InstallAgain(of, dto) ==
  IF install = NoInstall THEN NewInstall(of, dto)
  ELSE [install EXCEPT !.of = of, !.shop = dto.shop, !.nonce = dto.timestamp]

InstallFor(of, dto) == NewInstall(of, dto)

\* Mutant: the installation is told of before it is initialised.
RaisedEagerly(created, initiated) == events \o <<created, initiated>>

\* The installation throws on its timestamp before it is told of.
Raised(created, initiated) ==
  IF created.dto.timestamp = BadTime THEN Append(events, created)
  ELSE events \o <<created, initiated>>

\* Mutant: the status is set before the installation is initialised.
BegunEarly(dto) == "PENDING_INSTALL"

Begun(dto) == IF dto.timestamp = BadTime THEN status ELSE "PENDING_INSTALL"

\* Each event is of an id of its own, of which the account takes the first.
Connect(dto, fresh, other) ==
  LET created == [type |-> "Created", aggregate |-> fresh, dto |-> dto]
      initiated == [type |-> "InstallInitiated", aggregate |-> other, dto |-> dto] IN
  /\ Len(events) + 2 <= MaxEvents
  /\ IF dto.shop = BadShop THEN Throw /\ UNCHANGED <<account, spoilt, tried>>
     ELSE /\ id' = fresh /\ user' = dto.user /\ shop' = dto.shop
          /\ events' = Raised(created, initiated)
          /\ status' = Begun(dto)
          /\ tried' = dto
          /\ UNCHANGED token
          /\ IF dto.timestamp = BadTime THEN Throw /\ UNCHANGED <<install, spoilt>>
             ELSE /\ install' = InstallFor(fresh, dto)
                  /\ spoilt' = FALSE
                  /\ Return

\* Nothing happens to an account that has no installation.
WithInstall(changed) ==
  /\ install' = IF install = NoInstall THEN NoInstall ELSE changed
  /\ Return
  /\ UNCHANGED <<id, user, shop, token, status, events, spoilt, tried>>

InstallLink == [shop |-> install.shop, nonce |-> install.nonce]

GenerateInstallLink ==
  WithInstall([install EXCEPT !.installLink = InstallLink,
                              !.status = "PENDING_SHOPIFY_ACCEPT"])

Accept(code) ==
  WithInstall([install EXCEPT !.status = "ACCEPTED", !.code = code,
                              !.tokenLink = install.shop])

TokenGiven(t) == t

\* The account's token is set before its installation turns out to be missing.
GenerateAccessToken(t, fresh) ==
  /\ Len(events) < MaxEvents
  /\ token' = TokenGiven(t)
  /\ IF install = NoInstall
       THEN Throw /\ spoilt' = TRUE /\ UNCHANGED <<install, events>>
       ELSE /\ install' = [install EXCEPT !.token = t]
            /\ events' = Append(events, [type |-> "AccessTokenReceived",
                                         aggregate |-> fresh, token |-> t])
            /\ Return /\ UNCHANGED spoilt
  /\ UNCHANGED <<id, user, shop, status, tried>>

\* pending, activate, deactivate and disable
SetStatus(s) ==
  /\ status' = s /\ Return
  /\ UNCHANGED <<id, user, shop, token, events, install, spoilt, tried>>
-----------------------------------------------------------------------------
\* toDb writes no id of the account with its installation and its events.
ReloadedInstall == [install EXCEPT !.of = NoId]

\* toDb and init: an account without an installation cannot be loaded.
Reload ==
  IF install = NoInstall THEN Throw /\ UNCHANGED <<account, spoilt, tried>>
  ELSE /\ install' = ReloadedInstall
       /\ events' = [k \in DOMAIN events |-> [events[k] EXCEPT !.aggregate = NoId]]
       /\ Return
       /\ UNCHANGED <<id, user, shop, token, status, spoilt, tried>>

\* DbShopifyAccountsRepository: "Method not implemented."
NotImplemented == Throw /\ UNCHANGED <<account, spoilt, tried>>

\* The endpoints and their use cases, up to their first call of the repository.
\* ShopifyController is registered first and shadows the two GETs of
\* ShopifyApiController that it has as well.
ConnectRequest == NotImplemented      \* GET /shopify: existsByShopOrigin
AcceptRequest == NotImplemented       \* GET /shopify/install: findByShopOrigin
GetRequest == NotImplemented          \* GET /shopify/:id: exists
DeleteRequest == NotImplemented       \* DELETE /shopify/:id: exists
GetAllRequest == NotImplemented       \* shadowed; findAll

Request == ConnectRequest \/ AcceptRequest \/ GetRequest \/ DeleteRequest \/ GetAllRequest

Next == \/ \E dto \in Dtos, fresh, other \in Ids : fresh # other /\ Connect(dto, fresh, other)
        \/ GenerateInstallLink
        \/ \E c \in Codes : Accept(c)
        \/ \E t \in Tokens, fresh \in Ids : GenerateAccessToken(t, fresh)
        \/ \E s \in Statuses \ {"PENDING_INSTALL"} : SetStatus(s)
        \/ Reload
        \/ Request

Spec == Init /\ [][Next]_vars
=============================================================================
