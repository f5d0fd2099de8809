-------------------------- MODULE ShopifyInstallProps --------------------------
(* The properties of ShopifyInstall. *)
EXTENDS ShopifyInstall

(* Types: every variable holds what the code can put there. *)
TypeOK ==
  /\ id \in Ids
  /\ user \in Users \cup Ids
  /\ shop \in Shops \cup {NA}
  /\ token \in Tokens \cup {NA}
  /\ status \in Statuses
  /\ events \in Seq(Events)
  /\ install \in Installs \cup {NoInstall}
  /\ outcome \in {"ok", "error"}
  /\ spoilt \in BOOLEAN
  /\ tried \in Dtos \cup {NoDto}

OfType(type) == {k \in DOMAIN events : events[k].type = type}
IsLatest(k, type) == k \in OfType(type) /\ \A j \in OfType(type) : j <= k

(* The events are a history of the installation: it is the one the latest
   InstallInitiated tells of, by shop and by nonce, and there is none without
   one, although connecting may throw half way (initInstall). *)
EventsTellTheInstall ==
  /\ OfType("InstallInitiated") = {} => install = NoInstall
  /\ \A k \in DOMAIN events : IsLatest(k, "InstallInitiated") =>
       /\ install # NoInstall
       /\ install.shop = events[k].dto.shop
       /\ install.nonce = events[k].dto.timestamp

(* Connecting again starts afresh: a code, a token or a link the installation
   has is its own, given since it was initiated and for its own shop and nonce;
   nothing of an earlier installation survives in it. *)
NothingSurvivesReconnecting ==
  install # NoInstall =>
    /\ install.installLink # NA => install.installLink.shop = install.shop
                                   /\ install.installLink.nonce = install.nonce
    /\ install.tokenLink # NA => install.tokenLink = install.shop
    /\ install.tokenLink = NA <=> install.code = NA
    /\ install.token # NA => \E j \in OfType("AccessTokenReceived") :
                               \A k \in OfType("InstallInitiated") : k < j

(* The token is kept twice: the account and the installation agree once the
   installation has one, and the latest event tells it, unless a token came when
   there was no installation to give it to (generateAccessToken). *)
TokensAgree ==
  /\ install # NoInstall => install.token = NA \/ token = install.token
  /\ ~spoilt => \A k \in DOMAIN events :
       IsLatest(k, "AccessTokenReceived") => token = events[k].token

(* An account whose last connection threw is not that of its installation any
   more; otherwise both are of the shop that was connected. *)
ShopsAgree ==
  install # NoInstall /\ tried.timestamp # BadTime =>
    shop = install.shop /\ user = tried.user

\* A token is told of only when there is an installation to give it to.
NoneUntold ==
  /\ install = NoInstall => OfType("AccessTokenReceived") = {}
  /\ spoilt => install = NoInstall

(* What every state keeps, and what each call relies on. *)
InstallInv == TypeOK /\ EventsTellTheInstall /\ TokensAgree /\ ShopsAgree /\ NoneUntold

(* A call that throws may leave the account with another id, user and shop and
   one event more, but never touches its installation or its status, and takes
   nothing out of its history. *)
FailedCallsKeepTheInstall ==
  [][outcome' = "error" =>
       /\ install' = install /\ status' = status
       /\ \/ events' = events
          \/ Len(events') = Len(events) + 1 /\ events'[Len(events')].type = "Created"]_vars
=============================================================================
