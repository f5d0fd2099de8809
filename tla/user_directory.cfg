SPECIFICATION FairSpec
CONSTANTS
  Requests = {r1, r2}
  Kinds = {"list", "create", "get", "delete"}
  Emails = {e1, e2, e3}
  PerPage = 2
  MaxUsers = 4
  InitUsers = 3
  MaxRestarts = 1
  NoEmail = NoEmail
  NoUser = NoUser
INVARIANTS DirectoryInv ListingsMissNobody CreationsAgree
PROPERTY ListingsEnd
