SPECIFICATION FairSpec
CONSTANTS
  Webhooks = {w1}
  Syncs = {s1}
  Clients = {d1}
  w1 = w1
  s1 = s1
  n1 = n1
  n2 = n2
  alias = alias
  Keys = {n1, n2, alias}
  MyEasySuite <- MCMyEasySuite
  Announced <- MCAnnounced
  MaxKeys = 2
  MaxCrashes = 1
  Requests <- MCRequests
  Kinds = {"delete"}
  Names = {n1, n2, alias, Blank}
  Blank = Blank
  Missing = Missing
  Ids = {i1, i2, i3}
  BadId = BadId
  NoId = NoId
  NoDoc = NoDoc
  NoInput = NoInput
  MaxLines = 1
INVARIANTS ImportInv OneCopyPerOrder
PROPERTY AnnouncementsSettle
