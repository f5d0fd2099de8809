SPECIFICATION Spec
CONSTANTS
  Ids = {i1, i2}
  Users = {u1}
  Shops = {s1, s2}
  BadShop = BadShop
  Codes = {c1}
  Tokens = {t1, t2}
  Times = {1, 2}
  BadTime = BadTime
  NA = NA
  NoId = NoId
  NoInstall = NoInstall
  MaxEvents = 5
SYMMETRY Symmetry
INVARIANTS InstallInv NothingSurvivesReconnecting
PROPERTY FailedCallsKeepTheInstall
