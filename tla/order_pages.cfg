SPECIFICATION WalkSpec
CONSTANTS
  Ids = {i1, i2, i3, i4}
  n1 = n1
  n2 = n2
  n3 = n3
  n4 = n4
  n5 = n5
  s1 = s1
  s2 = s2
  Names = {n1, n2, n3, n4, n5}
  Sellers = {s1, s2}
  Docs <- MCDocs
  NoDoc = NoDoc
  Size = 2
SYMMETRY Symmetry
INVARIANTS PagesInv WalkMissesNone SeenAgainOnlyAfterPlacing CountsMatchRows
