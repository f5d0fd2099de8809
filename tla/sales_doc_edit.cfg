SPECIFICATION Spec
CONSTANTS
  Requests = {r1, r2}
  Ids = {i1, i2}
  Names = {Blank}
  Blank = Blank
  Missing = Missing
  BadId = BadId
  NoId = NoId
  NoDoc = NoDoc
  NoInput = NoInput
  MaxLines = 0
  Kinds = {"place", "customer"}
INVARIANT EditIsPersisted
