SPECIFICATION Spec
CONSTANTS
  Requests = {r1, r2, r3}
  Ids = {i1, i2, i3}
  Names = {n1, Blank}
  Blank = Blank
  Missing = Missing
  BadId = BadId
  NoId = NoId
  NoDoc = NoDoc
  NoInput = NoInput
  MaxLines = 1
  Kinds = {"place", "import", "customer", "personalization", "get", "delete"}
SYMMETRY Symmetry
INVARIANTS IInv AnswerMatchesTarget OneOrderPerName CopyReplacesRemoved
PROPERTY RegistrySpec
