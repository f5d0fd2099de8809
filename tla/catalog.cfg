\* Three requests of every kind.
SPECIFICATION Spec
CONSTANTS
  s = s
  sx = sx
  Requests = {r1, r2, r3}
  Kinds = {"lookup", "product", "variant", "type", "deleteProduct", "deleteVariant", "deleteType"}
  Names = {Art, Wood}
  Given = {Art, Wood}
  Parts = {p}
  Skus = {s, sx}
  Short <- ShortForm
  ClientIds = {r1, r2, r3, Art, Wood}
  NoRow = NoRow
  NoInput = NoInput
SYMMETRY Symmetry
INVARIANTS
  IInv
  LoneAnswersAreStored
  LoneRequestsSucceed
PROPERTIES
  RemovalIsAskedFor
