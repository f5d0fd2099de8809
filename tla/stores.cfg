SPECIFICATION Spec
CONSTANTS
  Requests = {r1, r2, r3}
  Accts = {a1, a2}
  NoAccount = NoAccount
  NoInput = NoInput
  Kinds = {"create", "addStore", "removeStore", "delete", "removeAll", "get"}
SYMMETRY Symmetry
INVARIANTS LoneAnswersAreStored RemovalsTakeEffect
PROPERTIES HoldingsSpec StoresGoByRequest
