\* Three requests about the members of two accounts.
SPECIFICATION Spec
CONSTANTS
  a1 = a1
  a2 = a2
  r1 = r1
  r2 = r2
  r3 = r3
  Requests = {r1, r2, r3}
  Kinds = {"create", "add", "drop", "delete", "removeAll", "deleteUser", "import"}
  Users = {ann, bob}
  Accts = {a1, a2}
  Codes = {c}
  Admin = ann
  NoAccount = NoAccount
  NoInput = NoInput
  Nobody = Nobody
SYMMETRY Symmetry
INVARIANTS
  IInv
  PatchesTakeEffect
  SharedCodesOverlapped
PROPERTIES
  RemovalIsAskedFor
