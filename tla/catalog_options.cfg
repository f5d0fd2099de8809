SPECIFICATION Spec
CONSTANTS
  Requests = {r1, r2, r3}
  Names = {"Size", "size", "Color"}
  NoName = ""
  Values = {"12", "Black", ""}
  Absent = "undefined"
  Keys = {"size", "color"}
  Lower <- MCLower
  Skus = {"s1", "s2"}
  Parts = {"p1", "p2"}
  TypeForms <- MCForms
  Posts <- MCPosts
  VariantFiles <- MCVariantFiles
  ProductFiles <- MCProductFiles
  NoRow = NoRow
  NoForm = NoForm
  NoInput = NoInput
  NoOption = NoOption
SYMMETRY Symmetry
INVARIANTS OptionsInv LoneImportsStoreAPrefix ValuesGoWhereOffered SavingAgainChangesNothing AcceptedRowsAreStored
