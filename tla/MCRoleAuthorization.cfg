SPECIFICATION Spec
CONSTANTS
  c1 = c1
  c2 = c2
  Clients = {c1, c2}
  Guids = {"owner", "custom"}
  BuiltIns = {"owner"}
  RoleNames = {"r1", "r2"}
  Names = {"n1"}
  Principals = {"p"}
  ScopeSet <- MCScopes
SYMMETRY MCSymmetry
INVARIANTS TypeOK DanglingExplained OutOfScopeExplained
