SPECIFICATION Spec
CONSTANTS
  c1 = c1
  c2 = c2
  Clients = {c1}
  Guids = {"owner", "custom"}
  BuiltIns = {"owner"}
  RoleNames = {"r1"}
  Names = {"n1"}
  Principals = {"p"}
  ScopeSet <- MCScopes
INVARIANT NoDanglingAssignment
