SPECIFICATION Spec
CONSTANTS
  Actions = {"get", "set"}
  Contexts = {"here"}
  Principals = {"user", "group"}
  Roles = {"reader", "custom"}
  Names = {"a1", "a2"}
  DenyNames = {"d"}
  ScopeSet <- MCScopes
  BuiltInRoles <- MCBuiltIns
  RoleChoices <- MCRoles
  AssignmentChoices <- MCAssignments
  DenyChoices <- MCDenies
  Queries <- MCQueries
INVARIANT FeedAgrees
