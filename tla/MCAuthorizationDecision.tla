----------------------- MODULE MCAuthorizationDecision -----------------------
(* A user and a group it is in; a vault, its subscription and a sibling      *)
(* vault; a built-in role and a custom one that grants, grants nothing, or   *)
(* is absent; denies of each shape the code tells apart.                     *)
EXTENDS AuthorizationDecision

Sub == <<"s">>
Vault == <<"s", "v">>
Sibling == <<"s", "w">>
MCScopes == {Sub, Vault, Sibling}

MCBuiltIns == {[role |-> "reader", data |-> {"get"}, notData |-> {}]}
MCRoles ==
  {[role |-> "custom", data |-> {"get", "set"}, notData |-> n] :
     n \in {{"set"}, {"get"}}}

Assigned(name, scope, role, principal, condition) ==
  [name |-> name, scope |-> scope, role |-> role, principal |-> principal,
   condition |-> condition]
MCAssignments ==
  {Assigned("a1", Sub, "custom", "group", {"here"}),
   Assigned("a1", Sibling, "custom", "user", {"here"}),
   Assigned("a2", Vault, "reader", "user", {"here"}),
   Assigned("a2", Vault, "reader", "user", {})}

Deny(scope, here, everyone, principals, exclude) ==
  [name |-> "d", scope |-> scope, here |-> here, actions |-> {"get"},
   everyone |-> everyone, principals |-> principals, exclude |-> exclude]
MCDenies ==
  {Deny(Sub, FALSE, TRUE, {}, {}),
   Deny(Sub, FALSE, TRUE, {}, {"user"}),
   Deny(Sub, TRUE, FALSE, {"user"}, {}),
   Deny(Vault, FALSE, FALSE, {"group"}, {})}

MCQueries ==
  {[scope |-> scope, ids |-> ids, action |-> "get", context |-> "here"] :
     scope \in {Sub, Vault}, ids \in {{"user"}, {"user", "group"}}}
===============================================================================
