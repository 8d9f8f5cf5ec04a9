------------------------- MODULE MCRoleAuthorization -------------------------
(* Values for checking RoleAuthorization: a subscription, a group beneath it *)
(* and its sibling; one built-in and one custom role; two letter cases.      *)
EXTENDS RoleAuthorization, TLC

CONSTANTS c1, c2

Sub == <<"s">>
Group == <<"s", "g">>
MCScopes == {Sub, Group}
MCSymmetry == Permutations({c1, c2})
===============================================================================
