-------------------------------- MODULE Scopes --------------------------------
(***************************************************************************)
(* The ARM scope grammar (internal/arm/scope.go).  A scope is the sequence *)
(* of the path segments of its canonical form: the tenant root "/" is the  *)
(* empty sequence, and "/subscriptions/s" is <<"subscriptions", "s">>.     *)
(* Letter case and one trailing slash are what CanonicalScope removes, so  *)
(* two spellings of one scope are one sequence here.                       *)
(***************************************************************************)
EXTENDS Naturals, Sequences

\* The assignment's scope is the target or an ancestor of it: the prefix test
\* of ScopeApplies stops on a segment boundary.
ScopeApplies(assignment, target) ==
  /\ Len(assignment) <= Len(target)
  /\ SubSeq(target, 1, Len(assignment)) = assignment
===============================================================================
