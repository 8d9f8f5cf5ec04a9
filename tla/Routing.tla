------------------------------- MODULE Routing -------------------------------
(***************************************************************************)
(* How a request path finds its handler: segments, splitProvider and route *)
(* of internal/arm/arm.go, with SubscriptionOf and ResourceGroupOf of      *)
(* internal/arm/scope.go.  A path is the sequence of the strings between   *)
(* its slashes; letter case is folded, as every comparison here folds it.  *)
(***************************************************************************)
EXTENDS Naturals, Sequences, FiniteSetsExt

\* What stands before a leading slash, and between two slashes.
Blank == ""

\* segments: blank ones, from a leading, trailing or doubled slash, vanish.
Segments(path) ==
  LET out[n \in 0 .. Len(path)] ==
        IF n = 0 THEN <<>>
        ELSE IF path[n] = Blank THEN out[n - 1] ELSE Append(out[n - 1], path[n])
  IN  out[Len(path)]

ProviderMarks(segs) == {i \in DOMAIN segs : segs[i] = "providers"}

\* The first "providers" taken for the mark.
FirstMark(segs) == Min(ProviderMarks(segs))

\* The LAST "providers" wins: the scope itself may contain one.
Mark(segs) == Max(ProviderMarks(segs))

\* A path that ends in "providers" has no provider portion.
HasProvider(segs) == ProviderMarks(segs) # {} /\ Mark(segs) < Len(segs)

ScopePart(segs) == SubSeq(segs, 1, Mark(segs) - 1)
ProviderPart(segs) == SubSeq(segs, Mark(segs) + 1, Len(segs))

\* The value after the first segment with the given key, or "" if none.
After(segs, key) ==
  LET places == {i \in DOMAIN segs : segs[i] = key /\ i < Len(segs)}
  IN  IF places = {} THEN Blank ELSE segs[Min(places) + 1]

SubscriptionOf(scope) == After(scope, "subscriptions")
ResourceGroupOf(scope) == After(scope, "resourcegroups")

\* Namespace and type of every provider path that has a handler.
Registered ==
  ({"microsoft.authorization"}
     \X {"roledefinitions", "roleassignments", "denyassignments"})
  \cup ({"microsoft.keyvault"} \X {"vaults", "deletedvaults", "locations"})
  \cup ({"microsoft.fabric"} \X {"capacities", "skus", "locations"})

Answered(handler, scope, rest) ==
  [handler |-> handler, scope |-> scope, rest |-> rest]

RouteProvider(scope, rest) ==
  IF Len(rest) >= 2 /\ <<rest[1], rest[2]>> \in Registered
    THEN Answered(<<rest[1], rest[2]>>, scope, SubSeq(rest, 3, Len(rest)))
    ELSE Answered(<<"noRegisteredProvider">>, scope, rest)

UnderSubscription(segs, n) == Len(segs) = n /\ segs[1] = "subscriptions"

\* route: the tests in the order the code makes them.
Route(path) ==
  LET segs == Segments(path)
  IN  CASE segs \in {<<"tenants">>, <<"subscriptions">>} ->
             Answered(segs, <<>>, <<>>)
        [] UnderSubscription(segs, 2) ->
             Answered(<<"subscription">>, segs, <<>>)
        [] UnderSubscription(segs, 4)
             /\ segs[3] \in {"operationresults", "operationstatuses"} ->
             Answered(<<segs[3]>>, SubSeq(segs, 1, 2), <<segs[4]>>)
        [] OTHER ->
             IF HasProvider(segs)
               THEN RouteProvider(ScopePart(segs), ProviderPart(segs))
             ELSE IF UnderSubscription(segs, 3) /\ segs[3] = "resources"
               THEN Answered(<<"resources">>, SubSeq(segs, 1, 2), <<>>)
             ELSE IF Len(segs) \in {3, 4} /\ segs[1] = "subscriptions"
                       /\ segs[3] = "resourcegroups"
               THEN Answered(<<"resourcegroups">>, SubSeq(segs, 1, 2),
                             SubSeq(segs, 4, Len(segs)))
             ELSE Answered(<<"invalidResourceId">>, <<>>, <<>>)
===============================================================================
