------------------------- MODULE MCRequestEnvelope -------------------------
(* Two clients and two issuers.  The first issuer rotates: it drops one kid  *)
(* for another, or gives a kid a new key; the second always lists a kid the  *)
(* first may list too.  Names and groups include the words the router reads. *)
EXTENDS RequestEnvelope

CONSTANTS old, new

Lists(k1, k2) == [k \in {"k1", "k2"} |-> IF k = "k1" THEN k1 ELSE k2]
MCDocs ==
  <<{Lists(old, NoKey), Lists(NoKey, new)},
    {Lists(NoKey, old)}>>
MCTokens ==
  {[kid |-> "k1", key |-> old, iss |-> 1],
   [kid |-> "k2", key |-> old, iss |-> 1],
   [kid |-> "k2", key |-> old, iss |-> 2]}
\* Both switches at once: a rejection comes first, then a throttle.
MCFaultCalls == {<<1, 1>>}
===============================================================================
