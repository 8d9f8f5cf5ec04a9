-------------------------- MODULE CapacityIdentity --------------------------
(***************************************************************************)
(* What the capacities table promises the data plane that reads its feed:  *)
(* the REST id of a capacity never moves under a client.  A name holds at  *)
(* most one id at a time, keeps it for as long as it exists, and an id is  *)
(* drawn for one name and never turns up under another.                    *)
(***************************************************************************)
EXTENDS Naturals

CONSTANTS Names, Ids, None

VARIABLES
  holds,  \* the id each name is listed under, or None
  drawn   \* the name each id was drawn for, or None

vars == <<holds, drawn>>

Draw(n, id) ==
  /\ drawn[id] = None
  /\ drawn' = [drawn EXCEPT ![id] = n]
  /\ UNCHANGED holds

Appear(n, id) ==
  /\ holds[n] = None
  /\ drawn[id] = n
  /\ holds' = [holds EXCEPT ![n] = id]
  /\ UNCHANGED drawn

Vanish(n) ==
  /\ holds[n] # None
  /\ holds' = [holds EXCEPT ![n] = None]
  /\ UNCHANGED drawn

Init ==
  /\ holds = [n \in Names |-> None]
  /\ drawn = [id \in Ids |-> None]

Next ==
  \E n \in Names :
    \/ \E id \in Ids : Draw(n, id) \/ Appear(n, id)
    \/ Vanish(n)

Spec == Init /\ [][Next]_vars
===============================================================================
