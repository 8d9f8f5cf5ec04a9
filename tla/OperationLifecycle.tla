------------------------- MODULE OperationLifecycle -------------------------
(***************************************************************************)
(* What a poller is promised of long-running operations, independent of    *)
(* any clock: an operation is unknown, then in progress, then has          *)
(* succeeded, and it never goes back.  With no delay it may have succeeded *)
(* by the time it is known; several operations may finish together.        *)
(***************************************************************************)
CONSTANT Ids

VARIABLE status

Statuses == {"Unknown", "InProgress", "Succeeded"}

Init == status = [i \in Ids |-> "Unknown"]

Accept(i) ==
  /\ status[i] = "Unknown"
  /\ \E s \in {"InProgress", "Succeeded"} : status' = [status EXCEPT ![i] = s]

\* Time passes: any of the running operations finish.
Finish ==
  \E done \in SUBSET {i \in Ids : status[i] = "InProgress"} :
    status' = [i \in Ids |-> IF i \in done THEN "Succeeded" ELSE status[i]]

Next == Finish \/ \E i \in Ids : Accept(i)

Spec == Init /\ [][Next]_status
===============================================================================
