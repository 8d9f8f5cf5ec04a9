--------------------------- MODULE AsyncOperations ---------------------------
(***************************************************************************)
(* Long-running operations (internal/store/operations.go and               *)
(* internal/arm/operations.go) on the controllable clock.  A row holds the *)
(* time it completes at; its status, and whether a resource still reports  *)
(* a non-terminal provisioningState, are computed from the clock whenever  *)
(* they are read.  Clients follow the SDK pollers' protocol: start, poll   *)
(* until the status is terminal, then read the resource again.             *)
(*                                                                         *)
(* No code sets FailWith, so the status Failed does not occur.  Operation  *)
(* ids are fresh GUIDs; rows are never deleted.                            *)
(***************************************************************************)
EXTENDS EmulatorClock

CONSTANTS
  Clients,
  Resources,
  Ids,         \* the operation ids that will be drawn (a bound)
  LRODelay     \* --lro-delay, in seconds of the controlled clock

ASSUME DelayAssumption == LRODelay \in Nat

VARIABLES
  operations,  \* table operations: a set of rows
  poller       \* what each client is doing

vars == <<clockVars, operations, poller>>

OperationRows ==
  [id : Ids, resource : Resources, createdAt : Int, completeAt : Int]

\* idle: nothing in flight.  starting: startOperation has read the clock and
\* the row is not yet inserted.  polling, then settled: the poller has seen a
\* terminal status.  Done: it has re-read the resource.
PollerStates ==
  [at : {"idle"}]
    \cup [at : {"starting"}, resource : Resources, completeAt : Int]
    \cup [at : {"polling", "settled"}, op : OperationRows]
    \cup [at : {"done"}, op : OperationRows, creating : BOOLEAN]

-------------------------------------------------------------------------------
\* NewGUID: an id no operation has.
FreshIgnored(id) == TRUE
Fresh(id) == \A op \in operations : op.id # id

\* SELECT COUNT(*) ... WHERE resource_id = ? AND complete_at > ?, and the same
\* with the boundary second counted as still in flight.
OperationInFlightLate(resource) ==
  {op \in operations : op.resource = resource /\ op.completeAt >= Now}
OperationInFlight(resource) ==
  {op \in operations : op.resource = resource /\ op.completeAt > Now}

\* Two ways to derive a status wrongly: from the exact second, which a jump
\* of the clock steps over, and from everything that runs on the resource.
StatusAtExactly(op) == IF Now = op.completeAt THEN "Succeeded" ELSE "InProgress"
StatusOfResource(op) ==
  IF OperationInFlight(op.resource) # {} THEN "InProgress" ELSE "Succeeded"

\* What operationResults and operationStatuses both answer from.
StatusAt(op) == IF Now < op.completeAt THEN "InProgress" ELSE "Succeeded"

-------------------------------------------------------------------------------
\* startOperation: complete_at is computed from one reading of the clock...
Start(c, resource) ==
  /\ poller[c].at = "idle"
  /\ Now + LRODelay <= MaxNow
  /\ poller' = [poller EXCEPT ![c] =
       [at |-> "starting", resource |-> resource, completeAt |-> Now + LRODelay]]
  /\ UNCHANGED <<clockVars, operations>>

\* ... and CreateOperation takes created_at from a second one.
Create(c, id) ==
  /\ poller[c].at = "starting"
  /\ Fresh(id)
  /\ LET op == [id |-> id, resource |-> poller[c].resource, createdAt |-> Now,
                completeAt |-> poller[c].completeAt]
     IN  /\ operations' = operations \cup {op}
         /\ poller' = [poller EXCEPT ![c] = [at |-> "polling", op |-> op]]
  /\ UNCHANGED clockVars

Poll(c) ==
  /\ poller[c].at = "polling"
  /\ StatusAt(poller[c].op) = "Succeeded"
  /\ poller' = [poller EXCEPT ![c] = [at |-> "settled", op |-> poller[c].op]]
  /\ UNCHANGED <<clockVars, operations>>

\* The re-GET: vaultBody and fabricCapacityBody ask OperationInFlight.
ReGet(c) ==
  /\ poller[c].at = "settled"
  /\ poller' = [poller EXCEPT ![c] =
       [at |-> "done", op |-> poller[c].op,
        creating |-> OperationInFlight(poller[c].op.resource) # {}]]
  /\ UNCHANGED <<clockVars, operations>>

Forget(c) ==
  /\ poller[c].at = "done"
  /\ poller' = [poller EXCEPT ![c] = [at |-> "idle"]]
  /\ UNCHANGED <<clockVars, operations>>

\* The table survives; a request between its two clock readings does not.
Restart ==
  /\ ClockRestart
  /\ poller' = [c \in Clients |->
       IF poller[c].at = "starting" THEN [at |-> "idle"] ELSE poller[c]]
  /\ UNCHANGED operations

TimeStep == (Tick \/ Control) /\ UNCHANGED <<operations, poller>>

Client(c) ==
  \/ \E resource \in Resources : Start(c, resource)
  \/ \E id \in Ids : Create(c, id)
  \/ Poll(c)
  \/ ReGet(c)
  \/ Forget(c)

Init ==
  /\ ClockInit
  /\ operations = {}
  /\ poller = [c \in Clients |-> [at |-> "idle"]]

Next == TimeStep \/ Restart \/ \E c \in Clients : Client(c)

Spec == Init /\ [][Next]_vars

\* The controlled time is never set back: what the tests of the repository do.
\* Without it an operation can un-complete, and nothing below is promised.
ForwardNext == Next /\ Now' >= Now

\* Real time passes, and every client goes on with what it started.
Fairness ==
  /\ WF_vars(Tick /\ UNCHANGED <<operations, poller>>)
  /\ \A c \in Clients : WF_vars(\E id \in Ids : Create(c, id))
  /\ \A c \in Clients : WF_vars(Poll(c)) /\ WF_vars(ReGet(c))

ForwardSpec == Init /\ [][ForwardNext]_vars
FairSpec == ForwardSpec /\ Fairness

-------------------------------------------------------------------------------
(* Every variable has its type, and no two operations have one id.          *)
TypeOK ==
  /\ ClockTypeOK
  /\ operations \subseteq OperationRows
  /\ poller \in [Clients -> PollerStates]
  /\ \A p, q \in operations : p.id = q.id => p = q

\* The status of each operation id, as a poll would derive it now.
DerivedStatus ==
  [i \in Ids |->
     IF \E op \in operations : op.id = i
       THEN StatusAt(CHOOSE op \in operations : op.id = i)
       ELSE "Unknown"]

Lifecycle == INSTANCE OperationLifecycle WITH status <- DerivedStatus

(* As long as the clock is not set back, statuses derived on read behave    *)
(* like statuses a worker would have advanced: once terminal, terminal.     *)
ImplementsLifecycle == Lifecycle!Spec

(* A PUT poller that has seen the terminal status reads its resource next:  *)
(* the operation it waited for no longer holds the resource in a            *)
(* non-terminal provisioningState.  The two derivations agree to the second.*)
TerminalMeansSettled ==
  \A c \in Clients :
    poller[c].at = "settled" =>
      poller[c].op \notin OperationInFlight(poller[c].op.resource)

(* Freezing holds operations: neither freezing, nor real time passing while *)
(* frozen, nor unfreezing changes the status of any operation.              *)
FrozenHolds ==
  [][Freeze \/ Unfreeze \/ (frozen /\ Tick)
       => \A op \in operations : StatusAt(op)' = StatusAt(op)]_vars

(* A poller is not left spinning: unless the clock is frozen for good, or   *)
(* again and again, a client that has started an operation finishes it.     *)
PollersFinish ==
  <>[](~frozen) =>
    \A c \in Clients : (poller[c].at = "polling") ~> (poller[c].at = "done")
===============================================================================
