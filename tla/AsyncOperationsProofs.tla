------------------------ MODULE AsyncOperationsProofs ------------------------
(***************************************************************************)
(* Proofs about AsyncOperations, for any clients, resources and operation  *)
(* ids, any --lro-delay and any control calls on the clock.                *)
(***************************************************************************)
EXTENDS AsyncOperations, TLAPS

(* A client that has seen its operation done has seen what the clock says.   *)
SettledIsOver ==
  \A c \in Clients : poller[c].at = "settled" => poller[c].op.completeAt <= Now

SettledInv == TypeOK /\ SettledIsOver

-------------------------------------------------------------------------------
LEMMA ClockShape ==
  ASSUME ClockTypeOK
  PROVE  Now \in Int
  BY DEF ClockTypeOK, Now

LEMMA RowShape ==
  ASSUME NEW op \in OperationRows
  PROVE  op.id \in Ids /\ op.resource \in Resources /\ op.completeAt \in Int
  BY DEF OperationRows

(* What a client is doing fixes what is known of its operation.              *)
LEMMA PollerShape ==
  ASSUME NEW p \in PollerStates
  PROVE  /\ p.at = "starting" => p.resource \in Resources /\ p.completeAt \in Int
         /\ p.at \in {"polling", "settled"} => p.op \in OperationRows
  BY DEF PollerStates

(* Ticks, control calls and restarts leave the clock well typed, and so does *)
(* anything that leaves it alone.                                            *)
LEMMA ClockStaysTyped ==
  ASSUME ClockTypeOK, (Tick \/ Control) \/ ClockRestart \/ UNCHANGED clockVars
  PROVE  ClockTypeOK'
<1>1. CASE Tick
  BY <1>1 DEF ClockTypeOK, Tick
<1>2. CASE Freeze
  <2>1. real' \in Int /\ offset' \in Int /\ frozenAt' \in Int
    BY <1>2 DEF ClockTypeOK, Freeze
  <2>2. frozen' \in BOOLEAN
    BY <1>2, Zenon DEF Freeze
  <2> QED
    BY <2>1, <2>2 DEF ClockTypeOK
<1>6. CASE Unfreeze
  <2>1. real' \in Int /\ offset' \in Int /\ frozenAt' \in Int
    BY <1>6 DEF ClockTypeOK, Unfreeze
  <2>2. frozen' \in BOOLEAN
    BY <1>6, Zenon DEF Unfreeze
  <2> QED
    BY <2>1, <2>2 DEF ClockTypeOK
<1>3. ASSUME NEW s \in Offsets, SetOffset(s) PROVE ClockTypeOK'
  BY <1>3, ClockAssumption DEF ClockTypeOK, SetOffset
<1>4. ASSUME NEW s \in Deltas, Advance(s) PROVE ClockTypeOK'
  BY <1>4, ClockAssumption DEF ClockTypeOK, Advance
<1>5. CASE ClockRestart
  <2>1. real' \in Int /\ offset' \in Int /\ frozenAt' \in Int
    BY <1>5 DEF ClockTypeOK, ClockRestart
  <2>2. frozen' \in BOOLEAN
    BY <1>5, Zenon DEF ClockRestart
  <2> QED
    BY <2>1, <2>2 DEF ClockTypeOK
<1>7. CASE UNCHANGED clockVars
  BY <1>7 DEF ClockTypeOK, clockVars
<1> QED
  BY <1>1, <1>2, <1>3, <1>4, <1>5, <1>6, <1>7 DEF Control

(* CreateOperation inserts one row of the id drawn for it, complete when the *)
(* first reading of the clock said, and its client polls that row.           *)
LEMMA CreateShape ==
  ASSUME TypeOK, NEW c \in Clients, NEW id \in Ids, Create(c, id)
  PROVE  /\ Fresh(id)
         /\ \E op \in OperationRows :
              /\ op.id = id
              /\ operations' = operations \cup {op}
              /\ poller' = [poller EXCEPT ![c] = [at |-> "polling", op |-> op]]
<1> DEFINE op == [id |-> id, resource |-> poller[c].resource, createdAt |-> Now,
                  completeAt |-> poller[c].completeAt]
<1>1. poller[c] \in PollerStates /\ poller[c].at = "starting"
  BY DEF TypeOK, Create
<1>2. op \in OperationRows
  BY <1>1, PollerShape, ClockShape DEF TypeOK, OperationRows
<1> QED
  BY <1>2 DEF Create

LEMMA NextTypeOK == TypeOK /\ [Next]_vars => TypeOK'
<1> SUFFICES ASSUME TypeOK, [Next]_vars PROVE TypeOK'
  OBVIOUS
<1>0. poller \in [Clients -> PollerStates] /\ Now \in Int
  BY ClockShape DEF TypeOK
<1>1. ClockTypeOK'
  <2>1. (Tick \/ Control) \/ ClockRestart \/ UNCHANGED clockVars
    BY DEF Next, TimeStep, Restart, Client, Start, Create, Poll, ReGet, Forget, vars
  <2> QED
    BY <2>1, ClockStaysTyped DEF TypeOK
<1>2. ASSUME UNCHANGED operations, poller' \in [Clients -> PollerStates] PROVE TypeOK'
  BY <1>1, <1>2 DEF TypeOK
<1>3. ASSUME UNCHANGED operations, NEW c \in Clients, NEW p \in PollerStates,
             poller' = [poller EXCEPT ![c] = p]
      PROVE  TypeOK'
  BY <1>0, <1>2, <1>3
<1>4. ASSUME NEW c \in Clients, NEW resource \in Resources, Start(c, resource)
      PROVE  TypeOK'
  <2> DEFINE p == [at |-> "starting", resource |-> resource,
                   completeAt |-> Now + LRODelay]
  <2>1. p \in PollerStates
    BY <1>0, DelayAssumption DEF PollerStates
  <2> QED
    BY <1>3, <1>4, <2>1 DEF Start
<1>5. ASSUME NEW c \in Clients, NEW id \in Ids, Create(c, id) PROVE TypeOK'
  <2>1. PICK op \in OperationRows :
          /\ op.id = id
          /\ operations' = operations \cup {op}
          /\ poller' = [poller EXCEPT ![c] = [at |-> "polling", op |-> op]]
    BY <1>5, CreateShape
  <2>2. [at |-> "polling", op |-> op] \in PollerStates
    BY DEF PollerStates
  <2>3. poller' \in [Clients -> PollerStates]
    BY <1>0, <2>1, <2>2
  <2>4. \A p, q \in operations' : p.id = q.id => p = q
    BY <1>5, <2>1, CreateShape DEF TypeOK, Fresh
  <2> QED
    BY <1>1, <2>1, <2>3, <2>4 DEF TypeOK
<1>6. ASSUME NEW c \in Clients, Poll(c) \/ ReGet(c) \/ Forget(c) PROVE TypeOK'
  <2>1. CASE Poll(c)
    <3>1. poller[c].op \in OperationRows
      BY <1>0, <2>1, PollerShape DEF Poll
    <3>2. [at |-> "settled", op |-> poller[c].op] \in PollerStates
      BY <3>1 DEF PollerStates
    <3> QED
      BY <1>3, <2>1, <3>2 DEF Poll
  <2>2. CASE ReGet(c)
    <3> DEFINE creating == OperationInFlight(poller[c].op.resource) # {}
    <3>1. poller[c].op \in OperationRows
      BY <1>0, <2>2, PollerShape DEF ReGet
    <3>2. creating \in BOOLEAN
      OBVIOUS
    <3>3. poller' = [poller EXCEPT ![c] =
            [at |-> "done", op |-> poller[c].op, creating |-> creating]]
      BY <2>2 DEF ReGet
    <3> HIDE DEF creating
    <3>4. [at |-> "done", op |-> poller[c].op, creating |-> creating] \in PollerStates
      BY <3>1, <3>2 DEF PollerStates
    <3> QED
      BY <1>3, <2>2, <3>3, <3>4 DEF ReGet
  <2>3. CASE Forget(c)
    <3>1. [at |-> "idle"] \in PollerStates
      BY DEF PollerStates
    <3> QED
      BY <1>3, <2>3, <3>1 DEF Forget
  <2> QED
    BY <1>6, <2>1, <2>2, <2>3
<1>7. CASE Restart
  <2>1. [at |-> "idle"] \in PollerStates
    BY DEF PollerStates
  <2>2. poller' \in [Clients -> PollerStates]
    BY <1>0, <1>7, <2>1 DEF Restart
  <2> QED
    BY <1>2, <1>7, <2>2 DEF Restart
<1>8. CASE TimeStep \/ UNCHANGED vars
  BY <1>0, <1>2, <1>8 DEF TimeStep, vars
<1> QED
  BY <1>4, <1>5, <1>6, <1>7, <1>8 DEF Next, Client

LEMMA InitTypeOK == Init => TypeOK
<1> SUFFICES ASSUME Init PROVE TypeOK
  OBVIOUS
<1>1. ClockTypeOK
  <2>1. real \in Int /\ offset \in Int /\ frozenAt \in Int
    BY DEF Init, ClockInit
  <2>2. frozen \in BOOLEAN
    BY Zenon DEF Init, ClockInit
  <2> QED
    BY <2>1, <2>2 DEF ClockTypeOK
<1>2. [at |-> "idle"] \in PollerStates
  BY DEF PollerStates
<1>3. poller \in [Clients -> PollerStates]
  BY <1>2 DEF Init
<1> QED
  BY <1>1, <1>3 DEF Init, TypeOK

(* Every reachable state is well typed and no two operations have one id,    *)
(* whatever the control calls do to the clock.                               *)
THEOREM OperationsTypeCorrect == Spec => []TypeOK
  BY InitTypeOK, NextTypeOK, PTL DEF Spec

-------------------------------------------------------------------------------
LEMMA NextSettledInv == SettledInv /\ [ForwardNext]_vars => SettledInv'
<1> SUFFICES ASSUME SettledInv, [ForwardNext]_vars PROVE SettledInv'
  OBVIOUS
<1>0. /\ TypeOK /\ TypeOK' /\ SettledIsOver
      /\ poller \in [Clients -> PollerStates]
  BY NextTypeOK DEF SettledInv, ForwardNext, TypeOK
<1>1. Now \in Int /\ Now' \in Int /\ Now' >= Now
  <2>1. Now \in Int
    BY <1>0, ClockShape DEF TypeOK
  <2>2. Now' \in Int
    BY <1>0 DEF TypeOK, ClockTypeOK, Now
  <2>3. UNCHANGED vars => Now' = Now
    BY DEF vars, clockVars, Now
  <2> QED
    BY <2>1, <2>2, <2>3 DEF ForwardNext
<1>2. ASSUME NEW c \in Clients, poller'[c].at = "settled"
      PROVE  poller'[c].op.completeAt <= Now'
  <2>1. CASE poller'[c] = poller[c]
    <3>1. poller[c].op.completeAt <= Now /\ poller[c].op \in OperationRows
      BY <1>0, <1>2, <2>1, PollerShape DEF SettledIsOver
    <3> QED
      BY <1>1, <2>1, <3>1, RowShape
  <2>2. CASE Poll(c)
    <3>1. poller[c].at = "polling" /\ ~(Now < poller[c].op.completeAt)
      BY <2>2 DEF Poll, StatusAt
    <3>2. poller'[c].op = poller[c].op
      BY <1>0, <2>2 DEF Poll
    <3>3. poller[c].op.completeAt \in Int
      BY <1>0, <3>1, PollerShape, RowShape
    <3> QED
      BY <1>1, <3>1, <3>2, <3>3
  <2>3. CASE poller'[c] # poller[c] /\ ~Poll(c)
    <3>1. ASSUME NEW d \in Clients, Client(d) PROVE poller'[c].at # "settled"
      <4>1. ASSUME NEW p, poller' = [poller EXCEPT ![d] = p], p.at # "settled"
            PROVE  poller'[c].at # "settled"
        BY <1>0, <2>3, <4>1
      <4>2. CASE Poll(d)
        BY <1>0, <2>3, <4>2 DEF Poll
      <4>3. ASSUME NEW resource \in Resources, Start(d, resource)
            PROVE  poller'[c].at # "settled"
        <5> DEFINE p == [at |-> "starting", resource |-> resource,
                         completeAt |-> Now + LRODelay]
        <5>1. p.at # "settled" /\ poller' = [poller EXCEPT ![d] = p]
          BY <4>3 DEF Start
        <5> HIDE DEF p
        <5> QED
          BY <4>1, <5>1
      <4>4. ASSUME NEW id \in Ids, Create(d, id) PROVE poller'[c].at # "settled"
        <5>1. PICK op : poller' = [poller EXCEPT ![d] = [at |-> "polling", op |-> op]]
          BY <1>0, <4>4, CreateShape
        <5> DEFINE p == [at |-> "polling", op |-> op]
        <5>2. p.at # "settled" /\ poller' = [poller EXCEPT ![d] = p]
          BY <5>1
        <5> HIDE DEF p
        <5> QED
          BY <4>1, <5>2
      <4>5. CASE ReGet(d)
        <5> DEFINE p == [at |-> "done", op |-> poller[d].op,
                         creating |-> OperationInFlight(poller[d].op.resource) # {}]
        <5>1. p.at # "settled" /\ poller' = [poller EXCEPT ![d] = p]
          BY <4>5 DEF ReGet
        <5> HIDE DEF p
        <5> QED
          BY <4>1, <5>1
      <4>6. CASE Forget(d)
        <5> DEFINE p == [at |-> "idle"]
        <5>1. p.at # "settled" /\ poller' = [poller EXCEPT ![d] = p]
          BY <4>6 DEF Forget
        <5> HIDE DEF p
        <5> QED
          BY <4>1, <5>1
      <4> QED
        BY <3>1, <4>2, <4>3, <4>4, <4>5, <4>6 DEF Client
    <3>2. CASE Restart
      BY <1>0, <1>2, <2>3, <3>2 DEF Restart
    <3>3. CASE TimeStep \/ UNCHANGED vars
      BY <2>3, <3>3 DEF TimeStep, vars
    <3> QED
      BY <1>2, <3>1, <3>2, <3>3 DEF ForwardNext, Next
  <2> QED
    BY <2>1, <2>2, <2>3
<1> QED
  BY <1>0, <1>2 DEF SettledInv, SettledIsOver

(* As long as the clock is not set back, a client that has seen its          *)
(* operation succeed re-reads a resource its operation no longer holds in a  *)
(* non-terminal provisioningState: the status and OperationInFlight agree on *)
(* the boundary second and stay in agreement.                                *)
THEOREM TerminalDoesMeanSettled == ForwardSpec => []TerminalMeansSettled
<1>1. Init => SettledInv
  BY InitTypeOK DEF SettledInv, SettledIsOver, Init
<1>2. SettledInv => TerminalMeansSettled
  <2> SUFFICES ASSUME SettledInv, NEW c \in Clients, poller[c].at = "settled"
               PROVE  poller[c].op \notin OperationInFlight(poller[c].op.resource)
    BY DEF TerminalMeansSettled
  <2>1. poller[c].op.completeAt <= Now
    BY DEF SettledInv, SettledIsOver
  <2>2. poller[c].op.completeAt \in Int /\ Now \in Int
    BY PollerShape, RowShape, ClockShape DEF SettledInv, TypeOK
  <2> QED
    BY <2>1, <2>2 DEF OperationInFlight
<1> QED
  BY <1>1, <1>2, NextSettledInv, PTL DEF ForwardSpec

-------------------------------------------------------------------------------
(* Freezing takes the controlled time as it is, real time does not pass      *)
(* while frozen, and unfreezing resumes from the frozen time.                *)
LEMMA FreezingKeepsNow ==
  ASSUME ClockTypeOK, Freeze \/ Unfreeze \/ (frozen /\ Tick)
  PROVE  Now' = Now
  BY DEF ClockTypeOK, Freeze, Unfreeze, Tick, Now

(* Freezing holds operations: neither freezing, nor real time passing while  *)
(* frozen, nor unfreezing changes the status of any operation.               *)
THEOREM FrozenDoesHold == Spec => FrozenHolds
<1>1. TypeOK =>
        (Freeze \/ Unfreeze \/ (frozen /\ Tick)
           => \A op \in operations : StatusAt(op)' = StatusAt(op))
  BY FreezingKeepsNow DEF TypeOK, StatusAt
<1> QED
  BY <1>1, OperationsTypeCorrect, PTL DEF FrozenHolds, Spec

-------------------------------------------------------------------------------
(* The status a poll would derive for an id, in terms of the table.          *)
LEMMA DerivedShape ==
  ASSUME TypeOK, NEW i \in Ids
  PROVE  /\ \A op \in operations : op.id = i => DerivedStatus[i] = StatusAt(op)
         /\ (\A op \in operations : op.id # i) => DerivedStatus[i] = "Unknown"
         /\ DOMAIN DerivedStatus = Ids
<1>1. ASSUME NEW op \in operations, op.id = i PROVE DerivedStatus[i] = StatusAt(op)
  <2>1. (CHOOSE o \in operations : o.id = i) = op
    BY <1>1 DEF TypeOK
  <2> QED
    BY <1>1, <2>1 DEF DerivedStatus
<1> QED
  BY <1>1 DEF DerivedStatus

(* Over a step that draws no operation, running operations may finish, and   *)
(* nothing else: a clock that is not set back un-completes none.             *)
LEMMA TimeFinishes ==
  ASSUME TypeOK, TypeOK', UNCHANGED operations, Now' >= Now
  PROVE  \E done \in SUBSET {i \in Ids : DerivedStatus[i] = "InProgress"} :
           DerivedStatus' =
             [i \in Ids |-> IF i \in done THEN "Succeeded" ELSE DerivedStatus[i]]
<1> DEFINE done == {i \in Ids : DerivedStatus[i] = "InProgress" /\
                                DerivedStatus'[i] = "Succeeded"}
<1>1. Now \in Int /\ Now' \in Int
  BY DEF TypeOK, ClockTypeOK, Now
<1>2. ASSUME NEW i \in Ids
      PROVE  DerivedStatus'[i] = IF i \in done THEN "Succeeded" ELSE DerivedStatus[i]
  <2>1. CASE \E op \in operations : op.id = i
    <3>1. PICK op \in operations : op.id = i
      BY <2>1
    <3>2. DerivedStatus[i] = StatusAt(op)
      BY <3>1, DerivedShape
    <3>3. (CHOOSE o \in operations : o.id = i) = op
      BY <3>1 DEF TypeOK
    <3>4. DerivedStatus'[i] = StatusAt(op)'
      BY <3>1, <3>3 DEF DerivedStatus, StatusAt
    <3>5. op.completeAt \in Int
      BY RowShape DEF TypeOK
    <3>6. StatusAt(op)' = StatusAt(op) \/
            (StatusAt(op) = "InProgress" /\ StatusAt(op)' = "Succeeded")
      BY <1>1, <3>5 DEF StatusAt
    <3> QED
      BY <3>2, <3>4, <3>6 DEF StatusAt
  <2>2. CASE \A op \in operations : op.id # i
    <3>1. DerivedStatus[i] = "Unknown"
      BY <2>2, DerivedShape
    <3>2. DerivedStatus'[i] = "Unknown"
      BY <2>2 DEF DerivedStatus
    <3> QED
      BY <3>1, <3>2
  <2> QED
    BY <2>1, <2>2
<1>3. DerivedStatus' = [i \in Ids |-> DerivedStatus'[i]]
  BY DEF DerivedStatus
<1>4. DerivedStatus' =
        [i \in Ids |-> IF i \in done THEN "Succeeded" ELSE DerivedStatus[i]]
  BY <1>2, <1>3
<1> QED
  BY <1>4

(* Creating an operation makes the status of its id known, and leaves every  *)
(* other status as it was.                                                   *)
LEMMA CreateAccepts ==
  ASSUME TypeOK, TypeOK', NEW c \in Clients, NEW id \in Ids, Create(c, id)
  PROVE  /\ DerivedStatus[id] = "Unknown"
         /\ \E s \in {"InProgress", "Succeeded"} :
              DerivedStatus' = [DerivedStatus EXCEPT ![id] = s]
<1>1. PICK op \in OperationRows : op.id = id /\ operations' = operations \cup {op}
  BY CreateShape
<1>2. \A o \in operations : o.id # id
  BY CreateShape DEF Fresh
<1>3. DerivedStatus[id] = "Unknown"
  BY <1>2, DerivedShape
<1>4. Now' = Now
  BY DEF Create, clockVars, Now
<1>5. DerivedStatus'[id] = StatusAt(op)
  <2>1. (CHOOSE o \in operations' : o.id = id) = op
    BY <1>1, <1>2
  <2> QED
    BY <1>1, <1>4, <2>1 DEF DerivedStatus, StatusAt
<1>6. ASSUME NEW i \in Ids, i # id PROVE DerivedStatus'[i] = DerivedStatus[i]
  <2>1. CASE \E o \in operations : o.id = i
    <3>1. PICK o \in operations : o.id = i
      BY <2>1
    <3>2. (CHOOSE x \in operations' : x.id = i) = o
      BY <1>1, <3>1 DEF TypeOK
    <3>3. DerivedStatus'[i] = StatusAt(o)
      BY <1>1, <1>4, <3>1, <3>2 DEF DerivedStatus, StatusAt
    <3> QED
      BY <3>1, <3>3, DerivedShape
  <2>2. CASE \A o \in operations : o.id # i
    <3>1. \A o \in operations' : o.id # i
      BY <1>1, <1>6, <2>2
    <3> QED
      BY <2>2, <3>1 DEF DerivedStatus
  <2> QED
    BY <2>1, <2>2
<1>7. DerivedStatus' = [DerivedStatus EXCEPT ![id] = StatusAt(op)]
  BY <1>5, <1>6 DEF DerivedStatus
<1> QED
  BY <1>3, <1>7 DEF StatusAt

(* Statuses derived from the clock on every read behave like statuses a      *)
(* worker would have advanced: unknown, then in progress, then succeeded,    *)
(* and terminal for good, as long as the clock is not set back.              *)
THEOREM OperationsFollowTheLifecycle == ForwardSpec => ImplementsLifecycle
<1>1. Init => Lifecycle!Init
  BY DEF Init, Lifecycle!Init, DerivedStatus
<1>2. ASSUME TypeOK, TypeOK', [ForwardNext]_vars
      PROVE  [Lifecycle!Next]_DerivedStatus
  <2>1. ASSUME NEW c \in Clients, NEW id \in Ids, Create(c, id)
        PROVE  Lifecycle!Next
    BY <1>2, <2>1, CreateAccepts DEF Lifecycle!Next, Lifecycle!Accept
  <2>2. ASSUME UNCHANGED operations, Now' >= Now PROVE Lifecycle!Next
    BY <1>2, <2>2, TimeFinishes DEF Lifecycle!Next, Lifecycle!Finish
  <2>3. CASE UNCHANGED vars
    BY <2>3 DEF vars, clockVars, DerivedStatus, StatusAt, Now
  <2>4. CASE ForwardNext /\ ~(\E c \in Clients, id \in Ids : Create(c, id))
    <3>1. UNCHANGED operations
      BY <2>4 DEF ForwardNext, Next, TimeStep, Restart, Client, Start, Poll, ReGet,
                  Forget
    <3> QED
      BY <2>2, <2>4, <3>1 DEF ForwardNext
  <2> QED
    BY <1>2, <2>1, <2>3, <2>4
<1>3. [ForwardNext]_vars => [Next]_vars
  BY DEF ForwardNext
<1> QED
  BY <1>1, <1>2, <1>3, InitTypeOK, NextTypeOK, PTL
     DEF ForwardSpec, ImplementsLifecycle, Lifecycle!Spec

===============================================================================
