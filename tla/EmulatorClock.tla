---------------------------- MODULE EmulatorClock ----------------------------
(***************************************************************************)
(* The controllable clock of internal/clock/clock.go and the control calls *)
(* POST /_emulator/clock makes on it (internal/server/server.go).  Every   *)
(* method holds the clock's mutex, so each is one action; the handler      *)
(* makes its calls one after the other and other requests run between      *)
(* them, which is the interleaving of the actions below.                   *)
(***************************************************************************)
EXTENDS Integers

CONSTANTS
  Offsets,    \* arguments of SetOffset
  Deltas,     \* arguments of Advance
  MaxNow,     \* bound: the controlled time reaches at most this
  MaxFrozen   \* bound: real time passes while frozen up to this

ASSUME ClockAssumption ==
  /\ Offsets \subseteq Int
  /\ Deltas \subseteq Int
  /\ MaxNow \in Int
  /\ MaxFrozen \in Int

VARIABLES
  real,       \* realNow(): the host's clock, in seconds
  offset,     \* seconds added to real time when not frozen
  frozen,
  frozenAt    \* the time returned while frozen

clockVars == <<real, offset, frozen, frozenAt>>

Now == IF frozen THEN frozenAt ELSE real + offset

\* Unfreeze without its offset: the controlled time would jump.
UnfreezeForgetful ==
  /\ frozen
  /\ frozen' = FALSE
  /\ UNCHANGED <<real, offset, frozenAt>>

Unfreeze ==
  /\ frozen
  /\ offset' = frozenAt - real
  /\ frozen' = FALSE
  /\ UNCHANGED <<real, frozenAt>>

Freeze ==
  /\ ~frozen
  /\ frozenAt' = real + offset
  /\ frozen' = TRUE
  /\ UNCHANGED <<real, offset>>

SetOffset(seconds) ==
  /\ real + seconds <= MaxNow
  /\ offset' = seconds
  /\ frozen' = FALSE
  /\ UNCHANGED <<real, frozenAt>>

Advance(seconds) ==
  /\ Now + seconds <= MaxNow
  /\ IF frozen
       THEN frozenAt' = frozenAt + seconds /\ UNCHANGED offset
       ELSE offset' = offset + seconds /\ UNCHANGED frozenAt
  /\ UNCHANGED <<real, frozen>>

\* A second of real time.
Tick ==
  /\ IF frozen THEN real < MaxFrozen ELSE real + offset < MaxNow
  /\ real' = real + 1
  /\ UNCHANGED <<offset, frozen, frozenAt>>

\* A new process builds a new clock: nothing of its state is on disk.
ClockRestart ==
  /\ real <= MaxNow
  /\ offset' = 0
  /\ frozen' = FALSE
  /\ frozenAt' = 0
  /\ UNCHANGED real

\* What POST /_emulator/clock can do.
Control ==
  \/ Freeze
  \/ Unfreeze
  \/ \E s \in Offsets : SetOffset(s)
  \/ \E s \in Deltas : Advance(s)

ClockInit ==
  /\ real = 0
  /\ offset = 0
  /\ frozen = FALSE
  /\ frozenAt = 0

ClockTypeOK ==
  /\ real \in Int
  /\ offset \in Int
  /\ frozen \in BOOLEAN
  /\ frozenAt \in Int
===============================================================================
