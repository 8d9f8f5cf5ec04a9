--------------------------- MODULE FabricCapacity ---------------------------
(***************************************************************************)
(* Microsoft.Fabric/capacities: the handlers of internal/arm/fabric.go     *)
(* over the table of internal/store/capacities.go.  Every write of the     *)
(* table is the same upsert of a WHOLE row, and PATCH, suspend and resume  *)
(* write back the row they read some statements earlier.                   *)
(*                                                                         *)
(* One SQL statement is atomic, requests interleave between statements; a  *)
(* request suspended between two is a record of `inflight`, its field `at` *)
(* naming what it does next.  A client that suspended or resumed a         *)
(* capacity then follows the poller's protocol and reads it again.         *)
(*                                                                         *)
(* Abstracted: location, tags and members (they travel with `sku`), the    *)
(* letter case of names and groups, validation (before the first           *)
(* statement), and the clock, which only moves forward here.               *)
(***************************************************************************)
EXTENDS Integers, Sequences, FiniteSets

CONSTANTS
  Clients,   \* requests that may be in flight at once, one per client
  Names,     \* capacity names, letter case folded
  Groups,    \* resource groups
  Skus,
  LRODelay,  \* --lro-delay, in seconds of the controlled clock
  MaxNow,    \* bound: the last second of the run
  MaxIds,    \* bound: how many fabric ids are drawn
  None

ASSUME CapacityAssumption ==
  /\ LRODelay \in Nat
  /\ MaxNow \in Nat
  /\ MaxIds \in Nat
  /\ None \notin Names \cup Nat

States == {"Active", "Paused"}
Ids == 1 .. MaxIds
CapacityRows ==
  [name : Names, group : Groups, sku : Skus, state : States, id : Ids]
Kinds == {"put", "patch", "suspend", "resume"}

VARIABLES
  now,
  groups,      \* table resource_groups: the groups that exist
  capacities,  \* table fabric_capacities: a set of rows
  busyUntil,   \* table operations: the latest complete_at of each resource
  inflight,    \* requests suspended between two statements, and pollers
  drawnFor,    \* the names fabric ids were drawn for, in order
  retired,     \* history: fabric ids whose row was deleted
  contested,   \* history: ids deleted while a write under that id was waiting
  named,       \* history: groups that existed, or that a PATCH moved a row to
  promised     \* history: what each name should hold, writes taken one by one

vars == <<now, groups, capacities, busyUntil, inflight, drawnFor, retired,
          contested, named, promised>>
history == <<retired, contested, named, promised>>

Contents == [group : Groups, sku : Skus, state : States]
ContentsOf(row) == [group |-> row.group, sku |-> row.sku, state |-> row.state]

Requests ==
  [at : {"lookup"}, client : Clients, name : Names, want : Contents]
    \cup [at : {"write"}, client : Clients, kind : Kinds, row : CapacityRows,
          stale : BOOLEAN]
    \cup [at : {"delete"}, client : Clients, name : Names, group : Groups]
    \cup [at : {"start"}, client : Clients, name : Names, group : Groups,
          awaits : States \cup {None}]
    \cup [at : {"poll"}, client : Clients, name : Names, until : Nat,
          awaits : States \cup {None}]

Idle(c) == \A r \in inflight : r.client # c
Others(r) == inflight \ {r}

\* SELECT ... WHERE name = ? COLLATE NOCASE: the row of a name, if there is one.
GetFabricCapacity(n) == {row \in capacities : row.name = n}

-------------------------------------------------------------------------------
(* The statement all four writers share. *)

\* The table without its primary key.
InsertRow(row) == capacities \cup {row}

\* An upsert that takes every column from the request, the fabric id included.
UpsertAll(row) == (capacities \ GetFabricCapacity(row.name)) \cup {row}

\* INSERT ... ON CONFLICT (subscription, name) DO UPDATE: the row of the name
\* keeps its fabric id and takes everything else from the request.
Upsert(row) ==
  IF GetFabricCapacity(row.name) = {}
    THEN capacities \cup {row}
    ELSE {IF old.name = row.name THEN [row EXCEPT !.id = old.id] ELSE old :
            old \in capacities}

\* A write or delete of a name marks the requests that read it before as stale;
\* if it settles the state anew, nobody can count on an earlier one any more.
Touched(n, rs, restates) ==
  {IF r.at = "write" /\ r.row.name = n THEN [r EXCEPT !.stale = TRUE]
   ELSE IF r.at \in {"start", "poll"} /\ r.name = n /\ restates
     THEN [r EXCEPT !.awaits = None]
     ELSE r : r \in rs}

Write(r) ==
  /\ r.at = "write"
  /\ capacities' = Upsert(r.row)
  /\ inflight' =
       Touched(r.row.name, Others(r), r.kind # "patch" \/ r.stale)
         \cup {[at |-> "start", client |-> r.client, name |-> r.row.name,
                group |-> r.row.group,
                awaits |-> IF r.kind \in {"suspend", "resume"}
                             THEN r.row.state ELSE None]}
  /\ promised' = [promised EXCEPT ![r.row.name] =
       IF r.kind = "put" \/ r.stale
         THEN ContentsOf(r.row)
         ELSE IF r.kind = "patch"
           THEN [@ EXCEPT !.sku = r.row.sku, !.group = r.row.group]
           ELSE [@ EXCEPT !.state = r.row.state]]
  /\ named' = IF r.kind = "patch" THEN named \cup {r.row.group} ELSE named
  /\ UNCHANGED <<now, groups, busyUntil, drawnFor, retired, contested>>

-------------------------------------------------------------------------------
(* PUT capacities/{name}: the group, the id of the name, the upsert. *)

\* The group of the path taken on trust, as PATCH takes it.
PutCapacityUnchecked(c, n, want) ==
  /\ Idle(c)
  /\ inflight' = inflight \cup
       {[at |-> "lookup", client |-> c, name |-> n, want |-> want]}
  /\ UNCHANGED <<now, groups, capacities, busyUntil, drawnFor, history>>

\* An absent group answers 404.  The read after it only picks 200 or 201.
PutCapacity(c, n, want) ==
  /\ Idle(c)
  /\ want.group \in groups
  /\ inflight' = inflight \cup
       {[at |-> "lookup", client |-> c, name |-> n, want |-> want]}
  /\ UNCHANGED <<now, groups, capacities, busyUntil, drawnFor, history>>

NamedRow(n, want, id) ==
  [name |-> n, group |-> want.group, sku |-> want.sku, state |-> want.state,
   id |-> id]

\* NewGUID, and an id derived from the name instead.
DerivedId(n) ==
  IF \E i \in DOMAIN drawnFor : drawnFor[i] = n
    THEN CHOOSE i \in DOMAIN drawnFor : drawnFor[i] = n
    ELSE Len(drawnFor) + 1
NewGuid(n) == Len(drawnFor) + 1

\* PutFabricCapacity without a fabric id: keep the one the name has, or draw.
PutLookup(r) ==
  /\ r.at = "lookup"
  /\ LET rows == GetFabricCapacity(r.name)
         id == IF rows = {} THEN NewGuid(r.name)
                            ELSE (CHOOSE row \in rows : TRUE).id
     IN  /\ id <= MaxIds
         /\ drawnFor' = IF id > Len(drawnFor) THEN Append(drawnFor, r.name)
                                              ELSE drawnFor
         /\ inflight' = Others(r) \cup
              {[at |-> "write", client |-> r.client, kind |-> "put",
                row |-> NamedRow(r.name, r.want, id), stale |-> FALSE]}
  /\ UNCHANGED <<now, groups, capacities, busyUntil, history>>

-------------------------------------------------------------------------------
(* PATCH, suspend and resume: read the row, change it, write it back whole. *)

\* PATCH of the size that rebuilds the properties, so the state is the default.
PatchedAfresh(row, sku, group) ==
  [row EXCEPT !.sku = sku, !.group = group, !.state = "Active"]

\* PATCH replaces what the body names and takes the group of its path; that
\* group is not looked up.
Patched(row, sku, group) == [row EXCEPT !.sku = sku, !.group = group]

Modify(c, kind, row) ==
  /\ Idle(c)
  /\ inflight' = inflight \cup
       {[at |-> "write", client |-> c, kind |-> kind, row |-> row,
         stale |-> FALSE]}
  /\ UNCHANGED <<now, groups, capacities, busyUntil, drawnFor, history>>

PatchCapacity(c, n, sku, group) ==
  \E row \in GetFabricCapacity(n) : Modify(c, "patch", Patched(row, sku, group))

SuspendCapacity(c, n) ==
  \E row \in GetFabricCapacity(n) :
    Modify(c, "suspend", [row EXCEPT !.state = "Paused"])

ResumeCapacity(c, n) ==
  \E row \in GetFabricCapacity(n) :
    Modify(c, "resume", [row EXCEPT !.state = "Active"])

-------------------------------------------------------------------------------
(* DELETE: read the row (its group names the operation), delete by name. *)

DeleteCapacity(c, n) ==
  /\ Idle(c)
  /\ \E row \in GetFabricCapacity(n) :
       inflight' = inflight \cup
         {[at |-> "delete", client |-> c, name |-> n, group |-> row.group]}
  /\ UNCHANGED <<now, groups, capacities, busyUntil, drawnFor, history>>

DeleteExec(r) ==
  /\ r.at = "delete"
  /\ GetFabricCapacity(r.name) # {}
  /\ LET gone == {row.id : row \in GetFabricCapacity(r.name)}
     IN  /\ capacities' = capacities \ GetFabricCapacity(r.name)
         /\ retired' = retired \cup gone
         /\ contested' = contested \cup
              {id \in gone : \E w \in inflight : w.at = "write" /\ w.row.id = id}
  /\ promised' = [promised EXCEPT ![r.name] = None]
  /\ inflight' = Touched(r.name, Others(r), TRUE) \cup
       {[at |-> "start", client |-> r.client, name |-> r.name,
         group |-> r.group, awaits |-> None]}
  /\ UNCHANGED <<now, groups, busyUntil, drawnFor, named>>

\* No row affected: 500, where a DELETE that had found nothing answers 204.
DeleteGone(r) ==
  /\ r.at = "delete"
  /\ GetFabricCapacity(r.name) = {}
  /\ inflight' = Others(r)
  /\ UNCHANGED <<now, groups, capacities, busyUntil, drawnFor, history>>

-------------------------------------------------------------------------------
(* The operation of a write, and the poller of a suspend or resume. *)

\* startOperation, under the resource id of the request's own row.  An answer
\* nobody waits for ends the request.
StartOperation(r) ==
  /\ r.at = "start"
  /\ busyUntil' = [busyUntil EXCEPT ![<<r.name, r.group>>] = now + LRODelay]
  /\ inflight' = Others(r) \cup
       IF r.awaits = None
         THEN {}
         ELSE {[at |-> "poll", client |-> r.client, name |-> r.name,
                until |-> now + LRODelay, awaits |-> r.awaits]}
  /\ UNCHANGED <<now, groups, capacities, drawnFor, history>>

\* A capacity with an operation in flight shown as Preparing, whatever it is.
BodyStatePreparing(row) ==
  IF busyUntil[<<row.name, row.group>>] > now THEN "Preparing" ELSE row.state

\* fabricCapacityBody: only an active capacity shows an operation in flight.
BodyState(row) ==
  IF row.state = "Active" /\ busyUntil[<<row.name, row.group>>] > now
    THEN "Preparing"
    ELSE row.state

\* The poller sees the terminal status; the client reads the capacity and goes.
ReGet(r) ==
  /\ r.at = "poll"
  /\ now >= r.until
  /\ inflight' = Others(r)
  /\ UNCHANGED <<now, groups, capacities, busyUntil, drawnFor, history>>

-------------------------------------------------------------------------------
(* The rest of the emulator, as far as a capacity notices it. *)

PutGroup(g) ==
  /\ g \notin groups
  /\ groups' = groups \cup {g}
  /\ named' = named \cup {g}
  /\ UNCHANGED <<now, capacities, busyUntil, inflight, drawnFor, retired,
                 contested, promised>>

\* Deleting a group does not look at what is in it.
DeleteGroup(g) ==
  /\ g \in groups
  /\ groups' = groups \ {g}
  /\ UNCHANGED <<now, capacities, busyUntil, inflight, drawnFor, history>>

ClockMoves ==
  /\ now < MaxNow
  /\ now' = now + 1
  /\ UNCHANGED <<groups, capacities, busyUntil, inflight, drawnFor, history>>

\* The tables survive a restart, requests in a handler do not; clients do.
Restart ==
  /\ inflight' = {r \in inflight : r.at = "poll"}
  /\ UNCHANGED <<now, groups, capacities, busyUntil, drawnFor, history>>

Init ==
  /\ now = 0
  /\ groups = {}
  /\ capacities = {}
  /\ busyUntil = [home \in Names \X Groups |-> 0]
  /\ inflight = {}
  /\ drawnFor = <<>>
  /\ retired = {}
  /\ contested = {}
  /\ named = {}
  /\ promised = [n \in Names |-> None]

Arrive(c) ==
  \E n \in Names :
    \/ \E want \in Contents : PutCapacity(c, n, want)
    \/ \E sku \in Skus, group \in Groups : PatchCapacity(c, n, sku, group)
    \/ SuspendCapacity(c, n)
    \/ ResumeCapacity(c, n)
    \/ DeleteCapacity(c, n)

Proceed(r) ==
  \/ PutLookup(r)
  \/ Write(r)
  \/ DeleteExec(r)
  \/ DeleteGone(r)
  \/ StartOperation(r)
  \/ ReGet(r)

Next ==
  \/ \E c \in Clients : Arrive(c)
  \/ \E r \in inflight : Proceed(r)
  \/ \E g \in Groups : PutGroup(g) \/ DeleteGroup(g)
  \/ ClockMoves
  \/ Restart

Spec == Init /\ [][Next]_vars

-------------------------------------------------------------------------------
(* Every variable has its type; name is the primary key and fabric_id is    *)
(* unique, as the table's indexes have it; one request per client.          *)
TypeOK ==
  /\ now \in 0 .. MaxNow
  /\ groups \subseteq Groups
  /\ capacities \subseteq CapacityRows
  /\ \A a, b \in capacities : (a.name = b.name \/ a.id = b.id) => a = b
  /\ busyUntil \in [Names \X Groups -> 0 .. MaxNow + LRODelay]
  /\ inflight \subseteq Requests
  /\ \A a, b \in inflight : a.client = b.client => a = b
  /\ drawnFor \in Seq(Names)
  /\ Len(drawnFor) <= MaxIds
  /\ retired \subseteq Ids
  /\ contested \subseteq Ids
  /\ named \subseteq Groups
  /\ promised \in [Names -> Contents \cup {None}]

Identity == INSTANCE CapacityIdentity WITH
  holds <- [n \in Names |->
              IF GetFabricCapacity(n) = {} THEN None
              ELSE (CHOOSE row \in GetFabricCapacity(n) : TRUE).id],
  drawn <- [id \in Ids |-> IF id \in DOMAIN drawnFor THEN drawnFor[id] ELSE None]

(* The upserts of interleaved PUTs, PATCHes, suspends and resumes keep the  *)
(* REST id of a capacity: it never changes while the capacity exists and    *)
(* never turns up under another name (the comment of PutFabricCapacity).    *)
ImplementsIdentity == Identity!Spec

(* A deleted capacity stays deleted: its id is listed again only if, when   *)
(* it was deleted, a request held the row it had read and wrote it back.    *)
RetiredStaysGone ==
  \A row \in capacities : row.id \in retired => row.id \in contested

(* Writers of different parts do not undo one another: a capacity holds the *)
(* size and group of the last PUT or PATCH and the state of the last PUT,   *)
(* suspend or resume, until a request that read before another wrote, and   *)
(* so writes back what it read, lands (fabric.go: every write is the whole  *)
(* row).                                                                    *)
WritesKeepTheRest ==
  \A n \in Names :
    promised[n] = IF GetFabricCapacity(n) = {} THEN None
                  ELSE ContentsOf(CHOOSE row \in GetFabricCapacity(n) : TRUE)

(* Who suspends or resumes a capacity and polls until the operation is done *)
(* then reads what was asked for: a suspended one is Paused even while a     *)
(* PATCH is in flight, a resumed one is Active or Preparing; unless another  *)
(* request has meanwhile set the state, deleted it or written back an older  *)
(* row.                                                                      *)
PollerReadsItsState ==
  \A r \in inflight :
    r.at = "poll" /\ now >= r.until /\ r.awaits # None =>
      \E row \in GetFabricCapacity(r.name) :
        BodyState(row) \in
          IF r.awaits = "Paused" THEN {"Paused"} ELSE {"Active", "Preparing"}

(* A capacity lives in a resource group that has existed, unless a PATCH    *)
(* under another path carried it to a group nobody looked up.               *)
HomeExplained == \A row \in capacities : row.group \in named
===============================================================================
