------------------------ MODULE FabricCapacityProofs ------------------------
(***************************************************************************)
(* Proofs about FabricCapacity, for any number of clients, capacities,     *)
(* groups and sizes, any delay and any bounds.                             *)
(***************************************************************************)
EXTENDS FabricCapacity, TLAPS

Writes == {r \in inflight : r.at = "write"}

(* An id in the table or on its way there was drawn for the name it is      *)
(* listed under, and so was every id that has been deleted.                 *)
DrawnForItsName ==
  /\ \A row \in capacities : row.id \in 1 .. Len(drawnFor) /\ drawnFor[row.id] = row.name
  /\ \A w \in Writes : w.row.id \in 1 .. Len(drawnFor) /\ drawnFor[w.row.id] = w.row.name
  /\ retired \subseteq 1 .. Len(drawnFor)

(* A write that will bring a deleted id back was already waiting when it    *)
(* was deleted.                                                             *)
WritesContested == \A w \in Writes : w.row.id \in retired => w.row.id \in contested

(* The group of a write that took its group from a check or from the table  *)
(* has existed, or a PATCH has named it.                                    *)
WritesNamed ==
  /\ groups \subseteq named
  /\ \A r \in inflight : r.at = "lookup" => r.want.group \in named
  /\ \A w \in Writes : w.kind # "patch" => w.row.group \in named

(* A request that read a row nobody has written since holds, in the part it *)
(* does not change, what the table holds.                                   *)
FreshWrites ==
  \A w \in Writes :
    ~w.stale /\ w.kind # "put" =>
      \E row \in capacities :
        /\ row.name = w.row.name
        /\ IF w.kind = "patch"
             THEN row.state = w.row.state
             ELSE row.sku = w.row.sku /\ row.group = w.row.group

(* What a suspend or resume has written stands while its client counts on it.*)
AwaitedHolds ==
  \A r \in inflight :
    r.at \in {"start", "poll"} /\ r.awaits # None =>
      \E row \in capacities : row.name = r.name /\ row.state = r.awaits

\* What a name was promised is typed only because it is also kept.
TableInv == TypeOK /\ DrawnForItsName /\ FreshWrites /\ WritesKeepTheRest
RetiredInv == TableInv /\ WritesContested /\ RetiredStaysGone
HomeInv == TableInv /\ WritesNamed /\ HomeExplained
PollerInv == TableInv /\ AwaitedHolds

-------------------------------------------------------------------------------
(* A suspended request is of one of the five kinds, with its fields typed.   *)
LEMMA RequestFields ==
  ASSUME NEW r \in Requests
  PROVE  /\ r.client \in Clients
         /\ r.at \in {"lookup", "write", "delete", "start", "poll"}
         /\ r.at = "lookup" => r.name \in Names /\ r.want \in Contents
         /\ r.at = "write" => /\ r.kind \in Kinds
                              /\ r.row \in CapacityRows
                              /\ r.stale \in BOOLEAN
                              /\ r \in [at : {"write"}, client : Clients, kind : Kinds,
                                        row : CapacityRows, stale : BOOLEAN]
         /\ r.at = "delete" => r.name \in Names /\ r.group \in Groups
         /\ r.at = "start" => /\ r.name \in Names
                              /\ r.group \in Groups
                              /\ r.awaits \in States \cup {None}
                              /\ r \in [at : {"start"}, client : Clients, name : Names,
                                        group : Groups, awaits : States \cup {None}]
         /\ r.at = "poll" => /\ r.name \in Names
                             /\ r.awaits \in States \cup {None}
                             /\ r \in [at : {"poll"}, client : Clients, name : Names,
                                       until : Nat, awaits : States \cup {None}]
  BY DEF Requests

LEMMA RowFields ==
  ASSUME NEW row \in CapacityRows
  PROVE  /\ row.name \in Names
         /\ row.group \in Groups
         /\ row.sku \in Skus
         /\ row.state \in States
         /\ row.id \in Ids
  BY DEF CapacityRows

(* What the write or delete of a name does to one suspended request.         *)
TouchedOne(n, q, restates) ==
  IF q.at = "write" /\ q.row.name = n THEN [q EXCEPT !.stale = TRUE]
  ELSE IF q.at \in {"start", "poll"} /\ q.name = n /\ restates
    THEN [q EXCEPT !.awaits = None]
    ELSE q

(* A touched request is the same request, except that a write of the name    *)
(* is stale and, if the state was settled anew, nobody waits for another.    *)
LEMMA TouchedOneKeeps ==
  ASSUME NEW n, NEW q \in Requests, NEW restates \in BOOLEAN
  PROVE  LET m == TouchedOne(n, q, restates)
         IN  /\ m \in Requests
             /\ m.client = q.client
             /\ m.at = q.at
             /\ q.at = "write" => /\ m.row = q.row
                                  /\ m.kind = q.kind
                                  /\ m.stale = (q.stale \/ q.row.name = n)
             /\ q.at \in {"start", "poll"} =>
                  /\ m.name = q.name
                  /\ m.awaits = IF q.name = n /\ restates THEN None ELSE q.awaits
             /\ q.at \in {"lookup", "delete"} => m = q
<1> DEFINE m == TouchedOne(n, q, restates)
<1>1. CASE q.at = "write"
  <2>1. q \in [at : {"write"}, client : Clients, kind : Kinds,
               row : CapacityRows, stale : BOOLEAN]
    BY <1>1, RequestFields
  <2>2. CASE q.row.name = n
    <3>1. m = [q EXCEPT !.stale = TRUE]
      BY <1>1, <2>2 DEF TouchedOne
    <3>2. m \in [at : {"write"}, client : Clients, kind : Kinds,
                 row : CapacityRows, stale : BOOLEAN]
      BY <2>1, <3>1
    <3> QED
      BY <1>1, <2>1, <2>2, <3>1, <3>2 DEF Requests
  <2>3. CASE q.row.name # n
    <3>1. m = q
      BY <1>1, <2>3 DEF TouchedOne
    <3> QED
      BY <1>1, <2>1, <2>3, <3>1
  <2> QED
    BY <2>2, <2>3
<1>2. CASE q.at = "start"
  <2>1. q \in [at : {"start"}, client : Clients, name : Names,
               group : Groups, awaits : States \cup {None}]
    BY <1>2, RequestFields
  <2>2. m = IF q.name = n /\ restates THEN [q EXCEPT !.awaits = None] ELSE q
    BY <1>2 DEF TouchedOne
  <2>3. m \in [at : {"start"}, client : Clients, name : Names,
               group : Groups, awaits : States \cup {None}]
    BY <2>1, <2>2
  <2> QED
    BY <1>2, <2>1, <2>2, <2>3 DEF Requests
<1>3. CASE q.at = "poll"
  <2>1. q \in [at : {"poll"}, client : Clients, name : Names,
               until : Nat, awaits : States \cup {None}]
    BY <1>3, RequestFields
  <2>2. m = IF q.name = n /\ restates THEN [q EXCEPT !.awaits = None] ELSE q
    BY <1>3 DEF TouchedOne
  <2>3. m \in [at : {"poll"}, client : Clients, name : Names,
               until : Nat, awaits : States \cup {None}]
    BY <2>1, <2>2
  <2> QED
    BY <1>3, <2>1, <2>2, <2>3 DEF Requests
<1>4. CASE q.at \in {"lookup", "delete"}
  <2>1. m = q
    BY <1>4 DEF TouchedOne
  <2> QED
    BY <1>4, <2>1
<1> QED
  BY <1>1, <1>2, <1>3, <1>4, RequestFields

LEMMA TouchedShape ==
  ASSUME NEW n, NEW rs \in SUBSET Requests, NEW restates \in BOOLEAN
  PROVE  /\ Touched(n, rs, restates) \subseteq Requests
         /\ \A m \in Touched(n, rs, restates) :
              \E q \in rs : m = TouchedOne(n, q, restates)
         /\ (\A a, b \in rs : a.client = b.client => a = b) =>
              \A a, b \in Touched(n, rs, restates) : a.client = b.client => a = b
<1>1. Touched(n, rs, restates) = {TouchedOne(n, q, restates) : q \in rs}
  BY DEF Touched, TouchedOne
<1> QED
  BY <1>1, TouchedOneKeeps

(* The name is the primary key: a row of a name is the row of the name.      *)
LEMMA RowOfName ==
  ASSUME TypeOK, NEW row \in capacities
  PROVE  /\ GetFabricCapacity(row.name) = {row}
         /\ (CHOOSE r \in GetFabricCapacity(row.name) : TRUE) = row
  BY DEF TypeOK, GetFabricCapacity

(* An upsert leaves every row of another name as it is, and gives its own    *)
(* name a row with the contents of the request and the id of the old row.    *)
LEMMA UpsertShape ==
  ASSUME TypeOK, NEW row \in CapacityRows
  PROVE  \E new \in CapacityRows :
           /\ new.name = row.name
           /\ new.group = row.group
           /\ new.sku = row.sku
           /\ new.state = row.state
           /\ Upsert(row) = (capacities \ GetFabricCapacity(row.name)) \cup {new}
           /\ \/ GetFabricCapacity(row.name) = {} /\ new = row
              \/ \E old \in capacities : old.name = row.name /\ new.id = old.id
<1>1. CASE GetFabricCapacity(row.name) = {}
  BY <1>1 DEF Upsert
<1>2. CASE GetFabricCapacity(row.name) # {}
  <2>1. PICK old \in capacities : old.name = row.name
    BY <1>2 DEF GetFabricCapacity
  <2> DEFINE new == [row EXCEPT !.id = old.id]
  <2>2. /\ new \in CapacityRows
        /\ new.name = row.name
        /\ new.group = row.group
        /\ new.sku = row.sku
        /\ new.state = row.state
        /\ new.id = old.id
    BY DEF TypeOK, CapacityRows
  <2>3. GetFabricCapacity(row.name) = {old}
    BY <2>1, RowOfName
  <2>4. Upsert(row) = (capacities \ {old}) \cup {new}
    BY <1>2, <2>1, <2>3 DEF Upsert, GetFabricCapacity, TypeOK
  <2> QED
    BY <2>1, <2>2, <2>3, <2>4
<1> QED
  BY <1>1, <1>2

(* An arrival adds one request of an idle client: a PUT in an existing group,*)
(* a delete, or a write of the row it has just read, changed in one part.    *)
LEMMA ArriveShape ==
  ASSUME TypeOK, NEW c \in Clients, Arrive(c)
  PROVE  /\ UNCHANGED <<now, groups, capacities, busyUntil, drawnFor, history>>
         /\ Idle(c)
         /\ \E q \in Requests :
              /\ q.client = c
              /\ q.at \in {"lookup", "write", "delete"}
              /\ q.at = "lookup" => q.want.group \in groups
              /\ q.at = "write" =>
                   /\ q.kind # "put"
                   /\ \E row \in capacities :
                        /\ row.name = q.row.name
                        /\ row.id = q.row.id
                        /\ IF q.kind = "patch"
                             THEN row.state = q.row.state
                             ELSE row.sku = q.row.sku /\ row.group = q.row.group
              /\ inflight' = inflight \cup {q}
<1> DEFINE Goal ==
      /\ UNCHANGED <<now, groups, capacities, busyUntil, drawnFor, history>>
      /\ Idle(c)
      /\ \E q \in Requests :
           /\ q.client = c
           /\ q.at \in {"lookup", "write", "delete"}
           /\ q.at = "lookup" => q.want.group \in groups
           /\ q.at = "write" =>
                /\ q.kind # "put"
                /\ \E row \in capacities :
                     /\ row.name = q.row.name
                     /\ row.id = q.row.id
                     /\ IF q.kind = "patch"
                          THEN row.state = q.row.state
                          ELSE row.sku = q.row.sku /\ row.group = q.row.group
           /\ inflight' = inflight \cup {q}
<1>1. ASSUME NEW n \in Names, NEW want \in Contents, PutCapacity(c, n, want)
      PROVE  Goal
  <2> DEFINE q == [at |-> "lookup", client |-> c, name |-> n, want |-> want]
  <2>1. q \in Requests /\ q.client = c /\ q.at = "lookup" /\ q.want = want
    BY DEF Requests
  <2> QED
    BY <1>1, <2>1 DEF PutCapacity
<1>2. ASSUME NEW kind \in Kinds \ {"put"}, NEW row \in CapacityRows,
             NEW old \in capacities, Modify(c, kind, row),
             old.name = row.name, old.id = row.id,
             IF kind = "patch" THEN old.state = row.state
                               ELSE old.sku = row.sku /\ old.group = row.group
      PROVE  Goal
  <2> DEFINE q == [at |-> "write", client |-> c, kind |-> kind, row |-> row,
                   stale |-> FALSE]
  <2>1. /\ q \in Requests
        /\ q.client = c
        /\ q.at = "write"
        /\ q.kind = kind
        /\ q.row = row
    BY DEF Requests
  <2> QED
    BY <1>2, <2>1 DEF Modify
<1>3. ASSUME NEW n \in Names, NEW sku \in Skus, NEW group \in Groups,
             PatchCapacity(c, n, sku, group)
      PROVE  Goal
  <2>1. PICK old \in capacities : Modify(c, "patch", Patched(old, sku, group))
    BY <1>3 DEF PatchCapacity, GetFabricCapacity
  <2>2. old \in CapacityRows
    BY DEF TypeOK
  <2>3. /\ Patched(old, sku, group) \in CapacityRows
        /\ Patched(old, sku, group).name = old.name
        /\ Patched(old, sku, group).id = old.id
        /\ Patched(old, sku, group).state = old.state
    BY <2>2 DEF Patched, CapacityRows
  <2> QED
    BY <1>2, <2>1, <2>3 DEF Kinds
<1>4. ASSUME NEW n \in Names, SuspendCapacity(c, n) PROVE Goal
  <2>1. PICK old \in capacities : Modify(c, "suspend", [old EXCEPT !.state = "Paused"])
    BY <1>4 DEF SuspendCapacity, GetFabricCapacity
  <2> DEFINE row == [old EXCEPT !.state = "Paused"]
  <2>2. /\ row \in CapacityRows
        /\ row.name = old.name
        /\ row.id = old.id
        /\ row.sku = old.sku
        /\ row.group = old.group
    BY DEF TypeOK, CapacityRows, States
  <2> QED
    BY <1>2, <2>1, <2>2 DEF Kinds
<1>5. ASSUME NEW n \in Names, ResumeCapacity(c, n) PROVE Goal
  <2>1. PICK old \in capacities : Modify(c, "resume", [old EXCEPT !.state = "Active"])
    BY <1>5 DEF ResumeCapacity, GetFabricCapacity
  <2> DEFINE row == [old EXCEPT !.state = "Active"]
  <2>2. /\ row \in CapacityRows
        /\ row.name = old.name
        /\ row.id = old.id
        /\ row.sku = old.sku
        /\ row.group = old.group
    BY DEF TypeOK, CapacityRows, States
  <2> QED
    BY <1>2, <2>1, <2>2 DEF Kinds
<1>6. ASSUME NEW n \in Names, DeleteCapacity(c, n) PROVE Goal
  <2>1. PICK old \in capacities :
          /\ Idle(c)
          /\ inflight' = inflight \cup
               {[at |-> "delete", client |-> c, name |-> n, group |-> old.group]}
    BY <1>6 DEF DeleteCapacity, GetFabricCapacity
  <2> DEFINE q == [at |-> "delete", client |-> c, name |-> n, group |-> old.group]
  <2>2. q \in Requests /\ q.client = c /\ q.at = "delete"
    BY RowFields DEF Requests, TypeOK
  <2> QED
    BY <1>6, <2>1, <2>2 DEF DeleteCapacity
<1> QED
  BY <1>1, <1>3, <1>4, <1>5, <1>6 DEF Arrive

(* A PUT that has looked up the id of its name, or drawn a new one, becomes  *)
(* a write of the row it asks for.                                           *)
LEMMA PutLookupShape ==
  ASSUME TypeOK, NEW r \in inflight, PutLookup(r)
  PROVE  \E q \in Requests :
           /\ q.client = r.client
           /\ q.at = "write"
           /\ q.kind = "put"
           /\ q.row.name = r.name
           /\ q.row.group = r.want.group
           /\ ~q.stale
           /\ inflight' = Others(r) \cup {q}
           /\ \/ /\ \E row \in capacities : row.name = r.name /\ row.id = q.row.id
                 /\ drawnFor' = IF q.row.id > Len(drawnFor)
                                  THEN Append(drawnFor, r.name) ELSE drawnFor
              \/ /\ GetFabricCapacity(r.name) = {}
                 /\ q.row.id = Len(drawnFor) + 1
                 /\ drawnFor' = Append(drawnFor, r.name)
<1> DEFINE rows == GetFabricCapacity(r.name)
           id == IF rows = {} THEN NewGuid(r.name) ELSE (CHOOSE row \in rows : TRUE).id
           q == [at |-> "write", client |-> r.client, kind |-> "put",
                 row |-> NamedRow(r.name, r.want, id), stale |-> FALSE]
<1>1. r \in Requests /\ r.at = "lookup" /\ r.name \in Names /\ r.want \in Contents
  BY RequestFields DEF TypeOK, PutLookup
<1>2. /\ id <= MaxIds
      /\ inflight' = Others(r) \cup {q}
      /\ drawnFor' = IF id > Len(drawnFor) THEN Append(drawnFor, r.name) ELSE drawnFor
  BY DEF PutLookup
<1>3. CASE rows = {}
  <2>1. id = Len(drawnFor) + 1 /\ Len(drawnFor) \in Nat
    BY <1>3 DEF NewGuid, TypeOK
  <2>2. id \in Ids
    BY <1>2, <2>1, CapacityAssumption DEF Ids
  <2> HIDE DEF id
  <2>3. /\ q \in Requests
        /\ q.client = r.client
        /\ q.at = "write"
        /\ q.kind = "put"
        /\ ~q.stale
        /\ q.row.name = r.name
        /\ q.row.group = r.want.group
        /\ q.row.id = id
    BY <1>1, <2>2, RequestFields DEF Requests, CapacityRows, NamedRow, Kinds, Contents
  <2> HIDE DEF q
  <2> QED
    BY <1>2, <1>3, <2>1, <2>3
<1>4. CASE rows # {}
  <2>1. PICK row \in capacities : row.name = r.name
    BY <1>4 DEF GetFabricCapacity
  <2>2. id = row.id
    BY <1>4, <2>1, RowOfName
  <2>3. id \in Ids
    BY <2>2, RowFields DEF TypeOK
  <2> HIDE DEF id
  <2>4. /\ q \in Requests
        /\ q.client = r.client
        /\ q.at = "write"
        /\ q.kind = "put"
        /\ ~q.stale
        /\ q.row.name = r.name
        /\ q.row.group = r.want.group
        /\ q.row.id = id
    BY <1>1, <2>3, RequestFields DEF Requests, CapacityRows, NamedRow, Kinds, Contents
  <2> HIDE DEF q
  <2> QED
    BY <1>2, <2>1, <2>2, <2>4
<1> QED
  BY <1>3, <1>4

(* A write that has landed leaves the touched others and its own answer,     *)
(* which still has an operation to start.                                    *)
LEMMA WriteShape ==
  ASSUME TypeOK, NEW r \in inflight, Write(r)
  PROVE  /\ r \in Writes
         /\ r.row \in CapacityRows
         /\ r.kind \in Kinds
         /\ r.stale \in BOOLEAN
         /\ (r.kind # "patch" \/ r.stale) \in BOOLEAN
         /\ \E q \in Requests :
              /\ q.client = r.client
              /\ q.at = "start"
              /\ q.name = r.row.name
              /\ q.awaits = IF r.kind \in {"suspend", "resume"}
                              THEN r.row.state ELSE None
              /\ inflight' =
                   Touched(r.row.name, Others(r), r.kind # "patch" \/ r.stale)
                     \cup {q}
<1>1. /\ r \in Requests
      /\ r.at = "write"
      /\ r.row \in CapacityRows
      /\ r.kind \in Kinds
      /\ r.stale \in BOOLEAN
      /\ r.client \in Clients
  BY RequestFields DEF TypeOK, Write
<1> DEFINE q == [at |-> "start", client |-> r.client, name |-> r.row.name,
                 group |-> r.row.group,
                 awaits |-> IF r.kind \in {"suspend", "resume"}
                              THEN r.row.state ELSE None]
<1>2. q \in Requests
  BY <1>1, RowFields DEF Requests
<1> QED
  BY <1>1, <1>2 DEF Write, Writes

LEMMA DeleteShape ==
  ASSUME TypeOK, NEW r \in inflight, DeleteExec(r)
  PROVE  \E q \in Requests :
           /\ q.client = r.client
           /\ q.at = "start"
           /\ q.awaits = None
           /\ inflight' = Touched(r.name, Others(r), TRUE) \cup {q}
<1>1. r \in Requests /\ r.at = "delete" /\ r.name \in Names /\ r.group \in Groups
  BY RequestFields DEF TypeOK, DeleteExec
<1> DEFINE q == [at |-> "start", client |-> r.client, name |-> r.name,
                 group |-> r.group, awaits |-> None]
<1>2. q \in Requests
  BY <1>1, RequestFields DEF Requests
<1> QED
  BY <1>2 DEF DeleteExec

(* The operation of a write is there for its client to poll, or the request  *)
(* is over.                                                                  *)
LEMMA StartShape ==
  ASSUME TypeOK, NEW r \in inflight, StartOperation(r)
  PROVE  /\ r.name \in Names
         /\ r.group \in Groups
         /\ \/ inflight' = Others(r)
            \/ \E q \in Requests :
                 /\ q.client = r.client
                 /\ q.at = "poll"
                 /\ q.name = r.name
                 /\ q.awaits = r.awaits
                 /\ inflight' = Others(r) \cup {q}
<1>1. /\ r \in Requests
      /\ r.at = "start"
      /\ r.client \in Clients
      /\ r.name \in Names
      /\ r.group \in Groups
      /\ r.awaits \in States \cup {None}
  BY RequestFields DEF TypeOK, StartOperation
<1>2. CASE r.awaits = None
  BY <1>1, <1>2 DEF StartOperation
<1>3. CASE r.awaits # None
  <2> DEFINE q == [at |-> "poll", client |-> r.client, name |-> r.name,
                   until |-> now + LRODelay, awaits |-> r.awaits]
  <2>1. now + LRODelay \in Nat
    BY CapacityAssumption DEF TypeOK
  <2>2. q \in Requests
    BY <1>1, <2>1 DEF Requests
  <2>3. inflight' = Others(r) \cup {q}
    BY <1>3 DEF StartOperation
  <2> QED
    BY <1>1, <2>2, <2>3
<1> QED
  BY <1>2, <1>3

(* One request per client, over a step that replaces a request by another of *)
(* its client and touches the rest.                                          *)
LEMMA OnePerClient ==
  ASSUME TypeOK, NEW r \in inflight, NEW q, q.client = r.client,
         NEW n, NEW restates \in BOOLEAN
  PROVE  LET rs == Touched(n, Others(r), restates) \cup {q}
         IN  \A a, b \in rs : a.client = b.client => a = b
<1>1. Others(r) \in SUBSET Requests
  BY DEF TypeOK, Others
<1>2. \A a, b \in Others(r) : a.client = b.client => a = b
  BY DEF TypeOK, Others
<1>3. \A m \in Touched(n, Others(r), restates) : m.client # r.client
  <2> SUFFICES ASSUME NEW m \in Touched(n, Others(r), restates)
               PROVE  m.client # r.client
    OBVIOUS
  <2>1. PICK p \in Others(r) : m = TouchedOne(n, p, restates)
    BY <1>1, TouchedShape
  <2>2. m.client = p.client
    BY <1>1, <2>1, TouchedOneKeeps
  <2> QED
    BY <2>1, <2>2 DEF TypeOK, Others
<1> QED
  BY <1>1, <1>2, <1>3, TouchedShape

LEMMA NextIdentity == TableInv /\ [Next]_vars => TypeOK' /\ DrawnForItsName'
<1> SUFFICES ASSUME TableInv, [Next]_vars PROVE TypeOK' /\ DrawnForItsName'
  OBVIOUS
<1>0. TypeOK /\ DrawnForItsName
  BY DEF TableInv
<1>1. ASSUME NEW c \in Clients, Arrive(c) PROVE TypeOK' /\ DrawnForItsName'
  <2>1. PICK q \in Requests :
          /\ q.client = c
          /\ q.at = "write" =>
               \E row \in capacities : row.name = q.row.name /\ row.id = q.row.id
          /\ inflight' = inflight \cup {q}
    BY <1>0, <1>1, ArriveShape
  <2>2. /\ UNCHANGED <<now, groups, capacities, busyUntil, drawnFor, history>>
        /\ Idle(c)
    BY <1>0, <1>1, ArriveShape
  <2>3. TypeOK'
    BY <1>0, <2>1, <2>2 DEF TypeOK, Idle, history
  <2>4. DrawnForItsName'
    BY <1>0, <2>1, <2>2 DEF DrawnForItsName, Writes, history
  <2> QED
    BY <2>3, <2>4
<1>2. ASSUME NEW r \in inflight, PutLookup(r) PROVE TypeOK' /\ DrawnForItsName'
  <2>1. PICK q \in Requests :
          /\ q.client = r.client
          /\ q.at = "write"
          /\ q.row.name = r.name
          /\ inflight' = Others(r) \cup {q}
          /\ \/ /\ \E row \in capacities : row.name = r.name /\ row.id = q.row.id
                /\ drawnFor' = IF q.row.id > Len(drawnFor)
                                 THEN Append(drawnFor, r.name) ELSE drawnFor
             \/ /\ q.row.id = Len(drawnFor) + 1
                /\ drawnFor' = Append(drawnFor, r.name)
    BY <1>0, <1>2, PutLookupShape
  <2>2. UNCHANGED <<now, groups, capacities, busyUntil, history>>
    BY <1>2 DEF PutLookup
  <2>3. r.name \in Names /\ q.row.id \in Ids
    BY <1>0, <1>2, <2>1, RequestFields, RowFields DEF TypeOK, PutLookup
  <2>4. Len(drawnFor) \in Nat /\ drawnFor \in Seq(Names)
    BY <1>0 DEF TypeOK
  <2>5. /\ drawnFor' \in Seq(Names)
        /\ Len(drawnFor) <= Len(drawnFor')
        /\ \A i \in 1 .. Len(drawnFor) : drawnFor'[i] = drawnFor[i]
        /\ q.row.id \in 1 .. Len(drawnFor') /\ drawnFor'[q.row.id] = q.row.name
        /\ Len(drawnFor') <= MaxIds
    <3>1. CASE /\ \E row \in capacities : row.name = r.name /\ row.id = q.row.id
               /\ drawnFor' = IF q.row.id > Len(drawnFor)
                                THEN Append(drawnFor, r.name) ELSE drawnFor
      <4>1. q.row.id \in 1 .. Len(drawnFor) /\ drawnFor[q.row.id] = r.name
        BY <1>0, <3>1 DEF DrawnForItsName
      <4>2. drawnFor' = drawnFor
        BY <2>4, <3>1, <4>1
      <4> QED
        BY <1>0, <2>1, <2>4, <4>1, <4>2 DEF TypeOK
    <3>2. CASE /\ q.row.id = Len(drawnFor) + 1
               /\ drawnFor' = Append(drawnFor, r.name)
      BY <2>1, <2>3, <2>4, <3>2, CapacityAssumption DEF Ids
    <3> QED
      BY <2>1, <3>1, <3>2
  <2>6. \A a, b \in inflight' : a.client = b.client => a = b
    BY <1>0, <2>1 DEF TypeOK, Others
  <2>7. TypeOK'
    BY <1>0, <2>1, <2>2, <2>5, <2>6 DEF TypeOK, Others, history
  <2>8. DrawnForItsName'
    BY <1>0, <2>1, <2>2, <2>4, <2>5 DEF DrawnForItsName, Writes, Others, history
  <2> QED
    BY <2>7, <2>8
<1>3. ASSUME NEW r \in inflight, Write(r) PROVE TypeOK' /\ DrawnForItsName'
  <2> DEFINE restates == r.kind # "patch" \/ r.stale
             touched == Touched(r.row.name, Others(r), restates)
  <2>1. /\ r \in Writes
        /\ r.row \in CapacityRows
        /\ r.kind \in Kinds
        /\ restates \in BOOLEAN
    BY <1>0, <1>3, WriteShape
  <2>2. PICK q \in Requests :
          /\ q.client = r.client
          /\ q.at = "start"
          /\ inflight' = touched \cup {q}
    BY <1>0, <1>3, WriteShape
  <2>3. PICK new \in CapacityRows :
          /\ new.name = r.row.name
          /\ Upsert(r.row) = (capacities \ GetFabricCapacity(r.row.name)) \cup {new}
          /\ \/ GetFabricCapacity(r.row.name) = {} /\ new = r.row
             \/ \E old \in capacities : old.name = r.row.name /\ new.id = old.id
    BY <1>0, <2>1, UpsertShape
  <2>4. capacities' = (capacities \ GetFabricCapacity(r.row.name)) \cup {new}
    BY <1>3, <2>3 DEF Write
  <2>5. new.id \in 1 .. Len(drawnFor) /\ drawnFor[new.id] = new.name
    BY <1>0, <2>1, <2>3 DEF DrawnForItsName
  <2>6. Others(r) \in SUBSET Requests
    BY <1>0 DEF TypeOK, Others
  <2> HIDE DEF restates
  <2>7. touched \subseteq Requests
    BY <2>1, <2>6, TouchedShape
  <2>8. \A a, b \in inflight' : a.client = b.client => a = b
    BY <1>0, <2>1, <2>2, OnePerClient
  <2>9. \A a, b \in capacities' : (a.name = b.name \/ a.id = b.id) => a = b
    <3>1. \A a \in capacities \ GetFabricCapacity(r.row.name) :
            a.name # new.name /\ a.id # new.id
      BY <1>0, <2>3, <2>5 DEF GetFabricCapacity, DrawnForItsName
    <3> QED
      BY <1>0, <2>4, <3>1 DEF TypeOK
  <2>10. promised' \in [Names -> Contents \cup {None}]
    <3>1. r.row.name \in Names /\ ContentsOf(r.row) \in Contents
      BY <2>1, RowFields DEF ContentsOf, Contents
    <3>2. r.row.sku \in Skus /\ r.row.group \in Groups /\ r.row.state \in States
      BY <2>1, RowFields
    <3>3. ~r.stale /\ r.kind # "put" => promised[r.row.name] \in Contents
      <4> SUFFICES ASSUME ~r.stale, r.kind # "put"
                   PROVE  promised[r.row.name] \in Contents
        OBVIOUS
      <4>1. PICK row \in capacities : row.name = r.row.name
        BY <2>1 DEF TableInv, FreshWrites
      <4>2. promised[r.row.name] = ContentsOf(row)
        BY <1>0, <3>1, <4>1, RowOfName DEF TableInv, WritesKeepTheRest
      <4> QED
        BY <1>0, <4>2, RowFields DEF TypeOK, ContentsOf, Contents
    <3>4. \A p \in Contents :
            /\ [p EXCEPT !.sku = r.row.sku, !.group = r.row.group] \in Contents
            /\ [p EXCEPT !.state = r.row.state] \in Contents
      BY <3>2 DEF Contents
    <3>5. promised \in [Names -> Contents \cup {None}]
      BY <1>0 DEF TypeOK
    <3>6. CASE r.kind = "put" \/ r.stale
      <4>1. promised' = [promised EXCEPT ![r.row.name] = ContentsOf(r.row)]
        BY <1>3, <3>6 DEF Write
      <4> QED
        BY <3>1, <3>5, <4>1
    <3>7. CASE r.kind = "patch" /\ ~r.stale
      <4> DEFINE written == [promised[r.row.name] EXCEPT !.sku = r.row.sku,
                                                         !.group = r.row.group]
      <4>1. promised' = [promised EXCEPT ![r.row.name] = written]
        BY <1>3, <3>7 DEF Write
      <4>2. written \in Contents
        BY <3>3, <3>4, <3>7
      <4> HIDE DEF written
      <4> QED
        BY <3>1, <3>5, <4>1, <4>2
    <3>8. CASE r.kind \in {"suspend", "resume"} /\ ~r.stale
      <4> DEFINE written == [promised[r.row.name] EXCEPT !.state = r.row.state]
      <4>1. promised' = [promised EXCEPT ![r.row.name] = written]
        BY <1>3, <3>8 DEF Write
      <4>2. written \in Contents
        BY <3>3, <3>4, <3>8
      <4> HIDE DEF written
      <4> QED
        BY <3>1, <3>5, <4>1, <4>2
    <3> QED
      BY <2>1, <3>6, <3>7, <3>8 DEF Kinds
  <2>11. TypeOK'
    BY <1>0, <1>3, <2>1, <2>2, <2>4, <2>7, <2>8, <2>9, <2>10, RowFields
       DEF TypeOK, Write
  <2>12. \A w \in Writes' : \E p \in Writes : w.row = p.row
    <3> SUFFICES ASSUME NEW w \in touched, w.at = "write"
                 PROVE  \E p \in Writes : w.row = p.row
      BY <2>2 DEF Writes
    <3>1. PICK p \in Others(r) : w = TouchedOne(r.row.name, p, restates)
      BY <2>1, <2>6, TouchedShape
    <3>2. p \in Writes /\ w.row = p.row
      BY <2>1, <2>6, <3>1, TouchedOneKeeps DEF Writes, Others
    <3> QED
      BY <3>2
  <2>13. DrawnForItsName'
    BY <1>0, <1>3, <2>4, <2>5, <2>12 DEF DrawnForItsName, Write
  <2> QED
    BY <2>11, <2>13
<1>4. ASSUME NEW r \in inflight, DeleteExec(r) PROVE TypeOK' /\ DrawnForItsName'
  <2> DEFINE anew == TRUE
             touched == Touched(r.name, Others(r), anew)
  <2>1. PICK q \in Requests :
          /\ q.client = r.client
          /\ q.at = "start"
          /\ inflight' = touched \cup {q}
    BY <1>0, <1>4, DeleteShape
  <2>2. Others(r) \in SUBSET Requests /\ anew \in BOOLEAN
    BY <1>0 DEF TypeOK, Others
  <2> HIDE DEF anew
  <2>3. touched \subseteq Requests
    BY <2>2, TouchedShape
  <2>4. \A a, b \in inflight' : a.client = b.client => a = b
    BY <1>0, <2>1, <2>2, OnePerClient
  <2>5. \A row \in GetFabricCapacity(r.name) : row \in capacities /\ row.id \in Ids
    BY <1>0, RowFields DEF GetFabricCapacity, TypeOK
  <2>6. /\ capacities' \subseteq capacities
        /\ retired' = retired \cup {row.id : row \in GetFabricCapacity(r.name)}
        /\ contested' \subseteq contested \cup {row.id : row \in GetFabricCapacity(r.name)}
        /\ UNCHANGED <<now, groups, busyUntil, drawnFor, named>>
        /\ promised' = [promised EXCEPT ![r.name] = None]
    BY <1>4 DEF DeleteExec
  <2>7. TypeOK'
    <3>1. r.name \in Names
      BY <1>0, <1>4, RequestFields DEF TypeOK, DeleteExec
    <3>2. retired' \subseteq Ids /\ contested' \subseteq Ids
      BY <1>0, <2>5, <2>6 DEF TypeOK
    <3>3. promised' \in [Names -> Contents \cup {None}]
      BY <1>0, <2>6, <3>1 DEF TypeOK
    <3> QED
      BY <1>0, <2>1, <2>3, <2>4, <2>6, <3>2, <3>3 DEF TypeOK
  <2>8. \A w \in Writes' : \E p \in Writes : w.row = p.row
    <3> SUFFICES ASSUME NEW w \in touched, w.at = "write"
                 PROVE  \E p \in Writes : w.row = p.row
      BY <2>1 DEF Writes
    <3>1. PICK p \in Others(r) : w = TouchedOne(r.name, p, anew)
      BY <2>2, TouchedShape
    <3>2. p \in Writes /\ w.row = p.row
      BY <2>2, <3>1, TouchedOneKeeps DEF Writes, Others
    <3> QED
      BY <3>2
  <2>9. DrawnForItsName'
    BY <1>0, <2>5, <2>6, <2>8 DEF DrawnForItsName
  <2> QED
    BY <2>7, <2>9
<1>5. ASSUME NEW r \in inflight, DeleteGone(r) \/ ReGet(r)
      PROVE  TypeOK' /\ DrawnForItsName'
  <2>1. /\ inflight' \subseteq inflight
        /\ UNCHANGED <<now, groups, capacities, busyUntil, drawnFor, history>>
    BY <1>5 DEF DeleteGone, ReGet, Others
  <2> QED
    BY <1>0, <2>1 DEF TypeOK, DrawnForItsName, Writes, history
<1>6. ASSUME NEW r \in inflight, StartOperation(r) PROVE TypeOK' /\ DrawnForItsName'
  <2>1. /\ r.name \in Names /\ r.group \in Groups
        /\ \/ inflight' = Others(r)
           \/ \E q \in Requests :
                /\ q.client = r.client
                /\ q.at = "poll"
                /\ inflight' = Others(r) \cup {q}
    BY <1>0, <1>6, StartShape
  <2>2. \A w \in inflight' : w.at = "write" => w \in inflight
    BY <2>1 DEF Others
  <2>3. now + LRODelay \in 0 .. MaxNow + LRODelay
    BY <1>0, CapacityAssumption DEF TypeOK
  <2>4. busyUntil' \in [Names \X Groups -> 0 .. MaxNow + LRODelay]
    <3>1. <<r.name, r.group>> \in Names \X Groups
      BY <2>1
    <3>2. busyUntil' = [busyUntil EXCEPT ![<<r.name, r.group>>] = now + LRODelay]
      BY <1>6 DEF StartOperation
    <3>3. busyUntil \in [Names \X Groups -> 0 .. MaxNow + LRODelay]
      BY <1>0 DEF TypeOK
    <3> QED
      BY <2>3, <3>1, <3>2, <3>3
  <2>5. /\ inflight' \subseteq Requests
        /\ \A a, b \in inflight' : a.client = b.client => a = b
    BY <1>0, <2>1 DEF TypeOK, Others
  <2>6. UNCHANGED <<now, groups, capacities, drawnFor, history>>
    BY <1>6 DEF StartOperation
  <2>7. TypeOK'
    BY <1>0, <2>4, <2>5, <2>6 DEF TypeOK, history
  <2>8. DrawnForItsName'
    BY <1>0, <2>2, <2>6 DEF DrawnForItsName, Writes, history
  <2> QED
    BY <2>7, <2>8
<1>7. ASSUME NEW g \in Groups, PutGroup(g) \/ DeleteGroup(g)
      PROVE  TypeOK' /\ DrawnForItsName'
  BY <1>0, <1>7 DEF TypeOK, DrawnForItsName, Writes, PutGroup, DeleteGroup, history
<1>8. CASE ClockMoves
  BY <1>0, <1>8, CapacityAssumption
     DEF TypeOK, DrawnForItsName, Writes, ClockMoves, history
<1>9. CASE Restart
  BY <1>0, <1>9 DEF TypeOK, DrawnForItsName, Writes, Restart, history
<1>10. CASE UNCHANGED vars
  BY <1>0, <1>10 DEF TypeOK, DrawnForItsName, Writes, vars
<1> QED
  BY <1>1, <1>2, <1>3, <1>4, <1>5, <1>6, <1>7, <1>8, <1>9, <1>10 DEF Next, Proceed


(* A write that is still fresh after a touch was fresh before it, and was of *)
(* another name.                                                             *)
LEMMA FreshAfterTouch ==
  ASSUME TypeOK, NEW r \in inflight, NEW n, NEW restates \in BOOLEAN,
         NEW w \in Touched(n, Others(r), restates), w.at = "write"
  PROVE  \E p \in Writes :
           /\ w.row = p.row
           /\ w.kind = p.kind
           /\ w.stale = (p.stale \/ p.row.name = n)
<1>1. Others(r) \in SUBSET Requests
  BY DEF TypeOK, Others
<1>2. PICK p \in Others(r) : w = TouchedOne(n, p, restates)
  BY <1>1, TouchedShape
<1>3. /\ p.at = "write"
      /\ w.row = p.row
      /\ w.kind = p.kind
      /\ w.stale = (p.stale \/ p.row.name = n)
  BY <1>1, <1>2, TouchedOneKeeps
<1> QED
  BY <1>2, <1>3 DEF Writes, Others

(* Over a step that neither writes the table nor starts a write, what is     *)
(* promised and what is fresh stay so.                                       *)
LEMMA QuietTable ==
  ASSUME TableInv, UNCHANGED <<capacities, promised>>,
         \A w \in Writes' : w \in Writes
  PROVE  FreshWrites' /\ WritesKeepTheRest'
  BY DEF TableInv, FreshWrites, WritesKeepTheRest, GetFabricCapacity

LEMMA PatchedContents ==
  ASSUME NEW p \in Contents, NEW sku \in Skus, NEW group \in Groups
  PROVE  [p EXCEPT !.sku = sku, !.group = group]
           = [group |-> group, sku |-> sku, state |-> p.state]
<1> DEFINE e == [p EXCEPT !.sku = sku, !.group = group]
<1>1. e \in Contents
  BY DEF Contents
<1>2. e.sku = sku /\ e.group = group /\ e.state = p.state
  BY DEF Contents
<1> HIDE DEF e
<1>3. e = [group |-> e.group, sku |-> e.sku, state |-> e.state]
  BY <1>1 DEF Contents
<1>4. e = [group |-> group, sku |-> sku, state |-> p.state]
  BY <1>2, <1>3
<1> QED
  BY <1>4 DEF e

LEMMA NextFreshWrites ==
  TableInv /\ [Next]_vars => FreshWrites' /\ WritesKeepTheRest'
<1> SUFFICES ASSUME TableInv, [Next]_vars
             PROVE  FreshWrites' /\ WritesKeepTheRest'
  OBVIOUS
<1>0. TypeOK /\ FreshWrites /\ WritesKeepTheRest
  BY DEF TableInv
<1>1. ASSUME NEW q \in Requests, q.at = "write",
             UNCHANGED <<capacities, promised>>,
             \A w \in inflight' : w \in inflight \/ w = q,
             q.kind # "put" =>
               \E row \in capacities :
                 /\ row.name = q.row.name
                 /\ IF q.kind = "patch"
                      THEN row.state = q.row.state
                      ELSE row.sku = q.row.sku /\ row.group = q.row.group
      PROVE  FreshWrites' /\ WritesKeepTheRest'
  BY <1>0, <1>1 DEF FreshWrites, WritesKeepTheRest, GetFabricCapacity, Writes
<1>2. ASSUME NEW c \in Clients, Arrive(c)
      PROVE  FreshWrites' /\ WritesKeepTheRest'
  <2>1. UNCHANGED <<capacities, promised>>
    BY <1>0, <1>2, ArriveShape DEF history
  <2>2. PICK q \in Requests :
          /\ q.at = "write" =>
               /\ q.kind # "put"
               /\ \E row \in capacities :
                    /\ row.name = q.row.name
                    /\ IF q.kind = "patch"
                         THEN row.state = q.row.state
                         ELSE row.sku = q.row.sku /\ row.group = q.row.group
          /\ inflight' = inflight \cup {q}
    BY <1>0, <1>2, ArriveShape
  <2>3. CASE q.at = "write"
    BY <1>1, <2>1, <2>2, <2>3
  <2>4. CASE q.at # "write"
    BY <2>1, <2>2, <2>4, QuietTable DEF Writes
  <2> QED
    BY <2>3, <2>4
<1>3. ASSUME NEW r \in inflight, PutLookup(r)
      PROVE  FreshWrites' /\ WritesKeepTheRest'
  <2>1. UNCHANGED <<capacities, promised>>
    BY <1>3 DEF PutLookup, history
  <2>2. PICK q \in Requests :
          q.at = "write" /\ q.kind = "put" /\ inflight' = Others(r) \cup {q}
    BY <1>0, <1>3, PutLookupShape
  <2> QED
    BY <1>1, <2>1, <2>2 DEF Others
<1>4. ASSUME NEW r \in inflight, Write(r)
      PROVE  FreshWrites' /\ WritesKeepTheRest'
  <2> DEFINE n == r.row.name
             restates == r.kind # "patch" \/ r.stale
             touched == Touched(n, Others(r), restates)
  <2>1. /\ r \in Writes
        /\ r.row \in CapacityRows
        /\ r.kind \in Kinds
        /\ r.stale \in BOOLEAN
        /\ restates \in BOOLEAN
        /\ n \in Names
    BY <1>0, <1>4, WriteShape, RowFields
  <2>2. PICK q \in Requests : q.at = "start" /\ inflight' = touched \cup {q}
    BY <1>0, <1>4, WriteShape
  <2>3. PICK new \in CapacityRows :
          /\ new.name = n
          /\ new.group = r.row.group
          /\ new.sku = r.row.sku
          /\ new.state = r.row.state
          /\ Upsert(r.row) = (capacities \ GetFabricCapacity(n)) \cup {new}
    BY <1>0, <2>1, UpsertShape
  <2>4. capacities' = (capacities \ GetFabricCapacity(n)) \cup {new}
    BY <1>4, <2>3 DEF Write
  <2> HIDE DEF restates
  <2>5. FreshWrites'
    <3> SUFFICES ASSUME NEW w \in Writes', ~w.stale, w.kind # "put"
                 PROVE  \E row \in capacities' :
                          /\ row.name = w.row.name
                          /\ IF w.kind = "patch"
                               THEN row.state = w.row.state
                               ELSE row.sku = w.row.sku /\ row.group = w.row.group
      BY DEF FreshWrites
    <3>1. PICK p \in Writes :
            w.row = p.row /\ w.kind = p.kind /\ w.stale = (p.stale \/ p.row.name = n)
      BY <1>0, <2>1, <2>2, FreshAfterTouch DEF Writes
    <3>2. PICK row \in capacities :
            /\ row.name = w.row.name
            /\ IF w.kind = "patch"
                 THEN row.state = w.row.state
                 ELSE row.sku = w.row.sku /\ row.group = w.row.group
      BY <1>0, <3>1 DEF FreshWrites
    <3>3. row \in capacities'
      BY <2>4, <3>1, <3>2 DEF GetFabricCapacity
    <3> QED
      BY <3>2, <3>3
  <2>6. promised'[n] = ContentsOf(new)
    <3>1. promised \in [Names -> Contents \cup {None}]
      BY <1>0 DEF TypeOK
    <3>2. ContentsOf(new) = ContentsOf(r.row)
      BY <2>3 DEF ContentsOf
    <3>3. CASE r.kind = "put" \/ r.stale
      BY <1>4, <2>1, <3>1, <3>2, <3>3 DEF Write
    <3>4. CASE r.kind # "put" /\ ~r.stale
      <4>1. PICK row \in capacities :
              /\ row.name = n
              /\ IF r.kind = "patch"
                   THEN row.state = r.row.state
                   ELSE row.sku = r.row.sku /\ row.group = r.row.group
        BY <1>0, <2>1, <3>4 DEF FreshWrites
      <4>2. promised[n] = ContentsOf(row)
        BY <1>0, <2>1, <4>1, RowOfName DEF WritesKeepTheRest
      <4>3. CASE r.kind = "patch"
        <5>1. promised'[n] = [promised[n] EXCEPT !.sku = r.row.sku,
                                                 !.group = r.row.group]
          BY <1>4, <2>1, <3>1, <3>4, <4>3 DEF Write
        <5>2. row.state = new.state /\ ContentsOf(row) \in Contents
          BY <1>0, <2>3, <4>1, <4>3, RowFields DEF TypeOK, ContentsOf, Contents
        <5>3. ContentsOf(row).state = row.state
          BY DEF ContentsOf
        <5> QED
          BY <2>1, <2>3, <4>2, <5>1, <5>2, <5>3, PatchedContents, RowFields
             DEF ContentsOf
      <4>4. CASE r.kind # "patch"
        <5>1. promised'[n] = [promised[n] EXCEPT !.state = r.row.state]
          BY <1>4, <2>1, <3>1, <3>4, <4>4 DEF Write
        <5>2. row.sku = new.sku /\ row.group = new.group
          BY <2>3, <4>1, <4>4
        <5>3. ContentsOf(new) = [ContentsOf(row) EXCEPT !.state = r.row.state]
          BY <2>3, <5>2 DEF ContentsOf
        <5> QED
          BY <4>2, <5>1, <5>3
      <4> QED
        BY <4>3, <4>4
    <3> QED
      BY <2>1, <3>3, <3>4
  <2>7. ASSUME NEW m \in Names, m # n PROVE promised'[m] = promised[m]
    BY <1>0, <1>4, <2>7 DEF Write, TypeOK
  <2>8. WritesKeepTheRest'
    <3> SUFFICES ASSUME NEW m \in Names
                 PROVE  promised'[m] =
                          IF GetFabricCapacity(m)' = {} THEN None
                          ELSE ContentsOf(CHOOSE row \in GetFabricCapacity(m)' : TRUE)
      BY DEF WritesKeepTheRest, ContentsOf
    <3>1. CASE m = n
      <4>1. GetFabricCapacity(m)' = {new}
        BY <2>3, <2>4, <3>1 DEF GetFabricCapacity
      <4> QED
        BY <2>6, <3>1, <4>1
    <3>2. CASE m # n
      <4>1. GetFabricCapacity(m)' = GetFabricCapacity(m)
        BY <2>3, <2>4, <3>2 DEF GetFabricCapacity
      <4> QED
        BY <1>0, <2>7, <3>2, <4>1 DEF WritesKeepTheRest
    <3> QED
      BY <3>1, <3>2
  <2> QED
    BY <2>5, <2>8
<1>5. ASSUME NEW r \in inflight, DeleteExec(r)
      PROVE  FreshWrites' /\ WritesKeepTheRest'
  <2> DEFINE anew == TRUE
             touched == Touched(r.name, Others(r), anew)
  <2>1. PICK q \in Requests : q.at = "start" /\ inflight' = touched \cup {q}
    BY <1>0, <1>5, DeleteShape
  <2>2. anew \in BOOLEAN /\ r.name \in Names
    BY <1>0, <1>5, RequestFields DEF TypeOK, DeleteExec
  <2> HIDE DEF anew
  <2>3. capacities' = capacities \ GetFabricCapacity(r.name)
    BY <1>5 DEF DeleteExec
  <2>4. FreshWrites'
    <3> SUFFICES ASSUME NEW w \in Writes', ~w.stale, w.kind # "put"
                 PROVE  \E row \in capacities' :
                          /\ row.name = w.row.name
                          /\ IF w.kind = "patch"
                               THEN row.state = w.row.state
                               ELSE row.sku = w.row.sku /\ row.group = w.row.group
      BY DEF FreshWrites
    <3>1. PICK p \in Writes :
            /\ w.row = p.row
            /\ w.kind = p.kind
            /\ w.stale = (p.stale \/ p.row.name = r.name)
      BY <1>0, <2>1, <2>2, FreshAfterTouch DEF Writes
    <3>2. PICK row \in capacities :
            /\ row.name = w.row.name
            /\ IF w.kind = "patch"
                 THEN row.state = w.row.state
                 ELSE row.sku = w.row.sku /\ row.group = w.row.group
      BY <1>0, <3>1 DEF FreshWrites
    <3>3. row \in capacities'
      BY <2>3, <3>1, <3>2 DEF GetFabricCapacity
    <3> QED
      BY <3>2, <3>3
  <2>5. WritesKeepTheRest'
    <3> SUFFICES ASSUME NEW m \in Names
                 PROVE  promised'[m] =
                          IF GetFabricCapacity(m)' = {} THEN None
                          ELSE ContentsOf(CHOOSE row \in GetFabricCapacity(m)' : TRUE)
      BY DEF WritesKeepTheRest, ContentsOf
    <3>1. promised' = [promised EXCEPT ![r.name] = None] /\ DOMAIN promised = Names
      BY <1>0, <1>5 DEF DeleteExec, TypeOK
    <3>2. CASE m = r.name
      <4>1. GetFabricCapacity(m)' = {}
        BY <2>3, <3>2 DEF GetFabricCapacity
      <4> QED
        BY <3>1, <3>2, <4>1
    <3>3. CASE m # r.name
      <4>1. GetFabricCapacity(m)' = GetFabricCapacity(m)
        BY <2>3, <3>3 DEF GetFabricCapacity
      <4> QED
        BY <1>0, <3>1, <3>3, <4>1 DEF WritesKeepTheRest
    <3> QED
      BY <3>2, <3>3
  <2> QED
    BY <2>4, <2>5
<1>6. ASSUME NEW r \in inflight, DeleteGone(r) \/ ReGet(r)
      PROVE  FreshWrites' /\ WritesKeepTheRest'
  BY <1>6, QuietTable DEF DeleteGone, ReGet, Others, Writes, history
<1>7. ASSUME NEW r \in inflight, StartOperation(r)
      PROVE  FreshWrites' /\ WritesKeepTheRest'
  <2>1. \A w \in inflight' : w.at = "write" => w \in inflight
    BY <1>0, <1>7, StartShape DEF Others
  <2> QED
    BY <1>7, <2>1, QuietTable DEF StartOperation, Writes, history
<1>8. ASSUME NEW g \in Groups, PutGroup(g) \/ DeleteGroup(g)
      PROVE  FreshWrites' /\ WritesKeepTheRest'
  BY <1>8, QuietTable DEF PutGroup, DeleteGroup, Writes, history
<1>9. CASE ClockMoves
  BY <1>9, QuietTable DEF ClockMoves, Writes, history
<1>10. CASE Restart
  BY <1>10, QuietTable DEF Restart, Writes, history
<1>11. CASE UNCHANGED vars
  BY <1>11, QuietTable DEF vars, Writes
<1> QED
  BY <1>2, <1>3, <1>4, <1>5, <1>6, <1>7, <1>8, <1>9, <1>10, <1>11 DEF Next, Proceed

LEMMA InitTableInv == Init => TableInv
<1> SUFFICES ASSUME Init PROVE TableInv
  OBVIOUS
<1>1. busyUntil \in [Names \X Groups -> 0 .. MaxNow + LRODelay]
  BY CapacityAssumption DEF Init
<1>2. Len(drawnFor) = 0 /\ drawnFor \in Seq(Names)
  BY DEF Init
<1> QED
  BY <1>1, <1>2, CapacityAssumption
     DEF Init, TableInv, TypeOK, DrawnForItsName, FreshWrites, WritesKeepTheRest,
         Writes, GetFabricCapacity

LEMMA NextTableInv == TableInv /\ [Next]_vars => TableInv'
  BY NextIdentity, NextFreshWrites DEF TableInv

(* Every reachable state is well typed: a name has one row, a fabric id is   *)
(* in one row, and no client has two requests, whoever upserts what.         *)
THEOREM TypeCorrect == Spec => []TypeOK
  BY InitTableInv, NextTableInv, PTL DEF Spec, TableInv

(* Writers of different parts do not undo one another: every name holds what *)
(* the writes of it, taken one by one, say, as long as each takes effect on  *)
(* what its request has read, or else says so by writing the whole row.      *)
THEOREM WritesDoKeepTheRest == Spec => []WritesKeepTheRest
  BY InitTableInv, NextTableInv, PTL DEF Spec, TableInv

-------------------------------------------------------------------------------
(* Where the write of a request comes from: it waited before, or it writes   *)
(* back a row just read, or it is a PUT that has looked up its id.           *)
LEMMA WritesFrom ==
  ASSUME TableInv, [Next]_vars, NEW w \in Writes'
  PROVE  \/ \E p \in Writes : w.row = p.row /\ w.kind = p.kind
         \/ \E row \in capacities :
              /\ row.id = w.row.id
              /\ w.kind # "put"
              /\ w.kind # "patch" => row.group = w.row.group
              /\ UNCHANGED <<capacities, retired>>
         \/ /\ w.kind = "put"
            /\ \E r \in inflight : r.at = "lookup" /\ w.row.group = r.want.group
            /\ \/ w.row.id = Len(drawnFor) + 1
               \/ \E row \in capacities : row.id = w.row.id
            /\ UNCHANGED <<capacities, retired>>
<1> DEFINE Goal ==
      \/ \E p \in Writes : w.row = p.row /\ w.kind = p.kind
      \/ \E row \in capacities :
           /\ row.id = w.row.id
           /\ w.kind # "put"
           /\ w.kind # "patch" => row.group = w.row.group
           /\ UNCHANGED <<capacities, retired>>
      \/ /\ w.kind = "put"
         /\ \E r \in inflight : r.at = "lookup" /\ w.row.group = r.want.group
         /\ \/ w.row.id = Len(drawnFor) + 1
            \/ \E row \in capacities : row.id = w.row.id
         /\ UNCHANGED <<capacities, retired>>
<1>0. TypeOK /\ w \in inflight' /\ w.at = "write"
  BY DEF TableInv, Writes
<1>1. CASE w \in inflight
  BY <1>0, <1>1 DEF Writes
<1>2. ASSUME NEW c \in Clients, Arrive(c) PROVE Goal
  <2>1. PICK q \in Requests :
          /\ q.at = "write" =>
               /\ q.kind # "put"
               /\ \E row \in capacities :
                    /\ row.id = q.row.id
                    /\ IF q.kind = "patch"
                         THEN row.state = q.row.state
                         ELSE row.sku = q.row.sku /\ row.group = q.row.group
          /\ inflight' = inflight \cup {q}
    BY <1>0, <1>2, ArriveShape
  <2>2. UNCHANGED <<capacities, retired>>
    BY <1>0, <1>2, ArriveShape DEF history
  <2> QED
    BY <1>0, <1>1, <2>1, <2>2
<1>3. ASSUME NEW r \in inflight, PutLookup(r) PROVE Goal
  <2>1. PICK q \in Requests :
          /\ q.kind = "put"
          /\ q.row.group = r.want.group
          /\ inflight' = Others(r) \cup {q}
          /\ \/ \E row \in capacities : row.id = q.row.id
             \/ q.row.id = Len(drawnFor) + 1
    BY <1>0, <1>3, PutLookupShape
  <2>2. UNCHANGED <<capacities, retired>> /\ r.at = "lookup"
    BY <1>3 DEF PutLookup, history
  <2> QED
    BY <1>0, <1>1, <2>1, <2>2 DEF Others
<1>4. ASSUME NEW r \in inflight, Write(r) PROVE Goal
  <2> DEFINE restates == r.kind # "patch" \/ r.stale
  <2>1. PICK q \in Requests :
          q.at = "start" /\ inflight' = Touched(r.row.name, Others(r), restates) \cup {q}
    BY <1>0, <1>4, WriteShape
  <2>2. restates \in BOOLEAN
    BY <1>0, <1>4, WriteShape
  <2> HIDE DEF restates
  <2> QED
    BY <1>0, <2>1, <2>2, FreshAfterTouch
<1>5. ASSUME NEW r \in inflight, DeleteExec(r) PROVE Goal
  <2> DEFINE anew == TRUE
  <2>1. PICK q \in Requests :
          q.at = "start" /\ inflight' = Touched(r.name, Others(r), anew) \cup {q}
    BY <1>0, <1>5, DeleteShape
  <2>2. anew \in BOOLEAN
    OBVIOUS
  <2> HIDE DEF anew
  <2> QED
    BY <1>0, <2>1, <2>2, FreshAfterTouch
<1>6. ASSUME NEW r \in inflight, StartOperation(r) PROVE Goal
  BY <1>0, <1>1, <1>6, StartShape DEF Others
<1>7. ASSUME NEW r \in inflight, DeleteGone(r) \/ ReGet(r) PROVE Goal
  BY <1>0, <1>1, <1>7 DEF DeleteGone, ReGet, Others
<1>8. ASSUME NEW g \in Groups, PutGroup(g) \/ DeleteGroup(g) PROVE Goal
  BY <1>0, <1>1, <1>8 DEF PutGroup, DeleteGroup
<1>9. CASE ClockMoves \/ Restart \/ UNCHANGED vars
  BY <1>0, <1>1, <1>9 DEF ClockMoves, Restart, vars
<1> QED
  BY <1>2, <1>3, <1>4, <1>5, <1>6, <1>7, <1>8, <1>9 DEF Next, Proceed

(* Where a row comes from: it was there, or a write put it there under its   *)
(* own id or under that of the row it replaced.                              *)
LEMMA RowsFrom ==
  ASSUME TableInv, [Next]_vars, NEW row \in capacities'
  PROVE  \/ row \in capacities
         \/ \E w \in Writes :
              /\ Write(w)
              /\ row.group = w.row.group
              /\ row.id = w.row.id \/ \E old \in capacities : old.id = row.id
<1>0. TypeOK
  BY DEF TableInv
<1>1. ASSUME NEW w \in inflight, Write(w), row \notin capacities
      PROVE  \E v \in Writes :
               /\ Write(v)
               /\ row.group = v.row.group
               /\ row.id = v.row.id \/ \E old \in capacities : old.id = row.id
  <2>1. w \in Writes /\ w.row \in CapacityRows
    BY <1>0, <1>1, WriteShape
  <2>2. PICK new \in CapacityRows :
          /\ new.group = w.row.group
          /\ Upsert(w.row) = (capacities \ GetFabricCapacity(w.row.name)) \cup {new}
          /\ new = w.row \/ \E old \in capacities : new.id = old.id
    BY <1>0, <2>1, UpsertShape
  <2>3. row = new
    BY <1>1, <2>2 DEF Write
  <2> QED
    BY <1>1, <2>1, <2>2, <2>3
<1>2. CASE \A w \in inflight : ~Write(w)
  <2>1. capacities' \subseteq capacities
    BY <1>2 DEF Next, Arrive, Proceed, PutCapacity, PatchCapacity, SuspendCapacity,
                ResumeCapacity, Modify, DeleteCapacity, PutLookup, DeleteExec,
                DeleteGone, StartOperation, ReGet, PutGroup, DeleteGroup, ClockMoves,
                Restart, vars
  <2> QED
    BY <2>1
<1> QED
  BY <1>1, <1>2

(* Only a delete retires ids, those of its rows, and those some write still  *)
(* holds are contested; groups once named stay named.                        *)
LEMMA HistoryGrows ==
  ASSUME TableInv, [Next]_vars
  PROVE  /\ \/ UNCHANGED <<retired, contested>>
            \/ \E r \in inflight :
                 LET gone == {row.id : row \in GetFabricCapacity(r.name)}
                 IN  /\ capacities' = capacities \ GetFabricCapacity(r.name)
                     /\ retired' = retired \cup gone
                     /\ contested' = contested \cup
                          {id \in gone : \E w \in Writes : w.row.id = id}
         /\ named \subseteq named'
         /\ groups' \subseteq groups \cup named'
         /\ \A w \in inflight : Write(w) /\ w.kind = "patch" => w.row.group \in named'
<1>1. named \subseteq named' /\ groups' \subseteq groups \cup named'
  BY DEF Next, Arrive, Proceed, PutCapacity, PatchCapacity, SuspendCapacity,
         ResumeCapacity, Modify, DeleteCapacity, PutLookup, Write, DeleteExec,
         DeleteGone, StartOperation, ReGet, PutGroup, DeleteGroup, ClockMoves,
         Restart, vars, history
<1>2. \A w \in inflight : Write(w) /\ w.kind = "patch" => w.row.group \in named'
  BY DEF Write
<1>3. ASSUME NEW r \in inflight, DeleteExec(r)
      PROVE  LET gone == {row.id : row \in GetFabricCapacity(r.name)}
             IN  /\ capacities' = capacities \ GetFabricCapacity(r.name)
                 /\ retired' = retired \cup gone
                 /\ contested' = contested \cup
                      {id \in gone : \E w \in Writes : w.row.id = id}
  BY <1>3 DEF DeleteExec, Writes
<1>4. CASE \A r \in inflight : ~DeleteExec(r)
  BY <1>4 DEF Next, Arrive, Proceed, PutCapacity, PatchCapacity, SuspendCapacity,
         ResumeCapacity, Modify, DeleteCapacity, PutLookup, Write,
         DeleteGone, StartOperation, ReGet, PutGroup, DeleteGroup, ClockMoves,
         Restart, vars, history
<1> QED
  BY <1>1, <1>2, <1>3, <1>4

LEMMA NextRetiredInv == RetiredInv /\ [Next]_vars => RetiredInv'
<1> SUFFICES ASSUME RetiredInv, [Next]_vars
             PROVE  WritesContested' /\ RetiredStaysGone'
  BY NextTableInv DEF RetiredInv
<1>0. /\ TableInv /\ TypeOK /\ DrawnForItsName
      /\ WritesContested /\ RetiredStaysGone
  BY DEF RetiredInv, TableInv
<1>1. ASSUME NEW w \in Writes', w.row.id \in retired' PROVE w.row.id \in contested'
  <2>1. CASE \E p \in Writes : w.row = p.row
    BY <1>0, <1>1, <2>1, HistoryGrows DEF WritesContested
  <2>2. CASE /\ \/ w.row.id = Len(drawnFor) + 1
                \/ \E row \in capacities : row.id = w.row.id
             /\ UNCHANGED <<capacities, retired>>
    <3>1. Len(drawnFor) + 1 \notin retired
      BY <1>0 DEF DrawnForItsName, TypeOK
    <3>2. PICK row \in capacities : row.id = w.row.id
      BY <1>1, <2>2, <3>1
    <3>3. row.id \in contested
      BY <1>0, <1>1, <2>2, <3>2 DEF RetiredStaysGone
    <3> QED
      BY <1>0, <3>2, <3>3, HistoryGrows
  <2> QED
    BY <1>0, <2>1, <2>2, WritesFrom
<1>2. ASSUME NEW row \in capacities', row.id \in retired' PROVE row.id \in contested'
  <2>1. CASE row \in capacities
    <3>1. CASE UNCHANGED <<retired, contested>>
      BY <1>0, <1>2, <2>1, <3>1 DEF RetiredStaysGone
    <3>2. CASE ~UNCHANGED <<retired, contested>>
      <4>1. PICK r \in inflight :
              LET gone == {x.id : x \in GetFabricCapacity(r.name)}
              IN  /\ capacities' = capacities \ GetFabricCapacity(r.name)
                  /\ retired' = retired \cup gone
                  /\ contested \subseteq contested'
        BY <1>0, <3>2, HistoryGrows
      <4>2. row.id \notin {x.id : x \in GetFabricCapacity(r.name)}
        BY <1>0, <1>2, <2>1, <4>1 DEF TypeOK, GetFabricCapacity
      <4> QED
        BY <1>0, <1>2, <2>1, <4>1, <4>2 DEF RetiredStaysGone
    <3> QED
      BY <3>1, <3>2
  <2>2. CASE row \notin capacities
    <3>1. PICK w \in Writes :
            /\ Write(w)
            /\ row.id = w.row.id \/ \E old \in capacities : old.id = row.id
      BY <1>0, <1>2, <2>2, RowsFrom
    <3>2. UNCHANGED <<retired, contested>>
      BY <3>1 DEF Write
    <3> QED
      BY <1>0, <1>2, <3>1, <3>2 DEF WritesContested, RetiredStaysGone
  <2> QED
    BY <2>1, <2>2
<1> QED
  BY <1>1, <1>2 DEF WritesContested, RetiredStaysGone

(* A deleted capacity stays deleted: its id is listed again only if, when it *)
(* was deleted, a request held the row it had read and wrote it back.        *)
THEOREM RetiredDoesStayGone == Spec => []RetiredStaysGone
<1>1. Init => RetiredInv
  BY InitTableInv DEF Init, RetiredInv, WritesContested, RetiredStaysGone, Writes
<1>2. RetiredInv => RetiredStaysGone
  BY DEF RetiredInv
<1> QED
  BY <1>1, <1>2, NextRetiredInv, PTL DEF Spec

-------------------------------------------------------------------------------
LEMMA NextHomeInv == HomeInv /\ [Next]_vars => HomeInv'
<1> SUFFICES ASSUME HomeInv, [Next]_vars PROVE WritesNamed' /\ HomeExplained'
  BY NextTableInv DEF HomeInv
<1>0. TableInv /\ TypeOK /\ WritesNamed /\ HomeExplained
  BY DEF HomeInv, TableInv
<1>1. groups' \subseteq named' /\ named \subseteq named'
  BY <1>0, HistoryGrows DEF WritesNamed
<1>2. ASSUME NEW r \in inflight', r.at = "lookup" PROVE r.want.group \in named'
  <2>1. CASE r \in inflight
    BY <1>0, <1>1, <1>2, <2>1 DEF WritesNamed
  <2>2. ASSUME NEW c \in Clients, Arrive(c), r \notin inflight
        PROVE  r.want.group \in named'
    BY <1>0, <1>1, <1>2, <2>2, ArriveShape DEF WritesNamed
  <2>3. ASSUME NEW p \in inflight, Proceed(p), r \notin inflight PROVE FALSE
    <3>1. CASE PutLookup(p)
      BY <1>0, <1>2, <2>3, <3>1, PutLookupShape DEF Others
    <3>2. ASSUME NEW n, NEW restates \in BOOLEAN
          PROVE  r \notin Touched(n, Others(p), restates)
      <4> SUFFICES ASSUME r \in Touched(n, Others(p), restates) PROVE FALSE
        OBVIOUS
      <4>1. Others(p) \in SUBSET Requests
        BY <1>0 DEF TypeOK, Others
      <4>2. PICK q \in Others(p) : r = TouchedOne(n, q, restates)
        BY <4>1, TouchedShape
      <4>3. r = q
        BY <1>2, <4>1, <4>2, TouchedOneKeeps
      <4> QED
        BY <2>3, <4>3 DEF Others
    <3>3. CASE Write(p)
      <4> DEFINE restates == p.kind # "patch" \/ p.stale
      <4>1. restates \in BOOLEAN
        BY <1>0, <3>3, WriteShape
      <4>2. PICK q : q.at = "start" /\
              inflight' = Touched(p.row.name, Others(p), restates) \cup {q}
        BY <1>0, <3>3, WriteShape
      <4> HIDE DEF restates
      <4> QED
        BY <1>2, <3>2, <4>1, <4>2
    <3>4. CASE DeleteExec(p)
      <4> DEFINE anew == TRUE
      <4>1. anew \in BOOLEAN
        OBVIOUS
      <4>2. PICK q : q.at = "start" /\
              inflight' = Touched(p.name, Others(p), anew) \cup {q}
        BY <1>0, <3>4, DeleteShape
      <4> HIDE DEF anew
      <4> QED
        BY <1>2, <3>2, <4>1, <4>2
    <3>5. CASE StartOperation(p)
      BY <1>0, <1>2, <2>3, <3>5, StartShape DEF Others
    <3>6. CASE DeleteGone(p) \/ ReGet(p)
      BY <1>2, <2>3, <3>6 DEF DeleteGone, ReGet, Others
    <3> QED
      BY <2>3, <3>1, <3>3, <3>4, <3>5, <3>6 DEF Proceed
  <2>4. CASE \/ \E g \in Groups : PutGroup(g) \/ DeleteGroup(g)
             \/ ClockMoves \/ Restart \/ UNCHANGED vars
    BY <1>2, <2>1, <2>4 DEF PutGroup, DeleteGroup, ClockMoves, Restart, vars
  <2> QED
    BY <2>1, <2>2, <2>3, <2>4 DEF Next
<1>3. ASSUME NEW w \in Writes', w.kind # "patch" PROVE w.row.group \in named'
  BY <1>0, <1>1, <1>3, WritesFrom DEF WritesNamed, HomeExplained
<1>4. ASSUME NEW row \in capacities' PROVE row.group \in named'
  <2>1. CASE row \in capacities
    BY <1>0, <1>1, <2>1 DEF HomeExplained
  <2>2. CASE row \notin capacities
    <3>1. PICK w \in Writes : Write(w) /\ row.group = w.row.group
      BY <1>0, <2>2, RowsFrom
    <3> QED
      BY <1>0, <1>1, <3>1, HistoryGrows DEF WritesNamed, Writes
  <2> QED
    BY <2>1, <2>2
<1> QED
  BY <1>1, <1>2, <1>3, <1>4 DEF WritesNamed, HomeExplained

(* A capacity lives in a resource group that has existed, unless a PATCH     *)
(* carried it to a group nobody looked up.                                   *)
THEOREM HomeIsExplained == Spec => []HomeExplained
<1>1. Init => HomeInv
  BY InitTableInv DEF Init, HomeInv, WritesNamed, HomeExplained, Writes
<1>2. HomeInv => HomeExplained
  BY DEF HomeInv
<1> QED
  BY <1>1, <1>2, NextHomeInv, PTL DEF Spec

-------------------------------------------------------------------------------
(* Of the requests touched by a write of n, one that still counts on a state *)
(* counted on it before; it is of another name, or the state was not settled *)
(* anew.                                                                     *)
LEMMA AwaitAfterTouch ==
  ASSUME TypeOK, NEW r \in inflight, NEW n, NEW restates \in BOOLEAN,
         NEW w \in Touched(n, Others(r), restates),
         w.at \in {"start", "poll"}, w.awaits # None
  PROVE  \E p \in inflight :
           /\ p.at \in {"start", "poll"}
           /\ w.name = p.name
           /\ w.awaits = p.awaits
           /\ p.name # n \/ ~restates
<1>1. Others(r) \in SUBSET Requests
  BY DEF TypeOK, Others
<1>2. PICK p \in Others(r) : w = TouchedOne(n, p, restates)
  BY <1>1, TouchedShape
<1>3. /\ p.at \in {"start", "poll"}
      /\ w.name = p.name
      /\ w.awaits = IF p.name = n /\ restates THEN None ELSE p.awaits
  BY <1>1, <1>2, TouchedOneKeeps
<1> QED
  BY <1>2, <1>3 DEF Others

LEMMA NextPollerInv == PollerInv /\ [Next]_vars => PollerInv'
<1> SUFFICES ASSUME PollerInv, [Next]_vars PROVE AwaitedHolds'
  BY NextTableInv DEF PollerInv
<1>0. TableInv /\ TypeOK /\ FreshWrites /\ AwaitedHolds
  BY DEF PollerInv, TableInv
<1>1. ASSUME UNCHANGED capacities,
             \A q \in inflight' : q.at \in {"start", "poll"} =>
               \E p \in inflight : /\ p.at \in {"start", "poll"}
                                   /\ p.name = q.name
                                   /\ p.awaits = q.awaits
      PROVE  AwaitedHolds'
  BY <1>0, <1>1 DEF AwaitedHolds
<1>2. ASSUME NEW c \in Clients, Arrive(c) PROVE AwaitedHolds'
  <2>1. UNCHANGED capacities
    BY <1>0, <1>2, ArriveShape DEF history
  <2>2. PICK q \in Requests :
          q.at \in {"lookup", "write", "delete"} /\ inflight' = inflight \cup {q}
    BY <1>0, <1>2, ArriveShape
  <2> QED
    BY <1>1, <2>1, <2>2
<1>3. ASSUME NEW r \in inflight, PutLookup(r) PROVE AwaitedHolds'
  <2>1. PICK q \in Requests : q.at = "write" /\ inflight' = Others(r) \cup {q}
    BY <1>0, <1>3, PutLookupShape
  <2> QED
    BY <1>1, <1>3, <2>1 DEF PutLookup, Others
<1>4. ASSUME NEW r \in inflight, Write(r) PROVE AwaitedHolds'
  <2> DEFINE n == r.row.name
             restates == r.kind # "patch" \/ r.stale
             touched == Touched(n, Others(r), restates)
  <2>1. /\ r \in Writes
        /\ r.row \in CapacityRows
        /\ restates \in BOOLEAN
    BY <1>0, <1>4, WriteShape
  <2>2. PICK q \in Requests :
          /\ q.name = n
          /\ q.awaits = IF r.kind \in {"suspend", "resume"} THEN r.row.state ELSE None
          /\ inflight' = touched \cup {q}
    BY <1>0, <1>4, WriteShape
  <2>3. PICK new \in CapacityRows :
          /\ new.name = n
          /\ new.state = r.row.state
          /\ Upsert(r.row) = (capacities \ GetFabricCapacity(n)) \cup {new}
    BY <1>0, <2>1, UpsertShape
  <2>4. capacities' = (capacities \ GetFabricCapacity(n)) \cup {new}
    BY <1>4, <2>3 DEF Write
  <2>5. ASSUME ~restates, NEW row \in capacities, row.name = n
        PROVE  row.state = new.state
    <3>1. r.kind = "patch" /\ ~r.stale
      BY <2>5
    <3>2. PICK old \in capacities : old.name = n /\ old.state = r.row.state
      BY <1>0, <2>1, <3>1 DEF FreshWrites
    <3>3. old = row
      BY <1>0, <2>5, <3>2 DEF TypeOK
    <3> QED
      BY <2>3, <3>2, <3>3
  <2> HIDE DEF restates
  <2>6. ASSUME NEW w \in touched, w.at \in {"start", "poll"}, w.awaits # None
        PROVE  \E row \in capacities' : row.name = w.name /\ row.state = w.awaits
    <3>1. PICK p \in inflight :
            /\ p.at \in {"start", "poll"}
            /\ w.name = p.name
            /\ w.awaits = p.awaits
            /\ p.name # n \/ ~restates
      BY <1>0, <2>1, <2>6, AwaitAfterTouch
    <3>2. PICK row \in capacities : row.name = w.name /\ row.state = w.awaits
      BY <1>0, <2>6, <3>1 DEF AwaitedHolds
    <3>3. CASE p.name # n
      BY <2>4, <3>1, <3>2, <3>3 DEF GetFabricCapacity
    <3>4. CASE p.name = n
      BY <2>3, <2>4, <2>5, <3>1, <3>2, <3>4
    <3> QED
      BY <3>3, <3>4
  <2>7. q.awaits # None =>
          \E row \in capacities' : row.name = q.name /\ row.state = q.awaits
    BY <2>2, <2>3, <2>4
  <2> QED
    BY <2>2, <2>6, <2>7 DEF AwaitedHolds
<1>5. ASSUME NEW r \in inflight, DeleteExec(r) PROVE AwaitedHolds'
  <2> DEFINE anew == TRUE
             touched == Touched(r.name, Others(r), anew)
  <2>1. PICK q \in Requests : q.awaits = None /\ inflight' = touched \cup {q}
    BY <1>0, <1>5, DeleteShape
  <2>2. capacities' = capacities \ GetFabricCapacity(r.name)
    BY <1>5 DEF DeleteExec
  <2>3. anew \in BOOLEAN
    OBVIOUS
  <2>5. anew
    OBVIOUS
  <2> HIDE DEF anew
  <2>4. ASSUME NEW w \in touched, w.at \in {"start", "poll"}, w.awaits # None
        PROVE  \E row \in capacities' : row.name = w.name /\ row.state = w.awaits
    <3>1. PICK p \in inflight :
            /\ p.at \in {"start", "poll"}
            /\ w.name = p.name
            /\ w.awaits = p.awaits
            /\ p.name # r.name \/ ~anew
      BY <1>0, <2>3, <2>4, AwaitAfterTouch
    <3>2. PICK row \in capacities : row.name = w.name /\ row.state = w.awaits
      BY <1>0, <2>4, <3>1 DEF AwaitedHolds
    <3>3. p.name # r.name
      BY <2>5, <3>1
    <3> QED
      BY <2>2, <3>1, <3>2, <3>3 DEF GetFabricCapacity
  <2> QED
    BY <2>1, <2>4 DEF AwaitedHolds
<1>6. ASSUME NEW r \in inflight, StartOperation(r) PROVE AwaitedHolds'
  <2>1. UNCHANGED capacities /\ r.at = "start"
    BY <1>6 DEF StartOperation
  <2>2. \/ inflight' = Others(r)
        \/ \E q \in Requests :
             /\ q.name = r.name
             /\ q.awaits = r.awaits
             /\ inflight' = Others(r) \cup {q}
    BY <1>0, <1>6, StartShape
  <2> QED
    BY <1>1, <2>1, <2>2 DEF Others
<1>7. ASSUME NEW r \in inflight, DeleteGone(r) \/ ReGet(r) PROVE AwaitedHolds'
  BY <1>1, <1>7 DEF DeleteGone, ReGet, Others
<1>8. ASSUME NEW g \in Groups, PutGroup(g) \/ DeleteGroup(g) PROVE AwaitedHolds'
  BY <1>1, <1>8 DEF PutGroup, DeleteGroup
<1>9. CASE ClockMoves \/ Restart \/ UNCHANGED vars
  BY <1>1, <1>9 DEF ClockMoves, Restart, vars
<1> QED
  BY <1>2, <1>3, <1>4, <1>5, <1>6, <1>7, <1>8, <1>9 DEF Next, Proceed

(* Who suspends or resumes a capacity and polls until the operation is done  *)
(* reads what was asked for, whatever PATCHes race with the write, unless    *)
(* another request has settled the state since.                              *)
THEOREM PollerDoesReadItsState == Spec => []PollerReadsItsState
<1>1. Init => PollerInv
  BY InitTableInv DEF Init, PollerInv, AwaitedHolds
<1>2. PollerInv => PollerReadsItsState
  <2> SUFFICES ASSUME PollerInv, NEW r \in inflight, r.at = "poll", r.awaits # None
               PROVE  \E row \in GetFabricCapacity(r.name) :
                        BodyState(row) \in
                          IF r.awaits = "Paused" THEN {"Paused"}
                                                 ELSE {"Active", "Preparing"}
    BY DEF PollerReadsItsState
  <2>1. PICK row \in capacities : row.name = r.name /\ row.state = r.awaits
    BY DEF PollerInv, AwaitedHolds
  <2>2. row.state \in States
    BY RowFields DEF PollerInv, TableInv, TypeOK
  <2> QED
    BY <2>1, <2>2 DEF GetFabricCapacity, BodyState, States
<1> QED
  BY <1>1, <1>2, NextPollerInv, PTL DEF Spec

-------------------------------------------------------------------------------
(* The identity the table shows for a name, and the name an id was drawn     *)
(* for: the refinement mapping of Identity, as operators of their own.       *)
IdOf(rows) == IF rows = {} THEN None ELSE (CHOOSE row \in rows : TRUE).id
HeldIn(rows, n) == IdOf({row \in rows : row.name = n})
DrawnIn(ids, id) == IF id \in DOMAIN ids THEN ids[id] ELSE None

Holds == [n \in Names |-> HeldIn(capacities, n)]
Drawn == [id \in Ids |-> DrawnIn(drawnFor, id)]

LEMMA HeldShape ==
  ASSUME NEW rows \in SUBSET CapacityRows,
         \A a, b \in rows : a.name = b.name => a = b,
         NEW n
  PROVE  /\ \A row \in rows : row.name = n =>
              HeldIn(rows, n) = row.id /\ HeldIn(rows, n) # None
         /\ (\A row \in rows : row.name # n) => HeldIn(rows, n) = None
<1>1. ASSUME NEW row \in rows, row.name = n
      PROVE  HeldIn(rows, n) = row.id /\ HeldIn(rows, n) # None
  <2>1. {x \in rows : x.name = n} = {row}
    BY <1>1
  <2>2. row.id \in Nat
    BY RowFields, CapacityAssumption DEF Ids
  <2> QED
    BY <2>1, <2>2, CapacityAssumption DEF HeldIn, IdOf
<1>2. ASSUME \A row \in rows : row.name # n PROVE HeldIn(rows, n) = None
  <2>1. {x \in rows : x.name = n} = {}
    BY <1>2
  <2> QED
    BY <2>1 DEF HeldIn, IdOf
<1> QED
  BY <1>1, <1>2

LEMMA HeldElsewhere ==
  ASSUME NEW before, NEW after, NEW n,
         \A row : row.name = n => (row \in before <=> row \in after)
  PROVE  HeldIn(before, n) = HeldIn(after, n)
<1>1. {x \in before : x.name = n} = {x \in after : x.name = n}
  OBVIOUS
<1> QED
  BY <1>1 DEF HeldIn

(* A write either lists a name that had no row, under an id drawn for it, or *)
(* keeps the id the name is listed under.                                    *)
LEMMA WriteHolds ==
  ASSUME TableInv, TableInv', NEW r \in inflight, Write(r)
  PROVE  \/ Holds' = Holds
         \/ \E n \in Names, id \in Ids :
              /\ Holds[n] = None
              /\ Drawn[id] = n
              /\ Holds' = [Holds EXCEPT ![n] = id]
<1> DEFINE n == r.row.name
<1>0. TypeOK /\ DrawnForItsName /\ TypeOK'
  BY DEF TableInv
<1>1. r \in Writes /\ r.row \in CapacityRows /\ n \in Names
  BY <1>0, WriteShape, RowFields
<1>2. PICK new \in CapacityRows :
        /\ new.name = n
        /\ Upsert(r.row) = (capacities \ GetFabricCapacity(n)) \cup {new}
        /\ \/ GetFabricCapacity(n) = {} /\ new = r.row
           \/ \E old \in capacities : old.name = n /\ new.id = old.id
  BY <1>0, <1>1, UpsertShape
<1>3. capacities' = (capacities \ GetFabricCapacity(n)) \cup {new}
  BY <1>2 DEF Write
<1>4. ASSUME NEW m, m # n PROVE HeldIn(capacities', m) = HeldIn(capacities, m)
  <2>1. \A row : row.name = m => (row \in capacities <=> row \in capacities')
    BY <1>2, <1>3, <1>4 DEF GetFabricCapacity
  <2> QED
    BY <2>1, HeldElsewhere
<1>5. HeldIn(capacities', n) = new.id
  <2>1. /\ capacities' \in SUBSET CapacityRows
        /\ \A a, b \in capacities' : a.name = b.name => a = b
    BY <1>0 DEF TypeOK
  <2>2. new \in capacities'
    BY <1>3
  <2> QED
    BY <1>2, <2>1, <2>2, HeldShape
<1>6. CASE GetFabricCapacity(n) = {} /\ new = r.row
  <2>1. HeldIn(capacities, n) = None
    BY <1>0, <1>6, HeldShape DEF GetFabricCapacity, TypeOK
  <2>2. new.id \in Ids /\ DrawnIn(drawnFor, new.id) = n
    BY <1>0, <1>1, <1>6, RowFields DEF DrawnForItsName, DrawnIn, TypeOK
  <2>3. Holds' = [Holds EXCEPT ![n] = new.id]
    BY <1>1, <1>4, <1>5 DEF Holds
  <2> QED
    BY <1>1, <2>1, <2>2, <2>3 DEF Holds, Drawn
<1>7. CASE \E old \in capacities : old.name = n /\ new.id = old.id
  <2>1. HeldIn(capacities, n) = new.id
    BY <1>0, <1>7, HeldShape DEF TypeOK
  <2>2. \A m \in Names : HeldIn(capacities', m) = HeldIn(capacities, m)
    BY <1>4, <1>5, <2>1
  <2> QED
    BY <2>2 DEF Holds
<1> QED
  BY <1>2, <1>6, <1>7

(* A delete that finds the row of a name takes the id from that name only.   *)
LEMMA DeleteHolds ==
  ASSUME TypeOK, NEW r \in inflight, DeleteExec(r)
  PROVE  \E n \in Names :
           /\ Holds[n] # None
           /\ Holds' = [Holds EXCEPT ![n] = None]
<1>1. r.name \in Names
  BY RequestFields DEF TypeOK, DeleteExec
<1>2. capacities' = capacities \ GetFabricCapacity(r.name)
  BY DEF DeleteExec
<1>3. PICK row \in capacities : row.name = r.name
  BY DEF DeleteExec, GetFabricCapacity
<1>4. HeldIn(capacities, r.name) # None
  BY <1>3, HeldShape DEF TypeOK
<1>5. HeldIn(capacities', r.name) = None
  BY <1>2 DEF HeldIn, IdOf, GetFabricCapacity
<1>6. ASSUME NEW m, m # r.name
      PROVE  HeldIn(capacities', m) = HeldIn(capacities, m)
  <2>1. \A x : x.name = m => (x \in capacities <=> x \in capacities')
    BY <1>2, <1>6 DEF GetFabricCapacity
  <2> QED
    BY <2>1, HeldElsewhere
<1>7. Holds' = [Holds EXCEPT ![r.name] = None]
  BY <1>1, <1>5, <1>6 DEF Holds
<1> QED
  BY <1>1, <1>4, <1>7 DEF Holds

(* A PUT of a name without a row draws the next id, which no name has drawn; *)
(* any other keeps the ids drawn so far.                                     *)
LEMMA LookupDraws ==
  ASSUME TypeOK, DrawnForItsName, NEW r \in inflight, PutLookup(r)
  PROVE  \/ drawnFor' = drawnFor
         \/ \E n \in Names, id \in Ids :
              /\ Drawn[id] = None
              /\ Drawn' = [Drawn EXCEPT ![id] = n]
<1>1. r.name \in Names
  BY RequestFields DEF TypeOK, PutLookup
<1>2. PICK q \in Requests :
        /\ q.at = "write"
        /\ \/ /\ \E row \in capacities : row.name = r.name /\ row.id = q.row.id
              /\ drawnFor' = IF q.row.id > Len(drawnFor)
                               THEN Append(drawnFor, r.name) ELSE drawnFor
           \/ /\ q.row.id = Len(drawnFor) + 1
              /\ drawnFor' = Append(drawnFor, r.name)
  BY PutLookupShape
<1>3. Len(drawnFor) \in Nat /\ drawnFor \in Seq(Names) /\ q.row.id \in Ids
  BY <1>2, RequestFields, RowFields DEF TypeOK
<1>4. CASE /\ \E row \in capacities : row.name = r.name /\ row.id = q.row.id
           /\ drawnFor' = IF q.row.id > Len(drawnFor)
                            THEN Append(drawnFor, r.name) ELSE drawnFor
  BY <1>3, <1>4 DEF DrawnForItsName
<1>5. CASE q.row.id = Len(drawnFor) + 1 /\ drawnFor' = Append(drawnFor, r.name)
  <2>1. DrawnIn(drawnFor, q.row.id) = None
    BY <1>3, <1>5 DEF DrawnIn
  <2>2. DrawnIn(drawnFor', q.row.id) = r.name
    BY <1>1, <1>3, <1>5 DEF DrawnIn
  <2>3. ASSUME NEW id \in Ids, id # q.row.id
        PROVE  DrawnIn(drawnFor', id) = DrawnIn(drawnFor, id)
    BY <1>1, <1>3, <1>5, <2>3, CapacityAssumption DEF DrawnIn, Ids
  <2>4. Drawn' = [Drawn EXCEPT ![q.row.id] = r.name]
    BY <1>3, <2>2, <2>3 DEF Drawn
  <2> QED
    BY <1>1, <1>3, <2>1, <2>4 DEF Drawn
<1> QED
  BY <1>2, <1>4, <1>5

LEMMA NextIdentityStep ==
  ASSUME TableInv, TableInv', [Next]_vars
  PROVE  \/ UNCHANGED <<Holds, Drawn>>
         \/ /\ UNCHANGED Holds
            /\ \E n \in Names, id \in Ids :
                 Drawn[id] = None /\ Drawn' = [Drawn EXCEPT ![id] = n]
         \/ /\ UNCHANGED Drawn
            /\ \E n \in Names, id \in Ids :
                 /\ Holds[n] = None
                 /\ Drawn[id] = n
                 /\ Holds' = [Holds EXCEPT ![n] = id]
         \/ /\ UNCHANGED Drawn
            /\ \E n \in Names : Holds[n] # None /\ Holds' = [Holds EXCEPT ![n] = None]
<1>0. TypeOK /\ DrawnForItsName
  BY DEF TableInv
<1>1. UNCHANGED capacities => UNCHANGED Holds
  BY DEF Holds
<1>2. UNCHANGED drawnFor => UNCHANGED Drawn
  BY DEF Drawn
<1>3. ASSUME NEW r \in inflight, PutLookup(r)
      PROVE  UNCHANGED Holds /\
             (\/ UNCHANGED Drawn
              \/ \E n \in Names, id \in Ids :
                   Drawn[id] = None /\ Drawn' = [Drawn EXCEPT ![id] = n])
  <2>1. UNCHANGED Holds
    BY <1>1, <1>3 DEF PutLookup
  <2> QED
    BY <1>0, <1>2, <1>3, <2>1, LookupDraws
<1>4. ASSUME NEW r \in inflight, Write(r)
      PROVE  UNCHANGED Drawn /\
             (\/ UNCHANGED Holds
              \/ \E n \in Names, id \in Ids :
                   /\ Holds[n] = None
                   /\ Drawn[id] = n
                   /\ Holds' = [Holds EXCEPT ![n] = id])
  <2>1. UNCHANGED Drawn
    BY <1>2, <1>4 DEF Write
  <2> QED
    BY <1>4, <2>1, WriteHolds
<1>5. ASSUME NEW r \in inflight, DeleteExec(r)
      PROVE  UNCHANGED Drawn /\
             \E n \in Names : Holds[n] # None /\ Holds' = [Holds EXCEPT ![n] = None]
  <2>1. UNCHANGED Drawn
    BY <1>2, <1>5 DEF DeleteExec
  <2> QED
    BY <1>0, <1>5, <2>1, DeleteHolds
<1>6. CASE \A r \in inflight : ~PutLookup(r) /\ ~Write(r) /\ ~DeleteExec(r)
  <2>1. UNCHANGED <<capacities, drawnFor>>
    BY <1>6 DEF Next, Arrive, Proceed, PutCapacity, PatchCapacity, SuspendCapacity,
                ResumeCapacity, Modify, DeleteCapacity, DeleteGone, StartOperation,
                ReGet, PutGroup, DeleteGroup, ClockMoves, Restart, vars
  <2> QED
    BY <1>1, <1>2, <2>1
<1> QED
  BY <1>3, <1>4, <1>5, <1>6

(* The REST id of a capacity never changes while it exists and never turns   *)
(* up under another name, whatever upserts of PUTs, PATCHes, suspends and    *)
(* resumes interleave: the table implements CapacityIdentity.                *)
THEOREM CapacitiesKeepIdentity == Spec => ImplementsIdentity
<1>1. Init => Identity!Init
  <2> SUFFICES ASSUME Init PROVE Identity!Init
    OBVIOUS
  <2>1. DOMAIN drawnFor = {} /\ \A n : GetFabricCapacity(n) = {}
    BY DEF Init, GetFabricCapacity
  <2> QED
    BY <2>1 DEF Identity!Init
<1>2. ASSUME TableInv, TableInv', [Next]_vars
      PROVE  [Identity!Next]_Identity!vars
  BY <1>2, NextIdentityStep
     DEF Identity!Next, Identity!vars, Identity!Draw, Identity!Appear, Identity!Vanish,
         Holds, Drawn, HeldIn, IdOf, DrawnIn, GetFabricCapacity
<1> QED
  BY <1>1, <1>2, InitTableInv, NextTableInv, PTL
     DEF Spec, ImplementsIdentity, Identity!Spec

===============================================================================
