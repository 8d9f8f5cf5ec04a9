--------------------------- MODULE VaultLifecycle ---------------------------
(***************************************************************************)
(* Key Vaults: created in a resource group, updated, soft-deleted,         *)
(* recovered, purged (internal/arm/keyvault.go, arm/deletedvaults.go and   *)
(* the group handlers of arm/resources.go, over internal/store).           *)
(*                                                                         *)
(* As everywhere in this program one SQL statement is atomic and so is one *)
(* transaction, and requests interleave between them: a request suspended  *)
(* between two of them is a record of `inflight`.  A transaction writes    *)
(* the values the request READ BEFORE it began.                            *)
(*                                                                         *)
(* Names stand for names folded to one letter case: the keys of all three  *)
(* tables are NOCASE.  A vault's properties are abstracted to the set of   *)
(* object ids in its access policies.  Of the operations table only what   *)
(* vaultBody asks of it is kept: until when a vault's id is busy.  The     *)
(* operations of a purge or of a group delete name ids nobody asks about   *)
(* and are left to AsyncOperations.  Requests that only read are left out. *)
(***************************************************************************)
EXTENDS Integers, FiniteSets

CONSTANTS
  Clients, VaultNames, Groups,
  Objects,     \* object ids that access policies name
  Retention,   \* the soft-delete window, in ticks of the controlled clock
  LRODelay,    \* how long a vault create or update stays in progress
  MaxNow,      \* bound on the controlled clock
  MaxBorn      \* bound on how many vaults are ever created

ASSUME VaultAssumption ==
  /\ Retention \in Nat
  /\ LRODelay \in Nat
  /\ MaxNow \in Nat
  /\ MaxBorn \in Nat

VARIABLES
  now,          \* the controlled clock
  groups,       \* table resource_groups
  vaults,       \* table vaults: the live vaults
  deleted,      \* table deleted_vaults, lapsed rows included
  busyUntil,    \* per vault id, the latest complete_at of its operations
  inflight,     \* requests suspended between two statements
  born,         \* history: vaults created so far; numbers the vaults
  purged,       \* history: the numbers of the vaults that were purged
  conflicted    \* history: names written by a request whose reads were stale

tables == <<groups, vaults, deleted, busyUntil>>
history == <<born, purged, conflicted>>
vars == <<now, tables, inflight, history>>

Times == 0 .. MaxNow
Policies == SUBSET Objects
Kinds == {"add", "replace", "remove"}
Modes == {"create", "recover"}

\* `vault` is the history number of a row: which vault it is a copy of.
VaultRows ==
  [name : VaultNames, group : Groups, policies : Policies, vault : 1 .. MaxBorn]
DeletedRows ==
  [name : VaultNames, group : Groups, policies : Policies, vault : 1 .. MaxBorn,
   purgeAt : Nat]

\* `stale`: since the request read, another one changed what it read.
Requests ==
  [at : {"look", "lookDeleted"}, client : Clients, name : VaultNames,
   group : Groups, policies : Policies, mode : Modes, stale : BOOLEAN]
    \cup [at : {"write"}, client : Clients, name : VaultNames, group : Groups,
          policies : Policies, stale : BOOLEAN]
    \cup [at : {"operation"}, client : Clients, name : VaultNames, group : Groups]
    \cup [at : {"recover"}, client : Clients, name : VaultNames, stale : BOOLEAN]
    \cup [at : {"recoverTx"}, client : Clients, name : VaultNames,
          row : DeletedRows, stale : BOOLEAN]
    \cup [at : {"policyWrite"}, client : Clients, name : VaultNames, kind : Kinds,
          objects : Policies, row : VaultRows, stale : BOOLEAN]
    \cup [at : {"deleteTx"}, client : Clients, name : VaultNames,
          row : VaultRows, time : Times, stale : BOOLEAN]
    \cup [at : {"purge"}, client : Clients, name : VaultNames, stale : BOOLEAN]

Idle(c) == \A r \in inflight : r.client # c
Others(r) == inflight \ {r}

\* A PUT goes on to write the row, with what it was asked for.
Write(r, stale) ==
  [at |-> "write", client |-> r.client, name |-> r.name, group |-> r.group,
   policies |-> r.policies, stale |-> stale]

-------------------------------------------------------------------------------
(* What the statements read and write. *)

\* GetVault.
Live(name) == {v \in vaults : v.name = name}

\* The window closed one tick early.
RecoverableShort(name) ==
  {d \in deleted : d.name = name /\ d.purgeAt > now + 1}

\* GetDeletedVault: WHERE ... scheduled_purge_at > now.
Recoverable(name) == {d \in deleted : d.name = name /\ d.purgeAt > now}

\* A purge that, like the read before it, skips lapsed rows.
WithoutDeletedInWindow(name) ==
  {d \in deleted : d.name # name \/ d.purgeAt <= now}

\* DELETE FROM deleted_vaults WHERE name = ?: lapsed or not.
WithoutDeleted(name) == {d \in deleted : d.name # name}

\* The row a soft delete keeps, and the same without the vault's properties.
SoftDeletedEmpty(v, time) ==
  [name |-> v.name, group |-> v.group, policies |-> {}, vault |-> v.vault,
   purgeAt |-> time + Retention]
SoftDeleted(v, time) ==
  [name |-> v.name, group |-> v.group, policies |-> v.policies, vault |-> v.vault,
   purgeAt |-> time + Retention]

Recovered(d) ==
  [name |-> d.name, group |-> d.group, policies |-> d.policies, vault |-> d.vault]

\* An add that keeps only what it was given.
ApplyPolicyOpForgetful(current, incoming, kind) ==
  IF kind = "remove" THEN current \ incoming ELSE incoming

ApplyPolicyOp(current, incoming, kind) ==
  CASE kind = "add" -> current \cup incoming
    [] kind = "replace" -> incoming
    [] kind = "remove" -> current \ incoming

\* A plain insert, without the conflict clause.
UpsertBeside(v) == vaults \cup {v}

\* PutVault: an upsert on the name, group included; the row keeps its number if it is there.
Upsert(v) ==
  {u \in vaults : u.name # v.name} \cup
    (IF Live(v.name) = {} THEN {v}
     ELSE {[v EXCEPT !.vault = u.vault] : u \in Live(v.name)})

\* Request r has written the vault `name`: the others' reads of it are stale,
\* and so may r's own have been.
Written(r, rest) ==
  /\ inflight' = {IF q.name = r.name /\ q.at \notin {"look", "operation"}
                    THEN [q EXCEPT !.stale = TRUE] ELSE q : q \in rest}
  /\ conflicted' = IF r.stale THEN conflicted \cup {r.name} ELSE conflicted

\* vaultBody reports Creating as long as OperationInFlight finds one.
Creating(v) == busyUntil[<<v.name, v.group>>] > now

-------------------------------------------------------------------------------
(* PUT vaults/{name}: the group exists? the vault exists? a deleted one       *)
(* holds the name?  Then recover, or write the row and start the operation.  *)

PutVault(c, name, group, policies, mode) ==
  /\ Idle(c)
  /\ group \in groups
  /\ inflight' = inflight \cup
       {[at |-> "look", client |-> c, name |-> name, group |-> group,
         policies |-> policies, mode |-> mode, stale |-> FALSE]}
  /\ UNCHANGED <<now, tables, history>>

\* From here on the request has read something of the vault.
PutLook(r) ==
  /\ r.at = "look"
  /\ inflight' = Others(r) \cup
       {IF Live(r.name) # {} THEN Write(r, FALSE)
        ELSE [r EXCEPT !.at = "lookDeleted"]}
  /\ UNCHANGED <<now, tables, history>>

PutLookDeleted(r) ==
  /\ r.at = "lookDeleted"
  /\ \/ /\ Recoverable(r.name) # {}
        /\ r.mode = "recover"
        /\ inflight' = Others(r) \cup
             {[at |-> "recover", client |-> r.client, name |-> r.name,
               stale |-> r.stale]}
     \/ /\ Recoverable(r.name) # {}       \* 409 VaultAlreadyExists
        /\ r.mode # "recover"
        /\ inflight' = Others(r)
     \/ /\ Recoverable(r.name) = {}       \* 404 VaultNotFound
        /\ r.mode = "recover"
        /\ inflight' = Others(r)
     \/ /\ Recoverable(r.name) = {}
        /\ r.mode # "recover"
        /\ inflight' = Others(r) \cup {Write(r, r.stale)}
  /\ UNCHANGED <<now, tables, history>>

\* RecoverVault reads the row again; if it is gone the answer is a 500.
RecoverRead(r) ==
  /\ r.at = "recover"
  /\ inflight' = Others(r) \cup
       {[at |-> "recoverTx", client |-> r.client, name |-> r.name, row |-> d,
         stale |-> r.stale] : d \in Recoverable(r.name)}
  /\ UNCHANGED <<now, tables, history>>

RecoverTx(r) ==
  /\ r.at = "recoverTx"
  /\ vaults' = {v \in vaults : v.name # r.name} \cup {Recovered(r.row)}
  /\ deleted' = WithoutDeleted(r.name)
  /\ Written(r, Others(r))
  /\ UNCHANGED <<now, groups, busyUntil, born, purged>>

PutWrite(r) ==
  /\ r.at = "write"
  /\ Live(r.name) # {} \/ born < MaxBorn
  /\ vaults' = Upsert([name |-> r.name, group |-> r.group, policies |-> r.policies,
                       vault |-> born + 1])
  /\ born' = IF Live(r.name) = {} THEN born + 1 ELSE born
  /\ Written(r, Others(r) \cup
       {[at |-> "operation", client |-> r.client, name |-> r.name, group |-> r.group]})
  /\ UNCHANGED <<now, groups, deleted, busyUntil, purged>>

\* startOperation; the vault's id names its group.
PutOperation(r) ==
  /\ r.at = "operation"
  /\ busyUntil' = [busyUntil EXCEPT ![<<r.name, r.group>>] =
       IF @ > now + LRODelay THEN @ ELSE now + LRODelay]
  /\ inflight' = Others(r)
  /\ UNCHANGED <<now, groups, vaults, deleted, history>>

-------------------------------------------------------------------------------
(* PUT vaults/{name}/accessPolicies/{kind}: read, merge, write back. *)

PolicyRead(c, name, kind, objects) ==
  /\ Idle(c)
  /\ \E v \in Live(name) :
       inflight' = inflight \cup
         {[at |-> "policyWrite", client |-> c, name |-> name, kind |-> kind,
           objects |-> objects, row |-> v, stale |-> FALSE]}
  /\ UNCHANGED <<now, tables, history>>

PolicyWrite(r) ==
  /\ r.at = "policyWrite"
  /\ vaults' = Upsert([r.row EXCEPT
                 !.policies = ApplyPolicyOp(r.row.policies, r.objects, r.kind)])
  /\ Written(r, Others(r))
  /\ UNCHANGED <<now, groups, deleted, busyUntil, born, purged>>

-------------------------------------------------------------------------------
(* DELETE vaults/{name}: read the row and the clock, then move in one         *)
(* transaction what was read.                                                *)

DeleteRead(c, name) ==
  /\ Idle(c)
  /\ \E v \in Live(name) :
       inflight' = inflight \cup
         {[at |-> "deleteTx", client |-> c, name |-> name, row |-> v,
           time |-> now, stale |-> FALSE]}
  /\ UNCHANGED <<now, tables, history>>

DeleteTx(r) ==
  /\ r.at = "deleteTx"
  /\ deleted' = WithoutDeleted(r.name) \cup {SoftDeleted(r.row, r.time)}
  /\ vaults' = {v \in vaults : v.name # r.name}
  /\ Written(r, Others(r))
  /\ UNCHANGED <<now, groups, busyUntil, born, purged>>

-------------------------------------------------------------------------------
(* POST deletedVaults/{name}/purge: look inside the window, then delete by    *)
(* name; when the row went in between the answer is a 500.                   *)

PurgeLook(c, name) ==
  /\ Idle(c)
  /\ Recoverable(name) # {}
  /\ inflight' = inflight \cup
       {[at |-> "purge", client |-> c, name |-> name, stale |-> FALSE]}
  /\ UNCHANGED <<now, tables, history>>

PurgeExec(r) ==
  /\ r.at = "purge"
  /\ deleted' = WithoutDeleted(r.name)
  /\ purged' = purged \cup {d.vault : d \in {e \in deleted : e.name = r.name}}
  /\ Written(r, Others(r))
  /\ UNCHANGED <<now, groups, vaults, busyUntil, born>>

-------------------------------------------------------------------------------
(* PUT and DELETE of a resource group: one statement each.  The vaults in a   *)
(* deleted group stay, live.                                                 *)

PutGroup(group) ==
  /\ group \notin groups
  /\ groups' = groups \cup {group}
  /\ UNCHANGED <<now, vaults, deleted, busyUntil, inflight, history>>

DeleteGroup(group) ==
  /\ group \in groups
  /\ groups' = groups \ {group}
  /\ UNCHANGED <<now, vaults, deleted, busyUntil, inflight, history>>

\* Real time passes, or POST /_emulator/clock is called.
ClockMoves ==
  /\ \E t \in Times \ {now} : now' = t
  /\ UNCHANGED <<tables, inflight, history>>

\* The tables are on disk; the requests are not, and neither is the clock.
Restart ==
  /\ inflight # {}
  /\ inflight' = {}
  /\ now' \in Times
  /\ UNCHANGED <<tables, history>>

Arrive(c) ==
  \E name \in VaultNames :
    \/ \E group \in Groups, policies \in Policies, mode \in Modes :
         PutVault(c, name, group, policies, mode)
    \/ \E kind \in Kinds, objects \in Policies : PolicyRead(c, name, kind, objects)
    \/ DeleteRead(c, name)
    \/ PurgeLook(c, name)

Resume(r) ==
  \/ PutLook(r)
  \/ PutLookDeleted(r)
  \/ RecoverRead(r)
  \/ RecoverTx(r)
  \/ PutWrite(r)
  \/ PutOperation(r)
  \/ PolicyWrite(r)
  \/ DeleteTx(r)
  \/ PurgeExec(r)

Init ==
  /\ now = 0
  /\ groups = {}
  /\ vaults = {}
  /\ deleted = {}
  /\ busyUntil = [id \in VaultNames \X Groups |-> 0]
  /\ inflight = {}
  /\ born = 0
  /\ purged = {}
  /\ conflicted = {}

Next ==
  \/ \E c \in Clients : Arrive(c)
  \/ \E r \in inflight : Resume(r)
  \/ \E group \in Groups : PutGroup(group) \/ DeleteGroup(group)
  \/ ClockMoves
  \/ Restart

Spec == Init /\ [][Next]_vars

\* The controlled clock is never set back, and no restart loses an advance.
ForwardSpec == Init /\ [][Next /\ now' >= now]_vars

-------------------------------------------------------------------------------
(* Every table and request is well formed, neither table of vaults holds two *)
(* rows with one name, and a client has one request at most.                 *)
TypeOK ==
  /\ now \in Times
  /\ groups \subseteq Groups
  /\ vaults \subseteq VaultRows
  /\ deleted \subseteq DeletedRows
  /\ busyUntil \in [VaultNames \X Groups -> Nat]
  /\ inflight \subseteq Requests
  /\ born \in 0 .. MaxBorn
  /\ purged \subseteq 1 .. MaxBorn
  /\ conflicted \subseteq VaultNames
  /\ \A v, w \in vaults : v.name = w.name => v = w
  /\ \A d, e \in deleted : d.name = e.name => d = e
  /\ \A q, r \in inflight : q.client = r.client => q = r

(* What SoftDeleteVault says: a deleted vault holds its name until it is     *)
(* recovered or purged.  A vault is live or recoverable, never both.  It     *)
(* does not hold: a write that read the vault before it was deleted, or      *)
(* before it was recovered, brings the second row back.                      *)
NameHeldOnce ==
  \A v \in vaults, d \in deleted : v.name = d.name => d.purgeAt <= now

(* What vaultBody says of provisioningState: a vault that is being created   *)
(* or updated turns from Creating to Succeeded when the clock moves, and     *)
(* only then.  It does not hold: a PUT that names another resource group     *)
(* moves the row under a new id, which is not busy until its own operation   *)
(* has been recorded.                                                        *)
ClockDecidesProvisioning ==
  [][\A v \in vaults, w \in vaults' :
       v.vault = w.vault /\ Creating(v) /\ now' = now => Creating(w)']_vars

(* With a clock that is not set back, and for a name no request ever wrote   *)
(* on stale reads, soft delete, recover, purge, lapse and re-creation keep   *)
(* a vault live or recoverable, never both.                                  *)
NameHeldOnceUnlessRaced ==
  \A v \in vaults, d \in deleted :
    v.name = d.name => d.purgeAt <= now \/ v.name \in conflicted

(* Purged is purged: unless a request wrote on stale reads, a purged vault   *)
(* is in neither table, and nothing brings it back.                          *)
PurgeIsFinal ==
  \A row \in vaults \cup deleted : row.vault \in purged => row.name \in conflicted

(* Soft delete and recover move a vault whole: it arrives with the policies  *)
(* and the group it left with.                                               *)
MovesKeepContents ==
  [][\A v \in vaults \cup vaults', d \in deleted \cup deleted' :
       /\ v.name = d.name
       /\ v.name \notin conflicted'
       /\ \/ v \in vaults /\ Live(v.name)' = {} /\ d \in deleted' \ deleted
          \/ v \in vaults' /\ Live(v.name) = {} /\ d \in deleted \ deleted'
       => /\ v.policies = d.policies
          /\ v.group = d.group
          /\ v.vault = d.vault]_vars

(* An access-policy operation acts on the policies the vault has when it is  *)
(* written, and never brings a vault back, unless its read had gone stale.   *)
PolicyOpsApply ==
  [][\A r \in inflight :
       PolicyWrite(r) /\ r.name \notin conflicted' =>
         \E v \in vaults, w \in vaults' :
           /\ v.name = r.name /\ w.name = r.name
           /\ w.vault = v.vault
           /\ r.kind = "add" => w.policies = v.policies \cup r.objects
           /\ r.kind = "remove" => w.policies = v.policies \ r.objects
           /\ r.kind = "replace" => w.policies = r.objects]_vars
===============================================================================
