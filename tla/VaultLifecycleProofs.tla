------------------------ MODULE VaultLifecycleProofs ------------------------
(***************************************************************************)
(* Proofs about VaultLifecycle, for any number of clients, vaults, groups  *)
(* and policies, any retention and any delay.                              *)
(***************************************************************************)
EXTENDS VaultLifecycle, TLAPS

\* The suspended requests that have read something of their vault, and those
\* that carry the row they read.
Readers == {"lookDeleted", "recover", "recoverTx", "write", "policyWrite",
            "deleteTx", "purge"}
Carriers == {"recoverTx", "policyWrite", "deleteTx"}

(* A request carries the row of the vault it names.                          *)
CarriesItsOwn == \A r \in inflight : r.at \in Carriers => r.row.name = r.name

TypeInv == TypeOK /\ CarriesItsOwn

(* What a request has read still holds of the tables.                        *)
ReadHolds(q, live, gone, t, raced) ==
  /\ q.at \in {"lookDeleted", "recover", "recoverTx"} =>
       \A v \in live : v.name # q.name
  /\ q.at = "recoverTx" => q.row \in gone
  /\ q.at \in {"policyWrite", "deleteTx"} => q.row \in live
  /\ q.at = "write" =>
       q.name \in raced \/ \A d \in gone : d.name = q.name => d.purgeAt <= t
  /\ q.at = "purge" => q.name \in raced \/ \A v \in live : v.name # q.name

(* It does unless another request has written that vault since.              *)
FreshReads ==
  \A q \in inflight :
    q.at \in Readers /\ ~q.stale => ReadHolds(q, vaults, deleted, now, conflicted)

NameInv == TypeInv /\ FreshReads /\ NameHeldOnceUnlessRaced

-------------------------------------------------------------------------------
(* A suspended request is of one of nine kinds, with its fields typed.       *)
LEMMA RequestFields ==
  ASSUME NEW r \in Requests
  PROVE  /\ r.client \in Clients /\ r.name \in VaultNames
         /\ r.at \in Readers \cup {"look", "operation"}
         /\ r.at \in {"look", "lookDeleted"} =>
              /\ r.group \in Groups /\ r.policies \in Policies
              /\ r.mode \in Modes /\ r.stale \in BOOLEAN
              /\ r \in [at : {"look", "lookDeleted"}, client : Clients,
                        name : VaultNames, group : Groups, policies : Policies,
                        mode : Modes, stale : BOOLEAN]
         /\ r.at = "write" =>
              /\ r.group \in Groups /\ r.policies \in Policies
              /\ r.stale \in BOOLEAN
              /\ r \in [at : {"write"}, client : Clients, name : VaultNames,
                        group : Groups, policies : Policies, stale : BOOLEAN]
         /\ r.at = "operation" => r.group \in Groups
         /\ r.at = "recover" =>
              /\ r.stale \in BOOLEAN
              /\ r \in [at : {"recover"}, client : Clients, name : VaultNames,
                        stale : BOOLEAN]
         /\ r.at = "recoverTx" =>
              /\ r.row \in DeletedRows /\ r.stale \in BOOLEAN
              /\ r \in [at : {"recoverTx"}, client : Clients, name : VaultNames,
                        row : DeletedRows, stale : BOOLEAN]
         /\ r.at = "policyWrite" =>
              /\ r.row \in VaultRows /\ r.stale \in BOOLEAN
              /\ r.kind \in Kinds /\ r.objects \in Policies
              /\ r \in [at : {"policyWrite"}, client : Clients, name : VaultNames,
                        kind : Kinds, objects : Policies, row : VaultRows,
                        stale : BOOLEAN]
         /\ r.at = "deleteTx" =>
              /\ r.row \in VaultRows /\ r.stale \in BOOLEAN /\ r.time \in Times
              /\ r \in [at : {"deleteTx"}, client : Clients, name : VaultNames,
                        row : VaultRows, time : Times, stale : BOOLEAN]
         /\ r.at = "purge" =>
              /\ r.stale \in BOOLEAN
              /\ r \in [at : {"purge"}, client : Clients, name : VaultNames,
                        stale : BOOLEAN]
  BY DEF Requests, Readers

LEMMA RowFields ==
  /\ \A v \in VaultRows :
       /\ v.name \in VaultNames
       /\ v.group \in Groups
       /\ v.policies \in Policies
       /\ v.vault \in 1 .. MaxBorn
  /\ \A d \in DeletedRows :
       /\ d.name \in VaultNames
       /\ d.group \in Groups
       /\ d.policies \in Policies
       /\ d.vault \in 1 .. MaxBorn
       /\ d.purgeAt \in Nat
  BY DEF VaultRows, DeletedRows

\* What a write of the vault n does to one suspended request.
Staled(n, q) ==
  IF q.name = n /\ q.at \notin {"look", "operation"}
    THEN [q EXCEPT !.stale = TRUE] ELSE q

(* The request stays what it was, but is stale if it had read that vault.    *)
LEMMA StaledKeeps ==
  ASSUME NEW n, NEW q \in Requests
  PROVE  LET m == Staled(n, q)
         IN  /\ m \in Requests
             /\ m.client = q.client
             /\ m.at = q.at
             /\ m.name = q.name
             /\ q.at \in Carriers => m.row = q.row
             /\ q.at \in Readers => m.stale = (q.stale \/ q.name = n)
<1> DEFINE m == Staled(n, q)
           Goal == /\ m \in Requests
                   /\ m.client = q.client
                   /\ m.at = q.at
                   /\ m.name = q.name
                   /\ q.at \in Carriers => m.row = q.row
                   /\ q.at \in Readers => m.stale = (q.stale \/ q.name = n)
<1> SUFFICES Goal
  OBVIOUS
<1>1. CASE q.at \in {"look", "operation"}
  BY <1>1 DEF Staled, Carriers, Readers
<1>2. CASE q.name # n
  <2>1. m = q
    BY <1>2 DEF Staled
  <2> HIDE DEF m
  <2>2. q.at \in Readers => q.stale \in BOOLEAN
    BY RequestFields DEF Readers
  <2> QED
    BY <1>2, <2>1, <2>2
<1>3. CASE q.name = n /\ q.at \notin {"look", "operation"}
  <2>1. m = [q EXCEPT !.stale = TRUE]
    BY <1>3 DEF Staled
  <2>2. ASSUME NEW S, q \in S, m \in S, S \subseteq Requests,
               m.client = q.client, m.at = q.at, m.name = q.name,
               m.stale, q.at \in Carriers => m.row = q.row
        PROVE  Goal
    BY <1>3, <2>2
  <2> HIDE DEF m
  <2>3. CASE q.at = "lookDeleted"
    <3> DEFINE S == [at : {"look", "lookDeleted"}, client : Clients,
                     name : VaultNames, group : Groups, policies : Policies,
                     mode : Modes, stale : BOOLEAN]
    <3>1. q \in S
      BY <2>3, RequestFields
    <3>2. m \in S
      BY <2>1, <3>1
    <3>3. /\ m.client = q.client /\ m.at = q.at /\ m.name = q.name
          /\ m.stale
      BY <2>1, <3>1
    <3>4. S \subseteq Requests
      BY DEF Requests
    <3> HIDE DEF S
    <3> QED
      BY <2>3, <2>2, <3>1, <3>2, <3>3, <3>4 DEF Carriers
  <2>4. CASE q.at = "write"
    <3> DEFINE S == [at : {"write"}, client : Clients, name : VaultNames,
                     group : Groups, policies : Policies, stale : BOOLEAN]
    <3>1. q \in S
      BY <2>4, RequestFields
    <3>2. m \in S
      BY <2>1, <3>1
    <3>3. /\ m.client = q.client /\ m.at = q.at /\ m.name = q.name
          /\ m.stale
      BY <2>1, <3>1
    <3>4. S \subseteq Requests
      BY DEF Requests
    <3> HIDE DEF S
    <3> QED
      BY <2>4, <2>2, <3>1, <3>2, <3>3, <3>4 DEF Carriers
  <2>5. CASE q.at = "recover"
    <3> DEFINE S == [at : {"recover"}, client : Clients, name : VaultNames,
                     stale : BOOLEAN]
    <3>1. q \in S
      BY <2>5, RequestFields
    <3>2. m \in S
      BY <2>1, <3>1
    <3>3. /\ m.client = q.client /\ m.at = q.at /\ m.name = q.name
          /\ m.stale
      BY <2>1, <3>1
    <3>4. S \subseteq Requests
      BY DEF Requests
    <3> HIDE DEF S
    <3> QED
      BY <2>5, <2>2, <3>1, <3>2, <3>3, <3>4 DEF Carriers
  <2>6. CASE q.at = "recoverTx"
    <3> DEFINE S == [at : {"recoverTx"}, client : Clients, name : VaultNames,
                     row : DeletedRows, stale : BOOLEAN]
    <3>1. q \in S
      BY <2>6, RequestFields
    <3>2. m \in S
      BY <2>1, <3>1
    <3>3. /\ m.client = q.client /\ m.at = q.at /\ m.name = q.name
          /\ m.stale /\ m.row = q.row
      BY <2>1, <3>1
    <3>4. S \subseteq Requests
      BY DEF Requests
    <3> HIDE DEF S
    <3> QED
      BY <2>6, <2>2, <3>1, <3>2, <3>3, <3>4 DEF Carriers
  <2>7. CASE q.at = "policyWrite"
    <3> DEFINE S == [at : {"policyWrite"}, client : Clients, name : VaultNames,
                     kind : Kinds, objects : Policies, row : VaultRows,
                     stale : BOOLEAN]
    <3>1. q \in S
      BY <2>7, RequestFields
    <3>2. m \in S
      BY <2>1, <3>1
    <3>3. /\ m.client = q.client /\ m.at = q.at /\ m.name = q.name
          /\ m.stale /\ m.row = q.row
      BY <2>1, <3>1
    <3>4. S \subseteq Requests
      BY DEF Requests
    <3> HIDE DEF S
    <3> QED
      BY <2>7, <2>2, <3>1, <3>2, <3>3, <3>4 DEF Carriers
  <2>8. CASE q.at = "deleteTx"
    <3> DEFINE S == [at : {"deleteTx"}, client : Clients, name : VaultNames,
                     row : VaultRows, time : Times, stale : BOOLEAN]
    <3>1. q \in S
      BY <2>8, RequestFields
    <3>2. m \in S
      BY <2>1, <3>1
    <3>3. /\ m.client = q.client /\ m.at = q.at /\ m.name = q.name
          /\ m.stale /\ m.row = q.row
      BY <2>1, <3>1
    <3>4. S \subseteq Requests
      BY DEF Requests
    <3> HIDE DEF S
    <3> QED
      BY <2>8, <2>2, <3>1, <3>2, <3>3, <3>4 DEF Carriers
  <2>9. CASE q.at = "purge"
    <3> DEFINE S == [at : {"purge"}, client : Clients, name : VaultNames,
                     stale : BOOLEAN]
    <3>1. q \in S
      BY <2>9, RequestFields
    <3>2. m \in S
      BY <2>1, <3>1
    <3>3. /\ m.client = q.client /\ m.at = q.at /\ m.name = q.name
          /\ m.stale
      BY <2>1, <3>1
    <3>4. S \subseteq Requests
      BY DEF Requests
    <3> HIDE DEF S
    <3> QED
      BY <2>9, <2>2, <3>1, <3>2, <3>3, <3>4 DEF Carriers
  <2> QED
    BY <1>3, <2>3, <2>4, <2>5, <2>6, <2>7, <2>8, <2>9, RequestFields DEF Readers
<1> QED
  BY <1>1, <1>2, <1>3
-------------------------------------------------------------------------------
(* The name is the key: a row of a name is the row of the name.              *)
LEMMA LiveRow ==
  ASSUME TypeOK, NEW v \in vaults
  PROVE  Live(v.name) = {v}
  BY DEF TypeOK, Live

(* PutVault replaces the row of the name, which keeps its number if it was   *)
(* there, by one with the group and policies of the request.                 *)
LEMMA UpsertShape ==
  ASSUME TypeOK, NEW name \in VaultNames, NEW group \in Groups,
         NEW policies \in Policies, NEW number \in Nat,
         Live(name) = {} => number \in 1 .. MaxBorn
  PROVE  \E new \in VaultRows :
           /\ new.name = name
           /\ new.group = group
           /\ new.policies = policies
           /\ Upsert([name |-> name, group |-> group, policies |-> policies,
                      vault |-> number])
                = {u \in vaults : u.name # name} \cup {new}
           /\ \/ Live(name) = {} /\ new.vault = number
              \/ \E u \in vaults : u.name = name /\ new.vault = u.vault
<1> DEFINE v == [name |-> name, group |-> group, policies |-> policies,
                 vault |-> number]
<1>1. CASE Live(name) = {}
  <2>1. v \in VaultRows
    BY <1>1 DEF VaultRows
  <2>2. Upsert(v) = {u \in vaults : u.name # name} \cup {v}
    BY <1>1 DEF Upsert
  <2> QED
    BY <1>1, <2>1, <2>2
<1>2. CASE Live(name) # {}
  <2>1. PICK u \in vaults : u.name = name
    BY <1>2 DEF Live
  <2> DEFINE new == [v EXCEPT !.vault = u.vault]
  <2>2. new = [name |-> name, group |-> group, policies |-> policies,
               vault |-> u.vault]
    OBVIOUS
  <2>3. u.vault \in 1 .. MaxBorn
    BY RowFields DEF TypeOK
  <2>4. /\ new \in VaultRows
        /\ new.name = name
        /\ new.group = group
        /\ new.policies = policies
        /\ new.vault = u.vault
    BY <2>2, <2>3 DEF VaultRows
  <2>5. Live(name) = {u}
    BY <2>1, LiveRow
  <2>6. Upsert(v) = {w \in vaults : w.name # name} \cup {new}
    BY <1>2, <2>5 DEF Upsert
  <2> HIDE DEF new
  <2> QED
    BY <2>1, <2>4, <2>6
<1> QED
  BY <1>1, <1>2

(* An access-policy write puts the row its request has read back, with the   *)
(* policies merged.                                                          *)
LEMMA PolicyWriteShape ==
  ASSUME TypeInv, NEW r \in inflight, PolicyWrite(r)
  PROVE  \E new \in VaultRows :
           /\ new.name = r.name
           /\ new.group = r.row.group
           /\ new.policies = ApplyPolicyOp(r.row.policies, r.objects, r.kind)
           /\ vaults' = {u \in vaults : u.name # r.name} \cup {new}
           /\ \/ Live(r.name) = {} /\ new.vault = r.row.vault
              \/ \E u \in vaults : u.name = r.name /\ new.vault = u.vault
<1> DEFINE policies == ApplyPolicyOp(r.row.policies, r.objects, r.kind)
           v == [name |-> r.name, group |-> r.row.group, policies |-> policies,
                 vault |-> r.row.vault]
<1>0. TypeOK /\ r \in Requests
  BY DEF TypeInv, TypeOK
<1>1. /\ r.row \in VaultRows /\ r.row.name = r.name /\ r.name \in VaultNames
      /\ r.kind \in Kinds /\ r.objects \in Policies
  BY <1>0, RequestFields DEF PolicyWrite, TypeInv, CarriesItsOwn, Carriers
<1>2. /\ r.row.group \in Groups /\ r.row.policies \in Policies
      /\ r.row.vault \in 1 .. MaxBorn
  BY <1>1, RowFields
<1>3. policies \in Policies
  BY <1>1, <1>2 DEF ApplyPolicyOp, Kinds, Policies
<1>4. vaults' = Upsert([r.row EXCEPT !.policies = policies])
  BY DEF PolicyWrite
<1> HIDE DEF policies
<1>5. [r.row EXCEPT !.policies = policies] = v
  BY <1>1 DEF VaultRows
<1>6. r.row.vault \in Nat
  BY <1>2, VaultAssumption
<1>7. PICK new \in VaultRows :
        /\ new.name = r.name
        /\ new.group = r.row.group
        /\ new.policies = policies
        /\ Upsert(v) = {u \in vaults : u.name # r.name} \cup {new}
        /\ \/ Live(r.name) = {} /\ new.vault = r.row.vault
           \/ \E u \in vaults : u.name = r.name /\ new.vault = u.vault
  BY <1>0, <1>1, <1>2, <1>3, <1>6, UpsertShape
<1> QED
  BY <1>4, <1>5, <1>7 DEF policies

(* A write of a vault stales the reads of its name and of no other.          *)
LEMMA WrittenShape ==
  ASSUME NEW r, NEW rest \in SUBSET Requests, Written(r, rest)
  PROVE  /\ inflight' \subseteq Requests
         /\ \A m \in inflight' :
              \E q \in rest :
                /\ m.client = q.client
                /\ m.at = q.at
                /\ m.name = q.name
                /\ q.at \in Carriers => m.row = q.row
                /\ q.at \in Readers => m.stale = (q.stale \/ q.name = r.name)
         /\ (\A a, b \in rest : a.client = b.client => a = b) =>
              \A a, b \in inflight' : a.client = b.client => a = b
         /\ conflicted \subseteq conflicted'
         /\ conflicted' \subseteq conflicted \cup {r.name}
         /\ r.stale => r.name \in conflicted'
<1>1. inflight' = {Staled(r.name, q) : q \in rest}
  BY DEF Written, Staled
<1>2. /\ conflicted \subseteq conflicted'
      /\ conflicted' \subseteq conflicted \cup {r.name}
      /\ r.stale => r.name \in conflicted'
  BY DEF Written
<1> QED
  BY <1>1, <1>2, StaledKeeps

TableWrite(r) ==
  RecoverTx(r) \/ PutWrite(r) \/ PolicyWrite(r) \/ DeleteTx(r) \/ PurgeExec(r)

(* Every write of the tables is by a request that has read its vault, leaves *)
(* every other vault as it is, and keeps the name the key of both tables.    *)
LEMMA TableWriteShape ==
  ASSUME TypeInv, NEW r \in inflight, TableWrite(r)
  PROVE  /\ r \in Requests /\ r.at \in Readers
         /\ \E rest \in SUBSET Requests :
              /\ Written(r, rest)
              /\ \A a, b \in rest : a.client = b.client => a = b
              /\ \A q \in rest : q \in Others(r) \/ q.at = "operation"
         /\ \A v : v.name # r.name => (v \in vaults' <=> v \in vaults)
         /\ \A d : d.name # r.name => (d \in deleted' <=> d \in deleted)
         /\ vaults' \subseteq VaultRows
         /\ deleted' \subseteq DeletedRows
         /\ \A v, w \in vaults' : v.name = w.name => v = w
         /\ \A d, e \in deleted' : d.name = e.name => d = e
         /\ UNCHANGED <<now, groups, busyUntil>>
<1> DEFINE Goal ==
      /\ r.at \in Readers
      /\ \E rest \in SUBSET Requests :
           /\ Written(r, rest)
           /\ \A a, b \in rest : a.client = b.client => a = b
           /\ \A q \in rest : q \in Others(r) \/ q.at = "operation"
      /\ \A v : v.name # r.name => (v \in vaults' <=> v \in vaults)
      /\ \A d : d.name # r.name => (d \in deleted' <=> d \in deleted)
      /\ vaults' \subseteq VaultRows
      /\ deleted' \subseteq DeletedRows
      /\ \A v, w \in vaults' : v.name = w.name => v = w
      /\ \A d, e \in deleted' : d.name = e.name => d = e
      /\ UNCHANGED <<now, groups, busyUntil>>
<1>0. /\ TypeOK /\ CarriesItsOwn /\ r \in Requests
      /\ vaults \subseteq VaultRows /\ deleted \subseteq DeletedRows
      /\ \A v, w \in vaults : v.name = w.name => v = w
      /\ \A d, e \in deleted : d.name = e.name => d = e
  BY DEF TypeInv, TypeOK
<1>1. /\ Others(r) \in SUBSET Requests
      /\ \A a, b \in Others(r) : a.client = b.client => a = b
      /\ \A a \in Others(r) : a.client # r.client
  BY <1>0 DEF TypeOK, Others
<1>2. CASE RecoverTx(r)
  <2>1. r.at = "recoverTx" /\ r.row \in DeletedRows /\ r.row.name = r.name
    BY <1>0, <1>2, RequestFields DEF RecoverTx, CarriesItsOwn, Carriers
  <2> DEFINE new == Recovered(r.row)
  <2>2. new \in VaultRows /\ new.name = r.name
    BY <2>1, RowFields DEF Recovered, VaultRows
  <2>3. /\ vaults' = {v \in vaults : v.name # r.name} \cup {new}
        /\ deleted' = {d \in deleted : d.name # r.name}
        /\ Written(r, Others(r))
        /\ UNCHANGED <<now, groups, busyUntil>>
    BY <1>2 DEF RecoverTx, WithoutDeleted
  <2> HIDE DEF new
  <2>4. Goal
    BY <1>0, <1>1, <2>1, <2>2, <2>3 DEF Readers
  <2> QED
    BY <1>0, <2>4
<1>3. CASE PutWrite(r)
  <2>1. r.at = "write" /\ r.name \in VaultNames /\ r.group \in Groups
          /\ r.policies \in Policies /\ r.client \in Clients
    BY <1>0, <1>3, RequestFields DEF PutWrite
  <2>2. /\ born + 1 \in Nat
        /\ Live(r.name) = {} => born + 1 \in 1 .. MaxBorn
    BY <1>0, <1>3, VaultAssumption DEF TypeOK, PutWrite
  <2> DEFINE q == [at |-> "operation", client |-> r.client, name |-> r.name,
                   group |-> r.group]
             rest == Others(r) \cup {q}
  <2>3. PICK new \in VaultRows :
          /\ new.name = r.name
          /\ vaults' = {u \in vaults : u.name # r.name} \cup {new}
    BY <1>0, <1>3, <2>1, <2>2, UpsertShape DEF PutWrite
  <2>4. q \in Requests /\ q.at = "operation" /\ q.client = r.client
    BY <2>1 DEF Requests
  <2>5. Written(r, rest) /\ UNCHANGED <<now, groups, deleted, busyUntil>>
    BY <1>3 DEF PutWrite
  <2> HIDE DEF q
  <2>6. /\ rest \in SUBSET Requests
        /\ \A a, b \in rest : a.client = b.client => a = b
        /\ \A p \in rest : p \in Others(r) \/ p.at = "operation"
    BY <1>1, <2>4
  <2> HIDE DEF rest
  <2>7. Goal
    BY <1>0, <2>1, <2>3, <2>5, <2>6 DEF Readers
  <2> QED
    BY <1>0, <2>7
<1>4. CASE PolicyWrite(r)
  <2>1. /\ r.at = "policyWrite" /\ r.row \in VaultRows /\ r.row.name = r.name
        /\ r.objects \in Policies
    BY <1>0, <1>4, RequestFields DEF PolicyWrite, CarriesItsOwn, Carriers
  <2>2. PICK new \in VaultRows :
          /\ new.name = r.name
          /\ vaults' = {u \in vaults : u.name # r.name} \cup {new}
    BY <1>0, <1>4, <2>1, PolicyWriteShape
  <2>3. Written(r, Others(r)) /\ UNCHANGED <<now, groups, deleted, busyUntil>>
    BY <1>4 DEF PolicyWrite
  <2>4. Goal
    BY <1>0, <1>1, <2>1, <2>2, <2>3 DEF Readers
  <2> QED
    BY <1>0, <2>4
<1>5. CASE DeleteTx(r)
  <2>1. /\ r.at = "deleteTx" /\ r.row \in VaultRows /\ r.row.name = r.name
        /\ r.time \in Times
    BY <1>0, <1>5, RequestFields DEF DeleteTx, CarriesItsOwn, Carriers
  <2> DEFINE new == SoftDeleted(r.row, r.time)
  <2>2. new \in DeletedRows /\ new.name = r.name
    <3>1. r.time + Retention \in Nat
      BY <2>1, VaultAssumption DEF Times
    <3> QED
      BY <2>1, <3>1, RowFields DEF SoftDeleted, DeletedRows
  <2>3. /\ deleted' = {d \in deleted : d.name # r.name} \cup {new}
        /\ vaults' = {v \in vaults : v.name # r.name}
        /\ Written(r, Others(r))
        /\ UNCHANGED <<now, groups, busyUntil>>
    BY <1>5 DEF DeleteTx, WithoutDeleted
  <2> HIDE DEF new
  <2>4. Goal
    BY <1>0, <1>1, <2>1, <2>2, <2>3 DEF Readers
  <2> QED
    BY <1>0, <2>4
<1>6. CASE PurgeExec(r)
  <2>1. /\ r.at = "purge"
        /\ deleted' = {d \in deleted : d.name # r.name}
        /\ Written(r, Others(r))
        /\ UNCHANGED <<now, groups, vaults, busyUntil>>
    BY <1>6 DEF PurgeExec, WithoutDeleted
  <2>2. Goal
    BY <1>0, <1>1, <2>1 DEF Readers
  <2> QED
    BY <1>0, <2>2
<1> QED
  BY <1>2, <1>3, <1>4, <1>5, <1>6 DEF TableWrite

(* An arrival adds one request of an idle client: a PUT, or a request that   *)
(* has just read the live row of its vault, or found a recoverable one.      *)
LEMMA ArriveShape ==
  ASSUME TypeOK, NEW c \in Clients, Arrive(c)
  PROVE  /\ UNCHANGED <<now, tables, history>>
         /\ Idle(c)
         /\ \E q \in Requests :
              /\ q.client = c
              /\ \/ q.at = "look"
                 \/ /\ q.at \in {"policyWrite", "deleteTx"}
                    /\ q.row \in vaults /\ q.row.name = q.name
                 \/ q.at = "purge" /\ Recoverable(q.name) # {}
              /\ inflight' = inflight \cup {q}
<1> DEFINE Goal ==
      /\ UNCHANGED <<now, tables, history>>
      /\ Idle(c)
      /\ \E q \in Requests :
           /\ q.client = c
           /\ \/ q.at = "look"
              \/ /\ q.at \in {"policyWrite", "deleteTx"}
                 /\ q.row \in vaults /\ q.row.name = q.name
              \/ q.at = "purge" /\ Recoverable(q.name) # {}
           /\ inflight' = inflight \cup {q}
<1>1. ASSUME NEW name \in VaultNames, NEW group \in Groups,
             NEW policies \in Policies, NEW mode \in Modes,
             PutVault(c, name, group, policies, mode)
      PROVE  Goal
  <2> DEFINE q == [at |-> "look", client |-> c, name |-> name, group |-> group,
                   policies |-> policies, mode |-> mode, stale |-> FALSE]
  <2>1. q \in Requests /\ q.client = c /\ q.at = "look"
    BY DEF Requests
  <2>2. Idle(c) /\ inflight' = inflight \cup {q} /\ UNCHANGED <<now, tables, history>>
    BY <1>1 DEF PutVault
  <2> HIDE DEF q
  <2> QED
    BY <2>1, <2>2
<1>2. ASSUME NEW name \in VaultNames, NEW kind \in Kinds, NEW objects \in Policies,
             PolicyRead(c, name, kind, objects)
      PROVE  Goal
  <2>1. PICK v \in Live(name) :
          inflight' = inflight \cup
            {[at |-> "policyWrite", client |-> c, name |-> name, kind |-> kind,
              objects |-> objects, row |-> v, stale |-> FALSE]}
    BY <1>2 DEF PolicyRead
  <2> DEFINE q == [at |-> "policyWrite", client |-> c, name |-> name, kind |-> kind,
                   objects |-> objects, row |-> v, stale |-> FALSE]
  <2>2. v \in vaults /\ v.name = name /\ v \in VaultRows
    BY DEF Live, TypeOK
  <2>3. /\ q \in Requests /\ q.client = c /\ q.at = "policyWrite"
        /\ q.row = v /\ q.name = name
    BY <2>2 DEF Requests
  <2>4. Idle(c) /\ inflight' = inflight \cup {q} /\ UNCHANGED <<now, tables, history>>
    BY <1>2, <2>1 DEF PolicyRead
  <2> HIDE DEF q
  <2> QED
    BY <2>2, <2>3, <2>4
<1>3. ASSUME NEW name \in VaultNames, DeleteRead(c, name) PROVE Goal
  <2>1. PICK v \in Live(name) :
          inflight' = inflight \cup
            {[at |-> "deleteTx", client |-> c, name |-> name, row |-> v,
              time |-> now, stale |-> FALSE]}
    BY <1>3 DEF DeleteRead
  <2> DEFINE q == [at |-> "deleteTx", client |-> c, name |-> name, row |-> v,
                   time |-> now, stale |-> FALSE]
  <2>2. v \in vaults /\ v.name = name /\ v \in VaultRows /\ now \in Times
    BY DEF Live, TypeOK
  <2>3. /\ q \in Requests /\ q.client = c /\ q.at = "deleteTx"
        /\ q.row = v /\ q.name = name
    BY <2>2 DEF Requests
  <2>4. Idle(c) /\ inflight' = inflight \cup {q} /\ UNCHANGED <<now, tables, history>>
    BY <1>3, <2>1 DEF DeleteRead
  <2> HIDE DEF q
  <2> QED
    BY <2>2, <2>3, <2>4
<1>4. ASSUME NEW name \in VaultNames, PurgeLook(c, name) PROVE Goal
  <2> DEFINE q == [at |-> "purge", client |-> c, name |-> name, stale |-> FALSE]
  <2>1. q \in Requests /\ q.client = c /\ q.at = "purge" /\ q.name = name
    BY DEF Requests
  <2>2. /\ Idle(c) /\ inflight' = inflight \cup {q} /\ UNCHANGED <<now, tables, history>>
        /\ Recoverable(name) # {}
    BY <1>4 DEF PurgeLook
  <2> HIDE DEF q
  <2> QED
    BY <2>1, <2>2
<1> QED
  BY <1>1, <1>2, <1>3, <1>4 DEF Arrive

Look(r) == PutLook(r) \/ PutLookDeleted(r) \/ RecoverRead(r)

(* The next read of a PUT ends it, or lets it go on knowing what it has read.*)
LEMMA LookShape ==
  ASSUME TypeOK, NEW r \in inflight, Look(r)
  PROVE  /\ UNCHANGED <<now, tables, history>>
         /\ \/ inflight' = Others(r)
            \/ \E q \in Requests :
                 /\ q.client = r.client
                 /\ q.name = r.name
                 /\ inflight' = Others(r) \cup {q}
                 /\ \/ q.at = "lookDeleted" /\ Live(r.name) = {}
                    \/ q.at = "write" /\ Live(r.name) # {}
                    \/ q.at = "write" /\ Recoverable(r.name) = {}
                    \/ q.at = "recover" /\ r.at = "lookDeleted" /\ q.stale = r.stale
                    \/ /\ q.at = "recoverTx" /\ r.at = "recover" /\ q.stale = r.stale
                       /\ q.row \in deleted /\ q.row.name = r.name
<1> DEFINE Goal ==
      \/ inflight' = Others(r)
      \/ \E q \in Requests :
           /\ q.client = r.client
           /\ q.name = r.name
           /\ inflight' = Others(r) \cup {q}
           /\ \/ q.at = "lookDeleted" /\ Live(r.name) = {}
              \/ q.at = "write" /\ Live(r.name) # {}
              \/ q.at = "write" /\ Recoverable(r.name) = {}
              \/ q.at = "recover" /\ r.at = "lookDeleted" /\ q.stale = r.stale
              \/ /\ q.at = "recoverTx" /\ r.at = "recover" /\ q.stale = r.stale
                 /\ q.row \in deleted /\ q.row.name = r.name
<1>4. UNCHANGED <<now, tables, history>>
  BY DEF Look, PutLook, PutLookDeleted, RecoverRead
<1> SUFFICES Goal
  BY <1>4
<1>0. r \in Requests /\ deleted \subseteq DeletedRows
  BY DEF TypeOK
<1>1. CASE PutLook(r)
  <2>1. /\ r.at = "look"
        /\ r \in [at : {"look", "lookDeleted"}, client : Clients, name : VaultNames,
                  group : Groups, policies : Policies, mode : Modes, stale : BOOLEAN]
    BY <1>0, <1>1, RequestFields DEF PutLook
  <2>2. CASE Live(r.name) # {}
    <3> DEFINE q == Write(r, FALSE)
    <3>1. q \in Requests /\ q.client = r.client /\ q.name = r.name /\ q.at = "write"
      BY <2>1 DEF Write, Requests
    <3>2. inflight' = Others(r) \cup {q}
      BY <1>1, <2>2 DEF PutLook
    <3> HIDE DEF q
    <3> QED
      BY <2>2, <3>1, <3>2
  <2>3. CASE Live(r.name) = {}
    <3> DEFINE q == [r EXCEPT !.at = "lookDeleted"]
    <3>1. /\ q \in [at : {"look", "lookDeleted"}, client : Clients, name : VaultNames,
                    group : Groups, policies : Policies, mode : Modes, stale : BOOLEAN]
          /\ q.client = r.client /\ q.name = r.name /\ q.at = "lookDeleted"
      BY <2>1
    <3>2. inflight' = Others(r) \cup {q}
      BY <1>1, <2>3 DEF PutLook
    <3> HIDE DEF q
    <3>3. q \in Requests
      BY <3>1 DEF Requests
    <3> QED
      BY <2>3, <3>1, <3>2, <3>3
  <2> QED
    BY <2>2, <2>3
<1>2. CASE PutLookDeleted(r)
  <2>1. /\ r.at = "lookDeleted" /\ r.client \in Clients /\ r.name \in VaultNames
        /\ r.group \in Groups /\ r.policies \in Policies /\ r.stale \in BOOLEAN
    BY <1>0, <1>2, RequestFields DEF PutLookDeleted
  <2>2. \/ inflight' = Others(r)
        \/ inflight' = Others(r) \cup
             {[at |-> "recover", client |-> r.client, name |-> r.name,
               stale |-> r.stale]}
        \/ Recoverable(r.name) = {} /\ inflight' = Others(r) \cup {Write(r, r.stale)}
    BY <1>2 DEF PutLookDeleted
  <2>3. CASE inflight' = Others(r) \cup
               {[at |-> "recover", client |-> r.client, name |-> r.name,
                 stale |-> r.stale]}
    <3> DEFINE q == [at |-> "recover", client |-> r.client, name |-> r.name,
                     stale |-> r.stale]
    <3>1. /\ q \in Requests /\ q.client = r.client /\ q.name = r.name
          /\ q.at = "recover" /\ q.stale = r.stale
      BY <2>1 DEF Requests
    <3> HIDE DEF q
    <3>2. inflight' = Others(r) \cup {q}
      BY <2>3 DEF q
    <3> QED
      BY <2>1, <3>1, <3>2
  <2>4. CASE Recoverable(r.name) = {} /\ inflight' = Others(r) \cup {Write(r, r.stale)}
    <3> DEFINE q == Write(r, r.stale)
    <3>1. q \in Requests /\ q.client = r.client /\ q.name = r.name /\ q.at = "write"
      BY <2>1 DEF Write, Requests
    <3>2. inflight' = Others(r) \cup {q}
      BY <2>4
    <3> HIDE DEF q
    <3> QED
      BY <2>4, <3>1, <3>2
  <2> QED
    BY <2>2, <2>3, <2>4
<1>3. CASE RecoverRead(r)
  <2>1. /\ r.at = "recover" /\ r.client \in Clients /\ r.name \in VaultNames
        /\ r.stale \in BOOLEAN
    BY <1>0, <1>3, RequestFields DEF RecoverRead
  <2>2. inflight' = Others(r) \cup
          {[at |-> "recoverTx", client |-> r.client, name |-> r.name, row |-> d,
            stale |-> r.stale] : d \in Recoverable(r.name)}
    BY <1>3 DEF RecoverRead
  <2>3. CASE Recoverable(r.name) = {}
    BY <2>2, <2>3
  <2>4. ASSUME NEW d \in Recoverable(r.name) PROVE Goal
    <3>1. d \in deleted /\ d.name = r.name /\ Recoverable(r.name) = {d}
      BY DEF Recoverable, TypeOK
    <3> DEFINE q == [at |-> "recoverTx", client |-> r.client, name |-> r.name,
                     row |-> d, stale |-> r.stale]
    <3>2. /\ q \in Requests /\ q.client = r.client /\ q.name = r.name
          /\ q.at = "recoverTx" /\ q.stale = r.stale /\ q.row = d
      BY <1>0, <2>1, <3>1 DEF Requests
    <3>3. inflight' = Others(r) \cup {q}
      BY <2>2, <3>1
    <3> HIDE DEF q
    <3> QED
      BY <2>1, <3>1, <3>2, <3>3
  <2> QED
    BY <2>3, <2>4
<1> QED
  BY <1>1, <1>2, <1>3 DEF Look

-------------------------------------------------------------------------------
LEMMA NextTypeInv == TypeInv /\ [Next]_vars => TypeInv'
<1> SUFFICES ASSUME TypeInv, [Next]_vars PROVE TypeInv'
  OBVIOUS
<1>0. TypeOK /\ CarriesItsOwn
  BY DEF TypeInv
<1>1. ASSUME UNCHANGED <<tables, history>>, now' \in Times,
             inflight' \subseteq Requests,
             \A a, b \in inflight' : a.client = b.client => a = b,
             CarriesItsOwn'
      PROVE  TypeInv'
  BY <1>0, <1>1 DEF TypeInv, TypeOK, tables, history
<1>2. ASSUME NEW c \in Clients, Arrive(c) PROVE TypeInv'
  <2>1. UNCHANGED <<now, tables, history>> /\ Idle(c)
    BY <1>0, <1>2, ArriveShape
  <2>2. PICK q \in Requests :
          /\ q.client = c
          /\ q.at \in Carriers => q.row.name = q.name
          /\ inflight' = inflight \cup {q}
    BY <1>0, <1>2, ArriveShape DEF Carriers
  <2>3. inflight' \subseteq Requests /\ now' \in Times
    BY <1>0, <2>1, <2>2 DEF TypeOK
  <2>4. \A a, b \in inflight' : a.client = b.client => a = b
    BY <1>0, <2>1, <2>2 DEF TypeOK, Idle
  <2>5. CarriesItsOwn'
    BY <1>0, <2>2 DEF CarriesItsOwn
  <2> QED
    BY <1>1, <2>1, <2>3, <2>4, <2>5
<1>3. ASSUME NEW r \in inflight, Look(r) PROVE TypeInv'
  <2>1. UNCHANGED <<now, tables, history>>
    BY <1>0, <1>3, LookShape
  <2>2. CASE inflight' = Others(r)
    BY <1>0, <1>1, <2>1, <2>2 DEF TypeOK, CarriesItsOwn, Others
  <2>3. CASE inflight' # Others(r)
    <3>1. PICK q \in Requests :
            /\ q.client = r.client
            /\ q.name = r.name
            /\ inflight' = Others(r) \cup {q}
            /\ q.at \in Carriers => q.row.name = r.name
      BY <1>0, <1>3, <2>3, LookShape DEF Carriers
    <3>2. inflight' \subseteq Requests /\ now' \in Times
      BY <1>0, <2>1, <3>1 DEF TypeOK, Others
    <3>3. \A a, b \in inflight' : a.client = b.client => a = b
      BY <1>0, <3>1 DEF TypeOK, Others
    <3>4. CarriesItsOwn'
      BY <1>0, <3>1 DEF CarriesItsOwn, Others
    <3> QED
      BY <1>1, <2>1, <3>2, <3>3, <3>4
  <2> QED
    BY <2>2, <2>3
<1>4. ASSUME NEW r \in inflight, TableWrite(r) PROVE TypeInv'
  <2>1. /\ r \in Requests
        /\ vaults' \subseteq VaultRows
        /\ deleted' \subseteq DeletedRows
        /\ \A v, w \in vaults' : v.name = w.name => v = w
        /\ \A d, e \in deleted' : d.name = e.name => d = e
        /\ UNCHANGED <<now, groups, busyUntil>>
    BY <1>4, TableWriteShape
  <2>2. PICK rest \in SUBSET Requests :
          /\ Written(r, rest)
          /\ \A a, b \in rest : a.client = b.client => a = b
          /\ \A q \in rest : q \in Others(r) \/ q.at = "operation"
    BY <1>4, TableWriteShape
  <2>3. /\ inflight' \subseteq Requests
        /\ \A a, b \in inflight' : a.client = b.client => a = b
        /\ conflicted' \subseteq conflicted \cup {r.name}
    BY <2>2, WrittenShape
  <2>4. born' \in 0 .. MaxBorn /\ purged' \subseteq 1 .. MaxBorn
    <3>1. \A d \in deleted : d.vault \in 1 .. MaxBorn
      BY <1>0, RowFields DEF TypeOK
    <3> QED
      BY <1>0, <1>4, <3>1, VaultAssumption
         DEF TableWrite, TypeOK, RecoverTx, PutWrite, PolicyWrite, DeleteTx, PurgeExec
  <2>5. CarriesItsOwn'
    <3> SUFFICES ASSUME NEW m \in inflight', m.at \in Carriers
                 PROVE  m.row.name = m.name
      BY DEF CarriesItsOwn
    <3>1. PICK q \in rest : /\ m.at = q.at /\ m.name = q.name
                            /\ q.at \in Carriers => m.row = q.row
      BY <2>2, WrittenShape
    <3>2. q \in inflight
      BY <2>2, <3>1 DEF Others, Carriers
    <3> QED
      BY <1>0, <3>1, <3>2 DEF CarriesItsOwn
  <2>6. r.name \in VaultNames
    BY <2>1, RequestFields
  <2> QED
    BY <1>0, <2>1, <2>3, <2>4, <2>5, <2>6 DEF TypeInv, TypeOK
<1>5. ASSUME NEW r \in inflight, PutOperation(r) PROVE TypeInv'
  <2>1. r.name \in VaultNames /\ r.group \in Groups
    BY <1>0, <1>5, RequestFields DEF TypeOK, PutOperation
  <2> DEFINE id == <<r.name, r.group>>
             t == IF busyUntil[id] > now + LRODelay THEN busyUntil[id] ELSE now + LRODelay
  <2>2. busyUntil \in [VaultNames \X Groups -> Nat] /\ id \in VaultNames \X Groups
          /\ now \in Nat
    BY <1>0, <2>1, VaultAssumption DEF TypeOK, Times
  <2>3. t \in Nat
    BY <2>2, VaultAssumption
  <2>4. busyUntil' = [busyUntil EXCEPT ![id] = t]
    BY <1>5 DEF PutOperation
  <2> HIDE DEF t, id
  <2>5. busyUntil' \in [VaultNames \X Groups -> Nat]
    BY <2>2, <2>3, <2>4
  <2>6. inflight' = Others(r) /\ UNCHANGED <<now, groups, vaults, deleted, history>>
    BY <1>5 DEF PutOperation
  <2> QED
    BY <1>0, <2>5, <2>6 DEF TypeInv, TypeOK, CarriesItsOwn, Others, history
<1>6. ASSUME NEW group \in Groups, PutGroup(group) \/ DeleteGroup(group)
      PROVE  TypeInv'
  BY <1>0, <1>6 DEF TypeInv, TypeOK, CarriesItsOwn, PutGroup, DeleteGroup, history
<1>7. CASE ClockMoves
  BY <1>0, <1>1, <1>7 DEF ClockMoves, TypeOK, CarriesItsOwn
<1>8. CASE Restart
  BY <1>0, <1>1, <1>8 DEF Restart, CarriesItsOwn
<1>9. CASE UNCHANGED vars
  BY <1>0, <1>1, <1>9 DEF vars, TypeOK, CarriesItsOwn
<1> QED
  BY <1>2, <1>3, <1>4, <1>5, <1>6, <1>7, <1>8, <1>9 DEF Next, Resume, Look, TableWrite

LEMMA InitTypeInv == Init => TypeInv
<1> SUFFICES ASSUME Init PROVE TypeInv
  OBVIOUS
<1>1. busyUntil \in [VaultNames \X Groups -> Nat]
  BY DEF Init
<1> QED
  BY <1>1, VaultAssumption DEF Init, TypeInv, TypeOK, CarriesItsOwn, Times

(* Every reachable state is well typed: no name has two live vaults or two   *)
(* deleted ones, and no client has two requests, wherever the clock goes.    *)
THEOREM VaultsTypeCorrect == Spec => []TypeOK
  BY InitTypeInv, NextTypeInv, PTL DEF Spec, TypeInv

-------------------------------------------------------------------------------
(* What a request has read keeps holding as long as no other request writes  *)
(* its vault: time only lets deleted vaults lapse.                           *)
LEMMA ReadsKeep ==
  ASSUME NEW q, NEW m, m.at = q.at, m.name = q.name,
         q.at \in Carriers => m.row = q.row /\ q.row.name = q.name,
         NEW live, NEW gone, NEW t \in Int, NEW raced,
         NEW live2, NEW gone2, NEW t2 \in Int, NEW raced2,
         ReadHolds(q, live, gone, t, raced),
         \A v : v.name = q.name => (v \in live2 <=> v \in live),
         \A d : d.name = q.name => (d \in gone2 <=> d \in gone),
         gone \subseteq DeletedRows,
         t <= t2,
         raced \subseteq raced2
  PROVE  ReadHolds(m, live2, gone2, t2, raced2)
<1>1. \A d \in gone : d.purgeAt \in Int
  BY RowFields
<1> QED
  BY <1>1 DEF ReadHolds, Carriers

(* A fresh write leaves its vault live or recoverable, never both.           *)
LEMMA FreshWriteOfName ==
  ASSUME NameInv, NEW r \in inflight, TableWrite(r), r.name \notin conflicted',
         NEW v \in vaults', NEW d \in deleted', v.name = r.name, d.name = r.name
  PROVE  d.purgeAt <= now
<1>0. /\ TypeInv /\ TypeOK /\ FreshReads /\ NameHeldOnceUnlessRaced
      /\ r \in Requests
  BY DEF NameInv, TypeInv, TypeOK
<1>1. PICK rest \in SUBSET Requests : Written(r, rest)
  BY <1>0, TableWriteShape
<1>2. ~r.stale /\ r.name \notin conflicted
  BY <1>1, WrittenShape
<1>3. r.at \in Readers
  BY <1>0, TableWriteShape
<1>4. ReadHolds(r, vaults, deleted, now, conflicted)
  BY <1>0, <1>2, <1>3 DEF FreshReads
<1>5. CASE RecoverTx(r)
  BY <1>5 DEF RecoverTx, WithoutDeleted
<1>6. CASE PutWrite(r)
  BY <1>2, <1>4, <1>6 DEF PutWrite, ReadHolds
<1>7. CASE PolicyWrite(r)
  <2>1. r.row \in vaults /\ r.row.name = r.name
    BY <1>0, <1>4, <1>7 DEF PolicyWrite, ReadHolds, TypeInv, CarriesItsOwn, Carriers
  <2>2. d \in deleted
    BY <1>7 DEF PolicyWrite
  <2> QED
    BY <1>0, <1>2, <2>1, <2>2 DEF NameHeldOnceUnlessRaced
<1>8. CASE DeleteTx(r)
  BY <1>8 DEF DeleteTx
<1>9. CASE PurgeExec(r)
  BY <1>9 DEF PurgeExec, WithoutDeleted
<1> QED
  BY <1>5, <1>6, <1>7, <1>8, <1>9 DEF TableWrite

LEMMA NextNameInv == NameInv /\ [Next /\ now' >= now]_vars => NameInv'
<1> SUFFICES ASSUME NameInv, [Next /\ now' >= now]_vars
             PROVE  FreshReads' /\ NameHeldOnceUnlessRaced'
  BY NextTypeInv DEF NameInv
<1>0. /\ TypeInv /\ TypeInv' /\ TypeOK /\ CarriesItsOwn
      /\ FreshReads /\ NameHeldOnceUnlessRaced
      /\ vaults \subseteq VaultRows /\ deleted \subseteq DeletedRows
      /\ inflight \subseteq Requests
  BY NextTypeInv DEF NameInv, TypeInv, TypeOK
<1>1. now \in Int /\ now' \in Int /\ now <= now'
  <2>1. now \in Int /\ now' \in Int
    BY <1>0, VaultAssumption DEF TypeInv, TypeOK, Times
  <2> QED
    BY <2>1 DEF vars
<1>2. ASSUME UNCHANGED <<tables, history>> PROVE NameHeldOnceUnlessRaced'
  <2>1. \A d \in deleted : d.purgeAt \in Int
    BY <1>0, RowFields
  <2> QED
    BY <1>0, <1>1, <1>2, <2>1 DEF NameHeldOnceUnlessRaced, tables, history
<1>3. ASSUME UNCHANGED <<tables, history>>, NEW q \in inflight,
             q.at \in Readers, ~q.stale
      PROVE  ReadHolds(q, vaults, deleted, now, conflicted)'
  <2>1. ReadHolds(q, vaults, deleted, now, conflicted)
    BY <1>0, <1>3 DEF FreshReads
  <2>2. q.at \in Carriers => q.row.name = q.name
    BY <1>0, <1>3 DEF CarriesItsOwn
  <2>3. ReadHolds(q, vaults', deleted', now', conflicted')
    BY <1>0, <1>1, <1>3, <2>1, <2>2, ReadsKeep DEF tables, history
  <2> QED
    BY <2>3 DEF ReadHolds
<1>4. ASSUME UNCHANGED <<tables, history>>, inflight' \subseteq inflight
      PROVE  FreshReads' /\ NameHeldOnceUnlessRaced'
  BY <1>2, <1>3, <1>4 DEF FreshReads
<1>5. ASSUME NEW c \in Clients, Arrive(c)
      PROVE  FreshReads' /\ NameHeldOnceUnlessRaced'
  <2>1. UNCHANGED <<now, tables, history>>
    BY <1>0, <1>5, ArriveShape
  <2>2. PICK q \in Requests :
          /\ \/ q.at = "look"
             \/ /\ q.at \in {"policyWrite", "deleteTx"}
                /\ q.row \in vaults /\ q.row.name = q.name
             \/ q.at = "purge" /\ Recoverable(q.name) # {}
          /\ inflight' = inflight \cup {q}
    BY <1>0, <1>5, ArriveShape
  <2>3. ASSUME q.at \in Readers
        PROVE  ReadHolds(q, vaults, deleted, now, conflicted)
    <3>1. CASE q.at \in {"policyWrite", "deleteTx"}
      BY <2>2, <3>1 DEF ReadHolds
    <3>2. CASE q.at = "purge"
      <4>1. PICK d \in deleted : d.name = q.name /\ d.purgeAt > now
        BY <2>2, <3>2 DEF Recoverable
      <4>2. d.purgeAt \in Int
        BY <1>0, RowFields
      <4>3. \A v \in vaults : v.name = q.name => q.name \in conflicted
        BY <1>0, <1>1, <4>1, <4>2 DEF NameHeldOnceUnlessRaced
      <4> QED
        BY <3>2, <4>3 DEF ReadHolds
    <3> QED
      BY <2>2, <2>3, <3>1, <3>2 DEF Readers
  <2>4. FreshReads'
    BY <1>0, <1>3, <2>1, <2>2, <2>3 DEF FreshReads, ReadHolds, tables, history
  <2> QED
    BY <1>2, <2>1, <2>4
<1>6. ASSUME NEW r \in inflight, Look(r)
      PROVE  FreshReads' /\ NameHeldOnceUnlessRaced'
  <2>1. UNCHANGED <<now, tables, history>>
    BY <1>0, <1>6, LookShape
  <2>2. CASE inflight' = Others(r)
    BY <1>4, <2>1, <2>2 DEF Others
  <2>3. CASE inflight' # Others(r)
    <3>1. PICK q \in Requests :
            /\ q.name = r.name
            /\ inflight' = Others(r) \cup {q}
            /\ \/ q.at = "lookDeleted" /\ Live(r.name) = {}
               \/ q.at = "write" /\ Live(r.name) # {}
               \/ q.at = "write" /\ Recoverable(r.name) = {}
               \/ q.at = "recover" /\ r.at = "lookDeleted" /\ q.stale = r.stale
               \/ /\ q.at = "recoverTx" /\ r.at = "recover" /\ q.stale = r.stale
                  /\ q.row \in deleted /\ q.row.name = r.name
      BY <1>0, <1>6, <2>3, LookShape
    <3>2. ASSUME ~q.stale PROVE ReadHolds(q, vaults, deleted, now, conflicted)
      <4>1. CASE q.at = "lookDeleted" /\ Live(r.name) = {}
        BY <3>1, <4>1 DEF ReadHolds, Live
      <4>2. CASE q.at = "write" /\ Live(r.name) # {}
        BY <1>0, <3>1, <4>2 DEF ReadHolds, Live, NameHeldOnceUnlessRaced
      <4>3. CASE q.at = "write" /\ Recoverable(r.name) = {}
        <5>1. \A d \in deleted : d.purgeAt \in Int
          BY <1>0, RowFields
        <5>2. \A d \in deleted : d.name = r.name => d.purgeAt <= now
          BY <1>1, <4>3, <5>1 DEF Recoverable
        <5> QED
          BY <3>1, <4>3, <5>2 DEF ReadHolds
      <4>4. CASE q.at \in {"recover", "recoverTx"}
        <5>1. r.at \in {"lookDeleted", "recover"} /\ ~r.stale
          BY <3>1, <3>2, <4>4
        <5>2. \A v \in vaults : v.name # r.name
          BY <1>0, <5>1 DEF FreshReads, ReadHolds, Readers
        <5> QED
          BY <3>1, <4>4, <5>2 DEF ReadHolds
      <4> QED
        BY <3>1, <4>1, <4>2, <4>3, <4>4
    <3>3. FreshReads'
      BY <1>0, <1>3, <2>1, <3>1, <3>2
         DEF FreshReads, ReadHolds, Others, tables, history
    <3> QED
      BY <1>2, <2>1, <3>3
  <2> QED
    BY <2>2, <2>3
<1>7. ASSUME NEW r \in inflight, TableWrite(r)
      PROVE  FreshReads' /\ NameHeldOnceUnlessRaced'
  <2>1. /\ \A v : v.name # r.name => (v \in vaults' <=> v \in vaults)
        /\ \A d : d.name # r.name => (d \in deleted' <=> d \in deleted)
        /\ UNCHANGED now
    BY <1>0, <1>7, TableWriteShape
  <2>2. PICK rest \in SUBSET Requests :
          /\ Written(r, rest)
          /\ \A q \in rest : q \in Others(r) \/ q.at = "operation"
    BY <1>0, <1>7, TableWriteShape
  <2>3. conflicted \subseteq conflicted'
    BY <2>2, WrittenShape
  <2>4. ASSUME NEW m \in inflight', m.at \in Readers, ~m.stale
        PROVE  ReadHolds(m, vaults', deleted', now', conflicted')
    <3>1. PICK q \in rest :
            /\ m.at = q.at
            /\ m.name = q.name
            /\ q.at \in Carriers => m.row = q.row
            /\ q.at \in Readers => m.stale = (q.stale \/ q.name = r.name)
      BY <2>2, WrittenShape
    <3>2. q \in inflight /\ ~q.stale /\ q.name # r.name
      BY <2>2, <2>4, <3>1 DEF Others, Readers
    <3>3. ReadHolds(q, vaults, deleted, now, conflicted)
      BY <1>0, <2>4, <3>1, <3>2 DEF FreshReads
    <3>4. q.at \in Carriers => q.row.name = q.name
      BY <1>0, <3>2 DEF CarriesItsOwn
    <3> QED
      BY <1>0, <1>1, <2>1, <2>3, <3>1, <3>2, <3>3, <3>4, ReadsKeep
  <2>5. FreshReads'
    BY <2>4 DEF FreshReads, ReadHolds
  <2>6. ASSUME NEW v \in vaults', NEW d \in deleted', v.name = d.name,
               v.name \notin conflicted'
        PROVE  d.purgeAt <= now'
    <3>1. CASE v.name = r.name
      BY <1>7, <2>1, <2>6, <3>1, FreshWriteOfName
    <3>2. CASE v.name # r.name
      BY <1>0, <2>1, <2>3, <2>6, <3>2 DEF NameHeldOnceUnlessRaced
    <3> QED
      BY <3>1, <3>2
  <2> QED
    BY <2>5, <2>6 DEF NameHeldOnceUnlessRaced
<1>8. ASSUME NEW r \in inflight, PutOperation(r)
      PROVE  FreshReads' /\ NameHeldOnceUnlessRaced'
  <2>1. UNCHANGED <<now, vaults, deleted, conflicted>> /\ inflight' \subseteq inflight
    BY <1>8 DEF PutOperation, Others, history
  <2> QED
    BY <1>0, <2>1 DEF FreshReads, ReadHolds, NameHeldOnceUnlessRaced
<1>9. ASSUME NEW group \in Groups, PutGroup(group) \/ DeleteGroup(group)
      PROVE  FreshReads' /\ NameHeldOnceUnlessRaced'
  <2>1. UNCHANGED <<now, vaults, deleted, inflight, conflicted>>
    BY <1>9 DEF PutGroup, DeleteGroup, history
  <2> QED
    BY <1>0, <2>1 DEF FreshReads, ReadHolds, NameHeldOnceUnlessRaced
<1>10. CASE ClockMoves \/ Restart \/ UNCHANGED vars
  BY <1>4, <1>10 DEF ClockMoves, Restart, vars
<1> QED
  BY <1>5, <1>6, <1>7, <1>8, <1>9, <1>10 DEF Next, Resume, Look, TableWrite

LEMMA InitNameInv == Init => NameInv
  BY InitTypeInv DEF Init, NameInv, FreshReads, NameHeldOnceUnlessRaced

(* With a clock that is not set back, soft delete, recover, purge, lapse and *)
(* re-creation keep a vault live or recoverable, never both, for every name  *)
(* that no request has written on stale reads.                               *)
THEOREM NameIsHeldOnceUnlessRaced == ForwardSpec => []NameHeldOnceUnlessRaced
  BY InitNameInv, NextNameInv, PTL DEF ForwardSpec, NameInv

-------------------------------------------------------------------------------
(* What is recorded of vaults: the rows of both tables, and those requests   *)
(* carry.                                                                    *)
Carried == {r.row : r \in {q \in inflight : q.at \in Carriers}}
Rows == vaults \cup deleted \cup Carried

(* A number is that of one vault, which has one name, and of one that was    *)
(* born.                                                                     *)
NumbersNameOne == \A a, b \in Rows : a.vault = b.vault => a.name = b.name
NumbersBorn == purged \subseteq 1 .. born /\ \A a \in Rows : a.vault \in 1 .. born

PurgeInv == NameInv /\ NumbersNameOne /\ NumbersBorn /\ PurgeIsFinal

(* PutVault gives a name without a vault a new number, and keeps any other.  *)
LEMMA PutWriteShape ==
  ASSUME TypeInv, NEW r \in inflight, PutWrite(r)
  PROVE  \E new \in VaultRows :
           /\ new.name = r.name
           /\ new.group = r.group
           /\ vaults' = {u \in vaults : u.name # r.name} \cup {new}
           /\ \/ born' = born + 1 /\ new.vault = born + 1
              \/ born' = born /\ \E u \in vaults : u.name = r.name /\ new.vault = u.vault
<1>0. TypeOK /\ r \in Requests
  BY DEF TypeInv, TypeOK
<1>1. r.name \in VaultNames /\ r.group \in Groups /\ r.policies \in Policies
  BY <1>0, RequestFields DEF PutWrite
<1>2. /\ born + 1 \in Nat
      /\ Live(r.name) = {} => born + 1 \in 1 .. MaxBorn
  BY <1>0, VaultAssumption DEF TypeOK, PutWrite
<1>3. PICK new \in VaultRows :
        /\ new.name = r.name
        /\ new.group = r.group
        /\ vaults' = {u \in vaults : u.name # r.name} \cup {new}
        /\ \/ Live(r.name) = {} /\ new.vault = born + 1
           \/ \E u \in vaults : u.name = r.name /\ new.vault = u.vault
  BY <1>0, <1>1, <1>2, UpsertShape DEF PutWrite
<1> QED
  BY <1>3 DEF PutWrite, Live

(* Every row of the next state is a row of this one under the same name and  *)
(* number, or the vault a PUT has just created.                              *)
LEMMA RowsFrom ==
  ASSUME TypeInv, [Next]_vars
  PROVE  /\ born <= born'
         /\ \E n : \A b \in Rows' :
              \/ \E a \in Rows : a.name = b.name /\ a.vault = b.vault
              \/ b.name = n /\ b.vault = born + 1 /\ born' = born + 1
<1> DEFINE Old(b) == \E a \in Rows : a.name = b.name /\ a.vault = b.vault
           Goal == /\ born <= born'
                   /\ \E n : \A b \in Rows' :
                        \/ Old(b)
                        \/ b.name = n /\ b.vault = born + 1 /\ born' = born + 1
<1> SUFFICES Goal
  OBVIOUS
<1>0. /\ TypeOK /\ CarriesItsOwn /\ born \in Int
      /\ \A q \in inflight : q.at \in Carriers => q.row \in Rows
      /\ \A v \in vaults : v \in Rows
      /\ \A d \in deleted : d \in Rows
  BY DEF TypeInv, TypeOK, Rows, Carried
<1>1. ASSUME UNCHANGED <<vaults, deleted, born>>,
             \A q \in inflight' : q.at \in Carriers =>
               q \in inflight \/ q.row \in vaults \cup deleted
      PROVE  Goal
  <2>1. \A b \in Rows' : b \in Rows
    BY <1>0, <1>1 DEF Rows, Carried
  <2> QED
    BY <1>0, <1>1, <2>1
<1>2. ASSUME NEW c \in Clients, Arrive(c) PROVE Goal
  <2>1. UNCHANGED <<vaults, deleted, born>>
    BY <1>0, <1>2, ArriveShape DEF tables, history
  <2>2. PICK q : /\ q.at \in Carriers => q.row \in vaults
                 /\ inflight' = inflight \cup {q}
    BY <1>0, <1>2, ArriveShape DEF Carriers
  <2> QED
    BY <1>1, <2>1, <2>2
<1>3. ASSUME NEW r \in inflight, Look(r) PROVE Goal
  <2>1. UNCHANGED <<vaults, deleted, born>>
    BY <1>0, <1>3, LookShape DEF tables, history
  <2>2. \A q \in inflight' : q.at \in Carriers =>
          q \in inflight \/ q.row \in vaults \cup deleted
    BY <1>0, <1>3, LookShape DEF Carriers, Others
  <2> QED
    BY <1>1, <2>1, <2>2
<1>4. ASSUME NEW r \in inflight, TableWrite(r) PROVE Goal
  <2>1. PICK rest \in SUBSET Requests :
          /\ Written(r, rest)
          /\ \A q \in rest : q \in Others(r) \/ q.at = "operation"
    BY <1>4, TableWriteShape
  <2>2. \A b \in Carried' : b \in Rows
    <3> SUFFICES ASSUME NEW m \in inflight', m.at \in Carriers PROVE m.row \in Rows
      BY DEF Carried
    <3>1. PICK q \in rest : m.at = q.at /\ (q.at \in Carriers => m.row = q.row)
      BY <2>1, WrittenShape
    <3>2. q \in inflight
      BY <2>1, <3>1 DEF Others, Carriers
    <3> QED
      BY <1>0, <3>1, <3>2
  <2>3. ASSUME NEW n, born <= born',
               \A b \in vaults' \cup deleted' :
                 \/ Old(b)
                 \/ b.name = n /\ b.vault = born + 1 /\ born' = born + 1
        PROVE  Goal
    BY <2>2, <2>3 DEF Rows
  <2> HIDE DEF Goal
  <2>4. CASE RecoverTx(r)
    <3>1. r.row \in Rows /\ UNCHANGED born
      BY <1>0, <2>4 DEF RecoverTx, Carriers
    <3>2. Old(Recovered(r.row))
      BY <3>1 DEF Recovered
    <3>3. \A b \in vaults' \cup deleted' : Old(b)
      BY <1>0, <2>4, <3>2 DEF RecoverTx, WithoutDeleted
    <3> QED
      BY <1>0, <2>3, <3>1, <3>3
  <2>5. CASE PutWrite(r)
    <3>1. PICK new \in VaultRows :
            /\ new.name = r.name
            /\ vaults' = {u \in vaults : u.name # r.name} \cup {new}
            /\ \/ born' = born + 1 /\ new.vault = born + 1
               \/ born' = born /\ \E u \in vaults : u.name = r.name /\ new.vault = u.vault
      BY <2>5, PutWriteShape
    <3>2. Old(new) \/ (new.name = r.name /\ new.vault = born + 1 /\ born' = born + 1)
      BY <1>0, <3>1
    <3>3. deleted' = deleted
      BY <2>5 DEF PutWrite
    <3> QED
      BY <1>0, <2>3, <3>1, <3>2, <3>3
  <2>6. CASE PolicyWrite(r)
    <3>1. PICK new \in VaultRows :
            /\ new.name = r.name
            /\ vaults' = {u \in vaults : u.name # r.name} \cup {new}
            /\ \/ new.vault = r.row.vault
               \/ \E u \in vaults : u.name = r.name /\ new.vault = u.vault
      BY <2>6, PolicyWriteShape
    <3>2. r.row \in Rows /\ r.row.name = r.name
      BY <1>0, <2>6 DEF PolicyWrite, CarriesItsOwn, Carriers
    <3>3. Old(new)
      BY <1>0, <3>1, <3>2
    <3>4. UNCHANGED <<deleted, born>>
      BY <2>6 DEF PolicyWrite
    <3> QED
      BY <1>0, <2>3, <3>1, <3>3, <3>4
  <2>7. CASE DeleteTx(r)
    <3>1. r.row \in Rows /\ UNCHANGED born
      BY <1>0, <2>7 DEF DeleteTx, Carriers
    <3>2. Old(SoftDeleted(r.row, r.time))
      BY <3>1 DEF SoftDeleted
    <3>3. \A b \in vaults' \cup deleted' : Old(b)
      BY <1>0, <2>7, <3>2 DEF DeleteTx, WithoutDeleted
    <3> QED
      BY <1>0, <2>3, <3>1, <3>3
  <2>8. CASE PurgeExec(r)
    <3>1. vaults' \subseteq vaults /\ deleted' \subseteq deleted /\ UNCHANGED born
      BY <2>8 DEF PurgeExec, WithoutDeleted
    <3> QED
      BY <1>0, <2>3, <3>1
  <2> QED
    BY <1>4, <2>4, <2>5, <2>6, <2>7, <2>8 DEF TableWrite
<1>5. ASSUME NEW r \in inflight, PutOperation(r) PROVE Goal
  BY <1>1, <1>5 DEF PutOperation, Others, history
<1>6. ASSUME NEW group \in Groups, PutGroup(group) \/ DeleteGroup(group) PROVE Goal
  BY <1>1, <1>6 DEF PutGroup, DeleteGroup, history
<1>7. CASE ClockMoves \/ Restart \/ UNCHANGED vars
  BY <1>1, <1>7 DEF ClockMoves, Restart, vars, tables, history
<1> QED
  BY <1>2, <1>3, <1>4, <1>5, <1>6, <1>7 DEF Next, Resume, Look, TableWrite

(* A fresh write brings no purged vault back under its name.                 *)
LEMMA FreshWriteOfPurged ==
  ASSUME PurgeInv, NEW r \in inflight, TableWrite(r), r.name \notin conflicted',
         NEW b \in vaults' \cup deleted', b.name = r.name
  PROVE  b.vault \notin purged'
<1>0. /\ TypeInv /\ FreshReads /\ PurgeIsFinal /\ NumbersBorn /\ born \in Int
  BY DEF PurgeInv, NameInv, TypeInv, TypeOK
<1>1. PICK rest \in SUBSET Requests : Written(r, rest)
  BY <1>0, TableWriteShape
<1>2. ~r.stale /\ r.name \notin conflicted
  BY <1>1, WrittenShape
<1>3. ReadHolds(r, vaults, deleted, now, conflicted)
  BY <1>0, <1>2, TableWriteShape DEF FreshReads
<1>4. \A row \in vaults \cup deleted : row.name = r.name => row.vault \notin purged
  BY <1>0, <1>2 DEF PurgeIsFinal
<1>5. CASE RecoverTx(r)
  <2>1. r.row \in deleted /\ r.row.name = r.name
    BY <1>0, <1>3, <1>5 DEF RecoverTx, ReadHolds, TypeInv, CarriesItsOwn, Carriers
  <2>2. b = Recovered(r.row)
    BY <1>5 DEF RecoverTx, WithoutDeleted
  <2>3. purged' = purged
    BY <1>5 DEF RecoverTx
  <2> QED
    BY <1>4, <2>1, <2>2, <2>3 DEF Recovered
<1>6. CASE PutWrite(r)
  <2>1. PICK new \in VaultRows :
          /\ vaults' = {u \in vaults : u.name # r.name} \cup {new}
          /\ \/ new.vault = born + 1
             \/ \E u \in vaults : u.name = r.name /\ new.vault = u.vault
    BY <1>0, <1>6, PutWriteShape
  <2>2. purged' = purged /\ deleted' = deleted
    BY <1>6 DEF PutWrite
  <2>3. born + 1 \notin purged
    BY <1>0 DEF NumbersBorn
  <2> QED
    BY <1>4, <2>1, <2>2, <2>3
<1>7. CASE PolicyWrite(r)
  <2>1. r.row \in vaults /\ r.row.name = r.name
    BY <1>0, <1>3, <1>7 DEF PolicyWrite, ReadHolds, TypeInv, CarriesItsOwn, Carriers
  <2>2. PICK new \in VaultRows :
          /\ vaults' = {u \in vaults : u.name # r.name} \cup {new}
          /\ \/ new.vault = r.row.vault
             \/ \E u \in vaults : u.name = r.name /\ new.vault = u.vault
    BY <1>0, <1>7, PolicyWriteShape
  <2>3. purged' = purged /\ deleted' = deleted
    BY <1>7 DEF PolicyWrite
  <2> QED
    BY <1>4, <2>1, <2>2, <2>3
<1>8. CASE DeleteTx(r)
  <2>1. r.row \in vaults /\ r.row.name = r.name
    BY <1>0, <1>3, <1>8 DEF DeleteTx, ReadHolds, TypeInv, CarriesItsOwn, Carriers
  <2>2. b = SoftDeleted(r.row, r.time)
    BY <1>8 DEF DeleteTx, WithoutDeleted
  <2>3. purged' = purged
    BY <1>8 DEF DeleteTx
  <2> QED
    BY <1>4, <2>1, <2>2, <2>3 DEF SoftDeleted
<1>9. CASE PurgeExec(r)
  BY <1>2, <1>3, <1>9 DEF PurgeExec, WithoutDeleted, ReadHolds
<1> QED
  BY <1>5, <1>6, <1>7, <1>8, <1>9 DEF TableWrite

(* A purge adds the numbers of rows of its own name.                         *)
LEMMA PurgedFrom ==
  ASSUME TypeInv, [Next]_vars
  PROVE  \/ UNCHANGED purged
         \/ \E r \in inflight :
              /\ TableWrite(r)
              /\ UNCHANGED born
              /\ \A k \in purged' :
                   k \in purged \/ \E d \in deleted : d.name = r.name /\ d.vault = k
<1>1. ASSUME NEW r \in inflight, PurgeExec(r)
      PROVE  /\ TableWrite(r)
             /\ UNCHANGED born
             /\ \A k \in purged' :
                  k \in purged \/ \E d \in deleted : d.name = r.name /\ d.vault = k
  BY <1>1 DEF PurgeExec, TableWrite
<1>2. CASE \A r \in inflight : ~PurgeExec(r)
  BY <1>2 DEF Next, Arrive, Resume, PutVault, PolicyRead, DeleteRead, PurgeLook,
              PutLook, PutLookDeleted, RecoverRead, RecoverTx, PutWrite, PutOperation,
              PolicyWrite, DeleteTx, PutGroup, DeleteGroup, ClockMoves, Restart,
              vars, history
<1> QED
  BY <1>1, <1>2

LEMMA NextPurgeInv == PurgeInv /\ [Next /\ now' >= now]_vars => PurgeInv'
<1> SUFFICES ASSUME PurgeInv, [Next /\ now' >= now]_vars
             PROVE  NumbersNameOne' /\ NumbersBorn' /\ PurgeIsFinal'
  BY NextNameInv DEF PurgeInv
<1>0. /\ TypeInv /\ TypeOK /\ NumbersNameOne /\ NumbersBorn /\ PurgeIsFinal
      /\ born \in Int /\ [Next]_vars
  BY DEF PurgeInv, NameInv, TypeInv, TypeOK
<1>1. born \in Nat /\ born' \in Nat
  BY <1>0, NextTypeInv, VaultAssumption DEF TypeInv, TypeOK
<1>2. PICK n : \A b \in Rows' :
        \/ \E a \in Rows : a.name = b.name /\ a.vault = b.vault
        \/ b.name = n /\ b.vault = born + 1 /\ born' = born + 1
  BY <1>0, RowsFrom
<1>3. NumbersNameOne'
  <2> SUFFICES ASSUME NEW a \in Rows', NEW b \in Rows', a.vault = b.vault
               PROVE  a.name = b.name
    BY DEF NumbersNameOne
  <2>1. \A x \in Rows : x.vault # born + 1
    BY <1>0 DEF NumbersBorn
  <2> QED
    BY <1>0, <1>2, <2>1 DEF NumbersNameOne
<1>4. NumbersBorn'
  <2>1. born <= born'
    BY <1>0, RowsFrom
  <2>2. \A k \in 1 .. born : k \in 1 .. born'
    BY <1>1, <2>1
  <2>3. ASSUME NEW b \in Rows' PROVE b.vault \in 1 .. born'
    <3>1. CASE \E a \in Rows : a.name = b.name /\ a.vault = b.vault
      BY <1>0, <2>2, <3>1 DEF NumbersBorn
    <3>2. CASE b.vault = born + 1 /\ born' = born + 1
      BY <1>1, <3>2
    <3> QED
      BY <1>2, <3>1, <3>2
  <2>4. ASSUME NEW k \in purged' PROVE k \in 1 .. born
    <3>1. CASE k \in purged
      BY <1>0, <3>1 DEF NumbersBorn
    <3>2. CASE \E d \in deleted : d.vault = k
      BY <1>0, <3>2 DEF NumbersBorn, Rows
    <3> QED
      BY <1>0, <3>1, <3>2, PurgedFrom
  <2> QED
    BY <2>2, <2>3, <2>4 DEF NumbersBorn
<1>5. ASSUME UNCHANGED <<vaults, deleted, purged, conflicted>> PROVE PurgeIsFinal'
  BY <1>0, <1>5 DEF PurgeIsFinal
<1>6. ASSUME NEW r \in inflight, TableWrite(r) PROVE PurgeIsFinal'
  <2> SUFFICES ASSUME NEW b \in vaults' \cup deleted', b.vault \in purged',
                      b.name \notin conflicted'
               PROVE  FALSE
    BY DEF PurgeIsFinal
  <2>1. /\ \A v : v.name # r.name => (v \in vaults' <=> v \in vaults)
        /\ \A d : d.name # r.name => (d \in deleted' <=> d \in deleted)
        /\ conflicted \subseteq conflicted'
    BY <1>0, <1>6, TableWriteShape, WrittenShape
  <2>2. CASE b.name = r.name
    BY <1>6, <2>2, FreshWriteOfPurged
  <2>3. CASE b.name # r.name
    <3>1. b \in vaults \cup deleted
      BY <2>1, <2>3
    <3>2. b.vault \notin purged
      BY <1>0, <2>1, <3>1 DEF PurgeIsFinal
    <3>3. PurgeExec(r)
      BY <1>6, <3>2
         DEF TableWrite, RecoverTx, PutWrite, PolicyWrite, DeleteTx
    <3>4. PICK d \in deleted : d.name = r.name /\ d.vault = b.vault
      BY <3>2, <3>3 DEF PurgeExec
    <3> QED
      BY <1>0, <2>3, <3>1, <3>4 DEF NumbersNameOne, Rows
  <2> QED
    BY <2>2, <2>3
<1>7. ASSUME \A r \in inflight : ~TableWrite(r) PROVE PurgeIsFinal'
  <2>1. UNCHANGED <<vaults, deleted, purged, conflicted>>
    BY <1>0, <1>7
       DEF TableWrite, Next, Arrive, Resume, PutVault, PolicyRead, DeleteRead,
           PurgeLook, PutLook, PutLookDeleted, RecoverRead, PutOperation, PutGroup,
           DeleteGroup, ClockMoves, Restart, vars, tables, history
  <2> QED
    BY <1>5, <2>1
<1> QED
  BY <1>3, <1>4, <1>6, <1>7

(* Purged is purged: as long as the clock is not set back, a purged vault is *)
(* in neither table unless a request wrote its name on stale reads.          *)
THEOREM PurgeStaysFinal == ForwardSpec => []PurgeIsFinal
<1>1. Init => PurgeInv
  BY InitNameInv
     DEF Init, PurgeInv, NumbersNameOne, NumbersBorn, PurgeIsFinal, Rows, Carried
<1>2. PurgeInv => PurgeIsFinal
  BY DEF PurgeInv
<1> QED
  BY <1>1, <1>2, NextPurgeInv, PTL DEF ForwardSpec

-------------------------------------------------------------------------------
(* A step that changes either table is a table write, and what it changes is *)
(* under its own name.                                                       *)
LEMMA ChangesAreWrites ==
  ASSUME TypeInv, [Next]_vars, NEW n,
         \/ \E d \in deleted' : d \notin deleted /\ d.name = n
         \/ \E d \in deleted : d \notin deleted' /\ d.name = n
  PROVE  \E r \in inflight : TableWrite(r) /\ r.name = n
<1>1. CASE \A r \in inflight : ~TableWrite(r)
  <2>1. UNCHANGED deleted
    BY <1>1
       DEF TableWrite, Next, Arrive, Resume, PutVault, PolicyRead, DeleteRead,
           PurgeLook, PutLook, PutLookDeleted, RecoverRead, PutOperation, PutGroup,
           DeleteGroup, ClockMoves, Restart, vars, tables
  <2> QED
    BY <2>1
<1>2. ASSUME NEW r \in inflight, TableWrite(r) PROVE r.name = n
  BY <1>2, TableWriteShape
<1> QED
  BY <1>1, <1>2

(* A write that leaves its name uncontested acted on what it had read.       *)
LEMMA UncontestedIsFresh ==
  ASSUME NameInv, NEW r \in inflight, TableWrite(r), r.name \notin conflicted'
  PROVE  /\ ReadHolds(r, vaults, deleted, now, conflicted)
         /\ r.name \notin conflicted
         /\ r.at \in Carriers => r.row.name = r.name
<1>0. TypeInv /\ FreshReads /\ CarriesItsOwn
  BY DEF NameInv, TypeInv
<1>1. PICK rest \in SUBSET Requests : Written(r, rest)
  BY <1>0, TableWriteShape
<1>2. ~r.stale /\ r.name \notin conflicted
  BY <1>1, WrittenShape
<1> QED
  BY <1>0, <1>2, TableWriteShape DEF FreshReads, CarriesItsOwn

LEMMA MovesStep ==
  ASSUME NameInv, [Next]_vars,
         NEW v \in vaults \cup vaults', NEW d \in deleted \cup deleted',
         v.name = d.name,
         v.name \notin conflicted',
         \/ v \in vaults /\ Live(v.name)' = {} /\ d \in deleted' \ deleted
         \/ v \in vaults' /\ Live(v.name) = {} /\ d \in deleted \ deleted'
  PROVE  v.policies = d.policies /\ v.group = d.group /\ v.vault = d.vault
<1>0. /\ TypeInv
      /\ \A a, b \in vaults : a.name = b.name => a = b
      /\ \A a, b \in deleted : a.name = b.name => a = b
  BY DEF NameInv, TypeInv, TypeOK
<1>1. PICK r \in inflight : TableWrite(r) /\ r.name = v.name
  BY <1>0, ChangesAreWrites
<1>2. /\ ReadHolds(r, vaults, deleted, now, conflicted)
      /\ r.at \in Carriers => r.row.name = r.name
  BY <1>1, UncontestedIsFresh
<1>3. CASE DeleteTx(r)
  <2>1. r.row \in vaults /\ r.row.name = r.name
    BY <1>2, <1>3 DEF DeleteTx, ReadHolds, Carriers
  <2>2. \A u \in vaults' : u.name # r.name
    BY <1>3 DEF DeleteTx
  <2>3. d \in deleted' \ deleted /\ v \in vaults
    BY <1>1, <2>2
  <2>4. d = SoftDeleted(r.row, r.time)
    BY <1>3, <2>3 DEF DeleteTx, WithoutDeleted
  <2>5. v = r.row
    BY <1>0, <1>1, <2>1, <2>3
  <2> QED
    BY <2>4, <2>5 DEF SoftDeleted
<1>4. CASE RecoverTx(r)
  <2>1. r.row \in deleted /\ r.row.name = r.name
    BY <1>2, <1>4 DEF RecoverTx, ReadHolds, Carriers
  <2>2. deleted' \subseteq deleted
    BY <1>4 DEF RecoverTx, WithoutDeleted
  <2>3. v \in vaults' /\ d \in deleted
    BY <2>2
  <2>4. v = Recovered(r.row)
    BY <1>1, <1>4, <2>3 DEF RecoverTx
  <2>5. d = r.row
    BY <1>0, <1>1, <2>1, <2>3
  <2> QED
    BY <2>4, <2>5 DEF Recovered
<1>5. CASE PutWrite(r) \/ PolicyWrite(r)
  BY <1>5 DEF PutWrite, PolicyWrite
<1>6. CASE PurgeExec(r)
  <2>1. vaults' = vaults /\ deleted' \subseteq deleted
    BY <1>6 DEF PurgeExec, WithoutDeleted
  <2> QED
    BY <2>1 DEF Live
<1> QED
  BY <1>1, <1>3, <1>4, <1>5, <1>6 DEF TableWrite

(* Soft delete and recover move a vault whole, with its policies, its group  *)
(* and its number, unless the request that moves it had read stale rows.     *)
THEOREM MovesDoKeepContents == ForwardSpec => MovesKeepContents
<1>1. NameInv /\ [Next /\ now' >= now]_vars =>
        [\A v \in vaults \cup vaults', d \in deleted \cup deleted' :
           /\ v.name = d.name
           /\ v.name \notin conflicted'
           /\ \/ v \in vaults /\ Live(v.name)' = {} /\ d \in deleted' \ deleted
              \/ v \in vaults' /\ Live(v.name) = {} /\ d \in deleted \ deleted'
           => /\ v.policies = d.policies
              /\ v.group = d.group
              /\ v.vault = d.vault]_vars
  BY MovesStep
<1> QED
  BY <1>1, InitNameInv, NextNameInv, PTL DEF ForwardSpec, MovesKeepContents

LEMMA PolicyStep ==
  ASSUME NameInv, NEW r \in inflight, PolicyWrite(r), r.name \notin conflicted'
  PROVE  \E v \in vaults, w \in vaults' :
           /\ v.name = r.name /\ w.name = r.name
           /\ w.vault = v.vault
           /\ r.kind = "add" => w.policies = v.policies \cup r.objects
           /\ r.kind = "remove" => w.policies = v.policies \ r.objects
           /\ r.kind = "replace" => w.policies = r.objects
<1>0. TypeInv /\ TypeOK
  BY DEF NameInv, TypeInv
<1>1. r.row \in vaults /\ r.row.name = r.name
  BY UncontestedIsFresh DEF TableWrite, PolicyWrite, ReadHolds, Carriers
<1>2. PICK new \in VaultRows :
        /\ new.name = r.name
        /\ new.policies = ApplyPolicyOp(r.row.policies, r.objects, r.kind)
        /\ vaults' = {u \in vaults : u.name # r.name} \cup {new}
        /\ \/ Live(r.name) = {}
           \/ \E u \in vaults : u.name = r.name /\ new.vault = u.vault
  BY <1>0, PolicyWriteShape
<1>3. new.vault = r.row.vault
  BY <1>0, <1>1, <1>2 DEF Live, TypeOK
<1>4. new \in vaults'
  BY <1>2
<1>5. /\ r.kind = "add" => new.policies = r.row.policies \cup r.objects
      /\ r.kind = "remove" => new.policies = r.row.policies \ r.objects
      /\ r.kind = "replace" => new.policies = r.objects
  BY <1>2 DEF ApplyPolicyOp
<1> QED
  BY <1>1, <1>2, <1>3, <1>4, <1>5

(* An access-policy operation acts on the policies the vault has when it is  *)
(* written, and never brings a vault back, unless its read had gone stale.   *)
THEOREM PolicyOpsDoApply == ForwardSpec => PolicyOpsApply
<1>1. NameInv /\ [Next /\ now' >= now]_vars =>
        [\A r \in inflight :
           PolicyWrite(r) /\ r.name \notin conflicted' =>
             \E v \in vaults, w \in vaults' :
               /\ v.name = r.name /\ w.name = r.name
               /\ w.vault = v.vault
               /\ r.kind = "add" => w.policies = v.policies \cup r.objects
               /\ r.kind = "remove" => w.policies = v.policies \ r.objects
               /\ r.kind = "replace" => w.policies = r.objects]_vars
  BY PolicyStep
<1> QED
  BY <1>1, InitNameInv, NextNameInv, PTL DEF ForwardSpec, PolicyOpsApply


-------------------------------------------------------------------------------
(* One request at a time: no client finds another's write under its feet.    *)
OneClient == \A c, d \in Clients : c = d

NothingStale ==
  /\ conflicted = {}
  /\ \A q \in inflight : q.at # "operation" => q.stale = FALSE

LEMMA NextNothingStale ==
  ASSUME OneClient
  PROVE  TypeInv /\ NothingStale /\ [Next]_vars => NothingStale'
<1> SUFFICES ASSUME TypeInv, NothingStale, [Next]_vars PROVE NothingStale'
  OBVIOUS
<1>0. TypeOK /\ conflicted = {}
  BY DEF TypeInv, NothingStale
<1>1. ASSUME NEW r \in inflight PROVE Others(r) = {}
  <2>1. \A q \in inflight : q.client \in Clients
    BY <1>0, RequestFields DEF TypeOK
  <2> QED
    BY <1>0, <2>1 DEF OneClient, TypeOK, Others
<1>2. ASSUME NEW c \in Clients, Arrive(c) PROVE NothingStale'
  <2>1. \A q \in inflight' : q \in inflight \/ q.stale = FALSE
    BY <1>2 DEF Arrive, PutVault, PolicyRead, DeleteRead, PurgeLook
  <2>2. conflicted' = conflicted
    BY <1>0, <1>2, ArriveShape DEF history
  <2> QED
    BY <2>1, <2>2 DEF NothingStale
<1>3. ASSUME NEW r \in inflight, Look(r) PROVE NothingStale'
  <2>1. conflicted' = conflicted
    BY <1>0, <1>3, LookShape DEF history
  <2>2. r.stale = FALSE /\ r \in Requests
    BY <1>0, <1>3 DEF Look, PutLook, PutLookDeleted, RecoverRead, NothingStale, TypeOK
  <2>3. CASE PutLook(r)
    <3>1. [r EXCEPT !.at = "lookDeleted"].stale = FALSE
      BY <2>2, <2>3 DEF PutLook, Requests
    <3>2. Write(r, FALSE).stale = FALSE
      BY DEF Write
    <3>3. \A q \in inflight' : q = Write(r, FALSE) \/ q = [r EXCEPT !.at = "lookDeleted"]
      BY <1>1, <2>3 DEF PutLook
    <3>4. \A q \in inflight' : q.stale = FALSE
      BY <3>1, <3>2, <3>3
    <3> QED
      BY <1>0, <2>1, <3>4 DEF NothingStale
  <2>4. CASE PutLookDeleted(r)
    BY <1>1, <2>1, <2>2, <2>4 DEF PutLookDeleted, NothingStale, Write
  <2>5. CASE RecoverRead(r)
    BY <1>1, <2>1, <2>2, <2>5 DEF RecoverRead, NothingStale
  <2> QED
    BY <1>3, <2>3, <2>4, <2>5 DEF Look
<1>4. ASSUME NEW r \in inflight, TableWrite(r) PROVE NothingStale'
  <2>1. r.stale = FALSE
    BY <1>4 DEF TableWrite, RecoverTx, PutWrite, PolicyWrite, DeleteTx, PurgeExec,
                NothingStale
  <2>2. PICK rest \in SUBSET Requests :
          /\ Written(r, rest)
          /\ \A q \in rest : q \in Others(r) \/ q.at = "operation"
    BY <1>4, TableWriteShape
  <2>3. conflicted' = {}
    BY <1>0, <2>1, <2>2 DEF Written
  <2>4. \A m \in inflight' : m.at = "operation"
    BY <1>1, <2>2, WrittenShape
  <2> QED
    BY <2>3, <2>4 DEF NothingStale
<1>5. ASSUME NEW r \in inflight, PutOperation(r) PROVE NothingStale'
  BY <1>5 DEF PutOperation, Others, NothingStale, history
<1>6. ASSUME NEW group \in Groups, PutGroup(group) \/ DeleteGroup(group)
      PROVE  NothingStale'
  BY <1>6 DEF PutGroup, DeleteGroup, NothingStale, history
<1>7. CASE ClockMoves \/ Restart \/ UNCHANGED vars
  BY <1>7 DEF ClockMoves, Restart, vars, NothingStale, history
<1> QED
  BY <1>2, <1>3, <1>4, <1>5, <1>6, <1>7 DEF Next, Resume, Look, TableWrite

(* Races are the only way to hold a name twice: when requests come one after *)
(* the other, and the clock is not set back, a vault is live or recoverable, *)
(* never both, as SoftDeleteVault says, restarts included.                   *)
THEOREM NameIsHeldOnceInTurn ==
  ASSUME OneClient
  PROVE  ForwardSpec => []NameHeldOnce
<1> DEFINE Serial == NameInv /\ NothingStale
<1>1. Init => Serial
  BY InitNameInv DEF Init, NothingStale
<1>2. Serial /\ [Next /\ now' >= now]_vars => Serial'
  <2>1. [Next /\ now' >= now]_vars => [Next]_vars
    OBVIOUS
  <2>2. NameInv => TypeInv
    BY DEF NameInv
  <2> QED
    BY <2>1, <2>2, NextNameInv, NextNothingStale
<1>3. Serial => NameHeldOnce
  BY DEF NameInv, NothingStale, NameHeldOnce, NameHeldOnceUnlessRaced
<1> QED
  BY <1>1, <1>2, <1>3, PTL DEF ForwardSpec

(* Nor is a purged vault in either table again, without an exception.        *)
THEOREM PurgeIsFinalInTurn ==
  ASSUME OneClient
  PROVE  ForwardSpec => [](\A row \in vaults \cup deleted : row.vault \notin purged)
<1> DEFINE Serial == PurgeInv /\ NothingStale
           Gone == \A row \in vaults \cup deleted : row.vault \notin purged
<1>1. Init => Serial
  BY InitNameInv
     DEF Init, PurgeInv, NumbersNameOne, NumbersBorn, PurgeIsFinal, Rows, Carried,
         NothingStale
<1>2. Serial /\ [Next /\ now' >= now]_vars => Serial'
  <2>1. [Next /\ now' >= now]_vars => [Next]_vars
    OBVIOUS
  <2>2. PurgeInv => TypeInv
    BY DEF PurgeInv, NameInv
  <2> QED
    BY <2>1, <2>2, NextPurgeInv, NextNothingStale
<1>3. Serial => Gone
  BY DEF PurgeInv, NothingStale, PurgeIsFinal
<1> QED
  BY <1>1, <1>2, <1>3, PTL DEF ForwardSpec

-------------------------------------------------------------------------------
(* What is left of ClockDecidesProvisioning.  A vault that is being created  *)
(* turns to Succeeded, without the clock, only when a request moves it to    *)
(* another resource group: a PUT that names one, or a write of a row that    *)
(* was in another group when it was read and has been overtaken since.       *)
OnlyMovesHideCreating ==
  [][\A v \in vaults, w \in vaults' :
       v.vault = w.vault /\ Creating(v) /\ now' = now /\ ~Creating(w)' =>
         \E r \in inflight :
           /\ r.name = v.name
           /\ \/ PutWrite(r) /\ r.group # v.group
              \/ (PolicyWrite(r) \/ RecoverTx(r)) /\ r.stale /\ r.row.group # v.group]_vars

(* One request at a time: only a PUT that names another group does.          *)
OnlyPutsHideCreating ==
  [][\A v \in vaults, w \in vaults' :
       v.vault = w.vault /\ Creating(v) /\ now' = now /\ ~Creating(w)' =>
         \E r \in inflight :
           r.name = v.name /\ PutWrite(r) /\ r.group # v.group]_vars

(* Of the numbers in tables and requests, on any clock.                      *)
NumbersInv ==
  /\ TypeInv
  /\ NumbersNameOne
  /\ \A a \in Rows : a.vault \in 1 .. born

LEMMA NextNumbersInv == NumbersInv /\ [Next]_vars => NumbersInv'
<1> SUFFICES ASSUME NumbersInv, [Next]_vars PROVE NumbersInv'
  OBVIOUS
<1>0. TypeInv /\ NumbersNameOne /\ \A a \in Rows : a.vault \in 1 .. born
  BY DEF NumbersInv
<1>1. TypeInv'
  BY <1>0, NextTypeInv
<1>2. born \in Nat /\ born' \in Nat
  BY <1>0, <1>1, VaultAssumption DEF TypeInv, TypeOK
<1>3. born <= born'
  BY <1>0, RowsFrom
<1>4. PICK n : \A b \in Rows' :
        \/ \E a \in Rows : a.name = b.name /\ a.vault = b.vault
        \/ b.name = n /\ b.vault = born + 1 /\ born' = born + 1
  BY <1>0, RowsFrom
<1>5. NumbersNameOne'
  <2> SUFFICES ASSUME NEW a \in Rows', NEW b \in Rows', a.vault = b.vault
               PROVE  a.name = b.name
    BY DEF NumbersNameOne
  <2>1. \A x \in Rows : x.vault # born + 1
    BY <1>0, <1>2
  <2> QED
    BY <1>0, <1>4, <2>1 DEF NumbersNameOne
<1>6. ASSUME NEW b \in Rows' PROVE b.vault \in 1 .. born'
  <2>1. CASE \E a \in Rows : a.name = b.name /\ a.vault = b.vault
    BY <1>0, <1>2, <1>3, <2>1
  <2>2. CASE b.vault = born + 1 /\ born' = born + 1
    BY <1>2, <2>2
  <2> QED
    BY <1>4, <2>1, <2>2
<1> QED
  BY <1>1, <1>5, <1>6 DEF NumbersInv

(* No step shortens the time a vault's id is busy.                           *)
LEMMA BusyNoShorter ==
  ASSUME TypeInv, [Next]_vars, NEW id \in VaultNames \X Groups
  PROVE  busyUntil[id] <= busyUntil'[id]
<1>0. TypeOK /\ busyUntil \in [VaultNames \X Groups -> Nat]
  BY DEF TypeInv, TypeOK
<1>1. busyUntil[id] \in Nat /\ now + LRODelay \in Int
  BY <1>0, VaultAssumption DEF TypeOK, Times
<1>2. CASE busyUntil' = busyUntil
  BY <1>1, <1>2
<1>3. ASSUME NEW r \in inflight, PutOperation(r) PROVE busyUntil[id] <= busyUntil'[id]
  <2> DEFINE it == <<r.name, r.group>>
  <2>1. busyUntil' = [busyUntil EXCEPT ![it] =
          IF busyUntil[it] > now + LRODelay THEN busyUntil[it] ELSE now + LRODelay]
    BY <1>3 DEF PutOperation
  <2> HIDE DEF it
  <2>2. CASE id = it
    BY <1>0, <1>1, <2>1, <2>2
  <2>3. CASE id # it
    BY <1>0, <1>1, <2>1, <2>3
  <2> QED
    BY <2>2, <2>3
<1>4. ASSUME \A r \in inflight : ~PutOperation(r) PROVE busyUntil' = busyUntil
  BY <1>4
     DEF Next, Arrive, Resume, PutVault, PolicyRead, DeleteRead, PurgeLook, PutLook,
         PutLookDeleted, RecoverRead, RecoverTx, PutWrite, PolicyWrite, DeleteTx,
         PurgeExec, PutGroup, DeleteGroup, ClockMoves, Restart, vars, tables
<1> QED
  BY <1>2, <1>3, <1>4

(* What a request has read of the live vaults still holds of them, unless    *)
(* another request has written that vault since: on any clock.               *)
LiveReadHolds(q, live) ==
  /\ q.at \in {"lookDeleted", "recover", "recoverTx"} =>
       \A v \in live : v.name # q.name
  /\ q.at \in {"policyWrite", "deleteTx"} => q.row \in live

FreshLiveReads ==
  \A q \in inflight : q.at \in Readers /\ ~q.stale => LiveReadHolds(q, vaults)

LEMMA NextFreshLiveReads == TypeInv /\ FreshLiveReads /\ [Next]_vars => FreshLiveReads'
<1> SUFFICES ASSUME TypeInv, FreshLiveReads, [Next]_vars PROVE FreshLiveReads'
  OBVIOUS
<1>0. TypeOK /\ CarriesItsOwn /\ FreshLiveReads
  BY DEF TypeInv
<1>1. ASSUME UNCHANGED vaults, inflight' \subseteq inflight PROVE FreshLiveReads'
  BY <1>1 DEF FreshLiveReads, LiveReadHolds
<1>2. ASSUME NEW c \in Clients, Arrive(c) PROVE FreshLiveReads'
  <2>1. UNCHANGED vaults
    BY <1>0, <1>2, ArriveShape DEF tables
  <2>2. PICK q \in Requests :
          /\ \/ q.at = "look"
             \/ /\ q.at \in {"policyWrite", "deleteTx"}
                /\ q.row \in vaults /\ q.row.name = q.name
             \/ q.at = "purge" /\ Recoverable(q.name) # {}
          /\ inflight' = inflight \cup {q}
    BY <1>0, <1>2, ArriveShape
  <2>3. LiveReadHolds(q, vaults)
    BY <2>2 DEF LiveReadHolds
  <2> QED
    BY <2>1, <2>2, <2>3 DEF FreshLiveReads, LiveReadHolds
<1>3. ASSUME NEW r \in inflight, Look(r) PROVE FreshLiveReads'
  <2>1. UNCHANGED vaults
    BY <1>0, <1>3, LookShape DEF tables
  <2>2. CASE inflight' = Others(r)
    BY <1>1, <2>1, <2>2 DEF Others
  <2>3. CASE inflight' # Others(r)
    <3>1. PICK q \in Requests :
            /\ q.name = r.name
            /\ inflight' = Others(r) \cup {q}
            /\ \/ q.at = "lookDeleted" /\ Live(r.name) = {}
               \/ q.at = "write"
               \/ /\ q.at \in {"recover", "recoverTx"} /\ q.stale = r.stale
                  /\ r.at \in {"lookDeleted", "recover"}
      BY <1>0, <1>3, <2>3, LookShape
    <3>2. ASSUME ~q.stale PROVE LiveReadHolds(q, vaults)
      BY <1>0, <3>1, <3>2 DEF FreshLiveReads, LiveReadHolds, Live, Readers
    <3> QED
      BY <2>1, <3>1, <3>2 DEF FreshLiveReads, LiveReadHolds, Others
  <2> QED
    BY <2>2, <2>3
<1>4. ASSUME NEW r \in inflight, TableWrite(r) PROVE FreshLiveReads'
  <2>1. \A v : v.name # r.name => (v \in vaults' <=> v \in vaults)
    BY <1>4, TableWriteShape
  <2>2. PICK rest \in SUBSET Requests :
          /\ Written(r, rest)
          /\ \A q \in rest : q \in Others(r) \/ q.at = "operation"
    BY <1>4, TableWriteShape
  <2>3. ASSUME NEW m \in inflight', m.at \in Readers, ~m.stale
        PROVE  LiveReadHolds(m, vaults')
    <3>1. PICK q \in rest :
            /\ m.at = q.at
            /\ m.name = q.name
            /\ q.at \in Carriers => m.row = q.row
            /\ q.at \in Readers => m.stale = (q.stale \/ q.name = r.name)
      BY <2>2, WrittenShape
    <3>2. q \in inflight /\ ~q.stale /\ q.name # r.name
      BY <2>2, <2>3, <3>1 DEF Others, Readers
    <3>3. LiveReadHolds(q, vaults)
      BY <1>0, <2>3, <3>1, <3>2 DEF FreshLiveReads
    <3>4. q.at \in Carriers => q.row.name = q.name
      BY <1>0, <3>2 DEF CarriesItsOwn
    <3> QED
      BY <2>1, <3>1, <3>2, <3>3, <3>4 DEF LiveReadHolds, Carriers
  <2> QED
    BY <2>3 DEF FreshLiveReads, LiveReadHolds
<1>5. ASSUME NEW r \in inflight, PutOperation(r) PROVE FreshLiveReads'
  BY <1>1, <1>5 DEF PutOperation, Others
<1>6. ASSUME NEW group \in Groups, PutGroup(group) \/ DeleteGroup(group)
      PROVE  FreshLiveReads'
  BY <1>1, <1>6 DEF PutGroup, DeleteGroup
<1>7. CASE ClockMoves \/ Restart \/ UNCHANGED vars
  BY <1>1, <1>7 DEF ClockMoves, Restart, vars, tables
<1> QED
  BY <1>2, <1>3, <1>4, <1>5, <1>6, <1>7 DEF Next, Resume, Look, TableWrite

(* A vault that turns to Succeeded without the clock has been moved.         *)
LEMMA HidesByMoving ==
  ASSUME NumbersInv, [Next]_vars, NEW v \in vaults, NEW w \in vaults',
         v.vault = w.vault, Creating(v), now' = now, ~Creating(w)'
  PROVE  v.name = w.name /\ v.group # w.group
<1>0. TypeInv /\ NumbersNameOne /\ v \in Rows /\ w \in Rows'
  BY DEF NumbersInv, Rows
<1>1. v.vault # born + 1
  BY <1>0, VaultAssumption DEF NumbersInv, TypeInv, TypeOK
<1>2. PICK a \in Rows : a.name = w.name /\ a.vault = w.vault
  BY <1>0, <1>1, RowsFrom
<1>3. v.name = w.name
  BY <1>0, <1>2 DEF NumbersNameOne
<1> DEFINE id == <<v.name, v.group>>
<1>4. id \in VaultNames \X Groups
  BY <1>0, RowFields DEF TypeInv, TypeOK
<1>5. now \in Int /\ busyUntil[id] \in Nat /\ busyUntil'[id] \in Nat
  BY <1>0, <1>4, NextTypeInv, VaultAssumption DEF TypeInv, TypeOK, Times
<1>6. busyUntil[id] > now /\ busyUntil[id] <= busyUntil'[id]
  BY <1>0, <1>4, BusyNoShorter DEF Creating
<1>7. busyUntil'[id] > now'
  BY <1>5, <1>6
<1> QED
  BY <1>3, <1>7 DEF Creating

(* It is moved by a PUT, or by a write on a stale read of it.                *)
LEMMA MovedBy ==
  ASSUME TypeInv, FreshLiveReads, [Next]_vars, NEW v \in vaults, NEW w \in vaults',
         v.name = w.name, v.group # w.group
  PROVE  \E r \in inflight :
           /\ r.name = v.name
           /\ \/ PutWrite(r) /\ r.group # v.group
              \/ (PolicyWrite(r) \/ RecoverTx(r)) /\ r.stale /\ r.row.group # v.group
<1>0. /\ TypeOK /\ CarriesItsOwn /\ FreshLiveReads
      /\ \A a, b \in vaults : a.name = b.name => a = b
  BY DEF TypeInv, TypeOK
<1>1. w \notin vaults
  BY <1>0
<1>2. PICK r \in inflight : TableWrite(r)
  <2>1. CASE \A r \in inflight : ~TableWrite(r)
    <3>1. UNCHANGED vaults
      BY <2>1
         DEF TableWrite, Next, Arrive, Resume, PutVault, PolicyRead, DeleteRead,
             PurgeLook, PutLook, PutLookDeleted, RecoverRead, PutOperation, PutGroup,
             DeleteGroup, ClockMoves, Restart, vars, tables
    <3> QED
      BY <1>1, <3>1
  <2> QED
    BY <2>1
<1>3. r.name = v.name
  BY <1>1, <1>2, TableWriteShape
<1>4. ~r.stale => LiveReadHolds(r, vaults)
  BY <1>0, <1>2, TableWriteShape DEF FreshLiveReads
<1>5. CASE PutWrite(r)
  <2>1. PICK new : new.group = r.group /\ vaults' = {u \in vaults : u.name # r.name} \cup {new}
    BY <1>5, PutWriteShape
  <2>2. w.group = r.group
    BY <1>1, <2>1
  <2> QED
    BY <1>3, <1>5, <2>2
<1>6. CASE PolicyWrite(r)
  <2>1. PICK new : /\ new.group = r.row.group
                   /\ vaults' = {u \in vaults : u.name # r.name} \cup {new}
    BY <1>6, PolicyWriteShape
  <2>2. w.group = r.row.group
    BY <1>1, <2>1
  <2>3. r.row.name = r.name
    BY <1>0, <1>6 DEF PolicyWrite, CarriesItsOwn, Carriers
  <2>4. r.stale
    BY <1>0, <1>3, <1>4, <1>6, <2>2, <2>3 DEF PolicyWrite, LiveReadHolds
  <2> QED
    BY <1>3, <1>6, <2>2, <2>4
<1>7. CASE RecoverTx(r)
  <2>1. w = Recovered(r.row)
    BY <1>1, <1>7 DEF RecoverTx
  <2>2. w.group = r.row.group
    BY <2>1 DEF Recovered
  <2>3. r.stale
    BY <1>3, <1>4, <1>7 DEF RecoverTx, LiveReadHolds
  <2> QED
    BY <1>3, <1>7, <2>2, <2>3
<1>8. CASE DeleteTx(r) \/ PurgeExec(r)
  BY <1>1, <1>8 DEF DeleteTx, PurgeExec
<1> QED
  BY <1>2, <1>5, <1>6, <1>7, <1>8 DEF TableWrite

(* There are two ways a vault that is still being created is reported        *)
(* Succeeded before the clock says so: a PUT names another resource group,   *)
(* or an access-policy operation or a recover writes, on stale reads, a row  *)
(* of another group.  On any clock, and however requests race, no third.     *)
THEOREM OnlyMovesDoHideCreating == Spec => OnlyMovesHideCreating
<1> DEFINE Inv == NumbersInv /\ FreshLiveReads
<1>1. Init => Inv
  BY InitTypeInv
     DEF Init, NumbersInv, NumbersNameOne, Rows, Carried, FreshLiveReads
<1>2. Inv /\ [Next]_vars => Inv'
  BY NextNumbersInv, NextFreshLiveReads DEF NumbersInv
<1>3. Inv /\ [Next]_vars =>
        \A v \in vaults, w \in vaults' :
          v.vault = w.vault /\ Creating(v) /\ now' = now /\ ~Creating(w)' =>
            \E r \in inflight :
              /\ r.name = v.name
              /\ \/ PutWrite(r) /\ r.group # v.group
                 \/ (PolicyWrite(r) \/ RecoverTx(r)) /\ r.stale /\ r.row.group # v.group
  BY HidesByMoving, MovedBy DEF NumbersInv
<1> QED
  BY <1>1, <1>2, <1>3, PTL DEF Spec, OnlyMovesHideCreating

(* When requests come one after the other, a PUT is the only way.            *)
THEOREM OnlyPutsHideCreatingInTurn ==
  ASSUME OneClient
  PROVE  Spec => OnlyPutsHideCreating
<1> DEFINE Inv == NumbersInv /\ FreshLiveReads /\ NothingStale
<1>1. Init => Inv
  BY InitTypeInv
     DEF Init, NumbersInv, NumbersNameOne, Rows, Carried, FreshLiveReads, NothingStale
<1>2. Inv /\ [Next]_vars => Inv'
  BY NextNumbersInv, NextFreshLiveReads, NextNothingStale DEF NumbersInv
<1>3. Inv /\ [Next]_vars =>
        \A v \in vaults, w \in vaults' :
          v.vault = w.vault /\ Creating(v) /\ now' = now /\ ~Creating(w)' =>
            \E r \in inflight :
              r.name = v.name /\ PutWrite(r) /\ r.group # v.group
  <2> SUFFICES ASSUME Inv, [Next]_vars, NEW v \in vaults, NEW w \in vaults',
                      v.vault = w.vault, Creating(v), now' = now, ~Creating(w)'
               PROVE  \E r \in inflight :
                        r.name = v.name /\ PutWrite(r) /\ r.group # v.group
    OBVIOUS
  <2>1. PICK r \in inflight :
          /\ r.name = v.name
          /\ \/ PutWrite(r) /\ r.group # v.group
             \/ (PolicyWrite(r) \/ RecoverTx(r)) /\ r.stale
    BY HidesByMoving, MovedBy DEF NumbersInv
  <2>2. CASE PolicyWrite(r) \/ RecoverTx(r)
    <3>1. r.at # "operation"
      BY <2>2 DEF PolicyWrite, RecoverTx
    <3> QED
      BY <2>1, <3>1 DEF NothingStale
  <2> QED
    BY <2>1, <2>2
<1> QED
  BY <1>1, <1>2, <1>3, PTL DEF Spec, OnlyPutsHideCreating
===============================================================================
