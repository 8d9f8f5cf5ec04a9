----------------------- MODULE RoleAuthorizationProofs -----------------------
(***************************************************************************)
(* Proofs about RoleAuthorization, for any number of clients, roles,       *)
(* names, principals and scopes.                                           *)
(***************************************************************************)
EXTENDS RoleAuthorization, TLAPS

(* A delete of a role definition that has counted and not yet deleted: it   *)
(* saw every live assignment of its role except those inserted since, and   *)
(* those whose role id ends in a slash.                                     *)
CountedDeletes ==
  \A q \in At("delete") : \A a \in roleAssignments :
    SameGuid(a.role.text, q.text) => a.name \in raced \/ a.role.slash

(* A create between its check and its insert, whose role nobody rewrote     *)
(* since: the scope is still within the role's assignable scopes.           *)
CheckedCreates ==
  \A q \in At("insert") :
    \/ q.stale
    \/ IsBuiltIn(q.row.role.text)
    \/ GetRoleDefinition(q.row.role.text) = {}
    \/ \E d \in GetRoleDefinition(q.row.role.text) : Declares(d, q.row.scope)

DanglingInv == TypeOK /\ CountedDeletes /\ DanglingExplained

ScopeInv == TypeOK /\ CheckedCreates /\ OutOfScopeExplained

-------------------------------------------------------------------------------
LEMMA InitTypeOK == Init => TypeOK
  BY DEF Init, TypeOK

(* A suspended request is one of the five kinds, with its fields typed.     *)
LEMMA ContinuationFields ==
  ASSUME NEW r \in Continuations
  PROVE  /\ r.client \in Clients
         /\ r.at \in {"insert", "unassign", "upsert", "count", "delete"}
         /\ r.at = "insert" => /\ r.row \in AssignmentRows
                               /\ r.stale \in BOOLEAN
                               /\ r \in [at : {"insert"}, client : Clients,
                                         row : AssignmentRows, stale : BOOLEAN]
         /\ r.at = "unassign" => r.name \in Names
         /\ r.at = "upsert" => r.def \in RoleRows
         /\ r.at \in {"count", "delete"} =>
              /\ r.text \in GuidText
              /\ r \in [at : {"count", "delete"}, client : Clients, text : GuidText]
  BY DEF Continuations

(* Marking suspended creates stale changes neither their number nor whose   *)
(* they are.                                                                *)
LEMMA MarkStaleKeeps ==
  ASSUME NEW rs \in SUBSET Continuations, NEW text \in GuidText
  PROVE  /\ MarkStale(text, rs) \subseteq Continuations
         /\ \A m \in MarkStale(text, rs) : \E q \in rs :
              /\ m.client = q.client
              /\ m.at = q.at
              /\ m.at # "insert" => m = q
              /\ m.at = "insert" =>
                   /\ m.row = q.row
                   /\ m.stale = (q.stale \/ SameGuid(q.row.role.text, text))
<1> DEFINE Mark(q) == IF q.at = "insert" /\ SameGuid(q.row.role.text, text)
                        THEN [q EXCEPT !.stale = TRUE] ELSE q
<1>1. ASSUME NEW q \in rs
      PROVE  /\ Mark(q) \in Continuations
             /\ Mark(q).client = q.client
             /\ Mark(q).at = q.at
             /\ Mark(q).at # "insert" => Mark(q) = q
             /\ Mark(q).at = "insert" =>
                  /\ Mark(q).row = q.row
                  /\ Mark(q).stale = (q.stale \/ SameGuid(q.row.role.text, text))
  <2>1. q \in Continuations
    OBVIOUS
  <2>2. CASE q.at = "insert" /\ SameGuid(q.row.role.text, text)
    <3>1. q \in [at : {"insert"}, client : Clients,
                 row : AssignmentRows, stale : BOOLEAN]
      BY <2>1, <2>2, ContinuationFields
    <3>2. Mark(q) = [q EXCEPT !.stale = TRUE]
      BY <2>2
    <3>3. Mark(q) \in [at : {"insert"}, client : Clients,
                       row : AssignmentRows, stale : BOOLEAN]
      BY <3>1, <3>2
    <3>4. /\ Mark(q).client = q.client
          /\ Mark(q).at = q.at
          /\ Mark(q).row = q.row
          /\ Mark(q).stale = TRUE
      BY <3>1, <3>2
    <3> QED
      BY <2>2, <3>3, <3>4 DEF Continuations
  <2>3. CASE ~(q.at = "insert" /\ SameGuid(q.row.role.text, text))
    <3>1. Mark(q) = q
      BY <2>3
    <3>2. q.at = "insert" => q.stale \in BOOLEAN /\ ~SameGuid(q.row.role.text, text)
      BY <2>1, <2>3, ContinuationFields
    <3> QED
      BY <2>1, <3>1, <3>2
  <2> QED
    BY <2>2, <2>3
<1>2. MarkStale(text, rs) = {Mark(q) : q \in rs}
  BY DEF MarkStale
<1> QED
  BY <1>1, <1>2

(* The handler's test of a scope says that the definition declares it.      *)
LEMMA AssignableDeclares ==
  ASSUME TypeOK, NEW d \in roleDefinitions, NEW scope, AssignableAt(d, scope)
  PROVE  Declares(d, scope)
  BY DEF TypeOK, RoleRows, AssignableAt, Declares

(* What one arrival adds to the suspended requests.                          *)
LEMMA ArriveShape ==
  ASSUME TypeOK, NEW c \in Clients, Arrive(c)
  PROVE  /\ UNCHANGED <<roleDefinitions, roleAssignments, raced, reshaped>>
         /\ Idle(c)
         /\ \E q \in Continuations :
              /\ q.client = c
              /\ q.at # "delete"
              /\ q.at = "insert" =>
                   \/ IsBuiltIn(q.row.role.text)
                   \/ \E d \in GetRoleDefinition(q.row.role.text) :
                        Declares(d, q.row.scope)
              /\ inflight' = inflight \cup {q}
<1>1. CASE \E row \in AssignmentRows : CreateResolve(c, row)
  <2>1. PICK row \in AssignmentRows : CreateResolve(c, row)
    BY <1>1
  <2> DEFINE q == [at |-> "insert", client |-> c, row |-> row, stale |-> FALSE]
  <2>2. q \in Continuations /\ q.client = c /\ q.at = "insert" /\ q.row = row
    BY DEF Continuations
  <2>3. \/ IsBuiltIn(row.role.text)
        \/ \E d \in GetRoleDefinition(row.role.text) : Declares(d, row.scope)
    BY <2>1, AssignableDeclares DEF CreateResolve, GetRoleDefinition
  <2> QED
    BY <2>1, <2>2, <2>3 DEF CreateResolve
<1>2. CASE \E name \in Names : UnassignGet(c, name)
  <2>1. PICK name \in Names : UnassignGet(c, name)
    BY <1>2
  <2> DEFINE q == [at |-> "unassign", client |-> c, name |-> name]
  <2>2. q \in Continuations /\ q.client = c /\ q.at = "unassign"
    BY DEF Continuations
  <2> QED
    BY <2>1, <2>2 DEF UnassignGet
<1>3. CASE \E def \in RoleRows : PutRoleGet(c, def)
  <2>1. PICK def \in RoleRows : PutRoleGet(c, def)
    BY <1>3
  <2> DEFINE q == [at |-> "upsert", client |-> c, def |-> def]
  <2>2. q \in Continuations /\ q.client = c /\ q.at = "upsert"
    BY DEF Continuations
  <2> QED
    BY <2>1, <2>2 DEF PutRoleGet
<1>4. CASE \E text \in GuidText : DeleteRoleGet(c, text)
  <2>1. PICK text \in GuidText : DeleteRoleGet(c, text)
    BY <1>4
  <2> DEFINE q == [at |-> "count", client |-> c, text |-> text]
  <2>2. q \in Continuations /\ q.client = c /\ q.at = "count"
    BY DEF Continuations
  <2> QED
    BY <2>1, <2>2 DEF DeleteRoleGet
<1> QED
  BY <1>1, <1>2, <1>3, <1>4 DEF Arrive

(* A count that found nothing turns the request into a delete and leaves the *)
(* other requests alone.                                                     *)
LEMMA CountShape ==
  ASSUME TypeOK, NEW r \in inflight, DeleteRoleCount(r)
  PROVE  \E q \in Continuations :
            /\ q.client = r.client
            /\ q.at = "delete"
            /\ q.text = r.text
            /\ inflight' = Others(r) \cup {q}
<1>1. r \in Continuations /\ r.at = "count"
  BY DEF TypeOK, DeleteRoleCount
<1>2. r \in [at : {"count", "delete"}, client : Clients, text : GuidText]
  BY <1>1, ContinuationFields
<1> DEFINE q == [r EXCEPT !.at = "delete"]
<1>3. /\ q \in [at : {"count", "delete"}, client : Clients, text : GuidText]
      /\ q.client = r.client
      /\ q.at = "delete"
      /\ q.text = r.text
  BY <1>2
<1>4. q \in Continuations
  BY <1>3 DEF Continuations
<1> QED
  BY <1>3, <1>4 DEF DeleteRoleCount

LEMMA NextTypeOK == TypeOK /\ [Next]_vars => TypeOK'
<1> SUFFICES ASSUME TypeOK, [Next]_vars PROVE TypeOK'
  OBVIOUS
<1>1. ASSUME NEW c \in Clients, Arrive(c) PROVE TypeOK'
  <2>1. PICK q \in Continuations : q.client = c /\ inflight' = inflight \cup {q}
    BY <1>1, ArriveShape
  <2>2. Idle(c) /\ UNCHANGED <<roleDefinitions, roleAssignments, raced, reshaped>>
    BY <1>1, ArriveShape
  <2> QED
    BY <2>1, <2>2 DEF TypeOK, Idle
<1>2. ASSUME NEW r \in inflight, CreateInsert(r) PROVE TypeOK'
  <2>1. r.row \in AssignmentRows
    BY <1>2, ContinuationFields DEF TypeOK, CreateInsert
  <2>2. r.row.name \in Names
    BY <2>1 DEF AssignmentRows
  <2> QED
    BY <1>2, <2>1, <2>2 DEF TypeOK, CreateInsert, AssignmentConflict, Others
<1>3. ASSUME NEW r \in inflight, UnassignExec(r) PROVE TypeOK'
  BY <1>3 DEF TypeOK, UnassignExec, Others
<1>4. ASSUME NEW r \in inflight, PutRoleUpsert(r) PROVE TypeOK'
  <2>1. r.def \in RoleRows
    BY <1>4, ContinuationFields DEF TypeOK, PutRoleUpsert
  <2>2. r.def.text \in GuidText
    BY <2>1 DEF RoleRows
  <2>3. Others(r) \in SUBSET Continuations
    BY DEF TypeOK, Others
  <2>4. inflight' \subseteq Continuations
    BY <1>4, <2>2, <2>3, MarkStaleKeeps DEF PutRoleUpsert
  <2>5. ASSUME NEW m \in inflight', NEW n \in inflight', m.client = n.client
        PROVE  m = n
    <3> DEFINE Mark(q) == IF q.at = "insert" /\ SameGuid(q.row.role.text, r.def.text)
                            THEN [q EXCEPT !.stale = TRUE] ELSE q
    <3>1. inflight' = {Mark(q) : q \in Others(r)}
      BY <1>4 DEF PutRoleUpsert, MarkStale
    <3>2. PICK q1 \in Others(r) : m = Mark(q1)
      BY <3>1
    <3>3. PICK q2 \in Others(r) : n = Mark(q2)
      BY <3>1
    <3>4. m.client = q1.client
      <4>1. MarkStale(r.def.text, {q1}) = {Mark(q1)}
        BY DEF MarkStale
      <4>2. {q1} \in SUBSET Continuations
        BY <2>3
      <4> QED
        BY <2>2, <3>2, <4>1, <4>2, MarkStaleKeeps
    <3>5. n.client = q2.client
      <4>1. MarkStale(r.def.text, {q2}) = {Mark(q2)}
        BY DEF MarkStale
      <4>2. {q2} \in SUBSET Continuations
        BY <2>3
      <4> QED
        BY <2>2, <3>3, <4>1, <4>2, MarkStaleKeeps
    <3>6. q1 = q2
      BY <2>5, <3>4, <3>5 DEF TypeOK, Others
    <3> QED
      BY <3>2, <3>3, <3>6
  <2>6. \A d, e \in roleDefinitions' : d.text = e.text => d = e
    BY <1>4 DEF TypeOK, PutRoleUpsert
  <2>7. roleDefinitions' \subseteq RoleRows /\ reshaped' \subseteq Names
    BY <1>4, <2>1 DEF TypeOK, PutRoleUpsert
  <2> QED
    BY <1>4, <2>4, <2>5, <2>6, <2>7 DEF TypeOK, PutRoleUpsert
<1>5. ASSUME NEW r \in inflight, DeleteRoleCount(r) PROVE TypeOK'
  <2>1. PICK q \in Continuations : q.client = r.client /\ inflight' = Others(r) \cup {q}
    BY <1>5, CountShape
  <2> QED
    BY <1>5, <2>1 DEF TypeOK, DeleteRoleCount, Others
<1>6. ASSUME NEW r \in inflight, DeleteRoleExec(r) PROVE TypeOK'
  BY <1>6 DEF TypeOK, DeleteRoleExec, Others
<1>7. ASSUME NEW r \in inflight,
             CreateConflict(r) \/ PutRoleConflict(r) \/ DeleteRoleRefused(r)
      PROVE  TypeOK'
  BY <1>7 DEF TypeOK, CreateConflict, PutRoleConflict, DeleteRoleRefused, Others
<1>8. CASE Restart
  BY <1>8 DEF TypeOK, Restart
<1>9. CASE UNCHANGED vars
  BY <1>9 DEF TypeOK, vars
<1> QED
  BY <1>1, <1>2, <1>3, <1>4, <1>5, <1>6, <1>7, <1>8, <1>9 DEF Next, Resume

(* Every reachable state of the role tables and of the suspended requests is *)
(* well typed, no client has two requests and no table two rows with one key.*)
THEOREM TypeCorrect == Spec => []TypeOK
  BY InitTypeOK, NextTypeOK, PTL DEF Spec

-------------------------------------------------------------------------------
(* A role that resolves goes on resolving over any step but a delete's.      *)
LEMMA ResolvableKept ==
  ASSUME NEW role, NEW r, PutRoleUpsert(r), Resolvable(role)
  PROVE  Resolvable(role)'
<1>1. CASE IsBuiltIn(role.text)
  BY <1>1 DEF Resolvable, IsBuiltIn
<1>2. CASE GetRoleDefinition(role.text) # {}
  <2>1. PICK d \in roleDefinitions : SameGuid(d.text, role.text)
    BY <1>2 DEF GetRoleDefinition
  <2>2. CASE d.text = r.def.text
    BY <2>1, <2>2 DEF PutRoleUpsert, Resolvable, GetRoleDefinition, SameGuid
  <2>3. CASE d.text # r.def.text
    BY <2>1, <2>3 DEF PutRoleUpsert, Resolvable, GetRoleDefinition, SameGuid
  <2> QED
    BY <2>2, <2>3
<1> QED
  BY <1>1, <1>2 DEF Resolvable

LEMMA NextDanglingInv == DanglingInv /\ [Next]_vars => DanglingInv'
<1> SUFFICES ASSUME DanglingInv, [Next]_vars
             PROVE  CountedDeletes' /\ DanglingExplained'
  BY NextTypeOK DEF DanglingInv
<1> USE DEF DanglingInv
<1>1. ASSUME NEW c \in Clients, Arrive(c)
      PROVE  CountedDeletes' /\ DanglingExplained'
  <2>1. PICK q \in Continuations : q.at # "delete" /\ inflight' = inflight \cup {q}
    BY <1>1, ArriveShape
  <2>2. UNCHANGED <<roleDefinitions, roleAssignments, raced>>
    BY <1>1, ArriveShape
  <2>3. At("delete")' = At("delete")
    BY <2>1 DEF At
  <2> QED
    BY <2>2, <2>3 DEF CountedDeletes, DanglingExplained, Resolvable, GetRoleDefinition
<1>2. ASSUME NEW r \in inflight, CreateInsert(r)
      PROVE  CountedDeletes' /\ DanglingExplained'
  <2>1. At("delete")' = At("delete")
    BY <1>2 DEF CreateInsert, At, Others
  <2>2. RoleLeaving(r) => r.row.name \in raced'
    BY <1>2 DEF CreateInsert
  <2>3. CountedDeletes'
    BY <1>2, <2>1, <2>2
       DEF CountedDeletes, CreateInsert, RoleLeaving, SameGuid
  <2>4. DanglingExplained'
    BY <1>2, <2>2
       DEF DanglingExplained, CreateInsert, RoleLeaving, Resolvable, GetRoleDefinition
  <2> QED
    BY <2>3, <2>4
<1>3. ASSUME NEW r \in inflight, UnassignExec(r)
      PROVE  CountedDeletes' /\ DanglingExplained'
  BY <1>3 DEF UnassignExec, CountedDeletes, DanglingExplained, At, Others,
              Resolvable, GetRoleDefinition
<1>4. ASSUME NEW r \in inflight, PutRoleUpsert(r)
      PROVE  CountedDeletes' /\ DanglingExplained'
  <2>1. r.def.text \in GuidText /\ Others(r) \in SUBSET Continuations
    BY <1>4, ContinuationFields DEF TypeOK, PutRoleUpsert, RoleRows, Others
  <2>2. At("delete")' \subseteq At("delete")
    BY <1>4, <2>1, MarkStaleKeeps DEF PutRoleUpsert, At, Others
  <2>3. CountedDeletes'
    BY <1>4, <2>2 DEF CountedDeletes, PutRoleUpsert
  <2>4. DanglingExplained'
    BY <1>4, ResolvableKept DEF DanglingExplained, PutRoleUpsert
  <2> QED
    BY <2>3, <2>4
<1>5. ASSUME NEW r \in inflight, DeleteRoleCount(r)
      PROVE  CountedDeletes' /\ DanglingExplained'
  <2>1. PICK q \in Continuations :
          q.at = "delete" /\ q.text = r.text /\ inflight' = Others(r) \cup {q}
    BY <1>5, CountShape
  <2>2. At("delete")' \subseteq At("delete") \cup {q}
    BY <2>1 DEF At, Others
  <2>3. \A a \in roleAssignments : SameGuid(a.role.text, q.text) => a.role.slash
    BY <1>5, <2>1 DEF DeleteRoleCount, AssignmentsForRole, TypeOK, AssignmentRows, RoleIds
  <2>4. CountedDeletes'
    BY <1>5, <2>2, <2>3 DEF CountedDeletes, DeleteRoleCount
  <2>5. DanglingExplained'
    BY <1>5 DEF DanglingExplained, DeleteRoleCount, Resolvable, GetRoleDefinition
  <2> QED
    BY <2>4, <2>5
<1>6. ASSUME NEW r \in inflight, DeleteRoleExec(r)
      PROVE  CountedDeletes' /\ DanglingExplained'
  <2>1. CountedDeletes'
    BY <1>6 DEF CountedDeletes, DeleteRoleExec, At, Others
  <2>2. ASSUME NEW a \in roleAssignments, ~Resolvable(a.role)'
        PROVE  a.name \in raced \/ a.role.slash
    <3>1. CASE SameGuid(a.role.text, r.text)
      BY <1>6, <3>1 DEF CountedDeletes, DeleteRoleExec, At
    <3>2. CASE ~SameGuid(a.role.text, r.text)
      <4>1. ~Resolvable(a.role)
        BY <1>6, <2>2, <3>2 DEF DeleteRoleExec, Resolvable, IsBuiltIn,
                                GetRoleDefinition, SameGuid
      <4> QED
        BY <4>1 DEF DanglingExplained
    <3> QED
      BY <3>1, <3>2
  <2> QED
    BY <1>6, <2>1, <2>2 DEF DanglingExplained, DeleteRoleExec
<1>7. ASSUME NEW r \in inflight,
             CreateConflict(r) \/ PutRoleConflict(r) \/ DeleteRoleRefused(r)
      PROVE  CountedDeletes' /\ DanglingExplained'
  BY <1>7 DEF CreateConflict, PutRoleConflict, DeleteRoleRefused, Others, At,
              CountedDeletes, DanglingExplained, Resolvable, GetRoleDefinition
<1>8. CASE Restart
  BY <1>8 DEF Restart, At, CountedDeletes, DanglingExplained, Resolvable, GetRoleDefinition
<1>9. CASE UNCHANGED vars
  BY <1>9 DEF vars, At, CountedDeletes, DanglingExplained, Resolvable, GetRoleDefinition
<1> QED
  BY <1>1, <1>2, <1>3, <1>4, <1>5, <1>6, <1>7, <1>8, <1>9 DEF Next, Resume

(* However requests interleave and whenever the process restarts, an         *)
(* assignment whose definition is gone was inserted while its role was being *)
(* deleted, or carries a role id with a trailing slash.                      *)
THEOREM DanglingIsExplained == Spec => []DanglingExplained
<1>1. Init => DanglingInv
  BY InitTypeOK DEF Init, DanglingInv, CountedDeletes, DanglingExplained, At
<1>2. DanglingInv => DanglingExplained
  BY DEF DanglingInv
<1> QED
  BY <1>1, <1>2, NextDanglingInv, PTL DEF Spec

-------------------------------------------------------------------------------
LEMMA NextScopeInv == ScopeInv /\ [Next]_vars => ScopeInv'
<1> SUFFICES ASSUME ScopeInv, [Next]_vars
             PROVE  CheckedCreates' /\ OutOfScopeExplained'
  BY NextTypeOK DEF ScopeInv
<1> USE DEF ScopeInv
<1>1. ASSUME NEW c \in Clients, Arrive(c)
      PROVE  CheckedCreates' /\ OutOfScopeExplained'
  <2>1. PICK q \in Continuations :
          /\ q.at = "insert" =>
               \/ IsBuiltIn(q.row.role.text)
               \/ \E d \in GetRoleDefinition(q.row.role.text) :
                    Declares(d, q.row.scope)
          /\ inflight' = inflight \cup {q}
    BY <1>1, ArriveShape
  <2>2. UNCHANGED <<roleDefinitions, roleAssignments, reshaped>>
    BY <1>1, ArriveShape
  <2> QED
    BY <2>1, <2>2 DEF CheckedCreates, OutOfScopeExplained, At, GetRoleDefinition
<1>2. ASSUME NEW r \in inflight, CreateInsert(r)
      PROVE  CheckedCreates' /\ OutOfScopeExplained'
  <2>1. CheckedCreates'
    BY <1>2 DEF CreateInsert, CheckedCreates, At, Others, GetRoleDefinition
  <2>2. OutOfScopeExplained'
    BY <1>2 DEF CreateInsert, CheckedCreates, OutOfScopeExplained, At, GetRoleDefinition
  <2> QED
    BY <2>1, <2>2
<1>3. ASSUME NEW r \in inflight, UnassignExec(r)
      PROVE  CheckedCreates' /\ OutOfScopeExplained'
  BY <1>3 DEF UnassignExec, CheckedCreates, OutOfScopeExplained, At, Others,
              GetRoleDefinition
<1>4. ASSUME NEW r \in inflight, PutRoleUpsert(r)
      PROVE  CheckedCreates' /\ OutOfScopeExplained'
  <2>1. r.def.text \in GuidText /\ Others(r) \in SUBSET Continuations
    BY <1>4, ContinuationFields DEF TypeOK, PutRoleUpsert, RoleRows, Others
  <2>2. ASSUME NEW text, ~SameGuid(text, r.def.text)
        PROVE  GetRoleDefinition(text)' = GetRoleDefinition(text)
    BY <1>4, <2>2 DEF PutRoleUpsert, GetRoleDefinition, SameGuid
  <2>3. CheckedCreates'
    <3> SUFFICES ASSUME NEW m \in At("insert")', ~m.stale,
                        ~IsBuiltIn(m.row.role.text), GetRoleDefinition(m.row.role.text)' # {}
                 PROVE  \E d \in GetRoleDefinition(m.row.role.text)' :
                          Declares(d, m.row.scope)
      BY DEF CheckedCreates, IsBuiltIn, Declares
    <3>1. m \in MarkStale(r.def.text, Others(r)) /\ m.at = "insert"
      BY <1>4 DEF At, PutRoleUpsert
    <3>2. PICK q \in Others(r) :
            /\ q.at = "insert"
            /\ m.row = q.row
            /\ m.stale = (q.stale \/ SameGuid(q.row.role.text, r.def.text))
      BY <2>1, <3>1, MarkStaleKeeps
    <3>3. ~q.stale /\ ~SameGuid(q.row.role.text, r.def.text)
      BY <3>2
    <3>4. GetRoleDefinition(m.row.role.text)' = GetRoleDefinition(m.row.role.text)
      BY <2>2, <3>2, <3>3
    <3>5. q \in At("insert")
      BY <3>2 DEF At, Others
    <3> QED
      BY <3>2, <3>3, <3>4, <3>5 DEF CheckedCreates
  <2>4. OutOfScopeExplained'
    <3> SUFFICES ASSUME NEW a \in roleAssignments, a.name \notin reshaped',
                        ~IsBuiltIn(a.role.text), GetRoleDefinition(a.role.text)' # {}
                 PROVE  \E d \in GetRoleDefinition(a.role.text)' : Declares(d, a.scope)
      BY <1>4 DEF OutOfScopeExplained, PutRoleUpsert, IsBuiltIn, Declares
    <3>1. a.name \in Names
      BY DEF TypeOK, AssignmentRows
    <3>2. ~SameGuid(a.role.text, r.def.text) /\ a.name \notin reshaped
      BY <1>4, <3>1 DEF PutRoleUpsert
    <3> QED
      BY <2>2, <3>2 DEF OutOfScopeExplained
  <2> QED
    BY <2>3, <2>4
<1>5. ASSUME NEW r \in inflight, DeleteRoleCount(r)
      PROVE  CheckedCreates' /\ OutOfScopeExplained'
  <2>1. PICK q \in Continuations : q.at = "delete" /\ inflight' = Others(r) \cup {q}
    BY <1>5, CountShape
  <2> QED
    BY <1>5, <2>1 DEF DeleteRoleCount, CheckedCreates, OutOfScopeExplained, At, Others,
                      GetRoleDefinition
<1>6. ASSUME NEW r \in inflight, DeleteRoleExec(r)
      PROVE  CheckedCreates' /\ OutOfScopeExplained'
  <2>1. ASSUME NEW text
        PROVE  GetRoleDefinition(text)' = {} \/ GetRoleDefinition(text)' = GetRoleDefinition(text)
    BY <1>6 DEF DeleteRoleExec, GetRoleDefinition, SameGuid
  <2>2. At("insert")' \subseteq At("insert")
    BY <1>6 DEF DeleteRoleExec, At, Others
  <2>3. CheckedCreates'
    BY <2>1, <2>2 DEF CheckedCreates, IsBuiltIn, Declares
  <2>4. OutOfScopeExplained'
    BY <1>6, <2>1 DEF OutOfScopeExplained, DeleteRoleExec, IsBuiltIn, Declares
  <2> QED
    BY <2>3, <2>4
<1>7. ASSUME NEW r \in inflight,
             CreateConflict(r) \/ PutRoleConflict(r) \/ DeleteRoleRefused(r)
      PROVE  CheckedCreates' /\ OutOfScopeExplained'
  BY <1>7 DEF CreateConflict, PutRoleConflict, DeleteRoleRefused, Others, At,
              CheckedCreates, OutOfScopeExplained, GetRoleDefinition
<1>8. CASE Restart
  BY <1>8 DEF Restart, At, CheckedCreates, OutOfScopeExplained, GetRoleDefinition
<1>9. CASE UNCHANGED vars
  BY <1>9 DEF vars, At, CheckedCreates, OutOfScopeExplained, GetRoleDefinition
<1> QED
  BY <1>1, <1>2, <1>3, <1>4, <1>5, <1>6, <1>7, <1>8, <1>9 DEF Next, Resume

(* An assignment of a custom role outside every scope the role declares is   *)
(* the result of a rewrite of the role after the assignment was checked.     *)
THEOREM OutOfScopeIsExplained == Spec => []OutOfScopeExplained
<1>1. Init => ScopeInv
  BY InitTypeOK DEF Init, ScopeInv, CheckedCreates, OutOfScopeExplained, At
<1>2. ScopeInv => OutOfScopeExplained
  BY DEF ScopeInv
<1> QED
  BY <1>1, <1>2, NextScopeInv, PTL DEF Spec

-------------------------------------------------------------------------------
(* One request at a time, whichever client sends it.                         *)
OneClient == \A c, d \in Clients : c = d

(* A create that is about to insert still has its role, and none raced.      *)
InTurn ==
  /\ raced = {}
  /\ \A q \in At("insert") : Resolvable(q.row.role)

LEMMA NextInTurn ==
  ASSUME OneClient
  PROVE  TypeOK /\ InTurn /\ [Next]_vars => InTurn'
<1> SUFFICES ASSUME TypeOK, InTurn, [Next]_vars PROVE InTurn'
  OBVIOUS
<1>0. raced = {}
  BY DEF InTurn
<1>1. ASSUME NEW r \in inflight, NEW q \in inflight PROVE q = r
  <2>1. q.client \in Clients /\ r.client \in Clients
    BY ContinuationFields DEF TypeOK
  <2> QED
    BY <2>1 DEF OneClient, TypeOK
<1>2. ASSUME NEW c \in Clients, Arrive(c) PROVE InTurn'
  <2>1. PICK q \in Continuations :
          /\ q.at = "insert" =>
               \/ IsBuiltIn(q.row.role.text)
               \/ \E d \in GetRoleDefinition(q.row.role.text) :
                    Declares(d, q.row.scope)
          /\ inflight' = inflight \cup {q}
    BY <1>2, ArriveShape
  <2>2. UNCHANGED <<roleDefinitions, raced>>
    BY <1>2, ArriveShape
  <2>3. q.at = "insert" => Resolvable(q.row.role)
    BY <2>1 DEF Resolvable
  <2> QED
    BY <2>1, <2>2, <2>3 DEF InTurn, At, Resolvable, GetRoleDefinition
<1>3. ASSUME NEW r \in inflight, CreateInsert(r) PROVE InTurn'
  <2>1. Resolvable(r.row.role)
    BY <1>3 DEF InTurn, At, CreateInsert
  <2>2. At("delete") = {}
    BY <1>1, <1>3 DEF At, CreateInsert
  <2>3. raced' = {}
    BY <1>0, <1>3, <2>1, <2>2 DEF CreateInsert, RoleLeaving
  <2>4. inflight' = {}
    BY <1>1, <1>3 DEF CreateInsert, Others
  <2> QED
    BY <2>3, <2>4 DEF InTurn, At
<1>4. ASSUME NEW r \in inflight, PutRoleUpsert(r) PROVE InTurn'
  <2>1. inflight' = {}
    BY <1>1, <1>4 DEF PutRoleUpsert, Others, MarkStale
  <2> QED
    BY <1>0, <1>4, <2>1 DEF PutRoleUpsert, InTurn, At
<1>5. ASSUME NEW r \in inflight, DeleteRoleCount(r) PROVE InTurn'
  <2>1. PICK q \in Continuations : q.at = "delete" /\ inflight' = Others(r) \cup {q}
    BY <1>5, CountShape
  <2>2. At("insert")' = {}
    BY <1>1, <2>1 DEF At, Others
  <2> QED
    BY <1>0, <1>5, <2>2 DEF DeleteRoleCount, InTurn
<1>6. ASSUME NEW r \in inflight,
             UnassignExec(r) \/ DeleteRoleExec(r) \/ CreateConflict(r)
               \/ PutRoleConflict(r) \/ DeleteRoleRefused(r)
      PROVE  InTurn'
  <2>1. inflight' = {} /\ raced' = {}
    BY <1>0, <1>1, <1>6 DEF UnassignExec, DeleteRoleExec, CreateConflict,
                            PutRoleConflict, DeleteRoleRefused, Others
  <2> QED
    BY <2>1 DEF InTurn, At
<1>7. CASE Restart \/ UNCHANGED vars
  BY <1>7 DEF Restart, vars, InTurn, At, Resolvable, GetRoleDefinition
<1> QED
  BY <1>2, <1>3, <1>4, <1>5, <1>6, <1>7 DEF Next, Resume

(* No assignment dangles but those the count cannot see.                     *)
DanglingOnlyBySlash ==
  \A a \in roleAssignments : a.role.slash \/ Resolvable(a.role)

(* When requests come one after the other, deleteRoleDefinition's refusal    *)
(* works as its comment says, restarts included, for every assignment whose  *)
(* role id does not end in a slash: races and slashes are the only ways to   *)
(* leave an assignment that grants nothing.                                  *)
THEOREM NoneDanglesInTurn ==
  ASSUME OneClient
  PROVE  Spec => []DanglingOnlyBySlash
<1>1. Init => DanglingInv /\ InTurn
  BY InitTypeOK DEF Init, DanglingInv, CountedDeletes, DanglingExplained, InTurn, At
<1>2. DanglingInv /\ InTurn /\ [Next]_vars => (DanglingInv /\ InTurn)'
  BY NextDanglingInv, NextInTurn DEF DanglingInv
<1>3. DanglingInv /\ InTurn => DanglingOnlyBySlash
  BY DEF DanglingInv, InTurn, DanglingExplained, DanglingOnlyBySlash
<1> QED
  BY <1>1, <1>2, <1>3, PTL DEF Spec

===============================================================================
