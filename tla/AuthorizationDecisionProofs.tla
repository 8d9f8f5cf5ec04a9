--------------------- MODULE AuthorizationDecisionProofs ---------------------
(***************************************************************************)
(* Proofs about AuthorizationDecision, for any roles, assignments, denies, *)
(* scopes and queries, and any number of writes between two reads.         *)
(***************************************************************************)
EXTENDS AuthorizationDecision, TLAPS

Running == {"denies", "assignments", "denyList", "roles"}
PastDenies == {"assignments", "denyList", "roles"}

\* The code's predicates, of tables given as arguments: some deny of denials
\* applies to q; the assignment a grants what q asks; what Moment records.
Refused(denials, q) ==
  \E d \in denials : AppliesAt(d, q.scope) /\ DeniesAction(d, q.ids, q.action)

Allowing(a, definitions, q) ==
  /\ ScopeApplies(a.scope, q.scope)
  /\ a.principal \in q.ids
  /\ q.context \in a.condition
  /\ \E def \in BuiltInRoles \cup definitions :
       def.role = a.role /\ GrantsAction(def, q.action)

MomentOf(definitions, assignments, denials, q) ==
  LET granting == {a \in assignments : Allowing(a, definitions, q)}
  IN  [quiet |-> TRUE,
       denied |-> Refused(denials, q),
       clear |-> ~Refused(denials, q),
       steady |-> granting,
       granted |-> granting # {},
       open |-> granting # {} /\ ~Refused(denials, q)]

-------------------------------------------------------------------------------
(* The inductive invariant. *)

(* No row of role_definitions has the id of a built-in role, so resolveRole, *)
(* which looks at the built-ins first, hides none.                           *)
BuiltInsApart ==
  \A def \in roleDefinitions, other \in BuiltInRoles : def.role # other.role

(* What the history of a request says of all its moments is so now, and all  *)
(* that is so now it says while nothing has changed.                         *)
HistoryHolds(r, definitions, assignments, denials) ==
  /\ r.seen.denied => Refused(denials, r.query)
  /\ r.seen.clear => ~Refused(denials, r.query)
  /\ \A a \in r.seen.steady :
       a \in assignments /\ Allowing(a, definitions, r.query)
  /\ r.seen.quiet =>
       /\ Refused(denials, r.query) => r.seen.denied
       /\ \A a \in assignments :
            Allowing(a, definitions, r.query) => a \in r.seen.steady
       /\ r.seen.open <=>
            /\ \E a \in assignments : Allowing(a, definitions, r.query)
            /\ ~Refused(denials, r.query)

(* A deny in force all along has stopped an Evaluate, and is in the document *)
(* of a feed.                                                                *)
DenySeen(r) ==
  r.seen.denied =>
    /\ r.kind = "feed"
    /\ \E d \in r.block : DeniesAction(d, r.query.ids, r.query.action)

(* An assignment that grants all along is still to be resolved, or it has    *)
(* its entry; with nothing written, no other assignment has.                 *)
AssignmentsSeen(r, assignments) ==
  /\ r.seen.steady \subseteq r.pending
  /\ r.seen.quiet =>
       \A a \in r.pending : a \in assignments /\ ScopeApplies(a.scope, r.query.scope)

RolesSeen(r, definitions, assignments) ==
  /\ \A a \in r.seen.steady :
       \/ a \in r.pending
       \/ \E e \in r.effective : e.assignment = a /\ GrantsAction(e, r.query.action)
  /\ r.seen.quiet =>
       /\ \A a \in r.pending :
            a \in assignments /\ ScopeApplies(a.scope, r.query.scope)
       /\ \A e \in r.effective :
            /\ e.assignment \in assignments
            /\ ScopeApplies(e.assignment.scope, r.query.scope)
            /\ \E def \in BuiltInRoles \cup definitions :
                 /\ def.role = e.assignment.role
                 /\ def.data = e.data
                 /\ def.notData = e.notData

ReaderHolds(r, definitions, assignments, denials) ==
  /\ r.at \in Running => HistoryHolds(r, definitions, assignments, denials)
  /\ r.at \in PastDenies => DenySeen(r)
  /\ r.at = "denyList" => AssignmentsSeen(r, assignments)
  /\ r.at = "roles" => RolesSeen(r, definitions, assignments)

ReaderInv == ReaderHolds(request, roleDefinitions, roleAssignments, denyAssignments)

DecisionsRight ==
  StableDenyRefuses /\ StableGrantAllows /\ QuietDecisionIsPolicy /\ FeedNeverWidens

DecisionInv == TypeOK /\ BuiltInsApart /\ ReaderInv /\ DecisionsRight

-------------------------------------------------------------------------------
(* Lemmas about the rows, and the reader's records. *)

\* What a row of each table holds.
LEMMA RowFields ==
  /\ \A def \in RoleRows :
       def.role \in Roles /\ def.data \subseteq Actions /\ def.notData \subseteq Actions
  /\ \A a \in AssignmentRows :
       /\ a.name \in Names /\ a.scope \in ScopeSet /\ a.role \in Roles
       /\ a.principal \in Principals /\ a.condition \subseteq Contexts
  /\ \A d \in DenyRows : d.name \in DenyNames /\ d.here \in BOOLEAN
  BY DEF RoleRows, AssignmentRows, DenyRows

(* What a moment's record says: the policy of the tables it is taken from.   *)
LEMMA MomentSays ==
  ASSUME NEW definitions, NEW assignments \in SUBSET AssignmentRows, NEW denials,
         NEW q
  PROVE  LET m == MomentOf(definitions, assignments, denials, q)
         IN  /\ m \in Histories
             /\ m.quiet
             /\ m.denied <=> Refused(denials, q)
             /\ m.clear <=> ~Refused(denials, q)
             /\ m.steady = {a \in assignments : Allowing(a, definitions, q)}
             /\ m.open <=> /\ \E a \in assignments : Allowing(a, definitions, q)
                           /\ ~Refused(denials, q)
<1> DEFINE m == MomentOf(definitions, assignments, denials, q)
           D == Refused(denials, q)
           G == {a \in assignments : Allowing(a, definitions, q)}
<1>1. D \in BOOLEAN /\ (D <=> Refused(denials, q))
  BY DEF Refused
<1>2. G = {a \in assignments : Allowing(a, definitions, q)}
  OBVIOUS
<1>3. G \in SUBSET AssignmentRows
  OBVIOUS
<1>4. G # {} <=> \E a \in assignments : Allowing(a, definitions, q)
  OBVIOUS
<1>5. m = [quiet |-> TRUE, denied |-> D, clear |-> ~D, steady |-> G,
           granted |-> G # {}, open |-> G # {} /\ ~D]
  BY DEF MomentOf
<1> HIDE DEF m, D, G
<1>6. m \in Histories
  BY <1>1, <1>3, <1>5 DEF Histories
<1>7. /\ m.quiet = TRUE
      /\ m.denied = D
      /\ m.clear = ~D
      /\ m.steady = G
      /\ m.open = (G # {} /\ ~D)
  BY <1>5
<1>8. m.denied <=> Refused(denials, q)
  BY <1>1, <1>7
<1>9. m.clear <=> ~Refused(denials, q)
  BY <1>1, <1>7
<1>10. m.open <=> /\ \E a \in assignments : Allowing(a, definitions, q)
                  /\ ~Refused(denials, q)
  BY <1>1, <1>4, <1>7
<1>11. m.quiet
  BY <1>7
<1> QED
  BY <1>2, <1>6, <1>7, <1>8, <1>9, <1>10, <1>11 DEF m

(* The documents' policy, PolicyDenies and PolicyGrants, is that of the      *)
(* code's AppliesAt, DeniesAction and GrantsAction over the tables.          *)
LEMMA MomentIsOfTheTables ==
  ASSUME NEW q
  PROVE  /\ Moment(q) =
              MomentOf(roleDefinitions, roleAssignments, denyAssignments, q)
         /\ Moment(q)' =
              MomentOf(roleDefinitions', roleAssignments', denyAssignments', q)
<1>1. ASSUME NEW a, NEW definitions
      PROVE  (/\ ScopeApplies(a.scope, q.scope)
              /\ a.principal \in q.ids
              /\ q.context \in a.condition
              /\ \E def \in BuiltInRoles \cup definitions :
                   def.role = a.role /\ q.action \in def.data \ def.notData)
             <=> Allowing(a, definitions, q)
  BY DEF Allowing, GrantsAction
<1>2. PolicyDenies(q) = Refused(denyAssignments, q)
  BY Zenon
  DEF PolicyDenies, Refused, AppliesAt, DeniesAction, AppliesToPrincipal
<1>3. PolicyDenies(q)' = Refused(denyAssignments', q)
  BY Zenon
  DEF PolicyDenies, Refused, AppliesAt, DeniesAction, AppliesToPrincipal
<1>4. PolicyGrants(q) = {a \in roleAssignments : Allowing(a, roleDefinitions, q)}
  BY <1>1 DEF PolicyGrants
<1>5. PolicyGrants(q)' = {a \in roleAssignments' : Allowing(a, roleDefinitions', q)}
  BY <1>1 DEF PolicyGrants
<1>6. Moment(q) = MomentOf(roleDefinitions, roleAssignments, denyAssignments, q)
  BY <1>2, <1>4 DEF Moment, MomentOf
<1>7. Moment(q)' =
        MomentOf(roleDefinitions', roleAssignments', denyAssignments', q)
  BY <1>3, <1>5 DEF Moment, MomentOf
<1> QED
  BY <1>6, <1>7

(* A history extended by a moment is well formed, and keeps of both what     *)
(* they have in common.                                                      *)
LEMMA ExtendKeeps ==
  ASSUME NEW h \in Histories, NEW m \in Histories
  PROVE  /\ Extend(h, m) \in Histories
         /\ ~Extend(h, m).quiet
         /\ Extend(h, m).denied => h.denied /\ m.denied
         /\ Extend(h, m).clear => h.clear /\ m.clear
         /\ Extend(h, m).steady = h.steady \cap m.steady
<1>1. /\ h.quiet \in BOOLEAN /\ h.denied \in BOOLEAN /\ h.clear \in BOOLEAN
      /\ h.granted \in BOOLEAN /\ h.open \in BOOLEAN
      /\ h.steady \in SUBSET AssignmentRows
  BY DEF Histories
<1>2. /\ (h.denied /\ m.denied) \in BOOLEAN
      /\ (h.clear /\ m.clear) \in BOOLEAN
      /\ (h.granted \/ m.granted) \in BOOLEAN
      /\ (h.open \/ m.open) \in BOOLEAN
  OBVIOUS
<1>3. (h.steady \cap m.steady) \in SUBSET AssignmentRows
  BY <1>1
<1> DEFINE de == h.denied /\ m.denied
           cl == h.clear /\ m.clear
           st == h.steady \cap m.steady
           gr == h.granted \/ m.granted
           op == h.open \/ m.open
<1>4. Extend(h, m) = [quiet |-> FALSE, denied |-> de, clear |-> cl,
                      steady |-> st, granted |-> gr, open |-> op]
  BY DEF Extend
<1>5. de \in BOOLEAN /\ cl \in BOOLEAN /\ gr \in BOOLEAN /\ op \in BOOLEAN
      /\ st \in SUBSET AssignmentRows
  BY <1>2, <1>3
<1>6. (de => h.denied /\ m.denied) /\ (cl => h.clear /\ m.clear)
      /\ st = h.steady \cap m.steady
  OBVIOUS
<1> HIDE DEF de, cl, st, gr, op
<1>7. Extend(h, m) \in Histories
  BY <1>4, <1>5 DEF Histories
<1>8. /\ Extend(h, m).quiet = FALSE
      /\ Extend(h, m).denied = de
      /\ Extend(h, m).clear = cl
      /\ Extend(h, m).steady = st
  BY <1>4
<1> QED
  BY <1>5, <1>6, <1>7, <1>8

(* A request is of one of six kinds, with its fields typed.                  *)
LEMMA RequestFields ==
  ASSUME NEW r \in Requests
  PROVE  /\ r.at \in {"idle", "answered"} \cup Running
         /\ r.at = "idle" => r = [at |-> "idle"]
         /\ r.at # "idle" =>
              r.kind \in Kinds /\ r.query \in Queries /\ r.seen \in Histories
         /\ r.at = "denies" =>
              r \in [at : {"denies"}, kind : Kinds, query : Queries, seen : Histories]
         /\ r.at = "assignments" =>
              /\ r.block \in SUBSET DenyRows
              /\ r \in [at : {"assignments"}, kind : Kinds, query : Queries,
                        seen : Histories, block : SUBSET DenyRows]
         /\ r.at = "denyList" =>
              /\ r.block \in SUBSET DenyRows
              /\ r.pending \in SUBSET AssignmentRows
              /\ r \in [at : {"denyList"}, kind : Kinds, query : Queries,
                        seen : Histories, block : SUBSET DenyRows,
                        pending : SUBSET AssignmentRows]
         /\ r.at = "roles" =>
              /\ r.block \in SUBSET DenyRows
              /\ r.riding \in SUBSET DenyRows
              /\ r.pending \in SUBSET AssignmentRows
              /\ r.effective \in SUBSET EffectiveRecords
              /\ r \in [at : {"roles"}, kind : Kinds, query : Queries,
                        seen : Histories, block : SUBSET DenyRows,
                        riding : SUBSET DenyRows, pending : SUBSET AssignmentRows,
                        effective : SUBSET EffectiveRecords]
         /\ r.at = "answered" => r.allowed \in BOOLEAN
  BY DEF Requests, Running

(* Another moment leaves a request where it was, with what it has read.      *)
LEMMA MomentAdded ==
  ASSUME NEW r \in Requests, r.at \in Running, NEW h \in Histories
  PROVE  LET s == [r EXCEPT !.seen = h]
         IN  /\ s \in Requests
             /\ s.at = r.at /\ s.kind = r.kind /\ s.query = r.query /\ s.seen = h
             /\ r.at \in PastDenies => s.block = r.block
             /\ r.at \in {"denyList", "roles"} => s.pending = r.pending
             /\ r.at = "roles" => s.effective = r.effective
<1>1. CASE r.at = "denies"
  <2>1. r \in [at : {"denies"}, kind : Kinds, query : Queries, seen : Histories]
    BY <1>1, RequestFields
  <2> QED
    BY <1>1, <2>1 DEF Requests, PastDenies
<1>2. CASE r.at = "assignments"
  <2>1. r \in [at : {"assignments"}, kind : Kinds, query : Queries,
               seen : Histories, block : SUBSET DenyRows]
    BY <1>2, RequestFields
  <2> QED
    BY <1>2, <2>1 DEF Requests, PastDenies
<1>3. CASE r.at = "denyList"
  <2>1. r \in [at : {"denyList"}, kind : Kinds, query : Queries,
               seen : Histories, block : SUBSET DenyRows,
               pending : SUBSET AssignmentRows]
    BY <1>3, RequestFields
  <2> QED
    BY <1>3, <2>1 DEF Requests, PastDenies
<1>4. CASE r.at = "roles"
  <2>1. r \in [at : {"roles"}, kind : Kinds, query : Queries,
               seen : Histories, block : SUBSET DenyRows,
               riding : SUBSET DenyRows, pending : SUBSET AssignmentRows,
               effective : SUBSET EffectiveRecords]
    BY <1>4, RequestFields
  <2> QED
    BY <1>4, <2>1 DEF Requests, PastDenies
<1> QED
  BY <1>1, <1>2, <1>3, <1>4 DEF Running

-------------------------------------------------------------------------------
(* The writers. *)

(* A write of any table, whatever it writes, leaves what the reader has read *)
(* right: the moment it adds to the history weakens what is claimed.         *)
LEMMA WriteKeepsReader ==
  ASSUME NEW definitions, NEW assignments, NEW denials,
         NEW later, NEW after \in SUBSET AssignmentRows, NEW now,
         NEW r \in Requests, r.at \in Running,
         ReaderHolds(r, definitions, assignments, denials)
  PROVE  ReaderHolds([r EXCEPT !.seen =
                        Extend(@, MomentOf(later, after, now, r.query))],
                     later, after, now)
<1> DEFINE m == MomentOf(later, after, now, r.query)
           h == Extend(r.seen, m)
           s == [r EXCEPT !.seen = h]
<1> SUFFICES ReaderHolds(s, later, after, now)
  OBVIOUS
<1>1. r.seen \in Histories
  BY RequestFields DEF Running
<1>2. /\ m \in Histories
      /\ m.denied <=> Refused(now, r.query)
      /\ m.clear <=> ~Refused(now, r.query)
      /\ m.steady = {a \in after : Allowing(a, later, r.query)}
  BY MomentSays
<1> HIDE DEF m
<1>3. /\ h \in Histories
      /\ ~h.quiet
      /\ h.denied => r.seen.denied /\ m.denied
      /\ h.clear => r.seen.clear /\ m.clear
      /\ h.steady = r.seen.steady \cap m.steady
  BY <1>1, <1>2, ExtendKeeps
<1> HIDE DEF h
<1>4. /\ s.at = r.at /\ s.kind = r.kind /\ s.query = r.query /\ s.seen = h
      /\ r.at \in PastDenies => s.block = r.block
      /\ r.at \in {"denyList", "roles"} => s.pending = r.pending
      /\ r.at = "roles" => s.effective = r.effective
  BY <1>3, MomentAdded
<1> HIDE DEF s
<1>5. HistoryHolds(s, later, after, now)
  BY <1>2, <1>3, <1>4 DEF HistoryHolds
<1>6. ASSUME s.at \in PastDenies
      PROVE  DenySeen(s)
  BY <1>3, <1>4, <1>6 DEF ReaderHolds, DenySeen
<1>7. ASSUME s.at = "denyList"
      PROVE  AssignmentsSeen(s, after)
  BY <1>3, <1>4, <1>7 DEF ReaderHolds, AssignmentsSeen
<1>8. ASSUME s.at = "roles"
      PROVE  RolesSeen(s, later, after)
  BY <1>3, <1>4, <1>8 DEF ReaderHolds, RolesSeen
<1> QED
  BY <1>5, <1>6, <1>7, <1>8 DEF ReaderHolds

(* What the write is seen by: an answer given before it stands.              *)
LEMMA ObserveKeepsReader ==
  ASSUME request \in Requests, ReaderInv, DecisionsRight,
         roleAssignments' \in SUBSET AssignmentRows, Observe
  PROVE  request' \in Requests /\ ReaderInv' /\ DecisionsRight'
<1>1. CASE request.at \in {"idle", "answered"} /\ UNCHANGED request
  <2>1. request' \in Requests /\ request'.at \notin Running
    BY <1>1 DEF Running
  <2>2. ReaderInv'
    BY <2>1 DEF ReaderInv, ReaderHolds, Running, PastDenies
  <2>3. DecisionsRight'
    BY <1>1 DEF DecisionsRight, StableDenyRefuses, StableGrantAllows,
                QuietDecisionIsPolicy, FeedNeverWidens, Answered
  <2> QED
    BY <2>1, <2>2, <2>3
<1>2. CASE /\ request.at \notin {"idle", "answered"}
           /\ \E q \in {request.query} :
                request' = [request EXCEPT !.seen = Extend(@, Moment(q)')]
  <2>1. request.at \in Running /\ request.seen \in Histories
    BY <1>2, RequestFields
  <2>2. PICK q \in {request.query} :
          request' = [request EXCEPT !.seen = Extend(@, Moment(q)')]
    BY <1>2
  <2> DEFINE m == MomentOf(roleDefinitions', roleAssignments', denyAssignments', q)
             h == Extend(request.seen, m)
  <2>3. request' = [request EXCEPT !.seen = h]
    BY <2>2, MomentIsOfTheTables
  <2>4. h \in Histories
    BY <2>1, MomentSays, ExtendKeeps
  <2> HIDE DEF h
  <2>5. request' \in Requests /\ request'.at \in Running
    BY <2>1, <2>3, <2>4, MomentAdded
  <2> USE DEF h
  <2>6. ReaderHolds([request EXCEPT !.seen = h],
                    roleDefinitions', roleAssignments', denyAssignments')
    BY <2>1, WriteKeepsReader DEF ReaderInv
  <2>7. ReaderInv'
    BY <2>3, <2>6 DEF ReaderInv
  <2>8. DecisionsRight'
    BY <2>5 DEF DecisionsRight, StableDenyRefuses, StableGrantAllows,
                QuietDecisionIsPolicy, FeedNeverWidens, Answered, Running
  <2> QED
    BY <2>5, <2>7, <2>8
<1> QED
  BY <1>1, <1>2 DEF Observe

(* The tables' half of TypeOK.                                               *)
TablesOK ==
  /\ roleDefinitions \subseteq RoleChoices
  /\ roleAssignments \subseteq AssignmentChoices
  /\ denyAssignments \subseteq DenyChoices
  /\ \A def, other \in roleDefinitions : def.role = other.role => def = other
  /\ \A a, b \in roleAssignments : a.name = b.name => a = b
  /\ \A d, e \in denyAssignments : d.name = e.name => d = e

LEMMA TypeIsBoth == TypeOK <=> TablesOK /\ request \in Requests
  BY DEF TypeOK, TablesOK

(* Every write keeps one row per key, and built-in ids out of the table of   *)
(* role definitions.                                                         *)
LEMMA WriterKeepsTables ==
  ASSUME TablesOK, BuiltInsApart, Writer
  PROVE  TablesOK' /\ BuiltInsApart' /\ Observe
<1>1. ASSUME NEW row \in AssignmentChoices, CreateAssignment(row)
      PROVE  TablesOK' /\ BuiltInsApart' /\ Observe
  BY <1>1 DEF CreateAssignment, TablesOK, BuiltInsApart
<1>2. ASSUME NEW name \in Names, DeleteAssignment(name)
      PROVE  TablesOK' /\ BuiltInsApart' /\ Observe
  BY <1>2 DEF DeleteAssignment, TablesOK, BuiltInsApart
<1>3. ASSUME NEW row \in RoleChoices, PutRole(row)
      PROVE  TablesOK' /\ BuiltInsApart' /\ Observe
  BY <1>3 DEF PutRole, TablesOK, BuiltInsApart
<1>4. ASSUME NEW role \in Roles, DeleteRole(role)
      PROVE  TablesOK' /\ BuiltInsApart' /\ Observe
  BY <1>4 DEF DeleteRole, TablesOK, BuiltInsApart
<1>5. ASSUME NEW row \in DenyChoices, PutDeny(row)
      PROVE  TablesOK' /\ BuiltInsApart' /\ Observe
  BY <1>5 DEF PutDeny, UpsertDeny, TablesOK, BuiltInsApart
<1>6. ASSUME NEW name \in DenyNames, DeleteDeny(name)
      PROVE  TablesOK' /\ BuiltInsApart' /\ Observe
  BY <1>6 DEF DeleteDeny, TablesOK, BuiltInsApart
<1> QED
  BY <1>1, <1>2, <1>3, <1>4, <1>5, <1>6 DEF Writer

(* No write disturbs the invariant.                                          *)
LEMMA WriterKeepsInv ==
  ASSUME DecisionInv, Writer
  PROVE  DecisionInv'
<1>1. TablesOK /\ request \in Requests /\ BuiltInsApart /\ ReaderInv /\ DecisionsRight
  BY TypeIsBoth DEF DecisionInv
<1>2. TablesOK' /\ BuiltInsApart' /\ Observe
  BY <1>1, WriterKeepsTables
<1>3. roleAssignments' \in SUBSET AssignmentRows
  BY <1>2, ChoicesAssumption DEF TablesOK
<1>4. request' \in Requests /\ ReaderInv' /\ DecisionsRight'
  BY <1>1, <1>2, <1>3, ObserveKeepsReader
<1>5. TypeOK'
  BY <1>2, <1>4 DEF TypeOK, TablesOK
<1> QED
  BY <1>2, <1>4, <1>5 DEF DecisionInv

-------------------------------------------------------------------------------
(* The reader. *)

(* A step of the reader changes no table, so only the request is at stake.   *)
LEMMA ReaderKeepsTables ==
  ASSUME DecisionInv, UNCHANGED tables, request' \in Requests,
         ReaderHolds(request', roleDefinitions, roleAssignments, denyAssignments),
         DecisionsRight'
  PROVE  DecisionInv'
  BY DEF DecisionInv, TypeOK, BuiltInsApart, ReaderInv, tables

\* The decisions are about the answered requests only.
LEMMA NoAnswerYet ==
  ASSUME request'.at # "answered"
  PROVE  DecisionsRight'
  BY DEF DecisionsRight, StableDenyRefuses, StableGrantAllows,
         QuietDecisionIsPolicy, FeedNeverWidens, Answered

LEMMA AskInv ==
  ASSUME DecisionInv, NEW kind \in Kinds, NEW q \in Queries, Ask(kind, q)
  PROVE  DecisionInv'
<1> DEFINE m == MomentOf(roleDefinitions, roleAssignments, denyAssignments, q)
           r == [at |-> "denies", kind |-> kind, query |-> q, seen |-> m]
<1>1. request' = r /\ UNCHANGED tables
  BY MomentIsOfTheTables DEF Ask
<1>2. roleAssignments \in SUBSET AssignmentRows
  BY ChoicesAssumption DEF DecisionInv, TypeOK
<1>3. /\ m \in Histories
      /\ m.quiet
      /\ m.denied <=> Refused(denyAssignments, q)
      /\ m.clear <=> ~Refused(denyAssignments, q)
      /\ m.steady = {a \in roleAssignments : Allowing(a, roleDefinitions, q)}
      /\ m.open <=> /\ \E a \in roleAssignments : Allowing(a, roleDefinitions, q)
                    /\ ~Refused(denyAssignments, q)
  BY <1>2, MomentSays
<1> HIDE DEF m
<1>4. r \in Requests /\ r.at = "denies" /\ r.query = q /\ r.seen = m
  BY <1>3 DEF Requests
<1> HIDE DEF r
<1>5. HistoryHolds(r, roleDefinitions, roleAssignments, denyAssignments)
  BY <1>3, <1>4 DEF HistoryHolds
<1>6. ReaderHolds(r, roleDefinitions, roleAssignments, denyAssignments)
  BY <1>4, <1>5 DEF ReaderHolds, PastDenies
<1>7. DecisionsRight'
  BY <1>1, <1>4, NoAnswerYet
<1> QED
  BY <1>1, <1>4, <1>6, <1>7, ReaderKeepsTables

(* An answer is right when it is right about the history of its request.     *)
AnswerRight(r, allowed) ==
  /\ r.seen.denied => ~allowed
  /\ r.kind = "evaluate" =>
       /\ r.seen.clear /\ r.seen.steady # {} => allowed
       /\ r.seen.quiet => (allowed <=> r.seen.open)
  /\ r.kind = "feed" => (r.seen.quiet /\ allowed => r.seen.open)

LEMMA AnswerInv ==
  ASSUME DecisionInv, request.at \in Running, NEW allowed \in BOOLEAN,
         AnswerRight(request, allowed),
         request' = Answer(allowed), UNCHANGED tables
  PROVE  DecisionInv'
<1> DEFINE r == [at |-> "answered", kind |-> request.kind, query |-> request.query,
                 seen |-> request.seen, allowed |-> allowed]
<1>1. request' = r
  BY DEF Answer
<1>2. request.kind \in Kinds /\ request.query \in Queries /\ request.seen \in Histories
  BY RequestFields DEF DecisionInv, TypeOK, Running
<1>3. r \in Requests
  BY <1>2 DEF Requests
<1>4. /\ r.at = "answered" /\ r.kind = request.kind
      /\ r.seen = request.seen /\ r.allowed = allowed
  OBVIOUS
<1>5. request.seen.open \in BOOLEAN
  BY <1>2 DEF Histories
<1> HIDE DEF r
<1>6. ReaderHolds(r, roleDefinitions, roleAssignments, denyAssignments)
  BY <1>4 DEF ReaderHolds, Running, PastDenies
<1>7. StableDenyRefuses'
  BY <1>1, <1>4 DEF StableDenyRefuses, AnswerRight
<1>8. StableGrantAllows'
  BY <1>1, <1>4 DEF StableGrantAllows, AnswerRight
<1>9. QuietDecisionIsPolicy'
  <2>1. CASE request.kind = "evaluate" /\ request.seen.quiet
    <3>1. allowed <=> request.seen.open
      BY <2>1 DEF AnswerRight
    <3>2. allowed = request.seen.open
      BY <3>1, <1>5
    <3> QED
      BY <1>1, <1>4, <3>2 DEF QuietDecisionIsPolicy
  <2>2. CASE ~(request.kind = "evaluate" /\ request.seen.quiet)
    BY <1>1, <1>4, <2>2 DEF QuietDecisionIsPolicy
  <2> QED
    BY <2>1, <2>2
<1>10. FeedNeverWidens'
  BY <1>1, <1>4 DEF FeedNeverWidens, AnswerRight
<1>11. DecisionsRight'
  BY <1>7, <1>8, <1>9, <1>10 DEF DecisionsRight
<1> QED
  BY <1>1, <1>3, <1>6, <1>11, ReaderKeepsTables

(* Evaluate's refusal.                                                       *)
LEMMA EvaluateDeniedInv ==
  ASSUME DecisionInv, EvaluateDenied
  PROVE  DecisionInv'
<1>1. request.at \in Running /\ request.kind = "evaluate"
  BY DEF EvaluateDenied, Running
<1>2. HistoryHolds(request, roleDefinitions, roleAssignments, denyAssignments)
  BY <1>1 DEF DecisionInv, ReaderInv, ReaderHolds
<1>3. Refused(denyAssignments, request.query)
  BY DEF EvaluateDenied, DenyAssignmentsAt, Refused
<1>4. ~request.seen.clear
  BY <1>2, <1>3 DEF HistoryHolds
<1>5. request.seen.quiet => ~request.seen.open
  BY <1>2, <1>3 DEF HistoryHolds
<1>6. AnswerRight(request, FALSE)
  BY <1>1, <1>4, <1>5 DEF AnswerRight
<1> QED
  BY <1>1, <1>6, AnswerInv DEF EvaluateDenied

(* Past the denies, none was in force all along, or the document has it.     *)
LEMMA ReadDeniesInv ==
  ASSUME DecisionInv, ReadDenies
  PROVE  DecisionInv'
<1> DEFINE b == IF request.kind = "feed"
                  THEN DenyAssignmentsAt(request.query.scope) ELSE {}
           r == [at |-> "assignments", kind |-> request.kind,
                 query |-> request.query, seen |-> request.seen, block |-> b]
<1>1. request' = r /\ UNCHANGED tables /\ request.at = "denies"
  BY DEF ReadDenies
<1>2. request.kind \in Kinds /\ request.query \in Queries /\ request.seen \in Histories
  BY <1>1, RequestFields DEF DecisionInv, TypeOK
<1>3. b \in SUBSET DenyRows
  BY ChoicesAssumption DEF DenyAssignmentsAt, DecisionInv, TypeOK
<1>4. HistoryHolds(request, roleDefinitions, roleAssignments, denyAssignments)
  BY <1>1 DEF DecisionInv, ReaderInv, ReaderHolds, Running
<1>5. ASSUME request.seen.denied
      PROVE  /\ request.kind = "feed"
             /\ \E d \in b : DeniesAction(d, request.query.ids, request.query.action)
  <2>1. PICK d \in denyAssignments :
          /\ AppliesAt(d, request.query.scope)
          /\ DeniesAction(d, request.query.ids, request.query.action)
    BY <1>4, <1>5 DEF HistoryHolds, Refused
  <2>2. d \in DenyAssignmentsAt(request.query.scope)
    BY <2>1 DEF DenyAssignmentsAt
  <2>3. request.kind = "feed"
    BY <1>2, <2>1, <2>2 DEF ReadDenies, Kinds
  <2> QED
    BY <2>1, <2>2, <2>3
<1> HIDE DEF b
<1>6. /\ r \in Requests /\ r.at = "assignments" /\ r.kind = request.kind
      /\ r.query = request.query /\ r.seen = request.seen /\ r.block = b
  BY <1>2, <1>3 DEF Requests
<1> HIDE DEF r
<1>7. HistoryHolds(r, roleDefinitions, roleAssignments, denyAssignments)
  BY <1>4, <1>6 DEF HistoryHolds
<1>8. DenySeen(r)
  BY <1>5, <1>6 DEF DenySeen
<1>9. ReaderHolds(r, roleDefinitions, roleAssignments, denyAssignments)
  BY <1>6, <1>7, <1>8 DEF ReaderHolds
<1>10. DecisionsRight'
  BY <1>1, <1>6, NoAnswerYet
<1> QED
  BY <1>1, <1>6, <1>9, <1>10, ReaderKeepsTables

(* The assignments that grant all along are in the listing.                  *)
LEMMA ListAssignmentsInv ==
  ASSUME DecisionInv, ListAssignments
  PROVE  DecisionInv'
<1> DEFINE p == Listed(request.query.scope)
           r == [at |-> "denyList", kind |-> request.kind,
                 query |-> request.query, seen |-> request.seen,
                 block |-> request.block, pending |-> p]
<1>1. request' = r /\ UNCHANGED tables /\ request.at = "assignments"
  BY DEF ListAssignments
<1>2. /\ request.kind \in Kinds /\ request.query \in Queries
      /\ request.seen \in Histories /\ request.block \in SUBSET DenyRows
  BY <1>1, RequestFields DEF DecisionInv, TypeOK
<1>3. p \in SUBSET AssignmentRows
  BY ChoicesAssumption DEF Listed, DecisionInv, TypeOK
<1>4. /\ HistoryHolds(request, roleDefinitions, roleAssignments, denyAssignments)
      /\ DenySeen(request)
  BY <1>1 DEF DecisionInv, ReaderInv, ReaderHolds, Running, PastDenies
<1>5. p = {a \in roleAssignments : ScopeApplies(a.scope, request.query.scope)}
  BY DEF Listed
<1>6. request.seen.steady \subseteq p
  BY <1>4, <1>5 DEF HistoryHolds, Allowing
<1> HIDE DEF p
<1>7. /\ r \in Requests /\ r.at = "denyList" /\ r.kind = request.kind
      /\ r.query = request.query /\ r.seen = request.seen
      /\ r.block = request.block /\ r.pending = p
  BY <1>2, <1>3 DEF Requests
<1> HIDE DEF r
<1>8. HistoryHolds(r, roleDefinitions, roleAssignments, denyAssignments)
  BY <1>4, <1>7 DEF HistoryHolds
<1>9. DenySeen(r)
  BY <1>4, <1>7 DEF DenySeen
<1>10. AssignmentsSeen(r, roleAssignments)
  BY <1>5, <1>6, <1>7 DEF AssignmentsSeen
<1>11. ReaderHolds(r, roleDefinitions, roleAssignments, denyAssignments)
  BY <1>7, <1>8, <1>9, <1>10 DEF ReaderHolds
<1>12. DecisionsRight'
  BY <1>1, <1>7, NoAnswerYet
<1> QED
  BY <1>1, <1>7, <1>11, <1>12, ReaderKeepsTables

(* No role is resolved yet.                                                  *)
LEMMA ListDeniesInv ==
  ASSUME DecisionInv, ListDenies
  PROVE  DecisionInv'
<1> DEFINE d == IF request.kind = "feed"
                  THEN DenyAssignmentsAt(request.query.scope) ELSE {}
           r == [at |-> "roles", kind |-> request.kind,
                 query |-> request.query, seen |-> request.seen,
                 block |-> request.block, riding |-> d,
                 pending |-> request.pending, effective |-> {}]
<1>1. request' = r /\ UNCHANGED tables /\ request.at = "denyList"
  BY DEF ListDenies
<1>2. /\ request.kind \in Kinds /\ request.query \in Queries
      /\ request.seen \in Histories /\ request.block \in SUBSET DenyRows
      /\ request.pending \in SUBSET AssignmentRows
  BY <1>1, RequestFields DEF DecisionInv, TypeOK
<1>3. d \in SUBSET DenyRows
  BY ChoicesAssumption DEF DenyAssignmentsAt, DecisionInv, TypeOK
<1>4. /\ HistoryHolds(request, roleDefinitions, roleAssignments, denyAssignments)
      /\ DenySeen(request)
      /\ AssignmentsSeen(request, roleAssignments)
  BY <1>1 DEF DecisionInv, ReaderInv, ReaderHolds, Running, PastDenies
<1> HIDE DEF d
<1>5. /\ r \in Requests /\ r.at = "roles" /\ r.kind = request.kind
      /\ r.query = request.query /\ r.seen = request.seen
      /\ r.block = request.block /\ r.pending = request.pending
      /\ r.effective = {}
  BY <1>2, <1>3 DEF Requests
<1> HIDE DEF r
<1>6. HistoryHolds(r, roleDefinitions, roleAssignments, denyAssignments)
  BY <1>4, <1>5 DEF HistoryHolds
<1>7. DenySeen(r)
  BY <1>4, <1>5 DEF DenySeen
<1>8. RolesSeen(r, roleDefinitions, roleAssignments)
  BY <1>4, <1>5 DEF AssignmentsSeen, RolesSeen
<1>9. ReaderHolds(r, roleDefinitions, roleAssignments, denyAssignments)
  BY <1>5, <1>6, <1>7, <1>8 DEF ReaderHolds
<1>10. DecisionsRight'
  BY <1>1, <1>5, NoAnswerYet
<1> QED
  BY <1>1, <1>5, <1>9, <1>10, ReaderKeepsTables

(* With built-ins apart, resolveRole finds every definition of the role.     *)
LEMMA ResolveRoleFinds ==
  ASSUME BuiltInsApart, NEW role
  PROVE  ResolveRole(role) = {def \in BuiltInRoles \cup roleDefinitions : def.role = role}
<1> DEFINE builtIn == {def \in BuiltInRoles : def.role = role}
<1>1. CASE builtIn # {}
  <2>1. ResolveRole(role) = builtIn
    BY <1>1 DEF ResolveRole
  <2>2. \A def \in roleDefinitions : def.role # role
    BY <1>1 DEF BuiltInsApart
  <2> QED
    BY <2>1, <2>2
<1>2. CASE builtIn = {}
  <2>1. ResolveRole(role) = {def \in roleDefinitions : def.role = role}
    BY <1>2 DEF ResolveRole
  <2> QED
    BY <1>2, <2>1
<1> QED
  BY <1>1, <1>2

(* An assignment leaves the pending ones with the entries of its role.       *)
LEMMA ResolveNextInv ==
  ASSUME DecisionInv, NEW a \in AssignmentChoices, ResolveNext(a)
  PROVE  DecisionInv'
<1> DEFINE p == request.pending \ {a}
           e == request.effective \cup {Effective(a, def) : def \in ResolveRole(a.role)}
           r == [request EXCEPT !.pending = p, !.effective = e]
<1>1. request' = r /\ UNCHANGED tables /\ request.at = "roles" /\ a \in request.pending
  BY DEF ResolveNext
<1>2. /\ request.pending \in SUBSET AssignmentRows
      /\ request.effective \in SUBSET EffectiveRecords
      /\ request \in [at : {"roles"}, kind : Kinds, query : Queries,
                      seen : Histories, block : SUBSET DenyRows,
                      riding : SUBSET DenyRows, pending : SUBSET AssignmentRows,
                      effective : SUBSET EffectiveRecords]
  BY <1>1, RequestFields DEF DecisionInv, TypeOK
<1>3. ResolveRole(a.role) =
        {def \in BuiltInRoles \cup roleDefinitions : def.role = a.role}
  BY ResolveRoleFinds DEF DecisionInv
<1>4. BuiltInRoles \cup roleDefinitions \subseteq RoleRows
  BY ChoicesAssumption DEF DecisionInv, TypeOK
<1>5. {Effective(a, def) : def \in ResolveRole(a.role)} \in SUBSET EffectiveRecords
  BY <1>1, <1>2, <1>3, <1>4, RowFields DEF Effective, EffectiveRecords
<1>6. p \in SUBSET AssignmentRows /\ e \in SUBSET EffectiveRecords
  BY <1>2, <1>5
<1>7. /\ HistoryHolds(request, roleDefinitions, roleAssignments, denyAssignments)
      /\ DenySeen(request)
      /\ RolesSeen(request, roleDefinitions, roleAssignments)
  BY <1>1 DEF DecisionInv, ReaderInv, ReaderHolds, Running, PastDenies
<1>8. \A def \in BuiltInRoles \cup roleDefinitions :
        def.role = a.role =>
          \E x \in e : x.assignment = a /\ x.data = def.data /\ x.notData = def.notData
  <2>1. ASSUME NEW def \in BuiltInRoles \cup roleDefinitions, def.role = a.role
        PROVE  Effective(a, def) \in e
    BY <1>3, <2>1
  <2>2. \A def : /\ Effective(a, def).assignment = a
                 /\ Effective(a, def).data = def.data
                 /\ Effective(a, def).notData = def.notData
    BY DEF Effective
  <2> HIDE DEF e
  <2> QED
    BY <2>1, <2>2
<1>9. \A x \in e :
        \/ x \in request.effective
        \/ /\ x.assignment = a
           /\ \E def \in BuiltInRoles \cup roleDefinitions :
                def.role = a.role /\ def.data = x.data /\ def.notData = x.notData
  BY <1>3 DEF Effective
<1>10. request.effective \subseteq e /\ p = request.pending \ {a}
  OBVIOUS
<1> HIDE DEF p, e
<1>11. /\ r \in Requests /\ r.at = "roles" /\ r.kind = request.kind
       /\ r.query = request.query /\ r.seen = request.seen
       /\ r.block = request.block /\ r.pending = p /\ r.effective = e
  BY <1>2, <1>6 DEF Requests
<1> HIDE DEF r
<1>12. HistoryHolds(r, roleDefinitions, roleAssignments, denyAssignments)
  BY <1>7, <1>11 DEF HistoryHolds
<1>13. DenySeen(r)
  BY <1>7, <1>11 DEF DenySeen
<1>14. ASSUME NEW b \in r.seen.steady
       PROVE  \/ b \in r.pending
              \/ \E x \in r.effective :
                   x.assignment = b /\ GrantsAction(x, r.query.action)
  <2>1. CASE b = a
    <3>1. PICK def \in BuiltInRoles \cup roleDefinitions :
            def.role = a.role /\ GrantsAction(def, request.query.action)
      BY <1>7, <1>11, <1>14, <2>1 DEF HistoryHolds, Allowing
    <3>2. PICK x \in e : x.assignment = a /\ x.data = def.data /\ x.notData = def.notData
      BY <1>8, <3>1
    <3> QED
      BY <1>11, <2>1, <3>1, <3>2 DEF GrantsAction
  <2>2. CASE b # a
    BY <1>7, <1>10, <1>11, <1>14, <2>2 DEF RolesSeen
  <2> QED
    BY <2>1, <2>2
<1>15. ASSUME r.seen.quiet
       PROVE  /\ \A b \in r.pending :
                   b \in roleAssignments /\ ScopeApplies(b.scope, r.query.scope)
              /\ \A x \in r.effective :
                   /\ x.assignment \in roleAssignments
                   /\ ScopeApplies(x.assignment.scope, r.query.scope)
                   /\ \E def \in BuiltInRoles \cup roleDefinitions :
                        /\ def.role = x.assignment.role
                        /\ def.data = x.data
                        /\ def.notData = x.notData
  BY <1>1, <1>7, <1>9, <1>10, <1>11, <1>15 DEF RolesSeen
<1>16. RolesSeen(r, roleDefinitions, roleAssignments)
  BY <1>14, <1>15 DEF RolesSeen
<1>17. ReaderHolds(r, roleDefinitions, roleAssignments, denyAssignments)
  BY <1>11, <1>12, <1>13, <1>16 DEF ReaderHolds
<1>18. DecisionsRight'
  BY <1>1, <1>11, NoAnswerYet
<1> QED
  BY <1>1, <1>11, <1>17, <1>18, ReaderKeepsTables

(* With every role resolved, an entry grants if an assignment did all along, *)
(* and only if one does, when nothing was written.                           *)
LEMMA EntriesAreThePolicy ==
  ASSUME DecisionInv, request.at = "roles", request.pending = {}
  PROVE  /\ request.seen.steady # {} => Granted(request.effective, request.query)
         /\ request.seen.quiet =>
              \A e \in request.effective :
                /\ e.assignment.principal \in request.query.ids
                /\ GrantsAction(e, request.query.action)
                /\ request.query.context \in e.assignment.condition
                => \E a \in roleAssignments :
                     Allowing(a, roleDefinitions, request.query)
<1>1. /\ HistoryHolds(request, roleDefinitions, roleAssignments, denyAssignments)
      /\ RolesSeen(request, roleDefinitions, roleAssignments)
  BY DEF DecisionInv, ReaderInv, ReaderHolds, Running
<1>2. ASSUME request.seen.steady # {}
      PROVE  Granted(request.effective, request.query)
  <2>1. PICK a \in request.seen.steady : TRUE
    BY <1>2
  <2>2. PICK e \in request.effective :
          e.assignment = a /\ GrantsAction(e, request.query.action)
    BY <1>1 DEF RolesSeen
  <2> QED
    BY <1>1, <2>2 DEF HistoryHolds, Allowing, Granted
<1>3. ASSUME request.seen.quiet, NEW e \in request.effective,
             e.assignment.principal \in request.query.ids,
             GrantsAction(e, request.query.action),
             request.query.context \in e.assignment.condition
      PROVE  \E a \in roleAssignments :
               Allowing(a, roleDefinitions, request.query)
  BY <1>1, <1>3 DEF RolesSeen, Allowing, GrantsAction
<1> QED
  BY <1>2, <1>3

LEMMA EvaluateAnswersInv ==
  ASSUME DecisionInv, EvaluateAnswers
  PROVE  DecisionInv'
<1> DEFINE allowed == Granted(request.effective, request.query)
<1>1. /\ request.at = "roles" /\ request.kind = "evaluate" /\ request.pending = {}
      /\ request' = Answer(allowed) /\ UNCHANGED tables
  BY DEF EvaluateAnswers
<1>2. /\ HistoryHolds(request, roleDefinitions, roleAssignments, denyAssignments)
      /\ DenySeen(request)
  BY <1>1 DEF DecisionInv, ReaderInv, ReaderHolds, Running, PastDenies
<1>3. ~request.seen.denied
  BY <1>1, <1>2 DEF DenySeen
<1>4. allowed \in BOOLEAN
  BY DEF Granted
<1>5. request.seen.steady # {} => allowed
  BY <1>1, EntriesAreThePolicy
<1>6. ASSUME request.seen.quiet
      PROVE  allowed <=> request.seen.open
  <2>1. ~Refused(denyAssignments, request.query)
    BY <1>2, <1>3, <1>6 DEF HistoryHolds
  <2>2. request.seen.open <=>
          \E a \in roleAssignments : Allowing(a, roleDefinitions, request.query)
    BY <1>2, <1>6, <2>1 DEF HistoryHolds
  <2>3. allowed => request.seen.open
    BY <1>1, <1>6, <2>2, EntriesAreThePolicy DEF Granted
  <2>4. request.seen.open => request.seen.steady # {}
    BY <1>2, <1>6, <2>2 DEF HistoryHolds
  <2> QED
    BY <1>5, <2>3, <2>4
<1> HIDE DEF allowed
<1>7. AnswerRight(request, allowed)
  BY <1>1, <1>3, <1>5, <1>6 DEF AnswerRight
<1> QED
  BY <1>1, <1>4, <1>7, AnswerInv DEF Running

LEMMA FeedConsumedInv ==
  ASSUME DecisionInv, FeedConsumed
  PROVE  DecisionInv'
<1> DEFINE allowed == ConsumerAllows(request.effective, request.riding,
                                     request.block, request.query)
<1>1. /\ request.at = "roles" /\ request.kind = "feed" /\ request.pending = {}
      /\ request' = Answer(allowed) /\ UNCHANGED tables
  BY DEF FeedConsumed
<1>2. /\ HistoryHolds(request, roleDefinitions, roleAssignments, denyAssignments)
      /\ DenySeen(request)
  BY <1>1 DEF DecisionInv, ReaderInv, ReaderHolds, Running, PastDenies
<1>3. allowed \in BOOLEAN
  BY DEF ConsumerAllows
<1>4. allowed => ~request.seen.denied
  BY <1>2 DEF ConsumerAllows, DenySeen
<1>5. ASSUME request.seen.quiet, allowed
      PROVE  request.seen.open
  <2>1. ~Refused(denyAssignments, request.query)
    BY <1>2, <1>4, <1>5 DEF HistoryHolds
  <2>2. PICK e \in request.effective :
          /\ e.assignment.principal \in request.query.ids
          /\ GrantsAction(e, request.query.action)
          /\ request.query.context \in e.assignment.condition
    BY <1>5 DEF ConsumerAllows, Granted
  <2>3. \E a \in roleAssignments : Allowing(a, roleDefinitions, request.query)
    BY <1>1, <1>5, <2>2, EntriesAreThePolicy
  <2> QED
    BY <1>2, <1>5, <2>1, <2>3 DEF HistoryHolds
<1> HIDE DEF allowed
<1>6. AnswerRight(request, allowed)
  BY <1>1, <1>4, <1>5 DEF AnswerRight
<1> QED
  BY <1>1, <1>3, <1>6, AnswerInv DEF Running

LEMMA ForgetInv ==
  ASSUME DecisionInv, Forget
  PROVE  DecisionInv'
<1>1. request' \in Requests /\ request'.at = "idle" /\ UNCHANGED tables
  BY DEF Forget, Requests
<1>2. ReaderHolds(request', roleDefinitions, roleAssignments, denyAssignments)
  BY <1>1 DEF ReaderHolds, Running, PastDenies
<1>3. DecisionsRight'
  BY <1>1, NoAnswerYet
<1> QED
  BY <1>1, <1>2, <1>3, ReaderKeepsTables

-------------------------------------------------------------------------------
(* Nothing is stored at first, and nothing asked.                            *)
LEMMA InitDecision == Init => DecisionInv
<1> SUFFICES ASSUME Init PROVE DecisionInv
  OBVIOUS
<1>1. request \in Requests /\ request.at = "idle"
  BY DEF Init, Requests
<1>2. TypeOK /\ BuiltInsApart
  BY <1>1 DEF Init, TypeOK, BuiltInsApart
<1>3. ReaderInv
  BY <1>1 DEF ReaderInv, ReaderHolds, Running, PastDenies
<1>4. DecisionsRight
  BY <1>1 DEF DecisionsRight, StableDenyRefuses, StableGrantAllows,
              QuietDecisionIsPolicy, FeedNeverWidens, Answered
<1> QED
  BY <1>2, <1>3, <1>4 DEF DecisionInv

LEMMA NextDecision == DecisionInv /\ [Next]_vars => DecisionInv'
<1> SUFFICES ASSUME DecisionInv, [Next]_vars
             PROVE  DecisionInv'
  OBVIOUS
<1>1. CASE Reader
  BY <1>1, AskInv, EvaluateDeniedInv, ReadDeniesInv, ListAssignmentsInv,
     ListDeniesInv, ResolveNextInv, EvaluateAnswersInv, FeedConsumedInv, ForgetInv
     DEF Reader
<1>2. CASE Writer
  BY <1>2, WriterKeepsInv
<1>3. CASE UNCHANGED vars
  BY <1>3 DEF vars, tables, DecisionInv, TypeOK, BuiltInsApart, ReaderInv,
     DecisionsRight, StableDenyRefuses, StableGrantAllows, QuietDecisionIsPolicy,
     FeedNeverWidens, Answered
<1> QED
  BY <1>1, <1>2, <1>3 DEF Next

LEMMA DecisionInductive == Spec => []DecisionInv
  BY InitDecision, NextDecision, PTL DEF Spec

(* The tables and the reader are well formed in every run.                   *)
THEOREM DecisionTypeCorrect == Spec => []TypeOK
<1>1. DecisionInv => TypeOK
  BY DEF DecisionInv
<1> QED
  BY <1>1, DecisionInductive, PTL

(* A deny that is in force for the whole of a request is obeyed: by Evaluate *)
(* because it reads the denies first, by a consumer of the feed because the  *)
(* document lists it.                                                        *)
THEOREM StableDenyDoesRefuse == Spec => []StableDenyRefuses
<1>1. DecisionInv => StableDenyRefuses
  BY DEF DecisionInv, DecisionsRight
<1> QED
  BY <1>1, DecisionInductive, PTL

(* A grant that stands for the whole of an Evaluate, with no deny at any     *)
(* moment, is found, however the tables change between its reads.            *)
THEOREM StableGrantDoesAllow == Spec => []StableGrantAllows
<1>1. DecisionInv => StableGrantAllows
  BY DEF DecisionInv, DecisionsRight
<1> QED
  BY <1>1, DecisionInductive, PTL

(* Undisturbed, Evaluate's reads amount to the documented order: deny, role, *)
(* condition.                                                                *)
THEOREM QuietDecisionDoesFollowPolicy == Spec => []QuietDecisionIsPolicy
<1>1. DecisionInv => QuietDecisionIsPolicy
  BY DEF DecisionInv, DecisionsRight
<1> QED
  BY <1>1, DecisionInductive, PTL

(* A consumer of an undisturbed feed allows nothing the policy refuses.      *)
THEOREM FeedDoesNotWiden == Spec => []FeedNeverWidens
<1>1. DecisionInv => FeedNeverWidens
  BY DEF DecisionInv, DecisionsRight
<1> QED
  BY <1>1, DecisionInductive, PTL

===============================================================================
