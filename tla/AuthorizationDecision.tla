------------------------ MODULE AuthorizationDecision ------------------------
(***************************************************************************)
(* May this caller do this?  Evaluate (internal/arm/evaluate.go) decides   *)
(* it from the deny assignments, role assignments and role definitions; a  *)
(* data plane that polls the family feed (arm/feed.go) decides it from the *)
(* document.  Both read the three tables one statement at a time, with     *)
(* writers in between.                                                     *)
(*                                                                         *)
(* Readers change nothing, so they do not meet each other: one of them at  *)
(* a time is every case.  A writer is its one write statement, allowed     *)
(* whatever the other tables hold; RoleAuthorization models the checks in  *)
(* front of these statements, and that those may be overtaken.             *)
(*                                                                         *)
(* Abstracted: a list of action patterns is the set of data actions it     *)
(* matches, a condition the set of attribute contexts it accepts, and the  *)
(* permission entries of a deny the data actions they deny together.       *)
(***************************************************************************)
EXTENDS Scopes, FiniteSets

CONSTANTS
  Actions, Contexts, Principals, Roles, ScopeSet,
  Names, DenyNames,    \* names of role and of deny assignments
  BuiltInRoles,        \* the role definitions that live in code
  RoleChoices,         \* what writers write: rows of the three tables
  AssignmentChoices,
  DenyChoices,
  Queries              \* what callers ask

RoleRows == [role : Roles, data : SUBSET Actions, notData : SUBSET Actions]
AssignmentRows ==
  [name : Names, scope : ScopeSet, role : Roles, principal : Principals,
   condition : SUBSET Contexts]
DenyRows ==
  [name : DenyNames, scope : ScopeSet, here : BOOLEAN, actions : SUBSET Actions,
   everyone : BOOLEAN, principals : SUBSET Principals, exclude : SUBSET Principals]
QueryRecords ==
  [scope : ScopeSet, ids : SUBSET Principals, action : Actions, context : Contexts]

ASSUME ChoicesAssumption ==
  /\ BuiltInRoles \subseteq RoleRows
  /\ RoleChoices \subseteq RoleRows
  /\ AssignmentChoices \subseteq AssignmentRows
  /\ DenyChoices \subseteq DenyRows
  /\ Queries \subseteq QueryRecords

VARIABLES
  roleDefinitions,   \* table role_definitions
  roleAssignments,   \* table role_assignments
  denyAssignments,   \* table deny_assignments
  request            \* the reader: where it stands and what it has read

tables == <<roleDefinitions, roleAssignments, denyAssignments>>
vars == <<tables, request>>

Kinds == {"evaluate", "feed"}

-------------------------------------------------------------------------------
(* What the documents promise, from the tables of one moment.               *)

PolicyDenies(q) ==
  \E d \in denyAssignments :
    /\ IF d.here THEN d.scope = q.scope ELSE ScopeApplies(d.scope, q.scope)
    /\ q.action \in d.actions
    /\ d.exclude \cap q.ids = {}
    /\ d.everyone \/ d.principals \cap q.ids # {}

\* The role assignments that grant what is asked, deny assignments aside.
PolicyGrants(q) ==
  {a \in roleAssignments :
     /\ ScopeApplies(a.scope, q.scope)
     /\ a.principal \in q.ids
     /\ q.context \in a.condition
     /\ \E def \in BuiltInRoles \cup roleDefinitions :
          def.role = a.role /\ q.action \in def.data \ def.notData}

\* What happened while a request ran, moment by moment.
\*   quiet: no table changed.  denied: a deny applied all along.
\*   clear: none ever did.     steady: the assignments that granted all along.
\*   granted: there was a grant at some moment; open: and then no deny.
Histories ==
  [quiet : BOOLEAN, denied : BOOLEAN, clear : BOOLEAN,
   steady : SUBSET AssignmentRows, granted : BOOLEAN, open : BOOLEAN]

Moment(q) ==
  [quiet |-> TRUE,
   denied |-> PolicyDenies(q),
   clear |-> ~PolicyDenies(q),
   steady |-> PolicyGrants(q),
   granted |-> PolicyGrants(q) # {},
   open |-> PolicyGrants(q) # {} /\ ~PolicyDenies(q)]

Extend(h, moment) ==
  [quiet |-> FALSE,
   denied |-> h.denied /\ moment.denied,
   clear |-> h.clear /\ moment.clear,
   steady |-> h.steady \cap moment.steady,
   granted |-> h.granted \/ moment.granted,
   open |-> h.open \/ moment.open]

-------------------------------------------------------------------------------
(* The predicates of the code. *)

\* A deny only on the scope it names, inheritance forgotten.
AppliesAtExact(d, scope) == d.scope = scope

AppliesAt(d, scope) ==
  \/ d.here /\ d.scope = scope
  \/ ~d.here /\ ScopeApplies(d.scope, scope)

\* The all-principals GUID taken for a principal like any other.
AppliesToPrincipalNamed(d, ids) ==
  d.exclude \cap ids = {} /\ d.principals \cap ids # {}

AppliesToPrincipal(d, ids) ==
  d.exclude \cap ids = {} /\ (d.everyone \/ d.principals \cap ids # {})

DeniesAction(d, ids, action) == AppliesToPrincipal(d, ids) /\ action \in d.actions

DenyAssignmentsAt(scope) == {d \in denyAssignments : AppliesAt(d, scope)}

\* An assignment counts only where it was made.
ListedExact(scope) == {a \in roleAssignments : a.scope = scope}
Listed(scope) == {a \in roleAssignments : ScopeApplies(a.scope, scope)}

\* resolveRole: built-ins first; a dangling definition resolves to nothing.
ResolveRole(role) ==
  LET builtIn == {def \in BuiltInRoles : def.role = role}
  IN  IF builtIn # {} THEN builtIn ELSE {def \in roleDefinitions : def.role = role}

\* A role's notDataActions ignored.
GrantsActionWhole(e, action) == action \in e.data
GrantsAction(e, action) == action \in e.data /\ action \notin e.notData

\* One entry of EffectiveAt, for one assignment and its definition.
Effective(a, def) == [assignment |-> a, data |-> def.data, notData |-> def.notData]
EffectiveRecords ==
  [assignment : AssignmentRows, data : SUBSET Actions, notData : SUBSET Actions]

Granted(effective, q) ==
  \E e \in effective :
    /\ e.assignment.principal \in q.ids
    /\ GrantsAction(e, q.action)
    /\ q.context \in e.assignment.condition

\* What the document's consumer is told to do: refuse what the riding denies
\* of an assignment take back, and what the whole list denies this caller.
ConsumerAllows(effective, riding, block, q) ==
  /\ \A d \in block : ~DeniesAction(d, q.ids, q.action)
  /\ Granted({e \in effective :
                \A d \in riding : ~DeniesAction(d, {e.assignment.principal}, q.action)}, q)

-------------------------------------------------------------------------------
(* The reader, one statement at a time. *)

Requests ==
  [at : {"idle"}]
    \cup [at : {"denies"}, kind : Kinds, query : Queries, seen : Histories]
    \cup [at : {"assignments"}, kind : Kinds, query : Queries, seen : Histories,
          block : SUBSET DenyRows]
    \cup [at : {"denyList"}, kind : Kinds, query : Queries, seen : Histories,
          block : SUBSET DenyRows, pending : SUBSET AssignmentRows]
    \cup [at : {"roles"}, kind : Kinds, query : Queries, seen : Histories,
          block : SUBSET DenyRows, riding : SUBSET DenyRows,
          pending : SUBSET AssignmentRows, effective : SUBSET EffectiveRecords]
    \cup [at : {"answered"}, kind : Kinds, query : Queries, seen : Histories,
          allowed : BOOLEAN]

Answer(allowed) ==
  [at |-> "answered", kind |-> request.kind, query |-> request.query,
   seen |-> request.seen, allowed |-> allowed]

Ask(kind, q) ==
  /\ request.at = "idle"
  /\ request' = [at |-> "denies", kind |-> kind, query |-> q, seen |-> Moment(q)]
  /\ UNCHANGED tables

\* Evaluate refuses at once when a deny applies.
EvaluateDenied ==
  /\ request.at = "denies"
  /\ request.kind = "evaluate"
  /\ \E d \in DenyAssignmentsAt(request.query.scope) :
       DeniesAction(d, request.query.ids, request.query.action)
  /\ request' = Answer(FALSE)
  /\ UNCHANGED tables

\* Otherwise it forgets the denies; the feed keeps them for the document.
ReadDenies ==
  /\ request.at = "denies"
  /\ request.kind = "evaluate" =>
       \A d \in DenyAssignmentsAt(request.query.scope) :
         ~DeniesAction(d, request.query.ids, request.query.action)
  /\ request' = [at |-> "assignments", kind |-> request.kind,
                 query |-> request.query, seen |-> request.seen,
                 block |-> IF request.kind = "feed"
                             THEN DenyAssignmentsAt(request.query.scope) ELSE {}]
  /\ UNCHANGED tables

\* EffectiveAt: the assignments, the denies once more, then each role.
ListAssignments ==
  /\ request.at = "assignments"
  /\ request' = [at |-> "denyList", kind |-> request.kind,
                 query |-> request.query, seen |-> request.seen,
                 block |-> request.block, pending |-> Listed(request.query.scope)]
  /\ UNCHANGED tables

\* Only the feed's document is about these.
ListDenies ==
  /\ request.at = "denyList"
  /\ request' = [at |-> "roles", kind |-> request.kind,
                 query |-> request.query, seen |-> request.seen,
                 block |-> request.block,
                 riding |-> IF request.kind = "feed"
                              THEN DenyAssignmentsAt(request.query.scope) ELSE {},
                 pending |-> request.pending, effective |-> {}]
  /\ UNCHANGED tables

ResolveNext(a) ==
  /\ request.at = "roles"
  /\ a \in request.pending
  /\ request' = [request EXCEPT
       !.pending = @ \ {a},
       !.effective = @ \cup {Effective(a, def) : def \in ResolveRole(a.role)}]
  /\ UNCHANGED tables

EvaluateAnswers ==
  /\ request.at = "roles"
  /\ request.kind = "evaluate"
  /\ request.pending = {}
  /\ request' = Answer(Granted(request.effective, request.query))
  /\ UNCHANGED tables

\* The document is sent, and its consumer applies it.
FeedConsumed ==
  /\ request.at = "roles"
  /\ request.kind = "feed"
  /\ request.pending = {}
  /\ request' = Answer(ConsumerAllows(request.effective, request.riding,
                                      request.block, request.query))
  /\ UNCHANGED tables

Forget ==
  /\ request.at = "answered"
  /\ request' = [at |-> "idle"]
  /\ UNCHANGED tables

-------------------------------------------------------------------------------
(* The writers. *)

\* Another moment for a request under way, after a table was written.
Observe ==
  \/ request.at \in {"idle", "answered"} /\ UNCHANGED request
  \/ /\ request.at \notin {"idle", "answered"}
     /\ \E q \in {request.query} :
          request' = [request EXCEPT !.seen = Extend(@, Moment(q)')]

CreateAssignment(row) ==
  /\ \A a \in roleAssignments :
       /\ a.name # row.name
       /\ a.scope # row.scope \/ a.role # row.role \/ a.principal # row.principal
  /\ roleAssignments' = roleAssignments \cup {row}
  /\ UNCHANGED <<roleDefinitions, denyAssignments>>
  /\ Observe

DeleteAssignment(name) ==
  /\ \E a \in roleAssignments : a.name = name
  /\ roleAssignments' = {a \in roleAssignments : a.name # name}
  /\ UNCHANGED <<roleDefinitions, denyAssignments>>
  /\ Observe

PutRole(row) ==
  /\ row.role \notin {def.role : def \in BuiltInRoles}
  /\ row \notin roleDefinitions
  /\ roleDefinitions' = {def \in roleDefinitions : def.role # row.role} \cup {row}
  /\ UNCHANGED <<roleAssignments, denyAssignments>>
  /\ Observe

DeleteRole(role) ==
  /\ \E def \in roleDefinitions : def.role = role
  /\ roleDefinitions' = {def \in roleDefinitions : def.role # role}
  /\ UNCHANGED <<roleAssignments, denyAssignments>>
  /\ Observe

\* The upsert without its ON CONFLICT: the old row stays.
UpsertDenyBeside(row) == denyAssignments \cup {row}
UpsertDeny(row) == {d \in denyAssignments : d.name # row.name} \cup {row}

PutDeny(row) ==
  /\ row \notin denyAssignments
  /\ denyAssignments' = UpsertDeny(row)
  /\ UNCHANGED <<roleDefinitions, roleAssignments>>
  /\ Observe

DeleteDeny(name) ==
  /\ \E d \in denyAssignments : d.name = name
  /\ denyAssignments' = {d \in denyAssignments : d.name # name}
  /\ UNCHANGED <<roleDefinitions, roleAssignments>>
  /\ Observe

Reader ==
  \/ \E kind \in Kinds, q \in Queries : Ask(kind, q)
  \/ EvaluateDenied
  \/ ReadDenies
  \/ ListAssignments
  \/ ListDenies
  \/ \E a \in AssignmentChoices : ResolveNext(a)
  \/ EvaluateAnswers
  \/ FeedConsumed
  \/ Forget

Writer ==
  \/ \E row \in AssignmentChoices : CreateAssignment(row)
  \/ \E name \in Names : DeleteAssignment(name)
  \/ \E row \in RoleChoices : PutRole(row)
  \/ \E role \in Roles : DeleteRole(role)
  \/ \E row \in DenyChoices : PutDeny(row)
  \/ \E name \in DenyNames : DeleteDeny(name)

Init ==
  /\ roleDefinitions = {}
  /\ roleAssignments = {}
  /\ denyAssignments = {}
  /\ request = [at |-> "idle"]

Next == Reader \/ Writer

Spec == Init /\ [][Next]_vars

-------------------------------------------------------------------------------
(* The tables and what the reader holds are well formed; each table has one  *)
(* row per primary key.                                                      *)
TypeOK ==
  /\ roleDefinitions \subseteq RoleChoices
  /\ roleAssignments \subseteq AssignmentChoices
  /\ denyAssignments \subseteq DenyChoices
  /\ request \in Requests
  /\ \A def, other \in roleDefinitions : def.role = other.role => def = other
  /\ \A a, b \in roleAssignments : a.name = b.name => a = b
  /\ \A d, e \in denyAssignments : d.name = e.name => d = e

Answered == request.at = "answered"

(* A deny that is in force for the whole of a request is obeyed, by Evaluate *)
(* and by a consumer of the feed, whatever is written meanwhile.             *)
StableDenyRefuses ==
  Answered /\ request.seen.denied => ~request.allowed

(* Evaluate does not lose a standing grant: an assignment that grants for    *)
(* the whole of the request, with no deny at any moment, is found.           *)
StableGrantAllows ==
  /\ Answered
  /\ request.kind = "evaluate"
  /\ request.seen.clear
  /\ request.seen.steady # {}
  => request.allowed

(* When nothing is written meanwhile, Evaluate's reads amount to the         *)
(* documented order: a deny overrides, then a role must grant, then its      *)
(* condition must hold.                                                      *)
QuietDecisionIsPolicy ==
  Answered /\ request.kind = "evaluate" /\ request.seen.quiet =>
    request.allowed = request.seen.open

(* A consumer of an undisturbed feed never allows what Evaluate refuses.     *)
FeedNeverWidens ==
  Answered /\ request.kind = "feed" /\ request.seen.quiet /\ request.allowed =>
    request.seen.open

(* "They win": Evaluate allows nothing that was denied whenever it was       *)
(* granted.  It does not hold: the denies are read first, and a deny and     *)
(* then a grant may be written before the assignments are read.              *)
DenyBeatsGrant ==
  Answered /\ request.kind = "evaluate" /\ request.allowed /\ request.seen.granted =>
    request.seen.open

(* The feed and Evaluate are two ways to one decision.  It does not hold: an *)
(* excluded caller who has the grant through a group finds the deny riding   *)
(* on the group's assignment, where the exclusion does not reach.            *)
FeedAgrees ==
  Answered /\ request.kind = "feed" /\ request.seen.quiet =>
    request.allowed = request.seen.open
===============================================================================
