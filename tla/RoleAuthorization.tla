-------------------------- MODULE RoleAuthorization --------------------------
(***************************************************************************)
(* Role definitions and role assignments: the handlers of                  *)
(* internal/arm/customroles.go and internal/arm/authorization.go over the  *)
(* tables of internal/store/roledefinitions.go and store/resources.go.     *)
(*                                                                         *)
(* The store holds one SQLite connection, so one SQL statement is atomic;  *)
(* a handler runs several, with no transaction around them, and requests   *)
(* interleave between the statements.  A request suspended between two     *)
(* statements is a record of `inflight`; its field `at` names the          *)
(* statement it runs next and the other fields are its local variables.    *)
(* A request that returns before its first statement, or whose first       *)
(* statement makes it return, changes nothing and is a stuttering step.    *)
(*                                                                         *)
(* Abstracted: the permissions of a role (no property here reads them),    *)
(* the ABAC condition of an assignment (parsed before the first statement),*)
(* timestamps, and whether a role id is a bare GUID or a full resource id. *)
(* Kept: the letter case of a GUID and a trailing slash of a role id,      *)
(* because the statements disagree about them.                             *)
(***************************************************************************)
EXTENDS Scopes, FiniteSets

CONSTANTS
  Clients,      \* requests that may be in flight at once, one per client
  Guids,        \* role GUIDs, letter case folded
  BuiltIns,     \* the GUIDs of the roles that live in code
  RoleNames,    \* display names of custom roles, letter case folded
  Names,        \* names of role assignments
  Principals,
  ScopeSet      \* the scopes requests use, as sequences of segments

ASSUME BuiltInsAreGuids == BuiltIns \subseteq Guids

Cases == {"lower", "upper"}
GuidText == [guid : Guids, case : Cases]
RoleIds == [text : GuidText, slash : BOOLEAN]
RoleRows == [text : GuidText, roleName : RoleNames, scopes : SUBSET ScopeSet]
AssignmentRows ==
  [name : Names, scope : ScopeSet, role : RoleIds, principal : Principals]

VARIABLES
  roleDefinitions,  \* table role_definitions: a set of rows
  roleAssignments,  \* table role_assignments: a set of rows
  inflight,         \* requests suspended between two statements
  raced,            \* history: names inserted while their role was going away
  reshaped          \* history: names whose role was rewritten after its check

vars == <<roleDefinitions, roleAssignments, inflight, raced, reshaped>>

Continuations ==
  [at : {"insert"}, client : Clients, row : AssignmentRows, stale : BOOLEAN]
    \cup [at : {"unassign"}, client : Clients, name : Names]
    \cup [at : {"upsert"}, client : Clients, def : RoleRows]
    \cup [at : {"count", "delete"}, client : Clients, text : GuidText]

At(point) == {r \in inflight : r.at = point}
Idle(c) == \A r \in inflight : r.client # c
Others(r) == inflight \ {r}

-------------------------------------------------------------------------------
(* The statements' predicates. *)

SameGuid(s, t) == s.guid = t.guid

\* RoleByGUID on a fixed list, compared without letter case.
IsBuiltIn(text) == text.guid \in BuiltIns

\* SELECT ... WHERE guid = ? COLLATE NOCASE: every row that may answer it.
GetRoleDefinition(text) == {d \in roleDefinitions : SameGuid(d.text, text)}

\* A case-sensitive count is the bug a GUID copied from a portal would meet.
AssignmentsForRoleExact(text) ==
  {a \in roleAssignments : ~a.role.slash /\ a.role.text = text}

\* SELECT COUNT(*) ... WHERE role_definition_id LIKE '%' || ? COLLATE NOCASE:
\* the id must END with the GUID, so a trailing slash hides the assignment.
AssignmentsForRole(text) ==
  {a \in roleAssignments : ~a.role.slash /\ SameGuid(a.role.text, text)}

\* resolveRoleFromID trims a slash, then looks up built-ins before the table.
Resolvable(role) == IsBuiltIn(role.text) \/ GetRoleDefinition(role.text) # {}

\* The scope test the wrong way round.
AssignableUpward(def, scope) ==
  \E sc \in def.scopes : ScopeApplies(scope, sc)

AssignableAt(def, scope) == \E sc \in def.scopes : ScopeApplies(sc, scope)

\* The table without the primary key on the name.
AssignmentConflictTriple(row) ==
  \E a \in roleAssignments :
    /\ a.scope = row.scope
    /\ a.role = row.role
    /\ a.principal = row.principal

\* The two UNIQUE constraints of role_assignments: the name, and the triple.
AssignmentConflict(row) ==
  \E a \in roleAssignments :
    \/ a.name = row.name
    \/ /\ a.scope = row.scope
       /\ a.role = row.role
       /\ a.principal = row.principal

\* The NOCASE index on role_name, against the rows the upsert does not replace.
RoleNameConflict(def) ==
  \E d \in roleDefinitions : d.text # def.text /\ d.roleName = def.roleName

-------------------------------------------------------------------------------
(* PUT roleAssignments/{name}: resolve the role, check it, then insert. *)

CreateResolve(c, row) ==
  /\ Idle(c)
  /\ \/ IsBuiltIn(row.role.text)
     \/ \E d \in GetRoleDefinition(row.role.text) : AssignableAt(d, row.scope)
  /\ inflight' = inflight \cup
       {[at |-> "insert", client |-> c, row |-> row, stale |-> FALSE]}
  /\ UNCHANGED <<roleDefinitions, roleAssignments, raced, reshaped>>

\* The role is gone, or a delete that has counted is about to remove it.
RoleLeaving(r) ==
  \/ ~Resolvable(r.row.role)
  \/ \E d \in At("delete") : SameGuid(d.text, r.row.role.text)

CreateInsert(r) ==
  /\ r.at = "insert"
  /\ ~AssignmentConflict(r.row)
  /\ roleAssignments' = roleAssignments \cup {r.row}
  /\ raced' = IF RoleLeaving(r) THEN raced \cup {r.row.name} ELSE raced
  /\ reshaped' = IF r.stale THEN reshaped \cup {r.row.name} ELSE reshaped
  /\ inflight' = Others(r)
  /\ UNCHANGED roleDefinitions

\* 409 RoleAssignmentExists.
CreateConflict(r) ==
  /\ r.at = "insert"
  /\ AssignmentConflict(r.row)
  /\ inflight' = Others(r)
  /\ UNCHANGED <<roleDefinitions, roleAssignments, raced, reshaped>>

-------------------------------------------------------------------------------
(* DELETE roleAssignments/{name}: read the row to echo, then delete by name. *)

UnassignGet(c, name) ==
  /\ Idle(c)
  /\ \E a \in roleAssignments : a.name = name
  /\ inflight' = inflight \cup {[at |-> "unassign", client |-> c, name |-> name]}
  /\ UNCHANGED <<roleDefinitions, roleAssignments, raced, reshaped>>

UnassignExec(r) ==
  /\ r.at = "unassign"
  /\ roleAssignments' = {a \in roleAssignments : a.name # r.name}
  /\ raced' = raced \ {r.name}
  /\ reshaped' = reshaped \ {r.name}
  /\ inflight' = Others(r)
  /\ UNCHANGED roleDefinitions

-------------------------------------------------------------------------------
(* PUT roleDefinitions/{guid}: look whether it existed, then upsert.  The   *)
(* look decides 200 or 201 only, and the upsert does not depend on it.      *)

PutRoleGet(c, def) ==
  /\ Idle(c)
  /\ ~IsBuiltIn(def.text)
  /\ def.scopes # {}
  /\ inflight' = inflight \cup {[at |-> "upsert", client |-> c, def |-> def]}
  /\ UNCHANGED <<roleDefinitions, roleAssignments, raced, reshaped>>

\* Requests that have checked this role against the row now being rewritten.
MarkStale(text, rs) ==
  {IF q.at = "insert" /\ SameGuid(q.row.role.text, text)
     THEN [q EXCEPT !.stale = TRUE] ELSE q : q \in rs}

PutRoleUpsert(r) ==
  /\ r.at = "upsert"
  /\ ~RoleNameConflict(r.def)
  /\ roleDefinitions' =
       {d \in roleDefinitions : d.text # r.def.text} \cup {r.def}
  /\ reshaped' = reshaped \cup
       {n \in Names : \E a \in roleAssignments :
          a.name = n /\ SameGuid(a.role.text, r.def.text)}
  /\ inflight' = MarkStale(r.def.text, Others(r))
  /\ UNCHANGED <<roleAssignments, raced>>

\* 409 RoleDefinitionWithSameNameExists.
PutRoleConflict(r) ==
  /\ r.at = "upsert"
  /\ RoleNameConflict(r.def)
  /\ inflight' = Others(r)
  /\ UNCHANGED <<roleDefinitions, roleAssignments, raced, reshaped>>

-------------------------------------------------------------------------------
(* DELETE roleDefinitions/{guid}: read, count the assignments, delete. *)

DeleteRoleGet(c, text) ==
  /\ Idle(c)
  /\ ~IsBuiltIn(text)
  /\ GetRoleDefinition(text) # {}
  /\ inflight' = inflight \cup {[at |-> "count", client |-> c, text |-> text]}
  /\ UNCHANGED <<roleDefinitions, roleAssignments, raced, reshaped>>

DeleteRoleCount(r) ==
  /\ r.at = "count"
  /\ AssignmentsForRole(r.text) = {}
  /\ inflight' = Others(r) \cup {[r EXCEPT !.at = "delete"]}
  /\ UNCHANGED <<roleDefinitions, roleAssignments, raced, reshaped>>

\* 409 RoleDefinitionHasAssignments.
DeleteRoleRefused(r) ==
  /\ r.at = "count"
  /\ AssignmentsForRole(r.text) # {}
  /\ inflight' = Others(r)
  /\ UNCHANGED <<roleDefinitions, roleAssignments, raced, reshaped>>

\* DELETE ... WHERE guid = ? COLLATE NOCASE, in every spelling; when another
\* delete was faster no row is affected and the request ends in a 500.
DeleteRoleExec(r) ==
  /\ r.at = "delete"
  /\ roleDefinitions' =
       {d \in roleDefinitions : ~SameGuid(d.text, r.text)}
  /\ inflight' = Others(r)
  /\ UNCHANGED <<roleAssignments, raced, reshaped>>

-------------------------------------------------------------------------------
\* The process stops and starts again: the tables are on disk, requests die.
Restart ==
  /\ inflight # {}
  /\ inflight' = {}
  /\ UNCHANGED <<roleDefinitions, roleAssignments, raced, reshaped>>

Arrive(c) ==
  \/ \E row \in AssignmentRows : CreateResolve(c, row)
  \/ \E name \in Names : UnassignGet(c, name)
  \/ \E def \in RoleRows : PutRoleGet(c, def)
  \/ \E text \in GuidText : DeleteRoleGet(c, text)

Resume(r) ==
  \/ CreateInsert(r)
  \/ CreateConflict(r)
  \/ UnassignExec(r)
  \/ PutRoleUpsert(r)
  \/ PutRoleConflict(r)
  \/ DeleteRoleCount(r)
  \/ DeleteRoleRefused(r)
  \/ DeleteRoleExec(r)

Init ==
  /\ roleDefinitions = {}
  /\ roleAssignments = {}
  /\ inflight = {}
  /\ raced = {}
  /\ reshaped = {}

Next ==
  \/ \E c \in Clients : Arrive(c)
  \/ \E r \in inflight : Resume(r)
  \/ Restart

Spec == Init /\ [][Next]_vars

-------------------------------------------------------------------------------
(* Every table and every suspended request is well formed, a client has at  *)
(* most one request, and neither table holds two rows with one primary key. *)
TypeOK ==
  /\ roleDefinitions \subseteq RoleRows
  /\ roleAssignments \subseteq AssignmentRows
  /\ inflight \subseteq Continuations
  /\ raced \subseteq Names
  /\ reshaped \subseteq Names
  /\ \A q, r \in inflight : q.client = r.client => q = r
  /\ \A d, e \in roleDefinitions : d.text = e.text => d = e
  /\ \A a, b \in roleAssignments : a.name = b.name => a = b

(* What the documents promise of the delete of a role definition: no        *)
(* assignment refers to a definition that does not exist.                   *)
NoDanglingAssignment ==
  \A a \in roleAssignments : Resolvable(a.role)

(* What deleteRoleDefinition's count does guarantee, whatever the           *)
(* interleaving: an assignment without a definition was either inserted     *)
(* between another request's count and delete (or after its own role had    *)
(* gone), or its role id ends in a slash and the count cannot see it.       *)
DanglingExplained ==
  \A a \in roleAssignments :
    ~Resolvable(a.role) => a.name \in raced \/ a.role.slash

\* Some scope the definition declares is the given one or contains it.
Declares(def, scope) ==
  \E sc \in ScopeSet : sc \in def.scopes /\ ScopeApplies(sc, scope)

(* assignableScopes is enforced at assignment: an assignment outside every  *)
(* scope its custom role now declares can only come from a later rewrite of *)
(* that role, never from the assignment path itself.                        *)
OutOfScopeExplained ==
  \A a \in roleAssignments :
    \/ IsBuiltIn(a.role.text)
    \/ GetRoleDefinition(a.role.text) = {}
    \/ a.name \in reshaped
    \/ \E d \in GetRoleDefinition(a.role.text) : Declares(d, a.scope)
===============================================================================
