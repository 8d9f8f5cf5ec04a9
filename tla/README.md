# TLA+ models of arm-emulator

arm-emulator answers the Azure Resource Manager (ARM) calls that a family of local emulators
and the Azure SDKs make: role definitions and assignments, resource groups, Key Vaults, Fabric
capacities, long-running operations, and a decision service for data planes. These modules
model what the program *does*, translated from the Go source; each definition is mapped to
its lines in `PROJECT.json`.

## 1. The system

One process: `net/http` runs every request on its own goroutine; all durable state is in SQLite
behind **one** connection (`store.go:39`); the rest is a clock, two fault counters and a cache of
signing keys, each behind a mutex. So one SQL statement is atomic and one transaction is atomic, but
a handler runs several of them and requests interleave in between. That is the concurrency all
modules model: *a request suspended between two statements is a record* holding the handler's local
variables. Nothing is locked between statements and nothing is retried.

| Component | State | Operations | Talks to | What makes it correct |
|---|---|---|---|---|
| Role definitions, role assignments (`arm/customroles.go`, `arm/authorization.go`, `store/roledefinitions.go`, `store/resources.go`) | two tables | PUT, DELETE of each; reads | scopes, built-in roles in code | no assignment to a role that does not exist; assignments within `assignableScopes`; unique names and triples |
| Scopes (`arm/scope.go`) | none | `CanonicalScope`, `ScopeApplies`, `ScopeChain` | used by all authorization code | inherits downward, on segment boundaries |
| Emulator clock (`clock/clock.go`, `POST /_emulator/clock`) | offset, frozen, frozenAt | SetOffset, Advance, Freeze, Unfreeze | read by the store on every write and by every status | continuous across freeze and unfreeze |
| Long-running operations (`arm/operations.go`, `store/operations.go`) | table `operations` | start, two kinds of poll, `OperationInFlight` | clock; vault, capacity and group handlers | a terminal status is terminal; poll and `provisioningState` agree; pollers finish |
| Vaults (`arm/keyvault.go`, `arm/deletedvaults.go`, `store/vaults.go`, `store/deletedvaults.go`) | tables `vaults`, `deleted_vaults` | create/update, policy add/replace/remove, soft delete, recover, purge | groups, clock, operations | a name is held once; purge is final; nothing is lost on the way |
| Resource groups (`arm/resources.go`) | table `resource_groups` | PUT, DELETE | vault and capacity creation ask for the group | (no promise about contents) |
| Deny assignments, Evaluate, feed (`arm/denyassignments.go`, `arm/evaluate.go`, `arm/feed.go`) | table of denies | control calls; a decision out of several reads | assignments, roles, conditions | a deny beats every grant; feed and Evaluate agree |
| Fabric capacities (`arm/fabric.go`, `store/capacities.go`) | one table | PUT, PATCH, DELETE, suspend, resume, feed | groups, operations | the REST id never moves; deleted stays deleted; no writer undoes another's part |
| Token validation (`auth/auth.go`) | key cache per issuer | lookup, refresh on a miss | issuers over HTTP | a key is only ever used with its own issuer; rotation is picked up |
| Request envelope (`arm/arm.go`) | two fault counters | check order, SetFaults, routing | everything | exactly as many faults as were asked for |
| ABAC (`abac/`) | none | parse, evaluate, Glob | Evaluate | the tree is what the text says; a refusal points at the mistake; a missing attribute never helps |
| Store, server, config, TLS, command line | -- | open, migrate, wire | -- | -- |

`PROJECT.json` lists under `hazards` what is hard to test in each, at its line. The hard behaviours
are the interleavings between statements (check-then-act on roles, groups, vaults and capacities;
read-modify-write of whole rows), statuses derived from a clock a test moves at will, and restarts,
which keep the tables but lose the clock's offset, the fault counters and every request in flight.

## 2. Modules

| Module | Models | Notes |
|---|---|---|
| `Scopes` | `arm/scope.go` | a scope is the sequence of its segments, letter case folded |
| `RoleAuthorization` | roles and assignments | tables as sets of rows, requests as records of `inflight`; one action per statement |
| `RoleAuthorizationProofs` | -- | proofs about `RoleAuthorization` (section 4), as the other `...Proofs` modules are of theirs |
| `EmulatorClock` | `clock/clock.go` | one action per method; real time is `Tick` |
| `OperationLifecycle` | -- | abstract: what a poller is promised, without a clock |
| `AsyncOperations` | operations and SDK pollers | extends `EmulatorClock`; implements `OperationLifecycle` |
| `AsyncOperationsProofs` | -- | invariants, `FrozenHolds` and the refinement of `OperationLifecycle` |
| `VaultLifecycle` | vaults, deleted vaults, groups | three tables, ten request points |
| `VaultLifecycleProofs` | -- | all five properties of run `vaults` |
| `AuthorizationDecision` | `arm/evaluate.go`, `arm/feed.go`, deny assignments | one reader, any writers; uses `Scopes` |
| `AuthorizationDecisionProofs` | -- | all five invariants of run `decision` |
| `CapacityIdentity` | -- | abstract: a name keeps its id while it exists, an id never changes its name |
| `FabricCapacity` | `arm/fabric.go`, `store/capacities.go` | implements `CapacityIdentity` |
| `FabricCapacityProofs` | -- | all invariants of run `capacities`, and the refinement |
| `TokenKeys` | `auth/auth.go` | key documents per issuer, lookup, refresh, verdict; the issuers themselves are external |
| `TokenKeysProofs` | -- | the four invariants of the validator |
| `Routing` | `segments`, `splitProvider`, `route` of `arm/arm.go`; `SubscriptionOf`, `ResourceGroupOf` | operators on paths |
| `RequestEnvelope` | `ServeHTTP` of `arm/arm.go`, `POST /_emulator/faults` | composes `TokenKeys` and `Routing` |
| `RequestEnvelopeProofs` | -- | the pipeline implements the validator; the router is right |
| `Wildcards` | `Glob` of `abac/eval.go`, `actionMatches` of `arm/denyassignments.go` | the two matchers as loops, and one definition of what a pattern means |
| `ConditionLanguage` | the parser of `abac/parse.go` | recursive descent over tokens, with error positions |
| `Comparisons` | `compareNode.eval` and what it calls, of `abac/eval.go` | operators on values and requests |
| `AbacConditions` | the rest of `abac/eval.go`, and `createAssignment` storing a condition | extends `ConditionLanguage` and `Predicates` |
| `Predicates` | who asks the matchers and comparisons: roles, denies, conditions | one question at a time; extends `Comparisons` |
| `PredicatesProofs` | -- | both matchers and the comparisons, for every length |
| `MC...` | -- | instances for TLC |

**RoleAuthorization.** `CreateResolve`/`CreateInsert`/`CreateConflict` are `createAssignment` around its
two statements, `DeleteRoleGet`/`DeleteRoleCount`/`DeleteRoleRefused`/`DeleteRoleExec` are
`deleteRoleDefinition` around its three, and so on. A role id is a GUID in some letter case, with or
without a trailing slash: `GetRoleDefinition` folds case, the upsert's conflict target does not,
`resolveRoleFromID` trims the slash and the `LIKE` of `AssignmentsForRole` does not, and the model
keeps these four apart because their disagreement is what can go wrong. Left out: permissions,
conditions (checked before any statement), timestamps, full versus bare role ids, answers.
Two history variables name the assignments an explained exception applies to: `raced` (the role was
absent, or a delete had already counted, when the row went in) and `reshaped` (the role was rewritten
after the assignment's check).

**EmulatorClock, AsyncOperations.** `Start` and `Create` are the two clock readings of
`startOperation`; `Poll`, `ReGet` the client's loop. `POST /_emulator/clock` makes several clock calls,
each atomic: they interleave like everything else. `Restart` builds a new clock. `FailWith` is set
nowhere in the program, so `Failed` does not occur.

**VaultLifecycle.** `PutVault` (the group check) → `PutLook` → `PutLookDeleted` → `PutWrite` →
`PutOperation`, or `RecoverRead` → `RecoverTx`; `PolicyRead` → `PolicyWrite`; `DeleteRead` → `DeleteTx`;
`PurgeLook` → `PurgeExec`. Each write uses what its request read before. `stale` marks a request whose
vault another one changed after it read; `conflicted` collects the names such a request then wrote.
Properties are abstracted to the object ids of the access policies. `busyUntil` is what the operations
table answers about a vault's id.

**AuthorizationDecision.** A reader goes `Ask` → `ReadDenies` (or `EvaluateDenied`) → `ListAssignments` →
`ListDenies` → `ResolveNext` for each assignment → `EvaluateAnswers` or `FeedConsumed`, one SQL statement each,
and a writer may change any of the three tables between two of them. The writers are the write statements alone:
their checks are the business of `RoleAuthorization`. A pattern list is the set of data actions it matches and a
condition the set of contexts it accepts. `PolicyDenies` and `PolicyGrants` say what the documents promise from
the tables of *one* moment, independently of the code's own predicates; `seen` accumulates them over the moments
of a request, and the properties compare the answer with that. The consumer of the feed is outside this
repository and is modelled as `docs/07-family-feed.md` and the comments in `feed.go` tell it to decide.

**FabricCapacity.** `PutCapacity` (group check) → `PutLookup` (the id the name has, or a new one) → `Write` →
`StartOperation`; `PatchCapacity`, `SuspendCapacity`, `ResumeCapacity` read the row and go to the same `Write`, which is
the upsert of a whole row; `DeleteCapacity` → `DeleteExec` or `DeleteGone`. A client that suspended or resumed then
polls until its operation is over and reads the capacity (`ReGet`). A row is size (standing for everything a PATCH may
change), state, group and REST id. History: `contested` are the ids deleted while some request still held their row,
`promised` is what each name should hold if the writers were taken one at a time, each changing only its own part;
`stale` marks a request whose row was written or deleted after it read it. The group of a PATCH is the group of its
path, and `named` records that a row may have got into a group in that way.

**TokenKeys, Routing, RequestEnvelope.** A validation is a record walking through `Lookup`, for each issuer `Fetch` and
`Store` or else `FetchFails`, then `Relook` and `Verify`. Lookups and stores hold the lock, fetches do not. `sure`
is history: the token's issuer has published its key throughout, no fetch from it failed, and no older document was
stored over the one this request stored. A request is `Reject`ed or `Throttle`d and sent again, `Challenge`d, or
authenticated, then `Refuse`d or `Dispatch`ed with some resource; `RoutedRight` compares the route of that resource's
path with the resource. Issuers (`Rotate`) and clients (which resources they ask for, and that they retry) are external.

**Wildcards, Comparisons, ConditionLanguage, AbacConditions, Predicates.** In `AbacConditions` a client writes a condition
token by token, submits it, and the stored tree is evaluated; in `Predicates`, which it
extends and takes turns with, the matchers are asked about a pattern and an action, or a comparison about a request. The properties never use the parser or the matchers to say what is right:
`WellFormed` and `FirstWrong` are an automaton with a depth, `Meaning` splits a text at its loosest operator, `Matches` says
what `*` and `?` stand for. (Of a single comparison `Meaning` takes the tree; comparisons have `OppositesExclude` and
`MissingNeverHelps`.) `Round` is one round of the loop in `globMatch`, with its four variables, and `Glob` the loop run for
more rounds than it can make; `ActionMatches` runs through the parts as `actionMatches` does. Letter case, the lexer and the
reading of numbers, times and booleans out of text are abstracted; what a value reads as is part of it, `NaN` included
(`NaN` is a constant outside the integers, and the four orders are false of it, as `<`, `<=`, `>` and `>=` are of a float64).

## 3. Runs

| Run | Instance | Shows |
|---|---|---|
| `roles` | 2 clients, 1 custom and 1 built-in GUID in two letter cases, 2 role names, 1 assignment name, nested scopes; 0.9 M states | `TypeOK`, `DanglingExplained`, `OutOfScopeExplained` hold in every interleaving |
| `roles_dangling` | 1 client | `NoDanglingAssignment` fails without any concurrency (trailing slash) |
| `operations` | 2 clients, 1 resource, 2 operations, delay 2, times to 4; 0.6 M states | refinement, boundary second, freeze, liveness |
| `vaults` | 2 clients, 1 name, retention 1, delay 1, times to 2, 2 vaults ever; 2.4 M states | the five properties below |
| `vaults_race` | same | `NameHeldOnce` fails when a write races a soft delete |
| `vaults_moved` | 1 client, 2 groups | `ClockDecidesProvisioning` fails when a PUT names another group |
| `decision` | a user in a group, a vault, its subscription and a sibling, 2 roles, 2 assignment names, 1 deny of 4 shapes; 0.4 M states | the answers of Evaluate and of the feed against the policy |
| `decision_torn` | same | `DenyBeatsGrant` fails: a deny, then a grant, written between two reads of Evaluate |
| `feed_disagrees` | same | `FeedAgrees` fails without any writer in between |
| `capacities` | 2 clients, 1 name, 2 groups, 2 sizes, delay 1, times to 1, 2 ids; 1.2 M states | the five invariants below, and the refinement of `CapacityIdentity` |
| `requests` | 2 clients, 2 issuers, 2 kids (one shared, one rotated away), 2 keys, 3 tokens, both faults at once; a group and a name called `providers`, a subscription called `resourcegroups`; 0.1 M states | keys, verdicts and routes under rotation, failures and restarts; every request is answered |
| `conditions` | every text of up to 9 tokens that is right or goes wrong at its end, every list of up to two of four attribute values, one of them `NaN` as a number; patterns and actions of up to 3 characters; twelve operators, five quantifiers, up to two of four literals; 0.5 M states | parser, evaluation, matchers and comparisons against independent definitions |

*Why the bounds are enough.* A race needs two requests, and the proofs cover any number of them, and every
value of the other constants. One assignment name lets a name be deleted and reused; two
role names let the name index refuse. In `vaults`, one name is what all properties are about, two vaults
let a name lapse and be created again, retention 1 in a clock to 2 has a second inside the window, its
boundary and one after. `LRODelay = 2` in `operations` has an inside, a boundary and an after, and the
deltas 1 and 3 step onto the boundary and over it. In `decision`, a torn read needs one write to each of two tables while a
request is under way, and the writers are unbounded; two assignments make the resolution order matter. In `capacities`, everything
is about one name; two ids let it be deleted and created again, and the operations of one second have an inside and an
end. In `requests`, a lost refresh needs two requests, a shared kid two issuers, a rotation two documents. In
`conditions`, nine tokens are what `a OR b AND c` with distinguishable operands takes, and what a quantified comparison
with two literals takes; two attribute values and two literals tell all four quantifiers apart. Three
characters make a matcher go back to a star, once; `PredicatesProofs` covers every length. `MaxNow`, `MaxFrozen`, `MaxBorn`,
`MaxIds`, `MaxDocs`, `MaxTokens`, `MaxChars`, `Routers`, `Ids` are bounds of the models only.

*Assumptions.* `ForwardSpec` of `AsyncOperations` and of `VaultLifecycle` restricts steps to those that do
not set the controlled time back: `Advance` accepts negative seconds and a restart loses an offset, and then
finished operations run again and lapsed vaults are recoverable again. The repository's tests only move forward.

*Fairness* (`FairSpec`): real time passes (weak fairness of `Tick`; the host's clock does), and a request
in progress and an SDK poller go on (weak fairness of `Create`, `Poll`, `ReGet`; goroutines are scheduled and
nothing in these handlers blocks but the single connection, which is released after each statement). No fairness
of clock control is assumed; `PollersFinish` is promised only if the clock is eventually left unfrozen.
In the bounded model `Tick` stops at `MaxNow`; `Start` requires its operation to complete by then.
`FairSpec` of `RequestEnvelope`: a request that is being authenticated goes on (its goroutine is scheduled, the locks
are held for a few instructions, and a fetch ends with a document or an error at last, although the HTTP client sets no
timeout), and a client that met an injected fault sends again. Issuers, restarts and fault control get no fairness.

*Properties beyond types.*
- `DanglingExplained`, `OutOfScopeExplained`: the exact extent of the role checks' guarantee under interleaving.
- `ImplementsLifecycle`: statuses derived from the clock refine an automaton that only moves forward.
- `TerminalMeansSettled`: SQL's `complete_at > now` and Go's `now < complete_at` agree in the boundary second.
- `FrozenHolds`, `PollersFinish`: a frozen clock holds operations; an unfrozen one finishes them.
- `NameHeldOnceUnlessRaced`, `PurgeIsFinal`, `MovesKeepContents`, `PolicyOpsApply`: what the vault tables
  guarantee to requests whose reads were still true when they wrote, that is, to anyone who does not race.
- `StableDenyRefuses`, `StableGrantAllows`: what stood for the whole of a request decides it, whatever else was
  written; `QuietDecisionIsPolicy`, `FeedNeverWidens`: undisturbed, Evaluate is the policy and a consumer of the
  feed never allows more.
- `ImplementsIdentity`: the REST id under a name never changes while the capacity exists, whatever PUTs, PATCHes and
  deletes race. `RetiredStaysGone`, `WritesKeepTheRest`, `PollerReadsItsState`, `HomeExplained`: what whole-row writes
  guarantee, and to whom they do not.
- `AcceptedIsGenuine`, `CacheIsADocument`, `PublishedKeyFound`: a key serves only the issuer that published it, documents never
  mix, and a published key is found unless the kid is not its own, its issuer failed or an older document landed later.
- `EveryTokenAnswered`, `RetriesGetThrough`: one miss costs one round of fetches; faults run out.
- `RoutedRight`: every resource path reaches its own handler with its own scope, but for a resource named `providers`;
  and the handler reads the right subscription and group, but for the group in a subscription called `resourcegroups`
  (`ResourceGroupOf` takes what follows the first segment of that name; `config.go:129` only asks for a subscription id
  that is not empty).
- `AnswersWhatTheTextSays`, `RefusalsPointAtTheMistake`, `ListedAttributesSuffice`, `MissingNeverHelps`: conditions.
- `OppositesExclude`: the four quantifiers and the opposite operators mirror each other, but for `NaN`. An attribute whose
  text is `NaN` reads as a number (`eval.go:300`) that is in no order with any literal, so `NumericLessThan` and
  `NumericGreaterThanOrEquals` both fail on it; the property says so, and that of every other number one of them holds.
- `GlobIsWildcards` has a precondition the run showed to be needed: on a subject that contains a `*`
  itself, `globMatch` may refuse what the pattern covers (`*` does not match `*a`); `DenyPatternsAreWildcards` needs none.

*Findings.* Five `violation` runs show where the code departs from its own comments; see `findings`.

## 4. Proofs

Every theorem holds for **every** value of the constants: any number of clients, names, groups, roles, scopes, issuers,
keys, any delay and retention. The assumptions are the named `ASSUME`s of the modules (bounds are naturals, built-in
GUIDs are GUIDs, `NoKey` is no key, a published document is well formed, a segment of a path is not blank, a comparison has a literal, which `parseComparison` makes sure of, its literal is no `NaN`, which the lexer
makes sure of, only numbers and times are put in order, and an attribute's values are a list); TLC evaluates
them in the runs. All invariants and action properties of the runs `roles`, `operations`, `vaults`, `decision`,
`capacities` and `requests` are theorems, and so are the three of run `conditions` that are stated in `Predicates` and
both refinements. Along the way:

| Module | Theorems | Inductive invariant, and why it is needed |
|---|---|---|
| `RoleAuthorizationProofs` | `TypeCorrect`, `DanglingIsExplained`, `OutOfScopeIsExplained`, `NoneDanglesInTurn` | `CountedDeletes`: between a count and its delete every assignment of the role is invisible to the count (slash) or in `raced`. `CheckedCreates`: a create that is not stale still has its scope allowed, or no definition at all. `InTurn`, for one request at a time: a create about to insert still has its role |
| `AsyncOperationsProofs` | `OperationsTypeCorrect`, `TerminalDoesMeanSettled`, `FrozenDoesHold`, `OperationsFollowTheLifecycle` | what each poller has been told is still true of the clock; needs `ForwardSpec`, as a clock set back un-finishes operations |
| `VaultLifecycleProofs` | `VaultsTypeCorrect`, `NameIsHeldOnceUnlessRaced`, `PurgeStaysFinal`, `MovesDoKeepContents`, `PolicyOpsDoApply`, `NameIsHeldOnceInTurn`, `PurgeIsFinalInTurn`, `OnlyMovesDoHideCreating`, `OnlyPutsHideCreatingInTurn` | `FreshReads`: what a request that is not stale has read still holds of the tables, one clause per kind of read. For purges also `NumbersNameOne` and `NumbersBorn`: a vault's number, in the tables or carried by a request, is that of one name. For moves `NumbersInv`, the same of the numbers on a clock that may also be set back, and `FreshLiveReads`, the part of `FreshReads` no clock disturbs; with `BusyNoShorter`: no step shortens the time a vault's id is busy |
| `AuthorizationDecisionProofs` | `DecisionTypeCorrect`, `StableDenyDoesRefuse`, `StableGrantDoesAllow`, `QuietDecisionDoesFollowPolicy`, `FeedDoesNotWiden` | `ReaderInv`: what the reader holds at each of its points against the history of the policy's moments (`HistoryHolds`, `DenySeen`, `AssignmentsSeen`, `RolesSeen`). The argument is that a write can only weaken what the history claims (`WriteKeepsReader`), so each read needs to be right only at its own moment |
| `FabricCapacityProofs` | `TypeCorrect`, `WritesDoKeepTheRest`, `RetiredDoesStayGone`, `HomeIsExplained`, `PollerDoesReadItsState`, `CapacitiesKeepIdentity` | `DrawnForItsName`: every id in the table or in a request was drawn for the name it stands with; `FreshWrites`: a write that is not stale carries the row as it is, but for its own part |
| `TokenKeysProofs` | `TokenTypeCorrect`, `CacheHoldsDocuments`, `AcceptedTokensAreGenuine`, `PublishedKeysAreFound` | a document on its way from a fetch to the cache is one its issuer has served; a key a validation has found is one its issuer has listed; a validation that is still `sure` finds its key in each document it stored |
| `RequestEnvelopeProofs` | `EnvelopeImplementsValidator`, `EnvelopeTypeCorrect`, `EnvelopeAcceptsGenuine`, `EnvelopeCacheHoldsDocuments`, `EnvelopeFindsPublishedKeys`, `EnvelopeRoutesRight` | every step of a request is a step of the validator or leaves it alone, so the three facts about tokens carry over. For routes: the segments of a path are what follows its leading slash (`SegmentsOfPath`), and the last `providers` of a resource id stands before its type (`ProviderOfId`) |
| `PredicatesProofs` | `AlwaysAsked`, `GlobAlwaysWildcards`, `DenyPatternsAlwaysWildcards`, `OppositesAlwaysExclude` | of the loop in `globMatch`, `Holds`: the pattern up to the last star can be laid along the subject up to the mark, everything since was compared one by one, and *however the whole is laid* the star ends at the mark or later -- so to go back further would find nothing. `Weight` grows with every round (`RoundHolds`), so the loop ends. Of `actionMatches`, `Found`: the parts so far can be laid along what is gone, and never along less |

`NoneDanglesInTurn`, `NameIsHeldOnceInTurn` and `OnlyPutsHideCreatingInTurn` complete three findings. With one request at
a time the first two documented promises hold (for roles, of ids that do not end in a slash), so the interleavings the
runs `roles_dangling` and `vaults_race` are about are the only cause there is; and the case of run `vaults_moved`, a PUT
that names another resource group, is then the only one in which a vault still being created is reported `Succeeded`.
When requests race there is one more, and `OnlyMovesDoHideCreating` says that there is no third: an access-policy
operation (or a recover) that read the vault in one group, is overtaken by a PUT into another, and writes the old group
back. `PurgeIsFinalInTurn` is `PurgeIsFinal` without its exception, for one request at a time.

Each step lemma has one step per action; lemmas about request records (`ArriveShape`, `WrittenShape`, `TouchedShape`,
...) are proved once and cited. The two refinements map each step to a step of the abstract module or to a stutter. Where
a fact is about a recursive function it is proved by the least counterexample (`LeastOf`, `UpTo`), and that there is a
function with such an equation by taking its steps one after the other (`Iterate`).

Only model-checked:
- liveness (`PollersFinish`, `EveryTokenAnswered`, `RetriesGetThrough`): it rests on fairness and `ENABLED`, which the
  prover does not treat;
- the other five properties of run `conditions`: `ConditionLanguage` and `AbacConditions` are a recursive parser and a recursive
  evaluation of trees, which are out of the prover's reach; what they rest on (`Glob`, `EvalCompare`) is proved;
- the five findings: they are counterexamples.

## 5. Plan

Done: all modules and the proofs above. Left: the parser of conditions by an
explicit stack instead of recursion, so that it can be proved about.

## 6. Not modelled

Signature and certificate checking, JSON and URL handling, the lexer of conditions and the reading of values, the catalogue of
Fabric sizes and locations, SQL itself, configuration, TLS files, the website and
the end-to-end drivers: pure data handling or I/O. Reads that change nothing are left out where no property
is about what they return. A SQLite error other than the ones handlers tell apart ends a request with a 500
before its statement has an effect, which in the models is a request that never resumes.
