-------------------------- MODULE RequestEnvelope --------------------------
(***************************************************************************)
(* What every ARM request passes on its way in, ServeHTTP of               *)
(* internal/arm/arm.go: the injected faults, the bearer token (module      *)
(* TokenKeys), the api-version, and the route (module Routing).  The fault *)
(* switches are set by POST /_emulator/faults; they are read and counted   *)
(* down under the service's mutex, so that part of a request is one step.  *)
(*                                                                         *)
(* A client whose request met an injected fault sends it again, as the     *)
(* SDKs do on 429 and 500.  The handlers behind the route are the subject  *)
(* of the other modules: here a request ends when its handler is chosen.   *)
(***************************************************************************)
EXTENDS TokenKeys, Routing, Integers

CONSTANTS
  FaultCalls, \* the faults calls set: throttleNext and rejectNext, or -1
  Subs, Groups,
  Names,      \* the names of resources requests ask for
  Routers     \* bound: the clients whose resources are told apart

ASSUME FaultAssumption == FaultCalls \subseteq Int \X Int

\* What a client names is a segment of a path.
ASSUME SegmentAssumption == Blank \notin Subs \cup Groups \cup Names

VARIABLES
  throttleNext, rejectNext,  \* the fault switches
  serving                    \* where each client's request stands

envelopeVars == <<throttleNext, rejectNext, serving>>
vars == <<tokenVars, envelopeVars>>

-------------------------------------------------------------------------------
(* The resources requests name, by type, scope and name. *)

Subscriptions == {<<"subscriptions", s>> : s \in Subs}
ResourceGroups ==
  {<<"subscriptions", s, "resourcegroups", g>> : s \in Subs, g \in Groups}
ManagementGroups ==
  {<<"providers", "microsoft.management", "managementgroups", "mg">>}

Typed(types, scopes) == [type : types, scope : scopes, name : Names]

Tracked ==
  Typed({<<"microsoft.keyvault", "vaults">>,
         <<"microsoft.fabric", "capacities">>}, ResourceGroups)

ResourceId(res) ==
  res.scope \o <<"providers", res.type[1], res.type[2], res.name>>

\* Role and deny assignments live under any scope, a resource included.
Extensions ==
  Typed({<<"microsoft.authorization", "roleassignments">>},
        {<<>>} \cup ManagementGroups \cup Subscriptions \cup ResourceGroups
          \cup {ResourceId(res) : res \in Tracked})

Resources == Tracked \cup Extensions

AnyResource == CHOOSE res \in Resources : TRUE

\* The resources a client may ask for.
Wanted(c) == IF c \in Routers THEN Resources ELSE {AnyResource} \cap Resources

\* A path starts with a slash.
PathOf(res) == <<Blank>> \o ResourceId(res)

-------------------------------------------------------------------------------
Serving ==
  [at : {"idle", "faulted", "authenticating", "answered"}]
    \cup [at : {"routed"}, resource : Resources]

Sends(c) == serving[c].at \in {"idle", "faulted"}

\* SetFaults: a negative value leaves its switch alone.
SetFaults(throttle, reject) ==
  /\ throttleNext' = IF throttle >= 0 THEN throttle ELSE throttleNext
  /\ rejectNext' = IF reject >= 0 THEN reject ELSE rejectNext
  /\ UNCHANGED <<tokenVars, serving>>

\* 500 Injected fault.
Reject(c) ==
  /\ Sends(c)
  /\ rejectNext > 0
  /\ rejectNext' = rejectNext - 1
  /\ serving' = [serving EXCEPT ![c] = [at |-> "faulted"]]
  /\ UNCHANGED <<tokenVars, throttleNext>>

\* A throttle that stays on.
ThrottleForGood(c) ==
  /\ Sends(c)
  /\ rejectNext = 0
  /\ throttleNext > 0
  /\ serving' = [serving EXCEPT ![c] = [at |-> "faulted"]]
  /\ UNCHANGED <<tokenVars, rejectNext, throttleNext>>

\* 429 Injected throttling, only when nothing is to be rejected.
Throttle(c) ==
  /\ Sends(c)
  /\ rejectNext = 0
  /\ throttleNext > 0
  /\ throttleNext' = throttleNext - 1
  /\ serving' = [serving EXCEPT ![c] = [at |-> "faulted"]]
  /\ UNCHANGED <<tokenVars, rejectNext>>

NoFault == rejectNext = 0 /\ throttleNext = 0

\* No Authorization header, no Bearer scheme, or no RS256 JWS: 401.
Challenge(c) ==
  /\ Sends(c)
  /\ NoFault
  /\ serving' = [serving EXCEPT ![c] = [at |-> "answered"]]
  /\ UNCHANGED <<tokenVars, throttleNext, rejectNext>>

Authenticate(c, token) ==
  /\ Sends(c)
  /\ NoFault
  /\ Begin(c, token)
  /\ serving' = [serving EXCEPT ![c] = [at |-> "authenticating"]]
  /\ UNCHANGED <<throttleNext, rejectNext>>

\* The token is refused (401), or the api-version missing or malformed (400).
Refuse(c) ==
  /\ serving[c].at = "authenticating"
  /\ Finish(c)
  /\ serving' = [serving EXCEPT ![c] = [at |-> "answered"]]
  /\ UNCHANGED <<throttleNext, rejectNext>>

Dispatch(c, resource) ==
  /\ serving[c].at = "authenticating"
  /\ validation[c].at = "done"
  /\ validation[c].verdict = "accepted"
  /\ Finish(c)
  /\ serving' = [serving EXCEPT ![c] = [at |-> "routed", resource |-> resource]]
  /\ UNCHANGED <<throttleNext, rejectNext>>

Return(c) ==
  /\ serving[c].at \in {"answered", "routed"}
  /\ serving' = [serving EXCEPT ![c] = [at |-> "idle"]]
  /\ UNCHANGED <<tokenVars, throttleNext, rejectNext>>

\* Faults and cached keys are memory; clients and issuers are elsewhere.
Restart ==
  /\ Forgotten
  /\ throttleNext' = 0
  /\ rejectNext' = 0
  /\ serving' = [c \in Clients |->
       IF serving[c].at = "authenticating" THEN [at |-> "idle"] ELSE serving[c]]

Init ==
  /\ TokenInit
  /\ throttleNext = 0
  /\ rejectNext = 0
  /\ serving = [c \in Clients |-> [at |-> "idle"]]

Proceeds(c) == Validate(c) /\ UNCHANGED envelopeVars

Client(c) ==
  \/ Reject(c)
  \/ Throttle(c)
  \/ Challenge(c)
  \/ \E token \in Tokens : Authenticate(c, token)
  \/ Proceeds(c)
  \/ Refuse(c)
  \/ \E resource \in Wanted(c) : Dispatch(c, resource)
  \/ Return(c)

ArmFaults == \E call \in FaultCalls : SetFaults(call[1], call[2])

Next ==
  \/ \E i \in Issuers : \E doc \in Docs[i] :
       Rotate(i, doc) /\ UNCHANGED envelopeVars
  \/ \E c \in Clients : Client(c)
  \/ ArmFaults
  \/ Restart

Spec == Init /\ [][Next]_vars

\* A request being authenticated goes on, its fetches included: an issuer
\* answers or fails, at last (the HTTP client sets no timeout of its own).
\* A client that met a fault sends again.
Busy(c) == serving[c].at \in {"authenticating", "faulted"}
Fairness == \A c \in Clients : WF_vars(Busy(c) /\ Client(c))

FairSpec == Spec /\ Fairness

-------------------------------------------------------------------------------
(* Every variable has its type; a token is being validated exactly while    *)
(* its request is.                                                          *)
TypeOK ==
  /\ TokenTypeOK
  /\ throttleNext \in Nat
  /\ rejectNext \in Nat
  /\ serving \in [Clients -> Serving]
  /\ \A c \in Clients :
       (validation[c].at # "none") <=> (serving[c].at = "authenticating")

(* The request reaches the handler of the type it names, with the scope and *)
(* the name it names, and the handler reads the right subscription and      *)
(* group out of that scope; also for a resource on another resource, with   *)
(* two "providers" in the path, and for a group named like a keyword.  The  *)
(* exceptions are a resource whose own name is "providers", and the group   *)
(* read in a subscription that is called "resourcegroups".                  *)
RoutedRight ==
  \A c \in Clients :
    serving[c].at = "routed" =>
      LET res == serving[c].resource
          answer == Route(PathOf(res))
      IN  \/ res.name = "providers"
          \/ /\ answer.handler = res.type
             /\ answer.scope = res.scope
             /\ answer.rest = <<res.name>>
             /\ res.scope \in ResourceGroups =>
                  /\ SubscriptionOf(answer.scope) = res.scope[2]
                  /\ \/ ResourceGroupOf(answer.scope) = res.scope[4]
                     \/ res.scope[2] = "resourcegroups"

(* Every token is answered for: one miss costs one round of fetches, never  *)
(* more, however the issuers rotate or fail, as long as each fetch ends.    *)
EveryTokenAnswered ==
  \A c \in Clients :
    (serving[c].at = "authenticating") ~> (serving[c].at # "authenticating")

(* A client that retries gets past the injected faults, unless they are set *)
(* again and again.                                                         *)
RetriesGetThrough ==
  ~[]<><<ArmFaults>>_vars =>
    \A c \in Clients : (serving[c].at = "faulted") ~> (serving[c].at # "faulted")
===============================================================================
