------------------------ MODULE RequestEnvelopeProofs ------------------------
(***************************************************************************)
(* Proofs about RequestEnvelope: the requests around the validator behave, *)
(* as far as tokens and keys go, like the validator on its own, so what    *)
(* TokenKeysProofs proves of it holds of them.  The router answers every    *)
(* resource with the handler, the scope and the name it was asked for,     *)
(* however deep the scope is.                                              *)
(***************************************************************************)
EXTENDS RequestEnvelope, TokenKeysProofs, SequenceTheorems, WellFoundedInduction

(* Every step of a request is a step of the validator or leaves it alone.    *)
LEMMA EnvelopeStep == [Next]_vars => [TokenNext]_tokenVars
<1> SUFFICES ASSUME [Next]_vars PROVE [TokenNext]_tokenVars
  OBVIOUS
<1>1. ASSUME NEW c \in Clients, Client(c) PROVE [TokenNext]_tokenVars
  BY <1>1 DEF Client, Reject, Throttle, Challenge, Authenticate, Proceeds, Refuse,
              Dispatch, Return, TokenNext
<1>2. CASE \E i \in Issuers : \E doc \in Docs[i] :
             Rotate(i, doc) /\ UNCHANGED envelopeVars
  BY <1>2 DEF TokenNext
<1>3. CASE ArmFaults
  BY <1>3 DEF ArmFaults, SetFaults
<1>4. CASE Restart
  BY <1>4 DEF Restart, TokenNext
<1>5. CASE UNCHANGED vars
  BY <1>5 DEF vars
<1> QED
  BY <1>1, <1>2, <1>3, <1>4, <1>5 DEF Next

(* The request pipeline around the validator implements the validator: the   *)
(* faults, the routes and the retries of ServeHTTP change no key and no      *)
(* verdict.                                                                  *)
THEOREM EnvelopeImplementsValidator == Spec => TokenSpec
<1>1. Init => TokenInit
  BY DEF Init
<1> QED
  BY <1>1, EnvelopeStep, PTL DEF Spec, TokenSpec

(* Behind the request pipeline, too, an accepted token was signed with a key *)
(* that the very issuer it names has listed under its kid.                   *)
THEOREM EnvelopeAcceptsGenuine == Spec => []AcceptedIsGenuine
  BY EnvelopeImplementsValidator, AcceptedTokensAreGenuine, PTL

(* Behind the request pipeline, too, a cached document is one whole document *)
(* of its issuer.                                                            *)
THEOREM EnvelopeCacheHoldsDocuments == Spec => []CacheIsADocument
  BY EnvelopeImplementsValidator, CacheHoldsDocuments, PTL

(* Behind the request pipeline, too, a token whose key is published finds    *)
(* its key, with the same exceptions.                                        *)
THEOREM EnvelopeFindsPublishedKeys == Spec => []PublishedKeyFound
  BY EnvelopeImplementsValidator, PublishedKeysAreFound, PTL

-------------------------------------------------------------------------------
(* Only the two ends of a validation start or end one, for their client;     *)
(* every other step of it keeps it under way.                                *)
LEMMA ValidationUnderWay ==
  ASSUME TokenTypeOK, NEW c \in Clients, NEW d \in Clients,
         Validate(c) \/ \E i \in Issuers : \E doc \in Docs[i] : Rotate(i, doc)
  PROVE  validation'[d].at # "none" <=> validation[d].at # "none"
<1>0. \A e \in Clients : validation[e] \in Validations
  BY DEF TokenTypeOK
<1>1. ASSUME NEW i \in Issuers, NEW doc \in Docs[i], Rotate(i, doc)
      PROVE  validation'[d].at = validation[d].at
  BY <1>0, <1>1, DoubtKeeps DEF Rotate
<1>2. ASSUME validation[c].at # "none", NEW w, w.at # "none", To(c, w)
      PROVE  validation'[d].at # "none" <=> validation[d].at # "none"
  BY <1>2 DEF To, TokenTypeOK
<1>3. CASE Lookup(c)
  BY <1>2, <1>3 DEF Lookup, Found
<1>4. CASE Fetch(c)
  BY <1>2, <1>4 DEF Fetch
<1>5. CASE FetchFails(c)
  BY <1>2, <1>5 DEF FetchFails, NextIssuer
<1>6. CASE Store(c)
  <2>1. \A e \in Clients : validation[e].at # "none" =>
          [validation[e] EXCEPT !.sure = FALSE].at = validation[e].at
    BY <1>0, DoubtKeeps
  <2>2. \A e \in Clients :
          \/ validation'[e] = validation[e]
          \/ validation[e].at # "none" /\ validation'[e].at # "none"
    BY <1>6, <2>1 DEF Store, HasStored, NextIssuer
  <2> QED
    BY <2>2
<1>7. CASE Relook(c)
  BY <1>2, <1>7 DEF Relook, Found
<1>8. CASE Verify(c)
  BY <1>2, <1>8 DEF Verify
<1> QED
  BY <1>1, <1>3, <1>4, <1>5, <1>6, <1>7, <1>8 DEF Validate

LEMMA NextEnvelopeTypeOK == TypeOK /\ [Next]_vars => TypeOK'
<1> SUFFICES ASSUME TypeOK, [Next]_vars PROVE TypeOK'
  OBVIOUS
<1> USE DEF TypeOK
<1> DEFINE InStep ==
      \A c \in Clients :
        (validation[c].at # "none") <=> (serving[c].at = "authenticating")
<1>0. TokenTypeOK'
  BY EnvelopeStep, NextTokenTypeOK
<1>1. ASSUME NEW c \in Clients, Client(c)
      PROVE  throttleNext' \in Nat /\ rejectNext' \in Nat
  BY <1>1 DEF Client, Reject, Throttle, Challenge, Authenticate, Proceeds, Refuse,
              Dispatch, Return, envelopeVars
<1>2. ASSUME NEW c \in Clients, NEW s \in Serving,
             serving' = [serving EXCEPT ![c] = s],
             validation' = validation, s.at # "authenticating",
             serving[c].at # "authenticating"
      PROVE  serving' \in [Clients -> Serving] /\ InStep'
  BY <1>2
<1>3. ASSUME NEW c \in Clients, Reject(c) \/ Throttle(c) \/ Challenge(c) \/ Return(c)
      PROVE  serving' \in [Clients -> Serving] /\ InStep'
  BY <1>2, <1>3 DEF Reject, Throttle, Challenge, Return, Sends, Serving, tokenVars
<1>4. ASSUME NEW c \in Clients, NEW token \in Tokens, Authenticate(c, token)
      PROVE  serving' \in [Clients -> Serving] /\ InStep'
  BY <1>4 DEF Authenticate, Begin, To, Serving, TokenTypeOK
<1>5. ASSUME NEW c \in Clients, Proceeds(c)
      PROVE  serving' \in [Clients -> Serving] /\ InStep'
  BY <1>5, ValidationUnderWay DEF Proceeds, envelopeVars
<1>6. ASSUME NEW c \in Clients, NEW s \in Serving,
             serving' = [serving EXCEPT ![c] = s],
             Finish(c), s.at # "authenticating"
      PROVE  serving' \in [Clients -> Serving] /\ InStep'
  BY <1>6 DEF Finish, To, TokenTypeOK
<1>7. ASSUME NEW c \in Clients, Refuse(c)
      PROVE  serving' \in [Clients -> Serving] /\ InStep'
  <2> DEFINE s == [at |-> "answered"]
  <2>1. s \in Serving /\ s.at # "authenticating"
    BY DEF Serving
  <2>2. serving' = [serving EXCEPT ![c] = s] /\ Finish(c)
    BY <1>7 DEF Refuse
  <2> HIDE DEF s, InStep
  <2> QED
    BY <1>6, <2>1, <2>2
<1>8. ASSUME NEW c \in Clients, NEW res \in Resources, Dispatch(c, res)
      PROVE  serving' \in [Clients -> Serving] /\ InStep'
  <2> DEFINE s == [at |-> "routed", resource |-> res]
  <2>1. s \in Serving /\ s.at # "authenticating"
    BY DEF Serving
  <2>2. serving' = [serving EXCEPT ![c] = s] /\ Finish(c)
    BY <1>8 DEF Dispatch
  <2> HIDE DEF s, InStep
  <2> QED
    BY <1>6, <2>1, <2>2
<1>9. ASSUME NEW c \in Clients, Client(c) PROVE TypeOK'
  BY <1>0, <1>1, <1>3, <1>4, <1>5, <1>7, <1>8, <1>9 DEF Client, Wanted
<1>10. CASE \E i \in Issuers : \E doc \in Docs[i] :
              Rotate(i, doc) /\ UNCHANGED envelopeVars
  <2> SUFFICES ASSUME NEW c \in Clients
               PROVE  (validation'[c].at # "none") <=> (serving'[c].at = "authenticating")
    BY <1>0, <1>10 DEF envelopeVars
  <2> QED
    BY <1>10, ValidationUnderWay DEF envelopeVars
<1>11. CASE ArmFaults
  BY <1>0, <1>11, FaultAssumption DEF ArmFaults, SetFaults, tokenVars
<1>12. CASE Restart
  BY <1>0, <1>12 DEF Restart, Forgotten, Serving
<1>13. CASE UNCHANGED vars
  BY <1>0, <1>13 DEF vars, envelopeVars, tokenVars
<1> QED
  BY <1>9, <1>10, <1>11, <1>12, <1>13 DEF Next

(* Every reachable state of the envelope is well typed, and a token is being *)
(* validated exactly while its request is.                                   *)
THEOREM EnvelopeTypeCorrect == Spec => []TypeOK
<1>1. Init => TypeOK
  BY InitListed DEF Init, TypeOK, GenuineInv, ListedInv, TokenInit, Serving
<1> QED
  BY <1>1, NextEnvelopeTypeOK, PTL DEF Spec

-------------------------------------------------------------------------------
(* The router. *)

Providers == {"microsoft.authorization", "microsoft.keyvault", "microsoft.fabric"}
Types == {"roledefinitions", "roleassignments", "denyassignments", "vaults",
          "deletedvaults", "locations", "capacities", "skus"}

\* What the paths of resources are made of.
Segment ==
  {"subscriptions", "resourcegroups", "providers", "microsoft.management",
   "managementgroups", "mg"}
    \cup Providers \cup Types \cup Subs \cup Groups \cup Names

(* No segment is blank.                                                      *)
LEMMA NoBlankSegment == Blank \notin Segment
<1>1. /\ Blank # "subscriptions" /\ Blank # "resourcegroups" /\ Blank # "providers"
      /\ Blank # "microsoft.management" /\ Blank # "managementgroups"
      /\ Blank # "mg"
  BY Zenon DEF Blank
<1>2. \A p \in Providers : Blank # p
  BY Zenon DEF Blank, Providers
<1>3. \A t \in Types : Blank # t
  BY Zenon DEF Blank, Types
<1> QED
  BY <1>1, <1>2, <1>3, SegmentAssumption DEF Segment

(* The order of the naturals is well founded.                                *)
LEMMA LessIsWellFounded ==
  \E R : IsWellFoundedOn(R, Nat) /\ \A x, y \in Nat : x < y => <<x, y>> \in R
<1>1. \A x, y \in Nat : x < y => <<x, y>> \in OpToRel(<, Nat)
  BY DEF OpToRel
<1> QED
  BY <1>1, NatLessThanWellFounded

(* Every set of naturals that is not empty has a least member.               *)
LEMMA LeastOf ==
  ASSUME NEW T, T \subseteq Nat, T # {}
  PROVE  \E x \in T : \A y \in T : x <= y
<1>1. PICK R : IsWellFoundedOn(R, Nat) /\ \A x, y \in Nat : x < y => <<x, y>> \in R
  BY LessIsWellFounded
<1>0. IsWellFoundedOn(R, Nat)
  BY <1>1
<1>2. \E x \in T : \A y \in T : ~(<<y, x>> \in R)
  BY ONLY <1>0, T \subseteq Nat, T # {}, WFMin
<1>3. PICK x \in T : \A y \in T : ~(<<y, x>> \in R)
  BY <1>2
<1>4. \A y \in T : ~(y < x)
  BY <1>1, <1>3
<1> QED
  BY <1>4

\* The equation of the loop in segments, of arm.go.
Collects(out, path) ==
  out = [n \in 0 .. Len(path) |->
           IF n = 0 THEN <<>>
           ELSE IF path[n] = Blank THEN out[n - 1] ELSE Append(out[n - 1], path[n])]

(* Segments is the last value of a loop that satisfies the equation.         *)
LEMMA SegmentsCollect ==
  ASSUME NEW path
  PROVE  Segments(path) = (CHOOSE out : Collects(out, path))[Len(path)]
  BY DEF Segments, Collects

(* The segments of a path are what follows its leading slash.                *)
LEMMA SegmentsOfPath ==
  ASSUME NEW s \in Seq(Segment)
  PROVE  Segments(<<Blank>> \o s) = s
<1> DEFINE path == <<Blank>> \o s
           L == Len(s) + 1
           upTo(n) == SubSeq(s, 1, n - 1)
           T(out) == {n \in 1 .. L : out[n] # upTo(n)}
<1>1. L \in Nat /\ 1 <= L
  OBVIOUS
<1>2. Len(path) = L
  OBVIOUS
<1>3. path[1] = Blank
  OBVIOUS
<1>4. \A n \in 2 .. L : path[n] # Blank
  BY NoBlankSegment
<1>5. \A n \in 2 .. L : upTo(n) = Append(upTo(n - 1), path[n])
  OBVIOUS
<1>6. upTo(1) = <<>> /\ upTo(L) = s
  OBVIOUS
<1> HIDE DEF path, L, upTo
\* The prefixes of s satisfy the loop's equation.
<1>7. \E out : Collects(out, path)
  <2> DEFINE out == [n \in 0 .. L |-> IF n = 0 THEN <<>> ELSE upTo(n)]
             loop == [n \in 0 .. L |->
                        IF n = 0 THEN <<>>
                        ELSE IF path[n] = Blank THEN out[n - 1]
                        ELSE Append(out[n - 1], path[n])]
  <2>1. ASSUME NEW n \in 0 .. L PROVE out[n] = loop[n]
    <3>1. CASE n = 0
      BY <3>1
    <3>2. CASE n = 1
      <4>1. out[0] = <<>>
        BY <1>1
      <4>2. out[1] = <<>>
        BY <1>1, <1>6
      <4>3. loop[1] = out[0]
        BY <1>1, <1>3
      <4> QED
        BY <3>2, <4>1, <4>2, <4>3
    <3>3. CASE n \in 2 .. L
      <4>1. out[n - 1] = upTo(n - 1)
        BY <1>1, <3>3
      <4>2. loop[n] = Append(out[n - 1], path[n])
        BY <1>1, <1>4, <3>3
      <4>3. out[n] = upTo(n)
        BY <1>1, <3>3
      <4> QED
        BY <1>5, <3>3, <4>1, <4>2, <4>3
    <3> QED
      BY <1>1, <3>1, <3>2, <3>3
  <2>2. out = loop
    BY <2>1
  <2>3. Collects(out, path)
    BY <1>2, <2>2 DEF Collects
  <2> QED
    BY <2>3
\* Whatever satisfies it is the prefixes: a least exception cannot be.
<1>8. ASSUME NEW out, Collects(out, path) PROVE out[L] = s
  <2> DEFINE loop == [n \in 0 .. L |->
                        IF n = 0 THEN <<>>
                        ELSE IF path[n] = Blank THEN out[n - 1]
                        ELSE Append(out[n - 1], path[n])]
  <2>0. out = loop
    BY Zenon, <1>2, <1>8 DEF Collects
  <2>1. out[0] = <<>>
    <3>1. loop[0] = <<>>
      BY <1>1
    <3> QED
      BY ONLY <2>0, <3>1
  <2>2. ASSUME NEW n \in 1 .. L
        PROVE  out[n] = IF path[n] = Blank THEN out[n - 1] ELSE Append(out[n - 1], path[n])
    <3>1. loop[n] = IF path[n] = Blank THEN out[n - 1] ELSE Append(out[n - 1], path[n])
      BY <1>1
    <3> HIDE DEF loop
    <3>2. out[n] = loop[n]
      BY <2>0
    <3> QED
      BY <3>1, <3>2
  <2>3. ASSUME NEW n \in T(out) PROVE \E m \in T(out) : m < n
    <3>1. n \in 1 .. L /\ out[n] # upTo(n)
      OBVIOUS
    <3>2. ASSUME n = 1 PROVE FALSE
      <4>1. out[n] = out[n - 1]
        BY <1>3, <2>2, <3>1, <3>2
      <4>2. out[n - 1] = <<>>
        BY <2>1, <3>2
      <4> QED
        BY <1>6, <3>1, <3>2, <4>1, <4>2
    <3>3. n - 1 \in 1 .. L /\ n \in 2 .. L /\ n \in Int
      BY <1>1, <3>1, <3>2
    <3>4. ASSUME out[n - 1] = upTo(n - 1) PROVE FALSE
      BY <1>4, <1>5, <2>2, <3>1, <3>3, <3>4
    <3>5. n - 1 \in T(out) /\ n - 1 < n
      BY <3>3, <3>4
    <3> QED
      BY <3>5
  <2>4. T(out) \subseteq Nat
    BY <1>1
  <2> HIDE DEF T
  <2>5. T(out) = {}
    <3> SUFFICES ASSUME T(out) # {} PROVE FALSE
      OBVIOUS
    <3>1. PICK n \in T(out) : \A m \in T(out) : n <= m
      BY <2>4, LeastOf
    <3>2. PICK m \in T(out) : m < n
      BY <2>3
    <3> QED
      BY <2>4, <3>1, <3>2
  <2>6. L \in 1 .. L
    BY <1>1
  <2> QED
    BY <1>6, <2>5, <2>6 DEF T
<1>9. (CHOOSE out : Collects(out, path))[L] = s
  BY <1>7, <1>8
<1> QED
  BY <1>2, <1>9, SegmentsCollect DEF path

\* The four last segments of a resource id.
Tail4(type, name) == <<"providers", type[1], type[2], name>>

(* Three neighbours in a sequence, as a sequence.                            *)
LEMMA ThreeOf ==
  ASSUME NEW S, NEW s \in Seq(S), NEW k \in Nat, 1 <= k, k + 2 <= Len(s)
  PROVE  SubSeq(s, k, k + 2) = <<s[k], s[k + 1], s[k + 2]>>
<1> DEFINE t == SubSeq(s, k, k + 2)
           u == <<s[k], s[k + 1], s[k + 2]>>
<1>1. \A i \in k .. k + 2 : s[i] \in S
  BY ElementOfSeq
<1>2. k \in Int /\ k + 2 \in Int /\ k <= k + 2 /\ (k + 2) - k + 1 = 3
  OBVIOUS
<1>3. t \in Seq(S) /\ Len(t) = 3 /\ \A i \in 1 .. 3 : t[i] = s[k + i - 1]
  BY <1>1, <1>2, SubSeqProperties
<1>4. s[k] \in S /\ s[k + 1] \in S /\ s[k + 2] \in S
  BY <1>1
<1>5. u \in Seq(S) /\ Len(u) = 3 /\ \A i \in 1 .. 3 : u[i] = s[k + i - 1]
  BY <1>4
<1> HIDE DEF t, u
<1>6. Len(t) = Len(u) /\ \A i \in 1 .. Len(t) : t[i] = u[i]
  BY <1>3, <1>5
<1>7. t = u
  BY ONLY <1>3, <1>5, <1>6, SeqEqual
<1> QED
  BY <1>7 DEF t, u

(* One member as a sequence.                                                 *)
LEMMA OneOf ==
  ASSUME NEW S, NEW s \in Seq(S), NEW k \in 1 .. Len(s)
  PROVE  SubSeq(s, k, k) = <<s[k]>>
<1> DEFINE t == SubSeq(s, k, k)
           u == <<s[k]>>
<1>1. \A i \in k .. k : s[i] \in S
  BY ElementOfSeq
<1>2. k \in Int /\ k <= k /\ k - k + 1 = 1
  OBVIOUS
<1>3. t \in Seq(S) /\ Len(t) = 1 /\ \A i \in 1 .. 1 : t[i] = s[k + i - 1]
  BY <1>1, <1>2, SubSeqProperties
<1>4. s[k] \in S
  BY <1>1
<1>5. u \in Seq(S) /\ Len(u) = 1 /\ \A i \in 1 .. 1 : u[i] = s[k + i - 1]
  BY <1>4
<1> HIDE DEF t, u
<1>6. Len(t) = Len(u) /\ \A i \in 1 .. Len(t) : t[i] = u[i]
  BY <1>3, <1>5
<1>7. t = u
  BY ONLY <1>3, <1>5, <1>6, SeqEqual
<1> QED
  BY <1>7 DEF t, u

(* The words of the registered types are segments, and none is the mark.     *)
LEMMA RegisteredWords ==
  ASSUME NEW type \in Registered
  PROVE  /\ type = <<type[1], type[2]>>
         /\ type[1] \in Segment /\ type[2] \in Segment /\ "providers" \in Segment
         /\ type[1] # "providers" /\ type[2] # "providers"
<1>2. \A A, B : type \in A \X B =>
        type = <<type[1], type[2]>> /\ type[1] \in A /\ type[2] \in B
  OBVIOUS
<1>3. type = <<type[1], type[2]>>
  BY <1>2 DEF Registered
<1>4. type[1] \in Providers
  BY <1>2 DEF Registered, Providers
<1>5. type[2] \in Types
  BY <1>2 DEF Registered, Types
<1>6. "providers" \notin Providers /\ "providers" \notin Types
  BY DEF Providers, Types
<1> QED
  BY <1>3, <1>4, <1>5, <1>6 DEF Segment

(* The provider portion of a resource id is its type and its name, whatever  *)
(* its scope contains, if the name is not the mark itself.                   *)
LEMMA ProviderOfId ==
  ASSUME NEW scope \in Seq(Segment), NEW type \in Registered,
         NEW name \in Segment, name # "providers"
  PROVE  LET segs == scope \o Tail4(type, name)
         IN  /\ segs \in Seq(Segment)
             /\ Len(segs) = Len(scope) + 4
             /\ Len(scope) = 0 => segs[1] = "providers"
             /\ HasProvider(segs)
             /\ ScopePart(segs) = scope
             /\ ProviderPart(segs) = <<type[1], type[2], name>>
<1> DEFINE segs == scope \o Tail4(type, name)
           n == Len(scope)
<1>1. /\ type[1] \in Segment /\ type[2] \in Segment /\ "providers" \in Segment
      /\ type[1] # "providers" /\ type[2] # "providers"
  BY RegisteredWords
<1>2. n \in Nat
  OBVIOUS
<1>3. segs \in Seq(Segment)
  BY <1>1 DEF Tail4
<1>4. Len(segs) = n + 4
  BY DEF Tail4
<1>5. /\ segs[n + 1] = "providers" /\ segs[n + 2] = type[1]
      /\ segs[n + 3] = type[2] /\ segs[n + 4] = name
  BY DEF Tail4
<1>6. SubSeq(segs, 1, n) = scope
  BY DEF Tail4
<1> HIDE DEF segs, n
<1>7. SubSeq(segs, n + 2, n + 4) = <<segs[n + 2], segs[n + 3], segs[n + 4]>>
  <2> DEFINE k == n + 2
  <2>1. k \in Nat /\ 1 <= k /\ k + 2 <= Len(segs)
    BY <1>2, <1>4
  <2>2. k + 1 = n + 3 /\ k + 2 = n + 4
    BY <1>2
  <2> HIDE DEF k
  <2>3. SubSeq(segs, k, k + 2) = <<segs[k], segs[k + 1], segs[k + 2]>>
    BY <1>3, <2>1, ThreeOf
  <2> QED
    BY <2>2, <2>3 DEF k
<1>8. ProviderMarks(segs) \subseteq 1 .. n + 1 /\ n + 1 \in ProviderMarks(segs)
  BY <1>1, <1>2, <1>3, <1>4, <1>5 DEF ProviderMarks
<1>9. Mark(segs) = n + 1
  BY <1>2, <1>8 DEF Mark, Max
<1>10. HasProvider(segs)
  BY <1>2, <1>4, <1>8, <1>9 DEF HasProvider
<1>11. ScopePart(segs) = scope
  BY <1>2, <1>6, <1>9 DEF ScopePart
<1>12. ProviderPart(segs) = <<type[1], type[2], name>>
  BY <1>2, <1>4, <1>5, <1>7, <1>9 DEF ProviderPart
<1> QED
  BY <1>3, <1>4, <1>5, <1>10, <1>11, <1>12 DEF segs, n

(* The request for a resource reaches the handler of its type.               *)
LEMMA RouteResource ==
  ASSUME NEW scope \in Seq(Segment), NEW type \in Registered,
         NEW name \in Segment, name # "providers"
  PROVE  Route(<<Blank>> \o (scope \o Tail4(type, name)))
           = Answered(type, scope, <<name>>)
<1> DEFINE segs == scope \o Tail4(type, name)
           path == <<Blank>> \o segs
           rest == <<type[1], type[2], name>>
           n == Len(scope)
<1>1. /\ segs \in Seq(Segment)
      /\ Len(segs) = n + 4
      /\ n = 0 => segs[1] = "providers"
      /\ HasProvider(segs)
      /\ ScopePart(segs) = scope
      /\ ProviderPart(segs) = rest
  BY ProviderOfId
<1>2. n \in Nat
  OBVIOUS
<1>3. /\ type = <<type[1], type[2]>>
      /\ type[1] \in Segment /\ type[2] \in Segment
  BY RegisteredWords
<1>4. Segments(path) = segs
  BY <1>1, SegmentsOfPath
<1>5. RouteProvider(scope, rest) = Answered(type, scope, <<name>>)
  <2>1. Len(rest) = 3 /\ rest[1] = type[1] /\ rest[2] = type[2]
    OBVIOUS
  <2>2. SubSeq(rest, 3, 3) = <<name>>
    <3>1. rest \in Seq(Segment)
      BY <1>3
    <3>2. 3 \in 1 .. Len(rest) /\ rest[3] = name
      OBVIOUS
    <3> HIDE DEF rest
    <3>3. SubSeq(rest, 3, 3) = <<rest[3]>>
      BY <3>1, <3>2, OneOf
    <3> QED
      BY <3>2, <3>3
  <2> HIDE DEF rest
  <2>3. <<rest[1], rest[2]>> = type
    BY <1>3, <2>1
  <2>4. Len(rest) >= 2 /\ <<rest[1], rest[2]>> \in Registered
    BY <2>1, <2>3
  <2>5. RouteProvider(scope, rest)
          = Answered(<<rest[1], rest[2]>>, scope, SubSeq(rest, 3, Len(rest)))
    BY Zenon, <2>4 DEF RouteProvider
  <2> QED
    BY Zenon, <2>1, <2>2, <2>3, <2>5
<1> HIDE DEF segs, path, rest, n
<1>6. segs \notin {<<"tenants">>, <<"subscriptions">>}
  BY <1>1, <1>2
<1>7. ~UnderSubscription(segs, 2)
  BY <1>1, <1>2 DEF UnderSubscription
<1>8. ~UnderSubscription(segs, 4)
  BY <1>1, <1>2 DEF UnderSubscription
<1>9. Route(path) = RouteProvider(ScopePart(segs), ProviderPart(segs))
  BY <1>1, <1>4, <1>6, <1>7, <1>8, Zenon DEF Route
<1> QED
  BY <1>1, <1>5, <1>9 DEF path, segs

(* The subscription and the group of a resource group's scope.               *)
LEMMA ScopeOfGroup ==
  ASSUME NEW s, NEW g
  PROVE  LET scope == <<"subscriptions", s, "resourcegroups", g>>
         IN  /\ SubscriptionOf(scope) = s
             /\ ResourceGroupOf(scope) = g \/ s = "resourcegroups"
<1> DEFINE scope == <<"subscriptions", s, "resourcegroups", g>>
           places(key) == {i \in DOMAIN scope : scope[i] = key /\ i < Len(scope)}
<1>1. DOMAIN scope = 1 .. 4 /\ Len(scope) = 4
  OBVIOUS
<1>2. /\ scope[1] = "subscriptions" /\ scope[2] = s
      /\ scope[3] = "resourcegroups" /\ scope[4] = g
  OBVIOUS
<1> HIDE DEF scope
<1>3. 1 \in places("subscriptions") /\ \A i \in places("subscriptions") : 1 <= i
  BY <1>1, <1>2
<1>4. Min(places("subscriptions")) = 1
  <2>1. \A i \in places("subscriptions") : i \in Nat
    BY <1>1
  <2> HIDE DEF places
  <2> QED
    BY <1>3, <2>1 DEF Min
<1>5. SubscriptionOf(scope) = s
  BY <1>2, <1>3, <1>4 DEF SubscriptionOf, After
<1>6. ASSUME s # "resourcegroups" PROVE ResourceGroupOf(scope) = g
  <2>1. places("resourcegroups") = {3}
    BY <1>1, <1>2, <1>6
  <2>2. Min({3}) = 3
    BY DEF Min
  <2>3. Min(places("resourcegroups")) = 3 /\ places("resourcegroups") # {}
    BY <2>1, <2>2
  <2> QED
    BY <1>2, <2>3 DEF ResourceGroupOf, After
<1> QED
  BY <1>5, <1>6 DEF scope

(* A resource is named by segments, and its type is registered.              *)
LEMMA ResourceSegments ==
  ASSUME NEW res \in Resources
  PROVE  /\ res.scope \in Seq(Segment)
         /\ res.type \in Registered
         /\ res.name \in Segment
<1>1. {"subscriptions", "resourcegroups", "providers", "microsoft.management",
       "managementgroups", "mg"} \cup Subs \cup Groups \cup Names \subseteq Segment
  BY DEF Segment
<1>2. Subscriptions \subseteq Seq(Segment)
  <2> SUFFICES ASSUME NEW s \in Subs PROVE <<"subscriptions", s>> \in Seq(Segment)
    BY Zenon DEF Subscriptions
  <2> QED
    BY <1>1
<1>3. ResourceGroups \subseteq Seq(Segment)
  <2> SUFFICES ASSUME NEW r \in ResourceGroups PROVE r \in Seq(Segment)
    OBVIOUS
  <2>1. PICK s \in Subs, g \in Groups : r = <<"subscriptions", s, "resourcegroups", g>>
    BY DEF ResourceGroups
  <2> QED
    BY <1>1, <2>1
<1>4. ManagementGroups \subseteq Seq(Segment)
  BY <1>1 DEF ManagementGroups
<1>5. /\ <<"microsoft.keyvault", "vaults">> \in Registered
      /\ <<"microsoft.fabric", "capacities">> \in Registered
      /\ <<"microsoft.authorization", "roleassignments">> \in Registered
  BY DEF Registered
<1>6. ASSUME NEW r \in Tracked
      PROVE  r.scope \in Seq(Segment) /\ r.type \in Registered /\ r.name \in Segment
  BY <1>1, <1>3, <1>5 DEF Tracked, Typed
<1>7. \A r \in Tracked : ResourceId(r) \in Seq(Segment)
  <2> SUFFICES ASSUME NEW r \in Tracked PROVE ResourceId(r) \in Seq(Segment)
    OBVIOUS
  <2>1. r.scope \in Seq(Segment) /\ r.type \in Registered /\ r.name \in Segment
    BY <1>6
  <2>2. r.type[1] \in Segment /\ r.type[2] \in Segment /\ "providers" \in Segment
    BY <2>1, RegisteredWords
  <2>3. <<"providers", r.type[1], r.type[2], r.name>> \in Seq(Segment)
    BY <2>1, <2>2
  <2> QED
    BY <2>1, <2>3 DEF ResourceId
<1>8. ASSUME NEW r \in Extensions
      PROVE  r.scope \in Seq(Segment) /\ r.type \in Registered /\ r.name \in Segment
  <2>1. <<>> \in Seq(Segment)
    OBVIOUS
  <2>2. {<<>>} \cup ManagementGroups \cup Subscriptions \cup ResourceGroups
          \cup {ResourceId(t) : t \in Tracked} \subseteq Seq(Segment)
    BY <1>2, <1>3, <1>4, <1>7, <2>1
  <2>3. r.scope \in Seq(Segment) /\ r.name \in Segment
    BY <1>1, <2>2 DEF Extensions, Typed
  <2>4. r.type = <<"microsoft.authorization", "roleassignments">>
    BY DEF Extensions, Typed
  <2> QED
    BY <1>5, <2>3, <2>4
<1> QED
  BY <1>6, <1>8 DEF Resources

(* Every resource is routed right, whoever asks.                             *)
LEMMA RoutedResource ==
  ASSUME NEW res \in Resources, res.name # "providers"
  PROVE  LET answer == Route(PathOf(res))
         IN  /\ answer.handler = res.type
             /\ answer.scope = res.scope
             /\ answer.rest = <<res.name>>
             /\ res.scope \in ResourceGroups =>
                  /\ SubscriptionOf(answer.scope) = res.scope[2]
                  /\ \/ ResourceGroupOf(answer.scope) = res.scope[4]
                     \/ res.scope[2] = "resourcegroups"
<1>1. /\ res.scope \in Seq(Segment)
      /\ res.type \in Registered
      /\ res.name \in Segment
  BY ResourceSegments
<1>2. PathOf(res) = <<Blank>> \o (res.scope \o Tail4(res.type, res.name))
  BY Zenon DEF PathOf, ResourceId, Tail4
<1>3. Route(PathOf(res)) = Answered(res.type, res.scope, <<res.name>>)
  BY <1>1, <1>2, RouteResource
<1>4. ASSUME res.scope \in ResourceGroups
      PROVE  /\ SubscriptionOf(res.scope) = res.scope[2]
             /\ \/ ResourceGroupOf(res.scope) = res.scope[4]
                \/ res.scope[2] = "resourcegroups"
  <2>1. PICK s \in Subs, g \in Groups :
          res.scope = <<"subscriptions", s, "resourcegroups", g>>
    BY <1>4 DEF ResourceGroups
  <2>3. res.scope[2] = s /\ res.scope[4] = g
    BY <2>1
  <2>4. /\ SubscriptionOf(res.scope) = s
        /\ ResourceGroupOf(res.scope) = g \/ s = "resourcegroups"
    BY <2>1, ScopeOfGroup
  <2> QED
    BY <2>3, <2>4
<1> DEFINE answer == Route(PathOf(res))
<1>5. answer.handler = res.type /\ answer.scope = res.scope /\ answer.rest = <<res.name>>
  BY <1>3 DEF Answered
<1> HIDE DEF answer
<1>6. /\ answer.handler = res.type
      /\ answer.scope = res.scope
      /\ answer.rest = <<res.name>>
      /\ res.scope \in ResourceGroups =>
           /\ SubscriptionOf(answer.scope) = res.scope[2]
           /\ \/ ResourceGroupOf(answer.scope) = res.scope[4]
              \/ res.scope[2] = "resourcegroups"
  BY <1>4, <1>5
<1> QED
  BY <1>6 DEF answer

(* Every request that reached a handler reached the one of the type it       *)
(* names, with the scope and the name it names, and the handler reads the    *)
(* right subscription and group out of that scope.                           *)
THEOREM EnvelopeRoutesRight == Spec => []RoutedRight
<1>1. TypeOK => RoutedRight
  <2> SUFFICES ASSUME TypeOK, NEW c \in Clients, serving[c].at = "routed",
                      serving[c].resource.name # "providers"
               PROVE  LET res == serving[c].resource
                          answer == Route(PathOf(res))
                      IN  /\ answer.handler = res.type
                          /\ answer.scope = res.scope
                          /\ answer.rest = <<res.name>>
                          /\ res.scope \in ResourceGroups =>
                               /\ SubscriptionOf(answer.scope) = res.scope[2]
                               /\ \/ ResourceGroupOf(answer.scope) = res.scope[4]
                                  \/ res.scope[2] = "resourcegroups"
    BY Zenon DEF RoutedRight
  <2>1. serving[c] \in Serving /\ serving[c].at = "routed"
    BY DEF TypeOK
  <2>2. serving[c].resource \in Resources
    BY <2>1 DEF Serving
  <2> QED
    BY Zenon, <2>2, RoutedResource
<1> QED
  BY <1>1, EnvelopeTypeCorrect, PTL
===============================================================================
