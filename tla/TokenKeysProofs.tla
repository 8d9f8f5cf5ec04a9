--------------------------- MODULE TokenKeysProofs ---------------------------
(***************************************************************************)
(* Proofs about TokenKeys, for any number of clients and issuers, any kids *)
(* and keys and any documents the issuers may publish.                     *)
(***************************************************************************)
EXTENDS TokenKeys, FiniteSetTheorems, TLAPS

(* What is served, fetched or cached is a document the issuer has served,  *)
(* and a key found in the cache is one the issuer has listed.              *)
PublishedIsListed == \A i \in Issuers : published[i] \in documents[i]

FetchedIsListed ==
  \A c \in Clients :
    validation[c].at = "store" => validation[c].doc \in documents[validation[c].issuer]

FoundIsListed ==
  \A c \in Clients :
    validation[c].at = "verify" =>
      HasListed(validation[c].issuer, validation[c].token.kid, validation[c].key)

ListedInv ==
  /\ TokenTypeOK
  /\ PublishedIsListed
  /\ FetchedIsListed
  /\ CacheIsADocument
  /\ FoundIsListed

GenuineInv == ListedInv /\ AcceptedIsGenuine

(* As long as nothing has happened that excuses a refusal, the issuer goes  *)
(* on publishing the key, the document fetched from it has the key, and so  *)
(* has the cache once this request has stored that document.                *)
SureOf(v, served, cached) ==
  /\ v.at \in {"lookup", "relook", "fetch", "store"} =>
       served[v.token.iss][v.token.kid] = v.token.key
  /\ v.at = "store" /\ v.issuer = v.token.iss => v.doc[v.token.kid] = v.token.key
  /\ HasStored(v, v.token.iss) => cached[v.token.iss][v.token.kid] = v.token.key

SureInv ==
  \A c \in Clients :
    validation[c].at # "none" /\ validation[c].sure =>
      SureOf(validation[c], published, keys)

FoundInv == ListedInv /\ SureInv /\ PublishedKeyFound

-------------------------------------------------------------------------------
(* Every nonempty set of issuers has a first one, in configuration order.   *)
(* Its lower bounds are a finite set; were there no least element, adding   *)
(* one would map them into themselves, one to one, without reaching 0.      *)
LEMMA FirstOfIssuers ==
  ASSUME NEW T \in SUBSET Issuers, T # {}
  PROVE  \E i \in T : \A j \in T : i <= j
<1> SUFFICES ASSUME \A i \in T : \E j \in T : ~(i <= j)
             PROVE  FALSE
  OBVIOUS
<1> DEFINE Lower == {k \in 0 .. NIssuers : \A j \in T : k < j}
           succ == [k \in Lower |-> k + 1]
<1>1. PICK t \in T : TRUE
  OBVIOUS
<1>2. NIssuers \in Nat /\ T \subseteq 1 .. NIssuers
  BY TokenKeysAssumption DEF Issuers
<1>3. 0 \in Lower
  BY <1>2
<1>4. ASSUME NEW k \in Lower PROVE k + 1 \in Lower
  <2>1. k + 1 \in 0 .. NIssuers /\ \A j \in T : k + 1 <= j
    BY <1>1, <1>2
  <2>2. k + 1 \notin T
    BY <1>2, <2>1
  <2> QED
    BY <1>2, <2>1, <2>2
<1>5. succ \in Injection(Lower, Lower)
  BY <1>2, <1>4 DEF Injection, IsInjective
<1>6. IsFiniteSet(Lower)
  <2>1. IsFiniteSet(0 .. NIssuers)
    BY <1>2, FS_Interval
  <2>2. Lower \in SUBSET (0 .. NIssuers)
    OBVIOUS
  <2> QED
    BY <2>1, <2>2, FS_Subset
<1>7. succ \in Surjection(Lower, Lower)
  BY <1>5, <1>6, FS_Injection
<1>8. PICK k \in Lower : succ[k] = 0
  BY <1>3, <1>7 DEF Surjection
<1> QED
  BY <1>2, <1>8

LEMMA FirstHolderHolds ==
  ASSUME NEW kid, Holders(kid) # {}
  PROVE  FirstHolder(kid) \in Issuers /\ keys[FirstHolder(kid)][kid] # NoKey
<1>1. \E i \in Holders(kid) : \A j \in Holders(kid) : i <= j
  BY FirstOfIssuers DEF Holders
<1>2. FirstHolder(kid) \in Holders(kid)
  BY <1>1 DEF FirstHolder
<1> QED
  BY <1>2 DEF Holders

(* A request that is being validated is of one of the six kinds.            *)
LEMMA ValidationFields ==
  ASSUME NEW v \in Validations
  PROVE  /\ v.at \in {"none", "lookup", "relook", "fetch", "store", "verify", "done"}
         /\ v.at # "none" => v.token \in Tokens /\ v.sure \in BOOLEAN
         /\ v.at \in {"fetch", "store", "verify"} => v.issuer \in Issuers
         /\ v.at = "store" => v.doc \in AllDocs
         /\ v.at = "verify" => v.key \in Keys
         /\ v.at = "done" => v.verdict \in Verdicts
  BY DEF Validations

LEMMA TokenFields ==
  ASSUME NEW token \in Tokens
  PROVE  token.kid \in Kids /\ token.key \in Keys /\ token.iss \in Issuers
                            /\ token.key # NoKey
  BY TokenKeysAssumption

(* A doubt about a request changes nothing else of it.                      *)
LEMMA DoubtKeeps ==
  ASSUME NEW v \in Validations, v.at # "none"
  PROVE  LET w == [v EXCEPT !.sure = FALSE]
         IN  /\ w \in Validations
             /\ w.at = v.at /\ w.token = v.token /\ w.sure = FALSE
             /\ v.at \in {"fetch", "store", "verify"} => w.issuer = v.issuer
             /\ v.at = "store" => w.doc = v.doc
             /\ v.at = "verify" => w.key = v.key
             /\ v.at = "done" => w.verdict = v.verdict
<1> DEFINE w == [v EXCEPT !.sure = FALSE]
<1>1. CASE v.at \in {"lookup", "relook"}
  <2>1. v \in [at : {"lookup", "relook"}, token : Tokens, sure : BOOLEAN]
    BY <1>1 DEF Validations
  <2>2. w \in [at : {"lookup", "relook"}, token : Tokens, sure : BOOLEAN]
    BY <2>1
  <2> QED
    BY <1>1, <2>1, <2>2 DEF Validations
<1>2. CASE v.at = "fetch"
  <2>1. v \in [at : {"fetch"}, token : Tokens, sure : BOOLEAN, issuer : Issuers]
    BY <1>2 DEF Validations
  <2>2. w \in [at : {"fetch"}, token : Tokens, sure : BOOLEAN, issuer : Issuers]
    BY <2>1
  <2> QED
    BY <1>2, <2>1, <2>2 DEF Validations
<1>3. CASE v.at = "store"
  <2>1. v \in [at : {"store"}, token : Tokens, sure : BOOLEAN, issuer : Issuers,
               doc : AllDocs]
    BY <1>3 DEF Validations
  <2>2. w \in [at : {"store"}, token : Tokens, sure : BOOLEAN, issuer : Issuers,
               doc : AllDocs]
    BY <2>1
  <2> QED
    BY <1>3, <2>1, <2>2 DEF Validations
<1>4. CASE v.at = "verify"
  <2>1. v \in [at : {"verify"}, token : Tokens, sure : BOOLEAN, issuer : Issuers,
               key : Keys]
    BY <1>4 DEF Validations
  <2>2. w \in [at : {"verify"}, token : Tokens, sure : BOOLEAN, issuer : Issuers,
               key : Keys]
    BY <2>1
  <2> QED
    BY <1>4, <2>1, <2>2 DEF Validations
<1>5. CASE v.at = "done"
  <2>1. v \in [at : {"done"}, token : Tokens, sure : BOOLEAN, verdict : Verdicts]
    BY <1>5 DEF Validations
  <2>2. w \in [at : {"done"}, token : Tokens, sure : BOOLEAN, verdict : Verdicts]
    BY <2>1
  <2> QED
    BY <1>5, <2>1, <2>2 DEF Validations
<1> QED
  BY <1>1, <1>2, <1>3, <1>4, <1>5, ValidationFields

LEMMA ToShape ==
  ASSUME TokenTypeOK, NEW c \in Clients, NEW w \in Validations, To(c, w)
  PROVE  /\ validation' \in [Clients -> Validations]
         /\ validation'[c] = w
         /\ \A d \in Clients : d # c => validation'[d] = validation[d]
  BY DEF TokenTypeOK, To

(* A lookup that hits leads to the check of the signature with a key that    *)
(* is cached for the issuer it came from.                                    *)
LEMMA FoundShape ==
  ASSUME TokenTypeOK, NEW c \in Clients, Found(c),
         validation[c].at \in {"lookup", "relook"}
  PROVE  \E i \in Issuers :
           LET v == validation[c]
               w == [at |-> "verify", token |-> v.token, sure |-> v.sure,
                     issuer |-> i, key |-> keys[i][v.token.kid]]
           IN  To(c, w) /\ w \in Validations /\ w.key # NoKey
<1> DEFINE v == validation[c]
           i == FirstHolder(v.token.kid)
           w == [at |-> "verify", token |-> v.token, sure |-> v.sure,
                 issuer |-> i, key |-> keys[i][v.token.kid]]
<1>1. v \in Validations /\ v.token \in Tokens /\ v.sure \in BOOLEAN
  BY ValidationFields DEF TokenTypeOK
<1>2. i \in Issuers /\ keys[i][v.token.kid] # NoKey
  BY FirstHolderHolds DEF Found
<1>3. keys[i][v.token.kid] \in Keys
  BY <1>1, <1>2, TokenFields DEF TokenTypeOK, AllDocs
<1>4. w \in Validations
  BY <1>1, <1>2, <1>3 DEF Validations
<1>5. To(c, w)
  BY DEF Found
<1> QED
  BY <1>2, <1>4, <1>5

(* The loop over the issuers goes on to the next one or to the second look.  *)
LEMMA NextIssuerShape ==
  ASSUME NEW token \in Tokens, NEW sure \in BOOLEAN, NEW i \in Issuers
  PROVE  LET w == NextIssuer(token, sure, i)
         IN  /\ w \in Validations
             /\ w.token = token
             /\ w.sure = sure
             /\ \/ w.at = "fetch" /\ w.issuer = i + 1
                \/ w.at = "relook" /\ i = NIssuers
<1>1. NIssuers \in Nat
  BY TokenKeysAssumption
<1>2. CASE i < NIssuers
  BY <1>1, <1>2 DEF NextIssuer, Validations, Issuers
<1>3. CASE ~(i < NIssuers)
  BY <1>1, <1>3 DEF NextIssuer, Validations, Issuers
<1> QED
  BY <1>2, <1>3

LEMMA InitListed == TokenInit => GenuineInv /\ SureInv /\ PublishedKeyFound
<1> SUFFICES ASSUME TokenInit PROVE GenuineInv /\ SureInv /\ PublishedKeyFound
  OBVIOUS
<1>1. published \in [Issuers -> AllDocs]
  BY TokenKeysAssumption DEF TokenInit
<1>2. EmptyDoc \in AllDocs
  BY DEF EmptyDoc, AllDocs
<1>3. [at |-> "none"] \in Validations
  BY DEF Validations
<1>4. TokenTypeOK
  BY <1>1, <1>2, <1>3 DEF TokenInit, TokenTypeOK
<1> QED
  BY <1>4 DEF TokenInit, GenuineInv, ListedInv, PublishedIsListed, FetchedIsListed,
              CacheIsADocument, FoundIsListed, AcceptedIsGenuine, SureInv,
              PublishedKeyFound

LEMMA NextTokenTypeOK == TokenTypeOK /\ [TokenNext]_tokenVars => TokenTypeOK'
<1> SUFFICES ASSUME TokenTypeOK, [TokenNext]_tokenVars PROVE TokenTypeOK'
  OBVIOUS
<1> USE DEF TokenTypeOK
<1>0. \A c \in Clients : validation[c] \in Validations
  OBVIOUS
<1>1. ASSUME NEW i \in Issuers, NEW doc \in Docs[i], Rotate(i, doc)
      PROVE  TokenTypeOK'
  <2>1. doc \in AllDocs
    BY TokenKeysAssumption
  <2>2. ASSUME NEW c \in Clients PROVE validation'[c] \in Validations
    BY <1>0, <1>1, DoubtKeeps DEF Rotate
  <2>3. validation' \in [Clients -> Validations]
    BY <1>1, <2>2 DEF Rotate
  <2>4. published' \in [Issuers -> AllDocs] /\ documents' \in [Issuers -> SUBSET AllDocs]
    BY <1>1, <2>1 DEF Rotate
  <2> QED
    BY <1>1, <2>3, <2>4 DEF Rotate
<1>2. ASSUME NEW c \in Clients, NEW token \in Tokens, Begin(c, token)
      PROVE  TokenTypeOK'
  BY <1>2, ToShape DEF Begin, Validations, Publishes
<1>3. ASSUME NEW c \in Clients, Lookup(c) PROVE TokenTypeOK'
  <2>1. validation[c].token \in Tokens /\ validation[c].sure \in BOOLEAN
    BY <1>0, <1>3, ValidationFields DEF Lookup
  <2>2. CASE Found(c)
    BY <1>3, <2>2, FoundShape, ToShape DEF Lookup
  <2>3. CASE ~Found(c)
    <3>1. 1 \in Issuers
      BY TokenKeysAssumption DEF Issuers
    <3> QED
      BY <1>3, <2>1, <2>3, <3>1, ToShape DEF Lookup, Validations
  <2> QED
    BY <2>2, <2>3
<1>4. ASSUME NEW c \in Clients, Fetch(c) PROVE TokenTypeOK'
  <2>1. /\ validation[c].token \in Tokens
        /\ validation[c].sure \in BOOLEAN
        /\ validation[c].issuer \in Issuers
    BY <1>0, <1>4, ValidationFields DEF Fetch
  <2> QED
    BY <1>4, <2>1, ToShape DEF Fetch, Validations
<1>5. ASSUME NEW c \in Clients, FetchFails(c) PROVE TokenTypeOK'
  <2>1. /\ validation[c].token \in Tokens
        /\ validation[c].sure \in BOOLEAN
        /\ validation[c].issuer \in Issuers
    BY <1>0, <1>5, ValidationFields DEF FetchFails
  <2> QED
    BY <1>5, <2>1, NextIssuerShape, ToShape DEF FetchFails
<1>6. ASSUME NEW c \in Clients, Store(c) PROVE TokenTypeOK'
  <2>1. /\ validation[c].token \in Tokens
        /\ validation[c].sure \in BOOLEAN
        /\ validation[c].issuer \in Issuers
        /\ validation[c].doc \in AllDocs
    BY <1>0, <1>6, ValidationFields DEF Store
  <2>2. ASSUME NEW d \in Clients PROVE validation'[d] \in Validations
    BY <1>0, <1>6, <2>1, NextIssuerShape, DoubtKeeps DEF Store, HasStored
  <2>3. validation' \in [Clients -> Validations]
    BY <1>6, <2>2 DEF Store
  <2> QED
    BY <1>6, <2>1, <2>3 DEF Store, Replaced
<1>7. ASSUME NEW c \in Clients, Relook(c) PROVE TokenTypeOK'
  <2>1. validation[c].token \in Tokens /\ validation[c].sure \in BOOLEAN
    BY <1>0, <1>7, ValidationFields DEF Relook
  <2>2. CASE Found(c)
    BY <1>7, <2>2, FoundShape, ToShape DEF Relook
  <2>3. CASE ~Found(c)
    BY <1>7, <2>1, <2>3, ToShape DEF Relook, Validations, Verdicts
  <2> QED
    BY <2>2, <2>3
<1>8. ASSUME NEW c \in Clients, Verify(c) PROVE TokenTypeOK'
  <2>1. validation[c].token \in Tokens /\ validation[c].sure \in BOOLEAN
    BY <1>0, <1>8, ValidationFields DEF Verify
  <2> QED
    BY <1>8, <2>1, ToShape DEF Verify, Validations, Verdicts, Verdict
<1>9. ASSUME NEW c \in Clients, Finish(c) PROVE TokenTypeOK'
  BY <1>9, ToShape DEF Finish, Validations
<1>10. CASE Forgotten
  BY <1>10 DEF Forgotten, EmptyDoc, AllDocs, Validations
<1>11. CASE UNCHANGED tokenVars
  BY <1>11 DEF tokenVars
<1> QED
  BY <1>1, <1>2, <1>3, <1>4, <1>5, <1>6, <1>7, <1>8, <1>9, <1>10, <1>11
     DEF TokenNext, Validate

(* Every reachable state of the cached documents and of the tokens being     *)
(* validated is well typed.                                                  *)
THEOREM TokenTypeCorrect == TokenSpec => []TokenTypeOK
  BY InitListed, NextTokenTypeOK, PTL DEF TokenSpec, GenuineInv, ListedInv

-------------------------------------------------------------------------------
(* An issuer never unlists what it has listed.                               *)
LEMMA ListedForGood ==
  ASSUME TokenTypeOK, [TokenNext]_tokenVars, NEW i \in Issuers
  PROVE  /\ documents[i] \subseteq documents'[i]
         /\ \A kid, key : HasListed(i, kid, key) => HasListed(i, kid, key)'
<1>1. documents[i] \subseteq documents'[i]
  BY DEF TokenTypeOK, TokenNext, tokenVars, Rotate, Begin, Validate, Lookup, Fetch,
         FetchFails, Store, Relook, Verify, Finish, Forgotten
<1> QED
  BY <1>1 DEF HasListed

LEMMA NextListedInv == ListedInv /\ [TokenNext]_tokenVars => ListedInv'
<1> SUFFICES ASSUME ListedInv, [TokenNext]_tokenVars
             PROVE  /\ PublishedIsListed'
                    /\ FetchedIsListed'
                    /\ CacheIsADocument'
                    /\ FoundIsListed'
  BY NextTokenTypeOK DEF ListedInv
<1> DEFINE Goal == /\ PublishedIsListed'
                   /\ FetchedIsListed'
                   /\ CacheIsADocument'
                   /\ FoundIsListed'
<1> USE DEF ListedInv
<1>0. \A c \in Clients : validation[c] \in Validations
  BY DEF TokenTypeOK
<1>1. ASSUME NEW i \in Issuers, NEW doc \in Docs[i], Rotate(i, doc)
      PROVE  Goal
  <2>1. ASSUME NEW c \in Clients, validation[c].at \in {"store", "verify"}
        PROVE  /\ validation'[c].at = validation[c].at
               /\ validation'[c].token = validation[c].token
               /\ validation'[c].issuer = validation[c].issuer
               /\ validation[c].at = "store" => validation'[c].doc = validation[c].doc
               /\ validation[c].at = "verify" => validation'[c].key = validation[c].key
    BY <1>0, <1>1, <2>1, DoubtKeeps DEF Rotate
  <2>2. ASSUME NEW c \in Clients PROVE validation'[c].at = validation[c].at
    BY <1>0, <1>1, DoubtKeeps DEF Rotate
  <2>3. PublishedIsListed' /\ CacheIsADocument'
    BY <1>1 DEF Rotate, PublishedIsListed, CacheIsADocument, TokenTypeOK, EmptyDoc
  <2>4. FetchedIsListed' /\ FoundIsListed'
    BY <1>0, <2>1, <2>2, ListedForGood, ValidationFields DEF FetchedIsListed, FoundIsListed
  <2> QED
    BY <2>3, <2>4
<1>2. ASSUME NEW c \in Clients, NEW w \in Validations, To(c, w),
             UNCHANGED <<published, keys, documents>>,
             w.at = "store" => w.doc \in documents[w.issuer],
             w.at = "verify" => HasListed(w.issuer, w.token.kid, w.key)
      PROVE  Goal
  BY <1>2, ToShape
     DEF PublishedIsListed, FetchedIsListed, CacheIsADocument, FoundIsListed,
         HasListed, EmptyDoc
<1>3. ASSUME NEW c \in Clients, Found(c), validation[c].at \in {"lookup", "relook"},
             UNCHANGED <<published, keys, documents>>
      PROVE  Goal
  <2> DEFINE v == validation[c]
  <2>1. PICK i \in Issuers :
          LET w == [at |-> "verify", token |-> v.token, sure |-> v.sure,
                    issuer |-> i, key |-> keys[i][v.token.kid]]
          IN  To(c, w) /\ w \in Validations /\ w.key # NoKey
    BY <1>3, FoundShape
  <2>2. v.token.kid \in Kids
    BY <1>0, <1>3, ValidationFields, TokenFields
  <2>3. keys[i] \in documents[i]
    BY <2>1, <2>2 DEF CacheIsADocument, EmptyDoc
  <2>4. HasListed(i, v.token.kid, keys[i][v.token.kid])
    BY <2>3 DEF HasListed
  <2> QED
    BY <1>2, <1>3, <2>1, <2>4
<1>4. ASSUME NEW c \in Clients, NEW token \in Tokens, Begin(c, token)
      PROVE  Goal
  BY <1>2, <1>4 DEF Begin, Validations, Publishes
<1>5. ASSUME NEW c \in Clients, Lookup(c) PROVE Goal
  <2>1. validation[c].token \in Tokens /\ validation[c].sure \in BOOLEAN /\ 1 \in Issuers
    BY <1>0, <1>5, ValidationFields, TokenKeysAssumption DEF Lookup, Issuers
  <2> QED
    BY <1>2, <1>3, <1>5, <2>1 DEF Lookup, Validations
<1>6. ASSUME NEW c \in Clients, Fetch(c) PROVE Goal
  <2>1. /\ validation[c].token \in Tokens
        /\ validation[c].sure \in BOOLEAN
        /\ validation[c].issuer \in Issuers
    BY <1>0, <1>6, ValidationFields DEF Fetch
  <2> DEFINE w == [at |-> "store", token |-> validation[c].token,
                   sure |-> validation[c].sure, issuer |-> validation[c].issuer,
                   doc |-> published[validation[c].issuer]]
  <2>2. w \in Validations /\ w.doc \in documents[w.issuer]
    BY <2>1 DEF Validations, TokenTypeOK, PublishedIsListed
  <2> QED
    BY <1>2, <1>6, <2>2 DEF Fetch
<1>7. ASSUME NEW c \in Clients, FetchFails(c) PROVE Goal
  <2>1. /\ validation[c].token \in Tokens
        /\ validation[c].sure \in BOOLEAN
        /\ validation[c].issuer \in Issuers
    BY <1>0, <1>7, ValidationFields DEF FetchFails
  <2> QED
    BY <1>2, <1>7, <2>1, NextIssuerShape DEF FetchFails
<1>8. ASSUME NEW c \in Clients, Store(c) PROVE Goal
  <2> DEFINE v == validation[c]
  <2>1. /\ v.token \in Tokens
        /\ v.sure \in BOOLEAN
        /\ v.issuer \in Issuers
        /\ v.doc \in documents[v.issuer]
    BY <1>0, <1>8, ValidationFields DEF Store, FetchedIsListed
  <2>2. PublishedIsListed' /\ CacheIsADocument'
    BY <1>8, <2>1 DEF Store, Replaced, PublishedIsListed, CacheIsADocument,
                      TokenTypeOK, EmptyDoc
  <2>3. validation'[c].at \notin {"store", "verify"}
    BY <1>8, <2>1, NextIssuerShape DEF Store
  <2>4. ASSUME NEW d \in Clients, d # c
        PROVE  \/ validation'[d] = validation[d]
               \/ /\ validation[d].at # "verify"
                  /\ validation'[d].at = validation[d].at
                  /\ validation[d].at = "store" =>
                       /\ validation'[d].issuer = validation[d].issuer
                       /\ validation'[d].doc = validation[d].doc
    BY <1>0, <1>8, <2>4, DoubtKeeps DEF Store, HasStored
  <2>5. FetchedIsListed' /\ FoundIsListed'
    BY <1>8, <2>3, <2>4 DEF Store, FetchedIsListed, FoundIsListed, HasListed
  <2> QED
    BY <2>2, <2>5
<1>9. ASSUME NEW c \in Clients, Relook(c) PROVE Goal
  <2>1. validation[c].token \in Tokens /\ validation[c].sure \in BOOLEAN
    BY <1>0, <1>9, ValidationFields DEF Relook
  <2> QED
    BY <1>2, <1>3, <1>9, <2>1 DEF Relook, Validations, Verdicts
<1>10. ASSUME NEW c \in Clients, Verify(c) PROVE Goal
  <2>1. validation[c].token \in Tokens /\ validation[c].sure \in BOOLEAN
    BY <1>0, <1>10, ValidationFields DEF Verify
  <2> QED
    BY <1>2, <1>10, <2>1 DEF Verify, Validations, Verdicts, Verdict
<1>11. ASSUME NEW c \in Clients, Finish(c) PROVE Goal
  BY <1>2, <1>11 DEF Finish, Validations
<1>12. CASE Forgotten
  BY <1>12 DEF Forgotten, PublishedIsListed, FetchedIsListed, CacheIsADocument,
               FoundIsListed, EmptyDoc
<1>13. CASE UNCHANGED tokenVars
  BY <1>13 DEF tokenVars, PublishedIsListed, FetchedIsListed, CacheIsADocument,
               FoundIsListed, EmptyDoc, HasListed
<1> QED
  BY <1>1, <1>4, <1>5, <1>6, <1>7, <1>8, <1>9, <1>10, <1>11, <1>12, <1>13
     DEF TokenNext, Validate

(* What is cached for an issuer is nothing, or one whole document it served:  *)
(* refresh replaces the keys of an issuer, it never mixes two documents.     *)
THEOREM CacheHoldsDocuments == TokenSpec => []CacheIsADocument
  BY InitListed, NextListedInv, PTL DEF TokenSpec, GenuineInv, ListedInv

-------------------------------------------------------------------------------
(* Every way a token can come to be done: by the check of a key that was     *)
(* found, or by a second look that found none.                               *)
LEMMA DoneBy ==
  ASSUME TokenTypeOK, [TokenNext]_tokenVars, NEW c \in Clients,
         validation'[c].at = "done"
  PROVE  LET v == validation[c]
             w == validation'[c]
         IN  \/ /\ v.at = "done"
                /\ w.token = v.token
                /\ w.verdict = v.verdict
                /\ w.sure => v.sure
             \/ /\ v.at = "verify"
                /\ w.token = v.token
                /\ w.sure = v.sure
                /\ \E fit \in BOOLEAN : w.verdict = Verdict(v, fit)
             \/ /\ v.at = "relook"
                /\ Holders(v.token.kid) = {}
                /\ w.verdict = "noKey"
                /\ w.token = v.token
                /\ w.sure = v.sure
<1> DEFINE Goal == LET v == validation[c]
                       w == validation'[c]
                   IN  \/ /\ v.at = "done"
                          /\ w.token = v.token
                          /\ w.verdict = v.verdict
                          /\ w.sure => v.sure
                       \/ /\ v.at = "verify"
                          /\ w.token = v.token
                          /\ w.sure = v.sure
                          /\ \E fit \in BOOLEAN : w.verdict = Verdict(v, fit)
                       \/ /\ v.at = "relook"
                          /\ Holders(v.token.kid) = {}
                          /\ w.verdict = "noKey"
                          /\ w.token = v.token
                          /\ w.sure = v.sure
<1>0. \A d \in Clients : validation[d] \in Validations
  BY DEF TokenTypeOK
<1>1. ASSUME NEW i \in Issuers, NEW doc \in Docs[i], Rotate(i, doc)
      PROVE  Goal
  BY <1>0, <1>1, DoubtKeeps DEF Rotate
<1>2. ASSUME NEW d \in Clients, NEW w \in Validations, To(d, w), w.at # "done"
      PROVE  Goal
  BY <1>2, ToShape
<1>3. ASSUME NEW d \in Clients, NEW token \in Tokens, Begin(d, token)
      PROVE  Goal
  BY <1>2, <1>3 DEF Begin, Validations, Publishes
<1>4. ASSUME NEW d \in Clients, Lookup(d) PROVE Goal
  <2>1. validation[d].token \in Tokens /\ validation[d].sure \in BOOLEAN /\ 1 \in Issuers
    BY <1>0, <1>4, ValidationFields, TokenKeysAssumption DEF Lookup, Issuers
  <2> QED
    BY <1>2, <1>4, <2>1, FoundShape DEF Lookup, Validations
<1>5. ASSUME NEW d \in Clients, Fetch(d) PROVE Goal
  <2>1. /\ validation[d].token \in Tokens
        /\ validation[d].sure \in BOOLEAN
        /\ validation[d].issuer \in Issuers
    BY <1>0, <1>5, ValidationFields DEF Fetch
  <2> QED
    BY <1>2, <1>5, <2>1 DEF Fetch, Validations, TokenTypeOK
<1>6. ASSUME NEW d \in Clients, FetchFails(d) PROVE Goal
  <2>1. /\ validation[d].token \in Tokens
        /\ validation[d].sure \in BOOLEAN
        /\ validation[d].issuer \in Issuers
    BY <1>0, <1>6, ValidationFields DEF FetchFails
  <2> QED
    BY <1>2, <1>6, <2>1, NextIssuerShape DEF FetchFails
<1>7. ASSUME NEW d \in Clients, Store(d) PROVE Goal
  <2>1. /\ validation[d].token \in Tokens
        /\ validation[d].sure \in BOOLEAN
        /\ validation[d].issuer \in Issuers
    BY <1>0, <1>7, ValidationFields DEF Store
  <2>2. validation'[d].at # "done"
    BY <1>7, <2>1, NextIssuerShape DEF Store
  <2>3. d # c
    BY <2>2
  <2> QED
    BY <1>0, <1>7, <2>3, DoubtKeeps DEF Store, HasStored
<1>8. ASSUME NEW d \in Clients, Relook(d) PROVE Goal
  <2>1. validation[d].token \in Tokens /\ validation[d].sure \in BOOLEAN
    BY <1>0, <1>8, ValidationFields DEF Relook
  <2>2. CASE Found(d)
    BY <1>2, <1>8, <2>2, FoundShape DEF Relook
  <2>3. CASE ~Found(d)
    BY <1>8, <2>1, <2>3, ToShape DEF Relook, Validations, Verdicts
  <2> QED
    BY <2>2, <2>3
<1>9. ASSUME NEW d \in Clients, Verify(d) PROVE Goal
  <2>1. validation[d].token \in Tokens /\ validation[d].sure \in BOOLEAN
    BY <1>0, <1>9, ValidationFields DEF Verify
  <2>2. PICK fit \in BOOLEAN :
          To(d, [at |-> "done", token |-> validation[d].token,
                 sure |-> validation[d].sure, verdict |-> Verdict(validation[d], fit)])
    BY <1>9 DEF Verify
  <2>3. Verdict(validation[d], fit) \in Verdicts
    BY DEF Verdict, Verdicts
  <2> QED
    BY <1>9, <2>1, <2>2, <2>3, ToShape DEF Verify, Validations
<1>10. ASSUME NEW d \in Clients, Finish(d) PROVE Goal
  BY <1>2, <1>10 DEF Finish, Validations
<1>11. CASE Forgotten
  BY <1>11 DEF Forgotten
<1>12. CASE UNCHANGED tokenVars
  BY <1>12 DEF tokenVars
<1> QED
  BY <1>1, <1>3, <1>4, <1>5, <1>6, <1>7, <1>8, <1>9, <1>10, <1>11, <1>12
     DEF TokenNext, Validate

LEMMA NextGenuineInv == GenuineInv /\ [TokenNext]_tokenVars => GenuineInv'
<1> SUFFICES ASSUME GenuineInv, [TokenNext]_tokenVars,
                    NEW c \in Clients, validation'[c].at = "done",
                    validation'[c].verdict = "accepted"
             PROVE  \E doc \in documents'[validation'[c].token.iss] :
                      doc[validation'[c].token.kid] = validation'[c].token.key
  BY NextListedInv DEF GenuineInv, AcceptedIsGenuine, HasListed
<1> DEFINE v == validation[c]
           w == validation'[c]
<1>0. TokenTypeOK /\ FoundIsListed /\ AcceptedIsGenuine /\ v \in Validations
  BY DEF GenuineInv, ListedInv, TokenTypeOK
<1>1. CASE v.at = "done" /\ w.token = v.token /\ w.verdict = v.verdict
  <2>1. HasListed(v.token.iss, v.token.kid, v.token.key)
    BY <1>0, <1>1 DEF AcceptedIsGenuine
  <2>2. v.token.iss \in Issuers
    BY <1>0, <1>1, ValidationFields, TokenFields
  <2> QED
    BY <1>0, <1>1, <2>1, <2>2, ListedForGood DEF HasListed
<1>2. CASE /\ v.at = "verify"
           /\ w.token = v.token
           /\ \E fit \in BOOLEAN : w.verdict = Verdict(v, fit)
  <2>1. v.key = v.token.key /\ v.issuer = v.token.iss
    BY <1>2 DEF Verdict
  <2>2. HasListed(v.token.iss, v.token.kid, v.token.key)
    BY <1>0, <1>2, <2>1 DEF FoundIsListed
  <2>3. v.token.iss \in Issuers
    BY <1>0, <1>2, ValidationFields, TokenFields
  <2> QED
    BY <1>0, <1>2, <2>2, <2>3, ListedForGood DEF HasListed
<1> QED
  BY <1>0, <1>1, <1>2, DoneBy

(* An accepted token was signed with a key that the very issuer it names has *)
(* listed under its kid, whatever the other issuers publish and however the  *)
(* fetches of several requests overlap.                                      *)
THEOREM AcceptedTokensAreGenuine == TokenSpec => []AcceptedIsGenuine
  BY InitListed, NextGenuineInv, PTL DEF TokenSpec, GenuineInv

-------------------------------------------------------------------------------
LEMMA NextSureInv == ListedInv /\ SureInv /\ [TokenNext]_tokenVars => SureInv'
<1> SUFFICES ASSUME ListedInv, SureInv, [TokenNext]_tokenVars PROVE SureInv'
  OBVIOUS
<1>0. TokenTypeOK /\ \A d \in Clients : validation[d] \in Validations
  BY DEF ListedInv, TokenTypeOK
<1>1. ASSUME NEW i \in Issuers, NEW doc \in Docs[i], Rotate(i, doc)
      PROVE  SureInv'
  <2> SUFFICES ASSUME NEW d \in Clients, validation'[d].at # "none",
                      validation'[d].sure
               PROVE  SureOf(validation[d], published', keys') /\ validation'[d] = validation[d]
    BY DEF SureInv
  <2>1. validation'[d] = validation[d] /\ validation[d].at # "none"
    BY <1>0, <1>1, DoubtKeeps DEF Rotate
  <2>2. SureOf(validation[d], published, keys) /\ validation[d].token \in Tokens
    BY <1>0, <2>1, ValidationFields DEF SureInv
  <2>3. validation[d].at \notin {"none", "done"} /\ published[validation[d].token.iss][validation[d].token.kid] = validation[d].token.key =>
          published'[validation[d].token.iss][validation[d].token.kid] = validation[d].token.key
    <3> SUFFICES ASSUME validation[d].at \notin {"none", "done"},
                        published[validation[d].token.iss][validation[d].token.kid] = validation[d].token.key
                 PROVE  published'[validation[d].token.iss][validation[d].token.kid] = validation[d].token.key
      OBVIOUS
    <3>1. CASE validation[d].token.iss = i
      <4>1. doc[validation[d].token.kid] = validation[d].token.key
        <5> SUFFICES ASSUME doc[validation[d].token.kid] # validation[d].token.key
                     PROVE  FALSE
          OBVIOUS
        <5>1. validation'[d] = [validation[d] EXCEPT !.sure = FALSE]
          BY <1>1, <3>1 DEF Rotate
        <5> QED
          BY <1>0, <2>1, <5>1, DoubtKeeps
      <4> QED
        BY <1>0, <1>1, <2>1, <3>1, <4>1 DEF Rotate, Publishes, TokenTypeOK
    <3>2. CASE validation[d].token.iss # i
      BY <1>0, <1>1, <2>1, <3>2 DEF Rotate, Publishes, TokenTypeOK
    <3> QED
      BY <3>1, <3>2
  <2> QED
    BY <1>1, <2>1, <2>2, <2>3 DEF Rotate, SureOf, HasStored
<1>2. ASSUME NEW c \in Clients, NEW w \in Validations, To(c, w),
             UNCHANGED <<published, keys>>,
             w.at # "none" /\ w.sure => SureOf(w, published, keys)
      PROVE  SureInv'
  BY <1>0, <1>2, ToShape DEF SureInv, SureOf, Publishes, HasStored
<1>3. ASSUME NEW c \in Clients, Found(c), validation[c].at \in {"lookup", "relook"},
             UNCHANGED <<published, keys, documents>>
      PROVE  SureInv'
  BY <1>0, <1>2, <1>3, FoundShape DEF SureOf, HasStored
<1>4. ASSUME NEW c \in Clients, NEW token \in Tokens, Begin(c, token)
      PROVE  SureInv'
  BY <1>2, <1>4 DEF Begin, Validations, Publishes, SureOf, HasStored
<1>5. ASSUME NEW c \in Clients, Lookup(c) PROVE SureInv'
  <2>1. validation[c].token \in Tokens /\ validation[c].sure \in BOOLEAN /\ 1 \in Issuers
    BY <1>0, <1>5, ValidationFields, TokenKeysAssumption DEF Lookup, Issuers
  <2>2. CASE Found(c)
    BY <1>3, <1>5, <2>2 DEF Lookup
  <2>3. CASE ~Found(c)
    <3> DEFINE w == [at |-> "fetch", token |-> validation[c].token,
                     sure |-> validation[c].sure, issuer |-> 1]
    <3>1. To(c, w) /\ w \in Validations
      BY <1>5, <2>1, <2>3 DEF Lookup, Validations
    <3>2. ~HasStored(w, w.token.iss)
      <4>1. w.token.iss \in Issuers
        BY <2>1, TokenFields
      <4> QED
        BY <4>1, TokenKeysAssumption DEF HasStored, Issuers
    <3>3. validation[c].sure => SureOf(w, published, keys)
      BY <1>5, <3>2 DEF Lookup, SureInv, SureOf
    <3> QED
      BY <1>2, <1>5, <3>1, <3>3 DEF Lookup
  <2> QED
    BY <2>2, <2>3
<1>6. ASSUME NEW c \in Clients, Fetch(c) PROVE SureInv'
  <2>1. /\ validation[c].token \in Tokens
        /\ validation[c].sure \in BOOLEAN
        /\ validation[c].issuer \in Issuers
    BY <1>0, <1>6, ValidationFields DEF Fetch
  <2> DEFINE w == [at |-> "store", token |-> validation[c].token,
                   sure |-> validation[c].sure, issuer |-> validation[c].issuer,
                   doc |-> published[validation[c].issuer]]
  <2>2. To(c, w) /\ w \in Validations
    BY <1>0, <1>6, <2>1 DEF Fetch, Validations, TokenTypeOK
  <2>3. validation[c].sure => SureOf(w, published, keys)
    BY <1>6 DEF Fetch, SureInv, SureOf, Publishes, HasStored
  <2> QED
    BY <1>2, <1>6, <2>2, <2>3 DEF Fetch
<1>7. ASSUME NEW c \in Clients, FetchFails(c) PROVE SureInv'
  <2> DEFINE v == validation[c]
             still == v.sure /\ v.issuer # v.token.iss
             w == NextIssuer(v.token, still, v.issuer)
  <2>1. /\ v.token \in Tokens
        /\ v.sure \in BOOLEAN
        /\ v.issuer \in Issuers
        /\ v.token.iss \in Issuers
    BY <1>0, <1>7, ValidationFields, TokenFields DEF FetchFails
  <2>2. To(c, w)
    BY <1>7 DEF FetchFails
  <2>3. /\ w \in Validations
        /\ w.token = v.token
        /\ w.sure = still
        /\ \/ w.at = "fetch" /\ w.issuer = v.issuer + 1
           \/ w.at = "relook" /\ v.issuer = NIssuers
    <3>1. still \in BOOLEAN
      OBVIOUS
    <3> HIDE DEF still
    <3> QED
      BY <2>1, <3>1, NextIssuerShape
  <2> HIDE DEF w
  <2>4. ASSUME w.sure PROVE SureOf(w, published, keys)
    <3>1. SureOf(v, published, keys) /\ v.at = "fetch" /\ v.issuer # v.token.iss
      BY <1>7, <2>3, <2>4 DEF SureInv, FetchFails
    <3>2. HasStored(w, v.token.iss) => v.issuer > v.token.iss
      BY <2>1, <2>3, <3>1, TokenKeysAssumption DEF HasStored, Issuers
    <3> QED
      BY <2>3, <3>1, <3>2 DEF SureOf, HasStored
  <2> QED
    BY <1>2, <1>7, <2>2, <2>3, <2>4 DEF FetchFails
<1>8. ASSUME NEW c \in Clients, Store(c) PROVE SureInv'
  <2> DEFINE v == validation[c]
             w == NextIssuer(v.token, v.sure, v.issuer)
  <2>1. /\ v.token \in Tokens
        /\ v.sure \in BOOLEAN
        /\ v.issuer \in Issuers
        /\ v.token.iss \in Issuers
    BY <1>0, <1>8, ValidationFields, TokenFields DEF Store
  <2>2. validation'[c] = w /\ published' = published /\ v.at = "store"
    BY <1>8 DEF Store
  <2>3. /\ w.token = v.token
        /\ w.sure = v.sure
        /\ \/ w.at = "fetch" /\ w.issuer = v.issuer + 1
           \/ w.at = "relook" /\ v.issuer = NIssuers
    BY <2>1, NextIssuerShape
  <2>4. \A i \in Issuers : keys'[i] = IF i = v.issuer THEN v.doc ELSE keys[i]
    BY <1>0, <1>8 DEF Store, Replaced, TokenTypeOK
  <2> HIDE DEF w
  <2>5. ASSUME w.sure PROVE SureOf(w, published', keys')
    <3>1. SureOf(v, published, keys)
      BY <2>2, <2>3, <2>5 DEF SureInv
    <3>2. HasStored(w, v.token.iss) => v.issuer >= v.token.iss
      BY <2>1, <2>3, TokenKeysAssumption DEF HasStored, Issuers
    <3>3. HasStored(w, v.token.iss) => keys'[v.token.iss][v.token.kid] = v.token.key
      <4>1. CASE v.issuer = v.token.iss
        BY <2>1, <2>2, <2>4, <3>1, <4>1 DEF SureOf
      <4>2. CASE v.issuer # v.token.iss
        <5>1. HasStored(w, v.token.iss) => HasStored(v, v.token.iss)
          BY <2>1, <2>2, <3>2, <4>2 DEF HasStored, Issuers
        <5> QED
          BY <2>1, <2>4, <3>1, <4>2, <5>1 DEF SureOf
      <4> QED
        BY <4>1, <4>2
    <3>4. published'[v.token.iss][v.token.kid] = v.token.key
      BY <2>2, <3>1 DEF SureOf, Publishes
    <3> QED
      BY <2>2, <2>3, <3>3, <3>4 DEF SureOf, HasStored
  <2>6. ASSUME NEW d \in Clients, d # c, validation'[d].at # "none",
               validation'[d].sure
        PROVE  validation'[d] = validation[d] /\ SureOf(validation[d], published', keys')
    <3> DEFINE u == validation[d]
    <3>1. validation'[d] = u /\ u.at # "none"
      BY <1>0, <1>8, <2>6, DoubtKeeps DEF Store, HasStored
    <3>2. SureOf(u, published, keys) /\ u.token \in Tokens /\ u.token.iss \in Issuers
      BY <1>0, <2>6, <3>1, ValidationFields, TokenFields DEF SureInv
    <3>3. HasStored(u, u.token.iss) => keys'[u.token.iss][u.token.kid] = u.token.key
      <4>1. CASE u.token.iss = v.issuer
        <5>1. HasStored(u, v.issuer) => v.doc[u.token.kid] = u.token.key
          <6> SUFFICES ASSUME HasStored(u, v.issuer), v.doc[u.token.kid] # u.token.key
                       PROVE  FALSE
            OBVIOUS
          <6>1. validation'[d] = [u EXCEPT !.sure = FALSE]
            BY <1>8, <2>6, <4>1 DEF Store
          <6> QED
            BY <1>0, <2>6, <3>1, <6>1, DoubtKeeps
        <5> QED
          BY <2>1, <2>4, <4>1, <5>1
      <4>2. CASE u.token.iss # v.issuer
        BY <2>4, <3>2, <4>2 DEF SureOf
      <4> QED
        BY <4>1, <4>2
    <3> QED
      BY <2>2, <3>1, <3>2, <3>3 DEF SureOf, Publishes, HasStored
  <2> QED
    BY <2>2, <2>5, <2>6 DEF SureInv
<1>9. ASSUME NEW c \in Clients, Relook(c) PROVE SureInv'
  <2>1. validation[c].token \in Tokens /\ validation[c].sure \in BOOLEAN
    BY <1>0, <1>9, ValidationFields DEF Relook
  <2> QED
    BY <1>2, <1>3, <1>9, <2>1 DEF Relook, Validations, Verdicts, SureOf, HasStored
<1>10. ASSUME NEW c \in Clients, Verify(c) PROVE SureInv'
  <2>1. validation[c].token \in Tokens /\ validation[c].sure \in BOOLEAN
    BY <1>0, <1>10, ValidationFields DEF Verify
  <2> QED
    BY <1>2, <1>10, <2>1 DEF Verify, Validations, Verdicts, Verdict, SureOf, HasStored
<1>11. ASSUME NEW c \in Clients, Finish(c) PROVE SureInv'
  BY <1>2, <1>11 DEF Finish, Validations
<1>12. CASE Forgotten
  BY <1>12 DEF Forgotten, SureInv
<1>13. CASE UNCHANGED tokenVars
  BY <1>13 DEF tokenVars, SureInv, SureOf, Publishes, HasStored
<1> QED
  BY <1>1, <1>4, <1>5, <1>6, <1>7, <1>8, <1>9, <1>10, <1>11, <1>12, <1>13
     DEF TokenNext, Validate

LEMMA NextFoundInv == FoundInv /\ [TokenNext]_tokenVars => FoundInv'
<1> SUFFICES ASSUME FoundInv, [TokenNext]_tokenVars PROVE PublishedKeyFound'
  BY NextListedInv, NextSureInv DEF FoundInv
<1>0. TokenTypeOK /\ FoundIsListed /\ SureInv /\ PublishedKeyFound
  BY DEF FoundInv, ListedInv
<1> SUFFICES ASSUME NEW c \in Clients, validation'[c].at = "done",
                    validation'[c].sure,
                    \A i \in Issuers, key \in Keys :
                      (\E doc \in documents'[i] : doc[validation'[c].token.kid] = key) =>
                        i = validation'[c].token.iss /\ key = validation'[c].token.key
             PROVE  validation'[c].verdict \in {"accepted", "unfit"}
  BY DEF PublishedKeyFound, OwnKid, HasListed
<1> DEFINE v == validation[c]
           w == validation'[c]
<1>1. v \in Validations /\ (v.at # "none" => v.token \in Tokens)
  BY <1>0, ValidationFields DEF TokenTypeOK
<1>2. w.token = v.token => OwnKid(v.token)
  <2> SUFFICES ASSUME w.token = v.token, NEW i \in Issuers, NEW key \in Keys,
                      HasListed(i, v.token.kid, key)
               PROVE  i = v.token.iss /\ key = v.token.key
    BY DEF OwnKid
  <2>1. \E doc \in documents'[i] : doc[v.token.kid] = key
    BY <1>0, ListedForGood DEF HasListed
  <2> QED
    BY <2>1
<1>3. CASE v.at = "done" /\ w.token = v.token /\ w.verdict = v.verdict /\ v.sure
  BY <1>0, <1>2, <1>3 DEF PublishedKeyFound
<1>4. CASE /\ v.at = "verify"
           /\ w.token = v.token
           /\ \E fit \in BOOLEAN : w.verdict = Verdict(v, fit)
  <2>1. HasListed(v.issuer, v.token.kid, v.key) /\ v.issuer \in Issuers /\ v.key \in Keys
    BY <1>0, <1>1, <1>4, ValidationFields DEF FoundIsListed
  <2>2. v.issuer = v.token.iss /\ v.key = v.token.key
    BY <1>2, <1>4, <2>1 DEF OwnKid
  <2> QED
    BY <1>4, <2>2 DEF Verdict
<1>5. ASSUME v.at = "relook", Holders(v.token.kid) = {}, w.token = v.token, v.sure
      PROVE  FALSE
  <2>1. keys[v.token.iss][v.token.kid] = v.token.key
    BY <1>0, <1>5 DEF SureInv, SureOf, HasStored
  <2>2. v.token.iss \in Issuers /\ v.token.key # NoKey
    BY <1>1, <1>5, TokenFields
  <2> QED
    BY <1>5, <2>1, <2>2 DEF Holders
<1> QED
  BY <1>0, <1>3, <1>4, <1>5, DoneBy

(* A token whose key its issuer publishes throughout finds it, also right    *)
(* after a rotation and with other issuers failing, unless its kid is not    *)
(* its own, its issuer's fetch failed or an older document was stored later. *)
THEOREM PublishedKeysAreFound == TokenSpec => []PublishedKeyFound
<1>1. TokenInit => FoundInv
  BY InitListed DEF FoundInv, GenuineInv
<1>2. FoundInv => PublishedKeyFound
  BY DEF FoundInv
<1> QED
  BY <1>1, <1>2, NextFoundInv, PTL DEF TokenSpec
===============================================================================
