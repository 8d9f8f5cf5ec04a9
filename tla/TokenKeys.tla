------------------------------ MODULE TokenKeys ------------------------------
(***************************************************************************)
(* Bearer-token validation against the key documents (JWKS) of several     *)
(* issuers: internal/auth/auth.go.  Each issuer has a cached document; a   *)
(* request whose token names a key no cached document has fetches the      *)
(* document of every issuer in turn, stores each, and looks again.         *)
(*                                                                         *)
(* A lookup (under the read lock) and a store (under the write lock) are   *)
(* atomic; the fetch between them holds no lock, so the fetches of two     *)
(* requests overlap and a document may be stored after a newer one.        *)
(* Issuers publish what they like, when they like (external).              *)
(*                                                                         *)
(* Abstracted: encodings and signatures (a token records the key that      *)
(* signed it), and the checks of audience, times and principal, which read *)
(* nothing shared but the clock: their joint outcome is a free choice.     *)
(***************************************************************************)
EXTENDS Naturals, FiniteSets

CONSTANTS
  Clients,
  NIssuers,  \* the trusted issuers are 1 .. NIssuers, in configuration order
  Kids, Keys,
  NoKey,
  Docs,      \* the documents each issuer may publish: kid to key, or NoKey
  Tokens,    \* the tokens clients present: kid and issuer named, key signing
  MaxDocs    \* bound: different documents one issuer publishes

Issuers == 1 .. NIssuers
AllDocs == [Kids -> Keys \cup {NoKey}]
EmptyDoc == [k \in Kids |-> NoKey]

ASSUME TokenKeysAssumption ==
  /\ NIssuers \in Nat \ {0}
  /\ NoKey \notin Keys
  /\ Docs \in [Issuers -> SUBSET AllDocs]
  /\ Tokens \subseteq [kid : Kids, key : Keys, iss : Issuers]
  /\ MaxDocs \in Nat

VARIABLES
  published,  \* the document each issuer serves (external)
  keys,       \* issuerSet.keys: the document cached for each issuer
  validation, \* where each client's token stands in Validate
  documents   \* history: the documents each issuer has served

tokenVars == <<published, keys, validation, documents>>

Verdicts == {"accepted", "noKey", "badSignature", "untrusted", "unfit"}

\* `sure` is history: nothing has happened yet that could excuse a refusal.
Validations ==
  [at : {"none"}]
    \cup [at : {"lookup", "relook"}, token : Tokens, sure : BOOLEAN]
    \cup [at : {"fetch"}, token : Tokens, sure : BOOLEAN, issuer : Issuers]
    \cup [at : {"store"}, token : Tokens, sure : BOOLEAN, issuer : Issuers,
          doc : AllDocs]
    \cup [at : {"verify"}, token : Tokens, sure : BOOLEAN, issuer : Issuers,
          key : Keys]
    \cup [at : {"done"}, token : Tokens, sure : BOOLEAN, verdict : Verdicts]

Publishes(token) == published[token.iss][token.kid] = token.key

-------------------------------------------------------------------------------
(* The issuers. *)

\* From now on the issuer serves another document; a token whose key went with
\* the old one can no longer count on being accepted.
Rotate(i, doc) ==
  /\ doc # published[i]
  /\ Cardinality(documents[i] \cup {doc}) <= MaxDocs
  /\ published' = [published EXCEPT ![i] = doc]
  /\ documents' = [documents EXCEPT ![i] = @ \cup {doc}]
  /\ validation' = [c \in Clients |->
       IF validation[c].at \notin {"none", "done"} /\ validation[c].token.iss = i
            /\ doc[validation[c].token.kid] # validation[c].token.key
         THEN [validation[c] EXCEPT !.sure = FALSE]
         ELSE validation[c]]
  /\ UNCHANGED keys

-------------------------------------------------------------------------------
(* Validate, with the steps of key and refresh. *)

To(c, record) == validation' = [validation EXCEPT ![c] = record]

Begin(c, token) ==
  /\ validation[c].at = "none"
  /\ To(c, [at |-> "lookup", token |-> token, sure |-> Publishes(token)])
  /\ UNCHANGED <<published, keys, documents>>

Holders(kid) == {i \in Issuers : keys[i][kid] # NoKey}

\* The first issuer in order whose cached document has the kid.
FirstHolder(kid) == CHOOSE i \in Holders(kid) : \A j \in Holders(kid) : i <= j

Found(c) ==
  LET v == validation[c]
      i == FirstHolder(v.token.kid)
  IN  /\ Holders(v.token.kid) # {}
      /\ To(c, [at |-> "verify", token |-> v.token, sure |-> v.sure,
                issuer |-> i, key |-> keys[i][v.token.kid]])

Lookup(c) ==
  LET v == validation[c]
  IN  /\ v.at = "lookup"
      /\ \/ Found(c)
         \/ /\ Holders(v.token.kid) = {}
            /\ To(c, [at |-> "fetch", token |-> v.token, sure |-> v.sure,
                      issuer |-> 1])
      /\ UNCHANGED <<published, keys, documents>>

\* The loop that runs once more than there are issuers.
NextIssuerPast(token, sure, i) ==
  IF i <= NIssuers
    THEN [at |-> "fetch", token |-> token, sure |-> sure, issuer |-> i + 1]
    ELSE [at |-> "relook", token |-> token, sure |-> sure]

NextIssuer(token, sure, i) ==
  IF i < NIssuers
    THEN [at |-> "fetch", token |-> token, sure |-> sure, issuer |-> i + 1]
    ELSE [at |-> "relook", token |-> token, sure |-> sure]

\* The issuer answers with what it serves at that moment.
Fetch(c) ==
  LET v == validation[c]
  IN  /\ v.at = "fetch"
      /\ published[v.issuer] # EmptyDoc
      /\ To(c, [at |-> "store", token |-> v.token, sure |-> v.sure,
                issuer |-> v.issuer, doc |-> published[v.issuer]])
      /\ UNCHANGED <<published, keys, documents>>

\* A failed refresh that ends the loop.
FetchFailsStops(c) ==
  LET v == validation[c]
  IN  /\ v.at = "fetch"
      /\ To(c, [at |-> "relook", token |-> v.token,
                sure |-> v.sure /\ v.issuer # v.token.iss])
      /\ UNCHANGED <<published, keys, documents>>

\* No connection, a status but 200, no JSON, or no RSA key in it: the cached
\* document stays and the loop goes on.
FetchFails(c) ==
  LET v == validation[c]
  IN  /\ v.at = "fetch"
      /\ To(c, NextIssuer(v.token, v.sure /\ v.issuer # v.token.iss, v.issuer))
      /\ UNCHANGED <<published, keys, documents>>

\* Fresh keys added to the cached ones instead of replacing them.
Merged(i, doc) ==
  [k \in Kids |-> IF doc[k] = NoKey THEN keys[i][k] ELSE doc[k]]

Replaced(i, doc) == doc

\* A request that stored this issuer's document before and looks again later.
HasStored(v, i) ==
  \/ v.at = "relook"
  \/ v.at \in {"fetch", "store"} /\ v.issuer > i

\* Whoever stores last wins, whichever document is newer.
Store(c) ==
  LET v == validation[c]
      stored == Replaced(v.issuer, v.doc)
  IN  /\ v.at = "store"
      /\ keys' = [keys EXCEPT ![v.issuer] = stored]
      /\ validation' = [d \in Clients |->
           IF d = c THEN NextIssuer(v.token, v.sure, v.issuer)
           ELSE IF HasStored(validation[d], v.issuer)
                     /\ validation[d].token.iss = v.issuer
                     /\ v.doc[validation[d].token.kid] # validation[d].token.key
             THEN [validation[d] EXCEPT !.sure = FALSE]
             ELSE validation[d]]
      /\ UNCHANGED <<published, documents>>

\* A miss that fetches again until the key turns up.
RelookUntilFound(c) ==
  LET v == validation[c]
  IN  /\ v.at = "relook"
      /\ \/ Found(c)
         \/ /\ Holders(v.token.kid) = {}
            /\ To(c, [at |-> "fetch", token |-> v.token, sure |-> v.sure,
                      issuer |-> 1])
      /\ UNCHANGED <<published, keys, documents>>

Relook(c) ==
  LET v == validation[c]
  IN  /\ v.at = "relook"
      /\ \/ Found(c)
         \/ /\ Holders(v.token.kid) = {}
            /\ To(c, [at |-> "done", token |-> v.token, sure |-> v.sure,
                      verdict |-> "noKey"])
      /\ UNCHANGED <<published, keys, documents>>

\* iss checked against the trusted issuers, not against the key's own.
VerdictAnyIssuer(v, fit) ==
  IF v.key # v.token.key THEN "badSignature"
  ELSE IF fit THEN "accepted" ELSE "unfit"

\* The signature, then iss against the issuer of the key that was found, then
\* audience, times and principal.
Verdict(v, fit) ==
  IF v.key # v.token.key THEN "badSignature"
  ELSE IF v.token.iss # v.issuer THEN "untrusted"
  ELSE IF fit THEN "accepted" ELSE "unfit"

Verify(c) ==
  LET v == validation[c]
  IN  /\ v.at = "verify"
      /\ \E fit \in BOOLEAN :
           To(c, [at |-> "done", token |-> v.token, sure |-> v.sure,
                  verdict |-> Verdict(v, fit)])
      /\ UNCHANGED <<published, keys, documents>>

Finish(c) ==
  /\ validation[c].at = "done"
  /\ To(c, [at |-> "none"])
  /\ UNCHANGED <<published, keys, documents>>

\* The cache is memory: a restart drops it with the requests in flight.
Forgotten ==
  /\ keys' = [i \in Issuers |-> EmptyDoc]
  /\ validation' = [c \in Clients |-> [at |-> "none"]]
  /\ UNCHANGED <<published, documents>>

TokenInit ==
  /\ published \in [Issuers -> UNION {Docs[i] : i \in Issuers}]
  /\ \A i \in Issuers : published[i] \in Docs[i]
  /\ keys = [i \in Issuers |-> EmptyDoc]
  /\ validation = [c \in Clients |-> [at |-> "none"]]
  /\ documents = [i \in Issuers |-> {published[i]}]

Validate(c) ==
  Lookup(c) \/ Fetch(c) \/ FetchFails(c) \/ Store(c) \/ Relook(c) \/ Verify(c)

\* The validator on its own; RequestEnvelope puts ServeHTTP around it.
TokenNext ==
  \/ \E i \in Issuers : \E doc \in Docs[i] : Rotate(i, doc)
  \/ \E c \in Clients :
       (\E token \in Tokens : Begin(c, token)) \/ Validate(c) \/ Finish(c)
  \/ Forgotten

TokenSpec == TokenInit /\ [][TokenNext]_tokenVars

-------------------------------------------------------------------------------
(* Every variable has its type. *)
TokenTypeOK ==
  /\ published \in [Issuers -> AllDocs]
  /\ keys \in [Issuers -> AllDocs]
  /\ validation \in [Clients -> Validations]
  /\ documents \in [Issuers -> SUBSET AllDocs]

(* The issuer listed the key under this kid in a document it has served.    *)
HasListed(i, kid, key) == \E doc \in documents[i] : doc[kid] = key

(* An accepted token was signed with a key that the very issuer it names    *)
(* has published under its kid: whatever the other trusted issuers publish, *)
(* whenever they rotate, and however fetches overlap.                       *)
AcceptedIsGenuine ==
  \A c \in Clients :
    LET v == validation[c]
    IN  v.at = "done" /\ v.verdict = "accepted" =>
          HasListed(v.token.iss, v.token.kid, v.token.key)

(* The kid means one key only: no other issuer has listed it, nor has its   *)
(* own issuer with another key.                                             *)
OwnKid(token) ==
  \A i \in Issuers, key \in Keys :
    HasListed(i, token.kid, key) => i = token.iss /\ key = token.key

(* A token signed with a key that its issuer publishes throughout finds its *)
(* key, also right after a rotation and with other issuers failing, unless  *)
(* the kid is not its own (the first cached document that has it decides,   *)
(* and a hit is never refreshed), its issuer's fetch failed, or an older    *)
(* document was stored after the one this request had stored.               *)
PublishedKeyFound ==
  \A c \in Clients :
    LET v == validation[c]
    IN  v.at = "done" /\ v.sure /\ OwnKid(v.token) =>
          v.verdict \in {"accepted", "unfit"}

(* What is cached for an issuer is nothing, or one whole document the       *)
(* issuer has served: keys of two documents never mix, so a key dropped by  *)
(* a rotation does not outlive the next refresh.                            *)
CacheIsADocument ==
  \A i \in Issuers : keys[i] \in documents[i] \cup {EmptyDoc}
===============================================================================
