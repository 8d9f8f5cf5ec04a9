--------------------------- MODULE AbacConditions ---------------------------
(***************************************************************************)
(* Conditions of role assignments: what internal/abac/eval.go answers.  A  *)
(* client writes a condition token by token and submits it; ARM refuses    *)
(* it, pointing at a token, or stores it; then it is evaluated for         *)
(* requests.  Or it asks for single predicates, as Predicates has it.      *)
(***************************************************************************)
EXTENDS ConditionLanguage, Predicates, FiniteSets

CONSTANTS
  Tokens,      \* the tokens a client writes
  MaxTokens    \* bound: the longest text

VARIABLES
  text,      \* the condition as written so far
  outcome,   \* what became of it: unsent, refused, or stored as a tree
  request    \* what the stored condition is evaluated for, or none

conditionVars == <<text, outcome, request>>
vars == <<conditionVars, predicateVars>>

Unsent == [at |-> 0]
NoRequest == [action |-> <<>>, sub |-> <<>>, attrs |-> <<>>]

-------------------------------------------------------------------------------
(* Evaluation. *)

Subject(sub, ctx) == IF sub THEN ctx.sub ELSE ctx.action

RECURSIVE Eval(_, _)
Eval(n, ctx) ==
  CASE n.node = "and" -> Eval(n.left, ctx) /\ Eval(n.right, ctx)
    [] n.node = "or" -> Eval(n.left, ctx) \/ Eval(n.right, ctx)
    [] n.node = "not" -> ~Eval(n.inner, ctx)
    [] n.node = "action" -> Glob(n.pattern.as.string, Subject(n.sub, ctx))
    [] n.node = "exists" -> Lookup(ctx, n.attr) # <<>>
    [] n.node = "compare" -> EvalCompare(n, ctx)

\* A walk that does not look below a negation.
RECURSIVE AttributesShallow(_)
AttributesShallow(n) ==
  CASE n.node \in {"and", "or"} ->
         AttributesShallow(n.left) \cup AttributesShallow(n.right)
    [] n.node \in {"exists", "compare"} -> {n.attr}
    [] OTHER -> {}

\* Attributes: what the feed tells a data plane to supply.
RECURSIVE Attributes(_)
Attributes(n) ==
  CASE n.node \in {"and", "or"} -> Attributes(n.left) \cup Attributes(n.right)
    [] n.node = "not" -> Attributes(n.inner)
    [] n.node \in {"exists", "compare"} -> {n.attr}
    [] n.node = "action" -> {}

-------------------------------------------------------------------------------
\* The client writes on: only while a mistake, if any, is at the end (a bound).
Write(token) ==
  /\ outcome = Unsent
  /\ Len(text) < MaxTokens
  /\ LET so == Parse(text) IN so.ok \/ so.at > Len(text)
  /\ text' = Append(text, token)
  /\ UNCHANGED <<outcome, request>>

\* createAssignment parses the condition before it stores anything.
Submit ==
  /\ outcome = Unsent
  /\ outcome' = Parse(text)
  /\ UNCHANGED <<text, request>>

Stored == outcome # Unsent /\ outcome.ok

\* A condition that did not parse, evaluated all the same.
EvaluateUnread(ctx) ==
  /\ outcome # Unsent
  /\ request' = ctx
  /\ UNCHANGED <<text, outcome>>

Evaluate(ctx) ==
  /\ Stored
  /\ request' = ctx
  /\ UNCHANGED <<text, outcome>>

StartOver ==
  /\ text' = <<>>
  /\ outcome' = Unsent
  /\ request' = NoRequest

ConditionNext ==
  \/ \E token \in Tokens : Write(token)
  \/ Submit
  \/ \E ctx \in Requests : Evaluate(ctx)
  \/ StartOver

Init ==
  /\ text = <<>>
  /\ outcome = Unsent
  /\ request = NoRequest
  /\ PredicateInit

\* One at a time: neither has to do with the other.
Next ==
  \/ /\ question = NoQuestion /\ comparison = NoComparison
     /\ ConditionNext
     /\ UNCHANGED predicateVars
  \/ /\ text = <<>> /\ outcome = Unsent
     /\ PredicateNext
     /\ UNCHANGED conditionVars

Spec == Init /\ [][Next]_vars

-------------------------------------------------------------------------------
(* The language, said as an automaton and a depth instead of a parser. *)

Moves ==
  {<<"operand", "!", "group">>, <<"group", "(", "operand">>,
   <<"operand", "(", "operand">>, <<"operand", "exists", "attribute">>,
   <<"attribute", "attr", "after">>, <<"operand", "match", "open">>,
   <<"open", "{", "action">>, <<"action", "string", "close">>,
   <<"close", "}", "after">>, <<"operand", "attr", "comparison">>,
   <<"comparison", "quant", "colon">>, <<"colon", ":", "quantified">>,
   <<"quantified", "op", "set">>, <<"set", "{", "element">>,
   <<"comparison", "op", "value">>, <<"value", "{", "element">>,
   <<"more", ",", "element">>,
   <<"more", "}", "after">>, <<"after", "AND", "operand">>,
   <<"after", "OR", "operand">>, <<"after", ")", "after">>}
  \cup ({"value"} \X LiteralKinds \X {"after"})
  \cup ({"element"} \X LiteralKinds \X {"more"})

\* How many parentheses are open after the first i tokens.
Nested(ts, i) ==
  Cardinality({j \in 1 .. i : ts[j][1] = "("})
    - Cardinality({j \in 1 .. i : ts[j][1] = ")"})

Move(state, kind, depth) ==
  LET moves == {m \in Moves : m[1] = state /\ m[2] = kind}
  IN  IF moves = {} \/ (kind = ")" /\ depth = 0) THEN "none"
      ELSE (CHOOSE m \in moves : TRUE)[3]

\* The automaton's state after each token; "none" once the text is hopeless.
RECURSIVE Run(_, _, _)
Run(ts, i, states) ==
  IF i > Len(ts) THEN states
  ELSE Run(ts, i + 1,
           Append(states, Move(IF i = 1 THEN "operand" ELSE states[i - 1],
                               ts[i][1], Nested(ts, i - 1))))
StatesOf(ts) == Run(ts, 1, <<>>)

WellFormed(ts) ==
  ts # <<>> /\ Last(StatesOf(ts)) = "after" /\ Nested(ts, Len(ts)) = 0

\* The first token after which nothing could be appended to make a condition.
FirstWrong(ts) ==
  LET states == StatesOf(ts)
      wrong == {i \in 1 .. Len(ts) : states[i] = "none"}
  IN  IF wrong = {} THEN Len(ts) + 1 ELSE Min(wrong)

\* What a well-formed text means, by splitting it at its loosest operator.
TopLevel(ts, word) ==
  {i \in DOMAIN ts : ts[i][1] = word /\ Nested(ts, i) = 0}

PredicateHolds(ts, ctx) ==
  CASE ts[1][1] = "match" ->
         Matches(ts[3][2].as.string, Subject(ts[1][2], ctx), {"?"})
    [] ts[1][1] = "exists" -> Lookup(ctx, ts[2][2]) # <<>>
    [] OTHER -> EvalCompare(Parse(ts).node, ctx)

RECURSIVE Meaning(_, _)
Meaning(ts, ctx) ==
  LET ors == TopLevel(ts, "OR")
      ands == TopLevel(ts, "AND")
      Before(i) == Meaning(SubSeq(ts, 1, i - 1), ctx)
      Behind(i) == Meaning(SubSeq(ts, i + 1, Len(ts)), ctx)
  IN  IF ors # {} THEN Before(Min(ors)) \/ Behind(Min(ors))
      ELSE IF ands # {} THEN Before(Min(ands)) /\ Behind(Min(ands))
      ELSE IF ts[1][1] = "!" THEN ~Meaning(SubSeq(ts, 3, Len(ts) - 1), ctx)
      ELSE IF ts[1][1] = "(" THEN Meaning(SubSeq(ts, 2, Len(ts) - 1), ctx)
      ELSE PredicateHolds(ts, ctx)

-------------------------------------------------------------------------------
(* Every variable has its type; only a stored condition is evaluated.       *)
TypeOK ==
  /\ text \in Seq(Tokens)
  /\ Len(text) <= MaxTokens
  /\ outcome # Unsent => outcome.at \in 1 .. Len(text) + 1
  /\ request \in Requests \cup {NoRequest}
  /\ request # NoRequest => Stored

(* A condition is stored exactly when it is in the language, and a refusal  *)
(* points at the first token that made it hopeless; a quantifier in front   *)
(* of a single value is reported at its operator, one token before.         *)
RefusalsPointAtTheMistake ==
  outcome # Unsent =>
    /\ outcome.ok <=> WellFormed(text)
    /\ ~outcome.ok =>
         \/ outcome.at = FirstWrong(text)
         \/ /\ outcome.at = FirstWrong(text) - 1
            /\ StatesOf(text)[outcome.at] = "set"
            /\ text[outcome.at + 1][1] \in LiteralKinds

Asked == request # NoRequest
Answer(ctx) == Eval(outcome.node, ctx)

(* AND binds tighter than OR, parentheses and ! bind as written: the tree   *)
(* that was stored answers what the text says, for every request.           *)
AnswersWhatTheTextSays == Asked => (Answer(request) <=> Meaning(text, request))

(* The attributes the feed lists for a condition are all it reads: without  *)
(* the others the answer is the same.                                       *)
ListedAttributesSuffice ==
  Asked =>
    LET listed == Attributes(outcome.node) \cap DOMAIN request.attrs
        rest == [request EXCEPT !.attrs = [a \in listed |-> request.attrs[a]]]
    IN  Answer(rest) = Answer(request)

(* Leaving attributes out never opens a door: a condition without ! that    *)
(* holds with fewer attributes supplied holds with them, negative operators *)
(* included (eval.go: a missing attribute fails the comparison).            *)
MissingNeverHelps ==
  Asked /\ (\A i \in DOMAIN text : text[i][1] # "!") =>
    \A keys \in SUBSET DOMAIN request.attrs :
      Answer([request EXCEPT !.attrs = [a \in keys |-> request.attrs[a]]])
        => Answer(request)
===============================================================================
