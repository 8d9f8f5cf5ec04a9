----------------------------- MODULE Predicates -----------------------------
(***************************************************************************)
(* Single questions to the code behind roles, denies and conditions, one   *)
(* at a time: does a pattern cover an action, for Glob and actionMatches;  *)
(* does a comparison hold for a request.  The questions are external;      *)
(* AbacConditions lets a client ask them before it writes a condition.     *)
(***************************************************************************)
EXTENDS Comparisons

CONSTANTS
  Chars,     \* characters of patterns and actions, "*" and "?" included
  MaxChars,  \* bound: the longest pattern and action
  Compared,  \* comparison nodes
  Requests   \* [action, sub, attrs]: attrs maps keys supplied to values

Quantifiers == {"none", "anyOfAny", "allOfAny", "anyOfAll", "allOfAll"}
Relations == {"equals", "startsWith", "like"} \cup Orders

\* What parseComparison makes: at least one literal.  What is put in order
\* are numbers and times.
ASSUME ComparedAssumption ==
  \A n \in Compared :
    /\ n = [node |-> "compare", attr |-> n.attr, quant |-> n.quant,
            op |-> n.op, values |-> n.values]
    /\ n.quant \in Quantifiers
    /\ n.op = [type |-> n.op.type, relation |-> n.op.relation,
               negated |-> n.op.negated]
    /\ n.op.relation \in Relations
    /\ n.op.negated \in BOOLEAN
    /\ n.op.relation \in Orders =>
         /\ ~n.op.negated
         /\ n.op.type \in {"number", "time"}
         /\ \A j \in DOMAIN n.values :
              n.op.type \in n.values[j].value.reads =>
                n.values[j].value.as[n.op.type] \in Int
    /\ Len(n.values) \in Nat \ {0}
    /\ DOMAIN n.values = 1 .. Len(n.values)

\* The values of an attribute are a list; its numbers may be NaN.
ASSUME RequestsAssumption ==
  \A ctx \in Requests, attr \in {n.attr : n \in Compared} :
    LET vals == Lookup(ctx, attr)
    IN  /\ vals # <<>> => Len(vals) \in Nat \ {0} /\ DOMAIN vals = 1 .. Len(vals)
        /\ \A i \in DOMAIN vals, type \in {"number", "time"} :
             type \in vals[i].reads => vals[i].as[type] \in Int \cup {NaN}

ASSUME MaxCharsAssumption == MaxChars \in Nat

VARIABLES
  question,    \* the pattern and action the matchers are asked about
  comparison   \* the comparison asked, and for which request; or none

predicateVars == <<question, comparison>>

NoQuestion == [pattern |-> <<>>, action |-> <<>>]
NoComparison == [node |-> "none"]

-------------------------------------------------------------------------------
\* A pattern and an action, a character at a time.
AskPattern(c) ==
  /\ comparison = NoComparison
  /\ Len(question.pattern) < MaxChars
  /\ question' = [question EXCEPT !.pattern = Append(@, c)]
  /\ UNCHANGED comparison

AskAction(c) ==
  /\ comparison = NoComparison
  /\ Len(question.action) < MaxChars
  /\ question' = [question EXCEPT !.action = Append(@, c)]
  /\ UNCHANGED comparison

AskComparison(n, ctx) ==
  /\ comparison' = [node |-> n, request |-> ctx]
  /\ UNCHANGED question

AskAnew ==
  /\ question' = NoQuestion
  /\ comparison' = NoComparison

PredicateInit ==
  /\ question = NoQuestion
  /\ comparison = NoComparison

PredicateNext ==
  \/ \E c \in Chars : AskPattern(c) \/ AskAction(c)
  \/ /\ question = NoQuestion /\ comparison = NoComparison
     /\ \E n \in Compared, ctx \in Requests : AskComparison(n, ctx)
  \/ AskAnew

PredicateSpec == PredicateInit /\ [][PredicateNext]_predicateVars

-------------------------------------------------------------------------------
(* Glob is the wildcard language of `*` and `?`, whatever the pattern; but  *)
(* for a `*` in the subject itself, which the walk takes for a match of the *)
(* pattern's star and forgets that the star could go on.                    *)
GlobIsWildcards ==
  (\A i \in DOMAIN question.action : question.action[i] # "*") =>
    (Glob(question.pattern, question.action)
       <=> Matches(question.pattern, question.action, {"?"}))

(* actionMatches is the wildcard language of `*` alone, on every subject:   *)
(* a deny covers what Glob would cover, except that `?` is itself.          *)
DenyPatternsAreWildcards ==
  ActionMatches(question.pattern, question.action)
    <=> Matches(question.pattern, question.action, {})

Opposite ==
  [none |-> "none", anyOfAny |-> "allOfAll", allOfAll |-> "anyOfAny",
   allOfAny |-> "anyOfAll", anyOfAll |-> "allOfAny"]

OppositeOrder ==
  [less |-> "greaterOrEquals", greaterOrEquals |-> "less",
   lessOrEquals |-> "greater", greater |-> "lessOrEquals"]

OppositeOperator(op) ==
  IF op.relation \in Orders
    THEN [op EXCEPT !.relation = OppositeOrder[op.relation]]
    ELSE [op EXCEPT !.negated = ~op.negated]

\* The comparison with the opposite quantifier and operator.
OppositeOf(n) ==
  [n EXCEPT !.quant = Opposite[n.quant], !.op = OppositeOperator(n.op)]

\* The value has the operator's type, and a place in its order.
Decided(op, v, literal) ==
  Comparable(op, v, literal) /\ (op.relation \in Orders => v.as[op.type] # NaN)

(* A comparison and the one with the opposite quantifier and operator, as   *)
(* ForAnyOfAnyValues:StringEquals and ForAllOfAllValues:StringNotEquals,    *)
(* never both hold.  One of them does if the attribute has values (just     *)
(* one, without a quantifier), all of the operator's type and none of them  *)
(* NaN where they are put in order; and neither does if it has none such.   *)
OppositesExclude ==
  comparison # NoComparison =>
    LET n == comparison.node
        ctx == comparison.request
        opposite == OppositeOf(n)
        vals == Lookup(ctx, n.attr)
        DecidedAt(i, j) == Decided(n.op, vals[i], n.values[j])
        usable == /\ vals # <<>>
                  /\ n.quant = "none" => Len(vals) = 1
                  /\ \A i \in DOMAIN vals, j \in DOMAIN n.values : DecidedAt(i, j)
        useless == \A i \in DOMAIN vals, j \in DOMAIN n.values : ~DecidedAt(i, j)
    IN  /\ ~(EvalCompare(n, ctx) /\ EvalCompare(opposite, ctx))
        /\ usable => EvalCompare(n, ctx) \/ EvalCompare(opposite, ctx)
        /\ useless => ~EvalCompare(n, ctx) /\ ~EvalCompare(opposite, ctx)
===============================================================================
