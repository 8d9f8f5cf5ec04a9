---------------------------- MODULE Comparisons ----------------------------
(***************************************************************************)
(* The predicates of a condition, as internal/abac/eval.go evaluates them: *)
(* a comparison of an attribute's values with literals.  The patterns of   *)
(* the other predicates are in Wildcards.                                  *)
(*                                                                         *)
(* An operator is a record of the type it compares, a relation, and        *)
(* whether it is negated: StringNotLike is "like" of strings, negated.  No *)
(* order is a negated one: numbers are float64, and an attribute's string  *)
(* may be "NaN", which is a number in no order with any other.             *)
(* Abstracted: letter case, so the operators that ignore it are those that *)
(* do not; and the parsing of values: a value is a record of the types it  *)
(* reads as and of what it is as each of them (a time is a number).  An    *)
(* attribute's string may read as a number, a time or a bool too, a string *)
(* literal only as a time or a guid, the other literals as what they are.  *)
(***************************************************************************)
EXTENDS Wildcards

CONSTANT NaN  \* what ParseFloat makes of "NaN"; no literal and no time is it

ASSUME NaNAssumption == NaN \notin Int

Orders == {"less", "lessOrEquals", "greater", "greaterOrEquals"}

\* lookup: the values of an attribute, none if it was not supplied.
Lookup(ctx, attr) == IF attr \in DOMAIN ctx.attrs THEN ctx.attrs[attr] ELSE <<>>

\* A value of the operator's type; asNumber and asBool also read strings.
Comparable(op, v, literal) == op.type \in v.reads /\ op.type \in literal.value.reads

\* compareNumber's four orders.
InOrder(relation, a, b) ==
  /\ a # NaN
  /\ CASE relation = "less" -> a < b
       [] relation = "lessOrEquals" -> a <= b
       [] relation = "greater" -> a > b
       [] relation = "greaterOrEquals" -> a >= b

Relates(op, v, literal) ==
  LET a == v.as[op.type]
      b == literal.value.as[op.type]
  IN  CASE op.relation = "equals" -> a = b
        [] op.relation = "startsWith" -> IsPrefix(b, a)
        [] op.relation = "like" -> Glob(b, a)
        [] op.relation \in Orders -> InOrder(op.relation, a, b)

\* compare: a value of the wrong type fails, negative operators included.
Compare(op, v, literal) ==
  Comparable(op, v, literal) /\ (Relates(op, v, literal) <=> ~op.negated)

SomeOf(seq, P(_)) == \E i \in DOMAIN seq : P(seq[i])
AllOf(seq, P(_)) == \A i \in DOMAIN seq : P(seq[i])

\* A comparison that takes a missing attribute for an empty list of values.
EvalCompareMissing(n, ctx) ==
  LET vals == Lookup(ctx, n.attr)
      SomeLit(v) == SomeOf(n.values, LAMBDA l : Compare(n.op, v, l))
      EveryLit(v) == AllOf(n.values, LAMBDA l : Compare(n.op, v, l))
  IN  CASE n.quant = "none" -> IF vals = <<>> THEN n.op.negated
                               ELSE Len(vals) = 1 /\ Compare(n.op, vals[1], n.values[1])
        [] n.quant = "anyOfAny" -> SomeOf(vals, SomeLit)
        [] n.quant = "allOfAny" -> AllOf(vals, SomeLit)
        [] n.quant = "anyOfAll" -> SomeOf(vals, EveryLit)
        [] n.quant = "allOfAll" -> AllOf(vals, EveryLit)

\* The last branch a copy of the one for any literal.
EvalCompareCopied(n, ctx) ==
  LET vals == Lookup(ctx, n.attr)
      SomeLit(v) == SomeOf(n.values, LAMBDA l : Compare(n.op, v, l))
      EveryLit(v) == AllOf(n.values, LAMBDA l : Compare(n.op, v, l))
  IN  /\ vals # <<>>
      /\ CASE n.quant = "none" -> Len(vals) = 1 /\ Compare(n.op, vals[1], n.values[1])
           [] n.quant = "anyOfAny" -> SomeOf(vals, SomeLit)
           [] n.quant = "anyOfAll" -> SomeOf(vals, EveryLit)
           [] OTHER -> AllOf(vals, SomeLit)

\* compareNode.eval.  Without a quantifier the attribute must have one value,
\* and only the first literal is looked at, also when a set was written.
EvalCompare(n, ctx) ==
  LET vals == Lookup(ctx, n.attr)
      SomeLit(v) == SomeOf(n.values, LAMBDA l : Compare(n.op, v, l))
      EveryLit(v) == AllOf(n.values, LAMBDA l : Compare(n.op, v, l))
  IN  /\ vals # <<>>
      /\ CASE n.quant = "none" -> Len(vals) = 1 /\ Compare(n.op, vals[1], n.values[1])
           [] n.quant = "anyOfAny" -> SomeOf(vals, SomeLit)
           [] n.quant = "allOfAny" -> AllOf(vals, SomeLit)
           [] n.quant = "anyOfAll" -> SomeOf(vals, EveryLit)
           [] n.quant = "allOfAll" -> AllOf(vals, EveryLit)
===============================================================================
