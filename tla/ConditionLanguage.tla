------------------------- MODULE ConditionLanguage -------------------------
(***************************************************************************)
(* The condition of a role assignment as internal/abac/parse.go reads it.  *)
(* A text is the sequence of its tokens, without the end marker; a token   *)
(* is a tuple of its kind and, where it has one, its value:                *)
(*   AND OR ! ( ) { } , :    <<"match", isSub>>   <<"exists">>             *)
(*   <<"attr", key>>  <<"op", operator>>  <<"quant", quantifier>>          *)
(*   <<"string", value>>  <<"number", value>>  <<"bool", value>>           *)
(*   <<"word">>, an identifier that is nothing of these                    *)
(* A parse result is a tree and the index of the next token, or the index  *)
(* of the token the error points at (one past the text: at its end).       *)
(*                                                                         *)
(* Abstracted: the lexer, so characters, quoting and case, and the wording *)
(* of the errors.                                                          *)
(***************************************************************************)
EXTENDS Naturals, SequencesExt

Ok(node, at) == [ok |-> TRUE, node |-> node, at |-> at]
Error(at) == [ok |-> FALSE, at |-> at]

Peek(ts, i) == IF i <= Len(ts) THEN ts[i] ELSE <<"eof">>
Kind(ts, i) == Peek(ts, i)[1]

LiteralKinds == {"string", "number", "bool"}
Literal(token) == [kind |-> token[1], value |-> token[2]]

\* parseMatches: the keyword is at i; braces around one string.
ParseMatches(ts, i) ==
  IF Kind(ts, i + 1) # "{" THEN Error(i + 1)
  ELSE IF Kind(ts, i + 2) # "string" THEN Error(i + 2)
  ELSE IF Kind(ts, i + 3) # "}" THEN Error(i + 3)
  ELSE Ok([node |-> "action", sub |-> ts[i][2], pattern |-> ts[i + 2][2]], i + 4)

ParseExists(ts, i) ==
  IF Kind(ts, i + 1) # "attr" THEN Error(i + 1)
  ELSE Ok([node |-> "exists", attr |-> ts[i + 1][2]], i + 2)

\* The literals of a value set: the opening brace is before i.
RECURSIVE ParseSet(_, _, _)
ParseSet(ts, i, values) ==
  IF Kind(ts, i) \notin LiteralKinds THEN Error(i)
  ELSE LET more == Append(values, Literal(ts[i]))
       IN  IF Kind(ts, i + 1) = "," THEN ParseSet(ts, i + 2, more)
           ELSE IF Kind(ts, i + 1) = "}" THEN Ok(more, i + 2)
           ELSE Error(i + 1)

ParseValues(ts, i) ==
  IF Kind(ts, i) = "{" THEN ParseSet(ts, i + 1, <<>>)
  ELSE IF Kind(ts, i) \in LiteralKinds THEN Ok(<<Literal(ts[i])>>, i + 1)
  ELSE Error(i)

\* parseComparison from the operator on.  A quantifier without a set is an
\* error of the operator, found once the value has been read.
ParseFromOperator(ts, i, attr, quant) ==
  LET values == ParseValues(ts, i + 1)
  IN  IF Kind(ts, i) # "op" THEN Error(i)
      ELSE IF ~values.ok THEN values
      ELSE IF quant # "none" /\ Kind(ts, i + 1) # "{" THEN Error(i)
      ELSE Ok([node |-> "compare", attr |-> attr, quant |-> quant,
               op |-> ts[i][2], values |-> values.node], values.at)

ParseComparison(ts, i) ==
  IF Kind(ts, i + 1) # "quant"
    THEN ParseFromOperator(ts, i + 1, ts[i][2], "none")
  ELSE IF Kind(ts, i + 2) # ":" THEN Error(i + 2)
  ELSE ParseFromOperator(ts, i + 3, ts[i][2], ts[i + 1][2])

ParsePredicate(ts, i) ==
  CASE Kind(ts, i) = "match" -> ParseMatches(ts, i)
    [] Kind(ts, i) = "exists" -> ParseExists(ts, i)
    [] Kind(ts, i) = "attr" -> ParseComparison(ts, i)
    [] OTHER -> Error(i)

RECURSIVE ParseOr(_, _), ParseAnd(_, _), OrTail(_, _), AndTail(_, _),
          FlatTail(_, _), ParseUnary(_, _)

\* The opening parenthesis is at i.
ParseGroup(ts, i) ==
  LET inner == ParseOr(ts, i + 1)
  IN  IF ~inner.ok THEN inner
      ELSE IF Kind(ts, inner.at) # ")" THEN Error(inner.at)
      ELSE Ok(inner.node, inner.at + 1)

Negated(result) ==
  IF result.ok THEN Ok([node |-> "not", inner |-> result.node], result.at)
               ELSE result

\* A ! in front of anything.
ParseUnaryLoose(ts, i) ==
  IF Kind(ts, i) = "!" THEN Negated(ParseUnary(ts, i + 1))
  ELSE IF Kind(ts, i) = "(" THEN ParseGroup(ts, i)
  ELSE ParsePredicate(ts, i)

\* ! wants a parenthesis after it.
ParseUnary(ts, i) ==
  IF Kind(ts, i) = "!"
    THEN IF Kind(ts, i + 1) = "(" THEN Negated(ParseGroup(ts, i + 1))
                                  ELSE Error(i + 1)
  ELSE IF Kind(ts, i) = "(" THEN ParseGroup(ts, i)
  ELSE ParsePredicate(ts, i)

Joined(word, left, right) ==
  IF right.ok
    THEN Ok([node |-> word, left |-> left.node, right |-> right.node], right.at)
    ELSE right

AndTail(ts, left) ==
  IF left.ok /\ Kind(ts, left.at) = "AND"
    THEN AndTail(ts, Joined("and", left, ParseUnary(ts, left.at + 1)))
    ELSE left
ParseAnd(ts, i) == AndTail(ts, ParseUnary(ts, i))

OrTail(ts, left) ==
  IF left.ok /\ Kind(ts, left.at) = "OR"
    THEN OrTail(ts, Joined("or", left, ParseAnd(ts, left.at + 1)))
    ELSE left

\* AND and OR on one level, from left to right.
FlatTail(ts, left) ==
  IF left.ok /\ Kind(ts, left.at) \in {"AND", "OR"}
    THEN FlatTail(ts, Joined(IF Kind(ts, left.at) = "AND" THEN "and" ELSE "or",
                             left, ParseUnary(ts, left.at + 1)))
    ELSE left
ParseOrFlat(ts, i) == FlatTail(ts, ParseUnary(ts, i))

ParseOr(ts, i) == OrTail(ts, ParseAnd(ts, i))

\* Parse: the whole text, and something of it.
Parse(ts) ==
  LET result == ParseOr(ts, 1)
  IN  IF result.ok /\ result.at <= Len(ts) THEN Error(result.at) ELSE result
===============================================================================
