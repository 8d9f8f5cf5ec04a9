-------------------------- MODULE MCAbacConditions --------------------------
(* Every text of up to MaxTokens tokens that is right or goes wrong at its   *)
(* last token; one attribute with every list of up to two of four values, of *)
(* which one also reads as a number and one as NaN.  Every pattern and       *)
(* action of up to MaxChars characters; every comparison of twelve operators *)
(* with one or two of four literals.                                         *)
EXTENDS AbacConditions

Text(s) == [reads |-> {"string"}, as |-> [string |-> s]]
Number(n) == [reads |-> {"number"}, as |-> [number |-> n]]
TextNumber(s, n) ==
  [reads |-> {"string", "number"}, as |-> [string |-> s, number |-> n]]

Operator(type, relation, negated) ==
  [type |-> type, relation |-> relation, negated |-> negated]

MCTokens ==
  {<<"AND">>, <<"OR">>, <<"!">>, <<"(">>, <<")">>, <<"{">>, <<"}">>, <<",">>,
   <<":">>, <<"word">>, <<"match", FALSE>>, <<"match", TRUE>>,
   <<"exists">>, <<"attr", "k">>,
   <<"op", Operator("string", "equals", TRUE)>>,
   <<"op", Operator("number", "less", FALSE)>>,
   <<"string", Text(<<"b">>)>>, <<"number", Number(1)>>, <<"number", Number(2)>>}
  \cup {<<"quant", q>> : q \in {"anyOfAny", "allOfAny", "anyOfAll", "allOfAll"}}

Values == {Text(<<"a">>), TextNumber(<<"c">>, NaN), TextNumber(<<"b">>, 1), Number(2)}
MCRequests ==
  [action : {<<"a">>, <<"b">>}, sub : {<<"b">>},
   attrs : {<<>>} \cup [{"k"} -> BoundedSeq(Values, 2)]]

MCOperators ==
  [type : {"string"}, relation : {"equals", "like", "startsWith"}, negated : BOOLEAN]
    \cup [type : {"number"}, relation : {"equals"}, negated : BOOLEAN]
    \cup [type : {"number"}, relation : Orders, negated : {FALSE}]

MCLiterals ==
  [kind : {"string"}, value : {Text(<<"b">>), Text(<<"*", "a">>)}]
    \cup [kind : {"number"}, value : {Number(1), Number(2)}]

MCCompared ==
  [node : {"compare"}, attr : {"k"}, quant : Quantifiers, op : MCOperators,
   values : BoundedSeq(MCLiterals, 2) \ {<<>>}]
===============================================================================
