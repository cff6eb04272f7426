---------------------------- MODULE MCAnalyzer ----------------------------
(* Logs of three chunks with three findings: two of one rule in one chunk,  *)
(* one that reaches over two chunks, one without an address; shown in full  *)
(* and shown in part.  The address of the first is inside of the second's. *)
EXTENDS Analyzer, TLC

CONSTANTS a, b

Rule(type, ident, rank, at) == [type |-> type, ident |-> ident, rank |-> rank, at |-> at]

ThreeRules ==
    <<Rule("spray", a, 1, {1, 2}), Rule("spray", b, 1, {2}), Rule("crit", NoIdent, 0, {3})>>

Log(chunks, deep, compare, rules) ==
    [chunks |-> chunks, deep |-> deep, compare |-> compare, rules |-> rules]

MCInputs ==
    {Log(3, FALSE, FALSE, ThreeRules), Log(2, TRUE, FALSE, SubSeq(ThreeRules, 1, 2)),
     Log(3, FALSE, TRUE, <<ThreeRules[1], ThreeRules[3]>>)}

Text(rule, words) == [rule |-> rule, words |-> words]

MCInside == {<<a, b>>}

MCExplanations ==
    {<<>>, <<Text("spray", {a}), Text("spray", {b})>>}
    \cup {<<Text("spray", w)>> : w \in {{}, {a}, {b}}}
    \cup {<<Text(NoRule, {a})>>, <<Text(NoRule, {b})>>, <<Text("crit", {})>>}

MCCached == {<<>>, (3 :> [status |-> "failed", hits |-> {}])}
=============================================================================
