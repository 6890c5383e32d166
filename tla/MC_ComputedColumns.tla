------------------------ MODULE MC_ComputedColumns ------------------------
(* ComputedColumns on small instances.                                      *)
EXTENDS Formulas

CONSTANTS a, b, back, c, d, h1, t1, t2, A, B

MCColumns == {a, b}
MCNames == {A, B}
MCTargets == {a, c}
MCAggregations == {"show_original", "sum"}
MCCells == {[n |-> 2]}
MCLinks == {[links |-> <<t2, h1, t1>>]}
MCHereRows == {h1}

Prop(n) == [op |-> "prop", name |-> n]
Call(f, args) == [op |-> "call", name |-> f, args |-> args]
Literal(v) == [op |-> "literal", value |-> v]
MCExpressions == {Call("sum", <<Prop(B)>>), Call("if", <<Prop(A), Prop(B), Literal(Num(7))>>),
                  [op |-> "unreadable"]}

\* There holds numbers, or a formula over a rollup of Here.
BackField == [id |-> back, name |-> back, type |-> "relation", options |-> [Bare EXCEPT !.database = Here]]
Far(fs) == [id |-> There, fields |-> <<BackField>> \o fs,
            rows |-> (t1 :> (back :> [links |-> <<h1>>] @@ c :> [n |-> 1] @@ d :> None)) @@ (t2 :> (back :> None @@ c :> [n |-> 5] @@ d :> None))]
RollupBack == [Bare EXCEPT !.relation = back, !.target = a, !.aggregation = "min"]
MCFarDocs ==
  { Far(<<[id |-> c, name |-> c, type |-> "number", options |-> Bare]>>),
    Far(<<[id |-> c, name |-> c, type |-> "formula", options |-> [Bare EXCEPT !.expression = Call("sum", <<Prop(d)>>)]],
          [id |-> d, name |-> d, type |-> "rollup", options |-> RollupBack]>>) }
=============================================================================
