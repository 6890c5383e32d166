------------------------------ MODULE Formulas ------------------------------
(***************************************************************************)
(* The formulas of a database view (lib/database/formula.ts): what an       *)
(* expression reads and what it evaluates to.  ComputedColumns takes both   *)
(* as parameters.                                                          *)
(*                                                                         *)
(* An expression is [op |-> "prop", name], [op |-> "literal", value],       *)
(* [op |-> "call", name, args], or [op |-> "unreadable"], which does not    *)
(* parse.                                                                  *)
(***************************************************************************)
EXTENDS ComputedColumns

\* asBoolean, of a value that is no error.
Truthy(v) ==
  \/ v.kind = "number" /\ v.n # 0
  \/ v.kind = "list" /\ v.items # <<>>
  \/ v.kind = "string"

\* flattenNumbers, of one argument: what it holds that is no list, in order.
RECURSIVE Flat(_)
Flat(v) == IF v.kind = "list" THEN FlattenSeq([i \in DOMAIN v.items |-> Flat(v.items[i])]) ELSE <<v>>

\* referencedProperties, of both branches of an if() too.
RECURSIVE PropertiesOf(_)
PropertiesOf(e) ==
  CASE e.op = "prop" -> <<e.name>>
    [] e.op = "call" -> FlattenSeq([i \in DOMAIN e.args |-> PropertiesOf(e.args[i])])
    [] OTHER -> <<>>

Sum(args) ==
  LET flat == FlattenSeq([i \in DOMAIN args |-> Flat(args[i])])
  IN IF SelectInSeq(flat, IsError) # 0 THEN FirstError(flat) ELSE Num(Total(Ns(flat)))

\* evaluateFormula and evaluateCall; get is the columns the row has, by name.
RECURSIVE Evaluate(_, _)
Evaluate(e, get) ==
  CASE e.op = "unreadable" -> Err("bad_argument")
    [] e.op = "literal" -> e.value
    [] e.op = "prop" -> IF e.name \in DOMAIN get THEN get[e.name] ELSE Err("unknown_property")
    [] e.op = "call" /\ e.name = "if" ->
         LET test == Evaluate(e.args[1], get)
         IN IF IsError(test) THEN test ELSE Evaluate(e.args[IF Truthy(test) THEN 2 ELSE 3], get)
    [] e.op = "call" /\ e.name = "sum" ->
         Sum([i \in DOMAIN e.args |-> Evaluate(e.args[i], get)])
=============================================================================
