------------------------ MODULE ComputedColumnsProofs ------------------------
(***************************************************************************)
(* Proofs about ComputedColumns, for every formula language, every sheet    *)
(* and every edit: one pass leaves a sheet that agrees with itself.         *)
(*                                                                         *)
(* An edit starts the pass over, so nothing needs to be known of what is    *)
(* edited.  The invariant is about the pass alone: what the open visits     *)
(* still owe each other while the columns are ordered, and that a column    *)
(* reads only what was evaluated before it once they are evaluated.         *)
(***************************************************************************)
EXTENDS ComputedColumns, TLAPS

---------------------------------------------------------------------------
(* The invariant of a pass.                                                *)

Nodes == DOMAIN deps
Settled == ToSet(order) \cup cyclic

\* The plan is of the columns as they are; no column is in it twice, or in it and marked.
PlanTyped ==
  /\ deps = Dependencies
  /\ order \in Seq(Nodes)
  /\ \A p, q \in 1..Len(order) : order[p] = order[q] => p = q
  /\ cyclic \subseteq Nodes \ ToSet(order)

\* What a column of the order reads is marked or comes before it.
Ordered ==
  \A p \in 1..Len(order) : \A m \in ToSet(deps[order[p]]) \cap Nodes :
    m \in cyclic \/ \E q \in 1..(p - 1) : m = order[q]

\* The columns in the order read each other in no circle.
Cut == \A S \in SUBSET ToSet(order) : S # {} => \E n \in S : ToSet(deps[n]) \cap S = {}

\* What is marked is on a loop.
OnLoops == \A n \in cyclic : DependsOn(deps, n, n)

\* No visit is open twice, or open after it has ended.
PathTyped ==
  /\ path \in Seq(Nodes)
  /\ \A i, j \in 1..Len(path) : path[i] = path[j] => i = j
  /\ ToSet(path) \cap ToSet(order) = {}
  /\ DOMAIN left = Nodes
  /\ \A n \in Nodes : left[n] \subseteq DOMAIN deps[n]

\* A column that is yet to be visited has everything it reads before it.
Fresh == \A n \in Nodes : n \notin ToSet(path) \cup Settled => left[n] = DOMAIN deps[n]

\* The visit that the k-th of the open visits waits for; the 0-th is the loop over the keys.
Above(k) == IF k < Len(path) THEN {path[k + 1]} ELSE {}

\* What a visit has passed is no computed column, settled, or open above it.
Met ==
  \A k \in 1..Len(path) : \A i \in DOMAIN deps[path[k]] \ left[path[k]] :
    deps[path[k]][i] \in Nodes => deps[path[k]][i] \in Settled \cup Above(k)

Roots == \A i \in DOMAIN Keys \ todo : Keys[i] \in Settled \cup Above(0)

\* Each open visit is below what depends on it.
Linked == \A i, j \in 1..Len(path) : i < j => DependsOn(deps, path[i], path[j])

\* The columns are evaluated in order, each over a table that holds what it reads.
Evaluated ==
  /\ Nodes = Settled
  /\ todo \subseteq 1..Len(order)
  /\ \A i \in todo, j \in 1..Len(order) : i < j => j \in todo
  /\ computed = [n \in DOMAIN computed |-> computed[n]]
  /\ DOMAIN computed = cyclic \cup {order[i] : i \in (1..Len(order)) \ todo}
  /\ \A n \in cyclic : computed[n] = CycleError(n)
  /\ \A i \in (1..Len(order)) \ todo : computed[order[i]] = ColumnOf(order[i], computed)

PassInv ==
  /\ at \in {"edited", "order", "evaluate"}
  /\ at # "edited" => PlanTyped /\ Ordered /\ Cut /\ OnLoops
  /\ at = "order" => PathTyped /\ Fresh /\ Met /\ Roots /\ Linked
  /\ at = "evaluate" => Evaluated

---------------------------------------------------------------------------
(* What a pass reads of the sheet stays as it is while the sheet does.      *)

LEMMA SameParts == ASSUME UNCHANGED sheet
  PROVE /\ Keys' = Keys /\ Dependencies' = Dependencies
        /\ \A d : Db(d)' = Db(d)
        /\ \A d, c : FarSide(d, c)' = FarSide(d, c)
        /\ \A d, c : Has(d, c)' = Has(d, c)
        /\ \A d, c : FieldOf(d, c)' = FieldOf(d, c)
        /\ \A d, n : Named(d, n)' = Named(d, n)
<1>1. Keys' = Keys
  BY DEF Keys, ComputedIn, sheet, Databases
<1>2. Databases' = Databases
  BY DEF sheet, Databases
<1>3. \A d : Db(d)' = Db(d)
  BY <1>2 DEF Db
<1>4. \A d : Known(d)' = Known(d)
  BY DEF sheet, Known
<1>5. \A d, c : Has(d, c)' = Has(d, c)
  BY <1>3, <1>4 DEF Has
<1>6. \A d, c : FieldOf(d, c)' = FieldOf(d, c)
  BY <1>3 DEF FieldOf
<1>7. \A d, c : FarSide(d, c)' = FarSide(d, c)
  BY <1>5, <1>6 DEF FarSide
<1>8. ASSUME NEW d, NEW n PROVE Named(d, n)' = Named(d, n)
  BY DEF sheet, Named, Db, Databases, SelectLastInSeq
<1>9. \A d, f : FarEdge(d, f)' = FarEdge(d, f)
  BY <1>4, <1>7 DEF FarEdge
<1>10. \A d, f : Reads(d, f)' = Reads(d, f)
  BY <1>3, <1>8, <1>9 DEF Reads
<1>11. Dependencies' = Dependencies
  BY <1>1, <1>6, <1>10 DEF Dependencies
<1>12. QED
  BY <1>1, <1>11, <1>3, <1>5, <1>6, <1>7, <1>8

LEMMA SameColumn == ASSUME UNCHANGED sheet PROVE \A n : ColumnOf(n, computed)' = ColumnOf(n, computed')
<1>1. \A d, f, r : ValueOf(d, f, r, computed)' = ValueOf(d, f, r, computed')
  BY SameParts DEF ValueOf
<1>2. \A d, f, r : FormulaCell(d, f, r, computed)' = FormulaCell(d, f, r, computed')
  BY <1>1, SameParts DEF FormulaCell
<1>3. \A d, c, v : LinkedValue(d, c, v, computed)' = LinkedValue(d, c, v, computed')
  BY <1>1, SameParts DEF LinkedValue
<1>4. \A d, f, r : RollupCell(d, f, r, computed)' = RollupCell(d, f, r, computed')
  BY <1>3, SameParts DEF RollupCell
<1>5. QED
  BY <1>2, <1>4, SameParts DEF ColumnOf

---------------------------------------------------------------------------
(* The cells of a column are given by the sheet and by what the table has   *)
(* of the columns it reads, and of no others.                              *)

Agree(t, u, x) == (x \in DOMAIN t <=> x \in DOMAIN u) /\ (x \in DOMAIN t => t[x] = u[x])

LEMMA ValueRead ==
  ASSUME NEW t, NEW u, NEW d, NEW f, NEW r, Agree(t, u, <<d, f.id>>)
  PROVE ValueOf(d, f, r, t) = ValueOf(d, f, r, u)
  BY DEF ValueOf, Agree

LEMMA FormulaRead ==
  ASSUME NEW t, NEW u, NEW d, NEW f, NEW r, f.type = "formula",
         \A x \in ToSet(Reads(d, f)) : Agree(t, u, x)
  PROVE FormulaCell(d, f, r, t) = FormulaCell(d, f, r, u)
<1> DEFINE e == f.options.expression
           names == {n \in ToSet(referencedProperties(e)) : Named(d, n) # 0}
<1>1. ASSUME NEW n \in names
      PROVE ValueOf(d, Db(d).fields[Named(d, n)], r, t) = ValueOf(d, Db(d).fields[Named(d, n)], r, u)
  <2>1. PICK i \in DOMAIN referencedProperties(e) : referencedProperties(e)[i] = n
    BY DEF ToSet
  <2>2. <<d, Db(d).fields[Named(d, n)].id>> \in ToSet(Reads(d, f))
    <3>1. i \in DOMAIN Reads(d, f) /\ Reads(d, f)[i] = <<d, Db(d).fields[Named(d, n)].id>>
      BY <1>1, <2>1 DEF Reads
    <3>2. QED
      BY <3>1 DEF ToSet
  <2>3. QED
    BY <2>2, ValueRead
<1>2. [n \in names |-> ValueOf(d, Db(d).fields[Named(d, n)], r, t)]
      = [n \in names |-> ValueOf(d, Db(d).fields[Named(d, n)], r, u)]
  BY <1>1
<1>3. QED
  BY <1>2 DEF FormulaCell

LEMMA RollupRead ==
  ASSUME NEW t, NEW u, NEW d, NEW f, NEW r, f.type # "formula",
         \A x \in ToSet(Reads(d, f)) : Agree(t, u, x)
  PROVE RollupCell(d, f, r, t) = RollupCell(d, f, r, u)
<1> DEFINE to == FarSide(d, f.options.relation)
           c == f.options.target
<1>1. CASE to = None \/ ~Has(to, c)
  BY <1>1 DEF RollupCell
<1>2. CASE ~(to = None \/ ~Has(to, c))
  <2>1. FarEdge(d, f) = << <<to, c>> >>
    BY <1>2 DEF FarEdge, Has
  <2>2. Reads(d, f) = << <<d, f.options.relation>> >> \o << <<to, c>> >>
    BY <2>1 DEF Reads
  <2>3. <<to, c>> \in ToSet(Reads(d, f))
    BY <2>2 DEF ToSet
  <2>4. FieldOf(to, c).id = c
    BY <1>2 DEF Has, FieldOf
  <2>5. \A v : LinkedValue(to, c, v, t) = LinkedValue(to, c, v, u)
    BY <2>3, <2>4, ValueRead DEF LinkedValue
  <2>6. QED
    BY <2>5 DEF RollupCell
<1>3. QED
  BY <1>1, <1>2

LEMMA ColumnRead ==
  ASSUME NEW n, NEW t, NEW u, \A x \in ToSet(Reads(n[1], FieldOf(n[1], n[2]))) : Agree(t, u, x)
  PROVE ColumnOf(n, t) = ColumnOf(n, u)
<1> DEFINE f == FieldOf(n[1], n[2])
<1>1. CASE f.type = "formula"
  <2>1. \A r : FormulaCell(n[1], f, r, t) = FormulaCell(n[1], f, r, u)
    BY <1>1, FormulaRead
  <2>2. QED
    BY <1>1, <2>1 DEF ColumnOf
<1>2. CASE f.type # "formula"
  <2>1. \A r : RollupCell(n[1], f, r, t) = RollupCell(n[1], f, r, u)
    BY <1>2, RollupRead
  <2>2. QED
    BY <1>2, <2>1 DEF ColumnOf
<1>3. QED
  BY <1>1, <1>2

---------------------------------------------------------------------------
(* Dependence, and sequences that grow and shrink at the end.               *)

LEMMA DependsRead ==
  ASSUME NEW g, NEW m \in DOMAIN g, NEW k \in ToSet(g[m]) \cap DOMAIN g
  PROVE DependsOn(g, m, k)
  BY DEF DependsOn

LEMMA DependsBeyond ==
  ASSUME NEW g, NEW m \in DOMAIN g, NEW n \in DOMAIN g, NEW k \in ToSet(g[n]) \cap DOMAIN g,
         DependsOn(g, m, n)
  PROVE DependsOn(g, m, k)
  BY DEF DependsOn

LEMMA AppendFacts ==
  ASSUME NEW S, NEW s \in Seq(S), NEW e \in S
  PROVE /\ Append(s, e) \in Seq(S)
        /\ Len(Append(s, e)) = Len(s) + 1
        /\ \A i \in 1..Len(s) : Append(s, e)[i] = s[i]
        /\ Append(s, e)[Len(s) + 1] = e
        /\ ToSet(Append(s, e)) = ToSet(s) \cup {e}
<1>1. Append(s, e) \in Seq(S) /\ Len(Append(s, e)) = Len(s) + 1
  OBVIOUS
<1>2. (\A i \in 1..Len(s) : Append(s, e)[i] = s[i]) /\ Append(s, e)[Len(s) + 1] = e
  OBVIOUS
<1>3. DOMAIN s = 1..Len(s) /\ DOMAIN Append(s, e) = 1..(Len(s) + 1) /\ Len(s) \in Nat
  BY <1>1
<1>4. ToSet(Append(s, e)) = ToSet(s) \cup {e}
  BY <1>2, <1>3 DEF ToSet
<1>5. QED
  BY <1>1, <1>2, <1>4

LEMMA FrontFacts ==
  ASSUME NEW S, NEW s \in Seq(S), s # <<>>
  PROVE /\ Len(s) \in Nat \ {0}
        /\ Front(s) \in Seq(S)
        /\ Len(Front(s)) = Len(s) - 1
        /\ \A i \in 1..(Len(s) - 1) : Front(s)[i] = s[i]
        /\ Last(s) \in S /\ Last(s) = s[Len(s)]
        /\ ToSet(s) = ToSet(Front(s)) \cup {Last(s)}
<1>1. Len(s) \in Nat \ {0} /\ DOMAIN s = 1..Len(s)
  OBVIOUS
<1>2. Front(s) \in Seq(S) /\ Len(Front(s)) = Len(s) - 1
  BY <1>1 DEF Front
<1>3. \A i \in 1..(Len(s) - 1) : Front(s)[i] = s[i]
  BY <1>1 DEF Front
<1>4. Last(s) \in S /\ Last(s) = s[Len(s)]
  BY <1>1 DEF Last
<1>5. DOMAIN Front(s) = 1..(Len(s) - 1)
  BY <1>2
<1>6. ToSet(s) = ToSet(Front(s)) \cup {Last(s)}
  BY <1>1, <1>3, <1>4, <1>5 DEF ToSet
<1>7. QED
  BY <1>1, <1>2, <1>3, <1>4, <1>6

LEMMA InSeq ==
  ASSUME NEW S, NEW s \in Seq(S)
  PROVE /\ Len(s) \in Nat
        /\ \A x : x \in ToSet(s) <=> \E i \in 1..Len(s) : s[i] = x
        /\ ToSet(s) \subseteq S
<1>1. Len(s) \in Nat /\ DOMAIN s = 1..Len(s) /\ \A i \in 1..Len(s) : s[i] \in S
  OBVIOUS
<1>2. QED
  BY <1>1 DEF ToSet

---------------------------------------------------------------------------
(* The order.                                                              *)

OrderInv == PlanTyped /\ Ordered /\ Cut /\ OnLoops /\ PathTyped /\ Fresh /\ Met /\ Roots /\ Linked

Opened(n) == Len(path') = Len(path) + 1 /\ path'[Len(path) + 1] = n

\* A column is passed over, marked, or opened.
LEMMA VisitCases ==
  ASSUME NEW n, Visit(n), path \in Seq(Nodes)
  PROVE \/ (n \notin Nodes \/ n \in Settled) /\ path' = path /\ cyclic' = cyclic
        \/ n \in Nodes \ Settled /\ n \in ToSet(path) /\ path' = path /\ cyclic' = cyclic \cup {n}
        \/ n \in Nodes \ Settled /\ n \notin ToSet(path) /\ path' = Append(path, n) /\ cyclic' = cyclic
  BY DEF Visit, Nodes, Settled

LEMMA VisitGrows ==
  ASSUME NEW n, Visit(n), path \in Seq(Nodes), UNCHANGED <<deps, order>>
  PROVE /\ Settled \subseteq Settled'
        /\ path' \in Seq(Nodes) /\ Len(path) \in Nat
        /\ \A k \in 1..Len(path) : path'[k] = path[k]
        /\ \/ path' = path
           \/ Opened(n) /\ n \in Nodes \ (Settled \cup ToSet(path)) /\ ToSet(path') = ToSet(path) \cup {n}
        /\ n \in Nodes => n \in Settled' \/ Opened(n)
<1>1. CASE (n \notin Nodes \/ n \in Settled) /\ path' = path /\ cyclic' = cyclic
  BY <1>1 DEF Settled
<1>2. CASE n \in Nodes \ Settled /\ n \in ToSet(path) /\ path' = path /\ cyclic' = cyclic \cup {n}
  BY <1>2 DEF Settled
<1>3. CASE n \in Nodes \ Settled /\ n \notin ToSet(path) /\ path' = Append(path, n) /\ cyclic' = cyclic
  BY <1>3, AppendFacts DEF Settled, Opened
<1>4. QED
  BY <1>1, <1>2, <1>3, VisitCases

\* A column is marked only where it is read below itself.
LEMMA VisitKeepsPlan ==
  ASSUME OrderInv, NEW n, Visit(n), UNCHANGED <<sheet, deps, order>>,
         n \in ToSet(path) => DependsOn(deps, n, n)
  PROVE (PlanTyped /\ Ordered /\ Cut /\ OnLoops)'
<1>1. Nodes' = Nodes /\ deps' = Dependencies' /\ path \in Seq(Nodes)
  BY SameParts DEF Nodes, OrderInv, PlanTyped, PathTyped
<1>2. \/ cyclic' = cyclic
      \/ cyclic' = cyclic \cup {n} /\ n \in Nodes \ Settled /\ n \in ToSet(path)
  BY <1>1, VisitCases
<1>3. PlanTyped'
  BY <1>1, <1>2 DEF PlanTyped, OrderInv, Settled
<1>4. Ordered'
  BY <1>1, <1>2 DEF Ordered, OrderInv
<1>5. Cut'
  BY <1>1 DEF Cut, OrderInv
<1>6. OnLoops'
  BY <1>1, <1>2 DEF OnLoops, OrderInv
<1>7. QED
  BY <1>3, <1>4, <1>5, <1>6

LEMMA VisitKeepsPath ==
  ASSUME OrderInv, NEW n, Visit(n), UNCHANGED <<deps, order>>,
         n \in Nodes => \A j \in 1..Len(path) : DependsOn(deps, path[j], n)
  PROVE /\ Linked'
        /\ \A i, j \in 1..Len(path') : path'[i] = path'[j] => i = j
        /\ ToSet(path') \cap ToSet(order') = {}
<1>1. path \in Seq(Nodes) /\ order' = order /\ deps' = deps
  BY DEF OrderInv, PathTyped
<1>2. CASE path' = path
  BY <1>1, <1>2 DEF OrderInv, Linked, PathTyped
<1>3. CASE Opened(n) /\ n \in Nodes \ (Settled \cup ToSet(path)) /\ ToSet(path') = ToSet(path) \cup {n}
  <2>1. /\ Len(path) \in Nat /\ Len(path') = Len(path) + 1 /\ path'[Len(path) + 1] = n
        /\ \A k \in 1..Len(path) : path'[k] = path[k]
    BY <1>1, <1>3, VisitGrows DEF Opened
  <2>2. \A k \in 1..Len(path) : path[k] # n
    BY <1>1, <1>3, InSeq
  <2>3. \A i, j \in 1..Len(path) : path[i] = path[j] => i = j
    BY DEF OrderInv, PathTyped
  <2>4. \A i, j \in 1..Len(path') : path'[i] = path'[j] => i = j
    BY <2>1, <2>2, <2>3
  <2>5. ToSet(path') \cap ToSet(order') = {}
    BY <1>1, <1>3 DEF OrderInv, PathTyped, Settled
  <2>6. Linked'
    BY <1>1, <1>3, <2>1 DEF OrderInv, Linked
  <2>7. QED
    BY <2>4, <2>5, <2>6
<1>4. QED
  BY <1>1, <1>2, <1>3, VisitGrows

LEMMA VisitKeyKeeps == ASSUME OrderInv, at = "order", VisitKey PROVE OrderInv' /\ at' = "order"
<1>1. PICK i \in todo : todo' = todo \ {i} /\ Visit(Keys[i])
  BY DEF VisitKey
<1> DEFINE n == Keys[i]
<1>2. /\ UNCHANGED <<sheet, at, deps, left, order, computed>> /\ path = <<>>
      /\ path \in Seq(Nodes) /\ Len(path) = 0 /\ ToSet(path) = {}
  BY DEF VisitKey, OrderInv, PathTyped, ToSet
<1>3. Keys' = Keys /\ Nodes' = Nodes
  BY <1>2, SameParts DEF Nodes
<1>4. Visit(n) /\ n \notin ToSet(path)
  BY <1>1, <1>2
<1>5. (PlanTyped /\ Ordered /\ Cut /\ OnLoops)'
  BY <1>2, <1>4, VisitKeepsPlan
<1>6. /\ Linked' /\ ToSet(path') \cap ToSet(order') = {}
      /\ \A p, q \in 1..Len(path') : path'[p] = path'[q] => p = q
  BY <1>2, <1>4, VisitKeepsPath
<1>7. /\ Settled \subseteq Settled' /\ path' \in Seq(Nodes)
      /\ \/ path' = path
         \/ Opened(n) /\ n \in Nodes \ (Settled \cup ToSet(path)) /\ ToSet(path') = ToSet(path) \cup {n}
      /\ n \in Nodes => n \in Settled' \/ Opened(n)
  BY <1>2, <1>4, VisitGrows
<1>8. PathTyped'
  BY <1>2, <1>3, <1>6, <1>7 DEF PathTyped, OrderInv
<1>9. Fresh'
  BY <1>2, <1>3, <1>7 DEF Fresh, OrderInv
<1>10. Met'
  <2>1. CASE path' = path
    BY <1>2, <2>1 DEF Met
  <2>2. CASE Opened(n) /\ n \in Nodes \ (Settled \cup ToSet(path))
    <3>1. Len(path') = 1 /\ path'[1] = n
      BY <1>2, <2>2 DEF Opened
    <3>2. left[n] = DOMAIN deps[n]
      BY <2>2 DEF Fresh, OrderInv
    <3>3. QED
      BY <1>2, <3>1, <3>2 DEF Met
  <2>3. QED
    BY <1>7, <2>1, <2>2
<1>11. Roots'
  <2>1. ASSUME NEW j \in DOMAIN Keys \ todo' PROVE Keys[j] \in Settled' \cup Above(0)'
    <3>1. CASE j \notin todo
      BY <1>2, <1>7, <3>1, <2>1 DEF Roots, OrderInv, Above
    <3>2. CASE j = i
      <4>1. n \in Nodes
        BY <3>2, <2>1 DEF OrderInv, PlanTyped, Nodes, Dependencies, ToSet
      <4>2. CASE n \in Settled'
        BY <3>2, <4>2
      <4>3. CASE Opened(n)
        BY <1>2, <3>2, <4>3 DEF Opened, Above
      <4>4. QED
        BY <1>7, <4>1, <4>2, <4>3
    <3>3. QED
      BY <1>1, <2>1, <3>1, <3>2
  <2>2. QED
    BY <1>3, <2>1 DEF Roots
<1>12. QED
  BY <1>2, <1>5, <1>6, <1>8, <1>9, <1>10, <1>11 DEF OrderInv

LEMMA VisitNextKeeps == ASSUME OrderInv, at = "order", VisitNext PROVE OrderInv' /\ at' = "order"
<1> DEFINE n == Last(path)
<1>1. PICK i \in left[n] : left' = [left EXCEPT ![n] = left[n] \ {i}] /\ Visit(deps[n][i])
  BY DEF VisitNext
<1> DEFINE m == deps[n][i]
<1>2. UNCHANGED <<sheet, at, deps, todo, order, computed>> /\ path # <<>> /\ path \in Seq(Nodes)
  BY DEF VisitNext, OrderInv, PathTyped
<1>3. Keys' = Keys /\ Nodes' = Nodes
  BY <1>2, SameParts DEF Nodes
<1>4. Len(path) \in Nat \ {0} /\ n \in Nodes /\ n = path[Len(path)] /\ n \in ToSet(path)
  BY <1>2, FrontFacts
<1>5. /\ i \in DOMAIN deps[n] /\ DOMAIN left = Nodes /\ (m \in Nodes => m \in ToSet(deps[n]) \cap Nodes)
  BY <1>4 DEF OrderInv, PathTyped, ToSet
<1>6. ASSUME m \in Nodes, NEW j \in 1..Len(path) PROVE DependsOn(deps, path[j], m)
  <2>1. CASE j = Len(path)
    BY <1>4, <1>5, <1>6, <2>1, DependsRead DEF Nodes
  <2>2. CASE j # Len(path)
    <3>1. DependsOn(deps, path[j], n)
      BY <1>4, <2>2 DEF OrderInv, Linked
    <3>2. path[j] \in Nodes
      BY <1>2
    <3>3. QED
      BY <1>4, <1>5, <1>6, <3>1, <3>2, DependsBeyond DEF Nodes
  <2>3. QED
    BY <2>1, <2>2
<1>7. m \in ToSet(path) => DependsOn(deps, m, m)
  BY <1>2, <1>6, InSeq
<1>8. (PlanTyped /\ Ordered /\ Cut /\ OnLoops)'
  BY <1>1, <1>2, <1>7, VisitKeepsPlan
<1>9. /\ Linked' /\ ToSet(path') \cap ToSet(order') = {}
      /\ \A p, q \in 1..Len(path') : path'[p] = path'[q] => p = q
  BY <1>1, <1>2, <1>6, VisitKeepsPath
<1>10. /\ Settled \subseteq Settled' /\ path' \in Seq(Nodes)
       /\ \A k \in 1..Len(path) : path'[k] = path[k]
       /\ \/ path' = path
          \/ Opened(m) /\ m \in Nodes \ (Settled \cup ToSet(path)) /\ ToSet(path') = ToSet(path) \cup {m}
       /\ m \in Nodes => m \in Settled' \/ Opened(m)
  BY <1>1, <1>2, VisitGrows
<1>11. /\ DOMAIN left' = Nodes /\ left'[n] = left[n] \ {i}
       /\ \A k \in Nodes : k # n => left'[k] = left[k]
  BY <1>1, <1>4, <1>5
<1>12. PathTyped'
  <2>1. \A k \in Nodes : left'[k] \subseteq DOMAIN deps[k]
    BY <1>11 DEF PathTyped, OrderInv
  <2>2. QED
    BY <1>2, <1>3, <1>9, <1>10, <1>11, <2>1 DEF PathTyped
<1>13. Fresh'
  <2>1. \A k : k \notin ToSet(path') \cup Settled' => k \notin ToSet(path) \cup Settled /\ k # n
    BY <1>4, <1>10
  <2>2. QED
    BY <1>2, <1>3, <1>11, <2>1 DEF Fresh, OrderInv
<1>14. Met'
  <2>1. ASSUME NEW k \in 1..Len(path'), NEW j \in DOMAIN deps[path'[k]] \ left'[path'[k]],
               deps[path'[k]][j] \in Nodes
        PROVE deps[path'[k]][j] \in Settled' \cup Above(k)'
    <3>1. CASE k \in 1..Len(path) /\ j \notin left[path[k]]
      <4>1. path'[k] = path[k] /\ deps[path[k]][j] \in Settled \cup Above(k)
        BY <1>10, <2>1, <3>1 DEF Met, OrderInv
      <4>2. Above(k) \subseteq Above(k)'
        BY <1>4, <1>10, <3>1 DEF Above, Opened
      <4>3. QED
        BY <1>10, <4>1, <4>2
    <3>2. CASE k \in 1..Len(path) /\ j \in left[path[k]]
      <4>1. path'[k] = path[k] /\ path[k] \in Nodes
        BY <1>2, <1>10, <3>2
      <4>2. path[k] = n /\ j = i
        BY <1>11, <2>1, <3>2, <4>1
      <4>3. k = Len(path)
        BY <1>4, <3>2, <4>2 DEF OrderInv, PathTyped
      <4>4. CASE m \in Settled'
        BY <4>1, <4>2, <4>4
      <4>5. CASE Opened(m)
        BY <1>4, <4>1, <4>2, <4>3, <4>5 DEF Above, Opened
      <4>6. QED
        BY <1>10, <2>1, <4>1, <4>2, <4>4, <4>5
    <3>3. CASE k \notin 1..Len(path)
      <4>1. Opened(m) /\ m \in Nodes \ (Settled \cup ToSet(path)) /\ k = Len(path) + 1
        BY <1>4, <1>10, <2>1, <3>3 DEF Opened
      <4>2. path'[k] = m /\ m # n
        BY <1>4, <4>1 DEF Opened
      <4>3. left'[m] = DOMAIN deps[m]
        BY <1>11, <4>1, <4>2 DEF Fresh, OrderInv
      <4>4. QED
        BY <2>1, <4>2, <4>3
    <3>4. QED
      BY <3>1, <3>2, <3>3
  <2>2. QED
    BY <1>2, <1>3, <2>1 DEF Met
<1>15. Roots'
  <2>1. Above(0) \subseteq Above(0)'
    BY <1>4, <1>10 DEF Above, Opened
  <2>2. QED
    BY <1>2, <1>3, <1>10, <2>1 DEF Roots, OrderInv
<1>16. QED
  BY <1>2, <1>8, <1>9, <1>12, <1>13, <1>14, <1>15 DEF OrderInv

\* A visit ends with everything its column reads settled, so it may follow all of that in
\* the order and closes no circle there.
LEMMA VisitEndsKeeps == ASSUME OrderInv, at = "order", VisitEnds PROVE OrderInv' /\ at' = "order"
<1> DEFINE n == Last(path)
<1>1. /\ UNCHANGED <<sheet, at, deps, todo, left, cyclic, computed>> /\ path # <<>> /\ left[n] = {}
      /\ path' = Front(path) /\ order' = IF n \in cyclic THEN order ELSE Append(order, n)
  BY DEF VisitEnds
<1>2. path \in Seq(Nodes) /\ order \in Seq(Nodes)
  BY DEF OrderInv, PathTyped, PlanTyped
<1>3. /\ Len(path) \in Nat \ {0} /\ n \in Nodes /\ n = path[Len(path)]
      /\ path' \in Seq(Nodes) /\ Len(path') = Len(path) - 1
      /\ \A k \in 1..(Len(path) - 1) : path'[k] = path[k]
      /\ ToSet(path) = ToSet(path') \cup {n}
  BY <1>1, <1>2, FrontFacts
<1>4. Keys' = Keys /\ Nodes' = Nodes /\ deps' = Dependencies'
  BY <1>1, SameParts DEF Nodes, OrderInv, PlanTyped
<1>5. n \notin ToSet(order) /\ n \notin ToSet(path')
  <2>1. \A k \in 1..(Len(path) - 1) : path'[k] # n
    BY <1>3 DEF OrderInv, PathTyped
  <2>2. n \notin ToSet(path')
    BY <1>3, <2>1, InSeq
  <2>3. QED
    BY <1>3, <2>2 DEF OrderInv, PathTyped
<1>6. /\ order' \in Seq(Nodes) /\ Len(order) \in Nat
      /\ \A p \in 1..Len(order) : order'[p] = order[p]
      /\ \/ n \in cyclic /\ order' = order
         \/ /\ n \notin cyclic /\ Len(order') = Len(order) + 1 /\ order'[Len(order) + 1] = n
            /\ ToSet(order') = ToSet(order) \cup {n}
  <2>1. CASE n \in cyclic
    BY <1>1, <1>2, <2>1
  <2>2. CASE n \notin cyclic
    BY <1>1, <1>2, <1>3, <2>2, AppendFacts, InSeq
  <2>3. QED
    BY <2>1, <2>2
<1>7. Settled' = Settled \cup {n} /\ cyclic' = cyclic
  BY <1>1, <1>6 DEF Settled
\* Every column the visit has met is settled.
<1>8. ASSUME NEW m \in ToSet(deps[n]) \cap Nodes PROVE m \in Settled
  <2>1. PICK i \in DOMAIN deps[n] : m = deps[n][i]
    BY DEF ToSet
  <2>2. deps[n][i] \in Settled \cup Above(Len(path))
    <3>1. Len(path) \in 1..Len(path) /\ i \in DOMAIN deps[path[Len(path)]] \ left[path[Len(path)]]
      BY <1>1, <1>3, <2>1
    <3>2. deps[path[Len(path)]][i] \in Nodes
      BY <1>3, <1>8, <2>1
    <3>3. deps[path[Len(path)]][i] \in Settled \cup Above(Len(path))
      BY <3>1, <3>2 DEF OrderInv, Met
    <3>4. QED
      BY <1>3, <3>3
  <2>3. Above(Len(path)) = {}
    BY <1>3 DEF Above
  <2>4. QED
    BY <2>1, <2>2, <2>3
<1>9. PlanTyped'
  <2>1. \A p, q \in 1..Len(order') : order'[p] = order'[q] => p = q
    <3>1. \A p \in 1..Len(order) : order[p] # n
      BY <1>2, <1>5, InSeq
    <3>2. \A p, q \in 1..Len(order) : order[p] = order[q] => p = q
      BY DEF OrderInv, PlanTyped
    <3>3. QED
      BY <1>6, <3>1, <3>2
  <2>2. cyclic' \subseteq Nodes' \ ToSet(order')
    BY <1>4, <1>6, <1>7 DEF OrderInv, PlanTyped
  <2>3. QED
    BY <1>4, <1>6, <2>1, <2>2 DEF PlanTyped
<1>10. Ordered'
  <2>1. ASSUME NEW p \in 1..Len(order'), NEW m \in ToSet(deps[order'[p]]) \cap Nodes
        PROVE m \in cyclic \/ \E q \in 1..(p - 1) : m = order'[q]
    <3>1. CASE p \in 1..Len(order)
      <4>1. m \in cyclic \/ \E q \in 1..(p - 1) : m = order[q]
        BY <1>6, <2>1, <3>1 DEF OrderInv, Ordered
      <4>2. QED
        BY <1>6, <3>1, <4>1
    <3>2. CASE p \notin 1..Len(order)
      <4>1. order'[p] = n /\ p = Len(order) + 1
        BY <1>6, <2>1, <3>2
      <4>2. m \in ToSet(order) \cup cyclic
        BY <1>8, <2>1, <4>1 DEF Settled
      <4>3. m \in cyclic \/ \E q \in 1..Len(order) : order[q] = m
        BY <1>2, <4>2, InSeq
      <4>4. QED
        BY <1>6, <4>1, <4>3
    <3>3. QED
      BY <3>1, <3>2
  <2>2. QED
    BY <1>1, <1>4, <2>1 DEF Ordered
<1>11. Cut'
  <2>1. ASSUME NEW S \in SUBSET ToSet(order'), S # {} PROVE \E k \in S : ToSet(deps[k]) \cap S = {}
    <3>1. CASE n \notin S
      <4>1. S \in SUBSET ToSet(order)
        BY <1>6, <3>1
      <4>2. QED
        BY <2>1, <4>1 DEF OrderInv, Cut
    <3>2. CASE n \in S /\ S \ {n} = {}
      <4>1. n \notin Settled
        BY <1>5, <1>6, <3>2 DEF Settled, OrderInv, PlanTyped
      <4>2. n \notin ToSet(deps[n])
        BY <1>3, <1>8, <4>1
      <4>3. QED
        BY <3>2, <4>2
    <3>3. CASE n \in S /\ S \ {n} # {}
      <4>1. S \ {n} \in SUBSET ToSet(order)
        BY <1>6
      <4>2. PICK k \in S \ {n} : ToSet(deps[k]) \cap (S \ {n}) = {}
        BY <3>3, <4>1 DEF OrderInv, Cut
      <4>3. n \notin Settled
        <5>1. n \notin cyclic \/ order' = order
          BY <1>6
        <5>2. QED
          BY <1>5, <1>6, <3>3 DEF Settled
      <4>4. PICK p \in 1..Len(order) : order[p] = k
        BY <1>2, <4>1, InSeq
      <4>5. n \notin ToSet(deps[k])
        <5>1. \A q \in 1..(p - 1) : order[q] \in ToSet(order)
          BY <1>2, <1>6, InSeq
        <5>2. \A m \in ToSet(deps[k]) \cap Nodes : m \in Settled
          BY <4>4, <5>1 DEF OrderInv, Ordered, Settled
        <5>3. QED
          BY <1>3, <4>3, <5>2
      <4>6. QED
        BY <4>2, <4>5
    <3>4. QED
      BY <3>1, <3>2, <3>3
  <2>2. QED
    BY <1>1, <2>1 DEF Cut
<1>12. OnLoops'
  BY <1>1, <1>7 DEF OrderInv, OnLoops
<1>13. PathTyped'
  <2>1. \A i, j \in 1..Len(path') : path'[i] = path'[j] => i = j
    BY <1>3 DEF OrderInv, PathTyped
  <2>2. ToSet(path') \cap ToSet(order') = {}
    BY <1>3, <1>5, <1>6 DEF OrderInv, PathTyped
  <2>3. QED
    BY <1>1, <1>3, <1>4, <2>1, <2>2 DEF OrderInv, PathTyped
<1>14. Fresh'
  BY <1>1, <1>3, <1>4, <1>7 DEF OrderInv, Fresh
<1>15. \A k \in 0..(Len(path) - 1) : Above(k) \subseteq Settled' \cup Above(k)'
  BY <1>3, <1>7 DEF Above
<1>16. Met'
  <2>1. \A k \in 1..Len(path') : k \in 1..Len(path) /\ k \in 0..(Len(path) - 1) /\ path'[k] = path[k]
    BY <1>3
  <2>2. QED
    BY <1>1, <1>4, <1>7, <1>15, <2>1 DEF OrderInv, Met
<1>17. Roots'
  BY <1>1, <1>3, <1>4, <1>7, <1>15 DEF OrderInv, Roots
<1>18. Linked'
  BY <1>1, <1>3 DEF OrderInv, Linked
<1>19. QED
  BY <1>1, <1>9, <1>10, <1>11, <1>12, <1>13, <1>14, <1>16, <1>17, <1>18 DEF OrderInv

---------------------------------------------------------------------------
(* The pass from its beginning to its end.                                 *)

PlanInv == PlanTyped /\ Ordered /\ Cut /\ OnLoops

LEMMA BuildDependenciesGives == ASSUME BuildDependencies PROVE OrderInv' /\ at' = "order"
<1>1. /\ UNCHANGED sheet /\ at' = "order" /\ deps' = Dependencies /\ todo' = DOMAIN Keys
      /\ left' = [n \in DOMAIN Dependencies |-> DOMAIN Dependencies[n]]
      /\ path' = <<>> /\ order' = <<>> /\ cyclic' = {} /\ computed' = <<>>
  BY DEF BuildDependencies
<1>2. Keys' = Keys /\ Dependencies' = Dependencies /\ Nodes' = DOMAIN Dependencies
  BY <1>1, SameParts DEF Nodes
<1>3. ToSet(path') = {} /\ ToSet(order') = {} /\ Len(path') = 0 /\ Len(order') = 0
      /\ path' \in Seq(Nodes') /\ order' \in Seq(Nodes')
  BY <1>1 DEF ToSet
<1>4. PlanTyped'
  BY <1>1, <1>2, <1>3 DEF PlanTyped
<1>5. Ordered' /\ Cut' /\ OnLoops' /\ Linked' /\ Met'
  BY <1>1, <1>3 DEF Ordered, Cut, OnLoops, Linked, Met
<1>6. PathTyped'
  BY <1>1, <1>2, <1>3 DEF PathTyped
<1>7. Fresh'
  BY <1>1, <1>2 DEF Fresh
<1>8. Roots'
  BY <1>1, <1>2 DEF Roots
<1>9. QED
  BY <1>1, <1>4, <1>5, <1>6, <1>7, <1>8 DEF OrderInv

LEMMA EvaluationStartsGives ==
  ASSUME OrderInv, EvaluationStarts
  PROVE PlanInv' /\ Evaluated' /\ at' = "evaluate"
<1>1. /\ UNCHANGED <<sheet, deps, left, path, order, cyclic>> /\ at' = "evaluate"
      /\ path = <<>> /\ todo = {} /\ todo' = DOMAIN order
      /\ computed' = [n \in cyclic |-> CycleError(n)]
  BY DEF EvaluationStarts
<1>2. /\ Keys' = Keys /\ Dependencies' = Dependencies /\ Nodes' = Nodes
      /\ \A n : CycleError(n)' = CycleError(n)
  BY <1>1, SameParts DEF Nodes, CycleError
<1>3. PlanInv'
  <2>1. PlanTyped'
    BY <1>1, <1>2 DEF PlanTyped, OrderInv
  <2>2. (Ordered /\ Cut /\ OnLoops)'
    BY <1>1, <1>2 DEF Ordered, Cut, OnLoops, OrderInv
  <2>3. QED
    BY <2>1, <2>2 DEF PlanInv
<1>4. order \in Seq(Nodes) /\ DOMAIN order = 1..Len(order) /\ Len(order) \in Nat
  BY DEF OrderInv, PlanTyped
<1>5. Nodes = Settled
  <2>1. Above(0) = {}
    BY <1>1 DEF Above
  <2>2. \A j \in DOMAIN Keys : Keys[j] \in Settled
    BY <1>1, <2>1 DEF Roots, OrderInv
  <2>3. Nodes = ToSet(Keys)
    BY DEF Nodes, OrderInv, PlanTyped, Dependencies
  <2>4. Settled \subseteq Nodes
    BY <1>4, InSeq DEF Settled, OrderInv, PlanTyped
  <2>5. QED
    BY <2>2, <2>3, <2>4 DEF ToSet
<1>6. Evaluated'
  <2>1. Nodes' = Settled'
    BY <1>1, <1>2, <1>5 DEF Settled
  <2>2. todo' = 1..Len(order') /\ (1..Len(order')) \ todo' = {}
    BY <1>1, <1>4
  <2>3. /\ DOMAIN computed' = cyclic' /\ computed' = [n \in DOMAIN computed' |-> computed'[n]]
        /\ \A n \in cyclic' : computed'[n] = CycleError(n)'
    BY <1>1, <1>2
  <2>4. QED
    BY <2>1, <2>2, <2>3 DEF Evaluated
<1>7. QED
  BY <1>1, <1>3, <1>6

\* The next column changes nothing that a column before it has read.
LEMMA EvaluateNextKeeps ==
  ASSUME PlanInv, Evaluated, EvaluateNext
  PROVE PlanInv' /\ Evaluated' /\ at' = "evaluate"
<1>1. PICK i \in todo : /\ First(todo, i) /\ todo' = todo \ {i}
                        /\ computed' = [n \in DOMAIN computed \cup {order[i]} |->
                                          IF n = order[i] THEN ColumnOf(n, computed) ELSE computed[n]]
  BY DEF EvaluateNext
<1> DEFINE m == order[i]
<1>2. UNCHANGED <<sheet, at, deps, left, path, order, cyclic>> /\ at = "evaluate"
  BY DEF EvaluateNext
<1>3. /\ Keys' = Keys /\ Dependencies' = Dependencies /\ Nodes' = Nodes
      /\ \A n : CycleError(n)' = CycleError(n)
      /\ \A n : ColumnOf(n, computed)' = ColumnOf(n, computed')
  BY <1>2, SameParts, SameColumn DEF Nodes, CycleError
<1>4. PlanInv'
  <2>1. PlanTyped'
    BY <1>2, <1>3 DEF PlanTyped, PlanInv
  <2>2. (Ordered /\ Cut /\ OnLoops)'
    BY <1>2, <1>3 DEF Ordered, Cut, OnLoops, PlanInv
  <2>3. QED
    BY <2>1, <2>2 DEF PlanInv
<1>5. order \in Seq(Nodes) /\ Len(order) \in Nat /\ todo \subseteq 1..Len(order) /\ i \in 1..Len(order)
  BY DEF PlanInv, PlanTyped, Evaluated
<1>6. m \notin cyclic /\ m \in Nodes
  BY <1>5, InSeq DEF PlanInv, PlanTyped
<1>7. \A j \in (1..Len(order)) \ todo : order[j] # m
  BY <1>1, <1>5 DEF PlanInv, PlanTyped
<1>8. /\ DOMAIN computed = cyclic \cup {order[j] : j \in (1..Len(order)) \ todo}
      /\ m \notin DOMAIN computed
  BY <1>6, <1>7 DEF Evaluated
<1>9. /\ DOMAIN computed' = DOMAIN computed \cup {m} /\ computed'[m] = ColumnOf(m, computed)
      /\ \A n \in DOMAIN computed : computed'[n] = computed[n]
      /\ computed' = [n \in DOMAIN computed' |-> computed'[n]]
  BY <1>1, <1>8
<1>10. (1..Len(order)) \ todo' = ((1..Len(order)) \ todo) \cup {i}
  BY <1>1, <1>5
\* A column reads nothing that is yet to be evaluated, itself included.
<1>11. ASSUME NEW j \in (1..Len(order)) \ todo'
       PROVE ColumnOf(order[j], computed) = ColumnOf(order[j], computed')
  <2> DEFINE n == order[j]
  <2>1. n \in Nodes /\ deps[n] = Reads(n[1], FieldOf(n[1], n[2]))
    BY <1>5, InSeq DEF PlanInv, PlanTyped, Nodes, Dependencies
  <2>2. \A q \in 1..(j - 1) : q \in (1..Len(order)) \ todo
    BY <1>1, <1>5, <1>10 DEF Evaluated, First
  <2>3. ASSUME NEW x \in ToSet(deps[n]) PROVE Agree(computed, computed', x)
    <3>1. CASE x \in Nodes
      <4>1. x \in cyclic \/ \E q \in 1..(j - 1) : x = order[q]
        BY <1>5, <2>3, <3>1 DEF PlanInv, Ordered
      <4>2. x \in DOMAIN computed
        BY <1>8, <2>2, <4>1
      <4>3. QED
        BY <1>9, <4>2 DEF Agree
    <3>2. CASE x \notin Nodes
      <4>1. x # m /\ x \notin DOMAIN computed
        BY <1>5, <1>6, <1>8, <3>2 DEF PlanInv, PlanTyped
      <4>2. QED
        BY <1>9, <4>1 DEF Agree
    <3>3. QED
      BY <3>1, <3>2
  <2>4. QED
    BY <2>1, <2>3, ColumnRead
<1>12. Evaluated'
  <2>1. Nodes' = Settled'
    BY <1>2, <1>3 DEF Evaluated, Settled
  <2>2. todo' \subseteq 1..Len(order) /\ \A p \in todo', q \in 1..Len(order) : p < q => q \in todo'
    BY <1>1, <1>5 DEF Evaluated, First
  <2>3. DOMAIN computed' = cyclic \cup {order[j] : j \in (1..Len(order)) \ todo'}
    BY <1>8, <1>9, <1>10
  <2>4. \A n \in cyclic : computed'[n] = CycleError(n)
    BY <1>8, <1>9 DEF Evaluated
  <2>5. \A j \in (1..Len(order)) \ todo' : computed'[order[j]] = ColumnOf(order[j], computed')
    <3>1. ASSUME NEW j \in (1..Len(order)) \ todo' PROVE computed'[order[j]] = ColumnOf(order[j], computed)
      <4>1. CASE j = i
        BY <1>9, <4>1
      <4>2. CASE j # i
        <5>1. j \in (1..Len(order)) \ todo
          BY <1>10, <4>2, <3>1
        <5>2. QED
          BY <1>8, <1>9, <5>1 DEF Evaluated
      <4>3. QED
        BY <4>1, <4>2
    <3>2. QED
      BY <1>11, <3>1
  <2>6. QED
    BY <1>2, <1>3, <1>9, <2>1, <2>2, <2>3, <2>4, <2>5 DEF Evaluated
<1>13. QED
  BY <1>2, <1>4, <1>12

---------------------------------------------------------------------------
LEMMA EditsStart == ASSUME Edits PROVE at' = "edited"
<1>1. \A rest : Edited(rest) => at' = "edited"
  BY DEF Edited
<1>2. ASSUME NEW c, NEW f, EditField(c, f) PROVE at' = "edited"
  BY <1>2 DEF EditField, Edited
<1>3. ASSUME NEW c, NEW type, PropertyTypeSet(c, type) PROVE at' = "edited"
  BY <1>2, <1>3 DEF PropertyTypeSet
<1>4. ASSUME NEW c, PropertyDataSet(c) PROVE at' = "edited"
  BY <1>2, <1>4 DEF PropertyDataSet
<1>5. ASSUME NEW c, PropertyDelete(c) PROVE at' = "edited"
  BY <1>5 DEF PropertyDelete, Edited
<1>6. ASSUME NEW c, NEW n, PropertyNameSet(c, n) PROVE at' = "edited"
  BY <1>2, <1>6 DEF PropertyNameSet
<1>7. ASSUME NEW c, NEW n, PropertyAdd(c, n) PROVE at' = "edited"
  BY <1>7 DEF PropertyAdd, Edited
<1>8. ASSUME NEW c, NEW copy, NEW n, PropertyDuplicate(c, copy, n) PROVE at' = "edited"
  BY <1>8 DEF PropertyDuplicate, Edited
<1>9. ASSUME NEW r, NEW c, NEW v, CellValueChange(r, c, v) PROVE at' = "edited"
  BY <1>9 DEF CellValueChange, Edited
<1>10. ASSUME NEW r, RowDelete(r) PROVE at' = "edited"
  BY <1>10 DEF RowDelete, Edited
<1>11. ASSUME LoadTargetDatabase PROVE at' = "edited"
  BY <1>11 DEF LoadTargetDatabase, Edited
<1>12. QED
  BY <1>3, <1>4, <1>5, <1>6, <1>7, <1>8, <1>9, <1>10, <1>11 DEF Edits

LEMMA PassInvKept == PassInv /\ [Next]_vars => PassInv'
<1> SUFFICES ASSUME PassInv, [Next]_vars PROVE PassInv'
  OBVIOUS
<1>1. CASE Edits
  BY <1>1, EditsStart DEF PassInv
<1>2. CASE BuildDependencies
  BY <1>2, BuildDependenciesGives DEF PassInv, OrderInv
<1>3. CASE VisitKey
  <2>1. OrderInv /\ at = "order"
    BY <1>3 DEF VisitKey, PassInv, OrderInv
  <2>2. OrderInv' /\ at' = "order"
    BY <1>3, <2>1, VisitKeyKeeps
  <2>3. QED
    BY <2>2 DEF PassInv, OrderInv
<1>4. CASE VisitNext
  <2>1. OrderInv /\ at = "order"
    BY <1>4 DEF VisitNext, PassInv, OrderInv
  <2>2. OrderInv' /\ at' = "order"
    BY <1>4, <2>1, VisitNextKeeps
  <2>3. QED
    BY <2>2 DEF PassInv, OrderInv
<1>5. CASE VisitEnds
  <2>1. OrderInv /\ at = "order"
    BY <1>5 DEF VisitEnds, PassInv, OrderInv
  <2>2. OrderInv' /\ at' = "order"
    BY <1>5, <2>1, VisitEndsKeeps
  <2>3. QED
    BY <2>2 DEF PassInv, OrderInv
<1>6. CASE EvaluationStarts
  <2>1. OrderInv
    BY <1>6 DEF EvaluationStarts, PassInv, OrderInv
  <2>2. PlanInv' /\ Evaluated' /\ at' = "evaluate"
    BY <1>6, <2>1, EvaluationStartsGives
  <2>3. QED
    BY <2>2 DEF PassInv, PlanInv
<1>7. CASE EvaluateNext
  <2>1. PlanInv /\ Evaluated
    BY <1>7 DEF EvaluateNext, PassInv, PlanInv
  <2>2. PlanInv' /\ Evaluated' /\ at' = "evaluate"
    BY <1>7, <2>1, EvaluateNextKeeps
  <2>3. QED
    BY <2>2 DEF PassInv, PlanInv
<1>8. CASE UNCHANGED vars
  <2>1. /\ UNCHANGED <<sheet, at, deps, todo, left, path, order, cyclic, computed>>
        /\ Keys' = Keys /\ Dependencies' = Dependencies /\ Nodes' = Nodes /\ Settled' = Settled
        /\ \A n : CycleError(n)' = CycleError(n)
        /\ \A n : ColumnOf(n, computed)' = ColumnOf(n, computed')
    BY <1>8, SameParts, SameColumn DEF vars, Nodes, Settled, CycleError
  <2>2. (at # "edited" => PlanTyped /\ Ordered /\ Cut /\ OnLoops)'
    BY <2>1 DEF PassInv, PlanTyped, Ordered, Cut, OnLoops
  <2>3. (at = "order" => PathTyped /\ Fresh /\ Met /\ Roots /\ Linked)'
    BY <2>1 DEF PassInv, PathTyped, Fresh, Met, Roots, Linked, Above
  <2>4. (at = "evaluate" => Evaluated)'
    BY <2>1 DEF PassInv, Evaluated
  <2>5. QED
    BY <2>1, <2>2, <2>3, <2>4 DEF PassInv
<1>9. QED
  BY <1>1, <1>2, <1>3, <1>4, <1>5, <1>6, <1>7, <1>8 DEF Next, Pass

LEMMA PassInvAgrees == PassInv => SheetAgrees
<1> SUFFICES ASSUME PassInv, Shown PROVE SheetAgrees
  BY DEF SheetAgrees
<1>1. PlanTyped /\ Ordered /\ Cut /\ OnLoops /\ Evaluated /\ todo = {} /\ deps = Dependencies
  BY DEF PassInv, Shown, PlanTyped
<1>2. order \in Seq(Nodes) /\ \A n : n \in ToSet(order) <=> \E i \in 1..Len(order) : order[i] = n
  BY <1>1, InSeq DEF PlanTyped
<1>3. Nodes = cyclic \cup ToSet(order) /\ Nodes = DOMAIN Dependencies
  BY <1>1 DEF Evaluated, Settled, Nodes
<1>4. DOMAIN computed = DOMAIN Dependencies
  <2>1. (1..Len(order)) \ todo = 1..Len(order)
    BY <1>1
  <2>2. {order[i] : i \in 1..Len(order)} = ToSet(order)
    BY <1>2
  <2>3. DOMAIN computed = cyclic \cup {order[i] : i \in 1..Len(order)}
    BY <1>1, <2>1 DEF Evaluated
  <2>4. QED
    BY <1>3, <2>2, <2>3
<1>5. \A n \in DOMAIN Dependencies \ cyclic : computed[n] = ColumnOf(n, computed)
  BY <1>1, <1>2, <1>3 DEF Evaluated
<1>6. \A n \in cyclic : computed[n] = CycleError(n) /\ DependsOn(Dependencies, n, n)
  BY <1>1 DEF Evaluated, OnLoops
<1>7. LoopsAreCut(Dependencies, cyclic)
  <2>1. DOMAIN Dependencies \ cyclic \subseteq ToSet(order)
    BY <1>3
  <2>2. QED
    BY <1>1, <2>1 DEF LoopsAreCut, Cut
<1>8. QED
  BY <1>4, <1>5, <1>6, <1>7 DEF SheetAgrees

\* After any edits of the columns, the cells, the rows and what is loaded, and whatever
\* formulas mean, the sheet a person is shown agrees with itself, and exactly loops show
\* the cycle error: evaluateComputed over evaluationOrder.
THEOREM SheetAlwaysAgrees == Spec => []SheetAgrees
<1>1. Init => PassInv
  BY DEF Init, PassInv
<1>2. QED
  BY <1>1, PassInvKept, PassInvAgrees, PTL DEF Spec

\* A table of the sheet in which every column that is not marked has what its formula or
\* rollup gives of the others.
Solution(t) ==
  /\ t = [n \in DOMAIN Dependencies |-> t[n]]
  /\ \A n \in cyclic : t[n] = CycleError(n)
  /\ \A n \in DOMAIN Dependencies \ cyclic : t[n] = ColumnOf(n, t)

\* Where two such tables differ, some column differs that reads none of the others that do.
LEMMA OneSolution ==
  ASSUME LoopsAreCut(Dependencies, cyclic), NEW t, NEW u, Solution(t), Solution(u)
  PROVE t = u
<1> DEFINE D == {n \in DOMAIN Dependencies : t[n] # u[n]}
<1>1. D \in SUBSET (DOMAIN Dependencies \ cyclic)
  BY DEF Solution
<1>2. D = {}
  <2> SUFFICES ASSUME D # {} PROVE FALSE
    OBVIOUS
  <2>1. PICK n \in D : ToSet(Dependencies[n]) \cap D = {}
    BY <1>1 DEF LoopsAreCut
  <2>2. Dependencies[n] = Reads(n[1], FieldOf(n[1], n[2]))
    BY DEF Dependencies
  <2>3. DOMAIN t = DOMAIN Dependencies /\ DOMAIN u = DOMAIN Dependencies
    BY DEF Solution
  <2>4. \A x \in ToSet(Dependencies[n]) : Agree(t, u, x)
    BY <2>1, <2>3 DEF Agree
  <2>5. ColumnOf(n, t) = ColumnOf(n, u)
    BY <2>2, <2>4, ColumnRead
  <2>6. t[n] = ColumnOf(n, t) /\ u[n] = ColumnOf(n, u)
    BY <1>1 DEF Solution
  <2>7. QED
    BY <2>5, <2>6
<1>3. QED
  BY <1>2 DEF Solution

\* What a person is shown is the only table that solves the sheet: the order in which the
\* columns are visited decides which column of a loop is marked, and nothing else. Where
\* there is no loop nothing is marked (SheetAlwaysAgrees), so the table is that of the sheet
\* alone, whatever was shown before and however it came about.
THEOREM SheetIsDetermined == Spec => [](Shown => \A t : Solution(t) <=> t = computed)
<1>1. Init => PassInv
  BY DEF Init, PassInv
<1>2. PassInv => (Shown => \A t : Solution(t) <=> t = computed)
  <2> SUFFICES ASSUME PassInv, Shown, NEW t PROVE Solution(t) <=> t = computed
    OBVIOUS
  <2>1. SheetAgrees
    BY PassInvAgrees
  <2>2. computed = [n \in DOMAIN computed |-> computed[n]]
    BY DEF PassInv, Shown, Evaluated
  <2>3. Solution(computed)
    BY <2>1, <2>2 DEF SheetAgrees, Solution
  <2>4. LoopsAreCut(Dependencies, cyclic)
    BY <2>1 DEF SheetAgrees
  <2>5. QED
    BY <2>3, <2>4, OneSolution
<1>3. QED
  BY <1>1, <1>2, PassInvKept, PTL DEF Spec
==============================================================================
