--------------------------- MODULE ComputedColumns --------------------------
(***************************************************************************)
(* The formula and rollup columns of a database view                        *)
(* (lib/database/computed.ts over user-database-data-source.ts).  A formula *)
(* reads columns of its own database by name; a rollup reads its relation   *)
(* column and a column of the database the relation points at, as far as    *)
(* that one has been loaded.  Their cells are not stored: on every edit the *)
(* columns are ordered by what they read and evaluated once each, and the   *)
(* columns the ordering runs into again are marked cyclic.                  *)
(*                                                                         *)
(* A node of the graph is <<database, column>>.  One person edits the       *)
(* database Here; There is as it was when it was loaded.  The pass after an *)
(* edit is taken visit by visit and column by column, its recursion as the  *)
(* path of the visits that are open; no edit comes between.                 *)
(***************************************************************************)
EXTENDS Naturals, FiniteSets, SequencesExt

CONSTANTS
  None,
  Here, There,  \* the two databases
  Link,         \* the relation column of Here
  Columns,      \* its other columns, those added later included
  Names,        \* what they may be called, two of them alike too
  Expressions,  \* what may be typed into a formula
  Targets,      \* the columns a rollup may be pointed at
  Aggregations,
  Cells,        \* what may be typed into a cell that is no link: [n |-> number]
  Links,        \* what a link may be: [links |-> rows, of either database or of none]
  FarDocs,      \* the databases There may be
  HereRows,
  \* formula.ts: the names an expression reads, as they are met, and its value where
  \* the columns it reads have these values, by name
  referencedProperties(_), evaluateFormula(_, _)

ComputedTypes == {"formula", "rollup"}

VARIABLES
  fields,  \* the columns of Here, in order: _fields
  rows,    \* row -> column -> stored cell: _records
  used,    \* the column ids given so far
  far,     \* the database There
  loaded,  \* There is in _targetDatabaseCache
  \* the pass: evaluateComputed and evaluationOrder
  at,      \* "edited", then "order", then "evaluate"
  deps,    \* node -> what it reads, in the order it is met
  todo,    \* the positions in Keys yet to be visited; then in order, yet to be evaluated
  left,    \* node -> the positions in deps[node] that are yet to be visited
  path,    \* the nodes in progress, each visited from the one before it
  order, cyclic,
  computed \* node -> row -> value

sheet == <<fields, rows, used, far, loaded>>
vars == <<sheet, at, deps, todo, left, path, order, cyclic, computed>>

---------------------------------------------------------------------------
(* Values: values.ts.                                                      *)

Num(n) == [kind |-> "number", n |-> n]
Ref(r) == [kind |-> "string", row |-> r]
List(s) == [kind |-> "list", items |-> s]
Empty == [kind |-> "empty"]
Err(c) == [kind |-> "error", code |-> c]
IsError(v) == v.kind = "error"

\* fromCell, of the stored numbers and links.
FromCell(raw, type) ==
  IF raw = None THEN Empty
  ELSE IF "links" \in DOMAIN raw
       THEN IF type = "number" THEN Empty ELSE List([i \in DOMAIN raw.links |-> Ref(raw.links[i])])
       ELSE IF type = "relation" THEN List(<<Num(raw.n)>>) ELSE Num(raw.n)

Total(numbers) == FoldLeft(+, 0, numbers)
Least(numbers) == FoldLeft(LAMBDA a, b : IF b < a THEN b ELSE a, Head(numbers), Tail(numbers))

Ns(values) ==
  LET numbers == SelectSeq(values, LAMBDA v : v.kind = "number")
  IN [i \in DOMAIN numbers |-> numbers[i].n]

FirstError(values) == values[SelectInSeq(values, IsError)]

\* aggregate, of the values behind the links.
Aggregate(values, how) ==
  IF SelectInSeq(values, IsError) # 0 THEN FirstError(values)
  ELSE CASE how = "show_original" -> List(values)
         [] how = "count_all" -> Num(Len(values))
         [] how = "sum" -> Num(Total(Ns(values)))
         [] how = "min" -> IF Ns(values) = <<>> THEN Empty ELSE Num(Least(Ns(values)))

---------------------------------------------------------------------------
(* The graph.                                                              *)

\* _databasesForComputation.
Databases == <<[id |-> Here, fields |-> fields, rows |-> rows]>> \o (IF loaded THEN <<far>> ELSE <<>>)
Known(d) == d = Here \/ (d = There /\ loaded)
Db(d) == CHOOSE db \in ToSet(Databases) : db.id = d
Has(d, c) == Known(d) /\ \E f \in ToSet(Db(d).fields) : f.id = c
FieldOf(d, c) == CHOOSE f \in ToSet(Db(d).fields) : f.id = c

\* The Map from names to columns of a database: of two columns alike, the last.
Named(d, n) == SelectLastInSeq(Db(d).fields, LAMBDA f : f.name = n)

\* A formula left blank, or a rollup half configured, is no computed column.
IsComputed(f) ==
  \/ f.type = "formula" /\ f.options.expression # None
  \/ f.type = "rollup" /\ f.options.relation # None /\ f.options.target # None

FarSide(d, c) == IF Has(d, c) THEN FieldOf(d, c).options.database ELSE None

\* The edge of a rollup into the other database, if that one is known.
\* Altered: a rollup is ordered by its relation alone.
FarEdge_None(d, f) == <<>>
FarEdge(d, f) ==
  LET to == FarSide(d, f.options.relation)
  IN IF to # None /\ Known(to) THEN << <<to, f.options.target>> >> ELSE <<>>

\* What a computed column of database d reads, in the order it is met; a name that no
\* column has is no edge.
Reads(d, f) ==
  IF f.type = "formula"
    THEN LET names == referencedProperties(f.options.expression)
         IN [i \in DOMAIN names |-> IF Named(d, names[i]) = 0 THEN None
                                    ELSE <<d, Db(d).fields[Named(d, names[i])].id>>]
    ELSE << <<d, f.options.relation>> >> \o FarEdge(d, f)

ComputedIn(db) ==
  LET own == SelectSeq(db.fields, IsComputed) IN [i \in DOMAIN own |-> <<db.id, own[i].id>>]
Keys == FlattenSeq([i \in DOMAIN Databases |-> ComputedIn(Databases[i])])

\* buildDependencies; Keys is the order of its keys.
Dependencies == [n \in ToSet(Keys) |-> Reads(n[1], FieldOf(n[1], n[2]))]

---------------------------------------------------------------------------
(* Evaluation.                                                             *)

\* A column as the table has it so far, or as it is stored.
ValueOf(d, f, r, table) ==
  IF <<d, f.id>> \in DOMAIN table THEN table[<<d, f.id>>][r]
  ELSE FromCell(Db(d).rows[r][f.id], f.type)

FormulaCell(d, f, r, table) ==
  LET names == {n \in ToSet(referencedProperties(f.options.expression)) : Named(d, n) # 0}
  IN evaluateFormula(f.options.expression,
                     [n \in names |-> ValueOf(d, Db(d).fields[Named(d, n)], r, table)])

\* A row that is no longer there contributes nothing.
LinkedValue(d, c, v, table) ==
  IF v.kind = "string" /\ v.row \in DOMAIN Db(d).rows THEN ValueOf(d, FieldOf(d, c), v.row, table)
  ELSE Empty

RollupCell(d, f, r, table) ==
  LET to == FarSide(d, f.options.relation)
      linked == FromCell(Db(d).rows[r][f.options.relation], "relation").items
  IN IF to = None \/ ~Has(to, f.options.target) THEN Err("not_computable")
     ELSE Aggregate(IF Db(d).rows[r][f.options.relation] = None THEN <<>>
                    ELSE [i \in DOMAIN linked |-> LinkedValue(to, f.options.target, linked[i], table)],
                    f.options.aggregation)

ColumnOf(n, table) ==
  LET f == FieldOf(n[1], n[2])
  IN [r \in DOMAIN Db(n[1]).rows |->
        IF f.type = "formula" THEN FormulaCell(n[1], f, r, table) ELSE RollupCell(n[1], f, r, table)]

CycleError(n) == [r \in DOMAIN Db(n[1]).rows |-> Err("cycle")]

---------------------------------------------------------------------------
(* The pass.                                                               *)

BuildDependencies ==
  /\ at = "edited" /\ at' = "order"
  /\ deps' = Dependencies /\ todo' = DOMAIN Keys
  /\ left' = [n \in DOMAIN Dependencies |-> DOMAIN Dependencies[n]]
  /\ path' = <<>> /\ order' = <<>> /\ cyclic' = {} /\ computed' = <<>>
  /\ UNCHANGED sheet

\* Only computed columns are ordered; a plain one is already a value. A column that is
\* met again below itself is on a loop.
Visit(n) ==
  IF n \notin DOMAIN deps \/ n \in ToSet(order) \cup cyclic THEN UNCHANGED <<path, cyclic>>
  ELSE IF n \in ToSet(path) THEN cyclic' = cyclic \cup {n} /\ UNCHANGED path
  ELSE path' = Append(path, n) /\ UNCHANGED cyclic

First(S, i) == i \in S /\ \A j \in S : i <= j

\* The loop over deps.keys().
VisitKey ==
  /\ at = "order" /\ path = <<>>
  /\ \E i \in todo : First(todo, i) /\ todo' = todo \ {i} /\ Visit(Keys[i])
  /\ UNCHANGED <<sheet, at, deps, left, order, computed>>

\* The loop of a visit.
VisitNext ==
  /\ at = "order" /\ path # <<>>
  /\ LET n == Last(path)
     IN \E i \in left[n] :
          First(left[n], i) /\ left' = [left EXCEPT ![n] = @ \ {i}] /\ Visit(deps[n][i])
  /\ UNCHANGED <<sheet, at, deps, todo, order, computed>>

\* A column that was met again below itself stays out of the order.
VisitEnds ==
  /\ at = "order" /\ path # <<>> /\ left[Last(path)] = {}
  /\ path' = Front(path)
  /\ order' = IF Last(path) \in cyclic THEN order ELSE Append(order, Last(path))
  /\ UNCHANGED <<sheet, at, deps, todo, left, cyclic, computed>>

EvaluationStarts ==
  /\ at = "order" /\ path = <<>> /\ todo = {} /\ at' = "evaluate"
  /\ computed' = [n \in cyclic |-> CycleError(n)] /\ todo' = DOMAIN order
  /\ UNCHANGED <<sheet, deps, left, path, order, cyclic>>

\* The loop over the order: each column over those before it.
EvaluateNext ==
  /\ at = "evaluate"
  /\ \E i \in todo : /\ First(todo, i) /\ todo' = todo \ {i}
                     /\ computed' = [n \in DOMAIN computed \cup {order[i]} |->
                                       IF n = order[i] THEN ColumnOf(n, computed) ELSE computed[n]]
  /\ UNCHANGED <<sheet, at, deps, left, path, order, cyclic>>

\* The whole table has its values.
Shown == at = "evaluate" /\ todo = {}

---------------------------------------------------------------------------
(* The edits of a person.                                                  *)

Bare == [expression |-> None, relation |-> None, target |-> None, aggregation |-> None, database |-> None]

\* What is not edited stays; nothing of the pass before is kept for the next one.
Edited(rest) ==
  /\ Shown /\ at' = "edited"
  /\ deps' = <<>> /\ todo' = {} /\ left' = <<>> /\ path' = <<>>
  /\ order' = <<>> /\ cyclic' = {} /\ computed' = <<>>
  /\ UNCHANGED rest

At(c) == SelectInSeq(fields, LAMBDA f : f.id = c)
Present == {f.id : f \in ToSet(fields)}
EditField(c, f) == /\ fields' = [fields EXCEPT ![At(c)] = f]
                   /\ Edited(<<rows, used, far, loaded>>)

Init ==
  /\ \E c \in Columns, n \in Names :
        /\ fields = << [id |-> Link, name |-> None, type |-> "relation", options |-> [Bare EXCEPT !.database = There]],
                       [id |-> c, name |-> n, type |-> "number", options |-> Bare] >>
        /\ used = {c}
  /\ rows \in [HereRows -> [{Link} \cup Columns -> {None}]]
  /\ far \in FarDocs
  /\ loaded = FALSE
  /\ at = "edited" /\ deps = <<>> /\ todo = {} /\ left = <<>> /\ path = <<>>
  /\ order = <<>> /\ cyclic = {} /\ computed = <<>>

\* Another type forgets the options, but a relation what it points at.
PropertyTypeSet(c, type) ==
  /\ c \in Present
  /\ LET f == fields[At(c)]
     IN EditField(c, [f EXCEPT !.type = type,
                               !.options = IF type = "relation" THEN [Bare EXCEPT !.database = f.options.database]
                                           ELSE Bare])

PropertyDataSet(c) ==
  /\ c \in Present
  /\ LET f == fields[At(c)]
     IN \/ /\ f.type = "formula"
           /\ \E e \in Expressions \cup {None} : EditField(c, [f EXCEPT !.options.expression = e])
        \/ /\ f.type = "rollup"
           /\ \E to \in Targets \cup {None}, how \in Aggregations :
                EditField(c, [f EXCEPT !.options = [@ EXCEPT !.relation = Link, !.target = to, !.aggregation = how]])
        \/ /\ f.type = "relation"
           /\ \E d \in {Here, There} : EditField(c, [f EXCEPT !.options.database = d])

PropertyNameSet(c, n) == c \in Present /\ EditField(c, [fields[At(c)] EXCEPT !.name = n])

\* A new column is one of no row's cells.
PropertyAdd(c, n) ==
  /\ c \notin used
  /\ fields' = Append(fields, [id |-> c, name |-> n, type |-> "text", options |-> Bare])
  /\ used' = used \cup {c}
  /\ Edited(<<rows, far, loaded>>)

\* A copy comes next to its original, under another name, without its cells.
PropertyDuplicate(c, copy, n) ==
  /\ c \in Present
  /\ copy \notin used
  /\ n # fields[At(c)].name
  /\ fields' = InsertAt(fields, At(c) + 1, [fields[At(c)] EXCEPT !.id = copy, !.name = n])
  /\ used' = used \cup {copy}
  /\ Edited(<<rows, far, loaded>>)

\* The cells of a column that goes stay in the rows, under an id nobody has.
PropertyDelete(c) ==
  /\ c \in Present
  /\ fields' = RemoveAt(fields, At(c))
  /\ Edited(<<rows, used, far, loaded>>)

CellValueChange(r, c, v) ==
  /\ r \in DOMAIN rows
  /\ rows' = [rows EXCEPT ![r][c] = v]
  /\ Edited(<<fields, used, far, loaded>>)

RowDelete(r) ==
  /\ r \in DOMAIN rows
  /\ rows' = [s \in DOMAIN rows \ {r} |-> rows[s]]
  /\ Edited(<<fields, used, far, loaded>>)

\* loadTargetDatabase: what has been fetched once is kept.
LoadTargetDatabase ==
  /\ ~loaded
  /\ loaded' = TRUE
  /\ Edited(<<fields, rows, used, far>>)

TypesOf(c) == IF c = Link THEN {"relation", "number"} ELSE ComputedTypes \cup {"number"}

Edits ==
  \/ \E c \in Columns \cup {Link} :
       \/ \E type \in TypesOf(c) : PropertyTypeSet(c, type)
       \/ PropertyDataSet(c)
       \/ PropertyDelete(c)
  \/ \E c \in Columns, n \in Names :
       \/ PropertyNameSet(c, n)
       \/ PropertyAdd(c, n)
       \/ \E copy \in Columns : PropertyDuplicate(c, copy, n)
  \/ \E r \in HereRows :
       \/ \E l \in Links :
            Link \in Present /\ fields[At(Link)].type = "relation" /\ CellValueChange(r, Link, l)
       \/ \E c \in Present \ {Link}, v \in Cells :
            fields[At(c)].type \notin ComputedTypes /\ CellValueChange(r, c, v)
       \/ RowDelete(r)
  \/ LoadTargetDatabase

Pass == BuildDependencies \/ VisitKey \/ VisitNext \/ VisitEnds \/ EvaluationStarts \/ EvaluateNext

Next == Edits \/ Pass
Spec == Init /\ [][Next]_vars

---------------------------------------------------------------------------
(* Properties.                                                             *)

\* The unmarked columns read each other in no circle: whatever closes one, in this
\* database or across the two, shows the cycle error in some column of it.
LoopsAreCut(graph, marked) ==
  \A S \in SUBSET (DOMAIN graph \ marked) :
    S # {} => \E n \in S : ToSet(graph[n]) \cap S = {}

\* Column m depends on n: n is in every set that holds what m reads and, with a column,
\* what that one reads. A marked column depends on itself.
DependsOn(graph, m, n) ==
  \A S \in SUBSET DOMAIN graph :
    (/\ ToSet(graph[m]) \cap DOMAIN graph \subseteq S
     /\ \A k \in S : ToSet(graph[k]) \cap DOMAIN graph \subseteq S) => n \in S

\* One pass gives a sheet that agrees with itself: every computed column that is not
\* marked has, in every row, what its formula or rollup gives of the columns as they
\* are shown at the end, so none was evaluated before one it reads, in this database
\* or the other, after any edits of the columns; and exactly loops are marked.
SheetAgrees ==
  Shown =>
    LET graph == Dependencies
    IN /\ DOMAIN computed = DOMAIN graph
       /\ \A n \in DOMAIN graph \ cyclic : computed[n] = ColumnOf(n, computed)
       /\ \A n \in cyclic : computed[n] = CycleError(n) /\ DependsOn(graph, n, n)
       /\ LoopsAreCut(graph, cyclic)
=============================================================================
