----------------------------- MODULE Aggregates -----------------------------
(***************************************************************************)
(* Aggregation pipelines, distinct values and counts: the pipeline a       *)
(* request gives (AggregateRouter), the one MongoDB is sent and what is    *)
(* made of its answer (MongoStorageAdapter), and the single SELECT that    *)
(* PostgreSQL is sent instead (PostgresStorageAdapter).  A document is a   *)
(* function from the names of its fields, those it has, to values          *)
(* <<type, v>>.  A stage is a record of its operator and arguments.        *)
(***************************************************************************)
EXTENDS Integers, Sequences, SequencesExt, FiniteSets, FiniteSetsExt, TLC

CONSTANTS
  Type,   \* of each field of the class, but for those every class has
  None    \* null, missing

Get(d, f) == IF f \in DOMAIN d THEN d[f] ELSE None
\* A document of the values there are.
Doc(d) == [f \in {g \in DOMAIN d : d[g] # None} |-> d[f]]
IsPointer(f) == f \in DOMAIN Type /\ Type[f] = "Pointer"

-----------------------------------------------------------------------------
(* What MongoDB does with a pipeline, stage after stage; `id` is the name  *)
(* of the key of a document.                                               *)

Comparators == {"$gt", "$lt", "$gte", "$lte"}
Meets(v, op, x) ==
  CASE v = None -> FALSE
    [] v # None -> CASE op = "is" -> v = x
                     [] op = "$gt" -> v[2] > x[2]
                     [] op = "$lt" -> v[2] < x[2]
                     [] op = "$gte" -> v[2] >= x[2]
                     [] op = "$lte" -> v[2] <= x[2]
MeetsAll(d, cs) == \A f \in DOMAIN cs : \A op \in DOMAIN cs[f] : Meets(Get(d, f), op, cs[f][op])

Part(part, v) == IF part = None \/ v = None THEN v ELSE <<"num", v[2] \div 100>>
KeyOf(by, d) ==
  CASE by = None -> None
    [] by # None -> IF by[1] = "field" THEN Get(d, by[2])
                    ELSE <<"obj", Doc([a \in DOMAIN by[2] |-> Part(by[2][a][1], Get(d, by[2][a][2]))])>>

\* An accumulator over the documents of a group.
Accumulate(kind, f, group) ==
  LET has == SelectSeq(group, LAMBDA d : Get(d, f) # None)
      vals == {d[f][2] : d \in ToSet(has)}
      sum == FoldLeft(LAMBDA a, d : a + d[f][2], 0, has)
  IN CASE kind = "count" -> <<"num", Len(group)>>
       [] kind = "$sum" -> <<"num", sum>>
       [] kind \in {"$max", "$min", "$avg"} ->
            IF has = <<>> THEN None
            ELSE IF kind = "$max" THEN <<"num", Max(vals)>> ELSE IF kind = "$min" THEN <<"num", Min(vals)>>
            ELSE <<"avg", <<sum, Len(has)>>>>

GroupBy(id, docs, by, acc) ==
  [i \in 1..Cardinality({KeyOf(by, d) : d \in ToSet(docs)}) |->
     LET key == SetToSeq({KeyOf(by, d) : d \in ToSet(docs)})[i]
         group == SelectSeq(docs, LAMBDA d : KeyOf(by, d) = key)
     IN Doc([f \in DOMAIN acc \cup {id} |-> IF f = id THEN key ELSE Accumulate(acc[f][1], acc[f][2], group)])]

\* nulls: whether what is missing comes before what is there.
Before(keys, nulls, d, e) ==
  \E i \in DOMAIN keys :
    /\ \A j \in 1..(i - 1) : Get(d, keys[j][1]) = Get(e, keys[j][1])
    /\ LET a == Get(d, keys[i][1])
           b == Get(e, keys[i][1])
           less(x, y) == IF x = None \/ y = None THEN x # y /\ (x = None) = nulls ELSE x[2] < y[2]
       IN a # b /\ (IF keys[i][2] = 1 THEN less(a, b) ELSE less(b, a))
Sorted(docs, keys, nulls) == SortSeq(docs, LAMBDA d, e : Before(keys, nulls, d, e))
From(n, s) == IF n >= Len(s) THEN <<>> ELSE SubSeq(s, n + 1, Len(s))
Upto(n, s) == IF n >= Len(s) THEN s ELSE SubSeq(s, 1, n)

RunStage(id, docs, s) ==
  CASE s.op = "match" -> SelectSeq(docs, LAMBDA d : \E cs \in s.any : MeetsAll(d, cs))
    [] s.op = "group" -> GroupBy(id, docs, s.by, s.acc)
    [] s.op = "sort" -> Sorted(docs, s.keys, TRUE)
    [] s.op = "skip" -> From(s.n, docs)
    [] s.op = "limit" -> Upto(s.n, docs)
    [] s.op = "project" -> [i \in DOMAIN docs |-> Doc([f \in s.fields \cup {id} |-> Get(docs[i], f)])]
Run(id, docs, pipeline) == FoldLeft(LAMBDA ds, s : RunStage(id, ds, s), docs, pipeline)

-----------------------------------------------------------------------------
\* AggregateRouter: a pipeline of stages the server knows, each with one operator, and
\* groups that name their key objectId.
Operators == {"match", "group", "sort", "skip", "limit", "project"}
GetPipeline(body) ==
  IF \A i \in DOMAIN body : body[i].op \in Operators /\ (body[i].op = "group" => body[i].key = "objectId")
  THEN body ELSE None

-----------------------------------------------------------------------------
\* MongoDB: the names under which fields are stored, and pointers with their class.
Stored(f) ==
  CASE f = "objectId" -> "_id"
    [] f = "createdAt" -> "_created_at"
    [] OTHER -> IF IsPointer(f) THEN "_p_" \o f ELSE f
StoredValue(f, v) == IF v # None /\ IsPointer(f) THEN <<"ptr", v[2]>> ELSE v
Back(v) == IF v # None /\ v[1] = "ptr" THEN <<"str", v[2]>> ELSE v
ToMongo(d) == [g \in {Stored(f) : f \in DOMAIN d} |->
                 LET f == CHOOSE x \in DOMAIN d : Stored(x) = g IN StoredValue(f, d[f])]

ParseAggregateArgs(cs) == [g \in {Stored(f) : f \in DOMAIN cs} |->
                             LET f == CHOOSE x \in DOMAIN cs : Stored(x) = g
                             IN [op \in DOMAIN cs[f] |-> IF op = "is" THEN StoredValue(f, cs[f][op]) ELSE cs[f][op]]]
ParseAggregateProjectArgs(fields) == {Stored(f) : f \in fields}

\* In a group a key of the document is not renamed.
GroupField(f) == IF f = "objectId" THEN f ELSE Stored(f)
ParseAggregateGroupArgs(s) ==
  [s EXCEPT !.by = CASE @ = None -> None
                     [] @ # None -> IF @[1] = "field" THEN <<"field", GroupField(@[2])>>
                                    ELSE <<"parts", [a \in DOMAIN @[2] |-> <<@[2][a][1], GroupField(@[2][a][2])>>]>>,
            !.acc = [f \in DOMAIN @ |-> <<@[f][1], GroupField(@[f][2])>>]]

ToMongoStage(s) ==
  CASE s.op = "match" -> [s EXCEPT !.any = {ParseAggregateArgs(cs) : cs \in s.any}]
    [] s.op = "group" -> ParseAggregateGroupArgs(s)
    [] s.op = "project" -> [s EXCEPT !.fields = ParseAggregateProjectArgs(s.fields)]
    [] OTHER -> s

Fields == DOMAIN Type \cup {"objectId", "createdAt"}
Unstored(g) == IF \E f \in Fields : Stored(f) = g THEN CHOOSE f \in Fields : Stored(f) = g ELSE g
\* An empty key is null; of a pointer the id is kept.
FromMongo(d) ==
  Doc([f \in {Unstored(g) : g \in DOMAIN d} |-> IF d[Stored(f)] = <<"obj", <<>>>> THEN None ELSE Back(d[Stored(f)])])

MongoAggregate(docs, pipeline) ==
  LET Answer(found) == [i \in DOMAIN found |-> FromMongo(found[i])]
  IN Answer(Run("_id", [i \in DOMAIN docs |-> ToMongo(docs[i])], [i \in DOMAIN pipeline |-> ToMongoStage(pipeline[i])]))

-----------------------------------------------------------------------------
(* PostgreSQL: one SELECT is put together stage by stage, each clause by   *)
(* the last stage that gives it, whatever their order.                     *)

NoSelect == [columns |-> {}, match |-> None, by |-> None, sort |-> <<>>, skip |-> None, limit |-> None]
Star == <<"*">>

\* Of $or only the last constraint on a field is kept, beside those on others.
Where(s) ==
  [or |-> s.or, on |-> [f \in UNION {DOMAIN cs : cs \in s.any} |-> (CHOOSE cs \in s.any : f \in DOMAIN cs)[f]]]
AcceptsRow(where, d) ==
  LET usable(f) == {op \in DOMAIN where.on[f] \cap Comparators : where.on[f][op][2] # 0}
      counts == {f \in DOMAIN where.on : usable(f) # {} \/ f \in Fields}
      meets(f) == IF usable(f) # {} THEN \A op \in usable(f) : Meets(Get(d, f), op, where.on[f][op])
                  ELSE Meets(Get(d, f), "is", Get(where.on[f], "is"))
  IN counts = {} \/ IF where.or THEN \E f \in counts : meets(f) ELSE \A f \in counts : meets(f)

\* A group by nothing has no columns of its own; of a $sum of a constant the rows are counted.
GroupColumns(s) ==
  {<<"agg", s.acc[f][1], s.acc[f][2], f>> : f \in DOMAIN s.acc}
  \cup (CASE s.by = None -> {}
          [] s.by # None -> IF s.by[1] = "field" THEN {<<"as", None, s.by[2], "objectId">>}
                            ELSE {<<"as", s.by[2][a][1], s.by[2][a][2], a>> : a \in DOMAIN s.by[2]})
GroupFields(by) == IF by[1] = "field" THEN {by[2]} ELSE {by[2][a][2] : a \in DOMAIN by[2]}

Clause(q, s) ==
  LET starred == IF s.op = "group" THEN q ELSE [q EXCEPT !.columns = @ \cup {Star}] IN
  CASE s.op = "group" -> [q EXCEPT !.columns = @ \cup GroupColumns(s), !.by = IF s.by = None THEN @ ELSE s.by]
    [] s.op = "project" -> [q EXCEPT !.columns = {<<"as", None, f, f>> : f \in s.fields}]
    [] s.op = "match" -> [starred EXCEPT !.match = Where(s)]
    [] s.op = "sort" -> [starred EXCEPT !.sort = s.keys]
    [] s.op = "skip" -> [starred EXCEPT !.skip = IF s.n = 0 THEN @ ELSE s.n]
    [] s.op = "limit" -> [starred EXCEPT !.limit = IF s.n = 0 THEN @ ELSE s.n]

\* The value of a column for a row, or for the rows of a group.
ColumnOf(c, group) ==
  IF c[1] = "as" THEN Part(c[2], Get(Head(group), c[3]))
  ELSE IF c[2] = "$sum" /\ \A i \in DOMAIN group : Get(group[i], c[3]) = None THEN None
  ELSE Accumulate(c[2], c[3], group)
RowOf(columns, group) ==
  LET Of(named) == [a \in {c[4] : c \in named} |-> ColumnOf(CHOOSE c \in named : c[4] = a, group)]
      Row(own, all) == [shown |-> Doc([f \in IF Star \in columns THEN DOMAIN all ELSE DOMAIN own |-> all[f]]), all |-> Doc(all)]
      With(own) == Row(own, own @@ (IF group = <<>> THEN <<>> ELSE Head(group)))
  IN With(Of(columns \ {Star}))

\* OFFSET is written before GROUP BY and ORDER BY, which PostgreSQL does not parse; nor does
\* it give columns beside aggregates that are not grouped.
Select(docs, q) ==
  LET aggregates == \E c \in q.columns : c[1] = "agg"
      PerKey(rows, keys) == [i \in DOMAIN keys |-> SelectSeq(rows, LAMBDA d : [f \in GroupFields(q.by) |-> Get(d, f)] = keys[i])]
      Groups(rows) == IF q.by # None THEN PerKey(rows, SetToSeq({[f \in GroupFields(q.by) |-> Get(d, f)] : d \in ToSet(rows)}))
                      ELSE IF aggregates THEN <<rows>> ELSE [i \in DOMAIN rows |-> <<rows[i]>>]
      Found(columns, groups) == [i \in DOMAIN groups |-> RowOf(columns, groups[i])]
      Table(found) == [i \in DOMAIN found |-> SortSeq(found, LAMBDA r, o : Before(q.sort, FALSE, r.all, o.all))[i].shown]
      Skipped(table) == IF q.skip = None THEN table ELSE From(q.skip, table)
      Limited(table) == IF q.limit = None THEN table ELSE Upto(q.limit, table)
  IN IF (q.skip # None /\ (q.by # None \/ q.sort # <<>>)) \/ (q.by = None /\ aggregates /\ Star \in q.columns) THEN None
     ELSE Limited(Skipped(Table(Found(
            IF q.by # None THEN q.columns \ {Star} ELSE q.columns,
            Groups(IF q.match = None THEN docs ELSE SelectSeq(docs, LAMBDA d : AcceptsRow(q.match, d)))))))

PostgresAggregate(docs, pipeline) ==
  LET Keyed(parts, d) == Doc([f \in (DOMAIN d \ parts) \cup {"objectId"} |->
                                IF f = "objectId" THEN <<"obj", Doc([a \in parts |-> Get(d, a)])>> ELSE d[f]])
      Answer(by, rows) == IF rows = None \/ by = None \/ by[1] = "field" THEN rows
                          ELSE [i \in DOMAIN rows |-> Keyed(DOMAIN by[2], rows[i])]
      Of(q) == Answer(q.by, Select(docs, q))
  IN Of(FoldLeft(Clause, NoSelect, pipeline))

-----------------------------------------------------------------------------
\* The values of a field, those of an array one by one.
Elements(v) == IF v = None THEN {None} ELSE IF v[1] = "arr" THEN {<<"num", v[2][i]>> : i \in DOMAIN v[2]} ELSE {v}
MongoDistinct(docs, f) ==
  {Back(v) : v \in UNION {Elements(Get(ToMongo(d), Stored(f))) : d \in ToSet(docs)} \ {None}}
PostgresDistinct(docs, f) ==
  LET vals == {Get(d, f) : d \in ToSet(docs)} IN
  (IF f \in DOMAIN Type /\ Type[f] = "Array" THEN UNION {Elements(v) : v \in vals} ELSE vals) \ {None}
=============================================================================
