---------------------------- MODULE MCDatabases -----------------------------
(***************************************************************************)
(* Cases of QueryEngines, Aggregates and StoredForms for TLC: what both    *)
(* databases make of a query, a pipeline and a write.  Wheres over a       *)
(* number, a string, an array and a field the class does not have, against *)
(* rows with and without values; pipelines over a number, a pointer, an    *)
(* array and the day of creation; objects with one or two fields of each   *)
(* type, and updates of every kind for each field, below an object field   *)
(* at two depths, and of the providers of a user.                          *)
(***************************************************************************)
EXTENDS Integers, Sequences, SequencesExt, FiniteSets, TLC

CONSTANT None

Typed == [n |-> "Number", m |-> "Number", s |-> "String", a |-> "Array"]
Engines == INSTANCE QueryEngines WITH Type <- Typed

Arrays == {None, <<>>, <<1>>, <<1, 2>>, <<1, 1>>, <<2>>, <<3, 1>>}
Rows == [n : {None, 0, 1, 2}, m : {None, 1}, s : {None, 0, 1}, a : Arrays]

C(op, v) == [o \in {op} |-> v]
Where(k, c) == [x \in {k} |-> c]
Paired(s) == {a @@ b : a \in s, b \in s}

OfScalar(vs) ==
  {C(op, v) : op \in {"is", "$eq", "$ne"}, v \in vs \cup {None}}
  \cup {C(op, s) : op \in {"$in", "$nin"}, s \in SUBSET vs \cup {{None}, {None, 1}}}
  \cup {C(op, v) : op \in Engines!Comparisons, v \in vs} \cup {C("$exists", b) : b \in BOOLEAN}
OfArray ==
  {C(op, v) : op \in {"is", "$eq", "$ne"}, v \in {1, 2}}
  \cup {C(op, s) : op \in {"$in", "$nin", "$all", "$containedBy"}, s \in SUBSET {1, 2}}
  \cup {C("$exists", b) : b \in BOOLEAN}

OneField ==
  {Where("n", c) : c \in OfScalar({0, 1, 2})} \cup {Where("s", c) : c \in OfScalar({0, 1})}
  \cup {Where("a", c) : c \in OfArray} \cup {Where("z", C("$exists", b)) : b \in BOOLEAN}
TwoConstraints ==
  {Where("n", c) : c \in Paired(OfScalar({0, 1}))} \cup {Where("a", c) : c \in Paired(OfArray)}
  \cup {Where("n", c) @@ Where("a", d) : c \in OfScalar({1}), d \in OfArray}
Few == {<<>>, Where("n", C("is", 1)), Where("n", C("$ne", 1)), Where("n", C("$lt", 1)), Where("s", C("$exists", FALSE)),
        Where("z", C("$exists", FALSE)), Where("a", C("is", 1)), Where("a", C("$all", {1, 2}))}
Combined == {Where(k, {a, b}) @@ w : k \in Engines!Logical, a \in Few, b \in Few, w \in Few}

EngineCases ==
  [kind : {"engines"}, where : OneField \cup TwoConstraints \cup Combined \cup {Where("$nor", {w}) : w \in Combined}]
AllAgree(x) ==
  \A r \in Rows :
    /\ Engines!MongoExact(r, x.where) => Engines!Mongo(r, x.where) = Engines!Means(r, x.where)
    /\ Engines!PostgresExact(r, x.where, None) => Engines!Postgres(r, x.where) = Engines!Means(r, x.where)
    /\ Engines!LiveExact(r, x.where) => Engines!Live(r, x.where) = Engines!Means(r, x.where)

\* Two queries of one class.
Hashed == {Where("n", C("is", v)) @@ Where("m", C("is", w)) : v \in {1, 2}, w \in {1, 2}} \cup {Where("n", C("is", 1))}
HashCases == [kind : {"hash"}, one : Hashed, other : Hashed]
ToldApart(x) ==
  Engines!QueryHash(x.one) = Engines!QueryHash(x.other) =>
    \A r \in Rows : Engines!Live(r, x.one) = Engines!Live(r, x.other)

-----------------------------------------------------------------------------
Grouped == [n |-> "Number", m |-> "Number", p |-> "Pointer", a |-> "Array"]
Agg == INSTANCE Aggregates WITH Type <- Grouped

Num(x) == IF x = None THEN None ELSE <<"num", x>>
Row(id, n, m, p, a, day) ==
  Agg!Doc([f \in Agg!Fields |-> CASE f = "objectId" -> <<"str", id>> [] f = "createdAt" -> Num(day) [] f = "n" -> Num(n) [] f = "m" -> Num(m)
                                 [] f = "p" -> IF p = None THEN None ELSE <<"str", p>> [] f = "a" -> IF a = None THEN None ELSE <<"arr", a>>])
Databases == {
  <<>>,
  <<Row("o1", 1, None, "b1", <<1, 2>>, 101)>>,
  <<Row("o1", 2, 5, "b1", <<1>>, 101), Row("o2", 1, 6, "b2", <<>>, 202), Row("o3", 2, 7, "b1", None, 101)>>,
  <<Row("o1", 0, 5, "b1", None, 101), Row("o2", None, 6, None, <<3>>, 102), Row("o3", 3, None, "b2", <<3, 1>>, 202)>>,
  <<Row("o1", 1, 5, None, None, 101), Row("o2", 1, 9, "b2", None, 101), Row("o3", 4, 7, "b2", None, 202), Row("o4", 3, 8, "b1", <<1>>, 303)>>}

Only(k, v) == [x \in {k} |-> v]
Match(or, any) == [op |-> "match", or |-> or, any |-> any]
Is(f, v) == Only(f, Only("is", v))
Conditions == {Is("n", Num(1)), Is("p", <<"str", "b1">>), Is("objectId", <<"str", "o1">>), Is("createdAt", Num(101)), Is("z", Num(1)),
               Only("n", Only("$gt", Num(1))), Only("n", Only("$gte", Num(0))), Only("m", Only("$lt", Num(7)) @@ Only("$gt", Num(5))), Is("n", Num(1)) @@ Is("p", <<"str", "b2">>)}
Matches == {Match(FALSE, {c}) : c \in Conditions} \cup {Match(TRUE, {c, d}) : c \in Conditions, d \in Conditions}

Field(f) == <<"field", f>>
Bys == {None, Field("n"), Field("p"), Field("createdAt"), Field("objectId"),
        <<"parts", Only("x", <<None, "n">>)>>, <<"parts", Only("x", <<None, "n">>) @@ Only("y", <<None, "m">>)>>,
        <<"parts", Only("x", <<"$month", "createdAt">>)>>, <<"parts", Only("x", <<None, "p">>)>>}
Accs == {<<>>, Only("total", <<"count", None>>), Only("total", <<"$sum", "m">>), Only("top", <<"$max", "m">>) @@ Only("low", <<"$min", "n">>),
         Only("mid", <<"$avg", "m">>) @@ Only("total", <<"count", None>>)}
Group(by, acc, key) == [op |-> "group", by |-> by, acc |-> acc, key |-> key]
Groups == {Group(by, acc, "objectId") : by \in Bys, acc \in Accs}
Sort(keys) == [op |-> "sort", keys |-> keys]
Sorts == {Sort(<< <<"n", 1>> >>), Sort(<< <<"m", -1>> >>), Sort(<< <<"n", -1>>, <<"m", 1>> >>), Sort(<< <<"createdAt", -1>> >>), Sort(<< <<"total", -1>> >>)}
Cut(op, n) == [op |-> op, n |-> n]
Project(fs) == [op |-> "project", fields |-> fs]
Projects == {Project({"objectId", "n"}), Project({"n", "p"}), Project({"objectId", "createdAt", "p"})}

Pipelines ==
  {<<>>} \cup {<<s>> : s \in Matches \cup Groups \cup Sorts \cup Projects \cup {[op |-> "other"], Group(None, <<>>, "_id")}}
  \cup {<<s, t>> : s \in Matches, t \in Groups} \cup {<<s, t>> : s \in Groups, t \in Sorts \cup {Match(FALSE, {Only("total", Only("$gt", Num(1)))})}}
  \cup {<<s, t, u>> : s \in {Match(FALSE, {c}) : c \in Conditions}, t \in Sorts, u \in {Cut("limit", 2), Cut("skip", 1)}}
  \cup {<<s, Cut("skip", 1), Cut("limit", 1)>> : s \in Sorts}
  \cup {<<s, Cut("limit", 2), t>> : s \in Sorts, t \in Projects} \cup {<<s, t>> : s \in Projects, t \in Matches}
  \cup {<<s, t, u>> : s \in {Match(FALSE, {c}) : c \in Conditions}, t \in Groups, u \in Sorts}

Ops(p) == [i \in DOMAIN p |-> p[i].op]
Stages(p, op) == {p[i] : i \in {j \in DOMAIN p : p[j].op = op}}
By(g) == IF g.by = None THEN {} ELSE Agg!GroupFields(g.by)
IsParts(g) == g.by # None /\ g.by[1] = "parts"
Has(docs, f) == \A i \in DOMAIN docs : f \in DOMAIN docs[i]

\* An order without ties, that stays; what is skipped or cut off is decided by one.
Strict(docs, p, i) ==
  /\ p[i].op = "sort"
  /\ LET r == Agg!Run("objectId", docs, SubSeq(p, 1, i)) IN
     \A k \in 1..(Len(r) - 1) : Agg!Before(p[i].keys, TRUE, r[k], r[k + 1])
Determined(docs, p) == \A i \in DOMAIN p : p[i].op \in {"limit", "skip"} => \E j \in 1..(i - 1) : Strict(docs, p, j)
Ordered(docs, p) == \E i \in DOMAIN p : Strict(docs, p, i) /\ \A j \in (i + 1)..Len(p) : p[j].op \notin {"group", "sort"}

\* A date is not sorted by, nor a key grouped by, under the name it is stored under; in parts
\* a pointer keeps its class and a key of nothing is null.
MongoExact(docs, p) ==
  /\ \A s \in Stages(p, "sort") : \A i \in DOMAIN s.keys : Agg!Stored(s.keys[i][1]) = s.keys[i][1]
  /\ \A g \in Stages(p, "group") :
       /\ "objectId" \notin By(g)
       /\ IsParts(g) => "p" \notin By(g) /\ \A i \in DOMAIN docs : By(g) \cap DOMAIN docs[i] # {}

\* The clauses in the order SQL takes them in, and what each of them can say.
Rank == [match |-> 1, group |-> 2, sort |-> 3, skip |-> 9, limit |-> 4, project |-> 5]
PostgresExact(docs, p) ==
  /\ p # <<>>
  /\ \A i \in DOMAIN p : p[i].op # "skip" /\ (i > 1 => Rank[p[i - 1].op] < Rank[p[i].op])
  /\ \A s \in Stages(p, "match") :
       /\ \A c \in s.any, f \in UNION {DOMAIN d : d \in s.any} :
            f \in DOMAIN c => f \in Agg!Fields /\ (\A op \in DOMAIN c[f] : c[f][op] # Num(0))
       /\ s.or => (\A c \in s.any : Cardinality(DOMAIN c) = 1) /\ (\A c, d \in s.any : c # d => DOMAIN c \cap DOMAIN d = {})
  /\ \A g \in Stages(p, "group") :
       /\ g.by = None => Len(p) = 1 /\ docs # <<>> /\ g.acc # <<>>
       /\ \A t \in DOMAIN g.acc : g.acc[t][1] = "$sum" => Has(docs, g.acc[t][2])
       /\ IsParts(g) => \A i, j \in DOMAIN docs, a \in DOMAIN g.by[2] :
            Agg!KeyOf(g.by, docs[i]) = Agg!KeyOf(g.by, docs[j]) => Agg!Get(docs[i], g.by[2][a][2]) = Agg!Get(docs[j], g.by[2][a][2])
  /\ \A s \in Stages(p, "sort"), i \in 1..2 : i \in DOMAIN s.keys =>
       IF Stages(p, "group") = {} THEN Has(docs, s.keys[i][1])
       ELSE \A g \in Stages(p, "group") : s.keys[i][1] \in DOMAIN g.acc
  /\ \A s \in Stages(p, "project") : "objectId" \in s.fields

Same(docs, p, r, s) == IF Ordered(docs, p) THEN r = s ELSE ToSet(r) = ToSet(s) /\ Len(r) = Len(s)
AggregateCases ==
  [kind : {"aggregate"}, docs : Databases, pipeline : Pipelines] \cup [kind : {"distinct"}, docs : Databases, field : Agg!Fields]
Aggregates(x) ==
  LET p == Agg!GetPipeline(x.pipeline)
      means == Agg!Run("objectId", x.docs, p)
  IN IF \E i \in DOMAIN x.pipeline : x.pipeline[i].op = "other" \/ (x.pipeline[i].op = "group" /\ x.pipeline[i].key = "_id") THEN p = None
     ELSE /\ MongoExact(x.docs, p) /\ Determined(x.docs, p) => Same(x.docs, p, Agg!MongoAggregate(x.docs, p), means)
          /\ PostgresExact(x.docs, p) /\ Determined(x.docs, p) => Same(x.docs, p, Agg!PostgresAggregate(x.docs, p), means)
Distincts(x) ==
  LET means == UNION {Agg!Elements(Agg!Get(d, x.field)) : d \in ToSet(x.docs)} \ {None} IN
  Agg!MongoDistinct(x.docs, x.field) = means /\ Agg!PostgresDistinct(x.docs, x.field) = means

-----------------------------------------------------------------------------
Type == [n |-> "Number", a |-> "Array", o |-> "Object", p |-> "Pointer", g |-> "GeoPoint", y |-> "Polygon",
         f |-> "File", b |-> "Bytes", d |-> "Date", r |-> "Relation", authData |-> "Object"]
Forms == INSTANCE StoredForms WITH
  Target <- [p |-> "C", r |-> "C"], Provider <- [_auth_data_fb |-> "fb", _auth_data_tw |-> "tw"]

N(n) == <<"Number", n>>
D(n) == <<"Date", n>>
A(s) == <<"Array", s>>
O(f) == <<"Object", f>>
P(id) == <<"Pointer", <<"C", id>> >>
Polygon(points) == <<"Polygon", points>>
Bytes(n) == <<"Bytes", n>>
Account(n) == O([id |-> N(n)])

Values ==
  [n |-> {N(0), N(2)},
   a |-> {A(<<>>), A(<<N(1)>>), A(<<N(1), D(1), N(1)>>), A(<<P(1), Bytes(3), <<"GeoPoint", <<1, 2>> >> >>)},
   o |-> {O(<<>>), O([k |-> N(1)]), O([k |-> D(1), l |-> O([m |-> N(1), j |-> N(2)])]), O([l |-> A(<<N(1)>>)]),
          O([k |-> Forms!Null])},
   p |-> {P(1), P(2)},
   g |-> {<<"GeoPoint", <<1, 2>> >>},
   y |-> {Polygon(<< <<0, 0>>, <<0, 1>>, <<1, 1>> >>), Polygon(<< <<0, 0>>, <<0, 1>>, <<1, 0>>, <<0, 0>> >>),
          Polygon(<< <<0, 0>>, <<0, 1>>, <<0, 0>> >>)},
   f |-> {<<"File", "x">>}, b |-> {Bytes(1)}, d |-> {D(1), D(2)}, r |-> {<<"Relation", "C">>},
   authData |-> {O([fb |-> Account(1)]), O([fb |-> Account(1), tw |-> Account(2)])}]
ValuesOf(k) == Values[k] \cup (IF k \in {"r", "authData"} THEN {} ELSE {Forms!Null})

One(k, v) == [x \in {k} |-> v]
OneValue == {<<>>} \cup UNION {{One(k, v) : v \in ValuesOf(k)} : k \in DOMAIN Type}
TwoValues == {x @@ y : x \in OneValue, y \in OneValue}

\* What a field is changed to or by, and what is put below one.
Changes(k) ==
  CASE k = "n" -> {<<"Increment", 1>>}
    [] k = "a" -> {<<op, s>> : op \in {"Add", "AddUnique", "Remove"}, s \in {<<N(1)>>, <<N(2), N(2)>>, <<D(1)>>}}
    [] OTHER -> {}
Below == {N(5), D(3), P(1), A(<<D(1)>>), O([m |-> D(1)]), Forms!Null, <<"Increment", 2>>, <<"Delete", 0>>,
          <<"Add", <<N(2)>> >>, <<"Remove", <<N(1)>> >>}
Single ==
  UNION {{One(<<k>>, v) : v \in ValuesOf(k) \cup Changes(k) \cup {<<"Delete", 0>>}} : k \in DOMAIN Type \ {"r", "authData"}}
  \cup {One(path, v) : path \in {<<"o", "k">>, <<"o", "l">>, <<"o", "l", "m">>}, v \in Below}
Double ==
  {One(<<"o", "k">>, v) @@ One(path, w) : path \in {<<"o", "l">>, <<"o", "l", "m">>}, v \in Below, w \in Below}
  \cup {One(<<"n">>, <<"Increment", 1>>) @@ u : u \in Single}
AuthData ==
  {O([fb |-> v]) : v \in {Forms!Null, Account(7)}} \cup {O([fb |-> v, tw |-> Forms!Null]) : v \in {Forms!Null, Account(7)}}
OfProviders(auth) ==
  LET fields == Forms!TransformAuthData(One("authData", auth)) IN [path \in {<<k>> : k \in DOMAIN fields} |-> fields[path[1]]]

StorageCases ==
  [kind : {"stored"}, object : TwoValues, update : {<<>>}]
  \cup [kind : {"stored"}, object : OneValue, update : Single \cup Double \cup {OfProviders(auth) : auth \in AuthData}]

Content(v) == IF v = Forms!Failed THEN v ELSE Forms!Content(v)
InMongo(x) == Forms!MongoRead(Forms!MongoUpdate(Forms!MongoCreate(Forms!TransformAuthData(x.object)), x.update))
InPostgres(x) == Forms!PostgresRead(Forms!PostgresUpdate(Forms!PostgresCreate(Forms!TransformAuthData(x.object)), x.update))

\* An engine holds what was written, and answers with what its operators gave.
Holds(x, read) ==
  LET written == Forms!Written(x.object, x.update) IN
  /\ Content(read) = Content(written)
  /\ Content(Forms!Answers(read, x.update)) = Content(Forms!Answers(written, x.update))
BothHold(x) ==
  LET typed == Forms!WellTyped(x.object, x.update) IN
  /\ typed /\ Forms!MongoExact(x.object, x.update) => Holds(x, InMongo(x))
  /\ typed /\ Forms!PostgresExact(x.object, x.update) => Holds(x, InPostgres(x))
  /\ (\E k \in DOMAIN x.object : Forms!BadPolygon(x.object[k])) => InMongo(x) = Forms!Failed /\ InPostgres(x) = Forms!Failed

-----------------------------------------------------------------------------
\* A row that may not be there is written by an upsert, and a new one by values alone.
UpsertCases ==
  [kind : {"upserted"}, object : OneValue \cup {None}, update : {u \in Single \cup Double : \A path \in DOMAIN u : ~ Forms!IsOperator(u[path])}]
Start(x) == IF x.object = None THEN <<>> ELSE x.object
Upserted(x) ==
  LET typed == Forms!WellTyped(Start(x), x.update)
      written == Content(Forms!Written(Start(x), x.update))
      doc == IF x.object = None THEN None ELSE Forms!MongoCreate(Forms!TransformAuthData(x.object))
      row == IF x.object = None THEN None ELSE Forms!PostgresCreate(Forms!TransformAuthData(x.object))
  IN
  /\ typed /\ Forms!MongoExact(Start(x), x.update) => Content(Forms!MongoRead(Forms!MongoUpsert(doc, x.update))) = written
  /\ typed /\ Forms!PostgresExact(Start(x), x.update) => Content(Forms!PostgresRead(Forms!PostgresUpsert(row, x.update))) = written

\* A creation with operators: what they give an object that has nothing, except that an
\* AddUnique keeps an element it has twice.
NewCases == [kind : {"new"}, update : {u \in Single \cup Double : \A path \in DOMAIN u : Len(path) = 1}]
NewIsWritten(x) ==
  LET object == Forms!FlattenForCreate([k \in {path[1] : path \in DOMAIN x.update} |-> x.update[<<k>>]])
      written == Content(Forms!Written(<<>>, x.update))
  IN
  /\ \A k \in DOMAIN object : ~ Forms!BadPolygon(object[k])
  /\ \A path \in DOMAIN x.update : x.update[path][1] = "AddUnique" => Forms!Uniques(x.update[path][2]) = x.update[path][2]
  /\ Forms!MongoExact(object, <<>>)
  =>
    /\ Content(Forms!MongoRead(Forms!MongoCreate(object))) = written
    /\ Content(Forms!PostgresRead(Forms!PostgresCreate(object))) = written
=============================================================================
