----------------------------- MODULE StoredForms ------------------------------
(***************************************************************************)
(* How an object is stored and read back, and what an update makes of it,  *)
(* in MongoDB (MongoTransform builds documents and update operators) and   *)
(* in PostgreSQL (createObject and updateObjectsByQuery write SQL, with    *)
(* array functions of the project's own).                                  *)
(*                                                                         *)
(* A value is a pair of a type and a content: <<"Number", 1>>,             *)
(* <<"Array", seq of values>>, <<"Object", function from keys>>,           *)
(* <<"Pointer", <<class, id>>>>, <<"GeoPoint", <<lat, lon>>>>, ...;        *)
(* <<"Null", 0>> is null and None no value.  An update is a function from  *)
(* paths (sequences of keys) to values or operators, <<"Increment", n>>,   *)
(* <<"Add", seq>>, <<"AddUnique", seq>>, <<"Remove", seq>>,                *)
(* <<"Delete", 0>>.                                                        *)
(***************************************************************************)
EXTENDS Integers, Sequences, FiniteSets, SequencesExt

CONSTANTS
  Type,     \* the class's schema: fields to types
  Target,   \* the class each pointer and relation field is for
  Provider, \* the fields _auth_data_..., to the providers they are of
  None

Null == <<"Null", 0>>
Failed == <<"Failed", 0>>
Operators == {"Increment", "Add", "AddUnique", "Remove", "Delete"}
IsOperator(v) == v[1] \in Operators
Empty == <<"Object", <<>> >>

Put(f, k, v) == [x \in DOMAIN f \cup {k} |-> IF x = k THEN v ELSE f[x]]
Drop(f, ks) == [x \in DOMAIN f \ ks |-> f[x]]
Get(f, k) == IF k \in DOMAIN f THEN f[k] ELSE None

\* The value at a path below a function of keys, and that function with another one there.
RECURSIVE At(_, _), PutAt(_, _, _)
At(f, path) ==
  LET v == Get(f, Head(path)) IN
  IF Len(path) = 1 THEN v ELSE IF v = None \/ v[1] # "Object" THEN None ELSE At(v[2], Tail(path))
PutAt(f, path, v) ==
  IF Len(path) = 1 THEN (IF v = None THEN Drop(f, {path[1]}) ELSE Put(f, path[1], v))
  ELSE LET below == Get(f, Head(path)) IN
       Put(f, Head(path), <<"Object", PutAt(IF below \in {None, Null} THEN <<>> ELSE below[2], Tail(path), v)>>)

\* Whether a value can be put there: what is on the way is not there, or an object.
RECURSIVE Open(_, _)
Open(f, path) ==
  Len(path) = 1 \/ LET v == Get(f, Head(path)) IN v = None \/ (v[1] = "Object" /\ Open(v[2], Tail(path)))

Uniques(s) == FoldLeft(LAMBDA t, x : IF x \in ToSet(t) THEN t ELSE Append(t, x), <<>>, s)
Minus(s, xs) == SelectSeq(s, LAMBDA x : x \notin ToSet(xs))

-----------------------------------------------------------------------------
\* What both engines refuse, and what they make of a polygon: its points, the first again.
Closed(points) == IF points[1] = points[Len(points)] THEN points ELSE Append(points, points[1])
BadPolygon(v) == v[1] = "Polygon" /\ (v[2] = <<>> \/ Cardinality(ToSet(v[2])) < 3)
Flipped(point) == <<point[2], point[1]>>

\* flattenUpdateOperatorsForCreate: a new object has no values for operators to change.
FlattenForCreate(update) ==
  [f \in {g \in DOMAIN update : update[g][1] # "Delete"} |->
     CASE update[f][1] = "Increment" -> <<"Number", update[f][2]>>
       [] update[f][1] \in {"Add", "AddUnique"} -> <<"Array", update[f][2]>>
       [] update[f][1] = "Remove" -> <<"Array", <<>> >>
       [] OTHER -> update[f]]

\* transformAuthData: each provider of a user becomes a field; null takes it away.
TransformAuthData(object) ==
  IF "authData" \notin DOMAIN object THEN object
  ELSE LET data == object["authData"][2] IN
    [f \in (DOMAIN object \ {"authData"}) \cup {g \in DOMAIN Provider : Provider[g] \in DOMAIN data} |->
       IF f \in DOMAIN object THEN object[f]
       ELSE IF data[Provider[f]] = Null THEN <<"Delete", 0>> ELSE data[Provider[f]]]

-----------------------------------------------------------------------------
\* MongoDB: columns are pairs of a prefix and a field.
Plain(f) == <<"", f>>
PointerColumn(f) == <<"_p_", f>>
AuthColumn(p) == <<"_auth_data_", p>>

Interior(v) ==
  CASE v[1] = "Date" -> <<"BsonDate", v[2]>> [] v[1] = "Bytes" -> <<"Binary", v[2]>> [] OTHER -> v


MongoValue(v) ==
  CASE v[1] = "Pointer" -> <<"PointerString", v[2]>>
    [] v[1] = "GeoPoint" -> <<"List", Flipped(v[2])>>
    [] v[1] = "Polygon" -> <<"GeoJson", [n \in DOMAIN Closed(v[2]) |-> Flipped(Closed(v[2])[n])]>>
    [] v[1] = "File" -> <<"String", v[2]>>
    [] v[1] = "Array" -> <<"Array", [n \in DOMAIN v[2] |-> Interior(v[2][n])]>>
    [] v[1] = "Object" -> <<"Object", [k \in DOMAIN v[2] |-> Interior(v[2][k])]>>
    [] OTHER -> Interior(v)

\* On create a null pointer has the field's own name; relations have no column.
MongoColumn(f, v) ==
  IF f \in DOMAIN Provider THEN AuthColumn(Provider[f])
  ELSE IF v # Null /\ Type[f] = "Pointer" THEN PointerColumn(f) ELSE Plain(f)
MongoCreate(object) ==
  LET stored == {f \in DOMAIN object : object[f][1] # "Relation"}
      Field(c) == CHOOSE f \in stored : MongoColumn(f, object[f]) = c
  IN
  IF \E f \in stored : BadPolygon(object[f]) THEN Failed
  ELSE <<"Document", [c \in {MongoColumn(f, object[f]) : f \in stored} |-> MongoValue(object[Field(c)])]>>

RECURSIVE NestedRead(_)
NestedRead(v) ==
  CASE v[1] = "BsonDate" -> <<"Date", v[2]>>
    [] v[1] = "Binary" -> <<"Bytes", v[2]>>
    [] v[1] = "Array" -> <<"Array", [n \in DOMAIN v[2] |-> NestedRead(v[2][n])]>>
    [] v[1] = "Object" -> <<"Object", [k \in DOMAIN v[2] |-> NestedRead(v[2][k])]>>
    [] OTHER -> v

MongoReadColumn(f, v) ==
  CASE Type[f] = "GeoPoint" /\ v[1] = "List" -> <<"GeoPoint", Flipped(v[2])>>
    [] Type[f] = "Polygon" /\ v[1] = "GeoJson" -> <<"Polygon", [n \in DOMAIN v[2] |-> Flipped(v[2][n])]>>
    [] Type[f] = "File" /\ v[1] = "String" -> <<"File", v[2]>>
    [] OTHER -> NestedRead(v)

\* A pointer in a column that is not for pointers is dropped; one to another class than the
\* schema has, and a null where a polygon should be, make the reading fail.
Relations == [f \in {g \in DOMAIN Type : Type[g] = "Relation"} |-> <<"Relation", Target[f]>>]
MongoRead(document) ==
  LET doc == document[2]
      pointers == {f \in DOMAIN Type : Type[f] = "Pointer" /\ PointerColumn(f) \in DOMAIN doc
                                       /\ doc[PointerColumn(f)] # Null}
      plain == {f \in DOMAIN Type : Plain(f) \in DOMAIN doc}
      providers == {c[2] : c \in {d \in DOMAIN doc : d[1] = "_auth_data_"}}
      fields == pointers \cup plain \cup DOMAIN Relations \cup (IF providers = {} THEN {} ELSE {"authData"})
  IN
  IF document = Failed \/ (\E f \in plain : Type[f] = "Polygon" /\ doc[Plain(f)] = Null)
     \/ (\E f \in pointers : doc[PointerColumn(f)][2][1] # Target[f])
  THEN Failed
  ELSE <<"Object", [f \in fields |->
    CASE f = "authData" -> <<"Object", [p \in providers |-> NestedRead(doc[AuthColumn(p)])]>>
      [] f \in DOMAIN Relations -> Relations[f]
      [] f \in pointers -> <<"Pointer", doc[PointerColumn(f)][2]>>
      [] OTHER -> MongoReadColumn(f, doc[Plain(f)])]>>

\* The path of an update in the document.  A pointer that the schema has no field for,
\* below an object, gets a column of its own, which is dropped by every reading.
MongoPath(path, v) ==
  LET f == Head(path) IN
  IF f \in DOMAIN Provider THEN <<AuthColumn(Provider[f])>>
  ELSE IF (Len(path) = 1 /\ Type[f] = "Pointer") \/ v[1] = "Pointer" THEN <<PointerColumn(f)>> \o Tail(path)
  ELSE <<Plain(f)>> \o Tail(path)

\* $set, $unset, $inc, $push, $addToSet and $pullAll.
MongoApply(document, path, v) ==
  LET doc == document[2]
      old == At(doc, path)
      added == [n \in DOMAIN v[2] |-> Interior(v[2][n])]
      elements == IF old = None THEN <<>> ELSE old[2]
      NotThere == Open(doc, path) /\ old = None
      With(new) == <<"Document", PutAt(doc, path, new)>>
  IN
  CASE v[1] \in {"Delete", "Remove"} /\ old = None -> document
    [] v[1] = "Delete" -> With(None)
    [] v[1] = "Increment" ->
         IF NotThere THEN With(<<"Number", v[2]>>)
         ELSE IF old # None /\ old[1] = "Number" THEN With(<<"Number", old[2] + v[2]>>) ELSE Failed
    [] v[1] \in {"Add", "AddUnique", "Remove"} ->
         IF ~ (NotThere \/ (old # None /\ old[1] = "Array")) THEN Failed
         ELSE With(<<"Array", CASE v[1] = "Add" -> elements \o added
                                [] v[1] = "AddUnique" -> elements \o Uniques(Minus(added, elements))
                                [] OTHER -> Minus(elements, added)>>)
    [] OTHER -> IF ~ Open(doc, path) THEN Failed
                ELSE With(IF Len(path) > 1 /\ v[1] \notin {"Array", "Object"} THEN v ELSE MongoValue(v))

MongoUpdate(document, update) ==
  LET paths == {p \in DOMAIN update : update[p][1] # "Relation"} IN
  IF document = Failed \/ \E p \in paths : BadPolygon(update[p]) THEN Failed
  ELSE FoldSeq(LAMBDA p, doc : IF doc = Failed THEN doc ELSE MongoApply(doc, MongoPath(p, update[p]), update[p]),
               document, SetToSeq(paths))

\* upsertOneObject: the update of what is not there starts from nothing.
MongoUpsert(document, update) == MongoUpdate(IF document = None THEN <<"Document", <<>> >> ELSE document, update)

-----------------------------------------------------------------------------
\* PostgreSQL: one column a field; of a pointer only the objectId; null is no value.
Column(f, v) ==
  CASE v[1] = "Pointer" -> <<"Text", v[2][2]>>
    [] v[1] = "File" -> <<"Text", v[2]>>
    [] v[1] = "GeoPoint" -> <<"Point", Flipped(v[2])>>
    [] v[1] = "Polygon" -> <<"Path", [n \in DOMAIN Closed(v[2]) |-> Flipped(Closed(v[2])[n])]>>
    [] OTHER -> v

Providers(fields) == {Provider[f] : f \in fields \cap DOMAIN Provider}
FieldOf(p) == CHOOSE f \in DOMAIN Provider : Provider[f] = p

PostgresCreate(object) ==
  LET given == {f \in DOMAIN object : object[f] # Null /\ object[f][1] # "Relation"}
      providers == Providers(given)
      stored == given \ DOMAIN Provider
  IN
  IF \E f \in stored : BadPolygon(object[f]) THEN Failed
  ELSE <<"Row", [f \in stored \cup (IF providers = {} THEN {} ELSE {"authData"}) |->
    IF f = "authData" THEN <<"Object", [p \in providers |-> object[FieldOf(p)]]>> ELSE Column(f, object[f])]>>

PostgresRead(row) ==
  IF row = Failed THEN Failed
  ELSE <<"Object", [f \in DOMAIN row[2] \cup DOMAIN Relations |->
    LET v == row[2][f] IN
    CASE f \in DOMAIN Relations -> Relations[f]
      [] f = "authData" -> v
      [] Type[f] = "Pointer" -> <<"Pointer", <<Target[f], v[2]>> >>
      [] Type[f] = "File" -> <<"File", v[2]>>
      [] Type[f] = "GeoPoint" -> <<"GeoPoint", Flipped(v[2])>>
      [] Type[f] = "Polygon" -> <<"Polygon", [n \in DOMAIN v[2] |-> Flipped(v[2][n])]>>
      [] OTHER -> v]>>

\* handleDotFields: what a path below a field sets is made an object, in which a deletion
\* is nothing and any other operator a value as it stands.
HandleDotFields(update, f) ==
  FoldSeq(LAMBDA p, o : PutAt(IF Len(p) > 2 /\ At(o, Tail(Front(p))) = None THEN PutAt(o, Tail(Front(p)), Empty) ELSE o,
                              Tail(p), IF update[p][1] = "Delete" THEN None ELSE update[p]),
          <<>>, SetToSeq({p \in DOMAIN update : Len(p) > 1 /\ p[1] = f}))

\* json_object_set_key is STRICT: with a null it gives null, and the next starts afresh.
SetProviders(v, providers, update) ==
  FoldSeq(LAMBDA p, data :
            IF update[<<FieldOf(p)>>][1] = "Delete" THEN None
            ELSE <<"Object", Put(IF data = None THEN <<>> ELSE data[2], p, update[<<FieldOf(p)>>])>>,
          v, SetToSeq(providers))

\* The merge with an object: deletions and increments one level down, the rest as it is.
\* Mutant: the object is replaced.
Merge_Override(v, update, f) == <<"Object", HandleDotFields(update, f)>>

Merge(v, update, f) ==
  LET old == IF v = None THEN <<>> ELSE v[2]
      Keys(op) == {p[2] : p \in {q \in DOMAIN update : Len(q) = 2 /\ q[1] = f /\ update[q][1] = op}}
      rest == Drop(HandleDotFields(update, f), Keys("Increment"))
      left == Drop(old, Keys("Delete"))
      Incremented(k) == (IF k \in DOMAIN old THEN old[k][2] ELSE 0) + update[<<f, k>>][2]
  IN
  IF \E k \in Keys("Increment") : k \in DOMAIN old /\ old[k][1] \notin {"Number", "Null"} THEN Failed
  ELSE <<"Object", [k \in DOMAIN left \cup Keys("Increment") \cup DOMAIN rest |->
         IF k \in DOMAIN rest THEN rest[k]
         ELSE IF k \in Keys("Increment") THEN <<"Number", Incremented(k)>> ELSE left[k]]>>

\* The new value of a column: array_add, array_add_unique and array_remove work on the
\* different elements of what there is, in an order of their own.
Assign(f, old, v) ==
  LET elements == IF old = None THEN <<>> ELSE old[2]
      different == SetToSeq(ToSet(elements))
  IN
  CASE v = Null \/ v[1] = "Delete" -> None
    [] v[1] = "Increment" -> <<"Number", (IF old = None THEN 0 ELSE old[2]) + v[2]>>
    [] v[1] = "Add" -> <<"Array", different \o v[2]>>
    [] v[1] = "AddUnique" -> <<"Array", SetToSeq(ToSet(elements) \cup ToSet(v[2]))>>
    [] v[1] = "Remove" -> <<"Array", Minus(elements, v[2])>>
    [] v[1] = "Bytes" -> Failed
    [] OTHER -> Column(f, v)

PostgresUpdate(row, update) ==
  LET direct == {p[1] : p \in {q \in DOMAIN update : Len(q) = 1 /\ update[q][1] # "Relation"}} \ DOMAIN Provider
      dotted == {p[1] : p \in {q \in DOMAIN update : Len(q) > 1}}
      providers == Providers({p[1] : p \in DOMAIN update})
      old(f) == Get(row[2], f)
      New(f) == IF f \in dotted THEN Merge(old(f), update, f)
                ELSE IF f \in direct THEN Assign(f, old(f), update[<<f>>])
                ELSE IF f = "authData" /\ providers # {} THEN SetProviders(old(f), providers, update) ELSE old(f)
      touched == DOMAIN row[2] \cup direct \cup dotted \cup (IF providers = {} THEN {} ELSE {"authData"})
  IN
  IF row = Failed \/ (\E p \in DOMAIN update : BadPolygon(update[p])) \/ (\E f \in touched : New(f) = Failed)
  THEN Failed
  ELSE <<"Row", [f \in {g \in touched : New(g) # None} |-> New(f)]>>

PostgresUpsert(row, update) ==
  IF row # None THEN PostgresUpdate(row, update)
  ELSE LET roots == {p[1] : p \in DOMAIN update}
           object == [f \in roots |-> IF <<f>> \in DOMAIN update THEN update[<<f>>] ELSE <<"Object", HandleDotFields(update, f)>>]
       IN PostgresCreate(object)

-----------------------------------------------------------------------------
\* sanitizeDatabaseResult: an update answers with what its operators gave; a path into an
\* object that is not there throws.
Answers(result, update) ==
  LET paths == {p \in DOMAIN update : update[p][1] \in {"Increment", "Add", "AddUnique", "Remove"}} IN
  IF \E p \in paths : \E n \in 1..Len(p) - 1 : At(result[2], SubSeq(p, 1, n)) = None THEN Failed
  ELSE <<"Object", [p \in {q \in paths : At(result[2], q) # None} |-> At(result[2], p)]>>

-----------------------------------------------------------------------------
\* What writing means, whatever the engine; the order of an array is left aside.
RECURSIVE Content(_)
Content(v) ==
  CASE v[1] = "Array" ->
         LET es == {Content(x) : x \in ToSet(v[2])} IN
         <<"Array", [e \in es |-> Cardinality({n \in DOMAIN v[2] : Content(v[2][n]) = e})]>>
    [] v[1] = "Object" -> <<"Object", [k \in {j \in DOMAIN v[2] : v[2][j] # Null} |-> Content(v[2][k])]>>
    [] v[1] = "Polygon" -> <<"Polygon", Closed(v[2])>>
    [] OTHER -> v

Applied(f, path, v) ==
  LET old == At(f, path)
      elements == IF old = None \/ old = Null THEN <<>> ELSE old[2]
  IN
  CASE v[1] = "Delete" -> IF old = None THEN f ELSE PutAt(f, path, None)
    [] v[1] = "Increment" -> PutAt(f, path, <<"Number", v[2] + (IF old = None \/ old = Null THEN 0 ELSE old[2])>>)
    [] v[1] = "Add" -> PutAt(f, path, <<"Array", elements \o v[2]>>)
    [] v[1] = "AddUnique" -> PutAt(f, path, <<"Array", elements \o Uniques(Minus(v[2], elements))>>)
    [] v[1] = "Remove" -> PutAt(f, path, <<"Array", Minus(elements, v[2])>>)
    [] v[1] = "Relation" -> f
    [] OTHER -> PutAt(f, path, v)

\* The object, with its relations, and without an authData that has no provider.
Whole(object) ==
  LET gone == IF "authData" \in DOMAIN object /\ object["authData"] = Empty THEN {"authData"} ELSE {} IN
  <<"Object", [f \in (DOMAIN object \cup DOMAIN Relations) \ gone |->
     IF f \in DOMAIN Relations THEN Relations[f] ELSE object[f]]>>
PathOf(path) == IF path[1] \in DOMAIN Provider THEN <<"authData", Provider[path[1]]>> ELSE path
Written(object, update) ==
  Whole(FoldSeq(LAMBDA p, f : Applied(f, PathOf(p), update[p]), object, SetToSeq(DOMAIN update)))

\* An object that can be stored, and an update of values of the type there is.
RECURSIVE Passable(_, _)
Passable(f, path) ==
  Len(path) = 1 \/ LET v == Get(f, Head(path)) IN v \in {None, Null} \/ (v[1] = "Object" /\ Passable(v[2], Tail(path)))
WellTyped(object, update) ==
  /\ \A f \in DOMAIN object : ~ BadPolygon(object[f])
  /\ \A p \in DOMAIN update :
       LET old == At(object, PathOf(p)) IN
       /\ ~ BadPolygon(update[p]) /\ Passable(object, PathOf(p))
       /\ old \in {None, Null} \/ old[1] = "Number" \/ update[p][1] # "Increment"
       /\ old \in {None, Null} \/ old[1] = "Array" \/ update[p][1] \notin {"Add", "AddUnique", "Remove"}

\* Where MongoDB does what is meant: no null for a polygon; no operator on a null, nor a
\* removal from what is not there, nor a path through a null; no pointer below a field.
MongoExact(object, update) ==
  /\ \A f \in DOMAIN object : object[f] = Null => Type[f] # "Polygon"
  /\ \A p \in DOMAIN update :
       LET v == update[p]
           old == At(object, PathOf(p))
       IN
       /\ Open(object, PathOf(p))
       /\ v = Null /\ Len(p) = 1 => Type[p[1]] # "Polygon"
       /\ v[1] \in {"Increment", "Add", "AddUnique"} => old # Null
       /\ v[1] = "Remove" => old \notin {None, Null}
       /\ v[1] = "Pointer" => Len(p) = 1

\* Where PostgreSQL does: no Bytes changed; below a field only values, increments and
\* deletions one level down, or new objects; nothing added to an array that has an element
\* twice; and a provider taken from a user only with all the others.
PostgresExact(object, update) ==
  LET Deleted == {Provider[f] : f \in {g \in DOMAIN Provider : <<g>> \in DOMAIN update /\ update[<<g>>][1] = "Delete"}} IN
  /\ Deleted # {} => "authData" \in DOMAIN object /\ DOMAIN object["authData"][2] = Deleted
                      /\ Providers({p[1] : p \in DOMAIN update}) = Deleted
  /\ \A p \in DOMAIN update :
       LET v == update[p]
           old == At(object, PathOf(p))
       IN
       /\ v[1] # "Bytes" \/ Len(p) > 1
       /\ v[1] \in {"Add", "AddUnique"} => old \in {None, Null} \/ Len(old[2]) = Cardinality(ToSet(old[2]))
       /\ v[1] \in {"Add", "AddUnique", "Remove"} => Len(p) = 1
       /\ v[1] \in {"Increment", "Delete"} => Len(p) <= 2
       /\ v[1] = "Delete" /\ Len(p) = 2 => At(object, <<p[1]>>) \notin {None, Null}
       /\ Len(p) > 2 => At(object, <<p[1], p[2]>>) \in {None, Null}
=============================================================================
