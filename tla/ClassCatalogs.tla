---------------------------- MODULE ClassCatalogs ----------------------------
(***************************************************************************)
(* Schema changes, one at a time, as the two storage adapters carry them   *)
(* out: what the _SCHEMA row of a class says, and what the database has    *)
(* for it.  Both get the same requests, PostgreSQL in transactions and     *)
(* MongoDB call by call; either may be cut short between two steps,        *)
(* MongoDB also between two calls of a step.                               *)
(***************************************************************************)
EXTENDS Naturals, SequencesExt

CONSTANTS
  Fields,      \* the fields of the class, next to the default columns
  IndexNames,  \* in the order requests name them
  KeyOf,       \* the field an index is on
  Loads,       \* what is asked in a behaviour: see Requests
  None

VARIABLES
  load,
  mongo, postgres,  \* the class in each: see Absent
  apart,            \* why they may differ: None, "cut", or what only one of them refuses
  requests          \* how many were served

vars == <<load, mongo, postgres, apart, requests>>

Absent ==
  [row |-> None,      \* the row of _SCHEMA
   columns |-> [f \in Fields |-> None],  \* of the table; PostgreSQL only
   joins |-> {},      \* the join tables; PostgreSQL only
   indexes |-> {},    \* the indexes there are
   excused |-> {}]    \* history: indexes lost without the row being told

Type(t, target, options) == [type |-> t, target |-> target, options |-> options]
Names == {IndexNames[i] : i \in DOMAIN IndexNames}
FieldsIn(fields) == {f \in Fields : fields[f] # None}
OfType(fields, t) == {f \in FieldsIn(fields) : fields[f].type = t}
Id == "_id_"
Failed(s) == [s |-> s, ok |-> FALSE]
Done(s) == [s |-> s, ok |-> TRUE]

-----------------------------------------------------------------------------
\* MongoSchemaCollection: a type is a string, with the target inside; the options of a field
\* are kept in _metadata, beside the permissions and the indexes.
MongoNames ==
  [Number |-> "number", String |-> "string", Boolean |-> "boolean", Date |-> "date", Object |-> "object",
   Array |-> "array", GeoPoint |-> "geopoint", File |-> "file", Bytes |-> "bytes", Polygon |-> "polygon"]
MongoType(t) ==
  CASE t.type = "Pointer" -> <<"*", t.target>>
    [] t.type = "Relation" -> <<"relation<", t.target>>
    [] OTHER -> <<MongoNames[t.type], None>>
ParseType(m) ==
  CASE m[1] = "*" -> [type |-> "Pointer", target |-> m[2]]
    [] m[1] = "relation<" -> [type |-> "Relation", target |-> m[2]]
    [] m[1] = "map" -> [type |-> "Object", target |-> None]
    [] OTHER -> [type |-> CHOOSE n \in DOMAIN MongoNames : MongoNames[n] = m[1], target |-> None]

MongoRow(fields, clp, indexes) ==
  [fields |-> [f \in Fields |-> IF fields[f] = None THEN None ELSE MongoType(fields[f])],
   options |-> [f \in Fields |-> IF fields[f] = None THEN {} ELSE fields[f].options],
   clp |-> clp, indexes |-> indexes]

\* The schema as both adapters give it: without permissions everything is allowed.
Permissions(clp) == IF clp = None THEN "open" ELSE clp
MongoSchema(row) ==
  IF row = None THEN None
  ELSE [fields |-> [f \in Fields |->
          IF row.fields[f] = None THEN None
          ELSE Type(ParseType(row.fields[f]).type, ParseType(row.fields[f]).target, row.options[f])],
        clp |-> Permissions(row.clp), indexes |-> row.indexes]
PostgresSchema(row) == IF row = None THEN None ELSE [row EXCEPT !.clp = Permissions(@)]

-----------------------------------------------------------------------------
\* What setIndexesWithSchemaFormat makes of a request: names are looked at in their order up
\* to the first that is refused.
NewIndexes(asked) == {n \in Names : asked[n] = "add"}
OldIndexes(asked) == {n \in Names : asked[n] = "delete"}
Existing(indexes) == IF indexes = {} THEN {Id} ELSE indexes
RefusedIndex(n, asked, existing, fields) ==
  \/ asked[n] = "add" /\ (n \in existing \/ fields[KeyOf[n]] = None)
  \/ asked[n] = "delete" /\ n \notin existing
FirstRefused(asked, existing, fields) ==
  SelectInSeq(IndexNames, LAMBDA n : RefusedIndex(n, asked, existing, fields))
Recorded(asked, existing) == (existing \ OldIndexes(asked)) \cup NewIndexes(asked)

\* MongoDB: an index is dropped as it is looked at, and the new ones are built, all side by
\* side; the row is written when all that is done.
Touched(asked, existing, fields) ==
  LET stop == FirstRefused(asked, existing, fields) IN
  [refused |-> stop # 0, built |-> IF stop = 0 THEN NewIndexes(asked) ELSE {},
   dropped |-> {IndexNames[i] : i \in 1..(IF stop = 0 THEN Len(IndexNames) ELSE stop - 1)} \cap OldIndexes(asked)]
Partly(s, dropped, built) == [s EXCEPT !.indexes = (@ \ dropped) \cup built, !.excused = @ \cup dropped]

MongoSetIndexes(s, asked, indexes, fields) ==
  LET existing == Existing(indexes)
      t == Touched(asked, existing, fields)
      after == [s EXCEPT !.indexes = (@ \ t.dropped) \cup t.built]
  IN IF t.refused \/ ~t.dropped \subseteq s.indexes THEN Failed(Partly(s, t.dropped, t.built))
     ELSE IF s.row = None THEN Done(after)
     ELSE Done([after EXCEPT !.row.indexes = Recorded(asked, existing)])

\* PostgreSQL: in one transaction; a relation has no column.
PostgresSetIndexes(s, asked, indexes, fields) ==
  LET existing == Existing(indexes)
      added == NewIndexes(asked)
  IN IF \/ FirstRefused(asked, existing, fields) # 0
        \/ \E n \in added : s.columns[KeyOf[n]] = None
        \/ ~OldIndexes(asked) \subseteq s.indexes
     THEN Failed(s)
     ELSE Done([s EXCEPT !.indexes = (@ \ OldIndexes(asked)) \cup added,
                         !.row.indexes = Recorded(asked, existing)])

\* The indexes are built before the row that lists them is inserted.
MongoCreateClass(s, fields, clp, asked) ==
  LET set == IF NewIndexes(asked) \cup OldIndexes(asked) = {} THEN Done(s) ELSE MongoSetIndexes(s, asked, {}, fields)
  IN IF ~set.ok THEN set
     ELSE Done([set.s EXCEPT !.row = MongoRow(fields, clp, NewIndexes(asked))])

PostgresTypes ==
  [Number |-> "double precision", String |-> "text", Boolean |-> "boolean", Date |-> "timestamp with time zone",
   Object |-> "jsonb", Array |-> "jsonb", GeoPoint |-> "point", File |-> "text", Bytes |-> "jsonb",
   Polygon |-> "polygon", Pointer |-> "text"]
ColumnsFor(fields) ==
  [f \in Fields |-> IF f \in FieldsIn(fields) \ OfType(fields, "Relation") THEN PostgresTypes[fields[f].type] ELSE None]

PostgresCreateClass(s, fields, clp, asked) ==
  LET made == [s EXCEPT !.row = [fields |-> fields, clp |-> clp, indexes |-> {}],
                        !.columns = ColumnsFor(fields),
                        !.joins = @ \cup OfType(fields, "Relation")]
      set == PostgresSetIndexes(made, asked, {}, fields)
  IN IF NewIndexes(asked) \cup OldIndexes(asked) = {} THEN Done(made)
     ELSE IF set.ok THEN set ELSE Failed(s)

-----------------------------------------------------------------------------
\* addFieldIfNotExists: MongoDB has one GeoPoint in a class, and an upsert that leaves a field
\* alone which is there; options are set if there are any.
MongoAddField(s, f, t) ==
  LET fields == MongoSchema(s.row).fields IN
  IF fields[f] # None \/ (t.type = "GeoPoint" /\ OfType(fields, "GeoPoint") # {}) THEN Failed(s)
  ELSE Done([s EXCEPT !.row.fields[f] = MongoType(t),
                      !.row.options[f] = IF t.options = {} THEN @ ELSE t.options])

PostgresAddField(s, f, t) ==
  IF s.row.fields[f] # None THEN Failed(s)
  ELSE Done([s EXCEPT !.row.fields[f] = t,
                      !.columns[f] = IF t.type = "Relation" THEN @ ELSE PostgresTypes[t.type],
                      !.joins = IF t.type = "Relation" THEN @ \cup {f} ELSE @])

\* Mutant: the options of the fields stay.
MongoDeleteFields_OptionsStay(s, gone) ==
  Done([s EXCEPT !.row.fields = [f \in Fields |-> IF f \in gone THEN None ELSE @[f]]])

\* deleteFields: MongoDB takes the fields and their options out of the row.
MongoDeleteFields(s, gone) ==
  Done([s EXCEPT !.row.fields = [f \in Fields |-> IF f \in gone THEN None ELSE @[f]],
                 !.row.options = [f \in Fields |-> IF f \in gone THEN {} ELSE @[f]]])

\* PostgreSQL writes the schema it was given, and an index goes with its column.
PostgresDeleteFields(s, gone) ==
  LET lost == {n \in s.indexes : KeyOf[n] \in gone} IN
  Done([s EXCEPT !.row = [PostgresSchema(@) EXCEPT !.fields = [f \in Fields |-> IF f \in gone THEN None ELSE @[f]]],
                 !.columns = [f \in Fields |-> IF f \in gone THEN None ELSE @[f]],
                 !.indexes = @ \ lost, !.excused = @ \cup lost])

SetPermissions(s, clp) == Done([s EXCEPT !.row.clp = clp])

\* deleteClass, for a class and for the join table of a relation.  MongoDB drops the collection
\* with its indexes, then the row; PostgreSQL in one transaction.
DropCollection(s) == [s EXCEPT !.indexes = {}, !.excused = @ \cup s.indexes]
DeleteRow(s) == [s EXCEPT !.row = None, !.excused = {}]
MongoDeleteClass(s) == Done(DeleteRow(DropCollection(s)))
PostgresDeleteClass(s) == Done([s EXCEPT !.row = None, !.columns = [f \in Fields |-> None], !.indexes = {}, !.excused = {}])
DropJoins(s, gone) == Done([s EXCEPT !.joins = @ \ gone])

-----------------------------------------------------------------------------
\* A step of a request at an adapter.
MongoStep(s, step) ==
  CASE step.do = "create" -> MongoCreateClass(s, step.fields, step.clp, step.asked)
    [] step.do = "add" -> MongoAddField(s, step.field, step.type)
    [] step.do = "delete" -> MongoDeleteFields(s, step.gone)
    [] step.do = "permit" -> SetPermissions(s, step.clp)
    [] step.do = "index" -> MongoSetIndexes(s, step.asked, step.indexes, step.fields)
    [] step.do = "drop" -> MongoDeleteClass(s)
    [] step.do = "joins" -> Done(s)
PostgresStep(s, step) ==
  CASE step.do = "create" -> PostgresCreateClass(s, step.fields, step.clp, step.asked)
    [] step.do = "add" -> PostgresAddField(s, step.field, step.type)
    [] step.do = "delete" -> PostgresDeleteFields(s, step.gone)
    [] step.do = "permit" -> SetPermissions(s, step.clp)
    [] step.do = "index" -> PostgresSetIndexes(s, step.asked, step.indexes, step.fields)
    [] step.do = "drop" -> PostgresDeleteClass(s)
    [] step.do = "joins" -> DropJoins(s, step.gone)

\* Where MongoDB may be between two calls of a step: some indexes dropped, the new ones built or
\* not and the row not written; the collection dropped and its row still there.
Within(s, step) ==
  CASE step.do \in {"create", "index"} ->
         LET t == Touched(step.asked, Existing(IF step.do = "create" THEN {} ELSE step.indexes), step.fields) IN
         {Partly(s, dropped, built) : dropped \in SUBSET t.dropped, built \in {{}, t.built}}
    [] step.do = "drop" -> {DropCollection(s)}
    [] OTHER -> {}

Run(Step(_, _), s, steps) ==
  FoldLeft(LAMBDA r, step : IF r.ok THEN Step(r.s, step) ELSE r, Done(s), steps)

-----------------------------------------------------------------------------
\* The requests: a class with its fields, permissions and indexes; fields added and deleted,
\* permissions and indexes set; a write that adds a field; the class deleted.
NoIndexes == [n \in Names |-> None]
NoFields == [f \in Fields |-> None]
Gone(asked) == OfType(asked, "Delete")
Added(asked) == FieldsIn(asked) \ Gone(asked)

\* buildMergedSchemaObject.
Merged(fields, asked) ==
  [f \in Fields |-> IF f \in Gone(asked) THEN None ELSE IF f \in Added(asked) THEN asked[f] ELSE fields[f]]

\* validateSchemaData: one GeoPoint; a relation is never required; permissions name fields.
ValidateCLP(clp, fields) == clp \in Fields => fields[clp] # None
Valid(fields, clp, new) ==
  /\ Cardinality(OfType(fields, "GeoPoint")) <= 1
  /\ \A f \in new : fields[f].type = "Relation" => "required" \notin fields[f].options
  /\ ValidateCLP(clp, fields)

\* addClassIfNotExists.
AddClass(schema, r) ==
  IF schema # None \/ ~Valid(r.fields, r.clp, FieldsIn(r.fields)) THEN None
  ELSE <<[do |-> "create", fields |-> r.fields, clp |-> r.clp, asked |-> r.indexes]>>

\* updateClass: deletions, additions, permissions, indexes, each with the schema read first.
UpdateClass(schema, r) ==
  LET merged == Merged(schema.fields, r.fields)
      joins == OfType(schema.fields, "Relation") \cap Gone(r.fields)
  IN
  IF \/ schema = None
     \/ \E f \in Fields : r.fields[f] # None /\ (f \in Gone(r.fields)) = (schema.fields[f] = None)
     \/ ~Valid(merged, r.clp, Added(r.fields))
  THEN None
  ELSE (IF Gone(r.fields) = {} THEN <<>> ELSE <<[do |-> "delete", gone |-> Gone(r.fields)], [do |-> "joins", gone |-> joins]>>)
    \o [i \in 1..Cardinality(Added(r.fields)) |->
          LET f == SetToSeq(Added(r.fields))[i] IN [do |-> "add", field |-> f, type |-> r.fields[f]]]
    \o (IF r.clp = None THEN <<>> ELSE <<[do |-> "permit", clp |-> r.clp]>>)
    \o (IF r.indexes = NoIndexes THEN <<>>
        ELSE <<[do |-> "index", asked |-> r.indexes, indexes |-> schema.indexes, fields |-> merged]>>)

\* A write of a field of a type: the class and the field are added if they are not there.
WriteField(schema, r) ==
  LET add == <<[do |-> "add", field |-> r.field, type |-> r.type]>> IN
  IF schema = None THEN <<[do |-> "create", fields |-> NoFields, clp |-> None, asked |-> NoIndexes]>> \o add
  ELSE IF schema.fields[r.field] = None THEN add
  ELSE IF schema.fields[r.field].type = r.type.type /\ schema.fields[r.field].target = r.type.target THEN <<>>
  ELSE None

\* deleteSchema of an empty class.
DeleteSchema(schema, r) ==
  IF schema = None THEN None
  ELSE <<[do |-> "drop"], [do |-> "joins", gone |-> OfType(schema.fields, "Relation")]>>

\* The steps of a request on a schema, None if it is refused before the first.
Steps(schema, r) ==
  CASE r.op = "create" -> AddClass(schema, r)
    [] r.op = "update" -> UpdateClass(schema, r)
    [] r.op = "write" -> WriteField(schema, r)
    [] r.op = "delete" -> DeleteSchema(schema, r)

-----------------------------------------------------------------------------
Init ==
  /\ load \in Loads
  /\ mongo = Absent /\ postgres = Absent
  /\ apart = None /\ requests = 0

Outcome(Step(_, _), s, steps) == IF steps = None THEN Failed(s) ELSE Run(Step, s, steps)

\* What one of them refuses and the other does not.
Reason(r, m, p) ==
  CASE m.ok = p.ok -> None
    [] ~m.ok /\ r.op \in {"write", "update"} /\ Cardinality(OfType(p.s.row.fields, "GeoPoint")) > 1 -> "geopoint"
    [] ~p.ok /\ r.op \in {"create", "update"} /\ (\E n \in NewIndexes(r.indexes) : postgres.columns[KeyOf[n]] = None) -> "relation"
    [] r.op = "update" /\ (mongo.excused \cup p.s.excused) \cap OldIndexes(r.indexes) # {} -> "lost"
    [] OTHER -> "unexplained"

\* A request is served by both to its end, or to its refusal.
Serve(r) ==
  LET m == Outcome(MongoStep, mongo, Steps(MongoSchema(mongo.row), r))
      p == Outcome(PostgresStep, postgres, Steps(PostgresSchema(postgres.row), r))
  IN
  /\ mongo' = m.s /\ postgres' = p.s
  /\ apart' = IF apart = None THEN Reason(r, m, p) ELSE apart

\* Or each of them is cut short after some of its steps, MongoDB perhaps within the next.
Cut(r) ==
  LET m == Steps(MongoSchema(mongo.row), r)
      p == Steps(PostgresSchema(postgres.row), r)
  IN
  /\ load.cuts /\ m # None /\ p # None
  /\ \E i \in 0..Len(m), j \in 0..Len(p) :
       /\ LET done == Run(MongoStep, mongo, SubSeq(m, 1, i))
              next == IF done.ok /\ i < Len(m) THEN Within(done.s, m[i + 1]) ELSE {}
          IN mongo' \in {done.s} \cup next
       /\ postgres' = Run(PostgresStep, postgres, SubSeq(p, 1, j)).s
  /\ apart' = "cut"

Next ==
  /\ requests < load.limit
  /\ requests' = requests + 1
  /\ \E r \in load.asked : Serve(r) \/ Cut(r)
  /\ UNCHANGED load

Spec == Init /\ [][Next]_vars

-----------------------------------------------------------------------------
\* The primary index is not in a class MongoDB was never asked to index.
Alike(schema) == IF schema = None THEN None ELSE [schema EXCEPT !.indexes = @ \ {Id}]

\* Both give the same schema after the same requests, and refuse the same ones, but for a
\* second GeoPoint, an index on a relation and an index one of them has lost.
SameSchema ==
  /\ apart = None => Alike(MongoSchema(mongo.row)) = Alike(PostgresSchema(postgres.row))
  /\ apart # "unexplained"

\* Whatever was refused or cut short, a class has a column of the right type for every field
\* and a join table for every relation, and the indexes its row lists, but for those that went
\* without the row being told.
Built(s) == s.row # None => s.row.indexes \ ({Id} \cup s.excused) \subseteq s.indexes
BuiltAsListed ==
  /\ postgres.row # None =>
       /\ postgres.columns = ColumnsFor(postgres.row.fields)
       /\ OfType(postgres.row.fields, "Relation") \subseteq postgres.joins
  /\ Built(mongo) /\ Built(postgres)
=============================================================================
