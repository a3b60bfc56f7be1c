--------------------------- MODULE SchemaRegistry ---------------------------
(***************************************************************************)
(* How the requests of one or many server processes write objects of one   *)
(* class and change its schema: RestWrite and DatabaseController on top of *)
(* SchemaController, SchemaCache and the MongoDB adapter.  Every request   *)
(* owns a SchemaController and checks against the copy of the schema it    *)
(* loaded, while others change the _SCHEMA document.  A request is         *)
(* suspended at every call to the database or the cache; a call may fail   *)
(* or the process may end, and then the request goes no further.           *)
(***************************************************************************)
EXTENDS Naturals, FiniteSets

CONSTANTS
  Fields, Types,
  GeoPoint,     \* the type a class may have only one field of
  Requests,     \* the requests clients make
  Slots,        \* requests served at a time
  CacheModes,   \* the values of enableSingleSchemaCache considered
  MaxRequests,  \* bound: requests made
  None,         \* no type: the field is not there
  Delete,       \* the {__op: 'Delete'} of a submitted field
  NoClass,      \* the class has no schema
  Nothing,      \* the cache holds no schemas
  Shared        \* the key of the cache all requests share

ASSUME SchemaConstants ==
  /\ IsFiniteSet(Fields)
  /\ None \notin Types /\ Delete \notin Types /\ None # Delete
  /\ CacheModes \subseteq BOOLEAN
  /\ MaxRequests \in Nat
  /\ Shared \notin Slots

Absent == [f \in Fields |-> None]
Schemas == [Fields -> Types \cup {None}]

\* The class as a schema sees it, or that it has none.
ASSUME NoSchema == NoClass \notin Schemas /\ Nothing \notin Schemas \cup {NoClass}

(***************************************************************************)
(* "write" saves an object with the fields given, "alter" is PUT           *)
(* /schemas/:className with fields to add and to delete, and "drop" is     *)
(* DELETE /schemas/:className.                                             *)
(***************************************************************************)
RequestType ==
  [kind : {"write"}, fields : Schemas] \cup
  [kind : {"alter"}, fields : [Fields -> Types \cup {None, Delete}]] \cup
  [kind : {"drop"}, fields : {Absent}]

ASSUME RequestConstants == Requests \subseteq RequestType

VARIABLES
  db,       \* the class's document in _SCHEMA
  objects,  \* the objects in the class's collection
  cache,    \* SchemaCache: what is under MAIN_SCHEMA
  req,      \* the requests being served
  single,   \* enableSingleSchemaCache, which never changes
  raced,    \* history: fields deleted where a write may not notice
  begun     \* how many requests were made

vars == <<db, objects, cache, req, single, raced, begun>>

At(schema, f) == IF schema = NoClass THEN None ELSE schema[f]
Given(r) == {f \in Fields : r.fields[f] \notin {None, Delete}}
Deleted(r) == IF r.kind = "drop" THEN Fields ELSE {f \in Fields : r.fields[f] = Delete}
GeoFields(fs, schema) == {f \in fs : At(schema, f) = GeoPoint}

Ended == {"idle", "done", "failed", "error"}
Pending(r) == {f \in Fields : r.add[f] \in {"find", "upsert"}}
Free(r) == r.pc \in Ended /\ Pending(r) = {}
NoAdds == [f \in Fields |-> "no"]
IdleRequest == [kind |-> "write", fields |-> Absent, pc |-> "idle", then |-> "idle",
                schema |-> NoClass, add |-> NoAdds]

CacheOf(s) == IF single THEN Shared ELSE s

\* The request in s goes on: at pc, later at then, with what it has of the
\* schema and of its additions.
Continue(s, pc, then, schema, add) ==
  req' = [req EXCEPT ![s] = [kind |-> @.kind, fields |-> @.fields, pc |-> pc,
                             then |-> then, schema |-> schema, add |-> add]]
Goto(s, pc) == Continue(s, pc, req[s].then, req[s].schema, req[s].add)
ReadThen(s, then) == Continue(s, "read", then, req[s].schema, req[s].add)
GoOnAdding(s, pc, f, result) ==
  Continue(s, pc, req[s].then, req[s].schema, [req[s].add EXCEPT ![f] = result])

Init ==
  /\ db = NoClass /\ objects = {} /\ raced = {} /\ begun = 0
  /\ cache = [c \in Slots \cup {Shared} |-> Nothing]
  /\ req = [s \in Slots |-> IdleRequest]
  /\ single \in CacheModes

(***************************************************************************)
(* Requests.  A deletion and a write of the same field race when they are  *)
(* served at the same time, and, as a cache shared by all requests may     *)
(* still hold the field afterwards, always when there is one.              *)
(***************************************************************************)
Racing(s, q) ==
  UNION {(Deleted(q) \cap Given(req[t])) \cup (Deleted(req[t]) \cap Given(q)) :
         t \in {u \in Slots \ {s} : ~Free(req[u])}}

Begin(s, q) ==
  /\ begun < MaxRequests /\ begun' = begun + 1
  /\ Free(req[s])
  /\ req' = [req EXCEPT ![s] =
       [kind |-> q.kind, fields |-> q.fields, schema |-> NoClass, add |-> NoAdds,
        pc |-> IF q.kind = "write" THEN "load" ELSE "read",
        then |-> IF q.kind = "write" THEN "validate" ELSE "look"]]
  /\ raced' = raced \cup (IF single THEN Deleted(q) ELSE Racing(s, q))
  /\ cache' = IF single THEN cache ELSE [cache EXCEPT ![s] = Nothing]
  /\ UNCHANGED <<db, objects, single>>

\* The call a request waits for fails, or its process ends.
CallFails(s) ==
  /\ req[s].pc \notin Ended
  /\ Continue(s, "error", req[s].then, req[s].schema, NoAdds)
  /\ UNCHANGED <<db, objects, cache, single, raced, begun>>

(***************************************************************************)
(* Loading: getAllClasses and getOneSchema answer from the cache when they *)
(* can; setAllClasses asks the database and caches its answer, which by    *)
(* then may be out of date.                                                *)
(***************************************************************************)
AfterLookUp(r) == IF r.pc = "load" THEN "validate" ELSE IF r.pc = "fetch" THEN "store"
                  ELSE IF r.kind = "alter" THEN "check" ELSE "count"

LookUp(s) ==
  LET r == req[s]
      cached == cache[CacheOf(s)]
      hit == cached # Nothing /\ (r.pc = "load" \/ cached # NoClass)
  IN /\ r.pc \in {"load", "look", "fetch"}
     /\ IF hit THEN Continue(s, AfterLookUp(r), r.then, cached, r.add)
               ELSE ReadThen(s, AfterLookUp(r))
     /\ UNCHANGED <<db, objects, cache, single, raced, begun>>

ReadSchema(s) ==
  /\ req[s].pc = "read"
  /\ Continue(s, "answer", req[s].then, db, req[s].add)
  /\ UNCHANGED <<db, objects, cache, single, raced, begun>>

CacheSchema(s) ==
  /\ req[s].pc = "answer"
  /\ cache' = [cache EXCEPT ![CacheOf(s)] = req[s].schema]
  /\ Goto(s, req[s].then)
  /\ UNCHANGED <<db, objects, single, raced, begun>>

\* The entry outlives its ttl.
Expire ==
  /\ single /\ cache' = [cache EXCEPT ![Shared] = Nothing]
  /\ UNCHANGED <<db, objects, req, single, raced, begun>>

(***************************************************************************)
(* Writing an object: validateObject, then create.                         *)
(***************************************************************************)

\* Mutant: a class that another request created by now makes the write fail.
EnforceClassExists_OrFails(s) ==
  /\ req[s].pc = "validate" /\ req[s].schema = NoClass /\ req[s].kind = "write"
  /\ db' = IF db = NoClass THEN Absent ELSE db
  /\ IF db = NoClass THEN ReadThen(s, "fields") ELSE Goto(s, "failed")
  /\ UNCHANGED <<objects, cache, single, raced, begun>>

\* enforceClassExists: it matters not whether the class was there already or
\* the call fails, as long as the schema has the class when it is read again.
NothingAdded(r) == [f \in Fields |-> IF f \in Given(r) THEN "lost" ELSE "no"]

EnforceClassExists(s) ==
  /\ req[s].pc = "validate" /\ req[s].schema = NoClass /\ req[s].kind = "write"
  /\ \/ /\ db' = IF db = NoClass THEN Absent ELSE db
        /\ ReadThen(s, "fields")
     \/ /\ db' = db
        /\ Continue(s, "read", "fields", req[s].schema, NothingAdded(req[s]))
  /\ UNCHANGED <<objects, cache, single, raced, begun>>

ClassMissing(s) ==
  /\ req[s].pc \in {"fields", "store"} /\ req[s].schema = NoClass /\ req[s].kind = "write"
  /\ Goto(s, "failed")
  /\ UNCHANGED <<db, objects, cache, single, raced, begun>>

(***************************************************************************)
(* enforceFieldExists for every field given, in the order they come in: a  *)
(* field of another type ends the request, while the additions begun for   *)
(* the fields before it go on in the background.                           *)
(***************************************************************************)
Validating(r) == r.pc \in {"validate", "fields"} /\ (r.kind = "write" => r.schema # NoClass)
NewFields(r) == {f \in Given(r) : At(r.schema, f) = None}
Mismatch(r) == \E f \in Given(r) \ NewFields(r) : r.fields[f] # At(r.schema, f)
TwoGeoPoints(r) == r.kind = "write" /\ Cardinality(GeoFields(Given(r), r.fields)) > 1
Adding(fs) == [f \in Fields |-> IF f \in fs THEN "find" ELSE "no"]

EnforceFieldsExist(s) ==
  LET r == req[s] IN
  /\ Validating(r) /\ ~Mismatch(r) /\ ~TwoGeoPoints(r)
  /\ Continue(s, IF NewFields(r) # {} THEN "add" ELSE IF r.kind = "write" THEN "fetch" ELSE "read",
              "ensure", r.schema, Adding(NewFields(r)))
  /\ UNCHANGED <<db, objects, cache, single, raced, begun>>

RefuseFields(s) ==
  LET r == req[s] IN
  /\ Validating(r) /\ (Mismatch(r) \/ TwoGeoPoints(r))
  /\ \E started \in SUBSET NewFields(r) : Continue(s, "failed", r.then, r.schema, Adding(started))
  /\ UNCHANGED <<db, objects, cache, single, raced, begun>>

\* addFieldIfNotExists looks for another GeoPoint first.
FindField(s, f) ==
  LET r == req[s]
      refused == At(db, f) = None /\ r.fields[f] = GeoPoint /\ GeoFields(Fields, db) # {}
  IN /\ r.add[f] = "find"
     /\ GoOnAdding(s, IF refused /\ r.pc = "add" THEN "failed" ELSE r.pc,
                   f, IF refused THEN "done" ELSE "upsert")
     /\ UNCHANGED <<db, objects, cache, single, raced, begun>>

\* The upsert leaves a field that is there by now as it is: the duplicate key
\* error is swallowed.
UpsertField(s, f) ==
  /\ req[s].add[f] = "upsert"
  /\ db' = IF At(db, f) # None THEN db
           ELSE [g \in Fields |-> IF g = f THEN req[s].fields[f] ELSE At(db, g)]
  /\ GoOnAdding(s, req[s].pc, f, "done")
  /\ UNCHANGED <<objects, cache, single, raced, begun>>

\* Any other error of the addition is swallowed too.
AdditionFails(s, f) ==
  /\ f \in Pending(req[s])
  /\ GoOnAdding(s, req[s].pc, f, "lost")
  /\ UNCHANGED <<db, objects, cache, single, raced, begun>>

FieldsAdded(s) ==
  /\ req[s].pc = "add" /\ Pending(req[s]) = {}
  /\ ReadThen(s, "ensure")
  /\ UNCHANGED <<db, objects, cache, single, raced, begun>>

\* Mutant: what was added is taken for granted.
Ensured_Always(r) == r = r

\* ensureFields: all that was added must be in the schema read again.
Ensured(r) == \A f \in Fields : r.add[f] \in {"done", "lost"} => At(r.schema, f) = r.fields[f]
EnsureFields(s) ==
  LET r == req[s] IN
  /\ r.pc = "ensure"
  /\ Goto(s, IF ~Ensured(r) THEN "failed"
             ELSE IF r.kind = "write" THEN "fetch"
             ELSE IF r.schema = NoClass THEN "failed" ELSE "done")
  /\ UNCHANGED <<db, objects, cache, single, raced, begun>>

Store(s) ==
  /\ req[s].pc = "store" /\ req[s].schema # NoClass
  /\ objects' = objects \cup {req[s].fields}
  /\ Goto(s, "done")
  /\ UNCHANGED <<db, cache, single, raced, begun>>

(***************************************************************************)
(* updateClass: check, delete the fields, then add the others as a write   *)
(* does.  Deleting takes the values out of the objects first and the field *)
(* out of the schema second.                                               *)
(***************************************************************************)
Refused(r) ==
  LET kept == [f \in Fields |-> IF f \in Given(r) THEN r.fields[f]
                                ELSE IF f \in Deleted(r) THEN None ELSE At(r.schema, f)]
  IN \/ r.schema = NoClass
     \/ \E f \in Given(r) : At(r.schema, f) # None
     \/ \E f \in Deleted(r) : At(r.schema, f) = None
     \/ Cardinality(GeoFields(Fields, kept)) > 1

CheckUpdate(s) ==
  LET r == req[s] IN
  /\ r.pc = "check"
  /\ Continue(s, IF Refused(r) THEN "failed" ELSE IF Deleted(r) # {} THEN "clear" ELSE "read",
              "fields", r.schema, r.add)
  /\ UNCHANGED <<db, objects, cache, single, raced, begun>>

\* The cache is cleared before the deletion and after it.
ClearCache(s) ==
  /\ req[s].pc \in {"clear", "clearAgain"}
  /\ cache' = [cache EXCEPT ![CacheOf(s)] = Nothing]
  /\ ReadThen(s, IF req[s].pc = "clear" THEN "dropValues" ELSE "fields")
  /\ UNCHANGED <<db, objects, single, raced, begun>>

DropValues(s) ==
  LET r == req[s]
      there == \A f \in Deleted(r) : At(r.schema, f) # None
  IN /\ r.pc = "dropValues"
     /\ Goto(s, IF there THEN "dropFields" ELSE "failed")
     /\ objects' = IF ~there THEN objects
          ELSE {[f \in Fields |-> IF f \in Deleted(r) THEN None ELSE o[f]] : o \in objects}
     /\ UNCHANGED <<db, cache, single, raced, begun>>

DropFields(s) ==
  /\ req[s].pc = "dropFields"
  /\ db' = IF db = NoClass THEN NoClass
           ELSE [f \in Fields |-> IF f \in Deleted(req[s]) THEN None ELSE db[f]]
  /\ Goto(s, "clearAgain")
  /\ UNCHANGED <<objects, cache, single, raced, begun>>

(***************************************************************************)
(* deleteSchema: a class without objects loses its collection and then its *)
(* schema.                                                                 *)
(***************************************************************************)
CountObjects(s) ==
  /\ req[s].pc = "count"
  /\ Goto(s, IF objects = {} THEN "dropObjects" ELSE "failed")
  /\ UNCHANGED <<db, objects, cache, single, raced, begun>>

DropCollection(s) ==
  /\ req[s].pc = "dropObjects"
  /\ objects' = {}
  /\ Goto(s, "dropClass")
  /\ UNCHANGED <<db, cache, single, raced, begun>>

DropClass(s) ==
  /\ req[s].pc = "dropClass"
  /\ db' = NoClass
  /\ Goto(s, "done")
  /\ UNCHANGED <<objects, cache, single, raced, begun>>

Step(s) ==
  \/ \E q \in Requests : Begin(s, q)
  \/ CallFails(s)
  \/ LookUp(s) \/ ReadSchema(s) \/ CacheSchema(s)
  \/ EnforceClassExists(s) \/ ClassMissing(s) \/ EnforceFieldsExist(s) \/ RefuseFields(s)
  \/ \E f \in Fields : FindField(s, f) \/ UpsertField(s, f) \/ AdditionFails(s, f)
  \/ FieldsAdded(s) \/ EnsureFields(s) \/ Store(s)
  \/ CheckUpdate(s) \/ ClearCache(s) \/ DropValues(s) \/ DropFields(s)
  \/ CountObjects(s) \/ DropCollection(s) \/ DropClass(s)

Next == Expire \/ \E s \in Slots : Step(s)

Spec == Init /\ [][Next]_vars

-----------------------------------------------------------------------------
(***************************************************************************)
(* Properties.                                                             *)
(***************************************************************************)
StatesOf(kind) ==
  {"read", "answer", "fields", "add", "ensure"} \cup Ended \cup
  (IF kind = "write" THEN {"load", "validate", "fetch", "store"}
   ELSE IF kind = "alter" THEN {"look", "check", "clear", "dropValues", "dropFields", "clearAgain"}
   ELSE {"look", "count", "dropObjects", "dropClass"})
States == UNION {StatesOf(kind) : kind \in {"write", "alter", "drop"}}

Served == [kind : {"write", "alter", "drop"}, fields : [Fields -> Types \cup {None, Delete}],
           pc : States, then : States, schema : Schemas \cup {NoClass},
           add : [Fields -> {"no", "find", "upsert", "done", "lost"}]]

\* A request is in a state of its kind, a write deletes nothing, and only
\* fields given are added.
RequestOK(r) ==
  /\ r \in Served
  /\ {r.pc, r.then} \subseteq StatesOf(r.kind)
  /\ r.kind = "write" => Deleted(r) = {}
  /\ \A f \in Fields : r.add[f] # "no" => f \in Given(r)

\* Every variable keeps to its type.
TypeOK ==
  /\ db \in Schemas \cup {NoClass}
  /\ objects \subseteq Schemas
  /\ cache \in [Slots \cup {Shared} -> Schemas \cup {NoClass, Nothing}]
  /\ req \in [Slots -> Served] /\ \A s \in Slots : RequestOK(req[s])
  /\ single \in BOOLEAN /\ raced \subseteq Fields /\ begun \in 0..MaxRequests

\* Whatever requests do at the same time, each with its own copy of the
\* schema, a stored value has the type the schema in the database gives its
\* field; the exception are fields deleted while they were written.
StoredMatchesSchema ==
  \A o \in objects, f \in Fields \ raced : o[f] # None => At(db, f) = o[f]

\* What the object of r finds in the database that it cannot be stored with.
Conflict(r) ==
  \/ TwoGeoPoints(r)
  \/ \E f \in Given(r) : At(db, f) \notin {None, r.fields[f]}
  \/ GeoFields(Given(r), r.fields) # {}
     /\ GeoFields(Fields, db) \ GeoFields(Given(r), r.fields) # {}
  \/ \E f \in Given(r) : f \in raced \/ r.add[f] = "lost"

\* A write is refused for a conflict with the schema in the database, never
\* because another request created the class or the field at the same time.
RefusedForAConflict ==
  [][\A s \in Slots : req[s].kind = "write" /\ req[s].pc # "failed" /\ req'[s].pc = "failed"
                        => Conflict(req[s])]_vars

\* "MongoDB only supports one GeoPoint field in a class."
\* (MongoSchemaCollection.js:228)
OneGeoPointField == Cardinality(GeoFields(Fields, db)) <= 1
=============================================================================
