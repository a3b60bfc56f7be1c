------------------------ MODULE SchemaRegistry_proofs ------------------------
(***************************************************************************)
(* Why stored values keep to the schema and why writes are refused, for    *)
(* every set of requests, any number of fields and types, and either kind  *)
(* of cache.  A field that is not being deleted while it is written never  *)
(* changes under a write, so whatever copy of the schema the write checked *)
(* it against is still right when it stores or fails.                      *)
(***************************************************************************)
EXTENDS SchemaRegistry, FiniteSetTheorems, TLAPS

USE DEF Ended

-----------------------------------------------------------------------------
(***************************************************************************)
(* Types.                                                                  *)
(***************************************************************************)

\* A step that moves one request, and moves it to a proper one.
Moves(s) ==
  /\ req' \in [Slots -> Served]
  /\ RequestOK(req'[s])
  /\ \A t \in Slots \ {s} : req'[t] = req[t]

LEMMA MovesKeepRequests ==
  ASSUME TypeOK, NEW s \in Slots, Moves(s)
  PROVE  req' \in [Slots -> Served] /\ \A t \in Slots : RequestOK(req'[t])
BY DEF TypeOK, Moves

\* What a request may go on with that it had before.
LEMMA AsBefore ==
  ASSUME TypeOK, NEW s \in Slots
  PROVE  /\ req[s].then \in StatesOf(req[s].kind) /\ req[s].pc \in StatesOf(req[s].kind)
         /\ req[s].schema \in Schemas \cup {NoClass}
         /\ req[s].add \in [Fields -> {"no", "find", "upsert", "done", "lost"}]
         /\ \A f \in Fields : req[s].add[f] # "no" => f \in Given(req[s])
         /\ req[s].kind \in {"write", "alter", "drop"}
         /\ req[s].fields \in [Fields -> Types \cup {None, Delete}]
BY DEF TypeOK, RequestOK, Served

LEMMA ContinueMoves ==
  ASSUME TypeOK, NEW s \in Slots,
         NEW p \in StatesOf(req[s].kind), NEW t \in StatesOf(req[s].kind),
         NEW v \in Schemas \cup {NoClass},
         NEW a \in [Fields -> {"no", "find", "upsert", "done", "lost"}],
         \A f \in Fields : a[f] # "no" => f \in Given(req[s]),
         Continue(s, p, t, v, a)
  PROVE  Moves(s)
<1> DEFINE new == [kind |-> req[s].kind, fields |-> req[s].fields, pc |-> p,
                   then |-> t, schema |-> v, add |-> a]
<1>1. req[s] \in Served /\ RequestOK(req[s])
  BY DEF TypeOK
<1>2. new \in Served
  BY <1>1, AsBefore DEF Served, States
<1>3. RequestOK(new)
  BY <1>1, <1>2 DEF RequestOK, Deleted, Given
<1>4. req' = [req EXCEPT ![s] = new]
  BY DEF Continue
<1> QED BY <1>2, <1>3, <1>4 DEF Moves, TypeOK

LEMMA GotoMoves ==
  ASSUME TypeOK, NEW s \in Slots,
         NEW p \in StatesOf(req[s].kind), NEW t \in StatesOf(req[s].kind),
         \/ Goto(s, p)
         \/ ReadThen(s, t)
         \/ Continue(s, p, t, req[s].schema, req[s].add)
  PROVE  Moves(s)
<1>1. CASE Goto(s, p)
  BY <1>1, AsBefore, ContinueMoves DEF Goto
<1>2. CASE ReadThen(s, t)
  BY <1>2, AsBefore, ContinueMoves DEF ReadThen, StatesOf
<1>3. CASE Continue(s, p, t, req[s].schema, req[s].add)
  BY <1>3, AsBefore, ContinueMoves
<1> QED BY <1>1, <1>2, <1>3

LEMMA AddingMoves ==
  ASSUME TypeOK, NEW s \in Slots, NEW p \in StatesOf(req[s].kind), NEW f \in Given(req[s]),
         NEW result \in {"find", "upsert", "done", "lost"},
         GoOnAdding(s, p, f, result)
  PROVE  Moves(s)
<1> DEFINE a == [req[s].add EXCEPT ![f] = result]
<1>1. a \in [Fields -> {"no", "find", "upsert", "done", "lost"}]
  BY AsBefore
<1>2. \A g \in Fields : a[g] # "no" => g \in Given(req[s])
  BY AsBefore
<1>3. Continue(s, p, req[s].then, req[s].schema, a)
  BY DEF GoOnAdding
<1> HIDE DEF a
<1> QED BY <1>1, <1>2, <1>3, AsBefore, ContinueMoves

LEMMA StartingMoves ==
  ASSUME TypeOK, NEW s \in Slots,
         NEW p \in StatesOf(req[s].kind), NEW t \in StatesOf(req[s].kind),
         NEW fs \in SUBSET NewFields(req[s]),
         Continue(s, p, t, req[s].schema, Adding(fs))
  PROVE  Moves(s)
<1>1. Adding(fs) \in [Fields -> {"no", "find", "upsert", "done", "lost"}]
  BY DEF Adding
<1>2. \A f \in Fields : Adding(fs)[f] # "no" => f \in Given(req[s])
  BY DEF Adding, NewFields
<1> QED BY <1>1, <1>2, AsBefore, ContinueMoves

LEMMA RequestKinds ==
  ASSUME NEW q \in RequestType
  PROVE  /\ q.kind \in {"write", "alter", "drop"}
         /\ q.fields \in [Fields -> Types \cup {None, Delete}]
         /\ q.kind \in {"write", "drop"} => q.fields \in Schemas
         /\ q.kind = "write" => Deleted(q) = {}
<1>1. q.kind = "write" => q.fields \in Schemas
  BY DEF RequestType
<1>2. q.kind = "drop" => q.fields \in Schemas
  BY DEF RequestType, Absent, Schemas
<1>3. q.kind = "alter" => q.fields \in [Fields -> Types \cup {None, Delete}]
  BY DEF RequestType
<1>4. q.kind \in {"write", "alter", "drop"}
  BY DEF RequestType
<1>5. Schemas \subseteq [Fields -> Types \cup {None, Delete}]
  BY DEF Schemas
<1>6. q.kind = "write" => Deleted(q) = {}
  BY <1>1, SchemaConstants DEF Deleted, Schemas
<1> QED BY <1>1, <1>2, <1>3, <1>4, <1>5, <1>6

LEMMA BeginMoves ==
  ASSUME TypeOK, NEW s \in Slots, NEW q \in Requests, Begin(s, q)
  PROVE  Moves(s)
<1> DEFINE new == [kind |-> q.kind, fields |-> q.fields, schema |-> NoClass, add |-> NoAdds,
                   pc |-> IF q.kind = "write" THEN "load" ELSE "read",
                   then |-> IF q.kind = "write" THEN "validate" ELSE "look"]
<1>1. new \in Served
  BY RequestConstants, RequestKinds DEF Served, States, StatesOf, NoAdds
<1>2. RequestOK(new)
  <2>1. new.kind = "write" => Deleted(new) = {}
    BY RequestConstants, RequestKinds DEF Deleted
  <2>2. {new.pc, new.then} \subseteq StatesOf(new.kind)
    BY DEF StatesOf
  <2> QED BY <1>1, <2>1, <2>2 DEF RequestOK, NoAdds
<1>3. req' = [req EXCEPT ![s] = new]
  BY DEF Begin
<1> QED BY <1>1, <1>2, <1>3 DEF Moves, TypeOK

-----------------------------------------------------------------------------
LEMMA SchemaTypes ==
  /\ Absent \in Schemas
  /\ \A v \in Schemas \cup {NoClass}, f \in Fields : At(v, f) \in Types \cup {None}
BY DEF Absent, Schemas, At

\* Every request that goes on does so in a proper state.
LEMMA StepMoves ==
  ASSUME TypeOK, NEW s \in Slots, Step(s)
  PROVE  Moves(s)
<1> USE DEF StatesOf
<1>1. CASE \E q \in Requests : Begin(s, q)
  BY <1>1, BeginMoves
<1>2. CASE CallFails(s)
  <2>1. NoAdds \in [Fields -> {"no", "find", "upsert", "done", "lost"}]
        /\ \A f \in Fields : NoAdds[f] = "no"
    BY DEF NoAdds
  <2> QED BY <1>2, <2>1, AsBefore, ContinueMoves DEF CallFails
<1>3. CASE LookUp(s)
  <2> DEFINE cached == cache[CacheOf(s)]
  <2>1. AfterLookUp(req[s]) \in StatesOf(req[s].kind)
    BY <1>3, AsBefore DEF LookUp, AfterLookUp
  <2>2. CASE cached # Nothing /\ (req[s].pc = "load" \/ cached # NoClass)
    <3>1. cached \in Schemas \cup {NoClass}
      BY <2>2 DEF TypeOK, CacheOf
    <3>2. Continue(s, AfterLookUp(req[s]), req[s].then, cached, req[s].add)
      BY <1>3, <2>2 DEF LookUp
    <3> QED BY <2>1, <3>1, <3>2, AsBefore, ContinueMoves
  <2>3. CASE ~(cached # Nothing /\ (req[s].pc = "load" \/ cached # NoClass))
    <3>1. ReadThen(s, AfterLookUp(req[s]))
      BY <1>3, <2>3 DEF LookUp
    <3> QED BY <2>1, <3>1, GotoMoves
  <2> QED BY <2>2, <2>3
<1>4. CASE ReadSchema(s)
  BY <1>4, AsBefore, ContinueMoves DEF ReadSchema, TypeOK
<1>5. CASE CacheSchema(s)
  BY <1>5, AsBefore, GotoMoves DEF CacheSchema
<1>6. CASE EnforceClassExists(s)
  <2>1. NothingAdded(req[s]) \in [Fields -> {"no", "find", "upsert", "done", "lost"}]
        /\ \A f \in Fields : NothingAdded(req[s])[f] # "no" => f \in Given(req[s])
    BY DEF NothingAdded
  <2>2. CASE ReadThen(s, "fields")
    BY <2>2, GotoMoves
  <2>3. CASE Continue(s, "read", "fields", req[s].schema, NothingAdded(req[s]))
    BY <2>1, <2>3, AsBefore, ContinueMoves
  <2> QED BY <1>6, <2>2, <2>3 DEF EnforceClassExists
<1>7. CASE EnforceFieldsExist(s)
  BY <1>7, StartingMoves DEF EnforceFieldsExist
<1>8. CASE RefuseFields(s)
  <2>1. PICK started \in SUBSET NewFields(req[s]) :
          Continue(s, "failed", req[s].then, req[s].schema, Adding(started))
    BY <1>8 DEF RefuseFields
  <2> QED BY <2>1, AsBefore, StartingMoves
<1>9. CASE \E f \in Fields : FindField(s, f) \/ UpsertField(s, f) \/ AdditionFails(s, f)
  <2>1. PICK f \in Fields : FindField(s, f) \/ UpsertField(s, f) \/ AdditionFails(s, f)
    BY <1>9
  <2>2. f \in Given(req[s])
    BY <2>1, AsBefore DEF FindField, UpsertField, AdditionFails, Pending
  <2>3. CASE FindField(s, f)
    <3> DEFINE refused == At(db, f) = None /\ req[s].fields[f] = GeoPoint
                          /\ GeoFields(Fields, db) # {}
    <3>1. GoOnAdding(s, IF refused /\ req[s].pc = "add" THEN "failed" ELSE req[s].pc,
                     f, IF refused THEN "done" ELSE "upsert")
      BY <2>3 DEF FindField
    <3>2. (IF refused /\ req[s].pc = "add" THEN "failed" ELSE req[s].pc)
            \in StatesOf(req[s].kind)
      BY AsBefore
    <3> HIDE DEF refused
    <3> QED BY <2>2, <3>1, <3>2, AddingMoves
  <2>4. CASE UpsertField(s, f)
    BY <2>2, <2>4, AsBefore, AddingMoves DEF UpsertField
  <2>5. CASE AdditionFails(s, f)
    BY <2>2, <2>5, AsBefore, AddingMoves DEF AdditionFails
  <2> QED BY <2>1, <2>3, <2>4, <2>5
<1>10. CASE FieldsAdded(s)
  BY <1>10, GotoMoves DEF FieldsAdded
<1>11. CASE CheckUpdate(s)
  BY <1>11, AsBefore, GotoMoves DEF CheckUpdate
<1>12. CASE ClearCache(s)
  BY <1>12, AsBefore, GotoMoves DEF ClearCache
<1>13. CASE ClassMissing(s) \/ EnsureFields(s) \/ Store(s) \/ DropValues(s)
  BY <1>13, AsBefore, GotoMoves DEF ClassMissing, EnsureFields, Store, DropValues
<1>14. CASE DropFields(s) \/ CountObjects(s) \/ DropCollection(s) \/ DropClass(s)
  BY <1>14, AsBefore, GotoMoves DEF DropFields, CountObjects, DropCollection, DropClass
<1> QED
  BY <1>1, <1>2, <1>3, <1>4, <1>5, <1>6, <1>7, <1>8, <1>9, <1>10, <1>11, <1>12, <1>13, <1>14
     DEF Step

LEMMA TypeStep == TypeOK /\ [Next]_vars => TypeOK'
<1> SUFFICES ASSUME TypeOK, [Next]_vars PROVE TypeOK'
  OBVIOUS
<1>1. CASE UNCHANGED vars
  BY <1>1 DEF vars, TypeOK, RequestOK, Deleted, Given
<1>2. CASE Expire
  BY <1>2 DEF Expire, TypeOK, RequestOK, Deleted, Given
<1>3. ASSUME NEW s \in Slots, Step(s) PROVE TypeOK'
  <2>1. req' \in [Slots -> Served] /\ \A t \in Slots : RequestOK(req'[t])
    BY <1>3, StepMoves, MovesKeepRequests
  <2>2. db' \in Schemas \cup {NoClass}
    <3>1. ASSUME NEW f \in Fields, UpsertField(s, f) PROVE db' \in Schemas \cup {NoClass}
      <4>1. f \in Given(req[s])
        BY <3>1, AsBefore DEF UpsertField
      <4>2. req[s].fields[f] \in Types
        BY <4>1, AsBefore DEF Given
      <4>3. [g \in Fields |-> IF g = f THEN req[s].fields[f] ELSE At(db, g)] \in Schemas
        BY <4>2, SchemaTypes DEF Schemas, TypeOK
      <4> QED BY <3>1, <4>3 DEF UpsertField, TypeOK
    <3>2. CASE DropFields(s)
      BY <3>2 DEF DropFields, TypeOK, Schemas
    <3>3. CASE EnforceClassExists(s) \/ DropClass(s)
      BY <3>3, SchemaTypes DEF EnforceClassExists, DropClass, TypeOK
    <3>4. CASE db' = db
      BY <3>4 DEF TypeOK
    <3> QED
      BY <1>3, <3>1, <3>2, <3>3, <3>4
         DEF Step, Begin, CallFails, LookUp, ReadSchema, CacheSchema, ClassMissing,
             EnforceFieldsExist, RefuseFields, FindField, AdditionFails, FieldsAdded,
             EnsureFields, Store, CheckUpdate, ClearCache, DropValues, CountObjects,
             DropCollection
  <2>3. objects' \subseteq Schemas
    <3>1. CASE Store(s)
      <4>1. req[s].kind = "write" => req[s].fields \in Schemas
        BY AsBefore, SchemaConstants DEF TypeOK, RequestOK, Deleted, Schemas
      <4>2. req[s].kind = "write"
        BY <3>1, AsBefore DEF Store, StatesOf
      <4> QED BY <3>1, <4>1, <4>2 DEF Store, TypeOK
    <3>2. CASE DropValues(s)
      BY <3>2 DEF DropValues, TypeOK, Schemas
    <3>3. CASE objects' = objects \/ objects' = {}
      BY <3>3 DEF TypeOK
    <3> QED
      BY <1>3, <3>1, <3>2, <3>3
         DEF Step, Begin, CallFails, LookUp, ReadSchema, CacheSchema, ClassMissing,
             EnforceClassExists, EnforceFieldsExist, RefuseFields, FindField, UpsertField,
             AdditionFails, FieldsAdded, EnsureFields, CheckUpdate, ClearCache, DropFields,
             CountObjects, DropCollection, DropClass
  <2>4. cache' \in [Slots \cup {Shared} -> Schemas \cup {NoClass, Nothing}]
    <3>1. CASE CacheSchema(s)
      BY <3>1, AsBefore DEF CacheSchema, TypeOK
    <3>2. CASE ClearCache(s) \/ \E q \in Requests : Begin(s, q)
      BY <3>2 DEF ClearCache, Begin, TypeOK
    <3>3. CASE cache' = cache
      BY <3>3 DEF TypeOK
    <3> QED
      BY <1>3, <3>1, <3>2, <3>3
         DEF Step, CallFails, LookUp, ReadSchema, EnforceClassExists, ClassMissing,
             EnforceFieldsExist, RefuseFields, FindField, UpsertField, AdditionFails,
             FieldsAdded, EnsureFields, Store, CheckUpdate, DropValues, DropFields,
             CountObjects, DropCollection, DropClass
  <2>5. single' \in BOOLEAN /\ raced' \subseteq Fields /\ begun' \in 0..MaxRequests
    <3>1. ASSUME NEW q \in Requests, Begin(s, q)
          PROVE  single' \in BOOLEAN /\ raced' \subseteq Fields /\ begun' \in 0..MaxRequests
      <4>1. Racing(s, q) \subseteq Fields /\ Deleted(q) \subseteq Fields
        BY DEF Racing, Deleted, Given
      <4> QED BY <3>1, <4>1, SchemaConstants DEF Begin, TypeOK
    <3>2. CASE UNCHANGED <<single, raced, begun>>
      BY <3>2 DEF TypeOK
    <3> QED
      BY <1>3, <3>1, <3>2
         DEF Step, CallFails, LookUp, ReadSchema, CacheSchema, EnforceClassExists,
             ClassMissing, EnforceFieldsExist, RefuseFields, FindField, UpsertField,
             AdditionFails, FieldsAdded, EnsureFields, Store, CheckUpdate, ClearCache,
             DropValues, DropFields, CountObjects, DropCollection, DropClass
  <2> QED BY <2>1, <2>2, <2>3, <2>4, <2>5 DEF TypeOK, RequestOK, Deleted, Given
<1> QED BY <1>1, <1>2, <1>3 DEF Next

LEMMA TypeInit == Init => TypeOK
<1> SUFFICES ASSUME Init PROVE TypeOK
  OBVIOUS
<1>1. IdleRequest \in Served
  BY SchemaTypes DEF IdleRequest, Served, States, StatesOf, NoAdds, Schemas
<1>2. RequestOK(IdleRequest)
  BY <1>1, SchemaConstants DEF RequestOK, IdleRequest, StatesOf, Deleted, Given, NoAdds, Absent
<1>3. begun \in 0..MaxRequests /\ single \in BOOLEAN
  BY SchemaConstants DEF Init
<1> QED BY <1>1, <1>2, <1>3 DEF Init, TypeOK

\* The schema, the objects, the caches and the requests keep to their types
\* whatever requests do at the same time.
THEOREM TypeCorrect == Spec => []TypeOK
BY TypeInit, TypeStep, PTL DEF Spec

-----------------------------------------------------------------------------
(***************************************************************************)
(* What a request may rely on.  Field f is safe with the request in s when *)
(* nothing can delete it until the request ends: it was not deleted where  *)
(* a write may not notice, and either no cache outlives a request or the   *)
(* request gives the field.                                                *)
(***************************************************************************)
Safe(s, f) == f \notin raced /\ (single \/ (~Free(req[s]) /\ f \in Given(req[s])))

\* Nobody being served deletes what is safe with another request.
NoRace ==
  \A s, t \in Slots, f \in Fields :
    Safe(s, f) /\ ~Free(req[t]) => f \notin Deleted(req[t])

\* What v has of f, and of the class, is in the schema d.
Agrees(v, d, f) ==
  /\ v # NoClass => d # NoClass
  /\ At(v, f) # None => At(d, f) = At(v, f)

\* r is at a state of ps, or comes there when it has read the schema; or it
\* has read it already.
Heading(r, ps) == r.pc \in ps \/ (r.pc \in {"read", "answer"} /\ r.then \in ps)
HasRead(r, ps) == r.pc \in ps \/ (r.pc = "answer" /\ r.then \in ps)
Adds(r) == r.pc = "add" \/ Heading(r, {"ensure"})

\* What r knows of a field it gives and the schema d: one it need not add, or
\* is to store, is there with the type given; one it added is there; and the
\* class is there once r has created it.
KnownOfGiven(r, d, f) ==
  /\ Adds(r) /\ r.add[f] = "no" => At(d, f) = r.fields[f]
  /\ Adds(r) /\ r.add[f] = "done" => At(d, f) # None
  /\ HasRead(r, {"ensure"}) /\ r.add[f] = "done" => At(r.schema, f) # None
  /\ Heading(r, {"fetch", "store"}) => At(d, f) = r.fields[f]
  /\ r.kind = "write" /\ r.add[f] # "lost" =>
       /\ Heading(r, {"fields", "store"}) => d # NoClass
       /\ HasRead(r, {"fields", "store"}) => r.schema # NoClass

Known(r, d, f) == Agrees(r.schema, d, f) /\ (f \in Given(r) => KnownOfGiven(r, d, f))

\* A request reads the schema in order to go on, and has no addition open when
\* it looks at what was added.
GoesOn(r) ==
  /\ r.pc \in {"read", "answer"} => r.then \notin Ended \cup {"read", "answer", "add"}
  /\ Heading(r, {"ensure"}) => Pending(r) = {}

RequestsKnow ==
  \A s \in Slots : GoesOn(req[s]) /\ \A f \in Fields : Safe(s, f) => Known(req[s], db, f)

CachesAgree ==
  \A s \in Slots, f \in Fields :
    Safe(s, f) /\ cache[CacheOf(s)] # Nothing => Agrees(cache[CacheOf(s)], db, f)

StoredAgree == \A o \in objects, f \in Fields \ raced : o[f] # None => At(db, f) = o[f]

\* Who is about to take fields out of the schema has taken them out of the objects.
Emptied ==
  \A s \in Slots : Heading(req[s], {"dropFields", "dropClass"}) =>
    \A o \in objects, f \in Deleted(req[s]) \ raced : o[f] = None

SInv == TypeOK /\ NoRace /\ RequestsKnow /\ CachesAgree /\ StoredAgree /\ Emptied

LEMMA ContinueIs ==
  ASSUME TypeOK, NEW s \in Slots, NEW p, NEW t, NEW v, NEW a, Continue(s, p, t, v, a)
  PROVE  /\ req'[s].kind = req[s].kind /\ req'[s].fields = req[s].fields
         /\ req'[s].pc = p /\ req'[s].then = t /\ req'[s].schema = v /\ req'[s].add = a
BY DEF Continue, TypeOK

LEMMA AtSchema ==
  /\ \A v \in Schemas, f \in Fields : At(v, f) = v[f]
  /\ \A f \in Fields : At(NoClass, f) = None /\ At(Absent, f) = None
BY NoSchema DEF At, Absent

\* A request that goes on is being served, and stays the same request.
SameRequest(s) ==
  /\ ~Free(req[s])
  /\ req'[s].kind = req[s].kind /\ req'[s].fields = req[s].fields
  /\ UNCHANGED <<raced, single>>

LEMMA StepServes ==
  ASSUME TypeOK, NEW s \in Slots, Step(s), ~\E q \in Requests : Begin(s, q)
  PROVE  SameRequest(s)
<1>1. CASE CallFails(s) \/ LookUp(s) \/ ReadSchema(s) \/ CacheSchema(s)
  BY <1>1, ContinueIs
     DEF CallFails, LookUp, ReadSchema, CacheSchema, Goto, ReadThen, SameRequest, Free
<1>2. CASE EnforceClassExists(s) \/ ClassMissing(s) \/ EnforceFieldsExist(s) \/ RefuseFields(s)
  BY <1>2, ContinueIs
     DEF EnforceClassExists, ClassMissing, EnforceFieldsExist, RefuseFields, Validating,
         Goto, ReadThen, SameRequest, Free
<1>3. CASE \E f \in Fields : FindField(s, f) \/ UpsertField(s, f) \/ AdditionFails(s, f)
  BY <1>3, ContinueIs
     DEF FindField, UpsertField, AdditionFails, GoOnAdding, SameRequest, Free, Pending
<1>4. CASE FieldsAdded(s) \/ EnsureFields(s) \/ Store(s) \/ CheckUpdate(s) \/ ClearCache(s)
  BY <1>4, ContinueIs
     DEF FieldsAdded, EnsureFields, Store, CheckUpdate, ClearCache, Goto, ReadThen,
         SameRequest, Free
<1>5. CASE DropValues(s) \/ DropFields(s) \/ CountObjects(s) \/ DropCollection(s) \/ DropClass(s)
  BY <1>5, ContinueIs
     DEF DropValues, DropFields, CountObjects, DropCollection, DropClass, Goto,
         SameRequest, Free
<1> QED BY <1>1, <1>2, <1>3, <1>4, <1>5 DEF Step

LEMMA StepMovesOne ==
  ASSUME TypeOK, NEW s \in Slots, Step(s), NEW t \in Slots \ {s}
  PROVE  req'[t] = req[t]
BY StepMoves DEF Moves

LEMMA BegunIs ==
  ASSUME TypeOK, NEW s \in Slots, NEW q \in Requests, Begin(s, q)
  PROVE  /\ req'[s].kind = q.kind /\ req'[s].fields = q.fields /\ req'[s].schema = NoClass
         /\ req'[s].add = NoAdds
         /\ req'[s].pc = (IF q.kind = "write" THEN "load" ELSE "read")
         /\ req'[s].then = (IF q.kind = "write" THEN "validate" ELSE "look")
         /\ Given(req'[s]) = Given(q) /\ Deleted(req'[s]) = Deleted(q)
BY DEF Begin, TypeOK, Given, Deleted

\* What is safe after a step was safe before, except with a request that
\* begins.
LEMMA StaysSafe ==
  ASSUME TypeOK, NEW s \in Slots, Step(s), NEW t \in Slots, NEW f \in Fields, Safe(t, f)'
  PROVE  f \notin raced /\ (Safe(t, f) \/ (t = s /\ \E q \in Requests : Begin(s, q)))
<1>1. ASSUME NEW q \in Requests, Begin(s, q)
      PROVE  f \notin raced /\ (Safe(t, f) \/ t = s)
  BY <1>1, StepMovesOne DEF Begin, Safe, TypeOK
<1>2. CASE ~\E q \in Requests : Begin(s, q)
  <2>1. SameRequest(s)
    BY <1>2, StepServes
  <2>2. req'[t] = req[t] \/ t = s
    BY StepMovesOne
  <2> QED BY <2>1, <2>2 DEF SameRequest, Safe, Given
<1> QED BY <1>1, <1>2

LEMMA NoRaceStep ==
  ASSUME TypeOK, NoRace, NEW s \in Slots, Step(s)
  PROVE  NoRace'
<1> SUFFICES ASSUME NEW t \in Slots, NEW u \in Slots, NEW f \in Fields,
                    Safe(t, f)', ~Free(req'[u]), f \in Deleted(req'[u])
             PROVE  FALSE
  BY DEF NoRace
<1>1. ASSUME NEW q \in Requests, Begin(s, q) PROVE FALSE
  <2>1. f \notin raced' /\ raced' = raced \cup (IF single THEN Deleted(q) ELSE Racing(s, q))
    BY <1>1 DEF Safe, Begin
  <2>2. single' = single
    BY <1>1 DEF Begin
  <2>3. CASE t = s /\ u = s
    <3>1. f \in Given(q) => f \notin Deleted(q)
      <4>1. q.kind = "drop" => q.fields = Absent
        BY RequestConstants DEF RequestType
      <4> QED BY <4>1 DEF Given, Deleted, Absent
    <3> QED BY <1>1, <2>1, <2>2, <2>3, <3>1, BegunIs DEF Safe
  <2>4. CASE t = s /\ u # s
    <3>1. req'[u] = req[u]
      BY <1>1, <2>4 DEF Begin, TypeOK
    <3>2. CASE single
      <4>1. Safe(t, f)
        BY <2>1, <3>2 DEF Safe
      <4> QED BY <3>1, <4>1 DEF NoRace
    <3>3. CASE ~single
      <4>1. f \in Given(q)
        BY <1>1, <2>2, <2>4, <3>3, BegunIs DEF Safe
      <4>2. f \in Racing(s, q)
        BY <2>4, <3>1, <4>1 DEF Racing
      <4> QED BY <2>1, <3>3, <4>2
    <3> QED BY <3>2, <3>3
  <2>5. CASE t # s /\ u = s
    <3>1. f \in Deleted(q)
      BY <1>1, <2>5, BegunIs
    <3>2. CASE ~single
      <4>1. ~Free(req[t]) /\ f \in Given(req[t])
        BY <1>1, <2>2, <2>5, <3>2 DEF Safe, Begin, TypeOK
      <4>2. f \in Racing(s, q)
        BY <2>5, <3>1, <4>1 DEF Racing
      <4> QED BY <2>1, <3>2, <4>2
    <3> QED BY <2>1, <3>1, <3>2
  <2>6. CASE t # s /\ u # s
    <3>1. req'[u] = req[u] /\ req'[t] = req[t]
      BY <1>1, <2>6 DEF Begin, TypeOK
    <3> QED BY <2>1, <2>2, <3>1 DEF NoRace, Safe
  <2> QED BY <2>3, <2>4, <2>5, <2>6
<1>2. CASE ~\E q \in Requests : Begin(s, q)
  <2>1. SameRequest(s)
    BY <1>2, StepServes
  <2>2. Safe(t, f)
    BY <1>2, StaysSafe
  <2>3. ~Free(req[u]) /\ f \in Deleted(req[u])
    BY <2>1, StepMovesOne DEF SameRequest, Deleted
  <2> QED BY <2>2, <2>3 DEF NoRace
<1> QED BY <1>1, <1>2

-----------------------------------------------------------------------------
(***************************************************************************)
(* What a step does to the schema in the database.                         *)
(***************************************************************************)

\* A field of the schema, and the class, stay unless somebody drops them.
LEMMA SchemaStays ==
  ASSUME TypeOK, NEW s \in Slots, Step(s), NEW f \in Fields
  PROVE  \/ Agrees(db, db', f)
         \/ (DropFields(s) \/ DropClass(s)) /\ f \in Deleted(req[s])
<1>1. ASSUME NEW g \in Fields, UpsertField(s, g) PROVE Agrees(db, db', f)
  <2>1. g \in Given(req[s])
    BY <1>1, AsBefore DEF UpsertField
  <2>2. req[s].fields[g] \in Types
    BY <2>1, AsBefore DEF Given
  <2>3. [h \in Fields |-> IF h = g THEN req[s].fields[g] ELSE At(db, h)] \in Schemas
    BY <2>2, SchemaTypes DEF Schemas, TypeOK
  <2> QED BY <1>1, <2>3, AtSchema, NoSchema DEF UpsertField, Agrees
<1>2. CASE EnforceClassExists(s)
  BY <1>2, AtSchema, SchemaTypes, NoSchema DEF EnforceClassExists, Agrees
<1>3. CASE DropFields(s)
  <2>1. CASE db = NoClass
    BY <1>3, <2>1 DEF DropFields, Agrees
  <2>2. CASE db # NoClass
    <3>1. db \in Schemas /\ db' = [g \in Fields |-> IF g \in Deleted(req[s]) THEN None ELSE db[g]]
      BY <1>3, <2>2 DEF DropFields, TypeOK
    <3>2. db' \in Schemas
      BY <3>1 DEF Schemas
    <3> QED BY <1>3, <3>1, <3>2, AtSchema, NoSchema DEF Agrees
  <2> QED BY <2>1, <2>2
<1>4. CASE DropClass(s)
  BY <1>4, AsBefore DEF DropClass, StatesOf, Deleted
<1>5. CASE db' = db
  BY <1>5 DEF Agrees
<1> QED
  BY <1>1, <1>2, <1>3, <1>4, <1>5
     DEF Step, Begin, CallFails, LookUp, ReadSchema, CacheSchema, ClassMissing,
         EnforceFieldsExist, RefuseFields, FindField, AdditionFails, FieldsAdded,
         EnsureFields, Store, CheckUpdate, ClearCache, DropValues, CountObjects,
         DropCollection

\* What is safe with a request stays.
LEMMA SafeStays ==
  ASSUME TypeOK, NoRace, NEW s \in Slots, Step(s), NEW t \in Slots, NEW f \in Fields, Safe(t, f)
  PROVE  Agrees(db, db', f)
<1>1. DropFields(s) \/ DropClass(s) => ~Free(req[s])
  BY DEF DropFields, DropClass, Free
<1> QED BY <1>1, SchemaStays DEF NoRace

LEMMA StillAgrees ==
  ASSUME NEW v, NEW f, Agrees(v, db, f), Agrees(db, db', f)
  PROVE  Agrees(v, db', f)
BY DEF Agrees

\* What is known of a request remains so while others change the schema.
LEMMA StaysKnown ==
  ASSUME NEW r, NEW f \in Fields, Known(r, db, f), Agrees(db, db', f)
  PROVE  Known(r, db', f)
BY StillAgrees DEF Known, KnownOfGiven, Agrees, Given

-----------------------------------------------------------------------------
(***************************************************************************)
(* What a request knows when it goes on.                                   *)
(***************************************************************************)

\* Nothing more must be known at the states that only look, end or change
\* the schema.
LEMMA GoesOnKnown ==
  ASSUME TypeOK, NEW s \in Slots, NEW f \in Fields, NEW p, NEW t, NEW v, NEW a,
         Continue(s, p, t, v, a), Agrees(v, db', f),
         p \notin {"add", "ensure", "fetch", "fields", "store"},
         p \in {"read", "answer"} => t \notin {"ensure", "fetch", "fields", "store"}
  PROVE  Known(req'[s], db', f)
BY ContinueIs DEF Known, KnownOfGiven, Adds, Heading, HasRead

\* What a request takes for the schema agrees with it.
LEMMA LookUpKnown ==
  ASSUME TypeOK, NEW s \in Slots, NEW f \in Fields, LookUp(s),
         GoesOn(req[s]), Known(req[s], db, f),
         cache[CacheOf(s)] # Nothing => Agrees(cache[CacheOf(s)], db, f)
  PROVE  Known(req'[s], db', f)
<1> DEFINE r == req[s]
           cached == cache[CacheOf(s)]
           next == AfterLookUp(r)
           hit == cached # Nothing /\ (r.pc = "load" \/ cached # NoClass)
<1>1. r.pc \in {"load", "look", "fetch"} /\ db' = db
  BY DEF LookUp
<1>2. /\ next \in {"validate", "store", "check", "count"}
      /\ next = "store" => Heading(r, {"fetch", "store"}) /\ r.pc = "fetch"
  BY <1>1 DEF AfterLookUp, Heading
<1>3. next = "store" /\ f \in Given(r) => At(db, f) = r.fields[f] /\ db # NoClass
  BY <1>2, AtSchema DEF Known, KnownOfGiven, Given
<1>4. CASE hit
  <2>1. Continue(s, next, r.then, cached, r.add)
    BY <1>4 DEF LookUp
  <2>2. /\ req'[s].kind = r.kind /\ req'[s].fields = r.fields /\ req'[s].pc = next
        /\ req'[s].then = r.then /\ req'[s].schema = cached /\ req'[s].add = r.add
    BY <2>1, ContinueIs
  <2>3. Given(req'[s]) = Given(r)
    BY <2>2 DEF Given
  <2>4. Agrees(cached, db', f) /\ (next = "store" => cached # NoClass)
    BY <1>1, <1>2, <1>4
  <2> HIDE DEF next, cached, hit
  <2> QED BY <1>1, <1>2, <1>3, <2>2, <2>3, <2>4
          DEF Known, KnownOfGiven, Adds, Heading, HasRead
<1>5. CASE ~hit
  <2>1. ReadThen(s, next)
    BY <1>5 DEF LookUp
  <2>2. /\ req'[s].kind = r.kind /\ req'[s].fields = r.fields /\ req'[s].pc = "read"
        /\ req'[s].then = next /\ req'[s].schema = r.schema /\ req'[s].add = r.add
    BY <2>1, ContinueIs DEF ReadThen
  <2>3. Given(req'[s]) = Given(r)
    BY <2>2 DEF Given
  <2> HIDE DEF next, cached, hit
  <2> QED BY <1>1, <1>2, <1>3, <2>2, <2>3
          DEF Known, KnownOfGiven, Adds, Heading, HasRead
<1> QED BY <1>4, <1>5

LEMMA ReadKnown ==
  ASSUME TypeOK, NEW s \in Slots, NEW f \in Fields, ReadSchema(s) \/ CacheSchema(s),
         GoesOn(req[s]), Known(req[s], db, f)
  PROVE  Known(req'[s], db', f)
<1> DEFINE r == req[s]
<1>1. CASE ReadSchema(s)
  <2>1. /\ req'[s].kind = r.kind /\ req'[s].fields = r.fields /\ req'[s].pc = "answer"
        /\ req'[s].then = r.then /\ req'[s].schema = db /\ req'[s].add = r.add
        /\ r.pc = "read" /\ db' = db
    BY <1>1, ContinueIs DEF ReadSchema
  <2>2. Given(req'[s]) = Given(r)
    BY <2>1 DEF Given
  <2> QED BY <2>1, <2>2 DEF Known, KnownOfGiven, Adds, Heading, HasRead, Agrees, GoesOn
<1>2. CASE CacheSchema(s)
  <2>1. /\ req'[s].kind = r.kind /\ req'[s].fields = r.fields /\ req'[s].pc = r.then
        /\ req'[s].then = r.then /\ req'[s].schema = r.schema /\ req'[s].add = r.add
        /\ r.pc = "answer" /\ db' = db
    BY <1>2, ContinueIs DEF CacheSchema, Goto
  <2>2. Given(req'[s]) = Given(r)
    BY <2>1 DEF Given
  <2> QED BY <2>1, <2>2 DEF Known, KnownOfGiven, Adds, Heading, HasRead, GoesOn
<1> QED BY <1>1, <1>2

LEMMA ClassKnown ==
  ASSUME TypeOK, NEW s \in Slots, NEW f \in Fields, EnforceClassExists(s),
         Agrees(req[s].schema, db', f)
  PROVE  Known(req'[s], db', f)
<1> DEFINE r == req[s]
<1>1. /\ req'[s].kind = r.kind /\ req'[s].fields = r.fields /\ req'[s].pc = "read"
      /\ req'[s].then = "fields" /\ req'[s].schema = r.schema
      /\ (req'[s].add = NothingAdded(r) \/ db' # NoClass)
  BY ContinueIs, SchemaTypes, NoSchema DEF EnforceClassExists, ReadThen
<1>2. Given(req'[s]) = Given(r)
  BY <1>1 DEF Given
<1>3. f \in Given(r) => NothingAdded(r)[f] = "lost"
  BY DEF NothingAdded
<1> QED BY <1>1, <1>2, <1>3 DEF Known, KnownOfGiven, Adds, Heading, HasRead

\* What is checked, what is being added, and what is to be stored.
LEMMA ValidatedKnown ==
  ASSUME TypeOK, NEW s \in Slots, NEW f \in Fields, EnforceFieldsExist(s), Known(req[s], db, f)
  PROVE  Known(req'[s], db', f)
<1> DEFINE r == req[s]
           new == NewFields(r)
           p == IF new # {} THEN "add" ELSE IF r.kind = "write" THEN "fetch" ELSE "read"
<1>1. /\ req'[s].kind = r.kind /\ req'[s].fields = r.fields /\ req'[s].schema = r.schema
      /\ req'[s].pc = p /\ req'[s].then = "ensure" /\ req'[s].add = Adding(new)
      /\ db' = db
  BY ContinueIs DEF EnforceFieldsExist
<1>2. Given(req'[s]) = Given(r)
  BY <1>1 DEF Given
<1>3. f \in Given(r) /\ f \notin new => At(db, f) = r.fields[f]
  BY DEF EnforceFieldsExist, Mismatch, NewFields, Given, Known, Agrees
<1>4. Adding(new)[f] = (IF f \in new THEN "find" ELSE "no")
  BY DEF Adding
<1>5. p \in {"add", "fetch", "read"} /\ (p = "fetch" => f \notin new)
  OBVIOUS
<1>6. Agrees(r.schema, db', f)
  BY <1>1 DEF Known
<1> HIDE DEF new, p
<1> QED BY <1>1, <1>2, <1>3, <1>4, <1>5, <1>6
        DEF Known, KnownOfGiven, Adds, Heading, HasRead

\* An addition that comes to its end, or a step nearer to it.
LEMMA AddingKnown ==
  ASSUME TypeOK, NEW s \in Slots, NEW g \in Fields, NEW f \in Fields,
         FindField(s, g) \/ UpsertField(s, g) \/ AdditionFails(s, g),
         GoesOn(req[s]), Known(req[s], db', f)
  PROVE  Known(req'[s], db', f)
<1> DEFINE r == req[s]
<1>1. g \in Pending(r)
  BY DEF FindField, UpsertField, AdditionFails, Pending
<1>2. PICK p, result :
        /\ GoOnAdding(s, p, g, result)
        /\ p = r.pc \/ p = "failed"
        /\ result \in {"upsert", "done", "lost"}
        /\ result = "done" => p # "add" \/ At(db', g) # None
  <2>1. CASE FindField(s, g)
    <3> DEFINE refused == At(db, g) = None /\ r.fields[g] = GeoPoint
                          /\ GeoFields(Fields, db) # {}
               p == IF refused /\ r.pc = "add" THEN "failed" ELSE r.pc
               result == IF refused THEN "done" ELSE "upsert"
    <3>1. GoOnAdding(s, p, g, result)
      BY <2>1 DEF FindField
    <3>2. /\ p = r.pc \/ p = "failed"
          /\ result \in {"upsert", "done", "lost"}
          /\ result = "done" => p # "add"
      OBVIOUS
    <3> QED BY <3>1, <3>2
  <2>2. CASE UpsertField(s, g)
    <3>1. g \in Given(r)
      BY <1>1, AsBefore DEF Pending
    <3>2. r.fields[g] \in Types
      BY <3>1, AsBefore DEF Given
    <3>3. [h \in Fields |-> IF h = g THEN r.fields[g] ELSE At(db, h)] \in Schemas
      BY <3>2, SchemaTypes DEF Schemas, TypeOK
    <3>4. At(db', g) # None
      BY <2>2, <3>2, <3>3, AtSchema, SchemaConstants DEF UpsertField
    <3> QED BY <2>2, <3>4 DEF UpsertField
  <2>3. CASE AdditionFails(s, g)
    BY <2>3 DEF AdditionFails
  <2> QED BY <2>1, <2>2, <2>3
<1>3. /\ req'[s].kind = r.kind /\ req'[s].fields = r.fields /\ req'[s].schema = r.schema
      /\ req'[s].pc = p /\ req'[s].then = r.then /\ req'[s].add = [r.add EXCEPT ![g] = result]
  BY <1>2, ContinueIs DEF GoOnAdding
<1>4. Given(req'[s]) = Given(r)
  BY <1>3 DEF Given
<1>5. ~Heading(r, {"ensure"})
  BY <1>1 DEF GoesOn
<1>6. req'[s].add[f] = IF f = g THEN result ELSE r.add[f]
  BY <1>3, AsBefore
<1>7. r.add[g] # "lost"
  BY <1>1 DEF Pending
<1> QED BY <1>2, <1>3, <1>4, <1>5, <1>6, <1>7 DEF Known, KnownOfGiven, Adds, Heading, HasRead

LEMMA EnsuredKnown ==
  ASSUME TypeOK, NEW s \in Slots, NEW f \in Fields, EnsureFields(s),
         GoesOn(req[s]), Known(req[s], db, f)
  PROVE  Known(req'[s], db', f)
<1> DEFINE r == req[s]
<1>1. db' = db /\ Agrees(r.schema, db', f)
  BY DEF EnsureFields, Known
<1>2. CASE Goto(s, "failed") \/ Goto(s, "done")
  BY <1>1, <1>2, GoesOnKnown DEF Goto
<1>3. CASE Ensured(r) /\ Goto(s, "fetch")
  <2>1. /\ req'[s].kind = r.kind /\ req'[s].fields = r.fields /\ req'[s].schema = r.schema
        /\ req'[s].pc = "fetch"
    BY <1>3, ContinueIs DEF Goto
  <2>2. ASSUME f \in Given(r) PROVE At(db, f) = r.fields[f]
    <3>1. r.fields[f] # None /\ Pending(r) = {} /\ Adds(r)
      BY <2>2 DEF Given, GoesOn, Adds, Heading, EnsureFields
    <3>2. CASE r.add[f] = "no"
      BY <2>2, <3>1, <3>2 DEF Known, KnownOfGiven
    <3>3. CASE r.add[f] \in {"done", "lost"}
      BY <1>3, <3>1, <3>3 DEF Ensured, Known, Agrees
    <3> QED BY <3>1, <3>2, <3>3, AsBefore DEF Pending
  <2>3. Given(req'[s]) = Given(r)
    BY <2>1 DEF Given
  <2> QED BY <1>1, <2>1, <2>2, <2>3 DEF Known, KnownOfGiven, Adds, Heading, HasRead
<1> QED BY <1>2, <1>3 DEF EnsureFields

LEMMA AddedKnown ==
  ASSUME TypeOK, NEW s \in Slots, NEW f \in Fields, FieldsAdded(s), Known(req[s], db, f)
  PROVE  Known(req'[s], db', f)
<1> DEFINE r == req[s]
<1>1. /\ req'[s].kind = r.kind /\ req'[s].fields = r.fields /\ req'[s].schema = r.schema
      /\ req'[s].pc = "read" /\ req'[s].then = "ensure" /\ req'[s].add = r.add
      /\ db' = db /\ Adds(r)
  BY ContinueIs DEF FieldsAdded, ReadThen, Adds
<1>2. Given(req'[s]) = Given(r)
  BY <1>1 DEF Given
<1> QED BY <1>1, <1>2 DEF Known, KnownOfGiven, Adds, Heading, HasRead

\* Changing the class: its additions begin with nothing known.
LEMMA ChangingKnown ==
  ASSUME TypeOK, NEW s \in Slots, NEW f \in Fields,
         \/ CheckUpdate(s) \/ ClearCache(s) \/ DropValues(s) \/ DropFields(s)
         \/ CountObjects(s) \/ DropCollection(s) \/ DropClass(s),
         Agrees(req[s].schema, db', f)
  PROVE  Known(req'[s], db', f)
<1>1. CASE CheckUpdate(s) \/ ClearCache(s)
  <2>1. /\ req'[s].kind = req[s].kind /\ req'[s].schema = req[s].schema
        /\ req'[s].pc \in {"failed", "clear", "read"}
        /\ req'[s].then \in {"dropValues", "fields"}
    BY <1>1, ContinueIs DEF CheckUpdate, ClearCache, ReadThen
  <2>2. req[s].kind # "write"
    BY <1>1, AsBefore DEF CheckUpdate, ClearCache, StatesOf
  <2> QED BY <2>1, <2>2 DEF Known, KnownOfGiven, Adds, Heading, HasRead
<1>2. CASE DropValues(s) \/ DropFields(s)
  BY <1>2, GoesOnKnown DEF DropValues, DropFields, Goto
<1>3. CASE CountObjects(s) \/ DropCollection(s) \/ DropClass(s)
  BY <1>3, GoesOnKnown DEF CountObjects, DropCollection, DropClass, Goto
<1> QED BY <1>1, <1>2, <1>3

\* The request that goes on knows what it must about every field that is safe.
LEMMA StepKnown ==
  ASSUME SInv, NEW s \in Slots, Step(s), NEW f \in Fields, Safe(s, f)'
  PROVE  Known(req'[s], db', f)
<1>1. ASSUME NEW q \in Requests, Begin(s, q) PROVE Known(req'[s], db', f)
  <2>1. Agrees(NoClass, db', f)
    BY AtSchema DEF Agrees
  <2> QED BY <1>1, <2>1, BegunIs DEF SInv, Known, KnownOfGiven, Adds, Heading, HasRead
<1>2. ASSUME ~\E q \in Requests : Begin(s, q) PROVE Known(req'[s], db', f)
  <2>1. TypeOK /\ Safe(s, f) /\ GoesOn(req[s])
    BY <1>2, StaysSafe DEF SInv, RequestsKnow
  <2>2. Known(req[s], db, f) /\ Agrees(db, db', f)
    BY <2>1, SafeStays DEF SInv, RequestsKnow
  <2>3. Known(req[s], db', f) /\ Agrees(req[s].schema, db', f)
    BY <2>2, StaysKnown DEF Known
  <2>4. CASE CallFails(s)
    BY <2>1, <2>3, <2>4, GoesOnKnown DEF CallFails
  <2>5. CASE LookUp(s)
    BY <2>1, <2>2, <2>5, LookUpKnown DEF SInv, CachesAgree
  <2>6. CASE ReadSchema(s) \/ CacheSchema(s)
    BY <2>1, <2>2, <2>6, ReadKnown
  <2>7. CASE EnforceClassExists(s)
    BY <2>1, <2>3, <2>7, ClassKnown
  <2>8. CASE ClassMissing(s) \/ Store(s)
    BY <2>1, <2>3, <2>8, GoesOnKnown DEF ClassMissing, Store, Goto
  <2>9. CASE EnforceFieldsExist(s)
    BY <2>1, <2>2, <2>9, ValidatedKnown
  <2>10. CASE RefuseFields(s)
    BY <2>1, <2>3, <2>10, GoesOnKnown DEF RefuseFields
  <2>11. CASE \E g \in Fields : FindField(s, g) \/ UpsertField(s, g) \/ AdditionFails(s, g)
    BY <2>1, <2>3, <2>11, AddingKnown
  <2>12. CASE FieldsAdded(s)
    BY <2>1, <2>2, <2>12, AddedKnown
  <2>13. CASE EnsureFields(s)
    BY <2>1, <2>2, <2>13, EnsuredKnown
  <2>14. CASE \/ CheckUpdate(s) \/ ClearCache(s) \/ DropValues(s) \/ DropFields(s)
              \/ CountObjects(s) \/ DropCollection(s) \/ DropClass(s)
    BY <2>1, <2>3, <2>14, ChangingKnown
  <2> QED
    BY <1>2, <2>4, <2>5, <2>6, <2>7, <2>8, <2>9, <2>10, <2>11, <2>12, <2>13, <2>14 DEF Step
<1> QED BY <1>1, <1>2

LEMMA StepGoesOn ==
  ASSUME TypeOK, NEW s \in Slots, Step(s), GoesOn(req[s])
  PROVE  GoesOn(req'[s])
<1>1. ASSUME NEW q \in Requests, Begin(s, q) PROVE GoesOn(req'[s])
  BY <1>1, BegunIs DEF GoesOn, Heading
<1>2. CASE CallFails(s) \/ ClassMissing(s) \/ EnsureFields(s) \/ Store(s)
  BY <1>2, ContinueIs DEF CallFails, ClassMissing, EnsureFields, Store, Goto, GoesOn, Heading
<1>3. CASE LookUp(s)
  <2>1. /\ AfterLookUp(req[s]) \in {"validate", "store", "check", "count"}
        /\ req'[s].pc = AfterLookUp(req[s])
           \/ (req'[s].pc = "read" /\ req'[s].then = AfterLookUp(req[s]))
    BY <1>3, ContinueIs DEF LookUp, ReadThen, AfterLookUp
  <2> QED BY <2>1 DEF GoesOn, Heading
<1>4. CASE ReadSchema(s)
  <2>1. req'[s].pc = "answer" /\ req'[s].then = req[s].then /\ req'[s].add = req[s].add
    BY <1>4, ContinueIs DEF ReadSchema
  <2> QED BY <1>4, <2>1 DEF ReadSchema, GoesOn, Heading, Pending
<1>5. CASE CacheSchema(s)
  <2>1. req'[s].pc = req[s].then /\ req'[s].then = req[s].then /\ req'[s].add = req[s].add
    BY <1>5, ContinueIs DEF CacheSchema, Goto
  <2> QED BY <1>5, <2>1 DEF CacheSchema, GoesOn, Heading, Pending
<1>6. CASE EnforceClassExists(s)
  BY <1>6, ContinueIs DEF EnforceClassExists, ReadThen, GoesOn, Heading
<1>7. CASE EnforceFieldsExist(s)
  <2> DEFINE new == NewFields(req[s])
  <2>1. /\ req'[s].pc = IF new # {} THEN "add" ELSE IF req[s].kind = "write" THEN "fetch" ELSE "read"
        /\ req'[s].then = "ensure" /\ req'[s].add = Adding(new)
    BY <1>7, ContinueIs DEF EnforceFieldsExist
  <2>2. new = {} => \A f \in Fields : Adding(new)[f] = "no"
    BY DEF Adding
  <2> HIDE DEF new
  <2> QED BY <2>1, <2>2 DEF GoesOn, Heading, Pending
<1>8. CASE RefuseFields(s)
  BY <1>8, ContinueIs DEF RefuseFields, GoesOn, Heading
<1>9. ASSUME NEW f \in Fields, FindField(s, f) \/ UpsertField(s, f) \/ AdditionFails(s, f)
      PROVE  GoesOn(req'[s])
  <2>1. f \in Pending(req[s])
    BY <1>9 DEF FindField, UpsertField, AdditionFails, Pending
  <2>2. req'[s].then = req[s].then /\ req'[s].pc \in {req[s].pc, "failed"}
    BY <1>9, ContinueIs DEF FindField, UpsertField, AdditionFails, GoOnAdding
  <2> QED BY <2>1, <2>2 DEF GoesOn, Heading
<1>10. CASE FieldsAdded(s)
  <2>1. req'[s].pc = "read" /\ req'[s].then = "ensure" /\ req'[s].add = req[s].add
    BY <1>10, ContinueIs DEF FieldsAdded, ReadThen
  <2> QED BY <1>10, <2>1 DEF FieldsAdded, GoesOn, Heading, Pending
<1>11. CASE CheckUpdate(s) \/ ClearCache(s) \/ DropValues(s) \/ DropFields(s)
  BY <1>11, ContinueIs
     DEF CheckUpdate, ClearCache, DropValues, DropFields, Goto, ReadThen, GoesOn, Heading
<1>12. CASE CountObjects(s) \/ DropCollection(s) \/ DropClass(s)
  BY <1>12, ContinueIs DEF CountObjects, DropCollection, DropClass, Goto, GoesOn, Heading
<1> QED
  BY <1>1, <1>2, <1>3, <1>4, <1>5, <1>6, <1>7, <1>8, <1>9, <1>10, <1>11, <1>12 DEF Step

-----------------------------------------------------------------------------
LEMMA CachesStep ==
  ASSUME SInv, NEW s \in Slots, Step(s)
  PROVE  CachesAgree'
<1> SUFFICES ASSUME NEW t \in Slots, NEW f \in Fields, Safe(t, f)',
                    cache'[CacheOf(t)'] # Nothing
             PROVE  Agrees(cache'[CacheOf(t)'], db', f)
  BY DEF CachesAgree
<1>1. ASSUME NEW q \in Requests, Begin(s, q) PROVE Agrees(cache'[CacheOf(t)'], db', f)
  <2>1. CASE t = s /\ ~single
    BY <1>1, <2>1 DEF Begin, CacheOf, SInv, TypeOK
  <2>2. CASE t # s \/ single
    <3>1. Safe(t, f)
      BY <1>1, <2>2, StaysSafe, StepMovesOne DEF SInv, Begin, Safe
    <3>2. cache'[CacheOf(t)'] = cache[CacheOf(t)] /\ db' = db
      BY <1>1, <2>2 DEF Begin, CacheOf, SInv, TypeOK
    <3> QED BY <3>1, <3>2 DEF SInv, CachesAgree
  <2> QED BY <2>1, <2>2
<1>2. ASSUME ~\E q \in Requests : Begin(s, q) PROVE Agrees(cache'[CacheOf(t)'], db', f)
  <2>1. Safe(t, f) /\ SameRequest(s)
    BY <1>2, StaysSafe, StepServes DEF SInv
  <2>2. CacheOf(t)' = CacheOf(t) /\ CacheOf(t) \in Slots \cup {Shared}
    BY <2>1 DEF SameRequest, CacheOf
  <2>3. Agrees(db, db', f)
    BY <2>1, SafeStays DEF SInv
  <2>4. cache[CacheOf(t)] # Nothing => Agrees(cache[CacheOf(t)], db', f)
    BY <2>1, <2>3, StillAgrees DEF SInv, CachesAgree
  <2>5. CASE CacheSchema(s)
    <3>1. CASE CacheOf(t) = CacheOf(s)
      <4>1. Safe(s, f)
        BY <2>1, <3>1, SchemaConstants DEF Safe, CacheOf
      <4>2. Agrees(req[s].schema, db', f)
        BY <2>3, <4>1, StillAgrees DEF SInv, RequestsKnow, Known
      <4> QED BY <2>2, <2>5, <3>1, <4>2 DEF CacheSchema, SInv, TypeOK
    <3>2. CASE CacheOf(t) # CacheOf(s)
      BY <2>2, <2>4, <2>5, <3>2 DEF CacheSchema, SInv, TypeOK
    <3> QED BY <3>1, <3>2
  <2>6. CASE ClearCache(s)
    BY <2>2, <2>4, <2>6 DEF ClearCache, SInv, TypeOK
  <2>7. CASE cache' = cache
    BY <2>2, <2>4, <2>7
  <2> QED
    BY <1>2, <2>5, <2>6, <2>7
       DEF Step, CallFails, LookUp, ReadSchema, EnforceClassExists, ClassMissing,
           EnforceFieldsExist, RefuseFields, FindField, UpsertField, AdditionFails,
           FieldsAdded, EnsureFields, Store, CheckUpdate, DropValues, DropFields,
           CountObjects, DropCollection, DropClass
<1> QED BY <1>1, <1>2

\* Deletions that race with a write are remembered.
LEMMA RacedGrows ==
  ASSUME TypeOK, NEW s \in Slots, Step(s)
  PROVE  raced \subseteq raced'
<1>1. CASE \E q \in Requests : Begin(s, q)
  BY <1>1 DEF Begin
<1>2. CASE ~\E q \in Requests : Begin(s, q)
  BY <1>2, StepServes DEF SameRequest
<1> QED BY <1>1, <1>2

\* What is stored has the type of the schema, and an object that comes in gives
\* only fields that nobody else is deleting.
LEMMA ObjectsStep ==
  ASSUME SInv, NEW s \in Slots, Step(s), NEW o \in objects', NEW f \in Fields \ raced,
         o[f] # None
  PROVE  \/ /\ \E p \in objects : p[f] = o[f]
            /\ ~(DropValues(s) /\ req'[s].pc = "dropFields" /\ f \in Deleted(req[s]))
            /\ ~DropCollection(s)
         \/ Store(s) /\ Safe(s, f) /\ o = req[s].fields /\ f \in Given(req[s])
<1>1. CASE Store(s)
  <2>1. req[s].kind = "write"
    BY <1>1, AsBefore DEF Store, StatesOf, SInv
  <2>2. req[s].fields[f] # Delete
    BY <2>1 DEF SInv, TypeOK, RequestOK, Deleted
  <2>3. o = req[s].fields => f \in Given(req[s]) /\ Safe(s, f)
    BY <1>1, <2>2 DEF Store, Given, Safe, Free
  <2>4. ~DropValues(s) /\ ~DropCollection(s)
    BY <1>1 DEF Store, DropValues, DropCollection
  <2>5. o \in objects \/ o = req[s].fields
    BY <1>1 DEF Store
  <2> QED BY <1>1, <2>3, <2>4, <2>5
<1>2. CASE DropValues(s)
  <2>1. ~DropCollection(s)
    BY <1>2 DEF DropValues, DropCollection
  <2>2. CASE objects' = {[g \in Fields |-> IF g \in Deleted(req[s]) THEN None ELSE p[g]] :
                           p \in objects}
    <3>1. PICK p \in objects : o = [g \in Fields |-> IF g \in Deleted(req[s]) THEN None ELSE p[g]]
      BY <2>2
    <3>2. f \notin Deleted(req[s]) /\ o[f] = p[f]
      BY <3>1
    <3> QED BY <2>1, <3>2
  <2>3. CASE objects' = objects /\ Goto(s, "failed")
    BY <2>1, <2>3, ContinueIs DEF Goto, SInv
  <2> QED BY <1>2, <2>2, <2>3 DEF DropValues
<1>3. CASE DropCollection(s)
  BY <1>3 DEF DropCollection
<1>4. CASE objects' = objects /\ ~DropValues(s) /\ ~DropCollection(s)
  BY <1>4
<1> QED
  BY <1>1, <1>2, <1>3, <1>4
     DEF Step, Begin, CallFails, LookUp, ReadSchema, CacheSchema, EnforceClassExists,
         ClassMissing, EnforceFieldsExist, RefuseFields, FindField, UpsertField,
         AdditionFails, FieldsAdded, EnsureFields, CheckUpdate, ClearCache, DropFields,
         CountObjects, DropClass

LEMMA StoredStep ==
  ASSUME SInv, NEW s \in Slots, Step(s)
  PROVE  StoredAgree'
<1> SUFFICES ASSUME NEW o \in objects', NEW f \in Fields \ raced', o[f] # None
             PROVE  At(db', f) = o[f]
  BY DEF StoredAgree
<1>1. f \in Fields \ raced
  BY RacedGrows DEF SInv
<1>2. CASE \E p \in objects : p[f] = o[f]
  <2>1. PICK p \in objects : p[f] = o[f]
    BY <1>2
  <2>2. At(db, f) = o[f]
    BY <1>1, <2>1 DEF SInv, StoredAgree
  <2>3. ~((DropFields(s) \/ DropClass(s)) /\ f \in Deleted(req[s]))
    BY <1>1, <2>1 DEF SInv, Emptied, Heading, DropFields, DropClass
  <2> QED BY <1>1, <2>2, <2>3, SchemaStays DEF SInv, Agrees
<1>3. CASE Store(s) /\ Safe(s, f) /\ o = req[s].fields /\ f \in Given(req[s])
  BY <1>1, <1>3 DEF SInv, RequestsKnow, Known, KnownOfGiven, Heading, Store
<1> QED BY <1>1, <1>2, <1>3, ObjectsStep

LEMMA ComesToDrop ==
  ASSUME TypeOK, NEW s \in Slots, Step(s), Heading(req'[s], {"dropFields", "dropClass"})
  PROVE  \/ Heading(req[s], {"dropFields", "dropClass"}) /\ SameRequest(s) /\ ~Store(s)
         \/ DropValues(s) /\ req'[s].pc = "dropFields"
         \/ DropCollection(s)
<1>1. ~\E q \in Requests : Begin(s, q)
  BY BegunIs DEF Heading
<1>2. SameRequest(s)
  BY <1>1, StepServes
<1>3. ~(CallFails(s) \/ ClassMissing(s) \/ EnsureFields(s) \/ Store(s) \/ LookUp(s))
  BY ContinueIs
     DEF CallFails, ClassMissing, EnsureFields, Store, LookUp, AfterLookUp, ReadThen, Goto, Heading
<1>4. CASE ReadSchema(s) \/ CacheSchema(s)
  BY <1>2, <1>3, <1>4, ContinueIs DEF ReadSchema, CacheSchema, Goto, Heading
<1>5. ~(EnforceClassExists(s) \/ EnforceFieldsExist(s) \/ RefuseFields(s) \/ FieldsAdded(s))
  BY ContinueIs
     DEF EnforceClassExists, EnforceFieldsExist, RefuseFields, FieldsAdded, ReadThen, Heading
<1>6. CASE \E f \in Fields : FindField(s, f) \/ UpsertField(s, f) \/ AdditionFails(s, f)
  BY <1>2, <1>3, <1>6, ContinueIs DEF FindField, UpsertField, AdditionFails, GoOnAdding, Heading
<1>7. ~(CheckUpdate(s) \/ ClearCache(s) \/ DropFields(s) \/ CountObjects(s) \/ DropClass(s))
  BY ContinueIs
     DEF CheckUpdate, ClearCache, DropFields, CountObjects, DropClass, ReadThen, Goto, Heading
<1>8. CASE DropValues(s)
  BY <1>8, ContinueIs DEF DropValues, Goto, Heading
<1> QED BY <1>1, <1>3, <1>4, <1>5, <1>6, <1>7, <1>8 DEF Step

LEMMA EmptiedStep ==
  ASSUME SInv, NEW s \in Slots, Step(s)
  PROVE  Emptied'
<1> SUFFICES ASSUME NEW t \in Slots, Heading(req'[t], {"dropFields", "dropClass"}),
                    NEW o \in objects', NEW f \in Deleted(req'[t]) \ raced', o[f] # None
             PROVE  FALSE
  BY DEF Emptied
<1>1. f \in Fields \ raced
  BY RacedGrows DEF SInv, Deleted
<1>2. CASE t # s
  <2>1. req'[t] = req[t]
    BY <1>2, StepMovesOne DEF SInv
  <2>2. ~Free(req[t]) /\ f \in Deleted(req[t])
    BY <2>1 DEF Free, Heading
  <2>3. ~Safe(s, f)
    BY <1>1, <2>2 DEF SInv, NoRace
  <2>4. PICK p \in objects : p[f] = o[f]
    BY <1>1, <2>3, ObjectsStep
  <2> QED BY <1>1, <2>1, <2>2, <2>4 DEF SInv, Emptied
<1>3. CASE t = s
  <2>1. CASE Heading(req[s], {"dropFields", "dropClass"}) /\ SameRequest(s) /\ ~Store(s)
    <3>1. PICK p \in objects : p[f] = o[f]
      BY <1>1, <2>1, ObjectsStep
    <3>2. f \in Deleted(req[s]) \ raced
      BY <1>1, <1>3, <2>1 DEF SameRequest, Deleted
    <3> QED BY <2>1, <3>1, <3>2 DEF SInv, Emptied
  <2>2. CASE DropValues(s) /\ req'[s].pc = "dropFields"
    <3>1. f \in Deleted(req[s])
      BY <1>3, <2>2, ContinueIs DEF DropValues, Goto, Deleted, SInv
    <3>2. ~Store(s)
      BY <2>2 DEF DropValues, Store
    <3> QED BY <1>1, <2>2, <3>1, <3>2, ObjectsStep
  <2>3. CASE DropCollection(s)
    BY <1>1, <2>3, ObjectsStep DEF DropCollection, Store
  <2> QED BY <1>3, <2>1, <2>2, <2>3, ComesToDrop DEF SInv
<1> QED BY <1>2, <1>3

LEMMA SInvInit == Init => SInv
<1> SUFFICES ASSUME Init PROVE SInv
  OBVIOUS
<1>1. \A s \in Slots : req[s] = IdleRequest
  BY DEF Init
<1>2. Given(IdleRequest) = {} /\ Pending(IdleRequest) = {} /\ Deleted(IdleRequest) = {}
  BY SchemaConstants DEF Given, Pending, Deleted, IdleRequest, Absent, NoAdds
<1>3. NoRace /\ Emptied
  BY <1>1, <1>2 DEF NoRace, Emptied, Init
<1>4. \A f \in Fields : Known(IdleRequest, db, f)
  BY <1>2, AtSchema DEF Known, Agrees, IdleRequest
<1>5. GoesOn(IdleRequest)
  BY DEF GoesOn, IdleRequest, Heading
<1>6. CachesAgree /\ StoredAgree
  BY DEF Init, CachesAgree, StoredAgree, CacheOf
<1> QED BY <1>1, <1>3, <1>4, <1>5, <1>6, TypeInit DEF SInv, RequestsKnow

LEMMA SInvStep == SInv /\ [Next]_vars => SInv'
<1> SUFFICES ASSUME SInv, [Next]_vars PROVE SInv'
  OBVIOUS
<1>1. TypeOK'
  BY TypeStep DEF SInv
<1>2. CASE UNCHANGED vars
  <2>1. \A s \in Slots, f \in Fields : Safe(s, f)' = Safe(s, f)
    BY <1>2 DEF vars, Safe
  <2>2. NoRace' /\ RequestsKnow' /\ CachesAgree'
    BY <1>2, <2>1 DEF vars, SInv, NoRace, RequestsKnow, CachesAgree, CacheOf
  <2>3. StoredAgree' /\ Emptied'
    BY <1>2 DEF vars, SInv, StoredAgree, Emptied
  <2> QED BY <1>1, <2>2, <2>3 DEF SInv
<1>3. CASE Expire
  <2>1. \A s \in Slots, f \in Fields : Safe(s, f)' = Safe(s, f)
    BY <1>3 DEF Expire, Safe
  <2>2. NoRace' /\ RequestsKnow'
    BY <1>3, <2>1 DEF Expire, SInv, NoRace, RequestsKnow
  <2>3. CachesAgree'
    BY <1>3, <2>1 DEF Expire, SInv, CachesAgree, CacheOf, TypeOK
  <2>4. StoredAgree' /\ Emptied'
    BY <1>3 DEF Expire, SInv, StoredAgree, Emptied
  <2> QED BY <1>1, <2>2, <2>3, <2>4 DEF SInv
<1>4. ASSUME NEW s \in Slots, Step(s) PROVE SInv'
  <2>1. NoRace' /\ StoredAgree' /\ Emptied' /\ CachesAgree'
    BY <1>4, NoRaceStep, StoredStep, EmptiedStep, CachesStep DEF SInv
  <2>2. ASSUME NEW t \in Slots
        PROVE  GoesOn(req'[t]) /\ \A f \in Fields : Safe(t, f)' => Known(req'[t], db', f)
    <3>1. CASE t = s
      BY <1>4, <3>1, StepGoesOn, StepKnown DEF SInv, RequestsKnow
    <3>2. CASE t # s
      <4>1. req'[t] = req[t]
        BY <1>4, <3>2, StepMovesOne DEF SInv
      <4>2. ASSUME NEW f \in Fields, Safe(t, f)' PROVE Known(req'[t], db', f)
        <5>1. Safe(t, f)
          BY <1>4, <3>2, <4>2, StaysSafe DEF SInv
        <5> QED BY <1>4, <4>1, <5>1, SafeStays, StaysKnown DEF SInv, RequestsKnow
      <4> QED BY <4>1, <4>2 DEF SInv, RequestsKnow
    <3> QED BY <3>1, <3>2
  <2> QED BY <1>1, <2>1, <2>2 DEF SInv, RequestsKnow
<1> QED BY <1>2, <1>3, <1>4 DEF Next

THEOREM Invariance == Spec => []SInv
BY SInvInit, SInvStep, PTL DEF Spec

\* Every value stored has the type that the schema in the database gives its
\* field, except for fields deleted while they were written, whatever requests
\* do at the same time, with either kind of cache and whatever fails.
THEOREM SchemaKept == Spec => []StoredMatchesSchema
<1>1. SInv => StoredMatchesSchema
  BY DEF SInv, StoredAgree, StoredMatchesSchema
<1> QED BY <1>1, Invariance, PTL

-----------------------------------------------------------------------------
(***************************************************************************)
(* Refusals.                                                               *)
(***************************************************************************)

\* Writes that give a field.
EveryWriteGives == \A q \in Requests : q.kind = "write" => Given(q) # {}
WritesGive == \A s \in Slots : req[s].kind = "write" => req[s].pc = "idle" \/ Given(req[s]) # {}

LEMMA WritesGiveHolds == ASSUME EveryWriteGives PROVE Spec => []WritesGive
<1>1. Init => WritesGive
  BY DEF Init, WritesGive, IdleRequest
<1>2. TypeOK /\ WritesGive /\ [Next]_vars => WritesGive'
  <2> SUFFICES ASSUME TypeOK, WritesGive, [Next]_vars PROVE WritesGive'
    OBVIOUS
  <2>1. CASE UNCHANGED req
    BY <2>1 DEF WritesGive
  <2>2. ASSUME NEW s \in Slots, Step(s) PROVE WritesGive'
    <3> SUFFICES ASSUME NEW t \in Slots, req'[t].kind = "write", req'[t].pc # "idle"
                 PROVE  Given(req'[t]) # {}
      BY DEF WritesGive
    <3>1. CASE t # s
      BY <2>2, <3>1, StepMovesOne DEF WritesGive
    <3>2. ASSUME t = s, NEW q \in Requests, Begin(s, q) PROVE Given(req'[t]) # {}
      BY <3>2, BegunIs DEF EveryWriteGives
    <3>3. ASSUME t = s, ~\E q \in Requests : Begin(s, q) PROVE Given(req'[t]) # {}
      <4>1. SameRequest(s)
        BY <2>2, <3>3, StepServes
      <4>2. req[s].pc # "idle" \/ Given(req[s]) # {}
        BY <4>1, AsBefore DEF SameRequest, Free, Pending
      <4> QED BY <3>3, <4>1, <4>2 DEF SameRequest, WritesGive, Given
    <3> QED BY <3>1, <3>2, <3>3
  <2> QED BY <2>1, <2>2 DEF Next, Expire, vars
<1> QED BY <1>1, <1>2, TypeCorrect, PTL DEF Spec

\* A field that is given, not raced and not lost is safe and known.
LEMMA GivenIsKnown ==
  ASSUME SInv, NEW s \in Slots, ~Free(req[s]), NEW f \in Given(req[s]), f \notin raced
  PROVE  Known(req[s], db, f)
BY DEF SInv, RequestsKnow, Safe, Given

LEMMA MissingConflicts ==
  ASSUME SInv, NEW s \in Slots, ClassMissing(s), Given(req[s]) # {}
  PROVE  Conflict(req[s])
<1>1. PICK f \in Given(req[s]) : TRUE
  OBVIOUS
<1>2. ASSUME f \notin raced, req[s].add[f] # "lost" PROVE FALSE
  <2>1. ~Free(req[s])
    BY DEF ClassMissing, Free
  <2> QED BY <1>2, <2>1, GivenIsKnown DEF ClassMissing, Known, KnownOfGiven, HasRead
<1> QED BY <1>1, <1>2 DEF Conflict

LEMMA RefusalConflicts ==
  ASSUME SInv, NEW s \in Slots, RefuseFields(s), req[s].kind = "write"
  PROVE  Conflict(req[s])
<1>1. CASE TwoGeoPoints(req[s])
  BY <1>1 DEF Conflict
<1>2. CASE Mismatch(req[s])
  <2>1. PICK f \in Given(req[s]) :
          At(req[s].schema, f) # None /\ req[s].fields[f] # At(req[s].schema, f)
    BY <1>2 DEF Mismatch, NewFields
  <2>2. CASE f \in raced
    BY <2>1, <2>2 DEF Conflict
  <2>3. CASE f \notin raced
    <3>1. ~Free(req[s])
      BY DEF RefuseFields, Validating, Free
    <3>2. At(db, f) = At(req[s].schema, f)
      BY <2>1, <2>3, <3>1, GivenIsKnown DEF Known, Agrees
    <3> QED BY <2>1, <3>2 DEF Conflict
  <2> QED BY <2>2, <2>3
<1> QED BY <1>1, <1>2 DEF RefuseFields

\* Of two GeoPoint fields one is given already or is another request's.
LEMMA GeoPointConflicts ==
  ASSUME TypeOK, NEW s \in Slots, NEW f \in Given(req[s]),
         At(db, f) = None, req[s].fields[f] = GeoPoint, GeoFields(Fields, db) # {},
         req[s].kind = "write"
  PROVE  Conflict(req[s])
<1> DEFINE r == req[s]
           given == GeoFields(Given(r), r.fields)
<1>1. PICK g \in Fields : At(db, g) = GeoPoint
  BY DEF GeoFields
<1>2. r.fields \in Schemas
  BY SchemaConstants DEF TypeOK, RequestOK, Served, Deleted, Schemas
<1>3. \A h \in Given(r) : At(r.fields, h) = r.fields[h] /\ h \in Fields /\ r.fields[h] # None
  BY <1>2, AtSchema DEF Given
<1>4. f \in given /\ g # f
  BY <1>1, <1>3 DEF GeoFields, Given
<1>5. CASE g \notin given
  BY <1>1, <1>4, <1>5 DEF Conflict, GeoFields
<1>6. CASE g \in given
  <2>1. IsFiniteSet(given)
    <3>1. given \subseteq Fields
      BY DEF GeoFields, Given
    <3> QED BY <3>1, SchemaConstants, FS_Subset
  <2>2. Cardinality({f}) = 1 /\ Cardinality(given) \in Nat
    BY <2>1, FS_Singleton, FS_CardinalityType
  <2>3. Cardinality({f}) <= Cardinality(given) /\ Cardinality({f}) # Cardinality(given)
    BY <1>4, <1>6, <2>1, FS_Subset
  <2>4. Cardinality(given) > 1
    BY <2>2, <2>3
  <2> QED BY <2>4 DEF Conflict, TwoGeoPoints, given
<1> QED BY <1>5, <1>6

LEMMA EnsuringConflicts ==
  ASSUME SInv, NEW s \in Slots, EnsureFields(s), ~Ensured(req[s])
  PROVE  Conflict(req[s])
<1>1. PICK f \in Fields : req[s].add[f] \in {"done", "lost"} /\ At(req[s].schema, f) # req[s].fields[f]
  BY DEF Ensured
<1>2. f \in Given(req[s]) /\ ~Free(req[s])
  BY <1>1, AsBefore DEF SInv, EnsureFields, Free
<1>3. CASE f \in raced \/ req[s].add[f] = "lost"
  BY <1>2, <1>3 DEF Conflict
<1>4. CASE f \notin raced /\ req[s].add[f] = "done"
  <2>1. Known(req[s], db, f)
    BY <1>2, <1>4, GivenIsKnown
  <2>2. At(req[s].schema, f) # None
    BY <1>2, <1>4, <2>1 DEF Known, KnownOfGiven, HasRead, EnsureFields
  <2>3. At(db, f) = At(req[s].schema, f)
    BY <2>1, <2>2 DEF Known, Agrees
  <2> QED BY <1>1, <1>2, <2>2, <2>3 DEF Conflict
<1> QED BY <1>1, <1>3, <1>4

LEMMA StepRefuses ==
  ASSUME SInv, WritesGive, NEW s \in Slots, Step(s),
         req[s].kind = "write", req[s].pc # "failed", req'[s].pc = "failed"
  PROVE  Conflict(req[s])
<1> USE DEF SInv
<1>1. ~\E q \in Requests : Begin(s, q)
  BY BegunIs
<1>2. ~(CallFails(s) \/ LookUp(s) \/ ReadSchema(s) \/ FieldsAdded(s) \/ Store(s))
  BY ContinueIs
     DEF CallFails, LookUp, ReadSchema, FieldsAdded, Store, AfterLookUp, ReadThen, Goto
<1>3. ~CacheSchema(s)
  BY ContinueIs DEF CacheSchema, Goto, RequestsKnow, GoesOn
<1>4. ~(EnforceClassExists(s) \/ EnforceFieldsExist(s))
  BY ContinueIs DEF EnforceClassExists, EnforceFieldsExist, ReadThen
<1>5. CASE ClassMissing(s)
  BY <1>5, MissingConflicts DEF WritesGive, ClassMissing
<1>6. CASE RefuseFields(s)
  BY <1>6, RefusalConflicts
<1>7. ASSUME NEW f \in Fields, FindField(s, f) PROVE Conflict(req[s])
  <2>1. f \in Given(req[s])
    BY <1>7, AsBefore DEF FindField
  <2>2. At(db, f) = None /\ req[s].fields[f] = GeoPoint /\ GeoFields(Fields, db) # {}
    BY <1>7, ContinueIs DEF FindField, GoOnAdding
  <2> QED BY <2>1, <2>2, GeoPointConflicts
<1>8. ASSUME NEW f \in Fields PROVE ~(UpsertField(s, f) \/ AdditionFails(s, f))
  BY <1>8, ContinueIs DEF UpsertField, AdditionFails, GoOnAdding
<1>9. CASE EnsureFields(s)
  <2>1. ~Ensured(req[s])
    BY <1>9, ContinueIs DEF EnsureFields, Goto
  <2> QED BY <1>9, <2>1, EnsuringConflicts
<1>10. ~(CheckUpdate(s) \/ ClearCache(s) \/ DropValues(s) \/ DropFields(s))
  BY AsBefore DEF CheckUpdate, ClearCache, DropValues, DropFields, StatesOf
<1>11. ~(CountObjects(s) \/ DropCollection(s) \/ DropClass(s))
  BY AsBefore DEF CountObjects, DropCollection, DropClass, StatesOf
<1> QED
  BY <1>1, <1>2, <1>3, <1>4, <1>5, <1>6, <1>7, <1>8, <1>9, <1>10, <1>11 DEF Step

\* A write that gives a field is refused for a conflict with the schema in the
\* database, for a field that was being deleted, or for an addition the
\* database did not take, never because another request created the class or
\* the field at the same time.
THEOREM RefusalsHaveCause == ASSUME EveryWriteGives PROVE Spec => RefusedForAConflict
<1>1. SInv /\ WritesGive /\ [Next]_vars =>
        [\A s \in Slots : req[s].kind = "write" /\ req[s].pc # "failed" /\ req'[s].pc = "failed"
                            => Conflict(req[s])]_vars
  <2> SUFFICES ASSUME SInv, WritesGive, Next, NEW s \in Slots, req[s].kind = "write",
                      req[s].pc # "failed", req'[s].pc = "failed"
               PROVE  Conflict(req[s])
    OBVIOUS
  <2>1. ~Expire
    BY DEF Expire
  <2>2. PICK t \in Slots : Step(t)
    BY <2>1 DEF Next
  <2>3. t = s
    BY <2>2, StepMovesOne DEF SInv
  <2> QED BY <2>2, <2>3, StepRefuses
<1> QED BY <1>1, Invariance, WritesGiveHolds, PTL DEF Spec, RefusedForAConflict

\* A field that a write gives and nobody was deleting, and the class with it,
\* stay in the schema until the write ends; under a cache that all requests
\* share, every field that was never to be deleted stays for good.
THEOREM FieldsStay ==
  Spec => [][\A s \in Slots, f \in Fields : Safe(s, f) => Agrees(db, db', f)]_vars
<1>1. SInv /\ [Next]_vars =>
        [\A s \in Slots, f \in Fields : Safe(s, f) => Agrees(db, db', f)]_vars
  <2> SUFFICES ASSUME SInv, Next, NEW t \in Slots, NEW f \in Fields, Safe(t, f)
               PROVE  Agrees(db, db', f)
    OBVIOUS
  <2>1. CASE Expire
    BY <2>1 DEF Expire, Agrees
  <2>2. ASSUME NEW s \in Slots, Step(s) PROVE Agrees(db, db', f)
    BY <2>2, SafeStays DEF SInv
  <2> QED BY <2>1, <2>2 DEF Next
<1> QED BY <1>1, Invariance, PTL DEF Spec
=============================================================================
