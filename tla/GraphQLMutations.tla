--------------------------- MODULE GraphQLMutations ---------------------------
(***************************************************************************)
(* The mutations of the GraphQL API: inputs become the fields of a write   *)
(* of the REST API, and objects to be linked are created on the way        *)
(* (transformers/mutation.js); the object is written, and what was         *)
(* selected of it is fetched for the answer (parseClassMutations.js); the  *)
(* classes themselves are changed (schemaFields.js, schemaMutations.js);   *)
(* users sign up and in (usersMutations.js, usersQueries.js).              *)
(*                                                                         *)
(* A world is the objects there are, [class, data] by their ids 1, 2, ..., *)
(* where data is a function from fields to values <<type, v>>.  `rights`   *)
(* are the pairs <<operation, class>> the caller is allowed, `sets` what a *)
(* trigger of each class sets in what is saved.                            *)
(***************************************************************************)
EXTENDS GraphQLQueries

Insert(world, class, data) == Append(world, [class |-> class, data |-> data])
Given(v) == {k \in DOMAIN v : v[k] # None}

Failed(world) == [ok |-> FALSE, world |-> world, value |-> None]
Done(world, value) == [ok |-> TRUE, world |-> world, value |-> value]

-----------------------------------------------------------------------------
\* Access rights, by subject; a later rule for the same subject counts.
AclOf(v) ==
  LET subject(kind, rule) == IF kind = "role" THEN <<"role", rule.of>> ELSE FromGlobalId("_User", rule.of)
      rules == (IF v.public = None THEN <<>> ELSE << <<(<<"object", "*">>), v.public>> >>)
               \o [i \in DOMAIN v.users |-> <<subject("user", v.users[i]), v.users[i]>>]
               \o [i \in DOMAIN v.roles |-> <<subject("role", v.roles[i]), v.roles[i]>>]
  IN FoldLeft(LAMBDA acl, r : With(r[1], [read |-> r[2].read, write |-> r[2].write]) @@ acl, <<>>, rules)

FileOf(world, v) ==
  IF v.upload # None THEN Done(world, <<"File", v.upload>>)
  ELSE IF v.file = "null" THEN Done(world, None)
  ELSE IF v.file # None THEN Done(world, <<"File", v.file>>) ELSE Failed(world)

\* What a relation is to become of the operations on it, in their order.
Links(ids, ops) ==
  FoldLeft(LAMBDA s, o : IF o.op = "AddRelation" THEN s \cup o.ids ELSE s \ o.ids, ids, ops)
Stored(old, fields) ==
  [f \in DOMAIN old \cup DOMAIN fields |->
     IF f \notin DOMAIN fields THEN old[f]
     ELSE IF fields[f] # None /\ fields[f][1] = "Batch" THEN <<"Relation", Links(IF f \in DOMAIN old THEN old[f][2] ELSE {}, fields[f][2])>>
     ELSE fields[f]]

RECURSIVE TransformTypes(_, _, _, _)

\* createObject, with the fields of the input.
CreateObject(env, world, class, input) ==
  LET store(t) == IF ~ t.ok \/ <<"create", class>> \notin env.rights THEN Failed(t.world)
                  ELSE Done(Insert(t.world, class, Stored(<<>>, env.sets[class] @@ t.value)), Len(t.world) + 1)
  IN store(TransformTypes(env, world, class, input))

\* Several at once; if one fails the others are still created.
CreateAll(env, world, class, inputs) ==
  LET with(acc, c) == [ok |-> acc.ok /\ c.ok, world |-> c.world, value |-> acc.value \cup {c.value}]
  IN FoldLeft(LAMBDA acc, i : with(acc, CreateObject(env, acc.world, class, i)), Done(world, {}), inputs)

\* To an object there is, or to one that is made for it: one of the two.
PointerTo(env, world, class, v) ==
  IF Cardinality(Given(v)) # 1 THEN Failed(world)
  ELSE IF v.link # None THEN Done(world, <<"Pointer", FromGlobalId(class, v.link)>>)
  ELSE LET to(c) == IF c.ok THEN Done(c.world, <<"Pointer", <<"object", c.value>>>>) ELSE c
       IN to(CreateObject(env, world, class, v.createAndLink))

RelationTo(env, world, class, v) ==
  LET ids(s) == {FromGlobalId(class, s[i]) : i \in DOMAIN s}
      added(new) == ids(Or(v.add, <<>>)) \cup {<<"object", k>> : k \in new}
      ops(new) == (IF v.add = None /\ new = {} THEN <<>> ELSE <<[op |-> "AddRelation", ids |-> added(new)]>>)
                  \o (IF v.remove = None THEN <<>> ELSE <<[op |-> "RemoveRelation", ids |-> ids(v.remove)]>>)
      to(c) == IF c.ok THEN Done(c.world, <<"Batch", ops(c.value)>>) ELSE Failed(c.world)
  IN IF Given(v) = {} THEN Failed(world) ELSE to(CreateAll(env, world, class, Or(v.createAndAdd, <<>>)))

Transformed(env, world, class, f, v) ==
  LET type == IF f = "ACL" THEN "ACL" ELSE Fields[class][f].type IN
  CASE type = "GeoPoint" -> Done(world, GeoPoint(v))
    [] type = "Polygon" -> Done(world, <<"Polygon", [i \in DOMAIN v |-> <<v[i][2], v[i][3]>>]>>)
    [] type = "File" -> FileOf(world, v)
    [] type = "Relation" -> RelationTo(env, world, Fields[class][f].target, v)
    [] type = "Pointer" -> PointerTo(env, world, Fields[class][f].target, v)
    [] type = "ACL" -> Done(world, <<"ACL", AclOf(v)>>)
    [] OTHER -> Done(world, v)

\* All fields at once; what those that succeed have created stays if another fails.
TransformTypes(env, world, class, input) ==
  LET with(acc, f, t) == [ok |-> acc.ok /\ t.ok, world |-> t.world, value |-> With(f, t.value) @@ acc.value]
  IN FoldLeft(LAMBDA acc, f : with(acc, f, Transformed(env, acc.world, class, f, input[f])),
              Done(world, <<>>), SetToSeq(DOMAIN input))

-----------------------------------------------------------------------------
\* getObject: the fields asked for, all of them if `keys` are empty.  A relation reads as its class.
Read(world, id, keys) ==
  LET data == world[id].data
      shown == {f \in DOMAIN data : data[f] # None /\ (keys = {} \/ \E k \in keys : k[1] = f)}
  IN [f \in shown |-> IF data[f][1] = "Relation" THEN <<"Relation", Fields[world[id].class][f].target>> ELSE data[f]]
There(world, class, id) == id[1] = "object" /\ id[2] \in DOMAIN world /\ world[id[2]].class = class
GetObject(env, world, class, id, keys) ==
  IF <<"get", class>> \in env.rights /\ There(world, class, id)
  THEN Done(world, With("objectId", id) @@ Read(world, id[2], IF NeedToGetAllKeys(class, keys) THEN {} ELSE keys))
  ELSE Failed(world)

\* What of the answer is not known from the write: since every key is included as well,
\* all that is selected.
GetOnlyRequiredFields(keys, include, native) ==
  IF keys = None THEN {} ELSE {k \in keys : k \notin native \/ k \in Or(include, {})}

Native == {<<"id">>, <<"objectId">>, <<"updatedAt">>}
\* The answer to a mutation that wrote `fields`: these, under what is fetched.
Payload(env, world, class, id, fields, selected, native) ==
  LET asked == ExtractKeysAndInclude(selected)
      required == GetOnlyRequiredFields(asked.keys, asked.include, native)
      all == NeedToGetAllKeys(class, asked.keys)
      got == IF required = {} /\ ~ all THEN Done(world, <<>>)
             ELSE GetObject(env, world, class, id, IF all THEN None ELSE required)
  IN IF got.ok THEN Done(world, got.value @@ fields @@ With("objectId", id)) ELSE Failed(world)

Create(env, world, class, input, selected) ==
  LET saved(t) == Insert(t.world, class, Stored(<<>>, env.sets[class] @@ t.value))
      answer(t) ==
        IF ~ t.ok \/ <<"create", class>> \notin env.rights THEN Failed(t.world)
        ELSE Payload(env, saved(t), class, <<"object", Len(t.world) + 1>>, t.value, selected, Native \cup {<<"createdAt">>})
  IN answer(TransformTypes(env, world, class, input))

Update(env, world, class, given, input, selected) ==
  LET id == FromGlobalId(class, given)
      saved(t) == [t.world EXCEPT ![id[2]].data = Stored(@, env.sets[class] @@ t.value)]
      answer(t) == IF ~ t.ok \/ <<"update", class>> \notin env.rights \/ ~ There(world, class, id) THEN Failed(t.world)
                   ELSE Payload(env, saved(t), class, id, t.value, selected, Native)
  IN answer(TransformTypes(env, world, class, input))

\* What is selected is fetched before the object goes.
Delete(env, world, class, given, selected) ==
  LET id == FromGlobalId(class, given)
      asked == ExtractKeysAndInclude(selected)
      got == IF asked.keys = None \/ asked.keys \subseteq {<<"id">>, <<"objectId">>} THEN Done(world, <<>>)
             ELSE GetObject(env, world, class, id, asked.keys)
      gone == [world EXCEPT ![id[2]] = [class |-> None, data |-> <<>>]]
  IN IF ~ got.ok \/ <<"delete", class>> \notin env.rights \/ ~ There(world, class, id) THEN Failed(world)
     ELSE Done(gone, got.value @@ With("objectId", id))

-----------------------------------------------------------------------------
\* Fields to add, a sequence of [name, type], and names to remove, as changes of a class that
\* has the fields `existing`, None if it is made; None is an error.
TransformToParse(add, remove, existing) ==
  LET kept == SelectSeq(add, LAMBDA f : f.name \notin remove)
      had == IF existing = None THEN {} ELSE DOMAIN existing
      names == {kept[i].name : i \in DOMAIN kept}
  IN IF Cardinality(names) # Len(kept) \/ names \cap had # {} THEN None
     ELSE [n \in names \cup (remove \cap had) |->
             IF n \in names THEN kept[CHOOSE i \in DOMAIN kept : kept[i].name = n].type ELSE "Delete"]

\* createClass, updateClass and deleteClass: the classes after it, None if it is refused.  The
\* classes are what the database has, not what the schema cache had.
ChangeClasses(auth, classes, m) ==
  LET there == m.name \in DOMAIN classes
      change == TransformToParse(m.add, m.remove, IF there THEN classes[m.name] ELSE None)
      left == [n \in (DOMAIN classes[m.name] \cup DOMAIN change) \ {f \in DOMAIN change : change[f] = "Delete"} |->
                 IF n \in DOMAIN change THEN change[n] ELSE classes[m.name][n]]
  IN IF ~ auth.master \/ auth.readOnly \/ (m.op = "create") = there THEN None
     ELSE CASE m.op = "delete" -> [c \in DOMAIN classes \ {m.name} |-> classes[c]]
            [] m.op # "delete" -> IF change = None THEN None ELSE With(m.name, IF there THEN left ELSE change) @@ classes

-----------------------------------------------------------------------------
\* signUp, logInWith and logIn make `user` the one whose session the request has; the viewer is
\* fetched with that user's rights, if anything of it is selected, and what the request does next
\* is done with these.  The query `viewer` has no user of its own.
GetUserFromSessionToken(context, user, selected) ==
  LET asked == ExtractKeysAndInclude(selected)
      own == IF user = None THEN context ELSE [context EXCEPT !.user = user]
  IN CASE context.session = None -> [context |-> context, viewer |-> None]
       [] context.session # None ->
            IF user # None /\ asked.keys = None /\ asked.include = None
            THEN [context |-> context, viewer |-> [session |-> context.session, user |-> None]]
            ELSE [context |-> own, viewer |-> IF own.user = None THEN None ELSE [session |-> context.session, user |-> own.user]]
SignIn(context, session, user, selected) == GetUserFromSessionToken([context EXCEPT !.session = session], user, selected)
=============================================================================
