---------------------------- MODULE GraphQLSchema ----------------------------
(***************************************************************************)
(* The schema of the GraphQL API.  Every request loads it                  *)
(* (ParseGraphQLSchema.load): the configuration, from a cache that keeps   *)
(* it for a minute or from its row (ParseGraphQLController.js); the        *)
(* classes, from the schema cache of the GraphQL server, which no other    *)
(* request clears, or from their rows (SchemaController.js); and the names *)
(* of the cloud functions.  If one of these has changed, the types,        *)
(* queries and mutations are made again, class by class                    *)
(* (parseClassTypes.js, parseClassQueries.js, parseClassMutations.js).     *)
(* Loads overlap, and share what they make.                                *)
(*                                                                         *)
(* A configuration is a function from keys to values <<kind, v>>, or None  *)
(* for null.                                                               *)
(***************************************************************************)
EXTENDS Integers, Sequences, FiniteSets, SequencesExt

CONSTANTS
  Alphabet,       \* the class names there may be, by their code units
  Builtin,        \* those that begin with an underscore
  FieldsOf,       \* the fields of each class, but for the default ones
  GraphQLName,    \* of each class
  NameOf,         \* of <<operation, GraphQL name>>
  ReservedTypes, ReservedQueries, ReservedMutations,  \* names no class is given
  Unreserved,     \* mutations of users whose names are not reserved
  Callable,       \* functions that have a name GraphQL allows
  Slots, TTL, Loads, None

VARIABLES
  load,   \* configuration and load of this behaviour, never changed
  rows,   \* [config, classes, functions]: what is stored and registered; and the changes left
  req,    \* loads and updates under way
  kept,   \* the cached configuration, the cached classes, and the time each has left
  graph   \* the schema object: what the schema was made from, the schema, isUsersClassDisabled

vars == <<load, rows, req, kept, graph>>

-----------------------------------------------------------------------------
\* What a configuration may have: keys, and the kind of value of each.
ConfigShape == [enabledForClasses |-> "strings", disabledForClasses |-> "strings", classConfigs |-> "list"]
ClassShape == [className |-> "string", type |-> "object", query |-> "object", mutation |-> "object"]
TypeShape == [inputFields |-> "object", outputFields |-> "strings", constraintFields |-> "strings", sortFields |-> "list"]
SortShape == [field |-> "string", asc |-> "boolean", desc |-> "boolean"]
InputShape == [create |-> "strings", update |-> "strings"]
QueryShape == [find |-> "boolean", get |-> "boolean", findAlias |-> "string", getAlias |-> "string"]
MutationShape ==
  [create |-> "boolean", update |-> "boolean", destroy |-> "boolean",
   createAlias |-> "string", updateAlias |-> "string", destroyAlias |-> "string"]

Fits(v, shape) == DOMAIN v \subseteq DOMAIN shape /\ \A k \in {x \in DOMAIN v : v[x] # None} : v[k][1] = shape[k]
\* The object under a key, empty if there is none.
At(c, k) == IF k \in DOMAIN c /\ c[k] # None THEN c[k][2] ELSE <<>>
Has(c, k) == k \in DOMAIN c /\ c[k] # None
ValidateClassConfig(c) ==
  /\ Fits(c, ClassShape) /\ Has(c, "className")
  /\ LET type == At(c, "type")
         sorts == At(type, "sortFields")
         input == At(type, "inputFields")
     IN /\ Fits(type, TypeShape) /\ Fits(input, InputShape)
        /\ \A i \in DOMAIN sorts : Fits(sorts[i], SortShape) /\ \A k \in DOMAIN SortShape : Has(sorts[i], k)
        /\ At(c, "className") = "_User" /\ Has(input, "create") => {"username", "password"} \subseteq At(input, "create")
  /\ Fits(At(c, "query"), QueryShape) /\ Fits(At(c, "mutation"), MutationShape)
ValidateGraphQLConfig(c) ==
  Fits(c, ConfigShape) /\ \A i \in DOMAIN At(c, "classConfigs") : ValidateClassConfig(At(c, "classConfigs")[i])

-----------------------------------------------------------------------------
\* The classes left by the configuration.  Without either list nothing is said of users.
Listed(config) == Has(config, "enabledForClasses") \/ Has(config, "disabledForClasses")
ClassesForSchema(config, classes) ==
  {c \in classes : (Has(config, "enabledForClasses") => c \in At(config, "enabledForClasses"))
                   /\ (Has(config, "disabledForClasses") => c \notin At(config, "disabledForClasses"))}
SortClasses(classes) ==
  LET index(c) == CHOOSE i \in DOMAIN Alphabet : Alphabet[i] = c
      before(a, b) == IF (a \in Builtin) # (b \in Builtin) THEN a \in Builtin ELSE index(a) < index(b)
  IN SetToSortSeq(classes, before)
ClassConfig(config, class) ==
  LET configs == At(config, "classConfigs")
      its == {i \in DOMAIN configs : At(configs[i], "className") = class}
  IN IF its = {} THEN <<>> ELSE configs[CHOOSE i \in its : \A j \in its : i <= j]

\* The fields its types give of a class; a list for sorting that is empty becomes the id.
InputFieldsAndConstraints(class, classConfig) ==
  LET type == At(classConfig, "type")
      allowed(c, k) == IF Has(c, k) THEN FieldsOf[class] \cap At(c, k) ELSE FieldsOf[class]
      every == FieldsOf[class] \cup {"id", "objectId", "createdAt", "updatedAt", "ACL"}
      sorts == At(type, "sortFields")
  IN [create |-> allowed(At(type, "inputFields"), "create"),
      update |-> allowed(At(type, "inputFields"), "update"),
      output |-> allowed(type, "outputFields") \ (IF class = "_User" THEN {"password"} ELSE {}),
      constraint |-> IF Has(type, "constraintFields") THEN allowed(type, "constraintFields") ELSE every,
      sort |-> IF ~ Has(type, "sortFields") THEN every
               ELSE IF sorts = <<>> THEN {"id"} ELSE {At(sorts[i], "field") : i \in {j \in DOMAIN sorts : At(sorts[j], "asc") \/ At(sorts[j], "desc")}}]

\* A name that is reserved or taken is not added.
Add(names, reserved, name, what) ==
  IF name \in reserved \cup DOMAIN names THEN names ELSE [n \in {name} |-> what] @@ names
Kinds == <<"createFields", "updateFields", "pointer", "relation", "where", "relationWhere", "order", "output", "edge", "connection">>

\* An operation is there unless it is switched off, under its alias if it has one.
Enabled(c, op) == op \notin DOMAIN c \/ (Has(c, op) /\ At(c, op))
Called(c, op, alias, class) ==
  IF Has(c, alias) /\ At(c, alias) # "" THEN At(c, alias) ELSE NameOf[<<op, GraphQLName[class]>>]
Alias(op) ==
  CASE op = "get" -> "getAlias" [] op = "find" -> "findAlias" [] op = "create" -> "createAlias"
    [] op = "update" -> "updateAlias" [] op = "destroy" -> "destroyAlias"

LoadTypes(s, class, classConfig) ==
  LET name(kind) == <<kind, GraphQLName[class]>>
  IN [s EXCEPT !.types = FoldLeft(LAMBDA t, k : Add(t, ReservedTypes, name(k), class), @, Kinds),
               !.fields = [c \in {class} |-> InputFieldsAndConstraints(class, classConfig)] @@ @]
LoadQueries(s, class, classConfig) ==
  LET c == At(classConfig, "query")
      ops == SelectSeq(<<"get", "find">>, LAMBDA op : Enabled(c, op))
  IN [s EXCEPT !.queries = FoldLeft(LAMBDA q, op : Add(q, ReservedQueries, Called(c, op, Alias(op), class), <<op, class>>), @, ops)]
\* A mutation is added with the types of its input and payload.
LoadMutation(s, class, c, op) ==
  LET name(k) == <<k, op, GraphQLName[class]>>
      input == Add(s.types, ReservedTypes, name("input"), class)
      both == IF input = s.types THEN input ELSE Add(input, ReservedTypes, name("payload"), class)
  IN [s EXCEPT !.types = both,
               !.mutations = IF both = input THEN @ ELSE Add(@, ReservedMutations, Called(c, op, Alias(op), class), <<op, class>>)]
LoadMutations(s, class, classConfig) ==
  LET c == At(classConfig, "mutation") IN
  FoldLeft(LAMBDA t, op : LoadMutation(t, class, c, op), s, SelectSeq(<<"create", "update", "destroy">>, LAMBDA op : Enabled(c, op)))

\* What the classes give the schema.  The schema is None, the request failing, if users are to
\* sign in but are not among the classes, or if a name of their mutations that is not reserved
\* has been taken.
Made(config, classes) ==
  LET empty == [types |-> <<>>, fields |-> <<>>, queries |-> <<>>, mutations |-> <<>>]
      one(s, c) == LET cc == ClassConfig(config, c) IN LoadMutations(LoadQueries(LoadTypes(s, c, cc), c, cc), c, cc)
  IN FoldLeft(one, empty, SortClasses(classes))
Load(config, classes, functions, usersOff, crossed) ==
  IF ~ usersOff /\ ("_User" \notin classes \/ Unreserved \cap DOMAIN Made(config, classes).mutations # {}) THEN None
  ELSE [config |-> config, classes |-> classes, functions |-> functions, users |-> ~ usersOff, crossed |-> crossed]

-----------------------------------------------------------------------------
\* A load: how far it is; the configuration; how far its reading of the classes is, and what was
\* read; what it found; what there was, or was cached, meanwhile.
Idle ==
  [at |-> "idle", config |-> None, reading |-> "done", classes |-> {}, functions |-> {}, off |-> FALSE, schema |-> None,
   seen |-> [configs |-> {}, classes |-> {}, functions |-> {}]]
Empty == [value |-> None, left |-> 0]
Fresh == [config |-> None, classes |-> {}, functions |-> {}, schema |-> None, usersOff |-> FALSE]

Init ==
  /\ load \in Loads
  /\ rows = [config |-> None, classes |-> load.classes, functions |-> {}, left |-> load.limit]
  /\ req = [h \in Slots |-> Idle] /\ kept = [config |-> Empty, classes |-> Empty] /\ graph = Fresh

Go(h, r) == req' = [req EXCEPT ![h] = r]
Reading(h, at) == req[h].at = at /\ UNCHANGED <<load, rows>>

\* Whatever changes, or is cached, is seen by the loads under way.
Change(r) ==
  /\ rows.left > 0 /\ rows' = [r EXCEPT !.left = @ - 1]
  /\ UNCHANGED load
Saw(r, configs, classes, functions) ==
  IF r.at \in {"idle", "put", "load", "served"} THEN r
  ELSE [r EXCEPT !.seen = [configs |-> @.configs \cup configs, classes |-> @.classes \cup classes,
                           functions |-> @.functions \cup functions]]
Watched(r) == [h \in Slots |-> Saw(req[h], {r.config}, {r.classes}, {r.functions})]

-----------------------------------------------------------------------------
\* getAllClasses: those of the cache, or those of the rows, which are cached.  A load that starts
\* while another has the schema controller read them waits for that reading (loadSchema); it does
\* nothing but fill the cache, if there is one.
Cached(e) == IF e = Empty THEN {} ELSE {e.value}
AskClasses(r) ==
  IF kept.classes # Empty THEN [r EXCEPT !.reading = "done", !.classes = kept.classes.value] ELSE [r EXCEPT !.reading = "find"]
FirstReading(r) == r.at \in {"find", "found", "config"} /\ r.reading \in {"find", "found"}
ReloadData(r) ==
  IF ~ load.caching THEN r
  ELSE IF \E g \in Slots : FirstReading(req[g]) THEN [r EXCEPT !.reading = "wait"]
  ELSE [AskClasses(r) EXCEPT !.classes = {}]
FindClasses(h) ==
  /\ req[h].reading = "find" /\ UNCHANGED <<load, rows, kept, graph>>
  /\ Go(h, [req[h] EXCEPT !.reading = "found", !.classes = rows.classes])
SetAllClasses(h) ==
  LET classes == req[h].classes
      own == [req[h] EXCEPT !.reading = "done", !.classes = IF FirstReading(req[h]) THEN {} ELSE @]
      told(r) == IF FirstReading(req[h]) /\ r.reading = "wait" THEN [r EXCEPT !.reading = "done"] ELSE r
      saw(r) == IF load.caching THEN Saw(r, {}, {classes}, {}) ELSE r
  IN /\ req[h].reading = "found" /\ UNCHANGED <<load, rows, graph>>
     /\ kept' = IF load.caching THEN [kept EXCEPT !.classes = [value |-> classes, left |-> TTL]] ELSE kept
     /\ req' = [g \in Slots |-> saw(IF g = h THEN own ELSE told(req[g]))]

\* load starts with the schema controller and getGraphQLConfig: the cached configuration, or that
\* of the row, which is cached if there is one.
Put(c) == kept' = IF load.mounted THEN [kept EXCEPT !.config = [value |-> c, left |-> TTL]] ELSE kept
GetGraphQLConfig(h) ==
  LET seen == [configs |-> {rows.config} \cup Cached(kept.config), classes |-> {rows.classes} \cup Cached(kept.classes),
               functions |-> {rows.functions}]
      r == ReloadData([Idle EXCEPT !.seen = seen])
  IN /\ Reading(h, "idle") /\ UNCHANGED <<kept, graph>>
     /\ Go(h, IF kept.config # Empty THEN [r EXCEPT !.at = "config", !.config = kept.config.value] ELSE [r EXCEPT !.at = "find"])
FindConfig(h) ==
  /\ Reading(h, "find") /\ UNCHANGED <<kept, graph>>
  /\ Go(h, [req[h] EXCEPT !.at = "found", !.config = rows.config])
PutConfig(h) ==
  /\ Reading(h, "found") /\ UNCHANGED graph
  /\ IF req[h].config = None THEN UNCHANGED kept ELSE Put(req[h].config)
  /\ Go(h, [req[h] EXCEPT !.at = "config", !.config = IF @ = None THEN <<>> ELSE @])

\* updateGraphQLConfig: what is not valid is refused; the row, then the cache.
UpdateGraphQLConfig(h) == \E c \in load.configs :
  /\ req[h].at = "idle" /\ ValidateGraphQLConfig(c)
  /\ Change([rows EXCEPT !.config = c])
  /\ req' = [Watched(rows') EXCEPT ![h] = [Idle EXCEPT !.at = "put", !.config = c]]
  /\ UNCHANGED <<kept, graph>>
PutUpdated(h) ==
  /\ Reading(h, "put") /\ UNCHANGED graph
  /\ Put(req[h].config) /\ Go(h, Idle)

-----------------------------------------------------------------------------
\* load goes on when it has both: it asks for the classes again, and leaves in isUsersClassDisabled,
\* which the loads share, whether users are off; if neither list is given it leaves it as it is.
AskForClasses(h) ==
  /\ Reading(h, "config") /\ req[h].reading = "done" /\ UNCHANGED <<kept, graph>>
  /\ Go(h, AskClasses([req[h] EXCEPT !.at = "classes"]))
GetClassesForSchema(h) ==
  LET config == req[h].config
      classes == ClassesForSchema(config, req[h].classes)
      off == IF Listed(config) THEN "_User" \notin classes ELSE graph.usersOff
  IN /\ Reading(h, "classes") /\ req[h].reading = "done" /\ UNCHANGED kept
     /\ graph' = [graph EXCEPT !.usersOff = off]
     /\ Go(h, [req[h] EXCEPT !.at = "functions", !.classes = classes, !.off = off])
GetFunctionNames(h) ==
  /\ Reading(h, "functions") /\ UNCHANGED <<kept, graph>>
  /\ Go(h, [req[h] EXCEPT !.at = "load", !.functions = rows.functions \cap Callable])
\* The schema there is if nothing has changed: the classes are compared in the order they came in,
\* which a load that sorts the cached ones changes.
HasSchemaInputChanged(r) == ~ (graph.config = r.config /\ graph.functions = r.functions /\ graph.classes = r.classes)
LoadSchema(h) ==
  LET r == req[h]
      served(s) == Go(h, [Idle EXCEPT !.at = "served", !.schema = s, !.seen = r.seen])
      made == Load(r.config, r.classes, r.functions, graph.usersOff, r.off # graph.usersOff)
  IN /\ Reading(h, "load") /\ UNCHANGED kept
     /\ \/ /\ graph.schema # None /\ ~ HasSchemaInputChanged(r)
           /\ served(graph.schema) /\ UNCHANGED graph
        \/ /\ served(made)
           /\ graph' = [config |-> r.config, classes |-> r.classes, functions |-> r.functions, schema |-> made,
                        usersOff |-> graph.usersOff]
Serve(h) == Reading(h, "served") /\ Go(h, Idle) /\ UNCHANGED <<kept, graph>>

\* Classes come and go, functions are defined and removed.
ChangeClasses == \E c \in load.changing :
  /\ Change([rows EXCEPT !.classes = IF c \in @ THEN @ \ {c} ELSE @ \cup {c}])
  /\ req' = Watched(rows') /\ UNCHANGED <<kept, graph>>
ChangeFunctions == \E f \in load.functions :
  /\ Change([rows EXCEPT !.functions = IF f \in @ THEN @ \ {f} ELSE @ \cup {f}])
  /\ req' = Watched(rows') /\ UNCHANGED <<kept, graph>>
Tick ==
  /\ \E k \in {"config", "classes"} : kept[k].left > 0
  /\ kept' = [k \in {"config", "classes"} |-> IF kept[k].left > 1 THEN [kept[k] EXCEPT !.left = @ - 1] ELSE Empty]
  /\ UNCHANGED <<load, rows, req, graph>>

\* What is on its way to the caches gets there.
Keep(h) == PutConfig(h) \/ PutUpdated(h) \/ SetAllClasses(h)
Next ==
  \/ \E h \in Slots : \/ GetGraphQLConfig(h) \/ FindConfig(h) \/ UpdateGraphQLConfig(h) \/ FindClasses(h) \/ Keep(h)
                       \/ AskForClasses(h) \/ GetClassesForSchema(h) \/ GetFunctionNames(h) \/ LoadSchema(h) \/ Serve(h)
  \/ ChangeClasses \/ ChangeFunctions \/ Tick

-----------------------------------------------------------------------------
\* The schema a request is served with.
Served(h) == req[h].at = "served" /\ req[h].schema # None

\* A request is served with a schema made of a configuration, of classes and of functions that
\* were there, or cached, while it loaded, however the loads of others changed what they share.
ServedWasThere ==
  \A h \in Slots : Served(h) =>
    \E a \in req[h].seen.configs, b \in req[h].seen.classes, c \in req[h].seen.functions :
      LET s == req[h].schema
          config == IF a = None THEN <<>> ELSE a
      IN /\ s.config = config /\ s.functions = c \cap Callable
         /\ s.classes = {d \in b : /\ Has(config, "disabledForClasses") => d \notin At(config, "disabledForClasses")
                                   /\ Has(config, "enabledForClasses") => d \in At(config, "enabledForClasses")}

\* Of the classes that go by one name, one of the server's own has the types and mutations of
\* that name, or else the first; no operation is offered that is switched off, each goes by its
\* alias if it has one, and no field is shown that is hidden; users sign in only if they are among
\* the classes and no class takes the name of what signs them in; and, if the configuration says
\* which classes there are, always if they are among them, unless another load changed the flag
\* they share between the reading of the classes and the making of the schema.
Precedes(c, d) ==
  LET index(x) == CHOOSE i \in DOMAIN Alphabet : Alphabet[i] = x IN
  (c \in Builtin /\ d \notin Builtin) \/ ((c \in Builtin <=> d \in Builtin) /\ index(c) < index(d))
OperationsAsConfigured(s, made) ==
  LET part(c, k) == At(ClassConfig(s.config, c), k)
      first(c) == \A d \in s.classes : GraphQLName[d] = GraphQLName[c] => d = c \/ Precedes(c, d)
      named(c, k, op, n) ==
        /\ ~ (Has(part(c, k), op) /\ ~ At(part(c, k), op))
        /\ n = IF Has(part(c, k), Alias(op)) /\ At(part(c, k), Alias(op)) # "" THEN At(part(c, k), Alias(op))
               ELSE NameOf[<<op, GraphQLName[c]>>]
      free(names, reserved, k, op, c) ==
        \A n \in {Called(part(c, k), op, Alias(op), c)} \ reserved : n \in DOMAIN names /\ (names[n] = <<op, c>> \/ ~ Precedes(c, names[n][2]))
  IN /\ \A n \in DOMAIN made.types : made.types[n] \in s.classes /\ first(made.types[n])
     /\ \A c \in s.classes : first(c) => \A i \in DOMAIN Kinds : <<Kinds[i], GraphQLName[c]>> \in ReservedTypes \cup DOMAIN made.types
     /\ \A n \in DOMAIN made.queries : LET q == made.queries[n] IN q[2] \in s.classes /\ named(q[2], "query", q[1], n)
     /\ \A n \in DOMAIN made.mutations :
          LET q == made.mutations[n]
              input == <<"input", q[1], GraphQLName[q[2]]>>
          IN named(q[2], "mutation", q[1], n) /\ input \in DOMAIN made.types /\ made.types[input] = q[2]
     /\ \A c \in s.classes : \A op \in {"get", "find"} :
          Enabled(part(c, "query"), op) => free(made.queries, ReservedQueries, "query", op, c)
     /\ \A c \in s.classes : \A op \in {"create", "update", "destroy"} :
          Enabled(part(c, "mutation"), op) /\ first(c) /\ <<"input", op, GraphQLName[c]>> \notin ReservedTypes =>
            free(made.mutations, ReservedMutations, "mutation", op, c)
FieldsAsConfigured(s, made) ==
  \A c \in s.classes :
    LET f == made.fields[c]
        type == At(ClassConfig(s.config, c), "type")
    IN /\ "password" \in f.output => c # "_User"
       /\ Has(type, "outputFields") => f.output \subseteq At(type, "outputFields")
       /\ \A k \in {"create", "update"} : Has(At(type, "inputFields"), k) => f[k] \subseteq At(At(type, "inputFields"), k)
       /\ c = "_User" => {"username", "password"} \subseteq f.create
OfferedAsConfigured ==
  \A h \in Slots : Served(h) =>
    LET s == req[h].schema
        made == Made(s.config, s.classes)
    IN /\ s.users => "_User" \in s.classes /\ Unreserved \cap DOMAIN made.mutations = {}
       /\ "_User" \in s.classes /\ Listed(s.config) => s.users \/ s.crossed
       /\ OperationsAsConfigured(s, made) /\ FieldsAsConfigured(s, made)

\* What is cached is what is stored, once nobody changes it.
CachesExact == Cached(kept.config) \subseteq {rows.config} /\ Cached(kept.classes) \subseteq {rows.classes}
=============================================================================
