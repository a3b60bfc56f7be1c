----------------------------- MODULE MCServices -----------------------------
(***************************************************************************)
(* Seven services of the server for TLC.  A behaviour is one of: requests  *)
(* served through the session and role caches, a push, registrations of    *)
(* installations, writes of objects, webhooks, schema changes, loads of    *)
(* the GraphQL schema.  The variables a service does not have stay None in *)
(* its behaviours.                                                         *)
(***************************************************************************)
EXTENDS Services, Integers, Sequences, FiniteSets, TLC

CONSTANTS Chosen, InstallationKinds

VARIABLES
  mongo, postgres, apart, requests,                        \* ClassCatalogs
  kept, graph                                              \* GraphQLSchema

authOnly == <<version, grants, entries, writes>>
pushOnly == <<push, stage, status, batches, updates, invalid, sent, stayed, happened>>
instOnly == <<strays, served>>
writeOnly == <<known, pending, published, calls, stored, undone, executed>>
hookOnly == <<handlers, validators, starting, made, split, mixed>>
classOnly == <<mongo, postgres, apart, requests>>
graphOnly == <<kept, graph>>
all == <<service, load, rows, req, authOnly, pushOnly, instOnly, writeOnly, hookOnly, classOnly, graphOnly>>

\* Initial values of the variables a behaviour does without.
NoAuth ==
  /\ version = None /\ grants = None /\ entries = None /\ writes = None
NoPush ==
  /\ push = None /\ stage = None /\ status = None /\ batches = None /\ updates = None
  /\ invalid = None /\ sent = None /\ stayed = None /\ happened = None
NoInst ==
  /\ strays = None /\ served = None
NoWrite ==
  /\ known = None /\ pending = None /\ published = None /\ calls = None /\ stored = None
  /\ undone = None /\ executed = None
NoHook ==
  /\ handlers = None /\ validators = None /\ starting = None /\ made = None /\ split = None
  /\ mixed = None
NoClass ==
  /\ mongo = None /\ postgres = None /\ apart = None /\ requests = None
NoGraph ==
  /\ kept = None /\ graph = None

-----------------------------------------------------------------------------
\* Two sessions of a user; a role directly and another through it.
AuthLoad(offers, limit, alone, grants0) ==
  [edges |-> {<<"u1", "r1">>, <<"r1", "r2">>}, offers |-> offers, limit |-> limit, alone |-> alone, grants |-> grants0]
Direct == {<<"u1", "r1">>}
Chained == {<<"u1", "r1">>, <<"r1", "r2">>}
MCOwner == [t \in Tokens |-> "u1"]
MCAuthLoads ==
  {AuthLoad({"logOut", "user"}, 1, FALSE, {}),
   AuthLoad({"password", "purge", "duplicate"}, 1, FALSE, {}),
   AuthLoad({"role"}, 2, FALSE, Chained),
   AuthLoad({"lapse"}, 0, FALSE, Direct),
   AuthLoad({"deleteUser", "direct", "user"}, 2, FALSE, {}),
   AuthLoad({"deleteRole"}, 1, FALSE, Chained \cup {<<"r2", "r1">>}),
   AuthLoad({"logOut", "password", "user", "role", "purge"}, 2, TRUE, Direct)}

-----------------------------------------------------------------------------
\* Five installations in batches of two.
Device(locale, badge) == [token |-> TRUE, locale |-> locale, badge |-> badge]
Plain == [rows |-> [i \in 1..5 |-> Device(None, 0)], localized |-> FALSE, badge |-> None, scheduled |-> FALSE,
          cleanup |-> FALSE, changes |-> {}, answers |-> {"sent"}, faults |-> {}]
Some == [i \in 1..5 |-> CASE i = 1 -> Device("fr", 0) [] i = 2 -> Device(None, 1) [] i = 3 -> Device("fr", 1) [] OTHER -> None]
Without(i) == [Plain.rows EXCEPT ![i] = None]
MCPushes ==
  {[Plain EXCEPT !.rows = Without(5), !.answers = {"sent", "failed"}],
   [Plain EXCEPT !.rows = Without(4), !.cleanup = TRUE, !.answers = {"sent", "unregistered"}],
   [Plain EXCEPT !.rows = Without(1), !.changes = {"come"}],
   [Plain EXCEPT !.changes = {"leave"}],
   [Plain EXCEPT !.rows = [i \in 1..5 |-> None], !.changes = {"come", "leave"}],
   [Plain EXCEPT !.rows = Some, !.localized = TRUE],
   [Plain EXCEPT !.rows = Some, !.badge = "increment"],
   [Plain EXCEPT !.rows = Some, !.localized = TRUE, !.badge = "increment", !.faults = {"fail"}],
   [Plain EXCEPT !.badge = "one", !.scheduled = TRUE, !.faults = {"fail"}],
   [Plain EXCEPT !.faults = {"adapter"}]}

-----------------------------------------------------------------------------
\* Requests that name their installation, that name whatever they like, that leave it to the
\* header of the client, and named ones side by side.
Of(u, i, t, hd, ty, ow) == [update |-> u, inst |-> i, token |-> t, header |-> hd, typed |-> ty, own |-> ow]
Named == {Of(u, i, t, None, TRUE, FALSE) : u \in BOOLEAN, i \in {"i1", "i2"}, t \in {"k1", "k2", None}}
Every == {Of(u, i, t, None, ty, FALSE) :
            u \in BOOLEAN, i \in {"i1", "i2", None}, t \in {"k1", "k2", None}, ty \in BOOLEAN}
Headed == {Of(u, None, "k1", "i1", TRUE, TRUE) : u \in BOOLEAN} \cup Named
InstLoad(k) ==
  CASE k = "named" -> [shapes |-> Named, limit |-> 3, alone |-> TRUE, drops |-> FALSE]
    [] k = "every" -> [shapes |-> Every, limit |-> 3, alone |-> TRUE, drops |-> TRUE]
    [] k = "headed" -> [shapes |-> Headed, limit |-> 3, alone |-> TRUE, drops |-> FALSE]
    [] k = "overlapping" -> [shapes |-> Named, limit |-> 2, alone |-> FALSE, drops |-> FALSE]
MCDeviceLoads == {InstLoad(k) : k \in InstallationKinds}

-----------------------------------------------------------------------------
\* Single calls one by one and overlapping, a batch with a path that has no route,
\* transactions beside other writes, one whose trigger may refuse, and a request sent again.
Op(o, x, f) == [op |-> o, id |-> x, field |-> f]
Request(rid, tx, ops) == [rid |-> rid, tx |-> tx, ops |-> ops]
One(o, x, f) == Request(None, FALSE, <<Op(o, x, f)>>)
Basic == [shapes |-> {}, there |-> {"x1", "x2"}, triggers |-> FALSE, live |-> FALSE, alone |-> FALSE,
          limit |-> 5, expires |-> FALSE, crashes |-> FALSE]
MCObjectLoads ==
  {[Basic EXCEPT !.there = {"x1"}, !.triggers = TRUE, !.live = TRUE, !.alone = TRUE,
      !.shapes = {One("create", None, "a"), One("update", "x1", "a"), One("update", "x1", "b"), One("delete", "x1", "a")}],
   [Basic EXCEPT !.live = TRUE, !.shapes = {One("update", "x1", "a"), One("delete", "x1", "a")}],
   [Basic EXCEPT !.live = TRUE, !.limit = 4,
      !.shapes = {Request(None, FALSE, <<Op("update", "x1", "a"), Op("delete", "x1", "a"), Op("unroutable", None, "a")>>)}],
   [Basic EXCEPT !.limit = 4, !.crashes = TRUE,
      !.shapes = {Request(None, TRUE, <<Op("update", "x1", "a"), Op("update", "x2", "b")>>),
                  Request(None, TRUE, <<Op("create", None, "a"), Op("unroutable", None, "a")>>),
                  One("update", "x2", "a"), One("delete", "x2", "a")}],
   [Basic EXCEPT !.triggers = TRUE, !.limit = 1,
      !.shapes = {Request(None, TRUE, <<Op("update", "x1", "a"), Op("delete", "x2", "b")>>)}],
   [Basic EXCEPT !.there = {"x1"}, !.expires = TRUE, !.crashes = TRUE,
      !.shapes = {Request("q1", FALSE, <<Op("create", None, "a")>>)}]}

-----------------------------------------------------------------------------
\* A function of cloud code with a validator, and one without either.
MCHookLoads ==
  {[code |-> {"f"}, guarded |-> {"f"}, restarts |-> TRUE, alone |-> TRUE, fails |-> FALSE, limit |-> 4],
   [code |-> {"f"}, guarded |-> {"f"}, restarts |-> TRUE, alone |-> FALSE, fails |-> TRUE, limit |-> 3]}

-----------------------------------------------------------------------------
\* Two fields with an index each.  Changes of one or two things at a time: of plain, required
\* and relation fields with indexes; of pointers and GeoPoints, by writes too; and cut short.
FieldType(t) == [type |-> t, target |-> IF t \in {"Relation", "Pointer"} THEN "D" ELSE None, options |-> {}]
Required(t) == [FieldType(t) EXCEPT !.options = {"required"}]
Changed(m) == Cardinality({x \in DOMAIN m : m[x] # None})
Parts(r) == Changed(r.fields) + Changed(r.indexes) + (IF r.clp = None THEN 0 ELSE 1)
Updates(types, clps, changes) ==
  {r \in [op : {"update"}, fields : [{"f", "g"} -> types \cup {None, FieldType("Delete")}],
          clp : clps \cup {None}, indexes : [{"i", "j"} -> changes \cup {None}]] : Parts(r) \in 1..2}
Creations(types, clps, changes) ==
  {r \in [op : {"create"}, fields : [{"f", "g"} -> types \cup {None}],
          clp : clps \cup {None}, indexes : [{"i", "j"} -> changes \cup {None}]] : Parts(r) \in 1..3}
FieldWrites(types) == [op : {"write"}, field : {"f", "g"}, type : types]
Plainly == {FieldType("String"), Required("String"), FieldType("Relation")}
Places == {FieldType("GeoPoint"), FieldType("Pointer"), Required("Relation")}
Few == {FieldType("String"), FieldType("Relation")}
Deletion == {[op |-> "delete"]}
Classes == INSTANCE ClassCatalogs WITH
  Fields <- {"f", "g"}, IndexNames <- <<"i", "j">>,
  KeyOf <- [n \in {"i", "j"} |-> IF n = "i" THEN "f" ELSE "g"],
  Loads <- {[asked |-> Creations(Plainly, {}, {"add"}) \cup Updates(Plainly, {"f"}, {"add", "delete"}) \cup Deletion,
             limit |-> 3, cuts |-> FALSE],
            [asked |-> Creations(Places, {"f"}, {}) \cup Updates(Places, {"open", "f"}, {}) \cup FieldWrites(Places) \cup Deletion,
             limit |-> 4, cuts |-> FALSE],
            [asked |-> Updates(Few, {}, {"add", "delete"}) \cup FieldWrites(Few) \cup Deletion, limit |-> 3, cuts |-> TRUE]}

-----------------------------------------------------------------------------
\* Three classes of one GraphQL name, one whose plural is its singular and one with the name of
\* a type of the server's; lists of classes and configurations of a class, some not valid.
Strings(s) == <<"strings", s>>
Object(r) == <<"object", r>>
Boolean(b) == <<"boolean", b>>
String(n) == <<"string", n>>
ConfigOf(class, parts) == [classConfigs |-> <<"list", <<[className |-> String(class)] @@ parts>>>>]
ClassLists ==
  {<<>>, [enabledForClasses |-> Strings({"_User", "News", "User"}), disabledForClasses |-> Strings({"News"})],
   [disabledForClasses |-> Strings({"_User"})], [enabledForClasses |-> None, other |-> Strings({})],
   [enabledForClasses |-> String("News")]}
ClassShapes ==
  {ConfigOf("News", [mutation |-> Object([create |-> Boolean(FALSE), update |-> None, destroyAlias |-> String("createUser")]),
                     query |-> Object([getAlias |-> String("health"), findAlias |-> String("file")])]),
   ConfigOf("_User", [type |-> Object([inputFields |-> Object([create |-> Strings({"username", "password"}), update |-> Strings({})]),
                                       outputFields |-> Strings({"username", "password"}), sortFields |-> <<"list", <<>>>>])]),
   ConfigOf("_User", [type |-> Object([inputFields |-> Object([create |-> Strings({"username"})])])]),
   ConfigOf("News", [mutation |-> Object([createAlias |-> String("logInWith")]), query |-> Object([find |-> Boolean(FALSE)])]),
   ConfigOf("User", [mutation |-> Object([createAlias |-> String("makeUser")])]),
   ConfigOf("News", [query |-> Object([getAlias |-> String("users"), findAlias |-> Boolean(TRUE)])])}
GraphLoad(classes, changing, configs, limit, mounted, caching) ==
  [classes |-> classes, changing |-> changing, functions |-> {}, configs |-> configs, limit |-> limit,
   mounted |-> mounted, caching |-> caching]
ClassNames == <<"File", "News", "User", "_User", "user">>
OperationName(p) ==
  LET lower == [User |-> "user", News |-> "news", File |-> "file"]
      plural == [User |-> "users", News |-> "news", File |-> "files"]
      verb == [create |-> "create", update |-> "update", destroy |-> "delete"]
  IN CASE p[1] = "get" -> lower[p[2]] [] p[1] = "find" -> plural[p[2]] [] OTHER -> verb[p[1]] \o p[2]
Graph == INSTANCE GraphQLSchema WITH
  Alphabet <- ClassNames, Builtin <- {"_User"},
  FieldsOf <- [c \in {ClassNames[i] : i \in 1..5} |-> IF c = "_User" THEN {"username", "password", "nick"} ELSE {"x", "password"}],
  GraphQLName <- [c \in {ClassNames[i] : i \in 1..5} |-> IF c \in {"File", "News"} THEN c ELSE "User"],
  NameOf <- [p \in {"get", "find", "create", "update", "destroy"} \X {"User", "News", "File"} |-> OperationName(p)],
  ReservedTypes <- {<<"output", "File">>, <<"input", "create", "File">>}, ReservedQueries <- {"health"},
  ReservedMutations <- {"createFile"}, Unreserved <- {"logInWith"}, Callable <- {"f"},
  Slots <- {1, 2}, TTL <- 1,
  Loads <- {GraphLoad({"_User"}, {}, ClassLists, 2, TRUE, FALSE),
            GraphLoad({"_User"}, {"News"}, {[disabledForClasses |-> Strings({"News"})]}, 2, TRUE, TRUE),
            GraphLoad({"_User"}, {}, ClassLists, 1, FALSE, TRUE),
            GraphLoad({"_User", "News", "user"}, {"User"}, ClassShapes, 1, FALSE, TRUE),
            GraphLoad({ClassNames[i] : i \in 1..5}, {}, ClassShapes, 1, FALSE, FALSE),
            [GraphLoad({"_User"}, {"News"}, {}, 2, TRUE, FALSE) EXCEPT !.functions = {"f", "not-a-name"}]}

-----------------------------------------------------------------------------
\* What the proofs assume of the constants holds of these.
ASSUME ServiceConstants ==
  Auth!Constants /\ Delivery!Constants /\ Hooks!Constants /\ Devices!Constants /\ Objects!Constants

Init ==
  /\ service \in Chosen
  /\ CASE service = "auth" -> Auth!Init /\ NoPush /\ NoInst /\ NoWrite /\ NoHook /\ NoClass /\ NoGraph
       [] service = "push" ->
            Delivery!Init /\ load = None /\ req = None /\ NoAuth /\ NoInst /\ NoWrite /\ NoHook /\ NoClass /\ NoGraph
       [] service = "installations" -> Devices!Init /\ NoAuth /\ NoPush /\ NoWrite /\ NoHook /\ NoClass /\ NoGraph
       [] service = "objects" -> Objects!Init /\ NoAuth /\ NoPush /\ NoInst /\ NoHook /\ NoClass /\ NoGraph
       [] service = "hooks" -> Hooks!Init /\ NoAuth /\ NoPush /\ NoInst /\ NoWrite /\ NoClass /\ NoGraph
       [] service = "classes" ->
            Classes!Init /\ rows = None /\ req = None /\ NoAuth /\ NoPush /\ NoInst /\ NoWrite /\ NoHook /\ NoGraph
       [] service = "graphql" -> Graph!Init /\ NoAuth /\ NoPush /\ NoInst /\ NoWrite /\ NoHook /\ NoClass

OnlyAuth == UNCHANGED <<service, pushOnly, instOnly, writeOnly, hookOnly, classOnly, graphOnly>>
OnlyPush == UNCHANGED <<service, load, req, authOnly, instOnly, writeOnly, hookOnly, classOnly, graphOnly>>
OnlyGraph == UNCHANGED <<service, authOnly, pushOnly, instOnly, writeOnly, hookOnly, classOnly>>
Next ==
  \/ service = "auth" /\ Auth!Next /\ OnlyAuth
  \/ service = "push" /\ Delivery!Next /\ OnlyPush
  \/ service = "installations" /\ Devices!Next
     /\ UNCHANGED <<service, authOnly, pushOnly, writeOnly, hookOnly, classOnly, graphOnly>>
  \/ service = "objects" /\ Objects!Next /\ UNCHANGED <<service, authOnly, pushOnly, instOnly, hookOnly, classOnly, graphOnly>>
  \/ service = "hooks" /\ Hooks!Next /\ UNCHANGED <<service, authOnly, pushOnly, instOnly, writeOnly, classOnly, graphOnly>>
  \/ service = "classes" /\ Classes!Next
     /\ UNCHANGED <<service, rows, req, authOnly, pushOnly, instOnly, writeOnly, hookOnly, graphOnly>>
  \/ service = "graphql" /\ Graph!Next /\ OnlyGraph

\* The fairness of AuthCaches, GraphQLSchema and PushDelivery.
TimePasses ==
  \/ service = "auth" /\ Auth!Tick /\ OnlyAuth
  \/ service = "graphql" /\ Graph!Tick /\ OnlyGraph
Serves(h) ==
  \/ service = "auth" /\ Auth!Step(h) /\ OnlyAuth
  \/ service = "graphql" /\ Graph!Keep(h) /\ OnlyGraph
Delivers == service = "push" /\ Delivery!Step /\ OnlyPush
Spec ==
  /\ Init /\ [][Next]_all
  /\ WF_all(TimePasses) /\ WF_all(Delivers) /\ \A h \in {1, 2} : WF_all(Serves(h))

-----------------------------------------------------------------------------
\* However loads and writes overlap, once nobody writes the caches end up with what the
\* database holds: an ended session or a role taken away is not honoured for ever, nor are a
\* GraphQL configuration and classes that were replaced while they were being read.
CachesCatchUp ==
  <>[](/\ service = "auth" => Auth!CachesExact
       /\ service = "graphql" => Graph!CachesExact)

\* A push ends, unless a batch finds nobody, the adapter does not answer, or a result is
\* stored before the number of batches is.
PushesEnd == <>[](service = "push" => Delivery!Ended)

\* MongoDB and PostgreSQL give the same schema after the same requests, but for what only one
\* can do; and whatever is refused or cut short, PostgreSQL has the columns and join tables of
\* its schema and both have the indexes they list, but for those that a change refused or cut
\* short, or a dropped column, took away.  A GraphQL request is served with the schema of a
\* configuration, classes and functions there were or were cached while it loaded, and with the
\* operations and fields that the configuration leaves; users may be missing from it if another
\* load changed the flag they share.
SchemasAgree ==
  /\ service = "classes" => Classes!SameSchema /\ Classes!BuiltAsListed
  /\ service = "graphql" => Graph!ServedWasThere /\ Graph!OfferedAsConfigured
=============================================================================
