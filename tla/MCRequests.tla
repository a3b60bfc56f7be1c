----------------------------- MODULE MCRequests ------------------------------
(***************************************************************************)
(* Cases of Admission, Permissions, RestQueries, GraphQLQueries and        *)
(* GraphQLMutations for TLC: what a request may do, what it reaches, what  *)
(* its query finds, and the same asked through GraphQL.  Two applications  *)
(* with keys of their own, credentials sent in each way and split over all *)
(* of them, rules with every combination of what a field may ask, and      *)
(* finds with triggers.  Callers with and without a user, a role and the   *)
(* master key, class-level permissions of one operation or of two, rows    *)
(* with every ACL and set of pointers that the rules tell apart.  Objects  *)
(* of a class "A" and of a class "B" that point to each other in a ring,   *)
(* relations between them, and callers who may not read all of them.       *)
(* GraphQL: rows of "A" with a pointer and a relation to "B", what a where *)
(* says row by row; slices of up to four rows; selections over objects of  *)
(* RestQueries; mutations that create further objects on the way; changes  *)
(* of classes; requests that sign users in.                                *)
(***************************************************************************)
EXTENDS Integers, Sequences, SequencesExt, FiniteSets, TLC

CONSTANT None

Gate == INSTANCE Admission

\* What the credentials in a request entitle to, for one application and one way to send them.
Entitled(apps, c, ip, url) ==
  LET app == apps[c.app]
      from == app.masterKeyIps = {} \/ ip \in app.masterKeyIps
      master == c.master \in {app.master, app.readOnly}
      keys == {k \in {"js", "rest"} : app[k] # None}
      owners == IF url = "/upgradeToRevocableSession" THEN app.sessions @@ app.legacy ELSE app.sessions
  IN CASE c.app \notin DOMAIN apps \/ (c.master # None /\ ~from) -> Gate!Refused
       [] OTHER -> IF c.master # None /\ master THEN Gate!Admitted(TRUE, c.master # app.master, None, c.session)
                   ELSE IF keys # {} /\ \A k \in keys : c[k] # app[k] THEN Gate!Refused
                   ELSE IF c.session = None \/ url = "/login" THEN Gate!Admitted(FALSE, FALSE, None, None)
                   ELSE IF c.session \in DOMAIN owners THEN Gate!Admitted(FALSE, FALSE, owners[c.session], c.session) ELSE Gate!Refused

App(js, rest, readOnly, ips) ==
  [master |-> "mA", readOnly |-> readOnly, js |-> js, rest |-> rest, masterKeyIps |-> ips,
   sessions |-> "r:1" :> "alice", legacy |-> "old" :> "bob"]
\* A second application, with a master key and a session of its own.
OtherApp == [App(None, None, None, {}) EXCEPT !.master = "mB", !.sessions = "r:2" :> "carol"]
Configured == {("A" :> App(js, rest, ro, ips)) @@ ("B" :> OtherApp) :
                 js \in {None, "jA"}, rest \in {None, "kA"}, ro \in {None, "roA"}, ips \in {{}, {"near"}}}

NoKeys == [app |-> None, js |-> None, rest |-> None, session |-> None, master |-> None]
Credentials == [app : {"A", "B", "C"}, js : {None, "jA"}, rest : {None, "kA"},
                session : {None, "r:1", "r:2", "old"}, master : {None, "mA", "mB", "roA"}]
Request(h, basic, b, buffer, url, forwarded) ==
  [headers |-> h, basic |-> basic, body |-> b, buffer |-> buffer, url |-> url, forwarded |-> forwarded, address |-> "near"]
Urls == {"/login", "/upgradeToRevocableSession", "/classes/A"}

\* The same credentials in the headers, in basic authentication and in the body, as far as
\* each can carry them.
Ways(c, url, fwd) ==
  LET buffer == IF url = "/classes/A" THEN "json" ELSE "none" IN
  {Request(c, None, None, "none", url, fwd)}
  \cup (IF c.rest = None THEN {Request([NoKeys EXCEPT !.app = a], None, c, buffer, url, fwd) : a \in {None, "C"}} ELSE {})
  \cup (IF c.app = "C" \/ (c.js # None /\ c.master # None) THEN {}
        ELSE {Request([c EXCEPT !.app = a, !.js = None, !.master = None], [app |-> c.app, js |-> c.js, master |-> c.master], None, "none", url, fwd) :
                a \in {None, "B"}})

SentCases == [kind : {"sent"}, apps : Configured, c : Credentials, url : Urls, fwd : {<<>>, <<"far", "near">>}]
SameRights(x) ==
  LET e == Entitled(x.apps, x.c, IF x.fwd = <<>> THEN "near" ELSE Head(x.fwd), x.url) IN
  \A r \in Ways(x.c, x.url, x.fwd) :
    Gate!HandleParseHeaders(x.apps, r) = e

\* Credentials in all three places: no more than each application gives for keys of its own.
Some(apps, keys) == {NoKeys} \cup [app : apps, js : {None, "jA"}, rest : {None}, session : {None, "r:1", "r:2"}, master : keys]
MixedCases == [kind : {"mixed"}, apps : Configured, headers : Some({None, "A"}, {None, "mA", "mB"}), body : Some({"A", "B"}, {None, "mA", "mB"}),
               basic : {None} \cup [app : {"A", "B"}, js : {None}, master : {"mA", "mB"}], buffer : {"none", "binary"}]
NoMoreThanGiven(x) ==
  LET r == Request(x.headers, x.basic, x.body, x.buffer, "/classes/A", <<>>)
      a == Gate!HandleParseHeaders(x.apps, r)
      keys == {x.headers.master, x.body.master} \cup (IF x.basic = None THEN {} ELSE {x.basic.master})
      tokens == {x.headers.session, x.body.session}
      named == {x.headers.app, x.body.app} \cup (IF x.basic = None THEN {} ELSE {x.basic.app})
  IN /\ a.ok => named \cap DOMAIN x.apps # {}
     /\ a.master => \E id \in named \cap DOMAIN x.apps : x.apps[id].master \in keys
     /\ a.user # None => \E id \in named \cap DOMAIN x.apps, t \in tokens :
                           t \in DOMAIN x.apps[id].sessions /\ x.apps[id].sessions[t] = a.user

-----------------------------------------------------------------------------
\* What the rules ask of a field: the value the handler is to see, and whether it may.
Due(f, given, isObject, original) ==
  LET first == Gate!Or(given, f.rule.default) IN
  [seen |-> IF ~(f.rule.constant /\ isObject) THEN first ELSE IF original # None THEN original[f.key] ELSE Gate!Or(f.rule.default, first),
   fits |-> /\ f.rule.required \/ f.rule.type # None \/ f.rule.options # {} => first # None
            /\ first # None /\ f.rule.type # None => first[1] = f.rule.type
            /\ f.rule.options # {} => first \in f.rule.options]

S(v) == <<"string", v>>
N(v) == <<"number", v>>
FieldRules == [required : BOOLEAN, type : {None, "string"}, default : {None, S("d"), N(0)}, constant : BOOLEAN, options : {{}, {S("a"), S("d")}}]
Plain == [required |-> TRUE, type |-> None, default |-> None, constant |-> FALSE, options |-> {}]
Validator(user, master, validate, skip, fields, keys) ==
  [requireUser |-> user, requireMaster |-> master, validateMasterKey |-> validate, skipWithMasterKey |-> skip, fields |-> fields, userKeys |-> keys]
RuleSets ==
  {Validator(u, m, v, k, << [key |-> "x", rule |-> f], [key |-> "y", rule |-> Plain] >>, ks) :
     u \in BOOLEAN, m \in BOOLEAN, v \in BOOLEAN, k \in {FALSE}, f \in FieldRules, ks \in {{}, {"y"}}}
Givens == {<<>>, "y" :> N(1)} \cup {("x" :> v) @@ ("y" :> N(1)) : v \in {S("a"), S("b"), N(7)}}
Attributes == {None, <<>>, "y" :> S("n")}

Requests ==
  [master : BOOLEAN, user : Attributes, params : Givens, object : {None}, original : {None}, class : {"A"}]
  \cup [master : BOOLEAN, user : Attributes, params : {<<>>}, object : Givens, original : {None, ("x" :> S("o")) @@ ("y" :> N(2))}, class : {"A", "_User"}]
RuleCases == [kind : {"rules"}, rules : RuleSets, request : Requests]

\* The handler runs for those the rules name and sees each field as the rule makes it.
RunsAsRuled(x) ==
  LET q == x.request
      isObject == q.object # None
      given == IF isObject THEN q.object ELSE q.params
      signingUp == q.user = None /\ isObject /\ q.class = "_User" /\ q.original = None
      free == q.master /\ ~x.rules.validateMasterKey
      due == [i \in DOMAIN x.rules.fields |->
                LET f == x.rules.fields[i] IN Due(f, Gate!Value(given, f.key), isObject, q.original)]
      attribute(k) == IF signingUp THEN due[CHOOSE i \in DOMAIN due : x.rules.fields[i].key = k].seen
                      ELSE IF q.user = None THEN None ELSE Gate!Value(q.user, k)
      may == free \/ /\ x.rules.requireUser => signingUp \/ q.user # None
                     /\ x.rules.requireMaster => q.master
                     /\ \A i \in DOMAIN due : due[i].fits
                     /\ \A k \in x.rules.userKeys : attribute(k) # None
      seen == IF isObject THEN Gate!BeforeSave(x.rules, q, <<>>) ELSE Gate!HandleCloudFunction(x.rules, q).given
  IN /\ (seen # None) = may
     /\ may => \A i \in DOMAIN due :
                 LET k == x.rules.fields[i].key IN
                 Gate!Value(seen, k) = IF free THEN Gate!Value(given, k) ELSE due[i].seen

-----------------------------------------------------------------------------
O(k, v) == [x \in {k} |-> v]
Bodies == {<<>>} \cup {O("limit", N(n)) : n \in {0, 3, 9}} \cup {O("skip", N(2)) @@ O("limit", N(9)), O("order", S("x")) @@ O("count", N(1)),
           O("keys", S("x")), O("keys", N(3)), O("hint", S("i")), O("explain", S("")), O("other", N(1)), O("includeAll", N(1)) @@ O("include", S("f"))}
QueryStrings == {<<>>, O("limit", N(5)), O("skip", N(0)), O("order", S("y"))}
\* A trigger leaves the query, narrows it, clears what it can, or returns one of its own.
Changes == {[own |-> FALSE, sets |-> c] : c \in {<<>>, O("limit", N(2)), O("order", S("z")) @@ O("skip", N(1))}}
           \cup {[own |-> TRUE, sets |-> O("limit", N(7)) @@ O("include", S("g"))]}
Skips == {Validator(FALSE, m, v, k, <<>>, {}) : m \in BOOLEAN, v \in BOOLEAN, k \in BOOLEAN}
Answered == [objects : {None, <<1>>, <<>>}, promised : BOOLEAN]
FindOptionCases == [kind : {"options"}, max : {None, 4}, body : Bodies, query : QueryStrings, change : Changes, rules : Skips, master : BOOLEAN, answer : {[objects |-> None, promised |-> FALSE]}]
                   \cup [kind : {"options"}, max : {None}, body : {<<>>}, query : {<<>>}, change : {[own |-> FALSE, sets |-> <<>>]}, rules : Skips, master : BOOLEAN, answer : Answered]

\* Each option of a find is the trigger's if it says anything of it, and otherwise the one
\* asked for: of the query string before the body, within the limit, a hundred unless told.
\* Whom the rules refuse finds nothing, before the find and after it.
RunsAsAsked(x) ==
  LET options == Gate!HandleFind(x.max, x.body, x.query)
      said == IF x.rules.skipWithMasterKey /\ x.master THEN <<>> ELSE x.change.sets
      executed == Gate!MaybeRunQueryTrigger(x.rules, x.master, options, x.change)
      asked(o) == IF o \in DOMAIN x.query THEN x.query[o] ELSE IF o \in DOMAIN x.body THEN x.body[o] ELSE None
      within == IF asked("limit") = None THEN N(100)
                ELSE IF x.max # None /\ asked("limit")[2] > x.max THEN N(x.max) ELSE asked("limit")
      usable(o) == IF o = "limit" THEN within
                   ELSE IF asked(o) = None \/ ~Gate!Truth(asked(o)) \/ (o \in Gate!StringsOnly /\ asked(o)[1] # "string") THEN None ELSE asked(o)
      refused == x.rules.requireMaster /\ ~x.master
  IN /\ options # None <=> DOMAIN x.body \cup DOMAIN x.query \subseteq Gate!AllowConstraints
     /\ options # None =>
          /\ (executed = None) = refused
          /\ executed # None =>
               \A o \in Gate!AllowConstraints :
                 Gate!Value(executed, o) = IF o \in DOMAIN said THEN said[o] ELSE usable(o)
     /\ LET shown == Gate!MaybeRunAfterFindTrigger(x.rules, x.master, <<1, 2>>, x.answer) IN
        IF refused THEN shown = None
        ELSE IF x.rules.skipWithMasterKey /\ x.master THEN shown = <<1, 2>>
        ELSE shown = None <=> x.answer.promised /\ x.answer.objects = None

-----------------------------------------------------------------------------
Users == {"u1", "u2"}
Roles == {"r"}
Pointers == {"p", "a"}   \* a pointer, and an array of them
Row(p, a, acl, self) == [names |-> [f \in Pointers |-> IF f = "p" THEN p ELSE a], acl |-> acl, self |-> self]
Acls == {None, [read |-> {}, write |-> {}], [read |-> {"*"}, write |-> {"u1"}],
         [read |-> {"u1", "u2"}, write |-> {"u1"}], [read |-> {"r"}, write |-> {"*"}]}
Rows == {Row(p, a, acl, None) : p \in {{}, {"u1"}, {"u2"}}, a \in SUBSET Users, acl \in Acls}

Permissions == INSTANCE Permissions WITH Objects <- Rows

Caller(user, roles) == [master |-> FALSE, user |-> user, roles |-> roles]
Master == [master |-> TRUE, user |-> None, roles |-> {}]
Callers == {Master, Caller(None, {}), Caller("u1", {}), Caller("u1", {"r"}), Caller("u2", {})}

\* Permissions of one operation, and the ones that matter when two meet.
Grant(to, auth, pointers) == [to |-> to, auth |-> auth, pointers |-> pointers]
Grants == {Grant(to, auth, ps) : to \in {{}, {"*"}, {"u1"}, {"r"}}, auth \in BOOLEAN, ps \in SUBSET Pointers}
Few == {Grant({}, FALSE, {}), Grant({}, FALSE, {"p"}), Grant({}, FALSE, {"p", "a"}), Grant({}, TRUE, {"a"}),
        Grant({}, TRUE, {}), Grant({"u1"}, FALSE, {}), Grant({"*"}, FALSE, {"a"})}
Of(op, grants) == {<<>>} \cup {[x \in {op} |-> g] : g \in grants}
Both(op) == {f @@ g : f \in Of(op, Few), g \in Of("addField", Few)}
CLP(perms, readers, writers) ==
  [perms |-> perms, readUserFields |-> readers, writeUserFields |-> writers, protected |-> None, byField |-> <<>>]

Constraints == [objectId |-> Rows, p |-> {o \in Rows : "u2" \in o.names["p"]}]
Queries == {[k \in ks |-> Constraints[k]] : ks \in SUBSET DOMAIN Constraints}

AccessCases ==
  [kind : {"find", "count"}, c : Callers, q : Queries,
   clp : UNION {{CLP(ps, r, {}) : ps \in Of(op, Grants), r \in SUBSET Pointers} : op \in Permissions!Readings}]
  \cup [kind : {"update", "extend"}, c : Callers, q : Queries, clp : {CLP(ps, {}, w) : ps \in Both("update"), w \in SUBSET Pointers}]
  \cup [kind : {"create", "createExtending"}, c : Callers, q : {<<>>}, clp : {CLP(ps, {}, w) : ps \in Both("create"), w \in SUBSET Pointers}]
  \cup [kind : {"delete"}, c : Callers, q : Queries, clp : {CLP(ps, {}, w) : ps \in Of("delete", Grants), w \in SUBSET Pointers}]

\* An operation reaches the rows of its query for which the caller has every right it needs.
Reaches(x, outcome, ops) ==
  outcome.rows = {o \in Permissions!Matches(x.q) : \A op \in ops : Permissions!MayAct(x.clp, x.c, op, o)}
AccessAsRuled(x) ==
  CASE x.kind = "find" ->
         Reaches(x, Permissions!Find(x.clp, Rows, x.c, x.q, None, FALSE), {Permissions!OpOf(x.q, None, FALSE)})
    [] x.kind = "count" -> Reaches(x, Permissions!Find(x.clp, Rows, x.c, x.q, None, TRUE), {"count"})
    [] x.kind = "update" -> Reaches(x, Permissions!Update(x.clp, Rows, x.c, x.q, FALSE), {"update"})
    [] x.kind = "extend" -> Reaches(x, Permissions!Update(x.clp, Rows, x.c, x.q, TRUE), {"update", "addField"})
    [] x.kind = "delete" -> Reaches(x, Permissions!Destroy(x.clp, Rows, x.c, x.q), {"delete"})
    [] OTHER ->
         LET extending == x.kind = "createExtending" IN
         (Permissions!Create(x.clp, x.c, extending).result = "ok") = Permissions!MayCreate(x.clp, x.c, extending)

-----------------------------------------------------------------------------
\* Protected fields, of rows of the users' class and of another one.
Stored == {"p", "a", "d", "e", "sessionToken", "authData", "failed_login_count"}
ShownRows == {Row(p, {"u1"}, None, self) : p \in {{}, {"u1"}}, self \in {None, "u1"}}
Hiding == {{}, {"d"}, {"d", "e"}}
Rules(keys) == UNION {[ks -> Hiding] : ks \in keys}
ShowCases ==
  [kind : {"show"}, c : Callers \ {Caller("u2", {})}, own : {FALSE}, keys : {None, {"d"}, {"d", "p"}}, row : ShownRows,
   protected : {None} \cup Rules(SUBSET {"*", "authenticated", "u1"} \cup {{"r"}, {"*", "r"}}),
   byField : Rules(SUBSET Pointers)]

RulesOf(x) == [perms |-> <<>>, readUserFields |-> {}, writeUserFields |-> {}, protected |-> x.protected, byField |-> x.byField]
ShownAsRuled(x) ==
  Permissions!Shown(RulesOf(x), x.c, x.own, x.keys, "find", x.row, Stored)
    = Permissions!MayShow(RulesOf(x), x.c, x.keys, x.row, Stored)

\* ACLs as they are sent: what is stored gives back the entries that allow something.
AclCases ==
  [kind : {"acl"}, acl : UNION {[es -> [read : BOOLEAN, write : BOOLEAN]] : es \in SUBSET Permissions!Group}]
KeepsAcl(x) ==
  LET entries == {e \in DOMAIN x.acl : x.acl[e].read \/ x.acl[e].write} IN
  Permissions!UntransformObjectACL(Permissions!TransformObjectACL(x.acl)) = [e \in entries |-> x.acl[e]]

-----------------------------------------------------------------------------
Rest == INSTANCE RestQueries

RestRow(id, x, f, g) == [id |-> id, x |-> x, f |-> f, g |-> g]
ARows == {RestRow(1, "p", 11, None), RestRow(2, "q", 12, None), RestRow(3, "p", 13, None), RestRow(4, None, None, None)}
BRows == {RestRow(11, "p", None, 12), RestRow(12, "q", None, 13), RestRow(13, None, None, 11)}
All == {1, 2, 3, 4, 11, 12, 13}
Joins == {<<>>, << <<1, 11>>, <<1, 12>>, <<2, 12>> >>, << <<3, 13>>, <<2, 11>>, <<4, 12>> >>}
Databases ==
  {[A |-> ARows, B |-> BRows, join |-> j, readable |-> r] : j \in Joins, r \in {All, All \ {12}, All \ {2, 13}}}

C(op, v) == [o \in {op} |-> v]
Where(k, c) == [x \in {k} |-> c]
Paired(s) == {a @@ b : a \in s, b \in s}

\* Constraints on the pointer, the data, the objectId and the relation.
Sub == {<<>>, Where("x", C("$eq", "p")), Where("objectId", C("$in", {11, 12})), Where("x", C("$ne", "p")),
        Where("g", C("$inQuery", Where("x", C("$eq", "p"))))}
OnPointer == {C("$in", {11}), C("$nin", {11}), C("$eq", 11), C("$ne", 12)}
             \cup {C(o, w) : o \in {"$inQuery", "$notInQuery"}, w \in Sub}
OnData == {C("$eq", "p"), C("$ne", "p"), C("$nin", {"q"})} \cup {C(o, w) : o \in {"$select", "$dontSelect"}, w \in Sub}
OnId == {C("$eq", 1), C("$in", {1, 2}), C("$nin", {2}), C("$in", {1, 3}) @@ C("$nin", {3})}
OnRelation == {C("$eq", 12), C("$in", {11, 12}), C("$ne", 11), C("$nin", {12, 13}), C("$in", {11, 12}) @@ C("$ne", 12)}

Fields == {<<>>} \cup {Where("f", c) : c \in Paired(OnPointer)} \cup {Where("x", c) : c \in Paired(OnData)}
          \cup {Where("objectId", c) : c \in OnId}
Relations == {Where("rel", c) : c \in OnRelation} \cup {Where("rel", c) @@ Where("objectId", d) : c \in OnRelation, d \in OnId}
             \cup {Where("f", c) @@ Where("objectId", d) @@ Where("rel", e) : c \in OnPointer, d \in OnId, e \in {C("$in", {11, 12}) @@ C("$ne", 12)}}
Wheres == {Where("f", C("$eq", 11)), Where("x", C("$ne", "p")), Where("rel", C("$in", {11})),
        Where("rel", C("$ne", 12)) @@ Where("objectId", C("$in", {1, 2}))}
Alternatives ==
  {Where(k, {a, b}) @@ w : k \in {"$or", "$and"}, a \in Wheres, b \in Wheres,
                           w \in {<<>>, Where("objectId", C("$ne", 1)), Where("rel", C("$eq", 12))}}
\* Of class "B": what object 1 or 2 is related to.
Related == {Where("$relatedTo", o) @@ w : o \in {1, 2},
              w \in {<<>>, Where("objectId", C("$in", {11, 13})), Where("objectId", C("$eq", 12)), Where("x", C("$eq", "p")),
                     Where("g", C("$inQuery", Where("x", C("$eq", "p"))))}}

FindCases ==
  [kind : {"where"}, db : Databases, class : {"A"}, where : Fields \cup Relations \cup Alternatives]
  \cup [kind : {"where"}, db : Databases, class : {"B"}, where : Related]
FindsWhatIsMeant(x) ==
  Rest!Kept(x.where, TRUE) =>
    Rest!Execute(x.db, x.class, x.where, FALSE, None)
      = {r \in x.db[x.class] : r.id \in x.db.readable /\ Rest!Means(x.db, r, x.where)}

-----------------------------------------------------------------------------
Upto(n, s) == {t \in SUBSET s : Cardinality(t) <= n}
AnswerCases ==
  [kind : {"answer"}, all : BOOLEAN, excluded : {{}, {<<"f">>}, {<<"x">>, <<"f", "g">>}}, db : {[A |-> ARows, B |-> BRows, join |-> <<>>, readable |-> r] : r \in {All, All \ {12}, All \ {2, 13}}},
   keys : Upto(2, {<<"x">>, <<"f">>, <<"f", "x">>, <<"f", "g", "x">>, <<"f", "g">>}),
   include : Upto(2, {<<"f">>, <<"f", "g">>, <<"f", "g", "g">>, <<"g">>})]
Readable(db, class) == {r \in db[class] : r.id \in db.readable}
AnswersWhatIsAsked(x) ==
  Rest!Answer(x.db, Readable(x.db, "A"), x.keys, x.include, x.all, x.excluded)
    = {Rest!AskedOf(x.db, r, x.keys, x.include, x.all, x.excluded) : r \in Readable(x.db, "A")}

-----------------------------------------------------------------------------
\* Rows that come and go between the pages.
Versions == SUBSET (1..4)
EachCases == [kind : {"each"}, versions : {<<a, b, c>> : a \in Versions, b \in Versions, c \in Versions}, n : 1..3]
EachOnce(x) ==
  LET pages == Rest!EachFrom(x.versions, 0, x.n, 1)
      all == x.versions[1] \cap x.versions[2] \cap x.versions[3]
  IN
  /\ all \subseteq UNION {pages[p] : p \in DOMAIN pages}
  /\ \A p, q \in DOMAIN pages : p # q => pages[p] \cap pages[q] = {}
-----------------------------------------------------------------------------
(* GraphQL. *)
Field(t, target) == [type |-> t, target |-> target]
ClassFields ==
  [A |-> [objectId |-> Field("String", None), n |-> Field("Number", None), o |-> Field("Object", None), g |-> Field("GeoPoint", None),
          p |-> Field("Pointer", "B"), r |-> Field("Relation", "B")],
   B |-> [objectId |-> Field("String", None), n |-> Field("Number", None)],
   C |-> [objectId |-> Field("String", None), x |-> Field("String", None), f |-> Field("Pointer", "D"), rel |-> Field("Relation", "D")],
   D |-> [objectId |-> Field("String", None), x |-> Field("String", None), g |-> Field("Pointer", "D")]]
Gql == INSTANCE GraphQLQueries WITH Fields <- ClassFields
W(k, v) == Gql!With(k, v)

Id(s) == <<"object", s>>
AObject(id, n, o, g, p, r) == [objectId |-> Id(id), n |-> n, o |-> o, g |-> g, p |-> p, r |-> r]
BObject(id, n) == [objectId |-> Id(id), n |-> n]
At(x, y) == <<"place", x, y>>
AObjects == {AObject("a1", 1, [k |-> 1, l |-> 2], At(0, 0), Id("b1"), {"b1", "b2"}), AObject("a2", 2, [k |-> 2, l |-> 2], At(2, 1), Id("b2"), {"b2"}),
          AObject("a3", None, None, None, None, {}), AObject("a4", 3, [k |-> None, l |-> 1], At(1, 3), Id("b3"), {"b3"})}
BObjects == {BObject("b1", 1), BObject("b2", 2), BObject("b3", None)}

-----------------------------------------------------------------------------
\* Values and operators as the REST API has them.
Inside(v, op, x) ==
  LET d2(c) == (v[2] - c[2]) * (v[2] - c[2]) + (v[3] - c[3]) * (v[3] - c[3]) IN
  CASE op = "$within" -> x["$box"][1][2] <= v[2] /\ v[2] <= x["$box"][2][2] /\ x["$box"][1][3] <= v[3] /\ v[3] <= x["$box"][2][3]
    [] op = "$geoWithin" -> IF "$polygon" \in DOMAIN x THEN \E i \in DOMAIN x["$polygon"] : x["$polygon"][i] = <<"GeoPoint", v[2], v[3]>>
                            ELSE d2(x["$centerSphere"][1]) <= x["$centerSphere"][2] * x["$centerSphere"][2]
RECURSIVE Finds(_, _, _)
Holds(class, v, op, x) ==
  CASE op = "$eq" -> v = x [] op = "$ne" -> v # x
    [] op = "$lt" -> v # None /\ v < x [] op = "$gt" -> v # None /\ v > x
    [] op = "$in" -> v \in x [] op = "$nin" -> v \notin x
    [] op = "$exists" -> (v # None) = x
    [] op = "$select" -> v \in {b.n : b \in {c \in BObjects : Finds("B", c, x.where)}}
    [] op = "$dontSelect" -> v \notin {b.n : b \in {c \in BObjects : Finds("B", c, x.where)}}
    [] OTHER -> v # None /\ Inside(v, op, x)
Finds(class, row, where) ==
  \A k \in DOMAIN where :
    CASE k = <<"$or">> -> (\E w \in where[k] : Finds(class, row, w))
      [] k = <<"$and">> -> (\A w \in where[k] : Finds(class, row, w))
      [] k = <<"$nor">> -> ~ (\E w \in where[k] : Finds(class, row, w))
      [] k \in {<<"p">>, <<"r">>} ->
           LET held == IF k = <<"r">> THEN {Id(b) : b \in row.r} ELSE {row.p} \ {None}
               sub(x) == {b.objectId : b \in {c \in BObjects : Finds("B", c, x.where)}}
           IN (\A op \in DOMAIN where[k] :
                 CASE op = "$inQuery" -> held \cap sub(where[k][op]) # {}
                   [] op = "$notInQuery" -> held \cap sub(where[k][op]) = {}
                   [] op = "$exists" -> (held # {}) = where[k][op])
      [] OTHER -> LET v == IF Len(k) = 2 THEN (IF row[k[1]] = None THEN None ELSE row[k[1]][k[2]]) ELSE row[k[1]]
                  IN \A op \in DOMAIN where[k] : Holds(class, v, op, where[k][op])

\* What a where of the GraphQL API says of a row.
RECURSIVE Means(_, _, _)
Says(v, op, x) ==
  CASE op = "equalTo" -> v = x [] op = "notEqualTo" -> v # x
    [] op = "lessThan" -> v # None /\ v < x [] op = "greaterThan" -> v # None /\ v > x
    [] op = "in" -> v \in x [] op = "notIn" -> v \notin x
    [] op = "exists" -> (v # None) = x
    [] op = "inQueryKey" -> v \in {b.n : b \in {c \in BObjects : Means("B", c, x.where)}}
    [] op = "notInQueryKey" -> v \notin {b.n : b \in {c \in BObjects : Means("B", c, x.where)}}
    [] op = "within" -> v # None /\ v[2] \in x.box.bottomLeft[2]..x.box.upperRight[2] /\ v[3] \in x.box.bottomLeft[3]..x.box.upperRight[3]
    [] op = "geoWithin" -> v # None /\ IF "polygon" \in DOMAIN x THEN v \in ToSet(x.polygon)
                                       ELSE LET c == x.centerSphere.center
                                                d == x.centerSphere.distance
                                            IN (v[2] - c[2]) * (v[2] - c[2]) + (v[3] - c[3]) * (v[3] - c[3]) <= d * d
Means(class, row, where) ==
  \A f \in DOMAIN where :
    LET c == where[f] IN
    CASE f = "OR" -> (\E w \in c : Means(class, row, w))
      [] f = "AND" -> (\A w \in c : Means(class, row, w))
      [] f = "NOR" -> (\A w \in c : ~ Means(class, row, w))
      [] f = "id" -> LET named(x) == x[1] \in {"object", class} /\ row.objectId[2] = x[2] IN
                     (\A op \in DOMAIN c : CASE op = "equalTo" -> named(c[op]) [] op = "notEqualTo" -> ~ named(c[op])
                                             [] op = "in" -> (\E x \in c[op] : named(x)) [] op = "notIn" -> ~ \E x \in c[op] : named(x))
      [] f = "o" -> (\A op \in DOMAIN c : IF op = "exists" THEN (row.o # None) = c[op]
                                          ELSE Says(IF row.o = None THEN None ELSE row.o[c[op].key], op, c[op].value))
      [] f \in {"p", "r"} ->
           LET held == {b \in BObjects : IF f = "r" THEN b.objectId[2] \in row.r ELSE b.objectId = row.p}
               have(w) == \E b \in held : Means("B", b, w)
           IN (\A op \in DOMAIN c : CASE op = "have" -> have(c[op]) [] op = "haveNot" -> ~ have(c[op]) [] op = "exists" -> (held # {}) = c[op])
      [] OTHER -> \A op \in DOMAIN c : Says(row[f], op, c[op])

\* Of the wheres that say of a relation that it has certain objects and that it has some, the
\* second is all that is left; keys of an object without a value stay constants.
RECURSIVE Transformed(_)
Transformed(where) ==
  \A f \in DOMAIN where :
    CASE f \in {"OR", "AND", "NOR"} -> (\A w \in where[f] : Transformed(w))
      [] f = "r" -> ~ ("have" \in DOMAIN where[f] /\ "exists" \in DOMAIN where[f] /\ where[f]["exists"])
      [] f = "o" -> "exists" \in DOMAIN where[f] => Gql!Keyed(where[f]) = {}
      [] OTHER -> TRUE

Ids == {Id("a1"), Id("b2"), <<"A", "a1">>, <<"A", "a2">>, <<"B", "a1">>}
SubWheres == {<<>>, W("n", W("equalTo", 1)), W("n", W("exists", FALSE)), W("id", W("equalTo", <<"B", "b2">>)),
              W("OR", {W("n", W("greaterThan", 1)), W("id", W("in", {Id("b1")}))})}
Numbers == {W("equalTo", 1), W("notEqualTo", 2), W("lessThan", 3), W("greaterThan", 1), W("in", {1, 3}), W("exists", TRUE), W("exists", FALSE),
            W("inQueryKey", [where |-> W("n", W("lessThan", 2)), key |-> "n"]), W("notInQueryKey", [where |-> W("n", W("lessThan", 2)), key |-> "n"])}
Key(k, v) == [key |-> k, value |-> v]
Objects == {W("exists", TRUE), W("exists", FALSE)} \cup {W(op, Key(k, v)) : op \in {"equalTo", "notEqualTo", "lessThan"}, k \in {"k", "l"}, v \in {1, 2}}
Links == {W("exists", TRUE), W("exists", FALSE)} \cup {W(op, w) : op \in {"have", "haveNot"}, w \in SubWheres}
Places == {W("within", [box |-> [bottomLeft |-> At(0, 0), upperRight |-> At(2, 2)]]), W("geoWithin", [polygon |-> <<At(0, 0), At(1, 3)>>]),
           W("geoWithin", [centerSphere |-> [center |-> At(1, 1), distance |-> 1]]), W("exists", TRUE)}
Singles == {W("n", c) : c \in Paired(Numbers)} \cup {W("o", c) : c \in Paired(Objects)} \cup {W(f, c) : f \in {"p", "r"}, c \in Paired(Links)}
           \cup {W("g", c) : c \in Places} \cup {W("id", W(op, id)) : op \in {"equalTo", "notEqualTo"}, id \in Ids}
           \cup {W("id", W(op, {i, j})) : op \in {"in", "notIn"}, i \in Ids, j \in Ids}
FewWheres == {W("n", W("equalTo", 1)), W("id", W("equalTo", <<"A", "a2">>)), W("p", W("have", W("n", W("greaterThan", 1)))),
        W("r", W("haveNot", W("id", W("equalTo", <<"B", "b2">>)))), W("o", W("equalTo", Key("l", 2)))}
Compounds == {W(k, {v, w}) @@ u : k \in {"OR", "AND", "NOR"}, v \in FewWheres, w \in FewWheres, u \in {<<>>} \cup FewWheres}
WhereCases == [kind : {"graphQLWhere"}, where : {<<>>} \cup Singles \cup Compounds \cup Paired(FewWheres)]

\* A where finds the rows it describes.
WhereIsKept(x) ==
  Transformed(x.where) =>
    LET where == Gql!TransformQueryInputToParse(x.where, "A") IN
    \A row \in AObjects : Finds("A", row, where) <=> Means("A", row, x.where)

-----------------------------------------------------------------------------
Arg(m) == {None} \cup m
SliceCases ==
  [kind : {"graphQLSlice"}, n : 0..4, max : {None, 2}, selected : {{"edges", "pageInfo", "count"}, {"count"}, {"edges"}},
   a : [skip : Arg({0, 1}), first : Arg({0, 1, 2, 9}), after : Arg({0, 2, -1}), last : Arg({0, 1, 3}), before : Arg({0, 1, 3, 9})]]

\* A connection answers the slice its arguments cut out: what comes after `skip` and `after` and
\* before `before`, the first of that, the last of these.  Asked for the last of more rows than
\* there are, the rows beyond the end are counted too; asked for the last of none, the query
\* fails for want of a count, if it selects one.
Cut(x) ==
  LET a == x.a
      lo == Gql!Or(a.skip, 0) + (IF a.after = None THEN 0 ELSE a.after + 1)
      window == {p \in 0..(x.n - 1) : p >= lo /\ (a.before = None \/ p < a.before)}
      first == IF a.first = None THEN window ELSE {p \in window : p < lo + a.first}
      size == IF a.last # None /\ (x.max = None \/ a.last <= x.max) THEN a.last ELSE IF x.max # None THEN x.max ELSE 100
  IN IF a.last # None THEN {p \in first : Cardinality({q \in first : q > p}) < size}
     ELSE {p \in first : Cardinality({q \in first : q < p}) < size}
LastAreThere(x) ==
  LET a == x.a
      lo == Gql!Or(a.skip, 0) + (IF a.after = None THEN 0 ELSE a.after + 1)
      full == IF a.first # None /\ (a.before = None \/ lo + a.first <= a.before) THEN lo + a.first
              ELSE Gql!Or(a.before, 0)
  IN a.last # None => full <= x.n
LastOfNone(x) ==
  /\ x.n = 0 /\ x.selected \cap {"count", "pageInfo"} # {}
  /\ x.a.last \notin {None, 0} /\ x.a.first = None /\ x.a.before = None
IsCut(x, r, cut) ==
  IF LastOfNone(x) \/ \E k \in DOMAIN x.a : Gql!Negative(x.a[k]) THEN r = None
  ELSE LastAreThere(x) =>
       /\ [i \in DOMAIN r.edges |-> r.edges[i].node] = SetToSortSeq(cut, <)
       /\ \A i \in DOMAIN r.edges : r.edges[i].cursor = r.edges[i].node
       /\ "count" \in x.selected => r.count = x.n
       /\ "pageInfo" \in x.selected /\ cut # {} =>
            /\ r.pageInfo.hasPreviousPage = (0 \notin cut)
            /\ r.pageInfo.hasNextPage = (x.n - 1 \notin cut)
            /\ r.pageInfo.startCursor \in cut /\ r.pageInfo.endCursor \in cut
SliceIsAnswered(x) ==
  IsCut(x, Gql!FindObjects(x.n, x.a, x.selected, x.max), IF x.selected \cap {"edges", "pageInfo"} = {} THEN {} ELSE Cut(x))

\* Page by page along the cursors, in either direction, every row there is is seen once.
RECURSIVE Walk(_, _, _, _, _), Onward(_, _, _, _, _)
Onward(n, k, forward, max, r) ==
  LET page == [i \in DOMAIN r.edges |-> r.edges[i].node] IN
  IF forward
  THEN page \o (IF r.pageInfo.hasNextPage THEN Walk(n, k, forward, r.pageInfo.endCursor, max) ELSE <<>>)
  ELSE (IF r.pageInfo.hasPreviousPage THEN Walk(n, k, forward, r.pageInfo.startCursor, max) ELSE <<>>) \o page
Walk(n, k, forward, cursor, max) ==
  LET none == [skip |-> None, first |-> None, after |-> None, last |-> None, before |-> None]
      a == IF forward THEN [none EXCEPT !.first = k, !.after = cursor] ELSE [none EXCEPT !.last = k, !.before = cursor]
  IN Onward(n, k, forward, max, Gql!FindObjects(n, a, {"edges", "pageInfo"}, max))
WalkCases == [kind : {"graphQLWalk"}, n : 1..7, k : 1..4, forward : BOOLEAN, max : {None, 2}]
EachSeenOnce(x) == Walk(x.n, x.k, x.forward, None, x.max) = [i \in 1..x.n |-> i - 1]

-----------------------------------------------------------------------------
\* The objects of RestQueries, whose class "A" is "C" here, and selections of fields of them.
Selectable(id, v, f, g) == [id |-> id, x |-> v, f |-> f, g |-> g]
Db(readable) == [A |-> {Selectable(1, "p", 11, None), Selectable(2, "q", 12, None), Selectable(3, None, None, None)},
                 B |-> {Selectable(11, "p", None, 12), Selectable(12, "q", None, 11)}, join |-> <<>>, readable |-> readable]
Paths == {<<"id">>, <<"x">>, <<"f", "id">>, <<"f", "x">>, <<"f", "g", "x">>, <<"f", "g", "id">>, <<"made">>, <<"f", "made">>, <<"__typename">>, <<"authData">>}
SelectionCases == [kind : {"graphQLSelection"}, selected : {s \in SUBSET Paths : Cardinality(s) <= 4}, readable : {{1, 2, 3, 11, 12}, {1, 2, 3, 12}}]

RECURSIVE Below(_, _)
Below(v, path) ==
  IF path = <<>> THEN v ELSE IF Rest!IsPointer(v) \/ "data" \in DOMAIN v \/ Head(path) \notin DOMAIN v THEN None ELSE Below(v[Head(path)], Tail(path))
Known == {<<"id">>, <<"x">>, <<"f", "id">>, <<"f", "x">>, <<"f", "g", "x">>, <<"f", "g", "id">>, <<"__typename">>}
\* Every field selected is there, of the objects the caller may read, and no other unless a
\* field is selected that only a trigger can make.
SelectionIsThere(x) ==
  LET db == Db(x.readable)
      options == Gql!OptionsOf("C", x.selected)
      Seen(row) == Rest!Answer(db, {row}, options.keys, options.include, FALSE, {})
      read(id) == CHOOSE b \in db.B : b.id = id
      Data(v) == IF v = None THEN None ELSE [data |-> v]
  IN \A row \in db.A :
       LET answer == CHOOSE v \in Seen(row) : TRUE IN
       /\ x.selected \subseteq Known /\ x.selected # {<<"__typename">>} /\ x.selected # {} =>
            DOMAIN answer \subseteq {Head(p) : p \in x.selected} \cup {"objectId"}
       /\ <<"x">> \in x.selected => Below(answer, <<"x">>) = Data(row.x)
       /\ row.f # None /\ row.f \in x.readable =>
            /\ <<"f", "x">> \in x.selected => Below(answer, <<"f", "x">>) = Data(read(row.f).x)
            /\ <<"f", "g", "x">> \in x.selected /\ read(row.f).g \in x.readable =>
                 Below(answer, <<"f", "g", "x">>) = Data(read(read(row.f).g).x)

-----------------------------------------------------------------------------
WriteFields ==
  [A |-> [objectId |-> Field("String", None), n |-> Field("Number", None), p |-> Field("Pointer", "B"), r |-> Field("Relation", "B"),
          g |-> Field("GeoPoint", None), y |-> Field("Polygon", None), u |-> Field("File", None)],
   B |-> [objectId |-> Field("String", None), n |-> Field("Number", None), next |-> Field("Pointer", "B")]]
Writes == INSTANCE GraphQLMutations WITH Fields <- WriteFields

Num(k) == <<"Number", k>>
World == << [class |-> "A", data |-> [n |-> Num(1), p |-> <<"Pointer", Id(3)>>, r |-> <<"Relation", {Id(3), Id(4)}>>]],
            [class |-> "A", data |-> <<>>],
            [class |-> "B", data |-> W("n", Num(1))],
            [class |-> "B", data |-> [n |-> Num(2), next |-> <<"Pointer", Id(3)>>]] >>

\* Inputs: a pointer is linked or made, objects of a relation are added, removed or made.
ToLink(id, input) == [link |-> id, createAndLink |-> input]
ToRelate(add, remove, inputs) == [add |-> add, remove |-> remove, createAndAdd |-> inputs]
Bs == {W("n", Num(3)), W("next", ToLink(<<"B", 4>>, None)), W("next", ToLink(None, W("n", Num(4)))), W("next", ToLink(None, None))}
LinkInputs == {ToLink(Id(4), None), ToLink(<<"B", 4>>, None), ToLink(None, None), ToLink(Id(4), W("n", Num(3)))} \cup {ToLink(None, b) : b \in Bs}
RelationInputs == {ToRelate(a, r, c) : a \in {None, <<>>, <<Id(3)>>, <<(<<"B", 3>>)>>}, r \in {None, <<Id(4)>>, <<(<<"B", 4>>)>>},
                                  c \in {None, <<>>} \cup {<<b>> : b \in Bs} \cup {<<b, W("n", Num(5))>> : b \in Bs}}
Rule(of, r, w) == [of |-> of, read |-> r, write |-> w]
AclInputs == {[public |-> p, users |-> u, roles |-> r] :
           p \in {None, Rule(None, TRUE, FALSE)}, r \in {<<>>, <<Rule("staff", TRUE, TRUE)>>},
           u \in {<<>>, <<Rule(<<"_User", "u7">>, TRUE, FALSE)>>, <<Rule(<<"_User", "u7">>, TRUE, FALSE), Rule(Id("u7"), FALSE, TRUE)>>, <<Rule(<<"B", "u7">>, TRUE, TRUE)>>}}
Uploads == {[file |-> f, upload |-> u] : f \in {None, "null", "f1"}, u \in {None, "f2"}}
Inputs ==
  {<<>>} \cup {W("p", v) : v \in LinkInputs} \cup {W("n", Num(5)) @@ W("p", v) : v \in LinkInputs} \cup {W("r", v) : v \in RelationInputs}
  \cup {W("p", v) @@ W("r", ToRelate(None, None, <<W("n", Num(6))>>)) : v \in LinkInputs}
  \cup {W("ACL", v) : v \in AclInputs} \cup {W("u", v) : v \in Uploads} \cup {W("g", At(1, 2)), W("y", <<At(0, 0), At(0, 1), At(1, 0)>>)}

AnyRight == {<<op, class>> : op \in {"create", "update", "delete", "get"}, class \in {"A", "B"}}
Rights == {AnyRight, AnyRight \ {<<"create", "B">>}, AnyRight \ {<<"get", "A">>}, AnyRight \ {<<"create", "A">>, <<"update", "A">>, <<"delete", "A">>}}
Selections == {{}, {<<"id">>}, {<<"n">>, <<"p", "n">>}, {<<"n">>, <<"createdAt">>}, {<<"made">>, <<"r">>}}
Sets == {[A |-> <<>>, B |-> <<>>], [A |-> W("n", Num(8)), B |-> W("n", Num(9))]}
Mutations ==
  [kind : {"graphQLMutation"}, op : {"create"}, id : {None}, input : Inputs, rights : Rights, sets : Sets, selected : Selections]
  \cup [kind : {"graphQLMutation"}, op : {"update"}, id : {Id(1), <<"A", 1>>, <<"A", 2>>, <<"B", 1>>, Id(3), Id(9)}, input : Inputs,
        rights : Rights, sets : Sets, selected : {{<<"id">>}, {<<"n">>, <<"p", "n">>}, {<<"made">>, <<"r">>}}]
  \cup [kind : {"graphQLMutation"}, op : {"delete"}, id : {Id(1), <<"A", 2>>, <<"B", 1>>, Id(9)}, input : {<<>>},
        rights : Rights, sets : Sets, selected : Selections]

-----------------------------------------------------------------------------
\* The input can be written: one object for a pointer, something to do for a relation, a file
\* for a file, and the right to create what is to be created.
Several(v) == {v.createAndAdd[i] : i \in IF v.createAndAdd = None THEN {} ELSE DOMAIN v.createAndAdd}
RECURSIVE Valid(_, _)
Valid(input, rights) ==
  \A f \in DOMAIN input :
    CASE f \in {"p", "next"} -> LET v == input[f] IN (v.link = None) # (v.createAndLink = None)
                                /\ (v.createAndLink = None \/ (<<"create", "B">> \in rights /\ Valid(v.createAndLink, rights)))
      [] f = "r" -> LET v == input[f] IN v # ToRelate(None, None, None) /\ (\A i \in Several(v) : <<"create", "B">> \in rights /\ Valid(i, rights))
      [] f = "u" -> input[f].file # None \/ input[f].upload # None
      [] OTHER -> TRUE
RECURSIVE Created(_)
Created(input) ==
  FoldLeft(LAMBDA n, f : n + (CASE f \in {"p", "next"} -> IF input[f].createAndLink = None THEN 0 ELSE 1 + Created(input[f].createAndLink)
                                [] f = "r" -> LET c == Writes!Or(input[f].createAndAdd, <<>>) IN FoldLeft(LAMBDA k, i : k + 1 + Created(i), 0, c)
                                [] OTHER -> 0), 0, SetToSeq(DOMAIN input))

Named(s) == {Id(s[i][2]) : i \in DOMAIN s}
RuleFor(v, subject) ==
  CASE subject = Id("*") -> v.public
    [] subject[1] = "role" -> LET r == {i \in DOMAIN v.roles : v.roles[i].of = subject[2]} IN
                              IF r = {} THEN None ELSE v.roles[CHOOSE i \in r : \A j \in r : j <= i]
    [] OTHER -> LET r == {i \in DOMAIN v.users : v.users[i].of \in {subject} \cup (IF subject[1] = "object" THEN {<<"_User", subject[2]>>} ELSE {})} IN
                IF r = {} THEN None ELSE v.users[CHOOSE i \in r : \A j \in r : j <= i]

\* The object has what the input says, and what the input creates is there and has what that says.
\* What it says nothing of is as before, but for what a trigger sets.
RECURSIVE Describes(_, _, _, _, _, _)
Describes(world, id, class, before, input, sets) ==
  LET data == world[id].data
      has(f) == f \in DOMAIN data
      made(k, i) == k > Len(World) /\ k \in DOMAIN world /\ Describes(world, k, "B", <<>>, i, sets)
  IN /\ world[id].class = class
     /\ \A f \in DOMAIN sets[class] : has(f) /\ data[f] = sets[class][f]
     /\ \A f \in (DOMAIN before \cup DOMAIN data) \ (DOMAIN input \cup DOMAIN sets[class]) : f \in DOMAIN before /\ has(f) /\ data[f] = before[f]
     /\ \A f \in DOMAIN input \ DOMAIN sets[class] :
          LET v == input[f] IN
          /\ has(f)
          /\ CASE f \in {"p", "next"} -> IF v.link # None THEN data[f] = <<"Pointer", Id(v.link[2])>>
                                         ELSE made(data[f][2][2], v.createAndLink)
               [] f = "r" -> LET old == IF f \in DOMAIN before THEN before[f][2] ELSE {}
                                 kept == (old \cup Named(Writes!Or(v.add, <<>>))) \ Named(Writes!Or(v.remove, <<>>))
                                 new == data[f][2] \ kept
                             IN /\ kept \subseteq data[f][2] /\ Cardinality(new) = Len(Writes!Or(v.createAndAdd, <<>>))
                                /\ (\A i \in Several(v) : \E k \in new : made(k[2], i))
                                /\ (\A k \in new : \E i \in Several(v) : made(k[2], i))
               [] f = "ACL" -> (\A s \in {Id("*"), Id("u7"), <<"B", "u7">>, <<"role", "staff">>} :
                                  LET rule == RuleFor(v, s) IN
                                  IF rule = None THEN s \notin DOMAIN data[f][2]
                                  ELSE s \in DOMAIN data[f][2] /\ data[f][2][s] = [read |-> rule.read, write |-> rule.write])
               [] f = "u" -> data[f] = IF v.upload # None THEN <<"File", v.upload>> ELSE IF v.file = "null" THEN None ELSE <<"File", v.file>>
               [] f = "g" -> data[f] = <<"GeoPoint", 1, 2>>
               [] f = "y" -> data[f] = <<"Polygon", <<(<<0, 0>>), <<0, 1>>, <<1, 0>>>>>>
               [] OTHER -> data[f] = v

Mutation(x, env) ==
  CASE x.op = "create" -> Writes!Create(env, World, "A", x.input, x.selected)
    [] x.op = "update" -> Writes!Update(env, World, "A", x.id, x.input, x.selected)
    [] x.op = "delete" -> Writes!Delete(env, World, "A", x.id, x.selected)
MayWrite(x) ==
  /\ x.id = None \/ (x.id[1] \in {"object", "A"} /\ x.id[2] \in {1, 2})
  /\ Valid(x.input, x.rights) /\ <<x.op, "A">> \in x.rights
AsDescribed(x, r, written, target) ==
  /\ \A k \in DOMAIN World : (written /\ k = target) \/ r.world[k] = World[k]
  /\ IF ~ written THEN Len(r.world) <= Len(World) + Created(x.input)
     ELSE /\ Len(r.world) = Len(World) + Created(x.input) + (IF x.op = "create" THEN 1 ELSE 0)
          /\ IF x.op = "delete" THEN r.world[target].class = None
             ELSE Describes(r.world, target, "A", IF x.id = None THEN <<>> ELSE World[target].data, x.input, x.sets)
AsStored(x, answer, data) ==
  \A f \in {"n", "p", "r"} :
    (\E s \in x.selected : s[1] = f) =>
      IF f \in DOMAIN data THEN f \in DOMAIN answer /\ answer[f] = (IF f = "r" THEN <<"Relation", "B">> ELSE data[f])
      ELSE f \notin DOMAIN answer
Agrees(x, r) ==
  LET target == IF x.id = None THEN Len(r.world) ELSE x.id[2]
      reads == x.selected \ (IF x.op = "delete" THEN {<<"id">>} ELSE {}) # {} \/ (x.selected = {} /\ x.op # "delete")
  IN /\ r.ok <=> MayWrite(x) /\ (reads => <<"get", "A">> \in x.rights)
     /\ AsDescribed(x, r, MayWrite(x) /\ (x.op = "delete" => r.ok), target)
     /\ r.ok => /\ r.value.objectId = Id(target)
                /\ AsStored(x, r.value, (IF x.op = "delete" THEN World ELSE r.world)[target].data)

\* A mutation that succeeds leaves what its input describes and answers the fields selected as
\* they are stored; one that fails may have made some of the objects to be linked, and has written
\* the object itself only if it is the answer that could not be read.
Mutated(x) == Agrees(x, Mutation(x, [rights |-> x.rights, sets |-> x.sets]))

-----------------------------------------------------------------------------
Classes == [A |-> [x |-> "String", y |-> "Number"]]
Additions == {<<>>} \cup {<<[name |-> f, type |-> t]>> : f \in {"x", "y", "z"}, t \in {"String", "Number"}}
ClassChanges ==
  [kind : {"graphQLClass"}, op : {"create", "update", "delete"}, name : {"A", "B"}, master : BOOLEAN, readOnly : BOOLEAN,
   add : {a \o b : a \in Additions, b \in Additions}, remove : SUBSET {"x", "z"}]

\* A change of a class takes away the fields named for that and adds the others it names, each of
\* them new; classes are changed with the master key only, and not with one that is to read.
ClassesAgree(x) ==
  LET after == Writes!ChangeClasses([master |-> x.master, readOnly |-> x.readOnly], Classes, x)
      had == IF x.name = "A" THEN DOMAIN Classes.A ELSE {}
      wanted == {i \in DOMAIN x.add : x.add[i].name \notin x.remove}
      new == {x.add[i].name : i \in wanted}
      allowed == /\ x.master /\ ~ x.readOnly /\ (x.op = "create" <=> x.name = "B")
                 /\ x.op # "delete" => Cardinality(new) = Cardinality(wanted) /\ new \cap had = {}
  IN IF ~ allowed THEN after = None
     ELSE IF x.op = "delete" THEN DOMAIN after = {}
     ELSE /\ DOMAIN after = {"A", x.name} /\ (x.name = "B" => after["A"] = Classes["A"])
          /\ DOMAIN after[x.name] = (had \ x.remove) \cup new
          /\ \A i \in wanted : after[x.name][x.add[i].name] = x.add[i].type
          /\ \A f \in had \ x.remove : after[x.name][f] = Classes["A"][f]

-----------------------------------------------------------------------------
SignIns == [kind : {"graphQLSignIn"}, before : {None, "u1"}, user : {"u1", "u2"}, selected : {{}, {<<"id">>}, {<<"authData">>}}, then : {{<<"id">>}}]
\* The viewer answered is whoever signed in, with the new session; what the request does next is
\* not done with a third user's rights, and the viewer asked for next is who signed in.
ViewerSignedIn(x) ==
  LET context == [session |-> IF x.before = None THEN None ELSE <<"s", x.before>>, user |-> x.before]
      r == Writes!SignIn(context, <<"s", x.user>>, x.user, x.selected)
      next == Writes!GetUserFromSessionToken(r.context, None, x.then)
  IN /\ r.viewer.session = <<"s", x.user>> /\ r.viewer.user = (IF x.selected = {} THEN None ELSE x.user)
     /\ r.context.user \in {x.before, x.user}
     /\ x.selected # {} => next.viewer = [session |-> <<"s", x.user>>, user |-> x.user]
=============================================================================
