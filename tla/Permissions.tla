---------------------------- MODULE Permissions -----------------------------
(***************************************************************************)
(* Who may do what to the objects of one class: class-level permissions    *)
(* and pointer permissions (SchemaController, DatabaseController), ACLs,   *)
(* and the fields a caller does not see.  A query is a function from the   *)
(* keys it constrains to the objects each constraint admits.               *)
(***************************************************************************)
EXTENDS FiniteSets

CONSTANTS
  Users, Roles,
  Objects,      \* the rows a class may have, see Row
  Pointers,     \* its fields that name users: a pointer or an array of them
  None

Public == "*"
Group == {Public} \cup Users \cup Roles

\* A row: the users each of its pointers names; its ACL, None or the groups that read and
\* that write (_rperm and _wperm); and, of the users' class, the user it is (self).

-----------------------------------------------------------------------------
\* The caller.  RestQuery and RestWrite leave acl undefined for the master key.
AclGroup(c) == {Public} \cup c.roles \cup ({c.user} \ {None})

Readings == {"get", "find", "count"}
UserFields(clp, op) == IF op \in Readings THEN clp.readUserFields ELSE clp.writeUserFields


\* An operation without an entry is open, whatever the pointer permissions.
TestPermissions(clp, group, op) ==
  op \in DOMAIN clp.perms => clp.perms[op].to \cap (group \cup {Public}) # {}

\* Whether the class lets the operation go on; pointer permissions are left to the query.
ValidatePermission(clp, group, op, action) ==
  \/ TestPermissions(clp, group, op)
  \/ LET perm == clp.perms[op] IN
     IF perm.auth THEN group \notin {{}, {Public}}
     ELSE /\ op # "create"
          /\ \/ UserFields(clp, op) # {}
             \/ perm.pointers # {} /\ (op = "addField" => action = "update")

-----------------------------------------------------------------------------
\* Queries.  None is no query: nothing can be found.
Matches(q) == {o \in Objects : \A k \in DOMAIN q : o \in q[k]}
Keyed(k, hits) == [x \in {k} |-> hits]
With(q, more) == [k \in DOMAIN q \cup DOMAIN more |-> IF k \in DOMAIN more THEN more[k] ELSE q[k]]


\* With a constraint on the key already there, both are put in an $and.
Narrow(q, k, hits) ==
  IF k \in DOMAIN q THEN Keyed("$and", hits \cap Matches(q)) ELSE With(q, Keyed(k, hits))

\* Only what points to the caller, through one of the fields for the operation.
AddPointerPermissions(clp, op, q, group) ==
  LET fields == clp.perms[op].pointers \cup UserFields(clp, op)
      users == group \ (Roles \cup {Public})
      Of(f) == {o \in Objects : users \subseteq o.names[f]}
  IN
  IF TestPermissions(clp, group, op) \/ fields = {} THEN q
  ELSE IF Cardinality(users) # 1 THEN None
  ELSE IF Cardinality(fields) = 1 THEN Narrow(q, CHOOSE f \in fields : TRUE, Of(CHOOSE f \in fields : TRUE))
  ELSE Keyed("$or", UNION {Matches(Narrow(q, f, Of(f))) : f \in fields})


AddReadACL(q, group) ==
  With(q, Keyed("_rperm", {o \in Objects : o.acl # None => o.acl.read \cap (group \cup {Public}) # {}}))
AddWriteACL(q, group) ==
  With(q, Keyed("_wperm", {o \in Objects : o.acl # None => o.acl.write \cap group # {}}))

\* What a REST ACL is stored as, and given back as: entries that neither read nor write go.
TransformObjectACL(acl) ==
  IF acl = None THEN None
  ELSE [read |-> {e \in DOMAIN acl : acl[e].read}, write |-> {e \in DOMAIN acl : acl[e].write}]
UntransformObjectACL(stored) ==
  IF stored = None THEN None
  ELSE [e \in stored.read \cup stored.write |-> [read |-> e \in stored.read, write |-> e \in stored.write]]

-----------------------------------------------------------------------------
\* Operations: what they answer, and the rows they answer with or change.
Outcome(result, rows) == [result |-> result, rows |-> rows]
Denied == Outcome("denied", {})
NotFound == Outcome("not found", {})

\* A lone objectId makes a query a get, whoever asks.
OpOf(q, op, count) ==
  IF count THEN "count" ELSE IF op # None THEN op ELSE IF DOMAIN q = {"objectId"} THEN "get" ELSE "find"

Find(clp, rows, c, query, given, count) ==
  LET op == OpOf(query, given, count)
      group == AclGroup(c)
      q == AddPointerPermissions(clp, op, query, group)
      guarded == IF op \in {"update", "delete"} THEN AddWriteACL(q, group) ELSE AddReadACL(q, group)
  IN
  IF c.master THEN Outcome("ok", rows \cap Matches(query))
  ELSE IF ~ ValidatePermission(clp, group, op, None) THEN Denied
  ELSE IF q = None THEN (IF op = "get" THEN NotFound ELSE Outcome("ok", {}))
  ELSE Outcome("ok", rows \cap Matches(guarded))

\* canAddField: a write that brings a field the class does not have.
CanAddField(clp, c, action) == c.master \/ ValidatePermission(clp, AclGroup(c), "addField", action)

\* Mutant: the pointer permissions of addField are not asked.
UpdateQuery_NoAddField(clp, c, query, addsField) == AddPointerPermissions(clp, "update", query, AclGroup(c))

\* A query of which a part is missing is not well-formed: the request fails.
Broken == "broken"
UpdateQuery(clp, c, query, addsField) ==
  LET group == AclGroup(c)
      q == AddPointerPermissions(clp, "update", query, group)
      adds == IF q = None THEN None ELSE AddPointerPermissions(clp, "addField", q, group)
  IN
  IF ~ addsField THEN q
  ELSE IF q = None \/ adds = None THEN Keyed(Broken, {})
  ELSE Keyed("$and", Matches(q) \cap Matches(adds))

\* One row is updated, and none is no success; the caller's own query names it.
Update(clp, rows, c, query, addsField) ==
  LET q == UpdateQuery(clp, c, query, addsField)
      hit == rows \cap Matches(AddWriteACL(q, AclGroup(c)))
  IN
  IF c.master
  THEN (IF rows \cap Matches(query) = {} THEN NotFound ELSE Outcome("ok", rows \cap Matches(query)))
  ELSE IF addsField /\ ~ CanAddField(clp, c, "update") THEN Denied
  ELSE IF ~ ValidatePermission(clp, AclGroup(c), "update", None) THEN Denied
  ELSE IF q = None THEN NotFound
  ELSE IF Broken \in DOMAIN q THEN Outcome("failed", {})
  ELSE IF hit = {} THEN NotFound ELSE Outcome("ok", hit)

Destroy(clp, rows, c, query) ==
  LET q == AddPointerPermissions(clp, "delete", query, AclGroup(c))
      hit == rows \cap Matches(AddWriteACL(q, AclGroup(c)))
  IN
  IF c.master
  THEN (IF rows \cap Matches(query) = {} THEN NotFound ELSE Outcome("ok", rows \cap Matches(query)))
  ELSE IF ~ ValidatePermission(clp, AclGroup(c), "delete", None) THEN Denied
  ELSE IF q = None \/ hit = {} THEN NotFound ELSE Outcome("ok", hit)

Create(clp, c, addsField) ==
  IF c.master \/ (/\ addsField => CanAddField(clp, c, None)
                  /\ ValidatePermission(clp, AclGroup(c), "create", None))
  THEN Outcome("ok", {}) ELSE Denied

-----------------------------------------------------------------------------
\* Protected fields: clp.protected for groups, "authenticated" among them; clp.byField for
\* those an object's pointer names.  temporary: fields fetched only to decide.  null: None.
Meet(sets) == {f \in UNION sets : \A s \in sets : f \in s}

Applies(key, c) == key = Public \/ (c.user # None /\ (key \in {"authenticated", c.user} \/ key \in c.roles))


\* A query of just the caller's own objectId protects nothing.
AddProtectedFields(clp, c, ownId) ==
  IF clp.protected = None \/ ownId THEN None
  ELSE Meet({clp.protected[key] : key \in {k \in DOMAIN clp.protected : Applies(k, c)}})

\* The keys a query projects on: those its rules need are fetched too, and taken out later.
TemporaryKeys(clp, keys) == IF keys = None \/ clp.protected = None THEN {} ELSE DOMAIN clp.byField \ keys


\* The pointers are read from the row as it was fetched.
Protected(clp, c, op, row, fetched, before) ==
  LET named == {f \in DOMAIN clp.byField \cap fetched : c.user # None /\ c.user \in row.names[f]}
      rules == {clp.byField[f] : f \in named}
  IN
  IF clp.protected = None \/ named = {} \/ op \notin {"get", "find"} THEN before
  ELSE Meet(IF before = None THEN rules ELSE rules \cup {before})

UserSecrets == {"perishable_token", "failed_login_count", "password_history"}

\* The fields of a row that reach RestQuery.  A user's own object keeps all of them.
FilterSensitiveData(clp, c, op, row, fields, before, temporary) ==
  LET own == row.self # None /\ row.self = c.user
      hidden == Protected(clp, c, op, row, fields, before)
      gone == (IF hidden = None THEN {} ELSE hidden) \cup temporary
      kept == IF own THEN fields ELSE fields \ gone
      plain == kept \ {"sessionToken"}
  IN
  IF row.self = None THEN kept
  ELSE IF c.master THEN plain
  ELSE IF own THEN plain \ UserSecrets ELSE plain \ (UserSecrets \cup {"authData"})

\* The fields a find with these keys answers of a row.
Shown(clp, c, ownId, keys, op, row, stored) ==
  LET temporary == IF c.master THEN {} ELSE TemporaryKeys(clp, keys)
      fetched == IF keys = None THEN stored ELSE stored \cap (keys \cup temporary)
  IN
  FilterSensitiveData(clp, c, op, row, fetched,
                      IF c.master THEN None ELSE AddProtectedFields(clp, c, ownId), temporary)

-----------------------------------------------------------------------------
\* What the rules say, row by row.

\* An open operation, a grant, or a pointer that names the caller; and the ACL.
ClassAllows(clp, c, op, row) ==
  LET perm == clp.perms[op]
      fields == perm.pointers \cup UserFields(clp, op)
  IN
  \/ op \notin DOMAIN clp.perms
  \/ perm.to \cap AclGroup(c) # {}
  \/ /\ perm.auth => c.user # None
     /\ IF fields = {} THEN perm.auth ELSE \E f \in fields : c.user \in row.names[f]

AclAllows(c, op, row) ==
  row.acl # None => (IF op \in Readings THEN row.acl.read ELSE row.acl.write) \cap AclGroup(c) # {}

MayAct(clp, c, op, row) == c.master \/ (ClassAllows(clp, c, op, row) /\ AclAllows(c, op, row))

\* A class with writeUserFields lets whoever may create add fields as well.
MayCreate(clp, c, addsField) ==
  LET Granted(op) ==
        op \in DOMAIN clp.perms =>
          clp.perms[op].to \cap AclGroup(c) # {} \/ (clp.perms[op].auth /\ c.user # None)
  IN
  c.master \/ (Granted("create") /\ (addsField =>
    Granted("addField") \/ (~ clp.perms["addField"].auth /\ clp.writeUserFields # {})))

\* The rule that shows most decides, among those for the caller's groups and, if there is
\* one, those of the pointers that name the caller.
Hidden(clp, c, row) ==
  LET groups == {clp.protected[key] : key \in {k \in DOMAIN clp.protected : Applies(k, c)}}
      named == {clp.byField[f] : f \in {g \in DOMAIN clp.byField : c.user \in row.names[g]}}
  IN
  IF c.master \/ clp.protected = None \/ groups = {} \/ (row.self # None /\ row.self = c.user) THEN {}
  ELSE {f \in UNION groups : \A s \in groups \cup named : f \in s}

\* Of the fields asked for, those not hidden; of a user, no session token, and secrets and
\* authData for the master key only, authData for the user as well; a user's own object
\* also brings what was fetched to decide.
MayShow(clp, c, keys, row, stored) ==
  LET own == row.self # None /\ row.self = c.user
      extra == IF own /\ ~ c.master THEN TemporaryKeys(clp, keys) ELSE {}
      asked == IF keys = None THEN stored ELSE stored \cap (keys \cup extra)
      secret == IF row.self = None THEN {}
                ELSE {"sessionToken"} \cup (IF c.master THEN {} ELSE UserSecrets)
                                     \cup (IF c.master \/ row.self = c.user THEN {} ELSE {"authData"})
  IN asked \ (Hidden(clp, c, row) \cup secret)
=============================================================================
