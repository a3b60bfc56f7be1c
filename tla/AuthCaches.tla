----------------------------- MODULE AuthCaches -----------------------------
(***************************************************************************)
(* The caches in front of sessions and roles (Auth.js, CacheController):   *)
(* a request is given the user of its session token and that user's roles  *)
(* from the cache, or reads them from the database, query by query, and    *)
(* puts them there; writes of sessions, users and roles remove entries     *)
(* before they write, but for those that do not know of the cache.         *)
(* Entries live TTL ticks from when they were put.                         *)
(***************************************************************************)
EXTENDS Integers, FiniteSets

CONSTANTS
  Tokens, Users, Roles,
  Owner,     \* in [Tokens -> Users]
  Slots,     \* requests served at a time
  TTL,       \* life of an entry, in ticks of the clock; at least 1
  Loads,     \* what differs between behaviours: see Init
  None

VARIABLES
  load,      \* configuration and load of this behaviour, never changed
  rows,      \* the tokens of sessions in the _Session collection that have not expired
  version,   \* how often each user's row was written; None once it is deleted
  grants,    \* <<x, r>> when user or role x is in the relation users or roles of role r
  entries,   \* the cache: values by key, a token or a user
  req,       \* the requests being served
  writes     \* requests made that write

\* Sessions and roles have caches of their own.
Constants ==
  /\ Owner \in [Tokens -> Users] /\ Tokens \cap Users = {} /\ TTL \in Nat \ {0}
  /\ \A l \in Loads : l.grants \cup l.edges \subseteq (Users \cup Roles) \X Roles

vars == <<load, rows, version, grants, entries, req, writes>>

Keys == Tokens \cup Users
Idle == [at |-> "idle", token |-> None, user |-> None, version |-> 0, names |-> {},
         asked |-> {}, next |-> {}, kind |-> None, edge |-> None, always |-> {}, ever |-> {}]
Empty == [value |-> None, left |-> 0]

Init ==
  /\ load \in Loads
  /\ rows = Tokens /\ version = [u \in Users |-> 0] /\ grants = load.grants
  /\ entries = [k \in Keys |-> Empty]
  /\ req = [h \in Slots |-> Idle] /\ writes = 0

AtRest == \A h \in Slots : req[h] = Idle
Go(h, r) == req' = [req EXCEPT ![h] = r]
End(h) == Go(h, Idle)
Arrive(h, r) == req[h] = Idle /\ (load.alone => AtRest) /\ Go(h, r)
Reading(h) == req[h].at # "idle" /\ UNCHANGED <<load, rows, version, grants, writes>>

-----------------------------------------------------------------------------
\* The cache: put, get, del and clear, which clears every kind of entry.
Hit(k) == entries[k].value # None
Put_Kept(k, v) == entries' = [entries EXCEPT ![k] = [value |-> v, left |-> 0]] \* Mutant: for good.
Put(k, v) == entries' = [entries EXCEPT ![k] = [value |-> v, left |-> TTL]]
Del(ks) == entries' = [k \in Keys |-> IF k \in ks THEN Empty ELSE entries[k]]
Clear == entries' = [k \in Keys |-> Empty]

Aged(e) == IF e.left = 1 THEN Empty ELSE [e EXCEPT !.left = IF @ = 0 THEN 0 ELSE @ - 1]
Tick ==
  /\ \E k \in Keys : entries[k].left > 0
  /\ entries' = [k \in Keys |-> Aged(entries[k])]
  /\ UNCHANGED <<load, rows, version, grants, req, writes>>

-----------------------------------------------------------------------------
\* getAuthForSessionToken: the cached user, or the session, then the user it includes.
Authenticate(h) == \E t \in Tokens :
  /\ IF Hit(t) THEN Arrive(h, [Idle EXCEPT !.at = "user", !.user = Owner[t]])
               ELSE Arrive(h, [Idle EXCEPT !.at = "session", !.token = t])
  /\ UNCHANGED <<load, rows, version, grants, entries, writes>>

FindSession(h) ==
  /\ req[h].at = "session" /\ Reading(h) /\ UNCHANGED entries
  /\ IF req[h].token \in rows THEN Go(h, [req[h] EXCEPT !.at = "include", !.user = Owner[req[h].token]])
                              ELSE End(h)

\* A session whose user is gone is as good as none.
IncludeUser(h) ==
  LET v == version[req[h].user] IN
  /\ req[h].at = "include" /\ Reading(h)
  /\ \/ v # None /\ Put(req[h].token, v) /\ Go(h, [req[h] EXCEPT !.at = "user"])
     \/ v = None /\ UNCHANGED entries /\ End(h)

-----------------------------------------------------------------------------
\* What the role relations were in every query of a load of roles, and in some.
Seen(r) == [r EXCEPT !.always = @ \cap grants, !.ever = @ \cup grants]

\* getUserRoles, where the request needs them: the cached roles, or all those the user
\* is in, then those these are in.
LoadRoles(h) ==
  /\ req[h].at = "user" /\ Reading(h) /\ UNCHANGED entries
  /\ IF Hit(req[h].user) THEN End(h)
     ELSE Go(h, [req[h] EXCEPT !.at = "roles", !.always = grants, !.ever = grants])
NeedsNoRoles(h) == req[h].at = "user" /\ Reading(h) /\ End(h) /\ UNCHANGED entries

Holding(xs) == {r \in Roles : \E x \in xs : <<x, r>> \in grants}

\* _loadRoles: the roles of the user; without any there is nothing more to ask.
GetRolesForUser(h) ==
  LET r == Seen(req[h])
      found == Holding({r.user})
  IN /\ r.at = "roles" /\ Reading(h) /\ UNCHANGED entries
     /\ Go(h, [r EXCEPT !.at = IF found = {} THEN "cache" ELSE "parents", !.names = found, !.next = found])

\* _getAllRolesNamesForRoleIds: one level up, each role asked about once.
Above(r) == Holding(r.next \ r.asked)
GetRolesByIds(h) ==
  LET r == Seen(req[h])
      found == Above(r)
  IN /\ r.at = "parents" /\ Reading(h) /\ UNCHANGED entries
     /\ Go(h, [r EXCEPT !.at = IF found = {} THEN "cache" ELSE "parents",
                        !.names = @ \cup found, !.asked = @ \cup r.next, !.next = found])

CacheRoles(h) ==
  /\ req[h].at = "cache" /\ Reading(h)
  /\ Put(req[h].user, req[h].names)
  /\ End(h)

-----------------------------------------------------------------------------
\* A request that writes: what it removes from the cache first, then the write.
Writing(h, kind, r) ==
  /\ kind \in load.offers /\ writes < load.limit
  /\ writes' = writes + 1
  /\ Arrive(h, [r EXCEPT !.kind = kind])
  /\ UNCHANGED <<load, rows, version, grants, entries>>

\* rest.del of a session that was found, as in a log-out.
LogOut(h) == \E t \in rows : Writing(h, "logOut", [Idle EXCEPT !.at = "forget", !.token = t])
DelSession_Keeps(h) == \* Mutant: the user stays in the cache.
  /\ req[h].at = "forget" /\ req[h].kind = "logOut" /\ Reading(h) /\ UNCHANGED entries
  /\ Go(h, [req[h] EXCEPT !.at = "write"])
DelSession(h) ==
  /\ req[h].at = "forget" /\ req[h].kind = "logOut" /\ Reading(h)
  /\ Del({req[h].token})
  /\ Go(h, [req[h] EXCEPT !.at = "write"])

\* A log-in ends the other sessions of its installation, cached or not.
LogInElsewhere(h) == \E t \in rows :
  version[Owner[t]] # None /\ Writing(h, "duplicate", [Idle EXCEPT !.at = "write", !.token = t])

\* transformUser: the sessions of the user that is about to change are looked up and
\* leave the cache; after a new password handleFollowup deletes them.
ChangeUser(h) == \E u \in Users, k \in {"user", "password"} :
  Writing(h, k, [Idle EXCEPT !.at = "forget", !.user = u])
\* Some writes of a user go past RestWrite: authData a provider changed before it lets the user
\* in, tokens for addresses and passwords, counts of failed log-ins.  So does a deletion: it
\* drops the token in the row of what is deleted, and a user's row has none; the sessions stay.
ChangeDirectly(h) == \E u \in Users, k \in {"direct", "deleteUser"} :
  version[u] # None /\ Writing(h, k, [Idle EXCEPT !.at = "write", !.user = u])
ForgetUser(h) ==
  /\ req[h].at = "forget" /\ req[h].kind # "logOut" /\ Reading(h)
  /\ Del({t \in rows : Owner[t] = req[h].user})
  /\ Go(h, [req[h] EXCEPT !.at = "write"])

\* runDatabaseOperation on _Role: the cache is cleared as the write begins.  A role that
\* is deleted leaves it alone.
ChangeRole(h) == \E e \in load.edges :
  Writing(h, "role", [Idle EXCEPT !.at = "clear", !.edge = e])
DeleteRole(h) == \E r \in Roles :
  Writing(h, "deleteRole", [Idle EXCEPT !.at = "write", !.edge = <<r, r>>])
ClearRoles(h) ==
  /\ req[h].at = "clear" /\ Reading(h)
  /\ Clear
  /\ Go(h, [req[h] EXCEPT !.at = "write"])

Flip(e) == IF e \in grants THEN grants \ {e} ELSE grants \cup {e}
Changed(v) == IF v = None THEN None ELSE v + 1
Without(r) == {e \in grants : e[1] # r /\ e[2] # r}
Write(h) ==
  LET r == req[h] IN
  /\ r.at = "write"
  /\ rows' = IF r.kind \in {"logOut", "duplicate"} THEN rows \ {r.token} ELSE rows
  /\ version' = CASE r.kind \in {"user", "password", "direct"} -> [version EXCEPT ![r.user] = Changed(@)]
                  [] r.kind = "deleteUser" -> [version EXCEPT ![r.user] = None]
                  [] OTHER -> version
  /\ grants' = CASE r.kind = "role" -> Flip(r.edge) [] r.kind = "deleteRole" -> Without(r.edge[1])
                 [] OTHER -> grants
  /\ IF r.kind = "password" /\ version[r.user] # None THEN Go(h, [r EXCEPT !.at = "follow"]) ELSE End(h)
  /\ UNCHANGED <<load, entries, writes>>
ClearSessions(h) ==
  /\ req[h].at = "follow"
  /\ rows' = {t \in rows : Owner[t] # req[h].user}
  /\ End(h)
  /\ UNCHANGED <<load, version, grants, entries, writes>>

\* The life of a session ends without a request.
Lapse(t) ==
  /\ "lapse" \in load.offers /\ t \in rows
  /\ rows' = rows \ {t}
  /\ UNCHANGED <<load, version, grants, entries, req, writes>>

\* DELETE /purge/_Session: all rows, then the whole cache.
Purge(h) == Writing(h, "purge", [Idle EXCEPT !.at = "purge"])
PurgeRows(h) ==
  /\ req[h].at = "purge"
  /\ rows' = {}
  /\ Go(h, [req[h] EXCEPT !.at = "clearAll"])
  /\ UNCHANGED <<load, version, grants, entries, writes>>
PurgeCache(h) == req[h].at = "clearAll" /\ Reading(h) /\ Clear /\ End(h)

Step(h) ==
  \/ FindSession(h) \/ IncludeUser(h) \/ LoadRoles(h) \/ NeedsNoRoles(h)
  \/ GetRolesForUser(h) \/ GetRolesByIds(h) \/ CacheRoles(h)
  \/ DelSession(h) \/ ForgetUser(h) \/ ClearRoles(h) \/ Write(h) \/ ClearSessions(h)
  \/ PurgeRows(h) \/ PurgeCache(h)

Next ==
  \/ Tick \/ \E t \in Tokens : Lapse(t)
  \/ \E h \in Slots :
       \/ Authenticate(h) \/ Step(h)
       \/ LogOut(h) \/ LogInElsewhere(h) \/ ChangeUser(h) \/ ChangeDirectly(h)
       \/ ChangeRole(h) \/ DeleteRole(h) \/ Purge(h)

Spec == Init /\ [][Next]_vars
Fairness == WF_vars(Tick) /\ \A h \in Slots : WF_vars(Step(h))

-----------------------------------------------------------------------------
TypeOK ==
  /\ rows \subseteq Tokens /\ version \in [Users -> Nat \cup {None}]
  /\ grants \subseteq (Users \cup Roles) \X Roles
  /\ \A t \in Tokens : entries[t].value \in Nat \cup {None} /\ entries[t].left \in 0..TTL
  /\ \A u \in Users : Hit(u) => entries[u].value \subseteq Roles
  /\ \A h \in Slots : req[h] # Idle => req[h].names \subseteq Roles

\* The roles x has by a set of relations, directly or through other roles: the least set that
\* has those x is in and, with a role, those the role is in.
Closed(S, x, edges) == \A e \in edges : e[1] \in S \cup {x} => e[2] \in S
Reach(x, edges) == {r \in Roles : \A S \in SUBSET Roles : Closed(S, x, edges) => r \in S}

UserCurrent(t) == Hit(t) => t \in rows /\ entries[t].value = version[Owner[t]]
RolesCurrent(u) == Hit(u) => entries[u].value = Reach(u, grants)
CachesExact == (\A t \in Tokens : UserCurrent(t)) /\ (\A u \in Users : RolesCurrent(u))

\* A load of roles asks level by level while relations change: it yields every role the
\* user had all the while, and none but by relations there were meanwhile.
RolesWereHeld ==
  \A h \in Slots : req[h].at = "cache" =>
    /\ Reach(req[h].user, req[h].always) \subseteq req[h].names
    /\ req[h].names \subseteq Reach(req[h].user, req[h].ever)

\* What leaves the cache alone: the ends of sessions that no log-out makes, the deletion of a
\* role or a user, and the writes of a user that go past RestWrite.
Unannounced == {"duplicate", "lapse", "deleteRole", "deleteUser", "direct"}

\* Between requests served one by one, none of which leaves the cache alone, it holds what the
\* database does.
ExactBetweenRequests == load.alone /\ AtRest /\ load.offers \cap Unannounced = {} => CachesExact

\* However loads and writes overlap, once nobody writes the caches end up with what the
\* database holds: an ended session or a role taken away is not honoured for ever.
CachesCatchUp == <>[]CachesExact
=============================================================================
