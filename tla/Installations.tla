---------------------------- MODULE Installations ----------------------------
(***************************************************************************)
(* Creating and updating installations: RestWrite.handleInstallation looks *)
(* for the rows that have the objectId, installationId or deviceToken of   *)
(* the request, turns a create into an update, merges two rows into one,   *)
(* or removes the rows a token moved away from.                            *)
(***************************************************************************)
EXTENDS Naturals

CONSTANTS
  Ids,      \* objectIds
  Insts,    \* installationIds, as they are after being lowercased
  Tokens,   \* device tokens
  Slots,    \* requests served at a time
  Loads,    \* what differs between behaviours: see Init
  None      \* none of the above

VARIABLES
  load,     \* the requests of this behaviour, never changed
  rows,     \* the _Installation collection
  req,      \* the requests being served
  strays,   \* deletions nobody waits for
  served    \* requests made so far

vars == <<load, rows, req, strays, served>>

\* Rows and requests hold what they are declared to.
Row == [inst : Insts \cup {None}, token : Tokens \cup {None}]
Shape == [update : BOOLEAN, inst : Insts \cup {None}, token : Tokens \cup {None},
          header : Insts \cup {None}, typed : BOOLEAN, own : BOOLEAN]
Constants ==
  /\ None \notin Ids /\ None \notin Insts /\ None \notin Tokens /\ None \notin Row
  /\ \A l \in Loads : l.shapes \subseteq Shape

Idle == [at |-> "idle", obj |-> None, inst |-> None, token |-> None, header |-> None,
         typed |-> FALSE, own |-> FALSE, drop |-> None, target |-> None]

\* load.shapes are the requests made, load.limit their number; load.alone when a request
\* waits for the one before, and for the deletions it left behind.
Init ==
  /\ load \in Loads
  /\ rows = [x \in Ids |-> None]
  /\ req = [h \in Slots |-> Idle]
  /\ strays = {} /\ served = 0

Stored == {x \in Ids : rows[x] # None}
AtRest == strays = {} /\ \A h \in Slots : req[h] = Idle
Go(h, r) == req' = [req EXCEPT ![h] = r]
End(h) == Go(h, Idle)
Unwritten == UNCHANGED <<load, rows, served>>

\* What identifies the installation: the data, or else the header of a client without
\* the master key (header is None for one that has it).
InstOf(r) == IF r.inst # None THEN r.inst ELSE r.header

\* A request of one of the shapes: a create with some ID field, or an update of a row.
Arrive(h) ==
  /\ served < load.limit /\ req[h] = Idle /\ (load.alone => AtRest)
  /\ \E s \in load.shapes, x \in Stored \cup {None} :
       LET r == [Idle EXCEPT !.obj = x, !.inst = s.inst, !.token = s.token, !.header = s.header,
                             !.typed = s.typed, !.own = s.own]
       IN /\ s.update = (x # None)
          /\ x = None => r.token # None \/ InstOf(r) # None
          /\ IF x # None /\ r.token = None /\ InstOf(r) = None /\ ~ r.typed
             THEN Go(h, [r EXCEPT !.at = "write", !.target = x])
             ELSE Go(h, [r EXCEPT !.at = "find"])
  /\ served' = served + 1
  /\ UNCHANGED <<load, rows, strays>>

-----------------------------------------------------------------------------
\* One query for all of them.  Without a token in the request, every row found that has
\* none is among the matches of the token.
Results(r) == {x \in Stored : \/ x = r.obj
                              \/ InstOf(r) # None /\ rows[x].inst = InstOf(r)
                              \/ r.token # None /\ rows[x].token = r.token}
TokenMatches(r) == {x \in Results(r) : rows[x].token = r.token}
InstMatches(r) == IF InstOf(r) = None THEN {} ELSE {x \in Results(r) : rows[x].inst = InstOf(r)}
IdMatches_ObjectFirst(r) == \* Mutant: the objectId decides before the installationId.
  IF r.obj # None THEN {r.obj} ELSE IF InstMatches(r) # {} THEN InstMatches(r) ELSE {None}
IdMatches(r) == IF InstMatches(r) # {} THEN InstMatches(r) ELSE {r.obj}

\* The one row that has the token, when it or the request has no installationId.
OnlyMatch(r) == CHOOSE x \in TokenMatches(r) : TRUE
Alone(r) == \E x \in Ids : TokenMatches(r) = {x}
Reused(r) == Alone(r) /\ (rows[OnlyMatch(r)].inst = None \/ InstOf(r) = None)
Merges(r) == Alone(r) /\ rows[OnlyMatch(r)].inst = None

Refused(r) ==
  \/ r.obj # None /\ r.obj \notin Stored
  \/ r.obj \in Stored /\ LET row == rows[r.obj] IN
       \/ r.inst # None /\ row.inst # None /\ r.inst # row.inst
       \/ /\ r.token # None /\ row.token # None /\ r.token # row.token
          /\ r.inst = None /\ row.inst = None
  \/ r.obj = None /\ ~ r.typed /\ InstMatches(r) = {}
  \/ /\ IdMatches(r) = {None} /\ r.inst = None
     /\ TokenMatches(r) # {} /\ ~ Reused(r)

\* The rows of the token that others have are to go.
Cleaning(r, id) ==
  IF r.token = None \/ (id # None /\ rows[id].token = r.token) THEN {}
  ELSE IF id = None THEN IF TokenMatches(r) = {} THEN {} ELSE {[token |-> r.token, inst |-> InstOf(r), id |-> None]}
  ELSE IF r.inst # None THEN {[token |-> r.token, inst |-> r.inst, id |-> None]}
  ELSE IF r.own /\ id = r.obj THEN {[token |-> r.token, inst |-> None, id |-> id]}
  ELSE {}

HandleInstallation(h) ==
  LET r == req[h] IN
  /\ r.at = "find" /\ Unwritten
  /\ \/ Refused(r) /\ End(h) /\ UNCHANGED strays
     \/ /\ ~ Refused(r)
        /\ \E id \in IdMatches(r) :
             IF id = None /\ Reused(r)
             THEN Go(h, [r EXCEPT !.at = "write", !.target = OnlyMatch(r)]) /\ UNCHANGED strays
             ELSE IF id # None /\ Merges(r)
             THEN Go(h, [r EXCEPT !.at = "merge", !.drop = id, !.target = OnlyMatch(r)]) /\ UNCHANGED strays
             ELSE /\ Go(h, [r EXCEPT !.at = "write", !.target = id])
                  /\ strays' = strays \cup Cleaning(r, id)

\* The match of the installationId goes, that of the token stays; if it was gone already
\* the request does what it came to do.
Merge(h) ==
  LET r == req[h] IN
  /\ r.at = "merge"
  /\ rows' = [rows EXCEPT ![r.drop] = None]
  /\ Go(h, [r EXCEPT !.at = "write", !.target = IF r.drop \in Stored THEN @ ELSE r.obj])
  /\ UNCHANGED <<load, strays, served>>

\* runDatabaseOperation: fields the request does not give stay what they are.
Given(new, old) == IF new = None THEN old ELSE new
Write(h) ==
  LET r == req[h] IN
  /\ r.at = "write"
  /\ IF r.target = None
     THEN \E x \in Ids \ Stored : rows' = [rows EXCEPT ![x] = [inst |-> r.inst, token |-> r.token]]
     ELSE rows' = IF r.target \in Stored
                  THEN [rows EXCEPT ![r.target] = [inst |-> Given(r.inst, @.inst), token |-> Given(r.token, @.token)]]
                  ELSE rows
  /\ End(h)
  /\ UNCHANGED <<load, strays, served>>

Struck(q, x) ==
  /\ rows[x].token = q.token
  /\ q.inst # None => rows[x].inst # q.inst
  /\ x # q.id
Delete(q) ==
  /\ q \in strays
  /\ rows' = [x \in Ids |-> IF x \in Stored /\ Struck(q, x) THEN None ELSE rows[x]]
  /\ strays' = strays \ {q}
  /\ UNCHANGED <<load, req, served>>

\* The push service refuses a token: StatusHandler removes it from its row.
DropToken(x) ==
  /\ load.drops /\ x \in Stored /\ AtRest /\ rows[x].token # None
  /\ rows' = [rows EXCEPT ![x].token = None]
  /\ UNCHANGED <<load, req, strays, served>>

Next ==
  \/ \E h \in Slots : Arrive(h) \/ HandleInstallation(h) \/ Merge(h) \/ Write(h)
  \/ \E q \in strays : Delete(q)
  \/ \E x \in Ids : DropToken(x)

Spec == Init /\ [][Next]_vars

-----------------------------------------------------------------------------
TypeOK ==
  /\ \A x \in Stored : rows[x].inst \in Insts \cup {None} /\ rows[x].token \in Tokens \cup {None}
  /\ \A h \in Slots : {req[h].target, req[h].drop, req[h].obj} \subseteq Ids \cup {None}
  /\ \A q \in strays : q.token \in Tokens

Distinct(S, f(_)) == \A x, y \in S : f(x) = f(y) => x = y

\* One request at a time leaves one row for an installation, and, if every request named its
\* installation, one for a device token: the others it finds are merged or removed.
OneRowPerDevice ==
  load.alone /\ AtRest =>
    /\ Distinct({x \in Stored : rows[x].inst # None}, LAMBDA x : rows[x].inst)
    /\ (\A s \in load.shapes : s.inst # None) =>
         Distinct({x \in Stored : rows[x].token # None}, LAMBDA x : rows[x].token)

\* "This is the one case where we want to merge with the existing object": the match of the
\* installationId is dropped and the row that has the token is there to be written.
MergeKeepsARow ==
  \A h \in Slots : load.alone /\ req[h].at = "write" /\ req[h].drop # None => req[h].target \in Stored
=============================================================================
