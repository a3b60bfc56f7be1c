---------------------------- MODULE ObjectWrites ----------------------------
(***************************************************************************)
(* HTTP requests that create, update and delete objects, alone or in a     *)
(* batch, in a transaction or not (rest.js, RestWrite.js, batch.js): the   *)
(* original is read, a trigger runs, the write is made, the change is      *)
(* published for live queries, and another trigger runs.  The calls of a   *)
(* batch are all served at once.                                           *)
(***************************************************************************)
EXTENDS Integers, Sequences

CONSTANTS
  Ids,        \* objectIds, of one class
  Fields,     \* its fields; a field's value is the number of the call that wrote it
  RequestIds, \* X-Parse-Request-Id headers
  Slots,      \* requests served at a time
  Loads,      \* what differs between behaviours: see Init
  None        \* neither an id nor a request id

VARIABLES
  load,       \* requests, triggers and faults of this behaviour, never changed
  rows,       \* the collection
  known,      \* request ids in the _Idempotency collection
  req,        \* the requests being served
  pending,    \* changes to be published once the schema is loaded
  published,  \* history: what live queries were told
  calls,      \* calls made so far
  stored,     \* history: calls whose write was made
  undone,     \* history: calls of transactions in which one failed or had no route
  executed    \* history: how often each request id was let through while it is known

\* Values and the shapes of requests.  A request id is only taken from a request for one
\* object, never from a batch.
Values == {None} \cup [Fields -> Nat]
Operation == [op : {"create", "update", "delete", "unroutable"}, id : Ids \cup {None}, field : Fields]
Shape == [rid : RequestIds \cup {None}, tx : BOOLEAN, ops : Seq(Operation)]
Constants ==
  /\ None \notin Ids \cup RequestIds \cup [Fields -> Nat]
  /\ \A l \in Loads : \A s \in l.shapes : s \in Shape /\ (s.rid # None => ~ s.tx)

vars == <<load, rows, known, req, pending, published, calls, stored, undone, executed>>

\* A request: tx when it has a transactional session, which has a snapshot (base) from its
\* first write on, its own state of the rows it wrote (mine), and dies with a conflict.
Idle == [st |-> "idle", rid |-> None, tx |-> FALSE, calls |-> <<>>,
         base |-> None, mine |-> {}, own |-> None, dead |-> FALSE]

Init ==
  /\ load \in Loads
  /\ rows = [x \in Ids |-> IF x \in load.there THEN [f \in Fields |-> 0] ELSE None]
  /\ known = {} /\ req = [h \in Slots |-> Idle]
  /\ pending = {} /\ published = {}
  /\ calls = 0 /\ stored = {} /\ undone = {}
  /\ executed = [i \in RequestIds |-> 0]

Open(h) == req[h].st # "idle"
AtRest == pending = {} /\ \A h \in Slots : ~ Open(h)
InUse == {x \in Ids : rows[x] # None \/ \E h \in Slots : \E k \in DOMAIN req[h].calls : req[h].calls[k].id = x}
Counted == UNCHANGED <<load, known, calls, executed>>

-----------------------------------------------------------------------------
\* Which calls read the object first: those of a class with triggers or live queries.
Watched == load.triggers \/ load.live
FirstStage(op) ==
  CASE op = "create" -> IF load.triggers THEN "before" ELSE "store"
    [] OTHER -> IF Watched THEN "original" ELSE "store"
Call(op, x, f, n) ==
  [op |-> op, id |-> x, sets |-> {f}, tag |-> n, at |-> FirstStage(op),
   original |-> None, result |-> None, failed |-> FALSE]

\* handleBatch throws at the first path that has no route.
Routed(ops, n) ==
  /\ \A k \in 1..n : ops[k].op # "unroutable"
  /\ n < Len(ops) => ops[n + 1].op = "unroutable"

\* The calls before a path without a route, if there is one, are under way.
Begin(h, s, n, ids) ==
  /\ \A k \in 1..n :
       IF s.ops[k].op = "create" THEN ids[k] \notin InUse /\ \A j \in (1..n) \ {k} : ids[j] # ids[k]
                                 ELSE ids[k] = s.ops[k].id
  /\ req' = [req EXCEPT ![h] =
       [Idle EXCEPT !.st = IF s.rid # None THEN "reserve" ELSE IF n = Len(s.ops) THEN "run" ELSE "thrown",
                    !.rid = s.rid, !.tx = s.tx,
                    !.calls = [k \in 1..n |-> Call(s.ops[k].op, ids[k], s.ops[k].field, calls + k)]]]
  /\ calls' = calls + n + 1
  /\ undone' = IF s.tx /\ n < Len(s.ops) THEN undone \cup {calls + k : k \in 1..n} ELSE undone

Arrive(h) ==
  /\ ~ Open(h) /\ calls < load.limit /\ (load.alone => AtRest)
  /\ \E s \in load.shapes : \E n \in 0..Len(s.ops) :
       Routed(s.ops, n) /\ \E ids \in [1..n -> Ids] : Begin(h, s, n, ids)
  /\ UNCHANGED <<load, rows, known, pending, published, stored, executed>>

\* promiseEnsureIdempotency: the id is stored, unique, before the request is served.  The
\* calls of a batch have no headers, hence no id.
MayServe(rid) == rid \notin known
Reserve(h) ==
  LET rid == req[h].rid IN
  /\ req[h].st = "reserve"
  /\ IF MayServe(rid)
     THEN /\ req' = [req EXCEPT ![h].st = "run"]
          /\ known' = known \cup {rid} /\ executed' = [executed EXCEPT ![rid] = @ + 1]
     ELSE req' = [req EXCEPT ![h] = Idle] /\ UNCHANGED <<known, executed>>
  /\ UNCHANGED <<load, rows, pending, published, calls, stored, undone>>

\* The database removes an id when its time is over.
ExpireId(i) ==
  /\ load.expires /\ i \in known
  /\ known' = known \ {i} /\ executed' = [executed EXCEPT ![i] = 0]
  /\ UNCHANGED <<load, rows, req, pending, published, calls, stored, undone>>

-----------------------------------------------------------------------------
\* A call goes on with c, or fails; a transaction with a failed call is not to be seen.
At(h, k, stage) == req[h].st \in {"run", "thrown"} /\ k \in DOMAIN req[h].calls /\ req[h].calls[k].at = stage
Go(h, k, c) == req' = [req EXCEPT ![h].calls[k] = c] /\ UNCHANGED undone
Tags(q) == {q.calls[k].tag : k \in DOMAIN q.calls}
Failing(q, k) == [q EXCEPT !.calls[k] = [@ EXCEPT !.failed = TRUE, !.at = "done"]]
Spoilt(q) == undone' = IF q.tx THEN undone \cup Tags(q) ELSE undone
Refuse(h, k) == req' = [req EXCEPT ![h] = Failing(@, k)] /\ Spoilt(req[h])

\* The original, or the object to delete, as all can see it.
ReadOriginal(h, k) ==
  LET c == req[h].calls[k] IN
  /\ At(h, k, "original")
  /\ IF c.op = "delete" /\ rows[c.id] = None THEN Refuse(h, k)
     ELSE Go(h, k, [c EXCEPT !.original = rows[c.id], !.at = IF load.triggers THEN "before" ELSE "store"])
  /\ Counted /\ UNCHANGED <<rows, pending, published, stored>>

\* beforeSave after the write was tried without being made, beforeDelete: either may refuse
\* the call, beforeSave may write more fields.
Before(h, k) ==
  LET c == req[h].calls[k] IN
  /\ At(h, k, "before")
  /\ \/ Refuse(h, k)
     \/ /\ c.op = "update" => rows[c.id] # None
        /\ \E more \in {{}, Fields} :
             (c.op = "delete" => more = {}) /\ Go(h, k, [c EXCEPT !.sets = c.sets \cup more, !.at = "store"])
  /\ Counted /\ UNCHANGED <<rows, pending, published, stored>>

-----------------------------------------------------------------------------
\* The write.  A transaction sees its snapshot and its own writes; a row that was written
\* since, or that another one writes, is a conflict.  Other writes wait for the row.
Held(h, x) == \E o \in Slots \ {h} : x \in req[o].mine
Snapshot(q) == IF q.base = None THEN rows ELSE q.base
Conflict(h, x) == Held(h, x) \/ rows[x] # Snapshot(req[h])[x]
Now(h, x) ==
  IF ~ req[h].tx THEN rows[x] ELSE IF x \in req[h].mine THEN req[h].own[x] ELSE Snapshot(req[h])[x]
Onto(old, c) == [f \in Fields |-> IF f \in c.sets THEN c.tag ELSE IF old = None THEN 0 ELSE old[f]]
Outcome(h, c) == IF c.op = "delete" THEN None ELSE Onto(Now(h, c.id), c)

Stored(q, k, new) ==
  LET c == q.calls[k]
      r == [q EXCEPT !.calls[k] = [c EXCEPT !.result = new, !.at = IF Watched THEN "after" ELSE "done"]]
  IN IF ~ q.tx THEN r
     ELSE [r EXCEPT !.base = Snapshot(q), !.mine = @ \cup {c.id},
                    !.own = [x \in Ids |-> IF x = c.id THEN new ELSE IF x \in q.mine THEN q.own[x] ELSE None]]

Store(h, k) ==
  LET q == req[h]
      c == q.calls[k]
  IN /\ At(h, k, "store") /\ (~ q.tx => ~ Held(h, c.id))
     /\ CASE q.tx /\ (q.dead \/ Conflict(h, c.id)) ->
               /\ req' = [req EXCEPT ![h] = [Failing(q, k) EXCEPT !.dead = TRUE, !.mine = {}]]
               /\ Spoilt(q) /\ UNCHANGED <<rows, stored>>
          [] ~ (q.tx /\ (q.dead \/ Conflict(h, c.id))) /\ c.op # "create" /\ Now(h, c.id) = None ->
               Refuse(h, k) /\ UNCHANGED <<rows, stored>>
          [] OTHER ->
               /\ req' = [req EXCEPT ![h] = Stored(q, k, Outcome(h, c))]
               /\ rows' = IF q.tx THEN rows ELSE [rows EXCEPT ![c.id] = Outcome(h, c)]
               /\ stored' = stored \cup {c.tag} /\ UNCHANGED undone
     /\ Counted /\ UNCHANGED <<pending, published>>

\* What live queries are told of the object: the original as it was read with the data of
\* the call on it; of a deletion, the object as it was read.
Told_DataOnly(c) == IF c.op = "delete" THEN c.original ELSE Onto(None, c) \* Mutant: without the original.
Told(c) == IF c.op = "delete" THEN c.original ELSE Onto(c.original, c)
Event(c) == [tag |-> c.tag, op |-> c.op, id |-> c.id, told |-> Told(c), result |-> c.result]

\* afterSave: what it answers or throws changes nothing; the change is published when the
\* schema is there, whether the request is over or not.  afterDelete: the deletion is
\* published before; the call fails when the trigger does.
After(h, k) ==
  LET c == req[h].calls[k] IN
  /\ At(h, k, "after")
  /\ IF c.op = "delete"
     THEN /\ published' = IF load.live THEN published \cup {Event(c)} ELSE published
          /\ UNCHANGED pending
     ELSE /\ pending' = IF load.live THEN pending \cup {Event(c)} ELSE pending
          /\ UNCHANGED published
  /\ \/ Go(h, k, [c EXCEPT !.at = "done"])
     \/ load.triggers /\ c.op = "delete" /\ Refuse(h, k)
  /\ Counted /\ UNCHANGED <<rows, stored>>

Publish(e) ==
  /\ e \in pending
  /\ pending' = pending \ {e} /\ published' = published \cup {e}
  /\ Counted /\ UNCHANGED <<rows, req, stored, undone>>

-----------------------------------------------------------------------------
\* All calls have answered: a transaction is committed unless one failed.
Done(h) == \A k \in DOMAIN req[h].calls : req[h].calls[k].at = "done"
Commits_Always(q) == q.tx \* Mutant: the results are not looked at.
Commits(q) == q.tx /\ \A k \in DOMAIN q.calls : ~ q.calls[k].failed
Finish(h) ==
  LET q == req[h] IN
  /\ q.st = "run" /\ Done(h)
  /\ rows' = IF Commits(q) THEN [x \in Ids |-> IF x \in q.mine THEN q.own[x] ELSE rows[x]] ELSE rows
  /\ req' = [req EXCEPT ![h] = Idle]
  /\ Counted /\ UNCHANGED <<pending, published, stored, undone>>

\* A batch that threw does neither; the database ends the transaction some time.
Forget(h) ==
  /\ req[h].st = "thrown" /\ Done(h)
  /\ req' = [req EXCEPT ![h] = Idle]
  /\ Counted /\ UNCHANGED <<rows, pending, published, stored, undone>>

\* The server stops and starts again: what it was doing is lost.
Crash ==
  /\ load.crashes /\ ~ AtRest
  /\ req' = [h \in Slots |-> Idle] /\ pending' = {}
  /\ Counted /\ UNCHANGED <<rows, published, stored, undone>>

Next ==
  \/ Crash \/ \E i \in RequestIds : ExpireId(i)
  \/ \E e \in pending : Publish(e)
  \/ \E h \in Slots :
       \/ Arrive(h) \/ Reserve(h) \/ Finish(h) \/ Forget(h)
       \/ \E k \in DOMAIN req[h].calls : ReadOriginal(h, k) \/ Before(h, k) \/ Store(h, k) \/ After(h, k)

Spec == Init /\ [][Next]_vars

-----------------------------------------------------------------------------
TypeOK ==
  /\ \A x \in Ids : rows[x] \in Values
  /\ known \subseteq RequestIds
  /\ \A h \in Slots : req[h].mine \subseteq Ids /\ \A k \in DOMAIN req[h].calls : req[h].calls[k].result \in Values
  /\ stored \cup undone \subseteq Nat

\* Whatever overlaps, fails, throws or crashes: nothing of a transaction in which a call was
\* refused or had no route is ever in the database.
AllOrNothing == \A x \in Ids, f \in Fields : rows[x] # None => rows[x][f] \notin undone

\* Without transactions live queries are told of writes that were made, though maybe in
\* another order; of calls served one by one they are told the object as it was stored.
Single == \A s \in load.shapes : Len(s.ops) = 1
PublishedWasStored ==
  (\A s \in load.shapes : ~ s.tx) =>
    \A e \in published \cup pending :
      /\ e.tag \in stored
      /\ load.alone /\ Single /\ e.op # "delete" => e.told = e.result

\* A request that is sent again is not served twice while its id is kept.
AtMostOnce == \A i \in RequestIds : executed[i] <= 1
WholeAndOnce == AllOrNothing /\ AtMostOnce
=============================================================================
