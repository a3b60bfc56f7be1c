---------------------------- MODULE PushDelivery ----------------------------
(***************************************************************************)
(* One push from the request to its last result: PushController stores its *)
(* status, PushQueue cuts the installations into batches by how many there *)
(* are, PushWorker looks up and sends each batch, StatusHandler counts the *)
(* results.  Batches are served in any order and at any time, as messages  *)
(* of a queue are; updates of one status handler follow each other.        *)
(***************************************************************************)
EXTENDS Integers, Sequences, FiniteSets

CONSTANTS
  Ids,        \* objectIds of installations, numbers, in their order
  Locales,    \* for which a push may have a text of its own
  BatchSize,  \* installations in one message; at least 1
  Pushes,     \* what differs between behaviours: see Init
  None

VARIABLES
  push,      \* the push and what may happen meanwhile, never changed
  rows,      \* the _Installation collection: locale, badge and whether there is a token
  stage,     \* what sendPush does next
  status,    \* the _PushStatus row
  batches,   \* the batches published, by how many installations they skip
  updates,   \* [Handlers -> Seq], updates of the status each handler has yet to make
  invalid,   \* removals of device tokens nobody waits for
  sent,      \* history: how often the push was handed to the adapter for whom
  stayed,    \* history: installations there since the push was made
  happened   \* history: "came", "left", "nobody", "unanswered", "overtaken", and
             \* "disorder" when a batch was served before an earlier one

vars == <<push, rows, stage, status, batches, updates, invalid, sent, stayed, happened>>

Device == [token : BOOLEAN, locale : Locales \cup {None}, badge : Nat]
Batch == [st : {"queued", "served"}, open : SUBSET (SUBSET Ids)]

\* None is no installation, batch, number or state.
Constants ==
  /\ Ids \subseteq Nat /\ IsFiniteSet(Ids) /\ BatchSize \in Nat \ {0}
  /\ None \notin Device /\ None \notin Batch /\ None \notin Int /\ None \notin {"running", "succeeded"}
  /\ \A p \in Pushes : p.rows \in [Ids -> Device \cup {None}] /\ p.badge \in {None, "increment", "one"}

Skips == {n \in 0..Cardinality(Ids) : n % BatchSize = 0}
Controller == -1
Handlers == Skips \cup {Controller}

Wanted == {i \in Ids : rows[i] # None /\ rows[i].token}

\* push.rows are the installations, push.localized and push.badge ("increment", "one") its kind,
\* push.scheduled whether it has a time and the server leaves it to a scheduler;
\* push.cleanup is PARSE_SERVER_CLEANUP_INVALID_INSTALLATIONS; push.changes limits the
\* installations that come and go, push.answers are what the adapter may answer.
Init ==
  /\ push \in Pushes
  /\ rows = push.rows
  /\ stage = "store"
  /\ status = [st |-> None, count |-> None, numSent |-> 0, numFailed |-> 0]
  /\ batches = [n \in Skips |-> None]
  /\ updates = [h \in Handlers |-> <<>>]
  /\ invalid = {}
  /\ sent = [i \in Ids |-> 0]
  /\ stayed = Wanted
  /\ happened = {}

Then(s) == stage' = s /\ UNCHANGED <<push, invalid, sent>>
Unsent == UNCHANGED <<sent, happened>>

-----------------------------------------------------------------------------
\* sendPush: the status, then the badges of all installations, then the queue.
SetInitial ==
  /\ stage = "store"
  /\ status' = [status EXCEPT !.st = IF push.scheduled THEN "scheduled" ELSE "pending"]
  /\ Then(CASE push.badge # None -> "badge" [] push.scheduled -> "end" [] OTHER -> "count")
  /\ UNCHANGED <<rows, batches, updates, stayed, happened>>

Badge(old) == IF push.badge = "increment" THEN old + 1 ELSE 1
BadgeUpdate ==
  /\ stage = "badge"
  /\ rows' = [i \in Ids |-> IF i \in Wanted THEN [rows[i] EXCEPT !.badge = Badge(@)] ELSE rows[i]]
  /\ Then(IF push.scheduled THEN "end" ELSE "count")
  /\ UNCHANGED <<status, batches, updates, stayed, happened>>

\* PushQueue.enqueue: count, then a batch for every BatchSize installations; the status
\* becomes running meanwhile.
BatchesFor_Whole(count) == count \div BatchSize \* Mutant: a last batch that is not full is left out.
BatchesFor(count) == (count + BatchSize - 1) \div BatchSize
SetRunning(n) == [kind |-> "running", batches |-> n]
Complete == [kind |-> "complete"]
Enqueue ==
  LET count == Cardinality(Wanted)
      n == BatchesFor(count)
  IN /\ stage = "count"
     /\ updates' = [updates EXCEPT ![Controller] = Append(@, IF count = 0 THEN Complete ELSE SetRunning(n))]
     /\ batches' = [s \in Skips |-> IF s < n * BatchSize THEN [st |-> "queued", open |-> {}] ELSE None]
     /\ Then("end")
     /\ UNCHANGED <<rows, status, stayed, happened>>

\* A call of sendPush fails: the status says so.
Fail ==
  /\ "fail" \in push.faults /\ stage \in {"badge", "count"}
  /\ updates' = [updates EXCEPT ![Controller] = Append(@, [kind |-> "fail"])]
  /\ Then("end")
  /\ UNCHANGED <<rows, status, batches, stayed, happened>>

-----------------------------------------------------------------------------
\* PushWorker.run: the installations of a batch as they are when it is served.
Before(i) == Cardinality({j \in Wanted : j < i})
Page(skip) == {i \in Wanted : Before(i) \in skip..(skip + BatchSize - 1)}

\* groupByLocaleIdentifier has a group for those of no locale even when it is empty;
\* groupByBadge has none that is empty.
ByBadge(S) == {{i \in S : rows[i].badge = b} : b \in {rows[i].badge : i \in S}}
ByLocale(S) ==
  {{i \in S : rows[i].locale = None}} \cup ({{i \in S : rows[i].locale = l} : l \in Locales} \ {{}})
Groups(S) ==
  LET bodies == IF push.localized THEN ByLocale(S) ELSE {S}
  IN IF push.badge = "increment" THEN UNION {ByBadge(g) : g \in bodies} ELSE bodies

Overdue(s) == \E t \in Skips : t < s /\ batches[t] # None /\ batches[t].st = "queued"
Serve(s) ==
  /\ batches[s] # None /\ batches[s].st = "queued"
  /\ LET found == Page(s) IN
     /\ batches' = [batches EXCEPT ![s] = [st |-> "served", open |-> IF found = {} THEN {} ELSE Groups(found)]]
     /\ sent' = [i \in Ids |-> sent[i] + IF i \in found THEN 1 ELSE 0]
     /\ happened' = happened \cup (IF found = {} THEN {"nobody"} ELSE {}) \cup (IF Overdue(s) THEN {"disorder"} ELSE {})
  /\ UNCHANGED <<push, rows, stage, status, updates, invalid, stayed>>

\* The adapter has an answer for each installation of a group, or none at all.
Answer(s, g) ==
  /\ batches[s] # None /\ g \in batches[s].open
  /\ batches' = [batches EXCEPT ![s].open = @ \ {g}]
  /\ \E results \in [g -> push.answers] :
       /\ updates' = [updates EXCEPT ![s] = Append(@, [kind |-> "track", results |-> results])]
       /\ invalid' = IF push.cleanup THEN invalid \cup {i \in g : results[i] = "unregistered"} ELSE invalid
  /\ UNCHANGED <<push, rows, stage, status, stayed>> /\ Unsent
NoAnswer(s, g) ==
  /\ "adapter" \in push.faults /\ batches[s] # None /\ g \in batches[s].open
  /\ batches' = [batches EXCEPT ![s].open = @ \ {g}]
  /\ happened' = happened \cup {"unanswered"}
  /\ UNCHANGED <<push, rows, stage, status, updates, invalid, sent, stayed>>

-----------------------------------------------------------------------------
\* StatusHandler: what an update makes of the row; a count that is not there starts at 0.
Less(count) == IF count = None THEN -1 ELSE count - 1
Transmitted(f) == Cardinality({i \in DOMAIN f : f[i] = "sent"})
Tracked(u) ==
  [status EXCEPT !.count = Less(@), !.numSent = @ + Transmitted(u.results),
                 !.numFailed = @ + Cardinality(DOMAIN u.results) - Transmitted(u.results)]
Updated(u) ==
  CASE u.kind = "running"  -> [status EXCEPT !.st = "running", !.count = u.batches]
    [] u.kind = "track"    -> Tracked(u)
    [] u.kind = "complete" -> [status EXCEPT !.st = "succeeded", !.count = None]
    [] u.kind = "fail"     -> [status EXCEPT !.st = "failed"]

\* The update that takes the count to zero is followed by complete.
IsLast_Never(u) == FALSE \* Mutant: nobody completes the push.
IsLast(u) == u.kind = "track" /\ Less(status.count) = 0
Update(h) ==
  LET u == Head(updates[h]) IN
  /\ updates[h] # <<>>
  /\ status' = Updated(u)
  /\ updates' = [updates EXCEPT ![h] = IF IsLast(u) THEN Append(Tail(@), Complete) ELSE Tail(@)]
  /\ happened' = IF u.kind = "track" /\ status.st = "pending" THEN happened \cup {"overtaken"} ELSE happened
  /\ UNCHANGED <<push, rows, stage, batches, invalid, sent, stayed>>

RemoveTokens ==
  /\ invalid # {}
  /\ rows' = [i \in Ids |-> IF i \in invalid /\ rows[i] # None THEN [rows[i] EXCEPT !.token = FALSE] ELSE rows[i]]
  /\ stayed' = stayed \ invalid
  /\ happened' = happened \cup {"left"}
  /\ invalid' = {}
  /\ UNCHANGED <<push, stage, status, batches, updates, sent>>

\* Devices are registered and unregistered by others.
Register(i) ==
  /\ "come" \in push.changes /\ "came" \notin happened /\ rows[i] = None
  /\ \E l \in Locales \cup {None} : rows' = [rows EXCEPT ![i] = [token |-> TRUE, locale |-> l, badge |-> 0]]
  /\ happened' = happened \cup {"came"}
  /\ UNCHANGED <<push, stage, status, batches, updates, invalid, sent, stayed>>
Unregister(i) ==
  /\ "leave" \in push.changes /\ "left" \notin happened /\ rows[i] # None
  /\ rows' = [rows EXCEPT ![i] = None]
  /\ stayed' = stayed \ {i}
  /\ happened' = happened \cup {"left"}
  /\ UNCHANGED <<push, stage, status, batches, updates, invalid, sent>>

Step ==
  \/ SetInitial \/ BadgeUpdate \/ Enqueue \/ RemoveTokens
  \/ \E s \in Skips : Serve(s) \/ \E g \in SUBSET Ids : Answer(s, g) \/ NoAnswer(s, g)
  \/ \E h \in Handlers : Update(h)
Next == Step \/ Fail \/ \E i \in Ids : Register(i) \/ Unregister(i)

Spec == Init /\ [][Next]_vars
Fairness == WF_vars(Step)

-----------------------------------------------------------------------------
TypeOK ==
  /\ \A i \in Ids : rows[i] # None => rows[i].token \in BOOLEAN /\ rows[i].badge \in Nat
  /\ status.st \in {None, "scheduled", "pending", "running", "succeeded", "failed"}
  /\ status.count \in Int \cup {None} /\ {status.numSent, status.numFailed} \subseteq Nat
  /\ \A s \in Skips : batches[s] # None => \A g \in batches[s].open : g \subseteq Ids
  /\ invalid \cup stayed \subseteq Ids

Served == \A s \in Skips : batches[s] # None => batches[s].st = "served" /\ batches[s].open = {}
OneBody == ~ push.localized /\ push.badge # "increment"

\* The pages are looked up when a batch is served, not when it is cut.  While nobody comes or
\* leaves, everybody is sent to once; while nobody comes, also not twice, if batches are served
\* in their order.
ReachedOnce ==
  \A i \in stayed :
    /\ stage = "end" /\ Served /\ status.st \in {"running", "succeeded"} /\ happened \cap {"came", "left"} = {}
         => sent[i] = 1
    /\ happened \cap {"came", "disorder"} = {} => sent[i] <= 1

\* Every installation as often as it was sent to.
Sendings == UNION {{i} \X (1..sent[i]) : i \in Ids}

\* With one body for all, each batch is one call of the adapter: a push has succeeded only
\* when all batches were answered and their results are in the row.
SucceededWhenSent ==
  OneBody /\ status.st = "succeeded" =>
    /\ Served
    /\ \A h \in Handlers : updates[h] = <<>>
    /\ status.numSent + status.numFailed = Cardinality(Sendings)

\* A push ends: with success or failure, or left to the scheduler.  It stays as it is only if
\* a batch finds nobody, the adapter does not answer, or a result is stored before the
\* number of batches is.
Ended ==
  \/ status.st \in {"succeeded", "failed", "scheduled"}
  \/ happened \cap {"nobody", "unanswered", "overtaken"} # {}
PushesEnd == <>[]Ended
=============================================================================
