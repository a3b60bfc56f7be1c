--------------------------- MODULE LiveQueryEvents ---------------------------
(***************************************************************************)
(* How the LiveQuery server turns the saves and the deletion of one object *)
(* into events (_onAfterSave, _onAfterDelete, _matchesCLP, _matchesACL and *)
(* _verifyACL in src/LiveQuery/ParseLiveQueryServer.js, _pushEvent in      *)
(* Client.js).                                                             *)
(*                                                                         *)
(* A message fans out to one promise chain per request: the lookups of the *)
(* class's permissions and of the ACLs, the decision which event it is,    *)
(* the afterEvent trigger, the push.  The chains of a message share the    *)
(* message object, in whose field `event` the decision is left for the     *)
(* push, and the JSON of the object, which a push strips of its secrets.   *)
(* An object version is abstracted to the queries it matches and to what   *)
(* its ACL lets read: everyone, or those a lookup shows to be named.       *)
(***************************************************************************)
EXTENDS Naturals

CONSTANTS
  Clients, Requests, Queries, Versions,
  ClientOf,      \* [Requests -> Clients], the client that subscribed one
  QueryOf,       \* [Requests -> Queries], the query it subscribed
  MasterClients, \* clients connected with the master key
  Sessions,      \* the session lookups a request gives a token for: its own, its client's
  Match,         \* the queries an object version matches
  Public,        \* versions whose ACL is absent or lets everyone read
  Roles,         \* versions whose ACL names roles
  Grants,        \* by version and request, the lookups that find a user or role its ACL names
  HasTrigger,    \* an afterEvent trigger is registered for the class
  LookupsFail,   \* resolving a session token or a user's roles may fail
  MaxMessages,   \* bound: saves and deletions of the object
  None

VARIABLES
  version,  \* the object in the database, None while it does not exist
  sent,     \* messages published so far; a message is named by its number
  event,    \* message.event
  secrets,  \* the JSON the chains share still has its session token and auth data
  chains,   \* the promise chains that have not settled
  view,     \* the requests whose client believes the object is in its result
  wire,     \* the last event pushed, with what its own chain decided
  apart     \* history: something has told apart the requests of one message, or the ways of two

vars == <<version, sent, event, secrets, chains, view, wire, apart>>

Messages == 1..MaxMessages
Types == {"create", "enter", "update", "leave", "delete"}
Stages == {"check", "trigger", "decided"}

\* What a request may have to wait for, in this order: 1, the session of the token it
\* subscribed with, and 2, the roles of that user; 3 and 4, the same for its client's token.
Lookups == 1..4

Chain == [m : Messages, r : Requests, orig : Versions \cup {None},
          cur : Versions \cup {None}, done : SUBSET Lookups, failed : SUBSET Lookups,
          own : BOOLEAN, stage : Stages, type : Types \cup {None}]

Init ==
  /\ version = None
  /\ sent = 0
  /\ event = [m \in Messages |-> None]
  /\ secrets = [m \in Messages |-> TRUE]
  /\ chains = {}
  /\ view = {}
  /\ wire = None
  /\ apart = FALSE

-----------------------------------------------------------------------------
MatchesQuery(v, r) == v # None /\ QueryOf[r] \in Match[v]

\* No lookup is needed for a version everyone may read, nor with the master key.
Open(v, r) == v \in Public \/ ClientOf[r] \in MasterClients

\* _verifyACL: the session of a token, and the roles of its user when the ACL names roles
\* but not the user.
TokenLookups(v, r, session, failed) ==
  (Sessions[r] \cap {session}) \cup
  (IF v \in Roles /\ session \in Sessions[r] \ (failed \cup Grants[v][r]) THEN {session + 1} ELSE {})

\* _matchesACL: the request's own token is tried, then its client's.
ACLLookups(v, r, failed) ==
  LET own == TokenLookups(v, r, 1, failed)
  IN IF Open(v, r) THEN {}
     ELSE IF (own \ failed) \cap Grants[v][r] # {} THEN own
     ELSE own \cup TokenLookups(v, r, 3, failed)

MatchesACL(v, r, failed) == Open(v, r) \/ (ACLLookups(v, r, failed) \ failed) \cap Grants[v][r] # {}

Visible(v, r, failed) == MatchesQuery(v, r) /\ MatchesACL(v, r, failed)

\* _matchesCLP waits for the session of the request's own token; what it answers is not used.
CLPLookups(r) == Sessions[r] \cap {1}

\* The checks of the versions that match the query, each by the lookups it waits for.
Checks(orig, cur, r, failed) ==
  {ACLLookups(v, r, failed) : v \in {w \in {orig, cur} : MatchesQuery(w, r)}}

AllChecks(c) == {CLPLookups(c.r)} \cup Checks(c.orig, c.cur, c.r, c.failed)
Checked(c) == c.stage = "check" /\ \A check \in AllChecks(c) : check \subseteq c.done

\* The checks of a save run side by side, a check takes its lookups one after the other.
Awaits(c, l) ==
  /\ c.stage = "check" /\ l \notin c.done
  /\ \E check \in AllChecks(c) : l \in check /\ \A k \in check : k < l => k \in c.done

\* The way a chain takes to its decision; a deletion's chain takes more turns than a save's.
Path(orig, cur, r) == <<cur = None, Checks(orig, cur, r, {})>>
PathOf(c) == Path(c.orig, c.cur, c.r)

\* The requests a message starts a chain for.
Concerned(orig, cur) == {r \in Requests : MatchesQuery(orig, r) \/ MatchesQuery(cur, r)}

\* The requests of a message cannot be told apart: the same versions match
\* their queries, and they may read them.
Alike(orig, cur) ==
  \A v \in {orig, cur}, r \in Concerned(orig, cur) :
    /\ MatchesQuery(v, r) => MatchesACL(v, r, {})
    /\ \A s \in Concerned(orig, cur) : MatchesQuery(v, r) <=> MatchesQuery(v, s)

\* A message finds no chain of a request under way that takes another way than its own.
OneWay(orig, cur) ==
  \A c \in chains : c.r \in Concerned(orig, cur) => PathOf(c) = Path(orig, cur, c.r)

\* A message is a macrotask: it comes when every chain awaits a lookup or a
\* trigger.
MacrotaskTurn == \A c \in chains : c.stage # "decided" /\ ~Checked(c)

Publish(orig, cur) ==
  /\ MacrotaskTurn
  /\ sent < MaxMessages
  /\ sent' = sent + 1
  /\ version' = cur
  /\ chains' = chains \cup
       {[m |-> sent + 1, r |-> r, orig |-> orig, cur |-> cur, done |-> {}, failed |-> {},
         own |-> TRUE, stage |-> "check", type |-> None] : r \in Concerned(orig, cur)}
  /\ apart' = (apart \/ ~Alike(orig, cur) \/ ~OneWay(orig, cur))
  /\ UNCHANGED <<event, secrets, view, wire>>

AfterSave(v) == Publish(version, v)
AfterDelete == version # None /\ Publish(version, None)

\* A lookup is answered; an error leaves its token without a user, or the user without roles.
Answered(c, l, found) ==
  [c EXCEPT !.done = @ \cup {l}, !.failed = IF found THEN @ ELSE @ \cup {l}]

\* Mutant: every chain looks up for itself (no authCache).
LookupDone_Uncached(r, l, found) ==
  \E c \in {d \in chains : d.r = r /\ Awaits(d, l)} :
    /\ found \/ LookupsFail
    /\ chains' = (chains \ {c}) \cup {Answered(c, l, found)}
    /\ apart' = (apart \/ ~found)
    /\ UNCHANGED <<version, sent, event, secrets, view, wire>>

\* authCache, and the Auth it keeps, make all the chains of a request that need a lookup wait
\* for one promise.
LookupDone(r, l, found) ==
  LET waiting == {c \in chains : c.r = r /\ Awaits(c, l)}
  IN
  /\ waiting # {}
  /\ found \/ LookupsFail
  /\ chains' = (chains \ waiting) \cup {Answered(c, l, found) : c \in waiting}
  /\ apart' = (apart \/ ~found)
  /\ UNCHANGED <<version, sent, event, secrets, view, wire>>

\* A chain can go on.  Of those of one request that have come the same way the one of the
\* older message is first.
Runs(c) == Checked(c) \/ c.stage = "decided"
Turn(c) ==
  /\ Runs(c)
  /\ \A d \in chains : d.r = c.r /\ PathOf(d) = PathOf(c) /\ Runs(d) => d.m >= c.m

\* Mutant: the ACL of the original object is not consulted.
EventType_OriginalAclIgnored(c) ==
  LET o == MatchesQuery(c.orig, c.r)
      n == Visible(c.cur, c.r, c.failed)
  IN IF c.cur = None
     THEN IF o THEN "delete" ELSE None
     ELSE CASE o /\ n   -> "update"
            [] o /\ ~n  -> "leave"
            [] ~o /\ n  -> IF c.orig # None THEN "enter" ELSE "create"
            [] OTHER    -> None

\* Mutant: an object that leaves the result is taken for one that was never in it.
EventType_LeaveLost(c) ==
  LET o == Visible(c.orig, c.r, c.failed)
      n == Visible(c.cur, c.r, c.failed)
  IN IF c.cur = None
     THEN IF o THEN "delete" ELSE None
     ELSE CASE o /\ n   -> "update"
            [] ~o /\ n  -> IF c.orig # None THEN "enter" ELSE "create"
            [] OTHER    -> None

\* The type a chain decides from the original and the current object.
EventType(c) ==
  LET o == Visible(c.orig, c.r, c.failed)
      n == Visible(c.cur, c.r, c.failed)
  IN IF c.cur = None
     THEN IF o THEN "delete" ELSE None
     ELSE CASE o /\ n   -> "update"
            [] o /\ ~n  -> "leave"
            [] ~o /\ n  -> IF c.orig # None THEN "enter" ELSE "create"
            [] OTHER    -> None

\* A chain with nothing to tell its client settles here.
DecideNothing(c) ==
  /\ Checked(c) /\ Turn(c)
  /\ EventType(c) = None
  /\ chains' = chains \ {c}
  /\ UNCHANGED <<version, sent, event, secrets, view, wire, apart>>

\* Mutant: the field is left over from the message before.
Decide_StaleEvent(c) ==
  /\ Checked(c) /\ Turn(c)
  /\ EventType(c) # None
  /\ event' = [event EXCEPT ![c.m] = IF c.m > 1 THEN event[c.m - 1] ELSE EventType(c)]
  /\ chains' = (chains \ {c}) \cup
       {[c EXCEPT !.type = EventType(c), !.own = secrets[c.m],
                  !.stage = IF HasTrigger THEN "trigger" ELSE "decided"]}
  /\ apart' = (apart \/ HasTrigger)
  /\ UNCHANGED <<version, sent, secrets, view, wire>>

Decide(c) ==
  /\ Checked(c) /\ Turn(c)
  /\ EventType(c) # None
  /\ event' = [event EXCEPT ![c.m] = EventType(c)]
  /\ chains' = (chains \ {c}) \cup
       {[c EXCEPT !.type = EventType(c),
                  !.own = secrets[c.m],  \* the trigger is handed a copy
                  !.stage = IF HasTrigger THEN "trigger" ELSE "decided"]}
  /\ apart' = (apart \/ HasTrigger)
  /\ UNCHANGED <<version, sent, secrets, view, wire>>

TriggerDone(c) ==
  /\ c.stage = "trigger"
  /\ chains' = (chains \ {c}) \cup {[c EXCEPT !.stage = "decided"]}
  /\ UNCHANGED <<version, sent, event, secrets, view, wire, apart>>

\* The trigger threw, or cleared sendEvent.
TriggerSuppressed(c) ==
  /\ c.stage = "trigger"
  /\ chains' = chains \ {c}
  /\ UNCHANGED <<version, sent, event, secrets, view, wire, apart>>

\* Mutant: the shared JSON is pushed as it is to clients without the master key.
Push_Unmasked(c) ==
  LET pushed == event[c.m]
      shown == IF HasTrigger THEN c.own ELSE secrets[c.m]
  IN
  /\ c.stage = "decided" /\ Turn(c)
  /\ secrets' = [secrets EXCEPT ![c.m] = shown]
  /\ view' = IF pushed \in {"leave", "delete"} THEN view \ {c.r} ELSE view \cup {c.r}
  /\ wire' = [r |-> c.r, event |-> pushed, decided |-> c.type,
              orig |-> c.orig, cur |-> c.cur, secrets |-> shown]
  /\ chains' = chains \ {c}
  /\ UNCHANGED <<version, sent, event, apart>>

\* The push names the event after the shared field; it takes the trigger's copy
\* of the object, if there is one, for the shared JSON and strips that.
Push(c) ==
  LET master == ClientOf[c.r] \in MasterClients
      pushed == event[c.m]
      shown == master /\ IF HasTrigger THEN c.own ELSE secrets[c.m]
  IN
  /\ c.stage = "decided" /\ Turn(c)
  /\ secrets' = [secrets EXCEPT ![c.m] = shown]
  /\ view' = IF pushed \in {"leave", "delete"} THEN view \ {c.r} ELSE view \cup {c.r}
  /\ wire' = [r |-> c.r, event |-> pushed, decided |-> c.type,
              orig |-> c.orig, cur |-> c.cur, secrets |-> shown]
  /\ chains' = chains \ {c}
  /\ UNCHANGED <<version, sent, event, apart>>

-----------------------------------------------------------------------------
Next ==
  \/ \E v \in Versions : AfterSave(v)
  \/ AfterDelete
  \/ \E r \in Requests, l \in Lookups, found \in BOOLEAN : LookupDone(r, l, found)
  \/ \E c \in chains :
       \/ DecideNothing(c) \/ Decide(c) \/ Push(c)
       \/ TriggerDone(c) \/ TriggerSuppressed(c)

Spec == Init /\ [][Next]_vars

\* Node runs what is ready, and the lookups answer, if only with an
\* error.  Saves need not happen, and a trigger is code of the application.
ServerProgress ==
  \/ \E r \in Requests, l \in Lookups, found \in BOOLEAN : LookupDone(r, l, found)
  \/ \E c \in chains : DecideNothing(c) \/ Decide(c) \/ Push(c)
FairSpec == Spec /\ WF_vars(ServerProgress)

-----------------------------------------------------------------------------
\* Every variable stays within the shapes the message and its chains can take;
\* no event without a type is ever pushed.
TypeOK ==
  /\ version \in Versions \cup {None}
  /\ sent \in 0..MaxMessages
  /\ event \in [Messages -> Types \cup {None}]
  /\ secrets \in [Messages -> BOOLEAN]
  /\ chains \subseteq Chain
  /\ view \subseteq Requests
  /\ wire = None \/ wire \in [r : Requests, event : Types, decided : Types,
       orig : Versions \cup {None}, cur : Versions \cup {None}, secrets : BOOLEAN]
  /\ apart \in BOOLEAN

\* "Decide event type": what a client is pushed is the type its own chain
\* decided, whatever other chains of the message decide before the push.
PushedAsDecided == wire # None => wire.event = wire.decided

\* As long as no message concerned requests that can be told apart or overtook one on another
\* way, no lookup failed and no trigger ran, each client is told what its own chain decided:
\* all the chains of a message decide alike.
SharedPushedAsDecided == ~apart => PushedAsDecided

\* An event of any kind goes only to a client whom the ACL of the object before or after the
\* change lets read it, also when the type was decided by another chain, whichever lookups
\* fail.  (The permissions of the class are asked, and the answer is not used.)
PushedToReaders ==
  wire # None => \E v \in {wire.orig, wire.cur} : Visible(v, wire.r, {})

\* The session token and the auth data in the shared JSON reach clients that
\* hold the master key only, in whatever order the chains push and whether
\* the JSON is the message's or a trigger's copy of it.
SecretsToMasterOnly ==
  wire # None /\ wire.secrets => ClientOf[wire.r] \in MasterClients

ViewIsTrue ==
  view = {r \in Requests : Visible(version, r, {})}

\* As long as nothing has told the requests of a message apart, nor the ways of messages under
\* way at once: when every chain has settled, a client that follows the events knows whether the object
\* is in the result of its query.
ViewTracksObject == ~apart /\ chains = {} => ViewIsTrue
=============================================================================
