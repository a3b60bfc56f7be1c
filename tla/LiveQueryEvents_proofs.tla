----------------------- MODULE LiveQueryEvents_proofs -----------------------
(***************************************************************************)
(* What the LiveQuery server pushes, for every number of messages and for  *)
(* every set of requests, clients, versions and rights.                    *)
(*                                                                         *)
(* The first part holds in every setting: an event, also one whose type    *)
(* another chain left in the message, goes to a reader of the object, and  *)
(* secrets go to the master key.  The second part holds as long as nothing *)
(* tells the requests of a message apart, nor the ways of messages under   *)
(* way: the chains of a message write the same type, so that each is told  *)
(* what it decided, and the chains of one request settle in the order of   *)
(* the messages, so that its view is that of the oldest message it has not *)
(* been told of.                                                           *)
(***************************************************************************)
EXTENDS LiveQueryEvents, TLAPS

HasDecided(c) == c.stage \in {"trigger", "decided"}
Sees(v, r) == Visible(v, r, {})

\* A chain decides to push only to a reader, and the message then names an event.
DecidedForReaders ==
  \A c \in chains : HasDecided(c) =>
    /\ c.type \in Types
    /\ event[c.m] \in Types
    /\ \E v \in {c.orig, c.cur} : Sees(v, c.r)

PushInv == TypeOK /\ DecidedForReaders /\ PushedToReaders /\ SecretsToMasterOnly

-----------------------------------------------------------------------------
\* What is visible to a request some of whose lookups failed is visible to it when none does.
LEMMA LookupsShowMore ==
  ASSUME NEW v, NEW r, NEW failed, Visible(v, r, failed)
  PROVE Sees(v, r)
  <1>1. CASE Open(v, r) BY <1>1 DEF Sees, Visible, MatchesACL
  <1>2. CASE ~Open(v, r)
    <2> DEFINE Own(lost) == TokenLookups(v, r, 1, lost)
               OfClient(lost) == TokenLookups(v, r, 3, lost)
    <2>1. PICK l \in ACLLookups(v, r, failed) : l \notin failed /\ l \in Grants[v][r]
      BY <1>2 DEF Visible, MatchesACL
    <2>2. l \in Own(failed) \/ l \in OfClient(failed)
      BY <1>2, <2>1 DEF ACLLookups
    <2>4. l \in Own(failed) => l \in Own({})
      BY DEF TokenLookups
    <2>5. l \in OfClient(failed) => l \in OfClient({})
      BY DEF TokenLookups
    <2> HIDE DEF Own, OfClient
    <2>6. CASE Own({}) \cap Grants[v][r] # {}
      <3>1. ACLLookups(v, r, {}) = Own({}) BY <1>2, <2>6 DEF ACLLookups, Own
      <3> QED BY <2>6, <3>1 DEF Sees, Visible, MatchesACL
    <2>7. CASE Own({}) \cap Grants[v][r] = {}
      <3>1. ACLLookups(v, r, {}) = Own({}) \cup OfClient({})
        BY <1>2, <2>7 DEF ACLLookups, Own, OfClient
      <3>2. l \in ACLLookups(v, r, {}) BY <2>2, <2>4, <2>5, <3>1
      <3> QED BY <2>1, <3>2 DEF Sees, Visible, MatchesACL
    <2> QED BY <2>6, <2>7
  <1> QED BY <1>1, <1>2

\* An event is decided only for a version that is visible.
LEMMA EventsAreForReaders ==
  ASSUME NEW c \in Chain, EventType(c) # None
  PROVE EventType(c) \in Types /\ \E v \in {c.orig, c.cur} : Sees(v, c.r)
  <1> DEFINE o == Visible(c.orig, c.r, c.failed)
             n == Visible(c.cur, c.r, c.failed)
  <1>2. o \in BOOLEAN /\ n \in BOOLEAN BY DEF Visible, MatchesQuery
  <1>3. EventType(c) \in Types /\ (o \/ n)
    <2> HIDE DEF o, n
    <2>1. EventType(c) = IF c.cur = None
            THEN IF o THEN "delete" ELSE None
            ELSE CASE o /\ n  -> "update"
                   [] o /\ ~n -> "leave"
                   [] ~o /\ n -> IF c.orig # None THEN "enter" ELSE "create"
                   [] OTHER   -> None
      BY DEF EventType, o, n
    <2> QED BY <1>2, <2>1 DEF Types
  <1> QED BY <1>3, LookupsShowMore

LEMMA InitTypes ==
  ASSUME MaxMessages \in Nat, Init
  PROVE PushInv
  <1>1. apart \in BOOLEAN BY DEF Init
  <1>2. /\ version = None /\ sent \in 0..MaxMessages /\ chains = {} /\ view = {} /\ wire = None
        /\ event \in [Messages -> Types \cup {None}] /\ secrets \in [Messages -> BOOLEAN]
    BY DEF Init
  <1>3. TypeOK BY <1>1, <1>2 DEF TypeOK
  <1> QED BY <1>2, <1>3 DEF PushInv, DecidedForReaders, PushedToReaders, SecretsToMasterOnly

\* The chains a message starts.
Started(orig, cur) ==
  {[m |-> sent + 1, r |-> r, orig |-> orig, cur |-> cur, done |-> {}, failed |-> {},
    own |-> TRUE, stage |-> "check", type |-> None] : r \in Concerned(orig, cur)}

\* A chain that starts for the request it serves alone in its message.
Starts(c, orig, cur) ==
  /\ c.m = sent + 1 /\ c.orig = orig /\ c.cur = cur /\ c.done = {} /\ c.failed = {}
  /\ c.stage = "check"
  /\ MatchesQuery(orig, c.r) \/ MatchesQuery(cur, c.r)
  /\ \A d \in Started(orig, cur) : d.r = c.r => d = c

LEMMA StartedChains ==
  ASSUME MaxMessages \in Nat, sent \in 0..MaxMessages, sent < MaxMessages,
         NEW orig \in Versions \cup {None}, NEW cur \in Versions \cup {None},
         NEW c \in Started(orig, cur)
  PROVE c \in Chain /\ Starts(c, orig, cur)
  <1>1. PICK r \in Requests :
          /\ MatchesQuery(orig, r) \/ MatchesQuery(cur, r)
          /\ c = [m |-> sent + 1, r |-> r, orig |-> orig, cur |-> cur, done |-> {},
                  failed |-> {}, own |-> TRUE, stage |-> "check", type |-> None]
    BY DEF Started, Concerned
  <1>2. sent + 1 \in Messages BY DEF Messages
  <1>3. \A d \in Started(orig, cur) : d.r = r => d = c BY <1>1 DEF Started
  <1> QED BY <1>1, <1>2, <1>3 DEF Chain, Stages, Starts

LEMMA PublishKeepsPushes ==
  ASSUME MaxMessages \in Nat, PushInv,
         NEW orig \in Versions \cup {None}, NEW cur \in Versions \cup {None},
         Publish(orig, cur)
  PROVE PushInv'
  <1>1. /\ sent < MaxMessages /\ sent' = sent + 1 /\ version' = cur
        /\ chains' = chains \cup Started(orig, cur)
        /\ event' = event /\ secrets' = secrets /\ view' = view /\ wire' = wire
    BY DEF Publish, Started
  <1>2. TypeOK BY DEF PushInv
  <1>3. \A c \in Started(orig, cur) : c \in Chain /\ ~HasDecided(c)
    BY <1>1, <1>2, StartedChains DEF TypeOK, HasDecided, Starts
  <1>4. TypeOK'
    <2>1. apart' \in BOOLEAN BY DEF Publish
    <2> QED BY <1>1, <1>2, <1>3, <2>1 DEF TypeOK
  <1>5. DecidedForReaders'
    BY <1>1, <1>3 DEF PushInv, DecidedForReaders
  <1>6. PushedToReaders' /\ SecretsToMasterOnly'
    BY <1>1 DEF PushInv, PushedToReaders, SecretsToMasterOnly
  <1> QED BY <1>4, <1>5, <1>6 DEF PushInv

\* A chain goes on as another one, or settles, and the pushes are not its own.
LEMMA ChainStepKeepsPushes ==
  ASSUME PushInv, NEW c \in chains, NEW next \in Chain,
         chains' \subseteq (chains \ {c}) \cup {next},
         HasDecided(next) => /\ next.type \in Types
                             /\ event'[next.m] \in Types
                             /\ \E v \in {next.orig, next.cur} : Sees(v, next.r),
         event' \in [Messages -> Types \cup {None}],
         \A m \in Messages : event[m] \in Types => event'[m] \in Types,
         apart' \in BOOLEAN, UNCHANGED <<version, sent, secrets, view, wire>>
  PROVE PushInv'
  <1>1. TypeOK' BY DEF PushInv, TypeOK
  <1>2. DecidedForReaders'
    <2> SUFFICES ASSUME NEW d \in chains', HasDecided(d)
                 PROVE /\ d.type \in Types /\ event'[d.m] \in Types
                       /\ \E v \in {d.orig, d.cur} : Sees(v, d.r)
      BY DEF DecidedForReaders
    <2>1. CASE d = next BY <2>1
    <2>2. CASE d \in chains
      <3>1. d.m \in Messages BY <2>2 DEF PushInv, TypeOK, Chain
      <3> QED BY <2>2, <3>1 DEF PushInv, DecidedForReaders
    <2> QED BY <2>1, <2>2
  <1>3. PushedToReaders' /\ SecretsToMasterOnly'
    BY DEF PushInv, PushedToReaders, SecretsToMasterOnly
  <1> QED BY <1>1, <1>2, <1>3 DEF PushInv

LEMMA PushKeepsPushes ==
  ASSUME PushInv, NEW c \in chains, Push(c)
  PROVE PushInv'
  <1> DEFINE shown == ClientOf[c.r] \in MasterClients /\ IF HasTrigger THEN c.own ELSE secrets[c.m]
  <1>1. c \in Chain BY DEF PushInv, TypeOK
  <1>2. shown \in BOOLEAN OBVIOUS
  <1>3. /\ c.stage = "decided" /\ chains' = chains \ {c}
        /\ secrets' = [secrets EXCEPT ![c.m] = shown]
        /\ view' \subseteq view \cup {c.r}
        /\ wire' = [r |-> c.r, event |-> event[c.m], decided |-> c.type,
                    orig |-> c.orig, cur |-> c.cur, secrets |-> shown]
        /\ UNCHANGED <<version, sent, event, apart>>
    BY DEF Push
  <1> HIDE DEF shown
  <1>4. /\ c.type \in Types /\ event[c.m] \in Types
        /\ \E v \in {c.orig, c.cur} : Sees(v, c.r)
    BY <1>3 DEF PushInv, DecidedForReaders, HasDecided
  <1>5. TypeOK'
    BY <1>1, <1>2, <1>3, <1>4 DEF PushInv, TypeOK, Chain
  <1>6. DecidedForReaders' BY <1>3 DEF PushInv, DecidedForReaders
  <1>7. PushedToReaders' BY <1>3, <1>4 DEF PushedToReaders, Sees
  <1>8. SecretsToMasterOnly' BY <1>3 DEF SecretsToMasterOnly, shown
  <1> QED BY <1>5, <1>6, <1>7, <1>8 DEF PushInv

\* The chains that wait for a lookup go on with its answer, the others as they are.
Goes(c, e, r, l, found) == e = IF c.r = r /\ Awaits(c, l) THEN Answered(c, l, found) ELSE c

LEMMA LookupMovesChains ==
  ASSUME TypeOK, NEW r, NEW l \in Lookups, NEW found \in BOOLEAN, LookupDone(r, l, found)
  PROVE /\ \A e \in chains' : e \in Chain /\ \E c \in chains : Goes(c, e, r, l, found)
        /\ \A c \in chains : \E e \in chains' : Goes(c, e, r, l, found)
  <1> DEFINE waiting == {c \in chains : c.r = r /\ Awaits(c, l)}
  <1>1. chains' = (chains \ waiting) \cup {Answered(c, l, found) : c \in waiting}
    BY DEF LookupDone
  <1>2. \A c \in chains : Answered(c, l, found) \in Chain
    BY DEF TypeOK, Chain, Answered
  <1> QED BY <1>1, <1>2 DEF Goes, TypeOK

\* What an answer leaves of a chain.
LEMMA AnsweredChain ==
  ASSUME NEW c \in Chain, NEW l, NEW found \in BOOLEAN
  PROVE LET e == Answered(c, l, found) IN
        /\ e.m = c.m /\ e.r = c.r /\ e.orig = c.orig /\ e.cur = c.cur
        /\ e.own = c.own /\ e.stage = c.stage /\ e.type = c.type
        /\ e.done = c.done \cup {l}
        /\ found => e.failed = c.failed
  BY DEF Chain, Answered

LEMMA LookupKeepsPushes ==
  ASSUME PushInv, NEW r, NEW l \in Lookups, NEW found \in BOOLEAN, LookupDone(r, l, found)
  PROVE PushInv'
  <1>1. TypeOK BY DEF PushInv
  <1>2. /\ \A e \in chains' : e \in Chain /\ \E c \in chains : Goes(c, e, r, l, found)
        /\ UNCHANGED <<version, sent, event, secrets, view, wire>> /\ apart' \in BOOLEAN
    BY <1>1, LookupMovesChains DEF LookupDone, TypeOK
  <1>3. TypeOK' BY <1>1, <1>2 DEF TypeOK
  <1>4. DecidedForReaders'
    <2> SUFFICES ASSUME NEW e \in chains', HasDecided(e)
                 PROVE /\ e.type \in Types /\ event'[e.m] \in Types
                       /\ \E v \in {e.orig, e.cur} : Sees(v, e.r)
      BY DEF DecidedForReaders
    <2>1. PICK c \in chains : Goes(c, e, r, l, found) BY <1>2
    <2>2. c \in Chain BY <1>1 DEF TypeOK
    <2>3. e = c
      <3> SUFFICES ASSUME Awaits(c, l), e = Answered(c, l, found) PROVE FALSE
        BY <2>1 DEF Goes
      <3>1. c.stage = "check" BY DEF Awaits
      <3>2. e.stage = "check" BY <2>2, <3>1, AnsweredChain
      <3> QED BY <3>2 DEF HasDecided
    <2> QED BY <1>2, <2>3 DEF PushInv, DecidedForReaders
  <1> QED BY <1>2, <1>3, <1>4 DEF PushInv, PushedToReaders, SecretsToMasterOnly

LEMMA NextKeepsPushes ==
  ASSUME MaxMessages \in Nat, PushInv, [Next]_vars
  PROVE PushInv'
  <1> USE DEF HasDecided
  <1>1. version \in Versions \cup {None} BY DEF PushInv, TypeOK
  <1>2. ASSUME NEW v \in Versions, AfterSave(v) PROVE PushInv'
    BY <1>1, <1>2, PublishKeepsPushes DEF AfterSave
  <1>3. CASE AfterDelete
    BY <1>1, <1>3, PublishKeepsPushes DEF AfterDelete
  <1>4. ASSUME NEW r \in Requests, NEW l \in Lookups, NEW found \in BOOLEAN, LookupDone(r, l, found)
        PROVE PushInv'
    BY <1>4, LookupKeepsPushes
  <1>5. ASSUME NEW c \in chains, DecideNothing(c) \/ TriggerSuppressed(c) PROVE PushInv'
    <2>1. c \in Chain BY DEF PushInv, TypeOK
    <2>2. chains' = chains \ {c} /\ event' = event
          /\ UNCHANGED <<version, sent, secrets, view, wire, apart>>
      BY <1>5 DEF DecideNothing, TriggerSuppressed
    <2>3. TypeOK' BY <2>2 DEF PushInv, TypeOK
    <2>4. DecidedForReaders' BY <2>2 DEF PushInv, DecidedForReaders
    <2> QED BY <2>2, <2>3, <2>4 DEF PushInv, PushedToReaders, SecretsToMasterOnly
  <1>6. ASSUME NEW c \in chains, Decide(c) PROVE PushInv'
    <2> DEFINE next == [c EXCEPT !.type = EventType(c), !.own = secrets[c.m],
                                 !.stage = IF HasTrigger THEN "trigger" ELSE "decided"]
    <2>1. c \in Chain BY DEF PushInv, TypeOK
    <2>2. EventType(c) \in Types /\ \E v \in {c.orig, c.cur} : Sees(v, c.r)
      BY <1>6, <2>1, EventsAreForReaders DEF Decide
    <2>3. event \in [Messages -> Types \cup {None}] /\ secrets[c.m] \in BOOLEAN /\ c.m \in Messages
      BY <2>1 DEF PushInv, TypeOK, Chain
    <2>4. event' = [event EXCEPT ![c.m] = EventType(c)] BY <1>6 DEF Decide
    <2>5. next \in Chain /\ next.type = EventType(c) /\ next.m = c.m
          /\ next.orig = c.orig /\ next.cur = c.cur /\ next.r = c.r
      BY <2>1, <2>2, <2>3 DEF Chain, Stages
    <2>6. chains' \subseteq (chains \ {c}) \cup {next} BY <1>6 DEF Decide
    <2>7. apart' \in BOOLEAN /\ UNCHANGED <<version, sent, secrets, view, wire>>
      BY <1>6 DEF Decide
    <2> HIDE DEF next
    <2>8. event' \in [Messages -> Types \cup {None}] /\ event'[c.m] \in Types
          /\ \A m \in Messages : event[m] \in Types => event'[m] \in Types
      BY <2>2, <2>3, <2>4
    <2> QED BY <2>2, <2>5, <2>6, <2>7, <2>8, ChainStepKeepsPushes
  <1>7. ASSUME NEW c \in chains, TriggerDone(c) PROVE PushInv'
    <2> DEFINE next == [c EXCEPT !.stage = "decided"]
    <2>1. c \in Chain /\ HasDecided(c) BY <1>7 DEF PushInv, TypeOK, TriggerDone
    <2>2. next \in Chain /\ next.type = c.type /\ next.m = c.m
          /\ next.orig = c.orig /\ next.cur = c.cur /\ next.r = c.r
      BY <2>1 DEF Chain, Stages
    <2>3. chains' \subseteq (chains \ {c}) \cup {next} BY <1>7 DEF TriggerDone
    <2>4. event' = event /\ apart' \in BOOLEAN /\ UNCHANGED <<version, sent, secrets, view, wire>>
      BY <1>7 DEF TriggerDone, PushInv, TypeOK
    <2> HIDE DEF next
    <2>5. /\ c.type \in Types /\ event[c.m] \in Types
          /\ \E v \in {c.orig, c.cur} : Sees(v, c.r)
      BY <2>1 DEF PushInv, DecidedForReaders
    <2> QED BY <2>2, <2>3, <2>4, <2>5, ChainStepKeepsPushes DEF PushInv, TypeOK
  <1>8. ASSUME NEW c \in chains, Push(c) PROVE PushInv'
    BY <1>8, PushKeepsPushes
  <1>9. CASE UNCHANGED vars
    BY <1>9 DEF vars, PushInv, TypeOK, DecidedForReaders, PushedToReaders, SecretsToMasterOnly
  <1> QED BY <1>2, <1>3, <1>4, <1>5, <1>6, <1>7, <1>8, <1>9 DEF Next

\* The inductive invariant of every setting.
LEMMA PushesHold ==
  ASSUME MaxMessages \in Nat
  PROVE Spec => []PushInv
  <1>1. Init => PushInv BY InitTypes
  <1>2. PushInv /\ [Next]_vars => PushInv' BY NextKeepsPushes
  <1> QED BY <1>1, <1>2, PTL DEF Spec

\* The server keeps the shapes of its messages and chains; in particular every
\* event that is pushed has a type.
THEOREM TypeCorrect == ASSUME MaxMessages \in Nat PROVE Spec => []TypeOK
  <1>1. PushInv => TypeOK BY DEF PushInv
  <1> QED BY <1>1, PushesHold, PTL

\* Whatever the chains of a message write into its shared field, an event goes
\* only to a client that may read the object before or after the change.
THEOREM ReadersArePushed == ASSUME MaxMessages \in Nat PROVE Spec => []PushedToReaders
  <1>1. PushInv => PushedToReaders BY DEF PushInv
  <1> QED BY <1>1, PushesHold, PTL

\* In whatever order the chains share, copy and strip the JSON, its session token
\* and auth data reach the master key only.
THEOREM SecretsAreKept == ASSUME MaxMessages \in Nat PROVE Spec => []SecretsToMasterOnly
  <1>1. PushInv => SecretsToMasterOnly BY DEF PushInv
  <1> QED BY <1>1, PushesHold, PTL

-----------------------------------------------------------------------------
\* As long as nothing tells the requests of a message apart.

\* Nobody sees an object that does not exist.
LEMMA NothingToSee ==
  ASSUME NEW r
  PROVE ~Sees(None, r) /\ ~MatchesQuery(None, r)
  BY DEF Sees, Visible, MatchesQuery

\* The requests a message concerns alike see what matches their query, and all
\* of them see the same.
LEMMA AlikeSee ==
  ASSUME NEW orig, NEW cur, Alike(orig, cur), NEW v \in {orig, cur},
         NEW r \in Concerned(orig, cur), NEW s \in Concerned(orig, cur)
  PROVE /\ Sees(v, r) <=> MatchesQuery(v, r)
        /\ Sees(v, r) <=> Sees(v, s)
  <1>1. \A q \in Concerned(orig, cur) : MatchesQuery(v, q) => MatchesACL(v, q, {})
    BY DEF Alike
  <1>2. \A q \in Concerned(orig, cur) : Sees(v, q) <=> MatchesQuery(v, q)
    BY <1>1 DEF Sees, Visible, MatchesQuery
  <1>3. MatchesQuery(v, r) <=> MatchesQuery(v, s)
    BY DEF Alike
  <1> QED BY <1>2, <1>3

\* What a chain tells its client about its view.
Gone == {"leave", "delete"}

\* With its lookups answered, a chain decides what its client should hear: that
\* the object has gone, or that it is in the result.
LEMMA TypesFollowTheObject ==
  ASSUME NEW c \in Chain, c.failed = {}, Sees(c.orig, c.r) \/ Sees(c.cur, c.r)
  PROVE EventType(c) \in Types /\ (EventType(c) \in Gone <=> ~Sees(c.cur, c.r))
  <1> DEFINE o == Sees(c.orig, c.r)
             n == Sees(c.cur, c.r)
  <1>1. o \in BOOLEAN /\ n \in BOOLEAN /\ (c.cur = None => ~n)
    BY DEF Sees, Visible, MatchesQuery
  <1>2. EventType(c) = IF c.cur = None
          THEN IF o THEN "delete" ELSE None
          ELSE CASE o /\ n  -> "update"
                 [] o /\ ~n -> "leave"
                 [] ~o /\ n -> IF c.orig # None THEN "enter" ELSE "create"
                 [] OTHER   -> None
    BY DEF EventType, Sees
  <1>3. o \/ n OBVIOUS
  <1> HIDE DEF o, n
  <1>4. CASE c.cur = None
    <2>1. EventType(c) = "delete" /\ ~n BY <1>1, <1>2, <1>3, <1>4
    <2> QED BY <2>1 DEF Types, Gone, n
  <1>5. CASE c.cur # None /\ n
    <2>1. EventType(c) \in {"update", "enter", "create"} BY <1>1, <1>2, <1>5
    <2> QED BY <2>1, <1>5 DEF Types, Gone, n
  <1>6. CASE c.cur # None /\ ~n
    <2>1. EventType(c) = "leave" BY <1>1, <1>2, <1>3, <1>6
    <2> QED BY <2>1, <1>6 DEF Types, Gone, n
  <1> QED BY <1>1, <1>4, <1>5, <1>6

\* A chain that sees a version serves a request its message concerns.
LEMMA SeersAreConcerned ==
  ASSUME NEW c \in Chain, Sees(c.orig, c.r) \/ Sees(c.cur, c.r)
  PROVE c.r \in Concerned(c.orig, c.cur)
  BY DEF Chain, Concerned, Sees, Visible

\* Chains of one message to alike requests decide alike.
LEMMA AlikeDecide ==
  ASSUME NEW c \in Chain, NEW d \in Chain, Alike(c.orig, c.cur),
         c.failed = {}, d.failed = {}, c.orig = d.orig, c.cur = d.cur,
         Sees(c.orig, c.r) \/ Sees(c.cur, c.r), Sees(d.orig, d.r) \/ Sees(d.cur, d.r)
  PROVE EventType(c) = EventType(d)
  <1>1. c.r \in Concerned(c.orig, c.cur) /\ d.r \in Concerned(c.orig, c.cur)
    BY SeersAreConcerned
  <1>2. /\ Sees(c.orig, c.r) <=> Sees(d.orig, d.r)
        /\ Sees(c.cur, c.r) <=> Sees(d.cur, d.r)
    BY <1>1, AlikeSee
  <1>3. /\ Visible(c.orig, c.r, c.failed) = Visible(d.orig, d.r, d.failed)
        /\ Visible(c.cur, c.r, c.failed) = Visible(d.cur, d.r, d.failed)
    BY <1>2 DEF Sees, Visible, MatchesQuery
  <1> QED BY <1>3 DEF EventType

\* A chain of a message sees the versions of that message, once per request.
OneChainPerRequest ==
  /\ \A c \in chains : c.m <= sent
  /\ \A c, d \in chains : c.m = d.m =>
       /\ c.orig = d.orig /\ c.cur = d.cur
       /\ c.r = d.r => c = d

\* A chain has something to tell, and will tell it, or has checked what it waited for and written
\* it into the message.
AllDecide ==
  \A c \in chains :
    /\ c.failed = {} /\ c.stage # "trigger" /\ Alike(c.orig, c.cur)
    /\ Sees(c.orig, c.r) \/ Sees(c.cur, c.r)
    /\ c.stage = "decided" =>
         /\ c.type = EventType(c) /\ event[c.m] = EventType(c)
         /\ \A check \in AllChecks(c) : check \subseteq c.done

\* The chains of one request go the same way, and one of an older message has come as far.
InOrder ==
  \A c, d \in chains : c.r = d.r => PathOf(c) = PathOf(d) /\ (c.m < d.m => d.done \subseteq c.done)

\* The history of one request as its chains still tell it: its view is that
\* before the oldest of them, each goes on where the one before ended, and the
\* last ends with the object as it is.
Told(r, changes, seen, v) ==
  /\ \A c \in changes : (\A d \in changes : c.m <= d.m) => (seen <=> Sees(c.orig, r))
  /\ \A c, d \in changes : c.m < d.m /\ (\A b \in changes : b.m <= c.m \/ d.m <= b.m) =>
       (Sees(c.cur, r) <=> Sees(d.orig, r))
  /\ \A c \in changes : (\A d \in changes : d.m <= c.m) => (Sees(c.cur, r) <=> Sees(v, r))
  /\ changes = {} => (seen <=> Sees(v, r))

Change(c) == [m |-> c.m, orig |-> c.orig, cur |-> c.cur]
Changes(r, cs) == {Change(c) : c \in {d \in cs : d.r = r}}
ViewsAreTold == \A r \in Requests : Told(r, Changes(r, chains), r \in view, version)

AlikeInv == OneChainPerRequest /\ AllDecide /\ InOrder /\ ViewsAreTold /\ PushedAsDecided

-----------------------------------------------------------------------------
\* A further message tells of a change from the object as it was.
LEMMA ToldOnce ==
  ASSUME NEW r, NEW S, NEW seen \in BOOLEAN, NEW v, NEW w, Told(r, S, seen, v),
         \A x \in S : x.m \in Nat,
         NEW n \in Nat, \A x \in S : x.m < n
  PROVE Told(r, S \cup {[m |-> n, orig |-> v, cur |-> w]}, seen, w)
  <1> DEFINE new == [m |-> n, orig |-> v, cur |-> w]
             T == S \cup {new}
  <1>1. new.m = n /\ new.orig = v /\ new.cur = w OBVIOUS
  <1> HIDE DEF new
  <1>2. \A x \in T : x.m \in Nat /\ (x = new \/ (x \in S /\ x.m < new.m)) BY <1>1
  <1>3. ASSUME NEW c \in T, \A d \in T : c.m <= d.m PROVE seen <=> Sees(c.orig, r)
    <2>1. CASE c \in S BY <1>3, <2>1 DEF Told
    <2>2. CASE c \notin S
      <3>1. S = {} BY <1>2, <1>3, <2>2
      <3> QED BY <1>1, <1>2, <2>2, <3>1 DEF Told
    <2> QED BY <2>1, <2>2
  <1>4. ASSUME NEW c \in T, NEW d \in T, c.m < d.m, \A b \in T : b.m <= c.m \/ d.m <= b.m
        PROVE Sees(c.cur, r) <=> Sees(d.orig, r)
    <2>1. c \in S BY <1>2, <1>4
    <2>2. CASE d \in S BY <1>4, <2>1, <2>2 DEF Told
    <2>3. CASE d = new
      <3>1. \A b \in S : b.m < d.m /\ b.m \in Nat /\ d.m \in Nat BY <1>1, <2>3
      <3>2. \A b \in S : b.m <= c.m BY <1>4, <3>1
      <3> QED BY <1>1, <2>1, <2>3, <3>2 DEF Told
    <2> QED BY <1>2, <2>2, <2>3
  <1>5. ASSUME NEW c \in T, \A d \in T : d.m <= c.m PROVE Sees(c.cur, r) <=> Sees(w, r)
    <2>1. c = new BY <1>2, <1>5
    <2> QED BY <1>1, <2>1
  <1>6. T # {} OBVIOUS
  <1>7. Told(r, T, seen, w)
    <2> HIDE DEF T
    <2> QED BY <1>3, <1>4, <1>5, <1>6 DEF Told
  <1> QED BY <1>7 DEF new

\* Once its client is told of the oldest change, the others are still told.
LEMMA TellOldest ==
  ASSUME NEW r, NEW S, NEW seen \in BOOLEAN, NEW v, Told(r, S, seen, v),
         \A x \in S : x.m \in Nat,
         NEW x \in S, \A y \in S : x.m <= y.m, \A y \in S : y.m = x.m => y = x,
         NEW now \in BOOLEAN, now <=> Sees(x.cur, r)
  PROVE Told(r, S \ {x}, now, v)
  <1> DEFINE T == S \ {x}
  <1>1. \A c \in T : c \in S /\ c.m \in Nat /\ x.m < c.m OBVIOUS
  <1>2. ASSUME NEW c \in T, \A d \in T : c.m <= d.m PROVE now <=> Sees(c.orig, r)
    <2>1. \A b \in S : b.m <= x.m \/ c.m <= b.m BY <1>2
    <2> QED BY <1>1, <2>1 DEF Told
  <1>3. ASSUME NEW c \in T, NEW d \in T, c.m < d.m, \A b \in T : b.m <= c.m \/ d.m <= b.m
        PROVE Sees(c.cur, r) <=> Sees(d.orig, r)
    <2>1. \A b \in S : b.m <= c.m \/ d.m <= b.m BY <1>1, <1>3
    <2> QED BY <1>1, <1>3, <2>1 DEF Told
  <1>4. ASSUME NEW c \in T, \A d \in T : d.m <= c.m PROVE Sees(c.cur, r) <=> Sees(v, r)
    <2>1. \A d \in S : d.m <= c.m BY <1>1, <1>4
    <2> QED BY <1>1, <2>1 DEF Told
  <1>5. ASSUME T = {} PROVE now <=> Sees(v, r)
    <2>1. \A d \in S : d.m <= x.m BY <1>5
    <2> QED BY <2>1 DEF Told
  <1>6. Told(r, T, now, v)
    <2> HIDE DEF T
    <2> QED BY <1>2, <1>3, <1>4, <1>5 DEF Told
  <1> QED BY <1>6

LEMMA AlikeInit == ASSUME MaxMessages \in Nat, Init PROVE AlikeInv
  <1>1. \A r \in Requests : Changes(r, chains) = {} BY DEF Init, Changes
  <1>2. ViewsAreTold BY <1>1, NothingToSee DEF Init, ViewsAreTold, Told
  <1> QED BY <1>2 DEF Init, AlikeInv, OneChainPerRequest, AllDecide, InOrder, PushedAsDecided

LEMMA PublishIsTold ==
  ASSUME MaxMessages \in Nat, PushInv, AlikeInv, ~apart',
         NEW cur \in Versions \cup {None}, Publish(version, cur)
  PROVE AlikeInv'
  <1> DEFINE new == Started(version, cur)
  <1>1. /\ sent < MaxMessages /\ sent' = sent + 1 /\ version' = cur
        /\ chains' = chains \cup new
        /\ event' = event /\ view' = view /\ wire' = wire
        /\ Alike(version, cur) /\ OneWay(version, cur)
    BY DEF Publish, Started
  <1>2. TypeOK BY DEF PushInv
  <1>3. version \in Versions \cup {None} /\ sent \in Nat /\ chains \subseteq Chain
        /\ \A c \in chains : c.m \in Nat /\ c.m <= sent
    BY <1>2 DEF TypeOK, Chain, Messages, AlikeInv, OneChainPerRequest
  <1>4. \A c \in new :
          /\ c \in Chain
          /\ c.m = sent + 1 /\ c.orig = version /\ c.cur = cur
          /\ c.done = {} /\ c.failed = {} /\ c.stage = "check"
          /\ Sees(version, c.r) \/ Sees(cur, c.r)
          /\ \A d \in new : d.r = c.r => d = c
    <2> SUFFICES ASSUME NEW c \in new
                 PROVE /\ c \in Chain
                       /\ c.m = sent + 1 /\ c.orig = version /\ c.cur = cur
                       /\ c.done = {} /\ c.failed = {} /\ c.stage = "check"
                       /\ Sees(version, c.r) \/ Sees(cur, c.r)
                       /\ \A d \in new : d.r = c.r => d = c
      OBVIOUS
    <2>1. sent \in 0..MaxMessages BY <1>2 DEF TypeOK
    <2>2. c \in Chain /\ Starts(c, version, cur)
      BY <1>1, <1>3, <2>1, StartedChains
    <2>3. c.r \in Concerned(version, cur) BY <2>2 DEF Chain, Starts, Concerned
    <2> HIDE DEF new
    <2>4. \A d \in new : d.r = c.r => d = c BY <2>2 DEF Starts, new
    <2>5. /\ Sees(version, c.r) <=> MatchesQuery(version, c.r)
          /\ Sees(cur, c.r) <=> MatchesQuery(cur, c.r)
      BY <1>1, <2>3, AlikeSee
    <2> QED BY <2>2, <2>4, <2>5 DEF Starts
  <1> HIDE DEF new
  <1>5. OneChainPerRequest'
    BY <1>1, <1>3, <1>4 DEF AlikeInv, OneChainPerRequest
  <1>6. AllDecide'
    BY <1>1, <1>4 DEF AlikeInv, AllDecide
  <1>7. InOrder'
    <2> SUFFICES ASSUME NEW c \in chains', NEW d \in chains', c.r = d.r
                 PROVE PathOf(c) = PathOf(d) /\ (c.m < d.m => d.done \subseteq c.done)
      BY DEF InOrder
    <2>1. \A e \in new : PathOf(e) = Path(version, cur, e.r) /\ e.r \in Concerned(version, cur)
      <3>1. \A e \in new : e \in Chain /\ (Sees(version, e.r) \/ Sees(cur, e.r)) BY <1>4
      <3>2. \A e \in new : e.r \in Concerned(version, cur)
        BY <3>1 DEF Chain, Concerned, Sees, Visible
      <3> QED BY <1>4, <3>2 DEF PathOf
    <2>2. \A e \in chains, f \in new : e.r = f.r => PathOf(e) = PathOf(f)
      BY <1>1, <2>1 DEF OneWay
    <2>3. CASE c \in chains /\ d \in chains BY <2>3 DEF AlikeInv, InOrder
    <2>4. CASE c \in new /\ d \in new BY <1>3, <1>4, <2>4
    <2>5. CASE c \in chains /\ d \in new BY <1>4, <2>2, <2>5
    <2>6. CASE c \in new /\ d \in chains BY <1>3, <1>4, <2>2, <2>6
    <2> QED BY <1>1, <2>3, <2>4, <2>5, <2>6
  <1>8. ViewsAreTold'
    <2> SUFFICES ASSUME NEW r \in Requests
                 PROVE Told(r, Changes(r, chains \cup new), r \in view, cur)
      BY <1>1 DEF ViewsAreTold
    <2> DEFINE S == Changes(r, chains)
    <2>1. Told(r, S, r \in view, version) BY DEF AlikeInv, ViewsAreTold
    <2>2. \A x \in S : x.m \in Nat /\ x.m < sent + 1
      BY <1>3 DEF Changes, Change
    <2>3. CASE \E c \in new : c.r = r
      <3>1. Changes(r, chains \cup new) = S \cup {[m |-> sent + 1, orig |-> version, cur |-> cur]}
        BY <1>4, <2>3 DEF Changes, Change
      <3> DEFINE seen == r \in view
      <3>2. seen \in BOOLEAN /\ Told(r, S, seen, version) BY <2>1
      <3> HIDE DEF S, seen
      <3>3. sent + 1 \in Nat BY <1>3
      <3>4. Told(r, S \cup {[m |-> sent + 1, orig |-> version, cur |-> cur]}, seen, cur)
        BY <2>2, <3>2, <3>3, ToldOnce
      <3> QED BY <3>1, <3>4 DEF seen
    <2>4. CASE ~ \E c \in new : c.r = r
      <3>1. Changes(r, chains \cup new) = S BY <2>4 DEF Changes
      <3>2. ~MatchesQuery(version, r) /\ ~MatchesQuery(cur, r)
        <4> SUFFICES ASSUME MatchesQuery(version, r) \/ MatchesQuery(cur, r) PROVE FALSE
          OBVIOUS
        <4> DEFINE c == [m |-> sent + 1, r |-> r, orig |-> version, cur |-> cur, done |-> {},
                         failed |-> {}, own |-> TRUE, stage |-> "check", type |-> None]
        <4>1. c \in new BY DEF new, Started, Concerned
        <4> QED BY <2>4, <4>1
      <3>3. ~Sees(version, r) /\ ~Sees(cur, r) BY <3>2 DEF Sees, Visible
      <3> HIDE DEF S
      <3> QED BY <2>1, <3>1, <3>3 DEF Told
    <2> QED BY <2>3, <2>4
  <1>9. PushedAsDecided' BY <1>1 DEF AlikeInv, PushedAsDecided
  <1> QED BY <1>5, <1>6, <1>7, <1>8, <1>9 DEF AlikeInv

\* A chain that goes on still stands for the same change of the same request.
SameChange(c, next) ==
  /\ next.m = c.m /\ next.r = c.r /\ next.orig = c.orig /\ next.cur = c.cur
  /\ next.done = c.done /\ next.failed = c.failed

LEMMA GoingOnIsTold ==
  ASSUME AlikeInv, NEW c \in chains, NEW next, SameChange(c, next),
         chains' = (chains \ {c}) \cup {next},
         UNCHANGED <<version, sent, view, wire>>
  PROVE OneChainPerRequest' /\ ViewsAreTold' /\ PushedAsDecided'
  <1>1. OneChainPerRequest'
    BY DEF AlikeInv, OneChainPerRequest, SameChange
  <1>2. ViewsAreTold'
    <2>1. Change(next) = Change(c) /\ next.r = c.r BY DEF Change, SameChange
    <2>2. ASSUME NEW r \in Requests PROVE Changes(r, chains') = Changes(r, chains)
      BY <2>1 DEF Changes
    <2> QED BY <2>2 DEF AlikeInv, ViewsAreTold
  <1>3. PushedAsDecided' BY DEF AlikeInv, PushedAsDecided
  <1> QED BY <1>1, <1>2, <1>3

\* A lookup that a chain awaits, an older chain on the same way awaits or has had answered.
LEMMA OlderAwaits ==
  ASSUME NEW c, NEW d, c.r = d.r, c.failed = {}, d.failed = {}, PathOf(c) = PathOf(d),
         d.done \subseteq c.done, NEW l, Awaits(d, l),
         c.stage = "check" \/ \A check \in AllChecks(c) : check \subseteq c.done
  PROVE l \in c.done \/ Awaits(c, l)
  <1>1. AllChecks(c) = AllChecks(d) BY DEF AllChecks, PathOf, Path
  <1> QED BY <1>1 DEF Awaits

LEMMA LookupIsTold ==
  ASSUME PushInv, AlikeInv, ~apart', NEW r, NEW l \in Lookups, NEW found \in BOOLEAN,
         LookupDone(r, l, found)
  PROVE AlikeInv'
  <1>1. /\ \A e \in chains' : e \in Chain /\ \E c \in chains : Goes(c, e, r, l, found)
        /\ \A c \in chains : \E e \in chains' : Goes(c, e, r, l, found)
        /\ found = TRUE /\ UNCHANGED <<version, sent, event, view, wire>>
    BY LookupMovesChains DEF LookupDone, PushInv
  <1>2. chains \subseteq Chain BY DEF PushInv, TypeOK
  <1>3. ASSUME NEW c \in chains, NEW e, Goes(c, e, r, l, found)
        PROVE /\ e.m = c.m /\ e.r = c.r /\ e.orig = c.orig /\ e.cur = c.cur
              /\ e.failed = c.failed /\ e.type = c.type /\ e.stage = c.stage
              /\ e.done = c.done \cup (IF c.r = r /\ Awaits(c, l) THEN {l} ELSE {})
    <2>1. CASE c.r = r /\ Awaits(c, l)
      <3>1. e = Answered(c, l, found) BY <1>3, <2>1 DEF Goes
      <3>2. c \in Chain /\ found BY <1>1, <1>2
      <3> QED BY <2>1, <3>1, <3>2, AnsweredChain
    <2>2. CASE ~(c.r = r /\ Awaits(c, l))
      <3>1. e = c BY <1>3, <2>2 DEF Goes
      <3> QED BY <2>2, <3>1
    <2> QED BY <2>1, <2>2
  <1>4. OneChainPerRequest'
    <2>1. ASSUME NEW e \in chains' PROVE e.m <= sent'
      <3>1. PICK c \in chains : Goes(c, e, r, l, found) BY <1>1
      <3>2. e.m = c.m BY <1>3, <3>1
      <3> QED BY <1>1, <3>2 DEF AlikeInv, OneChainPerRequest
    <2>2. ASSUME NEW e \in chains', NEW f \in chains', e.m = f.m
          PROVE e.orig = f.orig /\ e.cur = f.cur /\ (e.r = f.r => e = f)
      <3>1. PICK c \in chains : Goes(c, e, r, l, found) BY <1>1
      <3>2. PICK d \in chains : Goes(d, f, r, l, found) BY <1>1
      <3>3. /\ c.orig = d.orig /\ c.cur = d.cur /\ (c.r = d.r => c = d)
            /\ e.orig = c.orig /\ e.cur = c.cur /\ e.r = c.r
            /\ f.orig = d.orig /\ f.cur = d.cur /\ f.r = d.r
        BY <1>3, <2>2, <3>1, <3>2 DEF AlikeInv, OneChainPerRequest
      <3>4. c = d => e = f BY <3>1, <3>2 DEF Goes
      <3> QED BY <3>3, <3>4
    <2> QED BY <2>1, <2>2 DEF OneChainPerRequest
  <1>5. AllDecide'
    <2> SUFFICES ASSUME NEW e \in chains'
                 PROVE /\ e.failed = {} /\ e.stage # "trigger" /\ Alike(e.orig, e.cur)
                       /\ Sees(e.orig, e.r) \/ Sees(e.cur, e.r)
                       /\ e.stage = "decided" =>
                            /\ e.type = EventType(e) /\ event'[e.m] = EventType(e)
                            /\ \A check \in AllChecks(e) : check \subseteq e.done
      BY DEF AllDecide
    <2>1. PICK c \in chains : Goes(c, e, r, l, found) BY <1>1
    <2>2. EventType(e) = EventType(c) /\ AllChecks(e) = AllChecks(c)
      <3>1. e.r = c.r /\ e.orig = c.orig /\ e.cur = c.cur /\ e.failed = c.failed BY <1>3, <2>1
      <3> QED BY <3>1 DEF EventType, AllChecks
    <2>3. /\ e.m = c.m /\ e.r = c.r /\ e.orig = c.orig /\ e.cur = c.cur
          /\ e.failed = c.failed /\ e.type = c.type /\ e.stage = c.stage
          /\ c.done \subseteq e.done
      BY <1>3, <2>1
    <2> QED BY <1>1, <2>2, <2>3 DEF AlikeInv, AllDecide
  <1>6. InOrder'
    <2> SUFFICES ASSUME NEW e \in chains', NEW f \in chains', e.r = f.r
                 PROVE PathOf(e) = PathOf(f) /\ (e.m < f.m => f.done \subseteq e.done)
      BY DEF InOrder
    <2>1. PICK c \in chains : Goes(c, e, r, l, found) BY <1>1
    <2>2. PICK d \in chains : Goes(d, f, r, l, found) BY <1>1
    <2>3. c.r = d.r /\ c.m = e.m /\ d.m = f.m BY <1>3, <2>1, <2>2
    <2>4. PathOf(c) = PathOf(d) /\ (c.m < d.m => d.done \subseteq c.done)
      BY <2>3 DEF AlikeInv, InOrder
    <2>5. PathOf(e) = PathOf(c) /\ PathOf(f) = PathOf(d) BY <1>3, <2>1, <2>2 DEF PathOf
    <2>6. ASSUME c.m < d.m PROVE f.done \subseteq e.done
      <3>1. c.stage = "check" \/ \A check \in AllChecks(c) : check \subseteq c.done
        BY <1>2 DEF AlikeInv, AllDecide, Chain, Stages
      <3>2. c.failed = {} /\ d.failed = {} BY DEF AlikeInv, AllDecide
      <3>3. Awaits(d, l) => l \in c.done \/ Awaits(c, l)
        BY <2>3, <2>4, <2>6, <3>1, <3>2, OlderAwaits
      <3>4. /\ e.done = c.done \cup (IF c.r = r /\ Awaits(c, l) THEN {l} ELSE {})
            /\ f.done = d.done \cup (IF d.r = r /\ Awaits(d, l) THEN {l} ELSE {})
        BY <1>3, <2>1, <2>2
      <3> QED BY <2>3, <2>4, <2>6, <3>3, <3>4
    <2> QED BY <2>3, <2>4, <2>5, <2>6
  <1>7. ViewsAreTold'
    <2>1. \A c \in chains : \A e : Goes(c, e, r, l, found) => Change(e) = Change(c) /\ e.r = c.r
      BY <1>3 DEF Change
    <2>2. ASSUME NEW q \in Requests PROVE Changes(q, chains') = Changes(q, chains)
      BY <1>1, <2>1 DEF Changes
    <2> QED BY <1>1, <2>2 DEF AlikeInv, ViewsAreTold
  <1>8. PushedAsDecided' BY <1>1 DEF AlikeInv, PushedAsDecided
  <1> QED BY <1>4, <1>5, <1>6, <1>7, <1>8 DEF AlikeInv

LEMMA DecideIsTold ==
  ASSUME PushInv, AlikeInv, ~apart', NEW c \in chains, Decide(c)
  PROVE AlikeInv'
  <1> DEFINE next == [c EXCEPT !.type = EventType(c), !.own = secrets[c.m],
                               !.stage = IF HasTrigger THEN "trigger" ELSE "decided"]
  <1>1. \A d \in chains : d \in Chain /\ d.failed = {} /\ d.m \in Messages
    BY DEF PushInv, TypeOK, Chain, AlikeInv, AllDecide
  <1>2. /\ next.stage = "decided" /\ SameChange(c, next)
        /\ next.type = EventType(c)
    BY <1>1 DEF Chain, SameChange, Decide
  <1>3. EventType(next) = EventType(c)
    BY <1>2 DEF EventType, SameChange
  <1>4. /\ \A check \in AllChecks(c) : check \subseteq c.done
        /\ chains' = (chains \ {c}) \cup {next}
        /\ event' = [event EXCEPT ![c.m] = EventType(c)]
        /\ UNCHANGED <<version, sent, view, wire>>
    BY DEF Decide, Checked
  <1> HIDE DEF next
  <1>5. OneChainPerRequest' /\ ViewsAreTold' /\ PushedAsDecided'
    BY <1>2, <1>4, GoingOnIsTold
  <1>6. DOMAIN event = Messages BY DEF PushInv, TypeOK
  <1>7. AllDecide'
    <2> SUFFICES ASSUME NEW d \in chains'
                 PROVE /\ d.failed = {} /\ d.stage # "trigger" /\ Alike(d.orig, d.cur)
                       /\ Sees(d.orig, d.r) \/ Sees(d.cur, d.r)
                       /\ d.stage = "decided" =>
                            /\ d.type = EventType(d) /\ event'[d.m] = EventType(d)
                            /\ \A check \in AllChecks(d) : check \subseteq d.done
      BY DEF AllDecide
    <2>1. CASE d = next
      <3>1. c.failed = {} /\ Alike(c.orig, c.cur) /\ (Sees(c.orig, c.r) \/ Sees(c.cur, c.r))
        BY DEF AlikeInv, AllDecide
      <3>2. event'[c.m] = EventType(c) BY <1>1, <1>4, <1>6
      <3>3. AllChecks(next) = AllChecks(c) BY <1>2 DEF AllChecks, SameChange
      <3> QED BY <1>2, <1>3, <1>4, <2>1, <3>1, <3>2, <3>3 DEF SameChange
    <2>2. CASE d \in chains
      <3>1. /\ d.failed = {} /\ d.stage # "trigger" /\ Alike(d.orig, d.cur)
            /\ Sees(d.orig, d.r) \/ Sees(d.cur, d.r)
            /\ d.stage = "decided" =>
                 /\ d.type = EventType(d) /\ event[d.m] = EventType(d)
                 /\ \A check \in AllChecks(d) : check \subseteq d.done
        BY <2>2 DEF AlikeInv, AllDecide
      <3>2. CASE d.m = c.m
        <4>1. d.orig = c.orig /\ d.cur = c.cur BY <2>2, <3>2 DEF AlikeInv, OneChainPerRequest
        <4>2. Sees(c.orig, c.r) \/ Sees(c.cur, c.r) BY DEF AlikeInv, AllDecide
        <4>3. EventType(d) = EventType(c) BY <1>1, <2>2, <3>1, <4>1, <4>2, AlikeDecide
        <4>4. event'[d.m] = EventType(d) BY <1>1, <1>4, <1>6, <3>2, <4>3
        <4> QED BY <3>1, <4>4
      <3>3. CASE d.m # c.m
        <4>1. event'[d.m] = event[d.m] BY <1>1, <1>4, <1>6, <2>2, <3>3
        <4> QED BY <3>1, <4>1
      <3> QED BY <3>2, <3>3
    <2> QED BY <1>4, <2>1, <2>2
  <1>8. InOrder'
    <2>1. PathOf(next) = PathOf(c) BY <1>2 DEF PathOf, SameChange
    <2> QED BY <1>2, <1>4, <2>1 DEF AlikeInv, InOrder, SameChange
  <1> QED BY <1>5, <1>7, <1>8 DEF AlikeInv

LEMMA PushIsTold ==
  ASSUME PushInv, AlikeInv, NEW c \in chains, Push(c)
  PROVE AlikeInv'
  <1>1. \A d \in chains : d \in Chain /\ d.m \in Nat
    BY DEF PushInv, TypeOK, Chain, Messages
  <1>2. /\ c.failed = {} /\ (Sees(c.orig, c.r) \/ Sees(c.cur, c.r))
        /\ c.type = EventType(c) /\ event[c.m] = EventType(c)
    BY DEF AlikeInv, AllDecide, Push
  <1>3. EventType(c) \in Gone <=> ~Sees(c.cur, c.r)
    BY <1>1, <1>2, TypesFollowTheObject
  <1>4. /\ c.stage = "decided" /\ chains' = chains \ {c}
        /\ \A d \in chains : d.r = c.r /\ PathOf(d) = PathOf(c) /\ Runs(d) => d.m >= c.m
        /\ view' = IF event[c.m] \in Gone THEN view \ {c.r} ELSE view \cup {c.r}
        /\ wire'.event = event[c.m] /\ wire'.decided = c.type
        /\ UNCHANGED <<version, sent, event>>
    BY DEF Push, Turn, Gone
  <1>5. OneChainPerRequest' /\ AllDecide' /\ InOrder' /\ PushedAsDecided'
    BY <1>2, <1>4 DEF AlikeInv, OneChainPerRequest, AllDecide, InOrder, PushedAsDecided
  <1>6. \A d \in chains : d.r = c.r => c.m <= d.m
    <2> SUFFICES ASSUME NEW d \in chains, d.r = c.r PROVE c.m <= d.m
      OBVIOUS
    <2>1. PathOf(d) = PathOf(c) /\ (d.m < c.m => c.done \subseteq d.done)
      BY DEF AlikeInv, InOrder
    <2>2. c.failed = {} /\ d.failed = {} /\ \A check \in AllChecks(c) : check \subseteq c.done
      BY <1>4 DEF AlikeInv, AllDecide
    <2>3. AllChecks(d) = AllChecks(c) BY <2>1, <2>2 DEF AllChecks, PathOf, Path
    <2>4. d.stage \in {"check", "decided"}
      BY <1>1 DEF Chain, Stages, AlikeInv, AllDecide
    <2>5. d.m < c.m => Runs(d) BY <2>1, <2>2, <2>3, <2>4 DEF Runs, Checked
    <2> QED BY <1>1, <1>4, <2>1, <2>5
  <1>7. ViewsAreTold'
    <2> SUFFICES ASSUME NEW r \in Requests
                 PROVE Told(r, Changes(r, chains \ {c}), r \in view', version)
      BY <1>4 DEF ViewsAreTold
    <2> DEFINE S == Changes(r, chains)
    <2>1. Told(r, S, r \in view, version) BY DEF AlikeInv, ViewsAreTold
    <2>2. CASE r # c.r
      <3>1. Changes(r, chains \ {c}) = S BY <2>2 DEF Changes
      <3>2. r \in view' <=> r \in view BY <1>4, <2>2
      <3> HIDE DEF S
      <3> QED BY <2>1, <3>1, <3>2 DEF Told
    <2>3. CASE r = c.r
      <3> DEFINE x == Change(c)
                 seen == r \in view
                 now == r \in view'
      <3>1. x \in S BY <2>3 DEF Changes
      <3>2. \A y \in S : y.m \in Nat /\ x.m <= y.m /\ (y.m = x.m => y = x)
        BY <1>1, <1>6, <2>3 DEF Changes, Change, AlikeInv, OneChainPerRequest
      <3>3. Changes(r, chains \ {c}) = S \ {x}
        BY <2>3 DEF Changes, Change, AlikeInv, OneChainPerRequest
      <3>4. now <=> Sees(x.cur, r)
        BY <1>2, <1>3, <1>4, <2>3 DEF Change
      <3>5. seen \in BOOLEAN /\ now \in BOOLEAN /\ Told(r, S, seen, version)
        BY <2>1
      <3> HIDE DEF S, x, seen, now
      <3>6. Told(r, S \ {x}, now, version)
        BY <3>1, <3>2, <3>4, <3>5, TellOldest
      <3> QED BY <3>3, <3>6 DEF now
    <2> QED BY <2>2, <2>3
  <1> QED BY <1>5, <1>7 DEF AlikeInv

\* As long as nothing has told the requests of a message apart.
TogetherInv == ~apart => AlikeInv

LEMMA NextIsTold ==
  ASSUME MaxMessages \in Nat, None \notin Types, PushInv, TogetherInv, [Next]_vars
  PROVE TogetherInv'
  <1> SUFFICES ASSUME ~apart' PROVE AlikeInv'
    BY DEF TogetherInv
  <1>1. CASE UNCHANGED vars
    BY <1>1 DEF vars, TogetherInv, AlikeInv, OneChainPerRequest, AllDecide, InOrder, ViewsAreTold,
      PushedAsDecided
  <1>2. CASE Next
    <2>1. AlikeInv
      BY <1>2 DEF TogetherInv, Next, AfterSave, AfterDelete, Publish, LookupDone, DecideNothing,
        Decide, Push, TriggerDone, TriggerSuppressed
    <2>2. ASSUME NEW v \in Versions, AfterSave(v) PROVE AlikeInv'
      BY <2>1, <2>2, PublishIsTold DEF AfterSave
    <2>3. CASE AfterDelete
      BY <2>1, <2>3, PublishIsTold DEF AfterDelete
    <2>4. ASSUME NEW r \in Requests, NEW l \in Lookups, NEW found \in BOOLEAN, LookupDone(r, l, found)
          PROVE AlikeInv'
      BY <2>1, <2>4, LookupIsTold
    <2>5. ASSUME NEW c \in chains, DecideNothing(c) PROVE FALSE
      <3>1. c \in Chain /\ c.failed = {} /\ (Sees(c.orig, c.r) \/ Sees(c.cur, c.r))
        BY <2>1 DEF PushInv, TypeOK, AlikeInv, AllDecide
      <3>2. EventType(c) # None
        BY <3>1, TypesFollowTheObject
      <3> QED BY <2>5, <3>2 DEF DecideNothing
    <2>6. ASSUME NEW c \in chains, Decide(c) PROVE AlikeInv'
      BY <2>1, <2>6, DecideIsTold
    <2>7. ASSUME NEW c \in chains, TriggerDone(c) \/ TriggerSuppressed(c) PROVE FALSE
      BY <2>1, <2>7 DEF TriggerDone, TriggerSuppressed, AlikeInv, AllDecide
    <2>8. ASSUME NEW c \in chains, Push(c) PROVE AlikeInv'
      BY <2>1, <2>8, PushIsTold
    <2> QED BY <1>2, <2>2, <2>3, <2>4, <2>5, <2>6, <2>7, <2>8 DEF Next
  <1> QED BY <1>1, <1>2

\* The inductive invariant of requests that cannot be told apart.
LEMMA HistoriesHold ==
  ASSUME MaxMessages \in Nat, None \notin Types
  PROVE Spec => []TogetherInv
  <1>1. Init => TogetherInv BY AlikeInit DEF TogetherInv
  <1>2. PushInv /\ TogetherInv /\ [Next]_vars => TogetherInv' BY NextIsTold
  <1> QED BY <1>1, <1>2, PushesHold, PTL DEF Spec

\* All the chains of a message that tells nobody apart decide alike, so the shared
\* field names what each of them decided, whichever wrote it last.
THEOREM AlikeArePushedAsDecided ==
  ASSUME MaxMessages \in Nat, None \notin Types
  PROVE Spec => []SharedPushedAsDecided
  <1>1. TogetherInv => SharedPushedAsDecided
    BY DEF TogetherInv, AlikeInv, SharedPushedAsDecided
  <1> QED BY <1>1, HistoriesHold, PTL

\* Each request is told of the messages in their order, so that when its chains
\* have settled its client knows whether the object is in its result.
THEOREM ViewsTrackTheObject ==
  ASSUME MaxMessages \in Nat, None \notin Types
  PROVE Spec => []ViewTracksObject
  <1>1. PushInv /\ TogetherInv => ViewTracksObject
    <2> SUFFICES ASSUME PushInv, AlikeInv, chains = {}
                 PROVE view = {r \in Requests : Visible(version, r, {})}
      BY DEF ViewTracksObject, ViewIsTrue, TogetherInv
    <2>1. \A r \in Requests : Changes(r, chains) = {} BY DEF Changes
    <2>2. \A r \in Requests : r \in view <=> Sees(version, r)
      BY <2>1 DEF AlikeInv, ViewsAreTold, Told
    <2> QED BY <2>2 DEF Sees, PushInv, TypeOK
  <1> QED BY <1>1, HistoriesHold, PushesHold, PTL
=============================================================================
