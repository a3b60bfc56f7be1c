-------------------------- MODULE LiveQueryRegistry --------------------------
(***************************************************************************)
(* The subscription registry of the LiveQuery server: the clients map, the *)
(* Subscription objects filed by class and query hash, and the handlers of *)
(* a web socket's connect, subscribe, update, unsubscribe and disconnect   *)
(* events (src/LiveQuery/ParseLiveQueryServer.js, Subscription.js,         *)
(* Client.js).                                                             *)
(*                                                                         *)
(* Node runs one handler at a time, up to its first await.  The connect    *)
(* and subscribe handlers await the beforeConnect and beforeSubscribe      *)
(* triggers; the rest of such a handler is a continuation, one record of   *)
(* pend, and other socket events run before it.  When no trigger of that   *)
(* kind is registered the await takes microtasks only, so the continuation *)
(* runs before any other socket event (MacrotaskTurn).                     *)
(***************************************************************************)
EXTENDS Integers

CONSTANTS
  Sockets,    \* web socket connections
  ClientIds,  \* the uuids handed to Client objects
  Requests,   \* request ids chosen by the SDKs
  Queries,    \* subscribed queries, up to queryHash
  Classes,    \* class names
  ClassOf,    \* the class a query is over
  SubIds,     \* identities of Subscription objects
  Handlers,   \* slots for handlers suspended at an await
  Triggers,   \* the handlers ("connect", "subscribe") with a Cloud Code trigger
  Reconnects, \* whether an SDK may send connect twice over one socket
  MaxCopies,  \* bound: copies of a request id a client sends to one subscription
  None

ASSUME RegistryConstants ==
  /\ ClassOf \in [Queries -> Classes]
  /\ Triggers \subseteq {"connect", "subscribe"}
  /\ Reconnects \in BOOLEAN
  /\ MaxCopies \in Nat
  /\ None \notin Sockets \cup ClientIds \cup SubIds \cup Queries

VARIABLES
  open,      \* sockets whose close event has not fired
  clientId,  \* parseWebsocket.clientId
  socket,    \* client.parseWebSocket of the Client objects built so far
  clients,   \* keys of this.clients
  infos,     \* client.subscriptionInfos: request id -> Subscription
  registry,  \* this.subscriptions: class -> (hash -> Subscription), by query
  classes,   \* keys of this.subscriptions
  query,     \* subscription.query
  reqs,      \* subscription.clientRequestIds: how often each id is listed
  pend       \* the continuations of suspended handlers

vars == <<open, clientId, socket, clients, infos, registry, classes, query,
          reqs, pend>>
tables == <<infos, registry, classes, query, reqs>>

Idle == [op |-> "idle"]
ConnectJob == [op : {"connect"}, ws : Sockets, client : ClientIds]
SubscribeJob == [op : {"subscribe"}, ws : Sockets, client : ClientIds,
                 req : Requests, q : Queries]
Keys == ClientIds \X Requests

-----------------------------------------------------------------------------
Init ==
  /\ open = Sockets
  /\ clientId = [ws \in Sockets |-> None]
  /\ socket = [c \in ClientIds |-> None]
  /\ clients = {}
  /\ infos = [c \in ClientIds |-> [r \in Requests |-> None]]
  /\ registry = [q \in Queries |-> None]
  /\ classes = {}
  /\ query = [s \in SubIds |-> None]
  /\ reqs = [s \in SubIds |-> [k \in Keys |-> 0]]
  /\ pend = [h \in Handlers |-> Idle]

\* A socket event is a macrotask: it waits for the continuations that no
\* trigger suspends.
MacrotaskTurn == \A h \in Handlers : pend[h].op \in {"idle"} \cup Triggers

HasSubscribingClient(count) == \E k \in Keys : count[k] > 0

Start(h, job) == /\ pend[h] = Idle
                 /\ pend' = [pend EXCEPT ![h] = job]
Finish(h) == pend' = [pend EXCEPT ![h] = Idle]

-----------------------------------------------------------------------------
\* A connect request: the Client object is built, the trigger is awaited.
HandleConnect(ws, h) ==
  /\ MacrotaskTurn
  /\ ws \in open
  /\ Reconnects \/ \A c \in ClientIds : socket[c] # ws
  /\ \E c \in ClientIds :
       /\ socket[c] = None
       /\ socket' = [socket EXCEPT ![c] = ws]
       /\ Start(h, [op |-> "connect", ws |-> ws, client |-> c])
  /\ UNCHANGED <<open, clientId, clients, tables>>

\* Mutant: the accepted client is not put into the map.
ConnectAccepted_NotRegistered(h) ==
  /\ pend[h].op = "connect"
  /\ clientId' = [clientId EXCEPT ![pend[h].ws] = pend[h].client]
  /\ Finish(h)
  /\ UNCHANGED <<open, socket, clients, tables>>

\* The trigger let the client in; nothing looks at the socket's state.
ConnectAccepted(h) ==
  /\ pend[h].op = "connect"
  /\ clientId' = [clientId EXCEPT ![pend[h].ws] = pend[h].client]
  /\ clients' = clients \cup {pend[h].client}
  /\ Finish(h)
  /\ UNCHANGED <<open, socket, tables>>

\* The trigger, or its validator, threw: an error is pushed, nothing is kept.
TriggerRejected(h) ==
  /\ pend[h].op \in Triggers
  /\ Finish(h)
  /\ UNCHANGED <<open, clientId, socket, clients, tables>>

\* The part of a subscribe request before the trigger.  The client is looked
\* up here and captured; OpenSocketHasClient says the lookup succeeds.
BeginSubscribe(ws, r, q, h) ==
  /\ \A s \in SubIds \ {infos[clientId[ws]][r]} :
       reqs[s][<<clientId[ws], r>>] < MaxCopies
  /\ Start(h, [op |-> "subscribe", ws |-> ws, client |-> clientId[ws],
               req |-> r, q |-> q])

\* With MaxCopies = 1 an SDK subscribes only under a request id it is not using.
UnusedRequest(c, r) ==
  /\ \A s \in SubIds : reqs[s][<<c, r>>] < MaxCopies
  /\ MaxCopies = 1 => \A h \in Handlers :
       pend[h].op = "subscribe" => <<pend[h].client, pend[h].req>> # <<c, r>>

HandleSubscribe(ws, r, q, h) ==
  /\ MacrotaskTurn
  /\ ws \in open /\ clientId[ws] \in clients
  /\ UnusedRequest(clientId[ws], r)
  /\ BeginSubscribe(ws, r, q, h)
  /\ UNCHANGED <<open, clientId, socket, clients, tables>>

\* A Subscription object nobody can reach yet, for `new Subscription`.
Unreachable(s) ==
  /\ \A q \in Queries : registry[q] # s
  /\ \A c \in ClientIds, r \in Requests : infos[c][r] # s

\* After the trigger: file the subscription, note it at the captured client,
\* and list the request under the socket's client id of now.
SubscribeAccepted(h) ==
  LET p == pend[h]
      key == <<clientId[p.ws], p.req>>
  IN
  /\ p.op = "subscribe"
  /\ classes' = classes \cup {ClassOf[p.q]}
  /\ \E s \in SubIds :
       /\ \/ /\ registry[p.q] = s
             /\ reqs' = [reqs EXCEPT ![s][key] = @ + 1]
             /\ UNCHANGED <<registry, query>>
          \/ /\ registry[p.q] = None
             /\ Unreachable(s)
             /\ registry' = [registry EXCEPT ![p.q] = s]
             /\ query' = [query EXCEPT ![s] = p.q]
             /\ reqs' = [reqs EXCEPT ![s] =
                           [k \in Keys |-> IF k = key THEN 1 ELSE 0]]
       /\ infos' = [infos EXCEPT ![p.client][p.req] = s]
  /\ Finish(h)
  /\ UNCHANGED <<open, clientId, socket, clients>>

-----------------------------------------------------------------------------
\* Mutant: a subscription is removed although other clients use it.
DropRequests_Eager(c, R) ==
  LET left == [s \in SubIds |-> [k \in Keys |->
                 IF k[1] = c /\ k[2] \in R /\ infos[c][k[2]] = s /\ reqs[s][k] > 0
                 THEN reqs[s][k] - 1 ELSE reqs[s][k]]]
      dropped == {infos[c][r] : r \in R}
      kept == [q \in Queries |->
                 IF \E s \in dropped : query[s] = q
                 THEN None ELSE registry[q]]
  IN /\ reqs' = left
     /\ registry' = kept
     /\ classes' = classes \ {ClassOf[query[s]] : s \in
          {t \in dropped : \A q \in Queries :
                             ClassOf[q] = ClassOf[query[t]] => kept[q] = None}}
     /\ UNCHANGED query

\* Mutant: requests are told apart by their id alone.
DropRequests_AnyClient(c, R) ==
  LET left == [s \in SubIds |-> [k \in Keys |->
                 IF k[2] \in R /\ infos[c][k[2]] = s /\ reqs[s][k] > 0
                 THEN reqs[s][k] - 1 ELSE reqs[s][k]]]
      dropped == {infos[c][r] : r \in R}
      kept == [q \in Queries |->
                 IF \E s \in dropped : query[s] = q /\ ~HasSubscribingClient(left[s])
                 THEN None ELSE registry[q]]
  IN /\ reqs' = left
     /\ registry' = kept
     /\ classes' = classes \ {ClassOf[query[s]] : s \in
          {t \in dropped : \A q \in Queries :
                             ClassOf[q] = ClassOf[query[t]] => kept[q] = None}}
     /\ UNCHANGED query

\* Take one copy of each request of R, which client c has infos for, off its
\* subscription; drop the subscriptions left without clients and the classes
\* left without subscriptions.
DropRequests(c, R) ==
  LET left == [s \in SubIds |-> [k \in Keys |->
                 IF k[1] = c /\ k[2] \in R /\ infos[c][k[2]] = s /\ reqs[s][k] > 0
                 THEN reqs[s][k] - 1 ELSE reqs[s][k]]]
      dropped == {infos[c][r] : r \in R}
      kept == [q \in Queries |->
                 IF \E s \in dropped : query[s] = q /\ ~HasSubscribingClient(left[s])
                 THEN None ELSE registry[q]]
  IN /\ reqs' = left
     /\ registry' = kept
     /\ classes' = classes \ {ClassOf[query[s]] : s \in
          {t \in dropped : \A q \in Queries :
                             ClassOf[q] = ClassOf[query[t]] => kept[q] = None}}
     /\ UNCHANGED query

\* What an unsubscribe does to the tables; an unknown request id changes nothing.
Unsubscribe(ws, r) ==
  LET c == clientId[ws] IN
  /\ infos[c][r] # None
  /\ infos' = [infos EXCEPT ![c][r] = None]
  /\ DropRequests(c, {r})

HandleUnsubscribe(ws, r) ==
  /\ MacrotaskTurn
  /\ ws \in open /\ clientId[ws] \in clients
  /\ Unsubscribe(ws, r)
  /\ UNCHANGED <<open, clientId, socket, clients, pend>>

\* An update request unsubscribes (an unknown request id only pushes an error)
\* and subscribes again in the same turn.
HandleUpdateSubscription(ws, r, q, h) ==
  /\ MacrotaskTurn
  /\ ws \in open /\ clientId[ws] \in clients
  /\ \/ Unsubscribe(ws, r)
     \/ infos[clientId[ws]][r] = None /\ UNCHANGED tables
  /\ BeginSubscribe(ws, r, q, h)
  /\ UNCHANGED <<open, clientId, socket, clients>>

\* The socket closed before its client was registered, or after.
Disconnect(ws) ==
  LET c == clientId[ws] IN
  /\ MacrotaskTurn
  /\ ws \in open
  /\ open' = open \ {ws}
  /\ \/ c \notin clients /\ UNCHANGED <<clients, tables>>
     \/ /\ c \in clients
        /\ clients' = clients \ {c}
        /\ DropRequests(c, {r \in Requests : infos[c][r] # None})
        /\ UNCHANGED infos
  /\ UNCHANGED <<clientId, socket, pend>>

-----------------------------------------------------------------------------
Next ==
  \/ \E ws \in Sockets :
       \/ Disconnect(ws)
       \/ \E h \in Handlers : HandleConnect(ws, h)
       \/ \E r \in Requests :
            \/ HandleUnsubscribe(ws, r)
            \/ \E q \in Queries, h \in Handlers :
                 \/ HandleSubscribe(ws, r, q, h)
                 \/ HandleUpdateSubscription(ws, r, q, h)
  \/ \E h \in Handlers :
       ConnectAccepted(h) \/ SubscribeAccepted(h) \/ TriggerRejected(h)

Spec == Init /\ [][Next]_vars

-----------------------------------------------------------------------------
\* Every variable stays within the shapes the JavaScript maps can take.
TypeOK ==
  /\ open \subseteq Sockets
  /\ clientId \in [Sockets -> ClientIds \cup {None}]
  /\ socket \in [ClientIds -> Sockets \cup {None}]
  /\ clients \subseteq ClientIds
  /\ infos \in [ClientIds -> [Requests -> SubIds \cup {None}]]
  /\ registry \in [Queries -> SubIds \cup {None}]
  /\ classes \subseteq Classes
  /\ query \in [SubIds -> Queries \cup {None}]
  /\ reqs \in [SubIds -> [Keys -> Nat]]
  /\ pend \in [Handlers -> {Idle} \cup ConnectJob \cup SubscribeJob]

\* The client a socket's requests are served under.
Serving(c) == \E ws \in open : clientId[ws] = c

\* The unsubscribe handler's branch for an unknown client, and the subscribe
\* handler's use of an undefined one, are dead code: a socket that still
\* delivers messages and carries a client id has that client in the map.
OpenSocketHasClient ==
  \A ws \in open : clientId[ws] # None => clientId[ws] \in clients

\* Unsubscribe and disconnect fetch the class's map for a subscription they
\* found at the client and call methods on it unchecked: what a client that is
\* being served refers to is the registered Subscription of its query, and its
\* request is listed there, however updates, reconnects and triggers interleave.
ReferencedIsRegistered ==
  \A c \in clients, r \in Requests :
    (Serving(c) /\ infos[c][r] # None) =>
      LET s == infos[c][r] IN
      /\ query[s] # None
      /\ registry[query[s]] = s
      /\ reqs[s][<<c, r>>] > 0

\* "If there is no client which is subscribing this subscription, remove it
\* from subscriptions", and the same for classes without subscriptions: nothing
\* empty survives a handler, and every registered class is there.
NothingEmptyRegistered ==
  /\ \A q \in Queries : registry[q] # None => HasSubscribingClient(reqs[registry[q]])
  /\ classes = {ClassOf[q] : q \in {p \in Queries : registry[p] # None}}

\* A Subscription object is filed under its own query and nowhere else.
RegisteredUnderOwnQuery ==
  \A q \in Queries : registry[q] # None => query[registry[q]] = q

\* A step serves one client: whatever the request ids and queries two clients
\* share, it never adds to or takes from what the other has listed.
RequestsOfOneClient ==
  \E c \in ClientIds \cup {None} :
    \A s \in SubIds, k \in Keys : k[1] # c => reqs'[s][k] = reqs[s][k]
OneClientPerStep == [][RequestsOfOneClient]_vars

\* Without triggers, and with SDKs that use a request id for one subscription
\* at a time, the maps implement the promised table: what an event is
\* delivered to is read off the registered subscriptions.
Table == INSTANCE LiveQueryTable WITH
  connected <- clients,
  delivers <- {d \in ClientIds \X Requests \X Queries :
                 registry[d[3]] # None /\ reqs[registry[d[3]]][<<d[1], d[2]>>] > 0}
=============================================================================
