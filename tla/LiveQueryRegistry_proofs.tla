---------------------- MODULE LiveQueryRegistry_proofs ----------------------
(***************************************************************************)
(* The safety of the LiveQuery registry for every number of sockets,       *)
(* clients, requests, queries and triggers.  The inductive invariant adds  *)
(* to the checked properties who may be whose client: a client id belongs  *)
(* to the socket it was made for, and a client still waiting for its       *)
(* trigger has no subscriptions and nobody else knows it.                  *)
(***************************************************************************)
EXTENDS LiveQueryRegistry, TLAPS

Connecting(h) == pend[h].op = "connect"
Subscribing(h) == pend[h].op = "subscribe"

\* A client belongs to the socket it was built for.
Identity ==
  /\ \A ws \in Sockets : clientId[ws] # None => socket[clientId[ws]] = ws
  /\ \A h \in Handlers : Connecting(h) \/ Subscribing(h) =>
       socket[pend[h].client] = pend[h].ws
  /\ \A h \in Handlers : Subscribing(h) => clientId[pend[h].ws] # None

\* A client that has not been accepted yet is known to its handler only, and
\* has no subscriptions.
Fresh ==
  /\ \A c \in ClientIds : socket[c] = None => \A r \in Requests : infos[c][r] = None
  /\ \A h \in Handlers : Connecting(h) =>
       /\ \A r \in Requests : infos[pend[h].client][r] = None
       /\ \A ws \in Sockets : clientId[ws] # pend[h].client
       /\ \A g \in Handlers : (Connecting(g) \/ Subscribing(g)) /\ g # h =>
            pend[g].client # pend[h].client

\* What a socket that still delivers messages may unsubscribe is registered.
Linked ==
  \A ws \in open, r \in Requests :
    LET c == clientId[ws]
        s == infos[c][r]
    IN c # None /\ s # None =>
         /\ query[s] # None
         /\ registry[query[s]] = s
         /\ reqs[s][<<c, r>>] > 0

\* A Subscription that is not registered lists nothing.
UnfiledIsEmpty ==
  \A s \in SubIds : (\A q \in Queries : registry[q] # s) => \A k \in Keys : reqs[s][k] = 0

Filing == NothingEmptyRegistered /\ RegisteredUnderOwnQuery /\ UnfiledIsEmpty

IInv == TypeOK /\ OpenSocketHasClient /\ Identity /\ Fresh /\ Linked /\ Filing

-----------------------------------------------------------------------------
LEMMA JobTypes ==
  ASSUME TypeOK, NEW h \in Handlers
  PROVE /\ Connecting(h) => pend[h] \in ConnectJob
        /\ Subscribing(h) => pend[h] \in SubscribeJob
  <1>1. pend[h] \in {Idle} \cup ConnectJob \cup SubscribeJob
    BY DEF TypeOK
  <1> QED BY <1>1 DEF Connecting, Subscribing, Idle, ConnectJob, SubscribeJob

\* Listing an id once more leaves a table of counts, whatever the id.
LEMMA CountOneMore ==
  ASSUME NEW S, NEW f \in [S -> Nat], NEW k
  PROVE  [f EXCEPT ![k] = @ + 1] \in [S -> Nat]
  <1>1. CASE k \in S
    BY <1>1
  <1>2. CASE k \notin S
    <2>1. [f EXCEPT ![k] = @ + 1] = f
      BY <1>2
    <2> QED BY <2>1
  <1> QED BY <1>1, <1>2

\* Dropping requests of a client that is being served: only its own requests
\* leave a list, only a subscription nobody lists leaves the registry, and the
\* registry stays well filed.
LEMMA DropEffect ==
  ASSUME TypeOK, Linked, Filing,
         NEW ws \in open, clientId[ws] \in ClientIds,
         NEW R \in SUBSET Requests, \A r \in R : infos[clientId[ws]][r] # None,
         DropRequests(clientId[ws], R)
  PROVE  /\ query' = query
         /\ reqs' \in [SubIds -> [Keys -> Nat]]
         /\ registry' \in [Queries -> SubIds \cup {None}]
         /\ classes' \subseteq classes
         /\ \A s \in SubIds, k \in Keys :
              k[1] # clientId[ws] \/ k[2] \notin R => reqs'[s][k] = reqs[s][k]
         /\ \A q \in Queries :
              \/ registry'[q] = registry[q]
              \/ /\ registry[q] \in SubIds
                 /\ registry'[q] = None
                 /\ \A k \in Keys : reqs'[registry[q]][k] = 0
         /\ Filing'
  <1> DEFINE c == clientId[ws]
             left == [s \in SubIds |-> [k \in Keys |->
               IF k[1] = c /\ k[2] \in R /\ infos[c][k[2]] = s /\ reqs[s][k] > 0
               THEN reqs[s][k] - 1 ELSE reqs[s][k]]]
             dropped == {infos[c][r] : r \in R}
             kept == [q \in Queries |->
               IF \E s \in dropped : query[s] = q /\ ~HasSubscribingClient(left[s])
               THEN None ELSE registry[q]]
             emptied == {t \in dropped : \A q \in Queries :
                           ClassOf[q] = ClassOf[query[t]] => kept[q] = None}
  <1>1. /\ reqs' = left /\ registry' = kept /\ query' = query
        /\ classes' = classes \ {ClassOf[query[s]] : s \in emptied}
    BY DEF DropRequests
  <1>2. ASSUME NEW s \in dropped
        PROVE  s \in SubIds /\ query[s] \in Queries /\ registry[query[s]] = s
    <2>1. PICK r \in R : s = infos[c][r]
      OBVIOUS
    <2>2. s \in SubIds
      BY <2>1 DEF TypeOK
    <2>3. c # None /\ s # None /\ r \in Requests
      BY <2>1, RegistryConstants
    <2>4. query[s] # None /\ registry[query[s]] = s
      BY <2>1, <2>3 DEF Linked
    <2> QED BY <2>2, <2>4 DEF TypeOK
  <1> HIDE DEF dropped
  <1>3. ASSUME NEW s \in SubIds, NEW k \in Keys
        PROVE  left[s][k] \in Nat /\ left[s][k] <= reqs[s][k]
    <2>1. reqs[s][k] \in Nat
      BY DEF TypeOK
    <2> QED BY <2>1
  <1>4. left \in [SubIds -> [Keys -> Nat]]
    BY <1>3
  <1>5. \A s \in SubIds, k \in Keys :
          k[1] # c \/ k[2] \notin R => left[s][k] = reqs[s][k]
    OBVIOUS
  <1>6. ASSUME NEW s \in SubIds, ~HasSubscribingClient(left[s]), NEW k \in Keys
        PROVE  left[s][k] = 0
    <2>1. ~(left[s][k] > 0)
      BY <1>6 DEF HasSubscribingClient
    <2>2. left[s][k] \in Nat
      BY <1>3
    <2> HIDE DEF left
    <2> QED BY <2>1, <2>2
  <1>7. ASSUME NEW s \in SubIds, s \notin dropped
        PROVE  left[s] = reqs[s]
    <2>1. \A k \in Keys : ~(k[2] \in R /\ infos[c][k[2]] = s)
      BY <1>7 DEF dropped
    <2>2. reqs[s] \in [Keys -> Nat]
      BY DEF TypeOK
    <2> QED BY <2>1, <2>2
  <1> HIDE DEF left
  <1>8. kept \in [Queries -> SubIds \cup {None}]
    <2>1. \A q \in Queries : registry[q] \in SubIds \cup {None}
      BY DEF TypeOK
    <2>2. \A q \in Queries : kept[q] = None \/ kept[q] = registry[q]
      OBVIOUS
    <2> QED BY <2>1, <2>2
  <1>9. ASSUME NEW q \in Queries
        PROVE  \/ kept[q] = registry[q]
               \/ /\ registry[q] \in SubIds
                  /\ kept[q] = None
                  /\ \A k \in Keys : left[registry[q]][k] = 0
    <2>1. CASE \E s \in dropped : query[s] = q /\ ~HasSubscribingClient(left[s])
      BY <2>1, <1>2, <1>6
    <2>2. CASE ~ \E s \in dropped : query[s] = q /\ ~HasSubscribingClient(left[s])
      BY <2>2
    <2> QED BY <2>1, <2>2
  <1>10. ASSUME NEW q \in Queries, kept[q] # None
         PROVE  HasSubscribingClient(left[kept[q]])
    <2>1. kept[q] = registry[q] /\ registry[q] \in SubIds
      BY <1>10, <1>8
    <2>2. HasSubscribingClient(reqs[registry[q]])
      BY <2>1, <1>10 DEF Filing, NothingEmptyRegistered
    <2>3. CASE registry[q] \in dropped
      BY <2>1, <2>3, <1>10 DEF Filing, RegisteredUnderOwnQuery
    <2>4. CASE registry[q] \notin dropped
      BY <2>1, <2>2, <2>4, <1>7
    <2> QED BY <2>3, <2>4
  <1>11. classes' = {ClassOf[q] : q \in {p \in Queries : kept[p] # None}}
    <2> DEFINE gone == {ClassOf[query[s]] : s \in emptied}
    <2>1. classes = {ClassOf[q] : q \in {p \in Queries : registry[p] # None}}
      BY DEF Filing, NothingEmptyRegistered
    <2>2. ASSUME NEW q \in Queries, kept[q] # None
          PROVE  ClassOf[q] \in classes \ gone
      <3>1. registry[q] # None
        BY <2>2, <1>9
      <3>2. ClassOf[q] \in classes
        BY <3>1, <2>1
      <3>3. \A s \in emptied : ClassOf[query[s]] # ClassOf[q]
        BY <2>2
      <3> QED BY <3>2, <3>3
    <2>3. ASSUME NEW x \in classes \ gone
          PROVE  \E q \in Queries : kept[q] # None /\ x = ClassOf[q]
      <3>1. PICK q \in Queries : registry[q] # None /\ x = ClassOf[q]
        BY <2>1
      <3>2. CASE kept[q] # None
        BY <3>1, <3>2
      <3>3. CASE kept[q] = None
        <4>1. PICK s \in dropped : query[s] = q
          BY <3>1, <3>3
        <4>2. s \notin emptied
          BY <4>1, <3>1
        <4> QED BY <4>1, <4>2, <3>1
      <3> QED BY <3>2, <3>3
    <2> QED BY <2>2, <2>3, <1>1
  <1>12. NothingEmptyRegistered'
    BY <1>1, <1>10, <1>11 DEF NothingEmptyRegistered, HasSubscribingClient
  <1>13. RegisteredUnderOwnQuery'
    BY <1>1, <1>9 DEF RegisteredUnderOwnQuery, Filing
  <1>14. UnfiledIsEmpty'
    <2> SUFFICES ASSUME NEW s \in SubIds, \A q \in Queries : kept[q] # s,
                        NEW k \in Keys
                 PROVE  left[s][k] = 0
      BY <1>1 DEF UnfiledIsEmpty
    <2>1. CASE \E q \in Queries : registry[q] = s
      BY <2>1, <1>9
    <2>2. CASE \A q \in Queries : registry[q] # s
      <3>1. reqs[s][k] = 0
        BY <2>2 DEF Filing, UnfiledIsEmpty
      <3> QED BY <3>1, <1>3
    <2> QED BY <2>1, <2>2
  <1> QED BY <1>1, <1>4, <1>5, <1>8, <1>9, <1>12, <1>13, <1>14 DEF Filing

-----------------------------------------------------------------------------
\* Every variable keeps its shape, in every step of every handler.
THEOREM TypeCorrect == Spec => []TypeOK
  <1>1. Init => TypeOK
    BY DEF Init, TypeOK, Idle, Keys
  <1>2. TypeOK /\ [Next]_vars => TypeOK'
    <2> SUFFICES ASSUME TypeOK, [Next]_vars PROVE TypeOK'
      OBVIOUS
    <2> USE DEF TypeOK
    <2>1. ASSUME NEW ws \in Sockets, NEW h \in Handlers, HandleConnect(ws, h)
          PROVE  TypeOK'
      BY <2>1 DEF HandleConnect, Start, tables, ConnectJob
    <2>2. ASSUME NEW h \in Handlers, ConnectAccepted(h)
          PROVE  TypeOK'
      <3>1. pend[h] \in ConnectJob
        BY <2>2, JobTypes DEF ConnectAccepted, Connecting
      <3> QED BY <2>2, <3>1 DEF ConnectAccepted, Finish, tables, ConnectJob
    <2>3. ASSUME NEW h \in Handlers, TriggerRejected(h)
          PROVE  TypeOK'
      BY <2>3 DEF TriggerRejected, Finish, tables
    <2>4. ASSUME NEW ws \in Sockets, NEW r \in Requests, NEW q \in Queries,
                 NEW h \in Handlers, HandleSubscribe(ws, r, q, h)
          PROVE  TypeOK'
      BY <2>4 DEF HandleSubscribe, BeginSubscribe, Start, tables, SubscribeJob
    <2>5. ASSUME NEW h \in Handlers, SubscribeAccepted(h)
          PROVE  TypeOK'
      <3>1. pend[h] \in SubscribeJob
        BY <2>5, JobTypes DEF SubscribeAccepted, Subscribing
      <3> DEFINE p == pend[h]
                 key == <<clientId[p.ws], p.req>>
      <3>2. p.q \in Queries /\ p.client \in ClientIds /\ p.req \in Requests
        BY <3>1 DEF SubscribeJob
      <3>3. PICK s \in SubIds :
              /\ \/ /\ registry[p.q] = s
                    /\ reqs' = [reqs EXCEPT ![s][key] = @ + 1]
                    /\ UNCHANGED <<registry, query>>
                 \/ /\ registry' = [registry EXCEPT ![p.q] = s]
                    /\ query' = [query EXCEPT ![s] = p.q]
                    /\ reqs' = [reqs EXCEPT ![s] =
                                  [k \in Keys |-> IF k = key THEN 1 ELSE 0]]
              /\ infos' = [infos EXCEPT ![p.client][p.req] = s]
        BY <2>5 DEF SubscribeAccepted
      <3>4. classes' \subseteq Classes
        BY <2>5, <3>2, RegistryConstants DEF SubscribeAccepted
      <3>5. infos' \in [ClientIds -> [Requests -> SubIds \cup {None}]]
        BY <3>2, <3>3
      <3>6. reqs' \in [SubIds -> [Keys -> Nat]]
        <4>1. CASE reqs' = [reqs EXCEPT ![s][key] = @ + 1]
          <5>1. reqs[s] \in [Keys -> Nat]
            OBVIOUS
          <5> HIDE DEF key
          <5>2. [reqs[s] EXCEPT ![key] = @ + 1] \in [Keys -> Nat]
            BY <5>1, CountOneMore
          <5>3. reqs' = [reqs EXCEPT ![s] = [reqs[s] EXCEPT ![key] = @ + 1]]
            BY <4>1
          <5> QED BY <5>2, <5>3
        <4>2. CASE reqs' = [reqs EXCEPT ![s] =
                              [k \in Keys |-> IF k = key THEN 1 ELSE 0]]
          BY <4>2
        <4> QED BY <3>3, <4>1, <4>2
      <3>7. /\ registry' \in [Queries -> SubIds \cup {None}]
            /\ query' \in [SubIds -> Queries \cup {None}]
        BY <3>2, <3>3
      <3>8. pend' \in [Handlers -> {Idle} \cup ConnectJob \cup SubscribeJob]
        BY <2>5 DEF SubscribeAccepted, Finish
      <3>9. UNCHANGED <<open, clientId, socket, clients>>
        BY <2>5 DEF SubscribeAccepted
      <3> HIDE DEF p, key
      <3> QED BY <3>4, <3>5, <3>6, <3>7, <3>8, <3>9
    <2>6. ASSUME NEW c, NEW R, DropRequests(c, R)
          PROVE  /\ reqs' \in [SubIds -> [Keys -> Nat]]
                 /\ registry' \in [Queries -> SubIds \cup {None}]
                 /\ classes' \subseteq Classes
                 /\ query' \in [SubIds -> Queries \cup {None}]
      <3> DEFINE left == [s \in SubIds |-> [k \in Keys |->
                   IF k[1] = c /\ k[2] \in R /\ infos[c][k[2]] = s /\ reqs[s][k] > 0
                   THEN reqs[s][k] - 1 ELSE reqs[s][k]]]
                 dropped == {infos[c][r] : r \in R}
      <3>1. reqs' = left
        BY <2>6 DEF DropRequests
      <3>2. ASSUME NEW s \in SubIds, NEW k \in Keys
            PROVE  left[s][k] \in Nat
        <4>1. reqs[s][k] \in Nat
          OBVIOUS
        <4> QED BY <4>1
      <3>3. \A q \in Queries : registry'[q] = None \/ registry'[q] = registry[q]
        BY <2>6 DEF DropRequests
      <3>4. registry' = [q \in Queries |-> registry'[q]]
        BY <2>6 DEF DropRequests
      <3>5. \A q \in Queries : registry[q] \in SubIds \cup {None}
        OBVIOUS
      <3>6. registry' \in [Queries -> SubIds \cup {None}]
        BY <3>3, <3>4, <3>5
      <3>7. classes' \subseteq Classes /\ query' = query
        BY <2>6 DEF DropRequests
      <3> QED BY <3>1, <3>2, <3>6, <3>7
    <2>7. ASSUME NEW ws \in Sockets, NEW r \in Requests, clientId[ws] \in clients,
                 Unsubscribe(ws, r)
          PROVE  /\ reqs' \in [SubIds -> [Keys -> Nat]]
                 /\ registry' \in [Queries -> SubIds \cup {None}]
                 /\ classes' \subseteq Classes
                 /\ query' \in [SubIds -> Queries \cup {None}]
                 /\ infos' \in [ClientIds -> [Requests -> SubIds \cup {None}]]
      <3>1. DropRequests(clientId[ws], {r})
        BY <2>7 DEF Unsubscribe
      <3>2. infos' \in [ClientIds -> [Requests -> SubIds \cup {None}]]
        BY <2>7 DEF Unsubscribe
      <3> QED BY <2>6, <3>1, <3>2
    <2>8. ASSUME NEW ws \in Sockets, NEW r \in Requests, HandleUnsubscribe(ws, r)
          PROVE  TypeOK'
      BY <2>7, <2>8 DEF HandleUnsubscribe
    <2>9. ASSUME NEW ws \in Sockets, NEW r \in Requests, NEW q \in Queries,
                 NEW h \in Handlers, HandleUpdateSubscription(ws, r, q, h)
          PROVE  TypeOK'
      <3>1. pend' \in [Handlers -> {Idle} \cup ConnectJob \cup SubscribeJob]
        BY <2>9 DEF HandleUpdateSubscription, BeginSubscribe, Start, SubscribeJob
      <3>2. UNCHANGED <<open, clientId, socket, clients>>
        BY <2>9 DEF HandleUpdateSubscription
      <3>3. CASE Unsubscribe(ws, r)
        BY <2>7, <2>9, <3>1, <3>2, <3>3 DEF HandleUpdateSubscription
      <3>4. CASE UNCHANGED tables
        BY <3>1, <3>2, <3>4 DEF tables
      <3> QED BY <2>9, <3>3, <3>4 DEF HandleUpdateSubscription
    <2>10. ASSUME NEW ws \in Sockets, Disconnect(ws)
           PROVE  TypeOK'
      <3>1. /\ open' \subseteq Sockets /\ clients' \subseteq ClientIds
            /\ UNCHANGED <<clientId, socket, pend, infos>>
        BY <2>10 DEF Disconnect, tables
      <3>2. CASE UNCHANGED tables
        BY <3>1, <3>2 DEF tables
      <3>3. CASE DropRequests(clientId[ws], {r \in Requests : infos[clientId[ws]][r] # None})
        BY <2>6, <3>1, <3>3
      <3> QED BY <2>10, <3>2, <3>3 DEF Disconnect
    <2>11. CASE UNCHANGED vars
      BY <2>11 DEF vars
    <2> QED BY <2>1, <2>2, <2>3, <2>4, <2>5, <2>8, <2>9, <2>10, <2>11 DEF Next
  <1> QED BY <1>1, <1>2, PTL DEF Spec

-----------------------------------------------------------------------------
\* Steps that leave the tables alone keep them linked and filed as long as the
\* sockets that may unsubscribe keep their clients.
LEMMA TablesUntouched ==
  ASSUME Linked, Filing, UNCHANGED tables, open' \subseteq open,
         \A ws \in open : clientId'[ws] = clientId[ws]
                           \/ \A r \in Requests : infos[clientId'[ws]][r] = None
  PROVE  Linked' /\ Filing'
  <1>1. Linked'
    <2> SUFFICES ASSUME NEW ws \in open', NEW r \in Requests,
                        clientId'[ws] # None, infos[clientId'[ws]][r] # None
                 PROVE  LET s == infos[clientId'[ws]][r] IN
                        /\ query[s] # None
                        /\ registry[query[s]] = s
                        /\ reqs[s][<<clientId'[ws], r>>] > 0
      BY DEF Linked, tables
    <2>1. ws \in open /\ clientId'[ws] = clientId[ws]
      OBVIOUS
    <2> QED BY <2>1 DEF Linked
  <1>2. Filing'
    BY DEF Filing, NothingEmptyRegistered, RegisteredUnderOwnQuery, UnfiledIsEmpty,
           HasSubscribingClient, tables
  <1> QED BY <1>1, <1>2

\* A request that is not dropped stays listed at a registered subscription.
LEMMA OthersStayLinked ==
  ASSUME TypeOK, Linked, Filing,
         NEW ws \in open, clientId[ws] \in ClientIds,
         NEW R \in SUBSET Requests, \A r \in R : infos[clientId[ws]][r] # None,
         DropRequests(clientId[ws], R),
         NEW v \in open, clientId[v] # None,
         NEW r \in Requests, infos[clientId[v]][r] # None,
         clientId[v] # clientId[ws] \/ r \notin R
  PROVE  LET s == infos[clientId[v]][r] IN
         /\ query'[s] # None
         /\ registry'[query'[s]] = s
         /\ reqs'[s][<<clientId[v], r>>] > 0
  <1> DEFINE s == infos[clientId[v]][r]
             k == <<clientId[v], r>>
  <1>1. clientId[v] \in ClientIds /\ s \in SubIds /\ k \in Keys
    BY DEF TypeOK, Keys
  <1>2. query[s] # None /\ registry[query[s]] = s /\ reqs[s][k] > 0
    BY DEF Linked
  <1>3. query[s] \in Queries
    BY <1>1, <1>2 DEF TypeOK
  <1>4. query' = query /\ reqs'[s][k] = reqs[s][k]
    BY <1>1, DropEffect
  <1>5. \/ registry'[query[s]] = s
        \/ \A j \in Keys : reqs'[s][j] = 0
    <2>1. \A q \in Queries :
            \/ registry'[q] = registry[q]
            \/ \A j \in Keys : reqs'[registry[q]][j] = 0
      BY DropEffect
    <2>2. \/ registry'[query[s]] = registry[query[s]]
          \/ \A j \in Keys : reqs'[registry[query[s]]][j] = 0
      BY <1>3, <2>1
    <2> QED BY <1>2, <2>2
  <1>6. registry'[query[s]] = s
    BY <1>1, <1>2, <1>4, <1>5
  <1> QED BY <1>2, <1>4, <1>6

\* What a subscribe that goes on does with the subscription t: it is the registered one of
\* the query from now on, known to the captured client, and lists the request once more
\* under the client id of now.
Files(p, t) ==
  LET key == <<clientId[p.ws], p.req>> IN
  /\ registry' = [registry EXCEPT ![p.q] = t]
  /\ registry[p.q] \in {t, None}
  /\ \A q \in Queries \ {p.q} : registry[q] # t
  /\ query'[t] = p.q
  /\ infos' = [infos EXCEPT ![p.client][p.req] = t]
  /\ reqs'[t][key] = reqs[t][key] + 1
  /\ \A k \in Keys : k # key => reqs'[t][k] = reqs[t][k]
  /\ \A s \in SubIds \ {t} : query'[s] = query[s] /\ reqs'[s] = reqs[s]

LEMMA SubscribeEffect ==
  ASSUME IInv, NEW h \in Handlers, SubscribeAccepted(h)
  PROVE  \E t \in SubIds : Files(pend[h], t)
  <1> DEFINE p == pend[h]
             key == <<clientId[p.ws], p.req>>
  <1>1. p \in SubscribeJob /\ Subscribing(h)
    BY JobTypes DEF SubscribeAccepted, Subscribing, IInv
  <1>2. /\ p.q \in Queries /\ p.client \in ClientIds /\ p.req \in Requests
        /\ p.ws \in Sockets
    BY <1>1 DEF SubscribeJob
  <1>3. key \in Keys
    BY <1>1, <1>2 DEF IInv, Identity, TypeOK, Keys
  <1>4. PICK s \in SubIds :
          /\ \/ /\ registry[p.q] = s
                /\ reqs' = [reqs EXCEPT ![s][key] = @ + 1]
                /\ UNCHANGED <<registry, query>>
             \/ /\ registry[p.q] = None
                /\ Unreachable(s)
                /\ registry' = [registry EXCEPT ![p.q] = s]
                /\ query' = [query EXCEPT ![s] = p.q]
                /\ reqs' = [reqs EXCEPT ![s] =
                              [k \in Keys |-> IF k = key THEN 1 ELSE 0]]
          /\ infos' = [infos EXCEPT ![p.client][p.req] = s]
    BY DEF SubscribeAccepted
  <1> HIDE DEF p, key
  <1>5. /\ registry \in [Queries -> SubIds \cup {None}]
        /\ query \in [SubIds -> Queries \cup {None}]
        /\ reqs \in [SubIds -> [Keys -> Nat]]
    BY DEF IInv, TypeOK
  <1>6. /\ registry' = [registry EXCEPT ![p.q] = s]
        /\ registry[p.q] \in {s, None}
        /\ query'[s] = p.q
        /\ \A t \in SubIds \ {s} : query'[t] = query[t] /\ reqs'[t] = reqs[t]
        /\ \A q \in Queries \ {p.q} : registry[q] # s
    <2>1. CASE registry[p.q] = s
      <3>1. query[s] = p.q /\ \A q \in Queries : registry[q] = s => q = p.q
        BY <1>2, <2>1, RegistryConstants DEF IInv, Filing, RegisteredUnderOwnQuery
      <3>2. UNCHANGED <<registry, query>> /\ reqs' = [reqs EXCEPT ![s][key] = @ + 1]
        BY <1>4, <2>1, RegistryConstants
      <3> QED BY <1>5, <2>1, <3>1, <3>2
    <2>2. CASE registry[p.q] = None
      <3>1. Unreachable(s)
        BY <1>4, <2>2, RegistryConstants
      <3> QED BY <1>2, <1>4, <1>5, <2>2, <3>1, RegistryConstants DEF Unreachable
    <2> QED BY <1>4, <2>1, <2>2
  <1>7. /\ reqs'[s][key] = reqs[s][key] + 1
        /\ \A k \in Keys : k # key => reqs'[s][k] = reqs[s][k]
    <2>1. CASE reqs' = [reqs EXCEPT ![s][key] = @ + 1]
      BY <1>3, <1>5, <2>1
    <2>2. CASE Unreachable(s) /\ reqs' = [reqs EXCEPT ![s] =
                            [k \in Keys |-> IF k = key THEN 1 ELSE 0]]
      <3>1. \A k \in Keys : reqs[s][k] = 0
        BY <2>2 DEF Unreachable, IInv, Filing, UnfiledIsEmpty
      <3> QED BY <1>3, <1>5, <2>2, <3>1
    <2> QED BY <1>4, <2>1, <2>2
  <1> QED BY <1>4, <1>6, <1>7 DEF Files, p, key

\* A subscribe that its trigger let through: the request is listed under the
\* client id of now, which is the captured client's unless that one is no
\* longer served.
LEMMA SubscribeAcceptedStep ==
  ASSUME IInv, NEW h \in Handlers, SubscribeAccepted(h)
  PROVE  Linked' /\ Filing'
  <1> DEFINE p == pend[h]
             key == <<clientId[p.ws], p.req>>
  <1>1. p \in SubscribeJob /\ Subscribing(h)
    BY JobTypes DEF SubscribeAccepted, Subscribing, IInv
  <1>2. /\ p.q \in Queries /\ p.client \in ClientIds /\ p.req \in Requests
        /\ p.ws \in Sockets
    BY <1>1 DEF SubscribeJob
  <1>3. key \in Keys /\ socket[p.client] = p.ws
    BY <1>1, <1>2 DEF IInv, Identity, TypeOK, Keys
  <1>4. PICK s \in SubIds : Files(p, s)
    BY SubscribeEffect
  <1>5. /\ classes' = classes \cup {ClassOf[p.q]}
        /\ UNCHANGED <<open, clientId, socket, clients>>
    BY DEF SubscribeAccepted
  <1>6. /\ registry' = [registry EXCEPT ![p.q] = s]
        /\ registry[p.q] \in {s, None}
        /\ query'[s] = p.q
        /\ infos' = [infos EXCEPT ![p.client][p.req] = s]
        /\ \A t \in SubIds \ {s} : query'[t] = query[t] /\ reqs'[t] = reqs[t]
        /\ \A q \in Queries \ {p.q} : registry[q] # s
    BY <1>4 DEF Files
  <1>7. /\ reqs'[s][key] > 0
        /\ \A k \in Keys : k # key => reqs'[s][k] = reqs[s][k]
    <2>1. reqs[s][key] \in Nat
      BY <1>3 DEF IInv, TypeOK
    <2>2. reqs'[s][key] = reqs[s][key] + 1 /\ \A k \in Keys : k # key => reqs'[s][k] = reqs[s][k]
      BY <1>4 DEF Files
    <2> QED BY <2>1, <2>2
  <1> HIDE DEF p, key
  <1>8. /\ reqs \in [SubIds -> [Keys -> Nat]]
        /\ registry \in [Queries -> SubIds \cup {None}]
    BY DEF IInv, TypeOK
  <1>9. Linked'
    <2> SUFFICES ASSUME NEW ws \in open, NEW r \in Requests,
                        clientId[ws] # None, infos'[clientId[ws]][r] # None
                 PROVE  LET t == infos'[clientId[ws]][r] IN
                        /\ query'[t] # None
                        /\ registry'[query'[t]] = t
                        /\ reqs'[t][<<clientId[ws], r>>] > 0
      BY <1>5 DEF Linked
    <2>1. ws \in Sockets /\ clientId[ws] \in ClientIds
      BY DEF IInv, TypeOK
    <2>2. infos \in [ClientIds -> [Requests -> SubIds \cup {None}]]
      BY DEF IInv, TypeOK
    <2>3. CASE clientId[ws] = p.client /\ r = p.req
      <3>1. ws = p.ws
        BY <1>3, <2>1, <2>3 DEF IInv, Identity
      <3>2. infos'[clientId[ws]][r] = s
        BY <1>2, <1>6, <2>2, <2>3
      <3>3. <<clientId[ws], r>> = key
        BY <2>3, <3>1 DEF key
      <3> QED BY <1>2, <1>6, <1>7, <1>8, <3>2, <3>3, RegistryConstants
    <2>4. CASE ~(clientId[ws] = p.client /\ r = p.req)
      <3> DEFINE t == infos[clientId[ws]][r]
                 k == <<clientId[ws], r>>
      <3>1. infos'[clientId[ws]][r] = t
        BY <1>2, <1>6, <2>1, <2>2, <2>4
      <3>2. t \in SubIds /\ k \in Keys
        BY <2>1, <2>2, <3>1 DEF Keys
      <3>3. query[t] # None /\ registry[query[t]] = t /\ reqs[t][k] > 0
        BY <3>1 DEF IInv, Linked
      <3>4. query[t] \in Queries
        BY <3>2, <3>3 DEF IInv, TypeOK
      <3>5. CASE t = s
        <4>1. query[t] = p.q
          BY <1>6, <3>3, <3>4, <3>5
        <4>2. reqs'[s][k] > 0
          BY <1>7, <3>2, <3>3, <3>5
        <4> QED BY <1>2, <1>6, <1>8, <3>1, <3>5, <4>1, <4>2, RegistryConstants
      <3>6. CASE t # s
        <4>1. query'[t] = query[t] /\ reqs'[t] = reqs[t]
          BY <1>6, <3>2, <3>6
        <4>2. query[t] # p.q
          <5>1. CASE registry[p.q] = s
            BY <3>3, <3>6, <5>1
          <5>2. CASE registry[p.q] = None
            BY <3>2, <3>3, <5>2, RegistryConstants
          <5> QED BY <1>6, <5>1, <5>2
        <4> QED BY <1>6, <1>8, <3>1, <3>3, <3>4, <4>1, <4>2
      <3> QED BY <3>5, <3>6
    <2> QED BY <2>3, <2>4
  <1>10. NothingEmptyRegistered'
    <2>1. ASSUME NEW q \in Queries, registry'[q] # None
          PROVE  \E k \in Keys : reqs'[registry'[q]][k] > 0
      <3>1. CASE q = p.q
        BY <1>3, <1>6, <1>7, <1>8, <3>1
      <3>2. CASE q # p.q
        <4>1. registry'[q] = registry[q] /\ registry[q] \in SubIds \ {s}
          BY <1>6, <1>8, <2>1, <3>2
        <4> QED BY <1>6, <2>1, <4>1
                DEF IInv, Filing, NothingEmptyRegistered, HasSubscribingClient
      <3> QED BY <3>1, <3>2
    <2>2. classes' = {ClassOf[q] : q \in {x \in Queries : registry'[x] # None}}
      <3>1. classes = {ClassOf[q] : q \in {x \in Queries : registry[x] # None}}
        BY DEF IInv, Filing, NothingEmptyRegistered
      <3>2. {x \in Queries : registry'[x] # None}
              = {x \in Queries : registry[x] # None} \cup {p.q}
        BY <1>2, <1>6, <1>8, RegistryConstants
      <3> QED BY <1>5, <3>1, <3>2
    <2> QED BY <2>1, <2>2 DEF NothingEmptyRegistered, HasSubscribingClient
  <1>11. RegisteredUnderOwnQuery'
    BY <1>2, <1>6, <1>8 DEF IInv, Filing, RegisteredUnderOwnQuery
  <1>12. UnfiledIsEmpty'
    <2> SUFFICES ASSUME NEW t \in SubIds, \A q \in Queries : registry'[q] # t
                 PROVE  \A k \in Keys : reqs'[t][k] = 0
      BY DEF UnfiledIsEmpty
    <2>1. t # s
      BY <1>2, <1>6, <1>8
    <2>2. \A q \in Queries : registry[q] # t
      <3>1. registry[p.q] # t
        BY <1>6, <2>1, RegistryConstants
      <3> QED BY <1>2, <1>6, <1>8, <3>1
    <2> QED BY <1>6, <2>1, <2>2 DEF IInv, Filing, UnfiledIsEmpty
  <1> QED BY <1>9, <1>10, <1>11, <1>12 DEF Filing

-----------------------------------------------------------------------------
\* Whose client is whose, in the steps before and at the end of a suspension.
Known == OpenSocketHasClient /\ Identity /\ Fresh

LEMMA HandleConnectStep ==
  ASSUME IInv, NEW ws \in Sockets, NEW h \in Handlers, HandleConnect(ws, h)
  PROVE  Known' /\ Linked' /\ Filing'
  <1>1. PICK c \in ClientIds :
          /\ socket[c] = None
          /\ socket' = [socket EXCEPT ![c] = ws]
          /\ pend' = [pend EXCEPT ![h] = [op |-> "connect", ws |-> ws, client |-> c]]
    BY DEF HandleConnect, Start
  <1>2. UNCHANGED <<open, clientId, clients, infos, registry, classes, query, reqs>>
    BY DEF HandleConnect, tables
  <1>3. \A v \in Sockets : clientId[v] # c
    BY <1>1, RegistryConstants DEF IInv, Identity, TypeOK
  <1>4. ASSUME NEW g \in Handlers, Connecting(g) \/ Subscribing(g)
        PROVE  pend[g].client # c /\ pend[g].client \in ClientIds
    <2>1. socket[pend[g].client] = pend[g].ws
      BY <1>4 DEF IInv, Identity
    <2>2. pend[g].ws \in Sockets /\ pend[g].client \in ClientIds
      BY <1>4, JobTypes DEF IInv, ConnectJob, SubscribeJob
    <2> QED BY <1>1, <2>1, <2>2, RegistryConstants
  <1>5. /\ pend'[h] = [op |-> "connect", ws |-> ws, client |-> c]
        /\ \A g \in Handlers \ {h} : pend'[g] = pend[g]
        /\ socket'[c] = ws
        /\ \A d \in ClientIds \ {c} : socket'[d] = socket[d]
    BY <1>1 DEF IInv, TypeOK
  <1>6. OpenSocketHasClient'
    BY <1>2 DEF IInv, OpenSocketHasClient
  <1>7. Identity'
    <2>1. \A v \in Sockets : clientId'[v] # None => socket'[clientId'[v]] = v
      BY <1>2, <1>3, <1>5 DEF IInv, Identity, TypeOK
    <2>2. \A g \in Handlers : (Connecting(g) \/ Subscribing(g))' =>
            socket'[pend'[g].client] = pend'[g].ws
      BY <1>4, <1>5 DEF IInv, Identity, Connecting, Subscribing
    <2>3. \A g \in Handlers : Subscribing(g)' => clientId'[pend'[g].ws] # None
      BY <1>2, <1>5 DEF IInv, Identity, Subscribing
    <2> QED BY <2>1, <2>2, <2>3 DEF Identity
  <1>8. Fresh'
    <2>1. \A d \in ClientIds : socket'[d] = None => \A r \in Requests : infos'[d][r] = None
      BY <1>1, <1>2, <1>5, RegistryConstants DEF IInv, Fresh
    <2>2. ASSUME NEW g \in Handlers, Connecting(g)'
          PROVE  /\ \A r \in Requests : infos'[pend'[g].client][r] = None
                 /\ \A v \in Sockets : clientId'[v] # pend'[g].client
                 /\ \A f \in Handlers : (Connecting(f) \/ Subscribing(f))' /\ f # g =>
                      pend'[f].client # pend'[g].client
      <3>1. CASE g = h
        <4>1. pend'[g].client = c
          BY <1>5, <3>1
        <4> QED BY <1>1, <1>2, <1>3, <1>4, <1>5, <3>1, <4>1
                DEF IInv, Fresh, Connecting, Subscribing
      <3>2. CASE g # h
        <4>1. pend'[g] = pend[g] /\ Connecting(g)
          BY <1>5, <2>2, <3>2 DEF Connecting
        <4>2. pend[g].client # c
          BY <1>4, <4>1
        <4> QED BY <1>2, <1>5, <4>1, <4>2 DEF IInv, Fresh, Connecting, Subscribing
      <3> QED BY <3>1, <3>2
    <2> QED BY <2>1, <2>2 DEF Fresh
  <1>9. Linked' /\ Filing'
    BY <1>2, TablesUntouched DEF IInv, tables
  <1> QED BY <1>6, <1>7, <1>8, <1>9 DEF Known

LEMMA ConnectAcceptedStep ==
  ASSUME IInv, NEW h \in Handlers, ConnectAccepted(h)
  PROVE  Known' /\ Linked' /\ Filing'
  <1> DEFINE p == pend[h]
  <1>1. p \in ConnectJob /\ Connecting(h)
    BY JobTypes DEF ConnectAccepted, Connecting, IInv
  <1>2. p.ws \in Sockets /\ p.client \in ClientIds /\ socket[p.client] = p.ws
    BY <1>1 DEF ConnectJob, IInv, Identity
  <1>3. /\ clientId' = [clientId EXCEPT ![p.ws] = p.client]
        /\ clients' = clients \cup {p.client}
        /\ pend' = [pend EXCEPT ![h] = Idle]
        /\ UNCHANGED <<open, socket, infos, registry, classes, query, reqs>>
    BY DEF ConnectAccepted, Finish, tables
  <1>4. /\ \A g \in Handlers \ {h} : pend'[g] = pend[g]
        /\ ~Connecting(h)' /\ ~Subscribing(h)'
    BY <1>3 DEF IInv, TypeOK, Idle, Connecting, Subscribing
  <1>5. /\ clientId'[p.ws] = p.client
        /\ \A v \in Sockets \ {p.ws} : clientId'[v] = clientId[v]
    BY <1>2, <1>3 DEF IInv, TypeOK
  <1>6. \A r \in Requests : infos[p.client][r] = None
    BY <1>1 DEF IInv, Fresh
  <1>7. p.client # None
    BY <1>2, RegistryConstants
  <1>8. \A g \in Handlers : (Connecting(g) \/ Subscribing(g))' =>
          g # h /\ pend'[g] = pend[g] /\ (Connecting(g) \/ Subscribing(g))
                /\ pend[g].client # p.client
    BY <1>1, <1>4 DEF IInv, Fresh, Connecting, Subscribing
  <1> HIDE DEF p
  <1>9. OpenSocketHasClient'
    <2> SUFFICES ASSUME NEW v \in open, clientId'[v] # None PROVE clientId'[v] \in clients'
      BY <1>3 DEF OpenSocketHasClient
    <2>1. v \in Sockets
      BY DEF IInv, TypeOK
    <2> QED BY <1>3, <1>5, <2>1 DEF IInv, OpenSocketHasClient
  <1>10. Identity'
    <2>1. \A v \in Sockets : clientId'[v] # None => socket'[clientId'[v]] = v
      BY <1>2, <1>3, <1>5 DEF IInv, Identity
    <2>2. \A g \in Handlers : (Connecting(g) \/ Subscribing(g))' =>
            socket'[pend'[g].client] = pend'[g].ws
      BY <1>3, <1>8 DEF IInv, Identity
    <2>3. ASSUME NEW g \in Handlers, Subscribing(g)'
          PROVE  clientId'[pend'[g].ws] # None
      <3>1. pend'[g] = pend[g] /\ Subscribing(g)
        BY <1>8, <2>3 DEF Subscribing
      <3>2. pend[g].ws \in Sockets
        BY <3>1, JobTypes DEF IInv, SubscribeJob
      <3> QED BY <1>5, <1>7, <3>1, <3>2 DEF IInv, Identity
    <2> QED BY <2>1, <2>2, <2>3 DEF Identity
  <1>11. Fresh'
    <2>1. \A d \in ClientIds : socket'[d] = None => \A r \in Requests : infos'[d][r] = None
      BY <1>3 DEF IInv, Fresh
    <2>2. ASSUME NEW g \in Handlers, Connecting(g)'
          PROVE  /\ \A r \in Requests : infos'[pend'[g].client][r] = None
                 /\ \A v \in Sockets : clientId'[v] # pend'[g].client
                 /\ \A f \in Handlers : (Connecting(f) \/ Subscribing(f))' /\ f # g =>
                      pend'[f].client # pend'[g].client
      <3>1. g # h /\ pend'[g] = pend[g] /\ Connecting(g) /\ pend[g].client # p.client
        BY <1>8, <2>2 DEF Connecting
      <3>2. \A v \in Sockets : clientId'[v] # pend[g].client
        BY <1>5, <3>1 DEF IInv, Fresh
      <3> QED BY <1>3, <1>8, <3>1, <3>2 DEF IInv, Fresh
    <2> QED BY <2>1, <2>2 DEF Fresh
  <1>12. Linked' /\ Filing'
    <2>1. \A v \in open : clientId'[v] = clientId[v]
                          \/ \A r \in Requests : infos[clientId'[v]][r] = None
      BY <1>5, <1>6 DEF IInv, TypeOK
    <2> QED BY <1>3, <2>1, TablesUntouched DEF IInv, tables
  <1> QED BY <1>9, <1>10, <1>11, <1>12 DEF Known

\* A handler that ends, with the clients and the sockets as they were.
LEMMA FinishKnown ==
  ASSUME IInv, NEW h \in Handlers, Finish(h),
         UNCHANGED <<open, clientId, socket, clients>>,
         \A d \in ClientIds : (\A r \in Requests : infos[d][r] = None) =>
            \/ \A r \in Requests : infos'[d][r] = None
            \/ socket[d] # None /\ \A g \in Handlers : Connecting(g) => pend[g].client # d
  PROVE  Known'
  <1>1. /\ \A g \in Handlers \ {h} : pend'[g] = pend[g]
        /\ ~Connecting(h)' /\ ~Subscribing(h)'
    BY DEF Finish, IInv, TypeOK, Idle, Connecting, Subscribing
  <1>2. OpenSocketHasClient'
    BY DEF IInv, OpenSocketHasClient
  <1>3. Identity'
    BY <1>1 DEF IInv, Identity, Connecting, Subscribing
  <1>4. Fresh'
    <2>1. \A d \in ClientIds : socket'[d] = None => \A r \in Requests : infos'[d][r] = None
      BY DEF IInv, Fresh
    <2>2. ASSUME NEW g \in Handlers, Connecting(g)'
          PROVE  /\ \A r \in Requests : infos'[pend'[g].client][r] = None
                 /\ \A v \in Sockets : clientId'[v] # pend'[g].client
                 /\ \A f \in Handlers : (Connecting(f) \/ Subscribing(f))' /\ f # g =>
                      pend'[f].client # pend'[g].client
      <3>1. g # h /\ pend'[g] = pend[g] /\ Connecting(g)
        BY <1>1, <2>2 DEF Connecting
      <3>2. pend[g].client \in ClientIds
        BY <3>1, JobTypes DEF IInv, ConnectJob
      <3>3. \A r \in Requests : infos'[pend[g].client][r] = None
        BY <3>1, <3>2 DEF IInv, Fresh
      <3> QED BY <1>1, <3>1, <3>3 DEF IInv, Fresh, Connecting, Subscribing
    <2> QED BY <2>1, <2>2 DEF Fresh
  <1> QED BY <1>2, <1>3, <1>4 DEF Known

\* A handler that begins, or none, while clients at most forget requests.
LEMMA BeginKnown ==
  ASSUME IInv, NEW ws \in open, NEW r \in Requests,
         clientId[ws] \in clients,
         UNCHANGED <<open, clientId, socket, clients>>,
         \A d \in ClientIds, x \in Requests : infos[d][x] = None => infos'[d][x] = None,
         \/ pend' = pend
         \/ \E h \in Handlers, q \in Queries : BeginSubscribe(ws, r, q, h)
  PROVE  Known'
  <1>1. /\ ws \in Sockets /\ clientId[ws] \in ClientIds
        /\ clientId[ws] # None /\ socket[clientId[ws]] = ws
    BY RegistryConstants DEF IInv, TypeOK, Identity
  <1>2. ASSUME NEW g \in Handlers
        PROVE  /\ Connecting(g)' => pend'[g] = pend[g] /\ Connecting(g)
               /\ Subscribing(g)' =>
                    \/ pend'[g] = pend[g] /\ Subscribing(g)
                    \/ pend'[g].ws = ws /\ pend'[g].client = clientId[ws]
    <2>1. CASE pend' = pend
      BY <2>1 DEF Connecting, Subscribing
    <2>2. CASE \E h \in Handlers, q \in Queries : BeginSubscribe(ws, r, q, h)
      <3>1. PICK h \in Handlers, q \in Queries :
              pend' = [pend EXCEPT ![h] = [op |-> "subscribe", ws |-> ws,
                         client |-> clientId[ws], req |-> r, q |-> q]]
        BY <2>2 DEF BeginSubscribe, Start
      <3>2. CASE g = h
        BY <3>1, <3>2 DEF IInv, TypeOK, Connecting, Subscribing
      <3>3. CASE g # h
        BY <3>1, <3>3 DEF IInv, TypeOK, Connecting, Subscribing
      <3> QED BY <3>2, <3>3
    <2> QED BY <2>1, <2>2
  <1>3. OpenSocketHasClient'
    BY DEF IInv, OpenSocketHasClient
  <1>4. Identity'
    BY <1>1, <1>2 DEF IInv, Identity
  <1>5. Fresh'
    <2>1. \A d \in ClientIds : socket'[d] = None => \A x \in Requests : infos'[d][x] = None
      BY DEF IInv, Fresh
    <2>2. ASSUME NEW g \in Handlers, Connecting(g)'
          PROVE  /\ \A x \in Requests : infos'[pend'[g].client][x] = None
                 /\ \A v \in Sockets : clientId'[v] # pend'[g].client
                 /\ \A f \in Handlers : (Connecting(f) \/ Subscribing(f))' /\ f # g =>
                      pend'[f].client # pend'[g].client
      <3>1. pend'[g] = pend[g] /\ Connecting(g)
        BY <1>2, <2>2
      <3>2. pend[g].client \in ClientIds /\ pend[g].client # clientId[ws]
        BY <1>1, <3>1, JobTypes DEF IInv, ConnectJob, Fresh
      <3>3. ASSUME NEW f \in Handlers, (Connecting(f) \/ Subscribing(f))', f # g
            PROVE  pend'[f].client # pend'[g].client
        BY <1>2, <3>1, <3>2, <3>3 DEF IInv, Fresh
      <3> QED BY <3>1, <3>2, <3>3 DEF IInv, Fresh
    <2> QED BY <2>1, <2>2 DEF Fresh
  <1> QED BY <1>3, <1>4, <1>5 DEF Known

LEMMA UnsubscribeStep ==
  ASSUME IInv, NEW ws \in open, NEW r \in Requests, clientId[ws] \in clients,
         Unsubscribe(ws, r), UNCHANGED <<open, clientId>>
  PROVE  /\ Linked' /\ Filing'
         /\ \A d \in ClientIds, x \in Requests : infos[d][x] = None => infos'[d][x] = None
  <1> DEFINE c == clientId[ws]
  <1>1. /\ infos[c][r] # None /\ DropRequests(c, {r})
        /\ infos' = [infos EXCEPT ![c][r] = None]
    BY DEF Unsubscribe
  <1>2. c \in ClientIds /\ infos \in [ClientIds -> [Requests -> SubIds \cup {None}]]
    BY DEF IInv, TypeOK
  <1>3. /\ TypeOK /\ Linked /\ Filing
        /\ {r} \in SUBSET Requests /\ \A x \in {r} : infos[c][x] # None
    BY <1>1 DEF IInv
  <1>4. Filing'
    BY <1>1, <1>2, <1>3, DropEffect
  <1>5. /\ infos'[c][r] = None
        /\ \A d \in ClientIds, x \in Requests : d # c \/ x # r => infos'[d][x] = infos[d][x]
    BY <1>1, <1>2
  <1>6. Linked'
    <2> SUFFICES ASSUME NEW v \in open, NEW x \in Requests,
                        clientId[v] # None, infos'[clientId[v]][x] # None
                 PROVE  LET s == infos'[clientId[v]][x] IN
                        /\ query'[s] # None
                        /\ registry'[query'[s]] = s
                        /\ reqs'[s][<<clientId[v], x>>] > 0
      BY DEF Linked
    <2>1. clientId[v] \in ClientIds
      BY DEF IInv, TypeOK
    <2>2. clientId[v] # c \/ x \notin {r}
      BY <1>5
    <2>3. infos'[clientId[v]][x] = infos[clientId[v]][x]
      BY <1>5, <2>1, <2>2
    <2>4. infos[clientId[v]][x] # None
      BY <2>3
    <2>5. LET s == infos[clientId[v]][x] IN
          /\ query'[s] # None
          /\ registry'[query'[s]] = s
          /\ reqs'[s][<<clientId[v], x>>] > 0
      BY <1>1, <1>2, <1>3, <2>2, <2>4, OthersStayLinked
    <2> QED BY <2>3, <2>5
  <1> QED BY <1>2, <1>4, <1>5, <1>6

LEMMA DisconnectStep ==
  ASSUME IInv, NEW ws \in Sockets, Disconnect(ws)
  PROVE  Known' /\ Linked' /\ Filing'
  <1> DEFINE c == clientId[ws]
             R == {r \in Requests : infos[c][r] # None}
  <1>1. /\ ws \in open /\ open' = open \ {ws}
        /\ UNCHANGED <<clientId, socket, pend, infos>>
    BY DEF Disconnect, tables
  <1>2. clients \ {c} \subseteq clients'
    BY DEF Disconnect
  <1>3. ASSUME NEW v \in open', clientId[v] # None
        PROVE  v \in open /\ clientId[v] # c /\ clientId[v] \in clients
    BY <1>1, <1>3 DEF IInv, TypeOK, Identity, OpenSocketHasClient
  <1>4. Known'
    <2>1. OpenSocketHasClient'
      BY <1>1, <1>2, <1>3 DEF OpenSocketHasClient
    <2>2. Identity' /\ Fresh'
      BY <1>1 DEF IInv, Identity, Fresh, Connecting, Subscribing
    <2> QED BY <2>1, <2>2 DEF Known
  <1>5. Linked' /\ Filing'
    <2>1. CASE UNCHANGED tables
      BY <1>1, <2>1, TablesUntouched DEF IInv
    <2>2. CASE c \in clients /\ DropRequests(c, R)
      <3>1. c \in ClientIds
        BY <2>2 DEF IInv, TypeOK
      <3>2. Filing'
        BY <1>1, <2>2, <3>1, DropEffect DEF IInv
      <3>3. Linked'
        <4> SUFFICES ASSUME NEW v \in open', NEW x \in Requests,
                            clientId[v] # None, infos[clientId[v]][x] # None
                     PROVE  LET s == infos[clientId[v]][x] IN
                            /\ query'[s] # None
                            /\ registry'[query'[s]] = s
                            /\ reqs'[s][<<clientId[v], x>>] > 0
          BY <1>1 DEF Linked
        <4>1. v \in open /\ clientId[v] # c
          BY <1>3
        <4> QED BY <1>1, <2>2, <3>1, <4>1, OthersStayLinked DEF IInv
      <3> QED BY <3>2, <3>3
    <2> QED BY <2>1, <2>2 DEF Disconnect
  <1> QED BY <1>4, <1>5

-----------------------------------------------------------------------------
LEMMA InitIInv == Init => IInv
  <1> SUFFICES ASSUME Init PROVE IInv
    OBVIOUS
  <1>1. TypeOK
    BY DEF Init, TypeOK, Idle, Keys
  <1>2. OpenSocketHasClient /\ Linked
    BY DEF Init, OpenSocketHasClient, Linked, TypeOK
  <1>3. Identity /\ Fresh
    BY DEF Init, Identity, Fresh, Connecting, Subscribing, Idle
  <1>4. Filing
    BY DEF Init, Filing, NothingEmptyRegistered, RegisteredUnderOwnQuery, UnfiledIsEmpty
  <1> QED BY <1>1, <1>2, <1>3, <1>4 DEF IInv

LEMMA NextIInv == IInv /\ TypeOK' /\ [Next]_vars => IInv'
  <1> SUFFICES ASSUME IInv, TypeOK', [Next]_vars PROVE Known' /\ Linked' /\ Filing'
    BY DEF IInv, Known
  <1>1. ASSUME NEW ws \in Sockets, NEW h \in Handlers, HandleConnect(ws, h)
        PROVE  Known' /\ Linked' /\ Filing'
    BY <1>1, HandleConnectStep
  <1>2. ASSUME NEW h \in Handlers, ConnectAccepted(h)
        PROVE  Known' /\ Linked' /\ Filing'
    BY <1>2, ConnectAcceptedStep
  <1>3. ASSUME NEW h \in Handlers, TriggerRejected(h)
        PROVE  Known' /\ Linked' /\ Filing'
    <2>1. Known'
      BY <1>3, FinishKnown DEF TriggerRejected, tables
    <2> QED BY <1>3, <2>1, TablesUntouched DEF TriggerRejected, IInv
  <1>4. ASSUME NEW ws \in Sockets, NEW r \in Requests, NEW q \in Queries,
               NEW h \in Handlers, HandleSubscribe(ws, r, q, h)
        PROVE  Known' /\ Linked' /\ Filing'
    <2>1. Known'
      BY <1>4, BeginKnown DEF HandleSubscribe, tables
    <2> QED BY <1>4, <2>1, TablesUntouched DEF HandleSubscribe, IInv
  <1>5. ASSUME NEW h \in Handlers, SubscribeAccepted(h)
        PROVE  Known' /\ Linked' /\ Filing'
    <2> DEFINE p == pend[h]
    <2>1. p \in SubscribeJob /\ Subscribing(h)
      BY <1>5, JobTypes DEF SubscribeAccepted, Subscribing, IInv
    <2>2. p.client \in ClientIds /\ socket[p.client] = p.ws /\ p.ws \in Sockets
      BY <2>1 DEF SubscribeJob, IInv, Identity
    <2>3. \A g \in Handlers : Connecting(g) => pend[g].client # p.client
      BY <2>1 DEF IInv, Fresh, Connecting, Subscribing
    <2>4. \A d \in ClientIds : d # p.client => infos'[d] = infos[d]
      BY <1>5, <2>2 DEF SubscribeAccepted, IInv, TypeOK
    <2>5. Known'
      <3>1. Finish(h) /\ UNCHANGED <<open, clientId, socket, clients>>
        BY <1>5 DEF SubscribeAccepted
      <3> QED BY <2>2, <2>3, <2>4, <3>1, FinishKnown, RegistryConstants
    <2> QED BY <1>5, <2>5, SubscribeAcceptedStep
  <1>6. ASSUME NEW ws \in Sockets, NEW r \in Requests, HandleUnsubscribe(ws, r)
        PROVE  Known' /\ Linked' /\ Filing'
    <2>1. /\ ws \in open /\ clientId[ws] \in clients /\ Unsubscribe(ws, r)
          /\ UNCHANGED <<open, clientId, socket, clients, pend>>
      BY <1>6 DEF HandleUnsubscribe
    <2>2. /\ Linked' /\ Filing'
          /\ \A d \in ClientIds, x \in Requests : infos[d][x] = None => infos'[d][x] = None
      BY <2>1, UnsubscribeStep
    <2>3. Known'
      BY <2>1, <2>2, BeginKnown
    <2> QED BY <2>2, <2>3
  <1>7. ASSUME NEW ws \in Sockets, NEW r \in Requests, NEW q \in Queries,
               NEW h \in Handlers, HandleUpdateSubscription(ws, r, q, h)
        PROVE  Known' /\ Linked' /\ Filing'
    <2>1. /\ ws \in open /\ clientId[ws] \in clients
          /\ UNCHANGED <<open, clientId, socket, clients>>
          /\ BeginSubscribe(ws, r, q, h)
          /\ Unsubscribe(ws, r) \/ UNCHANGED tables
      BY <1>7 DEF HandleUpdateSubscription
    <2>2. /\ Linked' /\ Filing'
          /\ \A d \in ClientIds, x \in Requests : infos[d][x] = None => infos'[d][x] = None
      <3>1. CASE Unsubscribe(ws, r)
        BY <2>1, <3>1, UnsubscribeStep
      <3>2. CASE UNCHANGED tables
        BY <2>1, <3>2, TablesUntouched DEF IInv, tables
      <3> QED BY <2>1, <3>1, <3>2
    <2> QED BY <2>1, <2>2, BeginKnown
  <1>8. ASSUME NEW ws \in Sockets, Disconnect(ws)
        PROVE  Known' /\ Linked' /\ Filing'
    BY <1>8, DisconnectStep
  <1>9. CASE UNCHANGED vars
    <2>1. Known'
      BY <1>9 DEF vars, IInv, Known, OpenSocketHasClient, Identity, Fresh,
                  Connecting, Subscribing
    <2> QED BY <1>9, <2>1, TablesUntouched DEF vars, tables, IInv
  <1> QED BY <1>1, <1>2, <1>3, <1>4, <1>5, <1>6, <1>7, <1>8, <1>9 DEF Next

\* The inductive invariant holds in every reachable state.
THEOREM Invariance == Spec => []IInv
  <1>1. Spec => []TypeOK
    BY TypeCorrect
  <1> QED BY <1>1, InitIInv, NextIInv, PTL DEF Spec

\* A socket that delivers messages and was given a client id has its client in
\* the map: the branches for a missing client are dead code.
THEOREM OpenSocketsServed == Spec => []OpenSocketHasClient
  <1>1. IInv => OpenSocketHasClient
    BY DEF IInv
  <1> QED BY <1>1, Invariance, PTL

\* Unsubscribe and disconnect find the subscription they take from a client
\* registered, in the class's map, with the request listed.
THEOREM ReferencesAreRegistered == Spec => []ReferencedIsRegistered
  <1>1. IInv => ReferencedIsRegistered
    <2> SUFFICES ASSUME IInv, NEW c \in clients, NEW r \in Requests, Serving(c),
                        infos[c][r] # None
                 PROVE  LET s == infos[c][r] IN
                        /\ query[s] # None
                        /\ registry[query[s]] = s
                        /\ reqs[s][<<c, r>>] > 0
      BY DEF ReferencedIsRegistered
    <2>1. PICK ws \in open : clientId[ws] = c
      BY DEF Serving
    <2>2. c # None
      BY RegistryConstants DEF IInv, TypeOK
    <2> QED BY <2>1, <2>2 DEF IInv, Linked
  <1> QED BY <1>1, Invariance, PTL

\* No subscription without a client and no class without a subscription stays
\* registered after any handler.
THEOREM NothingEmptyStays == Spec => []NothingEmptyRegistered
  <1>1. IInv => NothingEmptyRegistered
    BY DEF IInv, Filing
  <1> QED BY <1>1, Invariance, PTL

\* A step adds to and takes from what one client has listed, and leaves every
\* other client's requests alone, whatever ids and queries they share.
THEOREM StepsServeOneClient == Spec => OneClientPerStep
  <1>1. ASSUME IInv, NEW h \in Handlers, SubscribeAccepted(h)
        PROVE  RequestsOfOneClient
    <2> DEFINE p == pend[h]
               key == <<clientId[p.ws], p.req>>
    <2>1. p \in SubscribeJob
      BY <1>1, JobTypes DEF SubscribeAccepted, Subscribing, IInv
    <2>2. clientId[p.ws] \in ClientIds \cup {None}
      BY <1>1, <2>1 DEF IInv, TypeOK, SubscribeJob
    <2>3. PICK s \in SubIds :
            \/ reqs' = [reqs EXCEPT ![s][key] = @ + 1]
            \/ /\ Unreachable(s)
               /\ reqs' = [reqs EXCEPT ![s] = [k \in Keys |-> IF k = key THEN 1 ELSE 0]]
      BY <1>1 DEF SubscribeAccepted
    <2>4. reqs \in [SubIds -> [Keys -> Nat]]
      BY <1>1 DEF IInv, TypeOK
    <2>5. ASSUME NEW t \in SubIds, NEW k \in Keys, k[1] # clientId[p.ws]
          PROVE  reqs'[t][k] = reqs[t][k]
      <3>1. k # key
        BY <2>5
      <3> HIDE DEF p, key
      <3>2. CASE reqs' = [reqs EXCEPT ![s][key] = @ + 1]
        BY <2>4, <3>1, <3>2
      <3>3. CASE Unreachable(s) /\ reqs' = [reqs EXCEPT ![s] =
                              [j \in Keys |-> IF j = key THEN 1 ELSE 0]]
        <4>1. reqs[s][k] = 0
          BY <1>1, <3>3 DEF Unreachable, IInv, Filing, UnfiledIsEmpty
        <4> QED BY <2>4, <3>1, <3>3, <4>1
      <3> QED BY <2>3, <3>2, <3>3
    <2> QED BY <2>2, <2>5 DEF RequestsOfOneClient
  <1>2. ASSUME TypeOK, Linked, Filing, NEW ws \in open, clientId[ws] \in clients,
               NEW R \in SUBSET Requests, \A r \in R : infos[clientId[ws]][r] # None,
               DropRequests(clientId[ws], R)
        PROVE  RequestsOfOneClient
    <2>1. clientId[ws] \in ClientIds
      BY <1>2 DEF TypeOK
    <2>2. \A s \in SubIds, k \in Keys : k[1] # clientId[ws] => reqs'[s][k] = reqs[s][k]
      BY <1>2, <2>1, DropEffect
    <2> QED BY <2>1, <2>2 DEF RequestsOfOneClient
  <1>3. ASSUME IInv, NEW ws \in open, NEW r \in Requests, clientId[ws] \in clients,
               Unsubscribe(ws, r)
        PROVE  RequestsOfOneClient
    <2>1. /\ {r} \in SUBSET Requests /\ \A x \in {r} : infos[clientId[ws]][x] # None
          /\ DropRequests(clientId[ws], {r})
      BY <1>3 DEF Unsubscribe
    <2>2. TypeOK /\ Linked /\ Filing
      BY <1>3 DEF IInv
    <2> QED BY <1>2, <1>3, <2>1, <2>2
  <1>4. ASSUME IInv, NEW ws \in Sockets, Disconnect(ws)
        PROVE  RequestsOfOneClient
    <2> DEFINE R == {r \in Requests : infos[clientId[ws]][r] # None}
    <2>1. CASE UNCHANGED tables
      BY <2>1 DEF tables, RequestsOfOneClient
    <2>2. CASE clientId[ws] \in clients /\ DropRequests(clientId[ws], R)
      <3>1. R \in SUBSET Requests /\ \A x \in R : infos[clientId[ws]][x] # None
        OBVIOUS
      <3>2. ws \in open /\ TypeOK /\ Linked /\ Filing
        BY <1>4 DEF IInv, Disconnect
      <3> HIDE DEF R
      <3> QED BY <1>2, <2>2, <3>1, <3>2
    <2> QED BY <1>4, <2>1, <2>2 DEF Disconnect
  <1>5. ASSUME UNCHANGED reqs PROVE RequestsOfOneClient
    BY <1>5 DEF RequestsOfOneClient
  <1>6. IInv /\ [Next]_vars => [RequestsOfOneClient]_vars
    <2> SUFFICES ASSUME IInv, Next PROVE RequestsOfOneClient
      OBVIOUS
    <2>1. ASSUME NEW ws \in Sockets, NEW h \in Handlers, HandleConnect(ws, h)
          PROVE  UNCHANGED reqs
      BY <2>1 DEF HandleConnect, tables
    <2>2. ASSUME NEW h \in Handlers, ConnectAccepted(h) \/ TriggerRejected(h)
          PROVE  UNCHANGED reqs
      BY <2>2 DEF ConnectAccepted, TriggerRejected, tables
    <2>3. ASSUME NEW ws \in Sockets, NEW r \in Requests, NEW q \in Queries,
                 NEW h \in Handlers, HandleSubscribe(ws, r, q, h)
          PROVE  UNCHANGED reqs
      BY <2>3 DEF HandleSubscribe, tables
    <2>4. ASSUME NEW ws \in Sockets, NEW r \in Requests, HandleUnsubscribe(ws, r)
          PROVE  RequestsOfOneClient
      BY <1>3, <2>4 DEF HandleUnsubscribe
    <2>5. ASSUME NEW ws \in Sockets, NEW r \in Requests, NEW q \in Queries,
                 NEW h \in Handlers, HandleUpdateSubscription(ws, r, q, h)
          PROVE  RequestsOfOneClient
      BY <1>3, <1>5, <2>5 DEF HandleUpdateSubscription, tables
    <2> QED BY <1>1, <1>4, <1>5, <2>1, <2>2, <2>3, <2>4, <2>5 DEF Next
  <1> QED BY <1>6, Invariance, PTL DEF Spec, OneClientPerStep

-----------------------------------------------------------------------------
(***************************************************************************)
(* Without triggers, and with SDKs that use a request id for one           *)
(* subscription at a time, the registry implements LiveQueryTable, also    *)
(* when a socket connects again.  What the mapping needs beyond IInv is    *)
(* that lists and clients name each other: a listed request is known to    *)
(* its client, once, and whoever is about to subscribe has its client and  *)
(* is not listed yet.                                                      *)
(***************************************************************************)
\* A handler that no trigger suspends goes on before another one begins.
OnePending ==
  \A g, h \in Handlers : (Connecting(g) \/ Subscribing(g)) /\ (Connecting(h) \/ Subscribing(h)) => g = h

\* A client comes into the map when its handler goes on, not before.
Arrivals ==
  /\ \A c \in clients : socket[c] # None
  /\ \A h \in Handlers : Connecting(h) => pend[h].client \notin clients

\* A subscribe goes on with the socket and client it began with, and under a request
\* id that is in no list.
Subscribers ==
  \A h \in Handlers : Subscribing(h) =>
    /\ clientId[pend[h].ws] = pend[h].client /\ pend[h].client \in clients
    /\ \A s \in SubIds : reqs[s][<<pend[h].client, pend[h].req>>] = 0

\* A request is listed once, at the subscription its client knows it by.
Listed(s, c, r) == reqs[s][<<c, r>>] <= 1 /\ (reqs[s][<<c, r>>] > 0 => infos[c][r] = s)
ListedIsKnown == \A s \in SubIds, c \in ClientIds, r \in Requests : Listed(s, c, r)

PlainInv == OnePending /\ Arrivals /\ Subscribers /\ ListedIsKnown

\* Events matching q go to client c as request r.
Gets(c, r, q) == registry[q] # None /\ reqs[registry[q]][<<c, r>>] > 0
Delivers == {d \in ClientIds \X Requests \X Queries : Gets(d[1], d[2], d[3])}

LEMMA PlainInit == Init => PlainInv
  <1> SUFFICES ASSUME Init PROVE PlainInv
    OBVIOUS
  <1>1. \A h \in Handlers : ~Connecting(h) /\ ~Subscribing(h)
    BY DEF Init, Connecting, Subscribing, Idle
  <1>2. \A s \in SubIds, c \in ClientIds, r \in Requests : reqs[s][<<c, r>>] = 0
    BY DEF Init, Keys
  <1>3. clients = {}
    BY DEF Init
  <1>4. OnePending /\ Arrivals /\ Subscribers
    BY <1>1, <1>3 DEF OnePending, Arrivals, Subscribers
  <1>5. ASSUME NEW s \in SubIds, NEW c \in ClientIds, NEW r \in Requests
        PROVE  Listed(s, c, r)
    <2>1. reqs[s][<<c, r>>] = 0
      BY <1>2
    <2> QED BY <2>1 DEF Listed
  <1> QED BY <1>4, <1>5 DEF PlainInv, ListedIsKnown

\* Dropping the requests of a client takes them off every list.
LEMMA DropLists ==
  ASSUME IInv, ListedIsKnown, NEW ws \in open, clientId[ws] \in clients,
         NEW R \in SUBSET Requests, \A r \in R : infos[clientId[ws]][r] # None,
         DropRequests(clientId[ws], R)
  PROVE  /\ \A s \in SubIds, c \in ClientIds, r \in Requests :
              reqs'[s][<<c, r>>] = IF c = clientId[ws] /\ r \in R THEN 0 ELSE reqs[s][<<c, r>>]
         /\ \A c \in ClientIds, r \in Requests, q \in Queries :
              Gets(c, r, q)' <=> Gets(c, r, q) /\ ~(c = clientId[ws] /\ r \in R)
  <1>1. TypeOK /\ Linked /\ Filing /\ clientId[ws] \in ClientIds
    BY DEF IInv, TypeOK
  <1>2. /\ registry \in [Queries -> SubIds \cup {None}]
        /\ reqs \in [SubIds -> [Keys -> Nat]]
    BY <1>1 DEF TypeOK
  <1>3. ASSUME NEW s \in SubIds, NEW c \in ClientIds, NEW r \in Requests
        PROVE  reqs'[s][<<c, r>>] = IF c = clientId[ws] /\ r \in R THEN 0 ELSE reqs[s][<<c, r>>]
    <2> DEFINE k == <<c, r>>
    <2>1. k \in Keys /\ k[1] = c /\ k[2] = r
      BY DEF Keys
    <2>2. reqs'[s][k] = IF k[1] = clientId[ws] /\ k[2] \in R /\ infos[clientId[ws]][k[2]] = s /\ reqs[s][k] > 0
                        THEN reqs[s][k] - 1 ELSE reqs[s][k]
      BY <2>1 DEF DropRequests
    <2>3. reqs[s][k] \in Nat /\ reqs[s][k] <= 1 /\ (reqs[s][k] > 0 => infos[c][r] = s)
      BY <1>2, <2>1 DEF ListedIsKnown, Listed
    <2> HIDE DEF k
    <2>4. reqs'[s][k] = IF c = clientId[ws] /\ r \in R THEN 0 ELSE reqs[s][k]
      BY <2>1, <2>2, <2>3
    <2> QED BY <2>4 DEF k
  <1>4. ASSUME NEW c \in ClientIds, NEW r \in Requests, NEW q \in Queries
        PROVE  Gets(c, r, q)' <=> Gets(c, r, q) /\ ~(c = clientId[ws] /\ r \in R)
    <2> DEFINE k == <<c, r>>
    <2>1. k \in Keys
      BY DEF Keys
    <2>2. \/ registry'[q] = registry[q]
          \/ /\ registry[q] \in SubIds
             /\ registry'[q] = None
             /\ \A j \in Keys : reqs'[registry[q]][j] = 0
      BY <1>1, DropEffect
    <2>3. registry[q] # None =>
            reqs'[registry[q]][k] = IF c = clientId[ws] /\ r \in R THEN 0 ELSE reqs[registry[q]][k]
      BY <1>2, <1>3
    <2>4. CASE registry'[q] = registry[q]
      BY <2>3, <2>4 DEF Gets
    <2>5. CASE registry[q] \in SubIds /\ registry'[q] = None /\ reqs'[registry[q]][k] = 0
      BY <2>3, <2>5, RegistryConstants DEF Gets
    <2> QED BY <2>1, <2>2, <2>4, <2>5
  <1> QED BY <1>3, <1>4

\* A subscribe that goes on adds its own request, which was in no list, to those of the
\* query.
LEMMA FilingLists ==
  ASSUME IInv, PlainInv, NEW h \in Handlers, SubscribeAccepted(h)
  PROVE  /\ ListedIsKnown'
         /\ pend[h].client \in clients
         /\ \A q \in Queries : ~Gets(pend[h].client, pend[h].req, q)
         /\ \A c \in ClientIds, r \in Requests, q \in Queries :
              Gets(c, r, q)' <=> Gets(c, r, q) \/ (c = pend[h].client /\ r = pend[h].req /\ q = pend[h].q)
  <1> DEFINE p == pend[h]
             key == <<p.client, p.req>>
  <1>1. p \in SubscribeJob /\ Subscribing(h)
    BY JobTypes DEF SubscribeAccepted, Subscribing, IInv
  <1>2. p.q \in Queries /\ p.client \in ClientIds /\ p.req \in Requests /\ p.ws \in Sockets
    BY <1>1 DEF SubscribeJob
  <1>3. /\ clientId[p.ws] = p.client /\ p.client \in clients
        /\ \A s \in SubIds : reqs[s][key] = 0
    BY <1>1 DEF PlainInv, Subscribers
  <1>4. PICK t \in SubIds : Files(p, t)
    BY SubscribeEffect
  <1>5. /\ registry' = [registry EXCEPT ![p.q] = t]
        /\ registry[p.q] \in {t, None}
        /\ \A q \in Queries \ {p.q} : registry[q] # t
        /\ infos' = [infos EXCEPT ![p.client][p.req] = t]
        /\ reqs'[t][key] = reqs[t][key] + 1
        /\ \A k \in Keys : k # key => reqs'[t][k] = reqs[t][k]
        /\ \A s \in SubIds \ {t} : reqs'[s] = reqs[s]
    BY <1>3, <1>4 DEF Files
  <1>6. /\ registry \in [Queries -> SubIds \cup {None}]
        /\ infos \in [ClientIds -> [Requests -> SubIds \cup {None}]]
    BY DEF IInv, TypeOK
  <1> HIDE DEF p
  <1>7. ASSUME NEW s \in SubIds, NEW c \in ClientIds, NEW r \in Requests
        PROVE  reqs'[s][<<c, r>>] = IF s = t /\ c = p.client /\ r = p.req THEN 1 ELSE reqs[s][<<c, r>>]
    <2>1. <<c, r>> \in Keys
      BY DEF Keys
    <2>2. CASE c = p.client /\ r = p.req
      BY <1>3, <1>5, <2>2
    <2>3. CASE ~(c = p.client /\ r = p.req)
      <3>1. <<c, r>> # key
        BY <2>3
      <3> QED BY <1>5, <2>1, <2>3, <3>1
    <2> QED BY <2>2, <2>3
  <1>8. ListedIsKnown'
    <2> SUFFICES ASSUME NEW s \in SubIds, NEW c \in ClientIds, NEW r \in Requests
                 PROVE  Listed(s, c, r)'
      BY DEF ListedIsKnown
    <2>1. reqs[s][<<c, r>>] <= 1 /\ (reqs[s][<<c, r>>] > 0 => infos[c][r] = s)
      BY DEF PlainInv, ListedIsKnown, Listed
    <2>2. CASE c = p.client /\ r = p.req
      <3>1. infos'[c][r] = t
        BY <1>2, <1>5, <1>6, <2>2
      <3>2. reqs[s][<<c, r>>] = 0
        BY <1>3, <2>2
      <3> QED BY <1>7, <2>2, <3>1, <3>2 DEF Listed
    <2>3. CASE ~(c = p.client /\ r = p.req)
      <3>1. infos'[c][r] = infos[c][r]
        BY <1>2, <1>5, <1>6, <2>3
      <3> QED BY <1>7, <2>1, <2>3, <3>1 DEF Listed
    <2> QED BY <2>2, <2>3
  <1>9. \A q \in Queries : ~Gets(p.client, p.req, q)
    BY <1>3, <1>6 DEF Gets
  <1>10. ASSUME NEW c \in ClientIds, NEW r \in Requests, NEW q \in Queries
         PROVE  Gets(c, r, q)' <=> Gets(c, r, q) \/ (c = p.client /\ r = p.req /\ q = p.q)
    <2>1. CASE q = p.q
      <3>1. registry'[q] = t /\ t # None
        BY <1>2, <1>5, <1>6, <2>1, RegistryConstants
      <3>2. CASE registry[q] = t
        BY <1>7, <2>1, <3>1, <3>2 DEF Gets
      <3>3. CASE registry[q] = None
        <4>1. \A z \in Queries : registry[z] # t
          BY <1>5, <2>1, <3>1, <3>3
        <4>2. reqs[t][<<c, r>>] = 0
          BY <4>1 DEF IInv, Filing, UnfiledIsEmpty, Keys
        <4> QED BY <1>7, <2>1, <3>1, <3>3, <4>2 DEF Gets
      <3> QED BY <1>5, <2>1, <3>2, <3>3
    <2>2. CASE q # p.q
      <3>1. registry'[q] = registry[q] /\ registry[q] # t
        BY <1>5, <1>6, <2>2
      <3> QED BY <1>6, <1>7, <2>2, <3>1 DEF Gets
    <2> QED BY <2>1, <2>2
  <1> QED BY <1>3, <1>8, <1>9, <1>10 DEF p

-----------------------------------------------------------------------------
\* Without triggers nothing is pending when a socket event is handled.
LEMMA NothingPends ==
  ASSUME Triggers = {}, MacrotaskTurn, NEW h \in Handlers
  PROVE  ~Connecting(h) /\ ~Subscribing(h)
  BY DEF MacrotaskTurn, Connecting, Subscribing

\* The one handler that is pending has finished.
LEMMA OneFinishes ==
  ASSUME IInv, OnePending, NEW h \in Handlers, Connecting(h) \/ Subscribing(h), Finish(h)
  PROVE  \A g \in Handlers : ~Connecting(g)' /\ ~Subscribing(g)'
  <1>1. \A g \in Handlers \ {h} : pend'[g] = pend[g]
    BY DEF Finish, IInv, TypeOK
  <1>2. pend'[h] = Idle
    BY DEF Finish, IInv, TypeOK
  <1>3. ~Connecting(h)' /\ ~Subscribing(h)'
    BY <1>2 DEF Connecting, Subscribing, Idle
  <1>4. ASSUME NEW g \in Handlers, g # h PROVE ~Connecting(g)' /\ ~Subscribing(g)'
    BY <1>1, <1>4 DEF OnePending, Connecting, Subscribing
  <1> QED BY <1>3, <1>4

\* A socket event that begins no handler keeps the invariant if the lists stay known.
LEMMA QuietKeeps ==
  ASSUME PlainInv, UNCHANGED <<clientId, socket, pend>>, clients' \subseteq clients,
         \A h \in Handlers : ~Connecting(h) /\ ~Subscribing(h), ListedIsKnown'
  PROVE  PlainInv'
  BY DEF PlainInv, OnePending, Arrivals, Subscribers, Connecting, Subscribing

\* So does one that begins a subscribe under a request id that no list has.
LEMMA BeginKeeps ==
  ASSUME IInv, PlainInv, NEW ws \in open, clientId[ws] \in clients,
         NEW h \in Handlers, NEW r \in Requests, NEW q \in Queries,
         \A g \in Handlers : ~Connecting(g) /\ ~Subscribing(g),
         Start(h, [op |-> "subscribe", ws |-> ws, client |-> clientId[ws], req |-> r, q |-> q]),
         UNCHANGED <<open, clientId, socket, clients>>, ListedIsKnown',
         \A s \in SubIds : reqs'[s][<<clientId[ws], r>>] = 0
  PROVE  PlainInv'
  <1>1. /\ \A g \in Handlers \ {h} : pend'[g] = pend[g]
        /\ pend'[h] = [op |-> "subscribe", ws |-> ws, client |-> clientId[ws], req |-> r, q |-> q]
    BY DEF Start, IInv, TypeOK
  <1>2. \A g \in Handlers : ~Connecting(g)' /\ (Subscribing(g)' => g = h)
    BY <1>1 DEF Connecting, Subscribing
  <1>3. OnePending' /\ Arrivals'
    BY <1>2 DEF OnePending, PlainInv, Arrivals
  <1>4. Subscribers'
    BY <1>1, <1>2 DEF Subscribers
  <1> QED BY <1>3, <1>4 DEF PlainInv

\* What a step does to the promised table: nothing, or what the table allows.
Same == clients' = clients /\ \A c \in ClientIds, r \in Requests, q \in Queries : Gets(c, r, q)' <=> Gets(c, r, q)
Dropped(c, R) == \A d \in ClientIds, r \in Requests, q \in Queries :
  Gets(d, r, q)' <=> Gets(d, r, q) /\ ~(d = c /\ r \in R)

LEMMA SameIs ==
  ASSUME UNCHANGED <<clients, tables>>
  PROVE  Same /\ (ListedIsKnown => ListedIsKnown')
  BY DEF Same, Gets, tables, ListedIsKnown, Listed

LEMMA ConnectPlain ==
  ASSUME IInv, PlainInv, Triggers = {}, NEW ws \in Sockets, NEW h \in Handlers, HandleConnect(ws, h)
  PROVE  PlainInv' /\ Same
  <1>1. PICK c \in ClientIds :
          /\ socket[c] = None
          /\ socket' = [socket EXCEPT ![c] = ws]
          /\ Start(h, [op |-> "connect", ws |-> ws, client |-> c])
    BY DEF HandleConnect
  <1>2. MacrotaskTurn /\ UNCHANGED <<clientId, clients, tables>>
    BY DEF HandleConnect
  <1>3. \A g \in Handlers : ~Connecting(g) /\ ~Subscribing(g)
    BY <1>2, NothingPends
  <1>4. /\ \A g \in Handlers \ {h} : pend'[g] = pend[g]
        /\ pend'[h] = [op |-> "connect", ws |-> ws, client |-> c]
    BY <1>1 DEF Start, IInv, TypeOK
  <1>5. \A g \in Handlers : ~Subscribing(g)' /\ (Connecting(g)' => g = h)
    BY <1>3, <1>4 DEF Connecting, Subscribing
  <1>6. OnePending' /\ Subscribers'
    BY <1>5 DEF OnePending, Subscribers
  <1>7. Arrivals'
    <2>1. \A d \in clients : socket[d] # None /\ d \in ClientIds
      BY DEF PlainInv, Arrivals, IInv, TypeOK
    <2>2. c \notin clients /\ \A d \in clients : socket'[d] # None
      BY <1>1, <2>1 DEF IInv, TypeOK
    <2> QED BY <1>2, <1>4, <1>5, <2>2 DEF Arrivals
  <1>8. Same /\ ListedIsKnown'
    BY <1>2, SameIs DEF PlainInv
  <1> QED BY <1>6, <1>7, <1>8 DEF PlainInv

\* A client that is let in is new to the table.
LEMMA AcceptedPlain ==
  ASSUME IInv, PlainInv, NEW h \in Handlers, ConnectAccepted(h)
  PROVE  /\ PlainInv'
         /\ pend[h].client \in ClientIds \ clients /\ clients' = clients \cup {pend[h].client}
         /\ \A c \in ClientIds, r \in Requests, q \in Queries : Gets(c, r, q)' <=> Gets(c, r, q)
  <1>1. Connecting(h) /\ pend[h] \in ConnectJob
    BY JobTypes DEF ConnectAccepted, Connecting, IInv
  <1>2. pend[h].client \in ClientIds /\ pend[h].ws \in Sockets /\ socket[pend[h].client] = pend[h].ws
    BY <1>1 DEF ConnectJob, IInv, Identity
  <1>3. /\ clients' = clients \cup {pend[h].client} /\ Finish(h)
        /\ UNCHANGED <<open, socket, tables>>
    BY DEF ConnectAccepted
  <1>4. \A g \in Handlers : ~Connecting(g)' /\ ~Subscribing(g)'
    BY <1>1, <1>3, OneFinishes DEF PlainInv
  <1>5. OnePending' /\ Subscribers'
    BY <1>4 DEF OnePending, Subscribers
  <1>6. Arrivals' /\ pend[h].client \notin clients
    BY <1>1, <1>2, <1>3, <1>4, RegistryConstants DEF PlainInv, Arrivals
  <1>7. /\ ListedIsKnown'
        /\ \A c \in ClientIds, r \in Requests, q \in Queries : Gets(c, r, q)' <=> Gets(c, r, q)
    BY <1>3 DEF PlainInv, ListedIsKnown, Listed, Gets, tables
  <1> QED BY <1>2, <1>3, <1>5, <1>6, <1>7 DEF PlainInv

\* No request has more than one copy listed when a socket subscribes.
LEMMA SubscribePlain ==
  ASSUME IInv, PlainInv, Triggers = {}, MaxCopies = 1, NEW ws \in Sockets, NEW r \in Requests,
         NEW q \in Queries, NEW h \in Handlers, HandleSubscribe(ws, r, q, h)
  PROVE  PlainInv' /\ Same
  <1>1. /\ MacrotaskTurn /\ ws \in open /\ clientId[ws] \in clients
        /\ \A s \in SubIds : reqs[s][<<clientId[ws], r>>] < 1
        /\ Start(h, [op |-> "subscribe", ws |-> ws, client |-> clientId[ws], req |-> r, q |-> q])
        /\ UNCHANGED <<open, clientId, socket, clients, tables>>
    BY DEF HandleSubscribe, UnusedRequest, BeginSubscribe
  <1>2. \A s \in SubIds : reqs[s][<<clientId[ws], r>>] \in Nat
    BY <1>1 DEF IInv, TypeOK, Keys
  <1>3. \A s \in SubIds : reqs'[s][<<clientId[ws], r>>] = 0
    BY <1>1, <1>2 DEF tables
  <1>4. Same /\ ListedIsKnown'
    BY <1>1, SameIs DEF PlainInv
  <1> QED BY <1>1, <1>3, <1>4, NothingPends, BeginKeeps

LEMMA UnsubscribeLists ==
  ASSUME IInv, PlainInv, NEW ws \in open, NEW r \in Requests, clientId[ws] \in clients, Unsubscribe(ws, r)
  PROVE  /\ ListedIsKnown' /\ Dropped(clientId[ws], {r})
         /\ \A s \in SubIds : reqs'[s][<<clientId[ws], r>>] = 0
         /\ \E q \in Queries : Gets(clientId[ws], r, q)
  <1> DEFINE c == clientId[ws]
  <1>1. /\ infos[c][r] # None /\ infos' = [infos EXCEPT ![c][r] = None] /\ DropRequests(c, {r})
    BY DEF Unsubscribe
  <1>2. /\ c \in ClientIds /\ infos \in [ClientIds -> [Requests -> SubIds \cup {None}]]
        /\ query \in [SubIds -> Queries \cup {None}]
    BY DEF IInv, TypeOK
  <1>3. /\ \A s \in SubIds, d \in ClientIds, x \in Requests :
             reqs'[s][<<d, x>>] = IF d = c /\ x \in {r} THEN 0 ELSE reqs[s][<<d, x>>]
        /\ \A d \in ClientIds, x \in Requests, q \in Queries :
             Gets(d, x, q)' <=> Gets(d, x, q) /\ ~(d = c /\ x \in {r})
    <2>1. {r} \in SUBSET Requests /\ \A x \in {r} : infos[c][x] # None
      BY <1>1
    <2>2. ListedIsKnown
      BY DEF PlainInv
    <2> QED BY <1>1, <2>1, <2>2, DropLists
  <1>4. ListedIsKnown'
    <2> SUFFICES ASSUME NEW s \in SubIds, NEW d \in ClientIds, NEW x \in Requests
                 PROVE  Listed(s, d, x)'
      BY DEF ListedIsKnown
    <2>1. reqs[s][<<d, x>>] <= 1 /\ (reqs[s][<<d, x>>] > 0 => infos[d][x] = s)
      BY DEF PlainInv, ListedIsKnown, Listed
    <2>2. CASE d = c /\ x = r
      <3>1. reqs'[s][<<d, x>>] = 0
        BY <1>3, <2>2
      <3> QED BY <3>1 DEF Listed
    <2>3. CASE ~(d = c /\ x = r)
      <3>1. infos'[d][x] = infos[d][x]
        BY <1>1, <1>2, <2>3
      <3>2. reqs'[s][<<d, x>>] = reqs[s][<<d, x>>]
        BY <1>3, <2>3
      <3> QED BY <2>1, <3>1, <3>2 DEF Listed
    <2> QED BY <2>2, <2>3
  <1>5. \E q \in Queries : Gets(c, r, q)
    <2>1. /\ query[infos[c][r]] # None
          /\ registry[query[infos[c][r]]] = infos[c][r]
          /\ reqs[infos[c][r]][<<c, r>>] > 0
      BY <1>1, <1>2, RegistryConstants DEF IInv, Linked
    <2>2. infos[c][r] \in SubIds /\ query[infos[c][r]] \in Queries
      BY <1>1, <1>2, <2>1
    <2> QED BY <1>1, <2>1, <2>2 DEF Gets
  <1>6. \A s \in SubIds : reqs'[s][<<c, r>>] = 0
    BY <1>2, <1>3
  <1>7. Dropped(c, {r})
    BY <1>3 DEF Dropped
  <1> QED BY <1>4, <1>5, <1>6, <1>7

LEMMA UnsubscribePlain ==
  ASSUME IInv, PlainInv, Triggers = {}, NEW ws \in Sockets, NEW r \in Requests, HandleUnsubscribe(ws, r)
  PROVE  /\ PlainInv' /\ clients' = clients
         /\ clientId[ws] \in ClientIds /\ Dropped(clientId[ws], {r})
         /\ \E q \in Queries : Gets(clientId[ws], r, q)
  <1>1. /\ MacrotaskTurn /\ ws \in open /\ clientId[ws] \in clients /\ Unsubscribe(ws, r)
        /\ UNCHANGED <<open, clientId, socket, clients, pend>>
    BY DEF HandleUnsubscribe
  <1>2. clientId[ws] \in ClientIds
    BY <1>1 DEF IInv, TypeOK
  <1> QED BY <1>1, <1>2, UnsubscribeLists, NothingPends, QuietKeeps

LEMMA UpdatePlain ==
  ASSUME IInv, PlainInv, Triggers = {}, MaxCopies = 1, NEW ws \in Sockets, NEW r \in Requests,
         NEW q \in Queries, NEW h \in Handlers, HandleUpdateSubscription(ws, r, q, h)
  PROVE  /\ PlainInv' /\ clients' = clients /\ clientId[ws] \in ClientIds
         /\ \/ Same
            \/ Dropped(clientId[ws], {r}) /\ \E x \in Queries : Gets(clientId[ws], r, x)
  <1> DEFINE c == clientId[ws]
  <1>1. /\ MacrotaskTurn /\ ws \in open /\ c \in clients
        /\ Unsubscribe(ws, r) \/ (infos[c][r] = None /\ UNCHANGED tables)
        /\ \A s \in SubIds \ {infos[c][r]} : reqs[s][<<c, r>>] < 1
        /\ Start(h, [op |-> "subscribe", ws |-> ws, client |-> c, req |-> r, q |-> q])
        /\ UNCHANGED <<open, clientId, socket, clients>>
    BY DEF HandleUpdateSubscription, BeginSubscribe
  <1>2. c \in ClientIds /\ \A s \in SubIds : reqs[s][<<c, r>>] \in Nat
    BY <1>1 DEF IInv, TypeOK, Keys
  <1>3. CASE Unsubscribe(ws, r)
    <2>1. /\ ListedIsKnown' /\ Dropped(c, {r})
          /\ \A s \in SubIds : reqs'[s][<<c, r>>] = 0
          /\ \E x \in Queries : Gets(c, r, x)
      BY <1>1, <1>3, UnsubscribeLists
    <2> QED BY <1>1, <1>2, <2>1, NothingPends, BeginKeeps
  <1>4. CASE infos[c][r] = None /\ UNCHANGED tables
    <2>1. Same /\ ListedIsKnown'
      BY <1>1, <1>4, SameIs DEF PlainInv
    <2>2. \A s \in SubIds : reqs[s][<<c, r>>] = 0
      BY <1>1, <1>2, <1>4, RegistryConstants
    <2>3. \A s \in SubIds : reqs'[s][<<c, r>>] = 0
      BY <1>4, <2>2 DEF tables
    <2> QED BY <1>1, <1>2, <2>1, <2>3, NothingPends, BeginKeeps
  <1> QED BY <1>1, <1>3, <1>4

LEMMA DisconnectPlain ==
  ASSUME IInv, PlainInv, Triggers = {}, NEW ws \in Sockets, Disconnect(ws)
  PROVE  /\ PlainInv'
         /\ \/ Same
            \/ /\ clientId[ws] \in clients /\ clients' = clients \ {clientId[ws]}
               /\ Dropped(clientId[ws], Requests)
  <1> DEFINE c == clientId[ws]
             R == {r \in Requests : infos[c][r] # None}
  <1>1. /\ MacrotaskTurn /\ ws \in open /\ UNCHANGED <<clientId, socket, pend>>
        /\ \/ UNCHANGED <<clients, tables>>
           \/ c \in clients /\ clients' = clients \ {c} /\ DropRequests(c, R) /\ UNCHANGED infos
    BY DEF Disconnect
  <1>2. CASE UNCHANGED <<clients, tables>>
    <2>1. Same /\ ListedIsKnown'
      BY <1>2, SameIs DEF PlainInv
    <2> QED BY <1>1, <1>2, <2>1, NothingPends, QuietKeeps
  <1>3. CASE c \in clients /\ clients' = clients \ {c} /\ DropRequests(c, R) /\ UNCHANGED infos
    <2>1. /\ registry \in [Queries -> SubIds \cup {None}]
          /\ \A s \in SubIds, d \in ClientIds, x \in Requests : Listed(s, d, x)
      BY DEF IInv, TypeOK, PlainInv, ListedIsKnown
    <2>2. R \in SUBSET Requests /\ \A x \in R : infos[c][x] # None
      OBVIOUS
    <2> HIDE DEF R
    <2>3. /\ \A s \in SubIds, d \in ClientIds, x \in Requests :
               reqs'[s][<<d, x>>] = IF d = c /\ x \in R THEN 0 ELSE reqs[s][<<d, x>>]
          /\ \A d \in ClientIds, x \in Requests, q \in Queries :
               Gets(d, x, q)' <=> Gets(d, x, q) /\ ~(d = c /\ x \in R)
      BY <1>1, <1>3, <2>1, <2>2, DropLists DEF PlainInv
    <2>4. ListedIsKnown'
      <3> SUFFICES ASSUME NEW s \in SubIds, NEW d \in ClientIds, NEW x \in Requests
                   PROVE  Listed(s, d, x)'
        BY DEF ListedIsKnown
      <3>1. reqs[s][<<d, x>>] <= 1 /\ (reqs[s][<<d, x>>] > 0 => infos'[d][x] = s)
        BY <1>3, <2>1 DEF Listed
      <3>2. reqs'[s][<<d, x>>] = 0 \/ reqs'[s][<<d, x>>] = reqs[s][<<d, x>>]
        BY <2>3
      <3> QED BY <3>1, <3>2 DEF Listed
    <2>5. ASSUME NEW d \in ClientIds, NEW x \in Requests, NEW q \in Queries, d = c, Gets(d, x, q)
          PROVE  x \in R
      <3>1. registry[q] \in SubIds /\ reqs[registry[q]][<<d, x>>] > 0
        BY <2>1, <2>5 DEF Gets
      <3>2. infos[d][x] = registry[q]
        BY <2>1, <3>1 DEF Listed
      <3> QED BY <2>5, <3>2 DEF R, Gets
    <2>6. Dropped(c, Requests)
      BY <2>2, <2>3, <2>5 DEF Dropped
    <2> QED BY <1>1, <1>3, <2>4, <2>6, NothingPends, QuietKeeps
  <1> QED BY <1>1, <1>2, <1>3

\* What is delivered, before a step and after.
LEMMA DeliversIs ==
  /\ \A d : d \in Delivers <=>
       \E c \in ClientIds, r \in Requests, q \in Queries : d = <<c, r, q>> /\ Gets(c, r, q)
  /\ \A d : d \in Delivers' <=>
       \E c \in ClientIds, r \in Requests, q \in Queries : d = <<c, r, q>> /\ Gets(c, r, q)'
  <1>1. \A d : d \in ClientIds \X Requests \X Queries <=>
          \E c \in ClientIds, r \in Requests, q \in Queries : d = <<c, r, q>>
    OBVIOUS
  <1>2. Delivers = {d \in ClientIds \X Requests \X Queries : Gets(d[1], d[2], d[3])}
    BY DEF Delivers
  <1>3. Delivers' = {d \in ClientIds \X Requests \X Queries : Gets(d[1], d[2], d[3])'}
    BY DEF Delivers
  <1> QED BY <1>1, <1>2, <1>3

LEMMA MapSame ==
  ASSUME \A c \in ClientIds, r \in Requests, q \in Queries : Gets(c, r, q)' <=> Gets(c, r, q)
  PROVE  Delivers' = Delivers
  BY DeliversIs

LEMMA MapSubscribe ==
  ASSUME NEW c \in ClientIds, NEW r \in Requests, NEW q \in Queries,
         \A x \in Queries : ~Gets(c, r, x),
         \A d \in ClientIds, s \in Requests, x \in Queries :
           Gets(d, s, x)' <=> Gets(d, s, x) \/ (d = c /\ s = r /\ x = q)
  PROVE  /\ {d \in Delivers : d[1] = c /\ d[2] = r} = {}
         /\ Delivers' = Delivers \cup {<<c, r, q>>}
  <1>1. \A d \in Delivers : ~(d[1] = c /\ d[2] = r)
    BY DeliversIs
  <1>2. \A d : d \in Delivers' <=> d \in Delivers \/ d = <<c, r, q>>
    BY DeliversIs
  <1> QED BY <1>1, <1>2

LEMMA MapDrop ==
  ASSUME NEW c \in ClientIds, NEW R \in SUBSET Requests, Dropped(c, R)
  PROVE  Delivers' = {d \in Delivers : ~(d[1] = c /\ d[2] \in R)}
  <1>1. \A d : d \in Delivers' <=> d \in Delivers /\ ~(d[1] = c /\ d[2] \in R)
    BY DeliversIs DEF Dropped
  <1> QED BY <1>1

-----------------------------------------------------------------------------
\* Every step of a handler is a step of the table, or changes nothing there.
LEMMA PlainStep ==
  ASSUME IInv, PlainInv, Triggers = {}, MaxCopies = 1, [Next]_vars
  PROVE  PlainInv' /\ [Table!Next]_(Table!tvars)
  <1>1. ASSUME Same PROVE [Table!Next]_(Table!tvars)
    <2>1. clients' = clients /\ Delivers' = Delivers
      BY <1>1, MapSame DEF Same
    <2> QED BY <2>1 DEF Table!tvars, Delivers, Gets
  <1>2. ASSUME NEW c \in ClientIds, NEW r \in Requests, NEW q \in Queries, Gets(c, r, q),
               clients' = clients, Dropped(c, {r})
        PROVE  Table!Next
    <2>1. <<c, r, q>> \in {d \in Delivers : d[1] = c /\ d[2] = r}
      BY <1>2, DeliversIs
    <2>2. Delivers' = {d \in Delivers : ~(d[1] = c /\ d[2] \in {r})}
      BY <1>2, MapDrop
    <2>3. Delivers' = Delivers \ {d \in Delivers : d[1] = c /\ d[2] = r}
      BY <2>2
    <2>4. Table!Unsubscribe(c, r)
      BY <1>2, <2>1, <2>3 DEF Table!Unsubscribe, Table!OfRequest, Delivers, Gets
    <2> QED BY <2>4 DEF Table!Next
  <1>3. ASSUME NEW c \in ClientIds, NEW r \in Requests, NEW q \in Queries, c \in clients,
               clients' = clients, \A x \in Queries : ~Gets(c, r, x),
               \A d \in ClientIds, s \in Requests, x \in Queries :
                 Gets(d, s, x)' <=> Gets(d, s, x) \/ (d = c /\ s = r /\ x = q)
        PROVE  Table!Next
    <2>1. /\ {d \in Delivers : d[1] = c /\ d[2] = r} = {}
          /\ Delivers' = Delivers \cup {<<c, r, q>>}
      BY <1>3, MapSubscribe
    <2>2. Table!Subscribe(c, r, q)
      BY <1>3, <2>1 DEF Table!Subscribe, Table!OfRequest, Delivers, Gets
    <2> QED BY <2>2 DEF Table!Next
  <1>4. ASSUME NEW c \in ClientIds, c \in clients, clients' = clients \ {c}, Dropped(c, Requests)
        PROVE  Table!Next
    <2>1. Delivers' = {d \in Delivers : ~(d[1] = c /\ d[2] \in Requests)}
      BY <1>4, MapDrop
    <2>2. Delivers' = {d \in Delivers : d[1] # c}
      BY <2>1, DeliversIs
    <2>3. Table!Disconnect(c)
      BY <1>4, <2>2 DEF Table!Disconnect, Delivers, Gets
    <2> QED BY <2>3 DEF Table!Next
  <1>5. ASSUME NEW ws \in Sockets, NEW h \in Handlers, HandleConnect(ws, h)
        PROVE  PlainInv' /\ [Table!Next]_(Table!tvars)
    BY <1>1, <1>5, ConnectPlain
  <1>6. ASSUME NEW h \in Handlers, ConnectAccepted(h)
        PROVE  PlainInv' /\ [Table!Next]_(Table!tvars)
    <2>1. /\ PlainInv'
          /\ pend[h].client \in ClientIds \ clients /\ clients' = clients \cup {pend[h].client}
          /\ \A c \in ClientIds, r \in Requests, q \in Queries : Gets(c, r, q)' <=> Gets(c, r, q)
      BY <1>6, AcceptedPlain
    <2>2. Delivers' = Delivers
      BY <2>1, MapSame
    <2>3. Table!Connect(pend[h].client)
      BY <2>1, <2>2 DEF Table!Connect, Delivers, Gets
    <2> QED BY <2>1, <2>3 DEF Table!Next
  <1>7. ASSUME NEW h \in Handlers, TriggerRejected(h)
        PROVE  FALSE
    BY <1>7 DEF TriggerRejected
  <1>8. ASSUME NEW ws \in Sockets, NEW r \in Requests, NEW q \in Queries,
               NEW h \in Handlers, HandleSubscribe(ws, r, q, h)
        PROVE  PlainInv' /\ [Table!Next]_(Table!tvars)
    BY <1>1, <1>8, SubscribePlain
  <1>9. ASSUME NEW h \in Handlers, SubscribeAccepted(h)
        PROVE  PlainInv' /\ [Table!Next]_(Table!tvars)
    <2> DEFINE c == pend[h].client
               r == pend[h].req
               q == pend[h].q
    <2>1. Subscribing(h) /\ pend[h] \in SubscribeJob
      BY <1>9, JobTypes DEF SubscribeAccepted, Subscribing, IInv
    <2>2. c \in ClientIds /\ r \in Requests /\ q \in Queries
      BY <2>1 DEF SubscribeJob
    <2>3. /\ ListedIsKnown' /\ c \in clients
          /\ \A x \in Queries : ~Gets(c, r, x)
          /\ \A d \in ClientIds, s \in Requests, x \in Queries :
               Gets(d, s, x)' <=> Gets(d, s, x) \/ (d = c /\ s = r /\ x = q)
      BY <1>9, FilingLists
    <2>4. Finish(h) /\ UNCHANGED <<open, clientId, socket, clients>>
      BY <1>9 DEF SubscribeAccepted
    <2>5. \A g \in Handlers : ~Connecting(g)' /\ ~Subscribing(g)'
      BY <2>1, <2>4, OneFinishes DEF PlainInv
    <2>6. PlainInv'
      BY <2>3, <2>4, <2>5 DEF PlainInv, OnePending, Arrivals, Subscribers
    <2>7. clients' = clients
      BY <2>4
    <2> HIDE DEF c, r, q
    <2>8. Table!Next
      BY <1>3, <2>2, <2>3, <2>7
    <2> QED BY <2>6, <2>8
  <1>10. ASSUME NEW ws \in Sockets, NEW r \in Requests, HandleUnsubscribe(ws, r)
        PROVE  PlainInv' /\ [Table!Next]_(Table!tvars)
    BY <1>2, <1>10, UnsubscribePlain
  <1>11. ASSUME NEW ws \in Sockets, NEW r \in Requests, NEW q \in Queries,
               NEW h \in Handlers, HandleUpdateSubscription(ws, r, q, h)
        PROVE  PlainInv' /\ [Table!Next]_(Table!tvars)
    BY <1>1, <1>2, <1>11, UpdatePlain
  <1>12. ASSUME NEW ws \in Sockets, Disconnect(ws)
         PROVE  PlainInv' /\ [Table!Next]_(Table!tvars)
    <2> DEFINE c == clientId[ws]
    <2>1. /\ PlainInv'
          /\ Same \/ (c \in clients /\ clients' = clients \ {c} /\ Dropped(c, Requests))
      BY <1>12, DisconnectPlain
    <2>2. CASE c \in clients /\ clients' = clients \ {c} /\ Dropped(c, Requests)
      <3>1. c \in ClientIds
        BY <2>2 DEF IInv, TypeOK
      <3> HIDE DEF c
      <3> QED BY <1>4, <2>1, <2>2, <3>1
    <2> QED BY <1>1, <2>1, <2>2
  <1>13. CASE UNCHANGED vars
    <2>1. Same /\ ListedIsKnown'
      BY <1>13, SameIs DEF vars, tables, PlainInv
    <2>2. PlainInv'
      BY <1>13, <2>1
         DEF vars, PlainInv, OnePending, Arrivals, Subscribers, Connecting, Subscribing, tables
    <2> QED BY <1>1, <2>1, <2>2
  <1> QED BY <1>5, <1>6, <1>7, <1>8, <1>9, <1>10, <1>11, <1>12, <1>13 DEF Next

LEMMA TableInit == Init => Table!Init
  <1> SUFFICES ASSUME Init PROVE Table!Init
    OBVIOUS
  <1>1. clients = {} /\ \A q \in Queries : registry[q] = None
    BY DEF Init
  <1>2. \A d : d \notin Delivers
    BY <1>1, DeliversIs DEF Gets
  <1>3. Delivers = {}
    BY <1>2
  <1> QED BY <1>1, <1>3 DEF Table!Init, Delivers, Gets

\* Without triggers, and with SDKs that use a request id for one subscription at a time, the
\* maps implement the promised table, reconnects included: what an event is delivered to is
\* read off the registered subscriptions.
THEOREM RegistryImplementsTable ==
  ASSUME Triggers = {}, MaxCopies = 1
  PROVE  Spec => Table!Spec
  <1>1. Init => PlainInv /\ Table!Init
    BY PlainInit, TableInit
  <1>2. IInv /\ PlainInv /\ [Next]_vars => PlainInv' /\ [Table!Next]_(Table!tvars)
    BY PlainStep
  <1> QED BY <1>1, <1>2, Invariance, PTL DEF Spec, Table!Spec
=============================================================================
