--------------------------- MODULE LiveQueryTable ---------------------------
(***************************************************************************)
(* What the LiveQuery registry promises: at any moment a set of clients is *)
(* connected, and each request id of a client receives the events of at    *)
(* most one query.                                                         *)
(***************************************************************************)
CONSTANTS ClientIds, Requests, Queries

VARIABLES
  connected,  \* the clients the server knows
  delivers    \* <<c, r, q>>: events matching q go to client c as request r

tvars == <<connected, delivers>>

OfRequest(c, r) == {d \in delivers : d[1] = c /\ d[2] = r}

Init == connected = {} /\ delivers = {}

Connect(c) ==
  /\ c \notin connected
  /\ connected' = connected \cup {c}
  /\ UNCHANGED delivers

Subscribe(c, r, q) ==
  /\ c \in connected
  /\ OfRequest(c, r) = {}
  /\ delivers' = delivers \cup {<<c, r, q>>}
  /\ UNCHANGED connected

Unsubscribe(c, r) ==
  /\ OfRequest(c, r) # {}
  /\ delivers' = delivers \ OfRequest(c, r)
  /\ UNCHANGED connected

Disconnect(c) ==
  /\ c \in connected
  /\ connected' = connected \ {c}
  /\ delivers' = {d \in delivers : d[1] # c}

Next ==
  \E c \in ClientIds :
    \/ Connect(c)
    \/ Disconnect(c)
    \/ \E r \in Requests : Unsubscribe(c, r) \/ \E q \in Queries : Subscribe(c, r, q)

Spec == Init /\ [][Next]_tvars
=============================================================================
