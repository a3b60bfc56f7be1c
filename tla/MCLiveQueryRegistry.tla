------------------------- MODULE MCLiveQueryRegistry -------------------------
(***************************************************************************)
(* LiveQueryRegistry for TLC, in two settings: "triggers", with everything *)
(* the module has, for one request id and two queries of one class; and    *)
(* "plain", without triggers, for all requests and queries.                *)
(***************************************************************************)
EXTENDS LiveQueryRegistry, TLC

CONSTANTS q1, q2, q3, ClassA, ClassB, r1

MCClasses == {ClassA, ClassB}
MCClassOf == [q \in Queries |-> IF q = q3 THEN ClassB ELSE ClassA]

VARIABLE setting
mcvars == <<vars, setting>>

Plain == INSTANCE LiveQueryRegistry WITH Triggers <- {}, MaxCopies <- 1

\* Nobody uses another request id or query than those.
Only(rs, qs) ==
  /\ \A q \in Queries \ qs : registry[q] = None
  /\ \A c \in ClientIds, r \in Requests \ rs : infos[c][r] = None
  /\ \A h \in Handlers : pend[h].op = "subscribe" => pend[h].req \in rs /\ pend[h].q \in qs

Setting ==
  \/ setting = "triggers" /\ Next /\ Only({r1}, {q1, q2})'
  \/ setting = "plain" /\ Plain!Next /\ \A h \in Handlers : pend'[h] = Idle \/ \A k \in Handlers \ {h} : pend'[k] = Idle

MCInit == Init /\ setting \in {"triggers", "plain"}
MCNext == Setting /\ UNCHANGED setting
MCSpec == MCInit /\ [][MCNext]_mcvars

\* Without triggers, and with SDKs that use a request id for one subscription at a time, the
\* maps implement the promised table, reconnects included: what an event is delivered to is
\* read off the registered subscriptions.
PlainImplementsTable ==
  /\ Table!Init
  /\ [][setting = "plain" => [Table!Next]_(Table!tvars)]_mcvars

Symm == Permutations(ClientIds) \cup Permutations(SubIds)
          \cup Permutations(Handlers) \cup Permutations(Sockets)
=============================================================================
