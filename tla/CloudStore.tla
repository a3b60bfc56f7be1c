----------------------------- MODULE CloudStore -----------------------------
(***************************************************************************)
(* What the cloud functions of cloud/main.js share: the clock, the users'  *)
(* credit, and the requests being served.  A request is suspended at every *)
(* database call, so the calls of concurrent requests interleave; a call   *)
(* may fail, or the process end, and then the request goes no further.     *)
(***************************************************************************)
EXTENDS Integers, Sequences, FiniteSetsExt

CONSTANTS
  Users, Fruits,
  Gold,         \* amounts a request bets
  StartCredit,  \* what every user owns at the start
  Slots,        \* requests served at a time
  Failures,     \* whether calls fail and the process restarts
  MaxNow,       \* bound: the last second
  MaxRequests,  \* bound: requests made
  None

ASSUME StoreConstants ==
  /\ IsFiniteSet(Users) /\ IsFiniteSet(Fruits) /\ IsFiniteSet(Slots)
  /\ Gold \subseteq Nat \ {0}
  /\ StartCredit \in Nat /\ MaxNow \in Nat /\ MaxRequests \in Nat
  /\ Failures \in BOOLEAN
  /\ None \notin Nat \cup Users \cup Fruits

VARIABLES
  now,     \* the clock, in seconds
  credit,  \* user.credit
  pc,      \* the requests being served
  served   \* how many requests were made

shared == <<now, credit, pc, served>>

Idle == [at |-> "idle"]
Goto(h, job) == pc' = [pc EXCEPT ![h] = job]
Finish(h) == Goto(h, Idle)
AtRest == \A h \in Slots : pc[h] = Idle

\* A request is made in slot h and has job to do.
Begin(h, job) ==
  /\ pc[h] = Idle /\ served < MaxRequests
  /\ served' = served + 1
  /\ Goto(h, job)
  /\ UNCHANGED <<now, credit>>

\* A request goes on, or ends, without touching anyone's credit.
Continue(h, job) == Goto(h, job) /\ UNCHANGED <<now, credit, served>>
End(h) == Continue(h, Idle)

\* A request changes its user's credit by an increment.
AddCredit(u, amount) == credit' = [credit EXCEPT ![u] = @ + amount]

StoreInit ==
  /\ now = 0
  /\ credit = [u \in Users |-> StartCredit]
  /\ pc = [h \in Slots |-> Idle]
  /\ served = 0

StoreTypeOK ==
  /\ now \in 0..MaxNow /\ served \in 0..MaxRequests
  /\ credit \in [Users -> Int]

Tick ==
  /\ now < MaxNow
  /\ now' = now + 1
  /\ UNCHANGED <<credit, pc, served>>

CallFails(h) ==
  /\ Failures
  /\ pc[h] # Idle
  /\ End(h)
=============================================================================
