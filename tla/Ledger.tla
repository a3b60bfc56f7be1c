------------------------------- MODULE Ledger -------------------------------
(***************************************************************************)
(* What the games and the shop promise their users.  A bet takes gold from *)
(* a balance that covers it and adds it to a stake; a round gets one       *)
(* result, and with it every stake on the winning fruit is paid, once; a   *)
(* stake may be taken off the books.  The coins of a purchase are added    *)
(* once.                                                                   *)
(***************************************************************************)
EXTENDS Naturals

CONSTANTS Users, Games, Rounds, Fruits, Multiplier, Gold, StartCredit, Transactions, Coins, Buyer, None

VARIABLES
  balance,  \* the gold of each user
  stake,    \* gold on the books, by user, game, round and fruit
  result,   \* the winning fruit of each settled round of a game
  bought    \* the purchases whose coins were added

lvars == <<balance, stake, result, bought>>

Init ==
  /\ balance = [u \in Users |-> StartCredit]
  /\ stake = [p \in Users \X Games \X Rounds \X Fruits |-> 0]
  /\ result = [p \in Games \X Rounds |-> None]
  /\ bought = {}

Bet(u, k, r, f, g) ==
  /\ result[<<k, r>>] = None
  /\ balance[u] >= g
  /\ balance' = [balance EXCEPT ![u] = @ - g]
  /\ stake' = [stake EXCEPT ![<<u, k, r, f>>] = @ + g]
  /\ UNCHANGED <<result, bought>>

Settle(k, r, f) ==
  /\ result[<<k, r>>] = None
  /\ result' = [result EXCEPT ![<<k, r>>] = f]
  /\ balance' = [u \in Users |-> balance[u] + Multiplier[<<k, f>>] * stake[<<u, k, r, f>>]]
  /\ UNCHANGED <<stake, bought>>

Withdraw(u, k, r, f) ==
  /\ stake' = [stake EXCEPT ![<<u, k, r, f>>] = 0]
  /\ UNCHANGED <<balance, result, bought>>

Buy(t) ==
  /\ t \notin bought
  /\ bought' = bought \cup {t}
  /\ balance' = [balance EXCEPT ![Buyer[t]] = @ + Coins[t]]
  /\ UNCHANGED <<stake, result>>

Next ==
  \/ \E t \in Transactions : Buy(t)
  \/ \E k \in Games, r \in Rounds, f \in Fruits :
       \/ Settle(k, r, f)
       \/ \E u \in Users : Withdraw(u, k, r, f) \/ \E g \in Gold : Bet(u, k, r, f, g)

Spec == Init /\ [][Next]_lvars
=============================================================================
