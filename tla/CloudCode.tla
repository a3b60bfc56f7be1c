------------------------------ MODULE CloudCode ------------------------------
(***************************************************************************)
(* The cloud functions of cloud/main.js together: two games, purchases and *)
(* follows of the same users, served side by side.                         *)
(***************************************************************************)
EXTENDS FerrisWheel, FruitJackpot, CoinPurchases, FollowGraph

vars == <<shared, wheelVars, jackpotVars, cached, coinVars, followVars>>

Init == StoreInit /\ WheelInit /\ JackpotInit /\ CoinInit /\ FollowInit

\* A user whose row is saved is no longer in the user cache: the games save those whose credit
\* they change.
Games ==
  /\ \E h \in Slots :
       \/ WheelStep(h) /\ UNCHANGED <<jackpotVars, coinVars, followVars>>
       \/ JackpotStep(h) /\ UNCHANGED <<wheelVars, coinVars, followVars>>
  /\ Forget({u \in Users : credit'[u] # credit[u]})

Others ==
  \/ \E h \in Slots :
       \/ CoinStep(h) /\ UNCHANGED <<wheelVars, jackpotVars, followVars>>
       \/ FollowStep(h) /\ Forget(SavedNext(h)) /\ UNCHANGED <<wheelVars, jackpotVars, coinVars>>
  \/ \E u \in Users : Expire(u) /\ UNCHANGED <<wheelVars, jackpotVars, followVars>>

\* The process ends: the requests are gone, and with them what it keeps in
\* memory, the statistics and the user cache.
Restart ==
  /\ Failures
  /\ pc' = [h \in Slots |-> Idle]
  /\ recorded' = <<>>
  /\ cached' = [u \in Users |-> None]
  /\ UNCHANGED <<now, credit, served, profit, bets, results, staked, paid, jackpotVars,
                 coinVars, followVars>>

Next ==
  \/ Games
  \/ Others
  \/ ResetStats /\ UNCHANGED <<jackpotVars, cached, coinVars, followVars>>
  \/ (Tick \/ \E h \in Slots : CallFails(h)) /\ UNCHANGED <<wheelVars, jackpotVars, cached, coinVars, followVars>>
  \/ Restart

Spec == Init /\ [][Next]_vars

-----------------------------------------------------------------------------
\* Every variable stays within the shapes the database and the handlers use.
TypeOK == StoreTypeOK /\ WheelTypeOK /\ JackpotTypeOK /\ CoinTypeOK /\ FollowTypeOK

\* No gold appears from nowhere.  What a user owns, has on the way to a bet and
\* has filed is covered by what it began with, won and bought, whatever fails,
\* except for what purchases bring back from stale copies of the user.
GoldAccounted ==
  \A u \in Users :
    credit[u] + WheelDebited(u) + OfUser(staked, u)
      + JackpotDebited(u) + SumOfBets([n \in DOMAIN jackpotBets |-> jackpotBets[n].amount], u)
    <= StartCredit + OfUser(paid, u) + Worth(u) + stale[u]
      + SumOfBets([n \in DOMAIN jackpotBets |-> timesPaid[n] * JackpotMultiplier[jackpotBets[n].choice] * jackpotBets[n].amount], u)

\* What says that something was given is written after it: a bet marked as a winner was
\* paid, a recorded purchase added, wherever the functions are cut short.
MarkersAreTrue == MarkedArePaid /\ RecordedWasGranted

\* One request at a time, none cut short and no user cache, the cloud functions
\* keep the promises of Ledger: a bet counts when its row is saved, a settlement
\* when its result is, a purchase when the credit is.
JackpotStake(u, r, f) == AmountOf(Winning(r, f), u)
ResultOf(rows) == IF rows = <<>> THEN None ELSE Head(rows)

AllRounds == WheelRounds \cup JackpotRounds
Balances ==
  [u \in Users |-> credit[u] + WheelDebited(u) + WheelOwed(u) + JackpotDebited(u) + JackpotOwed(u)]
Stakes ==
  [p \in Users \X {"wheel", "jackpot"} \X AllRounds \X Fruits |->
    IF p[2] = "wheel" THEN GoldOf(RowsOf(p[1], p[3], p[4])) ELSE JackpotStake(p[1], p[3], p[4])]
Outcomes ==
  [p \in {"wheel", "jackpot"} \X AllRounds |->
    IF p[1] = "wheel"
    THEN IF p[2] \in WheelRounds THEN ResultOf(results[p[2]]) ELSE None
    ELSE IF p[2] \in JackpotRounds THEN ResultOf(jackpotResults[p[2]]) ELSE None]
Bought == {t \in Transactions : granted[t] > 0}

Promise == INSTANCE Ledger WITH
  Games <- {"wheel", "jackpot"},
  Rounds <- AllRounds,
  Multiplier <- [p \in {"wheel", "jackpot"} \X Fruits |->
    IF p[1] = "wheel" THEN WheelMultiplier[p[2]] ELSE JackpotMultiplier[p[2]]],
  balance <- Balances, stake <- Stakes, result <- Outcomes, bought <- Bought
KeepsPromise == Promise!Spec
=============================================================================
