---------------------------- MODULE SmartProfit -----------------------------
(***************************************************************************)
(* The profit control of the ferris wheel (cloud/main.js): the fruit drawn *)
(* for a settled round is the one whose weighted profit margin is nearest  *)
(* to 70%, found by a loop over the eight fruits.  Margins are fractions   *)
(* of the round's bets; here they are integers, in units of one            *)
(* Scale * Total-th.  Statistics live in the process, and rounds are       *)
(* counted from the epoch.  The loop runs in one turn of the process; a    *)
(* round drawn waits for its result and payments to be saved before it is  *)
(* counted.                                                                *)
(***************************************************************************)
EXTENDS Integers

CONSTANTS
  Bets,        \* the bets of a round: gold by fruit
  FirstRound,  \* the round in which the process starts
  Gaps,        \* rounds from one settled round to the next
  TwoHours,    \* the rounds in two hours
  MaxSettled,  \* bound: rounds settled
  None

ASSUME ProfitConstants ==
  /\ Bets \subseteq [{"g", "h", "a", "b", "c", "d", "e", "f"} -> Nat] /\ Gaps \subseteq Nat \ {0}
  /\ FirstRound \in Nat /\ TwoHours \in Nat /\ MaxSettled \in Nat
  /\ None \notin Int

\* FRUIT_MULTIPLIERS, in the order the loop takes them.
Order == <<"g", "h", "a", "b", "c", "d", "e", "f">>
Fruits == {"g", "h", "a", "b", "c", "d", "e", "f"}
Multiplier == [g |-> 45, h |-> 5, a |-> 5, b |-> 5, c |-> 5, d |-> 10, e |-> 15, f |-> 25]

VARIABLES
  round,         \* the round being settled, or the last one settled
  bets,          \* gold on each fruit in it
  i,             \* position of the loop; 0: no round is being settled
  best,          \* optimalFruit
  bestScore,     \* bestProfitMargin; None is -Infinity
  occurrences,   \* fruitStats[f].occurrences
  lastX45,       \* fruitStats["g"].lastOccurrence, as a round
  settled        \* how many rounds were settled

locals == <<bets, i, best, bestScore>>
vars == <<round, locals, occurrences, lastX45, settled>>

-----------------------------------------------------------------------------
Total ==
  bets["g"] + bets["h"] + bets["a"] + bets["b"] + bets["c"] + bets["d"] + bets["e"] + bets["f"]

\* What the house keeps of the round if f is drawn.
Profit(f) == Total - bets[f] * Multiplier[f]

X45Recent == lastX45 # None /\ round - lastX45 < TwoHours

\* The factors of applyWeightingFactors: 7/10, 8/10, 9/10 or 11/10, 23/20.
RecencyFactor(f) == IF f = "g" /\ X45Recent THEN 7 ELSE 10
X45BetFactor(f) == IF f = "g" /\ 10 * bets[f] > 3 * Total THEN 8 ELSE 10

FrequencyFactor(f) ==
  IF occurrences[f] = 0 THEN 10
  ELSE IF 16 * occurrences[f] > 3 * round THEN 9
  ELSE IF 16 * occurrences[f] < round THEN 11
  ELSE 10

BetSizeFactor(f) == IF 5 * bets[f] > 2 * Total THEN 23 ELSE 20

Scale == 20000
Floor == 2000 * Total      \* a margin of 0.1
Ceiling == 18000 * Total   \* of 0.9
Target == 14000 * Total    \* of 0.7

Clamped(x) == IF x > Ceiling THEN Ceiling ELSE IF x < Floor THEN Floor ELSE x

ScoreWith(f, recency) ==
  Clamped(Profit(f) * (recency * X45BetFactor(f) * FrequencyFactor(f) * BetSizeFactor(f)))
Score(f) == ScoreWith(f, RecencyFactor(f))

Deviation(x) == IF x < Target THEN Target - x ELSE x - Target

\* Mutant: a tie always goes to the later fruit.
TakesTie_Always(f) == TRUE

\* At a tie the later fruit is taken if the house gains by it.
TakesTie(f) == Profit(f) > 0

\* Whether the loop may, and whether it may not, take f instead of the best so
\* far.  When margins off the limits tie, the rounding of doubles decides.
Ties(f) == bestScore # None /\ Deviation(Score(f)) = Deviation(bestScore)
AtLimit(f) == Score(f) = bestScore /\ Score(f) \in {Floor, Ceiling}
\* Mutant: the greatest margin is looked for.
Nearer_Greatest(f) == IF bestScore = None THEN TRUE ELSE Score(f) > bestScore

Nearer(f) == IF bestScore = None THEN TRUE ELSE Deviation(Score(f)) < Deviation(bestScore)
MayTake(f) == Nearer(f) \/ (Ties(f) /\ (AtLimit(f) => TakesTie(f)))
MayKeep(f) == ~ Nearer(f) /\ (Ties(f) /\ AtLimit(f) => ~ TakesTie(f))

-----------------------------------------------------------------------------
\* No round is being settled.
Rest(b, p, f, s) == b = [fruit \in Fruits |-> 0] /\ p = 0 /\ f = "g" /\ s = None

Init ==
  /\ round = FirstRound
  /\ Rest(bets, i, best, bestScore)
  /\ occurrences = [f \in Fruits |-> 0]
  /\ lastX45 = None
  /\ settled = 0

\* calculateOptimalFruit begins on the bets of a later round.
BeginRound(b, gap) ==
  /\ i = 0 /\ settled < MaxSettled
  /\ round' = round + gap
  /\ bets' = b
  /\ i' = 1
  /\ best' = "g" /\ bestScore' = None
  /\ UNCHANGED <<occurrences, lastX45, settled>>

\* One turn of the loop.
WeighFruit ==
  /\ i \in 1..8 /\ Total > 0
  /\ LET f == Order[i] IN
     \/ MayTake(f) /\ best' = f /\ bestScore' = Score(f)
     \/ MayKeep(f) /\ UNCHANGED <<best, bestScore>>
  /\ i' = i + 1
  /\ UNCHANGED <<round, bets, occurrences, lastX45, settled>>

\* updateFruitStats.
Settle(f) ==
  /\ occurrences' = [occurrences EXCEPT ![f] = @ + 1]
  /\ lastX45' = IF f = "g" THEN round ELSE lastX45
  /\ settled' = settled + 1
  /\ Rest(bets', i', best', bestScore')
  /\ UNCHANGED round

\* Without bets the fruit is random.
SettleEmpty == i = 1 /\ Total = 0 /\ \E f \in Fruits : Settle(f)
SettleBest == i = 9 /\ Settle(best)

\* The fruit of the round is known and being saved and paid.
Drawn == i = 9 \/ (i = 1 /\ Total = 0)

\* A call made for the settlement fails: the round is not counted.
Abandon ==
  /\ Drawn
  /\ settled' = settled + 1
  /\ Rest(bets', i', best', bestScore')
  /\ UNCHANGED <<round, occurrences, lastX45>>

\* initializeFruitStats, when an administrator resets the statistics or the
\* process restarts; a settlement may be on its way.
ResetStats ==
  /\ i = 0 \/ Drawn
  /\ occurrences' = [f \in Fruits |-> 0]
  /\ lastX45' = None
  /\ UNCHANGED <<round, locals, settled>>

Next ==
  \/ \E b \in Bets, gap \in Gaps : BeginRound(b, gap)
  \/ WeighFruit \/ SettleEmpty \/ SettleBest \/ Abandon \/ ResetStats

Spec == Init /\ [][Next]_vars

-----------------------------------------------------------------------------
\* The best score is a margin between 0.1 and 0.9.
TypeOK ==
  /\ round \in Nat /\ settled \in Nat /\ i \in 0..9
  /\ bets \in [Fruits -> Nat] /\ best \in Fruits
  /\ bestScore # None => bestScore \in Floor..Ceiling
  /\ occurrences \in [Fruits -> Nat]
  /\ lastX45 = None \/ lastX45 \in Nat

\* The loop ends with the fruit whose weighted margin is nearest to 70%.
NearestToTarget ==
  [][i = 8 /\ i' = 9 => \A f \in Fruits : Deviation(Score(best')) <= Deviation(Score(f))]_vars

\* Whatever is bet, and however the weights turn out, the fruit taken leaves the
\* house a profit: the multipliers leave one such fruit at least, the limits put
\* every other at the far end, and ties go to the profit.
HouseNeverLoses == i = 9 => Profit(best) > 0
=============================================================================
