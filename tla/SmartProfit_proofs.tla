------------------------- MODULE SmartProfit_proofs -------------------------
(***************************************************************************)
(* The house never loses a settled round, whatever is bet: proofs about    *)
(* SmartProfit.                                                            *)
(***************************************************************************)
EXTENDS SmartProfit, TLAPS

\* The fruits the loop has looked at.
Seen == {Order[k] : k \in 1..(i - 1)}

Shape ==
  /\ round \in Nat /\ settled \in Nat /\ i \in 0..9
  /\ bets \in [Fruits -> Nat] /\ best \in Fruits
  /\ occurrences \in [Fruits -> Nat]
  /\ lastX45 = None \/ lastX45 \in Nat

\* What the loop maintains: after the first fruit the best score is the best
\* fruit's and the nearest so far, until a reset of the statistics changes the
\* scores, and the best fruit is profitable if any fruit seen is.
LoopInv ==
  /\ i \in {0, 1} => bestScore = None
  /\ i > 1 => Total > 0
  /\ i \in 2..8 =>
       /\ bestScore = Score(best)
       /\ \A f \in Seen : Deviation(Score(best)) <= Deviation(Score(f))
  /\ bestScore # None => bestScore \in Floor..Ceiling
  /\ \A f \in Seen : Profit(f) > 0 => Profit(best) > 0

IInv == Shape /\ LoopInv

-----------------------------------------------------------------------------
LEMMA OrderFruits == \A k \in 1..8 : Order[k] \in Fruits
  BY DEF Order, Fruits

LEMMA AllSeen == ASSUME i = 9 PROVE Fruits \subseteq Seen
<1> SUFFICES ASSUME NEW f \in Fruits PROVE \E k \in 1..8 : Order[k] = f
  BY DEF Seen
<1> QED
  BY DEF Fruits, Order

\* Totals and profits are integers.
LEMMA Amount ==
  ASSUME Shape
  PROVE  /\ Total \in Nat
         /\ \A f \in Fruits : bets[f] \in Nat /\ Profit(f) \in Int
<1>1. \A f \in Fruits : bets[f] \in Nat
  BY DEF Shape
<1>2. Total \in Nat
  BY <1>1 DEF Total, Fruits
<1>3. \A f \in Fruits : Multiplier[f] \in Nat
  BY DEF Multiplier, Fruits
<1> QED
  BY <1>1, <1>2, <1>3 DEF Profit

\* The multipliers leave a profitable fruit: their inverses add up to more
\* than one.
LEMMA SomeProfit ==
  ASSUME Shape, Total > 0
  PROVE  \E f \in Fruits : Profit(f) > 0
<1> SUFFICES ASSUME \A f \in Fruits : ~ (Profit(f) > 0) PROVE FALSE
  OBVIOUS
<1>1. \A f \in Fruits : bets[f] \in Nat
  BY Amount
<1>2. /\ Profit("g") = Total - bets["g"] * 45 /\ Profit("h") = Total - bets["h"] * 5
      /\ Profit("a") = Total - bets["a"] * 5  /\ Profit("b") = Total - bets["b"] * 5
      /\ Profit("c") = Total - bets["c"] * 5  /\ Profit("d") = Total - bets["d"] * 10
      /\ Profit("e") = Total - bets["e"] * 15 /\ Profit("f") = Total - bets["f"] * 25
  BY DEF Profit, Multiplier
<1>3. /\ Total <= bets["g"] * 45 /\ Total <= bets["h"] * 5 /\ Total <= bets["a"] * 5
      /\ Total <= bets["b"] * 5 /\ Total <= bets["c"] * 5 /\ Total <= bets["d"] * 10
      /\ Total <= bets["e"] * 15 /\ Total <= bets["f"] * 25
  BY <1>1, <1>2, Amount DEF Fruits
<1> QED
  BY <1>1, <1>3, Amount DEF Total, Fruits

\* A score is an integer between the limits, and a fruit without profit is at
\* the lower one.
LEMMA ScoreRange ==
  ASSUME Shape, NEW f \in Fruits
  PROVE  /\ Score(f) \in Floor..Ceiling
         /\ Profit(f) <= 0 => Score(f) = Floor
<1> DEFINE w == RecencyFactor(f) * X45BetFactor(f) * FrequencyFactor(f) * BetSizeFactor(f)
<1>1. w \in Nat
  <2>1. RecencyFactor(f) \in Nat /\ X45BetFactor(f) \in Nat
    BY DEF RecencyFactor, X45BetFactor
  <2>2. FrequencyFactor(f) \in Nat /\ BetSizeFactor(f) \in Nat
    BY DEF FrequencyFactor, BetSizeFactor
  <2> QED
    BY <2>1, <2>2
<1>2. Total \in Nat /\ Profit(f) \in Int
  BY Amount
<1>3. Score(f) = Clamped(Profit(f) * w)
  BY DEF Score, ScoreWith
<1> HIDE DEF w
<1>4. Profit(f) * w \in Int
  BY <1>1, <1>2
<1>5. ASSUME Profit(f) <= 0 PROVE Profit(f) * w <= 0
  BY <1>1, <1>2, <1>5
<1>6. Floor \in Nat /\ Ceiling \in Nat /\ Floor <= Ceiling
  BY <1>2 DEF Floor, Ceiling
<1>7. Clamped(Profit(f) * w) \in Floor..Ceiling
  BY <1>4, <1>6 DEF Clamped
<1>8. ASSUME Profit(f) <= 0 PROVE Clamped(Profit(f) * w) = Floor
  <2>1. Profit(f) * w <= Floor
    BY <1>4, <1>5, <1>6, <1>8
  <2> QED
    BY <1>4, <1>6, <2>1 DEF Clamped
<1> QED
  BY <1>3, <1>7, <1>8

\* No score between the limits is farther from the target than the lower
\* limit, and only that limit is as far.
LEMMA FloorIsFarthest ==
  ASSUME Shape, Total > 0, NEW x \in Floor..Ceiling
  PROVE  /\ Deviation(x) <= Deviation(Floor)
         /\ Deviation(x) = Deviation(Floor) => x = Floor
  BY Amount DEF Floor, Ceiling, Target, Deviation

-----------------------------------------------------------------------------
LEMMA InitInv == Init => IInv
<1> SUFFICES ASSUME Init PROVE IInv
  OBVIOUS
<1>1. Shape
  BY ProfitConstants DEF Init, Rest, Shape, Fruits
<1>2. LoopInv
  BY DEF Init, Rest, LoopInv, Seen
<1> QED
  BY <1>1, <1>2 DEF IInv

\* After a turn the best fruit is the nearest of those seen.
LEMMA WeighNearest ==
  ASSUME IInv, WeighFruit
  PROVE  \A x \in Seen \cup {Order[i]} : Deviation(Score(best')) <= Deviation(Score(x))
<1> DEFINE f == Order[i]
<1>1. f \in Fruits /\ i \in 1..8 /\ Seen \subseteq Fruits
  BY OrderFruits DEF WeighFruit, Seen
<1>2. \/ MayTake(f) /\ best' = f
      \/ MayKeep(f) /\ best' = best
  BY DEF WeighFruit
<1> HIDE DEF f
<1>3. \A x \in Fruits : Deviation(Score(x)) \in Int
  BY ScoreRange, Amount DEF IInv, Deviation, Target, Floor, Ceiling
<1>4. CASE i = 1
  <2>1. Seen = {}
    BY <1>4 DEF Seen
  <2>2. best' = f
    BY <1>2, <1>4 DEF MayKeep, Nearer, IInv, LoopInv
  <2> QED
    BY <1>1, <1>3, <2>1, <2>2 DEF f
<1>5. CASE i > 1
  <2>1. /\ best \in Fruits /\ bestScore = Score(best)
        /\ \A x \in Seen : Deviation(Score(best)) <= Deviation(Score(x))
    BY <1>1, <1>5 DEF IInv, LoopInv, Shape
  <2>2. bestScore # None
    BY <2>1, ScoreRange, ProfitConstants, Amount DEF IInv, Floor, Ceiling
  <2>3. CASE MayTake(f) /\ best' = f
    <3>1. Deviation(Score(f)) <= Deviation(Score(best))
      BY <1>1, <1>3, <2>1, <2>2, <2>3 DEF MayTake, Nearer, Ties
    <3> QED
      BY <1>1, <1>3, <2>1, <2>3, <3>1 DEF f
  <2>4. CASE MayKeep(f) /\ best' = best
    <3>1. Deviation(Score(best)) <= Deviation(Score(f))
      BY <1>1, <1>3, <2>1, <2>2, <2>4 DEF MayKeep, Nearer
    <3> QED
      BY <2>1, <2>4, <3>1 DEF f
  <2> QED
    BY <1>2, <2>3, <2>4
<1> QED
  BY <1>1, <1>4, <1>5

\* A turn of the loop changes only the best fruit and the position.
LEMMA WeighStep == ASSUME IInv, WeighFruit PROVE IInv'
<1> DEFINE f == Order[i]
<1>1. f \in Fruits /\ i \in 1..8
  BY OrderFruits DEF WeighFruit
<1>2. /\ UNCHANGED <<round, bets, occurrences, lastX45, settled>> /\ i' = i + 1 /\ Total > 0
      /\ \/ MayTake(f) /\ best' = f /\ bestScore' = Score(f)
         \/ MayKeep(f) /\ UNCHANGED <<best, bestScore>>
  BY DEF WeighFruit
<1> HIDE DEF f
<1>3. Shape' /\ Shape
  BY <1>1, <1>2 DEF IInv, Shape
<1>4. Total' = Total /\ \A x \in Fruits : Profit(x)' = Profit(x)
  BY <1>2 DEF Total, Profit
<1>5. Seen' = Seen \cup {f}
  BY <1>1, <1>2 DEF Seen, f
<1>6. Seen \subseteq Fruits
  BY <1>1, OrderFruits DEF Seen
<1>7. best \in Fruits /\ (i > 1 => bestScore = Score(best)) /\ (i = 1 => bestScore = None)
  BY <1>1, <1>3 DEF IInv, LoopInv, Shape
<1>7a. /\ Floor' = Floor /\ Ceiling' = Ceiling
       /\ bestScore # None => bestScore \in Floor..Ceiling
  BY <1>4 DEF Floor, Ceiling, IInv, LoopInv
<1>7b. \A x \in Fruits : Deviation(Score(x))' = Deviation(Score(x))
  BY <1>2 DEF Total, Profit, Score, ScoreWith, Clamped, Floor, Ceiling, Target, Deviation,
     RecencyFactor, X45Recent, X45BetFactor, FrequencyFactor, BetSizeFactor
<1>7c. \A x \in Seen' : Deviation(Score(best))' <= Deviation(Score(x))'
  <2>1. best' \in Fruits /\ Deviation(Score(best))' = Deviation(Score(best'))
    BY <1>2, <1>3 DEF Shape, Total, Profit, Score, ScoreWith, Clamped, Floor, Ceiling, Target, Deviation,
       RecencyFactor, X45Recent, X45BetFactor, FrequencyFactor, BetSizeFactor
  <2> QED
    BY <1>1, <1>5, <1>6, <1>7b, <2>1, WeighNearest DEF f
<1>8. i > 1 => bestScore # None
  BY <1>3, <1>7, ScoreRange, ProfitConstants, Amount DEF Floor, Ceiling
<1> DEFINE P == \A x \in Seen' : Profit(x)' > 0 => Profit(best)' > 0
<1>9. CASE MayTake(f) /\ best' = f /\ bestScore' = Score(f)
  <2>0. Profit(best)' = Profit(f) /\ Score(best)' = Score(f)
    BY <1>2, <1>4, <1>9 DEF Total, Profit, Score, ScoreWith, Clamped, Floor, Ceiling, RecencyFactor,
       X45Recent, X45BetFactor, FrequencyFactor, BetSizeFactor
  <2>1. ASSUME i > 1, Profit(best) > 0, ~ (Profit(f) > 0) PROVE FALSE
    <3>1. Score(f) = Floor /\ Score(best) \in Floor..Ceiling
      BY <1>1, <1>3, <1>7, <2>1, ScoreRange, Amount
    <3>2. /\ Deviation(Score(best)) <= Deviation(Floor)
          /\ Deviation(Score(best)) = Deviation(Floor) => Score(best) = Floor
      BY <1>2, <1>3, <3>1, FloorIsFarthest
    <3>3. Deviation(Floor) \in Int /\ Deviation(Score(best)) \in Int
      BY <1>3, <3>1, Amount DEF Deviation, Floor, Ceiling, Target
    <3>4. ~ Nearer(f)
      BY <1>7, <1>8, <2>1, <3>1, <3>2, <3>3 DEF Nearer
    <3>5. Ties(f) /\ (AtLimit(f) => TakesTie(f))
      BY <1>9, <3>4 DEF MayTake
    <3>6. AtLimit(f)
      BY <1>7, <2>1, <3>1, <3>2, <3>5 DEF Ties, AtLimit
    <3> QED
      BY <2>1, <3>5, <3>6 DEF TakesTie
  <2>2. P
    <3> SUFFICES ASSUME NEW x \in Seen', Profit(x)' > 0 PROVE Profit(f) > 0
      BY <2>0
    <3>1. CASE x = f
      BY <1>1, <1>4, <3>1
    <3>2. CASE x \in Seen
      <4>1. i > 1
        BY <1>1, <3>2 DEF Seen
      <4>2. Profit(best) > 0
        BY <1>4, <1>6, <3>2 DEF IInv, LoopInv
      <4> QED
        BY <1>1, <1>4, <2>1, <4>1, <4>2
    <3> QED
      BY <1>5, <3>1, <3>2
  <2> QED
    <3>1. bestScore' \in (Floor..Ceiling)'
      BY <1>1, <1>3, <1>9, <1>7a, ScoreRange
    <3> QED
      BY <1>1, <1>2, <1>3, <1>4, <1>9, <1>7c, <2>0, <2>2, <3>1 DEF IInv, LoopInv
<1>10. CASE MayKeep(f) /\ UNCHANGED <<best, bestScore>>
  <2>1. i > 1
    BY <1>1, <1>7, <1>10 DEF MayKeep, Nearer
  <2>2. ASSUME Profit(f) > 0, ~ (Profit(best) > 0) PROVE FALSE
    <3>1. bestScore = Floor /\ Score(f) \in Floor..Ceiling
      BY <1>1, <1>3, <1>7, <2>1, <2>2, ScoreRange, Amount
    <3>2. /\ Deviation(Score(f)) <= Deviation(Floor)
          /\ Deviation(Score(f)) = Deviation(Floor) => Score(f) = Floor
      BY <1>2, <1>3, <3>1, FloorIsFarthest
    <3>3. Deviation(Floor) \in Int /\ Deviation(Score(f)) \in Int
      BY <1>3, <3>1, Amount DEF Deviation, Floor, Ceiling, Target
    <3>4. Deviation(Score(f)) = Deviation(Floor)
      BY <1>8, <1>10, <2>1, <3>1, <3>2, <3>3 DEF MayKeep, Nearer
    <3>5. Ties(f) /\ AtLimit(f)
      BY <1>8, <2>1, <3>1, <3>2, <3>4 DEF Ties, AtLimit
    <3> QED
      BY <1>10, <2>2, <3>5 DEF MayKeep, TakesTie
  <2>0. Profit(best)' = Profit(best) /\ Score(best)' = Score(best)
    BY <1>2, <1>4, <1>10 DEF Total, Profit, Score, ScoreWith, Clamped, Floor, Ceiling, RecencyFactor,
       X45Recent, X45BetFactor, FrequencyFactor, BetSizeFactor
  <2>3. P
    <3> SUFFICES ASSUME NEW x \in Seen', Profit(x)' > 0 PROVE Profit(best) > 0
      BY <2>0
    <3>1. CASE x = f
      BY <1>1, <1>4, <2>2, <3>1
    <3>2. CASE x \in Seen
      BY <1>4, <1>6, <3>2 DEF IInv, LoopInv
    <3> QED
      BY <1>5, <3>1, <3>2
  <2> QED
    BY <1>1, <1>2, <1>3, <1>4, <1>7, <1>10, <1>7a, <1>7c, <2>0, <2>1, <2>3 DEF IInv, LoopInv
<1> QED
  BY <1>2, <1>9, <1>10

LEMMA StepInv == IInv /\ [Next]_vars => IInv'
<1> SUFFICES ASSUME IInv, [Next]_vars PROVE IInv'
  OBVIOUS
<1>1. ASSUME NEW b \in Bets, NEW gap \in Gaps, BeginRound(b, gap) PROVE IInv'
  <2>1. Shape'
    BY <1>1, ProfitConstants DEF BeginRound, IInv, Shape, Fruits
  <2>2. LoopInv'
    BY <1>1 DEF BeginRound, LoopInv, Seen
  <2> QED
    BY <2>1, <2>2 DEF IInv
<1>2. CASE WeighFruit
  BY <1>2, WeighStep
<1>3. ASSUME NEW f \in Fruits, Settle(f) PROVE IInv'
  <2>1. Shape'
    BY <1>3, ProfitConstants DEF Settle, Rest, IInv, Shape, Fruits
  <2>2. LoopInv'
    BY <1>3 DEF Settle, Rest, LoopInv, Seen
  <2> QED
    BY <2>1, <2>2 DEF IInv
<1>4. CASE SettleEmpty
  BY <1>3, <1>4 DEF SettleEmpty
<1>5. CASE SettleBest
  BY <1>3, <1>5 DEF SettleBest, IInv, Shape
<1>6. CASE UNCHANGED vars
  <2>1. Shape'
    BY <1>6 DEF vars, locals, IInv, Shape
  <2>2. /\ Seen' = Seen /\ Total' = Total /\ Floor' = Floor /\ Ceiling' = Ceiling
        /\ UNCHANGED <<i, best, bestScore>>
    BY <1>6 DEF vars, locals, Seen, Total, Floor, Ceiling
  <2>3. /\ Profit(best)' = Profit(best) /\ Score(best)' = Score(best)
        /\ Deviation(Score(best))' = Deviation(Score(best))
    BY <1>6 DEF vars, locals, Total, Profit, Score, ScoreWith, Clamped, Floor, Ceiling, Target,
       Deviation, RecencyFactor, X45Recent, X45BetFactor, FrequencyFactor, BetSizeFactor
  <2>4. ASSUME NEW x \in Seen
        PROVE  Profit(x)' = Profit(x) /\ Deviation(Score(x))' = Deviation(Score(x))
    BY <1>6 DEF vars, locals, Total, Profit, Score, ScoreWith, Clamped, Floor, Ceiling, Target,
       Deviation, RecencyFactor, X45Recent, X45BetFactor, FrequencyFactor, BetSizeFactor
  <2>5. LoopInv'
    BY <2>2, <2>3, <2>4 DEF IInv, LoopInv
  <2> QED
    BY <2>1, <2>5 DEF IInv
<1>7. CASE Abandon
  <2>1. Shape'
    BY <1>7, ProfitConstants DEF Abandon, Rest, IInv, Shape, Fruits
  <2>2. LoopInv'
    BY <1>7 DEF Abandon, Rest, LoopInv, Seen
  <2> QED
    BY <2>1, <2>2 DEF IInv
<1>8. CASE ResetStats
  <2>1. Shape'
    BY <1>8 DEF ResetStats, locals, IInv, Shape
  <2>2. i \notin 2..8
    BY <1>8 DEF ResetStats, Drawn
  <2>3. LoopInv'
    BY <1>8, <2>2 DEF ResetStats, locals, IInv, LoopInv, Seen, Total, Profit, Floor, Ceiling
  <2> QED
    BY <2>1, <2>3 DEF IInv
<1> QED
  BY <1>1, <1>2, <1>4, <1>5, <1>6, <1>7, <1>8 DEF Next

\* The loop maintains its invariant in every behavior.
THEOREM LoopCorrect == Spec => []IInv
  BY InitInv, StepInv, PTL DEF Spec

\* The loop ends with the fruit nearest to the target, whatever is bet and
\* whatever the process has counted.
THEOREM LoopFindsNearest == Spec => NearestToTarget
<1>1. IInv /\ [Next]_vars => (i = 8 /\ i' = 9 =>
        \A f \in Fruits : Deviation(Score(best')) <= Deviation(Score(f)))
  <2> SUFFICES ASSUME IInv, [Next]_vars, i = 8, i' = 9
               PROVE  \A f \in Fruits : Deviation(Score(best')) <= Deviation(Score(f))
    OBVIOUS
  <2>1. WeighFruit
    BY DEF Next, vars, locals, BeginRound, SettleEmpty, SettleBest, Settle, Rest, Abandon, ResetStats
  <2>2. Fruits \subseteq Seen \cup {Order[i]}
    <3> SUFFICES ASSUME NEW f \in Fruits PROVE \E k \in 1..8 : Order[k] = f
      BY DEF Seen
    <3> QED
      BY DEF Fruits, Order
  <2> QED
    BY <2>1, <2>2, WeighNearest
<1> QED
  BY <1>1, LoopCorrect, PTL DEF Spec, NearestToTarget

\* Every variable keeps its type, and the best score stays within the limits.
THEOREM TypeCorrect == Spec => []TypeOK
<1>1. IInv => TypeOK
  <2> SUFFICES ASSUME IInv PROVE TypeOK
    OBVIOUS
  <2> QED
    BY DEF IInv, Shape, LoopInv, TypeOK
<1> QED
  BY <1>1, LoopCorrect, PTL

\* Whatever the players bet, and whatever the process has counted, the fruit
\* taken at the end of the loop leaves the house a profit.
THEOREM HouseNeverLosesAtAll == Spec => []HouseNeverLoses
<1>1. IInv => HouseNeverLoses
  <2> SUFFICES ASSUME IInv, i = 9 PROVE Profit(best) > 0
    BY DEF HouseNeverLoses
  <2>1. Total > 0 /\ Shape
    BY DEF IInv, LoopInv
  <2>2. PICK f \in Fruits : Profit(f) > 0
    BY <2>1, SomeProfit
  <2> QED
    BY <2>2, AllSeen DEF IInv, LoopInv
<1> QED
  BY <1>1, LoopCorrect, PTL
=============================================================================
