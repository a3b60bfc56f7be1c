----------------------------- MODULE MCCloudCode -----------------------------
(***************************************************************************)
(* CloudCode for TLC, in two settings: "any", with calls that fail,        *)
(* restarts and the user cache, for three requests, two at a time; and     *)
(* "serial", without them, for four requests one after the other.          *)
(***************************************************************************)
EXTENDS CloudCode, TLC

CONSTANTS u1, u2, f1, f2, t1, t2, fake

\* A fruit of low and one of high multiplier.
MCMultiplier == [f \in Fruits |-> IF f = f1 THEN 2 ELSE 3]
MCBuyer == [t \in Transactions |-> u1]
MCCoins == [t \in Transactions |-> IF t = t1 THEN 1 ELSE 2]
OnePair == {<<u1, u1>>, <<u1, u2>>}
BothPairs == {<<u1, u2>>, <<u2, u1>>, <<u1, u1>>}
NoPair == {}

VARIABLE setting
mcvars == <<vars, setting>>

OneReal == {t1}
AndFake == {t1, fake}
AnyOrder == INSTANCE CloudCode WITH MaxRequests <- 3, Transactions <- AndFake, Genuine <- OneReal
OneByOne == INSTANCE CloudCode WITH Failures <- FALSE, CacheUsed <- FALSE, Pairs <- NoPair

OnlyOne(h) == \A k \in Slots \ {h} : pc[k] = Idle
OneAtATime == \A h \in Slots : pc[h] = Idle \/ OnlyOne(h)
Setting ==
  \/ setting = "any" /\ AnyOrder!Next
  \/ setting = "serial" /\ OneByOne!Next /\ OneAtATime'

MCInit == Init /\ setting \in {"any", "serial"}
MCNext == Setting /\ UNCHANGED setting
MCSpec == MCInit /\ [][MCNext]_mcvars

\* When requests come one by one, and none is cut short, game_info shows a player's bets
\* as they were filed and the winners as they were paid.
SerialShowsTheBooks == setting = "serial" => ShownAsBooked

\* One request at a time, none cut short and no user cache, the cloud functions keep the
\* promises of Ledger.
SerialKeepsPromise ==
  /\ Promise!Init
  /\ [][setting = "serial" => [Promise!Next]_(Promise!lvars)]_mcvars

\* The serial setting by itself, for whatever constants, which the proofs are about.
SerialNext == Next /\ OneAtATime' /\ UNCHANGED setting
SerialSpec == Init /\ setting = "serial" /\ [][SerialNext]_mcvars

\* Requests side by side and nothing else, which the CoinsAreAdded of CoinPurchases is about.
StaleSpec == Init /\ setting = "stale" /\ [][Next /\ UNCHANGED setting]_mcvars

Symm == Permutations(BetIds) \cup Permutations(Slots)
=============================================================================
