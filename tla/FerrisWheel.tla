----------------------------- MODULE FerrisWheel -----------------------------
(***************************************************************************)
(* The ferris wheel of cloud/main.js: game_choice debits a bet and files   *)
(* it, game_info settles the round before the current one if it finds it   *)
(* unsettled, game_reset deletes a player's bets.  The fruit drawn is any  *)
(* fruit; SmartProfit models which one calculateOptimalFruit takes.        *)
(***************************************************************************)
EXTENDS CloudStore

CONSTANTS
  WheelMultiplier,  \* FRUIT_MULTIPLIERS
  WheelDuration,    \* ROUND_DURATION
  BetIds,           \* bound: rows the FerrisWheelChoices table can hold
  Deleted           \* a row that a reset deleted; its id is not used again

ASSUME WheelConstants ==
  /\ WheelMultiplier \in [Fruits -> Nat \ {0}]
  /\ WheelDuration \in Nat \ {0}
  /\ IsFiniteSet(BetIds)
  /\ None # Deleted

VARIABLES
  profit,   \* user.gameProfit
  bets,     \* rows of FerrisWheelChoices
  results,  \* rows of FerrisWheelResults, by round, in the order they were saved
  recorded, \* profitSystem.roundStats: the rounds entered into the statistics
  staked,   \* history: gold filed per user, round and fruit
  paid      \* history: gold paid per user, round and fruit

wheelVars == <<profit, bets, results, recorded, staked, paid>>

WheelRound == now \div WheelDuration
WheelRounds == 0..(MaxNow \div WheelDuration)
Places == Users \X WheelRounds \X Fruits
Row == [user : Users, round : WheelRounds, choice : Fruits, gold : Nat]

\* What stands for no row, or for a deleted one, is none.
ASSUME NoRows == None \notin Row /\ Deleted \notin Row

\* The rows satisfying a query.
Rows == {b \in BetIds : bets[b] \notin {None, Deleted}}
RowsOf(u, r, f) ==
  {b \in Rows : bets[b].user = u /\ bets[b].round = r /\ bets[b].choice = f}
RowsOfRound(r) == {b \in Rows : bets[b].round = r}
RowsOfUser(u) == {b \in Rows : bets[b].user = u}
GoldOf(rows) == SumFunction([b \in rows |-> bets[b].gold])

WheelInit ==
  /\ profit = [u \in Users |-> 0]
  /\ bets = [b \in BetIds |-> None]
  /\ results = [r \in WheelRounds |-> <<>>]
  /\ recorded = <<>>
  /\ staked = [p \in Places |-> 0]
  /\ paid = [p \in Places |-> 0]

-----------------------------------------------------------------------------
\* game_choice: the round is the clock's at the start, whatever follows.
GameChoice(h, u, f, g) ==
  /\ Begin(h, [at |-> "fetch", user |-> u, choice |-> f, gold |-> g, round |-> WheelRound])
  /\ UNCHANGED wheelVars

\* The balance read here decides; the decrement of Debit is another call.
FetchBalance(h) ==
  /\ pc[h].at = "fetch"
  /\ IF credit[pc[h].user] < pc[h].gold THEN End(h) ELSE Continue(h, [pc[h] EXCEPT !.at = "debit"])
  /\ UNCHANGED wheelVars

\* Mutant: the decremented user is not saved.
Debit_NotSaved(h) ==
  /\ pc[h].at = "debit"
  /\ Continue(h, [pc[h] EXCEPT !.at = "find"])
  /\ UNCHANGED wheelVars

Debit(h) ==
  /\ pc[h].at = "debit"
  /\ AddCredit(pc[h].user, -pc[h].gold)
  /\ Goto(h, [pc[h] EXCEPT !.at = "find"])
  /\ UNCHANGED <<now, served, wheelVars>>

AtRow(p, at, b) ==
  [at |-> at, user |-> p.user, choice |-> p.choice, gold |-> p.gold, round |-> p.round, row |-> b]

FindBet(h) ==
  LET p == pc[h]
      rows == RowsOf(p.user, p.round, p.choice)
  IN
  /\ p.at = "find"
  /\ IF rows = {} THEN Continue(h, AtRow(p, "insert", None))
     ELSE \E b \in rows : Continue(h, AtRow(p, "raise", b))
  /\ UNCHANGED wheelVars

Filed(p) == staked' = [staked EXCEPT ![<<p.user, p.round, p.choice>>] = @ + p.gold]

\* Mutant: the row is filed under the round of the clock as it is then.
InsertBet_RoundNow(h) ==
  LET p == pc[h] IN
  /\ p.at = "insert"
  /\ \E b \in BetIds :
       /\ bets[b] = None
       /\ bets' = [bets EXCEPT ![b] =
            [user |-> p.user, round |-> WheelRound, choice |-> p.choice, gold |-> p.gold]]
  /\ Filed(p)
  /\ End(h)
  /\ UNCHANGED <<profit, results, recorded, paid>>

InsertBet(h) ==
  LET p == pc[h] IN
  /\ p.at = "insert"
  /\ \E b \in BetIds :
       /\ bets[b] = None
       /\ bets' = [bets EXCEPT ![b] =
            [user |-> p.user, round |-> p.round, choice |-> p.choice, gold |-> p.gold]]
  /\ Filed(p)
  /\ End(h)
  /\ UNCHANGED <<profit, results, recorded, paid>>

\* Saving a row that a reset deleted meanwhile fails: the bet is lost.
RaiseBet(h) ==
  LET p == pc[h] IN
  /\ p.at = "raise"
  /\ IF p.row \in Rows
     THEN bets' = [bets EXCEPT ![p.row].gold = @ + p.gold] /\ Filed(p)
     ELSE UNCHANGED <<bets, staked>>
  /\ End(h)
  /\ UNCHANGED <<profit, results, recorded, paid>>

-----------------------------------------------------------------------------
\* Mutant: the round in progress is settled.
GameInfo_ThisRound(h) ==
  /\ WheelRound > 0 /\ results[WheelRound] = <<>>
  /\ Begin(h, [at |-> "draw", round |-> WheelRound])
  /\ UNCHANGED wheelVars

\* game_info, from the query for the last round's result on.  A settled round
\* is only reported, which changes nothing.
GameInfo(h) ==
  /\ WheelRound > 0 /\ results[WheelRound - 1] = <<>>
  /\ Begin(h, [at |-> "draw", round |-> WheelRound - 1])
  /\ UNCHANGED wheelVars

\* A fruit is drawn by the bets of the round, and saved as its result.
SaveResult(h) ==
  LET p == pc[h] IN
  /\ p.at = "draw"
  /\ \E f \in Fruits :
       /\ results' = [results EXCEPT ![p.round] = Append(@, f)]
       /\ Continue(h, [at |-> "winners", round |-> p.round, fruit |-> f])
  /\ UNCHANGED <<profit, bets, recorded, staked, paid>>

Paying(p, rows) ==
  [at |-> "pay", round |-> p.round, fruit |-> p.fruit,
   left |-> {[id |-> b, user |-> bets[b].user, gold |-> bets[b].gold] : b \in rows}]

\* Mutant: the bets on every fruit win.
FindWinners_AllBets(h) ==
  /\ pc[h].at = "winners"
  /\ Continue(h, Paying(pc[h], RowsOfRound(pc[h].round)))
  /\ UNCHANGED wheelVars

\* The winning bets are read now; each is paid what it held then.
FindWinners(h) ==
  /\ pc[h].at = "winners"
  /\ Continue(h, Paying(pc[h], {b \in RowsOfRound(pc[h].round) : bets[b].choice = pc[h].fruit}))
  /\ UNCHANGED wheelVars

PayWinner(h) ==
  LET p == pc[h] IN
  /\ p.at = "pay"
  /\ \E w \in p.left :
       LET win == WheelMultiplier[p.fruit] * w.gold IN
       /\ AddCredit(w.user, win)
       /\ profit' = [profit EXCEPT ![w.user] = @ + win]
       /\ paid' = [paid EXCEPT ![<<w.user, p.round, p.fruit>>] = @ + win]
       /\ Goto(h, [p EXCEPT !.left = @ \ {w}])
  /\ UNCHANGED <<now, served, bets, results, recorded, staked>>

\* After the last winner the statistics are updated in the same turn.
RecordRound(h) ==
  /\ pc[h].at = "pay" /\ pc[h].left = {}
  /\ recorded' = Append(recorded, pc[h].round)
  /\ End(h)
  /\ UNCHANGED <<profit, bets, results, staked, paid>>

-----------------------------------------------------------------------------
\* What game_info answers: the gold on a fruit in this round, and the winners of the last
\* round with their wins.  Of several rows of a player it shows one, hence the sets.
LastSettled == WheelRound > 0 /\ results[WheelRound - 1] # <<>>
LastFruit == Head(results[WheelRound - 1])
Win(b) == WheelMultiplier[LastFruit] * bets[b].gold

Selected(u, f) == {bets[b].gold : b \in RowsOf(u, WheelRound, f)}
WinGold(u) == {Win(b) : b \in RowsOf(u, WheelRound - 1, LastFruit)}
TopList ==
  {[uid |-> bets[b].user, total |-> Win(b)] :
     b \in {c \in RowsOfRound(WheelRound - 1) : bets[c].choice = LastFruit}}

-----------------------------------------------------------------------------
\* game_reset: the rows found are deleted one by one, then the profit is zeroed.
GameReset(h, u) ==
  /\ Begin(h, [at |-> "reset", user |-> u, left |-> RowsOfUser(u)])
  /\ UNCHANGED wheelVars

DestroyBet(h) ==
  /\ pc[h].at = "reset"
  /\ \E b \in pc[h].left \cap Rows :
       /\ bets' = [bets EXCEPT ![b] = Deleted]
       /\ Continue(h, [pc[h] EXCEPT !.left = @ \ {b}])
  /\ UNCHANGED <<profit, results, recorded, staked, paid>>

\* Rows another reset deleted first make destroyAll an error.
DestroyFails(h) ==
  /\ pc[h].at = "reset" /\ pc[h].left # {} /\ pc[h].left \cap Rows = {}
  /\ End(h)
  /\ UNCHANGED wheelVars

ZeroProfit(h) ==
  /\ pc[h].at = "reset" /\ pc[h].left = {}
  /\ profit' = [profit EXCEPT ![pc[h].user] = 0]
  /\ End(h)
  /\ UNCHANGED <<bets, results, recorded, staked, paid>>

-----------------------------------------------------------------------------
\* admin_reset_profit_stats.
ResetStats ==
  /\ recorded # <<>>
  /\ recorded' = <<>>
  /\ UNCHANGED <<shared, profit, bets, results, staked, paid>>

WheelStep(h) ==
  \/ \E u \in Users : GameReset(h, u) \/ \E f \in Fruits, g \in Gold : GameChoice(h, u, f, g)
  \/ FetchBalance(h) \/ Debit(h) \/ FindBet(h) \/ InsertBet(h) \/ RaiseBet(h)
  \/ GameInfo(h) \/ SaveResult(h) \/ FindWinners(h) \/ PayWinner(h) \/ RecordRound(h)
  \/ DestroyBet(h) \/ DestroyFails(h) \/ ZeroProfit(h)

-----------------------------------------------------------------------------
\* A row always holds gold.
WheelTypeOK ==
  /\ profit \in [Users -> Nat]
  /\ \A b \in Rows : bets[b] \in Row /\ bets[b].gold > 0
  /\ \A r \in WheelRounds : results[r] \in Seq(Fruits)
  /\ recorded \in Seq(WheelRounds)
  /\ staked \in [Places -> Nat] /\ paid \in [Places -> Nat]

\* However requests interleave, fail and are cut short, a player is paid for a
\* fruit at most once per result of the round that names it, and at most the
\* winnings of what was filed on it.
PaidForResults ==
  \A u \in Users, r \in WheelRounds, f \in Fruits :
    LET drawn == Cardinality({i \in DOMAIN results[r] : results[r][i] = f})
        place == <<u, r, f>>
    IN paid[place] <= drawn * WheelMultiplier[f] * staked[place]

\* A round is settled only when the clock has left it: a request that read the
\* clock before a tick settles the round before its own.
SettledAfterClose ==
  \A r \in WheelRounds : results[r] # <<>> => r < WheelRound

\* What game_info shows between requests is what happened: the bets of this round are what
\* was filed on it, and the winners of the last one were paid what they are said to have
\* won, unless rows were deleted.  It reads one row of a player's bets on a fruit.
ShownAsBooked ==
  AtRest /\ (\A b \in BetIds : bets[b] # Deleted) =>
    /\ \A u \in Users, f \in Fruits : Selected(u, f) = {staked[<<u, WheelRound, f>>]} \ {0}
    /\ LastSettled =>
         \A u \in Users : WinGold(u) = {paid[<<u, WheelRound - 1, LastFruit>>]} \ {0}
    /\ LastSettled => \A w \in TopList : paid[<<w.uid, WheelRound - 1, LastFruit>>] = w.total

\* Gold requests took from a player's balance and have not filed yet, and gold
\* a settlement in progress still has to pay.
WheelDebited(u) ==
  SumFunction([h \in {k \in Slots : pc[k].at \in {"find", "insert", "raise"} /\ pc[k].user = u} |-> pc[h].gold])
WinningsLeft(p, u) == SumFunction([w \in {v \in p.left : v.user = u} |-> w.gold])
WheelOwed(u) ==
  SumFunction([h \in {k \in Slots : pc[k].at \in {"winners", "pay"}} |->
    WheelMultiplier[pc[h].fruit] *
      IF pc[h].at = "winners" THEN GoldOf(RowsOf(u, pc[h].round, pc[h].fruit)) ELSE WinningsLeft(pc[h], u)])
OfUser(f, u) == SumFunctionOnSet(f, {u} \X WheelRounds \X Fruits)
=============================================================================
