---------------------------- MODULE FruitJackpot ----------------------------
(***************************************************************************)
(* The fruit jackpot of cloud/main.js: a bet is taken for the clock's      *)
(* round unless the round is about to end, debited and filed; a call that  *)
(* a cron job makes draws the fruit of the round before and pays the bets  *)
(* on it.                                                                  *)
(***************************************************************************)
EXTENDS CloudStore

CONSTANTS
  JackpotMultiplier,  \* FJ_MULTIPLIERS
  JackpotDuration,    \* FJ_ROUND_DURATION
  Closing,            \* betting ends this many seconds before the round does
  MaxJackpotBets      \* bound: rows of FruitJackpotBets

ASSUME JackpotConstants ==
  /\ JackpotMultiplier \in [Fruits -> Nat \ {0}]
  /\ JackpotDuration \in Nat \ {0} /\ Closing \in 0..JackpotDuration
  /\ MaxJackpotBets \in Nat

VARIABLES
  jackpotBets,     \* rows of FruitJackpotBets, in the order they were saved
  jackpotResults,  \* rows of FruitJackpotResults, by round, in the order they were saved
  timesPaid        \* history: how often each row was paid

jackpotVars == <<jackpotBets, jackpotResults, timesPaid>>

JackpotRound(t) == t \div JackpotDuration
JackpotRounds == 0..JackpotRound(MaxNow)
JackpotRow ==
  [user : Users, round : JackpotRounds, choice : Fruits, amount : Nat, isWinner : BOOLEAN]

JackpotInit ==
  /\ jackpotBets = <<>>
  /\ jackpotResults = [r \in JackpotRounds |-> <<>>]
  /\ timesPaid = <<>>

-----------------------------------------------------------------------------
\* Mutant: betting is open to the end of the round.
BettingOpen_Always(t) == TRUE

BettingOpen(t) == t % JackpotDuration <= JackpotDuration - Closing

\* fruit_jackpot_bet: the round is the clock's at the start.
JackpotBet(h, u, f, g) ==
  /\ BettingOpen(now)
  /\ Begin(h, [at |-> "jfetch", user |-> u, choice |-> f, gold |-> g, since |-> now])
  /\ UNCHANGED jackpotVars

JackpotFetchBalance(h) ==
  /\ pc[h].at = "jfetch"
  /\ IF credit[pc[h].user] < pc[h].gold THEN End(h) ELSE Continue(h, [pc[h] EXCEPT !.at = "jdebit"])
  /\ UNCHANGED jackpotVars

JackpotDebit(h) ==
  /\ pc[h].at = "jdebit"
  /\ AddCredit(pc[h].user, -pc[h].gold)
  /\ Goto(h, [pc[h] EXCEPT !.at = "jfile"])
  /\ UNCHANGED <<now, served, jackpotVars>>

JackpotFile(h) ==
  LET p == pc[h] IN
  /\ p.at = "jfile" /\ Len(jackpotBets) < MaxJackpotBets
  /\ jackpotBets' = Append(jackpotBets,
       [user |-> p.user, round |-> JackpotRound(p.since), choice |-> p.choice,
        amount |-> p.gold, isWinner |-> FALSE])
  /\ timesPaid' = Append(timesPaid, 0)
  /\ End(h)
  /\ UNCHANGED jackpotResults

-----------------------------------------------------------------------------
\* fruit_jackpot_process_round.  For a round with a result the answer is
\* "Already processed", which changes nothing; before round 0 nothing is bet.
ProcessRound(h) ==
  /\ JackpotRound(now) > 0 /\ jackpotResults[JackpotRound(now) - 1] = <<>>
  /\ Begin(h, [at |-> "jdraw", round |-> JackpotRound(now) - 1])
  /\ UNCHANGED jackpotVars

\* The fruit is random.
JackpotSaveResult(h) ==
  LET p == pc[h] IN
  /\ p.at = "jdraw"
  /\ \E f \in Fruits :
       /\ jackpotResults' = [jackpotResults EXCEPT ![p.round] = Append(@, f)]
       /\ Continue(h, [at |-> "jwinners", round |-> p.round, fruit |-> f])
  /\ UNCHANGED <<jackpotBets, timesPaid>>

\* Mutant: the bets on every fruit win.
Winning_AllBets(r, f) == {n \in DOMAIN jackpotBets : jackpotBets[n].round = r}

Winning(r, f) ==
  {n \in DOMAIN jackpotBets : jackpotBets[n].round = r /\ jackpotBets[n].choice = f}

JackpotFindWinners(h) ==
  LET p == pc[h] IN
  /\ p.at = "jwinners"
  /\ Continue(h, [at |-> "jpay", left |-> Winning(p.round, p.fruit), fruit |-> p.fruit])
  /\ UNCHANGED jackpotVars

\* One winner's credit is raised, then its bet is marked, in two calls.
JackpotPay(h) ==
  LET p == pc[h] IN
  /\ p.at = "jpay"
  /\ \E n \in p.left :
       /\ AddCredit(jackpotBets[n].user, JackpotMultiplier[p.fruit] * jackpotBets[n].amount)
       /\ timesPaid' = [timesPaid EXCEPT ![n] = @ + 1]
       /\ Goto(h, [at |-> "jmark", bet |-> n, left |-> p.left \ {n}, fruit |-> p.fruit])
  /\ UNCHANGED <<now, served, jackpotBets, jackpotResults>>

JackpotMark(h) ==
  LET p == pc[h] IN
  /\ p.at = "jmark"
  /\ jackpotBets' = [jackpotBets EXCEPT ![p.bet].isWinner = TRUE]
  /\ Continue(h, [at |-> "jpay", left |-> p.left, fruit |-> p.fruit])
  /\ UNCHANGED <<jackpotResults, timesPaid>>

Processed(h) ==
  /\ pc[h].at = "jpay" /\ pc[h].left = {}
  /\ End(h)
  /\ UNCHANGED jackpotVars

JackpotStep(h) ==
  \/ \E u \in Users, f \in Fruits, g \in Gold : JackpotBet(h, u, f, g)
  \/ JackpotFetchBalance(h) \/ JackpotDebit(h) \/ JackpotFile(h)
  \/ ProcessRound(h) \/ JackpotSaveResult(h) \/ JackpotFindWinners(h)
  \/ JackpotPay(h) \/ JackpotMark(h) \/ Processed(h)

-----------------------------------------------------------------------------
\* The rows have the shape the handlers give them.
JackpotTypeOK ==
  /\ jackpotBets \in Seq(JackpotRow)
  /\ jackpotResults \in [JackpotRounds -> Seq(Fruits)]
  /\ timesPaid \in [DOMAIN jackpotBets -> Nat]

\* A bet marked as a winner was paid and names a fruit its round drew, wherever
\* processing was cut short and however often it was begun.
MarkedArePaid ==
  \A n \in DOMAIN jackpotBets :
    LET b == jackpotBets[n] IN
    b.isWinner => timesPaid[n] > 0 /\ \E k \in DOMAIN jackpotResults[b.round] :
      jackpotResults[b.round][k] = b.choice

\* The seconds between closing and the end of the round are there for the bets
\* on the way: one filed before they are over is in time for the processing.
TimelyBetCounts ==
  [][\A h \in Slots :
       JackpotFile(h) /\ now < pc[h].since + Closing =>
         jackpotResults[JackpotRound(pc[h].since)] = <<>>]_shared

\* Gold requests took from a player's balance and have not filed yet, and gold
\* a round being processed still has to pay.
JackpotDebited(u) ==
  SumFunction([h \in {k \in Slots : pc[k].at = "jfile" /\ pc[k].user = u} |-> pc[h].gold])
AmountOf(rows, u) == SumFunction([n \in {m \in rows : jackpotBets[m].user = u} |-> jackpotBets[n].amount])
JackpotOwed(u) ==
  LET Due(p) == IF p.at = "jwinners" THEN Winning(p.round, p.fruit) ELSE p.left
  IN SumFunction([h \in {k \in Slots : pc[k].at \in {"jwinners", "jpay", "jmark"}} |->
       JackpotMultiplier[pc[h].fruit] * AmountOf(Due(pc[h]), u)])
SumOfBets(amount, u) ==
  SumFunctionOnSet(amount, {n \in DOMAIN jackpotBets : jackpotBets[n].user = u})
=============================================================================
