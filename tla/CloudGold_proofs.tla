-------------------------- MODULE CloudGold_proofs --------------------------
(***************************************************************************)
(* Proofs that the cloud functions keep account of the gold: none appears  *)
(* from nowhere, a ferris wheel bet is paid for results of its round, and  *)
(* requests served one at a time keep the promises of Ledger.  The sums    *)
(* are over any finite numbers of requests, rounds and bets.               *)
(***************************************************************************)
EXTENDS MCCloudCode, CloudCode_proofs

\* The gold a request has taken from u's balance and not filed yet.
Debt(j, u) == IF j.at \in {"find", "insert", "raise"} /\ j.user = u THEN j.gold ELSE 0
JDebt(j, u) == IF j.at = "jfile" /\ j.user = u THEN j.gold ELSE 0

LEMMA DebtTypes ==
  ASSUME NEW j \in Job, NEW u \in Users
  PROVE  /\ Debt(j, u) \in Nat /\ JDebt(j, u) \in Nat
         /\ j.at \in {"find", "insert", "raise", "jfile"} => j.gold \in Nat
  <1>1. j.at = "find" => j.gold \in Nat
    BY JobsByTag, StoreConstants DEF Bet
  <1>2. j.at = "insert" => j.gold \in Nat
    BY JobsByTag, StoreConstants DEF FiledBet
  <1>3. j.at = "raise" => j.gold \in Nat
    BY JobsByTag, StoreConstants DEF FiledBet
  <1>4. j.at = "jfile" => j.gold \in Nat
    BY JobsByTag, StoreConstants DEF JBet
  <1> QED
    BY <1>1, <1>2, <1>3, <1>4 DEF Debt, JDebt

\* What a step of slot h does to the gold that is on its way to a bet.
LEMMA DebitedChanges ==
  ASSUME Types, Types', NEW h \in Slots, Moves(h), NEW u \in Users
  PROVE  /\ WheelDebited(u)' = WheelDebited(u) + Debt(pc'[h], u) - Debt(pc[h], u)
         /\ JackpotDebited(u)' = JackpotDebited(u) + JDebt(pc'[h], u) - JDebt(pc[h], u)
  <1>1. /\ \A k \in Slots : pc[k] \in Job /\ pc'[k] \in Job
        /\ \A k \in Slots : k # h => pc'[k] = pc[k]
    BY DEF Types, PcTypes, Moves
  <1>2. WheelDebited(u)' = WheelDebited(u) + Debt(pc'[h], u) - Debt(pc[h], u)
    <2> DEFINE S == {k \in Slots : pc[k].at \in {"find", "insert", "raise"} /\ pc[k].user = u}
               T == {k \in Slots : pc'[k].at \in {"find", "insert", "raise"} /\ pc'[k].user = u}
               f == [k \in S |-> pc[k].gold]
               g == [k \in T |-> pc'[k].gold]
    <2>1. IsFiniteSet(S) /\ IsFiniteSet(T)
      BY StoreConstants, FS_Subset
    <2>2. (\A k \in S : f[k] \in Int) /\ (\A k \in T : g[k] \in Int)
      BY <1>1, DebtTypes
    <2>3. S \ {h} = T \ {h} /\ \A k \in S \ {h} : f[k] = g[k]
      BY <1>1
    <2>4. /\ Debt(pc'[h], u) = IF h \in T THEN g[h] ELSE 0
          /\ Debt(pc[h], u) = IF h \in S THEN f[h] ELSE 0
      BY DEF Debt
    <2>5. WheelDebited(u) = SumFunctionOnSet(f, S) /\ WheelDebited(u)' = SumFunctionOnSet(g, T)
      BY DEF WheelDebited, SumFunction
    <2> HIDE DEF S, T, f, g
    <2>6. SumFunctionOnSet(g, T) =
            SumFunctionOnSet(f, S) + (IF h \in T THEN g[h] ELSE 0) - (IF h \in S THEN f[h] ELSE 0)
      BY <2>1, <2>2, <2>3, SumChanges
    <2> QED
      BY <2>4, <2>5, <2>6
  <1>3. JackpotDebited(u)' = JackpotDebited(u) + JDebt(pc'[h], u) - JDebt(pc[h], u)
    <2> DEFINE S == {k \in Slots : pc[k].at = "jfile" /\ pc[k].user = u}
               T == {k \in Slots : pc'[k].at = "jfile" /\ pc'[k].user = u}
               f == [k \in S |-> pc[k].gold]
               g == [k \in T |-> pc'[k].gold]
    <2>1. IsFiniteSet(S) /\ IsFiniteSet(T)
      BY StoreConstants, FS_Subset
    <2>2. (\A k \in S : f[k] \in Int) /\ (\A k \in T : g[k] \in Int)
      BY <1>1, DebtTypes
    <2>3. S \ {h} = T \ {h} /\ \A k \in S \ {h} : f[k] = g[k]
      BY <1>1
    <2>4. /\ JDebt(pc'[h], u) = IF h \in T THEN g[h] ELSE 0
          /\ JDebt(pc[h], u) = IF h \in S THEN f[h] ELSE 0
      BY DEF JDebt
    <2>5. JackpotDebited(u) = SumFunctionOnSet(f, S) /\ JackpotDebited(u)' = SumFunctionOnSet(g, T)
      BY DEF JackpotDebited, SumFunction
    <2> HIDE DEF S, T, f, g
    <2>6. SumFunctionOnSet(g, T) =
            SumFunctionOnSet(f, S) + (IF h \in T THEN g[h] ELSE 0) - (IF h \in S THEN f[h] ELSE 0)
      BY <2>1, <2>2, <2>3, SumChanges
    <2> QED
      BY <2>4, <2>5, <2>6
  <1> QED
    BY <1>2, <1>3

\* Requests that end where they are give no gold back.
LEMMA DebitedShrinks ==
  ASSUME Types, Types', \A h \in Slots : pc'[h] \in {pc[h], Idle}, NEW u \in Users
  PROVE  WheelDebited(u)' <= WheelDebited(u) /\ JackpotDebited(u)' <= JackpotDebited(u)
  <1>1. \A k \in Slots : pc[k] \in Job /\ pc'[k] \in Job /\ Idle.at = "idle"
    BY DEF Types, PcTypes, Idle
  <1>2. WheelDebited(u)' <= WheelDebited(u)
    <2> DEFINE S == {k \in Slots : pc[k].at \in {"find", "insert", "raise"} /\ pc[k].user = u}
               T == {k \in Slots : pc'[k].at \in {"find", "insert", "raise"} /\ pc'[k].user = u}
               f == [k \in S |-> pc[k].gold]
               g == [k \in T |-> pc'[k].gold]
    <2>1. IsFiniteSet(S) /\ \A k \in S : f[k] \in Nat
      BY <1>1, StoreConstants, FS_Subset, DebtTypes
    <2>2. T \subseteq S /\ \A k \in T : g[k] = f[k] /\ g[k] \in Nat
      BY <1>1, <2>1
    <2>3. WheelDebited(u) = SumFunctionOnSet(f, S) /\ WheelDebited(u)' = SumFunctionOnSet(g, T)
      BY DEF WheelDebited, SumFunction
    <2> HIDE DEF S, T, f, g
    <2>4. SumFunctionOnSet(g, T) <= SumFunctionOnSet(f, S)
      BY <2>1, <2>2, SumIsMonotonic
    <2> QED
      BY <2>3, <2>4
  <1>3. JackpotDebited(u)' <= JackpotDebited(u)
    <2> DEFINE S == {k \in Slots : pc[k].at = "jfile" /\ pc[k].user = u}
               T == {k \in Slots : pc'[k].at = "jfile" /\ pc'[k].user = u}
               f == [k \in S |-> pc[k].gold]
               g == [k \in T |-> pc'[k].gold]
    <2>1. IsFiniteSet(S) /\ \A k \in S : f[k] \in Nat
      BY <1>1, StoreConstants, FS_Subset, DebtTypes
    <2>2. T \subseteq S /\ \A k \in T : g[k] = f[k] /\ g[k] \in Nat
      BY <1>1, <2>1
    <2>3. JackpotDebited(u) = SumFunctionOnSet(f, S) /\ JackpotDebited(u)' = SumFunctionOnSet(g, T)
      BY DEF JackpotDebited, SumFunction
    <2> HIDE DEF S, T, f, g
    <2>4. SumFunctionOnSet(g, T) <= SumFunctionOnSet(f, S)
      BY <2>1, <2>2, SumIsMonotonic
    <2> QED
      BY <2>3, <2>4
  <1> QED
    BY <1>2, <1>3

-----------------------------------------------------------------------------
LEMMA PlacesOfUser ==
  ASSUME NEW u \in Users
  PROVE  IsFiniteSet({u} \X WheelRounds \X Fruits)
  <1> DEFINE Pairs2 == ({u} \X WheelRounds) \X Fruits
             F == [x \in Pairs2 |-> <<x[1][1], x[1][2], x[2]>>]
  <1>1. IsFiniteSet(Pairs2)
    <2>1. IsFiniteSet(WheelRounds)
      <3>1. MaxNow \div WheelDuration \in Int
        BY StoreConstants, WheelConstants
      <3> QED
        BY <3>1, FS_Interval DEF WheelRounds
    <2>2. IsFiniteSet({u})
      BY FS_Singleton
    <2> QED
      BY <2>1, <2>2, FS_Product, StoreConstants
  <1>2. F \in Surjection(Pairs2, {u} \X WheelRounds \X Fruits)
    <2>1. F \in [Pairs2 -> {u} \X WheelRounds \X Fruits]
      OBVIOUS
    <2>2. ASSUME NEW t \in {u} \X WheelRounds \X Fruits
          PROVE  \E x \in Pairs2 : F[x] = t
      <3>1. <<<<t[1], t[2]>>, t[3]>> \in Pairs2 /\ t = <<t[1], t[2], t[3]>>
        OBVIOUS
      <3>2. F[<<<<t[1], t[2]>>, t[3]>>] = <<t[1], t[2], t[3]>>
        BY <3>1
      <3> QED
        BY <3>1, <3>2
    <2> QED
      BY <2>1, <2>2 DEF Surjection
  <1> QED
    BY <1>1, <1>2, FS_Surjection

\* What filing, or paying, gold for one place does to a user's total.
Raises(f, g, p, n) ==
  /\ f \in [Places -> Nat] /\ g \in [Places -> Nat] /\ p \in Places /\ n \in Nat
  /\ g[p] = f[p] + n
  /\ \A y \in Places \ {p} : g[y] = f[y]

LEMMA UserTotalChanges ==
  ASSUME NEW u \in Users, NEW f, NEW g, NEW p, NEW n, Raises(f, g, p, n)
  PROVE  /\ OfUser(g, u) = OfUser(f, u) + (IF p[1] = u THEN n ELSE 0)
         /\ OfUser(f, u) \in Int
  <1> USE DEF Raises
  <1> DEFINE S == {u} \X WheelRounds \X Fruits
  <1>1. /\ S \subseteq Places /\ (p \in S <=> p[1] = u)
    BY DEF Places
  <1>2. IsFiniteSet(S)
    BY PlacesOfUser
  <1>3. OfUser(f, u) = SumFunctionOnSet(f, S) /\ OfUser(g, u) = SumFunctionOnSet(g, S)
    BY DEF OfUser
  <1> HIDE DEF S
  <1>4. (\A y \in S : f[y] \in Int) /\ (\A y \in S : g[y] \in Int) /\ \A y \in S \ {p} : f[y] = g[y]
    BY <1>1
  <1>5. /\ SumFunctionOnSet(g, S) = SumFunctionOnSet(f, S) + (IF p \in S THEN g[p] - f[p] ELSE 0)
        /\ SumFunctionOnSet(f, S) \in Int
    BY <1>2, <1>4, SumOfOneChange
  <1>6. f[p] \in Nat /\ g[p] = f[p] + n
    BY <1>1
  <1> QED
    BY <1>1, <1>3, <1>5, <1>6

LEMMA WorthChanges ==
  ASSUME Types, NEW t \in Transactions, granted' = [granted EXCEPT ![t] = @ + 1], NEW u \in Users
  PROVE  /\ Worth(u) \in Int
         /\ Worth(u)' = Worth(u) + (IF Buyer[t] = u THEN Coins[t] ELSE 0)
  <1> DEFINE S == {s \in Transactions : Buyer[s] = u}
             f == [s \in S |-> granted[s] * Coins[s]]
             g == [s \in S |-> granted'[s] * Coins[s]]
  <1>1. granted'[t] = granted[t] + 1 /\ \A s \in Transactions : s # t => granted'[s] = granted[s]
    BY DEF Types, CoinTypes
  <1>2. \A s \in Transactions : granted[s] \in Nat /\ Coins[s] \in Nat /\ granted'[s] \in Nat
    <2>1. \A s \in Transactions : granted[s] \in Nat /\ Coins[s] \in Nat
      BY CoinConstants DEF Types, CoinTypes
    <2> QED
      BY <1>1, <2>1
  <1>3. IsFiniteSet(S)
    BY CoinConstants, FS_Subset
  <1>4. \A s \in S : f[s] \in Int /\ g[s] \in Int
    BY <1>2
  <1>5. \A s \in S \ {t} : f[s] = g[s]
    BY <1>1
  <1>6. t \in S => g[t] - f[t] = Coins[t]
    <2> SUFFICES ASSUME t \in S PROVE g[t] - f[t] = Coins[t]
      OBVIOUS
    <2>1. g[t] = (granted[t] + 1) * Coins[t] /\ f[t] = granted[t] * Coins[t]
      BY <1>1
    <2>2. (granted[t] + 1) * Coins[t] = granted[t] * Coins[t] + Coins[t] /\ granted[t] * Coins[t] \in Nat
      BY <1>2
    <2> QED
      BY <1>2, <2>1, <2>2
  <1>7. Worth(u) = SumFunctionOnSet(f, S) /\ Worth(u)' = SumFunctionOnSet(g, S)
    BY DEF Worth, SumFunction
  <1>8. t \in S <=> Buyer[t] = u
    OBVIOUS
  <1> HIDE DEF S, f, g
  <1>9. /\ SumFunctionOnSet(g, S) = SumFunctionOnSet(f, S) + (IF t \in S THEN g[t] - f[t] ELSE 0)
        /\ SumFunctionOnSet(f, S) \in Int
    BY <1>3, <1>4, <1>5, SumOfOneChange
  <1> QED
    BY <1>2, <1>6, <1>7, <1>8, <1>9

-----------------------------------------------------------------------------
\* The bets of u among the rows bets, their gold, and what they were paid.
BetsOf(rows, u) == {n \in DOMAIN rows : rows[n].user = u}
Amounts(rows) == [n \in DOMAIN rows |-> rows[n].amount]
Wins(rows, times) == [n \in DOMAIN rows |-> times[n] * JackpotMultiplier[rows[n].choice] * rows[n].amount]
StakedIn(rows, u) == SumFunctionOnSet(Amounts(rows), BetsOf(rows, u))
WonIn(rows, times, u) == SumFunctionOnSet(Wins(rows, times), BetsOf(rows, u))

LEMMA BetSums ==
  ASSUME NEW rows \in Seq(JackpotRow), NEW times \in Seq(Nat), Len(times) = Len(rows), NEW u \in Users
  PROVE  /\ IsFiniteSet(BetsOf(rows, u))
         /\ \A n \in BetsOf(rows, u) : Amounts(rows)[n] \in Nat /\ Wins(rows, times)[n] \in Nat
         /\ StakedIn(rows, u) \in Int /\ WonIn(rows, times, u) \in Int
  <1>1. /\ Len(rows) \in Nat /\ DOMAIN rows = 1..Len(rows) /\ DOMAIN times = DOMAIN rows
        /\ \A n \in DOMAIN rows : rows[n] \in JackpotRow /\ times[n] \in Nat
    OBVIOUS
  <1>2. IsFiniteSet(BetsOf(rows, u))
    <2>1. IsFiniteSet(DOMAIN rows)
      BY <1>1, FS_Interval
    <2>2. BetsOf(rows, u) \in SUBSET DOMAIN rows
      BY DEF BetsOf
    <2> QED
      BY <2>1, <2>2, FS_Subset
  <1>3. ASSUME NEW n \in DOMAIN rows
        PROVE  Amounts(rows)[n] \in Nat /\ Wins(rows, times)[n] \in Nat
    <2>1. rows[n].amount \in Nat /\ JackpotMultiplier[rows[n].choice] \in Nat /\ times[n] \in Nat
      BY <1>1, JackpotConstants DEF JackpotRow
    <2>2. \A a, b, c \in Nat : a * b * c \in Nat
      OBVIOUS
    <2>3. times[n] * JackpotMultiplier[rows[n].choice] * rows[n].amount \in Nat
      BY <2>1, <2>2
    <2> QED
      BY <2>1, <2>3 DEF Amounts, Wins
  <1>4. \A n \in BetsOf(rows, u) : Amounts(rows)[n] \in Nat /\ Wins(rows, times)[n] \in Nat
    BY <1>3 DEF BetsOf
  <1>5. StakedIn(rows, u) \in Int /\ WonIn(rows, times, u) \in Int
    BY <1>2, <1>4, SumIsInteger DEF StakedIn, WonIn
  <1> QED
    BY <1>2, <1>4, <1>5

\* A new bet adds its gold to its player's stakes and nothing to the wins.
LEMMA FilingAdds ==
  ASSUME NEW rows \in Seq(JackpotRow), NEW times \in Seq(Nat), Len(times) = Len(rows), NEW u \in Users,
         NEW row \in JackpotRow
  PROVE  /\ StakedIn(Append(rows, row), u) = StakedIn(rows, u) + (IF row.user = u THEN row.amount ELSE 0)
         /\ WonIn(Append(rows, row), Append(times, 0), u) = WonIn(rows, times, u)
  <1> DEFINE m == Len(rows) + 1
             more == Append(rows, row)
             counts == Append(times, 0)
             S == BetsOf(rows, u)
             T == BetsOf(more, u)
  <1>1. /\ Len(rows) \in Nat /\ DOMAIN rows = 1..Len(rows)
        /\ more \in Seq(JackpotRow) /\ counts \in Seq(Nat) /\ Len(counts) = Len(more)
        /\ DOMAIN more = 1..m
        /\ \A n \in DOMAIN rows : more[n] = rows[n] /\ counts[n] = times[n]
        /\ more[m] = row /\ counts[m] = 0
    OBVIOUS
  <1> HIDE DEF more, counts
  <1>2. /\ S \ {m} = T \ {m}
        /\ m \notin S
        /\ m \in T <=> row.user = u
    BY <1>1 DEF BetsOf
  <1>3. /\ Amounts(more)[m] = row.amount
        /\ \A n \in DOMAIN rows : Amounts(more)[n] = Amounts(rows)[n]
    BY <1>1 DEF Amounts
  <1>4. \A n \in DOMAIN rows : Wins(more, counts)[n] = Wins(rows, times)[n]
    BY <1>1 DEF Wins
  <1>5. Wins(more, counts)[m] = 0
    <2>1. JackpotMultiplier[row.choice] \in Nat /\ row.amount \in Nat
      BY JackpotConstants DEF JackpotRow
    <2>2. \A a, b \in Nat : 0 * a * b = 0
      OBVIOUS
    <2>3. Wins(more, counts)[m] = counts[m] * JackpotMultiplier[more[m].choice] * more[m].amount
      BY <1>1 DEF Wins
    <2> QED
      BY <1>1, <2>1, <2>2, <2>3
  <1>6. /\ IsFiniteSet(S) /\ \A n \in S : Amounts(rows)[n] \in Int /\ Wins(rows, times)[n] \in Int
        /\ StakedIn(rows, u) \in Int /\ WonIn(rows, times, u) \in Int
    BY BetSums
  <1>7. IsFiniteSet(T) /\ \A n \in T : Amounts(more)[n] \in Int /\ Wins(more, counts)[n] \in Int
    BY <1>1, BetSums
  <1>8. \A n \in S \ {m} : Amounts(rows)[n] = Amounts(more)[n] /\ Wins(rows, times)[n] = Wins(more, counts)[n]
    BY <1>3, <1>4 DEF BetsOf
  <1> HIDE DEF m, S, T
  <1>9. SumFunctionOnSet(Amounts(more), T) =
          SumFunctionOnSet(Amounts(rows), S) + (IF m \in T THEN Amounts(more)[m] ELSE 0) - (IF m \in S THEN Amounts(rows)[m] ELSE 0)
    BY <1>2, <1>6, <1>7, <1>8, SumChanges
  <1>10. SumFunctionOnSet(Wins(more, counts), T) =
           SumFunctionOnSet(Wins(rows, times), S) + (IF m \in T THEN Wins(more, counts)[m] ELSE 0)
             - (IF m \in S THEN Wins(rows, times)[m] ELSE 0)
    BY <1>2, <1>6, <1>7, <1>8, SumChanges
  <1>11. row.amount \in Nat
    BY DEF JackpotRow
  <1>12. /\ StakedIn(more, u) = StakedIn(rows, u) + (IF row.user = u THEN row.amount ELSE 0)
         /\ WonIn(more, counts, u) = WonIn(rows, times, u)
    BY <1>2, <1>3, <1>5, <1>6, <1>9, <1>10, <1>11 DEF StakedIn, WonIn, S, T
  <1> QED
    BY <1>12 DEF more, counts

\* Paying a bet adds its win to its player's wins.
PaysOnce(rows, times, counts, n) ==
  /\ rows \in Seq(JackpotRow) /\ times \in Seq(Nat) /\ counts \in Seq(Nat)
  /\ Len(times) = Len(rows) /\ Len(counts) = Len(rows)
  /\ n \in DOMAIN rows /\ counts = [times EXCEPT ![n] = @ + 1]

LEMMA PayingAdds ==
  ASSUME NEW rows, NEW times, NEW counts, NEW n, PaysOnce(rows, times, counts, n), NEW u \in Users
  PROVE  /\ JackpotMultiplier[rows[n].choice] * rows[n].amount \in Nat
         /\ WonIn(rows, counts, u) =
              WonIn(rows, times, u) +
                (IF rows[n].user = u THEN JackpotMultiplier[rows[n].choice] * rows[n].amount ELSE 0)
  <1> USE DEF PaysOnce
  <1> DEFINE win == JackpotMultiplier[rows[n].choice] * rows[n].amount
             S == BetsOf(rows, u)
             f == Wins(rows, times)
             g == Wins(rows, counts)
  <1>1. /\ DOMAIN times = DOMAIN rows /\ rows[n] \in JackpotRow
        /\ times[n] \in Nat /\ counts[n] = times[n] + 1
        /\ \A k \in DOMAIN rows : k # n => counts[k] = times[k]
    OBVIOUS
  <1>2. \A k \in S \ {n} : f[k] = g[k]
    BY <1>1 DEF Wins, BetsOf
  <1>3. win \in Nat /\ f[n] \in Nat /\ g[n] = f[n] + win
    <2>1. JackpotMultiplier[rows[n].choice] \in Nat /\ rows[n].amount \in Nat
      BY <1>1, JackpotConstants DEF JackpotRow
    <2>2. \A a, b, c \in Nat : (a + 1) * b * c = a * b * c + b * c /\ b * c \in Nat /\ a * b * c \in Nat
      OBVIOUS
    <2>3. /\ g[n] = (times[n] + 1) * JackpotMultiplier[rows[n].choice] * rows[n].amount
          /\ f[n] = times[n] * JackpotMultiplier[rows[n].choice] * rows[n].amount
      BY <1>1 DEF Wins
    <2>4. (times[n] + 1) * JackpotMultiplier[rows[n].choice] * rows[n].amount =
            times[n] * JackpotMultiplier[rows[n].choice] * rows[n].amount + win
      BY <1>1, <2>1, <2>2
    <2>5. /\ win \in Nat
          /\ times[n] * JackpotMultiplier[rows[n].choice] * rows[n].amount \in Nat
      BY <1>1, <2>1, <2>2, Zenon
    <2> QED
      BY <2>3, <2>4, <2>5, Zenon
  <1>4. IsFiniteSet(S) /\ (\A k \in S : f[k] \in Int) /\ WonIn(rows, times, u) \in Int
    BY BetSums
  <1>5. \A k \in S : g[k] \in Int
    <2>1. \A k \in S : g[k] \in Nat
      BY BetSums, Zenon
    <2> HIDE DEF S, g
    <2> QED
      BY <2>1
  <1>6. n \in S <=> rows[n].user = u
    BY DEF BetsOf
  <1>7. WonIn(rows, times, u) = SumFunctionOnSet(f, S) /\ WonIn(rows, counts, u) = SumFunctionOnSet(g, S)
    BY DEF WonIn
  <1> HIDE DEF win, S, f, g
  <1>8. SumFunctionOnSet(g, S) = SumFunctionOnSet(f, S) + (IF n \in S THEN g[n] - f[n] ELSE 0)
    BY <1>2, <1>4, <1>5, SumOfOneChange
  <1>9. WonIn(rows, counts, u) = WonIn(rows, times, u) + (IF rows[n].user = u THEN win ELSE 0)
    BY <1>3, <1>4, <1>6, <1>7, <1>8
  <1> QED
    BY <1>3, <1>9 DEF win

\* Marking a bet changes neither.
SameBets(marked, rows) ==
  /\ DOMAIN marked = DOMAIN rows
  /\ \A n \in DOMAIN rows :
       /\ marked[n].user = rows[n].user
       /\ marked[n].choice = rows[n].choice
       /\ marked[n].amount = rows[n].amount

LEMMA MarkingKeeps ==
  ASSUME NEW rows, NEW marked, SameBets(marked, rows), NEW times, NEW u
  PROVE  StakedIn(marked, u) = StakedIn(rows, u) /\ WonIn(marked, times, u) = WonIn(rows, times, u)
  <1> USE DEF SameBets
  <1>1. BetsOf(marked, u) = BetsOf(rows, u) /\ Amounts(marked) = Amounts(rows)
    BY DEF BetsOf, Amounts
  <1>2. Wins(marked, times) = Wins(rows, times)
    BY DEF Wins
  <1> QED
    BY <1>1, <1>2, Zenon DEF StakedIn, WonIn

-----------------------------------------------------------------------------
LEMMA TotalsAreIntegers ==
  ASSUME Types, NEW u \in Users
  PROVE  /\ WheelDebited(u) \in Int /\ JackpotDebited(u) \in Int
         /\ OfUser(staked, u) \in Int /\ OfUser(paid, u) \in Int /\ Worth(u) \in Int
         /\ StakedIn(jackpotBets, u) \in Int /\ WonIn(jackpotBets, timesPaid, u) \in Int
         /\ credit[u] \in Int /\ stale[u] \in Int
  <1>1. \A k \in Slots : pc[k] \in Job
    BY DEF Types, PcTypes
  <1>2. WheelDebited(u) \in Int
    <2> DEFINE S == {k \in Slots : pc[k].at \in {"find", "insert", "raise"} /\ pc[k].user = u}
               f == [k \in S |-> pc[k].gold]
    <2>1. IsFiniteSet(S) /\ \A k \in S : f[k] \in Int
      BY <1>1, StoreConstants, FS_Subset, DebtTypes
    <2>2. WheelDebited(u) = SumFunctionOnSet(f, S)
      BY DEF WheelDebited, SumFunction
    <2> HIDE DEF S, f
    <2> QED
      BY <2>1, <2>2, SumIsInteger
  <1>3. JackpotDebited(u) \in Int
    <2> DEFINE S == {k \in Slots : pc[k].at = "jfile" /\ pc[k].user = u}
               f == [k \in S |-> pc[k].gold]
    <2>1. IsFiniteSet(S) /\ \A k \in S : f[k] \in Int
      BY <1>1, StoreConstants, FS_Subset, DebtTypes
    <2>2. JackpotDebited(u) = SumFunctionOnSet(f, S)
      BY DEF JackpotDebited, SumFunction
    <2> HIDE DEF S, f
    <2> QED
      BY <2>1, <2>2, SumIsInteger
  <1>4. OfUser(staked, u) \in Int /\ OfUser(paid, u) \in Int
    <2> DEFINE S == {u} \X WheelRounds \X Fruits
    <2>1. S \subseteq Places
      BY DEF Places
    <2>2. IsFiniteSet(S) /\ (\A p \in S : staked[p] \in Int) /\ (\A p \in S : paid[p] \in Int)
      BY <2>1, PlacesOfUser DEF Types, WheelTypes
    <2>3. OfUser(staked, u) = SumFunctionOnSet(staked, S) /\ OfUser(paid, u) = SumFunctionOnSet(paid, S)
      BY DEF OfUser
    <2> HIDE DEF S
    <2> QED
      BY <2>2, <2>3, SumIsInteger
  <1>5. Worth(u) \in Int
    <2> DEFINE S == {s \in Transactions : Buyer[s] = u}
               f == [s \in S |-> granted[s] * Coins[s]]
    <2>1. \A s \in Transactions : granted[s] \in Nat /\ Coins[s] \in Nat
      BY CoinConstants DEF Types, CoinTypes
    <2>2. IsFiniteSet(S) /\ \A s \in S : f[s] \in Int
      BY <2>1, CoinConstants, FS_Subset
    <2>3. Worth(u) = SumFunctionOnSet(f, S)
      BY DEF Worth, SumFunction
    <2> HIDE DEF S, f
    <2> QED
      BY <2>2, <2>3, SumIsInteger
  <1>6. StakedIn(jackpotBets, u) \in Int /\ WonIn(jackpotBets, timesPaid, u) \in Int
    BY BetSums DEF Types, JackpotTypes
  <1>7. credit[u] \in Int /\ stale[u] \in Int
    BY DEF Types, StoreTypes, CoinTypes
  <1> QED
    BY <1>2, <1>3, <1>4, <1>5, <1>6, <1>7

\* A wheel step moves gold between the balance, the way to a bet, the bets and the wins,
\* or loses some.
LEMMA WheelAccounts ==
  ASSUME Types, NEW h \in Slots, WheelStep(h), NEW u \in Users
  PROVE  /\ credit'[u] + Debt(pc'[h], u) + OfUser(staked', u) + OfUser(paid, u)
              <= credit[u] + Debt(pc[h], u) + OfUser(staked, u) + OfUser(paid', u)
         /\ OfUser(staked', u) \in Int /\ OfUser(paid', u) \in Int
  <1> DEFINE j == pc[h]
  <1>1. /\ j \in Job /\ pc'[h] \in Job
        /\ Debt(pc'[h], u) \in Nat /\ Debt(j, u) \in Nat
        /\ credit \in [Users -> Int] /\ credit[u] \in Int
        /\ OfUser(staked, u) \in Int /\ OfUser(paid, u) \in Int
        /\ staked \in [Places -> Nat] /\ paid \in [Places -> Nat]
    BY WheelTyped, JobsApart, DebtTypes, TotalsAreIntegers DEF Types, PcTypes, StoreTypes, WheelTypes
  <1>2. CASE Debit(h)
    <2>1. j \in Bet
      BY <1>1, <1>2, JobsByTag DEF Debit
    <2>2. /\ credit' = [credit EXCEPT ![j.user] = @ + (-j.gold)]
          /\ pc'[h] = [j EXCEPT !.at = "find"] /\ j.at = "debit"
          /\ staked' = staked /\ paid' = paid
      BY <1>2, StepsMove DEF Debit, AddCredit, wheelVars
    <2>3. pc'[h].at = "find" /\ pc'[h].user = j.user /\ pc'[h].gold = j.gold /\ j.gold \in Nat
      BY <2>1, <2>2, StoreConstants DEF Bet
    <2>4. credit'[u] = IF j.user = u THEN credit[u] - j.gold ELSE credit[u]
      BY <1>1, <2>2, <2>3
    <2>5. Debt(pc'[h], u) = (IF j.user = u THEN j.gold ELSE 0) /\ Debt(j, u) = 0
      BY <2>2, <2>3 DEF Debt
    <2> QED
      BY <1>1, <2>2, <2>3, <2>4, <2>5
  <1>3. CASE FindBet(h)
    <2>1. j \in Bet
      BY <1>1, <1>3, JobsByTag DEF FindBet
    <2>2. PICK b : Continue(h, AtRow(j, "insert", b)) \/ Continue(h, AtRow(j, "raise", b))
      BY <1>3 DEF FindBet
    <2>3. /\ pc'[h].at \in {"insert", "raise"} /\ pc'[h].user = j.user /\ pc'[h].gold = j.gold
          /\ credit' = credit
      BY <2>2, StepsMove DEF AtRow
    <2>4. Debt(pc'[h], u) = Debt(j, u)
      BY <1>3, <2>3 DEF Debt, FindBet
    <2>5. staked' = staked /\ paid' = paid
      BY <1>3 DEF FindBet, wheelVars
    <2> QED
      BY <1>1, <2>3, <2>4, <2>5
  <1>4. CASE InsertBet(h) \/ RaiseBet(h)
    <2>1. j \in FiledBet("insert", {None}) \cup FiledBet("raise", BetIds)
      BY <1>1, <1>4, JobsByTag DEF InsertBet, RaiseBet
    <2>2. j.gold \in Nat /\ <<j.user, j.round, j.choice>> \in Places
      BY <2>1, StoreConstants DEF FiledBet, Places
    <2>3. Debt(pc'[h], u) = 0 /\ credit' = credit /\ paid' = paid
      BY <1>4, StepsMove DEF InsertBet, RaiseBet, Idle, Debt
    <2>4. Debt(j, u) = IF j.user = u THEN j.gold ELSE 0
      BY <1>4 DEF Debt, InsertBet, RaiseBet
    <2>5. Filed(j) \/ staked' = staked
      BY <1>4 DEF InsertBet, RaiseBet
    <2>6. CASE Filed(j)
      <3>1. OfUser(staked', u) = OfUser(staked, u) + (IF j.user = u THEN j.gold ELSE 0)
        <4> DEFINE p == <<j.user, j.round, j.choice>>
        <4>1. staked' = [staked EXCEPT ![p] = @ + j.gold] /\ p \in Places /\ p[1] = j.user
          BY <2>2, <2>6 DEF Filed
        <4> HIDE DEF p
        <4>2. Raises(staked, staked', p, j.gold)
          BY <1>1, <2>2, <4>1 DEF Raises
        <4> QED
          BY <4>1, <4>2, UserTotalChanges
      <3> QED
        BY <1>1, <2>2, <2>3, <2>4, <3>1
    <2>7. CASE staked' = staked
      BY <1>1, <2>2, <2>3, <2>4, <2>7
    <2> QED
      BY <2>5, <2>6, <2>7
  <1>5. CASE PayWinner(h)
    <2>1. j \in Pay
      BY <1>1, <1>5, JobsByTag DEF PayWinner
    <2>2. PICK w \in j.left :
            /\ AddCredit(w.user, WheelMultiplier[j.fruit] * w.gold)
            /\ paid' = [paid EXCEPT ![<<w.user, j.round, j.fruit>>] = @ + WheelMultiplier[j.fruit] * w.gold]
            /\ Goto(h, [j EXCEPT !.left = @ \ {w}])
      BY <1>5 DEF PayWinner
    <2> DEFINE win == WheelMultiplier[j.fruit] * w.gold
               p == <<w.user, j.round, j.fruit>>
    <2>3. win \in Nat /\ p \in Places /\ p[1] = w.user /\ w.user \in Users
      BY <2>1, WheelConstants DEF Pay, Winner, Places
    <2>4. paid' = [paid EXCEPT ![p] = @ + win] /\ credit' = [credit EXCEPT ![w.user] = @ + win] /\ staked' = staked
      BY <1>5, <2>2 DEF AddCredit, PayWinner
    <2>5. Debt(pc'[h], u) = 0
      BY <1>5, WheelTransitions DEF Debt
    <2> HIDE DEF win, p
    <2>6. Raises(paid, paid', p, win)
      BY <1>1, <2>3, <2>4 DEF Raises
    <2>7. OfUser(paid', u) = OfUser(paid, u) + (IF p[1] = u THEN win ELSE 0)
      BY <2>6, UserTotalChanges
    <2>8. credit'[u] = IF w.user = u THEN credit[u] + win ELSE credit[u]
      BY <1>1, <2>3, <2>4
    <2> QED
      BY <1>1, <2>3, <2>4, <2>5, <2>7, <2>8
  <1>6. CASE ~ (Debit(h) \/ FindBet(h) \/ InsertBet(h) \/ RaiseBet(h) \/ PayWinner(h))
    <2>1. credit' = credit /\ staked' = staked /\ paid' = paid
      <3>1. CASE \E x \in Users : GameReset(h, x) \/ \E f \in Fruits, g \in Gold : GameChoice(h, x, f, g)
        BY <3>1, StepsMove DEF GameReset, GameChoice, wheelVars
      <3>2. CASE FetchBalance(h) \/ DestroyBet(h)
        BY <3>2 DEF FetchBalance, DestroyBet, Continue, End, wheelVars
      <3>3. CASE GameInfo(h) \/ SaveResult(h) \/ FindWinners(h) \/ RecordRound(h) \/ DestroyFails(h) \/ ZeroProfit(h)
        BY <3>3 DEF GameInfo, SaveResult, FindWinners, RecordRound, DestroyFails, ZeroProfit, Begin, Continue, End, wheelVars
      <3> QED
        BY <1>6, <3>1, <3>2, <3>3 DEF WheelStep
    <2>2. Debt(pc'[h], u) = 0
      BY <1>6, WheelTransitions DEF Debt, WheelStep
    <2> QED
      BY <1>1, <2>1, <2>2
  <1> QED
    BY <1>2, <1>3, <1>4, <1>5, <1>6
\* A jackpot step does the same; what it pays is the win of a bet on the fruit drawn.
LEMMA JackpotAccounts ==
  ASSUME Types, JobsSeeDraws, NEW h \in Slots, JackpotStep(h), NEW u \in Users
  PROVE  /\ credit'[u] + JDebt(pc'[h], u) + StakedIn(jackpotBets', u) + WonIn(jackpotBets, timesPaid, u)
              <= credit[u] + JDebt(pc[h], u) + StakedIn(jackpotBets, u) + WonIn(jackpotBets', timesPaid', u)
         /\ StakedIn(jackpotBets', u) \in Int /\ WonIn(jackpotBets', timesPaid', u) \in Int
  <1> DEFINE j == pc[h]
             bs == jackpotBets
  <1>1. /\ j \in Job /\ pc'[h] \in Job
        /\ JDebt(pc'[h], u) \in Nat /\ JDebt(j, u) \in Nat
        /\ credit \in [Users -> Int] /\ credit[u] \in Int
        /\ bs \in Seq(JackpotRow) /\ timesPaid \in Seq(Nat) /\ Len(timesPaid) = Len(bs)
    BY JackpotTyped, JobsApart, DebtTypes DEF Types, PcTypes, StoreTypes, JackpotTypes
  <1>2. /\ JDebt(pc'[h], u) \in Nat /\ JDebt(j, u) \in Nat /\ credit[u] \in Int
        /\ StakedIn(bs, u) \in Int /\ WonIn(bs, timesPaid, u) \in Int
    BY <1>1, TotalsAreIntegers
  <1>3. CASE JackpotDebit(h)
    <2>1. j \in JBet
      BY <1>1, <1>3, JobsByTag DEF JackpotDebit
    <2>2. /\ credit' = [credit EXCEPT ![j.user] = @ + (-j.gold)]
          /\ pc'[h] = [j EXCEPT !.at = "jfile"] /\ j.at = "jdebit"
          /\ jackpotBets' = bs /\ timesPaid' = timesPaid
      BY <1>3, StepsMove DEF JackpotDebit, AddCredit, jackpotVars
    <2>3. pc'[h].at = "jfile" /\ pc'[h].user = j.user /\ pc'[h].gold = j.gold /\ j.gold \in Nat
      BY <2>1, <2>2, StoreConstants DEF JBet
    <2>4. credit'[u] = IF j.user = u THEN credit[u] - j.gold ELSE credit[u]
      BY <1>1, <2>2, <2>3
    <2>5. JDebt(pc'[h], u) = (IF j.user = u THEN j.gold ELSE 0) /\ JDebt(j, u) = 0
      BY <2>2, <2>3 DEF JDebt
    <2> QED
      BY <1>2, <2>2, <2>3, <2>4, <2>5
  <1>4. CASE JackpotFile(h)
    <2>1. j \in JBet
      BY <1>1, <1>4, JobsByTag DEF JackpotFile
    <2> DEFINE row == [user |-> j.user, round |-> JackpotRound(j.since), choice |-> j.choice,
                       amount |-> j.gold, isWinner |-> FALSE]
    <2>2. row \in JackpotRow /\ row.user = j.user /\ row.amount = j.gold /\ j.gold \in Nat
      BY <2>1, RoundTypes, StoreConstants DEF JBet, JackpotRow
    <2>3. jackpotBets' = Append(bs, row) /\ timesPaid' = Append(timesPaid, 0)
      BY <1>4 DEF JackpotFile
    <2> HIDE DEF row
    <2>4. JDebt(pc'[h], u) = 0 /\ credit' = credit
      <3>1. End(h)
        BY <1>4 DEF JackpotFile
      <3> QED
        BY <3>1, StepsMove DEF Idle, JDebt
    <2>5. JDebt(j, u) = IF j.user = u THEN j.gold ELSE 0
      BY <1>4 DEF JDebt, JackpotFile
    <2>6. /\ StakedIn(Append(bs, row), u) = StakedIn(bs, u) + (IF row.user = u THEN row.amount ELSE 0)
          /\ WonIn(Append(bs, row), Append(timesPaid, 0), u) = WonIn(bs, timesPaid, u)
      BY <1>1, <2>2, FilingAdds
    <2>7. /\ StakedIn(jackpotBets', u) = StakedIn(bs, u) + (IF j.user = u THEN j.gold ELSE 0)
          /\ WonIn(jackpotBets', timesPaid', u) = WonIn(bs, timesPaid, u)
      BY <2>2, <2>3, <2>6
    <2> QED
      BY <1>2, <2>2, <2>4, <2>5, <2>7
  <1>5. CASE JackpotPay(h)
    <2>1. j \in JPay
      BY <1>1, <1>5, JobsByTag DEF JackpotPay
    <2>2. PICK n \in j.left :
            /\ AddCredit(jackpotBets[n].user, JackpotMultiplier[j.fruit] * jackpotBets[n].amount)
            /\ timesPaid' = [timesPaid EXCEPT ![n] = @ + 1]
      BY <1>5 DEF JackpotPay
    <2>3. n \in DOMAIN bs /\ bs[n].choice = j.fruit /\ bs[n].user \in Users
      <3>1. n \in DOMAIN bs /\ \A k \in DOMAIN bs : bs[k] \in JackpotRow
        BY <1>5, <2>2 DEF JackpotPay, Types, JackpotTypes
      <3> QED
        BY <1>5, <2>2, <3>1 DEF JackpotPay, JobsSeeDraws, JackpotRow
    <2> DEFINE win == JackpotMultiplier[bs[n].choice] * bs[n].amount
    <2>4. jackpotBets' = bs /\ credit' = [credit EXCEPT ![bs[n].user] = @ + win]
      BY <1>5, <2>2, <2>3 DEF JackpotPay, AddCredit
    <2>5. timesPaid' \in Seq(Nat) /\ Len(timesPaid') = Len(bs)
      BY <2>4, JackpotTyped DEF JackpotTypes
    <2>6. win \in Nat /\ WonIn(bs, timesPaid', u) = WonIn(bs, timesPaid, u) + (IF bs[n].user = u THEN win ELSE 0)
      <3>1. PaysOnce(bs, timesPaid, timesPaid', n)
        BY <1>1, <2>2, <2>3, <2>5 DEF PaysOnce
      <3> QED
        BY <3>1, PayingAdds
    <2>7. JDebt(pc'[h], u) = 0 /\ JDebt(j, u) = 0
      BY <1>5, JackpotTransitions DEF JDebt, JackpotPay
    <2> HIDE DEF win
    <2>8. credit'[u] = IF bs[n].user = u THEN credit[u] + win ELSE credit[u]
      BY <1>1, <2>3, <2>4
    <2> QED
      BY <1>2, <2>4, <2>6, <2>7, <2>8
  <1>6. CASE JackpotMark(h)
    <2>1. j \in JMark
      BY <1>1, <1>6, JobsByTag DEF JackpotMark
    <2>2. jackpotBets' = [bs EXCEPT ![j.bet] = [bs[j.bet] EXCEPT !.isWinner = TRUE]] /\ timesPaid' = timesPaid
      BY <1>6 DEF JackpotMark
    <2>3. j.bet \in DOMAIN bs /\ \A n \in DOMAIN bs : bs[n] \in JackpotRow
      BY <1>6 DEF JackpotMark, Types, JackpotTypes
    <2>4. SameBets(jackpotBets', bs)
      BY <2>2, <2>3 DEF SameBets, JackpotRow
    <2>5. StakedIn(jackpotBets', u) = StakedIn(bs, u) /\ WonIn(jackpotBets', timesPaid', u) = WonIn(bs, timesPaid, u)
      BY <2>2, <2>4, MarkingKeeps
    <2>6. JDebt(pc'[h], u) = 0 /\ credit' = credit
      BY <1>6, StepsMove DEF JackpotMark, JDebt
    <2> QED
      BY <1>2, <2>5, <2>6
  <1>7. CASE ~ (JackpotDebit(h) \/ JackpotFile(h) \/ JackpotPay(h) \/ JackpotMark(h))
    <2>1. credit' = credit /\ jackpotBets' = bs /\ timesPaid' = timesPaid
      BY <1>7 DEF JackpotStep, JackpotBet, JackpotFetchBalance, ProcessRound, JackpotSaveResult,
                  JackpotFindWinners, Processed, Begin, Continue, End, jackpotVars
    <2>2. JDebt(pc'[h], u) = 0
      BY <1>7, JackpotTransitions DEF JDebt, JackpotStep
    <2> QED
      BY <1>2, <2>1, <2>2
  <1> QED
    BY <1>3, <1>4, <1>5, <1>6, <1>7

\* A purchase adds its coins, and what the copy of the user is out of date by.
LEMMA CoinAccounts ==
  ASSUME Types, NEW h \in Slots, CoinStep(h), NEW u \in Users
  PROVE  credit'[u] + Worth(u) + stale[u] = credit[u] + Worth(u)' + stale'[u] /\ Worth(u)' \in Int
  <1> DEFINE j == pc[h]
             t == j.tx
  <1>1. /\ j \in Job /\ Worth(u) \in Int
        /\ credit \in [Users -> Int] /\ credit[u] \in Int
        /\ stale \in [Users -> Int] /\ stale[u] \in Int
    BY TotalsAreIntegers DEF Types, PcTypes, StoreTypes, CoinTypes
  <1>2. CASE Grant(h)
    <2>1. j \in CoinJob
      BY <1>1, <1>2, JobsByTag DEF Grant, CoinTags
    <2>2. t \in Transactions /\ j.seen \in Int /\ Buyer[t] \in Users /\ Coins[t] \in Nat
      BY <2>1, CoinConstants DEF CoinJob
    <2>3. /\ credit' = [credit EXCEPT ![Buyer[t]] = j.seen + Coins[t]]
          /\ granted' = [granted EXCEPT ![t] = @ + 1]
          /\ stale' = [stale EXCEPT ![Buyer[t]] = @ + j.seen - credit[Buyer[t]]]
      BY <1>2 DEF Grant
    <2>4. Worth(u)' = Worth(u) + (IF Buyer[t] = u THEN Coins[t] ELSE 0)
      BY <2>2, <2>3, WorthChanges
    <2>5. /\ credit'[u] = IF Buyer[t] = u THEN j.seen + Coins[t] ELSE credit[u]
          /\ stale'[u] = IF Buyer[t] = u THEN stale[u] + j.seen - credit[u] ELSE stale[u]
      BY <1>1, <2>2, <2>3
    <2> QED
      BY <1>1, <2>2, <2>4, <2>5
  <1>3. CASE ~ Grant(h)
    <2>1. credit' = credit /\ granted' = granted /\ stale' = stale
      BY <1>3 DEF CoinStep, Authenticate, PutUser, CheckDuplicate, Verify, Record, Begin, Continue, End, coinVars
    <2>2. Worth(u)' = Worth(u)
      BY <2>1 DEF Worth
    <2> QED
      BY <1>1, <2>1, <2>2
  <1> QED
    BY <1>2, <1>3
LEMMA DebitedAreIntegers ==
  ASSUME Types', NEW u \in Users
  PROVE  WheelDebited(u)' \in Int /\ JackpotDebited(u)' \in Int
  <1>1. \A k \in Slots : pc'[k] \in Job
    BY DEF Types, PcTypes
  <1>2. WheelDebited(u)' \in Int
    <2> DEFINE S == {k \in Slots : pc'[k].at \in {"find", "insert", "raise"} /\ pc'[k].user = u}
               f == [k \in S |-> pc'[k].gold]
    <2>1. IsFiniteSet(S) /\ \A k \in S : f[k] \in Int
      BY <1>1, StoreConstants, FS_Subset, DebtTypes
    <2>2. WheelDebited(u)' = SumFunctionOnSet(f, S)
      BY DEF WheelDebited, SumFunction
    <2> HIDE DEF S, f
    <2> QED
      BY <2>1, <2>2, SumIsInteger
  <1>3. JackpotDebited(u)' \in Int
    <2> DEFINE S == {k \in Slots : pc'[k].at = "jfile" /\ pc'[k].user = u}
               f == [k \in S |-> pc'[k].gold]
    <2>1. IsFiniteSet(S) /\ \A k \in S : f[k] \in Int
      BY <1>1, StoreConstants, FS_Subset, DebtTypes
    <2>2. JackpotDebited(u)' = SumFunctionOnSet(f, S)
      BY DEF JackpotDebited, SumFunction
    <2> HIDE DEF S, f
    <2> QED
      BY <2>1, <2>2, SumIsInteger
  <1> QED
    BY <1>2, <1>3

LEMMA TotalsAtStart ==
  ASSUME Init, NEW u \in Users
  PROVE  /\ credit[u] = StartCredit /\ stale[u] = 0
         /\ WheelDebited(u) = 0 /\ JackpotDebited(u) = 0
         /\ OfUser(staked, u) = 0 /\ OfUser(paid, u) = 0 /\ Worth(u) = 0
         /\ StakedIn(jackpotBets, u) = 0 /\ WonIn(jackpotBets, timesPaid, u) = 0
  <1> USE DEF Init
  <1>1. credit[u] = StartCredit /\ stale[u] = 0
    BY DEF StoreInit, CoinInit
  <1>2. \A k \in Slots : pc[k].at = "idle"
    BY DEF StoreInit, Idle
  <1>3. WheelDebited(u) = 0
    <2> DEFINE S == {k \in Slots : pc[k].at \in {"find", "insert", "raise"} /\ pc[k].user = u}
               f == [k \in S |-> pc[k].gold]
    <2>1. S = {}
      BY <1>2
    <2>2. WheelDebited(u) = SumFunctionOnSet(f, S)
      BY DEF WheelDebited, SumFunction
    <2> HIDE DEF S, f
    <2> QED
      BY <2>1, <2>2, SumOfNone
  <1>4. JackpotDebited(u) = 0
    <2> DEFINE S == {k \in Slots : pc[k].at = "jfile" /\ pc[k].user = u}
               f == [k \in S |-> pc[k].gold]
    <2>1. S = {}
      BY <1>2
    <2>2. JackpotDebited(u) = SumFunctionOnSet(f, S)
      BY DEF JackpotDebited, SumFunction
    <2> HIDE DEF S, f
    <2> QED
      BY <2>1, <2>2, SumOfNone
  <1>5. OfUser(staked, u) = 0 /\ OfUser(paid, u) = 0
    <2> DEFINE S == {u} \X WheelRounds \X Fruits
    <2>1. S \subseteq Places
      BY DEF Places
    <2>2. IsFiniteSet(S) /\ (\A p \in S : staked[p] = 0) /\ (\A p \in S : paid[p] = 0)
      BY <2>1, PlacesOfUser DEF WheelInit
    <2>3. OfUser(staked, u) = SumFunctionOnSet(staked, S) /\ OfUser(paid, u) = SumFunctionOnSet(paid, S)
      BY DEF OfUser
    <2> HIDE DEF S
    <2> QED
      BY <2>2, <2>3, SumOfZeros
  <1>6. Worth(u) = 0
    <2> DEFINE S == {s \in Transactions : Buyer[s] = u}
               f == [s \in S |-> granted[s] * Coins[s]]
    <2>1. \A s \in Transactions : granted[s] = 0 /\ Coins[s] \in Nat
      BY CoinConstants DEF CoinInit
    <2>2. IsFiniteSet(S) /\ \A s \in S : f[s] = 0
      BY <2>1, CoinConstants, FS_Subset
    <2>3. Worth(u) = SumFunctionOnSet(f, S)
      BY DEF Worth, SumFunction
    <2> HIDE DEF S, f
    <2> QED
      BY <2>2, <2>3, SumOfZeros
  <1>7. StakedIn(jackpotBets, u) = 0 /\ WonIn(jackpotBets, timesPaid, u) = 0
    <2>1. BetsOf(jackpotBets, u) = {}
      BY DEF JackpotInit, BetsOf
    <2> QED
      BY <2>1, SumOfNone, Zenon DEF StakedIn, WonIn
  <1> QED
    BY <1>1, <1>3, <1>4, <1>5, <1>6, <1>7

\* The jobs of other components owe a game nothing.
LEMMA NoDebts ==
  ASSUME NEW j, NEW u
  PROVE  /\ j \in {Idle} \cup JackpotJob \cup CoinJob \cup FollowJob => Debt(j, u) = 0
         /\ j \in {Idle} \cup WheelJob \cup CoinJob \cup FollowJob => JDebt(j, u) = 0
  <1>1. j \in {Idle} \cup JackpotJob \cup CoinJob \cup FollowJob => j.at \notin {"find", "insert", "raise"}
    BY DEF Idle, JackpotJob, JBet, JDraw, JWinners, JPay, JMark, CoinJob, FollowJob
  <1>2. j \in {Idle} \cup WheelJob \cup CoinJob \cup FollowJob => j.at # "jfile"
    BY DEF Idle, WheelJob, Bet, FiledBet, Draw, Winners, Pay, Reset, CoinJob, FollowJob
  <1> QED
    BY <1>1, <1>2 DEF Debt, JDebt

Account(u) ==
  credit[u] + WheelDebited(u) + OfUser(staked, u) + JackpotDebited(u) + StakedIn(jackpotBets, u)
    <= StartCredit + OfUser(paid, u) + Worth(u) + stale[u] + WonIn(jackpotBets, timesPaid, u)

Accounts == \A u \in Users : Account(u)

LEMMA AccountsOfAll == GoldAccounted <=> Accounts
  BY Zenon DEF Accounts, GoldAccounted, Account, SumOfBets, StakedIn, WonIn, BetsOf, Amounts, Wins

LEMMA AccountsStay ==
  ASSUME Types, Types', JobsSeeDraws, [Next]_vars, NEW u \in Users, Account(u)
  PROVE  Account(u)'
  <1> USE DEF Account
  <1>1. /\ WheelDebited(u) \in Int /\ JackpotDebited(u) \in Int
        /\ OfUser(staked, u) \in Int /\ OfUser(paid, u) \in Int /\ Worth(u) \in Int
        /\ StakedIn(jackpotBets, u) \in Int /\ WonIn(jackpotBets, timesPaid, u) \in Int
        /\ credit[u] \in Int /\ stale[u] \in Int /\ StartCredit \in Int
    BY TotalsAreIntegers, StoreConstants
  <1>2. credit'[u] \in Int /\ stale'[u] \in Int
    BY DEF Types, StoreTypes, CoinTypes
  <1>3. granted' = granted => Worth(u)' = Worth(u)
    BY DEF Worth
  <1>4. \A h \in Slots : Debt(pc[h], u) \in Nat /\ JDebt(pc[h], u) \in Nat
    BY DebtTypes DEF Types, PcTypes
  <1>5. \A h \in Slots : Debt(pc'[h], u) \in Nat /\ JDebt(pc'[h], u) \in Nat
    BY DebtTypes DEF Types, PcTypes
  <1>6. ASSUME NEW h \in Slots, WheelStep(h), UNCHANGED <<jackpotVars, coinVars, followVars>>
        PROVE  Account(u)'
    <2>1. /\ WheelDebited(u)' = WheelDebited(u) + Debt(pc'[h], u) - Debt(pc[h], u)
          /\ JackpotDebited(u)' = JackpotDebited(u) + JDebt(pc'[h], u) - JDebt(pc[h], u)
      BY <1>6, WheelTyped, DebitedChanges
    <2>2. JDebt(pc[h], u) = 0 /\ JDebt(pc'[h], u) = 0
      BY <1>6, WheelTyped, NoDebts
    <2>3. UNCHANGED <<jackpotBets, timesPaid, granted, stale>>
      BY <1>6 DEF jackpotVars, coinVars
    <2>4. /\ credit'[u] + Debt(pc'[h], u) + OfUser(staked', u) + OfUser(paid, u)
               <= credit[u] + Debt(pc[h], u) + OfUser(staked, u) + OfUser(paid', u)
          /\ OfUser(staked', u) \in Int /\ OfUser(paid', u) \in Int
      BY <1>6, WheelAccounts
    <2> QED
      BY <1>1, <1>2, <1>3, <1>4, <1>5, <2>1, <2>2, <2>3, <2>4
  <1>7. ASSUME NEW h \in Slots, JackpotStep(h), UNCHANGED <<wheelVars, coinVars, followVars>>
        PROVE  Account(u)'
    <2>1. /\ WheelDebited(u)' = WheelDebited(u) + Debt(pc'[h], u) - Debt(pc[h], u)
          /\ JackpotDebited(u)' = JackpotDebited(u) + JDebt(pc'[h], u) - JDebt(pc[h], u)
      BY <1>7, JackpotTyped, DebitedChanges
    <2>2. Debt(pc[h], u) = 0 /\ Debt(pc'[h], u) = 0
      BY <1>7, JackpotTyped, NoDebts
    <2>3. UNCHANGED <<staked, paid, granted, stale>>
      BY <1>7 DEF wheelVars, coinVars
    <2>4. /\ credit'[u] + JDebt(pc'[h], u) + StakedIn(jackpotBets', u) + WonIn(jackpotBets, timesPaid, u)
               <= credit[u] + JDebt(pc[h], u) + StakedIn(jackpotBets, u) + WonIn(jackpotBets', timesPaid', u)
          /\ StakedIn(jackpotBets', u) \in Int /\ WonIn(jackpotBets', timesPaid', u) \in Int
      BY <1>7, JackpotAccounts
    <2> QED
      BY <1>1, <1>2, <1>3, <1>4, <1>5, <2>1, <2>2, <2>3, <2>4
  <1>8. ASSUME NEW h \in Slots, UNCHANGED <<staked, paid, jackpotBets, timesPaid>>, Moves(h),
               Debt(pc[h], u) = 0, Debt(pc'[h], u) = 0, JDebt(pc[h], u) = 0, JDebt(pc'[h], u) = 0,
               credit'[u] + Worth(u) + stale[u] = credit[u] + Worth(u)' + stale'[u], Worth(u)' \in Int
        PROVE  Account(u)'
    <2>1. WheelDebited(u)' = WheelDebited(u) /\ JackpotDebited(u)' = JackpotDebited(u)
      BY <1>1, <1>8, DebitedChanges
    <2> QED
      BY <1>1, <1>2, <1>8, <2>1
  <1>9. ASSUME NEW h \in Slots, CoinStep(h), UNCHANGED <<wheelVars, jackpotVars, followVars>>
        PROVE  Account(u)'
    <2>1. Moves(h) /\ Debt(pc[h], u) = 0 /\ Debt(pc'[h], u) = 0 /\ JDebt(pc[h], u) = 0 /\ JDebt(pc'[h], u) = 0
      BY <1>9, CoinTyped, NoDebts
    <2>2. UNCHANGED <<staked, paid, jackpotBets, timesPaid>>
      BY <1>9 DEF wheelVars, jackpotVars
    <2>3. credit'[u] + Worth(u) + stale[u] = credit[u] + Worth(u)' + stale'[u] /\ Worth(u)' \in Int
      BY <1>9, CoinAccounts
    <2> QED
      BY <1>8, <2>1, <2>2, <2>3
  <1>10. ASSUME NEW h \in Slots, FollowStep(h), UNCHANGED <<wheelVars, jackpotVars, coinVars>>
         PROVE  Account(u)'
    <2>1. Moves(h) /\ Debt(pc[h], u) = 0 /\ Debt(pc'[h], u) = 0 /\ JDebt(pc[h], u) = 0 /\ JDebt(pc'[h], u) = 0
      BY <1>10, FollowTyped, NoDebts
    <2>2. UNCHANGED <<staked, paid, jackpotBets, timesPaid, granted, stale>>
      BY <1>10 DEF wheelVars, jackpotVars, coinVars
    <2>3. credit' = credit
      BY <1>10 DEF FollowStep, FollowUser, UnfollowUser, BeginFollow, SaveAuthor, SaveReceiver, Begin, Continue, End
    <2> QED
      BY <1>1, <1>3, <1>8, <2>1, <2>2, <2>3
  <1>11. ASSUME Background
         PROVE  Account(u)'
    <2>1. WheelDebited(u)' <= WheelDebited(u) /\ JackpotDebited(u)' <= JackpotDebited(u)
      BY <1>11, DebitedShrinks DEF Background
    <2>2. WheelDebited(u)' \in Int /\ JackpotDebited(u)' \in Int
      BY DebitedAreIntegers
    <2>3. UNCHANGED <<credit, staked, paid, jackpotBets, timesPaid, granted, stale>>
      BY <1>11 DEF Background, jackpotVars
    <2> QED
      BY <1>1, <1>3, <2>1, <2>2, <2>3
  <1> QED
    BY <1>6, <1>7, <1>9, <1>10, <1>11, StepKinds

\* No gold appears from nowhere, for any numbers of users, bets and requests: what a user
\* owns, has on the way to a bet and has filed is covered by what it began with, won and
\* bought, and by what purchases brought back from stale copies.
THEOREM GoldIsAccounted == Spec => []GoldAccounted
  <1> DEFINE Inv == Types /\ JobsSeeDraws /\ MarkedHold /\ Accounts
  <1>1. Init => Inv
    <2> SUFFICES ASSUME Init PROVE Inv
      OBVIOUS
    <2>1. Types
      BY InitTyped
    <2>2. JobsSeeDraws /\ MarkedHold
      <3>1. \A h \in Slots : pc[h].at = "idle"
        BY DEF Init, StoreInit, Idle
      <3> QED
        BY <3>1 DEF Init, JackpotInit, JobsSeeDraws, MarkedHold
    <2>3. ASSUME NEW u \in Users
          PROVE  Account(u)
      BY TotalsAtStart, StoreConstants DEF Account
    <2> QED
      BY <2>1, <2>2, <2>3 DEF Accounts
  <1>2. Inv /\ [Next]_vars => Inv'
    <2> SUFFICES ASSUME Inv, [Next]_vars PROVE Inv'
      OBVIOUS
    <2>1. Types'
      BY StepTyped
    <2>2. JobsSeeDraws' /\ MarkedHold'
      BY MarksStayTrue
    <2>3. Accounts'
      BY <2>1, AccountsStay DEF Accounts
    <2> QED
      BY <2>1, <2>2, <2>3
  <1>3. Inv => GoldAccounted
    BY AccountsOfAll
  <1> QED
    BY <1>1, <1>2, <1>3, PTL DEF Spec
-----------------------------------------------------------------------------
\* What the table of bets holds for a player, round and fruit.
Table == [BetIds -> {None, Deleted} \cup {b \in Row : b.gold > 0}]
RowsIn(table, u, r, f) ==
  {b \in BetIds : table[b] \notin {None, Deleted} /\ table[b].user = u /\ table[b].round = r /\ table[b].choice = f}
GoldFiled(table, u, r, f) == SumFunctionOnSet([b \in BetIds |-> table[b].gold], RowsIn(table, u, r, f))

\* more is table but for the row b.
ChangesRow(table, more, b) ==
  /\ table \in Table /\ more \in Table /\ b \in BetIds
  /\ \A c \in BetIds \ {b} : more[c] = table[c]

LEMMA GoldFiledTypes ==
  ASSUME NEW table \in Table, NEW u, NEW r, NEW f
  PROVE  /\ IsFiniteSet(RowsIn(table, u, r, f))
         /\ \A b \in RowsIn(table, u, r, f) : table[b] \in Row /\ table[b].gold \in Nat
         /\ GoldFiled(table, u, r, f) \in Nat
  <1> DEFINE S == RowsIn(table, u, r, f)
             g == [b \in BetIds |-> table[b].gold]
  <1>1. IsFiniteSet(S)
    BY WheelConstants, FS_Subset DEF RowsIn
  <1>2. \A b \in S : b \in BetIds /\ table[b] \in Row /\ table[b].gold \in Nat
    BY DEF RowsIn, Table, Row
  <1>3. \A b \in S : g[b] \in Nat
    BY <1>2
  <1>4. GoldFiled(table, u, r, f) = SumFunctionOnSet(g, S)
    BY DEF GoldFiled
  <1> HIDE DEF g
  <1>5. GoldFiled(table, u, r, f) \in Nat
    BY <1>1, <1>3, <1>4, SumIsNatural
  <1> QED
    BY <1>1, <1>2, <1>5

LEMMA GoldFiledChanges ==
  ASSUME NEW table, NEW more, NEW b, ChangesRow(table, more, b), NEW u, NEW r, NEW f
  PROVE  GoldFiled(more, u, r, f) =
           GoldFiled(table, u, r, f)
             + (IF b \in RowsIn(more, u, r, f) THEN more[b].gold ELSE 0)
             - (IF b \in RowsIn(table, u, r, f) THEN table[b].gold ELSE 0)
  <1> USE DEF ChangesRow
  <1> DEFINE S == RowsIn(table, u, r, f)
             T == RowsIn(more, u, r, f)
             g == [c \in BetIds |-> table[c].gold]
             k == [c \in BetIds |-> more[c].gold]
  <1>1. IsFiniteSet(S) /\ (\A c \in S : table[c].gold \in Nat) /\ IsFiniteSet(T) /\ \A c \in T : more[c].gold \in Nat
    BY GoldFiledTypes
  <1>2. S \ {b} = T \ {b} /\ S \subseteq BetIds /\ T \subseteq BetIds
    BY DEF RowsIn
  <1>3. /\ \A c \in S : g[c] \in Int
        /\ \A c \in T : k[c] \in Int
        /\ \A c \in S \ {b} : g[c] = k[c]
        /\ g[b] = table[b].gold /\ k[b] = more[b].gold
    BY <1>1, <1>2
  <1>4. GoldFiled(table, u, r, f) = SumFunctionOnSet(g, S) /\ GoldFiled(more, u, r, f) = SumFunctionOnSet(k, T)
    BY DEF GoldFiled
  <1> HIDE DEF S, T, g, k
  <1>5. SumFunctionOnSet(k, T) =
          SumFunctionOnSet(g, S) + (IF b \in T THEN k[b] ELSE 0) - (IF b \in S THEN g[b] ELSE 0)
    BY <1>1, <1>2, <1>3, SumChanges
  <1>6. GoldFiled(more, u, r, f) =
          GoldFiled(table, u, r, f) + (IF b \in T THEN more[b].gold ELSE 0) - (IF b \in S THEN table[b].gold ELSE 0)
    BY <1>3, <1>4, <1>5
  <1> QED
    BY <1>6 DEF S, T

-----------------------------------------------------------------------------
\* What a settlement in progress still has to pay: nothing known before it has read the
\* winning bets, when it counts as waiting, and then what is left of what it read.
Waits(j, r, f) == IF j.at = "winners" /\ j.round = r /\ j.fruit = f THEN 1 ELSE 0
Left(j, u, r, f) == IF j.at = "pay" /\ j.round = r /\ j.fruit = f THEN WinningsLeft(j, u) ELSE 0
Waiting(jobs, r, f) == SumFunctionOnSet([h \in Slots |-> Waits(jobs[h], r, f)], Slots)
LeftToPay(jobs, u, r, f) == SumFunctionOnSet([h \in Slots |-> Left(jobs[h], u, r, f)], Slots)

\* The requests, with finitely many winners left to each.
Jobs == [Slots -> {j \in Job : j.at = "pay" => IsFiniteSet(j.left)}]
OneJobChanges(jobs, next, h) ==
  /\ jobs \in Jobs /\ next \in Jobs /\ h \in Slots
  /\ \A k \in Slots \ {h} : next[k] = jobs[k]

LEMMA LeftTypes ==
  ASSUME NEW j \in Job, j.at = "pay" => IsFiniteSet(j.left), NEW u, NEW r, NEW f
  PROVE  /\ Waits(j, r, f) \in Nat /\ Left(j, u, r, f) \in Nat
         /\ j.at = "pay" => WinningsLeft(j, u) \in Nat
  <1>1. ASSUME j.at = "pay"
        PROVE  WinningsLeft(j, u) \in Nat
    <2> DEFINE S == {v \in j.left : v.user = u}
               g == [w \in S |-> w.gold]
    <2>1. j \in Pay
      BY <1>1, JobsByTag
    <2>2. IsFiniteSet(S)
      BY <1>1, FS_Subset
    <2>3. \A w \in S : g[w] \in Nat
      BY <2>1 DEF Pay, Winner
    <2>4. WinningsLeft(j, u) = SumFunctionOnSet(g, S)
      BY DEF WinningsLeft, SumFunction
    <2> HIDE DEF S, g
    <2> QED
      BY <2>2, <2>3, <2>4, SumIsNatural
  <1> QED
    BY <1>1 DEF Waits, Left

LEMMA JobSums ==
  ASSUME NEW jobs \in Jobs, NEW u, NEW r, NEW f
  PROVE  Waiting(jobs, r, f) \in Nat /\ LeftToPay(jobs, u, r, f) \in Nat
  <1> DEFINE a == [k \in Slots |-> Waits(jobs[k], r, f)]
             b == [k \in Slots |-> Left(jobs[k], u, r, f)]
  <1>1. (\A k \in Slots : a[k] \in Nat) /\ (\A k \in Slots : b[k] \in Nat)
    BY LeftTypes DEF Jobs
  <1>2. Waiting(jobs, r, f) = SumFunctionOnSet(a, Slots) /\ LeftToPay(jobs, u, r, f) = SumFunctionOnSet(b, Slots)
    BY DEF Waiting, LeftToPay
  <1> HIDE DEF a, b
  <1> QED
    BY <1>1, <1>2, SumIsNatural, StoreConstants

LEMMA JobSumsChange ==
  ASSUME NEW jobs, NEW next, NEW h, OneJobChanges(jobs, next, h), NEW u, NEW r, NEW f
  PROVE  /\ Waiting(next, r, f) = Waiting(jobs, r, f) + Waits(next[h], r, f) - Waits(jobs[h], r, f)
         /\ LeftToPay(next, u, r, f) = LeftToPay(jobs, u, r, f) + Left(next[h], u, r, f) - Left(jobs[h], u, r, f)
  <1> USE DEF OneJobChanges
  <1> DEFINE a == [k \in Slots |-> Waits(jobs[k], r, f)]
             b == [k \in Slots |-> Left(jobs[k], u, r, f)]
             c == [k \in Slots |-> Waits(next[k], r, f)]
             d == [k \in Slots |-> Left(next[k], u, r, f)]
  <1>1. (\A k \in Slots : a[k] \in Nat) /\ (\A k \in Slots : b[k] \in Nat)
    BY LeftTypes DEF Jobs
  <1>2. (\A k \in Slots : c[k] \in Nat) /\ (\A k \in Slots : d[k] \in Nat)
    BY LeftTypes DEF Jobs
  <1>3. \A k \in Slots \ {h} : a[k] = c[k] /\ b[k] = d[k]
    OBVIOUS
  <1>4. /\ a[h] = Waits(jobs[h], r, f) /\ b[h] = Left(jobs[h], u, r, f)
        /\ c[h] = Waits(next[h], r, f) /\ d[h] = Left(next[h], u, r, f)
    OBVIOUS
  <1>5. /\ Waiting(jobs, r, f) = SumFunctionOnSet(a, Slots) /\ LeftToPay(jobs, u, r, f) = SumFunctionOnSet(b, Slots)
        /\ Waiting(next, r, f) = SumFunctionOnSet(c, Slots) /\ LeftToPay(next, u, r, f) = SumFunctionOnSet(d, Slots)
    BY DEF Waiting, LeftToPay
  <1> HIDE DEF a, b, c, d
  <1>6. /\ SumFunctionOnSet(a, Slots) \in Int
        /\ SumFunctionOnSet(c, Slots) = SumFunctionOnSet(a, Slots) + (IF h \in Slots THEN c[h] - a[h] ELSE 0)
    BY <1>1, <1>2, <1>3, SumOfOneChange, StoreConstants
  <1>7. /\ SumFunctionOnSet(b, Slots) \in Int
        /\ SumFunctionOnSet(d, Slots) = SumFunctionOnSet(b, Slots) + (IF h \in Slots THEN d[h] - b[h] ELSE 0)
    BY <1>1, <1>2, <1>3, SumOfOneChange, StoreConstants
  <1>8. a[h] \in Nat /\ b[h] \in Nat /\ c[h] \in Nat /\ d[h] \in Nat
    BY <1>1, <1>2
  <1> QED
    BY <1>4, <1>5, <1>6, <1>7, <1>8

\* Requests of other components, and requests that end, leave no more to pay.
LEMMA JobSumsShrink ==
  ASSUME NEW jobs \in Jobs, NEW next \in Jobs, \A h \in Slots : next[h] = jobs[h] \/ next[h].at \notin WheelTags,
         NEW u, NEW r, NEW f
  PROVE  Waiting(next, r, f) <= Waiting(jobs, r, f) /\ LeftToPay(next, u, r, f) <= LeftToPay(jobs, u, r, f)
  <1> DEFINE a == [k \in Slots |-> Waits(jobs[k], r, f)]
             b == [k \in Slots |-> Left(jobs[k], u, r, f)]
             c == [k \in Slots |-> Waits(next[k], r, f)]
             d == [k \in Slots |-> Left(next[k], u, r, f)]
  <1>1. (\A k \in Slots : a[k] \in Nat) /\ (\A k \in Slots : b[k] \in Nat)
    BY LeftTypes DEF Jobs
  <1>2. ASSUME NEW k \in Slots
        PROVE  next[k] = jobs[k] \/ (Waits(next[k], r, f) = 0 /\ Left(next[k], u, r, f) = 0)
    <2>1. "winners" \in WheelTags /\ "pay" \in WheelTags
      BY DEF WheelTags
    <2> QED
      BY <2>1, Zenon DEF Waits, Left
  <1>3. (\A k \in Slots : c[k] \in Nat /\ c[k] <= a[k]) /\ (\A k \in Slots : d[k] \in Nat /\ d[k] <= b[k])
    BY <1>1, <1>2
  <1>4. /\ Waiting(jobs, r, f) = SumFunctionOnSet(a, Slots) /\ LeftToPay(jobs, u, r, f) = SumFunctionOnSet(b, Slots)
        /\ Waiting(next, r, f) = SumFunctionOnSet(c, Slots) /\ LeftToPay(next, u, r, f) = SumFunctionOnSet(d, Slots)
    BY DEF Waiting, LeftToPay
  <1> HIDE DEF a, b, c, d
  <1>5. SumFunctionOnSet(c, Slots) <= SumFunctionOnSet(a, Slots)
    BY <1>1, <1>3, SumIsMonotonic, StoreConstants
  <1>6. SumFunctionOnSet(d, Slots) <= SumFunctionOnSet(b, Slots)
    BY <1>1, <1>3, SumIsMonotonic, StoreConstants
  <1> QED
    BY <1>4, <1>5, <1>6
-----------------------------------------------------------------------------
\* The account of one player, round and fruit: the rows hold at most what was filed; each
\* settlement that has not read the rows yet has drawn the fruit; and what was paid, is
\* still to pay and may still be read is covered by the draws.
Balanced(m, g, s, W, D, P, L) == g <= s /\ W <= D /\ P + m * (L + W * s) <= m * (D * s)

LEMMA Products ==
  /\ \A a, b, c \in Nat : b <= c => a * b <= a * c
  /\ \A a, b, c \in Nat : a * (b + c) = a * b + a * c
  /\ \A a, b, c \in Nat : (a + b) * c = a * c + b * c
  /\ \A a, b \in Nat : a * b \in Nat
  <1>1. \A a, b, c \in Nat : a * (b + c) = a * b + a * c
    OBVIOUS
  <1>2. \A a, b, c \in Nat : (a + b) * c = a * c + b * c
    OBVIOUS
  <1>3. \A a, b \in Nat : a * b \in Nat
    OBVIOUS
  <1>4. ASSUME NEW a \in Nat, NEW b \in Nat, NEW c \in Nat, b <= c
        PROVE  a * b <= a * c
    <2>1. c - b \in Nat /\ c = b + (c - b)
      BY <1>4
    <2>2. a * c = a * b + a * (c - b) /\ a * (c - b) \in Nat /\ a * b \in Nat
      BY <1>1, <1>3, <2>1
    <2> QED
      BY <2>2
  <1> QED
    BY <1>1, <1>2, <1>3, <1>4

LEMMA BalanceShrinks ==
  ASSUME NEW m \in Nat, NEW g \in Nat, NEW s \in Nat, NEW W \in Nat, NEW D \in Nat, NEW P \in Nat, NEW L \in Nat,
         Balanced(m, g, s, W, D, P, L),
         NEW h \in Nat, NEW V \in Nat, NEW K \in Nat, h <= g, V <= W, K <= L
  PROVE  Balanced(m, h, s, V, D, P, K)
  <1> USE DEF Balanced
  <1>1. V * s \in Nat /\ W * s \in Nat /\ s * V <= s * W /\ s * V = V * s /\ s * W = W * s
    BY Products
  <1>2. K + V * s \in Nat /\ L + W * s \in Nat /\ K + V * s <= L + W * s
    BY <1>1
  <1>3. m * (K + V * s) <= m * (L + W * s) /\ m * (K + V * s) \in Nat /\ m * (L + W * s) \in Nat
    BY <1>2, Products
  <1>4. D * s \in Nat
    BY Products
  <1>5. m * (D * s) \in Nat
    BY <1>4, Products
  <1> QED
    BY <1>3, <1>5

LEMMA BalanceMoves ==
  ASSUME NEW m \in Nat, NEW g \in Nat, NEW s \in Nat, NEW W \in Nat, NEW D \in Nat, NEW P \in Nat, NEW L \in Nat,
         Balanced(m, g, s, W, D, P, L)
  PROVE  /\ \A n \in Nat : Balanced(m, g + n, s + n, W, D, P, L)
         /\ Balanced(m, g, s, W + 1, D + 1, P, L)
         /\ \A V \in Nat : W = V + 1 => Balanced(m, g, s, V, D, P, L + g)
         /\ \A n, K \in Nat : L = K + n => Balanced(m, g, s, W, D, P + m * n, K)
  <1> USE DEF Balanced
  <1>1. W * s \in Nat /\ D * s \in Nat /\ m * (L + W * s) \in Nat /\ m * (D * s) \in Nat
    <2>1. W * s \in Nat /\ D * s \in Nat
      BY Products
    <2>2. L + W * s \in Nat
      BY <2>1
    <2> HIDE DEF Balanced
    <2> QED
      BY <2>1, <2>2, Products
  <1>2. ASSUME NEW n \in Nat
        PROVE  Balanced(m, g + n, s + n, W, D, P, L)
    <2>1. W * (s + n) = W * s + W * n /\ D * (s + n) = D * s + D * n /\ W * n \in Nat /\ D * n \in Nat
      BY Products
    <2>2. n * W <= n * D /\ n * W = W * n /\ n * D = D * n
      BY Products
    <2>3. m * (W * n) <= m * (D * n) /\ m * (W * n) \in Nat /\ m * (D * n) \in Nat
      BY <2>1, <2>2, Products
    <2>4. m * (D * s + D * n) = m * (D * s) + m * (D * n)
      BY <1>1, <2>1, Products
    <2>5. m * ((L + W * s) + W * n) = m * (L + W * s) + m * (W * n)
      BY <1>1, <2>1, Products
    <2>6. (L + W * s) + W * n = L + (W * s + W * n)
      BY <1>1, <2>1
    <2> QED
      BY <1>1, <2>1, <2>3, <2>4, <2>5, <2>6
  <1>3. Balanced(m, g, s, W + 1, D + 1, P, L)
    <2>1. (W + 1) * s = W * s + s /\ (D + 1) * s = D * s + s
      BY <1>1
    <2>2. m * (D * s + s) = m * (D * s) + m * s /\ m * s \in Nat
      BY <1>1, Products
    <2>3. m * ((L + W * s) + s) = m * (L + W * s) + m * s
      BY <1>1, Products
    <2>4. (L + W * s) + s = L + (W * s + s)
      BY <1>1
    <2> QED
      BY <1>1, <2>1, <2>2, <2>3, <2>4
  <1>4. ASSUME NEW V \in Nat, W = V + 1
        PROVE  Balanced(m, g, s, V, D, P, L + g)
    <2>1. W * s = V * s + s /\ V * s \in Nat
      BY <1>4, Products
    <2>2. (L + g) + V * s \in Nat /\ (L + g) + V * s <= L + W * s
      BY <1>1, <2>1
    <2>3. m * ((L + g) + V * s) <= m * (L + W * s) /\ m * ((L + g) + V * s) \in Nat
      BY <1>1, <2>2, Products
    <2> QED
      BY <1>1, <1>4, <2>3
  <1>5. ASSUME NEW n \in Nat, NEW K \in Nat, L = K + n
        PROVE  Balanced(m, g, s, W, D, P + m * n, K)
    <2>1. L + W * s = (K + W * s) + n /\ K + W * s \in Nat
      BY <1>1, <1>5
    <2>2. m * ((K + W * s) + n) = m * (K + W * s) + m * n /\ m * n \in Nat /\ m * (K + W * s) \in Nat
      BY <2>1, Products
    <2> QED
      BY <1>1, <2>1, <2>2
  <1> HIDE DEF Balanced
  <1> QED
    BY <1>2, <1>3, <1>4, <1>5

-----------------------------------------------------------------------------
\* Paying a winner takes it from those left.
LEMMA OneLess ==
  ASSUME NEW j \in Pay, IsFiniteSet(j.left), NEW w \in j.left, NEW u,
         NEW k, k = [j EXCEPT !.left = @ \ {w}]
  PROVE  /\ WinningsLeft(j, u) = WinningsLeft(k, u) + (IF w.user = u THEN w.gold ELSE 0)
         /\ w.gold \in Nat /\ w.user \in Users
  <1> DEFINE S == {v \in j.left : v.user = u}
             T == {v \in k.left : v.user = u}
             f == [v \in S |-> v.gold]
             g == [v \in T |-> v.gold]
  <1>1. k.left = j.left \ {w} /\ \A v \in j.left : v \in Winner /\ v.gold \in Nat
    BY DEF Pay, Winner
  <1>2. IsFiniteSet(S) /\ IsFiniteSet(T)
    BY <1>1, FS_Subset
  <1>3. (\A v \in S : f[v] \in Int) /\ (\A v \in T : g[v] \in Int) /\ \A v \in S \ {w} : f[v] = g[v]
    BY <1>1
  <1>4. S \ {w} = T \ {w} /\ w \notin T /\ (w \in S => f[w] = w.gold) /\ (w \in S <=> w.user = u)
    BY <1>1
  <1>5. WinningsLeft(j, u) = SumFunctionOnSet(f, S) /\ WinningsLeft(k, u) = SumFunctionOnSet(g, T)
    BY DEF WinningsLeft, SumFunction
  <1>6. w.gold \in Nat /\ w.user \in Users
    BY <1>1 DEF Winner
  <1> HIDE DEF S, T, f, g
  <1>7. SumFunctionOnSet(f, S) \in Int
    BY <1>2, <1>3, SumIsInteger
  <1>8. SumFunctionOnSet(g, T) =
          SumFunctionOnSet(f, S) + (IF w \in T THEN g[w] ELSE 0) - (IF w \in S THEN f[w] ELSE 0)
    BY <1>2, <1>3, <1>4, SumChanges
  <1> QED
    BY <1>4, <1>5, <1>6, <1>7, <1>8

\* The winners a settlement reads are the rows on the fruit, each with what it holds.
LEMMA WinnersRead ==
  ASSUME Types, NEW p \in Winners, NEW u, NEW k,
         k = Paying(p, {b \in RowsOfRound(p.round) : bets[b].choice = p.fruit})
  PROVE  /\ IsFiniteSet(k.left)
         /\ WinningsLeft(k, u) = GoldFiled(bets, u, p.round, p.fruit)
  <1> DEFINE rows == {b \in RowsOfRound(p.round) : bets[b].choice = p.fruit}
             H == [b \in BetIds |-> [id |-> b, user |-> bets[b].user, gold |-> bets[b].gold]]
             S == RowsIn(bets, u, p.round, p.fruit)
             T == {v \in k.left : v.user = u}
             f == [b \in BetIds |-> bets[b].gold]
             g == [v \in T |-> v.gold]
  <1>1. rows \subseteq BetIds /\ k.left = {H[b] : b \in rows}
    BY DEF Paying, RowsOfRound, Rows
  <1>2. IsFiniteSet(k.left)
    <2>1. IsFiniteSet(rows)
      BY <1>1, WheelConstants, FS_Subset
    <2> DEFINE G == [b \in rows |-> H[b]]
    <2>2. G \in Surjection(rows, k.left)
      BY <1>1 DEF Surjection
    <2> QED
      BY <2>1, <2>2, FS_Surjection
  <1>3. bets \in Table
    BY DEF Types, WheelTypes, Table
  <1>4. IsFiniteSet(S) /\ S \subseteq BetIds /\ \A b \in S : f[b] \in Int
    <2>1. IsFiniteSet(S) /\ \A b \in S : bets[b].gold \in Nat
      BY <1>3, GoldFiledTypes
    <2>2. S \subseteq BetIds
      BY DEF RowsIn
    <2> QED
      BY <2>1, <2>2
  <1>5. T = {H[b] : b \in S}
    BY <1>1 DEF RowsIn, RowsOfRound, Rows
  <1>6. (\A x, y \in S : H[x] = H[y] => x = y) /\ \A x \in S : g[H[x]] = f[x]
    <2>1. \A x \in S : H[x].id = x /\ H[x].gold = f[x] /\ H[x] \in T
      BY <1>4, <1>5
    <2> QED
      BY <2>1
  <1>7. WinningsLeft(k, u) = SumFunctionOnSet(g, T)
    BY DEF WinningsLeft, SumFunction
  <1>8. GoldFiled(bets, u, p.round, p.fruit) = SumFunctionOnSet(f, S)
    BY DEF GoldFiled
  <1> HIDE DEF rows, H, S, T, f, g
  <1>9. SumFunctionOnSet(g, {H[x] : x \in S}) = SumFunctionOnSet(f, S)
    BY <1>4, <1>6, SumOfImage
  <1> QED
    BY <1>2, <1>5, <1>7, <1>8, <1>9
-----------------------------------------------------------------------------
\* A request that is about to raise a row found one of its own player, round and fruit, and
\* a row keeps these until a reset deletes it.
RaisesMatch ==
  \A h \in Slots :
    pc[h].at = "raise" =>
      LET b == bets[pc[h].row] IN
      /\ b # None
      /\ b # Deleted => b.user = pc[h].user /\ b.round = pc[h].round /\ b.choice = pc[h].choice

LEMMA RowsKeep ==
  ASSUME Types, NEW h \in Slots, WheelStep(h), NEW b \in BetIds, bets[b] # None
  PROVE  /\ bets'[b] # None
         /\ bets'[b] # Deleted =>
              /\ bets[b] # Deleted
              /\ bets'[b].user = bets[b].user /\ bets'[b].round = bets[b].round /\ bets'[b].choice = bets[b].choice
  <1> USE DEF Types
  <1>1. bets \in Table /\ None # Deleted /\ bets' \in Table
    BY WheelTyped, WheelConstants DEF WheelTypes, Table
  <1>2. CASE InsertBet(h)
    <2>1. PICK c \in BetIds : bets[c] = None /\ \A d \in BetIds \ {c} : bets'[d] = bets[d]
      BY <1>1, <1>2 DEF InsertBet, Table
    <2> QED
      BY <1>1, <2>1 DEF Table
  <1>3. CASE RaiseBet(h)
    <2>1. CASE pc[h].row \in Rows
      <3>1. PICK c : c = pc[h].row
        OBVIOUS
      <3>2. bets' = [bets EXCEPT ![c] = [bets[c] EXCEPT !.gold = @ + pc[h].gold]]
        BY <1>3, <2>1, <3>1 DEF RaiseBet
      <3>3. c \in BetIds /\ bets[c] \in Row /\ bets[c] # Deleted
        BY <1>1, <2>1, <3>1 DEF Rows, Table
      <3>4. /\ bets'[c].user = bets[c].user /\ bets'[c].round = bets[c].round /\ bets'[c].choice = bets[c].choice
            /\ bets'[c] # None
        <4>1. bets'[c] = [bets[c] EXCEPT !.gold = @ + pc[h].gold]
          BY <1>1, <3>2, <3>3 DEF Table
        <4>2. pc[h].gold \in Nat
          BY <1>3, JobsByTag, StoreConstants DEF RaiseBet, PcTypes, FiledBet
        <4>3. bets'[c] \in Row
          BY <3>3, <4>1, <4>2 DEF Row
        <4> QED
          BY <3>3, <4>1, <4>3, NoRows DEF Row
      <3>5. b # c => bets'[b] = bets[b]
        BY <1>1, <3>2 DEF Table
      <3> QED
        BY <1>1, <3>3, <3>4, <3>5
    <2>2. CASE pc[h].row \notin Rows
      BY <1>1, <1>3, <2>2 DEF RaiseBet, Table
    <2> QED
      BY <2>1, <2>2
  <1>4. CASE DestroyBet(h)
    BY <1>1, <1>4 DEF DestroyBet, Table
  <1>5. CASE bets' = bets
    BY <1>5
  <1>6. InsertBet(h) \/ RaiseBet(h) \/ DestroyBet(h) \/ bets' = bets
    BY DEF WheelStep, GameReset, GameChoice, FetchBalance, Debit, FindBet, GameInfo, SaveResult, FindWinners,
           PayWinner, RecordRound, DestroyFails, ZeroProfit, wheelVars
  <1> QED
    BY <1>2, <1>3, <1>4, <1>5, <1>6

LEMMA RaisesStay ==
  ASSUME Types, RaisesMatch, [Next]_vars
  PROVE  RaisesMatch'
  <1> USE DEF Types
  <1>1. ASSUME NEW h \in Slots, WheelStep(h)
        PROVE  RaisesMatch'
    <2>1. /\ \A k \in Slots : k # h => pc'[k] = pc[k]
          /\ \A k \in Slots : pc[k] \in Job
      BY <1>1, WheelTyped DEF Moves, PcTypes
    <2>2. ASSUME NEW k \in Slots, k # h, pc[k].at = "raise"
          PROVE  LET b == bets'[pc[k].row] IN
                 /\ b # None
                 /\ b # Deleted => b.user = pc[k].user /\ b.round = pc[k].round /\ b.choice = pc[k].choice
      <3>1. pc[k].row \in BetIds /\ bets[pc[k].row] # None
        BY <2>1, <2>2, JobsByTag DEF FiledBet, RaisesMatch
      <3> QED
        BY <1>1, <2>2, <3>1, RowsKeep DEF RaisesMatch
    <2>3. ASSUME pc'[h].at = "raise"
          PROVE  /\ FindBet(h) /\ bets' = bets
                 /\ LET b == bets[pc'[h].row] IN
                    b # None /\ b.user = pc'[h].user /\ b.round = pc'[h].round /\ b.choice = pc'[h].choice
      <3>1. FindBet(h)
        BY <1>1, <2>3, WheelTransitions DEF WheelStep
      <3>2. bets' = bets
        BY <3>1 DEF FindBet, wheelVars
      <3> DEFINE j == pc[h]
      <3>3. PICK b : /\ Continue(h, AtRow(j, "insert", b)) \/ (b \in RowsOf(j.user, j.round, j.choice) /\ Continue(h, AtRow(j, "raise", b)))
        BY <3>1 DEF FindBet
      <3>4. pc'[h] = AtRow(j, "raise", b) /\ b \in RowsOf(j.user, j.round, j.choice)
        BY <2>3, <3>3, StepsMove DEF AtRow
      <3> QED
        BY <3>1, <3>2, <3>4 DEF AtRow, RowsOf, Rows
    <2> QED
      BY <2>1, <2>2, <2>3 DEF RaisesMatch
  <1>2. ASSUME WheelQuiet
        PROVE  RaisesMatch'
    <2>1. bets' = bets /\ \A k \in Slots : pc'[k] = pc[k] \/ pc'[k].at # "raise"
      BY <1>2 DEF WheelQuiet, WheelTags
    <2> QED
      BY <2>1 DEF RaisesMatch
  <1> QED
    BY <1>1, <1>2, Quiet

\* Only finitely many winners are ever left to pay.
LEMMA WinnersStayFinite ==
  ASSUME Types, Types', pc \in Jobs, [Next]_vars
  PROVE  pc' \in Jobs
  <1>1. pc' \in [Slots -> Job] /\ \A k \in Slots : pc[k].at = "pay" => IsFiniteSet(pc[k].left)
    BY DEF Types, PcTypes, Jobs
  <1>2. ASSUME NEW h \in Slots, WheelStep(h), pc'[h].at = "pay"
        PROVE  IsFiniteSet(pc'[h].left)
    <2>1. pc[h] \in Job
      BY DEF Types, PcTypes
    <2>2. FindWinners(h) \/ PayWinner(h)
      BY <1>2, WheelTransitions DEF WheelStep
    <2>3. CASE FindWinners(h)
      <3>1. pc[h] \in Winners
        BY <2>1, <2>3, JobsByTag DEF FindWinners
      <3>2. pc'[h] = Paying(pc[h], {b \in RowsOfRound(pc[h].round) : bets[b].choice = pc[h].fruit})
        BY <2>3, StepsMove DEF FindWinners
      <3> QED
        BY <3>1, <3>2, WinnersRead
    <2>4. CASE PayWinner(h)
      <3>1. pc[h] \in Pay /\ pc[h].at = "pay"
        BY <2>1, <2>4, JobsByTag DEF PayWinner
      <3>2. PICK w : Goto(h, [pc[h] EXCEPT !.left = @ \ {w}])
        BY <2>4 DEF PayWinner
      <3>3. pc'[h].left \in SUBSET pc[h].left
        BY <3>1, <3>2, <2>4, StepsMove DEF PayWinner, Pay
      <3> QED
        BY <1>1, <3>1, <3>3, FS_Subset
    <2> QED
      BY <2>2, <2>3, <2>4
  <1>3. ASSUME NEW h \in Slots, WheelStep(h)
        PROVE  pc' \in Jobs
    <2>1. \A k \in Slots : k # h => pc'[k] = pc[k]
      BY <1>3, WheelTyped DEF Moves, Types, PcTypes
    <2> QED
      BY <1>1, <1>2, <1>3, <2>1 DEF Jobs
  <1>4. ASSUME WheelQuiet
        PROVE  pc' \in Jobs
    <2>1. \A k \in Slots : pc'[k] = pc[k] \/ pc'[k].at # "pay"
      BY <1>4 DEF WheelQuiet, WheelTags
    <2> QED
      BY <1>1, <2>1 DEF Jobs
  <1> QED
    BY <1>3, <1>4, Quiet
-----------------------------------------------------------------------------
Times(saved, f) == Cardinality({i \in DOMAIN saved : saved[i] = f})

LEMMA TimesGrow ==
  ASSUME NEW saved \in Seq(Fruits), NEW g \in Fruits, NEW f
  PROVE  /\ Times(saved, f) \in Nat
         /\ Times(Append(saved, g), f) = Times(saved, f) + (IF g = f THEN 1 ELSE 0)
  <1> DEFINE n == Len(saved) + 1
             more == Append(saved, g)
             S == {i \in DOMAIN saved : saved[i] = f}
             T == {i \in DOMAIN more : more[i] = f}
  <1>1. /\ Len(saved) \in Nat /\ DOMAIN saved = 1..Len(saved) /\ DOMAIN more = 1..n
        /\ \A i \in DOMAIN saved : more[i] = saved[i]
        /\ more[n] = g
    OBVIOUS
  <1>2. IsFiniteSet(S) /\ Cardinality(S) \in Nat
    <2>1. IsFiniteSet(DOMAIN saved)
      BY <1>1, FS_Interval
    <2>2. S \in SUBSET DOMAIN saved
      OBVIOUS
    <2> HIDE DEF S
    <2> QED
      BY <2>1, <2>2, FS_Subset, FS_CardinalityType
  <1>3. CASE g = f
    <2>1. T = S \cup {n} /\ n \notin S
      BY <1>1, <1>3
    <2> HIDE DEF S, T, n
    <2>2. Cardinality(S \cup {n}) = Cardinality(S) + 1
      BY <1>2, <2>1, FS_AddElement
    <2> QED
      BY <1>2, <1>3, <2>1, <2>2 DEF Times, S, T
  <1>4. CASE g # f
    <2>1. T = S
      BY <1>1, <1>4
    <2>2. Times(more, f) = Times(saved, f)
      BY <2>1, Zenon DEF Times
    <2>3. Times(saved, f) \in Nat
      BY <1>2, Zenon DEF Times
    <2> QED
      BY <1>4, <2>2, <2>3
  <1> QED
    BY <1>3, <1>4

Covered(u, r, f) ==
  Balanced(WheelMultiplier[f], GoldFiled(bets, u, r, f), staked[<<u, r, f>>], Waiting(pc, r, f),
           Times(results[r], f), paid[<<u, r, f>>], LeftToPay(pc, u, r, f))

LEMMA OtherJobs ==
  ASSUME NEW j, j.at \notin {"winners", "pay"}, NEW u, NEW r, NEW f
  PROVE  Waits(j, r, f) = 0 /\ Left(j, u, r, f) = 0
  BY DEF Waits, Left

\* Filing raises the row, or the rows, by what it adds to the stakes.
LEMMA FilingBalances ==
  ASSUME Types, Types', RaisesMatch, NEW h \in Slots, InsertBet(h) \/ RaiseBet(h),
         NEW u \in Users, NEW r \in WheelRounds, NEW f \in Fruits
  PROVE  \E n \in Nat :
           /\ GoldFiled(bets', u, r, f) = GoldFiled(bets, u, r, f) + n
           /\ staked'[<<u, r, f>>] = staked[<<u, r, f>>] + n
  <1> USE DEF Types
  <1> DEFINE j == pc[h]
             own == j.user = u /\ j.round = r /\ j.choice = f
             n == IF own THEN j.gold ELSE 0
  <1>1. /\ bets \in Table /\ bets' \in Table /\ j \in Job
        /\ <<u, r, f>> \in Places /\ staked[<<u, r, f>>] \in Nat
        /\ GoldFiled(bets, u, r, f) \in Nat
    <2>1. bets \in Table /\ bets' \in Table /\ j \in Job
      BY DEF WheelTypes, PcTypes, Table
    <2>2. <<u, r, f>> \in Places /\ staked[<<u, r, f>>] \in Nat
      BY DEF WheelTypes, Places
    <2>3. GoldFiled(bets, u, r, f) \in Nat
      BY <2>1, GoldFiledTypes
    <2> QED
      BY <2>1, <2>2, <2>3
  <1>2. Filed(j) /\ j.gold \in Nat /\ <<j.user, j.round, j.choice>> \in Places => staked'[<<u, r, f>>] = staked[<<u, r, f>>] + n
    <2> SUFFICES ASSUME Filed(j), j.gold \in Nat, <<j.user, j.round, j.choice>> \in Places
                 PROVE  staked'[<<u, r, f>>] = staked[<<u, r, f>>] + n
      OBVIOUS
    <2>1. staked' = [staked EXCEPT ![<<j.user, j.round, j.choice>>] = @ + j.gold] /\ staked \in [Places -> Nat]
      BY DEF Filed, WheelTypes
    <2>2. own <=> <<j.user, j.round, j.choice>> = <<u, r, f>>
      OBVIOUS
    <2> QED
      BY <1>1, <2>1, <2>2
  <1>3. CASE InsertBet(h)
    <2>1. j.gold \in Nat /\ <<j.user, j.round, j.choice>> \in Places
      BY <1>1, <1>3, JobsByTag, StoreConstants DEF InsertBet, FiledBet, Places
    <2>2. PICK b \in BetIds : bets[b] = None /\
            bets' = [bets EXCEPT ![b] = [user |-> j.user, round |-> j.round, choice |-> j.choice, gold |-> j.gold]]
      BY <1>3 DEF InsertBet
    <2>3. bets'[b] = [user |-> j.user, round |-> j.round, choice |-> j.choice, gold |-> j.gold]
      BY <1>1, <2>2 DEF Table
    <2>4. bets'[b] \in Row
      BY <2>1, <2>3 DEF Row, Places
    <2>5. ChangesRow(bets, bets', b)
      BY <1>1, <2>2 DEF ChangesRow, Table
    <2>6. b \notin RowsIn(bets, u, r, f) /\ (b \in RowsIn(bets', u, r, f) <=> own) /\ bets'[b].gold = j.gold
      BY <2>2, <2>3, <2>4, NoRows DEF RowsIn
    <2>7. GoldFiled(bets', u, r, f) =
            GoldFiled(bets, u, r, f)
              + (IF b \in RowsIn(bets', u, r, f) THEN bets'[b].gold ELSE 0)
              - (IF b \in RowsIn(bets, u, r, f) THEN bets[b].gold ELSE 0)
      BY <2>5, GoldFiledChanges
    <2>8. GoldFiled(bets', u, r, f) = GoldFiled(bets, u, r, f) + n /\ n \in Nat
      BY <1>1, <2>1, <2>6, <2>7
    <2>9. staked'[<<u, r, f>>] = staked[<<u, r, f>>] + n
      BY <1>2, <1>3, <2>1 DEF InsertBet
    <2> HIDE DEF n
    <2> QED
      BY <2>8, <2>9
  <1>4. CASE RaiseBet(h) /\ j.row \in Rows
    <2>1. j.gold \in Nat /\ <<j.user, j.round, j.choice>> \in Places
      BY <1>1, <1>4, JobsByTag, StoreConstants DEF RaiseBet, FiledBet, Places
    <2>2. PICK b : b = j.row
      OBVIOUS
    <2>3. /\ b \in BetIds /\ bets[b] \in Row /\ bets[b].gold \in Nat
          /\ bets[b].user = j.user /\ bets[b].round = j.round /\ bets[b].choice = j.choice
      BY <1>1, <1>4, <2>2 DEF Rows, Table, Row, RaisesMatch, RaiseBet
    <2>4. bets' = [bets EXCEPT ![b] = [bets[b] EXCEPT !.gold = @ + j.gold]]
      BY <1>4, <2>2 DEF RaiseBet
    <2>5. bets'[b] = [bets[b] EXCEPT !.gold = @ + j.gold]
      BY <1>1, <2>3, <2>4 DEF Table
    <2>6. /\ bets'[b].user = j.user /\ bets'[b].round = j.round /\ bets'[b].choice = j.choice
          /\ bets'[b].gold = bets[b].gold + j.gold /\ bets'[b] \in Row
      BY <2>1, <2>3, <2>5 DEF Row
    <2>7. ChangesRow(bets, bets', b)
      BY <1>1, <2>3, <2>4 DEF ChangesRow, Table
    <2>8. (b \in RowsIn(bets, u, r, f) <=> own) /\ (b \in RowsIn(bets', u, r, f) <=> own)
      BY <2>3, <2>6, NoRows DEF RowsIn
    <2>9. GoldFiled(bets', u, r, f) =
            GoldFiled(bets, u, r, f)
              + (IF b \in RowsIn(bets', u, r, f) THEN bets'[b].gold ELSE 0)
              - (IF b \in RowsIn(bets, u, r, f) THEN bets[b].gold ELSE 0)
      BY <2>7, GoldFiledChanges
    <2>10. GoldFiled(bets', u, r, f) = GoldFiled(bets, u, r, f) + n /\ n \in Nat
      BY <1>1, <2>1, <2>3, <2>6, <2>8, <2>9
    <2>11. staked'[<<u, r, f>>] = staked[<<u, r, f>>] + n
      BY <1>2, <1>4, <2>1 DEF RaiseBet
    <2> HIDE DEF n
    <2> QED
      BY <2>10, <2>11
  <1>5. CASE RaiseBet(h) /\ j.row \notin Rows
    <2>1. bets' = bets /\ staked' = staked
      BY <1>5 DEF RaiseBet
    <2>2. 0 \in Nat /\ GoldFiled(bets, u, r, f) = GoldFiled(bets, u, r, f) + 0 /\ staked[<<u, r, f>>] = staked[<<u, r, f>>] + 0
      BY <1>1
    <2> QED
      BY <2>1, <2>2
  <1> QED
    BY <1>3, <1>4, <1>5
LEMMA AccountTypes ==
  ASSUME Types, pc \in Jobs, NEW u \in Users, NEW r \in WheelRounds, NEW f \in Fruits
  PROVE  /\ WheelMultiplier[f] \in Nat
         /\ GoldFiled(bets, u, r, f) \in Nat /\ staked[<<u, r, f>>] \in Nat /\ paid[<<u, r, f>>] \in Nat
         /\ Waiting(pc, r, f) \in Nat /\ LeftToPay(pc, u, r, f) \in Nat /\ Times(results[r], f) \in Nat
  <1>1. WheelMultiplier[f] \in Nat
    BY WheelConstants
  <1>2. staked[<<u, r, f>>] \in Nat /\ paid[<<u, r, f>>] \in Nat
    BY DEF Types, WheelTypes, Places
  <1>3. GoldFiled(bets, u, r, f) \in Nat
    BY GoldFiledTypes DEF Types, WheelTypes, Table
  <1>4. Waiting(pc, r, f) \in Nat /\ LeftToPay(pc, u, r, f) \in Nat
    BY JobSums
  <1>5. Times(results[r], f) \in Nat
    <2>1. results[r] \in Seq(Fruits)
      BY DEF Types, WheelTypes
    <2> QED
      BY <2>1, TimesGrow
  <1> QED
    BY <1>1, <1>2, <1>3, <1>4, <1>5

\* Each step keeps the account of a place in balance.
LEMMA CoveredStays ==
  ASSUME Types, Types', pc \in Jobs, pc' \in Jobs, RaisesMatch, [Next]_vars,
         NEW u \in Users, NEW r \in WheelRounds, NEW f \in Fruits, Covered(u, r, f)
  PROVE  Covered(u, r, f)'
  <1> DEFINE m == WheelMultiplier[f]
             g == GoldFiled(bets, u, r, f)
             s == staked[<<u, r, f>>]
             W == Waiting(pc, r, f)
             D == Times(results[r], f)
             P == paid[<<u, r, f>>]
             L == LeftToPay(pc, u, r, f)
             V == Waiting(pc', r, f)
             K == LeftToPay(pc', u, r, f)
  <1>1. /\ m \in Nat /\ g \in Nat /\ s \in Nat /\ W \in Nat /\ D \in Nat /\ P \in Nat /\ L \in Nat
        /\ V \in Nat /\ K \in Nat
    BY AccountTypes, JobSums
  <1>2. Balanced(m, g, s, W, D, P, L)
    BY DEF Covered
  <1>3. Covered(u, r, f)' <=>
          Balanced(m, GoldFiled(bets', u, r, f), staked'[<<u, r, f>>], V, Times(results'[r], f), paid'[<<u, r, f>>], K)
    BY DEF Covered
  <1>4. ASSUME V <= W, K <= L, bets' = bets, UNCHANGED <<staked, results, paid>>
        PROVE  Covered(u, r, f)'
    <2> HIDE DEF m, g, s, W, D, P, L, V, K
    <2>1. g <= g
      BY <1>1
    <2>2. Balanced(m, g, s, V, D, P, K)
      BY <1>1, <1>2, <1>4, <2>1, BalanceShrinks, Zenon
    <2> QED
      BY <1>3, <1>4, <2>2 DEF g, s, D, P
  <1>5. ASSUME WheelQuiet
        PROVE  Covered(u, r, f)'
    BY <1>4, <1>5, JobSumsShrink DEF WheelQuiet
  <1>6. ASSUME NEW h \in Slots, WheelStep(h)
        PROVE  Covered(u, r, f)'
    <2> DEFINE j == pc[h]
               k == pc'[h]
    <2>1. OneJobChanges(pc, pc', h) /\ j \in Job /\ k \in Job
      BY <1>6, WheelTyped DEF OneJobChanges, Moves, Types, PcTypes
    <2>2. /\ V = W + Waits(k, r, f) - Waits(j, r, f)
          /\ K = L + Left(k, u, r, f) - Left(j, u, r, f)
      BY <2>1, JobSumsChange
    <2>3. /\ Waits(j, r, f) \in Nat /\ Left(j, u, r, f) \in Nat
          /\ Waits(k, r, f) \in Nat /\ Left(k, u, r, f) \in Nat
      BY <2>1, LeftTypes DEF Jobs
    <2>4. CASE InsertBet(h) \/ RaiseBet(h)
      <3>1. PICK n \in Nat :
              GoldFiled(bets', u, r, f) = g + n /\ staked'[<<u, r, f>>] = s + n
        BY <2>4, FilingBalances
      <3>2. results' = results /\ paid' = paid
        BY <2>4 DEF InsertBet, RaiseBet
      <3>3. j.at \notin {"winners", "pay"} /\ k.at \notin {"winners", "pay"}
        BY <2>4, WheelTransitions DEF InsertBet, RaiseBet
      <3>4. V = W /\ K = L
        BY <1>1, <2>2, <3>3, OtherJobs
      <3> HIDE DEF m, g, s, W, D, P, L, V, K
      <3>5. Balanced(m, g + n, s + n, W, D, P, L)
        BY <1>1, <1>2, BalanceMoves
      <3> QED
        BY <1>3, <3>1, <3>2, <3>4, <3>5 DEF D, P
    <2>5. CASE DestroyBet(h)
      <3>1. PICK b \in Rows : bets' = [bets EXCEPT ![b] = Deleted]
        BY <2>5 DEF DestroyBet
      <3>2. bets \in Table /\ bets' \in Table /\ b \in BetIds /\ bets'[b] = Deleted
        BY <3>1 DEF Types, WheelTypes, Table, Rows
      <3>3. ChangesRow(bets, bets', b)
        BY <3>1, <3>2 DEF ChangesRow, Table
      <3>4. b \notin RowsIn(bets', u, r, f)
        BY <3>2 DEF RowsIn
      <3>5. GoldFiled(bets', u, r, f) =
              GoldFiled(bets, u, r, f)
                + (IF b \in RowsIn(bets', u, r, f) THEN bets'[b].gold ELSE 0)
                - (IF b \in RowsIn(bets, u, r, f) THEN bets[b].gold ELSE 0)
        BY <3>3, GoldFiledChanges
      <3>6. b \in RowsIn(bets, u, r, f) => bets[b].gold \in Nat
        BY <3>2, GoldFiledTypes
      <3>7. GoldFiled(bets', u, r, f) \in Nat
        BY <3>2, GoldFiledTypes
      <3>8. GoldFiled(bets', u, r, f) <= g
        BY <1>1, <3>4, <3>5, <3>6
      <3>9. UNCHANGED <<staked, results, paid>>
        BY <2>5 DEF DestroyBet
      <3>10. j.at \notin {"winners", "pay"} /\ k.at \notin {"winners", "pay"}
        BY <2>5, WheelTransitions DEF DestroyBet
      <3>11. V = W /\ K = L
        BY <1>1, <2>2, <3>10, OtherJobs
      <3> HIDE DEF m, g, s, W, D, P, L, V, K
      <3>12. W <= W /\ L <= L
        BY <1>1
      <3>13. Balanced(m, GoldFiled(bets', u, r, f), s, W, D, P, L)
        BY <1>1, <1>2, <3>7, <3>8, <3>12, BalanceShrinks, Zenon
      <3> QED
        BY <1>3, <3>9, <3>11, <3>13 DEF s, D, P
    <2>6. CASE SaveResult(h)
      <3>1. j \in Draw
        BY <2>1, <2>6, JobsByTag DEF SaveResult
      <3>2. PICK d \in Fruits :
              /\ results' = [results EXCEPT ![j.round] = Append(@, d)]
              /\ Continue(h, [at |-> "winners", round |-> j.round, fruit |-> d])
        BY <2>6 DEF SaveResult
      <3>3. k = [at |-> "winners", round |-> j.round, fruit |-> d]
        BY <3>2, StepsMove
      <3>4. bets' = bets /\ UNCHANGED <<staked, paid>> /\ j.at = "draw"
        BY <2>6 DEF SaveResult
      <3>5. /\ Waits(j, r, f) = 0 /\ Left(j, u, r, f) = 0 /\ Left(k, u, r, f) = 0
            /\ Waits(k, r, f) = IF j.round = r /\ d = f THEN 1 ELSE 0
        BY <3>3, <3>4 DEF Waits, Left
      <3>6. Times(results'[r], f) = D + (IF j.round = r /\ d = f THEN 1 ELSE 0)
        <4>1. results[r] \in Seq(Fruits) /\ results \in [WheelRounds -> Seq(Fruits)]
          BY DEF Types, WheelTypes
        <4>2. CASE j.round = r
          <5>1. results'[r] = Append(results[r], d)
            BY <3>2, <4>1, <4>2
          <5> QED
            BY <4>1, <4>2, <5>1, TimesGrow
        <4>3. CASE j.round # r
          <5>1. results'[r] = results[r]
            BY <3>2, <4>1, <4>3
          <5> QED
            BY <1>1, <4>3, <5>1
        <4> QED
          BY <4>2, <4>3
      <3>7. K = L
        BY <1>1, <2>2, <3>5
      <3>8. CASE j.round = r /\ d = f
        <4>1. V = W + 1 /\ Times(results'[r], f) = D + 1
          BY <1>1, <2>2, <3>5, <3>6, <3>8
        <4> HIDE DEF m, g, s, W, D, P, L, V, K
        <4>2. Balanced(m, g, s, W + 1, D + 1, P, L)
          BY <1>1, <1>2, BalanceMoves
        <4> QED
          BY <1>3, <3>4, <3>7, <4>1, <4>2 DEF g, s, P
      <3>9. CASE ~ (j.round = r /\ d = f)
        <4>1. V = W /\ Times(results'[r], f) = D
          BY <1>1, <2>2, <3>5, <3>6, <3>9
        <4> HIDE DEF m, W, D, L, V, K
        <4> QED
          BY <1>2, <1>3, <3>4, <3>7, <4>1
      <3> QED
        BY <3>8, <3>9
    <2>7. CASE FindWinners(h)
      <3>1. j \in Winners
        BY <2>1, <2>7, JobsByTag DEF FindWinners
      <3>2. /\ k = Paying(j, {b \in RowsOfRound(j.round) : bets[b].choice = j.fruit})
            /\ UNCHANGED <<bets, staked, results, paid>> /\ j.at = "winners"
        BY <2>7, StepsMove DEF FindWinners, wheelVars
      <3>3. WinningsLeft(k, u) = GoldFiled(bets, u, j.round, j.fruit)
        BY <3>1, <3>2, WinnersRead
      <3>4. k.at = "pay" /\ k.round = j.round /\ k.fruit = j.fruit
        BY <3>2 DEF Paying
      <3>5. CASE j.round = r /\ j.fruit = f
        <4>1. Waits(j, r, f) = 1 /\ Waits(k, r, f) = 0 /\ Left(j, u, r, f) = 0 /\ Left(k, u, r, f) = g
          BY <3>2, <3>3, <3>4, <3>5 DEF Waits, Left
        <4>2. W = V + 1 /\ K = L + g
          BY <1>1, <2>2, <4>1
        <4> HIDE DEF m, g, s, W, D, P, L, V, K
        <4>3. Balanced(m, g, s, V, D, P, L + g)
          BY <1>1, <1>2, <4>2, BalanceMoves
        <4> QED
          BY <1>3, <3>2, <4>2, <4>3 DEF g, s, D, P
      <3>6. CASE ~ (j.round = r /\ j.fruit = f)
        <4>1. Waits(j, r, f) = 0 /\ Waits(k, r, f) = 0 /\ Left(j, u, r, f) = 0 /\ Left(k, u, r, f) = 0
          BY <3>4, <3>6 DEF Waits, Left
        <4>2. V <= W /\ K <= L
          BY <1>1, <2>2, <4>1
        <4> QED
          BY <1>4, <3>2, <4>2
      <3> QED
        BY <3>5, <3>6
    <2>8. CASE PayWinner(h)
      <3>1. j \in Pay /\ IsFiniteSet(j.left) /\ j.at = "pay"
        BY <2>1, <2>8, JobsByTag DEF PayWinner, Jobs
      <3>2. PICK w \in j.left :
              /\ paid' = [paid EXCEPT ![<<w.user, j.round, j.fruit>>] = @ + WheelMultiplier[j.fruit] * w.gold]
              /\ Goto(h, [j EXCEPT !.left = @ \ {w}])
        BY <2>8 DEF PayWinner
      <3>3. k = [j EXCEPT !.left = @ \ {w}] /\ bets' = bets /\ UNCHANGED <<staked, results>>
        BY <2>8, <3>2, StepsMove DEF PayWinner
      <3>4. /\ WinningsLeft(j, u) = WinningsLeft(k, u) + (IF w.user = u THEN w.gold ELSE 0)
            /\ w.gold \in Nat /\ w.user \in Users
        BY <3>1, <3>3, OneLess
      <3>5. k.at = "pay" /\ k.round = j.round /\ k.fruit = j.fruit
        BY <3>1, <3>3 DEF Pay
      <3>6. /\ paid \in [Places -> Nat] /\ <<w.user, j.round, j.fruit>> \in Places /\ <<u, r, f>> \in Places
        BY <3>1, <3>4 DEF Types, WheelTypes, Places, Pay
      <3>7. Waits(j, r, f) = 0 /\ Waits(k, r, f) = 0
        BY <3>1, <3>5 DEF Waits
      <3>8. CASE w.user = u /\ j.round = r /\ j.fruit = f
        <4>1. paid'[<<u, r, f>>] = P + m * w.gold
          BY <3>2, <3>6, <3>8
        <4>2. Left(j, u, r, f) = Left(k, u, r, f) + w.gold
          BY <3>1, <3>4, <3>5, <3>8 DEF Left
        <4>3. V = W /\ L = K + w.gold
          BY <1>1, <2>2, <2>3, <3>4, <3>7, <4>2
        <4> HIDE DEF m, g, s, W, D, P, L, V, K
        <4>4. Balanced(m, g, s, W, D, P + m * w.gold, K)
          BY <1>1, <1>2, <3>4, <4>3, BalanceMoves
        <4> QED
          BY <1>3, <3>3, <4>1, <4>3, <4>4 DEF g, s, D
      <3>9. CASE ~ (w.user = u /\ j.round = r /\ j.fruit = f)
        <4>1. paid'[<<u, r, f>>] = P
          BY <3>2, <3>6, <3>9
        <4>2. Left(k, u, r, f) <= Left(j, u, r, f)
          BY <2>3, <3>1, <3>4, <3>5, <3>9 DEF Left
        <4>3. V <= W /\ K <= L
          BY <1>1, <2>2, <2>3, <3>7, <4>2
        <4> HIDE DEF m, g, s, W, D, P, L, V, K
        <4>4. g <= g
          BY <1>1
        <4>5. Balanced(m, g, s, V, D, P, K)
          BY <1>1, <1>2, <4>3, <4>4, BalanceShrinks, Zenon
        <4> QED
          BY <1>3, <3>3, <4>1, <4>5 DEF g, s, D
      <3> QED
        BY <3>8, <3>9
    <2>9. CASE ~ (InsertBet(h) \/ RaiseBet(h) \/ DestroyBet(h) \/ SaveResult(h) \/ FindWinners(h) \/ PayWinner(h))
      <3>1. bets' = bets /\ UNCHANGED <<staked, results, paid>>
        BY <1>6, <2>9 DEF WheelStep, GameReset, GameChoice, FetchBalance, Debit, FindBet, GameInfo, RecordRound,
                          DestroyFails, ZeroProfit, wheelVars
      <3>2. k.at \notin {"winners", "pay"}
        BY <1>6, <2>9, WheelTransitions DEF WheelStep
      <3>3. V <= W /\ K <= L
        BY <1>1, <2>2, <2>3, <3>2, OtherJobs
      <3> QED
        BY <1>4, <3>1, <3>3
    <2> QED
      BY <2>4, <2>5, <2>6, <2>7, <2>8, <2>9
  <1> QED
    BY <1>5, <1>6, Quiet
LEMMA JobsAtStart ==
  ASSUME Init, NEW r, NEW f, NEW u
  PROVE  pc \in Jobs /\ Waiting(pc, r, f) = 0 /\ LeftToPay(pc, u, r, f) = 0
  <1>1. \A h \in Slots : pc[h] = Idle /\ pc[h].at = "idle"
    BY DEF Init, StoreInit, Idle
  <1>2. pc \in Jobs
    BY <1>1, InitTyped DEF Types, PcTypes, Jobs
  <1> DEFINE a == [k \in Slots |-> Waits(pc[k], r, f)]
             b == [k \in Slots |-> Left(pc[k], u, r, f)]
  <1>3. (\A k \in Slots : a[k] = 0) /\ (\A k \in Slots : b[k] = 0)
    BY <1>1, OtherJobs
  <1>4. Waiting(pc, r, f) = SumFunctionOnSet(a, Slots) /\ LeftToPay(pc, u, r, f) = SumFunctionOnSet(b, Slots)
    BY DEF Waiting, LeftToPay
  <1> HIDE DEF a, b
  <1> QED
    BY <1>2, <1>3, <1>4, SumOfZeros, StoreConstants

\* However requests interleave, fail and are cut short, and however many there are, a player
\* is paid for a fruit at most once per result of the round that names it, and at most the
\* winnings of what was filed on it.
THEOREM WinnersArePaidForResults == Spec => []PaidForResults
  <1> DEFINE AllCovered == \A u \in Users, r \in WheelRounds, f \in Fruits : Covered(u, r, f)
             Inv == Types /\ pc \in Jobs /\ RaisesMatch /\ AllCovered
  <1>1. Init => Inv
    <2> SUFFICES ASSUME Init PROVE Inv
      OBVIOUS
    <2>1. Types /\ pc \in Jobs
      BY InitTyped, JobsAtStart
    <2>2. RaisesMatch
      BY DEF Init, StoreInit, Idle, RaisesMatch
    <2>3. ASSUME NEW u \in Users, NEW r \in WheelRounds, NEW f \in Fruits
          PROVE  Covered(u, r, f)
      <3>1. GoldFiled(bets, u, r, f) = 0
        <4>1. RowsIn(bets, u, r, f) = {}
          BY DEF Init, WheelInit, RowsIn
        <4> QED
          BY <4>1, SumOfNone, Zenon DEF GoldFiled
      <3>2. staked[<<u, r, f>>] = 0 /\ paid[<<u, r, f>>] = 0
        BY DEF Init, WheelInit, Places
      <3>3. Waiting(pc, r, f) = 0 /\ LeftToPay(pc, u, r, f) = 0
        BY JobsAtStart
      <3>4. Times(results[r], f) \in Nat /\ WheelMultiplier[f] \in Nat
        BY <2>1, AccountTypes
      <3>5. \A m, D \in Nat : Balanced(m, 0, 0, 0, D, 0, 0)
        BY DEF Balanced
      <3> QED
        BY <3>1, <3>2, <3>3, <3>4, <3>5 DEF Covered
    <2> QED
      BY <2>1, <2>2, <2>3
  <1>2. Inv /\ [Next]_vars => Inv'
    <2> SUFFICES ASSUME Inv, [Next]_vars PROVE Inv'
      OBVIOUS
    <2>1. Types'
      BY StepTyped
    <2>2. pc' \in Jobs /\ RaisesMatch'
      BY <2>1, WinnersStayFinite, RaisesStay
    <2>3. ASSUME NEW u \in Users, NEW r \in WheelRounds, NEW f \in Fruits
          PROVE  Covered(u, r, f)'
      BY <2>1, <2>2, CoveredStays
    <2> QED
      BY <2>1, <2>2, <2>3
  <1>3. Inv => PaidForResults
    <2> SUFFICES ASSUME Inv, NEW u \in Users, NEW r \in WheelRounds, NEW f \in Fruits
                 PROVE  paid[<<u, r, f>>] <= Times(results[r], f) * WheelMultiplier[f] * staked[<<u, r, f>>]
      BY Zenon DEF PaidForResults, Times
    <2> DEFINE m == WheelMultiplier[f]
               s == staked[<<u, r, f>>]
               W == Waiting(pc, r, f)
               D == Times(results[r], f)
               P == paid[<<u, r, f>>]
               L == LeftToPay(pc, u, r, f)
    <2>1. m \in Nat /\ s \in Nat /\ W \in Nat /\ D \in Nat /\ P \in Nat /\ L \in Nat
      BY AccountTypes
    <2>2. P + m * (L + W * s) <= m * (D * s)
      BY DEF Covered, Balanced
    <2> HIDE DEF m, s, W, D, P, L
    <2>3. W * s \in Nat /\ D * s \in Nat
      BY <2>1, Products
    <2>4. m * (L + W * s) \in Nat /\ m * (D * s) = D * m * s
      BY <2>1, <2>3, Products
    <2>5. P <= D * m * s
      BY <2>1, <2>2, <2>4
    <2> QED
      BY <2>5 DEF m, s, D, P
  <1> QED
    BY <1>1, <1>2, <1>3, PTL DEF Spec
-----------------------------------------------------------------------------
\* One request at a time, none cut short and no user cache: what the functions promise.

\* The gold of u that a settlement still has to pay, and all that a request holds of u's.
AmountIn(rows, S, u) == SumFunctionOnSet(Amounts(rows), {n \in S : rows[n].user = u})
BetsOn(rows, r, f) == {n \in DOMAIN rows : rows[n].round = r /\ rows[n].choice = f}
WOwed(j, table, u) ==
  IF j.at = "winners" THEN WheelMultiplier[j.fruit] * GoldFiled(table, u, j.round, j.fruit)
  ELSE IF j.at = "pay" THEN WheelMultiplier[j.fruit] * WinningsLeft(j, u) ELSE 0
JOwed(j, rows, u) ==
  IF j.at = "jwinners" THEN JackpotMultiplier[j.fruit] * AmountIn(rows, BetsOn(rows, j.round, j.fruit), u)
  ELSE IF j.at \in {"jpay", "jmark"} THEN JackpotMultiplier[j.fruit] * AmountIn(rows, j.left, u) ELSE 0
Due(j, table, rows, u) == Debt(j, u) + WOwed(j, table, u) + JDebt(j, u) + JOwed(j, rows, u)

\* A sum over slots that are all idle but h.
LEMMA OneTerm ==
  ASSUME NEW h \in Slots, NEW S, S \subseteq {h}, NEW f, h \in S => f[h] \in Int
  PROVE  SumFunctionOnSet(f, S) = IF h \in S THEN f[h] ELSE 0
  <1>1. CASE h \in S
    <2>1. IsFiniteSet(S)
      BY FS_Singleton, FS_Subset
    <2>2. SumFunctionOnSet(f, S) = f[h] + SumFunctionOnSet(f, S \ {h})
      BY <1>1, <2>1, SumWithout
    <2>3. S \ {h} = {}
      OBVIOUS
    <2>4. SumFunctionOnSet(f, S \ {h}) = 0
      BY <2>3, SumOfNone
    <2> QED
      BY <1>1, <2>2, <2>4
  <1>2. CASE h \notin S
    <2>1. S = {}
      BY <1>2
    <2> QED
      BY <1>2, <2>1, SumOfNone
  <1> QED
    BY <1>1, <1>2

\* The bets of a set of jackpot rows.
LEMMA AmountTypes ==
  ASSUME NEW rows \in Seq(JackpotRow), NEW S, S \subseteq DOMAIN rows, NEW u
  PROVE  /\ AmountIn(rows, S, u) \in Nat
         /\ IsFiniteSet(S)
         /\ \A n \in DOMAIN rows : Amounts(rows)[n] \in Nat /\ rows[n] \in JackpotRow
  <1>1. \A n \in DOMAIN rows : Amounts(rows)[n] \in Nat /\ rows[n] \in JackpotRow
    <2>1. \A n \in DOMAIN rows : rows[n] \in JackpotRow
      OBVIOUS
    <2>2. \A n \in DOMAIN rows : rows[n].amount \in Nat
      BY <2>1 DEF JackpotRow
    <2> QED
      BY <2>1, <2>2 DEF Amounts
  <1>2. IsFiniteSet(DOMAIN rows)
    <2>1. DOMAIN rows = 1..Len(rows) /\ Len(rows) \in Nat
      OBVIOUS
    <2> QED
      BY <2>1, FS_Interval
  <1>3. IsFiniteSet(S) /\ IsFiniteSet({n \in S : rows[n].user = u})
    BY <1>2, FS_Subset
  <1>4. AmountIn(rows, S, u) \in Nat
    BY <1>1, <1>3, SumIsNatural DEF AmountIn
  <1> QED
    BY <1>1, <1>3, <1>4

LEMMA TypesOfJobs ==
  ASSUME Types, pc \in Jobs, NEW h \in Slots
  PROVE  /\ bets \in Table /\ jackpotBets \in Seq(JackpotRow) /\ pc[h] \in Job
         /\ pc[h].at = "pay" => IsFiniteSet(pc[h].left)
         /\ pc[h].at \in {"jpay", "jmark"} => pc[h].left \subseteq DOMAIN jackpotBets
         /\ pc[h].at \in {"winners", "pay"} => pc[h].fruit \in Fruits
         /\ pc[h].at \in {"jwinners", "jpay", "jmark"} => pc[h].fruit \in Fruits
  <1>1. bets \in Table /\ jackpotBets \in Seq(JackpotRow) /\ pc[h] \in Job
    BY DEF Types, WheelTypes, JackpotTypes, PcTypes, Table
  <1>2. pc[h].at = "pay" => IsFiniteSet(pc[h].left)
    BY DEF Jobs
  <1>3. pc[h].at \in {"jpay", "jmark"} => pc[h].left \subseteq DOMAIN jackpotBets
    BY DEF Types, JackpotTypes
  <1>4. pc[h].at \in {"winners", "pay"} => pc[h].fruit \in Fruits
    BY <1>1, JobsByTag DEF Winners, Pay
  <1>5. pc[h].at \in {"jwinners", "jpay", "jmark"} => pc[h].fruit \in Fruits
    BY <1>1, JobsByTag DEF JWinners, JPay, JMark
  <1> QED
    BY <1>1, <1>2, <1>3, <1>4, <1>5

\* What a request holds is an amount.
HoldsAmounts ==
  \A h \in Slots, u \in Users :
    /\ Debt(pc[h], u) \in Nat /\ WOwed(pc[h], bets, u) \in Nat
    /\ JDebt(pc[h], u) \in Nat /\ JOwed(pc[h], jackpotBets, u) \in Nat
    /\ Due(pc[h], bets, jackpotBets, u) \in Nat

LEMMA HeldAreAmounts == Types /\ pc \in Jobs => HoldsAmounts
  <1> SUFFICES ASSUME Types, pc \in Jobs, NEW h \in Slots, NEW u \in Users
               PROVE  /\ Debt(pc[h], u) \in Nat /\ WOwed(pc[h], bets, u) \in Nat
                      /\ JDebt(pc[h], u) \in Nat /\ JOwed(pc[h], jackpotBets, u) \in Nat
                      /\ Due(pc[h], bets, jackpotBets, u) \in Nat
    BY DEF HoldsAmounts
  <1> DEFINE j == pc[h]
  <1>1. /\ bets \in Table /\ jackpotBets \in Seq(JackpotRow) /\ j \in Job
        /\ j.at = "pay" => IsFiniteSet(j.left)
        /\ j.at \in {"jpay", "jmark"} => j.left \subseteq DOMAIN jackpotBets
        /\ j.at \in {"winners", "pay"} => j.fruit \in Fruits
        /\ j.at \in {"jwinners", "jpay", "jmark"} => j.fruit \in Fruits
    BY TypesOfJobs
  <1>2. Debt(j, u) \in Nat /\ JDebt(j, u) \in Nat
    BY <1>1, DebtTypes
  <1>3. WOwed(j, bets, u) \in Nat
    <2>1. CASE j.at = "winners"
      <3>1. GoldFiled(bets, u, j.round, j.fruit) \in Nat /\ WheelMultiplier[j.fruit] \in Nat
        BY <1>1, <2>1, GoldFiledTypes, WheelConstants
      <3> QED
        BY <2>1, <3>1, Products DEF WOwed
    <2>2. CASE j.at = "pay"
      <3>1. WinningsLeft(j, u) \in Nat /\ WheelMultiplier[j.fruit] \in Nat
        BY <1>1, <2>2, LeftTypes, WheelConstants
      <3> QED
        BY <2>2, <3>1, Products DEF WOwed
    <2>3. CASE j.at \notin {"winners", "pay"}
      BY <2>3 DEF WOwed
    <2> QED
      BY <2>1, <2>2, <2>3
  <1>4. JOwed(j, jackpotBets, u) \in Nat
    <2>1. CASE j.at = "jwinners"
      <3>1. BetsOn(jackpotBets, j.round, j.fruit) \subseteq DOMAIN jackpotBets
        BY DEF BetsOn
      <3>2. AmountIn(jackpotBets, BetsOn(jackpotBets, j.round, j.fruit), u) \in Nat /\ JackpotMultiplier[j.fruit] \in Nat
        BY <1>1, <2>1, <3>1, AmountTypes, JackpotConstants
      <3> QED
        BY <2>1, <3>2, Products DEF JOwed
    <2>2. CASE j.at \in {"jpay", "jmark"}
      <3>1. AmountIn(jackpotBets, j.left, u) \in Nat /\ JackpotMultiplier[j.fruit] \in Nat
        BY <1>1, <2>2, AmountTypes, JackpotConstants
      <3> QED
        BY <2>2, <3>1, Products DEF JOwed
    <2>3. CASE j.at \notin {"jwinners", "jpay", "jmark"}
      BY <2>3 DEF JOwed
    <2> QED
      BY <2>1, <2>2, <2>3
  <1> QED
    BY <1>2, <1>3, <1>4 DEF Due

\* What is read as gold on the books, by player, game, round and fruit.
StakeAt(table, rows, u, k, r, f) ==
  IF k = "wheel" THEN GoldFiled(table, u, r, f) ELSE AmountIn(rows, BetsOn(rows, r, f), u)

LEMMA GoldOfRows ==
  ASSUME Types, NEW u, NEW r, NEW f
  PROVE  GoldOf(RowsOf(u, r, f)) = GoldFiled(bets, u, r, f)
  <1> DEFINE S == RowsIn(bets, u, r, f)
             g == [b \in S |-> bets[b].gold]
             k == [b \in BetIds |-> bets[b].gold]
  <1>1. S = RowsOf(u, r, f) /\ S \subseteq BetIds
    BY DEF RowsIn, RowsOf, Rows
  <1>2. IsFiniteSet(S)
    BY <1>1, WheelConstants, FS_Subset
  <1>3. \A b \in S : g[b] = k[b]
    BY <1>1
  <1>4. GoldOf(S) = SumFunctionOnSet(g, S) /\ GoldFiled(bets, u, r, f) = SumFunctionOnSet(k, S)
    BY DEF GoldOf, SumFunction, GoldFiled
  <1> HIDE DEF S, g, k
  <1>5. SumFunctionOnSet(g, S) = SumFunctionOnSet(k, S)
    BY <1>2, <1>3, SumsAgree
  <1> QED
    BY <1>1, <1>4, <1>5

LEMMA AmountOfRows ==
  ASSUME Types, NEW S, S \subseteq DOMAIN jackpotBets, NEW u
  PROVE  AmountOf(S, u) = AmountIn(jackpotBets, S, u)
  <1> DEFINE T == {m \in S : jackpotBets[m].user = u}
             g == [n \in T |-> jackpotBets[n].amount]
             k == Amounts(jackpotBets)
  <1>1. IsFiniteSet(T)
    <2>1. IsFiniteSet(S)
      BY AmountTypes DEF Types, JackpotTypes
    <2> QED
      BY <2>1, FS_Subset
  <1>2. \A n \in T : g[n] = k[n]
    BY DEF Amounts
  <1>3. AmountOf(S, u) = SumFunctionOnSet(g, T) /\ AmountIn(jackpotBets, S, u) = SumFunctionOnSet(k, T)
    BY DEF AmountOf, AmountIn, SumFunction
  <1> HIDE DEF T, g, k
  <1> QED
    BY <1>1, <1>2, <1>3, SumsAgree

StakesAre ==
  Stakes = [p \in Users \X {"wheel", "jackpot"} \X AllRounds \X Fruits |->
              StakeAt(bets, jackpotBets, p[1], p[2], p[3], p[4])]

LEMMA StakesRead == Types => StakesAre
  <1> SUFFICES ASSUME Types, NEW p \in Users \X {"wheel", "jackpot"} \X AllRounds \X Fruits
               PROVE  (IF p[2] = "wheel" THEN GoldOf(RowsOf(p[1], p[3], p[4])) ELSE JackpotStake(p[1], p[3], p[4]))
                        = StakeAt(bets, jackpotBets, p[1], p[2], p[3], p[4])
    BY DEF StakesAre, Stakes
  <1>1. GoldOf(RowsOf(p[1], p[3], p[4])) = GoldFiled(bets, p[1], p[3], p[4])
    BY GoldOfRows
  <1>2. Winning(p[3], p[4]) = BetsOn(jackpotBets, p[3], p[4]) /\ Winning(p[3], p[4]) \subseteq DOMAIN jackpotBets
    BY DEF Winning, BetsOn
  <1>3. JackpotStake(p[1], p[3], p[4]) = AmountIn(jackpotBets, BetsOn(jackpotBets, p[3], p[4]), p[1])
    BY <1>2, AmountOfRows DEF JackpotStake
  <1> QED
    BY <1>1, <1>3 DEF StakeAt

\* With all other slots idle, a user's balance is its credit and what the one request holds.
BalanceIs ==
  \A h \in Slots, u \in Users :
    OnlyOne(h) => Balances[u] = credit[u] + Due(pc[h], bets, jackpotBets, u)

LEMMA OneHolds == Types /\ pc \in Jobs => BalanceIs
  <1> SUFFICES ASSUME Types, pc \in Jobs, NEW h \in Slots, NEW u \in Users, OnlyOne(h)
               PROVE  Balances[u] = credit[u] + Due(pc[h], bets, jackpotBets, u)
    BY DEF BalanceIs
  <1> DEFINE j == pc[h]
  <1>1. /\ bets \in Table /\ jackpotBets \in Seq(JackpotRow) /\ j \in Job
        /\ j.at \in {"jpay", "jmark"} => j.left \subseteq DOMAIN jackpotBets
    BY TypesOfJobs
  <1>2. /\ Debt(j, u) \in Nat /\ WOwed(j, bets, u) \in Nat
        /\ JDebt(j, u) \in Nat /\ JOwed(j, jackpotBets, u) \in Nat
    BY HeldAreAmounts DEF HoldsAmounts
  <1>3. \A k \in Slots : pc[k].at # "idle" => k = h
    BY DEF OnlyOne, Idle
  <1>4. WheelDebited(u) = Debt(j, u)
    <2> DEFINE S == {k \in Slots : pc[k].at \in {"find", "insert", "raise"} /\ pc[k].user = u}
               g == [k \in S |-> pc[k].gold]
    <2>1. S \subseteq {h}
      BY <1>3
    <2>2. Debt(j, u) = (IF h \in S THEN g[h] ELSE 0) /\ (h \in S => g[h] = Debt(j, u))
      BY DEF Debt
    <2>3. WheelDebited(u) = SumFunctionOnSet(g, S)
      BY DEF WheelDebited, SumFunction
    <2> HIDE DEF S, g
    <2> QED
      BY <1>2, <2>1, <2>2, <2>3, OneTerm
  <1>5. JackpotDebited(u) = JDebt(j, u)
    <2> DEFINE S == {k \in Slots : pc[k].at = "jfile" /\ pc[k].user = u}
               g == [k \in S |-> pc[k].gold]
    <2>1. S \subseteq {h}
      BY <1>3
    <2>2. JDebt(j, u) = (IF h \in S THEN g[h] ELSE 0) /\ (h \in S => g[h] = JDebt(j, u))
      BY DEF JDebt
    <2>3. JackpotDebited(u) = SumFunctionOnSet(g, S)
      BY DEF JackpotDebited, SumFunction
    <2> HIDE DEF S, g
    <2> QED
      BY <1>2, <2>1, <2>2, <2>3, OneTerm
  <1>6. WheelOwed(u) = WOwed(j, bets, u)
    <2> DEFINE Owed(k) == WheelMultiplier[pc[k].fruit] *
                 IF pc[k].at = "winners" THEN GoldOf(RowsOf(u, pc[k].round, pc[k].fruit)) ELSE WinningsLeft(pc[k], u)
               S == {k \in Slots : pc[k].at \in {"winners", "pay"}}
               g == [k \in S |-> Owed(k)]
    <2>1. S \subseteq {h}
      BY <1>3
    <2>2. h \in S => Owed(h) = WOwed(j, bets, u)
      BY GoldOfRows DEF WOwed
    <2>3. WOwed(j, bets, u) = (IF h \in S THEN g[h] ELSE 0) /\ (h \in S => g[h] = WOwed(j, bets, u))
      <3>1. h \notin S => WOwed(j, bets, u) = 0
        BY DEF WOwed
      <3> QED
        BY <2>2, <3>1
    <2>4. WheelOwed(u) = SumFunctionOnSet(g, S)
      BY DEF WheelOwed, SumFunction
    <2> HIDE DEF S, g
    <2> QED
      BY <1>2, <2>1, <2>3, <2>4, OneTerm
  <1>7. JackpotOwed(u) = JOwed(j, jackpotBets, u)
    <2> DEFINE Rest(p) == IF p.at = "jwinners" THEN Winning(p.round, p.fruit) ELSE p.left
               Owed(k) == JackpotMultiplier[pc[k].fruit] * AmountOf(Rest(pc[k]), u)
               S == {k \in Slots : pc[k].at \in {"jwinners", "jpay", "jmark"}}
               g == [k \in S |-> Owed(k)]
    <2>1. S \subseteq {h}
      BY <1>3
    <2>2. h \in S => Owed(h) = JOwed(j, jackpotBets, u)
      <3>1. CASE j.at = "jwinners"
        <4>1. Winning(j.round, j.fruit) = BetsOn(jackpotBets, j.round, j.fruit) /\ Winning(j.round, j.fruit) \subseteq DOMAIN jackpotBets
          BY DEF Winning, BetsOn
        <4>2. AmountOf(Winning(j.round, j.fruit), u) = AmountIn(jackpotBets, BetsOn(jackpotBets, j.round, j.fruit), u)
          BY <4>1, AmountOfRows
        <4> QED
          BY <3>1, <4>2 DEF JOwed
      <3>2. CASE j.at \in {"jpay", "jmark"}
        <4>1. AmountOf(j.left, u) = AmountIn(jackpotBets, j.left, u)
          BY <1>1, <3>2, AmountOfRows
        <4> QED
          BY <3>2, <4>1 DEF JOwed
      <3> QED
        BY <3>1, <3>2
    <2>3. JOwed(j, jackpotBets, u) = (IF h \in S THEN g[h] ELSE 0) /\ (h \in S => g[h] = JOwed(j, jackpotBets, u))
      <3>1. h \notin S => JOwed(j, jackpotBets, u) = 0
        BY DEF JOwed
      <3> QED
        BY <2>2, <3>1
    <2>4. JackpotOwed(u) = SumFunctionOnSet(g, S)
      BY DEF JackpotOwed, SumFunction
    <2> HIDE DEF S, g
    <2> QED
      BY <1>2, <2>1, <2>3, <2>4, OneTerm
  <1>8. Balances[u] = credit[u] + WheelDebited(u) + WheelOwed(u) + JackpotDebited(u) + JackpotOwed(u)
    BY DEF Balances
  <1>9. credit[u] \in Int
    BY DEF Types, StoreTypes
  <1> HIDE DEF j
  <1> QED
    BY <1>2, <1>4, <1>5, <1>6, <1>7, <1>8, <1>9 DEF Due, j

\* The same of the next state.
Typed == Types /\ pc \in Jobs
Read == StakesAre /\ HoldsAmounts /\ BalanceIs

LEMMA ReadNext == Typed' => Read'
  <1>1. Typed => Read
    BY StakesRead, HeldAreAmounts, OneHolds DEF Typed, Read
  <1> QED
    BY <1>1, PTL

-----------------------------------------------------------------------------
\* A step of the only request served, seen from the books.
Spots == Users \X {"wheel", "jackpot"} \X AllRounds \X Fruits
OnBooks(table, rows, p) == StakeAt(table, rows, p[1], p[2], p[3], p[4])
Holds(h, u) == credit[u] + Due(pc[h], bets, jackpotBets, u)
Alone(h) == Typed /\ Typed' /\ h \in Slots /\ OnlyOne(h) /\ OnlyOne(h)'

LEMMA SeenFromBooks ==
  ASSUME NEW h \in Slots, Alone(h)
  PROVE  /\ \A u \in Users : Balances[u] = Holds(h, u) /\ Holds(h, u) \in Int
         /\ \A u \in Users : Balances'[u] = Holds(h, u)' /\ Holds(h, u)' \in Int
         /\ Balances' = [u \in Users |-> Balances'[u]]
         /\ Stakes = [p \in Spots |-> OnBooks(bets, jackpotBets, p)]
         /\ Stakes' = [p \in Spots |-> OnBooks(bets', jackpotBets', p)]
  <1>1. Read
    BY StakesRead, HeldAreAmounts, OneHolds DEF Alone, Typed, Read
  <1>2. Read'
    BY ReadNext DEF Alone
  <1>3. \A u \in Users : credit[u] \in Int /\ credit'[u] \in Int
    BY DEF Alone, Typed, Types, StoreTypes
  <1>4. \A u \in Users : Balances[u] = Holds(h, u) /\ Holds(h, u) \in Int
    BY <1>1, <1>3 DEF Read, BalanceIs, HoldsAmounts, Holds, Alone
  <1>5. \A u \in Users : Balances'[u] = Holds(h, u)' /\ Holds(h, u)' \in Int
    BY <1>2, <1>3 DEF Read, BalanceIs, HoldsAmounts, Holds, Alone
  <1>6. Balances' = [u \in Users |-> Balances'[u]]
    BY DEF Balances
  <1>7. Stakes = [p \in Spots |-> OnBooks(bets, jackpotBets, p)]
    BY <1>1 DEF Read, StakesAre, Spots, OnBooks
  <1>8. Stakes' = [p \in Spots |-> OnBooks(bets', jackpotBets', p)]
    BY <1>2 DEF Read, StakesAre, Spots, OnBooks
  <1> QED
    BY <1>4, <1>5, <1>6, <1>7, <1>8

\* What the books keep through a step.
SameHoldings(h) == \A u \in Users : Holds(h, u)' = Holds(h, u)
SameStakes == \A p \in Spots : OnBooks(bets', jackpotBets', p) = OnBooks(bets, jackpotBets, p)
SameOutcomes == UNCHANGED <<results, jackpotResults>>
SameGrants == granted' = granted

LEMMA OutcomesStay == SameOutcomes => Outcomes' = Outcomes
  BY DEF SameOutcomes, Outcomes

LEMMA NothingHappens ==
  ASSUME NEW h \in Slots, Alone(h), SameHoldings(h), SameStakes, SameOutcomes, SameGrants
  PROVE  UNCHANGED Promise!lvars
  <1>1. Balances' = Balances
    <2>1. Balances = [u \in Users |-> Balances[u]]
      BY DEF Balances
    <2>2. \A u \in Users : Balances'[u] = Balances[u]
      BY SeenFromBooks DEF SameHoldings
    <2> QED
      BY <2>1, <2>2, SeenFromBooks
  <1>2. Stakes' = Stakes
    BY SeenFromBooks DEF SameStakes
  <1>3. Bought' = Bought
    BY DEF SameGrants, Bought
  <1> QED
    BY <1>1, <1>2, <1>3, OutcomesStay DEF Promise!lvars

\* A bet is filed.
LEMMA BetHappens ==
  ASSUME NEW h \in Slots, Alone(h), SameOutcomes, SameGrants,
         NEW u \in Users, NEW k \in {"wheel", "jackpot"}, NEW r \in AllRounds, NEW f \in Fruits, NEW g \in Gold,
         Outcomes[<<k, r>>] = None, Holds(h, u) >= g,
         \A v \in Users : Holds(h, v)' = Holds(h, v) - (IF v = u THEN g ELSE 0),
         \A p \in Spots : OnBooks(bets', jackpotBets', p) =
           OnBooks(bets, jackpotBets, p) + (IF p = <<u, k, r, f>> THEN g ELSE 0),
         \A p \in Spots : OnBooks(bets, jackpotBets, p) \in Int
  PROVE  Promise!Next
  <1>1. Balances' = [Balances EXCEPT ![u] = @ - g]
    <2>1. Balances = [v \in Users |-> Balances[v]]
      BY DEF Balances
    <2>2. g \in Int
      BY StoreConstants
    <2>3. \A v \in Users : Balances'[v] = Balances[v] - (IF v = u THEN g ELSE 0) /\ Balances[v] \in Int
      BY SeenFromBooks
    <2>4. \A v \in Users : v # u => Balances'[v] = Balances[v]
      BY <2>3
    <2>5. Balances'[u] = Balances[u] - g
      BY <2>3
    <2> QED
      BY <2>1, <2>4, <2>5, SeenFromBooks
  <1>2. Balances[u] >= g
    BY SeenFromBooks
  <1>3. Stakes' = [Stakes EXCEPT ![<<u, k, r, f>>] = @ + g]
    <2>1. <<u, k, r, f>> \in Spots
      BY DEF Spots
    <2>2. \A p \in Spots : p # <<u, k, r, f>> => Stakes'[p] = Stakes[p]
      BY SeenFromBooks
    <2>3. Stakes'[<<u, k, r, f>>] = Stakes[<<u, k, r, f>>] + g
      BY <2>1, SeenFromBooks
    <2> QED
      BY <2>1, <2>2, <2>3, SeenFromBooks
  <1>4. Outcomes' = Outcomes /\ Bought' = Bought
    BY OutcomesStay DEF SameGrants, Bought
  <1>5. Promise!Bet(u, k, r, f, g)
    BY <1>1, <1>2, <1>3, <1>4 DEF Promise!Bet
  <1> QED
    BY <1>5 DEF Promise!Next

\* A round is settled.
LEMMA SettlementHappens ==
  ASSUME NEW h \in Slots, Alone(h), SameStakes, SameGrants,
         NEW k \in {"wheel", "jackpot"}, NEW r \in AllRounds, NEW f \in Fruits,
         Outcomes[<<k, r>>] = None, Outcomes' = [Outcomes EXCEPT ![<<k, r>>] = f],
         \A u \in Users : Holds(h, u)' =
           Holds(h, u)
             + (IF k = "wheel" THEN WheelMultiplier[f] ELSE JackpotMultiplier[f]) * OnBooks(bets, jackpotBets, <<u, k, r, f>>)
  PROVE  Promise!Next
  <1>1. Stakes' = Stakes
    BY SeenFromBooks DEF SameStakes
  <1>2. \A u \in Users : <<u, k, r, f>> \in Spots /\ Stakes[<<u, k, r, f>>] = OnBooks(bets, jackpotBets, <<u, k, r, f>>)
    BY SeenFromBooks DEF Spots
  <1> DEFINE M == [p \in {"wheel", "jackpot"} \X Fruits |->
                     IF p[1] = "wheel" THEN WheelMultiplier[p[2]] ELSE JackpotMultiplier[p[2]]]
  <1>3. M[<<k, f>>] = (IF k = "wheel" THEN WheelMultiplier[f] ELSE JackpotMultiplier[f])
    OBVIOUS
  <1>4. Balances' = [u \in Users |-> Balances[u] + M[<<k, f>>] * Stakes[<<u, k, r, f>>]]
    <2> HIDE DEF M
    <2>1. \A u \in Users : Balances'[u] = Balances[u] + M[<<k, f>>] * Stakes[<<u, k, r, f>>]
      BY <1>2, <1>3, SeenFromBooks
    <2> QED
      BY <2>1, SeenFromBooks
  <1>5. Bought' = Bought
    BY DEF SameGrants, Bought
  <1>6. Promise!Settle(k, r, f)
    BY <1>1, <1>4, <1>5 DEF Promise!Settle
  <1> QED
    BY <1>6 DEF Promise!Next

\* A stake is taken off the books.
LEMMA WithdrawalHappens ==
  ASSUME NEW h \in Slots, Alone(h), SameOutcomes, SameGrants, SameHoldings(h),
         NEW u \in Users, NEW k \in {"wheel", "jackpot"}, NEW r \in AllRounds, NEW f \in Fruits,
         \A p \in Spots : OnBooks(bets', jackpotBets', p) = IF p = <<u, k, r, f>> THEN 0 ELSE OnBooks(bets, jackpotBets, p)
  PROVE  Promise!Next
  <1>1. Balances' = Balances
    <2>1. Balances = [v \in Users |-> Balances[v]]
      BY DEF Balances
    <2>2. \A v \in Users : Balances'[v] = Balances[v]
      BY SeenFromBooks DEF SameHoldings
    <2> QED
      BY <2>1, <2>2, SeenFromBooks
  <1>2. Stakes' = [Stakes EXCEPT ![<<u, k, r, f>>] = 0]
    <2>1. <<u, k, r, f>> \in Spots
      BY DEF Spots
    <2> QED
      BY <2>1, SeenFromBooks
  <1>3. Outcomes' = Outcomes /\ Bought' = Bought
    BY OutcomesStay DEF SameGrants, Bought
  <1>4. Promise!Withdraw(u, k, r, f)
    BY <1>1, <1>2, <1>3 DEF Promise!Withdraw
  <1> QED
    BY <1>4 DEF Promise!Next

\* The coins of a purchase are added.
LEMMA PurchaseHappens ==
  ASSUME NEW h \in Slots, Alone(h), SameOutcomes, SameStakes, NEW t \in Transactions,
         granted[t] = 0, granted' = [granted EXCEPT ![t] = 1],
         \A u \in Users : Holds(h, u)' = Holds(h, u) + (IF u = Buyer[t] THEN Coins[t] ELSE 0)
  PROVE  Promise!Next
  <1>1. Balances' = [Balances EXCEPT ![Buyer[t]] = @ + Coins[t]]
    <2>1. Balances = [v \in Users |-> Balances[v]]
      BY DEF Balances
    <2>2. Buyer[t] \in Users /\ Coins[t] \in Int
      BY CoinConstants
    <2>3. \A v \in Users : Balances'[v] = Balances[v] + (IF v = Buyer[t] THEN Coins[t] ELSE 0) /\ Balances[v] \in Int
      BY SeenFromBooks
    <2>4. \A v \in Users : v # Buyer[t] => Balances'[v] = Balances[v]
      BY <2>3
    <2>5. Balances'[Buyer[t]] = Balances[Buyer[t]] + Coins[t]
      BY <2>2, <2>3
    <2> QED
      BY <2>1, <2>2, <2>4, <2>5, SeenFromBooks
  <1>2. Stakes' = Stakes
    BY SeenFromBooks DEF SameStakes
  <1>3. \A s \in Transactions : granted[s] \in Nat
    BY DEF Alone, Typed, Types, CoinTypes
  <1>4. t \notin Bought /\ Bought' = Bought \cup {t}
    <2>1. granted'[t] = 1 /\ \A s \in Transactions : s # t => granted'[s] = granted[s]
      BY DEF Alone, Typed, Types, CoinTypes
    <2> QED
      BY <1>3, <2>1 DEF Bought
  <1>5. Promise!Buy(t)
    BY <1>1, <1>2, <1>4, OutcomesStay DEF Promise!Buy
  <1> QED
    BY <1>5 DEF Promise!Next

-----------------------------------------------------------------------------
\* What a request relies on when no other is served beside it: what it read is still so.
Place(j) == RowsOf(j.user, j.round, j.choice)
Ready(j) ==
  /\ j.at \in {"fetch", "debit", "find", "insert", "raise", "draw"} => results[j.round] = <<>>
  /\ j.at \in {"debit", "jdebit"} => credit[j.user] >= j.gold
  /\ j.at = "insert" => Place(j) = {}
  /\ j.at = "raise" => j.row \in Place(j)
  /\ j.at = "reset" => j.left \subseteq RowsOfUser(j.user)
  /\ j.at \in {"jfetch", "jdebit", "jfile"} => jackpotResults[JackpotRound(j.since)] = <<>>
  /\ j.at = "jdraw" => jackpotResults[j.round] = <<>>
  /\ j.at # "keep"
  /\ j.at \in {"check", "verify", "grant"} => j.seen = credit[Buyer[j.tx]]
  /\ j.at \in {"verify", "grant"} => payments[j.tx] = 0
  /\ j.at = "record" => granted[j.tx] = payments[j.tx] + 1

\* Nobody is in debt, a player has one row for a fruit and round, and a purchase is
\* recorded once it was added, or about to be.
Solvent == \A u \in Users : credit[u] >= 0 /\ cached[u] = None
OneRowEach ==
  \A b, c \in Rows :
    bets[b].user = bets[c].user /\ bets[b].round = bets[c].round /\ bets[b].choice = bets[c].choice => b = c
Claims ==
  \A t \in Transactions :
    granted[t] = payments[t] \/ \E h \in Slots : pc[h].at = "record" /\ pc[h].tx = t
Orderly == Solvent /\ OneRowEach /\ Claims
Serial ==
  /\ Typed /\ RaisesMatch /\ SettledAfterClose /\ DrawsAreLate /\ RoundsAreOver
  /\ Orderly /\ \A h \in Slots : Ready(pc[h])

\* A step of slot h, on its own, keeps the order and the promise.
Keeps(h) == Orderly' /\ Ready(pc[h])' /\ [Promise!Next]_(Promise!lvars)

FreeTags == {"idle", "fetch", "debit", "draw", "reset", "jfetch", "jdebit", "jdraw"} \cup CoinTags \cup FollowTags

LEMMA DueByTag ==
  ASSUME NEW h \in Slots, Alone(h), NEW u \in Users
  PROVE  /\ LET j == pc[h] IN
              /\ j.at \in FreeTags => Due(j, bets, jackpotBets, u) = 0
              /\ j.at \in {"find", "insert", "raise", "jfile"} => Due(j, bets, jackpotBets, u) = IF j.user = u THEN j.gold ELSE 0
              /\ j.at \in {"winners", "pay"} => Due(j, bets, jackpotBets, u) = WOwed(j, bets, u)
              /\ j.at \in {"jwinners", "jpay", "jmark"} => Due(j, bets, jackpotBets, u) = JOwed(j, jackpotBets, u)
              /\ Due(j, bets, jackpotBets, u) \in Nat
         /\ LET j == pc'[h] IN
              /\ j.at \in FreeTags => Due(j, bets', jackpotBets', u) = 0
              /\ j.at \in {"find", "insert", "raise", "jfile"} => Due(j, bets', jackpotBets', u) = IF j.user = u THEN j.gold ELSE 0
              /\ j.at \in {"winners", "pay"} => Due(j, bets', jackpotBets', u) = WOwed(j, bets', u)
              /\ j.at \in {"jwinners", "jpay", "jmark"} => Due(j, bets', jackpotBets', u) = JOwed(j, jackpotBets', u)
              /\ Due(j, bets', jackpotBets', u) \in Nat
  <1>1. ASSUME NEW j, NEW table, NEW rows,
               Debt(j, u) \in Nat, WOwed(j, table, u) \in Nat, JDebt(j, u) \in Nat, JOwed(j, rows, u) \in Nat
        PROVE  /\ j.at \in FreeTags => Due(j, table, rows, u) = 0
               /\ j.at \in {"find", "insert", "raise", "jfile"} => Due(j, table, rows, u) = IF j.user = u THEN j.gold ELSE 0
               /\ j.at \in {"winners", "pay"} => Due(j, table, rows, u) = WOwed(j, table, u)
               /\ j.at \in {"jwinners", "jpay", "jmark"} => Due(j, table, rows, u) = JOwed(j, rows, u)
               /\ Due(j, table, rows, u) \in Nat
    <2>1. /\ j.at \notin {"find", "insert", "raise"} => Debt(j, u) = 0
          /\ j.at # "jfile" => JDebt(j, u) = 0
          /\ j.at \notin {"winners", "pay"} => WOwed(j, table, u) = 0
          /\ j.at \notin {"jwinners", "jpay", "jmark"} => JOwed(j, rows, u) = 0
      BY DEF Debt, JDebt, WOwed, JOwed
    <2>2. j.at \in FreeTags => j.at \notin {"find", "insert", "raise", "jfile", "winners", "pay", "jwinners", "jpay", "jmark"}
      BY DEF FreeTags, CoinTags, FollowTags
    <2>3. /\ j.at \in {"find", "insert", "raise"} => Debt(j, u) = IF j.user = u THEN j.gold ELSE 0
          /\ j.at = "jfile" => JDebt(j, u) = IF j.user = u THEN j.gold ELSE 0
      BY DEF Debt, JDebt
    <2>4. Due(j, table, rows, u) = Debt(j, u) + WOwed(j, table, u) + JDebt(j, u) + JOwed(j, rows, u)
      BY DEF Due
    <2>5. \A a, b, c, d \in Nat :
            /\ a + b + c + d \in Nat
            /\ b = 0 /\ c = 0 /\ d = 0 => a + b + c + d = a
            /\ a = 0 /\ c = 0 /\ d = 0 => a + b + c + d = b
            /\ a = 0 /\ b = 0 /\ d = 0 => a + b + c + d = c
            /\ a = 0 /\ b = 0 /\ c = 0 => a + b + c + d = d
      OBVIOUS
    <2>6. /\ Due(j, table, rows, u) \in Nat
          /\ j.at \in {"find", "insert", "raise"} => Due(j, table, rows, u) = Debt(j, u)
          /\ j.at = "jfile" => Due(j, table, rows, u) = JDebt(j, u)
          /\ j.at \in {"winners", "pay"} => Due(j, table, rows, u) = WOwed(j, table, u)
          /\ j.at \in {"jwinners", "jpay", "jmark"} => Due(j, table, rows, u) = JOwed(j, rows, u)
      BY <1>1, <2>1, <2>4, <2>5
    <2>7. j.at \in FreeTags => Due(j, table, rows, u) = 0
      BY <2>1, <2>2, <2>4
    <2> QED
      BY <2>3, <2>6, <2>7
  <1>2. HoldsAmounts /\ HoldsAmounts'
    BY HeldAreAmounts, ReadNext DEF Alone, Typed, Read
  <1> QED
    BY <1>1, <1>2 DEF HoldsAmounts

\* A step that writes nothing but a request's own state.
BooksStay == UNCHANGED <<bets, results, jackpotBets, jackpotResults, granted>>

LEMMA QuietStep ==
  ASSUME NEW h \in Slots, Alone(h), BooksStay, SameHoldings(h)
  PROVE  [Promise!Next]_(Promise!lvars)
  <1>1. SameStakes /\ SameOutcomes /\ SameGrants
    BY DEF BooksStay, SameStakes, SameOutcomes, SameGrants
  <1> QED
    BY <1>1, NothingHappens

\* The order that a step of a game keeps by leaving it alone.
LEMMA OrderStays ==
  ASSUME Serial, NEW h \in Slots, Alone(h), pc[h].at \notin CoinTags
  PROVE  /\ UNCHANGED <<credit, cached>> => Solvent'
         /\ bets' = bets => OneRowEach'
         /\ UNCHANGED <<payments, granted>> => Claims'
  <1>1. UNCHANGED <<credit, cached>> => Solvent'
    BY DEF Serial, Orderly, Solvent
  <1>2. bets' = bets => OneRowEach'
    BY DEF Serial, Orderly, OneRowEach, Rows
  <1>3. \A k \in Slots : pc[k].at # "record"
    BY DEF Alone, OnlyOne, Idle, CoinTags
  <1> QED
    BY <1>1, <1>2, <1>3 DEF Serial, Orderly, Claims

\* Without a user cache there is nothing for a save to take out of it.
Forgets == \E saved : Forget(saved)

LEMMA ForgetsNobody ==
  ASSUME Serial, Forgets
  PROVE  cached' = cached
  <1>1. cached \in [Users -> Int \cup {None}] /\ \A u \in Users : cached[u] = None
    BY DEF Serial, Typed, Types, CoinTypes, Orderly, Solvent
  <1>2. cached' = [u \in Users |-> None] /\ cached = [u \in Users |-> None]
    BY <1>1 DEF Forgets, Forget
  <1> QED
    BY <1>2

\* A request that holds nobody's gold goes on, and changes no credit.
LEMMA FreeStep ==
  ASSUME NEW h \in Slots, Alone(h), pc[h].at \in FreeTags, pc'[h].at \in FreeTags, credit' = credit
  PROVE  SameHoldings(h)
  <1>1. \A u \in Users : credit[u] \in Int
    BY DEF Alone, Typed, Types, StoreTypes
  <1> QED
    BY <1>1, DueByTag DEF SameHoldings, Holds

LEMMA FreeKeeps ==
  ASSUME Serial, NEW h \in Slots, Alone(h), pc[h].at \in FreeTags \ CoinTags, pc'[h].at \in FreeTags,
         UNCHANGED <<credit, cached, payments>>, BooksStay, Ready(pc[h])'
  PROVE  Keeps(h)
  <1>1. Orderly'
    BY OrderStays DEF BooksStay, Orderly
  <1>2. [Promise!Next]_(Promise!lvars)
    BY FreeStep, QuietStep
  <1> QED
    BY <1>1, <1>2 DEF Keeps

LEMMA IdleIsReady ==
  ASSUME NEW h \in Slots, pc'[h].at = "idle"
  PROVE  Ready(pc[h])'
  BY DEF Ready

\* Wheel requests that begin, end or read.
LEMMA WheelReads ==
  ASSUME Serial, NEW h \in Slots, Alone(h), UNCHANGED <<jackpotVars, cached, coinVars>>,
         \/ \E u \in Users : GameReset(h, u) \/ \E f \in Fruits, g \in Gold : GameChoice(h, u, f, g)
         \/ FetchBalance(h) \/ GameInfo(h) \/ DestroyFails(h) \/ ZeroProfit(h)
  PROVE  Keeps(h)
  <1> USE DEF Typed
  <1>1. Types /\ pc[h] \in Job /\ Ready(pc[h]) /\ WheelRound \in WheelRounds
    BY RoundTypes DEF Serial, Types, PcTypes, StoreTypes, WheelRound
  <1>2. UNCHANGED <<cached, payments>> /\ BooksStay
    BY DEF GameReset, GameChoice, FetchBalance, GameInfo, DestroyFails, ZeroProfit, wheelVars,
           jackpotVars, coinVars, BooksStay
  <1>3. ASSUME NEW u \in Users, GameReset(h, u)
        PROVE  /\ pc[h].at = "idle" /\ pc'[h].at \in {"idle", "reset"} /\ credit' = credit /\ Ready(pc[h])'
    <2>1. pc[h] = Idle /\ pc'[h] = [at |-> "reset", user |-> u, left |-> RowsOfUser(u)] /\ credit' = credit
      BY <1>1, <1>3, StepsMove DEF GameReset
    <2>2. RowsOfUser(u)' = RowsOfUser(u)
      BY <1>2 DEF BooksStay, RowsOfUser, Rows
    <2>3. Ready(pc[h])'
      BY <2>1, <2>2 DEF Ready
    <2> QED
      BY <2>1, <2>3 DEF Idle
  <1>4. ASSUME NEW u \in Users, NEW f \in Fruits, NEW g \in Gold, GameChoice(h, u, f, g)
        PROVE  /\ pc[h].at = "idle" /\ pc'[h].at \in {"idle", "fetch"} /\ credit' = credit /\ Ready(pc[h])'
    <2>1. /\ pc[h] = Idle /\ credit' = credit
          /\ pc'[h] = [at |-> "fetch", user |-> u, choice |-> f, gold |-> g, round |-> WheelRound]
      BY <1>1, <1>4, StepsMove DEF GameChoice
    <2>2. results'[WheelRound] = <<>>
      BY <1>1, <1>2 DEF BooksStay, Serial, SettledAfterClose, WheelRounds
    <2>3. Ready(pc[h])'
      BY <2>1, <2>2 DEF Ready
    <2> QED
      BY <2>1, <2>3 DEF Idle
  <1>5. ASSUME FetchBalance(h)
        PROVE  /\ pc[h].at = "fetch" /\ pc'[h].at \in {"idle", "debit"} /\ credit' = credit /\ Ready(pc[h])'
    <2>1. pc[h] \in Bet /\ pc[h].at = "fetch"
      BY <1>1, <1>5, JobsByTag DEF FetchBalance
    <2>2. CASE credit[pc[h].user] < pc[h].gold
      BY <1>1, <1>5, <2>1, <2>2, StepsMove, IdleIsReady DEF FetchBalance, Idle
    <2>3. CASE ~(credit[pc[h].user] < pc[h].gold)
      <3>1. pc'[h] = [pc[h] EXCEPT !.at = "debit"] /\ credit' = credit
        BY <1>1, <1>5, <2>3, StepsMove DEF FetchBalance
      <3>2. pc'[h].at = "debit" /\ pc'[h].round = pc[h].round /\ pc'[h].user = pc[h].user /\ pc'[h].gold = pc[h].gold
        BY <2>1, <3>1 DEF Bet
      <3>3. credit[pc[h].user] >= pc[h].gold
        <4>1. pc[h].gold \in Gold /\ pc[h].user \in Users
          BY <2>1 DEF Bet
        <4>2. credit[pc[h].user] \in Int
          BY <1>1, <4>1 DEF Types, StoreTypes
        <4>3. pc[h].gold \in Nat
          BY <4>1, StoreConstants
        <4> QED
          BY <2>3, <4>2, <4>3
      <3>4. results'[pc[h].round] = <<>>
        BY <1>1, <1>2, <2>1 DEF Ready, BooksStay
      <3>5. Ready(pc[h])'
        BY <3>1, <3>2, <3>3, <3>4 DEF Ready
      <3> QED
        BY <2>1, <3>1, <3>2, <3>5
    <2> QED
      BY <2>2, <2>3
  <1>6. ASSUME GameInfo(h)
        PROVE  /\ pc[h].at = "idle" /\ pc'[h].at \in {"idle", "draw"} /\ credit' = credit /\ Ready(pc[h])'
    <2>1. /\ pc[h] = Idle /\ pc'[h] = [at |-> "draw", round |-> WheelRound - 1] /\ credit' = credit
          /\ results[WheelRound - 1] = <<>>
      BY <1>1, <1>6, StepsMove DEF GameInfo
    <2>2. results'[WheelRound - 1] = <<>>
      BY <1>2, <2>1 DEF BooksStay
    <2>3. Ready(pc[h])'
      BY <2>1, <2>2 DEF Ready
    <2> QED
      BY <2>1, <2>3 DEF Idle
  <1>7. ASSUME DestroyFails(h) \/ ZeroProfit(h)
        PROVE  /\ pc[h].at = "reset" /\ pc'[h].at = "idle" /\ credit' = credit /\ Ready(pc[h])'
    <2>1. pc[h].at = "reset" /\ pc'[h] = Idle /\ credit' = credit
      BY <1>1, <1>7, StepsMove DEF DestroyFails, ZeroProfit
    <2> QED
      BY <2>1, IdleIsReady DEF Idle
  <1>8. /\ pc[h].at \in {"idle", "fetch", "reset"} /\ pc'[h].at \in {"idle", "fetch", "debit", "draw", "reset"}
        /\ credit' = credit /\ Ready(pc[h])'
    BY <1>3, <1>4, <1>5, <1>6, <1>7
  <1>9. pc[h].at \in FreeTags \ CoinTags /\ pc'[h].at \in FreeTags
    BY <1>8 DEF FreeTags, CoinTags
  <1> QED
    BY <1>2, <1>8, <1>9, FreeKeeps

\* The gold is taken, and the row found, or found missing.
LEMMA WheelDebits ==
  ASSUME Serial, NEW h \in Slots, Alone(h), UNCHANGED <<jackpotVars, cached, coinVars>>, Debit(h) \/ FindBet(h)
  PROVE  Keeps(h)
  <1> USE DEF Typed
  <1> DEFINE j == pc[h]
  <1>1. Types /\ j \in Job /\ Ready(j) /\ j.at \in {"debit", "find"} /\ j \in Bet
    BY JobsByTag DEF Serial, Types, PcTypes, Debit, FindBet
  <1>2. UNCHANGED <<cached, payments>> /\ BooksStay
    BY DEF Debit, FindBet, wheelVars, jackpotVars, coinVars, BooksStay
  <1>3. j.user \in Users /\ j.gold \in Nat /\ \A u \in Users : credit[u] \in Int
    BY <1>1, StoreConstants DEF Bet, Types, StoreTypes
  <1>4. j.at \notin CoinTags /\ results'[j.round] = <<>>
    BY <1>1, <1>2 DEF CoinTags, Ready, BooksStay
  <1>5. OneRowEach' /\ Claims'
    BY <1>2, <1>4, OrderStays DEF BooksStay
  <1>6. CASE Debit(h)
    <2>1. j.at = "debit" /\ pc'[h] = [j EXCEPT !.at = "find"] /\ credit' = [credit EXCEPT ![j.user] = @ - j.gold]
      <3>1. j.at = "debit" /\ pc'[h] = [j EXCEPT !.at = "find"]
        BY <1>1, <1>6, StepsMove DEF Debit
      <3>2. credit' = [credit EXCEPT ![j.user] = @ + (-j.gold)]
        BY <1>6 DEF Debit, AddCredit
      <3>3. credit[j.user] + (-j.gold) = credit[j.user] - j.gold
        BY <1>3
      <3> QED
        BY <3>1, <3>2, <3>3
    <2>2. /\ pc'[h].at = "find" /\ pc'[h].round = j.round /\ pc'[h].user = j.user /\ pc'[h].gold = j.gold
      BY <1>1, <2>1 DEF Bet
    <2>3. \A u \in Users : credit'[u] = credit[u] - (IF j.user = u THEN j.gold ELSE 0)
      BY <1>1, <1>3, <2>1 DEF Types, StoreTypes
    <2>4. Solvent'
      <3>1. credit[j.user] >= j.gold
        BY <1>1, <2>1 DEF Ready
      <3> QED
        BY <1>2, <1>3, <2>3, <3>1 DEF Solvent, Serial, Orderly
    <2>5. SameHoldings(h)
      <3>1. ASSUME NEW u \in Users
            PROVE  /\ Due(j, bets, jackpotBets, u) = 0
                   /\ Due(pc'[h], bets', jackpotBets', u) = IF j.user = u THEN j.gold ELSE 0
        BY <2>1, <2>2, DueByTag DEF FreeTags
      <3> QED
        BY <1>3, <2>3, <3>1 DEF SameHoldings, Holds
    <2>6. Ready(pc[h])'
      BY <1>4, <2>2 DEF Ready
    <2> QED
      BY <1>2, <1>5, <2>4, <2>5, <2>6, QuietStep DEF Keeps, Orderly
  <1>7. CASE FindBet(h)
    <2> DEFINE rows == RowsOf(j.user, j.round, j.choice)
    <2>1. credit' = credit
      BY <1>7 DEF FindBet, Continue
    <2>2. Solvent'
      BY <1>2, <1>4, <2>1, OrderStays
    <2>3. PICK b : \/ rows = {} /\ Continue(h, AtRow(j, "insert", None))
                   \/ b \in rows /\ Continue(h, AtRow(j, "raise", b))
      BY <1>7 DEF FindBet
    <2>4. \/ rows = {} /\ pc'[h] = AtRow(j, "insert", None)
          \/ b \in rows /\ pc'[h] = AtRow(j, "raise", b)
      BY <1>1, <2>3, StepsMove
    <2>5. /\ pc'[h].round = j.round /\ pc'[h].user = j.user /\ pc'[h].gold = j.gold /\ pc'[h].choice = j.choice
          /\ \/ rows = {} /\ pc'[h].at = "insert"
             \/ pc'[h].row \in rows /\ pc'[h].at = "raise"
      BY <2>4 DEF AtRow
    <2>6. Ready(pc[h])'
      <3>1. Place(pc[h])' = rows
        BY <1>2, <2>5 DEF Place, RowsOf, Rows, BooksStay
      <3> HIDE DEF rows
      <3> QED
        BY <1>4, <2>5, <3>1 DEF Ready
    <2>7. SameHoldings(h)
      <3>1. j.at = "find"
        BY <1>7 DEF FindBet
      <3>2. pc'[h].at \in {"insert", "raise"}
        BY <2>5
      <3>3. ASSUME NEW u \in Users
            PROVE  Due(pc'[h], bets', jackpotBets', u) = Due(j, bets, jackpotBets, u)
        BY <2>5, <3>1, <3>2, DueByTag
      <3> QED
        BY <2>1, <3>3 DEF SameHoldings, Holds
    <2> QED
      BY <1>2, <1>5, <2>2, <2>6, <2>7, QuietStep DEF Keeps, Orderly
  <1> QED
    BY <1>6, <1>7

LEMMA WheelOutcome ==
  ASSUME NEW r \in WheelRounds
  PROVE  /\ <<"wheel", r>> \in {"wheel", "jackpot"} \X AllRounds /\ r \in AllRounds
         /\ Outcomes[<<"wheel", r>>] = ResultOf(results[r])
  BY DEF Outcomes, AllRounds

\* The bet is filed: it raises the player's row, or is its first.
LEMMA WheelFiles ==
  ASSUME Serial, NEW h \in Slots, Alone(h), UNCHANGED <<jackpotVars, cached, coinVars>>, InsertBet(h) \/ RaiseBet(h)
  PROVE  Keeps(h)
  <1> USE DEF Typed
  <1> DEFINE j == pc[h]
             spot == <<j.user, "wheel", j.round, j.choice>>
  <1>1. /\ Types /\ Types' /\ j \in Job /\ Ready(j) /\ j.at \in {"insert", "raise"}
        /\ j.user \in Users /\ j.round \in WheelRounds /\ j.choice \in Fruits /\ j.gold \in Gold /\ j.gold \in Nat
    BY JobsByTag, StoreConstants DEF Serial, Alone, Types, PcTypes, InsertBet, RaiseBet, FiledBet
  <1>2. UNCHANGED <<credit, cached, payments, granted, results, jackpotBets, jackpotResults>> /\ pc'[h] = Idle
    <2>1. UNCHANGED <<cached, payments, granted, results, jackpotBets, jackpotResults>>
      BY DEF InsertBet, RaiseBet, jackpotVars, coinVars
    <2>2. credit' = credit /\ pc'[h] = Idle
      BY <1>1, StepsMove DEF InsertBet, RaiseBet
    <2> QED
      BY <2>1, <2>2
  <1>3. Solvent' /\ Claims'
    BY <1>1, <1>2, OrderStays DEF CoinTags
  <1>4. Filed(j)
    <2>1. CASE InsertBet(h)
      BY <2>1 DEF InsertBet
    <2>2. CASE RaiseBet(h)
      <3>1. j.row \in Rows
        BY <1>1, <2>2 DEF RaiseBet, Ready, Place, RowsOf
      <3> QED
        BY <2>2, <3>1 DEF RaiseBet
    <2> QED
      BY <2>1, <2>2
  <1>5. ASSUME NEW u \in Users, NEW r \in WheelRounds, NEW f \in Fruits
        PROVE  GoldFiled(bets', u, r, f) =
                 GoldFiled(bets, u, r, f) + (IF u = j.user /\ r = j.round /\ f = j.choice THEN j.gold ELSE 0)
    <2>1. PICK n \in Nat :
            /\ GoldFiled(bets', u, r, f) = GoldFiled(bets, u, r, f) + n
            /\ staked'[<<u, r, f>>] = staked[<<u, r, f>>] + n
      BY <1>1, FilingBalances DEF Serial
    <2>2. <<u, r, f>> \in Places /\ staked \in [Places -> Nat]
      BY <1>1 DEF Places, Types, WheelTypes
    <2>3. staked'[<<u, r, f>>] = IF u = j.user /\ r = j.round /\ f = j.choice THEN staked[<<u, r, f>>] + j.gold ELSE staked[<<u, r, f>>]
      BY <1>4, <2>2 DEF Filed
    <2>4. staked[<<u, r, f>>] \in Nat
      BY <2>2
    <2>5. n = IF u = j.user /\ r = j.round /\ f = j.choice THEN j.gold ELSE 0
      BY <1>1, <2>1, <2>3, <2>4
    <2> QED
      BY <2>1, <2>5
  <1>6. OneRowEach'
    <2>1. CASE InsertBet(h)
      <3>1. PICK b \in BetIds : bets[b] = None /\
              bets' = [bets EXCEPT ![b] = [user |-> j.user, round |-> j.round, choice |-> j.choice, gold |-> j.gold]]
        BY <2>1 DEF InsertBet
      <3>2. /\ bets'[b] = [user |-> j.user, round |-> j.round, choice |-> j.choice, gold |-> j.gold]
            /\ \A c \in BetIds \ {b} : bets'[c] = bets[c]
        BY <1>1, <3>1 DEF Types, WheelTypes
      <3>3. \A c \in Rows : ~(bets[c].user = j.user /\ bets[c].round = j.round /\ bets[c].choice = j.choice)
        BY <1>1, <2>1 DEF InsertBet, Ready, Place, RowsOf
      <3>4. Rows' \subseteq Rows \cup {b}
        BY <3>2 DEF Rows
      <3>5. \A c \in Rows' : c # b => c \in Rows /\ bets'[c] = bets[c]
        BY <3>2, <3>4 DEF Rows
      <3> QED
        BY <3>2, <3>3, <3>5 DEF OneRowEach, Serial, Orderly
    <2>2. CASE RaiseBet(h)
      <3>1. j.row \in Rows
        BY <1>1, <2>2 DEF RaiseBet, Ready, Place, RowsOf
      <3>2. PICK b : b = j.row
        OBVIOUS
      <3>3. bets' = [bets EXCEPT ![b] = [bets[b] EXCEPT !.gold = @ + j.gold]]
        BY <2>2, <3>1, <3>2 DEF RaiseBet
      <3>4. b \in BetIds /\ bets[b] \in Row /\ b \in Rows
        BY <1>1, <3>1, <3>2 DEF Rows, Types, WheelTypes
      <3>5. /\ bets'[b].user = bets[b].user /\ bets'[b].round = bets[b].round /\ bets'[b].choice = bets[b].choice
            /\ \A c \in BetIds \ {b} : bets'[c] = bets[c]
        <4>1. bets'[b] = [bets[b] EXCEPT !.gold = @ + j.gold] /\ \A c \in BetIds \ {b} : bets'[c] = bets[c]
          BY <1>1, <3>3, <3>4 DEF Types, WheelTypes
        <4> QED
          BY <3>4, <4>1 DEF Row
      <3>6. \A c \in Rows' : /\ c \in Rows
                             /\ bets'[c].user = bets[c].user /\ bets'[c].round = bets[c].round
                             /\ bets'[c].choice = bets[c].choice
        BY <3>4, <3>5 DEF Rows
      <3> QED
        BY <3>6 DEF OneRowEach, Serial, Orderly
    <2> QED
      BY <2>1, <2>2
  <1>7. \A p \in Spots : /\ OnBooks(bets, jackpotBets, p) \in Int
                         /\ OnBooks(bets', jackpotBets', p) = OnBooks(bets, jackpotBets, p) + (IF p = spot THEN j.gold ELSE 0)
    <2> SUFFICES ASSUME NEW u \in Users, NEW k \in {"wheel", "jackpot"}, NEW r \in AllRounds, NEW f \in Fruits
                 PROVE  /\ StakeAt(bets, jackpotBets, u, k, r, f) \in Int
                        /\ StakeAt(bets', jackpotBets', u, k, r, f) =
                             StakeAt(bets, jackpotBets, u, k, r, f) + (IF <<u, k, r, f>> = spot THEN j.gold ELSE 0)
      BY DEF Spots, OnBooks
    <2>1. GoldFiled(bets, u, r, f) \in Nat
      BY <1>1, GoldFiledTypes DEF Types, WheelTypes, Table
    <2>2. AmountIn(jackpotBets, BetsOn(jackpotBets, r, f), u) \in Nat
      BY <1>1, AmountTypes DEF Types, JackpotTypes, BetsOn
    <2>3. r \notin WheelRounds => GoldFiled(bets', u, r, f) = 0 /\ GoldFiled(bets, u, r, f) = 0
      <3> SUFFICES ASSUME r \notin WheelRounds PROVE RowsIn(bets', u, r, f) = {} /\ RowsIn(bets, u, r, f) = {}
        BY SumOfNone DEF GoldFiled
      <3> QED
        BY <1>1 DEF RowsIn, Types, WheelTypes, Row
    <2>4. CASE k = "wheel"
      BY <1>1, <1>5, <2>1, <2>3, <2>4 DEF StakeAt
    <2>5. CASE k = "jackpot"
      BY <1>2, <2>2, <2>5 DEF StakeAt
    <2> QED
      BY <2>4, <2>5
  <1>8. \A u \in Users : credit[u] \in Int /\ credit[u] >= 0
    BY <1>1 DEF Types, StoreTypes, Serial, Orderly, Solvent
  <1>9. /\ \A u \in Users : Holds(h, u)' = Holds(h, u) - (IF u = j.user THEN j.gold ELSE 0)
        /\ Holds(h, j.user) >= j.gold
    <2>1. ASSUME NEW u \in Users
          PROVE  /\ Due(j, bets, jackpotBets, u) = IF j.user = u THEN j.gold ELSE 0
                 /\ Due(pc'[h], bets', jackpotBets', u) = 0
      BY <1>1, <1>2, DueByTag DEF FreeTags, Idle
    <2> QED
      BY <1>1, <1>2, <1>8, <2>1 DEF Holds
  <1>10. Outcomes[<<"wheel", j.round>>] = None
    BY <1>1, WheelOutcome DEF Ready, ResultOf
  <1>11. Promise!Next
    <2>1. SameOutcomes /\ SameGrants
      BY <1>2 DEF SameOutcomes, SameGrants
    <2>2. j.round \in AllRounds
      BY <1>1 DEF AllRounds
    <2> HIDE DEF j
    <2> QED
      BY <1>1, <1>7, <1>9, <1>10, <2>1, <2>2, BetHappens
  <1> QED
    BY <1>2, <1>3, <1>6, <1>11, IdleIsReady DEF Keeps, Orderly, Idle

\* The result is saved: the winners are owed what the rows on the fruit hold.
LEMMA WheelSettles ==
  ASSUME Serial, NEW h \in Slots, Alone(h), UNCHANGED <<jackpotVars, cached, coinVars>>, SaveResult(h)
  PROVE  Keeps(h)
  <1> USE DEF Typed
  <1> DEFINE j == pc[h]
             r == pc[h].round
  <1>1. /\ Types /\ j \in Job /\ Ready(j) /\ j.at = "draw" /\ r \in WheelRounds
    BY JobsByTag DEF Serial, Types, PcTypes, SaveResult, Draw
  <1>2. UNCHANGED <<credit, cached, payments, granted, bets, jackpotBets, jackpotResults>>
    BY DEF SaveResult, Continue, jackpotVars, coinVars
  <1>3. Orderly'
    BY <1>1, <1>2, OrderStays DEF Orderly, CoinTags
  <1>4. PICK f \in Fruits : /\ results' = [results EXCEPT ![r] = Append(@, f)]
                            /\ Continue(h, [at |-> "winners", round |-> r, fruit |-> f])
    BY DEF SaveResult
  <1>5. pc'[h] = [at |-> "winners", round |-> r, fruit |-> f]
    BY <1>1, <1>4, StepsMove
  <1>6. Ready(pc[h])'
    BY <1>5 DEF Ready
  <1>7. results[r] = <<>> /\ results' = [results EXCEPT ![r] = <<f>>]
    <2>1. results[r] = <<>>
      BY <1>1 DEF Ready
    <2>2. Append(<<>>, f) = <<f>>
      OBVIOUS
    <2>3. results' = [results EXCEPT ![r] = Append(results[r], f)]
      BY <1>4
    <2> QED
      BY <2>1, <2>2, <2>3
  <1>8. Outcomes[<<"wheel", r>>] = None /\ Outcomes' = [Outcomes EXCEPT ![<<"wheel", r>>] = f] /\ r \in AllRounds
    <2>1. Outcomes[<<"wheel", r>>] = None /\ r \in AllRounds /\ <<"wheel", r>> \in {"wheel", "jackpot"} \X AllRounds
      BY <1>1, <1>7, WheelOutcome DEF ResultOf
    <2>2. results' \in [WheelRounds -> Seq(Fruits)] /\ results'[r] = <<f>> /\ \A q \in WheelRounds \ {r} : results'[q] = results[q]
      BY <1>1, <1>7 DEF Types, WheelTypes
    <2>3. ResultOf(<<f>>) = f
      BY DEF ResultOf
    <2>4. \A p \in {"wheel", "jackpot"} \X AllRounds :
            Outcomes'[p] = IF p = <<"wheel", r>> THEN f ELSE Outcomes[p]
      <3> SUFFICES ASSUME NEW k \in {"wheel", "jackpot"}, NEW q \in AllRounds
                   PROVE  Outcomes'[<<k, q>>] = IF k = "wheel" /\ q = r THEN f ELSE Outcomes[<<k, q>>]
        OBVIOUS
      <3>1. CASE k = "wheel"
        BY <1>1, <2>2, <2>3, <3>1 DEF Outcomes
      <3>2. CASE k = "jackpot"
        BY <1>2, <3>2 DEF Outcomes
      <3> QED
        BY <3>1, <3>2
    <2>5. /\ Outcomes = [p \in {"wheel", "jackpot"} \X AllRounds |-> Outcomes[p]]
          /\ Outcomes' = [p \in {"wheel", "jackpot"} \X AllRounds |-> Outcomes'[p]]
      BY DEF Outcomes
    <2> QED
      BY <2>1, <2>4, <2>5
  <1>9. \A u \in Users : Holds(h, u)' = Holds(h, u) + WheelMultiplier[f] * OnBooks(bets, jackpotBets, <<u, "wheel", r, f>>)
    <2> SUFFICES ASSUME NEW u \in Users
                 PROVE  Holds(h, u)' = Holds(h, u) + WheelMultiplier[f] * OnBooks(bets, jackpotBets, <<u, "wheel", r, f>>)
      OBVIOUS
    <2>1. Due(j, bets, jackpotBets, u) = 0
      BY <1>1, DueByTag DEF FreeTags
    <2>2. Due(pc'[h], bets', jackpotBets', u) = WOwed(pc'[h], bets', u)
      BY <1>5, DueByTag
    <2>3. WOwed(pc'[h], bets', u) = WheelMultiplier[f] * GoldFiled(bets, u, r, f)
      BY <1>2, <1>5 DEF WOwed
    <2>4. OnBooks(bets, jackpotBets, <<u, "wheel", r, f>>) = GoldFiled(bets, u, r, f)
      BY DEF OnBooks, StakeAt
    <2>5. credit[u] \in Int
      BY <1>1 DEF Types, StoreTypes
    <2> QED
      BY <1>2, <2>1, <2>2, <2>3, <2>4, <2>5 DEF Holds
  <1>10. SameStakes /\ SameGrants
    BY <1>2 DEF SameStakes, SameGrants
  <1>11. Promise!Next
    <2> HIDE DEF j, r
    <2> QED
      BY <1>8, <1>9, <1>10, SettlementHappens
  <1> QED
    BY <1>3, <1>6, <1>11 DEF Keeps

\* The winners are read, paid one after the other, and the last one was.
LEMMA WheelPays ==
  ASSUME Serial, NEW h \in Slots, Alone(h), UNCHANGED <<jackpotVars, cached, coinVars>>,
         FindWinners(h) \/ PayWinner(h) \/ RecordRound(h)
  PROVE  Keeps(h)
  <1> USE DEF Typed
  <1> DEFINE j == pc[h]
  <1>1. /\ Types /\ Types' /\ j \in Job /\ j.at \in {"winners", "pay"} /\ j.fruit \in Fruits
        /\ pc \in Jobs /\ \A u \in Users : credit[u] \in Int
    BY JobsByTag DEF Serial, Alone, Types, PcTypes, StoreTypes, FindWinners, PayWinner, RecordRound, Winners, Pay
  <1>2. UNCHANGED <<cached, payments>> /\ BooksStay
    BY DEF FindWinners, PayWinner, RecordRound, wheelVars, jackpotVars, coinVars, BooksStay
  <1>3. OneRowEach' /\ Claims'
    BY <1>1, <1>2, OrderStays DEF BooksStay, CoinTags
  <1>4. CASE FindWinners(h)
    <2>1. j \in Winners /\ j.at = "winners"
      BY <1>1, <1>4, JobsByTag DEF FindWinners
    <2>2. pc'[h] = Paying(j, {b \in RowsOfRound(j.round) : bets[b].choice = j.fruit}) /\ credit' = credit
      BY <1>1, <1>4, StepsMove DEF FindWinners
    <2>3. pc'[h].at = "pay" /\ pc'[h].fruit = j.fruit
      BY <2>2 DEF Paying
    <2>4. SameHoldings(h)
      <3> SUFFICES ASSUME NEW u \in Users PROVE Holds(h, u)' = Holds(h, u)
        BY DEF SameHoldings
      <3>1. WinningsLeft(pc'[h], u) = GoldFiled(bets, u, j.round, j.fruit)
        BY <1>1, <2>1, <2>2, WinnersRead
      <3>2. WOwed(pc'[h], bets', u) = WOwed(j, bets, u)
        BY <2>1, <2>3, <3>1 DEF WOwed
      <3>3. /\ Due(j, bets, jackpotBets, u) = WOwed(j, bets, u)
            /\ Due(pc'[h], bets', jackpotBets', u) = WOwed(pc'[h], bets', u)
        BY <2>1, <2>3, DueByTag
      <3> QED
        BY <2>2, <3>2, <3>3 DEF Holds
    <2>5. Solvent' /\ Ready(pc[h])'
      BY <1>1, <1>2, <2>2, <2>3, OrderStays DEF CoinTags, Ready
    <2> QED
      BY <1>2, <1>3, <2>4, <2>5, QuietStep DEF Keeps, Orderly
  <1>5. CASE PayWinner(h)
    <2>1. j \in Pay /\ j.at = "pay" /\ IsFiniteSet(j.left)
      BY <1>1, <1>5, JobsByTag DEF PayWinner, Jobs
    <2>2. PICK w \in j.left : /\ AddCredit(w.user, WheelMultiplier[j.fruit] * w.gold)
                              /\ Goto(h, [j EXCEPT !.left = @ \ {w}])
      BY <1>5 DEF PayWinner
    <2> DEFINE k == [j EXCEPT !.left = @ \ {w}]
               m == WheelMultiplier[j.fruit]
    <2>3. pc'[h] = k
      BY <1>1, <1>5, <2>2, StepsMove DEF PayWinner
    <2>4. k.at = "pay" /\ k.fruit = j.fruit /\ k.left \subseteq j.left /\ m \in Nat /\ IsFiniteSet(k.left) /\ k \in Job
      <3>1. k.at = "pay" /\ k.fruit = j.fruit /\ k.left \subseteq j.left
        BY <2>1 DEF Pay
      <3>2. IsFiniteSet(k.left)
        BY <2>1, <3>1, FS_Subset
      <3>3. pc'[h] \in Job
        BY <1>1 DEF Types, PcTypes
      <3> QED
        BY <1>1, <2>3, <3>1, <3>2, <3>3, WheelConstants
    <2>5. ASSUME NEW u \in Users
          PROVE  /\ WinningsLeft(j, u) = WinningsLeft(k, u) + (IF w.user = u THEN w.gold ELSE 0)
                 /\ WinningsLeft(k, u) \in Nat /\ w.gold \in Nat /\ w.user \in Users
      <3>1. WinningsLeft(k, u) \in Nat
        BY <2>4, LeftTypes
      <3> QED
        BY <2>1, <3>1, OneLess
    <2>6. w.gold \in Nat /\ w.user \in Users /\ m * w.gold \in Nat
      <3>1. w \in Winner
        BY <2>1 DEF Pay
      <3>2. w.gold \in Nat /\ w.user \in Users
        BY <3>1 DEF Winner
      <3> QED
        BY <2>4, <3>2, Products
    <2>7. \A u \in Users : credit'[u] = credit[u] + (IF w.user = u THEN m * w.gold ELSE 0)
      BY <1>1, <2>2, <2>6 DEF AddCredit, Types, StoreTypes
    <2>8. Solvent' /\ Ready(pc[h])'
      <3> HIDE DEF k, m
      <3>1. Solvent'
        BY <1>1, <1>2, <2>6, <2>7 DEF Solvent, Serial, Orderly
      <3>2. Ready(pc[h])'
        BY <2>3, <2>4 DEF Ready
      <3> QED
        BY <3>1, <3>2
    <2>9. SameHoldings(h)
      <3> SUFFICES ASSUME NEW u \in Users PROVE Holds(h, u)' = Holds(h, u)
        BY DEF SameHoldings
      <3>1. /\ Due(j, bets, jackpotBets, u) = m * WinningsLeft(j, u)
            /\ Due(k, bets', jackpotBets', u) = m * WinningsLeft(k, u)
        <4>1. WOwed(j, bets, u) = m * WinningsLeft(j, u) /\ WOwed(k, bets', u) = m * WinningsLeft(k, u)
          BY <2>1, <2>4 DEF WOwed
        <4> HIDE DEF k, m
        <4> QED
          BY <2>1, <2>3, <2>4, <4>1, DueByTag
      <3> HIDE DEF k, m
      <3>2. CASE w.user = u
        <4>1. m * WinningsLeft(j, u) = m * WinningsLeft(k, u) + m * w.gold /\ m * WinningsLeft(k, u) \in Nat
          BY <2>4, <2>5, <3>2, Products
        <4> QED
          BY <1>1, <2>3, <2>6, <2>7, <3>1, <3>2, <4>1 DEF Holds
      <3>3. CASE w.user # u
        <4>1. m * WinningsLeft(j, u) = m * WinningsLeft(k, u)
          BY <2>5, <3>3
        <4> QED
          BY <1>1, <2>3, <2>7, <3>1, <3>3, <4>1 DEF Holds
      <3> QED
        BY <3>2, <3>3
    <2> QED
      BY <1>2, <1>3, <2>8, <2>9, QuietStep DEF Keeps, Orderly
  <1>6. CASE RecordRound(h)
    <2>1. j.at = "pay" /\ j.left = {} /\ pc'[h] = Idle /\ credit' = credit
      BY <1>1, <1>6, StepsMove DEF RecordRound
    <2>2. SameHoldings(h)
      <3> SUFFICES ASSUME NEW u \in Users PROVE Holds(h, u)' = Holds(h, u)
        BY DEF SameHoldings
      <3>1. WinningsLeft(j, u) = 0
        <4>1. {v \in j.left : v.user = u} = {}
          BY <2>1
        <4> QED
          BY <4>1, SumOfNone DEF WinningsLeft, SumFunction
      <3>2. WOwed(j, bets, u) = 0
        <4>1. WheelMultiplier[j.fruit] \in Nat
          BY <1>1, WheelConstants
        <4>2. WheelMultiplier[j.fruit] * 0 = 0
          BY <4>1
        <4> QED
          BY <2>1, <3>1, <4>2 DEF WOwed
      <3>3. Due(j, bets, jackpotBets, u) = 0 /\ Due(pc'[h], bets', jackpotBets', u) = 0
        BY <2>1, <3>2, DueByTag DEF FreeTags, Idle
      <3> QED
        BY <2>1, <3>3 DEF Holds
    <2>3. Solvent' /\ Ready(pc[h])'
      BY <1>1, <1>2, <2>1, OrderStays, IdleIsReady DEF CoinTags, Idle
    <2> QED
      BY <1>2, <1>3, <2>2, <2>3, QuietStep DEF Keeps, Orderly
  <1> QED
    BY <1>4, <1>5, <1>6

\* A reset takes a row, and with it the stake it stands for, off the books.
LEMMA WheelWithdraws ==
  ASSUME Serial, NEW h \in Slots, Alone(h), UNCHANGED <<jackpotVars, cached, coinVars>>, DestroyBet(h)
  PROVE  Keeps(h)
  <1> USE DEF Typed
  <1> DEFINE j == pc[h]
  <1>1. /\ Types /\ Types' /\ j \in Reset /\ Ready(j) /\ j.at = "reset" /\ bets \in Table /\ bets' \in Table
        /\ None # Deleted
    BY JobsByTag, WheelConstants DEF Serial, Alone, Types, PcTypes, WheelTypes, DestroyBet, Table
  <1>2. UNCHANGED <<credit, cached, payments, granted, results, jackpotBets, jackpotResults>>
    BY DEF DestroyBet, Continue, jackpotVars, coinVars
  <1>3. PICK b \in j.left \cap Rows : bets' = [bets EXCEPT ![b] = Deleted] /\ Continue(h, [j EXCEPT !.left = @ \ {b}])
    BY DEF DestroyBet
  <1>4. pc'[h] = [j EXCEPT !.left = @ \ {b}]
    BY <1>1, <1>3, StepsMove
  <1>5. /\ b \in BetIds /\ b \in Rows /\ bets'[b] = Deleted /\ \A c \in BetIds \ {b} : bets'[c] = bets[c]
        /\ Rows' = Rows \ {b}
    BY <1>1, <1>3 DEF Rows, Table
  <1> DEFINE u == bets[b].user
             r == bets[b].round
             f == bets[b].choice
  <1>6. u \in Users /\ r \in WheelRounds /\ f \in Fruits
    BY <1>1, <1>5 DEF Rows, Table, Row
  <1>7. Solvent' /\ Claims'
    BY <1>1, <1>2, OrderStays DEF CoinTags
  <1>8. OneRowEach'
    BY <1>5 DEF OneRowEach, Serial, Orderly, Rows
  <1>9. Ready(pc[h])'
    <2>1. pc'[h].at = "reset" /\ pc'[h].user = j.user /\ pc'[h].left = j.left \ {b}
      BY <1>1, <1>4 DEF Reset
    <2>2. j.left \subseteq RowsOfUser(j.user)
      BY <1>1 DEF Ready
    <2>3. {c \in Rows' : bets'[c].user = j.user} = RowsOfUser(j.user) \ {b}
      BY <1>5 DEF RowsOfUser, Rows
    <2>4. pc'[h].left \subseteq RowsOfUser(pc[h].user)'
      BY <2>1, <2>2, <2>3 DEF RowsOfUser
    <2> QED
      BY <2>1, <2>4 DEF Ready
  <1>10. ASSUME NEW v \in Users, NEW q \in AllRounds, NEW c \in Fruits
         PROVE  GoldFiled(bets', v, q, c) = IF v = u /\ q = r /\ c = f THEN 0 ELSE GoldFiled(bets, v, q, c)
    <2>1. CASE v = u /\ q = r /\ c = f
      <3>1. RowsIn(bets', u, r, f) = {}
        <4> SUFFICES ASSUME NEW d \in RowsIn(bets', u, r, f) PROVE FALSE
          OBVIOUS
        <4>1. d \in Rows /\ d # b /\ bets[d] = bets'[d]
          BY <1>5 DEF RowsIn, Rows
        <4> QED
          BY <1>5, <4>1 DEF RowsIn, OneRowEach, Serial, Orderly
      <3> QED
        BY <2>1, <3>1, SumOfNone DEF GoldFiled
    <2>2. CASE ~(v = u /\ q = r /\ c = f)
      <3>1. ChangesRow(bets, bets', b)
        BY <1>1, <1>5 DEF ChangesRow
      <3>2. b \notin RowsIn(bets, v, q, c) /\ b \notin RowsIn(bets', v, q, c)
        BY <1>5, <2>2 DEF RowsIn
      <3>3. GoldFiled(bets, v, q, c) \in Nat
        BY <1>1, GoldFiledTypes
      <3>4. GoldFiled(bets', v, q, c) =
              GoldFiled(bets, v, q, c)
                + (IF b \in RowsIn(bets', v, q, c) THEN bets'[b].gold ELSE 0)
                - (IF b \in RowsIn(bets, v, q, c) THEN bets[b].gold ELSE 0)
        BY <3>1, GoldFiledChanges
      <3> QED
        BY <2>2, <3>2, <3>3, <3>4
    <2> QED
      BY <2>1, <2>2
  <1>11. \A p \in Spots : OnBooks(bets', jackpotBets', p) = IF p = <<u, "wheel", r, f>> THEN 0 ELSE OnBooks(bets, jackpotBets, p)
    <2> SUFFICES ASSUME NEW v \in Users, NEW k \in {"wheel", "jackpot"}, NEW q \in AllRounds, NEW c \in Fruits
                 PROVE  StakeAt(bets', jackpotBets', v, k, q, c) =
                          IF <<v, k, q, c>> = <<u, "wheel", r, f>> THEN 0 ELSE StakeAt(bets, jackpotBets, v, k, q, c)
      BY DEF Spots, OnBooks
    <2>1. CASE k = "wheel"
      BY <1>10, <2>1 DEF StakeAt
    <2>2. CASE k = "jackpot"
      BY <1>2, <2>2 DEF StakeAt
    <2> QED
      BY <2>1, <2>2
  <1>12. SameHoldings(h)
    <2>1. j.at \in FreeTags /\ pc'[h].at \in FreeTags
      BY <1>1, <1>4 DEF FreeTags, Reset
    <2> QED
      BY <1>2, <2>1, FreeStep
  <1>13. Promise!Next
    <2>1. SameOutcomes /\ SameGrants /\ r \in AllRounds
      BY <1>2, <1>6 DEF SameOutcomes, SameGrants, AllRounds
    <2> HIDE DEF j, u, r, f
    <2> QED
      BY <1>6, <1>11, <1>12, <2>1, WithdrawalHappens
  <1> QED
    BY <1>7, <1>8, <1>9, <1>13 DEF Keeps, Orderly

LEMMA WheelKeeps ==
  ASSUME Serial, NEW h \in Slots, Alone(h), UNCHANGED <<jackpotVars, cached, coinVars>>, WheelStep(h)
  PROVE  Keeps(h)
  BY WheelReads, WheelDebits, WheelFiles, WheelSettles, WheelPays, WheelWithdraws DEF WheelStep

-----------------------------------------------------------------------------
\* The order and the rows that a step of the jackpot leaves alone.
LEMMA JackpotOrder ==
  ASSUME Serial, NEW h \in Slots, Alone(h), UNCHANGED <<wheelVars, cached, coinVars>>, pc[h].at \notin CoinTags
  PROVE  /\ OneRowEach' /\ Claims' /\ (credit' = credit => Solvent')
         /\ UNCHANGED <<bets, results, payments, granted, cached>>
  <1>1. UNCHANGED <<bets, results, payments, granted, cached>>
    BY DEF wheelVars, coinVars
  <1> QED
    BY <1>1, OrderStays

\* Jackpot requests that begin, end or read.
LEMMA JackpotReads ==
  ASSUME Serial, NEW h \in Slots, Alone(h), UNCHANGED <<wheelVars, cached, coinVars>>,
         \/ \E u \in Users, f \in Fruits, g \in Gold : JackpotBet(h, u, f, g)
         \/ JackpotFetchBalance(h) \/ ProcessRound(h)
  PROVE  Keeps(h)
  <1> USE DEF Typed
  <1>1. Types /\ pc[h] \in Job /\ Ready(pc[h]) /\ now \in 0..MaxNow /\ JackpotRound(now) \in JackpotRounds
    BY RoundTypes DEF Serial, Types, PcTypes, StoreTypes
  <1>2. UNCHANGED <<cached, payments>> /\ BooksStay
    BY DEF JackpotBet, JackpotFetchBalance, ProcessRound, jackpotVars, wheelVars, coinVars, BooksStay
  <1>3. ASSUME NEW u \in Users, NEW f \in Fruits, NEW g \in Gold, JackpotBet(h, u, f, g)
        PROVE  /\ pc[h].at = "idle" /\ pc'[h].at \in {"idle", "jfetch"} /\ credit' = credit /\ Ready(pc[h])'
    <2>1. /\ pc[h] = Idle /\ credit' = credit
          /\ pc'[h] = [at |-> "jfetch", user |-> u, choice |-> f, gold |-> g, since |-> now]
      BY <1>1, <1>3, StepsMove DEF JackpotBet
    <2>2. jackpotResults'[JackpotRound(now)] = <<>>
      BY <1>1, <1>2 DEF BooksStay, Serial, RoundsAreOver, JackpotRounds
    <2>3. Ready(pc[h])'
      BY <2>1, <2>2 DEF Ready
    <2> QED
      BY <2>1, <2>3 DEF Idle
  <1>4. ASSUME JackpotFetchBalance(h)
        PROVE  /\ pc[h].at = "jfetch" /\ pc'[h].at \in {"idle", "jdebit"} /\ credit' = credit /\ Ready(pc[h])'
    <2>1. pc[h] \in JBet /\ pc[h].at = "jfetch"
      BY <1>1, <1>4, JobsByTag DEF JackpotFetchBalance
    <2>2. CASE credit[pc[h].user] < pc[h].gold
      BY <1>1, <1>4, <2>1, <2>2, StepsMove, IdleIsReady DEF JackpotFetchBalance, Idle
    <2>3. CASE ~(credit[pc[h].user] < pc[h].gold)
      <3>1. pc'[h] = [pc[h] EXCEPT !.at = "jdebit"] /\ credit' = credit
        BY <1>1, <1>4, <2>3, StepsMove DEF JackpotFetchBalance
      <3>2. pc'[h].at = "jdebit" /\ pc'[h].since = pc[h].since /\ pc'[h].user = pc[h].user /\ pc'[h].gold = pc[h].gold
        BY <2>1, <3>1 DEF JBet
      <3>3. credit[pc[h].user] >= pc[h].gold
        <4>1. pc[h].gold \in Gold /\ pc[h].user \in Users
          BY <2>1 DEF JBet
        <4>2. credit[pc[h].user] \in Int
          BY <1>1, <4>1 DEF Types, StoreTypes
        <4>3. pc[h].gold \in Nat
          BY <4>1, StoreConstants
        <4> QED
          BY <2>3, <4>2, <4>3
      <3>4. jackpotResults'[JackpotRound(pc[h].since)] = <<>>
        BY <1>1, <1>2, <2>1 DEF Ready, BooksStay
      <3>5. Ready(pc[h])'
        BY <3>1, <3>2, <3>3, <3>4 DEF Ready
      <3> QED
        BY <2>1, <3>1, <3>2, <3>5
    <2> QED
      BY <2>2, <2>3
  <1>5. ASSUME ProcessRound(h)
        PROVE  /\ pc[h].at = "idle" /\ pc'[h].at \in {"idle", "jdraw"} /\ credit' = credit /\ Ready(pc[h])'
    <2>1. /\ pc[h] = Idle /\ pc'[h] = [at |-> "jdraw", round |-> JackpotRound(now) - 1] /\ credit' = credit
          /\ jackpotResults[JackpotRound(now) - 1] = <<>>
      BY <1>1, <1>5, StepsMove DEF ProcessRound
    <2>2. jackpotResults'[JackpotRound(now) - 1] = <<>>
      BY <1>2, <2>1 DEF BooksStay
    <2>3. Ready(pc[h])'
      BY <2>1, <2>2 DEF Ready
    <2> QED
      BY <2>1, <2>3 DEF Idle
  <1>6. /\ pc[h].at \in {"idle", "jfetch"} /\ pc'[h].at \in {"idle", "jfetch", "jdebit", "jdraw"}
        /\ credit' = credit /\ Ready(pc[h])'
    BY <1>3, <1>4, <1>5
  <1>7. pc[h].at \in FreeTags \ CoinTags /\ pc'[h].at \in FreeTags
    BY <1>6 DEF FreeTags, CoinTags
  <1> QED
    BY <1>2, <1>6, <1>7, FreeKeeps

LEMMA JackpotDebits ==
  ASSUME Serial, NEW h \in Slots, Alone(h), UNCHANGED <<wheelVars, cached, coinVars>>, JackpotDebit(h)
  PROVE  Keeps(h)
  <1> USE DEF Typed
  <1> DEFINE j == pc[h]
  <1>1. Types /\ j \in Job /\ Ready(j) /\ j.at = "jdebit" /\ j \in JBet
    BY JobsByTag DEF Serial, Types, PcTypes, JackpotDebit
  <1>2. BooksStay /\ cached' = cached
    BY DEF JackpotDebit, wheelVars, jackpotVars, coinVars, BooksStay
  <1>3. j.user \in Users /\ j.gold \in Nat /\ \A u \in Users : credit[u] \in Int
    BY <1>1, StoreConstants DEF JBet, Types, StoreTypes
  <1>4. OneRowEach' /\ Claims'
    BY <1>1, JackpotOrder DEF CoinTags
  <1>5. pc'[h] = [j EXCEPT !.at = "jfile"] /\ credit' = [credit EXCEPT ![j.user] = @ - j.gold]
    <2>1. pc'[h] = [j EXCEPT !.at = "jfile"]
      BY <1>1, StepsMove DEF JackpotDebit
    <2>2. credit' = [credit EXCEPT ![j.user] = @ + (-j.gold)]
      BY DEF JackpotDebit, AddCredit
    <2>3. credit[j.user] + (-j.gold) = credit[j.user] - j.gold
      BY <1>3
    <2> QED
      BY <2>1, <2>2, <2>3
  <1>6. pc'[h].at = "jfile" /\ pc'[h].since = j.since /\ pc'[h].user = j.user /\ pc'[h].gold = j.gold
    BY <1>1, <1>5 DEF JBet
  <1>7. \A u \in Users : credit'[u] = credit[u] - (IF j.user = u THEN j.gold ELSE 0)
    BY <1>1, <1>3, <1>5 DEF Types, StoreTypes
  <1>8. Solvent'
    <2>1. credit[j.user] >= j.gold
      BY <1>1 DEF Ready
    <2> QED
      BY <1>2, <1>3, <1>7, <2>1 DEF Solvent, Serial, Orderly
  <1>9. SameHoldings(h)
    <2>1. ASSUME NEW u \in Users
          PROVE  /\ Due(j, bets, jackpotBets, u) = 0
                 /\ Due(pc'[h], bets', jackpotBets', u) = IF j.user = u THEN j.gold ELSE 0
      BY <1>1, <1>6, DueByTag DEF FreeTags
    <2> QED
      BY <1>3, <1>7, <2>1 DEF SameHoldings, Holds
  <1>10. Ready(pc[h])'
    BY <1>1, <1>2, <1>6 DEF Ready, BooksStay
  <1> QED
    BY <1>2, <1>4, <1>8, <1>9, <1>10, QuietStep DEF Keeps, Orderly

LEMMA JackpotOutcome ==
  ASSUME NEW r \in JackpotRounds
  PROVE  /\ <<"jackpot", r>> \in {"wheel", "jackpot"} \X AllRounds /\ r \in AllRounds
         /\ Outcomes[<<"jackpot", r>>] = ResultOf(jackpotResults[r])
  BY DEF Outcomes, AllRounds

\* A new row adds its amount to the stake it is for.
LEMMA FilingStakes ==
  ASSUME NEW rows \in Seq(JackpotRow), NEW row \in JackpotRow, NEW u, NEW r, NEW f
  PROVE  AmountIn(Append(rows, row), BetsOn(Append(rows, row), r, f), u) =
           AmountIn(rows, BetsOn(rows, r, f), u)
             + (IF row.user = u /\ row.round = r /\ row.choice = f THEN row.amount ELSE 0)
  <1> DEFINE m == Len(rows) + 1
             more == Append(rows, row)
             A == BetsOn(rows, r, f)
             B == BetsOn(more, r, f)
             S == {n \in A : rows[n].user = u}
             T == {n \in B : more[n].user = u}
  <1>1. /\ Len(rows) \in Nat /\ DOMAIN rows = 1..Len(rows) /\ more \in Seq(JackpotRow) /\ DOMAIN more = 1..m
        /\ \A n \in DOMAIN rows : more[n] = rows[n]
        /\ more[m] = row
    OBVIOUS
  <1> HIDE DEF more
  <1>2. /\ S \ {m} = T \ {m} /\ m \notin S
        /\ m \in T <=> row.user = u /\ row.round = r /\ row.choice = f
    BY <1>1 DEF BetsOn
  <1>3. Amounts(more)[m] = row.amount /\ \A n \in DOMAIN rows : Amounts(more)[n] = Amounts(rows)[n]
    BY <1>1 DEF Amounts
  <1>4. A \subseteq DOMAIN rows /\ B \subseteq DOMAIN more
    BY DEF BetsOn
  <1>5. /\ IsFiniteSet(A) /\ IsFiniteSet(B) /\ AmountIn(rows, A, u) \in Nat
        /\ \A n \in DOMAIN rows : Amounts(rows)[n] \in Nat
        /\ \A n \in DOMAIN more : Amounts(more)[n] \in Nat
    BY <1>1, <1>4, AmountTypes
  <1>6. /\ IsFiniteSet(S) /\ IsFiniteSet(T)
        /\ (\A n \in S : Amounts(rows)[n] \in Int) /\ (\A n \in T : Amounts(more)[n] \in Int)
        /\ \A n \in S \ {m} : Amounts(rows)[n] = Amounts(more)[n]
    BY <1>3, <1>4, <1>5, FS_Subset
  <1>7. AmountIn(rows, A, u) = SumFunctionOnSet(Amounts(rows), S) /\ AmountIn(more, B, u) = SumFunctionOnSet(Amounts(more), T)
    BY DEF AmountIn
  <1>8. row.amount \in Nat
    BY DEF JackpotRow
  <1> HIDE DEF m, A, B, S, T
  <1>9. SumFunctionOnSet(Amounts(more), T) =
          SumFunctionOnSet(Amounts(rows), S) + (IF m \in T THEN Amounts(more)[m] ELSE 0) - (IF m \in S THEN Amounts(rows)[m] ELSE 0)
    BY <1>2, <1>6, SumChanges
  <1>10. AmountIn(more, B, u) =
           AmountIn(rows, A, u) + (IF row.user = u /\ row.round = r /\ row.choice = f THEN row.amount ELSE 0)
    BY <1>2, <1>3, <1>5, <1>7, <1>8, <1>9
  <1> QED
    BY <1>10 DEF more, A, B

LEMMA JackpotFiles ==
  ASSUME Serial, NEW h \in Slots, Alone(h), UNCHANGED <<wheelVars, cached, coinVars>>, JackpotFile(h)
  PROVE  Keeps(h)
  <1> USE DEF Typed
  <1> DEFINE j == pc[h]
             r == JackpotRound(j.since)
             spot == <<j.user, "jackpot", r, j.choice>>
  <1>1. /\ Types /\ j \in JBet /\ Ready(j) /\ j.at = "jfile"
        /\ j.user \in Users /\ j.choice \in Fruits /\ j.gold \in Gold /\ j.gold \in Nat /\ r \in JackpotRounds
    <2>1. Types /\ j \in JBet /\ Ready(j) /\ j.at = "jfile"
      BY JobsByTag DEF Serial, Types, PcTypes, JackpotFile
    <2>2. j.user \in Users /\ j.choice \in Fruits /\ j.gold \in Gold /\ j.since \in 0..MaxNow
      BY <2>1 DEF JBet
    <2> QED
      BY <2>1, <2>2, RoundTypes, StoreConstants
  <1>2. credit' = credit /\ pc'[h] = Idle /\ jackpotResults' = jackpotResults
    BY <1>1, StepsMove DEF JackpotFile
  <1>3. OneRowEach' /\ Claims' /\ Solvent' /\ UNCHANGED <<bets, results, granted>>
    BY <1>1, <1>2, JackpotOrder DEF CoinTags
  <1> DEFINE row == [user |-> j.user, round |-> r, choice |-> j.choice, amount |-> j.gold, isWinner |-> FALSE]
  <1>4. /\ row \in JackpotRow /\ row.user = j.user /\ row.round = r /\ row.choice = j.choice /\ row.amount = j.gold
        /\ jackpotBets' = Append(jackpotBets, row) /\ jackpotBets \in Seq(JackpotRow)
    BY <1>1 DEF JackpotRow, JackpotFile, Types, JackpotTypes
  <1>5. \A p \in Spots : /\ OnBooks(bets, jackpotBets, p) \in Int
                         /\ OnBooks(bets', jackpotBets', p) = OnBooks(bets, jackpotBets, p) + (IF p = spot THEN j.gold ELSE 0)
    <2> SUFFICES ASSUME NEW u \in Users, NEW k \in {"wheel", "jackpot"}, NEW q \in AllRounds, NEW f \in Fruits
                 PROVE  /\ StakeAt(bets, jackpotBets, u, k, q, f) \in Int
                        /\ StakeAt(bets', jackpotBets', u, k, q, f) =
                             StakeAt(bets, jackpotBets, u, k, q, f) + (IF <<u, k, q, f>> = spot THEN j.gold ELSE 0)
      BY DEF Spots, OnBooks
    <2>1. GoldFiled(bets, u, q, f) \in Nat
      BY <1>1, GoldFiledTypes DEF Types, WheelTypes, Table
    <2>2. AmountIn(jackpotBets, BetsOn(jackpotBets, q, f), u) \in Nat
      BY <1>1, AmountTypes DEF Types, JackpotTypes, BetsOn
    <2>3. AmountIn(jackpotBets', BetsOn(jackpotBets', q, f), u) =
            AmountIn(jackpotBets, BetsOn(jackpotBets, q, f), u)
              + (IF j.user = u /\ r = q /\ j.choice = f THEN j.gold ELSE 0)
      <3> HIDE DEF j, r, row
      <3> QED
        BY <1>4, FilingStakes
    <2> HIDE DEF row
    <2>4. CASE k = "wheel"
      BY <1>1, <1>3, <2>1, <2>4 DEF StakeAt
    <2>5. CASE k = "jackpot"
      BY <1>1, <2>2, <2>3, <2>5 DEF StakeAt
    <2> QED
      BY <2>4, <2>5
  <1>6. \A u \in Users : credit[u] \in Int /\ credit[u] >= 0
    BY <1>1 DEF Types, StoreTypes, Serial, Orderly, Solvent
  <1>7. /\ \A u \in Users : Holds(h, u)' = Holds(h, u) - (IF u = j.user THEN j.gold ELSE 0)
        /\ Holds(h, j.user) >= j.gold
    <2>1. ASSUME NEW u \in Users
          PROVE  /\ Due(j, bets, jackpotBets, u) = IF j.user = u THEN j.gold ELSE 0
                 /\ Due(pc'[h], bets', jackpotBets', u) = 0
      BY <1>1, <1>2, DueByTag DEF FreeTags, Idle
    <2> QED
      BY <1>1, <1>2, <1>6, <2>1 DEF Holds
  <1>8. Outcomes[<<"jackpot", r>>] = None /\ r \in AllRounds
    BY <1>1, JackpotOutcome DEF Ready, ResultOf
  <1>9. Promise!Next
    <2>1. SameOutcomes /\ SameGrants
      BY <1>2, <1>3 DEF SameOutcomes, SameGrants
    <2> HIDE DEF j, r, row
    <2> QED
      BY <1>1, <1>5, <1>7, <1>8, <2>1, BetHappens
  <1> QED
    BY <1>2, <1>3, <1>9, IdleIsReady DEF Keeps, Orderly, Idle

LEMMA JackpotSettles ==
  ASSUME Serial, NEW h \in Slots, Alone(h), UNCHANGED <<wheelVars, cached, coinVars>>, JackpotSaveResult(h)
  PROVE  Keeps(h)
  <1> USE DEF Typed
  <1> DEFINE j == pc[h]
             r == pc[h].round
  <1>1. /\ Types /\ j \in Job /\ Ready(j) /\ j.at = "jdraw" /\ r \in JackpotRounds
    BY JobsByTag DEF Serial, Types, PcTypes, JackpotSaveResult, JDraw
  <1>2. credit' = credit /\ jackpotBets' = jackpotBets
    BY DEF JackpotSaveResult, Continue
  <1>3. OneRowEach' /\ Claims' /\ Solvent' /\ UNCHANGED <<bets, results, granted>>
    BY <1>1, <1>2, JackpotOrder DEF CoinTags
  <1>4. PICK f \in Fruits : /\ jackpotResults' = [jackpotResults EXCEPT ![r] = Append(@, f)]
                            /\ Continue(h, [at |-> "jwinners", round |-> r, fruit |-> f])
    BY DEF JackpotSaveResult
  <1>5. pc'[h] = [at |-> "jwinners", round |-> r, fruit |-> f]
    BY <1>1, <1>4, StepsMove
  <1>6. Ready(pc[h])'
    BY <1>5 DEF Ready
  <1>7. jackpotResults[r] = <<>> /\ jackpotResults' = [jackpotResults EXCEPT ![r] = <<f>>]
    <2>1. jackpotResults[r] = <<>>
      BY <1>1 DEF Ready
    <2>2. Append(<<>>, f) = <<f>>
      OBVIOUS
    <2>3. jackpotResults' = [jackpotResults EXCEPT ![r] = Append(jackpotResults[r], f)]
      BY <1>4
    <2> QED
      BY <2>1, <2>2, <2>3
  <1>8. Outcomes[<<"jackpot", r>>] = None /\ Outcomes' = [Outcomes EXCEPT ![<<"jackpot", r>>] = f] /\ r \in AllRounds
    <2>1. Outcomes[<<"jackpot", r>>] = None /\ r \in AllRounds /\ <<"jackpot", r>> \in {"wheel", "jackpot"} \X AllRounds
      BY <1>1, <1>7, JackpotOutcome DEF ResultOf
    <2>2. /\ jackpotResults' \in [JackpotRounds -> Seq(Fruits)] /\ jackpotResults'[r] = <<f>>
          /\ \A q \in JackpotRounds \ {r} : jackpotResults'[q] = jackpotResults[q]
      BY <1>1, <1>7 DEF Types, JackpotTypes
    <2>3. ResultOf(<<f>>) = f
      BY DEF ResultOf
    <2>4. \A p \in {"wheel", "jackpot"} \X AllRounds :
            Outcomes'[p] = IF p = <<"jackpot", r>> THEN f ELSE Outcomes[p]
      <3> SUFFICES ASSUME NEW k \in {"wheel", "jackpot"}, NEW q \in AllRounds
                   PROVE  Outcomes'[<<k, q>>] = IF k = "jackpot" /\ q = r THEN f ELSE Outcomes[<<k, q>>]
        OBVIOUS
      <3>1. CASE k = "jackpot"
        BY <1>1, <2>2, <2>3, <3>1 DEF Outcomes
      <3>2. CASE k = "wheel"
        BY <1>3, <3>2 DEF Outcomes
      <3> QED
        BY <3>1, <3>2
    <2>5. /\ Outcomes = [p \in {"wheel", "jackpot"} \X AllRounds |-> Outcomes[p]]
          /\ Outcomes' = [p \in {"wheel", "jackpot"} \X AllRounds |-> Outcomes'[p]]
      BY DEF Outcomes
    <2> QED
      BY <2>1, <2>4, <2>5
  <1>9. \A u \in Users : Holds(h, u)' = Holds(h, u) + JackpotMultiplier[f] * OnBooks(bets, jackpotBets, <<u, "jackpot", r, f>>)
    <2> SUFFICES ASSUME NEW u \in Users
                 PROVE  Holds(h, u)' = Holds(h, u) + JackpotMultiplier[f] * OnBooks(bets, jackpotBets, <<u, "jackpot", r, f>>)
      OBVIOUS
    <2>1. Due(j, bets, jackpotBets, u) = 0
      BY <1>1, DueByTag DEF FreeTags
    <2>2. Due(pc'[h], bets', jackpotBets', u) = JOwed(pc'[h], jackpotBets', u)
      BY <1>5, DueByTag
    <2>3. JOwed(pc'[h], jackpotBets', u) = JackpotMultiplier[f] * AmountIn(jackpotBets, BetsOn(jackpotBets, r, f), u)
      BY <1>2, <1>5 DEF JOwed
    <2>4. OnBooks(bets, jackpotBets, <<u, "jackpot", r, f>>) = AmountIn(jackpotBets, BetsOn(jackpotBets, r, f), u)
      BY DEF OnBooks, StakeAt
    <2>5. credit[u] \in Int
      BY <1>1 DEF Types, StoreTypes
    <2> QED
      BY <1>2, <2>1, <2>2, <2>3, <2>4, <2>5 DEF Holds
  <1>10. SameStakes /\ SameGrants
    BY <1>2, <1>3 DEF SameStakes, SameGrants
  <1>11. Promise!Next
    <2> HIDE DEF j, r
    <2> QED
      BY <1>8, <1>9, <1>10, SettlementHappens
  <1> QED
    BY <1>3, <1>6, <1>11 DEF Keeps, Orderly

\* A bet taken out of a set of bets.
LEMMA AmountWithout ==
  ASSUME NEW rows \in Seq(JackpotRow), NEW S, S \subseteq DOMAIN rows, NEW n \in S, NEW u
  PROVE  /\ AmountIn(rows, S, u) = AmountIn(rows, S \ {n}, u) + (IF rows[n].user = u THEN rows[n].amount ELSE 0)
         /\ AmountIn(rows, S \ {n}, u) \in Nat /\ rows[n].amount \in Nat /\ rows[n].user \in Users
  <1> DEFINE A == {m \in S : rows[m].user = u}
             f == Amounts(rows)
  <1>1. /\ IsFiniteSet(S) /\ S \ {n} \subseteq DOMAIN rows /\ AmountIn(rows, S \ {n}, u) \in Nat
        /\ \A m \in DOMAIN rows : f[m] \in Nat /\ rows[m] \in JackpotRow
    BY AmountTypes
  <1>2. rows[n].user \in Users /\ rows[n].amount \in Nat /\ f[n] = rows[n].amount
    BY <1>1 DEF JackpotRow, Amounts
  <1>3. /\ IsFiniteSet(A) /\ (\A m \in A : f[m] \in Int) /\ (n \in A <=> rows[n].user = u)
        /\ {m \in S \ {n} : rows[m].user = u} = A \ {n}
    BY <1>1, FS_Subset
  <1>4. AmountIn(rows, S, u) = SumFunctionOnSet(f, A) /\ AmountIn(rows, S \ {n}, u) = SumFunctionOnSet(f, A \ {n})
    BY <1>3, Zenon DEF AmountIn
  <1> HIDE DEF A, f
  <1>5. SumFunctionOnSet(f, A) = SumFunctionOnSet(f, A \ {n}) + (IF n \in A THEN f[n] ELSE 0)
    BY <1>3, SumSplits
  <1>6. AmountIn(rows, S, u) = AmountIn(rows, S \ {n}, u) + (IF rows[n].user = u THEN rows[n].amount ELSE 0)
    BY <1>2, <1>3, <1>4, <1>5
  <1> QED
    BY <1>1, <1>2, <1>6

\* The winners are read, paid one after the other, and the last one was.
LEMMA JackpotPays ==
  ASSUME Serial, NEW h \in Slots, Alone(h), UNCHANGED <<wheelVars, cached, coinVars>>,
         JackpotFindWinners(h) \/ JackpotPay(h) \/ Processed(h)
  PROVE  Keeps(h)
  <1> USE DEF Typed
  <1> DEFINE j == pc[h]
             bs == jackpotBets
  <1>1. /\ Types /\ Types' /\ j \in Job /\ j.at \in {"jwinners", "jpay"} /\ j.fruit \in Fruits
        /\ pc \in Jobs /\ (\A u \in Users : credit[u] \in Int) /\ bs \in Seq(JackpotRow)
        /\ JackpotMultiplier[j.fruit] \in Nat
    <2>1. j \in Job /\ j.at \in {"jwinners", "jpay"}
      BY DEF Serial, Types, PcTypes, JackpotFindWinners, JackpotPay, Processed
    <2>2. j.fruit \in Fruits
      BY <2>1, JobsByTag DEF JWinners, JPay
    <2> QED
      BY <2>1, <2>2, JackpotConstants DEF Serial, Alone, Types, StoreTypes, JackpotTypes
  <1>2. jackpotBets' = bs /\ jackpotResults' = jackpotResults
    BY DEF JackpotFindWinners, JackpotPay, Processed, jackpotVars
  <1>3. /\ OneRowEach' /\ Claims' /\ (credit' = credit => Solvent')
        /\ UNCHANGED <<bets, results, payments, granted, cached>>
    BY <1>1, JackpotOrder DEF CoinTags
  <1>4. BooksStay
    BY <1>2, <1>3 DEF BooksStay
  <1>5. CASE JackpotFindWinners(h)
    <2> DEFINE W == BetsOn(bs, j.round, j.fruit)
    <2>1. /\ j.at = "jwinners" /\ credit' = credit
          /\ pc'[h] = [at |-> "jpay", left |-> W, fruit |-> j.fruit]
      <3>1. Winning(j.round, j.fruit) = W
        BY DEF Winning, BetsOn
      <3> QED
        BY <1>1, <1>5, <3>1, StepsMove DEF JackpotFindWinners
    <2>2. SameHoldings(h)
      <3> SUFFICES ASSUME NEW u \in Users PROVE Holds(h, u)' = Holds(h, u)
        BY DEF SameHoldings
      <3>1. JOwed(pc'[h], bs, u) = JOwed(j, bs, u)
        BY <2>1 DEF JOwed
      <3>2. /\ Due(j, bets, bs, u) = JOwed(j, bs, u)
            /\ Due(pc'[h], bets', jackpotBets', u) = JOwed(pc'[h], jackpotBets', u)
        BY <2>1, DueByTag
      <3> QED
        BY <1>2, <2>1, <3>1, <3>2 DEF Holds
    <2>3. Ready(pc[h])'
      BY <2>1 DEF Ready
    <2> QED
      BY <1>3, <1>4, <2>1, <2>2, <2>3, QuietStep DEF Keeps, Orderly
  <1>6. CASE JackpotPay(h)
    <2>1. j.at = "jpay" /\ j.left \subseteq DOMAIN bs
      BY <1>1, <1>6 DEF JackpotPay, Types, JackpotTypes
    <2>2. PICK n \in j.left : /\ AddCredit(bs[n].user, JackpotMultiplier[j.fruit] * bs[n].amount)
                              /\ Goto(h, [at |-> "jmark", bet |-> n, left |-> j.left \ {n}, fruit |-> j.fruit])
      BY <1>6 DEF JackpotPay
    <2> DEFINE m == JackpotMultiplier[j.fruit]
    <2>3. pc'[h] = [at |-> "jmark", bet |-> n, left |-> j.left \ {n}, fruit |-> j.fruit]
      BY <1>1, <1>6, <2>2, StepsMove DEF JackpotPay
    <2>4. ASSUME NEW u \in Users
          PROVE  /\ AmountIn(bs, j.left, u) = AmountIn(bs, j.left \ {n}, u) + (IF bs[n].user = u THEN bs[n].amount ELSE 0)
                 /\ AmountIn(bs, j.left \ {n}, u) \in Nat /\ bs[n].amount \in Nat /\ bs[n].user \in Users
      BY <1>1, <2>1, AmountWithout
    <2>5. bs[n].amount \in Nat /\ bs[n].user \in Users /\ m * bs[n].amount \in Nat /\ m \in Nat
      <3>1. bs[n].amount \in Nat /\ bs[n].user \in Users
        BY <1>1, <2>1, AmountWithout
      <3> QED
        BY <1>1, <3>1, Products
    <2>6. \A u \in Users : credit'[u] = credit[u] + (IF bs[n].user = u THEN m * bs[n].amount ELSE 0)
      BY <1>1, <2>2, <2>5 DEF AddCredit, Types, StoreTypes
    <2>7. Solvent' /\ Ready(pc[h])'
      <3> HIDE DEF m
      <3>1. Solvent'
        BY <1>1, <1>3, <2>5, <2>6 DEF Solvent, Serial, Orderly
      <3>2. Ready(pc[h])'
        BY <2>3 DEF Ready
      <3> QED
        BY <3>1, <3>2
    <2>8. SameHoldings(h)
      <3> SUFFICES ASSUME NEW u \in Users PROVE Holds(h, u)' = Holds(h, u)
        BY DEF SameHoldings
      <3>1. /\ Due(j, bets, bs, u) = m * AmountIn(bs, j.left, u)
            /\ Due(pc'[h], bets', jackpotBets', u) = m * AmountIn(bs, j.left \ {n}, u)
        <4>1. JOwed(j, bs, u) = m * AmountIn(bs, j.left, u) /\ JOwed(pc'[h], bs, u) = m * AmountIn(bs, j.left \ {n}, u)
          BY <2>1, <2>3 DEF JOwed
        <4> HIDE DEF m
        <4> QED
          BY <1>2, <2>1, <2>3, <4>1, DueByTag
      <3> HIDE DEF m
      <3> DEFINE a == AmountIn(bs, j.left \ {n}, u)
      <3>2. CASE bs[n].user = u
        <4>1. m * AmountIn(bs, j.left, u) = m * a + m * bs[n].amount /\ m * a \in Nat
          <5>1. AmountIn(bs, j.left, u) = a + bs[n].amount /\ a \in Nat
            BY <2>4, <3>2
          <5> HIDE DEF a
          <5> QED
            BY <2>5, <5>1, Products
        <4>2. credit'[u] = credit[u] + m * bs[n].amount /\ credit[u] \in Int /\ m * bs[n].amount \in Nat
          BY <1>1, <2>5, <2>6, <3>2
        <4>3. Holds(h, u) = credit[u] + m * AmountIn(bs, j.left, u) /\ Holds(h, u)' = credit'[u] + m * a
          BY <3>1 DEF Holds
        <4> HIDE DEF a
        <4> QED
          BY <4>1, <4>2, <4>3
      <3>3. CASE bs[n].user # u
        <4>1. m * AmountIn(bs, j.left, u) = m * a
          <5>1. AmountIn(bs, j.left, u) = a + 0 /\ a \in Nat
            BY <2>4, <3>3
          <5> HIDE DEF a
          <5>2. AmountIn(bs, j.left, u) = a
            BY <5>1
          <5> QED
            BY <5>2
        <4> QED
          BY <1>1, <2>6, <3>1, <3>3, <4>1 DEF Holds
      <3> QED
        BY <3>2, <3>3
    <2> QED
      BY <1>3, <1>4, <2>7, <2>8, QuietStep DEF Keeps, Orderly
  <1>7. CASE Processed(h)
    <2>1. j.at = "jpay" /\ j.left = {} /\ pc'[h] = Idle /\ credit' = credit
      BY <1>1, <1>7, StepsMove DEF Processed
    <2>2. SameHoldings(h)
      <3> SUFFICES ASSUME NEW u \in Users PROVE Holds(h, u)' = Holds(h, u)
        BY DEF SameHoldings
      <3>1. AmountIn(bs, j.left, u) = 0
        <4>1. {n \in j.left : bs[n].user = u} = {}
          BY <2>1
        <4> QED
          BY <4>1, SumOfNone DEF AmountIn
      <3>2. JOwed(j, bs, u) = 0
        <4>1. JackpotMultiplier[j.fruit] * 0 = 0
          BY <1>1
        <4> QED
          BY <2>1, <3>1, <4>1 DEF JOwed
      <3>3. Due(j, bets, bs, u) = 0 /\ Due(pc'[h], bets', jackpotBets', u) = 0
        BY <2>1, <3>2, DueByTag DEF FreeTags, Idle
      <3> QED
        BY <2>1, <3>3 DEF Holds
    <2>3. Ready(pc[h])'
      BY <2>1, IdleIsReady DEF Idle
    <2> QED
      BY <1>3, <1>4, <2>1, <2>2, <2>3, QuietStep DEF Keeps, Orderly
  <1> QED
    BY <1>5, <1>6, <1>7

\* Marking a bet changes no stake.
LEMMA JackpotMarks ==
  ASSUME Serial, NEW h \in Slots, Alone(h), UNCHANGED <<wheelVars, cached, coinVars>>, JackpotMark(h)
  PROVE  Keeps(h)
  <1> USE DEF Typed
  <1> DEFINE j == pc[h]
             bs == jackpotBets
  <1>1. Types /\ j \in Job /\ j.at = "jmark"
    BY DEF Serial, Types, PcTypes, JackpotMark
  <1>2. /\ pc'[h] = [at |-> "jpay", left |-> j.left, fruit |-> j.fruit] /\ credit' = credit
        /\ jackpotResults' = jackpotResults
    BY <1>1, StepsMove DEF JackpotMark
  <1>3. OneRowEach' /\ Claims' /\ Solvent' /\ UNCHANGED <<bets, results, granted>>
    BY <1>1, <1>2, JackpotOrder DEF CoinTags
  <1>4. /\ DOMAIN jackpotBets' = DOMAIN bs /\ j.left \subseteq DOMAIN bs
        /\ \A n \in DOMAIN bs : /\ jackpotBets'[n].user = bs[n].user /\ jackpotBets'[n].round = bs[n].round
                                /\ jackpotBets'[n].choice = bs[n].choice /\ jackpotBets'[n].amount = bs[n].amount
    <2>1. jackpotBets' = [bs EXCEPT ![j.bet] = [bs[j.bet] EXCEPT !.isWinner = TRUE]]
      BY DEF JackpotMark
    <2>2. j.bet \in DOMAIN bs /\ j.left \subseteq DOMAIN bs /\ \A n \in DOMAIN bs : bs[n] \in JackpotRow
      BY <1>1 DEF Types, JackpotTypes
    <2> QED
      BY <2>1, <2>2 DEF JackpotRow
  <1>5. Amounts(jackpotBets') = Amounts(bs)
    BY <1>4 DEF Amounts
  <1>6. ASSUME NEW S, S \subseteq DOMAIN bs, NEW u
        PROVE  AmountIn(jackpotBets', S, u) = AmountIn(bs, S, u)
    <2>1. {n \in S : jackpotBets'[n].user = u} = {n \in S : bs[n].user = u}
      BY <1>4, <1>6
    <2> QED
      BY <1>5, <2>1, Zenon DEF AmountIn
  <1>7. SameStakes
    <2> SUFFICES ASSUME NEW u \in Users, NEW k \in {"wheel", "jackpot"}, NEW q \in AllRounds, NEW f \in Fruits
                 PROVE  StakeAt(bets', jackpotBets', u, k, q, f) = StakeAt(bets, bs, u, k, q, f)
      BY DEF SameStakes, Spots, OnBooks
    <2>1. BetsOn(jackpotBets', q, f) = BetsOn(bs, q, f) /\ BetsOn(bs, q, f) \subseteq DOMAIN bs
      BY <1>4 DEF BetsOn
    <2>2. AmountIn(jackpotBets', BetsOn(jackpotBets', q, f), u) = AmountIn(bs, BetsOn(bs, q, f), u)
      BY <1>6, <2>1
    <2> QED
      BY <1>3, <2>2 DEF StakeAt
  <1>8. SameHoldings(h)
    <2> SUFFICES ASSUME NEW u \in Users PROVE Holds(h, u)' = Holds(h, u)
      BY DEF SameHoldings
    <2>1. JOwed(pc'[h], jackpotBets', u) = JOwed(j, bs, u)
      BY <1>1, <1>2, <1>4, <1>6 DEF JOwed
    <2>2. /\ Due(j, bets, bs, u) = JOwed(j, bs, u)
          /\ Due(pc'[h], bets', jackpotBets', u) = JOwed(pc'[h], jackpotBets', u)
      BY <1>1, <1>2, DueByTag
    <2> QED
      BY <1>2, <2>1, <2>2 DEF Holds
  <1>9. Ready(pc[h])'
    BY <1>2 DEF Ready
  <1>10. [Promise!Next]_(Promise!lvars)
    <2>1. SameOutcomes /\ SameGrants
      BY <1>2, <1>3 DEF SameOutcomes, SameGrants
    <2> QED
      BY <1>7, <1>8, <2>1, NothingHappens
  <1> QED
    BY <1>3, <1>9, <1>10 DEF Keeps, Orderly

LEMMA JackpotKeeps ==
  ASSUME Serial, NEW h \in Slots, Alone(h), UNCHANGED <<wheelVars, cached, coinVars>>, JackpotStep(h)
  PROVE  Keeps(h)
  BY JackpotReads, JackpotDebits, JackpotFiles, JackpotSettles, JackpotPays, JackpotMarks DEF JackpotStep

-----------------------------------------------------------------------------
\* Every purchase recorded as often as it was added, but the one on the way to its record.
LEMMA ClaimsAre ==
  ASSUME Serial, NEW h \in Slots, OnlyOne(h)
  PROVE  \A t \in Transactions : granted[t] = payments[t] \/ (pc[h].at = "record" /\ pc[h].tx = t)
  <1>1. \A k \in Slots : pc[k].at = "record" => k = h
    BY DEF OnlyOne, Idle
  <1> QED
    BY <1>1 DEF Serial, Orderly, Claims

\* Purchases that begin, end or look at what is there.
LEMMA CoinLooks ==
  ASSUME Serial, NEW h \in Slots, Alone(h), UNCHANGED <<wheelVars, jackpotVars>>, CacheUsed = FALSE,
         (\E t \in Transactions : Authenticate(h, t)) \/ PutUser(h) \/ CheckDuplicate(h) \/ Verify(h)
  PROVE  Keeps(h)
  <1> USE DEF Typed
  <1>1. Types /\ pc[h] \in Job /\ Ready(pc[h]) /\ (\A u \in Users : cached[u] = None)
    BY DEF Serial, Types, PcTypes, Orderly, Solvent
  <1>11. ~ PutUser(h)
    BY <1>1 DEF PutUser, Ready
  <1>2. UNCHANGED <<cached, payments>> /\ BooksStay
    BY <1>11 DEF Authenticate, CheckDuplicate, Verify, coinVars, wheelVars, jackpotVars, BooksStay
  <1>3. ASSUME NEW t \in Transactions, Authenticate(h, t)
        PROVE  pc[h].at = "idle" /\ pc'[h].at \in CoinTags /\ credit' = credit /\ Ready(pc[h])'
    <2>1. cached[Buyer[t]] = None
      BY <1>1, CoinConstants
    <2>2. Begin(h, [at |-> "check", tx |-> t, seen |-> credit[Buyer[t]]])
      BY <1>3, <2>1 DEF Authenticate
    <2>3. /\ pc[h] = Idle /\ credit' = credit
          /\ pc'[h] = [at |-> "check", tx |-> t, seen |-> credit[Buyer[t]]]
      BY <1>1, <2>2, StepsMove
    <2>4. Ready(pc[h])'
      BY <2>3 DEF Ready
    <2> QED
      BY <2>3, <2>4 DEF Idle, CoinTags
  <1>4. ASSUME CheckDuplicate(h)
        PROVE  pc[h].at = "check" /\ pc'[h].at \in {"idle", "verify"} /\ credit' = credit /\ Ready(pc[h])'
    <2>1. pc[h] \in CoinJob /\ pc[h].at = "check"
      BY <1>1, <1>4, JobsByTag DEF CheckDuplicate, CoinTags
    <2>2. CASE payments[pc[h].tx] > 0
      BY <1>1, <1>4, <2>1, <2>2, StepsMove, IdleIsReady DEF CheckDuplicate, Idle
    <2>3. CASE ~ (payments[pc[h].tx] > 0)
      <3>1. pc'[h] = [pc[h] EXCEPT !.at = "verify"] /\ credit' = credit
        BY <1>1, <1>4, <2>3, StepsMove DEF CheckDuplicate
      <3>2. pc'[h].at = "verify" /\ pc'[h].tx = pc[h].tx /\ pc'[h].seen = pc[h].seen /\ pc[h].tx \in Transactions
        BY <2>1, <3>1 DEF CoinJob
      <3>3. payments'[pc[h].tx] = 0
        BY <1>1, <1>2, <2>3, <3>2 DEF Types, CoinTypes
      <3>4. Ready(pc[h])'
        BY <1>1, <2>1, <3>1, <3>2, <3>3 DEF Ready
      <3> QED
        BY <2>1, <3>1, <3>2, <3>4
    <2> QED
      BY <2>2, <2>3
  <1>5. ASSUME Verify(h)
        PROVE  pc[h].at = "verify" /\ pc'[h].at \in {"idle", "grant"} /\ credit' = credit /\ Ready(pc[h])'
    <2>1. pc[h] \in CoinJob /\ pc[h].at = "verify"
      BY <1>1, <1>5, JobsByTag DEF Verify, CoinTags
    <2>2. CASE pc[h].tx \notin Genuine
      BY <1>1, <1>5, <2>1, <2>2, StepsMove, IdleIsReady DEF Verify, Idle
    <2>3. CASE pc[h].tx \in Genuine
      <3>1. pc'[h] = [pc[h] EXCEPT !.at = "grant"] /\ credit' = credit
        BY <1>1, <1>5, <2>3, StepsMove DEF Verify
      <3>2. pc'[h].at = "grant" /\ pc'[h].tx = pc[h].tx /\ pc'[h].seen = pc[h].seen
        BY <2>1, <3>1 DEF CoinJob
      <3>3. Ready(pc[h])'
        BY <1>1, <1>2, <2>1, <3>1, <3>2 DEF Ready
      <3> QED
        BY <2>1, <3>1, <3>2, <3>3
    <2> QED
      BY <2>2, <2>3
  <1>6. /\ pc[h].at \in {"idle", "check", "verify"} /\ pc'[h].at \in {"idle"} \cup CoinTags
        /\ credit' = credit /\ Ready(pc[h])'
    BY <1>3, <1>4, <1>5, <1>11 DEF CoinTags
  <1>7. SameHoldings(h)
    <2>1. pc[h].at \in FreeTags /\ pc'[h].at \in FreeTags
      BY <1>6 DEF FreeTags, CoinTags
    <2> QED
      BY <1>6, <2>1, FreeStep
  <1>8. Solvent' /\ OneRowEach'
    BY <1>2, <1>6 DEF BooksStay, Serial, Orderly, Solvent, OneRowEach, Rows
  <1>9. Claims'
    <2>1. OnlyOne(h)
      BY DEF Alone
    <2>2. \A t \in Transactions : granted[t] = payments[t]
      BY <1>6, <2>1, ClaimsAre
    <2> QED
      BY <1>2, <2>2 DEF Claims, BooksStay
  <1> QED
    BY <1>2, <1>6, <1>7, <1>8, <1>9, QuietStep DEF Keeps, Orderly

\* The coins are added: the copy is the credit, and they were not before.
LEMMA CoinGrants ==
  ASSUME Serial, NEW h \in Slots, Alone(h), UNCHANGED <<wheelVars, jackpotVars>>, Grant(h)
  PROVE  Keeps(h)
  <1> USE DEF Typed
  <1> DEFINE j == pc[h]
             t == pc[h].tx
  <1>1. /\ Types /\ j \in CoinJob /\ Ready(j) /\ j.at = "grant" /\ OnlyOne(h)
        /\ t \in Transactions /\ Buyer[t] \in Users /\ Coins[t] \in Nat
    <2>1. Types /\ j \in CoinJob /\ Ready(j) /\ j.at = "grant" /\ OnlyOne(h)
      BY JobsByTag DEF Serial, Alone, Types, PcTypes, Grant, CoinTags
    <2> QED
      BY <2>1, CoinConstants DEF CoinJob
  <1>2. UNCHANGED <<cached, payments, bets, results, jackpotBets, jackpotResults>>
    BY ForgetsNobody DEF Forgets, Grant, wheelVars, jackpotVars
  <1>3. pc'[h].at = "record" /\ pc'[h].tx = t
    <2>1. pc'[h] = [j EXCEPT !.at = "record"]
      BY <1>1, StepsMove DEF Grant
    <2> QED
      BY <1>1, <2>1 DEF CoinJob
  <1>4. /\ granted[t] = 0 /\ payments[t] = 0
        /\ granted' = [granted EXCEPT ![t] = 1] /\ granted'[t] = 1
        /\ \A s \in Transactions : granted[s] = payments[s] /\ (s # t => granted'[s] = granted[s])
    <2>1. \A s \in Transactions : granted[s] = payments[s]
      BY <1>1, ClaimsAre
    <2>2. payments[t] = 0
      BY <1>1 DEF Ready
    <2>3. granted' = [granted EXCEPT ![t] = granted[t] + 1] /\ granted \in [Transactions -> Nat]
      BY <1>1 DEF Grant, Types, CoinTypes
    <2>4. granted[t] = 0 /\ granted[t] + 1 = 1
      BY <1>1, <2>1, <2>2
    <2>5. granted' = [granted EXCEPT ![t] = 1]
      BY <2>3, <2>4, Zenon
    <2>6. granted'[t] = 1 /\ \A s \in Transactions : s # t => granted'[s] = granted[s]
      BY <1>1, <2>3, <2>5
    <2> QED
      BY <2>1, <2>2, <2>4, <2>5, <2>6
  <1>5. \A u \in Users : /\ credit'[u] = credit[u] + (IF u = Buyer[t] THEN Coins[t] ELSE 0)
                         /\ credit[u] \in Int /\ credit[u] >= 0
    <2>1. credit' = [credit EXCEPT ![Buyer[t]] = credit[Buyer[t]] + Coins[t]] /\ credit \in [Users -> Int]
      BY <1>1 DEF Grant, Ready, Types, StoreTypes
    <2>2. \A u \in Users : credit[u] >= 0
      BY DEF Serial, Orderly, Solvent
    <2> QED
      BY <1>1, <2>1, <2>2
  <1>6. Solvent' /\ OneRowEach'
    <2>1. \A u \in Users : credit'[u] >= 0
      <3> HIDE DEF t
      <3> QED
        BY <1>1, <1>5
    <2> QED
      BY <1>2, <2>1 DEF Serial, Orderly, Solvent, OneRowEach, Rows
  <1>7. Claims'
    BY <1>2, <1>3, <1>4 DEF Claims
  <1>8. Ready(pc[h])'
    BY <1>2, <1>3, <1>4 DEF Ready
  <1>9. \A u \in Users : Holds(h, u)' = Holds(h, u) + (IF u = Buyer[t] THEN Coins[t] ELSE 0)
    <2> SUFFICES ASSUME NEW u \in Users
                 PROVE  Holds(h, u)' = Holds(h, u) + (IF u = Buyer[t] THEN Coins[t] ELSE 0)
      OBVIOUS
    <2>1. Due(j, bets, jackpotBets, u) = 0 /\ Due(pc'[h], bets', jackpotBets', u) = 0
      BY <1>1, <1>3, DueByTag DEF FreeTags, CoinTags
    <2> HIDE DEF t
    <2> QED
      BY <1>1, <1>5, <2>1 DEF Holds
  <1>10. Promise!Next
    <2>1. SameOutcomes /\ SameStakes
      BY <1>2 DEF SameOutcomes, SameStakes
    <2> HIDE DEF j, t
    <2> QED
      BY <1>1, <1>4, <1>9, <2>1, PurchaseHappens
  <1> QED
    BY <1>6, <1>7, <1>8, <1>10 DEF Keeps, Orderly

LEMMA CoinRecords ==
  ASSUME Serial, NEW h \in Slots, Alone(h), UNCHANGED <<wheelVars, jackpotVars>>, Record(h)
  PROVE  Keeps(h)
  <1> USE DEF Typed
  <1> DEFINE j == pc[h]
             t == pc[h].tx
  <1>1. /\ Types /\ j \in CoinJob /\ Ready(j) /\ j.at = "record" /\ OnlyOne(h) /\ t \in Transactions
    <2>1. Types /\ j \in CoinJob /\ Ready(j) /\ j.at = "record" /\ OnlyOne(h)
      BY JobsByTag DEF Serial, Alone, Types, PcTypes, Record, CoinTags
    <2> QED
      BY <2>1 DEF CoinJob
  <1>2. BooksStay /\ cached' = cached /\ credit' = credit /\ pc'[h] = Idle
    BY <1>1, StepsMove DEF Record, wheelVars, jackpotVars, BooksStay
  <1>3. Solvent' /\ OneRowEach'
    BY <1>2 DEF BooksStay, Serial, Orderly, Solvent, OneRowEach, Rows
  <1>4. \A s \in Transactions : granted'[s] = payments'[s]
    <2>1. /\ \A s \in Transactions : s # t => granted[s] = payments[s]
          /\ granted[t] = payments[t] + 1
      BY <1>1, ClaimsAre DEF Ready
    <2>2. payments' = [payments EXCEPT ![t] = payments[t] + 1] /\ payments \in [Transactions -> Nat]
      BY <1>1 DEF Record, Types, CoinTypes
    <2> QED
      BY <1>1, <1>2, <2>1, <2>2 DEF BooksStay
  <1>5. SameHoldings(h)
    <2>1. pc[h].at \in FreeTags /\ pc'[h].at \in FreeTags
      BY <1>1, <1>2 DEF FreeTags, CoinTags, Idle
    <2> QED
      BY <1>2, <2>1, FreeStep
  <1>6. Ready(pc[h])'
    BY <1>2, IdleIsReady DEF Idle
  <1>7. Claims'
    BY <1>4 DEF Claims
  <1> QED
    BY <1>2, <1>3, <1>5, <1>6, <1>7, QuietStep DEF Keeps, Orderly

LEMMA CoinKeeps ==
  ASSUME Serial, NEW h \in Slots, Alone(h), UNCHANGED <<wheelVars, jackpotVars>>, CacheUsed = FALSE, CoinStep(h)
  PROVE  Keeps(h)
  BY CoinLooks, CoinGrants, CoinRecords DEF CoinStep

\* Following costs nothing.
LEMMA FollowKeeps ==
  ASSUME Serial, NEW h \in Slots, Alone(h), UNCHANGED <<wheelVars, jackpotVars, cached, coinVars>>, FollowStep(h)
  PROVE  Keeps(h)
  <1> USE DEF Typed
  <1>1. Types /\ pc[h] \in Job
    BY DEF Serial, Types, PcTypes
  <1>2. UNCHANGED <<cached, payments>> /\ BooksStay
    BY DEF wheelVars, jackpotVars, coinVars, BooksStay
  <1>3. ASSUME NEW o, NEW p, BeginFollow(h, o, p)
        PROVE  pc[h].at = "idle" /\ pc'[h].at = "author" /\ credit' = credit
    BY <1>1, <1>3, StepsMove DEF BeginFollow, Idle
  <1>4. ASSUME SaveAuthor(h)
        PROVE  pc[h].at = "author" /\ pc'[h].at = "receiver" /\ credit' = credit
    <2>1. pc[h] \in FollowJob /\ pc[h].at = "author"
      BY <1>1, <1>4, JobsByTag DEF SaveAuthor, FollowTags
    <2>2. pc'[h] = [pc[h] EXCEPT !.at = "receiver"] /\ credit' = credit
      BY <1>1, <1>4, StepsMove DEF SaveAuthor
    <2> QED
      BY <2>1, <2>2 DEF FollowJob
  <1>5. ASSUME SaveReceiver(h)
        PROVE  pc[h].at = "receiver" /\ pc'[h].at = "idle" /\ credit' = credit
    BY <1>1, <1>5, StepsMove DEF SaveReceiver, Idle
  <1>6. pc[h].at \in {"idle"} \cup FollowTags /\ pc'[h].at \in {"idle"} \cup FollowTags /\ credit' = credit
    BY <1>3, <1>4, <1>5 DEF FollowStep, FollowUser, UnfollowUser, FollowTags
  <1>7. pc[h].at \in FreeTags \ CoinTags /\ pc'[h].at \in FreeTags
    BY <1>6 DEF FreeTags, FollowTags, CoinTags
  <1>8. Ready(pc[h])'
    BY <1>6 DEF Ready, FollowTags
  <1> QED
    BY <1>2, <1>6, <1>7, <1>8, FreeKeeps

-----------------------------------------------------------------------------
\* The slot of a step has a job before it or after it.
LEMMA StepsHaveJobs ==
  ASSUME Types, NEW h \in Slots, WheelStep(h) \/ JackpotStep(h) \/ CoinStep(h) \/ FollowStep(h)
  PROVE  pc[h] # Idle \/ pc'[h] # Idle
  <1>1. ASSUME pc[h] = Idle
        PROVE  pc'[h].at # "idle"
    <2>1. pc[h].at = "idle"
      BY <1>1 DEF Idle
    <2>2. CASE WheelStep(h)
      <3>1. GameInfo(h) \/ \E u \in Users : GameReset(h, u) \/ \E f \in Fruits, g \in Gold : GameChoice(h, u, f, g)
        BY <2>1, <2>2 DEF WheelStep, FetchBalance, Debit, FindBet, InsertBet, RaiseBet,
                          SaveResult, FindWinners, PayWinner, RecordRound, DestroyBet, DestroyFails, ZeroProfit
      <3> QED
        BY <3>1, WheelTransitions
    <2>3. CASE JackpotStep(h)
      <3>1. ProcessRound(h) \/ \E u \in Users, f \in Fruits, g \in Gold : JackpotBet(h, u, f, g)
        BY <2>1, <2>3 DEF JackpotStep, JackpotFetchBalance, JackpotDebit, JackpotFile,
                          JackpotSaveResult, JackpotFindWinners, JackpotPay, JackpotMark, Processed
      <3> QED
        BY <3>1, JackpotTransitions
    <2>4. CASE CoinStep(h)
      <3>1. PICK t \in Transactions : Authenticate(h, t)
        BY <2>1, <2>4 DEF CoinStep, PutUser, CheckDuplicate, Verify, Grant, Record
      <3>2. \E at \in {"keep", "check"} : \E seen : Begin(h, [at |-> at, tx |-> t, seen |-> seen])
        BY <3>1 DEF Authenticate
      <3> QED
        BY <3>2, StepsMove
    <2>5. CASE FollowStep(h)
      <3>1. PICK p \in Pairs : FollowUser(h, p[1], p[2]) \/ UnfollowUser(h, p[1], p[2])
        BY <2>1, <2>5 DEF FollowStep, SaveAuthor, SaveReceiver
      <3>2. \E o, q : Begin(h, [at |-> "author", op |-> o, pair |-> q])
        BY <3>1 DEF FollowUser, UnfollowUser, BeginFollow
      <3> QED
        BY <3>2, StepsMove
    <2> QED
      BY <2>2, <2>3, <2>4, <2>5
  <1> QED
    BY <1>1 DEF Idle

\* Without failures, what is left leaves the requests and the books alone.
Still ==
  /\ UNCHANGED <<pc, credit, bets, results, staked, paid, jackpotVars, payments, granted>>
  /\ \A u \in Users : cached'[u] \in {cached[u], None}

LEMMA StepKindsSerial ==
  ASSUME Types, [Next]_vars, Failures = FALSE
  PROVE  \/ \E h \in Slots : WheelStep(h) /\ UNCHANGED <<jackpotVars, coinVars, followVars>> /\ Forgets
         \/ \E h \in Slots : JackpotStep(h) /\ UNCHANGED <<wheelVars, coinVars, followVars>> /\ Forgets
         \/ \E h \in Slots : CoinStep(h) /\ UNCHANGED <<wheelVars, jackpotVars, followVars>>
         \/ \E h \in Slots : FollowStep(h) /\ UNCHANGED <<wheelVars, jackpotVars, coinVars>> /\ Forgets
         \/ Still
  <1>1. ASSUME NEW u \in Users, Expire(u), UNCHANGED <<wheelVars, jackpotVars, followVars>>
        PROVE  Still
    BY <1>1 DEF Still, Expire, shared, wheelVars, coinVars, Types, CoinTypes
  <1>2. ASSUME ResetStats, UNCHANGED <<jackpotVars, cached, coinVars, followVars>>
        PROVE  Still
    BY <1>2 DEF Still, ResetStats, shared, coinVars
  <1>3. ASSUME Tick, UNCHANGED <<wheelVars, jackpotVars, cached, coinVars, followVars>>
        PROVE  Still
    BY <1>3 DEF Still, Tick, wheelVars, coinVars
  <1>4. ASSUME UNCHANGED vars
        PROVE  Still
    BY <1>4 DEF Still, vars, shared, wheelVars, coinVars
  <1> QED
    BY <1>1, <1>2, <1>3, <1>4 DEF Next, Games, Others, CallFails, Restart, Forgets

\* The part of the order that any step keeps.
LEMMA SerialStays ==
  ASSUME Serial, [Next]_vars
  PROVE  Typed' /\ RaisesMatch' /\ SettledAfterClose' /\ DrawsAreLate' /\ RoundsAreOver'
  <1>1. Types' /\ Typed
    BY StepTyped DEF Serial, Typed
  <1>2. Typed'
    BY <1>1, WinnersStayFinite DEF Typed
  <1> QED
    BY <1>1, <1>2, RaisesStay, DrawsStayLate, RoundsStayOver DEF Serial, Typed

LEMMA StillKeeps ==
  ASSUME Serial, [Next]_vars, Still
  PROVE  Serial' /\ UNCHANGED Promise!lvars
  <1>1. Orderly'
    BY DEF Still, Serial, Orderly, Solvent, OneRowEach, Rows, Claims
  <1>2. \A h \in Slots : Ready(pc[h])'
    <2>1. /\ UNCHANGED <<pc, credit, bets, results, jackpotResults, payments, granted>>
          /\ \A h \in Slots : Ready(pc[h])
      BY DEF Still, jackpotVars, Serial
    <2> QED
      BY <2>1 DEF Ready, Place, RowsOf, RowsOfUser, Rows
  <1>3. UNCHANGED Promise!lvars
    <2>1. UNCHANGED <<pc, credit, bets, results, jackpotBets, jackpotResults, granted>>
      BY DEF Still, jackpotVars
    <2>2. Balances' = Balances
      BY <2>1 DEF Balances, WheelDebited, WheelOwed, JackpotDebited, JackpotOwed, GoldOf, RowsOf, Rows, AmountOf, Winning
    <2>3. Stakes' = Stakes
      BY <2>1 DEF Stakes, GoldOf, RowsOf, Rows, JackpotStake, AmountOf, Winning
    <2>4. Outcomes' = Outcomes /\ Bought' = Bought
      BY <2>1 DEF Outcomes, Bought
    <2> QED
      BY <2>2, <2>3, <2>4 DEF Promise!lvars
  <1> QED
    BY <1>1, <1>2, <1>3, SerialStays DEF Serial

\* A step of one request, with no other before it or after it.
LEMMA StepKeeps ==
  ASSUME Serial, [Next]_vars, OneAtATime, OneAtATime', NEW h \in Slots, CacheUsed = FALSE,
         \/ WheelStep(h) /\ UNCHANGED <<jackpotVars, coinVars, followVars>> /\ Forgets
         \/ JackpotStep(h) /\ UNCHANGED <<wheelVars, coinVars, followVars>> /\ Forgets
         \/ CoinStep(h) /\ UNCHANGED <<wheelVars, jackpotVars, followVars>>
         \/ FollowStep(h) /\ UNCHANGED <<wheelVars, jackpotVars, coinVars>> /\ Forgets
  PROVE  Serial' /\ [Promise!Next]_(Promise!lvars)
  <1>1. Types /\ Moves(h)
    <2>1. Types
      BY DEF Serial, Typed
    <2> QED
      BY <2>1, WheelTyped, JackpotTyped, CoinTyped, FollowTyped
  <1>2. \A k \in Slots : k # h => pc'[k] = pc[k]
    BY <1>1 DEF Moves, Types, PcTypes
  <1>3. OnlyOne(h) /\ OnlyOne(h)'
    <2>1. pc[h] # Idle \/ pc'[h] # Idle
      BY <1>1, StepsHaveJobs
    <2>2. OnlyOne(h) \/ OnlyOne(h)'
      BY <2>1 DEF OneAtATime
    <2> QED
      BY <1>2, <2>2 DEF OnlyOne
  <1>4. Alone(h)
    BY <1>3, SerialStays DEF Alone, Serial
  <1>7. Forgets => cached' = cached
    BY ForgetsNobody
  <1>5. Keeps(h)
    BY <1>4, <1>7, WheelKeeps, JackpotKeeps, CoinKeeps, FollowKeeps
  <1>6. ASSUME NEW k \in Slots
        PROVE  Ready(pc[k])'
    <2>1. CASE k = h
      BY <1>5, <2>1 DEF Keeps
    <2>2. CASE k # h
      BY <1>3, <2>2, IdleIsReady DEF OnlyOne, Idle
    <2> QED
      BY <2>1, <2>2
  <1> QED
    BY <1>5, <1>6, SerialStays DEF Keeps, Serial

LEMMA SerialAtStart == Init => Serial /\ OneAtATime /\ Promise!Init
  <1> SUFFICES ASSUME Init PROVE Serial /\ OneAtATime /\ Promise!Init
    OBVIOUS
  <1>1. \A h \in Slots : pc[h] = Idle /\ pc[h].at = "idle"
    BY DEF Init, StoreInit, Idle
  <1>2. Typed
    BY InitTyped, JobsAtStart DEF Typed
  <1>3. /\ \A b \in BetIds : bets[b] = None
        /\ \A r \in WheelRounds : results[r] = <<>>
        /\ jackpotBets = <<>>
        /\ \A r \in JackpotRounds : jackpotResults[r] = <<>>
        /\ \A u \in Users : credit[u] = StartCredit /\ cached[u] = None
        /\ \A t \in Transactions : payments[t] = 0 /\ granted[t] = 0
    BY DEF Init, StoreInit, WheelInit, JackpotInit, CoinInit
  <1>4. Serial
    <2>1. RaisesMatch /\ SettledAfterClose /\ DrawsAreLate /\ RoundsAreOver
      BY <1>1, <1>3 DEF RaisesMatch, SettledAfterClose, DrawsAreLate, RoundsAreOver
    <2>2. Orderly
      BY <1>3, StoreConstants DEF Orderly, Solvent, OneRowEach, Rows, Claims
    <2>3. \A h \in Slots : Ready(pc[h])
      BY <1>1 DEF Ready
    <2> QED
      BY <1>2, <2>1, <2>2, <2>3 DEF Serial
  <1>5. OneAtATime
    BY <1>1 DEF OneAtATime
  <1>6. Balances = [u \in Users |-> StartCredit]
    <2>1. ASSUME NEW u \in Users
          PROVE  WheelDebited(u) = 0 /\ WheelOwed(u) = 0 /\ JackpotDebited(u) = 0 /\ JackpotOwed(u) = 0
      <3>1. WheelDebited(u) = 0 /\ JackpotDebited(u) = 0
        BY TotalsAtStart
      <3>2. ASSUME NEW S, S = {}, NEW f
            PROVE  SumFunction([h \in S |-> f[h]]) = 0
        <4>1. DOMAIN [h \in S |-> f[h]] = {}
          BY <3>2
        <4> QED
          BY <4>1, SumOfNone DEF SumFunction
      <3>3. WheelOwed(u) = 0
        <4> DEFINE S == {k \in Slots : pc[k].at \in {"winners", "pay"}}
                   g == [h \in S |-> WheelMultiplier[pc[h].fruit] *
                          IF pc[h].at = "winners" THEN GoldOf(RowsOf(u, pc[h].round, pc[h].fruit)) ELSE WinningsLeft(pc[h], u)]
        <4>1. WheelOwed(u) = SumFunctionOnSet(g, S)
          BY DEF WheelOwed, SumFunction
        <4>2. S = {}
          BY <1>1
        <4> QED
          BY <4>1, <4>2, SumOfNone
      <3>4. JackpotOwed(u) = 0
        <4> DEFINE Rest(p) == IF p.at = "jwinners" THEN Winning(p.round, p.fruit) ELSE p.left
                   S == {k \in Slots : pc[k].at \in {"jwinners", "jpay", "jmark"}}
                   g == [h \in S |-> JackpotMultiplier[pc[h].fruit] * AmountOf(Rest(pc[h]), u)]
        <4>1. JackpotOwed(u) = SumFunctionOnSet(g, S)
          BY DEF JackpotOwed, SumFunction
        <4>2. S = {}
          BY <1>1
        <4> QED
          BY <4>1, <4>2, SumOfNone
      <3> QED
        BY <3>1, <3>3, <3>4
    <2> QED
      BY <1>3, <2>1, StoreConstants DEF Balances
  <1>7. Stakes = [p \in Users \X {"wheel", "jackpot"} \X AllRounds \X Fruits |-> 0]
    <2>1. \A u, r, f : GoldFiled(bets, u, r, f) = 0
      <3> SUFFICES ASSUME NEW u, NEW r, NEW f PROVE GoldFiled(bets, u, r, f) = 0
        OBVIOUS
      <3>1. RowsIn(bets, u, r, f) = {}
        BY <1>3 DEF RowsIn
      <3> QED
        BY <3>1, SumOfNone, Zenon DEF GoldFiled
    <2>2. \A u, r, f : AmountIn(jackpotBets, BetsOn(jackpotBets, r, f), u) = 0
      <3> SUFFICES ASSUME NEW u, NEW r, NEW f PROVE AmountIn(jackpotBets, BetsOn(jackpotBets, r, f), u) = 0
        OBVIOUS
      <3>1. {n \in BetsOn(jackpotBets, r, f) : jackpotBets[n].user = u} = {}
        BY <1>3 DEF BetsOn
      <3> QED
        BY <3>1, SumOfNone, Zenon DEF AmountIn
    <2>3. StakesAre
      BY <1>2, StakesRead DEF Typed
    <2> QED
      BY <2>1, <2>2, <2>3 DEF StakesAre, StakeAt
  <1>8. Outcomes = [p \in {"wheel", "jackpot"} \X AllRounds |-> None]
    BY <1>3 DEF Outcomes, ResultOf
  <1>9. Bought = {}
    BY <1>3 DEF Bought
  <1> QED
    BY <1>4, <1>5, <1>6, <1>7, <1>8, <1>9 DEF Promise!Init

LEMMA AloneInTheEnd ==
  ASSUME OneAtATime, [SerialNext]_mcvars
  PROVE  [Next]_vars /\ OneAtATime'
  <1>1. [Next]_vars
    BY DEF SerialNext, mcvars
  <1>2. UNCHANGED vars => pc' = pc
    BY DEF vars, shared
  <1>3. pc' = pc => OneAtATime'
    BY DEF OneAtATime, OnlyOne
  <1> QED
    BY <1>1, <1>2, <1>3 DEF SerialNext, mcvars

LEMMA SerialGoesOn ==
  ASSUME Serial, [Next]_vars, OneAtATime, OneAtATime', Failures = FALSE, CacheUsed = FALSE
  PROVE  Serial' /\ [Promise!Next]_(Promise!lvars)
  <1>1. Types
    BY DEF Serial, Typed
  <1>2. CASE Still
    BY <1>2, StillKeeps
  <1>3. CASE ~ Still
    <2>1. PICK h \in Slots :
            \/ WheelStep(h) /\ UNCHANGED <<jackpotVars, coinVars, followVars>> /\ Forgets
            \/ JackpotStep(h) /\ UNCHANGED <<wheelVars, coinVars, followVars>> /\ Forgets
            \/ CoinStep(h) /\ UNCHANGED <<wheelVars, jackpotVars, followVars>>
            \/ FollowStep(h) /\ UNCHANGED <<wheelVars, jackpotVars, coinVars>> /\ Forgets
      BY <1>1, <1>3, StepKindsSerial
    <2> QED
      BY <2>1, StepKeeps
  <1> QED
    BY <1>2, <1>3

\* None of them cut short and no user cache, a bet takes gold from a balance that covers it
\* and counts until it is withdrawn, a round is settled once and pays what is on the books,
\* and the coins of a purchase are added once: the functions implement Ledger.
THEOREM SerialPromise ==
  ASSUME Failures = FALSE, CacheUsed = FALSE
  PROVE  SerialSpec => KeepsPromise /\ SerialKeepsPromise
  <1>1. Init => Serial /\ OneAtATime /\ Promise!Init
    BY SerialAtStart
  <1>2. Serial /\ OneAtATime /\ [SerialNext]_mcvars => (Serial /\ OneAtATime)' /\ [Promise!Next]_(Promise!lvars)
    <2> SUFFICES ASSUME Serial, OneAtATime, [SerialNext]_mcvars
                 PROVE  (Serial /\ OneAtATime)' /\ [Promise!Next]_(Promise!lvars)
      OBVIOUS
    <2>1. [Next]_vars /\ OneAtATime'
      BY AloneInTheEnd
    <2> QED
      BY <2>1, SerialGoesOn, Zenon
  <1>3. [Promise!Next]_(Promise!lvars) => [setting = "serial" => [Promise!Next]_(Promise!lvars)]_mcvars
    OBVIOUS
  <1> QED
    BY <1>1, <1>2, <1>3, PTL DEF SerialSpec, KeepsPromise, Promise!Spec, SerialKeepsPromise
-----------------------------------------------------------------------------
\* What game_info shows.  While no row is deleted, the rows hold what was filed, and the
\* round's first result has been paid for but for what the one request still has to pay.
Undeleted == \A b \in BetIds : bets[b] # Deleted
DrawnFirst(r, f) == results[r] # <<>> /\ Head(results[r]) = f
Unpaid(j, u, r, f) == IF Waits(j, r, f) = 1 THEN GoldFiled(bets, u, r, f) ELSE Left(j, u, r, f)
Exact(j, u, r, f) ==
  /\ staked[<<u, r, f>>] = GoldFiled(bets, u, r, f)
  /\ paid[<<u, r, f>>] + WheelMultiplier[f] * Unpaid(j, u, r, f)
       = IF DrawnFirst(r, f) THEN WheelMultiplier[f] * GoldFiled(bets, u, r, f) ELSE 0
ExactFor(j) == \A u \in Users, r \in WheelRounds, f \in Fruits : Exact(j, u, r, f)
Booked ==
  Undeleted =>
    /\ \A h \in Slots : OnlyOne(h) => ExactFor(pc[h])
    /\ AtRest => ExactFor(Idle)

\* A step that leaves rows, results, stakes and pay alone, of no settlement.
LEMMA AsideExact ==
  ASSUME UNCHANGED <<bets, results, staked, paid>>, NEW j, NEW k,
         j.at \notin {"winners", "pay"}, k.at \notin {"winners", "pay"}, ExactFor(j)
  PROVE  ExactFor(k)'
  <1> SUFFICES ASSUME NEW u \in Users, NEW r \in WheelRounds, NEW f \in Fruits PROVE Exact(k, u, r, f)'
    BY DEF ExactFor
  <1>1. Unpaid(j, u, r, f) = 0 /\ Unpaid(k, u, r, f)' = 0
    BY DEF Unpaid, Waits, Left
  <1>2. Exact(j, u, r, f)
    BY DEF ExactFor
  <1> QED
    BY <1>1, <1>2 DEF Exact, DrawnFirst

LEMMA FilingIsExact ==
  ASSUME Serial, NEW h \in Slots, Alone(h), InsertBet(h) \/ RaiseBet(h), ExactFor(pc[h])
  PROVE  ExactFor(pc[h])'
  <1> SUFFICES ASSUME NEW u \in Users, NEW r \in WheelRounds, NEW f \in Fruits PROVE Exact(pc[h], u, r, f)'
    BY DEF ExactFor
  <1> DEFINE j == pc[h]
             k == pc'[h]
             g == GoldFiled(bets, u, r, f)
  <1>1. Types /\ Types' /\ RaisesMatch /\ Ready(j) /\ j \in Job
    BY DEF Serial, Alone, Typed, Types, PcTypes
  <1>2. /\ UNCHANGED <<results, paid>> /\ j.at \in {"insert", "raise"} /\ k.at = "idle"
    BY <1>1, WheelTransitions DEF InsertBet, RaiseBet
  <1>3. PICK n \in Nat : GoldFiled(bets', u, r, f) = g + n /\ staked'[<<u, r, f>>] = staked[<<u, r, f>>] + n
    BY <1>1, FilingBalances
  <1>4. g \in Nat /\ staked[<<u, r, f>>] \in Nat /\ staked \in [Places -> Nat] /\ <<u, r, f>> \in Places
    BY <1>1, GoldFiledTypes DEF Types, WheelTypes, Table, Places
  <1>5. DrawnFirst(r, f) => GoldFiled(bets', u, r, f) = g
    <2> SUFFICES ASSUME DrawnFirst(r, f) PROVE n = 0
      BY <1>3, <1>4
    <2>1. j.round # r
      BY <1>1, <1>2 DEF Ready, DrawnFirst
    <2>2. Filed(j) \/ staked' = staked
      BY DEF InsertBet, RaiseBet
    <2>3. staked'[<<u, r, f>>] = staked[<<u, r, f>>]
      BY <1>4, <2>1, <2>2 DEF Filed
    <2> QED
      BY <1>3, <1>4, <2>3
  <1>6. Unpaid(j, u, r, f) = 0 /\ Unpaid(pc[h], u, r, f)' = 0
    BY <1>2 DEF Unpaid, Waits, Left
  <1>7. Exact(j, u, r, f)
    BY DEF ExactFor
  <1> HIDE DEF g
  <1>8. g = GoldFiled(bets, u, r, f)
    BY DEF g
  <1>9. staked'[<<u, r, f>>] = GoldFiled(bets', u, r, f)
    BY <1>3, <1>7, <1>8 DEF Exact
  <1>10. (DrawnFirst(r, f)' <=> DrawnFirst(r, f)) /\ paid' = paid
    BY <1>2 DEF DrawnFirst
  <1> QED
    BY <1>5, <1>6, <1>7, <1>8, <1>9, <1>10 DEF Exact

LEMMA SettlingIsExact ==
  ASSUME Serial, NEW h \in Slots, Alone(h), SaveResult(h), ExactFor(pc[h])
  PROVE  ExactFor(pc[h])'
  <1> SUFFICES ASSUME NEW u \in Users, NEW r \in WheelRounds, NEW f \in Fruits PROVE Exact(pc[h], u, r, f)'
    BY DEF ExactFor
  <1> DEFINE j == pc[h]
             g == GoldFiled(bets, u, r, f)
             m == WheelMultiplier[f]
  <1>1. Types /\ Ready(j) /\ j \in Job /\ j.at = "draw" /\ j.round \in WheelRounds
    BY JobsByTag DEF Serial, Alone, Typed, Types, PcTypes, SaveResult, Draw
  <1>2. UNCHANGED <<bets, staked, paid>>
    BY DEF SaveResult
  <1>3. PICK c \in Fruits : /\ results' = [results EXCEPT ![j.round] = Append(@, c)]
                            /\ Continue(h, [at |-> "winners", round |-> j.round, fruit |-> c])
    BY DEF SaveResult
  <1>4. pc'[h] = [at |-> "winners", round |-> j.round, fruit |-> c]
    BY <1>1, <1>3, StepsMove
  <1>5. /\ results[j.round] = <<>> /\ results'[j.round] = <<c>>
        /\ \A q \in WheelRounds : q # j.round => results'[q] = results[q]
    <2>1. results[j.round] = <<>> /\ Append(<<>>, c) = <<c>>
      BY <1>1 DEF Ready
    <2> QED
      BY <1>1, <1>3, <2>1 DEF Types, WheelTypes
  <1>6. DrawnFirst(r, f)' <=> IF r = j.round THEN f = c ELSE DrawnFirst(r, f)
    BY <1>5 DEF DrawnFirst
  <1>7. r = j.round => ~ DrawnFirst(r, f)
    BY <1>5 DEF DrawnFirst
  <1>8. g \in Nat /\ m \in Nat /\ paid[<<u, r, f>>] \in Nat /\ m * 0 = 0
    <2>1. g \in Nat /\ m \in Nat
      BY <1>1, GoldFiledTypes, WheelConstants DEF Types, WheelTypes, Table
    <2>2. paid[<<u, r, f>>] \in Nat
      BY <1>1 DEF Types, WheelTypes, Places
    <2> HIDE DEF g, m
    <2> QED
      BY <2>1, <2>2
  <1>9. Exact(j, u, r, f)
    BY DEF ExactFor
  <1>10. Unpaid(j, u, r, f) = 0
    BY <1>1 DEF Unpaid, Waits, Left
  <1>11. Unpaid(pc[h], u, r, f)' = IF r = j.round /\ f = c THEN g ELSE 0
    BY <1>2, <1>4 DEF Unpaid, Waits, Left
  <1>12. /\ staked[<<u, r, f>>] = g
         /\ paid[<<u, r, f>>] = IF DrawnFirst(r, f) THEN m * g ELSE 0
    BY <1>8, <1>9, <1>10 DEF Exact
  <1>13. /\ staked'[<<u, r, f>>] = GoldFiled(bets', u, r, f) /\ GoldFiled(bets', u, r, f) = g
         /\ paid'[<<u, r, f>>] = paid[<<u, r, f>>]
    BY <1>2, <1>12
  <1> HIDE DEF g
  <1>14. m * g \in Nat
    BY <1>8, Products
  <1> HIDE DEF m
  <1>15. paid'[<<u, r, f>>] + m * Unpaid(pc[h], u, r, f)' = IF DrawnFirst(r, f)' THEN m * g ELSE 0
    <2>1. CASE r = j.round /\ f = c
      BY <1>6, <1>7, <1>8, <1>11, <1>12, <1>13, <1>14, <2>1
    <2>2. CASE ~(r = j.round /\ f = c)
      BY <1>6, <1>7, <1>8, <1>11, <1>12, <1>13, <1>14, <2>2
    <2> QED
      BY <2>1, <2>2
  <1> QED
    BY <1>13, <1>15 DEF Exact, m

LEMMA PayingIsExact ==
  ASSUME Serial, NEW h \in Slots, Alone(h), FindWinners(h) \/ PayWinner(h) \/ RecordRound(h), ExactFor(pc[h])
  PROVE  ExactFor(pc[h])'
  <1> SUFFICES ASSUME NEW u \in Users, NEW r \in WheelRounds, NEW f \in Fruits PROVE Exact(pc[h], u, r, f)'
    BY DEF ExactFor
  <1> DEFINE j == pc[h]
             g == GoldFiled(bets, u, r, f)
             m == WheelMultiplier[f]
             P == paid[<<u, r, f>>]
  <1>1. /\ Types /\ Types' /\ pc \in Jobs /\ pc' \in Jobs /\ j \in Job /\ pc'[h] \in Job
    BY DEF Serial, Alone, Typed, Types, PcTypes
  <1>2. UNCHANGED <<bets, staked, results>>
    BY DEF FindWinners, PayWinner, RecordRound, wheelVars
  <1>3. m \in Nat /\ P \in Nat /\ paid \in [Places -> Nat] /\ <<u, r, f>> \in Places
    BY <1>1, WheelConstants DEF Types, WheelTypes, Places
  <1>4. Exact(j, u, r, f)
    BY DEF ExactFor
  <1>5. ASSUME paid'[<<u, r, f>>] + m * Unpaid(pc[h], u, r, f)' = P + m * Unpaid(j, u, r, f)
        PROVE  Exact(pc[h], u, r, f)'
    <2>1. GoldFiled(bets', u, r, f) = g /\ (DrawnFirst(r, f)' <=> DrawnFirst(r, f)) /\ staked' = staked
      BY <1>2 DEF DrawnFirst
    <2>2. staked[<<u, r, f>>] = g /\ P + m * Unpaid(j, u, r, f) = IF DrawnFirst(r, f) THEN m * g ELSE 0
      BY <1>4 DEF Exact
    <2> HIDE DEF g, P
    <2> QED
      BY <1>5, <2>1, <2>2 DEF Exact
  <1>6. CASE FindWinners(h)
    <2>1. j \in Winners /\ j.at = "winners" /\ paid' = paid
      BY <1>1, <1>6, JobsByTag DEF FindWinners, wheelVars
    <2>2. pc'[h] = Paying(j, {b \in RowsOfRound(j.round) : bets[b].choice = j.fruit})
      BY <1>1, <1>6, StepsMove DEF FindWinners
    <2>3. WinningsLeft(pc'[h], u) = GoldFiled(bets, u, j.round, j.fruit)
      BY <1>1, <2>1, <2>2, WinnersRead
    <2>4. pc'[h].at = "pay" /\ pc'[h].round = j.round /\ pc'[h].fruit = j.fruit
      BY <2>2 DEF Paying
    <2>5. Unpaid(pc[h], u, r, f)' = Unpaid(j, u, r, f)
      BY <2>1, <2>3, <2>4 DEF Unpaid, Waits, Left
    <2> QED
      BY <1>5, <2>1, <2>5
  <1>7. CASE PayWinner(h)
    <2>1. j \in Pay /\ j.at = "pay" /\ IsFiniteSet(j.left)
      BY <1>1, <1>7, JobsByTag DEF PayWinner, Jobs
    <2>2. PICK w \in j.left : /\ paid' = [paid EXCEPT ![<<w.user, j.round, j.fruit>>] = @ + WheelMultiplier[j.fruit] * w.gold]
                              /\ Goto(h, [j EXCEPT !.left = @ \ {w}])
      BY <1>7 DEF PayWinner
    <2> DEFINE k == [j EXCEPT !.left = @ \ {w}]
               n == IF w.user = u /\ j.round = r /\ j.fruit = f THEN w.gold ELSE 0
    <2>3. pc'[h] = k
      BY <1>1, <1>7, <2>2, StepsMove DEF PayWinner
    <2>4. k.at = "pay" /\ k.round = j.round /\ k.fruit = j.fruit
      BY <2>1 DEF Pay
    <2>5. /\ WinningsLeft(j, u) = WinningsLeft(k, u) + (IF w.user = u THEN w.gold ELSE 0)
          /\ w.gold \in Nat /\ w.user \in Users
      BY <2>1, OneLess
    <2>6. WinningsLeft(k, u) \in Nat
      <3>1. k \in Job /\ IsFiniteSet(k.left)
        BY <1>1, <2>3, <2>4 DEF Jobs
      <3> HIDE DEF k
      <3> QED
        BY <2>4, <3>1, LeftTypes
    <2>7. /\ Unpaid(j, u, r, f) = Left(j, u, r, f) /\ Unpaid(pc[h], u, r, f)' = Left(k, u, r, f)
      <3> HIDE DEF k
      <3> QED
        BY <2>1, <2>3, <2>4 DEF Unpaid, Waits
    <2>8. Left(j, u, r, f) = Left(k, u, r, f) + n /\ n \in Nat /\ Left(k, u, r, f) \in Nat
      <3> HIDE DEF k
      <3> QED
        BY <2>1, <2>4, <2>5, <2>6 DEF Left
    <2>9. paid'[<<u, r, f>>] = IF w.user = u /\ j.round = r /\ j.fruit = f THEN P + m * w.gold ELSE P
      BY <1>3, <2>2
    <2> HIDE DEF k
    <2>10. m * Left(j, u, r, f) = m * Left(k, u, r, f) + m * n /\ m * Left(k, u, r, f) \in Nat /\ m * n \in Nat
      <3> HIDE DEF m, n
      <3> QED
        BY <1>3, <2>8, Products
    <2>11. paid'[<<u, r, f>>] = P + m * n
      <3>1. m * 0 = 0
        BY <1>3
      <3> HIDE DEF m, P
      <3> QED
        BY <1>3, <2>9, <3>1
    <2> HIDE DEF m, n, P
    <2>12. paid'[<<u, r, f>>] + m * Unpaid(pc[h], u, r, f)' = P + m * Unpaid(j, u, r, f)
      BY <1>3, <2>7, <2>10, <2>11
    <2> QED
      BY <1>5, <2>12
  <1>8. CASE RecordRound(h)
    <2>1. j.at = "pay" /\ j.left = {} /\ pc'[h] = Idle /\ paid' = paid
      BY <1>1, <1>8, StepsMove DEF RecordRound
    <2>2. WinningsLeft(j, u) = 0
      <3>1. {v \in j.left : v.user = u} = {}
        BY <2>1
      <3> QED
        BY <3>1, SumOfNone DEF WinningsLeft, SumFunction
    <2>3. Unpaid(j, u, r, f) = 0 /\ Unpaid(pc[h], u, r, f)' = 0
      BY <2>1, <2>2 DEF Unpaid, Waits, Left, Idle
    <2> QED
      BY <1>5, <2>1, <2>3
  <1> QED
    BY <1>6, <1>7, <1>8

LEMMA WheelIsExact ==
  ASSUME Serial, NEW h \in Slots, Alone(h), WheelStep(h), ExactFor(pc[h]), Undeleted'
  PROVE  ExactFor(pc[h])'
  <1>1. Types /\ pc[h] \in Job /\ None # Deleted
    BY WheelConstants DEF Serial, Typed, Types, PcTypes
  <1>2. CASE InsertBet(h) \/ RaiseBet(h)
    BY <1>2, FilingIsExact
  <1>3. CASE SaveResult(h)
    BY <1>3, SettlingIsExact
  <1>4. CASE FindWinners(h) \/ PayWinner(h) \/ RecordRound(h)
    BY <1>4, PayingIsExact
  <1>5. CASE DestroyBet(h)
    <2>1. PICK b \in Rows : bets' = [bets EXCEPT ![b] = Deleted]
      BY <1>5 DEF DestroyBet
    <2>2. b \in BetIds /\ bets'[b] = Deleted
      BY <1>1, <2>1 DEF Rows, Types, WheelTypes
    <2> QED
      BY <2>2 DEF Undeleted
  <1>6. CASE \/ \E u \in Users : GameReset(h, u) \/ \E f \in Fruits, g \in Gold : GameChoice(h, u, f, g)
             \/ FetchBalance(h) \/ Debit(h) \/ FindBet(h) \/ GameInfo(h) \/ DestroyFails(h) \/ ZeroProfit(h)
    <2>1. pc[h].at \notin {"winners", "pay"}
      <3>1. /\ \A u \in Users : GameReset(h, u) => pc[h].at = "idle"
            /\ \A u \in Users, f \in Fruits, g \in Gold : GameChoice(h, u, f, g) => pc[h].at = "idle"
        BY DEF GameReset, GameChoice, Begin, Idle
      <3>2. ASSUME FetchBalance(h) \/ Debit(h) \/ FindBet(h) \/ GameInfo(h) \/ DestroyFails(h) \/ ZeroProfit(h)
            PROVE  pc[h].at \in {"idle", "fetch", "debit", "find", "reset"}
        BY <3>2 DEF FetchBalance, Debit, FindBet, GameInfo, Begin, Idle, DestroyFails, ZeroProfit
      <3> QED
        BY <1>6, <3>1, <3>2
    <2>2. pc'[h].at \notin {"winners", "pay"}
      BY <1>1, <1>6, WheelTransitions
    <2>3. UNCHANGED <<bets, results, staked, paid>>
      BY <1>6 DEF GameReset, GameChoice, FetchBalance, Debit, FindBet, GameInfo, DestroyFails, ZeroProfit, wheelVars
    <2>4. \A k : k.at \notin {"winners", "pay"} => ExactFor(k)'
      BY <2>1, <2>3, AsideExact
    <2>5. ExactFor(pc[h])' <=> \A k : k = pc'[h] => ExactFor(k)'
      BY DEF ExactFor, Exact, Unpaid
    <2> QED
      BY <2>2, <2>4, <2>5
  <1> QED
    BY <1>2, <1>3, <1>4, <1>5, <1>6 DEF WheelStep

\* Deleted rows stay deleted.
LEMMA DeletionsStay ==
  ASSUME Types, NEW h \in Slots, WheelStep(h), Undeleted'
  PROVE  Undeleted
  <1> SUFFICES ASSUME NEW b \in BetIds, bets[b] = Deleted PROVE FALSE
    BY DEF Undeleted
  <1>1. bets[b] # None
    BY WheelConstants
  <1>2. bets'[b] # Deleted
    BY DEF Undeleted
  <1> QED
    BY <1>1, <1>2, RowsKeep

LEMMA BookedStays ==
  ASSUME Serial, Booked, [Next]_vars, OneAtATime, OneAtATime', Failures = FALSE
  PROVE  Booked'
  <1>1. Types
    BY DEF Serial, Typed
  <1>2. ASSUME NEW h \in Slots, OnlyOne(h)', Undeleted' => ExactFor(pc[h])'
        PROVE  Booked'
    <2> SUFFICES ASSUME Undeleted'
                 PROVE  /\ \A k \in Slots : OnlyOne(k)' => ExactFor(pc[k])'
                        /\ AtRest' => ExactFor(Idle)'
      BY DEF Booked
    <2>1. \A j : j = pc'[h] => ExactFor(j)'
      <3>1. ExactFor(pc[h])' <=> \A j : j = pc'[h] => ExactFor(j)'
        BY DEF ExactFor, Exact, Unpaid
      <3> QED
        BY <1>2, <3>1
    <2>2. ASSUME NEW k \in Slots, pc'[k] = pc'[h]
          PROVE  ExactFor(pc[k])'
      <3>1. ExactFor(pc[k])' <=> \A j : j = pc'[k] => ExactFor(j)'
        BY DEF ExactFor, Exact, Unpaid
      <3> QED
        BY <2>1, <2>2, <3>1
    <2>3. ASSUME NEW k \in Slots, OnlyOne(k)'
          PROVE  ExactFor(pc[k])'
      <3>1. k = h \/ (pc'[k] = Idle /\ pc'[h] = Idle)
        BY <1>2, <2>3 DEF OnlyOne
      <3> QED
        BY <2>2, <3>1
    <2>4. ASSUME AtRest'
          PROVE  ExactFor(Idle)'
      <3>1. pc'[h] = Idle
        BY <2>4 DEF AtRest
      <3> QED
        BY <2>1, <3>1
    <2> QED
      BY <2>3, <2>4
  <1>3. ASSUME NEW h \in Slots,
               \/ WheelStep(h)
               \/ JackpotStep(h) /\ UNCHANGED wheelVars
               \/ CoinStep(h) /\ UNCHANGED wheelVars
               \/ FollowStep(h) /\ UNCHANGED wheelVars
        PROVE  Booked'
    <2>1. Moves(h)
      BY <1>1, <1>3, WheelTyped, JackpotTyped, CoinTyped, FollowTyped
    <2>2. \A k \in Slots : k # h => pc'[k] = pc[k]
      BY <1>1, <2>1 DEF Moves, Types, PcTypes
    <2>3. OnlyOne(h) /\ OnlyOne(h)'
      <3>1. pc[h] # Idle \/ pc'[h] # Idle
        BY <1>1, <1>3, StepsHaveJobs
      <3>2. OnlyOne(h) \/ OnlyOne(h)'
        BY <3>1 DEF OneAtATime
      <3> QED
        BY <2>2, <3>2 DEF OnlyOne
    <2>4. Alone(h)
      BY <2>3, SerialStays DEF Alone, Serial
    <2>5. CASE WheelStep(h)
      BY <1>1, <1>2, <2>3, <2>4, <2>5, DeletionsStay, WheelIsExact DEF Booked
    <2>6. CASE ~ WheelStep(h)
      <3>1. UNCHANGED wheelVars /\ (JackpotStep(h) \/ CoinStep(h) \/ FollowStep(h))
        BY <1>3, <2>6
      <3>2. pc[h].at \notin {"winners", "pay"} /\ pc'[h].at \notin {"winners", "pay"}
        <4>1. /\ pc[h] \in {Idle} \cup JackpotJob \cup CoinJob \cup FollowJob
              /\ pc'[h] \in {Idle} \cup JackpotJob \cup CoinJob \cup FollowJob
          BY <1>1, <3>1, JackpotTyped, CoinTyped, FollowTyped
        <4>2. \A j \in {Idle} \cup JackpotJob \cup CoinJob \cup FollowJob : j.at \notin {"winners", "pay"}
          BY DEF Idle, JackpotJob, JBet, JDraw, JWinners, JPay, JMark, CoinJob, FollowJob
        <4> QED
          BY <4>1, <4>2
      <3>3. UNCHANGED <<bets, results, staked, paid>>
        BY <3>1 DEF wheelVars
      <3>4. Undeleted' => ExactFor(pc[h])
        BY <2>3, <3>3 DEF Undeleted, Booked
      <3>5. ExactFor(pc[h]) => \A k : k.at \notin {"winners", "pay"} => ExactFor(k)'
        BY <3>2, <3>3, AsideExact
      <3>6. ExactFor(pc[h])' <=> \A k : k = pc'[h] => ExactFor(k)'
        BY DEF ExactFor, Exact, Unpaid
      <3> QED
        BY <1>2, <2>3, <3>2, <3>4, <3>5, <3>6
    <2> QED
      BY <2>5, <2>6
  <1>4. CASE Still
    <2>1. UNCHANGED <<pc, bets, results, staked, paid>>
      BY <1>4 DEF Still
    <2>2. \A j : ExactFor(j)' <=> ExactFor(j)
      BY <2>1 DEF ExactFor, Exact, DrawnFirst, Unpaid
    <2>3. \A h \in Slots : ExactFor(pc[h])' <=> ExactFor(pc[h])
      BY <2>1 DEF ExactFor, Exact, DrawnFirst, Unpaid
    <2> QED
      BY <2>1, <2>2, <2>3 DEF Booked, Undeleted, OnlyOne, AtRest
  <1> QED
    BY <1>1, <1>3, <1>4, StepKindsSerial

LEMMA BookedAtStart == Init => Booked
  <1>0. Init => \A h \in Slots : pc[h] = Idle
    BY DEF Init, StoreInit
  <1> SUFFICES ASSUME Init, NEW j, j = Idle, NEW u \in Users, NEW r \in WheelRounds, NEW f \in Fruits
               PROVE  Exact(j, u, r, f)
    BY <1>0 DEF Booked, ExactFor
  <1>1. staked[<<u, r, f>>] = 0 /\ paid[<<u, r, f>>] = 0 /\ results[r] = <<>> /\ \A b \in BetIds : bets[b] = None
    BY DEF Init, WheelInit, Places
  <1>2. GoldFiled(bets, u, r, f) = 0
    <2>1. RowsIn(bets, u, r, f) = {}
      BY <1>1 DEF RowsIn
    <2> QED
      BY <2>1, SumOfNone, Zenon DEF GoldFiled
  <1>3. Unpaid(j, u, r, f) = 0
    BY DEF Unpaid, Waits, Left, Idle
  <1>4. WheelMultiplier[f] * 0 = 0
    BY WheelConstants
  <1> QED
    BY <1>1, <1>2, <1>3, <1>4 DEF Exact, DrawnFirst

\* With one row each, what a place holds is one amount, or none.
LEMMA OneAmount ==
  ASSUME Serial, NEW u \in Users, NEW r \in WheelRounds, NEW f \in Fruits
  PROVE  LET rows == RowsOf(u, r, f) IN
         /\ \A b \in rows : GoldFiled(bets, u, r, f) = bets[b].gold /\ bets[b].gold \in Nat \ {0}
         /\ rows = {} => GoldFiled(bets, u, r, f) = 0
  <1>1. bets \in Table /\ RowsIn(bets, u, r, f) = RowsOf(u, r, f)
    BY DEF Serial, Typed, Types, WheelTypes, Table, RowsIn, RowsOf, Rows
  <1>2. ASSUME NEW b \in RowsOf(u, r, f)
        PROVE  GoldFiled(bets, u, r, f) = bets[b].gold /\ bets[b].gold \in Nat \ {0}
    <2> DEFINE g == [c \in BetIds |-> bets[c].gold]
    <2>1. RowsIn(bets, u, r, f) \subseteq {b} /\ b \in RowsIn(bets, u, r, f)
      BY <1>1, <1>2 DEF Serial, Orderly, OneRowEach, RowsOf
    <2>2. b \in BetIds /\ bets[b].gold \in Nat \ {0}
      BY <1>1, <1>2 DEF Table, Row, RowsOf, Rows
    <2>3. g[b] = bets[b].gold
      BY <2>2
    <2>4. GoldFiled(bets, u, r, f) = SumFunctionOnSet(g, RowsIn(bets, u, r, f))
      BY DEF GoldFiled
    <2>5. \A S : S \subseteq {b} /\ b \in S => SumFunctionOnSet(g, S) = bets[b].gold
      <3> SUFFICES ASSUME NEW S, S \subseteq {b}, b \in S PROVE SumFunctionOnSet(g, S) = bets[b].gold
        OBVIOUS
      <3>1. IsFiniteSet(S) /\ S \ {b} = {}
        BY FS_Singleton, FS_Subset
      <3> HIDE DEF g
      <3>2. \A c \in S : g[c] \in Int
        BY <2>2, <2>3
      <3>3. SumFunctionOnSet(g, S) = g[b] + SumFunctionOnSet(g, S \ {b})
        BY <3>1, <3>2, SumWithout
      <3>4. SumFunctionOnSet(g, S \ {b}) = 0
        BY <3>1, SumOfNone
      <3> QED
        BY <2>2, <2>3, <3>3, <3>4
    <2> HIDE DEF g
    <2> QED
      BY <2>1, <2>2, <2>4, <2>5
  <1>3. RowsOf(u, r, f) = {} => GoldFiled(bets, u, r, f) = 0
    BY <1>1, SumOfNone, Zenon DEF GoldFiled
  <1> QED
    BY <1>2, <1>3

\* Between requests, what is booked is what is shown.
LEMMA BookedIsShown == Serial /\ Booked => ShownAsBooked
  <1> SUFFICES ASSUME Serial, Booked, AtRest, \A b \in BetIds : bets[b] # Deleted
               PROVE  /\ \A u \in Users, f \in Fruits : Selected(u, f) = {staked[<<u, WheelRound, f>>]} \ {0}
                      /\ LastSettled =>
                           \A u \in Users : WinGold(u) = {paid[<<u, WheelRound - 1, LastFruit>>]} \ {0}
                      /\ LastSettled => \A w \in TopList : paid[<<w.uid, WheelRound - 1, LastFruit>>] = w.total
    BY DEF ShownAsBooked
  <1>1. ExactFor(Idle)
    BY DEF Booked, Undeleted
  <1>2. ASSUME NEW u \in Users, NEW r \in WheelRounds, NEW f \in Fruits
        PROVE  /\ staked[<<u, r, f>>] = GoldFiled(bets, u, r, f)
               /\ DrawnFirst(r, f) => paid[<<u, r, f>>] = WheelMultiplier[f] * GoldFiled(bets, u, r, f)
    <2>1. Exact(Idle, u, r, f)
      BY <1>1 DEF ExactFor
    <2>2. Unpaid(Idle, u, r, f) = 0
      BY DEF Unpaid, Waits, Left, Idle
    <2>3. WheelMultiplier[f] * 0 = 0 /\ paid[<<u, r, f>>] \in Nat
      BY WheelConstants DEF Serial, Typed, Types, WheelTypes, Places
    <2> QED
      BY <2>1, <2>2, <2>3 DEF Exact
  <1>3. WheelRound \in WheelRounds /\ (WheelRound > 0 => WheelRound - 1 \in WheelRounds)
    <2>1. WheelRound \in WheelRounds
      BY RoundTypes DEF Serial, Typed, Types, StoreTypes, WheelRound
    <2> QED
      BY <2>1, WheelConstants, StoreConstants DEF WheelRounds
  <1>4. ASSUME NEW u \in Users, NEW f \in Fruits
        PROVE  Selected(u, f) = {staked[<<u, WheelRound, f>>]} \ {0}
    <2>1. staked[<<u, WheelRound, f>>] = GoldFiled(bets, u, WheelRound, f)
      BY <1>2, <1>3
    <2>2. CASE RowsOf(u, WheelRound, f) = {}
      BY <1>3, <2>1, <2>2, OneAmount DEF Selected
    <2>3. ASSUME NEW b \in RowsOf(u, WheelRound, f)
          PROVE  Selected(u, f) = {staked[<<u, WheelRound, f>>]} \ {0}
      BY <1>3, <2>1, <2>3, OneAmount DEF Selected
    <2> QED
      BY <2>2, <2>3
  <1>5. ASSUME LastSettled
        PROVE  /\ WheelRound - 1 \in WheelRounds /\ LastFruit \in Fruits /\ DrawnFirst(WheelRound - 1, LastFruit)
               /\ WheelMultiplier[LastFruit] \in Nat \ {0}
    <2>1. WheelRound - 1 \in WheelRounds /\ results[WheelRound - 1] # <<>>
      BY <1>3, <1>5 DEF LastSettled
    <2>2. results[WheelRound - 1] \in Seq(Fruits)
      BY <2>1 DEF Serial, Typed, Types, WheelTypes
    <2>3. LastFruit \in Fruits /\ DrawnFirst(WheelRound - 1, LastFruit)
      BY <2>1, <2>2 DEF LastFruit, DrawnFirst
    <2> QED
      BY <2>1, <2>3, WheelConstants
  <1>6. ASSUME LastSettled, NEW u \in Users
        PROVE  /\ WinGold(u) = {paid[<<u, WheelRound - 1, LastFruit>>]} \ {0}
               /\ \A b \in RowsOf(u, WheelRound - 1, LastFruit) : paid[<<u, WheelRound - 1, LastFruit>>] = Win(b)
    <2> DEFINE q == WheelRound - 1
               m == WheelMultiplier[LastFruit]
               rows == RowsOf(u, q, LastFruit)
               P == paid[<<u, q, LastFruit>>]
    <2>1. P = m * GoldFiled(bets, u, q, LastFruit) /\ m \in Nat \ {0} /\ q \in WheelRounds /\ LastFruit \in Fruits
      BY <1>2, <1>5, <1>6
    <2>2. /\ \A b \in rows : GoldFiled(bets, u, q, LastFruit) = bets[b].gold /\ bets[b].gold \in Nat \ {0}
          /\ rows = {} => GoldFiled(bets, u, q, LastFruit) = 0
      BY <2>1, OneAmount
    <2>3. WinGold(u) = {Win(b) : b \in rows} /\ \A b \in rows : Win(b) = m * bets[b].gold
      BY DEF WinGold, Win
    <2>4. \A g \in Nat \ {0} : m * g # 0
      BY <2>1
    <2>5. m * 0 = 0
      BY <2>1
    <2> HIDE DEF q, m, rows, P
    <2>6. \A b \in rows : Win(b) = P /\ P # 0
      BY <2>1, <2>2, <2>3, <2>4
    <2>7. rows = {} => P = 0
      BY <2>1, <2>2, <2>5
    <2>8. WinGold(u) = {P} \ {0}
      BY <2>3, <2>6, <2>7
    <2> QED
      BY <2>6, <2>8 DEF q, rows, P
  <1>7. ASSUME LastSettled, NEW w \in TopList
        PROVE  paid[<<w.uid, WheelRound - 1, LastFruit>>] = w.total
    <2>1. PICK b \in RowsOfRound(WheelRound - 1) :
            bets[b].choice = LastFruit /\ w = [uid |-> bets[b].user, total |-> Win(b)]
      BY <1>7 DEF TopList
    <2>2. bets[b].user \in Users /\ b \in RowsOf(bets[b].user, WheelRound - 1, LastFruit)
      BY <2>1 DEF RowsOfRound, RowsOf, Rows, Serial, Typed, Types, WheelTypes, Row
    <2> QED
      BY <1>6, <1>7, <2>1, <2>2
  <1> QED
    BY <1>4, <1>6, <1>7

\* One request at a time, none of them cut short and no user cache, what game_info shows
\* between requests is what was filed and paid.
THEOREM SerialIsShown ==
  ASSUME Failures = FALSE, CacheUsed = FALSE
  PROVE  SerialSpec => []ShownAsBooked /\ []SerialShowsTheBooks
  <1>1. Init => Serial /\ OneAtATime /\ Booked
    BY SerialAtStart, BookedAtStart
  <1>2. Serial /\ OneAtATime /\ Booked /\ [SerialNext]_mcvars => (Serial /\ OneAtATime /\ Booked)'
    <2> SUFFICES ASSUME Serial, OneAtATime, Booked, [SerialNext]_mcvars
                 PROVE  (Serial /\ OneAtATime /\ Booked)'
      OBVIOUS
    <2>1. [Next]_vars /\ OneAtATime'
      BY AloneInTheEnd
    <2> QED
      BY <2>1, SerialGoesOn, BookedStays, Zenon
  <1>3. Serial /\ Booked => ShownAsBooked /\ SerialShowsTheBooks
    BY BookedIsShown DEF SerialShowsTheBooks
  <1> QED
    BY <1>1, <1>2, <1>3, PTL DEF SerialSpec
=============================================================================
