---------------------------- MODULE CoinPurchases ----------------------------
(***************************************************************************)
(* verifyAndAddCoins of cloud/main.js: a purchase the store confirms is    *)
(* added to the user's credit and recorded.  The request works on the copy *)
(* of the user that authentication gave it: the one in the user cache, or  *)
(* else the one the session query includes, which is then cached           *)
(* (src/Auth.js).  Every save of a user takes its entries out of the cache *)
(* (src/RestWrite.js), but a copy read before the save may be put there    *)
(* after it.                                                               *)
(***************************************************************************)
EXTENDS CloudStore

CONSTANTS
  Transactions,  \* ids a client may send
  Genuine,       \* those RevenueCat knows for the buyer and the product
  Buyer,         \* the user who sends a transaction
  Coins,         \* what the product's name says it is worth
  CacheUsed      \* whether there is a user cache (NullCacheAdapter is none)

ASSUME CoinConstants ==
  /\ IsFiniteSet(Transactions) /\ Genuine \subseteq Transactions
  /\ Buyer \in [Transactions -> Users] /\ Coins \in [Transactions -> Nat \ {0}]
  /\ CacheUsed \in BOOLEAN

VARIABLES
  cached,    \* the credit of each user in the user cache, or None
  payments,  \* rows of PaymentsModel with status "completed", by transaction
  granted,   \* history: how often the coins of each transaction were added
  stale      \* history: what stale copies gave each user back, or took

coinVars == <<payments, granted, stale>>

CoinInit ==
  /\ cached = [u \in Users |-> None]
  /\ payments = [t \in Transactions |-> 0]
  /\ granted = [t \in Transactions |-> 0]
  /\ stale = [u \in Users |-> 0]

-----------------------------------------------------------------------------
\* getAuthForSessionToken: the cached user if there is one, else the user the
\* session query includes, which is cached.
Authenticate(h, t) ==
  LET u == Buyer[t]
      hit == cached[u] # None
  IN
  /\ Begin(h, [at |-> IF CacheUsed /\ ~ hit THEN "keep" ELSE "check", tx |-> t,
               seen |-> IF hit THEN cached[u] ELSE credit[u]])
  /\ UNCHANGED <<cached, coinVars>>

PutUser(h) ==
  /\ pc[h].at = "keep"
  /\ cached' = [cached EXCEPT ![Buyer[pc[h].tx]] = pc[h].seen]
  /\ Continue(h, [pc[h] EXCEPT !.at = "check"])
  /\ UNCHANGED coinVars

\* The entry's time to live ends, or the session does.
Expire(u) ==
  /\ cached[u] # None
  /\ cached' = [cached EXCEPT ![u] = None]
  /\ UNCHANGED <<shared, coinVars>>

\* transformUser: the entries of users about to be saved go.
Forget(saved) == cached' = [u \in Users |-> IF u \in saved THEN None ELSE cached[u]]

CheckDuplicate(h) ==
  /\ pc[h].at = "check"
  /\ IF payments[pc[h].tx] > 0 THEN End(h) ELSE Continue(h, [pc[h] EXCEPT !.at = "verify"])
  /\ UNCHANGED <<cached, coinVars>>

\* RevenueCat lists the transaction, or the request ends in an error.
Verify(h) ==
  /\ pc[h].at = "verify"
  /\ IF pc[h].tx \in Genuine THEN Continue(h, [pc[h] EXCEPT !.at = "grant"]) ELSE End(h)
  /\ UNCHANGED <<cached, coinVars>>

\* Mutant: the user is not saved.
Grant_NotSaved(h) ==
  /\ pc[h].at = "grant"
  /\ Continue(h, [pc[h] EXCEPT !.at = "record"])
  /\ UNCHANGED <<cached, coinVars>>

\* The credit is set to the copy's value and the coins, whatever it is by now.
Grant(h) ==
  LET t == pc[h].tx
      u == Buyer[t]
  IN
  /\ pc[h].at = "grant"
  /\ credit' = [credit EXCEPT ![u] = pc[h].seen + Coins[t]]
  /\ granted' = [granted EXCEPT ![t] = @ + 1]
  /\ stale' = [stale EXCEPT ![u] = @ + pc[h].seen - credit[u]]
  /\ Goto(h, [pc[h] EXCEPT !.at = "record"])
  /\ Forget({u})
  /\ UNCHANGED <<now, served, payments>>

Record(h) ==
  /\ pc[h].at = "record"
  /\ payments' = [payments EXCEPT ![pc[h].tx] = @ + 1]
  /\ End(h)
  /\ UNCHANGED <<cached, granted, stale>>

CoinStep(h) ==
  \/ \E t \in Transactions : Authenticate(h, t)
  \/ PutUser(h) \/ CheckDuplicate(h) \/ Verify(h) \/ Grant(h) \/ Record(h)

-----------------------------------------------------------------------------
\* What the cache and the requests hold are amounts.
CoinTypeOK ==
  /\ cached \in [Users -> Int \cup {None}]
  /\ payments \in [Transactions -> Nat] /\ granted \in [Transactions -> Nat]
  /\ \A h \in Slots : pc[h].at \in {"keep", "check"} => pc[h].seen \in Int

\* A recorded purchase was added to the credit, so that a purchase cut short can
\* be claimed again.
RecordedWasGranted == \A t \in Transactions : payments[t] <= granted[t]

\* "Add the coins to the user": nothing is lost by, or brought back from, a copy of the user
\* that is out of date because requests overlapped.
CoinsAreAdded == \A u \in Users : stale[u] = 0

Worth(u) == SumFunction([t \in {s \in Transactions : Buyer[s] = u} |-> granted[t] * Coins[t]])
=============================================================================
