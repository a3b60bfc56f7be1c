SPECIFICATION StaleSpec
CONSTANTS
  u1 = u1
  u2 = u2
  f1 = f1
  f2 = f2
  t1 = t1
  t2 = t2
  fake = fake
  None = None
  Deleted = Deleted
  WheelMultiplier <- MCMultiplier
  JackpotMultiplier <- MCMultiplier
  Buyer <- MCBuyer
  Coins <- MCCoins
  Gold = {1}
  StartCredit = 1
  Users = {u1, u2}
  Fruits = {f1, f2}
  Slots = {h1, h2}
  Failures = FALSE
  MaxNow = 3
  MaxRequests = 4
  WheelDuration = 2
  JackpotDuration = 2
  Closing = 2
  BetIds = {b1, b2}
  MaxJackpotBets = 2
  Transactions = {t1, t2, fake}
  Genuine = {t1, t2}
  CacheUsed = FALSE
  Pairs <- BothPairs
SYMMETRY Symm
CHECK_DEADLOCK FALSE
INVARIANT CoinsAreAdded
