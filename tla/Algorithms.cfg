SPECIFICATION MCSpec
CONSTANTS
  None = None
  FirstRound = 38000000
  Gaps = {1, 200}
  TwoHours = 160
  Bets <- AllBets
  MaxSettled = 2
CHECK_DEADLOCK FALSE
INVARIANTS HouseNeverLoses PermissionsHold QueriesMeanWhatTheySay EnginesAgree StoredAsWritten AdmittedAsEntitled
PROPERTY NearestToTarget
