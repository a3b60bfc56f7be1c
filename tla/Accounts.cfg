SPECIFICATION Spec
CONSTANTS
  u1 = u1
  u2 = u2
  u3 = u3
  p1 = p1
  p2 = p2
  p3 = p3
  a1 = a1
  i1 = i1
  None = None
  Users = {u1, u2}
  Names <- MCNames
  Emails <- MCEmails
  Passwords = {p1, p2, p3}
  AuthIds = {a1}
  Installations = {i1}
  Slots = {h1, h2}
  Lower <- MCLower
  Threshold = 2
  LockTime = 1
  TokenLife = 1
  PasswordAge = 1
  History = 2
  Settings <- MCSettings
  MaxNow = 2
SYMMETRY Symm
CHECK_DEADLOCK FALSE
INVARIANTS VerifiedIsMailed ThresholdLocks OneAccountPerIdentity SessionsInOrder PasswordNotRepeated
