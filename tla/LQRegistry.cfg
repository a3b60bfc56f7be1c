SPECIFICATION MCSpec
CONSTANTS
  Sockets = {w1, w2}
  ClientIds = {c1, c2}
  Requests = {r1, r2}
  Queries = {q1, q2, q3}
  Classes <- MCClasses
  ClassOf <- MCClassOf
  SubIds = {s1, s2, s3}
  Handlers = {h1, h2}
  Triggers = {"connect", "subscribe"}
  Reconnects = TRUE
  MaxCopies = 2
  None = None
  r1 = r1
  q1 = q1
  q2 = q2
  q3 = q3
  ClassA = ClassA
  ClassB = ClassB
SYMMETRY Symm
CHECK_DEADLOCK FALSE
INVARIANTS OpenSocketHasClient ReferencedIsRegistered
PROPERTIES OneClientPerStep PlainImplementsTable
