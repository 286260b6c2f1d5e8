\* Three requests, two parameter sets; entries live two ticks, one second.
SPECIFICATION Spec
CONSTANTS
  r1 = r1
  r2 = r2
  r3 = r3
  r4 = r4
  a = a
  b = b
  Subject = {"user"}
  Param = {a, b}
  Request = {r1, r2, r3}
  None = None
  TTL = 2
  Second = 2
  MaxClock = 4
  MaxCrashes = 1
SYMMETRY Symmetry
CHECK_DEADLOCK FALSE
INVARIANTS
  OneShot
  MutationsWereProposed
  AuditAccountsForMutations
PROPERTY
  ImplementsApprovals
