\* Three turns with at most one tool call; one retry; one restart.
SPECIFICATION Spec
CONSTANTS
  t1 = t1
  t2 = t2
  t3 = t3
  Turn = {t1, t2, t3}
  None = None
  KeepRecent = 4
  MaxRetries = 1
  MaxCalls = 1
  MaxRestarts = 1
SYMMETRY Symmetry
CHECK_DEADLOCK FALSE
INVARIANTS
  TypeOK
  InFlightIsOne
  FoldedIsKept
  NoPairIsSplit
PROPERTIES
  ImplementsTranscript
  RetriesShrink
