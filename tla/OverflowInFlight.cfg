\* Two turns: one over, its compaction in the background, one that overflows.
SPECIFICATION Spec
CONSTANTS
  t1 = t1
  t2 = t2
  t3 = t3
  Turn = {t1, t2}
  None = None
  KeepRecent = 3
  MaxRetries = 1
  MaxCalls = 1
  MaxRestarts = 0
SYMMETRY Symmetry
CHECK_DEADLOCK FALSE
PROPERTIES
  GivesUpWithNothingToFold
