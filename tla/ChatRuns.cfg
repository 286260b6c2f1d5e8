\* Two overlapping turns, one returning page, one restart.
SPECIFICATION Spec
CONSTANTS
  c1 = c1
  t1 = t1
  t2 = t2
  p1 = p1
  Conv = {c1}
  Turn = {t1, t2}
  Page = {p1}
  Frame = {"text"}
  Done = "done"
  None = None
  ConvOf <- MCConvOf
  PageOf <- MCPageOf
  Stays = {t1}
  MaxFrames = 1
  MaxRestarts = 1
CHECK_DEADLOCK FALSE
INVARIANTS
  TypeOK
  NothingLostOrTwice
  ClosedMeansComplete
  DoneAfterWrite
  RegistryIsLive
  LatestRunIsReachable
  RefreshFindsReply
