\* One turn with two frames, its own stream and one returning page.
SPECIFICATION FairSpec
CONSTANTS
  c1 = c1
  t1 = t1
  t2 = t2
  p1 = p1
  Conv = {c1}
  Turn = {t1}
  Page = {p1}
  Frame = {"text", "error"}
  Done = "done"
  None = None
  ConvOf <- MCConvOf1
  PageOf <- MCPageOf
  Stays = {t1}
  MaxFrames = 2
  MaxRestarts = 1
CHECK_DEADLOCK FALSE
PROPERTIES
  ImplementsStreams
  StreamsEnd
  RunsRetire
