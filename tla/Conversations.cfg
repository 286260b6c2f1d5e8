\* Two requests on one conversation, a reader, a compaction, one restart.
SPECIFICATION Spec
CONSTANTS
  c1 = c1
  p1 = p1
  p2 = p2
  t1 = t1
  t2 = t2
  Conv = {c1}
  Op <- MCOp
  ConvOf <- MCConvOf
  Creates = {"ask1"}
  RowsOf <- MCRowsOf
  TokensOf <- MCTokensOf
  Server = {p1, p2}
  ServerOf <- MCServerOf
  Reader = {"r1"}
  Saver = {"k1"}
  None = None
  MaxCut = 1
  MaxRestarts = 1
  Turn = {t1, t2}
  UserOp <- MCUserOp
  ReplyOp <- MCReplyOp
  Life = 2
  Window = 0
  Ahead = 1
  MaxTime = 1
CHECK_DEADLOCK FALSE
INVARIANTS
  SeqIsDense
  ReadsAgree
  RefusedStoresNothing
PROPERTIES
  ImplementsBackend
