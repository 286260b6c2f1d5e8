\* One turn, two uploads beside three of an earlier run, one delete, one restart.
SPECIFICATION Spec
CONSTANTS
  ann = ann
  bob = bob
  A = A
  B = B
  D = D
  E = E
  X = X
  u1 = u1
  u2 = u2
  u3 = u3
  u4 = u4
  u5 = u5
  c1 = c1
  c2 = c2
  User = {ann, bob}
  Content = {A, B, D, E, X}
  KindOf <- MCKindOf
  Vision = TRUE
  Upload = {u1, u2, u3, u4, u5}
  Removal = {"d1"}
  Offers <- MCOffers
  None = None
  Earlier = {u2, u4, u5}
  MaxRestarts = 1
  Conv = {c1, c2}
  OwnerOf <- MCOwnerOf
  Turn = {"t1"}
  Said <- MCSaid
  LengthOf <- MCLengthOf
  PerDoc = 2
  Total = 3
  ImageTurns = 1
  MaxFiles = 2
CHECK_DEADLOCK FALSE
INVARIANTS
  TypeOK
  RecordsKeepBytes
  LoneWriterIsWhole
  AnswersAreSettled
  UndisturbedTurnsAsk
  OldestLoseText
  AllowanceCoversText
  ImagesPricedExactly
