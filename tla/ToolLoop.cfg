\* Two turns, three calls in all to a read, a write and an artifact tool.
SPECIFICATION FairSystemSpec
CONSTANTS
  Tool = {"search", "draw", "chart"}
  Write = {"draw"}
  Artifact = {"chart"}
  Arg = {"a"}
  MaxTurns = 2
  Limit = 1
  MaxRetries = 1
  MaxCalls = 3
  MaxPosts = 2
  None = None
  LongRunning = "draw"
CHECK_DEADLOCK FALSE
INVARIANTS
  TypeOK
  CapSparesConfirmed
  ProposalEndsTurn
  NoRetryAfterSideEffect
  RecordIsTrue
  ReplayIsAccepted
  FollowUpSeesProposal
PROPERTIES
  ReadingEnds
