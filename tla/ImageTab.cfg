\* A proposal, the confirmation, and the image it makes.
SPECIFICATION SystemSpec
CONSTANTS
  Tool = {"search", "draw", "chart"}
  Write = {"draw"}
  Artifact = {"chart"}
  Arg = {"a"}
  MaxTurns = 2
  Limit = 1
  MaxRetries = 1
  MaxCalls = 3
  MaxPosts = 2
  None = None
  LongRunning = "draw"
CHECK_DEADLOCK FALSE
INVARIANT PlaceholderIsUpgraded
