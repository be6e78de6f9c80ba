SPECIFICATION ConversationSpec
CONSTANTS
  l1 = l1
  l2 = l2
  Lanes = {l1, l2}
  RunModels <- SomeModels
  AnswerTokens = 4
  Headroom = 3
  MinBudget = 2
  Budget = 5
  FallbackCeiling = 4
  BedrockCeiling = 6
  MaxResumes = 1
  MaxRuns = 2
  MaxSurface = 4
  MaxCrashes = 1
SYMMETRY AnyLane
CHECK_DEADLOCK FALSE
INVARIANT RequestIsAccepted
INVARIANT RequestIsRebuilt
PROPERTY PrefixIsStable
