SPECIFICATION OpeningSpec
CONSTANTS
  None = None
  t1 = t1
  t2 = t2
  i1 = i1
  i2 = i2
  Lanes = {main}
  Readers = {main}
  main = main
  Contributors = {"bash", "write", "audit", "old"}
  Shipped = {"bash", "write", "audit"}
  Default = {"bash", "write"}
  Fits = {"bash", "write", "audit", "old"}
  Point <- RulePoint
  Priority <- RuleBand
  Rank <- RuleRank
  Names = {"deploy", "deploy-2"}
  Copies <- CopyNames
  HostSkills <- OwnSkills
  Users = {"ann", "bob"}
  Host = "ann"
  Invites = {i1, i2}
  Threads = {t1, t2}
  Budgets <- Scenes
CHECK_DEADLOCK FALSE
SYMMETRY AnyThread
INVARIANT GateHolds
INVARIANT RoomIsTold
INVARIANT RemovedActNoMore
INVARIANT SkillsAreKept
