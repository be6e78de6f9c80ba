SPECIFICATION SceneSpec
CONSTANTS
  opus = opus
  old = old
  nova = nova
  pegasus = pegasus
  canvas = canvas
  MaxUses = 1
  Envs <- SomeEnvs
  Hosts <- SomeHosts
  Catalogues <- SomeCatalogues
  Models <- AllIds
  Anthropic <- AnthropicIds
  EndOfLife <- OldIds
  NotInvocable <- RefusedIds
  TextStreaming <- TextIds
  Rank <- ScopeRank
  MaxBlocks = 2
  MaxPieces = 2
  MaxTurns = 2
  MaxPauseResumes = 1
INVARIANT RecordHolds
INVARIANT OfferedOnce
INVARIANT AnswerIsRecorded
INVARIANT LiveTextSettles
INVARIANT CallsAreDispatched
CHECK_DEADLOCK FALSE
