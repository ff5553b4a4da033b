SPECIFICATION Spec
CONSTANTS
  Enabled <- MCEnabled
  Able <- MCAble
  Meta <- MCMeta
  Defaults <- MCDefaults
  MaxToolCalls = 4
  Rerank = TRUE
  FusionPanel <- MCPanel
  FusionAnalyst = "absent"
  Clients = {"anthropic", "chat", "responses"}
  Candidates <- MCCandidates
  Payloads <- MCPayloads
  Arguments <- MCArguments
  Depths = {0, 1}
  Outer = "outer"
  Strange = {"strange"}
  MaxCalls = 2
  MaxTurns = 2
INVARIANTS
  CapsHold
  TurnAnswered
  NothingStranded
  LegsAsDeclared
CHECK_DEADLOCK FALSE
