\* A batch of two parallel calls against a budget of two; two re-sends, as many as
\* the code makes; a call may say start, two reserved calls, their close and [DONE].
CONSTANTS
  Setups <- AllSetups
  Uses = 2
  MaxRetries = 2
  CallCloses = {"calls"}
  MaxEvents = 5
SPECIFICATION Spec
INVARIANTS
  TurnClosed
  NoAnswerRedone
  UsageNeverLost
  DeadCallsAreFaults
PROPERTIES TurnEnds
\* A turn that is over stays over.
CHECK_DEADLOCK FALSE
