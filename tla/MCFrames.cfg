SPECIFICATION Spec
CONSTANTS
  Jobs <- AllJobs
INVARIANTS
  FramesArrive
  AnswerIsMeant
CHECK_DEADLOCK FALSE
