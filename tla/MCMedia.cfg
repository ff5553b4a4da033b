SPECIFICATION Spec
CONSTANTS
  Slots <- MCSlots
  Asks <- MCAsks
  Cap <- MCCap
  MaxPolls = 2
INVARIANTS
  AnswerStands
  NoSecondJob
PROPERTIES
  MediaEnds
CHECK_DEADLOCK FALSE
