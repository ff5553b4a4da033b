SPECIFICATION Spec
CONSTANTS
  Providers = {p1}
  Models = {m1}
  AnyModel = any
  NoEntry = none
  LadderBase = 1
  LadderCap = 40
  LongestSpan = 2
  LevelMax = 2
  Threads = {t1, t2}
  Spans = {3}
  Kinds = {FALSE}
  WritesMayFail = TRUE
INVARIANTS
  MirrorFaithful
PROPERTIES
  RestartKeeps
CHECK_DEADLOCK FALSE
