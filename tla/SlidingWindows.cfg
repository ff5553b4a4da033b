\* From the middle of minute 1 to minute 3, two units each; a minute takes one request.
SPECIFICATION WindowsSpec
CONSTANTS
  Requests = {r1, r2}
  Slices = 2
  Origin = 3
  Rpm = {1}
  Tpm = {2}
  Floor = 2
  Reports = {2}
  MaxNow = 6
  MaxCalls = 3
INVARIANTS
  LazyIsEager
\* The clock is at its bound and the calls are made.
CHECK_DEADLOCK FALSE
