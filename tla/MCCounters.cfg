SPECIFICATION Spec
CONSTANTS
  chat = chat
  image = image
  video = video
  search = search
  Chat = chat
  MediaChain <- TwoMedia
  ServiceChain <- OneSearch
  Watched = image
  DayCap <- Limits
  MonthCap <- MonthLimits
  TotalCap = 3
  TokenCap = 2
  Days <- AllDays
  Midnight <- Nights
  ResetAt <- Resets
  Firsts <- MonthDays
  Earliest = 1
  Latest = 3
  Requests = {r1, r2}
  Legs = 1
  Reports = {2}
  MaxCalls = 2
  MaxCuts = 1
INVARIANTS
  WindowsAreCurrent
  BooksNest
PROPERTIES
  ChatLimited
  WalkLimited
SYMMETRY Slots
CONSTRAINT OneSort
\* The clock is at its bound and the calls are made.
CHECK_DEADLOCK FALSE
