SPECIFICATION Spec
CONSTANTS
  p1 = p1
  p2 = p2
  m1 = m1
  m2 = m2
  free1 = free1
  free2 = free2
  paid = paid
  Providers = {p1, p2}
  Models = {m1, m2}
  AnyModel = any
  NoEntry = none
  LadderBase = 1
  LadderCap = 40
  LongestSpan = 4
  LevelMax = 3
  Requests = {r1}
  Cands <- ChainCands
  KeyOf <- ChainKeys
  BareOf <- ChainKeys
  ModelOf <- ChainModels
  WindowOf <- ChainWindows
  Free = {free1, free2}
  Native = {free2}
  Disabled = {}
  Toolless = {free1}
  Earlier <- NetworkBlock
  Routes <- ChainAndSingle
  Sizes = {1, 2}
  Needs = {{}, {"server tools"}}
  Gates = {"rate", "period limit", "total budget", "failure rate"}
  Replies = {"local", "died", "rate", "credits", "auth", "context", "ruleQuota", "bad"}
  RetryAfters = {2}
  Reports <- SomeReports
  QuotaSpans <- WindowSpans
  MinuteSpan = 2
  HourSpan = 4
  QuotaSpan = 4
  HeadersSpan = 4
  RpmWait = 1
  MaxRetryWait = 3
  MaxRetries = 1
INVARIANTS
  HonestBadRequest
  RefusalIsUnanimous
  PaidReserveKept
PROPERTIES
  RewalkNotFutile
  Answered
CHECK_DEADLOCK FALSE
