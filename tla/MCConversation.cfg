SPECIFICATION Spec
CONSTANTS
  Clients = {"anthropic", "chat", "responses", "aisdk"}
  Upstreams <- MCUpstreams
  Asks <- MCAsks
  Replies <- MCReplies
  Remarks <- MCRemarks
  MaxTurns = 4
  MaxImages = 2
INVARIANTS
  UpstreamAccepts
  NothingLost
  CacheKept
CHECK_DEADLOCK FALSE
