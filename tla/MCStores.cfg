SPECIFICATION Spec
SYMMETRY Alike
CONSTANTS
  Kinds = {"memory", "docs", "captures", "captures on error", "report", "stats", "rows", "parses"}
  Callers = {c1, c2}
  Paths <- MCPaths
  Trees <- MCTrees
  Texts <- MCTexts
  Sought <- MCSought
  MaxSize = 4
  MaxCommands = 2
  MaxMoment = 3
  MaxBack = 1
  Finders = {f1, f2}
  Ttl = 1
  FetchTime = 1
  Indexed = 1
  Versioned = 2
  Written = 1
  Attempts = {t1, t2}
  MaxFiles = 1
  MaxAge = 1
  PruneGap = 1
  Providers <- MCProviders
  Listings <- MCListings
  Entries <- MCEntries
  MinEntries = 1
  DefaultWindow = 4
  MaxRefreshes = 1
  Documents <- MCDocuments
  PageLimits = {1, 2}
  Parsers = {u1, u2}
  Legs <- MCLegs
  MediaLegs <- MCMediaLegs
  Spans = {1}
  Outcomes = {"ok"}
  Tables <- MCTables
  Answering = {"ok", "truncated", "refused"}
  Retain = 1
  SweepGap = 1
  MaxRows = 2
  MaxRuns = 1
  Every = Every
INVARIANTS
  CommandsKept
  DocsFresh
PROPERTIES
  NewestKept
  ReportsStand
CHECK_DEADLOCK FALSE
