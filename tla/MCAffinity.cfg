SPECIFICATION AffinitySpec
CONSTANTS
  r1 = r1
  r2 = r2
  NoKey = NoKey
  Chats <- MCChats
  Versions <- MCVersions
  SessionKeys = {k1}
  Typos <- MCTypos
  ClaudeNames <- MCClaudeNames
  Levels <- MCLevels
  Dashed <- MCDashed
  TTL = 1
  MaxTime = 2
  MaxMoves = 2
SYMMETRY Symmetry
INVARIANTS
  WalksWhatWasListed
PROPERTIES
  BindsOwnWin
CHECK_DEADLOCK FALSE
