SPECIFICATION Spec
CONSTANTS
  Routes <- AllRoutes
  MaxCalls = 2
  MaxSaid = 4
  MaxServed = 1
  HoldCap = 4
INVARIANTS
  ContentArrives
  CallsAgree
  BodyIsStream
PROPERTIES
  AnthropicBlocks
  ResponsesItems
CHECK_DEADLOCK FALSE
