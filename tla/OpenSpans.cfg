SPECIFICATION Spec
CONSTANTS
  MaxSpans = 3
  Main = main
  Other = other
  MaxOpen = 2
  Chunk = 2
  MaxBuffer = 2
  MaxClients = 2
  MaxSignals = 1
  Scenarios <- MCScenarios
CHECK_DEADLOCK FALSE
INVARIANTS
  Accounted
  DueAreSaid
PROPERTIES
  CostsNoFinished
  HandlerEnds
