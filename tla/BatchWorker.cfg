CHECK_DEADLOCK FALSE
SPECIFICATION FairSpec
CONSTANTS
  c1 = c1
  c2 = c2
  w1 = w1
  w2 = w2
  w3 = w3
  Callers <- TwoCallers
  Workers <- ThreeWorkers
  MaxPid = 2
  FinalizerAt <- OutsideWindow
INVARIANTS
  OneWorker
  SpawnDiscipline
PROPERTIES
  CallsReturn
  WokenWorkDrained
