CHECK_DEADLOCK FALSE
SPECIFICATION FairSpec
CONSTANTS
  m = m
  o = o
  x1 = x1
  x2 = x2
  Losses = {x1, x2}
  Main = m
  Other = o
  FoldAt = 2
  UnackedCap = 1
  UnsentCap = 2
  MaxCount = 1
  Clock = {1}
  MaxFailures = 2
  MaxReads = 1
  Scenarios <- Hosts
INVARIANTS
  ReadAround
  ReportedOnce
  SignalSeesWhole
PROPERTIES
  EventuallyConfirmed
