CHECK_DEADLOCK FALSE
SPECIFICATION Spec
CONSTANTS
  m = m
  t = t
  w = w
  j1 = j1
  j2 = j2
  j3 = j3
  j4 = j4
  Jobs <- AllJobs
  Size <- Sizes
  MaxJobs = 2
  MaxBytes = 2
  Threads = {m, t}
  Worker = w
  MaxDrains = 1
  MaxForks = 0
  Scenarios <- Signalled
INVARIANT SubmitIsTotal
