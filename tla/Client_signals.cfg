SPECIFICATION Spec
CONSTANTS
  m = m
  t = t
  w = w
  p = p
  s1 = s1
  s2 = s2
  s3 = s3
  c1 = c1
  c2 = c2
  c3 = c3
  Spans <- ThreeSpans
  Snapshots <- ThreeSnapshots
  Size <- Sizes
  MaxSpans = 1
  MaxBytes = 2
  MaxSignals = 2
  Threads = {m, t}
  Worker = w
  Parser = p
  Scenarios <- Signalled
SYMMETRY SnapshotSymmetry
INVARIANTS
  SentOnce
