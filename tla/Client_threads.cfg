SPECIFICATION Spec
CONSTANTS
  m = m
  t = t
  w = w
  p = p
  s1 = s1
  s2 = s2
  s3 = s3
  c1 = c1
  c2 = c2
  c3 = c3
  Spans <- ThreeSpans
  Snapshots <- ThreeSnapshots
  Size <- Sizes
  MaxSpans = 2
  MaxBytes = 2
  MaxSignals = 0
  Threads = {m, t}
  Worker = w
  Parser = p
  Scenarios <- Threaded
SYMMETRY Symmetry
INVARIANTS
  Accounted
PROPERTIES
  ImplementsOutbox
