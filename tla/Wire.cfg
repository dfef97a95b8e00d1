SPECIFICATION Spec
CONSTANTS
  Objs = {1, 2, 3}
  Addrs = {1, 2}
  Fds = {1, 2}
  MaxConns = 1
  MaxSpans = 1
  H2Streams = {1, 3, 5}
  MaxStreams = 1
  OldStreams = {1}
  LateStreams = {1, 3}
  Parented = {1, 3}
  H2Conns = {1, 2}
  H2Tasks = {t1, t2}
  ChunkAddrs = {1, 2}
  IssuerCap = 1
  MaxOpened = 2
  MaxChunks = 4
  Calls = {1, 2}
  Spawners = {t1}
  LineCap = 1
  PendingCaps = {1, 2}
  SniffLimit = 3
  MaxNoise = 1
  Messages <- MCMessages
  Scripts <- MCScripts
  BodyCap = 2
  BufferCap = 3
  Reqs = {11, 12, 13, 14, 15}
  Looks = {12}
  Decoy = 16
  Interim = 22
  RepliesTo <- MCReplies
  WsScripts <- MCWsScripts
  MaxFrame = 3
  SampleCap = 2
  Issuers = {"a", "b"}
  Batches <- MCBatches
  RequestCaps = {3, 5}
  Envelope = 1
  MaxAttempts = 2
  PatchSets = {"A", "B"}
  Slots = {"inh", "inst", "ref"}
  SlotKind <- MCKind
  SlotHas <- MCHas
  MaxWrappers = 3
CHECK_DEADLOCK FALSE
INVARIANTS
  ConnectionsAreOwn
  WsSpanIsTrue
  StreamsAreTrue
  IssuerIsTrue
  McpAccounted
  ParsedIsSent
  RepliesPaired
  BatchAccounted
  RestoreIsHonest
PROPERTIES
  EndsTakeTheirOwn
  OthersKept
