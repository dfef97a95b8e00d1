SPECIFICATION Spec
CONSTANTS
  UThreads = {t1, t2}
  UKeys = {k1, k2}
  URanks = {0, 1}
  UOwners = {a}
  UHosts <- MCHosts
  Unbuildable = {3}
  AKeys = {k1, k2}
  MaxAliasUnits = 2
  MaxEntries = 1
  MaxLinkTargets = 1
  c1 = c1
  c2 = c2
  c3 = c3
  u1 = u1
  u2 = u2
  Ctxs = {c1, c2, c3}
  First = c1
  LUnits = {u1, u2}
  Unitless = Unitless
  Loop <- MCLoop
  Under <- MCUnder
  Interleaved = FALSE
  MaxScopes = 2
  MaxInits = 2
  Threads = {"a", "b"}
  Libs <- MCLibs
  SlotsOf <- MCSlots
  SignalPoints = {"lib", "mark", "recheck", "restore", "drop", "clear"}
  MaxUninstalls = 4
  Seams <- MCSeams
  Adapters <- MCAdapters
  MaxClients = 3
  ReentryPoints = {"seams", "prop", "close", "set"}
  Handlers = {"h1", "h2", "h3"}
  Contexts = {"host", "pool"}
  HostContext = "host"
  ScopeHosts <- MCScopeHosts
CHECK_DEADLOCK FALSE
INVARIANTS
  DraftsAccounted
  NamesAreTrue
  AmbientIsTrue
  InjectionIsWhole
  NothingLeftBehind
  SignalsReachHost
  
