SPECIFICATION Spec
CONSTANTS
  Tasks = {k1, k2, k3}
  Main = main
  Responses = {1, 2, 3}
  Nameless = {3}
  Prompts = {1, 2}
  MaxEntries = 1
  MaxEvictions = 1
  k1 = k1
  k2 = k2
  k3 = k3
  t1 = t1
  a1 = a1
  rt = rt
  Tools = {t1, t2, t3}
  Agents = {a1, a2}
  Root = rt
  AgentOf <- MCAgentOf
  Handled = {t2}
  Unnamed = {t3}
  EntryCap = 1
  Transports = {"k1", "k2"}
  MaxSessions = 1
  MaxRoots = 3
  Roster = {"x", "y"}
  ModelResponses <- MCResponses
  AbortsHandoff = FALSE
  MaxTasks = 2
  MaxTraces = 2
  MaxCalls = 2
  MaxAgents = 2
  MaxTools = 1
CHECK_DEADLOCK FALSE
INVARIANTS
  ChatsAccounted
  ToolsAccounted
  SessionsAreTrue
  RunsAreTrue
