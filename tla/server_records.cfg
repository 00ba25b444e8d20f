SPECIFICATION Spec
CONSTANTS
  a = a
  b = b
  c1 = c1
  c2 = c2
  PsOps = {c1, c2}
  PsPaths = {a, b}
  PsContents = {x, y}
  OsSubscribers = {s1}
  OsMaxAttempts = 2
  OsChanCap = 2
  OsMaxLaunches = 2
  CaSessions = {a}
  CaTasks = {c1, c2}
  CaBudget = 3
  CaQueueMax = 1
  CgSessions = {a, b}
  CgBudget = 3
  CdThreads = {a, b}
  CdOps = {c1, c2}
  CdVersions = 2
  CdSyncs = 2
  ScCalls = {c1, c2}
  ScPaths = {a, b}
  ScLines = 2
  ScEdits = 3
  ScKinds = {"append-only", "replaced"}
  SlModels = {a, b}
  SlLines = 4
  TiPasses = {c1, c2}
  TiMessages = 2
  TiRenames = 1
  WaWrites = 3
  WaTicks = 3
  WaWakeCap = 1
  SbCallbacks = {c1, c2}
  SbChanges = 3
  CuCalls = {c1, c2}
  CuSessions = {a, b}
  CuProjects = {p1, p2}
  UpVersions <- Versions
  UpChecks = {c1, c2}
  UpInstalls = 1
  ArMaxRequests = 2
  ArMaxFlips = 2
INVARIANTS
  RecordsTypeOK
  CaughtUp
  
  WatchersTell
  NothingLeftBehind
  UpgradesForward

  
SYMMETRY Symmetry
CHECK_DEADLOCK FALSE
