SPECIFICATION EvidenceSpec
CONSTANTS
  Parts = {"verification", "guard", "progress"}
  Checks = {test}
  Contracts = {{}, {test}}
  Other = other
  Main = main
  Workers = {w1}
  Writers = {w1}
  JobCommands = {other}
  MaxClock = 3
  MaxMalformed = 1
  MaxExternal = 1
  MaxJobs = 1
  MaxResumes = 1
  MaxRepairs = 1
  Files = {f}
  Tools = {"read", "edit", "list", "shell", "agent"}
  Window = 2
  MaxFailures = 2
  Streak = 4
  Cooldown = 2
  MaxPeriod = 4
  MaxCalls = 4
  MaxEffects = 1
  Shells = {"c"}
  Statuses = {0, 1}
  StallLimit = 2
  MaxBatch = 2
  MaxChanges = 2
  None = None
INVARIANTS FreshCoversChanges CompletedIsVerified StalledMeansQuiet
PROPERTY MemoryIsHonest
CHECK_DEADLOCK FALSE
