SPECIFICATION SessionSpec
CONSTANTS
  Parts = {"history", "files", "outcome", "journal", "outputs", "conversations", "memory"}
  Procs = {p, q}
  Recent = 1
  Rooms = {2, 3}
  MaxTurns = 4
  MaxArtifacts = 1
  Processes = {x, y, z}
  SegmentSize = 1
  MaxRecords = 1
  MaxContexts = 2
  Stores = {s, t, u}
  Private = {u}
  Secrets = {k}
  MaxBytes = 2
  Retention = 1
  MaxSaves = 2
  MaxTime = 1
  Kinds = {fact}
  Texts = {a, b}
  MaxItems = 2
  MaxShown = 1
  MaxMoments = 5
  MaxEnded = 2
  MaxConversations = 2
  MaxAsked = 2
  MaxTasks = 2
  MaxEvents = 4
  MaxRuns = 2
  MaxDamage = 1
  None = None
INVARIANTS ToldAsItIs JournalIsTheRun ReferencesStayReadable DeletedIsGone TurnsKept
PROPERTIES  MemoryIsKept
SYMMETRY Alike
CHECK_DEADLOCK FALSE
