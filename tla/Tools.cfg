SPECIFICATION Spec
CONSTANTS
  Parts = {"files", "permissions", "changes", "prompt", "menu", "settings"}
  Paths = {a, b, c}
  MaxEntries = 2
  MaxCalls = 1
  MaxEdits = 1
  Mode = "ask-once"
  Slots = {s1, s2}
  Dirs = {d, e}
  Commands = {c1}
  Registrations = {t1, t2}
  Asking = {t2}
  ForWorkers = {t1}
  MaxTasks = 2
  MaxAsked = 2
  MaxChanges = 1
  Whole = whole
  History <- SomePrompts
  Keys = {"x", " ", "/", "@", "$"}
  MaxLength = 2
  MaxLoads = 1
  Options <- SomeOptions
  FilterKeys = {"x", "y"}
  Rows = 3
  Users = {u1, u2}
  Providers = {"a", "b"}
  Models <- SomeModels
  Values = {1}
  MaxUpdates = 3
  None = None
INVARIANTS OnlyWhatIsAllowed EnterTakesWhatIsShown
PROPERTIES PatchesAreHonest UndoTouchesTheTasksOnly
CHECK_DEADLOCK FALSE
SYMMETRY Alike
