SPECIFICATION EndsSpec
CONSTANTS
  Parts = {"scope", "job"}
  Lingers = TRUE
  Crashes = TRUE
  Handles = {h1, h2}
  Listeners = {l1}
  Plain = {r1}
  Slow = {r1}
  Calls = {c1}
  WorkerCalls = {c1}
  Others = {e1}
  NeedApproval = {h1}
  NotForWorkers = {h2}
  None = None
INVARIANT GoneWhenSaid
PROPERTIES ScopeIsSafe ImplementsLifetime EverythingEnds
CHECK_DEADLOCK FALSE
