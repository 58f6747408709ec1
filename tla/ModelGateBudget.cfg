\* Three callers under a token budget, a resumed task's usage included.
SPECIFICATION Spec
CONSTANTS
  Requests = {r1, r2, r3}
  TokenBudget = 1
  MaxUsage = 2
  ResumedUsage = 1
  MaxConcurrent = 2
  MinInterval = 0
  MaxAttempts = 2
  MaxWait = 1
PROPERTIES BudgetHolds EveryCallSettles
CHECK_DEADLOCK FALSE
