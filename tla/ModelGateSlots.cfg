\* No budget: callers share two slots with an interval between starts, a
\* cooldown and retries.
SPECIFICATION Spec
CONSTANTS
  Requests = {r1, r2, r3}
  TokenBudget = 0
  MaxUsage = 0
  ResumedUsage = 0
  MaxConcurrent = 2
  MinInterval = 1
  MaxAttempts = 2
  MaxWait = 1
PROPERTY SlotsAreShared
CHECK_DEADLOCK FALSE
