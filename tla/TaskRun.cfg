SPECIFICATION Spec
CONSTANTS
  None = None
  Replies <- SomeReplies
  MaxSteps = 1
  MaxExtensions = 1
  MaxRuns = 2
  MaxRepairs = 1
  MaxIdle = 1
  MaxParallel = 2
  Recent = 1
INVARIANTS RequestAccepted NothingForgotten SavedContinues NeverStuck
PROPERTY StateIsTold
CHECK_DEADLOCK FALSE
