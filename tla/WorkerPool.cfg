CONSTANTS
  Workers = {i1, i2, i3, r1}
  Writers = {i1, i2, i3}
  MaxWorkers = 3
  MaxParallel = 2
  MaxPlaces = 3
  MaxEdits = 1
SPECIFICATION Spec
INVARIANT EffectsRecorded
PROPERTIES PoolIsSafe ImplementsLock EveryRoundEnds
CHECK_DEADLOCK FALSE
