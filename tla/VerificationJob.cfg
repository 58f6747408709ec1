SPECIFICATION Spec
CONSTANTS
  Checks = {test}
  Contracts = {{test}}
  Other = other
  Main = main
  Workers = {}
  Writers = {}
  JobCommands = {test}
  MaxClock = 4
  MaxMalformed = 0
  MaxExternal = 0
  MaxJobs = 1
  MaxResumes = 0
  MaxRepairs = 1
CHECK_DEADLOCK FALSE
INVARIANT
  FreshCoversChanges
