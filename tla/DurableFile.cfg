CONSTANTS
  Processes = {{u1, r1}, {u2}, {u3}}
  Updaters = {u1, u2, u3}
  MayStall = FALSE
  MaxDamage = 1
  Gaps = FALSE
  None = None
SPECIFICATION FairSpec
 
PROPERTIES  EveryCallEnds
CHECK_DEADLOCK FALSE
