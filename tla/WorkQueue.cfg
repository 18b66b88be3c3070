\* The liveness property rules out symmetry.
SPECIFICATION FairSpec
CONSTANTS
  Items = {i1, i2}
  Roles = {technical, news}
  GapRoles = {technical}
  Drains = {d1, d2}
  None = None
  MaxAttempts = 2
  MaxStops = 2
  MaxFaults = 1
INVARIANTS OneRunningPerLane CallOwnsItem OneCallPerAttempt QueueOrder
PROPERTIES QueuedItemsServed
CHECK_DEADLOCK FALSE
