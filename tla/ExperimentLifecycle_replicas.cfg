SPECIFICATION FairSpec
CONSTANTS
  Replicas = {r1, r2}
  None = None
  Ops = {"pause", "schedule"}
  Targeting = {"part"}
  Readiness = {TRUE}
  Hour = 1
  Buffer = 0
  MaxTime = 2
  MaxDate = 2
  MaxFaults = 1
INVARIANTS
  PartialHasId
PROPERTIES
  StartsHappen
  EndsHappen
  PauseHoldsUnlessRaced
