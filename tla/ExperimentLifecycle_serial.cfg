SPECIFICATION Spec
CONSTANTS
  Replicas = {r1}
  None = None
  Ops = {"start", "pause", "complete", "archive", "schedule", "update", "delete"}
  Targeting = {"open", "part"}
  Readiness = {TRUE}
  Hour = 2
  Buffer = 1
  MaxTime = 4
  MaxDate = 5
  MaxFaults = 1
INVARIANTS
  TypeOK
  ChecksSuffice
  PartialHasId
  DatesTellTheTruth
PROPERTIES
  ImplementsLife
