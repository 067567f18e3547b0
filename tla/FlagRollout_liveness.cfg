SPECIFICATION FairSpec
CONSTANTS
  t = t
  q = q
  NoOne = NoOne
  Runners = {t}
  Monitors = {}
  Requests = {q}
  Schedules = {1}
  Dated = {1}
  NumStages = 3
  Trigger <- AllTime
  Ops = {"schedule", "rollback"}
  MaxPct = 3
  MaxFaults = 1
PROPERTIES TimeStageAfterPredecessors LockReleased RolloutFinishes
