SPECIFICATION Spec
CONSTANTS
  m = m
  q = q
  NoOne = NoOne
  Runners = {}
  Monitors = {m}
  Requests = {q}
  Schedules = {1}
  Dated = {}
  NumStages = 1
  Trigger <- AllTime
  Ops = {"percentage"}
  MaxPct = 2
  MaxFaults = 0
INVARIANTS RollbackReachesTarget
