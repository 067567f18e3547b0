SPECIFICATION Spec
CONSTANTS
  t = t
  m = m
  q = q
  NoOne = NoOne
  Runners = {t}
  Monitors = {m}
  Requests = {q}
  Schedules = {1}
  Dated = {}
  NumStages = 2
  Trigger <- TimeThenManual
  Ops = {"status", "percentage", "schedule", "advance", "rollback"}
  MaxPct = 2
  MaxFaults = 1
INVARIANTS TypeOK LocksProtect RollbackHolds
PROPERTIES NoWideningAfterRollback PauseStopsStages ImplementsCap
