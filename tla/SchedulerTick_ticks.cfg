SPECIFICATION FairSpec
CONSTANTS
  Replicas = {r1, r2, r3}
  NoOne = NoOne
  MaxFaults = 3
INVARIANTS
  TypeOK
  LiveRunnerUnique
  LockDiscipline
PROPERTIES
  ImplementsMutex
  LockIsFreed
  TicksForever
