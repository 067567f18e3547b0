SPECIFICATION FairSpec
CONSTANTS
  p1 = p1
  p2 = p2
  q1 = q1
  q2 = q2
  q3 = q3
  Processes = {p1, p2}
  Requests = {q1, q3}
  Home <- MCHome
  Connections = {c1}
  Runs = {r1, r2}
  None = None
  PerProcess = 2
  MaxConcurrent = 2
  DailyLimit = 1
  Total = 1
  Slack = 1
  Margin = 1
  AdmissionWait = 1
  MaxLate = 2
INVARIANTS OneJobPerConnection SweptIsDead DailyLimitKept
PROPERTIES SlotsAreFreed
