SPECIFICATION Spec
CONSTANTS
  p1 = p1
  p2 = p2
  q1 = q1
  q2 = q2
  q3 = q3
  Processes = {p1, p2}
  Requests = {q1, q2, q3}
  Home <- MCHome
  Connections = {c1, c2}
  Runs = {r1, r2}
  None = None
  PerProcess = 2
  MaxConcurrent = 1
  DailyLimit = 1
  Total = 1
  Slack = 0
  Margin = 0
  AdmissionWait = 0
  MaxLate = 0
INVARIANTS TypeOK JobsWithinLimit
PROPERTIES ImplementsRunLife
SYMMETRY MCSymmetry
