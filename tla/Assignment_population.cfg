SPECIFICATION Spec
CONSTANTS
  Admins = {a}
  NoOne = NoOne
  Holdouts = {1, 2}
  Legacy = {1}
  MaxPct = 2
  Requests = {q1, q2}
  Users = {u}
  Variants = {v1, v2}
  None = None
  Experiments = {1}
  Bandits = {1}
  HashRange = 2
  MaxRegroup = 0
  Hashed <- MCHashed
  Bucket <- MCBucket
  Hash <- MCHash
INVARIANTS TypeOK AnswersAgree MetAreRecorded ArmsMatchPercentage
PROPERTIES ImplementsHoldoutLife
SYMMETRY MCSymmetry
CHECK_DEADLOCK FALSE
