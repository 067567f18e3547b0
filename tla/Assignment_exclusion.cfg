SPECIFICATION Spec
CONSTANTS
  Admins = {}
  NoOne = NoOne
  Holdouts = {}
  Legacy = {}
  MaxPct = 2
  Requests = {q1, q2}
  Users = {u}
  Variants = {v1, v2}
  None = None
  Experiments = {1, 2}
  Bandits = {2}
  HashRange = 2
  MaxRegroup = 2
  Hashed <- MCHashed
  Bucket <- MCBucket
  Hash <- MCHash
PROPERTIES ExclusiveUnlessRaced
SYMMETRY MCSymmetry
CHECK_DEADLOCK FALSE
