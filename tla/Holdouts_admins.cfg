SPECIFICATION HoldoutSpec
CONSTANTS
  Admins = {a1, a2}
  NoOne = NoOne
  Holdouts = {1, 2, 3}
  Legacy = {1}
  MaxPct = 2
INVARIANTS HoldoutTypeOK OneActive WindowStamped
CHECK_DEADLOCK FALSE
