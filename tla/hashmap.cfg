CONSTANTS
  v1 = v1
  v2 = v2
  Key <- MCKeys
  Address = {v1, v2}
  Nothing = Nothing
  Hash <- MCHash
  STARTING_BUCKETS = 7
  CONSEC_COLLISION_LIMIT = 3
  CONSEC_RESIZE_LIMIT = 3
  RESIZE_RATIO = 2

SPECIFICATION HashmapSpec
CHECK_DEADLOCK FALSE

INVARIANTS
  HashmapTypeOK
  StoredOnce
  Reachable
  IndexIsValid

PROPERTIES
  ImplementsMap
