CONSTANTS
  v1 = v1
  v2 = v2
  Key <- Colliding
  Address = {v1}
  Nothing = Nothing
  Hash <- MCHash
  STARTING_BUCKETS = 13
  CONSEC_COLLISION_LIMIT = 10
  CONSEC_RESIZE_LIMIT = 3
  RESIZE_RATIO = 2

SPECIFICATION FillSpec
CHECK_DEADLOCK FALSE

INVARIANT Reachable
