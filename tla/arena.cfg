SPECIFICATION Spec
CONSTANTS
  WORD = 2
  ARENA_REGION_DEFAULT_CAPACITY = 3
  ARENA_DA_INIT_CAP = 1
  ITEM = 1
  Request <- MCRequest
  Piece = {1, 3}
  Faults = {"malloc"}
  MaxRegions = 3
  MaxBlocks = 4
  MaxMarks = 2
INVARIANTS NoOverlap RoomForAll MarksAreLive ArrayFits
CHECK_DEADLOCK FALSE
