CONSTANTS
  x = x
  y = y
  Value = {x, y}
  None = None
  Garbage = Garbage
  STARTING_CAPACITY = 2
  INT_MAX = 7
  Faults = {"realloc"}
  Index <- MCIndex
  MaxItems = 8

SPECIFICATION Spec
CHECK_DEADLOCK FALSE

INVARIANTS
  MemoryIsSafe
  SizeIsItems

PROPERTY ImplementsList
