CONSTANTS
  BASE = 16
  Capture <- MCCapture
  Junk <- MCJunk
  Faults = {"open", "read"}
  MaxCount = 5

SPECIFICATION FairSpec
CHECK_DEADLOCK FALSE

INVARIANTS
  StaysAligned
  CountsAreRight

PROPERTY Ends
