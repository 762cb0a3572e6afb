CONSTANTS
  Word <- MCWord
  Wire <- MCWire

SPECIFICATION Spec
CHECK_DEADLOCK FALSE

INVARIANTS
  ResidualIsOneLine
  CleanCutsTransparent
  ForwardedFaithfully

PROPERTY FinIsHarmless
