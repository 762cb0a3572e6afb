CONSTANTS
  Word <- MCWord
  Wire <- ShortGet

SPECIFICATION Spec
CHECK_DEADLOCK FALSE

INVARIANT FragmentationTransparent
