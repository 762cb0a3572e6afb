CONSTANTS
  Unknown = Unknown
  None = None
  Host <- MCHost
  AddressOf <- MCAddressOf
  OUR_CHOSEN_ID = 100
  RETRY_LIMIT = 4
  Elsewhere <- MCElsewhere
  MaxTrouble = 5
  Faults = {"loss", "sendto", "recvfrom"}
  Character <- MCCharacter
  Address <- MCAddress
  Following <- MCFollowing
  MaxLength = 6

SPECIFICATION FairSpec
CHECK_DEADLOCK FALSE

INVARIANTS
  PrintsItsAddress
  NoFlood
  NeverWaitsInVain
  NameSurvives
  AddressIsFound

PROPERTY Resolved
