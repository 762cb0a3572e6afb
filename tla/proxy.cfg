CONSTANTS
  c1 = c1
  c2 = c2
  Client = {c1, c2}
  BIND = BIND
  None = None
  BUFFER = 8
  MAX_AGE = 1
  LISTEN_BACKLOG = 1
  Word <- MCWord
  Script <- Core
  Pipeliners = {}
  Finishers = {c1, c2}
  SlowReaders = {}
  SNDBUF = 4
  Uri <- MCUri
  Site <- MCSite
  Stamp <- MCStamp
  UpstreamCut = {6}
  Hanging = {}
  UPSTREAM_DELAY = 1
  Faults = {}
  MaxTime = 3

SPECIFICATION FairSpec
CHECK_DEADLOCK FALSE

INVARIANTS
  CleanedEverywhere
  NothingLeftToSend
  CacheHoldsPages
  EncodingIsDeclared
  ProxySurvives

PROPERTIES
  ImplementsService
  Served
  GoneIsClosed
