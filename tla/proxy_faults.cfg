CONSTANTS
  c1 = c1
  c2 = c2
  Client = {c1, c2}
  BIND = BIND
  None = None
  BUFFER = 8
  MAX_AGE = 1
  LISTEN_BACKLOG = 1
  Word <- MCWord
  Script <- TwoPages
  Pipeliners = {c1}
  Finishers = {c2}
  SlowReaders = {c1}
  SNDBUF = 4
  Uri <- MCUri
  Site <- MCSite
  Stamp <- MCStamp
  UpstreamCut = {4, 6}
  Hanging <- MCHanging
  UPSTREAM_DELAY = 1
  Faults = {"reset", "refused", "broken", "aborted", "truncated"}
  MaxTime = 2

SPECIFICATION Spec
CHECK_DEADLOCK FALSE

INVARIANTS
  WatchListsConsistent
  RequestsAreLive
  NoExtraAnswers
