CONSTANTS
  c1 = c1
  c2 = c2
  a = a
  b = b
  nl = nl
  Client = {c1, c2}
  Char = {a, b, nl}
  NEWLINE = nl
  Input <- MCInput
  LINE_SIZE = 3
  MESSAGE_LIMIT = 5
  Faults = {"loss", "client recvfrom", "client sendto", "server recvfrom", "server sendto"}

SPECIFICATION FairSpec
CHECK_DEADLOCK FALSE

INVARIANTS
  EchoesMatch
  InputIsSent
  EchoesAreCounted

PROPERTY ServerEnds
