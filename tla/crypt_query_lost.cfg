SPECIFICATION FairSpec
CONSTANTS
  NULL = NULL
  p1 = p1
  p2 = p2
  h1 = h1
  h2 = h2
  h3 = h3
  Empty = Empty
  a = a
  b = b
  Peers = {p1, p2}
  Handlers = {h1}
  PeerOf <- OneEndorser
  EndorseCount = 1
  Requests = {r1}
  Contents = {a}
  MaxSessionID = 2
  StartID = 1
PROPERTIES QueryEventuallyAnswered
CHECK_DEADLOCK FALSE
