SPECIFICATION FairSpec
CONSTANTS
  NULL = NULL
  p1 = p1
  p2 = p2
  h1 = h1
  h2 = h2
  h3 = h3
  Empty = Empty
  a = a
  b = b
  Peers = {p1, p2}
  Handlers = {h1, h2, h3}
  PeerOf <- ThreeEndorsers
  EndorseCount = 2
  Requests = {r1, r2}
  Contents = {a}
  MaxSessionID = 2
  StartID = 1
PROPERTIES
  ImplementsLifecycle
  EventuallyAnswered
CHECK_DEADLOCK FALSE
