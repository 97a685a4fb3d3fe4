SPECIFICATION MCSpec
CONSTANTS
  NULL = NULL
  p1 = p1
  p2 = p2
  p3 = p3
  h1 = h1
  h2 = h2
  h3 = h3
  h4 = h4
  Peers = {p1, p2, p3}
  Handlers = {h1, h2, h3, h4}
  PeerOf <- FourEndorsers
  EndorseCount = 2
  Growth = 1
  Sessions = {s1, s2, s3, s4}
  PeerIds <- FiveIds
  Lowest <- LowestId
  IdSpace = 3
  MaxRows = 4
  ProfileCounts = {0, 1, 2, 3}
INVARIANTS
  TableExact
  EvenlySpread
  AdapterTableExact
  PicksEvenlySpread
  ArraysExact
  StartedCanServe
PROPERTIES
  ImplementsPool
