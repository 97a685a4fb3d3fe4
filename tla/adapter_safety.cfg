SPECIFICATION Spec
CONSTANTS
  NULL = NULL
  p1 = p1
  p2 = p2
  h1 = h1
  h2 = h2
  Empty = Empty
  a = a
  b = b
  Peers = {p1, p2}
  Handlers = {h1, h2}
  PeerOf <- TwoEndorsers
  EndorseCount = 2
  TxKinds = {"regist", "info", "propose"}
  QueryKinds = {"queryUser", "queryTrans"}
  Calls <- WaitingCalls
  Requests = {r1, r2}
  Contents = {a, b}
  MaxSessionID = 2
  StartID = 2
SYMMETRY Symmetry
CONSTRAINT OthersAlone
INVARIANTS
  TypeOK
  TimersExact
  OnlyRefusedUnmapped
  NoCrossTalk
  SubmitFullyEndorsed
  OkTruthful
PROPERTIES
  NoSubmitAfterResponse
  ImplementsLifecycle
CHECK_DEADLOCK FALSE
