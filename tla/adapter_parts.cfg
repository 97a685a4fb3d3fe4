SPECIFICATION MCSpec
CONSTANTS
  NULL = NULL
  c1 = c1
  c2 = c2
  r1 = r1
  r2 = r2
  r3 = r3
  h1 = h1
  h2 = h2
  Empty = Empty
  a = a
  Clients = {c1, c2}
  Requests = {r1, r2, r3}
  ClientOf <- Senders
  IdOf <- SharedIds
  Handlers = {h1, h2}
INVARIANTS
  TypeOK
  NoStaleAddress
  AnswerReachesAsker
  AloneExact
PROPERTIES
  EventuallyAnswered
  CallsAnswered
CHECK_DEADLOCK FALSE
