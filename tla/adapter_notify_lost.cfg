SPECIFICATION Spec
CONSTANTS
  NULL = NULL
  c1 = c1
  c2 = c2
  r1 = r1
  r2 = r2
  r3 = r3
  Clients = {c1, c2}
  Requests = {r1, r2, r3}
  ClientOf <- Senders
  IdOf <- SharedIds
INVARIANT WaitersNotified
CHECK_DEADLOCK FALSE
