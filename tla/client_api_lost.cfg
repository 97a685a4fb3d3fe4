SPECIFICATION ApiFairSpec
CONSTANTS
  NULL = NULL
  AppID = 1
  Threads = {t1, t2, t3}
  CThreads = {t1}
  Requests = {r1}
INVARIANTS ProposalAnswered
CHECK_DEADLOCK FALSE
