SPECIFICATION FairSpec
CONSTANTS
  NULL = NULL
  AppID = 1
  Threads = {t1, t2, t3}
INVARIANTS OkMeansInitialised
CHECK_DEADLOCK FALSE
