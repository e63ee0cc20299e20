SPECIFICATION FairClientSpec
CONSTANTS
  Workers = {w1, w2, w3}
  Tasks = {t1, t2, t3, t4}
  Nested = {t4}
  NoTask = NoTask
  Free = Free
  MaxQueue = 3
  OwnerDestroys = TRUE
INVARIANTS
  RunsUnderLock
  InOrderExactlyOnce
  DrainedBeforeExit
PROPERTIES
  ImplementsExecutor
  EveryTaskRuns
CHECK_DEADLOCK FALSE
