SPECIFICATION FairSpec
CONSTANTS
  Workers = {w1, w2}
  Tasks = {c1, c2, c3}
  Nested = {}
  NoTask = NoTask
  Free = Free
  MaxQueue = 2
  Fds = {5}
  Listen = Listen
  NoFd = NoFd
INVARIANTS
  DescriptorsAgree
  AnsweredOnce
  WaitsOnlyWhenStale

  
CHECK_DEADLOCK FALSE
