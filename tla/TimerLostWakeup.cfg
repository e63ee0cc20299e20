SPECIFICATION FairSpec
CONSTANTS
  Timers = {1, 2}
  Conditional = {}
  Threads = {loop, u1}
  Loop = loop
  Periods = {1, 2}
  Hour = 2
  IntMod = 64
  MaxTime = 4
  MaxJumps = 0
  MaxCalls = 1
PROPERTIES
  DueTimerFires
