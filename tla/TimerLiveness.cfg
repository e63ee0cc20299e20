SPECIFICATION FairSpec
CONSTANTS
  Timers = {1, 2}
  Conditional = {1}
  Threads = {loop}
  Loop = loop
  Periods = {1}
  Hour = 2
  IntMod = 64
  MaxTime = 4
  MaxJumps = 1
  MaxCalls = 2
PROPERTIES
  DueTimerFires
