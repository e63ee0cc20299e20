SPECIFICATION FairSpec
CONSTANTS
  Threads = {t1, t2}
  Static = 1
  MaxIds = 2
  Values <- MCValues
  Default <- NoDefinition
  Thrown = Thrown
  Cast <- LogDefines
  Docs <- MCDocs
  MaxLoads = 2
  Root = "root"
  Order <- MCOrder
  Plain = "plain"
  None = "none"
  BadFormat = "bad"
  Writers = {p1}
  Calls <- MCCalls
  MaxEvents = 1
  MaxFaults = 1
INVARIANTS
  ListenersKnowTheValue
  LoggersMatchConfig
  NothingLost
PROPERTIES
  EveryCallReturns
CHECK_DEADLOCK FALSE
