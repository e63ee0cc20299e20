SPECIFICATION Spec
CONSTANTS
  Threads = {t1, t2}
  Conns = {c1, c2, c3}
  Calls = {j1, j2}
  PoolSize = 1
  Tries = 2
  MaxDrops = 2
  FailingIn = {FALSE}
  DefaultDb = DefaultDb
  Databases = {OtherDb}
  NoDb = NoDb
  NoConn = NoConn
  NoCall = NoCall
INVARIANTS
  IdleIsUnused
  AckedIsStored
  AllOrNothing
  
SYMMETRY Symmetric
CHECK_DEADLOCK FALSE
