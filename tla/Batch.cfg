SPECIFICATION Spec
CONSTANTS
  Get = get
  Put = put
  Programs = {get, put}
  Mates = {put}
  Pids = {a, b}
  MaxNum = 2
  MaxFaults = 1
  Setups <- MCSetups
  MaxVersion = 2
SYMMETRY PidSymmetry
INVARIANTS
  
  NoSecondRecord
  LockOutlivesHolder
  NewestNotLost
CHECK_DEADLOCK FALSE
