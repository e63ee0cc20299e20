SPECIFICATION Spec
CONSTANTS
  Zone = 28800
  Bits = 6
  MAXPARAMS = 12
  Order <- MCOrder
  None = "none"
  Thrown = Thrown
  SqlWidth <- MCSqlWidth
  Inputs <- MCInputs
INVARIANTS
  MatchMeansGlob
  SplitAndReplace
  MessagesAndFiles
  PatternParses
  ValuesRoundTrip
  
CHECK_DEADLOCK FALSE
