SPECIFICATION FairSpec
CONSTANTS
  Files = {f1, f2}
  Lines = 2
  Cap = 2
  MaxFailures = 3
  NoFile = NoFile
  Unnamed = Unnamed
INVARIANTS
  InStep
  FinalEndsWithWholeCopy
  OneLossPerFailure
PROPERTIES
  EveryFileProcessed
