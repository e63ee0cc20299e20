SPECIFICATION Spec
CONSTANTS
  Files = {f1, f2}
  Lines = 2
  Cap = 2
  MaxFailures = 1
  NoFile = NoFile
  Unnamed = Unnamed
INVARIANTS
  NoFileLost
