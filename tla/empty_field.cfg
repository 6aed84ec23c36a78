SPECIFICATION Spec
CONSTANTS
  MaxArg = 5
  Files <- SmallFiles
  Uninitialised = Uninitialised
INVARIANTS
  FilledOnSuccess
CHECK_DEADLOCK FALSE
