SPECIFICATION Spec
CONSTANTS
  MaxArg = 5
  Files <- SmallFiles
  Uninitialised = Uninitialised
INVARIANTS
  SplitExactly NothingLeaked LoadsExactlyTables RowsLoadedAsWritten ShardsLoad
CHECK_DEADLOCK FALSE
