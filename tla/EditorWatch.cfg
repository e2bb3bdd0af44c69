SPECIFICATION EditorWatchSpec
CONSTANTS
  MaxCrashes = 5
  MaxSpawns = 3
  MaxCycles = 1
INVARIANT SingleChild
CHECK_DEADLOCK FALSE
