SPECIFICATION MCCommandsSpec
CONSTANTS
  NChanges = 2
  NFixes = 4
  FixPassBound = 3
  Packages = {1, 2, 3}
  Imports <- MCImports
  Home <- MCHome
  Mutants = {1, 2, 3}
  NSlots = 2
  ShardRuns = 3
  ShardWays <- MCShardWays
  Timings <- MCTimings
  PlanTexts <- MCPlanTexts
  Drills = {d1, d2}
  Prunes = {p1, p2}
  MaxLocks = 3
  Dirs = {a, b}
  MaxEdits = 2
  DirRuns = {1, 2}
  Ways <- MCWays
INVARIANTS
  LintFixIsSafe
  NothingIsShared
PROPERTIES
  DrillFinishes
  ChangeIsTested
