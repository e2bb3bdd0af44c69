SPECIFICATION MCToolsSpec
CONSTANTS
  FuzzTargets = {"t", "u"}
  Crashers = {1, 2}
  TargetOf <- MCTargetOf
  Sessions = {1, 2}
  Promoters = {p}
  MaxTouches = 1
  Hosts = {h1, h2, h3}
  Children = {c1}
  RunRequests = {1, 2}
  TreePackages = {a, b}
  MaxSaves = 2
  Folders = {"f", "g"}
  FolderPackages <- MCFolderPackages
  MaxChanges = 2
  MaxRefreshes = 1
  MaxAttempts = 2
  CliModules = {"m", "n"}
  Releases = {1, 2, 3}
  ReleaseLine <- MCReleaseLine
  CliFloor = 2
  ModuleLines <- MCModuleLines
  MaxFloorHits = 2
  MaxCrashes = 5
  MaxSpawns = 3
  MaxCycles = 2
  UpFrontKeys = {"a"}
  DeferredKeys = {"d", "e"}
  SetupLasts <- MCSetupLasts
  Flats <- MCFlats
  ReportFloor = 1
  Unreported = 2
  Horizon = 2
  MaxWords = 4
  Suites <- MCSuites
  TestlessIn = {"c"}
  FuzzOf <- MCFuzzOf
  NamedGroup <- MCNamedGroup
  ExclusiveIn = {"b"}
  BenchesIn = {"a", "b", "c"}
  Required <- MCRequired
  Dependencies <- MCDependencies
  Subtests = {"x", "y"}
  Patterns <- MCPatterns
  SubNames <- MCSubNames
  BenchTexts <- MCBenchTexts
  MaxTops = 2
  MaxSubs = 2
  MaxClock = 1
  Requests <- MCRequests
  MaxShows = 2
  TestFiles <- MCTestFiles
  TestifySuites <- MCTestifySuites
  DirectoryFamilies <- MCFamilies
  Held <- MCHeld
  Written <- MCWritten
  BenchRuns = {1, 2}
  Benches = {"k", "l"}
  FileOf <- MCFileOf
  Scenarios <- MCScenarios
  MaxHistory = 2
INVARIANTS
  FindsAreKept
  EditorIsTrue
  BudgetsAreHonoured
  RunIsSelected
  CommandsAreTrue
  RewritesAreTrue
PROPERTIES
  EditorKeepsRecords
CHECK_DEADLOCK FALSE
