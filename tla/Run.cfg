SPECIFICATION MCRunSpec
CONSTANTS
  Trees = {t1}
  Kinds = {"suite", "build", "helper", "fixture"}
  NSuites = 4
  NPackages = 3
  PackageOf <- MCPackageOf
  GroupOf <- MCGroupOf
  Exclusive = {2}
  Selections = {{1, 2, 3, 4}, {2, 3}}
  NeedSets = {{}, {1, 2, 4}}
  MaxParallel = 2
  SuiteCount = 2
  MethodCount = 1
  MethodTotal = 2
  HookTotal = 2
  Goers = {g1, g2, g3}
  InputFamilies <- MCInputs
  BindFamilies <- MCSights
  SnapCalls = {1, 2, 3, 4}
  SnapSource <- MCSnapSource
  SnapKey <- MCSnapKey
  OldKey <- MCOldKey
  SnapValues <- MCSnapValues
  Baselines <- MCBaselines
INVARIANTS
  ExitIsClean
  StopIsGraceful
  ExclusiveAlone
  StreamIsTrue
  GreenRanDeclared
  MethodsAreBounded
PROPERTY GivenUpEnds
