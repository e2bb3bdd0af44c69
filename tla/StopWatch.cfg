SPECIFICATION MCSpec
CONSTANTS
    db = db
    api = api
    m1 = m1
    m2 = m2
    Order <- MCOrder
    DependsOn <- MCDependsOn
    Shared = {}
    Unnamed = {}
    Retries = 0
    Suites = 2
    Binding = {2}
    Methods = {m1}
    Parallel = FALSE
    Runner = TRUE
    MaxSignals = 2
    GapStops = FALSE
INVARIANTS NothingLeftBehind ForcedReleases SettledMeansOver OneSignalNeverForces
PROPERTY StopEnds
