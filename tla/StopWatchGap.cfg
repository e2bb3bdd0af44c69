SPECIFICATION GivenSpec
CONSTANTS
    db = db
    api = api
    m1 = m1
    m2 = m2
    Order <- MCOrder
    DependsOn <- MCDependsOn
    Shared = {}
    Unnamed = {}
    Retries = 0
    Suites = 1
    Binding = {}
    Methods = {m1}
    Parallel = FALSE
    Runner = FALSE
    MaxSignals = 1
    GapStops = TRUE
PROPERTY StopEnds
