SPECIFICATION FairRunSpec
CONSTANTS
    db = db
    api = api
    bulk = bulk
    group = group
    tail = tail
    Fixtures <- MCFixtures
    Deps <- MCDeps
    Deferred <- MCDeferred
    Retries = 0
    MaxCommands = 4
    Suites <- MCSuites
    Needs <- MCNeeds
    SlotOf <- MCSlotOf
    LastSlot = 2
    SetupTimeout = "own"
    Untimed = {db}
INVARIANTS
    NoAfterAllBesideBeforeAll ReleasedOnce GreenMeansReleased
PROPERTIES FixturesServe OnlyOverdueIsKilledAtOnce RunEnds
