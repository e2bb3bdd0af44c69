SPECIFICATION MCSpec
CONSTANTS
    db = db
    api = api
    cache = cache
    bus = bus
    peer = peer
    s1 = s1
    r1 = r1
    Runs = {r1, r2}
    Sweepers = {s1, s2}
    Order <- MCOrder
    DependsOn <- MCDependsOn
    Shared = {bus, peer}
    Unnamed = {peer}
    Retries = 1
INVARIANTS ReleasedOnceEach FailureHasCulprit LinksAloneUntilTaken ServesUntilTaken
PROPERTIES GraphLives SetupEnds EvictsOnlyUnused RunsEnd
