SPECIFICATION SweepsSpec
CONSTANTS
    db = db
    api = api
    cache = cache
    bus = bus
    peer = peer
    s1 = s1
    r1 = r1
    Runs = {r1, r2}
    Sweepers = {s1, s2}
    Order <- ThreeOrder
    DependsOn <- ThreeDependsOn
    Shared = {}
    Unnamed = {}
    Retries = 0
INVARIANT LinksAlone
