SPECIFICATION FairSpec
CONSTANTS
    db = db
    api = api
    Fixtures <- MCFixtures
    Deps <- MCDeps
    Deferred <- MCDeferred
    Retries = 1
    MaxCommands = 2
INVARIANT TerminalTeardownAlone
PROPERTIES NeverRestarted ShutdownEnds
