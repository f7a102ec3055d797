\* Patched calls only: no test need request the adbc_replay fixture.
CONSTANTS
    testA = testA  testB = testB
    main = main  worker = worker
    NoTest = NoTest
    Tests = {testA}
    CassetteName <- OwnName
    Drivers = {"patched"}
    Patched = {"patched"}
    Explicit = {}
    Threads = {main}
    Main = main
    Modes = {"once"}
    FixtureFirst = TRUE
    MaxRuns = 1
    MaxConnections = 2
    MaxQueries = 2
SPECIFICATION Spec
INVARIANT RecordedByConfiguredSession
