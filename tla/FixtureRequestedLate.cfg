\* The test opens connections before and after it requests the adbc_replay fixture.
CONSTANTS
    testA = testA  testB = testB
    main = main  worker = worker
    NoTest = NoTest
    Tests = {testA}
    CassetteName <- OwnName
    Drivers = {"patched"}
    Patched = {"patched"}
    Explicit = {}
    Threads = {main}
    Main = main
    Modes = {"all"}
    FixtureFirst = FALSE
    MaxRuns = 1
    MaxConnections = 2
    MaxQueries = 2
SPECIFICATION Spec
INVARIANT OneStatePerCassette
