\* adbc_connect opens a driver whose connect() is patched.
CONSTANTS
    testA = testA  testB = testB
    main = main  worker = worker
    NoTest = NoTest
    Tests = {testA}
    CassetteName <- OwnName
    Drivers = {"patched"}
    Patched = {"patched"}
    Explicit = {"patched"}
    Threads = {main}
    Main = main
    Modes = {"once"}
    FixtureFirst = TRUE
    MaxRuns = 1
    MaxConnections = 2
    MaxQueries = 2
SPECIFICATION Spec
INVARIANT RecordsWhatItAsks
