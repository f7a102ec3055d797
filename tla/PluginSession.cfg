\* Two tests on one cassette name, one patched driver and one opened explicitly, two threads.
CONSTANTS
    testA = testA  testB = testB
    main = main  worker = worker
    NoTest = NoTest
    Tests = {testA, testB}
    CassetteName <- OneName
    Drivers = {"patched", "explicit"}
    Patched = {"patched"}
    Explicit = {"explicit"}
    Threads = {main, worker}
    Main = main
    Modes = {"none", "once", "new_episodes", "all"}
    FixtureFirst = TRUE
    MaxRuns = 2
    MaxConnections = 3
    MaxQueries = 2
SYMMETRY TestSymmetry
SPECIFICATION Spec
INVARIANTS
    TypeOK
    OneStatePerCassette
    RerunDecidesAfresh
    ClosedAfterTest
    RecordsWhatItAsks
