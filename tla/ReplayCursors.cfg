\* Two cursors, two queries, no fault.
CONSTANTS
    raw = raw  t1 = t1  t2 = t2
    null = null  secret = secret  redacted = redacted
    c1 = c1  c2 = c2
    Cursors = {c1, c2}
    Asked <- AskedWithAndWithoutSecret
    Sqls = {"q"}
    Params = {null, secret, redacted}
    NullParams = null
    Tables = {raw, t1, t2}
    Schemas = {t1, t2}
    SchemaOf <- SchemaOfTable
    ScrubParams <- Scrubbed
    ScrubTable <- Redacting
    NoFile = NoFile  Torn = Torn
    NoCursor = NoCursor  NoCall = NoCall  NoResult = NoResult
    NoMode = NoMode
    Modes = {"none", "once", "new_episodes", "all"}
    Faults = {}
    MaxInteractions = 3
    MaxRuns = 2
    MaxCalls = 2
SYMMETRY CursorSymmetry
SPECIFICATION Spec
INVARIANTS
    TypeOK
    RecordingsKept
    NumberedWithoutGaps
    WholeUnlessWriting
    ReplayedAtMostOnce
    ReplayedInOrder
    ResultsAreRecordings
    MissOnlyWhenUsedUp
    NewEpisodesRecordsOnlyNew
    OnceIsAllOrNothing
    SchemaMissOnlyWhenNeverRecorded
PROPERTIES
    ReplayLeavesCassette
    ImplementsTape
