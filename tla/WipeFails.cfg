\* One cursor; the deletion of the cassette stops part way, and the test goes on.
CONSTANTS
    t1 = t1  t2 = t2
    null = null  secret = secret  redacted = redacted  raw = raw
    c1 = c1  c2 = c2
    Cursors = {c1}
    Asked <- AskedWithSecret
    Sqls = {"q"}
    Params = {null, secret}
    NullParams = null
    Tables = {t1, t2}
    Schemas = {t1, t2}
    SchemaOf <- SchemaOfTable
    ScrubParams <- Unscrubbed
    ScrubTable <- Plain
    NoFile = NoFile  Torn = Torn
    NoCursor = NoCursor  NoCall = NoCall  NoResult = NoResult
    NoMode = NoMode
    Modes = {"all"}
    Faults = {"wipe"}
    MaxInteractions = 3
    MaxRuns = 2
    MaxCalls = 3
SYMMETRY CursorSymmetry
SPECIFICATION Spec
INVARIANT RecordingsKept
