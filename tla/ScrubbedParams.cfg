\* Parameters are scrubbed, and the test asks its query again.
CONSTANTS
    raw = raw  t1 = t1  t2 = t2
    null = null  secret = secret  redacted = redacted
    c1 = c1  c2 = c2
    Cursors = {c1, c2}
    Asked <- AskedWithAndWithoutSecret
    Sqls = {"q"}
    Params = {null, secret, redacted}
    NullParams = null
    Tables = {raw, t1, t2}
    Schemas = {t1, t2}
    SchemaOf <- SchemaOfTable
    ScrubParams <- Scrubbed
    ScrubTable <- Redacting
    NoFile = NoFile  Torn = Torn
    NoCursor = NoCursor  NoCall = NoCall  NoResult = NoResult
    NoMode = NoMode
    Modes = {"new_episodes"}
    Faults = {}
    MaxInteractions = 3
    MaxRuns = 2
    MaxCalls = 2
SYMMETRY CursorSymmetry
SPECIFICATION Spec
INVARIANT PresentIsReplayed
