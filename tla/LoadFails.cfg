\* A write is cut short in one run, so that loading raises in the next.
CONSTANTS
    t1 = t1  t2 = t2
    null = null  secret = secret  redacted = redacted  raw = raw
    c1 = c1  c2 = c2
    Cursors = {c1, c2}
    Asked <- AskedWithSecret
    Sqls = {"q"}
    Params = {null, secret}
    NullParams = null
    Tables = {t1, t2}
    Schemas = {t1, t2}
    SchemaOf <- SchemaOfTable
    ScrubParams <- Unscrubbed
    ScrubTable <- Plain
    NoFile = NoFile  Torn = Torn
    NoCursor = NoCursor  NoCall = NoCall  NoResult = NoResult
    NoMode = NoMode
    Modes = {"new_episodes"}
    Faults = {"write"}
    MaxInteractions = 3
    MaxRuns = 2
    MaxCalls = 2
SYMMETRY CursorSymmetry
SPECIFICATION Spec
INVARIANT PresentIsReplayed
