\* Two cursors, scheduled fairly; writes and the wipe fail, the process dies.
CONSTANTS
    t1 = t1  t2 = t2
    null = null  secret = secret  redacted = redacted  raw = raw
    c1 = c1  c2 = c2
    Cursors = {c1, c2}
    Asked <- AskedWithSecret
    Sqls = {"q"}
    Params = {null, secret}
    NullParams = null
    Tables = {t1, t2}
    Schemas = {t1, t2}
    SchemaOf <- SchemaOfTable
    ScrubParams <- Unscrubbed
    ScrubTable <- Plain
    NoFile = NoFile  Torn = Torn
    NoCursor = NoCursor  NoCall = NoCall  NoResult = NoResult
    NoMode = NoMode
    Modes = {"none", "once", "new_episodes", "all"}
    Faults = {"write", "wipe", "crash"}
    MaxInteractions = 2
    MaxRuns = 2
    MaxCalls = 2
SPECIFICATION FairSpec
INVARIANT OnceIsAllOrNothing
PROPERTIES
    KeptWhileNumbered
    ReplayLeavesCassette
    EveryCallReturns
