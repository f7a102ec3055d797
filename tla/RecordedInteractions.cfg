\* Five configurations; cassettes that begin at index 0, 99 or 998.
CONSTANTS
    NoSqlDialect <- NoneSql
    Unparsable <- CannotParse
    parse_one <- Parses
    rendering <- Renders
    described <- Describes
    kinds_in <- NamesKinds
    collapsed <- Collapses
    Meaning <- Means
    Subclasses <- Inherits
    depth <- Depth
    loads <- Reads
    dumps <- Writes
    Queries <- AllQueries
    Suites <- AllSuites
    FirstIndexes = {0, 99, 998}
    MaxQueries = 2
SPECIFICATION Spec
INVARIANTS
    TypeOK
    SecretsStayOut
    OthersAreKept
    LoadedInIndexOrder
    ReplaysWhatWasAsked
    FoundUnlessScrubbed
    ParamsAreRestored
