\* The suite registers a handler for a subclass of datetime.
CONSTANTS
    NoSqlDialect <- NoneSql
    Unparsable <- CannotParse
    parse_one <- Parses
    rendering <- Renders
    described <- Describes
    kinds_in <- NamesKinds
    collapsed <- Collapses
    Meaning <- Means
    Subclasses <- Inherits
    depth <- Depth
    loads <- Reads
    dumps <- Writes
    Queries <- OneTimestamp
    Suites <- Timestamps
    FirstIndexes = {0}
    MaxQueries = 1
SPECIFICATION Spec
INVARIANT RegisteredIsUsed
