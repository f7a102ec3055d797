\* A cassette that gets its thousandth and its thousand and first interaction.
CONSTANTS
    NoSqlDialect <- NoneSql
    Unparsable <- CannotParse
    parse_one <- Parses
    rendering <- Renders
    described <- Describes
    kinds_in <- NamesKinds
    collapsed <- Collapses
    Meaning <- Means
    Subclasses <- Inherits
    depth <- Depth
    loads <- Reads
    dumps <- Writes
    Queries <- OneNumber
    Suites <- Timestamps
    FirstIndexes = {999}
    MaxQueries = 2
SPECIFICATION Spec
INVARIANT LoadedInIndexOrder
