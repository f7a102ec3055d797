\* One test passes driver= to one connect() and not to another.
CONSTANTS
    Tests <- TestNames
    NoTest = "no test"
    ModulePath <- Files
    NodeNames <- Functions_
    Marker <- Markers
    Slug <- Slugs
    Stem <- Stems
    Signature <- Signatures
    Inspectable <- AllInspectable
    DialectLines <- Dialects
    KeyLines <- DefaultKeyLines
    Calls <- WithAndWithoutDriver
    Modes = {"all"}
    MaxRuns = 1
    MaxConnections = 2
    MaxQueries = 2
SPECIFICATION Spec
INVARIANT RecordedStays
