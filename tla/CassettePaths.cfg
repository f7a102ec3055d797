\* A suite of three tests that connects in every way, its cassettes apart.
CONSTANTS
    Tests <- TestNames
    NoTest = "no test"
    ModulePath <- Files
    NodeNames <- Functions_
    Marker <- Markers
    Slug <- Slugs
    Stem <- Stems
    Signature <- Signatures
    Inspectable <- AllInspectable
    DialectLines <- Dialects
    KeyLines <- DefaultKeyLines
    Calls <- Suite
    Modes = {"once", "all"}
    MaxRuns = 2
    MaxConnections = 3
    MaxQueries = 2
SPECIFICATION Spec
INVARIANTS
    TypeOK
    RecordedStays
    StoredSeparately
    HoweverPassed
    OneDialectPerCassette
PROPERTY WipesOwnOnly
