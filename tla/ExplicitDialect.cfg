\* A marker's dialect and another that wrap() is given.
CONSTANTS
    Tests <- TestNames
    NoTest = "no test"
    ModulePath <- Files
    NodeNames <- Functions_
    Marker <- Markers
    Slug <- Slugs
    Stem <- Stems
    Signature <- Signatures
    Inspectable <- AllInspectable
    DialectLines <- Dialects
    KeyLines <- DefaultKeyLines
    Calls <- Suite
    Modes = {"once", "all"}
    MaxRuns = 2
    MaxConnections = 3
    MaxQueries = 2
SPECIFICATION Spec
INVARIANT ExplicitDialectWins
