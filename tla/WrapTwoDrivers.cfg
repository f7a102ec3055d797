\* A test that calls wrap() for two drivers.
CONSTANTS
    Tests <- TestNames
    NoTest = "no test"
    ModulePath <- Files
    NodeNames <- Functions_
    Marker <- Markers
    Slug <- Slugs
    Stem <- Stems
    Signature <- Signatures
    Inspectable <- AllInspectable
    DialectLines <- Dialects
    KeyLines <- DefaultKeyLines
    Calls <- WrapTwoDrivers
    Modes = {"once", "all"}
    MaxRuns = 2
    MaxConnections = 3
    MaxQueries = 2
SPECIFICATION Spec
INVARIANT DriversApart
