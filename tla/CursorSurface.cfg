\* One cursor, results of up to three rows.
CONSTANTS
    Modes = {"none", "all"}
    MaxRows = 3
    Sizes <- SizesWithNegative
    MaxExecutions = 2
    MaxFetches = 4
SPECIFICATION Spec
INVARIANTS
    TypeOK
    RowsOfTheLastExecute
    EachRowOnceInOrder
    EndOnlyWhenAllHanded
    StreamFirstAndOnce
