CONSTANTS
    Names <- MCNames
    MaxFiles = 4
    Times = {1, 2}
SPECIFICATION SortSpec
CHECK_DEADLOCK FALSE
INVARIANTS
    SameFiles
    SortedByReference
    TiesKeepTheirOrder
