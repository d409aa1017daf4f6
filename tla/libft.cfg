CONSTANTS
    Size = 5
    Bytes = {0, 1, 2}
    IntBits = 8
    LongBits = 10
    NullString = NullString
    Letters = {1, 2, 3}
    Magnitudes = {128, 511}
    MaxLen = 3
    MaxLine = 3
SPECIFICATION MCSpec
CHECK_DEADLOCK FALSE
INVARIANTS
    WritesAsPromised
    NumbersReadBack
    StringsMatchReference
    LongLineReadsBack
