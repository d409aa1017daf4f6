CONSTANTS
    Coefficients <- MCCoefficients
    Scale = 10
    Precision = 32
    Places = 10
    MaxPower = 3
    MaxTerms = 3
SPECIFICATION Spec
CHECK_DEADLOCK FALSE
INVARIANTS
    AlwaysRight
