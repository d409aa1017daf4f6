CONSTANTS
    B = 5
    N = 5
SPECIFICATION Spec
INVARIANTS
    Verifies
    ChecksumCancels
