CONSTANTS
    Argvs <- MCArgvs
    MaxTtl = 2
    ProbesPerHop = 2
    Routers <- MCRouters
    NoOne <- MCNoOne
    Away <- MCAway
    MaxDistance = 3
    MaxBuffer = 2
    MaxForeign = 1
    MaxDuplicates = 1
SPECIFICATION FairSpec
INVARIANTS
    TypeOK
    ResultsWithinTtl
    ExactWhenTimely
    AnswerShownOnce
    LinesComplete
PROPERTY Terminates
