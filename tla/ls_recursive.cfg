CONSTANTS
    Argvs <- MCArgvs
    Nodes <- MCNodes
    Kind <- MCKind
    Children <- MCChildren
    NameOf <- MCNameOf
    TimeOf <- MCTimeOf
    Cwd = "d"
    Unreadable = {"b"}
    Nameless = {"f"}
    MaxRemovals = 2
    MaxFailures = 1
SPECIFICATION FairSpec
INVARIANTS
    TypeOK
    ListedOnce
    DepthFirst
    CompleteUnlessSkipped
    NoFalseErrors
    ListsFreed
PROPERTY Terminates
