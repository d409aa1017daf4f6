CONSTANTS
    n1 = n1
    h1 = h1
    h2 = h2
    Names <- MCNames
    Hosts <- MCHosts
    Argvs <- MCArgvs
    RTTs = {1, 2}
    Infinity = 9
    W = 2
    MaxProbes = 3
SPECIFICATION Spec
INVARIANT CtrlCStops
