CONSTANTS
    c1 = c1
    c2 = c2
    c3 = c3
    Contracts = {c1, c2, c3}
    Missing = Missing
SPECIFICATION LinkerFairSpec
INVARIANTS LinkedIsDeployable LinksAll
CHECK_DEADLOCK FALSE
PROPERTY Terminates
