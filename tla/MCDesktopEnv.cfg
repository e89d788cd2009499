SPECIFICATION Spec
CONSTANTS
    p1 = p1
    p2 = p2
    p3 = p3
    Procs <- MCProcs
    Loads <- MCLoads
    MaxVms = 3
    MaxRetries = 2
SYMMETRY Symmetry
INVARIANTS
    TypeOK
    VmsAreExclusive
    VmsInUseExist
    DesktopsAreAsPosed
