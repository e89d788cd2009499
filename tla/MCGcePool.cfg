SPECIFICATION Spec
CONSTANTS
    left = left
    right = right
    east = east
    west = west
    Envs <- TwoEnvs
    Vms <- TwoVms
    MaxStarts = 3
    Faults <- AllFaults
SYMMETRY Symmetry
CHECK_DEADLOCK FALSE
INVARIANTS
    TypeOK
    ExclusiveLease
    QueuedAreClean
    OneContainerTended
PROPERTIES
    RefinesLeases
