SPECIFICATION Spec
CONSTANTS
    PortIds = {1, 4, 5, 9}
    Isolates = {h1, h2}
    Natives = {n}
    NULL = NULL
    DELETED = DELETED
    InitialCapacity = 4
SYMMETRY Symmetry
INVARIANT
    TableInOrder
PROPERTY
    ImplementsPorts
