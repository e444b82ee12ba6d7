SPECIFICATION Spec
CONSTANTS
    PAGE_SIZE = 4
    TRAMPOLINE_MAX = 4
    RELATIVE_MIN <- RelMin
    RELATIVE_MAX = 20
    ABSOLUTE_MIN = 40
    ABSOLUTE_MAX = 60
    Requests <- MCRequests
    Reservations <- MCReservations
    MaxNodes = 5
    Nodes <- MCNodes
    NIL = NIL
    Target = 2
INVARIANTS Balanced Augmented Iterates Complete
PROPERTY Refines
