SPECIFICATION Spec
CONSTANTS
    PAGE_SIZE = 4
    TRAMPOLINE_MAX = 3
    RELATIVE_MIN <- RelMin
    RELATIVE_MAX = 12
    ABSOLUTE_MIN = 24
    ABSOLUTE_MAX = 30
    Requests <- MCRequests
    Reservations <- MCReservations
INVARIANTS TypeOK NoOverlap
