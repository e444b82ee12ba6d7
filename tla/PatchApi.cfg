SPECIFICATION Spec
CONSTANTS
    Addresses = {1, 3, 4, 9}
    INTPTR_MIN <- Min
    INTPTR_MAX = 20
    Window = 4
    CommandLine <- Incrementally
    Argvs <- SetX
    Names = {"t"}
    PAGE_SIZE = 4
    Reservations <- SomeReservations
    MaxQ = 3
    Places = {3, 12}
INVARIANTS TypeOK OptionsInOrder ReverseOrder Margin NothingForgotten PageDisjoint
PROPERTY Written
