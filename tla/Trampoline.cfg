SPECIFICATION Spec
CONSTANTS
    N = 4
    Programs <- MCPrograms
    Templates <- TemplatesPass
    Macros <- MCMacros
    Requests <- MCRequests
    T0_LIMIT = 3
    JMPQ = 5
    CallSize = 10
    Near = TRUE
    option_batch = TRUE
    option_Opeephole = TRUE
    option_Ocall = FALSE
    option_Oepilogue = 2
    option_Oepilogue_size = 64
    option_Oprologue = 2
    option_Oprologue_size = 64
    Steps = 5
INVARIANTS TypeOK Fits Behaves
CHECK_DEADLOCK FALSE
