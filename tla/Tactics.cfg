SPECIFICATION Spec
CONSTANTS
    BYTE = 16
    REL = 2
    JMP = 14
    SHORT = 11
    INT3 = 12
    TRAP = 7
    PREFIX = 4
    PATCH_MAX = 8
    Code <- CodeDense
    Contents <- ContentsDense
    Space <- SpaceDense
    Wanted <- Instrs
    TRAMPOLINE_MAX = 1
    TemplateLb <- MCLb
    TemplateUb = 200
    T0_LIMIT = 2
    MaxInstr = 4
    Extra = 0
    option_batch = FALSE
    option_OCFR = FALSE
    option_tactic_T0 = TRUE
    option_tactic_T3 = TRUE
    option_tactic_backward_T3 = TRUE
    option_tactic_B0 = FALSE
    option_tactic_B1 = TRUE
    option_tactic_B2 = TRUE
    option_tactic_T1 = TRUE
    option_tactic_T2 = TRUE
INVARIANTS Diverts Intact UndoExact NoLeak
