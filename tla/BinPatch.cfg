SPECIFICATION Spec
CONSTANTS
    Data <- MCData
    BaseAddress = 0
    WORD = 4096
    Sections <- MCSections
    InsnSize <- MCInsnSize
    Slack = 2
    BranchSize = 2
    FarJmpSize = 3
    FarCallSize = 3
    Reach = 100
    HookSlack = 3
    DefaultMin = 2
    ApplyMin = 3
    CavesCapacity = 1
    Requests <- MCRequests
    CaveSizes = {0, 4}
    MaxPatches = 3
INVARIANTS
    TypeOK
    Confined
    Saved
    CavesApart
