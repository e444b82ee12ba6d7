CONSTANTS
    PAGE_SIZE = 4
    MAPPING_SIZE = 12
    KEY_BITS = 6
    BRANCH_BITS = 2
    Layouts <- LayoutsAll
    Offset <- OneSegment
    Scenarios <- ScenariosDef
    Sites <- SitesDef
SPECIFICATION Spec
INVARIANTS
    TypeOK
    Loaded
    Undisturbed
    CalledLoaded
    PatchedText
    TrapFound
PROPERTY Groups
CHECK_DEADLOCK FALSE
