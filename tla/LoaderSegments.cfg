CONSTANTS
    PAGE_SIZE = 4
    MAPPING_SIZE = 12
    KEY_BITS = 6
    BRANCH_BITS = 2
    Layouts <- LayoutsAll
    Offset <- TwoSegments
    Scenarios <- ScenariosDef
    Sites <- SitesDef
SPECIFICATION Spec
INVARIANT PatchedText
CHECK_DEADLOCK FALSE
