CONSTANTS
    Byte = {0, 1}
    Garbage = Garbage
    Size = 2
    Original <- MCOriginal
    text <- MCtext
    rdata <- MCrdata
    data <- MCrdata
    RvaLimit = 16
    OffLimit = 64
    ImageBase = 8
    Requests <- MCRequests
    Sources = {a}
    Functions <- MCFunctions
    Objects <- MCObjects
    MAX_PATCHES = 2
    MaxId = 4
    MaxEvents = 1
SPECIFICATION Spec
INVARIANTS
    TypeOK
    Replay
    Tracks
