SPECIFICATION Spec
CONSTANTS
    Kinds <- BothKinds
    Tapes = 2
    Reads = 1
    Pauses = 2
    Faults <- EveryFault
INVARIANTS
    OkayMeansDone
    NoticesCounted
    RequestsFit
    GivenUpOnlyWhenSlow

PROPERTIES
    JobEnds
