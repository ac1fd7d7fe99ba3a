SPECIFICATION Spec
CONSTANTS
    Room <- ThreeTapes
    RecordSize = 2
    ImageRecords = 7
    ReadMax = 4
    Lengths <- SomeLengths
    Tables = {"exact", "indexed", "none"}
    Faults <- AnyFault
INVARIANTS
    LaidOut
    ServedAsAsked
    WindowIsTheTapes
PROPERTIES
    ReadsEnd
