SPECIFICATION Spec
CONSTANTS
    Lines <- FewLines
    EntrySize <- Sizes
    HeapSize = 104
    WrapBuf = 3
    WrapPipe = 2
    ImageBuf = 1
    MaxLines = 3
    MaxImage = 1
INVARIANTS
    HeapNeverOverlaps
    TableOfOneType
    InOrder
    NothingSkipped
PROPERTIES
    BackupEnds
