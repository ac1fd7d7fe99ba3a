SPECIFICATION Spec
CONSTANTS
    ChanSize = 3
    RecordSize = 2
    ImageSize = 2
    JobLimit = 3
    ReadMax = 2
    Addrs = {"TCP"}
    Ops = {"BACKUP", "RECOVER"}
    Faults <- TcpFaults
INVARIANTS
    ImageConserved
    BackupComplete
PROPERTIES
    ClosedMeansWritten
