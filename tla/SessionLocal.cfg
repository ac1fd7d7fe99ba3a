SPECIFICATION Spec
CONSTANTS
    ChanSize = 3
    RecordSize = 2
    ImageSize = 2
    JobLimit = 4
    ReadMax = 2
    Addrs = {"LOCAL"}
    Ops = {"BACKUP", "RECOVER"}
    Faults <- LocalFaults
INVARIANTS
    EndPointPairing
    AgentsMatchStream
    ImageConserved
    NoticeNotLost
