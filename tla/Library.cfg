SPECIFICATION Spec
CONSTANTS
    t1 = t1
    t2 = t2
    s1 = s1
    s2 = s2
    s3 = s3
    Gone = Gone
    Blank = Blank
    Media <- TwoTapes
    SlotOrder <- ThreeSlots
    Table <- TwoEntries
    Protected <- ProtectedTapes
    UseEject = TRUE
    JobLimit = 2
    FaultLimit = 2
    Faults <- EveryFault
CHECK_DEADLOCK FALSE
INVARIANTS
    LostOnlyWhenCut
    RightTape
    Released
    PositionIsTheTapes
