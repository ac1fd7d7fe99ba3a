SPECIFICATION Spec
CONSTANTS
    Sizes = {1, 2}
    CountMax = 2
    Limit = 9
    LogicalEOM = 4
    Faults <- DiskFaults
INVARIANTS
    GapChain
PROPERTIES
    NumbersStayExact
    WarnedBeforeTheEnd
    BehavesAsTape
