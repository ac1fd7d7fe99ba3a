\* Every message of NDMP2, NDMP3 and NDMP4, between this program and any other
SPECIFICATION Spec
CONSTANTS
    Versions = {2, 3, 4}
INVARIANTS
    RequestArrives
    ReplyArrives
    TruthfulOutcome
    NobodyWaitsInVain
