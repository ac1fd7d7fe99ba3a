SPECIFICATION Spec
CONSTANTS
    Versions <- Known
    AuthTypes <- EveryAuth
    CallLimit = 3
    NoticeLimit = 3
    Faults <- BothFaults
INVARIANTS
    ReplyIsOurs
    NoReplyAstray
    VersionsAgree
PROPERTIES
    CallsEnd
