\* Three messages, three reconnections; both ways of failing.
SPECIFICATION FairSpec
CONSTANTS
    Peer = {p1, p2}
    Failing = {p2}
    StorageFails = TRUE
    MaxMessages = 3
    MaxConnects = 3
CHECK_DEADLOCK FALSE
INVARIANTS
    Accounted
    SentOnceInOrder
PROPERTIES
    StuckBehindFailure
