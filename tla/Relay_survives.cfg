\* A statement of the code's comments that its behaviour contradicts.
SPECIFICATION Spec
CONSTANTS
    Hash = {h1}
    Conn = {c1, c2}
    NoConn = NoConn
    PushClients = {}
    HomeRelay = {}
    Federated = FALSE
    MAX_BLOBS_PER_HASH = 2
    MAX_ROUTE_HINTS = 1
    BLOB_TTL = 0
    MaxPackets = 1
    MaxTime = 0
    MaxRestarts = 0
CHECK_DEADLOCK FALSE
INVARIANTS
    SurvivesDelivery
