\* Expiry, restarts, push registrations and a federation, two packets.
SPECIFICATION Spec
CONSTANTS
    Hash = {h1}
    Conn = {c1, c2}
    NoConn = NoConn
    PushClients = {c1}
    HomeRelay = {}
    Federated = TRUE
    MAX_BLOBS_PER_HASH = 1
    MAX_ROUTE_HINTS = 1
    BLOB_TTL = 0
    MaxPackets = 2
    MaxTime = 1
    MaxRestarts = 1
CHECK_DEADLOCK FALSE
INVARIANTS
    Accounted
    StoreSound
