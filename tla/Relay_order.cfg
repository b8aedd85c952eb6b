\* One hash; a recipient and the connection that replaces it, live, queued and
\* federated packets, no expiry and no restart; liveness under FairSpec.
SPECIFICATION FairSpec
CONSTANTS
    Hash = {h1}
    Conn = {c1, c2}
    NoConn = NoConn
    PushClients = {}
    HomeRelay = {r1}
    Federated = TRUE
    MAX_BLOBS_PER_HASH = 2
    MAX_ROUTE_HINTS = 1
    BLOB_TTL = 0
    MaxPackets = 2
    MaxTime = 0
    MaxRestarts = 0
CHECK_DEADLOCK FALSE
INVARIANTS
    RegistrySound
    InOrder
PROPERTIES
    AckedNotRewritten
    QueuedReachesClient
