\* A window as long as the TTL, as the defaults are; three relays in
\* the situations MCRouting lists.
SPECIFICATION MCSpec
CONSTANTS
    WINDOW = 3
    BLOB_TTL = 3
    PHASES = 2
    MaxHour = 5
    MaxPackets = 3
    ra = ra
    rb = rb
    rc = rc
    Relay = {ra, rb, rc}
    MAX_TRANSIT_HOPS = 2
    MAX_PENDING_FORWARDS = 2
    maxPeers = 1
    onionHops = 1
    MaxConns = 3
    MaxObjs = 6
    Scenarios <- MCScenarios
CHECK_DEADLOCK FALSE
INVARIANTS
    StrandedRows
    CapKept
    PacketsArrive
PROPERTIES
    LinksHeal
    RecordsConverge
