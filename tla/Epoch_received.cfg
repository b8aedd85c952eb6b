\* A window as long as the TTL, the default.
SPECIFICATION Spec
CONSTANTS
    WINDOW = 3
    BLOB_TTL = 3
    PHASES = 2
    MaxHour = 4
    MaxPackets = 1
CHECK_DEADLOCK FALSE
INVARIANTS
    DeliveredIsReceived
