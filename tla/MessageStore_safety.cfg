\* One message each way, retention of one: a purge, a wipe, a mirrored copy, a pull, a restart or a
\* failure.
SPECIFICATION MCSpec
CONSTANTS
    Inbound = {1}
    Outbound = {2}
    Member = {p1}
    Expiring = {1}
    Keep = 1
    MaxCopies = 2
    MaxOps = 3
    MaxPushes = 1
    MaxFaults = 1
CHECK_DEADLOCK FALSE
INVARIANTS
    RowsSound
    Accounted
    NotifiedOnce
    DeletedStaysDeleted
PROPERTIES
    ReadStaysRead
    ShownIsSaved
