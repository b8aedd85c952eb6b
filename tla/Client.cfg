\* Three sockets, two timers: attempts that overlap.  Three sockets between two devices
\* of a LAN, or two with a fault and a stop.  Four packets on two ways, a map of two
\* marks; a minute and a restart, or one of them and a packet whose handling throws.
SPECIFICATION MCSpec
CONSTANTS
    Sock = {s1, s2, s3}
    None = None
    MaxTimers = 2
    Smaller = a1
    Larger = b1
    MaxSocks = 3
    LanBounds <- MCBounds
    MaxPackets = 4
    SEEN_INBOUND_MAX = 2
    MaxMinutes = 1
    MaxRestarts = 1
CHECK_DEADLOCK FALSE
INVARIANTS
    NeverAbandoned
    OneSocket
    CopiesHarmless
PROPERTIES
    ImplementsLink
    Reconnects
    LanSettles
