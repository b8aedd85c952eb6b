\* Four packets in any order, one of them twice, and a crash; a group of at most
\* three, with three changes, a control message lost and a restart.
SPECIFICATION MCSpec
CONSTANTS
    Peers = {alice, bob}
    alice = alice
    bob = bob
    MAX_SKIP = 1
    MaxSends = 4
    MaxCopies = 1
    MaxCrashes = 1
    Peer = {pa, pb, pc}
    pa = pa
    Creator = pa
    Name = {1, 2}
    Nobody = Nobody
    MaxChanges = 3
    MaxLost = 1
    MaxRestarts = 1
SYMMETRY Symmetry
CHECK_DEADLOCK FALSE
INVARIANTS
    ReadableOnce
    KeyUsedOnce
    RolesAgree
    MembersAgree
