\* Two handshakes, started by either device at once.
SPECIFICATION Spec
CONSTANTS
    Peers = {alice, bob}
    alice = alice
    bob = bob
    None = None
    MaxHandshakes = 2
    MaxRestarts = 0
    MaxLosses = 0
SYMMETRY Symmetry
CHECK_DEADLOCK FALSE
INVARIANTS
    HealedWhenQuiet
