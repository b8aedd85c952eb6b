\* A pool of three keys, a zombie at the relay, one crash after the migration;
\* two handshakes, started by either device, and one restart, loss,
\* deletion or overtaking; two secondary devices and one contact: announcements, links,
\* handshakes, restarts and losses.
SPECIFICATION MCSpec
CONSTANTS
    None = None
    POOL_SIZE = 3
    LOW_WATERMARK = 2
    MAX_AT_RELAY = 4
    Legacy = {z}
    z = z
    Old = 0
    CrashesEarly = FALSE
    MaxKey = 5
    MaxHandshakes = 3
    MaxCopies = 1
    MaxCrashes = 1
    Peers = {alice, bob}
    MaxSessionHandshakes = 2
    MaxRestarts = 1
    MaxLosses = 1
    Primary = pp
    d1 = d1
    d2 = d2
    Secondary = {d1, d2}
    Budgets <- MCBudgets
    Contact = {cc}
    OfferTtl = 0
SYMMETRY Symmetry
CHECK_DEADLOCK FALSE
INVARIANTS
    RelayIsDurable
    FirstUseAgrees
    ClaimedOnce
    SessionsJoin
    AccountsSound
    AnnouncementsAgree
