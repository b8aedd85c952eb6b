\* Two clients, two identifiers and one transfer without a limit, one client with a
\* limit of two requests per four ticks (two seconds); two devices and one peer:
\* deletes and re-adds against pulls, pushes and reloads.
SPECIFICATION MCSpec
CONSTANTS
    ia = ia
    ib = ib
    alice = alice
    bob = bob
    Identity = {ia, ib}
    Name = {alice, bob}
    NoName = NoName
    NoToken = NoToken
    NoCall = NoCall
    RATE_WINDOW = 4
    SECOND = 2
    TokenTtl = 0
    InFlight = 2
    Scenarios <- MCScenarios
    da = da
    db = db
    Device = {da, db}
    Peer = {p1}
    NoArchive = NoArchive
    Cases <- MCCases
CHECK_DEADLOCK FALSE
INVARIANTS
    DirectorySound
    EditsStand
PROPERTIES
    TakenByConsent
    ContactsKept
