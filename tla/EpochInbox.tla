----------------------------- MODULE EpochInbox -----------------------------
(***************************************************************************)
(* How a packet finds its recipient across epoch hours.  The address of a  *)
(* packet is a hash of the recipient's key and of the hour of sending, so  *)
(* for one recipient an address is an hour.  The recipient tells the relay *)
(* which hours it listens on when it connects (getCurrentDestHashes, sent  *)
(* by the transport's hello), the relay stores or forwards by address, and *)
(* the SDK looks at the address again before it decrypts (isMessageForUs). *)
(*                                                                         *)
(* One recipient and its relay, on one clock; the relay's own failures are *)
(* the subject of Relay, so here a connection goes away only between       *)
(* deliveries.                                                             *)
(***************************************************************************)
EXTENDS Integers, FiniteSets

CONSTANTS
    WINDOW,       \* hours a hello asks for, 720 in getCurrentDestHashes
    BLOB_TTL,     \* hours a relay stores a packet, BLOB_TTL_HOURS, 720 by default
    PHASES,       \* instants told apart within an hour
    MaxHour,      \* bound: hours of a behaviour
    MaxPackets    \* bound: packets sent

ConstantsOK ==
    /\ {WINDOW, BLOB_TTL, PHASES} \subseteq Nat \ {0}
    /\ {MaxHour, MaxPackets} \subseteq Nat

VARIABLES
    hour, phase,        \* the clock: epoch hour and instant within it
    connected,          \* is there a connection from the client to the relay?
    helloHour,          \* hour of the last hello
    sent,               \* packets sent so far
    queue,              \* rows of the relay for this recipient
    transit,            \* written to the client's socket in this instant
    late,               \* written to it in the previous one, not handled yet
    inbox,              \* handed to processLocalPacket
    ignored,            \* addressed to an hour the SDK does not recognise
    expired             \* pruned by the relay

clock == <<hour, phase>>
vars  == <<hour, phase, connected, helloHour, sent, queue, transit, late, inbox,
           ignored, expired>>

\* A packet: its number, the hour and instant of sending, and whether the relay
\* forwarded it at once.  The hour is the packet's address,
\* deriveDestHash(namespace, key, getCurrentEpochHour()).
Packet == [id : Nat, dest : Nat, phase : Nat, live : BOOLEAN]

\* received_at < now - BLOB_TTL_HOURS.
IsExpired(p) ==
    \/ hour - p.dest > BLOB_TTL
    \/ hour - p.dest = BLOB_TTL /\ phase > p.phase

\* Math.floor(Date.now() / 3_600_000).
getCurrentEpochHour == hour

\* Mutant of getCurrentDestHashes: the current and the previous hour only.
lastTwoHashes(now) == {now - 1, now}

\* The hours of the hello's hashes.
getCurrentDestHashes(now) == {now - i : i \in 0..(WINDOW - 1)}

\* "Checks both the current and previous epoch hour".
isMessageForUs(p) == p.dest \in {getCurrentEpochHour, getCurrentEpochHour - 1}

Listening == IF connected THEN getCurrentDestHashes(helloHour) ELSE {}

-----------------------------------------------------------------------------
Init ==
    /\ hour = 0 /\ phase = 0
    /\ connected = FALSE /\ helloHour = 0
    /\ sent = 0
    /\ queue = {} /\ transit = {} /\ late = {} /\ inbox = {}
    /\ ignored = {} /\ expired = {}

\* The socket opens and the transport says hello; the relay drains the rows of
\* the hashes it names.  Nothing else re-registers them: refreshDestHashes has
\* no caller but setPushConfig, which has none.
Hello ==
    LET rows == {p \in queue : p.dest \in getCurrentDestHashes(getCurrentEpochHour)}
    IN  /\ ~connected
        /\ connected' = TRUE
        /\ helloHour' = getCurrentEpochHour
        /\ transit' = transit \cup rows
        /\ queue' = queue \ rows
        /\ UNCHANGED <<clock, sent, late, inbox, ignored, expired>>

Disconnect ==
    /\ connected /\ transit \cup late = {}
    /\ connected' = FALSE
    /\ UNCHANGED <<clock, helloHour, sent, queue, transit, late, inbox, ignored, expired>>

\* A peer sends a packet; the relay forwards it live or stores it.
Send ==
    LET dest == getCurrentEpochHour
        live == dest \in Listening
        p    == [id |-> sent, dest |-> dest, phase |-> phase, live |-> live]
    IN  /\ sent < MaxPackets
        /\ sent' = sent + 1
        /\ transit' = transit \cup {q \in {p} : live}
        /\ queue'   = queue   \cup {q \in {p} : ~live}
        /\ UNCHANGED <<clock, connected, helloHour, late, inbox, ignored, expired>>

\* On the bearer 'internet' a packet that is not for us goes nowhere: maybeRelay
\* returns at once.
handleIncomingPacket(p) ==
    /\ p \in transit \cup late
    /\ transit' = transit \ {p}
    /\ late'    = late \ {p}
    /\ inbox'   = inbox   \cup {q \in {p} : isMessageForUs(q)}
    /\ ignored' = ignored \cup {q \in {p} : ~isMessageForUs(q)}
    /\ UNCHANGED <<clock, connected, helloHour, sent, queue, expired>>

pruneExpiredBlobs ==
    LET rows == {p \in queue : IsExpired(p)}
    IN  /\ rows # {}
        /\ queue' = queue \ rows
        /\ expired' = expired \cup rows
        /\ UNCHANGED <<clock, connected, helloHour, sent, transit, late, inbox, ignored>>

\* A packet is handled in the instant it is written or in the next one, so it
\* can cross an hour boundary but not two.
Tick ==
    /\ hour < MaxHour /\ late = {}
    /\ late' = transit
    /\ transit' = {}
    /\ IF phase + 1 < PHASES
       THEN phase' = phase + 1 /\ UNCHANGED hour
       ELSE phase' = 0 /\ hour' = hour + 1
    /\ UNCHANGED <<connected, helloHour, sent, queue, inbox, ignored, expired>>

Next ==
    \/ Hello \/ Disconnect \/ Send \/ pruneExpiredBlobs \/ Tick
    \/ \E p \in transit \cup late : handleIncomingPacket(p)

Spec == Init /\ [][Next]_vars

-----------------------------------------------------------------------------
(* Properties *)

\* Every packet is a record of Packet, numbered below sent and addressed to an
\* hour that has begun; the other variables have their types.
TypeOK ==
    /\ hour \in Nat /\ phase \in 0..(PHASES - 1) /\ sent \in Nat
    /\ helloHour \in 0..hour
    /\ connected \in BOOLEAN
    /\ \A p \in queue \cup transit \cup late \cup inbox \cup ignored \cup expired :
          p \in Packet /\ p.id < sent /\ p.dest <= hour

\* While the client is connected, the only packets the relay still holds for it and
\* has not expired are those of an hour that began after its last hello, and those
\* that were too old for the hello and are not too old for the relay: with a window
\* as long as the TTL, which is the default, those sent exactly so many hours ago,
\* for the rest of the hour of the hello.
StrandedRows ==
    \A p \in queue : connected /\ ~IsExpired(p) =>
        \/ p.dest > helloHour
        \/ p.dest \in (hour - BLOB_TTL)..(helloHour - WINDOW)

\* A packet the relay forwards at once is received, also when the hour turns
\* between its sending and its handling.
LiveIsReceived == \A p \in ignored : ~p.live

\* getCurrentDestHashes: "Listening on the full TTL window means anything the
\* relay still has, we will receive".  Nothing the relay delivers is ignored.
DeliveredIsReceived == ignored = {}

\* getCurrentDestHashes: "Listen on the full blob-TTL window (30 days = 720
\* hours)".  In the hour of a hello the relay holds nothing that has not expired.
\* Not so: StrandedRows says what it holds.
WindowCoversStore ==
    connected /\ hour = helloHour => \A p \in queue : IsExpired(p)

\* refreshDestHashes: "Re-registers the device's destination hashes with the
\* Node.  Call this when the epoch hour rolls over and hashes rotate."  A client
\* that is connected is registered for the hour packets are being sent to.
RegisteredForCurrentHour == connected => hour \in Listening

=============================================================================
