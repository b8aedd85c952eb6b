------------------------------ MODULE DualSend ------------------------------
(***************************************************************************)
(* One packet on two ways: routeAndSend offers it to the LAN and sends it  *)
(* through the relay; handleIncomingPacket at the recipient drops the      *)
(* second copy before it reaches the ratchet (sdk/index.ts,                *)
(* transport/negotiator/index.ts, sdk/message-handler.ts).                 *)
(*                                                                         *)
(* One device sends to another.  The first packet is the handshake that    *)
(* makes the others readable.  Relay promises that its copies come in      *)
(* order (InOrder), LocalLink that there is one socket.  A packet opens    *)
(* once in a session: the ratchet deletes its key (RatchetPair).           *)
(***************************************************************************)
EXTENDS Naturals, Sequences, FiniteSets, SequencesExt

CONSTANTS
    MaxPackets,
    SEEN_INBOUND_MAX,
    MaxMinutes, MaxRestarts   \* bounds

ConstantsOK == SEEN_INBOUND_MAX \in Nat \ {0} /\ {MaxPackets, MaxMinutes, MaxRestarts} \subseteq Nat

Handshake == 1
Packet == 1..MaxPackets

VARIABLES
    sent,      \* number of packets sent
    prekey,    \* has the handshake a one-time prekey?
    lan,       \* is there a LAN socket between the two?
    writable,  \* can the sender write to its relay?
    frames,    \* on the LAN socket
    relay,     \* what the relay has for the recipient
    seen,      \* seenInboundPackets in order of insertion: [id, old]
    session,   \* of the recipient: "none" | "agreed" | "other", a secret of its own
    used,      \* packets whose keys the session has used
    minutes, restarts,
    read,      \* history: packets that were opened
    handed,    \* history: packets the relay has had
    stale,     \* history: packets seen over a minute, a restart or a full map ago
    threw,     \* history: packets whose handling threw after they were opened
    again      \* history: packets that were handled again after they were opened

vars == <<sent, prekey, lan, writable, frames, relay, seen, session, used, minutes, restarts,
          read, handed, stale, threw, again>>

Ids(s) == {s[i].id : i \in DOMAIN s}

Init ==
    /\ sent = 0 /\ prekey \in BOOLEAN /\ lan \in BOOLEAN /\ writable \in BOOLEAN
    /\ frames = <<>> /\ relay = <<>> /\ seen = <<>>
    /\ session = "none" /\ used = {}
    /\ minutes = 0 /\ restarts = 0
    /\ read = {} /\ handed = {} /\ stale = {} /\ threw = {} /\ again = {}

----------------------------------------------------------------------------
(* The sender *)

(* What the relay does not get stays in the local store, whose peers are    *)
(* listed under LAN ids, so that nothing of it is sent to the recipient.    *)
routeAndSend ==
    LET p == sent + 1 IN
    /\ p \in Packet
    /\ sent' = p
    /\ frames' = IF lan THEN Append(frames, p) ELSE frames
    /\ IF writable THEN relay' = Append(relay, p) /\ handed' = handed \cup {p}
                   ELSE UNCHANGED <<relay, handed>>
    /\ UNCHANGED <<prekey, lan, writable, seen, session, used, minutes, restarts, read,
                   stale, threw, again>>

----------------------------------------------------------------------------
(* The recipient *)

isDuplicateInbound(p) == \E i \in DOMAIN seen : seen[i] = [id |-> p, old |-> FALSE]

(* Map.set keeps the place of an entry that is there.                       *)
Marked(p) ==
    IF p \in Ids(seen)
    THEN [i \in DOMAIN seen |-> IF seen[i].id = p THEN [id |-> p, old |-> FALSE] ELSE seen[i]]
    ELSE Append(seen, [id |-> p, old |-> FALSE])

(* One entry more than the cap: an expired one goes, the first otherwise.   *)
markInboundSeen(p) ==
    LET s == Marked(p) IN
    IF Len(s) <= SEEN_INBOUND_MAX THEN s
    ELSE IF \E i \in DOMAIN s : s[i].old
         THEN RemoveAt(s, CHOOSE i \in DOMAIN s : s[i].old /\ \A j \in 1..(i - 1) : ~s[j].old)
         ELSE Tail(s)

\* Mutant of Released: the mark of a packet that could not be opened stays.
KeepsMark(s, p) == s

Released(s, p) == IF p \in Ids(s) THEN RemoveAt(s, CHOOSE i \in DOMAIN s : s[i].id = p) ELSE s

Opens(p) == session = "agreed" /\ p \notin used

(* completeIncomingHandshake sets a new session up, whatever there is.  The *)
(* one-time prekey is deleted by the first: without it the secret is        *)
(* another one.                                                             *)
handleHandshakePacket(p) ==
    /\ session' = IF prekey /\ session # "none" THEN "other" ELSE "agreed"
    /\ used' = {p}
    /\ read' = read \cup {p}
    /\ seen' = markInboundSeen(p)
    /\ UNCHANGED threw

(* handleDataPacket runs to its end before another packet is looked at.  An *)
(* exception after the packet was opened - a malformed envelope, a control  *)
(* handler, the application's onMessage - releases the mark as well.        *)
handleDataPacket(p) ==
    /\ IF Opens(p)
       THEN /\ used' = used \cup {p} /\ read' = read \cup {p}
            /\ \/ seen' = markInboundSeen(p) /\ UNCHANGED threw
               \/ seen' = Released(markInboundSeen(p), p) /\ threw' = threw \cup {p}
       ELSE seen' = Released(markInboundSeen(p), p) /\ UNCHANGED <<used, read, threw>>
    /\ UNCHANGED session

handleIncomingPacket(p) ==
    IF isDuplicateInbound(p)
    THEN UNCHANGED <<seen, session, used, read, stale, threw, again>>
    ELSE /\ IF p = Handshake THEN handleHandshakePacket(p) ELSE handleDataPacket(p)
         /\ stale' = stale \cup ((Ids(seen) \ Ids(seen')) \ {p})
         /\ again' = IF p \in read THEN again \cup {p} ELSE again

ReceiveFromLan ==
    /\ frames # <<>>
    /\ handleIncomingPacket(Head(frames))
    /\ frames' = Tail(frames)
    /\ UNCHANGED <<sent, prekey, lan, writable, relay, minutes, restarts, handed>>

ReceiveFromRelay ==
    /\ relay # <<>>
    /\ handleIncomingPacket(Head(relay))
    /\ relay' = Tail(relay)
    /\ UNCHANGED <<sent, prekey, lan, writable, frames, minutes, restarts, handed>>

----------------------------------------------------------------------------
(* The world *)

(* What was on a LAN socket that closes is lost.                            *)
LanChanges ==
    /\ lan' = ~lan
    /\ frames' = <<>>
    /\ UNCHANGED <<sent, prekey, writable, relay, seen, session, used, minutes, restarts,
                   read, handed, stale, threw, again>>

RelayChanges ==
    /\ writable' = ~writable
    /\ UNCHANGED <<sent, prekey, lan, frames, relay, seen, session, used, minutes, restarts,
                   read, handed, stale, threw, again>>

(* SEEN_INBOUND_TTL_MS pass. *)
Minute ==
    /\ minutes < MaxMinutes
    /\ minutes' = minutes + 1
    /\ seen' = [i \in DOMAIN seen |-> [seen[i] EXCEPT !.old = TRUE]]
    /\ stale' = stale \cup Ids(seen)
    /\ UNCHANGED <<sent, prekey, lan, writable, frames, relay, session, used, restarts,
                   read, handed, threw, again>>

(* The recipient starts anew; sessions and prekeys are on disk.             *)
Restart ==
    /\ restarts < MaxRestarts
    /\ restarts' = restarts + 1
    /\ seen' = <<>> /\ stale' = stale \cup Ids(seen)
    /\ lan' = FALSE /\ frames' = <<>>
    /\ UNCHANGED <<sent, prekey, writable, relay, session, used, minutes, read, handed,
                   threw, again>>

Next ==
    \/ routeAndSend \/ ReceiveFromLan \/ ReceiveFromRelay
    \/ LanChanges \/ RelayChanges \/ Minute \/ Restart

Spec == Init /\ [][Next]_vars

----------------------------------------------------------------------------
(* Properties *)

\* A packet that was opened is handled again - the ratchet has no key for it, so
\* that a new handshake is started over it - only where the first copy came over
\* a minute, a restart, or more packets than the map has room for ago, or where its
\* handling threw: the catch of handleDataPacket unmarks that one too.
CopiesCaught == again \subseteq stale \cup threw

\* What the relay has delivered was opened, by this copy or before, if the
\* handshake went to the relay too: the copies on the LAN, which may come first
\* and cannot be opened then, cost nothing.  ("A direct path may only ever make
\* delivery faster, never less reliable.")  Not so once a late copy of the handshake,
\* which nothing recognises after the minute, has set up a second session.
NeverLessReliable ==
    Handshake \in handed \ again => \A p \in handed : p \in read \/ p \in ToSet(relay)

=============================================================================
