------------------------------ MODULE Session -------------------------------
(***************************************************************************)
(* How two devices come to share a session: X3DH handshakes that either    *)
(* may start, also both at once, handshake_activate, which makes the       *)
(* responder able to send, session_ping and session_pong, and what becomes *)
(* of a packet that no session can open.                                   *)
(*                                                                         *)
(* A session is the handshake it comes from and whether it can send.  A    *)
(* packet opens if the receiver's session comes from the same handshake,   *)
(* which is what RatchetPair shows of the ratchet.  A packet may be lost,  *)
(* also without the sender's notice, and may overtake earlier ones, as a   *)
(* copy on the LAN does.  What becomes of a second copy of an x3dh_init is *)
(* the matter of DualSend and Opk.  Storage is written without waiting.    *)
(***************************************************************************)
EXTENDS Naturals, Sequences, SequencesExt

CONSTANTS
    Peers,           \* the two devices
    None,            \* no handshake
    MaxHandshakes,   \* bound: calls of initiateHandshake
    MaxRestarts,     \* bound: restarts
    MaxLosses        \* bound: packets lost

ConstantsOK ==
    /\ \E a, b \in Peers : a # b /\ Peers = {a, b}
    /\ {MaxHandshakes, MaxRestarts, MaxLosses} \subseteq Nat
    /\ None \notin Nat

VARIABLES
    session,     \* sessions: the handshake, or None, and whether it can send
    stored,      \* sessions/ in storage
    starting,    \* calls of initiateHandshake that wait for the one-time prekey
    handing,     \* those that wait for the packet to be handed over
    outbox,      \* control messages that wait in sendMessage
    ping,        \* pendingPings: the id of the ping, or None
    pinged,      \* did its send timer fire?
    channel,     \* packets on the way to each device
    drawn,       \* how many random ids were drawn
    handshakes,  \* how many calls of initiateHandshake began
    restarts,
    losses,      \* how many packets were lost
    crossed,     \* history: did two x3dh_init cross?
    undone,      \* history: did one handshake not get through: its x3dh_init was
                 \* lost or came after a later one, or a restart brought back the
                 \* session of another handshake?
    cut          \* history: that, or a restart, a session deleted, another packet
                 \* lost, or one that came before an x3dh_init sent earlier?

counts  == <<drawn, handshakes, restarts, losses>>
history == <<crossed, undone, cut>>
vars    == <<session, stored, starting, handing, outbox, ping, pinged, channel, counts, history>>

Other(p)  == CHOOSE q \in Peers : q # p
NoSession == [h |-> None, canSend |-> FALSE]
Has(p)      == session[p] # NoSession
Sendable(p) == session[p].canSend

Kinds  == {"handshake_activate", "session_ping", "session_pong", "entropy_challenge"}
Body   == [kind : Kinds, id : Nat]
Packet == [type : {"x3dh_init"}, h : Nat] \cup [type : {"data"}, h : Nat, body : Body]

TypeOK ==
    /\ session \in [Peers -> [h : Nat, canSend : BOOLEAN] \cup {NoSession}]
    /\ stored \in [Peers -> [h : Nat, canSend : BOOLEAN] \cup {NoSession}]
    /\ starting \in [Peers -> Nat]
    /\ handing \in [Peers -> SUBSET Nat]
    /\ outbox \in [Peers -> SUBSET Body]
    /\ ping \in [Peers -> Nat \cup {None}]
    /\ pinged \in [Peers -> BOOLEAN]
    /\ channel \in [Peers -> Seq(Packet)]
    /\ {drawn, handshakes, restarts, losses} \subseteq Nat
    /\ {crossed, undone, cut} \subseteq BOOLEAN

Init ==
    /\ session = [p \in Peers |-> NoSession]
    /\ stored = session
    /\ starting = [p \in Peers |-> 0]
    /\ handing = [p \in Peers |-> {}]
    /\ outbox = [p \in Peers |-> {}]
    /\ ping = [p \in Peers |-> None]
    /\ pinged = [p \in Peers |-> FALSE]
    /\ channel = [p \in Peers |-> <<>>]
    /\ drawn = 0 /\ handshakes = 0 /\ restarts = 0 /\ losses = 0
    /\ crossed = FALSE /\ undone = FALSE /\ cut = FALSE

-----------------------------------------------------------------------------
(* Starting a handshake.  Nothing keeps two calls from being under way. *)

begin(p) ==
    /\ handshakes < MaxHandshakes
    /\ handshakes' = handshakes + 1
    /\ starting' = [starting EXCEPT ![p] = @ + 1]

\* A send without a session, or a contact without one at startup.
ensureSession(p) ==
    /\ ~Has(p)
    /\ begin(p)
    /\ UNCHANGED <<session, stored, handing, outbox, ping, pinged, channel, drawn, restarts, losses, history>>

\* The contact is added again: a session that cannot send is no obstacle.
addContactByKey(p) ==
    /\ ~Sendable(p)
    /\ begin(p)
    /\ UNCHANGED <<session, stored, handing, outbox, ping, pinged, channel, drawn, restarts, losses, history>>

\* The user asks: targetedReestablish with force, whatever the session.
resetSession(p) ==
    /\ begin(p)
    /\ UNCHANGED <<session, stored, handing, outbox, ping, pinged, channel, drawn, restarts, losses, history>>

\* Without force a session that can send is left alone; otherwise the
\* cooldown or a missing bundle may still keep the handshake from starting.
targetedReestablish(p) ==
    \/ ~Sendable(p) /\ begin(p)
    \/ UNCHANGED <<handshakes, starting>>

\* The one-time prekey has come, or none: the new session replaces whatever is
\* there by now, and the packet goes out, or does not: the peer's public key is
\* not in the cache.  The relay path may also drop it unnoticed (Lose).
initiateHandshake(p) ==
    /\ starting[p] > 0
    /\ starting' = [starting EXCEPT ![p] = @ - 1]
    /\ drawn' = drawn + 1
    /\ session' = [session EXCEPT ![p] = [h |-> drawn, canSend |-> TRUE]]
    /\ \/ /\ channel' = [channel EXCEPT ![Other(p)] =
                            Append(@, [type |-> "x3dh_init", h |-> drawn])]
          /\ handing' = [handing EXCEPT ![p] = @ \cup {drawn}]
          /\ UNCHANGED <<losses, undone, cut>>
       \/ /\ losses < MaxLosses
          /\ losses' = losses + 1
          /\ undone' = TRUE /\ cut' = TRUE
          /\ UNCHANGED <<channel, handing>>
    /\ UNCHANGED <<stored, outbox, ping, pinged, handshakes, restarts, crossed>>

\* The packet is handed over: activate the session, and have it pinged.
Initiated(p, h) ==
    /\ h \in handing[p]
    /\ handing' = [handing EXCEPT ![p] = @ \ {h}]
    /\ outbox' = [outbox EXCEPT ![p] = @ \cup {[kind |-> "handshake_activate", id |-> h]}]
    /\ ping' = [ping EXCEPT ![p] = h]
    /\ pinged' = [pinged EXCEPT ![p] = FALSE]
    /\ UNCHANGED <<session, stored, starting, channel, counts, history>>

deleteSession(p) ==
    /\ Has(p)
    /\ handshakes < MaxHandshakes      \* bound: only if it can be set up again
    /\ session' = [session EXCEPT ![p] = NoSession]
    /\ cut' = TRUE
    /\ UNCHANGED <<stored, starting, handing, outbox, ping, pinged, channel, counts, crossed, undone>>

\* Every change of a session is written behind; the last one is what matters.
Persist(p) ==
    /\ restarts < MaxRestarts          \* only a restart reads it
    /\ stored[p] # session[p]
    /\ stored' = [stored EXCEPT ![p] = session[p]]
    /\ UNCHANGED <<session, starting, handing, outbox, ping, pinged, channel, counts, history>>

-----------------------------------------------------------------------------
(* Sending.  A control message waits while the session cannot send. *)

Encrypt(p, b) ==
    /\ b \in outbox[p]
    /\ Sendable(p)
    /\ outbox' = [outbox EXCEPT ![p] = @ \ {b}]
    /\ channel' = [channel EXCEPT ![Other(p)] =
                     Append(@, [type |-> "data", h |-> session[p].h, body |-> b])]
    /\ UNCHANGED <<session, stored, starting, handing, ping, pinged, counts, history>>

\* Six seconds without a sending chain, or the session disappeared.
GiveUp(p, b) ==
    /\ b \in outbox[p]
    /\ ~Sendable(p)
    /\ outbox' = [outbox EXCEPT ![p] = @ \ {b}]
    /\ UNCHANGED <<session, stored, starting, handing, ping, pinged, channel, counts, history>>

\* The send timer of onSessionEstablishedHook.
SendPing(p) ==
    /\ ping[p] # None /\ ~pinged[p]
    /\ pinged' = [pinged EXCEPT ![p] = TRUE]
    /\ outbox' = [outbox EXCEPT ![p] = @ \cup {[kind |-> "session_ping", id |-> ping[p]]}]
    /\ UNCHANGED <<session, stored, starting, handing, ping, channel, counts, history>>

\* Its timeout timer: no pong within ten seconds.
PingTimeout(p) ==
    /\ ping[p] # None /\ pinged[p]
    /\ ping' = [ping EXCEPT ![p] = None]
    /\ pinged' = [pinged EXCEPT ![p] = FALSE]
    /\ targetedReestablish(p)
    /\ UNCHANGED <<session, stored, handing, outbox, channel, drawn, restarts, losses, history>>

-----------------------------------------------------------------------------
(* Receiving.  Any packet on the way may be the next to arrive. *)

IsInit(q, i) == channel[q][i].type = "x3dh_init"

\* Is a handshake that was sent before packet i still on the way?
Late(q, i) == \E k \in 1..(i - 1) : IsInit(q, k)

Take(q, i) == channel' = [channel EXCEPT ![q] = RemoveAt(@, i)]

Arrive(q, i) ==
    /\ Take(q, i)
    /\ undone' = (undone \/ (IsInit(q, i) /\ Late(q, i)))
    /\ cut' = (cut \/ Late(q, i))

\* A relay, a socket or the epoch window loses it (Relay, ClientLink, EpochInbox).
Lose(q, i) ==
    /\ losses < MaxLosses
    /\ losses' = losses + 1
    /\ Take(q, i)
    /\ undone' = (undone \/ IsInit(q, i))
    /\ cut' = TRUE
    /\ UNCHANGED <<session, stored, starting, handing, outbox, ping, pinged, drawn, handshakes,
                   restarts, crossed>>

\* Does an x3dh_init of q's own wait at the other device?
Crosses(q) == \E k \in DOMAIN channel[Other(q)] : IsInit(Other(q), k)

\* Mutant: a session that is there is kept.
completeIfNone(q, i) ==
    /\ IsInit(q, i)
    /\ Arrive(q, i)
    /\ LET h == channel[q][i].h
       IN  /\ session' = IF Has(q) THEN session
                         ELSE [session EXCEPT ![q] = [h |-> h, canSend |-> FALSE]]
           /\ outbox' = [outbox EXCEPT ![q] = @ \cup {[kind |-> "entropy_challenge", id |-> h]}]
    /\ ping' = [ping EXCEPT ![q] = None]
    /\ pinged' = [pinged EXCEPT ![q] = FALSE]
    /\ crossed' = (crossed \/ Crosses(q))
    /\ UNCHANGED <<stored, starting, handing, counts>>

\* The receiver session replaces whatever is there; onContactEstablished
\* sends an entropy_challenge.
completeIncomingHandshake(q, i) ==
    /\ IsInit(q, i)
    /\ Arrive(q, i)
    /\ LET h == channel[q][i].h
       IN  /\ session' = [session EXCEPT ![q] = [h |-> h, canSend |-> FALSE]]
           /\ outbox' = [outbox EXCEPT ![q] = @ \cup {[kind |-> "entropy_challenge", id |-> h]}]
    /\ ping' = [ping EXCEPT ![q] = None]
    /\ pinged' = [pinged EXCEPT ![q] = FALSE]
    /\ crossed' = (crossed \/ Crosses(q))
    /\ UNCHANGED <<stored, starting, handing, counts>>

Opens(q, i) == Has(q) /\ session[q].h = channel[q][i].h

\* The first packet turns the ratchet and starts the sending chain.
handleDataPacket(q, i) ==
    /\ ~IsInit(q, i)
    /\ Opens(q, i)
    /\ Arrive(q, i)
    /\ session' = [session EXCEPT ![q].canSend = TRUE]
    /\ LET b == channel[q][i].body
           resolves == b.kind = "session_pong" /\ b.id = ping[q]
       IN  /\ outbox' = IF b.kind = "session_ping"
                        THEN [outbox EXCEPT ![q] = @ \cup {[kind |-> "session_pong", id |-> b.id]}]
                        ELSE outbox
           /\ ping' = IF resolves THEN [ping EXCEPT ![q] = None] ELSE ping
           /\ pinged' = IF resolves THEN [pinged EXCEPT ![q] = FALSE] ELSE pinged
    /\ UNCHANGED <<stored, starting, handing, counts, crossed>>

\* No session opens it: the packet is lost, and onDecryptFailure starts a
\* handshake, or two seconds later, as ensureSession and addContactByKey may.
Undecryptable(q, i) ==
    /\ ~IsInit(q, i)
    /\ ~Opens(q, i)
    /\ Arrive(q, i)
    /\ targetedReestablish(q)
    /\ UNCHANGED <<session, stored, handing, outbox, ping, pinged, drawn, restarts, losses, crossed>>

\* Timers and waits are lost, and so is a session not yet written; the first
\* connection has the session pinged.
Restart(p) ==
    /\ restarts < MaxRestarts
    /\ restarts' = restarts + 1
    /\ session' = [session EXCEPT ![p] = stored[p]]
    /\ starting' = [starting EXCEPT ![p] = 0]
    /\ handing' = [handing EXCEPT ![p] = {}]
    /\ outbox' = [outbox EXCEPT ![p] = {}]
    /\ ping' = [ping EXCEPT ![p] = IF stored[p] # NoSession THEN drawn ELSE None]
    /\ pinged' = [pinged EXCEPT ![p] = FALSE]
    /\ drawn' = drawn + 1
    /\ undone' = (undone \/ stored[p].h # session[p].h)
    /\ cut' = TRUE
    /\ UNCHANGED <<stored, channel, handshakes, losses, crossed>>

-----------------------------------------------------------------------------
Next ==
    \E p \in Peers :
      \/ ensureSession(p) \/ addContactByKey(p) \/ resetSession(p)
      \/ initiateHandshake(p) \/ deleteSession(p) \/ Persist(p)
      \/ SendPing(p) \/ PingTimeout(p) \/ Restart(p)
      \/ \E i \in DOMAIN channel[p] :
           \/ completeIncomingHandshake(p, i) \/ handleDataPacket(p, i)
           \/ Undecryptable(p, i) \/ Lose(p, i)
      \/ \E h \in handing[p] : Initiated(p, h)
      \/ \E b \in outbox[p] : Encrypt(p, b) \/ GiveUp(p, b)

Spec == Init /\ [][Next]_vars

-----------------------------------------------------------------------------
(* Properties *)

Quiet ==
    \A p \in Peers : /\ starting[p] = 0 /\ handing[p] = {} /\ outbox[p] = {}
                     /\ ping[p] = None /\ channel[p] = <<>>

Joined == \A p, q \in Peers : session[p].h = session[q].h

\* Handshakes converge, whoever starts them, however often and whatever else is
\* lost, overtaken or cut short by a restart: at rest two sessions come from one
\* handshake, unless two x3dh_init crossed or one did not get through in its turn.
SplitIsExplained ==
    (Quiet /\ \A p \in Peers : Has(p)) => Joined \/ crossed \/ undone

\* And both can send: no handshake_activate comes too early or is given up.
BootstrappedAtRest ==
    (Quiet /\ ~crossed /\ ~cut) => \A p \in Peers : Has(p) => Sendable(p)

\* session-manager.ts:506: "Genuinely-broken sessions are recovered by the
\* session-health ping".  At rest no ping is pending, and two devices that
\* both take their session for one that can send hold the same one.
HealedWhenQuiet ==
    (Quiet /\ \A p \in Peers : Sendable(p)) => Joined

=============================================================================
