------------------------------- MODULE Outbox -------------------------------
(***************************************************************************)
(* Sending from the SDK while the connection comes and goes: sendMessage,  *)
(* the queue of messages sent offline, and flushOutboundQueue, which each  *)
(* "connected" report starts anew, beside the flushes already under way.   *)
(* The connection is the one Link describes.                               *)
(*                                                                         *)
(* A client of a relay only: no mesh bearer is available, and every peer   *)
(* has one device.                                                         *)
(***************************************************************************)
EXTENDS Naturals, Sequences

CONSTANTS
    Peer,           \* recipients
    Failing,        \* those for whom sending may throw: no permission, no session
    StorageFails,   \* may saveMessage throw?
    MaxMessages,    \* bound: messages of a behaviour
    MaxConnects     \* bound: "connected" reports of a behaviour

ASSUME ConstantsAssumption ==
    /\ Failing \subseteq Peer
    /\ StorageFails \in BOOLEAN
    /\ {MaxMessages, MaxConnects} \subseteq Nat

VARIABLES
    link,           \* the connection, of Link
    queue,          \* this.outboundQueue
    calls,          \* calls of sendMessage that wait for something
    wire,           \* messages handed to the relay's socket, in order
    stashed,        \* messages put in the local relay store
    thrown,         \* messages whose failure the caller was told
    unsaved,        \* history: sent, and not saved since storage failed
    accepted,       \* messages so far
    connects,       \* "connected" reports so far
    overlapped      \* history: a flush began while another was under way

sending == <<queue, calls, wire, stashed, thrown, unsaved, accepted>>
vars    == <<link, sending, connects, overlapped>>

L == INSTANCE Link

\* A message: its number, its recipient, and whether it was queued.
Message == [id : Nat, to : Peer, queued : BOOLEAN]

\* A call of sendMessage past its first await: up to the hand-over of the packet
\* ("prepare"), or after it ("save").
Call == [msg : Message, by : {"app", "flush"}, stage : {"prepare", "save"}]

nodeConnected == link # "down"

-----------------------------------------------------------------------------
Init ==
    /\ L!Init
    /\ queue = <<>> /\ wire = <<>>
    /\ calls = {} /\ stashed = {} /\ thrown = {} /\ unsaved = {}
    /\ accepted = 0 /\ connects = 0
    /\ overlapped = FALSE

FlushCall(m) == [msg |-> m, by |-> "flush", stage |-> "prepare"]

\* Mutant of FlushFrom: the next item stays in the queue while it is sent.
FlushPeeks(q, others, online) ==
    /\ queue' = q
    /\ calls' = IF q # <<>> /\ online THEN others \cup {FlushCall(Head(q))} ELSE others

\* The loop of flushOutboundQueue from its test to its await: the next item is
\* shifted and sendMessage is called with it, which finds nodeConnected.
FlushFrom(q, others, online) ==
    IF q # <<>> /\ online
    THEN queue' = Tail(q) /\ calls' = others \cup {FlushCall(Head(q))}
    ELSE queue' = q /\ calls' = others

\* Mutant of Connected: the queue is not flushed.
ConnectedWithoutFlush ==
    /\ connects < MaxConnects
    /\ connects' = connects + 1
    /\ L!Up \/ (link = "up" /\ UNCHANGED link)
    /\ UNCHANGED <<sending, overlapped>>

\* onStatusChange('connected'): from a socket that opens, also beside another.
Connected ==
    /\ connects < MaxConnects
    /\ connects' = connects + 1
    /\ L!Up \/ (link = "up" /\ UNCHANGED link)
    /\ FlushFrom(queue, calls, TRUE)
    /\ overlapped' = (overlapped \/ \E c \in calls : c.by = "flush")
    /\ UNCHANGED <<wire, stashed, thrown, unsaved, accepted>>

Disconnected == (L!GoStale \/ L!Down) /\ UNCHANGED <<sending, connects, overlapped>>

\* The application sends.
sendMessage(p) ==
    LET m == [id |-> accepted, to |-> p, queued |-> ~nodeConnected]
    IN  /\ accepted < MaxMessages
        /\ accepted' = accepted + 1
        /\ IF nodeConnected
           THEN /\ calls' = calls \cup {[msg |-> m, by |-> "app", stage |-> "prepare"]}
                /\ UNCHANGED queue
           ELSE queue' = Append(queue, m) /\ UNCHANGED calls
        /\ UNCHANGED <<link, wire, stashed, thrown, unsaved, connects, overlapped>>

\* routeAndSend: the transport, or if it is not available the local relay store,
\* which is emptied when a neighbour of the mesh appears, and reports no error.
routeAndSend(c) ==
    /\ c \in calls /\ c.stage = "prepare"
    /\ calls' = (calls \ {c}) \cup {[c EXCEPT !.stage = "save"]}
    /\ IF link = "up"
       THEN wire' = Append(wire, c.msg) /\ UNCHANGED stashed
       ELSE stashed' = stashed \cup {c.msg} /\ UNCHANGED wire
    /\ UNCHANGED <<link, queue, thrown, unsaved, accepted, connects, overlapped>>

\* The message is saved and sendMessage returns; a flush goes on.
Return(c) ==
    /\ c \in calls /\ c.stage = "save"
    /\ IF c.by = "flush"
       THEN FlushFrom(queue, calls \ {c}, nodeConnected)
       ELSE calls' = calls \ {c} /\ UNCHANGED queue
    /\ UNCHANGED <<link, wire, stashed, thrown, unsaved, accepted, connects, overlapped>>

\* Mutant of Throw: a failed item is forgotten.
ThrowForgets(c) ==
    /\ c \in calls
    /\ c.stage = "prepare" /\ c.msg.to \in Failing
    /\ calls' = calls \ {c}
    /\ thrown' = IF c.by = "app" THEN thrown \cup {c.msg} ELSE thrown
    /\ UNCHANGED <<link, queue, wire, stashed, unsaved, accepted, connects, overlapped>>

\* sendMessage throws, before the packet is handed over or because saveMessage
\* throws after it.  A flush puts its item back in front and ends.
Throw(c) ==
    /\ c \in calls
    /\ \/ c.stage = "prepare" /\ c.msg.to \in Failing /\ UNCHANGED unsaved
       \/ c.stage = "save" /\ StorageFails /\ unsaved' = unsaved \cup {c.msg}
    /\ calls' = calls \ {c}
    /\ IF c.by = "flush"
       THEN queue' = <<c.msg>> \o queue /\ UNCHANGED thrown
       ELSE thrown' = thrown \cup {c.msg} /\ UNCHANGED queue
    /\ UNCHANGED <<link, wire, stashed, accepted, connects, overlapped>>

Next ==
    \/ Connected \/ Disconnected
    \/ \E p \in Peer : sendMessage(p)
    \/ \E c \in calls : routeAndSend(c) \/ Return(c) \/ Throw(c)

Spec == Init /\ [][Next]_vars

\* Promises settle: a call that waits goes on.
Fairness == WF_vars(\E c \in calls : routeAndSend(c) \/ Return(c) \/ Throw(c))

FairSpec == Spec /\ Fairness

-----------------------------------------------------------------------------
(* Properties *)

Elements(s) == {s[i] : i \in DOMAIN s}

\* The variables have their types.
TypeOK ==
    /\ L!TypeOK
    /\ queue \in Seq(Message) /\ wire \in Seq(Message)
    /\ calls \subseteq Call
    /\ {stashed, thrown, unsaved} \subseteq SUBSET Message
    /\ {accepted, connects} \subseteq Nat
    /\ overlapped \in BOOLEAN

\* Whatever flushes overlap, a message the SDK accepted is queued, being sent,
\* sent, in the local store, or its caller was told.
Accounted ==
    \A n \in 0..(accepted - 1) :
        \E m \in Elements(queue) \cup {c.msg : c \in calls} \cup Elements(wire)
                   \cup stashed \cup thrown :
            m.id = n

\* No message is sent a second time unless it was sent and could not be saved.
ResentIfUnsaved ==
    \A i, j \in DOMAIN wire : i < j /\ wire[i] = wire[j] => wire[i] \in unsaved

\* Messages that were queued are sent in the order they were accepted in, as long
\* as no flush begins beside another.
QueuedInOrder ==
    ~overlapped =>
        \A i, j \in DOMAIN wire :
            i < j /\ wire[i].queued /\ wire[j].queued => wire[i].id <= wire[j].id

\* What the wire may show of one sender.
SentOnceInOrder == ResentIfUnsaved /\ QueuedInOrder

\* onConnectionStatus: "Messages sent while disconnected are queued and flushed
\* automatically on reconnect".  If the connection comes back to stay, no message
\* stays in the queue, but for peers for whom sending fails.
QueuedIsFlushed ==
    <>[](link = "up") =>
        \A p \in Peer \ Failing : <>[](\A m \in Elements(queue) : m.to # p)

\* What the code does of it: a queue that stays waits behind an item whose sending
\* or saving failed, whatever flushes overlap and whatever came before.
StuckBehindFailure ==
    <>[](link = "up") =>
        <>[](queue # <<>> => Head(queue).to \in Failing \/ Head(queue) \in unsaved)

\* The same: a message that finds no connection is queued, not put elsewhere.
UnsentIsQueued == stashed = {}

=============================================================================
