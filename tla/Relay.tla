------------------------------- MODULE Relay -------------------------------
(***************************************************************************)
(* The client side of the relay server, node/src/index.ts: the registry of *)
(* connected WebSockets, the SQLite blob store, the push registrations and *)
(* the delivery of packets, both live (handleRelayPacket, classifyLocal)   *)
(* and queued (deliverQueuedBlobs on hello and pull).                      *)
(*                                                                         *)
(* Node runs one event handler at a time, so a handler is one action.      *)
(* What interleaves with the handlers is the outside world: sockets that   *)
(* die before the server notices, close events that arrive late, the       *)
(* completion callbacks of ws.send, the prune timer and restarts.          *)
(*                                                                         *)
(* A packet is named by its position in log, the history of the packets    *)
(* the relay accepted.  A connection is used once: a client that           *)
(* reconnects appears under a new name, as a new WebSocket object does.    *)
(***************************************************************************)
EXTENDS Naturals, Sequences, FiniteSets

CONSTANTS
    Hash,                 \* destination hashes
    Conn,                 \* client WebSocket objects
    NoConn,               \* clientsByHash.get() is undefined; also "not a client"
    PushClients,          \* connections whose hello carries a push token
    HomeRelay,            \* federation keys a route hint may name
    Federated,            \* is a federation configured?
    MAX_BLOBS_PER_HASH,   \* cap of the blob store, per destination hash
    MAX_ROUTE_HINTS,      \* MAX_ROUTE_HINTS_PER_CLIENT
    BLOB_TTL,             \* age at which a stored blob expires
    MaxPackets,           \* bound: packets accepted in a behaviour
    MaxTime,              \* bound: ticks of the clock
    MaxRestarts           \* bound: restarts of the server

ASSUME ConstantsAssumption ==
    /\ NoConn \notin Conn
    /\ PushClients \subseteq Conn
    /\ Federated \in BOOLEAN
    /\ MAX_BLOBS_PER_HASH \in Nat \ {0}
    /\ MAX_ROUTE_HINTS \in Nat \ {0}
    /\ {BLOB_TTL, MaxPackets, MaxTime, MaxRestarts} \subseteq Nat
    /\ HomeRelay \cap {"live", "wake", "queue", "flood"} = {}

VARIABLES
    \* the WebSockets, in the eyes of the server
    sock,             \* [Conn -> "idle" | "open" | "half" | "dead" | "closed"]
    \* in-memory maps
    clientsByHash,    \* [Hash -> Conn \cup {NoConn}]
    hashesPerClient,  \* [Conn -> SUBSET Hash], {} also for an absent entry
    routeHints,       \* [Conn -> sequence of hints, oldest insertion first]
    \* SQLite
    blobs,            \* rows of the table blobs
    rowid,            \* the AUTOINCREMENT counter of that table
    push,             \* the hashes with a push registration
    \* ws.send: callbacks still to run, packets written to each socket, and
    \* those that were written to a socket whose peer had gone
    sending, wire, void,
    \* history
    log, evicted, expired, drained, dropped, acked,
    now, restarts

memory  == <<clientsByHash, hashesPerClient, routeHints>>
network == <<sending, wire, void>>
history == <<log, evicted, expired, drained, dropped, acked>>
vars    == <<sock, memory, blobs, rowid, push, network, history, now, restarts>>

Via  == {"live", "wake", "queue", "flood"} \cup HomeRelay
Hint == [dest : Hash, relay : HomeRelay]
Blob == [id : Nat \ {0}, pkt : Nat \ {0}, dest : Hash, at : Nat]

\* readyState === WebSocket.OPEN.  In state "half" the peer has gone but the
\* server has not noticed; in state "dead" the socket has left OPEN but its
\* close event has not been dispatched.
IsOpen(c) == sock[c] \in {"open", "half"}

\* Message events are dispatched until the close event: frames that were
\* buffered when the connection broke are still handled.
Readable(c) == sock[c] \in {"open", "half", "dead"}

-----------------------------------------------------------------------------
(* The blob store *)

BlobsFor(hs) == {b \in blobs : b.dest \in hs}

Oldest(rows) == {b \in rows : \A r \in rows : b.id <= r.id}

\* Mutant of Overflow: the cap compared with > instead of >=.
OverflowLate(h) == IF Cardinality(BlobsFor({h})) > MAX_BLOBS_PER_HASH
                   THEN Oldest(BlobsFor({h}))
                   ELSE {}

Overflow(h) == IF Cardinality(BlobsFor({h})) >= MAX_BLOBS_PER_HASH
               THEN Oldest(BlobsFor({h}))
               ELSE {}

\* Mutants of NextRowId: a primary key without AUTOINCREMENT, which reuses the
\* number of a deleted last row; a row numbered before the counter moves.
NextRowIdReused ==
    IF blobs = {} THEN 1 ELSE 1 + (CHOOSE b \in blobs : \A r \in blobs : r.id <= b.id).id
NextRowId == rowid + 1

\* storeBlob of a new packet for h; via records what the caller does next.
storeBlob(h, from, via) ==
    LET old == Overflow(h)
    IN  /\ rowid' = NextRowId
        /\ log' = Append(log, [dest |-> h, from |-> from, via |-> via])
        /\ blobs' = (blobs \ old) \cup
             {[id |-> NextRowId, pkt |-> Len(log) + 1, dest |-> h, at |-> now]}
        /\ evicted' = evicted \cup {b.pkt : b \in old}

\* Mutant of DrainOrders: a SELECT without ORDER BY.
DrainAnyOrder(rows) ==
    {s \in [1..Cardinality(rows) -> rows] : \A b \in rows : \E i \in DOMAIN s : s[i] = b}

\* The orders in which deliverQueuedBlobs can write the rows of several
\* hashes: hash after hash, each by ascending id.
DrainOrders(rows) ==
    {s \in [1..Cardinality(rows) -> rows] :
        /\ \A b \in rows : \E i \in DOMAIN s : s[i] = b
        /\ \A i, j \in DOMAIN s :
             (i < j /\ s[i].dest = s[j].dest) => s[i].id < s[j].id
        /\ \A i, j, k \in DOMAIN s :
             (i < j /\ j < k /\ s[i].dest = s[k].dest) => s[j].dest = s[i].dest}

\* pullBlobs deletes the rows before any of them is sent.
deliverQueuedBlobs(c, hs) ==
    LET rows == BlobsFor(hs)
        pkts == {b.pkt : b \in rows}
    IN  /\ blobs' = blobs \ rows
        /\ IF IsOpen(c)
           THEN /\ \E s \in DrainOrders(rows) :
                     wire' = [wire EXCEPT ![c] = @ \o [i \in DOMAIN s |-> s[i].pkt]]
                /\ void' = IF sock[c] = "half" THEN void \cup pkts ELSE void
                /\ drained' = drained \cup pkts
                /\ UNCHANGED dropped
           ELSE /\ dropped' = dropped \cup pkts
                /\ UNCHANGED <<wire, void, drained>>

pruneExpiredBlobs ==
    LET rows == {b \in blobs : b.at + BLOB_TTL < now}
    IN  /\ rows # {}
        /\ blobs' = blobs \ rows
        /\ expired' = expired \cup {b.pkt : b \in rows}
        /\ UNCHANGED <<sock, memory, rowid, push, network,
                       log, evicted, drained, dropped, acked, now, restarts>>

-----------------------------------------------------------------------------
(* The registry *)

registerClient(c, hs) ==
    /\ clientsByHash' = [h \in Hash |->
           IF h \in hs THEN c
           ELSE IF h \in hashesPerClient[c] THEN NoConn
           ELSE clientsByHash[h]]
    /\ hashesPerClient' = [hashesPerClient EXCEPT ![c] = hs]

\* Mutant of deregisterClient: the reverse map is cleaned, the registry is not.
deregisterReverseOnly(c) ==
    /\ hashesPerClient' = [hashesPerClient EXCEPT ![c] = {}]
    /\ routeHints' = [routeHints EXCEPT ![c] = <<>>]
    /\ UNCHANGED clientsByHash

deregisterClient(c) ==
    /\ clientsByHash' = [h \in Hash |->
           IF h \in hashesPerClient[c] THEN NoConn ELSE clientsByHash[h]]
    /\ hashesPerClient' = [hashesPerClient EXCEPT ![c] = {}]
    /\ routeHints' = [routeHints EXCEPT ![c] = <<>>]

-----------------------------------------------------------------------------
(* Handlers of the WebSocket server *)

\* Mutant of Hello: registration without delivery of the queue.
HelloWithoutDelivery(c, hs) ==
    /\ Readable(c)
    /\ registerClient(c, hs)
    /\ push' = IF c \in PushClients THEN push \cup hs ELSE push
    /\ UNCHANGED <<sock, routeHints, blobs, rowid, network, history, now, restarts>>

\* Message 'hello'.
Hello(c, hs) ==
    /\ Readable(c)
    /\ registerClient(c, hs)
    /\ push' = IF c \in PushClients THEN push \cup hs ELSE push
    /\ deliverQueuedBlobs(c, hs)
    /\ UNCHANGED <<sock, routeHints, rowid, sending,
                   log, evicted, expired, acked, now, restarts>>

\* Message 'pull'.
Pull(c) ==
    /\ Readable(c)
    /\ deliverQueuedBlobs(c, hashesPerClient[c])
    /\ UNCHANGED <<sock, memory, rowid, push, sending,
                   log, evicted, expired, acked, now, restarts>>

\* Message 'route': a hint replaces an earlier one for the same hash in place,
\* and a new one evicts the oldest insertion when the map is full.
AddHint(hints, hint) ==
    IF \E i \in DOMAIN hints : hints[i].dest = hint.dest
    THEN [i \in DOMAIN hints |-> IF hints[i].dest = hint.dest THEN hint ELSE hints[i]]
    ELSE Append(IF Len(hints) >= MAX_ROUTE_HINTS THEN Tail(hints) ELSE hints, hint)

Route(c, h, r) ==
    /\ Readable(c)
    /\ routeHints' = [routeHints EXCEPT ![c] = AddHint(@, [dest |-> h, relay |-> r])]
    /\ UNCHANGED <<sock, clientsByHash, hashesPerClient, blobs, rowid, push,
                   network, history, now, restarts>>

\* ws.send(data, callback) on an OPEN socket, for the packet being stored.
liveSend(r) ==
    /\ wire' = [wire EXCEPT ![r] = Append(@, Len(log) + 1)]
    /\ void' = IF sock[r] = "half" THEN void \cup {Len(log) + 1} ELSE void
    /\ sending' = sending \cup {[conn |-> r, id |-> NextRowId, pkt |-> Len(log) + 1]}

\* The socket a packet for h from c is sent to at once, or NoConn.
Recipient(h, c) ==
    LET r == clientsByHash[h]
    IN  IF r # NoConn /\ r # c /\ IsOpen(r) THEN r ELSE NoConn

HintedRelays(c, h) ==
    {r \in HomeRelay : \E i \in DOMAIN routeHints[c] :
                          routeHints[c][i] = [dest |-> h, relay |-> r]}

\* What handleRelayPacket does with a packet that is not sent at once:
\* wake the device, or hand it to the federation (forwardToRelay may fail and
\* then the packet is flooded), or only leave it in the store.
OfflineVia(c, h) ==
    CASE h \in push -> {"wake"}
      [] h \notin push /\ Federated ->
            {"flood"} \cup HintedRelays(c, h)
      [] OTHER -> {"queue"}

\* A binary frame.  Oversized and malformed ones change nothing.
handleRelayPacket(c, h) ==
    /\ Readable(c)
    /\ Len(log) < MaxPackets
    /\ LET r == Recipient(h, c)
       IN  \/ /\ r # NoConn
              /\ storeBlob(h, c, "live")
              /\ liveSend(r)
           \/ /\ r = NoConn
              /\ \E via \in OfflineVia(c, h) : storeBlob(h, c, via)
              /\ UNCHANGED network
    /\ UNCHANGED <<sock, memory, push,
                   expired, drained, dropped, acked, now, restarts>>

\* A packet from a federated peer.  'unknown' changes nothing here.
classifyLocal(h) ==
    /\ Federated
    /\ Len(log) < MaxPackets
    /\ LET r == Recipient(h, NoConn)
       IN  \/ /\ r # NoConn
              /\ storeBlob(h, NoConn, "live")
              /\ liveSend(r)
           \/ /\ r = NoConn /\ h \in push
              /\ storeBlob(h, NoConn, "wake")
              /\ UNCHANGED network
    /\ UNCHANGED <<sock, memory, push,
                   expired, drained, dropped, acked, now, restarts>>

\* Mutants of SendCallback: the row is not purged; every row of the hash is.
SendCallbackKeepsRow(c, s) ==
    /\ s.conn = c /\ IsOpen(c)
    /\ \A t \in sending : t.conn = c => s.id <= t.id
    /\ sending' = sending \ {s}
    /\ acked' = acked \cup {s.pkt}
    /\ UNCHANGED <<sock, memory, blobs, rowid, push, wire, void,
                   log, evicted, expired, drained, dropped, now, restarts>>
SendCallbackClearsHash(c, s) ==
    /\ s.conn = c /\ IsOpen(c)
    /\ \A t \in sending : t.conn = c => s.id <= t.id
    /\ sending' = sending \ {s}
    /\ blobs' = blobs \ BlobsFor({log[s.pkt].dest})
    /\ acked' = acked \cup {s.pkt}
    /\ UNCHANGED <<sock, memory, rowid, push, wire, void,
                   log, evicted, expired, drained, dropped, now, restarts>>

\* The callback of the oldest pending send on c, without an error: the frame
\* was handed to the kernel, whether or not the peer still reads.
SendCallback(c, s) ==
    /\ s.conn = c /\ IsOpen(c)
    /\ \A t \in sending : t.conn = c => s.id <= t.id
    /\ sending' = sending \ {s}
    /\ blobs' = {b \in blobs : b.id # s.id}
    /\ acked' = acked \cup {s.pkt}
    /\ UNCHANGED <<sock, memory, rowid, push, wire, void,
                   log, evicted, expired, drained, dropped, now, restarts>>

\* Once the socket is down every pending callback on it reports an error, and
\* the rows stay.
SendError(c) ==
    /\ sock[c] \in {"dead", "closed"}
    /\ \E s \in sending : s.conn = c
    /\ sending' = {s \in sending : s.conn # c}
    /\ UNCHANGED <<sock, memory, blobs, rowid, push, wire, void, history, now, restarts>>

\* Events 'close' and 'error'.
SocketClosed(c) ==
    /\ sock[c] = "dead"
    /\ sock' = [sock EXCEPT ![c] = "closed"]
    /\ deregisterClient(c)
    /\ UNCHANGED <<blobs, rowid, push, network, history, now, restarts>>

-----------------------------------------------------------------------------
(* The network and the clients, as the server meets them *)

Connect(c) ==
    /\ sock[c] = "idle"
    /\ sock' = [sock EXCEPT ![c] = "open"]
    /\ UNCHANGED <<memory, blobs, rowid, push, network, history, now, restarts>>

\* The client terminates or the network drops; nothing tells the server yet.
PeerGone(c) ==
    /\ sock[c] = "open"
    /\ sock' = [sock EXCEPT ![c] = "half"]
    /\ UNCHANGED <<memory, blobs, rowid, push, network, history, now, restarts>>

\* readyState leaves OPEN.
SocketDown(c) ==
    /\ IsOpen(c)
    /\ sock' = [sock EXCEPT ![c] = "dead"]
    /\ UNCHANGED <<memory, blobs, rowid, push, network, history, now, restarts>>

Tick ==
    /\ now < MaxTime
    /\ now' = now + 1
    /\ UNCHANGED <<sock, memory, blobs, rowid, push, network, history, restarts>>

-----------------------------------------------------------------------------
(* Shutdown or crash, and restart: the database survives, the maps do not,  *)
(* and callbacks that were pending never run.  The statements of storeBlob  *)
(* are not one transaction: a crash may fall between its delete and insert. *)

LoseMemory ==
    /\ restarts < MaxRestarts
    /\ restarts' = restarts + 1
    /\ sock' = [c \in Conn |-> IF sock[c] = "idle" THEN "idle" ELSE "closed"]
    /\ clientsByHash' = [h \in Hash |-> NoConn]
    /\ hashesPerClient' = [c \in Conn |-> {}]
    /\ routeHints' = [c \in Conn |-> <<>>]
    /\ sending' = {}
    /\ UNCHANGED <<rowid, push, wire, void, log, expired, drained, dropped, acked, now>>

Restart ==
    /\ LoseMemory
    /\ UNCHANGED <<blobs, evicted>>

CrashInStoreBlob(h) ==
    /\ \E c \in Conn : Readable(c)
    /\ Overflow(h) # {}
    /\ LoseMemory
    /\ blobs' = blobs \ Overflow(h)
    /\ evicted' = evicted \cup {b.pkt : b \in Overflow(h)}

-----------------------------------------------------------------------------
Init ==
    /\ sock = [c \in Conn |-> "idle"]
    /\ clientsByHash = [h \in Hash |-> NoConn]
    /\ hashesPerClient = [c \in Conn |-> {}]
    /\ routeHints = [c \in Conn |-> <<>>]
    /\ blobs = {} /\ rowid = 0 /\ push = {}
    /\ sending = {}
    /\ wire = [c \in Conn |-> <<>>]
    /\ void = {}
    /\ log = <<>>
    /\ evicted = {} /\ expired = {} /\ drained = {} /\ dropped = {} /\ acked = {}
    /\ now = 0 /\ restarts = 0

Message(c) ==
    \/ \E hs \in SUBSET Hash \ {{}} : Hello(c, hs)
    \/ Pull(c)
    \/ \E h \in Hash, r \in HomeRelay : Route(c, h, r)
    \/ \E h \in Hash : handleRelayPacket(c, h)

Callback(c) == SendError(c) \/ \E s \in sending : SendCallback(c, s)

Network(c) == Connect(c) \/ PeerGone(c) \/ SocketDown(c) \/ SocketClosed(c)

Next ==
    \/ \E c \in Conn : Message(c) \/ Callback(c) \/ Network(c)
    \/ \E h \in Hash : classifyLocal(h) \/ CrashInStoreBlob(h)
    \/ pruneExpiredBlobs
    \/ Tick
    \/ Restart

Spec == Init /\ [][Next]_vars

\* Node runs pending callbacks and close events, and a client says hello as
\* soon as its socket opens (connect() of transport/node).
FirstHello(c) == hashesPerClient[c] = {} /\ Hello(c, Hash)

FairSpec ==
    /\ Spec
    /\ \A c \in Conn : /\ WF_vars(Callback(c))
                       /\ WF_vars(SocketClosed(c))
                       /\ WF_vars(FirstHello(c))

-----------------------------------------------------------------------------
(* Properties *)

Packet == 1..Len(log)

\* Every variable has its type.
TypeOK ==
    /\ sock \in [Conn -> {"idle", "open", "half", "dead", "closed"}]
    /\ clientsByHash \in [Hash -> Conn \cup {NoConn}]
    /\ hashesPerClient \in [Conn -> SUBSET Hash]
    /\ routeHints \in [Conn -> Seq(Hint)]
    /\ blobs \in SUBSET Blob /\ IsFiniteSet(blobs)
    /\ rowid \in Nat /\ push \in SUBSET Hash
    /\ sending \in SUBSET [conn : Conn, id : Nat \ {0}, pkt : Nat \ {0}]
    /\ wire \in [Conn -> Seq(Nat \ {0})]
    /\ log \in Seq([dest : Hash, from : Conn \cup {NoConn}, via : Via])
    /\ {void, evicted, expired, drained, dropped, acked} \subseteq SUBSET (Nat \ {0})
    /\ now \in Nat /\ restarts \in Nat

\* The registry never names a socket whose close event has been handled, nor
\* one that does not list the hash: deregisterClient walks hashesPerClient, so
\* an entry missing there would never be cleaned up.
RegistrySound ==
    \A h \in Hash : clientsByHash[h] # NoConn =>
        /\ h \in hashesPerClient[clientsByHash[h]]
        /\ Readable(clientsByHash[h])

\* storeBlob keeps at most MAX_BLOBS_PER_HASH rows for a hash, across crashes.
StoreBounded ==
    \A h \in Hash : Cardinality(BlobsFor({h})) <= MAX_BLOBS_PER_HASH

\* No accepted packet disappears silently: it is stored, or one of the code's
\* five ways out took it (evicted, expired, pulled and written, pulled for a
\* socket no longer OPEN, or its own send completed).  In particular the
\* callback of one send never deletes the row of another packet.
Accounted ==
    \A p \in Packet :
        \/ \E b \in blobs : b.pkt = p
        \/ p \in evicted \cup expired \cup drained \cup dropped \cup acked

\* Row numbers are never reused, so a callback that still waits can only name
\* the row of its own packet, after any number of deletions and restarts.
RowsSound ==
    /\ \A b \in blobs : b.id <= rowid /\ b.pkt <= Len(log)
    /\ \A s \in sending : s.id <= rowid
    /\ \A b \in blobs, s \in sending : b.id = s.id => b.pkt = s.pkt

\* When a queue overflows it loses its oldest packets: nothing stored for the
\* hash is older than a packet that was evicted.
EvictsOldest ==
    \A p \in evicted, b \in blobs : b.dest = log[p].dest => b.pkt > p

\* Through overflow, deletions and restarts late callbacks name their own rows,
\* and a queue stays within the cap and holds the newest packets.
StoreSound == StoreBounded /\ RowsSound /\ EvictsOldest

\* On one connection the packets for a hash are written in the order the relay
\* accepted them, except for a second copy of one written before and for
\* packets the client sent to itself: a live packet never overtakes the queue.
InOrder ==
    \A c \in Conn : \A i, j \in DOMAIN wire[c] :
        LET p == wire[c][i]
            q == wire[c][j]
        IN  (i < j /\ q < p /\ log[p].dest = log[q].dest /\ log[q].from # c)
              => \E k \in 1..(i - 1) : wire[c][k] = q

Writes(p) == {w \in Conn \X (1..2 * MaxPackets) :
                 w[2] \in DOMAIN wire[w[1]] /\ wire[w[1]][w[2]] = p}

\* Once the send callback has reported success the packet is never written
\* again ("purge from store so it isn't delivered twice").
AckedNotRewritten ==
    [][\A p \in acked : Writes(p)' = Writes(p)]_vars

Stored(p) == \E b \in blobs : b.pkt = p

\* handleRelayPacket: "Always store the blob first so it survives regardless of
\* delivery outcome.  This prevents a race where the recipient's WebSocket is
\* still in the registry (close event not yet fired) but the peer has already
\* called terminate()."  A packet sent live is stored until somebody can read it.
SurvivesDelivery ==
    \A p \in acked \ (evicted \cup expired \cup drained \cup dropped) :
        Stored(p) \/ p \notin void

\* NodeTransport: hello registers the hashes and "the Node then routes incoming
\* packets to the registered hashes": the only connection that lists a hash,
\* open, is where the registry sends its packets.
RoutedWhileRegistered ==
    \A c \in Conn : \A h \in hashesPerClient[c] :
        (sock[c] = "open" /\ \A d \in Conn \ {c} : h \notin hashesPerClient[d])
            => clientsByHash[h] = c

\* A connection's hints stay within the cap and name each hash once, so that the
\* hint HintedRelays finds is the one the client gave last.
HintsBounded ==
    \A c \in Conn :
        /\ Len(routeHints[c]) <= MAX_ROUTE_HINTS
        /\ \A i, j \in DOMAIN routeHints[c] :
              routeHints[c][i].dest = routeHints[c][j].dest => i = j

\* A packet waiting in the store when a client connects for its hash reaches
\* that client, unless its connection goes away or the packet is removed first.
QueuedReachesClient ==
    \A c \in Conn, p \in 1..MaxPackets :
        (p \in Packet /\ Stored(p) /\ sock[c] = "open" /\ hashesPerClient[c] = {})
            ~> \/ \E i \in DOMAIN wire[c] : wire[c][i] = p
               \/ sock[c] # "open"
               \/ p \in evicted \cup expired \cup dropped \cup drained \cup acked

=============================================================================
