----------------------------- MODULE Federation -----------------------------
(***************************************************************************)
(* The federation of relays, node/src/federation.ts: the peer map and the  *)
(* sockets of its links, with their handshakes, replacement, heartbeats    *)
(* and reconnection; dialling on demand and its queue; the flood with its  *)
(* cache of packet ids and hop limit; routed and onion transit; and the    *)
(* gossip of address records.                                              *)
(*                                                                         *)
(* A socket is a connection with two ends, "i" (it dialled) and "r"; each  *)
(* end names the PeerState object its handlers were closed over.  Objects  *)
(* have an identity of their own: one may leave the map while its sockets  *)
(* live on.  Ciphers, signatures and rate limits are left out, and so are  *)
(* gossip frames that tell their receiver nothing: handling one changes    *)
(* nothing.                                                                *)
(***************************************************************************)
EXTENDS Naturals, Sequences, FiniteSets, SequencesExt, FiniteSetsExt

CONSTANTS
    Relay,
    MAX_TRANSIT_HOPS, MAX_PENDING_FORWARDS, maxPeers, onionHops,
    MaxConns, MaxObjs,   \* bounds: sockets and PeerStates at a time
    Scenarios            \* configurations to check, each with its bounds

(* A scenario: who has whom in the peers file (file), with a url (dials) or  *)
(* without (listed), who advertises an endpoint (public), who is confined to *)
(* its links (noDial) or wraps transit (onion), who knows the recipient      *)
(* (home), MAX_HOPS, the mode (open), whether it starts with the dialled     *)
(* links up (up) or with all records known, whether the dialling can end     *)
(* (live: not when both sides of a pair dial, or a stranger is turned away   *)
(* again and again), and the budgets.  A packet goes from src, with a hint   *)
(* to target if it has one.                                                  *)
Scenario ==
    [file : Seq(Relay \X Relay), dials : SUBSET (Relay \X Relay), listed : SUBSET (Relay \X Relay),
     public : SUBSET Relay, noDial : SUBSET Relay, onion : SUBSET Relay, home : SUBSET Relay,
     open : BOOLEAN, up : BOOLEAN, known : BOOLEAN, calm : BOOLEAN, live : BOOLEAN,
     src : Relay, target : Relay, hint : BOOLEAN, packets : Nat, all : Nat,
     faults : Nat, evictions : Nat, weeks : Nat, conns : Nat, MAX_HOPS : Nat]

\* No pair is twice in the file; with the links up, both sides of each are in it.
ScenarioOK(s) ==
    /\ ToSet(s.file) = s.dials \cup s.listed /\ IsInjective(s.file)
    /\ Len(s.file) <= MaxObjs /\ s.conns <= MaxConns
    /\ s.up => \A i \in DOMAIN s.file :
                 LET back == <<s.file[i][2], s.file[i][1]>>
                 IN  /\ back \in ToSet(s.file) /\ {s.file[i], back} \cap s.dials # {}
                     /\ s.file[i] \in s.dials => i <= MaxConns

ConstantsOK ==
    /\ {MAX_TRANSIT_HOPS, MAX_PENDING_FORWARDS, maxPeers, onionHops,
        MaxConns, MaxObjs} \subseteq Nat
    /\ IsFiniteSet(Relay) /\ 0 \notin Relay
    /\ Scenarios \subseteq Scenario
    /\ \A s \in Scenarios : ScenarioOK(s)

ASSUME FederationConstants == ConstantsOK

VARIABLES
    sc,        \* the scenario; its budgets count down
    conn,      \* [1..MaxConns -> connection]
    obj,       \* [1..MaxObjs -> PeerState]
    peers,     \* the maps: [Relay -> [Relay -> object or 0]]
    book,      \* addrBook: [Relay -> [Relay -> ts or 0]]
    now,       \* the last ts given to a record
    weekOld,   \* records up to this ts are older than ADDR_RECORD_MAX_AGE_MS
    cache,     \* [Relay -> ids in the PacketIdCache]
    minted,    \* ids given so far
    \* history
    classified, \* [Relay -> <<packet, id>> given to classifyLocal]
    again,     \* ... given to it twice
    forgot,    \* relays whose cache lost an id
    lost,      \* packets with a copy that was dropped
    shadowed,  \* <<relay, id>>: the first copy to arrive had no hops left
    overlap,   \* [Relay -> most handshakes of strangers admitted at a time]
    ousted     \* relays that dropped a learned peer in the middle of its handshake

net  == <<conn, obj, peers, cache, minted, lost, ousted>>
hist == <<classified, again, forgot, shadowed, overlap>>
gos  == <<book, now, weekOld>>
vars == <<sc, net, gos, hist>>

End == {"i", "r"}
Other(e) == IF e = "i" THEN "r" ELSE "i"

NoConn == [from |-> 0, to |-> 0, cut |-> FALSE, sent |-> FALSE, bad |-> FALSE,
           st |-> [e \in End |-> "gone"], o |-> [e \in End |-> 0],
           beat |-> [e \in End |-> FALSE], q |-> [e \in End |-> <<>>]]
NoObj == [owner |-> 0, about |-> 0, url |-> FALSE, dynamic |-> FALSE, learned |-> FALSE,
          evicted |-> FALSE, ws |-> 0, est |-> FALSE, timer |-> FALSE, beat |-> 0,
          pending |-> <<>>]

newPeerState(r, p, url, dynamic, learned) ==
    [NoObj EXCEPT !.owner = r, !.about = p, !.url = url, !.dynamic = dynamic,
                  !.learned = learned]

\* The world a handler reads and changes, and the one it leaves.
W == [conn |-> conn, obj |-> obj, peers |-> peers, cache |-> cache,
      minted |-> minted, lost |-> lost]
Ousts(w, r) ==
    \E c \in 1..MaxConns :
        LET p == w.conn[c].from
        IN  /\ w.conn[c].to = r /\ w.conn[c].st["r"] = "accepted"
            /\ peers[r][p] # 0 /\ obj[peers[r][p]].learned /\ w.peers[r][p] = 0
Become(w) ==
    /\ conn' = w.conn /\ obj' = w.obj /\ peers' = w.peers
    /\ cache' = w.cache /\ minted' = w.minted /\ lost' = w.lost
    /\ ousted' = ousted \cup {r \in Relay : Ousts(w, r)}

EndOf(w, o, c) == IF w.conn[c].o["i"] = o THEN "i" ELSE "r"
Known(w, r) == {p \in Relay : w.peers[r][p] # 0}
FreeConns(w) == {c \in 1..sc.conns : w.conn[c] = NoConn}
FreeObjs(w) == {o \in 1..MaxObjs : w.obj[o] = NoObj}

\* ws.readyState of an end is OPEN.
IsOpen(w, c, e) == w.conn[c].st[e] \in {"hello", "accepted", "signed", "up"}

\* established && ws && readyState === OPEN.
Usable(w, o) ==
    /\ o # 0 /\ w.obj[o].est /\ w.obj[o].ws # 0
    /\ IsOpen(w, w.obj[o].ws, EndOf(w, o, w.obj[o].ws))
Linked(w, r, p) == Usable(w, w.peers[r][p])

-----------------------------------------------------------------------------
(* Sending *)

Frames(q) == {q[i] : i \in DOMAIN q}
Packets(q) == {f.pk : f \in {g \in Frames(q) : g.k # "gossip"}}

Lose(w, f) == IF f.k = "gossip" THEN w ELSE [w EXCEPT !.lost = @ \cup {f.pk}]

\* Whether a frame that end e of socket k sends arrives, and the socket then.  A frame that
\* overtakes the signature of a handshake under way is taken for it.
Carries(k, e) == ~k.cut /\ k.st[Other(e)] # "gone" /\ k.st[e] # "hello"
Carried(k, e, s) ==
    IF Carries(k, e) THEN [k EXCEPT !.q[Other(e)] = @ \o s]
    ELSE IF k.cut \/ k.st[Other(e)] = "gone" THEN k ELSE [k EXCEPT !.bad = TRUE]

\* Frames on the socket of o.
SendSeq(w, o, s) ==
    LET c == w.obj[o].ws
        e == EndOf(w, o, c)
    IN  [w EXCEPT !.conn[c] = Carried(@, e, s),
                  !.lost = @ \cup IF Carries(w.conn[c], e) THEN {} ELSE Packets(s)]
Send(w, o, f) == SendSeq(w, o, <<f>>)

\* A frame for each peer of r in the domain of fs; no two have the same socket.
SendEach(w, r, fs) ==
    LET Ours(p) == EndOf(w, w.peers[r][p], w.obj[w.peers[r][p]].ws)
        On(c) == {p \in DOMAIN fs : w.obj[w.peers[r][p]].ws = c}
        Lost(p) == ~Carries(w.conn[w.obj[w.peers[r][p]].ws], Ours(p))
    IN  [w EXCEPT !.conn = [c \in 1..MaxConns |->
                      IF On(c) = {} THEN w.conn[c]
                      ELSE LET p == CHOOSE x \in On(c) : TRUE
                           IN  Carried(w.conn[c], Ours(p), <<fs[p]>>)],
                  !.lost = @ \cup UNION {Packets(<<fs[p]>>) : p \in {x \in DOMAIN fs : Lost(x)}}]

\* fanOut: to every usable peer but one.  (A copy for a peer whose link is down,
\* or a packet there is nobody to send to, counts as dropped.)
fanOut(w, r, f, excluded) ==
    LET usable == {p \in Relay \ {excluded} : Linked(w, r, p)}
        u == IF Known(w, r) \ {excluded} = usable /\ Known(w, r) # {} THEN w ELSE Lose(w, f)
    IN  SendEach(u, r, [p \in usable |-> f])

\* A fresh packet id, in the sender's own cache.
Mint(w, r) == [w EXCEPT !.minted = @ + 1, !.cache[r] = @ \cup {w.minted + 1}]

forwardFromLocal(w, r, pk) ==
    LET u == Mint(w, r)
    IN  fanOut(u, r, [k |-> "fwd", pk |-> pk, id |-> u.minted, n |-> 0], r)

sendForwardFrame(w, o, pk) ==
    LET u == Mint(w, w.obj[o].owner)
    IN  Send(u, o, [k |-> "fwd", pk |-> pk, id |-> u.minted, n |-> 0])

\* dial: a new socket takes the place of whatever ws was.
dial(w, o) ==
    LET c == CHOOSE c \in FreeConns(w) : TRUE
        x == w.obj[o]
    IN  [w EXCEPT !.obj[o].ws = c,
                  !.conn[c] = [NoConn EXCEPT !.from = x.owner, !.to = x.about,
                                             !.st = [e \in End |-> IF e = "i" THEN "dialing"
                                                                              ELSE "none"],
                                             !.o["i"] = o]]

Trimmed(s) == IF Len(s) > MAX_PENDING_FORWARDS THEN Tail(s) ELSE s

\* queueAndDial: the object, the queue with its cap, and a dial unless one is
\* under way.
queueAndDial(w, r, p, entry) ==
    LET known == w.peers[r][p] # 0
        o  == IF known THEN w.peers[r][p] ELSE CHOOSE o \in FreeObjs(w) : TRUE
        u  == IF known THEN [w EXCEPT !.obj[o].url = TRUE]
              ELSE [w EXCEPT !.obj[o] = newPeerState(r, p, TRUE, FALSE, TRUE), !.peers[r][p] = o]
        q  == Append(u.obj[o].pending, entry)
        v  == [u EXCEPT !.obj[o].pending = Trimmed(q),
                        !.lost = @ \cup (Packets(q) \ Packets(Trimmed(q)))]
    IN  IF v.obj[o].ws = 0 /\ ~v.obj[o].timer THEN dial(v, o) ELSE v

\* Bound: there is room for a dial on demand.
Room == sc.public = {} \/ (FreeConns(W) # {} /\ FreeObjs(W) # {})

\* Mutant of flushPending: only the head of the queue goes out.
flushPendingHead(w, o) ==
    IF w.obj[o].pending = <<>> THEN w
    ELSE LET u == [w EXCEPT !.obj[o].pending = <<>>]
             f == Head(w.obj[o].pending)
         IN  IF f.k = "fwd" THEN sendForwardFrame(u, o, f.pk) ELSE Send(u, o, f)

\* flushPending, for an object that is established: what is forwarded gets fresh ids,
\* as in sendForwardFrame.
flushPending(w, o) ==
    LET q == w.obj[o].pending
        Id(i) == w.minted + Cardinality({j \in 1..i : q[j].k = "fwd"})
        u == [w EXCEPT !.obj[o].pending = <<>>, !.minted = Id(Len(q)),
                       !.cache[w.obj[o].owner] = @ \cup (w.minted + 1 .. Id(Len(q)))]
    IN  SendSeq(u, o, [i \in DOMAIN q |-> IF q[i].k = "fwd"
                          THEN [k |-> "fwd", pk |-> q[i].pk, id |-> Id(i), n |-> 0]
                          ELSE q[i]])

-----------------------------------------------------------------------------
(* Choosing a way *)

\* What the records of the address book say; start() makes them.
HasRecord(p) == p \in sc.public \/ \E q \in Relay : <<p, q>> \in sc.dials
via(p) == {q \in Relay : <<p, q>> \in sc.dials}
Dialable(r, p) == book[r][p] # 0 /\ p \in sc.public /\ r \notin sc.noDial

canReachDirectly(w, r, p) == (w.peers[r][p] # 0 /\ w.obj[w.peers[r][p]].est) \/ Dialable(r, p)

\* Topology edge, as the gossip tells it.
canReach(r, p, q) ==
    /\ book[r][q] # 0
    /\ \/ q \in sc.public
       \/ book[r][p] # 0 /\ q \in via(p)
       \/ p \in via(q)

\* findBridge: shortest chains from a relay within reach to the anchor.
findBridge(w, r, anchor) ==
    LET others == {p \in Relay \ {r} : book[r][p] # 0}
        Chains(n) == {s \in [1..n -> others] :
                        /\ canReachDirectly(w, r, s[1]) /\ s[n] = anchor
                        /\ \A i \in 1..(n - 1) : canReach(r, s[i], s[i + 1])}
        chains == UNION {Chains(n) : n \in 1..MAX_TRANSIT_HOPS}
    IN  {s \in chains : \A t \in chains : Len(s) <= Len(t)}

\* selectOnionPath: an anchor within reach behind random hops, or a bridge.
selectOnionPath(w, r, target) ==
    LET anchors == {a \in via(target) \ {r} : book[r][a] # 0}
        direct  == {a \in anchors : canReachDirectly(w, r, a)}
        Hops(a) == {p \in Relay \ {r, target, a} : book[r][p] # 0 /\ canReachDirectly(w, r, p)}
        Picks(a) == {s \in UNION {[1..n -> Hops(a)] : n \in 0..onionHops} :
                        IsInjective(s) /\ (Len(s) = onionHops \/ Hops(a) \subseteq ToSet(s))}
    IN  IF direct # {}
        THEN UNION {{s \o <<a, target>> : s \in Picks(a)} : a \in direct}
        ELSE UNION {{s \o <<target>> : s \in findBridge(w, r, a)} : a \in anchors}

\* sendOnionTo: the worlds it can lead to; none when it returns false.
sendOnionTo(w, r, path, pk) ==
    LET p == Head(path)
        f == [k |-> "onion", pk |-> pk, path |-> path]
    IN  IF Linked(w, r, p) THEN {Send(w, w.peers[r][p], f)}
        ELSE IF Dialable(r, p) THEN {queueAndDial(w, r, p, f)}
        ELSE {}

\* Cleartext transit through one of the anchors of the target.
ViaAnchor(w, r, target, pk, n) ==
    LET f == [k |-> "routed", pk |-> pk, to |-> target, n |-> n + 1]
    IN  {Send(w, w.peers[r][a], f) : a \in {b \in via(target) \ {r} : Linked(w, r, b)}}
          \cup {queueAndDial(w, r, a, f) : a \in {b \in via(target) \ {r} :
                      ~Linked(w, r, b) /\ Dialable(r, b)}}

\* forwardToRelay: the worlds it can lead to; none when it returns false.
ForwardToRelay(w, r, target, pk, n) ==
    IF target = r THEN {}
    ELSE IF Linked(w, r, target) THEN {sendForwardFrame(w, w.peers[r][target], pk)}
    ELSE IF n >= MAX_TRANSIT_HOPS \/ book[r][target] = 0 THEN {}
    ELSE IF Dialable(r, target)
         THEN {queueAndDial(w, r, target, [k |-> "fwd", pk |-> pk, id |-> 0, n |-> n])}
    ELSE LET onions == IF r \in sc.onion
                       THEN UNION {sendOnionTo(w, r, s, pk) : s \in selectOnionPath(w, r, target)}
                       ELSE {}
         IN  IF onions # {} THEN onions ELSE ViaAnchor(w, r, target, pk, n)

-----------------------------------------------------------------------------
(* The life of a socket *)

\* ws.close(); a handshake under way rejects.
Close(w, c, e) ==
    [w EXCEPT !.conn[c].st[e] = CASE @ = "up" -> "closing"
                                  [] @ \in {"dialing", "hello", "accepted", "signed"} -> "shut"
                                  [] OTHER -> @]

\* What r can tell p, of what p does not know.
News(r, p) ==
    {x \in Relay \ {p} : book[r][x] > book[p][x] /\ book[r][x] > weekOld}

AddrGossip(r, about) == [k |-> "gossip", recs |-> {<<x, book[r][x]>> : x \in about}]
sendAddrGossip(w, o, about) ==
    IF about = {} THEN w ELSE Send(w, o, AddrGossip(w.obj[o].owner, about))

\* establishPeer, for the object o at end e.
establishPeer(w, c, e, o) ==
    LET u == [w EXCEPT !.obj[o] = [@ EXCEPT !.ws = c, !.est = TRUE, !.beat = c],
                       !.conn[c] = [@ EXCEPT !.st[e] = "up", !.o[e] = o, !.beat[e] = TRUE]]
    IN  flushPending(sendAddrGossip(u, o, News(u.obj[o].owner, u.obj[o].about)), o)

\* teardownPeer: whatever the object's socket is by now.
teardownPeer(w, o) ==
    LET x == w.obj[o]
        u == IF x.beat = 0 THEN w ELSE [w EXCEPT !.conn[x.beat].beat[EndOf(w, o, x.beat)] = FALSE]
        v == [u EXCEPT !.obj[o] = [@ EXCEPT !.est = FALSE, !.ws = 0, !.beat = 0]]
    IN  IF x.dynamic THEN [v EXCEPT !.peers[x.owner][x.about] = 0] ELSE v

\* Mutant of scheduleReconnect: only the first failure schedules one.
scheduleReconnectNever(w, o) == w

scheduleReconnect(w, o) ==
    IF w.obj[o].evicted \/ ~w.obj[o].url THEN w ELSE [w EXCEPT !.obj[o].timer = TRUE]

\* Sockets closed at both ends, and objects nothing refers to, are free again.
Swept(w) ==
    LET u == [w EXCEPT !.conn = [c \in 1..MaxConns |->
                  IF w.conn[c].st["i"] = "gone" /\ w.conn[c].st["r"] \in {"gone", "none"}
                  THEN NoConn ELSE w.conn[c]]]
        Garbage(o) ==
            /\ w.obj[o] # NoObj /\ ~w.obj[o].timer
            /\ w.peers[w.obj[o].owner][w.obj[o].about] # o
            /\ \A c \in 1..MaxConns, e \in End : u.conn[c].o[e] # o
        dead == {o \in 1..MaxObjs : Garbage(o)}
    IN  [u EXCEPT !.obj = [o \in 1..MaxObjs |-> IF o \in dead THEN NoObj ELSE w.obj[o]],
                  !.lost = @ \cup UNION {Packets(w.obj[o].pending) : o \in dead}]

LoseAll(w, q) == [w EXCEPT !.lost = @ \cup Packets(q)]

\* An end is over; what it had not read is lost.
Finish(w, c, e) ==
    LET u == [w EXCEPT !.conn[c] = [@ EXCEPT !.st[e] = "gone", !.o[e] = 0, !.beat[e] = FALSE,
                                             !.q[e] = <<>>]]
    IN  Swept(LoseAll(u, w.conn[c].q[e]))

\* The close event: of the dialler always, of the other end once established.
Closed(w, c, e) ==
    LET o == w.conn[c].o[e]
    IN  Finish(IF o = 0 THEN w ELSE scheduleReconnect(teardownPeer(w, o), o), c, e)

Over == {"closing", "shut", "gone"}

\* An end that closed waits for the other, or times out if the network is cut.
CloseEvent(c, e) ==
    /\ LET st == conn[c].st
       IN  /\ st[e] \notin {"gone", "none"}
           /\ IF conn[c].cut THEN st[e] \in Over
              ELSE \/ st[Other(e)] \in Over
                   \/ st[Other(e)] = "none" /\ st[e] \in Over
    /\ Become(Closed(W, c, e))
    /\ UNCHANGED <<sc, gos, hist>>

Fault == sc.faults > 0 /\ sc' = [sc EXCEPT !.faults = @ - 1]

\* A dial that fails.
Refuse(c) ==
    /\ conn[c].st["i"] = "dialing"
    /\ Fault
    /\ Become(Closed(W, c, "i"))
    /\ UNCHANGED <<gos, hist>>

\* The network under a socket goes; neither end is told.
Cut(c) ==
    /\ conn[c].st["i"] \in {"hello", "signed", "up"} /\ ~conn[c].cut
    /\ Fault
    /\ conn' = [conn EXCEPT ![c].cut = TRUE]
    /\ UNCHANGED <<obj, peers, cache, minted, lost, ousted, gos, hist>>

\* The reconnection timer.
Timer(o) ==
    /\ obj[o].timer /\ FreeConns(W) # {}
    /\ Become(dial([W EXCEPT !.obj[o].timer = FALSE], o))
    /\ UNCHANGED <<sc, gos, hist>>

-----------------------------------------------------------------------------
(* Handshakes *)

\* The TCP connection and the upgrade; the ClientHello goes out.
Open(c) ==
    /\ conn[c].st["i"] = "dialing"
    /\ conn' = [conn EXCEPT ![c].st = [e \in End |-> "hello"]]
    /\ UNCHANGED <<sc, obj, peers, cache, minted, lost, ousted, gos, hist>>

Configured(r, p) == <<r, p>> \in sc.dials \cup sc.listed

\* Mutant of Admits: no cap.
AdmitsAll(r, p) == sc.open \/ Configured(r, p)

Admits(r, p) ==
    IF sc.open THEN p \in Known(W, r) \/ Cardinality(Known(W, r)) < maxPeers
    ELSE Configured(r, p)

Strangers(r) == {c \in 1..MaxConns : /\ conn[c].to = r /\ conn[c].st["r"] = "accepted"
                                     /\ conn[c].from \notin Known(W, r)}

\* runResponderHandshake up to its await of the signature.
ClientHello(c) ==
    /\ conn[c].st["r"] = "hello" /\ ~conn[c].cut
    /\ LET r == conn[c].to
           ok == Admits(r, conn[c].from)
           strangers == Cardinality(Strangers(r)) + (IF conn[c].from \in Known(W, r) THEN 0 ELSE 1)
       IN  /\ conn' = [conn EXCEPT ![c].st["r"] = IF ok THEN "accepted" ELSE "shut"]
           /\ overlap' = [overlap EXCEPT ![r] = IF ok THEN Max({@, strangers}) ELSE @]
    /\ UNCHANGED <<sc, obj, peers, cache, minted, lost, ousted, gos,
                   classified, again, forgot, shadowed>>

\* runInitiatorHandshake, from the ServerHello to its second await.
ServerHello(c) ==
    /\ conn[c].st["i"] = "hello" /\ conn[c].st["r"] = "accepted" /\ ~conn[c].cut
    /\ conn' = [conn EXCEPT ![c].st["i"] = "signed", ![c].sent = TRUE]
    /\ UNCHANGED <<sc, obj, peers, cache, minted, lost, ousted, gos, hist>>

\* The rest of runResponderHandshake: the peer is looked up or admitted, the
\* socket it had is closed.
Admitted(w, c) ==
    LET r == w.conn[c].to
        p == w.conn[c].from
        o == IF w.peers[r][p] # 0 THEN w.peers[r][p] ELSE CHOOSE o \in FreeObjs(w) : TRUE
        u == IF w.peers[r][p] # 0 THEN w
             ELSE [w EXCEPT !.obj[o] = newPeerState(r, p, FALSE, TRUE, FALSE), !.peers[r][p] = o]
        old == u.obj[o].ws
        v == IF old \notin {0, c} THEN Close(u, old, EndOf(u, o, old)) ELSE u
    IN  establishPeer(v, c, "r", o)

ClientSignature(c) ==
    /\ conn[c].st["r"] = "accepted" /\ ~conn[c].cut
    /\ conn[c].sent \/ conn[c].bad
    /\ FreeObjs(W) # {} \/ conn[c].from \in Known(W, conn[c].to)
    /\ Become(IF conn[c].bad THEN Close(W, c, "r") ELSE Admitted(W, c))
    /\ UNCHANGED <<sc, gos, hist>>

\* The end of runInitiatorHandshake.  Frames that came together with the
\* signature are emitted before the handler for them is there.
ServerSignature(c) ==
    /\ conn[c].st["i"] = "signed" /\ conn[c].o["r"] # 0 /\ ~conn[c].cut
    /\ \E n \in 0..Len(conn[c].q["i"]) :
         LET q == conn[c].q["i"]
             u == LoseAll([W EXCEPT !.conn[c].q["i"] = SubSeq(q, n + 1, Len(q))], SubSeq(q, 1, n))
         IN  Become(establishPeer(u, c, "i", conn[c].o["i"]))
    /\ UNCHANGED <<sc, gos, hist>>

\* nextMessage times out.
HandshakeTimeout(c, e) ==
    /\ conn[c].cut /\ conn[c].st[e] \in {"hello", "accepted", "signed"}
    /\ Become(Close(W, c, e))
    /\ UNCHANGED <<sc, gos, hist>>

\* The other end sends heartbeats on this socket, or will within seconds.
Hears(c, e) ==
    /\ ~conn[c].cut
    /\ \/ conn[c].st[Other(e)] = "up" /\ conn[c].beat[Other(e)]
       \/ conn[c].st[Other(e)] = "signed"

\* No frame for HEARTBEAT_TIMEOUT_MS, on any socket of the object.
Silent(c, e) ==
    /\ conn[c].st[e] = "up" /\ conn[c].beat[e]
    /\ \A d \in 1..MaxConns, f \in End :
         conn[d].o[f] = conn[c].o[e] /\ conn[d].st[f] = "up" => ~Hears(d, f)

HeartbeatTimeout(c, e) ==
    /\ Silent(c, e)
    /\ Become(Close(W, c, e))
    /\ UNCHANGED <<sc, gos, hist>>

-----------------------------------------------------------------------------
(* Frames *)

\* The frame at the head of what end e has to read, once its handler is there.
Reads(c, e) == conn[c].q[e] # <<>> /\ conn[c].st[e] \in {"up", "closing"}
Frame(c, e) == Head(conn[c].q[e])
Rest(c, e) == [W EXCEPT !.conn[c].q[e] = Tail(@)]
Reader(c, e) == obj[conn[c].o[e]].owner
Sender(c, e) == obj[conn[c].o[e]].about

Classify(r, f, id) ==
    /\ classified' = [classified EXCEPT ![r] = @ \cup {<<f.pk, id>>}]
    /\ again' = IF <<f.pk, id>> \in classified[r] THEN again \cup {<<r, id>>} ELSE again

Cached(w, r, id) == id \in w.cache[r]

\* FRAME_PACKET_FORWARD: cache, hop limit, classifyLocal, fan out.
HandleForward(c, e) ==
    /\ Reads(c, e) /\ Frame(c, e).k = "fwd"
    /\ LET f == Frame(c, e)
           r == Reader(c, e)
           w == [Rest(c, e) EXCEPT !.cache[r] = @ \cup {f.id}]
       IN  IF Cached(W, r, f.id)
           THEN Become(Rest(c, e)) /\ UNCHANGED hist
           ELSE IF f.n >= sc.MAX_HOPS
           THEN /\ Become(Lose(w, f))
                /\ shadowed' = shadowed \cup {<<r, f.id>>}
                /\ UNCHANGED <<classified, again, forgot, overlap>>
           ELSE /\ Classify(r, f, f.id)
                /\ Become(IF r \in sc.home THEN w
                          ELSE fanOut(w, r, [f EXCEPT !.n = @ + 1], Sender(c, e)))
                /\ UNCHANGED <<forgot, shadowed, overlap>>
    /\ UNCHANGED <<sc, gos>>

\* handleRoutedForward: what forwardToRelay returns is not looked at.
HandleRouted(c, e) ==
    /\ Reads(c, e) /\ Frame(c, e).k = "routed" /\ Room
    /\ LET f == Frame(c, e)
           r == Reader(c, e)
           ws == ForwardToRelay(Rest(c, e), r, f.to, f.pk, f.n)
       IN  IF f.n >= MAX_TRANSIT_HOPS \/ ws = {} THEN Become(Lose(Rest(c, e), f))
           ELSE \E w \in ws : Become(w)
    /\ UNCHANGED <<sc, gos, hist>>

\* handleOnion: the innermost layer is delivered here, or not at all.
HandleOnion(c, e) ==
    /\ Reads(c, e) /\ Frame(c, e).k = "onion" /\ Room
    /\ LET f == Frame(c, e)
           r == Reader(c, e)
           ws == sendOnionTo(Rest(c, e), r, Tail(f.path), f.pk)
       IN  IF Len(f.path) = 1
           THEN /\ Classify(r, f, 0)
                /\ Become(IF r \in sc.home THEN Rest(c, e) ELSE Lose(Rest(c, e), f))
           ELSE /\ UNCHANGED <<classified, again>>
                /\ IF ws = {} THEN Become(Lose(Rest(c, e), f)) ELSE \E w \in ws : Become(w)
    /\ UNCHANGED <<sc, gos, forgot, shadowed, overlap>>

\* Mutant of Newer: the record that came first stays.
NewerNever(r, rec) == book[r][rec[1]] = 0

Newer(r, rec) == rec[2] > book[r][rec[1]]

\* handleAddrGossip: newer records, none about itself, none a week old; they
\* are told to the others.
HandleGossip(c, e) ==
    /\ Reads(c, e) /\ Frame(c, e).k = "gossip"
    /\ LET r == Reader(c, e)
           changed == {x \in Frame(c, e).recs : x[1] # r /\ x[2] > weekOld /\ Newer(r, x)}
           Told(p) == {x \in changed : x[1] # p /\ x[2] > book[p][x[1]]}
       IN  /\ book' = [book EXCEPT ![r] = [p \in Relay |->
                          IF \E x \in changed : x[1] = p
                          THEN (CHOOSE x \in changed : x[1] = p)[2] ELSE book[r][p]]]
           /\ Become(SendEach(Rest(c, e), r,
                  [p \in {x \in Relay \ {Sender(c, e)} : Linked(W, r, x) /\ Told(x) # {}} |->
                      [k |-> "gossip", recs |-> Told(p)]]))
    /\ UNCHANGED <<sc, now, weekOld, hist>>

\* periodicGossip, when no gossip is under way to whom it would tell something.
ToTell(r) == {p \in Relay : Linked(W, r, p) /\ News(r, p) # {}}
Untold(r) ==
    LET Pending(p) == LET o == peers[r][p]
                          c == obj[o].ws
                      IN  \E f \in Frames(conn[c].q[Other(EndOf(W, o, c))]) : f.k = "gossip"
    IN  ToTell(r) # {} /\ \A p \in ToTell(r) : ~Pending(p)

PeriodicGossip(r) ==
    /\ Untold(r)
    /\ Become(SendEach(W, r, [p \in ToTell(r) |-> AddrGossip(r, News(r, p))]))
    /\ UNCHANGED <<sc, gos, hist>>

-----------------------------------------------------------------------------
(* The relay around it *)

\* A packet of a client of src: to the home relay of its hash, if the client
\* gave it, and else, or if that fails, to all.
Submit ==
    /\ sc.packets > 0 /\ Room
    /\ sc' = [sc EXCEPT !.packets = @ - 1]
    /\ LET ws == IF sc.hint THEN ForwardToRelay(W, sc.src, sc.target, sc.packets, 0) ELSE {}
       IN  IF ws = {} THEN Become(forwardFromLocal(W, sc.src, sc.packets))
           ELSE \E w \in ws : Become(w)
    /\ UNCHANGED <<gos, hist>>

\* evictLearnedIdle.
Evict(r, p) ==
    LET o == peers[r][p]
        c == obj[o].ws
        b == obj[o].beat
        u == [W EXCEPT !.obj[o] = [@ EXCEPT !.evicted = TRUE, !.timer = FALSE, !.beat = 0],
                       !.peers[r][p] = 0]
        v == IF b = 0 THEN u ELSE [u EXCEPT !.conn[b].beat[EndOf(W, o, b)] = FALSE]
    IN  /\ sc.evictions > 0
        /\ o # 0 /\ obj[o].learned /\ ~obj[o].evicted
        /\ sc' = [sc EXCEPT !.evictions = @ - 1]
        /\ Become(Swept(IF c = 0 THEN v ELSE Close(v, c, EndOf(W, o, c))))
        /\ UNCHANGED <<gos, hist>>

\* An id leaves the cache, by age or by its size.
Forget(r) ==
    /\ cache[r] # {}
    /\ Fault
    /\ cache' = [cache EXCEPT ![r] = {}]
    /\ forgot' = forgot \cup {r}
    /\ UNCHANGED <<conn, obj, peers, minted, lost, ousted, gos, classified, again, shadowed, overlap>>

\* All records known so far pass ADDR_RECORD_MAX_AGE_MS.
Week ==
    /\ sc.weeks > 0
    /\ sc' = [sc EXCEPT !.weeks = @ - 1]
    /\ weekOld' = now
    /\ UNCHANGED <<net, book, now, hist>>

Pairs == sc.file
ConfiguredObj(i) ==
    [newPeerState(Pairs[i][1], Pairs[i][2], Pairs[i] \in sc.dials, FALSE, FALSE)
        EXCEPT !.timer = Pairs[i] \in sc.dials]
IndexOf(pair) == CHOOSE i \in DOMAIN Pairs : Pairs[i] = pair

\* What a restart of r leaves; the other ends are told (half = FALSE) or not.
Restarted(w, r, half) ==
    LET Ours(c, e) == /\ w.conn[c].st[e] # "gone"
                      /\ IF e = "i" THEN w.conn[c].from = r ELSE w.conn[c].to = r
        Cleared == [c \in 1..MaxConns |->
            [w.conn[c] EXCEPT !.st = [e \in End |-> IF Ours(c, e) THEN "gone" ELSE @[e]],
                              !.o = [e \in End |-> IF Ours(c, e) THEN 0 ELSE @[e]],
                              !.beat = [e \in End |-> IF Ours(c, e) THEN FALSE ELSE @[e]],
                              !.q = [e \in End |-> IF Ours(c, e) THEN <<>> ELSE @[e]],
                              !.cut = @ \/ (half /\ \E e \in End : Ours(c, e))]]
        Mine == {o \in 1..MaxObjs : w.obj[o].owner = r}
    IN  Swept([w EXCEPT !.conn = Cleared,
                   !.obj = [o \in 1..MaxObjs |->
                       IF o \in Mine THEN IF o \in DOMAIN Pairs THEN ConfiguredObj(o) ELSE NoObj
                       ELSE w.obj[o]],
                   !.peers[r] = [p \in Relay |-> IF Configured(r, p) THEN IndexOf(<<r, p>>) ELSE 0],
                   !.cache[r] = {},
                   !.lost = @ \cup (UNION {Packets(w.obj[o].pending) : o \in Mine})
                              \cup (UNION {Packets(w.conn[x[1]].q[x[2]]) :
                                   x \in {y \in (1..MaxConns) \X End : Ours(y[1], y[2])}})])

Restart(r, half) ==
    /\ Fault
    /\ Become(Restarted(W, r, half))
    /\ now' = now + 1
    /\ book' = [book EXCEPT ![r] = [p \in Relay |-> IF p = r /\ HasRecord(r) THEN now + 1 ELSE 0]]
    /\ forgot' = forgot \cup {r}
    /\ UNCHANGED <<weekOld, classified, again, shadowed, overlap>>

-----------------------------------------------------------------------------
LinkOf(i) == [NoConn EXCEPT !.from = Pairs[i][1], !.to = Pairs[i][2], !.sent = TRUE,
                            !.st = [e \in End |-> "up"], !.beat = [e \in End |-> TRUE],
                            !.o = [e \in End |-> IF e = "i" THEN i
                                                 ELSE IndexOf(<<Pairs[i][2], Pairs[i][1]>>)]]

\* Once start() has run; or once the links it dialled are up and the gossip
\* has come to rest.
Init ==
    /\ sc \in Scenarios
    /\ LET Dialled(i) == i \in DOMAIN Pairs /\ Pairs[i] \in sc.dials
           Link(i) == IF Dialled(i) THEN i ELSE IndexOf(<<Pairs[i][2], Pairs[i][1]>>)
       IN  IF sc.up
           THEN /\ conn = [c \in 1..MaxConns |-> IF Dialled(c) THEN LinkOf(c) ELSE NoConn]
                /\ obj = [o \in 1..MaxObjs |-> IF o \in DOMAIN Pairs
                             THEN [ConfiguredObj(o) EXCEPT !.timer = FALSE, !.est = TRUE,
                                                           !.ws = Link(o), !.beat = Link(o)]
                             ELSE NoObj]
           ELSE /\ conn = [c \in 1..MaxConns |-> NoConn]
                /\ obj = [o \in 1..MaxObjs |-> IF o \in DOMAIN Pairs THEN ConfiguredObj(o) ELSE NoObj]
    /\ peers = [r \in Relay |-> [p \in Relay |-> IF Configured(r, p) THEN IndexOf(<<r, p>>) ELSE 0]]
    /\ book = [r \in Relay |-> [p \in Relay |->
                  IF HasRecord(p) /\ (p = r \/ sc.up \/ sc.known) THEN 1 ELSE 0]]
    /\ now = 1 /\ weekOld = 0 /\ minted = 0 /\ lost = {} /\ shadowed = {} /\ again = {} /\ forgot = {}
    /\ cache = [r \in Relay |-> {}] /\ classified = [r \in Relay |-> {}]
    /\ overlap = [r \in Relay |-> 0] /\ ousted = {}

Network == \E c \in 1..MaxConns :
    \/ Open(c) \/ ClientHello(c) \/ ServerHello(c) \/ ClientSignature(c) \/ ServerSignature(c)
    \/ \E e \in End : \/ CloseEvent(c, e) \/ HandshakeTimeout(c, e) \/ HeartbeatTimeout(c, e)
                      \/ HandleForward(c, e) \/ HandleRouted(c, e) \/ HandleOnion(c, e)
                      \/ HandleGossip(c, e)

Timers == (\E o \in 1..MaxObjs : Timer(o)) \/ (\E r \in Relay : PeriodicGossip(r))

Environment ==
    \/ Submit \/ Week
    \/ \E c \in 1..MaxConns : Refuse(c) \/ Cut(c)
    \/ \E r, p \in Relay : Evict(r, p)
    \/ \E r \in Relay : Forget(r) \/ \E half \in BOOLEAN : Restart(r, half)

Next == Network \/ Timers \/ Environment

Spec == Init /\ [][Next]_vars

\* A step of a socket or of a timer is possible.
Busy ==
    \/ \E o \in 1..MaxObjs : obj[o].timer /\ FreeConns(W) # {}
    \/ \E c \in 1..MaxConns, e \in End :
         \/ /\ conn[c].st[e] \notin {"up", "gone", "none"}
            /\ FreeObjs(W) # {} \/ conn[c].from \in Known(W, conn[c].to)
         \/ conn[c].st[e] = "up" /\ conn[c].st[Other(e)] = "gone" /\ ~conn[c].cut
         \/ Silent(c, e)
         \/ Reads(c, e) /\ Room
    \/ \E r \in Relay : Untold(r)

\* Sockets and timers make progress: weak fairness of Network \/ Timers, with
\* its ENABLED written out and its steps told by the budgets they leave alone.
Fairness == []<>(~Busy) \/ []<><<UNCHANGED sc>>_vars

FairSpec == Spec /\ Fairness

-----------------------------------------------------------------------------
(* Properties *)

\* Every variable has its type.
TypeOK ==
    /\ \A c \in 1..MaxConns :
         /\ conn[c].st["i"] \in {"dialing", "hello", "signed", "up", "closing", "shut", "gone"}
         /\ conn[c].st["r"] \in {"none", "hello", "accepted", "up", "closing", "shut", "gone"}
         /\ \A e \in End : conn[c].o[e] \in 0..MaxObjs
    /\ \A o \in 1..MaxObjs : /\ {obj[o].ws, obj[o].beat} \subseteq 0..MaxConns
                             /\ Len(obj[o].pending) <= MAX_PENDING_FORWARDS
                             /\ obj[o].beat # 0 => obj[o].ws # 0
    /\ peers \in [Relay -> [Relay -> 0..MaxObjs]]
    /\ book \in [Relay -> [Relay -> 0..now]] /\ weekOld \in 0..now
    /\ cache \in [Relay -> SUBSET (1..minted)]
    /\ forgot \subseteq Relay /\ overlap \in [Relay -> 0..MaxConns]
    /\ shadowed \subseteq Relay \X (1..minted) /\ ousted \subseteq Relay

\* Both relays use the same socket for each other.
Together(r, p) ==
    Linked(W, r, p) /\ Linked(W, p, r) /\ obj[peers[r][p]].ws = obj[peers[p][r]].ws

\* Nothing is under way.
AtRest ==
    /\ \A c \in 1..MaxConns, e \in End : conn[c].q[e] = <<>> /\ conn[c].st[e] \in {"up", "gone"}
    /\ \A o \in 1..MaxObjs : ~obj[o].timer /\ obj[o].pending = <<>>

Submitted == sc.packets + 1 .. sc.all

\* A packet no copy of which was dropped reaches the relay that knows its
\* recipient, whichever way it goes.
Arrives ==
    AtRest => \A pk \in Submitted \ lost :
                \E r \in sc.home, id \in 0..minted : <<pk, id>> \in classified[r]

\* Without faults no packet is dropped, but by the hop limit, or from the
\* front of a queue that is full.
CalmLosesNothing ==
    sc.calm => \A pk \in lost :
        \/ shadowed # {}
        \/ pk > sc.packets + MAX_PENDING_FORWARDS

\* "Loop prevention via a packet-id LRU": no relay is given a packet twice
\* under one id unless its cache lost the id.
ClassifiedOnce == \A x \in again : x[1] \in forgot

\* "Open-mode cap on total simultaneously-tracked peers": exceeded at most by
\* handshakes that were admitted together, and by relays it dialled itself; or if
\* one of these was let in as known and dropped before its handshake was over.
Capped ==
    sc.open => \A r \in Relay \ ousted :
        LET learned == {p \in Known(W, r) : obj[peers[r][p]].learned}
            fromFile == {p \in Relay : Configured(r, p)}
        IN  Cardinality(Known(W, r) \ learned) <=
              Max({maxPeers, Cardinality(fromFile), maxPeers + overlap[r] - 1})

\* Where one side dials, the link comes back, whatever closes late.
LinksComeBack ==
    <>[](\A d \in sc.dials :
           sc.live /\ <<d[2], d[1]>> \in sc.listed => Together(d[1], d[2]))

\* An established socket that its relay no longer uses.
Orphan(c, e) ==
    /\ conn[c].st[e] = "up"
    /\ LET o == conn[c].o[e]
       IN  obj[o].ws # c \/ peers[obj[o].owner][obj[o].about] # o

\* A socket that one side lost track of is closed, if the network carries the
\* close: its heartbeats stopped, so the other side gives it up.  Not so a link
\* of a peer admitted dynamically: the late close event of its earlier object
\* takes the current one out of the map and leaves its heartbeats running.
OrphansClosed ==
    []<>(\A c \in 1..MaxConns, e \in End :
           Orphan(c, e) => conn[c].cut \/ ~sc.live \/ obj[conn[c].o[e]].dynamic)

\* Anti-entropy: relays that keep a link come to know the same records, apart
\* from those older than a week.
GossipConverges ==
    <>[](\A r, p \in Relay : sc.live /\ Together(r, p) =>
           \A x \in Relay \ {p} : book[r][x] > weekOld => book[p][x] >= book[r][x])

=============================================================================
