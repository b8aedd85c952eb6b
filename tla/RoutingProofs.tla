--------------------------- MODULE RoutingProofs ----------------------------
(***************************************************************************)
(* Theorems about EpochInbox, for every window, TTL and number of instants *)
(* in an hour, and about Federation, for every set of relays, peers file,  *)
(* mode, and number of sockets, objects, faults and packets.               *)
(*                                                                         *)
(* Live is what LiveIsReceived needs to be inductive: where a packet that  *)
(* was forwarded at once can be, and how old it is there.                  *)
(*                                                                         *)
(* Federated is the inductive invariant of the cap.  A world (Good) has    *)
(* sockets whose ends name objects of the two relays they join (Ends), and *)
(* maps whose entries are those objects, the pairs of the peers file among *)
(* them for good (Mapped).  Of a relay, those peers are counted that are   *)
(* in its map and not learned (Kept), and those about to be: accepted, and *)
(* not in the map (Coming).  A step of anything but a ClientHello is Tame: *)
(* nobody comes to be counted.                                             *)
(***************************************************************************)
EXTENDS Routing, FiniteSetTheorems, SequenceTheorems, TLAPS

-----------------------------------------------------------------------------
(* EpochInbox *)

Live ==
    /\ \A p \in queue : ~p.live
    /\ \A p \in transit : p.live => p.dest = hour
    /\ \A p \in late : p.live => p.dest \in {hour, hour - 1}
    /\ \A p \in ignored : ~p.live

\* An hour less than WINDOW back is in the listen window.
LEMMA WindowMembership ==
    ASSUME NEW h \in Int, NEW d \in Int, d <= h, h - d < WINDOW
    PROVE  d \in E!getCurrentDestHashes(h)
<1>1. WINDOW \in Nat \ {0} BY EpochConstants DEF E!ConstantsOK
<1>2. h - d \in 0..(WINDOW - 1) BY <1>1
<1>3. d = h - (h - d) OBVIOUS
<1> QED BY <1>2, <1>3 DEF E!getCurrentDestHashes

-----------------------------------------------------------------------------
\* Types are kept: packets are records of Packet, numbered below sent and of an
\* hour that has begun, and the instant stays within the hour.
THEOREM TypeCorrectness == E!Spec => []E!TypeOK
<1> USE DEF E!TypeOK, E!vars, E!clock, E!getCurrentEpochHour
<1>p. PHASES \in Nat /\ PHASES >= 1 BY EpochConstants DEF E!ConstantsOK
<1>1. E!Init => E!TypeOK
  <2> SUFFICES ASSUME E!Init PROVE E!TypeOK OBVIOUS
  <2>1. phase \in 0..(PHASES - 1) /\ helloHour \in 0..hour BY <1>p DEF E!Init
  <2> QED BY <2>1 DEF E!Init
<1>2. E!TypeOK /\ [E!Next]_(E!vars) => E!TypeOK'
  <2> SUFFICES ASSUME E!TypeOK, [E!Next]_(E!vars) PROVE E!TypeOK' OBVIOUS
  <2>1. CASE E!Hello BY <2>1 DEF E!Hello
  <2>2. CASE E!Disconnect BY <2>2 DEF E!Disconnect
  <2>3. CASE E!Send
    <3> DEFINE live == hour \in E!Listening
               p == [id |-> sent, dest |-> hour, phase |-> phase, live |-> live]
    <3>1. live \in BOOLEAN BY DEF E!Listening
    <3>2. phase \in Nat BY SMT
    <3>3. p \in E!Packet /\ p.id = sent /\ p.dest = hour BY <3>1, <3>2 DEF E!Packet
    <3> HIDE DEF p, live
    <3>4. /\ sent' = sent + 1
          /\ transit' = transit \cup {q \in {p} : live}
          /\ queue' = queue \cup {q \in {p} : ~live}
          /\ UNCHANGED <<E!clock, connected, helloHour, late, inbox, ignored, expired>>
      BY <2>3 DEF E!Send, p, live
    <3> QED BY <3>3, <3>4 DEF E!Packet
  <2>4. CASE E!pruneExpiredBlobs BY <2>4 DEF E!pruneExpiredBlobs
  <2>5. CASE E!Tick BY <1>p, <2>5 DEF E!Tick, E!Packet
  <2>6. CASE \E p \in transit \cup late : E!handleIncomingPacket(p)
    BY <2>6 DEF E!handleIncomingPacket
  <2>7. CASE UNCHANGED E!vars BY <2>7
  <2> QED BY <2>1, <2>2, <2>3, <2>4, <2>5, <2>6, <2>7 DEF E!Next
<1> QED BY <1>1, <1>2, PTL DEF E!Spec

-----------------------------------------------------------------------------
\* Hello leaves behind only what has expired and what lies between the end of the
\* window and the TTL, if that is not shorter; what is stored later, while the client
\* listens, is of a later hour.
THEOREM HelloCollects == E!Spec => []StrandedRows
<1> DEFINE Inv == E!TypeOK /\ E!StrandedRows
<1>1. E!Init => E!StrandedRows BY DEF E!Init, E!StrandedRows
<1>2. E!TypeOK /\ E!StrandedRows /\ [E!Next]_(E!vars) => E!StrandedRows'
  <2> SUFFICES ASSUME E!TypeOK, E!StrandedRows, [E!Next]_(E!vars),
                      NEW p \in queue', connected', ~E!IsExpired(p)'
               PROVE  \/ p.dest > helloHour'
                      \/ p.dest \in (hour' - BLOB_TTL)..(helloHour' - WINDOW)
    BY DEF E!StrandedRows
  <2> USE EpochConstants DEF E!ConstantsOK, E!clock, E!vars, E!getCurrentEpochHour
  <2>1. CASE E!Hello
    <3>1. p \in queue /\ ~E!IsExpired(p) /\ hour' = hour /\ helloHour' = hour
      BY <2>1 DEF E!Hello, E!IsExpired
    <3>2. p \in E!Packet /\ p.dest \in Nat /\ p.dest <= hour /\ hour \in Nat
      BY <3>1 DEF E!TypeOK, E!Packet
    <3>3. hour - p.dest <= BLOB_TTL BY <3>1, <3>2 DEF E!IsExpired
    <3>4. p.dest \notin E!getCurrentDestHashes(hour) BY <2>1 DEF E!Hello
    <3>5. hour - p.dest >= WINDOW BY <3>2, <3>4, WindowMembership
    <3> QED BY <3>1, <3>2, <3>3, <3>5
  <2>2. CASE E!Disconnect BY <2>2 DEF E!Disconnect
  <2>3. CASE E!Send
    <3>1. UNCHANGED <<E!clock, connected, helloHour>> BY <2>3 DEF E!Send
    <3>2. CASE p \in queue BY <3>1, <3>2 DEF E!StrandedRows, E!IsExpired
    <3>3. CASE p \notin queue
      <4>1. p.dest = hour /\ hour \notin E!Listening BY <2>3, <3>3 DEF E!Send
      <4>2. hour \notin E!getCurrentDestHashes(helloHour) BY <3>1, <4>1 DEF E!Listening
      <4>3. hour \in Nat /\ helloHour \in 0..hour BY DEF E!TypeOK
      <4>4. hour # helloHour BY <4>2, <4>3, WindowMembership
      <4> QED BY <3>1, <4>1, <4>3, <4>4
    <3> QED BY <3>2, <3>3
  <2>4. CASE E!pruneExpiredBlobs
    BY <2>4 DEF E!pruneExpiredBlobs, E!StrandedRows, E!IsExpired
  <2>5. CASE E!Tick
    <3>1. UNCHANGED <<connected, helloHour, queue>> BY <2>5 DEF E!Tick
    <3>2. p \in E!Packet /\ p.dest \in Nat /\ p.phase \in Nat BY <3>1 DEF E!TypeOK, E!Packet
    <3>3. ~E!IsExpired(p) BY <2>5, <3>2 DEF E!Tick, E!IsExpired, E!TypeOK
    <3>4. hour \in Nat /\ hour' \in Nat /\ helloHour \in Nat BY <2>5 DEF E!Tick, E!TypeOK
    <3>5. hour' - p.dest <= BLOB_TTL BY <3>2, <3>4 DEF E!IsExpired
    <3> QED BY <3>1, <3>2, <3>3, <3>4, <3>5 DEF E!StrandedRows
  <2>6. CASE \E q \in transit \cup late : E!handleIncomingPacket(q)
    BY <2>6 DEF E!handleIncomingPacket, E!StrandedRows, E!IsExpired
  <2>7. CASE UNCHANGED E!vars BY <2>7 DEF E!StrandedRows, E!IsExpired
  <2> QED BY <2>1, <2>2, <2>3, <2>4, <2>5, <2>6, <2>7 DEF E!Next
<1>3. E!StrandedRows => StrandedRows BY DEF StrandedRows
<1> QED BY <1>1, <1>2, <1>3, TypeCorrectness, PTL DEF E!Spec

-----------------------------------------------------------------------------
\* A packet forwarded at once is at most one hour old when the SDK sees it, so
\* isMessageForUs recognises it.
THEOREM LiveDelivery == E!Spec => []E!LiveIsReceived
<1> USE EpochConstants DEF E!ConstantsOK, Live, E!vars, E!clock, E!getCurrentEpochHour
<1>1. E!Init => Live BY DEF E!Init
<1>2. E!TypeOK /\ Live /\ [E!Next]_(E!vars) => Live'
  <2> SUFFICES ASSUME E!TypeOK, Live, [E!Next]_(E!vars) PROVE Live' OBVIOUS
  <2>1. CASE E!Hello BY <2>1 DEF E!Hello
  <2>2. CASE E!Disconnect BY <2>2 DEF E!Disconnect
  <2>3. CASE E!Send
    <3> DEFINE live == hour \in E!Listening
               p == [id |-> sent, dest |-> hour, phase |-> phase, live |-> live]
    <3>1. p.live = live /\ p.dest = hour OBVIOUS
    <3> HIDE DEF p, live
    <3>2. /\ transit' = transit \cup {q \in {p} : live}
          /\ queue' = queue \cup {q \in {p} : ~live}
          /\ UNCHANGED <<E!clock, late, ignored>>
      BY <2>3 DEF E!Send, p, live
    <3> QED BY <3>1, <3>2
  <2>4. CASE E!pruneExpiredBlobs BY <2>4 DEF E!pruneExpiredBlobs
  <2>5. CASE E!Tick
    <3>1. hour \in Nat /\ hour' \in {hour, hour + 1} BY <2>5 DEF E!Tick, E!TypeOK
    <3>2. transit' = {} /\ late' = transit /\ UNCHANGED <<queue, ignored>>
      BY <2>5 DEF E!Tick
    <3> QED BY <3>1, <3>2
  <2>6. CASE \E p \in transit \cup late : E!handleIncomingPacket(p)
    BY <2>6 DEF E!handleIncomingPacket, E!isMessageForUs
  <2>7. CASE UNCHANGED E!vars BY <2>7
  <2> QED BY <2>1, <2>2, <2>3, <2>4, <2>5, <2>6, <2>7 DEF E!Next
<1>3. Live => E!LiveIsReceived BY DEF E!LiveIsReceived
<1> QED BY <1>1, <1>2, <1>3, TypeCorrectness, PTL DEF E!Spec

-----------------------------------------------------------------------------
(* Federation *)

StI == {"dialing", "hello", "signed", "up", "closing", "shut", "gone"}
StR == {"none", "hello", "accepted", "up", "closing", "shut", "gone"}

Routed == [k : {"routed"}, pk : Nat, to : Relay, n : Nat]
Onion  == [k : {"onion"}, pk : Nat, path : Seq(Relay) \ {<<>>}]

\* What may be on a socket when m ids are given and no record is later than t.
Wire(m, t) ==
    [k : {"fwd"}, pk : Nat, id : 1..m, n : Nat] \cup Routed \cup Onion
      \cup [k : {"gossip"}, recs : SUBSET (Relay \X (0..t))]
Queued == [k : {"fwd"}, pk : Nat, id : {0}, n : Nat] \cup Routed \cup Onion

Socket(m, t) ==
    [from : Relay \cup {0}, to : Relay \cup {0}, cut : BOOLEAN, sent : BOOLEAN, bad : BOOLEAN,
     st : [End -> StI \cup StR], o : [End -> 0..MaxObjs], beat : [End -> BOOLEAN],
     q : [End -> Seq(Wire(m, t))]]
PeerObj ==
    [owner : Relay \cup {0}, about : Relay \cup {0}, url : BOOLEAN, dynamic : BOOLEAN,
     learned : BOOLEAN, evicted : BOOLEAN, ws : 0..MaxConns, est : BOOLEAN, timer : BOOLEAN,
     beat : 0..MaxConns, pending : Seq(Queued)]
PeerMap == [Relay -> [Relay -> 0..MaxObjs]]

World(m, t) ==
    [conn : [1..MaxConns -> Socket(m, t)], obj : [1..MaxObjs -> PeerObj], peers : PeerMap,
     cache : [Relay -> SUBSET (1..m)], minted : {m}, lost : SUBSET Nat]
Typed(w, t) == w.minted \in Nat /\ w \in World(w.minted, t)

\* A socket whose ends name objects ob: each is of the relay at that end, about the other.
Ends(k, ob) ==
    /\ k.st["i"] \in StI /\ k.st["r"] \in StR
    /\ k.st["i"] # "gone" => k.o["i"] # 0
    /\ k.st["r"] \in {"up", "closing"} => k.o["r"] # 0
    /\ k.st["i"] # "gone" \/ k.st["r"] \notin {"none", "gone"} => k.from \in Relay /\ k.to \in Relay
    /\ \A e \in End : k.st[e] = "gone" => k.o[e] = 0
    /\ k.o["i"] # 0 => /\ k.from \in Relay /\ k.to \in Relay
                       /\ ob[k.o["i"]].owner = k.from /\ ob[k.o["i"]].about = k.to
    /\ k.o["r"] # 0 => /\ k.from \in Relay /\ k.to \in Relay
                       /\ ob[k.o["r"]].owner = k.to /\ ob[k.o["r"]].about = k.from

Object(x) ==
    /\ x.timer => x.owner # 0
    /\ x.owner \in Relay => x.about \in Relay
    /\ x.beat # 0 => x.ws # 0
    /\ Len(x.pending) <= MAX_PENDING_FORWARDS
    /\ x.dynamic => <<x.owner, x.about>> \notin ToSet(sc.file)

\* The maps name objects of their own, and those of the peers file for good.
Mapped(ps, ob) ==
    /\ \A r, p \in Relay : ps[r][p] # 0 => ob[ps[r][p]].owner = r /\ ob[ps[r][p]].about = p
    /\ \A i \in DOMAIN sc.file :
         /\ ps[sc.file[i][1]][sc.file[i][2]] = i
         /\ ~ob[i].learned /\ ~ob[i].dynamic

Good(w, t) ==
    /\ Typed(w, t)
    /\ \A c \in 1..MaxConns : Ends(w.conn[c], w.obj)
    /\ \A o \in 1..MaxObjs : Object(w.obj[o])
    /\ Mapped(w.peers, w.obj)

\* The peers that count for the cap, and those that are about to.
Kept(w, r) == {p \in Relay : w.peers[r][p] # 0 /\ ~w.obj[w.peers[r][p]].learned}
Accepted(w, r, p) ==
    \E c \in 1..MaxConns :
        w.conn[c].to = r /\ w.conn[c].st["r"] = "accepted" /\ w.conn[c].from = p
Coming(w, r) == {p \in Relay : w.peers[r][p] = 0 /\ Accepted(w, r, p)}

\* From w to v the maps stay, and no socket is accepted.
Even(w, v) ==
    /\ v.peers = w.peers /\ 1..w.minted \subseteq 1..v.minted
    /\ \A r, p \in Relay : w.peers[r][p] # 0 =>
         v.obj[w.peers[r][p]].learned = w.obj[w.peers[r][p]].learned
    /\ \A c \in 1..MaxConns : v.conn[c].st["r"] = "accepted" =>
         /\ w.conn[c].st["r"] = "accepted"
         /\ v.conn[c].from = w.conn[c].from /\ v.conn[c].to = w.conn[c].to

\* From w to v nobody comes to count but who was about to.
Tame(w, v) ==
    /\ 1..w.minted \subseteq 1..v.minted
    /\ \A r \in Relay :
         /\ Kept(v, r) \subseteq Kept(w, r) \cup Coming(w, r)
         /\ \A p \in Coming(v, r) : p \in Coming(w, r) \/ w.peers[r][p] # 0

ScOK == sc \in Scenario /\ ScenarioOK(sc)

-----------------------------------------------------------------------------
\* The parts of a typed world.
LEMMA TypedParts ==
    ASSUME NEW w, NEW t, Typed(w, t)
    PROVE  /\ w.conn \in [1..MaxConns -> Socket(w.minted, t)]
           /\ w.obj \in [1..MaxObjs -> PeerObj]
           /\ w.peers \in PeerMap
           /\ w.cache \in [Relay -> SUBSET (1..w.minted)]
           /\ w.minted \in Nat /\ w.lost \in SUBSET Nat
  BY DEF Typed, World

\* If no map changes and no socket is accepted, nobody comes to count.
LEMMA EvenTame ==
    ASSUME NEW w, NEW v, Even(w, v)
    PROVE  Tame(w, v)
  BY DEF Even, Tame, Kept, Coming, Accepted

\* Even steps compose,
LEMMA EvenEven ==
    ASSUME NEW u, NEW v, NEW w, Even(u, v), Even(v, w)
    PROVE  Even(u, w)
  BY DEF Even

\* ... before a tame one,
LEMMA EvenThenTame ==
    ASSUME NEW u, NEW v, NEW w, Even(u, v), Tame(v, w)
    PROVE  Tame(u, w)
<1> SUFFICES ASSUME NEW r \in Relay
             PROVE  /\ Kept(w, r) \subseteq Kept(u, r) \cup Coming(u, r)
                    /\ \A p \in Coming(w, r) : p \in Coming(u, r) \/ u.peers[r][p] # 0
  BY DEF Even, Tame
<1>1. Kept(v, r) \subseteq Kept(u, r) BY DEF Even, Kept
<1>2. Coming(v, r) \subseteq Coming(u, r) BY DEF Even, Coming, Accepted
<1>3. v.peers[r] = u.peers[r] BY DEF Even
<1> QED BY <1>1, <1>2, <1>3 DEF Tame

\* ... and after one.
LEMMA TameThenEven ==
    ASSUME NEW u, NEW v, NEW w, Tame(u, v), Even(v, w)
    PROVE  Tame(u, w)
<1> SUFFICES ASSUME NEW r \in Relay
             PROVE  /\ Kept(w, r) \subseteq Kept(u, r) \cup Coming(u, r)
                    /\ \A p \in Coming(w, r) : p \in Coming(u, r) \/ u.peers[r][p] # 0
  BY DEF Even, Tame
<1>1. Kept(w, r) \subseteq Kept(v, r) BY DEF Even, Kept
<1>2. Coming(w, r) \subseteq Coming(v, r) BY DEF Even, Coming, Accepted
<1> QED BY <1>1, <1>2 DEF Tame

\* What changes nothing is even.
LEMMA EvenSelf == \A w : Even(w, w)
  BY DEF Even

-----------------------------------------------------------------------------
\* What sending leaves alone.
Untouched(k, l) ==
    l.from = k.from /\ l.to = k.to /\ l.st = k.st /\ l.o = k.o

Alike(w, v) ==
    /\ v.peers = w.peers /\ 1..w.minted \subseteq 1..v.minted
    /\ \A o \in 1..MaxObjs :
         /\ v.obj[o].owner = w.obj[o].owner /\ v.obj[o].about = w.obj[o].about
         /\ v.obj[o].learned = w.obj[o].learned /\ v.obj[o].dynamic = w.obj[o].dynamic
         /\ v.obj[o].timer = w.obj[o].timer /\ v.obj[o].ws = w.obj[o].ws
         /\ v.obj[o].beat = w.obj[o].beat
         /\ Len(v.obj[o].pending) <= MAX_PENDING_FORWARDS
    /\ \A c \in 1..MaxConns : Untouched(w.conn[c], v.conn[c])

\* Sending twice leaves alone what each leaves alone.
LEMMA AlikeAlike ==
    ASSUME NEW u, NEW v, NEW w, Alike(u, v), Alike(v, w)
    PROVE  Alike(u, w)
  BY DEF Alike, Untouched

\* Sending nothing, too.
LEMMA AlikeSelf ==
    ASSUME NEW w, NEW t, Good(w, t)
    PROVE  Alike(w, w)
  BY DEF Alike, Untouched, Good, Object

\* The objects the ends of a socket and the maps name have their types.
LEMMA ObjectsNamed ==
    ASSUME ScOK, ConstantsOK, NEW w, NEW t, Good(w, t)
    PROVE  /\ \A c \in 1..MaxConns, e \in End : w.conn[c].o[e] # 0 => w.conn[c].o[e] \in 1..MaxObjs
           /\ \A r, p \in Relay : w.peers[r][p] # 0 => w.peers[r][p] \in 1..MaxObjs
           /\ \A i \in DOMAIN sc.file : i \in 1..MaxObjs /\ sc.file[i] \in Relay \X Relay
<1>0. MaxObjs \in Nat /\ sc.file \in Seq(Relay \X Relay) /\ Len(sc.file) <= MaxObjs
  BY DEF ConstantsOK, ScOK, Scenario, ScenarioOK
<1>1. ASSUME NEW c \in 1..MaxConns, NEW e \in End, w.conn[c].o[e] # 0
      PROVE  w.conn[c].o[e] \in 1..MaxObjs
  <2>1. w.conn[c].o \in [End -> 0..MaxObjs] BY TypedParts DEF Good, Socket
  <2> QED BY <2>1, <1>0, <1>1
<1>2. ASSUME NEW r \in Relay, NEW p \in Relay, w.peers[r][p] # 0
      PROVE  w.peers[r][p] \in 1..MaxObjs
  <2>1. w.peers[r][p] \in 0..MaxObjs BY TypedParts DEF Good, PeerMap
  <2> QED BY <2>1, <1>0, <1>2
<1>3. ASSUME NEW i \in DOMAIN sc.file
      PROVE  i \in 1..MaxObjs /\ sc.file[i] \in Relay \X Relay
  BY <1>0
<1> QED BY <1>1, <1>2, <1>3

\* A typed world that sending leads to is good, and nobody comes to count in it.
LEMMA AlikeGood ==
    ASSUME ScOK, ConstantsOK, NEW w, NEW v, NEW t, Good(w, t), Typed(v, t), Alike(w, v)
    PROVE  Good(v, t) /\ Even(w, v)
<1>0. /\ \A c \in 1..MaxConns, e \in End : w.conn[c].o[e] # 0 => w.conn[c].o[e] \in 1..MaxObjs
      /\ \A r, p \in Relay : w.peers[r][p] # 0 => w.peers[r][p] \in 1..MaxObjs
      /\ \A i \in DOMAIN sc.file : i \in 1..MaxObjs
  BY ObjectsNamed
<1>1. ASSUME NEW c \in 1..MaxConns PROVE Ends(v.conn[c], v.obj)
  <2>1. Ends(w.conn[c], w.obj) BY DEF Good
  <2>2. Untouched(w.conn[c], v.conn[c]) BY DEF Alike
  <2>3. /\ w.conn[c].o["i"] # 0 => w.conn[c].o["i"] \in 1..MaxObjs
        /\ w.conn[c].o["r"] # 0 => w.conn[c].o["r"] \in 1..MaxObjs
    BY <1>0 DEF End
  <2> QED BY <2>1, <2>2, <2>3 DEF Ends, Untouched, Alike
<1>2. ASSUME NEW o \in 1..MaxObjs PROVE Object(v.obj[o])
  <2>1. Object(w.obj[o]) BY DEF Good
  <2> QED BY <2>1 DEF Object, Alike
<1>3. Mapped(v.peers, v.obj)
  <2>1. Mapped(w.peers, w.obj) BY DEF Good
  <2> QED BY <2>1, <1>0 DEF Mapped, Alike
<1>4. Even(w, v)
  BY <1>0 DEF Even, Alike, Untouched
<1> QED BY <1>1, <1>2, <1>3, <1>4 DEF Good

\* All but gossip carries a packet.
LEMMA FrameIs ==
    ASSUME NEW m, NEW t, NEW f \in Wire(m, t) \cup Queued, f.k # "gossip"
    PROVE  f.pk \in Nat
  BY DEF Wire, Queued, Routed, Onion

\* The packets of a queue are packets.
LEMMA PacketsAreNat ==
    ASSUME NEW m, NEW t, NEW s \in Seq(Wire(m, t) \cup Queued)
    PROVE  Packets(s) \subseteq Nat
<1>1. \A i \in DOMAIN s : s[i] \in Wire(m, t) \cup Queued OBVIOUS
<1> QED BY <1>1, FrameIs DEF Packets, Frames

\* Sequences over a subset are sequences over the set.
LEMMA SeqUnion ==
    ASSUME NEW S, NEW T, S \subseteq T
    PROVE  Seq(S) \subseteq Seq(T)
  OBVIOUS

\* What is well typed stays so while ids are given and records made.
LEMMA WireGrows ==
    ASSUME NEW m \in Nat, NEW n \in Nat, m <= n, NEW t \in Nat, NEW u \in Nat, t <= u
    PROVE  Wire(m, t) \subseteq Wire(n, u) /\ Socket(m, t) \subseteq Socket(n, u)
<1>1. 1..m \subseteq 1..n /\ 0..t \subseteq 0..u OBVIOUS
<1>2. SUBSET (Relay \X (0..t)) \subseteq SUBSET (Relay \X (0..u)) BY <1>1
<1>3. Wire(m, t) \subseteq Wire(n, u)
  <2> SUFFICES ASSUME NEW f \in Wire(m, t) PROVE f \in Wire(n, u) OBVIOUS
  <2>1. CASE f \in [k : {"fwd"}, pk : Nat, id : 1..m, n : Nat] BY <2>1, <1>1 DEF Wire
  <2>2. CASE f \in Routed \cup Onion BY <2>2 DEF Wire
  <2>3. CASE f \in [k : {"gossip"}, recs : SUBSET (Relay \X (0..t))] BY <2>3, <1>2 DEF Wire
  <2> QED BY <2>1, <2>2, <2>3 DEF Wire
<1>4. [End -> Seq(Wire(m, t))] \subseteq [End -> Seq(Wire(n, u))]
  BY <1>3, SeqUnion
<1>5. Socket(m, t) \subseteq Socket(n, u)
  BY <1>4 DEF Socket
<1> QED BY <1>3, <1>5

\* A socket that carries frames keeps its ends.
LEMMA CarriedIs ==
    ASSUME NEW m, NEW t, NEW k \in Socket(m, t), NEW e \in End, NEW s \in Seq(Wire(m, t))
    PROVE  Carried(k, e, s) \in Socket(m, t) /\ Untouched(k, Carried(k, e, s))
<1>1. CASE Carries(k, e)
  <2>1. Other(e) \in End BY DEF Other, End
  <2>2. k.q \in [End -> Seq(Wire(m, t))] BY DEF Socket
  <2>3. k.q[Other(e)] \o s \in Seq(Wire(m, t)) BY <2>1, <2>2
  <2>4. [k.q EXCEPT ![Other(e)] = k.q[Other(e)] \o s] \in [End -> Seq(Wire(m, t))] BY <2>2, <2>3
  <2>5. Carried(k, e, s) = [k EXCEPT !.q = [k.q EXCEPT ![Other(e)] = k.q[Other(e)] \o s]]
    BY <1>1 DEF Carried
  <2> QED BY <2>4, <2>5 DEF Socket, Untouched
<1>2. CASE ~Carries(k, e)
  BY <1>2 DEF Carried, Socket, Untouched
<1> QED BY <1>1, <1>2

-----------------------------------------------------------------------------
\* An end is "i" or "r".
LEMMA EndIs == \A w, o, c : EndOf(w, o, c) \in End
  BY DEF EndOf, End

\* A world made of typed parts.
LEMMA TypedWhole ==
    ASSUME NEW w, NEW t, Typed(w, t), NEW v,
           v = [conn |-> v.conn, obj |-> v.obj, peers |-> v.peers, cache |-> v.cache,
                minted |-> v.minted, lost |-> v.lost],
           v.conn \in [1..MaxConns -> Socket(v.minted, t)], v.obj \in [1..MaxObjs -> PeerObj],
           v.peers \in PeerMap, v.cache \in [Relay -> SUBSET (1..v.minted)],
           v.minted \in Nat, v.lost \in SUBSET Nat
    PROVE  Typed(v, t)
  BY DEF Typed, World

\* Frames sent on the socket of an object change no map and no object.
LEMMA SendSeqIs ==
    ASSUME NEW w, NEW t, Good(w, t), NEW o \in 1..MaxObjs, w.obj[o].ws # 0,
           NEW s \in Seq(Wire(w.minted, t))
    PROVE  Typed(SendSeq(w, o, s), t) /\ Alike(w, SendSeq(w, o, s))
           /\ SendSeq(w, o, s).minted = w.minted /\ SendSeq(w, o, s).obj = w.obj
<1> DEFINE c == w.obj[o].ws
           e == EndOf(w, o, c)
           k == Carried(w.conn[c], e, s)
           l == w.lost \cup IF Carries(w.conn[c], e) THEN {} ELSE Packets(s)
           v == SendSeq(w, o, s)
<1>1. /\ w.conn \in [1..MaxConns -> Socket(w.minted, t)]
      /\ w.obj \in [1..MaxObjs -> PeerObj]
      /\ w.peers \in PeerMap
      /\ w.cache \in [Relay -> SUBSET (1..w.minted)]
      /\ w.minted \in Nat /\ w.lost \in SUBSET Nat
      /\ w \in World(w.minted, t)
  BY TypedParts DEF Good, Typed
<1>2. c \in 1..MaxConns
  <2>1. w.obj[o] \in PeerObj BY <1>1
  <2>2. c \in 0..MaxConns BY <2>1 DEF PeerObj
  <2> QED BY <2>2
<1>3. k \in Socket(w.minted, t) /\ Untouched(w.conn[c], k)
  BY <1>1, <1>2, CarriedIs, EndIs
<1>4. Packets(s) \subseteq Nat
  <2>1. s \in Seq(Wire(w.minted, t) \cup Queued)
    BY SeqUnion
  <2> QED BY <2>1, PacketsAreNat
<1>5. v = [w EXCEPT !.conn = [w.conn EXCEPT ![c] = k], !.lost = l]
  BY DEF SendSeq
<1> HIDE DEF v, k, c, e
<1>6. l \in SUBSET Nat BY <1>1, <1>4
<1> HIDE DEF l
<1>7. /\ v.conn = [w.conn EXCEPT ![c] = k] /\ v.lost = l /\ v.obj = w.obj /\ v.peers = w.peers
      /\ v.cache = w.cache /\ v.minted = w.minted
      /\ v = [conn |-> v.conn, obj |-> v.obj, peers |-> v.peers, cache |-> v.cache,
                minted |-> v.minted, lost |-> v.lost]
  BY <1>5, <1>1 DEF World
<1>8. v.conn \in [1..MaxConns -> Socket(v.minted, t)]
  BY <1>7, <1>1, <1>3
<1>9. Typed(v, t)
  BY <1>1, <1>6, <1>7, <1>8, TypedWhole DEF Good
<1>10. \A d \in 1..MaxConns : Untouched(w.conn[d], v.conn[d])
  BY <1>7, <1>1, <1>3, <1>2 DEF Untouched
<1>11. Alike(w, v)
  BY <1>7, <1>10, AlikeSelf DEF Alike
<1> QED BY <1>7, <1>9, <1>11 DEF v

\* Counting packets as lost touches nothing else.
LEMMA LoseIs ==
    ASSUME NEW w, NEW t, Good(w, t), NEW l, l \in SUBSET Nat
    PROVE  /\ Typed([w EXCEPT !.lost = w.lost \cup l], t)
           /\ Alike(w, [w EXCEPT !.lost = w.lost \cup l])
<1> DEFINE m == w.lost \cup l
           v == [w EXCEPT !.lost = m]
<1>1. /\ w.conn \in [1..MaxConns -> Socket(w.minted, t)]
      /\ w.obj \in [1..MaxObjs -> PeerObj]
      /\ w.peers \in PeerMap
      /\ w.cache \in [Relay -> SUBSET (1..w.minted)]
      /\ w.minted \in Nat /\ w.lost \in SUBSET Nat
      /\ w \in World(w.minted, t)
  BY TypedParts DEF Good, Typed
<1>2. m \in SUBSET Nat BY <1>1
<1> HIDE DEF m
<1>7. /\ v.conn = w.conn /\ v.lost \in SUBSET Nat /\ v.obj = w.obj /\ v.peers = w.peers
      /\ v.cache = w.cache /\ v.minted = w.minted
      /\ v = [conn |-> v.conn, obj |-> v.obj, peers |-> v.peers, cache |-> v.cache,
                minted |-> v.minted, lost |-> v.lost]
  BY <1>2, <1>1 DEF World
<1> HIDE DEF v
<1>9. Typed(v, t)
  BY <1>1, <1>7, TypedWhole DEF Good
<1>11. Alike(w, v)
  BY <1>7, AlikeSelf DEF Alike
<1> QED BY <1>9, <1>11 DEF v, m

\* Losing frames.
LEMMA LosesFrames ==
    ASSUME NEW w, NEW t, Good(w, t)
    PROVE  /\ \A f \in Wire(w.minted, t) \cup Queued :
                Typed(Lose(w, f), t) /\ Alike(w, Lose(w, f)) /\ Lose(w, f).minted = w.minted
           /\ \A s \in Seq(Wire(w.minted, t) \cup Queued) :
                Typed(LoseAll(w, s), t) /\ Alike(w, LoseAll(w, s)) /\ LoseAll(w, s).minted = w.minted
<1>1. ASSUME NEW f \in Wire(w.minted, t) \cup Queued
      PROVE  Typed(Lose(w, f), t) /\ Alike(w, Lose(w, f)) /\ Lose(w, f).minted = w.minted
  <2>1. CASE f.k = "gossip"
    BY <2>1, AlikeSelf DEF Lose, Good
  <2>2. CASE f.k # "gossip"
    <3>1. {f.pk} \in SUBSET Nat BY <2>2, FrameIs
    <3>2. Lose(w, f) = [w EXCEPT !.lost = w.lost \cup {f.pk}] BY <2>2 DEF Lose
    <3>3. Lose(w, f).minted = w.minted BY <3>2, TypedParts DEF Good, Typed, World
    <3>4. /\ Typed([w EXCEPT !.lost = w.lost \cup {f.pk}], t)
          /\ Alike(w, [w EXCEPT !.lost = w.lost \cup {f.pk}])
      <4> DEFINE l == {f.pk}
      <4>1. l \in SUBSET Nat BY <3>1
      <4> HIDE DEF l
      <4>2. /\ Typed([w EXCEPT !.lost = w.lost \cup l], t)
            /\ Alike(w, [w EXCEPT !.lost = w.lost \cup l])
        BY <4>1, LoseIs
      <4> QED BY <4>2 DEF l
    <3> QED BY <3>2, <3>3, <3>4
  <2> QED BY <2>1, <2>2
<1>2. ASSUME NEW s \in Seq(Wire(w.minted, t) \cup Queued)
      PROVE  Typed(LoseAll(w, s), t) /\ Alike(w, LoseAll(w, s)) /\ LoseAll(w, s).minted = w.minted
  <2>1. Packets(s) \in SUBSET Nat BY PacketsAreNat
  <2>2. LoseAll(w, s) = [w EXCEPT !.lost = w.lost \cup Packets(s)] BY DEF LoseAll
  <2>3. LoseAll(w, s).minted = w.minted BY <2>2, TypedParts DEF Good, Typed, World
  <2> DEFINE l == Packets(s)
  <2> HIDE DEF l
  <2>4. /\ Typed([w EXCEPT !.lost = w.lost \cup l], t)
        /\ Alike(w, [w EXCEPT !.lost = w.lost \cup l])
    BY <2>1, LoseIs DEF l
  <2> QED BY <2>2, <2>3, <2>4 DEF l
<1> QED BY <1>1, <1>2

\* A fresh id touches nothing but the count and a cache.
LEMMA MintIs ==
    ASSUME NEW w, NEW t \in Nat, Good(w, t), NEW r \in Relay
    PROVE  /\ Typed(Mint(w, r), t) /\ Alike(w, Mint(w, r)) /\ Mint(w, r).minted = w.minted + 1
           /\ Mint(w, r).obj = w.obj
<1> DEFINE m == w.minted + 1
           e == [w.cache EXCEPT ![r] = w.cache[r] \cup {m}]
           v == Mint(w, r)
<1>1. /\ w.conn \in [1..MaxConns -> Socket(w.minted, t)]
      /\ w.obj \in [1..MaxObjs -> PeerObj]
      /\ w.peers \in PeerMap
      /\ w.cache \in [Relay -> SUBSET (1..w.minted)]
      /\ w.minted \in Nat /\ w.lost \in SUBSET Nat
      /\ w \in World(w.minted, t)
  BY TypedParts DEF Good, Typed
<1>2. m \in Nat /\ w.minted <= m /\ 1..w.minted \subseteq 1..m /\ m \in 1..m BY <1>1
<1>3. e \in [Relay -> SUBSET (1..m)]
  <2>1. \A x \in Relay : w.cache[x] \in SUBSET (1..m) BY <1>1, <1>2
  <2>2. w.cache[r] \cup {m} \in SUBSET (1..m) BY <1>2, <2>1
  <2>3. w.cache \in [Relay -> SUBSET (1..m)] BY <2>1, <1>1
  <2> QED BY <2>2, <2>3
<1>4. w.conn \in [1..MaxConns -> Socket(m, t)]
  BY <1>1, <1>2, WireGrows
<1>5. v = [w EXCEPT !.minted = m, !.cache = e]
  BY DEF Mint
<1>6. m = w.minted + 1 OBVIOUS
<1> HIDE DEF v, m, e
<1>7. /\ v.conn = w.conn /\ v.lost = w.lost /\ v.obj = w.obj /\ v.peers = w.peers
      /\ v.cache = e /\ v.minted = m
      /\ v = [conn |-> v.conn, obj |-> v.obj, peers |-> v.peers, cache |-> v.cache,
                minted |-> v.minted, lost |-> v.lost]
  BY <1>5, <1>1 DEF World
<1>8. Typed(v, t)
  BY <1>1, <1>2, <1>3, <1>4, <1>7, TypedWhole DEF Good
<1>9. Alike(w, v)
  <2>1. 1..w.minted \subseteq 1..v.minted BY <1>2, <1>7
  <2> QED BY <1>7, <2>1, AlikeSelf DEF Alike
<1> QED BY <1>6, <1>7, <1>8, <1>9 DEF v

\* Frames sent to several peers change no map and no object.
LEMMA SendEachIs ==
    ASSUME NEW w, NEW t, Good(w, t), NEW r, NEW D \in SUBSET Relay,
           NEW fs \in [D -> Wire(w.minted, t)]
    PROVE  /\ Typed(SendEach(w, r, fs), t) /\ Alike(w, SendEach(w, r, fs))
           /\ SendEach(w, r, fs).minted = w.minted /\ SendEach(w, r, fs).obj = w.obj
<1> DEFINE Ours(p) == EndOf(w, w.peers[r][p], w.obj[w.peers[r][p]].ws)
           On(c) == {p \in DOMAIN fs : w.obj[w.peers[r][p]].ws = c}
           Lost(p) == ~Carries(w.conn[w.obj[w.peers[r][p]].ws], Ours(p))
           Sent(c) == IF On(c) = {} THEN w.conn[c]
                      ELSE LET p == CHOOSE x \in On(c) : TRUE
                           IN  Carried(w.conn[c], Ours(p), <<fs[p]>>)
           k == [c \in 1..MaxConns |-> Sent(c)]
           l == w.lost \cup UNION {Packets(<<fs[p]>>) : p \in {x \in DOMAIN fs : Lost(x)}}
           v == SendEach(w, r, fs)
<1>1. /\ w.conn \in [1..MaxConns -> Socket(w.minted, t)]
      /\ w.obj \in [1..MaxObjs -> PeerObj]
      /\ w.peers \in PeerMap
      /\ w.cache \in [Relay -> SUBSET (1..w.minted)]
      /\ w.minted \in Nat /\ w.lost \in SUBSET Nat
      /\ w \in World(w.minted, t)
  BY TypedParts DEF Good, Typed
<1>2. v = [w EXCEPT !.conn = k, !.lost = l]
  BY DEF SendEach
<1>3. \A p \in DOMAIN fs : <<fs[p]>> \in Seq(Wire(w.minted, t)) OBVIOUS
<1>4. ASSUME NEW c \in 1..MaxConns
      PROVE  Sent(c) \in Socket(w.minted, t) /\ Untouched(w.conn[c], Sent(c))
  <2>1. CASE On(c) = {}
    <3>1. Sent(c) = w.conn[c] BY <2>1
    <3> HIDE DEF Sent
    <3> QED BY <3>1, <1>1, ZenonT(60) DEF Untouched
  <2>2. CASE On(c) # {}
    <3> DEFINE p == CHOOSE x \in On(c) : TRUE
               e == Ours(p)
               s == <<fs[p]>>
    <3>1. p \in On(c) BY <2>2, ZenonT(60)
    <3>2. Sent(c) = Carried(w.conn[c], e, s) BY <2>2, ZenonT(60)
    <3>3. e \in End BY EndIs
    <3>4. s \in Seq(Wire(w.minted, t)) BY <3>1, <1>3, ZenonT(60)
    <3>5. w.conn[c] \in Socket(w.minted, t) BY <1>1
    <3> HIDE DEF Sent, p, s, e
    <3> QED BY <3>2, <3>3, <3>4, <3>5, CarriedIs
  <2> QED BY <2>1, <2>2, ZenonT(60)
<1>5. l \in SUBSET Nat
  <2>1. ASSUME NEW p \in DOMAIN fs PROVE Packets(<<fs[p]>>) \subseteq Nat
    <3>1. <<fs[p]>> \in Seq(Wire(w.minted, t) \cup Queued) BY <1>3, SeqUnion
    <3> DEFINE s == <<fs[p]>>
    <3> HIDE DEF s
    <3> QED BY <3>1, PacketsAreNat DEF s
  <2> QED BY <2>1, <1>1
<1>6. k \in [1..MaxConns -> Socket(w.minted, t)]
  <2> HIDE DEF Sent
  <2> QED BY <1>4
<1>6a. \A c \in 1..MaxConns : Untouched(w.conn[c], k[c])
  <2> HIDE DEF Sent
  <2> QED BY <1>4
<1> HIDE DEF v, k, l
<1>7. /\ v.conn = k /\ v.lost = l /\ v.obj = w.obj /\ v.peers = w.peers
      /\ v.cache = w.cache /\ v.minted = w.minted
      /\ v = [conn |-> v.conn, obj |-> v.obj, peers |-> v.peers, cache |-> v.cache,
                minted |-> v.minted, lost |-> v.lost]
  BY <1>2, <1>1 DEF World
<1>8. Typed(v, t)
  BY <1>1, <1>5, <1>6, <1>7, TypedWhole DEF Good
<1>9. Alike(w, v)
  BY <1>6a, <1>7, AlikeSelf DEF Alike
<1> QED BY <1>7, <1>8, <1>9 DEF v

\* So does fanOut,
LEMMA FanOutIs ==
    ASSUME ScOK, ConstantsOK, NEW w, NEW t, Good(w, t), NEW r, NEW f \in Wire(w.minted, t), NEW x
    PROVE  Typed(fanOut(w, r, f, x), t) /\ Alike(w, fanOut(w, r, f, x))
<1> DEFINE usable == {p \in Relay \ {x} : Linked(w, r, p)}
           u == IF Known(w, r) \ {x} = usable /\ Known(w, r) # {} THEN w ELSE Lose(w, f)
           fs == [p \in usable |-> f]
<1>1. Typed(u, t) /\ Alike(w, u) /\ u.minted = w.minted
  <2>1. Typed(Lose(w, f), t) /\ Alike(w, Lose(w, f)) /\ Lose(w, f).minted = w.minted
    BY LosesFrames
  <2>2. Typed(w, t) /\ Alike(w, w) BY AlikeSelf DEF Good
  <2> QED BY <2>1, <2>2
<1>2. fanOut(w, r, f, x) = SendEach(u, r, fs) BY DEF fanOut
<1>3. usable \in SUBSET Relay /\ fs \in [usable -> Wire(u.minted, t)] BY <1>1
<1> HIDE DEF u, fs, usable
<1>4. Good(u, t) BY <1>1, AlikeGood
<1>5. Typed(SendEach(u, r, fs), t) /\ Alike(u, SendEach(u, r, fs))
  BY <1>3, <1>4, SendEachIs
<1> QED BY <1>1, <1>2, <1>5, AlikeAlike

\* ... forwardFromLocal,
LEMMA ForwardFromLocalIs ==
    ASSUME ScOK, ConstantsOK, NEW w, NEW t \in Nat, Good(w, t), NEW r \in Relay, NEW pk \in Nat
    PROVE  Typed(forwardFromLocal(w, r, pk), t) /\ Alike(w, forwardFromLocal(w, r, pk))
<1> DEFINE u == Mint(w, r)
           f == [k |-> "fwd", pk |-> pk, id |-> u.minted, n |-> 0]
<1>1. Typed(u, t) /\ Alike(w, u) /\ u.minted = w.minted + 1 /\ w.minted \in Nat
  BY MintIs, TypedParts DEF Good
<1>2. forwardFromLocal(w, r, pk) = fanOut(u, r, f, r) BY DEF forwardFromLocal
<1>3. Good(u, t) BY <1>1, AlikeGood
<1>4. f \in Wire(u.minted, t) BY <1>1 DEF Wire
<1> HIDE DEF u, f
<1>5. Typed(fanOut(u, r, f, r), t) /\ Alike(u, fanOut(u, r, f, r))
  BY <1>3, <1>4, FanOutIs
<1> QED BY <1>1, <1>2, <1>5, AlikeAlike

\* ... one frame on the socket of an object,
LEMMA SendIs ==
    ASSUME NEW w, NEW t, Good(w, t), NEW o \in 1..MaxObjs, w.obj[o].ws # 0,
           NEW f \in Wire(w.minted, t)
    PROVE  Typed(Send(w, o, f), t) /\ Alike(w, Send(w, o, f))
           /\ Send(w, o, f).minted = w.minted /\ Send(w, o, f).obj = w.obj
<1> DEFINE s == <<f>>
<1>1. s \in Seq(Wire(w.minted, t)) OBVIOUS
<1>2. Send(w, o, f) = SendSeq(w, o, s) BY DEF Send
<1> HIDE DEF s
<1> QED BY <1>1, <1>2, SendSeqIs

\* ... and sendForwardFrame, with its fresh id.
LEMMA SendForwardFrameIs ==
    ASSUME ScOK, ConstantsOK, NEW w, NEW t \in Nat, Good(w, t), NEW o \in 1..MaxObjs,
           w.obj[o].ws # 0, w.obj[o].owner \in Relay, NEW pk \in Nat
    PROVE  Typed(sendForwardFrame(w, o, pk), t) /\ Alike(w, sendForwardFrame(w, o, pk))
<1> DEFINE u == Mint(w, w.obj[o].owner)
           f == [k |-> "fwd", pk |-> pk, id |-> u.minted, n |-> 0]
<1>1. /\ Typed(u, t) /\ Alike(w, u) /\ u.minted = w.minted + 1 /\ w.minted \in Nat
      /\ u.obj = w.obj
  BY MintIs, TypedParts DEF Good
<1>2. sendForwardFrame(w, o, pk) = Send(u, o, f) BY DEF sendForwardFrame
<1>3. Good(u, t) BY <1>1, AlikeGood
<1>4. f \in Wire(u.minted, t) BY <1>1 DEF Wire
<1> HIDE DEF u, f
<1>5. Typed(Send(u, o, f), t) /\ Alike(u, Send(u, o, f))
  BY <1>1, <1>3, <1>4, SendIs
<1> QED BY <1>1, <1>2, <1>5, AlikeAlike

-----------------------------------------------------------------------------
\* What every step leaves: an object stays what it is as long as it is there.
Lasting(w, v) ==
    \A o \in 1..MaxObjs : w.obj[o].owner # 0 =>
        /\ v.obj[o].owner = w.obj[o].owner /\ v.obj[o].about = w.obj[o].about
        /\ v.obj[o].learned = w.obj[o].learned /\ v.obj[o].dynamic = w.obj[o].dynamic

\* A socket becomes another without being accepted.
Stays(k, l) ==
    l.st["r"] = "accepted" => k.st["r"] = "accepted" /\ l.from = k.from /\ l.to = k.to

\* Sockets still name the right objects if these keep owner and subject.
LEMMA LastingEnds ==
    ASSUME ScOK, ConstantsOK, NEW w, NEW t, Good(w, t), NEW v, Lasting(w, v),
           NEW c \in 1..MaxConns
    PROVE  Ends(w.conn[c], v.obj)
<1>1. Ends(w.conn[c], w.obj) BY DEF Good
<1>2. /\ w.conn[c].o["i"] # 0 => w.conn[c].o["i"] \in 1..MaxObjs
      /\ w.conn[c].o["r"] # 0 => w.conn[c].o["r"] \in 1..MaxObjs
  BY ObjectsNamed DEF End
<1>3. 0 \notin Relay BY DEF ConstantsOK
<1> QED BY <1>1, <1>2, <1>3 DEF Ends, Lasting

\* Maps still name the right objects if these keep owner, subject and kind.
LEMMA LastingMapped ==
    ASSUME ScOK, ConstantsOK, NEW w, NEW t, Good(w, t), NEW v, Lasting(w, v)
    PROVE  Mapped(w.peers, v.obj)
<1>1. Mapped(w.peers, w.obj) BY DEF Good
<1>2. /\ \A r, p \in Relay : w.peers[r][p] # 0 => w.peers[r][p] \in 1..MaxObjs
      /\ \A i \in DOMAIN sc.file : i \in 1..MaxObjs /\ sc.file[i] \in Relay \X Relay
  BY ObjectsNamed
<1>3. 0 \notin Relay BY DEF ConstantsOK
<1>4. ASSUME NEW r \in Relay, NEW p \in Relay, w.peers[r][p] # 0
      PROVE  v.obj[w.peers[r][p]].owner = r /\ v.obj[w.peers[r][p]].about = p
  BY <1>1, <1>2, <1>3, <1>4 DEF Mapped, Lasting
<1>5. ASSUME NEW i \in DOMAIN sc.file
      PROVE  /\ w.peers[sc.file[i][1]][sc.file[i][2]] = i
             /\ ~v.obj[i].learned /\ ~v.obj[i].dynamic
  <2>1. /\ w.peers[sc.file[i][1]][sc.file[i][2]] = i
        /\ ~w.obj[i].learned /\ ~w.obj[i].dynamic
    BY <1>1 DEF Mapped
  <2>2. i \in 1..MaxObjs /\ i # 0 /\ sc.file[i][1] \in Relay /\ sc.file[i][2] \in Relay
    <3>1. i \in 1..MaxObjs /\ sc.file[i] \in Relay \X Relay BY <1>2
    <3> QED BY <3>1
  <2>3. w.obj[i].owner = sc.file[i][1] BY <2>1, <2>2, <1>1 DEF Mapped
  <2> QED BY <2>1, <2>2, <2>3, <1>3 DEF Lasting
<1> QED BY <1>4, <1>5 DEF Mapped

\* A step that changes sockets and objects but not the maps.
LEMMA GoodFrom ==
    ASSUME ScOK, ConstantsOK, NEW w, NEW t, Good(w, t), NEW v, NEW u, Typed(v, u),
           Lasting(w, v), v.peers = w.peers, v.minted = w.minted,
           \A c \in 1..MaxConns :
               v.conn[c] = w.conn[c] \/ (Ends(v.conn[c], v.obj) /\ Stays(w.conn[c], v.conn[c])),
           \A o \in 1..MaxObjs : v.obj[o] = w.obj[o] \/ Object(v.obj[o])
    PROVE  Good(v, u) /\ Even(w, v)
<1>1. \A c \in 1..MaxConns : Ends(v.conn[c], v.obj)
  BY LastingEnds
<1>2. \A o \in 1..MaxObjs : Object(v.obj[o])
  BY DEF Good
<1>3. Mapped(v.peers, v.obj)
  BY LastingMapped
<1>4. Even(w, v)
  <2>1. ASSUME NEW r \in Relay, NEW p \in Relay, w.peers[r][p] # 0
        PROVE  v.obj[w.peers[r][p]].learned = w.obj[w.peers[r][p]].learned
    <3>1. w.peers[r][p] \in 1..MaxObjs BY <2>1, ObjectsNamed
    <3>2. w.obj[w.peers[r][p]].owner = r BY <2>1 DEF Good, Mapped
    <3> QED BY <3>1, <3>2 DEF Lasting, ConstantsOK
  <2> QED BY <2>1 DEF Even, Stays
<1> QED BY <1>1, <1>2, <1>3, <1>4 DEF Good

\* The parts of a good world.
LEMMA WorldParts ==
    ASSUME NEW w, NEW t, Good(w, t)
    PROVE  /\ w.conn \in [1..MaxConns -> Socket(w.minted, t)]
           /\ w.obj \in [1..MaxObjs -> PeerObj]
           /\ w.peers \in PeerMap
           /\ w.cache \in [Relay -> SUBSET (1..w.minted)]
           /\ w.minted \in Nat /\ w.lost \in SUBSET Nat
           /\ w \in World(w.minted, t)
  BY TypedParts DEF Good, Typed

\* A socket or an object with its fields.
LEMMA SocketIs ==
    ASSUME NEW m, NEW t, NEW k,
           k = [from |-> k.from, to |-> k.to, cut |-> k.cut, sent |-> k.sent, bad |-> k.bad,
                st |-> k.st, o |-> k.o, beat |-> k.beat, q |-> k.q],
           k.from \in Relay \cup {0}, k.to \in Relay \cup {0}, k.cut \in BOOLEAN, k.sent \in BOOLEAN,
           k.bad \in BOOLEAN, k.st \in [End -> StI \cup StR], k.o \in [End -> 0..MaxObjs],
           k.beat \in [End -> BOOLEAN], k.q \in [End -> Seq(Wire(m, t))]
    PROVE  k \in Socket(m, t)
  BY DEF Socket

\* dial takes a free socket for an object of a relay.
LEMMA DialIs ==
    ASSUME ScOK, ConstantsOK, NEW w, NEW t, Good(w, t), NEW o \in 1..MaxObjs,
           w.obj[o].owner \in Relay, FreeConns(w) # {}
    PROVE  Good(dial(w, o), t) /\ Even(w, dial(w, o))
<1> DEFINE c == CHOOSE c \in FreeConns(w) : TRUE
           x == w.obj[o]
           k == [NoConn EXCEPT !.from = x.owner, !.to = x.about,
                               !.st = [e \in End |-> IF e = "i" THEN "dialing" ELSE "none"],
                               !.o["i"] = o]
           y == [x EXCEPT !.ws = c]
           v == dial(w, o)
<1>1. /\ w.conn \in [1..MaxConns -> Socket(w.minted, t)]
      /\ w.obj \in [1..MaxObjs -> PeerObj]
      /\ w.peers \in PeerMap
      /\ w.cache \in [Relay -> SUBSET (1..w.minted)]
      /\ w.minted \in Nat /\ w.lost \in SUBSET Nat
      /\ w \in World(w.minted, t)
  BY WorldParts
<1>2. c \in 1..MaxConns
  <2>1. c \in FreeConns(w) OBVIOUS
  <2>2. sc.conns \in Nat /\ MaxConns \in Nat /\ sc.conns <= MaxConns
    BY DEF ScOK, Scenario, ScenarioOK, ConstantsOK
  <2> QED BY <2>1, <2>2 DEF FreeConns
<1>3. x \in PeerObj /\ x.owner \in Relay /\ x.about \in Relay /\ Object(x)
  BY <1>1 DEF Good, Object
<1>4. v = [w EXCEPT !.obj = [w.obj EXCEPT ![o] = y], !.conn = [w.conn EXCEPT ![c] = k]]
  BY DEF dial
<1>5. /\ k.st = [e \in End |-> IF e = "i" THEN "dialing" ELSE "none"]
      /\ k.o = [e \in End |-> IF e = "i" THEN o ELSE 0]
      /\ k.from = x.owner /\ k.to = x.about
      /\ k \in Socket(w.minted, t)
  <2> DEFINE st == [e \in End |-> IF e = "i" THEN "dialing" ELSE "none"]
             ob == [e \in End |-> IF e = "i" THEN o ELSE 0]
             z == [[e \in End |-> 0] EXCEPT !["i"] = o]
  <2>1. z = ob BY DEF End
  <2>2. st \in [End -> StI \cup StR] BY DEF StI, StR
  <2>3. ob \in [End -> 0..MaxObjs] BY DEF ConstantsOK
  <2>4. k = [NoConn EXCEPT !.from = x.owner, !.to = x.about, !.st = st, !.o = z]
    BY DEF NoConn
  <2>5. /\ [e \in End |-> FALSE] \in [End -> BOOLEAN]
        /\ [e \in End |-> <<>>] \in [End -> Seq(Wire(w.minted, t))]
    OBVIOUS
  <2> HIDE DEF st, ob, z, k, x
  <2>6. k = [from |-> x.owner, to |-> x.about, cut |-> FALSE, sent |-> FALSE, bad |-> FALSE,
             st |-> st, o |-> ob, beat |-> [e \in End |-> FALSE], q |-> [e \in End |-> <<>>]]
    BY <2>1, <2>4 DEF NoConn
  <2>7. k \in Socket(w.minted, t) BY <2>2, <2>3, <2>5, <2>6, <1>3 DEF Socket
  <2> QED BY <2>6, <2>7 DEF st, ob
<1>6. y \in PeerObj /\ Object(y) /\ y.owner = x.owner /\ y.about = x.about
      /\ y.learned = x.learned /\ y.dynamic = x.dynamic
  <2> HIDE DEF x, c
  <2>1. c \in 0..MaxConns /\ c # 0 BY <1>2 DEF ConstantsOK
  <2> QED BY <2>1, <1>3 DEF PeerObj, Object
<1> HIDE DEF v, y, k, c
<1>7. /\ v.conn = [w.conn EXCEPT ![c] = k] /\ v.lost = w.lost /\ v.obj = [w.obj EXCEPT ![o] = y]
      /\ v.peers = w.peers
      /\ v.cache = w.cache /\ v.minted = w.minted
      /\ v = [conn |-> v.conn, obj |-> v.obj, peers |-> v.peers, cache |-> v.cache,
                minted |-> v.minted, lost |-> v.lost]
  BY <1>4, <1>1 DEF World
<1>8. Typed(v, t)
  <2>1. v.conn \in [1..MaxConns -> Socket(v.minted, t)] BY <1>1, <1>5, <1>7
  <2>2. v.obj \in [1..MaxObjs -> PeerObj] BY <1>1, <1>6, <1>7
  <2> QED BY <2>1, <2>2, <1>1, <1>7, TypedWhole DEF Good
<1>9. Lasting(w, v)
  BY <1>1, <1>6, <1>7 DEF Lasting
<1>10. Ends(k, v.obj) /\ Stays(w.conn[c], k)
  <2>1. v.obj[o] = y BY <1>1, <1>7
  <2>2. k.st["i"] = "dialing" /\ k.st["r"] = "none" /\ k.o["i"] = o /\ k.o["r"] = 0
    BY <1>5 DEF End
  <2> QED BY <2>1, <2>2, <1>3, <1>5, <1>6 DEF Ends, Stays, StI, StR, End, ConstantsOK
<1>11. \A d \in 1..MaxConns :
          v.conn[d] = w.conn[d] \/ (Ends(v.conn[d], v.obj) /\ Stays(w.conn[d], v.conn[d]))
  BY <1>1, <1>7, <1>10
<1>12. \A d \in 1..MaxObjs : v.obj[d] = w.obj[d] \/ Object(v.obj[d])
  BY <1>1, <1>6, <1>7
<1> QED BY <1>7, <1>8, <1>9, <1>11, <1>12, GoodFrom DEF v

-----------------------------------------------------------------------------
\* flushPending numbers what it forwards from the next id on.
Forwards(q, k) == Cardinality({j \in 1..k : q[j].k = "fwd"})

\* flushPending numbers the frames it forwards upwards, within what it counts.
LEMMA Numbering ==
    ASSUME NEW S, NEW q \in Seq(S), NEW k \in Nat, k <= Len(q)
    PROVE  /\ Forwards(q, Len(q)) \in Nat /\ Forwards(q, k) \in Nat
           /\ Forwards(q, k) <= Forwards(q, Len(q))
           /\ k # 0 /\ q[k].k = "fwd" => Forwards(q, k) >= 1
<1> DEFINE A == {j \in 1..k : q[j].k = "fwd"}
           B == {j \in 1..Len(q) : q[j].k = "fwd"}
<1>1. IsFiniteSet(1..Len(q)) /\ B \in SUBSET (1..Len(q))
  BY FS_Interval
<1>2. IsFiniteSet(B) BY <1>1, FS_Subset
<1>3. A \in SUBSET B OBVIOUS
<1>4. IsFiniteSet(A) /\ Cardinality(A) <= Cardinality(B) BY <1>2, <1>3, FS_Subset
<1>5. Cardinality(A) \in Nat /\ Cardinality(B) \in Nat BY <1>2, <1>4, FS_CardinalityType
<1>6. k # 0 /\ q[k].k = "fwd" => A # {}
  OBVIOUS
<1>7. A # {} => Cardinality(A) >= 1
  <2>1. Cardinality(A) = 0 <=> A = {} BY <1>4, FS_EmptySet
  <2> HIDE DEF A
  <2> QED BY <2>1, <1>5
<1>8. Forwards(q, k) = Cardinality(A) /\ Forwards(q, Len(q)) = Cardinality(B) BY DEF Forwards
<1> HIDE DEF A, B
<1> QED BY <1>4, <1>5, <1>6, <1>7, <1>8

\* flushPending changes no map, and no more of its object than its queue.
LEMMA FlushIs ==
    ASSUME ScOK, ConstantsOK, NEW w, NEW t \in Nat, Good(w, t), NEW o \in 1..MaxObjs,
           w.obj[o].ws # 0, w.obj[o].owner \in Relay
    PROVE  Typed(flushPending(w, o), t) /\ Alike(w, flushPending(w, o))
<1> DEFINE q == w.obj[o].pending
           Id(i) == w.minted + Forwards(q, i)
           m == Id(Len(q))
           y == [w.obj[o] EXCEPT !.pending = <<>>]
           d == [w.cache EXCEPT ![w.obj[o].owner] = w.cache[w.obj[o].owner] \cup (w.minted + 1 .. m)]
           u == [w EXCEPT !.obj[o].pending = <<>>, !.minted = m,
                          !.cache[w.obj[o].owner] = @ \cup (w.minted + 1 .. m)]
           s == [i \in DOMAIN q |-> IF q[i].k = "fwd"
                          THEN [k |-> "fwd", pk |-> q[i].pk, id |-> Id(i), n |-> 0]
                          ELSE q[i]]
<1>1. /\ w.conn \in [1..MaxConns -> Socket(w.minted, t)]
      /\ w.obj \in [1..MaxObjs -> PeerObj]
      /\ w.peers \in PeerMap
      /\ w.cache \in [Relay -> SUBSET (1..w.minted)]
      /\ w.minted \in Nat /\ w.lost \in SUBSET Nat
      /\ w \in World(w.minted, t)
  BY WorldParts
<1>2. w.obj[o] \in PeerObj /\ q \in Seq(Queued) BY <1>1 DEF PeerObj
<1>3. /\ m \in Nat /\ w.minted <= m
      /\ \A i \in DOMAIN q : q[i].k = "fwd" => Id(i) \in 1..m
  <2>1. Len(q) \in Nat /\ \A i \in DOMAIN q : i \in Nat /\ i <= Len(q) /\ i # 0 BY <1>2
  <2>2. Forwards(q, Len(q)) \in Nat BY <2>1, <1>2, Numbering
  <2>3. ASSUME NEW i \in DOMAIN q, q[i].k = "fwd"
        PROVE  Id(i) \in 1..m
    <3>1. i \in Nat /\ i <= Len(q) /\ i # 0 BY <2>1
    <3>2. /\ Forwards(q, i) \in Nat /\ Forwards(q, i) <= Forwards(q, Len(q))
          /\ Forwards(q, i) >= 1
      BY <2>3, <3>1, <1>2, Numbering
    <3> HIDE DEF q
    <3> QED BY <3>2, <2>2, <1>1
  <2> HIDE DEF q
  <2> QED BY <2>2, <2>3, <1>1
<1>4. flushPending(w, o) = SendSeq(u, o, s) BY DEF flushPending, Forwards
<1>5. u = [w EXCEPT !.obj = [w.obj EXCEPT ![o] = y], !.minted = m, !.cache = d]
  OBVIOUS
<1>6. s \in Seq(Wire(m, t))
  <2>1. ASSUME NEW i \in DOMAIN q PROVE s[i] \in Wire(m, t)
    <3>1. q[i] \in Queued BY <1>2
    <3>2. CASE q[i].k = "fwd"
      <4>1. q[i].pk \in Nat BY <3>1, <3>2, FrameIs
      <4>2. s[i] = [k |-> "fwd", pk |-> q[i].pk, id |-> Id(i), n |-> 0] BY <3>2
      <4>3. Id(i) \in 1..m BY <3>2, <1>3
      <4> HIDE DEF s, Id, m
      <4> QED BY <4>1, <4>2, <4>3 DEF Wire
    <3>3. CASE q[i].k # "fwd"
      <4>1. s[i] = q[i] BY <3>3
      <4> HIDE DEF s, m
      <4> QED BY <4>1, <3>1, <3>3 DEF Queued, Wire
    <3> QED BY <3>2, <3>3
  <2>2. DOMAIN s = 1..Len(q) /\ Len(q) \in Nat BY <1>2
  <2> HIDE DEF s, m, q
  <2>3. \A i \in DOMAIN s : s[i] \in Wire(m, t) BY <2>1, <2>2, <1>2 DEF q
  <2>4. s = [i \in 1..Len(q) |-> s[i]] BY <2>2 DEF s, q
  <2> QED BY <2>2, <2>3, <2>4
<1>7. y \in PeerObj /\ Len(y.pending) <= MAX_PENDING_FORWARDS
      /\ y.owner = w.obj[o].owner /\ y.about = w.obj[o].about /\ y.learned = w.obj[o].learned
      /\ y.dynamic = w.obj[o].dynamic /\ y.timer = w.obj[o].timer /\ y.ws = w.obj[o].ws
      /\ y.beat = w.obj[o].beat
  <2>1. <<>> \in Seq(Queued) /\ Len(<<>>) = 0 /\ MAX_PENDING_FORWARDS \in Nat BY DEF ConstantsOK
  <2> DEFINE x == w.obj[o]
  <2>2. x \in PeerObj BY <1>2
  <2> HIDE DEF x
  <2>3. [x EXCEPT !.pending = <<>>] \in PeerObj BY <2>1, <2>2 DEF PeerObj
  <2>4. y = [x EXCEPT !.pending = <<>>] BY DEF x
  <2> HIDE DEF y
  <2>5. /\ y.pending = <<>> /\ y.owner = x.owner /\ y.about = x.about /\ y.learned = x.learned
        /\ y.dynamic = x.dynamic /\ y.timer = x.timer /\ y.ws = x.ws /\ y.beat = x.beat
    BY <2>2, <2>4 DEF PeerObj
  <2> QED BY <2>1, <2>3, <2>4, <2>5 DEF x
<1>8. d \in [Relay -> SUBSET (1..m)]
  <2> HIDE DEF m
  <2>1. 1..w.minted \subseteq 1..m /\ (w.minted + 1 .. m) \subseteq 1..m BY <1>1, <1>3
  <2>2. w.cache \in [Relay -> SUBSET (1..m)] BY <1>1, <2>1
  <2> QED BY <2>1, <2>2
<1>9. w.conn \in [1..MaxConns -> Socket(m, t)]
  <2> HIDE DEF m
  <2> QED BY <1>1, <1>3, WireGrows
<1> HIDE DEF m, y, d, u, s
<1>10. /\ u.conn = w.conn /\ u.lost = w.lost /\ u.obj = [w.obj EXCEPT ![o] = y] /\ u.peers = w.peers
       /\ u.cache = d /\ u.minted = m
       /\ u = [conn |-> u.conn, obj |-> u.obj, peers |-> u.peers, cache |-> u.cache,
                 minted |-> u.minted, lost |-> u.lost]
  BY <1>5, <1>1 DEF World
<1>11. u.obj \in [1..MaxObjs -> PeerObj] /\ u.obj[o] = y
       /\ \A x \in 1..MaxObjs : x # o => u.obj[x] = w.obj[x]
  BY <1>1, <1>7, <1>10
<1>12. Typed(u, t)
  BY <1>1, <1>3, <1>8, <1>9, <1>10, <1>11, TypedWhole DEF Good
<1>13. Alike(w, u)
  <2>1. Alike(w, w) BY AlikeSelf
  <2>2. 1..w.minted \subseteq 1..u.minted BY <1>1, <1>3, <1>10
  <2> QED BY <2>1, <2>2, <1>7, <1>10, <1>11 DEF Alike
<1>14. Good(u, t) BY <1>12, <1>13, AlikeGood
<1>15. Typed(SendSeq(u, o, s), t) /\ Alike(u, SendSeq(u, o, s))
  <2>1. u.obj[o].ws # 0 /\ s \in Seq(Wire(u.minted, t)) BY <1>6, <1>7, <1>10, <1>11
  <2> QED BY <2>1, <1>14, SendSeqIs
<1> QED BY <1>4, <1>13, <1>15, AlikeAlike

Books == [Relay -> [Relay -> 0..now]]

\* Nor does sendAddrGossip, from an address book of the type it has.
LEMMA SendAddrGossipIs ==
    ASSUME NEW w, now \in Nat, Good(w, now), NEW o \in 1..MaxObjs, w.obj[o].ws # 0,
           w.obj[o].owner \in Relay, book \in Books, NEW about \in SUBSET Relay
    PROVE  Typed(sendAddrGossip(w, o, about), now) /\ Alike(w, sendAddrGossip(w, o, about))
<1> DEFINE f == AddrGossip(w.obj[o].owner, about)
<1>1. f \in Wire(w.minted, now)
  <2> DEFINE recs == {<<x, book[w.obj[o].owner][x]>> : x \in about}
  <2>1. \A x \in about : book[w.obj[o].owner][x] \in 0..now BY DEF Books
  <2>2. recs \in SUBSET (Relay \X (0..now)) BY <2>1
  <2>3. f = [k |-> "gossip", recs |-> recs] BY DEF AddrGossip
  <2> HIDE DEF recs, f
  <2> QED BY <2>2, <2>3 DEF Wire
<1>2. sendAddrGossip(w, o, about) = IF about = {} THEN w ELSE Send(w, o, f)
  BY DEF sendAddrGossip
<1> HIDE DEF f
<1>3. Typed(Send(w, o, f), now) /\ Alike(w, Send(w, o, f)) BY <1>1, SendIs
<1>4. Typed(w, now) /\ Alike(w, w) BY AlikeSelf DEF Good
<1> QED BY <1>2, <1>3, <1>4

-----------------------------------------------------------------------------
\* One socket changes, one object, or one entry of a map.
SetConn(w, c, k) == [w EXCEPT !.conn = [w.conn EXCEPT ![c] = k]]
SetObj(w, o, y) == [w EXCEPT !.obj = [w.obj EXCEPT ![o] = y]]
SetPeer(w, r, p, o) == [w EXCEPT !.peers = [w.peers EXCEPT ![r] = [w.peers[r] EXCEPT ![p] = o]]]

\* One field of one end of a socket.
SetState(k, e, x) == [k EXCEPT !.st = [k.st EXCEPT ![e] = x]]
SetObject(k, e, x) == [k EXCEPT !.o = [k.o EXCEPT ![e] = x]]
SetBeat(k, e, x) == [k EXCEPT !.beat = [k.beat EXCEPT ![e] = x]]
SetQueue(k, e, x) == [k EXCEPT !.q = [k.q EXCEPT ![e] = x]]

\* A socket names the right objects if these keep owner and subject.
LEMMA EndsLast ==
    ASSUME ConstantsOK, NEW m, NEW t, NEW k \in Socket(m, t), NEW w, NEW v,
           Ends(k, w.obj), Lasting(w, v)
    PROVE  Ends(k, v.obj)
<1>1. k.o \in [End -> 0..MaxObjs] /\ MaxObjs \in Nat /\ 0 \notin Relay BY DEF Socket, ConstantsOK
<1>2. /\ k.o["i"] # 0 => k.o["i"] \in 1..MaxObjs
      /\ k.o["r"] # 0 => k.o["r"] \in 1..MaxObjs
  BY <1>1 DEF End
<1> QED BY <1>1, <1>2 DEF Ends, Lasting

\* A socket that is changed, and not accepted, leaves a good world good.
LEMMA SocketChange ==
    ASSUME ScOK, ConstantsOK, NEW w, NEW t, Good(w, t), NEW c \in 1..MaxConns,
           NEW k \in Socket(w.minted, t), Ends(k, w.obj), Stays(w.conn[c], k)
    PROVE  LET v == SetConn(w, c, k)
           IN  /\ Good(v, t) /\ Even(w, v)
               /\ \A d \in 1..MaxConns : v.conn[d] = IF d = c THEN k ELSE w.conn[d]
               /\ v.obj = w.obj /\ v.peers = w.peers /\ v.minted = w.minted
<1> DEFINE v == SetConn(w, c, k)
<1>1. /\ w.conn \in [1..MaxConns -> Socket(w.minted, t)]
      /\ w.obj \in [1..MaxObjs -> PeerObj]
      /\ w.peers \in PeerMap
      /\ w.cache \in [Relay -> SUBSET (1..w.minted)]
      /\ w.minted \in Nat /\ w.lost \in SUBSET Nat
      /\ w \in World(w.minted, t)
  BY WorldParts
<1>2. /\ v.conn = [w.conn EXCEPT ![c] = k] /\ v.lost = w.lost /\ v.obj = w.obj
      /\ v.peers = w.peers /\ v.cache = w.cache /\ v.minted = w.minted
      /\ v = [conn |-> v.conn, obj |-> v.obj, peers |-> v.peers, cache |-> v.cache,
                minted |-> v.minted, lost |-> v.lost]
  BY <1>1 DEF World, SetConn
<1> HIDE DEF v
<1>3. v.conn \in [1..MaxConns -> Socket(v.minted, t)] BY <1>1, <1>2
<1>4. Typed(v, t) BY <1>1, <1>2, <1>3, TypedWhole DEF Good
<1>5. Lasting(w, v) BY <1>2 DEF Lasting
<1>6. \A d \in 1..MaxConns :
          v.conn[d] = w.conn[d] \/ (Ends(v.conn[d], v.obj) /\ Stays(w.conn[d], v.conn[d]))
  BY <1>1, <1>2
<1>7. \A d \in 1..MaxObjs : v.obj[d] = w.obj[d] \/ Object(v.obj[d]) BY <1>2
<1>8. \A d \in 1..MaxConns : v.conn[d] = IF d = c THEN k ELSE w.conn[d] BY <1>1, <1>2
<1> QED BY <1>2, <1>8, <1>4, <1>5, <1>6, <1>7, GoodFrom DEF v

\* What an object is stays, what it has may change.
LEMMA ObjectChange ==
    ASSUME ScOK, ConstantsOK, NEW w, NEW t, Good(w, t), NEW o \in 1..MaxObjs,
           NEW y \in PeerObj, Object(y),
           w.obj[o].owner # 0 => /\ y.owner = w.obj[o].owner /\ y.about = w.obj[o].about
                                 /\ y.learned = w.obj[o].learned /\ y.dynamic = w.obj[o].dynamic
    PROVE  LET v == SetObj(w, o, y)
           IN  /\ Good(v, t) /\ Even(w, v)
               /\ \A d \in 1..MaxObjs : v.obj[d] = IF d = o THEN y ELSE w.obj[d]
               /\ v.conn = w.conn /\ v.peers = w.peers /\ v.minted = w.minted /\ v.lost = w.lost
<1> DEFINE v == SetObj(w, o, y)
<1>1. /\ w.conn \in [1..MaxConns -> Socket(w.minted, t)]
      /\ w.obj \in [1..MaxObjs -> PeerObj]
      /\ w.peers \in PeerMap
      /\ w.cache \in [Relay -> SUBSET (1..w.minted)]
      /\ w.minted \in Nat /\ w.lost \in SUBSET Nat
      /\ w \in World(w.minted, t)
  BY WorldParts
<1>2. /\ v.obj = [w.obj EXCEPT ![o] = y] /\ v.lost = w.lost /\ v.conn = w.conn
      /\ v.peers = w.peers /\ v.cache = w.cache /\ v.minted = w.minted
      /\ v = [conn |-> v.conn, obj |-> v.obj, peers |-> v.peers, cache |-> v.cache,
                minted |-> v.minted, lost |-> v.lost]
  BY <1>1 DEF World, SetObj
<1> HIDE DEF v
<1>3. v.obj \in [1..MaxObjs -> PeerObj] /\ v.obj[o] = y BY <1>1, <1>2
<1>4. Typed(v, t) BY <1>1, <1>2, <1>3, TypedWhole DEF Good
<1>5. Lasting(w, v) BY <1>1, <1>2 DEF Lasting
<1>6. \A d \in 1..MaxConns :
          v.conn[d] = w.conn[d] \/ (Ends(v.conn[d], v.obj) /\ Stays(w.conn[d], v.conn[d]))
  BY <1>2
<1>7. \A d \in 1..MaxObjs : v.obj[d] = w.obj[d] \/ Object(v.obj[d]) BY <1>1, <1>2
<1>8. \A d \in 1..MaxObjs : v.obj[d] = IF d = o THEN y ELSE w.obj[d] BY <1>1, <1>2
<1> QED BY <1>2, <1>8, <1>3, <1>4, <1>5, <1>6, <1>7, GoodFrom DEF v

\* A peer that is not in the file can leave the map; it no longer counts.
LEMMA Unmap ==
    ASSUME ScOK, ConstantsOK, NEW w, NEW t, Good(w, t), NEW r \in Relay, NEW p \in Relay,
           <<r, p>> \notin ToSet(sc.file)
    PROVE  LET v == SetPeer(w, r, p, 0)
           IN  Good(v, t) /\ Tame(w, v) /\ v.conn = w.conn /\ v.obj = w.obj /\ v.minted = w.minted
<1> DEFINE v == SetPeer(w, r, p, 0)
<1>1. /\ w.conn \in [1..MaxConns -> Socket(w.minted, t)]
      /\ w.obj \in [1..MaxObjs -> PeerObj]
      /\ w.peers \in PeerMap
      /\ w.cache \in [Relay -> SUBSET (1..w.minted)]
      /\ w.minted \in Nat /\ w.lost \in SUBSET Nat
      /\ w \in World(w.minted, t)
  BY WorldParts
<1> DEFINE ps == [w.peers EXCEPT ![r] = [w.peers[r] EXCEPT ![p] = 0]]
<1>2. ps \in PeerMap
  <2>1. 0 \in 0..MaxObjs BY DEF ConstantsOK
  <2>2. [w.peers[r] EXCEPT ![p] = 0] \in [Relay -> 0..MaxObjs] BY <1>1, <2>1 DEF PeerMap
  <2> QED BY <1>1, <2>2 DEF PeerMap
<1>3. /\ \A a, b \in Relay : ps[a][b] = IF a = r /\ b = p THEN 0 ELSE w.peers[a][b]
  BY <1>1 DEF PeerMap
<1> HIDE DEF ps
<1>4. v = [w EXCEPT !.peers = ps] BY DEF ps, SetPeer
<1> HIDE DEF v
<1>5. /\ v.obj = w.obj /\ v.lost = w.lost /\ v.conn = w.conn
      /\ v.peers = ps /\ v.cache = w.cache /\ v.minted = w.minted
      /\ v = [conn |-> v.conn, obj |-> v.obj, peers |-> v.peers, cache |-> v.cache,
                minted |-> v.minted, lost |-> v.lost]
  BY <1>1, <1>4 DEF World
<1>6. Typed(v, t) BY <1>1, <1>2, <1>5, TypedWhole DEF Good
<1>7. Mapped(v.peers, v.obj)
  <2>1. Mapped(w.peers, w.obj) BY DEF Good
  <2>2. ASSUME NEW a \in Relay, NEW b \in Relay, ps[a][b] # 0
        PROVE  w.obj[ps[a][b]].owner = a /\ w.obj[ps[a][b]].about = b
    BY <2>1, <2>2, <1>3 DEF Mapped
  <2>3. ASSUME NEW i \in DOMAIN sc.file
        PROVE  ps[sc.file[i][1]][sc.file[i][2]] = i /\ ~w.obj[i].learned /\ ~w.obj[i].dynamic
    <3>1. sc.file[i] \in Relay \X Relay BY ObjectsNamed
    <3>2. sc.file[i] # <<r, p>> BY DEF ToSet
    <3>3. ps[sc.file[i][1]][sc.file[i][2]] = w.peers[sc.file[i][1]][sc.file[i][2]]
      BY <3>1, <3>2, <1>3
    <3> QED BY <3>3, <2>1, ZenonT(60) DEF Mapped
  <2> QED
    <3>1. Mapped(ps, w.obj) BY <2>2, <2>3, Zenon DEF Mapped
    <3>2. v.peers = ps /\ v.obj = w.obj BY <1>5
    <3> QED BY <3>1, <3>2
<1>8. Good(v, t) BY <1>5, <1>6, <1>7 DEF Good
<1>9. Tame(w, v)
  <2> SUFFICES ASSUME NEW a \in Relay
               PROVE  /\ Kept(v, a) \subseteq Kept(w, a)
                      /\ \A b \in Coming(v, a) : b \in Coming(w, a) \/ w.peers[a][b] # 0
    BY <1>5 DEF Tame
  <2>1. Kept(v, a) \subseteq Kept(w, a) BY <1>3, <1>5 DEF Kept
  <2>2. \A b \in Relay : Accepted(v, a, b) <=> Accepted(w, a, b) BY <1>5 DEF Accepted
  <2>3. \A b \in Coming(v, a) : b \in Coming(w, a) \/ w.peers[a][b] # 0 BY <2>2 DEF Coming
  <2> QED BY <2>1, <2>3
<1> QED BY <1>5, <1>8, <1>9 DEF v

\* The fields of a socket, set one at a time.
LEMMA StateSetIs ==
    ASSUME NEW m, NEW t, NEW k \in Socket(m, t), NEW e \in End, NEW x \in StI \cup StR
    PROVE  LET l == SetState(k, e, x)
           IN  /\ l \in Socket(m, t) /\ \A d \in End : l.st[d] = IF d = e THEN x ELSE k.st[d]
               /\ l.o = k.o /\ l.beat = k.beat /\ l.q = k.q /\ l.from = k.from /\ l.to = k.to
               /\ l.cut = k.cut /\ l.sent = k.sent /\ l.bad = k.bad
<1> DEFINE z == [k.st EXCEPT ![e] = x]
           l == SetState(k, e, x)
<1>1. z \in [End -> StI \cup StR] /\ \A d \in End : z[d] = IF d = e THEN x ELSE k.st[d]
  BY DEF Socket
<1>2. l = [k EXCEPT !.st = z] BY DEF SetState
<1> HIDE DEF z, l
<1>3. /\ l \in Socket(m, t) /\ l.st = z
      /\ l.o = k.o /\ l.beat = k.beat /\ l.q = k.q /\ l.from = k.from /\ l.to = k.to
      /\ l.cut = k.cut /\ l.sent = k.sent /\ l.bad = k.bad
  BY <1>1, <1>2 DEF Socket
<1> QED BY <1>1, <1>3 DEF l

\* Naming another object at an end changes nothing else of a socket,
LEMMA ObjectSetIs ==
    ASSUME NEW m, NEW t, NEW k \in Socket(m, t), NEW e \in End, NEW x \in 0..MaxObjs
    PROVE  LET l == SetObject(k, e, x)
           IN  /\ l \in Socket(m, t) /\ \A d \in End : l.o[d] = IF d = e THEN x ELSE k.o[d]
               /\ l.st = k.st /\ l.beat = k.beat /\ l.q = k.q /\ l.from = k.from /\ l.to = k.to
               /\ l.cut = k.cut /\ l.sent = k.sent /\ l.bad = k.bad
<1> DEFINE z == [k.o EXCEPT ![e] = x]
           l == SetObject(k, e, x)
<1>1. z \in [End -> 0..MaxObjs] /\ \A d \in End : z[d] = IF d = e THEN x ELSE k.o[d]
  BY DEF Socket
<1>2. l = [k EXCEPT !.o = z] BY DEF SetObject
<1> HIDE DEF z, l
<1>3. /\ l \in Socket(m, t) /\ l.o = z
      /\ l.st = k.st /\ l.beat = k.beat /\ l.q = k.q /\ l.from = k.from /\ l.to = k.to
      /\ l.cut = k.cut /\ l.sent = k.sent /\ l.bad = k.bad
  BY <1>1, <1>2 DEF Socket
<1> QED BY <1>1, <1>3 DEF l

\* ... nor does its heartbeat,
LEMMA BeatSetIs ==
    ASSUME NEW m, NEW t, NEW k \in Socket(m, t), NEW e \in End, NEW x \in BOOLEAN
    PROVE  LET l == SetBeat(k, e, x)
           IN  /\ l \in Socket(m, t) /\ \A d \in End : l.beat[d] = IF d = e THEN x ELSE k.beat[d]
               /\ l.st = k.st /\ l.o = k.o /\ l.q = k.q /\ l.from = k.from /\ l.to = k.to
               /\ l.cut = k.cut /\ l.sent = k.sent /\ l.bad = k.bad
<1> DEFINE z == [k.beat EXCEPT ![e] = x]
           l == SetBeat(k, e, x)
<1>1. z \in [End -> BOOLEAN] /\ \A d \in End : z[d] = IF d = e THEN x ELSE k.beat[d]
  BY DEF Socket
<1>2. l = [k EXCEPT !.beat = z] BY DEF SetBeat
<1> HIDE DEF z, l
<1>3. /\ l \in Socket(m, t) /\ l.beat = z
      /\ l.st = k.st /\ l.o = k.o /\ l.q = k.q /\ l.from = k.from /\ l.to = k.to
      /\ l.cut = k.cut /\ l.sent = k.sent /\ l.bad = k.bad
  BY <1>1, <1>2 DEF Socket
<1> QED BY <1>1, <1>3 DEF l

\* ... nor its queue.
LEMMA QueueSetIs ==
    ASSUME NEW m, NEW t, NEW k \in Socket(m, t), NEW e \in End, NEW x \in Seq(Wire(m, t))
    PROVE  LET l == SetQueue(k, e, x)
           IN  /\ l \in Socket(m, t) /\ \A d \in End : l.q[d] = IF d = e THEN x ELSE k.q[d]
               /\ l.st = k.st /\ l.o = k.o /\ l.beat = k.beat /\ l.from = k.from /\ l.to = k.to
               /\ l.cut = k.cut /\ l.sent = k.sent /\ l.bad = k.bad
<1> DEFINE z == [k.q EXCEPT ![e] = x]
           l == SetQueue(k, e, x)
<1>1. z \in [End -> Seq(Wire(m, t))] /\ \A d \in End : z[d] = IF d = e THEN x ELSE k.q[d]
  BY DEF Socket
<1>2. l = [k EXCEPT !.q = z] BY DEF SetQueue
<1> HIDE DEF z, l
<1>3. /\ l \in Socket(m, t) /\ l.q = z
      /\ l.st = k.st /\ l.o = k.o /\ l.beat = k.beat /\ l.from = k.from /\ l.to = k.to
      /\ l.cut = k.cut /\ l.sent = k.sent /\ l.bad = k.bad
  BY <1>1, <1>2 DEF Socket
<1> QED BY <1>1, <1>3 DEF l

-----------------------------------------------------------------------------
\* The parts of a socket of a good world.
LEMMA SocketOf ==
    ASSUME NEW w, NEW t, Good(w, t), NEW c \in 1..MaxConns
    PROVE  /\ w.conn[c] \in Socket(w.minted, t) /\ Ends(w.conn[c], w.obj)
           /\ w.conn[c].st \in [End -> StI \cup StR] /\ w.conn[c].o \in [End -> 0..MaxObjs]
           /\ w.conn[c].q \in [End -> Seq(Wire(w.minted, t))]
<1>1. w.conn[c] \in Socket(w.minted, t)
  <2>1. w.conn \in [1..MaxConns -> Socket(w.minted, t)] BY WorldParts
  <2> QED BY <2>1
<1>2. Ends(w.conn[c], w.obj) BY DEF Good
<1> QED BY <1>1, <1>2 DEF Socket

\* A socket whose state at one end is set, if it fits.
LEMMA StateChange ==
    ASSUME ScOK, ConstantsOK, NEW w, NEW t, Good(w, t), NEW c \in 1..MaxConns, NEW e \in End,
           NEW x \in StI \cup StR, x # "accepted", x # "gone", w.conn[c].st[e] # "gone",
           e = "i" => x \in StI, e = "r" => x \in StR,
           e = "r" /\ x \in {"up", "closing"} => w.conn[c].o["r"] # 0,
           e = "r" /\ x # "none" => w.conn[c].from \in Relay /\ w.conn[c].to \in Relay,
           NEW v, v = SetConn(w, c, SetState(w.conn[c], e, x))
    PROVE  /\ Good(v, t) /\ Even(w, v) /\ v.obj = w.obj /\ v.peers = w.peers /\ v.minted = w.minted
           /\ \A d \in 1..MaxConns : d # c => v.conn[d] = w.conn[d]
<1> DEFINE k == w.conn[c]
           l == SetState(k, e, x)
<1>1. /\ k \in Socket(w.minted, t) /\ Ends(k, w.obj) BY SocketOf
<1>2. w.conn \in [1..MaxConns -> Socket(w.minted, t)] BY WorldParts
<1>3. v = SetConn(w, c, l) OBVIOUS
<1>4. /\ l \in Socket(w.minted, t) /\ \A d \in End : l.st[d] = IF d = e THEN x ELSE k.st[d]
      /\ l.o = k.o /\ l.from = k.from /\ l.to = k.to
  <2> HIDE DEF k
  <2> QED BY <1>1, StateSetIs
<1> HIDE DEF l
<1>6. /\ l.st["i"] = IF e = "i" THEN x ELSE k.st["i"]
      /\ l.st["r"] = IF e = "r" THEN x ELSE k.st["r"]
  BY <1>4 DEF End
<1>7. Ends(l, w.obj)
  BY <1>1, <1>4, <1>6 DEF Ends, End
<1>8. Stays(k, l)
  BY <1>4, <1>6 DEF Stays, End
<1>9. /\ Good(v, t) /\ Even(w, v) /\ v.obj = w.obj /\ v.peers = w.peers /\ v.minted = w.minted
      /\ \A d \in 1..MaxConns : v.conn[d] = IF d = c THEN l ELSE w.conn[d]
  BY <1>3, <1>4, <1>7, <1>8, SocketChange
<1> QED BY <1>2, <1>9

\* ws.close changes no map and no object, and accepts nobody.
LEMMA CloseIs ==
    ASSUME ScOK, ConstantsOK, NEW w, NEW t, Good(w, t), NEW c \in 1..MaxConns, NEW e \in End
    PROVE  LET v == Close(w, c, e)
           IN  /\ Good(v, t) /\ Even(w, v) /\ v.obj = w.obj /\ v.peers = w.peers
               /\ v.minted = w.minted
               /\ \A d \in 1..MaxConns : d # c => v.conn[d] = w.conn[d]
<1> DEFINE k == w.conn[c]
           x == CASE k.st[e] = "up" -> "closing"
                  [] k.st[e] \in {"dialing", "hello", "accepted", "signed"} -> "shut"
                  [] OTHER -> k.st[e]
           v == Close(w, c, e)
<1>1. k \in Socket(w.minted, t) /\ Ends(k, w.obj) /\ k.st \in [End -> StI \cup StR] BY SocketOf
<1>2. w \in World(w.minted, t) /\ w.conn \in [1..MaxConns -> Socket(w.minted, t)] BY WorldParts
<1>3. v = SetConn(w, c, SetState(k, e, x))
  BY DEF Close, SetConn, SetState
<1>5. CASE k.st[e] \in {"up", "dialing", "hello", "accepted", "signed"}
  <2>1. x = IF k.st[e] = "up" THEN "closing" ELSE "shut"
    BY <1>5
  <2>2. /\ e = "r" => k.from \in Relay /\ k.to \in Relay
        /\ e = "r" /\ k.st[e] = "up" => k.o["r"] # 0
    BY <1>1, <1>5 DEF Ends
  <2> HIDE DEF x, v
  <2>3. /\ x \in StI \cup StR /\ x # "accepted" /\ x # "gone" /\ k.st[e] # "gone"
        /\ e = "i" => x \in StI
        /\ e = "r" => x \in StR
        /\ e = "r" /\ x \in {"up", "closing"} => k.o["r"] # 0
        /\ e = "r" /\ x # "none" => k.from \in Relay /\ k.to \in Relay
    BY <2>1, <2>2, <1>5 DEF StI, StR
  <2>4. /\ Good(v, t) /\ Even(w, v) /\ v.obj = w.obj /\ v.peers = w.peers /\ v.minted = w.minted
        /\ \A d \in 1..MaxConns : d # c => v.conn[d] = w.conn[d]
    BY <1>3, <2>3, StateChange
  <2> QED BY <2>4 DEF v
<1>6. CASE k.st[e] \notin {"up", "dialing", "hello", "accepted", "signed"}
  <2>1. x = k.st[e] BY <1>6
  <2> HIDE DEF x, v
  <2>2. [k.st EXCEPT ![e] = x] = k.st BY <2>1, <1>1
  <2>3. [k EXCEPT !.st = k.st] = k BY <1>1 DEF Socket
  <2>4. [w.conn EXCEPT ![c] = k] = w.conn BY <1>2
  <2>5. [w EXCEPT !.conn = w.conn] = w BY <1>2 DEF World
  <2>6. v = w
    <3>1. SetState(k, e, x) = k BY <2>2, <2>3 DEF SetState
    <3> HIDE DEF k
    <3> QED BY <1>3, <2>4, <2>5, <3>1 DEF SetConn
  <2> QED BY <2>6, EvenSelf DEF v
<1> QED BY <1>5, <1>6

\* establishPeer makes one socket the socket of an object, at the end where that object belongs.
Established(w, c, e, o) ==
    [w EXCEPT !.obj[o] = [@ EXCEPT !.ws = c, !.est = TRUE, !.beat = c],
              !.conn[c] = [@ EXCEPT !.st[e] = "up", !.o[e] = o, !.beat[e] = TRUE]]

\* An object of this end takes the socket over.
LEMMA EstablishedIs ==
    ASSUME ScOK, ConstantsOK, NEW w, NEW t, Good(w, t),
           NEW c \in 1..MaxConns, NEW e \in End, NEW o \in 1..MaxObjs,
           w.conn[c].from \in Relay, w.conn[c].to \in Relay, w.conn[c].st[e] # "gone",
           w.obj[o].owner = IF e = "i" THEN w.conn[c].from ELSE w.conn[c].to,
           w.obj[o].about = IF e = "i" THEN w.conn[c].to ELSE w.conn[c].from
    PROVE  LET u == Established(w, c, e, o)
           IN  /\ Good(u, t) /\ Even(w, u)
               /\ u.obj[o].ws # 0 /\ u.obj[o].owner \in Relay
<1> DEFINE x == w.obj[o]
           k == w.conn[c]
           y == [x EXCEPT !.ws = c, !.est = TRUE, !.beat = c]
           k1 == SetState(k, e, "up")
           k2 == SetObject(k1, e, o)
           b == TRUE
           k3 == SetBeat(k2, e, b)
           w1 == SetObj(w, o, y)
           w2 == SetConn(w1, c, k3)
           u == Established(w, c, e, o)
<1>1. /\ w.conn \in [1..MaxConns -> Socket(w.minted, t)]
      /\ w.obj \in [1..MaxObjs -> PeerObj]
      /\ w.minted \in Nat
      /\ w \in World(w.minted, t)
  BY WorldParts
<1>2. x \in PeerObj /\ k \in Socket(w.minted, t) /\ Object(x) /\ Ends(k, w.obj)
  BY <1>1 DEF Good
<1>3. y \in PeerObj /\ Object(y) /\ y.owner = x.owner /\ y.about = x.about
      /\ y.learned = x.learned /\ y.dynamic = x.dynamic /\ y.ws = c
  <2> HIDE DEF x
  <2>1. c \in 0..MaxConns /\ c # 0 BY DEF ConstantsOK
  <2> QED BY <2>1, <1>2 DEF PeerObj, Object
<1>6. u = w2
  <2>1. k3 = [k EXCEPT !.st[e] = "up", !.o[e] = o, !.beat[e] = TRUE]
    BY <1>2 DEF Socket, SetState, SetObject, SetBeat
  <2>2. u = [w EXCEPT !.obj = [w.obj EXCEPT ![o] = y], !.conn = [w.conn EXCEPT ![c] =
                [k EXCEPT !.st[e] = "up", !.o[e] = o, !.beat[e] = TRUE]]]
    BY DEF Established
  <2> HIDE DEF k3, y
  <2>3. w1.conn = w.conn BY <1>1 DEF SetObj, World
  <2>4. w2 = [w1 EXCEPT !.conn = [w.conn EXCEPT ![c] = k3]] BY <2>3 DEF SetConn
  <2>5. w1 = [w EXCEPT !.obj = [w.obj EXCEPT ![o] = y]] BY DEF SetObj
  <2> QED BY <2>1, <2>2, <2>4, <2>5
<1> HIDE DEF w2, w1, y
<1>4. /\ Good(w1, t) /\ Even(w, w1)
      /\ w1.obj[o] = y
      /\ w1.conn = w.conn /\ w1.peers = w.peers /\ w1.minted = w.minted
  BY <1>3, ObjectChange DEF w1
<1>5. /\ k3 \in Socket(w.minted, t) /\ k3.from = k.from /\ k3.to = k.to
      /\ \A d \in End : k3.st[d] = IF d = e THEN "up" ELSE k.st[d]
      /\ \A d \in End : k3.o[d] = IF d = e THEN o ELSE k.o[d]
  <2>1. "up" \in StI \cup StR /\ o \in 0..MaxObjs
    BY DEF StI, ConstantsOK
  <2>2. b \in BOOLEAN OBVIOUS
  <2> HIDE DEF k, b
  <2>3. /\ k1 \in Socket(w.minted, t) /\ \A d \in End : k1.st[d] = IF d = e THEN "up" ELSE k.st[d]
        /\ k1.o = k.o /\ k1.from = k.from /\ k1.to = k.to
    BY <1>2, <2>1, StateSetIs
  <2> HIDE DEF k1
  <2>5. /\ k2 \in Socket(w.minted, t) /\ k2.st = k1.st
        /\ \A d \in End : k2.o[d] = IF d = e THEN o ELSE k1.o[d]
        /\ k2.from = k1.from /\ k2.to = k1.to
    BY <2>1, <2>3, ObjectSetIs
  <2> HIDE DEF k2
  <2>7. /\ k3 \in Socket(w.minted, t) /\ k3.st = k2.st
        /\ k3.o = k2.o /\ k3.from = k2.from /\ k3.to = k2.to
    BY <2>2, <2>5, BeatSetIs
  <2> QED BY <2>3, <2>5, <2>7
<1>7. Ends(k3, w1.obj) /\ Stays(w1.conn[c], k3)
  <2>2. Ends(k, w1.obj)
    <3>1. Ends(w1.conn[c], w1.obj) BY <1>4 DEF Good
    <3> QED BY <3>1, <1>4
  <2> HIDE DEF k3
  <2>3. /\ k3.st["i"] = IF e = "i" THEN "up" ELSE k.st["i"]
        /\ k3.st["r"] = IF e = "r" THEN "up" ELSE k.st["r"]
        /\ k3.o["i"] = IF e = "i" THEN o ELSE k.o["i"]
        /\ k3.o["r"] = IF e = "r" THEN o ELSE k.o["r"]
    <3> HIDE DEF k
    <3> QED BY <1>5 DEF End
  <2>4. w1.obj[o].owner = (IF e = "i" THEN k.from ELSE k.to)
        /\ w1.obj[o].about = (IF e = "i" THEN k.to ELSE k.from)
    BY <1>3, <1>4
  <2>5. o # 0 /\ k.from \in Relay /\ k.to \in Relay /\ e \in {"i", "r"} BY DEF End
  <2>6. w1.conn[c] = k BY <1>4
  <2> HIDE DEF k
  <2>7. Ends(k3, w1.obj) BY <2>2, <2>3, <2>4, <2>5, <1>5 DEF Ends, StI, StR, End
  <2>8. Stays(w1.conn[c], k3) BY <2>3, <2>6, <1>5 DEF Stays
  <2> QED BY <2>7, <2>8
<1>8. /\ Good(w2, t) /\ Even(w1, w2) /\ w2.obj = w1.obj /\ w2.minted = w.minted
  <2>1. w2 = SetConn(w1, c, k3) BY DEF w2
  <2> HIDE DEF k3
  <2>2. k3 \in Socket(w1.minted, t) BY <1>4, <1>5
  <2>3. /\ Good(w2, t) /\ Even(w1, w2) /\ w2.obj = w1.obj /\ w2.minted = w1.minted
    BY <2>1, <2>2, <1>4, <1>7, SocketChange
  <2> QED BY <2>3, <1>4
<1>9. u.obj[o] = y /\ Good(u, t) /\ Even(w, u)
  BY <1>4, <1>6, <1>8, EvenEven
<1>11. u.obj[o].ws # 0 /\ u.obj[o].owner \in Relay
  BY <1>3, <1>9
<1> QED BY <1>9, <1>11

\* establishPeer changes no map: who is established was mapped before.
LEMMA EstablishIs ==
    ASSUME ScOK, ConstantsOK, now \in Nat, book \in Books, NEW w, Good(w, now),
           NEW c \in 1..MaxConns, NEW e \in End, NEW o \in 1..MaxObjs,
           w.conn[c].from \in Relay, w.conn[c].to \in Relay, w.conn[c].st[e] # "gone",
           w.obj[o].owner = IF e = "i" THEN w.conn[c].from ELSE w.conn[c].to,
           w.obj[o].about = IF e = "i" THEN w.conn[c].to ELSE w.conn[c].from
    PROVE  Good(establishPeer(w, c, e, o), now) /\ Even(w, establishPeer(w, c, e, o))
<1> DEFINE u == Established(w, c, e, o)
           s == sendAddrGossip(u, o, News(u.obj[o].owner, u.obj[o].about))
<1>0. establishPeer(w, c, e, o) = flushPending(s, o)
  BY DEF establishPeer, Established
<1>9. Good(u, now) /\ Even(w, u) /\ u.obj[o].ws # 0 /\ u.obj[o].owner \in Relay
  BY EstablishedIs
<1> HIDE DEF u
<1>12. Typed(s, now) /\ Alike(u, s)
  <2>1. News(u.obj[o].owner, u.obj[o].about) \in SUBSET Relay BY DEF News
  <2> QED BY <2>1, <1>9, SendAddrGossipIs
<1> HIDE DEF s
<1>13. Good(s, now) /\ Even(u, s) BY <1>9, <1>12, AlikeGood
<1>14. s.obj[o].ws # 0 /\ s.obj[o].owner \in Relay BY <1>9, <1>12 DEF Alike
<1>15. Typed(flushPending(s, o), now) /\ Alike(s, flushPending(s, o)) BY <1>13, <1>14, FlushIs
<1>16. Good(flushPending(s, o), now) /\ Even(s, flushPending(s, o)) BY <1>13, <1>15, AlikeGood
<1> QED BY <1>0, <1>9, <1>13, <1>16, EvenEven

-----------------------------------------------------------------------------
\* Clearing a heartbeat changes nothing else.
LEMMA BeatOff ==
    ASSUME ScOK, ConstantsOK, NEW w, NEW t, Good(w, t), NEW c \in 1..MaxConns, NEW e \in End
    PROVE  LET v == SetConn(w, c, SetBeat(w.conn[c], e, FALSE))
           IN  /\ Good(v, t) /\ Even(w, v) /\ v.obj = w.obj /\ v.peers = w.peers
               /\ v.minted = w.minted
               /\ \A d \in 1..MaxConns : v.conn[d].o = w.conn[d].o /\ v.conn[d].q = w.conn[d].q
<1> DEFINE k == w.conn[c]
           b == FALSE
           l == SetBeat(k, e, b)
           v == SetConn(w, c, l)
<1>1. k \in Socket(w.minted, t) /\ Ends(k, w.obj) BY SocketOf
<1>2. b \in BOOLEAN OBVIOUS
<1> HIDE DEF b, k
<1>3. /\ l \in Socket(w.minted, t) /\ l.st = k.st /\ l.o = k.o /\ l.from = k.from /\ l.to = k.to
      /\ l.q = k.q
  BY <1>1, <1>2, BeatSetIs
<1> HIDE DEF l
<1>4. Ends(l, w.obj) /\ Stays(k, l) BY <1>1, <1>3 DEF Ends, Stays, End
<1>5. Stays(w.conn[c], l) BY <1>4 DEF k
<1>6. /\ Good(v, t) /\ Even(w, v) /\ v.obj = w.obj /\ v.peers = w.peers /\ v.minted = w.minted
      /\ \A d \in 1..MaxConns : v.conn[d] = IF d = c THEN l ELSE w.conn[d]
  BY <1>3, <1>4, <1>5, SocketChange
<1>7. \A d \in 1..MaxConns : v.conn[d].o = w.conn[d].o /\ v.conn[d].q = w.conn[d].q
  BY <1>3, <1>6 DEF k
<1> QED BY <1>6, <1>7 DEF v, l, k, b

\* teardownPeer takes at most a peer out of the map.
LEMMA TeardownIs ==
    ASSUME ScOK, ConstantsOK, NEW w, NEW t, Good(w, t), NEW o \in 1..MaxObjs,
           w.obj[o].owner \in Relay
    PROVE  LET v == teardownPeer(w, o)
           IN  /\ Good(v, t) /\ Tame(w, v) /\ v.obj[o].owner \in Relay /\ v.minted = w.minted
               /\ \A d \in 1..MaxConns : v.conn[d].o = w.conn[d].o /\ v.conn[d].q = w.conn[d].q
<1> DEFINE x == w.obj[o]
           e == EndOf(w, o, x.beat)
           u == IF x.beat = 0 THEN w ELSE SetConn(w, x.beat, SetBeat(w.conn[x.beat], e, FALSE))
           y == [x EXCEPT !.est = FALSE, !.ws = 0, !.beat = 0]
           v == SetObj(u, o, y)
           z == IF x.dynamic THEN SetPeer(v, x.owner, x.about, 0) ELSE v
<1>1. x \in PeerObj /\ Object(x)
  <2>1. w.obj \in [1..MaxObjs -> PeerObj] BY WorldParts
  <2> QED BY <2>1, ZenonT(60) DEF Good
<1>2. /\ Good(u, t) /\ Even(w, u) /\ u.obj = w.obj /\ u.peers = w.peers /\ u.minted = w.minted
      /\ \A d \in 1..MaxConns : u.conn[d].o = w.conn[d].o /\ u.conn[d].q = w.conn[d].q
  <2>1. CASE x.beat = 0 BY <2>1, EvenSelf
  <2>2. CASE x.beat # 0
    <3>1. x.beat \in 1..MaxConns
      <4>1. x.beat \in 0..MaxConns BY <1>1 DEF PeerObj
      <4> QED BY <4>1, <2>2 DEF ConstantsOK
    <3>2. e \in End BY EndIs
    <3>3. u = SetConn(w, x.beat, SetBeat(w.conn[x.beat], e, FALSE)) BY <2>2
    <3> HIDE DEF u, e, x
    <3> QED BY <3>1, <3>2, <3>3, BeatOff, ZenonT(60)
  <2> QED BY <2>1, <2>2, ZenonT(60)
<1>3. y \in PeerObj /\ Object(y) /\ y.owner = x.owner /\ y.about = x.about
      /\ y.learned = x.learned /\ y.dynamic = x.dynamic
  <2>1. 0 \in 0..MaxConns BY DEF ConstantsOK
  <2> HIDE DEF x
  <2> QED BY <2>1, <1>1 DEF PeerObj, Object
<1>4. teardownPeer(w, o) = z
  <2>1. u = IF x.beat = 0 THEN w ELSE [w EXCEPT !.conn[x.beat].beat[EndOf(w, o, x.beat)] = FALSE]
    BY DEF SetConn, SetBeat
  <2>2. y = [u.obj[o] EXCEPT !.est = FALSE, !.ws = 0, !.beat = 0] BY <1>2, ZenonT(60)
  <2> HIDE DEF u, y
  <2>3. v = [u EXCEPT !.obj[o] = [@ EXCEPT !.est = FALSE, !.ws = 0, !.beat = 0]]
    BY <2>2 DEF SetObj
  <2> HIDE DEF v
  <2>4. z = IF x.dynamic THEN [v EXCEPT !.peers[x.owner][x.about] = 0] ELSE v BY DEF SetPeer
  <2> QED BY <2>1, <2>3, <2>4, ZenonT(60) DEF teardownPeer
<1> HIDE DEF u
<1>5. /\ Good(v, t) /\ Even(u, v) /\ v.conn = u.conn /\ v.peers = u.peers /\ v.minted = u.minted
      /\ \A d \in 1..MaxObjs : v.obj[d] = IF d = o THEN y ELSE u.obj[d]
  <2>1. u.obj[o] = x BY <1>2
  <2> HIDE DEF x, y
  <2> QED BY <1>2, <1>3, <2>1, ObjectChange
<1> HIDE DEF v, y
<1>6. Even(w, v) BY <1>2, <1>5, EvenEven
<1>7. v.obj[o].owner \in Relay BY <1>3, <1>5
<1>8. CASE x.dynamic
  <2>1. x.owner \in Relay /\ x.about \in Relay /\ <<x.owner, x.about>> \notin ToSet(sc.file)
    BY <1>1, <1>8 DEF Object
  <2>2. z = SetPeer(v, x.owner, x.about, 0) BY <1>8
  <2> HIDE DEF x, z
  <2>3. Good(z, t) /\ Tame(v, z) /\ z.conn = v.conn /\ z.obj = v.obj /\ z.minted = v.minted
    BY <2>1, <2>2, <1>5, Unmap
  <2>4. Tame(w, z) BY <1>6, <2>3, EvenThenTame
  <2>5. z.obj[o].owner \in Relay /\ z.minted = w.minted /\ z.conn = u.conn
    BY <1>7, <1>2, <1>5, <2>3
  <2> QED BY <1>2, <1>4, <2>3, <2>4, <2>5
<1>9. CASE ~x.dynamic
  <2>1. z = v BY <1>9
  <2> HIDE DEF z
  <2> QED BY <2>1, <1>2, <1>4, <1>5, <1>6, <1>7, EvenTame
<1> QED BY <1>8, <1>9

\* scheduleReconnect changes no map and no socket.
LEMMA ScheduleIs ==
    ASSUME ScOK, ConstantsOK, NEW w, NEW t, Good(w, t), NEW o \in 1..MaxObjs,
           w.obj[o].owner \in Relay
    PROVE  LET v == scheduleReconnect(w, o)
           IN  Good(v, t) /\ Even(w, v) /\ v.conn = w.conn /\ v.minted = w.minted
<1> DEFINE x == w.obj[o]
           y == [x EXCEPT !.timer = TRUE]
           v == scheduleReconnect(w, o)
<1>1. x \in PeerObj /\ Object(x) /\ x.owner # 0
  <2>1. w.obj \in [1..MaxObjs -> PeerObj] BY WorldParts
  <2> QED BY <2>1 DEF Good, ConstantsOK
<1>2. y \in PeerObj /\ Object(y) /\ y.owner = x.owner /\ y.about = x.about
      /\ y.learned = x.learned /\ y.dynamic = x.dynamic
  <2> HIDE DEF x
  <2> QED BY <1>1 DEF PeerObj, Object
<1>3. v = IF x.evicted \/ ~x.url THEN w ELSE SetObj(w, o, y)
  BY DEF scheduleReconnect, SetObj
<1> HIDE DEF v, y
<1>4. Good(SetObj(w, o, y), t) /\ Even(w, SetObj(w, o, y)) /\ SetObj(w, o, y).conn = w.conn
      /\ SetObj(w, o, y).minted = w.minted
  BY <1>1, <1>2, ObjectChange
<1> QED BY <1>3, <1>4, EvenSelf DEF v

-----------------------------------------------------------------------------
\* A socket or an object that is not in use is well typed and names nothing.
LEMMA Nothing ==
    ASSUME ConstantsOK, NEW m, NEW t
    PROVE  /\ NoConn \in Socket(m, t) /\ NoObj \in PeerObj /\ Object(NoObj)
           /\ \A ob : Ends(NoConn, ob)
           /\ NoConn.st["i"] = "gone" /\ NoConn.st["r"] = "gone" /\ NoObj.owner = 0
<1>1. 0 \in 0..MaxObjs /\ 0 \in 0..MaxConns /\ MAX_PENDING_FORWARDS \in Nat /\ 0 \notin Relay
  BY DEF ConstantsOK
<1>2. NoConn \in Socket(m, t)
  <2> DEFINE st == [e \in End |-> "gone"]
             ob == [e \in End |-> 0]
             beat == [e \in End |-> FALSE]
             q == [e \in End |-> <<>>]
  <2>1. st \in [End -> StI \cup StR] BY DEF StI
  <2>2. ob \in [End -> 0..MaxObjs] BY <1>1
  <2>3. beat \in [End -> BOOLEAN] OBVIOUS
  <2>4. q \in [End -> Seq(Wire(m, t))] OBVIOUS
  <2>5. NoConn = [from |-> 0, to |-> 0, cut |-> FALSE, sent |-> FALSE, bad |-> FALSE,
                  st |-> st, o |-> ob, beat |-> beat, q |-> q]
    BY DEF NoConn
  <2> HIDE DEF st, ob, beat, q
  <2> QED BY <2>1, <2>2, <2>3, <2>4, <2>5 DEF Socket
<1>3. /\ NoConn.st = [e \in End |-> "gone"] /\ NoConn.o = [e \in End |-> 0]
  BY DEF NoConn
<1>4. /\ NoConn.st["i"] = "gone" /\ NoConn.st["r"] = "gone"
      /\ NoConn.o["i"] = 0 /\ NoConn.o["r"] = 0
  BY <1>3 DEF End
<1>5. \A ob : Ends(NoConn, ob)
  BY <1>4 DEF Ends, StI, StR, End
<1>6. NoObj \in PeerObj /\ Object(NoObj) /\ NoObj.owner = 0
  <2>1. <<>> \in Seq(Queued) /\ Len(<<>>) = 0 OBVIOUS
  <2> QED BY <1>1, <2>1 DEF NoObj, PeerObj, Object
<1> QED BY <1>2, <1>4, <1>5, <1>6

\* What nothing refers to can be used again.
LEMMA SweptIs ==
    ASSUME ScOK, ConstantsOK, NEW w, NEW t, Good(w, t)
    PROVE  Good(Swept(w), t) /\ Even(w, Swept(w))
<1> DEFINE C == [c \in 1..MaxConns |->
                    IF w.conn[c].st["i"] = "gone" /\ w.conn[c].st["r"] \in {"gone", "none"}
                    THEN NoConn ELSE w.conn[c]]
           u == [w EXCEPT !.conn = C]
           Garbage(o) ==
               /\ w.obj[o] # NoObj /\ ~w.obj[o].timer
               /\ w.peers[w.obj[o].owner][w.obj[o].about] # o
               /\ \A c \in 1..MaxConns, e \in End : u.conn[c].o[e] # o
           dead == {o \in 1..MaxObjs : Garbage(o)}
           O == [o \in 1..MaxObjs |-> IF o \in dead THEN NoObj ELSE w.obj[o]]
           L == w.lost \cup UNION {Packets(w.obj[o].pending) : o \in dead}
           v == Swept(w)
<1>1. /\ w.conn \in [1..MaxConns -> Socket(w.minted, t)]
      /\ w.obj \in [1..MaxObjs -> PeerObj]
      /\ w.peers \in PeerMap
      /\ w.cache \in [Relay -> SUBSET (1..w.minted)]
      /\ w.minted \in Nat /\ w.lost \in SUBSET Nat
      /\ w \in World(w.minted, t)
  BY WorldParts
<1>2. v = [u EXCEPT !.obj = O, !.lost = L]
  <2>1. u.lost = w.lost BY <1>1 DEF World
  <2>2. v = [u EXCEPT !.obj = O, !.lost = @ \cup UNION {Packets(w.obj[o].pending) : o \in dead}]
    BY DEF Swept
  <2> HIDE DEF u, O, dead
  <2> QED BY <2>1, <2>2
<1>3. u.conn = C
  <2> HIDE DEF C
  <2> QED BY <1>1 DEF World
<1>4. \A o \in dead : /\ w.peers[w.obj[o].owner][w.obj[o].about] # o
                      /\ \A c \in 1..MaxConns, e \in End : C[c].o[e] # o
  <2> HIDE DEF C, u
  <2> QED BY <1>3
<1>5. \A o \in dead : o \in 1..MaxObjs OBVIOUS
<1>6. L \in SUBSET Nat
  <2>1. ASSUME NEW o \in dead PROVE Packets(w.obj[o].pending) \subseteq Nat
    <3> DEFINE q == w.obj[o].pending
    <3>1. w.obj[o] \in PeerObj BY <1>1, <1>5
    <3>2. q \in Seq(Queued) BY <3>1 DEF PeerObj
    <3>3. q \in Seq(Wire(w.minted, t) \cup Queued) BY <3>2, SeqUnion
    <3> HIDE DEF q
    <3> QED BY <3>3, PacketsAreNat DEF q
  <2> HIDE DEF dead
  <2> QED BY <2>1, <1>1
<1> HIDE DEF dead, L
<1>7. /\ O \in [1..MaxObjs -> PeerObj]
      /\ \A o \in 1..MaxObjs : O[o] = IF o \in dead THEN NoObj ELSE w.obj[o]
  BY <1>1, Nothing
<1>8. /\ C \in [1..MaxConns -> Socket(w.minted, t)]
      /\ \A c \in 1..MaxConns : C[c] = NoConn \/ C[c] = w.conn[c]
  BY <1>1, Nothing
<1> HIDE DEF C, O
<1>9. /\ v.conn = C /\ v.lost = L /\ v.obj = O /\ v.peers = w.peers
      /\ v.cache = w.cache /\ v.minted = w.minted
      /\ v = [conn |-> v.conn, obj |-> v.obj, peers |-> v.peers, cache |-> v.cache,
                minted |-> v.minted, lost |-> v.lost]
  BY <1>1, <1>2 DEF World
<1> HIDE DEF v, u
<1>10. Typed(v, t)
  BY <1>1, <1>6, <1>7, <1>8, <1>9, TypedWhole DEF Good
<1>11. ASSUME NEW c \in 1..MaxConns PROVE Ends(C[c], O)
  <2>1. CASE C[c] = NoConn BY <2>1, Nothing
  <2>2. CASE C[c] = w.conn[c]
    <3>1. Ends(w.conn[c], w.obj) BY DEF Good
    <3>2. \A e \in End : C[c].o[e] # 0 => C[c].o[e] \in 1..MaxObjs BY <2>2, ObjectsNamed
    <3>3. \A e \in End : C[c].o[e] # 0 => O[C[c].o[e]] = w.obj[C[c].o[e]]
      BY <3>2, <1>4, <1>7
    <3>4. /\ C[c].o["i"] # 0 => O[C[c].o["i"]] = w.obj[C[c].o["i"]]
          /\ C[c].o["r"] # 0 => O[C[c].o["r"]] = w.obj[C[c].o["r"]]
      BY <3>3 DEF End
    <3> QED BY <2>2, <3>1, <3>4 DEF Ends
  <2> QED BY <2>1, <2>2, <1>8
<1>12. ASSUME NEW o \in 1..MaxObjs PROVE Object(O[o])
  BY <1>7, Nothing DEF Good
<1>13. ASSUME NEW r \in Relay, NEW p \in Relay, w.peers[r][p] # 0
       PROVE  O[w.peers[r][p]] = w.obj[w.peers[r][p]]
  <2>1. w.peers[r][p] \in 1..MaxObjs BY <1>13, ObjectsNamed
  <2>2. w.obj[w.peers[r][p]].owner = r /\ w.obj[w.peers[r][p]].about = p
    BY <1>13 DEF Good, Mapped
  <2> QED BY <2>1, <2>2, <1>4, <1>7
<1>14. Mapped(w.peers, O)
  <2>1. Mapped(w.peers, w.obj) BY DEF Good
  <2>2. ASSUME NEW i \in DOMAIN sc.file
        PROVE  w.peers[sc.file[i][1]][sc.file[i][2]] = i /\ ~O[i].learned /\ ~O[i].dynamic
    <3>1. i \in 1..MaxObjs /\ sc.file[i] \in Relay \X Relay BY ObjectsNamed
    <3>2. w.peers[sc.file[i][1]][sc.file[i][2]] = i /\ i # 0 BY <2>1, <3>1 DEF Mapped
    <3>3. sc.file[i][1] \in Relay /\ sc.file[i][2] \in Relay BY <3>1
    <3>4. O[i] = w.obj[i] BY <3>2, <3>3, <1>13
    <3> QED BY <3>2, <3>4, <2>1 DEF Mapped
  <2> QED BY <2>1, <2>2, <1>13 DEF Mapped
<1>15. Good(v, t) BY <1>9, <1>10, <1>11, <1>12, <1>14 DEF Good
<1>16. Even(w, v)
  <2>1. ASSUME NEW c \in 1..MaxConns, C[c].st["r"] = "accepted" PROVE C[c] = w.conn[c]
    BY <2>1, <1>8, Nothing
  <2> QED BY <2>1, <1>9, <1>13 DEF Even
<1> QED BY <1>15, <1>16 DEF v

\* The end of a socket changes no map, and accepts nobody.
LEMMA FinishIs ==
    ASSUME ScOK, ConstantsOK, NEW w, NEW t, Good(w, t), NEW c \in 1..MaxConns, NEW e \in End
    PROVE  Good(Finish(w, c, e), t) /\ Even(w, Finish(w, c, e))
<1> DEFINE k == w.conn[c]
           b == FALSE
           k1 == SetState(k, e, "gone")
           k2 == SetObject(k1, e, 0)
           k3 == SetBeat(k2, e, b)
           z == <<>>
           k4 == SetQueue(k3, e, z)
           u == SetConn(w, c, k4)
           s == LoseAll(u, k.q[e])
<1>1. /\ k \in Socket(w.minted, t) /\ Ends(k, w.obj) /\ k.q[e] \in Seq(Wire(w.minted, t))
  BY SocketOf
<1>2. Finish(w, c, e) = Swept(s)
  <2>1. k4 = [k EXCEPT !.st[e] = "gone", !.o[e] = 0, !.beat[e] = FALSE, !.q[e] = <<>>]
    BY DEF SetState, SetObject, SetBeat, SetQueue
  <2> HIDE DEF k4
  <2>2. u = [w EXCEPT !.conn[c] = [@ EXCEPT !.st[e] = "gone", !.o[e] = 0, !.beat[e] = FALSE,
                                             !.q[e] = <<>>]]
    BY <2>1 DEF SetConn
  <2> HIDE DEF u
  <2> QED BY <2>2 DEF Finish
<1>3. /\ k4 \in Socket(w.minted, t) /\ k4.from = k.from /\ k4.to = k.to
      /\ \A d \in End : k4.st[d] = IF d = e THEN "gone" ELSE k.st[d]
      /\ \A d \in End : k4.o[d] = IF d = e THEN 0 ELSE k.o[d]
  <2>1. "gone" \in StI \cup StR /\ 0 \in 0..MaxObjs
    BY DEF StI, ConstantsOK
  <2>2. b \in BOOLEAN OBVIOUS
  <2>3. z \in Seq(Wire(w.minted, t)) OBVIOUS
  <2> HIDE DEF k, b, z
  <2>4. /\ k1 \in Socket(w.minted, t) /\ \A d \in End : k1.st[d] = IF d = e THEN "gone" ELSE k.st[d]
        /\ k1.o = k.o /\ k1.from = k.from /\ k1.to = k.to
    BY <1>1, <2>1, StateSetIs
  <2> HIDE DEF k1
  <2>5. /\ k2 \in Socket(w.minted, t) /\ k2.st = k1.st
        /\ \A d \in End : k2.o[d] = IF d = e THEN 0 ELSE k1.o[d]
        /\ k2.from = k1.from /\ k2.to = k1.to
    BY <2>1, <2>4, ObjectSetIs
  <2> HIDE DEF k2
  <2>7. /\ k3 \in Socket(w.minted, t) /\ k3.st = k2.st
        /\ k3.o = k2.o /\ k3.from = k2.from /\ k3.to = k2.to
    BY <2>2, <2>5, BeatSetIs
  <2> HIDE DEF k3
  <2>8. /\ k4 \in Socket(w.minted, t) /\ k4.st = k3.st
        /\ k4.o = k3.o /\ k4.from = k3.from /\ k4.to = k3.to
    BY <2>3, <2>7, QueueSetIs
  <2> QED BY <2>4, <2>5, <2>7, <2>8
<1> HIDE DEF k4
<1>4. Ends(k4, w.obj) /\ Stays(k, k4)
  <2>1. /\ k4.st["i"] = IF e = "i" THEN "gone" ELSE k.st["i"]
        /\ k4.st["r"] = IF e = "r" THEN "gone" ELSE k.st["r"]
        /\ k4.o["i"] = IF e = "i" THEN 0 ELSE k.o["i"]
        /\ k4.o["r"] = IF e = "r" THEN 0 ELSE k.o["r"]
    <3> HIDE DEF k
    <3> QED BY <1>3 DEF End
  <2> HIDE DEF k
  <2>2. Ends(k4, w.obj) BY <1>1, <1>3, <2>1 DEF Ends, StI, StR, End
  <2>3. Stays(k, k4) BY <1>3, <2>1 DEF Stays
  <2> QED BY <2>2, <2>3
<1>5. Good(u, t) /\ Even(w, u) /\ u.minted = w.minted
  BY <1>3, <1>4, SocketChange
<1> HIDE DEF u
<1>6. Typed(s, t) /\ Alike(u, s)
  <2>1. k.q[e] \in Seq(Wire(u.minted, t) \cup Queued) BY <1>1, <1>5, SeqUnion
  <2> HIDE DEF k
  <2> QED BY <2>1, <1>5, LosesFrames
<1> HIDE DEF s
<1>7. Good(s, t) /\ Even(u, s) BY <1>5, <1>6, AlikeGood
<1>8. Good(Swept(s), t) /\ Even(s, Swept(s)) BY <1>7, SweptIs
<1> QED BY <1>2, <1>5, <1>7, <1>8, EvenEven

\* The close event takes a relay out of the map at most, and nobody in.
LEMMA ClosedIs ==
    ASSUME ScOK, ConstantsOK, NEW w, NEW t, Good(w, t), NEW c \in 1..MaxConns, NEW e \in End
    PROVE  Good(Closed(w, c, e), t) /\ Tame(w, Closed(w, c, e))
<1> DEFINE o == w.conn[c].o[e]
           u == IF o = 0 THEN w ELSE scheduleReconnect(teardownPeer(w, o), o)
<1>1. Closed(w, c, e) = Finish(u, c, e) BY DEF Closed
<1>2. Good(u, t) /\ Tame(w, u)
  <2>1. CASE o = 0 BY <2>1, EvenSelf, EvenTame
  <2>2. CASE o # 0
    <3>1. o \in 1..MaxObjs BY <2>2, ObjectsNamed
    <3>2. w.obj[o].owner \in Relay
      <4>1. Ends(w.conn[c], w.obj) BY DEF Good
      <4>2. e = "i" \/ e = "r" BY DEF End
      <4> QED BY <4>1, <4>2, <2>2 DEF Ends
    <3> DEFINE v == teardownPeer(w, o)
    <3> HIDE DEF o
    <3>3. Good(v, t) /\ Tame(w, v) /\ v.obj[o].owner \in Relay BY <3>1, <3>2, TeardownIs
    <3> HIDE DEF v
    <3>4. Good(scheduleReconnect(v, o), t) /\ Even(v, scheduleReconnect(v, o))
      BY <3>1, <3>3, ScheduleIs
    <3>5. u = scheduleReconnect(v, o) BY <2>2 DEF v
    <3> HIDE DEF u
    <3> QED BY <3>3, <3>4, <3>5, TameThenEven
  <2> QED BY <2>1, <2>2
<1> HIDE DEF u
<1>3. Good(Finish(u, c, e), t) /\ Even(u, Finish(u, c, e)) BY <1>2, FinishIs
<1> QED BY <1>1, <1>2, <1>3, TameThenEven

-----------------------------------------------------------------------------
\* A peer comes into the map if it is learned, or if it was accepted before.
LEMMA MapIs ==
    ASSUME ScOK, ConstantsOK, NEW w, NEW t, Good(w, t), NEW r \in Relay, NEW p \in Relay,
           w.peers[r][p] = 0, NEW o \in 1..MaxObjs, w.obj[o].owner = r, w.obj[o].about = p,
           w.obj[o].learned \/ Accepted(w, r, p)
    PROVE  LET v == SetPeer(w, r, p, o)
           IN  /\ Good(v, t) /\ Tame(w, v) /\ v.conn = w.conn /\ v.obj = w.obj
               /\ v.minted = w.minted /\ v.peers[r][p] = o
<1> DEFINE v == SetPeer(w, r, p, o)
<1>1. /\ w.conn \in [1..MaxConns -> Socket(w.minted, t)]
      /\ w.obj \in [1..MaxObjs -> PeerObj]
      /\ w.peers \in PeerMap
      /\ w.cache \in [Relay -> SUBSET (1..w.minted)]
      /\ w.minted \in Nat /\ w.lost \in SUBSET Nat
      /\ w \in World(w.minted, t)
  BY WorldParts
<1> DEFINE ps == [w.peers EXCEPT ![r] = [w.peers[r] EXCEPT ![p] = o]]
<1>2. ps \in PeerMap
  <2>1. o \in 0..MaxObjs BY DEF ConstantsOK
  <2>2. [w.peers[r] EXCEPT ![p] = o] \in [Relay -> 0..MaxObjs] BY <1>1, <2>1 DEF PeerMap
  <2> QED BY <1>1, <2>2 DEF PeerMap
<1>3. /\ \A a, b \in Relay : ps[a][b] = IF a = r /\ b = p THEN o ELSE w.peers[a][b]
  BY <1>1 DEF PeerMap
<1> HIDE DEF ps
<1>4. v = [w EXCEPT !.peers = ps] BY DEF ps, SetPeer
<1> HIDE DEF v
<1>5. /\ v.obj = w.obj /\ v.lost = w.lost /\ v.conn = w.conn
      /\ v.peers = ps /\ v.cache = w.cache /\ v.minted = w.minted
      /\ v = [conn |-> v.conn, obj |-> v.obj, peers |-> v.peers, cache |-> v.cache,
                minted |-> v.minted, lost |-> v.lost]
  BY <1>1, <1>4 DEF World
<1>6. Typed(v, t) BY <1>1, <1>2, <1>5, TypedWhole DEF Good
<1>7. Mapped(v.peers, v.obj)
  <2>1. Mapped(w.peers, w.obj) BY DEF Good
  <2>2. ASSUME NEW a \in Relay, NEW b \in Relay, ps[a][b] # 0
        PROVE  w.obj[ps[a][b]].owner = a /\ w.obj[ps[a][b]].about = b
    BY <2>1, <2>2, <1>3 DEF Mapped
  <2>3. ASSUME NEW i \in DOMAIN sc.file
        PROVE  ps[sc.file[i][1]][sc.file[i][2]] = i /\ ~w.obj[i].learned /\ ~w.obj[i].dynamic
    <3>1. sc.file[i] \in Relay \X Relay /\ i \in 1..MaxObjs BY ObjectsNamed
    <3>2. w.peers[sc.file[i][1]][sc.file[i][2]] = i BY <2>1 DEF Mapped
    <3>3. ~(sc.file[i][1] = r /\ sc.file[i][2] = p) BY <3>1, <3>2
    <3>4. ps[sc.file[i][1]][sc.file[i][2]] = w.peers[sc.file[i][1]][sc.file[i][2]]
      BY <3>1, <3>3, <1>3
    <3> QED BY <3>4, <2>1, ZenonT(60) DEF Mapped
  <2> QED
    <3>1. Mapped(ps, w.obj) BY <2>2, <2>3, Zenon DEF Mapped
    <3>2. v.peers = ps /\ v.obj = w.obj BY <1>5
    <3> QED BY <3>1, <3>2
<1>8. Good(v, t) BY <1>5, <1>6, <1>7 DEF Good
<1>9. Tame(w, v)
  <2> SUFFICES ASSUME NEW a \in Relay
               PROVE  /\ Kept(v, a) \subseteq Kept(w, a) \cup Coming(w, a)
                      /\ \A b \in Coming(v, a) : b \in Coming(w, a) \/ w.peers[a][b] # 0
    BY <1>5 DEF Tame
  <2>1. Kept(v, a) \subseteq Kept(w, a) \cup Coming(w, a) BY <1>3, <1>5 DEF Kept, Coming
  <2>2. \A b \in Relay : Accepted(v, a, b) <=> Accepted(w, a, b) BY <1>5 DEF Accepted
  <2>3. \A b \in Coming(v, a) : b \in Coming(w, a)
    <3> SUFFICES ASSUME NEW b \in Coming(v, a) PROVE b \in Coming(w, a) OBVIOUS
    <3>1. b \in Relay /\ ps[a][b] = 0 /\ Accepted(w, a, b) BY <2>2, <1>5 DEF Coming
    <3>2. w.peers[a][b] = 0 BY <3>1, <1>3
    <3> QED BY <3>1, <3>2 DEF Coming
  <2> QED BY <2>1, <2>3
<1>10. v.peers[r][p] = o BY <1>3, <1>5
<1> QED BY <1>5, <1>8, <1>9, <1>10 DEF v

\* The two kinds of objects a relay makes for a peer: dialled on demand, or let in.
OnDemand(r, p) == newPeerState(r, p, TRUE, FALSE, TRUE)
LetIn(r, p) == newPeerState(r, p, FALSE, TRUE, FALSE)

\* The objects of a dial on demand and of an admission.
LEMMA NewPeerStateIs ==
    ASSUME ConstantsOK, NEW r \in Relay, NEW p \in Relay
    PROVE  \A x \in {OnDemand(r, p), LetIn(r, p)} :
               /\ x \in PeerObj /\ x.owner = r /\ x.about = p /\ x.beat = 0
               /\ x.pending = <<>> /\ ~x.timer
               /\ x = OnDemand(r, p) => x.learned
<1> DEFINE z == <<>>
<1>1. 0 \in 0..MaxConns /\ z \in Seq(Queued) BY DEF ConstantsOK
<1>2. NoObj = [owner |-> 0, about |-> 0, url |-> FALSE, dynamic |-> FALSE, learned |-> FALSE,
               evicted |-> FALSE, ws |-> 0, est |-> FALSE, timer |-> FALSE, beat |-> 0,
               pending |-> z]
  BY DEF NoObj
<1>3. z = <<>> OBVIOUS
<1> HIDE DEF z
<1> DEFINE x == OnDemand(r, p)
           y == LetIn(r, p)
<1>4. /\ x = [owner |-> r, about |-> p, url |-> TRUE, dynamic |-> FALSE, learned |-> TRUE,
              evicted |-> FALSE, ws |-> 0, est |-> FALSE, timer |-> FALSE, beat |-> 0, pending |-> z]
      /\ y = [owner |-> r, about |-> p, url |-> FALSE, dynamic |-> TRUE, learned |-> FALSE,
              evicted |-> FALSE, ws |-> 0, est |-> FALSE, timer |-> FALSE, beat |-> 0, pending |-> z]
  <2>1. /\ x = [NoObj EXCEPT !.owner = r, !.about = p, !.url = TRUE, !.dynamic = FALSE,
                             !.learned = TRUE]
        /\ y = [NoObj EXCEPT !.owner = r, !.about = p, !.url = FALSE, !.dynamic = TRUE,
                             !.learned = FALSE]
    BY Zenon DEF OnDemand, LetIn, newPeerState
  <2> HIDE DEF x, y
  <2> QED BY <2>1, <1>2
<1> HIDE DEF x, y
<1>5. /\ x \in PeerObj /\ x.owner = r /\ x.about = p /\ x.beat = 0
      /\ x.pending = z /\ ~x.timer /\ x.learned
  BY <1>1, <1>4 DEF PeerObj
<1>6. /\ y \in PeerObj /\ y.owner = r /\ y.about = p /\ y.beat = 0
      /\ y.pending = z /\ ~y.timer /\ ~y.learned
  BY <1>1, <1>4 DEF PeerObj
<1> QED BY <1>3, <1>5, <1>6 DEF x, y

\* A peer that is new in the map.
LEMMA NewPeerIs ==
    ASSUME ScOK, ConstantsOK, NEW w, NEW t, Good(w, t), NEW r \in Relay, NEW p \in Relay,
           w.peers[r][p] = 0, NEW o \in FreeObjs(w), NEW x \in {OnDemand(r, p), LetIn(r, p)},
           x = OnDemand(r, p) \/ Accepted(w, r, p)
    PROVE  LET v == SetPeer(SetObj(w, o, x), r, p, o)
           IN  /\ Good(v, t) /\ Tame(w, v) /\ v.conn = w.conn /\ v.minted = w.minted
               /\ v.peers[r][p] = o /\ v.obj[o].owner = r /\ v.obj[o].about = p
<1> DEFINE u == SetObj(w, o, x)
           v == SetPeer(u, r, p, o)
<1>1. o \in 1..MaxObjs /\ w.obj[o].owner = 0 BY Nothing DEF FreeObjs
<1>2. x \in PeerObj /\ x.owner = r /\ x.about = p /\ x.beat = 0 /\ x.pending = <<>> /\ ~x.timer
      /\ (x = OnDemand(r, p) => x.learned)
  BY NewPeerStateIs
<1>3. Object(x)
  <2>1. <<r, p>> \notin ToSet(sc.file)
    <3> SUFFICES ASSUME NEW i \in DOMAIN sc.file, sc.file[i] = <<r, p>> PROVE FALSE BY DEF ToSet
    <3>1. i \in 1..MaxObjs BY ObjectsNamed
    <3>2. w.peers[sc.file[i][1]][sc.file[i][2]] = i BY DEF Good, Mapped
    <3> QED BY <3>1, <3>2
  <2>2. Len(x.pending) = 0 /\ MAX_PENDING_FORWARDS \in Nat BY <1>2 DEF ConstantsOK
  <2> QED BY <2>1, <2>2, <1>2 DEF Object
<1>4. /\ Good(u, t) /\ Even(w, u)
      /\ \A d \in 1..MaxObjs : u.obj[d] = IF d = o THEN x ELSE w.obj[d]
      /\ u.conn = w.conn /\ u.peers = w.peers /\ u.minted = w.minted
  BY <1>1, <1>2, <1>3, ObjectChange
<1>5. u.obj[o] = x /\ u.obj[o].owner = r /\ u.obj[o].about = p BY <1>1, <1>2, <1>4
<1>6. u.obj[o].learned \/ Accepted(u, r, p) BY <1>2, <1>4, <1>5 DEF Accepted
<1> HIDE DEF u
<1>7. /\ Good(v, t) /\ Tame(u, v) /\ v.conn = u.conn /\ v.obj = u.obj
      /\ v.minted = u.minted /\ v.peers[r][p] = o
  BY <1>1, <1>4, <1>5, <1>6, MapIs
<1> HIDE DEF v
<1>8. Tame(w, v) BY <1>4, <1>7, EvenThenTame
<1> QED BY <1>4, <1>5, <1>7, <1>8 DEF v, u

-----------------------------------------------------------------------------
\* A queue with one entry more is cut to its cap.
LEMMA TrimmedIs ==
    ASSUME MAX_PENDING_FORWARDS \in Nat, NEW S, NEW q \in Seq(S), NEW x \in S,
           Len(q) <= MAX_PENDING_FORWARDS
    PROVE  LET a == Append(q, x)
           IN  /\ a \in Seq(S) /\ Trimmed(a) \in Seq(S)
               /\ Len(Trimmed(a)) <= MAX_PENDING_FORWARDS
<1> DEFINE a == Append(q, x)
<1>1. a \in Seq(S) /\ Len(a) = Len(q) + 1 OBVIOUS
<1>2. Tail(a) \in Seq(S) /\ Len(Tail(a)) = Len(a) - 1
  <2>1. Len(q) \in Nat OBVIOUS
  <2>2. Len(a) > 0 BY <2>1, <1>1
  <2>3. a # <<>>
    <3> HIDE DEF a
    <3> QED BY <2>2
  <2> HIDE DEF a
  <2> QED BY <1>1, <2>3
<1> HIDE DEF a
<1>3. Trimmed(a) \in Seq(S) /\ Len(Trimmed(a)) <= MAX_PENDING_FORWARDS
  <2>1. Len(q) \in Nat OBVIOUS
  <2> QED BY <2>1, <1>1, <1>2 DEF Trimmed
<1> QED BY <1>1, <1>3 DEF a

\* queueAndDial lets a peer into the map that does not count: it is learned.
LEMMA QueueAndDialIs ==
    ASSUME ScOK, ConstantsOK, NEW w, NEW t, Good(w, t), NEW r \in Relay, NEW p \in Relay,
           FreeConns(w) # {}, FreeObjs(w) # {}, NEW entry \in Queued
    PROVE  Good(queueAndDial(w, r, p, entry), t) /\ Tame(w, queueAndDial(w, r, p, entry))
<1> DEFINE known == w.peers[r][p] # 0
           o == IF known THEN w.peers[r][p] ELSE CHOOSE o \in FreeObjs(w) : TRUE
           yes == TRUE
           a == [w.obj[o] EXCEPT !.url = yes]
           n == OnDemand(r, p)
           u == IF known THEN SetObj(w, o, a) ELSE SetPeer(SetObj(w, o, n), r, p, o)
           q == Append(u.obj[o].pending, entry)
           b == [u.obj[o] EXCEPT !.pending = Trimmed(q)]
           v == SetObj(u, o, b)
           l == Packets(q) \ Packets(Trimmed(q))
           x == [v EXCEPT !.lost = v.lost \cup l]
           y == IF x.obj[o].ws = 0 /\ ~x.obj[o].timer THEN dial(x, o) ELSE x
<1>1. o \in 1..MaxObjs
  <2>1. CASE known BY <2>1, ObjectsNamed
  <2>2. CASE ~known
    <3>1. o \in FreeObjs(w) BY <2>2
    <3> QED BY <3>1 DEF FreeObjs
  <2> QED BY <2>1, <2>2
<1>2. /\ Good(u, t) /\ Tame(w, u) /\ u.conn = w.conn /\ u.obj[o].owner = r
      /\ u.minted = w.minted
  <2>1. CASE known
    <3>1. w.obj[o] \in PeerObj /\ Object(w.obj[o])
      <4>1. w.obj \in [1..MaxObjs -> PeerObj] BY WorldParts
      <4> HIDE DEF o
      <4> QED BY <4>1, <1>1 DEF Good
    <3>2. w.obj[o].owner = r /\ w.obj[o].about = p BY <2>1 DEF Good, Mapped
    <3>3. u = SetObj(w, o, a) BY <2>1
    <3> HIDE DEF u, o, known
    <3>4. a \in PeerObj /\ Object(a) /\ a.owner = w.obj[o].owner /\ a.about = w.obj[o].about
          /\ a.learned = w.obj[o].learned /\ a.dynamic = w.obj[o].dynamic
      BY <3>1 DEF PeerObj, Object
    <3> HIDE DEF a
    <3>5. /\ Good(u, t) /\ Even(w, u) /\ u.conn = w.conn /\ u.minted = w.minted
          /\ \A d \in 1..MaxObjs : u.obj[d] = IF d = o THEN a ELSE w.obj[d]
      BY <1>1, <3>3, <3>4, ObjectChange
    <3> QED BY <1>1, <3>2, <3>4, <3>5, EvenTame
  <2>2. CASE ~known
    <3>1. o \in FreeObjs(w) /\ w.peers[r][p] = 0 BY <2>2
    <3>2. u = SetPeer(SetObj(w, o, n), r, p, o) BY <2>2
    <3>3. n = OnDemand(r, p) OBVIOUS
    <3> HIDE DEF u, o, known, n
    <3> QED BY <3>1, <3>2, <3>3, NewPeerIs
  <2> QED BY <2>1, <2>2, ZenonT(60)
<1>3. queueAndDial(w, r, p, entry) = y
  <2>1. a = [w.obj[o] EXCEPT !.url = TRUE] /\ n = newPeerState(r, p, TRUE, FALSE, TRUE)
    BY DEF OnDemand
  <2> HIDE DEF a, n
  <2>2. u = IF known THEN [w EXCEPT !.obj[o].url = TRUE]
            ELSE [w EXCEPT !.obj[o] = newPeerState(r, p, TRUE, FALSE, TRUE), !.peers[r][p] = o]
    BY <2>1 DEF SetObj, SetPeer
  <2> HIDE DEF u
  <2>3. x = [u EXCEPT !.obj[o].pending = Trimmed(q),
                      !.lost = @ \cup (Packets(q) \ Packets(Trimmed(q)))]
    <3>1. v.lost = u.lost
      <4>1. u \in World(w.minted, t) BY <1>2, WorldParts
      <4> HIDE DEF b
      <4> QED BY <4>1 DEF World, SetObj
    <3> HIDE DEF q
    <3>2. v = [u EXCEPT !.obj[o].pending = Trimmed(q)] BY DEF SetObj
    <3> HIDE DEF v
    <3>3. x = [v EXCEPT !.lost = u.lost \cup (Packets(q) \ Packets(Trimmed(q)))] BY <3>1
    <3> QED BY <3>2, <3>3
  <2> HIDE DEF x
  <2> QED BY <2>2, <2>3 DEF queueAndDial
<1> HIDE DEF u, o
<1>4. u.obj[o] \in PeerObj /\ Object(u.obj[o]) /\ u.obj[o].owner # 0
  <2>1. u.obj \in [1..MaxObjs -> PeerObj] BY <1>2, WorldParts
  <2>2. r # 0 BY DEF ConstantsOK
  <2> QED BY <1>1, <1>2, <2>1, <2>2 DEF Good
<1>5. /\ q \in Seq(Queued) /\ Trimmed(q) \in Seq(Queued)
      /\ Len(Trimmed(q)) <= MAX_PENDING_FORWARDS
  <2>1. u.obj[o].pending \in Seq(Queued) /\ Len(u.obj[o].pending) <= MAX_PENDING_FORWARDS
    BY <1>4 DEF PeerObj, Object
  <2> QED BY <2>1, TrimmedIs DEF ConstantsOK
<1> HIDE DEF q
<1>6. b \in PeerObj /\ Object(b) /\ b.owner = u.obj[o].owner /\ b.about = u.obj[o].about
      /\ b.learned = u.obj[o].learned /\ b.dynamic = u.obj[o].dynamic
  <2> DEFINE k == u.obj[o]
             s == Trimmed(q)
  <2>1. k \in PeerObj /\ Object(k) /\ s \in Seq(Queued) /\ Len(s) <= MAX_PENDING_FORWARDS
    BY <1>4, <1>5
  <2>2. b = [k EXCEPT !.pending = s] OBVIOUS
  <2> HIDE DEF k, s, b
  <2>3. b \in PeerObj /\ Object(b) /\ b.owner = k.owner /\ b.about = k.about
        /\ b.learned = k.learned /\ b.dynamic = k.dynamic
    BY <2>1, <2>2 DEF PeerObj, Object
  <2> QED BY <2>3 DEF k
<1> HIDE DEF b
<1>7. /\ Good(v, t) /\ Even(u, v) /\ v.conn = u.conn /\ v.minted = u.minted
      /\ \A d \in 1..MaxObjs : v.obj[d] = IF d = o THEN b ELSE u.obj[d]
  BY <1>1, <1>2, <1>4, <1>6, ObjectChange
<1>8. v.obj[o].owner = r BY <1>1, <1>2, <1>6, <1>7
<1> HIDE DEF v
<1>9. l \in SUBSET Nat
  <2>1. q \in Seq(Wire(v.minted, t) \cup Queued) BY <1>5, SeqUnion
  <2> QED BY <2>1, PacketsAreNat
<1> HIDE DEF l
<1>10. Typed(x, t) /\ Alike(v, x) BY <1>7, <1>9, LoseIs
<1>11. x.conn = v.conn /\ x.obj = v.obj
  <2>1. v \in World(v.minted, t) BY <1>7, WorldParts
  <2> QED BY <2>1 DEF World
<1> HIDE DEF x
<1>12. Good(x, t) /\ Even(v, x) BY <1>7, <1>10, AlikeGood
<1>13. Good(y, t) /\ Even(x, y)
  <2>1. FreeConns(x) # {} BY <1>2, <1>7, <1>11 DEF FreeConns
  <2>2. x.obj[o].owner \in Relay BY <1>8, <1>11
  <2>3. Good(dial(x, o), t) /\ Even(x, dial(x, o)) BY <1>1, <1>12, <2>1, <2>2, DialIs
  <2> QED BY <2>3, <1>12, EvenSelf
<1> HIDE DEF y
<1> QED BY <1>2, <1>3, <1>7, <1>12, <1>13, TameThenEven

-----------------------------------------------------------------------------
\* There is room in a world for a dial on demand, if there may be one.
RoomIn(w) == sc.public # {} => FreeConns(w) # {} /\ FreeObjs(w) # {}

\* There is room for a dial on demand.
LEMMA DialableIs ==
    ASSUME NEW w, RoomIn(w), NEW r, NEW p, Dialable(r, p)
    PROVE  FreeConns(w) # {} /\ FreeObjs(w) # {}
  BY DEF RoomIn, Dialable

\* A linked peer has an object of its own with a socket.
LEMMA LinkedIs ==
    ASSUME ScOK, ConstantsOK, NEW w, NEW t, Good(w, t), NEW r \in Relay, NEW p \in Relay,
           Linked(w, r, p)
    PROVE  LET o == w.peers[r][p]
           IN  o \in 1..MaxObjs /\ w.obj[o].ws # 0 /\ w.obj[o].owner = r /\ w.obj[o].about = p
<1>1. w.peers[r][p] # 0 BY DEF Linked, Usable
<1>2. w.peers[r][p] \in 1..MaxObjs BY <1>1, ObjectsNamed
<1> QED BY <1>1, <1>2, ZenonT(60) DEF Linked, Usable, Good, Mapped

\* What is sent to a linked peer makes nobody count,
LEMMA SendToIs ==
    ASSUME ScOK, ConstantsOK, NEW w, NEW t \in Nat, Good(w, t), NEW r \in Relay, NEW p \in Relay,
           Linked(w, r, p)
    PROVE  /\ \A f \in Routed \cup Onion :
                Good(Send(w, w.peers[r][p], f), t) /\ Tame(w, Send(w, w.peers[r][p], f))
           /\ \A pk \in Nat :
                /\ Good(sendForwardFrame(w, w.peers[r][p], pk), t)
                /\ Tame(w, sendForwardFrame(w, w.peers[r][p], pk))
<1> DEFINE o == w.peers[r][p]
<1>1. o \in 1..MaxObjs /\ w.obj[o].ws # 0 /\ w.obj[o].owner \in Relay BY LinkedIs
<1> HIDE DEF o
<1>2. ASSUME NEW f \in Routed \cup Onion
      PROVE  Good(Send(w, o, f), t) /\ Tame(w, Send(w, o, f))
  <2>1. f \in Wire(w.minted, t) BY DEF Wire
  <2>2. Typed(Send(w, o, f), t) /\ Alike(w, Send(w, o, f)) BY <1>1, <2>1, SendIs
  <2> QED BY <2>2, AlikeGood, EvenTame
<1>3. ASSUME NEW pk \in Nat
      PROVE  Good(sendForwardFrame(w, o, pk), t) /\ Tame(w, sendForwardFrame(w, o, pk))
  <2>1. Typed(sendForwardFrame(w, o, pk), t) /\ Alike(w, sendForwardFrame(w, o, pk))
    BY <1>1, SendForwardFrameIs
  <2> QED BY <2>1, AlikeGood, EvenTame
<1> QED BY <1>2, <1>3 DEF o

\* ... nor does an onion, sent or queued,
LEMMA SendOnionToIs ==
    ASSUME ScOK, ConstantsOK, NEW w, NEW t \in Nat, Good(w, t), RoomIn(w), NEW r \in Relay,
           NEW path \in Seq(Relay) \ {<<>>}, NEW pk \in Nat
    PROVE  \A v \in sendOnionTo(w, r, path, pk) : Good(v, t) /\ Tame(w, v)
<1> DEFINE p == Head(path)
           f == [k |-> "onion", pk |-> pk, path |-> path]
<1>1. p \in Relay OBVIOUS
<1>2. f \in Onion BY DEF Onion
<1>3. f \in Queued BY <1>2 DEF Queued
<1> HIDE DEF f
<1>4. sendOnionTo(w, r, path, pk) =
        IF Linked(w, r, p) THEN {Send(w, w.peers[r][p], f)}
        ELSE IF Dialable(r, p) THEN {queueAndDial(w, r, p, f)} ELSE {}
  BY DEF sendOnionTo, f
<1> HIDE DEF p
<1>5. CASE Linked(w, r, p)
  <2>1. Good(Send(w, w.peers[r][p], f), t) /\ Tame(w, Send(w, w.peers[r][p], f))
    BY <1>1, <1>2, <1>5, SendToIs
  <2> QED BY <1>4, <1>5, <2>1
<1>6. CASE ~Linked(w, r, p) /\ Dialable(r, p)
  <2>1. FreeConns(w) # {} /\ FreeObjs(w) # {} BY <1>6, DialableIs
  <2>2. Good(queueAndDial(w, r, p, f), t) /\ Tame(w, queueAndDial(w, r, p, f))
    BY <1>1, <1>3, <2>1, QueueAndDialIs
  <2> QED BY <1>4, <1>6, <2>2
<1> QED BY <1>4, <1>5, <1>6

\* ... nor transit by way of an anchor,
LEMMA ViaAnchorIs ==
    ASSUME ScOK, ConstantsOK, NEW w, NEW t \in Nat, Good(w, t), RoomIn(w), NEW r \in Relay,
           NEW target \in Relay, NEW pk \in Nat, NEW n \in Nat
    PROVE  \A v \in ViaAnchor(w, r, target, pk, n) : Good(v, t) /\ Tame(w, v)
<1> DEFINE f == [k |-> "routed", pk |-> pk, to |-> target, n |-> n + 1]
<1>1. f \in Routed
  <2>1. n + 1 \in Nat OBVIOUS
  <2> QED BY <2>1 DEF Routed
<1>2. f \in Queued BY <1>1 DEF Queued
<1> HIDE DEF f
<1> SUFFICES ASSUME NEW v \in ViaAnchor(w, r, target, pk, n)
             PROVE  Good(v, t) /\ Tame(w, v)
  OBVIOUS
<1>3. \/ \E a \in via(target) : Linked(w, r, a) /\ v = Send(w, w.peers[r][a], f)
      \/ \E a \in via(target) : Dialable(r, a) /\ v = queueAndDial(w, r, a, f)
  BY DEF ViaAnchor, f
<1>4. ASSUME NEW a \in via(target), Linked(w, r, a), v = Send(w, w.peers[r][a], f)
      PROVE  Good(v, t) /\ Tame(w, v)
  <2>1. a \in Relay BY DEF via
  <2> QED BY <1>1, <1>4, <2>1, SendToIs
<1>5. ASSUME NEW a \in via(target), Dialable(r, a), v = queueAndDial(w, r, a, f)
      PROVE  Good(v, t) /\ Tame(w, v)
  <2>1. a \in Relay BY DEF via
  <2>2. FreeConns(w) # {} /\ FreeObjs(w) # {} BY <1>5, DialableIs
  <2> QED BY <1>2, <1>5, <2>1, <2>2, QueueAndDialIs
<1> QED BY <1>3, <1>4, <1>5

\* The chains of findBridge and the paths of selectOnionPath name relays.
LEMMA FunctionIsSeq ==
    ASSUME NEW S, NEW n \in Nat, NEW s \in [1..n -> S]
    PROVE  s \in Seq(S)
  OBVIOUS

\* An onion path is a sequence of at least one relay.
LEMMA SelectOnionPathIs ==
    ASSUME ConstantsOK, NEW w, NEW r \in Relay, NEW target \in Relay
    PROVE  selectOnionPath(w, r, target) \subseteq Seq(Relay) \ {<<>>}
<1> DEFINE anchors == {a \in via(target) \ {r} : book[r][a] # 0}
           direct  == {a \in anchors : canReachDirectly(w, r, a)}
           Hops(a) == {p \in Relay \ {r, target, a} : book[r][p] # 0 /\ canReachDirectly(w, r, p)}
           Picks(a) == {s \in UNION {[1..n -> Hops(a)] : n \in 0..onionHops} :
                           IsInjective(s) /\ (Len(s) = onionHops \/ Hops(a) \subseteq ToSet(s))}
<1>1. ASSUME NEW s \in Seq(Relay), NEW e \in Seq(Relay), e # <<>>
      PROVE  s \o e \in Seq(Relay) \ {<<>>}
  <2>1. s \o e \in Seq(Relay) /\ Len(s \o e) = Len(s) + Len(e) OBVIOUS
  <2>2. Len(e) # 0 /\ Len(e) \in Nat /\ Len(s) \in Nat BY <1>1
  <2> QED BY <2>1, <2>2
<1>2. ASSUME NEW a \in anchors PROVE a \in Relay BY DEF via
<1>3. ASSUME NEW a, NEW s \in Picks(a) PROVE s \in Seq(Relay)
  <2>1. PICK n \in 0..onionHops : s \in [1..n -> Hops(a)] OBVIOUS
  <2>2. n \in Nat BY <2>1 DEF ConstantsOK
  <2>3. s \in [1..n -> Relay] BY <2>1
  <2> QED BY <2>2, <2>3, FunctionIsSeq
<1>4. ASSUME NEW a, NEW s \in findBridge(w, r, a) PROVE s \in Seq(Relay)
  <2>1. PICK n \in 1..MAX_TRANSIT_HOPS :
            s \in [1..n -> {p \in Relay \ {r} : book[r][p] # 0}]
    BY DEF findBridge
  <2>2. n \in Nat BY <2>1 DEF ConstantsOK
  <2>3. s \in [1..n -> Relay] BY <2>1
  <2> QED BY <2>2, <2>3, FunctionIsSeq
<1>5. selectOnionPath(w, r, target) =
        IF direct # {}
        THEN UNION {{s \o <<a, target>> : s \in Picks(a)} : a \in direct}
        ELSE UNION {{s \o <<target>> : s \in findBridge(w, r, a)} : a \in anchors}
  BY DEF selectOnionPath
<1>6. ASSUME NEW a \in anchors PROVE <<a, target>> \in Seq(Relay) /\ <<a, target>> # <<>>
  BY <1>2
<1>7. <<target>> \in Seq(Relay) /\ <<target>> # <<>> OBVIOUS
<1>8. direct \subseteq anchors OBVIOUS
<1> HIDE DEF anchors, direct, Picks
<1>9. ASSUME NEW x \in selectOnionPath(w, r, target)
      PROVE  \/ \E a \in anchors, s \in Seq(Relay) : x = s \o <<a, target>>
             \/ \E s \in Seq(Relay) : x = s \o <<target>>
  <2>1. CASE direct # {}
    <3>0. x \in UNION {{s \o <<a, target>> : s \in Picks(a)} : a \in direct}
      BY <1>5, <2>1, Zenon
    <3>1. PICK a \in direct : x \in {s \o <<a, target>> : s \in Picks(a)} BY <3>0, Zenon
    <3>2. PICK s \in Picks(a) : x = s \o <<a, target>> BY <3>1
    <3>3. s \in Seq(Relay) /\ a \in anchors BY <1>3, <1>8
    <3> QED BY <3>2, <3>3
  <2>2. CASE direct = {}
    <3>0. x \in UNION {{s \o <<target>> : s \in findBridge(w, r, a)} : a \in anchors}
      BY <1>5, <2>2, Zenon
    <3>1. PICK a \in anchors : x \in {s \o <<target>> : s \in findBridge(w, r, a)} BY <3>0, Zenon
    <3>2. PICK s \in findBridge(w, r, a) : x = s \o <<target>> BY <3>1
    <3>3. s \in Seq(Relay) BY <1>4
    <3> QED BY <3>2, <3>3
  <2> QED BY <2>1, <2>2
<1>10. ASSUME NEW a \in anchors, NEW s \in Seq(Relay)
       PROVE  s \o <<a, target>> \in Seq(Relay) \ {<<>>}
  <2> DEFINE e == <<a, target>>
  <2>1. e \in Seq(Relay) /\ e # <<>> BY <1>6
  <2> HIDE DEF e
  <2>2. s \o e \in Seq(Relay) \ {<<>>} BY <2>1, <1>1
  <2> QED BY <2>2 DEF e
<1>11. ASSUME NEW s \in Seq(Relay)
       PROVE  s \o <<target>> \in Seq(Relay) \ {<<>>}
  <2> DEFINE e == <<target>>
  <2>1. e \in Seq(Relay) /\ e # <<>> BY <1>7
  <2> HIDE DEF e
  <2>2. s \o e \in Seq(Relay) \ {<<>>} BY <2>1, <1>1
  <2> QED BY <2>2 DEF e
<1> QED BY <1>9, <1>10, <1>11

\* ... nor any way that forwardToRelay takes.
LEMMA ForwardToRelayIs ==
    ASSUME ScOK, ConstantsOK, NEW w, NEW t \in Nat, Good(w, t), RoomIn(w), NEW r \in Relay,
           NEW target \in Relay, NEW pk \in Nat, NEW n \in Nat
    PROVE  \A v \in ForwardToRelay(w, r, target, pk, n) : Good(v, t) /\ Tame(w, v)
<1> DEFINE onions == IF r \in sc.onion
                     THEN UNION {sendOnionTo(w, r, s, pk) : s \in selectOnionPath(w, r, target)}
                     ELSE {}
           f == [k |-> "fwd", pk |-> pk, id |-> 0, n |-> n]
<1>1. f \in Queued BY DEF Queued
<1> HIDE DEF f
<1>2. \A v \in onions : Good(v, t) /\ Tame(w, v)
  <2>1. ASSUME NEW s \in selectOnionPath(w, r, target)
        PROVE  \A v \in sendOnionTo(w, r, s, pk) : Good(v, t) /\ Tame(w, v)
    <3>1. s \in Seq(Relay) \ {<<>>} BY SelectOnionPathIs
    <3> QED BY <3>1, SendOnionToIs
  <2> QED BY <2>1
<1> HIDE DEF onions
<1>3. ForwardToRelay(w, r, target, pk, n) =
        IF target = r THEN {}
        ELSE IF Linked(w, r, target) THEN {sendForwardFrame(w, w.peers[r][target], pk)}
        ELSE IF n >= MAX_TRANSIT_HOPS \/ book[r][target] = 0 THEN {}
        ELSE IF Dialable(r, target) THEN {queueAndDial(w, r, target, f)}
        ELSE IF onions # {} THEN onions ELSE ViaAnchor(w, r, target, pk, n)
  BY DEF ForwardToRelay, f, onions
<1>4. ASSUME Linked(w, r, target)
      PROVE  /\ Good(sendForwardFrame(w, w.peers[r][target], pk), t)
             /\ Tame(w, sendForwardFrame(w, w.peers[r][target], pk))
  BY <1>4, SendToIs
<1>5. ASSUME Dialable(r, target)
      PROVE  Good(queueAndDial(w, r, target, f), t) /\ Tame(w, queueAndDial(w, r, target, f))
  <2>1. FreeConns(w) # {} /\ FreeObjs(w) # {} BY <1>5, DialableIs
  <2> QED BY <1>1, <2>1, QueueAndDialIs
<1>6. \A v \in ViaAnchor(w, r, target, pk, n) : Good(v, t) /\ Tame(w, v) BY ViaAnchorIs
<1> SUFFICES ASSUME NEW v \in ForwardToRelay(w, r, target, pk, n) PROVE Good(v, t) /\ Tame(w, v)
  OBVIOUS
<1>7. \/ Linked(w, r, target) /\ v = sendForwardFrame(w, w.peers[r][target], pk)
      \/ Dialable(r, target) /\ v = queueAndDial(w, r, target, f)
      \/ v \in onions \/ v \in ViaAnchor(w, r, target, pk, n)
  BY <1>3, Zenon
<1> QED BY <1>2, <1>4, <1>5, <1>6, <1>7, Zenon

-----------------------------------------------------------------------------
\* The responder admits who was accepted.
LEMMA AdmittedIs ==
    ASSUME ScOK, ConstantsOK, now \in Nat, book \in Books, NEW w, Good(w, now),
           NEW c \in 1..MaxConns, w.conn[c].st["r"] = "accepted",
           FreeObjs(w) # {} \/ w.peers[w.conn[c].to][w.conn[c].from] # 0
    PROVE  Good(Admitted(w, c), now) /\ Tame(w, Admitted(w, c))
<1> DEFINE r == w.conn[c].to
           p == w.conn[c].from
           known == w.peers[r][p] # 0
           o == IF known THEN w.peers[r][p] ELSE CHOOSE o \in FreeObjs(w) : TRUE
           u == IF known THEN w ELSE SetPeer(SetObj(w, o, LetIn(r, p)), r, p, o)
           old == u.obj[o].ws
           e == EndOf(u, o, old)
           v == IF old \notin {0, c} THEN Close(u, old, e) ELSE u
<1>1. r \in Relay /\ p \in Relay
  <2>1. Ends(w.conn[c], w.obj) BY DEF Good
  <2> QED BY <2>1 DEF Ends
<1>2. o \in 1..MaxObjs
  <2>1. CASE known BY <1>1, <2>1, ObjectsNamed
  <2>2. CASE ~known
    <3>1. o \in FreeObjs(w) BY <2>2
    <3> QED BY <3>1 DEF FreeObjs
  <2> QED BY <2>1, <2>2
<1>3. /\ Good(u, now) /\ Tame(w, u) /\ u.conn = w.conn
      /\ u.obj[o].owner = r /\ u.obj[o].about = p
  <2>1. CASE known
    <3>1. w.obj[o].owner = r /\ w.obj[o].about = p
      <4>1. o = w.peers[r][p] /\ w.peers[r][p] # 0 BY <2>1
      <4> HIDE DEF o, r, p, known
      <4> QED BY <4>1, <1>1 DEF Good, Mapped
    <3>2. u = w BY <2>1
    <3> HIDE DEF u, o
    <3> QED BY <3>1, <3>2, EvenSelf, EvenTame
  <2>2. CASE ~known
    <3> DEFINE n == LetIn(r, p)
    <3>1. o \in FreeObjs(w) /\ w.peers[r][p] = 0 BY <2>2
    <3>2. u = SetPeer(SetObj(w, o, n), r, p, o) BY <2>2
    <3>3. n \in {OnDemand(r, p), LetIn(r, p)} OBVIOUS
    <3>4. Accepted(w, r, p) BY DEF Accepted
    <3> HIDE DEF u, o, known, n, r, p
    <3> QED BY <1>1, <3>1, <3>2, <3>3, <3>4, NewPeerIs
  <2> QED BY <2>1, <2>2, ZenonT(60)
<1>4. Admitted(w, c) = establishPeer(v, c, "r", o)
  <2>1. u = IF known THEN w
            ELSE [w EXCEPT !.obj[o] = newPeerState(r, p, FALSE, TRUE, FALSE), !.peers[r][p] = o]
    BY DEF SetObj, SetPeer, LetIn
  <2> HIDE DEF u
  <2> QED BY <2>1 DEF Admitted
<1> HIDE DEF u, o
<1>5. old \in 0..MaxConns
  <2>1. u.obj \in [1..MaxObjs -> PeerObj] BY <1>3, WorldParts
  <2> QED BY <1>2, <2>1 DEF PeerObj
<1>6. e \in End BY EndIs
<1> HIDE DEF old, e
<1>7. Good(v, now) /\ Even(u, v) /\ v.obj = u.obj /\ v.conn[c] = u.conn[c]
  <2>1. CASE old \in {0, c}
    <3>1. v = u BY <2>1
    <3> HIDE DEF v
    <3> QED BY <3>1, <1>3, EvenSelf
  <2>2. CASE old \notin {0, c}
    <3>1. old \in 1..MaxConns /\ c # old BY <1>5, <2>2 DEF ConstantsOK
    <3>2. v = Close(u, old, e) BY <2>2
    <3> HIDE DEF v
    <3> QED BY <3>1, <3>2, <1>3, <1>6, CloseIs
  <2> QED BY <2>1, <2>2
<1> HIDE DEF v
<1>8. /\ v.conn[c].from \in Relay /\ v.conn[c].to \in Relay /\ v.conn[c].st["r"] # "gone"
      /\ v.obj[o].owner = v.conn[c].to /\ v.obj[o].about = v.conn[c].from
  BY <1>1, <1>3, <1>7
<1>9. Good(establishPeer(v, c, "r", o), now) /\ Even(v, establishPeer(v, c, "r", o))
  <2> DEFINE f == "r"
  <2>1. f \in End /\ f # "i" BY DEF End
  <2>2. v.obj[o].owner = (IF f = "i" THEN v.conn[c].from ELSE v.conn[c].to) BY <1>8, <2>1
  <2>3. v.obj[o].about = (IF f = "i" THEN v.conn[c].to ELSE v.conn[c].from) BY <1>8, <2>1
  <2>4. v.conn[c].st[f] # "gone" BY <1>8
  <2> HIDE DEF f
  <2>5. Good(establishPeer(v, c, f, o), now) /\ Even(v, establishPeer(v, c, f, o))
    BY <1>2, <1>7, <1>8, <2>1, <2>2, <2>3, <2>4, EstablishIs
  <2> QED BY <2>5 DEF f
<1>10. Tame(u, establishPeer(v, c, "r", o)) BY <1>7, <1>9, EvenEven, EvenTame
<1>11. Tame(w, establishPeer(v, c, "r", o))
  <2>1. Even(u, establishPeer(v, c, "r", o)) BY <1>7, <1>9, EvenEven
  <2> QED BY <1>3, <2>1, TameThenEven
<1> QED BY <1>4, <1>9, <1>11

-----------------------------------------------------------------------------
Same == sc'.file = sc.file /\ sc'.open = sc.open /\ sc'.dials = sc.dials /\ sc'.listed = sc.listed

\* The world a handler leaves is the world of the next state.
LEMMA WorldNext ==
    ASSUME NEW w, NEW t, Good(w, t), Become(w)
    PROVE  W' = w
<1>1. w \in World(w.minted, t) BY WorldParts
<1>2. w = [conn |-> w.conn, obj |-> w.obj, peers |-> w.peers, cache |-> w.cache,
           minted |-> w.minted, lost |-> w.lost]
  BY <1>1 DEF World
<1> QED BY <1>2 DEF W, Become

\* The world after a step is the one it led to.
LEMMA GoodNext ==
    ASSUME Same, Good(W', now')
    PROVE  Good(W, now)'
<1>1. Typed(W', now') BY DEF Good
<1>2. Typed(W, now)' BY <1>1
<1>3. \A c \in 1..MaxConns : Ends(W.conn[c], W.obj)' BY DEF Good
<1>4. \A o \in 1..MaxObjs : Object(W.obj[o])' BY ZenonT(60) DEF Good, Object, Same
<1>5. Mapped(W.peers, W.obj)' BY DEF Good, Mapped, Same
<1> QED BY <1>2, <1>3, <1>4, <1>5 DEF Good

-----------------------------------------------------------------------------
FromFile(r) == {p \in Relay : Configured(r, p)}
Most(r) == Max({maxPeers, Cardinality(FromFile(r)), maxPeers + overlap[r] - 1})
Counted(w, r) == Kept(w, r) \cup Coming(w, r)

\* The peers of a relay that count for its cap or are about to, unless it dropped a peer that
\* it had let in as known.
CapInv == sc.open => \A r \in Relay \ ousted : Cardinality(Counted(W, r)) <= Most(r)

\* The maximum of three numbers,
LEMMA MaxThree ==
    ASSUME NEW a \in Int, NEW b \in Int, NEW c \in Int
    PROVE  LET m == Max({a, b, c}) IN m \in {a, b, c} /\ a <= m /\ b <= m /\ c <= m
<1>1. \E m \in {a, b, c} : \A y \in {a, b, c} : m >= y
  <2>1. CASE a >= b /\ a >= c BY <2>1
  <2>2. CASE b >= a /\ b >= c BY <2>2
  <2>3. CASE c >= a /\ c >= b BY <2>3
  <2> QED BY <2>1, <2>2, <2>3
<1>2. /\ Max({a, b, c}) \in {a, b, c}
      /\ \A y \in {a, b, c} : Max({a, b, c}) >= y
  BY <1>1 DEF Max
<1> QED BY <1>2

\* ... and of two.
LEMMA MaxTwo ==
    ASSUME NEW a \in Int, NEW b \in Int
    PROVE  LET m == Max({a, b}) IN m \in {a, b} /\ a <= m /\ b <= m
<1>1. \E m \in {a, b} : \A y \in {a, b} : m >= y
  <2>1. CASE a >= b BY <2>1
  <2>2. CASE b >= a BY <2>2
  <2> QED BY <2>1, <2>2
<1>2. /\ Max({a, b}) \in {a, b}
      /\ \A y \in {a, b} : Max({a, b}) >= y
  BY <1>1 DEF Max
<1> QED BY <1>2

\* Who counts is counted: a finite set of relays.
LEMMA CountedIs ==
    ASSUME ConstantsOK, NEW w, NEW r
    PROVE  /\ Counted(w, r) \subseteq Relay /\ IsFiniteSet(Counted(w, r))
           /\ Cardinality(Counted(w, r)) \in Nat
<1>1. Counted(w, r) \subseteq Relay BY DEF Counted, Kept, Coming
<1> QED BY <1>1, FS_Subset, FS_CardinalityType DEF ConstantsOK

\* The bound is above each of its three parts.
LEMMA MostIs ==
    ASSUME ConstantsOK, NEW r \in Relay, overlap[r] \in Nat
    PROVE  /\ Most(r) \in Int /\ maxPeers <= Most(r) /\ maxPeers + overlap[r] - 1 <= Most(r)
           /\ Cardinality(FromFile(r)) <= Most(r)
<1>1. Cardinality(FromFile(r)) \in Nat
  <2>1. FromFile(r) \subseteq Relay BY DEF FromFile
  <2> QED BY <2>1, FS_Subset, FS_CardinalityType DEF ConstantsOK
<1>2. maxPeers \in Int /\ maxPeers + overlap[r] - 1 \in Int BY DEF ConstantsOK
<1> DEFINE a == maxPeers
           b == Cardinality(FromFile(r))
           c == maxPeers + overlap[r] - 1
<1>3. a \in Int /\ b \in Int /\ c \in Int BY <1>1, <1>2
<1>4. Most(r) = Max({a, b, c}) BY DEF Most
<1> HIDE DEF a, b, c
<1>5. /\ Max({a, b, c}) \in {a, b, c} /\ a <= Max({a, b, c}) /\ b <= Max({a, b, c})
      /\ c <= Max({a, b, c})
  BY <1>3, MaxThree
<1> QED BY <1>3, <1>4, <1>5 DEF a, b, c

\* Unless somebody is ousted, nobody comes to be counted in a tame step.
LEMMA CountedLasts ==
    ASSUME NEW w, Tame(W, w), NEW r \in Relay, ~Ousts(w, r)
    PROVE  Counted(w, r) \subseteq Counted(W, r)
<1>1. Kept(w, r) \subseteq Counted(W, r) BY DEF Tame, Counted
<1>2. ASSUME NEW p \in Coming(w, r) PROVE p \in Counted(W, r)
  <2>1. CASE p \in Coming(W, r) BY <2>1 DEF Counted
  <2>2. CASE W.peers[r][p] # 0
    <3>1. p \in Relay /\ w.peers[r][p] = 0 /\ Accepted(w, r, p) BY DEF Coming
    <3>2. PICK c \in 1..MaxConns :
              w.conn[c].to = r /\ w.conn[c].st["r"] = "accepted" /\ w.conn[c].from = p
      BY <3>1 DEF Accepted
    <3>3. peers[r][p] # 0 BY <2>2 DEF W
    <3>4. ~obj[peers[r][p]].learned BY <3>1, <3>2, <3>3, ZenonT(60) DEF Ousts
    <3>5. p \in Kept(W, r) BY <3>1, <3>3, <3>4 DEF Kept, W
    <3> QED BY <3>5 DEF Counted
  <2> QED BY <2>1, <2>2 DEF Tame
<1> QED BY <1>1, <1>2 DEF Counted

\* A step that is tame, and drops nobody in the middle of a handshake, keeps the cap.
LEMMA CapNext ==
    ASSUME ConstantsOK, Same, Tame(W, W'), ousted \subseteq ousted', overlap' = overlap,
           \A r \in Relay \ ousted' : ~Ousts(W', r), CapInv,
           overlap \in [Relay -> Nat]
    PROVE  CapInv'
<1> SUFFICES ASSUME sc'.open, NEW r \in Relay \ ousted'
             PROVE  (Cardinality(Counted(W, r)) <= Most(r))'
  BY DEF CapInv
<1>1. Cardinality(Counted(W, r)) <= Most(r) BY DEF CapInv, Same
<1>2. Counted(W', r) \subseteq Counted(W, r) BY CountedLasts
<1>3. Cardinality(Counted(W', r)) <= Cardinality(Counted(W, r))
  BY <1>2, CountedIs, FS_Subset
<1>4. Most(r)' = Most(r)
  <2>1. FromFile(r)' = FromFile(r) BY DEF FromFile, Configured, Same
  <2> QED BY <2>1 DEF Most
<1>5. Most(r) \in Int BY MostIs
<1>6. Counted(W, r)' = Counted(W', r) BY DEF Counted, Kept, Coming, Accepted
<1>7. Cardinality(Counted(W, r)) \in Nat /\ Cardinality(Counted(W', r)) \in Nat BY CountedIs
<1> QED BY <1>1, <1>3, <1>4, <1>5, <1>6, <1>7

-----------------------------------------------------------------------------
\* The peers file gives each pair in it a place and an object of its own.
LEMMA IndexOfIs ==
    ASSUME ScOK, ConstantsOK
    PROVE  /\ \A r, p \in Relay : Configured(r, p) =>
                /\ IndexOf(<<r, p>>) \in DOMAIN sc.file /\ sc.file[IndexOf(<<r, p>>)] = <<r, p>>
           /\ \A i \in DOMAIN sc.file :
                /\ i \in 1..MaxObjs /\ i # 0 /\ sc.file[i] \in Relay \X Relay
                /\ Configured(sc.file[i][1], sc.file[i][2])
                /\ IndexOf(<<sc.file[i][1], sc.file[i][2]>>) = i
<1>1. sc.file \in Seq(Relay \X Relay) /\ Len(sc.file) <= MaxObjs /\ IsInjective(sc.file)
      /\ ToSet(sc.file) = sc.dials \cup sc.listed
  BY DEF ScOK, Scenario, ScenarioOK
<1>2. ASSUME NEW r \in Relay, NEW p \in Relay, Configured(r, p)
      PROVE  IndexOf(<<r, p>>) \in DOMAIN sc.file /\ sc.file[IndexOf(<<r, p>>)] = <<r, p>>
  <2>1. <<r, p>> \in ToSet(sc.file) BY <1>1, <1>2 DEF Configured
  <2>2. \E i \in DOMAIN sc.file : sc.file[i] = <<r, p>> BY <2>1 DEF ToSet
  <2> QED BY <2>2 DEF IndexOf, Pairs
<1>3. ASSUME NEW i \in DOMAIN sc.file
      PROVE  /\ i \in 1..MaxObjs /\ i # 0 /\ sc.file[i] \in Relay \X Relay
             /\ Configured(sc.file[i][1], sc.file[i][2])
             /\ IndexOf(<<sc.file[i][1], sc.file[i][2]>>) = i
  <2>1. i \in 1..MaxObjs /\ i # 0 /\ sc.file[i] \in Relay \X Relay
    <3>1. i \in 1..Len(sc.file) /\ Len(sc.file) \in Nat BY <1>1
    <3> QED BY <1>1, <3>1 DEF ConstantsOK
  <2>2. sc.file[i] = <<sc.file[i][1], sc.file[i][2]>> BY <2>1
  <2>3. sc.file[i] \in ToSet(sc.file) BY DEF ToSet
  <2>4. Configured(sc.file[i][1], sc.file[i][2]) BY <1>1, <2>2, <2>3 DEF Configured
  <2>5. IndexOf(<<sc.file[i][1], sc.file[i][2]>>) = i
    <3> DEFINE j == IndexOf(<<sc.file[i][1], sc.file[i][2]>>)
    <3>1. j \in DOMAIN sc.file /\ sc.file[j] = sc.file[i] BY <1>2, <2>1, <2>2, <2>4
    <3>2. \A a, b \in DOMAIN sc.file : sc.file[a] = sc.file[b] => a = b BY <1>1 DEF IsInjective
    <3> HIDE DEF j
    <3>3. j = i BY <3>1, <3>2
    <3> QED BY <3>3 DEF j
  <2> QED BY <2>1, <2>4, <2>5
<1> QED BY <1>2, <1>3

\* The objects of the peers file are neither learned nor dynamic.
LEMMA ConfiguredObjIs ==
    ASSUME ScOK, ConstantsOK, NEW i \in DOMAIN sc.file
    PROVE  LET x == ConfiguredObj(i)
           IN  /\ x \in PeerObj /\ x.owner = sc.file[i][1] /\ x.about = sc.file[i][2]
               /\ ~x.learned /\ ~x.dynamic /\ Object(x) /\ x.owner \in Relay /\ x.about \in Relay
<1> DEFINE z == <<>>
           r == sc.file[i][1]
           p == sc.file[i][2]
           b == sc.file[i] \in sc.dials
           x == ConfiguredObj(i)
<1>1. 0 \in 0..MaxConns /\ z \in Seq(Queued) /\ Len(z) = 0 /\ MAX_PENDING_FORWARDS \in Nat
      /\ 0 \notin Relay
  BY DEF ConstantsOK
<1>2. NoObj = [owner |-> 0, about |-> 0, url |-> FALSE, dynamic |-> FALSE, learned |-> FALSE,
               evicted |-> FALSE, ws |-> 0, est |-> FALSE, timer |-> FALSE, beat |-> 0,
               pending |-> z]
  BY DEF NoObj
<1>3. r \in Relay /\ p \in Relay BY IndexOfIs
<1>4. b \in BOOLEAN OBVIOUS
<1>5. x = [[NoObj EXCEPT !.owner = r, !.about = p, !.url = b, !.dynamic = FALSE,
                         !.learned = FALSE] EXCEPT !.timer = b]
  BY Zenon DEF ConfiguredObj, newPeerState, Pairs
<1> HIDE DEF z, b, x, r, p
<1>6. x = [owner |-> r, about |-> p, url |-> b, dynamic |-> FALSE, learned |-> FALSE,
           evicted |-> FALSE, ws |-> 0, est |-> FALSE, timer |-> b, beat |-> 0, pending |-> z]
  BY <1>2, <1>5
<1>7. x \in PeerObj
  <2>1. r \in Relay \cup {0} /\ p \in Relay \cup {0} /\ FALSE \in BOOLEAN BY <1>3
  <2> QED BY <1>1, <1>4, <1>6, <2>1, Zenon DEF PeerObj
<1>8. /\ x.owner = r /\ x.about = p /\ ~x.learned /\ ~x.dynamic /\ x.beat = 0 /\ x.pending = z
  BY <1>6
<1>9. Object(x) BY <1>1, <1>3, <1>8 DEF Object
<1> QED BY <1>3, <1>7, <1>8, <1>9 DEF x, r, p

-----------------------------------------------------------------------------
\* A socket whose end at r, if it has one, is gone.
OursAt(k, r, e) == k.st[e] # "gone" /\ IF e = "i" THEN k.from = r ELSE k.to = r
WithoutUs(k, r, half) ==
    [k EXCEPT !.st = [e \in End |-> IF OursAt(k, r, e) THEN "gone" ELSE @[e]],
              !.o = [e \in End |-> IF OursAt(k, r, e) THEN 0 ELSE @[e]],
              !.beat = [e \in End |-> IF OursAt(k, r, e) THEN FALSE ELSE @[e]],
              !.q = [e \in End |-> IF OursAt(k, r, e) THEN <<>> ELSE @[e]],
              !.cut = @ \/ (half /\ \E e \in End : OursAt(k, r, e))]

\* A socket after a restart of r: its ends at r are gone, the others stay.
LEMMA WithoutUsIs ==
    ASSUME ConstantsOK, NEW m, NEW t, NEW k \in Socket(m, t), NEW r, NEW half \in BOOLEAN
    PROVE  LET l == WithoutUs(k, r, half)
           IN  /\ l \in Socket(m, t) /\ l.from = k.from /\ l.to = k.to
               /\ \A e \in End : l.st[e] = IF OursAt(k, r, e) THEN "gone" ELSE k.st[e]
               /\ \A e \in End : l.o[e] = IF OursAt(k, r, e) THEN 0 ELSE k.o[e]
<1> DEFINE z == <<>>
           no == FALSE
           st == [e \in End |-> IF OursAt(k, r, e) THEN "gone" ELSE k.st[e]]
           ob == [e \in End |-> IF OursAt(k, r, e) THEN 0 ELSE k.o[e]]
           beat == [e \in End |-> IF OursAt(k, r, e) THEN no ELSE k.beat[e]]
           q == [e \in End |-> IF OursAt(k, r, e) THEN z ELSE k.q[e]]
           cut == k.cut \/ (half /\ \E e \in End : OursAt(k, r, e))
           l == WithoutUs(k, r, half)
<1>1. "gone" \in StI \cup StR /\ 0 \in 0..MaxObjs /\ no \in BOOLEAN /\ z \in Seq(Wire(m, t))
  BY DEF StI, ConstantsOK
<1>2. cut \in BOOLEAN BY Zenon
<1>3. l = [k EXCEPT !.st = st, !.o = ob, !.beat = beat, !.q = q, !.cut = cut]
  BY Zenon DEF WithoutUs
<1>4. /\ k.st \in [End -> StI \cup StR] /\ k.o \in [End -> 0..MaxObjs]
      /\ k.beat \in [End -> BOOLEAN] /\ k.q \in [End -> Seq(Wire(m, t))]
  BY DEF Socket
<1> HIDE DEF z, no, cut, l
<1>5. /\ st \in [End -> StI \cup StR] /\ ob \in [End -> 0..MaxObjs]
      /\ q \in [End -> Seq(Wire(m, t))]
  BY <1>1, <1>4
<1>6. beat \in [End -> BOOLEAN]
  <2>1. \A e \in End : (IF OursAt(k, r, e) THEN no ELSE k.beat[e]) \in BOOLEAN
    BY <1>1, <1>4, Zenon
  <2> QED BY <2>1, Zenon
<1>7. /\ \A e \in End : st[e] = IF OursAt(k, r, e) THEN "gone" ELSE k.st[e]
      /\ \A e \in End : ob[e] = IF OursAt(k, r, e) THEN 0 ELSE k.o[e]
  OBVIOUS
<1> HIDE DEF st, ob, beat, q
<1>8. l \in Socket(m, t) /\ l.from = k.from /\ l.to = k.to /\ l.st = st /\ l.o = ob
  BY <1>2, <1>3, <1>5, <1>6 DEF Socket
<1> QED BY <1>7, <1>8 DEF l

\* It names the right objects, whatever becomes of those of r.
LEMMA WithoutUsEnds ==
    ASSUME ConstantsOK, NEW m, NEW t, NEW k \in Socket(m, t), NEW r \in Relay, NEW half \in BOOLEAN,
           NEW ob, NEW oc, Ends(k, ob),
           \A o \in 1..MaxObjs : ob[o].owner # r => oc[o] = ob[o]
    PROVE  LET l == WithoutUs(k, r, half)
           IN  /\ Ends(l, oc) /\ Stays(k, l)
               /\ ~(l.to = r /\ l.st["r"] = "accepted")
<1> DEFINE l == WithoutUs(k, r, half)
<1>1. /\ l \in Socket(m, t) /\ l.from = k.from /\ l.to = k.to
      /\ \A e \in End : l.st[e] = IF OursAt(k, r, e) THEN "gone" ELSE k.st[e]
      /\ \A e \in End : l.o[e] = IF OursAt(k, r, e) THEN 0 ELSE k.o[e]
  BY WithoutUsIs
<1> HIDE DEF l
<1>2. /\ l.st["i"] = IF k.st["i"] # "gone" /\ k.from = r THEN "gone" ELSE k.st["i"]
      /\ l.o["i"] = IF k.st["i"] # "gone" /\ k.from = r THEN 0 ELSE k.o["i"]
      /\ l.st["r"] = IF k.st["r"] # "gone" /\ k.to = r THEN "gone" ELSE k.st["r"]
      /\ l.o["r"] = IF k.st["r"] # "gone" /\ k.to = r THEN 0 ELSE k.o["r"]
  BY <1>1 DEF OursAt, End
<1>3. "i" \in End /\ "r" \in End /\ \A e \in End : e = "i" \/ e = "r" BY DEF End
<1>4. k.o["i"] \in 0..MaxObjs /\ k.o["r"] \in 0..MaxObjs BY <1>3 DEF Socket
<1>5. MaxObjs \in Nat /\ 0 \notin Relay BY DEF ConstantsOK
<1>6. /\ k.st["i"] \in StI /\ k.st["r"] \in StR
      /\ k.st["i"] # "gone" => k.o["i"] # 0
      /\ k.st["r"] \in {"up", "closing"} => k.o["r"] # 0
      /\ k.st["i"] # "gone" \/ k.st["r"] \notin {"none", "gone"} => k.from \in Relay /\ k.to \in Relay
      /\ k.st["i"] = "gone" => k.o["i"] = 0
      /\ k.st["r"] = "gone" => k.o["r"] = 0
      /\ k.o["i"] # 0 => /\ k.from \in Relay /\ k.to \in Relay
                         /\ ob[k.o["i"]].owner = k.from /\ ob[k.o["i"]].about = k.to
      /\ k.o["r"] # 0 => /\ k.from \in Relay /\ k.to \in Relay
                         /\ ob[k.o["r"]].owner = k.to /\ ob[k.o["r"]].about = k.from
  BY <1>3 DEF Ends
<1>7. l.o["i"] # 0 => /\ l.o["i"] = k.o["i"] /\ k.from # r
                      /\ oc[k.o["i"]] = ob[k.o["i"]]
  BY <1>2, <1>4, <1>5, <1>6
<1>8. l.o["r"] # 0 => /\ l.o["r"] = k.o["r"] /\ k.to # r
                      /\ oc[k.o["r"]] = ob[k.o["r"]]
  BY <1>2, <1>4, <1>5, <1>6
<1>9. Ends(l, oc)
  <2>1. l.st["i"] \in StI /\ l.st["r"] \in StR BY <1>2, <1>6 DEF StI, StR
  <2>2. l.st["i"] # "gone" => l.o["i"] # 0 BY <1>2, <1>6
  <2>3. l.st["r"] \in {"up", "closing"} => l.o["r"] # 0 BY <1>2, <1>6
  <2>4. l.st["i"] # "gone" \/ l.st["r"] \notin {"none", "gone"} => l.from \in Relay /\ l.to \in Relay
    BY <1>1, <1>2, <1>6
  <2>5. \A e \in End : l.st[e] = "gone" => l.o[e] = 0 BY <1>2, <1>3, <1>6
  <2> QED BY <1>1, <1>6, <1>7, <1>8, <2>1, <2>2, <2>3, <2>4, <2>5 DEF Ends
<1>10. Stays(k, l) BY <1>1, <1>2 DEF Stays
<1>11. ~(l.to = r /\ l.st["r"] = "accepted") BY <1>1, <1>2
<1> QED BY <1>9, <1>10, <1>11 DEF l

-----------------------------------------------------------------------------
\* A good world stays good when later records are made.
LEMMA GoodLater ==
    ASSUME NEW w, NEW t \in Nat, NEW u \in Nat, t <= u, Good(w, t)
    PROVE  Good(w, u)
<1>1. w.minted \in Nat /\ w \in World(w.minted, t) BY WorldParts
<1>2. Socket(w.minted, t) \subseteq Socket(w.minted, u) BY <1>1, WireGrows
<1>3. w \in World(w.minted, u) BY <1>1, <1>2 DEF World
<1> QED BY <1>1, <1>3 DEF Good, Typed

\* A restart keeps of a relay's map the peers file, which was in it.
LEMMA RestartedIs ==
    ASSUME ScOK, ConstantsOK, NEW w, NEW t, Good(w, t), NEW r \in Relay, NEW half \in BOOLEAN
    PROVE  Good(Restarted(w, r, half), t) /\ Tame(w, Restarted(w, r, half))
<1> DEFINE Ours(c, e) == /\ w.conn[c].st[e] # "gone"
                         /\ IF e = "i" THEN w.conn[c].from = r ELSE w.conn[c].to = r
           C == [c \in 1..MaxConns |-> WithoutUs(w.conn[c], r, half)]
           Mine == {o \in 1..MaxObjs : w.obj[o].owner = r}
           O == [o \in 1..MaxObjs |->
                    IF o \in Mine THEN IF o \in DOMAIN Pairs THEN ConfiguredObj(o) ELSE NoObj
                    ELSE w.obj[o]]
           pr == [p \in Relay |-> IF Configured(r, p) THEN IndexOf(<<r, p>>) ELSE 0]
           ps == [w.peers EXCEPT ![r] = pr]
           nul == {}
           D == [w.cache EXCEPT ![r] = nul]
           Read == {y \in (1..MaxConns) \X End : Ours(y[1], y[2])}
           L1 == UNION {Packets(w.obj[o].pending) : o \in Mine}
           L2 == UNION {Packets(w.conn[x[1]].q[x[2]]) : x \in Read}
           L == w.lost \cup L1 \cup L2
           u == [w EXCEPT !.conn = C, !.obj = O, !.peers = ps, !.cache = D, !.lost = L]
<1>1. /\ w.conn \in [1..MaxConns -> Socket(w.minted, t)]
      /\ w.obj \in [1..MaxObjs -> PeerObj]
      /\ w.peers \in PeerMap
      /\ w.cache \in [Relay -> SUBSET (1..w.minted)]
      /\ w.minted \in Nat /\ w.lost \in SUBSET Nat
      /\ w \in World(w.minted, t)
  BY WorldParts
<1>2. Restarted(w, r, half) = Swept(u)
  <2> DEFINE Cl == [c \in 1..MaxConns |->
            [w.conn[c] EXCEPT !.st = [e \in End |-> IF Ours(c, e) THEN "gone" ELSE @[e]],
                              !.o = [e \in End |-> IF Ours(c, e) THEN 0 ELSE @[e]],
                              !.beat = [e \in End |-> IF Ours(c, e) THEN FALSE ELSE @[e]],
                              !.q = [e \in End |-> IF Ours(c, e) THEN <<>> ELSE @[e]],
                              !.cut = @ \/ (half /\ \E e \in End : Ours(c, e))]]
             v == [w EXCEPT !.conn = Cl, !.obj = O, !.peers[r] = pr, !.cache[r] = {},
                            !.lost = @ \cup L1 \cup L2]
  <2>1. Restarted(w, r, half) = Swept(v) BY Zenon DEF Restarted
  <2>2. Cl = C BY Zenon DEF WithoutUs, OursAt
  <2> HIDE DEF Cl, C, O, pr, L1, L2
  <2>3. v = u BY <2>2
  <2> QED BY <2>1, <2>3
<1>3. C \in [1..MaxConns -> Socket(w.minted, t)]
      /\ \A c \in 1..MaxConns : C[c] = WithoutUs(w.conn[c], r, half)
  BY <1>1, WithoutUsIs, ZenonT(60)
<1>4. ASSUME NEW o \in 1..MaxObjs
      PROVE  /\ O[o] \in PeerObj /\ Object(O[o])
             /\ w.obj[o].owner # r => O[o] = w.obj[o]
             /\ w.obj[o].owner = r /\ o \in DOMAIN sc.file => O[o] = ConfiguredObj(o)
  <2>1. w.obj[o] \in PeerObj /\ Object(w.obj[o]) BY <1>1 DEF Good
  <2>2. CASE w.obj[o].owner # r
    <3>1. O[o] = w.obj[o] BY <2>2
    <3> HIDE DEF O
    <3> QED BY <2>1, <2>2, <3>1
  <2>3. CASE w.obj[o].owner = r /\ o \in DOMAIN sc.file
    <3>1. O[o] = ConfiguredObj(o) BY <2>3 DEF Pairs
    <3> HIDE DEF O
    <3> QED BY <2>3, <3>1, ConfiguredObjIs
  <2>4. CASE w.obj[o].owner = r /\ o \notin DOMAIN sc.file
    <3>1. O[o] = NoObj BY <2>4 DEF Pairs
    <3> HIDE DEF O
    <3> QED BY <2>4, <3>1, Nothing
  <2> QED BY <2>2, <2>3, <2>4
<1>5. O \in [1..MaxObjs -> PeerObj]
  <2>1. O = [o \in 1..MaxObjs |-> O[o]] OBVIOUS
  <2> HIDE DEF O
  <2> QED BY <2>1, <1>4
<1>6. pr \in [Relay -> 0..MaxObjs]
      /\ \A p \in Relay : pr[p] = IF Configured(r, p) THEN IndexOf(<<r, p>>) ELSE 0
  <2>1. ASSUME NEW p \in Relay, Configured(r, p) PROVE IndexOf(<<r, p>>) \in 0..MaxObjs
    <3>1. IndexOf(<<r, p>>) \in DOMAIN sc.file BY <2>1, IndexOfIs
    <3>2. IndexOf(<<r, p>>) \in 1..MaxObjs BY <3>1, IndexOfIs
    <3> QED BY <3>2 DEF ConstantsOK
  <2>2. 0 \in 0..MaxObjs BY DEF ConstantsOK
  <2> QED BY <2>1, <2>2
<1> HIDE DEF pr
<1>7. ps \in PeerMap /\ ps[r] = pr /\ \A a \in Relay : a # r => ps[a] = w.peers[a]
  BY <1>1, <1>6 DEF PeerMap
<1>8. D \in [Relay -> SUBSET (1..w.minted)]
  <2>1. nul \in SUBSET (1..w.minted) OBVIOUS
  <2> HIDE DEF nul
  <2> QED BY <2>1, <1>1
<1>9. L \in SUBSET Nat
  <2>1. ASSUME NEW o \in Mine PROVE Packets(w.obj[o].pending) \subseteq Nat
    <3> DEFINE q == w.obj[o].pending
    <3>1. w.obj[o] \in PeerObj BY <1>1
    <3>2. q \in Seq(Queued) BY <3>1 DEF PeerObj
    <3>3. q \in Seq(Wire(w.minted, t) \cup Queued) BY <3>2, SeqUnion
    <3> HIDE DEF q
    <3> QED BY <3>3, PacketsAreNat DEF q
  <2>2. ASSUME NEW x \in Read PROVE Packets(w.conn[x[1]].q[x[2]]) \subseteq Nat
    <3> DEFINE q == w.conn[x[1]].q[x[2]]
    <3>1. x[1] \in 1..MaxConns /\ x[2] \in End OBVIOUS
    <3>2. q \in Seq(Wire(w.minted, t)) BY <3>1, SocketOf
    <3>3. q \in Seq(Wire(w.minted, t) \cup Queued) BY <3>2, SeqUnion
    <3> HIDE DEF q
    <3> QED BY <3>3, PacketsAreNat DEF q
  <2>3. L1 \subseteq Nat
    <3> HIDE DEF Mine
    <3> QED BY <2>1
  <2>4. L2 \subseteq Nat
    <3> HIDE DEF Read
    <3> QED BY <2>2
  <2> HIDE DEF L1, L2
  <2> QED BY <2>3, <2>4, <1>1
<1> HIDE DEF C, O, ps, D, L
<1>10. /\ u.conn = C /\ u.lost = L /\ u.obj = O /\ u.peers = ps
       /\ u.cache = D /\ u.minted = w.minted
       /\ u = [conn |-> u.conn, obj |-> u.obj, peers |-> u.peers, cache |-> u.cache,
                 minted |-> u.minted, lost |-> u.lost]
  <2>1. u = [w EXCEPT !.conn = C, !.obj = O, !.peers = ps, !.cache = D, !.lost = L] OBVIOUS
  <2> HIDE DEF u
  <2> QED BY <1>1, <2>1 DEF World
<1> HIDE DEF u
<1>11. Typed(u, t) BY <1>1, <1>3, <1>5, <1>7, <1>8, <1>9, <1>10, TypedWhole DEF Good
<1>12. ASSUME NEW c \in 1..MaxConns
       PROVE  /\ Ends(C[c], O) /\ Stays(w.conn[c], C[c])
              /\ ~(C[c].to = r /\ C[c].st["r"] = "accepted")
  <2> DEFINE k == w.conn[c]
             ob == w.obj
             m == w.minted
             l == WithoutUs(k, r, half)
  <2>1. k \in Socket(m, t) /\ Ends(k, ob) BY SocketOf
  <2>2. \A o \in 1..MaxObjs : ob[o].owner # r => O[o] = ob[o] BY <1>4
  <2>3. C[c] = l BY <1>3
  <2> HIDE DEF k, ob, m
  <2>4. Ends(l, O) /\ Stays(k, l) /\ ~(l.to = r /\ l.st["r"] = "accepted")
    BY <2>1, <2>2, WithoutUsEnds
  <2> HIDE DEF l
  <2> QED BY <2>3, <2>4 DEF k
<1>13. \A p \in Relay : pr[p] # 0 => /\ pr[p] \in DOMAIN sc.file /\ sc.file[pr[p]] = <<r, p>>
                                     /\ w.peers[r][p] # 0 /\ ~w.obj[w.peers[r][p]].learned
                                     /\ O[pr[p]] = ConfiguredObj(pr[p])
  <2> SUFFICES ASSUME NEW p \in Relay, pr[p] # 0
               PROVE  /\ pr[p] \in DOMAIN sc.file /\ sc.file[pr[p]] = <<r, p>>
                      /\ w.peers[r][p] # 0 /\ ~w.obj[w.peers[r][p]].learned
                      /\ O[pr[p]] = ConfiguredObj(pr[p])
    OBVIOUS
  <2> DEFINE i == pr[p]
  <2>1. i \in DOMAIN sc.file /\ sc.file[i] = <<r, p>> BY <1>6, IndexOfIs, ZenonT(60)
  <2> HIDE DEF i
  <2>2. i \in 1..MaxObjs /\ i # 0 BY <2>1, IndexOfIs
  <2>3. w.peers[r][p] = i /\ ~w.obj[i].learned
    <3>1. Mapped(w.peers, w.obj) BY DEF Good
    <3> QED BY <2>1, <3>1 DEF Mapped
  <2>4. w.obj[i].owner = r BY <2>2, <2>3 DEF Good, Mapped
  <2>5. O[i] = ConfiguredObj(i) BY <2>1, <2>2, <2>4, <1>4
  <2> QED BY <2>1, <2>2, <2>3, <2>5 DEF i
<1>14. Mapped(ps, O)
  <2>1. Mapped(w.peers, w.obj) BY DEF Good
  <2>2. ASSUME NEW a \in Relay, NEW p \in Relay, ps[a][p] # 0
        PROVE  O[ps[a][p]].owner = a /\ O[ps[a][p]].about = p
    <3>1. CASE a = r
      <4>1. ps[a][p] = pr[p] BY <3>1, <1>7
      <4>2. pr[p] \in DOMAIN sc.file /\ sc.file[pr[p]] = <<r, p>> /\ O[pr[p]] = ConfiguredObj(pr[p])
        BY <1>13, <2>2, <4>1
      <4> QED BY <3>1, <4>1, <4>2, ConfiguredObjIs
    <3>2. CASE a # r
      <4>1. ps[a][p] = w.peers[a][p] BY <3>2, <1>7
      <4>2. w.obj[w.peers[a][p]].owner = a /\ w.obj[w.peers[a][p]].about = p
        BY <2>1, <2>2, <4>1 DEF Mapped
      <4>3. w.peers[a][p] \in 1..MaxObjs BY <2>2, <4>1, ObjectsNamed
      <4> QED BY <3>2, <4>1, <4>2, <4>3, <1>4
    <3> QED BY <3>1, <3>2
  <2>3. ASSUME NEW i \in DOMAIN sc.file
        PROVE  ps[sc.file[i][1]][sc.file[i][2]] = i /\ ~O[i].learned /\ ~O[i].dynamic
    <3> DEFINE a == sc.file[i][1]
               p == sc.file[i][2]
    <3>1. a \in Relay /\ p \in Relay /\ i \in 1..MaxObjs /\ i # 0 BY IndexOfIs
    <3>2. Configured(a, p) /\ IndexOf(<<a, p>>) = i BY IndexOfIs
    <3>3. w.peers[a][p] = i /\ ~w.obj[i].learned /\ ~w.obj[i].dynamic BY <2>1 DEF Mapped
    <3> HIDE DEF a, p
    <3>4. w.obj[i].owner = a BY <2>1, <3>1, <3>3 DEF Mapped
    <3>5. CASE a = r
      <4>1. ps[a][p] = i BY <3>1, <3>2, <3>5, <1>6, <1>7
      <4>2. O[i] = ConfiguredObj(i) BY <3>1, <3>4, <3>5, <1>4
      <4>3. ~O[i].learned /\ ~O[i].dynamic BY <4>2, ConfiguredObjIs
      <4> QED BY <4>1, <4>3 DEF a, p
    <3>6. CASE a # r
      <4>1. ps[a][p] = i BY <3>1, <3>3, <3>6, <1>7
      <4>2. O[i] = w.obj[i] BY <3>1, <3>4, <3>6, <1>4
      <4> QED BY <3>3, <4>1, <4>2 DEF a, p
    <3> QED BY <3>5, <3>6
  <2> QED BY <2>2, <2>3, Zenon DEF Mapped
<1>15. Good(u, t) BY <1>4, <1>10, <1>11, <1>12, <1>14 DEF Good
<1>16. Tame(w, u)
  <2> SUFFICES ASSUME NEW a \in Relay
               PROVE  /\ Kept(u, a) \subseteq Kept(w, a)
                      /\ Coming(u, a) \subseteq Coming(w, a)
    BY <1>10 DEF Tame
  <2>1. \A p \in Relay : Accepted(u, a, p) => Accepted(w, a, p) /\ a # r
    <3> SUFFICES ASSUME NEW p \in Relay, Accepted(u, a, p) PROVE Accepted(w, a, p) /\ a # r
      OBVIOUS
    <3>1. PICK c \in 1..MaxConns : C[c].to = a /\ C[c].st["r"] = "accepted" /\ C[c].from = p
      BY <1>10 DEF Accepted
    <3> QED BY <3>1, <1>12 DEF Accepted, Stays
  <2>2. CASE a = r
    <3>1. Coming(u, a) \subseteq Coming(w, a) BY <2>1, <2>2 DEF Coming
    <3>2. Kept(u, a) \subseteq Kept(w, a)
      <4>1. ASSUME NEW p \in Kept(u, a) PROVE p \in Kept(w, a)
        <5>1. p \in Relay /\ pr[p] # 0 BY <1>7, <1>10, <2>2 DEF Kept
        <5>2. w.peers[r][p] # 0 /\ ~w.obj[w.peers[r][p]].learned BY <5>1, <1>13
        <5> QED BY <2>2, <5>1, <5>2 DEF Kept
      <4> QED BY <4>1
    <3> QED BY <3>1, <3>2
  <2>3. CASE a # r
    <3>1. u.peers[a] = w.peers[a] BY <2>3, <1>7, <1>10
    <3>2. Coming(u, a) \subseteq Coming(w, a) BY <2>1, <3>1 DEF Coming
    <3>3. Kept(u, a) \subseteq Kept(w, a)
      <4>1. ASSUME NEW p \in Kept(u, a) PROVE p \in Kept(w, a)
        <5>1. p \in Relay /\ w.peers[a][p] # 0 BY <3>1 DEF Kept
        <5>2. w.peers[a][p] \in 1..MaxObjs /\ w.obj[w.peers[a][p]].owner = a
          BY <5>1, ObjectsNamed DEF Good, Mapped
        <5>3. O[w.peers[a][p]] = w.obj[w.peers[a][p]] BY <5>2, <2>3, <1>4
        <5> QED BY <5>1, <5>3, <3>1, <1>10 DEF Kept
      <4> QED BY <4>1
    <3> QED BY <3>2, <3>3
  <2> QED BY <2>2, <2>3
<1>17. Good(Swept(u), t) /\ Even(u, Swept(u)) BY <1>15, SweptIs
<1> QED BY <1>2, <1>16, <1>17, TameThenEven

-----------------------------------------------------------------------------
Federated ==
    /\ ScOK /\ now \in Nat /\ weekOld \in 0..now /\ book \in Books
    /\ Good(W, now)
    /\ forgot \subseteq Relay /\ ousted \subseteq Relay
    /\ overlap \in [Relay -> 0..MaxConns]
    /\ shadowed \subseteq Relay \X (1..minted)
    /\ CapInv

\* The bound of the cap grows with the handshakes of strangers admitted together.
Bound(f, n) == Max({maxPeers, f, maxPeers + n - 1})

\* The bound grows with the handshakes admitted together.
LEMMA BoundIs ==
    ASSUME ConstantsOK, NEW f \in Nat, NEW n \in Nat
    PROVE  /\ Bound(f, n) \in Int /\ maxPeers + n - 1 <= Bound(f, n)
           /\ \A k \in 0..n : Bound(f, k) <= Bound(f, n)
<1>1. maxPeers \in Int BY DEF ConstantsOK
<1>2. \A k \in Nat : LET m == Bound(f, k)
                     IN  m \in {maxPeers, f, maxPeers + k - 1} /\ maxPeers <= m /\ f <= m
                         /\ maxPeers + k - 1 <= m
  <2> SUFFICES ASSUME NEW k \in Nat
               PROVE  LET m == Bound(f, k)
                      IN  m \in {maxPeers, f, maxPeers + k - 1} /\ maxPeers <= m /\ f <= m
                          /\ maxPeers + k - 1 <= m
    OBVIOUS
  <2> DEFINE x == maxPeers + k - 1
  <2>1. x \in Int /\ f \in Int BY <1>1
  <2>2. Bound(f, k) = Max({maxPeers, f, x}) BY DEF Bound
  <2> HIDE DEF x
  <2>3. /\ Max({maxPeers, f, x}) \in {maxPeers, f, x} /\ maxPeers <= Max({maxPeers, f, x})
        /\ f <= Max({maxPeers, f, x}) /\ x <= Max({maxPeers, f, x})
    BY <1>1, <2>1, MaxThree
  <2> QED BY <2>2, <2>3 DEF x
<1>3. Bound(f, n) \in Int /\ maxPeers + n - 1 <= Bound(f, n) BY <1>1, <1>2
<1>4. ASSUME NEW k \in 0..n PROVE Bound(f, k) <= Bound(f, n)
  <2>1. k \in Nat /\ k <= n OBVIOUS
  <2>2. /\ Bound(f, k) \in {maxPeers, f, maxPeers + k - 1}
        /\ maxPeers <= Bound(f, n) /\ f <= Bound(f, n) /\ maxPeers + n - 1 <= Bound(f, n)
    BY <1>2, <2>1
  <2> QED BY <1>1, <1>3, <2>1, <2>2
<1> QED BY <1>3, <1>4

\* The socket of a ClientHello, and its peers.
LEMMA HelloWorld ==
    ASSUME ConstantsOK, Federated, NEW c \in 1..MaxConns, ClientHello(c)
    PROVE  LET k == SetState(conn[c], "r", IF Admits(conn[c].to, conn[c].from)
                                           THEN "accepted" ELSE "shut")
           IN  /\ W' = SetConn(W, c, k) /\ Good(W', now)
               /\ k.from = conn[c].from /\ k.to = conn[c].to
               /\ k.st["r"] = IF Admits(conn[c].to, conn[c].from) THEN "accepted" ELSE "shut"
               /\ \A d \in 1..MaxConns : W'.conn[d] = IF d = c THEN k ELSE conn[d]
               /\ W'.obj = obj /\ W'.peers = peers /\ conn[c].to \in Relay /\ conn[c].from \in Relay
<1> DEFINE x == IF Admits(conn[c].to, conn[c].from) THEN "accepted" ELSE "shut"
           s == "r"
           l == conn[c]
           k == SetState(l, s, x)
           v == SetConn(W, c, k)
<1>1. Good(W, now) /\ W.conn = conn /\ W.obj = obj /\ W.peers = peers BY DEF Federated, W
<1>2. l \in Socket(minted, now) /\ Ends(l, obj) /\ W.minted = minted /\ l.st["r"] = "hello"
  <2>1. W.conn[c] \in Socket(W.minted, now) /\ Ends(W.conn[c], W.obj) BY <1>1, SocketOf
  <2> QED BY <1>1, <2>1 DEF W, ClientHello
<1>3. /\ s = "r" /\ s \in End /\ x \in {"accepted", "shut"} /\ x \in StI \cup StR
      /\ \A e \in End : e = "i" \/ e = "r"
  BY DEF End, StR
<1>4. v = W'
  <2>1. conn' = [conn EXCEPT ![c] = k]
    BY DEF ClientHello, SetState
  <2>2. v = [W EXCEPT !.conn = [conn EXCEPT ![c] = k]] BY <1>1 DEF SetConn
  <2>3. obj' = obj /\ peers' = peers /\ cache' = cache /\ minted' = minted /\ lost' = lost
    BY DEF ClientHello
  <2> HIDE DEF v, k
  <2> QED BY <2>1, <2>2, <2>3 DEF W
<1> HIDE DEF x, s, v
<1>5. /\ k \in Socket(minted, now) /\ \A d \in End : k.st[d] = IF d = s THEN x ELSE l.st[d]
      /\ k.o = l.o /\ k.from = l.from /\ k.to = l.to
  <2> HIDE DEF l
  <2> QED BY <1>2, <1>3, StateSetIs
<1> HIDE DEF k
<1>6. k.st["r"] = x /\ k.st["i"] = l.st["i"] BY <1>3, <1>5 DEF End
<1>7. l.from \in Relay /\ l.to \in Relay
  <2> HIDE DEF l
  <2> QED BY <1>2 DEF Ends
<1>8. Ends(k, obj)
  <2> HIDE DEF l
  <2>1. /\ k.st["i"] \in StI /\ k.st["r"] \in StR
        /\ k.st["i"] # "gone" => k.o["i"] # 0
        /\ k.st["r"] \notin {"up", "closing", "gone"}
        /\ k.st["i"] = "gone" => k.o["i"] = 0
    BY <1>2, <1>3, <1>5, <1>6 DEF Ends, StR, End
  <2>2. \A e \in End : k.st[e] = "gone" => k.o[e] = 0 BY <1>3, <2>1
  <2> QED BY <1>2, <1>5, <1>7, <2>1, <2>2 DEF Ends
<1>9. /\ v.conn = [conn EXCEPT ![c] = k] /\ v.obj = obj /\ v.peers = peers
      /\ v.cache = W.cache /\ v.minted = W.minted /\ v.lost = W.lost
      /\ v = [conn |-> v.conn, obj |-> v.obj, peers |-> v.peers, cache |-> v.cache,
                minted |-> v.minted, lost |-> v.lost]
  <2>1. W \in World(W.minted, now) BY <1>1, WorldParts
  <2>2. v = [W EXCEPT !.conn = [conn EXCEPT ![c] = k]] BY <1>1 DEF v, SetConn
  <2> QED BY <1>1, <2>1, <2>2 DEF World
<1>10. /\ W.conn \in [1..MaxConns -> Socket(W.minted, now)]
       /\ W.obj \in [1..MaxObjs -> PeerObj]
       /\ W.peers \in PeerMap
       /\ W.cache \in [Relay -> SUBSET (1..W.minted)]
       /\ W.minted \in Nat /\ W.lost \in SUBSET Nat
  BY <1>1, WorldParts
<1>11. v.conn \in [1..MaxConns -> Socket(v.minted, now)]
       /\ \A d \in 1..MaxConns : v.conn[d] = IF d = c THEN k ELSE conn[d]
  BY <1>1, <1>2, <1>5, <1>9, <1>10, ZenonT(60)
<1>12. Typed(v, now) BY <1>1, <1>9, <1>10, <1>11, TypedWhole DEF Good
<1>13. Good(v, now)
  <2>1. \A d \in 1..MaxConns : Ends(conn[d], obj) BY <1>1 DEF Good
  <2>2. \A d \in 1..MaxConns : Ends(v.conn[d], v.obj) BY <1>8, <1>9, <1>11, <2>1
  <2>3. (\A o \in 1..MaxObjs : Object(v.obj[o])) /\ Mapped(v.peers, v.obj) BY <1>1, <1>9 DEF Good
  <2> QED BY <1>12, <2>2, <2>3 DEF Good
<1> QED BY <1>4, <1>5, <1>6, <1>7, <1>9, <1>11, <1>13 DEF k, l, x, s, v

-----------------------------------------------------------------------------
\* There are no more peers than sockets they came by.
LEMMA SendersAre ==
    ASSUME ConstantsOK, NEW N, NEW T, T \subseteq 1..MaxConns, NEW g,
           \A x \in N : \E d \in T : g[d] = x
    PROVE  IsFiniteSet(N) /\ Cardinality(N) <= Cardinality(T)
<1>1. IsFiniteSet(T) /\ Cardinality(T) \in Nat
  <2>1. IsFiniteSet(1..MaxConns) BY FS_Interval DEF ConstantsOK
  <2> QED BY <2>1, FS_Subset, FS_CardinalityType
<1> DEFINE h == [x \in N |-> CHOOSE d \in T : g[d] = x]
<1>2. \A x \in N : h[x] \in T /\ g[h[x]] = x OBVIOUS
<1>3. h \in Injection(N, T)
  <2>1. h \in [N -> T] BY <1>2
  <2>2. IsInjective(h)
    <3>1. DOMAIN h = N OBVIOUS
    <3> HIDE DEF h
    <3> QED BY <1>2, <3>1 DEF IsInjective
  <2> HIDE DEF h
  <2> QED BY <2>1, <2>2 DEF Injection
<1> HIDE DEF h
<1> QED BY <1>1, <1>3, FS_Injection

\* The next bound, with the handshake that is admitted.
LEMMA StrangersAre ==
    ASSUME ConstantsOK, Federated, NEW c \in 1..MaxConns, conn[c].st["r"] = "hello"
    PROVE  LET r == conn[c].to
           IN  /\ Strangers(r) \subseteq 1..MaxConns /\ c \notin Strangers(r)
               /\ Cardinality(Strangers(r)) \in Nat
               /\ Cardinality(Strangers(r)) + 1 = Cardinality(Strangers(r) \cup {c})
               /\ Cardinality(Strangers(r)) + 1 \in 0..MaxConns
<1> DEFINE S == Strangers(conn[c].to)
<1>1. S \subseteq 1..MaxConns /\ c \notin S BY DEF Strangers
<1> HIDE DEF S
<1>2. IsFiniteSet(1..MaxConns) /\ Cardinality(1..MaxConns) = MaxConns /\ MaxConns \in Nat
  <2>1. MaxConns \in Nat BY DEF ConstantsOK
  <2> QED BY <2>1, FS_Interval
<1>3. IsFiniteSet(S) /\ Cardinality(S) \in Nat BY <1>1, <1>2, FS_Subset, FS_CardinalityType
<1>4. Cardinality(S \cup {c}) = Cardinality(S) + 1 BY <1>1, <1>3, FS_AddElement
<1>5. S \cup {c} \subseteq 1..MaxConns BY <1>1
<1>6. Cardinality(S \cup {c}) <= MaxConns BY <1>2, <1>5, FS_Subset
<1> QED BY <1>1, <1>2, <1>3, <1>4, <1>6 DEF S

\* ClientHello counts the stranger it admits among those admitted together.
LEMMA HelloOverlap ==
    ASSUME ConstantsOK, Federated, NEW c \in 1..MaxConns, ClientHello(c)
    PROVE  /\ overlap' \in [Relay -> 0..MaxConns]
           /\ \A a \in Relay : overlap[a] <= overlap'[a]
           /\ Admits(conn[c].to, conn[c].from) /\ conn[c].from \notin Known(W, conn[c].to) =>
                Cardinality(Strangers(conn[c].to)) + 1 <= overlap'[conn[c].to]
<1> DEFINE r == conn[c].to
           n == Cardinality(Strangers(r)) + (IF conn[c].from \in Known(W, r) THEN 0 ELSE 1)
           ok == Admits(r, conn[c].from)
           m == IF ok THEN Max({overlap[r], n}) ELSE overlap[r]
<1>1. conn[c].st["r"] = "hello" BY DEF ClientHello
<1>2. r \in Relay BY HelloWorld
<1>3. n \in 0..MaxConns
      /\ (conn[c].from \notin Known(W, r) => n = Cardinality(Strangers(r)) + 1)
  <2> DEFINE y == Cardinality(Strangers(r))
  <2>1. y \in Nat /\ y + 1 \in 0..MaxConns BY <1>1, StrangersAre
  <2>2. MaxConns \in Nat BY DEF ConstantsOK
  <2>3. n = y \/ n = y + 1 BY <2>1
  <2>4. conn[c].from \notin Known(W, r) => n = y + 1 OBVIOUS
  <2> HIDE DEF n, y
  <2>5. n \in 0..MaxConns BY <2>1, <2>2, <2>3
  <2> QED BY <2>4, <2>5 DEF y
<1>4. overlap \in [Relay -> 0..MaxConns] /\ MaxConns \in Nat BY DEF Federated, ConstantsOK
<1>5. overlap' = [overlap EXCEPT ![r] = m] BY DEF ClientHello
<1> HIDE DEF n, ok
<1>6. m \in 0..MaxConns /\ overlap[r] <= m /\ (ok => n <= m)
  <2>1. overlap[r] \in 0..MaxConns BY <1>2, <1>4
  <2> DEFINE a == overlap[r]
  <2>2. a \in Int /\ n \in Int BY <1>3, <2>1
  <2> HIDE DEF a
  <2>3. Max({a, n}) \in {a, n} /\ a <= Max({a, n}) /\ n <= Max({a, n}) BY <2>2, MaxTwo
  <2> QED BY <1>3, <2>1, <2>3 DEF a
<1> HIDE DEF m, r
<1>7. /\ overlap' \in [Relay -> 0..MaxConns]
      /\ \A a \in Relay : overlap'[a] = IF a = r THEN m ELSE overlap[a]
  BY <1>4, <1>5, <1>6
<1>8. \A a \in Relay : overlap[a] <= overlap'[a]
  <2>1. \A a \in Relay : overlap[a] \in Nat BY <1>4
  <2> QED BY <1>6, <1>7, <2>1
<1> QED BY <1>2, <1>3, <1>6, <1>7, <1>8 DEF r, ok

\* ClientHello keeps the cap: it is the step that makes someone count.
LEMMA HelloCap ==
    ASSUME ConstantsOK, Federated, NEW c \in 1..MaxConns, ClientHello(c)
    PROVE  CapInv'
<1> DEFINE r == conn[c].to
           p == conn[c].from
           ok == Admits(r, p)
           k == SetState(conn[c], "r", IF ok THEN "accepted" ELSE "shut")
<1>1. /\ k.from = p /\ k.to = r /\ k.st["r"] = IF ok THEN "accepted" ELSE "shut"
      /\ \A d \in 1..MaxConns : W'.conn[d] = IF d = c THEN k ELSE conn[d]
      /\ W'.obj = obj /\ W'.peers = peers /\ r \in Relay /\ p \in Relay
  BY HelloWorld
<1>2. /\ overlap \in [Relay -> 0..MaxConns] /\ overlap' \in [Relay -> 0..MaxConns]
      /\ \A a \in Relay : overlap[a] <= overlap'[a]
      /\ ok /\ p \notin Known(W, r) => Cardinality(Strangers(r)) + 1 <= overlap'[r]
  BY HelloOverlap DEF Federated
<1>3. sc' = sc /\ ousted' = ousted /\ peers' = peers /\ obj' = obj BY DEF ClientHello
<1>4. CapInv BY DEF Federated
<1>5. ok /\ sc.open => p \in Known(W, r) \/ Cardinality(Known(W, r)) < maxPeers BY DEF Admits
<1>6. conn[c].st["r"] = "hello" BY DEF ClientHello
<1> HIDE DEF k, ok
<1> SUFFICES ASSUME sc.open, NEW a \in Relay \ ousted
             PROVE  (Cardinality(Counted(W, a)) <= Most(a))'
  BY <1>3 DEF CapInv
<1> DEFINE f == Cardinality(FromFile(a))
<1>7. f \in Nat
  <2>1. FromFile(a) \subseteq Relay BY DEF FromFile
  <2> QED BY <2>1, FS_Subset, FS_CardinalityType DEF ConstantsOK
<1>8. Most(a) = Bound(f, overlap[a]) /\ Most(a)' = Bound(f, overlap'[a])
  <2>1. FromFile(a)' = FromFile(a) BY <1>3 DEF FromFile, Configured
  <2> QED BY <2>1 DEF Most, Bound
<1> HIDE DEF f
<1>9. Counted(W, a)' = Counted(W', a) BY DEF Counted, Kept, Coming, Accepted
<1>10. overlap[a] \in Nat /\ overlap'[a] \in Nat /\ overlap[a] <= overlap'[a]
  BY <1>2 DEF ConstantsOK
<1>11. /\ Most(a) <= Most(a)' /\ maxPeers + overlap'[a] - 1 <= Most(a)'
       /\ Most(a) \in Int /\ Most(a)' \in Int
  BY <1>7, <1>8, <1>10, BoundIs
<1>12. Cardinality(Counted(W', a)) \in Nat /\ Cardinality(Counted(W, a)) \in Nat BY CountedIs
<1>13. Kept(W', a) = Kept(W, a) BY <1>1 DEF Kept, W
<1>14. \A x \in Coming(W', a) : x \in Relay /\ peers[a][x] = 0
                                /\ \E d \in 1..MaxConns : /\ W'.conn[d].to = a /\ W'.conn[d].from = x
                                                          /\ W'.conn[d].st["r"] = "accepted"
  BY <1>1 DEF Coming, Accepted
<1>15. \A x \in Relay : peers[a][x] = 0 /\ (\E d \in 1..MaxConns :
           conn[d].to = a /\ conn[d].from = x /\ conn[d].st["r"] = "accepted") => x \in Coming(W, a)
  BY DEF Coming, Accepted, W
<1>16. CASE a = r /\ ok /\ p \notin Known(W, r)
  <2> DEFINE S == Strangers(r)
             T == S \cup {c}
             N == Coming(W', a)
             g == [d \in 1..MaxConns |-> conn[d].from]
             K == Kept(W, a)
  <2>1. \A x \in N : \E d \in T : g[d] = x
    <3> SUFFICES ASSUME NEW x \in N PROVE \E d \in T : g[d] = x OBVIOUS
    <3>1. x \in Relay /\ peers[a][x] = 0 BY <1>14
    <3>2. PICK d \in 1..MaxConns : /\ W'.conn[d].to = a /\ W'.conn[d].from = x
                                   /\ W'.conn[d].st["r"] = "accepted"
      BY <1>14
    <3>3. CASE d = c BY <3>2, <3>3, <1>1
    <3>4. CASE d # c
      <4>1. conn[d].to = r /\ conn[d].from = x /\ conn[d].st["r"] = "accepted"
        BY <3>2, <3>4, <1>1, <1>16
      <4>2. d \in S BY <1>16, <3>1, <4>1 DEF Strangers, Known, W
      <4> QED BY <4>1, <4>2
    <3> QED BY <3>3, <3>4
  <2>2. T \subseteq 1..MaxConns /\ Cardinality(T) = Cardinality(S) + 1 /\ Cardinality(S) \in Nat
    BY <1>6, StrangersAre
  <2> HIDE DEF T, N, g, S
  <2>3. IsFiniteSet(N) /\ Cardinality(N) <= Cardinality(T) BY <2>1, <2>2, SendersAre
  <2>4. IsFiniteSet(Known(W, r)) /\ Cardinality(Known(W, r)) \in Nat
    <3>1. Known(W, r) \subseteq Relay BY DEF Known
    <3> QED BY <3>1, FS_Subset, FS_CardinalityType DEF ConstantsOK
  <2>5. IsFiniteSet(K) /\ Cardinality(K) <= Cardinality(Known(W, r))
    <3>1. K \subseteq Known(W, r) BY <1>16 DEF Kept, Known
    <3> HIDE DEF K
    <3> QED BY <2>4, <3>1, FS_Subset
  <2>6. Cardinality(K) < maxPeers
    <3>1. Cardinality(Known(W, r)) < maxPeers BY <1>5, <1>16
    <3>2. Cardinality(K) \in Nat BY <2>5, FS_CardinalityType
    <3> QED BY <2>4, <2>5, <3>1, <3>2 DEF ConstantsOK
  <2>7. Counted(W', a) = K \cup N BY <1>13 DEF Counted, N
  <2> HIDE DEF K
  <2>8. Cardinality(K \cup N) <= Cardinality(K) + Cardinality(N)
    <3>1. Cardinality(K \cup N) = Cardinality(K) + Cardinality(N) - Cardinality(K \cap N)
      BY <2>3, <2>5, FS_Union
    <3>2. IsFiniteSet(K \cap N)
      <4>1. K \cap N \subseteq K OBVIOUS
      <4> QED BY <4>1, <2>5, FS_Subset
    <3>3. Cardinality(K \cap N) \in Nat /\ Cardinality(K) \in Nat /\ Cardinality(N) \in Nat
      BY <2>3, <2>5, <3>2, FS_CardinalityType
    <3> QED BY <3>1, <3>3
  <2>9. Cardinality(S) + 1 <= overlap'[a] BY <1>2, <1>16 DEF S
  <2>10. Cardinality(K) \in Nat /\ Cardinality(N) \in Nat BY <2>3, <2>5, FS_CardinalityType
  <2>11. Cardinality(N) <= overlap'[a] BY <2>2, <2>3, <2>9, <2>10, <1>10
  <2>12. Cardinality(Counted(W', a)) <= maxPeers + overlap'[a] - 1
    <3>1. maxPeers \in Nat BY DEF ConstantsOK
    <3> QED BY <2>6, <2>7, <2>8, <2>10, <2>11, <1>10, <1>12, <3>1
  <2> QED BY <2>12, <1>9, <1>10, <1>11, <1>12 DEF ConstantsOK
<1>17. CASE ~(a = r /\ ok /\ p \notin Known(W, r))
  <2>1. \A x \in Coming(W', a) : x \in Coming(W, a)
    <3> SUFFICES ASSUME NEW x \in Coming(W', a) PROVE x \in Coming(W, a) OBVIOUS
    <3>1. x \in Relay /\ peers[a][x] = 0 BY <1>14
    <3>2. PICK d \in 1..MaxConns : /\ W'.conn[d].to = a /\ W'.conn[d].from = x
                                   /\ W'.conn[d].st["r"] = "accepted"
      BY <1>14
    <3>3. d # c
      <4> SUFFICES ASSUME d = c PROVE FALSE OBVIOUS
      <4>1. r = a /\ p = x /\ ok BY <3>2, <1>1
      <4>2. p \notin Known(W, r) BY <3>1, <4>1 DEF Known, W
      <4> QED BY <4>1, <4>2, <1>17
    <3>4. conn[d].to = a /\ conn[d].from = x /\ conn[d].st["r"] = "accepted" BY <3>2, <3>3, <1>1
    <3> QED BY <3>1, <3>4, <1>15
  <2>2. Counted(W', a) \subseteq Counted(W, a) BY <2>1, <1>13 DEF Counted
  <2>3. Cardinality(Counted(W', a)) <= Cardinality(Counted(W, a)) BY <2>2, CountedIs, FS_Subset
  <2>4. Cardinality(Counted(W, a)) <= Most(a) BY <1>4 DEF CapInv
  <2> QED BY <2>3, <2>4, <1>9, <1>11, <1>12
<1> QED BY <1>16, <1>17

-----------------------------------------------------------------------------
\* A step of one handler: from a good world to a good world, nobody comes to be counted.
LEMMA StepIs ==
    ASSUME ConstantsOK, Federated, ScOK', Same, NEW w, W' = w, Good(w, now'), Tame(W, w),
           ousted \subseteq ousted', ousted' \subseteq Relay,
           \A r \in Relay \ ousted' : ~Ousts(w, r),
           overlap' = overlap, shadowed' \subseteq Relay \X (1..minted'), forgot' \subseteq Relay,
           now' \in Nat, weekOld' \in 0..now', book' \in [Relay -> [Relay -> 0..now']]
    PROVE  Federated'
<1>1. Good(W, now)' BY GoodNext
<1>2. CapInv'
  <2>1. overlap \in [Relay -> Nat]
    <3>1. overlap \in [Relay -> 0..MaxConns] BY DEF Federated
    <3>2. \A r \in Relay : overlap[r] \in Nat BY <3>1 DEF ConstantsOK
    <3> QED BY <3>1, <3>2
  <2>2. CapInv BY DEF Federated
  <2> QED BY <2>1, <2>2, CapNext
<1>3. overlap' \in [Relay -> 0..MaxConns] BY DEF Federated
<1>4. (book \in Books)' BY DEF Books
<1> QED BY <1>1, <1>2, <1>3, <1>4 DEF Federated

\* A tame step to a good world keeps the invariant.
LEMMA BecomeIs ==
    ASSUME ConstantsOK, Federated, ScOK', Same, NEW w, Good(w, now'), Tame(W, w), Become(w),
           overlap' = overlap,
           shadowed' = shadowed \/ \E x \in Relay \X (1..minted) : shadowed' = shadowed \cup {x},
           forgot' \subseteq Relay,
           now' \in Nat, weekOld' \in 0..now', book' \in [Relay -> [Relay -> 0..now']]
    PROVE  Federated'
<1>1. W' = w BY WorldNext
<1>2. 1..minted \subseteq 1..minted'
  <2>1. W.minted = minted /\ w.minted = minted' BY DEF W, Become
  <2> QED BY <2>1 DEF Tame
<1>3. shadowed \subseteq Relay \X (1..minted) BY DEF Federated
<1>4. shadowed' \subseteq Relay \X (1..minted') BY <1>2, <1>3
<1>5. ousted' = ousted \cup {r \in Relay : Ousts(w, r)} BY DEF Become
<1>6. ousted \subseteq Relay BY DEF Federated
<1>7. ousted \subseteq ousted' /\ ousted' \subseteq Relay /\ \A r \in Relay \ ousted' : ~Ousts(w, r)
  BY <1>5, <1>6
<1> QED BY <1>1, <1>4, <1>7, StepIs

\* The same, when the handler leaves the records and the history alone.
LEMMA HandledIs ==
    ASSUME ConstantsOK, Federated, ScOK', Same, NEW w, Good(w, now), Tame(W, w), Become(w),
           UNCHANGED <<book, now, weekOld, forgot, shadowed, overlap>>
    PROVE  Federated'
<1>1. now' \in Nat /\ weekOld' \in 0..now' /\ forgot' \subseteq Relay
      /\ book' \in [Relay -> [Relay -> 0..now']] /\ now' = now /\ overlap' = overlap
      /\ shadowed' = shadowed
  BY DEF Federated, Books
<1>2. Good(w, now') BY <1>1
<1> QED BY <1>1, <1>2, BecomeIs

\* A scenario with another budget is a scenario.
LEMMA BudgetSet ==
    ASSUME NEW s \in Scenario, NEW n \in Nat
    PROVE  /\ [s EXCEPT !.faults = n] \in Scenario /\ [s EXCEPT !.packets = n] \in Scenario
           /\ [s EXCEPT !.evictions = n] \in Scenario /\ [s EXCEPT !.weeks = n] \in Scenario
<1>1. [s EXCEPT !.faults = n] \in Scenario BY DEF Scenario
<1>2. [s EXCEPT !.packets = n] \in Scenario BY DEF Scenario
<1>3. [s EXCEPT !.evictions = n] \in Scenario BY DEF Scenario
<1>4. [s EXCEPT !.weeks = n] \in Scenario BY DEF Scenario
<1> QED BY <1>1, <1>2, <1>3, <1>4

\* Budgets count down; the rest of a scenario stays.
LEMMA BudgetsAre ==
    ASSUME ScOK,
           \/ sc' = sc \/ Fault
           \/ sc.packets > 0 /\ sc' = [sc EXCEPT !.packets = @ - 1]
           \/ sc.evictions > 0 /\ sc' = [sc EXCEPT !.evictions = @ - 1]
           \/ sc.weeks > 0 /\ sc' = [sc EXCEPT !.weeks = @ - 1]
    PROVE  ScOK' /\ Same
<1>1. sc \in Scenario /\ ScenarioOK(sc) BY DEF ScOK
<1>2. CASE sc' = sc BY <1>1, <1>2 DEF ScOK, Same
<1>3. ASSUME NEW n \in Nat,
             \/ sc' = [sc EXCEPT !.faults = n] \/ sc' = [sc EXCEPT !.packets = n]
             \/ sc' = [sc EXCEPT !.evictions = n] \/ sc' = [sc EXCEPT !.weeks = n]
      PROVE  ScOK' /\ Same
  <2>1. sc' \in Scenario BY <1>1, <1>3, BudgetSet
  <2>2. /\ sc'.file = sc.file /\ sc'.dials = sc.dials /\ sc'.listed = sc.listed
        /\ sc'.conns = sc.conns /\ sc'.up = sc.up /\ sc'.open = sc.open
    BY <1>1, <1>3 DEF Scenario
  <2>3. ScenarioOK(sc') BY <1>1, <2>2 DEF ScenarioOK
  <2> QED BY <2>1, <2>2, <2>3 DEF ScOK, Same
<1>4. /\ sc.faults \in Nat /\ sc.packets \in Nat /\ sc.evictions \in Nat /\ sc.weeks \in Nat
  BY <1>1 DEF Scenario
<1>5. CASE Fault
  <2> DEFINE n == sc.faults - 1
  <2>1. n \in Nat /\ sc' = [sc EXCEPT !.faults = n] BY <1>4, <1>5 DEF Fault
  <2> HIDE DEF n
  <2> QED BY <2>1, <1>3
<1>6. CASE sc.packets > 0 /\ sc' = [sc EXCEPT !.packets = @ - 1]
  <2> DEFINE n == sc.packets - 1
  <2>1. n \in Nat /\ sc' = [sc EXCEPT !.packets = n] BY <1>4, <1>6
  <2> HIDE DEF n
  <2> QED BY <2>1, <1>3
<1>7. CASE sc.evictions > 0 /\ sc' = [sc EXCEPT !.evictions = @ - 1]
  <2> DEFINE n == sc.evictions - 1
  <2>1. n \in Nat /\ sc' = [sc EXCEPT !.evictions = n] BY <1>4, <1>7
  <2> HIDE DEF n
  <2> QED BY <2>1, <1>3
<1>8. CASE sc.weeks > 0 /\ sc' = [sc EXCEPT !.weeks = @ - 1]
  <2> DEFINE n == sc.weeks - 1
  <2>1. n \in Nat /\ sc' = [sc EXCEPT !.weeks = n] BY <1>4, <1>8
  <2> HIDE DEF n
  <2> QED BY <2>1, <1>3
<1> QED BY <1>2, <1>5, <1>6, <1>7, <1>8

-----------------------------------------------------------------------------
\* The parts of the invariant, and of the world as it is.
LEMMA HereIs ==
    ASSUME Federated
    PROVE  /\ ScOK /\ now \in Nat /\ book \in Books /\ Good(W, now)
           /\ W.conn = conn /\ W.obj = obj /\ W.peers = peers /\ W.minted = minted
           /\ W.cache = cache /\ W.lost = lost
  BY DEF Federated, W

\* The invariant is kept by each action: the close handlers,
LEMMA CloseEventLasts ==
    ASSUME ConstantsOK, Federated, NEW c \in 1..MaxConns, NEW e \in End, CloseEvent(c, e)
    PROVE  Federated'
<1> DEFINE w == Closed(W, c, e)
<1>1. Good(w, now) /\ Tame(W, w) BY HereIs, ClosedIs
<1>2. Become(w) /\ UNCHANGED <<book, now, weekOld, forgot, shadowed, overlap>> /\ sc' = sc
  BY DEF CloseEvent, gos, hist
<1> HIDE DEF w
<1> QED BY <1>1, <1>2, HereIs, BudgetsAre, HandledIs

\* ... a dial that is refused,
LEMMA RefuseLasts ==
    ASSUME ConstantsOK, Federated, NEW c \in 1..MaxConns, Refuse(c)
    PROVE  Federated'
<1> DEFINE e == "i"
           w == Closed(W, c, e)
<1>0. e \in End BY DEF End
<1>2. Become(w) /\ UNCHANGED <<book, now, weekOld, forgot, shadowed, overlap>> /\ Fault
  BY DEF Refuse, gos, hist
<1> HIDE DEF e
<1>1. Good(w, now) /\ Tame(W, w) BY <1>0, HereIs, ClosedIs
<1> HIDE DEF w
<1> QED BY <1>1, <1>2, HereIs, BudgetsAre, HandledIs

\* ... the timeouts of handshake and heartbeat,
LEMMA TimeoutsLast ==
    ASSUME ConstantsOK, Federated, NEW c \in 1..MaxConns, NEW e \in End,
           HandshakeTimeout(c, e) \/ HeartbeatTimeout(c, e)
    PROVE  Federated'
<1> DEFINE w == Close(W, c, e)
<1>1. Good(w, now) /\ Tame(W, w) BY HereIs, CloseIs, EvenTame
<1>2. Become(w) /\ UNCHANGED <<book, now, weekOld, forgot, shadowed, overlap>> /\ sc' = sc
  BY DEF HandshakeTimeout, HeartbeatTimeout, gos, hist
<1> HIDE DEF w
<1> QED BY <1>1, <1>2, HereIs, BudgetsAre, HandledIs

\* ... the reconnection timer,
LEMMA TimerLasts ==
    ASSUME ConstantsOK, Federated, NEW o \in 1..MaxObjs, Timer(o)
    PROVE  Federated'
<1> DEFINE no == FALSE
           y == [obj[o] EXCEPT !.timer = no]
           u == SetObj(W, o, y)
           w == dial(u, o)
<1>1. Good(W, now) /\ W.obj = obj /\ ScOK BY HereIs
<1>2. obj[o] \in PeerObj /\ Object(obj[o]) /\ obj[o].owner \in Relay
  <2>1. W.obj \in [1..MaxObjs -> PeerObj] BY <1>1, WorldParts
  <2>2. obj[o] \in PeerObj /\ Object(obj[o]) BY <1>1, <2>1 DEF Good
  <2>3. obj[o].timer BY DEF Timer
  <2> QED BY <2>2, <2>3 DEF PeerObj, Object
<1>3. Become(w) /\ UNCHANGED <<book, now, weekOld, forgot, shadowed, overlap>> /\ sc' = sc
  <2>1. u = [W EXCEPT !.obj[o].timer = FALSE] BY <1>1 DEF SetObj
  <2> HIDE DEF u
  <2> QED BY <2>1 DEF Timer, gos, hist
<1>4. no \in BOOLEAN /\ ~no OBVIOUS
<1> HIDE DEF no
<1>5. /\ y \in PeerObj /\ Object(y) /\ y.owner = obj[o].owner /\ y.about = obj[o].about
      /\ y.learned = obj[o].learned /\ y.dynamic = obj[o].dynamic
  <2> DEFINE x == obj[o]
  <2>1. x \in PeerObj /\ Object(x) BY <1>2
  <2> HIDE DEF x
  <2>2. LET z == [x EXCEPT !.timer = no]
        IN  /\ z \in PeerObj /\ Object(z) /\ z.owner = x.owner /\ z.about = x.about
            /\ z.learned = x.learned /\ z.dynamic = x.dynamic
    BY <2>1, <1>4 DEF PeerObj, Object
  <2> QED BY <2>2 DEF x
<1> HIDE DEF y
<1>6. /\ Good(u, now) /\ Even(W, u) /\ u.conn = W.conn
      /\ \A d \in 1..MaxObjs : u.obj[d] = IF d = o THEN y ELSE W.obj[d]
  BY <1>1, <1>5, ObjectChange
<1>7. u.obj[o].owner \in Relay BY <1>2, <1>5, <1>6
<1>8. FreeConns(u) # {}
  <2>1. FreeConns(W) # {} BY DEF Timer
  <2> QED BY <2>1, <1>6 DEF FreeConns
<1> HIDE DEF u
<1>9. Good(w, now) /\ Even(u, w) BY <1>1, <1>6, <1>7, <1>8, DialIs
<1> HIDE DEF w
<1>10. Tame(W, w) BY <1>6, <1>9, EvenEven, EvenTame
<1> QED BY <1>1, <1>3, <1>9, <1>10, BudgetsAre, HandledIs

\* ... a restart,
LEMMA RestartLasts ==
    ASSUME ConstantsOK, Federated, NEW r \in Relay, NEW half \in BOOLEAN, Restart(r, half)
    PROVE  Federated'
<1> DEFINE w == Restarted(W, r, half)
<1>1. Good(w, now) /\ Tame(W, w) BY HereIs, RestartedIs
<1>2. /\ Become(w) /\ now' = now + 1 /\ weekOld' = weekOld /\ forgot' = forgot \cup {r}
      /\ shadowed' = shadowed /\ overlap' = overlap /\ Fault
      /\ book' = [book EXCEPT ![r] = [p \in Relay |-> IF p = r /\ HasRecord(r) THEN now + 1 ELSE 0]]
  BY DEF Restart
<1> HIDE DEF w
<1>3. now \in Nat /\ weekOld \in 0..now /\ book \in Books /\ forgot \subseteq Relay
  BY DEF Federated
<1>4. now' \in Nat /\ weekOld' \in 0..now' /\ forgot' \subseteq Relay BY <1>2, <1>3
<1>5. book' \in [Relay -> [Relay -> 0..now']]
  <2>1. 0..now \subseteq 0..(now + 1) /\ now + 1 \in 0..(now + 1) /\ 0 \in 0..(now + 1) BY <1>3
  <2>2. book \in [Relay -> [Relay -> 0..(now + 1)]] BY <1>3, <2>1 DEF Books
  <2>3. [p \in Relay |-> IF p = r /\ HasRecord(r) THEN now + 1 ELSE 0] \in [Relay -> 0..(now + 1)]
    BY <2>1
  <2> QED BY <1>2, <2>2, <2>3
<1>6. Good(w, now') BY <1>1, <1>2, <1>3, GoodLater
<1> QED BY <1>1, <1>2, <1>4, <1>5, <1>6, HereIs, BudgetsAre, BecomeIs

-----------------------------------------------------------------------------
\* ... the first part of a responder handshake,
LEMMA ClientHelloLasts ==
    ASSUME ConstantsOK, Federated, NEW c \in 1..MaxConns, ClientHello(c)
    PROVE  Federated'
<1>1. /\ sc' = sc /\ now' = now /\ weekOld' = weekOld /\ book' = book /\ forgot' = forgot
      /\ ousted' = ousted /\ shadowed' = shadowed /\ minted' = minted
  BY DEF ClientHello, gos
<1>2. ScOK' /\ Same BY <1>1, HereIs, BudgetsAre
<1>3. Good(W', now) BY HelloWorld
<1>4. Good(W, now)' BY <1>1, <1>2, <1>3, GoodNext
<1>5. CapInv' /\ overlap' \in [Relay -> 0..MaxConns] BY HelloCap, HelloOverlap
<1>6. now' \in Nat /\ weekOld' \in 0..now' /\ forgot' \subseteq Relay /\ ousted' \subseteq Relay
      /\ shadowed' \subseteq Relay \X (1..minted')
  BY <1>1 DEF Federated
<1>7. (book \in Books)' BY <1>1 DEF Federated, Books
<1> QED BY <1>2, <1>4, <1>5, <1>6, <1>7 DEF Federated

\* ... its end, where a peer is let in,
LEMMA ClientSignatureLasts ==
    ASSUME ConstantsOK, Federated, NEW c \in 1..MaxConns, ClientSignature(c)
    PROVE  Federated'
<1>1. /\ ScOK /\ now \in Nat /\ book \in Books /\ Good(W, now) /\ W.conn = conn
      /\ W.peers = peers
  BY HereIs
<1>2. /\ UNCHANGED <<book, now, weekOld, forgot, shadowed, overlap>> /\ sc' = sc
      /\ conn[c].st["r"] = "accepted"
  BY DEF ClientSignature, gos, hist
<1>3. ScOK' /\ Same BY <1>1, <1>2, BudgetsAre
<1>4. CASE conn[c].bad
  <2> DEFINE e == "r"
             w == Close(W, c, e)
  <2>1. Become(w) BY <1>4 DEF ClientSignature
  <2>2. e \in End BY DEF End
  <2> HIDE DEF e
  <2>3. Good(w, now) /\ Tame(W, w) BY <1>1, <2>2, CloseIs, EvenTame
  <2> HIDE DEF w
  <2> QED BY <1>2, <1>3, <2>1, <2>3, HandledIs
<1>5. CASE ~conn[c].bad
  <2> DEFINE w == Admitted(W, c)
  <2>1. Become(w) BY <1>5 DEF ClientSignature
  <2>2. FreeObjs(W) # {} \/ W.peers[W.conn[c].to][W.conn[c].from] # 0
    BY <1>1 DEF ClientSignature, Known
  <2>3. Good(w, now) /\ Tame(W, w) BY <1>1, <1>2, <2>2, AdmittedIs
  <2> HIDE DEF w
  <2> QED BY <1>2, <1>3, <2>1, <2>3, HandledIs
<1> QED BY <1>4, <1>5

\* ... the end of an initiator handshake,
LEMMA ServerSignatureLasts ==
    ASSUME ConstantsOK, Federated, NEW c \in 1..MaxConns, ServerSignature(c)
    PROVE  Federated'
<1> DEFINE e == "i"
           l == conn[c]
           o == l.o[e]
           q == l.q[e]
<1>1. /\ ScOK /\ now \in Nat /\ book \in Books /\ Good(W, now) /\ W.conn = conn
      /\ W.obj = obj /\ W.minted = minted
  BY HereIs
<1>2. /\ UNCHANGED <<book, now, weekOld, forgot, shadowed, overlap>> /\ sc' = sc
      /\ l.st[e] = "signed"
  BY DEF ServerSignature, gos, hist
<1>3. PICK n \in 0..Len(q) :
          Become(establishPeer(LoseAll([W EXCEPT !.conn[c].q["i"] = SubSeq(q, n + 1, Len(q))],
                                       SubSeq(q, 1, n)), c, e, o))
  BY DEF ServerSignature
<1>4. ScOK' /\ Same BY <1>1, <1>2, BudgetsAre
<1>5. e \in End /\ e = "i" BY DEF End
<1> DEFINE x == SubSeq(q, n + 1, Len(q))
           y == SubSeq(q, 1, n)
           k == SetQueue(l, e, x)
           v == SetConn(W, c, k)
           u == LoseAll(v, y)
           w == establishPeer(u, c, e, o)
<1>6. Become(w)
  <2>1. v = [W EXCEPT !.conn[c].q["i"] = x] BY <1>1 DEF SetConn, SetQueue
  <2> HIDE DEF v, x, y, o
  <2> QED BY <1>3, <2>1 DEF x, y
<1> HIDE DEF e
<1>7. /\ l \in Socket(minted, now) /\ Ends(l, obj) /\ q \in Seq(Wire(minted, now))
      /\ l.o \in [End -> 0..MaxObjs]
  <2>1. /\ W.conn[c] \in Socket(W.minted, now) /\ Ends(W.conn[c], W.obj)
        /\ W.conn[c].o \in [End -> 0..MaxObjs]
        /\ W.conn[c].q \in [End -> Seq(Wire(W.minted, now))]
    BY <1>1, SocketOf
  <2> QED BY <1>1, <1>5, <2>1
<1>8. x \in Seq(Wire(minted, now)) /\ y \in Seq(Wire(minted, now) \cup Queued)
  <2> HIDE DEF q
  <2>1. q \in Seq(Wire(minted, now)) /\ n \in 0..Len(q) BY <1>3, <1>7
  <2>2. x \in Seq(Wire(minted, now)) /\ y \in Seq(Wire(minted, now)) BY <2>1
  <2>3. Wire(minted, now) \subseteq Wire(minted, now) \cup Queued OBVIOUS
  <2> HIDE DEF x, y
  <2> QED BY <2>2, <2>3, SeqUnion
<1> HIDE DEF x, y, o
<1>9. /\ k \in Socket(minted, now) /\ k.st = l.st /\ k.o = l.o /\ k.from = l.from /\ k.to = l.to
  <2> HIDE DEF l
  <2> QED BY <1>5, <1>7, <1>8, QueueSetIs
<1> HIDE DEF k
<1>10. Ends(k, obj) /\ Stays(l, k) BY <1>7, <1>9 DEF Ends, Stays
<1>11. /\ Good(v, now) /\ Even(W, v) /\ v.obj = obj /\ v.minted = minted /\ v.conn[c] = k
  BY <1>1, <1>9, <1>10, SocketChange
<1> HIDE DEF v
<1>12. Typed(u, now) /\ Alike(v, u) BY <1>8, <1>11, LosesFrames
<1> HIDE DEF u
<1>13. Good(u, now) /\ Even(v, u) BY <1>1, <1>11, <1>12, AlikeGood
<1>14. u.conn[c].st = l.st /\ u.conn[c].o = l.o /\ u.conn[c].from = l.from /\ u.conn[c].to = l.to
  BY <1>9, <1>11, <1>12 DEF Alike, Untouched
<1>15. Ends(u.conn[c], u.obj) BY <1>13 DEF Good
<1>16. /\ o \in 1..MaxObjs /\ u.conn[c].from \in Relay /\ u.conn[c].to \in Relay
       /\ u.obj[o].owner = u.conn[c].from /\ u.obj[o].about = u.conn[c].to
       /\ u.conn[c].st[e] # "gone"
  <2>1. u.conn[c].st[e] = "signed" BY <1>2, <1>14
  <2>2. o # 0 /\ u.conn[c].o["i"] = o BY <1>5, <1>14, <1>15, <2>1 DEF Ends, o
  <2>3. o \in 0..MaxObjs /\ MaxObjs \in Nat BY <1>5, <1>7 DEF o, ConstantsOK
  <2> QED BY <1>15, <2>1, <2>2, <2>3 DEF Ends
<1>17. Good(w, now) /\ Even(u, w) BY <1>1, <1>5, <1>13, <1>16, EstablishIs
<1> HIDE DEF w
<1>18. Tame(W, w) BY <1>11, <1>13, <1>17, EvenEven, EvenTame
<1> QED BY <1>2, <1>4, <1>6, <1>17, <1>18, HandledIs

\* A step that changes one socket and nothing else.
LEMMA SocketLasts ==
    ASSUME ConstantsOK, Federated, sc' = sc \/ Fault,
           NEW c \in 1..MaxConns, NEW k \in Socket(minted, now), Ends(k, obj), Stays(conn[c], k),
           conn' = [conn EXCEPT ![c] = k],
           UNCHANGED <<obj, peers, cache, minted, lost, ousted, gos, hist>>
    PROVE  Federated'
<1> DEFINE w == SetConn(W, c, k)
<1>1. /\ ScOK /\ Good(W, now) /\ W.conn = conn /\ W.obj = obj /\ W.minted = minted
      /\ W.peers = peers
  BY HereIs
<1>2. ScOK' /\ Same BY <1>1, BudgetsAre
<1>3. W' = w
  <2>1. w = [W EXCEPT !.conn = [conn EXCEPT ![c] = k]] BY <1>1 DEF SetConn
  <2> HIDE DEF w
  <2> QED BY <2>1 DEF W
<1>4. Good(w, now) /\ Even(W, w) /\ w.peers = peers BY <1>1, SocketChange
<1> HIDE DEF w
<1>5. /\ now' = now /\ weekOld' = weekOld /\ book' = book /\ forgot' = forgot
      /\ ousted' = ousted /\ shadowed' = shadowed /\ minted' = minted /\ overlap' = overlap
  BY DEF gos, hist
<1>6. Tame(W, w) /\ Good(w, now') BY <1>4, <1>5, EvenTame
<1>7. \A r \in Relay \ ousted' : ~Ousts(w, r) BY <1>4 DEF Ousts
<1>8. /\ now' \in Nat /\ weekOld' \in 0..now' /\ forgot' \subseteq Relay /\ ousted' \subseteq Relay
      /\ shadowed' \subseteq Relay \X (1..minted') /\ book' \in [Relay -> [Relay -> 0..now']]
  BY <1>5 DEF Federated, Books
<1> QED BY <1>2, <1>3, <1>5, <1>6, <1>7, <1>8, StepIs

-----------------------------------------------------------------------------
\* ... a socket that opens,
LEMMA OpenLasts ==
    ASSUME ConstantsOK, Federated, NEW c \in 1..MaxConns, Open(c)
    PROVE  Federated'
<1> DEFINE l == conn[c]
           st == [e \in End |-> "hello"]
           k == [l EXCEPT !.st = st]
<1>1. /\ l.st["i"] = "dialing" /\ conn' = [conn EXCEPT ![c] = k] /\ sc' = sc
      /\ UNCHANGED <<obj, peers, cache, minted, lost, ousted, gos, hist>>
  BY DEF Open
<1>2. l \in Socket(minted, now) /\ Ends(l, obj)
  <2>1. W.conn[c] \in Socket(W.minted, now) /\ Ends(W.conn[c], W.obj) BY HereIs, SocketOf
  <2> QED BY <2>1, HereIs
<1>3. /\ st \in [End -> StI \cup StR] /\ st["i"] = "hello" /\ st["r"] = "hello"
      /\ \A e \in End : e = "i" \/ e = "r"
  BY DEF End, StI
<1> HIDE DEF st, l
<1>4. /\ k \in Socket(minted, now) /\ k.st = st /\ k.o = l.o /\ k.from = l.from /\ k.to = l.to
  BY <1>2, <1>3 DEF Socket
<1> HIDE DEF k
<1>5. Ends(k, obj)
  <2>1. l.from \in Relay /\ l.to \in Relay BY <1>1, <1>2 DEF Ends
  <2>2. k.st["i"] = "hello" /\ k.st["r"] = "hello" /\ \A e \in End : k.st[e] # "gone"
    BY <1>3, <1>4
  <2>3. l.o["i"] # 0 BY <1>1, <1>2 DEF Ends
  <2> QED BY <1>2, <1>4, <2>1, <2>2, <2>3 DEF Ends, StI, StR
<1>6. Stays(l, k) BY <1>3, <1>4 DEF Stays
<1> QED BY <1>1, <1>4, <1>5, <1>6, SocketLasts DEF l

\* ... the first part of an initiator handshake,
LEMMA ServerHelloLasts ==
    ASSUME ConstantsOK, Federated, NEW c \in 1..MaxConns, ServerHello(c)
    PROVE  Federated'
<1> DEFINE l == conn[c]
           e == "i"
           x == "signed"
           yes == TRUE
           a == SetState(l, e, x)
           k == [a EXCEPT !.sent = yes]
<1>1. /\ l.st["i"] = "hello" /\ sc' = sc
      /\ UNCHANGED <<obj, peers, cache, minted, lost, ousted, gos, hist>>
  BY DEF ServerHello
<1>2. l \in Socket(minted, now) /\ Ends(l, obj)
  <2>1. W.conn[c] \in Socket(W.minted, now) /\ Ends(W.conn[c], W.obj) BY HereIs, SocketOf
  <2> QED BY <2>1, HereIs
<1>3. conn' = [conn EXCEPT ![c] = k]
  <2>1. conn \in [1..MaxConns -> Socket(minted, now)]
    <3>1. W.conn \in [1..MaxConns -> Socket(W.minted, now)] BY HereIs, WorldParts
    <3> QED BY <3>1, HereIs
  <2>2. conn' = [conn EXCEPT ![c] = [[conn[c] EXCEPT !.st = [conn[c].st EXCEPT !["i"] = "signed"]]
                                        EXCEPT !.sent = TRUE]]
    BY <2>1 DEF ServerHello
  <2> QED BY <2>2 DEF SetState
<1>4. e = "i" /\ e \in End /\ x \in StI /\ x # "gone" /\ yes \in BOOLEAN BY DEF End, StI
<1>5. x \in StI \cup StR BY <1>4
<1> HIDE DEF e, x, yes, l
<1>6. /\ a \in Socket(minted, now) /\ \A d \in End : a.st[d] = IF d = e THEN x ELSE l.st[d]
      /\ a.o = l.o /\ a.from = l.from /\ a.to = l.to
  BY <1>2, <1>4, <1>5, StateSetIs
<1> HIDE DEF a
<1>7. k \in Socket(minted, now) /\ k.st = a.st /\ k.o = a.o /\ k.from = a.from /\ k.to = a.to
  BY <1>4, <1>6 DEF Socket
<1> HIDE DEF k
<1>8. k.st["i"] = x /\ k.st["r"] = l.st["r"] BY <1>4, <1>6, <1>7 DEF End
<1>9. \A d \in End : k.st[d] = "gone" => k.o[d] = 0
  <2>1. \A d \in End : k.st[d] = "gone" => l.st[d] = "gone" BY <1>4, <1>6, <1>7
  <2> QED BY <2>1, <1>2, <1>6, <1>7 DEF Ends
<1>10. Ends(k, obj)
  BY <1>1, <1>2, <1>4, <1>6, <1>7, <1>8, <1>9 DEF Ends
<1>11. Stays(l, k) BY <1>6, <1>7, <1>8 DEF Stays
<1> QED BY <1>1, <1>3, <1>7, <1>10, <1>11, SocketLasts DEF l

\* ... a socket that is cut,
LEMMA CutLasts ==
    ASSUME ConstantsOK, Federated, NEW c \in 1..MaxConns, Cut(c)
    PROVE  Federated'
<1> DEFINE l == conn[c]
           yes == TRUE
           k == [l EXCEPT !.cut = yes]
<1>1. /\ conn' = [conn EXCEPT ![c] = k] /\ Fault
      /\ UNCHANGED <<obj, peers, cache, minted, lost, ousted, gos, hist>>
  BY DEF Cut
<1>2. l \in Socket(minted, now) /\ Ends(l, obj)
  <2>1. W.conn[c] \in Socket(W.minted, now) /\ Ends(W.conn[c], W.obj) BY HereIs, SocketOf
  <2> QED BY <2>1, HereIs
<1>3. yes \in BOOLEAN OBVIOUS
<1> HIDE DEF yes, l
<1>4. /\ k \in Socket(minted, now) /\ k.st = l.st /\ k.o = l.o /\ k.from = l.from /\ k.to = l.to
  BY <1>2, <1>3 DEF Socket
<1> HIDE DEF k
<1>5. Ends(k, obj) /\ Stays(l, k) BY <1>2, <1>4 DEF Ends, Stays
<1> QED BY <1>1, <1>4, <1>5, SocketLasts DEF l

\* ... a cache that is emptied,
LEMMA ForgetLasts ==
    ASSUME ConstantsOK, Federated, NEW r \in Relay, Forget(r)
    PROVE  Federated'
<1> DEFINE none == {}
           w == [W EXCEPT !.cache = [cache EXCEPT ![r] = none]]
<1>1. /\ ScOK /\ now \in Nat /\ Good(W, now) /\ W.conn = conn /\ W.obj = obj /\ W.minted = minted
      /\ W.peers = peers /\ W.cache = cache
  BY HereIs
<1>2. /\ now' = now /\ weekOld' = weekOld /\ book' = book /\ forgot' = forgot \cup {r}
      /\ ousted' = ousted /\ shadowed' = shadowed /\ minted' = minted /\ overlap' = overlap
      /\ Fault
  BY DEF Forget, gos
<1>3. ScOK' /\ Same BY <1>1, <1>2, BudgetsAre
<1>4. W' = w BY DEF Forget, W
<1>5. none \subseteq 1..minted OBVIOUS
<1> HIDE DEF none
<1>6. cache \in [Relay -> SUBSET (1..minted)] BY <1>1, WorldParts
<1>7. [cache EXCEPT ![r] = none] \in [Relay -> SUBSET (1..minted)] BY <1>5, <1>6
<1>8. /\ w.conn = W.conn /\ w.obj = W.obj /\ w.peers = W.peers /\ w.minted = W.minted
      /\ w.lost = W.lost /\ w.cache = [cache EXCEPT ![r] = none]
      /\ w = [conn |-> w.conn, obj |-> w.obj, peers |-> w.peers, cache |-> w.cache,
              minted |-> w.minted, lost |-> w.lost]
  <2> HIDE DEF w
  <2>1. w = [conn |-> conn, obj |-> obj, peers |-> peers, cache |-> [cache EXCEPT ![r] = none],
             minted |-> minted, lost |-> lost]
    BY DEF W, w
  <2> QED BY <2>1 DEF W
<1> HIDE DEF w
<1>9. Typed(w, now)
  <2>1. Typed(W, now) BY <1>1 DEF Good
  <2>2. /\ W.conn \in [1..MaxConns -> Socket(W.minted, now)] /\ W.obj \in [1..MaxObjs -> PeerObj]
        /\ W.peers \in PeerMap /\ W.minted \in Nat /\ W.lost \in SUBSET Nat
    BY <1>1, WorldParts
  <2> QED BY <1>1, <1>7, <1>8, <2>1, <2>2, TypedWhole
<1>10. Good(w, now) /\ Even(W, w)
  <2>1. Lasting(W, w) BY <1>8 DEF Lasting
  <2> QED BY <1>1, <1>8, <1>9, <2>1, GoodFrom
<1>11. Tame(W, w) /\ Good(w, now') BY <1>2, <1>10, EvenTame
<1>12. \A a \in Relay \ ousted' : ~Ousts(w, a) BY <1>1, <1>8 DEF Ousts
<1>13. /\ now' \in Nat /\ weekOld' \in 0..now' /\ forgot' \subseteq Relay /\ ousted' \subseteq Relay
       /\ shadowed' \subseteq Relay \X (1..minted') /\ book' \in [Relay -> [Relay -> 0..now']]
  BY <1>2 DEF Federated, Books
<1> QED BY <1>2, <1>3, <1>4, <1>11, <1>12, <1>13, StepIs

\* ... the clock,
LEMMA WeekLasts ==
    ASSUME ConstantsOK, Federated, Week \/ UNCHANGED vars
    PROVE  Federated'
<1>1. /\ ScOK /\ now \in Nat /\ Good(W, now) /\ W.peers = peers
  BY HereIs
<1>2. /\ W' = W /\ now' = now /\ (weekOld' = now \/ weekOld' = weekOld) /\ book' = book
      /\ forgot' = forgot /\ ousted' = ousted /\ shadowed' = shadowed /\ minted' = minted
      /\ overlap' = overlap
      /\ sc' = sc \/ (sc.weeks > 0 /\ sc' = [sc EXCEPT !.weeks = @ - 1])
  BY DEF Week, vars, W, net, gos, hist
<1>3. ScOK' /\ Same BY <1>1, <1>2, BudgetsAre
<1>4. Tame(W, W) /\ Good(W, now') BY <1>1, <1>2, EvenSelf, EvenTame
<1>5. \A a \in Relay \ ousted' : ~Ousts(W, a) BY <1>1 DEF Ousts
<1>6. /\ now' \in Nat /\ weekOld' \in 0..now' /\ forgot' \subseteq Relay /\ ousted' \subseteq Relay
      /\ shadowed' \subseteq Relay \X (1..minted') /\ book' \in [Relay -> [Relay -> 0..now']]
  BY <1>2 DEF Federated, Books
<1> QED BY <1>2, <1>3, <1>4, <1>5, <1>6, StepIs

-----------------------------------------------------------------------------
\* An eviction takes a relay dialled on demand out of the map.
LEMMA EvictLasts ==
    ASSUME ConstantsOK, Federated, NEW r \in Relay, NEW p \in Relay, Evict(r, p)
    PROVE  Federated'
<1> DEFINE o == peers[r][p]
           l == obj[o]
           c == l.ws
           b == l.beat
           yes == TRUE
           no == FALSE
           y == [l EXCEPT !.evicted = yes, !.timer = no, !.beat = 0]
           a == SetObj(W, o, y)
           u == SetPeer(a, r, p, 0)
           v == IF b = 0 THEN u ELSE SetConn(u, b, SetBeat(u.conn[b], EndOf(W, o, b), FALSE))
           z == IF c = 0 THEN v ELSE Close(v, c, EndOf(W, o, c))
           w == Swept(z)
<1>1. /\ ScOK /\ now \in Nat /\ Good(W, now) /\ W.conn = conn /\ W.obj = obj /\ W.minted = minted
      /\ W.peers = peers
  BY HereIs
<1>2. /\ UNCHANGED <<book, now, weekOld, forgot, shadowed, overlap>>
      /\ sc.evictions > 0 /\ sc' = [sc EXCEPT !.evictions = @ - 1]
      /\ o # 0 /\ l.learned
  BY DEF Evict, gos, hist
<1>3. ScOK' /\ Same BY <1>1, <1>2, BudgetsAre
<1>4. Become(w)
  <2>1. [W EXCEPT !.obj[o] = [@ EXCEPT !.evicted = TRUE, !.timer = FALSE, !.beat = 0],
                  !.peers[r][p] = 0] = u
    BY DEF W, SetObj, SetPeer
  <2>2. (IF b = 0 THEN u ELSE [u EXCEPT !.conn[b].beat[EndOf(W, o, b)] = FALSE]) = v
    <3> HIDE DEF u
    <3> QED BY DEF SetConn, SetBeat
  <2> HIDE DEF u
  <2>3. Become(Swept(IF c = 0
                     THEN IF b = 0 THEN u ELSE [u EXCEPT !.conn[b].beat[EndOf(W, o, b)] = FALSE]
                     ELSE Close(IF b = 0 THEN u
                                ELSE [u EXCEPT !.conn[b].beat[EndOf(W, o, b)] = FALSE],
                                c, EndOf(W, o, c))))
    BY <2>1, ZenonT(60) DEF Evict
  <2> HIDE DEF v
  <2> QED BY <2>2, <2>3, ZenonT(60)
<1>5. yes \in BOOLEAN /\ no \in BOOLEAN /\ ~no OBVIOUS
<1> HIDE DEF yes, no
<1>6. o \in 1..MaxObjs /\ l \in PeerObj /\ Object(l)
  <2>1. o \in 1..MaxObjs BY <1>1, <1>2, ObjectsNamed
  <2>2. W.obj \in [1..MaxObjs -> PeerObj] BY <1>1, WorldParts
  <2> QED BY <1>1, <2>1, <2>2 DEF Good
<1>7. b \in 0..MaxConns /\ c \in 0..MaxConns /\ MaxConns \in Nat
  BY <1>6 DEF PeerObj, ConstantsOK
<1>8. <<r, p>> \notin ToSet(sc.file)
  <2> SUFFICES ASSUME <<r, p>> \in ToSet(sc.file) PROVE FALSE
    OBVIOUS
  <2>1. PICK i \in DOMAIN sc.file : sc.file[i] = <<r, p>> BY DEF ToSet
  <2>2. peers[r][p] = i /\ ~obj[i].learned BY <1>1, <2>1 DEF Good, Mapped
  <2> QED BY <1>2, <2>2
<1> HIDE DEF o, b, c
<1>9. /\ y \in PeerObj /\ Object(y) /\ y.owner = l.owner /\ y.about = l.about
      /\ y.learned = l.learned /\ y.dynamic = l.dynamic
  <2>1. 0 \in 0..MaxConns BY <1>7
  <2> HIDE DEF l
  <2> QED BY <1>5, <1>6, <2>1 DEF PeerObj, Object
<1>10. l = W.obj[o] BY <1>1
<1> HIDE DEF y, l
<1>11. Good(a, now) /\ Even(W, a) BY <1>1, <1>6, <1>9, <1>10, ObjectChange
<1> HIDE DEF a
<1>12. Good(u, now) /\ Tame(a, u) BY <1>1, <1>8, <1>11, Unmap
<1> HIDE DEF u
<1>13. Good(v, now) /\ Even(u, v)
  <2>1. CASE b = 0 BY <1>12, <2>1, EvenSelf
  <2>2. CASE b # 0
    <3> DEFINE e == EndOf(W, o, b)
    <3>1. e \in End /\ b \in 1..MaxConns BY <1>7, <2>2, EndIs
    <3>2. v = SetConn(u, b, SetBeat(u.conn[b], e, FALSE)) BY <2>2
    <3> HIDE DEF e, v
    <3> QED BY <1>1, <1>12, <3>1, <3>2, BeatOff
  <2> QED BY <2>1, <2>2
<1> HIDE DEF v
<1>14. Good(z, now) /\ Even(v, z)
  <2>1. CASE c = 0 BY <1>13, <2>1, EvenSelf
  <2>2. CASE c # 0
    <3> DEFINE e == EndOf(W, o, c)
    <3>1. e \in End /\ c \in 1..MaxConns BY <1>7, <2>2, EndIs
    <3>2. z = Close(v, c, e) BY <2>2
    <3> HIDE DEF e, z
    <3> QED BY <1>1, <1>13, <3>1, <3>2, CloseIs
  <2> QED BY <2>1, <2>2
<1> HIDE DEF z
<1>15. Good(w, now) /\ Even(z, w) BY <1>1, <1>14, SweptIs
<1> HIDE DEF w
<1>16. Tame(W, w)
  <2>1. Tame(W, u) BY <1>11, <1>12, EvenThenTame
  <2>2. Even(u, w) BY <1>13, <1>14, <1>15, EvenEven
  <2> QED BY <2>1, <2>2, TameThenEven
<1> QED BY <1>2, <1>3, <1>4, <1>15, <1>16, HandledIs

-----------------------------------------------------------------------------
\* A frame is taken from a socket of the relay that reads it.
LEMMA RestIs ==
    ASSUME ConstantsOK, Federated, NEW c \in 1..MaxConns, NEW e \in End, Reads(c, e)
    PROVE  LET w == Rest(c, e)
           IN  /\ Good(w, now) /\ Even(W, w) /\ w.minted = minted /\ (Room => RoomIn(w))
               /\ Frame(c, e) \in Wire(minted, now)
               /\ Reader(c, e) \in Relay /\ Sender(c, e) \in Relay
<1> DEFINE l == conn[c]
           q == l.q[e]
           x == Tail(q)
           k == SetQueue(l, e, x)
           w == SetConn(W, c, k)
<1>1. /\ ScOK /\ now \in Nat /\ Good(W, now) /\ W.conn = conn /\ W.obj = obj /\ W.minted = minted
      /\ W.peers = peers
  BY HereIs
<1>2. l \in Socket(minted, now) /\ Ends(l, obj) /\ q \in Seq(Wire(minted, now))
  <2>1. /\ W.conn[c] \in Socket(W.minted, now) /\ Ends(W.conn[c], W.obj)
        /\ W.conn[c].q \in [End -> Seq(Wire(W.minted, now))]
    BY <1>1, SocketOf
  <2> QED BY <1>1, <2>1
<1>3. w = Rest(c, e)
  <2>1. w = [W EXCEPT !.conn[c].q[e] = x] BY <1>1 DEF SetConn, SetQueue
  <2> QED BY <1>1, <2>1 DEF Rest
<1>4. q # <<>> /\ l.st[e] \in {"up", "closing"} BY DEF Reads
<1>5. x \in Seq(Wire(minted, now)) /\ Head(q) \in Wire(minted, now)
  <2> HIDE DEF q
  <2> QED BY <1>2, <1>4
<1>6. l # NoConn
  <2>1. NoConn.q[e] = <<>> BY DEF NoConn
  <2> QED BY <1>4, <2>1
<1>7. Reader(c, e) \in Relay /\ Sender(c, e) \in Relay
  <2>1. e = "i" \/ e = "r" BY DEF End
  <2> QED BY <1>2, <1>4, <2>1 DEF Ends, Reader, Sender
<1> HIDE DEF q, x
<1>8. /\ k \in Socket(minted, now) /\ k.st = l.st /\ k.o = l.o /\ k.from = l.from /\ k.to = l.to
  <2> HIDE DEF l
  <2> QED BY <1>2, <1>5, QueueSetIs
<1> HIDE DEF k
<1>9. Ends(k, obj) /\ Stays(l, k) BY <1>2, <1>8 DEF Ends, Stays
<1>10. /\ Good(w, now) /\ Even(W, w) /\ w.obj = obj /\ w.minted = minted
       /\ \A d \in 1..MaxConns : w.conn[d] = IF d = c THEN k ELSE conn[d]
  BY <1>1, <1>8, <1>9, SocketChange
<1> HIDE DEF w
<1>11. Room => RoomIn(w)
  <2> SUFFICES ASSUME sc.public # {}, FreeConns(W) # {}, FreeObjs(W) # {}
               PROVE  FreeConns(w) # {} /\ FreeObjs(w) # {}
    BY DEF Room, RoomIn
  <2>1. FreeObjs(w) = FreeObjs(W) BY <1>1, <1>10 DEF FreeObjs
  <2>2. PICK d \in 1..sc.conns : conn[d] = NoConn BY <1>1 DEF FreeConns
  <2>3. d \in 1..MaxConns
    <3>1. sc.conns \in Nat /\ sc.conns <= MaxConns /\ MaxConns \in Nat
      BY <1>1 DEF ScOK, ScenarioOK, Scenario, ConstantsOK
    <3> QED BY <3>1
  <2>4. d # c BY <1>6, <2>2
  <2>5. w.conn[d] = NoConn BY <1>10, <2>2, <2>3, <2>4
  <2> QED BY <2>1, <2>2, <2>5 DEF FreeConns
<1>12. Frame(c, e) = Head(q) BY DEF Frame, q
<1> QED BY <1>3, <1>5, <1>7, <1>10, <1>11, <1>12

\* The fields a frame has, by its kind.
LEMMA FrameKinds ==
    ASSUME NEW m, NEW t, NEW f \in Wire(m, t)
    PROVE  /\ f.k = "fwd" => f.pk \in Nat /\ f.id \in 1..m /\ f.n \in Nat
                             /\ [f EXCEPT !.n = @ + 1] \in Wire(m, t)
           /\ f.k = "routed" => f.pk \in Nat /\ f.n \in Nat /\ f.to \in Relay
           /\ f.k = "onion" => f.pk \in Nat /\ f.path \in Seq(Relay) \ {<<>>}
           /\ f.k = "gossip" => f.recs \subseteq Relay \X (0..t)
<1> DEFINE F == [k : {"fwd"}, pk : Nat, id : 1..m, n : Nat]
           G == [k : {"gossip"}, recs : SUBSET (Relay \X (0..t))]
<1>1. f \in F \cup Routed \cup Onion \cup G BY DEF Wire
<1>2. CASE f \in F
  <2>1. f.pk \in Nat /\ f.id \in 1..m /\ f.n \in Nat /\ f.k = "fwd" BY <1>2
  <2> DEFINE n == f.n + 1
  <2>2. n \in Nat BY <2>1
  <2> HIDE DEF n
  <2>3. [f EXCEPT !.n = n] \in F BY <1>2, <2>2
  <2>4. [f EXCEPT !.n = @ + 1] = [f EXCEPT !.n = n] BY DEF n
  <2>5. F \subseteq Wire(m, t) BY DEF Wire
  <2> HIDE DEF F
  <2> QED BY <2>1, <2>3, <2>4, <2>5
<1>3. CASE f \in Routed BY <1>3 DEF Routed
<1>4. CASE f \in Onion BY <1>4 DEF Onion
<1>5. CASE f \in G BY <1>5
<1> QED BY <1>1, <1>2, <1>3, <1>4, <1>5

\* An id enters the cache.
LEMMA CachedIs ==
    ASSUME ScOK, ConstantsOK, NEW w, NEW t, Good(w, t), NEW r \in Relay, NEW id \in 1..w.minted
    PROVE  LET v == [w EXCEPT !.cache[r] = @ \cup {id}]
           IN  Good(v, t) /\ Even(w, v) /\ v.minted = w.minted
<1> DEFINE more == w.cache[r] \cup {id}
           v == [w EXCEPT !.cache = [w.cache EXCEPT ![r] = more]]
<1>1. /\ w.conn \in [1..MaxConns -> Socket(w.minted, t)] /\ w.obj \in [1..MaxObjs -> PeerObj]
      /\ w.peers \in PeerMap /\ w.cache \in [Relay -> SUBSET (1..w.minted)]
      /\ w.minted \in Nat /\ w.lost \in SUBSET Nat /\ w \in World(w.minted, t)
  BY WorldParts
<1>2. more \in SUBSET (1..w.minted)
  <2>1. w.cache[r] \subseteq 1..w.minted BY <1>1
  <2> QED BY <2>1
<1>3. [w EXCEPT !.cache[r] = @ \cup {id}] = v BY <1>1 DEF World
<1> HIDE DEF more
<1>4. [w.cache EXCEPT ![r] = more] \in [Relay -> SUBSET (1..w.minted)] BY <1>1, <1>2
<1>5. /\ v.conn = w.conn /\ v.obj = w.obj /\ v.peers = w.peers /\ v.minted = w.minted
      /\ v.lost = w.lost /\ v.cache = [w.cache EXCEPT ![r] = more]
      /\ v = [conn |-> v.conn, obj |-> v.obj, peers |-> v.peers, cache |-> v.cache,
              minted |-> v.minted, lost |-> v.lost]
  BY <1>1 DEF World
<1> HIDE DEF v
<1>6. Typed(v, t)
  <2>1. Typed(w, t) BY DEF Good
  <2> QED BY <1>1, <1>4, <1>5, <2>1, TypedWhole
<1>7. Lasting(w, v) BY <1>5 DEF Lasting
<1>8. Good(v, t) /\ Even(w, v) BY <1>5, <1>6, <1>7, GoodFrom
<1> QED BY <1>3, <1>5, <1>8

-----------------------------------------------------------------------------
\* A frame that is lost, sent on, or taken.
LEMMA LoseGood ==
    ASSUME ScOK, ConstantsOK, NEW w, NEW t, Good(w, t), NEW f \in Wire(w.minted, t)
    PROVE  Good(Lose(w, f), t) /\ Even(w, Lose(w, f))
<1> DEFINE v == Lose(w, f)
<1>1. f \in Wire(w.minted, t) \cup Queued OBVIOUS
<1>2. Typed(v, t) /\ Alike(w, v) BY <1>1, LosesFrames
<1> HIDE DEF v
<1>3. Good(v, t) /\ Even(w, v) BY <1>2, AlikeGood
<1> QED BY <1>3 DEF v

\* ... a flooded frame, delivered or fanned out,
LEMMA HandleForwardLasts ==
    ASSUME ConstantsOK, Federated, NEW c \in 1..MaxConns, NEW e \in End, HandleForward(c, e)
    PROVE  Federated'
<1> DEFINE f == Frame(c, e)
           r == Reader(c, e)
           s == Sender(c, e)
           u == Rest(c, e)
           w == [u EXCEPT !.cache[r] = @ \cup {f.id}]
           g == [f EXCEPT !.n = @ + 1]
           lose == Lose(w, f)
           on == IF r \in sc.home THEN w ELSE fanOut(w, r, g, s)
<1>1. ScOK /\ now \in Nat /\ Good(W, now) BY HereIs
<1>2. Reads(c, e) /\ f.k = "fwd" /\ sc' = sc /\ book' = book /\ now' = now /\ weekOld' = weekOld
  BY DEF HandleForward, gos
<1>3. \/ Become(u) /\ shadowed' = shadowed /\ forgot' = forgot /\ overlap' = overlap
      \/ Become(lose) /\ shadowed' = shadowed \cup {<<r, f.id>>} /\ forgot' = forgot
         /\ overlap' = overlap
      \/ Become(on) /\ shadowed' = shadowed /\ forgot' = forgot /\ overlap' = overlap
  <2> HIDE DEF lose, on, w, u, r, f
  <2>1. \/ Become(u) /\ UNCHANGED hist
        \/ Become(Lose([u EXCEPT !.cache[r] = @ \cup {f.id}], f))
           /\ shadowed' = shadowed \cup {<<r, f.id>>}
           /\ UNCHANGED <<classified, again, forgot, overlap>>
        \/ Become(IF r \in sc.home THEN [u EXCEPT !.cache[r] = @ \cup {f.id}]
                  ELSE fanOut([u EXCEPT !.cache[r] = @ \cup {f.id}], r, [f EXCEPT !.n = @ + 1],
                              Sender(c, e)))
           /\ UNCHANGED <<forgot, shadowed, overlap>>
    BY DEF HandleForward, u, r, f
  <2> QED BY <2>1 DEF hist, lose, on, w
<1>4. ScOK' /\ Same BY <1>1, <1>2, BudgetsAre
<1>5. /\ Good(u, now) /\ Even(W, u) /\ u.minted = minted /\ f \in Wire(minted, now)
      /\ r \in Relay /\ s \in Relay
  BY <1>2, RestIs
<1> HIDE DEF f, r, s, u
<1>6. f.id \in 1..minted /\ g \in Wire(minted, now) BY <1>2, <1>5, FrameKinds
<1>7. Good(w, now) /\ Even(u, w) /\ w.minted = minted BY <1>1, <1>5, <1>6, CachedIs
<1> HIDE DEF w, g
<1>8. Good(lose, now) /\ Even(w, lose) BY <1>1, <1>5, <1>7, LoseGood
<1>9. Good(on, now) /\ Even(w, on)
  <2>1. CASE r \in sc.home BY <1>7, <2>1, EvenSelf
  <2>2. CASE r \notin sc.home
    <3> DEFINE v == fanOut(w, r, g, s)
    <3>1. Typed(v, now) /\ Alike(w, v) BY <1>1, <1>6, <1>7, FanOutIs
    <3> HIDE DEF v
    <3>2. Good(v, now) /\ Even(w, v) BY <1>1, <1>7, <3>1, AlikeGood
    <3> QED BY <2>2, <3>2 DEF v
  <2> QED BY <2>1, <2>2
<1> HIDE DEF lose, on
<1>10. Tame(W, u) /\ Tame(W, lose) /\ Tame(W, on) BY <1>5, <1>7, <1>8, <1>9, EvenEven, EvenTame
<1>11. /\ now' \in Nat /\ weekOld' \in 0..now' /\ book' \in [Relay -> [Relay -> 0..now']]
       /\ forgot \subseteq Relay
  BY <1>2 DEF Federated, Books
<1>12. <<r, f.id>> \in Relay \X (1..minted) BY <1>5, <1>6
<1>13. \/ Become(u) /\ shadowed' = shadowed
       \/ Become(lose) /\ \E x \in Relay \X (1..minted) : shadowed' = shadowed \cup {x}
       \/ Become(on) /\ shadowed' = shadowed
  BY <1>3, <1>12
<1>14. forgot' \subseteq Relay /\ overlap' = overlap BY <1>3, <1>11
<1>15. Good(u, now') /\ Good(lose, now') /\ Good(on, now') BY <1>2, <1>5, <1>8, <1>9
<1> QED BY <1>4, <1>10, <1>11, <1>13, <1>14, <1>15, BecomeIs

\* ... a routed frame,
LEMMA HandleRoutedLasts ==
    ASSUME ConstantsOK, Federated, NEW c \in 1..MaxConns, NEW e \in End, HandleRouted(c, e)
    PROVE  Federated'
<1> DEFINE f == Frame(c, e)
           r == Reader(c, e)
           u == Rest(c, e)
           lose == Lose(u, f)
           ws == ForwardToRelay(u, r, f.to, f.pk, f.n)
<1>1. ScOK /\ now \in Nat /\ Good(W, now) BY HereIs
<1>2. /\ Reads(c, e) /\ f.k = "routed" /\ Room /\ sc' = sc
      /\ UNCHANGED <<book, now, weekOld, forgot, shadowed, overlap>>
      /\ Become(lose) \/ \E w \in ws : Become(w)
  BY DEF HandleRouted, gos, hist
<1>3. ScOK' /\ Same BY <1>1, <1>2, BudgetsAre
<1>4. /\ Good(u, now) /\ Even(W, u) /\ u.minted = minted /\ f \in Wire(minted, now)
      /\ r \in Relay /\ RoomIn(u)
  BY <1>2, RestIs
<1> HIDE DEF f, r, u
<1>5. f.pk \in Nat /\ f.n \in Nat /\ f.to \in Relay BY <1>2, <1>4, FrameKinds
<1>6. Good(lose, now) /\ Even(u, lose) BY <1>1, <1>4, LoseGood
<1>7. \A w \in ws : Good(w, now) /\ Tame(u, w) BY <1>1, <1>4, <1>5, ForwardToRelayIs
<1> HIDE DEF lose, ws
<1>8. Tame(W, lose) /\ \A w \in ws : Tame(W, w)
  BY <1>4, <1>6, <1>7, EvenEven, EvenTame, EvenThenTame
<1>9. PICK w \in {lose} \cup ws : Become(w) BY <1>2
<1>10. Good(w, now) /\ Tame(W, w) BY <1>6, <1>7, <1>8
<1> QED BY <1>2, <1>3, <1>9, <1>10, HandledIs

\* ... an onion frame, peeled and sent on,
LEMMA HandleOnionLasts ==
    ASSUME ConstantsOK, Federated, NEW c \in 1..MaxConns, NEW e \in End, HandleOnion(c, e)
    PROVE  Federated'
<1> DEFINE f == Frame(c, e)
           r == Reader(c, e)
           u == Rest(c, e)
           lose == Lose(u, f)
           path == Tail(f.path)
           ws == sendOnionTo(u, r, path, f.pk)
<1>1. ScOK /\ now \in Nat /\ Good(W, now) BY HereIs
<1>2. /\ Reads(c, e) /\ f.k = "onion" /\ Room /\ sc' = sc
      /\ UNCHANGED <<book, now, weekOld, forgot, shadowed, overlap>>
      /\ Become(u) \/ Become(lose) \/ (Len(f.path) # 1 /\ \E w \in ws : Become(w))
  BY DEF HandleOnion, gos
<1>3. ScOK' /\ Same BY <1>1, <1>2, BudgetsAre
<1>4. /\ Good(u, now) /\ Even(W, u) /\ u.minted = minted /\ f \in Wire(minted, now)
      /\ r \in Relay /\ RoomIn(u)
  BY <1>2, RestIs
<1> HIDE DEF f, r, u
<1>5. f.pk \in Nat /\ f.path \in Seq(Relay) \ {<<>>} BY <1>2, <1>4, FrameKinds
<1>6. Good(lose, now) /\ Even(u, lose) BY <1>1, <1>4, LoseGood
<1>7. ASSUME Len(f.path) # 1 PROVE \A w \in ws : Good(w, now) /\ Tame(u, w)
  <2> DEFINE s == f.path
  <2>1. s \in Seq(Relay) /\ s # <<>> /\ Len(s) # 1 BY <1>5, <1>7
  <2> HIDE DEF s
  <2>5. Len(s) \in Nat /\ Len(s) # 0 BY <2>1, EmptySeq
  <2>2. Tail(s) \in Seq(Relay) /\ Len(Tail(s)) = Len(s) - 1 BY <2>1, HeadTailProperties
  <2>3. Tail(s) # <<>>
    <3>1. Len(Tail(s)) # 0 BY <2>1, <2>5, <2>2
    <3>2. Len(<<>>) = 0 OBVIOUS
    <3> HIDE DEF s
    <3> QED BY <3>1, <3>2
  <2>4. path \in Seq(Relay) \ {<<>>} BY <2>2, <2>3 DEF s
  <2> HIDE DEF path
  <2> QED BY <1>1, <1>4, <1>5, <2>4, SendOnionToIs
<1> HIDE DEF lose, ws
<1>8. Tame(W, u) /\ Tame(W, lose) /\ (Len(f.path) # 1 => \A w \in ws : Tame(W, w))
  BY <1>4, <1>6, <1>7, EvenEven, EvenTame, EvenThenTame
<1>9. CASE Become(u) BY <1>2, <1>3, <1>4, <1>8, <1>9, HandledIs
<1>10. CASE Become(lose) BY <1>2, <1>3, <1>6, <1>8, <1>10, HandledIs
<1>11. CASE Len(f.path) # 1 /\ \E w \in ws : Become(w)
  <2>1. PICK w \in ws : Become(w) BY <1>11
  <2>2. Good(w, now) /\ Tame(W, w) BY <1>7, <1>8, <1>11
  <2> QED BY <1>2, <1>3, <2>1, <2>2, HandledIs
<1> QED BY <1>2, <1>9, <1>10, <1>11

-----------------------------------------------------------------------------
\* Address records on the wire.
LEMMA GossipFrame ==
    ASSUME NEW m, NEW t, NEW recs \in SUBSET (Relay \X (0..t))
    PROVE  [k |-> "gossip", recs |-> recs] \in Wire(m, t)
  BY DEF Wire

\* ... gossip, told to the others,
LEMMA HandleGossipLasts ==
    ASSUME ConstantsOK, Federated, NEW c \in 1..MaxConns, NEW e \in End, HandleGossip(c, e)
    PROVE  Federated'
<1> DEFINE f == Frame(c, e)
           r == Reader(c, e)
           u == Rest(c, e)
           changed == {x \in f.recs : x[1] # r /\ x[2] > weekOld /\ Newer(r, x)}
           Told(p) == {x \in changed : x[1] # p /\ x[2] > book[p][x[1]]}
           D == {x \in Relay \ {Sender(c, e)} : Linked(W, r, x) /\ Told(x) # {}}
           fs == [p \in D |-> [k |-> "gossip", recs |-> Told(p)]]
           w == SendEach(u, r, fs)
           b == [p \in Relay |-> IF \E x \in changed : x[1] = p
                                 THEN (CHOOSE x \in changed : x[1] = p)[2] ELSE book[r][p]]
<1>1. ScOK /\ now \in Nat /\ Good(W, now) /\ book \in Books BY HereIs
<1>2. /\ Reads(c, e) /\ f.k = "gossip" /\ sc' = sc /\ now' = now /\ weekOld' = weekOld
      /\ book' = [book EXCEPT ![r] = b] /\ Become(w)
      /\ forgot' = forgot /\ shadowed' = shadowed /\ overlap' = overlap
  <2> HIDE DEF f, r, u
  <2> QED BY DEF HandleGossip, hist, f, r, u
<1>3. ScOK' /\ Same BY <1>1, <1>2, BudgetsAre
<1>4. /\ Good(u, now) /\ Even(W, u) /\ u.minted = minted /\ f \in Wire(minted, now) /\ r \in Relay
  BY <1>2, RestIs
<1> HIDE DEF f, r, u
<1>5. changed \subseteq Relay \X (0..now)
  <2>1. f.recs \subseteq Relay \X (0..now) BY <1>2, <1>4, FrameKinds
  <2> QED BY <2>1
<1> HIDE DEF changed
<1>6. b \in [Relay -> 0..now]
  <2> SUFFICES ASSUME NEW p \in Relay
               PROVE  (IF \E x \in changed : x[1] = p
                       THEN (CHOOSE x \in changed : x[1] = p)[2] ELSE book[r][p]) \in 0..now
    OBVIOUS
  <2>1. book[r][p] \in 0..now BY <1>1, <1>4 DEF Books
  <2>2. ASSUME \E x \in changed : x[1] = p
        PROVE  (CHOOSE x \in changed : x[1] = p)[2] \in 0..now
    <3> DEFINE y == CHOOSE x \in changed : x[1] = p
    <3>1. y \in changed BY <2>2
    <3> HIDE DEF y
    <3>2. y[2] \in 0..now BY <1>5, <3>1
    <3> QED BY <3>2 DEF y
  <2> QED BY <2>1, <2>2
<1> HIDE DEF b
<1>7. book' \in [Relay -> [Relay -> 0..now']] BY <1>1, <1>2, <1>4, <1>6 DEF Books
<1>8. D \in SUBSET Relay /\ fs \in [D -> Wire(minted, now)]
  <2>1. D \in SUBSET Relay OBVIOUS
  <2> HIDE DEF D
  <2>2. ASSUME NEW p \in D PROVE [k |-> "gossip", recs |-> Told(p)] \in Wire(minted, now)
    <3> DEFINE s == Told(p)
    <3>1. s \in SUBSET (Relay \X (0..now)) BY <1>5
    <3> HIDE DEF s
    <3>2. [k |-> "gossip", recs |-> s] \in Wire(minted, now) BY <3>1, GossipFrame
    <3> QED BY <3>2 DEF s
  <2> HIDE DEF Told
  <2> QED BY <2>1, <2>2
<1> HIDE DEF D, fs
<1>9. Good(w, now) /\ Even(u, w)
  <2>1. Typed(w, now) /\ Alike(u, w) BY <1>4, <1>8, SendEachIs
  <2> HIDE DEF w
  <2> QED BY <1>1, <1>4, <2>1, AlikeGood
<1> HIDE DEF w
<1>10. Tame(W, w) BY <1>4, <1>9, EvenEven, EvenTame
<1>11. now' \in Nat /\ weekOld' \in 0..now' /\ forgot' \subseteq Relay BY <1>2 DEF Federated
<1>12. Good(w, now') BY <1>2, <1>9
<1> QED BY <1>2, <1>3, <1>7, <1>10, <1>11, <1>12, BecomeIs

\* ... gossip by the clock,
LEMMA PeriodicGossipLasts ==
    ASSUME ConstantsOK, Federated, NEW r \in Relay, PeriodicGossip(r)
    PROVE  Federated'
<1> DEFINE D == ToTell(r)
           fs == [p \in D |-> AddrGossip(r, News(r, p))]
           w == SendEach(W, r, fs)
<1>1. ScOK /\ now \in Nat /\ Good(W, now) /\ book \in Books /\ W.minted = minted BY HereIs
<1>2. Become(w) /\ UNCHANGED <<book, now, weekOld, forgot, shadowed, overlap>> /\ sc' = sc
  BY DEF PeriodicGossip, gos, hist
<1>3. ScOK' /\ Same BY <1>1, <1>2, BudgetsAre
<1>4. D \in SUBSET Relay BY DEF ToTell
<1> HIDE DEF D
<1>5. ASSUME NEW p \in D PROVE AddrGossip(r, News(r, p)) \in Wire(minted, now)
  <2> DEFINE about == News(r, p)
             recs == {<<x, book[r][x]>> : x \in about}
  <2>1. about \subseteq Relay BY DEF News
  <2> HIDE DEF about
  <2>2. recs \in SUBSET (Relay \X (0..now)) BY <1>1, <2>1 DEF Books
  <2>3. AddrGossip(r, about) = [k |-> "gossip", recs |-> recs] BY DEF AddrGossip
  <2> HIDE DEF recs
  <2>4. AddrGossip(r, about) \in Wire(minted, now) BY <2>2, <2>3, GossipFrame
  <2> QED BY <2>4 DEF about
<1>6. fs \in [D -> Wire(minted, now)] BY <1>5
<1> HIDE DEF fs
<1>7. Good(w, now) /\ Even(W, w)
  <2>1. Typed(w, now) /\ Alike(W, w) BY <1>1, <1>4, <1>6, SendEachIs
  <2> HIDE DEF w
  <2> QED BY <1>1, <2>1, AlikeGood
<1> HIDE DEF w
<1>8. Tame(W, w) BY <1>7, EvenTame
<1> QED BY <1>2, <1>3, <1>7, <1>8, HandledIs

\* ... and a packet of a client.
LEMMA SubmitLasts ==
    ASSUME ConstantsOK, Federated, Submit
    PROVE  Federated'
<1> DEFINE r == sc.src
           pk == sc.packets
           flood == forwardFromLocal(W, r, pk)
           to == sc.target
           n == 0
           ws == ForwardToRelay(W, r, to, pk, n)
<1>1. ScOK /\ now \in Nat /\ Good(W, now) BY HereIs
<1>2. /\ UNCHANGED <<book, now, weekOld, forgot, shadowed, overlap>>
      /\ sc.packets > 0 /\ sc' = [sc EXCEPT !.packets = @ - 1] /\ Room
      /\ Become(flood) \/ \E w \in ws : Become(w)
  <2>1. Become(flood) \/ \E w \in ws : Become(w)
    <3>1. \A S : (IF sc.hint THEN S ELSE {}) \subseteq S OBVIOUS
    <3> HIDE DEF ws, flood, pk, r, to
    <3>2. LET us == IF sc.hint THEN ws ELSE {}
          IN  IF us = {} THEN Become(flood) ELSE \E w \in us : Become(w)
      BY DEF Submit, ws, flood, pk, r, to
    <3> QED BY <3>2, Zenon
  <2> QED BY <2>1 DEF Submit, gos, hist
<1>3. ScOK' /\ Same BY <1>1, <1>2, BudgetsAre
<1>4. r \in Relay /\ pk \in Nat /\ to \in Relay /\ n \in Nat BY <1>1 DEF ScOK, Scenario
<1>5. RoomIn(W) BY <1>2 DEF Room, RoomIn
<1> HIDE DEF r, pk, to, n
<1>6. Good(flood, now) /\ Even(W, flood)
  <2>1. Typed(flood, now) /\ Alike(W, flood) BY <1>1, <1>4, ForwardFromLocalIs
  <2> HIDE DEF flood
  <2> QED BY <1>1, <2>1, AlikeGood
<1>7. \A w \in ws : Good(w, now) /\ Tame(W, w) BY <1>1, <1>4, <1>5, ForwardToRelayIs
<1> HIDE DEF flood, ws
<1>8. PICK w \in {flood} \cup ws : Become(w) BY <1>2
<1>9. Good(w, now) /\ Tame(W, w) BY <1>6, <1>7, <1>8, EvenTame
<1> QED BY <1>2, <1>3, <1>8, <1>9, HandledIs

-----------------------------------------------------------------------------
\* The sockets and objects of a start with the links up.
LinkedObj(i, n) == [ConfiguredObj(i) EXCEPT !.timer = FALSE, !.est = TRUE, !.ws = n, !.beat = n]
IsDialled(i) == i \in DOMAIN sc.file /\ sc.file[i] \in sc.dials
SocketOfPair(i) == IF IsDialled(i) THEN i ELSE IndexOf(<<sc.file[i][2], sc.file[i][1]>>)

\* The objects of links that are up at the start,
LEMMA LinkedObjIs ==
    ASSUME ScOK, ConstantsOK, NEW i \in DOMAIN sc.file, NEW n \in 1..MaxConns
    PROVE  LET x == LinkedObj(i, n)
           IN  /\ x \in PeerObj /\ x.owner = sc.file[i][1] /\ x.about = sc.file[i][2]
               /\ ~x.learned /\ ~x.dynamic /\ Object(x)
<1> DEFINE y == ConfiguredObj(i)
           no == FALSE
           yes == TRUE
           x == LinkedObj(i, n)
<1>1. /\ y \in PeerObj /\ y.owner = sc.file[i][1] /\ y.about = sc.file[i][2]
      /\ ~y.learned /\ ~y.dynamic /\ Object(y)
  BY ConfiguredObjIs
<1>2. x = [y EXCEPT !.timer = no, !.est = yes, !.ws = n, !.beat = n] BY Zenon DEF LinkedObj
<1>3. no \in BOOLEAN /\ yes \in BOOLEAN /\ ~no /\ n \in 0..MaxConns /\ n # 0 OBVIOUS
<1> HIDE DEF x, y, no, yes
<1>4. /\ x \in PeerObj /\ x.owner = y.owner /\ x.about = y.about /\ x.learned = y.learned
      /\ x.dynamic = y.dynamic /\ x.beat = n /\ x.ws = n /\ x.timer = no /\ x.pending = y.pending
  BY <1>1, <1>2, <1>3 DEF PeerObj
<1>5. Object(x) BY <1>1, <1>3, <1>4 DEF Object
<1> QED BY <1>1, <1>4, <1>5 DEF x

\* Both sides of a pair are in the file, and one of them dials, on a socket of its own.
LEMMA PairsLinked ==
    ASSUME ScOK, ConstantsOK, sc.up, NEW i \in DOMAIN sc.file
    PROVE  LET j == IndexOf(<<sc.file[i][2], sc.file[i][1]>>)
           IN  /\ j \in DOMAIN sc.file /\ j \in 1..MaxObjs
               /\ sc.file[j] = <<sc.file[i][2], sc.file[i][1]>>
               /\ SocketOfPair(i) \in 1..MaxConns
<1> DEFINE back == <<sc.file[i][2], sc.file[i][1]>>
           j == IndexOf(back)
<1>1. /\ back \in ToSet(sc.file) /\ {sc.file[i], back} \cap sc.dials # {}
      /\ ToSet(sc.file) = sc.dials \cup sc.listed
      /\ \A k \in DOMAIN sc.file : sc.file[k] \in sc.dials => k <= MaxConns
  BY DEF ScOK, ScenarioOK
<1>2. /\ \A k \in DOMAIN sc.file : k \in 1..MaxObjs /\ sc.file[k] \in Relay \X Relay
      /\ \A r, p \in Relay : Configured(r, p) =>
           IndexOf(<<r, p>>) \in DOMAIN sc.file /\ sc.file[IndexOf(<<r, p>>)] = <<r, p>>
  BY IndexOfIs
<1>3. sc.file[i][1] \in Relay /\ sc.file[i][2] \in Relay BY <1>2
<1>4. Configured(sc.file[i][2], sc.file[i][1]) BY <1>1 DEF Configured
<1>5. j \in DOMAIN sc.file /\ sc.file[j] = back BY <1>2, <1>3, <1>4
<1>6. SocketOfPair(i) \in 1..MaxConns
  <2>1. \A k \in DOMAIN sc.file : sc.file[k] \in sc.dials => k \in 1..MaxConns
    <3> SUFFICES ASSUME NEW k \in DOMAIN sc.file, sc.file[k] \in sc.dials
                 PROVE  k \in 1..MaxConns
      OBVIOUS
    <3>1. k \in 1..MaxObjs /\ k <= MaxConns /\ MaxConns \in Nat /\ MaxObjs \in Nat
      BY <1>1, <1>2 DEF ConstantsOK
    <3> QED BY <3>1
  <2>2. CASE IsDialled(i)
    <3>1. SocketOfPair(i) = i BY <2>2 DEF SocketOfPair
    <3> QED BY <2>1, <2>2, <3>1 DEF IsDialled
  <2>3. CASE ~IsDialled(i)
    <3>1. back \in sc.dials BY <1>1, <2>3 DEF IsDialled
    <3>2. SocketOfPair(i) = j BY <2>3 DEF SocketOfPair
    <3> HIDE DEF back, j
    <3> QED BY <1>5, <2>1, <3>1, <3>2
  <2> QED BY <2>2, <2>3
<1> QED BY <1>2, <1>5, <1>6

\* ... and their sockets.
LEMMA LinkOfIs ==
    ASSUME ScOK, ConstantsOK, sc.up, NEW i \in DOMAIN sc.file, NEW m, NEW t, NEW ob,
           \A j \in DOMAIN sc.file : ob[j].owner = sc.file[j][1] /\ ob[j].about = sc.file[j][2]
    PROVE  LinkOf(i) \in Socket(m, t) /\ Ends(LinkOf(i), ob) /\ LinkOf(i).st["r"] = "up"
<1> DEFINE k == LinkOf(i)
           j == IndexOf(<<sc.file[i][2], sc.file[i][1]>>)
           r == sc.file[i][1]
           p == sc.file[i][2]
           st == [e \in End |-> "up"]
           beat == [e \in End |-> TRUE]
           o == [e \in End |-> IF e = "i" THEN i ELSE j]
           q == [e \in End |-> <<>>]
<1>1. j \in DOMAIN sc.file /\ j \in 1..MaxObjs /\ sc.file[j] = <<p, r>> BY PairsLinked
<1>2. i \in 1..MaxObjs /\ r \in Relay /\ p \in Relay BY IndexOfIs
<1>3. /\ \A a \in 1..MaxObjs : a \in 0..MaxObjs /\ a # 0
      /\ \A e \in End : e = "i" \/ e = "r"
      /\ "i" \in End /\ "r" \in End /\ "i" # "r"
  BY DEF End
<1> HIDE DEF j
<1>4. /\ st \in [End -> StI \cup StR] /\ st["i"] = "up" /\ st["r"] = "up"
      /\ \A e \in End : st[e] # "gone"
  BY <1>3 DEF StI
<1>5. o \in [End -> 0..MaxObjs] /\ o["i"] = i /\ o["r"] = j BY <1>1, <1>2, <1>3
<1>6. beat \in [End -> BOOLEAN] OBVIOUS
<1>7. q \in [End -> Seq(Wire(m, t))] OBVIOUS
<1>8. NoConn = [from |-> 0, to |-> 0, cut |-> FALSE, sent |-> FALSE, bad |-> FALSE,
                st |-> [e \in End |-> "gone"], o |-> [e \in End |-> 0],
                beat |-> [e \in End |-> FALSE], q |-> q]
  BY DEF NoConn
<1>9. k = [NoConn EXCEPT !.from = r, !.to = p, !.sent = TRUE, !.st = st, !.beat = beat, !.o = o]
  BY Zenon DEF LinkOf, Pairs, j
<1> HIDE DEF k, r, p, st, o, beat, q
<1>10. k = [from |-> r, to |-> p, cut |-> FALSE, sent |-> TRUE, bad |-> FALSE,
            st |-> st, o |-> o, beat |-> beat, q |-> q]
  BY <1>8, <1>9
<1>11. k \in Socket(m, t)
  <2>1. r \in Relay \cup {0} /\ p \in Relay \cup {0} /\ FALSE \in BOOLEAN /\ TRUE \in BOOLEAN
    BY <1>2
  <2> QED BY <1>4, <1>5, <1>6, <1>7, <1>10, <2>1, Zenon DEF Socket
<1>12. k.from = r /\ k.to = p /\ k.st = st /\ k.o = o BY <1>10
<1>13. /\ ob[i].owner = r /\ ob[i].about = p /\ ob[j].owner = p /\ ob[j].about = r
  BY <1>1 DEF r, p
<1>14. i # 0 /\ j # 0 BY <1>1, <1>2, <1>3
<1>15. Ends(k, ob) BY <1>2, <1>4, <1>5, <1>12, <1>13, <1>14 DEF Ends, StI, StR
<1> QED BY <1>4, <1>11, <1>12, <1>15 DEF k

-----------------------------------------------------------------------------
\* The objects,
LEMMA StartedObjects ==
    ASSUME ConstantsOK, ScOK, Init
    PROVE  /\ obj \in [1..MaxObjs -> PeerObj] /\ \A o \in 1..MaxObjs : Object(obj[o])
           /\ \A i \in DOMAIN sc.file :
                /\ obj[i].owner = sc.file[i][1] /\ obj[i].about = sc.file[i][2]
                /\ ~obj[i].learned /\ ~obj[i].dynamic
<1> DEFINE up(o) == IF o \in DOMAIN sc.file THEN LinkedObj(o, SocketOfPair(o)) ELSE NoObj
           down(o) == IF o \in DOMAIN sc.file THEN ConfiguredObj(o) ELSE NoObj
<1>1. /\ sc.up => obj = [o \in 1..MaxObjs |-> up(o)]
      /\ ~sc.up => obj = [o \in 1..MaxObjs |-> down(o)]
  BY ZenonT(60) DEF Init, LinkedObj, SocketOfPair, IsDialled, Pairs
<1>2. ASSUME NEW o \in 1..MaxObjs
      PROVE  /\ obj[o] \in PeerObj /\ Object(obj[o])
             /\ o \in DOMAIN sc.file => /\ obj[o].owner = sc.file[o][1] /\ obj[o].about = sc.file[o][2]
                                        /\ ~obj[o].learned /\ ~obj[o].dynamic
  <2>1. CASE o \notin DOMAIN sc.file
    <3>1. obj[o] = NoObj BY <1>1, <2>1
    <3> QED BY <2>1, <3>1, Nothing
  <2>2. CASE o \in DOMAIN sc.file /\ sc.up
    <3> DEFINE n == SocketOfPair(o)
    <3>1. obj[o] = LinkedObj(o, n) BY <1>1, <2>2
    <3>2. n \in 1..MaxConns BY <2>2, PairsLinked
    <3> HIDE DEF n
    <3> QED BY <2>2, <3>1, <3>2, LinkedObjIs
  <2>3. CASE o \in DOMAIN sc.file /\ ~sc.up
    <3>1. obj[o] = ConfiguredObj(o) BY <1>1, <2>3
    <3> QED BY <2>3, <3>1, ConfiguredObjIs
  <2> QED BY <2>1, <2>2, <2>3
<1>3. \A i \in DOMAIN sc.file : i \in 1..MaxObjs BY IndexOfIs
<1>4. obj \in [1..MaxObjs -> PeerObj]
  <2>1. obj = [o \in 1..MaxObjs |-> obj[o]] BY <1>1
  <2> QED BY <1>2, <2>1
<1> QED BY <1>2, <1>3, <1>4

\* ... the sockets,
LEMMA StartedSockets ==
    ASSUME ConstantsOK, ScOK, Init, NEW c \in 1..MaxConns
    PROVE  conn[c] \in Socket(0, 1) /\ Ends(conn[c], obj) /\ conn[c].st["r"] # "accepted"
<1> DEFINE up(d) == IF IsDialled(d) THEN LinkOf(d) ELSE NoConn
<1>1. /\ sc.up => conn = [d \in 1..MaxConns |-> up(d)]
      /\ ~sc.up => conn = [d \in 1..MaxConns |-> NoConn]
  BY ZenonT(60) DEF Init, IsDialled, Pairs
<1>2. conn[c] = NoConn \/ (sc.up /\ IsDialled(c) /\ conn[c] = LinkOf(c)) BY <1>1
<1>3. CASE conn[c] = NoConn BY <1>3, Nothing
<1>4. CASE sc.up /\ IsDialled(c) /\ conn[c] = LinkOf(c)
  <2>1. c \in DOMAIN sc.file BY <1>4 DEF IsDialled
  <2>2. \A j \in DOMAIN sc.file : obj[j].owner = sc.file[j][1] /\ obj[j].about = sc.file[j][2]
    BY StartedObjects
  <2> QED BY <1>4, <2>1, <2>2, LinkOfIs
<1> QED BY <1>2, <1>3, <1>4

\* ... and the maps at the start.
LEMMA StartedMaps ==
    ASSUME ConstantsOK, ScOK, Init
    PROVE  /\ peers \in PeerMap /\ Mapped(peers, obj)
           /\ \A r, p \in Relay : peers[r][p] # 0 => Configured(r, p)
<1> DEFINE j(r, p) == IndexOf(<<r, p>>)
<1>1. peers = [r \in Relay |-> [p \in Relay |-> IF Configured(r, p) THEN j(r, p) ELSE 0]]
  BY ZenonT(60) DEF Init
<1>2. /\ \A r, p \in Relay : Configured(r, p) =>
           j(r, p) \in DOMAIN sc.file /\ sc.file[j(r, p)] = <<r, p>>
      /\ \A i \in DOMAIN sc.file :
           /\ i \in 1..MaxObjs /\ i # 0 /\ sc.file[i] \in Relay \X Relay
           /\ Configured(sc.file[i][1], sc.file[i][2])
           /\ j(sc.file[i][1], sc.file[i][2]) = i
  BY IndexOfIs
<1> HIDE DEF j
<1>3. \A i \in DOMAIN sc.file : /\ obj[i].owner = sc.file[i][1] /\ obj[i].about = sc.file[i][2]
                                /\ ~obj[i].learned /\ ~obj[i].dynamic
  BY StartedObjects
<1>4. \A r, p \in Relay : peers[r][p] = IF Configured(r, p) THEN j(r, p) ELSE 0 BY <1>1
<1>5. peers \in PeerMap
  <2>1. 0 \in 0..MaxObjs /\ \A a \in 1..MaxObjs : a \in 0..MaxObjs BY DEF ConstantsOK
  <2>2. \A r, p \in Relay : (IF Configured(r, p) THEN j(r, p) ELSE 0) \in 0..MaxObjs
    BY <1>2, <2>1
  <2> QED BY <1>1, <2>2 DEF PeerMap
<1>6. Mapped(peers, obj)
  <2>1. ASSUME NEW r \in Relay, NEW p \in Relay, peers[r][p] # 0
        PROVE  obj[peers[r][p]].owner = r /\ obj[peers[r][p]].about = p
    <3>1. Configured(r, p) /\ peers[r][p] = j(r, p) BY <1>4, <2>1
    <3>2. j(r, p) \in DOMAIN sc.file /\ sc.file[j(r, p)] = <<r, p>> BY <1>2, <3>1
    <3> QED BY <1>3, <3>1, <3>2
  <2>2. ASSUME NEW i \in DOMAIN sc.file
        PROVE  peers[sc.file[i][1]][sc.file[i][2]] = i
    <3>1. sc.file[i][1] \in Relay /\ sc.file[i][2] \in Relay BY <1>2
    <3> QED BY <1>2, <1>4, <3>1
  <2> QED BY <1>3, <2>1, <2>2 DEF Mapped
<1> QED BY <1>4, <1>5, <1>6

\* The invariant holds at the start.
LEMMA StartFederated ==
    ASSUME ConstantsOK, Init
    PROVE  Federated
<1>1. ScOK BY ZenonT(60) DEF Init, ScOK, ConstantsOK
<1>2. /\ now = 1 /\ weekOld = 0 /\ minted = 0 /\ lost = {} /\ shadowed = {} /\ forgot = {}
      /\ cache = [r \in Relay |-> {}] /\ overlap = [r \in Relay |-> 0] /\ ousted = {}
  BY ZenonT(60) DEF Init
<1>3. book \in Books
  <2>1. \A r, p \in Relay :
          (IF HasRecord(p) /\ (p = r \/ sc.up \/ sc.known) THEN 1 ELSE 0) \in 0..1
    OBVIOUS
  <2> QED BY <1>2, <2>1, ZenonT(60) DEF Init, Books
<1>4. W.conn = conn /\ W.obj = obj /\ W.peers = peers /\ W.minted = 0 /\ W.lost = {}
      /\ W.cache = cache
  BY <1>2 DEF W
<1>5. /\ obj \in [1..MaxObjs -> PeerObj] /\ \A o \in 1..MaxObjs : Object(obj[o])
      /\ \A c \in 1..MaxConns : /\ conn[c] \in Socket(0, 1) /\ Ends(conn[c], obj)
                                /\ conn[c].st["r"] # "accepted"
      /\ peers \in PeerMap /\ Mapped(peers, obj)
      /\ \A r, p \in Relay : peers[r][p] # 0 => Configured(r, p)
  BY <1>1, StartedObjects, StartedSockets, StartedMaps
<1>6. W \in World(0, 1)
  <2>1. conn \in [1..MaxConns -> Socket(0, 1)]
    <3>1. conn = [c \in 1..MaxConns |-> conn[c]] BY ZenonT(60) DEF Init
    <3> QED BY <1>5, <3>1
  <2>2. cache \in [Relay -> SUBSET (1..0)] BY <1>2
  <2>3. lost \in SUBSET Nat /\ minted \in {0} BY <1>2
  <2> QED BY <1>5, <2>1, <2>2, <2>3 DEF W, World
<1>7. Good(W, now) BY <1>2, <1>4, <1>5, <1>6 DEF Good, Typed
<1>8. CapInv
  <2> SUFFICES ASSUME NEW r \in Relay PROVE Cardinality(Counted(W, r)) <= Most(r)
    BY DEF CapInv
  <2>1. Counted(W, r) \subseteq FromFile(r)
    <3>1. Coming(W, r) = {} BY <1>4, <1>5 DEF Coming, Accepted
    <3>2. Kept(W, r) \subseteq FromFile(r) BY <1>4, <1>5 DEF Kept, FromFile
    <3> QED BY <3>1, <3>2 DEF Counted
  <2>2. IsFiniteSet(FromFile(r))
    <3>1. FromFile(r) \subseteq Relay /\ IsFiniteSet(Relay) BY DEF FromFile, ConstantsOK
    <3> QED BY <3>1, FS_Subset
  <2>3. /\ Cardinality(Counted(W, r)) <= Cardinality(FromFile(r))
        /\ Cardinality(FromFile(r)) \in Nat /\ Cardinality(Counted(W, r)) \in Nat
    BY <2>1, <2>2, FS_Subset, FS_CardinalityType
  <2>4. overlap[r] \in Nat BY <1>2
  <2>5. Most(r) \in Int /\ Cardinality(FromFile(r)) <= Most(r) BY <2>4, MostIs
  <2> QED BY <2>3, <2>5
<1>9. overlap \in [Relay -> 0..MaxConns]
  <2>1. 0 \in 0..MaxConns BY DEF ConstantsOK
  <2> QED BY <1>2, <2>1
<1> QED BY <1>1, <1>2, <1>3, <1>7, <1>8, <1>9 DEF Federated

-----------------------------------------------------------------------------
\* Every step keeps the invariant.
LEMMA StepFederated ==
    ASSUME ConstantsOK, Federated, [Next]_vars
    PROVE  Federated'
<1>1. CASE UNCHANGED vars BY <1>1, WeekLasts
<1>2. CASE Network
  <2>1. PICK c \in 1..MaxConns :
          \/ Open(c) \/ ClientHello(c) \/ ServerHello(c) \/ ClientSignature(c) \/ ServerSignature(c)
          \/ \E e \in End : \/ CloseEvent(c, e) \/ HandshakeTimeout(c, e) \/ HeartbeatTimeout(c, e)
                            \/ HandleForward(c, e) \/ HandleRouted(c, e) \/ HandleOnion(c, e)
                            \/ HandleGossip(c, e)
    BY <1>2 DEF Network
  <2>2. CASE Open(c) BY <2>2, OpenLasts
  <2>3. CASE ClientHello(c) BY <2>3, ClientHelloLasts
  <2>4. CASE ServerHello(c) BY <2>4, ServerHelloLasts
  <2>5. CASE ClientSignature(c) BY <2>5, ClientSignatureLasts
  <2>6. CASE ServerSignature(c) BY <2>6, ServerSignatureLasts
  <2>7. ASSUME NEW e \in End, CloseEvent(c, e) PROVE Federated' BY <2>7, CloseEventLasts
  <2>8. ASSUME NEW e \in End, HandshakeTimeout(c, e) \/ HeartbeatTimeout(c, e) PROVE Federated'
    BY <2>8, TimeoutsLast
  <2>9. ASSUME NEW e \in End, HandleForward(c, e) PROVE Federated' BY <2>9, HandleForwardLasts
  <2>10. ASSUME NEW e \in End, HandleRouted(c, e) PROVE Federated' BY <2>10, HandleRoutedLasts
  <2>11. ASSUME NEW e \in End, HandleOnion(c, e) PROVE Federated' BY <2>11, HandleOnionLasts
  <2>12. ASSUME NEW e \in End, HandleGossip(c, e) PROVE Federated' BY <2>12, HandleGossipLasts
  <2> QED BY <2>1, <2>2, <2>3, <2>4, <2>5, <2>6, <2>7, <2>8, <2>9, <2>10, <2>11, <2>12
<1>3. CASE Timers BY <1>3, TimerLasts, PeriodicGossipLasts DEF Timers
<1>4. CASE Environment
  <2>1. CASE Submit BY <2>1, SubmitLasts
  <2>2. CASE Week BY <2>2, WeekLasts
  <2>3. ASSUME NEW c \in 1..MaxConns, Refuse(c) \/ Cut(c) PROVE Federated'
    BY <2>3, RefuseLasts, CutLasts
  <2>4. ASSUME NEW r \in Relay, NEW p \in Relay, Evict(r, p) PROVE Federated' BY <2>4, EvictLasts
  <2>5. ASSUME NEW r \in Relay, Forget(r) PROVE Federated' BY <2>5, ForgetLasts
  <2>6. ASSUME NEW r \in Relay, NEW half \in BOOLEAN, Restart(r, half) PROVE Federated'
    BY <2>6, RestartLasts
  <2> QED BY <1>4, <2>1, <2>2, <2>3, <2>4, <2>5, <2>6 DEF Environment
<1> QED BY <1>1, <1>2, <1>3, <1>4 DEF Next

\* The invariant gives the types,
LEMMA FederatedTyped ==
    ASSUME ConstantsOK, Federated
    PROVE  TypeOK
<1>1. /\ now \in Nat /\ weekOld \in 0..now /\ book \in Books /\ Good(W, now)
      /\ forgot \subseteq Relay /\ ousted \subseteq Relay
      /\ overlap \in [Relay -> 0..MaxConns] /\ shadowed \subseteq Relay \X (1..minted)
      /\ W.conn = conn /\ W.obj = obj /\ W.peers = peers /\ W.minted = minted /\ W.cache = cache
  BY HereIs DEF Federated
<1>2. /\ conn \in [1..MaxConns -> Socket(minted, now)] /\ obj \in [1..MaxObjs -> PeerObj]
      /\ peers \in PeerMap /\ cache \in [Relay -> SUBSET (1..minted)]
  BY <1>1, WorldParts
<1>3. ASSUME NEW c \in 1..MaxConns
      PROVE  /\ conn[c].st["i"] \in StI /\ conn[c].st["r"] \in StR
             /\ \A e \in End : conn[c].o[e] \in 0..MaxObjs
  <2>1. conn[c] \in Socket(minted, now) /\ Ends(conn[c], obj) BY <1>1, <1>2 DEF Good
  <2> QED BY <2>1 DEF Ends, Socket
<1>4. ASSUME NEW o \in 1..MaxObjs
      PROVE  /\ {obj[o].ws, obj[o].beat} \subseteq 0..MaxConns
             /\ Len(obj[o].pending) <= MAX_PENDING_FORWARDS
             /\ obj[o].beat # 0 => obj[o].ws # 0
  <2>1. obj[o] \in PeerObj /\ Object(obj[o]) BY <1>1, <1>2 DEF Good
  <2> QED BY <2>1 DEF PeerObj, Object
<1> QED BY <1>1, <1>2, <1>3, <1>4 DEF TypeOK, StI, StR, PeerMap, Books

\* ... and the cap.
LEMMA FederatedCapped ==
    ASSUME ConstantsOK, Federated
    PROVE  Capped
<1> SUFFICES ASSUME sc.open, NEW r \in Relay \ ousted
             PROVE  LET learned == {p \in Known(W, r) : obj[peers[r][p]].learned}
                        fromFile == {p \in Relay : Configured(r, p)}
                    IN  Cardinality(Known(W, r) \ learned) <=
                          Max({maxPeers, Cardinality(fromFile), maxPeers + overlap[r] - 1})
  BY DEF Capped
<1> DEFINE learned == {p \in Known(W, r) : obj[peers[r][p]].learned}
           K == Known(W, r) \ learned
           C == Counted(W, r)
<1>1. W.obj = obj /\ W.peers = peers BY HereIs
<1>2. K = Kept(W, r) BY <1>1 DEF Known, Kept
<1>3. K \subseteq C BY <1>2 DEF Counted
<1>4. C \subseteq Relay /\ IsFiniteSet(C) /\ Cardinality(C) \in Nat BY CountedIs
<1>5. Cardinality(C) <= Most(r) BY DEF Federated, CapInv
<1>6. Most(r) = Max({maxPeers, Cardinality({p \in Relay : Configured(r, p)}),
                     maxPeers + overlap[r] - 1})
  BY DEF Most, FromFile
<1>7. Most(r) \in Int
  <2>1. overlap[r] \in 0..MaxConns BY DEF Federated
  <2>2. overlap[r] \in Nat BY <2>1 DEF ConstantsOK
  <2> QED BY <2>2, MostIs
<1> HIDE DEF K, C
<1>8. Cardinality(K) <= Cardinality(C) /\ Cardinality(K) \in Nat
  BY <1>3, <1>4, FS_Subset, FS_CardinalityType
<1>9. Cardinality(K) <= Most(r) BY <1>4, <1>5, <1>7, <1>8
<1> QED BY <1>6, <1>9 DEF K

\* However sockets open, close late, cross, are cut, timed out, evicted and restarted, and
\* whatever is flooded, queued and gossiped: a relay in open mode has no more peers than
\* maxPeers, but by handshakes that it admitted together, or once it dropped a learned
\* peer in the middle of one.
THEOREM CapHolds == Spec => []CapKept
<1>1. Init => Federated BY FederationConstants, StartFederated
<1>2. Federated /\ [Next]_vars => Federated' BY FederationConstants, StepFederated
<1>3. Federated => CapKept BY FederationConstants, FederatedTyped, FederatedCapped DEF CapKept
<1> QED BY <1>1, <1>2, <1>3, PTL DEF Spec

=============================================================================
