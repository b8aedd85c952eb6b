-------------------------- MODULE ClientLinkProofs --------------------------
(***************************************************************************)
(* Theorems about the bearers.  ClientLink, for any number of sockets and  *)
(* timers: a running transport always has an attempt or a timer, its       *)
(* reports follow this.ws, and it implements Link.  LocalLink: a device    *)
(* has one socket to a peer.  DualSend: copies do no harm.                 *)
(***************************************************************************)
EXTENDS Bearers, Sequences, SequenceTheorems, WellFoundedInduction, TLAPS

\* Before start nothing has happened.
Unstarted ==
    ~started =>
        /\ ~running /\ ws = None /\ status = "disconnected" /\ timers = 0
        /\ \A s \in Sock : conn[s] = "closed"

\* The inductive invariant: StatusFollowsSocket is about a running transport
\* only, so the step of start needs what holds before it.
IInv == TypeOK /\ Unstarted /\ NeverAbandoned /\ StatusFollowsSocket

\* Adding timers stays within the bound, and leaves one if it adds one.
LEMMA AddTimersBound ==
    ASSUME timers \in 0..MaxTimers, NEW n \in Nat
    PROVE  AddTimers(n) \in 0..MaxTimers /\ (n > 0 => AddTimers(n) > 0)
BY ConstantsAssumption DEF AddTimers

\* A new attempt takes a socket that this.ws does not name.
LEMMA ConnectIsFresh ==
    ASSUME TypeOK, NEW s \in Sock, NEW fromTimer, connect(s, fromTimer)
    PROVE  /\ conn' \in [Sock -> {"connecting", "open", "closing", "closed"}]
           /\ retry' \subseteq Sock
           /\ conn'[s] = "connecting"
           /\ \A r \in Sock : r # s => conn'[r] = conn[r]
           /\ ws # s
<1>1. conn[s] = "closed" /\ conn' = [conn EXCEPT ![s] = "connecting"]
  BY DEF connect
<1>2. conn \in [Sock -> {"connecting", "open", "closing", "closed"}] /\ retry \subseteq Sock
  BY DEF TypeOK
<1>3. retry' \subseteq Sock BY <1>2 DEF connect
<1>4. ws # s BY <1>1, ConstantsAssumption DEF TypeOK, Pending
<1> QED BY <1>1, <1>2, <1>3, <1>4

LEMMA Initially == Init => IInv
<1> SUFFICES ASSUME Init PROVE IInv OBVIOUS
<1>1. timers \in 0..MaxTimers BY ConstantsAssumption DEF Init
<1>2. TypeOK BY <1>1 DEF Init, TypeOK
<1> QED BY <1>2 DEF Init, IInv, Unstarted, NeverAbandoned, StatusFollowsSocket

LEMMA Inductive == IInv /\ [Next]_vars => IInv'
<1> SUFFICES ASSUME IInv, [Next]_vars PROVE IInv' OBVIOUS
<1> USE DEF IInv
<1>0. None \notin Sock BY ConstantsAssumption
<1>1. CASE stop
  <2>1. timers' \in 0..MaxTimers BY <1>1, ConstantsAssumption DEF stop
  <2>2. TypeOK' BY <1>1, <2>1 DEF stop, TypeOK
  <2>3. Unstarted' /\ NeverAbandoned' /\ StatusFollowsSocket'
    BY <1>1 DEF stop, Unstarted, NeverAbandoned, StatusFollowsSocket
  <2> QED BY <2>2, <2>3
<1>2. ASSUME NEW s \in Sock, start(s) PROVE IInv'
  <2> USE <1>2, ConnectIsFresh DEF start
  <2>1. TypeOK' BY DEF TypeOK, Pending
  <2>2. NeverAbandoned' BY DEF NeverAbandoned
  <2>3. UNCHANGED <<ws, status>> /\ ws = None /\ status = "disconnected"
    BY DEF Unstarted
  <2>4. Unstarted' /\ StatusFollowsSocket' BY <2>3 DEF Unstarted, StatusFollowsSocket
  <2> QED BY <2>1, <2>2, <2>4
<1>3. ASSUME NEW s \in Sock, Opened(s) PROVE IInv'
  <2>1. TypeOK' BY <1>3 DEF Opened, TypeOK, Pending
  <2>2. ws' = s /\ s # None /\ status' = "connected" BY <1>0, <1>3 DEF Opened
  <2>3. Unstarted' BY <1>3 DEF Opened, Unstarted
  <2> QED BY <2>1, <2>2, <2>3 DEF NeverAbandoned, StatusFollowsSocket
<1>4. ASSUME NEW s \in Sock, Failed(s) PROVE IInv'
  <2>1. retries(s) \in Nat /\ (running => retries(s) > 0) BY DEF retries
  <2>2. timers' \in 0..MaxTimers /\ (running => timers' > 0)
    BY <1>4, <2>1, AddTimersBound DEF Failed, TypeOK
  <2>3. ws' = None /\ status' = "disconnected" /\ running' = running
    BY <1>4 DEF Failed
  <2>4. TypeOK' BY <1>4, <2>2, <2>3 DEF Failed, TypeOK
  <2>5. Unstarted' BY <1>4 DEF Failed, Unstarted
  <2> QED BY <2>2, <2>3, <2>4, <2>5 DEF NeverAbandoned, StatusFollowsSocket
<1>5. ASSUME NEW s \in Sock, BeginClose(s) PROVE IInv'
  <2>1. TypeOK' BY <1>5 DEF BeginClose, TypeOK, Pending
  <2>2. \A r \in Sock : conn[r] = "connecting" => conn'[r] = "connecting"
    BY <1>5 DEF BeginClose, TypeOK
  <2>3. NeverAbandoned' BY <1>5, <2>2 DEF BeginClose, NeverAbandoned
  <2>4. StatusFollowsSocket' BY <1>5 DEF BeginClose, StatusFollowsSocket
  <2>5. Unstarted' BY <1>5 DEF BeginClose, Unstarted
  <2> QED BY <2>1, <2>3, <2>4, <2>5
<1>6. ASSUME NEW s \in Sock, Closed(s) PROVE IInv'
  <2> DEFINE n == IF running THEN 1 ELSE 0
  <2>1. n \in Nat /\ (running => n > 0) OBVIOUS
  <2>2. timers' = AddTimers(n) BY <1>6 DEF Closed
  <2> HIDE DEF n
  <2>3. timers' \in 0..MaxTimers /\ (running => timers' > 0)
    BY <2>1, <2>2, AddTimersBound DEF TypeOK
  <2>4. ws' = None /\ status' = "disconnected" /\ running' = running
    BY <1>6 DEF Closed
  <2>5. TypeOK' BY <1>6, <2>3, <2>4 DEF Closed, TypeOK
  <2>6. Unstarted' BY <1>6 DEF Closed, Unstarted, Pending
  <2> QED BY <2>3, <2>4, <2>5, <2>6 DEF NeverAbandoned, StatusFollowsSocket
<1>7. ASSUME NEW s \in Sock, TimerFires(s) PROVE IInv'
  <2> USE <1>7, ConnectIsFresh DEF TimerFires
  <2>1. timers' \in 0..MaxTimers BY ConstantsAssumption DEF TypeOK
  <2>2. TypeOK' BY <2>1 DEF TypeOK, Pending
  <2>3. NeverAbandoned' BY DEF NeverAbandoned
  <2>4. StatusFollowsSocket' BY DEF StatusFollowsSocket
  <2>5. started = TRUE /\ started' = TRUE BY DEF TypeOK, Unstarted
  <2>6. Unstarted' BY <2>5 DEF Unstarted
  <2> QED BY <2>2, <2>3, <2>4, <2>6
<1>8. CASE UNCHANGED vars
  BY <1>8 DEF vars, TypeOK, Unstarted, Pending, NeverAbandoned, StatusFollowsSocket
<1> QED BY <1>1, <1>2, <1>3, <1>4, <1>5, <1>6, <1>7, <1>8 DEF Next

LEMMA Invariance == Spec => []IInv
BY Initially, Inductive, PTL DEF Spec

-----------------------------------------------------------------------------
\* The variables keep their types, and this.ws never names a closed socket.
THEOREM TypeCorrectness == Spec => []TypeOK
BY Invariance, PTL DEF IInv

\* No order of open, close and timer events leaves a running transport without
\* a connection and without a further attempt.
THEOREM AlwaysTrying == Spec => []NeverAbandoned
BY Invariance, PTL DEF IInv

\* What onStatusChange reported last agrees with this.ws.
THEOREM ReportsAgree == Spec => []StatusFollowsSocket
BY Invariance, PTL DEF IInv

-----------------------------------------------------------------------------
\* The transport is what Link says the SDK sees: every step of it is a step of
\* Link or leaves the link as it was.
THEOREM Refinement == Spec => ImplementsLink
<1>1. Init => L!Init BY DEF Init, L!Init, linkState
<1>2. IInv /\ [Next]_vars => [L!Next]_linkState
  <2> SUFFICES ASSUME TypeOK, [Next]_vars PROVE [L!Next]_linkState BY DEF IInv
  <2> USE DEF L!Next, L!Up, L!GoStale, L!Down, linkState
  <2>0. None \notin Sock BY ConstantsAssumption
  <2>1. CASE stop BY <2>1 DEF stop
  <2>2. ASSUME NEW s \in Sock, start(s) PROVE UNCHANGED linkState
    BY <2>2, ConnectIsFresh DEF start, TypeOK
  <2>3. ASSUME NEW s \in Sock, Opened(s) PROVE [L!Next]_linkState
    <3>1. linkState' = "up" BY <2>0, <2>3 DEF Opened, TypeOK
    <3> QED BY <3>1
  <2>4. ASSUME NEW s \in Sock, Failed(s) \/ Closed(s) PROVE [L!Next]_linkState
    BY <2>4 DEF Failed, Closed
  <2>5. ASSUME NEW s \in Sock, BeginClose(s) PROVE [L!Next]_linkState
    BY <2>5 DEF BeginClose, TypeOK
  <2>6. ASSUME NEW s \in Sock, TimerFires(s) PROVE UNCHANGED linkState
    BY <2>6, ConnectIsFresh DEF TimerFires, TypeOK
  <2>7. CASE UNCHANGED vars BY <2>7 DEF vars
  <2> QED BY <2>1, <2>2, <2>3, <2>4, <2>5, <2>6, <2>7 DEF Next
<1> QED BY <1>1, <1>2, Invariance, PTL DEF Spec, ImplementsLink, L!Spec

-----------------------------------------------------------------------------
(* The LAN *)

EndType == [state : {"none", "dialing", "open", "closed"}, frame : {"no", "sent", "read"}]
SockType == [by : N!Device, end : [N!Device -> EndType]]

\* Sockets k and maps c: who has read the frame of an open socket has it in the
\* map, and the map names nothing else; and no frame is there before the other
\* end is open.
Mapped(k, c) ==
    /\ k \in [N!Socks -> SockType \cup {N!Free}]
    /\ c \in [N!Device -> 0..MaxSocks]
    /\ \A d \in N!Device : c[d] # 0 => /\ k[c[d]].end[d].state = "open"
                                     /\ k[c[d]].end[d].frame = "read"
    /\ \A s \in N!Socks, d \in N!Device : k[s].end[d].frame = "read" => c[d] = s
    /\ \A s \in N!Socks, d \in N!Device :
          k[s].end[d].state \in {"none", "dialing"} => k[s].end[N!Other(d)].frame = "no"

LanInv ==
    /\ active \in [N!Device -> {"on", "stopping", "off"}]
    /\ left \in [socks : 0..MaxSocks, faults : Nat, stops : Nat]
    /\ Mapped(sock, connections)

\* Two devices, and a free socket is closed at both.
LEMMA LanBasics ==
    /\ \A d \in N!Device :
          /\ N!Other(d) \in N!Device /\ N!Other(d) # d /\ N!Other(N!Other(d)) = d
          /\ \A e \in N!Device : e = d \/ e = N!Other(d)
          /\ N!Free.end[d] = [state |-> "closed", frame |-> "no"]
    /\ MaxSocks \in Nat => 0 \notin N!Socks
    /\ \A k \in SockType \cup {N!Free}, d \in N!Device : k.end[d] \in EndType /\ k.end \in [N!Device -> EndType]
<1>1. Smaller # Larger
  BY LocalConstants DEF N!ConstantsOK
<1>2. N!Other(Smaller) = Larger /\ N!Other(Larger) = Smaller
  BY <1>1 DEF N!Other, N!Device
<1>3. \A d \in N!Device : d = Smaller \/ d = Larger
  BY DEF N!Device
<1>4. \A d \in N!Device : N!Free.end[d] = [state |-> "closed", frame |-> "no"]
  BY DEF N!Free, N!End
<1>5. N!Free.end \in [N!Device -> EndType]
  BY DEF N!Free, N!End, EndType
<1>6. ASSUME NEW k \in SockType \cup {N!Free}, NEW d \in N!Device
      PROVE  k.end[d] \in EndType /\ k.end \in [N!Device -> EndType]
  <2>1. k.end \in [N!Device -> EndType]
    BY <1>5 DEF SockType
  <2> QED BY <2>1
<1> QED BY <1>1, <1>2, <1>3, <1>4, <1>6 DEF N!Socks, N!Device

\* A socket without its end at d: that end is closed; the other stays as it is if it
\* lives, and is closed as well if it does not.
LEMMA EndGone ==
    ASSUME NEW k \in SockType \cup {N!Free}, NEW d \in N!Device, NEW w, w = N!Without(k, d)
    PROVE  /\ w \in SockType \cup {N!Free}
           /\ w.end[d] = [state |-> "closed", frame |-> "no"]
           /\ \/ w.end[N!Other(d)] = k.end[N!Other(d)]
              \/ ~N!Live(k, N!Other(d)) /\ w.end[N!Other(d)] = [state |-> "closed", frame |-> "no"]
<1>1. CASE ~N!Live(k, N!Other(d))
  BY <1>1, LanBasics DEF N!Without
<1>2. CASE N!Live(k, N!Other(d))
  <2>1. k # N!Free
    BY <1>2, LanBasics DEF N!Live
  <2>2. k \in SockType
    BY <2>1
  <2>3. w = [k EXCEPT !.end[d] = N!End("closed")]
    BY <1>2 DEF N!Without
  <2>4. N!End("closed") = [state |-> "closed", frame |-> "no"] /\ N!End("closed") \in EndType
    BY DEF N!End, EndType
  <2>5. w \in SockType
    BY <2>2, <2>3, <2>4 DEF SockType
  <2>6. w.end = [k.end EXCEPT ![d] = N!End("closed")]
    BY <2>2, <2>3 DEF SockType
  <2> QED BY <2>2, <2>4, <2>5, <2>6, LanBasics DEF SockType
<1> QED BY <1>1, <1>2

\* A device that destroys sockets, and takes the one it has in the map out of it
\* if it is of them.
LEMMA DestroyKeeps ==
    ASSUME MaxSocks \in Nat, Mapped(sock, connections), NEW I, NEW d \in N!Device,
           NEW k, k = N!Destroyed(I, d),
           NEW c, c = [connections EXCEPT ![d] = IF connections[d] \in I THEN 0 ELSE connections[d]]
    PROVE  /\ Mapped(k, c)
           /\ \A s \in N!Socks : s \notin I => k[s] = sock[s]
<1>0. /\ sock \in [N!Socks -> SockType \cup {N!Free}] /\ connections \in [N!Device -> 0..MaxSocks]
      /\ \A e \in N!Device : connections[e] # 0 => connections[e] \in N!Socks
  BY DEF Mapped, N!Socks
<1>1. \A s \in N!Socks : k[s] = IF s \in I THEN N!Without(sock[s], d) ELSE sock[s]
  BY DEF N!Destroyed
<1>2. ASSUME NEW s \in N!Socks
      PROVE  /\ k[s] \in SockType \cup {N!Free}
             /\ s \in I => k[s].end[d] = [state |-> "closed", frame |-> "no"]
             /\ s \notin I => k[s] = sock[s]
             /\ \/ k[s].end[N!Other(d)] = sock[s].end[N!Other(d)]
                \/ ~N!Live(sock[s], N!Other(d)) /\ k[s].end[N!Other(d)] = [state |-> "closed", frame |-> "no"]
  <2>1. sock[s] \in SockType \cup {N!Free}
    BY <1>0
  <2>2. CASE s \in I
    BY <1>1, <2>1, <2>2, EndGone
  <2>3. CASE s \notin I
    BY <1>1, <2>1, <2>3
  <2> QED BY <2>2, <2>3
<1>3. k \in [N!Socks -> SockType \cup {N!Free}]
  <2>1. \A s \in N!Socks : k[s] \in SockType \cup {N!Free}
    BY <1>2
  <2>2. k = [s \in N!Socks |-> k[s]]
    BY DEF N!Destroyed
  <2> QED BY <2>1, <2>2
<1>4. /\ c \in [N!Device -> 0..MaxSocks]
      /\ c[N!Other(d)] = connections[N!Other(d)]
      /\ c[d] = IF connections[d] \in I THEN 0 ELSE connections[d]
  BY <1>0, LanBasics
<1>5. ASSUME NEW e \in N!Device, c[e] # 0
      PROVE  k[c[e]].end[e].state = "open" /\ k[c[e]].end[e].frame = "read"
  <2>1. /\ c[e] = connections[e] /\ c[e] \in N!Socks
        /\ sock[c[e]].end[e].state = "open" /\ sock[c[e]].end[e].frame = "read"
    BY <1>0, <1>4, <1>5, LanBasics DEF Mapped
  <2>2. CASE e = d
    <3>1. c[e] \notin I
      BY <1>4, <1>5, <2>1, <2>2
    <3> QED BY <1>2, <2>1, <3>1
  <2>3. CASE e = N!Other(d)
    BY <1>2, <2>1, <2>3 DEF N!Live
  <2> QED BY <2>2, <2>3, LanBasics
<1>6. ASSUME NEW s \in N!Socks, NEW e \in N!Device, k[s].end[e].frame = "read"
      PROVE  c[e] = s
  <2>1. CASE e = d
    <3>1. s \notin I
      BY <1>2, <1>6, <2>1
    <3>2. sock[s].end[e].frame = "read"
      BY <1>2, <1>6, <3>1
    <3>3. connections[e] = s
      BY <3>2 DEF Mapped
    <3> QED BY <1>4, <2>1, <3>1, <3>3
  <2>2. CASE e = N!Other(d)
    <3>1. sock[s].end[e].frame = "read"
      BY <1>2, <1>6, <2>2
    <3>2. connections[e] = s
      BY <3>1 DEF Mapped
    <3> QED BY <1>4, <2>2, <3>2
  <2> QED BY <2>1, <2>2, LanBasics
<1>7. ASSUME NEW s \in N!Socks, NEW e \in N!Device, k[s].end[e].state \in {"none", "dialing"}
      PROVE  k[s].end[N!Other(e)].frame = "no"
  <2>1. CASE e = d
    <3>1. s \notin I
      BY <1>2, <1>7, <2>1
    <3>2. k[s] = sock[s]
      BY <1>2, <3>1
    <3>3. sock[s].end[N!Other(e)].frame = "no"
      BY <1>7, <3>2 DEF Mapped
    <3> QED BY <3>2, <3>3
  <2>2. CASE e = N!Other(d)
    <3>1. k[s].end[e] = sock[s].end[e] /\ N!Other(e) = d
      BY <1>2, <1>7, <2>2, LanBasics
    <3>2. sock[s].end[N!Other(e)].frame = "no"
      BY <1>7, <3>1 DEF Mapped
    <3>3. CASE s \in I
      BY <1>2, <3>1, <3>3
    <3>4. CASE s \notin I
      BY <1>2, <3>2, <3>4
    <3> QED BY <3>3, <3>4
  <2> QED BY <2>1, <2>2, LanBasics
<1>8. Mapped(k, c)
  BY <1>3, <1>4, <1>5, <1>6, <1>7 DEF Mapped
<1>9. \A s \in N!Socks : s \notin I => k[s] = sock[s]
  BY <1>2
<1> QED BY <1>8, <1>9

\* What a device does with the first frame of a socket it keeps: it destroys the
\* socket it had in the map, and has this one there.
LEMMA IdentifyKeeps ==
    ASSUME MaxSocks \in Nat, NEW k, NEW c, Mapped(k, c), NEW d \in N!Device, NEW s \in N!Socks,
           c[d] = 0, k[s].end[d].state = "open", k[s].end[d].frame = "sent",
           NEW x \in SockType,
           x.end[d] = [state |-> "open", frame |-> "read"], x.end[N!Other(d)] = k[s].end[N!Other(d)],
           NEW k1, k1 = [k EXCEPT ![s] = x],
           NEW c1, c1 = [c EXCEPT ![d] = s]
    PROVE  Mapped(k1, c1)
<1>1. /\ k \in [N!Socks -> SockType \cup {N!Free}] /\ c \in [N!Device -> 0..MaxSocks]
      /\ s \in 0..MaxSocks
  BY DEF Mapped, N!Socks
<1>2. k1[s] \in SockType
  BY <1>1
<1>3. /\ k1[s].end[d] = [state |-> "open", frame |-> "read"]
      /\ k1[s].end[N!Other(d)] = k[s].end[N!Other(d)]
  BY <1>1
<1>4. \A t \in N!Socks : t # s => k1[t] = k[t]
  BY <1>1
<1>5. k1 \in [N!Socks -> SockType \cup {N!Free}] /\ c1 \in [N!Device -> 0..MaxSocks]
  BY <1>1, <1>2
<1>6. c1[d] = s /\ c1[N!Other(d)] = c[N!Other(d)]
  BY <1>1, LanBasics
<1>7. ASSUME NEW e \in N!Device, c1[e] # 0
       PROVE  k1[c1[e]].end[e].state = "open" /\ k1[c1[e]].end[e].frame = "read"
  <2>1. CASE e = d
    BY <1>3, <1>6, <2>1
  <2>2. CASE e = N!Other(d)
    <3>1. c[e] \in N!Socks /\ k[c[e]].end[e].state = "open" /\ k[c[e]].end[e].frame = "read"
      BY <1>1, <1>6, <1>7, <2>2 DEF Mapped, N!Socks
    <3> QED BY <1>3, <1>4, <1>6, <2>2, <3>1
  <2> QED BY <2>1, <2>2, LanBasics
<1>8. ASSUME NEW t \in N!Socks, NEW e \in N!Device, k1[t].end[e].frame = "read"
       PROVE  c1[e] = t
  <2>1. CASE t = s /\ e = d
    BY <1>6, <2>1
  <2>2. CASE ~(t = s /\ e = d)
    <3>1. k[t].end[e].frame = "read"
      BY <1>3, <1>4, <1>8, <2>2, LanBasics
    <3>2. c[e] = t
      BY <3>1 DEF Mapped
    <3>3. e # d
      BY <3>2, LanBasics
    <3> QED BY <1>6, <3>2, <3>3, LanBasics
  <2> QED BY <2>1, <2>2
<1>9. ASSUME NEW t \in N!Socks, NEW e \in N!Device, k1[t].end[e].state \in {"none", "dialing"}
       PROVE  k1[t].end[N!Other(e)].frame = "no"
  <2>1. CASE t = s
    <3>1. e = N!Other(d) /\ N!Other(e) = d
      BY <1>3, <1>9, <2>1, LanBasics
    <3>2. k[s].end[d].frame = "no"
      BY <1>3, <1>9, <2>1, <3>1 DEF Mapped
    <3> QED BY <3>2
  <2>2. CASE t # s
    BY <1>4, <1>9, <2>2 DEF Mapped
  <2> QED BY <2>1, <2>2
<1> QED BY <1>5, <1>7, <1>8, <1>9 DEF Mapped

\* A socket s that opens at its end at d, whose id frame is on the way now.
LEMMA OpenKeeps ==
    ASSUME MaxSocks \in Nat, Mapped(sock, connections), NEW d \in N!Device, NEW s \in N!Socks,
           sock[s].end[d].state \in {"none", "dialing"},
           NEW k, k = [sock EXCEPT ![s].end[d].state = "open", ![s].end[N!Other(d)].frame = "sent"]
    PROVE  Mapped(k, connections)
<1>1. /\ sock \in [N!Socks -> SockType \cup {N!Free}] /\ connections \in [N!Device -> 0..MaxSocks]
      /\ sock[s].end[N!Other(d)].frame = "no"
  BY DEF Mapped
<1>2. sock[s] # N!Free
  BY LanBasics
<1>3. sock[s] \in SockType
  BY <1>1, <1>2
<1>4. sock[s].end[d] \in EndType /\ sock[s].end[N!Other(d)] \in EndType
  BY <1>3, LanBasics
<1>5. /\ k[s] \in SockType
      /\ k[s].end[d].state = "open" /\ k[s].end[d].frame = sock[s].end[d].frame
      /\ k[s].end[N!Other(d)].state = sock[s].end[N!Other(d)].state /\ k[s].end[N!Other(d)].frame = "sent"
  <2>1. PICK a : a = [sock[s].end[d] EXCEPT !.state = "open"]
    OBVIOUS
  <2>2. PICK b : b = [sock[s].end[N!Other(d)] EXCEPT !.frame = "sent"]
    OBVIOUS
  <2>3. /\ a \in EndType /\ a.state = "open" /\ a.frame = sock[s].end[d].frame
        /\ b \in EndType /\ b.frame = "sent" /\ b.state = sock[s].end[N!Other(d)].state
    BY <1>4, <2>1, <2>2 DEF EndType
  <2>4. PICK y : y = sock[s].by
    OBVIOUS
  <2>5. PICK en : en = [sock[s].end EXCEPT ![d] = a]
    OBVIOUS
  <2>6. PICK et : et = [en EXCEPT ![N!Other(d)] = b]
    OBVIOUS
  <2>7. /\ en[N!Other(d)] = sock[s].end[N!Other(d)]
        /\ et \in [N!Device -> EndType] /\ et[d] = a /\ et[N!Other(d)] = b /\ y \in N!Device
    BY <1>3, <2>3, <2>4, <2>5, <2>6, LanBasics DEF SockType
  <2>8. [sock[s] EXCEPT !.end[d].state = "open"] = [by |-> y, end |-> en]
    BY <1>3, <2>1, <2>4, <2>5 DEF SockType
  <2>9. k[s] = [[sock[s] EXCEPT !.end[d].state = "open"] EXCEPT !.end[N!Other(d)].frame = "sent"]
    BY <1>1
  <2>10. k[s] = [[by |-> y, end |-> en] EXCEPT !.end[N!Other(d)].frame = "sent"]
    BY <2>8, <2>9
  <2>11. b = [en[N!Other(d)] EXCEPT !.frame = "sent"]
    BY <2>2, <2>7
  <2>12. [[by |-> y, end |-> en] EXCEPT !.end[N!Other(d)].frame = "sent"] = [by |-> y, end |-> et]
    BY <2>6, <2>11
  <2>13. PICK r : r = [by |-> y, end |-> et]
    OBVIOUS
  <2>14. r \in SockType /\ r.end[d] = a /\ r.end[N!Other(d)] = b
    BY <2>7, <2>13 DEF SockType
  <2>15. k[s] = r
    BY <2>10, <2>12, <2>13
  <2> QED BY <2>3, <2>14, <2>15
<1>6. \A t \in N!Socks : t # s => k[t] = sock[t]
  BY <1>1
<1>7. k \in [N!Socks -> SockType \cup {N!Free}]
  BY <1>1, <1>5
<1>8. connections[d] # s /\ connections[N!Other(d)] # s
  BY <1>1, LanBasics DEF Mapped
<1>9. ASSUME NEW e \in N!Device, connections[e] # 0
      PROVE  k[connections[e]].end[e].state = "open" /\ k[connections[e]].end[e].frame = "read"
  <2>1. connections[e] # s
    BY <1>8, LanBasics
  <2>2. connections[e] \in N!Socks
    BY <1>1, <1>9 DEF N!Socks
  <2>3. k[connections[e]] = sock[connections[e]]
    BY <1>6, <2>1, <2>2
  <2>4. sock[connections[e]].end[e].state = "open" /\ sock[connections[e]].end[e].frame = "read"
    BY <1>9 DEF Mapped
  <2> QED BY <2>3, <2>4
<1>10. ASSUME NEW t \in N!Socks, NEW e \in N!Device, k[t].end[e].frame = "read"
       PROVE  connections[e] = t
  <2>1. CASE t = s
    <3>1. e = d /\ sock[s].end[e].frame = "read"
      BY <1>5, <1>10, <2>1, LanBasics
    <3> QED BY <2>1, <3>1 DEF Mapped
  <2>2. CASE t # s
    <3>1. k[t] = sock[t]
      BY <1>6, <2>2
    <3>2. sock[t].end[e].frame = "read"
      BY <1>10, <3>1
    <3> QED BY <3>2 DEF Mapped
  <2> QED BY <2>1, <2>2
<1>11. ASSUME NEW t \in N!Socks, NEW e \in N!Device, k[t].end[e].state \in {"none", "dialing"}
       PROVE  k[t].end[N!Other(e)].frame = "no"
  <2>1. CASE t = s
    <3>1. e = N!Other(d) /\ N!Other(e) = d
      BY <1>5, <1>11, <2>1, LanBasics
    <3>2. sock[s].end[N!Other(d)].state \in {"none", "dialing"}
      BY <1>5, <1>11, <2>1, <3>1
    <3>3. sock[s].end[N!Other(N!Other(d))].frame = "no"
      BY <3>2, LanBasics DEF Mapped
    <3>4. sock[s].end[d].frame = "no"
      BY <3>3, LanBasics
    <3> QED BY <1>5, <2>1, <3>1, <3>4
  <2>2. CASE t # s
    <3>1. k[t] = sock[t]
      BY <1>6, <2>2
    <3>2. sock[t].end[e].state \in {"none", "dialing"}
      BY <1>11, <3>1
    <3>3. sock[t].end[N!Other(e)].frame = "no"
      BY <3>2 DEF Mapped
    <3> QED BY <3>1, <3>3
  <2> QED BY <2>1, <2>2
<1> QED BY <1>1, <1>7, <1>9, <1>10, <1>11 DEF Mapped

\* A socket that is dialled anew, or freed, where no device has it in the map.
LEMMA ReplaceKeeps ==
    ASSUME MaxSocks \in Nat, Mapped(sock, connections), NEW s \in N!Socks, NEW x \in SockType \cup {N!Free},
           \A d \in N!Device : connections[d] # s /\ x.end[d].frame = "no",
           NEW k, k = [sock EXCEPT ![s] = x]
    PROVE  Mapped(k, connections)
<1>1. /\ sock \in [N!Socks -> SockType \cup {N!Free}] /\ connections \in [N!Device -> 0..MaxSocks]
      /\ \A d \in N!Device : connections[d] # 0 => connections[d] \in N!Socks
  BY DEF Mapped, N!Socks
<1>2. k \in [N!Socks -> SockType \cup {N!Free}] /\ k[s] = x /\ \A t \in N!Socks : t # s => k[t] = sock[t]
  BY <1>1
<1>3. ASSUME NEW e \in N!Device, connections[e] # 0
      PROVE  k[connections[e]].end[e].state = "open" /\ k[connections[e]].end[e].frame = "read"
  BY <1>1, <1>2, <1>3 DEF Mapped
<1>4. ASSUME NEW t \in N!Socks, NEW e \in N!Device, k[t].end[e].frame = "read"
      PROVE  connections[e] = t
  BY <1>2, <1>4 DEF Mapped
<1>5. ASSUME NEW t \in N!Socks, NEW e \in N!Device, k[t].end[e].state \in {"none", "dialing"}
      PROVE  k[t].end[N!Other(e)].frame = "no"
  BY <1>2, <1>5, LanBasics DEF Mapped
<1> QED BY <1>1, <1>2, <1>3, <1>4, <1>5 DEF Mapped

\* The budget keeps its type.
LEMMA SpendTyped ==
    ASSUME left \in [socks : 0..MaxSocks, faults : Nat, stops : Nat],
           NEW what \in {"faults", "stops"}, N!Spend(what) \/ UNCHANGED left
    PROVE  left' \in [socks : 0..MaxSocks, faults : Nat, stops : Nat]
<1>1. CASE UNCHANGED left
  BY <1>1
<1>2. CASE N!Spend(what)
  <2>1. left[what] \in Nat /\ left[what] > 0
    BY <1>2 DEF N!Spend
  <2>2. left[what] - 1 \in Nat
    BY <2>1
  <2> QED BY <1>2, <2>2 DEF N!Spend
<1> QED BY <1>1, <1>2

\* It holds at first: no socket is in use.
LEMMA LanStarts == N!Init => LanInv
<1> SUFFICES ASSUME N!Init PROVE LanInv
  OBVIOUS
<1>0. MaxSocks \in Nat
  BY LocalConstants DEF N!ConstantsOK
<1>1. left \in [socks : 0..MaxSocks, faults : Nat, stops : Nat]
  BY LocalConstants DEF N!Init, N!ConstantsOK
<1>2. active \in [N!Device -> {"on", "stopping", "off"}]
  BY DEF N!Init
<1>3. Mapped(sock, connections)
  BY <1>0, LanBasics DEF N!Init, Mapped
<1> QED BY <1>1, <1>2, <1>3 DEF LanInv

\* Every step keeps the invariant.
LEMMA LanSteps == LanInv /\ [N!Next]_(N!vars) => LanInv'
<1> SUFFICES ASSUME LanInv, [N!Next]_(N!vars) PROVE LanInv'
  OBVIOUS
<1>0. /\ MaxSocks \in Nat /\ Mapped(sock, connections)
      /\ left \in [socks : 0..MaxSocks, faults : Nat, stops : Nat]
      /\ active \in [N!Device -> {"on", "stopping", "off"}]
      /\ sock \in [N!Socks -> SockType \cup {N!Free}] /\ connections \in [N!Device -> 0..MaxSocks]
  BY LocalConstants DEF LanInv, Mapped, N!ConstantsOK
<1>1. CASE UNCHANGED N!vars
  BY <1>0, <1>1 DEF LanInv, N!vars
<1>2. ASSUME NEW d \in N!Device, N!handleAnnouncement(d)
      PROVE  LanInv'
  <2>1. CASE connections[d] = 0
    <3>1. PICK s \in 1..left.socks \ N!Used : sock' = N!connectToPeer(d, s)
      BY <1>2, <2>1 DEF N!handleAnnouncement
    <3> DEFINE x == [by |-> d, end |-> [e \in N!Device |-> N!End(IF e = d THEN "dialing" ELSE "none")]]
    <3>2. s \in N!Socks /\ sock[s] = N!Free
      BY <1>0, <3>1 DEF N!Used, N!Socks
    <3>3. x \in SockType /\ \A e \in N!Device : x.end[e].frame = "no"
      BY DEF SockType, EndType, N!End
    <3>4. \A e \in N!Device : connections[e] # s
      BY <1>0, <3>2, LanBasics DEF Mapped
    <3>5. sock' = [sock EXCEPT ![s] = x]
      BY <3>1 DEF N!connectToPeer
    <3>6. Mapped(sock', connections)
      <4> HIDE DEF x
      <4> QED BY <1>0, <3>2, <3>3, <3>4, <3>5, ReplaceKeeps
    <3> QED BY <1>0, <1>2, <3>6 DEF LanInv, N!handleAnnouncement
  <2>2. CASE connections[d] # 0
    BY <1>0, <1>2, <2>2 DEF LanInv, N!handleAnnouncement
  <2> QED BY <2>1, <2>2
<1>3. ASSUME NEW d \in N!Device, N!Lapse(d)
      PROVE  LanInv'
  <2>1. left' \in [socks : 0..MaxSocks, faults : Nat, stops : Nat]
    BY <1>0, <1>3, SpendTyped DEF N!Lapse
  <2> QED BY <1>0, <1>3, <2>1 DEF LanInv, N!Lapse
<1>4. ASSUME NEW d \in N!Device, sock' = N!Destroyed({connections[d]}, d),
             connections' = [connections EXCEPT ![d] = 0]
      PROVE  Mapped(sock', connections')
  <2>1. connections' = [connections EXCEPT ![d] = IF connections[d] \in {connections[d]} THEN 0 ELSE connections[d]]
    BY <1>4
  <2> QED BY <1>0, <1>4, <2>1, DestroyKeeps
<1>5. ASSUME NEW d \in N!Device, N!pruneStalePeers(d)
      PROVE  LanInv'
  BY <1>0, <1>4, <1>5 DEF LanInv, N!pruneStalePeers
<1>6. ASSUME NEW d \in N!Device, N!stop(d)
      PROVE  LanInv'
  <2>1. left' \in [socks : 0..MaxSocks, faults : Nat, stops : Nat]
    BY <1>0, <1>6, SpendTyped DEF N!stop
  <2>2. active' \in [N!Device -> {"on", "stopping", "off"}]
    BY <1>0, <1>6 DEF N!stop
  <2> QED BY <1>4, <1>6, <2>1, <2>2 DEF LanInv, N!stop
<1>7. ASSUME NEW d \in N!Device, N!Stopped(d)
      PROVE  LanInv'
  <2>1. active' \in [N!Device -> {"on", "stopping", "off"}]
    BY <1>0, <1>7 DEF N!Stopped
  <2> QED BY <1>0, <1>7, <2>1 DEF LanInv, N!Stopped
<1>8. ASSUME NEW s \in N!Used
      PROVE  s \in N!Socks /\ sock[s] \in SockType /\ sock[s].by \in N!Device
  BY <1>0, <1>8 DEF N!Used, SockType
<1>9. ASSUME NEW s \in N!Used, N!Connected(s)
      PROVE  LanInv'
  <2>1. PICK d \in N!Device : d = sock[s].by
    BY <1>8
  <2>2. /\ sock[s].end[d].state = "dialing"
        /\ sock' = [sock EXCEPT ![s].end[d].state = "open", ![s].end[N!Other(d)].frame = "sent"]
    BY <1>9, <2>1 DEF N!Connected
  <2>3. Mapped(sock', connections)
    BY <1>0, <1>8, <2>2, OpenKeeps
  <2> QED BY <1>0, <1>9, <2>3 DEF LanInv, N!Connected
<1>10. ASSUME NEW s \in N!Used, N!handleIncomingConnection(s)
      PROVE  LanInv'
  <2>1. PICK d \in N!Device : d = N!Other(sock[s].by) /\ sock[s].by = N!Other(d)
    BY <1>8, LanBasics
  <2>2. /\ sock[s].end[d].state = "none"
        /\ sock' = [sock EXCEPT ![s].end[d].state = "open", ![s].end[N!Other(d)].frame = "sent"]
    BY <1>10, <2>1 DEF N!handleIncomingConnection
  <2>3. Mapped(sock', connections)
    BY <1>0, <1>8, <2>2, OpenKeeps
  <2> QED BY <1>0, <1>10, <2>3 DEF LanInv, N!handleIncomingConnection
<1>11. ASSUME NEW s \in N!Used, N!Refused(s)
      PROVE  LanInv'
  <2>1. PICK d \in N!Device : d = sock[s].by
    BY <1>8
  <2>2. sock[s].end[N!Other(d)].state = "none" /\ sock' = [sock EXCEPT ![s] = N!Free]
    BY <1>11, <2>1 DEF N!Refused
  <2>3. sock[s].end[d].frame = "no"
    BY <1>0, <1>8, <2>2, LanBasics DEF Mapped
  <2>4. \A e \in N!Device : connections[e] # s
    <3>1. 0 # s
      BY <1>0, <1>8, LanBasics
    <3>2. connections[d] # s
      BY <1>0, <2>3, <3>1 DEF Mapped
    <3>3. connections[N!Other(d)] # s
      BY <1>0, <2>2, <3>1, LanBasics DEF Mapped
    <3> QED BY <3>2, <3>3, LanBasics
  <2>5. \A e \in N!Device : N!Free.end[e].frame = "no"
    BY LanBasics
  <2>6. Mapped(sock', connections)
    BY <1>0, <1>8, <2>2, <2>4, <2>5, ReplaceKeeps
  <2> QED BY <1>0, <1>11, <2>6 DEF LanInv, N!Refused
<1>12. ASSUME NEW s \in N!Used, NEW d \in N!Device, N!Identified(s, d)
      PROVE  LanInv'
  <2>1. s \in N!Socks /\ sock[s].end[d].state = "open" /\ sock[s].end[d].frame = "sent"
    BY <1>8, <1>12 DEF N!Identified, N!Open
  <2>2. connections[d] # s
    BY <1>0, <2>1, LanBasics DEF Mapped
  <2>3. CASE connections[d] # 0 /\ ~N!KeepsNew(s, d)
    <3>1. sock' = N!Destroyed({s}, d) /\ connections' = connections
      BY <1>12, <2>3 DEF N!Identified
    <3>2. connections' = [connections EXCEPT ![d] = IF connections[d] \in {s} THEN 0 ELSE connections[d]]
      BY <1>0, <2>2, <3>1
    <3>3. Mapped(sock', connections')
      BY <1>0, <3>1, <3>2, DestroyKeeps
    <3> QED BY <1>0, <1>12, <3>3 DEF LanInv, N!Identified
  <2>4. CASE ~(connections[d] # 0 /\ ~N!KeepsNew(s, d))
    <3>1. PICK k, c : /\ k = N!Destroyed({connections[d]}, d)
                      /\ c = [connections EXCEPT ![d] = 0]
      OBVIOUS
    <3>2. c = [connections EXCEPT ![d] = IF connections[d] \in {connections[d]} THEN 0 ELSE connections[d]]
      BY <3>1
    <3>3. Mapped(k, c)
      BY <1>0, <3>1, <3>2, DestroyKeeps
    <3>4. k[s] = sock[s]
      BY <2>1, <2>2, <3>1 DEF N!Destroyed
    <3>5. k[s].end[d].state = "open" /\ k[s].end[d].frame = "sent"
      BY <2>1, <3>4
    <3>6. /\ sock' = [k EXCEPT ![s].end[d].frame = "read"]
          /\ connections' = [connections EXCEPT ![d] = s]
      BY <1>12, <2>4, <3>1 DEF N!Identified
    <3>7. connections' = [c EXCEPT ![d] = s] /\ c[d] = 0
      BY <1>0, <3>1, <3>6
    <3>8. k \in [N!Socks -> SockType \cup {N!Free}] /\ k[s] \in SockType
      BY <1>8, <2>1, <3>3, <3>4 DEF Mapped
    <3> DEFINE en == [k[s].end EXCEPT ![d] = [state |-> "open", frame |-> "read"]]
               x == [by |-> k[s].by, end |-> en]
    <3>9. [k[s].end[d] EXCEPT !.frame = "read"] = [state |-> "open", frame |-> "read"]
      BY <3>5, <3>8 DEF SockType, EndType
    <3>10. [k[s] EXCEPT !.end[d].frame = "read"] = x
      BY <3>8, <3>9 DEF SockType
    <3>11. sock' = [k EXCEPT ![s] = x]
      BY <2>1, <3>6, <3>8, <3>10
    <3>12. /\ x \in SockType /\ x.end[d] = [state |-> "open", frame |-> "read"]
           /\ x.end[N!Other(d)] = k[s].end[N!Other(d)]
      BY <3>8, LanBasics DEF SockType, EndType
    <3> HIDE DEF x
    <3>13. Mapped(sock', connections')
      BY <1>0, <2>1, <3>3, <3>5, <3>7, <3>11, <3>12, IdentifyKeeps
    <3> QED BY <1>0, <1>12, <3>13 DEF LanInv, N!Identified
  <2> QED BY <2>3, <2>4
<1>13. ASSUME NEW s \in N!Used, NEW d \in N!Device, N!Closed(s, d)
      PROVE  LanInv'
  <2>1. left' \in [socks : 0..MaxSocks, faults : Nat, stops : Nat]
    BY <1>0, <1>13, SpendTyped DEF N!Closed
  <2>2. sock' = N!Destroyed({s}, d)
    BY <1>13 DEF N!Closed
  <2>3. connections' = [connections EXCEPT ![d] = IF connections[d] \in {s} THEN 0 ELSE connections[d]]
    BY <1>0, <1>13 DEF N!Closed
  <2>4. Mapped(sock', connections')
    BY <1>0, <2>2, <2>3, DestroyKeeps
  <2> QED BY <1>0, <1>13, <2>1, <2>4 DEF LanInv, N!Closed
<1> QED
  BY <1>1, <1>2, <1>3, <1>5, <1>6, <1>7, <1>9, <1>10, <1>11, <1>12, <1>13 DEF N!Next, N!Socket

\* It says that a device has one socket.
LEMMA LanHolds == LanInv => OneSocket
<1> SUFFICES ASSUME LanInv PROVE OneSocket
  OBVIOUS
<1>1. Mapped(sock, connections) /\ active \in [N!Device -> {"on", "stopping", "off"}]
  BY DEF LanInv
<1>2. N!Used \subseteq N!Socks
  BY DEF N!Used
<1> QED BY <1>1, <1>2 DEF Mapped, OneSocket, N!OneSocket

\* A device has one socket to a peer, whoever dials and in whatever order the two ends
\* learn of it, open or close: any number of sockets, faults and calls of stop.
THEOREM SocketsAreSingle == N!Spec => []OneSocket
<1>1. N!Init => LanInv
  BY LanStarts
<1>2. LanInv /\ [N!Next]_(N!vars) => LanInv'
  BY LanSteps
<1>3. LanInv => OneSocket
  BY LanHolds
<1> QED BY <1>1, <1>2, <1>3, PTL DEF N!Spec

-----------------------------------------------------------------------------
(* Copies *)

Mark == [id : D!Packet, old : BOOLEAN]

\* A sequence r that is s without its element at i.
Cut(r, s, i) ==
    /\ Len(r) = Len(s) - 1
    /\ \A j \in 1..Len(r) : r[j] = IF j < i THEN s[j] ELSE s[j + 1]

LEMMA Shortened ==
    ASSUME NEW X, NEW s \in Seq(X), NEW i \in 1..Len(s), NEW r, r = D!RemoveAt(s, i)
    PROVE  r \in Seq(X) /\ Cut(r, s, i)
<1> DEFINE a == SubSeq(s, 1, i - 1)
           b == SubSeq(s, i + 1, Len(s))
<1>1. Len(s) \in Nat /\ i \in Nat /\ i <= Len(s) /\ 1 <= i
  BY LenProperties
<1>2. /\ a \in Seq(X) /\ Len(a) = i - 1
      /\ \A j \in 1..(i - 1) : a[j] = s[j]
  <2>1. \A j \in 1..(i - 1) : j \in 1..Len(s)
    BY <1>1
  <2> QED BY <1>1, <2>1, SubSeqProperties
<1>3. /\ b \in Seq(X) /\ Len(b) = Len(s) - i
      /\ \A j \in 1..(Len(s) - i) : b[j] = s[i + j]
  <2>1. \A j \in (i + 1)..Len(s) : j \in 1..Len(s)
    BY <1>1
  <2>2. b \in Seq(X) /\ Len(b) = IF i + 1 <= Len(s) THEN Len(s) - (i + 1) + 1 ELSE 0
    BY <1>1, <2>1, SubSeqProperties
  <2>3. \A j \in 1..(Len(s) - (i + 1) + 1) : b[j] = s[i + 1 + j - 1]
    BY <1>1, <2>1, SubSeqProperties
  <2>4. \A j \in 1..(Len(s) - i) : b[j] = s[i + j]
    <3> SUFFICES ASSUME NEW j \in 1..(Len(s) - i) PROVE b[j] = s[i + j]
      OBVIOUS
    <3>1. j \in 1..(Len(s) - (i + 1) + 1) /\ i + 1 + j - 1 = i + j
      BY <1>1
    <3> HIDE DEF b
    <3> QED BY <2>3, <3>1
  <2>5. Len(b) = Len(s) - i
    BY <1>1, <2>2
  <2> QED BY <2>2, <2>4, <2>5
<1> HIDE DEF a, b
<1>4. r = a \o b
  BY DEF D!RemoveAt, a, b
<1>5. /\ r \in Seq(X) /\ Len(r) = Len(a) + Len(b)
      /\ \A j \in 1..(Len(a) + Len(b)) : r[j] = IF j <= Len(a) THEN a[j] ELSE b[j - Len(a)]
  <2>1. a \in Seq(X) /\ b \in Seq(X)
    BY <1>2, <1>3
  <2>2. /\ a \o b \in Seq(X) /\ Len(a \o b) = Len(a) + Len(b)
        /\ \A j \in 1..Len(a) + Len(b) : (a \o b)[j] = IF j <= Len(a) THEN a[j] ELSE b[j - Len(a)]
    BY <2>1, ConcatProperties, Zenon
  <2> QED BY <1>4, <2>2
<1>6. Len(r) = Len(s) - 1
  BY <1>1, <1>2, <1>3, <1>5
<1>7. ASSUME NEW j \in 1..Len(r)
      PROVE  r[j] = IF j < i THEN s[j] ELSE s[j + 1]
  <2>1. j \in Nat /\ 1 <= j /\ j <= Len(s) - 1 /\ j \in 1..(Len(a) + Len(b))
    BY <1>1, <1>5, <1>6
  <2>2. CASE j < i
    <3>1. j <= Len(a) /\ j \in 1..(i - 1)
      BY <1>1, <1>2, <2>1, <2>2
    <3> QED BY <1>2, <1>5, <2>1, <2>2, <3>1
  <2>3. CASE ~(j < i)
    <3>1. ~(j <= Len(a)) /\ j - Len(a) \in 1..(Len(s) - i) /\ i + (j - Len(a)) = j + 1
      BY <1>1, <1>2, <2>1, <2>3
    <3> QED BY <1>3, <1>5, <2>1, <2>3, <3>1
  <2> QED BY <2>2, <2>3
<1> QED BY <1>5, <1>6, <1>7 DEF Cut

\* What sequence m has of another one: each of its marks.
From(m, s) == \A i \in DOMAIN m : \E j \in DOMAIN s : m[i] = s[j]

\* Marks of different packets, at most n.
Marks(s, n) ==
    /\ s \in Seq(Mark) /\ Len(s) <= n
    /\ \A i, j \in DOMAIN s : s[i].id = s[j].id => i = j

\* One mark less: the others are there, and of different packets.
LEMMA OneLess ==
    ASSUME NEW n \in Nat, NEW s, Marks(s, n + 1), NEW i \in DOMAIN s, NEW r, r = D!RemoveAt(s, i)
    PROVE  /\ Marks(r, n) /\ From(r, s)
           /\ s[i].id \notin D!Ids(r)
           /\ \A j \in DOMAIN s : j # i => \E k \in DOMAIN r : r[k] = s[j]
<1>1. s \in Seq(Mark) /\ DOMAIN s = 1..Len(s) /\ Len(s) \in Nat /\ i \in Nat /\ Len(s) <= n + 1
  BY LenProperties DEF Marks
<1>2. /\ r \in Seq(Mark) /\ Len(r) = Len(s) - 1
      /\ \A j \in 1..Len(r) : r[j] = IF j < i THEN s[j] ELSE s[j + 1]
  <2>1. s \in Seq(Mark) /\ i \in 1..Len(s) /\ r = D!RemoveAt(s, i)
    BY <1>1
  <2>2. r \in Seq(Mark) /\ Cut(r, s, i)
    BY <2>1, Shortened
  <2> QED BY <2>2 DEF Cut
<1>3. DOMAIN r = 1..Len(r) /\ Len(r) \in Nat
  BY <1>2, LenProperties
<1> DEFINE at(j) == IF j < i THEN j ELSE j + 1
<1>4. ASSUME NEW j \in DOMAIN r
      PROVE  r[j] = s[at(j)] /\ at(j) \in DOMAIN s /\ at(j) # i
  BY <1>1, <1>2, <1>3
<1>5. \A j, k \in DOMAIN r : at(j) = at(k) => j = k
  BY <1>1, <1>3
<1>6. ASSUME NEW j \in DOMAIN s, j # i
      PROVE  \E k \in DOMAIN r : at(k) = j
  <2>1. CASE j < i
    BY <1>1, <1>2, <1>3, <2>1
  <2>2. CASE ~(j < i)
    <3>1. j - 1 \in DOMAIN r /\ at(j - 1) = j
      BY <1>1, <1>2, <1>3, <1>6, <2>2
    <3> QED BY <3>1
  <2> QED BY <2>1, <2>2
<1> HIDE DEF at
<1>7. From(r, s)
  BY <1>4 DEF From
<1>8. ASSUME NEW j \in DOMAIN r, NEW k \in DOMAIN r, r[j].id = r[k].id
      PROVE  j = k
  BY <1>4, <1>5, <1>8 DEF Marks
<1>9. s[i].id \notin D!Ids(r)
  BY <1>4 DEF D!Ids, Marks
<1>10. Len(r) <= n
  BY <1>1, <1>2, <1>3
<1> QED BY <1>2, <1>4, <1>6, <1>7, <1>8, <1>9, <1>10 DEF Marks

\* The first of the expired marks, if there is one.
LEMMA FirstExists ==
    ASSUME NEW s \in Seq(Mark), \E i \in DOMAIN s : s[i].old,
           NEW f, f = CHOOSE i \in DOMAIN s : s[i].old /\ \A j \in 1..(i - 1) : ~s[j].old
    PROVE  f \in DOMAIN s /\ s[f].old
<1> DEFINE expired == {i \in DOMAIN s : s[i].old}
           less == {ss \in Nat \X Nat : ss[1] < ss[2]}
<1>1. DOMAIN s = 1..Len(s) /\ Len(s) \in Nat
  BY LenProperties
<1>2. expired \subseteq Nat /\ expired # {}
  BY <1>1
<1>3. IsWellFoundedOn(less, Nat)
  BY NatLessThanWellFounded, Zenon DEF OpToRel
<1>4. PICK i \in expired : \A j \in expired : ~(<<j, i>> \in less)
  <2> HIDE DEF less, expired
  <2> QED BY <1>2, <1>3, WFMin
<1>5. ASSUME NEW j \in 1..(i - 1)
      PROVE  ~s[j].old
  <2>1. i \in Nat /\ i <= Len(s) /\ j \in Nat /\ j < i /\ j \in DOMAIN s
    BY <1>1
  <2>2. <<j, i>> \in less
    BY <2>1
  <2>3. j \notin expired
    BY <1>4, <2>2
  <2> QED BY <2>1, <2>3
<1>6. i \in DOMAIN s /\ s[i].old
  OBVIOUS
<1> HIDE DEF expired, less
<1> QED BY <1>5, <1>6

\* Marking a packet whose mark is not fresh: its mark is, then; the others are those
\* that were there, but perhaps one.
LEMMA MarkedWell ==
    ASSUME Marks(seen, SEEN_INBOUND_MAX), NEW p \in D!Packet, NEW m, m = D!markInboundSeen(p)
    PROVE  /\ Marks(m, SEEN_INBOUND_MAX)
           /\ \E i \in DOMAIN m : m[i] = [id |-> p, old |-> FALSE]
           /\ \A i \in DOMAIN m : m[i].id = p \/ \E j \in DOMAIN seen : m[i] = seen[j]
<1> DEFINE n == SEEN_INBOUND_MAX
           new == [id |-> p, old |-> FALSE]
<1>0. /\ n \in Nat /\ n >= 1 /\ new \in Mark
      /\ seen \in Seq(Mark) /\ DOMAIN seen = 1..Len(seen) /\ Len(seen) \in Nat /\ Len(seen) <= n
  BY CopyConstants, LenProperties DEF D!ConstantsOK, Marks, Mark
<1> HIDE DEF n
<1>1. PICK s : s = D!Marked(p)
  OBVIOUS
<1>2. /\ Marks(s, n + 1)
      /\ \E i \in DOMAIN s : s[i] = new
      /\ \A i \in DOMAIN s : s[i].id = p \/ \E j \in DOMAIN seen : s[i] = seen[j]
      /\ Len(s) > n => s[1] # new
  <2>1. CASE p \in D!Ids(seen)
    <3>1. s = [i \in DOMAIN seen |-> IF seen[i].id = p THEN new ELSE seen[i]]
      BY <1>1, <2>1 DEF D!Marked
    <3>2. PICK k \in DOMAIN seen : seen[k].id = p
      BY <2>1 DEF D!Ids
    <3>3. DOMAIN s = DOMAIN seen /\ s[k] = new
      BY <3>1, <3>2
    <3>4. s \in Seq(Mark) /\ Len(s) = Len(seen)
      <4>1. \A i \in 1..Len(seen) : seen[i] \in Mark
        BY <1>0, ElementOfSeq
      <4>2. s \in [1..Len(seen) -> Mark]
        BY <1>0, <3>1, <4>1
      <4> QED BY <1>0, <4>2, IsASeq, LenProperties
    <3>5. \A i \in DOMAIN s : s[i].id = seen[i].id
      BY <3>1, <3>3
    <3>6. \A i, j \in DOMAIN s : s[i].id = s[j].id => i = j
      BY <3>3, <3>5 DEF Marks
    <3>7. \A i \in DOMAIN s : s[i].id = p \/ \E j \in DOMAIN seen : s[i] = seen[j]
      BY <3>1, <3>3
    <3>8. Len(s) <= n + 1 /\ ~(Len(s) > n)
      BY <1>0, <3>4
    <3> QED BY <3>3, <3>4, <3>6, <3>7, <3>8 DEF Marks
  <2>2. CASE p \notin D!Ids(seen)
    <3>1. s = Append(seen, new)
      BY <1>1, <2>2 DEF D!Marked
    <3>2. /\ s \in Seq(Mark) /\ Len(s) = Len(seen) + 1
          /\ \A i \in 1..Len(seen) : s[i] = seen[i]
          /\ s[Len(seen) + 1] = new
      BY <1>0, <3>1, AppendProperties
    <3>3. DOMAIN s = 1..(Len(seen) + 1)
      BY <3>2, LenProperties
    <3>4. \A i \in DOMAIN s : i = Len(seen) + 1 \/ (i \in DOMAIN seen /\ s[i] = seen[i])
      BY <1>0, <3>2, <3>3
    <3>5. \A i \in DOMAIN seen : seen[i].id # p
      BY <2>2 DEF D!Ids
    <3>6. \A i, j \in DOMAIN s : s[i].id = s[j].id => i = j
      BY <3>2, <3>4, <3>5 DEF Marks
    <3>7. \A i \in DOMAIN s : s[i].id = p \/ \E j \in DOMAIN seen : s[i] = seen[j]
      BY <3>2, <3>4
    <3>8. Len(s) <= n + 1 /\ Len(seen) + 1 \in DOMAIN s
      BY <1>0, <3>2, <3>3
    <3>9. Len(s) > n => s[1] # new
      <4> SUFFICES ASSUME Len(s) > n PROVE s[1] # new
        OBVIOUS
      <4>1. 1 \in DOMAIN seen
        BY <1>0, <3>2
      <4>2. s[1] = seen[1] /\ seen[1].id # p
        BY <1>0, <3>2, <3>5, <4>1
      <4> QED BY <4>2
    <3> QED BY <3>2, <3>6, <3>7, <3>8, <3>9 DEF Marks
  <2> QED BY <2>1, <2>2
<1>3. s \in Seq(Mark) /\ DOMAIN s = 1..Len(s) /\ Len(s) \in Nat
  BY <1>2, LenProperties DEF Marks
<1>4. CASE Len(s) <= n
  <2>1. m = s
    BY <1>1, <1>4 DEF D!markInboundSeen, n
  <2> QED BY <1>2, <1>4, <2>1 DEF Marks, n
<1>5. ASSUME NEW i \in DOMAIN s, s[i] # new, m = D!RemoveAt(s, i)
      PROVE  /\ Marks(m, n)
             /\ \E k \in DOMAIN m : m[k] = new
             /\ \A k \in DOMAIN m : m[k].id = p \/ \E j \in DOMAIN seen : m[k] = seen[j]
  <2>1. /\ Marks(m, n) /\ From(m, s)
        /\ \A j \in DOMAIN s : j # i => \E k \in DOMAIN m : m[k] = s[j]
    BY <1>0, <1>2, <1>5, OneLess
  <2>2. PICK j \in DOMAIN s : s[j] = new
    BY <1>2
  <2>3. \E k \in DOMAIN m : m[k] = new
    BY <1>5, <2>1, <2>2
  <2> QED BY <1>2, <2>1, <2>3 DEF From
<1>6. CASE ~(Len(s) <= n) /\ \E i \in DOMAIN s : s[i].old
  <2>1. PICK f : f = CHOOSE i \in DOMAIN s : s[i].old /\ \A j \in 1..(i - 1) : ~s[j].old
    OBVIOUS
  <2>2. f \in DOMAIN s /\ s[f].old
    BY <1>3, <1>6, <2>1, FirstExists
  <2>3. m = D!RemoveAt(s, f)
    BY <1>1, <1>6, <2>1 DEF D!markInboundSeen, n
  <2>4. s[f] # new
    BY <2>2
  <2> QED BY <1>5, <2>2, <2>3, <2>4 DEF n
<1>7. CASE ~(Len(s) <= n) /\ ~\E i \in DOMAIN s : s[i].old
  <2>1. m = Tail(s)
    BY <1>1, <1>7 DEF D!markInboundSeen, n
  <2>2. Len(s) > n /\ 1 \in DOMAIN s /\ s # <<>>
    BY <1>0, <1>3, <1>7
  <2>3. m = D!RemoveAt(s, 1)
    <3>1. SubSeq(s, 1, 1 - 1) = <<>>
      BY SubSeqEmpty
    <3>2. Tail(s) = SubSeq(s, 2, Len(s)) /\ Tail(s) \in Seq(Mark)
      BY <1>3, <2>2, TailIsSubSeq, HeadTailProperties
    <3>3. <<>> \o Tail(s) = Tail(s)
      BY <3>2, ConcatEmptySeq
    <3> QED BY <2>1, <3>1, <3>2, <3>3 DEF D!RemoveAt
  <2> QED BY <1>2, <1>5, <2>2, <2>3 DEF n
<1> QED BY <1>4, <1>6, <1>7

\* Taking the mark of a packet back: it is gone, and the others stay.
LEMMA ReleasedWell ==
    ASSUME NEW s, Marks(s, SEEN_INBOUND_MAX), NEW p, NEW m, m = D!Released(s, p)
    PROVE  Marks(m, SEEN_INBOUND_MAX) /\ From(m, s) /\ p \notin D!Ids(m)
<1> DEFINE n == SEEN_INBOUND_MAX - 1
<1>1. n \in Nat /\ n + 1 = SEEN_INBOUND_MAX
  BY CopyConstants DEF D!ConstantsOK
<1> HIDE DEF n
<1>2. CASE p \notin D!Ids(s)
  BY <1>2 DEF D!Released, From
<1>3. CASE p \in D!Ids(s)
  <2>1. PICK i : i = CHOOSE j \in DOMAIN s : s[j].id = p
    OBVIOUS
  <2>2. i \in DOMAIN s /\ s[i].id = p
    BY <1>3, <2>1 DEF D!Ids
  <2>3. m = D!RemoveAt(s, i) /\ Marks(s, n + 1)
    BY <1>1, <1>3, <2>1 DEF D!Released
  <2>4. Marks(m, n) /\ From(m, s) /\ p \notin D!Ids(m)
    BY <1>1, <2>2, <2>3, OneLess
  <2>5. Len(m) \in Nat /\ Len(m) <= n + 1
    BY <1>1, <2>4, LenProperties DEF Marks
  <2> QED BY <1>1, <2>4, <2>5 DEF Marks
<1> QED BY <1>2, <1>3

\* The recipient: what is marked was opened, and what was opened is marked, was seen
\* too long ago, or threw; a session that one handshake has set up is the one agreed on.
MarkInv ==
    /\ Marks(seen, SEEN_INBOUND_MAX)
    /\ D!Ids(seen) \subseteq read
    /\ \A p \in read : p \in stale \cup threw \/ D!isDuplicateInbound(p)
    /\ again \subseteq stale \cup threw /\ used \subseteq read
    /\ IF D!Handshake \in read THEN D!Handshake \in again \/ session = "agreed"
                             ELSE session = "none"

\* Handling a packet keeps this, and it is opened if it is the handshake, or the session
\* is the one agreed on.
LEMMA HandledWell ==
    ASSUME MarkInv, NEW p \in D!Packet, D!handleIncomingPacket(p)
    PROVE  /\ MarkInv'
           /\ read \subseteq read' /\ again \subseteq again'
           /\ p = D!Handshake \/ session = "agreed" => p \in read'
<1>1. CASE D!isDuplicateInbound(p)
  <2>1. p \in D!Ids(seen)
    BY <1>1 DEF D!isDuplicateInbound, D!Ids
  <2> QED BY <1>1, <2>1 DEF MarkInv, D!handleIncomingPacket, D!isDuplicateInbound, D!Ids
<1>2. CASE ~D!isDuplicateInbound(p)
  <2>1. /\ IF p = D!Handshake THEN D!handleHandshakePacket(p) ELSE D!handleDataPacket(p)
        /\ stale' = stale \cup ((D!Ids(seen) \ D!Ids(seen')) \ {p})
        /\ again' = IF p \in read THEN again \cup {p} ELSE again
    BY <1>2 DEF D!handleIncomingPacket
  <2>2. p \in read => p \in stale \cup threw
    BY <1>2 DEF MarkInv
  <2>3. PICK m : m = D!markInboundSeen(p)
    OBVIOUS
  <2>4. /\ Marks(m, SEEN_INBOUND_MAX)
        /\ \E i \in DOMAIN m : m[i] = [id |-> p, old |-> FALSE]
        /\ \A i \in DOMAIN m : m[i].id = p \/ \E j \in DOMAIN seen : m[i] = seen[j]
    BY <2>3, MarkedWell DEF MarkInv
  <2>10. threw \subseteq threw'
    BY <2>1 DEF D!handleHandshakePacket, D!handleDataPacket
  <2>5. ASSUME Marks(seen', SEEN_INBOUND_MAX),
               \A i \in DOMAIN seen' : seen'[i].id = p \/ \E j \in DOMAIN seen : seen'[i] = seen[j],
               NEW q \in read, q # p
        PROVE  q \in stale' \cup threw' \/ D!isDuplicateInbound(q)'
    <3>1. CASE q \in stale \cup threw
      BY <2>1, <2>10, <3>1
    <3>2. CASE q \notin stale \cup threw
      <4>1. PICK j \in DOMAIN seen : seen[j] = [id |-> q, old |-> FALSE]
        BY <3>2 DEF MarkInv, D!isDuplicateInbound
      <4>2. CASE q \notin D!Ids(seen')
        BY <2>1, <2>5, <4>1, <4>2 DEF D!Ids
      <4>3. CASE q \in D!Ids(seen')
        <5>1. PICK i \in DOMAIN seen' : seen'[i].id = q
          BY <4>3 DEF D!Ids
        <5>2. PICK k \in DOMAIN seen : seen'[i] = seen[k]
          BY <2>5, <5>1
        <5>3. k = j
          BY <4>1, <5>1, <5>2 DEF MarkInv, Marks
        <5> QED BY <4>1, <5>2, <5>3 DEF D!isDuplicateInbound
      <4> QED BY <4>2, <4>3
    <3> QED BY <3>1, <3>2
  <2>6. again' \subseteq stale' \cup threw'
    BY <2>1, <2>2, <2>10 DEF MarkInv
  <2>7. ASSUME seen' = m, read' = read \cup {p}
        PROVE  /\ Marks(seen, SEEN_INBOUND_MAX)'
               /\ (D!Ids(seen) \subseteq read)'
               /\ \A q \in read' : q \in stale' \cup threw' \/ D!isDuplicateInbound(q)'
    <3>1. Marks(seen', SEEN_INBOUND_MAX)
      BY <2>4, <2>7
    <3>2. D!Ids(seen') \subseteq read'
      BY <2>4, <2>7 DEF MarkInv, D!Ids
    <3>3. D!isDuplicateInbound(p)'
      BY <2>4, <2>7 DEF D!isDuplicateInbound
    <3>4. \A q \in read : q # p => q \in stale' \cup threw' \/ D!isDuplicateInbound(q)'
      BY <2>4, <2>5, <2>7
    <3> QED BY <2>7, <3>1, <3>2, <3>3, <3>4
  <2>8. CASE p = D!Handshake
    <3>1. /\ session' = IF prekey /\ session # "none" THEN "other" ELSE "agreed"
          /\ used' = {p} /\ read' = read \cup {p} /\ seen' = m
      BY <2>1, <2>3, <2>8 DEF D!handleHandshakePacket
    <3>2. D!Handshake \in again' \/ session' = "agreed"
      BY <2>1, <2>8, <3>1 DEF MarkInv
    <3> QED BY <2>1, <2>6, <2>7, <2>8, <3>1, <3>2 DEF MarkInv
  <2>9. CASE p # D!Handshake
    <3>1. D!handleDataPacket(p) /\ session' = session
      BY <2>1, <2>9 DEF D!handleDataPacket
    <3>2. CASE D!Opens(p)
      <4>1. /\ used' = used \cup {p} /\ read' = read \cup {p}
            /\ \/ seen' = m
               \/ seen' = D!Released(m, p) /\ p \in threw'
        BY <2>3, <3>1, <3>2 DEF D!handleDataPacket
      <4>2. IF D!Handshake \in read' THEN D!Handshake \in again' \/ session' = "agreed"
                                   ELSE session' = "none"
        BY <2>1, <2>9, <3>1, <4>1 DEF MarkInv
      <4>3. used' \subseteq read'
        BY <4>1 DEF MarkInv
      <4>4. CASE seen' = m
        BY <2>1, <2>6, <2>7, <4>1, <4>2, <4>3, <4>4 DEF MarkInv
      <4>5. CASE seen' = D!Released(m, p) /\ p \in threw'
        <5>1. Marks(seen', SEEN_INBOUND_MAX) /\ From(seen', m) /\ p \notin D!Ids(seen')
          BY <2>4, <4>5, ReleasedWell
        <5>2. \A i \in DOMAIN seen' : \E j \in DOMAIN seen : seen'[i] = seen[j]
          BY <2>4, <5>1 DEF From, D!Ids
        <5>3. D!Ids(seen') \subseteq read'
          BY <4>1, <5>2 DEF MarkInv, D!Ids
        <5>4. \A q \in read' : q \in stale' \cup threw' \/ D!isDuplicateInbound(q)'
          BY <2>5, <4>1, <4>5, <5>1, <5>2
        <5> QED BY <2>1, <2>6, <4>1, <4>2, <4>3, <5>1, <5>3, <5>4 DEF MarkInv
      <4> QED BY <4>1, <4>4, <4>5
    <3>3. CASE ~D!Opens(p)
      <4>1. seen' = D!Released(m, p) /\ used' = used /\ read' = read
        BY <2>3, <3>1, <3>3 DEF D!handleDataPacket
      <4>2. Marks(seen', SEEN_INBOUND_MAX) /\ From(seen', m) /\ p \notin D!Ids(seen')
        BY <2>4, <4>1, ReleasedWell
      <4>3. \A i \in DOMAIN seen' : \E j \in DOMAIN seen : seen'[i] = seen[j]
        BY <2>4, <4>2 DEF From, D!Ids
      <4>4. D!Ids(seen') \subseteq read'
        BY <4>1, <4>3 DEF MarkInv, D!Ids
      <4>5. \A q \in read' : q \in stale' \cup threw' \/ D!isDuplicateInbound(q)'
        BY <2>1, <2>2, <2>5, <2>10, <4>1, <4>2, <4>3
      <4>6. IF D!Handshake \in read' THEN D!Handshake \in again' \/ session' = "agreed"
                                   ELSE session' = "none"
        BY <2>1, <3>1, <4>1 DEF MarkInv
      <4>7. session = "agreed" => p \in read'
        BY <3>3, <4>1 DEF D!Opens, MarkInv
      <4> QED BY <2>1, <2>6, <2>9, <4>1, <4>2, <4>4, <4>5, <4>6, <4>7 DEF MarkInv
    <3> QED BY <3>2, <3>3
  <2> QED BY <2>8, <2>9
<1> QED BY <1>1, <1>2

\* What the relay has for the recipient is in order, and of what it has had the
\* rest was opened, once the handshake is among it.
RelayInv ==
    /\ sent \in Nat /\ handed \subseteq 1..sent
    /\ frames \in Seq(D!Packet) /\ relay \in Seq(D!Packet)
    /\ D!ToSet(relay) \subseteq handed
    /\ \A i, j \in DOMAIN relay : i < j => relay[i] < relay[j]
    /\ D!Handshake \in D!ToSet(relay) => handed \subseteq D!ToSet(relay)
    /\ D!Handshake \in handed \ again => handed \subseteq read \cup D!ToSet(relay)

CopyInv == MarkInv /\ RelayInv

\* At first nothing was sent.
LEMMA CopiesStart == D!Init => CopyInv
<1> SUFFICES ASSUME D!Init PROVE CopyInv
  OBVIOUS
<1>1. D!Ids(<<>>) = {} /\ D!ToSet(<<>>) = {} /\ <<>> \in Seq(Mark) /\ <<>> \in Seq(D!Packet) /\ Len(<<>>) = 0
  BY DEF D!Ids, D!ToSet
<1>2. MarkInv
  BY <1>1, CopyConstants DEF D!Init, MarkInv, Marks, D!ConstantsOK
<1>3. RelayInv
  BY <1>1 DEF D!Init, RelayInv
<1> QED BY <1>2, <1>3 DEF CopyInv

\* The packet that comes first is taken, the others stay in order.
LEMMA HeadTaken ==
    ASSUME NEW s \in Seq(D!Packet), s # <<>>, NEW t, t = Tail(s)
    PROVE  /\ Head(s) \in D!Packet /\ t \in Seq(D!Packet)
           /\ Head(s) = s[1] /\ 1 \in DOMAIN s
           /\ \A j \in DOMAIN t : j + 1 \in DOMAIN s /\ t[j] = s[j + 1] /\ j \in Nat
           /\ D!ToSet(s) = {Head(s)} \cup D!ToSet(t)
<1>1. /\ Head(s) \in D!Packet /\ t \in Seq(D!Packet) /\ Len(t) = Len(s) - 1
      /\ \A i \in 1..Len(t) : t[i] = s[i + 1]
  BY HeadTailProperties
<1>2. /\ Len(s) \in Nat /\ Len(t) \in Nat /\ DOMAIN s = 1..Len(s) /\ DOMAIN t = 1..Len(t)
      /\ Len(s) >= 1
  BY <1>1, LenProperties
<1>3. Head(s) = s[1] /\ 1 \in DOMAIN s
  BY <1>2
<1>4. \A j \in DOMAIN t : j + 1 \in DOMAIN s /\ t[j] = s[j + 1] /\ j \in Nat
  BY <1>1, <1>2
<1>5. ASSUME NEW i \in DOMAIN s, i # 1
      PROVE  \E j \in DOMAIN t : t[j] = s[i]
  <2>1. i - 1 \in DOMAIN t /\ (i - 1) + 1 = i
    BY <1>1, <1>2, <1>5
  <2> QED BY <1>4, <2>1
<1>6. D!ToSet(s) = {Head(s)} \cup D!ToSet(t)
  BY <1>3, <1>4, <1>5 DEF D!ToSet
<1> QED BY <1>1, <1>3, <1>4, <1>6

\* Every step keeps both.
LEMMA CopySteps == CopyInv /\ [D!Next]_(D!vars) => CopyInv'
<1> SUFFICES ASSUME CopyInv, [D!Next]_(D!vars) PROVE CopyInv'
  OBVIOUS
<1>0. MarkInv /\ RelayInv
  BY DEF CopyInv
<1>1. ASSUME UNCHANGED <<seen, session, used, read, stale, threw, again>>
      PROVE  MarkInv'
  BY <1>0, <1>1 DEF MarkInv, D!isDuplicateInbound, D!Ids
<1>2. ASSUME UNCHANGED <<sent, relay, read, handed, again>>, frames' \in Seq(D!Packet)
      PROVE  RelayInv'
  BY <1>0, <1>2 DEF RelayInv
<1>3. CASE UNCHANGED D!vars
  BY <1>0, <1>1, <1>2, <1>3 DEF CopyInv, RelayInv, D!vars
<1>4. CASE D!routeAndSend
  <2>1. PICK p \in D!Packet : p = sent + 1
    BY <1>4 DEF D!routeAndSend
  <2>2. sent \in Nat /\ p \in Nat /\ sent' = p /\ handed \subseteq 1..sent
    BY <1>0, <1>4, <2>1 DEF D!routeAndSend, RelayInv
  <2>3. frames' \in Seq(D!Packet)
    BY <1>0, <1>4, <2>1, AppendProperties DEF D!routeAndSend, RelayInv
  <2>4. CASE ~writable
    <3>1. UNCHANGED <<relay, handed, read, again>> /\ handed \subseteq 1..sent'
      BY <1>4, <2>2, <2>4 DEF D!routeAndSend
    <3> QED BY <1>0, <1>1, <1>4, <2>2, <2>3, <3>1 DEF CopyInv, RelayInv, D!routeAndSend
  <2>5. CASE writable
    <3>1. relay' = Append(relay, p) /\ handed' = handed \cup {p} /\ UNCHANGED <<read, again>>
      BY <1>4, <2>1, <2>5 DEF D!routeAndSend
    <3>2. relay \in Seq(D!Packet) /\ Len(relay) \in Nat /\ DOMAIN relay = 1..Len(relay)
      BY <1>0, LenProperties DEF RelayInv
    <3>3. /\ relay' \in Seq(D!Packet) /\ Len(relay') = Len(relay) + 1
          /\ \A i \in 1..Len(relay) : relay'[i] = relay[i]
          /\ relay'[Len(relay) + 1] = p
      BY <3>1, <3>2, AppendProperties
    <3>4. DOMAIN relay' = 1..(Len(relay) + 1)
      BY <3>3, LenProperties
    <3>5. \A i \in DOMAIN relay' : i = Len(relay) + 1 \/ (i \in DOMAIN relay /\ relay'[i] = relay[i])
      BY <3>2, <3>3, <3>4
    <3>6. Len(relay) + 1 \in DOMAIN relay' /\ \A i \in DOMAIN relay : i \in DOMAIN relay'
      BY <3>2, <3>4
    <3>7. D!ToSet(relay') = D!ToSet(relay) \cup {p}
      BY <3>2, <3>3, <3>5, <3>6 DEF D!ToSet
    <3>8. \A i \in DOMAIN relay : relay[i] < p
      <4> SUFFICES ASSUME NEW i \in DOMAIN relay PROVE relay[i] < p
        OBVIOUS
      <4>1. relay[i] \in handed
        BY <1>0 DEF RelayInv, D!ToSet
      <4>2. relay[i] \in 1..sent /\ sent \in Nat
        BY <2>2, <4>1
      <4>3. relay[i] < sent + 1
        BY <4>2
      <4> QED BY <2>1, <4>3
    <3>9. ASSUME NEW i \in DOMAIN relay', NEW j \in DOMAIN relay', i < j
          PROVE  relay'[i] < relay'[j]
      <4>1. i \in DOMAIN relay
        BY <3>2, <3>4, <3>5, <3>9
      <4>2. CASE j = Len(relay) + 1
        BY <3>2, <3>3, <3>8, <4>1, <4>2
      <4>3. CASE j # Len(relay) + 1
        BY <1>0, <3>5, <3>9, <4>1, <4>3 DEF RelayInv
      <4> QED BY <4>2, <4>3
    <3>10. D!Handshake \in D!ToSet(relay') => handed' \subseteq D!ToSet(relay')
      <4>1. CASE p = D!Handshake
        <5>1. handed = {}
          BY <2>1, <2>2, <4>1 DEF D!Handshake
        <5> QED BY <3>1, <3>7, <5>1
      <4>2. CASE p # D!Handshake
        BY <1>0, <3>1, <3>7, <4>2 DEF RelayInv
      <4> QED BY <4>1, <4>2
    <3>11. D!Handshake \in handed' \ again' => handed' \subseteq read' \cup D!ToSet(relay')
      <4>1. CASE p = D!Handshake
        BY <3>7, <3>10, <4>1
      <4>2. CASE p # D!Handshake
        BY <1>0, <3>1, <3>7, <4>2 DEF RelayInv
      <4> QED BY <4>1, <4>2
    <3>12. D!ToSet(relay') \subseteq handed' /\ handed' \subseteq 1..sent'
      <4>1. handed' \subseteq 1..sent'
        BY <2>1, <2>2, <3>1
      <4> QED BY <1>0, <3>1, <3>7, <4>1 DEF RelayInv
    <3>13. RelayInv'
      BY <2>2, <2>3, <3>3, <3>9, <3>10, <3>11, <3>12 DEF RelayInv
    <3> QED BY <1>1, <1>4, <3>13 DEF CopyInv, D!routeAndSend
  <2> QED BY <2>4, <2>5
<1>5. CASE D!ReceiveFromLan
  <2>1. frames \in Seq(D!Packet) /\ frames # <<>>
    BY <1>0, <1>5 DEF D!ReceiveFromLan, RelayInv
  <2>2. Head(frames) \in D!Packet /\ frames' \in Seq(D!Packet)
    BY <1>5, <2>1, HeadTailProperties DEF D!ReceiveFromLan
  <2>3. D!handleIncomingPacket(Head(frames))
    BY <1>5 DEF D!ReceiveFromLan
  <2>4. MarkInv' /\ read \subseteq read' /\ again \subseteq again'
    BY <1>0, <2>2, <2>3, HandledWell
  <2>5. UNCHANGED <<sent, relay, handed>>
    BY <1>5 DEF D!ReceiveFromLan
  <2>6. RelayInv'
    BY <1>0, <2>2, <2>4, <2>5 DEF RelayInv
  <2> QED BY <2>4, <2>6 DEF CopyInv
<1>6. CASE D!ReceiveFromRelay
  <2>1. /\ relay \in Seq(D!Packet) /\ relay # <<>> /\ relay' = Tail(relay)
        /\ UNCHANGED <<sent, handed, frames>> /\ D!handleIncomingPacket(Head(relay))
    BY <1>0, <1>6 DEF D!ReceiveFromRelay, RelayInv
  <2>2. PICK p \in D!Packet : p = Head(relay)
    BY <2>1, HeadTaken
  <2>3. /\ relay' \in Seq(D!Packet) /\ p = relay[1] /\ 1 \in DOMAIN relay
        /\ \A j \in DOMAIN relay' : j + 1 \in DOMAIN relay /\ relay'[j] = relay[j + 1] /\ j \in Nat
        /\ D!ToSet(relay) = {p} \cup D!ToSet(relay')
    BY <2>1, <2>2, HeadTaken
  <2>4. /\ MarkInv' /\ read \subseteq read' /\ again \subseteq again'
        /\ p = D!Handshake \/ session = "agreed" => p \in read'
    BY <1>0, <2>1, <2>2, HandledWell
  <2>5. \A i, j \in DOMAIN relay' : i < j => relay'[i] < relay'[j]
    <3> SUFFICES ASSUME NEW i \in DOMAIN relay', NEW j \in DOMAIN relay', i < j
                 PROVE  relay'[i] < relay'[j]
      OBVIOUS
    <3>1. i + 1 < j + 1 /\ i + 1 \in DOMAIN relay /\ j + 1 \in DOMAIN relay
      BY <2>3
    <3>2. relay[i + 1] < relay[j + 1]
      BY <1>0, <3>1 DEF RelayInv
    <3> QED BY <2>3, <3>2
  <2>6. D!Handshake \notin D!ToSet(relay')
    <3> SUFFICES ASSUME NEW j \in DOMAIN relay', relay'[j] = D!Handshake PROVE FALSE
      BY DEF D!ToSet
    <3>1. 1 < j + 1 /\ j + 1 \in DOMAIN relay
      <4>1. j # 0
        <5>1. DOMAIN relay' = 1..Len(relay') /\ Len(relay') \in Nat
          BY <2>3, LenProperties
        <5> QED BY <5>1
      <4> QED BY <2>3, <4>1
    <3>2. relay[1] < relay[j + 1]
      BY <1>0, <2>3, <3>1 DEF RelayInv
    <3>3. relay[1] < 1 /\ relay[1] \in Nat /\ relay[1] >= 1
      BY <2>2, <2>3, <3>2 DEF D!Handshake, D!Packet
    <3> QED BY <3>3
  <2>7. D!Handshake \in handed' \ again' => handed' \subseteq read' \cup D!ToSet(relay')
    <3> SUFFICES ASSUME D!Handshake \in handed', D!Handshake \notin again'
                 PROVE  handed' \subseteq read' \cup D!ToSet(relay')
      OBVIOUS
    <3>1. D!Handshake \in handed /\ D!Handshake \notin again /\ handed \subseteq read \cup D!ToSet(relay)
      BY <1>0, <2>1, <2>4 DEF RelayInv
    <3>2. p \in read'
      <4>1. CASE p = D!Handshake
        BY <2>4, <4>1
      <4>2. CASE p # D!Handshake
        <5>1. D!Handshake \in read
          BY <2>3, <2>6, <3>1, <4>2
        <5>2. session = "agreed"
          BY <1>0, <3>1, <5>1 DEF MarkInv
        <5> QED BY <2>4, <5>2
      <4> QED BY <4>1, <4>2
    <3> QED BY <2>1, <2>3, <2>4, <3>1, <3>2
  <2>8. RelayInv'
    BY <1>0, <2>1, <2>3, <2>5, <2>6, <2>7 DEF RelayInv
  <2> QED BY <2>4, <2>8 DEF CopyInv
<1>7. CASE D!LanChanges
  <2>1. frames' \in Seq(D!Packet)
    BY <1>7, EmptySeq DEF D!LanChanges
  <2> QED BY <1>1, <1>2, <1>7, <2>1 DEF CopyInv, D!LanChanges
<1>8. CASE D!RelayChanges
  <2>1. frames' \in Seq(D!Packet)
    BY <1>0, <1>8 DEF D!RelayChanges, RelayInv
  <2> QED BY <1>1, <1>2, <1>8, <2>1 DEF CopyInv, D!RelayChanges
<1>9. CASE D!Minute
  <2>1. /\ seen' = [i \in DOMAIN seen |-> [seen[i] EXCEPT !.old = TRUE]]
        /\ stale' = stale \cup D!Ids(seen)
        /\ UNCHANGED <<frames, relay, sent, handed, session, used, read, threw, again>>
    BY <1>9 DEF D!Minute
  <2>2. seen \in Seq(Mark) /\ DOMAIN seen = 1..Len(seen) /\ Len(seen) \in Nat
    BY <1>0, LenProperties DEF MarkInv, Marks
  <2>3. \A i \in DOMAIN seen : seen[i] \in Mark
    BY <2>2, ElementOfSeq
  <2>4. /\ DOMAIN seen' = DOMAIN seen
        /\ \A i \in DOMAIN seen : seen'[i] \in Mark /\ seen'[i].id = seen[i].id
    BY <2>1, <2>3 DEF Mark
  <2>5. seen' \in Seq(Mark) /\ Len(seen') = Len(seen)
    <3>1. seen' \in [1..Len(seen) -> Mark]
      BY <2>1, <2>2, <2>4
    <3> QED BY <2>2, <3>1, IsASeq, LenProperties
  <2>6. Marks(seen', SEEN_INBOUND_MAX)
    BY <1>0, <2>4, <2>5 DEF MarkInv, Marks
  <2>7. D!Ids(seen') = D!Ids(seen)
    BY <2>4 DEF D!Ids
  <2>8. \A p \in read : p \in stale' \cup threw'
    BY <1>0, <2>1 DEF MarkInv, D!isDuplicateInbound, D!Ids
  <2>9. MarkInv'
    BY <1>0, <2>1, <2>6, <2>7, <2>8 DEF MarkInv
  <2>10. frames' \in Seq(D!Packet)
    BY <1>0, <2>1 DEF RelayInv
  <2> QED BY <1>2, <2>1, <2>9, <2>10 DEF CopyInv
<1>10. CASE D!Restart
  <2>1. /\ seen' = <<>> /\ stale' = stale \cup D!Ids(seen) /\ frames' = <<>>
        /\ UNCHANGED <<relay, sent, handed, session, used, read, threw, again>>
    BY <1>10 DEF D!Restart
  <2>2. Marks(seen', SEEN_INBOUND_MAX) /\ D!Ids(seen') = {} /\ frames' \in Seq(D!Packet)
    BY <2>1, CopyConstants DEF Marks, D!Ids, D!ConstantsOK
  <2>3. \A p \in read : p \in stale' \cup threw'
    BY <1>0, <2>1 DEF MarkInv, D!isDuplicateInbound, D!Ids
  <2>4. MarkInv'
    BY <1>0, <2>1, <2>2, <2>3 DEF MarkInv
  <2> QED BY <1>2, <2>1, <2>2, <2>4 DEF CopyInv
<1> QED BY <1>3, <1>4, <1>5, <1>6, <1>7, <1>8, <1>9, <1>10 DEF D!Next

\* They say that the copies are harmless.
LEMMA CopiesRest == CopyInv => CopiesHarmless
<1> SUFFICES ASSUME CopyInv PROVE D!CopiesCaught /\ D!NeverLessReliable
  BY DEF CopiesHarmless
<1>1. D!CopiesCaught
  BY DEF CopyInv, MarkInv, D!CopiesCaught
<1>2. D!NeverLessReliable
  BY DEF CopyInv, RelayInv, D!NeverLessReliable
<1> QED BY <1>1, <1>2

\* No packet that was opened is handled again within the minute and the size of the
\* map, unless its handling threw, and what the relay delivered was opened: any number
\* of packets.
THEOREM CopiesDoNoHarm == D!Spec => []CopiesHarmless
<1>1. D!Init => CopyInv
  BY CopiesStart
<1>2. CopyInv /\ [D!Next]_(D!vars) => CopyInv'
  BY CopySteps
<1>3. CopyInv => CopiesHarmless
  BY CopiesRest
<1> QED BY <1>1, <1>2, <1>3, PTL DEF D!Spec

=============================================================================
