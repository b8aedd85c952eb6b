----------------------------- MODULE LocalLink ------------------------------
(***************************************************************************)
(* The LAN bearer between two devices (transport/local/index.ts): each     *)
(* announces itself by UDP, dials the other when it hears of it, and keeps *)
(* one socket per peer.  Both may dial at once: a device learns whom a     *)
(* socket is to from its first frame, and of two sockets the one that the  *)
(* device with the smaller id has dialled stays.                           *)
(*                                                                         *)
(* A socket has an end at each device, whose handlers run there.  Ids are  *)
(* made for each start of the SDK, so a device that stops is gone for      *)
(* good.  Frames after the first, and broadcasts to no one, change nothing *)
(* here.                                                                   *)
(***************************************************************************)
EXTENDS Naturals, FiniteSets

CONSTANTS
    Smaller, Larger,   \* the two devices, by their ids
    MaxSocks,          \* bound: sockets at a time, in any behaviour
    Bounds             \* bounds of a behaviour: sockets at a time, faults (a socket
                       \* breaks, announcements fail to come) and calls of stop

Device == {Smaller, Larger}

ConstantsOK ==
    /\ MaxSocks \in Nat
    /\ Smaller # Larger
    /\ Bounds \subseteq [socks : 0..MaxSocks, faults : Nat, stops : Nat]

VARIABLES
    running,     \* "on", "stopping" while stop awaits, "off"
    discovered,  \* discoveredPeers: is the other listed? "no" | "fresh" | "stale"
    connections, \* the socket connections has for the other, 0 if none
    sock,        \* [1..MaxSocks -> socket]
    left,        \* what is left of the bounds
    unlisted     \* history: devices that identified a peer they no longer list

vars == <<running, discovered, connections, sock, left, unlisted>>

Socks == 1..MaxSocks
Other(d) == CHOOSE e \in Device : e # d

(* An end: "none" before the handlers are attached, "dialing", "open",     *)
(* "closed".  Who destroys a socket has taken it out of the map, and its   *)
(* own close event finds nothing to do: that end is closed at once.  frame *)
(* is the other's id frame: "no" | "sent" | "read".                        *)
End(state) == [state |-> state, frame |-> "no"]
Free == [by |-> 0, end |-> [d \in Device |-> End("closed")]]
Used == {s \in Socks : sock[s] # Free}

Live(k, d) == k.end[d].state \in {"dialing", "open"}
Open(s, d) == sock[s].end[d].state = "open"

Spend(what) == left[what] > 0 /\ left' = [left EXCEPT ![what] = @ - 1]

(* The socket without its end at d; forgotten with the last one.            *)
Without(k, d) == IF Live(k, Other(d)) THEN [k EXCEPT !.end[d] = End("closed")] ELSE Free

Destroyed(S, d) == [s \in Socks |-> IF s \in S THEN Without(sock[s], d) ELSE sock[s]]

Init ==
    /\ running = [d \in Device |-> "on"]
    /\ discovered = [d \in Device |-> "no"]
    /\ connections = [d \in Device |-> 0]
    /\ sock = [s \in Socks |-> Free]
    /\ left \in Bounds
    /\ unlisted = {}

----------------------------------------------------------------------------
(* Discovery *)

(* connectToPeer.  pendingConnections has addresses, and is asked for ids:  *)
(* an attempt under way does not keep another from being made.              *)
connectToPeer(d, s) ==
    [sock EXCEPT ![s] = [by |-> d, end |-> [e \in Device |-> End(IF e = d THEN "dialing"
                                                                   ELSE "none")]]]

(* handleAnnouncement; an announcement that finds every socket in use is    *)
(* one that was lost.  The UDP socket closes at the end of stop.            *)
handleAnnouncement(d) ==
    /\ running[Other(d)] = "on" /\ running[d] # "off"
    /\ discovered' = [discovered EXCEPT ![d] = "fresh"]
    /\ IF connections[d] = 0
       THEN \E s \in 1..left.socks \ Used :
              /\ \A t \in Socks \ Used : s <= t
              /\ sock' = connectToPeer(d, s)
       ELSE UNCHANGED sock
    /\ UNCHANGED <<running, connections, left, unlisted>>

(* Fifteen seconds without an announcement. *)
Lapse(d) ==
    /\ discovered[d] = "fresh"
    /\ \/ running[Other(d)] # "on" /\ UNCHANGED left
       \/ Spend("faults")
    /\ discovered' = [discovered EXCEPT ![d] = "stale"]
    /\ UNCHANGED <<running, connections, sock, unlisted>>

pruneStalePeers(d) ==
    /\ running[d] = "on" /\ discovered[d] = "stale"
    /\ discovered' = [discovered EXCEPT ![d] = "no"]
    /\ sock' = Destroyed({connections[d]}, d)
    /\ connections' = [connections EXCEPT ![d] = 0]
    /\ UNCHANGED <<running, left, unlisted>>

----------------------------------------------------------------------------
(* Sockets *)

Listening(d) == running[d] = "on"

(* The callback of createConnection: the id frame goes out.                 *)
Connected(s) ==
    LET d == sock[s].by IN
    /\ sock[s].end[d].state = "dialing"
    /\ Listening(Other(d)) \/ sock[s].end[Other(d)].state # "none"
    /\ sock' = [sock EXCEPT ![s].end[d].state = "open", ![s].end[Other(d)].frame = "sent"]
    /\ UNCHANGED <<running, discovered, connections, left, unlisted>>

handleIncomingConnection(s) ==
    LET d == Other(sock[s].by) IN
    /\ Listening(d)
    /\ sock[s].end[d].state = "none"
    /\ sock' = [sock EXCEPT ![s].end[d].state = "open", ![s].end[sock[s].by].frame = "sent"]
    /\ UNCHANGED <<running, discovered, connections, left, unlisted>>

(* Nobody listens: an attempt fails, and one that waits to be accepted is   *)
(* cut.                                                                     *)
Refused(s) ==
    LET d == sock[s].by IN
    /\ Live(sock[s], d) /\ sock[s].end[Other(d)].state = "none" /\ ~Listening(Other(d))
    /\ sock' = [sock EXCEPT ![s] = Free]
    /\ UNCHANGED <<running, discovered, connections, left, unlisted>>

\* Mutant of KeepsNew: the socket in use stays.
KeepsOld(s, d) == FALSE

(* The tie-break: which of two sockets a device keeps.                      *)
KeepsNew(s, d) == (sock[s].by = d) = (d = Smaller)

(* The first frame of a socket.                                             *)
Identified(s, d) ==
    /\ Open(s, d) /\ sock[s].end[d].frame = "sent"
    /\ IF connections[d] # 0 /\ ~KeepsNew(s, d)
       THEN /\ sock' = Destroyed({s}, d)
            /\ UNCHANGED <<connections, unlisted>>
       ELSE /\ sock' = [Destroyed({connections[d]}, d) EXCEPT ![s].end[d].frame = "read"]
            /\ connections' = [connections EXCEPT ![d] = s]
            /\ unlisted' = IF discovered[d] = "no" THEN unlisted \cup {d} ELSE unlisted
    /\ UNCHANGED <<running, discovered, left>>

\* Mutant of Closed: whatever socket closes, the entry of the peer goes.
ClosedClears(s, d) ==
    /\ Open(s, d)
    /\ \/ sock[s].end[Other(d)].state = "closed" /\ UNCHANGED left
       \/ Spend("faults")
    /\ sock' = Destroyed({s}, d)
    /\ connections' = [connections EXCEPT ![d] = 0]
    /\ UNCHANGED <<running, discovered, unlisted>>

(* The close event of the socket whose other end is closed, or, with a      *)
(* fault, of one that breaks.                                               *)
Closed(s, d) ==
    /\ Open(s, d)
    /\ \/ sock[s].end[Other(d)].state = "closed" /\ UNCHANGED left
       \/ Spend("faults")
    /\ sock' = Destroyed({s}, d)
    /\ connections' = IF connections[d] = s THEN [connections EXCEPT ![d] = 0] ELSE connections
    /\ UNCHANGED <<running, discovered, unlisted>>

----------------------------------------------------------------------------
(* stop *)

stop(d) ==
    /\ running[d] = "on" /\ Spend("stops")
    /\ running' = [running EXCEPT ![d] = "stopping"]
    /\ sock' = Destroyed({connections[d]}, d)
    /\ connections' = [connections EXCEPT ![d] = 0]
    /\ UNCHANGED <<discovered, unlisted>>

(* The server has closed: no socket it accepted is left. *)
Stopped(d) ==
    /\ running[d] = "stopping"
    /\ \A s \in Used : sock[s].by = d \/ sock[s].end[d].state \in {"none", "closed"}
    /\ running' = [running EXCEPT ![d] = "off"]
    /\ discovered' = [discovered EXCEPT ![d] = "no"]
    /\ UNCHANGED <<connections, sock, left, unlisted>>

----------------------------------------------------------------------------

Socket(s) ==
    \/ Connected(s) \/ handleIncomingConnection(s) \/ Refused(s)
    \/ \E d \in Device : Identified(s, d) \/ Closed(s, d)

Next ==
    \/ \E d \in Device : handleAnnouncement(d) \/ Lapse(d) \/ pruneStalePeers(d)
                         \/ stop(d) \/ Stopped(d)
    \/ \E s \in Used : Socket(s)

Spec == Init /\ [][Next]_vars

(* Sockets make progress, announcements and the prune timer recur.          *)
Fairness ==
    /\ \A s \in Socks : WF_vars(s \in Used /\ Socket(s))
    /\ \A d \in Device : /\ WF_vars(handleAnnouncement(d))
                         /\ WF_vars(pruneStalePeers(d)) /\ WF_vars(Stopped(d))
                         /\ WF_vars(running[Other(d)] # "on" /\ Lapse(d))

FairSpec == Spec /\ Fairness

----------------------------------------------------------------------------
(* Properties *)

\* A device has one socket to a peer: every other end it knows the peer of is
\* being closed, and the map names one that is open or about to close.
OneSocket ==
    /\ running \in [Device -> {"on", "stopping", "off"}]
    /\ \A d \in Device :
         /\ \A s \in Used : Open(s, d) /\ sock[s].end[d].frame = "read" => connections[d] = s
         /\ connections[d] # 0 => sock[connections[d]].end[d].frame = "read"

Joined == /\ \A d \in Device : connections[d] # 0 /\ Open(connections[d], d)
          /\ connections[Smaller] = connections[Larger]

\* Has a device two sockets that it dialled?
Dialled(s, d) == sock[s].by = d /\ Live(sock[s], d)
Doubled == \E d \in Device : \E s, t \in Used : s # t /\ Dialled(s, d) /\ Dialled(t, d)

\* Two devices that hear each other come to use one socket and stay with it,
\* whoever dials, and in whatever order the two learn of the sockets.
JoinsUp == (<>[](\A d \in Device : running[d] = "on") /\ <>[]~Doubled) => <>[]Joined

\* stop comes to its end, and what it left open is closed in the end, since the
\* other device prunes whom it does not hear.
StopLetsGo ==
    \A d \in Device :
      (running[d] # "on") ~> (\/ running[d] = "off" /\ \A s \in Used : ~Open(s, d)
                              \/ Other(d) \in unlisted)

=============================================================================
