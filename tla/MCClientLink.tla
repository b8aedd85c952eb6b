---------------------------- MODULE MCClientLink ------------------------------
(***************************************************************************)
(* The ways from one device to another, for TLC: the socket to the relay   *)
(* (ClientLink), the sockets of the LAN (LocalLink), and the copies of a   *)
(* packet that come by both (DualSend).  The models share nothing, so one  *)
(* run explores all: a behaviour belongs to one of them, and the others    *)
(* stay as they start; no action of theirs with fairness is enabled then.  *)
(***************************************************************************)
EXTENDS Bearers, FiniteSets

MCBounds ==
    {\* three sockets at a time, whoever dials
     [socks |-> 3, faults |-> 0, stops |-> 0],
     \* a device stops, a socket breaks or an announcement is lost
     [socks |-> 2, faults |-> 1, stops |-> 1]}

VARIABLE checked   \* the model a behaviour is of

localVars == <<active, discovered, connections, sock, left, unlisted>>
copyVars == <<sent, prekey, lan, writable, frames, relay, seen, session, used, minutes,
              restarts, read, handed, stale, threw, again>>

\* Bound: the handling of one packet throws, with a minute or a restart.
OneThrows == Cardinality(threw) <= IF minutes + restarts <= 1 THEN 1 ELSE 0

\* The LAN bearers have stopped.
NoLan ==
    /\ active = [d \in N!Device |-> "off"] /\ discovered = [d \in N!Device |-> "no"]
    /\ connections = [d \in N!Device |-> 0] /\ sock = [s \in N!Socks |-> N!Free]
    /\ left = [socks |-> 0, faults |-> 0, stops |-> 0] /\ unlisted = {}

MCInit ==
    /\ Init /\ D!Init
    /\ \/ checked = "ClientLink" /\ NoLan /\ prekey /\ lan /\ writable
       \/ checked = "LocalLink" /\ N!Init /\ prekey /\ lan /\ writable
       \/ checked = "DualSend" /\ NoLan

MCNext ==
    \/ checked = "ClientLink" /\ Next /\ UNCHANGED <<checked, localVars, copyVars>>
    \/ checked = "LocalLink" /\ N!Next /\ UNCHANGED <<checked, vars, copyVars>>
    \/ checked = "DualSend" /\ D!Next /\ OneThrows' /\ UNCHANGED <<checked, vars, localVars>>

MCSpec ==
    /\ MCInit /\ [][MCNext]_<<checked, vars, localVars, copyVars>>
    /\ Fairness /\ N!Fairness

\* LocalLink: two devices that hear each other come to use one socket and stay with
\* it; stop comes to its end, and leaves no socket open.
LanSettles == N!JoinsUp /\ N!StopLetsGo

=============================================================================
