----------------------------- MODULE ClientLink -----------------------------
(***************************************************************************)
(* The connection of a client to its relay: NodeTransport, and             *)
(* BrowserTransport, which is written the same way.  The sockets of a      *)
(* transport outlive the variable that names one, so every event handler   *)
(* says which socket it belongs to, as its closure does.                   *)
(*                                                                         *)
(* Implements Link: what the SDK sees of all this.                         *)
(***************************************************************************)
EXTENDS Naturals

CONSTANTS
    Sock,         \* sockets; one that is "closed" may be opened again as another
    None,         \* null
    MaxTimers     \* bound: more pending timers count as this many

ASSUME ConstantsAssumption ==
    /\ None \notin Sock
    /\ MaxTimers \in Nat \ {0}

VARIABLES
    running,      \* between start and stop
    started,      \* start was called; a transport is started once
    conn,         \* conn[s]: "connecting" | "open" | "closing" | "closed"
    retry,        \* sockets opened by a timer, whose failure the catch sees
    ws,           \* this.ws
    timers,       \* reconnect timers pending
    status        \* what onStatusChange was last told

vars == <<running, started, conn, retry, ws, timers, status>>

Pending(s) == conn[s] \in {"open", "closing"}

AddTimers(n) == IF timers + n > MaxTimers THEN MaxTimers ELSE timers + n

-----------------------------------------------------------------------------
Init ==
    /\ running = FALSE /\ started = FALSE
    /\ conn = [s \in Sock |-> "closed"]
    /\ retry = {}
    /\ ws = None
    /\ timers = 0
    /\ status = "disconnected"

\* new WebSocket(url).
connect(s, fromTimer) ==
    /\ conn[s] = "closed"
    /\ conn' = [conn EXCEPT ![s] = "connecting"]
    /\ retry' = IF fromTimer THEN retry \cup {s} ELSE retry \ {s}

start(s) ==
    /\ ~started
    /\ started' = TRUE /\ running' = TRUE
    /\ connect(s, FALSE)
    /\ UNCHANGED <<ws, timers, status>>

\* Timers that are left do nothing, since running is FALSE, and are not counted.
stop ==
    /\ running
    /\ running' = FALSE
    /\ timers' = 0
    /\ ws' = None
    /\ conn' = [s \in Sock |-> IF s = ws THEN "closing" ELSE conn[s]]
    /\ UNCHANGED <<started, retry, status>>

\* The open handler does not look at running.
Opened(s) ==
    /\ conn[s] = "connecting"
    /\ conn' = [conn EXCEPT ![s] = "open"]
    /\ ws' = s
    /\ status' = "connected"
    /\ UNCHANGED <<running, started, retry, timers>>

\* Mutant of retries: an attempt that fails is not repeated.
noRetries(s) == 0

\* A failed attempt is rescheduled by the close handler and, if it was made by a
\* timer, once more by the catch around connect.
retries(s) == IF ~running THEN 0 ELSE IF s \in retry THEN 2 ELSE 1

\* The events error and close of a socket that never opened, and the rejection.
Failed(s) ==
    /\ conn[s] = "connecting"
    /\ conn' = [conn EXCEPT ![s] = "closed"]
    /\ ws' = None
    /\ status' = "disconnected"
    /\ timers' = AddTimers(retries(s))
    /\ UNCHANGED <<running, started, retry>>

\* The readyState leaves OPEN; the close event is still to come.
BeginClose(s) ==
    /\ conn[s] = "open"
    /\ conn' = [conn EXCEPT ![s] = "closing"]
    /\ UNCHANGED <<running, started, retry, ws, timers, status>>

\* Mutant of Closed: only the current socket is replaced.
ClosedReplacesCurrent(s) ==
    /\ Pending(s)
    /\ conn' = [conn EXCEPT ![s] = "closed"]
    /\ ws' = None
    /\ status' = "disconnected"
    /\ timers' = AddTimers(IF running /\ ws = s THEN 1 ELSE 0)
    /\ UNCHANGED <<running, started, retry>>

\* The close event of a socket that had opened.  Whichever it is, this.ws is
\* cleared.
Closed(s) ==
    /\ Pending(s)
    /\ conn' = [conn EXCEPT ![s] = "closed"]
    /\ ws' = None
    /\ status' = "disconnected"
    /\ timers' = AddTimers(IF running THEN 1 ELSE 0)
    /\ UNCHANGED <<running, started, retry>>

\* Mutant of TimerFires: the status is reported when the attempt begins.
TimerReportsConnected(s) ==
    /\ timers > 0
    /\ timers' = timers - 1
    /\ connect(s, TRUE)
    /\ status' = "connected"
    /\ UNCHANGED <<running, started, ws>>

TimerFires(s) ==
    /\ timers > 0
    /\ timers' = timers - 1
    /\ connect(s, TRUE)
    /\ UNCHANGED <<running, started, ws, status>>

Next ==
    \/ stop
    \/ \E s \in Sock :
          start(s) \/ Opened(s) \/ Failed(s) \/ BeginClose(s) \/ Closed(s) \/ TimerFires(s)

Spec == Init /\ [][Next]_vars

\* Timers fire, every attempt ends, a socket that is closing gets its close
\* event, and a client that keeps trying does get through.
Fairness ==
    /\ WF_vars(\E s \in Sock : TimerFires(s))
    /\ \A s \in Sock :
          /\ WF_vars(Opened(s) \/ Failed(s))
          /\ WF_vars(conn[s] = "closing" /\ Closed(s))
    /\ SF_vars(\E s \in Sock : Opened(s))

FairSpec == Spec /\ Fairness

-----------------------------------------------------------------------------
(* Properties *)

\* The variables have their types, and ws names a socket that has opened.
TypeOK ==
    /\ {running, started} \subseteq BOOLEAN
    /\ conn \in [Sock -> {"connecting", "open", "closing", "closed"}]
    /\ retry \subseteq Sock
    /\ timers \in 0..MaxTimers
    /\ status \in {"connected", "disconnected"}
    /\ ws = None \/ (ws \in Sock /\ Pending(ws))

\* Whatever socket a late event belongs to, a transport that runs and has no
\* connection has an attempt under way or a timer for the next one.
NeverAbandoned ==
    running /\ ws = None => timers > 0 \/ \E s \in Sock : conn[s] = "connecting"

\* While the transport runs, the status it reported says whether it has a socket.
StatusFollowsSocket == running => (status = "connected" <=> ws # None)

\* What the SDK sees: writable, and told so.
linkState ==
    IF status = "disconnected" THEN "down"
    ELSE IF ws # None /\ conn[ws] = "open" THEN "up" ELSE "stale"

L == INSTANCE Link WITH link <- linkState

\* Every step of the transport is a step of Link or none.
ImplementsLink == L!Spec

\* A client that is not stopped is connected again and again.
Reconnects == [](started => <>(~running \/ status = "connected"))

\* onConnectionStatus: "Called when the WebSocket connection to the Node goes up
\* or down".  A transport that reported "disconnected" has no open connection.
DisconnectedMeansClosed ==
    running /\ status = "disconnected" => \A s \in Sock : conn[s] # "open"

\* stop: "Use terminate() rather than close() so the TCP connection drops
\* immediately", lest "the relay forwards packets to a 'shutting down' socket
\* instead of storing them".  A stopped transport has no open connection.
StoppedMeansClosed == started /\ ~running => \A s \in Sock : conn[s] # "open"

=============================================================================
