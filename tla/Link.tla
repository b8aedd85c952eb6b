-------------------------------- MODULE Link --------------------------------
(***************************************************************************)
(* What the SDK may assume of its connection to the relay: the status its  *)
(* transport reported last, and whether a packet handed to the transport   *)
(* would be written.  The status lags: a socket stops being writable       *)
(* before its close event runs.                                            *)
(***************************************************************************)
VARIABLE link    \* "down" | "up" | "stale": reported connected, not writable

TypeOK == link \in {"down", "up", "stale"}

Init == link = "down"

\* onStatusChange('connected'), from an open event.
Up == link \in {"down", "stale"} /\ link' = "up"

\* readyState leaves OPEN; nothing is reported yet.
GoStale == link = "up" /\ link' = "stale"

\* onStatusChange('disconnected'), from a close event.
Down == link \in {"up", "stale"} /\ link' = "down"

Next == Up \/ GoStale \/ Down

Spec == Init /\ [][Next]_link
=============================================================================
