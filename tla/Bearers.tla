------------------------------- MODULE Bearers --------------------------------
(***************************************************************************)
(* The bearers of a packet: the relay (ClientLink), the LAN (LocalLink),   *)
(* and what the recipient does of the copies that come by both (DualSend). *)
(* They share nothing here: DualSend takes them for lines that lose what   *)
(* is on them.                                                             *)
(***************************************************************************)
EXTENDS ClientLink

CONSTANTS
    Smaller, Larger, MaxSocks, LanBounds,
    MaxPackets, SEEN_INBOUND_MAX, MaxMinutes, MaxRestarts

VARIABLES
    active, discovered, connections, sock, left, unlisted,
    sent, prekey, lan, writable, frames, relay, seen, session, used, minutes, restarts,
          read, handed, stale, threw, again

N == INSTANCE LocalLink WITH running <- active, Bounds <- LanBounds
D == INSTANCE DualSend

ASSUME LocalConstants == N!ConstantsOK
ASSUME CopyConstants == D!ConstantsOK

\* LocalLink: one socket per peer.
OneSocket == N!OneSocket

\* DualSend: the second copy of a packet does not reach the ratchet, but for the
\* limits of the map and a first copy whose handling threw, and the first takes nothing from what the relay delivers.
CopiesHarmless == D!CopiesCaught /\ D!NeverLessReliable

===============================================================================
