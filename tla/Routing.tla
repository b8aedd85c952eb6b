------------------------------ MODULE Routing -------------------------------
(***************************************************************************)
(* How a packet finds its way: from relay to relay (Federation), and to    *)
(* the hour its recipient listens on (EpochInbox).  The two share nothing; *)
(* what is checked and proved of them is stated here.                      *)
(***************************************************************************)
EXTENDS Federation

CONSTANTS WINDOW, BLOB_TTL, PHASES, MaxHour, MaxPackets

VARIABLES hour, phase, connected, helloHour, sent, queue, transit, late, inbox, ignored, expired

epochVars ==
    <<hour, phase, connected, helloHour, sent, queue, transit, late, inbox, ignored, expired>>

E == INSTANCE EpochInbox

ASSUME EpochConstants == E!ConstantsOK

\* EpochInbox: a hello leaves behind what has expired or does so within the hour.
StrandedRows == E!StrandedRows

\* Federation: the cap on peers is exceeded at most by handshakes admitted
\* together, or once a learned peer was dropped in the middle of one.
CapKept == TypeOK /\ Capped

\* Federation: a packet no copy of which was dropped reaches, once, the relay
\* that knows its recipient; and without faults none is dropped, but by the hop
\* limit or a full queue.
PacketsArrive == Arrives /\ CalmLosesNothing /\ ClassifiedOnce

\* Federation: where one side dials, the link comes back, whatever closes late,
\* and a socket that one side lost track of is closed.
LinksHeal == LinksComeBack /\ OrphansClosed

\* Federation: relays that keep a link come to know the same records.
RecordsConverge == GossipConverges

=============================================================================
