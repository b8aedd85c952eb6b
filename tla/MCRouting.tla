------------------------------ MODULE MCRouting ------------------------------
(***************************************************************************)
(* Small instances of Routing for TLC.  Its two models share nothing, so   *)
(* one run explores both: a behaviour belongs to one of them, and the      *)
(* other stays as it starts.                                               *)
(***************************************************************************)
EXTENDS Routing

CONSTANTS ra, rb, rc

Reversed(d) == <<d[2], d[1]>>

\* A peers file with urls for dials; the other side lists its peers without.
File(dials, listed) ==
    [file |-> dials \o listed, dials |-> ToSet(dials), listed |-> ToSet(listed),
     public |-> {}, noDial |-> {}, onion |-> {}, home |-> {rc},
     open |-> FALSE, up |-> FALSE, known |-> FALSE, calm |-> FALSE, live |-> TRUE,
     src |-> ra, target |-> rc, hint |-> FALSE, packets |-> 0, all |-> 0,
     faults |-> 0, evictions |-> 0, weeks |-> 0, conns |-> 3, MAX_HOPS |-> 2]
Both(dials) == File(dials, [i \in DOMAIN dials |-> Reversed(dials[i])])

Line == <<<<ra, rb>>, <<rc, rb>>>>
Triangle == <<<<ra, rb>>, <<rb, rc>>, <<ra, rc>>>>

\* One link, dialled by one side: faults and late events.
OneWay == [Both(<<<<ra, rb>>>>) EXCEPT !.faults = 2]
\* Both sides dial.
BothWays == [File(<<<<ra, rb>>, <<rb, ra>>>>, <<>>) EXCEPT !.conns = 2, !.live = FALSE]
\* Two strangers at a relay with room for one.
TwoStrangers == [File(Line, <<>>) EXCEPT !.open = TRUE, !.live = FALSE, !.faults = 1]
\* One is dialled on demand, dials too, and is evicted meanwhile.
DialledBack == [File(<<<<rc, ra>>>>, <<<<ra, rb>>>>) EXCEPT !.conns = 2, !.open = TRUE,
                  !.live = FALSE, !.public = {rc}, !.known = TRUE, !.hint = TRUE,
                  !.packets = 1, !.all = 1, !.evictions = 1]
\* Dial on demand of a relay known from the gossip.
OnDemand == [File(<<>>, <<>>) EXCEPT !.public = {rc}, !.open = TRUE, !.known = TRUE, !.hint = TRUE,
                                     !.packets = 2, !.all = 2, !.faults = 1, !.evictions = 1]
OnDemandCalm == [OnDemand EXCEPT !.packets = 3, !.all = 3, !.faults = 0, !.evictions = 0,
                                    !.calm = TRUE]
\* A flood through a triangle, and along a line.
Flood(dials) == [Both(dials) EXCEPT !.up = TRUE, !.packets = 2, !.all = 2]
\* A relay behind another: transit, in clear or in an onion.
Transit == [Flood(Line) EXCEPT !.hint = TRUE]
\* A relay restarts; its records age.
Ageing == [Both(Line) EXCEPT !.up = TRUE, !.faults = 1, !.weeks = 1]

MCScenarios ==
    {OneWay, BothWays, TwoStrangers, DialledBack, OnDemand, OnDemandCalm,
     [Flood(Triangle) EXCEPT !.calm = TRUE], [Flood(Triangle) EXCEPT !.calm = TRUE, !.MAX_HOPS = 1],
     [Flood(Triangle) EXCEPT !.faults = 1, !.packets = 1, !.all = 1],
     [Flood(Line) EXCEPT !.calm = TRUE], [Flood(Line) EXCEPT !.faults = 1],
     [Transit EXCEPT !.calm = TRUE], [Transit EXCEPT !.onion = {ra}, !.faults = 1],
     Ageing}

VARIABLE checked   \* the model a behaviour is of

MCInit ==
    /\ Init /\ E!Init
    /\ checked \in {"EpochInbox", "Federation"}
    /\ checked = "EpochInbox" => sc = OneWay

MCNext ==
    \/ checked = "EpochInbox" /\ E!Next /\ UNCHANGED <<checked, vars>>
    \/ checked = "Federation" /\ Next /\ UNCHANGED <<checked, epochVars>>

MCSpec == MCInit /\ [][MCNext]_<<checked, vars, epochVars>> /\ Fairness

=============================================================================
