----------------------------- MODULE MCHandshake -----------------------------
(***************************************************************************)
(* What two devices have of each other, for TLC: the one-time prekeys for  *)
(* a handshake (Opk), the sessions it sets up (Session), and the devices   *)
(* of an account one of them is a contact of (Devices).  The models share  *)
(* nothing, so one run explores all: a behaviour belongs to one of them,   *)
(* and the others stay as they start.                                      *)
(***************************************************************************)
EXTENDS Handshake, Sequences, TLC

CONSTANTS d1, d2

Budget(secondaries, announcements, offerings, handshakings, removals, restarting, lost, ticks) ==
    [secondaries |-> secondaries, calls |-> announcements, offers |-> offerings,
     handshakes |-> handshakings, removals |-> removals, restarts |-> restarting,
     losses |-> lost, ticks |-> ticks]

MCBudgets ==
    {\* announcements and a restart; a handshake makes a device a contact of its own
     Budget({d1}, 2, 0, 1, 0, 1, 0, 1),
     \* with a removal, or with something lost
     Budget({d1}, 2, 0, 0, 1, 1, 1, 1),
     \* three in any order, two of them at one time
     Budget({d1}, 3, 0, 0, 0, 0, 0, 1),
     \* a link, cut short, out of date or replaced
     Budget({d1}, 1, 1, 1, 1, 0, 1, 1), Budget({d1}, 1, 2, 0, 0, 1, 0, 1),
     Budget({d1}, 2, 1, 0, 0, 1, 0, 1),
     \* a link while another device joins or leaves
     Budget({d1, d2}, 2, 1, 0, 0, 0, 0, 0)}

VARIABLE checked   \* the model a behaviour is of

sessionVars == <<session, stored, starting, handing, outbox, ping, pinged, channel, drawn,
                 handshakes, restarts, losses, crossed, undone, cut>>
deviceVars == <<mem, seenAt, onDisk, unsaved, unseen, offer, offers, linking, calls, net,
                now, left, minted, told, missed, strayed>>

Symmetry == Permutations(Peers)

\* Where the devices stay as they start, one start stands for all.
MCInit ==
    /\ Init /\ S!Init /\ D!Init
    /\ \/ checked = "Opk" /\ left = CHOOSE b \in Budgets : TRUE
       \/ checked = "Session" /\ left = (CHOOSE b \in Budgets : TRUE) /\ migrated
       \/ checked = "Devices" /\ migrated

\* Bound: a handshake is delivered again only in place of another one; two and a
\* copy are enough for a refill.
CopiesCount == Cardinality(claims) + Cardinality(copies) <= MaxHandshakes

\* Two secondaries never make an offer both (MCBudgets), so the one that makes it may
\* as well be d1.
OffersByFirst == offer[d2] = D!NoOffer

\* Bound: no restart when no handshake is left to begin.  It would end calls and
\* timers, and the ping it has sent could start nothing.  Nor of a device with nothing to lose.
\* And if the storage was written, the device restarts that wrote it.
RestartMatters ==
    restarts' # restarts =>
        /\ handshakes < MaxSessionHandshakes
        /\ <<session, starting, handing, outbox, ping>>' # <<session, starting, handing, outbox, ping>>
        /\ \A p \in Peers : stored[p] # S!NoSession => S!Restart(p)

\* Bound: storage is written once, with what a restart will read.
StorageMatters ==
    /\ \A p \in Peers : stored[p] # stored'[p] => stored = [q \in Peers |-> S!NoSession]
    /\ restarts' < MaxRestarts /\ (handshakes' = MaxSessionHandshakes \/ cut') =>
          \A p \in Peers : stored'[p] = S!NoSession

\* Does q take a packet before an earlier one?
Overtakes(q) == Len(channel'[q]) < Len(channel[q]) /\ channel'[q] # Tail(channel[q])

Deletes == restarts' = restarts /\ \E p \in Peers : S!Has(p) /\ session'[p] = S!NoSession

\* Bound: one restart, loss, deletion or overtaking; what overtakes an x3dh_init, or
\* is one (other packets open in any order, as RatchetPair shows).
OneThingGoesWrong ==
    /\ restarts' # restarts \/ losses' # losses \/ Deletes \/ (\E q \in Peers : Overtakes(q)) => ~cut
    /\ \A q \in Peers : Overtakes(q) => \E i \in DOMAIN channel[q] : S!IsInit(q, i)

MCNext ==
    \/ checked = "Opk" /\ Next /\ CopiesCount' /\ UNCHANGED <<checked, sessionVars, deviceVars>>
    \/ checked = "Session" /\ S!Next /\ RestartMatters /\ StorageMatters /\ OneThingGoesWrong
       /\ UNCHANGED <<checked, vars, deviceVars>>
    \/ checked = "Devices" /\ D!Next /\ OffersByFirst' /\ UNCHANGED <<checked, vars, sessionVars>>

MCSpec == MCInit /\ [][MCNext]_<<checked, vars, sessionVars, deviceVars>>

=============================================================================
