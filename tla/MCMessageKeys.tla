---------------------------- MODULE MCMessageKeys ----------------------------
(***************************************************************************)
(* MessageKeys for TLC.  The models of the ratchet and of the group share  *)
(* nothing, so one run explores both: a behaviour belongs to one of them,  *)
(* and the other stays as it starts.                                       *)
(***************************************************************************)
EXTENDS MessageKeys, TLC

VARIABLE checked   \* the model a behaviour is of

groupVars == <<group, pending, controls, keyCount, changes, lost, restarts, addedBy,
               gone, strayed, headless, swapped>>

Symmetry == Permutations(Peer \ {Creator})

\* Either device may begin the handshake; they differ in nothing else.
Initiator == CHOOSE p \in Peers : TRUE

MCInit ==
    /\ Init /\ G!Init /\ session[Initiator] # NoSession
    /\ checked \in {"RatchetPair", "Group"}

\* Has a message of one device to another been taken out of turn?
Overtaken ==
    \E q, p \in Peer :
        /\ Len(controls'[q][p]) < Len(controls[q][p]) /\ controls'[q][p] # <<>>
        /\ Head(controls'[q][p]) = Head(controls[q][p])

\* Bound on disorder: nothing overtakes once a device has missed or dropped a message,
\* was restarted or misled, and of a loss, a restart and a message that misleads one
\* behaviour has one.
OneThingGoesWrong ==
    /\ (strayed # {} \/ restarts > 0 \/ swapped) => ~Overtaken
    /\ lost' + restarts' + (IF swapped' THEN 1 ELSE 0) <= 1

MCNext ==
    \/ checked = "RatchetPair" /\ Next /\ UNCHANGED <<checked, groupVars>>
    \/ checked = "Group" /\ G!Next /\ OneThingGoesWrong /\ UNCHANGED <<checked, vars>>

MCSpec == MCInit /\ [][MCNext]_<<checked, vars, groupVars>>

=============================================================================
