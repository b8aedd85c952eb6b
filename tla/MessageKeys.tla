----------------------------- MODULE MessageKeys -----------------------------
(***************************************************************************)
(* The keys messages are encrypted with: those of the ratchet between two  *)
(* devices (RatchetPair) and the sender keys of a group (Group), whose     *)
(* control messages travel on channels the ratchets encrypt, and open in   *)
(* any order.  The two share no state here.                                *)
(***************************************************************************)
EXTENDS RatchetPair

CONSTANTS Peer, Creator, Name, Nobody, MaxChanges, MaxLost, MaxRestarts

VARIABLES
    group, pending, controls, keyCount, changes, lost, restarts, addedBy,
          gone, strayed, headless, swapped

G == INSTANCE Group WITH net <- controls

ASSUME GroupConstants == G!ConstantsOK

\* Group: a member's list and its keys name the same devices, two devices that hold a
\* sender key for the same member hold the same one, and the role of admin is held
\* once, whatever crosses or is lost.
RolesAgree == G!TypeOK /\ G!KeysAgree /\ G!OneAdmin

\* Group: at rest the members agree on members, keys, admin and name, in whatever order
\* changes arrived, if no device missed or dropped one, no rename overtook another or
\* the news of an admin, and that news overtook nothing.
MembersAgree == G!Agreement

=============================================================================
