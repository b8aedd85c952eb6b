------------------------------ MODULE Handshake -------------------------------
(***************************************************************************)
(* A handshake: the one-time prekeys it draws on (Opk) and the sessions it *)
(* sets up (Session), with a device of an account that has several         *)
(* (Devices).  They share nothing here: Session takes a prekey that was    *)
(* claimed to agree, which is what Opk is about, and Devices a channel     *)
(* that works.                                                             *)
(***************************************************************************)
EXTENDS Opk

CONSTANTS
    Peers, MaxSessionHandshakes, MaxRestarts, MaxLosses,
    Primary, Secondary, Contact, OfferTtl, Budgets

Device == {Primary} \cup Secondary \cup Contact

VARIABLES
    session, stored, starting, handing, outbox, ping, pinged, channel, drawn,
          handshakes, restarts, losses, crossed, undone, cut,
    mem, seenAt, onDisk, unsaved, unseen, offer, offers, linking, calls, net, now,
          left, minted, told, missed, strayed

S == INSTANCE Session WITH MaxHandshakes <- MaxSessionHandshakes

D == INSTANCE Devices WITH seen <- seenAt, disk <- onDisk

ASSUME SessionConstants == S!ConstantsOK
ASSUME DeviceConstants == D!ConstantsOK

\* Session: handshakes converge to one session, unless two cross or one does not get
\* through; and if nothing else is lost either, both devices can send with it.
SessionsJoin == S!TypeOK /\ S!SplitIsExplained /\ S!BootstrappedAtRest

\* Devices: accounts are listed once, a device that resolves to an account is
\* listed there, and one that is listed resolves unless it was revoked from
\* another account.
AccountsSound == D!AccountsSound

\* Devices: the announcement made last decides, whatever order they come in, and
\* at rest the contacts list the devices the primary lists.
AnnouncementsAgree == D!LatestStands /\ D!ViewsAgree

=============================================================================
