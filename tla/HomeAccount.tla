----------------------------- MODULE HomeAccount -----------------------------
(***************************************************************************)
(* What the home relay keeps for an account: its identifier (Directory)    *)
(* and its archive (ArchiveSync).  They share nothing.                     *)
(***************************************************************************)
EXTENDS Directory

CONSTANTS Device, Peer, NoArchive, Cases

VARIABLES
    mem, disk, jobs, archive, puts, deviceNow, left, deleted, readded, newest,
          torn, pulled

A == INSTANCE ArchiveSync WITH Scenario <- Cases, now <- deviceNow

ASSUME ArchiveConstants == A!ConstantsOK

\* ArchiveSync: merging an archive takes a contact away only where it has been
\* deleted.
ContactsKept == A!ContactsKept

\* ArchiveSync: a delete that no merge has missed stays deleted where no write has
\* discarded a tombstone, a re-add that saw every delete outlasts them, and after a
\* pull and a reload the device has what the archive says.
EditsStand == A!TypeOK /\ A!DeleteSticks /\ A!ReAddStands /\ A!PullTakesEffect

==============================================================================
