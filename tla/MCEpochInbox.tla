---------------------------- MODULE MCEpochInbox ----------------------------
(* Small instances of EpochInbox for TLC. *)
EXTENDS EpochInbox
=============================================================================
