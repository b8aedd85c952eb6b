--------------------------- MODULE MCMessageStore ---------------------------
(***************************************************************************)
(* A small instance of MessageStore for TLC, with every message and report *)
(* the constants allow, but not every mix of what goes on beside them.     *)
(***************************************************************************)
EXTENDS MessageStore

\* Bound: a conversation that is deleted has no message older than a day, and a message
\* mirrored from another device comes where nothing fails or is restarted.
NotEverythingAtOnce ==
    /\ tomb' # "no" => aged' = {}
    /\ mirrored' # {} => restarts' + failures' = 0

MCSpec == Init /\ [][Next /\ NotEverythingAtOnce]_vars /\ Fairness
=============================================================================
