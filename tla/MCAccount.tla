------------------------------ MODULE MCAccount ------------------------------
(***************************************************************************)
(* HomeAccount for TLC.  Directory and ArchiveSync share nothing, so one   *)
(* run explores both: a behaviour belongs to one of them, and the other    *)
(* stays as it starts.                                                     *)
(***************************************************************************)
EXTENDS HomeAccount, TLC

CONSTANTS ia, ib, alice, bob, da, db

Names(a, b) == [i \in {ia, ib} |-> IF i = ia THEN a ELSE b]

\* Up to the names of clients and identifiers, every way to start.
Handover(a, b) ==
    [RATE_LIMIT_DIR |-> 0, clients |-> {ia, ib}, config |-> Names(a, b),
     names |-> {alice, bob}, calls |-> 3,
     tokens |-> 1, time |-> 1]
\* One client and a limit of two.
Burst ==
    [RATE_LIMIT_DIR |-> 2, clients |-> {ia}, config |-> Names(alice, NoName),
     names |-> {}, calls |-> 7,
     tokens |-> 0, time |-> 7]

MCScenarios ==
    {Handover(alice, bob), [Handover(alice, NoName) EXCEPT !.names = {alice}],
     [Handover(NoName, NoName) EXCEPT !.tokens = 0],
     [Handover(alice, bob) EXCEPT !.RATE_LIMIT_DIR = 1, !.tokens = 0, !.names = {alice}], Burst}

Case(edits, pulls, pushes, crashes, ticks, a, b) ==
    [edits |-> edits, pulls |-> pulls, pushes |-> pushes, crashes |-> crashes,
     ticks |-> ticks, skew |-> (da :> a @@ db :> b)]

MCCases ==
    {\* a call, a second one, a stale pull and a reload
     Case(2, 1, 1, 1, 1, 0, 0),
     \* two pulls or two pushes that cross, the clock of one device behind
     Case(1, 2, 1, 1, 0, 0, 1), Case(1, 1, 2, 1, 0, 0, 1),
     \* a delete by the device whose clock is ahead, a re-add by the other
     Case(2, 1, 1, 0, 0, 2, 0)}

VARIABLE checked   \* the model a behaviour is of

archiveVars == <<mem, disk, jobs, archive, puts, deviceNow, left, deleted, readded,
                 newest, torn, pulled>>

MCInit ==
    /\ Init /\ A!Init
    /\ \/ checked = "Directory" /\ archive = NoArchive /\ left = Case(2, 1, 1, 1, 1, 0, 0)
       \/ checked = "ArchiveSync" /\ sc = Burst

MCNext ==
    \/ checked = "Directory" /\ Next /\ UNCHANGED <<checked, archiveVars>>
    \/ checked = "ArchiveSync" /\ A!Next /\ UNCHANGED <<checked, vars>>

MCSpec == MCInit /\ [][MCNext]_<<checked, vars, archiveVars>>

=============================================================================
