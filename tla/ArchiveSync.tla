---------------------------- MODULE ArchiveSync ----------------------------
(***************************************************************************)
(* The archive one account shares between its devices: contacts,           *)
(* tombstones and revivals on every device's disk, the snapshot at the     *)
(* home relay, and the calls that change them (sdk/archive.ts and          *)
(* sdk/index.ts: deleteConversation, acceptContact, addContactByKey,       *)
(* onContactEstablished, removeContact, pushArchive, pullArchive and       *)
(* loadPersistedState).                                                    *)
(*                                                                         *)
(* Each call is a chain of awaits on the storage.  A step ends where the   *)
(* call waits and other calls of the device may run; what it still has to  *)
(* do is a job, with the values it has read so far.  The lists contacts    *)
(* and contacts_v2 are one set here, written when contacts_v2 is, and the  *)
(* reads that no write can fall between are one read.                      *)
(***************************************************************************)
EXTENDS Integers, FiniteSets

CONSTANTS
    Device,     \* the devices of the account
    Peer,       \* peers that may be contacts
    NoArchive,  \* the relay has no row for the account
    Scenario    \* budgets of calls and faults, and clock offsets

ConstantsOK ==
    /\ IsFiniteSet(Device) /\ IsFiniteSet(Peer)
    /\ Scenario \subseteq [edits : Nat, pulls : Nat, pushes : Nat, crashes : Nat, ticks : Nat,
                            skew : [Device -> Nat]]

VARIABLES
    mem,      \* [Device -> SUBSET Peer], the PermissionManager
    disk,     \* [Device -> Snapshot], the storage backend
    jobs,     \* [Device -> set of jobs]
    archive,  \* the snapshot the relay stores
    puts,     \* snapshots on their way to the relay
    now,      \* real time; device d reads now + skew[d]
    left,     \* what is left of the budgets
    \* history
    deleted,  \* [Device -> peers whose delete no call and no merge there has undone]
    readded,  \* [Device -> peers whose re-add there saw every delete]
    newest,   \* the largest tombstone ever written, per peer
    torn,     \* <<device, key>>: a write discarded a change it had not read
    pulled    \* [Device -> "no" | "pulling" | "merged" | "restarted"]

history == <<deleted, readded, newest, torn, pulled>>
vars    == <<mem, disk, jobs, archive, puts, now, left, history>>

Stamps   == [Peer -> Nat]      \* peerId -> ms, 0 when absent
Snapshot == [contacts : SUBSET Peer, tombstones : Stamps, revivals : Stamps]

Later(a, b) == IF a >= b THEN a ELSE b
DateNow(d)  == now + left.skew[d]

\* "A peer is currently tombstoned iff its most-recent event is a delete."
Tombstoned(t, r) == {p \in Peer : t[p] > r[p]}

Gone(d) == Tombstoned(disk[d].tombstones, disk[d].revivals)

Spend(b) == left[b] > 0 /\ left' = [left EXCEPT ![b] = @ - 1]

\* A job of device d goes on as the jobs of next.
Continue(d, j, next) == jobs' = [jobs EXCEPT ![d] = (@ \ {j}) \cup next]
Begin(d, next)       == jobs' = [jobs EXCEPT ![d] = @ \cup next]

\* Device d has changed something since its last pull.
Touched(d) == pulled' = [pulled EXCEPT ![d] = "no"]

\* Is a pull under way?
Merging(d) == \E j \in jobs[d] : j.k \in {"tombs", "revs", "list", "filter", "load"}

TearIf(d, key, cond) == torn' = IF cond THEN torn \cup {<<d, key>>} ELSE torn

-----------------------------------------------------------------------------
(* Writing to the storage *)

\* A map is written whole: it discards every larger stamp stored meanwhile.
WriteStamps(d, key, m) ==
    /\ disk' = [disk EXCEPT ![d][key] = m]
    /\ TearIf(d, key, \E p \in Peer : m[p] < disk[d][key][p])

\* The list is written whole from memory: in the middle of a merge it discards
\* what the merge has stored and loadPersistedState has not read yet.
Save(d) ==
    /\ disk' = [disk EXCEPT ![d].contacts = mem[d]]
    /\ TearIf(d, "contacts", \E j \in jobs[d] : j.k \in {"filter", "load"})

\* A merge writes the list it computed from the list and the maps it read.
WriteMerged(d, j, seen, list) ==
    /\ disk' = [disk EXCEPT ![d].contacts = list]
    /\ TearIf(d, "contacts", \/ disk[d].contacts # seen
                             \/ Gone(d) # Tombstoned(j.t, j.r))

-----------------------------------------------------------------------------
(* Contacts: the calls of the app, and the jobs they leave behind *)

\* The end of persistContacts.
persistContacts(d, j) ==
    /\ j.k = "persist"
    /\ Save(d)
    /\ Continue(d, j, {})
    /\ Touched(d)
    /\ UNCHANGED <<mem, archive, puts, now, left, deleted, readded, newest>>

\* What recordRevival has read when it waits for the first time.
Revival(d, p, save) ==
    [k |-> "revival", p |-> p, save |-> save,
     t |-> disk[d].tombstones[p], r |-> disk[d].revivals]

AddContact(d, p, next) ==
    /\ Spend("edits")
    /\ mem' = [mem EXCEPT ![d] = @ \cup {p}]
    /\ Begin(d, next)
    /\ deleted' = [deleted EXCEPT ![d] = @ \ {p}]
    /\ Touched(d)
    /\ UNCHANGED <<disk, archive, puts, now, readded, newest, torn>>

\* acceptContact leaves the contact in memory only.
acceptContact(d, p) == AddContact(d, p, {Revival(d, p, FALSE)})

addContactByKey(d, p) == AddContact(d, p, {Revival(d, p, TRUE)})

\* An x3dh_init arrived: the save and the revival run side by side.
onContactEstablished(d, p) ==
    AddContact(d, p, {[k |-> "persist"], Revival(d, p, FALSE)})

\* Mutant of RevivalStamp: the clock alone.
RevivalStampNow(d, j) == DateNow(d)

RevivalStamp(d, j) == Later(j.r[j.p], Later(DateNow(d), j.t + 1))

recordRevival(d, j) ==
    /\ j.k = "revival"
    /\ WriteStamps(d, "revivals", [j.r EXCEPT ![j.p] = RevivalStamp(d, j)])
    /\ Continue(d, j, IF j.save THEN {[k |-> "persist"]} ELSE {})
    /\ readded' = [readded EXCEPT ![d] = IF newest[j.p] <= j.t THEN @ \cup {j.p} ELSE @]
    /\ Touched(d)
    /\ UNCHANGED <<mem, archive, puts, now, left, deleted, newest>>

\* removeContact saves the list and leaves no tombstone.
removeContact(d, p) ==
    /\ p \in mem[d]
    /\ Spend("edits")
    /\ mem' = [mem EXCEPT ![d] = @ \ {p}]
    /\ Begin(d, {[k |-> "persist"]})
    /\ Touched(d)
    /\ UNCHANGED <<disk, archive, puts, now, deleted, readded, newest, torn>>

deleteConversation(d, p) ==
    /\ p \in mem[d]
    /\ Spend("edits")
    /\ mem' = [mem EXCEPT ![d] = @ \ {p}]
    /\ Begin(d, {[k |-> "wipe", p |-> p]})
    /\ Touched(d)
    /\ UNCHANGED <<disk, archive, puts, now, deleted, readded, newest, torn>>

\* The list is saved, then addTombstone reads the map.
Wipe(d, j) ==
    /\ j.k = "wipe"
    /\ Save(d)
    /\ Continue(d, j, {[k |-> "tombstone", p |-> j.p, t |-> disk[d].tombstones]})
    /\ Touched(d)
    /\ UNCHANGED <<mem, archive, puts, now, left, deleted, readded, newest>>

addTombstone(d, j) ==
    /\ j.k = "tombstone"
    /\ WriteStamps(d, "tombstones", [j.t EXCEPT ![j.p] = DateNow(d)])
    /\ Continue(d, j, {})
    /\ deleted' = [deleted EXCEPT ![d] =
           IF \/ j.p \in mem[d] \cup disk[d].contacts \/ Merging(d)
              \/ DateNow(d) <= disk[d].revivals[j.p]
           THEN @ ELSE @ \cup {j.p}]
    /\ readded' = [e \in Device |-> readded[e] \ {j.p}]
    /\ newest' = [newest EXCEPT ![j.p] = Later(@, DateNow(d))]
    /\ Touched(d)
    /\ UNCHANGED <<mem, archive, puts, now, left>>

-----------------------------------------------------------------------------
(* pushArchive and the relay *)

\* collectKv
pushArchive(d) ==
    /\ Spend("pushes")
    /\ Begin(d, {[k |-> "collected", v |-> disk[d].contacts]})
    /\ UNCHANGED <<mem, disk, archive, puts, now, history>>

\* The maps are read and the snapshot is sent.
uploadArchive(d, j) ==
    /\ j.k = "collected"
    /\ puts' = puts \cup {[disk[d] EXCEPT !.contacts = j.v]}
    /\ Continue(d, j, {})
    /\ UNCHANGED <<mem, disk, archive, now, left, history>>

\* PUT /archive: whichever body is complete last is what the relay keeps.
PutArchive(s) ==
    /\ puts' = puts \ {s}
    /\ archive' = s
    /\ pulled' = [d \in Device |-> IF archive = s THEN pulled[d] ELSE "no"]
    /\ UNCHANGED <<mem, disk, jobs, now, left, deleted, readded, newest, torn>>

PutLost(s) ==
    /\ puts' = puts \ {s}
    /\ UNCHANGED <<mem, disk, jobs, archive, now, left, history>>

-----------------------------------------------------------------------------
(* pullArchive: GET, mergeKv, loadPersistedState *)

LaterStamps(mine, theirs) == [p \in Peer |-> Later(mine[p], theirs[p])]

pullArchive(d) ==
    /\ archive # NoArchive
    /\ ~Merging(d)
    /\ Spend("pulls")
    /\ Begin(d, {[k |-> "tombs", a |-> archive,
                  t |-> LaterStamps(disk[d].tombstones, archive.tombstones),
                  r |-> LaterStamps(disk[d].revivals, archive.revivals)]})
    /\ pulled' = [pulled EXCEPT ![d] = "pulling"]
    /\ UNCHANGED <<mem, disk, archive, puts, now, deleted, readded, newest, torn>>

MergeTombstones(d, j) ==
    /\ j.k = "tombs"
    /\ WriteStamps(d, "tombstones", j.t)
    /\ Continue(d, j, {[j EXCEPT !.k = "revs"]})
    /\ UNCHANGED <<mem, archive, puts, now, left, deleted, readded, newest, pulled>>

\* The revivals are written, then the stored list is read.
MergeRevivals(d, j) ==
    /\ j.k = "revs"
    /\ WriteStamps(d, "revivals", j.r)
    /\ Continue(d, j, {[k |-> "list", a |-> j.a, t |-> j.t, r |-> j.r, v |-> disk[d].contacts]})
    /\ deleted' = [deleted EXCEPT ![d] = @ \ {p \in Peer : 0 < j.t[p] /\ j.t[p] <= j.r[p]}]
    /\ UNCHANGED <<mem, archive, puts, now, left, readded, newest, pulled>>

\* Mutant of Union: the archive's list replaces the stored one.
UnionTheirs(j) == j.a.contacts \ Tombstoned(j.t, j.r)

Union(j) == (j.v \cup j.a.contacts) \ Tombstoned(j.t, j.r)

MergeContacts(d, j) ==
    /\ j.k = "list"
    /\ WriteMerged(d, j, j.v, Union(j))
    /\ Continue(d, j, {[k |-> "filter", a |-> j.a, t |-> j.t, r |-> j.r]})
    /\ UNCHANGED <<mem, archive, puts, now, left, deleted, readded, newest, pulled>>

\* The stored list is filtered once more.
MergeFilter(d, j) ==
    /\ j.k = "filter"
    /\ WriteMerged(d, j, disk[d].contacts, disk[d].contacts \ Tombstoned(j.t, j.r))
    /\ Continue(d, j, {[k |-> "load", a |-> j.a]})
    /\ UNCHANGED <<mem, archive, puts, now, left, deleted, readded, newest, pulled>>

\* loadContactRecords only adds.
loadPersistedState(d, j) ==
    /\ j.k = "load"
    /\ mem' = [mem EXCEPT ![d] = @ \cup disk[d].contacts]
    /\ Continue(d, j, {})
    /\ pulled' = [pulled EXCEPT ![d] = IF @ = "pulling" /\ j.a = archive THEN "merged" ELSE "no"]
    /\ UNCHANGED <<disk, archive, puts, now, left, deleted, readded, newest, torn>>

-----------------------------------------------------------------------------
(* Devices and the clock *)

\* The tab is closed or the process dies, and the app starts again.
Reload(d) ==
    /\ Spend("crashes")
    /\ mem' = [mem EXCEPT ![d] = disk[d].contacts]
    /\ jobs' = [jobs EXCEPT ![d] = {}]
    /\ pulled' = [pulled EXCEPT ![d] = IF @ \in {"merged", "restarted"} THEN "restarted" ELSE "no"]
    /\ UNCHANGED <<disk, archive, puts, now, deleted, readded, newest, torn>>

\* shutdown saves the list before the app starts again.
Shutdown(d) ==
    /\ Spend("crashes")
    /\ Save(d)
    /\ jobs' = [jobs EXCEPT ![d] = {}]
    /\ Touched(d)
    /\ UNCHANGED <<mem, archive, puts, now, deleted, readded, newest>>

Tick ==
    /\ Spend("ticks")
    /\ now' = now + 1
    /\ UNCHANGED <<mem, disk, jobs, archive, puts, history>>

-----------------------------------------------------------------------------

\* The devices start without contacts, or with every peer a contact that an
\* earlier handshake established and an earlier pull brought to all of them.
Init ==
    \E known \in {{}, Peer} :
        LET start == [contacts |-> known, tombstones |-> [p \in Peer |-> 0],
                      revivals |-> [p \in Peer |-> IF p \in known THEN 1 ELSE 0]]
        IN  /\ mem = [d \in Device |-> known]
            /\ disk = [d \in Device |-> start]
            /\ archive = (IF known = {} THEN NoArchive ELSE start)
            /\ jobs = [d \in Device |-> {}]
            /\ puts = {}
            /\ now = 1
            /\ left \in Scenario
            /\ deleted = [d \in Device |-> {}]
            /\ readded = [d \in Device |-> {}]
            /\ newest = [p \in Peer |-> 0]
            /\ torn = {}
            /\ pulled = [d \in Device |-> "no"]

Call(d) ==
    \/ \E p \in Peer : \/ acceptContact(d, p) \/ addContactByKey(d, p)
                       \/ onContactEstablished(d, p)
                       \/ removeContact(d, p) \/ deleteConversation(d, p)
    \/ pushArchive(d) \/ pullArchive(d)

Job(d) == \E j \in jobs[d] :
    \/ persistContacts(d, j) \/ recordRevival(d, j) \/ Wipe(d, j) \/ addTombstone(d, j)
    \/ uploadArchive(d, j)
    \/ MergeTombstones(d, j) \/ MergeRevivals(d, j) \/ MergeContacts(d, j)
    \/ MergeFilter(d, j) \/ loadPersistedState(d, j)

Next ==
    \/ \E d \in Device : Call(d) \/ Job(d) \/ Reload(d) \/ Shutdown(d)
    \/ \E s \in puts : PutArchive(s) \/ PutLost(s)
    \/ Tick

Spec == Init /\ [][Next]_vars

-----------------------------------------------------------------------------
(* Properties *)

Whole(d, keys) == \A k \in keys : <<d, k>> \notin torn

\* Every variable has its type; a stamp never runs ahead of every clock and
\* every tombstone by more than one.
TypeOK ==
    /\ mem \in [Device -> SUBSET Peer]
    /\ disk \in [Device -> Snapshot]
    /\ archive \in Snapshot \cup {NoArchive}
    /\ puts \subseteq Snapshot
    /\ \A d \in Device : pulled[d] \in {"no", "pulling", "merged", "restarted"}
    /\ torn \subseteq Device \X {"contacts", "tombstones", "revivals"}
    /\ \A d \in Device, p \in Peer :
          /\ disk[d].tombstones[p] <= newest[p]
          /\ \E e \in Device : disk[d].revivals[p] <= Later(DateNow(e), newest[p] + 1)

\* A contact on a device's disk stays there through pulls of older and newer
\* archives, saves, restarts and crashes, until the user of that device takes it
\* off the list or the device knows of a delete that is later than its last
\* re-add.
ContactsKept ==
    [][\A d \in Device :
          \A p \in disk[d].contacts \ disk'[d].contacts :
              Whole(d, {"contacts"})' => p \in Gone(d)' \/ p \notin mem[d]]_vars

\* A deleted peer stays away from the device that deleted it: no stale archive,
\* push, restart or late step of the call brings it back until a merge has read
\* a tombstone and a re-add that is not older.  Two deletes are not promised this:
\* one during a pull, for the merge goes on with the maps it has read, and every
\* delete of a device that has lost a tombstone, as it does when the deletes of two
\* peers overlap and each writes the whole map it read: a stale archive then brings
\* the peer back though nobody has added it again.
DeleteSticks ==
    \A d \in Device :
        Whole(d, {"tombstones"}) => deleted[d] \cap (mem[d] \cup disk[d].contacts) = {}

\* A re-add on a device that had seen every delete of the peer stands there
\* until a new delete, however the clocks of the devices differ ("forced to be
\* strictly greater than any existing tombstone for the peer").
ReAddStands ==
    \A d \in Device : Whole(d, {"revivals"}) => readded[d] \cap Gone(d) = {}

\* A pull takes effect at the latest when the app has started again: what the
\* archive still lists and nothing has deleted is a contact, and no peer the
\* merged maps call deleted is.
PullTakesEffect ==
    \A d \in Device :
        /\ pulled[d] \in {"merged", "restarted"} => archive.contacts \ Gone(d) \subseteq mem[d]
        /\ pulled[d] = "restarted" => mem[d] \cap Gone(d) = {}

=============================================================================
