---------------------------- MODULE MessageStore ----------------------------
(***************************************************************************)
(* The stored messages of one conversation on one device: the key          *)
(* messages/{conversation} of sdk/message-handler.ts, the keyed mutex that *)
(* serialises its read-modify-write operations, and the operations that    *)
(* write it without the mutex: purgeExpiredMessages, run by every archive  *)
(* import, and deleteConversation.                                         *)
(*                                                                         *)
(* A storage operation is two steps, the get and the set, with anything in *)
(* between.  A message is named by its timestamp.  The conversation is     *)
(* with one peer or with a group; that is chosen once.  It is deleted once  *)
(* and not revived; the code looks at the tombstone only when it merges an *)
(* archive.  Reactions are left out: applyReaction has the shape of        *)
(* updateMessageStatus.                                                    *)
(***************************************************************************)
EXTENDS Naturals, Sequences, FiniteSets, SequencesExt

CONSTANTS
    Inbound, Outbound,   \* timestamps of the messages received and sent
    Member,              \* the peers that report on outbound messages
    Expiring,            \* messages sent with an expiry (of a day, as the ids)
    Keep,                \* retention {kind: 'count', max: Keep}; 0: 'unbounded'
    MaxCopies,           \* bound: copies of an inbound message, under one id
    MaxOps,              \* bound: operations submitted to the mutex
    MaxPushes,           \* bound: archives pushed
    MaxFaults            \* bound: restarts of the SDK and failures of the storage

Msg == Inbound \cup Outbound

ASSUME ConstantsAssumption ==
    /\ Msg \subseteq Nat
    /\ Inbound \cap Outbound = {}
    /\ Expiring \subseteq Msg
    /\ {Keep, MaxCopies, MaxOps, MaxPushes, MaxFaults} \subseteq Nat

VARIABLES
    group,      \* is the conversation a group?
    row,        \* messages/{conversation}
    submitted,  \* the number of operations submitted
    queue,      \* operations chained on the mutex; the head holds it
    snap,       \* <<what the head has read>>, or <<>>
    pulling,    \* importArchive: "no" | "free" or "dead" (mergeKv has read the tombstones:
                \* none here, or one) | "merge" | "purge" (loadPersistedState)
    pulled,     \* <<the row in the archive that is being merged>>, or <<>>
    purge,      \* <<what purgeExpiredMessages read, what it will write>>, or <<>>
    tomb,       \* deleteConversation: "no" | "wiped" | "recorded" | "erased"
    backup,     \* <<the row in the pushed archive>>, or <<>>
    buried,     \* does the pushed archive have the tombstone?
    seen,       \* seenMessageIds
    seenDisk,   \* 'seen_ids' in the storage
    \* the world: messages older than a day, copies handled, messages on the wire,
    \* sent from another device of the user, reports made and reports under way
    aged, copies, wire, mirrored, reported, reports,
    pushes, restarts, failures,
    \* history
    tainted,    \* the row was written behind the back of the mutex holder
    saved,      \* a save of the message was committed
    gone,       \* removed, expired, out of retention, or wiped
    clobbered,  \* overwritten by a write computed from an older row
    failed,     \* the storage rejected the save
    notified,   \* [Inbound -> number of onMessage calls]
    lostSeen,   \* ids a restart forgot
    readHere,   \* inbound messages marked read by the user, or replayed
    returning   \* messages of operations under way when the row was wiped, or begun
                \* since by what does not look at tombstones or did not see this one

waiting == <<queue, submitted>>
archive == <<backup, buried>>
store   == <<row, waiting, snap, pulling, pulled, purge, tomb>>
ids     == <<seen, seenDisk>>
world   == <<aged, copies, wire, mirrored, reported, reports, pushes, restarts, failures>>
account == <<tainted, saved, gone, clobbered, failed>>
history == <<account, notified, lostSeen, readHere, returning>>
vars    == <<group, store, archive, ids, world, history>>

Status == {"sent", "delivered", "read"}
Report == Outbound \X Member \X {"delivered", "read"}
Stored == [id : Msg, status : Status, got : [Member -> {"none", "delivered", "read"}]]

\* Messages past their expiry.
expired == aged \cap Expiring

Ids(r)    == {r[i].id : i \in DOMAIN r}
Entry(r, m) == r[CHOOSE i \in DOMAIN r : r[i].id = m]

\* The entries of r at the positions I, each after those at the positions that
\* come before its own.
Arranged(r, I, before(_)) ==
    [k \in 1..Cardinality(I) |-> r[CHOOSE i \in I : Cardinality(before(i)) = k - 1]]

\* Array.filter, and the stable Array.sort by timestamp.
Without(r, S) ==
    LET I == {i \in DOMAIN r : r[i].id \notin S}
    IN  Arranged(r, I, LAMBDA i : {j \in I : j < i})

ById(r) ==
    LET Sorts(j, i) == r[j].id < r[i].id \/ (r[j].id = r[i].id /\ j < i)
    IN  Arranged(r, DOMAIN r, LAMBDA i : {j \in DOMAIN r : Sorts(j, i)})

NewMessage(m, status) ==
    [id |-> m, status |-> status, got |-> [p \in Member |-> "none"]]

-----------------------------------------------------------------------------
(* The operations, as functions of the row they read *)

\* Kind 'count': messages over the limit leave from the front of the list.
applyRetention(r) ==
    IF Keep = 0 \/ Len(r) <= Keep THEN r ELSE SubSeq(r, Len(r) - Keep + 1, Len(r))

saveMessage(r, msg) ==
    IF msg.id \in Ids(r)
    THEN [i \in DOMAIN r |-> IF r[i].id = msg.id THEN msg ELSE r[i]]
    ELSE applyRetention(Append(r, msg))

removeMessage(r, m) == Without(r, {m})

updateMessageStatus(r, m, status) ==
    [i \in DOMAIN r |-> IF r[i].id = m THEN [r[i] EXCEPT !.status = status] ELSE r[i]]

\* Mutant of updateGroupReceipt: without "don't downgrade".
updateGroupReceiptAlways(r, m, p, status) ==
    [i \in DOMAIN r |-> IF r[i].id = m THEN [r[i] EXCEPT !.got[p] = status] ELSE r[i]]

\* Monotonic: a late 'delivered' does not replace 'read'.
updateGroupReceipt(r, m, p, status) ==
    [i \in DOMAIN r |->
        IF r[i].id = m /\ m \in Outbound /\ r[i].got[p] # "read"
        THEN [r[i] EXCEPT !.got[p] = status]
        ELSE r[i]]

\* Mutant of mergeMessages: the archive replaces the row.
mergeRestores(r, archived) == archived

\* mergeKv on this key: local entries win.  (A row emptied by removals, "[]",
\* counts as absent here; it differs in the order of what is merged into it.)
mergeMessages(r, archived) ==
    IF r = <<>> THEN archived ELSE ById(r \o Without(archived, Ids(r)))

\* handleHistoryReplay: only missing messages are added.
replayed(r, ms) ==
    LET Restored(m) == NewMessage(m, IF m \in Outbound THEN "delivered" ELSE "read")
        new == SetToSeq({Restored(m) : m \in ms \ Ids(r)})
    IN  IF new = <<>> THEN r ELSE ById(r \o new)

\* Drop expirations, then the retention policy.
Purged(r) == applyRetention(Without(r, expired))

Apply(op, r) ==
    CASE op.do = "save"    -> saveMessage(r, op.msg)
      [] op.do = "remove"  -> removeMessage(r, op.id)
      [] op.do = "status"  -> updateMessageStatus(r, op.id, op.to)
      [] op.do = "receipt" -> updateGroupReceipt(r, op.id, op.by, op.to)
      [] op.do = "merge"   -> mergeMessages(r, op.rows)
      [] op.do = "replay"  -> replayed(r, op.ids)

\* An operation that has nothing to change returns before storage.set.
Sets(op, r) ==
    CASE op.do \in {"save", "merge"}    -> TRUE
      [] op.do \in {"remove", "status"} -> op.id \in Ids(r)
      [] OTHER                          -> Apply(op, r) # r

\* The messages an operation may put into the row.
Brings(op) ==
    CASE op.do = "save"   -> {op.msg.id}
      [] op.do = "merge"  -> Ids(op.rows)
      [] op.do = "replay" -> op.ids
      [] OTHER            -> {}

-----------------------------------------------------------------------------
(* The keyed mutex *)

\* run(key, fn): chained behind the operations submitted before.
run(op) ==
    /\ submitted < MaxOps
    /\ submitted' = submitted + 1
    /\ queue' = Append(queue, op)

\* storage.get by the holder.
LockedGet ==
    /\ queue # <<>> /\ snap = <<>>
    /\ snap' = <<row>>
    /\ tainted' = FALSE
    /\ UNCHANGED <<group, row, waiting, pulling, pulled, purge, tomb, archive, ids, world,
                   saved, gone, clobbered, failed, notified, lostSeen, readHere, returning>>

\* Mutant of Release: the chain is dropped with its head.
ReleaseAll == queue' = <<>> /\ snap' = <<>> /\ UNCHANGED submitted

\* Mutant of Release: the next holder starts from what this one has read.
ReleaseKeepsSnap ==
    /\ queue' = Tail(queue) /\ UNCHANGED submitted
    /\ snap' = IF Len(queue) > 1 THEN snap ELSE <<>>

\* The chain moves on: prev.then(fn, fn).
Release == queue' = Tail(queue) /\ snap' = <<>> /\ UNCHANGED submitted

\* What the code takes out of the row on purpose with this operation.
Drops(op, r) ==
    IF op.do \in {"save", "remove"} THEN Ids(r) \ Ids(Apply(op, r)) ELSE {}

\* storage.set by the holder, and what its caller does next: a group message
\* is sent once it is saved; importArchive goes on to loadPersistedState.
LockedSet ==
    /\ snap # <<>>
    /\ Release
    /\ LET op == Head(queue)
           r  == snap[1]
       IN  /\ row' = IF Sets(op, r) THEN Apply(op, r) ELSE row
           /\ saved' = IF op.do = "save" THEN saved \cup {op.msg.id} ELSE saved
           /\ gone' = gone \cup Drops(op, r)
           /\ clobbered' = IF tainted /\ Sets(op, r)
                           THEN clobbered \cup (Ids(row) \ Ids(r)) ELSE clobbered
           /\ wire' = IF op.do = "save" /\ group /\ op.msg.id \in Outbound \ mirrored
                      THEN wire \cup {op.msg.id} ELSE wire
           /\ pulling' = IF op.do = "merge" THEN "purge" ELSE pulling
           /\ readHere' = IF op.do = "replay" THEN readHere \cup (op.ids \cap Inbound)
                          ELSE readHere
    /\ UNCHANGED <<group, pulled, purge, tomb, archive, ids,
                   aged, copies, mirrored, reported, reports, pushes, restarts, failures,
                   tainted, failed, notified, lostSeen, returning>>

\* The storage rejects the get or the set.
LockedFail ==
    /\ queue # <<>>
    /\ restarts + failures < MaxFaults
    /\ failures' = failures + 1
    /\ Release
    /\ failed' = IF Head(queue).do = "save" THEN failed \cup Brings(Head(queue)) ELSE failed
    /\ pulling' = IF Head(queue).do = "merge" THEN "no" ELSE pulling
    /\ UNCHANGED <<group, row, pulled, purge, tomb, archive, ids,
                   aged, copies, wire, mirrored, reported, reports, pushes, restarts,
                   tainted, saved, gone, clobbered, notified, lostSeen, readHere, returning>>

-----------------------------------------------------------------------------
(* Writers without the mutex *)

\* The get of purgeExpiredMessages.
PurgeGet ==
    /\ pulling = "purge" /\ purge = <<>>
    /\ purge' = <<row, Purged(row)>>
    /\ UNCHANGED <<group, row, waiting, snap, pulling, pulled, tomb, archive, ids, world, history>>

\* Its set, if anything goes.
PurgeSet ==
    /\ purge # <<>>
    /\ purge' = <<>> /\ pulling' = "no"
    /\ IF Len(purge[2]) # Len(purge[1])
       THEN /\ row' = purge[2]
            /\ tainted' = TRUE
            /\ gone' = gone \cup (Ids(purge[1]) \ Ids(purge[2]))
            /\ clobbered' = clobbered \cup (Ids(row) \ Ids(purge[1]))
       ELSE UNCHANGED <<row, tainted, gone, clobbered>>
    /\ UNCHANGED <<group, waiting, snap, pulled, tomb, archive, ids, world,
                   saved, failed, notified, lostSeen, readHere, returning>>

\* The messages that what has begun may still bring.
UnderWay ==
    {m \in Msg : \/ \E i \in DOMAIN queue : m \in Brings(queue[i])
                 \/ snap # <<>> /\ m \in Ids(snap[1])
                 \/ purge # <<>> /\ m \in Ids(purge[2])}

\* What is begun in a deleted conversation all the same.
Returns(S) == returning' = IF tomb = "no" THEN returning ELSE returning \cup S

\* deleteConversation: storage.delete, while other operations are under way.
Wipe ==
    /\ tomb = "no"
    /\ tomb' = "wiped"
    /\ row' = <<>>
    /\ tainted' = TRUE
    /\ gone' = gone \cup Ids(row)
    /\ returning' = UnderWay
    /\ UNCHANGED <<group, waiting, snap, pulling, pulled, purge, archive, ids, world,
                   saved, clobbered, failed, notified, lostSeen, readHere>>

\* ... then recordTombstone.  A pull that has read the tombstones before writes them
\* back without it (see mergeTombstones).
recordTombstone ==
    /\ tomb = "wiped"
    /\ tomb' = "recorded"
    /\ UNCHANGED <<group, row, waiting, snap, pulling, pulled, purge, archive, ids, world, history>>

-----------------------------------------------------------------------------
(* Incoming messages *)

\* Mutant of Unseen: nothing is a duplicate.
UnseenAlways(m) == TRUE

Unseen(m) == m \notin seen

\* handleDataPacket, once a copy of m has been decrypted: deduplication (a
\* copy that is recognised changes nothing), the 24 hour prune of the ids,
\* expiry, saveMessage and onMessage.  Nothing asks whether the conversation was
\* deleted: the device is still in a group, and may have a new session with a peer.
Receive(m) ==
    /\ copies[m] < MaxCopies
    /\ copies' = [copies EXCEPT ![m] = @ + 1]
    /\ Unseen(m)
    /\ seen' = (seen \cup {m}) \ aged
    /\ IF m \in expired
       THEN UNCHANGED <<waiting, notified, returning>>
       ELSE /\ run([do |-> "save", msg |-> NewMessage(m, "delivered")])
            /\ Returns({m})
            /\ notified' = [notified EXCEPT ![m] = @ + 1]
    /\ UNCHANGED <<group, row, snap, pulling, pulled, purge, tomb, archive, seenDisk,
                   aged, wire, mirrored, reported, reports, pushes, restarts, failures,
                   account, lostSeen, readHere>>

\* persistSeenIds, asynchronous.
persistSeenIds ==
    /\ seenDisk # seen
    /\ seenDisk' = seen
    /\ UNCHANGED <<group, store, archive, seen, world, history>>

\* markRead, markReadLocal, markGroupRead.
markRead(m) ==
    /\ m \in Ids(row) \ readHere
    /\ run([do |-> "status", id |-> m, to |-> "read"])
    /\ readHere' = readHere \cup {m}
    /\ UNCHANGED <<group, row, snap, pulling, pulled, purge, tomb, archive, ids, world,
                   account, notified, lostSeen, returning>>

\* deleteMessage here, or the control 'delete' from the peer.
deleteMessage(m) ==
    /\ m \in Ids(row)
    /\ \A i \in DOMAIN queue : queue[i].do # "remove"
    /\ run([do |-> "remove", id |-> m])
    /\ UNCHANGED <<group, row, snap, pulling, pulled, purge, tomb, archive, ids, world, history>>

-----------------------------------------------------------------------------
(* Outgoing messages and reports on them *)

\* The operation changes nothing but the queue.
OnlyRuns == UNCHANGED <<group, row, snap, pulling, pulled, purge, tomb, archive, ids,
                        account, notified, lostSeen, readHere>>

\* sendMessage: every device is sent its copy first ...
sendMessage(m) ==
    /\ ~group
    /\ m \notin wire \cup mirrored
    /\ wire' = wire \cup {m}
    /\ UNCHANGED <<group, store, archive, ids, aged, copies, mirrored, reported, reports,
                   pushes, restarts, failures, history>>

Waiting(m) == \E i \in DOMAIN queue : queue[i].do = "save" /\ queue[i].msg.id = m

\* ... and the sender's own copy is saved when that is over (a restart in
\* between loses it).
sendMessageSaves(m) ==
    /\ ~group
    /\ m \in wire \ (saved \cup failed)
    /\ ~Waiting(m)
    /\ run([do |-> "save", msg |-> NewMessage(m, "sent")])
    /\ Returns({m})
    /\ OnlyRuns /\ UNCHANGED world

\* sendToGroup saves first.
sendToGroup(m) ==
    /\ group
    /\ m \notin saved \cup failed \cup mirrored
    /\ ~Waiting(m)
    /\ run([do |-> "save", msg |-> NewMessage(m, "sent")])
    /\ Returns({m})
    /\ OnlyRuns /\ UNCHANGED world

\* 'sync_send': another device of the user has sent m and mirrors it here.
syncSend(m) ==
    /\ m \notin wire \cup mirrored \cup saved \cup failed
    /\ ~Waiting(m)
    /\ run([do |-> "save", msg |-> NewMessage(m, "sent")])
    /\ mirrored' = mirrored \cup {m}
    /\ Returns({m})
    /\ OnlyRuns
    /\ UNCHANGED <<aged, copies, wire, reported, reports, pushes, restarts, failures>>

\* A member receives, and later reads, m; the report goes to the device that sent m and
\* may take any time.
MemberReports(m, p, what) ==
    /\ m \in wire \cup mirrored
    /\ <<m, p, what>> \notin reported
    /\ what = "read" => <<m, p, "delivered">> \in reported
    /\ reported' = reported \cup {<<m, p, what>>}
    /\ reports' = IF m \in wire THEN reports \cup {<<m, p, what>>} ELSE reports
    /\ UNCHANGED <<group, store, archive, ids, aged, copies, wire, mirrored,
                   pushes, restarts, failures, history>>

\* handleControlMessage, 'delivered' and 'read'.
ReportArrives(m, p, what) ==
    /\ <<m, p, what>> \in reports
    /\ reports' = reports \ {<<m, p, what>>}
    /\ run(IF group THEN [do |-> "receipt", id |-> m, by |-> p, to |-> what]
                    ELSE [do |-> "status", id |-> m, to |-> what])
    /\ UNCHANGED <<group, row, snap, pulling, pulled, purge, tomb, archive, ids,
                   aged, copies, wire, mirrored, reported, pushes, restarts, failures, history>>

-----------------------------------------------------------------------------
(* Archive, history, time and restarts *)

\* An archive without this key changes nothing here.
pushArchive ==
    /\ pushes < MaxPushes
    /\ row # <<>>
    /\ pushes' = pushes + 1
    /\ backup' = <<row>> /\ buried' = (tomb = "recorded")
    /\ UNCHANGED <<group, store, ids, aged, copies, wire, mirrored, reported, reports,
                   restarts, failures, history>>

\* importArchive: mergeKv reads the tombstones; those of the archive count as well.
importArchive ==
    /\ backup # <<>>
    /\ pulling = "no"
    /\ pulling' = IF tomb = "recorded" \/ buried THEN "dead" ELSE "free"
    /\ pulled' = backup
    /\ UNCHANGED <<group, row, waiting, snap, purge, tomb, archive, ids, world, history>>

\* Mutant of Suppressed: the archive of a deleted conversation is merged.
SuppressedNever == FALSE

\* isPeerTombstoned in mergeKv.
Suppressed == pulling = "dead"

\* mergeKv writes back the tombstones it has read, and one recorded meanwhile is gone;
\* then the merge under the mutex, then loadPersistedState.
mergeTombstones ==
    /\ pulling \in {"free", "dead"}
    /\ pulled' = <<>>
    /\ tomb' = IF pulling = "dead" THEN "recorded" ELSE IF tomb = "recorded" THEN "erased" ELSE tomb
    /\ IF Suppressed
       THEN pulling' = "purge" /\ UNCHANGED waiting
       ELSE pulling' = "merge" /\ run([do |-> "merge", rows |-> pulled[1]])
    /\ IF pulling = "free" THEN Returns(Ids(pulled[1])) ELSE UNCHANGED returning
    /\ UNCHANGED <<group, row, snap, purge, archive, ids, world,
                   account, notified, lostSeen, readHere>>

\* The peer replays the messages it has: the ones it sent or received.
handleHistoryReplay ==
    /\ ~group
    /\ \A i \in DOMAIN queue : queue[i].do # "replay"
    /\ LET known == {m \in Inbound : copies[m] > 0}
                      \cup {m \in Outbound : \E p \in Member : <<m, p, "delivered">> \in reported}
       IN  known # {} /\ run([do |-> "replay", ids |-> known]) /\ Returns(known)
    /\ OnlyRuns /\ UNCHANGED world

Age(m) ==
    /\ m \notin aged
    /\ aged' = aged \cup {m}
    /\ UNCHANGED <<group, store, archive, ids, copies, wire, mirrored, reported, reports,
                   pushes, restarts, failures, history>>

\* The SDK stops, in order (shutdown persists the ids) or not, and starts
\* again: loadSeenIds and purgeExpiredMessages run before any transport.
Restart(orderly) ==
    /\ restarts + failures < MaxFaults
    /\ restarts' = restarts + 1
    /\ queue' = <<>> /\ snap' = <<>> /\ UNCHANGED submitted
    /\ purge' = <<>> /\ pulling' = "no" /\ pulled' = <<>>
    /\ tomb' = IF tomb = "wiped" THEN "no" ELSE tomb
    /\ LET live == Purged(row) IN row' = IF Len(live) # Len(row) THEN live ELSE row
    /\ gone' = gone \cup (Ids(row) \ Ids(row'))
    /\ LET disk == IF orderly THEN seen ELSE seenDisk
       IN  /\ seenDisk' = disk
           /\ seen' = disk \ aged
           /\ lostSeen' = lostSeen \cup (seen \ disk)
    /\ UNCHANGED <<group, archive, aged, copies, wire, mirrored, reported, reports, pushes, failures,
                   tainted, saved, clobbered, failed, notified, readHere, returning>>

-----------------------------------------------------------------------------
Init ==
    /\ group \in BOOLEAN
    /\ row = <<>> /\ queue = <<>> /\ submitted = 0 /\ snap = <<>>
    /\ pulling = "no" /\ pulled = <<>> /\ purge = <<>> /\ tomb = "no"
    /\ backup = <<>> /\ buried = FALSE
    /\ seen = {} /\ seenDisk = {}
    /\ aged = {} /\ wire = {} /\ mirrored = {} /\ reported = {} /\ reports = {}
    /\ copies = [m \in Inbound |-> 0]
    /\ pushes = 0 /\ restarts = 0 /\ failures = 0
    /\ tainted = FALSE /\ saved = {} /\ gone = {} /\ clobbered = {} /\ failed = {}
    /\ notified = [m \in Inbound |-> 0]
    /\ lostSeen = {} /\ readHere = {} /\ returning = {}

Mutex == LockedGet \/ LockedSet \/ LockedFail

Next ==
    \/ Mutex
    \/ PurgeGet \/ PurgeSet \/ Wipe \/ recordTombstone
    \/ persistSeenIds \/ pushArchive \/ importArchive \/ mergeTombstones \/ handleHistoryReplay
    \/ \E m \in Inbound : Receive(m) \/ markRead(m)
    \/ \E m \in Outbound : sendMessage(m) \/ sendMessageSaves(m) \/ sendToGroup(m) \/ syncSend(m)
    \/ \E m \in Outbound, p \in Member, what \in {"delivered", "read"} :
          MemberReports(m, p, what) \/ ReportArrives(m, p, what)
    \/ \E m \in Msg : deleteMessage(m)
    \/ \E m \in Inbound \cup Expiring : Age(m)
    \/ \E orderly \in BOOLEAN : Restart(orderly)

Spec == Init /\ [][Next]_vars

\* Storage requests complete, one way or the other.
Fairness == WF_vars(LockedGet) /\ WF_vars(LockedSet \/ LockedFail)

FairSpec == Spec /\ Fairness

-----------------------------------------------------------------------------
(* Properties *)

Op ==
    [do : {"save"}, msg : Stored] \cup [do : {"remove"}, id : Msg]
      \cup [do : {"status"}, id : Msg, to : {"delivered", "read"}]
      \cup [do : {"receipt"}, id : Outbound, by : Member, to : {"delivered", "read"}]
      \cup [do : {"merge"}, rows : Seq(Stored)] \cup [do : {"replay"}, ids : SUBSET Msg]

\* Every variable has its type.
TypeOK ==
    /\ group \in BOOLEAN /\ tainted \in BOOLEAN /\ buried \in BOOLEAN
    /\ row \in Seq(Stored) /\ queue \in Seq(Op)
    /\ snap \in Seq(Seq(Stored)) /\ backup \in Seq(Seq(Stored)) /\ purge \in Seq(Seq(Stored))
    /\ pulled \in Seq(Seq(Stored))
    /\ Len(snap) <= 1 /\ Len(backup) <= 1 /\ Len(purge) \in {0, 2} /\ Len(pulled) <= 1
    /\ pulling \in {"no", "free", "dead", "merge", "purge"}
    /\ pulling \in {"free", "dead"} => pulled # <<>>
    /\ tomb \in {"no", "wiped", "recorded", "erased"}
    /\ {seen, seenDisk, lostSeen, readHere} \subseteq SUBSET Inbound
    /\ {aged, saved, gone, clobbered, failed, returning} \subseteq SUBSET Msg
    /\ wire \subseteq Outbound /\ mirrored \subseteq Outbound
    /\ reported \subseteq Report /\ reports \subseteq reported
    /\ copies \in [Inbound -> Nat] /\ notified \in [Inbound -> Nat]
    /\ pushes \in Nat /\ {submitted, restarts, failures} \subseteq Nat

\* "Two concurrent operations on the same key race and one silently loses its
\* write": what the holder of the mutex has read is still the row when it
\* writes, unless one of the two writers without the mutex came in between.
HolderIsCurrent == (snap # <<>> /\ ~tainted) => snap[1] = row

\* A conversation holds a message once, whatever path brought it: a save, a
\* merge of the archive, a replay by the peer, in any order.
IdsUnique ==
    \A i, j \in DOMAIN row : row[i].id = row[j].id => i = j

\* A message that was saved is in the row, or went one of the ways the code
\* means it to go, or was overwritten by a purge or a holder overtaken by one.
Accounted == saved \subseteq Ids(row) \cup gone \cup clobbered

\* The status shown to the user is true: read and delivered were reported by
\* the peer, an inbound message is read because the user read it.
StatusTrue ==
    \A i \in DOMAIN row :
        LET m == row[i].id
        IN  /\ m \in Outbound => \A p \in Member :
                 row[i].got[p] # "none" => <<m, p, row[i].got[p]>> \in reported
            /\ (m \in Outbound /\ row[i].status # "sent") =>
                 \E p \in Member : <<m, p, row[i].status>> \in reported
            /\ (m \in Inbound /\ row[i].status = "read") => m \in readHere

\* What a conversation holds is whole and true.
RowsSound == TypeOK /\ HolderIsCurrent /\ IdsUnique /\ StatusTrue

\* The write of this step was computed from an older row.
Overtaken ==
    \/ snap # <<>> /\ tainted
    \/ purge # <<>> /\ purge[1] # row

\* A message that was read stays read while it is stored, for each member of a
\* group and for a peer, except for what can set it back: a late 'delivered' of
\* a peer (updateMessageStatus, unlike updateGroupReceipt, is not monotonic), a
\* save over it (a second copy that is not recognised), a write from an older row.
ReadStaysRead ==
    [][\A m \in Ids(row) \cap Ids(row') :
         /\ \A p \in Member : Entry(row, m).got[p] = "read" =>
               Entry(row', m).got[p] = "read" \/ Overtaken
         /\ Entry(row, m).status = "read" =>
               \/ Entry(row', m).status = "read" \/ Overtaken
               \/ /\ snap # <<>>
                  /\ \/ Head(queue) = [do |-> "status", id |-> m, to |-> "delivered"]
                     \/ Head(queue).do = "save" /\ Head(queue).msg.id = m]_vars

\* onMessage runs a second time for a message only when its id was more than
\* 24 hours old or was forgotten by a restart before it reached the storage.
NotifiedOnce ==
    \A m \in Inbound : notified[m] > 1 => m \in aged \cup lostSeen

\* A deleted conversation does not come back from the archive: with the tombstone in the
\* storage, the row holds only what operations under way when it was wiped put there,
\* what was received, sent, mirrored or replayed since (no such path looks at the
\* tombstone), and what came with a pull that did not see the tombstone: it had read
\* the storage before, or another such pull had erased it.
DeletedStaysDeleted == tomb = "recorded" => Ids(row) \subseteq returning

\* A message the user was shown is stored in the end, whatever is ahead of it
\* in the mutex and even if that fails, unless its own write fails or the SDK
\* restarts.
ShownIsSaved ==
    \A m \in Inbound :
        (notified[m] = 1 /\ restarts = 0) ~> (m \in saved \cup failed \/ restarts > 0)

=============================================================================
