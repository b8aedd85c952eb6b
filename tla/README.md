# MeshWhisper in TLA+

Specifications of the MeshWhisper messaging system (the SDK in `src/src/`, the
relay server in `src/node/src/`), the configurations TLC checks them with, and
proofs that TLAPS checks. Paths below are relative to the repository, which lies
in `src/` beside this directory: `src/node/src/index.ts` is the server.

    tlc -config Relay_order.cfg MCRelay        # any run of the table below
    tlapm RelayProofs.tla                      # any *Proofs module

`PROJECT.json` lists the components, the runs, the source lines each definition
stands for, for each property a mutation of the code that breaks it, the
hazards, and the theorems.

## The system

An application embeds the SDK. Devices find one another in the prekey directory of
a relay, set up a session with X3DH, and exchange packets encrypted with a double
ratchet. A packet carries a destination hash, derived from the recipient's key
and the hour. A relay forwards it to the socket registered for that hash, stores it,
wakes the device, or hands it to a federation of relays.

| component (source) | state | operations | hard about it | correct if |
|---|---|---|---|---|
| Relay, client side (`node/src/index.ts`) | registry hash→socket, reverse map, route hints, SQLite `blobs`, push registrations | hello, pull, route, packet, send callback, close, prune, restart | late close events and callbacks, half-dead sockets, a store at its cap, crash inside `storeBlob` | no packet disappears but by one of the known ways; order per hash; a late callback hits its own row only; the store is bounded |
| Relay connection (`src/transport/node`, `/browser`) | `ws`, `running`, timers, reported status | start, stop, open, close, error, timer | sockets outlive `this.ws`; attempts overlap | always on the way back; the status agrees with `ws` |
| Outbound queue (`src/sdk/index.ts`) | `outboundQueue`, `nodeConnected` | sendMessage, flush | overlapping flushes, failure after sending | every accepted message accounted for; order; no needless resend |
| Destination hashes (`src/namespace`, `sdk/index.ts`) | the clock, the hashes of the last hello | hello, send, receive, prune | hour boundaries, window against TTL | what the relay holds is asked for, what it delivers is recognised |
| One-time prekeys (`sdk/session-manager.ts`, `node/src/index.ts`) | pool in memory and on disk, migration flag, relay rows | load, generate, upload, claim, use, replenish | crash between any two writes, repeated handshakes | the relay offers only durable keys, each once; first use agrees |
| Double ratchet (`src/ratchet`, `src/x3dh`) | two `RatchetState`s | encrypt, decrypt, skip, turn | reordering across ratchet steps, copies, stale storage | all packets can be opened, once, each with a key of its own |
| Session lifecycle (`sdk/session-manager.ts`, `sdk/index.ts`) | sessions, pending pings, control messages | handshake, activate, ping/pong, reset, delete | crossing handshakes, awaits between check and overwrite | both ends come to rest with one session that can send |
| Message store (`sdk/message-handler.ts`, `keyed-mutex.ts`) | messages per conversation, receipts, seen ids | save, edit, delete, receipt, purge, replay | read-modify-write with and without the mutex, restarts, failing storage | a saved message stays until something removes it on purpose; its status is true |
| Federation (`node/src/federation.ts`, `onion.ts`) | peer objects, sockets, packet cache, address book | handshake, flood, routed and onion forward, dial, gossip | sockets that close late, handshakes that cross, duplicates, hop limit, `maxPeers` | a packet that nothing drops arrives once; links heal; records converge; the cap holds |
| Directory (`node/src/index.ts`) | prekey rows, owners, policy, buckets | publish, register, transfer, restart | calls of one client that overtake each other, replayed tokens, window boundaries | one owner, changed only with its consent; the limiter keeps its word |
| Archive (`sdk/archive.ts`, `node/src/index.ts`) | contacts, tombstones, revivals on each device, the snapshot | add, delete, push, pull, reload | chains of awaits without a mutex, clocks that differ | the latest edit a device knows of stands |
| Devices (`sdk/index.ts`, `src/permissions`) | contacts with device lists, announcements seen, offers | announce, apply, link, revoke, remove | reordering, equal timestamps, crash between two writes | the latest announcement wins; both views of a contact agree |
| Groups (`src/group`, `sdk/index.ts`) | members, admin, name, sender keys, pending invites | create, invite, accept, leave, kick, rename, hand over | no server: each member applies what it hears, in its own order | members agree on keys, admin and name |
| LAN bearer (`transport/local`) | discovered peers, sockets | announce, dial, identify, prune, stop | both dial; each learns of two sockets in its own order | they settle on one socket; stop lets go of all |
| Dual send (`sdk/index.ts`, `transport/negotiator`) | marks of inbound packets | send on LAN and relay, drop the second copy | the copies come in any order, a copy may come before it can be opened, or too late | no copy uses up what the other needs |
| Local store, routing, reciprocity (`src/relay`, `/routing`, `/reciprocity`) | blobs, routes, ledger | store, forward, prune | nearly all of it is out of use, see below | |

They interact as follows. The application calls the SDK; the SDK calls the transports
and the relay's HTTP endpoints and awaits them; transports report status and packets by
callback; relays call each other over sockets. Everything in one process runs on one
event loop, so what interleaves is awaits, timers, callbacks and the network, and that
is what the modules make actions of: code from one await to the next is one
step.

## The modules

`X` is the specification, `MCX` the module TLC starts from, `XProofs` the theorems.

**Relay.** `Message(c)` are the handlers of frames, `Callback(c)` the completion of
`ws.send`, `Network(c)` what happens to a socket: `half` is a socket whose peer has gone
while the server still sees OPEN, `dead` one that left OPEN before its close event ran.
Handlers run one at a time, so each is one action, and everything a handler does to the
maps and the database belongs to it. `LoseMemory` is a restart; `CrashInStoreBlob` falls
between the two statements of `storeBlob`. `log` and the sets after it are history: by
which of the five ways each accepted packet left the store. `evicted`, `drained` and
the others change nothing but the properties. Rate limiting and statistics are left out;
a packet the limiter drops is one that was never sent.

**Link** is the relay connection as the rest of the SDK may assume it: `down`, `up`, or `stale`
(reported connected, not writable). **ClientLink** is `NodeTransport`, every handler
naming the socket its closure belongs to, and implements Link by the mapping `linkState`.
Back-off delays are abstracted away: a timer fires some time.

**Outbox** INSTANCEs Link for its connection, so what is proved of ClientLink justifies what
Outbox assumes. A call of `sendMessage` is a record from its first await to its end;
`FlushFrom` is the loop of `flushOutboundQueue` from its test to its await. Several
flushes may be under way.

**EpochInbox** models one recipient and its relay. An address is the hour it was derived for. The
relay's failures are Relay's subject and are left out, so that what is lost here is
lost by the windows. An hour has `PHASES` instants, so that a TTL in hours can expire in the middle of one.

**Opk** has the device's `initOPKPool` and `replenishOPKPool` one storage write at a time, every
upload and deletion as a request under way, the relay's rows, and the peers that claim
them. `Legacy` are zombies from before the migration, `Old` a pool of that time.

**Ratchet** is `src/src/ratchet/index.ts` as pure operators over symbolic keys: a root or
chain key is the sequence of what went into it, so equal keys were derived alike and no
other equalities hold. **RatchetPair** lets two devices use it: any packet of `net` may arrive
next, twice, or never; `Persist` is the write that `setSession` starts and does not
await, `Crash` goes back to what was written. `spoiled` remembers that a session was
reset, by a crash with a write outstanding or a second `x3dh_init`.

**Session** is the level above: a session is the handshake it comes from and whether it
has a sending chain. It takes from RatchetPair that packets of one handshake open in any order,
and from Opk that a handshake that arrives once is answered with the same secret. Any packet on the way may be
lost, or the next to arrive, since a copy on the LAN overtakes. `begin` is a call of
`initiateHandshake` up to the await of the one-time prekey; the action `initiateHandshake` sets the session, without
another look at it, and sends the packet or fails to; `Initiated` is what follows once the packet is handed over.
`stored` is what the storage has: `Persist` is a write that nobody waits for, `Restart` goes back to it.
Debouncing and cooldowns are a choice: a re-handshake they
might stop may happen or not.

**MessageStore** is one conversation on one device. An operation under the keyed mutex is two
steps, the read and the write; what holds it is the head of `queue`. `purgeExpiredMessages` and
`deleteConversation` write the same row without the mutex and are steps of their own; `tainted`
and `clobbered` remember when one of them came between. Importing an archive, replaying history
and a restart belong to it, as do failures of the storage. Reactions are left out: they have the
shape of a status update. `importArchive` reads the tombstones, `mergeTombstones` writes back what it has read and
merges the row; nothing else in the code asks for a tombstone, so receiving, sending, `syncSend` (a message another
device of the user mirrors here) and replay are not guarded by one.

**Federation**: a socket is a connection with two ends, each of which names the `PeerState` object
its handlers were closed over, because objects and sockets outlive each other. The map, the objects,
the sockets, the pending queue and the packet cache are separate variables, and every handler
is one action. A handler is a function from the world it reads to the world it leaves (`Become`); what it
sends in a loop is written in closed form, one frame per peer. A scenario fixes the peers file, what is public, and what
may go wrong.

**Routing** puts the two together, EpochInbox by INSTANCE and Federation by EXTENDS: the hour a recipient listens on and
the way a packet takes to its relay. They share nothing; it states what is checked and proved of them.

**Directory** has a call as three steps, request, answer and what the client does with it, and the calls
of a client overtake each other. A publication may fail half way, be limited, or be answered
after the client has stopped. `granted` is the identifier the client was told it has.

**ArchiveSync** has each public call as the chain of awaits it is: a step ends where the call waits,
and what it still has to do is a job with the values it has read. Clocks of devices may differ.

**Group** has a member's `GroupManager` and a channel in each direction between each two members, from which any
message may be the next to arrive: `sendControl` is not awaited, sends wait for different things, and a copy on the LAN
overtakes the one through the relay.
`removeMember` is called for members only, so it takes out the member's place in the list.
**Devices** has the two maps of `PermissionManager`, `records` and `accountOf`, in memory and on disk,
with the announcements on the way; a revocation is saved in two writes, and a crash may fall between. A record
list is a function from accounts to their devices and their place in the list, so that loading it names
the account the loop of the code would end with, the last that lists a device, without a fold.

**LocalLink** is the LAN bearer of two devices. An end of a socket is what one device's handlers
see of it; who destroys a socket has taken it out of the map, so that end is closed at once and the
other hears of it some time later. A dialled attempt and an accepted socket are the same socket's two ends,
and either end may learn whom it is to first.

**DualSend** is above: the sender offers a packet to the LAN and gives it to the relay; the recipient marks
what it has seen, for a minute and up to a number, and takes the mark back from what it could not open.
It takes from Relay that its copies come in order, and from RatchetPair that a packet opens once.

A run may check several models: an `MC` module EXTENDS one and INSTANCEs the others; the variable
`checked` says which of them a behaviour belongs to, and the others stay as they start. The models share
no variable, so this is no composition, only one run for several questions. Where the run has
fairness, the parked models have no fair action enabled, or no temporal property is asked of the others.

| module for TLC | models |
|---|---|
| MCRelay | Relay |
| MCClientLink | ClientLink, LocalLink and DualSend (by way of Bearers, which the proofs extend too) |
| MCOutbox | Outbox |
| MCMessageStore | MessageStore |
| MCHandshake | Opk, Session and Devices (by way of Handshake, which the proofs extend too) |
| MCMessageKeys | RatchetPair and Group (by way of MessageKeys, which the proofs extend too) |
| MCAccount | Directory, ArchiveSync, by way of HomeAccount |
| MCRouting | EpochInbox and Federation (by way of Routing, which the proofs extend too) |
| MCSession, MCEpochInbox | for the two runs that refute |

## The runs

| run | asks | bounds, and why they suffice |
|---|---|---|
| `relay_order` | registry, order, copies, delivery, with late events and a replaced connection | 1 hash, 2 connections, 2 packets, cap 2: a recipient and its successor; two packets show an overtaking, and a second delivery of either is possible |
| `relay_restart` | accounting, row numbers, cap and eviction, with expiry, restart, push, federation | cap 1 and 2 packets overflow; 1 restart with a callback pending and a row number that could be used again; 1 tick to expire with TTL 0 |
| `links` | NodeTransport against Link and its reconnection; one LAN socket; copies on two ways | 3 relay sockets, 2 timers: two attempts beside an open socket, each failing late. 3 LAN sockets at a time without faults, 2 with a fault and a stop: one that is dialled by each side and one more. 4 packets, the first the handshake, a map of 2 marks; a minute and a restart, or one of them and a packet whose handling throws: the handshake and a packet can be evicted, expire, and come late |
| `outbox_safety` | accounting, order, what a stuck queue waits for | 2 peers, one of which fails, 3 messages, 3 reconnections: three flushes may overlap |
| `store_safety` | one conversation under concurrent writers | 1 message each way, 2 copies, 3 operations, 1 archive, 1 restart or failure, retention of one: an operation between the two steps of another, with a purge, a wipe or a pull between them. A message that is a day old and a wipe, and a mirrored copy and a fault, are not in one behaviour (`NotEverythingAtOnce`) |
| `handshake` | prekeys in memory, on disk, at the relay; sessions; devices of an account | pool 3, low mark 2, 5 keys, 3 claims, or 2 and a copy, 1 crash: the initial pool and a refill. 2 handshakes by either device: the least with which two cross, or one undoes another; 1 restart, loss, deletion or overtaking of or by an `x3dh_init` (`OneThingGoesWrong`; other packets open in any order); a restart before the last handshake, of a device with something to lose (`RestartMatters`: a later one ends calls and starts nothing), and storage written once, with what that restart reads (`StorageMatters`). 2 secondaries, 1 contact, up to 3 announcements, 2 offers, one fault of each kind, in seven mixtures (`MCBudgets`); of two secondaries, d1 is the one that links: 1.0 million states |
| `message_keys` | reading and key use in any order; agreement in a group | 4 packets, 1 copy, 1 crash, `MAX_SKIP` 1: three turns, or a chain longer than the limit. 3 members, 3 changes, messages in any order, and a loss, a restart or a message that misleads by coming out of turn (`OneThingGoesWrong`) |
| `account` | identifiers, transfers and the limiter; archives that cross | 2 clients, 2 names, 3 calls, 1 token, or 7 calls of one client in 7 ticks; 2 devices, 1 peer (what edits of two peers do to each other is in the proofs only), up to 2 edits, 2 pulls or 2 pushes, a crash, skewed clocks |
| `routing` | does a hello collect all; do links heal, packets arrive and records converge | window 3 and TTL 3, equal as in the code, hours 0 to 5, 3 packets: inside, on the edge of and beyond both. 2 or 3 relays in the fourteen situations of `MCScenarios`: one dials, both dial, strangers, dial on demand, one that dials back and is evicted, line, triangle, transit, onion, ageing |
| `relay_survives` | refutes a comment | 1 packet, a socket whose peer has gone |
| `epoch_received` | refutes a comment | window and TTL 3, 1 packet |
| `session_healed` | refutes a comment | 2 handshakes |

Symmetry is used in runs without temporal properties only, over connections, hashes and devices which no
definition distinguishes. Deadlock is not checked since every run has bounded counters
and a behaviour ends when they are used up.

RatchetPair also holds with 5 packets, 1 copy, 1 crash (1.95 million states) and with 6
packets, 1 copy and `MAX_SKIP` 2, beyond what a run here takes.

### What the properties say

*Relay.* `Accounted`: a packet that was accepted is stored or left by a way the code
intends; with `StoreSound`, no callback deletes another packet's row, a queue stays within its cap, and what an
overflow takes is the oldest. `InOrder`: on a connection the packets of a hash appear in order, apart from second
copies, which `AckedNotRewritten` limits. `RegistrySound`: no registry entry survives its
socket. `QueuedReachesClient`: what is queued reaches a client that connects for it.

*ClientLink.* `NeverAbandoned` and `Reconnects`: whatever late events do, a client that was
not stopped gets back. `ImplementsLink`: the status it reports can be relied on.

*LocalLink.* `OneSocket`: of the sockets whose peer a device knows, all but the one in the map are being closed.
`LanSettles`: two devices that keep hearing each other come to use one socket and stay with it; a device that
stops finishes, and its peer closes what it left open. Two premises are there because the code needs them:
`Doubled`, no device has two attempts of its own, and `unlisted`, see below.

*DualSend.* `CopiesHarmless`: a second copy gets to the ratchet only over a minute, a restart or a full map
after the first, or if the handling of the first threw; and all the relay has delivered was opened, in whatever order the copies came, unless a late copy
of the handshake has set up another session.

*Outbox.* `Accounted`; `SentOnceInOrder`: a message is sent twice only if saving failed, and in order
while flushes do not overlap; `StuckBehindFailure`: under a lasting connection
the queue ends empty, or with a failing message in front.

*MessageStore.* `RowsSound`: the holder of the mutex works on the current row, ids are unique, a status was
reported by somebody; `Accounted`: a saved message is there, was removed on purpose, or was overwritten by a
writer without the mutex; `NotifiedOnce`, `ReadStaysRead`; `DeletedStaysDeleted`: no pull that sees the tombstone
of a conversation, or brings it, restores it, and nothing else comes back but by the paths `returning` names; `ShownIsSaved`: a message
the user saw is stored in the end, although operations ahead of it fail.

*Opk.* `RelayIsDurable`, `ClaimedOnce`, `FirstUseAgrees`: what the relay gives away is on the device's disk, is given
away once, and answers the first handshake.

*Session.* `SessionsJoin`: at rest the two ends have the same session, unless two `x3dh_init` crossed (`crossed`) or one did
not get through (`undone`: it was lost or never sent, a later one overtook it, or a restart found an older session in the
storage); and who has a session can send, unless, besides, something else went wrong (`cut`).

*Devices.* `AccountsSound`: the flat view and the account list agree but for one way out. `AnnouncementsAgree`: the
announcement made last decides, in whatever order they come, and at rest a contact lists what the primary lists.

*RatchetPair.* `ReadableOnce`: no order of arrival makes a packet unreadable, except
beyond `MAX_SKIP`, and a packet that was read cannot be read again; `KeyUsedOnce`: no message key serves twice.

*Group.* `RolesAgree`: two members hold the same key for a third also while changes cross, unless it was added
twice; the role of admin is never doubled without a restart. `MembersAgree`: at rest members, keys, admin and name
agree, in whatever order changes arrived, if nothing was missed, nobody was added again, no rename overtook another or the
news of an admin, and that news overtook nothing (`swapped`).

*Directory.* `DirectorySound`: an identifier has one holder, the client that was told so; the limiter lets no more than
two bursts through and its Retry-After is true. `TakenByConsent`: a name passes on only by policy or by the holder's token.

*ArchiveSync.* `ContactsKept`: a contact goes only where it was deleted. `EditsStand`: a delete made outside a pull stays
until a merge has read a re-add that is not older, on a device that has lost no tombstone; a re-add outlasts the deletes it saw, a pull has taken effect after a reload.

*EpochInbox.* `StrandedRows`: a hello leaves behind only what has expired, and the packets of the one hour the
relay still has and the window no longer, with both 720 as in the code; later only those of hours begun since.

*Federation.* `CapKept`: more peers than `maxPeers` only by handshakes admitted together, or once a peer dialled on
demand was dropped in the middle of its handshake. `PacketsArrive`: a packet no
copy of which was dropped arrives, nothing is dropped without faults but by hop limit or full queue, and none is
classified twice while the cache knows it. `LinksHeal`, `RecordsConverge`: liveness.

### Fairness

- Relay (`relay_order`): weak fairness of callbacks and close events, which the event loop
  guarantees, and of the first hello, which the transport sends in its open handler.
- ClientLink: weak fairness of timers and of the end of each attempt and closing socket
  (the event loop and TCP's own timeouts), and strong fairness of an attempt's success:
  the relay is reachable again and again. Without the last a client may fail forever,
  whatever its code.
- LocalLink: each socket makes progress, announcements come again and again while the other runs (a timer of
  five seconds sends them), the prune timer recurs, and silence of fifteen seconds is noticed once the other has stopped. That both run
  on for ever is a premise of `JoinsUp`, not an assumption.
- Outbox: weak fairness of pending calls: promises settle. That the connection
  comes back to stay is an assumption inside `StuckBehindFailure`, not of the specification.
- MessageStore: requests to the storage complete, one way or the other.
- Federation: either the network comes to rest again and again, or steps go on being taken: timers,
  sockets and frames under way are not left lying for ever. Faults are bounded.

### What the code contradicts

Three runs end in a counterexample, and `PROJECT.json` quotes what they contradict:

- `SurvivesDelivery`: the send callback deletes the row when the kernel has the frame, so the
  race its comment describes still loses the packet.
- `DeliveredIsReceived`: hello asks for 720 hours of packets, `isMessageForUs` recognises two;
  the rest is dropped after the relay deleted it.
- `HealedWhenQuiet`: after crossing handshakes both ends may have a session that can send and
  that the other end cannot read; the ping's timeout calls `targetedReestablish` without
  `force`, which leaves such a session alone.

Further statements of comments that the code does not satisfy are kept as definitions
without a run. Each is seen by checking it alone, with these constants:

| definition | statement | constants |
|---|---|---|
| `Relay!RoutedWhileRegistered` | the registry routes to the connection that registered (`transport/node`) | as `relay_survives` |
| `ClientLink!DisconnectedMeansClosed` | "disconnected" means no connection is open (`src/types.ts:449`) | as `links` |
| `ClientLink!StoppedMeansClosed` | `stop` closes the connection (`transport/node/index.ts:83`) | as `links` |
| `Outbox!QueuedIsFlushed` | queued messages are flushed on reconnect (`src/types.ts:451`) | as `outbox_safety`, `StorageFails = FALSE` |
| `Outbox!UnsentIsQueued` | a message without connection is queued | one peer that never fails |
| `EpochInbox!WindowCoversStore`, `RegisteredForCurrentHour` | the window covers the TTL (`sdk/index.ts:4355`); hashes are refreshed each hour (`transport/node/index.ts:211`) | as `epoch_received` |
| `Opk!MigrationSyncs` | a failed purge is retried (`session-manager.ts:397`) | as `handshake`, `MaxCrashes = 0` |
| `Opk!EveryHandshakeAgrees` | dedup keeps repeated `x3dh_init` away (`session-manager.ts:990`) | as `handshake`, `MaxCrashes = 0` |
| `Opk!FullPoolUploaded` | after start the full pool is at the relay (`session-manager.ts:256`) | as `handshake` |
| `RatchetPair!KeyUsedOnce` without `~spoiled` | message keys are used once | as `message_keys`: a crash before `Persist` |

Seen while modelling and kept as premises of properties, each at the line that makes it necessary:

- *LAN* (`transport/local/index.ts`): `pendingConnections` is keyed by address (412) and asked by peer id (364), so a
  device dials again while it dials; with several sockets of one side the two may go on closing each other's choice
  (`JoinsUp` without `Doubled` fails). A socket that is identified after its device has pruned the peer, or has
  stopped, is in nobody's list (`StopLetsGo` without `unlisted` fails).
- *Dual send*: "a direct path may only ever make delivery faster, never less reliable" (`transport/negotiator/index.ts:198`; likewise
  `docs/p2p-transport.md` 6, "No new failure modes"). If the handshake comes by the LAN and its copy from the relay over a
  minute later, or after a restart, the copy counts as new; its one-time prekey is gone, and it replaces the session by one
  with another secret. Nothing the sender sends after that opens. A late copy of a data packet starts a new handshake.
  So does any second copy of a packet whose handling threw after it was opened (a malformed envelope, a control handler,
  the application's `onMessage`): the catch of `handleDataPacket` releases its mark (`sdk/message-handler.ts:279`, "unmarking
  is harmless"), and the copy finds its key gone and reports a decrypt failure.
- *MessageStore*: `applyRetention` takes the order of the row for the order of time, but saves append in order of arrival; the mutex' comment
  speaks of all writers, the purge is none of them; the receipt of a message may come before its sender has saved it and is
  dropped (`sdk/index.ts:963`). A deleted conversation is filled again by what is received, sent or mirrored (`sync_send`) after
  it, as only `mergeKv` looks at tombstones; and a `mergeKv` that has read them before writes them back without the new one
  (`sdk/archive.ts:202`).
- *Federation*: a relay's own address record bears the time of its start and is refused by newcomers a week later; the cache
  entry is made before the hop limit is looked at, so that a copy from a long way shadows one from a short way (`docs/federation.md:77`);
  the late close of a dynamic peer's former socket takes the current one out of the map, and its heartbeats go on, so nobody
  reaps it; a frame that arrives during the handshake is taken for the signature. "Handshakes beyond the cap are rejected"
  (`federation.ts:448`) has a second exception beside handshakes that overlap: a relay dialled on demand, which the cap does not
  count, may dial back and is let in as known (977); if it is evicted before its signature comes (558), or a late close
  deletes its entry (897), the handshake ends by admitting it as new, without another look at the cap (1003).
- *Directory*: "sliding window counter" (`node/src/index.ts:335`) is a fixed one; `setIdentifier` "throws if taken" but swallows every other
  failure; a takeover deletes the whole row of the former owner until it publishes again.
- *ArchiveSync*: `addTombstone` writes the whole map it has read (`sdk/archive.ts:393`), so of two deletes of different peers that
  overlap one loses its tombstone, and a stale archive brings that peer back (`DeleteSticks` without `Whole`);
  a delete during a pull is undone by the maps the merge has read before; a delete on a device whose clock is
  behind is undone by its own next merge (`recordRevival` goes beyond the tombstone, `addTombstone` not beyond the revival);
  `acceptContact` does not save the contact. ADR-003 says devices settle to the same state.
- *Group*: control messages between invite and acceptance are dropped; a leave that crosses an addition leaves a ghost; two
  that add the same device without an admin give it two keys ("so everyone agrees"); crossing renames diverge, and so do two of
  one member that arrive in different orders (`Agreement` without `swapped`); `restoreGroup`
  makes the first member admin, so that a restart may leave two. The kick of a device whose invite still waits is
  delivered late: if the role went on and back, and the device was added again meanwhile, it is then out, and still
  on every list.
- *Devices*: a crash between the two writes of a revocation loses it for good (`sdk/index.ts:4184`); of two announcements in one
  millisecond the first to arrive wins; the import of a linked device's contacts overrides the guard; an announcement
  creates a deleted contact anew; a device listed under two accounts that leaves one is taken out of the flat view.

`Relay!HintsBounded` (the cap of route hints) holds, with three hashes, a cap of two and two
home relays; it has no run of its own. The comment at `session-manager.ts:502`, that a session
that can send is not torn down, fails in Session: `targetedReestablish` looks before the await and
`initiateHandshake` replaces after it.

## The proofs

All theorems are of `Spec` and hold for every value of the constants the assumptions allow.

| module | theorems | argument |
|---|---|---|
| RelayProofs | `TypeCorrectness`, `RegistryCorrectness`, `StoreCap`, `NoSilentLoss`, `StoreKeepsNewest`, `OrderKept`, `AckedOnce` | `IInv` is the conjunction of TypeOK, RowsSound, RegistrySound, StoreBounded, Accounted. Accounted needs RowsSound, since a callback deletes by number, and StoreBounded needs that the oldest row exists in a nonempty finite set (`OldestExists`). Three lemmas, for deleting, storing and draining rows, carry the actions. A second invariant, `OrderInv`, carries the order: a packet's number is that of its row, because the two counters move together (`Numbered`); what is stored was written before, or nothing later of its hash was (`NotOvertaken`); and where a hash is live, everything stored for it has been written (`LiveCaughtUp`), so a packet that comes now is the newest on that connection |
| ClientLinkProofs | `TypeCorrectness`, `AlwaysTrying`, `ReportsAgree`, `Refinement`, `SocketsAreSingle`, `CopiesDoNoHarm` | `Unstarted` added: before start nothing exists. With `StatusFollowsSocket` every step maps to a step of Link or a stutter. `SocketsAreSingle` is of `N!Spec`, the LAN: the frame of an open socket is read exactly when the map has that socket, and no frame is there before the other end is open, so a socket not yet accepted cannot be in a map (`Mapped`); the four handlers that change a socket each keep this (`DestroyKeeps`, `IdentifyKeeps`, `OpenKeeps`, `ReplaceKeeps`). `CopiesDoNoHarm` is of `D!Spec`, the copies: what is marked was opened, and what was opened is marked, or was seen a minute, a restart or a full map ago, or threw (`MarkInv`); what the relay has for the recipient is in order, so the handshake comes before what needs it (`RelayInv`). It assumes two devices that differ and a map of at least one mark |
| OutboxProofs | `TypeCorrectness`, `NothingForgotten`, `SentOnce` | `HandedOver` added: a call that has come to saving has been sent or stashed, so its end forgets nothing. For `SentOnce`: a message has one copy, in the queue or in one call (`OneCopy`); what is still to be sent though it was sent before was not saved (`SentAgain`); and as long as no two flushes have overlapped, the one flush call carries the oldest queued message (`FlushOrder`) |
| RoutingProofs | `TypeCorrectness`, `HelloCollects`, `LiveDelivery`, `CapHolds` | the first three are of `E!Spec`, the inbox. `HelloCollects` has no premise about the window and the TTL: what lies between them is left behind, one hour with the defaults, both 720 (the comment at `sdk/index.ts:4354` says nothing is). `LiveDelivery`: what was forwarded live and not handled is at most one hour old. `CapHolds` is of Federation, with `Federated`: a world is good if every end of a socket names an object of the relay at that end about the other (`Ends`), and the maps name such objects, those of the peers file for good (`Mapped`). The cap alone is not inductive, as a handshake is let in at its first message and comes into the map at its last; so those are counted who are in the map and not learned, and those who were accepted and are not in it (`Kept`, `Coming`). Every operator a handler is made of is shown to be even or tame: nobody comes to count by it but who was about to (`SendSeqIs` to `ForwardToRelayIs`). What is left is `ClientHello`: it looks at the size of the map, and those it does not see there came by different sockets (`SendersAre`), which `overlap` counts. It assumes finitely many relays, and of a scenario that its file names no pair twice and fits into the objects, and, with its links up, that both ends of each are in it |
| OpkProofs | `TypeCorrectness`, `RelayDurability`, `SingleUse`, `FirstAnswers`, `SessionsMeet`, `DevicesLast`, `AccountsHold`, `AnnouncementsHold` | the invariant says that each offered key is in one place (`OnePlace`), that what is not being deleted is in memory (`Durable`), and that keys still to be uploaded were never offered (`Fresh`). Assumes `CleanStart`: no pool from before the migration, no crash during it; without, the code does offer a key twice. `SessionsMeet` is of `S!Spec`, the sessions, and assumes only that there are two devices. `JoinInv`: unless handshakes crossed or are about to (each device has an `x3dh_init` on the way to it), or one was undone, the session of the one who sent the last `x3dh_init` is of that handshake, and with none on the way the two sessions are of one (`Toward`). `BootInv`: a session that cannot send is owed a packet by the other device, which has it to hand over, in its outbox, or behind the handshake in the channel (`Owes`, `Served`), unless something was cut short. The last three are of `D!Spec`, the devices, with `DevicesInv`: memory and disk agree but for what has yet to be written (`Stored`); and of every device that was not led away (`strayed`: it removed a contact itself, took over a list, or restarted with a write missing): only the primary's account has devices of other names, and one of them resolves to nothing only after a revocation (`Own`, `Unmapped`); a contact goes by the announcement with the latest time it was told (`Follows`), the primary did what it announced last (`Leads`), and every announcement has reached a contact, is on its way, or will be sent (`Coming`); so at rest a contact follows the last one. They assume that the contacts are finitely many and that primary, secondaries and contacts differ |
| RatchetPairProofs | `TypeCorrectness`, `KeysUsedOnce`, `ReadOnce`, `GroupLasts`, `RolesHold` | root keys get two inputs longer with each turn, so the lengths of the two ends' chains have different parity and never meet; within an end a packet was sent on a shorter chain or with a smaller number (`Behind`). Both hold while no session was reset. For `ReadOnce`: one end is a turn behind, and the other's sending chain is the one it would turn to (`Leads`); so each packet not read is at hand, skipped or ahead on the receiving chain, or makes its receiver turn (`Reach`); the key of one that was read lies behind (`GoneFrom`), and a fresh key pair was never used (`Used`), so no second copy is read. The lemmas before it say what each operator of Ratchet preserves. The last two are of `G!Spec`, the groups, with `GroupInv`. A key is made in one place and copied to many, so the invariant names all copies at once: some set of keys given out explains every key in a group, in an invite and in a notice, and has one for a device added once and none for one never added (`KeysGiven`); before the creation nothing is under way (`Created`); the role of admin is with one device or in one message to the device it names, until a restart (`RoleOnce`). They assume finitely many peers, the creator among them |
| MessageStoreProofs | `RowsHold`, `NothingLost`, `ReadIsKept`, `ShownOnce`, `StaysDeleted` | `StoreInv` speaks of every row that may come to be written: the one the holder of the mutex has read, the two of a purge, the archived, the ones to be merged (`Held`, `RowsTrue`); of the operations that wait, each founded on a report that was made (`OpsTrue`); and of the messages sent, each waiting to be saved at most once and, in a group, on the wire only when it was saved (`SavedFirst`). `Made` says what an operation makes of a row. Most actions only let the world report and submit an operation: `QuietSteps` treats them as one (`Framed`). `OnlyReturning` carries the deletion: row, queue, snapshot and purge hold only what is in `returning`; `Buried`: an archive that has the tombstone, and a merge that has read one, come after it was recorded |
| DirectoryProofs | `NamesAreUnique`, `Consent`, `IdentifiersHeld`, `EditsLast`, `ContactsLast` | a registration writes its row and deletes that of the former holder in one transaction (`RegistrationKeeps`), so a name can only pass where `RegistrationConsents` says. `Unnamed` added: a client without a row has no name left in its column, or it would come back with one. `Typed` keeps the token of every call among those that were signed. `IdentifiersHeld` is of `DirectorySound` and needs two more invariants. `LimiterInv`: the requests let pass within the last `RATE_WINDOW` are those the entry counts (`Present`), at most a limit, and those before it (`Former`), at most a limit, since an entry begins when the window of the last one is over, and what preceded that one is then no longer recent. `HeldInv`: a client whose calls have not crossed has one, and either the row has what it was told it has, or the call was answered and not heard of, and the row has what it asked for (`CallHolds`). It assumes that who starts with an identifier has published it. `EditsLast` and `ContactsLast` are of ArchiveSync. `AllDated`: every stamp on a disk, in the archive, on its way there or read by a job is at most the newest tombstone of its peer (a revival: one more, or some clock). `Stays`, of a device that has lost no tombstone: what was deleted there has a tombstone on its disk, every merge under way has read one, and a merge that is about to write the list calls it deleted in the maps it has read, since a merge that reads a re-add at least as late takes it off `deleted` (`MergeRevivals`). `PullsWell`: one merge per device at a time, and a pull no call has touched has the disk to itself. `Stands`: who was re-added has a revival above every tombstone of its peer, wherever written, unless a write of revivals discarded another |

The type invariants are proved and not run: the proofs need them, and they say little alone.

Only model-checked:

- QueuedReachesClient, Reconnects, LanSettles, StuckBehindFailure, ShownIsSaved, LinksHeal and RecordsConverge:
  liveness and ENABLED are out of the prover's reach.
- `PacketsArrive` of Federation. That a packet arrives depends on who is linked to whom: it is so in the situations that are
  run, and not in every peers file. A proof would have to say which files connect, and follow each copy along its way.
- `MembersAgree` of Group. That all lists agree at rest needs a history of every change and of whom it has
  reached; the invariant above has only what each key and the role need.

## The plan

Written in this order, the most important behaviour first: delivery by the relay; the connection and the
queue in front of it; addresses; keys; ratchet; sessions; then the message store, the federation, the directory,
the archive, groups, devices, and the LAN with the copies it brings. That is done. Left:

1. Proofs: MembersAgree of Group; PacketsArrive of Federation, from an assumption on its topology.
2. A composition of Session, Outbox and Relay for one conversation, end to end: an accepted
   message is read, or one of the known losses occurred.
3. The hand-over of the active device, and the merging of device lists from an archive (Devices).

## Not modelled

- Ciphers, hashes and byte formats are taken as perfect and injective; a write is
  durable when its promise settles.
- Push delivery, media bodies, the command line and the applications are input and output. Most
  lines of the repository are of these: user interfaces, a video, a site.
- `WebSocketTransport` is never connected: the negotiator keeps one transport per type, and the node's or browser's takes
  its place. No platform provides a peer-to-peer bridge. The local store is never emptied toward a
  recipient, because its peers are listed under the LAN's anonymous ids (`sdk/index.ts:2796`); the proximity table is never filled, so the router
  knows no next hop; the reciprocity ledger decides only on that path. Nothing that works is left to check there.
- Cluster, chaff, sybil resistance and compliance, which the documentation calls scaffolded.
- Several accounts on one device, reactions, texts and relay trees of groups.
- Clock skew between devices, but for ArchiveSync.
