-------------------------------- MODULE Opk ---------------------------------
(***************************************************************************)
(* The one-time prekeys of one device: its pool in memory and on disk, the *)
(* public halves at the relay, the peers that claim them, and the          *)
(* handshakes that use them up.  The device may crash between any two      *)
(* writes, and no upload is acknowledged.                                  *)
(*                                                                         *)
(* A peer that claimed a key computes its secret with it (4-DH); the       *)
(* device answers with the same secret only if it still has the key, and   *)
(* otherwise, without notice, with another one (3-DH).                     *)
(***************************************************************************)
EXTENDS Naturals, FiniteSets

CONSTANTS
    POOL_SIZE,       \* OPK_POOL_SIZE
    LOW_WATERMARK,   \* OPK_LOW_WATERMARK
    MAX_AT_RELAY,    \* MAX_OPKS_PER_IDENTITY
    Legacy,          \* keys the relay holds from before, which the device lacks
    Old,             \* keys 0..Old-1: the pool of a version before the migration
    CrashesEarly,    \* may the device crash before its migration is done?
    None,            \* the key of a handshake when the relay had none
    MaxKey,          \* bound: the keys 0..MaxKey are generated at most
    MaxHandshakes,   \* bound: handshakes of a behaviour
    MaxCopies,       \* bound: handshakes that are delivered again
    MaxCrashes       \* bound: crashes of a behaviour

ASSUME ConstantsAssumption ==
    /\ {POOL_SIZE, LOW_WATERMARK, MAX_AT_RELAY, Old} \subseteq Nat
    /\ {MaxKey, MaxHandshakes, MaxCopies, MaxCrashes} \subseteq Nat
    /\ LOW_WATERMARK <= POOL_SIZE
    /\ CrashesEarly \in BOOLEAN
    /\ Legacy \cap Nat = {}
    /\ None \notin Nat \cup Legacy

VARIABLES
    phase,       \* where the device is: down, in initOPKPool, or up
    pool,        \* opkPool, in memory
    disk,        \* opks/ in storage
    migrated,    \* opk_migration_v2_done in storage
    batch,       \* what initOPKPool has to upload
    refills,     \* the calls of replenishOPKPool under way
    deletes,     \* deletions of storage under way
    seen,        \* seenInboundPackets: the handshakes of late
    crashes,
    nextKey,     \* the next key generated
    uploads,     \* POST /opks under way
    relay,       \* the relay's rows for this device
    flight,      \* x3dh_init packets that have not arrived
    claims,      \* history: every handshake, with the key it claimed
    copies,      \* history: the handshakes that were delivered twice
    offered,     \* history: the keys ever put in an upload
    answered,    \* history: the handshakes answered with the key they claimed
    broken       \* history: those answered without it

device  == <<phase, pool, disk, migrated, batch, refills, deletes, seen, crashes, nextKey>>
history == <<claims, copies, offered, answered, broken>>
vars    == <<device, uploads, relay, flight, history>>

Phases == {"down", "loading", "purging", "sending", "flagging", "up"}
Key    == Nat \cup Legacy

\* A handshake: its number and the key it claimed.
Handshake == [n : Nat, key : Key \cup {None}]

\* replenishOPKPool under way: its keys, and those that are not stored yet.
Refill == [keys : SUBSET Nat, todo : SUBSET Nat]

\* The smallest key of a set: the one a loop has come to.
First(keys) == {k \in keys : \A j \in keys : k <= j}

-----------------------------------------------------------------------------
(* The device: initOPKPool *)

\* The pool of an earlier version is in storage and at the relay, which may hold
\* zombies as well.  Without such a pool the device is new, and may also be one
\* that did the migration before.
Init ==
    /\ phase = "down" /\ pool = {} /\ disk = 0..(Old - 1)
    /\ migrated \in {FALSE, Old = 0}
    /\ batch = {} /\ refills = {} /\ deletes = {} /\ seen = {}
    /\ crashes = 0 /\ nextKey = Old
    /\ uploads = {} /\ relay = disk \cup (IF migrated THEN {} ELSE Legacy) /\ flight = {}
    /\ claims = {} /\ copies = {} /\ offered = disk /\ answered = {} /\ broken = {}

\* The keys in storage are read.
Load ==
    /\ phase = "down"
    /\ phase' = "loading"
    /\ pool' = disk
    /\ UNCHANGED <<disk, migrated, batch, refills, deletes, seen, crashes, nextKey,
                   uploads, relay, flight, history>>

\* The pool is short of a key: one is made and stored, to be uploaded later.
Generate ==
    /\ phase = "loading" /\ Cardinality(pool) < POOL_SIZE /\ nextKey <= MaxKey
    /\ nextKey' = nextKey + 1
    /\ pool' = pool \cup {nextKey}
    /\ disk' = disk \cup {nextKey}
    /\ batch' = batch \cup {nextKey}
    /\ UNCHANGED <<phase, migrated, refills, deletes, seen, crashes,
                   uploads, relay, flight, history>>

\* Mutant of Loaded: the whole pool is uploaded on every start.
LoadedUploadsAll ==
    /\ phase = "loading" /\ Cardinality(pool) >= POOL_SIZE
    /\ batch' = pool
    /\ phase' = IF migrated THEN "sending" ELSE "purging"
    /\ UNCHANGED <<pool, disk, migrated, refills, deletes, seen, crashes, nextKey,
                   uploads, relay, flight, history>>

\* The pool is full.  The migration uploads all of it, a later start what is new.
Loaded ==
    /\ phase = "loading" /\ Cardinality(pool) >= POOL_SIZE
    /\ batch' = IF migrated THEN batch ELSE pool
    /\ phase' = IF ~migrated THEN "purging" ELSE IF batch # {} THEN "sending" ELSE "up"
    /\ UNCHANGED <<pool, disk, migrated, refills, deletes, seen, crashes, nextKey,
                   uploads, relay, flight, history>>

\* DELETE /opks.  It may fail, which is not looked at.
purgeRelayOPKPool ==
    /\ phase = "purging"
    /\ phase' = "sending"
    /\ relay' \in {relay, {}}
    /\ UNCHANGED <<pool, disk, migrated, batch, refills, deletes, seen, crashes, nextKey,
                   uploads, flight, history>>

\* POST /opks is sent.
uploadOPKs(keys) ==
    /\ uploads' = uploads \cup {keys}
    /\ offered' = offered \cup keys

InitUpload ==
    /\ phase = "sending"
    /\ phase' = "flagging"
    /\ uploadOPKs(batch)
    /\ UNCHANGED <<pool, disk, migrated, batch, refills, deletes, seen, crashes, nextKey,
                   relay, flight, claims, copies, answered, broken>>

\* The upload was answered or failed, which is not looked at.
InitDone ==
    /\ phase = "flagging" /\ batch \notin uploads
    /\ phase' = "up"
    /\ migrated' = TRUE
    /\ batch' = {}
    /\ UNCHANGED <<pool, disk, refills, deletes, seen, crashes, nextKey,
                   uploads, relay, flight, history>>

-----------------------------------------------------------------------------
(* The device: handshakes *)

\* replenishOPKPool up to its first await, from the pool p: a low pool is filled
\* up, and the first of the new keys is in memory.
replenishOPKPool(p) ==
    LET needed == POOL_SIZE - Cardinality(p)
        keys   == nextKey..(nextKey + needed - 1)
    IN  IF Cardinality(p) >= LOW_WATERMARK \/ nextKey + needed > MaxKey + 1
        THEN pool' = p /\ UNCHANGED <<refills, nextKey>>
        ELSE /\ pool' = p \cup First(keys)
             /\ refills' = refills \cup {[keys |-> keys, todo |-> keys]}
             /\ nextKey' = nextKey + needed

\* An x3dh_init arrives, and is dropped if it was seen of late.  Its key is looked
\* up and used up in one step, and deleted from storage later; without it, the
\* shared secret is computed without it.  Packets are sent over a local bearer and
\* the relay alike: a copy may be still on its way.
completeIncomingHandshake(h) ==
    /\ phase = "up" /\ h \in flight
    /\ \/ flight' = flight \ {h} /\ UNCHANGED copies
       \/ /\ h \notin copies /\ Cardinality(copies) < MaxCopies
          /\ copies' = copies \cup {h}
          /\ UNCHANGED flight
    /\ seen' = seen \cup {h}
    /\ IF h \in seen
       THEN UNCHANGED <<pool, deletes, refills, nextKey, answered, broken>>
       ELSE IF h.key \in pool
       THEN /\ replenishOPKPool(pool \ {h.key})
            /\ deletes' = deletes \cup {h.key}
            /\ answered' = answered \cup {h}
            /\ UNCHANGED broken
       ELSE /\ broken' = IF h.key = None THEN broken ELSE broken \cup {h}
            /\ UNCHANGED <<pool, deletes, refills, nextKey, answered>>
    /\ UNCHANGED <<phase, disk, migrated, batch, crashes, uploads, relay, claims, offered>>

\* SEEN_INBOUND_TTL_MS has passed.
ForgetSeen(h) ==
    /\ h \in seen
    /\ seen' = seen \ {h}
    /\ UNCHANGED <<phase, pool, disk, migrated, batch, refills, deletes, crashes, nextKey,
                   uploads, relay, flight, history>>

Delete(k) ==
    /\ k \in deletes
    /\ deletes' = deletes \ {k}
    /\ disk' = disk \ {k}
    /\ UNCHANGED <<phase, pool, migrated, batch, refills, seen, crashes, nextKey,
                   uploads, relay, flight, history>>

\* Mutant of RefillStep: the keys are uploaded first.
RefillUploadsFirst(r) ==
    /\ r \in refills
    /\ IF r.todo = r.keys THEN uploadOPKs(r.keys) ELSE UNCHANGED <<uploads, offered>>
    /\ disk' = disk \cup First(r.todo)
    /\ LET rest == r.todo \ First(r.todo)
       IN  /\ pool' = pool \cup First(rest)
           /\ refills' = (refills \ {r}) \cup (IF rest = {} THEN {} ELSE {[r EXCEPT !.todo = rest]})
    /\ UNCHANGED <<phase, migrated, batch, deletes, seen, crashes, nextKey,
                   relay, flight, claims, copies, answered, broken>>

\* replenishOPKPool goes on: a key is stored and the next one is put in memory;
\* once all are stored, they are uploaded.
RefillStep(r) ==
    /\ r \in refills
    /\ IF r.todo = {}
       THEN /\ refills' = refills \ {r}
            /\ uploadOPKs(r.keys)
            /\ UNCHANGED <<pool, disk>>
       ELSE LET rest == r.todo \ First(r.todo)
            IN  /\ disk' = disk \cup First(r.todo)
                /\ pool' = pool \cup First(rest)
                /\ refills' = (refills \ {r}) \cup {[r EXCEPT !.todo = rest]}
                /\ UNCHANGED <<uploads, offered>>
    /\ UNCHANGED <<phase, migrated, batch, deletes, seen, crashes, nextKey,
                   relay, flight, claims, copies, answered, broken>>

\* Memory is lost; storage, requests under way and the relay's rows are not.
Crash ==
    /\ phase # "down" /\ crashes < MaxCrashes
    /\ migrated \/ CrashesEarly
    /\ crashes' = crashes + 1
    /\ phase' = "down"
    /\ pool' = {} /\ batch' = {} /\ refills' = {} /\ deletes' = {} /\ seen' = {}
    /\ UNCHANGED <<disk, migrated, nextKey, uploads, relay, flight, history>>

-----------------------------------------------------------------------------
(* The relay and the peers *)

\* The keys of an upload the identity has room for: the first ones.
canStore(keys) ==
    {k \in keys : Cardinality({j \in keys : j < k}) + Cardinality(relay) < MAX_AT_RELAY}

\* POST /opks.
StoreOpks(keys) ==
    /\ keys \in uploads
    /\ uploads' = uploads \ {keys}
    /\ relay' = relay \cup canStore(keys)
    /\ UNCHANGED <<device, flight, history>>

\* The upload fails.
UploadLost(keys) ==
    /\ keys \in uploads
    /\ uploads' = uploads \ {keys}
    /\ UNCHANGED <<device, relay, flight, history>>

\* The handshake that claims k next.
Claim(k) == [n |-> Cardinality(claims), key |-> k]

\* Mutant of claimOpk: the row is selected and not deleted.
claimOpkKeepsRow(k) ==
    /\ Cardinality(claims) < MaxHandshakes
    /\ IF k = None THEN relay = {} ELSE k \in relay
    /\ claims' = claims \cup {Claim(k)}
    /\ flight' = flight \cup {Claim(k)}
    /\ UNCHANGED <<device, uploads, relay, copies, offered, answered, broken>>

\* GET /opks/claim, one transaction, and the x3dh_init of the peer that made it.
claimOpk(k) ==
    /\ Cardinality(claims) < MaxHandshakes
    /\ IF k = None THEN relay = {} ELSE k \in relay
    /\ relay' = relay \ {k}
    /\ claims' = claims \cup {Claim(k)}
    /\ flight' = flight \cup {Claim(k)}
    /\ UNCHANGED <<device, uploads, copies, offered, answered, broken>>

Next ==
    \/ Load \/ Generate \/ Loaded \/ purgeRelayOPKPool \/ InitUpload \/ InitDone \/ Crash
    \/ \E h \in flight : completeIncomingHandshake(h)
    \/ \E h \in seen : ForgetSeen(h)
    \/ \E k \in deletes : Delete(k)
    \/ \E r \in refills : RefillStep(r)
    \/ \E keys \in uploads : StoreOpks(keys) \/ UploadLost(keys)
    \/ \E k \in relay \cup {None} : claimOpk(k)

Spec == Init /\ [][Next]_vars

-----------------------------------------------------------------------------
(* Properties *)

\* The variables keep their types; no key is used that was not generated.
TypeOK ==
    /\ phase \in Phases
    /\ migrated \in BOOLEAN
    /\ {nextKey, crashes} \subseteq Nat
    /\ pool \cup disk \cup batch \cup offered \cup deletes \subseteq 0..(nextKey - 1)
    /\ refills \subseteq [keys : SUBSET (0..(nextKey - 1)), todo : SUBSET (0..(nextKey - 1))]
    /\ uploads \subseteq SUBSET (0..(nextKey - 1))
    /\ relay \subseteq 0..(nextKey - 1) \cup Legacy
    /\ claims \subseteq Handshake
    /\ flight \cup copies \cup seen \cup answered \cup broken \subseteq claims

\* The keys peers can still ask the device for, but the legacy ones: at the relay,
\* on their way there, or in a handshake that is not answered.
Claimable ==
    relay \cup (UNION uploads) \cup {h.key : h \in flight \ answered}

\* "Relay must not know about OPKs that aren't yet durable on disk": every key a
\* peer can hold the device to is in storage, and no deletion of it is under way.
\* It relates the relay, the uploads, the packets on their way and the storage of
\* a device that may crash at any step.
RelayIsDurable ==
    Claimable \ (Legacy \cup {None}) \subseteq disk \ deletes

\* A handshake is answered without the key it claimed only if it was answered with
\* it before, or if the key is one of the zombies of an earlier version.
FirstUseAgrees ==
    \A h \in broken : h \in answered \/ h.key \in Legacy

\* No two handshakes claim the same key: claimOpkTx, the deltas that are uploaded
\* and the order of a refill together see to it.
ClaimedOnce ==
    \A g, h \in claims : g.key = h.key /\ g.key # None => g = h

\* What the comment on completeIncomingHandshake says, that the dedup layer keeps
\* a repeated x3dh_init away: every handshake agrees on its key.
EveryHandshakeAgrees ==
    \A h \in broken : h.key \in Legacy

\* What the comment on the migration says: once its flag is set, the relay has
\* only what the device has.
MigrationSyncs ==
    migrated => relay \subseteq disk

\* What the comment on initOPKPool says: after it, the full pool has been uploaded
\* (or is about to be, by a refill).
FullPoolUploaded ==
    phase = "up" => pool \subseteq offered \cup UNION {r.keys : r \in refills}

=============================================================================
