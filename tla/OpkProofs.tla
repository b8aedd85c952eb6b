----------------------------- MODULE OpkProofs ------------------------------
(***************************************************************************)
(* Proofs about a handshake.  The one-time prekeys: types, and, for a      *)
(* device that did the migration before, the agreement of device, storage  *)
(* and relay.  The sessions: types, and that handshakes that get through   *)
(* and do not cross leave both devices with one session they can send      *)
(* with.  The devices of an account: what PermissionManager keeps holds    *)
(* together, and the announcement made last stands.                        *)
(***************************************************************************)
EXTENDS Handshake, Sequences, FiniteSetTheorems, SequenceTheorems,
        WellFoundedInduction, TLAPS

-----------------------------------------------------------------------------
(* Types *)

\* Claims are numbered by how many there are: they are finite.
TInv == TypeOK /\ IsFiniteSet(claims)

\* A set of keys generated so far is finite.
LEMMA KeysFinite ==
    ASSUME NEW n \in Nat, NEW I \in SUBSET (0..(n - 1))
    PROVE  IsFiniteSet(I) /\ Cardinality(I) \in Nat
<1>1. IsFiniteSet(0..(n - 1))
  BY FS_Interval, 0 \in Int, n - 1 \in Int
<1>2. IsFiniteSet(I)
  BY <1>1, FS_Subset
<1> QED
  BY <1>2, FS_CardinalityType

\* The keys of m hold those of n, and those from n on.
LEMMA KeysGrow ==
    ASSUME NEW n \in Nat, NEW m \in Nat, n <= m
    PROVE  /\ 0..(n - 1) \subseteq 0..(m - 1) /\ n..(m - 1) \subseteq 0..(m - 1)
           /\ \A k \in n..(m - 1) : k \notin 0..(n - 1)
  OBVIOUS

\* replenishOPKPool: what it returns to, for a pool of generated keys.
LEMMA ReplenishTypes ==
    ASSUME TypeOK, NEW p, p \subseteq 0..(nextKey - 1), replenishOPKPool(p)
    PROVE  /\ nextKey' \in Nat /\ nextKey <= nextKey'
           /\ pool' \subseteq 0..(nextKey' - 1) /\ p \subseteq pool'
           /\ refills' \subseteq refills \cup
                [keys : SUBSET (nextKey..(nextKey' - 1)), todo : SUBSET (nextKey..(nextKey' - 1))]
           /\ \A r \in refills' : r \in refills \/ (r.keys = r.todo /\ First(r.todo) \subseteq pool')
           /\ refills \subseteq refills'
           /\ \A r, q \in refills' : r \in refills \/ q \in refills \/ r = q
<1> DEFINE needed == POOL_SIZE - Cardinality(p)
           keys == nextKey..(nextKey + needed - 1)
<1>1. Cardinality(p) \in Nat /\ nextKey \in Nat
  BY KeysFinite DEF TypeOK
<1>2. POOL_SIZE \in Nat /\ LOW_WATERMARK \in Nat /\ LOW_WATERMARK <= POOL_SIZE /\ MaxKey \in Nat
  BY ConstantsAssumption
<1>3. CASE pool' = p /\ UNCHANGED <<refills, nextKey>>
  BY <1>1, <1>3
<1>4. CASE /\ Cardinality(p) < LOW_WATERMARK
           /\ pool' = p \cup First(keys)
           /\ refills' = refills \cup {[keys |-> keys, todo |-> keys]}
           /\ nextKey' = nextKey + needed
  <2>1. needed \in Nat
    BY <1>1, <1>2, <1>4
  <2>2. nextKey' \in Nat /\ nextKey <= nextKey' /\ keys = nextKey..(nextKey' - 1)
    BY <2>1, <1>1, <1>4
  <2> HIDE DEF needed, keys
  <2>3. First(keys) \subseteq keys
    BY DEF First
  <2>4. keys \subseteq 0..(nextKey' - 1) /\ p \subseteq 0..(nextKey' - 1)
    BY <2>2, <1>1, KeysGrow
  <2> QED
    <3>1. pool' \subseteq 0..(nextKey' - 1) /\ p \subseteq pool'
      BY <2>3, <2>4, <1>4
    <3>2. [keys |-> keys, todo |-> keys] \in
            [keys : SUBSET (nextKey..(nextKey' - 1)), todo : SUBSET (nextKey..(nextKey' - 1))]
      BY <2>2
    <3>3. \A r \in refills' : r \in refills \/ r = [keys |-> keys, todo |-> keys]
      BY <1>4
    <3>4. \A r \in refills' : r \in refills \/ (r.keys = r.todo /\ First(r.todo) \subseteq pool')
      <4>1. First(keys) \subseteq pool'
        BY <1>4
      <4> QED  BY <4>1, <3>3
    <3>5. refills' = refills \cup {[keys |-> keys, todo |-> keys]}
      BY <1>4
    <3>6. refills' \subseteq refills \cup
            [keys : SUBSET (nextKey..(nextKey' - 1)), todo : SUBSET (nextKey..(nextKey' - 1))]
      BY <3>2, <3>5
    <3> QED
      BY <2>2, <3>1, <3>3, <3>4, <3>5, <3>6
<1>5. ~(Cardinality(p) >= LOW_WATERMARK) => Cardinality(p) < LOW_WATERMARK
  BY <1>1, <1>2
<1> QED
  BY <1>3, <1>4, <1>5 DEF replenishOPKPool

\* Every step keeps the types.
LEMMA TypesInductive ==
    TInv /\ [Next]_vars => TInv'
<1> SUFFICES ASSUME TInv, [Next]_vars
             PROVE  TInv'
  OBVIOUS
<1> DEFINE K == 0..(nextKey - 1)
<1>n. nextKey \in Nat
  BY DEF TInv, TypeOK
<1>1. CASE Load
  BY <1>1 DEF TInv, TypeOK, Load, history, Phases
<1>2. CASE Generate
  <2>1. nextKey' = nextKey + 1 /\ nextKey' \in Nat /\ nextKey \in 0..(nextKey' - 1)
    BY <1>2, <1>n DEF Generate
  <2>2. K \subseteq 0..(nextKey' - 1)
    BY <2>1, <1>n, KeysGrow
  <2> DEFINE K2 == 0..(nextKey' - 1)
  <2>3. SUBSET K \subseteq SUBSET K2
    BY <2>2
  <2>4. [keys : SUBSET K, todo : SUBSET K] \subseteq [keys : SUBSET K2, todo : SUBSET K2]
    BY <2>3
  <2> HIDE DEF K, K2
  <2>5. {nextKey', crashes'} \subseteq Nat
    BY <2>1, <1>2 DEF Generate, TInv, TypeOK
  <2>6. pool \cup disk \cup batch \cup offered \cup deletes \subseteq K /\ nextKey \in K2
    BY <2>1 DEF TInv, TypeOK, K, K2
  <2>7. pool' \cup disk' \cup batch' \cup offered' \cup deletes' \subseteq K2
    BY <2>2, <2>6, <1>2 DEF Generate, history, K2
  <2>8. refills' \subseteq [keys : SUBSET K2, todo : SUBSET K2]
    BY <2>4, <1>2 DEF Generate, TInv, TypeOK, K
  <2>9. uploads' \subseteq SUBSET K2 /\ relay' \subseteq K2 \cup Legacy
    BY <2>2, <2>3, <1>2 DEF Generate, TInv, TypeOK, K, K2
  <2> QED
    BY <2>5, <2>7, <2>8, <2>9, <1>2 DEF Generate, TInv, TypeOK, history, K2, Phases
<1>3. CASE Loaded
  BY <1>3 DEF TInv, TypeOK, Loaded, history, Phases
<1>4. CASE purgeRelayOPKPool
  BY <1>4 DEF TInv, TypeOK, purgeRelayOPKPool, history, Phases
<1>5. CASE InitUpload
  <2>1. batch \subseteq K
    BY DEF TInv, TypeOK
  <2>2. uploads' = uploads \cup {batch} /\ offered' = offered \cup batch
    BY <1>5 DEF InitUpload, uploadOPKs
  <2>3. /\ phase' = "flagging"
        /\ UNCHANGED <<pool, disk, migrated, batch, refills, deletes, seen, crashes, nextKey,
                       relay, flight, claims, copies, answered, broken>>
    BY <1>5 DEF InitUpload
  <2> QED
    BY <2>1, <2>2, <2>3 DEF TInv, TypeOK, Phases
<1>6. CASE InitDone
  BY <1>6 DEF TInv, TypeOK, InitDone, history, Phases
<1>7. CASE Crash
  <2>1. crashes' \in Nat
    BY <1>7 DEF TInv, TypeOK, Crash
  <2> QED
    BY <2>1, <1>7 DEF TInv, TypeOK, Crash, history, Phases
<1>8. ASSUME NEW h \in flight, completeIncomingHandshake(h)
      PROVE  TInv'
  <2>1. /\ flight' \subseteq flight /\ copies' \subseteq copies \cup {h} /\ seen' = seen \cup {h}
        /\ answered' \subseteq answered \cup {h} /\ broken' \subseteq broken \cup {h}
        /\ claims' = claims /\ h \in claims
        /\ UNCHANGED <<phase, disk, migrated, batch, crashes, uploads, relay, offered>>
    BY <1>8 DEF completeIncomingHandshake, TInv, TypeOK
  <2>2. flight' \cup copies' \cup seen' \cup answered' \cup broken' \subseteq claims'
    BY <2>1 DEF TInv, TypeOK
  <2>3. CASE UNCHANGED <<pool, deletes, refills, nextKey>>
    BY <2>1, <2>2, <2>3 DEF TInv, TypeOK
  <2>4. CASE /\ h.key \in pool /\ deletes' = deletes \cup {h.key}
             /\ replenishOPKPool(pool \ {h.key})
    <3> DEFINE K2 == 0..(nextKey' - 1)
    <3>1. pool \ {h.key} \subseteq K
      BY DEF TInv, TypeOK
    <3>2. /\ nextKey' \in Nat /\ nextKey <= nextKey' /\ pool' \subseteq K2
          /\ refills' \subseteq refills \cup
                [keys : SUBSET (nextKey..(nextKey' - 1)), todo : SUBSET (nextKey..(nextKey' - 1))]
      BY <2>4, <3>1, ReplenishTypes DEF TInv
    <3>3. K \subseteq K2 /\ nextKey..(nextKey' - 1) \subseteq K2
      BY <3>2, <1>n, KeysGrow
    <3> DEFINE R(I) == [keys : SUBSET I, todo : SUBSET I]
    <3>4. R(K) \subseteq R(K2) /\ R(nextKey..(nextKey' - 1)) \subseteq R(K2)
      <4>1. SUBSET K \subseteq SUBSET K2 /\ SUBSET (nextKey..(nextKey' - 1)) \subseteq SUBSET K2
        BY <3>3
      <4> QED  BY <4>1
    <3>5. refills' \subseteq R(K2)
      BY <3>2, <3>4 DEF TInv, TypeOK
    <3> HIDE DEF K, K2
    <3>6. pool' \cup disk' \cup batch' \cup offered' \cup deletes' \subseteq K2
      <4>1. pool \cup disk \cup batch \cup offered \cup deletes \subseteq K
        BY DEF TInv, TypeOK, K
      <4> QED  BY <4>1, <3>2, <3>3, <2>1, <2>4 DEF history
    <3>7. uploads' \subseteq SUBSET K2 /\ relay' \subseteq K2 \cup Legacy
      BY <3>3, <2>1 DEF TInv, TypeOK, K
    <3>8. {nextKey', crashes'} \subseteq Nat
      BY <3>2, <2>1 DEF TInv, TypeOK
    <3> QED
      BY <3>5, <3>6, <3>7, <3>8, <2>1, <2>2 DEF TInv, TypeOK, K2
  <2> QED
    BY <2>3, <2>4, <1>8 DEF completeIncomingHandshake
<1>9. ASSUME NEW h \in seen, ForgetSeen(h)
      PROVE  TInv'
  BY <1>9 DEF TInv, TypeOK, ForgetSeen, history
<1>10. ASSUME NEW k \in deletes, Delete(k)
       PROVE  TInv'
  BY <1>10 DEF TInv, TypeOK, Delete, history
<1>11. ASSUME NEW r \in refills, RefillStep(r)
       PROVE  TInv'
  <2> HIDE DEF K
  <2>1. r.keys \subseteq K /\ r.todo \subseteq K /\ r \in [keys : SUBSET K, todo : SUBSET K]
    BY DEF TInv, TypeOK, K
  <2>2. CASE r.todo = {}
    BY <2>1, <2>2, <1>11 DEF TInv, TypeOK, RefillStep, uploadOPKs, K
  <2>3. CASE r.todo # {}
    <3> DEFINE rest == r.todo \ First(r.todo)
    <3>1. First(r.todo) \subseteq K /\ First(rest) \subseteq K /\ rest \subseteq K
      BY <2>1 DEF First
    <3>2. [r EXCEPT !.todo = rest] \in [keys : SUBSET K, todo : SUBSET K]
      BY <2>1, <3>1
    <3> HIDE DEF rest
    <3>3. /\ disk' = disk \cup First(r.todo) /\ pool' = pool \cup First(rest)
          /\ refills' = (refills \ {r}) \cup {[r EXCEPT !.todo = rest]}
          /\ UNCHANGED <<phase, migrated, batch, deletes, seen, crashes, nextKey, uploads, offered,
                         relay, flight, claims, copies, answered, broken>>
      BY <1>11, <2>3 DEF RefillStep, rest
    <3> QED
      BY <3>1, <3>2, <3>3 DEF TInv, TypeOK, K
  <2> QED
    BY <2>2, <2>3
<1>12. ASSUME NEW keys \in uploads, StoreOpks(keys) \/ UploadLost(keys)
       PROVE  TInv'
  BY <1>12 DEF TInv, TypeOK, StoreOpks, UploadLost, canStore, device, history
<1>13. ASSUME NEW k \in relay \cup {None}, claimOpk(k)
       PROVE  TInv'
  <2>1. Claim(k) \in Handshake
    <3>1. Cardinality(claims) \in Nat
      BY FS_CardinalityType DEF TInv
    <3>2. k \in Key \cup {None}
      BY <1>n DEF TInv, TypeOK, Key
    <3> QED
      BY <3>1, <3>2 DEF Claim, Handshake
  <2>2. IsFiniteSet(claims \cup {Claim(k)})
    BY FS_AddElement DEF TInv
  <2> QED
    BY <2>1, <2>2, <1>13 DEF TInv, TypeOK, claimOpk, device
<1>14. CASE UNCHANGED vars
  BY <1>14 DEF TInv, TypeOK, vars, device, history
<1> QED
  BY <1>1, <1>2, <1>3, <1>4, <1>5, <1>6, <1>7, <1>8, <1>9, <1>10, <1>11, <1>12, <1>13, <1>14
  DEF Next

\* The types hold before the first start.
LEMMA TypesInitially == Init => TInv
<1> SUFFICES ASSUME Init
             PROVE  TInv
  OBVIOUS
<1>1. Old \in Nat
  BY ConstantsAssumption
<1>2. disk = 0..(Old - 1) /\ nextKey = Old /\ migrated \in BOOLEAN
  BY DEF Init
<1>3. {nextKey, crashes} \subseteq Nat
  BY <1>1 DEF Init
<1>4. pool \cup disk \cup batch \cup offered \cup deletes \subseteq 0..(nextKey - 1)
  BY <1>2 DEF Init
<1>5. relay \subseteq 0..(nextKey - 1) \cup Legacy
  BY <1>2 DEF Init
<1>6. IsFiniteSet(claims)
  BY FS_EmptySet DEF Init
<1> QED
  BY <1>2, <1>3, <1>4, <1>5, <1>6 DEF Init, TInv, TypeOK, Phases

\* The variables of Opk keep their types: every key in use was generated, and the
\* handshakes answered or not are some of those that were begun.
THEOREM TypeCorrectness == Spec => []TypeOK
<1>1. Spec => []TInv
  BY TypesInitially, TypesInductive, PTL DEF Spec
<1>2. TInv => TypeOK
  BY DEF TInv
<1> QED
  BY <1>1, <1>2, PTL

-----------------------------------------------------------------------------
(* Agreement *)

\* No pool of an earlier version, and no crash before the migration is done.
CleanStart == Old = 0 /\ ~CrashesEarly

\* Until the migration is done nothing was uploaded but by its last step.
Early ==
    /\ ~migrated => phase # "up" /\ (phase # "flagging" => offered = {})
    /\ phase # "up" => refills = {} /\ deletes = {}
    /\ phase \in {"down", "up"} => batch = {}

\* What is not deleted from storage is in memory; what is being loaded is stored.
Durable ==
    /\ phase # "down" => disk \ deletes \subseteq pool
    /\ phase = "loading" => pool \subseteq disk
    /\ deletes \subseteq offered

\* Keys that are still to be uploaded were never offered.  They are stored before.
Fresh ==
    /\ phase \in {"loading", "purging", "sending"} =>
           \A k \in batch : k \notin offered /\ k \in disk
    /\ \A r \in refills :
          /\ First(r.todo) \subseteq pool
          /\ \A k \in r.keys : k \notin offered /\ (k \in r.todo \/ k \in disk)
    /\ \A r, q \in refills : \A k \in r.keys : k \in q.keys => r = q

\* A key somebody may hold the device to: stored, and not being deleted.
Kept(k) == k \in offered /\ k \in disk /\ k \notin deletes

\* Every offered key is in one place: an upload, the relay or one handshake.
OnePlace ==
    /\ \A k \in relay : k \in Legacy \/ Kept(k)
    /\ \A u \in uploads : \A k \in u : Kept(k) /\ k \notin relay
    /\ \A u, v \in uploads : \A k \in u : k \in v => u = v
    /\ \A h \in flight \ answered : h.key \in Legacy \cup {None} \/ Kept(h.key)
    /\ \A h \in claims :
          \/ h.key = None
          \/ /\ h.key \in offered \cup Legacy /\ h.key \notin relay
             /\ \A u \in uploads : h.key \notin u
    /\ ClaimedOnce

\* What the types say of the numbers, apart from which keys they are.
LEMMA Numbers ==
    ASSUME TypeOK
    PROVE  /\ nextKey \in Nat /\ nextKey \notin pool \cup disk \cup batch \cup offered
           /\ pool \cup disk \cup batch \cup offered \cup deletes \subseteq Nat
           /\ (pool \cup disk \cup batch \cup offered) \cap Legacy = {}
           /\ None \notin pool \cup disk \cup batch \cup offered \cup relay \cup Legacy
           /\ \A r \in refills : /\ r.keys \subseteq Nat /\ r.todo \subseteq Nat
                                 /\ r.keys \cap Legacy = {} /\ None \notin r.keys
                                 /\ r = [keys |-> r.keys, todo |-> r.todo]
           /\ None \notin Nat /\ \A u \in uploads : u \subseteq Nat
           /\ flight \subseteq claims
<1>1. Legacy \cap Nat = {} /\ None \notin Nat /\ None \notin Legacy
  BY ConstantsAssumption
<1>2. 0..(nextKey - 1) \subseteq Nat /\ nextKey \in Nat /\ nextKey \notin 0..(nextKey - 1)
  BY DEF TypeOK
<1> DEFINE K == 0..(nextKey - 1)
<1>3. pool \cup disk \cup batch \cup offered \cup deletes \subseteq K
  BY DEF TypeOK
<1>4. relay \subseteq K \cup Legacy
  BY DEF TypeOK
<1>5. refills \subseteq [keys : SUBSET K, todo : SUBSET K] /\ uploads \subseteq SUBSET K
  BY DEF TypeOK
<1> HIDE DEF K
<1>6. K \subseteq Nat /\ nextKey \notin K
  BY <1>2 DEF K
<1>7. flight \subseteq claims
  BY DEF TypeOK
<1> QED
  <2>1. \A r \in refills : /\ r.keys \subseteq K /\ r.todo \subseteq K
                          /\ r = [keys |-> r.keys, todo |-> r.todo]
    BY <1>5
  <2>2. \A r \in refills : /\ r.keys \subseteq Nat /\ r.todo \subseteq Nat
                          /\ r.keys \cap Legacy = {} /\ None \notin r.keys
    BY <2>1, <1>1, <1>6
  <2>3. \A u \in uploads : u \subseteq Nat
    BY <1>5, <1>6
  <2>4. /\ nextKey \notin pool \cup disk \cup batch \cup offered
        /\ pool \cup disk \cup batch \cup offered \cup deletes \subseteq Nat
    BY <1>3, <1>6
  <2>5. /\ (pool \cup disk \cup batch \cup offered) \cap Legacy = {}
        /\ None \notin pool \cup disk \cup batch \cup offered \cup relay \cup Legacy
    BY <1>1, <1>4, <1>6, <2>4
  <2> QED
    BY <1>1, <1>2, <1>7, <2>1, <2>2, <2>3, <2>4, <2>5

\* What a refill has yet to store are keys of it.
TodoInKeys == \A r \in refills : r.todo \subseteq r.keys

\* With TInv, the inductive invariant.
Rest == Early /\ Durable /\ Fresh /\ OnePlace /\ TodoInKeys /\ FirstUseAgrees

\* Every step keeps the agreement of device, storage and relay.
LEMMA AgreementInductive ==
    ASSUME CleanStart, TInv, Rest, [Next]_vars
    PROVE  Rest'
<1>t. TypeOK
  BY DEF TInv
<1>1. CASE Load
  BY <1>1, <1>t, Numbers DEF Load, Rest, Early, Durable, Fresh, OnePlace, Kept, ClaimedOnce, FirstUseAgrees, TodoInKeys, history
<1>2. CASE Generate
  BY <1>2, <1>t, Numbers DEF Generate, Rest, Early, Durable, Fresh, OnePlace, Kept, ClaimedOnce, FirstUseAgrees, TodoInKeys, history
<1>3. CASE Loaded
  BY <1>3, <1>t, Numbers DEF Loaded, Rest, Early, Durable, Fresh, OnePlace, Kept, ClaimedOnce, FirstUseAgrees, TodoInKeys, history
<1>4. CASE purgeRelayOPKPool
  BY <1>4, <1>t, Numbers DEF purgeRelayOPKPool, Rest, Early, Durable, Fresh, OnePlace, Kept, ClaimedOnce, FirstUseAgrees, TodoInKeys, history
<1>5. CASE InitUpload
  BY <1>5, <1>t, Numbers DEF InitUpload, uploadOPKs, Rest, Early, Durable, Fresh, OnePlace, Kept, ClaimedOnce, FirstUseAgrees, TodoInKeys
<1>6. CASE InitDone
  BY <1>6, <1>t, Numbers DEF InitDone, Rest, Early, Durable, Fresh, OnePlace, Kept, ClaimedOnce, FirstUseAgrees, TodoInKeys, history
<1>7. CASE Crash
  BY <1>7, <1>t, Numbers DEF Crash, CleanStart, Rest, Early, Durable, Fresh, OnePlace, Kept, ClaimedOnce, FirstUseAgrees, TodoInKeys, history
<1>9. ASSUME NEW h \in seen, ForgetSeen(h)
      PROVE  Rest'
  BY <1>9 DEF ForgetSeen, Rest, Early, Durable, Fresh, OnePlace, Kept, ClaimedOnce, FirstUseAgrees, TodoInKeys, history
<1>10. ASSUME NEW k \in deletes, Delete(k)
       PROVE  Rest'
  BY <1>10, <1>t, Numbers DEF Delete, Rest, Early, Durable, Fresh, OnePlace, Kept, ClaimedOnce, FirstUseAgrees, TodoInKeys, history
<1>8. ASSUME NEW h \in flight, completeIncomingHandshake(h)
      PROVE  Rest'
  <2>1. /\ flight' \subseteq flight /\ phase = "up" /\ h \in claims
        /\ UNCHANGED <<phase, disk, migrated, batch, crashes, uploads, relay, claims, offered>>
    BY <1>8, <1>t, Numbers DEF completeIncomingHandshake
  <2>2. CASE h \in seen
    BY <2>1, <2>2, <1>8 DEF completeIncomingHandshake, Rest, Early, Durable, Fresh, OnePlace, Kept,
       ClaimedOnce, FirstUseAgrees, TodoInKeys
  <2>3. CASE h \notin seen /\ h.key \notin pool
    <3>1. /\ UNCHANGED <<pool, deletes, refills, nextKey, answered>>
          /\ broken' = IF h.key = None THEN broken ELSE broken \cup {h}
      BY <2>3, <1>8 DEF completeIncomingHandshake
    <3>2. h.key = None \/ h.key \in Legacy \/ h \in answered
      BY <2>1, <2>3, <1>8 DEF Rest, OnePlace, Durable, Kept
    <3> QED
      BY <2>1, <3>1, <3>2 DEF Rest, Early, Durable, Fresh, OnePlace, Kept, ClaimedOnce, FirstUseAgrees, TodoInKeys
  <2>4. CASE h \notin seen /\ h.key \in pool
    <3> DEFINE k == h.key
    <3>1. /\ replenishOPKPool(pool \ {k}) /\ deletes' = deletes \cup {k}
          /\ answered' = answered \cup {h} /\ UNCHANGED broken
      BY <2>4, <1>8 DEF completeIncomingHandshake
    <3>2. pool \ {k} \subseteq 0..(nextKey - 1)
      BY <1>t DEF TypeOK
    <3>3. /\ nextKey' \in Nat /\ nextKey <= nextKey' /\ pool \ {k} \subseteq pool'
          /\ refills' \subseteq refills \cup
               [keys : SUBSET (nextKey..(nextKey' - 1)), todo : SUBSET (nextKey..(nextKey' - 1))]
          /\ \A r \in refills' : r \in refills \/ (r.keys = r.todo /\ First(r.todo) \subseteq pool')
          /\ \A r, q \in refills' : r \in refills \/ q \in refills \/ r = q
      BY <3>1, <3>2, <1>t, ReplenishTypes
    <3>4. k \in offered /\ k \notin relay /\ \A u \in uploads : k \notin u
      BY <2>1, <2>4, <1>t, Numbers DEF Rest, OnePlace
    <3>5. \A r \in refills' : r \in refills \/ (\A j \in r.keys : j \notin 0..(nextKey - 1))
      BY <3>3, <1>t, Numbers, KeysGrow
    <3>6. \A r \in refills : r.keys \subseteq 0..(nextKey - 1) /\ r.todo \subseteq 0..(nextKey - 1)
      BY <1>t DEF TypeOK
    <3>7. offered \subseteq 0..(nextKey - 1)
      BY <1>t DEF TypeOK
    <3> HIDE DEF k
    <3>8. Early' /\ Durable'
      BY <2>1, <3>1, <3>3, <3>4 DEF Rest, Early, Durable
    <3>9. Fresh'
      <4>1. ASSUME NEW r \in refills'
            PROVE  /\ First(r.todo) \subseteq pool'
                   /\ \A j \in r.keys : j \notin offered /\ (j \in r.todo \/ j \in disk)
        <5>1. CASE r \in refills
          <6>1. First(r.todo) \subseteq pool /\ \A j \in r.keys : j \notin offered /\ (j \in r.todo \/ j \in disk)
            BY <5>1 DEF Rest, Fresh
          <6>2. k \notin First(r.todo)
            BY <5>1, <3>4, <6>1 DEF Rest, TodoInKeys, First
          <6> QED  BY <6>1, <6>2, <3>3
        <5>2. CASE r \notin refills
          BY <5>2, <3>3, <3>5, <3>7
        <5> QED  BY <5>1, <5>2
      <4>2. \A r, q \in refills' : \A j \in r.keys : j \in q.keys => r = q
        BY <3>3, <3>5, <3>6 DEF Rest, Fresh
      <4> QED
        BY <4>1, <4>2, <2>1 DEF Fresh
    <3>10. OnePlace'
      <4>1. \A g \in flight' \ answered' : g.key # k
        BY <2>1, <2>4, <3>1, <3>4, <1>t, Numbers DEF Rest, OnePlace, ClaimedOnce, k
      <4> QED
        BY <4>1, <2>1, <3>1, <3>4 DEF Rest, OnePlace, Kept, ClaimedOnce
    <3>11. FirstUseAgrees'
      BY <3>1 DEF Rest, FirstUseAgrees
    <3>12. TodoInKeys'
      BY <3>3 DEF Rest, TodoInKeys
    <3> QED
      BY <3>8, <3>9, <3>10, <3>11, <3>12 DEF Rest
  <2> QED
    BY <2>2, <2>3, <2>4
<1>11. ASSUME NEW r \in refills, RefillStep(r)
       PROVE  Rest'
  <2>1. CASE r.todo = {}
    <3>1. /\ refills' = refills \ {r} /\ uploads' = uploads \cup {r.keys} /\ offered' = offered \cup r.keys
          /\ UNCHANGED <<pool, disk, phase, migrated, batch, deletes, seen, crashes, nextKey,
                         relay, flight, claims, copies, answered, broken>>
      BY <1>11, <2>1 DEF RefillStep, uploadOPKs
    <3>2. phase = "up"
      BY DEF Rest, Early
    <3>3. \A j \in r.keys : /\ j \in disk /\ j \notin offered /\ j \notin deletes
                            /\ j \notin Legacy /\ j # None
      BY <2>1, <1>t, Numbers DEF Rest, Fresh, Durable
    <3>4. Early' /\ Durable' /\ FirstUseAgrees' /\ TodoInKeys'
      BY <3>1, <3>2 DEF Rest, Early, Durable, FirstUseAgrees, TodoInKeys
    <3>5. Fresh'
      BY <3>1, <3>2, <3>3 DEF Rest, Fresh
    <3>6. OnePlace'
      BY <3>1, <3>3 DEF Rest, OnePlace, Kept, ClaimedOnce
    <3> QED
      BY <3>4, <3>5, <3>6 DEF Rest
  <2>2. CASE r.todo # {}
    <3> DEFINE rest == r.todo \ First(r.todo)
               r2 == [r EXCEPT !.todo = rest]
    <3>1. /\ disk' = disk \cup First(r.todo) /\ pool' = pool \cup First(rest)
          /\ refills' = (refills \ {r}) \cup {r2}
          /\ UNCHANGED <<phase, migrated, batch, deletes, seen, crashes, nextKey, uploads, offered,
                         relay, flight, claims, copies, answered, broken>>
      BY <1>11, <2>2 DEF RefillStep
    <3>2. r2.keys = r.keys /\ r2.todo = rest
      BY <1>t, Numbers
    <3>3. First(r.todo) \subseteq r.todo /\ First(rest) \subseteq rest /\ First(r.todo) \subseteq pool
      BY DEF First, Rest, Fresh
    <3>4. phase = "up"
      BY DEF Rest, Early
    <3>0. \A j \in r.todo : j \in rest \/ j \in First(r.todo)
      OBVIOUS
    <3>00. rest \subseteq r.todo
      OBVIOUS
    <3> HIDE DEF rest, r2
    <3>5. Early' /\ Durable' /\ FirstUseAgrees' /\ TodoInKeys'
      BY <3>1, <3>2, <3>3, <3>4, <3>00 DEF Rest, Early, Durable, FirstUseAgrees, TodoInKeys
    <3>6. Fresh'
      <4>1. ASSUME NEW q \in refills'
            PROVE  /\ First(q.todo) \subseteq pool'
                   /\ \A j \in q.keys : j \notin offered /\ (j \in q.todo \/ j \in disk')
        <5>1. CASE q = r2
          BY <5>1, <3>1, <3>2, <3>0 DEF Rest, Fresh
        <5>2. CASE q \in refills \ {r}
          BY <5>2, <3>1 DEF Rest, Fresh
        <5> QED  BY <5>1, <5>2, <3>1
      <4>2. ASSUME NEW q \in refills', NEW p \in refills', NEW j \in q.keys, j \in p.keys
            PROVE  q = p
        BY <4>2, <3>1, <3>2 DEF Rest, Fresh
      <4> QED
        BY <4>1, <4>2, <3>1, <3>4 DEF Fresh
    <3>7. OnePlace'
      BY <3>1 DEF Rest, OnePlace, Kept, ClaimedOnce
    <3> QED
      BY <3>5, <3>6, <3>7 DEF Rest
  <2> QED
    BY <2>1, <2>2
<1>12. ASSUME NEW keys \in uploads, StoreOpks(keys) \/ UploadLost(keys)
       PROVE  Rest'
  <2>1. /\ uploads' = uploads \ {keys} /\ relay' \subseteq relay \cup keys
        /\ UNCHANGED <<device, flight, history>>
    BY <1>12 DEF StoreOpks, UploadLost, canStore
  <2>2. \A j \in keys : /\ Kept(j) /\ \A u \in uploads' : j \notin u
                        /\ \A h \in claims : h.key # j
    <3>1. \A j \in keys : j # None
      BY <1>t, Numbers
    <3> QED
      BY <2>1, <3>1 DEF Rest, OnePlace
  <2>3. OnePlace'
    BY <2>1, <2>2 DEF Rest, OnePlace, Kept, ClaimedOnce, device, history
  <2> QED
    BY <2>1, <2>3 DEF Rest, Early, Durable, Fresh, FirstUseAgrees, TodoInKeys, device, history
<1>13. ASSUME NEW k \in relay \cup {None}, claimOpk(k)
       PROVE  Rest'
  <2>1. /\ relay' = relay \ {k} /\ claims' = claims \cup {Claim(k)} /\ flight' = flight \cup {Claim(k)}
        /\ UNCHANGED <<device, uploads, copies, offered, answered, broken>>
    BY <1>13 DEF claimOpk
  <2>2. Claim(k).key = k
    BY DEF Claim
  <2>3. k = None \/ (/\ k \in Legacy \/ Kept(k)
                     /\ \A u \in uploads : k \notin u
                     /\ \A h \in claims : h.key # k)
    BY <1>t, Numbers DEF Rest, OnePlace, Kept
  <2>4. OnePlace'
    BY <2>1, <2>2, <2>3 DEF Rest, OnePlace, Kept, ClaimedOnce, device
  <2> QED
    BY <2>1, <2>4 DEF Rest, Early, Durable, Fresh, FirstUseAgrees, TodoInKeys, device
<1>14. CASE UNCHANGED vars
  BY <1>14 DEF Rest, Early, Durable, Fresh, OnePlace, Kept, ClaimedOnce, FirstUseAgrees, TodoInKeys, vars, device, history
<1> QED
  BY <1>1, <1>2, <1>3, <1>4, <1>5, <1>6, <1>7, <1>8, <1>9, <1>10, <1>11, <1>12, <1>13, <1>14
  DEF Next

\* It holds before the first start.
LEMMA AgreementInitially ==
    ASSUME CleanStart, Init
    PROVE  Rest
<1>1. disk = {} /\ offered = {}
  BY DEF CleanStart, Init
<1>2. relay \subseteq Legacy
  BY <1>1 DEF Init
<1> QED
  BY <1>1, <1>2 DEF Init, Rest, Early, Durable, Fresh, OnePlace, Kept, ClaimedOnce, FirstUseAgrees,
     TodoInKeys

\* The agreement holds throughout.
LEMMA Agreement == CleanStart /\ Spec => [](TInv /\ Rest)
<1>1. CleanStart /\ Init => TInv /\ Rest
  BY TypesInitially, AgreementInitially
<1>2. CleanStart /\ TInv /\ Rest /\ [Next]_vars => TInv' /\ Rest'
  BY TypesInductive, AgreementInductive
<1>3. CleanStart => []CleanStart
  <2>1. CleanStart => CleanStart'
    BY DEF CleanStart
  <2> QED  BY <2>1, PTL
<1> QED
  BY <1>1, <1>2, <1>3, PTL DEF Spec

\* The relay never holds, or is never sent, a key the device may lose: for every
\* size of the pool and number of crashes after the migration.
THEOREM RelayDurability == CleanStart /\ Spec => []RelayIsDurable
<1>1. TInv /\ Rest => RelayIsDurable
  <2> SUFFICES ASSUME TInv, Rest, NEW k \in Claimable, k \notin Legacy \cup {None}
               PROVE  k \in disk /\ k \notin deletes
    BY DEF RelayIsDurable
  <2>1. CASE k \in relay
    BY <2>1 DEF Rest, OnePlace, Kept
  <2>2. CASE k \in UNION uploads
    BY <2>2 DEF Rest, OnePlace, Kept
  <2>3. CASE \E h \in flight \ answered : k = h.key
    BY <2>3 DEF Rest, OnePlace, Kept
  <2>4. k \in relay \/ (k \in UNION uploads) \/ k \in {h.key : h \in flight \ answered}
    BY DEF Claimable
  <2>5. CASE k \in {h.key : h \in flight \ answered}
    <3>1. \E h \in flight \ answered : k = h.key
      BY <2>5
    <3> QED  BY <3>1, <2>3
  <2> QED
    BY <2>1, <2>2, <2>4, <2>5
<1> QED
  BY <1>1, Agreement, PTL

\* No key is claimed by two handshakes.
THEOREM SingleUse == CleanStart /\ Spec => []ClaimedOnce
<1>1. TInv /\ Rest => ClaimedOnce
  BY DEF Rest, OnePlace
<1> QED
  BY <1>1, Agreement, PTL

\* A handshake that arrives for the first time is answered with the key it claimed.
THEOREM FirstAnswers == CleanStart /\ Spec => []FirstUseAgrees
<1>1. TInv /\ Rest => FirstUseAgrees
  BY DEF Rest
<1> QED
  BY <1>1, Agreement, PTL

-----------------------------------------------------------------------------
(* Sessions *)

\* A sequence r that is s without its element at i.
Cut(r, s, i) ==
    /\ Len(r) = Len(s) - 1
    /\ \A j \in 1..Len(r) : r[j] = IF j < i THEN s[j] ELSE s[j + 1]

LEMMA Shortened ==
    ASSUME NEW X, NEW s \in Seq(X), NEW i \in 1..Len(s), NEW r, r = S!RemoveAt(s, i)
    PROVE  r \in Seq(X) /\ Cut(r, s, i)
<1> DEFINE a == SubSeq(s, 1, i - 1)
           b == SubSeq(s, i + 1, Len(s))
<1>1. Len(s) \in Nat /\ i \in Nat /\ i <= Len(s) /\ 1 <= i
  BY LenProperties
<1>2. /\ a \in Seq(X) /\ Len(a) = i - 1
      /\ \A j \in 1..(i - 1) : a[j] = s[j]
  <2>1. \A j \in 1..(i - 1) : j \in 1..Len(s)
    BY <1>1
  <2> QED BY <1>1, <2>1, SubSeqProperties
<1>3. /\ b \in Seq(X) /\ Len(b) = Len(s) - i
      /\ \A j \in 1..(Len(s) - i) : b[j] = s[i + j]
  <2>1. \A j \in (i + 1)..Len(s) : j \in 1..Len(s)
    BY <1>1
  <2>2. b \in Seq(X) /\ Len(b) = IF i + 1 <= Len(s) THEN Len(s) - (i + 1) + 1 ELSE 0
    BY <1>1, <2>1, SubSeqProperties
  <2>3. \A j \in 1..(Len(s) - (i + 1) + 1) : b[j] = s[i + 1 + j - 1]
    BY <1>1, <2>1, SubSeqProperties
  <2>4. \A j \in 1..(Len(s) - i) : b[j] = s[i + j]
    <3> SUFFICES ASSUME NEW j \in 1..(Len(s) - i) PROVE b[j] = s[i + j]
      OBVIOUS
    <3>1. j \in 1..(Len(s) - (i + 1) + 1) /\ i + 1 + j - 1 = i + j
      BY <1>1
    <3> HIDE DEF b
    <3> QED BY <2>3, <3>1
  <2>5. Len(b) = Len(s) - i
    BY <1>1, <2>2
  <2> QED BY <2>2, <2>4, <2>5
<1> HIDE DEF a, b
<1>4. r = a \o b
  BY DEF S!RemoveAt, a, b
<1>5. /\ r \in Seq(X) /\ Len(r) = Len(a) + Len(b)
      /\ \A j \in 1..(Len(a) + Len(b)) : r[j] = IF j <= Len(a) THEN a[j] ELSE b[j - Len(a)]
  <2>1. a \in Seq(X) /\ b \in Seq(X)
    BY <1>2, <1>3
  <2>2. /\ a \o b \in Seq(X) /\ Len(a \o b) = Len(a) + Len(b)
        /\ \A j \in 1..Len(a) + Len(b) : (a \o b)[j] = IF j <= Len(a) THEN a[j] ELSE b[j - Len(a)]
    BY <2>1, ConcatProperties, Zenon
  <2> QED BY <1>4, <2>2
<1>6. Len(r) = Len(s) - 1
  BY <1>1, <1>2, <1>3, <1>5
<1>7. ASSUME NEW j \in 1..Len(r)
      PROVE  r[j] = IF j < i THEN s[j] ELSE s[j + 1]
  <2>1. j \in Nat /\ 1 <= j /\ j <= Len(s) - 1 /\ j \in 1..(Len(a) + Len(b))
    BY <1>1, <1>5, <1>6
  <2>2. CASE j < i
    <3>1. j <= Len(a) /\ j \in 1..(i - 1)
      BY <1>1, <1>2, <2>1, <2>2
    <3> QED BY <1>2, <1>5, <2>1, <2>2, <3>1
  <2>3. CASE ~(j < i)
    <3>1. ~(j <= Len(a)) /\ j - Len(a) \in 1..(Len(s) - i) /\ i + (j - Len(a)) = j + 1
      BY <1>1, <1>2, <2>1, <2>3
    <3> QED BY <1>3, <1>5, <2>1, <2>3, <3>1
  <2> QED BY <2>2, <2>3
<1> QED BY <1>5, <1>6, <1>7 DEF Cut

\* The handshakes under way in a channel, the last of them, and packets of a
\* session behind a place.
Inits(c) == {i \in DOMAIN c : c[i].type = "x3dh_init"}
IsLast(c, i) == i \in Inits(c) /\ \A j \in Inits(c) : j <= i
Answers(c, i, h) == \E j \in DOMAIN c : j > i /\ c[j].type = "data" /\ c[j].h = h

\* The session of q comes to be that of the other device, or is: unless a
\* handshake of its own is under way, and will cross.
Toward(q) ==
    LET p == S!Other(q) IN
    Inits(channel[p]) = {} =>
        /\ \A i \in Inits(channel[q]) :
              IsLast(channel[q], i) /\ S!Has(p) => session[p].h = channel[q][i].h
        /\ Inits(channel[q]) = {} /\ S!Has(p) /\ S!Has(q) => session[p].h = session[q].h

JoinInv == crossed \/ undone \/ \A q \in Peers : Toward(q)

\* p has something to send, or has sent it, that opens the session of q.
Owes(p, q, i) == handing[p] # {} \/ outbox[p] # {} \/ Answers(channel[q], i, session[p].h)

\* A session that cannot send yet is one that the other device owes a packet.
Served(q) ==
    LET p == S!Other(q) IN
    Inits(channel[p]) = {} =>
        /\ \A i \in Inits(channel[q]) :
              IsLast(channel[q], i) => S!Sendable(p) /\ Owes(p, q, i)
        /\ Inits(channel[q]) = {} => /\ S!Has(p) <=> S!Has(q)
                                     /\ S!Has(q) /\ ~S!Sendable(q) => S!Sendable(p) /\ Owes(p, q, 0)

BootInv == crossed \/ cut \/ \A q \in Peers : Served(q)

SessionInv == S!TypeOK /\ JoinInv /\ BootInv /\ (undone => cut)

\* Two devices.
LEMMA TwoDevices ==
    ASSUME NEW p \in Peers
    PROVE  /\ S!Other(p) \in Peers /\ S!Other(p) # p /\ S!Other(S!Other(p)) = p
           /\ \A q \in Peers : q = p \/ q = S!Other(p)
<1>1. PICK a \in Peers, b \in Peers : a # b /\ Peers = {a, b}
  BY SessionConstants DEF S!ConstantsOK
<1>2. S!Other(a) = b /\ S!Other(b) = a
  BY <1>1 DEF S!Other
<1> QED BY <1>1, <1>2

\* What a channel has once a packet went out.
LEMMA SentOut ==
    ASSUME NEW c \in Seq(S!Packet), NEW x \in S!Packet, NEW d, d = Append(c, x)
    PROVE  /\ d \in Seq(S!Packet) /\ Len(c) \in Nat /\ Len(d) = Len(c) + 1 /\ d[Len(c) + 1] = x
           /\ DOMAIN c = 1..Len(c) /\ DOMAIN d = 1..(Len(c) + 1)
           /\ \A i \in 1..Len(c) : d[i] = c[i]
OBVIOUS

\* Any other packet changes nothing about the handshakes.
LEMMA DataOut ==
    ASSUME NEW c \in Seq(S!Packet), NEW x \in S!Packet, x.type = "data", NEW d, d = Append(c, x)
    PROVE  /\ d \in Seq(S!Packet) /\ Inits(d) = Inits(c)
           /\ \A i \in Inits(c) : /\ d[i] = c[i] /\ (IsLast(d, i) => IsLast(c, i))
                                  /\ Answers(d, i, x.h)
           /\ Answers(d, 0, x.h)
           /\ \A i \in Nat : \A h : Answers(c, i, h) => Answers(d, i, h)
<1>1. /\ d \in Seq(S!Packet) /\ Len(c) \in Nat /\ d[Len(c) + 1] = x
      /\ DOMAIN c = 1..Len(c) /\ DOMAIN d = 1..(Len(c) + 1)
      /\ \A i \in 1..Len(c) : d[i] = c[i]
  BY SentOut
<1>2. Inits(d) = Inits(c)
  <2>1. \A i \in 1..(Len(c) + 1) : i \in 1..Len(c) \/ i = Len(c) + 1
    BY <1>1
  <2>2. \A i \in 1..Len(c) : i \in 1..(Len(c) + 1)
    BY <1>1
  <2> QED BY <1>1, <2>1, <2>2 DEF Inits
<1>3. \A i \in 0..Len(c) : Answers(d, i, x.h)
  <2> SUFFICES ASSUME NEW i \in 0..Len(c) PROVE Answers(d, i, x.h)
    OBVIOUS
  <2>1. Len(c) + 1 \in DOMAIN d /\ Len(c) + 1 > i
    BY <1>1
  <2> QED BY <1>1, <2>1 DEF Answers
<1>4. \A i \in Inits(c) : i \in 1..Len(c) /\ i \in 0..Len(c)
  BY <1>1 DEF Inits
<1>5. ASSUME NEW i \in Nat, NEW h, Answers(c, i, h) PROVE Answers(d, i, h)
  <2>1. PICK j \in 1..Len(c) : j > i /\ c[j].type = "data" /\ c[j].h = h
    BY <1>1, <1>5 DEF Answers
  <2>2. j \in DOMAIN d /\ d[j] = c[j]
    BY <1>1
  <2> QED BY <2>1, <2>2 DEF Answers
<1>6. 0 \in 0..Len(c)
  BY <1>1
<1> QED BY <1>1, <1>2, <1>3, <1>4, <1>5, <1>6 DEF IsLast

\* What a channel has once a packet was taken.
LEMMA TakenOut ==
    ASSUME NEW c \in Seq(S!Packet), NEW i \in DOMAIN c, NEW d, d = S!RemoveAt(c, i)
    PROVE  /\ d \in Seq(S!Packet) /\ Len(d) \in Nat /\ i \in 1..(Len(d) + 1)
           /\ DOMAIN c = 1..(Len(d) + 1) /\ DOMAIN d = 1..Len(d)
           /\ \A k \in 1..Len(d) : k < i => d[k] = c[k]
           /\ \A k \in 1..Len(d) : k >= i => d[k] = c[k + 1]
<1>1. Len(c) \in Nat /\ DOMAIN c = 1..Len(c)
  OBVIOUS
<1>2. i \in 1..Len(c)
  BY <1>1
<1>3. d \in Seq(S!Packet) /\ Cut(d, c, i)
  BY <1>2, Shortened
<1>4. Len(d) = Len(c) - 1 /\ Len(d) \in Nat /\ Len(d) + 1 = Len(c) /\ DOMAIN d = 1..Len(d)
  BY <1>1, <1>2, <1>3 DEF Cut
<1>5. \A k \in 1..Len(d) : d[k] = IF k < i THEN c[k] ELSE c[k + 1]
  BY <1>3 DEF Cut
<1>6. \A k \in 1..Len(d) : k >= i => ~(k < i)
  BY <1>2, <1>4
<1> QED BY <1>1, <1>2, <1>3, <1>4, <1>5, <1>6

\* Any other packet taken leaves the handshakes, and what answers to others.
LEMMA DataTaken ==
    ASSUME NEW c \in Seq(S!Packet), NEW i \in DOMAIN c, NEW d, d = S!RemoveAt(c, i),
           c[i].type # "x3dh_init"
    PROVE  /\ Inits(d) = {} <=> Inits(c) = {}
           /\ \A k \in Inits(d) : \E m \in Inits(c) : /\ d[k] = c[m]
                                                      /\ IsLast(d, k) => IsLast(c, m)
           /\ \A h : Answers(c, 0, h) /\ c[i].h # h => Answers(d, 0, h)
<1>1. /\ d \in Seq(S!Packet) /\ Len(d) \in Nat /\ i \in 1..(Len(d) + 1)
      /\ DOMAIN c = 1..(Len(d) + 1) /\ DOMAIN d = 1..Len(d)
      /\ \A k \in 1..Len(d) : k < i => d[k] = c[k]
      /\ \A k \in 1..Len(d) : k >= i => d[k] = c[k + 1]
  BY TakenOut
<1>2. Inits(d) \subseteq 1..Len(d) /\ Inits(c) \subseteq 1..(Len(d) + 1) /\ i \notin Inits(c)
  BY <1>1 DEF Inits
<1>3. \A k \in Inits(d) : (k < i /\ k \in Inits(c)) \/ (k >= i /\ k + 1 \in Inits(c))
  <2> SUFFICES ASSUME NEW k \in Inits(d)
               PROVE  (k < i /\ k \in Inits(c)) \/ (k >= i /\ k + 1 \in Inits(c))
    OBVIOUS
  <2>1. k \in 1..Len(d) /\ d[k].type = "x3dh_init"
    BY <1>2 DEF Inits
  <2>2. k \in 1..(Len(d) + 1) /\ k + 1 \in 1..(Len(d) + 1) /\ (k < i \/ k >= i)
    BY <1>1, <2>1
  <2> QED BY <1>1, <2>1, <2>2 DEF Inits
<1>4. \A m \in Inits(c) : (m < i /\ m \in Inits(d)) \/ (m > i /\ m - 1 \in Inits(d))
  <2> SUFFICES ASSUME NEW m \in Inits(c)
               PROVE  (m < i /\ m \in Inits(d)) \/ (m > i /\ m - 1 \in Inits(d))
    OBVIOUS
  <2>1. m \in 1..(Len(d) + 1) /\ m # i /\ c[m].type = "x3dh_init"
    BY <1>2 DEF Inits
  <2>2. CASE m < i
    <3>1. m \in 1..Len(d)
      BY <1>1, <2>1, <2>2
    <3> QED BY <1>1, <2>1, <2>2, <3>1 DEF Inits
  <2>3. CASE m > i
    <3>1. m - 1 \in 1..Len(d) /\ m - 1 >= i /\ m - 1 + 1 = m
      BY <1>1, <2>1, <2>3
    <3> QED BY <1>1, <2>1, <2>3, <3>1 DEF Inits
  <2> QED BY <1>1, <2>1, <2>2, <2>3
<1>5. ASSUME NEW k \in Inits(d)
      PROVE  \E m \in Inits(c) : d[k] = c[m] /\ (IsLast(d, k) => IsLast(c, m))
  <2>0. k \in 1..Len(d)
    BY <1>2
  <2>1. CASE k < i
    <3>1. k \in Inits(c) /\ d[k] = c[k]
      BY <1>1, <1>3, <2>0, <2>1
    <3>2. ASSUME IsLast(d, k), NEW m \in Inits(c) PROVE m <= k
      <4>1. m \in 1..(Len(d) + 1)
        BY <1>2
      <4>2. CASE m < i
        BY <1>4, <2>0, <3>2, <4>1, <4>2 DEF IsLast
      <4>3. CASE m > i
        <5>1. m - 1 <= k
          BY <1>1, <1>4, <3>2, <4>1, <4>3 DEF IsLast
        <5> QED BY <1>1, <2>0, <2>1, <4>1, <4>3, <5>1
      <4> QED BY <1>1, <1>2, <4>1, <4>2, <4>3
    <3> QED BY <3>1, <3>2 DEF IsLast
  <2>2. CASE k >= i
    <3>1. k + 1 \in Inits(c) /\ d[k] = c[k + 1]
      BY <1>1, <1>3, <2>0, <2>2
    <3>2. ASSUME IsLast(d, k), NEW m \in Inits(c) PROVE m <= k + 1
      <4>1. m \in 1..(Len(d) + 1)
        BY <1>2
      <4>2. m <= k \/ m - 1 <= k
        BY <1>4, <3>2 DEF IsLast
      <4> QED BY <1>1, <2>0, <4>1, <4>2
    <3> QED BY <3>1, <3>2 DEF IsLast
  <2> QED BY <1>1, <2>0, <2>1, <2>2
<1>6. Inits(d) = {} <=> Inits(c) = {}
  BY <1>3, <1>4
<1>7. ASSUME NEW h, Answers(c, 0, h), c[i].h # h PROVE Answers(d, 0, h)
  <2>1. PICK j \in 1..(Len(d) + 1) : c[j].type = "data" /\ c[j].h = h
    BY <1>1, <1>7 DEF Answers
  <2>2. CASE j < i
    <3>1. j \in 1..Len(d) /\ j > 0
      BY <1>1, <2>1, <2>2
    <3> QED BY <1>1, <2>1, <2>2, <3>1 DEF Answers
  <2>3. CASE j > i
    <3>1. j - 1 \in 1..Len(d) /\ j - 1 > 0 /\ j - 1 >= i /\ j - 1 + 1 = j
      BY <1>1, <2>1, <2>3
    <3> QED BY <1>1, <2>1, <2>3, <3>1 DEF Answers
  <2> QED BY <1>1, <1>7, <2>1, <2>2, <2>3
<1> QED BY <1>5, <1>6, <1>7

\* With no handshake before the packet taken, the handshakes move up by one, and so
\* does what is behind them.
LEMMA MovedUp ==
    ASSUME NEW c \in Seq(S!Packet), NEW i \in DOMAIN c, NEW d, d = S!RemoveAt(c, i),
           \A k \in 1..(i - 1) : c[k].type # "x3dh_init"
    PROVE  /\ \A k \in Inits(d) : /\ k + 1 \in Inits(c) /\ d[k] = c[k + 1]
                                  /\ IsLast(d, k) => IsLast(c, k + 1)
                                  /\ \A h : Answers(c, k + 1, h) => Answers(d, k, h)
           /\ c[i].type = "x3dh_init" =>
                 /\ i \in Inits(c)
                 /\ Inits(d) = {} => IsLast(c, i)
                 /\ \A h : Answers(c, i, h) => Answers(d, 0, h)
<1>1. /\ d \in Seq(S!Packet) /\ Len(d) \in Nat /\ i \in 1..(Len(d) + 1)
      /\ DOMAIN c = 1..(Len(d) + 1) /\ DOMAIN d = 1..Len(d)
      /\ \A k \in 1..Len(d) : k < i => d[k] = c[k]
      /\ \A k \in 1..Len(d) : k >= i => d[k] = c[k + 1]
  BY TakenOut
<1>2. Inits(d) \subseteq 1..Len(d) /\ Inits(c) \subseteq 1..(Len(d) + 1)
  BY <1>1 DEF Inits
<1>3. \A k \in Inits(d) : k >= i /\ k + 1 \in Inits(c) /\ d[k] = c[k + 1]
  <2> SUFFICES ASSUME NEW k \in Inits(d) PROVE k >= i /\ k + 1 \in Inits(c) /\ d[k] = c[k + 1]
    OBVIOUS
  <2>1. k \in 1..Len(d) /\ d[k].type = "x3dh_init" /\ k + 1 \in 1..(Len(d) + 1)
    BY <1>1, <1>2 DEF Inits
  <2>2. ASSUME k < i PROVE FALSE
    <3>1. k \in 1..(i - 1)
      BY <1>1, <2>1, <2>2
    <3> QED BY <1>1, <2>1, <2>2, <3>1
  <2>3. k >= i
    BY <1>1, <2>1, <2>2
  <2> QED BY <1>1, <2>1, <2>3 DEF Inits
<1>4. \A m \in Inits(c) : m = i \/ (m > i /\ m - 1 \in Inits(d))
  <2> SUFFICES ASSUME NEW m \in Inits(c), m # i PROVE m > i /\ m - 1 \in Inits(d)
    OBVIOUS
  <2>1. m \in 1..(Len(d) + 1) /\ c[m].type = "x3dh_init"
    BY <1>2 DEF Inits
  <2>2. ASSUME m < i PROVE FALSE
    <3>1. m \in 1..(i - 1)
      BY <1>1, <2>1, <2>2
    <3> QED BY <2>1, <3>1
  <2>3. m > i /\ m - 1 \in 1..Len(d) /\ m - 1 >= i /\ m - 1 + 1 = m
    BY <1>1, <2>1, <2>2
  <2> QED BY <1>1, <2>1, <2>3 DEF Inits
<1>5. ASSUME NEW k \in Inits(d), IsLast(d, k) PROVE IsLast(c, k + 1)
  <2>1. k \in 1..Len(d) /\ k >= i /\ k + 1 \in Inits(c)
    BY <1>2, <1>3
  <2>2. ASSUME NEW m \in Inits(c) PROVE m <= k + 1
    <3>1. m \in 1..(Len(d) + 1)
      BY <1>2
    <3>2. m = i \/ m - 1 <= k
      BY <1>4, <1>5 DEF IsLast
    <3> QED BY <1>1, <2>1, <3>1, <3>2
  <2> QED BY <2>1, <2>2 DEF IsLast
<1>6. ASSUME NEW k \in Nat, k + 1 >= i, NEW h, Answers(c, k + 1, h) PROVE Answers(d, k, h)
  <2>1. PICK j \in 1..(Len(d) + 1) : j > k + 1 /\ c[j].type = "data" /\ c[j].h = h
    BY <1>1, <1>6 DEF Answers
  <2>2. j - 1 \in 1..Len(d) /\ j - 1 > k /\ j - 1 >= i /\ j - 1 + 1 = j
    BY <1>1, <1>6, <2>1
  <2> QED BY <1>1, <2>1, <2>2 DEF Answers
<1>7. ASSUME NEW k \in Inits(d), NEW h, Answers(c, k + 1, h) PROVE Answers(d, k, h)
  <2>1. k \in Nat /\ k + 1 >= i
    BY <1>1, <1>2, <1>3
  <2> QED BY <1>6, <1>7, <2>1
<1>8. ASSUME c[i].type = "x3dh_init"
      PROVE  /\ i \in Inits(c)
             /\ Inits(d) = {} => IsLast(c, i)
  <2>1. i \in Inits(c) /\ i <= i
    BY <1>1, <1>8 DEF Inits
  <2>2. Inits(d) = {} => \A m \in Inits(c) : m = i
    BY <1>4
  <2> QED BY <2>1, <2>2 DEF IsLast
<1>9. ASSUME NEW h, Answers(c, i, h) PROVE Answers(d, 0, h)
  <2>1. PICK j \in 1..(Len(d) + 1) : j > i /\ c[j].type = "data" /\ c[j].h = h
    BY <1>1, <1>9 DEF Answers
  <2>2. j - 1 \in 1..Len(d) /\ j - 1 > 0 /\ j - 1 >= i /\ j - 1 + 1 = j
    BY <1>1, <2>1
  <2> QED BY <1>1, <2>1, <2>2 DEF Answers
<1> QED BY <1>3, <1>5, <1>7, <1>8, <1>9

\* What the type of the state says of one device.
LEMMA OfOne ==
    ASSUME S!TypeOK, NEW p \in Peers
    PROVE  /\ session[p] \in [h : Nat, canSend : BOOLEAN] \cup {S!NoSession}
           /\ S!Has(p) => session[p].h \in Nat
           /\ S!Sendable(p) => S!Has(p)
           /\ channel[p] \in Seq(S!Packet) /\ handing[p] \subseteq Nat /\ outbox[p] \subseteq S!Body
<1>1. session[p] \in [h : Nat, canSend : BOOLEAN] \cup {S!NoSession}
  BY DEF S!TypeOK
<1>2. ~S!NoSession.canSend
  BY DEF S!NoSession
<1> QED BY <1>1, <1>2 DEF S!TypeOK, S!Has, S!Sendable

\* It is enough to look at the two.
LEMMA OfTwo ==
    ASSUME NEW p \in Peers, NEW q \in Peers, q = S!Other(p),
           ~crossed' /\ ~undone' => Toward(p)' /\ Toward(q)',
           ~crossed' /\ ~cut' => Served(p)' /\ Served(q)'
    PROVE  JoinInv' /\ BootInv'
<1>1. \A x \in Peers : x = p \/ x = q
  BY TwoDevices
<1> QED BY <1>1 DEF JoinInv, BootInv

\* Steps that leave sessions and channels alone, and empty no outbox of a device
\* that has to send.
LEMMA SessionStill ==
    ASSUME SessionInv, UNCHANGED <<session, channel, crossed, undone>>, cut => cut',
           cut' \/ \A p \in Peers : S!Sendable(p) /\ (handing[p] # {} \/ outbox[p] # {})
                                       => handing'[p] # {} \/ outbox'[p] # {}
    PROVE  JoinInv' /\ BootInv'
<1>1. \A q \in Peers : Toward(q) => Toward(q)'
  BY DEF Toward, S!Has
<1>2. JoinInv'
  BY <1>1 DEF SessionInv, JoinInv
<1>3. ASSUME ~cut', NEW q \in Peers, Served(q) PROVE Served(q)'
  <2>1. PICK p \in Peers : p = S!Other(q)
    BY TwoDevices
  <2>2. \A i : S!Sendable(p) /\ Owes(p, q, i) => Owes(p, q, i)'
    BY <1>3 DEF Owes
  <2>3. /\ channel' = channel /\ session' = session
        /\ S!Has(p)' = S!Has(p) /\ S!Sendable(p)' = S!Sendable(p)
        /\ S!Has(q)' = S!Has(q) /\ S!Sendable(q)' = S!Sendable(q)
    BY DEF S!Has, S!Sendable
  <2> QED BY <1>3, <2>1, <2>2, <2>3 DEF Served
<1>4. ~cut' => ~cut
  OBVIOUS
<1> QED BY <1>2, <1>3, <1>4 DEF SessionInv, BootInv

\* A packet of a session is taken, or a device comes back with the same handshake:
\* what the sessions come from stays.
LEMMA TowardStill ==
    ASSUME SessionInv, ~crossed, ~undone, NEW q \in Peers,
           \/ channel' = channel
           \/ \E i \in DOMAIN channel[q] : channel[q][i].type # "x3dh_init" /\ S!Take(q, i),
           \A x \in Peers : session'[x].h = session[x].h /\ (S!Has(x)' <=> S!Has(x)),
           NEW x \in Peers
    PROVE  Toward(x)'
<1>1. PICK p \in Peers : p = S!Other(x) /\ p # x
  BY TwoDevices
<1>2. Toward(x)
  BY DEF SessionInv, JoinInv
<1>3. \A y \in Peers :
         /\ Inits(channel'[y]) = {} <=> Inits(channel[y]) = {}
         /\ \A k \in Inits(channel'[y]) :
               \E m \in Inits(channel[y]) : /\ channel'[y][k] = channel[y][m]
                                            /\ IsLast(channel'[y], k) => IsLast(channel[y], m)
  <2>1. CASE channel' = channel
    BY <2>1
  <2>2. ASSUME NEW i \in DOMAIN channel[q], channel[q][i].type # "x3dh_init", S!Take(q, i),
               NEW y \in Peers
        PROVE  /\ Inits(channel'[y]) = {} <=> Inits(channel[y]) = {}
               /\ \A k \in Inits(channel'[y]) :
                     \E m \in Inits(channel[y]) : /\ channel'[y][k] = channel[y][m]
                                                  /\ IsLast(channel'[y], k) => IsLast(channel[y], m)
    <3>1. PICK c, d : c = channel[q] /\ d = S!RemoveAt(c, i)
      OBVIOUS
    <3>2. c \in Seq(S!Packet) /\ channel \in [Peers -> Seq(S!Packet)]
      BY <3>1 DEF SessionInv, S!TypeOK
    <3>3. channel' = [channel EXCEPT ![q] = d]
      BY <2>2, <3>1 DEF S!Take
    <3>4. CASE y = q
      <4>1. channel'[y] = d /\ channel[y] = c
        BY <3>1, <3>2, <3>3, <3>4
      <4>2. /\ Inits(d) = {} <=> Inits(c) = {}
            /\ \A k \in Inits(d) : \E m \in Inits(c) : d[k] = c[m] /\ (IsLast(d, k) => IsLast(c, m))
        <5>1. i \in DOMAIN c /\ c[i].type # "x3dh_init" /\ c \in Seq(S!Packet)
          BY <2>2, <3>1, <3>2
        <5> QED BY <3>1, <5>1, DataTaken
      <4> QED BY <4>1, <4>2
    <3>5. CASE y # q
      <4>1. channel'[y] = channel[y]
        BY <3>2, <3>3, <3>5
      <4> QED BY <4>1
    <3> QED BY <3>4, <3>5
  <2> QED BY <2>1, <2>2
<1> QED BY <1>1, <1>2, <1>3 DEF Toward

\* A handshake begins: it will be the session of both, unless it crosses another.
LEMMA InitiateJoins ==
    ASSUME SessionInv, NEW p \in Peers, S!initiateHandshake(p)
    PROVE  JoinInv' /\ BootInv'
<1>0. CASE undone' /\ cut'
  BY <1>0 DEF JoinInv, BootInv
<1>00. ASSUME ~(undone' /\ cut')
       PROVE  /\ channel' = [channel EXCEPT ![S!Other(p)] =
                               Append(@, [type |-> "x3dh_init", h |-> drawn])]
              /\ handing' = [handing EXCEPT ![p] = @ \cup {drawn}]
  BY <1>00 DEF S!initiateHandshake
<1> SUFFICES ASSUME ~(undone' /\ cut') PROVE JoinInv' /\ BootInv'
  BY <1>0
<1>1. PICK q \in Peers : q = S!Other(p) /\ q # p /\ S!Other(q) = p
  BY TwoDevices
<1>2. /\ session \in [Peers -> [h : Nat, canSend : BOOLEAN] \cup {S!NoSession}]
      /\ handing \in [Peers -> SUBSET Nat] /\ channel \in [Peers -> Seq(S!Packet)] /\ drawn \in Nat
      /\ channel[q] \in Seq(S!Packet)
  BY DEF SessionInv, S!TypeOK
<1>3. /\ session'[p] = [h |-> drawn, canSend |-> TRUE] /\ handing'[p] # {}
      /\ channel'[q] = Append(channel[q], [type |-> "x3dh_init", h |-> drawn])
      /\ channel'[p] = channel[p]
  BY <1>00, <1>1, <1>2 DEF S!initiateHandshake
<1>4. /\ Inits(channel'[q]) # {}
      /\ \A i \in Inits(channel'[q]) : IsLast(channel'[q], i) => channel'[q][i].h = drawn
  <2>1. PICK c, d : c = channel[q] /\ d = channel'[q]
    OBVIOUS
  <2>2. PICK x : x = [type |-> "x3dh_init", h |-> drawn]
    OBVIOUS
  <2>3. x \in S!Packet /\ x.type = "x3dh_init" /\ x.h = drawn
    BY <1>2, <2>2 DEF S!Packet
  <2>4. c \in Seq(S!Packet) /\ x \in S!Packet /\ x.type = "x3dh_init" /\ d = Append(c, x)
    BY <1>2, <1>3, <2>1, <2>2, <2>3
  <2>5. /\ Len(c) \in Nat /\ DOMAIN d = 1..(Len(c) + 1) /\ d[Len(c) + 1] = x
    BY <2>4, SentOut
  <2>6. Len(c) + 1 \in Inits(d) /\ Inits(d) \subseteq 1..(Len(c) + 1)
    BY <2>4, <2>5 DEF Inits
  <2>7. ASSUME NEW i \in Inits(d), IsLast(d, i) PROVE d[i].h = drawn
    <3>1. i \in 1..(Len(c) + 1) /\ Len(c) + 1 <= i
      BY <2>6, <2>7 DEF IsLast
    <3>2. i = Len(c) + 1
      BY <2>5, <3>1
    <3> QED BY <2>3, <2>5, <3>2
  <2> QED BY <2>1, <2>6, <2>7
<1>5. session'[p].h = drawn /\ S!Sendable(p)'
  BY <1>3 DEF S!Sendable
<1>6. Toward(q)' /\ Toward(p)'
  BY <1>1, <1>4, <1>5 DEF Toward
<1>7. Served(q)' /\ Served(p)'
  BY <1>1, <1>3, <1>4, <1>5 DEF Served, Owes
<1> QED BY <1>1, <1>6, <1>7, OfTwo

\* A session is deleted.
LEMMA DeleteJoins ==
    ASSUME SessionInv, NEW p \in Peers, S!deleteSession(p)
    PROVE  JoinInv' /\ BootInv'
<1>1. PICK q \in Peers : q = S!Other(p) /\ q # p /\ S!Other(q) = p
  BY TwoDevices
<1>2. /\ session'[p] = S!NoSession /\ session'[q] = session[q]
      /\ UNCHANGED <<channel, crossed, undone>> /\ cut'
  BY <1>1 DEF S!deleteSession, SessionInv, S!TypeOK
<1>3. ~S!Has(p)' /\ (S!Has(q)' <=> S!Has(q))
  BY <1>2 DEF S!Has
<1>4. ASSUME ~crossed', ~undone' PROVE Toward(p)' /\ Toward(q)'
  <2>1. Toward(p) /\ Toward(q)
    BY <1>2, <1>4 DEF SessionInv, JoinInv
  <2> QED BY <1>1, <1>2, <1>3, <2>1 DEF Toward
<1> QED BY <1>1, <1>2, <1>4, OfTwo

\* What a device sends opens the session of the other.
LEMMA EncryptJoins ==
    ASSUME SessionInv, NEW p \in Peers, NEW b \in outbox[p], S!Encrypt(p, b)
    PROVE  JoinInv' /\ BootInv'
<1>1. PICK q \in Peers : q = S!Other(p) /\ q # p /\ S!Other(q) = p
  BY TwoDevices
<1>2. PICK x : x = [type |-> "data", h |-> session[p].h, body |-> b]
  OBVIOUS
<1>3. PICK d : d = Append(channel[q], x)
  OBVIOUS
<1>4. /\ S!Sendable(p) /\ channel' = [channel EXCEPT ![q] = d]
      /\ outbox' = [outbox EXCEPT ![p] = @ \ {b}]
      /\ UNCHANGED <<session, handing, crossed, undone, cut>>
  BY <1>1, <1>2, <1>3 DEF S!Encrypt, S!history
<1>5. /\ session[p].h \in Nat /\ b \in S!Body /\ channel[q] \in Seq(S!Packet)
      /\ channel \in [Peers -> Seq(S!Packet)] /\ outbox \in [Peers -> SUBSET S!Body]
  BY <1>4, OfOne DEF SessionInv, S!TypeOK
<1>6. x \in S!Packet /\ x.type = "data" /\ x.h = session[p].h
  BY <1>2, <1>5 DEF S!Packet
<1>7. /\ channel'[q] = d /\ channel'[p] = channel[p] /\ outbox'[q] = outbox[q]
  BY <1>1, <1>4, <1>5
<1>8. /\ Inits(d) = Inits(channel[q])
      /\ \A i \in Inits(channel[q]) : /\ d[i] = channel[q][i]
                                      /\ IsLast(d, i) => IsLast(channel[q], i)
                                      /\ Answers(d, i, x.h)
      /\ Answers(d, 0, x.h)
  <2>1. PICK c : c = channel[q]
    OBVIOUS
  <2>2. c \in Seq(S!Packet) /\ d = Append(c, x) /\ x \in S!Packet /\ x.type = "data"
    BY <1>3, <1>5, <1>6, <2>1
  <2>3. /\ Inits(d) = Inits(c)
        /\ \A i \in Inits(c) : /\ d[i] = c[i] /\ (IsLast(d, i) => IsLast(c, i))
                               /\ Answers(d, i, x.h)
        /\ Answers(d, 0, x.h)
    BY <2>2, DataOut
  <2> QED BY <2>1, <2>3
<1>9. /\ S!Has(p)' = S!Has(p) /\ S!Sendable(p)' = S!Sendable(p)
      /\ S!Has(q)' = S!Has(q) /\ S!Sendable(q)' = S!Sendable(q)
  BY <1>4 DEF S!Has, S!Sendable
<1>10. ASSUME ~crossed', ~undone' PROVE Toward(p)' /\ Toward(q)'
  <2>1. Toward(p) /\ Toward(q)
    BY <1>4, <1>10 DEF SessionInv, JoinInv
  <2>2. Toward(p)'
    BY <1>1, <1>4, <1>7, <1>8, <1>9, <2>1 DEF Toward
  <2>3. Toward(q)'
    BY <1>1, <1>4, <1>7, <1>8, <1>9, <2>1 DEF Toward
  <2> QED BY <2>2, <2>3
<1>11. ASSUME ~crossed', ~cut' PROVE Served(p)' /\ Served(q)'
  <2>1. Served(p) /\ Served(q)
    BY <1>4, <1>11 DEF SessionInv, BootInv
  <2>2. \A i : Owes(q, p, i)' <=> Owes(q, p, i)
    BY <1>4, <1>7 DEF Owes
  <2>3. \A i \in Inits(channel[q]) : Owes(p, q, i)'
    BY <1>4, <1>6, <1>7, <1>8 DEF Owes
  <2>4. Owes(p, q, 0)'
    BY <1>4, <1>6, <1>7, <1>8 DEF Owes
  <2>5. Served(p)'
    BY <1>1, <1>4, <1>7, <1>8, <1>9, <2>1, <2>2 DEF Served
  <2>6. Served(q)'
    BY <1>1, <1>4, <1>7, <1>8, <1>9, <2>1, <2>3, <2>4 DEF Served
  <2> QED BY <2>5, <2>6
<1> QED BY <1>1, <1>10, <1>11, OfTwo

\* A handshake arrives: both have the session it sets up.
LEMMA CompleteJoins ==
    ASSUME SessionInv, NEW q \in Peers, NEW i \in DOMAIN channel[q],
           S!completeIncomingHandshake(q, i)
    PROVE  JoinInv' /\ BootInv'
<1>1. PICK p \in Peers : p = S!Other(q) /\ q # p /\ S!Other(p) = q
  BY TwoDevices
<1>2. PICK c, d, h : c = channel[q] /\ d = S!RemoveAt(c, i) /\ h = c[i].h
  OBVIOUS
<1>3. /\ i \in DOMAIN c /\ c[i].type = "x3dh_init" /\ channel' = [channel EXCEPT ![q] = d]
      /\ session' = [session EXCEPT ![q] = [h |-> h, canSend |-> FALSE]]
      /\ outbox' = [outbox EXCEPT ![q] = @ \cup {[kind |-> "entropy_challenge", id |-> h]}]
      /\ crossed' = (crossed \/ Inits(channel[p]) # {})
      /\ handing' = handing
  BY <1>1, <1>2 DEF S!completeIncomingHandshake, S!Arrive, S!Take, S!IsInit, S!Crosses, Inits
<1>4. /\ undone' = (undone \/ S!Late(q, i)) /\ cut' = (cut \/ S!Late(q, i))
  BY DEF S!completeIncomingHandshake, S!Arrive
<1>5. ~S!Late(q, i) => \A k \in 1..(i - 1) : c[k].type # "x3dh_init"
  BY <1>2 DEF S!Late, S!IsInit
<1>6. /\ c \in Seq(S!Packet) /\ channel \in [Peers -> Seq(S!Packet)]
      /\ outbox \in [Peers -> SUBSET S!Body]
      /\ session \in [Peers -> [h : Nat, canSend : BOOLEAN] \cup {S!NoSession}]
  BY <1>2 DEF SessionInv, S!TypeOK
<1>7. /\ channel'[q] = d /\ channel'[p] = channel[p] /\ outbox'[p] = outbox[p]
      /\ session'[p] = session[p] /\ session'[q] = [h |-> h, canSend |-> FALSE]
  BY <1>1, <1>3, <1>6
<1>8. ASSUME ~S!Late(q, i)
      PROVE  /\ \A k \in Inits(d) : /\ k + 1 \in Inits(c) /\ d[k] = c[k + 1]
                                    /\ IsLast(d, k) => IsLast(c, k + 1)
                                    /\ \A g : Answers(c, k + 1, g) => Answers(d, k, g)
             /\ i \in Inits(c) /\ (Inits(d) = {} => IsLast(c, i))
             /\ \A g : Answers(c, i, g) => Answers(d, 0, g)
  <2>1. \A k \in 1..(i - 1) : c[k].type # "x3dh_init"
    BY <1>5, <1>8
  <2>2. c \in Seq(S!Packet) /\ i \in DOMAIN c /\ c[i].type = "x3dh_init" /\ d = S!RemoveAt(c, i)
    BY <1>2, <1>3, <1>6
  <2> QED BY <2>1, <2>2, MovedUp
<1>9. h \in Nat /\ S!Has(q)' /\ ~S!Sendable(q)' /\ (S!Has(p)' <=> S!Has(p)) /\ (S!Sendable(p)' <=> S!Sendable(p))
  <2>1. c[i] \in S!Packet
    BY <1>3, <1>6
  <2>2. h \in Nat
    BY <1>2, <2>1 DEF S!Packet
  <2> QED BY <1>7, <2>2, SessionConstants DEF S!Has, S!Sendable, S!NoSession, S!ConstantsOK
<1>10. ASSUME ~crossed', ~undone' PROVE Toward(p)' /\ Toward(q)'
  <2>1. Toward(q) /\ Inits(channel[p]) = {} /\ ~S!Late(q, i)
    BY <1>3, <1>4, <1>10 DEF SessionInv, JoinInv
  <2>2. \A k \in Inits(c) : IsLast(c, k) /\ S!Has(p) => session[p].h = c[k].h
    BY <1>1, <1>2, <2>1 DEF Toward
  <2>3. \A k \in Inits(d) : IsLast(d, k) /\ S!Has(p) => session[p].h = d[k].h
    BY <1>8, <2>1, <2>2
  <2>4. Inits(d) = {} /\ S!Has(p) => session[p].h = h
    BY <1>2, <1>8, <2>1, <2>2
  <2>5. Toward(q)'
    BY <1>1, <1>7, <1>9, <2>3, <2>4 DEF Toward
  <2>6. Toward(p)'
    BY <1>1, <1>7, <1>9, <2>1, <2>4 DEF Toward
  <2> QED BY <2>5, <2>6
<1>11. ASSUME ~crossed', ~cut' PROVE Served(p)' /\ Served(q)'
  <2>1. Served(q) /\ Inits(channel[p]) = {} /\ ~S!Late(q, i)
    BY <1>3, <1>4, <1>11 DEF SessionInv, BootInv
  <2>2. \A k \in Inits(c) : IsLast(c, k) => S!Sendable(p) /\ Owes(p, q, k)
    BY <1>1, <1>2, <2>1 DEF Served
  <2>3. \A k \in Inits(d) : Owes(p, q, k + 1) => Owes(p, q, k)'
    BY <1>2, <1>3, <1>7, <1>8, <2>1 DEF Owes
  <2>4. \A k \in Inits(d) : IsLast(d, k) => S!Sendable(p) /\ Owes(p, q, k)'
    BY <1>8, <2>1, <2>2, <2>3
  <2>5. Inits(d) = {} => S!Sendable(p) /\ Owes(p, q, 0)'
    <3>1. Inits(d) = {} => S!Sendable(p) /\ Owes(p, q, i)
      BY <1>8, <2>1, <2>2
    <3>2. Owes(p, q, i) => Owes(p, q, 0)'
      BY <1>2, <1>3, <1>7, <1>8, <2>1 DEF Owes
    <3> QED BY <3>1, <3>2
  <2>6. S!Sendable(p) => S!Has(p)
    BY OfOne DEF SessionInv
  <2>7. Served(q)'
    BY <1>1, <1>7, <1>9, <2>4, <2>5, <2>6 DEF Served
  <2>8. Served(p)'
    BY <1>1, <1>7, <1>9, <2>1, <2>5, <2>6 DEF Served
  <2> QED BY <2>7, <2>8
<1> QED BY <1>1, <1>10, <1>11, OfTwo

\* A packet arrives that opens.
LEMMA HandleJoins ==
    ASSUME SessionInv, NEW q \in Peers, NEW i \in DOMAIN channel[q], S!handleDataPacket(q, i)
    PROVE  JoinInv' /\ BootInv'
<1>1. PICK p \in Peers : p = S!Other(q) /\ q # p /\ S!Other(p) = q
  BY TwoDevices
<1>2. PICK c, d : c = channel[q] /\ d = S!RemoveAt(c, i)
  OBVIOUS
<1>3. /\ i \in DOMAIN c /\ c[i].type # "x3dh_init" /\ S!Has(q)
      /\ channel' = [channel EXCEPT ![q] = d] /\ S!Take(q, i)
      /\ session' = [session EXCEPT ![q].canSend = TRUE]
      /\ \/ outbox' = outbox
         \/ \E b : outbox' = [outbox EXCEPT ![q] = @ \cup {b}]
      /\ UNCHANGED <<handing, crossed>>
  BY <1>1, <1>2 DEF S!handleDataPacket, S!Arrive, S!Take, S!IsInit, S!Opens
<1>4. undone' = undone /\ cut' = (cut \/ S!Late(q, i))
  BY DEF S!handleDataPacket, S!Arrive, S!IsInit, SessionInv, S!TypeOK
<1>5. ~S!Late(q, i) => \A k \in 1..(i - 1) : c[k].type # "x3dh_init"
  BY <1>2 DEF S!Late, S!IsInit
<1>6. /\ c \in Seq(S!Packet) /\ channel \in [Peers -> Seq(S!Packet)]
      /\ outbox \in [Peers -> SUBSET S!Body]
      /\ session \in [Peers -> [h : Nat, canSend : BOOLEAN] \cup {S!NoSession}]
  BY <1>2 DEF SessionInv, S!TypeOK
<1>7. /\ channel'[q] = d /\ channel'[p] = channel[p] /\ outbox'[p] = outbox[p]
      /\ outbox[q] # {} => outbox'[q] # {}
      /\ session'[p] = session[p]
  BY <1>1, <1>3, <1>6
<1>8. /\ Inits(d) = {} <=> Inits(c) = {}
      /\ ~S!Late(q, i) =>
           \A k \in Inits(d) : /\ k + 1 \in Inits(c) /\ d[k] = c[k + 1]
                               /\ IsLast(d, k) => IsLast(c, k + 1)
                               /\ \A g : Answers(c, k + 1, g) => Answers(d, k, g)
  <2>1. Inits(d) = {} <=> Inits(c) = {}
    BY <1>2, <1>3, <1>6, DataTaken
  <2>2. ASSUME ~S!Late(q, i)
        PROVE  \A k \in Inits(d) : /\ k + 1 \in Inits(c) /\ d[k] = c[k + 1]
                                   /\ IsLast(d, k) => IsLast(c, k + 1)
                                   /\ \A g : Answers(c, k + 1, g) => Answers(d, k, g)
    <3>1. \A k \in 1..(i - 1) : c[k].type # "x3dh_init"
      BY <1>5, <2>2
    <3>2. c \in Seq(S!Packet) /\ i \in DOMAIN c /\ d = S!RemoveAt(c, i)
      BY <1>2, <1>3, <1>6
    <3> QED BY <3>1, <3>2, MovedUp
  <2> QED BY <2>1, <2>2
<1>9. /\ session'[q].h = session[q].h /\ S!Has(q)' /\ S!Sendable(q)'
      /\ (S!Has(p)' <=> S!Has(p)) /\ (S!Sendable(p)' <=> S!Sendable(p))
  <2>1. session'[q] = [session[q] EXCEPT !.canSend = TRUE]
    BY <1>3, <1>6
  <2>2. session[q] \in [h : Nat, canSend : BOOLEAN]
    BY <1>3, <1>6 DEF S!Has
  <2>3. session'[q].h = session[q].h /\ session'[q].canSend
    BY <2>1, <2>2
  <2> QED BY <1>7, <2>3 DEF S!Has, S!Sendable, S!NoSession
<1>10. ASSUME ~crossed', ~undone' PROVE Toward(p)' /\ Toward(q)'
  <2>1. \A x \in Peers : session'[x].h = session[x].h /\ (S!Has(x)' <=> S!Has(x))
    BY <1>1, <1>3, <1>7, <1>9, TwoDevices
  <2>2. ~crossed /\ ~undone
    BY <1>3, <1>4, <1>10
  <2> QED BY <1>2, <1>3, <2>1, <2>2, TowardStill
<1>11. ASSUME ~crossed', ~cut' PROVE Served(p)' /\ Served(q)'
  <2>1. Served(q) /\ Served(p) /\ ~S!Late(q, i)
    BY <1>3, <1>4, <1>11 DEF SessionInv, BootInv
  <2>3. \A k \in Inits(d) : Owes(p, q, k + 1) => Owes(p, q, k)'
    BY <1>2, <1>3, <1>7, <1>8, <2>1 DEF Owes
  <2>4. ASSUME Inits(channel[p]) = {}
        PROVE  \A k \in Inits(d) : IsLast(d, k) => S!Sendable(p) /\ Owes(p, q, k)'
    <3>1. \A k \in Inits(c) : IsLast(c, k) => S!Sendable(p) /\ Owes(p, q, k)
      BY <1>1, <1>2, <2>1, <2>4 DEF Served
    <3> QED BY <1>8, <2>1, <2>3, <3>1
  <2>5. \A k : Owes(q, p, k) => Owes(q, p, k)'
    BY <1>3, <1>7, <1>9 DEF Owes
  <2>7. Served(q)'
    BY <1>1, <1>2, <1>3, <1>7, <1>8, <1>9, <2>1, <2>4 DEF Served
  <2>8. Served(p)'
    BY <1>1, <1>2, <1>3, <1>7, <1>8, <1>9, <2>1, <2>5 DEF Served
  <2> QED BY <2>7, <2>8
<1> QED BY <1>1, <1>10, <1>11, OfTwo

\* A packet that does not open is not the one owed.
LEMMA UndecryptableJoins ==
    ASSUME SessionInv, NEW q \in Peers, NEW i \in DOMAIN channel[q], S!Undecryptable(q, i)
    PROVE  JoinInv' /\ BootInv'
<1>1. PICK p \in Peers : p = S!Other(q) /\ q # p /\ S!Other(p) = q
  BY TwoDevices
<1>2. PICK c, d : c = channel[q] /\ d = S!RemoveAt(c, i)
  OBVIOUS
<1>3. /\ i \in DOMAIN c /\ c[i].type # "x3dh_init"
      /\ channel' = [channel EXCEPT ![q] = d] /\ S!Take(q, i)
      /\ S!Has(q) => c[i].h # session[q].h
      /\ UNCHANGED <<session, outbox, handing, crossed>>
  BY <1>1, <1>2 DEF S!Undecryptable, S!Arrive, S!Take, S!IsInit, S!Opens
<1>4. undone' = undone /\ cut' = (cut \/ S!Late(q, i))
  BY DEF S!Undecryptable, S!Arrive, S!IsInit, SessionInv, S!TypeOK
<1>5. ~S!Late(q, i) => \A k \in 1..(i - 1) : c[k].type # "x3dh_init"
  BY <1>2 DEF S!Late, S!IsInit
<1>6. c \in Seq(S!Packet) /\ channel \in [Peers -> Seq(S!Packet)]
  BY <1>2 DEF SessionInv, S!TypeOK
<1>7. channel'[q] = d /\ channel'[p] = channel[p]
  BY <1>1, <1>3, <1>6
<1>8. /\ Inits(d) = {} <=> Inits(c) = {}
      /\ \A g : Answers(c, 0, g) /\ c[i].h # g => Answers(d, 0, g)
      /\ ~S!Late(q, i) =>
           \A k \in Inits(d) : /\ k + 1 \in Inits(c) /\ d[k] = c[k + 1]
                               /\ IsLast(d, k) => IsLast(c, k + 1)
                               /\ \A g : Answers(c, k + 1, g) => Answers(d, k, g)
  <2>1. /\ Inits(d) = {} <=> Inits(c) = {}
        /\ \A g : Answers(c, 0, g) /\ c[i].h # g => Answers(d, 0, g)
    BY <1>2, <1>3, <1>6, DataTaken
  <2>2. ASSUME ~S!Late(q, i)
        PROVE  \A k \in Inits(d) : /\ k + 1 \in Inits(c) /\ d[k] = c[k + 1]
                                   /\ IsLast(d, k) => IsLast(c, k + 1)
                                   /\ \A g : Answers(c, k + 1, g) => Answers(d, k, g)
    <3>1. \A k \in 1..(i - 1) : c[k].type # "x3dh_init"
      BY <1>5, <2>2
    <3>2. c \in Seq(S!Packet) /\ i \in DOMAIN c /\ d = S!RemoveAt(c, i)
      BY <1>2, <1>3, <1>6
    <3> QED BY <3>1, <3>2, MovedUp
  <2> QED BY <2>1, <2>2
<1>9. /\ \A x \in Peers : (S!Has(x)' <=> S!Has(x)) /\ (S!Sendable(x)' <=> S!Sendable(x))
  BY <1>3 DEF S!Has, S!Sendable
<1>10. ASSUME ~crossed', ~undone' PROVE Toward(p)' /\ Toward(q)'
  <2>1. ~crossed /\ ~undone /\ \A x \in Peers : session'[x].h = session[x].h
    BY <1>3, <1>4, <1>10
  <2> QED BY <1>2, <1>3, <1>9, <2>1, TowardStill
<1>11. ASSUME ~crossed', ~cut' PROVE Served(p)' /\ Served(q)'
  <2>1. Served(q) /\ Served(p) /\ Toward(q) /\ ~S!Late(q, i)
    BY <1>3, <1>4, <1>11 DEF SessionInv, BootInv, JoinInv
  <2>3. \A k \in Inits(d) : Owes(p, q, k + 1) => Owes(p, q, k)'
    BY <1>2, <1>3, <1>7, <1>8, <2>1 DEF Owes
  <2>4. ASSUME Inits(channel[p]) = {}
        PROVE  \A k \in Inits(d) : IsLast(d, k) => S!Sendable(p) /\ Owes(p, q, k)'
    <3>1. \A k \in Inits(c) : IsLast(c, k) => S!Sendable(p) /\ Owes(p, q, k)
      BY <1>1, <1>2, <2>1, <2>4 DEF Served
    <3> QED BY <1>8, <2>1, <2>3, <3>1
  <2>5. \A k : Owes(q, p, k) => Owes(q, p, k)'
    BY <1>3, <1>7 DEF Owes
  <2>6. ASSUME Inits(channel[p]) = {}, Inits(c) = {}, S!Has(q), ~S!Sendable(q)
        PROVE  S!Sendable(p) /\ Owes(p, q, 0)'
    <3>1. S!Sendable(p) /\ Owes(p, q, 0) /\ S!Has(p)
      BY <1>1, <1>2, <2>1, <2>6 DEF Served
    <3>2. session[p].h = session[q].h
      BY <1>1, <1>2, <2>1, <2>6, <3>1 DEF Toward
    <3>3. Answers(c, 0, session[p].h) => Answers(d, 0, session[p].h)
      BY <1>3, <1>8, <2>6, <3>2
    <3> QED BY <1>2, <1>3, <1>7, <3>1, <3>3 DEF Owes
  <2>7. Served(q)'
    BY <1>1, <1>2, <1>3, <1>7, <1>8, <1>9, <2>1, <2>4, <2>6 DEF Served
  <2>8. Served(p)'
    BY <1>1, <1>2, <1>3, <1>7, <1>8, <1>9, <2>1, <2>5 DEF Served
  <2> QED BY <2>7, <2>8
<1> QED BY <1>1, <1>10, <1>11, OfTwo

\* A packet is lost: an x3dh_init does not get through, another one is not needed
\* for the sessions to be of one handshake.
LEMMA LoseJoins ==
    ASSUME SessionInv, NEW q \in Peers, NEW i \in DOMAIN channel[q], S!Lose(q, i)
    PROVE  JoinInv' /\ BootInv'
<1>1. /\ UNCHANGED <<session, crossed>> /\ S!Take(q, i) /\ cut'
      /\ undone' = (undone \/ S!IsInit(q, i))
  BY DEF S!Lose
<1>2. \A x \in Peers : session'[x].h = session[x].h /\ (S!Has(x)' <=> S!Has(x))
  BY <1>1 DEF S!Has
<1>3. ASSUME ~crossed', ~undone', NEW x \in Peers PROVE Toward(x)'
  <2>1. ~crossed /\ ~undone /\ channel[q][i].type # "x3dh_init"
    BY <1>1, <1>3 DEF S!IsInit
  <2> QED BY <1>1, <1>2, <2>1, TowardStill
<1> QED BY <1>1, <1>3 DEF JoinInv, BootInv

\* A device comes back with the session it stored.
LEMMA RestartJoins ==
    ASSUME SessionInv, NEW p \in Peers, S!Restart(p)
    PROVE  JoinInv' /\ BootInv'
<1>1. /\ session' = [session EXCEPT ![p] = stored[p]] /\ UNCHANGED <<channel, crossed>> /\ cut'
      /\ undone' = (undone \/ stored[p].h # session[p].h)
  BY DEF S!Restart
<1>2. ASSUME ~crossed', ~undone', NEW x \in Peers PROVE Toward(x)'
  <2>1. ~crossed /\ ~undone /\ stored[p].h = session[p].h
    BY <1>1, <1>2
  <2>2. /\ session \in [Peers -> [h : Nat, canSend : BOOLEAN] \cup {S!NoSession}]
        /\ stored \in [Peers -> [h : Nat, canSend : BOOLEAN] \cup {S!NoSession}]
    BY DEF SessionInv, S!TypeOK
  <2>3. stored[p] # S!NoSession <=> session[p] # S!NoSession
    <3>1. \A y \in [h : Nat, canSend : BOOLEAN] : y.h \in Nat /\ y # S!NoSession
      BY SessionConstants DEF S!NoSession, S!ConstantsOK
    <3>2. S!NoSession.h = None /\ None \notin Nat
      BY SessionConstants DEF S!NoSession, S!ConstantsOK
    <3>3. /\ session[p] \in [h : Nat, canSend : BOOLEAN] \/ session[p] = S!NoSession
          /\ stored[p] \in [h : Nat, canSend : BOOLEAN] \/ stored[p] = S!NoSession
      BY <2>2
    <3> QED BY <2>1, <3>1, <3>2, <3>3
  <2>4. \A y \in Peers : session'[y].h = session[y].h /\ (S!Has(y)' <=> S!Has(y))
    BY <1>1, <2>1, <2>2, <2>3 DEF S!Has
  <2> QED BY <1>1, <2>1, <2>4, TowardStill
<1> QED BY <1>1, <1>2 DEF JoinInv, BootInv

\* Every step keeps the invariant.
LEMMA SessionSteps ==
    ASSUME SessionInv, [S!Next]_(S!vars)
    PROVE  JoinInv' /\ BootInv' /\ (undone' => cut')
<1>1. S!TypeOK
  BY DEF SessionInv
<1>2. ASSUME (S!vars)' = S!vars \/ \E p \in Peers : \/ S!ensureSession(p) \/ S!addContactByKey(p)
                                               \/ S!resetSession(p) \/ S!PingTimeout(p)
                                               \/ S!Persist(p)
      PROVE  JoinInv' /\ BootInv'
  <2>1. UNCHANGED <<session, handing, outbox, channel, crossed, undone, cut>>
    BY <1>2 DEF S!vars, S!history, S!ensureSession, S!addContactByKey, S!resetSession, S!PingTimeout,
                S!Persist
  <2> QED BY <2>1, SessionStill
<1>3. ASSUME NEW p \in Peers, S!SendPing(p)
      PROVE  JoinInv' /\ BootInv'
  <2>1. /\ UNCHANGED <<session, handing, channel, crossed, undone, cut>>
        /\ \A q \in Peers : outbox[q] # {} => outbox'[q] # {}
    BY <1>1, <1>3 DEF S!SendPing, S!TypeOK, S!history
  <2> QED BY <2>1, SessionStill
<1>4. ASSUME NEW p \in Peers, NEW h \in handing[p], S!Initiated(p, h)
      PROVE  JoinInv' /\ BootInv'
  <2>1. /\ UNCHANGED <<session, channel, crossed, undone, cut>>
        /\ \A q \in Peers : outbox[q] # {} => outbox'[q] # {}
        /\ \A q \in Peers : handing[q] # {} => handing'[q] # {} \/ outbox'[q] # {}
    BY <1>1, <1>4 DEF S!Initiated, S!TypeOK, S!history
  <2> QED BY <2>1, SessionStill
<1>5. ASSUME NEW p \in Peers, NEW b \in outbox[p], S!GiveUp(p, b)
      PROVE  JoinInv' /\ BootInv'
  <2>1. /\ UNCHANGED <<session, handing, channel, crossed, undone, cut>> /\ ~S!Sendable(p)
        /\ \A q \in Peers : q # p => outbox'[q] = outbox[q]
    BY <1>1, <1>5 DEF S!GiveUp, S!TypeOK, S!history
  <2> QED BY <2>1, SessionStill
<1>6. undone' => cut'
  <2>0. undone => cut
    BY DEF SessionInv
  <2>1. CASE (S!vars)' = S!vars
    <3>1. undone' = undone /\ cut' = cut
      BY <2>1 DEF S!vars, S!history
    <3> QED BY <2>0, <3>1
  <2>2. ASSUME NEW p \in Peers, \/ S!ensureSession(p) \/ S!addContactByKey(p) \/ S!resetSession(p)
                                \/ S!PingTimeout(p) \/ S!Persist(p) \/ S!SendPing(p)
        PROVE  undone' => cut'
    <3>1. undone' = undone /\ cut' = cut
      BY <2>2 DEF S!ensureSession, S!addContactByKey, S!resetSession, S!PingTimeout, S!Persist,
                  S!SendPing, S!history
    <3> QED BY <2>0, <3>1
  <2>3. ASSUME NEW p \in Peers, S!initiateHandshake(p) \/ S!deleteSession(p) \/ S!Restart(p)
        PROVE  undone' => cut'
    <3>1. cut' \/ (undone' = undone /\ cut' = cut)
      <4>1. CASE S!initiateHandshake(p)
        <5>1. CASE UNCHANGED <<losses, undone, cut>>
          BY <5>1
        <5>2. CASE cut' = TRUE
          BY <5>2
        <5> QED BY <4>1, <5>1, <5>2 DEF S!initiateHandshake
      <4>2. CASE S!deleteSession(p) \/ S!Restart(p)
        BY <4>2 DEF S!deleteSession, S!Restart
      <4> QED BY <2>3, <4>1, <4>2
    <3> QED BY <2>0, <3>1
  <2>4. ASSUME NEW q \in Peers, NEW i \in DOMAIN channel[q],
               \/ S!completeIncomingHandshake(q, i) \/ S!handleDataPacket(q, i)
               \/ S!Undecryptable(q, i) \/ S!Lose(q, i)
        PROVE  undone' => cut'
    <3>1. S!Arrive(q, i) \/ cut'
      BY <2>4 DEF S!completeIncomingHandshake, S!handleDataPacket, S!Undecryptable, S!Lose
    <3> QED BY <2>0, <3>1 DEF S!Arrive
  <2>5. ASSUME NEW p \in Peers, \/ \E h \in handing[p] : S!Initiated(p, h)
                                \/ \E b \in outbox[p] : S!Encrypt(p, b) \/ S!GiveUp(p, b)
        PROVE  undone' => cut'
    <3>1. undone' = undone /\ cut' = cut
      BY <2>5 DEF S!Initiated, S!Encrypt, S!GiveUp, S!history
    <3> QED BY <2>0, <3>1
  <2> QED BY <2>1, <2>2, <2>3, <2>4, <2>5 DEF S!Next
<1>7. JoinInv' /\ BootInv'
  BY <1>2, <1>3, <1>4, <1>5, InitiateJoins, DeleteJoins, EncryptJoins, CompleteJoins, HandleJoins,
     UndecryptableJoins, LoseJoins, RestartJoins DEF S!Next
<1> QED BY <1>6, <1>7

\* Most calls only count.
LEMMA BeginTyped ==
    ASSUME S!TypeOK, NEW p \in Peers, S!begin(p) \/ UNCHANGED <<handshakes, starting>>
    PROVE  starting' \in [Peers -> Nat] /\ handshakes' \in Nat
<1>1. starting \in [Peers -> Nat] /\ handshakes \in Nat
  BY DEF S!TypeOK
<1> QED BY <1>1 DEF S!begin

\* Every variable keeps its type.
LEMMA SessionTypes ==
    ASSUME S!TypeOK, [S!Next]_(S!vars)
    PROVE  S!TypeOK'
<1>1. ASSUME NEW p \in Peers, \/ S!ensureSession(p) \/ S!addContactByKey(p) \/ S!resetSession(p)
      PROVE  S!TypeOK'
  <2>1. /\ S!begin(p)
        /\ UNCHANGED <<session, stored, handing, outbox, ping, pinged, channel, drawn, restarts, losses,
                       crossed, undone, cut>>
    BY <1>1 DEF S!ensureSession, S!addContactByKey, S!resetSession, S!history
  <2>2. starting' \in [Peers -> Nat] /\ handshakes' \in Nat
    BY <2>1, BeginTyped
  <2> QED BY <2>1, <2>2 DEF S!TypeOK
<1>2. ASSUME NEW p \in Peers, S!initiateHandshake(p)
      PROVE  S!TypeOK'
  <2>1. starting[p] - 1 \in Nat /\ drawn \in Nat /\ S!Other(p) \in Peers
    BY <1>2, TwoDevices DEF S!initiateHandshake, S!TypeOK
  <2>2. [h |-> drawn, canSend |-> TRUE] \in [h : Nat, canSend : BOOLEAN]
    BY <2>1
  <2>3. [type |-> "x3dh_init", h |-> drawn] \in S!Packet
    BY <2>1 DEF S!Packet
  <2>4. session' \in [Peers -> [h : Nat, canSend : BOOLEAN] \cup {S!NoSession}]
    BY <1>2, <2>2 DEF S!initiateHandshake, S!TypeOK
  <2>5. channel' \in [Peers -> Seq(S!Packet)] /\ handing' \in [Peers -> SUBSET Nat]
    <3>1. channel \in [Peers -> Seq(S!Packet)] /\ handing \in [Peers -> SUBSET Nat]
      BY DEF S!TypeOK
    <3>2. CASE UNCHANGED <<channel, handing>>
      BY <3>1, <3>2
    <3>3. CASE /\ channel' = [channel EXCEPT ![S!Other(p)] =
                               Append(@, [type |-> "x3dh_init", h |-> drawn])]
               /\ handing' = [handing EXCEPT ![p] = @ \cup {drawn}]
      BY <2>1, <2>3, <3>1, <3>3
    <3> QED BY <1>2, <3>2, <3>3 DEF S!initiateHandshake
  <2>6. starting' \in [Peers -> Nat] /\ drawn' \in Nat
    BY <1>2, <2>1 DEF S!initiateHandshake, S!TypeOK
  <2>7. losses' \in Nat /\ undone' \in BOOLEAN /\ cut' \in BOOLEAN
    <3>1. losses \in Nat /\ undone \in BOOLEAN /\ cut \in BOOLEAN
      BY DEF S!TypeOK
    <3>2. losses' \in Nat
      BY <1>2, <3>1 DEF S!initiateHandshake
    <3>4. undone' \in BOOLEAN /\ cut' \in BOOLEAN
      BY <1>2, <3>1, Zenon DEF S!initiateHandshake
    <3> QED BY <3>2, <3>4
  <2>8. UNCHANGED <<stored, outbox, ping, pinged, handshakes, restarts, crossed>>
    BY <1>2 DEF S!initiateHandshake
  <2> QED BY <2>4, <2>5, <2>6, <2>7, <2>8 DEF S!TypeOK
<1>3. ASSUME NEW p \in Peers, NEW h \in handing[p], S!Initiated(p, h)
      PROVE  S!TypeOK'
  <2>1. h \in Nat
    BY DEF S!TypeOK
  <2>2. [kind |-> "handshake_activate", id |-> h] \in S!Body
    BY <2>1 DEF S!Body, S!Kinds
  <2>3. outbox' \in [Peers -> SUBSET S!Body]
    BY <1>3, <2>2 DEF S!Initiated, S!TypeOK
  <2>4. /\ handing' \in [Peers -> SUBSET Nat] /\ ping' \in [Peers -> Nat \cup {None}]
        /\ pinged' \in [Peers -> BOOLEAN]
    BY <1>3, <2>1 DEF S!Initiated, S!TypeOK
  <2> QED BY <1>3, <2>3, <2>4 DEF S!Initiated, S!TypeOK, S!counts, S!history
<1>4. ASSUME NEW p \in Peers, S!deleteSession(p)
      PROVE  S!TypeOK'
  <2>1. session' \in [Peers -> [h : Nat, canSend : BOOLEAN] \cup {S!NoSession}]
    BY <1>4 DEF S!deleteSession, S!TypeOK
  <2> QED BY <1>4, <2>1 DEF S!deleteSession, S!TypeOK, S!counts, S!history
<1>5. ASSUME NEW p \in Peers, NEW b \in outbox[p], S!Encrypt(p, b)
      PROVE  S!TypeOK'
  <2>1. b \in S!Body /\ session[p].h \in Nat /\ S!Other(p) \in Peers
    BY <1>5, OfOne, TwoDevices DEF S!Encrypt, S!TypeOK
  <2>2. [type |-> "data", h |-> session[p].h, body |-> b] \in S!Packet
    BY <2>1 DEF S!Packet
  <2>3. channel' \in [Peers -> Seq(S!Packet)]
    BY <1>5, <2>1, <2>2 DEF S!Encrypt, S!TypeOK
  <2>4. outbox' \in [Peers -> SUBSET S!Body]
    BY <1>5 DEF S!Encrypt, S!TypeOK
  <2> QED BY <1>5, <2>3, <2>4 DEF S!Encrypt, S!TypeOK, S!counts, S!history
<1>6. ASSUME NEW p \in Peers, NEW b \in outbox[p], S!GiveUp(p, b)
      PROVE  S!TypeOK'
  <2>1. outbox' \in [Peers -> SUBSET S!Body]
    BY <1>6 DEF S!GiveUp, S!TypeOK
  <2> QED BY <1>6, <2>1 DEF S!GiveUp, S!TypeOK, S!counts, S!history
<1>7. ASSUME NEW p \in Peers, S!SendPing(p)
      PROVE  S!TypeOK'
  <2>1. ping[p] \in Nat
    BY <1>7 DEF S!SendPing, S!TypeOK
  <2>2. [kind |-> "session_ping", id |-> ping[p]] \in S!Body
    BY <2>1 DEF S!Body, S!Kinds
  <2>3. outbox' \in [Peers -> SUBSET S!Body] /\ pinged' \in [Peers -> BOOLEAN]
    BY <1>7, <2>2 DEF S!SendPing, S!TypeOK
  <2> QED BY <1>7, <2>3 DEF S!SendPing, S!TypeOK, S!counts, S!history
<1>8. ASSUME NEW p \in Peers, S!PingTimeout(p)
      PROVE  S!TypeOK'
  <2>1. starting' \in [Peers -> Nat] /\ handshakes' \in Nat
    BY <1>8, BeginTyped DEF S!PingTimeout, S!targetedReestablish
  <2>2. ping' \in [Peers -> Nat \cup {None}] /\ pinged' \in [Peers -> BOOLEAN]
    BY <1>8 DEF S!PingTimeout, S!TypeOK
  <2> QED BY <1>8, <2>1, <2>2 DEF S!PingTimeout, S!TypeOK, S!history
<1>9. ASSUME NEW q \in Peers, NEW i \in DOMAIN channel[q], S!Take(q, i)
      PROVE  channel' \in [Peers -> Seq(S!Packet)] /\ channel[q][i] \in S!Packet
  <2>1. PICK c, d : c = channel[q] /\ d = S!RemoveAt(c, i)
    OBVIOUS
  <2>2. c \in Seq(S!Packet) /\ i \in DOMAIN c
    BY <2>1 DEF S!TypeOK
  <2>3. d \in Seq(S!Packet) /\ c[i] \in S!Packet
    BY <2>1, <2>2, TakenOut
  <2> QED BY <1>9, <2>1, <2>3 DEF S!Take, S!TypeOK
<1>90. ASSUME NEW q \in Peers, NEW i \in DOMAIN channel[q], S!Arrive(q, i)
       PROVE  /\ channel' \in [Peers -> Seq(S!Packet)] /\ channel[q][i] \in S!Packet
              /\ undone' \in BOOLEAN /\ cut' \in BOOLEAN
  <2>1. undone' \in BOOLEAN /\ cut' \in BOOLEAN
    BY <1>90 DEF S!Arrive, S!TypeOK
  <2> QED BY <1>9, <1>90, <2>1 DEF S!Arrive
<1>10. ASSUME NEW q \in Peers, NEW i \in DOMAIN channel[q], S!completeIncomingHandshake(q, i)
       PROVE  S!TypeOK'
  <2>1. PICK h : h = channel[q][i].h
    OBVIOUS
  <2>2. channel' \in [Peers -> Seq(S!Packet)] /\ undone' \in BOOLEAN /\ cut' \in BOOLEAN /\ h \in Nat
    BY <1>90, <1>10, <2>1 DEF S!completeIncomingHandshake, S!Packet
  <2>3. /\ session' = [session EXCEPT ![q] = [h |-> h, canSend |-> FALSE]]
        /\ outbox' = [outbox EXCEPT ![q] = @ \cup {[kind |-> "entropy_challenge", id |-> h]}]
        /\ ping' = [ping EXCEPT ![q] = None] /\ pinged' = [pinged EXCEPT ![q] = FALSE]
        /\ UNCHANGED <<stored, starting, handing, drawn, handshakes, restarts, losses>>
    BY <1>10, <2>1 DEF S!completeIncomingHandshake, S!counts
  <2>4. [kind |-> "entropy_challenge", id |-> h] \in S!Body
    BY <2>2 DEF S!Body, S!Kinds
  <2>5. outbox' \in [Peers -> SUBSET S!Body]
    BY <2>3, <2>4 DEF S!TypeOK
  <2>6. session' \in [Peers -> [h : Nat, canSend : BOOLEAN] \cup {S!NoSession}]
    BY <2>2, <2>3 DEF S!TypeOK
  <2>7. ping' \in [Peers -> Nat \cup {None}] /\ pinged' \in [Peers -> BOOLEAN]
    BY <2>3 DEF S!TypeOK
  <2>8. crossed' \in BOOLEAN
    BY <1>10 DEF S!completeIncomingHandshake, S!TypeOK
  <2> QED BY <2>2, <2>3, <2>5, <2>6, <2>7, <2>8 DEF S!TypeOK
<1>11. ASSUME NEW q \in Peers, NEW i \in DOMAIN channel[q], S!handleDataPacket(q, i)
       PROVE  S!TypeOK'
  <2>1. PICK b : b = channel[q][i].body
    OBVIOUS
  <2>2. channel' \in [Peers -> Seq(S!Packet)] /\ undone' \in BOOLEAN /\ cut' \in BOOLEAN /\ b \in S!Body
    BY <1>90, <1>11, <2>1 DEF S!handleDataPacket, S!IsInit, S!Packet
  <2>3. /\ session' = [session EXCEPT ![q].canSend = TRUE] /\ S!Has(q)
        /\ \/ outbox' = outbox
           \/ outbox' = [outbox EXCEPT ![q] = @ \cup {[kind |-> "session_pong", id |-> b.id]}]
        /\ ping' = ping \/ ping' = [ping EXCEPT ![q] = None]
        /\ pinged' = pinged \/ pinged' = [pinged EXCEPT ![q] = FALSE]
        /\ UNCHANGED <<stored, starting, handing, drawn, handshakes, restarts, losses, crossed>>
    BY <1>11, <2>1 DEF S!handleDataPacket, S!Opens, S!counts
  <2>4. [kind |-> "session_pong", id |-> b.id] \in S!Body
    BY <2>2 DEF S!Body, S!Kinds
  <2>5. outbox' \in [Peers -> SUBSET S!Body]
    <3>1. PICK x \in S!Body : x = [kind |-> "session_pong", id |-> b.id]
      BY <2>4
    <3>2. outbox \in [Peers -> SUBSET S!Body]
      BY DEF S!TypeOK
    <3>3. outbox' = outbox \/ outbox' = [outbox EXCEPT ![q] = @ \cup {x}]
      BY <2>3, <3>1
    <3> QED BY <3>2, <3>3
  <2>6. session' \in [Peers -> [h : Nat, canSend : BOOLEAN] \cup {S!NoSession}]
    <3>1. session[q] \in [h : Nat, canSend : BOOLEAN]
      BY <2>3 DEF S!TypeOK, S!Has
    <3>2. [session[q] EXCEPT !.canSend = TRUE] \in [h : Nat, canSend : BOOLEAN]
      BY <3>1
    <3>3. session' = [session EXCEPT ![q] = [session[q] EXCEPT !.canSend = TRUE]]
      BY <2>3
    <3> QED BY <3>2, <3>3 DEF S!TypeOK
  <2>7. ping' \in [Peers -> Nat \cup {None}] /\ pinged' \in [Peers -> BOOLEAN]
    BY <2>3 DEF S!TypeOK
  <2> QED BY <2>2, <2>3, <2>5, <2>6, <2>7 DEF S!TypeOK
<1>12. ASSUME NEW q \in Peers, NEW i \in DOMAIN channel[q], S!Undecryptable(q, i)
       PROVE  S!TypeOK'
  <2>1. starting' \in [Peers -> Nat] /\ handshakes' \in Nat
    BY <1>12, BeginTyped DEF S!Undecryptable, S!targetedReestablish
  <2>2. channel' \in [Peers -> Seq(S!Packet)] /\ undone' \in BOOLEAN /\ cut' \in BOOLEAN
    BY <1>90, <1>12 DEF S!Undecryptable
  <2> QED BY <1>12, <2>1, <2>2 DEF S!Undecryptable, S!TypeOK
<1>13. ASSUME NEW p \in Peers, S!Restart(p)
       PROVE  S!TypeOK'
  <2>1. /\ starting' \in [Peers -> Nat] /\ handing' \in [Peers -> SUBSET Nat]
        /\ outbox' \in [Peers -> SUBSET S!Body] /\ ping' \in [Peers -> Nat \cup {None}]
        /\ pinged' \in [Peers -> BOOLEAN] /\ drawn' \in Nat /\ restarts' \in Nat
    BY <1>13 DEF S!Restart, S!TypeOK
  <2>2. session' \in [Peers -> [h : Nat, canSend : BOOLEAN] \cup {S!NoSession}]
    BY <1>13 DEF S!Restart, S!TypeOK
  <2>3. undone' \in BOOLEAN /\ cut' \in BOOLEAN
    BY <1>13 DEF S!Restart, S!TypeOK
  <2> QED BY <1>13, <2>1, <2>2, <2>3 DEF S!Restart, S!TypeOK
<1>15. ASSUME NEW p \in Peers, S!Persist(p)
       PROVE  S!TypeOK'
  <2>1. stored' \in [Peers -> [h : Nat, canSend : BOOLEAN] \cup {S!NoSession}]
    BY <1>15 DEF S!Persist, S!TypeOK
  <2> QED BY <1>15, <2>1 DEF S!Persist, S!TypeOK, S!counts, S!history
<1>16. ASSUME NEW q \in Peers, NEW i \in DOMAIN channel[q], S!Lose(q, i)
       PROVE  S!TypeOK'
  <2>1. channel' \in [Peers -> Seq(S!Packet)]
    BY <1>9, <1>16 DEF S!Lose
  <2>2. losses' \in Nat /\ undone' \in BOOLEAN /\ cut' \in BOOLEAN
    BY <1>16 DEF S!Lose, S!TypeOK
  <2> QED BY <1>16, <2>1, <2>2 DEF S!Lose, S!TypeOK
<1>14. CASE (S!vars)' = S!vars
  BY <1>14 DEF S!vars, S!counts, S!history, S!TypeOK
<1> QED BY <1>1, <1>2, <1>3, <1>4, <1>5, <1>6, <1>7, <1>8, <1>10, <1>11, <1>12, <1>13, <1>14,
           <1>15, <1>16 DEF S!Next

\* At the start there is nothing.
LEMMA InitSession == S!Init => SessionInv
<1> SUFFICES ASSUME S!Init PROVE SessionInv
  OBVIOUS
<1>1. S!TypeOK
  <2>1. /\ session \in [Peers -> [h : Nat, canSend : BOOLEAN] \cup {S!NoSession}]
        /\ stored \in [Peers -> [h : Nat, canSend : BOOLEAN] \cup {S!NoSession}]
    BY DEF S!Init
  <2>2. /\ starting \in [Peers -> Nat] /\ handing \in [Peers -> SUBSET Nat]
        /\ outbox \in [Peers -> SUBSET S!Body] /\ ping \in [Peers -> Nat \cup {None}]
        /\ pinged \in [Peers -> BOOLEAN] /\ channel \in [Peers -> Seq(S!Packet)]
    BY DEF S!Init
  <2>3. {drawn, handshakes, restarts, losses} \subseteq Nat
    BY DEF S!Init
  <2>4. crossed \in BOOLEAN /\ undone \in BOOLEAN /\ cut \in BOOLEAN
    BY Zenon DEF S!Init
  <2>5. {crossed, undone, cut} \subseteq BOOLEAN
    BY <2>4, Zenon
  <2> QED BY <2>1, <2>2, <2>3, <2>5 DEF S!TypeOK
<1>2. ASSUME NEW q \in Peers PROVE Toward(q) /\ Served(q)
  <2>1. PICK p \in Peers : p = S!Other(q)
    BY TwoDevices
  <2>2. ~S!Has(p) /\ ~S!Has(q) /\ channel[q] = <<>> /\ Inits(<<>>) = {}
    BY DEF S!Init, S!Has, Inits
  <2> QED BY <2>1, <2>2 DEF Toward, Served
<1>3. ~undone
  BY DEF S!Init
<1> QED BY <1>1, <1>2, <1>3 DEF SessionInv, JoinInv, BootInv

\* At rest no handshake is under way, and nobody owes anything.
LEMMA SessionRests ==
    ASSUME SessionInv
    PROVE  S!SplitIsExplained /\ S!BootstrappedAtRest
<1>1. ASSUME S!Quiet, NEW q \in Peers
      PROVE  /\ Inits(channel[q]) = {} /\ \A i, h : ~Answers(channel[q], i, h)
             /\ handing[q] = {} /\ outbox[q] = {}
  <2>1. channel[q] = <<>> /\ handing[q] = {} /\ outbox[q] = {}
    BY <1>1 DEF S!Quiet
  <2> QED BY <2>1 DEF Inits, Answers
<1>2. ASSUME S!Quiet, ~crossed, ~undone, \A p \in Peers : S!Has(p)
      PROVE  S!Joined
  <2>1. ASSUME NEW p \in Peers, NEW q \in Peers PROVE session[p].h = session[q].h
    <3>1. p = q \/ p = S!Other(q)
      BY TwoDevices
    <3>2. CASE p = S!Other(q)
      BY <1>1, <1>2, <3>2 DEF SessionInv, JoinInv, Toward
    <3> QED BY <3>1, <3>2
  <2> QED BY <2>1 DEF S!Joined
<1>3. ASSUME S!Quiet, ~crossed, ~cut, NEW q \in Peers, S!Has(q)
      PROVE  S!Sendable(q)
  <2>1. PICK p \in Peers : p = S!Other(q)
    BY TwoDevices
  <2>2. Served(q) /\ ~Owes(p, q, 0)
    BY <1>1, <1>3 DEF SessionInv, BootInv, Owes
  <2> QED BY <1>1, <1>3, <2>1, <2>2 DEF Served
<1> QED BY <1>2, <1>3 DEF S!SplitIsExplained, S!BootstrappedAtRest

\* Handshakes converge: at rest two sessions come from one handshake unless two
\* crossed or one did not get through, and both can send unless, besides, a device
\* was restarted, a session deleted, or a packet lost or overtaken.
THEOREM SessionsMeet == S!Spec => []SessionsJoin
<1>1. S!Init => SessionInv
  BY InitSession
<1>2. SessionInv /\ [S!Next]_(S!vars) => SessionInv'
  BY SessionTypes, SessionSteps DEF SessionInv
<1>3. SessionInv => SessionsJoin
  BY SessionRests DEF SessionInv, SessionsJoin
<1> QED
  BY <1>1, <1>2, <1>3, PTL DEF S!Spec

-----------------------------------------------------------------------------
(* The devices of an account *)

\* What a device stores and sends of its contacts, and what it has in memory.
Lists ==
    [devices : [Device -> SUBSET Device], place : [Device -> Nat], places : Nat]
Views ==
    [devices : [Device -> SUBSET Device], place : [Device -> Nat], places : Nat,
     accountOf : [Device -> Device \cup {None}]]

Announcements == [kind : {"device_added", "device_revoked"}, device : Secondary, at : Nat \ {0}]
Messages ==
    [to : Device \ {Primary}, kind : {"device_added", "device_revoked"}, device : Secondary, at : Nat \ {0}]
      \cup [to : Device \ {Primary}, kind : {"device_linked"}, device : Secondary, at : Nat \ {0},
            linkChallenge : Nat, contactRecords : Lists]
Offers == [challenge : Nat, expiresAt : Nat]

\* No two accounts have the same place in a list.
Ordered(l) ==
    /\ \A a \in Device : l.place[a] <= l.places
    /\ \A a \in Device : l.devices[a] # {} => l.place[a] < l.places
    /\ \A a, b \in Device : l.devices[a] # {} /\ l.devices[b] # {} /\ l.place[a] = l.place[b] => a = b

\* A device is listed where it resolves to.
Resolves(v) == \A k \in Device : v.accountOf[k] # None => k \in v.devices[v.accountOf[k]]

DevicesTyped ==
    /\ mem \in [Device -> Views]
    /\ onDisk \in [Device -> [records : Lists, seen : [Secondary -> Nat]]]
    /\ seenAt \in [Device -> [Secondary -> Nat]]
    /\ unsaved \subseteq Device /\ unseen \subseteq Device /\ linking \subseteq Secondary
    /\ offers \subseteq [device : Secondary, challenge : Nat, expiresAt : Nat] /\ IsFiniteSet(offers)
    /\ calls \subseteq [announcement : Announcements, linked : Offers, saved : BOOLEAN]
    /\ net \subseteq Messages
    /\ now \in Nat \ {0} /\ left \in D!Allowance
    /\ minted \subseteq Announcements /\ told \in [Device -> SUBSET Announcements]
    /\ missed \in BOOLEAN /\ strayed \subseteq Device

ListsHold ==
    /\ \A x \in Device : Ordered(mem[x]) /\ Resolves(mem[x]) /\ Ordered(onDisk[x].records)
    /\ \A m \in net : m.kind = "device_linked" => Ordered(m.contactRecords)

\* What is not being written is on disk.
Stored ==
    \A x \in Device :
        /\ x \notin unsaved \cup linking /\ (x = Primary => \A c \in calls : c.saved)
              => onDisk[x].records.devices = mem[x].devices
        /\ x \notin unseen => onDisk[x].seen = seenAt[x]

\* No announcement is of the future, or of nobody.
Triple(m) == [kind |-> m.kind, device |-> m.device, at |-> m.at]
Dated ==
    /\ \A m \in minted : m.at <= now
    /\ \A x \in Device : told[x] \subseteq minted
    /\ \A c \in calls : c.announcement \in minted
    /\ \A m \in net : m.kind # "device_linked" => Triple(m) \in minted
    /\ \A x \in Device, k \in Secondary : onDisk[x].seen[k] <= seenAt[x][k] /\ seenAt[x][k] <= now

\* Only the primary's account has devices of other names.
Own(x) ==
    /\ mem[x].devices[Primary] \subseteq Secondary \cup {Primary}
    /\ \A a \in Device \ {Primary} : mem[x].devices[a] \subseteq {a}

Revoked(x, k) ==
    \E m \in told[x] \cup IF x = Primary THEN minted ELSE {} :
        m.device = k /\ m.kind = "device_revoked"

Unmapped(x) == \A a \in Device : \A k \in mem[x].devices[a] \ D!Mapped(mem[x]) : a = k /\ Revoked(x, k)

About(ms, k) == {m \in ms : m.device = k}

Member(x, k) == k \in mem[x].devices[Primary]

\* A device goes by the announcement with the latest time it was told.
Follows(x) ==
    \A k \in Secondary :
        /\ About(told[x], k) = {} => seenAt[x][k] = 0 /\ ~Member(x, k)
        /\ \A m \in About(told[x], k) : m.at <= seenAt[x][k]
        /\ About(told[x], k) # {} =>
              \E m \in About(told[x], k) :
                  m.at = seenAt[x][k] /\ (Member(x, k) <=> m.kind = "device_added")

\* The primary has done what it announced last.
Leads ==
    \A k \in Secondary :
        /\ About(minted, k) = {} => ~Member(Primary, k)
        /\ About(minted, k) # {} =>
              \E m \in About(minted, k) :
                  /\ \A n \in About(minted, k) : n.at <= m.at
                  /\ Member(Primary, k) <=> m.kind = "device_added"

\* The primary lists its contacts, and what it announced has reached each, is on its
\* way or will be sent.
Comes(c, m) ==
    \/ m \in told[c]
    \/ \E n \in net : n.to = c /\ n.kind # "device_linked" /\ Triple(n) = m
    \/ \E d \in calls : d.announcement = m

Unstrayed(x) ==
    /\ Own(x) /\ Unmapped(x)
    /\ x # Primary => Follows(x)
    /\ x = Primary => Leads /\ \A c \in Contact : c \in mem[Primary].devices[c]

Coming == ~missed /\ Primary \notin strayed => \A c \in Contact : \A m \in minted : Comes(c, m)

DevicesInv ==
    /\ DevicesTyped /\ ListsHold /\ Stored /\ Dated /\ Coming
    /\ \A x \in Device \ strayed : Unstrayed(x)

\* What Devices knows of finite sets is what is known of them here.
LEMMA DevicesCount ==
    ASSUME NEW X
    PROVE  (D!IsFiniteSet(X) <=> IsFiniteSet(X)) /\ D!Cardinality(X) = Cardinality(X)
<1>1. D!IsFiniteSet(X) <=> IsFiniteSet(X)
  BY DEF D!IsFiniteSet, IsFiniteSet
<1>2. D!Cardinality(X) = Cardinality(X)
  BY DEF D!Cardinality, Cardinality
<1> QED BY <1>1, <1>2

\* The list of a device, and an account's place in it.
LEMMA ViewsList ==
    ASSUME NEW v \in Views
    PROVE  /\ D!getContactRecords(v) \in Lists
           /\ D!getContactRecords(v).devices = v.devices /\ D!getContactRecords(v).place = v.place
           /\ D!getContactRecords(v).places = v.places
           /\ Ordered(v) => Ordered(D!getContactRecords(v))
  BY DEF Views, Lists, D!getContactRecords, Ordered

LEMMA Added ==
    ASSUME NEW v \in Views, Ordered(v), Resolves(v), NEW a \in Device, NEW ds \in SUBSET Device,
           NEW w, w = D!addContactAccount(v, a, ds)
    PROVE  /\ w \in Views /\ Ordered(w) /\ Resolves(w)
           /\ w.devices = [v.devices EXCEPT ![a] = @ \cup ds]
           /\ \A k \in Device : w.accountOf[k] = IF k \in ds THEN a ELSE v.accountOf[k]
<1>1. /\ v.devices \in [Device -> SUBSET Device] /\ v.place \in [Device -> Nat] /\ v.places \in Nat
      /\ v.accountOf \in [Device -> Device \cup {None}]
  BY DEF Views
<1>2. PICK b \in BOOLEAN : b <=> v.devices[a] # {}
  OBVIOUS
<1>3. /\ w.devices = [v.devices EXCEPT ![a] = @ \cup ds]
      /\ w.place = (IF b THEN v.place ELSE [v.place EXCEPT ![a] = v.places])
      /\ w.places = (IF b THEN v.places ELSE v.places + 1)
      /\ w.accountOf = [k \in Device |-> IF k \in ds THEN a ELSE v.accountOf[k]]
      /\ w = [devices |-> w.devices, place |-> w.place, places |-> w.places, accountOf |-> w.accountOf]
  BY <1>2 DEF D!addContactAccount, D!Accounts
<1>4. w \in Views
  <2>1. w.devices \in [Device -> SUBSET Device] /\ w.accountOf \in [Device -> Device \cup {None}]
    BY <1>1, <1>3
  <2>2. w.place \in [Device -> Nat] /\ w.places \in Nat
    BY <1>1, <1>3
  <2> QED BY <1>3, <2>1, <2>2 DEF Views
<1>5. Ordered(w)
  <2>1. CASE b
    <3>1. \A c \in Device : w.devices[c] # {} => v.devices[c] # {}
      BY <1>1, <1>2, <1>3, <2>1
    <3> QED BY <1>3, <2>1, <3>1 DEF Ordered
  <2>2. CASE ~b
    <3>1. \A c \in Device \ {a} : w.devices[c] = v.devices[c] /\ w.place[c] = v.place[c]
      BY <1>1, <1>3
    <3>2. w.place[a] = v.places /\ w.places = v.places + 1
      BY <1>1, <1>3, <2>2
    <3>3. \A c \in Device : v.place[c] \in Nat /\ v.place[c] <= v.places /\ (v.devices[c] # {} => v.place[c] < v.places)
      BY <1>1 DEF Ordered
    <3>4. \A c \in Device : w.place[c] <= w.places /\ (w.devices[c] # {} => w.place[c] < w.places)
      BY <1>1, <3>1, <3>2, <3>3
    <3>5. ASSUME NEW c \in Device, NEW d \in Device, w.devices[c] # {}, w.devices[d] # {}, w.place[c] = w.place[d]
          PROVE  c = d
      BY <1>1, <3>1, <3>2, <3>3, <3>5 DEF Ordered
    <3> QED BY <3>4, <3>5 DEF Ordered
  <2> QED BY <2>1, <2>2
<1>6. Resolves(w)
  <2>1. \A k \in Device : w.accountOf[k] = IF k \in ds THEN a ELSE v.accountOf[k]
    BY <1>3
  <2>2. \A c \in Device : v.devices[c] \subseteq w.devices[c]
    BY <1>1, <1>3
  <2>3. ds \subseteq w.devices[a]
    BY <1>1, <1>3
  <2>4. \A k \in Device : v.accountOf[k] # None => v.accountOf[k] \in Device
    BY <1>1
  <2> QED BY <2>1, <2>2, <2>3, <2>4 DEF Resolves
<1> QED BY <1>3, <1>4, <1>5, <1>6

LEMMA DeviceRemoved ==
    ASSUME NEW v \in Views, Ordered(v), Resolves(v), NEW a \in Device, NEW k \in Device, v.devices[a] # {},
           NEW w, w = D!removeDeviceFromContact(v, a, k)
    PROVE  /\ w \in Views /\ Ordered(w) /\ Resolves(w)
           /\ w.devices = [v.devices EXCEPT ![a] = @ \ {k}]
           /\ w.accountOf = [v.accountOf EXCEPT ![k] = None]
<1>1. /\ v.devices \in [Device -> SUBSET Device] /\ v.place \in [Device -> Nat] /\ v.places \in Nat
      /\ v.accountOf \in [Device -> Device \cup {None}]
  BY DEF Views
<1>6. PICK place \in [Device -> Nat] :
          place = (IF v.devices[a] = {k} THEN [v.place EXCEPT ![a] = 0] ELSE v.place)
  BY <1>1
<1>7. a \in D!Accounts(v)
  BY DEF D!Accounts
<1>2. /\ w.devices = [v.devices EXCEPT ![a] = @ \ {k}]
      /\ w.place = place
      /\ w.places = v.places
      /\ w.accountOf = [v.accountOf EXCEPT ![k] = None]
      /\ w = [devices |-> w.devices, place |-> w.place, places |-> w.places, accountOf |-> w.accountOf]
  BY <1>6, <1>7 DEF D!removeDeviceFromContact
<1>3. w \in Views
  <2>1. w.devices \in [Device -> SUBSET Device] /\ w.accountOf \in [Device -> Device \cup {None}]
    BY <1>1, <1>2
  <2>2. w.place \in [Device -> Nat] /\ w.places \in Nat
    BY <1>1, <1>2
  <2> QED BY <1>2, <2>1, <2>2 DEF Views
<1>4. Ordered(w)
  <2>1. \A c \in Device : w.devices[c] # {} => v.devices[c] # {} /\ w.place[c] = v.place[c]
    BY <1>1, <1>2, <1>6
  <2>2. \A c \in Device : w.place[c] = v.place[c] \/ w.place[c] = 0
    BY <1>1, <1>2, <1>6
  <2>3. \A c \in Device : w.place[c] <= w.places
    BY <1>1, <1>2, <2>2 DEF Ordered
  <2> QED BY <1>2, <2>1, <2>3 DEF Ordered
<1>5. Resolves(w)
  <2>1. ASSUME NEW j \in Device, w.accountOf[j] # None PROVE j \in w.devices[w.accountOf[j]]
    <3>1. j # k /\ w.accountOf[j] = v.accountOf[j]
      BY <1>1, <1>2, <2>1
    <3>2. v.accountOf[j] \in Device /\ j \in v.devices[v.accountOf[j]]
      BY <1>1, <2>1, <3>1 DEF Resolves
    <3> QED BY <1>1, <1>2, <3>1, <3>2
  <2> QED BY <2>1 DEF Resolves
<1> QED BY <1>2, <1>3, <1>4, <1>5

LEMMA ContactRemoved ==
    ASSUME NEW v \in Views, Ordered(v), Resolves(v), NEW p \in Device,
           NEW w, w = D!removeContact(v, p)
    PROVE  w \in Views /\ Ordered(w) /\ Resolves(w)
<1>1. /\ v.devices \in [Device -> SUBSET Device] /\ v.place \in [Device -> Nat] /\ v.places \in Nat
      /\ v.accountOf \in [Device -> Device \cup {None}]
  BY DEF Views
<1>2. CASE p \in D!Accounts(v)
  <2>1. /\ w.devices = [v.devices EXCEPT ![p] = {}] /\ w.place = [v.place EXCEPT ![p] = 0]
        /\ w.places = v.places
        /\ w.accountOf = [k \in Device |-> IF k \in v.devices[p] THEN None ELSE v.accountOf[k]]
        /\ w = [devices |-> w.devices, place |-> w.place, places |-> w.places, accountOf |-> w.accountOf]
    BY <1>2 DEF D!removeContact, Views
  <2>2. w \in Views
    <3>1. w.devices \in [Device -> SUBSET Device] /\ w.accountOf \in [Device -> Device \cup {None}]
      BY <1>1, <2>1
    <3>2. w.place \in [Device -> Nat] /\ w.places \in Nat
      BY <1>1, <2>1
    <3> QED BY <2>1, <3>1, <3>2 DEF Views
  <2>3. Ordered(w)
    <3>1. \A c \in Device : w.devices[c] # {} => v.devices[c] # {} /\ w.place[c] = v.place[c]
      BY <1>1, <2>1
    <3>2. \A c \in Device : w.place[c] = v.place[c] \/ w.place[c] = 0
      BY <1>1, <2>1
    <3>3. \A c \in Device : w.place[c] <= w.places
      BY <1>1, <2>1, <3>2 DEF Ordered
    <3> QED BY <2>1, <3>1, <3>3 DEF Ordered
  <2>4. Resolves(w)
    <3>1. ASSUME NEW j \in Device, w.accountOf[j] # None PROVE j \in w.devices[w.accountOf[j]]
      <4>1. j \notin v.devices[p] /\ w.accountOf[j] = v.accountOf[j]
        BY <1>1, <2>1, <3>1
      <4>2. v.accountOf[j] \in Device /\ j \in v.devices[v.accountOf[j]]
        BY <1>1, <3>1, <4>1 DEF Resolves
      <4> QED BY <1>1, <2>1, <4>1, <4>2
    <3> QED BY <3>1 DEF Resolves
  <2> QED BY <2>2, <2>3, <2>4
<1>3. CASE p \notin D!Accounts(v) /\ p \in D!Mapped(v)
  <2>1. PICK a \in Device : a = v.accountOf[p] /\ v.devices[a] # {}
    BY <1>1, <1>3 DEF D!Mapped, Resolves
  <2>2. w = D!removeDeviceFromContact(v, a, p)
    BY <1>3, <2>1 DEF D!removeContact
  <2>3. v.devices[a] # {}
    BY <2>1
  <2>4. ASSUME NEW u, u = D!removeDeviceFromContact(v, a, p)
        PROVE  u \in Views /\ Ordered(u) /\ Resolves(u)
    BY <2>3, <2>4, DeviceRemoved
  <2> QED BY <2>2, <2>4
<1>4. CASE p \notin D!Accounts(v) /\ p \notin D!Mapped(v)
  <2>1. w = v
    BY <1>4 DEF D!removeContact
  <2> QED BY <2>1
<1> QED BY <1>2, <1>3, <1>4

\* Among the accounts that list a device one is the last.
LEMMA LastLists ==
    ASSUME NEW l, l.devices \in [Device -> SUBSET Device], l.place \in [Device -> Nat], l.places \in Nat,
           Ordered(l), NEW k \in Device, \E a \in Device : k \in l.devices[a]
    PROVE  D!Last(l, k) \in Device /\ k \in l.devices[D!Last(l, k)]
<1> DEFINE after == {l.places - l.place[a] : a \in {b \in Device : k \in l.devices[b]}}
           less == {ss \in Nat \X Nat : ss[1] < ss[2]}
<1>1. \A a \in Device : l.place[a] \in Nat /\ l.place[a] <= l.places
  BY DEF Ordered
<1>2. \A a \in Device : l.places - l.place[a] \in Nat
  BY <1>1
<1>3. after \subseteq Nat /\ after # {}
  BY <1>2
<1>4. IsWellFoundedOn(less, Nat)
  BY NatLessThanWellFounded, Zenon DEF OpToRel
<1>5. PICK n \in after : \A i \in after : ~(<<i, n>> \in less)
  <2> HIDE DEF less, after
  <2> QED BY <1>3, <1>4, WFMin
<1>6. PICK a \in Device : k \in l.devices[a] /\ n = l.places - l.place[a]
  OBVIOUS
<1>7. ASSUME NEW b \in Device, k \in l.devices[b] PROVE l.place[b] <= l.place[a]
  <2>1. l.places - l.place[b] \in after /\ l.places - l.place[b] \in Nat /\ n \in Nat
    BY <1>2, <1>3, <1>7
  <2>2. ~(l.places - l.place[b] < n)
    BY <1>5, <2>1
  <2> QED BY <1>1, <1>6, <2>2
<1> QED BY <1>6, <1>7 DEF D!Last

LEMMA ListLoaded ==
    ASSUME NEW v \in Views, Ordered(v), Resolves(v), NEW l \in Lists, Ordered(l),
           NEW w, w = D!loadContactRecords(v, l)
    PROVE  /\ w \in Views /\ Ordered(w) /\ Resolves(w)
           /\ \A a \in Device : w.devices[a] = v.devices[a] \cup l.devices[a]
           /\ \A a, k \in Device : k \in l.devices[a] => w.accountOf[k] # None
<1>1. /\ v.devices \in [Device -> SUBSET Device] /\ v.place \in [Device -> Nat] /\ v.places \in Nat
      /\ v.accountOf \in [Device -> Device \cup {None}]
  BY DEF Views
<1>2. l.devices \in [Device -> SUBSET Device] /\ l.place \in [Device -> Nat] /\ l.places \in Nat
  BY DEF Lists
<1>3. /\ w.devices = [a \in Device |-> v.devices[a] \cup l.devices[a]]
      /\ w.place = [a \in Device |-> IF l.devices[a] # {} /\ v.devices[a] = {} THEN v.places + l.place[a]
                                     ELSE v.place[a]]
      /\ w.places = v.places + l.places
      /\ w.accountOf = [k \in Device |-> IF \E a \in Device : k \in l.devices[a] THEN D!Last(l, k)
                                         ELSE v.accountOf[k]]
      /\ w = [devices |-> w.devices, place |-> w.place, places |-> w.places, accountOf |-> w.accountOf]
  BY DEF D!loadContactRecords, D!Accounts
<1>4. \A k \in Device : (\E a \in Device : k \in l.devices[a]) => D!Last(l, k) \in Device /\ k \in l.devices[D!Last(l, k)]
  BY <1>2, LastLists
<1>5. w \in Views
  <2>1. w.devices \in [Device -> SUBSET Device]
    BY <1>1, <1>2, <1>3
  <2>2. w.accountOf \in [Device -> Device \cup {None}]
    BY <1>1, <1>3, <1>4
  <2>3. w.place \in [Device -> Nat] /\ w.places \in Nat
    BY <1>1, <1>2, <1>3
  <2> QED BY <1>3, <2>1, <2>2, <2>3 DEF Views
<1>6. Ordered(w)
  <2>1. \A a \in Device : /\ v.place[a] \in Nat /\ l.place[a] \in Nat
                          /\ v.place[a] <= v.places /\ l.place[a] <= l.places
                          /\ v.devices[a] # {} => v.place[a] < v.places
                          /\ l.devices[a] # {} => l.place[a] < l.places
    BY <1>1, <1>2 DEF Ordered
  <2>2. \A a \in Device : w.place[a] <= w.places /\ (w.devices[a] # {} => w.place[a] < w.places)
    BY <1>1, <1>2, <1>3, <2>1
  <2>3. ASSUME NEW a \in Device, NEW b \in Device, w.devices[a] # {}, w.devices[b] # {}, w.place[a] = w.place[b]
        PROVE  a = b
    <3>1. CASE v.devices[a] # {} /\ v.devices[b] # {}
      BY <1>3, <2>3, <3>1 DEF Ordered
    <3>2. CASE v.devices[a] = {} /\ v.devices[b] = {}
      <4>1. l.devices[a] # {} /\ l.devices[b] # {} /\ v.places + l.place[a] = v.places + l.place[b]
        BY <1>3, <2>3, <3>2
      <4>2. l.place[a] = l.place[b]
        BY <1>1, <2>1, <4>1
      <4> QED BY <4>1, <4>2 DEF Ordered
    <3>3. CASE v.devices[a] # {} /\ v.devices[b] = {}
      BY <1>1, <1>3, <2>1, <2>3, <3>3
    <3>4. CASE v.devices[a] = {} /\ v.devices[b] # {}
      BY <1>1, <1>3, <2>1, <2>3, <3>4
    <3> QED BY <3>1, <3>2, <3>3, <3>4
  <2> QED BY <2>2, <2>3 DEF Ordered
<1>7. \A a, k \in Device : k \in l.devices[a] => w.accountOf[k] # None
  BY <1>3, <1>4, DeviceConstants DEF D!ConstantsOK
<1>8. Resolves(w)
  <2>1. ASSUME NEW k \in Device, w.accountOf[k] # None PROVE k \in w.devices[w.accountOf[k]]
    <3>1. CASE \E a \in Device : k \in l.devices[a]
      BY <1>3, <1>4, <3>1
    <3>2. CASE ~ \E a \in Device : k \in l.devices[a]
      <4>1. w.accountOf[k] = v.accountOf[k]
        BY <1>3, <3>2
      <4>2. v.accountOf[k] \in Device /\ k \in v.devices[v.accountOf[k]]
        BY <1>1, <2>1, <4>1 DEF Resolves
      <4> QED BY <1>3, <4>1, <4>2
    <3> QED BY <3>1, <3>2
  <2> QED BY <2>1 DEF Resolves
<1> QED BY <1>3, <1>5, <1>6, <1>7, <1>8

\* The order in which handshakes made some peers known.
Orders(order, K) ==
    /\ IsFiniteSet(K) /\ order \in [K -> 0..Cardinality(K) - 1]
    /\ \A b, c \in K : order[b] = order[c] => b = c

\* A device that knows them.
Knew(v, K) ==
    /\ v \in Views /\ Ordered(v) /\ Resolves(v)
    /\ \A a \in Device : v.devices[a] = IF a \in K THEN {a} ELSE {}
    /\ \A k \in Device : v.accountOf[k] = IF k \in K THEN k ELSE None

LEMMA Knows ==
    ASSUME NEW K \in SUBSET Device, NEW order, Orders(order, K),
           NEW w, w = D!Knowing(order)
    PROVE  Knew(w, K)
<1>1. Cardinality(K) \in Nat /\ DOMAIN order = K
  BY FS_CardinalityType DEF Orders
<1>2. \A a \in K : order[a] \in Nat /\ order[a] < Cardinality(K)
  BY <1>1 DEF Orders
<1>3. /\ w.devices = [a \in Device |-> IF a \in K THEN {a} ELSE {}]
      /\ w.place = [a \in Device |-> IF a \in K THEN order[a] ELSE 0]
      /\ w.places = Cardinality(K)
      /\ w.accountOf = [k \in Device |-> IF k \in K THEN k ELSE None]
      /\ w = [devices |-> w.devices, place |-> w.place, places |-> w.places, accountOf |-> w.accountOf]
  BY <1>1, DevicesCount DEF D!Knowing
<1>4. w \in Views
  <2>1. w.devices \in [Device -> SUBSET Device] /\ w.accountOf \in [Device -> Device \cup {None}]
    BY <1>3
  <2>2. w.place \in [Device -> Nat] /\ w.places \in Nat
    BY <1>1, <1>2, <1>3
  <2> QED BY <1>3, <2>1, <2>2 DEF Views
<1>5. Ordered(w)
  <2>1. \A a \in Device : w.place[a] <= w.places /\ (w.devices[a] # {} => a \in K /\ w.place[a] = order[a])
    BY <1>1, <1>2, <1>3
  <2>2. \A a \in Device : w.devices[a] # {} => w.place[a] < w.places
    BY <1>2, <1>3, <2>1
  <2> QED BY <2>1, <2>2 DEF Ordered, Orders
<1>6. Resolves(w)
  BY <1>3 DEF Resolves
<1> QED BY <1>3, <1>4, <1>5, <1>6 DEF Knew

LEMMA DevicesApart ==
    /\ Primary \in Device /\ Secondary \subseteq Device /\ Contact \subseteq Device
    /\ Primary \notin Secondary /\ Primary \notin Contact /\ Secondary \cap Contact = {}
    /\ None \notin Device /\ OfferTtl \in Nat /\ Budgets \subseteq D!Allowance /\ IsFiniteSet(Contact)
  BY DeviceConstants, DevicesCount DEF D!ConstantsOK

LEMMA AllowanceLeft ==
    ASSUME left \in D!Allowance, D!Spend("calls") \/ D!Spend("offers") \/ D!Spend("handshakes") \/ D!Spend("removals")
                               \/ D!Spend("restarts") \/ D!Spend("losses") \/ D!Spend("ticks")
    PROVE  left' \in D!Allowance /\ left'.secondaries = left.secondaries
<1>1. PICK b \in {"calls", "offers", "handshakes", "removals", "restarts", "losses", "ticks"} : D!Spend(b)
  OBVIOUS
<1>2. left[b] \in Nat /\ left[b] > 0
  BY <1>1 DEF D!Spend, D!Allowance
<1>3. PICK z \in Nat : z = left[b] - 1
  BY <1>2
<1>4. left' = [left EXCEPT ![b] = z]
  BY <1>1, <1>3 DEF D!Spend
<1> QED BY <1>4 DEF D!Allowance

\* The view of one device is another.
ViewIs(x, v) == mem' = [mem EXCEPT ![x] = v]

\* The list of device x is written.
Writes(x) == onDisk' = [onDisk EXCEPT ![x].records = D!getContactRecords(mem[x])]

LEMMA Written ==
    ASSUME DevicesTyped, NEW x \in Device, Writes(x)
    PROVE  /\ onDisk' \in [Device -> [records : Lists, seen : [Secondary -> Nat]]]
           /\ onDisk'[x].records = D!getContactRecords(mem[x]) /\ onDisk'[x].records.devices = mem[x].devices
           /\ \A y \in Device : onDisk'[y].seen = onDisk[y].seen
           /\ \A y \in Device \ {x} : onDisk'[y] = onDisk[y]
           /\ ListsHold => \A y \in Device : Ordered(onDisk'[y].records)
<1>1. mem[x] \in Views
  BY DEF DevicesTyped
<1>2. PICK l \in Lists : l = D!getContactRecords(mem[x]) /\ l.devices = mem[x].devices /\ (Ordered(mem[x]) => Ordered(l))
  BY <1>1, ViewsList
<1>3. onDisk[x] \in [records : Lists, seen : [Secondary -> Nat]]
  BY DEF DevicesTyped
<1>4. PICK s : s = [onDisk[x] EXCEPT !.records = l]
  OBVIOUS
<1>5. s \in [records : Lists, seen : [Secondary -> Nat]] /\ s.records = l /\ s.seen = onDisk[x].seen
  BY <1>3, <1>4
<1>6. onDisk' = [onDisk EXCEPT ![x] = s]
  BY <1>2, <1>4 DEF Writes
<1> QED BY <1>2, <1>5, <1>6 DEF DevicesTyped, ListsHold

LEMMA SeenWritten ==
    ASSUME DevicesTyped, NEW x \in Device, onDisk' = [onDisk EXCEPT ![x].seen = seenAt[x]]
    PROVE  /\ onDisk' \in [Device -> [records : Lists, seen : [Secondary -> Nat]]]
           /\ onDisk'[x].seen = seenAt[x]
           /\ \A y \in Device : onDisk'[y].records = onDisk[y].records
           /\ \A y \in Device \ {x} : onDisk'[y] = onDisk[y]
<1>3. onDisk[x] \in [records : Lists, seen : [Secondary -> Nat]] /\ seenAt[x] \in [Secondary -> Nat]
  BY DEF DevicesTyped
<1>4. PICK s : s = [onDisk[x] EXCEPT !.seen = seenAt[x]]
  OBVIOUS
<1>5. s \in [records : Lists, seen : [Secondary -> Nat]] /\ s.seen = seenAt[x] /\ s.records = onDisk[x].records
  BY <1>3, <1>4
<1>6. onDisk' = [onDisk EXCEPT ![x] = s]
  BY <1>4
<1> QED BY <1>5, <1>6 DEF DevicesTyped

\* An announcement changes the account of the primary, as mem[x] has it.
Announced(v, kind, k) ==
    IF kind = "device_added" THEN D!addDeviceToContact(v, Primary, k)
    ELSE D!removeDeviceFromContact(v, Primary, k)

LEMMA AnnouncedView ==
    ASSUME NEW v \in Views, Ordered(v), Resolves(v), NEW k \in Secondary,
           NEW kind \in {"device_added", "device_revoked"},
           NEW w, w = Announced(v, kind, k)
    PROVE  /\ w \in Views /\ Ordered(w) /\ Resolves(w)
           /\ \A a \in Device \ {Primary} : w.devices[a] = v.devices[a]
           /\ kind = "device_added" =>
                 /\ w.devices[Primary] = v.devices[Primary] \cup
                                           IF v.devices[Primary] = {} THEN {Primary, k} ELSE {k}
                 /\ w.accountOf[k] = Primary
                 /\ v.devices[Primary] = {} => w.accountOf[Primary] = Primary
                 /\ \A j \in Device : v.accountOf[j] # None => w.accountOf[j] # None
           /\ kind = "device_revoked" =>
                 /\ w.devices[Primary] = v.devices[Primary] \ {k}
                 /\ \A j \in Device \ {k} : w.accountOf[j] = v.accountOf[j]
<1>1. Primary \in Device /\ k \in Device /\ Primary # None
  BY DevicesApart
<1>2. v.devices \in [Device -> SUBSET Device] /\ v.accountOf \in [Device -> Device \cup {None}]
  BY DEF Views
<1>3. CASE kind = "device_added"
  <2>1. PICK ds \in SUBSET Device : ds = (IF v.devices[Primary] = {} THEN {Primary, k} ELSE {k})
    BY <1>1
  <2>2. Announced(v, kind, k) = D!addContactAccount(v, Primary, ds)
    BY <1>1, <1>3, <2>1 DEF Announced, D!addDeviceToContact, D!Accounts
  <2>3. w = D!addContactAccount(v, Primary, ds)
    BY <2>2
  <2>4. /\ w \in Views /\ Ordered(w) /\ Resolves(w)
        /\ w.devices = [v.devices EXCEPT ![Primary] = @ \cup ds]
        /\ \A j \in Device : w.accountOf[j] = IF j \in ds THEN Primary ELSE v.accountOf[j]
    BY <1>1, <2>3, Added
  <2> QED BY <1>1, <1>2, <1>3, <2>1, <2>2, <2>3, <2>4
<1>4. CASE kind = "device_revoked" /\ v.devices[Primary] # {}
  <2>1. w = D!removeDeviceFromContact(v, Primary, k)
    BY <1>4 DEF Announced
  <2>3. /\ w \in Views /\ Ordered(w) /\ Resolves(w)
        /\ w.devices = [v.devices EXCEPT ![Primary] = @ \ {k}]
        /\ w.accountOf = [v.accountOf EXCEPT ![k] = None]
    BY <1>1, <1>4, <2>1, DeviceRemoved
  <2> QED BY <1>1, <1>2, <1>4, <2>3
<1>5. CASE kind = "device_revoked" /\ v.devices[Primary] = {}
  <2>1. w = v
    BY <1>5 DEF Announced, D!removeDeviceFromContact, D!Accounts
  <2> QED BY <1>5, <2>1
<1> QED BY <1>3, <1>4, <1>5

\* A step, with the sets its actors are from.
DevicesMove ==
    \/ UNCHANGED D!vars
    \/ D!Tick
    \/ \E kind \in {"device_added", "device_revoked"}, k \in Secondary, l \in Offers :
          D!Spend("calls") /\ D!Announce(kind, k, now, l)
    \/ \E c \in calls : D!CallSaved(c) \/ D!CallFails(c) \/ D!Broadcast(c)
    \/ \E d \in Secondary : D!createDeviceLinkOffer(d) \/ D!LinkSaved(d)
    \/ \E m \in net : D!applyDeviceAnnouncement(m) \/ D!handleDeviceLinked(m) \/ D!Lose(m)
    \/ \E x, y \in Device : D!Handshake(x, y) \/ D!RemoveContact(x, y)
    \/ \E x \in Device : D!ContactsSaved(x) \/ D!SeenSaved(x) \/ D!Restart(x)

LEMMA DevicesMoves ==
    ASSUME DevicesTyped, [D!Next]_(D!vars)
    PROVE  DevicesMove
<1>1. left.secondaries \subseteq Secondary
  BY DEF DevicesTyped, D!Allowance
<1>2. D!Acting \subseteq Device
  BY <1>1, DevicesApart DEF D!Acting
<1>3. D!NoOffer \in Offers
  BY DEF D!NoOffer, Offers
<1>4. ASSUME NEW k \in left.secondaries, D!broadcastDeviceAdded(k) \/ D!broadcastDeviceRevoked(k)
      PROVE  DevicesMove
  <2>1. \E kind \in {"device_added", "device_revoked"} : D!Spend("calls") /\ D!Announce(kind, k, now, D!NoOffer)
    BY <1>4 DEF D!broadcastDeviceAdded, D!broadcastDeviceRevoked
  <2> QED BY <1>1, <1>3, <2>1 DEF DevicesMove
<1>5. ASSUME NEW o \in offers, D!acceptDeviceLinkOffer(o)
      PROVE  DevicesMove
  <2>1. o.device \in Secondary /\ o.challenge \in Nat /\ o.expiresAt \in Nat
    BY DEF DevicesTyped
  <2>2. PICK l \in Offers : l = [challenge |-> o.challenge, expiresAt |-> o.expiresAt]
    BY <2>1 DEF Offers
  <2>3. D!Spend("calls") /\ D!Announce("device_added", o.device, now, l)
    BY <1>5, <2>2 DEF D!acceptDeviceLinkOffer
  <2> QED BY <2>1, <2>3 DEF DevicesMove
<1>6. ASSUME NEW d \in left.secondaries, D!createDeviceLinkOffer(d) \/ D!LinkSaved(d)
      PROVE  DevicesMove
  BY <1>1, <1>6 DEF DevicesMove
<1>7. ASSUME NEW x \in D!Acting, NEW y \in D!Acting, D!Handshake(x, y) \/ D!RemoveContact(x, y)
      PROVE  DevicesMove
  BY <1>2, <1>7 DEF DevicesMove
<1>8. ASSUME NEW x \in D!Acting, D!ContactsSaved(x) \/ D!SeenSaved(x) \/ D!Restart(x)
      PROVE  DevicesMove
  BY <1>2, <1>8 DEF DevicesMove
<1>9. ASSUME NEW m \in net, D!applyDeviceAnnouncement(m) \/ D!handleDeviceLinked(m) \/ D!Lose(m)
      PROVE  DevicesMove
  BY <1>9 DEF DevicesMove
<1>10. ASSUME NEW c \in calls, D!CallSaved(c) \/ D!CallFails(c) \/ D!Broadcast(c)
       PROVE  DevicesMove
  BY <1>10 DEF DevicesMove
<1>11. ASSUME D!Tick \/ UNCHANGED D!vars PROVE DevicesMove
  BY <1>11 DEF DevicesMove
<1>12. D!Next \/ UNCHANGED D!vars
  OBVIOUS
<1> QED BY <1>4, <1>5, <1>6, <1>7, <1>8, <1>9, <1>10, <1>11, <1>12 DEF D!Next

\* A device that starts knows what was stored.
LEMMA Reloaded ==
    ASSUME NEW l \in Lists, Ordered(l), NEW w, w = D!loadContactRecords(D!Empty, l)
    PROVE  /\ w \in Views /\ Ordered(w) /\ Resolves(w) /\ w.devices = l.devices
           /\ \A a, k \in Device : k \in l.devices[a] => w.accountOf[k] # None
<1>1. PICK K \in SUBSET Device : K = {}
  OBVIOUS
<1>2. IsFiniteSet(K) /\ Cardinality(K) = 0
  BY <1>1, FS_EmptySet
<1>3. PICK order : order = [a \in {} |-> 0]
  OBVIOUS
<1>4. PICK e : e = D!Knowing(order)
  OBVIOUS
<1>5. Orders(order, K)
  BY <1>1, <1>2, <1>3 DEF Orders
<1>6. /\ e \in Views /\ Ordered(e) /\ Resolves(e)
      /\ \A a \in Device : e.devices[a] = IF a \in K THEN {a} ELSE {}
  <2>1. Knew(e, K)
    BY <1>4, <1>5, Knows
  <2> QED BY <2>1 DEF Knew
<1>7. w = D!loadContactRecords(e, l)
  BY <1>3, <1>4 DEF D!Empty
<1>8. /\ w \in Views /\ Ordered(w) /\ Resolves(w)
      /\ \A a \in Device : w.devices[a] = e.devices[a] \cup l.devices[a]
      /\ \A a, k \in Device : k \in l.devices[a] => w.accountOf[k] # None
  BY <1>6, <1>7, ListLoaded
<1>9. \A a \in Device : w.devices[a] = l.devices[a]
  BY <1>1, <1>6, <1>8
<1>10. w.devices \in [Device -> SUBSET Device] /\ l.devices \in [Device -> SUBSET Device]
  BY <1>8 DEF Views, Lists
<1>11. w.devices = l.devices
  BY <1>9, <1>10
<1> QED BY <1>8, <1>11

Viewed(f) == f \in [Device -> Views] /\ \A x \in Device : Ordered(f[x]) /\ Resolves(f[x])

LEMMA ViewChanged ==
    ASSUME Viewed(mem), NEW x \in Device, NEW w \in Views, Ordered(w), Resolves(w), ViewIs(x, w)
    PROVE  Viewed(mem') /\ mem'[x] = w /\ \A y \in Device \ {x} : mem'[y] = mem[y]
  BY DEF Viewed, ViewIs

\* Device x does what an announcement says.
Does(x, kind, k) == ViewIs(x, Announced(mem[x], kind, k))

LEMMA Done ==
    ASSUME Viewed(mem), NEW x \in Device, NEW k \in Secondary,
           NEW kind \in {"device_added", "device_revoked"}, Does(x, kind, k)
    PROVE  /\ Viewed(mem') /\ \A y \in Device \ {x} : mem'[y] = mem[y]
           /\ \A a \in Device \ {Primary} : mem'[x].devices[a] = mem[x].devices[a]
           /\ kind = "device_added" =>
                 /\ mem'[x].devices[Primary] = mem[x].devices[Primary] \cup
                                           IF mem[x].devices[Primary] = {} THEN {Primary, k} ELSE {k}
                 /\ mem'[x].accountOf[k] = Primary
                 /\ mem[x].devices[Primary] = {} => mem'[x].accountOf[Primary] = Primary
                 /\ \A j \in Device : mem[x].accountOf[j] # None => mem'[x].accountOf[j] # None
           /\ kind = "device_revoked" =>
                 /\ mem'[x].devices[Primary] = mem[x].devices[Primary] \ {k}
                 /\ \A j \in Device \ {k} : mem'[x].accountOf[j] = mem[x].accountOf[j]
<1>1. PICK v \in Views : v = mem[x] /\ Ordered(v) /\ Resolves(v)
  BY DEF Viewed
<1>2. PICK w : w = Announced(v, kind, k)
  OBVIOUS
<1>3. /\ w \in Views /\ Ordered(w) /\ Resolves(w)
      /\ \A a \in Device \ {Primary} : w.devices[a] = v.devices[a]
      /\ kind = "device_added" =>
            /\ w.devices[Primary] = v.devices[Primary] \cup
                                      IF v.devices[Primary] = {} THEN {Primary, k} ELSE {k}
            /\ w.accountOf[k] = Primary
            /\ v.devices[Primary] = {} => w.accountOf[Primary] = Primary
            /\ \A j \in Device : v.accountOf[j] # None => w.accountOf[j] # None
      /\ kind = "device_revoked" =>
            /\ w.devices[Primary] = v.devices[Primary] \ {k}
            /\ \A j \in Device \ {k} : w.accountOf[j] = v.accountOf[j]
  BY <1>1, <1>2, AnnouncedView
<1>4. ViewIs(x, w)
  BY <1>1, <1>2 DEF Does
<1>5. Viewed(mem') /\ mem'[x] = w /\ \A y \in Device \ {x} : mem'[y] = mem[y]
  BY <1>3, <1>4, ViewChanged
<1> QED BY <1>1, <1>3, <1>5

LEMMA AnnounceDone ==
    ASSUME NEW kind \in {"device_added", "device_revoked"}, NEW k \in Secondary, NEW l \in Offers,
           D!Announce(kind, k, now, l)
    PROVE  Does(Primary, kind, k)
  BY DEF D!Announce, Does, Announced, ViewIs

\* A message that says more than what is known is done, as is what it says.
LEMMA ApplyDone ==
    ASSUME NEW m \in net, D!applyDeviceAnnouncement(m)
    PROVE  /\ m.kind \in {"device_added", "device_revoked"}
           /\ \/ m.at > seenAt[m.to][m.device] /\ Does(m.to, m.kind, m.device)
              \/ ~(m.at > seenAt[m.to][m.device]) /\ mem' = mem
  BY DEF D!applyDeviceAnnouncement, D!Applies, Does, Announced, ViewIs

LEMMA MessageKinds ==
    ASSUME DevicesTyped, NEW m \in net
    PROVE  /\ m.to \in Device /\ m.to # Primary /\ m.device \in Secondary /\ m.at \in Nat /\ m.at # 0
           /\ m.kind \in {"device_added", "device_revoked", "device_linked"}
           /\ m.kind # "device_linked" => Triple(m) \in Announcements
           /\ m.kind = "device_linked" => m.contactRecords \in Lists
<1>1. m \in Messages
  BY DEF DevicesTyped
<1> QED BY <1>1 DEF Messages, Triple, Announcements

\* The list the primary sends is loaded, and the device added to the account.
LEMMA LinkedView ==
    ASSUME DevicesTyped, ListsHold, NEW m \in net, m.kind = "device_linked", NEW w,
           w = D!addDeviceToContact(D!loadContactRecords(mem[m.to], m.contactRecords), Primary, m.to),
           m.to \in Secondary
    PROVE  w \in Views /\ Ordered(w) /\ Resolves(w)
<1>1. PICK v \in Views : v = mem[m.to] /\ Ordered(v) /\ Resolves(v)
  BY MessageKinds DEF DevicesTyped, ListsHold
<1>2. PICK l \in Lists : l = m.contactRecords /\ Ordered(l)
  BY MessageKinds DEF ListsHold
<1>3. PICK u : u = D!loadContactRecords(v, l)
  OBVIOUS
<1>4. u \in Views /\ Ordered(u) /\ Resolves(u)
  BY <1>1, <1>2, <1>3, ListLoaded
<1>5. PICK k \in Secondary : k = m.to
  OBVIOUS
<1>6. w = Announced(u, "device_added", k)
  BY <1>1, <1>2, <1>3, <1>5 DEF Announced
<1>7. ASSUME NEW s, s = Announced(u, "device_added", k)
      PROVE  s \in Views /\ Ordered(s) /\ Resolves(s)
  BY <1>4, <1>7, AnnouncedView
<1> QED BY <1>6, <1>7

LEMMA RestartedView ==
    ASSUME DevicesTyped, ListsHold, NEW x \in Device, NEW w,
           w = D!loadContactRecords(D!Empty, onDisk[x].records)
    PROVE  /\ w \in Views /\ Ordered(w) /\ Resolves(w) /\ w.devices = onDisk[x].records.devices
           /\ \A a, k \in Device : k \in w.devices[a] => w.accountOf[k] # None
<1>1. PICK l \in Lists : l = onDisk[x].records /\ Ordered(l)
  BY DEF DevicesTyped, ListsHold
<1>2. w = D!loadContactRecords(D!Empty, l)
  BY <1>1
<1>3. ASSUME NEW s, s = D!loadContactRecords(D!Empty, l)
      PROVE  /\ s \in Views /\ Ordered(s) /\ Resolves(s) /\ s.devices = l.devices
             /\ \A a, k \in Device : k \in l.devices[a] => s.accountOf[k] # None
  BY <1>1, <1>3, Reloaded
<1> QED BY <1>1, <1>2, <1>3

\* Whom a message for p goes to.
LEMMA FansOut ==
    ASSUME NEW v \in Views, Resolves(v), NEW p \in Device
    PROVE  D!FanOut(v, p) \subseteq Device /\ p \in D!FanOut(v, p)
<1>1. v.devices \in [Device -> SUBSET Device] /\ v.accountOf \in [Device -> Device \cup {None}]
  BY DEF Views
<1>2. CASE v.accountOf[p] # None
  <2>1. v.accountOf[p] \in Device /\ p \in v.devices[v.accountOf[p]]
    BY <1>1, <1>2 DEF Resolves
  <2> QED BY <1>1, <1>2, <2>1 DEF D!FanOut, D!getDevicesForAccount
<1>3. CASE v.accountOf[p] = None
  BY <1>3 DEF D!FanOut
<1> QED BY <1>2, <1>3

LEMMA Greeted ==
    ASSUME NEW v \in Views, Ordered(v), Resolves(v), NEW y \in Device, NEW w, w = D!addContact(v, y)
    PROVE  w \in Views /\ Ordered(w) /\ Resolves(w)
<1>1. PICK ds \in SUBSET Device : ds = {y}
  OBVIOUS
<1>2. w = D!addContactAccount(v, y, ds)
  BY <1>1 DEF D!addContact
<1>3. ASSUME NEW s, s = D!addContactAccount(v, y, ds)
      PROVE  s \in Views /\ Ordered(s) /\ Resolves(s)
  BY <1>3, Added
<1> QED BY <1>2, <1>3

LEMMA BroadcastTyped ==
    ASSUME DevicesTyped, ListsHold, NEW c \in calls, D!Broadcast(c)
    PROVE  net' \subseteq Messages /\ \A m \in net' : m.kind = "device_linked" => Ordered(m.contactRecords)
<1>1. PICK v \in Views : v = mem[Primary] /\ Ordered(v) /\ Resolves(v)
  BY DevicesApart DEF DevicesTyped, ListsHold
<1>2. PICK l \in Lists : l = D!getContactRecords(v) /\ Ordered(l)
  BY <1>1, ViewsList
<1>3. PICK a \in Announcements : a = c.announcement
  BY DEF DevicesTyped
<1>4. PICK n \in Offers : n = c.linked
  BY DEF DevicesTyped
<1>5. /\ a.kind \in {"device_added", "device_revoked"} /\ a.device \in Secondary /\ a.device \in Device
      /\ a.at \in Nat \ {0} /\ n.challenge \in Nat
  BY <1>3, <1>4, DevicesApart DEF Announcements, Offers
<1> DEFINE peers == D!Mapped(v) \ ({Primary} \cup IF a.kind = "device_added" THEN {a.device} ELSE {})
           to == (UNION {D!FanOut(v, p) : p \in peers}) \ {Primary}
           linkedTo == IF n = D!NoOffer THEN {} ELSE D!FanOut(v, a.device) \ {Primary}
<1>6. net' = net \cup {[to |-> x, kind |-> a.kind, device |-> a.device, at |-> a.at] : x \in to}
                 \cup {[to |-> x, kind |-> "device_linked", device |-> a.device, at |-> a.at,
                        linkChallenge |-> n.challenge, contactRecords |-> l] : x \in linkedTo}
  BY <1>1, <1>2, <1>3, <1>4 DEF D!Broadcast
<1>7. to \subseteq Device \ {Primary}
  <2>1. peers \subseteq Device
    BY DEF D!Mapped
  <2>2. \A p \in Device : D!FanOut(v, p) \subseteq Device
    BY <1>1, FansOut
  <2>3. ASSUME NEW x \in to PROVE x \in Device \ {Primary}
    <3> HIDE DEF peers
    <3>1. x # Primary /\ x \in UNION {D!FanOut(v, p) : p \in peers}
      BY DEF to
    <3> HIDE DEF to
    <3>2. PICK T \in {D!FanOut(v, p) : p \in peers} : x \in T
      BY <3>1
    <3>3. PICK p \in peers : T = D!FanOut(v, p)
      OBVIOUS
    <3> QED BY <2>1, <2>2, <3>1, <3>2, <3>3
  <2> QED BY <2>3
<1>8. linkedTo \subseteq Device \ {Primary}
  BY <1>1, <1>5, FansOut
<1> HIDE DEF peers, to, linkedTo
<1>9. ASSUME NEW x \in to, NEW m, m = [to |-> x, kind |-> a.kind, device |-> a.device, at |-> a.at]
      PROVE  m \in Messages /\ m.kind # "device_linked"
  BY <1>5, <1>7, <1>9 DEF Messages
<1>10. ASSUME NEW x \in linkedTo,
              NEW m, m = [to |-> x, kind |-> "device_linked", device |-> a.device, at |-> a.at,
                          linkChallenge |-> n.challenge, contactRecords |-> l]
       PROVE  m \in Messages /\ Ordered(m.contactRecords)
  BY <1>2, <1>5, <1>8, <1>10 DEF Messages
<1>11. ASSUME NEW m \in net'
       PROVE  m \in Messages /\ (m.kind = "device_linked" => Ordered(m.contactRecords))
  <2>1. CASE m \in net
    BY <2>1 DEF DevicesTyped, ListsHold
  <2>2. CASE \E x \in to : m = [to |-> x, kind |-> a.kind, device |-> a.device, at |-> a.at]
    BY <1>9, <2>2
  <2>3. CASE \E x \in linkedTo : m = [to |-> x, kind |-> "device_linked", device |-> a.device, at |-> a.at,
                                      linkChallenge |-> n.challenge, contactRecords |-> l]
    BY <1>10, <2>3
  <2> QED BY <1>6, <2>1, <2>2, <2>3
<1> QED BY <1>11

\* What neither an announcement nor a restart changes by much.
LEMMA TypesKept ==
    ASSUME DevicesTyped, ListsHold, DevicesMove
    PROVE  DevicesTyped' /\ ListsHold'
<1>0. Viewed(mem)
  BY DEF Viewed, DevicesTyped, ListsHold
<1> USE DEF DevicesTyped, ListsHold
<1>1. CASE UNCHANGED D!vars
  BY <1>1 DEF D!vars
<1>2. CASE D!Tick
  BY <1>2, AllowanceLeft DEF D!Tick
<1>3. ASSUME NEW kind \in {"device_added", "device_revoked"}, NEW k \in Secondary, NEW l \in Offers,
             D!Spend("calls"), D!Announce(kind, k, now, l)
      PROVE  DevicesTyped' /\ ListsHold'
  <2>1. Viewed(mem')
    BY <1>0, <1>3, AnnounceDone, Done, DevicesApart
  <2>2. PICK a \in Announcements : a = [kind |-> kind, device |-> k, at |-> now]
    BY DEF Announcements
  <2>3. PICK c \in [announcement : Announcements, linked : Offers, saved : BOOLEAN] :
            c = [announcement |-> a, linked |-> l, saved |-> FALSE]
    BY Zenon
  <2>4. calls' = calls \cup {c} /\ minted' = minted \cup {a}
    BY <1>3, <2>2, <2>3 DEF D!Announce
  <2>5. left' \in D!Allowance
    BY <1>3, AllowanceLeft
  <2>6. UNCHANGED <<seenAt, onDisk, unsaved, unseen, offers, linking, net, now, told, missed, strayed>>
    BY <1>3 DEF D!Announce
  <2> HIDE DEF DevicesTyped, ListsHold
  <2>7. DevicesTyped'
    BY <2>1, <2>2, <2>3, <2>4, <2>5, <2>6 DEF DevicesTyped, Viewed
  <2>8. ListsHold'
    BY <2>1, <2>6 DEF ListsHold, Viewed
  <2> QED BY <2>7, <2>8
<1>4. ASSUME NEW c \in calls, D!CallSaved(c)
      PROVE  DevicesTyped' /\ ListsHold'
  <2>1. PICK d \in [announcement : Announcements, linked : Offers, saved : BOOLEAN] :
            d = [c EXCEPT !.saved = TRUE]
    BY Zenon
  <2>2. calls' = (calls \ {c}) \cup {d} /\ Writes(Primary)
    BY <1>4, <2>1 DEF D!CallSaved, Writes
  <2>3. /\ onDisk' \in [Device -> [records : Lists, seen : [Secondary -> Nat]]]
        /\ \A y \in Device : Ordered(onDisk'[y].records)
    BY <2>2, Written, DevicesApart
  <2> QED BY <1>4, <2>2, <2>3 DEF D!CallSaved
<1>5. ASSUME NEW c \in calls, D!CallFails(c)
      PROVE  DevicesTyped' /\ ListsHold'
  BY <1>5, AllowanceLeft, DevicesApart DEF D!CallFails
<1>6. ASSUME NEW c \in calls, D!Broadcast(c)
      PROVE  DevicesTyped' /\ ListsHold'
  <2>1. net' \subseteq Messages /\ \A m \in net' : m.kind = "device_linked" => Ordered(m.contactRecords)
    BY <1>6, BroadcastTyped
  <2> QED BY <1>6, <2>1 DEF D!Broadcast
<1>7. ASSUME NEW d \in Secondary, D!createDeviceLinkOffer(d)
      PROVE  DevicesTyped' /\ ListsHold'
  <2>1. PICK n \in Nat : n = Cardinality(offers) + 1
    BY FS_CardinalityType
  <2>2. PICK e \in Nat : e = now + OfferTtl
    BY DevicesApart
  <2>3. PICK o \in [device : Secondary, challenge : Nat, expiresAt : Nat] :
            o = [device |-> d, challenge |-> n, expiresAt |-> e]
    OBVIOUS
  <2>4. offers' = offers \cup {o}
    BY <1>7, <2>1, <2>2, <2>3, DevicesCount DEF D!createDeviceLinkOffer
  <2>5. IsFiniteSet(offers')
    BY <2>4, FS_AddElement
  <2> QED BY <1>7, <2>3, <2>4, <2>5, AllowanceLeft DEF D!createDeviceLinkOffer
<1>8. ASSUME NEW d \in Secondary, D!LinkSaved(d)
      PROVE  DevicesTyped' /\ ListsHold'
  <2>1. Writes(d) /\ d \in Device
    BY <1>8, DevicesApart DEF D!LinkSaved, Writes
  <2>2. /\ onDisk' \in [Device -> [records : Lists, seen : [Secondary -> Nat]]]
        /\ \A y \in Device : Ordered(onDisk'[y].records)
    BY <2>1, Written
  <2> QED BY <1>8, <2>2 DEF D!LinkSaved
<1>9. ASSUME NEW m \in net, D!applyDeviceAnnouncement(m)
      PROVE  DevicesTyped' /\ ListsHold'
  <2>1. /\ m.to \in Device /\ m.device \in Secondary /\ m.at \in Nat
        /\ m.kind \in {"device_added", "device_revoked"} /\ Triple(m) \in Announcements
    BY <1>9, MessageKinds, ApplyDone
  <2>2. Viewed(mem')
    <3>1. CASE Does(m.to, m.kind, m.device)
      BY <1>0, <2>1, <3>1, Done
    <3>2. CASE mem' = mem
      BY <1>0, <3>2
    <3> QED BY <1>9, <3>1, <3>2, ApplyDone
  <2>3. seenAt' \in [Device -> [Secondary -> Nat]]
    <3>1. PICK s \in [Secondary -> Nat] : s = [seenAt[m.to] EXCEPT ![m.device] = m.at]
      BY <2>1
    <3>2. seenAt' = seenAt \/ seenAt' = [seenAt EXCEPT ![m.to] = s]
      BY <1>9, <3>1 DEF D!applyDeviceAnnouncement
    <3> QED BY <3>1, <3>2
  <2>4. told' \in [Device -> SUBSET Announcements]
    <3>1. told' = [told EXCEPT ![m.to] = @ \cup {Triple(m)}]
      BY <1>9 DEF D!applyDeviceAnnouncement, Triple
    <3> QED BY <2>1, <3>1
  <2>5. net' \subseteq net
    BY <1>9 DEF D!applyDeviceAnnouncement, D!Take
  <2>6. /\ unsaved' \subseteq Device /\ unseen' \subseteq Device
        /\ UNCHANGED <<onDisk, offers, linking, calls, now, left, minted, missed, strayed>>
    BY <1>9, <2>1 DEF D!applyDeviceAnnouncement
  <2> HIDE DEF DevicesTyped, ListsHold
  <2>7. DevicesTyped'
    BY <2>2, <2>3, <2>4, <2>5, <2>6 DEF DevicesTyped, Viewed
  <2>8. ListsHold'
    BY <2>2, <2>5, <2>6 DEF ListsHold, Viewed
  <2> QED BY <2>7, <2>8
<1>10. ASSUME NEW m \in net, D!handleDeviceLinked(m)
       PROVE  DevicesTyped' /\ ListsHold'
  <2>1. PICK x \in Device : x = m.to
    BY MessageKinds
  <2>2. CASE mem' = mem /\ linking' = linking /\ strayed' = strayed
    BY <1>10, <2>2 DEF D!handleDeviceLinked, D!Take
  <2>3. CASE ~(mem' = mem /\ linking' = linking /\ strayed' = strayed)
    <3>1. PICK w : w = D!addDeviceToContact(D!loadContactRecords(mem[m.to], m.contactRecords), Primary, m.to)
      OBVIOUS
    <3>2. /\ m.kind = "device_linked" /\ x \in Secondary /\ ViewIs(x, w)
          /\ linking' = linking \cup {x} /\ strayed' = strayed \cup {x}
      BY <1>10, <2>1, <2>3, <3>1 DEF D!handleDeviceLinked, ViewIs
    <3>3. w \in Views /\ Ordered(w) /\ Resolves(w)
      BY <2>1, <3>1, <3>2, LinkedView
    <3>4. Viewed(mem')
      BY <1>0, <3>2, <3>3, ViewChanged
    <3>5. net' \subseteq net /\ UNCHANGED <<seenAt, onDisk, unsaved, unseen, offers, calls, now, left, minted, told, missed>>
      BY <1>10 DEF D!handleDeviceLinked, D!Take
    <3> HIDE DEF DevicesTyped, ListsHold
    <3>6. DevicesTyped'
      BY <3>2, <3>4, <3>5 DEF DevicesTyped, Viewed
    <3>7. ListsHold'
      BY <3>4, <3>5 DEF ListsHold, Viewed
    <3> QED BY <3>6, <3>7
  <2> QED BY <2>2, <2>3
<1>11. ASSUME NEW m \in net, D!Lose(m)
       PROVE  DevicesTyped' /\ ListsHold'
  BY <1>11, AllowanceLeft DEF D!Lose, D!Take
<1>12. ASSUME NEW x \in Device, NEW y \in Device, D!Handshake(x, y)
       PROVE  DevicesTyped' /\ ListsHold'
  <2>1. PICK w : w = D!addContactAccount(mem[x], y, {y})
    OBVIOUS
  <2>2. ViewIs(x, w)
    BY <1>12, <2>1 DEF D!Handshake, D!addContact, ViewIs
  <2>3. PICK v \in Views : v = mem[x] /\ Ordered(v) /\ Resolves(v)
    OBVIOUS
  <2>4. w = D!addContactAccount(v, y, {y})
    BY <2>1, <2>3
  <2>5. w \in Views /\ Ordered(w) /\ Resolves(w)
    <3>1. Ordered(v) /\ Resolves(v) /\ w = D!addContact(v, y)
      BY <2>3, <2>4 DEF D!addContact
    <3> HIDE DEF DevicesTyped, ListsHold
    <3> QED BY <3>1, Greeted
  <2>6. Viewed(mem')
    BY <1>0, <2>2, <2>5, ViewChanged
  <2> QED BY <1>12, <2>6, AllowanceLeft DEF D!Handshake, Viewed
<1>13. ASSUME NEW x \in Device, NEW y \in Device, D!RemoveContact(x, y)
       PROVE  DevicesTyped' /\ ListsHold'
  <2>1. PICK v \in Views : v = mem[x] /\ Ordered(v) /\ Resolves(v)
    OBVIOUS
  <2>2. PICK w : w = D!removeContact(v, y)
    OBVIOUS
  <2>3. ViewIs(x, w)
    BY <1>13, <2>1, <2>2 DEF D!RemoveContact, ViewIs
  <2>5. w \in Views /\ Ordered(w) /\ Resolves(w)
    <3>1. ASSUME NEW s, s = D!removeContact(v, y)
          PROVE  s \in Views /\ Ordered(s) /\ Resolves(s)
      BY <2>1, <3>1, ContactRemoved
    <3> QED BY <2>2, <3>1
  <2>6. Viewed(mem')
    BY <1>0, <2>3, <2>5, ViewChanged
  <2> QED BY <1>13, <2>6, AllowanceLeft DEF D!RemoveContact, Viewed
<1>14. ASSUME NEW x \in Device, D!ContactsSaved(x)
       PROVE  DevicesTyped' /\ ListsHold'
  <2>1. Writes(x)
    BY <1>14 DEF D!ContactsSaved, Writes
  <2>2. /\ onDisk' \in [Device -> [records : Lists, seen : [Secondary -> Nat]]]
        /\ \A y \in Device : Ordered(onDisk'[y].records)
    BY <2>1, Written
  <2> QED BY <1>14, <2>2 DEF D!ContactsSaved
<1>15. ASSUME NEW x \in Device, D!SeenSaved(x)
       PROVE  DevicesTyped' /\ ListsHold'
  <2>1. onDisk' = [onDisk EXCEPT ![x].seen = seenAt[x]]
    BY <1>15 DEF D!SeenSaved
  <2>2. /\ onDisk' \in [Device -> [records : Lists, seen : [Secondary -> Nat]]]
        /\ \A y \in Device : onDisk'[y].records = onDisk[y].records
    BY <2>1, SeenWritten
  <2> QED BY <1>15, <2>2 DEF D!SeenSaved
<1>16. ASSUME NEW x \in Device, D!Restart(x)
       PROVE  DevicesTyped' /\ ListsHold'
  <2>1. PICK w : w = D!loadContactRecords(D!Empty, onDisk[x].records)
    OBVIOUS
  <2>2. ViewIs(x, w)
    BY <1>16, <2>1 DEF D!Restart, ViewIs
  <2>3. w \in Views /\ Ordered(w) /\ Resolves(w)
    BY <2>1, RestartedView
  <2>4. Viewed(mem')
    BY <1>0, <2>2, <2>3, ViewChanged
  <2>5. seenAt' \in [Device -> [Secondary -> Nat]]
    BY <1>16 DEF D!Restart
  <2>6. /\ unsaved' \subseteq Device /\ unseen' \subseteq Device /\ linking' \subseteq Secondary
        /\ calls' \subseteq calls /\ strayed' \subseteq Device
        /\ UNCHANGED <<onDisk, offers, net, now, minted, told, missed>>
    BY <1>16 DEF D!Restart
  <2>7. left' \in D!Allowance
    BY <1>16, AllowanceLeft DEF D!Restart
  <2> HIDE DEF DevicesTyped, ListsHold
  <2>8. DevicesTyped'
    BY <2>4, <2>5, <2>6, <2>7 DEF DevicesTyped, Viewed
  <2>9. ListsHold'
    BY <2>4, <2>6 DEF ListsHold, Viewed
  <2> QED BY <2>8, <2>9
<1> QED BY <1>1, <1>2, <1>3, <1>4, <1>5, <1>6, <1>7, <1>8, <1>9, <1>10, <1>11, <1>12, <1>13, <1>14, <1>15, <1>16
        DEF DevicesMove

\* A list changes only while it waits to be written.
LEMMA StoredKept ==
    ASSUME DevicesTyped, ListsHold, Stored, DevicesMove
    PROVE  Stored'
<1>0. Viewed(mem)
  BY DEF Viewed, DevicesTyped, ListsHold
<1> DEFINE Waits(x) == x \in unsaved \cup linking \/ (x = Primary /\ \E c \in calls : ~c.saved)
           Listed(x) == onDisk[x].records.devices = mem[x].devices
           Noted(x) == onDisk[x].seen = seenAt[x]
<1>a. \A x \in Device : (Waits(x) \/ Listed(x)) /\ (x \in unseen \/ Noted(x))
  BY DEF Stored
<1>b. SUFFICES \A x \in Device : (Waits(x) \/ Listed(x))' /\ (x \in unseen \/ Noted(x))'
  BY DEF Stored
<1>1. CASE UNCHANGED D!vars
  BY <1>1, <1>a DEF D!vars
<1>2. CASE D!Tick
  BY <1>2, <1>a DEF D!Tick
<1>3. ASSUME NEW kind \in {"device_added", "device_revoked"}, NEW k \in Secondary, NEW l \in Offers,
             D!Announce(kind, k, now, l)
      PROVE  \A x \in Device : (Waits(x) \/ Listed(x))' /\ (x \in unseen \/ Noted(x))'
  <2>1. \A y \in Device \ {Primary} : mem'[y] = mem[y]
    BY <1>0, <1>3, AnnounceDone, Done, DevicesApart
  <2>2. PICK c : c = [announcement |-> [kind |-> kind, device |-> k, at |-> now], linked |-> l, saved |-> FALSE]
    OBVIOUS
  <2>3. c \in calls' /\ ~c.saved /\ calls \subseteq calls' /\ UNCHANGED <<seenAt, onDisk, unsaved, unseen, linking>>
    BY <1>3, <2>2 DEF D!Announce
  <2> QED BY <1>a, <2>1, <2>3
<1>4. ASSUME NEW c \in calls, D!CallSaved(c)
      PROVE  \A x \in Device : (Waits(x) \/ Listed(x))' /\ (x \in unseen \/ Noted(x))'
  <2>1. Writes(Primary)
    BY <1>4 DEF D!CallSaved, Writes
  <2>2. /\ onDisk'[Primary].records.devices = mem[Primary].devices
        /\ \A y \in Device : onDisk'[y].seen = onDisk[y].seen
        /\ \A y \in Device \ {Primary} : onDisk'[y] = onDisk[y]
    BY <2>1, Written, DevicesApart
  <2>3. UNCHANGED <<mem, seenAt, unsaved, unseen, linking>>
    BY <1>4 DEF D!CallSaved
  <2> QED BY <1>a, <2>2, <2>3
<1>5. ASSUME NEW c \in calls, D!CallFails(c)
      PROVE  \A x \in Device : (Waits(x) \/ Listed(x))' /\ (x \in unseen \/ Noted(x))'
  <2>1. Primary \in unsaved' /\ unsaved \subseteq unsaved' /\ UNCHANGED <<mem, seenAt, onDisk, unseen, linking>>
    BY <1>5 DEF D!CallFails
  <2> QED BY <1>a, <2>1
<1>6. ASSUME NEW c \in calls, D!Broadcast(c)
      PROVE  \A x \in Device : (Waits(x) \/ Listed(x))' /\ (x \in unseen \/ Noted(x))'
  <2>1. c.saved /\ calls' = calls \ {c} /\ UNCHANGED <<mem, seenAt, onDisk, unsaved, unseen, linking>>
    BY <1>6 DEF D!Broadcast
  <2>2. \A d \in calls : ~d.saved => d \in calls'
    BY <2>1
  <2> QED BY <1>a, <2>1, <2>2
<1>7. ASSUME NEW d \in Secondary, D!createDeviceLinkOffer(d)
      PROVE  \A x \in Device : (Waits(x) \/ Listed(x))' /\ (x \in unseen \/ Noted(x))'
  BY <1>7, <1>a DEF D!createDeviceLinkOffer
<1>8. ASSUME NEW d \in Secondary, D!LinkSaved(d)
      PROVE  \A x \in Device : (Waits(x) \/ Listed(x))' /\ (x \in unseen \/ Noted(x))'
  <2>1. Writes(d) /\ d \in Device
    BY <1>8, DevicesApart DEF D!LinkSaved, Writes
  <2>2. /\ onDisk'[d].records.devices = mem[d].devices
        /\ \A y \in Device : onDisk'[y].seen = onDisk[y].seen
        /\ \A y \in Device \ {d} : onDisk'[y] = onDisk[y]
    BY <2>1, Written
  <2>3. linking' = linking \ {d} /\ UNCHANGED <<mem, seenAt, unsaved, unseen, calls>>
    BY <1>8 DEF D!LinkSaved
  <2> QED BY <1>a, <2>2, <2>3
<1>9. ASSUME NEW m \in net, D!applyDeviceAnnouncement(m)
      PROVE  \A x \in Device : (Waits(x) \/ Listed(x))' /\ (x \in unseen \/ Noted(x))'
  <2>1. m.to \in Device /\ m.device \in Secondary
    BY MessageKinds
  <2>2. UNCHANGED <<onDisk, linking, calls>>
    BY <1>9 DEF D!applyDeviceAnnouncement
  <2>3. CASE D!Applies(m)
    <3>1. Does(m.to, m.kind, m.device) /\ m.kind \in {"device_added", "device_revoked"}
      BY <1>9, <2>3, ApplyDone DEF D!Applies, D!applyDeviceAnnouncement, Does, ViewIs, Announced
    <3>2. \A y \in Device \ {m.to} : mem'[y] = mem[y]
      BY <1>0, <2>1, <3>1, Done
    <3>3. /\ unsaved' = unsaved \cup {m.to} /\ unseen' = unseen \cup {m.to}
          /\ seenAt' = [seenAt EXCEPT ![m.to][m.device] = m.at]
      BY <1>9, <2>3 DEF D!applyDeviceAnnouncement
    <3>4. \A y \in Device \ {m.to} : seenAt'[y] = seenAt[y]
      BY <3>3 DEF DevicesTyped
    <3> QED BY <1>a, <2>1, <2>2, <3>2, <3>3, <3>4
  <2>4. CASE ~D!Applies(m)
    <3>1. UNCHANGED <<seenAt, mem, unsaved, unseen>>
      BY <1>9, <2>4 DEF D!applyDeviceAnnouncement
    <3> QED BY <1>a, <2>2, <3>1
  <2> QED BY <2>3, <2>4
<1>10. ASSUME NEW m \in net, D!handleDeviceLinked(m)
       PROVE  \A x \in Device : (Waits(x) \/ Listed(x))' /\ (x \in unseen \/ Noted(x))'
  <2>1. UNCHANGED <<seenAt, onDisk, unsaved, unseen, calls>> /\ linking \subseteq linking'
    BY <1>10 DEF D!handleDeviceLinked
  <2>2. mem' = mem \/ (m.to \in linking' /\ \A y \in Device \ {m.to} : mem'[y] = mem[y])
    BY <1>10 DEF D!handleDeviceLinked, DevicesTyped
  <2> QED BY <1>a, <2>1, <2>2
<1>11. ASSUME NEW m \in net, D!Lose(m)
       PROVE  \A x \in Device : (Waits(x) \/ Listed(x))' /\ (x \in unseen \/ Noted(x))'
  BY <1>11, <1>a DEF D!Lose
<1>12. ASSUME NEW x \in Device, NEW y \in Device, D!Handshake(x, y) \/ D!RemoveContact(x, y)
       PROVE  \A z \in Device : (Waits(z) \/ Listed(z))' /\ (z \in unseen \/ Noted(z))'
  <2>1. unsaved' = unsaved \cup {x} /\ UNCHANGED <<seenAt, onDisk, unseen, linking, calls>>
    BY <1>12 DEF D!Handshake, D!RemoveContact
  <2>2. \A z \in Device \ {x} : mem'[z] = mem[z]
    BY <1>12 DEF D!Handshake, D!RemoveContact, DevicesTyped
  <2> QED BY <1>a, <2>1, <2>2
<1>13. ASSUME NEW x \in Device, D!ContactsSaved(x)
       PROVE  \A z \in Device : (Waits(z) \/ Listed(z))' /\ (z \in unseen \/ Noted(z))'
  <2>1. Writes(x)
    BY <1>13 DEF D!ContactsSaved, Writes
  <2>2. /\ onDisk'[x].records.devices = mem[x].devices
        /\ \A y \in Device : onDisk'[y].seen = onDisk[y].seen
        /\ \A y \in Device \ {x} : onDisk'[y] = onDisk[y]
    BY <2>1, Written
  <2>3. unsaved' = unsaved \ {x} /\ UNCHANGED <<mem, seenAt, unseen, linking, calls>>
    BY <1>13 DEF D!ContactsSaved
  <2> QED BY <1>a, <2>2, <2>3
<1>14. ASSUME NEW x \in Device, D!SeenSaved(x)
       PROVE  \A z \in Device : (Waits(z) \/ Listed(z))' /\ (z \in unseen \/ Noted(z))'
  <2>1. onDisk' = [onDisk EXCEPT ![x].seen = seenAt[x]]
    BY <1>14 DEF D!SeenSaved
  <2>2. /\ onDisk'[x].seen = seenAt[x]
        /\ \A y \in Device : onDisk'[y].records = onDisk[y].records
        /\ \A y \in Device \ {x} : onDisk'[y] = onDisk[y]
    BY <2>1, SeenWritten
  <2>3. unseen' = unseen \ {x} /\ UNCHANGED <<mem, seenAt, unsaved, linking, calls>>
    BY <1>14 DEF D!SeenSaved
  <2> QED BY <1>a, <2>2, <2>3
<1>15. ASSUME NEW x \in Device, D!Restart(x)
       PROVE  \A z \in Device : (Waits(z) \/ Listed(z))' /\ (z \in unseen \/ Noted(z))'
  <2>1. PICK w : w = D!loadContactRecords(D!Empty, onDisk[x].records)
    OBVIOUS
  <2>2. w.devices = onDisk[x].records.devices
    BY <2>1, RestartedView
  <2>3. mem'[x] = w /\ \A y \in Device \ {x} : mem'[y] = mem[y]
    BY <1>15, <2>1 DEF D!Restart, DevicesTyped
  <2>4. seenAt'[x] = onDisk[x].seen /\ \A y \in Device \ {x} : seenAt'[y] = seenAt[y]
    BY <1>15 DEF D!Restart, DevicesTyped
  <2>5. /\ onDisk' = onDisk /\ unsaved' = unsaved \ {x} /\ unseen' = unseen \ {x} /\ linking' = linking \ {x}
        /\ x # Primary => calls' = calls
    BY <1>15 DEF D!Restart
  <2> QED BY <1>a, <2>2, <2>3, <2>4, <2>5
<1> QED BY <1>1, <1>2, <1>3, <1>4, <1>5, <1>6, <1>7, <1>8, <1>9, <1>10, <1>11, <1>12, <1>13, <1>14, <1>15
        DEF DevicesMove

LEMMA TripleFields ==
    ASSUME NEW m
    PROVE  Triple(m).kind = m.kind /\ Triple(m).device = m.device /\ Triple(m).at = m.at
  BY DEF Triple

\* What the primary sends is what it announced.
LEMMA BroadcastSends ==
    ASSUME NEW c \in calls, D!Broadcast(c), NEW m \in net' \ net, m.kind # "device_linked", DevicesTyped
    PROVE  Triple(m) = c.announcement
<1>1. PICK a \in Announcements : a = c.announcement
  BY DEF DevicesTyped
<1>2. \E x : m = [to |-> x, kind |-> a.kind, device |-> a.device, at |-> a.at]
  BY <1>1 DEF D!Broadcast
<1>3. m.kind = a.kind /\ m.device = a.device /\ m.at = a.at
  BY <1>2
<1>4. a = [kind |-> a.kind, device |-> a.device, at |-> a.at]
  BY DEF Announcements
<1> QED BY <1>1, <1>3, <1>4 DEF Triple

LEMMA DatedKept ==
    ASSUME DevicesTyped, Dated, DevicesMove
    PROVE  Dated'
<1>0. now \in Nat /\ minted \subseteq Announcements
  BY DEF DevicesTyped
<1>1. CASE UNCHANGED D!vars
  BY <1>1 DEF D!vars, Dated, Triple
<1>2. CASE D!Tick
  <2>1. now' = now + 1 /\ UNCHANGED <<seenAt, onDisk, calls, net, minted, told>>
    BY <1>2 DEF D!Tick
  <2>2. \A m \in minted : m.at \in Nat
    BY <1>0 DEF Announcements
  <2>3. \A m \in minted : m.at <= now'
    BY <1>0, <2>1, <2>2 DEF Dated
  <2>4. \A x \in Device, k \in Secondary : seenAt[x][k] \in Nat
    BY DEF DevicesTyped
  <2>5. \A x \in Device, k \in Secondary : onDisk[x].seen[k] <= seenAt[x][k] /\ seenAt[x][k] <= now'
    BY <1>0, <2>1, <2>4 DEF Dated
  <2> QED BY <2>1, <2>3, <2>5 DEF Dated, Triple
<1>3. ASSUME NEW kind \in {"device_added", "device_revoked"}, NEW k \in Secondary, NEW l \in Offers,
             D!Announce(kind, k, now, l)
      PROVE  Dated'
  <2>1. PICK a : a = [kind |-> kind, device |-> k, at |-> now]
    OBVIOUS
  <2>2. PICK c : c = [announcement |-> a, linked |-> l, saved |-> FALSE]
    OBVIOUS
  <2>3. /\ minted' = minted \cup {a} /\ calls' = calls \cup {c} /\ a.at = now /\ c.announcement = a
        /\ UNCHANGED <<seenAt, onDisk, net, now, told>>
    BY <1>3, <2>1, <2>2 DEF D!Announce
  <2> QED BY <1>0, <2>3 DEF Dated, Triple
<1>4. ASSUME NEW c \in calls, D!CallSaved(c)
      PROVE  Dated'
  <2>1. Writes(Primary) /\ UNCHANGED <<seenAt, now, minted, told, net>>
    BY <1>4 DEF D!CallSaved, Writes
  <2>2. \A y \in Device : onDisk'[y].seen = onDisk[y].seen
    BY <2>1, Written, DevicesApart
  <2>3. \A d \in calls' : \E e \in calls : d.announcement = e.announcement
    <3>1. c \in [announcement : Announcements, linked : Offers, saved : BOOLEAN]
      BY DEF DevicesTyped
    <3>2. PICK d : d = [c EXCEPT !.saved = TRUE]
      OBVIOUS
    <3>3. d.announcement = c.announcement
      BY <3>1, <3>2
    <3> QED BY <1>4, <3>2, <3>3 DEF D!CallSaved
  <2> QED BY <2>1, <2>2, <2>3 DEF Dated, Triple
<1>5. ASSUME NEW c \in calls, D!CallFails(c)
      PROVE  Dated'
  BY <1>5 DEF D!CallFails, Dated, Triple
<1>6. ASSUME NEW c \in calls, D!Broadcast(c)
      PROVE  Dated'
  <2>1. calls' \subseteq calls /\ UNCHANGED <<seenAt, onDisk, now, minted, told>>
    BY <1>6 DEF D!Broadcast
  <2>2. \A m \in net' : m.kind # "device_linked" => Triple(m) \in minted
    BY <1>6, BroadcastSends DEF Dated
  <2> QED BY <2>1, <2>2 DEF Dated, Triple
<1>7. ASSUME NEW d \in Secondary, D!createDeviceLinkOffer(d)
      PROVE  Dated'
  BY <1>7 DEF D!createDeviceLinkOffer, Dated, Triple
<1>8. ASSUME NEW d \in Device, Writes(d), UNCHANGED <<seenAt, now, minted, told, net, calls>>
      PROVE  Dated'
  <2>2. \A y \in Device : onDisk'[y].seen = onDisk[y].seen
    BY <1>8, Written
  <2> QED BY <1>8, <2>2 DEF Dated, Triple
<1>9. ASSUME NEW m \in net, D!applyDeviceAnnouncement(m)
      PROVE  Dated'
  <2>1. /\ m.to \in Device /\ m.device \in Secondary /\ m.at \in Nat /\ m.kind # "device_linked"
        /\ Triple(m) \in minted /\ m.at <= now
    <3>1. m.kind # "device_linked"
      BY <1>9 DEF D!applyDeviceAnnouncement
    <3>2. Triple(m) \in minted
      BY <3>1 DEF Dated
    <3> QED BY <3>1, <3>2, MessageKinds, TripleFields DEF Dated
  <2>2. net' \subseteq net /\ told' = [told EXCEPT ![m.to] = @ \cup {Triple(m)}]
        /\ UNCHANGED <<onDisk, calls, now, minted>>
    BY <1>9 DEF D!applyDeviceAnnouncement, Triple, D!Take
  <2>3. \A x \in Device : told'[x] \subseteq minted
    BY <2>1, <2>2 DEF Dated, DevicesTyped
  <2>4. \A x \in Device, k \in Secondary : onDisk[x].seen[k] <= seenAt'[x][k] /\ seenAt'[x][k] <= now
    <3>1. CASE seenAt' = seenAt
      BY <3>1 DEF Dated
    <3>2. CASE D!Applies(m) /\ seenAt' = [seenAt EXCEPT ![m.to][m.device] = m.at]
      <4>1. PICK s \in [Secondary -> Nat] : s = [seenAt[m.to] EXCEPT ![m.device] = m.at]
        BY <2>1 DEF DevicesTyped
      <4>2. seenAt' = [seenAt EXCEPT ![m.to] = s]
        BY <3>2, <4>1
      <4>3. m.at > seenAt[m.to][m.device]
        BY <3>2 DEF D!Applies
      <4>4. \A k \in Secondary : s[k] = IF k = m.device THEN m.at ELSE seenAt[m.to][k]
        BY <4>1 DEF DevicesTyped
      <4>5. \A k \in Secondary : /\ onDisk[m.to].seen[k] \in Nat /\ seenAt[m.to][k] \in Nat
                                 /\ onDisk[m.to].seen[k] <= seenAt[m.to][k] /\ seenAt[m.to][k] <= now
        BY <2>1 DEF Dated, DevicesTyped
      <4>6. \A k \in Secondary : onDisk[m.to].seen[k] <= s[k] /\ s[k] <= now
        BY <2>1, <4>3, <4>4, <4>5
      <4>7. seenAt'[m.to] = s /\ \A x \in Device \ {m.to} : seenAt'[x] = seenAt[x]
        BY <2>1, <4>2 DEF DevicesTyped
      <4> QED BY <4>6, <4>7 DEF Dated
    <3> QED BY <1>9, <3>1, <3>2 DEF D!applyDeviceAnnouncement
  <2> QED BY <2>2, <2>3, <2>4 DEF Dated, Triple
<1>10. ASSUME NEW m \in net, D!handleDeviceLinked(m)
       PROVE  Dated'
  BY <1>10 DEF D!handleDeviceLinked, D!Take, Dated, Triple
<1>11. ASSUME NEW m \in net, D!Lose(m)
       PROVE  Dated'
  BY <1>11 DEF D!Lose, D!Take, Dated, Triple
<1>12. ASSUME NEW x \in Device, NEW y \in Device, D!Handshake(x, y) \/ D!RemoveContact(x, y)
       PROVE  Dated'
  BY <1>12 DEF D!Handshake, D!RemoveContact, Dated, Triple
<1>14. ASSUME NEW x \in Device, D!SeenSaved(x)
       PROVE  Dated'
  <2>1. onDisk' = [onDisk EXCEPT ![x].seen = seenAt[x]] /\ UNCHANGED <<seenAt, now, minted, told, net, calls>>
    BY <1>14 DEF D!SeenSaved
  <2>2. /\ onDisk'[x].seen = seenAt[x]
        /\ \A y \in Device \ {x} : onDisk'[y] = onDisk[y]
    BY <2>1, SeenWritten
  <2>3. \A k \in Secondary : seenAt[x][k] \in Nat
    BY DEF DevicesTyped
  <2> QED BY <2>1, <2>2, <2>3 DEF Dated, Triple
<1>15. ASSUME NEW x \in Device, D!Restart(x)
       PROVE  Dated'
  <2>1. seenAt'[x] = onDisk[x].seen /\ \A y \in Device \ {x} : seenAt'[y] = seenAt[y]
    BY <1>15 DEF D!Restart, DevicesTyped
  <2>2. \A k \in Secondary : /\ onDisk[x].seen[k] \in Nat /\ seenAt[x][k] \in Nat
                             /\ onDisk[x].seen[k] <= seenAt[x][k] /\ seenAt[x][k] <= now
    BY DEF Dated, DevicesTyped
  <2>3. calls' \subseteq calls /\ UNCHANGED <<onDisk, net, now, minted, told>>
    BY <1>15 DEF D!Restart
  <2>4. \A k \in Secondary : onDisk[x].seen[k] <= seenAt'[x][k] /\ seenAt'[x][k] <= now
    BY <1>0, <2>1, <2>2
  <2> QED BY <2>1, <2>3, <2>4 DEF Dated, Triple
<1>16. ASSUME NEW d \in Device, D!LinkSaved(d) \/ D!ContactsSaved(d)
       PROVE  Dated'
  BY <1>8, <1>16 DEF D!LinkSaved, D!ContactsSaved, Writes
<1> QED BY <1>1, <1>2, <1>3, <1>4, <1>5, <1>6, <1>7, <1>9, <1>10, <1>11, <1>12, <1>14, <1>15, <1>16, DevicesApart
        DEF DevicesMove

\* An announcement of the primary reaches every contact it lists.
LEMMA BroadcastReaches ==
    ASSUME DevicesTyped, ListsHold, NEW c \in calls, D!Broadcast(c), NEW p \in Contact,
           Own(Primary), Unmapped(Primary), p \in mem[Primary].devices[p]
    PROVE  \E n \in net' : n.to = p /\ n.kind # "device_linked" /\ Triple(n) = c.announcement
<1>1. PICK v \in Views : v = mem[Primary] /\ Resolves(v)
  BY DevicesApart DEF DevicesTyped, ListsHold
<1>2. PICK a \in Announcements : a = c.announcement
  BY DEF DevicesTyped
<1>3. a.kind \in {"device_added", "device_revoked"} /\ a.device \in Secondary
  BY DEF Announcements
<1>4. p \in D!Mapped(v)
  <2>1. ~Revoked(Primary, p)
    <3>1. minted \subseteq Announcements /\ told[Primary] \subseteq Announcements
      BY DevicesApart DEF DevicesTyped
    <3>2. \A m \in Announcements : m.device \in Secondary
      BY DEF Announcements
    <3> QED BY <3>1, <3>2, DevicesApart DEF Revoked
  <2> QED BY <1>1, <2>1, DevicesApart DEF Unmapped
<1>5. p \in D!FanOut(v, p)
  BY <1>1, FansOut, DevicesApart
<1>6. PICK n : n = [to |-> p, kind |-> a.kind, device |-> a.device, at |-> a.at]
  OBVIOUS
<1>7. n \in net'
  <2> DEFINE peers == D!Mapped(v) \ ({Primary} \cup IF a.kind = "device_added" THEN {a.device} ELSE {})
             to == (UNION {D!FanOut(v, q) : q \in peers}) \ {Primary}
  <2>1. p \in peers
    BY <1>3, <1>4, DevicesApart
  <2>2. {[to |-> x, kind |-> a.kind, device |-> a.device, at |-> a.at] : x \in to} \subseteq net'
    BY <1>1, <1>2 DEF D!Broadcast
  <2> HIDE DEF peers
  <2>3. p \in to
    <3>1. p \in UNION {D!FanOut(v, q) : q \in peers}
      BY <1>5, <2>1
    <3> QED BY <3>1, DevicesApart
  <2> HIDE DEF to
  <2> QED BY <1>6, <2>2, <2>3
<1>8. n.to = p /\ n.kind # "device_linked" /\ Triple(n) = a
  BY <1>3, <1>6 DEF Triple, Announcements
<1> QED BY <1>2, <1>7, <1>8

LEMMA ComingKept ==
    ASSUME DevicesTyped, ListsHold, Coming, Primary \notin strayed => Unstrayed(Primary), DevicesMove
    PROVE  Coming'
<1> SUFFICES ASSUME ~missed', Primary \notin strayed', NEW p \in Contact, NEW m \in minted'
             PROVE  Comes(p, m)'
  BY DEF Coming
<1>a. ASSUME ~missed, Primary \notin strayed, m \in minted
      PROVE  \/ m \in told[p]
             \/ \E n \in net : n.to = p /\ n.kind # "device_linked" /\ Triple(n) = m
             \/ \E d \in calls : d.announcement = m
  BY <1>a DEF Coming, Comes
<1>b. p \in Device
  BY DevicesApart
<1>1. CASE UNCHANGED D!vars
  BY <1>1, <1>a DEF D!vars, Comes, Triple
<1>2. CASE D!Tick
  BY <1>2, <1>a DEF D!Tick, Comes, Triple
<1>3. ASSUME NEW kind \in {"device_added", "device_revoked"}, NEW k \in Secondary, NEW l \in Offers,
             D!Announce(kind, k, now, l)
      PROVE  Comes(p, m)'
  <2>1. PICK a : a = [kind |-> kind, device |-> k, at |-> now]
    OBVIOUS
  <2>2. PICK c : c = [announcement |-> a, linked |-> l, saved |-> FALSE]
    OBVIOUS
  <2>3. /\ minted' = minted \cup {a} /\ calls' = calls \cup {c} /\ c.announcement = a
        /\ UNCHANGED <<net, told, missed, strayed>>
    BY <1>3, <2>1, <2>2 DEF D!Announce
  <2> QED BY <1>a, <2>3 DEF Comes, Triple
<1>4. ASSUME NEW c \in calls, D!CallSaved(c)
      PROVE  Comes(p, m)'
  <2>1. c \in [announcement : Announcements, linked : Offers, saved : BOOLEAN]
    BY DEF DevicesTyped
  <2>2. PICK d : d = [c EXCEPT !.saved = TRUE]
    OBVIOUS
  <2>3. d.announcement = c.announcement
    BY <2>1, <2>2
  <2>4. calls' = (calls \ {c}) \cup {d} /\ UNCHANGED <<net, told, missed, strayed, minted>>
    BY <1>4, <2>2 DEF D!CallSaved
  <2> QED BY <1>a, <2>3, <2>4 DEF Comes, Triple
<1>5. ASSUME NEW c \in calls, D!CallFails(c)
      PROVE  Comes(p, m)'
  BY <1>5 DEF D!CallFails
<1>6. ASSUME NEW c \in calls, D!Broadcast(c)
      PROVE  Comes(p, m)'
  <2>1. calls' = calls \ {c} /\ net \subseteq net' /\ UNCHANGED <<mem, told, missed, strayed, minted>>
    BY <1>6 DEF D!Broadcast
  <2>2. Own(Primary) /\ Unmapped(Primary) /\ p \in mem[Primary].devices[p]
    BY <2>1 DEF Unstrayed
  <2>3. \E n \in net' : n.to = p /\ n.kind # "device_linked" /\ Triple(n) = c.announcement
    BY <1>6, <2>2, BroadcastReaches
  <2> QED BY <1>a, <2>1, <2>3 DEF Comes, Triple
<1>7. ASSUME NEW d \in Secondary, D!createDeviceLinkOffer(d) \/ D!LinkSaved(d)
      PROVE  Comes(p, m)'
  BY <1>7, <1>a DEF D!createDeviceLinkOffer, D!LinkSaved, Comes, Triple
<1>8. ASSUME NEW n \in net, D!applyDeviceAnnouncement(n)
      PROVE  Comes(p, m)'
  <2>1. net' = net \ {n} /\ told' = [told EXCEPT ![n.to] = @ \cup {Triple(n)}]
        /\ UNCHANGED <<calls, missed, strayed, minted>>
    BY <1>8 DEF D!applyDeviceAnnouncement, Triple, D!Take
  <2>2. told[p] \subseteq told'[p] /\ (n.to = p => Triple(n) \in told'[p])
    BY <1>b, <2>1 DEF DevicesTyped
  <2> QED BY <1>a, <2>1, <2>2 DEF Comes, Triple
<1>9. ASSUME NEW n \in net, D!handleDeviceLinked(n)
      PROVE  Comes(p, m)'
  <2>1. net' = net \ {n} /\ n.kind = "device_linked" /\ strayed \subseteq strayed'
        /\ UNCHANGED <<calls, missed, told, minted>>
    BY <1>9 DEF D!handleDeviceLinked, D!Take
  <2> QED BY <1>a, <2>1 DEF Comes, Triple
<1>10. ASSUME NEW n \in net, D!Lose(n)
       PROVE  Comes(p, m)'
  BY <1>10 DEF D!Lose
<1>11. ASSUME NEW x \in Device, NEW y \in Device, D!Handshake(x, y) \/ D!RemoveContact(x, y)
       PROVE  Comes(p, m)'
  <2>1. strayed \subseteq strayed' /\ UNCHANGED <<net, calls, missed, told, minted>>
    BY <1>11 DEF D!Handshake, D!RemoveContact
  <2> QED BY <1>a, <2>1 DEF Comes, Triple
<1>12. ASSUME NEW x \in Device, D!ContactsSaved(x) \/ D!SeenSaved(x)
       PROVE  Comes(p, m)'
  BY <1>12, <1>a DEF D!ContactsSaved, D!SeenSaved, Comes, Triple
<1>13. ASSUME NEW x \in Device, D!Restart(x)
       PROVE  Comes(p, m)'
  <2>1. strayed \subseteq strayed' /\ UNCHANGED <<net, missed, told, minted>>
    BY <1>13 DEF D!Restart
  <2>2. calls' = calls
    BY <1>13 DEF D!Restart, D!Whole
  <2> QED BY <1>a, <2>1, <2>2 DEF Comes, Triple
<1> QED BY <1>1, <1>2, <1>3, <1>4, <1>5, <1>6, <1>7, <1>8, <1>9, <1>10, <1>11, <1>12, <1>13 DEF DevicesMove

\* What a device knows of the accounts is as before, but that more may resolve.
LEMMA Steady ==
    ASSUME NEW x \in Device, Unstrayed(x), told'[x] = told[x], seenAt'[x] = seenAt[x],
           mem'[x].devices = mem[x].devices, x = Primary => minted' = minted,
           \A a \in Device : \A k \in mem[x].devices[a] :
              k \in Device /\ (mem[x].accountOf[k] # None => mem'[x].accountOf[k] # None)
    PROVE  Unstrayed(x)'
<1>1. Own(x)'
  BY DEF Unstrayed, Own
<1>2. \A k : Revoked(x, k)' <=> Revoked(x, k)
  BY DEF Revoked
<1>3. Unmapped(x)'
  BY <1>2 DEF Unstrayed, Unmapped, D!Mapped
<1>4. \A k : Member(x, k)' <=> Member(x, k)
  BY DEF Member
<1>5. x # Primary => Follows(x)'
  BY <1>4 DEF Unstrayed, Follows, About
<1>6. x = Primary => Leads' /\ \A c \in Contact : (c \in mem[Primary].devices[c])'
  BY <1>4 DEF Unstrayed, Leads, About
<1> QED BY <1>1, <1>3, <1>5, <1>6 DEF Unstrayed

\* The device that leaves the account is not listed elsewhere but under its own name.
LEMMA DoneSound ==
    ASSUME Viewed(mem), NEW x \in Device, NEW k \in Secondary,
           NEW kind \in {"device_added", "device_revoked"}, Does(x, kind, k),
           Own(x), Unmapped(x), \A j \in Device : Revoked(x, j) => Revoked(x, j)',
           kind = "device_revoked" => Revoked(x, k)'
    PROVE  /\ Own(x)' /\ Unmapped(x)'
           /\ Member(x, k)' <=> kind = "device_added"
           /\ \A j \in Secondary \ {k} : Member(x, j)' <=> Member(x, j)
           /\ \A a \in Device \ {Primary} : mem'[x].devices[a] = mem[x].devices[a]
<1>1. /\ Viewed(mem') /\ \A a \in Device \ {Primary} : mem'[x].devices[a] = mem[x].devices[a]
      /\ kind = "device_added" =>
            /\ mem'[x].devices[Primary] = mem[x].devices[Primary] \cup
                                      IF mem[x].devices[Primary] = {} THEN {Primary, k} ELSE {k}
            /\ mem'[x].accountOf[k] = Primary
            /\ mem[x].devices[Primary] = {} => mem'[x].accountOf[Primary] = Primary
            /\ \A j \in Device : mem[x].accountOf[j] # None => mem'[x].accountOf[j] # None
      /\ kind = "device_revoked" =>
            /\ mem'[x].devices[Primary] = mem[x].devices[Primary] \ {k}
            /\ \A j \in Device \ {k} : mem'[x].accountOf[j] = mem[x].accountOf[j]
  BY Done
<1>2. Primary \in Device /\ k \in Device /\ k # Primary /\ Primary # None /\ Primary \notin Secondary
  BY DevicesApart
<1>3. Own(x)'
  BY <1>1, <1>2 DEF Own
<1>4. Unmapped(x)'
  <2>1. ASSUME NEW a \in Device, NEW j \in mem'[x].devices[a], j \notin D!Mapped(mem'[x])
        PROVE  a = j /\ Revoked(x, j)'
    <3>0. j \in Device
      BY <1>1, <2>1 DEF Viewed, Views
    <3>1. mem'[x].accountOf[j] = None
      BY <2>1, <3>0 DEF D!Mapped
    <3>2. CASE j \in mem[x].devices[a] /\ mem[x].accountOf[j] = None
      BY <3>0, <3>2 DEF Unmapped, D!Mapped
    <3>3. CASE j \notin mem[x].devices[a]
      BY <1>1, <1>2, <3>1, <3>3
    <3>4. CASE j \in mem[x].devices[a] /\ mem[x].accountOf[j] # None
      <4>1. kind = "device_revoked" /\ j = k
        BY <1>1, <3>0, <3>1, <3>4
      <4>2. a # Primary
        BY <1>1, <2>1, <4>1
      <4> QED BY <3>4, <4>1, <4>2 DEF Own
    <3> QED BY <3>2, <3>3, <3>4
  <2> QED BY <2>1 DEF Unmapped
<1>5. Member(x, k)' <=> kind = "device_added"
  BY <1>1 DEF Member
<1>6. \A j \in Secondary \ {k} : Member(x, j)' <=> Member(x, j)
  BY <1>1, <1>2 DEF Member
<1> QED BY <1>1, <1>3, <1>4, <1>5, <1>6

LEMMA FollowsDone ==
    ASSUME DevicesTyped, ListsHold, NEW n \in net, D!applyDeviceAnnouncement(n), Unstrayed(n.to)
    PROVE  Unstrayed(n.to)'
<1>0. Viewed(mem)
  BY DEF Viewed, DevicesTyped, ListsHold
<1>1. PICK x \in Device : x = n.to
  BY MessageKinds
<1>2. PICK k \in Secondary : k = n.device
  BY MessageKinds
<1>3. x # Primary /\ n.at \in Nat /\ n.at # 0
  BY <1>1, MessageKinds
<1>4. PICK t : t = Triple(n)
  OBVIOUS
<1>5. /\ t.kind = n.kind /\ t.device = k /\ t.at = n.at
      /\ told' = [told EXCEPT ![x] = @ \cup {t}]
  BY <1>1, <1>2, <1>4, TripleFields DEF D!applyDeviceAnnouncement, Triple
<1>6. told'[x] = told[x] \cup {t}
  BY <1>5 DEF DevicesTyped
<1>7. About(told'[x], k) = About(told[x], k) \cup {t} /\ \A j \in Secondary \ {k} : About(told'[x], j) = About(told[x], j)
  BY <1>5, <1>6 DEF About
<1>8. \A j \in Device : Revoked(x, j) => Revoked(x, j)'
  BY <1>3, <1>6 DEF Revoked
<1>9. \A j \in Secondary : seenAt[x][j] \in Nat /\ \A m \in About(told[x], j) : m.at \in Nat
  <2>1. \A m \in told[x] : m \in Announcements
    BY DEF DevicesTyped
  <2> QED BY <2>1 DEF DevicesTyped, About, Announcements
<1>10. CASE n.at > seenAt[x][k] /\ Does(x, n.kind, k)
  <2>1. n.kind \in {"device_added", "device_revoked"}
    BY ApplyDone
  <2>2. n.kind = "device_revoked" => Revoked(x, k)'
    BY <1>5, <1>6 DEF Revoked
  <2>3. /\ Own(x)' /\ Unmapped(x)'
        /\ Member(x, k)' <=> n.kind = "device_added"
        /\ \A j \in Secondary \ {k} : Member(x, j)' <=> Member(x, j)
    <3>1. Own(x) /\ Unmapped(x)
      BY <1>1 DEF Unstrayed
    <3>2. PICK kind \in {"device_added", "device_revoked"} : kind = n.kind
      BY <2>1
    <3>3. Does(x, kind, k) /\ (kind = "device_revoked" => Revoked(x, k)')
      BY <1>10, <2>2, <3>2
    <3>4. /\ Own(x)' /\ Unmapped(x)'
          /\ Member(x, k)' <=> kind = "device_added"
          /\ \A j \in Secondary \ {k} : Member(x, j)' <=> Member(x, j)
      BY <1>0, <1>8, <3>1, <3>3, DoneSound
    <3> QED BY <3>2, <3>4
  <2>4. seenAt'[x][k] = n.at /\ \A j \in Secondary \ {k} : seenAt'[x][j] = seenAt[x][j]
    <3>1. seenAt' = [seenAt EXCEPT ![n.to][n.device] = n.at]
      BY <1>1, <1>2, <1>10 DEF D!applyDeviceAnnouncement, D!Applies
    <3> QED BY <1>1, <1>2, <3>1 DEF DevicesTyped
  <2>5. Follows(x)'
    <3>0. Follows(x)
      BY <1>1, <1>3 DEF Unstrayed
    <3>1. ASSUME NEW j \in Secondary
          PROVE  /\ About(told'[x], j) = {} => seenAt'[x][j] = 0 /\ ~Member(x, j)'
                 /\ \A m \in About(told'[x], j) : m.at <= seenAt'[x][j]
                 /\ About(told'[x], j) # {} =>
                      \E m \in About(told'[x], j) :
                          m.at = seenAt'[x][j] /\ (Member(x, j)' <=> m.kind = "device_added")
      <4>1. CASE j = k
        <5>1. \A m \in About(told[x], k) : m.at <= n.at
          BY <1>3, <1>9, <1>10, <3>0 DEF Follows
        <5>2. t \in About(told'[x], k) /\ t.at = seenAt'[x][k] /\ (Member(x, k)' <=> t.kind = "device_added")
          BY <1>5, <1>7, <2>3, <2>4
        <5>3. \A m \in About(told'[x], k) : m.at <= seenAt'[x][k]
          <6>1. t.at <= seenAt'[x][k]
            BY <1>3, <1>5, <2>4
          <6>2. ASSUME NEW m \in About(told'[x], k) PROVE m.at <= seenAt'[x][k]
            BY <1>7, <2>4, <5>1, <6>1
          <6> QED BY <6>2
        <5> QED BY <4>1, <5>2, <5>3
      <4>2. CASE j # k
        BY <1>7, <2>3, <2>4, <3>0, <4>2 DEF Follows
      <4> QED BY <4>1, <4>2
    <3> QED BY <3>1 DEF Follows
  <2> QED BY <1>1, <1>3, <2>3, <2>5 DEF Unstrayed
<1>11. CASE ~(n.at > seenAt[x][k]) /\ mem' = mem /\ seenAt' = seenAt
  <2>1. Own(x)'
    BY <1>1, <1>11 DEF Own, Unstrayed
  <2>2. Unmapped(x)'
    <3>1. \A a \in Device : \A j \in mem[x].devices[a] : j \in Device
      BY <1>0 DEF Viewed, Views
    <3> QED BY <1>1, <1>8, <1>11, <3>1 DEF Unmapped, Unstrayed, D!Mapped
  <2>3. Follows(x)'
    <3>0. Follows(x)
      BY <1>1, <1>3 DEF Unstrayed
    <3>1. About(told[x], k) # {}
      BY <1>3, <1>9, <1>11, <3>0 DEF Follows
    <3>2. t.at <= seenAt[x][k]
      BY <1>3, <1>5, <1>9, <1>11
    <3>3. \A j : Member(x, j)' <=> Member(x, j)
      BY <1>11 DEF Member
    <3>4. ASSUME NEW j \in Secondary
          PROVE  /\ About(told'[x], j) = {} => seenAt'[x][j] = 0 /\ ~Member(x, j)'
                 /\ \A m \in About(told'[x], j) : m.at <= seenAt'[x][j]
                 /\ About(told'[x], j) # {} =>
                      \E m \in About(told'[x], j) :
                          m.at = seenAt'[x][j] /\ (Member(x, j)' <=> m.kind = "device_added")
      <4>1. CASE j = k
        BY <1>7, <1>11, <3>0, <3>1, <3>2, <3>3, <4>1 DEF Follows
      <4>2. CASE j # k
        BY <1>7, <1>11, <3>0, <3>3, <4>2 DEF Follows
      <4> QED BY <4>1, <4>2
    <3> QED BY <3>4 DEF Follows
  <2> QED BY <1>1, <1>3, <2>1, <2>2, <2>3 DEF Unstrayed
<1>12. n.at > seenAt[x][k] \/ (mem' = mem /\ seenAt' = seenAt)
  BY <1>1, <1>2 DEF D!applyDeviceAnnouncement, D!Applies
<1>13. n.at > seenAt[x][k] => Does(x, n.kind, k)
  BY <1>1, <1>2, ApplyDone
<1> QED BY <1>3, <1>9, <1>10, <1>11, <1>12, <1>13

\* The primary does what it announces, and no announcement is later.
LEMMA LeadsDone ==
    ASSUME DevicesTyped, ListsHold, Dated, Unstrayed(Primary),
           NEW kind \in {"device_added", "device_revoked"}, NEW k \in Secondary, NEW l \in Offers,
           D!Announce(kind, k, now, l)
    PROVE  Unstrayed(Primary)'
<1>0. Viewed(mem) /\ Primary \in Device
  BY DevicesApart DEF Viewed, DevicesTyped, ListsHold
<1>1. PICK t : t = [kind |-> kind, device |-> k, at |-> now]
  OBVIOUS
<1>2. t.kind = kind /\ t.device = k /\ t.at = now /\ minted' = minted \cup {t} /\ told' = told
  BY <1>1 DEF D!Announce
<1>3. About(minted', k) = About(minted, k) \cup {t} /\ \A j \in Secondary \ {k} : About(minted', j) = About(minted, j)
  BY <1>2 DEF About
<1>4. \A m \in About(minted, k) : m.at <= now
  BY DEF About, Dated
<1>5. \A j \in Device : Revoked(Primary, j) => Revoked(Primary, j)'
  BY <1>2 DEF Revoked
<1>6. kind = "device_revoked" => Revoked(Primary, k)'
  BY <1>2 DEF Revoked
<1>7. Does(Primary, kind, k)
  BY AnnounceDone
<1>8. Own(Primary) /\ Unmapped(Primary) /\ Leads /\ \A c \in Contact : c \in mem[Primary].devices[c]
  BY DEF Unstrayed
<1>9. /\ Own(Primary)' /\ Unmapped(Primary)'
      /\ Member(Primary, k)' <=> kind = "device_added"
      /\ \A j \in Secondary \ {k} : Member(Primary, j)' <=> Member(Primary, j)
      /\ \A a \in Device \ {Primary} : mem'[Primary].devices[a] = mem[Primary].devices[a]
  BY <1>0, <1>5, <1>6, <1>7, <1>8, DoneSound
<1>10. \A c \in Contact : c \in mem'[Primary].devices[c]
  BY <1>8, <1>9, DevicesApart
<1>11. now \in Nat
  BY DEF DevicesTyped
<1>12. ASSUME NEW j \in Secondary
       PROVE  /\ About(minted', j) = {} => ~Member(Primary, j)'
              /\ About(minted', j) # {} =>
                    \E m \in About(minted', j) :
                        /\ \A n \in About(minted', j) : n.at <= m.at
                        /\ Member(Primary, j)' <=> m.kind = "device_added"
  <2>1. CASE j = k
    <3>1. t \in About(minted', k) /\ (Member(Primary, k)' <=> t.kind = "device_added")
      BY <1>2, <1>3, <1>9
    <3>2. \A n \in About(minted', k) : n.at <= t.at
      <4>1. t.at <= t.at
        BY <1>2, <1>11
      <4>2. ASSUME NEW n \in About(minted', k) PROVE n.at <= t.at
        BY <1>2, <1>3, <1>4, <4>1
      <4> QED BY <4>2
    <3> QED BY <2>1, <3>1, <3>2
  <2>2. CASE j # k
    BY <1>3, <1>8, <1>9, <2>2 DEF Leads
  <2> QED BY <2>1, <2>2
<1>13. Leads'
  BY <1>12 DEF Leads
<1> QED BY <1>9, <1>10, <1>13 DEF Unstrayed

LEMMA UnstrayedKept ==
    ASSUME DevicesTyped, ListsHold, Stored, Dated, DevicesMove, NEW x \in Device \ strayed', Unstrayed(x)
    PROVE  Unstrayed(x)'
<1>0. Viewed(mem) /\ \A a \in Device : mem[x].devices[a] \subseteq Device
  BY DEF Viewed, DevicesTyped, ListsHold, Views
<1>1. ASSUME told'[x] = told[x], seenAt'[x] = seenAt[x], mem'[x] = mem[x], x = Primary => minted' = minted
      PROVE  Unstrayed(x)'
  BY <1>0, <1>1, Steady
<1>2. CASE UNCHANGED D!vars
  BY <1>1, <1>2 DEF D!vars
<1>3. CASE D!Tick
  BY <1>1, <1>3 DEF D!Tick
<1>4. ASSUME NEW kind \in {"device_added", "device_revoked"}, NEW k \in Secondary, NEW l \in Offers,
             D!Announce(kind, k, now, l)
      PROVE  Unstrayed(x)'
  <2>1. CASE x = Primary
    BY <1>4, <2>1, LeadsDone
  <2>2. CASE x # Primary
    <3>1. mem'[x] = mem[x]
      BY <1>0, <1>4, <2>2, AnnounceDone, Done, DevicesApart
    <3> QED BY <1>1, <1>4, <2>2, <3>1 DEF D!Announce
  <2> QED BY <2>1, <2>2
<1>5. ASSUME NEW c \in calls, D!CallSaved(c) \/ D!CallFails(c) \/ D!Broadcast(c)
      PROVE  Unstrayed(x)'
  BY <1>1, <1>5 DEF D!CallSaved, D!CallFails, D!Broadcast
<1>6. ASSUME NEW d \in Secondary, D!createDeviceLinkOffer(d) \/ D!LinkSaved(d)
      PROVE  Unstrayed(x)'
  BY <1>1, <1>6 DEF D!createDeviceLinkOffer, D!LinkSaved
<1>7. ASSUME NEW n \in net, D!applyDeviceAnnouncement(n)
      PROVE  Unstrayed(x)'
  <2>1. CASE x = n.to
    BY <1>7, <2>1, FollowsDone
  <2>2. CASE x # n.to
    <3>1. told'[x] = told[x] /\ seenAt'[x] = seenAt[x] /\ minted' = minted
      BY <1>7, <2>2 DEF D!applyDeviceAnnouncement, DevicesTyped
    <3>2. mem'[x] = mem[x]
      BY <1>7, <2>2 DEF D!applyDeviceAnnouncement, DevicesTyped
    <3> QED BY <1>1, <3>1, <3>2
  <2> QED BY <2>1, <2>2
<1>8. ASSUME NEW n \in net, D!handleDeviceLinked(n)
      PROVE  Unstrayed(x)'
  <2>1. UNCHANGED <<seenAt, told, minted>>
    BY <1>8 DEF D!handleDeviceLinked
  <2>2. mem'[x] = mem[x]
    BY <1>8 DEF D!handleDeviceLinked, DevicesTyped
  <2> QED BY <1>1, <2>1, <2>2
<1>9. ASSUME NEW n \in net, D!Lose(n)
      PROVE  Unstrayed(x)'
  BY <1>1, <1>9 DEF D!Lose
<1>10. ASSUME NEW z \in Device, NEW y \in Device, D!RemoveContact(z, y)
       PROVE  Unstrayed(x)'
  <2>1. UNCHANGED <<seenAt, told, minted>>
    BY <1>10 DEF D!RemoveContact
  <2>2. mem'[x] = mem[x]
    BY <1>10 DEF D!RemoveContact, DevicesTyped
  <2> QED BY <1>1, <2>1, <2>2
<1>11. ASSUME NEW z \in Device, NEW y \in Device, D!Handshake(z, y)
       PROVE  Unstrayed(x)'
  <2>1. UNCHANGED <<seenAt, told, minted>>
    BY <1>11 DEF D!Handshake
  <2>2. CASE x # z
    <3>1. mem'[x] = mem[x]
      BY <1>11, <2>2 DEF D!Handshake, DevicesTyped
    <3> QED BY <1>1, <2>1, <3>1
  <2>3. CASE x = z
    <3>1. PICK ds \in SUBSET Device : ds = {y}
      OBVIOUS
    <3>2. PICK v \in Views : v = mem[x] /\ Ordered(v) /\ Resolves(v)
      BY <1>0 DEF Viewed
    <3>3. mem'[x] = D!addContactAccount(v, y, ds)
      BY <1>11, <2>3, <3>1, <3>2 DEF D!Handshake, D!addContact, DevicesTyped
    <3>4. ASSUME NEW w, w = D!addContactAccount(v, y, ds)
          PROVE  /\ w.devices = [v.devices EXCEPT ![y] = @ \cup ds]
                 /\ \A j \in Device : w.accountOf[j] = IF j \in ds THEN y ELSE v.accountOf[j]
      BY <3>2, <3>4, Added
    <3>5. /\ mem'[x].devices = [mem[x].devices EXCEPT ![y] = @ \cup {y}]
          /\ \A j \in Device : mem'[x].accountOf[j] = IF j = y THEN y ELSE mem[x].accountOf[j]
      BY <3>1, <3>2, <3>3, <3>4
    <3>6. mem[x].devices \in [Device -> SUBSET Device] /\ y # None
      BY <3>2, DevicesApart DEF Views
    <3>7. Own(x) /\ Unmapped(x)
      BY DEF Unstrayed
    <3>8. Own(x)'
      BY <3>5, <3>6, <3>7 DEF Own
    <3>9. \A j : Revoked(x, j)' <=> Revoked(x, j)
      BY <2>1 DEF Revoked
    <3>10. Unmapped(x)'
      BY <3>5, <3>6, <3>7, <3>9 DEF Unmapped, D!Mapped
    <3>11. \A j \in Secondary : Member(x, j)' <=> Member(x, j)
      BY <3>5, <3>6, DevicesApart DEF Member
    <3>12. x # Primary => Follows(x)'
      BY <2>1, <3>11 DEF Unstrayed, Follows, About
    <3>13. x = Primary => Leads'
      BY <2>1, <3>11 DEF Unstrayed, Leads, About
    <3>14. x = Primary => \A c \in Contact : (c \in mem[Primary].devices[c])'
      BY <3>5, <3>6, DevicesApart DEF Unstrayed
    <3> QED BY <3>8, <3>10, <3>12, <3>13, <3>14 DEF Unstrayed
  <2> QED BY <2>2, <2>3
<1>12. ASSUME NEW z \in Device, D!ContactsSaved(z) \/ D!SeenSaved(z)
       PROVE  Unstrayed(x)'
  BY <1>1, <1>12 DEF D!ContactsSaved, D!SeenSaved
<1>13. ASSUME NEW z \in Device, D!Restart(z)
       PROVE  Unstrayed(x)'
  <2>1. UNCHANGED <<told, minted>>
    BY <1>13 DEF D!Restart
  <2>2. CASE x # z
    <3>1. mem'[x] = mem[x] /\ seenAt'[x] = seenAt[x]
      BY <1>13, <2>2 DEF D!Restart, DevicesTyped
    <3> QED BY <1>1, <2>1, <3>1
  <2>3. CASE x = z
    <3>1. D!Whole(x)
      BY <1>13, <2>3 DEF D!Restart
    <3>2. onDisk[x].records.devices = mem[x].devices /\ onDisk[x].seen = seenAt[x]
      BY <3>1 DEF D!Whole, Stored
    <3>3. PICK w : w = D!loadContactRecords(D!Empty, onDisk[x].records)
      OBVIOUS
    <3>4. /\ w.devices = onDisk[x].records.devices
          /\ \A a, k \in Device : k \in w.devices[a] => w.accountOf[k] # None
      BY <3>3, RestartedView
    <3>5. mem'[x] = w /\ seenAt'[x] = onDisk[x].seen
      BY <1>13, <2>3, <3>3 DEF D!Restart, DevicesTyped
    <3>6. /\ mem'[x].devices = mem[x].devices /\ seenAt'[x] = seenAt[x] /\ told'[x] = told[x]
          /\ \A a, k \in Device : k \in mem[x].devices[a] => mem'[x].accountOf[k] # None
      BY <2>1, <3>2, <3>4, <3>5
    <3> QED BY <1>0, <2>1, <3>6, Steady
  <2> QED BY <2>2, <2>3
<1> QED BY <1>2, <1>3, <1>4, <1>5, <1>6, <1>7, <1>8, <1>9, <1>10, <1>11, <1>12, <1>13 DEF DevicesMove

LEMMA DevicesStart ==
    ASSUME D!Init
    PROVE  DevicesInv
<1>1. PICK order \in [Contact -> 0..Cardinality(Contact) - 1] :
          /\ \A b, c \in Contact : order[b] = order[c] => b = c
          /\ mem = [x \in Device |-> CASE x = Primary -> D!Knowing(order)
                                       [] x \in Contact -> D!Knowing([p \in {Primary} |-> 0])
                                       [] OTHER -> D!Empty]
  BY DevicesCount DEF D!Init
<1>2. ASSUME NEW x \in Device
      PROVE  \E K \in SUBSET Device :
                /\ mem[x] \in Views /\ Ordered(mem[x]) /\ Resolves(mem[x])
                /\ \A a \in Device : mem[x].devices[a] = IF a \in K THEN {a} ELSE {}
                /\ \A k \in Device : mem[x].accountOf[k] = IF k \in K THEN k ELSE None
                /\ x = Primary => K = Contact
  <2>1. CASE x = Primary
    <3>1. mem[x] = D!Knowing(order)
      BY <1>1, <2>1, DevicesApart
    <3>2. PICK w : w = D!Knowing(order)
      OBVIOUS
    <3>3. PICK K \in SUBSET Device : K = Contact
      BY DevicesApart
    <3>4. Orders(order, K)
      BY <1>1, <3>3, DevicesApart DEF Orders
    <3>5. /\ w \in Views /\ Ordered(w) /\ Resolves(w)
          /\ \A a \in Device : w.devices[a] = IF a \in K THEN {a} ELSE {}
          /\ \A k \in Device : w.accountOf[k] = IF k \in K THEN k ELSE None
      <4>1. Knew(w, K)
        BY <3>2, <3>4, Knows
      <4> QED BY <4>1 DEF Knew
    <3> QED BY <3>1, <3>2, <3>3, <3>5
  <2>2. ASSUME x # Primary, NEW K \in SUBSET Device, IsFiniteSet(K), 0 \in 0..Cardinality(K) - 1 \/ K = {},
               \A b, c \in K : b = c, NEW o, o = [p \in K |-> 0], mem[x] = D!Knowing(o)
        PROVE  \E T \in SUBSET Device :
                  /\ mem[x] \in Views /\ Ordered(mem[x]) /\ Resolves(mem[x])
                  /\ \A a \in Device : mem[x].devices[a] = IF a \in T THEN {a} ELSE {}
                  /\ \A k \in Device : mem[x].accountOf[k] = IF k \in T THEN k ELSE None
                  /\ x = Primary => T = Contact
    <3>1. PICK w : w = D!Knowing(o)
      OBVIOUS
    <3>2. Orders(o, K)
      BY <2>2 DEF Orders
    <3>3. /\ w \in Views /\ Ordered(w) /\ Resolves(w)
          /\ \A a \in Device : w.devices[a] = IF a \in K THEN {a} ELSE {}
          /\ \A k \in Device : w.accountOf[k] = IF k \in K THEN k ELSE None
      <4>1. Knew(w, K)
        BY <3>1, <3>2, Knows
      <4> QED BY <4>1 DEF Knew
    <3> QED BY <2>2, <3>1, <3>3
  <2>3. CASE x # Primary /\ x \in Contact
    <3>1. PICK K \in SUBSET Device : K = {Primary}
      BY DevicesApart
    <3>2. IsFiniteSet(K) /\ Cardinality(K) = 1
      BY <3>1, FS_Singleton
    <3>3. 0 \in 0..Cardinality(K) - 1
      BY <3>2
    <3>4. mem[x] = D!Knowing([p \in K |-> 0])
      BY <1>1, <2>3, <3>1
    <3>5. \A b, c \in K : b = c
      BY <3>1
    <3> QED BY <2>2, <2>3, <3>2, <3>3, <3>4, <3>5
  <2>4. CASE x # Primary /\ x \notin Contact
    <3>1. PICK K \in SUBSET Device : K = {}
      OBVIOUS
    <3>2. IsFiniteSet(K)
      BY <3>1, FS_EmptySet
    <3>4. mem[x] = D!Knowing([p \in K |-> 0])
      BY <1>1, <2>4, <3>1 DEF D!Empty
    <3> QED BY <2>2, <2>4, <3>1, <3>2, <3>4
  <2> QED BY <2>1, <2>3, <2>4
<1>3. /\ seenAt = [x \in Device |-> [k \in Secondary |-> 0]]
      /\ onDisk = [x \in Device |-> [records |-> D!getContactRecords(mem[x]), seen |-> seenAt[x]]]
      /\ unsaved = {} /\ unseen = {} /\ linking = {} /\ offers = {} /\ calls = {} /\ net = {} /\ now = 1
      /\ left \in Budgets /\ minted = {} /\ told = [x \in Device |-> {}] /\ missed = FALSE /\ strayed = {}
  BY DEF D!Init
<1>4. mem \in [Device -> Views] /\ \A x \in Device : Ordered(mem[x]) /\ Resolves(mem[x])
  <2>1. \A x \in Device : mem[x] \in Views /\ Ordered(mem[x]) /\ Resolves(mem[x])
    BY <1>2
  <2> QED BY <1>1, <2>1
<1>5. ASSUME NEW x \in Device
      PROVE  /\ onDisk[x] \in [records : Lists, seen : [Secondary -> Nat]] /\ Ordered(onDisk[x].records)
             /\ onDisk[x].records.devices = mem[x].devices /\ onDisk[x].seen = seenAt[x]
  <2>1. PICK v \in Views : v = mem[x] /\ Ordered(v)
    BY <1>4
  <2>2. PICK l \in Lists : l = D!getContactRecords(v) /\ l.devices = v.devices /\ Ordered(l)
    BY <2>1, ViewsList
  <2>3. PICK s \in [Secondary -> Nat] : s = seenAt[x]
    BY <1>3
  <2>4. onDisk[x] = [records |-> l, seen |-> s]
    BY <1>3, <2>1, <2>2, <2>3
  <2> QED BY <2>1, <2>2, <2>3, <2>4
<1>6. DevicesTyped
  <2>1. onDisk \in [Device -> [records : Lists, seen : [Secondary -> Nat]]]
    BY <1>3, <1>5
  <2>2. IsFiniteSet(offers)
    BY <1>3, FS_EmptySet
  <2>3. left \in D!Allowance
    BY <1>3, DevicesApart
  <2>4. seenAt \in [Device -> [Secondary -> Nat]] /\ told \in [Device -> SUBSET Announcements]
    BY <1>3
  <2>5. unsaved \subseteq Device /\ unseen \subseteq Device /\ linking \subseteq Secondary /\ strayed \subseteq Device
    BY <1>3
  <2>6. /\ offers \subseteq [device : Secondary, challenge : Nat, expiresAt : Nat]
        /\ calls \subseteq [announcement : Announcements, linked : Offers, saved : BOOLEAN]
        /\ net \subseteq Messages /\ minted \subseteq Announcements
    BY <1>3, Zenon
  <2>7. now \in Nat \ {0}
    BY <1>3
  <2>8. missed \in BOOLEAN
    BY <1>3, Zenon
  <2> QED BY <1>4, <2>1, <2>2, <2>3, <2>4, <2>5, <2>6, <2>7, <2>8 DEF DevicesTyped
<1>7. ListsHold
  BY <1>3, <1>4, <1>5 DEF ListsHold
<1>8. Stored
  BY <1>5 DEF Stored
<1>9. Dated
  <2>1. \A x \in Device, k \in Secondary : onDisk[x].seen[k] = 0 /\ seenAt[x][k] = 0
    BY <1>3, <1>5
  <2> QED BY <1>3, <2>1 DEF Dated
<1>10. Coming
  BY <1>3 DEF Coming
<1>11. ASSUME NEW x \in Device
       PROVE  Unstrayed(x)
  <2>1. PICK K \in SUBSET Device :
                /\ \A a \in Device : mem[x].devices[a] = IF a \in K THEN {a} ELSE {}
                /\ \A k \in Device : mem[x].accountOf[k] = IF k \in K THEN k ELSE None
                /\ x = Primary => K = Contact
    BY <1>2
  <2>a. \A a \in Device : \A k \in mem[x].devices[a] : a \in K /\ k = a
    <3>1. ASSUME NEW a \in Device, NEW k \in mem[x].devices[a] PROVE a \in K /\ k = a
      <4>1. mem[x].devices[a] = IF a \in K THEN {a} ELSE {}
        BY <2>1
      <4> QED BY <4>1
    <3> QED BY <3>1
  <2>2. Own(x)
    BY <2>a, DevicesApart DEF Own
  <2>3. Unmapped(x)
    <3>1. \A a \in Device : \A k \in mem[x].devices[a] : k \in Device /\ mem[x].accountOf[k] = k
      BY <2>1, <2>a
    <3>2. \A a \in Device : \A k \in mem[x].devices[a] : k \in D!Mapped(mem[x])
      BY <3>1, DevicesApart DEF D!Mapped
    <3> QED BY <3>2 DEF Unmapped
  <2>4. \A k \in Secondary : ~Member(x, k)
    BY <2>a, DevicesApart DEF Member
  <2>5. Follows(x)
    BY <1>3, <2>4 DEF Follows, About
  <2>6. x = Primary => Leads
    BY <1>3, <2>4 DEF Leads, About
  <2>7. x = Primary => \A c \in Contact : c \in mem[Primary].devices[c]
    BY <2>1, DevicesApart
  <2> QED BY <2>2, <2>3, <2>5, <2>6, <2>7 DEF Unstrayed
<1> QED BY <1>6, <1>7, <1>8, <1>9, <1>10, <1>11 DEF DevicesInv

LEMMA DevicesKept ==
    ASSUME DevicesInv, [D!Next]_(D!vars)
    PROVE  DevicesInv'
<1>1. DevicesTyped /\ ListsHold /\ Stored /\ Dated /\ Coming
  BY DEF DevicesInv
<1>2. DevicesMove
  BY <1>1, DevicesMoves
<1>3. DevicesTyped' /\ ListsHold'
  BY <1>1, <1>2, TypesKept
<1>4. Stored' /\ Dated'
  BY <1>1, <1>2, StoredKept, DatedKept
<1>5. Coming'
  <2>1. Primary \notin strayed => Unstrayed(Primary)
    BY DevicesApart DEF DevicesInv
  <2> QED BY <1>1, <1>2, <2>1, ComingKept
<1>6. ASSUME NEW x \in Device \ strayed' PROVE Unstrayed(x)'
  <2>1. strayed \subseteq strayed'
    BY <1>2 DEF DevicesMove, D!vars, D!Tick, D!Announce, D!CallSaved, D!CallFails, D!Broadcast, D!createDeviceLinkOffer, D!LinkSaved,
                D!applyDeviceAnnouncement, D!handleDeviceLinked, D!Lose, D!Handshake, D!RemoveContact, D!ContactsSaved,
                D!SeenSaved, D!Restart
  <2>2. Unstrayed(x)
    BY <2>1 DEF DevicesInv
  <2> QED BY <1>1, <1>2, <2>2, UnstrayedKept
<1> QED BY <1>3, <1>4, <1>5, <1>6 DEF DevicesInv

LEMMA AccountsFollow ==
    ASSUME DevicesInv
    PROVE  D!AccountsSound
<1>1. DevicesTyped /\ ListsHold /\ Dated
  BY DEF DevicesInv
<1>2. D!TypeOK
  <2>1. ASSUME NEW x \in Device
        PROVE  /\ mem[x].devices \in [Device -> SUBSET Device]
               /\ mem[x].accountOf \in [Device -> Device \cup {None}]
               /\ \A a, b \in D!Accounts(mem[x]) :
                     mem[x].place[a] < mem[x].places /\ (mem[x].place[a] = mem[x].place[b] => a = b)
    <3>1. PICK v \in Views : v = mem[x] /\ Ordered(v)
      BY <1>1 DEF DevicesTyped, ListsHold
    <3>2. \A a \in D!Accounts(v) : v.place[a] < v.places
      BY <3>1 DEF Ordered, D!Accounts
    <3>3. \A a, b \in D!Accounts(v) : v.place[a] = v.place[b] => a = b
      BY <3>1 DEF Ordered, D!Accounts
    <3> QED BY <3>1, <3>2, <3>3 DEF Views
  <2>2. \A x \in Device, k \in Secondary : onDisk[x].seen[k] <= seenAt[x][k] /\ seenAt[x][k] <= now
    BY <1>1 DEF Dated
  <2>3. unsaved \cup unseen \subseteq Device /\ linking \subseteq Secondary /\ missed \in BOOLEAN
    BY <1>1 DEF DevicesTyped
  <2> QED BY <2>1, <2>2, <2>3 DEF D!TypeOK
<1>3. D!ReachesItself
  <2>1. ASSUME NEW x \in Device, NEW k \in Device PROVE k \in D!FanOut(mem[x], k)
    <3>1. PICK v \in Views : v = mem[x] /\ Resolves(v)
      BY <1>1 DEF DevicesTyped, ListsHold
    <3>2. k \in D!FanOut(v, k)
      BY <3>1, FansOut
    <3> QED BY <3>1, <3>2
  <2> QED BY <2>1 DEF D!ReachesItself
<1>4. D!UnmappedByRevocation
  <2>1. \A x \in Device \ strayed : Unmapped(x)
    BY DEF DevicesInv, Unstrayed
  <2>2. ASSUME NEW x \in Device \ strayed, NEW a \in Device, NEW k \in mem[x].devices[a], mem[x].accountOf[k] = None
        PROVE  a = k /\ Revoked(x, k)
    BY <2>1, <2>2 DEF Unmapped, D!Mapped
  <2> QED BY <2>2 DEF D!UnmappedByRevocation, Revoked
<1> QED BY <1>2, <1>3, <1>4 DEF D!AccountsSound

LEMMA AnnouncementsFollow ==
    ASSUME DevicesInv
    PROVE  D!LatestStands /\ D!ViewsAgree
<1>1. DevicesTyped /\ Dated /\ Coming
  BY DEF DevicesInv
<1>2. minted \subseteq Announcements /\ \A x \in Device : told[x] \subseteq Announcements
  BY <1>1 DEF DevicesTyped
<1>3. \A m \in Announcements : m.at \in Nat /\ m.device \in Secondary
  BY DEF Announcements
<1>4. D!LatestStands
  <2>1. ASSUME NEW x \in Device \ ({Primary} \cup strayed), NEW m \in told[x],
               \A n \in told[x] \ {m} : n.device = m.device => n.at < m.at
        PROVE  m.device \in D!getDevicesForAccount(mem[x], Primary) <=> m.kind = "device_added"
    <3>1. Follows(x) /\ m.device \in Secondary /\ m.at \in Nat
      BY <1>2, <1>3 DEF DevicesInv, Unstrayed
    <3>2. m \in About(told[x], m.device)
      BY DEF About
    <3>3. PICK n \in About(told[x], m.device) :
              n.at = seenAt[x][m.device] /\ (Member(x, m.device) <=> n.kind = "device_added")
      BY <3>1, <3>2 DEF Follows
    <3>4. m.at <= n.at
      BY <3>1, <3>2, <3>3 DEF Follows
    <3>5. n \in told[x] /\ n.device = m.device /\ n.at \in Nat
      BY <1>2, <1>3, <3>3 DEF About
    <3>6. n = m
      BY <2>1, <3>1, <3>4, <3>5
    <3> QED BY <3>3, <3>6 DEF Member, D!getDevicesForAccount
  <2> QED BY <2>1 DEF D!LatestStands
<1>5. D!ViewsAgree
  <2>1. ASSUME calls = {}, net = {}, ~missed, Primary \notin strayed,
               \A m, n \in minted : m.device = n.device /\ m.at = n.at => m = n,
               NEW c \in Contact \ strayed, NEW k \in Secondary
        PROVE  Member(c, k) <=> Member(Primary, k)
    <3>1. c \in Device /\ c # Primary
      BY DevicesApart
    <3>2. told[c] = minted
      BY <1>1, <2>1, <3>1 DEF Coming, Comes, Dated
    <3>3. Follows(c) /\ Leads
      BY <2>1, <3>1, DevicesApart DEF DevicesInv, Unstrayed
    <3>4. CASE About(minted, k) = {}
      BY <3>2, <3>3, <3>4 DEF Follows, Leads
    <3>5. CASE About(minted, k) # {}
      <4>1. PICK m \in About(minted, k) :
                /\ \A n \in About(minted, k) : n.at <= m.at
                /\ Member(Primary, k) <=> m.kind = "device_added"
        BY <3>3, <3>5 DEF Leads
      <4>2. PICK n \in About(minted, k) : n.at = seenAt[c][k] /\ (Member(c, k) <=> n.kind = "device_added")
        BY <3>2, <3>3, <3>5 DEF Follows
      <4>3. m.at <= n.at
        BY <3>2, <3>3, <4>1, <4>2 DEF Follows
      <4>4. n.at <= m.at
        BY <4>1, <4>2
      <4>5. m \in minted /\ n \in minted /\ m.device = n.device /\ m.at \in Nat /\ n.at \in Nat
        BY <1>2, <1>3, <4>1, <4>2 DEF About
      <4>6. m = n
        BY <2>1, <4>3, <4>4, <4>5
      <4> QED BY <4>1, <4>2, <4>6
    <3> QED BY <3>4, <3>5
  <2>2. ASSUME calls = {}, net = {}, ~missed, Primary \notin strayed,
               \A m, n \in minted : m.device = n.device /\ m.at = n.at => m = n,
               NEW c \in Contact \ strayed
        PROVE  D!getDevicesForAccount(mem[c], Primary) \cap Secondary
                  = D!getDevicesForAccount(mem[Primary], Primary) \cap Secondary
    <3>1. \A k \in Secondary : Member(c, k) <=> Member(Primary, k)
      BY <2>1, <2>2
    <3> QED BY <3>1 DEF Member, D!getDevicesForAccount
  <2> QED BY <2>2 DEF D!ViewsAgree
<1> QED BY <1>4, <1>5

THEOREM DevicesLast == D!Spec => []DevicesInv
<1>1. D!Init => DevicesInv
  BY DevicesStart
<1>2. DevicesInv /\ [D!Next]_(D!vars) => DevicesInv'
  BY DevicesKept
<1> QED BY <1>1, <1>2, PTL DEF D!Spec

\* PermissionManager, for any number of devices, contacts, accounts and calls, in any
\* order of announcements, links, handshakes, removals, crashes and losses: an account is
\* listed in one place, a device that resolves to an account is listed there, and one that
\* is listed resolves unless the primary revoked it.
THEOREM AccountsHold == D!Spec => []AccountsSound
<1>1. DevicesInv => AccountsSound
  BY AccountsFollow DEF AccountsSound
<1> QED BY <1>1, DevicesLast, PTL

\* applyDeviceAnnouncement: the announcement with the latest time decides on a device,
\* and at rest, if nothing was lost, every contact lists the devices the primary lists.
THEOREM AnnouncementsHold == D!Spec => []AnnouncementsAgree
<1>1. DevicesInv => AnnouncementsAgree
  BY AnnouncementsFollow DEF AnnouncementsAgree
<1> QED BY <1>1, DevicesLast, PTL

=============================================================================
