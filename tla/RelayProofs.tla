---------------------------- MODULE RelayProofs ----------------------------
(***************************************************************************)
(* Theorems of Relay, for every value of its constants: the registry never *)
(* names a closed socket, the store keeps its cap, no accepted packet      *)
(* disappears but through one of the ways out the code has, and those of   *)
(* one hash are written to a connection in the order they came.            *)
(***************************************************************************)
EXTENDS Relay, FiniteSetTheorems, SequenceTheorems, WellFoundedInduction, TLAPS

\* The inductive invariant.  RowsSound is what Accounted needs: without it the
\* callback of one send could delete the row of another packet.
IInv == TypeOK /\ RowsSound /\ RegistrySound /\ StoreBounded /\ Accounted

-----------------------------------------------------------------------------
(* Lemmas about the store *)

\* A nonempty set of rows has an oldest one.
LEMMA OldestExists ==
    ASSUME NEW rows \in SUBSET Blob, rows # {}
    PROVE  Oldest(rows) # {}
<1> DEFINE ids == {b.id : b \in rows}
<1>1. ids \subseteq Nat /\ ids # {}
  BY DEF Blob
<1> DEFINE less == {ss \in Nat \X Nat : ss[1] < ss[2]}
<1>2. IsWellFoundedOn(less, Nat)
  BY NatLessThanWellFounded, Zenon DEF OpToRel
<1>3. PICK n \in ids : \A m \in ids : ~(<<m, n>> \in less)
  <2> HIDE DEF less, ids
  <2> QED BY <1>1, <1>2, WFMin
<1>4. ASSUME NEW m \in ids
      PROVE  n <= m
  <2>1. m \in Nat /\ n \in Nat
    BY <1>1
  <2>2. m < n => <<m, n>> \in less
    BY <2>1
  <2> QED BY <1>3, <2>1, <2>2
<1> QED BY <1>4 DEF Oldest

\* Rows selected from a finite store are finite in number.
LEMMA RowsFinite ==
    ASSUME TypeOK, NEW rows \in SUBSET blobs
    PROVE  /\ rows \subseteq Blob
           /\ IsFiniteSet(rows)
           /\ Cardinality(rows) \in Nat
BY FS_Subset, FS_CardinalityType DEF TypeOK

\* Making room: after the eviction of storeBlob a hash has a row to spare, and
\* no other hash is touched.
LEMMA OverflowMakesRoom ==
    ASSUME TypeOK, StoreBounded, NEW h \in Hash
    PROVE  /\ Overflow(h) \subseteq BlobsFor({h})
           /\ Cardinality(BlobsFor({h}) \ Overflow(h)) \in Nat
           /\ Cardinality(BlobsFor({h}) \ Overflow(h)) < MAX_BLOBS_PER_HASH
<1> DEFINE rows == BlobsFor({h})
<1>1. rows \in SUBSET blobs /\ Overflow(h) \subseteq rows
  BY DEF BlobsFor, Overflow, Oldest
<1>2. /\ rows \subseteq Blob /\ IsFiniteSet(rows) /\ Cardinality(rows) \in Nat
      /\ IsFiniteSet(rows \ Overflow(h)) /\ Cardinality(rows \ Overflow(h)) \in Nat
  BY <1>1, RowsFinite
<1>3. Cardinality(rows) <= MAX_BLOBS_PER_HASH
  BY DEF StoreBounded
<1>4. CASE Cardinality(rows) >= MAX_BLOBS_PER_HASH
  <2>1. rows # {}
    BY <1>2, <1>4, FS_EmptySet, ConstantsAssumption DEF ConstantsAssumption
  <2>2. Overflow(h) # {}
    BY <1>2, <1>4, <2>1, OldestExists DEF Overflow
  <2>3. rows \ Overflow(h) # rows
    BY <1>1, <2>2
  <2>4. /\ Cardinality(rows \ Overflow(h)) <= Cardinality(rows)
        /\ Cardinality(rows) # Cardinality(rows \ Overflow(h))
    BY <1>2, <2>3, FS_Subset
  <2> QED BY <1>1, <1>2, <1>3, <2>4, ConstantsAssumption DEF ConstantsAssumption
<1>5. CASE ~(Cardinality(rows) >= MAX_BLOBS_PER_HASH)
  <2>1. rows \ Overflow(h) = rows
    BY <1>5 DEF Overflow
  <2> QED BY <1>1, <1>2, <1>5, <2>1, ConstantsAssumption DEF ConstantsAssumption
<1> QED BY <1>4, <1>5

\* Deleting rows keeps the store bounded.
LEMMA FewerRowsBounded ==
    ASSUME TypeOK, StoreBounded, blobs' \subseteq blobs
    PROVE  StoreBounded' /\ blobs' \in SUBSET Blob /\ IsFiniteSet(blobs')
<1>1. blobs' \in SUBSET Blob /\ IsFiniteSet(blobs')
  BY FS_Subset DEF TypeOK
<1>2. ASSUME NEW h \in Hash
      PROVE  Cardinality(BlobsFor({h})') <= MAX_BLOBS_PER_HASH
  <2>1. BlobsFor({h})' \subseteq BlobsFor({h})
    BY DEF BlobsFor
  <2>2. BlobsFor({h}) \in SUBSET blobs /\ BlobsFor({h})' \in SUBSET blobs
    BY DEF BlobsFor
  <2>3. /\ IsFiniteSet(BlobsFor({h}))
        /\ Cardinality(BlobsFor({h})) \in Nat /\ Cardinality(BlobsFor({h})') \in Nat
    BY <2>2, RowsFinite
  <2>4. Cardinality(BlobsFor({h})') <= Cardinality(BlobsFor({h}))
    BY <2>1, <2>3, FS_Subset
  <2> QED BY <2>3, <2>4, ConstantsAssumption DEF StoreBounded, ConstantsAssumption
<1> QED BY <1>1, <1>2 DEF StoreBounded

-----------------------------------------------------------------------------
(* What the three kinds of step do to the store *)

Unaccounted == Packet \ (evicted \cup expired \cup drained \cup dropped \cup acked)

\* Steps that only delete rows, each deleted packet being accounted for.
LEMMA DeleteStep ==
    ASSUME IInv, blobs' \subseteq blobs, rowid' = rowid, log' = log,
           sending' \subseteq sending,
           Unaccounted' \subseteq Unaccounted,
           \A b \in blobs \ blobs' : b.pkt \notin Unaccounted'
    PROVE  /\ blobs' \in SUBSET Blob /\ IsFiniteSet(blobs')
           /\ RowsSound' /\ StoreBounded' /\ Accounted'
<1>1. blobs' \in SUBSET Blob /\ IsFiniteSet(blobs') /\ StoreBounded'
  BY FewerRowsBounded DEF IInv
<1>2. RowsSound'
  BY DEF IInv, RowsSound
<1>3. Accounted'
  BY DEF IInv, Accounted, Packet, Unaccounted
<1> QED BY <1>1, <1>2, <1>3

\* Steps that store a packet, with or without a send of the same row.
LEMMA StoreStep ==
    ASSUME IInv, NEW h \in Hash, NEW from \in Conn \cup {NoConn}, NEW via \in Via,
           storeBlob(h, from, via),
           UNCHANGED <<expired, drained, dropped, acked>>,
           \/ sending' = sending
           \/ \E r \in Conn : sending' = sending \cup
                {[conn |-> r, id |-> NextRowId, pkt |-> Len(log) + 1]}
    PROVE  /\ blobs' \in SUBSET Blob /\ IsFiniteSet(blobs') /\ rowid' \in Nat
           /\ log' \in Seq([dest : Hash, from : Conn \cup {NoConn}, via : Via])
           /\ evicted' \in SUBSET (Nat \ {0})
           /\ sending' \in SUBSET [conn : Conn, id : Nat \ {0}, pkt : Nat \ {0}]
           /\ RowsSound' /\ StoreBounded' /\ Accounted'
<1> DEFINE old == Overflow(h)
           row == [id |-> NextRowId, pkt |-> Len(log) + 1, dest |-> h, at |-> now]
<1>1. /\ blobs \in SUBSET Blob /\ IsFiniteSet(blobs) /\ rowid \in Nat /\ now \in Nat
      /\ log \in Seq([dest : Hash, from : Conn \cup {NoConn}, via : Via])
      /\ Len(log) \in Nat
      /\ sending \in SUBSET [conn : Conn, id : Nat \ {0}, pkt : Nat \ {0}]
  BY LenProperties DEF IInv, TypeOK
<1>2. row \in Blob /\ row.id = rowid + 1 /\ row.pkt = Len(log) + 1 /\ row.dest = h
  BY <1>1 DEF Blob, NextRowId
<1>3. /\ old \subseteq BlobsFor({h}) /\ old \subseteq blobs
      /\ Cardinality(BlobsFor({h}) \ old) \in Nat
      /\ Cardinality(BlobsFor({h}) \ old) < MAX_BLOBS_PER_HASH
  BY OverflowMakesRoom DEF IInv, BlobsFor
<1>4. /\ blobs' = (blobs \ old) \cup {row} /\ rowid' = rowid + 1
      /\ evicted' = evicted \cup {b.pkt : b \in old}
      /\ log' = Append(log, [dest |-> h, from |-> from, via |-> via])
  BY DEF storeBlob, NextRowId
<1>5. blobs' \in SUBSET Blob /\ IsFiniteSet(blobs') /\ rowid' \in Nat
  <2>1. IsFiniteSet(blobs \ old)
    BY <1>1, FS_Subset
  <2>2. IsFiniteSet((blobs \ old) \cup {row})
    <3> HIDE DEF old, row
    <3> QED BY <2>1, FS_AddElement
  <2> QED BY <1>1, <1>2, <1>4, <2>2
<1>6. /\ log' \in Seq([dest : Hash, from : Conn \cup {NoConn}, via : Via])
      /\ Len(log') = Len(log) + 1
  BY <1>1, <1>4, AppendProperties
<1>7. evicted' \in SUBSET (Nat \ {0})
  BY <1>1, <1>3, <1>4 DEF IInv, TypeOK, Blob
<1>8. sending' \in SUBSET [conn : Conn, id : Nat \ {0}, pkt : Nat \ {0}]
  BY <1>1 DEF NextRowId
<1>9. RowsSound'
  <2>1. ASSUME NEW b \in blobs'
        PROVE  b.id <= rowid' /\ b.pkt <= Len(log')
    BY <1>1, <1>2, <1>4, <1>6 DEF IInv, RowsSound, Blob
  <2>2. ASSUME NEW s \in sending'
        PROVE  \/ s \in sending /\ s.id <= rowid
               \/ s.id = rowid + 1 /\ s.pkt = Len(log) + 1
    BY <1>1 DEF IInv, RowsSound, NextRowId
  <2>3. ASSUME NEW b \in blobs', NEW s \in sending', b.id = s.id
        PROVE  b.pkt = s.pkt
    <3>1. b = row \/ (b \in blobs /\ b.id <= rowid)
      BY <1>4 DEF IInv, RowsSound
    <3> QED BY <1>1, <1>2, <2>2, <2>3, <3>1 DEF IInv, RowsSound, Blob
  <2> QED BY <1>1, <1>4, <1>8, <2>1, <2>2, <2>3 DEF RowsSound
<1>10. StoreBounded'
  <2> SUFFICES ASSUME NEW g \in Hash
               PROVE  Cardinality(BlobsFor({g})') <= MAX_BLOBS_PER_HASH
    BY DEF StoreBounded
  <2>1. CASE g = h
    <3>1. BlobsFor({g})' = (BlobsFor({h}) \ old) \cup {row}
      BY <1>2, <1>4, <2>1 DEF BlobsFor
    <3>2. IsFiniteSet(BlobsFor({h}) \ old)
      BY <1>1, FS_Subset DEF BlobsFor
    <3>3. Cardinality((BlobsFor({h}) \ old) \cup {row})
            \in {Cardinality(BlobsFor({h}) \ old), Cardinality(BlobsFor({h}) \ old) + 1}
      <4> HIDE DEF old, row
      <4> QED BY <3>2, FS_AddElement
    <3>4. MAX_BLOBS_PER_HASH \in Nat
      BY ConstantsAssumption DEF ConstantsAssumption
    <3> HIDE DEF old, row
    <3>5. Cardinality((BlobsFor({h}) \ old) \cup {row}) <= MAX_BLOBS_PER_HASH
      BY <1>3, <3>3, <3>4
    <3> QED BY <3>1, <3>5
  <2>2. CASE g # h
    <3>1. BlobsFor({g})' = BlobsFor({g})
      BY <1>2, <1>3, <1>4, <2>2 DEF BlobsFor
    <3> QED BY <3>1 DEF IInv, StoreBounded
  <2> QED BY <2>1, <2>2
<1>11. Accounted'
  <2> SUFFICES ASSUME NEW p \in 1..Len(log'), p \notin (evicted \cup expired \cup
                        drained \cup dropped \cup acked)'
               PROVE  \E b \in blobs' : b.pkt = p
    BY DEF Accounted, Packet
  <2>1. CASE p = Len(log) + 1
    BY <1>2, <1>4, <2>1
  <2>2. CASE p \in 1..Len(log)
    <3>1. PICK b \in blobs : b.pkt = p
      BY <1>4, <2>2 DEF IInv, Accounted, Packet
    <3> QED BY <1>4, <3>1
  <2> QED BY <1>1, <1>6, <2>1, <2>2
<1> QED BY <1>5, <1>6, <1>7, <1>8, <1>9, <1>10, <1>11

\* hello and pull: the rows of the hashes leave the store, written or dropped.
LEMMA DrainStep ==
    ASSUME IInv, NEW c \in Conn, NEW hs \in SUBSET Hash, deliverQueuedBlobs(c, hs),
           UNCHANGED <<rowid, log, sending, evicted, expired, acked>>
    PROVE  /\ blobs' \in SUBSET Blob /\ IsFiniteSet(blobs')
           /\ wire' \in [Conn -> Seq(Nat \ {0})]
           /\ void' \in SUBSET (Nat \ {0})
           /\ drained' \in SUBSET (Nat \ {0}) /\ dropped' \in SUBSET (Nat \ {0})
           /\ RowsSound' /\ StoreBounded' /\ Accounted'
<1> DEFINE rows == BlobsFor(hs)
           pkts == {b.pkt : b \in rows}
<1>1. /\ rows \in SUBSET blobs /\ rows \subseteq Blob
      /\ Cardinality(rows) \in Nat
  BY RowsFinite DEF BlobsFor, IInv
<1>2. pkts \subseteq Nat \ {0}
  BY <1>1 DEF Blob
<1>3. /\ blobs' = blobs \ rows
      /\ pkts \subseteq drained' \cup dropped'
      /\ drained \subseteq drained' /\ dropped \subseteq dropped'
  BY DEF deliverQueuedBlobs
<1>4. /\ blobs' \in SUBSET Blob /\ IsFiniteSet(blobs')
      /\ RowsSound' /\ StoreBounded' /\ Accounted'
  <2>1. /\ blobs' \subseteq blobs
        /\ \A b \in blobs \ blobs' : b.pkt \in pkts
    BY <1>3
  <2>2. Unaccounted' \subseteq Unaccounted
    BY <1>3 DEF Unaccounted, Packet
  <2>3. \A b \in blobs \ blobs' : b.pkt \notin Unaccounted'
    BY <1>3, <2>1 DEF Unaccounted
  <2> QED BY <2>1, <2>2, <2>3, DeleteStep
<1>5. /\ void' \in SUBSET (Nat \ {0})
      /\ drained' \in SUBSET (Nat \ {0}) /\ dropped' \in SUBSET (Nat \ {0})
  BY <1>2 DEF deliverQueuedBlobs, IInv, TypeOK
<1>6. wire' \in [Conn -> Seq(Nat \ {0})]
  <2>1. CASE IsOpen(c)
    <3>1. PICK s \in DrainOrders(rows) :
            wire' = [wire EXCEPT ![c] = @ \o [i \in DOMAIN s |-> s[i].pkt]]
      BY <2>1 DEF deliverQueuedBlobs
    <3>2. s \in [1..Cardinality(rows) -> rows]
      BY <3>1 DEF DrainOrders
    <3>3. [i \in DOMAIN s |-> s[i].pkt] \in [1..Cardinality(rows) -> Nat \ {0}]
      BY <1>1, <3>2 DEF Blob
    <3>4. [i \in DOMAIN s |-> s[i].pkt] \in Seq(Nat \ {0})
      BY <1>1, <3>3, SeqDef
    <3>5. wire[c] \in Seq(Nat \ {0})
      BY DEF IInv, TypeOK
    <3>6. wire[c] \o [i \in DOMAIN s |-> s[i].pkt] \in Seq(Nat \ {0})
      BY <3>4, <3>5, ConcatProperties
    <3> HIDE DEF rows
    <3> QED BY <3>1, <3>6 DEF IInv, TypeOK
  <2>2. CASE ~IsOpen(c)
    BY <2>2 DEF deliverQueuedBlobs, IInv, TypeOK
  <2> QED BY <2>1, <2>2
<1> QED BY <1>4, <1>5, <1>6

-----------------------------------------------------------------------------
(* The invariant *)

LEMMA InitIInv == Init => IInv
<1> SUFFICES ASSUME Init PROVE IInv
  OBVIOUS
<1>1. TypeOK
  BY FS_EmptySet, ConstantsAssumption DEF Init, TypeOK
<1>2. RowsSound /\ RegistrySound /\ Accounted
  BY DEF Init, RowsSound, RegistrySound, Accounted, Packet
<1>3. StoreBounded
  <2>1. \A h \in Hash : BlobsFor({h}) = {}
    BY DEF Init, BlobsFor
  <2>2. MAX_BLOBS_PER_HASH \in Nat
    BY ConstantsAssumption DEF ConstantsAssumption
  <2> QED BY <2>1, <2>2, FS_EmptySet DEF StoreBounded
<1> QED BY <1>1, <1>2, <1>3 DEF IInv

\* Steps that leave the store, its counters and the history alone.
LEMMA StoreUnchanged ==
    ASSUME IInv, UNCHANGED <<blobs, rowid, log, sending, evicted, expired,
                             drained, dropped, acked>>
    PROVE  RowsSound' /\ StoreBounded' /\ Accounted'
BY DEF IInv, RowsSound, StoreBounded, BlobsFor, Accounted, Packet

LEMMA HelloStep ==
    ASSUME IInv, NEW c \in Conn, NEW hs \in SUBSET Hash, Hello(c, hs)
    PROVE  IInv'
<1>1. /\ blobs' \in SUBSET Blob /\ IsFiniteSet(blobs')
      /\ wire' \in [Conn -> Seq(Nat \ {0})]
      /\ void' \in SUBSET (Nat \ {0})
      /\ drained' \in SUBSET (Nat \ {0}) /\ dropped' \in SUBSET (Nat \ {0})
      /\ RowsSound' /\ StoreBounded' /\ Accounted'
  BY DrainStep DEF Hello
<1>2. TypeOK'
  BY <1>1 DEF Hello, registerClient, IInv, TypeOK
<1>3. RegistrySound'
  BY DEF Hello, registerClient, Readable, IInv, TypeOK, RegistrySound
<1> QED BY <1>1, <1>2, <1>3 DEF IInv

LEMMA PullStep ==
    ASSUME IInv, NEW c \in Conn, Pull(c)
    PROVE  IInv'
<1>1. hashesPerClient[c] \in SUBSET Hash
  BY DEF IInv, TypeOK
<1>2. /\ blobs' \in SUBSET Blob /\ IsFiniteSet(blobs')
      /\ wire' \in [Conn -> Seq(Nat \ {0})]
      /\ void' \in SUBSET (Nat \ {0})
      /\ drained' \in SUBSET (Nat \ {0}) /\ dropped' \in SUBSET (Nat \ {0})
      /\ RowsSound' /\ StoreBounded' /\ Accounted'
  BY <1>1, DrainStep DEF Pull
<1>3. TypeOK' /\ RegistrySound'
  BY <1>2 DEF Pull, memory, IInv, TypeOK, RegistrySound, Readable
<1> QED BY <1>2, <1>3 DEF IInv

LEMMA RouteStep ==
    ASSUME IInv, NEW c \in Conn, NEW h \in Hash, NEW r \in HomeRelay, Route(c, h, r)
    PROVE  IInv'
<1> DEFINE hint == [dest |-> h, relay |-> r]
           hints == routeHints[c]
<1>1. hint \in Hint /\ hints \in Seq(Hint)
  BY DEF Hint, IInv, TypeOK
<1>2. AddHint(hints, hint) \in Seq(Hint)
  <2> HIDE DEF hint, hints
  <2>1. Len(hints) \in Nat /\ hints \in [1..Len(hints) -> Hint] /\ DOMAIN hints = 1..Len(hints)
    BY <1>1, LenProperties
  <2>2. [i \in DOMAIN hints |-> IF hints[i].dest = hint.dest THEN hint ELSE hints[i]]
           \in Seq(Hint)
    <3>1. [i \in DOMAIN hints |-> IF hints[i].dest = hint.dest THEN hint ELSE hints[i]]
             \in [1..Len(hints) -> Hint]
      BY <1>1, <2>1
    <3> QED BY <2>1, <3>1, SeqDef
  <2>3. (IF Len(hints) >= MAX_ROUTE_HINTS THEN Tail(hints) ELSE hints) \in Seq(Hint)
    <3>1. Len(hints) >= MAX_ROUTE_HINTS => hints # <<>>
      BY <2>1, ConstantsAssumption, EmptySeq DEF ConstantsAssumption
    <3> QED BY <1>1, <3>1, HeadTailProperties
  <2> QED BY <1>1, <2>2, <2>3, AppendProperties DEF AddHint
<1>3. TypeOK' /\ RegistrySound'
  BY <1>2 DEF Route, network, history, IInv, TypeOK, RegistrySound, Readable
<1>4. RowsSound' /\ StoreBounded' /\ Accounted'
  BY StoreUnchanged DEF Route, network, history
<1> QED BY <1>3, <1>4 DEF IInv

\* A packet from a client and a packet from a federated peer differ in the
\* sender and in what happens to a packet that is not sent at once.
LEMMA PacketStep ==
    ASSUME IInv, NEW h \in Hash, NEW from \in Conn \cup {NoConn}, NEW via \in Via,
           storeBlob(h, from, via),
           \/ Recipient(h, from) # NoConn /\ liveSend(Recipient(h, from))
           \/ UNCHANGED network,
           UNCHANGED <<sock, memory, push, expired, drained, dropped, acked, now, restarts>>
    PROVE  IInv'
<1> DEFINE r == Recipient(h, from)
<1>1. r \in Conn \cup {NoConn}
  BY DEF Recipient, IInv, TypeOK
<1>2. /\ blobs' \in SUBSET Blob /\ IsFiniteSet(blobs') /\ rowid' \in Nat
      /\ log' \in Seq([dest : Hash, from : Conn \cup {NoConn}, via : Via])
      /\ evicted' \in SUBSET (Nat \ {0})
      /\ sending' \in SUBSET [conn : Conn, id : Nat \ {0}, pkt : Nat \ {0}]
      /\ RowsSound' /\ StoreBounded' /\ Accounted'
  <2> HIDE DEF r
  <2>1. \/ sending' = sending
        \/ \E q \in Conn : sending' = sending \cup
             {[conn |-> q, id |-> NextRowId, pkt |-> Len(log) + 1]}
    BY <1>1 DEF r, liveSend, network
  <2> QED BY <2>1, StoreStep
<1>3. wire' \in [Conn -> Seq(Nat \ {0})] /\ void' \in SUBSET (Nat \ {0})
  <2>1. CASE UNCHANGED network
    BY <2>1 DEF network, IInv, TypeOK
  <2>2. CASE r # NoConn /\ liveSend(r)
    <3>1. r \in Conn /\ Len(log) + 1 \in Nat \ {0} /\ wire[r] \in Seq(Nat \ {0})
      BY <1>1, <2>2, LenProperties DEF IInv, TypeOK
    <3>2. Append(wire[r], Len(log) + 1) \in Seq(Nat \ {0})
      BY <3>1, AppendProperties
    <3> HIDE DEF r
    <3> QED BY <2>2, <3>1, <3>2 DEF liveSend, IInv, TypeOK
  <2> QED BY <2>1, <2>2
<1>4. TypeOK' /\ RegistrySound'
  BY <1>2, <1>3 DEF memory, IInv, TypeOK, RegistrySound, Readable
<1> QED BY <1>2, <1>4 DEF IInv

LEMMA HandleRelayPacketStep ==
    ASSUME IInv, NEW c \in Conn, NEW h \in Hash, handleRelayPacket(c, h)
    PROVE  IInv'
<1>1. OfflineVia(c, h) \subseteq Via /\ "live" \in Via
  BY DEF OfflineVia, HintedRelays, Via
<1>2. PICK via \in Via :
        /\ storeBlob(h, c, via)
        /\ \/ Recipient(h, c) # NoConn /\ liveSend(Recipient(h, c))
           \/ UNCHANGED network
  BY <1>1 DEF handleRelayPacket, network
<1> QED BY <1>2, PacketStep DEF handleRelayPacket

LEMMA ClassifyLocalStep ==
    ASSUME IInv, NEW h \in Hash, classifyLocal(h)
    PROVE  IInv'
<1>1. {"live", "wake"} \subseteq Via
  BY DEF Via
<1>2. PICK via \in Via :
        /\ storeBlob(h, NoConn, via)
        /\ \/ Recipient(h, NoConn) # NoConn /\ liveSend(Recipient(h, NoConn))
           \/ UNCHANGED network
  BY <1>1 DEF classifyLocal, network
<1> QED BY <1>2, PacketStep DEF classifyLocal

LEMMA SendCallbackStep ==
    ASSUME IInv, NEW c \in Conn, NEW s \in sending, SendCallback(c, s)
    PROVE  IInv'
<1>1. \A b \in blobs \ blobs' : b.pkt = s.pkt
  BY DEF SendCallback, IInv, RowsSound
<1>2. Unaccounted' \subseteq Unaccounted /\ s.pkt \notin Unaccounted'
  BY DEF SendCallback, Unaccounted, Packet
<1>3. /\ blobs' \in SUBSET Blob /\ IsFiniteSet(blobs')
      /\ RowsSound' /\ StoreBounded' /\ Accounted'
  BY <1>1, <1>2, DeleteStep DEF SendCallback
<1>4. s.pkt \in Nat \ {0}
  BY DEF IInv, TypeOK
<1>5. TypeOK' /\ RegistrySound'
  BY <1>3, <1>4 DEF SendCallback, memory, IInv, TypeOK, RegistrySound, Readable
<1> QED BY <1>3, <1>5 DEF IInv

LEMMA PruneStep ==
    ASSUME IInv, pruneExpiredBlobs
    PROVE  IInv'
<1>1. \A b \in blobs \ blobs' : b.pkt \in expired'
  BY DEF pruneExpiredBlobs
<1>2. Unaccounted' \subseteq Unaccounted /\ Unaccounted' \cap expired' = {}
  BY DEF pruneExpiredBlobs, Unaccounted, Packet
<1>3. /\ blobs' \in SUBSET Blob /\ IsFiniteSet(blobs')
      /\ RowsSound' /\ StoreBounded' /\ Accounted'
  BY <1>1, <1>2, DeleteStep DEF pruneExpiredBlobs, network
<1>4. expired' \in SUBSET (Nat \ {0})
  BY DEF pruneExpiredBlobs, IInv, TypeOK, Blob
<1>5. TypeOK' /\ RegistrySound'
  BY <1>3, <1>4 DEF pruneExpiredBlobs, memory, network, IInv, TypeOK, RegistrySound, Readable
<1> QED BY <1>3, <1>5 DEF IInv

\* Losing the maps, with the rows that a crash inside storeBlob had deleted.
LEMMA LoseMemoryStep ==
    ASSUME IInv, LoseMemory, NEW old \in SUBSET blobs,
           blobs' = blobs \ old, evicted' = evicted \cup {b.pkt : b \in old}
    PROVE  IInv'
<1>1. \A b \in blobs \ blobs' : b.pkt \in evicted'
  OBVIOUS
<1>2. Unaccounted' \subseteq Unaccounted /\ Unaccounted' \cap evicted' = {}
  BY DEF LoseMemory, Unaccounted, Packet
<1>3. /\ blobs' \in SUBSET Blob /\ IsFiniteSet(blobs')
      /\ RowsSound' /\ StoreBounded' /\ Accounted'
  BY <1>1, <1>2, DeleteStep DEF LoseMemory
<1>4. evicted' \in SUBSET (Nat \ {0})
  BY DEF IInv, TypeOK, Blob
<1>5. TypeOK'
  BY <1>3, <1>4, EmptySeq DEF LoseMemory, IInv, TypeOK
<1>6. RegistrySound'
  BY DEF LoseMemory, RegistrySound
<1> QED BY <1>3, <1>5, <1>6 DEF IInv

\* Steps of the network, of the clock and of callbacks that report errors.
LEMMA OutsideStep ==
    ASSUME IInv,
           \/ Tick
           \/ \E c \in Conn : SendError(c) \/ Network(c)
    PROVE  IInv'
<1>1. CASE Tick
  <2>1. RowsSound' /\ StoreBounded' /\ Accounted'
    BY <1>1, StoreUnchanged DEF Tick, network, history
  <2>2. TypeOK' /\ RegistrySound'
    BY <1>1 DEF Tick, memory, network, history, IInv, TypeOK, RegistrySound, Readable
  <2> QED BY <2>1, <2>2 DEF IInv
<1>2. ASSUME NEW c \in Conn, SendError(c)
      PROVE  IInv'
  <2>1. /\ Unaccounted' \subseteq Unaccounted /\ blobs' = blobs
        /\ sending' \subseteq sending /\ rowid' = rowid /\ log' = log
    BY <1>2 DEF SendError, history, Unaccounted, Packet
  <2>2. /\ blobs' \in SUBSET Blob /\ IsFiniteSet(blobs')
        /\ RowsSound' /\ StoreBounded' /\ Accounted'
    BY <2>1, DeleteStep
  <2>3. TypeOK' /\ RegistrySound'
    BY <1>2, <2>2 DEF SendError, memory, history, IInv, TypeOK, RegistrySound, Readable
  <2> QED BY <2>2, <2>3 DEF IInv
<1>3. ASSUME NEW c \in Conn, Connect(c) \/ PeerGone(c) \/ SocketDown(c)
      PROVE  IInv'
  <2>1. RowsSound' /\ StoreBounded' /\ Accounted'
    BY <1>3, StoreUnchanged DEF Connect, PeerGone, SocketDown, network, history
  <2>2. TypeOK'
    BY <1>3 DEF Connect, PeerGone, SocketDown, memory, network, history, IInv, TypeOK
  <2>3. \A d \in Conn : Readable(d) => Readable(d)'
    BY <1>3 DEF Connect, PeerGone, SocketDown, Readable, IInv, TypeOK
  <2>4. RegistrySound'
    BY <1>3, <2>3 DEF Connect, PeerGone, SocketDown, memory, IInv, TypeOK, RegistrySound
  <2> QED BY <2>1, <2>2, <2>4 DEF IInv
<1>4. ASSUME NEW c \in Conn, SocketClosed(c)
      PROVE  IInv'
  <2>1. RowsSound' /\ StoreBounded' /\ Accounted'
    BY <1>4, StoreUnchanged DEF SocketClosed, network, history
  <2>2. TypeOK'
    BY <1>4, EmptySeq DEF SocketClosed, deregisterClient, network, history, IInv, TypeOK
  <2>3. RegistrySound'
    BY <1>4 DEF SocketClosed, deregisterClient, IInv, TypeOK, RegistrySound, Readable
  <2> QED BY <2>1, <2>2, <2>3 DEF IInv
<1> QED BY <1>1, <1>2, <1>3, <1>4 DEF Network

LEMMA StepIInv == IInv /\ [Next]_vars => IInv'
<1> SUFFICES ASSUME IInv, [Next]_vars PROVE IInv'
  OBVIOUS
<1>1. ASSUME NEW c \in Conn, Message(c)
      PROVE  IInv'
  <2>1. ASSUME NEW hs \in SUBSET Hash \ {{}}, Hello(c, hs)
        PROVE  IInv'
    BY <2>1, HelloStep
  <2> QED BY <1>1, <2>1, PullStep, RouteStep, HandleRelayPacketStep DEF Message
<1>2. ASSUME NEW c \in Conn, Callback(c)
      PROVE  IInv'
  BY <1>2, SendCallbackStep, OutsideStep DEF Callback
<1>3. ASSUME NEW c \in Conn, Network(c)
      PROVE  IInv'
  BY <1>3, OutsideStep
<1>4. ASSUME NEW h \in Hash, classifyLocal(h) \/ CrashInStoreBlob(h)
      PROVE  IInv'
  <2>1. CASE classifyLocal(h)
    BY <2>1, ClassifyLocalStep
  <2>2. CASE CrashInStoreBlob(h)
    <3>1. Overflow(h) \in SUBSET blobs
      BY DEF Overflow, Oldest, BlobsFor
    <3> QED BY <2>2, <3>1, LoseMemoryStep DEF CrashInStoreBlob
  <2> QED BY <1>4, <2>1, <2>2
<1>5. CASE pruneExpiredBlobs
  BY <1>5, PruneStep
<1>6. CASE Tick
  BY <1>6, OutsideStep
<1>7. CASE Restart
  <2>1. blobs' = blobs \ {} /\ evicted' = evicted \cup {b.pkt : b \in {}}
    BY <1>7 DEF Restart
  <2> QED BY <1>7, <2>1, LoseMemoryStep DEF Restart
<1>8. CASE UNCHANGED vars
  BY <1>8, StoreUnchanged DEF vars, memory, network, history, IInv, TypeOK, RegistrySound, Readable
<1> QED BY <1>1, <1>2, <1>3, <1>4, <1>5, <1>6, <1>7, <1>8 DEF Next

-----------------------------------------------------------------------------
(* Order: what the order of each connection and the age of each queue rest on *)

\* A packet and its row have the same number, and everything that is stored,
\* sent, written or gone was accepted before.
Numbered ==
    /\ rowid = Len(log)
    /\ \A b \in blobs : b.id = b.pkt /\ b.pkt \in Packet /\ b.dest = log[b.pkt].dest
    /\ \A s \in sending : s.id = s.pkt /\ s.pkt \in Packet
    /\ evicted \subseteq Packet /\ acked \subseteq Packet
    /\ \A c \in Conn : \A i \in DOMAIN wire[c] : wire[c][i] \in Packet

\* q was written to c before its i-th packet.
WrittenBefore(c, q, i) == \E k \in 1..(i - 1) : wire[c][k] = q

\* A packet still stored has not been overtaken on c, or it was written to c
\* before it was overtaken.
NotOvertaken ==
    \A c \in Conn : \A i \in DOMAIN wire[c] : \A b \in blobs :
        b.pkt < wire[c][i] /\ b.dest = log[wire[c][i]].dest /\ log[b.pkt].from # c
            => WrittenBefore(c, b.pkt, i)

\* Where packets for a hash are sent live, everything stored for it has been
\* written: hello empties the queue, and a live send goes beside the store.
LiveCaughtUp ==
    \A h \in Hash : \A b \in blobs :
        /\ clientsByHash[h] # NoConn /\ IsOpen(clientsByHash[h])
        /\ b.dest = h /\ log[b.pkt].from # clientsByHash[h]
        => \E k \in DOMAIN wire[clientsByHash[h]] : wire[clientsByHash[h]][k] = b.pkt

\* The row of a packet whose send completed is gone.
AckedGone == \A b \in blobs : b.pkt \notin acked

\* What a step writes goes behind what was written: the packet it accepts, or
\* packets that are stored.
OnlyAppends ==
    \A c \in Conn :
        /\ \A i \in DOMAIN wire[c] : i \in DOMAIN wire'[c] /\ wire'[c][i] = wire[c][i]
        /\ \A i \in DOMAIN wire'[c] \ DOMAIN wire[c] :
              wire'[c][i] = Len(log) + 1 \/ \E b \in blobs : wire'[c][i] = b.pkt

OrderInv == Numbered /\ NotOvertaken /\ LiveCaughtUp /\ AckedGone /\ InOrder /\ EvictsOldest

\* What the types say of the log and of the wires.
LEMMA OrderTypes ==
    ASSUME IInv
    PROVE  /\ Len(log) \in Nat /\ now \in Nat
           /\ \A p \in Packet : log[p].dest \in Hash /\ log[p].from \in Conn \cup {NoConn}
           /\ \A c \in Conn : /\ Len(wire[c]) \in Nat /\ DOMAIN wire[c] = 1..Len(wire[c])
                              /\ wire[c] \in Seq(Nat \ {0})
           /\ \A b \in blobs : b.id \in Nat /\ b.pkt \in Nat
           /\ clientsByHash \in [Hash -> Conn \cup {NoConn}]
<1>1. Len(log) \in Nat /\ log \in [1..Len(log) -> [dest : Hash, from : Conn \cup {NoConn}, via : Via]]
  BY LenProperties DEF IInv, TypeOK
<1>2. ASSUME NEW c \in Conn
      PROVE  /\ Len(wire[c]) \in Nat /\ DOMAIN wire[c] = 1..Len(wire[c])
             /\ wire[c] \in Seq(Nat \ {0})
  <2>1. wire[c] \in Seq(Nat \ {0})
    BY DEF IInv, TypeOK
  <2> QED BY <2>1, LenProperties
<1> QED BY <1>1, <1>2 DEF IInv, TypeOK, Packet, Blob

\* Steps that write nothing and store nothing.  Where a hash is live after them
\* it was before.
LEMMA QuietOrder ==
    ASSUME IInv, OrderInv, UNCHANGED <<wire, log, rowid>>,
           blobs' \subseteq blobs, sending' \subseteq sending,
           evicted' \subseteq Packet, acked' \subseteq Packet,
           \A b \in blobs' : b.pkt \notin acked',
           \A p \in evicted' \ evicted, b \in blobs' : b.dest = log[p].dest => b.pkt > p,
           \A h \in Hash : (clientsByHash[h] # NoConn /\ IsOpen(clientsByHash[h]))' =>
               \/ clientsByHash'[h] = clientsByHash[h] /\ IsOpen(clientsByHash[h])
               \/ \A b \in blobs' : b.dest # h
    PROVE  OrderInv'
<1>1. Packet' = Packet
  BY DEF Packet
<1>2. Numbered'
  BY <1>1 DEF OrderInv, Numbered
<1>3. NotOvertaken'
  BY DEF OrderInv, NotOvertaken, WrittenBefore
<1>4. LiveCaughtUp'
  BY DEF OrderInv, LiveCaughtUp
<1>5. AckedGone'
  BY DEF AckedGone
<1>6. InOrder'
  BY DEF OrderInv, InOrder
<1>7. EvictsOldest'
  BY DEF OrderInv, EvictsOldest
<1> QED BY <1>2, <1>3, <1>4, <1>5, <1>6, <1>7 DEF OrderInv

\* hello and pull on an open socket: each queue goes out by age, behind what was
\* written before.
LEMMA DrainOrder ==
    ASSUME IInv, OrderInv, NEW c \in Conn, NEW hs \in SUBSET Hash, IsOpen(c),
           deliverQueuedBlobs(c, hs), UNCHANGED <<log, rowid, sending, evicted, acked>>
    PROVE  /\ Numbered' /\ NotOvertaken' /\ AckedGone' /\ InOrder' /\ EvictsOldest'
           /\ OnlyAppends
<1> DEFINE rows == BlobsFor(hs)
           n == Cardinality(rows)
           L == Len(wire[c])
<1>1. /\ rows \in SUBSET blobs /\ rows \subseteq Blob /\ n \in Nat
      /\ L \in Nat /\ DOMAIN wire[c] = 1..L /\ wire[c] \in Seq(Nat \ {0})
  BY RowsFinite, OrderTypes DEF BlobsFor, IInv
<1>2. blobs' = blobs \ rows
  BY DEF deliverQueuedBlobs
<1>3. PICK s \in DrainOrders(rows) :
          wire' = [wire EXCEPT ![c] = @ \o [i \in DOMAIN s |-> s[i].pkt]]
  BY DEF deliverQueuedBlobs
<1>4. /\ s \in [1..n -> rows] /\ DOMAIN s = 1..n
      /\ \A i, j \in 1..n : i < j /\ s[i].dest = s[j].dest => s[i].id < s[j].id
  BY <1>3 DEF DrainOrders
<1> DEFINE t == [i \in 1..n |-> s[i].pkt]
<1>5. t \in Seq(Nat \ {0}) /\ Len(t) = n
  <2>1. t \in [1..n -> Nat \ {0}]
    BY <1>1, <1>4 DEF Blob
  <2>2. t \in Seq(Nat \ {0})
    BY <1>1, <2>1, SeqDef
  <2>3. DOMAIN t = 1..Len(t) /\ Len(t) \in Nat
    BY <2>2, LenProperties
  <2>4. DOMAIN t = 1..n
    OBVIOUS
  <2> HIDE DEF t, n
  <2> QED BY <1>1, <2>2, <2>3, <2>4
<1>6. wire'[c] = wire[c] \o t /\ \A d \in Conn \ {c} : wire'[d] = wire[d]
  BY <1>3, <1>4 DEF IInv, TypeOK
<1>7. /\ wire'[c] \in Seq(Nat \ {0}) /\ DOMAIN wire'[c] = 1..(L + n)
      /\ \A i \in 1..L : wire'[c][i] = wire[c][i]
      /\ \A i \in (L + 1)..(L + n) : i - L \in 1..n /\ wire'[c][i] = s[i - L].pkt
  <2> HIDE DEF t, n, rows
  <2>1. /\ wire'[c] \in Seq(Nat \ {0}) /\ Len(wire'[c]) = L + n
        /\ \A i \in 1..(L + n) : wire'[c][i] = IF i <= L THEN wire[c][i] ELSE t[i - L]
    BY <1>1, <1>5, <1>6, ConcatProperties
  <2>2. DOMAIN wire'[c] = 1..(L + n)
    BY <2>1, LenProperties
  <2>3. ASSUME NEW i \in (L + 1)..(L + n)
        PROVE  i - L \in 1..n /\ wire'[c][i] = s[i - L].pkt
    <3>1. i - L \in 1..n /\ i \in 1..(L + n) /\ ~(i <= L)
      BY <1>1
    <3> QED BY <2>1, <3>1 DEF t
  <2>4. \A i \in 1..L : i \in 1..(L + n) /\ i <= L
    BY <1>1
  <2> QED BY <2>1, <2>2, <2>3, <2>4
<1>8. ASSUME NEW i \in 1..n
      PROVE  /\ s[i] \in blobs /\ s[i].id = s[i].pkt /\ s[i].pkt \in Packet
             /\ s[i].dest = log[s[i].pkt].dest /\ s[i].dest \in hs
  BY <1>1, <1>4 DEF OrderInv, Numbered, BlobsFor
<1> HIDE DEF t, n, L, rows
<1>9. ASSUME NEW i \in DOMAIN wire'[c]
      PROVE  \/ i \in 1..L /\ wire'[c][i] = wire[c][i]
             \/ /\ i \in (L + 1)..(L + n) /\ i - L \in 1..n
                /\ wire'[c][i] = s[i - L].pkt
  <2>1. i \in 1..L \/ i \in (L + 1)..(L + n)
    BY <1>1, <1>7
  <2> QED BY <2>1, <1>7
<1>10. Numbered'
  <2>1. \A d \in Conn : \A i \in DOMAIN wire'[d] : wire'[d][i] \in Packet
    <3>1. ASSUME NEW i \in DOMAIN wire'[c]
          PROVE  wire'[c][i] \in Packet
      <4>1. CASE i \in 1..L /\ wire'[c][i] = wire[c][i]
        BY <4>1, <1>1 DEF OrderInv, Numbered
      <4>2. CASE i - L \in 1..n /\ wire'[c][i] = s[i - L].pkt
        BY <4>2, <1>8
      <4> QED BY <4>1, <4>2, <1>9
    <3> QED BY <3>1, <1>6 DEF OrderInv, Numbered
  <2> QED BY <1>2, <2>1 DEF OrderInv, Numbered, Packet
<1>11. NotOvertaken'
  <2> SUFFICES ASSUME NEW d \in Conn, NEW i \in DOMAIN wire'[d], NEW b \in blobs',
                      b.pkt < wire'[d][i], b.dest = log[wire'[d][i]].dest,
                      log[b.pkt].from # d
               PROVE  \E k \in 1..(i - 1) : wire'[d][k] = b.pkt
    BY DEF NotOvertaken, WrittenBefore
  <2>0. b \in blobs /\ b \notin rows
    BY <1>2
  <2>1. CASE d # c
    BY <2>0, <2>1, <1>6 DEF OrderInv, NotOvertaken, WrittenBefore
  <2>2. CASE d = c /\ i \in 1..L /\ wire'[c][i] = wire[c][i]
    <3>1. PICK k \in 1..(i - 1) : wire[c][k] = b.pkt
      BY <2>0, <2>2, <1>1 DEF OrderInv, NotOvertaken, WrittenBefore
    <3>2. k \in 1..L
      BY <2>2, <1>1
    <3> QED BY <2>2, <3>1, <3>2, <1>7
  <2>3. CASE d = c /\ i - L \in 1..n /\ wire'[c][i] = s[i - L].pkt
    <3>1. b.dest \in hs
      BY <2>3, <1>8
    <3> QED BY <3>1, <2>0 DEF rows, BlobsFor
  <2> QED BY <2>1, <2>2, <2>3, <1>9
<1>12. AckedGone'
  BY <1>2 DEF OrderInv, AckedGone
<1>13. EvictsOldest'
  BY <1>2 DEF OrderInv, EvictsOldest
<1>14. InOrder'
  <2> SUFFICES ASSUME NEW d \in Conn, NEW i \in DOMAIN wire'[d], NEW j \in DOMAIN wire'[d],
                      i < j, wire'[d][j] < wire'[d][i],
                      log[wire'[d][i]].dest = log[wire'[d][j]].dest,
                      log[wire'[d][j]].from # d
               PROVE  \E k \in 1..(i - 1) : wire'[d][k] = wire'[d][j]
    BY DEF InOrder
  <2>1. CASE d # c
    BY <2>1, <1>6 DEF OrderInv, InOrder
  <2>2. CASE d = c /\ i \in 1..L /\ j \in 1..L
    <3>1. wire'[c][i] = wire[c][i] /\ wire'[c][j] = wire[c][j]
      BY <2>2, <1>7
    <3>4. i \in DOMAIN wire[c] /\ j \in DOMAIN wire[c]
      BY <2>2, <1>1
    <3>5. /\ wire[c][j] < wire[c][i]
          /\ log[wire[c][i]].dest = log[wire[c][j]].dest /\ log[wire[c][j]].from # c
      BY <2>2, <3>1
    <3>6. InOrder
      BY DEF OrderInv
    <3>2. PICK k \in 1..(i - 1) : wire[c][k] = wire[c][j]
      BY <3>4, <3>5, <3>6 DEF InOrder
    <3>3. k \in 1..L
      BY <2>2, <1>1
    <3> QED BY <2>2, <3>1, <3>2, <3>3, <1>7
  <2>3. CASE d = c /\ i \in 1..L /\ j \in (L + 1)..(L + n)
    <3>1. /\ wire'[c][i] = wire[c][i] /\ wire'[c][j] = s[j - L].pkt
          /\ j - L \in 1..n
      BY <2>3, <1>7
    <3>2. PICK k \in 1..(i - 1) : wire[c][k] = s[j - L].pkt
      BY <2>3, <3>1, <1>8, <1>1 DEF OrderInv, NotOvertaken, WrittenBefore
    <3>3. k \in 1..L
      BY <2>3, <1>1
    <3> QED BY <2>3, <3>1, <3>2, <3>3, <1>7
  <2>4. CASE d = c /\ i \in (L + 1)..(L + n) /\ j \in (L + 1)..(L + n)
    <3>1. /\ wire'[c][i] = s[i - L].pkt /\ i - L \in 1..n
          /\ wire'[c][j] = s[j - L].pkt /\ j - L \in 1..n
      BY <2>4, <1>7
    <3>7. i - L < j - L
      BY <2>4, <1>1
    <3>2. s[i - L].dest = s[j - L].dest
      BY <2>4, <3>1, <1>8
    <3>3. s[i - L].id < s[j - L].id
      BY <3>1, <3>2, <3>7, <1>4
    <3>4. s[i - L].pkt < s[j - L].pkt
      BY <3>1, <3>3, <1>8
    <3>5. s[i - L].pkt \in Nat /\ s[j - L].pkt \in Nat
      BY <3>1, <1>8 DEF Packet
    <3>6. s[j - L].pkt < s[i - L].pkt
      BY <2>4, <3>1
    <3> QED BY <3>4, <3>5, <3>6
  <2>5. CASE d = c /\ i \in (L + 1)..(L + n) /\ j \in 1..L
    <3>1. FALSE
      BY <2>5, <1>1
    <3> QED BY <3>1
  <2> QED BY <2>1, <2>2, <2>3, <2>4, <2>5, <1>9
<1>15. OnlyAppends
  <2>1. \A k \in 1..L : k \in 1..(L + n)
    BY <1>1
  <2>2. ASSUME NEW i \in DOMAIN wire'[c], i \notin DOMAIN wire[c]
        PROVE  \E b \in blobs : wire'[c][i] = b.pkt
    BY <2>2, <1>1, <1>8, <1>9
  <2> QED BY <1>1, <1>6, <1>7, <2>1, <2>2 DEF OnlyAppends
<1> QED BY <1>10, <1>11, <1>12, <1>13, <1>14, <1>15

\* A packet stored and sent live, or only stored: it is the newest of all.
LEMMA StoreOrder ==
    ASSUME IInv, OrderInv, NEW h \in Hash, NEW from \in Conn \cup {NoConn}, NEW via \in Via,
           storeBlob(h, from, via),
           \/ Recipient(h, from) # NoConn /\ liveSend(Recipient(h, from))
           \/ Recipient(h, from) = NoConn /\ UNCHANGED network,
           UNCHANGED <<sock, memory, acked>>
    PROVE  OrderInv' /\ OnlyAppends
<1> DEFINE old == Overflow(h)
           new == Len(log) + 1
           row == [id |-> NextRowId, pkt |-> new, dest |-> h, at |-> now]
           r == Recipient(h, from)
<1>1. /\ Len(log) \in Nat /\ rowid = Len(log)
      /\ \A b \in blobs : b.id \in Nat /\ b.pkt \in Nat
  BY OrderTypes DEF OrderInv, Numbered
<1>2. /\ blobs' = (blobs \ old) \cup {row}
      /\ row.id = new /\ row.pkt = new /\ row.dest = h /\ rowid' = new
      /\ evicted' = evicted \cup {b.pkt : b \in old}
      /\ old \subseteq BlobsFor({h})
  BY <1>1 DEF storeBlob, NextRowId, Overflow, Oldest
<1>3. /\ Len(log') = new /\ Packet \subseteq Packet' /\ new \in Packet' /\ new \notin Packet
      /\ Packet' = Packet \cup {new}
      /\ log'[new].dest = h /\ log'[new].from = from
      /\ \A p \in Packet : log'[p] = log[p]
  <2>1. log \in Seq([dest : Hash, from : Conn \cup {NoConn}, via : Via])
    BY DEF IInv, TypeOK
  <2>2. log' = Append(log, [dest |-> h, from |-> from, via |-> via])
    BY DEF storeBlob
  <2>3. /\ Len(log') = Len(log) + 1
        /\ \A p \in 1..Len(log) : log'[p] = log[p]
        /\ log'[Len(log) + 1] = [dest |-> h, from |-> from, via |-> via]
    BY <2>1, <2>2, AppendProperties
  <2> QED BY <2>3, <1>1 DEF Packet
<1>4. r # NoConn => /\ r \in Conn /\ r = clientsByHash[h] /\ r # from /\ IsOpen(r)
  BY DEF Recipient, IInv, TypeOK
<1>5. \A c \in Conn : /\ Len(wire[c]) \in Nat /\ DOMAIN wire[c] = 1..Len(wire[c])
                      /\ wire[c] \in Seq(Nat \ {0})
  BY OrderTypes
<1>6. ASSUME NEW c \in Conn
      PROVE  /\ \A i \in DOMAIN wire[c] : i \in DOMAIN wire'[c] /\ wire'[c][i] = wire[c][i]
             /\ \A i \in DOMAIN wire'[c] : i \in Nat /\
                   \/ i \in DOMAIN wire[c] /\ wire'[c][i] = wire[c][i]
                   \/ /\ c = r /\ i = Len(wire[c]) + 1 /\ wire'[c][i] = new
             /\ c = r => \E i \in DOMAIN wire'[c] : wire'[c][i] = new
  <2>1. CASE c = r
    <3>1. wire' = [wire EXCEPT ![r] = Append(@, new)] /\ r \in Conn
      BY <2>1, <1>4, ConstantsAssumption DEF liveSend, ConstantsAssumption
    <3>2. wire'[c] = Append(wire[c], new)
      BY <2>1, <3>1 DEF IInv, TypeOK
    <3>3. new \in Nat \ {0}
      BY <1>1
    <3> HIDE DEF r, new
    <3>4. /\ wire'[c] \in Seq(Nat \ {0}) /\ Len(wire'[c]) = Len(wire[c]) + 1
          /\ \A i \in 1..Len(wire[c]) : wire'[c][i] = wire[c][i]
          /\ wire'[c][Len(wire[c]) + 1] = new
      BY <3>2, <3>3, <1>5, AppendProperties
    <3>5. DOMAIN wire'[c] = 1..(Len(wire[c]) + 1)
      BY <3>4, LenProperties
    <3>6. Len(wire[c]) \in Nat /\ DOMAIN wire[c] = 1..Len(wire[c])
      BY <1>5
    <3>7. \A i \in DOMAIN wire[c] : i \in DOMAIN wire'[c] /\ wire'[c][i] = wire[c][i]
      BY <3>4, <3>5, <3>6
    <3>8. ASSUME NEW i \in DOMAIN wire'[c]
          PROVE  i \in Nat /\ (i \in DOMAIN wire[c] \/ i = Len(wire[c]) + 1)
      BY <3>5, <3>6
    <3>9. Len(wire[c]) + 1 \in DOMAIN wire'[c]
      BY <3>5, <3>6
    <3> QED BY <2>1, <3>4, <3>7, <3>8, <3>9
  <2>2. CASE c # r
    <3>1. wire'[c] = wire[c]
      BY <2>2, <1>4 DEF liveSend, network, IInv, TypeOK
    <3> QED BY <2>2, <3>1, <1>5
  <2> QED BY <2>1, <2>2
<1>7. \A b \in blobs : b.id = b.pkt /\ b.pkt \in Packet /\ b.dest = log[b.pkt].dest
  BY DEF OrderInv, Numbered
<1>8. ASSUME NEW c \in Conn, NEW i \in DOMAIN wire[c]
      PROVE  wire[c][i] \in Packet
  BY DEF OrderInv, Numbered
<1> HIDE DEF r
<1>9. Numbered'
  <2>1. \A b \in blobs' : b.id = b.pkt /\ b.pkt \in Packet' /\ b.dest = log'[b.pkt].dest
    BY <1>2, <1>3, <1>7
  <2>2. \A s \in sending' : s.id = s.pkt /\ s.pkt \in Packet'
    <3>1. \A s \in sending' \ sending : s.id = new /\ s.pkt = new
      BY <1>1 DEF liveSend, network, NextRowId
    <3> QED BY <3>1, <1>3 DEF OrderInv, Numbered
  <2>3. evicted' \subseteq Packet' /\ acked' \subseteq Packet'
    BY <1>2, <1>3, <1>7 DEF OrderInv, Numbered, BlobsFor
  <2>4. \A c \in Conn : \A i \in DOMAIN wire'[c] : wire'[c][i] \in Packet'
    BY <1>3, <1>6, <1>8
  <2>5. rowid' = Len(log')
    BY <1>2, <1>3
  <2> QED BY <2>1, <2>2, <2>3, <2>4, <2>5 DEF Numbered
<1>10. ASSUME NEW b \in blobs'
       PROVE  b = row \/ (b \in blobs /\ b \notin old)
  BY <1>2
<1>11. ASSUME NEW c \in Conn, NEW i \in DOMAIN wire'[c]
       PROVE  wire'[c][i] <= new
  BY <1>1, <1>3, <1>6, <1>8 DEF Packet
<1>12. NotOvertaken'
  <2> SUFFICES ASSUME NEW c \in Conn, NEW i \in DOMAIN wire'[c], NEW b \in blobs',
                      b.pkt < wire'[c][i], b.dest = log'[wire'[c][i]].dest,
                      log'[b.pkt].from # c
               PROVE  \E k \in 1..(i - 1) : wire'[c][k] = b.pkt
    BY DEF NotOvertaken, WrittenBefore
  <2>1. b \in blobs
    <3>1. wire'[c][i] \in Nat /\ b.pkt # new
      BY <1>1, <1>3, <1>6, <1>8, <1>11 DEF Packet
    <3> QED BY <3>1, <1>2, <1>10
  <2>2. b.pkt \in Packet /\ log'[b.pkt] = log[b.pkt]
    BY <2>1, <1>3, <1>7
  <2>3. CASE i \in DOMAIN wire[c] /\ wire'[c][i] = wire[c][i]
    <3>1. log'[wire[c][i]] = log[wire[c][i]]
      BY <2>3, <1>3, <1>8
    <3>2. PICK k \in 1..(i - 1) : wire[c][k] = b.pkt
      BY <2>1, <2>2, <2>3, <3>1 DEF OrderInv, NotOvertaken, WrittenBefore
    <3>3. k \in DOMAIN wire[c]
      BY <2>3, <1>5
    <3> QED BY <3>2, <3>3, <1>6
  <2>4. CASE c = r /\ i = Len(wire[c]) + 1 /\ wire'[c][i] = new
    <3>1. b.dest = h /\ clientsByHash[h] = c /\ IsOpen(c) /\ c # NoConn
      BY <2>4, <1>3, <1>4, ConstantsAssumption DEF ConstantsAssumption
    <3>2. PICK k \in DOMAIN wire[c] : wire[c][k] = b.pkt
      BY <2>1, <2>2, <3>1 DEF OrderInv, LiveCaughtUp
    <3>3. k \in 1..(i - 1)
      BY <2>4, <1>5
    <3> QED BY <3>2, <3>3, <1>6
  <2> QED BY <2>3, <2>4, <1>6
<1>13. LiveCaughtUp'
  <2> SUFFICES ASSUME NEW g \in Hash, NEW b \in blobs',
                      clientsByHash[g] # NoConn, IsOpen(clientsByHash[g]), b.dest = g,
                      log'[b.pkt].from # clientsByHash[g]
               PROVE  \E k \in DOMAIN wire'[clientsByHash[g]] :
                         wire'[clientsByHash[g]][k] = b.pkt
    BY DEF LiveCaughtUp, memory, IsOpen
  <2>0. clientsByHash[g] \in Conn
    BY DEF IInv, TypeOK
  <2>1. CASE b = row
    <3>1. clientsByHash[g] = r
      BY <2>1, <1>2, <1>3 DEF r, Recipient
    <3> QED BY <2>0, <2>1, <3>1, <1>2, <1>6
  <2>2. CASE b \in blobs
    <3>1. log[b.pkt].from # clientsByHash[g]
      BY <2>2, <1>3, <1>7
    <3>2. PICK k \in DOMAIN wire[clientsByHash[g]] : wire[clientsByHash[g]][k] = b.pkt
      BY <2>2, <3>1 DEF OrderInv, LiveCaughtUp
    <3> QED BY <2>0, <3>2, <1>6
  <2> QED BY <2>1, <2>2, <1>10
<1>14. AckedGone'
  BY <1>2, <1>3, <1>10 DEF OrderInv, AckedGone, Numbered
<1>15. InOrder'
  <2> SUFFICES ASSUME NEW c \in Conn, NEW i \in DOMAIN wire'[c], NEW j \in DOMAIN wire'[c],
                      i < j, wire'[c][j] < wire'[c][i],
                      log'[wire'[c][i]].dest = log'[wire'[c][j]].dest,
                      log'[wire'[c][j]].from # c
               PROVE  \E k \in 1..(i - 1) : wire'[c][k] = wire'[c][j]
    BY DEF InOrder
  <2>1. j \in DOMAIN wire[c] /\ wire'[c][j] = wire[c][j]
    <3>1. wire'[c][i] \in Nat /\ wire'[c][j] # new
      BY <1>1, <1>3, <1>6, <1>8, <1>11 DEF Packet
    <3> QED BY <3>1, <1>6
  <2>2. i \in DOMAIN wire[c] /\ wire'[c][i] = wire[c][i]
    <3>1. i \in 1..Len(wire[c])
      BY <2>1, <1>5, <1>6
    <3> QED BY <3>1, <1>5, <1>6
  <2>3. log'[wire[c][i]] = log[wire[c][i]] /\ log'[wire[c][j]] = log[wire[c][j]]
    BY <2>1, <2>2, <1>3, <1>8
  <2>4. PICK k \in 1..(i - 1) : wire[c][k] = wire[c][j]
    BY <2>1, <2>2, <2>3 DEF OrderInv, InOrder
  <2>5. k \in DOMAIN wire[c]
    BY <2>2, <1>5
  <2> QED BY <2>1, <2>4, <2>5, <1>6
<1>16. EvictsOldest'
  <2> SUFFICES ASSUME NEW p \in evicted', NEW b \in blobs', b.dest = log'[p].dest
               PROVE  b.pkt > p
    BY DEF EvictsOldest
  <2>1. p \in Packet /\ log'[p] = log[p]
    BY <1>2, <1>3, <1>7 DEF OrderInv, Numbered, BlobsFor
  <2>2. CASE b = row
    BY <2>1, <2>2, <1>1, <1>2 DEF Packet
  <2>3. CASE b \in blobs /\ p \in evicted
    BY <2>1, <2>3 DEF OrderInv, EvictsOldest
  <2>4. ASSUME b \in blobs, b \notin old, NEW a \in old, p = a.pkt
        PROVE  b.pkt > p
    <3>1. a \in BlobsFor({h}) /\ b \in BlobsFor({h})
      BY <2>1, <2>4, <1>2, <1>7 DEF BlobsFor
    <3>2. old = Oldest(BlobsFor({h}))
      BY <2>4 DEF Overflow
    <3>3. \A x \in BlobsFor({h}) : a.id <= x.id
      BY <2>4, <3>2 DEF Oldest
    <3>4. b.id # a.id
      BY <2>4, <3>1, <3>2, <3>3 DEF Oldest
    <3> QED BY <2>4, <3>1, <3>3, <3>4, <1>1, <1>7 DEF BlobsFor
  <2> QED BY <2>2, <2>3, <2>4, <1>2, <1>10
<1>17. OnlyAppends
  BY <1>6 DEF OnlyAppends
<1> QED BY <1>9, <1>12, <1>13, <1>14, <1>15, <1>16, <1>17 DEF OrderInv

\* hello registers for the hashes whose queues it empties; a pull registers
\* nothing.  On a socket that has left OPEN both only delete.
LEMMA DeliverOrder ==
    ASSUME IInv, OrderInv, NEW c \in Conn, NEW hs \in SUBSET Hash,
           \/ Hello(c, hs)
           \/ Pull(c) /\ hs = hashesPerClient[c]
    PROVE  OrderInv' /\ OnlyAppends
<1>1. /\ deliverQueuedBlobs(c, hs)
      /\ UNCHANGED <<sock, rowid, log, sending, evicted, acked>>
  BY DEF Hello, Pull
<1>2. /\ \A b \in blobs' : b \in blobs /\ b.dest \notin hs
      /\ \A d \in Conn : IsOpen(d)' <=> IsOpen(d)
  BY <1>1 DEF deliverQueuedBlobs, BlobsFor, IsOpen
<1>3. ASSUME NEW h \in Hash, clientsByHash'[h] # NoConn
      PROVE  h \in hs \/ clientsByHash'[h] = clientsByHash[h]
  <2>1. CASE Hello(c, hs)
    <3>1. clientsByHash' = [g \in Hash |->
              IF g \in hs THEN c
              ELSE IF g \in hashesPerClient[c] THEN NoConn
              ELSE clientsByHash[g]]
      BY <2>1 DEF Hello, registerClient
    <3> QED BY <1>3, <3>1
  <2>2. CASE Pull(c)
    BY <2>2 DEF Pull, memory
  <2> QED BY <2>1, <2>2
<1>4. clientsByHash \in [Hash -> Conn \cup {NoConn}]
  BY DEF IInv, TypeOK
<1>5. CASE IsOpen(c)
  <2>1. /\ Numbered' /\ NotOvertaken' /\ AckedGone' /\ InOrder' /\ EvictsOldest'
        /\ OnlyAppends
    BY <1>1, <1>5, DrainOrder
  <2>2. LiveCaughtUp'
    <3> SUFFICES ASSUME NEW h \in Hash, NEW b \in blobs',
                        clientsByHash'[h] # NoConn, IsOpen(clientsByHash[h])', b.dest = h,
                        log'[b.pkt].from # clientsByHash'[h]
                 PROVE  \E k \in DOMAIN wire'[clientsByHash'[h]] :
                            wire'[clientsByHash'[h]][k] = b.pkt
      BY DEF LiveCaughtUp
    <3>1. clientsByHash'[h] = clientsByHash[h] /\ b \in blobs
      BY <1>2, <1>3
    <3>2. clientsByHash[h] \in Conn /\ IsOpen(clientsByHash[h])
      BY <1>2, <1>4, <3>1 DEF IsOpen
    <3>3. PICK k \in DOMAIN wire[clientsByHash[h]] : wire[clientsByHash[h]][k] = b.pkt
      BY <1>1, <3>1, <3>2 DEF OrderInv, LiveCaughtUp
    <3> QED BY <2>1, <3>1, <3>2, <3>3 DEF OnlyAppends
  <2> QED BY <2>1, <2>2 DEF OrderInv
<1>6. CASE ~IsOpen(c)
  <2>1. UNCHANGED wire /\ blobs' \subseteq blobs
    BY <1>1, <1>6 DEF deliverQueuedBlobs
  <2>2. ASSUME NEW h \in Hash, (clientsByHash[h] # NoConn /\ IsOpen(clientsByHash[h]))'
        PROVE  \/ clientsByHash'[h] = clientsByHash[h] /\ IsOpen(clientsByHash[h])
               \/ \A b \in blobs' : b.dest # h
    BY <2>2, <1>1, <1>2, <1>3 DEF IsOpen
  <2>3. evicted' \subseteq Packet /\ acked' \subseteq Packet /\ \A b \in blobs' : b.pkt \notin acked'
    BY <1>1, <2>1 DEF OrderInv, Numbered, AckedGone
  <2>4. OrderInv'
    BY <1>1, <2>1, <2>2, <2>3, QuietOrder
  <2> QED BY <2>1, <2>4 DEF OnlyAppends
<1> QED BY <1>5, <1>6

\* The callback of a send deletes the row it names, which is its own.
LEMMA CallbackOrder ==
    ASSUME IInv, OrderInv, NEW c \in Conn, NEW s \in sending, SendCallback(c, s)
    PROVE  OrderInv' /\ UNCHANGED wire
<1>1. /\ blobs' \subseteq blobs /\ sending' \subseteq sending
      /\ UNCHANGED <<wire, log, rowid, evicted, sock, clientsByHash>>
      /\ acked' = acked \cup {s.pkt} /\ \A b \in blobs' : b.id # s.id
  BY DEF SendCallback, memory
<1>2. acked' \subseteq Packet /\ evicted' \subseteq Packet /\ s.id = s.pkt
  BY <1>1 DEF OrderInv, Numbered
<1>3. \A b \in blobs' : b.pkt \notin acked'
  BY <1>1, <1>2 DEF OrderInv, Numbered, AckedGone
<1>4. \A h \in Hash : (clientsByHash[h] # NoConn /\ IsOpen(clientsByHash[h]))' =>
          clientsByHash'[h] = clientsByHash[h] /\ IsOpen(clientsByHash[h])
  BY <1>1 DEF IsOpen
<1> QED BY <1>1, <1>2, <1>3, <1>4, QuietOrder

\* A crash inside storeBlob has deleted the oldest row of a queue, and nothing is
\* live after it.
LEMMA CrashOrder ==
    ASSUME IInv, OrderInv, NEW h \in Hash, CrashInStoreBlob(h)
    PROVE  OrderInv' /\ UNCHANGED wire
<1>1. /\ blobs' = blobs \ Overflow(h) /\ evicted' = evicted \cup {b.pkt : b \in Overflow(h)}
      /\ UNCHANGED <<wire, log, rowid, acked>> /\ sending' = {}
      /\ \A g \in Hash : clientsByHash'[g] = NoConn
  BY DEF CrashInStoreBlob, LoseMemory
<1>2. Overflow(h) = Oldest(BlobsFor({h})) /\ Overflow(h) \subseteq blobs
  BY DEF CrashInStoreBlob, Overflow, Oldest, BlobsFor
<1>3. /\ evicted' \subseteq Packet /\ acked' \subseteq Packet
      /\ \A b \in blobs' : b.pkt \notin acked'
  BY <1>1, <1>2 DEF OrderInv, Numbered, AckedGone
<1>4. ASSUME NEW a \in Overflow(h), NEW b \in blobs', b.dest = log[a.pkt].dest
      PROVE  b.pkt > a.pkt
  <2>1. a \in BlobsFor({h}) /\ a \in blobs /\ b \in blobs /\ b \notin Overflow(h)
    BY <1>1, <1>2 DEF Oldest
  <2>2. b \in BlobsFor({h})
    BY <1>4, <2>1 DEF OrderInv, Numbered, BlobsFor
  <2>3. \A x \in BlobsFor({h}) : a.id <= x.id
    BY <1>2 DEF Oldest
  <2>4. b.id # a.id
    BY <1>2, <2>1, <2>2, <2>3 DEF Oldest
  <2>5. /\ a.id = a.pkt /\ b.id = b.pkt /\ a.id \in Nat /\ b.id \in Nat
    BY <2>1, OrderTypes DEF OrderInv, Numbered
  <2> QED BY <2>2, <2>3, <2>4, <2>5
<1>5. \A p \in evicted' \ evicted, b \in blobs' : b.dest = log[p].dest => b.pkt > p
  BY <1>1, <1>4
<1> QED BY <1>1, <1>3, <1>5, QuietOrder

\* What happens on the sockets, in the maps and in time writes and stores nothing,
\* and makes no hash live.
LEMMA OutsideOrder ==
    ASSUME IInv, OrderInv,
           \/ Tick \/ Restart \/ pruneExpiredBlobs \/ UNCHANGED vars
           \/ \E c \in Conn : SendError(c) \/ Network(c)
           \/ \E c \in Conn, h \in Hash, r \in HomeRelay : Route(c, h, r)
    PROVE  OrderInv' /\ UNCHANGED wire
<1>1. /\ UNCHANGED <<wire, log, rowid, evicted, acked>>
      /\ blobs' \subseteq blobs /\ sending' \subseteq sending
  BY DEF Tick, Restart, LoseMemory, pruneExpiredBlobs, vars, SendError, Network, Connect,
         PeerGone, SocketDown, SocketClosed, Route, network, history
<1>2. ASSUME NEW h \in Hash, clientsByHash'[h] # NoConn, IsOpen(clientsByHash[h])'
      PROVE  clientsByHash'[h] = clientsByHash[h] /\ IsOpen(clientsByHash[h])
  <2>1. clientsByHash'[h] = clientsByHash[h] /\ clientsByHash[h] \in Conn
    BY <1>2 DEF Tick, Restart, LoseMemory, pruneExpiredBlobs, vars, SendError, Network, Connect,
           PeerGone, SocketDown, SocketClosed, deregisterClient, Route, memory, IInv, TypeOK
  <2>2. Readable(clientsByHash[h])
    BY <1>2, <2>1 DEF IInv, RegistrySound
  <2>3. CASE UNCHANGED sock
    BY <1>2, <2>1, <2>3 DEF IsOpen
  <2>4. CASE Restart
    BY <1>2, <2>4 DEF Restart, LoseMemory
  <2>5. ASSUME NEW c \in Conn, Network(c)
        PROVE  IsOpen(clientsByHash[h])
    BY <1>2, <2>1, <2>2, <2>5 DEF Network, Connect, PeerGone, SocketDown, SocketClosed,
           IsOpen, Readable, IInv, TypeOK
  <2>6. UNCHANGED sock \/ Restart \/ \E c \in Conn : Network(c)
    BY DEF Tick, pruneExpiredBlobs, vars, SendError, Route
  <2> QED BY <2>1, <2>3, <2>4, <2>5, <2>6
<1>3. /\ evicted' \subseteq Packet /\ acked' \subseteq Packet
      /\ \A b \in blobs' : b.pkt \notin acked'
  BY <1>1 DEF OrderInv, Numbered, AckedGone
<1> QED BY <1>1, <1>2, <1>3, QuietOrder

\* OrderInv is inductive beside IInv, and what is written is only added to.
LEMMA StepOrder == IInv /\ OrderInv /\ [Next]_vars => OrderInv' /\ OnlyAppends
<1> SUFFICES ASSUME IInv, OrderInv, [Next]_vars PROVE OrderInv' /\ OnlyAppends
  OBVIOUS
<1>1. ASSUME NEW c \in Conn, Message(c)
      PROVE  OrderInv' /\ OnlyAppends
  <2>1. ASSUME NEW hs \in SUBSET Hash, Hello(c, hs)
        PROVE  OrderInv' /\ OnlyAppends
    BY <2>1, DeliverOrder
  <2>2. CASE Pull(c)
    <3>1. hashesPerClient[c] \in SUBSET Hash
      BY DEF IInv, TypeOK
    <3> QED BY <2>2, <3>1, DeliverOrder
  <2>3. ASSUME NEW h \in Hash, handleRelayPacket(c, h)
        PROVE  OrderInv' /\ OnlyAppends
    <3>1. OfflineVia(c, h) \subseteq Via /\ "live" \in Via
      BY DEF OfflineVia, HintedRelays, Via
    <3>2. PICK via \in Via :
            /\ storeBlob(h, c, via)
            /\ \/ Recipient(h, c) # NoConn /\ liveSend(Recipient(h, c))
               \/ Recipient(h, c) = NoConn /\ UNCHANGED network
      BY <2>3, <3>1 DEF handleRelayPacket
    <3> QED BY <2>3, <3>2, StoreOrder DEF handleRelayPacket
  <2>4. ASSUME NEW h \in Hash, NEW r \in HomeRelay, Route(c, h, r)
        PROVE  OrderInv' /\ OnlyAppends
    BY <2>4, OutsideOrder DEF OnlyAppends
  <2> QED BY <1>1, <2>1, <2>2, <2>3, <2>4 DEF Message
<1>2. ASSUME NEW c \in Conn, Callback(c) \/ Network(c)
      PROVE  OrderInv' /\ OnlyAppends
  BY <1>2, CallbackOrder, OutsideOrder DEF Callback, OnlyAppends
<1>3. ASSUME NEW h \in Hash, classifyLocal(h)
      PROVE  OrderInv' /\ OnlyAppends
  <2>1. {"live", "wake"} \subseteq Via
    BY DEF Via
  <2>2. PICK via \in Via :
          /\ storeBlob(h, NoConn, via)
          /\ \/ Recipient(h, NoConn) # NoConn /\ liveSend(Recipient(h, NoConn))
             \/ Recipient(h, NoConn) = NoConn /\ UNCHANGED network
    BY <1>3, <2>1 DEF classifyLocal
  <2> QED BY <1>3, <2>2, StoreOrder DEF classifyLocal
<1>4. ASSUME NEW h \in Hash, CrashInStoreBlob(h)
      PROVE  OrderInv' /\ OnlyAppends
  BY <1>4, CrashOrder DEF OnlyAppends
<1>5. CASE pruneExpiredBlobs \/ Tick \/ Restart \/ UNCHANGED vars
  BY <1>5, OutsideOrder DEF OnlyAppends
<1> QED BY <1>1, <1>2, <1>3, <1>4, <1>5 DEF Next

\* What is written is not an acknowledged packet: that one has no row any more,
\* and is not new.
LEMMA AckedStep ==
    ASSUME IInv, OrderInv, OnlyAppends, NEW p \in acked
    PROVE  Writes(p)' = Writes(p)
<1>1. ASSUME NEW c \in Conn, NEW i
      PROVE  (i \in DOMAIN wire[c] /\ wire[c][i] = p)
                <=> (i \in DOMAIN wire'[c] /\ wire'[c][i] = p)
  <2>1. p \in Packet /\ p # Len(log) + 1
    BY OrderTypes DEF OrderInv, Numbered, Packet
  <2>2. \A b \in blobs : b.pkt # p
    BY DEF OrderInv, AckedGone
  <2> QED BY <2>1, <2>2 DEF OnlyAppends
<1>2. ASSUME NEW w \in Conn \X (1..2 * MaxPackets)
      PROVE  (w[2] \in DOMAIN wire[w[1]] /\ wire[w[1]][w[2]] = p)
                <=> (w[2] \in DOMAIN wire'[w[1]] /\ wire'[w[1]][w[2]] = p)
  BY <1>1
<1> QED BY <1>2 DEF Writes

\* Nothing is accepted, stored or written at the start.
LEMMA InitOrder == Init => OrderInv
<1> SUFFICES ASSUME Init PROVE OrderInv
  OBVIOUS
<1>1. Len(log) = 0 /\ blobs = {} /\ sending = {} /\ evicted = {} /\ acked = {} /\ rowid = 0
  BY EmptySeq DEF Init
<1>2. \A c \in Conn : DOMAIN wire[c] = {}
  BY EmptySeq DEF Init
<1> QED BY <1>1, <1>2 DEF OrderInv, Numbered, NotOvertaken, LiveCaughtUp, AckedGone, InOrder,
           EvictsOldest

-----------------------------------------------------------------------------
(* The theorems *)

\* Every reachable state satisfies the inductive invariant.
THEOREM Invariance == Spec => []IInv
BY InitIInv, StepIInv, PTL DEF Spec

\* Every variable keeps its type.
THEOREM TypeCorrectness == Spec => []TypeOK
BY Invariance, PTL DEF IInv

\* The registry of registerClient and deregisterClient never names a socket that
\* has been closed, however late close events arrive and hellos interleave.
THEOREM RegistryCorrectness == Spec => []RegistrySound
BY Invariance, PTL DEF IInv

\* storeBlob keeps the cap for every cap and every number of hashes, packets,
\* restarts and crashes between its delete and its insert.
THEOREM StoreCap == Spec => []StoreBounded
BY Invariance, PTL DEF IInv

\* No accepted packet disappears other than by eviction, expiry, a pull or its
\* own acknowledged send.
THEOREM NoSilentLoss == Spec => []Accounted
BY Invariance, PTL DEF IInv

\* Order and age: every reachable state satisfies the second inductive invariant.
THEOREM OrderInvariance == Spec => []OrderInv
BY InitOrder, StepOrder, Invariance, PTL DEF Spec

\* A queue stays within the cap, keeps its newest packets, and row numbers are never reused, so a late
\* callback names its own row, for any number of overflows, crashes and restarts.
THEOREM StoreKeepsNewest == Spec => []StoreSound
<1>1. IInv /\ OrderInv => StoreSound
  BY DEF IInv, OrderInv, StoreSound
<1> QED BY <1>1, Invariance, OrderInvariance, PTL

\* Live packets never overtake queued ones on a connection, whatever hellos,
\* pulls, sends and replacements of the connection interleave.
THEOREM OrderKept == Spec => []InOrder
BY OrderInvariance, PTL DEF OrderInv

\* A packet whose send was reported complete is never written again.
THEOREM AckedOnce == Spec => AckedNotRewritten
<1>1. IInv /\ OrderInv /\ [Next]_vars => [\A p \in acked : Writes(p)' = Writes(p)]_vars
  <2> SUFFICES ASSUME IInv, OrderInv, Next, NEW p \in acked
               PROVE  Writes(p)' = Writes(p)
    OBVIOUS
  <2> QED BY AckedStep, StepOrder
<1> QED BY <1>1, Invariance, OrderInvariance, PTL DEF Spec, AckedNotRewritten

=============================================================================
