------------------------- MODULE MessageStoreProofs -------------------------
(***************************************************************************)
(* A conversation holds each message once and says of it only what was     *)
(* reported; what was saved is lost in no other way than the ones counted; *)
(* what was read stays read; a message is shown once; a deleted            *)
(* conversation stays deleted.                                             *)
(*                                                                         *)
(* The invariant StoreInv speaks not of the row alone but of every row     *)
(* that may be written to it: the one the holder of the mutex has read,    *)
(* the two of a purge, the archived one, pushed or pulled, the ones to be  *)
(* merged (Held, RowsTrue).  An operation that waits in the mutex is       *)
(* founded on a report that was made, and stays so (OpsTrue).  A message   *)
(* that was sent waits to be saved at most once, and a group's is on the   *)
(* wire only when it was saved (SavedFirst): so no save sets back a        *)
(* message that members have reported on.                                  *)
(*                                                                         *)
(* Next has two dozen actions, and few of them touch what the invariant    *)
(* speaks of: Framed says what all the others change, and QuietSteps that  *)
(* every step is Framed or one of the ten that have their own lemma.       *)
(***************************************************************************)
EXTENDS MessageStore, FiniteSetTheorems, SequenceTheorems, TLAPS

-----------------------------------------------------------------------------
(* Rows *)

Items(s) == {s[i] : i \in DOMAIN s}

\* A row holds a message once.
Once(r) == \A i, j \in DOMAIN r : r[i].id = r[j].id => i = j

\* A row's entries and their ids.
LEMMA RowFacts ==
    ASSUME NEW r \in Seq(Stored)
    PROVE  /\ Len(r) \in Nat /\ DOMAIN r = 1..Len(r)
           /\ Items(r) \subseteq Stored
           /\ Ids(r) = {e.id : e \in Items(r)}
           /\ Ids(r) \subseteq Msg
           /\ Once(r) => \A e, f \in Items(r) : e.id = f.id => e = f
<1>1. Len(r) \in Nat /\ DOMAIN r = 1..Len(r) /\ \A i \in 1..Len(r) : r[i] \in Stored
  OBVIOUS
<1>2. \A e \in Stored : e.id \in Msg
  BY DEF Stored
<1>3. Items(r) \subseteq Stored
  BY <1>1 DEF Items
<1>4. Ids(r) = {e.id : e \in Items(r)}
  BY DEF Ids, Items
<1>5. Once(r) => \A e, f \in Items(r) : e.id = f.id => e = f
  BY DEF Once, Items
<1> QED BY <1>1, <1>2, <1>3, <1>4, <1>5

\* A message that a row holds once is found there.
LEMMA EntryFound ==
    ASSUME NEW r \in Seq(Stored), Once(r), NEW e \in Items(r)
    PROVE  Entry(r, e.id) = e
<1>1. PICK i \in DOMAIN r : e = r[i]
  BY DEF Items
<1>2. \A j \in DOMAIN r : r[j].id = e.id => j = i
  BY <1>1 DEF Once
<1>3. (CHOOSE j \in DOMAIN r : r[j].id = e.id) = i
  BY <1>1, <1>2
<1> QED BY <1>1, <1>3 DEF Entry

\* What Entry picks.
LEMMA EntryOf ==
    ASSUME NEW r \in Seq(Stored), NEW m \in Ids(r)
    PROVE  Entry(r, m) \in Items(r) /\ Entry(r, m).id = m
<1>1. \E i \in DOMAIN r : r[i].id = m
  BY DEF Ids
<1>2. PICK k : k = CHOOSE i \in DOMAIN r : r[i].id = m
  OBVIOUS
<1>3. k \in DOMAIN r /\ r[k].id = m
  BY <1>1, <1>2
<1> QED BY <1>2, <1>3 DEF Entry, Items

\* w holds entries of r only, each once if r does.
Within(w, r) ==
    w \in Seq(Stored) /\ Items(w) \subseteq Items(r) /\ (Once(r) => Once(w))

\* Taking entries of r at distinct positions gives a row within r.
LEMMA WithinPositions ==
    ASSUME NEW r \in Seq(Stored), NEW w, NEW n \in Nat, DOMAIN w = 1..n,
           w = [k \in 1..n |-> w[k]],
           NEW f \in [1..n -> DOMAIN r],
           \A k \in 1..n : w[k] = r[f[k]],
           \A k, l \in 1..n : f[k] = f[l] => k = l
    PROVE  Within(w, r)
<1>1. \A k \in 1..n : w[k] \in Stored /\ w[k] \in Items(r)
  BY RowFacts DEF Items
<1>2. w \in Seq(Stored)
  <2>1. [k \in 1..n |-> w[k]] \in [1..n -> Stored]
    BY <1>1
  <2>2. w \in [1..n -> Stored]
    BY <2>1
  <2>3. \A g \in [1..n -> Stored] : g \in Seq(Stored)
    OBVIOUS
  <2> QED BY <2>2, <2>3
<1>3. Items(w) \subseteq Items(r)
  BY <1>1 DEF Items
<1>4. Once(r) => Once(w)
  BY DEF Once
<1> QED BY <1>2, <1>3, <1>4 DEF Within

\* The sets of positions before each position order the positions of I.
Orders(b, I) ==
    /\ b \in [I -> SUBSET I]
    /\ \A i \in I : i \notin b[i]
    /\ \A i, j \in I : j \in b[i] => b[j] \subseteq b[i]
    /\ \A i, j \in I : i = j \/ i \in b[j] \/ j \in b[i]

\* For each k just one position has k - 1 positions before it.
Ranks(b, I, n) ==
    /\ n \in Nat
    /\ \A k \in 1..n : \E i \in I : Cardinality(b[i]) = k - 1
    /\ \A i \in I : Cardinality(b[i]) \in 0..(n - 1)
    /\ \A i, j \in I : Cardinality(b[i]) = Cardinality(b[j]) => i = j

\* Positions have ranks: counting those before gives each its own place.
LEMMA Ranking ==
    ASSUME NEW I, IsFiniteSet(I), NEW b, Orders(b, I)
    PROVE  Ranks(b, I, Cardinality(I))
<1> USE DEF Orders
<1>1. Cardinality(I) \in Nat
  BY FS_CardinalityType
<1>2. \A i \in I : IsFiniteSet(b[i]) /\ Cardinality(b[i]) \in Nat
  BY FS_Subset, FS_CardinalityType
<1>3. ASSUME NEW i \in I, NEW j \in I, j \in b[i] PROVE Cardinality(b[j]) # Cardinality(b[i])
  <2>1. b[j] \in SUBSET b[i] /\ b[j] # b[i]
    BY <1>3
  <2> QED BY <1>2, <2>1, FS_Subset
<1>4. \A i, j \in I : Cardinality(b[i]) = Cardinality(b[j]) => i = j
  BY <1>3
<1>5. ASSUME NEW i \in I PROVE Cardinality(b[i]) \in 0..(Cardinality(I) - 1)
  <2>1. b[i] \in SUBSET I /\ b[i] # I
    OBVIOUS
  <2>2. Cardinality(b[i]) <= Cardinality(I) /\ Cardinality(b[i]) # Cardinality(I)
    BY <2>1, FS_Subset
  <2> QED BY <1>1, <1>2, <2>2
<1>6. PICK rank : rank = [i \in I |-> Cardinality(b[i])]
  OBVIOUS
<1>7. rank \in Injection(I, 0..(Cardinality(I) - 1))
  BY <1>4, <1>5, <1>6 DEF Injection, IsInjective
<1>8. /\ IsFiniteSet(0..(Cardinality(I) - 1))
      /\ Cardinality(0..(Cardinality(I) - 1)) = Cardinality(I)
  BY <1>1, FS_Interval
<1>9. rank \in Surjection(I, 0..(Cardinality(I) - 1))
  BY <1>7, <1>8, FS_Injection
<1>10. ASSUME NEW k \in 1..Cardinality(I) PROVE \E i \in I : Cardinality(b[i]) = k - 1
  <2>1. k - 1 \in 0..(Cardinality(I) - 1)
    BY <1>1
  <2>2. PICK i \in I : rank[i] = k - 1
    BY <1>9, <2>1 DEF Surjection
  <2> QED BY <1>6, <2>2
<1> QED BY <1>1, <1>4, <1>5, <1>10 DEF Ranks

\* What array.filter leaves.
LEMMA WithoutRow ==
    ASSUME NEW r \in Seq(Stored), NEW S
    PROVE  /\ Within(Without(r, S), r)
           /\ \A e \in Items(Without(r, S)) : e.id \notin S
<1>1. PICK I : I = {i \in DOMAIN r : r[i].id \notin S}
  OBVIOUS
<1>2. IsFiniteSet(I) /\ I \subseteq Nat
  <2>1. Len(r) \in Nat /\ I \in SUBSET (1..Len(r))
    BY <1>1, RowFacts
  <2>2. IsFiniteSet(1..Len(r))
    BY <2>1, FS_Interval
  <2>3. IsFiniteSet(I)
    BY <2>1, <2>2, FS_Subset
  <2>4. I \subseteq Nat
    BY <2>1
  <2> QED BY <2>3, <2>4
<1>3. PICK b : b = [i \in I |-> {j \in I : j < i}]
  OBVIOUS
<1>4. Orders(b, I)
  <2>1. DOMAIN b = I /\ \A i \in I : b[i] = {j \in I : j < i}
    BY <1>3
  <2>2. b \in [I -> SUBSET I]
    BY <1>3
  <2>3. \A i \in I : i \notin b[i]
    BY <1>2, <2>1
  <2>4. \A i, j \in I : j \in b[i] => b[j] \subseteq b[i]
    BY <1>2, <2>1
  <2>5. \A i, j \in I : i = j \/ i \in b[j] \/ j \in b[i]
    BY <1>2, <2>1
  <2> QED BY <2>2, <2>3, <2>4, <2>5 DEF Orders
<1>5. PICK n : n = Cardinality(I)
  OBVIOUS
<1>6. /\ n \in Nat
      /\ \A k \in 1..n : \E i \in I : Cardinality(b[i]) = k - 1
  <2>1. Ranks(b, I, n)
    BY <1>2, <1>4, <1>5, Ranking
  <2> QED BY <2>1 DEF Ranks
<1>7. PICK f : f = [k \in 1..n |-> CHOOSE i \in I : Cardinality({j \in I : j < i}) = k - 1]
  OBVIOUS
<1>8. \A k \in 1..n : f[k] \in I /\ Cardinality(b[f[k]]) = k - 1
  <2> SUFFICES ASSUME NEW k \in 1..n PROVE f[k] \in I /\ Cardinality(b[f[k]]) = k - 1
    OBVIOUS
  <2>1. \E i \in I : Cardinality({j \in I : j < i}) = k - 1
    BY <1>3, <1>6
  <2>2. f[k] = CHOOSE i \in I : Cardinality({j \in I : j < i}) = k - 1
    BY <1>7
  <2>3. f[k] \in I /\ Cardinality({j \in I : j < f[k]}) = k - 1
    BY <2>1, <2>2
  <2> QED BY <1>3, <2>3
<1>9. PICK w : w = Without(r, S)
  OBVIOUS
<1>10. w = [k \in 1..n |-> r[f[k]]]
  BY <1>1, <1>5, <1>7, <1>9 DEF Without, Arranged
<1>11. Within(w, r)
  <2>1. f \in [1..n -> DOMAIN r]
    <3>1. I \subseteq DOMAIN r
      BY <1>1
    <3> QED BY <1>7, <1>8, <3>1
  <2>2. \A k, l \in 1..n : f[k] = f[l] => k = l
    <3> SUFFICES ASSUME NEW k \in 1..n, NEW l \in 1..n, f[k] = f[l] PROVE k = l
      OBVIOUS
    <3>1. k - 1 = l - 1
      BY <1>8
    <3> QED BY <1>6, <3>1
  <2> QED BY <1>6, <1>10, <2>1, <2>2, WithinPositions
<1>12. \A e \in Items(w) : e.id \notin S
  BY <1>1, <1>8, <1>10 DEF Items
<1> QED BY <1>9, <1>11, <1>12

\* Sorting keeps what is sorted.
LEMMA ByIdRow ==
    ASSUME NEW r \in Seq(Stored)
    PROVE  Within(ById(r), r) /\ Items(ById(r)) = Items(r)
<1>1. PICK I : I = DOMAIN r
  OBVIOUS
<1>2. IsFiniteSet(I) /\ I \subseteq Nat /\ \A i \in I : r[i].id \in Nat
  <2>1. Len(r) \in Nat /\ I = 1..Len(r) /\ \A i \in I : r[i] \in Stored
    BY <1>1
  <2>2. IsFiniteSet(1..Len(r))
    BY <2>1, FS_Interval
  <2>3. \A e \in Stored : e.id \in Nat
    BY ConstantsAssumption DEF Stored
  <2> QED BY <2>1, <2>2, <2>3
<1>3. PICK b : b = [i \in I |-> {j \in I : r[j].id < r[i].id \/ (r[j].id = r[i].id /\ j < i)}]
  OBVIOUS
<1>4. /\ b \in [I -> SUBSET I]
      /\ \A i \in I : i \notin b[i]
      /\ \A i, j \in I : i = j \/ i \in b[j] \/ j \in b[i]
  BY <1>2, <1>3
<1>5. ASSUME NEW i \in I, NEW j \in I, j \in b[i], NEW k \in b[j] PROVE k \in b[i]
  <2>1. k \in I
    BY <1>3, <1>5
  <2>2. /\ r[k].id < r[j].id \/ (r[k].id = r[j].id /\ k < j)
        /\ r[j].id < r[i].id \/ (r[j].id = r[i].id /\ j < i)
    BY <1>3, <1>5
  <2>3. r[k].id < r[i].id \/ (r[k].id = r[i].id /\ k < i)
    BY <1>2, <2>1, <2>2
  <2> QED BY <1>3, <2>1, <2>3
<1>6. PICK n : n = Cardinality(I)
  OBVIOUS
<1>7. Orders(b, I)
  BY <1>4, <1>5 DEF Orders
<1>8. /\ n \in Nat
      /\ \A k \in 1..n : \E i \in I : Cardinality(b[i]) = k - 1
      /\ \A i \in I : Cardinality(b[i]) \in 0..(n - 1)
      /\ \A i, j \in I : Cardinality(b[i]) = Cardinality(b[j]) => i = j
  <2>1. Ranks(b, I, n)
    BY <1>2, <1>6, <1>7, Ranking
  <2> QED BY <2>1 DEF Ranks
<1>9. PICK f : f = [k \in 1..n |->
                      CHOOSE i \in I : Cardinality({j \in I : r[j].id < r[i].id
                                              \/ (r[j].id = r[i].id /\ j < i)}) = k - 1]
  OBVIOUS
<1>10. \A k \in 1..n : f[k] \in I /\ Cardinality(b[f[k]]) = k - 1
  <2> SUFFICES ASSUME NEW k \in 1..n PROVE f[k] \in I /\ Cardinality(b[f[k]]) = k - 1
    OBVIOUS
  <2>1. \E i \in I : Cardinality({j \in I : r[j].id < r[i].id
                                             \/ (r[j].id = r[i].id /\ j < i)}) = k - 1
    BY <1>3, <1>8
  <2>2. f[k] = CHOOSE i \in I : Cardinality({j \in I : r[j].id < r[i].id
                                             \/ (r[j].id = r[i].id /\ j < i)}) = k - 1
    BY <1>9
  <2>3. /\ f[k] \in I
        /\ Cardinality({j \in I : r[j].id < r[f[k]].id
                                    \/ (r[j].id = r[f[k]].id /\ j < f[k])}) = k - 1
    BY <2>1, <2>2
  <2> QED BY <1>3, <2>3
<1>11. PICK w : w = ById(r)
  OBVIOUS
<1>12. w = [k \in 1..n |-> r[f[k]]]
  BY <1>1, <1>6, <1>9, <1>11 DEF ById, Arranged
<1>13. Within(w, r)
  <2>1. f \in [1..n -> DOMAIN r]
    <3>1. I \subseteq DOMAIN r
      BY <1>1
    <3> QED BY <1>9, <1>10, <3>1
  <2>2. \A k, l \in 1..n : f[k] = f[l] => k = l
    <3> SUFFICES ASSUME NEW k \in 1..n, NEW l \in 1..n, f[k] = f[l] PROVE k = l
      OBVIOUS
    <3>1. k - 1 = l - 1
      BY <1>10
    <3> QED BY <1>8, <3>1
  <2> QED BY <1>8, <1>12, <2>1, <2>2, WithinPositions
<1>14. Items(r) \subseteq Items(w)
  <2> SUFFICES ASSUME NEW i \in I PROVE \E k \in 1..n : r[i] = r[f[k]]
    BY <1>1, <1>12 DEF Items
  <2>1. Cardinality(b[i]) + 1 \in 1..n
    BY <1>8
  <2>2. Cardinality(b[f[Cardinality(b[i]) + 1]]) = Cardinality(b[i])
    BY <1>8, <1>10, <2>1
  <2>3. f[Cardinality(b[i]) + 1] = i
    BY <1>8, <1>10, <2>1, <2>2
  <2> QED BY <2>1, <2>3
<1> QED BY <1>11, <1>13, <1>14 DEF Within

\* What the retention policy leaves, and that it leaves the last.
LEMMA RetentionRow ==
    ASSUME NEW r \in Seq(Stored)
    PROVE  /\ Within(applyRetention(r), r)
           /\ r # <<>> => r[Len(r)] \in Items(applyRetention(r))
<1>1. PICK w : w = applyRetention(r)
  OBVIOUS
<1>2. Len(r) \in Nat /\ DOMAIN r = 1..Len(r) /\ Keep \in Nat
  BY ConstantsAssumption
<1>3. CASE Keep = 0 \/ Len(r) <= Keep
  BY <1>1, <1>2, <1>3 DEF applyRetention, Within, Items
<1>4. CASE ~(Keep = 0 \/ Len(r) <= Keep)
  <2>1. w = SubSeq(r, Len(r) - Keep + 1, Len(r))
    BY <1>1, <1>4 DEF applyRetention
  <2>2. PICK f : f = [k \in 1..Keep |-> k + (Len(r) - Keep)]
    OBVIOUS
  <2>3. /\ w = [k \in 1..Keep |-> w[k]] /\ DOMAIN w = 1..Keep
        /\ \A k \in 1..Keep : w[k] = r[k + (Len(r) - Keep)]
    <3>1. PICK a : a = Len(r) - Keep + 1
      OBVIOUS
    <3>2. a \in 1..(Len(r) + 1) /\ Len(r) \in (a - 1)..Len(r) /\ Len(r) - a + 1 = Keep
      BY <1>2, <1>4, <3>1
    <3>3. w = SubSeq(r, a, Len(r))
      BY <2>1, <3>1
    <3>4. /\ w \in Seq(Stored) /\ Len(w) = Len(r) - a + 1
          /\ \A k \in 1..(Len(r) - a + 1) : w[k] = r[a + k - 1]
      BY <3>2, <3>3, SubSeqProperties
    <3>5. DOMAIN w = 1..Keep /\ w = [k \in DOMAIN w |-> w[k]]
      BY <3>2, <3>4
    <3>6. \A k \in 1..Keep : a + k - 1 = k + (Len(r) - Keep)
      BY <1>2, <3>1
    <3> QED BY <3>2, <3>4, <3>5, <3>6
  <2>4. f \in [1..Keep -> DOMAIN r] /\ \A k, l \in 1..Keep : f[k] = f[l] => k = l
    BY <1>2, <1>4, <2>2
  <2>5. Within(w, r)
    BY <1>2, <2>2, <2>3, <2>4, WithinPositions
  <2>6. w[Keep] = r[Len(r)] /\ Keep \in DOMAIN w
    BY <1>2, <1>4, <2>3
  <2> QED BY <1>1, <2>5, <2>6 DEF Items
<1> QED BY <1>3, <1>4

\* What a purge writes is within what it read.
LEMMA PurgedRow ==
    ASSUME NEW r \in Seq(Stored)
    PROVE  Within(Purged(r), r)
<1>1. Within(Without(r, expired), r)
  BY WithoutRow
<1>2. Within(applyRetention(Without(r, expired)), Without(r, expired))
  BY <1>1, RetentionRow DEF Within
<1> QED BY <1>1, <1>2 DEF Within, Purged

\* Two rows one after the other.
LEMMA JoinedRows ==
    ASSUME NEW r \in Seq(Stored), NEW w \in Seq(Stored), NEW q, q = r \o w
    PROVE  /\ q \in Seq(Stored) /\ Items(q) = Items(r) \cup Items(w)
           /\ Once(r) /\ Once(w) /\ (\A e \in Items(w) : e.id \notin Ids(r)) => Once(q)
<1>1. /\ DOMAIN r = 1..Len(r) /\ Len(r) \in Nat /\ DOMAIN w = 1..Len(w) /\ Len(w) \in Nat
      /\ q \in Seq(Stored) /\ DOMAIN q = 1..(Len(r) + Len(w))
      /\ \A i \in 1..Len(r) : q[i] = r[i]
      /\ \A i \in 1..Len(w) : q[Len(r) + i] = w[i]
  OBVIOUS
<1>2. \A i \in DOMAIN q : \/ i \in DOMAIN r /\ q[i] = r[i]
                          \/ i > Len(r) /\ i - Len(r) \in DOMAIN w /\ q[i] = w[i - Len(r)]
  <2> SUFFICES ASSUME NEW i \in DOMAIN q, i \notin DOMAIN r
               PROVE  i > Len(r) /\ i - Len(r) \in DOMAIN w /\ q[i] = w[i - Len(r)]
    BY <1>1
  <2>1. i > Len(r) /\ i - Len(r) \in 1..Len(w) /\ i = Len(r) + (i - Len(r))
    BY <1>1
  <2> QED BY <1>1, <2>1
<1>3. Items(q) \subseteq Items(r) \cup Items(w)
  BY <1>2 DEF Items
<1>4. Items(r) \subseteq Items(q)
  <2> SUFFICES ASSUME NEW i \in DOMAIN r PROVE r[i] \in Items(q)
    BY DEF Items
  <2>1. i \in DOMAIN q /\ q[i] = r[i]
    BY <1>1
  <2> QED BY <2>1 DEF Items
<1>5. Items(w) \subseteq Items(q)
  <2> SUFFICES ASSUME NEW i \in DOMAIN w PROVE w[i] \in Items(q)
    BY DEF Items
  <2>1. Len(r) + i \in DOMAIN q /\ q[Len(r) + i] = w[i]
    BY <1>1
  <2> QED BY <2>1 DEF Items
<1>6. ASSUME Once(r), Once(w), \A e \in Items(w) : e.id \notin Ids(r),
             NEW i \in DOMAIN q, NEW j \in DOMAIN q, q[i].id = q[j].id
      PROVE  i = j
  <2>1. \A k \in DOMAIN w, l \in DOMAIN r : w[k].id # r[l].id
    BY <1>6 DEF Items, Ids
  <2>2. CASE i \in DOMAIN r /\ q[i] = r[i] /\ j \in DOMAIN r /\ q[j] = r[j]
    BY <1>6, <2>2 DEF Once
  <2>3. CASE /\ i > Len(r) /\ i - Len(r) \in DOMAIN w /\ q[i] = w[i - Len(r)]
             /\ j > Len(r) /\ j - Len(r) \in DOMAIN w /\ q[j] = w[j - Len(r)]
    <3>1. i - Len(r) = j - Len(r)
      BY <1>6, <2>3 DEF Once
    <3> QED BY <1>1, <3>1
  <2> QED BY <1>2, <1>6, <2>1, <2>2, <2>3
<1> QED BY <1>1, <1>3, <1>4, <1>5, <1>6 DEF Once

\* The additions of a replay.
LEMMA SetRow ==
    ASSUME NEW S \in SUBSET Stored, IsFiniteSet(S),
           \A e, f \in S : e.id = f.id => e = f,
           NEW w, w = SetToSeq(S)
    PROVE  w \in Seq(Stored) /\ Items(w) = S /\ Once(w)
<1>1. PICK n : n = Cardinality(S)
  OBVIOUS
<1>2. n \in Nat /\ ExistsBijection(1..n, S)
  BY <1>1, FS_CardinalityType
<1>3. \E f \in [1..n -> S] : IsInjective(f)
  BY <1>2 DEF ExistsBijection, Bijection, Injection, IsInjective
<1>4. w = CHOOSE f \in [1..n -> S] : IsInjective(f)
  BY <1>1 DEF SetToSeq
<1>5. w \in [1..n -> S] /\ IsInjective(w)
  BY <1>3, <1>4
<1>6. w \in Injection(1..n, S)
  BY <1>5 DEF Injection, IsInjective
<1>7. IsFiniteSet(1..n) /\ Cardinality(1..n) = n
  BY <1>2, FS_Interval
<1>8. w \in Surjection(1..n, S)
  BY <1>1, <1>6, <1>7, FS_Injection
<1>9. w \in Seq(Stored)
  BY <1>2, <1>5
<1>10. Items(w) = S
  BY <1>5, <1>8 DEF Items, Surjection
<1>11. Once(w)
  BY <1>5 DEF Once, IsInjective
<1> QED BY <1>9, <1>10, <1>11

-----------------------------------------------------------------------------
(* Operations *)

\* The fields of an operation.
LEMMA OpShape ==
    ASSUME NEW op \in Op
    PROVE  /\ op.do \in {"save", "remove", "status", "receipt", "merge", "replay"}
           /\ op.do = "save" => op.msg \in Stored
           /\ op.do = "status" => op.id \in Msg /\ op.to \in {"delivered", "read"}
           /\ op.do = "receipt" => /\ op.id \in Outbound /\ op.by \in Member
                                   /\ op.to \in {"delivered", "read"}
           /\ op.do = "merge" => op.rows \in Seq(Stored)
           /\ op.do = "replay" => op.ids \subseteq Msg
<1>1. CASE op \in [do : {"save"}, msg : Stored]
  BY <1>1
<1>2. CASE op \in [do : {"remove"}, id : Msg]
  BY <1>2
<1>3. CASE op \in [do : {"status"}, id : Msg, to : {"delivered", "read"}]
  BY <1>3
<1>4. CASE op \in [do : {"receipt"}, id : Outbound, by : Member, to : {"delivered", "read"}]
  BY <1>4
<1>5. CASE op \in [do : {"merge"}, rows : Seq(Stored)]
  BY <1>5
<1>6. CASE op \in [do : {"replay"}, ids : SUBSET Msg]
  BY <1>6
<1> QED BY <1>1, <1>2, <1>3, <1>4, <1>5, <1>6 DEF Op

\* How an entry comes into the row that op makes of r.
Becomes(op, r, f) ==
    \/ f \in Items(r)
    \/ op.do = "save" /\ f = op.msg
    \/ op.do = "status" /\ \E e \in Items(r) : e.id = op.id /\ f = [e EXCEPT !.status = op.to]
    \/ op.do = "receipt" /\ \E e \in Items(r) :
          e.id = op.id /\ e.got[op.by] # "read" /\ f = [e EXCEPT !.got[op.by] = op.to]
    \/ op.do = "merge" /\ f \in Items(op.rows) /\ f.id \notin Ids(r)
    \/ op.do = "replay" /\ f.id \in op.ids \ Ids(r)
         /\ f = NewMessage(f.id, IF f.id \in Outbound THEN "delivered" ELSE "read")

\* What is so of the row w that op makes of r.
Made(op, r, w) ==
    /\ w \in Seq(Stored) /\ Once(w)
    /\ \A f \in Items(w) : Becomes(op, r, f)
    /\ op.do \notin {"save", "remove"} => Ids(r) \subseteq Ids(w)
    /\ op.do = "save" => op.msg.id \in Ids(w)

\* Changing entries in place keeps the ids.
LEMMA MappedRow ==
    ASSUME NEW r \in Seq(Stored), NEW w, w = [i \in DOMAIN r |-> w[i]],
           \A i \in DOMAIN r : w[i] \in Stored /\ w[i].id = r[i].id
    PROVE  w \in Seq(Stored) /\ Ids(w) = Ids(r) /\ (Once(r) => Once(w))
<1>1. DOMAIN w = DOMAIN r /\ DOMAIN r = 1..Len(r) /\ Len(r) \in Nat
  OBVIOUS
<1>2. w \in Seq(Stored)
  BY <1>1
<1>3. Ids(w) = Ids(r)
  BY <1>1 DEF Ids
<1>4. Once(r) => Once(w)
  BY <1>1 DEF Once
<1> QED BY <1>2, <1>3, <1>4

\* A new message goes to the end.
LEMMA AppendedRow ==
    ASSUME NEW r \in Seq(Stored), NEW e \in Stored, NEW w, w = Append(r, e)
    PROVE  /\ w \in Seq(Stored) /\ w # <<>> /\ w[Len(w)] = e
           /\ Items(w) = Items(r) \cup {e}
           /\ Once(r) /\ e.id \notin Ids(r) => Once(w)
<1>1. PICK q : q = <<e>>
  OBVIOUS
<1>2. q \in Seq(Stored) /\ w = r \o q /\ Once(q) /\ DOMAIN q = {1} /\ q[1] = e
  BY <1>1 DEF Once
<1>3. Items(q) = {e}
  BY <1>2 DEF Items
<1>4. /\ w \in Seq(Stored) /\ Items(w) = Items(r) \cup Items(q)
      /\ Once(r) /\ Once(q) /\ (\A x \in Items(q) : x.id \notin Ids(r)) => Once(w)
  BY <1>2, JoinedRows
<1>5. w # <<>> /\ w[Len(w)] = e
  OBVIOUS
<1> QED BY <1>2, <1>3, <1>4, <1>5

\* The row that each operation makes: saveMessage ...
LEMMA SavedRow ==
    ASSUME NEW op \in Op, op.do = "save", NEW r \in Seq(Stored), Once(r),
           NEW w, w = saveMessage(r, op.msg)
    PROVE  Made(op, r, w)
<1>1. op.msg \in Stored
  BY OpShape
<1>2. CASE op.msg.id \in Ids(r)
  <2>1. w = [i \in DOMAIN r |-> IF r[i].id = op.msg.id THEN op.msg ELSE r[i]]
    BY <1>2 DEF saveMessage
  <2>2. /\ w = [i \in DOMAIN r |-> w[i]]
        /\ \A i \in DOMAIN r : w[i] \in Stored /\ w[i].id = r[i].id
    BY <1>1, <2>1
  <2>3. w \in Seq(Stored) /\ Ids(w) = Ids(r) /\ Once(w)
    BY <2>2, MappedRow
  <2>4. \A f \in Items(w) : f \in Items(r) \/ f = op.msg
    BY <2>1 DEF Items
  <2> QED BY <1>2, <2>3, <2>4 DEF Made, Becomes
<1>3. CASE op.msg.id \notin Ids(r)
  <2>1. PICK q : q = Append(r, op.msg)
    OBVIOUS
  <2>2. /\ q \in Seq(Stored) /\ q # <<>> /\ q[Len(q)] = op.msg
        /\ Items(q) = Items(r) \cup {op.msg} /\ Once(q)
    BY <1>1, <1>3, <2>1, AppendedRow
  <2>3. w = applyRetention(q)
    BY <1>3, <2>1 DEF saveMessage
  <2>4. Within(w, q) /\ op.msg \in Items(w)
    BY <2>2, <2>3, RetentionRow
  <2>5. op.msg.id \in Ids(w)
    BY <2>4, RowFacts DEF Within
  <2> QED BY <2>2, <2>4, <2>5 DEF Made, Becomes, Within
<1> QED BY <1>2, <1>3

\* ... updateMessageStatus ...
LEMMA StatusRow ==
    ASSUME NEW op \in Op, op.do = "status", NEW r \in Seq(Stored), Once(r),
           NEW w, w = updateMessageStatus(r, op.id, op.to)
    PROVE  Made(op, r, w)
<1>1. op.to \in Status
  BY OpShape DEF Status
<1>2. w = [i \in DOMAIN r |-> IF r[i].id = op.id THEN [r[i] EXCEPT !.status = op.to] ELSE r[i]]
  BY DEF updateMessageStatus
<1>3. \A i \in DOMAIN r : r[i] \in Stored
  OBVIOUS
<1>4. \A e \in Stored : /\ [e EXCEPT !.status = op.to] \in Stored
                        /\ [e EXCEPT !.status = op.to].id = e.id
  BY <1>1 DEF Stored
<1>5. /\ w = [i \in DOMAIN r |-> w[i]]
      /\ \A i \in DOMAIN r : w[i] \in Stored /\ w[i].id = r[i].id
  BY <1>2, <1>3, <1>4
<1>6. w \in Seq(Stored) /\ Ids(w) = Ids(r) /\ Once(w)
  BY <1>5, MappedRow
<1>7. \A f \in Items(w) : Becomes(op, r, f)
  BY <1>2 DEF Items, Becomes
<1> QED BY <1>6, <1>7 DEF Made

\* ... updateGroupReceipt ...
LEMMA ReceiptRow ==
    ASSUME NEW op \in Op, op.do = "receipt", NEW r \in Seq(Stored), Once(r),
           NEW w, w = updateGroupReceipt(r, op.id, op.by, op.to)
    PROVE  Made(op, r, w)
<1>1. op.id \in Outbound /\ op.by \in Member /\ op.to \in {"delivered", "read"}
  BY OpShape
<1>2. w = [i \in DOMAIN r |->
              IF r[i].id = op.id /\ op.id \in Outbound /\ r[i].got[op.by] # "read"
              THEN [r[i] EXCEPT !.got[op.by] = op.to] ELSE r[i]]
  BY DEF updateGroupReceipt
<1>3. \A i \in DOMAIN r : r[i] \in Stored
  OBVIOUS
<1>4. \A e \in Stored : /\ [e EXCEPT !.got[op.by] = op.to] \in Stored
                        /\ [e EXCEPT !.got[op.by] = op.to].id = e.id
  BY <1>1 DEF Stored
<1>5. /\ w = [i \in DOMAIN r |-> w[i]]
      /\ \A i \in DOMAIN r : w[i] \in Stored /\ w[i].id = r[i].id
  BY <1>2, <1>3, <1>4
<1>6. w \in Seq(Stored) /\ Ids(w) = Ids(r) /\ Once(w)
  BY <1>5, MappedRow
<1>7. \A f \in Items(w) : Becomes(op, r, f)
  BY <1>2 DEF Items, Becomes
<1> QED BY <1>6, <1>7 DEF Made

\* ... mergeMessages ...
LEMMA MergedRow ==
    ASSUME NEW op \in Op, op.do = "merge", Once(op.rows), NEW r \in Seq(Stored), Once(r),
           NEW w, w = mergeMessages(r, op.rows)
    PROVE  Made(op, r, w)
<1>1. op.rows \in Seq(Stored)
  BY OpShape
<1>2. CASE r = <<>>
  <2>1. w = op.rows
    BY <1>2 DEF mergeMessages
  <2>2. Ids(r) = {}
    BY <1>2 DEF Ids
  <2> QED BY <1>1, <2>1, <2>2 DEF Made, Becomes
<1>3. CASE r # <<>>
  <2>1. PICK x : x = Without(op.rows, Ids(r))
    OBVIOUS
  <2>2. Within(x, op.rows) /\ \A e \in Items(x) : e.id \notin Ids(r)
    BY <1>1, <2>1, WithoutRow
  <2>3. PICK q : q = r \o x
    OBVIOUS
  <2>4. q \in Seq(Stored) /\ Items(q) = Items(r) \cup Items(x) /\ Once(q)
    BY <2>2, <2>3, JoinedRows DEF Within
  <2>5. w = ById(q)
    BY <1>3, <2>1, <2>3 DEF mergeMessages
  <2>6. Within(w, q) /\ Items(w) = Items(q)
    BY <2>4, <2>5, ByIdRow
  <2>7. Ids(r) \subseteq Ids(w)
    BY <2>4, <2>6, RowFacts DEF Within
  <2> QED BY <2>2, <2>4, <2>6, <2>7 DEF Made, Becomes, Within
<1> QED BY <1>2, <1>3

\* ... handleHistoryReplay ...
LEMMA ReplayedRow ==
    ASSUME NEW op \in Op, op.do = "replay", IsFiniteSet(op.ids), NEW r \in Seq(Stored), Once(r),
           NEW w, w = replayed(r, op.ids)
    PROVE  Made(op, r, w)
<1> DEFINE Restored(m) == NewMessage(m, IF m \in Outbound THEN "delivered" ELSE "read")
<1>1. PICK M : M = op.ids \ Ids(r)
  OBVIOUS
<1>2. PICK S : S = {Restored(m) : m \in M}
  OBVIOUS
<1>3. \A m \in Msg, s \in Status : NewMessage(m, s) \in Stored /\ NewMessage(m, s).id = m
  BY DEF NewMessage, Stored
<1>4. M \subseteq Msg
  BY <1>1, OpShape
<1>5. \A m \in M : Restored(m) \in Stored /\ Restored(m).id = m
  BY <1>3, <1>4 DEF Status
<1>6. S \in SUBSET Stored /\ \A e, f \in S : e.id = f.id => e = f
  BY <1>2, <1>5
<1>7. IsFiniteSet(S)
  <2>1. IsFiniteSet(M)
    BY <1>1, FS_Difference
  <2>2. PICK g : g = [m \in M |-> Restored(m)]
    OBVIOUS
  <2>3. g \in Surjection(M, S)
    BY <1>2, <2>2 DEF Surjection
  <2> QED BY <2>1, <2>3, FS_Surjection
<1>8. \A f \in S : op.do = "replay" /\ f.id \in op.ids \ Ids(r) /\ f = Restored(f.id)
  BY <1>1, <1>2, <1>5
<1>9. PICK x : x = SetToSeq(S)
  OBVIOUS
<1>10. x \in Seq(Stored) /\ Items(x) = S /\ Once(x)
  BY <1>6, <1>7, <1>9, SetRow
<1>11. w = IF x = <<>> THEN r ELSE ById(r \o x)
  BY <1>1, <1>2, <1>9 DEF replayed
<1>12. CASE x = <<>>
  BY <1>11, <1>12 DEF Made, Becomes
<1>13. CASE x # <<>>
  <2>1. PICK q : q = r \o x
    OBVIOUS
  <2>2. \A e \in Items(x) : e.id \notin Ids(r)
    BY <1>8, <1>10
  <2>3. q \in Seq(Stored) /\ Items(q) = Items(r) \cup S /\ Once(q)
    BY <1>10, <2>1, <2>2, JoinedRows
  <2>4. w = ById(q)
    BY <1>11, <1>13, <2>1
  <2>5. Within(w, q) /\ Items(w) = Items(q)
    BY <2>3, <2>4, ByIdRow
  <2>6. Ids(r) \subseteq Ids(w)
    BY <2>3, <2>5, RowFacts DEF Within
  <2>7. \A f \in Items(w) : Becomes(op, r, f)
    BY <1>8, <2>3, <2>5 DEF Becomes
  <2> QED BY <2>3, <2>5, <2>6, <2>7 DEF Made, Within
<1> QED BY <1>12, <1>13

\* ... and so any of them.
LEMMA AppliedRow ==
    ASSUME NEW op \in Op, NEW r \in Seq(Stored), Once(r),
           op.do = "merge" => Once(op.rows),
           op.do = "replay" => IsFiniteSet(op.ids),
           NEW w, w = Apply(op, r)
    PROVE  Made(op, r, w)
<1>1. CASE op.do = "save"
  BY <1>1, SavedRow DEF Apply
<1>2. CASE op.do = "remove"
  <2>1. w = Without(r, {op.id})
    BY <1>2 DEF Apply, removeMessage
  <2>2. Within(w, r)
    BY <2>1, WithoutRow
  <2> QED BY <1>2, <2>2 DEF Made, Becomes, Within
<1>3. CASE op.do = "status"
  BY <1>3, StatusRow DEF Apply
<1>4. CASE op.do = "receipt"
  BY <1>4, ReceiptRow DEF Apply
<1>5. CASE op.do = "merge"
  BY <1>5, MergedRow DEF Apply
<1>6. CASE op.do = "replay"
  BY <1>6, ReplayedRow DEF Apply
<1> QED BY <1>1, <1>2, <1>3, <1>4, <1>5, <1>6, OpShape

\* Nothing comes into a row but by the operation.
LEMMA MadeIds ==
    ASSUME NEW op \in Op, NEW r \in Seq(Stored), NEW w, Made(op, r, w)
    PROVE  Ids(w) \subseteq Ids(r) \cup Brings(op)
<1> SUFFICES ASSUME NEW f \in Items(w) PROVE f.id \in Ids(r) \cup Brings(op)
  BY RowFacts DEF Made
<1>1. \A e \in Items(r) : e.id \in Ids(r) /\ e \in Stored
  BY RowFacts
<1>2. Becomes(op, r, f)
  BY DEF Made
<1>3. CASE op.do = "status" /\ \E e \in Items(r) : e.id = op.id /\ f = [e EXCEPT !.status = op.to]
  BY <1>1, <1>3 DEF Stored
<1>4. CASE op.do = "receipt" /\ \E e \in Items(r) :
              e.id = op.id /\ e.got[op.by] # "read" /\ f = [e EXCEPT !.got[op.by] = op.to]
  BY <1>1, <1>4 DEF Stored
<1>5. CASE op.do = "merge" /\ f \in Items(op.rows)
  <2>1. f.id \in Ids(op.rows)
    BY <1>5, RowFacts, OpShape
  <2> QED BY <1>5, <2>1 DEF Brings
<1>6. CASE f \in Items(r) \/ (op.do = "save" /\ f = op.msg) \/ (op.do = "replay" /\ f.id \in op.ids)
  BY <1>1, <1>6 DEF Brings
<1> QED BY <1>2, <1>3, <1>4, <1>5, <1>6 DEF Becomes

-----------------------------------------------------------------------------
(* The invariant *)

\* The rows the conversation has or may get: stored, read, archived, or about to
\* be written or merged.
Held ==
    {row} \cup Items(snap) \cup Items(backup) \cup Items(pulled) \cup Items(purge)
          \cup {op.rows : op \in {o \in Items(queue) : o.do = "merge"}}

\* What an entry says was reported, by a peer or by the user.
SaysTruth(e) ==
    /\ \A p \in Member : e.got[p] # "none" =>
          group /\ e.id \in Outbound \cap wire /\ <<e.id, p, e.got[p]>> \in reported
    /\ e.id \in Outbound /\ e.status # "sent" =>
          \E p \in Member : <<e.id, p, e.status>> \in reported
    /\ e.id \in Inbound /\ e.status = "read" => e.id \in readHere

\* So will what an operation is to write.
Founded(op) ==
    /\ op.do = "save" =>
          \/ op.msg.id \in Inbound /\ op.msg = NewMessage(op.msg.id, "delivered")
          \/ op.msg.id \in Outbound \ (saved \cup failed) /\ op.msg = NewMessage(op.msg.id, "sent")
    /\ op.do = "status" =>
          \/ op.id \in Outbound /\ \E p \in Member : <<op.id, p, op.to>> \in reported
          \/ op.id \in Inbound \cap readHere /\ op.to = "read"
    /\ op.do = "receipt" => group /\ op.id \in wire /\ <<op.id, op.by, op.to>> \in reported
    /\ op.do = "replay" =>
          /\ IsFiniteSet(op.ids)
          /\ \A m \in op.ids \cap Outbound : \E p \in Member : <<m, p, "delivered">> \in reported

RowsTrue == \A r \in Held : Once(r) /\ \A e \in Items(r) : SaysTruth(e)
OpsTrue  == \A op \in Items(queue) : Founded(op)

\* A message that was sent waits to be saved at most once, and a group's is on the
\* wire only when it was saved.
SavedFirst ==
    /\ \A i, j \in DOMAIN queue :
          /\ queue[i].do = "save" /\ queue[j].do = "save"
          /\ queue[i].msg.id = queue[j].msg.id /\ queue[i].msg.id \in Outbound
          => i = j
    /\ group => wire \subseteq saved

\* Reports come to the device that sent the message.
SenderIsTold == \A x \in reports : x[1] \in wire

\* Only finitely many messages are known at a time.
FewKnown == IsFiniteSet({m \in Inbound : copies[m] > 0}) /\ IsFiniteSet(reported)

\* What a purge is to write is part of what it read.
PurgeSound == purge # <<>> => Items(purge[2]) \subseteq Items(purge[1])

\* Who has read holds the mutex.
ReaderHolds == snap # <<>> => queue # <<>>

StoreInv ==
    /\ TypeOK /\ HolderIsCurrent /\ RowsTrue /\ OpsTrue /\ SavedFirst /\ FewKnown /\ SenderIsTold
    /\ PurgeSound /\ ReaderHolds /\ Accounted

\* Who was shown a message remembers its id, but for the two ways to forget it.
ShownIsSeen ==
    \A m \in Inbound : notified[m] > 0 => m \in seen \cup aged \cup lostSeen

\* A pull that sees a tombstone, and an archive that has it, come after it.
Buried == (buried \/ pulling = "dead") => tomb \in {"recorded", "erased"}

\* After the row was wiped, nothing is about to bring a message but what counts as
\* returning.
OnlyReturning ==
    tomb # "no" =>
        /\ Ids(row) \subseteq returning
        /\ \A op \in Items(queue) : Brings(op) \subseteq returning
        /\ snap # <<>> => Ids(snap[1]) \subseteq returning
        /\ purge # <<>> => Ids(purge[2]) \subseteq returning

-----------------------------------------------------------------------------
(* Steps *)

\* The items of a sequence when it grows and when its head leaves.
LEMMA ItemsOf ==
    ASSUME NEW S, NEW s \in Seq(S)
    PROVE  /\ Items(s) \subseteq S
           /\ \A e \in S : Append(s, e) \in Seq(S) /\ Items(Append(s, e)) = Items(s) \cup {e}
           /\ s # <<>> => /\ Head(s) \in Items(s) /\ Head(s) \in S
                          /\ Tail(s) \in Seq(S) /\ Items(Tail(s)) \subseteq Items(s)
<1>1. Len(s) \in Nat /\ DOMAIN s = 1..Len(s) /\ \A i \in 1..Len(s) : s[i] \in S
  OBVIOUS
<1>2. Items(s) \subseteq S
  BY <1>1 DEF Items
<1>3. ASSUME NEW e \in S PROVE Append(s, e) \in Seq(S) /\ Items(Append(s, e)) = Items(s) \cup {e}
  <2>1. PICK q : q = Append(s, e)
    OBVIOUS
  <2>2. /\ q \in Seq(S) /\ DOMAIN q = 1..(Len(s) + 1) /\ q[Len(s) + 1] = e
        /\ \A i \in 1..Len(s) : q[i] = s[i]
    BY <2>1
  <2>3. \A i \in 1..(Len(s) + 1) : i = Len(s) + 1 \/ i \in 1..Len(s)
    BY <1>1
  <2>4. Len(s) + 1 \in 1..(Len(s) + 1) /\ \A i \in 1..Len(s) : i \in 1..(Len(s) + 1)
    BY <1>1
  <2>5. Items(q) \subseteq Items(s) \cup {e}
    BY <1>1, <2>2, <2>3 DEF Items
  <2>6. Items(s) \cup {e} \subseteq Items(q)
    <3> SUFFICES ASSUME NEW x \in Items(s) \cup {e} PROVE \E i \in DOMAIN q : x = q[i]
      BY DEF Items
    <3>1. CASE x = e
      BY <2>2, <2>4, <3>1
    <3>2. CASE x \in Items(s)
      <4>1. PICK i \in 1..Len(s) : x = s[i]
        BY <1>1, <3>2 DEF Items
      <4> QED BY <2>2, <2>4, <4>1
    <3> QED BY <3>1, <3>2
  <2> QED BY <2>1, <2>2, <2>5, <2>6
<1>4. ASSUME s # <<>>
      PROVE  /\ Head(s) \in Items(s) /\ Head(s) \in S
             /\ Tail(s) \in Seq(S) /\ Items(Tail(s)) \subseteq Items(s)
  <2>1. 1 \in DOMAIN s /\ Head(s) = s[1] /\ Tail(s) \in Seq(S)
    BY <1>4
  <2>2. \A i \in DOMAIN Tail(s) : i + 1 \in DOMAIN s /\ Tail(s)[i] = s[i + 1]
    BY <1>4
  <2>3. Head(s) \in Items(s)
    BY <2>1 DEF Items
  <2>4. Items(Tail(s)) \subseteq Items(s)
    BY <2>2 DEF Items
  <2> QED BY <1>2, <2>1, <2>3, <2>4
<1> QED BY <1>2, <1>3, <1>4

\* The items of short sequences.
LEMMA ShortItems ==
    /\ Items(<<>>) = {}
    /\ \A x : Items(<<x>>) = {x}
    /\ \A x, y : Items(<<x, y>>) = {x, y}
<1>1. Items(<<>>) = {}
  BY DEF Items
<1>2. ASSUME NEW x PROVE Items(<<x>>) = {x}
  <2>1. PICK s : s = <<x>> OBVIOUS
  <2>2. DOMAIN s = {1} /\ s[1] = x BY <2>1
  <2> QED BY <2>1, <2>2 DEF Items
<1>3. ASSUME NEW x, NEW y PROVE Items(<<x, y>>) = {x, y}
  <2>1. PICK s : s = <<x, y>> OBVIOUS
  <2>2. DOMAIN s = {1, 2} /\ s[1] = x /\ s[2] = y BY <2>1
  <2> QED BY <2>1, <2>2 DEF Items
<1> QED BY <1>1, <1>2, <1>3

\* run(op) adds the operation.
LEMMA RunStep ==
    ASSUME TypeOK, NEW op \in Op, run(op)
    PROVE  queue' \in Seq(Op) /\ submitted' \in Nat /\ Items(queue') = Items(queue) \cup {op}
BY ItemsOf DEF TypeOK, run

\* Release takes the first.
LEMMA ReleaseStep ==
    ASSUME TypeOK, queue # <<>>, Release
    PROVE  /\ queue' \in Seq(Op) /\ submitted' = submitted /\ snap' = <<>>
           /\ Items(queue') \subseteq Items(queue)
           /\ Head(queue) \in Items(queue) /\ Head(queue) \in Op
BY ItemsOf DEF TypeOK, Release

\* What the head of the queue makes of the row it has read.
LEMMA HeadMakes ==
    ASSUME StoreInv, snap # <<>>
    PROVE  /\ queue # <<>> /\ Head(queue) \in Op /\ Head(queue) \in Items(queue)
           /\ Founded(Head(queue))
           /\ snap[1] \in Held /\ snap[1] \in Seq(Stored) /\ Once(snap[1])
           /\ Made(Head(queue), snap[1], Apply(Head(queue), snap[1]))
<1>1. queue # <<>> /\ queue \in Seq(Op) /\ snap \in Seq(Seq(Stored))
  BY DEF StoreInv, ReaderHolds, TypeOK
<1>2. Head(queue) \in Op /\ Head(queue) \in Items(queue)
  BY <1>1, ItemsOf
<1>3. 1 \in DOMAIN snap /\ snap[1] \in Seq(Stored)
  BY <1>1
<1>4. snap[1] \in Held
  BY <1>3 DEF Held, Items
<1>5. Founded(Head(queue)) /\ Once(snap[1])
  BY <1>2, <1>4 DEF StoreInv, OpsTrue, RowsTrue
<1>6. Head(queue).do = "merge" => Once(Head(queue).rows)
  BY <1>2 DEF StoreInv, RowsTrue, Held
<1>7. Head(queue).do = "replay" => IsFiniteSet(Head(queue).ids)
  BY <1>5 DEF Founded
<1> QED BY <1>1, <1>2, <1>3, <1>4, <1>5, <1>6, <1>7, AppliedRow

\* Every step keeps the types.
LEMMA TypeStep == StoreInv /\ [Next]_vars => TypeOK'
<1> SUFFICES ASSUME StoreInv, [Next]_vars PROVE TypeOK'
  OBVIOUS
<1> USE DEF store, archive, waiting, ids, world, account, history
<1>0. TypeOK
  BY DEF StoreInv
<1>1. CASE LockedGet
  <2>1. snap' = <<row>> /\ tainted' = FALSE
        /\ UNCHANGED <<group, row, waiting, pulling, pulled, purge, tomb, archive, ids, world,
                   saved, gone, clobbered, failed, notified, lostSeen, readHere, returning>>
    BY <1>1 DEF LockedGet
  <2>2. snap' \in Seq(Seq(Stored)) /\ Len(snap') <= 1
    BY <1>0, <2>1 DEF TypeOK
  <2> QED BY <1>0, <2>1, <2>2 DEF TypeOK
<1>2. CASE LockedSet
  <2>1. PICK op : op = Head(queue)
    OBVIOUS
  <2>2. PICK r : r = snap[1]
    OBVIOUS
  <2>3. /\ Made(op, r, Apply(op, r)) /\ op \in Op /\ queue # <<>> /\ r \in Seq(Stored)
    BY <1>2, <2>1, <2>2, HeadMakes DEF LockedSet
  <2>4. /\ row' = IF Sets(op, r) THEN Apply(op, r) ELSE row
        /\ saved' = IF op.do = "save" THEN saved \cup {op.msg.id} ELSE saved
        /\ gone' = gone \cup Drops(op, r)
        /\ clobbered' = IF tainted /\ Sets(op, r)
                        THEN clobbered \cup (Ids(row) \ Ids(r)) ELSE clobbered
        /\ wire' = IF op.do = "save" /\ group /\ op.msg.id \in Outbound \ mirrored
                   THEN wire \cup {op.msg.id} ELSE wire
        /\ pulling' = IF op.do = "merge" THEN "purge" ELSE pulling
        /\ readHere' = IF op.do = "replay" THEN readHere \cup (op.ids \cap Inbound) ELSE readHere
        /\ UNCHANGED <<group, pulled, purge, tomb, archive, ids,
                   aged, copies, mirrored, reported, reports, pushes, restarts, failures,
                   tainted, failed, notified, lostSeen, returning>>
    BY <1>2, <2>1, <2>2 DEF LockedSet
  <2>5. queue' \in Seq(Op) /\ submitted' = submitted /\ snap' = <<>>
    BY <1>0, <1>2, <2>3, ReleaseStep DEF LockedSet
  <2>6. row' \in Seq(Stored)
    BY <1>0, <2>3, <2>4 DEF Made, TypeOK
  <2>7. saved' \subseteq Msg /\ wire' \subseteq Outbound /\ readHere' \subseteq Inbound
    BY <1>0, <2>3, <2>4, OpShape DEF TypeOK, Stored
  <2>8. gone' \subseteq Msg /\ clobbered' \subseteq Msg
    BY <1>0, <2>3, <2>4, RowFacts DEF TypeOK, Drops
  <2>9. pulling' \in {pulling, "purge"} /\ snap' \in Seq(Seq(Stored)) /\ Len(snap') <= 1
    BY <1>0, <2>4, <2>5 DEF TypeOK
  <2> QED BY <1>0, <2>4, <2>5, <2>6, <2>7, <2>8, <2>9 DEF TypeOK
<1>3. CASE LockedFail
  <2>1. Release /\ queue # <<>>
    BY <1>3 DEF LockedFail
  <2>2. queue' \in Seq(Op) /\ submitted' = submitted /\ snap' = <<>> /\ Head(queue) \in Op
    BY <1>0, <2>1, ReleaseStep
  <2>3. failed' \subseteq Msg /\ pulling' \in {pulling, "no"} /\ failures' \in Nat
    <3>1. Brings(Head(queue)) \subseteq Msg \/ Head(queue).do # "save"
      BY <2>2, OpShape DEF Brings, Stored
    <3> QED BY <1>0, <1>3, <3>1 DEF LockedFail, TypeOK
  <2>4. snap' \in Seq(Seq(Stored)) /\ Len(snap') <= 1
    BY <2>2
  <2>5. UNCHANGED <<group, row, pulled, purge, tomb, archive, ids,
                   aged, copies, wire, mirrored, reported, reports, pushes, restarts,
                   tainted, saved, gone, clobbered, notified, lostSeen, readHere, returning>>
    BY <1>3 DEF LockedFail
  <2> QED BY <1>0, <2>2, <2>3, <2>4, <2>5 DEF TypeOK
<1>4. CASE PurgeGet
  <2>1. purge' = <<row, Purged(row)>>
        /\ UNCHANGED <<group, row, waiting, snap, pulling, pulled, tomb, archive, ids, world, history>>
    BY <1>4 DEF PurgeGet
  <2>2. row \in Seq(Stored) /\ Purged(row) \in Seq(Stored)
    BY <1>0, PurgedRow DEF TypeOK, Within
  <2>3. purge' \in Seq(Seq(Stored)) /\ Len(purge') \in {0, 2}
    BY <2>1, <2>2
  <2> QED BY <1>0, <2>1, <2>3 DEF TypeOK
<1>5. CASE PurgeSet
  <2>1. /\ purge # <<>> /\ purge' = <<>> /\ pulling' = "no"
        /\ row' = purge[2] \/ row' = row
        /\ tainted' \in {tainted, TRUE}
        /\ gone' \subseteq gone \cup Ids(purge[1])
        /\ clobbered' \subseteq clobbered \cup Ids(row)
        /\ UNCHANGED <<group, waiting, snap, pulled, tomb, archive, ids, world,
                   saved, failed, notified, lostSeen, readHere, returning>>
    BY <1>5 DEF PurgeSet
  <2>2. Len(purge) = 2 /\ purge[1] \in Seq(Stored) /\ purge[2] \in Seq(Stored)
    BY <1>0, <2>1 DEF TypeOK
  <2>3. Ids(purge[1]) \subseteq Msg /\ Ids(row) \subseteq Msg
    BY <1>0, <2>2, RowFacts DEF TypeOK
  <2>4. row' \in Seq(Stored) /\ gone' \subseteq Msg /\ clobbered' \subseteq Msg
        /\ purge' \in Seq(Seq(Stored)) /\ Len(purge') \in {0, 2}
    BY <1>0, <2>1, <2>2, <2>3 DEF TypeOK
  <2> QED BY <1>0, <2>1, <2>4 DEF TypeOK
<1>6. CASE Wipe
  <2>1. /\ tomb' = "wiped" /\ row' = <<>> /\ tainted' = TRUE /\ gone' = gone \cup Ids(row)
        /\ returning' = UnderWay
        /\ UNCHANGED <<group, waiting, snap, pulling, pulled, purge, archive, ids, world,
                   saved, clobbered, failed, notified, lostSeen, readHere>>
    BY <1>6 DEF Wipe
  <2>2. Ids(row) \subseteq Msg
    BY <1>0, RowFacts DEF TypeOK
  <2>3. returning' \subseteq Msg
    BY <2>1 DEF UnderWay
  <2>4. gone' \subseteq Msg /\ row' \in Seq(Stored)
    BY <1>0, <2>1, <2>2 DEF TypeOK
  <2> QED BY <1>0, <2>1, <2>3, <2>4 DEF TypeOK
<1>7. CASE recordTombstone
  BY <1>0, <1>7 DEF recordTombstone, TypeOK
<1>8. CASE persistSeenIds
  BY <1>0, <1>8 DEF persistSeenIds, TypeOK
<1>9. CASE pushArchive
  <2>1. /\ backup' = <<row>> /\ buried' \in BOOLEAN /\ pushes' = pushes + 1
        /\ UNCHANGED <<group, store, ids, aged, copies, wire, mirrored, reported, reports,
                   restarts, failures, history>>
    BY <1>9 DEF pushArchive
  <2>2. backup' \in Seq(Seq(Stored)) /\ Len(backup') <= 1 /\ pushes' \in Nat
    BY <1>0, <2>1 DEF TypeOK
  <2> QED BY <1>0, <2>1, <2>2 DEF TypeOK
<1>10. CASE importArchive
  <2>1. /\ backup # <<>> /\ pulled' = backup /\ pulling' \in {"free", "dead"}
        /\ UNCHANGED <<group, row, waiting, snap, purge, tomb, archive, ids, world, history>>
    BY <1>10 DEF importArchive
  <2>2. pulled' \in Seq(Seq(Stored)) /\ Len(pulled') <= 1 /\ pulled' # <<>>
    BY <1>0, <2>1 DEF TypeOK
  <2> QED BY <1>0, <2>1, <2>2 DEF TypeOK
<1>22. CASE mergeTombstones
  <2>1. PICK op : op = [do |-> "merge", rows |-> pulled[1]]
    OBVIOUS
  <2>2. pulled # <<>> /\ pulled[1] \in Seq(Stored)
    BY <1>0, <1>22 DEF mergeTombstones, TypeOK
  <2>3. op \in Op
    BY <2>1, <2>2 DEF Op
  <2>4. Ids(pulled[1]) \subseteq Msg
    BY <2>2, RowFacts
  <2>5. /\ pulling' \in {"purge", "merge"} /\ pulled' = <<>>
        /\ tomb' \in {tomb, "recorded", "erased"}
        /\ run(op) \/ UNCHANGED waiting
        /\ returning' \subseteq returning \cup Ids(pulled[1])
        /\ UNCHANGED <<group, row, snap, purge, archive, ids, world,
                   account, notified, lostSeen, readHere>>
    BY <1>22, <2>1 DEF mergeTombstones, Returns
  <2>6. queue' \in Seq(Op) /\ submitted' \in Nat
    BY <1>0, <2>3, <2>5, RunStep DEF TypeOK
  <2>7. pulled' \in Seq(Seq(Stored)) /\ Len(pulled') <= 1
    BY <2>5
  <2> QED BY <1>0, <2>4, <2>5, <2>6, <2>7 DEF TypeOK
<1>11. CASE handleHistoryReplay
  <2>1. PICK known : known = {m \in Inbound : copies[m] > 0}
                      \cup {m \in Outbound : \E p \in Member : <<m, p, "delivered">> \in reported}
    OBVIOUS
  <2>2. PICK op : op = [do |-> "replay", ids |-> known]
    OBVIOUS
  <2>3. op \in Op
    BY <2>1, <2>2 DEF Op, Msg
  <2>4. run(op) /\ returning' \subseteq returning \cup known
        /\ UNCHANGED <<group, row, snap, pulling, pulled, purge, tomb, archive, ids, world,
                   account, notified, lostSeen, readHere>>
    BY <1>11, <2>1, <2>2 DEF handleHistoryReplay, OnlyRuns, Returns
  <2>5. queue' \in Seq(Op) /\ submitted' \in Nat
    BY <1>0, <2>3, <2>4, RunStep
  <2>6. returning' \subseteq Msg
    BY <1>0, <2>1, <2>4 DEF TypeOK, Msg
  <2> QED BY <1>0, <2>4, <2>5, <2>6 DEF TypeOK
<1>12. ASSUME NEW m \in Inbound, Receive(m) PROVE TypeOK'
  <2>1. PICK op : op = [do |-> "save", msg |-> NewMessage(m, "delivered")]
    OBVIOUS
  <2>2. op \in Op
    BY <2>1 DEF Op, NewMessage, Stored, Msg, Status
  <2>3. /\ copies' = [copies EXCEPT ![m] = @ + 1]
        /\ seen' = (seen \cup {m}) \ aged
        /\ \/ UNCHANGED <<waiting, notified>>
           \/ run(op) /\ notified' = [notified EXCEPT ![m] = @ + 1]
        /\ returning' \subseteq returning \cup {m}
        /\ UNCHANGED <<group, row, snap, pulling, pulled, purge, tomb, archive, seenDisk,
                   aged, wire, mirrored, reported, reports, pushes, restarts, failures,
                   account, lostSeen, readHere>>
    BY <1>12, <2>1 DEF Receive, Returns
  <2>4. copies' \in [Inbound -> Nat] /\ notified' \in [Inbound -> Nat] /\ seen' \subseteq Inbound
    <3>1. copies' \in [Inbound -> Nat] /\ seen' \subseteq Inbound
      BY <1>0, <2>3 DEF TypeOK
    <3>2. notified \in [Inbound -> Nat] /\ notified' \in {notified, [notified EXCEPT ![m] = @ + 1]}
      BY <1>0, <2>3 DEF TypeOK
    <3> QED BY <3>1, <3>2
  <2>6. returning' \subseteq Msg
    BY <1>0, <2>3 DEF TypeOK, Msg
  <2>5. queue' \in Seq(Op) /\ submitted' \in Nat
    BY <1>0, <2>2, <2>3, RunStep DEF TypeOK
  <2> QED BY <1>0, <2>3, <2>4, <2>5, <2>6 DEF TypeOK
<1>13. ASSUME NEW m \in Inbound, markRead(m) PROVE TypeOK'
  <2>1. PICK op : op = [do |-> "status", id |-> m, to |-> "read"]
    OBVIOUS
  <2>2. op \in Op
    BY <2>1 DEF Op, Msg
  <2>3. run(op) /\ readHere' = readHere \cup {m}
        /\ UNCHANGED <<group, row, snap, pulling, pulled, purge, tomb, archive, ids, world,
                   account, notified, lostSeen, returning>>
    BY <1>13, <2>1 DEF markRead
  <2>4. queue' \in Seq(Op) /\ submitted' \in Nat
    BY <1>0, <2>2, <2>3, RunStep
  <2> QED BY <1>0, <2>3, <2>4 DEF TypeOK
<1>14. ASSUME NEW m \in Outbound, sendMessage(m) PROVE TypeOK'
  BY <1>0, <1>14 DEF sendMessage, TypeOK
<1>15. ASSUME NEW m \in Outbound, sendMessageSaves(m) \/ sendToGroup(m) \/ syncSend(m)
       PROVE  TypeOK'
  <2>1. PICK op : op = [do |-> "save", msg |-> NewMessage(m, "sent")]
    OBVIOUS
  <2>2. op \in Op
    BY <2>1 DEF Op, NewMessage, Stored, Msg, Status
  <2>3. run(op) /\ mirrored' \subseteq mirrored \cup {m} /\ returning' \subseteq returning \cup {m}
        /\ UNCHANGED <<group, row, snap, pulling, pulled, purge, tomb, archive, ids,
                   aged, copies, wire, reported, reports, pushes, restarts, failures,
                   account, notified, lostSeen, readHere>>
    BY <1>15, <2>1 DEF sendMessageSaves, sendToGroup, syncSend, OnlyRuns, Returns
  <2>4. queue' \in Seq(Op) /\ submitted' \in Nat
    BY <1>0, <2>2, <2>3, RunStep
  <2>5. mirrored' \subseteq Outbound /\ returning' \subseteq Msg
    BY <1>0, <2>3 DEF TypeOK, Msg
  <2> QED BY <1>0, <2>3, <2>4, <2>5 DEF TypeOK
<1>16. ASSUME NEW m \in Outbound, NEW p \in Member, NEW what \in {"delivered", "read"},
              MemberReports(m, p, what)
       PROVE  TypeOK'
  <2>1. <<m, p, what>> \in Report
    BY DEF Report
  <2>2. reported' = reported \cup {<<m, p, what>>} /\ reports' \subseteq reports \cup {<<m, p, what>>}
        /\ UNCHANGED <<group, store, archive, ids, aged, copies, wire, mirrored,
                   pushes, restarts, failures, history>>
    BY <1>16 DEF MemberReports
  <2> QED BY <1>0, <2>1, <2>2 DEF TypeOK
<1>17. ASSUME NEW m \in Outbound, NEW p \in Member, NEW what \in {"delivered", "read"},
              ReportArrives(m, p, what)
       PROVE  TypeOK'
  <2>1. PICK op : op = IF group THEN [do |-> "receipt", id |-> m, by |-> p, to |-> what]
                                ELSE [do |-> "status", id |-> m, to |-> what]
    OBVIOUS
  <2>2. op \in Op
    BY <2>1 DEF Op, Msg
  <2>3. run(op) /\ reports' = reports \ {<<m, p, what>>}
        /\ UNCHANGED <<group, row, snap, pulling, pulled, purge, tomb, archive, ids,
                   aged, copies, wire, mirrored, reported, pushes, restarts, failures, history>>
    BY <1>17, <2>1 DEF ReportArrives
  <2>4. queue' \in Seq(Op) /\ submitted' \in Nat
    BY <1>0, <2>2, <2>3, RunStep
  <2> QED BY <1>0, <2>3, <2>4 DEF TypeOK
<1>18. ASSUME NEW m \in Msg, deleteMessage(m) PROVE TypeOK'
  <2>1. PICK op : op = [do |-> "remove", id |-> m]
    OBVIOUS
  <2>2. op \in Op
    BY <2>1 DEF Op
  <2>3. run(op)
        /\ UNCHANGED <<group, row, snap, pulling, pulled, purge, tomb, archive, ids, world, history>>
    BY <1>18, <2>1 DEF deleteMessage
  <2>4. queue' \in Seq(Op) /\ submitted' \in Nat
    BY <1>0, <2>2, <2>3, RunStep
  <2> QED BY <1>0, <2>3, <2>4 DEF TypeOK
<1>19. ASSUME NEW m \in Inbound \cup Expiring, Age(m) PROVE TypeOK'
  <2>1. m \in Msg
    BY ConstantsAssumption DEF Msg
  <2> QED BY <1>0, <1>19, <2>1 DEF Age, TypeOK
<1>20. ASSUME NEW orderly \in BOOLEAN, Restart(orderly) PROVE TypeOK'
  <2>1. /\ restarts' = restarts + 1 /\ queue' = <<>> /\ snap' = <<>> /\ submitted' = submitted
        /\ purge' = <<>> /\ pulling' = "no" /\ pulled' = <<>> /\ tomb' = IF tomb = "wiped" THEN "no" ELSE tomb
        /\ row' = Purged(row) \/ row' = row
        /\ gone' \subseteq gone \cup Ids(row)
        /\ seenDisk' \in {seen, seenDisk} /\ seen' \subseteq seenDisk'
        /\ lostSeen' \subseteq lostSeen \cup seen
        /\ UNCHANGED <<group, archive, aged, copies, wire, mirrored, reported, reports, pushes, failures,
                   tainted, saved, clobbered, failed, notified, readHere, returning>>
    BY <1>20 DEF Restart
  <2>2. row \in Seq(Stored) /\ Purged(row) \in Seq(Stored) /\ Ids(row) \subseteq Msg
    BY <1>0, PurgedRow, RowFacts DEF TypeOK, Within
  <2>3. /\ row' \in Seq(Stored) /\ queue' \in Seq(Op) /\ snap' \in Seq(Seq(Stored))
        /\ purge' \in Seq(Seq(Stored)) /\ Len(snap') <= 1 /\ Len(purge') \in {0, 2}
    BY <2>1, <2>2
  <2>4. gone' \subseteq Msg /\ {seen', seenDisk', lostSeen'} \subseteq SUBSET Inbound
    BY <1>0, <2>1, <2>2 DEF TypeOK
  <2>5. tomb' \in {"no", "wiped", "recorded", "erased"} /\ restarts' \in Nat
        /\ pulled' \in Seq(Seq(Stored)) /\ Len(pulled') <= 1
    BY <1>0, <2>1 DEF TypeOK
  <2> QED BY <1>0, <2>1, <2>3, <2>4, <2>5 DEF TypeOK
<1>21. CASE UNCHANGED vars
  BY <1>0, <1>21 DEF vars, TypeOK
<1> QED BY <1>1, <1>2, <1>3, <1>4, <1>5, <1>6, <1>7, <1>8, <1>9, <1>10, <1>11, <1>12, <1>13,
           <1>14, <1>15, <1>16, <1>17, <1>18, <1>19, <1>20, <1>21, <1>22 DEF Next, Mutex

\* What op is when it joins the queue.
Submitted(op) ==
    /\ run(op) /\ Founded(op)' /\ op.do # "merge"
    /\ op.do = "save" /\ op.msg.id \in Outbound => ~Waiting(op.msg.id)
    /\ tomb # "no" => Brings(op) \subseteq returning'

\* What most actions change: what the world reported, and one more operation.
Framed ==
    /\ UNCHANGED <<group, row, snap, pulling, pulled, purge, archive, account>>
    /\ reported \subseteq reported' /\ readHere \subseteq readHere' /\ returning \subseteq returning'
    /\ wire \subseteq wire' /\ (group => wire' = wire)
    /\ tomb' = tomb \/ (tomb = "wiped" /\ tomb' = "recorded")
    /\ queue' = queue \/ \E op \in Op : Submitted(op)

Noisy ==
    \/ Mutex \/ PurgeGet \/ PurgeSet \/ Wipe \/ pushArchive \/ importArchive \/ mergeTombstones
    \/ \E orderly \in BOOLEAN : Restart(orderly)

\* The ids of a replay are finitely many.
LEMMA KnownFinite ==
    ASSUME FewKnown
    PROVE  IsFiniteSet({m \in Inbound : copies[m] > 0}
              \cup {m \in Outbound : \E p \in Member : <<m, p, "delivered">> \in reported})
<1>1. PICK A : A = {m \in Inbound : copies[m] > 0}
  OBVIOUS
<1>2. PICK B : B = {m \in Outbound : \E p \in Member : <<m, p, "delivered">> \in reported}
  OBVIOUS
<1>3. PICK D : D = {x \in reported : x[1] \in B}
  OBVIOUS
<1>4. IsFiniteSet(A) /\ IsFiniteSet(D)
  BY <1>1, <1>3, FS_Subset DEF FewKnown
<1>5. PICK g : g = [x \in D |-> x[1]]
  OBVIOUS
<1>6. \A m \in B : \E x \in D : x[1] = m
  <2> SUFFICES ASSUME NEW m \in B PROVE \E x \in D : x[1] = m
    OBVIOUS
  <2>1. PICK p \in Member : <<m, p, "delivered">> \in reported
    BY <1>2
  <2>2. <<m, p, "delivered">>[1] = m
    OBVIOUS
  <2> QED BY <1>3, <2>1, <2>2
<1>7. g \in Surjection(D, B)
  BY <1>3, <1>5, <1>6 DEF Surjection
<1>8. IsFiniteSet(B)
  BY <1>4, <1>7, FS_Surjection
<1>9. IsFiniteSet(A \cup B)
  BY <1>4, <1>8, FS_Union
<1> QED BY <1>1, <1>2, <1>9

\* Every step is noisy or framed.
LEMMA QuietSteps ==
    ASSUME StoreInv, [Next]_vars
    PROVE  Noisy \/ Framed
<1> USE DEF store, archive, waiting, ids, world, account, history
<1>0. TypeOK
  BY DEF StoreInv
<1>1. ASSUME recordTombstone \/ persistSeenIds PROVE Framed
  BY <1>1 DEF recordTombstone, persistSeenIds, Framed
<1>2. ASSUME handleHistoryReplay PROVE Framed
  <2>1. PICK known : known = {m \in Inbound : copies[m] > 0}
                      \cup {m \in Outbound : \E p \in Member : <<m, p, "delivered">> \in reported}
    OBVIOUS
  <2>2. PICK op : op = [do |-> "replay", ids |-> known]
    OBVIOUS
  <2>3. run(op) /\ Returns(known)
        /\ UNCHANGED <<group, row, snap, pulling, pulled, purge, tomb, archive, ids, world,
                   account, notified, lostSeen, readHere>>
    BY <1>2, <2>1, <2>2 DEF handleHistoryReplay, OnlyRuns
  <2>4. op.do = "replay" /\ op.ids = known /\ Brings(op) = known /\ op \in Op
    BY <2>1, <2>2 DEF Op, Msg, Brings
  <2>5. IsFiniteSet(known)
    BY <2>1, KnownFinite DEF StoreInv
  <2>6. \A m \in known \cap Outbound : \E p \in Member : <<m, p, "delivered">> \in reported'
    BY <2>1, <2>3, ConstantsAssumption
  <2>7. Founded(op)'
    BY <2>4, <2>5, <2>6 DEF Founded
  <2>8. Submitted(op) /\ returning \subseteq returning'
    BY <2>3, <2>4, <2>7 DEF Submitted, Returns
  <2> QED BY <2>3, <2>4, <2>8 DEF Framed
<1>3. ASSUME NEW m \in Inbound, Receive(m) PROVE Framed
  <2>1. PICK op : op = [do |-> "save", msg |-> NewMessage(m, "delivered")]
    OBVIOUS
  <2>2. /\ \/ UNCHANGED <<queue, returning>>
           \/ run(op) /\ Returns({m})
        /\ UNCHANGED <<group, row, snap, pulling, pulled, purge, tomb, archive, seenDisk,
                   aged, wire, mirrored, reported, reports, pushes, restarts, failures,
                   account, lostSeen, readHere>>
    BY <1>3, <2>1 DEF Receive
  <2>3. op.do = "save" /\ op.msg = NewMessage(m, "delivered") /\ op.msg.id = m /\ op \in Op
    BY <2>1 DEF NewMessage, Op, Stored, Msg, Status
  <2>4. Founded(op)' /\ m \notin Outbound /\ Brings(op) = {m}
    BY <2>3, ConstantsAssumption DEF Founded, Brings
  <2>5. run(op) /\ Returns({m}) => Submitted(op)
    BY <2>3, <2>4 DEF Submitted, Returns
  <2>6. returning \subseteq returning'
    BY <2>2 DEF Returns
  <2> QED BY <2>2, <2>3, <2>5, <2>6 DEF Framed
<1>4. ASSUME NEW m \in Inbound, markRead(m) PROVE Framed
  <2>1. PICK op : op = [do |-> "status", id |-> m, to |-> "read"]
    OBVIOUS
  <2>2. run(op) /\ readHere' = readHere \cup {m}
        /\ UNCHANGED <<group, row, snap, pulling, pulled, purge, tomb, archive, ids, world,
                   account, notified, lostSeen, returning>>
    BY <1>4, <2>1 DEF markRead
  <2>3. op.do = "status" /\ op.id = m /\ op.to = "read" /\ op \in Op
    BY <2>1 DEF Op, Msg
  <2>4. Founded(op)' /\ Brings(op) = {}
    BY <2>2, <2>3 DEF Founded, Brings
  <2>5. Submitted(op)
    BY <2>2, <2>3, <2>4 DEF Submitted
  <2> QED BY <2>2, <2>3, <2>5 DEF Framed
<1>5. ASSUME NEW m \in Outbound, sendMessage(m) PROVE Framed
  BY <1>5 DEF sendMessage, Framed
<1>6. ASSUME NEW m \in Outbound, sendMessageSaves(m) \/ sendToGroup(m) \/ syncSend(m) PROVE Framed
  <2>1. PICK op : op = [do |-> "save", msg |-> NewMessage(m, "sent")]
    OBVIOUS
  <2>2. /\ run(op) /\ ~Waiting(m) /\ m \notin saved \cup failed /\ Returns({m})
        /\ UNCHANGED <<group, row, snap, pulling, pulled, purge, tomb, archive, ids,
                   aged, copies, wire, reported, reports, pushes, restarts, failures,
                   account, notified, lostSeen, readHere>>
    BY <1>6, <2>1 DEF sendMessageSaves, sendToGroup, syncSend, OnlyRuns
  <2>3. op.do = "save" /\ op.msg = NewMessage(m, "sent") /\ op.msg.id = m /\ op \in Op
    BY <2>1 DEF NewMessage, Op, Stored, Msg, Status
  <2>4. Founded(op)' /\ Brings(op) = {m}
    BY <2>2, <2>3 DEF Founded, Brings
  <2>5. Submitted(op) /\ returning \subseteq returning'
    BY <2>2, <2>3, <2>4 DEF Submitted, Returns
  <2> QED BY <2>2, <2>3, <2>5 DEF Framed
<1>7. ASSUME NEW m \in Outbound, NEW p \in Member, NEW what \in {"delivered", "read"},
             MemberReports(m, p, what)
      PROVE  Framed
  <2>2. reported' = reported \cup {<<m, p, what>>}
        /\ UNCHANGED <<group, store, archive, ids, aged, copies, wire, mirrored,
                   pushes, restarts, failures, history>>
    BY <1>7 DEF MemberReports
  <2> QED BY <2>2 DEF Framed
<1>8. ASSUME NEW m \in Outbound, NEW p \in Member, NEW what \in {"delivered", "read"},
             ReportArrives(m, p, what)
      PROVE  Framed
  <2>1. PICK op : op = IF group THEN [do |-> "receipt", id |-> m, by |-> p, to |-> what]
                                ELSE [do |-> "status", id |-> m, to |-> what]
    OBVIOUS
  <2>2. /\ run(op) /\ <<m, p, what>> \in reported /\ <<m, p, what>>[1] \in wire
        /\ UNCHANGED <<group, row, snap, pulling, pulled, purge, tomb, archive, ids,
                   aged, copies, wire, mirrored, reported, pushes, restarts, failures, history>>
    BY <1>0, <1>8, <2>1 DEF ReportArrives, TypeOK, StoreInv, SenderIsTold
  <2>3. /\ op \in Op /\ op.do = (IF group THEN "receipt" ELSE "status")
        /\ op.id = m /\ op.to = what /\ (group => op.by = p)
    BY <2>1 DEF Op, Msg
  <2>4. Founded(op)' /\ Brings(op) = {}
    BY <2>2, <2>3 DEF Founded, Brings
  <2>5. Submitted(op)
    BY <2>2, <2>3, <2>4 DEF Submitted
  <2> QED BY <2>2, <2>3, <2>5 DEF Framed
<1>9. ASSUME NEW m \in Msg, deleteMessage(m) PROVE Framed
  <2>1. PICK op : op = [do |-> "remove", id |-> m]
    OBVIOUS
  <2>2. run(op)
        /\ UNCHANGED <<group, row, snap, pulling, pulled, purge, tomb, archive, ids, world, history>>
    BY <1>9, <2>1 DEF deleteMessage
  <2>3. op.do = "remove" /\ op \in Op
    BY <2>1 DEF Op
  <2>4. Founded(op)' /\ Brings(op) = {}
    BY <2>3 DEF Founded, Brings
  <2>5. Submitted(op)
    BY <2>2, <2>3, <2>4 DEF Submitted
  <2> QED BY <2>2, <2>3, <2>5 DEF Framed
<1>10. ASSUME NEW m \in Inbound \cup Expiring, Age(m) PROVE Framed
  BY <1>10 DEF Age, Framed
<1>11. ASSUME UNCHANGED vars PROVE Framed
  BY <1>11 DEF vars, Framed
<1> QED BY <1>1, <1>2, <1>3, <1>4, <1>5, <1>6, <1>7, <1>8, <1>9, <1>10, <1>11 DEF Next, Noisy

\* Only a copy and a report make one more message known, and a report goes to the sender.
LEMMA FewStep == StoreInv /\ [Next]_vars => FewKnown' /\ SenderIsTold'
<1> DEFINE Few == FewKnown /\ SenderIsTold
<1> SUFFICES ASSUME StoreInv, [Next]_vars PROVE Few'
  OBVIOUS
<1> USE DEF store, archive, waiting, ids, world, account, history
<1>0. TypeOK /\ FewKnown /\ SenderIsTold
  BY DEF StoreInv
<1>1. ASSUME NEW m \in Inbound, Receive(m) PROVE Few'
  <2>1. copies' = [copies EXCEPT ![m] = @ + 1] /\ UNCHANGED <<reported, reports, wire>>
    BY <1>1 DEF Receive
  <2>2. PICK A : A = {n \in Inbound : copies[n] > 0} \cup {m}
    OBVIOUS
  <2>3. IsFiniteSet(A)
    BY <1>0, <2>2, FS_AddElement DEF FewKnown
  <2>4. {n \in Inbound : copies'[n] > 0} \in SUBSET A
    BY <1>0, <2>1, <2>2 DEF TypeOK
  <2>5. IsFiniteSet({n \in Inbound : copies'[n] > 0})
    BY <2>3, <2>4, FS_Subset
  <2> QED BY <1>0, <2>1, <2>5 DEF FewKnown, SenderIsTold
<1>2. ASSUME NEW m \in Outbound, NEW p \in Member, NEW what \in {"delivered", "read"},
             MemberReports(m, p, what)
      PROVE  Few'
  <2>1. /\ reported' = reported \cup {<<m, p, what>>} /\ UNCHANGED <<copies, wire>>
        /\ reports' = IF m \in wire THEN reports \cup {<<m, p, what>>} ELSE reports
    BY <1>2 DEF MemberReports
  <2>2. FewKnown'
    BY <1>0, <2>1, FS_AddElement DEF FewKnown
  <2>3. SenderIsTold'
    <3>1. <<m, p, what>>[1] = m
      OBVIOUS
    <3> QED BY <1>0, <2>1, <3>1 DEF SenderIsTold
  <2> QED BY <2>2, <2>3
<1>3. ASSUME UNCHANGED <<copies, reported>>, reports' \subseteq reports, wire \subseteq wire' PROVE Few'
  BY <1>0, <1>3 DEF FewKnown, SenderIsTold
<1>4. CASE Mutex \/ PurgeGet \/ PurgeSet \/ Wipe \/ recordTombstone
  BY <1>3, <1>4 DEF Mutex, LockedGet, LockedSet, LockedFail, PurgeGet, PurgeSet, Wipe, recordTombstone
<1>5. CASE persistSeenIds \/ pushArchive \/ importArchive \/ mergeTombstones \/ handleHistoryReplay
           \/ UNCHANGED vars
  BY <1>3, <1>5 DEF persistSeenIds, pushArchive, importArchive, mergeTombstones, handleHistoryReplay,
                     OnlyRuns, vars
<1>6. ASSUME NEW m \in Inbound, markRead(m) PROVE Few'
  BY <1>3, <1>6 DEF markRead
<1>7. ASSUME NEW m \in Outbound, sendMessage(m) \/ sendMessageSaves(m) \/ sendToGroup(m) \/ syncSend(m)
      PROVE  Few'
  BY <1>3, <1>7 DEF sendMessage, sendMessageSaves, sendToGroup, syncSend, OnlyRuns
<1>8. ASSUME NEW m \in Outbound, NEW p \in Member, NEW what \in {"delivered", "read"},
             ReportArrives(m, p, what)
      PROVE  Few'
  BY <1>3, <1>8 DEF ReportArrives
<1>9. ASSUME NEW m \in Msg, deleteMessage(m) PROVE Few'
  BY <1>3, <1>9 DEF deleteMessage
<1>10. ASSUME NEW m \in Inbound \cup Expiring, Age(m) PROVE Few'
  BY <1>3, <1>10 DEF Age
<1>11. ASSUME NEW orderly \in BOOLEAN, Restart(orderly) PROVE Few'
  BY <1>3, <1>11 DEF Restart
<1> QED BY <1>1, <1>2, <1>4, <1>5, <1>6, <1>7, <1>8, <1>9, <1>10, <1>11 DEF Next

\* What was reported stays reported.
LEMMA TruthStays ==
    ASSUME NEW e, SaysTruth(e), group' = group, reported \subseteq reported', readHere \subseteq readHere', wire \subseteq wire'
    PROVE  SaysTruth(e)'
BY DEF SaysTruth

\* An operation stays founded until its message is saved.
LEMMA FoundedStays ==
    ASSUME NEW op, Founded(op), group' = group, reported \subseteq reported', readHere \subseteq readHere', wire \subseteq wire',
           op.do = "save" /\ op.msg.id \in Outbound => op.msg.id \notin saved' \cup failed'
    PROVE  Founded(op)'
<1>1. op.do = "save" =>
          \/ op.msg.id \in Inbound /\ op.msg = NewMessage(op.msg.id, "delivered")
          \/ op.msg.id \in Outbound \ (saved' \cup failed') /\ op.msg = NewMessage(op.msg.id, "sent")
  BY DEF Founded
<1>2. op.do = "status" =>
          \/ op.id \in Outbound /\ \E p \in Member : <<op.id, p, op.to>> \in reported'
          \/ op.id \in Inbound \cap readHere' /\ op.to = "read"
  BY DEF Founded
<1>3. op.do = "receipt" => group' /\ op.id \in wire' /\ <<op.id, op.by, op.to>> \in reported'
  BY DEF Founded
<1>4. op.do = "replay" =>
          /\ IsFiniteSet(op.ids)
          /\ \A m \in op.ids \cap Outbound : \E p \in Member : <<m, p, "delivered">> \in reported'
  BY DEF Founded
<1> QED BY <1>1, <1>2, <1>3, <1>4 DEF Founded

\* Rows stay true, and true rows may be added.
LEMMA RowsStayTrue ==
    ASSUME RowsTrue, group' = group, reported \subseteq reported', readHere \subseteq readHere', wire \subseteq wire',
           \A r \in Held' : r \in Held \/ (Once(r) /\ \A e \in Items(r) : SaysTruth(e)')
    PROVE  RowsTrue'
<1> SUFFICES ASSUME NEW r \in Held' PROVE Once(r) /\ \A e \in Items(r) : SaysTruth(e)'
  BY DEF RowsTrue
<1>1. CASE r \in Held
  BY <1>1, TruthStays DEF RowsTrue
<1>2. CASE r \notin Held
  BY <1>2
<1> QED BY <1>1, <1>2

\* A part of a true row is true.
LEMMA WithinTrue ==
    ASSUME RowsTrue, group' = group, reported \subseteq reported', readHere \subseteq readHere', wire \subseteq wire',
           NEW r \in Held, NEW w, Within(w, r)
    PROVE  Once(w) /\ \A e \in Items(w) : SaysTruth(e)'
BY TruthStays DEF RowsTrue, Within

\* The mutex moves on to an operation that saves another message.
LEMMA TailOps ==
    ASSUME StoreInv, queue # <<>>, Release
    PROVE  /\ \A i \in DOMAIN queue' : i + 1 \in DOMAIN queue /\ queue'[i] = queue[i + 1]
           /\ \A op \in Items(queue') :
                 /\ op \in Items(queue)
                 /\ op.do = "save" /\ Head(queue).do = "save" /\ op.msg.id \in Outbound
                       => op.msg.id # Head(queue).msg.id
<1>1. queue \in Seq(Op) /\ queue' = Tail(queue)
  BY DEF StoreInv, TypeOK, Release
<1>2. /\ \A i \in DOMAIN queue' : i + 1 \in DOMAIN queue /\ queue'[i] = queue[i + 1] /\ i + 1 # 1
      /\ 1 \in DOMAIN queue /\ Head(queue) = queue[1]
  BY <1>1
<1>3. ASSUME NEW i \in DOMAIN queue', queue'[i].do = "save", Head(queue).do = "save",
             queue'[i].msg.id \in Outbound
      PROVE  queue'[i].msg.id # Head(queue).msg.id
  BY <1>2, <1>3 DEF StoreInv, SavedFirst
<1> QED BY <1>2, <1>3 DEF Items

\* What the holder writes is true by the time it is written.
LEMMA MadeTrue ==
    ASSUME StoreInv, LockedSet
    PROVE  \A f \in Items(Apply(Head(queue), snap[1])) : SaysTruth(f)'
<1>1. PICK op : op = Head(queue)
  OBVIOUS
<1>2. PICK r : r = snap[1]
  OBVIOUS
<1>3. PICK w : w = Apply(op, r)
  OBVIOUS
<1>4. /\ op \in Op /\ op \in Items(queue) /\ Founded(op) /\ r \in Held /\ r \in Seq(Stored)
      /\ Made(op, r, w)
  BY <1>1, <1>2, <1>3, HeadMakes DEF LockedSet
<1>5. /\ group' = group /\ reported' = reported /\ readHere \subseteq readHere' /\ wire \subseteq wire'
      /\ op.do = "replay" => op.ids \cap Inbound \subseteq readHere'
  BY <1>1, <1>2 DEF LockedSet
<1>6. ASSUME NEW f \in Items(w) PROVE SaysTruth(f)'
  <2>1. Becomes(op, r, f) /\ f \in Stored
    BY <1>4, <1>6, RowFacts DEF Made
  <2>2. \A e \in Items(r) : e \in Stored /\ SaysTruth(e)
    BY <1>4, RowFacts DEF StoreInv, RowsTrue
  <2>3. CASE f \in Items(r)
    BY <1>5, <2>2, <2>3, TruthStays
  <2>4. CASE op.do = "save" /\ f = op.msg
    <3>1. \/ f.id \in Inbound /\ f = NewMessage(f.id, "delivered")
          \/ f.id \in Outbound /\ f = NewMessage(f.id, "sent")
      BY <1>4, <2>4 DEF Founded
    <3> QED BY <3>1, ConstantsAssumption DEF SaysTruth, NewMessage
  <2>5. ASSUME op.do = "status", NEW e \in Items(r), e.id = op.id, f = [e EXCEPT !.status = op.to]
        PROVE  SaysTruth(f)'
    <3>1. f.id = op.id /\ f.got = e.got /\ f.status = op.to
      BY <2>2, <2>5 DEF Stored
    <3>2. \/ op.id \in Outbound /\ \E p \in Member : <<op.id, p, op.to>> \in reported
          \/ op.id \in Inbound \cap readHere /\ op.to = "read"
      BY <1>4, <2>5 DEF Founded
    <3>3. SaysTruth(e)
      BY <2>2
    <3> QED BY <1>5, <2>5, <3>1, <3>2, <3>3, ConstantsAssumption DEF SaysTruth
  <2>6. ASSUME op.do = "receipt", NEW e \in Items(r), e.id = op.id,
               f = [e EXCEPT !.got[op.by] = op.to]
        PROVE  SaysTruth(f)'
    <3>1. op.id \in Outbound \cap wire /\ op.by \in Member /\ group /\ <<op.id, op.by, op.to>> \in reported
      BY <1>4, <2>6, OpShape DEF Founded
    <3>2. /\ f.id = op.id /\ f.status = e.status
          /\ \A p \in Member : f.got[p] = IF p = op.by THEN op.to ELSE e.got[p]
      BY <2>2, <2>6 DEF Stored
    <3>3. SaysTruth(e)
      BY <2>2
    <3> QED BY <1>5, <2>6, <3>1, <3>2, <3>3, ConstantsAssumption DEF SaysTruth
  <2>7. CASE op.do = "merge" /\ f \in Items(op.rows)
    <3>1. op.rows \in Held
      BY <1>4, <2>7 DEF Held
    <3> QED BY <1>5, <2>7, <3>1, TruthStays DEF StoreInv, RowsTrue
  <2>8. CASE op.do = "replay" /\ f.id \in op.ids
             /\ f = NewMessage(f.id, IF f.id \in Outbound THEN "delivered" ELSE "read")
    <3>1. f.id \in Outbound => \E p \in Member : <<f.id, p, "delivered">> \in reported
      BY <1>4, <2>8 DEF Founded
    <3>2. f.id \in Inbound => f.id \in readHere' /\ f.id \notin Outbound
      BY <1>5, <2>8, ConstantsAssumption
    <3>3. /\ f.status = (IF f.id \in Outbound THEN "delivered" ELSE "read")
          /\ \A p \in Member : f.got[p] = "none"
      BY <2>8 DEF NewMessage
    <3> QED BY <1>5, <3>1, <3>2, <3>3 DEF SaysTruth
  <2> QED BY <2>1, <2>3, <2>4, <2>5, <2>6, <2>7, <2>8 DEF Becomes
<1> QED BY <1>1, <1>2, <1>3, <1>6

\* All of the invariant but types and finiteness, which have their own lemmas.
Kept ==
    HolderIsCurrent /\ RowsTrue /\ OpsTrue /\ SavedFirst /\ PurgeSound /\ ReaderHolds /\ Accounted

\* The sources of the rows held.
LEMMA HeldParts ==
    ASSUME NEW r
    PROVE  /\ r \in Held <=> \/ r = row \/ r \in Items(snap) \/ r \in Items(backup)
                             \/ r \in Items(pulled) \/ r \in Items(purge)
                             \/ \E op \in Items(queue) : op.do = "merge" /\ r = op.rows
           /\ r \in Held' <=> \/ r = row' \/ r \in Items(snap') \/ r \in Items(backup')
                              \/ r \in Items(pulled') \/ r \in Items(purge')
                              \/ \E op \in Items(queue') : op.do = "merge" /\ r = op.rows
BY DEF Held, Items

\* The quiet steps keep the invariant: an operation that joins the queue is founded.
LEMMA FramedKeeps ==
    ASSUME StoreInv, Framed
    PROVE  Kept'
<1>0. TypeOK /\ Kept
  BY DEF StoreInv, Kept
<1>1. /\ group' = group /\ row' = row /\ snap' = snap /\ purge' = purge /\ backup' = backup /\ pulled' = pulled
      /\ tainted' = tainted /\ saved' = saved /\ gone' = gone /\ clobbered' = clobbered
      /\ failed' = failed /\ reported \subseteq reported' /\ readHere \subseteq readHere'
      /\ wire \subseteq wire'
  BY DEF Framed, account, archive
<1>2. ASSUME NEW op \in Op, Submitted(op)
      PROVE  queue' = Append(queue, op) /\ Items(queue') = Items(queue) \cup {op} /\ queue' # <<>>
  <2>1. run(op)
    BY <1>2 DEF Submitted
  <2>2. queue \in Seq(Op) /\ queue' = Append(queue, op)
    BY <1>0, <2>1 DEF TypeOK, run
  <2>3. queue' # <<>>
    BY <2>2
  <2> QED BY <1>0, <2>1, <2>2, <2>3, RunStep
<1>3. HolderIsCurrent' /\ Accounted' /\ PurgeSound'
  BY <1>0, <1>1 DEF Kept, HolderIsCurrent, Accounted, PurgeSound
<1>4. ReaderHolds'
  BY <1>0, <1>1, <1>2 DEF Kept, ReaderHolds, Framed
<1>5. RowsTrue'
  <2>1. ASSUME NEW r \in Held' PROVE r \in Held
    <3>1. \A op \in Items(queue') : op.do = "merge" => op \in Items(queue)
      BY <1>2 DEF Framed, Submitted
    <3> QED BY <1>1, <3>1, HeldParts
  <2> QED BY <1>0, <1>1, <2>1, RowsStayTrue DEF Kept
<1>6. OpsTrue'
  <2> SUFFICES ASSUME NEW op \in Items(queue') PROVE Founded(op)'
    BY DEF OpsTrue
  <2>1. CASE op \in Items(queue)
    <3>1. Founded(op)
      BY <1>0, <2>1 DEF Kept, OpsTrue
    <3>2. op.do = "save" /\ op.msg.id \in Outbound => op.msg.id \notin saved' \cup failed'
      BY <1>1, <3>1, ConstantsAssumption DEF Founded
    <3> QED BY <1>1, <3>1, <3>2, FoundedStays
  <2>2. CASE op \notin Items(queue)
    BY <1>2, <2>2 DEF Framed, Submitted
  <2> QED BY <2>1, <2>2
<1>7. SavedFirst'
  <2>1. group => wire \subseteq saved
    BY <1>0 DEF Kept, SavedFirst
  <2>2. group' => wire' \subseteq saved'
    BY <1>1, <2>1 DEF Framed
  <2>3. ASSUME NEW i \in DOMAIN queue', NEW j \in DOMAIN queue',
               queue'[i].do = "save", queue'[j].do = "save",
               queue'[i].msg.id = queue'[j].msg.id, queue'[i].msg.id \in Outbound
        PROVE  i = j
    <3>1. CASE queue' = queue
      BY <1>0, <2>3, <3>1 DEF Kept, SavedFirst
    <3>2. ASSUME NEW op \in Op, Submitted(op) PROVE i = j
      <4>1. /\ \A k \in DOMAIN queue' : \/ k = Len(queue) + 1 /\ queue'[k] = op
                                        \/ k \in DOMAIN queue /\ queue'[k] = queue[k]
        <5>1. queue \in Seq(Op) /\ queue' = Append(queue, op)
          BY <1>0, <1>2, <3>2 DEF TypeOK
        <5> QED BY <5>1
      <4>2. op.do = "save" /\ op.msg.id \in Outbound =>
               \A k \in DOMAIN queue : ~(queue[k].do = "save" /\ queue[k].msg.id = op.msg.id)
        BY <3>2 DEF Submitted, Waiting
      <4>3. \A k, l \in DOMAIN queue :
               /\ queue[k].do = "save" /\ queue[l].do = "save"
               /\ queue[k].msg.id = queue[l].msg.id /\ queue[k].msg.id \in Outbound
               => k = l
        BY <1>0 DEF Kept, SavedFirst
      <4>4. CASE i \in DOMAIN queue /\ queue'[i] = queue[i]
        BY <2>3, <4>1, <4>2, <4>3, <4>4
      <4>5. CASE i = Len(queue) + 1 /\ queue'[i] = op
        BY <2>3, <4>1, <4>2, <4>5
      <4> QED BY <4>1, <4>4, <4>5
    <3> QED BY <3>1, <3>2 DEF Framed
  <2> QED BY <2>2, <2>3 DEF SavedFirst
<1> QED BY <1>3, <1>4, <1>5, <1>6, <1>7 DEF Kept

\* The steps of the mutex and of the writers beside it.
LEMMA GetKeeps == StoreInv /\ LockedGet => Kept'
<1> SUFFICES ASSUME StoreInv, LockedGet PROVE Kept'
  OBVIOUS
<1>0. TypeOK /\ Kept
  BY DEF StoreInv, Kept
<1>1. /\ queue # <<>> /\ snap' = <<row>> /\ tainted' = FALSE
      /\ UNCHANGED <<group, row, queue, purge, backup, pulled, wire, reported, saved, gone, clobbered,
                     failed, readHere>>
  BY DEF LockedGet, waiting, archive, world
<1>2. HolderIsCurrent' /\ Accounted' /\ PurgeSound' /\ ReaderHolds'
  BY <1>0, <1>1 DEF Kept, HolderIsCurrent, Accounted, PurgeSound, ReaderHolds
<1>3. RowsTrue'
  <2>1. \A r \in Held' : r \in Held
    BY <1>1, HeldParts, ShortItems
  <2> QED BY <1>0, <1>1, <2>1, RowsStayTrue DEF Kept
<1>4. OpsTrue' /\ SavedFirst'
  <2>1. \A op \in Items(queue) : Founded(op)' <=> Founded(op)
    BY <1>1 DEF Founded
  <2> QED BY <1>0, <1>1, <2>1 DEF Kept, OpsTrue, SavedFirst, Items
<1> QED BY <1>2, <1>3, <1>4 DEF Kept

\* The mutex moves on.
LEMMA FailKeeps == StoreInv /\ LockedFail => Kept'
<1> SUFFICES ASSUME StoreInv, LockedFail PROVE Kept'
  OBVIOUS
<1>0. TypeOK /\ Kept
  BY DEF StoreInv, Kept
<1>1. /\ queue # <<>> /\ Release
      /\ failed' = IF Head(queue).do = "save" THEN failed \cup Brings(Head(queue)) ELSE failed
      /\ UNCHANGED <<group, row, purge, backup, pulled, wire, reported, tainted, saved, gone,
                     clobbered, readHere>>
  BY DEF LockedFail, archive
<1>2. snap' = <<>> /\ Items(queue') \subseteq Items(queue) /\ Head(queue) \in Items(queue)
  BY <1>0, <1>1, ReleaseStep
<1>3. HolderIsCurrent' /\ Accounted' /\ PurgeSound' /\ ReaderHolds'
  BY <1>0, <1>1, <1>2 DEF Kept, HolderIsCurrent, Accounted, PurgeSound, ReaderHolds
<1>4. RowsTrue'
  <2>1. \A r \in Held' : r \in Held
    BY <1>1, <1>2, HeldParts, ShortItems
  <2> QED BY <1>0, <1>1, <2>1, RowsStayTrue DEF Kept
<1>5. OpsTrue'
  <2> SUFFICES ASSUME NEW op \in Items(queue') PROVE Founded(op)'
    BY DEF OpsTrue
  <2>1. Founded(op)
    BY <1>0, <1>2 DEF Kept, OpsTrue
  <2>2. op.do = "save" /\ op.msg.id \in Outbound => op.msg.id \notin saved' \cup failed'
    BY <1>1, <2>1, TailOps, ConstantsAssumption DEF Founded, Brings
  <2> QED BY <1>1, <2>1, <2>2, FoundedStays
<1>6. SavedFirst'
  <2>1. \A i \in DOMAIN queue' : i + 1 \in DOMAIN queue /\ queue'[i] = queue[i + 1]
    BY <1>1, TailOps
  <2>2. \A i, j \in DOMAIN queue' : i + 1 = j + 1 => i = j
    BY <1>0, <1>1 DEF TypeOK, Release
  <2> QED BY <1>0, <1>1, <2>1, <2>2 DEF Kept, SavedFirst
<1> QED BY <1>3, <1>4, <1>5, <1>6 DEF Kept

\* The holder's write: what it makes is true, and nothing saved is lost by it.
LEMMA SetKeeps == StoreInv /\ LockedSet => Kept'
<1> SUFFICES ASSUME StoreInv, LockedSet PROVE Kept'
  OBVIOUS
<1>0. TypeOK /\ Kept
  BY DEF StoreInv, Kept
<1>1. PICK op : op = Head(queue)
  OBVIOUS
<1>2. PICK r : r = snap[1]
  OBVIOUS
<1>3. PICK w : w = Apply(op, r)
  OBVIOUS
<1>4. /\ row' = IF Sets(op, r) THEN w ELSE row
      /\ saved' = IF op.do = "save" THEN saved \cup {op.msg.id} ELSE saved
      /\ gone' = gone \cup Drops(op, r)
      /\ clobbered' = IF tainted /\ Sets(op, r) THEN clobbered \cup (Ids(row) \ Ids(r)) ELSE clobbered
      /\ wire \subseteq wire' /\ (op.do # "save" => wire' = wire)
      /\ op.do = "save" => wire' \subseteq wire \cup {op.msg.id}
      /\ readHere \subseteq readHere'
      /\ UNCHANGED <<group, purge, backup, pulled, reported, tainted, failed>>
  BY <1>1, <1>2, <1>3 DEF LockedSet, archive
<1>5. /\ queue # <<>> /\ snap # <<>> /\ Release /\ op \in Op /\ op \in Items(queue) /\ Founded(op)
      /\ r \in Held /\ r \in Seq(Stored) /\ Once(r) /\ Made(op, r, w)
  BY <1>1, <1>2, <1>3, HeadMakes DEF LockedSet
<1>6. snap' = <<>> /\ Items(queue') \subseteq Items(queue)
  BY <1>0, <1>5, ReleaseStep
<1>7. HolderIsCurrent' /\ PurgeSound' /\ ReaderHolds'
  BY <1>0, <1>4, <1>6 DEF Kept, HolderIsCurrent, PurgeSound, ReaderHolds
<1>8. RowsTrue'
  <2>1. Once(w) /\ \A e \in Items(w) : SaysTruth(e)'
    BY <1>1, <1>2, <1>3, <1>5, MadeTrue DEF Made
  <2>2. \A s \in Held' : s \in Held \/ s = w
    BY <1>4, <1>6, HeldParts, ShortItems
  <2> QED BY <1>0, <1>4, <2>1, <2>2, RowsStayTrue DEF Kept
<1>9. OpsTrue'
  <2> SUFFICES ASSUME NEW o \in Items(queue') PROVE Founded(o)'
    BY DEF OpsTrue
  <2>1. Founded(o)
    BY <1>0, <1>6 DEF Kept, OpsTrue
  <2>2. o.do = "save" /\ op.do = "save" /\ o.msg.id \in Outbound => o.msg.id # op.msg.id
    BY <1>1, <1>5, TailOps
  <2>3. o.do = "save" /\ o.msg.id \in Outbound => o.msg.id \notin saved' \cup failed'
    BY <1>4, <2>1, <2>2, ConstantsAssumption DEF Founded
  <2> QED BY <1>4, <2>1, <2>3, FoundedStays
<1>10. SavedFirst'
  <2>1. \A i \in DOMAIN queue' : i + 1 \in DOMAIN queue /\ queue'[i] = queue[i + 1]
    BY <1>5, TailOps
  <2>2. \A i, j \in DOMAIN queue' : i + 1 = j + 1 => i = j
    BY <1>0, <1>5 DEF TypeOK, Release
  <2>3. \A i, j \in DOMAIN queue' :
          /\ queue'[i].do = "save" /\ queue'[j].do = "save"
          /\ queue'[i].msg.id = queue'[j].msg.id /\ queue'[i].msg.id \in Outbound
          => i = j
    BY <1>0, <2>1, <2>2 DEF Kept, SavedFirst
  <2>4. group' => wire' \subseteq saved'
    BY <1>0, <1>4 DEF Kept, SavedFirst
  <2> QED BY <2>3, <2>4 DEF SavedFirst
<1>11. Accounted'
  <2>1. /\ op.do \notin {"save", "remove"} => Ids(r) \subseteq Ids(w)
        /\ op.do = "save" => op.msg.id \in Ids(w)
    BY <1>5 DEF Made
  <2>2. Ids(r) \subseteq Ids(w) \cup gone'
    BY <1>3, <1>4, <2>1 DEF Drops
  <2>3. saved \subseteq Ids(row) \cup gone \cup clobbered
    BY <1>0 DEF Kept, Accounted
  <2>4. CASE Sets(op, r)
    <3>1. Ids(row) \subseteq Ids(r) \cup clobbered'
      <4>1. CASE tainted
        BY <1>4, <2>4, <4>1
      <4>2. CASE ~tainted
        BY <1>0, <1>2, <1>5, <4>2 DEF Kept, HolderIsCurrent
      <4> QED BY <4>1, <4>2
    <3> QED BY <1>4, <2>1, <2>2, <2>3, <2>4, <3>1 DEF Accounted
  <2>5. CASE ~Sets(op, r)
    <3>1. op.do # "save"
      BY <2>5 DEF Sets
    <3> QED BY <1>4, <2>3, <2>5, <3>1 DEF Accounted
  <2> QED BY <2>4, <2>5
<1> QED BY <1>7, <1>8, <1>9, <1>10, <1>11 DEF Kept

\* Where a step leaves the operations and what was reported alone.
LEMMA OpsStay ==
    ASSUME Kept, UNCHANGED <<group, wire, reported, saved, failed>>, readHere \subseteq readHere',
           queue' = queue \/ queue' = <<>>
    PROVE  OpsTrue' /\ SavedFirst'
<1>1. CASE queue' = queue
  <2> SUFFICES ASSUME NEW op \in Items(queue) PROVE Founded(op)'
    BY <1>1 DEF Kept, OpsTrue, SavedFirst, Items
  <2>1. Founded(op)
    BY DEF Kept, OpsTrue
  <2>2. op.do = "save" /\ op.msg.id \in Outbound => op.msg.id \notin saved' \cup failed'
    BY <2>1, ConstantsAssumption DEF Founded
  <2> QED BY <2>1, <2>2, FoundedStays
<1>2. CASE queue' = <<>>
  <2>1. OpsTrue'
    BY <1>2, ShortItems DEF OpsTrue
  <2>2. DOMAIN queue' = {}
    BY <1>2
  <2> QED BY <2>1, <2>2 DEF Kept, SavedFirst
<1> QED BY <1>1, <1>2

\* A purge holds two rows: the one it read, and a part of it.
LEMMA PurgeGetKeeps == StoreInv /\ PurgeGet => Kept'
<1> SUFFICES ASSUME StoreInv, PurgeGet PROVE Kept'
  OBVIOUS
<1>0. TypeOK /\ Kept
  BY DEF StoreInv, Kept
<1>1. /\ purge' = <<row, Purged(row)>>
      /\ UNCHANGED <<group, row, queue, snap, backup, pulled, wire, reported, tainted, saved, gone,
                     clobbered, failed, readHere>>
  BY DEF PurgeGet, waiting, archive, world, history, account
<1>2. Within(Purged(row), row) /\ row \in Held
  BY <1>0, PurgedRow, HeldParts DEF TypeOK
<1>3. purge' # <<>> /\ purge'[1] = row /\ purge'[2] = Purged(row) /\ Items(purge') = {row, Purged(row)}
  BY <1>1, ShortItems
<1>4. RowsTrue'
  <2>1. \A s \in Held' : s \in Held \/ s = Purged(row)
    BY <1>1, <1>2, <1>3, HeldParts
  <2>2. Once(Purged(row)) /\ \A e \in Items(Purged(row)) : SaysTruth(e)'
    BY <1>0, <1>1, <1>2, WithinTrue DEF Kept
  <2> QED BY <1>0, <1>1, <2>1, <2>2, RowsStayTrue DEF Kept
<1>5. PurgeSound'
  BY <1>2, <1>3 DEF Within, PurgeSound
<1>6. HolderIsCurrent' /\ ReaderHolds' /\ Accounted'
  BY <1>0, <1>1 DEF Kept, HolderIsCurrent, ReaderHolds, Accounted
<1> QED BY <1>0, <1>1, <1>4, <1>5, <1>6, OpsStay DEF Kept

\* Whatever it overwrites is accounted for.
LEMMA PurgeSetKeeps == StoreInv /\ PurgeSet => Kept'
<1> SUFFICES ASSUME StoreInv, PurgeSet PROVE Kept'
  OBVIOUS
<1>0. TypeOK /\ Kept
  BY DEF StoreInv, Kept
<1>1. /\ purge # <<>> /\ purge' = <<>>
      /\ \/ /\ row' = purge[2] /\ tainted' = TRUE
            /\ gone' = gone \cup (Ids(purge[1]) \ Ids(purge[2]))
            /\ clobbered' = clobbered \cup (Ids(row) \ Ids(purge[1]))
         \/ UNCHANGED <<row, tainted, gone, clobbered>>
      /\ UNCHANGED <<group, queue, snap, backup, pulled, wire, reported, saved, failed, readHere>>
  BY DEF PurgeSet, waiting, archive, world
<1>2. purge[2] \in Items(purge)
  <2>1. purge \in Seq(Seq(Stored)) /\ Len(purge) = 2
    BY <1>0, <1>1 DEF TypeOK
  <2>2. 2 \in DOMAIN purge
    BY <2>1
  <2> QED BY <2>2 DEF Items
<1>3. RowsTrue'
  <2>1. \A s \in Held' : s \in Held
    BY <1>1, <1>2, HeldParts, ShortItems
  <2> QED BY <1>0, <1>1, <2>1, RowsStayTrue DEF Kept
<1>4. HolderIsCurrent' /\ PurgeSound' /\ ReaderHolds'
  BY <1>0, <1>1 DEF Kept, HolderIsCurrent, PurgeSound, ReaderHolds
<1>5. Accounted'
  BY <1>0, <1>1 DEF Kept, Accounted
<1> QED BY <1>0, <1>1, <1>3, <1>4, <1>5, OpsStay DEF Kept

\* An empty row is true, and what it held is gone.
LEMMA WipeKeeps == StoreInv /\ Wipe => Kept'
<1> SUFFICES ASSUME StoreInv, Wipe PROVE Kept'
  OBVIOUS
<1>0. TypeOK /\ Kept
  BY DEF StoreInv, Kept
<1>1. /\ row' = <<>> /\ tainted' = TRUE /\ gone' = gone \cup Ids(row)
      /\ UNCHANGED <<group, queue, snap, purge, backup, pulled, wire, reported,
                     saved, clobbered, failed, readHere>>
  BY DEF Wipe, waiting, archive, world
<1>2. RowsTrue'
  <2>1. \A s \in Held' : s \in Held \/ s = <<>>
    BY <1>1, HeldParts
  <2>2. Once(<<>>) /\ \A e \in Items(<<>>) : SaysTruth(e)'
    BY ShortItems DEF Once
  <2> QED BY <1>0, <1>1, <2>1, <2>2, RowsStayTrue DEF Kept
<1>3. HolderIsCurrent' /\ PurgeSound' /\ ReaderHolds'
  BY <1>0, <1>1 DEF Kept, HolderIsCurrent, PurgeSound, ReaderHolds
<1>4. Accounted'
  BY <1>0, <1>1 DEF Kept, Accounted
<1> QED BY <1>0, <1>1, <1>2, <1>3, <1>4, OpsStay DEF Kept

\* The archive holds the row of that time ...
LEMMA PushKeeps == StoreInv /\ pushArchive => Kept'
<1> SUFFICES ASSUME StoreInv, pushArchive PROVE Kept'
  OBVIOUS
<1>0. TypeOK /\ Kept
  BY DEF StoreInv, Kept
<1>1. /\ backup' = <<row>>
      /\ UNCHANGED <<group, row, queue, snap, purge, pulled, wire, reported, tainted, saved, gone,
                     clobbered, failed, readHere>>
  BY DEF pushArchive, store, waiting, history, account
<1>2. RowsTrue'
  <2>1. \A s \in Held' : s \in Held
    BY <1>1, HeldParts, ShortItems
  <2> QED BY <1>0, <1>1, <2>1, RowsStayTrue DEF Kept
<1>3. HolderIsCurrent' /\ PurgeSound' /\ ReaderHolds' /\ Accounted'
  BY <1>0, <1>1 DEF Kept, HolderIsCurrent, PurgeSound, ReaderHolds, Accounted
<1> QED BY <1>0, <1>1, <1>2, <1>3, OpsStay DEF Kept

\* ... a pull reads it ...
LEMMA ImportKeeps == StoreInv /\ importArchive => Kept'
<1> SUFFICES ASSUME StoreInv, importArchive PROVE Kept'
  OBVIOUS
<1>0. TypeOK /\ Kept
  BY DEF StoreInv, Kept
<1>1. /\ pulled' = backup
      /\ UNCHANGED <<group, row, queue, snap, purge, backup, wire, reported, tainted, saved, gone,
                     clobbered, failed, readHere>>
  BY DEF importArchive, waiting, archive, world, history, account
<1>2. RowsTrue'
  <2>1. \A s \in Held' : s \in Held
    BY <1>1, HeldParts
  <2> QED BY <1>0, <1>1, <2>1, RowsStayTrue DEF Kept
<1>3. HolderIsCurrent' /\ PurgeSound' /\ ReaderHolds' /\ Accounted'
  BY <1>0, <1>1 DEF Kept, HolderIsCurrent, PurgeSound, ReaderHolds, Accounted
<1> QED BY <1>0, <1>1, <1>2, <1>3, OpsStay DEF Kept

\* ... and the merge of it waits in the mutex.
LEMMA MergeKeeps == StoreInv /\ mergeTombstones => Kept'
<1> SUFFICES ASSUME StoreInv, mergeTombstones PROVE Kept'
  OBVIOUS
<1>0. TypeOK /\ Kept
  BY DEF StoreInv, Kept
<1>1. PICK op : op = [do |-> "merge", rows |-> pulled[1]]
  OBVIOUS
<1>2. /\ pulled # <<>> /\ pulled' = <<>>
      /\ run(op) \/ queue' = queue
      /\ UNCHANGED <<group, row, snap, purge, backup, wire, reported, tainted, saved, gone,
                     clobbered, failed, readHere>>
  <2>1. pulled # <<>>
    BY <1>0 DEF mergeTombstones, TypeOK
  <2>2. /\ pulled' = <<>>
        /\ run(op) \/ queue' = queue
        /\ UNCHANGED <<group, row, snap, purge, archive, world, account, readHere>>
    BY <1>1 DEF mergeTombstones, waiting
  <2> QED BY <2>1, <2>2 DEF archive, world, account
<1>3. /\ pulled[1] \in Items(pulled) /\ pulled[1] \in Seq(Stored)
  <2>1. pulled # <<>> /\ pulled \in Seq(Seq(Stored))
    BY <1>0, <1>2 DEF TypeOK
  <2>2. 1 \in DOMAIN pulled /\ pulled[1] \in Seq(Stored)
    BY <2>1
  <2> QED BY <2>2 DEF Items
<1>4. op \in Op /\ op.do = "merge" /\ op.rows = pulled[1]
  BY <1>1, <1>3 DEF Op
<1>5. CASE queue' = queue
  <2>1. \A s \in Held' : s \in Held
    BY <1>2, <1>5, HeldParts, ShortItems
  <2>2. RowsTrue'
    BY <1>0, <1>2, <2>1, RowsStayTrue DEF Kept
  <2>3. HolderIsCurrent' /\ PurgeSound' /\ ReaderHolds' /\ Accounted'
    BY <1>0, <1>2, <1>5 DEF Kept, HolderIsCurrent, PurgeSound, ReaderHolds, Accounted
  <2> QED BY <1>0, <1>2, <1>5, <2>2, <2>3, OpsStay DEF Kept
<1>6. CASE run(op)
  <2>1. Items(queue') = Items(queue) \cup {op} /\ queue' # <<>>
        /\ queue \in Seq(Op) /\ queue' = Append(queue, op)
    <3>1. queue \in Seq(Op) /\ queue' = Append(queue, op)
      BY <1>0, <1>6 DEF TypeOK, run
    <3>2. queue' # <<>>
      BY <3>1
    <3> QED BY <1>0, <1>4, <1>6, <3>1, <3>2, RunStep
  <2>2. \A s \in Held' : s \in Held
    BY <1>2, <1>3, <1>4, <2>1, HeldParts, ShortItems
  <2>3. RowsTrue'
    BY <1>0, <1>2, <2>2, RowsStayTrue DEF Kept
  <2>4. HolderIsCurrent' /\ PurgeSound' /\ ReaderHolds' /\ Accounted'
    BY <1>0, <1>2, <2>1 DEF Kept, HolderIsCurrent, PurgeSound, ReaderHolds, Accounted
  <2>5. OpsTrue'
    <3> SUFFICES ASSUME NEW o \in Items(queue') PROVE Founded(o)'
      BY DEF OpsTrue
    <3>1. CASE o \in Items(queue)
      <4>1. Founded(o)
        BY <1>0, <3>1 DEF Kept, OpsTrue
      <4>2. o.do = "save" /\ o.msg.id \in Outbound => o.msg.id \notin saved' \cup failed'
        BY <1>2, <4>1, ConstantsAssumption DEF Founded
      <4> QED BY <1>2, <4>1, <4>2, FoundedStays
    <3>2. CASE o = op
      BY <1>4, <3>2 DEF Founded
    <3> QED BY <2>1, <3>1, <3>2
  <2>6. SavedFirst'
    <3>1. \A k \in DOMAIN queue' : queue'[k].do = "save" => k \in DOMAIN queue /\ queue'[k] = queue[k]
      <4>1. \A k \in DOMAIN queue' : queue'[k] = op \/ (k \in DOMAIN queue /\ queue'[k] = queue[k])
        BY <2>1
      <4> QED BY <1>4, <4>1
    <3> QED BY <1>0, <1>2, <3>1 DEF Kept, SavedFirst
  <2> QED BY <2>3, <2>4, <2>5, <2>6 DEF Kept
<1> QED BY <1>2, <1>5, <1>6

\* A restart drops every operation and purges.
LEMMA RestartKeeps ==
    ASSUME StoreInv, NEW orderly \in BOOLEAN, Restart(orderly)
    PROVE  Kept'
<1>0. TypeOK /\ Kept
  BY DEF StoreInv, Kept
<1>1. /\ queue' = <<>> /\ snap' = <<>> /\ purge' = <<>> /\ pulled' = <<>>
      /\ row' = Purged(row) \/ row' = row
      /\ gone' = gone \cup (Ids(row) \ Ids(row'))
      /\ UNCHANGED <<group, backup, wire, reported, tainted, saved, clobbered, failed, readHere>>
  BY DEF Restart, archive
<1>2. Within(Purged(row), row) /\ row \in Held
  BY <1>0, PurgedRow, HeldParts DEF TypeOK
<1>3. RowsTrue'
  <2>1. \A s \in Held' : s \in Held \/ s = Purged(row)
    BY <1>1, <1>2, HeldParts, ShortItems
  <2>2. Once(Purged(row)) /\ \A e \in Items(Purged(row)) : SaysTruth(e)'
    BY <1>0, <1>1, <1>2, WithinTrue DEF Kept
  <2> QED BY <1>0, <1>1, <2>1, <2>2, RowsStayTrue DEF Kept
<1>4. HolderIsCurrent' /\ PurgeSound' /\ ReaderHolds'
  BY <1>1 DEF HolderIsCurrent, PurgeSound, ReaderHolds
<1>5. Accounted'
  BY <1>0, <1>1 DEF Kept, Accounted
<1> QED BY <1>0, <1>1, <1>3, <1>4, <1>5, OpsStay DEF Kept

\* The invariant holds in every reachable state.
LEMMA Sound == Spec => []StoreInv
<1>1. Init => StoreInv
  <2> SUFFICES ASSUME Init PROVE StoreInv
    OBVIOUS
  <2>1. TypeOK
    <3>1. /\ row \in Seq(Stored) /\ queue \in Seq(Op) /\ snap \in Seq(Seq(Stored))
          /\ backup \in Seq(Seq(Stored)) /\ purge \in Seq(Seq(Stored))
          /\ pulled \in Seq(Seq(Stored)) /\ Len(pulled) = 0
          /\ Len(snap) = 0 /\ Len(backup) = 0 /\ Len(purge) = 0
      BY DEF Init
    <3>2. copies \in [Inbound -> Nat] /\ notified \in [Inbound -> Nat]
      BY DEF Init
    <3>3. /\ {seen, seenDisk, lostSeen, readHere} \subseteq SUBSET Inbound
          /\ {aged, saved, gone, clobbered, failed, returning} \subseteq SUBSET Msg
          /\ wire \subseteq Outbound /\ mirrored \subseteq Outbound /\ reported \subseteq Report /\ reports \subseteq reported
      BY DEF Init
    <3>4. group \in BOOLEAN /\ tainted = FALSE /\ buried = FALSE /\ pulling = "no" /\ tomb = "no"
      BY DEF Init
    <3>5. pushes = 0 /\ submitted = 0 /\ restarts = 0 /\ failures = 0
      BY DEF Init
    <3>6. Len(snap) <= 1 /\ Len(backup) <= 1 /\ Len(pulled) <= 1 /\ Len(purge) \in {0, 2}
      BY <3>1
    <3>9. tainted \in BOOLEAN /\ buried \in BOOLEAN
      BY <3>4, Zenon
    <3>7. /\ pulling \in {"no", "free", "dead", "merge", "purge"} /\ pulling \notin {"free", "dead"}
          /\ tomb \in {"no", "wiped", "recorded", "erased"}
      BY <3>4
    <3>8. pushes \in Nat /\ {submitted, restarts, failures} \subseteq Nat
      BY <3>5
    <3> QED BY <3>1, <3>2, <3>3, <3>4, <3>6, <3>7, <3>8, <3>9 DEF TypeOK
  <2>2. Held = {<<>>} /\ Items(queue) = {} /\ DOMAIN queue = {}
    BY ShortItems DEF Init, Held
  <2>3. RowsTrue
    BY <2>2, ShortItems DEF RowsTrue, Once
  <2>4. FewKnown
    <3>1. {m \in Inbound : copies[m] > 0} = {} /\ reported = {}
      BY DEF Init
    <3> QED BY <3>1, FS_EmptySet DEF FewKnown
  <2>6. SenderIsTold
    BY DEF Init, SenderIsTold
  <2>5. HolderIsCurrent /\ OpsTrue /\ SavedFirst /\ PurgeSound /\ ReaderHolds /\ Accounted
    BY <2>2 DEF Init, HolderIsCurrent, OpsTrue, SavedFirst, PurgeSound, ReaderHolds, Accounted
  <2> QED BY <2>1, <2>3, <2>4, <2>5, <2>6 DEF StoreInv
<1>2. StoreInv /\ [Next]_vars => StoreInv'
  <2> SUFFICES ASSUME StoreInv, [Next]_vars PROVE StoreInv'
    OBVIOUS
  <2>1. Kept'
    BY QuietSteps, FramedKeeps, GetKeeps, SetKeeps, FailKeeps, PurgeGetKeeps, PurgeSetKeeps,
       WipeKeeps, PushKeeps, ImportKeeps, MergeKeeps, RestartKeeps DEF Noisy, Mutex
  <2> QED BY <2>1, TypeStep, FewStep DEF StoreInv, Kept
<1> QED BY <1>1, <1>2, PTL DEF Spec

-----------------------------------------------------------------------------
(* Theorems *)

\* The row of a conversation is well formed, holds a message once whatever path
\* brought it, and says "delivered" or "read" only of what a peer reported or the
\* user read; and who holds the mutex has read the row it is about to write, but
\* for the writers without the mutex (the storage operations of message-handler).
THEOREM RowsHold == Spec => []RowsSound
<1>1. StoreInv => RowsSound
  <2> SUFFICES ASSUME StoreInv PROVE RowsSound
    OBVIOUS
  <2>1. TypeOK /\ HolderIsCurrent /\ row \in Held
    BY DEF StoreInv, Held
  <2>2. Once(row) /\ \A i \in DOMAIN row : SaysTruth(row[i])
    BY <2>1 DEF StoreInv, RowsTrue, Items
  <2>3. IdsUnique
    BY <2>2 DEF Once, IdsUnique
  <2>4. StatusTrue
    BY <2>2 DEF StatusTrue, SaysTruth
  <2> QED BY <2>1, <2>3, <2>4 DEF RowsSound
<1> QED BY <1>1, Sound, PTL

\* A message that was saved is in the row, or was removed, expired, out of the
\* retention policy or wiped, or was overwritten by purgeExpiredMessages or by a
\* holder of the mutex that it overtook: there is no other way to lose it.
THEOREM NothingLost == Spec => []Accounted
<1>1. StoreInv => Accounted
  BY DEF StoreInv
<1> QED BY <1>1, Sound, PTL

\* handleDataPacket calls onMessage again for a message only when its id was pruned
\* after 24 hours, or was lost in a restart before persistSeenIds.
THEOREM ShownOnce == Spec => []NotifiedOnce
<1> USE DEF store, archive, waiting, ids, world, account, history
<1> DEFINE Inv == ShownIsSeen /\ NotifiedOnce
<1>1. Init => Inv
  BY DEF Init, ShownIsSeen, NotifiedOnce
<1>2. TypeOK /\ Inv /\ [Next]_vars => Inv'
  <2> SUFFICES ASSUME TypeOK, Inv, [Next]_vars PROVE Inv'
    OBVIOUS
  <2>1. ASSUME UNCHANGED <<seen, notified>>, aged \subseteq aged', lostSeen' = lostSeen PROVE Inv'
    BY <2>1 DEF ShownIsSeen, NotifiedOnce
  <2>2. ASSUME NEW m \in Inbound, Receive(m) PROVE Inv'
    <3>1. /\ m \notin seen /\ seen' = (seen \cup {m}) \ aged
          /\ UNCHANGED <<aged, lostSeen>>
          /\ notified' = notified \/ notified' = [notified EXCEPT ![m] = @ + 1]
      BY <2>2 DEF Receive, Unseen
    <3>2. notified \in [Inbound -> Nat]
      BY DEF TypeOK
    <3>3. \A n \in Inbound : n # m => notified'[n] = notified[n]
      BY <3>1, <3>2
    <3>4. notified'[m] > 1 => notified[m] > 0
      BY <3>1, <3>2
    <3>5. ShownIsSeen'
      BY <3>1, <3>3 DEF ShownIsSeen
    <3>6. NotifiedOnce'
      BY <3>1, <3>3, <3>4 DEF ShownIsSeen, NotifiedOnce
    <3> QED BY <3>5, <3>6
  <2>3. ASSUME NEW orderly \in BOOLEAN, Restart(orderly) PROVE Inv'
    <3>1. PICK disk : disk = IF orderly THEN seen ELSE seenDisk
      OBVIOUS
    <3>2. /\ seen' = disk \ aged /\ lostSeen' = lostSeen \cup (seen \ disk)
          /\ UNCHANGED <<aged, notified>>
      BY <2>3, <3>1 DEF Restart
    <3> QED BY <3>2 DEF ShownIsSeen, NotifiedOnce
  <2>4. CASE Mutex \/ PurgeGet \/ PurgeSet \/ Wipe \/ recordTombstone
    BY <2>1, <2>4 DEF Mutex, LockedGet, LockedSet, LockedFail, PurgeGet, PurgeSet, Wipe, recordTombstone
  <2>5. CASE persistSeenIds \/ pushArchive \/ importArchive \/ mergeTombstones \/ handleHistoryReplay
             \/ UNCHANGED vars
    BY <2>1, <2>5 DEF persistSeenIds, pushArchive, importArchive, mergeTombstones,
                      handleHistoryReplay, OnlyRuns, vars
  <2>6. ASSUME NEW m \in Inbound, markRead(m) PROVE Inv'
    BY <2>1, <2>6 DEF markRead
  <2>7. ASSUME NEW m \in Outbound, sendMessage(m) \/ sendMessageSaves(m) \/ sendToGroup(m) \/ syncSend(m)
        PROVE  Inv'
    BY <2>1, <2>7 DEF sendMessage, sendMessageSaves, sendToGroup, syncSend, OnlyRuns
  <2>8. ASSUME NEW m \in Outbound, NEW p \in Member, NEW what \in {"delivered", "read"},
               MemberReports(m, p, what) \/ ReportArrives(m, p, what)
        PROVE  Inv'
    BY <2>1, <2>8 DEF MemberReports, ReportArrives
  <2>9. ASSUME NEW m \in Msg, deleteMessage(m) PROVE Inv'
    BY <2>1, <2>9 DEF deleteMessage
  <2>10. ASSUME NEW m \in Inbound \cup Expiring, Age(m) PROVE Inv'
    BY <2>1, <2>10 DEF Age
  <2> QED BY <2>2, <2>3, <2>4, <2>5, <2>6, <2>7, <2>8, <2>9, <2>10 DEF Next
<1>3. StoreInv => TypeOK
  BY DEF StoreInv
<1> QED BY <1>1, <1>2, <1>3, Sound, PTL DEF Spec

\* A part of a row holds no message the row does not.
LEMMA WithinIds ==
    ASSUME NEW r \in Seq(Stored), NEW w, Within(w, r)
    PROVE  Ids(w) \subseteq Ids(r)
BY RowFacts DEF Within

\* Only a pull writes back tombstones, and one that saw none while there was one erases it.
LEMMA BuriedStays ==
    ASSUME StoreInv, Buried, Framed \/ Noisy
    PROVE  Buried'
<1> USE DEF store, archive
<1>1. CASE Framed
  BY <1>1 DEF Framed, Buried
<1>2. ASSUME UNCHANGED <<buried, tomb>>, pulling' = "dead" => pulling = "dead" PROVE Buried'
  BY <1>2 DEF Buried
<1>3. CASE Mutex \/ PurgeGet \/ PurgeSet
  BY <1>2, <1>3 DEF Mutex, LockedGet, LockedSet, LockedFail, PurgeGet, PurgeSet
<1>4. CASE Wipe
  BY <1>4 DEF Wipe, Buried
<1>5. CASE pushArchive
  BY <1>5 DEF pushArchive, Buried
<1>6. CASE importArchive
  BY <1>6 DEF importArchive, Buried
<1>7. CASE mergeTombstones
  BY <1>7 DEF mergeTombstones, Buried
<1>8. ASSUME NEW orderly \in BOOLEAN, Restart(orderly) PROVE Buried'
  BY <1>8 DEF Restart, Buried
<1> QED BY <1>1, <1>3, <1>4, <1>5, <1>6, <1>7, <1>8 DEF Noisy

\* After the row was wiped, the quiet steps bring only what counts as returning.
LEMMA FramedReturns ==
    ASSUME StoreInv, OnlyReturning, Framed
    PROVE  OnlyReturning'
<1> SUFFICES ASSUME tomb' # "no" PROVE OnlyReturning'
  BY DEF OnlyReturning
<1>1. /\ tomb # "no" /\ tomb' # "no" /\ returning \subseteq returning'
      /\ UNCHANGED <<group, row, snap, purge>>
      /\ queue' = queue \/ \E op \in Op : Submitted(op)
  BY DEF Framed
<1>2. \A op \in Items(queue') : Brings(op) \subseteq returning'
  <2>1. CASE queue' = queue
    BY <1>1, <2>1 DEF OnlyReturning
  <2>2. ASSUME NEW op \in Op, Submitted(op) PROVE \A o \in Items(queue') : Brings(o) \subseteq returning'
    <3>1. Items(queue') = Items(queue) \cup {op}
      BY <2>2, RunStep DEF Submitted, StoreInv
    <3>2. Brings(op) \subseteq returning'
      BY <1>1, <2>2 DEF Submitted
    <3> QED BY <1>1, <3>1, <3>2 DEF OnlyReturning
  <2> QED BY <1>1, <2>1, <2>2
<1> QED BY <1>1, <1>2 DEF OnlyReturning, Brings, Ids

\* So do the others.
LEMMA NoisyReturns ==
    ASSUME StoreInv, Buried, OnlyReturning, Noisy
    PROVE  OnlyReturning'
<1>0. TypeOK
  BY DEF StoreInv
<1> SUFFICES ASSUME tomb' # "no" PROVE OnlyReturning'
  BY DEF OnlyReturning
<1> USE DEF store, archive, waiting, ids, world, account, history
\* The conditions of the invariant, with the state they leave.
<1> DEFINE Kinds ==
        /\ tomb # "no"
        /\ returning \subseteq returning'
        /\ Ids(row') \subseteq returning'
        /\ \A op \in Items(queue') : op \in Items(queue) \/ Brings(op) \subseteq returning'
        /\ snap' # <<>> => snap' = snap \/ snap' = <<row>>
        /\ purge' # <<>> => purge' = purge \/ purge' = <<row, Purged(row)>>
<1>1. ASSUME Kinds PROVE OnlyReturning'
  <2>1. \A op \in Items(queue') : Brings(op) \subseteq returning'
    BY <1>1 DEF OnlyReturning
  <2>2. snap' # <<>> => Ids(snap'[1]) \subseteq returning'
    BY <1>1 DEF OnlyReturning
  <2>3. purge' # <<>> => Ids(purge'[2]) \subseteq returning'
    <3>1. Ids(Purged(row)) \subseteq Ids(row)
      BY <1>0, PurgedRow, WithinIds DEF TypeOK
    <3> QED BY <1>1, <3>1 DEF OnlyReturning
  <2> QED BY <1>1, <2>1, <2>2, <2>3 DEF OnlyReturning, Brings, Ids
<1>2. ASSUME LockedGet PROVE Kinds
  BY <1>2 DEF LockedGet, OnlyReturning
<1>3. ASSUME LockedSet PROVE Kinds
  <2>1. PICK op : op = Head(queue)
    OBVIOUS
  <2>2. PICK r : r = snap[1]
    OBVIOUS
  <2>3. PICK w : w = Apply(op, r)
    OBVIOUS
  <2>4. /\ snap # <<>> /\ queue # <<>> /\ Release /\ op \in Op /\ op \in Items(queue)
        /\ r \in Seq(Stored) /\ Made(op, r, w)
    BY <1>3, <2>1, <2>2, <2>3, HeadMakes DEF LockedSet
  <2>5. /\ row' = w \/ row' = row
        /\ UNCHANGED <<purge, tomb, returning>>
    BY <1>3, <2>1, <2>2, <2>3 DEF LockedSet
  <2>6. snap' = <<>> /\ Items(queue') \subseteq Items(queue)
    BY <1>0, <2>4, ReleaseStep
  <2>7. Ids(w) \subseteq Ids(r) \cup Brings(op)
    BY <2>4, MadeIds
  <2>8. Ids(row') \subseteq returning
    BY <2>2, <2>4, <2>5, <2>7 DEF OnlyReturning
  <2> QED BY <2>5, <2>6, <2>8
<1>4. ASSUME LockedFail PROVE Kinds
  <2>1. snap' = <<>> /\ Items(queue') \subseteq Items(queue)
    BY <1>0, <1>4, ReleaseStep DEF LockedFail
  <2>2. UNCHANGED <<row, purge, tomb, returning>>
    BY <1>4 DEF LockedFail
  <2> QED BY <2>1, <2>2 DEF OnlyReturning, Ids
<1>5. ASSUME PurgeGet PROVE Kinds
  BY <1>5 DEF PurgeGet, OnlyReturning
<1>6. ASSUME PurgeSet PROVE Kinds
  BY <1>6 DEF PurgeSet, OnlyReturning
<1>7. ASSUME Wipe PROVE OnlyReturning'
  <2>1. /\ returning' = UnderWay /\ row' = <<>>
        /\ UNCHANGED <<queue, snap, purge>>
    BY <1>7 DEF Wipe
  <2>2. Ids(<<>>) = {}
    BY DEF Ids
  <2>3. \A op \in Items(queue) : Brings(op) \subseteq UnderWay
    <3>1. ASSUME NEW i \in DOMAIN queue, NEW m \in Brings(queue[i]) PROVE m \in UnderWay
      <4>1. queue[i] \in Op
        BY <1>0 DEF TypeOK
      <4>2. m \in Msg
        BY <3>1, <4>1, OpShape, RowFacts DEF Brings, Stored
      <4> QED BY <3>1, <4>2 DEF UnderWay
    <3> QED BY <3>1 DEF Items
  <2>4. snap # <<>> => Ids(snap[1]) \subseteq UnderWay
    <3> SUFFICES ASSUME snap # <<>> PROVE Ids(snap[1]) \subseteq UnderWay
      OBVIOUS
    <3>1. snap[1] \in Seq(Stored)
      BY <1>0 DEF TypeOK
    <3> QED BY <3>1, RowFacts DEF UnderWay
  <2>5. purge # <<>> => Ids(purge[2]) \subseteq UnderWay
    <3> SUFFICES ASSUME purge # <<>> PROVE Ids(purge[2]) \subseteq UnderWay
      OBVIOUS
    <3>1. purge[2] \in Seq(Stored)
      BY <1>0 DEF TypeOK
    <3> QED BY <3>1, RowFacts DEF UnderWay
  <2> QED BY <2>1, <2>2, <2>3, <2>4, <2>5 DEF OnlyReturning, Brings, Ids
<1>8. ASSUME pushArchive PROVE Kinds
  BY <1>8 DEF pushArchive, OnlyReturning
<1>9. ASSUME importArchive PROVE Kinds
  BY <1>9 DEF importArchive, OnlyReturning
<1>11. ASSUME mergeTombstones PROVE Kinds
  <2>1. PICK op : op = [do |-> "merge", rows |-> pulled[1]]
    OBVIOUS
  <2>2. /\ pulled # <<>> /\ tomb # "no"
        /\ \/ UNCHANGED <<queue, returning>>
           \/ run(op) /\ returning' = returning \cup Ids(pulled[1])
        /\ UNCHANGED <<row, snap, purge>>
    <3>1. pulled # <<>>
      BY <1>0, <1>11 DEF mergeTombstones, TypeOK
    <3>2. pulling \in {"free", "dead"} /\ UNCHANGED <<row, snap, purge>>
          /\ tomb' = IF pulling = "dead" THEN "recorded"
                     ELSE IF tomb = "recorded" THEN "erased" ELSE tomb
      BY <1>11 DEF mergeTombstones
    <3>3. tomb # "no"
      BY <3>2 DEF Buried
    <3>4. pulling = "dead" => UNCHANGED <<queue, returning>>
      BY <1>11 DEF mergeTombstones, Suppressed
    <3>5. pulling = "free" => run(op) /\ returning' = returning \cup Ids(pulled[1])
      BY <1>11, <2>1, <3>3 DEF mergeTombstones, Suppressed, Returns
    <3> QED BY <3>1, <3>2, <3>3, <3>4, <3>5
  <2>3. pulled[1] \in Seq(Stored)
    <3>1. pulled # <<>> /\ pulled \in Seq(Seq(Stored))
      BY <1>0, <2>2 DEF TypeOK
    <3> QED BY <3>1
  <2>4. op \in Op /\ Brings(op) = Ids(pulled[1])
    BY <2>1, <2>3 DEF Op, Brings
  <2>5. run(op) => Items(queue') = Items(queue) \cup {op}
    BY <1>0, <2>4, RunStep
  <2> QED BY <2>2, <2>4, <2>5 DEF OnlyReturning
<1>10. ASSUME NEW orderly \in BOOLEAN, Restart(orderly) PROVE Kinds
  <2>1. /\ queue' = <<>> /\ snap' = <<>> /\ purge' = <<>>
        /\ tomb # "no"
        /\ row' = Purged(row) \/ row' = row
        /\ returning' = returning
    BY <1>10 DEF Restart
  <2>2. Ids(Purged(row)) \subseteq Ids(row)
    BY <1>0, PurgedRow, WithinIds DEF TypeOK
  <2> QED BY <2>1, <2>2, ShortItems DEF OnlyReturning
<1> HIDE DEF Kinds
<1> QED BY <1>1, <1>2, <1>3, <1>4, <1>5, <1>6, <1>7, <1>8, <1>9, <1>10, <1>11 DEF Noisy, Mutex

\* While the storage has the tombstone that deleteConversation recorded, a message comes
\* back only with an operation that was under way when the row was removed, one that a
\* path that looks at no tombstone has begun since, or a pull that did not see it: a pull
\* that sees it, or brings it, restores nothing.
THEOREM StaysDeleted == Spec => []DeletedStaysDeleted
<1>1. Init => Buried /\ OnlyReturning
  BY DEF Init, Buried, OnlyReturning
<1>2. StoreInv /\ Buried /\ OnlyReturning /\ [Next]_vars => Buried' /\ OnlyReturning'
  BY QuietSteps, BuriedStays, FramedReturns, NoisyReturns
<1>3. OnlyReturning => DeletedStaysDeleted
  BY DEF OnlyReturning, DeletedStaysDeleted
<1> QED BY <1>1, <1>2, <1>3, Sound, PTL DEF Spec

\* A stored message that was read stays read, whatever operation writes the row,
\* except where a late 'delivered' of a peer, a second copy, or a write computed
\* from an older row sets it back: a member's receipt never does.
THEOREM ReadIsKept == Spec => ReadStaysRead
<1> DEFINE Keeps(m) ==
        /\ \A p \in Member : Entry(row, m).got[p] = "read" =>
               Entry(row', m).got[p] = "read" \/ Overtaken
        /\ Entry(row, m).status = "read" =>
               \/ Entry(row', m).status = "read" \/ Overtaken
               \/ /\ snap # <<>>
                  /\ \/ Head(queue) = [do |-> "status", id |-> m, to |-> "delivered"]
                     \/ Head(queue).do = "save" /\ Head(queue).msg.id = m
<1>1. ASSUME StoreInv, [Next]_vars, NEW m \in Ids(row) \cap Ids(row') PROVE Keeps(m)
  <2>0. TypeOK /\ row \in Held /\ row \in Seq(Stored) /\ Once(row)
    BY <1>1 DEF StoreInv, TypeOK, RowsTrue, Held
  <2>1. row' \in Seq(Stored)
    BY <1>1, TypeStep DEF TypeOK
  <2>2. PICK e : e = Entry(row, m)
    OBVIOUS
  <2>3. PICK f : f = Entry(row', m)
    OBVIOUS
  <2>4. e \in Items(row) /\ e.id = m /\ e \in Stored /\ SaysTruth(e)
    BY <1>1, <2>0, <2>2, EntryOf, RowFacts DEF StoreInv, RowsTrue
  <2>5. f \in Items(row') /\ f.id = m
    BY <1>1, <2>1, <2>3, EntryOf
  <2>6. \A g \in Items(row) : g.id = m => g = e
    BY <2>0, <2>4, RowFacts
  <2>7. ASSUME f = e PROVE Keeps(m)
    BY <2>2, <2>3, <2>7
  <2>8. ASSUME Items(row') \subseteq Items(row) PROVE Keeps(m)
    BY <2>5, <2>6, <2>7, <2>8
  <2>9. CASE LockedSet /\ ~Overtaken
    <3>1. PICK op : op = Head(queue)
      OBVIOUS
    <3>2. PICK w : w = Apply(op, row)
      OBVIOUS
    <3>3. snap # <<>> /\ snap[1] = row
      BY <1>1, <2>9 DEF LockedSet, Overtaken, StoreInv, HolderIsCurrent
    <3>4. /\ op \in Op /\ Founded(op) /\ Made(op, row, w)
          /\ row' = w \/ row' = row
      BY <1>1, <2>9, <3>1, <3>2, <3>3, HeadMakes DEF LockedSet
    <3>5. CASE row' = row
      BY <2>8, <3>5
    <3>6. CASE row' = w
      <4>1. Becomes(op, row, f)
        BY <2>5, <3>4, <3>6 DEF Made
      <4>2. CASE f \in Items(row)
        BY <2>5, <2>6, <2>7, <4>2
      <4>3. CASE op.do = "save" /\ f = op.msg
        <5>1. \A p \in Member : e.got[p] # "read"
          <6> SUFFICES ASSUME NEW p \in Member, e.got[p] = "read" PROVE FALSE
            OBVIOUS
          <6>1. group /\ m \in Outbound \cap wire
            BY <2>4 DEF SaysTruth
          <6>3. m \in saved
            BY <1>1, <6>1 DEF StoreInv, SavedFirst
          <6> QED BY <2>5, <3>4, <4>3, <6>1, <6>3, ConstantsAssumption DEF Founded
        <5> QED BY <2>2, <2>5, <3>1, <3>3, <4>3, <5>1
      <4>4. ASSUME op.do = "status", NEW g \in Items(row), g.id = op.id, f = [g EXCEPT !.status = op.to]
            PROVE  Keeps(m)
        <5>1. g \in Stored
          BY <2>0, <4>4, RowFacts
        <5>2. g = e /\ op.id = m
          BY <2>5, <2>6, <4>4, <5>1 DEF Stored
        <5>3. f.got = e.got /\ f.status = op.to
          BY <4>4, <5>1, <5>2 DEF Stored
        <5>4. op.to = "read" \/ op = [do |-> "status", id |-> m, to |-> "delivered"]
          <6>1. op \in [do : {"status"}, id : Msg, to : {"delivered", "read"}]
            BY <3>4, <4>4 DEF Op
          <6> QED BY <5>2, <6>1
        <5> QED BY <2>2, <2>3, <3>1, <3>3, <5>3, <5>4
      <4>5. ASSUME op.do = "receipt", NEW g \in Items(row), g.id = op.id, g.got[op.by] # "read",
                   f = [g EXCEPT !.got[op.by] = op.to]
            PROVE  Keeps(m)
        <5>1. g \in Stored /\ op.by \in Member
          BY <2>0, <3>4, <4>5, RowFacts, OpShape
        <5>2. g = e
          BY <2>5, <2>6, <4>5, <5>1 DEF Stored
        <5>3. f.status = e.status /\ \A p \in Member : e.got[p] = "read" => f.got[p] = "read"
          BY <4>5, <5>1, <5>2 DEF Stored
        <5> QED BY <2>2, <2>3, <5>3
      <4>6. f.id \in Ids(row)
        BY <1>1, <2>5
      <4> QED BY <4>1, <4>2, <4>3, <4>4, <4>5, <4>6 DEF Becomes
    <3> QED BY <3>4, <3>5, <3>6
  <2>10. CASE PurgeSet /\ ~Overtaken
    <3>1. purge # <<>> /\ purge[1] = row
          /\ (row' = purge[2] \/ row' = row)
      BY <2>10 DEF PurgeSet, Overtaken
    <3> QED BY <1>1, <2>8, <3>1 DEF StoreInv, PurgeSound
  <2>11. CASE Wipe
    <3>1. row' = <<>> /\ Ids(<<>>) = {}
      BY <2>11 DEF Wipe, Ids
    <3> QED BY <1>1, <3>1
  <2>12. ASSUME NEW orderly \in BOOLEAN, Restart(orderly) PROVE Keeps(m)
    <3>1. row' = Purged(row) \/ row' = row
      BY <2>12 DEF Restart
    <3>2. Items(Purged(row)) \subseteq Items(row)
      BY <2>0, PurgedRow DEF Within
    <3> QED BY <2>8, <3>1, <3>2
  <2>13. CASE Overtaken
    BY <2>13
  <2>14. ASSUME row' = row PROVE Keeps(m)
    BY <2>8, <2>14
  <2>15. CASE LockedGet \/ LockedFail \/ PurgeGet \/ pushArchive \/ importArchive \/ mergeTombstones
              \/ Framed
    BY <2>14, <2>15 DEF LockedGet, LockedFail, PurgeGet, pushArchive, importArchive, mergeTombstones,
                        Framed, store
  <2> HIDE DEF Keeps
  <2> QED BY <1>1, <2>9, <2>10, <2>11, <2>12, <2>13, <2>15, QuietSteps DEF Noisy, Mutex
<1>2. StoreInv /\ [Next]_vars =>
          [\A m \in Ids(row) \cap Ids(row') : Keeps(m)]_vars
  BY <1>1
<1> QED BY <1>2, Sound, PTL DEF Spec, ReadStaysRead

=============================================================================
