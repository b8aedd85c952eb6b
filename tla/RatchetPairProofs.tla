------------------------- MODULE RatchetPairProofs --------------------------
(***************************************************************************)
(* Proofs about RatchetPair, for every MAX_SKIP and every bound, and about *)
(* Group, for any members.                                                 *)
(*                                                                         *)
(* KeyUsedOnce rests on lengths alone.  Every step of a ratchet makes its  *)
(* root chain longer, so an earlier sending chain never comes back; and a  *)
(* step adds two inputs, so the chains of the initiator keep an even       *)
(* length and those of the responder an odd one.                           *)
(*                                                                         *)
(* ReadableOnce relates the two ends.  One of them is a turn behind, and   *)
(* the other's sending chain is the one it would turn to (Leads); every    *)
(* packet not read has its key put aside, lies ahead on the receiving      *)
(* chain, or makes the end behind turn (Reach).                            *)
(*                                                                         *)
(* RolesAgree rests on two facts (GroupInv).  Some set of keys given out   *)
(* explains every key in a group, an invite or a notice, and holds one key *)
(* for a device that was added once (KeysGiven).  The role of admin is     *)
(* with one device or in one message to the device it names (RoleOnce).    *)
(***************************************************************************)
EXTENDS MessageKeys, FiniteSetTheorems, SequenceTheorems, TLAPS

LEMMA OtherPeer == \A p \in Peers : Other(p) \in Peers /\ Other(p) # p
  BY ConstantsAssumption DEF Other

LEMMA StepIsChain ==
    \A root \in Chain, k1, k2 \in Key :
        kdfRootStep(root, k1, k2) \in Chain /\ Len(kdfRootStep(root, k1, k2)) = Len(root) + 1
  BY DEF Chain, kdfRootStep

LEMMA SecretIsChain == \A h \in Key : secret(h) \in Chain /\ Len(secret(h)) = 1
  BY DEF Chain, secret

LEMMA SenderType ==
    \A shared \in Chain, own, remote \in Key :
        LET s == initSender(shared, own, remote)
        IN  /\ s \in RatchetState
            /\ s.sending = s.root /\ Len(s.root) = Len(shared) + 1
  BY StepIsChain DEF initSender, RatchetState, Chain, NoChain

LEMMA ReceiverType ==
    \A shared \in Chain, own \in Key :
        LET s == initReceiver(shared, own)
        IN  /\ s \in RatchetState
            /\ s.sending = NoChain /\ s.root = shared
  BY DEF initReceiver, RatchetState, Chain, NoChain, NoKey

LEMMA EncryptType ==
    \A s \in RatchetState :
        /\ ratchetEncrypt(s) \in RatchetState
        /\ ratchetEncrypt(s).ns = s.ns + 1
        /\ ratchetEncrypt(s).root = s.root /\ ratchetEncrypt(s).sending = s.sending
        /\ HeaderOf(s) \in Header /\ HeaderOf(s).n = s.ns
  BY DEF ratchetEncrypt, HeaderOf, RatchetState, Header

LEMMA SkipType ==
    ASSUME NEW s \in RatchetState, NEW until \in Nat, s.receiving = NoChain \/ s.dhReceiving \in Key
    PROVE  /\ skipMessageKeys(s, until) \in RatchetState
           /\ skipMessageKeys(s, until).root = s.root
           /\ skipMessageKeys(s, until).sending = s.sending
           /\ skipMessageKeys(s, until).ns = s.ns
           /\ skipMessageKeys(s, until).dhReceiving = s.dhReceiving
           /\ skipMessageKeys(s, until).receiving = s.receiving
<1> DEFINE new == {[dh |-> s.dhReceiving, n |-> i, chain |-> s.receiving] :
                      i \in s.nr .. until - 1}
<1>1. CASE s.receiving = NoChain \/ until <= s.nr
  BY <1>1 DEF skipMessageKeys
<1>2. CASE ~(s.receiving = NoChain \/ until <= s.nr)
  <2>1. new \subseteq Skipped
    BY <1>2 DEF RatchetState, Skipped
  <2>2. skipMessageKeys(s, until) = [s EXCEPT !.nr = until, !.skipped = @ \cup new]
    BY <1>2 DEF skipMessageKeys
  <2> HIDE DEF new
  <2>3. s.skipped \cup new \in SUBSET Skipped
    BY <2>1 DEF RatchetState
  <2> QED
    BY <2>2, <2>3 DEF RatchetState
<1> QED
  BY <1>1, <1>2

LEMMA TurnType ==
    ASSUME NEW s \in RatchetState, NEW remote \in Key, NEW fresh \in Key
    PROVE  LET t == dhRatchetStep(s, remote, fresh)
           IN  /\ t \in RatchetState
               /\ t.sending = t.root /\ Len(t.root) = Len(s.root) + 2
               /\ t.ns = 0 /\ t.dhReceiving = remote
<1> DEFINE receiving == kdfRootStep(s.root, s.dhSending, remote)
           sending == kdfRootStep(receiving, fresh, remote)
<1>1. receiving \in Chain /\ Len(receiving) = Len(s.root) + 1
  BY StepIsChain DEF RatchetState
<1>2. sending \in Chain /\ Len(sending) = Len(s.root) + 2
  <2> HIDE DEF receiving
  <2>1. Len(s.root) \in Nat
    BY DEF RatchetState, Chain
  <2> QED
    BY <1>1, <2>1, StepIsChain
<1>3. dhRatchetStep(s, remote, fresh) =
        [s EXCEPT !.dhSending = fresh, !.dhReceiving = remote, !.root = sending,
                  !.sending = sending, !.receiving = receiving,
                  !.ns = 0, !.nr = 0, !.pn = s.ns]
  BY DEF dhRatchetStep
<1>4. s.ns \in Nat /\ s.skipped \in SUBSET Skipped
  BY DEF RatchetState
<1> DEFINE t == dhRatchetStep(s, remote, fresh)
<1> HIDE DEF receiving, sending
<1>5. /\ t.dhSending = fresh /\ t.dhReceiving = remote
      /\ t.root = sending /\ t.sending = sending /\ t.receiving = receiving
      /\ t.ns = 0 /\ t.nr = 0 /\ t.pn = s.ns /\ t.skipped = s.skipped
  BY <1>3 DEF RatchetState
<1>6. t \in RatchetState
  <2>1. t = [dhSending |-> fresh, dhReceiving |-> remote, root |-> sending,
             sending |-> sending, receiving |-> receiving,
             ns |-> 0, nr |-> 0, pn |-> s.ns, skipped |-> s.skipped]
    BY <1>3 DEF RatchetState
  <2> HIDE DEF t
  <2> QED
    BY <1>1, <1>2, <1>4, <2>1 DEF RatchetState
<1> HIDE DEF t
<1>7. /\ t \in RatchetState
      /\ t.sending = t.root /\ Len(t.root) = Len(s.root) + 2
      /\ t.ns = 0 /\ t.dhReceiving = remote
  BY <1>2, <1>5, <1>6
<1> QED
  BY <1>7 DEF t

\* A chain that has keys to skip has the remote key they are filed under.
Sane(s) == s.receiving = NoChain \/ s.dhReceiving \in Key

\* A packet is opened on the chains of before, or the ratchet turned once.
LEMMA DecryptType ==
    ASSUME NEW s \in RatchetState, Sane(s), NEW header \in Header, NEW fresh \in Key
    PROVE  LET t == ratchetDecrypt(s, header, fresh)
           IN  /\ t \in RatchetState /\ Sane(t)
               /\ \/ t.root = s.root /\ t.sending = s.sending /\ t.ns = s.ns
                  \/ t.sending = t.root /\ Len(t.root) = Len(s.root) + 2 /\ t.ns = 0
<1> DEFINE t == ratchetDecrypt(s, header, fresh)
<1>0. header.dh \in Key /\ header.pn \in Nat /\ header.n \in Nat
  BY DEF Header
<1>1. CASE InSkipped(s, header) # {}
  <2>1. t = [s EXCEPT !.skipped = @ \ InSkipped(s, header)]
    BY <1>1 DEF ratchetDecrypt
  <2> HIDE DEF t
  <2>2. /\ t \in RatchetState
        /\ t.receiving = s.receiving /\ t.dhReceiving = s.dhReceiving
        /\ t.root = s.root /\ t.sending = s.sending /\ t.ns = s.ns
    BY <2>1 DEF RatchetState
  <2> QED
    BY <2>2 DEF t, Sane
<1>2. CASE InSkipped(s, header) = {}
  <2> DEFINE u == Turned(s, header, fresh)
             v == skipMessageKeys(u, header.n)
  <2>1. /\ u \in RatchetState /\ Sane(u)
        /\ \/ u.root = s.root /\ u.sending = s.sending /\ u.ns = s.ns
           \/ u.sending = u.root /\ Len(u.root) = Len(s.root) + 2 /\ u.ns = 0
    <3>1. CASE header.dh = s.dhReceiving
      BY <3>1 DEF Turned
    <3>2. CASE header.dh # s.dhReceiving
      <4> DEFINE w == skipMessageKeys(s, header.pn)
      <4>1. w \in RatchetState /\ w.root = s.root
        BY <1>0, SkipType DEF Sane
      <4>2. u = dhRatchetStep(w, header.dh, fresh)
        BY <3>2 DEF Turned
      <4> HIDE DEF w, u
      <4>3. /\ u \in RatchetState /\ u.dhReceiving = header.dh
            /\ u.sending = u.root /\ Len(u.root) = Len(w.root) + 2 /\ u.ns = 0
        BY <1>0, <4>1, <4>2, TurnType
      <4> QED
        BY <1>0, <4>1, <4>3 DEF Sane
    <3> QED
      BY <3>1, <3>2
  <2>2. t = [v EXCEPT !.nr = @ + 1]
    BY <1>2 DEF ratchetDecrypt, Positioned
  <2> HIDE DEF u
  <2>3. /\ v \in RatchetState /\ v.root = u.root /\ v.sending = u.sending /\ v.ns = u.ns
        /\ v.dhReceiving = u.dhReceiving /\ v.receiving = u.receiving
    BY <1>0, <2>1, SkipType DEF Sane
  <2> HIDE DEF v, t
  <2>4. /\ t \in RatchetState /\ t.root = v.root /\ t.sending = v.sending /\ t.ns = v.ns
        /\ t.dhReceiving = v.dhReceiving /\ t.receiving = v.receiving
    BY <2>2, <2>3 DEF RatchetState
  <2> QED
    BY <2>1, <2>3, <2>4 DEF Sane, t
<1> QED
  BY <1>1, <1>2

LEMMA Parity == \A n \in Nat : (n + 2) % 2 = n % 2
  BY SMT

LEMMA Small == 1 % 2 = 1 /\ 2 % 2 = 0
  BY SMT

-----------------------------------------------------------------------------
(* The inductive invariant *)

Sanity ==
    \A p \in Peers : \A s \in {session[p], stored[p]} : s # NoSession => Sane(s)

\* What is sent is older than the sending chain, or earlier on it.
Behind(m, s) ==
    /\ s.sending = s.root
    /\ \/ Len(m.chain) < Len(s.root)
       \/ m.chain = s.root /\ m.header.n < s.ns

Side(i, p) == IF p = i THEN 0 ELSE 1

\* i is the initiator.
Lengths(i) ==
    /\ \A m \in net : m.type = "x3dh_init" => m.from = i
    /\ \A p \in Peers : Has(p) => /\ session[p].sending \in {NoChain, session[p].root}
                                  /\ Len(session[p].root) % 2 = Side(i, p)
    /\ \A m \in sent : /\ Has(m.from) /\ Behind(m, session[m.from])
                       /\ Len(m.chain) % 2 = Side(i, m.from)

OnlySent == \A m \in net : m.type = "data" => m \in sent

IInv ==
    /\ TypeOK
    /\ Sanity
    /\ OnlySent
    /\ ~spoiled => \E i \in Peers : Lengths(i)
    /\ KeyUsedOnce

LEMMA HasState == ASSUME TypeOK, Sanity, NEW p \in Peers, Has(p)
                  PROVE  session[p] \in RatchetState /\ Sane(session[p])
  BY DEF TypeOK, Sanity, Has

LEMMA Keys == ASSUME TypeOK, NEW p \in Peers PROVE SPK(p) \in Key /\ Fresh(p) \in Key
  BY DEF TypeOK, SPK, Fresh, Key

LEMMA ArriveNet == ASSUME NEW m, Arrive(m), TypeOK
                   PROVE m \in net /\ net' \subseteq net /\ copies' \in Nat
  BY ConstantsAssumption DEF Arrive, TypeOK

\* Initially there is one session, the initiator's, and nothing was sent.
LEMMA InitIInv == Init => IInv
<1> SUFFICES ASSUME Init PROVE IInv
  OBVIOUS
<1>1. PICK p \in Peers :
         LET h == <<p, 1>>
         IN  /\ session = [q \in Peers |-> IF q = p THEN initSender(secret(h), h, SPK(Other(p)))
                                           ELSE NoSession]
             /\ drawn = [q \in Peers |-> IF q = p THEN 1 ELSE 0]
             /\ net = {[type |-> "x3dh_init", from |-> p, h |-> h]}
  BY DEF Init
<1> DEFINE h == <<p, 1>>
           s == initSender(secret(h), h, SPK(Other(p)))
<1>2. h \in Key /\ SPK(Other(p)) \in Key
  BY OtherPeer DEF Key, SPK
<1>3. secret(h) \in Chain /\ Len(secret(h)) = 1
  BY <1>2, SecretIsChain
<1>4. s \in RatchetState /\ s.sending = s.root /\ Len(s.root) = 2
  <2> HIDE DEF h
  <2>1. s \in RatchetState /\ s.sending = s.root /\ Len(s.root) = Len(secret(h)) + 1
    BY <1>2, <1>3, SenderType
  <2> HIDE DEF s
  <2> QED
    BY <1>3, <2>1
<1>5. s.receiving = NoChain
  BY DEF initSender
<1>6. /\ session = [q \in Peers |-> IF q = p THEN s ELSE NoSession]
      /\ net = {[type |-> "x3dh_init", from |-> p, h |-> h]}
      /\ stored = session
      /\ sent = {} /\ read = {} /\ spoiled = FALSE
      /\ sends = 0 /\ copies = 0 /\ crashes = 0
  BY <1>1 DEF Init
<1>7. net \subseteq Handshake \cup Data
  BY <1>2, <1>6 DEF Handshake
<1>8. drawn \in [Peers -> Nat]
  BY <1>1
<1> HIDE DEF s, h
<1>9. TypeOK
  <2>1. session \in [Peers -> RatchetState \cup {NoSession}]
    BY <1>4, <1>6
  <2>2. stored \in [Peers -> RatchetState \cup {NoSession}]
    BY <1>6, <2>1
  <2>3. {sends, copies, crashes} \subseteq Nat
    BY <1>6
  <2>4. sent \subseteq Data /\ read \subseteq sent /\ spoiled \in BOOLEAN
    BY <1>6
  <2> QED
    BY <1>7, <1>8, <2>1, <2>2, <2>3, <2>4 DEF TypeOK
<1>10. Sanity
  <2>1. Sane(s)
    BY <1>4, <1>5 DEF Sane
  <2>2. \A q \in Peers : session[q] \in {s, NoSession} /\ stored[q] \in {s, NoSession}
    BY <1>6
  <2> QED
    BY <2>1, <2>2 DEF Sanity
<1>11. Lengths(p)
  <2>1. \A m \in net : m.type = "x3dh_init" => m.from = p
    BY <1>6
  <2>2. ASSUME NEW q \in Peers, Has(q)
        PROVE  /\ session[q].sending \in {NoChain, session[q].root}
               /\ Len(session[q].root) % 2 = Side(p, q)
    <3>1. q = p /\ session[q] = s
      BY <1>6, <2>2 DEF Has
    <3> QED
      BY <1>4, <3>1, Small DEF Side
  <2> QED
    BY <1>6, <2>1, <2>2 DEF Lengths
<1>12. KeyUsedOnce
  BY <1>6 DEF KeyUsedOnce
<1>13. OnlySent
  BY <1>6 DEF OnlySent
<1> QED
  BY <1>6, <1>9, <1>10, <1>11, <1>12, <1>13 DEF IInv

LEMMA CompleteKeepsIInv ==
    ASSUME IInv, NEW q \in Peers, NEW m \in net, completeIncomingHandshake(q, m)
    PROVE  IInv'
<1> USE DEF IInv
<1> DEFINE s == initReceiver(secret(m.h), SPK(q))
<1>1. /\ m.type = "x3dh_init" /\ m.from # q /\ m.h \in Key
  BY DEF completeIncomingHandshake, TypeOK, Handshake, Data
<1>2. secret(m.h) \in Chain /\ Len(secret(m.h)) = 1 /\ SPK(q) \in Key
  BY <1>1, SecretIsChain, Keys
<1>3. /\ s \in RatchetState /\ s.sending = NoChain /\ Len(s.root) = 1
  BY <1>2, ReceiverType
<1>4. s.receiving = NoChain
  BY DEF initReceiver
<1>5. /\ session' = [session EXCEPT ![q] = s]
      /\ spoiled' = (spoiled \/ Has(q))
      /\ UNCHANGED <<stored, drawn, sends, crashes, sent, read>>
      /\ net' \subseteq net /\ copies' \in Nat
  BY ArriveNet DEF completeIncomingHandshake
<1> HIDE DEF s
<1>6. TypeOK'
  BY <1>3, <1>5 DEF TypeOK
<1>7. Sanity'
  BY <1>4, <1>5 DEF Sanity, Sane, TypeOK
<1>8. ASSUME ~spoiled' PROVE \E i \in Peers : Lengths(i)'
  <2>1. ~spoiled /\ ~Has(q)
    BY <1>5, <1>8
  <2>2. PICK i \in Peers : Lengths(i)
    BY <2>1
  <2>3. i # q
    BY <1>1, <2>2 DEF Lengths
  <2>4. \A m1 \in sent : m1.from # q /\ m1.from \in Peers
    BY <2>1, <2>2 DEF Lengths, TypeOK, Data
  <2>5. \A p \in Peers : p # q => session'[p] = session[p]
    BY <1>5 DEF TypeOK
  <2>6. session'[q] = s
    BY <1>5 DEF TypeOK
  <2>7. \A m1 \in net' : m1.type = "x3dh_init" => m1.from = i
    BY <1>5, <2>2 DEF Lengths
  <2>8. \A p \in Peers : Has(p)' => /\ session'[p].sending \in {NoChain, session'[p].root}
                                    /\ Len(session'[p].root) % 2 = Side(i, p)
    BY <1>3, <2>2, <2>3, <2>5, <2>6, Small DEF Lengths, Has, Side
  <2>9. \A m1 \in sent' : /\ Has(m1.from)' /\ Behind(m1, session'[m1.from])
                          /\ Len(m1.chain) % 2 = Side(i, m1.from)
    BY <1>5, <2>2, <2>4, <2>5 DEF Lengths, Has
  <2> QED
    BY <2>7, <2>8, <2>9 DEF Lengths
<1>9. KeyUsedOnce'
  BY <1>5 DEF KeyUsedOnce
<1>10. OnlySent'
  BY <1>5 DEF OnlySent
<1> QED
  BY <1>6, <1>7, <1>8, <1>9, <1>10

LEMMA SendKeepsIInv ==
    ASSUME IInv, NEW p \in Peers, Send(p)
    PROVE  IInv'
<1> USE DEF IInv
<1> DEFINE s == session[p]
           m == [type |-> "data", from |-> p, header |-> HeaderOf(s),
                 chain |-> s.sending, id |-> sends]
<1>1. Has(p) /\ s.sending # NoChain
  BY DEF Send, CanEncrypt
<1>2. s \in RatchetState /\ Sane(s)
  BY <1>1, HasState
<1>3. /\ ratchetEncrypt(s) \in RatchetState
      /\ ratchetEncrypt(s).ns = s.ns + 1
      /\ ratchetEncrypt(s).root = s.root /\ ratchetEncrypt(s).sending = s.sending
      /\ HeaderOf(s) \in Header /\ HeaderOf(s).n = s.ns
  BY <1>2, EncryptType
<1>4. /\ ratchetEncrypt(s).receiving = s.receiving /\ ratchetEncrypt(s).dhReceiving = s.dhReceiving
      /\ ratchetEncrypt(s) # NoSession
  BY <1>2, <1>1 DEF ratchetEncrypt, RatchetState, NoSession
<1>5. /\ session' = [session EXCEPT ![p] = ratchetEncrypt(s)]
      /\ net' = net \cup {m} /\ sent' = sent \cup {m}
      /\ sends' = sends + 1
      /\ UNCHANGED <<stored, drawn, copies, crashes, read, spoiled>>
  BY DEF Send
<1>6. m \in Data
  BY <1>2, <1>3 DEF Data, RatchetState, TypeOK
<1>7. /\ m.from = p /\ m.chain = s.sending /\ m.header.n = s.ns /\ m.type = "data"
  BY <1>3
<1>8. /\ session'[p] = ratchetEncrypt(s)
      /\ \A q \in Peers : q # p => session'[q] = session[q]
  BY <1>5 DEF TypeOK
<1> DEFINE e == ratchetEncrypt(s)
<1> HIDE DEF m, e
<1>9. TypeOK'
  BY <1>3, <1>5, <1>6 DEF TypeOK, e
<1>10. Sanity'
  BY <1>2, <1>4, <1>5, <1>8 DEF Sanity, Sane
<1>11. s.ns \in Nat
  BY <1>2 DEF RatchetState
<1>14. /\ session'[p] = e /\ e # NoSession
       /\ e.ns = s.ns + 1 /\ e.root = s.root /\ e.sending = s.sending
  BY <1>3, <1>4, <1>8 DEF e
<1>12. ASSUME NEW i \in Peers, Lengths(i) PROVE Lengths(i)'
  <2>1. s.sending = s.root /\ Len(s.root) % 2 = Side(i, p)
    BY <1>1, <1>12 DEF Lengths
  <2>2. \A m1 \in net' : m1.type = "x3dh_init" => m1.from = i
    BY <1>5, <1>7, <1>12 DEF Lengths
  <2>3. \A q \in Peers : Has(q)' => /\ session'[q].sending \in {NoChain, session'[q].root}
                                    /\ Len(session'[q].root) % 2 = Side(i, q)
    <3> SUFFICES ASSUME NEW q \in Peers, Has(q)'
                 PROVE  /\ session'[q].sending \in {NoChain, session'[q].root}
                        /\ Len(session'[q].root) % 2 = Side(i, q)
      OBVIOUS
    <3>1. CASE q = p
      BY <1>14, <2>1, <3>1
    <3>2. CASE q # p
      BY <1>8, <1>12, <3>2 DEF Lengths, Has
    <3> QED
      BY <3>1, <3>2
  <2>4. ASSUME NEW m1 \in sent
        PROVE  /\ Has(m1.from)' /\ Behind(m1, session'[m1.from])
               /\ Len(m1.chain) % 2 = Side(i, m1.from)
    <3>1. /\ Has(m1.from) /\ Behind(m1, session[m1.from])
          /\ Len(m1.chain) % 2 = Side(i, m1.from)
      BY <1>12 DEF Lengths
    <3>2. m1.from \in Peers /\ m1.header.n \in Nat
      BY DEF TypeOK, Data, Header
    <3>3. CASE m1.from = p
      <4>1. m1.chain = s.root /\ m1.header.n < s.ns => m1.header.n < s.ns + 1
        BY <1>11, <3>2
      <4>2. Behind(m1, e)
        <5>1. Behind(m1, s)
          BY <3>1, <3>3
        <5> QED
          BY <1>14, <4>1, <5>1 DEF Behind
      <4>3. Has(m1.from)'
        BY <1>14, <3>3 DEF Has, NoSession
      <4>4. session'[m1.from] = e
        BY <1>14, <3>3
      <4> QED
        BY <3>1, <4>2, <4>3, <4>4
    <3>4. CASE m1.from # p
      BY <1>8, <3>1, <3>2, <3>4 DEF Has
    <3> QED
      BY <3>3, <3>4
  <2>5. /\ session'[m.from] # NoSession /\ Behind(m, session'[m.from])
        /\ Len(m.chain) % 2 = Side(i, m.from)
    <3>1. s.ns < e.ns
      BY <1>11, <1>14
    <3>2. Behind(m, e)
      BY <1>7, <1>14, <2>1, <3>1 DEF Behind
    <3>3. session'[m.from] = e
      BY <1>7, <1>14
    <3>4. session'[m.from] # NoSession
      BY <1>14, <3>3
    <3>5. Len(m.chain) % 2 = Side(i, m.from)
      BY <1>7, <2>1
    <3> QED
      BY <3>2, <3>3, <3>4, <3>5
  <2>6. \A m1 \in sent' : /\ Has(m1.from)' /\ Behind(m1, session'[m1.from])
                          /\ Len(m1.chain) % 2 = Side(i, m1.from)
    <3> SUFFICES ASSUME NEW m1 \in sent'
                 PROVE  /\ Has(m1.from)' /\ Behind(m1, session'[m1.from])
                        /\ Len(m1.chain) % 2 = Side(i, m1.from)
      OBVIOUS
    <3>1. CASE m1 \in sent
      BY <2>4, <3>1
    <3>2. CASE m1 = m
      BY <2>5, <3>2 DEF Has
    <3> QED
      BY <1>5, <3>1, <3>2
  <2> QED
    BY <2>2, <2>3, <2>6 DEF Lengths
<1>13. KeyUsedOnce'
  <2> SUFFICES ASSUME ~spoiled', NEW m1 \in sent',
                      m1.chain = m.chain, m1.header.n = m.header.n
               PROVE  m1 = m
    BY <1>5 DEF KeyUsedOnce
  <2>1. PICK i \in Peers : Lengths(i)
    BY <1>5
  <2>2. SUFFICES ASSUME m1 \in sent PROVE FALSE
    BY <1>5
  <2>3. s.sending = s.root /\ Len(s.root) % 2 = Side(i, p)
    BY <1>1, <2>1 DEF Lengths
  <2>4. /\ Behind(m1, session[m1.from]) /\ Len(m1.chain) % 2 = Side(i, m1.from)
        /\ m1.from \in Peers
    BY <2>1, <2>2 DEF Lengths, TypeOK, Data
  <2>5. m1.from = p
    <3>1. Len(m1.chain) % 2 = Side(i, p)
      BY <1>7, <2>2, <2>3
    <3>2. Peers = {i, Other(i)} /\ Other(i) # i
      BY ConstantsAssumption, OtherPeer
    <3>3. m1.from # p => Side(i, m1.from) # Side(i, p)
      BY <2>4, <3>2 DEF Side
    <3> QED
      BY <2>4, <3>1, <3>3
  <2>6. m1.header.n < s.ns \/ Len(m1.chain) < Len(s.root)
    BY <2>4, <2>5 DEF Behind
  <2>7. Len(s.root) \in Nat
    BY <1>2 DEF RatchetState, Chain
  <2> QED
    BY <1>7, <1>11, <2>3, <2>6, <2>7
<1>15. OnlySent'
  BY <1>5 DEF OnlySent
<1> QED
  BY <1>5, <1>9, <1>10, <1>12, <1>13, <1>15

LEMMA ReadKeepsIInv ==
    ASSUME IInv, NEW q \in Peers, NEW m \in net, handleDataPacket(q, m)
    PROVE  IInv'
<1> USE DEF IInv
<1> DEFINE s == session[q]
           t == ratchetDecrypt(s, m.header, Fresh(q))
<1>1. Has(q) /\ m.type = "data" /\ m.from # q
  BY DEF handleDataPacket, Readable
<1>2. s \in RatchetState /\ Sane(s) /\ Fresh(q) \in Key
  BY <1>1, HasState, Keys
<1>3. m \in Data /\ m.header \in Header
  BY <1>1 DEF TypeOK, Data, Handshake
<1>4. /\ t \in RatchetState /\ Sane(t)
      /\ \/ t.root = s.root /\ t.sending = s.sending /\ t.ns = s.ns
         \/ t.sending = t.root /\ Len(t.root) = Len(s.root) + 2 /\ t.ns = 0
  BY <1>2, <1>3, DecryptType
<1>5. /\ session' = [session EXCEPT ![q] = t]
      /\ drawn' = [drawn EXCEPT ![q] = IF t.dhSending = Fresh(q) THEN @ + 1 ELSE @]
      /\ read' = read \cup {m}
      /\ UNCHANGED <<stored, sends, crashes, sent, spoiled>>
      /\ net' \subseteq net /\ copies' \in Nat
  BY ArriveNet DEF handleDataPacket
<1> HIDE DEF t
<1>6. /\ session'[q] = t
      /\ \A p \in Peers : p # q => session'[p] = session[p]
  BY <1>5 DEF TypeOK
<1>7. TypeOK'
  <2>1. m \in sent
    BY <1>1 DEF OnlySent
  <2>2. drawn' \in [Peers -> Nat]
    BY <1>5 DEF TypeOK
  <2> QED
    BY <1>4, <1>5, <2>1, <2>2 DEF TypeOK
<1>8. Sanity'
  BY <1>4, <1>5, <1>6 DEF Sanity
<1>9. OnlySent'
  BY <1>5 DEF OnlySent
<1>10. KeyUsedOnce'
  BY <1>5 DEF KeyUsedOnce
<1>11. ASSUME NEW i \in Peers, Lengths(i) PROVE Lengths(i)'
  <2>1. Len(s.root) \in Nat /\ s.ns \in Nat /\ Len(s.root) % 2 = Side(i, q)
    <3>1. s.root \in Chain /\ s.ns \in Nat
      BY <1>2 DEF RatchetState
    <3>2. Len(s.root) \in Nat
      BY <3>1 DEF Chain
    <3>3. Len(s.root) % 2 = Side(i, q)
      BY <1>1, <1>11 DEF Lengths
    <3> QED
      BY <3>1, <3>2, <3>3
  <2>2. Len(t.root) % 2 = Side(i, q) /\ t.sending \in {NoChain, t.root}
    <3>1. s.sending \in {NoChain, s.root}
      BY <1>1, <1>11 DEF Lengths
    <3>2. (Len(s.root) + 2) % 2 = Len(s.root) % 2
      BY <2>1, Parity
    <3>3. CASE t.root = s.root /\ t.sending = s.sending /\ t.ns = s.ns
      BY <2>1, <3>1, <3>3
    <3>4. CASE t.sending = t.root /\ Len(t.root) = Len(s.root) + 2 /\ t.ns = 0
      BY <2>1, <3>2, <3>4
    <3> QED
      BY <1>4, <3>3, <3>4
  <2>3. \A m1 \in net' : m1.type = "x3dh_init" => m1.from = i
    BY <1>5, <1>11 DEF Lengths
  <2>4. \A p \in Peers : Has(p)' => /\ session'[p].sending \in {NoChain, session'[p].root}
                                    /\ Len(session'[p].root) % 2 = Side(i, p)
    <3> SUFFICES ASSUME NEW p \in Peers, Has(p)'
                 PROVE  /\ session'[p].sending \in {NoChain, session'[p].root}
                        /\ Len(session'[p].root) % 2 = Side(i, p)
      OBVIOUS
    <3>1. CASE p = q
      BY <1>6, <2>2, <3>1
    <3>2. CASE p # q
      BY <1>6, <1>11, <3>2 DEF Lengths, Has
    <3> QED
      BY <3>1, <3>2
  <2>5. ASSUME NEW m1 \in sent
        PROVE  /\ Has(m1.from)' /\ Behind(m1, session'[m1.from])
               /\ Len(m1.chain) % 2 = Side(i, m1.from)
    <3>1. /\ Has(m1.from) /\ Behind(m1, session[m1.from])
          /\ Len(m1.chain) % 2 = Side(i, m1.from)
      BY <1>11 DEF Lengths
    <3>2. m1.from \in Peers /\ Len(m1.chain) \in Nat
      BY DEF TypeOK, Data, Chain
    <3>3. CASE m1.from = q
      <4>1. t # NoSession
        BY <1>4 DEF RatchetState, NoSession
      <4>2. Behind(m1, t)
        BY <1>4, <2>1, <3>1, <3>2, <3>3 DEF Behind
      <4> QED
        BY <1>6, <3>1, <3>3, <4>1, <4>2 DEF Has
    <3>4. CASE m1.from # q
      BY <1>6, <3>1, <3>2, <3>4 DEF Has
    <3> QED
      BY <3>3, <3>4
  <2> QED
    BY <1>5, <2>3, <2>4, <2>5 DEF Lengths
<1> QED
  BY <1>5, <1>7, <1>8, <1>9, <1>10, <1>11

\* The other steps leave sent alone, and change no session but by a crash.
LEMMA RestKeepsIInv ==
    ASSUME IInv, NEW p \in Peers,
           \/ Persist(p) \/ Crash(p) \/ UNCHANGED vars
           \/ \E m \in net : Undecryptable(p, m)
    PROVE  IInv'
<1> USE DEF IInv
<1>1. CASE Persist(p)
  <2>1. /\ stored' = [stored EXCEPT ![p] = session[p]]
        /\ UNCHANGED <<session, drawn, net, sends, copies, crashes, sent, read, spoiled>>
    BY <1>1 DEF Persist, counts, history
  <2>2. TypeOK'
    BY <2>1 DEF TypeOK
  <2>3. Sanity'
    BY <2>1 DEF Sanity, TypeOK
  <2>4. OnlySent' /\ KeyUsedOnce'
    BY <2>1 DEF OnlySent, KeyUsedOnce
  <2>5. (~spoiled => \E i \in Peers : Lengths(i))'
    BY <2>1 DEF Lengths, Has
  <2> QED
    BY <2>2, <2>3, <2>4, <2>5
<1>2. CASE Crash(p)
  <2>1. /\ session' = [session EXCEPT ![p] = stored[p]]
        /\ crashes' = crashes + 1
        /\ spoiled' = (spoiled \/ stored[p] # session[p])
        /\ UNCHANGED <<stored, drawn, net, sends, copies, sent, read>>
    BY <1>2 DEF Crash
  <2>2. TypeOK'
    BY <2>1 DEF TypeOK
  <2>3. Sanity'
    BY <2>1 DEF Sanity, TypeOK
  <2>4. ~spoiled' => session' = session /\ ~spoiled
    BY <2>1 DEF TypeOK
  <2>5. OnlySent'
    BY <2>1 DEF OnlySent
  <2>6. KeyUsedOnce'
    BY <2>1, <2>4 DEF KeyUsedOnce
  <2>7. ASSUME ~spoiled' PROVE \E i \in Peers : Lengths(i)'
    <3>1. PICK i \in Peers : Lengths(i)
      BY <2>4, <2>7
    <3>2. Lengths(i)'
      BY <2>1, <2>4, <2>7, <3>1 DEF Lengths, Has
    <3> QED
      BY <3>2
  <2> QED
    BY <2>2, <2>3, <2>5, <2>6, <2>7
<1>3. CASE UNCHANGED vars
  <2>1. UNCHANGED <<session, stored, drawn, net, sends, copies, crashes, sent, read, spoiled>>
    BY <1>3 DEF vars, counts, history
  <2>2. TypeOK' /\ Sanity' /\ OnlySent' /\ KeyUsedOnce'
    BY <2>1 DEF TypeOK, Sanity, OnlySent, KeyUsedOnce
  <2>3. (~spoiled => \E i \in Peers : Lengths(i))'
    BY <2>1 DEF Lengths, Has
  <2> QED
    BY <2>2, <2>3
<1>4. CASE \E m \in net : Undecryptable(p, m)
  <2>1. /\ UNCHANGED <<session, stored, drawn, sends, crashes, sent, read, spoiled>>
        /\ net' \subseteq net /\ copies' \in Nat
    BY <1>4, ArriveNet DEF Undecryptable, history
  <2>2. TypeOK'
    BY <2>1 DEF TypeOK
  <2>3. Sanity' /\ OnlySent' /\ KeyUsedOnce'
    BY <2>1 DEF Sanity, OnlySent, KeyUsedOnce
  <2>4. (~spoiled => \E i \in Peers : Lengths(i))'
    BY <2>1 DEF Lengths, Has
  <2> QED
    BY <2>2, <2>3, <2>4
<1> QED
  BY <1>1, <1>2, <1>3, <1>4

\* IInv is inductive.
LEMMA NextKeepsIInv == IInv /\ [Next]_vars => IInv'
<1> SUFFICES ASSUME IInv, [Next]_vars PROVE IInv'
  OBVIOUS
<1>1. CASE UNCHANGED vars
  <2>1. PICK p \in Peers : TRUE
    BY ConstantsAssumption
  <2> QED
    BY <1>1, <2>1, RestKeepsIInv
<1>2. CASE Next
  <2>1. PICK p \in Peers :
          \/ Send(p) \/ Persist(p) \/ Crash(p)
          \/ \E m \in net : \/ completeIncomingHandshake(p, m)
                            \/ handleDataPacket(p, m)
                            \/ Undecryptable(p, m)
    BY <1>2 DEF Next
  <2> QED
    BY <2>1, SendKeepsIInv, CompleteKeepsIInv, ReadKeepsIInv, RestKeepsIInv
<1> QED
  BY <1>1, <1>2

-----------------------------------------------------------------------------
\* The variables of RatchetPair keep their types, and only what was sent is
\* read (sessions of session-manager.ts, RatchetState of ratchet/index.ts).
THEOREM TypeCorrectness == Spec => []TypeOK
<1>1. IInv => TypeOK
  BY DEF IInv
<1> QED
  BY <1>1, InitIInv, NextKeepsIInv, PTL DEF Spec

\* ratchetEncrypt uses each message key once, whatever packets arrive in
\* whatever order, as long as no session was reset.
THEOREM KeysUsedOnce == Spec => []KeyUsedOnce
<1>1. IInv => KeyUsedOnce
  BY DEF IInv
<1> QED
  BY <1>1, InitIInv, NextKeepsIInv, PTL DEF Spec

-----------------------------------------------------------------------------
(* Reading a packet.  ratchetDecrypt finds its key among the skipped ones, *)
(* on the receiving chain, or on the chain the ratchet turns to.           *)

\* The keys a chain leaves behind that moves from one number to another.
Passed(k, dh, chain, from, to) ==
    /\ chain # NoChain
    /\ k.dh = dh /\ k.chain = chain
    /\ from <= k.n /\ k.n < to

\* skipMessageKeys, field by field.
LEMMA SkipFields ==
    ASSUME NEW s \in RatchetState, NEW until \in Nat, Sane(s),
           NEW t, t = skipMessageKeys(s, until)
    PROVE  /\ t \in RatchetState
           /\ t.dhSending = s.dhSending /\ t.dhReceiving = s.dhReceiving
           /\ t.root = s.root /\ t.sending = s.sending /\ t.receiving = s.receiving
           /\ t.ns = s.ns /\ t.pn = s.pn
           /\ t.nr = IF s.receiving = NoChain \/ until <= s.nr THEN s.nr ELSE until
           /\ \A k \in Skipped : k \in t.skipped <=>
                 k \in s.skipped \/ Passed(k, s.dhReceiving, s.receiving, s.nr, until)
<1>0. t \in RatchetState
  BY SkipType DEF Sane
<1>1. CASE s.receiving = NoChain \/ until <= s.nr
  <2>1. t = s
    BY <1>1 DEF skipMessageKeys
  <2>2. s.nr \in Nat
    BY DEF RatchetState
  <2>3. \A k \in Skipped : ~Passed(k, s.dhReceiving, s.receiving, s.nr, until)
    BY <1>1, <2>2 DEF Passed, Skipped
  <2> QED
    BY <1>0, <1>1, <2>1, <2>3
<1>2. CASE ~(s.receiving = NoChain \/ until <= s.nr)
  <2> DEFINE new == {[dh |-> s.dhReceiving, n |-> i, chain |-> s.receiving] :
                        i \in s.nr .. until - 1}
  <2>1. t = [s EXCEPT !.nr = until, !.skipped = @ \cup new]
    BY <1>2 DEF skipMessageKeys
  <2>2. /\ s.nr \in Nat /\ s.dhReceiving \in Key /\ s.receiving \in Chain
    BY <1>2 DEF RatchetState, Sane
  <2>3. ASSUME NEW k \in Skipped
        PROVE  k \in new <=> Passed(k, s.dhReceiving, s.receiving, s.nr, until)
    <3>1. k = [dh |-> k.dh, n |-> k.n, chain |-> k.chain] /\ k.n \in Nat
      BY DEF Skipped
    <3>2. k \in new => Passed(k, s.dhReceiving, s.receiving, s.nr, until)
      BY <1>2, <2>2 DEF Passed
    <3>3. Passed(k, s.dhReceiving, s.receiving, s.nr, until) => k.n \in s.nr .. until - 1
      BY <2>2, <3>1 DEF Passed
    <3>4. Passed(k, s.dhReceiving, s.receiving, s.nr, until) => k \in new
      BY <3>1, <3>3 DEF Passed
    <3> QED
      BY <3>2, <3>4
  <2> HIDE DEF new
  <2>4. /\ t.dhSending = s.dhSending /\ t.dhReceiving = s.dhReceiving
        /\ t.root = s.root /\ t.sending = s.sending /\ t.receiving = s.receiving
        /\ t.ns = s.ns /\ t.pn = s.pn /\ t.nr = until
        /\ t.skipped = s.skipped \cup new
    BY <2>1 DEF RatchetState
  <2> QED
    BY <1>0, <1>2, <2>3, <2>4
<1> QED
  BY <1>1, <1>2

\* dhRatchetStep, field by field.
IsTurnOf(t, s, remote, fresh) ==
    /\ t \in RatchetState
    /\ t.dhSending = fresh /\ t.dhReceiving = remote
    /\ t.receiving = Append(s.root, {s.dhSending, remote})
    /\ t.root = Append(t.receiving, {fresh, remote}) /\ t.sending = t.root
    /\ t.ns = 0 /\ t.nr = 0 /\ t.pn = s.ns /\ t.skipped = s.skipped
    /\ t.receiving # NoChain
    /\ Len(t.receiving) = Len(s.root) + 1 /\ Len(t.root) = Len(s.root) + 2

LEMMA TurnFields ==
    ASSUME NEW s \in RatchetState, NEW remote \in Key, NEW fresh \in Key,
           NEW t, t = dhRatchetStep(s, remote, fresh)
    PROVE  IsTurnOf(t, s, remote, fresh)
<1>1. t \in RatchetState
  BY TurnType
<1>2. /\ t.dhSending = fresh /\ t.dhReceiving = remote
      /\ t.receiving = kdfRootStep(s.root, s.dhSending, remote)
      /\ t.root = kdfRootStep(t.receiving, fresh, remote) /\ t.sending = t.root
      /\ t.ns = 0 /\ t.nr = 0 /\ t.pn = s.ns /\ t.skipped = s.skipped
  BY DEF dhRatchetStep, RatchetState
<1>3. s.root \in Chain /\ s.dhSending \in Key /\ Len(s.root) \in Nat
  BY DEF RatchetState, Chain
<1>4. t.receiving \in Chain /\ Len(t.receiving) = Len(s.root) + 1
  BY <1>2, <1>3, StepIsChain
<1>5. Len(t.root) = Len(s.root) + 2
  BY <1>2, <1>3, <1>4, StepIsChain
<1>6. t.receiving # NoChain
  BY <1>3, <1>4 DEF NoChain
<1> QED
  BY <1>1, <1>2, <1>4, <1>5, <1>6 DEF IsTurnOf, kdfRootStep

\* What a session promises of the keys it has put aside: they lie behind its
\* receiving position, and the remote key they are filed under names the chain.
Filed(s) ==
    /\ Len(s.receiving) < Len(s.root)
    /\ \A k \in s.skipped :
          /\ Len(k.chain) <= Len(s.receiving)
          /\ k.dh = s.dhReceiving <=> k.chain = s.receiving
          /\ k.chain = s.receiving => k.n < s.nr
    /\ \A k1, k2 \in s.skipped : k1.dh = k2.dh <=> k1.chain = k2.chain

\* The three ways from s to t that open the packet with this header and chain.
SameSending(s, t) ==
    t.dhSending = s.dhSending /\ t.root = s.root /\ t.sending = s.sending
    /\ t.ns = s.ns /\ t.pn = s.pn

SameReceiving(s, t) == t.dhReceiving = s.dhReceiving /\ t.receiving = s.receiving

BySkipped(s, t, header, chain) ==
    /\ SameSending(s, t) /\ SameReceiving(s, t) /\ t.nr = s.nr
    /\ [dh |-> header.dh, n |-> header.n, chain |-> chain] \in s.skipped
    /\ \A k \in Skipped : k \in t.skipped <=>
          k \in s.skipped /\ ~(k.dh = header.dh /\ k.n = header.n)

OnChain(s, t, header, chain) ==
    /\ SameSending(s, t) /\ SameReceiving(s, t)
    /\ header.dh = s.dhReceiving /\ chain = s.receiving /\ chain # NoChain
    /\ header.n >= s.nr /\ t.nr = header.n + 1
    /\ \A k \in Skipped : k \in t.skipped <=>
          k \in s.skipped \/ Passed(k, s.dhReceiving, s.receiving, s.nr, header.n)

ByTurn(s, t, header, chain, fresh) ==
    /\ header.dh # s.dhReceiving
    /\ \A k \in s.skipped : ~(k.dh = header.dh /\ k.n = header.n)
    /\ chain = Append(s.root, {s.dhSending, header.dh})
    /\ Len(chain) = Len(s.root) + 1 /\ Len(t.root) = Len(s.root) + 2
    /\ t.dhSending = fresh /\ t.dhReceiving = header.dh
    /\ t.receiving = chain
    /\ t.root = Append(chain, {fresh, header.dh}) /\ t.sending = t.root
    /\ t.ns = 0 /\ t.nr = header.n + 1 /\ t.pn = s.ns
    /\ \A k \in Skipped : k \in t.skipped <=>
          \/ k \in s.skipped
          \/ Passed(k, s.dhReceiving, s.receiving, s.nr, header.pn)
          \/ Passed(k, header.dh, chain, 0, header.n)

\* u is s after the turn, if there is one, and v is u moved up to header.n.
IsPosition(v, u, s, header, fresh) ==
    /\ v.receiving = u.receiving
    /\ v.nr = IF u.receiving = NoChain \/ header.n <= u.nr THEN u.nr ELSE header.n
    /\ \/ /\ header.dh = s.dhReceiving /\ u = s
          /\ SameSending(s, v) /\ SameReceiving(s, v)
          /\ \A k \in Skipped : k \in v.skipped <=>
                k \in s.skipped \/ Passed(k, s.dhReceiving, s.receiving, s.nr, header.n)
       \/ /\ header.dh # s.dhReceiving
          /\ u.nr = 0 /\ u.receiving # NoChain
          /\ Len(v.receiving) = Len(s.root) + 1 /\ Len(v.root) = Len(s.root) + 2
          /\ v.receiving = Append(s.root, {s.dhSending, header.dh})
          /\ v.root = Append(v.receiving, {fresh, header.dh}) /\ v.sending = v.root
          /\ v.dhSending = fresh /\ v.dhReceiving = header.dh
          /\ v.ns = 0 /\ v.pn = s.ns
          /\ \A k \in Skipped : k \in v.skipped <=>
                \/ k \in s.skipped
                \/ Passed(k, s.dhReceiving, s.receiving, s.nr, header.pn)
                \/ Passed(k, header.dh, v.receiving, 0, header.n)

LEMMA PositionedFields ==
    ASSUME NEW s \in RatchetState, Sane(s), NEW header \in Header, NEW fresh \in Key,
           NEW u, u = Turned(s, header, fresh), NEW v, v = Positioned(s, header, fresh)
    PROVE  u \in RatchetState /\ v \in RatchetState /\ IsPosition(v, u, s, header, fresh)
<1>0. header.dh \in Key /\ header.pn \in Nat /\ header.n \in Nat
  BY DEF Header
<1>1. v = skipMessageKeys(u, header.n)
  BY DEF Positioned
<1>2. CASE header.dh = s.dhReceiving
  <2>1. u = s
    BY <1>2 DEF Turned
  <2>2. /\ v \in RatchetState
        /\ v.dhSending = s.dhSending /\ v.dhReceiving = s.dhReceiving
        /\ v.root = s.root /\ v.sending = s.sending /\ v.receiving = s.receiving
        /\ v.ns = s.ns /\ v.pn = s.pn
        /\ v.nr = IF s.receiving = NoChain \/ header.n <= s.nr THEN s.nr ELSE header.n
        /\ \A k \in Skipped : k \in v.skipped <=>
              k \in s.skipped \/ Passed(k, s.dhReceiving, s.receiving, s.nr, header.n)
    <3>1. s \in RatchetState /\ header.n \in Nat /\ Sane(s) /\ v = skipMessageKeys(s, header.n)
      BY <1>0, <1>1, <2>1
    <3> QED
      BY <3>1, SkipFields, Zenon
  <2>3. SameSending(s, v) /\ SameReceiving(s, v)
    BY <2>2 DEF SameSending, SameReceiving
  <2> QED
    BY <1>2, <2>1, <2>2, <2>3 DEF IsPosition
<1>3. CASE header.dh # s.dhReceiving
  <2>0. PICK w : w = skipMessageKeys(s, header.pn)
    OBVIOUS
  <2>1. /\ w \in RatchetState /\ w.root = s.root /\ w.dhSending = s.dhSending /\ w.ns = s.ns
        /\ \A k \in Skipped : k \in w.skipped <=>
              k \in s.skipped \/ Passed(k, s.dhReceiving, s.receiving, s.nr, header.pn)
    BY <1>0, <2>0, SkipFields
  <2>2. u = dhRatchetStep(w, header.dh, fresh)
    BY <1>3, <2>0 DEF Turned
  <2>3. IsTurnOf(u, w, header.dh, fresh)
    <3>1. w \in RatchetState /\ header.dh \in Key /\ fresh \in Key
      BY <1>0, <2>1
    <3> QED
      BY <2>2, <3>1, TurnFields, Zenon
  <2>4. Sane(u)
    BY <1>0, <2>3 DEF IsTurnOf, Sane
  <2>5. /\ v \in RatchetState
        /\ v.dhSending = u.dhSending /\ v.dhReceiving = u.dhReceiving
        /\ v.root = u.root /\ v.sending = u.sending /\ v.receiving = u.receiving
        /\ v.ns = u.ns /\ v.pn = u.pn
        /\ v.nr = IF u.receiving = NoChain \/ header.n <= u.nr THEN u.nr ELSE header.n
        /\ \A k \in Skipped : k \in v.skipped <=>
              k \in u.skipped \/ Passed(k, u.dhReceiving, u.receiving, u.nr, header.n)
    <3>1. u \in RatchetState /\ header.n \in Nat /\ Sane(u) /\ v = skipMessageKeys(u, header.n)
      BY <1>0, <1>1, <2>3, <2>4 DEF IsTurnOf
    <3> QED
      BY <3>1, SkipFields, Zenon
  <2>6. /\ v.receiving = Append(s.root, {s.dhSending, header.dh})
        /\ v.root = Append(v.receiving, {fresh, header.dh}) /\ v.sending = v.root
        /\ v.dhSending = fresh /\ v.dhReceiving = header.dh
        /\ v.ns = 0 /\ v.pn = s.ns
        /\ Len(v.receiving) = Len(s.root) + 1 /\ Len(v.root) = Len(s.root) + 2
    BY <2>1, <2>3, <2>5 DEF IsTurnOf
  <2>7. \A k \in Skipped : k \in v.skipped <=>
           \/ k \in s.skipped
           \/ Passed(k, s.dhReceiving, s.receiving, s.nr, header.pn)
           \/ Passed(k, header.dh, v.receiving, 0, header.n)
    BY <2>1, <2>3, <2>5 DEF IsTurnOf
  <2> QED
    BY <1>3, <2>3, <2>4, <2>5, <2>6, <2>7 DEF IsTurnOf, IsPosition
<1> QED
  BY <1>2, <1>3

\* A packet that opens does so in one of the three ways.
LEMMA OpenCases ==
    ASSUME NEW s \in RatchetState, Sane(s), Filed(s), NEW header \in Header, NEW fresh \in Key,
           NEW chain \in Chain, Opens(s, header, chain, fresh),
           NEW t, t = ratchetDecrypt(s, header, fresh)
    PROVE  \/ BySkipped(s, t, header, chain)
           \/ OnChain(s, t, header, chain)
           \/ ByTurn(s, t, header, chain, fresh)
<1>0. header.dh \in Key /\ header.pn \in Nat /\ header.n \in Nat /\ s.nr \in Nat
  BY DEF Header, RatchetState
<1>1. CASE InSkipped(s, header) # {}
  <2>1. t = [s EXCEPT !.skipped = @ \ InSkipped(s, header)]
    BY <1>1 DEF ratchetDecrypt
  <2>2. /\ SameSending(s, t) /\ SameReceiving(s, t) /\ t.nr = s.nr
        /\ t.skipped = s.skipped \ InSkipped(s, header)
    BY <2>1 DEF RatchetState, SameSending, SameReceiving
  <2>3. PICK k \in InSkipped(s, header) : k.chain = chain
    BY <1>1 DEF Opens
  <2>4. k \in s.skipped /\ k.dh = header.dh /\ k.n = header.n /\ k \in Skipped
    BY DEF InSkipped, RatchetState
  <2>5. k = [dh |-> header.dh, n |-> header.n, chain |-> chain]
    BY <2>3, <2>4 DEF Skipped
  <2>6. \A j \in Skipped : j \in t.skipped <=>
           j \in s.skipped /\ ~(j.dh = header.dh /\ j.n = header.n)
    BY <2>2 DEF InSkipped
  <2> QED
    BY <2>2, <2>4, <2>5, <2>6 DEF BySkipped
<1>2. CASE InSkipped(s, header) = {}
  <2> DEFINE u == Turned(s, header, fresh)
             v == Positioned(s, header, fresh)
  <2>1. /\ v.receiving # NoChain /\ v.receiving = chain /\ v.nr = header.n
    BY <1>2 DEF Opens
  <2>2. t = [v EXCEPT !.nr = @ + 1]
    BY <1>2 DEF ratchetDecrypt
  <2>0. u \in RatchetState /\ v \in RatchetState /\ IsPosition(v, u, s, header, fresh)
    BY PositionedFields
  <2> HIDE DEF u, v
  <2>3. /\ u \in RatchetState /\ v \in RatchetState
        /\ v.receiving = u.receiving
        /\ v.nr = IF u.receiving = NoChain \/ header.n <= u.nr THEN u.nr ELSE header.n
    BY <2>0 DEF IsPosition
  <2>4. /\ t.dhSending = v.dhSending /\ t.dhReceiving = v.dhReceiving /\ t.root = v.root
        /\ t.sending = v.sending /\ t.receiving = v.receiving /\ t.ns = v.ns /\ t.pn = v.pn
        /\ t.skipped = v.skipped /\ t.nr = header.n + 1
    BY <2>1, <2>2, <2>3 DEF RatchetState
  <2>5. \/ /\ header.dh = s.dhReceiving /\ u = s
           /\ SameSending(s, v) /\ SameReceiving(s, v)
           /\ \A k \in Skipped : k \in v.skipped <=>
                 k \in s.skipped \/ Passed(k, s.dhReceiving, s.receiving, s.nr, header.n)
        \/ /\ header.dh # s.dhReceiving
           /\ Len(v.receiving) = Len(s.root) + 1 /\ Len(v.root) = Len(s.root) + 2
           /\ v.receiving = Append(s.root, {s.dhSending, header.dh})
           /\ v.root = Append(v.receiving, {fresh, header.dh}) /\ v.sending = v.root
           /\ v.dhSending = fresh /\ v.dhReceiving = header.dh
           /\ v.ns = 0 /\ v.pn = s.ns
           /\ \A k \in Skipped : k \in v.skipped <=>
                 \/ k \in s.skipped
                 \/ Passed(k, s.dhReceiving, s.receiving, s.nr, header.pn)
                 \/ Passed(k, header.dh, v.receiving, 0, header.n)
    BY <2>0 DEF IsPosition
  <2>6. CASE header.dh = s.dhReceiving
    <3>1. header.n >= s.nr
      BY <1>0, <2>1, <2>3, <2>5, <2>6
    <3> QED
      BY <2>1, <2>4, <2>5, <2>6, <3>1 DEF OnChain, SameSending, SameReceiving
  <2>7. CASE header.dh # s.dhReceiving
    <3>1. \A k \in s.skipped : ~(k.dh = header.dh /\ k.n = header.n)
      BY <1>2 DEF InSkipped
    <3> QED
      BY <2>1, <2>4, <2>5, <2>7, <3>1 DEF ByTurn
  <2> QED
    BY <2>6, <2>7
<1> QED
  BY <1>1, <1>2

-----------------------------------------------------------------------------
(* What a session says of one packet m *)

\* Its key can no longer be derived.
GoneFrom(s, m) ==
    /\ Len(m.chain) <= Len(s.receiving)
    /\ m.chain = s.receiving => m.header.n < s.nr
    /\ \A k \in s.skipped : ~(k.chain = m.chain /\ k.n = m.header.n)

KeyName(m) == [dh |-> m.header.dh, n |-> m.header.n, chain |-> m.chain]

\* Its key has been put aside, or lies ahead on the receiving chain.
AtHand(s, m) ==
    \/ KeyName(m) \in s.skipped
    \/ m.chain = s.receiving /\ m.header.dh = s.dhReceiving /\ m.header.n >= s.nr

\* It was sent on the chain that the sender, o, is on.
Ahead(o, m) == m.chain = o.sending /\ m.header.dh = o.dhSending /\ m.header.pn = o.pn

Opened(s, t, m, fresh) ==
    \/ BySkipped(s, t, m.header, m.chain)
    \/ OnChain(s, t, m.header, m.chain)
    \/ ByTurn(s, t, m.header, m.chain, fresh)

\* What the types say of a packet and of a session.
LEMMA DataFields ==
    ASSUME NEW m \in Data
    PROVE  /\ m.header \in Header /\ m.chain \in Chain /\ Len(m.chain) \in Nat
           /\ m.header.dh \in Key /\ m.header.n \in Nat /\ m.header.pn \in Nat
           /\ KeyName(m) \in Skipped /\ m.from \in Peers
<1>1. /\ m.header \in Header /\ m.chain \in Chain /\ m.from \in Peers
  BY DEF Data
<1>2. /\ m.header.dh \in Key /\ m.header.n \in Nat /\ m.header.pn \in Nat
  BY <1>1 DEF Header
<1> QED
  BY <1>1, <1>2 DEF KeyName, Skipped, Chain

LEMMA StateFields ==
    ASSUME NEW s \in RatchetState
    PROVE  /\ s.root \in Chain /\ s.sending \in Chain /\ s.receiving \in Chain
           /\ Len(s.root) \in Nat /\ Len(s.sending) \in Nat /\ Len(s.receiving) \in Nat
           /\ s.dhSending \in Key /\ s.ns \in Nat /\ s.nr \in Nat /\ s.pn \in Nat
           /\ s.skipped \subseteq Skipped
           /\ \A k \in s.skipped : /\ k.n \in Nat /\ Len(k.chain) \in Nat /\ k.dh \in Key
                                   /\ k.chain \in Chain
                                   /\ k = [dh |-> k.dh, n |-> k.n, chain |-> k.chain]
<1>1. /\ s.root \in Chain /\ s.sending \in Chain /\ s.receiving \in Chain
      /\ s.dhSending \in Key /\ s.ns \in Nat /\ s.nr \in Nat /\ s.pn \in Nat
      /\ s.skipped \subseteq Skipped
  BY DEF RatchetState
<1>2. \A c \in Chain : Len(c) \in Nat
  BY DEF Chain
<1>3. \A k \in s.skipped : /\ k.n \in Nat /\ k.chain \in Chain /\ k.dh \in Key
                           /\ k = [dh |-> k.dh, n |-> k.n, chain |-> k.chain]
  BY <1>1 DEF Skipped
<1> QED
  BY <1>1, <1>2, <1>3

\* What is gone does not open.
LEMMA GoneStaysShut ==
    ASSUME NEW s \in RatchetState, Sane(s), Filed(s), NEW m \in Data, NEW fresh \in Key,
           GoneFrom(s, m), Opens(s, m.header, m.chain, fresh)
    PROVE  FALSE
<1>1. PICK t : t = ratchetDecrypt(s, m.header, fresh)
  OBVIOUS
<1>2. Opened(s, t, m, fresh)
  BY <1>1, DataFields, OpenCases DEF Opened
<1>3. CASE BySkipped(s, t, m.header, m.chain)
  BY <1>3 DEF BySkipped, GoneFrom
<1>4. CASE OnChain(s, t, m.header, m.chain)
  BY <1>4, DataFields, StateFields DEF OnChain, GoneFrom
<1>5. CASE ByTurn(s, t, m.header, m.chain, fresh)
  <2>1. Len(m.chain) = Len(s.root) + 1 /\ Len(m.chain) <= Len(s.receiving)
    BY <1>5 DEF ByTurn, GoneFrom
  <2>2. Len(s.receiving) < Len(s.root)
    BY DEF Filed
  <2> QED
    BY <2>1, <2>2, StateFields
<1> QED
  BY <1>2, <1>3, <1>4, <1>5 DEF Opened

\* What is at hand opens, or lies too far ahead.
LEMMA AtHandOpens ==
    ASSUME NEW s \in RatchetState, Sane(s), Filed(s), NEW m \in Data, NEW fresh \in Key,
           m.chain # NoChain, AtHand(s, m)
    PROVE  Opens(s, m.header, m.chain, fresh) \/ Skips(s, m.header, fresh)
<1>1. CASE KeyName(m) \in s.skipped
  <2>1. KeyName(m) \in InSkipped(s, m.header) /\ KeyName(m).chain = m.chain
    BY <1>1 DEF KeyName, InSkipped
  <2> QED
    BY <2>1 DEF Opens
<1>2. CASE ~(KeyName(m) \in s.skipped)
  <2>1. m.chain = s.receiving /\ m.header.dh = s.dhReceiving /\ m.header.n >= s.nr
    BY <1>2 DEF AtHand
  <2>2. InSkipped(s, m.header) = {}
    <3>1. ASSUME NEW k \in s.skipped, k.dh = m.header.dh, k.n = m.header.n PROVE FALSE
      <4>1. k.chain = s.receiving /\ k.n < s.nr
        BY <2>1, <3>1 DEF Filed
      <4> QED
        BY <2>1, <3>1, <4>1, DataFields, StateFields
    <3> QED
      BY <3>1 DEF InSkipped
  <2>3. PICK u : u = Turned(s, m.header, fresh)
    OBVIOUS
  <2>4. PICK v : v = Positioned(s, m.header, fresh)
    OBVIOUS
  <2>5. u = s
    BY <2>1, <2>3 DEF Turned
  <2>6. /\ v.receiving = u.receiving
        /\ v.nr = IF u.receiving = NoChain \/ m.header.n <= u.nr THEN u.nr ELSE m.header.n
    <3>1. IsPosition(v, u, s, m.header, fresh)
      BY <2>3, <2>4, DataFields, PositionedFields
    <3> QED
      BY <3>1 DEF IsPosition
  <2>7. v.nr = m.header.n
    BY <2>1, <2>5, <2>6, DataFields, StateFields
  <2> QED
    BY <2>1, <2>2, <2>4, <2>5, <2>6, <2>7 DEF Opens
<1> QED
  BY <1>1, <1>2

\* o is one turn ahead of s: a packet of o's sending chain makes s turn to it.
Leads(o, s) ==
    /\ o.root = Append(s.root, {s.dhSending, o.dhSending}) /\ Len(o.root) = Len(s.root) + 1
    /\ o.sending = o.root
    /\ o.receiving = s.sending /\ o.dhReceiving = s.dhSending
    /\ o.nr <= s.ns
    /\ s.dhReceiving # o.dhSending
    /\ \A k \in s.skipped : k.dh # o.dhSending

\* What lies on the leader's sending chain opens, or lies too far ahead.
LEMMA AheadOpens ==
    ASSUME NEW s \in RatchetState, Sane(s), NEW o, Leads(o, s),
           NEW m \in Data, NEW fresh \in Key, Ahead(o, m)
    PROVE  Opens(s, m.header, m.chain, fresh) \/ Skips(s, m.header, fresh)
<1>1. m.header.dh = o.dhSending /\ m.chain = Append(s.root, {s.dhSending, o.dhSending})
  BY DEF Ahead, Leads
<1>2. InSkipped(s, m.header) = {}
  BY <1>1 DEF Leads, InSkipped
<1>3. m.header.dh # s.dhReceiving
  BY <1>1 DEF Leads
<1>4. PICK u : u = Turned(s, m.header, fresh)
  OBVIOUS
<1>5. PICK v : v = Positioned(s, m.header, fresh)
  OBVIOUS
<1>6. IsPosition(v, u, s, m.header, fresh)
  BY <1>4, <1>5, DataFields, PositionedFields
<1>7. /\ v.receiving # NoChain
      /\ v.receiving = Append(s.root, {s.dhSending, m.header.dh})
  BY <1>3, <1>6 DEF IsPosition
<1>8. v.nr = m.header.n
  <2>1. u.nr = 0 /\ v.nr = IF u.receiving = NoChain \/ m.header.n <= u.nr THEN u.nr ELSE m.header.n
    BY <1>3, <1>6 DEF IsPosition
  <2>2. m.header.n \in Nat /\ u.receiving # NoChain
    BY <1>6, <1>7, DataFields DEF IsPosition
  <2> QED
    BY <2>1, <2>2
<1> QED
  BY <1>1, <1>2, <1>5, <1>7, <1>8 DEF Opens

\* The key of an opened packet is put aside no more; the others are filed as before.
LEMMA FiledKept ==
    ASSUME NEW s \in RatchetState, Sane(s), Filed(s), NEW m \in Data, NEW fresh \in Key,
           NEW t \in RatchetState, Opened(s, t, m, fresh),
           ByTurn(s, t, m.header, m.chain, fresh) => \A k \in s.skipped : k.dh # m.header.dh
    PROVE  Filed(t)
<1>0. /\ s.nr \in Nat /\ m.header.n \in Nat /\ m.header.dh \in Key
      /\ t.skipped \subseteq Skipped /\ s.skipped \subseteq Skipped
      /\ Len(s.receiving) \in Nat /\ Len(s.root) \in Nat
      /\ \A k \in Skipped : k.n \in Nat /\ Len(k.chain) \in Nat
  <2>1. \A k \in Skipped : k.n \in Nat /\ Len(k.chain) \in Nat
    BY DEF Skipped, Chain
  <2> QED
    BY <2>1, DataFields, StateFields
<1>1. /\ Len(s.receiving) < Len(s.root)
      /\ \A k \in s.skipped : Len(k.chain) <= Len(s.receiving)
      /\ \A k \in s.skipped : k.dh = s.dhReceiving <=> k.chain = s.receiving
      /\ \A k \in s.skipped : k.chain = s.receiving => k.n < s.nr
      /\ \A k1, k2 \in s.skipped : k1.dh = k2.dh <=> k1.chain = k2.chain
  BY DEF Filed
<1>2. CASE BySkipped(s, t, m.header, m.chain)
  <2>1. /\ t.root = s.root /\ t.receiving = s.receiving /\ t.nr = s.nr
        /\ t.dhReceiving = s.dhReceiving
    BY <1>2 DEF BySkipped, SameSending, SameReceiving
  <2>2. t.skipped \subseteq s.skipped
    BY <1>0, <1>2 DEF BySkipped
  <2> QED
    BY <1>1, <2>1, <2>2 DEF Filed
<1>3. CASE OnChain(s, t, m.header, m.chain)
  <2>1. /\ t.root = s.root /\ t.receiving = s.receiving /\ t.nr = m.header.n + 1
        /\ t.dhReceiving = s.dhReceiving /\ m.header.n >= s.nr
    BY <1>3 DEF OnChain, SameSending, SameReceiving
  <2>2. \A k \in t.skipped :
           \/ k \in s.skipped
           \/ k.dh = s.dhReceiving /\ k.chain = s.receiving /\ k.n < m.header.n
    BY <1>0, <1>3 DEF OnChain, Passed
  <2>3. \A k \in t.skipped : k.dh = s.dhReceiving <=> k.chain = s.receiving
    BY <1>1, <2>2
  <2>4. \A k \in t.skipped : Len(k.chain) <= Len(s.receiving)
    BY <1>0, <1>1, <2>2
  <2>5. \A k \in t.skipped : k.chain = s.receiving => k.n < m.header.n + 1
    BY <1>0, <1>1, <2>1, <2>2
  <2>6. \A k1, k2 \in t.skipped : k1.dh = k2.dh <=> k1.chain = k2.chain
    BY <1>1, <2>2, <2>3
  <2> QED
    BY <1>1, <2>1, <2>3, <2>4, <2>5, <2>6 DEF Filed
<1>4. CASE ByTurn(s, t, m.header, m.chain, fresh)
  <2>1. /\ Len(m.chain) = Len(s.root) + 1 /\ Len(t.root) = Len(s.root) + 2
        /\ t.receiving = m.chain /\ t.dhReceiving = m.header.dh /\ t.nr = m.header.n + 1
        /\ m.header.dh # s.dhReceiving
    BY <1>4 DEF ByTurn
  <2>2. \A k \in t.skipped :
           \/ k \in s.skipped
           \/ k.dh = s.dhReceiving /\ k.chain = s.receiving
           \/ k.dh = m.header.dh /\ k.chain = m.chain /\ k.n < m.header.n
    BY <1>0, <1>4 DEF ByTurn, Passed
  <2>3. \A k \in s.skipped : k.dh # m.header.dh /\ k.chain # m.chain
    <3>1. \A k \in s.skipped : Len(k.chain) < Len(m.chain)
      BY <1>0, <1>1, <2>1
    <3> QED
      BY <1>4, <2>1, <3>1, <1>0
  <2>4. s.receiving # m.chain
    BY <1>0, <1>1, <2>1
  <2>5. \A k \in t.skipped : k.dh = m.header.dh <=> k.chain = m.chain
    BY <2>1, <2>2, <2>3, <2>4
  <2>6. \A k \in t.skipped : Len(k.chain) <= Len(m.chain)
    BY <1>0, <1>1, <2>1, <2>2
  <2>7. \A k \in t.skipped : k.chain = m.chain => k.n < m.header.n + 1
    BY <1>0, <2>2, <2>3, <2>4
  <2>8. \A k1, k2 \in t.skipped : k1.dh = k2.dh <=> k1.chain = k2.chain
    BY <1>1, <2>1, <2>2, <2>3, <2>4
  <2> QED
    BY <1>0, <2>1, <2>5, <2>6, <2>7, <2>8 DEF Filed
<1> QED
  BY <1>2, <1>3, <1>4 DEF Opened

\* What is gone stays gone, and the packet that was opened is gone too.
LEMMA GoneKept ==
    ASSUME NEW s \in RatchetState, Sane(s), Filed(s), NEW m \in Data, NEW fresh \in Key,
           NEW t \in RatchetState, Opened(s, t, m, fresh), m.chain # NoChain,
           NEW r \in Data, GoneFrom(s, r) \/ r = m
    PROVE  GoneFrom(t, r)
<1>0. /\ s.nr \in Nat /\ m.header.n \in Nat /\ r.header.n \in Nat
      /\ Len(r.chain) \in Nat /\ Len(m.chain) \in Nat
      /\ t.skipped \subseteq Skipped /\ s.skipped \subseteq Skipped
      /\ Len(s.receiving) \in Nat /\ Len(s.root) \in Nat
  BY DataFields, StateFields
<1>1. /\ Len(s.receiving) < Len(s.root)
      /\ \A k \in s.skipped : Len(k.chain) <= Len(s.receiving)
      /\ \A k \in s.skipped : k.chain = s.receiving => k.n < s.nr
      /\ \A k1, k2 \in s.skipped : k1.dh = k2.dh <=> k1.chain = k2.chain
  BY DEF Filed
<1>2. CASE BySkipped(s, t, m.header, m.chain)
  <2>1. t.receiving = s.receiving /\ t.nr = s.nr
    BY <1>2 DEF BySkipped, SameReceiving
  <2>2. /\ \A k \in t.skipped : k \in s.skipped /\ ~(k.dh = m.header.dh /\ k.n = m.header.n)
        /\ KeyName(m) \in s.skipped
    BY <1>0, <1>2 DEF BySkipped, KeyName
  <2>3. CASE r = m
    <3>1. KeyName(m).chain = m.chain /\ KeyName(m).n = m.header.n /\ KeyName(m).dh = m.header.dh
      BY DEF KeyName
    <3>2. \A k \in t.skipped : ~(k.chain = m.chain /\ k.n = m.header.n)
      BY <1>1, <2>2, <3>1
    <3>3. Len(m.chain) <= Len(s.receiving) /\ (m.chain = s.receiving => m.header.n < s.nr)
      BY <1>1, <2>2, <3>1
    <3> QED
      BY <2>1, <2>3, <3>2, <3>3 DEF GoneFrom
  <2>4. CASE GoneFrom(s, r)
    BY <2>1, <2>2, <2>4 DEF GoneFrom
  <2> QED
    BY <2>3, <2>4
<1>3. CASE OnChain(s, t, m.header, m.chain)
  <2>1. /\ t.receiving = s.receiving /\ t.nr = m.header.n + 1
        /\ m.header.n >= s.nr /\ m.chain = s.receiving
    BY <1>3 DEF OnChain, SameReceiving
  <2>2. \A k \in t.skipped :
           k \in s.skipped \/ (k.chain = s.receiving /\ s.nr <= k.n /\ k.n < m.header.n)
    BY <1>0, <1>3 DEF OnChain, Passed
  <2>3. \A k \in t.skipped : k.n \in Nat
    BY StateFields
  <2>4. CASE r = m
    <3>1. \A k \in t.skipped : ~(k.chain = m.chain /\ k.n = m.header.n)
      BY <1>0, <1>1, <2>1, <2>2, <2>3
    <3> QED
      BY <1>0, <2>1, <2>4, <3>1 DEF GoneFrom
  <2>5. CASE GoneFrom(s, r)
    <3>1. \A k \in t.skipped : ~(k.chain = r.chain /\ k.n = r.header.n)
      BY <1>0, <2>2, <2>3, <2>5 DEF GoneFrom
    <3> QED
      BY <1>0, <2>1, <2>5, <3>1 DEF GoneFrom
  <2> QED
    BY <2>4, <2>5
<1>4. CASE ByTurn(s, t, m.header, m.chain, fresh)
  <2>1. Len(m.chain) = Len(s.root) + 1 /\ t.receiving = m.chain /\ t.nr = m.header.n + 1
    BY <1>4 DEF ByTurn
  <2>2. \A k \in t.skipped :
           \/ k \in s.skipped
           \/ k.chain = s.receiving /\ s.nr <= k.n
           \/ k.chain = m.chain /\ k.n < m.header.n
    BY <1>0, <1>4 DEF ByTurn, Passed
  <2>3. \A k \in t.skipped : k.n \in Nat
    BY StateFields
  <2>4. \A k \in s.skipped : Len(k.chain) < Len(m.chain)
    BY <1>0, <1>1, <2>1, StateFields
  <2>5. Len(s.receiving) < Len(m.chain)
    BY <1>0, <1>1, <2>1
  <2>6. CASE r = m
    <3>1. \A k \in t.skipped : ~(k.chain = m.chain /\ k.n = m.header.n)
      BY <1>0, <2>2, <2>3, <2>4, <2>5
    <3> QED
      BY <1>0, <2>1, <2>6, <3>1 DEF GoneFrom
  <2>7. CASE GoneFrom(s, r)
    <3>1. Len(r.chain) <= Len(s.receiving)
      BY <2>7 DEF GoneFrom
    <3>2. r.chain # m.chain /\ Len(r.chain) <= Len(m.chain)
      BY <1>0, <2>5, <3>1
    <3>3. \A k \in t.skipped : ~(k.chain = r.chain /\ k.n = r.header.n)
      BY <1>0, <2>2, <2>3, <2>7, <3>2 DEF GoneFrom
    <3> QED
      BY <2>1, <3>2, <3>3 DEF GoneFrom
  <2> QED
    BY <2>6, <2>7
<1> QED
  BY <1>2, <1>3, <1>4 DEF Opened

\* Opening one packet leaves every other one at hand.
LEMMA AtHandKept ==
    ASSUME NEW s \in RatchetState, Sane(s), Filed(s), NEW m \in Data, NEW fresh \in Key,
           NEW t \in RatchetState, Opened(s, t, m, fresh),
           NEW r \in Data, r.chain # NoChain, AtHand(s, r),
           ~(r.chain = m.chain /\ r.header.n = m.header.n),
           BySkipped(s, t, m.header, m.chain) \/ OnChain(s, t, m.header, m.chain)
              \/ (r.chain = s.receiving => r.header.n < m.header.pn)
    PROVE  AtHand(t, r)
<1>0. /\ s.nr \in Nat /\ m.header.n \in Nat /\ r.header.n \in Nat /\ KeyName(r) \in Skipped
  BY DataFields, StateFields
<1>9. KeyName(r).dh = r.header.dh /\ KeyName(r).n = r.header.n /\ KeyName(r).chain = r.chain
  BY DEF KeyName
<1>1. CASE BySkipped(s, t, m.header, m.chain)
  <2>1. t.receiving = s.receiving /\ t.dhReceiving = s.dhReceiving /\ t.nr = s.nr
    BY <1>1 DEF BySkipped, SameReceiving
  <2>2. KeyName(r) \in s.skipped => KeyName(r) \in t.skipped
    <3>1. KeyName(m) \in s.skipped /\ KeyName(m).dh = m.header.dh /\ KeyName(m).chain = m.chain
      BY <1>1 DEF BySkipped, KeyName
    <3>2. KeyName(r) \in s.skipped => ~(r.header.dh = m.header.dh /\ r.header.n = m.header.n)
      BY <1>9, <3>1 DEF Filed
    <3> QED
      BY <1>0, <1>1, <1>9, <3>2 DEF BySkipped
  <2> QED
    BY <2>1, <2>2 DEF AtHand
<1>2. CASE OnChain(s, t, m.header, m.chain)
  <2>1. /\ t.receiving = s.receiving /\ t.dhReceiving = s.dhReceiving
        /\ t.nr = m.header.n + 1 /\ m.chain = s.receiving /\ m.chain # NoChain
        /\ KeyName(r) \in t.skipped <=>
              \/ KeyName(r) \in s.skipped
              \/ Passed(KeyName(r), s.dhReceiving, s.receiving, s.nr, m.header.n)
    BY <1>0, <1>2 DEF OnChain, SameReceiving
  <2>2. CASE KeyName(r) \in s.skipped
    BY <2>1, <2>2 DEF AtHand
  <2>3. CASE r.chain = s.receiving /\ r.header.dh = s.dhReceiving /\ r.header.n >= s.nr
    <3>1. CASE r.header.n < m.header.n
      BY <1>9, <2>1, <2>3, <3>1 DEF AtHand, Passed
    <3>2. CASE r.header.n > m.header.n
      BY <1>0, <2>1, <2>3, <3>2 DEF AtHand
    <3> QED
      BY <1>0, <2>1, <2>3, <3>1, <3>2
  <2> QED
    BY <2>2, <2>3 DEF AtHand
<1>3. CASE /\ ByTurn(s, t, m.header, m.chain, fresh)
           /\ r.chain = s.receiving => r.header.n < m.header.pn
  <2>1. KeyName(r) \in t.skipped <=>
           \/ KeyName(r) \in s.skipped
           \/ Passed(KeyName(r), s.dhReceiving, s.receiving, s.nr, m.header.pn)
           \/ Passed(KeyName(r), m.header.dh, m.chain, 0, m.header.n)
    BY <1>0, <1>3 DEF ByTurn
  <2>2. CASE KeyName(r) \in s.skipped
    BY <2>1, <2>2 DEF AtHand
  <2>3. CASE r.chain = s.receiving /\ r.header.dh = s.dhReceiving /\ r.header.n >= s.nr
    BY <1>3, <1>9, <2>1, <2>3 DEF AtHand, Passed
  <2> QED
    BY <2>2, <2>3 DEF AtHand
<1> QED
  BY <1>1, <1>2, <1>3 DEF Opened

\* The other packets of the chain that the ratchet turns to are at hand then.
LEMMA TurnReaches ==
    ASSUME NEW s, NEW m \in Data, NEW fresh, NEW t, ByTurn(s, t, m.header, m.chain, fresh),
           NEW r \in Data, r.chain # NoChain, r.chain = m.chain,
           r.header.dh = m.header.dh, r.header.n # m.header.n
    PROVE  AtHand(t, r)
<1>0. m.header.n \in Nat /\ r.header.n \in Nat /\ KeyName(r) \in Skipped
  BY DataFields
<1>1. KeyName(r).dh = r.header.dh /\ KeyName(r).n = r.header.n /\ KeyName(r).chain = r.chain
  BY DEF KeyName
<1>2. /\ t.receiving = m.chain /\ t.dhReceiving = m.header.dh /\ t.nr = m.header.n + 1
      /\ Passed(KeyName(r), m.header.dh, m.chain, 0, m.header.n) => KeyName(r) \in t.skipped
  BY <1>0 DEF ByTurn
<1>3. CASE r.header.n < m.header.n
  BY <1>0, <1>1, <1>2, <1>3 DEF AtHand, Passed
<1>4. CASE r.header.n > m.header.n
  BY <1>0, <1>2, <1>4 DEF AtHand
<1> QED
  BY <1>0, <1>3, <1>4

\* The end that was behind and turns is the one that leads.
LEMMA LeadPasses ==
    ASSUME NEW s \in RatchetState, NEW o \in RatchetState, Leads(o, s),
           NEW m \in Data, Ahead(o, m), m.header.n < o.ns,
           NEW fresh \in Key, o.dhReceiving # fresh, \A k \in o.skipped : k.dh # fresh,
           NEW t, ByTurn(s, t, m.header, m.chain, fresh)
    PROVE  Leads(t, o)
<1>1. /\ m.chain = o.root /\ o.sending = o.root /\ m.header.dh = o.dhSending
      /\ Len(o.root) = Len(s.root) + 1
  BY DEF Ahead, Leads
<1>2. /\ t.dhSending = fresh /\ t.dhReceiving = m.header.dh /\ t.receiving = m.chain
      /\ t.root = Append(m.chain, {fresh, m.header.dh}) /\ t.sending = t.root
      /\ t.nr = m.header.n + 1 /\ Len(t.root) = Len(s.root) + 2
  BY DEF ByTurn
<1>3. t.root = Append(o.root, {o.dhSending, t.dhSending})
  <2>1. {fresh, m.header.dh} = {o.dhSending, t.dhSending}
    BY <1>1, <1>2
  <2> QED
    BY <1>1, <1>2, <2>1
<1>4. Len(t.root) = Len(o.root) + 1 /\ t.nr <= o.ns
  BY <1>1, <1>2, StateFields, DataFields
<1> QED
  BY <1>1, <1>2, <1>3, <1>4 DEF Leads

\* A packet opened without a turn, by the end behind or by the one that leads.
LEMMA LeadStays ==
    ASSUME NEW s \in RatchetState, NEW o \in RatchetState, Leads(o, s), NEW m \in Data,
           NEW t \in RatchetState
    PROVE  /\ BySkipped(s, t, m.header, m.chain) \/ OnChain(s, t, m.header, m.chain)
                 => Leads(o, t)
           /\ BySkipped(o, t, m.header, m.chain)
                 \/ (OnChain(o, t, m.header, m.chain) /\ m.header.n < s.ns)
                 => Leads(t, s)
<1>1. ASSUME BySkipped(s, t, m.header, m.chain) \/ OnChain(s, t, m.header, m.chain)
      PROVE  Leads(o, t)
  <2>1. SameSending(s, t) /\ t.dhReceiving = s.dhReceiving
    BY <1>1 DEF BySkipped, OnChain, SameReceiving
  <2>2. \A k \in t.skipped : k \in s.skipped \/ k.dh = s.dhReceiving
    BY <1>1, StateFields DEF BySkipped, OnChain, Passed
  <2>3. \A k \in t.skipped : k.dh # o.dhSending
    BY <2>2 DEF Leads
  <2> QED
    BY <2>1, <2>3 DEF Leads, SameSending
<1>2. ASSUME BySkipped(o, t, m.header, m.chain)
                 \/ (OnChain(o, t, m.header, m.chain) /\ m.header.n < s.ns)
      PROVE  Leads(t, s)
  <2>1. SameSending(o, t) /\ SameReceiving(o, t)
    BY <1>2 DEF BySkipped, OnChain
  <2>2. t.nr <= s.ns
    BY <1>2, StateFields, DataFields DEF BySkipped, OnChain, Leads
  <2> QED
    BY <2>1, <2>2 DEF Leads, SameSending, SameReceiving
<1> QED
  BY <1>1, <1>2

-----------------------------------------------------------------------------
(* The second invariant: the two ends together *)

\* The session of p, or the one that its x3dh_init will set up.
End(p) ==
    IF Has(p) THEN session[p] ELSE initReceiver(secret(<<Other(p), 1>>), SPK(p))

\* A key pair that was drawn: the next one will be another.
Used(k) == k[2] <= drawn[k[1]]

AllUsed(s) ==
    /\ Used(s.dhSending)
    /\ s.dhReceiving # NoKey => Used(s.dhReceiving)
    /\ \A k \in s.skipped : Used(k.dh)

\* x is behind: every packet not read is at hand, or makes x turn.
Reach(x) ==
    /\ Leads(End(Other(x)), End(x))
    /\ \A m \in sent \ read :
          \/ m.from = x /\ AtHand(End(Other(x)), m)
          \/ m.from # x /\ (AtHand(End(x), m) \/ Ahead(End(Other(x)), m))
    /\ \A m \in sent : m.from # x /\ m.chain = End(x).receiving => m.header.n < End(Other(x)).pn

\* The x3dh_init is that of the key pair drawn first.
OneHandshake ==
    /\ \A m \in net : m.type = "x3dh_init" => m.h = <<m.from, 1>>
    /\ \A m \in sent : m.chain # NoChain

EndsSound ==
    \A p \in Peers : /\ AllUsed(End(p)) /\ Filed(End(p))
                     /\ \A m \in read : m.from # p => GoneFrom(End(p), m)

ReadInv ==
    /\ OneHandshake
    /\ ~spoiled => EndsSound /\ \E x \in Peers : Reach(x)

\* There are two peers, each the other of the other.
LEMMA TwoPeers ==
    \A p \in Peers : \A q \in Peers :
        /\ q # p => q = Other(p)
        /\ Other(p) \in Peers /\ Other(p) # p /\ Other(Other(p)) = p
<1>1. \A p \in Peers : Other(p) \in Peers /\ Other(p) # p
  BY OtherPeer
<1> QED
  BY <1>1, ConstantsAssumption

\* An end is a session, also while it is still to be set up.
LEMMA EndType ==
    ASSUME TypeOK, Sanity, NEW p \in Peers
    PROVE  End(p) \in RatchetState /\ Sane(End(p))
<1>1. CASE Has(p)
  BY <1>1, HasState DEF End
<1>2. CASE ~Has(p)
  <2>1. <<Other(p), 1>> \in Key
    BY TwoPeers DEF Key
  <2>2. secret(<<Other(p), 1>>) \in Chain /\ SPK(p) \in Key
    BY <2>1, SecretIsChain, Keys
  <2>3. PICK s : s = initReceiver(secret(<<Other(p), 1>>), SPK(p))
    OBVIOUS
  <2>4. s \in RatchetState
    BY <2>2, <2>3, ReceiverType
  <2>5. s.receiving = NoChain
    BY <2>3 DEF initReceiver
  <2>6. End(p) = s
    BY <1>2, <2>3 DEF End
  <2> QED
    BY <2>4, <2>5, <2>6 DEF Sane
<1> QED
  BY <1>1, <1>2

\* A step that changes neither end nor what was sent, read or drawn.
LEMMA EndsAlone ==
    ASSUME TypeOK, ReadInv, UNCHANGED <<drawn, sent, read>>, net' \subseteq net,
           ~spoiled' => ~spoiled /\ \A p \in Peers : End(p)' = End(p)
    PROVE  ReadInv'
<1>1. OneHandshake'
  BY DEF ReadInv, OneHandshake
<1>2. ASSUME ~spoiled' PROVE EndsSound' /\ \E x \in Peers : Reach(x)'
  <2>1. \A p \in Peers : End(p)' = End(p)
    BY <1>2
  <2>2. EndsSound /\ \E x \in Peers : Reach(x)
    BY <1>2 DEF ReadInv
  <2>3. EndsSound'
    <3> SUFFICES ASSUME NEW p \in Peers
                 PROVE  /\ AllUsed(End(p))' /\ Filed(End(p)')
                        /\ \A m \in read' : m.from # p => GoneFrom(End(p)', m)
      BY DEF EndsSound, Filed, GoneFrom
    <3>1. AllUsed(End(p))'
      BY <2>1, <2>2 DEF EndsSound, AllUsed, Used
    <3> QED
      BY <2>1, <2>2, <3>1 DEF EndsSound
  <2>4. PICK x \in Peers : Reach(x)
    BY <2>2
  <2>5. Other(x) \in Peers
    BY TwoPeers
  <2>6. Reach(x)'
    BY <2>1, <2>4, <2>5 DEF Reach, Leads, AtHand, Ahead
  <2> QED
    BY <2>3, <2>6
<1> QED
  BY <1>1, <1>2 DEF ReadInv

\* Initially the responder, still without a session, is one turn behind.
LEMMA InitReadInv == Init => ReadInv
<1> SUFFICES ASSUME Init PROVE ReadInv
  OBVIOUS
<1>1. PICK i \in Peers :
         LET h == <<i, 1>>
         IN  /\ session = [q \in Peers |-> IF q = i THEN initSender(secret(h), h, SPK(Other(i)))
                                           ELSE NoSession]
             /\ drawn = [q \in Peers |-> IF q = i THEN 1 ELSE 0]
             /\ net = {[type |-> "x3dh_init", from |-> i, h |-> h]}
  BY DEF Init
<1> DEFINE x == Other(i)
           h == <<i, 1>>
<1>2. x \in Peers /\ x # i /\ Other(x) = i /\ \A p \in Peers : p = i \/ p = x
  BY TwoPeers
<1>3. h \in Key /\ SPK(x) \in Key /\ SPK(x) = <<x, 0>>
  BY <1>2 DEF Key, SPK
<1>4. secret(h) \in Chain /\ Len(secret(h)) = 1
  BY <1>3, SecretIsChain
<1>5. PICK o : o = initSender(secret(h), h, SPK(x))
  OBVIOUS
<1>6. PICK s : s = initReceiver(secret(h), SPK(x))
  OBVIOUS
<1>7. /\ o.root = Append(secret(h), {h, SPK(x)}) /\ o.sending = o.root
      /\ o.receiving = NoChain /\ o.skipped = {} /\ o.nr = 0
      /\ o.dhSending = h /\ o.dhReceiving = SPK(x)
  BY <1>5 DEF initSender, kdfRootStep
<1>8. /\ s.root = secret(h) /\ s.sending = NoChain /\ s.receiving = NoChain /\ s.skipped = {}
      /\ s.dhSending = SPK(x) /\ s.dhReceiving = NoKey /\ s.ns = 0
  BY <1>6 DEF initReceiver
<1>9. Len(o.root) = 2
  <2>1. Append(secret(h), {h, SPK(x)}) = kdfRootStep(secret(h), h, SPK(x))
    BY DEF kdfRootStep
  <2>2. Len(kdfRootStep(secret(h), h, SPK(x))) = Len(secret(h)) + 1
    BY <1>3, <1>4, StepIsChain
  <2>3. o.root = kdfRootStep(secret(h), h, SPK(x))
    BY <1>7, <2>1
  <2> HIDE DEF h
  <2> QED
    BY <1>4, <2>2, <2>3
<1>10. End(i) = o /\ End(x) = s
  <2>1. session[i] = o /\ session[x] = NoSession
    BY <1>1, <1>2, <1>5
  <2>2. o # NoSession
    <3>1. DOMAIN o # DOMAIN NoSession
      BY <1>5 DEF initSender, NoSession
    <3> QED
      BY <3>1
  <2> QED
    BY <1>2, <1>6, <2>1, <2>2 DEF End, Has
<1>11. h # NoKey /\ drawn[i] = 1 /\ drawn[x] = 0 /\ h[1] = i /\ h[2] = 1
       /\ SPK(x)[1] = x /\ SPK(x)[2] = 0
  BY <1>1, <1>2, <1>3 DEF NoKey
<1>12. sent = {} /\ read = {} /\ spoiled = FALSE /\ Len(NoChain) = 0
  BY DEF Init, NoChain
<1>13. \A m \in net : m.type = "x3dh_init" => m.h = <<m.from, 1>>
  BY <1>1
<1> HIDE DEF x, h
<1>14. Leads(o, s)
  <2>1. {h, SPK(x)} = {s.dhSending, o.dhSending}
    BY <1>7, <1>8
  <2>2. o.root = Append(s.root, {s.dhSending, o.dhSending})
    BY <1>7, <1>8, <2>1
  <2> QED
    BY <1>4, <1>7, <1>8, <1>9, <1>11, <2>2 DEF Leads
<1>15. Reach(x)
  BY <1>2, <1>10, <1>12, <1>14 DEF Reach
<1>16. ASSUME NEW p \in Peers PROVE AllUsed(End(p)) /\ Filed(End(p))
  <2>1. AllUsed(o) /\ Filed(o)
    BY <1>7, <1>9, <1>11, <1>12 DEF AllUsed, Used, Filed
  <2>2. AllUsed(s)
    BY <1>8, <1>11 DEF AllUsed, Used
  <2>3. Filed(s)
    <3>1. Len(s.receiving) = 0 /\ Len(s.root) = 1 /\ s.skipped = {}
      BY <1>4, <1>8, <1>12
    <3> QED
      BY <3>1 DEF Filed
  <2> QED
    BY <1>2, <1>10, <2>1, <2>2, <2>3
<1> QED
  BY <1>2, <1>12, <1>13, <1>15, <1>16 DEF ReadInv, OneHandshake, EndsSound

\* The x3dh_init sets up the session that End foresaw; the other steps that are
\* neither a Send nor a read change no end.
LEMMA RestKeepsReadInv ==
    ASSUME IInv, ReadInv, NEW p \in Peers,
           \/ Persist(p) \/ Crash(p) \/ UNCHANGED vars
           \/ \E m \in net : Undecryptable(p, m) \/ completeIncomingHandshake(p, m)
    PROVE  ReadInv'
<1>0. TypeOK
  BY DEF IInv
<1>1. CASE Persist(p) \/ UNCHANGED vars
  <2>1. UNCHANGED <<session, drawn, net, sent, read, spoiled>>
    BY <1>1 DEF Persist, vars, counts, history
  <2>2. \A q \in Peers : End(q)' = End(q)
    BY <2>1 DEF End, Has
  <2> QED
    BY <1>0, <2>1, <2>2, EndsAlone
<1>2. CASE Crash(p)
  <2>1. /\ session' = [session EXCEPT ![p] = stored[p]]
        /\ spoiled' = (spoiled \/ stored[p] # session[p])
        /\ UNCHANGED <<drawn, net, sent, read>>
    BY <1>2 DEF Crash
  <2>2. ~spoiled' => session' = session /\ ~spoiled
    BY <1>0, <2>1 DEF TypeOK
  <2>3. ~spoiled' => \A q \in Peers : End(q)' = End(q)
    BY <2>2 DEF End, Has
  <2> QED
    BY <1>0, <2>1, <2>2, <2>3, EndsAlone
<1>3. ASSUME NEW m \in net, Undecryptable(p, m) PROVE ReadInv'
  <2>1. UNCHANGED <<session, drawn, sent, read, spoiled>> /\ net' \subseteq net
    BY <1>0, <1>3, ArriveNet DEF Undecryptable, history
  <2>2. \A q \in Peers : End(q)' = End(q)
    BY <2>1 DEF End, Has
  <2> QED
    BY <1>0, <2>1, <2>2, EndsAlone
<1>4. ASSUME NEW m \in net, completeIncomingHandshake(p, m) PROVE ReadInv'
  <2>1. /\ m.type = "x3dh_init" /\ m.from # p
        /\ session' = [session EXCEPT ![p] = initReceiver(secret(m.h), SPK(p))]
        /\ spoiled' = (spoiled \/ Has(p))
        /\ UNCHANGED <<drawn, sent, read>> /\ net' \subseteq net
    BY <1>0, <1>4, ArriveNet DEF completeIncomingHandshake
  <2>2. m.from \in Peers
    BY <1>0, <2>1 DEF TypeOK, Handshake, Data
  <2>3. m.h = <<Other(p), 1>>
    BY <2>1, <2>2, TwoPeers DEF ReadInv, OneHandshake
  <2>4. PICK s : s = initReceiver(secret(<<Other(p), 1>>), SPK(p))
    OBVIOUS
  <2>5. s # NoSession
    <3>1. DOMAIN s # DOMAIN NoSession
      BY <2>4 DEF initReceiver, NoSession
    <3> QED
      BY <3>1
  <2>6. session'[p] = s /\ \A q \in Peers : q # p => session'[q] = session[q]
    BY <1>0, <2>1, <2>3, <2>4 DEF TypeOK
  <2>7. ~spoiled' => End(p)' = End(p)
    BY <2>1, <2>4, <2>5, <2>6 DEF End, Has
  <2>8. \A q \in Peers : q # p => End(q)' = End(q)
    BY <2>6 DEF End, Has
  <2>9. ~spoiled' => ~spoiled /\ \A q \in Peers : End(q)' = End(q)
    BY <2>1, <2>7, <2>8
  <2> QED
    BY <1>0, <2>1, <2>9, EndsAlone
<1> QED
  BY <1>1, <1>2, <1>3, <1>4

\* A packet of its sender's chain has a number that the sender has passed.
LEMMA NumberPassed ==
    ASSUME IInv, ~spoiled, NEW m \in sent, m.chain = End(m.from).sending
    PROVE  m.header.n < End(m.from).ns
<1>1. PICK i \in Peers : Lengths(i)
  BY DEF IInv
<1>2. Has(m.from) /\ Behind(m, session[m.from])
  BY <1>1 DEF Lengths
<1>3. End(m.from) = session[m.from]
  BY <1>2 DEF End
<1>4. Len(m.chain) \in Nat
  BY DataFields DEF IInv, TypeOK
<1> QED
  BY <1>2, <1>3, <1>4 DEF Behind

\* What is sent is at hand, or ahead, at once.
LEMMA SendKeepsReadInv ==
    ASSUME IInv, ReadInv, NEW p \in Peers, Send(p)
    PROVE  ReadInv'
<1>0. TypeOK /\ Sanity
  BY DEF IInv
<1>1. PICK s : s = session[p]
  OBVIOUS
<1>2. PICK t : t = ratchetEncrypt(s)
  OBVIOUS
<1>3. PICK m : m = [type |-> "data", from |-> p, header |-> HeaderOf(s),
                    chain |-> s.sending, id |-> sends]
  OBVIOUS
<1>4. Has(p) /\ s.sending # NoChain /\ s \in RatchetState
  BY <1>0, <1>1, HasState DEF Send, CanEncrypt
<1>5. /\ m.type = "data" /\ m.from = p /\ m.chain = s.sending
      /\ m.header.dh = s.dhSending /\ m.header.pn = s.pn /\ m.header.n = s.ns
  BY <1>3 DEF HeaderOf
<1>6. /\ t.dhSending = s.dhSending /\ t.dhReceiving = s.dhReceiving
      /\ t.root = s.root /\ t.sending = s.sending /\ t.receiving = s.receiving
      /\ t.ns = s.ns + 1 /\ t.nr = s.nr /\ t.pn = s.pn /\ t.skipped = s.skipped
  BY <1>2, <1>4 DEF ratchetEncrypt, RatchetState
<1>7. /\ session' = [session EXCEPT ![p] = t]
      /\ net' = net \cup {m} /\ sent' = sent \cup {m}
      /\ UNCHANGED <<drawn, read, spoiled>>
  BY <1>1, <1>2, <1>3 DEF Send
<1>8. t # NoSession
  <2>1. DOMAIN t = DOMAIN s
    BY <1>2 DEF ratchetEncrypt
  <2>2. DOMAIN s # DOMAIN NoSession
    BY <1>4 DEF RatchetState, NoSession
  <2> QED
    BY <2>1, <2>2
<1>9. End(p) = s /\ End(p)' = t /\ \A q \in Peers : q # p => End(q)' = End(q)
  BY <1>0, <1>1, <1>4, <1>7, <1>8 DEF End, Has, TypeOK
<1>10. OneHandshake'
  BY <1>4, <1>5, <1>7 DEF ReadInv, OneHandshake
<1>11. ASSUME ~spoiled' PROVE EndsSound' /\ \E x \in Peers : Reach(x)'
  <2>1. ~spoiled /\ EndsSound
    BY <1>7, <1>11 DEF ReadInv
  <2>2. EndsSound'
    <3> SUFFICES ASSUME NEW q \in Peers
                 PROVE  /\ AllUsed(End(q))' /\ Filed(End(q)')
                        /\ \A r \in read : r.from # q => GoneFrom(End(q)', r)
      BY <1>7 DEF EndsSound, Filed, GoneFrom
    <3>1. /\ AllUsed(End(q)) /\ Filed(End(q))
          /\ \A r \in read : r.from # q => GoneFrom(End(q), r)
      BY <2>1 DEF EndsSound
    <3>2. CASE q = p
      <4>1. AllUsed(End(q))'
        BY <1>6, <1>7, <1>9, <3>1, <3>2 DEF AllUsed, Used
      <4>2. Filed(t)
        BY <1>6, <1>9, <3>1, <3>2 DEF Filed
      <4>3. \A r \in read : r.from # q => GoneFrom(t, r)
        BY <1>6, <1>9, <3>1, <3>2 DEF GoneFrom
      <4> QED
        BY <1>9, <3>2, <4>1, <4>2, <4>3
    <3>3. CASE q # p
      <4>1. AllUsed(End(q))'
        BY <1>7, <1>9, <3>1, <3>3 DEF AllUsed, Used
      <4> QED
        BY <1>9, <3>1, <3>3, <4>1
    <3> QED
      BY <3>2, <3>3
  <2>3. PICK x \in Peers : Reach(x)
    BY <2>1 DEF ReadInv
  <2>4. Other(x) \in Peers /\ Other(x) # x /\ (p = x \/ p = Other(x))
    BY TwoPeers
  <2>5. /\ Leads(End(Other(x)), End(x))
        /\ \A r \in sent \ read :
              \/ r.from = x /\ AtHand(End(Other(x)), r)
              \/ r.from # x /\ (AtHand(End(x), r) \/ Ahead(End(Other(x)), r))
        /\ \A r \in sent : r.from # x /\ r.chain = End(x).receiving
                              => r.header.n < End(Other(x)).pn
    BY <2>3 DEF Reach
  <2>6. ASSUME p = x PROVE Reach(x)'
    <3>1. PICK o : o = End(Other(x))
      OBVIOUS
    <3>2. o = End(Other(x))'
      BY <1>9, <2>4, <2>6, <3>1
    <3>3. Leads(o, s)
      BY <1>9, <2>5, <2>6, <3>1
    <3>4. o \in RatchetState
      BY <1>0, <2>4, <3>1, EndType
    <3>5. o.nr <= s.ns + 1 /\ s.ns >= o.nr
      BY <1>4, <3>3, <3>4, StateFields DEF Leads
    <3>6. Leads(o, t)
      BY <1>6, <3>3, <3>5 DEF Leads
    <3>7. AtHand(o, m)
      BY <1>5, <3>3, <3>5 DEF Leads, AtHand
    <3>8. \A r : AtHand(t, r) <=> AtHand(s, r)
      BY <1>6 DEF AtHand
    <3>9. \A r \in sent' \ read' :
             \/ r.from = x /\ AtHand(o, r)
             \/ r.from # x /\ (AtHand(t, r) \/ Ahead(o, r))
      BY <1>5, <1>7, <1>9, <2>5, <2>6, <3>1, <3>7, <3>8
    <3>10. \A r \in sent' : r.from # x /\ r.chain = t.receiving => r.header.n < o.pn
      BY <1>5, <1>6, <1>7, <1>9, <2>5, <2>6, <3>1
    <3> QED
      BY <1>9, <2>6, <3>2, <3>6, <3>9, <3>10 DEF Reach, Leads, AtHand, Ahead
  <2>7. ASSUME p = Other(x) PROVE Reach(x)'
    <3>1. PICK e : e = End(x)
      OBVIOUS
    <3>2. e = End(x)'
      BY <1>9, <2>4, <2>7, <3>1
    <3>3. Leads(s, e)
      BY <1>9, <2>5, <2>7, <3>1
    <3>4. e \in RatchetState /\ Filed(e)
      BY <1>0, <2>1, <3>1, EndType DEF EndsSound
    <3>5. Leads(t, e)
      BY <1>6, <3>3 DEF Leads
    <3>6. Ahead(t, m)
      BY <1>5, <1>6 DEF Ahead
    <3>7. m.chain # e.receiving
      <4>1. Len(m.chain) = Len(e.root) + 1 /\ Len(e.receiving) < Len(e.root)
        BY <1>5, <3>3, <3>4 DEF Leads, Filed
      <4> QED
        BY <3>4, <4>1, StateFields
    <3>8. \A r : AtHand(t, r) <=> AtHand(s, r)
      BY <1>6 DEF AtHand
    <3>9. \A r : Ahead(t, r) <=> Ahead(s, r)
      BY <1>6 DEF Ahead
    <3>10. \A r \in sent' \ read' :
              \/ r.from = x /\ AtHand(t, r)
              \/ r.from # x /\ (AtHand(e, r) \/ Ahead(t, r))
      BY <1>5, <1>7, <1>9, <2>4, <2>5, <2>7, <3>1, <3>6, <3>8, <3>9
    <3>11. \A r \in sent' : r.from # x /\ r.chain = e.receiving => r.header.n < t.pn
      BY <1>6, <1>7, <1>9, <2>5, <2>7, <3>1, <3>7
    <3> QED
      BY <1>9, <2>7, <3>2, <3>5, <3>10, <3>11 DEF Reach, Leads, AtHand, Ahead
  <2>8. Reach(x)'
    BY <2>4, <2>6, <2>7
  <2> QED
    BY <2>2, <2>8
<1> QED
  BY <1>10, <1>11 DEF ReadInv

\* What handleDataPacket does to the end q that reads m.
LEMMA ReadFacts ==
    ASSUME IInv, ReadInv, NEW q \in Peers, NEW m \in net, handleDataPacket(q, m), ~spoiled,
           NEW s, s = End(q), NEW t, t = End(q)'
    PROVE  /\ s \in RatchetState /\ t \in RatchetState /\ Sane(s) /\ Filed(s) /\ Fresh(q) \in Key
           /\ m \in sent \ read /\ m \in Data /\ m.from = Other(q) /\ m.chain # NoChain
           /\ Opened(s, t, m, Fresh(q))
           /\ \A p \in Peers : p # q => End(p)' = End(p)
           /\ drawn' = [drawn EXCEPT ![q] = IF t.dhSending = Fresh(q) THEN @ + 1 ELSE @]
           /\ read' = read \cup {m} /\ sent' = sent /\ spoiled' = spoiled /\ net' \subseteq net
<1>0. TypeOK /\ Sanity /\ OnlySent /\ EndsSound
  BY DEF IInv, ReadInv
<1>1. Has(q) /\ m.type = "data" /\ m.from # q /\ Opens(session[q], m.header, m.chain, Fresh(q))
  BY DEF handleDataPacket, Readable
<1>2. m \in sent /\ m \in Data /\ m.chain # NoChain
  BY <1>0, <1>1 DEF OnlySent, TypeOK, ReadInv, OneHandshake
<1>3. m.from = Other(q)
  BY <1>1, <1>2, DataFields, TwoPeers
<1>4. s = session[q] /\ s \in RatchetState /\ Sane(s) /\ Fresh(q) \in Key
  BY <1>0, <1>1, HasState, Keys DEF End
<1>5. Filed(s) /\ \A r \in read : r.from # q => GoneFrom(s, r)
  BY <1>0 DEF EndsSound
<1>6. m \notin read
  BY <1>1, <1>2, <1>4, <1>5, GoneStaysShut
<1>7. PICK u : u = ratchetDecrypt(s, m.header, Fresh(q))
  OBVIOUS
<1>8. u \in RatchetState
  BY <1>2, <1>4, <1>7, DataFields, DecryptType
<1>9. /\ session' = [session EXCEPT ![q] = u]
      /\ drawn' = [drawn EXCEPT ![q] = IF u.dhSending = Fresh(q) THEN @ + 1 ELSE @]
      /\ read' = read \cup {m}
      /\ UNCHANGED <<sent, spoiled>> /\ net' \subseteq net
  BY <1>0, <1>4, <1>7, ArriveNet DEF handleDataPacket
<1>10. u = t /\ \A p \in Peers : p # q => End(p)' = End(p)
  <2>1. u # NoSession
    BY <1>8 DEF RatchetState, NoSession
  <2>2. session'[q] = u /\ \A p \in Peers : p # q => session'[p] = session[p]
    BY <1>0, <1>9 DEF TypeOK
  <2> QED
    BY <2>1, <2>2 DEF End, Has
<1>11. Opened(s, t, m, Fresh(q))
  BY <1>1, <1>2, <1>4, <1>5, <1>7, <1>10, DataFields, OpenCases DEF Opened
<1> QED
  BY <1>2, <1>3, <1>4, <1>5, <1>6, <1>8, <1>9, <1>10, <1>11

\* A key pair drawn is never drawn again.
LEMMA FreshIsNew ==
    ASSUME TypeOK, NEW q \in Peers, NEW s \in RatchetState, AllUsed(s)
    PROVE  s.dhReceiving # Fresh(q) /\ \A k \in s.skipped : k.dh # Fresh(q)
<1>1. Fresh(q)[1] = q /\ Fresh(q)[2] = drawn[q] + 1 /\ drawn[q] \in Nat
  BY DEF Fresh, TypeOK
<1>2. ~Used(Fresh(q))
  BY <1>1 DEF Used
<1>3. Fresh(q) # NoKey
  BY DEF Fresh, NoKey
<1> QED
  BY <1>2, <1>3 DEF AllUsed

\* The end that reads keeps what each end promises for itself.
LEMMA ReadKeepsEnds ==
    ASSUME IInv, ReadInv, NEW q \in Peers, NEW m \in net, handleDataPacket(q, m), ~spoiled,
           ByTurn(End(q), End(q)', m.header, m.chain, Fresh(q)) =>
              Used(m.header.dh) /\ \A k \in End(q).skipped : k.dh # m.header.dh
    PROVE  EndsSound'
<1>0. TypeOK /\ Sanity /\ EndsSound /\ drawn \in [Peers -> Nat]
  BY DEF IInv, TypeOK, ReadInv
<1>1. PICK s : s = End(q)
  OBVIOUS
<1>2. PICK t : t = End(q)'
  OBVIOUS
<1>3. /\ s \in RatchetState /\ t \in RatchetState /\ Sane(s) /\ Filed(s) /\ Fresh(q) \in Key
      /\ m \in Data /\ m.from = Other(q) /\ m.chain # NoChain
      /\ Opened(s, t, m, Fresh(q))
      /\ \A p \in Peers : p # q => End(p)' = End(p)
      /\ drawn' = [drawn EXCEPT ![q] = IF t.dhSending = Fresh(q) THEN @ + 1 ELSE @]
      /\ read' = read \cup {m}
  BY <1>1, <1>2, ReadFacts
<1>4. \A k \in Key : Used(k) => Used(k)'
  <2>1. \A p \in Peers : drawn'[p] \in Nat /\ drawn[p] \in Nat /\ drawn[p] <= drawn'[p]
    BY <1>0, <1>3
  <2> QED
    BY <2>1 DEF Used, Key
<1>5. t.dhSending = Fresh(q) => Used(t.dhSending)'
  <2>1. Fresh(q)[1] = q /\ Fresh(q)[2] = drawn[q] + 1
    BY DEF Fresh
  <2>2. t.dhSending = Fresh(q) => drawn'[q] = drawn[q] + 1
    BY <1>0, <1>3
  <2> QED
    BY <1>0, <2>1, <2>2 DEF Used
<1>6. ByTurn(s, t, m.header, m.chain, Fresh(q)) =>
         Used(m.header.dh) /\ \A k \in s.skipped : k.dh # m.header.dh
  BY <1>1, <1>2
<1>7. /\ AllUsed(s) /\ \A r \in read : r.from # q => GoneFrom(s, r)
  BY <1>0, <1>1 DEF EndsSound
<1>8. AllUsed(End(q))'
  <2>1. /\ s.dhSending \in Key /\ (s.dhReceiving # NoKey => s.dhReceiving \in Key)
        /\ s.skipped \subseteq Skipped /\ t.skipped \subseteq Skipped /\ m.header.dh \in Key
        /\ \A k \in Skipped : k.dh \in Key
    BY <1>3, DataFields DEF RatchetState, Skipped
  <2>2. Used(s.dhSending)' /\ (s.dhReceiving # NoKey => Used(s.dhReceiving)')
        /\ \A k \in s.skipped : Used(k.dh)'
    BY <1>4, <1>7, <2>1 DEF AllUsed
  <2>3. \A k \in Skipped : Passed(k, s.dhReceiving, s.receiving, s.nr, m.header.pn)
                              \/ Passed(k, s.dhReceiving, s.receiving, s.nr, m.header.n)
                           => Used(k.dh)'
    <3>1. s.receiving # NoChain => s.dhReceiving \in Key /\ s.dhReceiving # NoKey
      BY <1>3 DEF Sane, Key, NoKey
    <3> QED
      BY <2>2, <3>1 DEF Passed
  <2>4. CASE BySkipped(s, t, m.header, m.chain)
    <3>1. /\ t.dhSending = s.dhSending /\ t.dhReceiving = s.dhReceiving
          /\ t.skipped \subseteq s.skipped
      BY <2>1, <2>4 DEF BySkipped, SameSending, SameReceiving
    <3> QED
      BY <1>2, <2>2, <3>1 DEF AllUsed
  <2>5. CASE OnChain(s, t, m.header, m.chain)
    <3>1. /\ t.dhSending = s.dhSending /\ t.dhReceiving = s.dhReceiving
      BY <2>5 DEF OnChain, SameSending, SameReceiving
    <3>2. \A k \in t.skipped : Used(k.dh)'
      BY <2>1, <2>2, <2>3, <2>5 DEF OnChain
    <3> QED
      BY <1>2, <2>2, <3>1, <3>2 DEF AllUsed
  <2>6. CASE ByTurn(s, t, m.header, m.chain, Fresh(q))
    <3>1. t.dhSending = Fresh(q) /\ t.dhReceiving = m.header.dh
      BY <2>6 DEF ByTurn
    <3>2. Used(m.header.dh)'
      BY <1>4, <1>6, <2>1, <2>6
    <3>3. \A k \in t.skipped : Used(k.dh)'
      BY <2>1, <2>2, <2>3, <2>6, <3>2 DEF ByTurn, Passed
    <3> QED
      BY <1>2, <1>5, <3>1, <3>2, <3>3 DEF AllUsed
  <2> QED
    BY <1>3, <2>4, <2>5, <2>6 DEF Opened
<1>9. Filed(t)
  BY <1>3, <1>6, FiledKept
<1>10. \A r \in read' : r.from # q => GoneFrom(t, r)
  <2>1. \A r \in read : r \in Data
    BY <1>0 DEF TypeOK
  <2> QED
    BY <1>3, <1>7, <2>1, GoneKept
<1>11. ASSUME NEW p \in Peers, p # q
       PROVE  /\ AllUsed(End(p))' /\ Filed(End(p)')
              /\ \A r \in read' : r.from # p => GoneFrom(End(p)', r)
  <2>1. /\ AllUsed(End(p)) /\ Filed(End(p))
        /\ \A r \in read : r.from # p => GoneFrom(End(p), r)
    BY <1>0 DEF EndsSound
  <2>2. End(p)' = End(p) /\ m.from = p
    BY <1>3, <1>11, TwoPeers
  <2>3. End(p) \in RatchetState
    BY <1>0, EndType
  <2>4. AllUsed(End(p))'
    <3>1. /\ End(p).dhSending \in Key
          /\ End(p).dhReceiving # NoKey => End(p).dhReceiving \in Key
          /\ \A k \in End(p).skipped : k.dh \in Key
      BY <2>3, StateFields DEF RatchetState
    <3> QED
      BY <1>4, <2>1, <2>2, <3>1 DEF AllUsed
  <2> QED
    BY <1>3, <2>1, <2>2, <2>4
<1>12. /\ Filed(End(q)') /\ \A r \in read' : r.from # q => GoneFrom(End(q)', r)
  BY <1>2, <1>9, <1>10
<1> QED
  BY <1>8, <1>11, <1>12 DEF EndsSound, Filed, GoneFrom

\* What was not read stays at hand or ahead, also when the reader turns.
LEMMA ReadKeepsReadInv ==
    ASSUME IInv, ReadInv, NEW q \in Peers, NEW m \in net, handleDataPacket(q, m)
    PROVE  ReadInv'
<1>0. TypeOK /\ Sanity /\ KeyUsedOnce /\ OneHandshake
  BY DEF IInv, ReadInv
<1>1. /\ spoiled' = spoiled
      /\ sent' = sent /\ net' \subseteq net
  BY <1>0, ArriveNet DEF handleDataPacket
<1>2. OneHandshake'
  BY <1>0, <1>1 DEF OneHandshake
<1>3. ASSUME ~spoiled PROVE EndsSound' /\ \E x \in Peers : Reach(x)'
  <2>1. EndsSound
    BY <1>3 DEF ReadInv
  <2>2. PICK x \in Peers : Reach(x)
    BY <1>3 DEF ReadInv
  <2>3. PICK f : f = Fresh(q)
    OBVIOUS
  <2>4. PICK s : s = End(q)
    OBVIOUS
  <2>5. PICK t : t = End(q)'
    OBVIOUS
  <2>6. /\ s \in RatchetState /\ t \in RatchetState /\ Sane(s) /\ Filed(s) /\ f \in Key
        /\ m \in sent \ read /\ m \in Data /\ m.from = Other(q) /\ m.chain # NoChain
        /\ Opened(s, t, m, f)
        /\ \A p \in Peers : p # q => End(p)' = End(p)
        /\ read' = read \cup {m} /\ sent' = sent
    BY <1>3, <2>3, <2>4, <2>5, ReadFacts
  <2>7. Other(q) \in Peers /\ Other(q) # q /\ Other(Other(q)) = q /\ (x = q \/ x = Other(q))
    BY TwoPeers
  <2>8. PICK o : o = End(Other(q))
    OBVIOUS
  <2>9. o = End(Other(q))' /\ o \in RatchetState /\ AllUsed(o)
    BY <1>0, <2>1, <2>6, <2>7, <2>8, EndType DEF EndsSound
  <2>10. \A r \in sent : r \in Data /\ r.chain # NoChain /\ r.from \in Peers
    BY <1>0, DataFields DEF TypeOK, OneHandshake
  <2>11. \A r \in sent \ read' : ~(r.chain = m.chain /\ r.header.n = m.header.n) /\ r \notin read
    BY <1>0, <1>3, <2>6 DEF KeyUsedOnce
  <2>12. CASE x = q
    <3>1. /\ Leads(o, s)
          /\ \A r \in sent \ read :
                \/ r.from = q /\ AtHand(o, r)
                \/ r.from # q /\ (AtHand(s, r) \/ Ahead(o, r))
          /\ \A r \in sent : r.from # q /\ r.chain = s.receiving => r.header.n < o.pn
      BY <2>2, <2>4, <2>8, <2>12 DEF Reach
    <3>2. CASE BySkipped(s, t, m.header, m.chain) \/ OnChain(s, t, m.header, m.chain)
      <4>1. Leads(o, t)
        BY <2>6, <2>9, <3>1, <3>2, LeadStays
      <4>2. t.receiving = s.receiving
        BY <3>2 DEF BySkipped, OnChain, SameReceiving
      <4>3. ASSUME NEW r \in sent \ read', r.from # q, AtHand(s, r) PROVE AtHand(t, r)
        BY <2>6, <2>10, <2>11, <3>2, <4>3, AtHandKept
      <4>4. \A r \in sent \ read' :
               \/ r.from = q /\ AtHand(o, r)
               \/ r.from # q /\ (AtHand(t, r) \/ Ahead(o, r))
        BY <2>11, <3>1, <4>3
      <4>5. Reach(q)'
        BY <2>5, <2>6, <2>9, <3>1, <4>1, <4>2, <4>4 DEF Reach, Leads, AtHand, Ahead
      <4>6. ~ByTurn(s, t, m.header, m.chain, f)
        <5>1. CASE BySkipped(s, t, m.header, m.chain)
          BY <5>1 DEF BySkipped, ByTurn
        <5>2. CASE OnChain(s, t, m.header, m.chain)
          BY <5>2 DEF OnChain, ByTurn
        <5> QED
          BY <3>2, <5>1, <5>2
      <4>7. EndsSound'
        BY <1>3, <2>3, <2>4, <2>5, <4>6, ReadKeepsEnds
      <4> QED
        BY <4>5, <4>7
    <3>3. CASE ByTurn(s, t, m.header, m.chain, f)
      <4>1. Ahead(o, m)
        <5>1. ~AtHand(s, m)
          BY <3>3 DEF ByTurn, AtHand, KeyName
        <5> QED
          BY <2>6, <2>7, <3>1, <5>1
      <4>2. m.header.n < o.ns /\ Used(m.header.dh) /\ \A k \in s.skipped : k.dh # m.header.dh
        <5>1. m.header.n < o.ns
          BY <1>3, <2>6, <2>8, <4>1, NumberPassed DEF Ahead
        <5>2. m.header.dh = o.dhSending
          BY <4>1 DEF Ahead
        <5> QED
          BY <2>9, <3>1, <5>1, <5>2 DEF AllUsed, Leads
      <4>3. o.dhReceiving # f /\ \A k \in o.skipped : k.dh # f
        BY <1>0, <2>3, <2>9, FreshIsNew
      <4>4. Leads(t, o)
        BY <2>6, <2>9, <3>1, <3>3, <4>1, <4>2, <4>3, LeadPasses
      <4>5. t.pn = s.ns /\ o.receiving = s.sending
        BY <3>1, <3>3 DEF ByTurn, Leads
      <4>6. ASSUME NEW r \in sent, r.from = q, r.chain = o.receiving PROVE r.header.n < t.pn
        BY <1>3, <2>4, <4>5, <4>6, NumberPassed
      <4>7. ASSUME NEW r \in sent \ read', r.from # q PROVE AtHand(t, r)
        <5>1. m.header.pn = o.pn
          BY <4>1 DEF Ahead
        <5>2. CASE AtHand(s, r)
          BY <2>6, <2>10, <2>11, <3>1, <4>7, <5>1, <5>2, AtHandKept
        <5>3. CASE Ahead(o, r)
          <6>1. r.chain = m.chain /\ r.header.dh = m.header.dh
            BY <4>1, <5>3 DEF Ahead
          <6> QED
            BY <2>6, <2>10, <2>11, <3>3, <6>1, TurnReaches
        <5> QED
          BY <2>11, <3>1, <4>7, <5>2, <5>3
      <4>8. \A r \in sent \ read' :
               \/ r.from = Other(q) /\ AtHand(t, r)
               \/ r.from # Other(q) /\ (AtHand(o, r) \/ Ahead(t, r))
        BY <2>7, <2>10, <2>11, <3>1, <4>7, TwoPeers
      <4>9. \A r \in sent : r.from # Other(q) /\ r.chain = o.receiving => r.header.n < t.pn
        BY <2>7, <2>10, <4>6, TwoPeers
      <4>10. Reach(Other(q))'
        <5>1. End(Other(Other(q)))' = t
          BY <2>5, <2>7
        <5> QED
          BY <2>6, <2>9, <4>4, <4>8, <4>9, <5>1 DEF Reach, Leads, AtHand, Ahead
      <4>11. EndsSound'
        BY <1>3, <2>4, <4>2, ReadKeepsEnds
      <4> QED
        BY <2>7, <4>10, <4>11
    <3> QED
      BY <2>6, <3>2, <3>3 DEF Opened
  <2>13. CASE x = Other(q)
    <3>1. /\ Leads(s, o)
          /\ \A r \in sent \ read :
                \/ r.from # q /\ AtHand(s, r)
                \/ r.from = q /\ (AtHand(o, r) \/ Ahead(s, r))
          /\ \A r \in sent : r.from = q /\ r.chain = o.receiving => r.header.n < s.pn
      <4>1. \A r \in sent : r.from = Other(q) <=> r.from # q
        BY <2>7, <2>10, TwoPeers
      <4>2. Reach(Other(q)) /\ End(Other(Other(q))) = s /\ End(Other(q)) = o
        BY <2>2, <2>4, <2>7, <2>8, <2>13
      <4> QED
        BY <4>1, <4>2 DEF Reach
    <3>2. AtHand(s, m)
      BY <2>6, <2>7, <3>1
    <3>3. ~ByTurn(s, t, m.header, m.chain, f)
      BY <3>2 DEF ByTurn, AtHand, KeyName
    <3>4. BySkipped(s, t, m.header, m.chain) \/ OnChain(s, t, m.header, m.chain)
      BY <2>6, <3>3 DEF Opened
    <3>5. OnChain(s, t, m.header, m.chain) => m.header.n < o.ns
      <4>1. OnChain(s, t, m.header, m.chain) => m.chain = o.sending
        BY <3>1 DEF OnChain, Leads
      <4> QED
        BY <1>3, <2>6, <2>8, <4>1, NumberPassed
    <3>6. Leads(t, o)
      BY <2>6, <2>9, <3>1, <3>4, <3>5, LeadStays
    <3>7. ASSUME NEW r \in sent \ read', r.from # q PROVE AtHand(t, r)
      BY <2>6, <2>10, <2>11, <3>1, <3>4, <3>7, AtHandKept
    <3>8. t.pn = s.pn /\ \A r : Ahead(t, r) <=> Ahead(s, r)
      BY <3>4 DEF BySkipped, OnChain, SameSending, Ahead
    <3>9. \A r \in sent \ read' :
             \/ r.from = Other(q) /\ AtHand(t, r)
             \/ r.from # Other(q) /\ (AtHand(o, r) \/ Ahead(t, r))
      BY <2>7, <2>10, <2>11, <3>1, <3>7, <3>8, TwoPeers
    <3>10. \A r \in sent : r.from # Other(q) /\ r.chain = o.receiving => r.header.n < t.pn
      BY <2>7, <2>10, <3>1, <3>8, TwoPeers
    <3>11. Reach(Other(q))'
      <4>1. End(Other(Other(q)))' = t
        BY <2>5, <2>7
      <4> QED
        BY <2>6, <2>9, <3>6, <3>9, <3>10, <4>1 DEF Reach, Leads, AtHand, Ahead
    <3>12. EndsSound'
      BY <1>3, <2>3, <2>4, <2>5, <3>3, ReadKeepsEnds
    <3> QED
      BY <2>7, <3>11, <3>12
  <2> QED
    BY <2>7, <2>12, <2>13
<1> QED
  BY <1>1, <1>2, <1>3 DEF ReadInv

\* ReadInv is inductive beside IInv.
LEMMA NextKeepsReadInv == IInv /\ ReadInv /\ [Next]_vars => ReadInv'
<1> SUFFICES ASSUME IInv, ReadInv, [Next]_vars PROVE ReadInv'
  OBVIOUS
<1>1. CASE UNCHANGED vars
  <2>1. PICK p \in Peers : TRUE
    BY ConstantsAssumption
  <2> QED
    BY <1>1, <2>1, RestKeepsReadInv
<1>2. CASE Next
  <2>1. PICK p \in Peers :
          \/ Send(p) \/ Persist(p) \/ Crash(p)
          \/ \E m \in net : \/ completeIncomingHandshake(p, m)
                            \/ handleDataPacket(p, m)
                            \/ Undecryptable(p, m)
    BY <1>2 DEF Next
  <2> QED
    BY <2>1, SendKeepsReadInv, ReadKeepsReadInv, RestKeepsReadInv
<1> QED
  BY <1>1, <1>2

\* What the two invariants say of reading.
LEMMA ReadInvReadable == IInv /\ ReadInv => ReadableOnce
<1> SUFFICES ASSUME IInv, ReadInv PROVE ReadableOnce
  OBVIOUS
<1>0. TypeOK /\ Sanity /\ OnlySent /\ OneHandshake
  BY DEF IInv, ReadInv
<1>1. InFlightReadable
  <2> SUFFICES ASSUME NEW m \in net \ read, NEW q \in Peers,
                      m.type = "data", m.from # q, Has(q), ~spoiled
               PROVE  Readable(q, m) \/ Skips(session[q], m.header, Fresh(q))
    BY DEF InFlightReadable
  <2>1. m \in sent /\ m \in Data /\ m.chain # NoChain /\ m.from = Other(q)
    BY <1>0, DataFields, TwoPeers DEF OnlySent, TypeOK, OneHandshake
  <2>2. PICK s : s = End(q)
    OBVIOUS
  <2>3. s = session[q] /\ s \in RatchetState /\ Sane(s) /\ Filed(s) /\ Fresh(q) \in Key
    BY <1>0, <2>2, EndType, Keys DEF End, ReadInv, EndsSound
  <2>4. PICK x \in Peers : Reach(x)
    BY DEF ReadInv
  <2>5. CASE x = q
    <3>1. Leads(End(Other(q)), s) /\ (AtHand(s, m) \/ Ahead(End(Other(q)), m))
      BY <2>1, <2>2, <2>4, <2>5 DEF Reach
    <3> QED
      BY <2>1, <2>3, <3>1, AtHandOpens, AheadOpens DEF Readable
  <2>6. CASE x = Other(q)
    <3>1. AtHand(s, m)
      BY <2>1, <2>2, <2>4, <2>6, TwoPeers DEF Reach
    <3> QED
      BY <2>1, <2>3, <3>1, AtHandOpens DEF Readable
  <2> QED
    BY <2>5, <2>6, TwoPeers
<1>2. ReadKeysGone
  <2> SUFFICES ASSUME ~spoiled, NEW m \in read, NEW q \in Peers, m.from # q, Readable(q, m)
               PROVE  FALSE
    BY DEF ReadKeysGone
  <2>1. m \in Data /\ Has(q) /\ Opens(session[q], m.header, m.chain, Fresh(q))
    BY <1>0 DEF TypeOK, Readable
  <2>2. End(q) = session[q] /\ End(q) \in RatchetState /\ Sane(End(q)) /\ Fresh(q) \in Key
    BY <1>0, <2>1, EndType, Keys DEF End
  <2>3. Filed(End(q)) /\ GoneFrom(End(q), m)
    BY DEF ReadInv, EndsSound
  <2> QED
    BY <2>1, <2>2, <2>3, GoneStaysShut
<1> QED
  BY <1>1, <1>2 DEF ReadableOnce

\* Whatever the order packets arrive in, each can be read until it is, unless it
\* lies more than MAX_SKIP ahead, and never after (ratchetDecrypt and
\* skipMessageKeys), for every MAX_SKIP and any number of packets and turns.
THEOREM ReadOnce == Spec => []ReadableOnce
  BY InitIInv, NextKeepsIInv, InitReadInv, NextKeepsReadInv, ReadInvReadable, PTL DEF Spec

----------------------------------------------------------------------------
(* Group *)

KeyMap == UNION {[K -> G!Key] : K \in SUBSET Peer}

GroupType ==
    [members : Seq(Peer), keys : KeyMap, admin : Peer \cup {Nobody}, name : Name]

InviteType ==
    [kind : {"group_invite"}, members : Seq(Peer), keys : KeyMap, by : Peer, name : Name]

ControlType ==
    InviteType
    \cup [kind : {"group_member_added"}, peer : Peer, key : G!Key]
    \cup [kind : {"group_member_kicked"}, peer : Peer]
    \cup [kind : {"group_admin_change"}, peer : Peer \cup {Nobody}]
    \cup [kind : {"group_rename"}, name : Name]
    \cup [kind : {"group_leave"}]

NetType == [Peer -> [Peer -> Seq(ControlType)]]

GroupTypes ==
    /\ group \in [Peer -> GroupType \cup {Nobody}]
    /\ pending \in [Peer -> InviteType \cup {Nobody}]
    /\ controls \in NetType
    /\ keyCount \in Nat /\ restarts \in Nat
    /\ addedBy \in [Peer -> Seq(Peer)]
    /\ strayed \cup gone \subseteq Peer /\ headless \in BOOLEAN

\* x, a group of p or an invite to p, lists each member once, p among them, and has
\* for each a key that was given out.
Lists(x, p, given) ==
    /\ G!IsInjective(x.members)
    /\ p \in G!ToSet(x.members)
    /\ DOMAIN x.keys = G!ToSet(x.members)
    /\ \A m \in DOMAIN x.keys : <<m, x.keys[m]>> \in given

\* What p may send to q.
Tells(x, p, q, given) ==
    /\ p # q
    /\ x.kind = "group_invite" => Lists(x, q, given) /\ x.by = p
    /\ x.kind = "group_member_added" => <<x.peer, x.key>> \in given

NetTells(n, given) ==
    \A p, q \in Peer : \A i \in DOMAIN n[p][q] : Tells(n[p][q][i], p, q, given)

GroupsList(gr, given) == \A p \in Peer : gr[p] # Nobody => Lists(gr[p], p, given)

InvitesList(pe, given) ==
    \A p \in Peer : pe[p] # Nobody => Lists(pe[p], p, given) /\ pe[p].by # p

Told(gr, pe, n, given) == GroupsList(gr, given) /\ InvitesList(pe, given) /\ NetTells(n, given)

\* A device that was never added has no key, one that was added once has one.
OneKey(given, added) ==
    \A m \in Peer :
        /\ Len(added[m]) = 0 => \A k \in G!Key : <<m, k>> \notin given
        /\ Len(added[m]) = 1 => \A k, l \in G!Key : <<m, k>> \in given /\ <<m, l>> \in given => k = l

\* Some set of keys given out explains every key that a device has or is on its way.
KeysGiven ==
    \E given \in SUBSET (Peer \X (1..keyCount)) :
        Told(group, pending, controls, given) /\ OneKey(given, addedBy)

Created == keyCount = 0 => \A p, q \in Peer : controls[p][q] = <<>>

Acts(gr, p) == gr[p] # Nobody /\ gr[p].admin = p

\* The i-th message from q to p makes p the admin.
Appoints(n, q, p, i) ==
    /\ i \in DOMAIN n[q][p]
    /\ n[q][p][i].kind = "group_admin_change" /\ n[q][p][i].peer = p

\* The role is with one device, or in one message to the device it names.
RoleOnce(gr, n) ==
    /\ \A p, q \in Peer : Acts(gr, p) /\ Acts(gr, q) => p = q
    /\ \A p, q, r \in Peer : Acts(gr, r) => \A i \in Nat : ~Appoints(n, q, p, i)
    /\ \A p, q, r, s \in Peer : \A i, j \in Nat :
        Appoints(n, p, q, i) /\ Appoints(n, r, s, j) => p = r /\ q = s /\ i = j

GroupInv ==
    /\ GroupTypes /\ KeysGiven /\ Created
    /\ restarts = 0 => RoleOnce(group, controls)

\* What Group knows of finite sets is what is known of them here.
LEMMA GroupCount ==
    ASSUME NEW X
    PROVE  (G!IsFiniteSet(X) <=> IsFiniteSet(X)) /\ G!Cardinality(X) = Cardinality(X)
<1>1. G!IsFiniteSet(X) <=> IsFiniteSet(X)
  BY DEF G!IsFiniteSet, IsFiniteSet
<1>2. G!Cardinality(X) = Cardinality(X)
  BY DEF G!Cardinality, Cardinality
<1> QED BY <1>1, <1>2

LEMMA KeyMapIs ==
    ASSUME NEW K \in SUBSET Peer, NEW f \in [K -> G!Key]
    PROVE  f \in KeyMap
  BY DEF KeyMap

LEMMA KeyMapHas ==
    ASSUME NEW f \in KeyMap
    PROVE  DOMAIN f \in SUBSET Peer /\ \A m \in DOMAIN f : f[m] \in G!Key
  BY DEF KeyMap

\* A member more, with a key.
LEMMA MemberAdded ==
    ASSUME NEW g \in GroupType, NEW p \in Peer, NEW key \in G!Key,
           p \notin G!Members(g), NEW q, NEW given, Lists(g, q, given),
           NEW h, h = G!addMember(g, p, key)
    PROVE  /\ h \in GroupType
           /\ Lists(h, q, given \cup {<<p, key>>}) /\ Lists(h, p, given \cup {<<p, key>>})
           /\ h.admin = g.admin /\ G!Members(h) = G!Members(g) \cup {p}
<1>1. /\ h.members = Append(g.members, p) /\ h.admin = g.admin /\ h.name = g.name
      /\ h.keys = [m \in DOMAIN g.keys \cup {p} |-> IF m = p THEN key ELSE g.keys[m]]
      /\ h = [members |-> h.members, keys |-> h.keys, admin |-> h.admin, name |-> h.name]
  BY DEF G!addMember, GroupType
<1>2. g.members \in Seq(Peer) /\ g.keys \in KeyMap /\ g.admin \in Peer \cup {Nobody} /\ g.name \in Name
  BY DEF GroupType
<1>3. h.members \in Seq(Peer) /\ Len(h.members) = Len(g.members) + 1
      /\ (\A i \in 1..Len(g.members) : h.members[i] = g.members[i])
      /\ h.members[Len(h.members)] = p
  BY <1>1, <1>2
<1>4. DOMAIN g.keys \in SUBSET Peer /\ \A m \in DOMAIN g.keys : g.keys[m] \in G!Key
  BY <1>2, KeyMapHas
<1>5. h.keys \in [DOMAIN g.keys \cup {p} -> G!Key] /\ DOMAIN g.keys \cup {p} \in SUBSET Peer
  BY <1>1, <1>4
<1>6. h.keys \in KeyMap
  BY <1>5, KeyMapIs
<1>7. h \in GroupType
  BY <1>1, <1>2, <1>3, <1>6 DEF GroupType
<1>12. DOMAIN g.members = 1..Len(g.members) /\ DOMAIN h.members = 1..(Len(g.members) + 1)
      /\ Len(g.members) \in Nat
  BY <1>2, <1>3, LenProperties
<1>8. G!Members(h) = G!Members(g) \cup {p}
  <2>1. G!Members(h) \subseteq G!Members(g) \cup {p}
    <3> SUFFICES ASSUME NEW i \in 1..(Len(g.members) + 1) PROVE h.members[i] \in G!Members(g) \cup {p}
      BY <1>12 DEF G!Members, G!ToSet
    <3>1. CASE i <= Len(g.members)
      BY <1>3, <1>12, <3>1 DEF G!Members, G!ToSet
    <3>2. CASE i = Len(g.members) + 1
      BY <1>3, <3>2
    <3> QED BY <1>12, <3>1, <3>2
  <2>2. \A i \in 1..Len(g.members) : g.members[i] \in G!Members(h)
    <3> SUFFICES ASSUME NEW i \in 1..Len(g.members) PROVE g.members[i] \in G!Members(h)
      OBVIOUS
    <3>1. i \in DOMAIN h.members /\ h.members[i] = g.members[i]
      BY <1>3, <1>12
    <3> QED BY <3>1 DEF G!Members, G!ToSet
  <2>3. p \in G!Members(h)
    BY <1>3, <1>12 DEF G!Members, G!ToSet
  <2> QED BY <1>12, <2>1, <2>2, <2>3 DEF G!Members, G!ToSet
<1>9. G!IsInjective(h.members)
  <2>1. \A i \in 1..Len(g.members) : g.members[i] # p
    BY <1>12 DEF G!Members, G!ToSet
  <2>2. \A i \in 1..Len(g.members), j \in 1..Len(g.members) : g.members[i] = g.members[j] => i = j
    BY <1>12 DEF G!IsInjective, Lists
  <2> SUFFICES ASSUME NEW i \in 1..(Len(g.members) + 1), NEW j \in 1..(Len(g.members) + 1),
                      h.members[i] = h.members[j]
               PROVE  i = j
    BY <1>12 DEF G!IsInjective
  <2>3. CASE i <= Len(g.members) /\ j <= Len(g.members)
    BY <1>3, <1>12, <2>2, <2>3
  <2>4. CASE i <= Len(g.members) /\ j = Len(g.members) + 1
    BY <1>3, <1>12, <2>1, <2>4
  <2>5. CASE i = Len(g.members) + 1 /\ j <= Len(g.members)
    BY <1>3, <1>12, <2>1, <2>5
  <2> QED BY <1>12, <2>3, <2>4, <2>5
<1>10. DOMAIN h.keys = G!ToSet(h.members) /\ q \in G!ToSet(h.members) /\ p \in G!ToSet(h.members)
  BY <1>1, <1>8 DEF Lists, G!Members
<1>11. \A m \in DOMAIN h.keys : <<m, h.keys[m]>> \in given \cup {<<p, key>>}
  BY <1>1 DEF Lists
<1> QED BY <1>1, <1>7, <1>8, <1>9, <1>10, <1>11 DEF Lists

\* A sequence without its i-th element.
LEMMA RemovedFrom ==
    ASSUME NEW X, NEW s \in Seq(X), NEW i \in 1..Len(s), NEW r, r = G!RemoveAt(s, i)
    PROVE  /\ r \in Seq(X)
           /\ Len(r) = Len(s) - 1
           /\ \A j \in 1..Len(r) : r[j] = IF j < i THEN s[j] ELSE s[j + 1]
<1> DEFINE a == SubSeq(s, 1, i - 1)
           b == SubSeq(s, i + 1, Len(s))
<1>1. Len(s) \in Nat /\ i \in Nat /\ i <= Len(s) /\ 1 <= i
  BY LenProperties
<1>2. /\ a \in Seq(X) /\ Len(a) = i - 1
      /\ \A j \in 1..(i - 1) : a[j] = s[j]
  <2>1. \A j \in 1..(i - 1) : j \in 1..Len(s)
    BY <1>1
  <2> QED BY <1>1, <2>1, SubSeqProperties
<1>3. /\ b \in Seq(X) /\ Len(b) = Len(s) - i
      /\ \A j \in 1..(Len(s) - i) : b[j] = s[i + j]
  <2>1. \A j \in (i + 1)..Len(s) : j \in 1..Len(s)
    BY <1>1
  <2>2. b \in Seq(X) /\ Len(b) = IF i + 1 <= Len(s) THEN Len(s) - (i + 1) + 1 ELSE 0
    BY <1>1, <2>1, SubSeqProperties
  <2>3. \A j \in 1..(Len(s) - (i + 1) + 1) : b[j] = s[i + 1 + j - 1]
    BY <1>1, <2>1, SubSeqProperties
  <2>4. \A j \in 1..(Len(s) - i) : b[j] = s[i + j]
    <3> SUFFICES ASSUME NEW j \in 1..(Len(s) - i) PROVE b[j] = s[i + j]
      OBVIOUS
    <3>1. j \in 1..(Len(s) - (i + 1) + 1) /\ i + 1 + j - 1 = i + j
      BY <1>1
    <3> HIDE DEF b
    <3> QED BY <2>3, <3>1
  <2>5. Len(b) = Len(s) - i
    BY <1>1, <2>2
  <2> QED BY <2>2, <2>4, <2>5
<1> HIDE DEF a, b
<1>4. r = a \o b
  BY DEF G!RemoveAt, a, b
<1>5. /\ r \in Seq(X) /\ Len(r) = Len(a) + Len(b)
      /\ \A j \in 1..(Len(a) + Len(b)) : r[j] = IF j <= Len(a) THEN a[j] ELSE b[j - Len(a)]
  <2>1. a \in Seq(X) /\ b \in Seq(X)
    BY <1>2, <1>3
  <2>2. /\ a \o b \in Seq(X) /\ Len(a \o b) = Len(a) + Len(b)
        /\ \A j \in 1..Len(a) + Len(b) : (a \o b)[j] = IF j <= Len(a) THEN a[j] ELSE b[j - Len(a)]
    BY <2>1, ConcatProperties, Zenon
  <2> QED BY <1>4, <2>2
<1>6. Len(r) = Len(s) - 1
  BY <1>1, <1>2, <1>3, <1>5
<1>7. ASSUME NEW j \in 1..Len(r)
      PROVE  r[j] = IF j < i THEN s[j] ELSE s[j + 1]
  <2>1. j \in Nat /\ 1 <= j /\ j <= Len(s) - 1 /\ j \in 1..(Len(a) + Len(b))
    BY <1>1, <1>5, <1>6
  <2>2. CASE j < i
    <3>1. j <= Len(a) /\ j \in 1..(i - 1)
      BY <1>1, <1>2, <2>1, <2>2
    <3> QED BY <1>2, <1>5, <2>1, <2>2, <3>1
  <2>3. CASE ~(j < i)
    <3>1. ~(j <= Len(a)) /\ j - Len(a) \in 1..(Len(s) - i) /\ i + (j - Len(a)) = j + 1
      BY <1>1, <1>2, <2>1, <2>3
    <3> QED BY <1>3, <1>5, <2>1, <2>3, <3>1
  <2> QED BY <2>2, <2>3
<1> QED BY <1>5, <1>6, <1>7

\* What is left of a list of distinct members without one of them.
LEMMA RemovedAt ==
    ASSUME NEW s \in Seq(Peer), G!IsInjective(s), NEW i \in DOMAIN s, NEW r, r = G!RemoveAt(s, i)
    PROVE  /\ r \in Seq(Peer) /\ G!IsInjective(r)
           /\ G!ToSet(r) = G!ToSet(s) \ {s[i]}
<1>1. i \in 1..Len(s) /\ Len(s) \in Nat /\ i \in Nat /\ 1 <= i /\ i <= Len(s)
  BY LenProperties
<1>5. r \in Seq(Peer) /\ Len(r) = Len(s) - 1
      /\ \A j \in 1..Len(r) : r[j] = IF j < i THEN s[j] ELSE s[j + 1]
  BY <1>1, RemovedFrom
<1>6. \A j \in 1..(Len(s) - 1) : r[j] = IF j < i THEN s[j] ELSE s[j + 1]
  BY <1>5
<1>10. DOMAIN r = 1..(Len(s) - 1) /\ DOMAIN s = 1..Len(s)
  BY <1>5, LenProperties
<1>7. G!IsInjective(r)
  <2> SUFFICES ASSUME NEW j \in 1..(Len(s) - 1), NEW k \in 1..(Len(s) - 1), r[j] = r[k]
               PROVE  j = k
    BY <1>10 DEF G!IsInjective
  <2>1. \A n \in 1..Len(s), m \in 1..Len(s) : s[n] = s[m] => n = m
    BY <1>10 DEF G!IsInjective
  <2>2. CASE j < i /\ k < i
    BY <1>1, <1>6, <2>1, <2>2
  <2>3. CASE j < i /\ ~(k < i)
    BY <1>1, <1>6, <2>1, <2>3
  <2>4. CASE ~(j < i) /\ k < i
    BY <1>1, <1>6, <2>1, <2>4
  <2>5. CASE ~(j < i) /\ ~(k < i)
    BY <1>1, <1>6, <2>1, <2>5
  <2> QED BY <2>2, <2>3, <2>4, <2>5
<1>8. G!ToSet(r) \subseteq G!ToSet(s) \ {s[i]}
  <2> SUFFICES ASSUME NEW j \in 1..(Len(s) - 1)
               PROVE  r[j] \in G!ToSet(s) \ {s[i]}
    BY <1>10 DEF G!ToSet
  <2> QED BY <1>1, <1>6, <1>10 DEF G!ToSet, G!IsInjective
<1>9. G!ToSet(s) \ {s[i]} \subseteq G!ToSet(r)
  <2> SUFFICES ASSUME NEW j \in 1..Len(s), s[j] # s[i]
               PROVE  s[j] \in G!ToSet(r)
    BY DEF G!ToSet
  <2>1. CASE j < i
    BY <1>1, <1>10, <1>6, <2>1 DEF G!ToSet
  <2>2. CASE j > i
    <3>1. j - 1 \in 1..(Len(s) - 1) /\ r[j - 1] = s[j]
      BY <1>1, <1>6, <2>2
    <3> QED BY <1>10, <3>1 DEF G!ToSet
  <2> QED BY <1>1, <2>1, <2>2
<1> QED BY <1>5, <1>7, <1>8, <1>9

\* A member less.
LEMMA MemberRemoved ==
    ASSUME NEW g \in GroupType, NEW q, NEW given, Lists(g, q, given),
           NEW p \in G!Members(g), p # q, NEW h, h = G!removeMember(g, p)
    PROVE  h \in GroupType /\ Lists(h, q, given) /\ h.admin = g.admin
<1> DEFINE i == CHOOSE i \in DOMAIN g.members : g.members[i] = p
<1>1. i \in DOMAIN g.members /\ g.members[i] = p
  BY DEF G!Members, G!ToSet
<1>2. /\ h.members = G!RemoveAt(g.members, i) /\ h.admin = g.admin /\ h.name = g.name
      /\ h.keys = [m \in DOMAIN g.keys \ {p} |-> g.keys[m]]
      /\ h = [members |-> h.members, keys |-> h.keys, admin |-> h.admin, name |-> h.name]
  BY DEF G!removeMember, GroupType
<1> HIDE DEF i
<1>3. g.members \in Seq(Peer) /\ g.keys \in KeyMap /\ g.admin \in Peer \cup {Nobody} /\ g.name \in Name
  BY DEF GroupType
<1>4. G!IsInjective(g.members)
  BY DEF Lists
<1>5. h.members \in Seq(Peer) /\ G!IsInjective(h.members) /\ G!ToSet(h.members) = G!ToSet(g.members) \ {p}
  BY <1>1, <1>2, <1>3, <1>4, RemovedAt
<1>6. DOMAIN g.keys \in SUBSET Peer /\ \A m \in DOMAIN g.keys : g.keys[m] \in G!Key
  BY <1>3, KeyMapHas
<1>7. h.keys \in [DOMAIN g.keys \ {p} -> G!Key] /\ DOMAIN g.keys \ {p} \in SUBSET Peer
  BY <1>2, <1>6
<1>8. h.keys \in KeyMap
  BY <1>7, KeyMapIs
<1>9. h \in GroupType
  BY <1>2, <1>3, <1>5, <1>8 DEF GroupType
<1> QED BY <1>2, <1>5, <1>9 DEF Lists

LEMMA AdminSet ==
    ASSUME NEW g \in GroupType, NEW q, NEW given, Lists(g, q, given), NEW p,
           NEW h, h = G!setAdmin(g, p), Nobody \notin Peer
    PROVE  /\ h \in GroupType /\ Lists(h, q, given) /\ G!Members(h) = G!Members(g)
           /\ h.admin = (IF p = Nobody \/ p \in G!Members(g) THEN p ELSE g.admin)
<1>1. /\ h.members = g.members /\ h.keys = g.keys /\ h.name = g.name
      /\ h.admin = (IF p = Nobody \/ p \in G!Members(g) THEN p ELSE g.admin)
      /\ h = [members |-> h.members, keys |-> h.keys, admin |-> h.admin, name |-> h.name]
  BY DEF G!setAdmin, GroupType
<1>2. g.members \in Seq(Peer) /\ g.keys \in KeyMap /\ g.admin \in Peer \cup {Nobody} /\ g.name \in Name
  BY DEF GroupType
<1>3. G!Members(g) \subseteq Peer
  BY <1>2 DEF G!Members, G!ToSet
<1>4. h \in GroupType
  BY <1>1, <1>2, <1>3 DEF GroupType
<1> QED BY <1>1, <1>4 DEF Lists, G!Members

LEMMA NameSet ==
    ASSUME NEW g \in GroupType, NEW q, NEW given, Lists(g, q, given), NEW n \in Name,
           NEW h, h = G!setName(g, n)
    PROVE  h \in GroupType /\ Lists(h, q, given) /\ h.admin = g.admin
<1>1. /\ h.members = g.members /\ h.keys = g.keys /\ h.name = n /\ h.admin = g.admin
      /\ h = [members |-> h.members, keys |-> h.keys, admin |-> h.admin, name |-> h.name]
  BY DEF G!setName, GroupType
<1>2. g.members \in Seq(Peer) /\ g.keys \in KeyMap /\ g.admin \in Peer \cup {Nobody} /\ g.name \in Name
  BY DEF GroupType
<1>3. h \in GroupType
  BY <1>1, <1>2 DEF GroupType
<1> QED BY <1>1, <1>3 DEF Lists

LEMMA Joined ==
    ASSUME NEW x \in InviteType, NEW q, NEW given, Lists(x, q, given), NEW h, h = G!joinGroup(x)
    PROVE  h \in GroupType /\ Lists(h, q, given) /\ h.admin = x.by
<1>1. /\ h.members = x.members /\ h.keys = x.keys /\ h.name = x.name /\ h.admin = x.by
      /\ h = [members |-> h.members, keys |-> h.keys, admin |-> h.admin, name |-> h.name]
  BY DEF G!joinGroup
<1>2. x.members \in Seq(Peer) /\ x.keys \in KeyMap /\ x.by \in Peer /\ x.name \in Name
  BY DEF InviteType
<1>3. h \in GroupType
  BY <1>1, <1>2 DEF GroupType
<1> QED BY <1>1, <1>3 DEF Lists

\* An invite tells of the group what its sender has.
LEMMA Invited ==
    ASSUME NEW g \in GroupType, NEW p \in Peer, NEW q, p # q, NEW given, Lists(g, q, given),
           NEW x, x = G!InviteOf(g, p)
    PROVE  x \in ControlType /\ Tells(x, p, q, given) /\ x.kind = "group_invite"
<1>1. /\ x.kind = "group_invite" /\ x.members = g.members /\ x.keys = g.keys /\ x.name = g.name /\ x.by = p
      /\ x = [kind |-> x.kind, members |-> x.members, keys |-> x.keys, by |-> x.by, name |-> x.name]
  BY DEF G!InviteOf
<1>2. g.members \in Seq(Peer) /\ g.keys \in KeyMap /\ g.name \in Name
  BY DEF GroupType
<1>3. x \in InviteType
  BY <1>1, <1>2 DEF InviteType
<1> QED BY <1>1, <1>3 DEF Lists, Tells, ControlType

LEMMA ControlTypes ==
    ASSUME NEW x \in ControlType
    PROVE  /\ x.kind = "group_invite" => x \in InviteType
           /\ x.kind = "group_member_added" => x.peer \in Peer /\ x.key \in G!Key
           /\ x.kind = "group_member_kicked" => x.peer \in Peer
           /\ x.kind = "group_admin_change" => x.peer \in Peer \cup {Nobody}
           /\ x.kind = "group_rename" => x.name \in Name
  BY DEF ControlType, InviteType

\* What a longer set of keys given out explains.
LEMMA ToldMore ==
    ASSUME NEW gr, NEW pe, NEW n, NEW given, NEW more, given \subseteq more,
           Told(gr, pe, n, given)
    PROVE  Told(gr, pe, n, more)
<1>1. \A x, p : Lists(x, p, given) => Lists(x, p, more)
  BY DEF Lists
<1>2. \A x, p, q : Tells(x, p, q, given) => Tells(x, p, q, more)
  BY <1>1 DEF Tells
<1>3. GroupsList(gr, more) /\ InvitesList(pe, more)
  BY <1>1 DEF Told, GroupsList, InvitesList
<1>4. NetTells(n, more)
  BY <1>2 DEF Told, NetTells
<1> QED BY <1>3, <1>4 DEF Told

\* Who a message from p was sent to has it as the last.
LEMMA SentTo ==
    ASSUME NEW n \in NetType, NEW p \in Peer, NEW to, NEW x \in ControlType,
           NEW r, r = G!SendTo(n, p, to, x)
    PROVE  /\ r \in NetType
           /\ \A a, b \in Peer : r[a][b] = IF a = p /\ b \in to THEN Append(n[a][b], x) ELSE n[a][b]
<1>1. n \in [Peer -> [Peer -> Seq(ControlType)]]
  BY DEF NetType
<1> DEFINE row == [q \in Peer |-> IF q \in to THEN Append(n[p][q], x) ELSE n[p][q]]
<1>2. r = [n EXCEPT ![p] = row]
  BY DEF G!SendTo
<1>3. row \in [Peer -> Seq(ControlType)]
  BY <1>1
<1>4. \A b \in Peer : row[b] = IF b \in to THEN Append(n[p][b], x) ELSE n[p][b]
  OBVIOUS
<1> HIDE DEF row
<1>5. r \in NetType
  BY <1>1, <1>2, <1>3 DEF NetType
<1>6. r[p] = row /\ \A a \in Peer : a # p => r[a] = n[a]
  BY <1>1, <1>2
<1> QED BY <1>4, <1>5, <1>6

LEMMA SentTells ==
    ASSUME NEW n \in NetType, NEW p \in Peer, NEW to, NEW x \in ControlType, NEW given,
           NetTells(n, given), \A q \in to : Tells(x, p, q, given),
           NEW r, r = G!SendTo(n, p, to, x)
    PROVE  NetTells(r, given)
<1> SUFFICES ASSUME NEW a \in Peer, NEW b \in Peer, NEW i \in DOMAIN r[a][b]
             PROVE  Tells(r[a][b][i], a, b, given)
  BY DEF NetTells
<1>1. r[a][b] = IF a = p /\ b \in to THEN Append(n[a][b], x) ELSE n[a][b]
  BY SentTo
<1>2. CASE ~(a = p /\ b \in to)
  BY <1>1, <1>2 DEF NetTells
<1>3. CASE a = p /\ b \in to
  <2>1. n[a][b] \in Seq(ControlType)
    BY DEF NetType
  <2>2. r[a][b] = Append(n[a][b], x)
    BY <1>1, <1>3
  <2>3. i \in 1..(Len(n[a][b]) + 1) /\ Len(n[a][b]) \in Nat /\ DOMAIN n[a][b] = 1..Len(n[a][b])
    BY <2>1, <2>2
  <2>4. CASE i \in 1..Len(n[a][b])
    <3>1. r[a][b][i] = n[a][b][i]
      BY <2>1, <2>2, <2>4
    <3> QED BY <2>3, <2>4, <3>1 DEF NetTells
  <2>5. CASE i = Len(n[a][b]) + 1
    <3>1. r[a][b][i] = x
      BY <2>1, <2>2, <2>5
    <3> QED BY <1>3, <3>1
  <2> QED BY <2>3, <2>4, <2>5
<1> QED BY <1>2, <1>3

Taken(n, q, p, i) == [n EXCEPT ![q][p] = G!RemoveAt(@, i)]

\* Where the j-th message was before the i-th was taken.
Was(j, i) == IF j < i THEN j ELSE j + 1

\* A message of a channel is taken from it.
LEMMA TakenFrom ==
    ASSUME NEW n \in NetType, NEW q \in Peer, NEW p \in Peer, NEW i \in DOMAIN n[q][p],
           NEW r, r = Taken(n, q, p, i)
    PROVE  /\ r \in NetType
           /\ n[q][p][i] \in ControlType /\ n[q][p] # <<>> /\ i \in Nat
           /\ \A j \in DOMAIN r[q][p] :
                j \in Nat /\ Was(j, i) \in DOMAIN n[q][p] /\ r[q][p][j] = n[q][p][Was(j, i)]
           /\ \A a, b \in Peer : a # q \/ b # p => r[a][b] = n[a][b]
<1>1. n \in [Peer -> [Peer -> Seq(ControlType)]]
  BY DEF NetType
<1> DEFINE t == n[q][p]
           u == G!RemoveAt(t, i)
<1>2. t \in Seq(ControlType) /\ Len(t) \in Nat /\ DOMAIN t = 1..Len(t) /\ i \in 1..Len(t)
  BY <1>1
<1>3. t[i] \in ControlType /\ t # <<>> /\ i \in Nat
  BY <1>2
<1> HIDE DEF t, u
<1>4. /\ u \in Seq(ControlType) /\ Len(u) = Len(t) - 1
      /\ \A j \in 1..Len(u) : u[j] = IF j < i THEN t[j] ELSE t[j + 1]
  <2>1. ASSUME NEW w \in Seq(ControlType), NEW k \in 1..Len(w)
        PROVE  /\ G!RemoveAt(w, k) \in Seq(ControlType) /\ Len(G!RemoveAt(w, k)) = Len(w) - 1
               /\ \A j \in 1..Len(G!RemoveAt(w, k)) :
                    G!RemoveAt(w, k)[j] = IF j < k THEN w[j] ELSE w[j + 1]
    BY RemovedFrom
  <2> QED BY <1>2, <2>1 DEF u
<1>5. ASSUME NEW j \in DOMAIN u PROVE j \in Nat /\ Was(j, i) \in DOMAIN t /\ u[j] = t[Was(j, i)]
  <2>1. j \in 1..Len(u) /\ j \in Nat
    BY <1>4, LenProperties
  <2> QED BY <1>2, <1>4, <2>1 DEF Was
<1> DEFINE row == [n[q] EXCEPT ![p] = u]
<1>6. r = [n EXCEPT ![q] = row]
  BY <1>1 DEF Taken, u, t
<1>7. row \in [Peer -> Seq(ControlType)] /\ row[p] = u /\ \A b \in Peer : b # p => row[b] = n[q][b]
  BY <1>1, <1>4
<1> HIDE DEF row
<1>8. r \in NetType /\ r[q] = row /\ \A a \in Peer : a # q => r[a] = n[a]
  BY <1>1, <1>6, <1>7 DEF NetType
<1>9. \A j \in DOMAIN r[q][p] :
        j \in Nat /\ Was(j, i) \in DOMAIN n[q][p] /\ r[q][p][j] = n[q][p][Was(j, i)]
  BY <1>5, <1>7, <1>8 DEF t
<1> QED BY <1>3, <1>7, <1>8, <1>9 DEF t

LEMMA TakenTells ==
    ASSUME NEW n \in NetType, NEW q \in Peer, NEW p \in Peer, NEW i \in DOMAIN n[q][p],
           NEW r, r = Taken(n, q, p, i), NEW given, NetTells(n, given)
    PROVE  NetTells(r, given) /\ Tells(n[q][p][i], q, p, given)
<1>1. Tells(n[q][p][i], q, p, given)
  BY DEF NetTells
<1> SUFFICES ASSUME NEW a \in Peer, NEW b \in Peer, NEW j \in DOMAIN r[a][b]
             PROVE  Tells(r[a][b][j], a, b, given)
  BY <1>1 DEF NetTells
<1>2. CASE a = q /\ b = p
  <2>1. \A k \in DOMAIN r[q][p] : Was(k, i) \in DOMAIN n[q][p] /\ r[q][p][k] = n[q][p][Was(k, i)]
    BY TakenFrom
  <2>2. Was(j, i) \in DOMAIN n[a][b] /\ r[a][b][j] = n[a][b][Was(j, i)]
    BY <1>2, <2>1
  <2> QED BY <2>2 DEF NetTells
<1>3. CASE ~(a = q /\ b = p)
  <2>1. r[a][b] = n[a][b]
    BY <1>3, TakenFrom
  <2> QED BY <2>1 DEF NetTells
<1> QED BY <1>2, <1>3

\* What appoints someone in the one network did in the other, each from a place of its own.
Moved(n, r) ==
    \A q, p \in Peer : \E d \in [Nat -> Nat] :
        /\ \A i, j \in Nat : d[i] = d[j] => i = j
        /\ \A i \in Nat : Appoints(r, q, p, i) => Appoints(n, q, p, d[i])

Same == [i \in Nat |-> i]

LEMMA SameIs == Same \in [Nat -> Nat] /\ \A i \in Nat : Same[i] = i
  BY DEF Same

LEMMA SentMoves ==
    ASSUME NEW n \in NetType, NEW p \in Peer, NEW to, NEW x \in ControlType,
           x.kind = "group_admin_change" => x.peer \notin to,
           NEW r, r = G!SendTo(n, p, to, x)
    PROVE  Moved(n, r)
<1> SUFFICES ASSUME NEW a \in Peer, NEW b \in Peer
             PROVE  \A i \in Nat : Appoints(r, a, b, i) => Appoints(n, a, b, i)
  BY SameIs DEF Moved
<1> SUFFICES ASSUME NEW i \in Nat, Appoints(r, a, b, i)
             PROVE  Appoints(n, a, b, i)
  OBVIOUS
<1>1. r[a][b] = IF a = p /\ b \in to THEN Append(n[a][b], x) ELSE n[a][b]
  BY SentTo
<1>2. CASE ~(a = p /\ b \in to)
  BY <1>1, <1>2 DEF Appoints
<1>3. CASE a = p /\ b \in to
  <2>1. n[a][b] \in Seq(ControlType)
    BY DEF NetType
  <2>2. r[a][b] = Append(n[a][b], x)
    BY <1>1, <1>3
  <2>3. i \in 1..(Len(n[a][b]) + 1) /\ Len(n[a][b]) \in Nat /\ DOMAIN n[a][b] = 1..Len(n[a][b])
    BY <2>1, <2>2 DEF Appoints
  <2>4. i # Len(n[a][b]) + 1
    <3> SUFFICES ASSUME i = Len(n[a][b]) + 1 PROVE FALSE
      OBVIOUS
    <3>1. r[a][b][i] = x
      BY <2>1, <2>2
    <3> QED BY <1>3, <3>1 DEF Appoints
  <2>5. i \in 1..Len(n[a][b])
    BY <2>3, <2>4
  <2>6. r[a][b][i] = n[a][b][i]
    BY <2>1, <2>2, <2>5
  <2> QED BY <2>3, <2>5, <2>6 DEF Appoints
<1> QED BY <1>2, <1>3

LEMMA TakenMoves ==
    ASSUME NEW n \in NetType, NEW q \in Peer, NEW p \in Peer, NEW i \in DOMAIN n[q][p],
           NEW r, r = Taken(n, q, p, i)
    PROVE  Moved(n, r)
<1> SUFFICES ASSUME NEW a \in Peer, NEW b \in Peer
             PROVE  \E d \in [Nat -> Nat] :
                        /\ \A j, k \in Nat : d[j] = d[k] => j = k
                        /\ \A j \in Nat : Appoints(r, a, b, j) => Appoints(n, a, b, d[j])
  BY DEF Moved
<1>1. CASE a = q /\ b = p
  <2> DEFINE d == [j \in Nat |-> Was(j, i)]
  <2>1. i \in Nat
    BY TakenFrom
  <2>2. d \in [Nat -> Nat] /\ \A j \in Nat : d[j] = Was(j, i)
    BY DEF Was
  <2>3. \A j, k \in Nat : Was(j, i) = Was(k, i) => j = k
    BY <2>1 DEF Was
  <2>4. ASSUME NEW j \in Nat, Appoints(r, a, b, j) PROVE Appoints(n, a, b, Was(j, i))
    <3>1. j \in DOMAIN r[a][b]
      BY <2>4 DEF Appoints
    <3>2. \A k \in DOMAIN r[q][p] : Was(k, i) \in DOMAIN n[q][p] /\ r[q][p][k] = n[q][p][Was(k, i)]
      BY TakenFrom
    <3>3. Was(j, i) \in DOMAIN n[a][b] /\ r[a][b][j] = n[a][b][Was(j, i)]
      BY <1>1, <3>1, <3>2
    <3> QED BY <2>4, <3>3 DEF Appoints
  <2> HIDE DEF d
  <2> QED BY <2>2, <2>3, <2>4
<1>2. CASE ~(a = q /\ b = p)
  <2>1. r[a][b] = n[a][b]
    BY <1>2, TakenFrom
  <2>2. \A j \in Nat : Appoints(r, a, b, j) => Appoints(n, a, b, Same[j])
    BY <2>1, SameIs DEF Appoints
  <2> QED BY <2>2, SameIs
<1> QED BY <1>1, <1>2

LEMMA MovedTwice ==
    ASSUME NEW n, NEW r, NEW t, Moved(n, r), Moved(r, t)
    PROVE  Moved(n, t)
<1> SUFFICES ASSUME NEW q \in Peer, NEW p \in Peer
             PROVE  \E d \in [Nat -> Nat] :
                        /\ \A i, j \in Nat : d[i] = d[j] => i = j
                        /\ \A i \in Nat : Appoints(t, q, p, i) => Appoints(n, q, p, d[i])
  BY DEF Moved
<1>1. PICK d \in [Nat -> Nat] :
        /\ \A i, j \in Nat : d[i] = d[j] => i = j
        /\ \A i \in Nat : Appoints(r, q, p, i) => Appoints(n, q, p, d[i])
  BY DEF Moved
<1>2. PICK e \in [Nat -> Nat] :
        /\ \A i, j \in Nat : e[i] = e[j] => i = j
        /\ \A i \in Nat : Appoints(t, q, p, i) => Appoints(r, q, p, e[i])
  BY DEF Moved
<1> DEFINE c == [i \in Nat |-> d[e[i]]]
<1>3. c \in [Nat -> Nat] /\ \A i \in Nat : c[i] = d[e[i]] /\ e[i] \in Nat
  OBVIOUS
<1> HIDE DEF c
<1>4. \A i, j \in Nat : c[i] = c[j] => i = j
  BY <1>1, <1>2, <1>3
<1>5. \A i \in Nat : Appoints(t, q, p, i) => Appoints(n, q, p, c[i])
  BY <1>1, <1>2, <1>3
<1> QED BY <1>3, <1>4, <1>5

\* The role stays one as long as it is handed to nobody.
LEMMA RoleMoved ==
    ASSUME NEW gr, NEW n, NEW hr, NEW r, RoleOnce(gr, n), Moved(n, r),
           \A p \in Peer : Acts(hr, p) => Acts(gr, p)
    PROVE  RoleOnce(hr, r)
<1>1. \A p, q \in Peer : Acts(hr, p) /\ Acts(hr, q) => p = q
  BY DEF RoleOnce
<1>2. ASSUME NEW p \in Peer, NEW q \in Peer, NEW a \in Peer,
             Acts(hr, a), NEW i \in Nat, Appoints(r, q, p, i)
      PROVE  FALSE
  <2>1. PICK d \in [Nat -> Nat] : \A j \in Nat : Appoints(r, q, p, j) => Appoints(n, q, p, d[j])
    BY DEF Moved
  <2>2. d[i] \in Nat /\ Appoints(n, q, p, d[i]) /\ Acts(gr, a)
    BY <1>2, <2>1
  <2> QED BY <2>2 DEF RoleOnce
<1>3. ASSUME NEW p \in Peer, NEW q \in Peer, NEW a \in Peer, NEW b \in Peer, NEW i \in Nat, NEW j \in Nat,
             Appoints(r, p, q, i), Appoints(r, a, b, j)
      PROVE  p = a /\ q = b /\ i = j
  <2>1. PICK d \in [Nat -> Nat] :
          /\ \A k, l \in Nat : d[k] = d[l] => k = l
          /\ \A k \in Nat : Appoints(r, p, q, k) => Appoints(n, p, q, d[k])
    BY DEF Moved
  <2>2. PICK e \in [Nat -> Nat] : \A k \in Nat : Appoints(r, a, b, k) => Appoints(n, a, b, e[k])
    BY DEF Moved
  <2>3. d[i] \in Nat /\ e[j] \in Nat /\ Appoints(n, p, q, d[i]) /\ Appoints(n, a, b, e[j])
    BY <1>3, <2>1, <2>2
  <2>4. p = a /\ q = b
    BY <2>3 DEF RoleOnce
  <2>5. Appoints(n, p, q, d[j]) /\ d[j] \in Nat
    BY <1>3, <2>1, <2>4
  <2>6. d[i] = d[j]
    BY <2>3, <2>5 DEF RoleOnce
  <2> QED BY <2>1, <2>4, <2>6
<1> QED BY <1>1, <1>2, <1>3 DEF RoleOnce

LEMMA SentAppoints ==
    ASSUME NEW n \in NetType, NEW p \in Peer, NEW to, NEW x \in ControlType,
           NEW r, r = G!SendTo(n, p, to, x),
           NEW a \in Peer, NEW b \in Peer, NEW i \in Nat, Appoints(r, a, b, i)
    PROVE  \/ Appoints(n, a, b, i)
           \/ /\ a = p /\ b \in to /\ i = Len(n[a][b]) + 1
              /\ x.kind = "group_admin_change" /\ x.peer = b
<1>1. r[a][b] = IF a = p /\ b \in to THEN Append(n[a][b], x) ELSE n[a][b]
  BY SentTo
<1>2. CASE ~(a = p /\ b \in to)
  BY <1>1, <1>2 DEF Appoints
<1>3. CASE a = p /\ b \in to
  <2>1. n[a][b] \in Seq(ControlType)
    BY DEF NetType
  <2>2. r[a][b] = Append(n[a][b], x)
    BY <1>1, <1>3
  <2>3. i \in 1..(Len(n[a][b]) + 1) /\ Len(n[a][b]) \in Nat /\ DOMAIN n[a][b] = 1..Len(n[a][b])
    BY <2>1, <2>2 DEF Appoints
  <2>4. CASE i = Len(n[a][b]) + 1
    <3>1. r[a][b][i] = x
      BY <2>1, <2>2, <2>4
    <3> QED BY <1>3, <2>4, <3>1 DEF Appoints
  <2>5. CASE i \in 1..Len(n[a][b])
    <3>1. r[a][b][i] = n[a][b][i]
      BY <2>1, <2>2, <2>5
    <3> QED BY <2>3, <2>5, <3>1 DEF Appoints
  <2> QED BY <2>3, <2>4, <2>5
<1> QED BY <1>2, <1>3

LEMMA SameMoves ==
    ASSUME NEW n
    PROVE  Moved(n, n)
  BY SameIs DEF Moved

LEMMA MembersArePeers ==
    ASSUME NEW g \in GroupType
    PROVE  G!Members(g) \subseteq Peer
<1>1. g.members \in Seq(Peer)
  BY DEF GroupType
<1> QED BY <1>1 DEF G!Members, G!ToSet

\* p has another group, in which it is no admin unless it was.
LEMMA GroupBecomes ==
    ASSUME GroupTypes, NEW given, GroupsList(group, given), NEW p \in Peer,
           NEW h \in GroupType, Lists(h, p, given), h.admin = p => Acts(group, p),
           NEW gr, gr = [group EXCEPT ![p] = h]
    PROVE  /\ gr \in [Peer -> GroupType \cup {Nobody}]
           /\ GroupsList(gr, given)
           /\ \A q \in Peer : Acts(gr, q) => Acts(group, q)
<1>1. gr \in [Peer -> GroupType \cup {Nobody}] /\ gr[p] = h /\ \A q \in Peer : q # p => gr[q] = group[q]
  BY DEF GroupTypes
<1>2. GroupsList(gr, given)
  BY <1>1 DEF GroupsList
<1>3. \A q \in Peer : Acts(gr, q) => Acts(group, q)
  BY <1>1 DEF Acts
<1> QED BY <1>1, <1>2, <1>3

LEMMA GroupForgotten ==
    ASSUME GroupTypes, NEW given, GroupsList(group, given), NEW p \in Peer,
           NEW gr, gr = [group EXCEPT ![p] = Nobody]
    PROVE  /\ gr \in [Peer -> GroupType \cup {Nobody}]
           /\ GroupsList(gr, given)
           /\ \A q \in Peer : Acts(gr, q) => Acts(group, q)
<1>1. gr \in [Peer -> GroupType \cup {Nobody}] /\ gr[p] = Nobody
      /\ \A q \in Peer : q # p => gr[q] = group[q]
  BY DEF GroupTypes
<1>2. GroupsList(gr, given)
  BY <1>1 DEF GroupsList
<1>3. \A q \in Peer : Acts(gr, q) => Acts(group, q)
  BY <1>1 DEF Acts
<1> QED BY <1>1, <1>2, <1>3

\* What a device has, or is sent, exists only in a group that was created.
LEMMA Born ==
    ASSUME GroupInv, NEW p \in Peer, NEW q \in Peer,
           group[p] # Nobody \/ pending[p] # Nobody \/ controls[q][p] # <<>>
    PROVE  keyCount # 0
<1> SUFFICES ASSUME keyCount = 0 PROVE FALSE
  OBVIOUS
<1>1. PICK given \in SUBSET (Peer \X (1..keyCount)) : Told(group, pending, controls, given)
  BY DEF GroupInv, KeysGiven
<1>2. given = {}
  <2>1. 1..keyCount = {}
    OBVIOUS
  <2> QED BY <1>1, <2>1
<1>3. \A x : ~Lists(x, p, given)
  BY <1>2 DEF Lists
<1>4. controls[q][p] = <<>>
  BY DEF GroupInv, Created
<1> QED BY <1>1, <1>3, <1>4 DEF Told, GroupsList, InvitesList

\* A step that gives out no key and hands the role to nobody.
LEMMA GroupStep ==
    ASSUME GroupInv, GroupTypes', keyCount # 0,
           UNCHANGED <<keyCount, addedBy, restarts>>,
           NEW given \in SUBSET (Peer \X (1..keyCount)), OneKey(given, addedBy),
           Told(group', pending', controls', given),
           Moved(controls, controls'), \A q \in Peer : Acts(group', q) => Acts(group, q)
    PROVE  GroupInv'
<1>1. KeysGiven'
  <2>1. given \in SUBSET (Peer \X (1..keyCount')) /\ OneKey(given, addedBy')
    OBVIOUS
  <2> QED BY <2>1 DEF KeysGiven
<1>2. Created'
  BY DEF Created
<1>3. restarts' = 0 => RoleOnce(group', controls')
  <2> SUFFICES ASSUME restarts = 0 PROVE RoleOnce(group', controls')
    OBVIOUS
  <2>1. RoleOnce(group, controls)
    BY DEF GroupInv
  <2> QED BY <2>1, RoleMoved
<1> QED BY <1>1, <1>2, <1>3 DEF GroupInv

\* What the invariant says of a device that is in the group.
LEMMA InTheGroup ==
    ASSUME GroupInv, NEW p \in G!In
    PROVE  p \in Peer /\ group[p] # Nobody /\ group[p] \in GroupType /\ keyCount # 0
<1>1. p \in Peer /\ group[p] # Nobody
  BY DEF G!In
<1>2. group[p] \in GroupType
  BY <1>1 DEF GroupInv, GroupTypes
<1> QED BY <1>1, <1>2, Born

LEMMA NetTyped == GroupInv => controls \in NetType
  BY DEF GroupInv, GroupTypes

\* Members except p are other devices.
LEMMA PlainTells ==
    ASSUME NEW p, NEW to, p \notin to, NEW x,
           x.kind # "group_invite" /\ x.kind # "group_member_added", NEW given
    PROVE  \A q \in to : Tells(x, p, q, given)
  BY DEF Tells

\* A call that tells the others something plain, and after which p has group h.
LEMMA PlainChange ==
    ASSUME GroupInv, NEW p \in G!In, NEW h \in GroupType,
           \A given : Lists(group[p], p, given) => Lists(h, p, given),
           h.admin = p => group[p].admin = p,
           group' = [group EXCEPT ![p] = h],
           NEW x \in ControlType, x.kind # "group_invite" /\ x.kind # "group_member_added",
           NEW to, p \notin to, x.kind = "group_admin_change" => x.peer \notin to,
           controls' = G!SendTo(controls, p, to, x),
           UNCHANGED <<pending, keyCount, restarts, addedBy>>,
           strayed' \cup gone' \subseteq Peer, headless' \in BOOLEAN
    PROVE  GroupInv'
<1>1. p \in Peer /\ group[p] # Nobody /\ group[p] \in GroupType /\ keyCount # 0
  BY InTheGroup
<1>2. PICK given \in SUBSET (Peer \X (1..keyCount)) :
        Told(group, pending, controls, given) /\ OneKey(given, addedBy)
  BY DEF GroupInv, KeysGiven
<1>3. GroupTypes /\ GroupsList(group, given) /\ InvitesList(pending, given) /\ NetTells(controls, given)
  BY <1>2 DEF GroupInv, Told
<1>4. Lists(h, p, given)
  BY <1>1, <1>3 DEF GroupsList
<1>5. h.admin = p => Acts(group, p)
  BY <1>1 DEF Acts
<1>6. /\ group' \in [Peer -> GroupType \cup {Nobody}]
      /\ GroupsList(group', given)
      /\ \A q \in Peer : Acts(group', q) => Acts(group, q)
  BY <1>1, <1>3, <1>4, <1>5, GroupBecomes
<1>7. controls \in NetType
  BY NetTyped
<1>8. controls' \in NetType
  BY <1>1, <1>7, SentTo
<1>9. \A q \in to : Tells(x, p, q, given)
  BY PlainTells
<1>10. NetTells(controls', given)
  BY <1>1, <1>3, <1>7, <1>9, SentTells
<1>11. Moved(controls, controls')
  BY <1>1, <1>7, SentMoves
<1>12. Told(group', pending', controls', given)
  BY <1>3, <1>6, <1>10 DEF Told
<1>13. GroupTypes'
  BY <1>3, <1>6, <1>8 DEF GroupTypes
<1> QED BY <1>1, <1>2, <1>6, <1>11, <1>12, <1>13, GroupStep

LEMMA GroupFlags == GroupInv => strayed \cup gone \subseteq Peer /\ headless \in BOOLEAN
  BY DEF GroupInv, GroupTypes

LEMMA GroupKick ==
    ASSUME GroupInv, NEW p \in Peer, NEW victim \in Peer, G!KickGroupMember(p, victim)
    PROVE  GroupInv'
<1>1. p \in G!In /\ group[p].admin = p /\ victim # p /\ victim \in G!Members(group[p])
  BY DEF G!KickGroupMember, G!Change
<1>2. group[p] \in GroupType
  BY <1>1, InTheGroup
<1> DEFINE h == G!removeMember(group[p], victim)
           to == G!Members(group[p]) \ {p}
           x == [kind |-> "group_member_kicked", peer |-> victim]
<1>3. /\ group' = [group EXCEPT ![p] = h] /\ controls' = G!SendTo(controls, p, to, x)
      /\ UNCHANGED <<pending, keyCount, restarts, addedBy, gone, strayed, headless>>
  BY DEF G!KickGroupMember, G!Change
<1>4. PICK given : Lists(group[p], p, given)
  BY <1>1 DEF GroupInv, KeysGiven, Told, GroupsList, G!In
<1>5. h \in GroupType /\ h.admin = group[p].admin
  BY <1>1, <1>2, <1>4, MemberRemoved
<1>6. \A set : Lists(group[p], p, set) => Lists(h, p, set)
  BY <1>1, <1>2, MemberRemoved
<1>7. x \in ControlType /\ x.kind = "group_member_kicked" /\ p \notin to
  BY DEF ControlType
<1>8. strayed' \cup gone' \subseteq Peer /\ headless' \in BOOLEAN
  BY <1>3, GroupFlags
<1> HIDE DEF h, to, x
<1> QED BY <1>1, <1>3, <1>5, <1>6, <1>7, <1>8, PlainChange

LEMMA GroupRename ==
    ASSUME GroupInv, NEW p \in Peer, NEW n \in Name, G!RenameGroup(p, n)
    PROVE  GroupInv'
<1>1. p \in G!In
  BY DEF G!RenameGroup, G!Change
<1>2. group[p] \in GroupType
  BY <1>1, InTheGroup
<1> DEFINE h == G!setName(group[p], n)
           to == G!Members(group[p]) \ {p}
           x == [kind |-> "group_rename", name |-> n]
<1>3. /\ group' = [group EXCEPT ![p] = h] /\ controls' = G!SendTo(controls, p, to, x)
      /\ UNCHANGED <<pending, keyCount, restarts, addedBy, gone, strayed, headless>>
  BY DEF G!RenameGroup, G!Change
<1>4. PICK given : Lists(group[p], p, given)
  BY <1>1 DEF GroupInv, KeysGiven, Told, GroupsList, G!In
<1>5. h \in GroupType /\ h.admin = group[p].admin
  BY <1>2, <1>4, NameSet
<1>6. \A set : Lists(group[p], p, set) => Lists(h, p, set)
  BY <1>2, NameSet
<1>7. x \in ControlType /\ x.kind = "group_rename" /\ p \notin to
  BY DEF ControlType
<1>8. strayed' \cup gone' \subseteq Peer /\ headless' \in BOOLEAN
  BY <1>3, GroupFlags
<1> HIDE DEF h, to, x
<1> QED BY <1>1, <1>3, <1>5, <1>6, <1>7, <1>8, PlainChange

LEMMA GroupRemove ==
    ASSUME GroupInv, NEW p \in Peer, NEW q \in Peer, G!RemoveMember(p, q)
    PROVE  GroupInv'
<1>1. p \in G!In /\ q # p /\ q \in G!Members(group[p])
  BY DEF G!RemoveMember, G!Change
<1>2. group[p] \in GroupType
  BY <1>1, InTheGroup
<1> DEFINE h == G!removeMember(group[p], q)
           x == [kind |-> "group_leave"]
<1>3. /\ group' = [group EXCEPT ![p] = h] /\ controls' = controls
      /\ UNCHANGED <<pending, keyCount, restarts, addedBy, gone, headless>>
      /\ strayed' = strayed \cup {p}
  BY DEF G!RemoveMember, G!Change
<1>4. PICK given : Lists(group[p], p, given)
  BY <1>1 DEF GroupInv, KeysGiven, Told, GroupsList, G!In
<1>5. h \in GroupType /\ h.admin = group[p].admin
  BY <1>1, <1>2, <1>4, MemberRemoved
<1>6. \A set : Lists(group[p], p, set) => Lists(h, p, set)
  BY <1>1, <1>2, MemberRemoved
<1>7. x \in ControlType /\ x.kind = "group_leave"
  BY DEF ControlType
<1>8. strayed' \cup gone' \subseteq Peer /\ headless' \in BOOLEAN
  BY <1>3, GroupFlags
<1>9. G!SendTo(controls, p, {}, x) = controls
  <2>1. controls \in [Peer -> [Peer -> Seq(ControlType)]]
    BY NetTyped DEF NetType
  <2>2. [q_ \in Peer |-> IF q_ \in {} THEN Append(controls[p][q_], x) ELSE controls[p][q_]] = controls[p]
    BY <2>1
  <2> QED BY <2>1, <2>2 DEF G!SendTo
<1> HIDE DEF h, x
<1> QED BY <1>1, <1>3, <1>5, <1>6, <1>7, <1>8, <1>9, PlainChange

\* The role leaves p, and one message at most appoints the next.
LEMMA GroupTransfer ==
    ASSUME GroupInv, Nobody \notin Peer, NEW p \in Peer, NEW new \in Peer \cup {Nobody},
           G!TransferGroupAdmin(p, new)
    PROVE  GroupInv'
<1>1. p \in G!In /\ group[p].admin = p /\ new \in (G!Members(group[p]) \cup {Nobody}) \ {p}
  BY DEF G!TransferGroupAdmin, G!Change
<1>2. group[p] \in GroupType /\ group[p] # Nobody /\ keyCount # 0
  BY <1>1, InTheGroup
<1> DEFINE h == G!setAdmin(group[p], new)
           to == G!Members(group[p]) \ {p}
           x == [kind |-> "group_admin_change", peer |-> new]
<1>3. /\ group' = [group EXCEPT ![p] = h] /\ controls' = G!SendTo(controls, p, to, x)
      /\ UNCHANGED <<pending, keyCount, restarts, addedBy, gone, strayed>>
      /\ headless' = (headless \/ new = Nobody)
  BY DEF G!TransferGroupAdmin, G!Change
<1>4. PICK given \in SUBSET (Peer \X (1..keyCount)) :
        Told(group, pending, controls, given) /\ OneKey(given, addedBy)
  BY DEF GroupInv, KeysGiven
<1>5. GroupTypes /\ GroupsList(group, given) /\ InvitesList(pending, given) /\ NetTells(controls, given)
  BY <1>4 DEF GroupInv, Told
<1>6. Lists(group[p], p, given)
  BY <1>2, <1>5 DEF GroupsList
<1>7. h \in GroupType /\ Lists(h, p, given) /\ h.admin = new
  BY <1>1, <1>2, <1>6, AdminSet
<1>8. x \in ControlType /\ x.kind = "group_admin_change" /\ x.peer = new /\ p \notin to
  BY DEF ControlType
<1>9. strayed' \cup gone' \subseteq Peer /\ headless' \in BOOLEAN
  <2>1. (headless \/ new = Nobody) \in BOOLEAN
    BY GroupFlags, Zenon
  <2> QED BY <1>3, <2>1, GroupFlags
<1> HIDE DEF h, to, x
<1>10. /\ group' \in [Peer -> GroupType \cup {Nobody}]
       /\ GroupsList(group', given)
       /\ \A q \in Peer : Acts(group', q) => Acts(group, q)
  <2>1. h.admin = p => Acts(group, p)
    BY <1>1, <1>7
  <2> QED BY <1>3, <1>5, <1>7, <2>1, GroupBecomes
<1>11. controls \in NetType
  BY NetTyped
<1>12. controls' \in NetType
  BY <1>3, <1>8, <1>11, SentTo
<1>13. \A q \in to : Tells(x, p, q, given)
  BY <1>8, PlainTells
<1>14. NetTells(controls', given)
  BY <1>3, <1>5, <1>8, <1>11, <1>13, SentTells
<1>15. GroupTypes'
  BY <1>3, <1>5, <1>9, <1>10, <1>12 DEF GroupTypes
<1>16. KeysGiven'
  <2>1. Told(group', pending', controls', given)
    BY <1>3, <1>5, <1>10, <1>14 DEF Told
  <2>2. given \in SUBSET (Peer \X (1..keyCount')) /\ OneKey(given, addedBy')
    BY <1>3, <1>4
  <2> QED BY <2>1, <2>2 DEF KeysGiven
<1>17. Created'
  BY <1>2, <1>3 DEF Created
<1>18. ASSUME restarts = 0 PROVE RoleOnce(group', controls')
  <2>1. RoleOnce(group, controls)
    BY <1>18 DEF GroupInv
  <2>2. Acts(group, p)
    BY <1>1, <1>2 DEF Acts
  <2>3. \A q \in Peer : ~Acts(group', q)
    <3>1. ~Acts(group', p)
      <4>1. group'[p] = h
        BY <1>3, <1>5 DEF GroupTypes
      <4> QED BY <1>1, <1>7, <4>1 DEF Acts
    <3> QED BY <1>10, <2>1, <2>2, <3>1 DEF RoleOnce
  <2>4. \A a, b \in Peer : \A i \in Nat : ~Appoints(controls, a, b, i)
    BY <2>1, <2>2 DEF RoleOnce
  <2>5. ASSUME NEW a \in Peer, NEW b \in Peer, NEW i \in Nat, Appoints(controls', a, b, i)
        PROVE  a = p /\ b = new /\ i = Len(controls[p][new]) + 1
    <3>1. a = p /\ i = Len(controls[a][b]) + 1 /\ x.peer = b
      BY <1>3, <1>8, <1>11, <2>4, <2>5, SentAppoints
    <3> QED BY <1>8, <3>1
  <2> QED BY <2>3, <2>5 DEF RoleOnce
<1> QED BY <1>3, <1>15, <1>16, <1>17, <1>18 DEF GroupInv

\* Only what one device has waiting, or its flags, change; the network may lose what is
\* read.
LEMMA GroupQuiet ==
    ASSUME GroupInv, keyCount # 0,
           group' \in [Peer -> GroupType \cup {Nobody}],
           pending' \in [Peer -> InviteType \cup {Nobody}], controls' \in NetType,
           \A given : GroupsList(group, given) /\ InvitesList(pending, given) /\ NetTells(controls, given)
                        => /\ GroupsList(group', given) /\ InvitesList(pending', given)
                           /\ NetTells(controls', given),
           Moved(controls, controls'), \A q \in Peer : Acts(group', q) => Acts(group, q),
           UNCHANGED <<keyCount, restarts, addedBy>>,
           strayed' \cup gone' \subseteq Peer, headless' \in BOOLEAN
    PROVE  GroupInv'
<1>1. PICK given \in SUBSET (Peer \X (1..keyCount)) :
        Told(group, pending, controls, given) /\ OneKey(given, addedBy)
  BY DEF GroupInv, KeysGiven
<1>2. Told(group', pending', controls', given)
  BY <1>1 DEF Told
<1>3. GroupTypes'
  BY DEF GroupInv, GroupTypes
<1> QED BY <1>1, <1>2, <1>3, GroupStep

LEMMA GroupLeave ==
    ASSUME GroupInv, NEW p \in Peer, G!Leave(p)
    PROVE  GroupInv'
<1>1. p \in G!In /\ keyCount # 0 /\ group[p] # Nobody
  BY InTheGroup DEF G!Leave, G!Change
<1> DEFINE to == G!Members(group[p]) \ {p}
           x == [kind |-> "group_leave"]
<1>2. /\ group' = [group EXCEPT ![p] = Nobody] /\ controls' = G!SendTo(controls, p, to, x)
      /\ UNCHANGED <<pending, keyCount, restarts, addedBy, strayed>>
      /\ gone' = gone \cup {p} /\ headless' = (headless \/ group[p].admin = p)
  BY DEF G!Leave, G!Change
<1>3. x \in ControlType /\ x.kind = "group_leave" /\ p \notin to
  BY DEF ControlType
<1> HIDE DEF to, x
<1>4. controls \in NetType /\ controls' \in NetType /\ Moved(controls, controls')
  BY <1>2, <1>3, NetTyped, SentTo, SentMoves
<1>5. ASSUME NEW given, NetTells(controls, given) PROVE NetTells(controls', given)
  <2>1. \A q \in to : Tells(x, p, q, given)
    BY <1>3, PlainTells
  <2> QED BY <1>2, <1>3, <1>4, <1>5, <2>1, SentTells
<1>6. GroupTypes
  BY DEF GroupInv
<1>7. ASSUME NEW given, GroupsList(group, given) PROVE GroupsList(group', given)
  BY <1>2, <1>6, <1>7, GroupForgotten
<1>8. PICK set : GroupsList(group, set)
  BY DEF GroupInv, KeysGiven, Told
<1>9. group' \in [Peer -> GroupType \cup {Nobody}] /\ \A q \in Peer : Acts(group', q) => Acts(group, q)
  BY <1>2, <1>6, <1>8, GroupForgotten
<1>10. pending' \in [Peer -> InviteType \cup {Nobody}] /\ pending' = pending
  BY <1>2 DEF GroupInv, GroupTypes
<1>11. strayed' \cup gone' \subseteq Peer /\ headless' \in BOOLEAN
  <2>1. (headless \/ group[p].admin = p) \in BOOLEAN
    BY GroupFlags, Zenon
  <2> QED BY <1>2, <2>1, GroupFlags
<1>12. \A given : GroupsList(group, given) /\ InvitesList(pending, given) /\ NetTells(controls, given)
                    => /\ GroupsList(group', given) /\ InvitesList(pending', given)
                       /\ NetTells(controls', given)
  BY <1>5, <1>7, <1>10
<1>13. UNCHANGED <<keyCount, restarts, addedBy>>
  BY <1>2
<1> QED BY <1>1, <1>4, <1>9, <1>10, <1>11, <1>12, <1>13, GroupQuiet

LEMMA GroupAccept ==
    ASSUME GroupInv, NEW p \in Peer, G!AcceptInvite(p)
    PROVE  GroupInv'
<1>1. pending[p] # Nobody /\ keyCount # 0
  BY Born DEF G!AcceptInvite
<1> DEFINE h == G!joinGroup(pending[p])
<1>2. /\ group' = [group EXCEPT ![p] = h] /\ pending' = [pending EXCEPT ![p] = Nobody]
      /\ UNCHANGED <<controls, keyCount, restarts, addedBy, strayed, headless>> /\ gone' = gone \ {p}
  BY DEF G!AcceptInvite
<1>3. GroupTypes
  BY DEF GroupInv
<1>4. pending[p] \in InviteType
  BY <1>1, <1>3 DEF GroupTypes
<1>5. ASSUME NEW given, InvitesList(pending, given)
      PROVE  Lists(pending[p], p, given) /\ pending[p].by # p
  BY <1>1, <1>5 DEF InvitesList
<1>6. ASSUME NEW given, InvitesList(pending, given)
      PROVE  h \in GroupType /\ Lists(h, p, given) /\ h.admin # p
  BY <1>4, <1>5, <1>6, Joined
<1> HIDE DEF h
<1>7. ASSUME NEW given, GroupsList(group, given), InvitesList(pending, given)
      PROVE  /\ group' \in [Peer -> GroupType \cup {Nobody}]
             /\ GroupsList(group', given)
             /\ \A q \in Peer : Acts(group', q) => Acts(group, q)
  <2>1. h \in GroupType /\ Lists(h, p, given) /\ h.admin # p
    BY <1>6, <1>7
  <2> QED BY <1>2, <1>3, <1>7, <2>1, GroupBecomes
<1>8. PICK set : GroupsList(group, set) /\ InvitesList(pending, set)
  BY DEF GroupInv, KeysGiven, Told
<1>9. group' \in [Peer -> GroupType \cup {Nobody}] /\ \A q \in Peer : Acts(group', q) => Acts(group, q)
  BY <1>7, <1>8
<1>10. pending' \in [Peer -> InviteType \cup {Nobody}]
       /\ \A given : InvitesList(pending, given) => InvitesList(pending', given)
  BY <1>2, <1>3 DEF GroupTypes, InvitesList
<1>11. controls' \in NetType /\ Moved(controls, controls') /\ controls' = controls
  BY <1>2, NetTyped, SameMoves
<1>12. strayed' \cup gone' \subseteq Peer /\ headless' \in BOOLEAN
  BY <1>2, GroupFlags
<1>13. \A given : GroupsList(group, given) /\ InvitesList(pending, given) /\ NetTells(controls, given)
                    => /\ GroupsList(group', given) /\ InvitesList(pending', given)
                       /\ NetTells(controls', given)
  BY <1>7, <1>10, <1>11
<1>14. UNCHANGED <<keyCount, restarts, addedBy>>
  BY <1>2
<1> QED BY <1>1, <1>9, <1>10, <1>11, <1>12, <1>13, <1>14, GroupQuiet

LEMMA GroupDecline ==
    ASSUME GroupInv, NEW p \in Peer, G!DeclineInvite(p)
    PROVE  GroupInv'
<1>1. pending[p] # Nobody /\ keyCount # 0
  BY Born DEF G!DeclineInvite
<1>2. /\ pending' = [pending EXCEPT ![p] = Nobody] /\ gone' = gone \cup ({p} \ G!In)
      /\ UNCHANGED <<group, controls, keyCount, restarts, addedBy, strayed, headless>>
  BY DEF G!DeclineInvite
<1>3. GroupTypes
  BY DEF GroupInv
<1>4. pending' \in [Peer -> InviteType \cup {Nobody}]
      /\ \A given : InvitesList(pending, given) => InvitesList(pending', given)
  BY <1>2, <1>3 DEF GroupTypes, InvitesList
<1>5. /\ controls' \in NetType /\ Moved(controls, controls') /\ controls' = controls
      /\ group' \in [Peer -> GroupType \cup {Nobody}] /\ group' = group
  BY <1>2, <1>3, NetTyped, SameMoves DEF GroupTypes
<1>6. strayed' \cup gone' \subseteq Peer /\ headless' \in BOOLEAN
  BY <1>2, GroupFlags
<1>7. UNCHANGED <<keyCount, restarts, addedBy>>
  BY <1>2
<1> QED BY <1>1, <1>4, <1>5, <1>6, <1>7, GroupQuiet

LEMMA GroupLose ==
    ASSUME GroupInv, NEW p \in Peer, NEW q \in Peer, NEW i \in DOMAIN controls[p][q], G!Lose(p, q, i)
    PROVE  GroupInv'
<1>1. keyCount # 0
  <2>1. controls[p][q] # <<>>
    BY NetTyped, TakenFrom
  <2> QED BY <2>1, Born
<1>2. /\ controls' = Taken(controls, p, q, i) /\ strayed' = strayed \cup {q}
      /\ UNCHANGED <<group, pending, keyCount, restarts, addedBy, gone, headless>>
  BY DEF G!Lose, Taken
<1>3. controls \in NetType /\ controls' \in NetType /\ Moved(controls, controls')
  BY <1>1, <1>2, NetTyped, TakenFrom, TakenMoves
<1>4. \A given : NetTells(controls, given) => NetTells(controls', given)
  BY <1>1, <1>2, <1>3, TakenTells
<1>5. group' \in [Peer -> GroupType \cup {Nobody}] /\ pending' \in [Peer -> InviteType \cup {Nobody}]
      /\ group' = group /\ pending' = pending
  BY <1>2 DEF GroupInv, GroupTypes
<1>6. strayed' \cup gone' \subseteq Peer /\ headless' \in BOOLEAN
  BY <1>2, GroupFlags
<1>7. UNCHANGED <<keyCount, restarts, addedBy>>
  BY <1>2
<1> QED BY <1>1, <1>3, <1>4, <1>5, <1>6, <1>7, GroupQuiet

\* The first of the list becomes admin, and from then on the role may be held twice.
LEMMA GroupRestart ==
    ASSUME GroupInv, NEW p \in Peer, G!Restart(p)
    PROVE  GroupInv'
<1>1. keyCount # 0
  BY Born, InTheGroup DEF G!Restart
<1>2. PICK given \in SUBSET (Peer \X (1..keyCount)) :
        Told(group, pending, controls, given) /\ OneKey(given, addedBy)
  BY DEF GroupInv, KeysGiven
<1>3. GroupTypes /\ GroupsList(group, given) /\ InvitesList(pending, given) /\ NetTells(controls, given)
  BY <1>2 DEF GroupInv, Told
<1>4. /\ pending' = [pending EXCEPT ![p] = Nobody] /\ restarts' = restarts + 1
      /\ group' = IF p \in G!In THEN [group EXCEPT ![p].admin = group[p].members[1]] ELSE group
      /\ strayed' \in {strayed, strayed \cup {p}}
      /\ UNCHANGED <<controls, keyCount, addedBy, gone, headless>>
  BY DEF G!Restart
<1>5. pending' \in [Peer -> InviteType \cup {Nobody}] /\ InvitesList(pending', given)
  BY <1>3, <1>4 DEF GroupTypes, InvitesList
<1>6. group' \in [Peer -> GroupType \cup {Nobody}] /\ GroupsList(group', given)
  <2>1. CASE p \notin G!In
    BY <1>3, <1>4, <2>1 DEF GroupTypes
  <2>2. CASE p \in G!In
    <3>1. group[p] # Nobody /\ group[p] \in GroupType
      BY <2>2, InTheGroup
    <3>2. Lists(group[p], p, given)
      BY <1>3, <3>1 DEF GroupsList
    <3>3. group[p].members \in Seq(Peer) /\ group[p].keys \in KeyMap /\ group[p].name \in Name
      BY <3>1 DEF GroupType
    <3>4. group[p].members[1] \in Peer
      BY <3>2, <3>3 DEF Lists, G!ToSet
    <3> DEFINE h == [group[p] EXCEPT !.admin = group[p].members[1]]
    <3>5. h \in GroupType /\ h.members = group[p].members /\ h.keys = group[p].keys
      BY <3>1, <3>4 DEF GroupType
    <3>6. group' = [group EXCEPT ![p] = h]
      BY <1>4, <2>2
    <3> HIDE DEF h
    <3>7. Lists(h, p, given)
      BY <3>2, <3>5 DEF Lists
    <3>8. group' \in [Peer -> GroupType \cup {Nobody}] /\ group'[p] = h
          /\ \A q \in Peer : q # p => group'[q] = group[q]
      BY <1>3, <3>5, <3>6 DEF GroupTypes
    <3> QED BY <1>3, <3>7, <3>8 DEF GroupsList
  <2> QED BY <2>1, <2>2
<1>7. GroupTypes'
  BY <1>3, <1>4, <1>5, <1>6 DEF GroupTypes
<1>8. KeysGiven'
  <2>1. Told(group', pending', controls', given)
    BY <1>3, <1>4, <1>5, <1>6 DEF Told
  <2>2. given \in SUBSET (Peer \X (1..keyCount')) /\ OneKey(given, addedBy')
    BY <1>2, <1>4
  <2> QED BY <2>1, <2>2 DEF KeysGiven
<1>9. Created' /\ restarts' # 0
  BY <1>1, <1>3, <1>4 DEF Created, GroupTypes
<1> QED BY <1>7, <1>8, <1>9 DEF GroupInv

\* p reads a message of q; its group, if it changes, becomes h or is forgotten.
LEMMA MessageRead ==
    ASSUME GroupInv, NEW p \in Peer, NEW q \in Peer, NEW i \in DOMAIN controls[q][p],
           NEW kind, G!Takes(p, q, i, kind)
    PROVE  /\ p # q /\ keyCount # 0
           /\ controls[q][p][i] \in ControlType /\ controls[q][p][i].kind = kind
           /\ controls \in NetType /\ controls' \in NetType /\ Moved(controls, controls')
           /\ \A given : NetTells(controls, given) =>
                NetTells(controls', given) /\ Tells(controls[q][p][i], q, p, given)
           /\ controls' = Taken(controls, q, p, i) /\ controls[q][p] # <<>>
           /\ UNCHANGED <<keyCount, restarts, addedBy>>
<1>1. controls' = Taken(controls, q, p, i) /\ controls[q][p][i].kind = kind
      /\ UNCHANGED <<keyCount, restarts, addedBy>>
  BY DEF G!Takes, Taken
<1>2. controls \in NetType /\ controls[q][p] # <<>>
  BY NetTyped, TakenFrom
<1>3. keyCount # 0
  BY <1>2, Born
<1>4. controls' \in NetType /\ controls[q][p][i] \in ControlType /\ Moved(controls, controls')
  BY <1>1, <1>2, TakenFrom, TakenMoves
<1>5. \A given : NetTells(controls, given) =>
        NetTells(controls', given) /\ Tells(controls[q][p][i], q, p, given)
  BY <1>1, <1>2, TakenTells
<1>6. p # q
  <2>1. PICK given : NetTells(controls, given)
    BY DEF GroupInv, KeysGiven, Told
  <2> QED BY <1>5, <2>1 DEF Tells
<1> QED BY <1>1, <1>2, <1>3, <1>4, <1>5, <1>6

LEMMA GroupOnInvite ==
    ASSUME GroupInv, NEW p \in Peer, NEW q \in Peer, NEW i \in DOMAIN controls[q][p],
           G!OnGroupInvite(p, q, i)
    PROVE  GroupInv'
<1> DEFINE x == controls[q][p][i]
<1>1. G!Takes(p, q, i, "group_invite") /\ pending' = [pending EXCEPT ![p] = x]
      /\ UNCHANGED <<group, gone, strayed, headless>>
  BY DEF G!OnGroupInvite
<1>2. /\ p # q /\ keyCount # 0
      /\ x \in ControlType /\ x.kind = "group_invite"
      /\ controls' \in NetType /\ Moved(controls, controls')
      /\ \A given : NetTells(controls, given) => NetTells(controls', given) /\ Tells(x, q, p, given)
      /\ UNCHANGED <<keyCount, restarts, addedBy>>
  BY <1>1, MessageRead
<1> HIDE DEF x
<1>3. x \in InviteType
  BY <1>2, ControlTypes
<1>4. GroupTypes
  BY DEF GroupInv
<1>5. pending' \in [Peer -> InviteType \cup {Nobody}] /\ pending'[p] = x
      /\ \A a \in Peer : a # p => pending'[a] = pending[a]
  BY <1>1, <1>3, <1>4 DEF GroupTypes
<1>6. ASSUME NEW given, InvitesList(pending, given), NetTells(controls, given)
      PROVE  InvitesList(pending', given)
  <2>1. Lists(x, p, given) /\ x.by # p
    BY <1>2, <1>6 DEF Tells
  <2> QED BY <1>5, <1>6, <2>1 DEF InvitesList
<1>7. group' \in [Peer -> GroupType \cup {Nobody}] /\ group' = group
  BY <1>1, <1>4 DEF GroupTypes
<1>8. strayed' \cup gone' \subseteq Peer /\ headless' \in BOOLEAN
  BY <1>1, GroupFlags
<1> QED BY <1>2, <1>5, <1>6, <1>7, <1>8, GroupQuiet

\* The handler breaks off.
LEMMA GroupIgnore ==
    ASSUME GroupInv, NEW p \in Peer, NEW q \in Peer, NEW i \in DOMAIN controls[q][p],
           NEW kind, G!Takes(p, q, i, kind), G!Ignore(p)
    PROVE  GroupInv'
<1>1. /\ keyCount # 0 /\ controls' \in NetType /\ Moved(controls, controls')
      /\ \A given : NetTells(controls, given) => NetTells(controls', given)
      /\ UNCHANGED <<keyCount, restarts, addedBy>>
  BY MessageRead
<1>2. strayed' = strayed \cup {p} /\ UNCHANGED <<group, pending, gone, headless>>
  BY DEF G!Ignore
<1>3. group' \in [Peer -> GroupType \cup {Nobody}] /\ pending' \in [Peer -> InviteType \cup {Nobody}]
      /\ group' = group /\ pending' = pending
  BY <1>2 DEF GroupInv, GroupTypes
<1>4. strayed' \cup gone' \subseteq Peer /\ headless' \in BOOLEAN
  BY <1>2, GroupFlags
<1> QED BY <1>1, <1>3, <1>4, GroupQuiet

\* The message is applied, and makes p no admin.
LEMMA GroupApply ==
    ASSUME GroupInv, NEW p \in Peer, NEW q \in Peer, NEW i \in DOMAIN controls[q][p],
           NEW kind, G!Takes(p, q, i, kind), p \in G!In,
           NEW h \in GroupType, G!Becomes(p, h), h.admin = p => group[p].admin = p,
           \A given : Lists(group[p], p, given) /\ Tells(controls[q][p][i], q, p, given)
                        => Lists(h, p, given),
           gone' \subseteq Peer, headless' \in BOOLEAN
    PROVE  GroupInv'
<1>1. /\ keyCount # 0 /\ controls' \in NetType /\ Moved(controls, controls')
      /\ \A given : NetTells(controls, given) =>
            NetTells(controls', given) /\ Tells(controls[q][p][i], q, p, given)
      /\ UNCHANGED <<keyCount, restarts, addedBy>>
  BY MessageRead
<1>2. group' = [group EXCEPT ![p] = h] /\ pending' = pending /\ strayed' = strayed
  BY DEF G!Becomes
<1>3. group[p] # Nobody /\ GroupTypes
  BY DEF G!In, GroupInv
<1>4. h.admin = p => Acts(group, p)
  BY <1>3 DEF Acts
<1>5. ASSUME NEW given, GroupsList(group, given), NetTells(controls, given)
      PROVE  /\ group' \in [Peer -> GroupType \cup {Nobody}]
             /\ GroupsList(group', given)
             /\ \A a \in Peer : Acts(group', a) => Acts(group, a)
  <2>1. Lists(group[p], p, given)
    BY <1>3, <1>5 DEF GroupsList
  <2>2. Lists(h, p, given)
    BY <1>1, <1>5, <2>1
  <2> QED BY <1>2, <1>3, <1>4, <1>5, <2>2, GroupBecomes
<1>6. PICK set : GroupsList(group, set) /\ NetTells(controls, set)
  BY DEF GroupInv, KeysGiven, Told
<1>7. group' \in [Peer -> GroupType \cup {Nobody}] /\ \A a \in Peer : Acts(group', a) => Acts(group, a)
  BY <1>5, <1>6
<1>8. pending' \in [Peer -> InviteType \cup {Nobody}] /\ pending' = pending
  BY <1>2, <1>3 DEF GroupTypes
<1>9. strayed' \cup gone' \subseteq Peer /\ headless' \in BOOLEAN
  BY <1>2, GroupFlags
<1>10. \A given : GroupsList(group, given) /\ InvitesList(pending, given) /\ NetTells(controls, given)
                    => /\ GroupsList(group', given) /\ InvitesList(pending', given)
                       /\ NetTells(controls', given)
  BY <1>1, <1>5, <1>8
<1> QED BY <1>1, <1>7, <1>8, <1>9, <1>10, GroupQuiet

\* A group that lists its members with keys given out.
LEMMA Listed ==
    ASSUME GroupInv, NEW p \in G!In, NEW q \in Peer, NEW i \in DOMAIN controls[q][p]
    PROVE  \E given : Lists(group[p], p, given) /\ Tells(controls[q][p][i], q, p, given)
<1>1. PICK given : GroupsList(group, given) /\ NetTells(controls, given)
  BY DEF GroupInv, KeysGiven, Told
<1>2. p \in Peer /\ group[p] # Nobody /\ controls \in NetType
  BY InTheGroup, NetTyped
<1>3. Lists(group[p], p, given)
  BY <1>1, <1>2 DEF GroupsList
<1>4. Tells(controls[q][p][i], q, p, given)
  BY <1>1, <1>2, TakenTells
<1> QED BY <1>3, <1>4

LEMMA GroupOnLeave ==
    ASSUME GroupInv, Nobody \notin Peer, NEW p \in Peer, NEW q \in Peer, NEW i \in DOMAIN controls[q][p],
           G!OnGroupLeave(p, q, i)
    PROVE  GroupInv'
<1>1. G!Takes(p, q, i, "group_leave")
  BY DEF G!OnGroupLeave
<1>2. CASE G!Ignore(p)
  BY <1>1, <1>2, GroupIgnore
<1> DEFINE g == IF group[p].admin = q THEN G!setAdmin(group[p], Nobody) ELSE group[p]
           h == G!removeMember(g, q)
<1>3. CASE /\ p \in G!In /\ q \in G!Members(group[p])
           /\ G!Becomes(p, h)
           /\ headless' = (headless \/ group[p].admin = q)
           /\ UNCHANGED gone
  <2>1. p # q /\ controls[q][p] # <<>>
    BY <1>1, MessageRead
  <2>2. group[p] \in GroupType
    BY <1>3, InTheGroup
  <2>3. ASSUME NEW given, Lists(group[p], p, given)
        PROVE  g \in GroupType /\ Lists(g, p, given) /\ G!Members(g) = G!Members(group[p])
               /\ (g.admin = p => group[p].admin = p)
    <3>1. CASE group[p].admin # q
      BY <2>2, <2>3, <3>1
    <3>2. CASE group[p].admin = q
      <4>1. g = G!setAdmin(group[p], Nobody)
        BY <3>2
      <4> HIDE DEF g
      <4>2. g \in GroupType /\ Lists(g, p, given) /\ G!Members(g) = G!Members(group[p]) /\ g.admin = Nobody
        BY <2>2, <2>3, <4>1, AdminSet
      <4> QED BY <4>2
    <3> QED BY <3>1, <3>2
  <2> HIDE DEF g
  <2>4. ASSUME NEW given, Lists(group[p], p, given)
        PROVE  h \in GroupType /\ Lists(h, p, given) /\ (h.admin = p => group[p].admin = p)
    <3>1. g \in GroupType /\ Lists(g, p, given) /\ q \in G!Members(g) /\ (g.admin = p => group[p].admin = p)
      BY <1>3, <2>3, <2>4
    <3>2. h \in GroupType /\ Lists(h, p, given) /\ h.admin = g.admin
      BY <2>1, <3>1, MemberRemoved
    <3> QED BY <3>1, <3>2
  <2> HIDE DEF h
  <2>5. PICK set : Lists(group[p], p, set)
    BY <1>3, <2>1, Listed
  <2>6. h \in GroupType /\ (h.admin = p => group[p].admin = p)
    BY <2>4, <2>5
  <2>7. gone' \subseteq Peer
    BY <1>3, GroupFlags
  <2>8. headless' \in BOOLEAN
    <3>1. (headless \/ group[p].admin = q) \in BOOLEAN
      BY GroupFlags, Zenon
    <3> QED BY <1>3, <3>1
  <2> QED BY <1>1, <1>3, <2>4, <2>6, <2>7, <2>8, GroupApply
<1> QED BY <1>2, <1>3 DEF G!OnGroupLeave

LEMMA GroupOnAdded ==
    ASSUME GroupInv, NEW p \in Peer, NEW q \in Peer, NEW i \in DOMAIN controls[q][p],
           G!OnGroupMemberAdded(p, q, i)
    PROVE  GroupInv'
<1>1. G!Takes(p, q, i, "group_member_added")
  BY DEF G!OnGroupMemberAdded
<1>2. CASE G!Ignore(p)
  BY <1>1, <1>2, GroupIgnore
<1> DEFINE x == controls[q][p][i]
           h == G!addMember(group[p], x.peer, x.key)
<1>3. CASE /\ p \in G!In /\ x.peer \notin G!Members(group[p])
           /\ G!Becomes(p, h)
           /\ UNCHANGED <<gone, headless>>
  <2>1. p # q /\ controls[q][p] # <<>> /\ x \in ControlType /\ x.kind = "group_member_added"
    BY <1>1, MessageRead
  <2>2. group[p] \in GroupType
    BY <1>3, InTheGroup
  <2>3. x.peer \in Peer /\ x.key \in G!Key
    BY <2>1, ControlTypes
  <2>4. PICK set : Lists(group[p], p, set)
    BY <1>3, <2>1, Listed
  <2>5. ASSUME NEW given, Lists(group[p], p, given)
        PROVE  /\ h \in GroupType /\ h.admin = group[p].admin
               /\ Lists(h, p, given \cup {<<x.peer, x.key>>})
    <3>1. ASSUME NEW g \in GroupType, Lists(g, p, given), NEW m \in Peer, NEW k \in G!Key,
                 m \notin G!Members(g), NEW a, a = G!addMember(g, m, k)
          PROVE  a \in GroupType /\ a.admin = g.admin /\ Lists(a, p, given \cup {<<m, k>>})
      BY <3>1, MemberAdded
    <3> QED BY <1>3, <2>2, <2>3, <2>5, <3>1
  <2> HIDE DEF h, x
  <2>6. h \in GroupType /\ h.admin = group[p].admin
    BY <2>4, <2>5
  <2>7. ASSUME NEW given, Lists(group[p], p, given), Tells(x, q, p, given)
        PROVE  Lists(h, p, given)
    <3>1. <<x.peer, x.key>> \in given
      BY <2>1, <2>7 DEF Tells
    <3>2. given \cup {<<x.peer, x.key>>} = given
      BY <3>1
    <3> QED BY <2>5, <2>7, <3>2
  <2>8. \A given : Lists(group[p], p, given) /\ Tells(controls[q][p][i], q, p, given)
                    => Lists(h, p, given)
    BY <2>7 DEF x
  <2>9. gone' \subseteq Peer /\ headless' \in BOOLEAN
    BY <1>3, GroupFlags
  <2> QED BY <1>1, <1>3, <2>6, <2>8, <2>9, GroupApply
<1> QED BY <1>2, <1>3 DEF G!OnGroupMemberAdded

LEMMA GroupOnRename ==
    ASSUME GroupInv, NEW p \in Peer, NEW q \in Peer, NEW i \in DOMAIN controls[q][p],
           G!OnGroupRename(p, q, i)
    PROVE  GroupInv'
<1>1. G!Takes(p, q, i, "group_rename")
  BY DEF G!OnGroupRename
<1>2. CASE G!Ignore(p)
  BY <1>1, <1>2, GroupIgnore
<1> DEFINE n == controls[q][p][i].name
           h == G!setName(group[p], n)
<1>3. CASE p \in G!In /\ G!Becomes(p, h) /\ UNCHANGED <<gone, headless>>
  <2>1. controls[q][p] # <<>> /\ n \in Name
    BY <1>1, MessageRead, ControlTypes
  <2>2. group[p] \in GroupType
    BY <1>3, InTheGroup
  <2>3. PICK set : Lists(group[p], p, set)
    BY <1>3, <2>1, Listed
  <2> HIDE DEF n
  <2>4. ASSUME NEW given, Lists(group[p], p, given)
        PROVE  h \in GroupType /\ h.admin = group[p].admin /\ Lists(h, p, given)
    BY <2>1, <2>2, <2>4, NameSet
  <2> HIDE DEF h
  <2>5. h \in GroupType /\ h.admin = group[p].admin
    BY <2>3, <2>4
  <2>6. gone' \subseteq Peer /\ headless' \in BOOLEAN
    BY <1>3, GroupFlags
  <2> QED BY <1>1, <1>3, <2>4, <2>5, <2>6, GroupApply
<1> QED BY <1>2, <1>3 DEF G!OnGroupRename

LEMMA GroupOnKicked ==
    ASSUME GroupInv, NEW p \in Peer, NEW q \in Peer, NEW i \in DOMAIN controls[q][p],
           G!OnGroupMemberKicked(p, q, i)
    PROVE  GroupInv'
<1>1. G!Takes(p, q, i, "group_member_kicked")
  BY DEF G!OnGroupMemberKicked
<1>2. CASE G!Ignore(p)
  BY <1>1, <1>2, GroupIgnore
<1> DEFINE m == controls[q][p][i].peer
           h == G!removeMember(group[p], m)
<1>3. CASE /\ p \in G!In /\ m \in G!Members(group[p]) /\ m # p
           /\ G!Becomes(p, h) /\ UNCHANGED <<gone, headless>>
  <2>1. controls[q][p] # <<>>
    BY <1>1, MessageRead
  <2>2. group[p] \in GroupType
    BY <1>3, InTheGroup
  <2>3. PICK set : Lists(group[p], p, set)
    BY <1>3, <2>1, Listed
  <2> HIDE DEF m
  <2>4. ASSUME NEW given, Lists(group[p], p, given)
        PROVE  h \in GroupType /\ h.admin = group[p].admin /\ Lists(h, p, given)
    BY <1>3, <2>2, <2>4, MemberRemoved
  <2> HIDE DEF h
  <2>5. h \in GroupType /\ h.admin = group[p].admin
    BY <2>3, <2>4
  <2>6. gone' \subseteq Peer /\ headless' \in BOOLEAN
    BY <1>3, GroupFlags
  <2> QED BY <1>1, <1>3, <2>4, <2>5, <2>6, GroupApply
<1>4. CASE G!Becomes(p, Nobody) /\ UNCHANGED <<gone, headless>>
  <2>1. /\ keyCount # 0 /\ controls' \in NetType /\ Moved(controls, controls')
        /\ \A given : NetTells(controls, given) => NetTells(controls', given)
        /\ UNCHANGED <<keyCount, restarts, addedBy>>
    BY <1>1, MessageRead
  <2>2. group' = [group EXCEPT ![p] = Nobody] /\ pending' = pending /\ strayed' = strayed
    BY <1>4 DEF G!Becomes
  <2>3. GroupTypes
    BY DEF GroupInv
  <2>4. ASSUME NEW given, GroupsList(group, given)
        PROVE  /\ group' \in [Peer -> GroupType \cup {Nobody}] /\ GroupsList(group', given)
               /\ \A a \in Peer : Acts(group', a) => Acts(group, a)
    BY <2>2, <2>3, <2>4, GroupForgotten
  <2>5. PICK set : GroupsList(group, set)
    BY DEF GroupInv, KeysGiven, Told
  <2>6. group' \in [Peer -> GroupType \cup {Nobody}] /\ \A a \in Peer : Acts(group', a) => Acts(group, a)
    BY <2>4, <2>5
  <2>7. pending' \in [Peer -> InviteType \cup {Nobody}] /\ pending' = pending
    BY <2>2, <2>3 DEF GroupTypes
  <2>8. strayed' \cup gone' \subseteq Peer /\ headless' \in BOOLEAN
    BY <1>4, <2>2, GroupFlags
  <2>9. \A given : GroupsList(group, given) /\ InvitesList(pending, given) /\ NetTells(controls, given)
                    => /\ GroupsList(group', given) /\ InvitesList(pending', given)
                       /\ NetTells(controls', given)
    BY <2>1, <2>4, <2>7
  <2> QED BY <2>1, <2>6, <2>7, <2>8, <2>9, GroupQuiet
<1> QED BY <1>2, <1>3, <1>4 DEF G!OnGroupMemberKicked

\* Only the admin's word is taken, in whatever order it comes: the message that appoints
\* p is the only one that appoints anyone.
LEMMA GroupOnAdminChange ==
    ASSUME GroupInv, Nobody \notin Peer, NEW p \in Peer, NEW q \in Peer, NEW i \in DOMAIN controls[q][p],
           G!OnGroupAdminChange(p, q, i)
    PROVE  GroupInv'
<1>1. G!Takes(p, q, i, "group_admin_change")
  BY DEF G!OnGroupAdminChange
<1>2. CASE G!Ignore(p)
  BY <1>1, <1>2, GroupIgnore
<1> DEFINE m == controls[q][p][i].peer
           h == G!setAdmin(group[p], m)
<1>3. CASE /\ p \in G!In /\ m \in G!Members(group[p]) \cup {Nobody}
           /\ G!Becomes(p, h) /\ UNCHANGED <<gone, headless>>
  <2>1. /\ controls[q][p] # <<>> /\ keyCount # 0 /\ controls \in NetType /\ controls' \in NetType
        /\ Moved(controls, controls')
        /\ \A given : NetTells(controls, given) => NetTells(controls', given)
        /\ UNCHANGED <<keyCount, restarts, addedBy>> /\ controls' = Taken(controls, q, p, i)
        /\ controls[q][p][i].kind = "group_admin_change"
    BY <1>1, MessageRead
  <2>2. group[p] \in GroupType
    BY <1>3, InTheGroup
  <2>3. PICK set : Lists(group[p], p, set)
    BY <1>3, <2>1, Listed
  <2>4. i \in Nat /\ (Appoints(controls, q, p, i) <=> m = p)
    BY <2>1, TakenFrom DEF Appoints
  <2> HIDE DEF m
  <2>5. ASSUME NEW given, Lists(group[p], p, given)
        PROVE  h \in GroupType /\ h.admin = m /\ Lists(h, p, given)
    BY <1>3, <2>2, <2>5, AdminSet
  <2> HIDE DEF h
  <2>6. h \in GroupType /\ h.admin = m
    BY <2>3, <2>5
  <2>7. gone' \subseteq Peer /\ headless' \in BOOLEAN
    BY <1>3, GroupFlags
  <2>8. CASE m # p
    BY <1>1, <1>3, <2>5, <2>6, <2>7, <2>8, GroupApply
  <2>9. CASE m = p
    <3>1. PICK given \in SUBSET (Peer \X (1..keyCount)) :
            Told(group, pending, controls, given) /\ OneKey(given, addedBy)
      BY DEF GroupInv, KeysGiven
    <3>2. GroupTypes /\ GroupsList(group, given) /\ InvitesList(pending, given) /\ NetTells(controls, given)
      BY <3>1 DEF GroupInv, Told
    <3>3. group' = [group EXCEPT ![p] = h] /\ pending' = pending /\ strayed' = strayed
      BY <1>3 DEF G!Becomes
    <3>4. Lists(group[p], p, given)
      BY <1>3, <3>2 DEF GroupsList, G!In
    <3>5. Lists(h, p, given)
      BY <2>5, <3>4
    <3>6. group' \in [Peer -> GroupType \cup {Nobody}] /\ group'[p] = h
          /\ \A a \in Peer : a # p => group'[a] = group[a]
      BY <2>6, <3>2, <3>3 DEF GroupTypes
    <3>7. GroupsList(group', given)
      BY <3>2, <3>5, <3>6 DEF GroupsList
    <3>8. Told(group', pending', controls', given)
      BY <2>1, <3>2, <3>3, <3>7 DEF Told
    <3>9. GroupTypes'
      BY <1>3, <2>1, <2>7, <3>2, <3>3, <3>6 DEF GroupTypes
    <3>10. KeysGiven'
      <4>1. given \in SUBSET (Peer \X (1..keyCount')) /\ OneKey(given, addedBy')
        BY <2>1, <3>1
      <4> QED BY <3>8, <4>1 DEF KeysGiven
    <3>11. Created'
      BY <2>1 DEF Created
    <3>12. ASSUME restarts = 0 PROVE RoleOnce(group', controls')
      <4>1. RoleOnce(group, controls)
        BY <3>12 DEF GroupInv
      <4>2. i \in Nat /\ Appoints(controls, q, p, i)
        BY <2>4, <2>9
      <4>3. \A a \in Peer : ~Acts(group, a)
        BY <4>1, <4>2 DEF RoleOnce
      <4>4. \A a \in Peer : Acts(group', a) => a = p
        BY <3>6, <4>3 DEF Acts
      <4>5. ASSUME NEW a \in Peer, NEW b \in Peer, NEW j \in Nat, Appoints(controls', a, b, j)
            PROVE  FALSE
        <5>1. PICK d \in [Nat -> Nat] :
                \A k \in Nat : Appoints(controls', a, b, k) => Appoints(controls, a, b, d[k])
          BY <2>1 DEF Moved
        <5>2. Appoints(controls, a, b, d[j]) /\ d[j] \in Nat
          BY <4>5, <5>1
        <5>3. a = q /\ b = p
          BY <4>1, <4>2, <5>2 DEF RoleOnce
        <5>4. j \in DOMAIN controls'[q][p] /\ controls'[q][p][j].kind = "group_admin_change"
              /\ controls'[q][p][j].peer = p
          BY <4>5, <5>3 DEF Appoints
        <5>5. Was(j, i) \in DOMAIN controls[q][p] /\ controls'[q][p][j] = controls[q][p][Was(j, i)]
          <6>1. \A k \in DOMAIN controls'[q][p] :
                    /\ Was(k, i) \in DOMAIN controls[q][p]
                    /\ controls'[q][p][k] = controls[q][p][Was(k, i)]
            BY <2>1, TakenFrom
          <6> QED BY <5>4, <6>1
        <5>6. Appoints(controls, q, p, Was(j, i)) /\ Was(j, i) \in Nat /\ Was(j, i) # i
          <6>1. Appoints(controls, q, p, Was(j, i))
            BY <5>4, <5>5 DEF Appoints
          <6>2. Was(j, i) \in Nat /\ Was(j, i) # i
            BY <4>2 DEF Was
          <6> QED BY <6>1, <6>2
        <5>7. Was(j, i) = i
          BY <4>1, <4>2, <5>6 DEF RoleOnce
        <5> QED BY <5>6, <5>7
      <4> QED BY <4>4, <4>5 DEF RoleOnce
    <3> QED BY <2>1, <3>9, <3>10, <3>11, <3>12 DEF GroupInv
  <2> QED BY <2>8, <2>9
<1> QED BY <1>2, <1>3 DEF G!OnGroupAdminChange

\* A key that no one has had yet, for a device that then has one more.
LEMMA GroupAdd ==
    ASSUME GroupInv, NEW p \in Peer, NEW new \in Peer, G!AddGroupMember(p, new)
    PROVE  GroupInv'
<1>1. p \in G!In /\ new \notin G!Members(group[p])
  BY DEF G!AddGroupMember, G!Change
<1>2. group[p] \in GroupType /\ group[p] # Nobody /\ keyCount # 0
  BY <1>1, InTheGroup
<1>3. PICK given \in SUBSET (Peer \X (1..keyCount)) :
        Told(group, pending, controls, given) /\ OneKey(given, addedBy)
  BY DEF GroupInv, KeysGiven
<1>4. GroupTypes
  BY DEF GroupInv
<1>5. keyCount \in Nat /\ controls \in NetType
  BY <1>4 DEF GroupTypes
<1> DEFINE key == keyCount + 1
           h == G!addMember(group[p], new, key)
           others == G!Members(h) \ {p, new}
           x == G!InviteOf(h, p)
           y == [kind |-> "group_member_added", peer |-> new, key |-> key]
           n == G!SendTo(controls, p, {new}, x)
           more == given \cup {<<new, key>>}
<1>6. /\ group' = [group EXCEPT ![p] = h] /\ controls' = G!SendTo(n, p, others, y)
      /\ keyCount' = key /\ addedBy' = [addedBy EXCEPT ![new] = Append(@, p)]
      /\ UNCHANGED <<pending, restarts, gone, strayed, headless>>
  BY DEF G!AddGroupMember, G!Change
<1>7. key \in G!Key /\ key # 0 /\ more \in SUBSET (Peer \X (1..key))
      /\ given \subseteq more /\ <<new, key>> \in more
  BY <1>3, <1>5 DEF G!Key
<1>8. GroupsList(group, given)
  BY <1>3 DEF Told
<1>9. Lists(group[p], p, given)
  BY <1>2, <1>8 DEF GroupsList
<1> HIDE DEF key
<1>10. h \in GroupType /\ Lists(h, p, more) /\ Lists(h, new, more) /\ h.admin = group[p].admin
  <2>1. ASSUME NEW g \in GroupType, Lists(g, p, given), new \notin G!Members(g),
               NEW a, a = G!addMember(g, new, key)
        PROVE  /\ a \in GroupType /\ a.admin = g.admin
               /\ Lists(a, p, given \cup {<<new, key>>}) /\ Lists(a, new, given \cup {<<new, key>>})
    BY <1>7, <2>1, MemberAdded
  <2> QED BY <1>1, <1>2, <1>9, <2>1
<1>11. p # new
  BY <1>1, <1>9 DEF Lists, G!Members
<1> HIDE DEF h
<1>12. x \in ControlType /\ Tells(x, p, new, more) /\ x.kind = "group_invite"
  BY <1>10, <1>11, Invited
<1>13. y \in ControlType /\ y.kind = "group_member_added" /\ y.peer = new /\ y.key = key
  BY <1>7 DEF ControlType
<1>14. \A q \in others : Tells(y, p, q, more)
  BY <1>7, <1>13 DEF Tells
<1> HIDE DEF x, y, others, more
<1>15. Told(group, pending, controls, more)
  BY <1>3, <1>7, ToldMore
<1>16. GroupsList(group, more) /\ InvitesList(pending, more) /\ NetTells(controls, more)
  BY <1>15 DEF Told
<1>17. n \in NetType /\ NetTells(n, more) /\ Moved(controls, n)
  <2>1. \A q \in {new} : Tells(x, p, q, more)
    BY <1>12
  <2>2. x.kind = "group_admin_change" => x.peer \notin {new}
    BY <1>12
  <2> QED BY <1>5, <1>12, <1>16, <2>1, <2>2, SentTo, SentTells, SentMoves
<1> HIDE DEF n
<1>18. controls' \in NetType /\ NetTells(controls', more) /\ Moved(n, controls')
  BY <1>6, <1>13, <1>14, <1>17, SentTo, SentTells, SentMoves
<1>19. Moved(controls, controls')
  BY <1>17, <1>18, MovedTwice
<1>20. /\ group' \in [Peer -> GroupType \cup {Nobody}]
       /\ GroupsList(group', more)
       /\ \A q \in Peer : Acts(group', q) => Acts(group, q)
  <2>1. h.admin = p => Acts(group, p)
    BY <1>2, <1>10 DEF Acts
  <2> QED BY <1>4, <1>6, <1>10, <1>16, <2>1, GroupBecomes
<1>21. addedBy' \in [Peer -> Seq(Peer)] /\ Len(addedBy'[new]) = Len(addedBy[new]) + 1
       /\ Len(addedBy[new]) \in Nat
       /\ \A m \in Peer : m # new => addedBy'[m] = addedBy[m]
  BY <1>4, <1>6 DEF GroupTypes
<1>22. OneKey(more, addedBy')
  <2> SUFFICES ASSUME NEW m \in Peer
               PROVE  /\ Len(addedBy'[m]) = 0 => \A k \in G!Key : <<m, k>> \notin more
                      /\ Len(addedBy'[m]) = 1 =>
                            \A k, l \in G!Key : <<m, k>> \in more /\ <<m, l>> \in more => k = l
    BY DEF OneKey
  <2>1. CASE m # new
    <3>1. \A k : <<m, k>> \in more => <<m, k>> \in given
      BY <2>1 DEF more
    <3> QED BY <1>3, <1>21, <2>1, <3>1 DEF OneKey
  <2>2. CASE m = new
    <3> DEFINE n0 == Len(addedBy[m])
               n1 == Len(addedBy'[m])
    <3>0. n1 = n0 + 1 /\ n0 \in Nat
      BY <1>21, <2>2
    <3> HIDE DEF n0, n1
    <3>3. n1 # 0 /\ (n1 = 1 => n0 = 0)
      BY <3>0
    <3>1. Len(addedBy'[m]) # 0 /\ (Len(addedBy'[m]) = 1 => Len(addedBy[m]) = 0)
      BY <3>3 DEF n0, n1
    <3>2. ASSUME Len(addedBy[m]) = 0, NEW k \in G!Key, <<m, k>> \in more PROVE k = key
      BY <1>3, <3>2 DEF OneKey, more
    <3> QED BY <3>1, <3>2
  <2> QED BY <2>1, <2>2
<1>23. KeysGiven'
  <2>1. Told(group', pending', controls', more)
    BY <1>6, <1>16, <1>18, <1>20 DEF Told
  <2>2. more \in SUBSET (Peer \X (1..keyCount'))
    BY <1>6, <1>7
  <2> QED BY <1>22, <2>1, <2>2 DEF KeysGiven
<1>24. GroupTypes'
  <2>1. keyCount' \in Nat
    BY <1>6, <1>7 DEF G!Key
  <2> QED BY <1>4, <1>6, <1>18, <1>20, <1>21, <2>1 DEF GroupTypes
<1>25. Created'
  BY <1>6, <1>7 DEF Created
<1>26. restarts' = 0 => RoleOnce(group', controls')
  <2> SUFFICES ASSUME restarts = 0 PROVE RoleOnce(group', controls')
    BY <1>6
  <2>1. RoleOnce(group, controls)
    BY DEF GroupInv
  <2> QED BY <1>19, <1>20, <2>1, RoleMoved
<1> QED BY <1>23, <1>24, <1>25, <1>26 DEF GroupInv

\* The members invited at the creation.
LEMMA FirstMembers ==
    ASSUME IsFiniteSet(Peer), NEW first \in G!SetToAllKPermutations(Peer \ {Creator})
    PROVE  first \in Seq(Peer) /\ G!IsInjective(first) /\ Creator \notin G!ToSet(first)
<1>1. PICK some \in SUBSET (Peer \ {Creator}) : first \in G!SetToSeqs(some)
  BY DEF G!SetToAllKPermutations
<1>2. first \in [1..Cardinality(some) -> some]
      /\ \A i, j \in 1..Cardinality(some) : i # j => first[i] # first[j]
  BY <1>1, GroupCount DEF G!SetToSeqs
<1>3. Cardinality(some) \in Nat
  <2>1. IsFiniteSet(some)
    BY <1>1, FS_Subset
  <2> QED BY <2>1, FS_CardinalityType
<1>4. first \in Seq(Peer)
  <2>1. first \in [1..Cardinality(some) -> Peer]
    BY <1>1, <1>2
  <2> QED BY <1>3, <2>1
<1>5. G!IsInjective(first)
  BY <1>2 DEF G!IsInjective
<1>6. Creator \notin G!ToSet(first)
  BY <1>1, <1>2 DEF G!ToSet
<1> QED BY <1>4, <1>5, <1>6

\* A list of distinct members with one before.
LEMMA ListedFirst ==
    ASSUME NEW c \in Peer, NEW s \in Seq(Peer), G!IsInjective(s), c \notin G!ToSet(s),
           NEW r, r = <<c>> \o s
    PROVE  /\ r \in Seq(Peer) /\ G!IsInjective(r) /\ c \in G!ToSet(r)
           /\ Len(r) \in Nat \ {0} /\ DOMAIN r = 1..Len(r)
<1> DEFINE a == <<c>>
<1>1. a \in Seq(Peer) /\ Len(a) = 1 /\ a[1] = c
  OBVIOUS
<1>2. r = a \o s
  OBVIOUS
<1> HIDE DEF a
<1>3. /\ r \in Seq(Peer) /\ Len(r) = Len(a) + Len(s)
      /\ \A j \in 1..(Len(a) + Len(s)) : r[j] = IF j <= Len(a) THEN a[j] ELSE s[j - Len(a)]
  <2>1. /\ a \o s \in Seq(Peer) /\ Len(a \o s) = Len(a) + Len(s)
        /\ \A j \in 1..Len(a) + Len(s) : (a \o s)[j] = IF j <= Len(a) THEN a[j] ELSE s[j - Len(a)]
    BY <1>1, ConcatProperties, Zenon
  <2> QED BY <1>2, <2>1
<1>4. Len(s) \in Nat /\ DOMAIN s = 1..Len(s) /\ DOMAIN r = 1..Len(r)
  BY <1>3, LenProperties
<1>5. Len(r) = Len(s) + 1
  BY <1>1, <1>3, <1>4
<1>6. r[1] = c /\ \A j \in 2..Len(r) : r[j] = s[j - 1] /\ j - 1 \in 1..Len(s)
  <2>1. r[1] = c
    BY <1>1, <1>3, <1>4
  <2>2. ASSUME NEW j \in 2..Len(r) PROVE r[j] = s[j - 1] /\ j - 1 \in 1..Len(s)
    <3>1. j \in 1..(Len(a) + Len(s)) /\ ~(j <= Len(a)) /\ j - Len(a) = j - 1 /\ j - 1 \in 1..Len(s)
      BY <1>1, <1>4, <1>5
    <3> QED BY <1>3, <3>1
  <2> QED BY <2>1, <2>2
<1>7. \A j \in 1..Len(s) : s[j] # c
  BY <1>4 DEF G!ToSet
<1>8. G!IsInjective(r)
  <2> SUFFICES ASSUME NEW i \in 1..Len(r), NEW j \in 1..Len(r), r[i] = r[j]
               PROVE  i = j
    BY <1>4 DEF G!IsInjective
  <2>1. CASE i = 1 /\ j = 1
    BY <2>1
  <2>2. CASE i = 1 /\ j # 1
    <3>1. j \in 2..Len(r)
      BY <1>4, <1>5, <2>2
    <3> QED BY <1>6, <1>7, <2>2, <3>1
  <2>3. CASE i # 1 /\ j = 1
    <3>1. i \in 2..Len(r)
      BY <1>4, <1>5, <2>3
    <3> QED BY <1>6, <1>7, <2>3, <3>1
  <2>4. CASE i # 1 /\ j # 1
    <3>1. i \in 2..Len(r) /\ j \in 2..Len(r)
      BY <1>4, <1>5, <2>4
    <3>2. s[i - 1] = s[j - 1] /\ i - 1 \in 1..Len(s) /\ j - 1 \in 1..Len(s)
      BY <1>6, <3>1
    <3>3. i - 1 = j - 1
      BY <1>4, <3>2 DEF G!IsInjective
    <3> QED BY <3>1, <3>3
  <2> QED BY <2>1, <2>2, <2>3, <2>4
<1>9. c \in G!ToSet(r)
  BY <1>4, <1>5, <1>6 DEF G!ToSet
<1> QED BY <1>3, <1>4, <1>5, <1>8, <1>9

\* Before the creation no one has anything; after it all have one key for each.
LEMMA GroupCreate ==
    ASSUME GroupInv, G!ConstantsOK, NEW first \in G!SetToAllKPermutations(Peer \ {Creator}),
           G!CreateGroup(first)
    PROVE  GroupInv'
<1>1. IsFiniteSet(Peer) /\ Creator \in Peer /\ Nobody \notin Peer /\ \E n \in Name : TRUE
  BY GroupCount DEF G!ConstantsOK
<1> DEFINE members == <<Creator>> \o first
           keys == [p \in G!ToSet(members) |-> CHOOSE i \in DOMAIN members : members[i] = p]
           title == CHOOSE n \in Name : TRUE
           g == [members |-> members, keys |-> keys, admin |-> Creator, name |-> title]
           to == G!ToSet(first)
           x == G!InviteOf(g, Creator)
           given == {<<m, keys[m]>> : m \in G!ToSet(members)}
<1>2. /\ keyCount = 0 /\ keyCount' = Len(members)
      /\ group' = [group EXCEPT ![Creator] = g] /\ controls' = G!SendTo(controls, Creator, to, x)
      /\ addedBy' = [p \in Peer |-> IF p \in G!Members(g) THEN <<Creator>> ELSE <<>>]
      /\ UNCHANGED <<pending, restarts, gone, strayed, headless>>
  BY DEF G!CreateGroup
<1>3. first \in Seq(Peer) /\ G!IsInjective(first) /\ Creator \notin to
  BY <1>1, FirstMembers
<1> HIDE DEF to
<1>4. /\ members \in Seq(Peer) /\ G!IsInjective(members) /\ Creator \in G!ToSet(members)
      /\ Len(members) \in Nat \ {0} /\ DOMAIN members = 1..Len(members)
  BY <1>1, <1>3, ListedFirst DEF to
<1> HIDE DEF members
<1>5. keys \in [G!ToSet(members) -> 1..Len(members)] /\ G!ToSet(members) \in SUBSET Peer
  <2>1. ASSUME NEW p \in G!ToSet(members)
        PROVE (CHOOSE i \in DOMAIN members : members[i] = p) \in 1..Len(members)
    BY <1>4 DEF G!ToSet
  <2>2. G!ToSet(members) \in SUBSET Peer
    BY <1>4 DEF G!ToSet
  <2> QED BY <2>1, <2>2
<1>6. title \in Name
  BY <1>1
<1> HIDE DEF keys, title
<1>7. keys \in KeyMap /\ DOMAIN keys = G!ToSet(members)
  <2>1. keys \in [G!ToSet(members) -> G!Key]
    BY <1>4, <1>5 DEF G!Key
  <2> QED BY <1>5, <2>1, KeyMapIs
<1>8. /\ g \in GroupType /\ g.members = members /\ g.keys = keys /\ g.admin = Creator
  BY <1>1, <1>4, <1>6, <1>7 DEF GroupType
<1> HIDE DEF g
<1>9. given \in SUBSET (Peer \X (1..Len(members)))
  BY <1>5
<1>10. \A p \in G!ToSet(members) : Lists(g, p, given)
  BY <1>4, <1>7, <1>8 DEF Lists
<1>11. OneKey(given, addedBy')
  <2> SUFFICES ASSUME NEW m \in Peer
               PROVE  /\ Len(addedBy'[m]) = 0 => \A k \in G!Key : <<m, k>> \notin given
                      /\ Len(addedBy'[m]) = 1 =>
                            \A k, l \in G!Key : <<m, k>> \in given /\ <<m, l>> \in given => k = l
    BY DEF OneKey
  <2>1. \A k : <<m, k>> \in given => k = keys[m] /\ m \in G!ToSet(members)
    OBVIOUS
  <2>2. m \in G!ToSet(members) => Len(addedBy'[m]) = 1
    BY <1>2, <1>8 DEF G!Members
  <2> HIDE DEF given
  <2>3. CASE m \in G!ToSet(members)
    <3>1. Len(addedBy'[m]) # 0
      BY <2>2, <2>3
    <3>2. ASSUME NEW k \in G!Key, NEW l \in G!Key, <<m, k>> \in given, <<m, l>> \in given PROVE k = l
      BY <2>1, <3>2
    <3> QED BY <3>1, <3>2
  <2>4. CASE m \notin G!ToSet(members)
    BY <2>1, <2>4
  <2> QED BY <2>3, <2>4
<1> HIDE DEF given
<1>12. PICK none \in SUBSET (Peer \X (1..keyCount)) : Told(group, pending, controls, none)
  BY DEF GroupInv, KeysGiven
<1>13. none = {}
  <2>1. 1..keyCount = {}
    BY <1>2
  <2> QED BY <1>12, <2>1
<1>14. Told(group, pending, controls, given)
  BY <1>12, <1>13, ToldMore
<1>15. GroupTypes /\ GroupsList(group, given) /\ InvitesList(pending, given) /\ NetTells(controls, given)
  BY <1>14 DEF GroupInv, Told
<1>16. controls \in NetType
  BY NetTyped
<1>17. \A q \in to : x \in ControlType /\ x.kind = "group_invite" /\ Tells(x, Creator, q, given)
  <2> SUFFICES ASSUME NEW q \in to
               PROVE  x \in ControlType /\ x.kind = "group_invite" /\ Tells(x, Creator, q, given)
    OBVIOUS
  <2>1. q \in G!ToSet(members)
    <3>1. first \in Seq(Peer) /\ Len(first) \in Nat /\ DOMAIN first = 1..Len(first)
      BY <1>3, LenProperties
    <3>2. PICK i \in 1..Len(first) : first[i] = q
      BY <3>1 DEF to, G!ToSet
    <3>3. /\ Len(<<Creator>> \o first) = 1 + Len(first)
          /\ (<<Creator>> \o first)[i + 1] = first[i]
      BY <1>1, <3>1
    <3>4. members[i + 1] = q /\ i + 1 \in DOMAIN members
      BY <1>4, <3>1, <3>2, <3>3 DEF members
    <3> QED BY <3>4 DEF G!ToSet
  <2>2. Lists(g, q, given) /\ q # Creator
    BY <1>3, <1>10, <2>1
  <2> QED BY <1>1, <1>8, <2>2, Invited
<1>18. x \in ControlType /\ x.kind = "group_invite"
  <2>1. /\ x.kind = "group_invite" /\ x.members = g.members /\ x.keys = g.keys
        /\ x.name = g.name /\ x.by = Creator
        /\ x = [kind |-> x.kind, members |-> x.members, keys |-> x.keys, by |-> x.by, name |-> x.name]
    BY DEF G!InviteOf
  <2>2. g.members \in Seq(Peer) /\ g.keys \in KeyMap /\ g.name \in Name
    BY <1>8 DEF GroupType
  <2>3. x \in InviteType
    BY <1>1, <2>1, <2>2 DEF InviteType
  <2> QED BY <2>1, <2>3 DEF ControlType
<1> HIDE DEF x
<1>19. controls' \in NetType /\ NetTells(controls', given) /\ Moved(controls, controls')
  BY <1>1, <1>2, <1>15, <1>16, <1>17, <1>18, SentTo, SentTells, SentMoves
<1>20. group' \in [Peer -> GroupType \cup {Nobody}] /\ group'[Creator] = g
       /\ \A p \in Peer : p # Creator => group'[p] = group[p]
  BY <1>1, <1>2, <1>8, <1>15 DEF GroupTypes
<1>21. GroupsList(group', given)
  BY <1>4, <1>10, <1>15, <1>20 DEF GroupsList
<1>22. GroupTypes'
  <2>1. keyCount' \in Nat
    BY <1>2, <1>4
  <2>2. addedBy' \in [Peer -> Seq(Peer)]
    BY <1>1, <1>2
  <2> QED BY <1>2, <1>15, <1>19, <1>20, <2>1, <2>2 DEF GroupTypes
<1>23. KeysGiven'
  <2>1. Told(group', pending', controls', given)
    BY <1>2, <1>15, <1>19, <1>21 DEF Told
  <2>2. given \in SUBSET (Peer \X (1..keyCount'))
    BY <1>2, <1>9
  <2> QED BY <1>11, <2>1, <2>2 DEF KeysGiven
<1>24. Created'
  BY <1>2, <1>4 DEF Created
<1>25. RoleOnce(group', controls')
  <2>1. \A p \in Peer : group[p] = Nobody
    <3>1. \A y, p : ~Lists(y, p, none)
      BY <1>13 DEF Lists
    <3> QED BY <1>12, <3>1 DEF Told, GroupsList
  <2>2. \A p \in Peer : Acts(group', p) => p = Creator
    BY <1>20, <2>1 DEF Acts
  <2>3. \A a, b \in Peer : controls[a][b] = <<>>
    BY <1>2 DEF GroupInv, Created
  <2>4. \A a, b \in Peer : \A i \in Nat : ~Appoints(controls, a, b, i)
    BY <2>3 DEF Appoints
  <2>5. ASSUME NEW a \in Peer, NEW b \in Peer, NEW i \in Nat, Appoints(controls', a, b, i) PROVE FALSE
    <3>1. PICK d \in [Nat -> Nat] :
            \A j \in Nat : Appoints(controls', a, b, j) => Appoints(controls, a, b, d[j])
      BY <1>19 DEF Moved
    <3>2. d[i] \in Nat /\ Appoints(controls, a, b, d[i])
      BY <2>5, <3>1
    <3> QED BY <2>4, <3>2
  <2> QED BY <2>2, <2>5 DEF RoleOnce
<1> QED BY <1>22, <1>23, <1>24, <1>25 DEF GroupInv

LEMMA GroupStart ==
    ASSUME G!Init
    PROVE  GroupInv
<1>1. /\ group = [p \in Peer |-> Nobody] /\ pending = [p \in Peer |-> Nobody]
      /\ controls = [p \in Peer |-> [q \in Peer |-> <<>>]]
      /\ keyCount = 0 /\ restarts = 0 /\ addedBy = [p \in Peer |-> <<>>]
      /\ gone = {} /\ strayed = {} /\ headless = FALSE
  BY DEF G!Init
<1>2. controls \in NetType /\ \A p, q \in Peer : controls[p][q] = <<>>
  <2>1. <<>> \in Seq(ControlType)
    OBVIOUS
  <2> QED BY <1>1, <2>1 DEF NetType
<1>3. GroupTypes
  <2>1. <<>> \in Seq(Peer)
    OBVIOUS
  <2>2. headless \in BOOLEAN
    BY <1>1, Zenon
  <2>3. addedBy \in [Peer -> Seq(Peer)]
    BY <1>1, <2>1
  <2>4. group \in [Peer -> GroupType \cup {Nobody}] /\ pending \in [Peer -> InviteType \cup {Nobody}]
    BY <1>1
  <2>5. keyCount \in Nat /\ restarts \in Nat /\ strayed \cup gone \subseteq Peer
    BY <1>1
  <2> QED BY <1>2, <2>2, <2>3, <2>4, <2>5 DEF GroupTypes
<1>4. KeysGiven
  <2>1. Told(group, pending, controls, {})
    <3>1. NetTells(controls, {})
      BY <1>2 DEF NetTells
    <3> QED BY <1>1, <3>1 DEF Told, GroupsList, InvitesList
  <2>2. OneKey({}, addedBy)
    BY DEF OneKey
  <2> QED BY <2>1, <2>2 DEF KeysGiven
<1>5. RoleOnce(group, controls)
  BY <1>1, <1>2 DEF RoleOnce, Acts, Appoints
<1> QED BY <1>2, <1>3, <1>4, <1>5 DEF GroupInv, Created

LEMMA GroupKept ==
    ASSUME G!ConstantsOK, GroupInv, [G!Next]_(G!vars)
    PROVE  GroupInv'
<1>1. CASE UNCHANGED G!vars
  BY <1>1 DEF G!vars, GroupInv, GroupTypes, KeysGiven, Created
<1>2. Nobody \notin Peer
  BY DEF G!ConstantsOK
<1>3. ASSUME NEW first \in G!SetToAllKPermutations(Peer \ {Creator}), G!CreateGroup(first) PROVE GroupInv'
  BY <1>3, GroupCreate
<1>4. ASSUME NEW p \in Peer, NEW q \in Peer,
             \/ G!AddGroupMember(p, q) \/ G!KickGroupMember(p, q) \/ G!RemoveMember(p, q)
             \/ \E i \in DOMAIN controls[p][q] : G!Lose(p, q, i)
      PROVE  GroupInv'
  BY <1>4, GroupAdd, GroupKick, GroupRemove, GroupLose
<1>5. ASSUME NEW p \in Peer, NEW q \in Peer, NEW i \in DOMAIN controls[q][p],
             \/ G!OnGroupInvite(p, q, i) \/ G!OnGroupLeave(p, q, i) \/ G!OnGroupMemberAdded(p, q, i)
             \/ G!OnGroupAdminChange(p, q, i) \/ G!OnGroupMemberKicked(p, q, i)
             \/ G!OnGroupRename(p, q, i)
      PROVE  GroupInv'
  BY <1>2, <1>5, GroupOnInvite, GroupOnLeave, GroupOnAdded, GroupOnAdminChange, GroupOnKicked, GroupOnRename
<1>6. ASSUME NEW p \in Peer,
             \/ \E new \in Peer \cup {Nobody} : G!TransferGroupAdmin(p, new)
             \/ \E n \in Name : G!RenameGroup(p, n)
             \/ G!Leave(p) \/ G!AcceptInvite(p) \/ G!DeclineInvite(p) \/ G!Restart(p)
      PROVE  GroupInv'
  BY <1>2, <1>6, GroupTransfer, GroupRename, GroupLeave, GroupAccept, GroupDecline, GroupRestart
<1> QED BY <1>1, <1>3, <1>4, <1>5, <1>6 DEF G!Next

LEMMA GroupFollows ==
    ASSUME GroupInv, swapped \in BOOLEAN
    PROVE  G!TypeOK /\ G!KeysAgree /\ G!OneAdmin
<1>1. PICK given \in SUBSET (Peer \X (1..keyCount)) :
        Told(group, pending, controls, given) /\ OneKey(given, addedBy)
  BY DEF GroupInv, KeysGiven
<1>2. ASSUME NEW p \in G!In PROVE p \in Peer /\ group[p] \in GroupType /\ Lists(group[p], p, given)
  <2>1. p \in Peer /\ group[p] # Nobody /\ group[p] \in GroupType
    BY InTheGroup
  <2> QED BY <1>1, <2>1 DEF Told, GroupsList
<1>3. G!TypeOK
  <2>1. ASSUME NEW p \in G!In
        PROVE  /\ DOMAIN group[p].keys = G!Members(group[p])
               /\ G!IsInjective(group[p].members)
               /\ p \in G!Members(group[p])
               /\ group[p].admin \in Peer \cup {Nobody} /\ group[p].name \in Name
               /\ \A q \in G!Members(group[p]) : group[p].keys[q] \in 1..keyCount
    <3>1. Lists(group[p], p, given) /\ group[p] \in GroupType
      BY <1>2
    <3>2. group[p].admin \in Peer \cup {Nobody} /\ group[p].name \in Name
      BY <3>1 DEF GroupType
    <3>3. ASSUME NEW q \in G!Members(group[p]) PROVE group[p].keys[q] \in 1..keyCount
      <4>1. <<q, group[p].keys[q]>> \in given
        BY <3>1 DEF Lists, G!Members
      <4> QED BY <1>1, <4>1
    <3> QED BY <3>1, <3>2, <3>3 DEF Lists, G!Members
  <2>2. \A p, q \in Peer : \A i \in DOMAIN controls[p][q] : p # q
    BY <1>1 DEF Told, NetTells, Tells
  <2>3. strayed \cup gone \subseteq Peer /\ headless \in BOOLEAN
    BY DEF GroupInv, GroupTypes
  <2>4. {headless, swapped} \subseteq BOOLEAN
    BY <2>3, Zenon
  <2> QED BY <2>1, <2>2, <2>3, <2>4 DEF G!TypeOK
<1>4. G!KeysAgree
  <2> SUFFICES ASSUME NEW p \in G!In, NEW q \in G!In,
                      NEW m \in G!Members(group[p]) \cap G!Members(group[q]),
                      Len(addedBy[m]) <= 1
               PROVE  group[p].keys[m] = group[q].keys[m]
    BY DEF G!KeysAgree
  <2>1. <<m, group[p].keys[m]>> \in given /\ <<m, group[q].keys[m]>> \in given
    BY <1>2 DEF Lists, G!Members
  <2>2. m \in Peer /\ group[p].keys[m] \in G!Key /\ group[q].keys[m] \in G!Key
    <3>1. keyCount \in Nat
      BY DEF GroupInv, GroupTypes
    <3> QED BY <1>1, <2>1, <3>1 DEF G!Key
  <2> DEFINE times == Len(addedBy[m])
  <2>3. times \in Nat /\ times <= 1
    BY <2>2 DEF GroupInv, GroupTypes
  <2> HIDE DEF times
  <2>5. times = 0 \/ times = 1
    BY <2>3
  <2>4. Len(addedBy[m]) = 0 \/ Len(addedBy[m]) = 1
    BY <2>5 DEF times
  <2> QED BY <1>1, <2>1, <2>2, <2>4 DEF OneKey
<1>5. G!OneAdmin
  <2> SUFFICES ASSUME restarts = 0 PROVE Cardinality({p \in G!In : group[p].admin = p}) <= 1
    BY GroupCount DEF G!OneAdmin
  <2>1. RoleOnce(group, controls)
    BY DEF GroupInv
  <2> DEFINE admins == {p \in G!In : group[p].admin = p}
  <2>2. \A p, q \in admins : p = q
    BY <2>1 DEF G!In, RoleOnce, Acts
  <2> HIDE DEF admins
  <2>3. CASE admins = {}
    <3>1. Cardinality(admins) = 0
      BY <2>3, FS_EmptySet
    <3> QED BY <3>1 DEF admins
  <2>4. CASE admins # {}
    <3>1. PICK p : admins = {p}
      BY <2>2, <2>4
    <3>2. Cardinality(admins) = 1
      BY <3>1, FS_Singleton
    <3> QED BY <3>2 DEF admins
  <2> QED BY <2>3, <2>4
<1> QED BY <1>3, <1>4, <1>5

\* "swapped" is a fact of the past that nothing else depends on.
LEMMA SwappedKept ==
    ASSUME swapped \in BOOLEAN, [G!Next]_(G!vars)
    PROVE  swapped' \in BOOLEAN
<1>1. CASE UNCHANGED G!vars
  BY <1>1 DEF G!vars
<1>2. ASSUME NEW p \in Peer, NEW q \in Peer,
             \/ G!AddGroupMember(p, q) \/ G!KickGroupMember(p, q) \/ G!RemoveMember(p, q)
             \/ \E i \in DOMAIN controls[p][q] : G!Lose(p, q, i)
      PROVE  swapped' \in BOOLEAN
  <2>1. swapped' = swapped
    BY <1>2 DEF G!AddGroupMember, G!KickGroupMember, G!RemoveMember, G!Lose, G!Change
  <2> QED BY <2>1
<1>3. ASSUME NEW p \in Peer, NEW q \in Peer, NEW i, NEW kind, G!Takes(p, q, i, kind)
      PROVE  swapped' \in BOOLEAN
  <2>1. swapped' = (swapped \/ G!Misleads(controls[q][p], i))
    BY <1>3 DEF G!Takes
  <2>2. (swapped \/ G!Misleads(controls[q][p], i)) \in BOOLEAN
    BY Zenon
  <2> QED BY <2>1, <2>2, Zenon
<1>4. ASSUME NEW p \in Peer, NEW q \in Peer, NEW i \in DOMAIN controls[q][p],
             \/ G!OnGroupInvite(p, q, i) \/ G!OnGroupLeave(p, q, i) \/ G!OnGroupMemberAdded(p, q, i)
             \/ G!OnGroupAdminChange(p, q, i) \/ G!OnGroupMemberKicked(p, q, i)
             \/ G!OnGroupRename(p, q, i)
      PROVE  swapped' \in BOOLEAN
  <2>1. \E kind : G!Takes(p, q, i, kind)
    BY <1>4 DEF G!OnGroupInvite, G!OnGroupLeave, G!OnGroupMemberAdded,
         G!OnGroupAdminChange, G!OnGroupMemberKicked, G!OnGroupRename
  <2> QED BY <1>3, <2>1
<1>5. ASSUME NEW p \in Peer,
             \/ \E new \in Peer \cup {Nobody} : G!TransferGroupAdmin(p, new)
             \/ \E n \in Name : G!RenameGroup(p, n)
             \/ G!Leave(p) \/ G!AcceptInvite(p) \/ G!DeclineInvite(p) \/ G!Restart(p)
      PROVE  swapped' \in BOOLEAN
  <2>1. swapped' = swapped
    BY <1>5 DEF G!TransferGroupAdmin, G!RenameGroup, G!Leave, G!AcceptInvite, G!DeclineInvite,
         G!Restart, G!Change
  <2> QED BY <2>1
<1>6. (\E first \in G!SetToAllKPermutations(Peer \ {Creator}) : G!CreateGroup(first)) => swapped' \in BOOLEAN
  <2> SUFFICES ASSUME NEW first, G!CreateGroup(first) PROVE swapped' \in BOOLEAN
    OBVIOUS
  <2>1. swapped' = swapped
    BY DEF G!CreateGroup
  <2> QED BY <2>1
<1> QED BY <1>1, <1>2, <1>4, <1>5, <1>6 DEF G!Next

Flagged == GroupInv /\ swapped \in BOOLEAN

THEOREM GroupLasts == G!Spec => []Flagged
<1>1. G!Init => Flagged
  <2>1. G!Init => swapped \in BOOLEAN
    BY Zenon DEF G!Init
  <2> QED BY <2>1, GroupStart DEF Flagged
<1>2. Flagged /\ [G!Next]_(G!vars) => Flagged'
  BY GroupKept, SwappedKept, GroupConstants DEF Flagged
<1> QED BY <1>1, <1>2, PTL DEF G!Spec

\* GroupManager and the control handlers, for any number of members, changes, losses and
\* restarts in any order: two devices that hold a sender key for a member that was added
\* once hold the same, and until a restart no two devices act as admin.
THEOREM RolesHold == G!Spec => []RolesAgree
<1>1. Flagged => RolesAgree
  BY GroupFollows DEF Flagged, RolesAgree
<1> QED BY <1>1, GroupLasts, PTL

=============================================================================
