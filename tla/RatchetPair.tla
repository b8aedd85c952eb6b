---------------------------- MODULE RatchetPair -----------------------------
(***************************************************************************)
(* The two ratchets that one X3DH handshake sets up, and the packets       *)
(* between them, which arrive in any order, late, or never, and some a     *)
(* second time.  Storage follows a session without being awaited, so a     *)
(* device that crashes may come back with an older state.                  *)
(***************************************************************************)
EXTENDS Ratchet, FiniteSets

CONSTANTS
    MaxSends,        \* bound: ratchet packets of a behaviour
    MaxCopies,       \* bound: packets delivered twice
    MaxCrashes       \* bound: crashes

ASSUME ConstantsAssumption ==
    /\ \E a, b \in Peers : a # b /\ Peers = {a, b}
    /\ {MAX_SKIP, MaxSends, MaxCopies, MaxCrashes} \subseteq Nat

VARIABLES
    session,     \* sessions, in memory
    stored,      \* sessions/ in storage
    drawn,       \* how many key pairs each device drew
    net,         \* packets that may still arrive
    sends, copies, crashes,
    sent,        \* history: the ratchet packets ever sent
    read,        \* history: those decrypted
    spoiled      \* history: was a session reset, by a crash or a second x3dh_init?

counts  == <<sends, copies, crashes>>
history == <<sent, read, spoiled>>
vars    == <<session, stored, drawn, net, counts, history>>

Other(p) == CHOOSE q \in Peers : q # p
SPK(p)   == <<p, 0>>
Fresh(p) == <<p, drawn[p] + 1>>

NoSession == [root |-> NoChain]
Has(p)    == session[p] # NoSession

Handshake == [type : {"x3dh_init"}, from : Peers, h : Key]
Data      == [type : {"data"}, from : Peers, header : Header, chain : Chain, id : Nat]

TypeOK ==
    /\ session \in [Peers -> RatchetState \cup {NoSession}]
    /\ stored \in [Peers -> RatchetState \cup {NoSession}]
    /\ drawn \in [Peers -> Nat]
    /\ net \subseteq Handshake \cup Data
    /\ {sends, copies, crashes} \subseteq Nat
    /\ sent \subseteq Data
    /\ read \subseteq sent
    /\ spoiled \in BOOLEAN

\* One peer has initiated: its session is set and its x3dh_init on the way.
Init ==
    /\ \E p \in Peers :
         LET h == <<p, 1>>
         IN  /\ session = [q \in Peers |-> IF q = p THEN initSender(secret(h), h, SPK(Other(p)))
                                           ELSE NoSession]
             /\ drawn = [q \in Peers |-> IF q = p THEN 1 ELSE 0]
             /\ net = {[type |-> "x3dh_init", from |-> p, h |-> h]}
    /\ stored = session
    /\ sends = 0 /\ copies = 0 /\ crashes = 0
    /\ sent = {} /\ read = {} /\ spoiled = FALSE

\* A packet is taken off the net, or comes once more later.
Arrive(m) ==
    /\ m \in net
    /\ \/ net' = net \ {m} /\ UNCHANGED copies
       \/ copies < MaxCopies /\ copies' = copies + 1 /\ UNCHANGED net

\* The receiver session replaces whatever is there.
completeIncomingHandshake(q, m) ==
    /\ m.type = "x3dh_init" /\ m.from # q
    /\ Arrive(m)
    /\ session' = [session EXCEPT ![q] = initReceiver(secret(m.h), SPK(q))]
    /\ spoiled' = (spoiled \/ Has(q))
    /\ UNCHANGED <<stored, drawn, sends, crashes, sent, read>>

\* The critical section of sendMessageToDevice: read, encrypt, write.
Send(p) ==
    /\ Has(p) /\ CanEncrypt(session[p])
    /\ sends < MaxSends
    /\ LET m == [type |-> "data", from |-> p, header |-> HeaderOf(session[p]),
                 chain |-> session[p].sending, id |-> sends]
       IN  net' = net \cup {m} /\ sent' = sent \cup {m}
    /\ session' = [session EXCEPT ![p] = ratchetEncrypt(@)]
    /\ sends' = sends + 1
    /\ UNCHANGED <<stored, drawn, copies, crashes, read, spoiled>>

Readable(q, m) ==
    Has(q) /\ Opens(session[q], m.header, m.chain, Fresh(q))

handleDataPacket(q, m) ==
    LET s == ratchetDecrypt(session[q], m.header, Fresh(q))
    IN  /\ m.type = "data" /\ m.from # q
        /\ Readable(q, m)
        /\ Arrive(m)
        /\ session' = [session EXCEPT ![q] = s]
        /\ drawn' = [drawn EXCEPT ![q] = IF s.dhSending = Fresh(q) THEN @ + 1 ELSE @]
        /\ read' = read \cup {m}
        /\ UNCHANGED <<stored, sends, crashes, sent, spoiled>>

\* ratchetDecrypt throws: the packet is gone, the session as it was.
Undecryptable(q, m) ==
    /\ m.type = "data" /\ m.from # q
    /\ ~Readable(q, m)
    /\ Arrive(m)
    /\ UNCHANGED <<session, stored, drawn, sends, crashes, history>>

\* The write that setSession does not wait for.
Persist(p) ==
    /\ crashes < MaxCrashes            \* bound: only a crash reads it
    /\ stored[p] # session[p]
    /\ stored' = [stored EXCEPT ![p] = session[p]]
    /\ UNCHANGED <<session, drawn, net, counts, history>>

Crash(p) ==
    /\ crashes < MaxCrashes
    /\ crashes' = crashes + 1
    /\ session' = [session EXCEPT ![p] = stored[p]]
    /\ spoiled' = (spoiled \/ stored[p] # session[p])
    /\ UNCHANGED <<stored, drawn, net, sends, copies, sent, read>>

Next ==
    \E p \in Peers :
      \/ Send(p) \/ Persist(p) \/ Crash(p)
      \/ \E m \in net : \/ completeIncomingHandshake(p, m)
                        \/ handleDataPacket(p, m)
                        \/ Undecryptable(p, m)

Spec == Init /\ [][Next]_vars

-----------------------------------------------------------------------------
(* Properties.  A session that was reset is exempt: see the README. *)

\* Whatever the order packets arrive in, the receiver can open each of them
\* that it has not read yet, unless the packet lies more than MAX_SKIP ahead:
\* no reordering makes ratchetDecrypt lose a message.
InFlightReadable ==
    \A m \in net \ read, q \in Peers :
        (m.type = "data" /\ m.from # q /\ Has(q) /\ ~spoiled)
        => Readable(q, m) \/ Skips(session[q], m.header, Fresh(q))

\* ratchetEncrypt never uses a message key for two packets: with the nonce
\* derived from the key, one key for two plaintexts gives both away.
KeyUsedOnce ==
    ~spoiled => \A m1, m2 \in sent :
                   (m1.chain = m2.chain /\ m1.header.n = m2.header.n) => m1 = m2

\* Forward secrecy at the receiver: once a packet is read, its session can no
\* longer derive the key.
ReadKeysGone ==
    ~spoiled => \A m \in read, q \in Peers : m.from # q => ~Readable(q, m)

\* A packet can be read until it is, and never after.
ReadableOnce == InFlightReadable /\ ReadKeysGone

=============================================================================
