------------------------------ MODULE Ratchet -------------------------------
(***************************************************************************)
(* The double ratchet as pure operators.  Keys are symbolic: a Diffie-     *)
(* Hellman key is named by its owner and a number, and a root or chain key *)
(* by the inputs it was derived from, so two keys are equal exactly when   *)
(* they were derived alike.  A ciphertext is named by the chain and the    *)
(* number of its message key; opening it succeeds with that key alone.     *)
(***************************************************************************)
EXTENDS Integers, Sequences

CONSTANTS
    Peers,      \* the two ends of a conversation
    MAX_SKIP    \* most message keys one packet may skip in a chain

Key   == Peers \X Nat          \* number 0 is the signed prekey
Chain == Seq(SUBSET Key)       \* the shared secret, then one input per root step
NoKey   == <<>>
NoChain == <<>>

Skipped == [dh : Key, n : Nat, chain : Chain]

RatchetState ==
    [dhSending : Key, dhReceiving : Key \cup {NoKey}, root : Chain,
     sending : Chain, receiving : Chain,
     ns : Nat, nr : Nat, pn : Nat, skipped : SUBSET Skipped]

Header == [dh : Key, pn : Nat, n : Nat]

secret(h) == <<{h}>>

kdfRootStep(root, k1, k2) == Append(root, {k1, k2})

\* secret: what X3DH agreed on; own: the key pair drawn for the first step.
initSender(shared, own, remote) ==
    LET root == kdfRootStep(shared, own, remote)
    IN  [dhSending |-> own, dhReceiving |-> remote, root |-> root,
         sending |-> root, receiving |-> NoChain,
         ns |-> 0, nr |-> 0, pn |-> 0, skipped |-> {}]

initReceiver(shared, own) ==
    [dhSending |-> own, dhReceiving |-> NoKey, root |-> shared,
     sending |-> NoChain, receiving |-> NoChain,
     ns |-> 0, nr |-> 0, pn |-> 0, skipped |-> {}]

CanEncrypt(s) == s.sending # NoChain

\* The header that goes out, and the state after.
HeaderOf(s)       == [dh |-> s.dhSending, pn |-> s.pn, n |-> s.ns]
\* Mutant: the chain does not advance.
ratchetEncryptAgain(s) == s
ratchetEncrypt(s) == [s EXCEPT !.ns = @ + 1]

\* An earlier number, or a chain not there yet, skips nothing.
skipMessageKeys(s, until) ==
    IF s.receiving = NoChain \/ until <= s.nr THEN s
    ELSE [s EXCEPT !.nr = until,
                   !.skipped = @ \cup {[dh |-> s.dhReceiving, n |-> i, chain |-> s.receiving] :
                                         i \in s.nr .. until - 1}]

TooFar(s, until) == s.receiving # NoChain /\ until - s.nr > MAX_SKIP

\* Mutant: the length of the chain that ends is not announced.
dhRatchetStepOldLength(s, remote, fresh) ==
    LET receiving == kdfRootStep(s.root, s.dhSending, remote)
        sending   == kdfRootStep(receiving, fresh, remote)
    IN  [s EXCEPT !.dhSending = fresh, !.dhReceiving = remote, !.root = sending,
                  !.sending = sending, !.receiving = receiving,
                  !.ns = 0, !.nr = 0]

dhRatchetStep(s, remote, fresh) ==
    LET receiving == kdfRootStep(s.root, s.dhSending, remote)
        sending   == kdfRootStep(receiving, fresh, remote)
    IN  [s EXCEPT !.dhSending = fresh, !.dhReceiving = remote, !.root = sending,
                  !.sending = sending, !.receiving = receiving,
                  !.ns = 0, !.nr = 0, !.pn = s.ns]

InSkipped(s, header) ==
    {k \in s.skipped : k.dh = header.dh /\ k.n = header.n}

\* The remote key changed: leave the old chain, then turn the ratchet.
Turned(s, header, fresh) ==
    IF header.dh = s.dhReceiving THEN s
    ELSE dhRatchetStep(skipMessageKeys(s, header.pn), header.dh, fresh)

Skips(s, header, fresh) ==
    \/ header.dh # s.dhReceiving /\ TooFar(s, header.pn)
    \/ TooFar(Turned(s, header, fresh), header.n)

\* The state whose next receiving key is the one ratchetDecrypt tries.
Positioned(s, header, fresh) ==
    skipMessageKeys(Turned(s, header, fresh), header.n)

\* Does ratchetDecrypt(s, header, ciphertext under chain) return, or throw?
Opens(s, header, chain, fresh) ==
    IF InSkipped(s, header) # {} THEN \E k \in InSkipped(s, header) : k.chain = chain
    ELSE LET t == Positioned(s, header, fresh)
         IN  /\ ~Skips(s, header, fresh)
             /\ t.receiving # NoChain
             /\ t.receiving = chain
             /\ t.nr = header.n

\* The state it returns; a call that throws leaves the caller's state alone.
ratchetDecrypt(s, header, fresh) ==
    IF InSkipped(s, header) # {}
    THEN [s EXCEPT !.skipped = @ \ InSkipped(s, header)]
    ELSE [Positioned(s, header, fresh) EXCEPT !.nr = @ + 1]

=============================================================================
