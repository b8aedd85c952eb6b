------------------------------ MODULE Directory ------------------------------
(***************************************************************************)
(* The prekey directory of a relay, for one namespace: who is found under  *)
(* which identifier, the policy of the namespace, signed transfers, and    *)
(* the rate limit in front of it (node/src/index.ts); and the calls that   *)
(* change it, from the clients that make them (sdk/index.ts,               *)
(* sdk/session-manager.ts).                                                *)
(*                                                                         *)
(* A call is a request on the network, an answer on the network, and what  *)
(* the client does with it; requests of one client overtake each other.    *)
(* The body of a request arrives with its headers.  A relay has one client *)
(* per address.                                                            *)
(***************************************************************************)
EXTENDS Integers, FiniteSets

CONSTANTS
    Identity, Name,
    NoName, NoToken, NoCall,
    RATE_WINDOW, SECOND,      \* in ticks of the clock
    TokenTtl,                 \* expiresInMs, in ticks
    InFlight,                 \* bound: calls at a time
    Scenarios                 \* what to start from, and the bounds of each run

\* RATE_LIMIT_DIR (0: no limit), the clients at work, the identifiers they are
\* registered with (config) and those they ask for (names), and how many calls
\* and tokens they make in what time.
Scenario == [RATE_LIMIT_DIR : Nat, clients : SUBSET Identity,
             config : [Identity -> Name \cup {NoName}], names : SUBSET Name,
             calls : Nat, tokens : Nat, time : Nat]

ASSUME ConstantsAssumption ==
    /\ RATE_WINDOW \in Nat \ {0} /\ SECOND \in Nat \ {0}
    /\ TokenTtl \in Nat /\ InFlight \in Nat
    /\ NoName \notin Name
    /\ Scenarios \subseteq Scenario
    /\ \A s \in Scenarios, i \in Identity : s.config[i] # NoName => i \in s.clients
    /\ \A s \in Scenarios, i, j \in Identity :
         s.config[i] = s.config[j] /\ s.config[i] # NoName => i = j

VARIABLES
    \* the relay
    rows,     \* keys with a row in prekey_bundles
    username, \* column of a row: [Identity -> Name or NoName]
    policy,   \* the row of namespace_policy, if any
    window,   \* rateLimitState: [Identity -> count, windowStart; count 0 if no entry]
    sc,       \* the scenario; its calls and tokens count down
    now,
    \* the clients
    running,
    config,   \* config.username, which the application keeps
    tokens,   \* transfer tokens given away
    call,     \* [1..InFlight -> call]
    \* history
    granted,  \* the identifier a call last gave, as its client was told
    unsure,   \* clients whose identifier may be another: see below
    served,   \* [Identity -> the requests let pass within RATE_WINDOW: <<time, number>>]
    promised  \* [Identity -> when Retry-After said to try again; 0 if it did not]

relay  == <<rows, username, policy, window>>
client == <<running, config, tokens, call>>
hist   == <<granted, unsure, served, promised>>
vars   == <<sc, relay, now, client, hist>>

Token == [from : Identity, to : Identity, name : Name, exp : Nat]

\* post is on its way to the relay (sent), answered, or sent again without
\* the identifier (bare); deaf: nobody waits for the answer.
Call == [who : Identity, kind : {"publish", "set", "accept"}, name : Name \cup {NoName},
         token : Token \cup {NoToken}, st : {"sent", "answered", "bare"},
         status : {0, 200, 403, 409, 429}, deaf : BOOLEAN]

ASSUME NoCallAssumption == NoCall \notin Call

Holders(n) == {i \in rows : username[i] = n}
Calls(i) == {k \in 1..InFlight : call[k] # NoCall /\ call[k].who = i}

-----------------------------------------------------------------------------
(* The rate limit *)

\* !entry || now - entry.windowStart >= RATE_WINDOW_MS
Stale(w) == w.count = 0 \/ now - w.start >= RATE_WINDOW

limited(i) == sc.RATE_LIMIT_DIR # 0 /\ ~Stale(window[i]) /\ window[i].count >= sc.RATE_LIMIT_DIR

\* checkRateLimit
Counted(i) ==
    IF sc.RATE_LIMIT_DIR = 0 THEN window
    ELSE IF Stale(window[i]) THEN [window EXCEPT ![i] = [count |-> 1, start |-> now]]
    ELSE [window EXCEPT ![i].count = @ + 1]

\* Retry-After: Math.max(1, Math.ceil(remainingMs / 1000)) seconds.
RetryAfter(i) ==
    LET seconds == (RATE_WINDOW - (now - window[i].start) + SECOND - 1) \div SECOND
    IN  SECOND * (IF seconds = 0 THEN 1 ELSE seconds)

\* The requests let pass within the last RATE_WINDOW.
recent(i) == {x \in served[i] : now - x[1] < RATE_WINDOW}

\* Mutant of Prunable: entries that end with this tick go too.
PrunableAll(w) == TRUE

\* windowStart < cutoff
Prunable(w) == now - w.start > RATE_WINDOW

\* pruneRateLimitState
pruneRateLimitState ==
    /\ \E i \in Identity : window[i].count # 0 /\ Prunable(window[i])
    /\ window' = [i \in Identity |->
                     IF window[i].count # 0 /\ Prunable(window[i]) THEN [count |-> 0, start |-> 0]
                     ELSE window[i]]
    /\ UNCHANGED <<sc, rows, username, policy, now, client, hist>>

-----------------------------------------------------------------------------
(* Registration *)

\* getNamespaceUsernamePolicy
getNamespaceUsernamePolicy == IF policy = "none" THEN "signed-transfer" ELSE policy

\* Mutant of verifyTransferAuth: the expiry is left to the client.
verifyUnexpiring(n, to, holder, t) == t.from = holder /\ t.name = n /\ t.to = to

\* verifyTransferAuth: the holder signed this name away, to this key, until later.
verifyTransferAuth(n, to, holder, t) ==
    /\ now <= t.exp
    /\ t.from = holder
    /\ t.name = n /\ t.to = to

Others(n, i) == IF n = NoName THEN {} ELSE Holders(n) \ {i}

\* registerPrekeyTx, what it returns ...
RegisterResult(i, n, t) ==
    IF \A h \in Others(n, i) : \/ getNamespaceUsernamePolicy = "last-writer-wins"
                               \/ t # NoToken /\ verifyTransferAuth(n, i, h, t)
    THEN 200
    ELSE IF t = NoToken THEN 409 ELSE 403

\* Mutant of upserted: no COALESCE.
upsertedAlways(old, n) == n

\* COALESCE(excluded.username, username)
upserted(old, n) == IF n = NoName THEN old ELSE n

\* ... and does: the row of the former holder goes, bundle and all.
registerPrekeyTx(i, n, t) ==
    IF RegisterResult(i, n, t) = 200
    THEN /\ rows' = (rows \ Others(n, i)) \cup {i}
         /\ username' = [j \in Identity |->
                            IF j = i THEN upserted(username[i], n)
                            ELSE IF j \in Others(n, i) THEN NoName
                            ELSE username[j]]
    ELSE UNCHANGED <<rows, username>>

\* POST /namespace-policy: INSERT OR IGNORE.
setNamespacePolicy(p) ==
    /\ policy = "none" /\ policy' = p
    /\ UNCHANGED <<sc, rows, username, window, now, client, hist>>

-----------------------------------------------------------------------------
(* The clients *)

\* A call starts.  With another of the same client under way, the two may be
\* served in either order.
Issue(i, kind, n, t) ==
    /\ sc.calls > 0 /\ sc' = [sc EXCEPT !.calls = @ - 1]
    /\ LET free == {k \in 1..InFlight : call[k] = NoCall}
       IN  /\ free # {}
           /\ call' = [call EXCEPT ![CHOOSE k \in free : \A l \in free : k <= l] =
                          [who |-> i, kind |-> kind, name |-> n, token |-> t, st |-> "sent",
                           status |-> 0, deaf |-> FALSE]]
    /\ unsure' = IF Calls(i) # {} THEN unsure \cup {i} ELSE unsure

\* start() publishes, and does not wait for it.
start(i) ==
    /\ i \notin running
    /\ running' = running \cup {i}
    /\ Issue(i, "publish", config[i], NoToken)
    /\ UNCHANGED <<relay, now, config, tokens, granted, served, promised>>

\* The process ends; what it sent is on its way.
Stop(i) ==
    /\ i \in running
    /\ running' = running \ {i}
    /\ call' = [k \in 1..InFlight |-> IF k \in Calls(i) THEN [call[k] EXCEPT !.deaf = TRUE] ELSE call[k]]
    /\ unsure' = IF Calls(i) # {} THEN unsure \cup {i} ELSE unsure
    /\ UNCHANGED <<sc, relay, now, config, tokens, granted, served, promised>>

generateContactQR(i) ==
    /\ i \in running
    /\ Issue(i, "publish", config[i], NoToken)
    /\ UNCHANGED <<relay, now, running, config, tokens, granted, served, promised>>

setIdentifier(i, n) ==
    /\ i \in running
    /\ Issue(i, "set", n, NoToken)
    /\ UNCHANGED <<relay, now, running, config, tokens, granted, served, promised>>

\* createUsernameTransferToken: whether i holds n is not looked at.
createUsernameTransferToken(i, n, to) ==
    /\ i \in running /\ i # to /\ sc.tokens > 0
    /\ sc' = [sc EXCEPT !.tokens = @ - 1]
    /\ tokens' = tokens \cup {[from |-> i, to |-> to, name |-> n, exp |-> now + TokenTtl]}
    /\ UNCHANGED <<relay, now, running, config, call, hist>>

acceptUsernameTransfer(i, t) ==
    /\ i \in running /\ t \in tokens
    /\ t.to = i /\ now <= t.exp
    /\ Issue(i, "accept", t.name, t)
    /\ UNCHANGED <<relay, now, running, config, tokens, granted, served, promised>>

\* POST /directory
Serve(k) ==
    /\ call[k] # NoCall /\ call[k].st \in {"sent", "bare"}
    /\ LET c == call[k]
           i == c.who
           n == IF c.st = "bare" THEN NoName ELSE c.name
           t == IF c.st = "bare" THEN NoToken ELSE c.token
           Answer(status) ==
               IF \/ c.deaf \/ c.st = "bare"
                  \/ c.kind = "publish" /\ status \in {200, 429}
               THEN NoCall   \* nobody looks at it
               ELSE [c EXCEPT !.st = "answered", !.status = status]
       IN  IF limited(i)
           THEN /\ call' = [call EXCEPT ![k] = Answer(429)]
                /\ promised' = [promised EXCEPT ![i] = now + RetryAfter(i)]
                /\ UNCHANGED <<relay, unsure, served>>
           ELSE /\ window' = Counted(i)
                /\ registerPrekeyTx(i, n, t)
                /\ call' = [call EXCEPT ![k] = Answer(RegisterResult(i, n, t))]
                /\ unsure' = IF RegisterResult(i, n, t) = 200 THEN unsure \cup Others(n, i)
                             ELSE unsure
                /\ served' = IF sc.RATE_LIMIT_DIR = 0 THEN served
                             ELSE [served EXCEPT ![i] =
                                      recent(i) \cup {<<now, Cardinality(recent(i)) + 1>>}]
                /\ promised' = [promised EXCEPT ![i] = 0]
                /\ UNCHANGED policy
    /\ UNCHANGED <<sc, now, running, config, tokens, granted>>

\* The rest of publishPreKeyBundle, and of the call that made it: an
\* identifier refused is published without, and the call throws.  Of any other
\* failure setIdentifier takes no notice.
Reply(k) ==
    /\ call[k] # NoCall /\ call[k].st = "answered"
    /\ LET c == call[k]
           i == c.who
           given == \/ c.status = 200 /\ c.kind # "publish"
                    \/ c.status = 429 /\ c.kind = "set"
       IN  /\ call' = [call EXCEPT ![k] = IF c.status \in {403, 409} THEN [c EXCEPT !.st = "bare"]
                                          ELSE NoCall]
           /\ IF given
              THEN /\ config' = [config EXCEPT ![i] = c.name]
                   /\ granted' = [granted EXCEPT ![i] = c.name]
                   /\ unsure' = IF c.status = 429 THEN unsure \cup {i} ELSE unsure
              ELSE UNCHANGED <<config, granted, unsure>>
    /\ UNCHANGED <<sc, relay, now, running, tokens, served, promised>>

\* The network loses a request or an answer: the call throws.
Fail(k) ==
    /\ call[k] # NoCall
    /\ call' = [call EXCEPT ![k] = NoCall]
    /\ unsure' = IF call[k].kind = "publish" \/ call[k].st = "bare" THEN unsure
                 ELSE unsure \cup {call[k].who}
    /\ UNCHANGED <<sc, relay, now, running, config, tokens, granted, served, promised>>

Tick ==
    /\ now < sc.time /\ now' = now + 1
    /\ UNCHANGED <<sc, relay, client, hist>>

-----------------------------------------------------------------------------
\* The clients have published; their identifiers were free.
Init ==
    /\ sc \in Scenarios
    /\ running = sc.clients /\ rows = sc.clients
    /\ config = sc.config /\ username = sc.config /\ granted = sc.config
    /\ policy = "none" /\ window = [i \in Identity |-> [count |-> 0, start |-> 0]]
    /\ now = 0 /\ tokens = {} /\ call = [k \in 1..InFlight |-> NoCall] /\ unsure = {}
    /\ served = [i \in Identity |-> {}] /\ promised = [i \in Identity |-> 0]

Next ==
    \/ \E i \in sc.clients : \/ start(i) \/ Stop(i) \/ generateContactQR(i)
                           \/ \E n \in sc.names : \/ setIdentifier(i, n)
                                              \/ \E j \in Identity : createUsernameTransferToken(i, n, j)
                           \/ \E t \in tokens : acceptUsernameTransfer(i, t)
    \/ \E k \in 1..InFlight : Serve(k) \/ Reply(k) \/ Fail(k)
    \/ \E p \in {"signed-transfer", "last-writer-wins"} : setNamespacePolicy(p)
    \/ pruneRateLimitState \/ Tick

Spec == Init /\ [][Next]_vars

-----------------------------------------------------------------------------
(* Properties *)

\* Every variable has its type.
TypeOK ==
    /\ sc \in Scenario
    /\ rows \subseteq Identity /\ username \in [Identity -> Name \cup {NoName}]
    /\ policy \in {"none", "signed-transfer", "last-writer-wins"}
    /\ window \in [Identity -> [count : 0..sc.RATE_LIMIT_DIR, start : Nat]]
    /\ now \in Nat
    /\ running \subseteq Identity /\ config \in [Identity -> Name \cup {NoName}]
    /\ tokens \subseteq Token
    /\ call \in [1..InFlight -> Call \cup {NoCall}]
    /\ granted \in [Identity -> Name \cup {NoName}] /\ unsure \subseteq Identity
    /\ served \in [Identity -> SUBSET (Nat \X Nat)] /\ promised \in [Identity -> Nat]

\* "UNIQUE INDEX ON prekey_bundles (namespace, username)": a registration
\* never runs into it.
NamesUnique == \A i, j \in rows : username[i] = username[j] /\ username[i] # NoName => i = j

\* An identifier a client was given is the one it is found under, whatever it
\* republishes, whoever else wants it, and however often it restarts: unless
\* another took it by the policy or a transfer, two calls of the client were
\* under way at once, one was cut short, or setIdentifier met the rate limit.
GrantedIsHeld ==
    \A i \in Identity \ unsure :
        granted[i] # NoName /\ Calls(i) = {} => i \in rows /\ username[i] = granted[i]

\* Identifiers are unique, and stay with whom they were given to.
NamesHeld == TypeOK /\ NamesUnique /\ GrantedIsHeld

\* "A different key cannot take it over": where the policy is not last writer
\* wins, an identifier passes from one to another only to whom its holder
\* signed it away, before the token expired.
TakenByConsent ==
    [][\A n \in Name : \A i \in Holders(n), j \in rows' :
         i # j /\ username'[j] = n
         => \/ policy = "last-writer-wins"
            \/ \E t \in tokens : t.from = i /\ t.to = j /\ t.name = n /\ now <= t.exp]_vars

\* The window is fixed, not sliding: no more than twice the limit passes within
\* any RATE_WINDOW_MS, prunes included.
BurstBounded ==
    sc.RATE_LIMIT_DIR # 0 => \A i \in Identity :
        Cardinality(recent(i)) <= 2 * sc.RATE_LIMIT_DIR

\* Who waits as long as Retry-After said, and asks nothing in between, is served.
RetryAfterTrue ==
    \A i \in Identity : promised[i] # 0 /\ now >= promised[i] => ~limited(i)

\* What the limiter lets through and what it promises.
LimitSound == BurstBounded /\ RetryAfterTrue

\* Names are unique and held by whom they were granted to, and the rate limiter
\* lets through at most two bursts and tells the truth of when to retry.
DirectorySound == NamesHeld /\ LimitSound

=============================================================================
