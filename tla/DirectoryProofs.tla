--------------------------- MODULE DirectoryProofs ---------------------------
(***************************************************************************)
(* Identifiers are unique, pass from one client to another only by consent *)
(* of their holder or by the policy, and stay with whom they were given;   *)
(* and the rate limiter keeps its word: for any number of clients, names,  *)
(* calls and tokens, and for every limit and window.  Deletes, re-adds and *)
(* pulls of an archive stand: for any number of devices, peers and calls,  *)
(* and whatever their clocks say.                                          *)
(***************************************************************************)
EXTENDS HomeAccount, FiniteSetTheorems, WellFoundedInduction, TLAPS

\* What a registration reads has its type, and a call carries a token that was
\* signed.
Typed ==
    /\ sc \in Scenario
    /\ username \in [Identity -> Name \cup {NoName}]
    /\ config \in [Identity -> Name \cup {NoName}]
    /\ now \in Nat
    /\ tokens \subseteq Token
    /\ call \in [1..InFlight -> Call \cup {NoCall}]
    /\ \A k \in 1..InFlight : call[k] # NoCall =>
          call[k].who \in sc.clients /\ call[k].token \in tokens \cup {NoToken}

\* Who publishes without an identifier brings none back.
Unnamed ==
    /\ rows \subseteq sc.clients
    /\ \A i \in sc.clients \ rows : username[i] = NoName

NamesInv == Typed /\ Unnamed /\ NamesUnique

\* A name of another does not stand in the way of a registration: what it leaves
\* is unique again.
LEMMA RegistrationKeeps ==
    ASSUME NamesInv,
           NEW i \in sc.clients, NEW n \in Name \cup {NoName}, NEW t,
           registerPrekeyTx(i, n, t), sc' = sc
    PROVE  /\ username' \in [Identity -> Name \cup {NoName}]
           /\ Unnamed' /\ NamesUnique'
<1>1. i \in Identity
  BY DEF NamesInv, Typed, Scenario
<1>2. CASE RegisterResult(i, n, t) # 200
  <2>1. UNCHANGED <<rows, username>>
    BY <1>2 DEF registerPrekeyTx
  <2> QED  BY <2>1 DEF NamesInv, Typed, Unnamed, NamesUnique
<1>3. CASE RegisterResult(i, n, t) = 200
  <2>1. /\ rows' = (rows \ Others(n, i)) \cup {i}
        /\ username' = [j \in Identity |->
                            IF j = i THEN upserted(username[i], n)
                            ELSE IF j \in Others(n, i) THEN NoName
                            ELSE username[j]]
    BY <1>3 DEF registerPrekeyTx
  <2>2. username \in [Identity -> Name \cup {NoName}]
    BY DEF NamesInv, Typed
  <2>3. upserted(username[i], n) \in Name \cup {NoName}
    BY <1>1, <2>2 DEF upserted
  <2>4. username' \in [Identity -> Name \cup {NoName}]
    BY <2>1, <2>2, <2>3
  <2>5. sc.clients \subseteq Identity
    BY DEF NamesInv, Typed, Scenario
  <2>6. Unnamed'
    <3>1. rows' \subseteq sc.clients
      BY <2>1 DEF NamesInv, Unnamed
    <3>2. ASSUME NEW j \in sc.clients, j \notin rows'
          PROVE  username'[j] = NoName
      <4>1. j # i /\ (j \in Others(n, i) \/ j \notin rows)
        BY <3>2, <2>1
      <4>2. username'[j] = IF j \in Others(n, i) THEN NoName ELSE username[j]
        BY <4>1, <2>1, <2>5
      <4> QED  BY <4>1, <4>2 DEF NamesInv, Unnamed
    <3> QED  BY <3>1, <3>2 DEF Unnamed
  <2>7. NamesUnique'
    <3>1. SUFFICES ASSUME NEW a \in rows', NEW b \in rows', a # b,
                          username'[a] = username'[b], username'[a] # NoName
                   PROVE  FALSE
      BY DEF NamesUnique
    <3>2. a \in Identity /\ b \in Identity
      BY <2>1, <1>1, <2>5 DEF NamesInv, Unnamed
    <3>3. ASSUME NEW x \in rows', x # i
          PROVE  x \in rows /\ x \notin Others(n, i) /\ username'[x] = username[x]
      BY <3>3, <2>1, <2>5 DEF NamesInv, Unnamed
    <3>4. username'[i] = upserted(username[i], n)
      BY <2>1, <1>1
    <3>5. ASSUME NEW x \in rows', x # i, username'[x] = username'[i], username'[i] # NoName
          PROVE  FALSE
      <4>1. x \in rows /\ x \notin Others(n, i) /\ username'[x] = username[x]
        BY <3>3, <3>5
      <4>2. CASE n = NoName
        <5>1. username'[i] = username[i]
          BY <3>4, <4>2 DEF upserted
        <5>2. i \in rows
          BY <5>1, <3>5 DEF NamesInv, Unnamed
        <5> QED  BY <5>1, <5>2, <4>1, <3>5 DEF NamesInv, NamesUnique
      <4>3. CASE n # NoName
        <5>1. username'[i] = n
          BY <3>4, <4>3 DEF upserted
        <5>2. x \in Others(n, i)
          BY <5>1, <4>1, <4>3, <3>5 DEF Others, Holders
        <5> QED  BY <5>2, <4>1
      <4> QED  BY <4>2, <4>3
    <3>6. CASE a = i
      BY <3>6, <3>1, <3>5
    <3>7. CASE b = i
      BY <3>7, <3>1, <3>5
    <3>8. CASE a # i /\ b # i
      BY <3>8, <3>1, <3>3 DEF NamesInv, NamesUnique
    <3> QED  BY <3>6, <3>7, <3>8
  <2> QED  BY <2>4, <2>6, <2>7
<1> QED  BY <1>2, <1>3

\* A registration that takes a name from its holder was let through by the policy
\* or by a token of the holder.
LEMMA RegistrationConsents ==
    ASSUME NamesInv,
           NEW i \in sc.clients, NEW n \in Name \cup {NoName}, NEW t \in tokens \cup {NoToken},
           registerPrekeyTx(i, n, t),
           NEW m \in Name, NEW a \in Identity, NEW b \in Identity, a # b,
           a \in Holders(m), b \in rows', username'[b] = m
    PROVE  \/ policy = "last-writer-wins"
           \/ \E x \in tokens : x.from = a /\ x.to = b /\ x.name = m /\ now <= x.exp
<1>1. m # NoName
  BY ConstantsAssumption
<1>2. a \in rows /\ username[a] = m
  BY DEF Holders
<1>3. ~(b \in rows /\ username[b] = m)
  BY <1>1, <1>2 DEF NamesInv, NamesUnique
<1>4. RegisterResult(i, n, t) = 200
  BY <1>3 DEF registerPrekeyTx
<1>5. /\ rows' = (rows \ Others(n, i)) \cup {i}
      /\ username' = [j \in Identity |->
                            IF j = i THEN upserted(username[i], n)
                            ELSE IF j \in Others(n, i) THEN NoName
                            ELSE username[j]]
  BY <1>4 DEF registerPrekeyTx
<1>6. b = i
  <2>1. SUFFICES ASSUME b # i PROVE FALSE
    OBVIOUS
  <2>2. b \in rows /\ b \notin Others(n, i)
    BY <2>1, <1>5
  <2>3. username'[b] = username[b]
    BY <2>1, <2>2, <1>5
  <2> QED  BY <2>2, <2>3, <1>3
<1>7. username'[b] = upserted(username[b], n)
  BY <1>5, <1>6
<1>8. n = m
  <2>1. SUFFICES ASSUME n = NoName PROVE FALSE
    BY <1>7 DEF upserted
  <2>2. username[b] = m
    BY <2>1, <1>7 DEF upserted
  <2>3. b \in rows
    BY <2>2, <1>1, <1>6 DEF NamesInv, Unnamed
  <2> QED  BY <2>2, <2>3, <1>3
<1>9. a \in Others(n, i)
  BY <1>1, <1>2, <1>6, <1>8 DEF Others, Holders
<1>10. \/ getNamespaceUsernamePolicy = "last-writer-wins"
       \/ t # NoToken /\ verifyTransferAuth(n, i, a, t)
  BY <1>4, <1>9 DEF RegisterResult
<1>11. CASE getNamespaceUsernamePolicy = "last-writer-wins"
  BY <1>11 DEF getNamespaceUsernamePolicy
<1>12. CASE t # NoToken /\ verifyTransferAuth(n, i, a, t)
  BY <1>12, <1>6, <1>8 DEF verifyTransferAuth
<1> QED  BY <1>10, <1>11, <1>12

\* A call that starts is one of a client, with a token that was signed.
LEMMA IssueKeeps ==
    ASSUME Typed, NEW i \in sc.clients, NEW kind \in {"publish", "set", "accept"},
           NEW n \in Name \cup {NoName}, NEW t \in tokens \cup {NoToken},
           Issue(i, kind, n, t), UNCHANGED <<username, config, now, tokens>>
    PROVE  Typed' /\ sc'.clients = sc.clients
<1> DEFINE free == {k \in 1..InFlight : call[k] = NoCall}
           first == CHOOSE k \in free : \A l \in free : k <= l
           new == [who |-> i, kind |-> kind, name |-> n, token |-> t, st |-> "sent",
                   status |-> 0, deaf |-> FALSE]
<1>1. sc' \in Scenario /\ sc'.clients = sc.clients
  <2>1. sc \in Scenario /\ sc.calls > 0 /\ sc' = [sc EXCEPT !.calls = @ - 1]
    BY DEF Typed, Issue
  <2>2. sc.calls - 1 \in Nat
    BY <2>1 DEF Scenario
  <2> QED  BY <2>1, <2>2 DEF Scenario
<1>2. i \in Identity /\ t \in Token \cup {NoToken}
  BY DEF Typed, Scenario
<1>3. new \in Call /\ new.who = i /\ new.token = t
  BY <1>2 DEF Call
<1>4. call' = [call EXCEPT ![first] = new]
  BY DEF Issue
<1>5. call \in [1..InFlight -> Call \cup {NoCall}]
  BY DEF Typed
<1> HIDE DEF first, new
<1>6. \A k \in 1..InFlight : call'[k] = call[k] \/ call'[k] = new
  BY <1>4, <1>5
<1>7. call' \in [1..InFlight -> Call \cup {NoCall}]
  BY <1>3, <1>4, <1>5
<1>8. ASSUME NEW k \in 1..InFlight, call'[k] # NoCall
      PROVE  call'[k].who \in sc'.clients /\ call'[k].token \in tokens' \cup {NoToken}
  <2>1. CASE call'[k] = new
    BY <2>1, <1>1, <1>3
  <2>2. CASE call'[k] = call[k]
    BY <2>2, <1>1, <1>8 DEF Typed
  <2> QED  BY <2>1, <2>2, <1>6
<1> QED  BY <1>1, <1>7, <1>8 DEF Typed

\* A call once the relay has answered it.
Answered(c, status) == [c EXCEPT !.st = "answered", !.status = status]

\* An answer changes neither the client of a call nor its token.
LEMMA CallAnswered ==
    ASSUME NEW c \in Call, NEW status \in {0, 200, 403, 409, 429}
    PROVE  /\ Answered(c, status) \in Call
           /\ Answered(c, status).who = c.who /\ Answered(c, status).token = c.token
<1>1. c = [who |-> c.who, kind |-> c.kind, name |-> c.name, token |-> c.token,
           st |-> c.st, status |-> c.status, deaf |-> c.deaf]
  BY DEF Call
<1>2. ASSUME NEW d, d = [c EXCEPT !.st = "answered", !.status = status]
      PROVE  d = [who |-> c.who, kind |-> c.kind, name |-> c.name, token |-> c.token,
                  st |-> "answered", status |-> status, deaf |-> c.deaf]
  BY <1>1, <1>2
<1>3. ASSUME NEW d, d = [c EXCEPT !.st = "answered", !.status = status]
      PROVE  d \in Call /\ d.who = c.who /\ d.token = c.token
  BY <1>2, <1>3 DEF Call
<1> QED  BY <1>3 DEF Answered

\* Nor does the end of the process that made it.
LEMMA CallDeafened ==
    ASSUME NEW c \in Call, NEW d, d = [c EXCEPT !.deaf = TRUE]
    PROVE  d \in Call /\ d.who = c.who /\ d.token = c.token
<1>1. c = [who |-> c.who, kind |-> c.kind, name |-> c.name, token |-> c.token,
           st |-> c.st, status |-> c.status, deaf |-> c.deaf]
  BY DEF Call
<1>2. d = [who |-> c.who, kind |-> c.kind, name |-> c.name, token |-> c.token,
           st |-> c.st, status |-> c.status, deaf |-> TRUE]
  BY <1>1
<1>3. \A f \in BOOLEAN : [who |-> c.who, kind |-> c.kind, name |-> c.name, token |-> c.token,
                          st |-> c.st, status |-> c.status, deaf |-> f] \in Call
  BY DEF Call
<1>4. TRUE \in BOOLEAN
  OBVIOUS
<1>5. d \in Call
  BY <1>2, <1>3, <1>4, Zenon
<1> QED  BY <1>2, <1>5

\* What becomes of one call leaves the others alone.
LEMMA CallsKeep ==
    ASSUME Typed, UNCHANGED <<sc, username, now, tokens>>,
           config' \in [Identity -> Name \cup {NoName}],
           call' \in [1..InFlight -> Call \cup {NoCall}],
           \A k \in 1..InFlight : call'[k] # NoCall =>
               call[k] # NoCall /\ call'[k].who = call[k].who /\ call'[k].token = call[k].token
    PROVE  Typed'
BY DEF Typed

-----------------------------------------------------------------------------
(* The invariant *)

\* Clients that start with identifiers of their own are told apart.
LEMMA InitNames == Init => NamesInv
<1> SUFFICES ASSUME Init PROVE NamesInv
  OBVIOUS
<1>1. sc \in Scenario /\ sc \in Scenarios
  BY ConstantsAssumption DEF Init
<1>2. username = sc.config /\ config = sc.config /\ rows = sc.clients
  BY DEF Init
<1>3. sc.config \in [Identity -> Name \cup {NoName}] /\ sc.clients \subseteq Identity
  BY <1>1 DEF Scenario
<1>4. Typed
  BY <1>1, <1>2, <1>3 DEF Typed, Init
<1>5. Unnamed
  BY <1>2 DEF Unnamed
<1>6. NamesUnique
  BY <1>1, <1>2, <1>3, ConstantsAssumption DEF NamesUnique
<1> QED  BY <1>4, <1>5, <1>6 DEF NamesInv

\* Only a registration touches the table.
LEMMA TableKeeps ==
    ASSUME NamesInv, Typed', sc'.clients = sc.clients, UNCHANGED <<rows, username>>
    PROVE  NamesInv'
BY DEF NamesInv, Unnamed, NamesUnique

\* POST /directory keeps the invariant, and touches the table only to register
\* the client that asks.
LEMMA ServeKeeps ==
    ASSUME NamesInv, NEW k \in 1..InFlight, Serve(k)
    PROVE  /\ NamesInv'
           /\ \/ UNCHANGED <<rows, username>>
              \/ \E i \in sc.clients, n \in Name \cup {NoName}, t \in tokens \cup {NoToken} :
                    registerPrekeyTx(i, n, t)
<1> DEFINE c == call[k]
           i == c.who
           n == IF c.st = "bare" THEN NoName ELSE c.name
           t == IF c.st = "bare" THEN NoToken ELSE c.token
<1>1. c # NoCall /\ UNCHANGED <<sc, now, config, tokens>>
  BY DEF Serve
<1>2. call \in [1..InFlight -> Call \cup {NoCall}] /\ c \in Call
  BY <1>1 DEF NamesInv, Typed
<1>3. i \in sc.clients /\ n \in Name \cup {NoName} /\ t \in tokens \cup {NoToken}
  BY <1>1, <1>2 DEF NamesInv, Typed, Call
<1>4. UNCHANGED <<rows, username>> \/ registerPrekeyTx(i, n, t)
  BY DEF Serve, relay
<1>5. \E status \in {0, 200, 403, 409, 429} :
          call' = [call EXCEPT ![k] = NoCall] \/ call' = [call EXCEPT ![k] = Answered(c, status)]
  <2>1. CASE limited(i)
    <3>1. call' = [call EXCEPT ![k] = NoCall] \/ call' = [call EXCEPT ![k] = Answered(c, 429)]
      BY <2>1 DEF Serve, Answered
    <3> QED  BY <3>1
  <2>2. CASE ~limited(i)
    <3> DEFINE r == RegisterResult(i, n, t)
    <3>1. call' = [call EXCEPT ![k] = NoCall] \/ call' = [call EXCEPT ![k] = Answered(c, r)]
      BY <2>2 DEF Serve, Answered
    <3>2. r \in {0, 200, 403, 409, 429}
      BY DEF RegisterResult
    <3> HIDE DEF r
    <3> QED  BY <3>1, <3>2
  <2> QED  BY <2>1, <2>2
<1>6. /\ call' \in [1..InFlight -> Call \cup {NoCall}]
      /\ \A l \in 1..InFlight : call'[l] # NoCall =>
            call[l] # NoCall /\ call'[l].who = call[l].who /\ call'[l].token = call[l].token
  <2>1. CASE call' = [call EXCEPT ![k] = NoCall]
    BY <2>1, <1>2
  <2>2. ASSUME NEW d, d \in Call, d.who = c.who, d.token = c.token,
               call' = [call EXCEPT ![k] = d]
        PROVE  /\ call' \in [1..InFlight -> Call \cup {NoCall}]
               /\ \A l \in 1..InFlight : call'[l] # NoCall =>
                     /\ call[l] # NoCall
                     /\ call'[l].who = call[l].who /\ call'[l].token = call[l].token
    BY <2>2, <1>1, <1>2
  <2>3. ASSUME NEW status \in {0, 200, 403, 409, 429},
               call' = [call EXCEPT ![k] = Answered(c, status)]
        PROVE  \E d \in Call : /\ d.who = c.who /\ d.token = c.token
                               /\ call' = [call EXCEPT ![k] = d]
    <3> HIDE DEF c
    <3>1. c \in Call
      BY <1>2
    <3>2. /\ Answered(c, status) \in Call
          /\ Answered(c, status).who = c.who /\ Answered(c, status).token = c.token
      BY <3>1, CallAnswered
    <3> QED  BY <3>2, <2>3, Zenon
  <2> QED  BY <2>1, <2>2, <2>3, <1>5
<1>7. CASE UNCHANGED <<rows, username>>
  <2>1. Typed'
    BY <1>7, <1>1, <1>6, CallsKeep DEF NamesInv, Typed
  <2> QED  BY <1>7, <2>1, <1>1, TableKeeps
<1>8. CASE registerPrekeyTx(i, n, t)
  <2> HIDE DEF i, n, t
  <2>1. /\ username' \in [Identity -> Name \cup {NoName}]
        /\ Unnamed' /\ NamesUnique'
    BY <1>8, <1>1, <1>3, RegistrationKeeps
  <2>2. Typed'
    BY <2>1, <1>1, <1>6 DEF NamesInv, Typed
  <2> QED  BY <1>8, <2>1, <2>2, <1>3 DEF NamesInv
<1> QED  BY <1>4, <1>7, <1>8

\* A step keeps the invariant, and touches the table only to register somebody.
LEMMA StepKeeps ==
    ASSUME NamesInv, [Next]_vars
    PROVE  /\ NamesInv'
           /\ \/ UNCHANGED <<rows, username>>
              \/ \E i \in sc.clients, n \in Name \cup {NoName}, t \in tokens \cup {NoToken} :
                    registerPrekeyTx(i, n, t)
<1>1. Typed
  BY DEF NamesInv
<1>2. /\ sc \in Scenario /\ sc.clients \subseteq Identity /\ sc.names \subseteq Name
      /\ call \in [1..InFlight -> Call \cup {NoCall}]
      /\ config \in [Identity -> Name \cup {NoName}]
  BY <1>1 DEF Typed, Scenario
<1>3. ASSUME NEW i \in sc.clients, start(i) \/ generateContactQR(i)
      PROVE  NamesInv' /\ UNCHANGED <<rows, username>>
  <2>1. Issue(i, "publish", config[i], NoToken) /\ UNCHANGED <<rows, username, config, now, tokens>>
    BY <1>3 DEF start, generateContactQR, relay
  <2>2. config[i] \in Name \cup {NoName}
    BY <1>2
  <2>3. Typed' /\ sc'.clients = sc.clients
    BY <1>1, <2>1, <2>2, IssueKeeps
  <2> QED  BY <2>1, <2>3, TableKeeps
<1>4. ASSUME NEW i \in sc.clients, Stop(i)
      PROVE  NamesInv' /\ UNCHANGED <<rows, username>>
  <2>1. /\ call' = [k \in 1..InFlight |->
                       IF k \in Calls(i) THEN [call[k] EXCEPT !.deaf = TRUE] ELSE call[k]]
        /\ UNCHANGED <<sc, rows, username, config, now, tokens>>
    BY <1>4 DEF Stop, relay
  <2>2. ASSUME NEW k \in 1..InFlight
        PROVE  /\ call'[k] \in Call \cup {NoCall}
               /\ call'[k] # NoCall => /\ call[k] # NoCall /\ call'[k].who = call[k].who
                                       /\ call'[k].token = call[k].token
    <3>1. CASE k \in Calls(i)
      <4>1. call[k] \in Call /\ call[k] # NoCall
        BY <3>1, <1>2 DEF Calls
      <4>2. call'[k] = [call[k] EXCEPT !.deaf = TRUE]
        BY <3>1, <2>1
      <4>3. call'[k] \in Call /\ call'[k].who = call[k].who /\ call'[k].token = call[k].token
        BY <4>1, <4>2, CallDeafened
      <4> QED  BY <4>1, <4>3
    <3>2. CASE k \notin Calls(i)
      BY <3>2, <2>1, <1>2
    <3> QED  BY <3>1, <3>2
  <2>3. call' \in [1..InFlight -> Call \cup {NoCall}]
    BY <2>1, <2>2
  <2>4. Typed'
    BY <1>1, <1>2, <2>1, <2>2, <2>3, CallsKeep
  <2> QED  BY <2>1, <2>4, TableKeeps
<1>5. ASSUME NEW i \in sc.clients, NEW n \in sc.names, setIdentifier(i, n)
      PROVE  NamesInv' /\ UNCHANGED <<rows, username>>
  <2>1. Issue(i, "set", n, NoToken) /\ UNCHANGED <<rows, username, config, now, tokens>>
    BY <1>5 DEF setIdentifier, relay
  <2>2. Typed' /\ sc'.clients = sc.clients
    BY <1>1, <1>2, <2>1, IssueKeeps
  <2> QED  BY <2>1, <2>2, TableKeeps
<1>6. ASSUME NEW i \in sc.clients, NEW n \in sc.names, NEW j \in Identity,
             createUsernameTransferToken(i, n, j)
      PROVE  NamesInv' /\ UNCHANGED <<rows, username>>
  <2>1. /\ sc.tokens > 0 /\ sc' = [sc EXCEPT !.tokens = @ - 1]
        /\ tokens' = tokens \cup {[from |-> i, to |-> j, name |-> n, exp |-> now + TokenTtl]}
        /\ UNCHANGED <<rows, username, config, now, call>>
    BY <1>6 DEF createUsernameTransferToken, relay
  <2>2. sc' \in Scenario /\ sc'.clients = sc.clients
    <3>1. sc.tokens - 1 \in Nat
      BY <1>2, <2>1 DEF Scenario
    <3> QED  BY <1>2, <2>1, <3>1 DEF Scenario
  <2>3. tokens' \subseteq Token
    <3>1. now + TokenTtl \in Nat
      BY <1>1, ConstantsAssumption DEF Typed
    <3> QED  BY <1>1, <1>2, <2>1, <3>1 DEF Typed, Token
  <2>4. Typed'
    BY <1>1, <2>1, <2>2, <2>3 DEF Typed
  <2> QED  BY <2>1, <2>2, <2>4, TableKeeps
<1>7. ASSUME NEW i \in sc.clients, NEW t \in tokens, acceptUsernameTransfer(i, t)
      PROVE  NamesInv' /\ UNCHANGED <<rows, username>>
  <2>1. Issue(i, "accept", t.name, t) /\ UNCHANGED <<rows, username, config, now, tokens>>
    BY <1>7 DEF acceptUsernameTransfer, relay
  <2>2. t.name \in Name \cup {NoName}
    BY <1>1 DEF Typed, Token
  <2>3. Typed' /\ sc'.clients = sc.clients
    BY <1>1, <2>1, <2>2, IssueKeeps
  <2> QED  BY <2>1, <2>3, TableKeeps
<1>8. ASSUME NEW k \in 1..InFlight, Reply(k)
      PROVE  NamesInv' /\ UNCHANGED <<rows, username>>
  <2> DEFINE c == call[k]
             next == IF c.status \in {403, 409} THEN [c EXCEPT !.st = "bare"] ELSE NoCall
  <2>1. /\ c # NoCall
        /\ call' = [call EXCEPT ![k] = next]
        /\ config' = [config EXCEPT ![c.who] = c.name] \/ config' = config
        /\ UNCHANGED <<sc, rows, username, now, tokens>>
    BY <1>8 DEF Reply, relay
  <2>2. c \in Call
    BY <1>2, <2>1
  <2>3. config' \in [Identity -> Name \cup {NoName}]
    BY <1>2, <2>1, <2>2 DEF Call
  <2>4. next # NoCall => next \in Call /\ next.who = c.who /\ next.token = c.token
    BY <2>2 DEF Call
  <2> HIDE DEF next
  <2>5. call'[k] = next /\ \A l \in 1..InFlight \ {k} : call'[l] = call[l]
    BY <1>2, <2>1
  <2>6. call' \in [1..InFlight -> Call \cup {NoCall}]
    BY <1>2, <2>1, <2>4
  <2>7. \A l \in 1..InFlight : call'[l] # NoCall =>
            call[l] # NoCall /\ call'[l].who = call[l].who /\ call'[l].token = call[l].token
    BY <2>1, <2>4, <2>5
  <2>8. Typed'
    BY <1>1, <2>1, <2>3, <2>6, <2>7, CallsKeep
  <2> QED  BY <2>1, <2>8, TableKeeps
<1>9. ASSUME NEW k \in 1..InFlight, Fail(k)
      PROVE  NamesInv' /\ UNCHANGED <<rows, username>>
  <2>1. /\ call' = [call EXCEPT ![k] = NoCall]
        /\ UNCHANGED <<sc, rows, username, config, now, tokens>>
    BY <1>9 DEF Fail, relay
  <2>2. call' \in [1..InFlight -> Call \cup {NoCall}]
    BY <1>2, <2>1
  <2>3. \A l \in 1..InFlight : call'[l] # NoCall => call'[l] = call[l]
    BY <1>2, <2>1
  <2>4. Typed'
    BY <1>1, <1>2, <2>1, <2>2, <2>3, CallsKeep
  <2> QED  BY <2>1, <2>4, TableKeeps
<1>10. ASSUME NEW p, setNamespacePolicy(p)
       PROVE  NamesInv' /\ UNCHANGED <<rows, username>>
  <2>1. UNCHANGED <<sc, rows, username, config, now, tokens, call>>
    BY <1>10 DEF setNamespacePolicy, client
  <2> QED  BY <1>1, <2>1, TableKeeps DEF Typed
<1>11. ASSUME pruneRateLimitState \/ vars' = vars
       PROVE  NamesInv' /\ UNCHANGED <<rows, username>>
  <2>1. UNCHANGED <<sc, rows, username, config, now, tokens, call>>
    BY <1>11 DEF pruneRateLimitState, client, vars, relay
  <2> QED  BY <1>1, <2>1, TableKeeps DEF Typed
<1>12. ASSUME Tick
       PROVE  NamesInv' /\ UNCHANGED <<rows, username>>
  <2>1. now' = now + 1 /\ UNCHANGED <<sc, rows, username, config, tokens, call>>
    BY <1>12 DEF Tick, client, relay
  <2>2. Typed'
    BY <1>1, <2>1 DEF Typed
  <2> QED  BY <2>1, <2>2, TableKeeps
<1>13. CASE \E k \in 1..InFlight : Serve(k)
  BY <1>13, ServeKeeps
<1> QED  BY <1>3, <1>4, <1>5, <1>6, <1>7, <1>8, <1>9, <1>10, <1>11, <1>12, <1>13 DEF Next

-----------------------------------------------------------------------------
(* The rate limit *)

\* What the limiter works on has its type.
LimiterTyped ==
    /\ sc \in Scenario /\ now \in Nat
    /\ window \in [Identity -> [count : 0..sc.RATE_LIMIT_DIR, start : Nat]]
    /\ served \in [Identity -> SUBSET (Nat \X Nat)]
    /\ promised \in [Identity -> Nat]

\* The requests of the present window, and those before it.
Present(i) == {x \in recent(i) : x[1] >= window[i].start}
Former(i)  == {x \in recent(i) : x[1] < window[i].start}

\* The requests let pass are counted: those of the present window by its entry,
\* and those before it are of one window only.
Counts(i) ==
    /\ IsFiniteSet(served[i])
    /\ window[i].start <= now
    /\ \A x \in served[i] : x[1] <= now /\ (x[1] = now => x[2] <= Cardinality(recent(i)))
    /\ window[i].count = 0 => /\ Cardinality(recent(i)) <= sc.RATE_LIMIT_DIR
                              /\ \A x \in served[i] : x[1] < now
    /\ window[i].count > 0 => /\ Cardinality(Present(i)) <= window[i].count
                              /\ Cardinality(Former(i)) <= sc.RATE_LIMIT_DIR
                              /\ \A x \in served[i] : x[1] < window[i].start + RATE_WINDOW

\* Retry-After reaches to the end of the window.
Waits(i) ==
    promised[i] # 0 => window[i].count = 0 \/ promised[i] >= window[i].start + RATE_WINDOW

\* The requests let pass and the entries agree.
LimiterInv == LimiterTyped /\ \A i \in Identity : Counts(i) /\ Waits(i)

\* A part of a finite set has no more elements.
LEMMA Fewer ==
    ASSUME NEW S, IsFiniteSet(S), NEW T, T \subseteq S
    PROVE  /\ IsFiniteSet(T) /\ Cardinality(T) \in Nat /\ Cardinality(S) \in Nat
           /\ Cardinality(T) <= Cardinality(S)
BY FS_Subset, FS_CardinalityType

\* Rounded up to whole seconds, the wait is as long as the rest of the window.
LEMMA RoundedUp ==
    ASSUME NEW a \in Nat, NEW b \in Nat, b # 0
    PROVE  /\ (a + b - 1) \div b \in Nat
           /\ b * ((a + b - 1) \div b) >= a
<1>1. (a + b - 1) \div b \in Nat
  OBVIOUS
<1>2. a + b - 1 = b * ((a + b - 1) \div b) + ((a + b - 1) % b)
  OBVIOUS
<1>3. (a + b - 1) % b \in 0..(b - 1)
  OBVIOUS
<1> QED BY <1>1, <1>2, <1>3

\* The window of an entry is over when Retry-After says.
LEMMA WaitReaches ==
    ASSUME LimiterTyped, NEW i \in Identity, window[i].start <= now, ~Stale(window[i])
    PROVE  RetryAfter(i) \in Nat /\ now + RetryAfter(i) >= window[i].start + RATE_WINDOW
<1>1. window[i].start \in Nat /\ now \in Nat /\ RATE_WINDOW \in Nat /\ SECOND \in Nat /\ SECOND # 0
  BY ConstantsAssumption DEF LimiterTyped
<1>2. PICK a : a = RATE_WINDOW - (now - window[i].start)
  OBVIOUS
<1>3. a \in Nat
  BY <1>1, <1>2 DEF Stale
<1>4. PICK q : q = (a + SECOND - 1) \div SECOND
  OBVIOUS
<1>5. q \in Nat /\ SECOND * q >= a
  BY <1>1, <1>3, <1>4, RoundedUp
<1>6. RetryAfter(i) = SECOND * (IF q = 0 THEN 1 ELSE q)
  BY <1>2, <1>4 DEF RetryAfter
<1>7. RetryAfter(i) \in Nat /\ RetryAfter(i) >= a
  BY <1>1, <1>3, <1>5, <1>6
<1> QED BY <1>1, <1>2, <1>3, <1>7

\* An entry that counts one more, or the first of its window.
LEMMA CountedTyped ==
    ASSUME LimiterTyped, NEW i \in Identity, ~limited(i), sc.RATE_LIMIT_DIR # 0
    PROVE  /\ Counted(i) \in [Identity -> [count : 0..sc.RATE_LIMIT_DIR, start : Nat]]
           /\ Stale(window[i]) => Counted(i)[i].count = 1 /\ Counted(i)[i].start = now
           /\ ~Stale(window[i]) => /\ Counted(i)[i].count = window[i].count + 1
                                   /\ Counted(i)[i].start = window[i].start
           /\ \A j \in Identity \ {i} : Counted(i)[j] = window[j]
<1>1. sc.RATE_LIMIT_DIR \in Nat /\ now \in Nat
      /\ window \in [Identity -> [count : 0..sc.RATE_LIMIT_DIR, start : Nat]]
  BY DEF LimiterTyped, Scenario
<1>2. window[i] \in [count : 0..sc.RATE_LIMIT_DIR, start : Nat]
  BY <1>1
<1>3. CASE Stale(window[i])
  <2>1. Counted(i) = [window EXCEPT ![i] = [count |-> 1, start |-> now]]
    BY <1>3 DEF Counted
  <2> QED BY <1>1, <1>3, <2>1
<1>4. CASE ~Stale(window[i])
  <2>1. Counted(i) = [window EXCEPT ![i].count = @ + 1]
    BY <1>4 DEF Counted
  <2>2. window[i].count < sc.RATE_LIMIT_DIR
    BY <1>1, <1>2, <1>4 DEF limited
  <2> QED BY <1>1, <1>2, <1>4, <2>1, <2>2
<1> QED BY <1>3, <1>4

\* A request that is let pass.
LEMMA PassCounts ==
    ASSUME LimiterTyped, NEW i \in Identity, Counts(i), ~limited(i), sc.RATE_LIMIT_DIR # 0,
           sc'.RATE_LIMIT_DIR = sc.RATE_LIMIT_DIR, now' = now, window' = Counted(i),
           served'[i] = recent(i) \cup {<<now, Cardinality(recent(i)) + 1>>}
    PROVE  Counts(i)'
<1>1. /\ now \in Nat /\ RATE_WINDOW \in Nat /\ RATE_WINDOW > 0
      /\ sc.RATE_LIMIT_DIR \in Nat /\ sc.RATE_LIMIT_DIR >= 1
      /\ window[i].count \in Nat /\ window[i].start \in Nat
      /\ \A x \in served[i] : x[1] \in Nat /\ x[2] \in Nat
  BY ConstantsAssumption DEF LimiterTyped, Scenario
<1>2. PICK R : R = recent(i)
  OBVIOUS
<1>3. PICK e : e = <<now, Cardinality(R) + 1>>
  OBVIOUS
<1>4. e[1] = now /\ e[2] = Cardinality(R) + 1
  BY <1>3
<1>5. R \subseteq served[i] /\ \A x \in R : now - x[1] < RATE_WINDOW
  BY <1>2 DEF recent
<1>6. IsFiniteSet(R) /\ Cardinality(R) \in Nat
  BY <1>5, Fewer DEF Counts
<1>7. e \notin R
  BY <1>2, <1>4, <1>5, <1>6 DEF Counts
<1>8. served'[i] = R \cup {e}
  BY <1>2, <1>3
<1>9. IsFiniteSet(R \cup {e}) /\ Cardinality(R \cup {e}) = Cardinality(R) + 1
  BY <1>6, <1>7, FS_AddElement
<1>10. recent(i)' = R \cup {e}
  BY <1>1, <1>4, <1>5, <1>8 DEF recent
<1>11. /\ IsFiniteSet(served'[i])
       /\ \A x \in served'[i] : x[1] <= now' /\ (x[1] = now' => x[2] <= Cardinality(recent(i)'))
  <2>1. \A x \in R : x[1] \in Nat /\ x[2] \in Nat /\ x[1] <= now /\ (x[1] = now => x[2] <= Cardinality(R))
    BY <1>1, <1>2, <1>5 DEF Counts
  <2>2. \A x \in R \cup {e} : x[1] <= now /\ (x[1] = now => x[2] <= Cardinality(R) + 1)
    BY <1>1, <1>4, <1>6, <2>1
  <2> QED BY <1>8, <1>9, <1>10, <2>2
<1>12. /\ Stale(window[i]) => window'[i].count = 1 /\ window'[i].start = now
       /\ ~Stale(window[i]) => /\ window'[i].count = window[i].count + 1
                               /\ window'[i].start = window[i].start
  BY CountedTyped
<1>13. /\ Present(i)' = {x \in R \cup {e} : x[1] >= window'[i].start}
       /\ Former(i)' = {x \in R \cup {e} : x[1] < window'[i].start}
  BY <1>10 DEF Present, Former
<1>14. CASE Stale(window[i])
  <2>1. Cardinality(R) <= sc.RATE_LIMIT_DIR /\ \A x \in R : x[1] < now
    <3>1. CASE window[i].count = 0
      BY <1>2, <1>5, <3>1 DEF Counts
    <3>2. CASE window[i].count # 0
      <4>1. now - window[i].start >= RATE_WINDOW
        BY <1>14, <3>2 DEF Stale
      <4>2. Present(i) = R
        BY <1>1, <1>2, <1>5, <4>1 DEF Present
      <4>3. window[i].count <= sc.RATE_LIMIT_DIR
        BY DEF LimiterTyped, Scenario
      <4>4. Cardinality(R) <= window[i].count
        BY <1>1, <3>2, <4>2 DEF Counts
      <4>5. \A x \in R : x[1] < window[i].start + RATE_WINDOW
        BY <1>1, <1>5, <3>2 DEF Counts
      <4> QED BY <1>1, <1>5, <1>6, <4>1, <4>3, <4>4, <4>5
    <3> QED BY <3>1, <3>2
  <2>2. Present(i)' = {e} /\ Former(i)' = R
    BY <1>1, <1>4, <1>5, <1>12, <1>13, <1>14, <2>1
  <2>3. Cardinality({e}) = 1
    BY FS_Singleton
  <2>4. \A x \in served'[i] : x[1] < window'[i].start + RATE_WINDOW
    BY <1>1, <1>4, <1>5, <1>8, <1>12, <1>14, <2>1
  <2> QED BY <1>1, <1>11, <1>12, <1>14, <2>1, <2>2, <2>3, <2>4 DEF Counts
<1>15. CASE ~Stale(window[i])
  <2>1. window[i].count > 0 /\ now - window[i].start < RATE_WINDOW
    BY <1>1, <1>15 DEF Stale
  <2>2. Present(i)' = Present(i) \cup {e} /\ Former(i)' = Former(i)
    BY <1>1, <1>2, <1>4, <1>5, <1>12, <1>13, <1>15 DEF Present, Former, Counts
  <2>3. IsFiniteSet(Present(i)) /\ Cardinality(Present(i)) \in Nat
        /\ Cardinality(Present(i) \cup {e}) = Cardinality(Present(i)) + 1
    <3>1. Present(i) \subseteq R
      BY <1>2 DEF Present
    <3>2. e \notin Present(i)
      BY <1>7, <3>1
    <3> QED BY <1>6, <3>1, <3>2, Fewer, FS_AddElement
  <2>4. \A x \in served'[i] : x[1] < window'[i].start + RATE_WINDOW
    BY <1>1, <1>4, <1>5, <1>8, <1>12, <1>15, <2>1 DEF Counts
  <2>5. Cardinality(Present(i)) <= window[i].count /\ Cardinality(Former(i)) <= sc.RATE_LIMIT_DIR
    BY <2>1 DEF Counts
  <2>6. Cardinality(Present(i)') <= window'[i].count /\ Cardinality(Former(i)') <= sc'.RATE_LIMIT_DIR
    BY <1>1, <1>12, <1>15, <2>2, <2>3, <2>5
  <2>7. window'[i].count > 0 /\ window'[i].count # 0 /\ window'[i].start <= now'
    BY <1>1, <1>12, <1>15 DEF Counts
  <2> QED BY <1>11, <2>4, <2>6, <2>7 DEF Counts
<1> QED BY <1>14, <1>15

\* What happens to the others.
LEMMA CountsStay ==
    ASSUME NEW i \in Identity, Counts(i), window'[i] = window[i], served'[i] = served[i],
           now' = now, sc'.RATE_LIMIT_DIR = sc.RATE_LIMIT_DIR
    PROVE  Counts(i)'
<1>1. recent(i)' = recent(i)
  BY DEF recent
<1>2. Present(i)' = Present(i) /\ Former(i)' = Former(i)
  BY <1>1 DEF Present, Former
<1> QED BY <1>1, <1>2 DEF Counts

\* Most steps leave the limiter alone.
LEMMA LimiterSteps ==
    ASSUME Typed, [Next]_vars
    PROVE  /\ sc'.RATE_LIMIT_DIR = sc.RATE_LIMIT_DIR
           /\ \/ UNCHANGED <<now, window, served, promised>>
              \/ \E k \in 1..InFlight : Serve(k)
              \/ pruneRateLimitState \/ Tick
<1> USE DEF relay, client, hist
<1>1. sc \in Scenario
  BY DEF Typed
<1>2. \A s : s \in Scenario =>
          /\ [s EXCEPT !.calls = @ - 1].RATE_LIMIT_DIR = s.RATE_LIMIT_DIR
          /\ [s EXCEPT !.tokens = @ - 1].RATE_LIMIT_DIR = s.RATE_LIMIT_DIR
  BY DEF Scenario
<1>3. ASSUME NEW i, NEW kind, NEW n, NEW t, Issue(i, kind, n, t)
      PROVE  sc'.RATE_LIMIT_DIR = sc.RATE_LIMIT_DIR
  BY <1>1, <1>2, <1>3 DEF Issue
<1>4. ASSUME NEW i \in sc.clients, start(i) \/ Stop(i) \/ generateContactQR(i)
      PROVE  /\ sc'.RATE_LIMIT_DIR = sc.RATE_LIMIT_DIR
             /\ UNCHANGED <<now, window, served, promised>>
  BY <1>3, <1>4 DEF start, Stop, generateContactQR
<1>5. ASSUME NEW i \in sc.clients, NEW n \in sc.names,
             \/ setIdentifier(i, n)
             \/ \E j \in Identity : createUsernameTransferToken(i, n, j)
      PROVE  /\ sc'.RATE_LIMIT_DIR = sc.RATE_LIMIT_DIR
             /\ UNCHANGED <<now, window, served, promised>>
  BY <1>1, <1>2, <1>3, <1>5 DEF setIdentifier, createUsernameTransferToken
<1>6. ASSUME NEW i \in sc.clients, NEW t \in tokens, acceptUsernameTransfer(i, t)
      PROVE  /\ sc'.RATE_LIMIT_DIR = sc.RATE_LIMIT_DIR
             /\ UNCHANGED <<now, window, served, promised>>
  BY <1>3, <1>6 DEF acceptUsernameTransfer
<1>7. ASSUME NEW k \in 1..InFlight, Reply(k) \/ Fail(k)
      PROVE  /\ sc'.RATE_LIMIT_DIR = sc.RATE_LIMIT_DIR
             /\ UNCHANGED <<now, window, served, promised>>
  BY <1>7 DEF Reply, Fail
<1>8. ASSUME NEW p, setNamespacePolicy(p)
      PROVE  /\ sc'.RATE_LIMIT_DIR = sc.RATE_LIMIT_DIR
             /\ UNCHANGED <<now, window, served, promised>>
  BY <1>8 DEF setNamespacePolicy
<1>9. ASSUME (\E k \in 1..InFlight : Serve(k)) \/ pruneRateLimitState \/ Tick
      PROVE  sc' = sc
  BY <1>9 DEF Serve, pruneRateLimitState, Tick
<1>10. CASE UNCHANGED vars
  BY <1>10 DEF vars
<1> QED BY <1>4, <1>5, <1>6, <1>7, <1>8, <1>9, <1>10 DEF Next

\* POST /directory counts what it lets pass, and promises what it does not.
LEMMA ServeCounts ==
    ASSUME Typed, LimiterInv, NEW k \in 1..InFlight, Serve(k)
    PROVE  LimiterInv'
<1>1. PICK i : i = call[k].who
  OBVIOUS
<1>2. sc' = sc /\ now' = now /\ i \in Identity
  BY <1>1 DEF Serve, Typed, Scenario
<1>3. LimiterTyped /\ \A j \in Identity : Counts(j) /\ Waits(j)
  BY DEF LimiterInv
<1>4. CASE limited(i)
  <2>1. /\ promised' = [promised EXCEPT ![i] = now + RetryAfter(i)]
        /\ UNCHANGED <<window, served>>
    BY <1>1, <1>4 DEF Serve, relay
  <2>2. RetryAfter(i) \in Nat /\ now + RetryAfter(i) >= window[i].start + RATE_WINDOW
    BY <1>2, <1>3, <1>4, WaitReaches DEF limited, Counts
  <2>3. LimiterTyped'
    BY <1>2, <1>3, <2>1, <2>2 DEF LimiterTyped
  <2>4. \A j \in Identity : Counts(j)'
    BY <1>2, <1>3, <2>1, CountsStay
  <2>5. \A j \in Identity : Waits(j)'
    BY <1>2, <1>3, <2>1, <2>2 DEF Waits, LimiterTyped
  <2> QED BY <2>3, <2>4, <2>5 DEF LimiterInv
<1>5. CASE ~limited(i)
  <2>1. /\ window' = Counted(i)
        /\ served' = IF sc.RATE_LIMIT_DIR = 0 THEN served
                     ELSE [served EXCEPT ![i] = recent(i) \cup {<<now, Cardinality(recent(i)) + 1>>}]
        /\ promised' = [promised EXCEPT ![i] = 0]
    BY <1>1, <1>5 DEF Serve
  <2>2. CASE sc.RATE_LIMIT_DIR = 0
    <3>1. window' = window /\ served' = served
      BY <2>1, <2>2 DEF Counted
    <3>2. \A j \in Identity : Counts(j)' /\ Waits(j)'
      BY <1>2, <1>3, <2>1, <3>1, CountsStay DEF Waits, LimiterTyped
    <3>3. LimiterTyped'
      BY <1>2, <1>3, <2>1, <3>1 DEF LimiterTyped
    <3> QED BY <3>2, <3>3 DEF LimiterInv
  <2>3. CASE sc.RATE_LIMIT_DIR # 0
    <3>1. served' = [served EXCEPT ![i] = recent(i) \cup {<<now, Cardinality(recent(i)) + 1>>}]
      BY <2>1, <2>3
    <3>2. /\ window' \in [Identity -> [count : 0..sc.RATE_LIMIT_DIR, start : Nat]]
          /\ \A j \in Identity \ {i} : window'[j] = window[j]
      BY <1>2, <1>3, <1>5, <2>1, <2>3, CountedTyped
    <3>3. served'[i] = recent(i) \cup {<<now, Cardinality(recent(i)) + 1>>}
          /\ \A j \in Identity \ {i} : served'[j] = served[j]
      BY <1>2, <1>3, <3>1 DEF LimiterTyped
    <3>4. Counts(i)'
      BY <1>2, <1>3, <1>5, <2>1, <2>3, <3>3, PassCounts
    <3>5. \A j \in Identity \ {i} : Counts(j)'
      BY <1>2, <1>3, <3>2, <3>3, CountsStay
    <3>6. \A j \in Identity : Waits(j)'
      BY <1>2, <1>3, <2>1, <3>2 DEF Waits, LimiterTyped
    <3>7. LimiterTyped'
      <4>1. recent(i) \in SUBSET (Nat \X Nat) /\ IsFiniteSet(recent(i))
        <5>1. recent(i) \subseteq served[i] /\ served[i] \in SUBSET (Nat \X Nat)
          BY <1>2, <1>3 DEF recent, LimiterTyped
        <5> QED BY <1>2, <1>3, <5>1, Fewer DEF Counts
      <4>2. <<now, Cardinality(recent(i)) + 1>> \in Nat \X Nat
        BY <1>3, <4>1, FS_CardinalityType DEF LimiterTyped
      <4>3. served' \in [Identity -> SUBSET (Nat \X Nat)]
        BY <1>2, <1>3, <3>1, <4>1, <4>2 DEF LimiterTyped
      <4> QED BY <1>2, <1>3, <2>1, <3>2, <4>3 DEF LimiterTyped
    <3> QED BY <3>4, <3>5, <3>6, <3>7 DEF LimiterInv
  <2> QED BY <2>2, <2>3
<1> QED BY <1>4, <1>5

\* An entry that is pruned has counted nothing of late, and one tick later less
\* is recent.
LEMMA PruneCounts ==
    ASSUME LimiterInv, pruneRateLimitState
    PROVE  LimiterInv'
<1>1. /\ window' = [i \in Identity |->
                     IF window[i].count # 0 /\ Prunable(window[i]) THEN [count |-> 0, start |-> 0]
                     ELSE window[i]]
      /\ UNCHANGED <<sc, now, served, promised>>
  BY DEF pruneRateLimitState, hist
<1>2. LimiterTyped /\ \A j \in Identity : Counts(j) /\ Waits(j)
  BY DEF LimiterInv
<1>3. sc.RATE_LIMIT_DIR \in Nat /\ now \in Nat /\ RATE_WINDOW \in Nat
  BY <1>2, ConstantsAssumption DEF LimiterTyped, Scenario
<1>4. LimiterTyped'
  <2>1. [count |-> 0, start |-> 0] \in [count : 0..sc.RATE_LIMIT_DIR, start : Nat]
    BY <1>3
  <2> QED BY <1>1, <1>2, <2>1 DEF LimiterTyped
<1>5. ASSUME NEW i \in Identity PROVE Counts(i)' /\ Waits(i)'
  <2>1. CASE window'[i] = window[i]
    BY <1>1, <1>2, <2>1, CountsStay DEF Waits
  <2>2. CASE window[i].count # 0 /\ Prunable(window[i])
    <3>1. window'[i].count = 0 /\ window'[i].start = 0
      BY <1>1, <2>2
    <3>2. window[i] \in [count : 0..sc.RATE_LIMIT_DIR, start : Nat]
      BY <1>2 DEF LimiterTyped
    <3>3. window[i].count \in Nat /\ window[i].start \in Nat /\ window[i].count > 0
          /\ window[i].count <= sc.RATE_LIMIT_DIR
      BY <1>3, <2>2, <3>2
    <3>4. now > window[i].start + RATE_WINDOW
      BY <1>3, <2>2, <3>3 DEF Prunable
    <3>5. \A x \in served[i] : x[1] \in Nat /\ x[1] < window[i].start + RATE_WINDOW /\ x[1] <= now
          /\ (x[1] = now => x[2] <= Cardinality(recent(i)))
      BY <1>2, <3>3 DEF Counts, LimiterTyped
    <3>6. recent(i) = Present(i) /\ recent(i)' = recent(i)
      <4>1. recent(i)' = recent(i)
        BY <1>1 DEF recent
      <4>2. \A x \in recent(i) : x \in served[i] /\ now - x[1] < RATE_WINDOW
        BY DEF recent
      <4>3. \A x \in recent(i) : x[1] >= window[i].start
        BY <1>3, <3>3, <3>4, <3>5, <4>2
      <4> QED BY <4>1, <4>3 DEF Present
    <3>7. Cardinality(recent(i)) <= window[i].count /\ IsFiniteSet(served[i])
      BY <1>2, <3>3, <3>6 DEF Counts
    <3>8. recent(i) \subseteq served[i]
      BY DEF recent
    <3>9. Cardinality(recent(i)) \in Nat
      BY <3>7, <3>8, Fewer
    <3>10. Cardinality(recent(i)') <= sc'.RATE_LIMIT_DIR
      BY <1>1, <1>3, <3>3, <3>6, <3>7, <3>9
    <3>11. \A x \in served'[i] : x[1] < now'
      BY <1>1, <1>3, <3>3, <3>4, <3>5
    <3> QED BY <1>1, <1>3, <3>1, <3>5, <3>6, <3>7, <3>10, <3>11 DEF Counts, Waits
  <2> QED BY <1>1, <2>1, <2>2
<1> QED BY <1>4, <1>5 DEF LimiterInv

\* Time lets requests leave the window, and adds none.
LEMMA TickCounts ==
    ASSUME LimiterInv, Tick
    PROVE  LimiterInv'
<1>1. now' = now + 1 /\ UNCHANGED <<sc, window, served, promised>>
  BY DEF Tick, relay, hist
<1>2. LimiterTyped /\ \A j \in Identity : Counts(j) /\ Waits(j)
  BY DEF LimiterInv
<1>3. sc.RATE_LIMIT_DIR \in Nat /\ now \in Nat /\ RATE_WINDOW \in Nat
  BY <1>2, ConstantsAssumption DEF LimiterTyped, Scenario
<1>4. LimiterTyped'
  BY <1>1, <1>2, <1>3 DEF LimiterTyped
<1>5. ASSUME NEW i \in Identity PROVE Counts(i)'
  <2>1. window[i].count \in Nat /\ window[i].start \in Nat
        /\ \A x \in served[i] : x[1] \in Nat /\ x[1] <= now
    BY <1>2, <1>3 DEF Counts, LimiterTyped
  <2>2. recent(i)' \subseteq recent(i) /\ recent(i) \subseteq served[i]
    BY <1>1, <1>3, <2>1 DEF recent
  <2>3. Present(i)' \subseteq Present(i) /\ Former(i)' \subseteq Former(i)
        /\ Present(i) \subseteq recent(i) /\ Former(i) \subseteq recent(i)
    BY <1>1, <2>2 DEF Present, Former
  <2>4. IsFiniteSet(served[i]) /\ IsFiniteSet(recent(i)) /\ IsFiniteSet(Present(i)) /\ IsFiniteSet(Former(i))
    BY <1>2, <2>2, <2>3, FS_Subset DEF Counts
  <2>5. /\ Cardinality(recent(i)') <= Cardinality(recent(i))
        /\ Cardinality(Present(i)') <= Cardinality(Present(i))
        /\ Cardinality(Former(i)') <= Cardinality(Former(i))
        /\ {Cardinality(recent(i)'), Cardinality(recent(i)), Cardinality(Present(i)'),
            Cardinality(Present(i)), Cardinality(Former(i)'), Cardinality(Former(i))} \subseteq Nat
    <3>1. Cardinality(recent(i)') <= Cardinality(recent(i)) /\ Cardinality(recent(i)') \in Nat
          /\ Cardinality(recent(i)) \in Nat
      BY <2>2, <2>4, Fewer
    <3>2. Cardinality(Present(i)') <= Cardinality(Present(i)) /\ Cardinality(Present(i)') \in Nat
          /\ Cardinality(Present(i)) \in Nat
      BY <2>3, <2>4, Fewer
    <3>3. Cardinality(Former(i)') <= Cardinality(Former(i)) /\ Cardinality(Former(i)') \in Nat
          /\ Cardinality(Former(i)) \in Nat
      BY <2>3, <2>4, Fewer
    <3> QED BY <3>1, <3>2, <3>3
  <2>6. \A x \in served'[i] : x[1] < now'
    BY <1>1, <1>3, <2>1
  <2>7. window'[i].count = 0 => Cardinality(recent(i)') <= sc'.RATE_LIMIT_DIR
    BY <1>1, <1>2, <1>3, <2>5 DEF Counts
  <2>8. window'[i].count > 0 => /\ Cardinality(Present(i)') <= window'[i].count
                                /\ Cardinality(Former(i)') <= sc'.RATE_LIMIT_DIR
                                /\ \A x \in served'[i] : x[1] < window'[i].start + RATE_WINDOW
    BY <1>1, <1>2, <1>3, <2>1, <2>5 DEF Counts
  <2>9. window'[i].start <= now'
    BY <1>1, <1>2, <1>3, <2>1 DEF Counts
  <2>10. \A x \in served'[i] : x[1] <= now' /\ x[1] # now'
    BY <1>1, <1>3, <2>1
  <2> QED BY <1>1, <2>4, <2>6, <2>7, <2>8, <2>9, <2>10 DEF Counts
<1>6. \A i \in Identity : Waits(i)'
  BY <1>1, <1>2 DEF Waits
<1> QED BY <1>4, <1>5, <1>6 DEF LimiterInv

\* A step keeps the limiter's invariant.
LEMMA LimiterKeeps ==
    ASSUME NamesInv, LimiterInv, [Next]_vars
    PROVE  LimiterInv'
<1>1. Typed /\ Typed'
  BY StepKeeps DEF NamesInv
<1>2. CASE UNCHANGED <<now, window, served, promised>>
  <2>1. sc'.RATE_LIMIT_DIR = sc.RATE_LIMIT_DIR /\ sc' \in Scenario
    BY <1>1, LimiterSteps DEF Typed
  <2>2. LimiterTyped'
    BY <1>2, <2>1 DEF LimiterInv, LimiterTyped
  <2>3. \A i \in Identity : Counts(i)' /\ Waits(i)'
    BY <1>2, <2>1, CountsStay DEF LimiterInv, Waits
  <2> QED BY <2>2, <2>3 DEF LimiterInv
<1> QED BY <1>1, <1>2, LimiterSteps, ServeCounts, PruneCounts, TickCounts

\* At most a window's requests before this one and a window's in it: two limits.
LEMMA LimiterSound ==
    ASSUME LimiterInv
    PROVE  LimitSound
<1>1. ASSUME sc.RATE_LIMIT_DIR # 0, NEW i \in Identity
      PROVE  Cardinality(recent(i)) <= 2 * sc.RATE_LIMIT_DIR
  <2>1. LimiterTyped /\ Counts(i)
    BY DEF LimiterInv
  <2>2. sc.RATE_LIMIT_DIR \in Nat /\ window[i].count \in 0..sc.RATE_LIMIT_DIR
    BY <2>1 DEF LimiterTyped, Scenario
  <2>3. IsFiniteSet(recent(i)) /\ Cardinality(recent(i)) \in Nat
    <3>1. recent(i) \subseteq served[i]
      BY DEF recent
    <3> QED BY <2>1, <3>1, Fewer DEF Counts
  <2>4. CASE window[i].count = 0
    BY <2>1, <2>2, <2>3, <2>4 DEF Counts
  <2>5. CASE window[i].count # 0
    <3>1. IsFiniteSet(Present(i)) /\ IsFiniteSet(Former(i))
          /\ Cardinality(Present(i)) \in Nat /\ Cardinality(Former(i)) \in Nat
      <4>1. Present(i) \subseteq recent(i) /\ Former(i) \subseteq recent(i)
        BY DEF Present, Former
      <4> QED BY <2>3, <4>1, Fewer
    <3>2. recent(i) = Present(i) \cup Former(i) /\ Present(i) \cap Former(i) = {}
      <4>1. \A x \in recent(i) : x[1] \in Nat
        BY <2>1 DEF recent, LimiterTyped
      <4>2. window[i].start \in Nat
        BY <2>1 DEF LimiterTyped
      <4> QED BY <4>1, <4>2 DEF Present, Former
    <3>3. Cardinality(recent(i)) = Cardinality(Present(i)) + Cardinality(Former(i))
          - Cardinality(Present(i) \cap Former(i))
      BY <3>1, <3>2, FS_Union
    <3>4. Cardinality(Present(i) \cap Former(i)) = 0
      BY <3>2, FS_EmptySet
    <3>5. Cardinality(Present(i)) <= window[i].count /\ Cardinality(Former(i)) <= sc.RATE_LIMIT_DIR
      BY <2>1, <2>2, <2>5 DEF Counts
    <3> QED BY <2>2, <3>1, <3>3, <3>4, <3>5
  <2> QED BY <2>4, <2>5
<1>2. ASSUME NEW i \in Identity, promised[i] # 0, now >= promised[i] PROVE ~limited(i)
  <2>1. LimiterTyped /\ Waits(i)
    BY DEF LimiterInv
  <2>2. now \in Nat /\ promised[i] \in Nat /\ window[i].start \in Nat /\ RATE_WINDOW \in Nat
    BY <2>1, ConstantsAssumption DEF LimiterTyped
  <2> QED BY <1>2, <2>1, <2>2 DEF Waits, limited, Stale
<1> QED BY <1>1, <1>2 DEF LimitSound, BurstBounded, RetryAfterTrue

\* Nobody has asked anything yet.
LEMMA InitLimiter == Init => LimiterInv
<1> SUFFICES ASSUME Init PROVE LimiterInv
  OBVIOUS
<1>1. sc \in Scenario /\ now = 0
  BY ConstantsAssumption DEF Init
<1>2. sc.RATE_LIMIT_DIR \in Nat
  BY <1>1 DEF Scenario
<1>3. /\ window = [i \in Identity |-> [count |-> 0, start |-> 0]]
      /\ served = [i \in Identity |-> {}] /\ promised = [i \in Identity |-> 0]
  BY DEF Init
<1>4. LimiterTyped
  BY <1>1, <1>2, <1>3 DEF LimiterTyped
<1>5. ASSUME NEW i \in Identity PROVE Counts(i) /\ Waits(i)
  <2>1. window[i].count = 0 /\ window[i].start = 0 /\ served[i] = {} /\ promised[i] = 0
    BY <1>3
  <2>2. recent(i) = {}
    BY <2>1 DEF recent
  <2> QED BY <1>1, <1>2, <2>1, <2>2, FS_EmptySet DEF Counts, Waits
<1> QED BY <1>4, <1>5 DEF LimiterInv

-----------------------------------------------------------------------------
(* What was granted is held *)

\* The client is found under the identifier it was given last.
Held(i) == granted[i] # NoName => i \in rows /\ username[i] = granted[i]

\* The one call of a client asks for the identifier it has, or for another; when it
\* was answered and not yet heard of, the row has the other.
CallHolds(i, k) ==
    LET c == call[k] IN
    /\ ~c.deaf /\ Calls(i) = {k}
    /\ c.kind = "publish" => c.name = granted[i] /\ ~(c.st = "answered" /\ c.status = 200)
    /\ c.kind # "publish" => c.name # NoName
    /\ c.st = "answered" /\ c.status = 200 => i \in rows /\ username[i] = c.name
    /\ ~(c.st = "answered" /\ c.status = 200) => Held(i)

\* With no call under way a client has what it was granted.
Holds(i) == (Calls(i) = {} => Held(i)) /\ \A k \in Calls(i) : CallHolds(i, k)

\* So have all whose calls did not cross; what the application keeps is what was
\* granted.
HeldInv ==
    /\ config = granted /\ running \subseteq Identity /\ unsure \subseteq Identity
    /\ policy \in {"none", "signed-transfer", "last-writer-wins"}
    /\ \A i \in Identity \ unsure : Holds(i)

\* A client that nothing happens to.
LEMMA HoldsStill ==
    ASSUME NEW i, Holds(i), Calls(i)' = Calls(i), \A k \in Calls(i) : call'[k] = call[k],
           granted'[i] = granted[i], i \in rows => i \in rows', username'[i] = username[i]
    PROVE  Holds(i)'
<1>1. Held(i) => Held(i)'
  BY DEF Held
<1>2. \A k \in Calls(i) : CallHolds(i, k) => CallHolds(i, k)'
  BY <1>1 DEF CallHolds
<1> QED BY <1>1, <1>2 DEF Holds

\* What becomes of a call does not touch those of others.
LEMMA OtherCalls ==
    ASSUME Typed, NEW k \in 1..InFlight, NEW i, NEW d, d = NoCall \/ d.who = i,
           call[k] # NoCall => call[k].who = i,
           call' = [call EXCEPT ![k] = d],
           NEW j, j # i
    PROVE  Calls(j)' = Calls(j) /\ \A l \in Calls(j) : call'[l] = call[l]
<1>1. call \in [1..InFlight -> Call \cup {NoCall}]
  BY DEF Typed
<1>2. call'[k] = d /\ \A l \in 1..InFlight : l # k => call'[l] = call[l]
  BY <1>1
<1>3. \A l \in 1..InFlight : call'[l] # NoCall /\ call'[l].who = j
                                 <=> call[l] # NoCall /\ call[l].who = j
  BY <1>2
<1> QED BY <1>2, <1>3 DEF Calls

\* What becomes of the one call of a client is all there is to know of its calls.
LEMMA OwnCall ==
    ASSUME Typed, NEW k \in 1..InFlight, NEW i, NEW d, d = NoCall \/ d.who = i,
           Calls(i) \subseteq {k},
           call' = [call EXCEPT ![k] = d]
    PROVE  /\ call'[k] = d
           /\ d = NoCall => Calls(i)' = {}
           /\ d # NoCall => Calls(i)' = {k}
<1>1. call \in [1..InFlight -> Call \cup {NoCall}]
  BY DEF Typed
<1>2. call'[k] = d /\ \A l \in 1..InFlight : l # k => call'[l] = call[l]
  BY <1>1
<1> QED BY <1>2 DEF Calls

\* There is a first free call.
LEMMA FirstExists ==
    ASSUME NEW S, S \subseteq Nat, S # {}
    PROVE  (CHOOSE k \in S : \A l \in S : k <= l) \in S
<1> DEFINE less == {ss \in Nat \X Nat : ss[1] < ss[2]}
<1>1. IsWellFoundedOn(less, Nat)
  BY NatLessThanWellFounded, Zenon DEF OpToRel
<1>2. PICK n \in S : \A m \in S : ~(<<m, n>> \in less)
  <2> HIDE DEF less
  <2> QED BY <1>1, WFMin
<1>3. ASSUME NEW m \in S PROVE n <= m
  <2>1. m \in Nat /\ n \in Nat
    OBVIOUS
  <2>2. m < n => <<m, n>> \in less
    BY <2>1
  <2> QED BY <1>2, <2>1, <2>2
<1> QED BY <1>3

\* A call that starts.
LEMMA IssueHolds ==
    ASSUME Typed, HeldInv, NEW i \in sc.clients, NEW kind \in {"publish", "set", "accept"},
           NEW n \in Name \cup {NoName}, NEW t \in tokens \cup {NoToken},
           kind = "publish" => n = config[i], kind # "publish" => n # NoName,
           Issue(i, kind, n, t), UNCHANGED <<policy, config, granted, rows, username>>,
           running' \subseteq Identity
    PROVE  HeldInv'
<1> DEFINE free == {k \in 1..InFlight : call[k] = NoCall}
<1>1. PICK first : first = CHOOSE k \in free : \A l \in free : k <= l
  OBVIOUS
<1>2. PICK new : new = [who |-> i, kind |-> kind, name |-> n, token |-> t, st |-> "sent",
                        status |-> 0, deaf |-> FALSE]
  OBVIOUS
<1>3. /\ free # {} /\ call' = [call EXCEPT ![first] = new]
      /\ unsure' = IF Calls(i) # {} THEN unsure \cup {i} ELSE unsure
  BY <1>1, <1>2 DEF Issue
<1>4. i \in Identity /\ t \in Token \cup {NoToken}
  BY DEF Typed, Scenario
<1>5. new \in Call /\ new # NoCall
  <2>1. [who |-> i, kind |-> kind, name |-> n, token |-> t, st |-> "sent",
         status |-> 0, deaf |-> FALSE] \in Call
    BY <1>4 DEF Call
  <2> QED BY <1>2, <2>1, NoCallAssumption
<1>6. new.who = i /\ new.kind = kind /\ new.name = n /\ new.st = "sent" /\ new.deaf = FALSE
  BY <1>2
<1>7. first \in free
  <2>1. free \subseteq Nat
    OBVIOUS
  <2> QED BY <1>1, <1>3, <2>1, FirstExists
<1>8. first \in 1..InFlight /\ call[first] = NoCall
  BY <1>7
<1>9. /\ new.who = i /\ call' = [call EXCEPT ![first] = new]
      /\ call[first] # NoCall => call[first].who = i
  BY <1>3, <1>6, <1>8
<1>10. ASSUME NEW j \in Identity \ unsure' PROVE Holds(j)'
  <2>1. j \in Identity \ unsure /\ Holds(j)
    BY <1>3, <1>10 DEF HeldInv
  <2>2. CASE j # i
    <3>1. Calls(j)' = Calls(j) /\ \A l \in Calls(j) : call'[l] = call[l]
      BY <1>8, <1>9, <2>2, OtherCalls
    <3> QED BY <2>1, <3>1, HoldsStill
  <2>3. CASE j = i
    <3>1. Calls(i) = {}
      BY <1>3, <1>10, <2>3
    <3>2. Calls(i)' = {first} /\ call'[first] = new /\ Held(i)
      BY <1>5, <1>8, <1>9, <2>1, <2>3, <3>1, OwnCall DEF Holds
    <3>3. Held(i)'
      BY <3>2 DEF Held
    <3>4. CallHolds(i, first)'
      BY <1>6, <3>2, <3>3 DEF CallHolds, HeldInv
    <3> QED BY <2>3, <3>2, <3>4 DEF Holds
  <2> QED BY <2>2, <2>3
<1> QED BY <1>3, <1>4, <1>10 DEF HeldInv

\* A call is answered, heard of, or lost.
LEMMA OthersHold ==
    ASSUME NamesInv, HeldInv, NEW k \in 1..InFlight, NEW i, call[k] # NoCall, call[k].who = i,
           NEW d, d = NoCall \/ d.who = i, call' = [call EXCEPT ![k] = d],
           NEW j \in Identity, j # i, j \notin unsure,
           granted'[j] = granted[j], j \in rows => j \in rows', username'[j] = username[j]
    PROVE  Holds(j)'
<1>1. Calls(j)' = Calls(j) /\ \A l \in Calls(j) : call'[l] = call[l]
  <2>1. call \in [1..InFlight -> Call \cup {NoCall}]
    BY DEF NamesInv, Typed
  <2>2. call'[k] = d /\ \A l \in 1..InFlight : l # k => call'[l] = call[l]
    BY <2>1
  <2>3. \A l \in 1..InFlight : call'[l] # NoCall /\ call'[l].who = j
                                   <=> call[l] # NoCall /\ call[l].who = j
    BY <2>2
  <2> QED BY <2>2, <2>3 DEF Calls
<1>2. Holds(j)
  BY DEF HeldInv
<1> QED BY <1>1, <1>2, HoldsStill

\* A request served: registered, refused, or limited.
LEMMA ServeHolds ==
    ASSUME NamesInv, HeldInv, NEW k \in 1..InFlight, Serve(k)
    PROVE  HeldInv'
<1>1. PICK c : c = call[k]
  OBVIOUS
<1>2. PICK i : i = c.who
  OBVIOUS
<1>3. PICK n : n = IF c.st = "bare" THEN NoName ELSE c.name
  OBVIOUS
<1>4. PICK t : t = IF c.st = "bare" THEN NoToken ELSE c.token
  OBVIOUS
<1>5. PICK status : status = IF limited(i) THEN 429 ELSE RegisterResult(i, n, t)
  OBVIOUS
<1>6. PICK d : d = IF \/ c.deaf \/ c.st = "bare"
                      \/ c.kind = "publish" /\ status \in {200, 429}
                   THEN NoCall ELSE Answered(c, status)
  OBVIOUS
<1>7. c # NoCall /\ c \in Call /\ c.st \in {"sent", "bare"} /\ k \in Calls(i) /\ i \in sc.clients
      /\ i \in Identity
  <2>1. call \in [1..InFlight -> Call \cup {NoCall}] /\ c # NoCall /\ c.st \in {"sent", "bare"}
    BY <1>1 DEF NamesInv, Typed, Serve
  <2> QED BY <1>1, <1>2, <2>1 DEF NamesInv, Typed, Calls, Scenario
<1>8. status \in {200, 403, 409, 429}
  BY <1>5 DEF RegisterResult
<1>9. /\ call' = [call EXCEPT ![k] = d]
      /\ UNCHANGED <<policy, running, config, granted>>
  <2>1. CASE limited(i)
    BY <1>1, <1>2, <1>5, <1>6, <2>1 DEF Serve, Answered, relay
  <2>2. CASE ~limited(i)
    BY <1>1, <1>2, <1>3, <1>4, <1>5, <1>6, <2>2 DEF Serve, Answered
  <2> QED BY <2>1, <2>2
<1>10. /\ status # 200 => UNCHANGED <<rows, username, unsure>>
       /\ status = 200 => /\ rows' = (rows \ Others(n, i)) \cup {i}
                          /\ username' = [j \in Identity |->
                                             IF j = i THEN upserted(username[i], n)
                                             ELSE IF j \in Others(n, i) THEN NoName
                                             ELSE username[j]]
                          /\ unsure' = unsure \cup Others(n, i)
  <2>1. CASE limited(i)
    BY <1>1, <1>2, <1>5, <2>1 DEF Serve, relay
  <2>2. CASE ~limited(i)
    BY <1>1, <1>2, <1>3, <1>4, <1>5, <2>2 DEF Serve, registerPrekeyTx
  <2> QED BY <2>1, <2>2
<1>11. d # NoCall => /\ d = Answered(c, status) /\ d \in Call /\ d.who = i /\ d.kind = c.kind
                     /\ d.name = c.name /\ d.deaf = c.deaf /\ d.st = "answered" /\ d.status = status
  <2>1. \A x \in Call : \A y : LET a == Answered(x, y) IN
            /\ a.who = x.who /\ a.kind = x.kind /\ a.name = x.name /\ a.deaf = x.deaf
            /\ a.st = "answered" /\ a.status = y
    BY DEF Answered, Call
  <2>2. status \in {0, 200, 403, 409, 429}
    BY <1>8
  <2> QED BY <1>2, <1>6, <1>7, <2>1, <2>2, CallAnswered
<1>12. ASSUME NEW j \in Identity \ unsure', j # i PROVE Holds(j)'
  <2>1. j \notin unsure /\ (status = 200 => j \notin Others(n, i))
    BY <1>10, <1>12
  <2>2. (j \in rows => j \in rows') /\ username'[j] = username[j]
    BY <1>8, <1>10, <1>12, <2>1
  <2>3. d = NoCall \/ d.who = i
    BY <1>11
  <2> QED BY <1>1, <1>2, <1>7, <1>9, <1>12, <2>1, <2>2, <2>3, OthersHold
<1>13. ASSUME i \notin unsure' PROVE Holds(i)'
  <2>1. i \notin unsure /\ CallHolds(i, k)
    BY <1>7, <1>10, <1>13 DEF HeldInv, Holds
  <2>2. /\ ~c.deaf /\ Calls(i) = {k} /\ Held(i)
        /\ c.kind = "publish" => c.name = granted[i]
        /\ c.kind # "publish" => c.name # NoName
    BY <1>1, <1>7, <2>1 DEF CallHolds
  <2>3. /\ d = NoCall => Calls(i)' = {}
        /\ d # NoCall => Calls(i)' = {k} /\ call'[k] = d
    BY <1>9, <1>11, <2>2, OwnCall DEF NamesInv
  <2>4. status = 200 => i \in rows' /\ username'[i] = (IF n = NoName THEN username[i] ELSE n)
    BY <1>7, <1>10 DEF upserted
  <2>5. CASE c.st = "bare"
    <3>1. Held(i)' /\ d = NoCall
      BY <1>3, <1>6, <1>8, <1>9, <1>10, <2>2, <2>4, <2>5 DEF Held
    <3> QED BY <2>3, <3>1 DEF Holds
  <2>6. CASE c.st # "bare" /\ c.kind = "publish"
    <3>1. n = granted[i]
      BY <1>3, <2>2, <2>6
    <3>2. Held(i)'
      BY <1>8, <1>9, <1>10, <2>2, <2>4, <3>1 DEF Held
    <3>3. d # NoCall => CallHolds(i, k)'
      BY <1>6, <1>9, <1>11, <2>2, <2>3, <2>6, <3>2 DEF CallHolds
    <3> QED BY <2>3, <3>2, <3>3 DEF Holds
  <2>7. CASE c.st # "bare" /\ c.kind # "publish"
    <3>1. d # NoCall
      BY <1>6, <1>7, <1>8, <2>2, <2>7, CallAnswered, NoCallAssumption
    <3>2. status # 200 => Held(i)'
      BY <1>9, <1>10, <2>2 DEF Held
    <3>3. status = 200 => i \in rows' /\ username'[i] = c.name
      BY <1>3, <2>2, <2>4, <2>7
    <3>4. CallHolds(i, k)'
      BY <1>11, <2>2, <2>3, <2>7, <3>1, <3>2, <3>3 DEF CallHolds
    <3> QED BY <2>3, <3>1, <3>4 DEF Holds
  <2> QED BY <2>5, <2>6, <2>7
<1>14. unsure' \subseteq Identity
  BY <1>8, <1>10 DEF Others, Holders, NamesInv, Unnamed, Typed, Scenario, HeldInv
<1> QED BY <1>7, <1>9, <1>12, <1>13, <1>14 DEF HeldInv

\* An answer is heard: what the client is told it has is what the row has, and a
\* refused publication goes again without the identifier.
LEMMA ReplyHolds ==
    ASSUME NamesInv, HeldInv, NEW k \in 1..InFlight, Reply(k)
    PROVE  HeldInv'
<1>1. PICK c : c = call[k]
  OBVIOUS
<1>2. PICK i : i = c.who
  OBVIOUS
<1>3. PICK d : d = IF c.status \in {403, 409} THEN [c EXCEPT !.st = "bare"] ELSE NoCall
  OBVIOUS
<1>4. PICK given \in BOOLEAN :
          given <=> (c.status = 200 /\ c.kind # "publish") \/ (c.status = 429 /\ c.kind = "set")
  OBVIOUS
<1>5. /\ c # NoCall /\ c.st = "answered" /\ call' = [call EXCEPT ![k] = d]
      /\ given => /\ config' = [config EXCEPT ![i] = c.name]
                  /\ granted' = [granted EXCEPT ![i] = c.name]
                  /\ unsure' = IF c.status = 429 THEN unsure \cup {i} ELSE unsure
      /\ ~given => UNCHANGED <<config, granted, unsure>>
      /\ UNCHANGED <<policy, running, rows, username>>
  BY <1>1, <1>2, <1>3, <1>4 DEF Reply, relay
<1>6. c \in Call /\ k \in Calls(i) /\ i \in Identity
  <2>1. call \in [1..InFlight -> Call \cup {NoCall}]
    BY DEF NamesInv, Typed
  <2> QED BY <1>1, <1>2, <1>5, <2>1 DEF NamesInv, Typed, Calls, Scenario
<1>7. d # NoCall => /\ d.who = i /\ d.kind = c.kind /\ d.name = c.name /\ d.deaf = c.deaf
                    /\ d.st = "bare" /\ c.status \in {403, 409}
  <2>1. \A x \in Call : LET a == [x EXCEPT !.st = "bare"] IN
            /\ a.who = x.who /\ a.kind = x.kind /\ a.name = x.name /\ a.deaf = x.deaf
            /\ a.st = "bare"
    BY DEF Call
  <2> QED BY <1>2, <1>3, <1>6, <2>1
<1>8. config' = granted'
  BY <1>5 DEF HeldInv
<1>9. granted \in [Identity -> Name \cup {NoName}]
  BY DEF HeldInv, NamesInv, Typed
<1>10. ASSUME NEW j \in Identity \ unsure', j # i PROVE Holds(j)'
  <2>1. j \notin unsure /\ granted'[j] = granted[j]
    BY <1>5, <1>9, <1>10
  <2>2. d = NoCall \/ d.who = i
    BY <1>7
  <2>3. call[k] # NoCall /\ call[k].who = i /\ call' = [call EXCEPT ![k] = d]
    BY <1>1, <1>2, <1>5
  <2>4. (j \in rows => j \in rows') /\ username'[j] = username[j] /\ j \in Identity
    BY <1>5, <1>10
  <2> QED BY <1>10, <2>1, <2>2, <2>3, <2>4, OthersHold
<1>11. ASSUME i \notin unsure' PROVE Holds(i)'
  <2>1. i \notin unsure /\ CallHolds(i, k)
    BY <1>5, <1>6, <1>11 DEF HeldInv, Holds
  <2>2. /\ ~c.deaf /\ Calls(i) = {k}
        /\ c.kind = "publish" => c.name = granted[i] /\ c.status # 200
        /\ c.kind # "publish" => c.name # NoName
        /\ c.status = 200 => i \in rows /\ username[i] = c.name
        /\ c.status # 200 => Held(i)
    BY <1>1, <1>5, <2>1 DEF CallHolds
  <2>8. /\ Typed /\ call' = [call EXCEPT ![k] = d]
        /\ d = NoCall \/ d.who = i
        /\ Calls(i) \subseteq {k}
    BY <1>5, <1>7, <2>2 DEF NamesInv
  <2>3. /\ d = NoCall => Calls(i)' = {}
        /\ d # NoCall => Calls(i)' = {k} /\ call'[k] = d
    BY <2>8, OwnCall
  <2>4. CASE given
    <3>1. c.status = 200 /\ granted'[i] = c.name /\ d = NoCall
      BY <1>3, <1>4, <1>5, <1>6, <1>9, <1>11, <2>4
    <3>2. Held(i)'
      BY <1>5, <2>2, <3>1 DEF Held
    <3> QED BY <2>3, <3>1, <3>2 DEF Holds
  <2>5. CASE ~given
    <3>1. c.status # 200
      BY <1>4, <2>2, <2>5
    <3>2. Held(i)'
      BY <1>5, <2>2, <2>5, <3>1 DEF Held
    <3>3. d # NoCall => CallHolds(i, k)'
      BY <1>5, <1>7, <2>2, <2>3, <2>5, <3>2 DEF CallHolds
    <3> QED BY <2>3, <3>2, <3>3 DEF Holds
  <2> QED BY <2>4, <2>5
<1>12. unsure' \subseteq Identity
  BY <1>5, <1>6 DEF HeldInv
<1> QED BY <1>5, <1>6, <1>8, <1>10, <1>11, <1>12 DEF HeldInv

\* A call is lost: a publication changes nothing, another leaves its client unsure.
LEMMA FailHolds ==
    ASSUME NamesInv, HeldInv, NEW k \in 1..InFlight, Fail(k)
    PROVE  HeldInv'
<1>1. PICK i : i = call[k].who
  OBVIOUS
<1>2. /\ call[k] # NoCall /\ call' = [call EXCEPT ![k] = NoCall]
      /\ unsure' = IF call[k].kind = "publish" \/ call[k].st = "bare" THEN unsure
                   ELSE unsure \cup {i}
      /\ UNCHANGED <<policy, running, config, granted, rows, username>>
  BY <1>1 DEF Fail, relay
<1>3. k \in Calls(i) /\ i \in Identity
  BY <1>1, <1>2 DEF NamesInv, Typed, Calls, Scenario
<1>4. ASSUME NEW j \in Identity \ unsure', j # i PROVE Holds(j)'
  BY <1>1, <1>2, <1>4, OthersHold
<1>5. ASSUME i \notin unsure' PROVE Holds(i)'
  <2>1. i \notin unsure /\ CallHolds(i, k) /\ (call[k].kind = "publish" \/ call[k].st = "bare")
    BY <1>2, <1>3, <1>5 DEF HeldInv, Holds
  <2>2. Held(i) /\ Calls(i) = {k}
    BY <2>1 DEF CallHolds
  <2>3. Calls(i)' = {}
    BY <1>2, <2>2, OwnCall DEF NamesInv
  <2>4. Held(i)'
    BY <1>2, <2>2 DEF Held
  <2> QED BY <2>3, <2>4 DEF Holds
<1>6. unsure' \subseteq Identity
  BY <1>2, <1>3 DEF HeldInv
<1> QED BY <1>2, <1>3, <1>4, <1>5, <1>6 DEF HeldInv

\* The process ends, deaf to what is under way.
LEMMA StopHolds ==
    ASSUME NamesInv, HeldInv, NEW i \in sc.clients, Stop(i)
    PROVE  HeldInv'
<1>1. /\ running' = running \ {i}
      /\ call' = [k \in 1..InFlight |-> IF k \in Calls(i) THEN [call[k] EXCEPT !.deaf = TRUE] ELSE call[k]]
      /\ unsure' = IF Calls(i) # {} THEN unsure \cup {i} ELSE unsure
      /\ UNCHANGED <<policy, config, granted, rows, username>>
  BY DEF Stop, relay
<1>2. i \in Identity /\ call \in [1..InFlight -> Call \cup {NoCall}]
  BY DEF NamesInv, Typed, Scenario
<1>3. \A k \in 1..InFlight :
         /\ k \in Calls(i) => call'[k] # NoCall /\ call'[k].who = i
         /\ k \notin Calls(i) => call'[k] = call[k]
  <2>1. ASSUME NEW k \in Calls(i) PROVE call'[k] # NoCall /\ call'[k].who = i
    <3>1. k \in 1..InFlight /\ call[k] \in Call /\ call[k].who = i
      BY <1>2, <2>1 DEF Calls
    <3>2. call'[k] = [call[k] EXCEPT !.deaf = TRUE]
      BY <1>1, <2>1, <3>1
    <3>3. call'[k] \in Call /\ call'[k].who = call[k].who
      BY <3>1, <3>2, CallDeafened
    <3> QED BY <3>1, <3>3, NoCallAssumption
  <2> QED BY <1>1, <2>1
<1>4. ASSUME NEW j \in Identity \ unsure' PROVE Holds(j)'
  <2>1. Holds(j) /\ (j = i => Calls(i) = {})
    BY <1>1, <1>4 DEF HeldInv
  <2>2. Calls(j)' = Calls(j) /\ \A k \in Calls(j) : call'[k] = call[k]
    <3>1. \A k \in 1..InFlight : /\ k \in Calls(j) => call'[k] = call[k]
                                 /\ call'[k] # NoCall /\ call'[k].who = j <=> k \in Calls(j)
      BY <1>3, <2>1 DEF Calls
    <3> QED BY <3>1 DEF Calls
  <2> QED BY <1>1, <2>1, <2>2, HoldsStill
<1> QED BY <1>1, <1>2, <1>4 DEF HeldInv

\* What concerns no call and no row.
LEMMA ApartHolds ==
    ASSUME HeldInv, UNCHANGED <<running, config, call, rows, username, granted, unsure>>,
           policy' \in {"none", "signed-transfer", "last-writer-wins"}
    PROVE  HeldInv'
<1>1. \A i \in Identity \ unsure : Holds(i)
  BY DEF HeldInv
<1>2. ASSUME NEW i \in Identity \ unsure PROVE Holds(i)'
  <2>1. Calls(i)' = Calls(i)
    BY DEF Calls
  <2> QED BY <1>1, <2>1, HoldsStill
<1> QED BY <1>2 DEF HeldInv

\* A step keeps what was granted.
LEMMA HeldKeeps ==
    ASSUME NamesInv, HeldInv, [Next]_vars
    PROVE  HeldInv'
<1>1. /\ Typed /\ sc.clients \subseteq Identity /\ sc.names \subseteq Name
      /\ config \in [Identity -> Name \cup {NoName}] /\ running \subseteq Identity
      /\ tokens \subseteq Token /\ NoName \notin Name
  BY ConstantsAssumption DEF NamesInv, Typed, Scenario, HeldInv
<1>2. ASSUME NEW i \in sc.clients, start(i) \/ generateContactQR(i) PROVE HeldInv'
  <2>1. /\ Issue(i, "publish", config[i], NoToken)
        /\ UNCHANGED <<policy, config, granted, rows, username>>
    BY <1>2 DEF start, generateContactQR, relay
  <2>2. running' \subseteq Identity /\ config[i] \in Name \cup {NoName}
    BY <1>1, <1>2 DEF start, generateContactQR
  <2> QED BY <1>1, <2>1, <2>2, IssueHolds
<1>3. ASSUME NEW i \in sc.clients, NEW n \in sc.names, setIdentifier(i, n) PROVE HeldInv'
  <2>1. /\ Issue(i, "set", n, NoToken)
        /\ UNCHANGED <<policy, config, granted, rows, username>>
    BY <1>3 DEF setIdentifier, relay
  <2>2. running' \subseteq Identity /\ n \in Name \cup {NoName} /\ n # NoName
    BY <1>1, <1>3 DEF setIdentifier
  <2> QED BY <1>1, <2>1, <2>2, IssueHolds
<1>4. ASSUME NEW i \in sc.clients, NEW t \in tokens, acceptUsernameTransfer(i, t) PROVE HeldInv'
  <2>1. /\ Issue(i, "accept", t.name, t)
        /\ UNCHANGED <<policy, config, granted, rows, username>>
    BY <1>4 DEF acceptUsernameTransfer, relay
  <2>2. t.name \in Name
    BY <1>1 DEF Token
  <2>3. running' \subseteq Identity /\ t.name \in Name \cup {NoName} /\ t.name # NoName
    BY <1>1, <1>4, <2>2 DEF acceptUsernameTransfer
  <2> QED BY <1>1, <2>1, <2>3, IssueHolds
<1>5. ASSUME NEW i \in sc.clients, NEW n, NEW j, createUsernameTransferToken(i, n, j)
      PROVE  HeldInv'
  BY <1>5, ApartHolds DEF createUsernameTransferToken, relay, hist, HeldInv
<1>6. ASSUME NEW p \in {"signed-transfer", "last-writer-wins"}, setNamespacePolicy(p)
      PROVE  HeldInv'
  BY <1>6, ApartHolds DEF setNamespacePolicy, client, hist
<1>7. ASSUME pruneRateLimitState \/ Tick \/ vars' = vars PROVE HeldInv'
  BY <1>7, ApartHolds DEF pruneRateLimitState, Tick, vars, relay, client, hist, HeldInv
<1>8. ASSUME NEW i \in sc.clients, Stop(i) PROVE HeldInv'
  BY <1>8, StopHolds
<1>9. ASSUME NEW k \in 1..InFlight, Serve(k) \/ Reply(k) \/ Fail(k) PROVE HeldInv'
  BY <1>9, ServeHolds, ReplyHolds, FailHolds
<1> QED BY <1>2, <1>3, <1>4, <1>5, <1>6, <1>7, <1>8, <1>9 DEF Next

\* Who starts with an identifier has published it.
LEMMA InitHeld == Init => HeldInv
<1> SUFFICES ASSUME Init PROVE HeldInv
  OBVIOUS
<1>1. /\ sc \in Scenario
      /\ \A i \in Identity : sc.config[i] # NoName => i \in sc.clients
  BY ConstantsAssumption DEF Init
<1>2. running \subseteq Identity
  BY <1>1 DEF Init, Scenario
<1>3. ASSUME NEW i \in Identity PROVE Holds(i)
  <2>1. Calls(i) = {}
    BY DEF Init, Calls
  <2>2. Held(i)
    BY <1>1 DEF Init, Held
  <2> QED BY <2>1, <2>2 DEF Holds
<1> QED BY <1>2, <1>3 DEF Init, HeldInv

\* The invariant says what the run checks.
LEMMA InvariantSound ==
    ASSUME NamesInv, LimiterInv, HeldInv
    PROVE  DirectorySound
<1>1. TypeOK
  <2>1. sc \in Scenario /\ rows \subseteq Identity
    BY DEF NamesInv, Typed, Unnamed, Scenario
  <2>2. granted \in [Identity -> Name \cup {NoName}]
    BY DEF NamesInv, Typed, HeldInv
  <2> QED BY <2>1, <2>2 DEF TypeOK, NamesInv, Typed, LimiterInv, LimiterTyped, HeldInv
<1>2. NamesUnique
  BY DEF NamesInv
<1>3. ASSUME NEW i \in Identity \ unsure, granted[i] # NoName, Calls(i) = {}
      PROVE  i \in rows /\ username[i] = granted[i]
  BY <1>3 DEF HeldInv, Holds, Held
<1>4. GrantedIsHeld
  BY <1>3 DEF GrantedIsHeld
<1>5. LimitSound
  BY LimiterSound
<1> QED BY <1>1, <1>2, <1>4, <1>5 DEF DirectorySound, NamesHeld

-----------------------------------------------------------------------------
(* Theorems *)

\* In every reachable state no two rows of a namespace have the same identifier,
\* and only who has a row is found under one.
THEOREM NamesAreUnique == Spec => []NamesInv
<1>1. Init => NamesInv
  BY InitNames
<1>2. NamesInv /\ [Next]_vars => NamesInv'
  BY StepKeeps
<1> QED  BY <1>1, <1>2, PTL DEF Spec

\* While the policy is not last writer wins, an identifier passes to another only
\* by a token of its holder that has not expired, whatever else is under way.
THEOREM Consent == Spec => TakenByConsent
<1>1. ASSUME NamesInv, [Next]_vars, NEW n \in Name, NEW i \in Identity, NEW j \in Identity,
             i # j, i \in Holders(n), j \in rows', username'[j] = n
      PROVE  \/ policy = "last-writer-wins"
             \/ \E t \in tokens : t.from = i /\ t.to = j /\ t.name = n /\ now <= t.exp
  <2>1. n # NoName
    BY ConstantsAssumption
  <2>2. CASE UNCHANGED <<rows, username>>
    <3>1. i \in rows /\ j \in rows /\ username[i] = n /\ username[j] = n
      BY <1>1, <2>2 DEF Holders
    <3> QED  BY <1>1, <2>1, <3>1 DEF NamesInv, NamesUnique
  <2>3. ASSUME NEW r \in sc.clients, NEW m \in Name \cup {NoName},
               NEW t \in tokens \cup {NoToken}, registerPrekeyTx(r, m, t)
        PROVE  \/ policy = "last-writer-wins"
               \/ \E x \in tokens : x.from = i /\ x.to = j /\ x.name = n /\ now <= x.exp
    BY <1>1, <2>3, RegistrationConsents
  <2> QED  BY <1>1, <2>2, <2>3, StepKeeps
<1>2. NamesInv /\ [Next]_vars =>
          [\A n \in Name : \A i \in Holders(n), j \in rows' :
             i # j /\ username'[j] = n
             => \/ policy = "last-writer-wins"
                \/ \E t \in tokens : t.from = i /\ t.to = j /\ t.name = n /\ now <= t.exp]_vars
  <2>1. ASSUME NamesInv PROVE rows \subseteq Identity
    BY <2>1 DEF NamesInv, Unnamed, Typed, Scenario
  <2>2. NamesInv /\ [Next]_vars => rows \subseteq Identity /\ rows' \subseteq Identity
    BY <2>1, StepKeeps DEF NamesInv, Unnamed, Typed, Scenario
  <2> QED  BY <1>1, <2>2 DEF Holders
<1> QED  BY <1>2, NamesAreUnique, PTL DEF Spec, TakenByConsent

\* An identifier a client was given is the one it is found under, whatever it
\* republishes and however often it restarts, unless two of its calls crossed, one
\* was cut short, another took it, or setIdentifier met the rate limit; and the
\* limiter lets no more than two bursts through and keeps its Retry-After.
THEOREM IdentifiersHeld == Spec => []DirectorySound
<1> DEFINE Inv == NamesInv /\ LimiterInv /\ HeldInv
<1>1. Init => Inv
  BY InitNames, InitLimiter, InitHeld
<1>2. Inv /\ [Next]_vars => Inv'
  BY StepKeeps, LimiterKeeps, HeldKeeps
<1>3. Inv => DirectorySound
  BY InvariantSound
<1> QED BY <1>1, <1>2, <1>3, PTL DEF Spec

-----------------------------------------------------------------------------
(* The archive *)

Budgets == [edits : Nat, pulls : Nat, pushes : Nat, crashes : Nat, ticks : Nat,
            skew : [Device -> Nat]]
Merges  == {"tombs", "revs", "list", "filter", "load"}

\* What a job holds.
JobType ==
    [k : {"persist"}] \cup [k : {"wipe"}, p : Peer] \cup [k : {"tombstone"}, p : Peer, t : A!Stamps]
      \cup [k : {"revival"}, p : Peer, save : BOOLEAN, t : Nat, r : A!Stamps]
      \cup [k : {"collected"}, v : SUBSET Peer]
      \cup [k : {"tombs", "revs", "filter"}, a : A!Snapshot, t : A!Stamps, r : A!Stamps]
      \cup [k : {"list"}, a : A!Snapshot, t : A!Stamps, r : A!Stamps, v : SUBSET Peer]
      \cup [k : {"load"}, a : A!Snapshot]

EditsTyped ==
    /\ mem \in [Device -> SUBSET Peer]
    /\ disk \in [Device -> A!Snapshot]
    /\ jobs \in [Device -> SUBSET JobType]
    /\ archive \in A!Snapshot \cup {NoArchive} /\ puts \subseteq A!Snapshot
    /\ deviceNow \in Nat /\ newest \in A!Stamps /\ left \in Budgets
    /\ deleted \in [Device -> SUBSET Peer] /\ readded \in [Device -> SUBSET Peer]
    /\ torn \subseteq Device \X {"contacts", "tombstones", "revivals"}
    /\ pulled \in [Device -> {"no", "pulling", "merged", "restarted"}]

LEMMA JobFields ==
    \A j \in JobType :
        /\ j.k = "wipe" => j.p \in Peer
        /\ j.k = "tombstone" => j.p \in Peer /\ j.t \in A!Stamps
        /\ j.k = "revival" => j.p \in Peer /\ j.t \in Nat /\ j.r \in A!Stamps
        /\ j.k = "collected" => j.v \in SUBSET Peer
        /\ j.k \in {"tombs", "revs", "filter", "list"} => j.a \in A!Snapshot /\ j.t \in A!Stamps /\ j.r \in A!Stamps
        /\ j.k = "list" => j.v \in SUBSET Peer
        /\ j.k = "load" => j.a \in A!Snapshot
  BY DEF JobType

LEMMA JobsMade ==
    /\ [k |-> "persist"] \in JobType
    /\ \A p \in Peer : [k |-> "wipe", p |-> p] \in JobType
    /\ \A p \in Peer, t \in A!Stamps : [k |-> "tombstone", p |-> p, t |-> t] \in JobType
    /\ \A p \in Peer, s \in BOOLEAN, t \in Nat, r \in A!Stamps :
          [k |-> "revival", p |-> p, save |-> s, t |-> t, r |-> r] \in JobType
    /\ \A v \in SUBSET Peer : [k |-> "collected", v |-> v] \in JobType
    /\ \A kind \in {"tombs", "revs", "filter"}, a \in A!Snapshot, t, r \in A!Stamps :
          [k |-> kind, a |-> a, t |-> t, r |-> r] \in JobType
    /\ \A a \in A!Snapshot, t, r \in A!Stamps, v \in SUBSET Peer :
          [k |-> "list", a |-> a, t |-> t, r |-> r, v |-> v] \in JobType
    /\ \A a \in A!Snapshot : [k |-> "load", a |-> a] \in JobType
  BY DEF JobType

\* The second job of a merge is the first with its maps.
LEMMA SecondJob ==
    ASSUME NEW j \in JobType, j.k = "tombs"
    PROVE  [j EXCEPT !.k = "revs"] = [k |-> "revs", a |-> j.a, t |-> j.t, r |-> j.r]
  BY DEF JobType

LEMMA LaterNat == \A a, b \in Nat : A!Later(a, b) \in Nat /\ A!Later(a, b) >= a /\ A!Later(a, b) >= b
  BY DEF A!Later

LEMMA LaterMaps == \A s, t \in A!Stamps : A!LaterStamps(s, t) \in A!Stamps
  BY LaterNat DEF A!LaterStamps, A!Stamps

LEMMA SpendLeaves ==
    ASSUME left \in Budgets, NEW b \in {"edits", "pulls", "pushes", "crashes", "ticks"}, A!Spend(b)
    PROVE  left' \in Budgets /\ left'.skew = left.skew
<1>1. left[b] \in Nat /\ left[b] > 0
  BY DEF A!Spend, Budgets
<1>2. left[b] - 1 \in Nat
  BY <1>1
<1>3. PICK z \in Nat : z = left[b] - 1
  BY <1>2
<1>4. left' = [left EXCEPT ![b] = z]
  BY <1>3 DEF A!Spend
<1> QED BY <1>4 DEF Budgets

\* Writing a field of a disk leaves the others.
LEMMA StampsWritten ==
    ASSUME disk \in [Device -> A!Snapshot], torn \subseteq Device \X {"contacts", "tombstones", "revivals"},
           NEW d \in Device, NEW key \in {"tombstones", "revivals"}, NEW m \in A!Stamps,
           A!WriteStamps(d, key, m)
    PROVE  /\ disk' \in [Device -> A!Snapshot]
           /\ torn' \subseteq Device \X {"contacts", "tombstones", "revivals"} /\ torn \subseteq torn'
           /\ \A e \in Device \ {d} : disk'[e] = disk[e]
           /\ disk'[d].contacts = disk[d].contacts
           /\ key = "tombstones" => disk'[d].tombstones = m /\ disk'[d].revivals = disk[d].revivals
           /\ key = "revivals" => disk'[d].revivals = m /\ disk'[d].tombstones = disk[d].tombstones
           /\ <<d, key>> \notin torn' => \A p \in Peer : disk[d][key][p] <= m[p]
<1>1. disk[d] \in A!Snapshot
  OBVIOUS
<1>2. PICK s : s = [disk[d] EXCEPT ![key] = m]
  OBVIOUS
<1>3. disk' = [disk EXCEPT ![d] = s]
  BY <1>2 DEF A!WriteStamps
<1>4. /\ s \in A!Snapshot /\ s.contacts = disk[d].contacts
      /\ key = "tombstones" => s.tombstones = m /\ s.revivals = disk[d].revivals
      /\ key = "revivals" => s.revivals = m /\ s.tombstones = disk[d].tombstones
  BY <1>1, <1>2 DEF A!Snapshot
<1>5. /\ torn' \subseteq Device \X {"contacts", "tombstones", "revivals"} /\ torn \subseteq torn'
      /\ <<d, key>> \notin torn' => ~ \E p \in Peer : m[p] < disk[d][key][p]
  BY DEF A!WriteStamps, A!TearIf
<1>6. disk[d][key] \in A!Stamps
  BY <1>1 DEF A!Snapshot
<1>7. \A p \in Peer : m[p] \in Nat /\ disk[d][key][p] \in Nat
  BY <1>6 DEF A!Stamps
<1>8. <<d, key>> \notin torn' => \A p \in Peer : disk[d][key][p] <= m[p]
  BY <1>5, <1>7
<1> QED BY <1>3, <1>4, <1>5, <1>8

LEMMA ListWritten ==
    ASSUME disk \in [Device -> A!Snapshot], NEW d \in Device, NEW c \in SUBSET Peer,
           disk' = [disk EXCEPT ![d].contacts = c]
    PROVE  /\ disk' \in [Device -> A!Snapshot]
           /\ \A e \in Device \ {d} : disk'[e] = disk[e]
           /\ disk'[d].contacts = c
           /\ disk'[d].tombstones = disk[d].tombstones /\ disk'[d].revivals = disk[d].revivals
<1>1. PICK s : s = [disk[d] EXCEPT !.contacts = c]
  OBVIOUS
<1>2. disk' = [disk EXCEPT ![d] = s]
  BY <1>1
<1>3. /\ s \in A!Snapshot /\ s.contacts = c
      /\ s.tombstones = disk[d].tombstones /\ s.revivals = disk[d].revivals
  BY <1>1 DEF A!Snapshot
<1> QED BY <1>2, <1>3

\* The jobs of a device after a call, and after a step of a job.
LEMMA JobsBegun ==
    ASSUME jobs \in [Device -> SUBSET JobType], NEW d \in Device, NEW new \in SUBSET JobType,
           A!Begin(d, new)
    PROVE  jobs' \in [Device -> SUBSET JobType] /\ jobs'[d] = jobs[d] \cup new
           /\ \A e \in Device \ {d} : jobs'[e] = jobs[e]
  BY DEF A!Begin

LEMMA JobsContinue ==
    ASSUME jobs \in [Device -> SUBSET JobType], NEW d \in Device, NEW j, NEW new \in SUBSET JobType,
           A!Continue(d, j, new)
    PROVE  jobs' \in [Device -> SUBSET JobType] /\ jobs'[d] = (jobs[d] \ {j}) \cup new
           /\ \A e \in Device \ {d} : jobs'[e] = jobs[e]
  BY DEF A!Continue

LEMMA TouchedTyped ==
    ASSUME pulled \in [Device -> {"no", "pulling", "merged", "restarted"}], NEW d \in Device, A!Touched(d)
    PROVE  /\ pulled' \in [Device -> {"no", "pulling", "merged", "restarted"}]
           /\ pulled'[d] = "no" /\ \A e \in Device \ {d} : pulled'[e] = pulled[e]
  BY DEF A!Touched

LEMMA TearTyped ==
    ASSUME torn \subseteq Device \X {"contacts", "tombstones", "revivals"},
           NEW d \in Device, NEW key \in {"contacts", "tombstones", "revivals"}, NEW b, A!TearIf(d, key, b)
    PROVE  torn' \subseteq Device \X {"contacts", "tombstones", "revivals"} /\ torn \subseteq torn'
  BY DEF A!TearIf

\* A revival as it is recorded.
LEMMA RevivalMap ==
    ASSUME EditsTyped, NEW d \in Device, NEW j \in JobType, j.k = "revival"
    PROVE  /\ A!RevivalStamp(d, j) \in Nat
           /\ A!RevivalStamp(d, j) >= j.t + 1 /\ A!RevivalStamp(d, j) >= j.r[j.p]
           /\ [j.r EXCEPT ![j.p] = A!RevivalStamp(d, j)] \in A!Stamps
<1>1. j.p \in Peer /\ j.t \in Nat /\ j.r \in A!Stamps
  BY JobFields
<1>2. j.r[j.p] \in Nat
  BY <1>1 DEF A!Stamps
<1>3. A!DateNow(d) \in Nat
  BY DEF EditsTyped, A!DateNow, Budgets
<1>4. j.t + 1 \in Nat
  BY <1>1
<1>5. PICK x \in Nat : x = A!Later(A!DateNow(d), j.t + 1) /\ x >= j.t + 1
  BY <1>3, <1>4, LaterNat
<1>6. A!Later(j.r[j.p], x) \in Nat /\ A!Later(j.r[j.p], x) >= x /\ A!Later(j.r[j.p], x) >= j.r[j.p]
  BY <1>2, <1>5, LaterNat
<1>7. A!RevivalStamp(d, j) = A!Later(j.r[j.p], x)
  BY <1>5 DEF A!RevivalStamp
<1>8. A!RevivalStamp(d, j) \in Nat /\ A!RevivalStamp(d, j) >= j.t + 1 /\ A!RevivalStamp(d, j) >= j.r[j.p]
  BY <1>1, <1>2, <1>5, <1>6, <1>7
<1> QED BY <1>1, <1>8 DEF A!Stamps

LEMMA TypesKept == EditsTyped /\ [A!Next]_(A!vars) => EditsTyped'
<1> SUFFICES ASSUME EditsTyped, [A!Next]_(A!vars) PROVE EditsTyped'
  OBVIOUS
<1> USE DEF EditsTyped
<1>1. CASE UNCHANGED A!vars
  BY <1>1 DEF A!vars, A!history
<1>2. ASSUME NEW d \in Device, NEW p \in Peer, NEW new \in SUBSET JobType, A!AddContact(d, p, new)
      PROVE  EditsTyped'
  <2>1. left' \in Budgets
    BY <1>2, SpendLeaves DEF A!AddContact
  <2>2. jobs' \in [Device -> SUBSET JobType]
    BY <1>2, JobsBegun DEF A!AddContact
  <2>3. pulled' \in [Device -> {"no", "pulling", "merged", "restarted"}]
    BY <1>2, TouchedTyped DEF A!AddContact
  <2> QED BY <1>2, <2>1, <2>2, <2>3 DEF A!AddContact
<1>3. ASSUME NEW d \in Device, NEW p \in Peer,
             A!acceptContact(d, p) \/ A!addContactByKey(d, p) \/ A!onContactEstablished(d, p)
      PROVE  EditsTyped'
  <2>1. \A s \in BOOLEAN : A!Revival(d, p, s) \in JobType
    BY JobsMade DEF A!Revival, A!Snapshot, A!Stamps
  <2>2. PICK new \in SUBSET JobType : A!AddContact(d, p, new)
    BY <1>3, <2>1, JobsMade DEF A!acceptContact, A!addContactByKey, A!onContactEstablished
  <2> QED BY <1>2, <2>2
<1>4. ASSUME NEW d \in Device, NEW p \in Peer, A!removeContact(d, p) \/ A!deleteConversation(d, p)
      PROVE  EditsTyped'
  <2>1. left' \in Budgets
    BY <1>4, SpendLeaves DEF A!removeContact, A!deleteConversation
  <2>2. PICK new \in SUBSET JobType : A!Begin(d, new)
    BY <1>4, JobsMade DEF A!removeContact, A!deleteConversation
  <2>3. jobs' \in [Device -> SUBSET JobType]
    BY <2>2, JobsBegun
  <2>4. pulled' \in [Device -> {"no", "pulling", "merged", "restarted"}]
    BY <1>4, TouchedTyped DEF A!removeContact, A!deleteConversation
  <2> QED BY <1>4, <2>1, <2>3, <2>4 DEF A!removeContact, A!deleteConversation
<1>5. ASSUME NEW d \in Device, A!pushArchive(d)
      PROVE  EditsTyped'
  <2>1. left' \in Budgets
    BY <1>5, SpendLeaves DEF A!pushArchive
  <2>2. {[k |-> "collected", v |-> disk[d].contacts]} \in SUBSET JobType
    BY JobsMade DEF A!Snapshot
  <2>3. jobs' \in [Device -> SUBSET JobType]
    BY <1>5, <2>2, JobsBegun DEF A!pushArchive
  <2> QED BY <1>5, <2>1, <2>3 DEF A!pushArchive, A!history
<1>6. ASSUME NEW d \in Device, A!pullArchive(d)
      PROVE  EditsTyped'
  <2>1. left' \in Budgets
    BY <1>6, SpendLeaves DEF A!pullArchive
  <2>2. /\ archive \in A!Snapshot /\ archive.tombstones \in A!Stamps /\ archive.revivals \in A!Stamps
        /\ disk[d].tombstones \in A!Stamps /\ disk[d].revivals \in A!Stamps
    BY <1>6 DEF A!pullArchive, A!Snapshot
  <2>3. PICK t, r \in A!Stamps : /\ t = A!LaterStamps(disk[d].tombstones, archive.tombstones)
                               /\ r = A!LaterStamps(disk[d].revivals, archive.revivals)
    BY <2>2, LaterMaps
  <2>4. {[k |-> "tombs", a |-> archive, t |-> t, r |-> r]} \in SUBSET JobType
    BY <2>2, JobsMade
  <2>5. jobs' \in [Device -> SUBSET JobType]
    BY <1>6, <2>3, <2>4, JobsBegun DEF A!pullArchive
  <2> QED BY <1>6, <2>1, <2>5 DEF A!pullArchive
<1>7. ASSUME NEW d \in Device, NEW j \in jobs[d], A!persistContacts(d, j)
      PROVE  EditsTyped'
  <2>1. /\ disk' = [disk EXCEPT ![d].contacts = mem[d]] /\ mem[d] \in SUBSET Peer
        /\ torn' \subseteq Device \X {"contacts", "tombstones", "revivals"}
    BY <1>7, TearTyped DEF A!persistContacts, A!Save
  <2>2. disk' \in [Device -> A!Snapshot]
    BY <2>1, ListWritten
  <2>3. jobs' \in [Device -> SUBSET JobType]
    BY <1>7, JobsContinue DEF A!persistContacts
  <2>4. pulled' \in [Device -> {"no", "pulling", "merged", "restarted"}]
    BY <1>7, TouchedTyped DEF A!persistContacts
  <2> QED BY <1>7, <2>1, <2>2, <2>3, <2>4 DEF A!persistContacts
<1>8. ASSUME NEW d \in Device, NEW j \in jobs[d], A!recordRevival(d, j)
      PROVE  EditsTyped'
  <2>1. j \in JobType /\ j.k = "revival" /\ j.p \in Peer
    BY <1>8, JobFields DEF A!recordRevival
  <2>2. [j.r EXCEPT ![j.p] = A!RevivalStamp(d, j)] \in A!Stamps
    BY <2>1, RevivalMap
  <2>3. disk' \in [Device -> A!Snapshot] /\ torn' \subseteq Device \X {"contacts", "tombstones", "revivals"}
    BY <1>8, <2>2, StampsWritten DEF A!recordRevival
  <2>4. PICK new \in SUBSET JobType : A!Continue(d, j, new)
    BY <1>8, JobsMade DEF A!recordRevival
  <2>5. jobs' \in [Device -> SUBSET JobType]
    BY <2>4, JobsContinue
  <2>6. pulled' \in [Device -> {"no", "pulling", "merged", "restarted"}]
    BY <1>8, TouchedTyped DEF A!recordRevival
  <2>7. readded' \in [Device -> SUBSET Peer]
    BY <1>8, <2>1 DEF A!recordRevival
  <2> QED BY <1>8, <2>3, <2>5, <2>6, <2>7 DEF A!recordRevival
<1>9. ASSUME NEW d \in Device, NEW j \in jobs[d], A!Wipe(d, j)
      PROVE  EditsTyped'
  <2>1. /\ disk' = [disk EXCEPT ![d].contacts = mem[d]] /\ mem[d] \in SUBSET Peer
        /\ torn' \subseteq Device \X {"contacts", "tombstones", "revivals"}
    BY <1>9, TearTyped DEF A!Wipe, A!Save
  <2>2. disk' \in [Device -> A!Snapshot]
    BY <2>1, ListWritten
  <2>3. j \in JobType /\ j.k = "wipe" /\ j.p \in Peer
    BY <1>9, JobFields DEF A!Wipe
  <2>4. {[k |-> "tombstone", p |-> j.p, t |-> disk[d].tombstones]} \in SUBSET JobType
    BY <2>3, JobsMade DEF A!Snapshot
  <2>5. jobs' \in [Device -> SUBSET JobType]
    BY <1>9, <2>4, JobsContinue DEF A!Wipe
  <2>6. pulled' \in [Device -> {"no", "pulling", "merged", "restarted"}]
    BY <1>9, TouchedTyped DEF A!Wipe
  <2> QED BY <1>9, <2>1, <2>2, <2>5, <2>6 DEF A!Wipe
<1>10. ASSUME NEW d \in Device, NEW j \in jobs[d], A!addTombstone(d, j)
       PROVE  EditsTyped'
  <2>1. j \in JobType /\ j.k = "tombstone" /\ j.p \in Peer /\ j.t \in A!Stamps
    BY <1>10, JobFields DEF A!addTombstone
  <2>2. A!DateNow(d) \in Nat
    BY DEF A!DateNow, Budgets
  <2>3. [j.t EXCEPT ![j.p] = A!DateNow(d)] \in A!Stamps
    BY <2>1, <2>2 DEF A!Stamps
  <2>4. disk' \in [Device -> A!Snapshot] /\ torn' \subseteq Device \X {"contacts", "tombstones", "revivals"}
    BY <1>10, <2>3, StampsWritten DEF A!addTombstone
  <2>5. {} \in SUBSET JobType
    OBVIOUS
  <2>6. jobs' \in [Device -> SUBSET JobType]
    BY <1>10, <2>5, JobsContinue DEF A!addTombstone
  <2>7. pulled' \in [Device -> {"no", "pulling", "merged", "restarted"}]
    BY <1>10, TouchedTyped DEF A!addTombstone
  <2>8. newest[j.p] \in Nat
    BY <2>1 DEF A!Stamps
  <2>9. A!Later(newest[j.p], A!DateNow(d)) \in Nat
    BY <2>2, <2>8, LaterNat
  <2>10. newest' \in A!Stamps
    BY <1>10, <2>1, <2>9 DEF A!addTombstone, A!Stamps
  <2>11. deleted' \in [Device -> SUBSET Peer] /\ readded' \in [Device -> SUBSET Peer]
    BY <1>10, <2>1 DEF A!addTombstone
  <2> QED BY <1>10, <2>4, <2>6, <2>7, <2>10, <2>11 DEF A!addTombstone
<1>11. ASSUME NEW d \in Device, NEW j \in jobs[d], A!uploadArchive(d, j)
       PROVE  EditsTyped'
  <2>1. j \in JobType /\ j.k = "collected" /\ j.v \in SUBSET Peer
    BY <1>11, JobFields DEF A!uploadArchive
  <2>2. [disk[d] EXCEPT !.contacts = j.v] \in A!Snapshot
    BY <2>1 DEF A!Snapshot
  <2>3. {} \in SUBSET JobType
    OBVIOUS
  <2>4. jobs' \in [Device -> SUBSET JobType]
    BY <1>11, <2>3, JobsContinue DEF A!uploadArchive
  <2> QED BY <1>11, <2>2, <2>4 DEF A!uploadArchive, A!history
<1>12. ASSUME NEW d \in Device, NEW j \in jobs[d], A!MergeTombstones(d, j)
       PROVE  EditsTyped'
  <2>1. j \in JobType /\ j.k = "tombs" /\ j.a \in A!Snapshot /\ j.t \in A!Stamps /\ j.r \in A!Stamps
    BY <1>12, JobFields DEF A!MergeTombstones
  <2>2. disk' \in [Device -> A!Snapshot] /\ torn' \subseteq Device \X {"contacts", "tombstones", "revivals"}
    BY <1>12, <2>1, StampsWritten DEF A!MergeTombstones
  <2>3. {[j EXCEPT !.k = "revs"]} \in SUBSET JobType
    <3>1. [k |-> "revs", a |-> j.a, t |-> j.t, r |-> j.r] \in JobType
      BY <2>1, JobsMade
    <3> QED BY <2>1, <3>1, SecondJob
  <2>4. jobs' \in [Device -> SUBSET JobType]
    BY <1>12, <2>3, JobsContinue DEF A!MergeTombstones
  <2> QED BY <1>12, <2>2, <2>4 DEF A!MergeTombstones
<1>13. ASSUME NEW d \in Device, NEW j \in jobs[d], A!MergeRevivals(d, j)
       PROVE  EditsTyped'
  <2>1. j \in JobType /\ j.k = "revs" /\ j.a \in A!Snapshot /\ j.t \in A!Stamps /\ j.r \in A!Stamps
    BY <1>13, JobFields DEF A!MergeRevivals
  <2>2. disk' \in [Device -> A!Snapshot] /\ torn' \subseteq Device \X {"contacts", "tombstones", "revivals"}
    BY <1>13, <2>1, StampsWritten DEF A!MergeRevivals
  <2>3. {[k |-> "list", a |-> j.a, t |-> j.t, r |-> j.r, v |-> disk[d].contacts]} \in SUBSET JobType
    <3>1. PICK v \in SUBSET Peer : v = disk[d].contacts
      BY DEF A!Snapshot
    <3>2. [k |-> "list", a |-> j.a, t |-> j.t, r |-> j.r, v |-> v] \in JobType
      BY <2>1, JobsMade
    <3> QED BY <3>1, <3>2
  <2>4. jobs' \in [Device -> SUBSET JobType]
    BY <1>13, <2>3, JobsContinue DEF A!MergeRevivals
  <2>5. deleted' \in [Device -> SUBSET Peer]
    BY <1>13 DEF A!MergeRevivals
  <2> QED BY <1>13, <2>2, <2>4, <2>5 DEF A!MergeRevivals
<1>14. ASSUME NEW d \in Device, NEW j \in jobs[d], A!MergeContacts(d, j)
       PROVE  EditsTyped'
  <2>1. j \in JobType /\ j.k = "list" /\ j.a \in A!Snapshot /\ j.t \in A!Stamps /\ j.r \in A!Stamps /\ j.v \in SUBSET Peer
    BY <1>14, JobFields DEF A!MergeContacts
  <2>2. /\ disk' = [disk EXCEPT ![d].contacts = A!Union(j)] /\ A!Union(j) \in SUBSET Peer
        /\ torn' \subseteq Device \X {"contacts", "tombstones", "revivals"}
    BY <1>14, <2>1, TearTyped DEF A!MergeContacts, A!WriteMerged, A!Union, A!Snapshot
  <2>3. disk' \in [Device -> A!Snapshot]
    BY <2>2, ListWritten
  <2>4. {[k |-> "filter", a |-> j.a, t |-> j.t, r |-> j.r]} \in SUBSET JobType
    BY <2>1, JobsMade
  <2>5. jobs' \in [Device -> SUBSET JobType]
    BY <1>14, <2>4, JobsContinue DEF A!MergeContacts
  <2> QED BY <1>14, <2>2, <2>3, <2>5 DEF A!MergeContacts
<1>15. ASSUME NEW d \in Device, NEW j \in jobs[d], A!MergeFilter(d, j)
       PROVE  EditsTyped'
  <2>1. j \in JobType /\ j.k = "filter" /\ j.a \in A!Snapshot
    BY <1>15, JobFields DEF A!MergeFilter
  <2>2. PICK c \in SUBSET Peer : c = disk[d].contacts \ A!Tombstoned(j.t, j.r)
    BY DEF A!Snapshot
  <2>3. disk' = [disk EXCEPT ![d].contacts = c] /\ torn' \subseteq Device \X {"contacts", "tombstones", "revivals"}
    BY <1>15, <2>2, TearTyped DEF A!MergeFilter, A!WriteMerged
  <2>4. disk' \in [Device -> A!Snapshot]
    BY <2>3, ListWritten
  <2>5. {[k |-> "load", a |-> j.a]} \in SUBSET JobType
    BY <2>1, JobsMade
  <2>6. jobs' \in [Device -> SUBSET JobType]
    BY <1>15, <2>5, JobsContinue DEF A!MergeFilter
  <2> QED BY <1>15, <2>3, <2>4, <2>6 DEF A!MergeFilter
<1>16. ASSUME NEW d \in Device, NEW j \in jobs[d], A!loadPersistedState(d, j)
       PROVE  EditsTyped'
  <2>1. {} \in SUBSET JobType
    OBVIOUS
  <2>2. jobs' \in [Device -> SUBSET JobType]
    BY <1>16, <2>1, JobsContinue DEF A!loadPersistedState
  <2>3. disk[d].contacts \in SUBSET Peer
    BY DEF A!Snapshot
  <2>4. mem' \in [Device -> SUBSET Peer]
    BY <1>16, <2>3 DEF A!loadPersistedState
  <2>5. pulled' \in [Device -> {"no", "pulling", "merged", "restarted"}]
    BY <1>16 DEF A!loadPersistedState
  <2> QED BY <1>16, <2>2, <2>4, <2>5 DEF A!loadPersistedState
<1>17. ASSUME NEW d \in Device, A!Reload(d)
       PROVE  EditsTyped'
  <2>1. left' \in Budgets
    BY <1>17, SpendLeaves DEF A!Reload
  <2>2. disk[d].contacts \in SUBSET Peer
    BY DEF A!Snapshot
  <2>3. mem' \in [Device -> SUBSET Peer] /\ jobs' \in [Device -> SUBSET JobType]
    BY <1>17, <2>2 DEF A!Reload
  <2>4. pulled' \in [Device -> {"no", "pulling", "merged", "restarted"}]
    BY <1>17 DEF A!Reload
  <2> QED BY <1>17, <2>1, <2>3, <2>4 DEF A!Reload
<1>18. ASSUME NEW d \in Device, A!Shutdown(d)
       PROVE  EditsTyped'
  <2>1. left' \in Budgets
    BY <1>18, SpendLeaves DEF A!Shutdown
  <2>2. /\ disk' = [disk EXCEPT ![d].contacts = mem[d]] /\ mem[d] \in SUBSET Peer
        /\ torn' \subseteq Device \X {"contacts", "tombstones", "revivals"}
    BY <1>18, TearTyped DEF A!Shutdown, A!Save
  <2>3. disk' \in [Device -> A!Snapshot]
    BY <2>2, ListWritten
  <2>4. jobs' \in [Device -> SUBSET JobType]
    BY <1>18 DEF A!Shutdown
  <2>5. pulled' \in [Device -> {"no", "pulling", "merged", "restarted"}]
    BY <1>18, TouchedTyped DEF A!Shutdown
  <2> QED BY <1>18, <2>1, <2>2, <2>3, <2>4, <2>5 DEF A!Shutdown
<1>19. ASSUME NEW s \in puts, A!PutArchive(s) \/ A!PutLost(s)
       PROVE  EditsTyped'
  <2>1. pulled' \in [Device -> {"no", "pulling", "merged", "restarted"}]
    BY <1>19 DEF A!PutArchive, A!PutLost, A!history
  <2> QED BY <1>19, <2>1 DEF A!PutArchive, A!PutLost, A!history
<1>20. CASE A!Tick
  <2>1. left' \in Budgets
    BY <1>20, SpendLeaves DEF A!Tick
  <2> QED BY <1>20, <2>1 DEF A!Tick, A!history
<1> QED
  BY <1>1, <1>3, <1>4, <1>5, <1>6, <1>7, <1>8, <1>9, <1>10, <1>11, <1>12, <1>13, <1>14, <1>15,
     <1>16, <1>17, <1>18, <1>19, <1>20 DEF A!Next, A!Call, A!Job

-----------------------------------------------------------------------------

\* Tombstones are at most n, revivals one later or what some clock reads.
TombsOld(t, n) == \A p \in Peer : t[p] <= n[p]
RevsOld(r, n, clock) ==
    \A p \in Peer, d \in Device : \E e \in Device : r[p] <= A!Later(clock[e], n[p] + 1)

Dated(s, n, clock) == TombsOld(s.tombstones, n) /\ RevsOld(s.revivals, n, clock)

JobDated(j, n, clock) ==
    /\ j.k = "tombstone" => TombsOld(j.t, n)
    /\ j.k = "revival" => j.t <= n[j.p] /\ RevsOld(j.r, n, clock)
    /\ j.k \in {"tombs", "revs", "list", "filter"} => TombsOld(j.t, n) /\ RevsOld(j.r, n, clock)

Clocks == [e \in Device |-> A!DateNow(e)]

AllDated(n, clock) ==
    /\ \A d \in Device : Dated(disk[d], n, clock)
    /\ archive # NoArchive => Dated(archive, n, clock)
    /\ \A s \in puts : Dated(s, n, clock)
    /\ \A d \in Device : \A j \in jobs[d] : JobDated(j, n, clock)

LEMMA LaterGrows ==
    \A a, b, x, y \in Nat : a <= x /\ b <= y => A!Later(a, b) <= A!Later(x, y)
  BY DEF A!Later

LEMMA OldGrows ==
    ASSUME NEW n \in A!Stamps, NEW m \in A!Stamps, \A p \in Peer : n[p] <= m[p],
           NEW c \in [Device -> Nat], NEW k \in [Device -> Nat], \A e \in Device : c[e] <= k[e]
    PROVE  /\ \A t \in A!Stamps : TombsOld(t, n) => TombsOld(t, m)
           /\ \A r \in A!Stamps : RevsOld(r, n, c) => RevsOld(r, m, k)
<1>1. ASSUME NEW t \in A!Stamps, TombsOld(t, n) PROVE TombsOld(t, m)
  <2> SUFFICES ASSUME NEW p \in Peer PROVE t[p] <= m[p]
    BY DEF TombsOld
  <2>1. t[p] \in Nat /\ n[p] \in Nat /\ m[p] \in Nat /\ n[p] <= m[p]
    BY DEF A!Stamps
  <2>2. t[p] <= n[p]
    BY <1>1 DEF TombsOld
  <2> QED BY <2>1, <2>2
<1>2. ASSUME NEW r \in A!Stamps, RevsOld(r, n, c) PROVE RevsOld(r, m, k)
  <2> SUFFICES ASSUME NEW p \in Peer, NEW d \in Device
               PROVE  \E e \in Device : r[p] <= A!Later(k[e], m[p] + 1)
    BY DEF RevsOld
  <2>1. PICK e \in Device : r[p] <= A!Later(c[e], n[p] + 1)
    BY <1>2 DEF RevsOld
  <2>2. r[p] \in Nat /\ n[p] + 1 \in Nat /\ m[p] + 1 \in Nat /\ n[p] + 1 <= m[p] + 1
    BY DEF A!Stamps
  <2>3. c[e] \in Nat /\ k[e] \in Nat /\ c[e] <= k[e]
    OBVIOUS
  <2>4. A!Later(c[e], n[p] + 1) <= A!Later(k[e], m[p] + 1)
    BY <2>2, <2>3, LaterGrows
  <2>5. A!Later(c[e], n[p] + 1) \in Nat /\ A!Later(k[e], m[p] + 1) \in Nat
    BY <2>2, <2>3, LaterNat
  <2>6. r[p] <= A!Later(k[e], m[p] + 1)
    BY <2>1, <2>2, <2>4, <2>5
  <2> QED BY <2>6
<1> QED BY <1>1, <1>2

LEMMA AllGrow ==
    ASSUME EditsTyped, NEW n \in A!Stamps, NEW m \in A!Stamps, \A p \in Peer : n[p] <= m[p],
           NEW c \in [Device -> Nat], NEW k \in [Device -> Nat], \A e \in Device : c[e] <= k[e],
           AllDated(n, c)
    PROVE  AllDated(m, k)
<1>1. \A s \in A!Snapshot : Dated(s, n, c) => Dated(s, m, k)
  BY OldGrows DEF Dated, A!Snapshot
<1>2. ASSUME NEW j \in JobType, JobDated(j, n, c) PROVE JobDated(j, m, k)
  <2>1. CASE j.k = "revival"
    <3>1. j.p \in Peer /\ j.t \in Nat /\ j.r \in A!Stamps
      BY <2>1, JobFields
    <3>2. RevsOld(j.r, m, k)
      BY <1>2, <2>1, <3>1, OldGrows DEF JobDated
    <3>3. j.t <= n[j.p] /\ n[j.p] <= m[j.p] /\ n[j.p] \in Nat /\ m[j.p] \in Nat
      BY <1>2, <2>1, <3>1 DEF JobDated, A!Stamps
    <3> QED BY <2>1, <3>1, <3>2, <3>3 DEF JobDated
  <2>2. CASE j.k # "revival"
    BY <1>2, <2>2, JobFields, OldGrows DEF JobDated
  <2> QED BY <2>1, <2>2
<1> QED BY <1>1, <1>2 DEF AllDated, EditsTyped

LEMMA LaterOld ==
    ASSUME NEW n, NEW c
    PROVE  /\ \A s, t \in A!Stamps : TombsOld(s, n) /\ TombsOld(t, n) => TombsOld(A!LaterStamps(s, t), n)
           /\ \A s, t \in A!Stamps : RevsOld(s, n, c) /\ RevsOld(t, n, c) => RevsOld(A!LaterStamps(s, t), n, c)
<1>1. \A s, t \in A!Stamps : \A p \in Peer : A!LaterStamps(s, t)[p] = s[p] \/ A!LaterStamps(s, t)[p] = t[p]
  BY DEF A!LaterStamps, A!Later
<1> QED BY <1>1 DEF TombsOld, RevsOld

\* Time and tombstones go forward, whatever happens.
LEMMA TimeGoes ==
    ASSUME EditsTyped, [A!Next]_(A!vars)
    PROVE  /\ deviceNow <= deviceNow' /\ left'.skew = left.skew
           /\ \A p \in Peer : newest[p] <= newest'[p]
<1> USE DEF EditsTyped
<1>0. \A p \in Peer : newest[p] \in Nat
  BY DEF A!Stamps
<1>1. CASE UNCHANGED A!vars
  BY <1>0, <1>1 DEF A!vars, A!history
<1>2. ASSUME NEW d \in Device, A!Call(d) \/ A!Reload(d) \/ A!Shutdown(d)
      PROVE  deviceNow' = deviceNow /\ newest' = newest /\ left'.skew = left.skew
  BY <1>2, SpendLeaves DEF A!Call, A!acceptContact, A!addContactByKey, A!onContactEstablished, A!AddContact,
     A!removeContact, A!deleteConversation, A!pushArchive, A!pullArchive, A!Reload, A!Shutdown, A!history
<1>3. ASSUME NEW d \in Device, NEW j \in jobs[d], A!addTombstone(d, j)
      PROVE  deviceNow' = deviceNow /\ left'.skew = left.skew /\ \A p \in Peer : newest[p] <= newest'[p]
  <2>1. j.p \in Peer
    BY <1>3, JobFields DEF A!addTombstone
  <2>2. A!DateNow(d) \in Nat
    BY DEF A!DateNow, Budgets
  <2>3. PICK z : z = A!Later(newest[j.p], A!DateNow(d))
    OBVIOUS
  <2>4. z \in Nat /\ newest[j.p] <= z
    BY <1>0, <2>1, <2>2, <2>3, LaterNat
  <2>5. newest' = [newest EXCEPT ![j.p] = z]
    BY <1>3, <2>3 DEF A!addTombstone
  <2>6. \A p \in Peer : newest[p] <= newest'[p]
    BY <1>0, <2>1, <2>4, <2>5 DEF A!Stamps
  <2> QED BY <1>3, <2>6 DEF A!addTombstone
<1>4. ASSUME NEW d \in Device, A!Job(d), ~ \E j \in jobs[d] : A!addTombstone(d, j)
      PROVE  deviceNow' = deviceNow /\ newest' = newest /\ left' = left
  BY <1>4 DEF A!Job, A!persistContacts, A!recordRevival, A!Wipe, A!uploadArchive, A!MergeTombstones, A!MergeRevivals,
     A!MergeContacts, A!MergeFilter, A!loadPersistedState, A!history
<1>5. ASSUME NEW s \in puts, A!PutArchive(s) \/ A!PutLost(s)
      PROVE  deviceNow' = deviceNow /\ newest' = newest /\ left' = left
  BY <1>5 DEF A!PutArchive, A!PutLost, A!history
<1>6. CASE A!Tick
  BY <1>0, <1>6, SpendLeaves DEF A!Tick, A!history
<1> QED BY <1>0, <1>1, <1>2, <1>3, <1>4, <1>5, <1>6 DEF A!Next

\* What a step has to bring for the new state to be dated.
LEMMA StillDated ==
    ASSUME EditsTyped, EditsTyped', NEW n, NEW c, n = newest', c = Clocks', AllDated(n, c),
           \A d \in Device : disk'[d] = disk[d] \/ Dated(disk'[d], n, c),
           archive' = archive \/ archive' \in puts,
           \A s \in puts' : s \in puts \/ Dated(s, n, c),
           \A d \in Device : \A j \in jobs'[d] : j \in jobs[d] \/ JobDated(j, n, c)
    PROVE  AllDated(newest, Clocks)'
<1>1. \A d \in Device : Dated(disk'[d], n, c)
  BY DEF AllDated
<1>2. archive' # NoArchive => Dated(archive', n, c)
  BY DEF AllDated
<1>3. \A s \in puts' : Dated(s, n, c)
  BY DEF AllDated
<1>4. \A d \in Device : \A j \in jobs'[d] : JobDated(j, n, c)
  BY DEF AllDated
<1> QED BY <1>1, <1>2, <1>3, <1>4 DEF AllDated

LEMMA DatedKept ==
    ASSUME EditsTyped, EditsTyped', AllDated(newest, Clocks), [A!Next]_(A!vars)
    PROVE  AllDated(newest, Clocks)'
<1>1. PICK n : n = newest'
  OBVIOUS
<1>2. PICK c : c = Clocks'
  OBVIOUS
<1>3. /\ n \in A!Stamps /\ newest \in A!Stamps
      /\ c \in [Device -> Nat] /\ Clocks \in [Device -> Nat]
      /\ \A e \in Device : c[e] = deviceNow' + left'.skew[e] /\ Clocks[e] = deviceNow + left.skew[e]
      /\ deviceNow \in Nat /\ deviceNow' \in Nat /\ left.skew \in [Device -> Nat]
  BY <1>1, <1>2 DEF EditsTyped, Clocks, A!DateNow, Budgets
<1>4. (\A p \in Peer : newest[p] <= n[p]) /\ deviceNow <= deviceNow' /\ left'.skew = left.skew
  BY <1>1, TimeGoes
<1>5. \A e \in Device : Clocks[e] <= c[e]
  BY <1>3, <1>4
<1>6. AllDated(n, c)
  BY <1>3, <1>4, <1>5, AllGrow
<1>7. /\ \A d \in Device : disk[d] \in A!Snapshot /\ disk[d].tombstones \in A!Stamps /\ disk[d].revivals \in A!Stamps
      /\ \A d \in Device : TombsOld(disk[d].tombstones, n) /\ RevsOld(disk[d].revivals, n, c)
      /\ \A d \in Device : \A j \in jobs[d] : j \in JobType /\ JobDated(j, n, c)
  BY <1>6 DEF EditsTyped, AllDated, Dated, A!Snapshot
<1>8. JobDated([k |-> "persist"], n, c)
  BY DEF JobDated
<1> DEFINE Goal ==
        /\ \A d \in Device : disk'[d] = disk[d] \/ Dated(disk'[d], n, c)
        /\ archive' = archive \/ archive' \in puts
        /\ \A s \in puts' : s \in puts \/ Dated(s, n, c)
        /\ \A d \in Device : \A j \in jobs'[d] : j \in jobs[d] \/ JobDated(j, n, c)
<1>9. ASSUME UNCHANGED A!vars
      PROVE  Goal
  BY <1>9 DEF A!vars
<1>10. ASSUME NEW d \in Device, NEW p \in Peer,
              A!acceptContact(d, p) \/ A!addContactByKey(d, p) \/ A!onContactEstablished(d, p)
       PROVE  Goal
  <2>1. \A s \in BOOLEAN : JobDated(A!Revival(d, p, s), n, c)
    BY <1>7 DEF JobDated, A!Revival, TombsOld
  <2>2. PICK x : x = A!Revival(d, p, FALSE)
    OBVIOUS
  <2>3. PICK y : y = A!Revival(d, p, TRUE)
    OBVIOUS
  <2>4. \/ A!AddContact(d, p, {x}) \/ A!AddContact(d, p, {y})
        \/ A!AddContact(d, p, {[k |-> "persist"], x})
    BY <1>10, <2>2, <2>3 DEF A!acceptContact, A!addContactByKey, A!onContactEstablished
  <2>5. \A e \in Device : \A j \in jobs'[e] : j \in jobs[e] \/ j = [k |-> "persist"] \/ j = x \/ j = y
    BY <2>4 DEF EditsTyped, A!AddContact, A!Begin
  <2>6. JobDated(x, n, c) /\ JobDated(y, n, c)
    BY <2>1, <2>2, <2>3
  <2>7. \A e \in Device : \A j \in jobs'[e] : j \in jobs[e] \/ JobDated(j, n, c)
    BY <1>8, <2>5, <2>6
  <2> QED BY <2>4, <2>7 DEF A!AddContact
<1>11. ASSUME NEW d \in Device, NEW p \in Peer, A!removeContact(d, p) \/ A!deleteConversation(d, p)
       PROVE  Goal
  <2>1. PICK new : A!Begin(d, new) /\ \A j \in new : JobDated(j, n, c)
    BY <1>8, <1>11 DEF A!removeContact, A!deleteConversation, JobDated
  <2>2. \A e \in Device : \A j \in jobs'[e] : j \in jobs[e] \/ j \in new
    BY <2>1 DEF EditsTyped, A!Begin
  <2> QED BY <1>11, <2>1, <2>2 DEF A!removeContact, A!deleteConversation
<1>12. ASSUME NEW d \in Device, A!pushArchive(d)
       PROVE  Goal
  <2>1. \A e \in Device : \A j \in jobs'[e] : j \in jobs[e] \/ j.k = "collected"
    BY <1>12 DEF EditsTyped, A!pushArchive, A!Begin
  <2> QED BY <1>12, <2>1 DEF A!pushArchive, JobDated
<1>13. ASSUME NEW d \in Device, A!pullArchive(d)
       PROVE  Goal
  <2>1. archive \in A!Snapshot /\ Dated(archive, n, c)
    BY <1>6, <1>13 DEF EditsTyped, A!pullArchive, AllDated
  <2>2. PICK t : t = A!LaterStamps(disk[d].tombstones, archive.tombstones)
    OBVIOUS
  <2>3. PICK r : r = A!LaterStamps(disk[d].revivals, archive.revivals)
    OBVIOUS
  <2>4. TombsOld(t, n)
    BY <1>7, <2>1, <2>2, LaterOld DEF Dated, A!Snapshot
  <2>5. RevsOld(r, n, c)
    BY <1>7, <2>1, <2>3, LaterOld DEF Dated, A!Snapshot
  <2>6. \A e \in Device : \A j \in jobs'[e] : j \in jobs[e] \/ j = [k |-> "tombs", a |-> archive, t |-> t, r |-> r]
    BY <1>13, <2>2, <2>3 DEF EditsTyped, A!pullArchive, A!Begin
  <2> QED BY <1>13, <2>4, <2>5, <2>6 DEF A!pullArchive, JobDated
<1>14. ASSUME NEW d \in Device, NEW j \in jobs[d], A!persistContacts(d, j)
       PROVE  Goal
  <2>1. disk' = [disk EXCEPT ![d].contacts = mem[d]] /\ mem[d] \in SUBSET Peer
    BY <1>14 DEF A!persistContacts, A!Save, EditsTyped
  <2>2. \A e \in Device : disk'[e] = disk[e] \/ Dated(disk'[e], n, c)
    BY <1>7, <2>1, ListWritten DEF Dated, EditsTyped
  <2>3. \A e \in Device : \A i \in jobs'[e] : i \in jobs[e]
    BY <1>14 DEF EditsTyped, A!persistContacts, A!Continue
  <2> QED BY <1>14, <2>2, <2>3 DEF A!persistContacts
<1>15. ASSUME NEW d \in Device, NEW j \in jobs[d], A!recordRevival(d, j)
       PROVE  Goal
  <2>1. j \in JobType /\ j.k = "revival" /\ j.p \in Peer /\ j.t \in Nat /\ j.r \in A!Stamps
    BY <1>15, JobFields DEF A!recordRevival, EditsTyped
  <2>2. PICK x : x = A!RevivalStamp(d, j)
    OBVIOUS
  <2>3. PICK r : r = [j.r EXCEPT ![j.p] = x]
    OBVIOUS
  <2>4. r \in A!Stamps
    BY <2>1, <2>2, <2>3, RevivalMap
  <2>5. x <= A!Later(c[d], n[j.p] + 1) \/ x = j.r[j.p]
    <3>1. A!DateNow(d) \in Nat /\ A!DateNow(d) <= c[d] /\ c[d] \in Nat
      BY <1>3, <1>5 DEF A!DateNow, Clocks
    <3>2. j.t <= n[j.p] /\ n[j.p] \in Nat
      BY <1>3, <1>7, <2>1 DEF JobDated, A!Stamps
    <3>3. j.t + 1 \in Nat /\ n[j.p] + 1 \in Nat /\ j.t + 1 <= n[j.p] + 1
      BY <2>1, <3>2
    <3>4. A!Later(A!DateNow(d), j.t + 1) <= A!Later(c[d], n[j.p] + 1)
      BY <3>1, <3>3, LaterGrows
    <3>5. x = j.r[j.p] \/ x = A!Later(A!DateNow(d), j.t + 1)
      BY <2>2 DEF A!RevivalStamp, A!Later
    <3> QED BY <3>4, <3>5
  <2>6. RevsOld(j.r, n, c)
    BY <1>7, <2>1 DEF JobDated
  <2>7. RevsOld(r, n, c)
    <3> SUFFICES ASSUME NEW p \in Peer, NEW d0 \in Device
                 PROVE  \E e \in Device : r[p] <= A!Later(c[e], n[p] + 1)
      BY DEF RevsOld
    <3>1. CASE p = j.p /\ x <= A!Later(c[d], n[j.p] + 1)
      <4>1. r[p] = x
        BY <2>1, <2>3, <3>1 DEF A!Stamps
      <4> QED BY <3>1, <4>1
    <3>2. CASE p # j.p \/ x = j.r[j.p]
      <4>1. r[p] = j.r[p]
        BY <2>1, <2>3, <3>2 DEF A!Stamps
      <4> QED BY <2>6, <4>1 DEF RevsOld
    <3> QED BY <2>5, <3>1, <3>2
  <2>8. A!WriteStamps(d, "revivals", r)
    BY <1>15, <2>2, <2>3 DEF A!recordRevival
  <2>9. \A e \in Device : disk'[e] = disk[e] \/ Dated(disk'[e], n, c)
    <3>1. /\ \A e \in Device \ {d} : disk'[e] = disk[e]
          /\ disk'[d].revivals = r /\ disk'[d].tombstones = disk[d].tombstones
      BY <2>4, <2>8, StampsWritten DEF EditsTyped
    <3>2. Dated(disk'[d], n, c)
      BY <1>7, <2>7, <3>1 DEF Dated
    <3> QED BY <3>1, <3>2
  <2>10. \A e \in Device : \A i \in jobs'[e] : i \in jobs[e] \/ i = [k |-> "persist"]
    BY <1>15 DEF EditsTyped, A!recordRevival, A!Continue
  <2> QED BY <1>8, <1>15, <2>9, <2>10 DEF A!recordRevival
<1>16. ASSUME NEW d \in Device, NEW j \in jobs[d], A!Wipe(d, j)
       PROVE  Goal
  <2>1. disk' = [disk EXCEPT ![d].contacts = mem[d]] /\ mem[d] \in SUBSET Peer
    BY <1>16 DEF A!Wipe, A!Save, EditsTyped
  <2>2. \A e \in Device : disk'[e] = disk[e] \/ Dated(disk'[e], n, c)
    BY <1>7, <2>1, ListWritten DEF Dated, EditsTyped
  <2>3. \A e \in Device : \A i \in jobs'[e] :
            i \in jobs[e] \/ i = [k |-> "tombstone", p |-> j.p, t |-> disk[d].tombstones]
    BY <1>16 DEF EditsTyped, A!Wipe, A!Continue
  <2>4. \A e \in Device : \A i \in jobs'[e] : i \in jobs[e] \/ JobDated(i, n, c)
    BY <1>7, <2>3 DEF JobDated
  <2> QED BY <1>16, <2>2, <2>4 DEF A!Wipe
<1>17. ASSUME NEW d \in Device, NEW j \in jobs[d], A!addTombstone(d, j)
       PROVE  Goal
  <2>1. j \in JobType /\ j.k = "tombstone" /\ j.p \in Peer /\ j.t \in A!Stamps /\ TombsOld(j.t, n)
    BY <1>7, <1>17, JobFields DEF A!addTombstone, JobDated
  <2>2. PICK x : x = A!DateNow(d)
    OBVIOUS
  <2>3. x \in Nat
    BY <1>3, <2>2 DEF A!DateNow
  <2>4. PICK t : t = [j.t EXCEPT ![j.p] = x]
    OBVIOUS
  <2>5. n[j.p] = A!Later(newest[j.p], x)
    BY <1>1, <1>3, <1>17, <2>1, <2>2 DEF A!addTombstone, A!Stamps
  <2>6. x <= n[j.p]
    <3>1. newest[j.p] \in Nat
      BY <1>3, <2>1 DEF A!Stamps
    <3> QED BY <2>3, <2>5, <3>1, LaterNat
  <2>7. t \in A!Stamps /\ TombsOld(t, n)
    BY <2>1, <2>3, <2>4, <2>6 DEF TombsOld, A!Stamps
  <2>8. A!WriteStamps(d, "tombstones", t)
    BY <1>17, <2>2, <2>4 DEF A!addTombstone
  <2>9. \A e \in Device : disk'[e] = disk[e] \/ Dated(disk'[e], n, c)
    <3>1. /\ \A e \in Device \ {d} : disk'[e] = disk[e]
          /\ disk'[d].tombstones = t /\ disk'[d].revivals = disk[d].revivals
      BY <2>7, <2>8, StampsWritten DEF EditsTyped
    <3>2. Dated(disk'[d], n, c)
      BY <1>7, <2>7, <3>1 DEF Dated
    <3> QED BY <3>1, <3>2
  <2>10. \A e \in Device : \A i \in jobs'[e] : i \in jobs[e]
    BY <1>17 DEF EditsTyped, A!addTombstone, A!Continue
  <2> QED BY <1>17, <2>9, <2>10 DEF A!addTombstone
<1>18. ASSUME NEW d \in Device, NEW j \in jobs[d], A!uploadArchive(d, j)
       PROVE  Goal
  <2>1. PICK s : s = [disk[d] EXCEPT !.contacts = j.v]
    OBVIOUS
  <2>2. s.tombstones = disk[d].tombstones /\ s.revivals = disk[d].revivals
    BY <1>7, <2>1 DEF A!Snapshot
  <2>3. Dated(s, n, c)
    BY <1>7, <2>2 DEF Dated
  <2>4. puts' = puts \cup {s}
    BY <1>18, <2>1 DEF A!uploadArchive
  <2>5. \A e \in Device : \A i \in jobs'[e] : i \in jobs[e]
    BY <1>18 DEF EditsTyped, A!uploadArchive, A!Continue
  <2> QED BY <1>18, <2>3, <2>4, <2>5 DEF A!uploadArchive
<1>19. ASSUME NEW d \in Device, NEW j \in jobs[d], A!MergeTombstones(d, j) \/ A!MergeRevivals(d, j)
       PROVE  Goal
  <2>1. /\ j \in JobType /\ j.k \in {"tombs", "revs"} /\ j.a \in A!Snapshot /\ j.t \in A!Stamps /\ j.r \in A!Stamps
        /\ TombsOld(j.t, n) /\ RevsOld(j.r, n, c)
    BY <1>7, <1>19, JobFields DEF A!MergeTombstones, A!MergeRevivals, JobDated
  <2>2. \A e \in Device : disk'[e] = disk[e] \/ Dated(disk'[e], n, c)
    <3>1. CASE A!MergeTombstones(d, j)
      <4>1. A!WriteStamps(d, "tombstones", j.t)
        BY <3>1 DEF A!MergeTombstones
      <4>2. /\ \A e \in Device \ {d} : disk'[e] = disk[e]
            /\ disk'[d].tombstones = j.t /\ disk'[d].revivals = disk[d].revivals
        BY <2>1, <4>1, StampsWritten DEF EditsTyped
      <4>3. Dated(disk'[d], n, c)
        BY <1>7, <2>1, <4>2 DEF Dated
      <4> QED BY <4>2, <4>3
    <3>2. CASE A!MergeRevivals(d, j)
      <4>1. A!WriteStamps(d, "revivals", j.r)
        BY <3>2 DEF A!MergeRevivals
      <4>2. /\ \A e \in Device \ {d} : disk'[e] = disk[e]
            /\ disk'[d].revivals = j.r /\ disk'[d].tombstones = disk[d].tombstones
        BY <2>1, <4>1, StampsWritten DEF EditsTyped
      <4>3. Dated(disk'[d], n, c)
        BY <1>7, <2>1, <4>2 DEF Dated
      <4> QED BY <4>2, <4>3
    <3> QED BY <1>19, <3>1, <3>2
  <2>3. \A e \in Device : \A i \in jobs'[e] : i \in jobs[e] \/ JobDated(i, n, c)
    <3>1. CASE A!MergeTombstones(d, j)
      <4>1. PICK i : i = [k |-> "revs", a |-> j.a, t |-> j.t, r |-> j.r]
        OBVIOUS
      <4>2. j.k = "tombs"
        BY <3>1 DEF A!MergeTombstones
      <4>3. A!Continue(d, j, {i})
        BY <2>1, <3>1, <4>1, <4>2, SecondJob DEF A!MergeTombstones
      <4>4. JobDated(i, n, c)
        BY <2>1, <4>1 DEF JobDated
      <4> QED BY <4>3, <4>4 DEF EditsTyped, A!Continue
    <3>2. CASE A!MergeRevivals(d, j)
      <4>1. PICK i : i = [k |-> "list", a |-> j.a, t |-> j.t, r |-> j.r, v |-> disk[d].contacts]
        OBVIOUS
      <4>2. A!Continue(d, j, {i})
        BY <3>2, <4>1 DEF A!MergeRevivals
      <4>3. JobDated(i, n, c)
        BY <2>1, <4>1 DEF JobDated
      <4> QED BY <4>2, <4>3 DEF EditsTyped, A!Continue
    <3> QED BY <1>19, <3>1, <3>2
  <2> QED BY <1>19, <2>2, <2>3 DEF A!MergeTombstones, A!MergeRevivals
<1>20. ASSUME NEW d \in Device, NEW j \in jobs[d], A!MergeContacts(d, j) \/ A!MergeFilter(d, j)
       PROVE  Goal
  <2>1. /\ j \in JobType /\ j.k \in {"list", "filter"} /\ j.a \in A!Snapshot
        /\ TombsOld(j.t, n) /\ RevsOld(j.r, n, c)
    BY <1>7, <1>20, JobFields DEF A!MergeContacts, A!MergeFilter, JobDated
  <2>2. j.k = "list" => j.v \in SUBSET Peer
    BY <2>1, JobFields
  <2>3. PICK l \in SUBSET Peer : disk' = [disk EXCEPT ![d].contacts = l]
    BY <1>7, <1>20, <2>1, <2>2 DEF A!MergeContacts, A!MergeFilter, A!WriteMerged, A!Union, A!Snapshot
  <2>4. \A e \in Device : disk'[e] = disk[e] \/ Dated(disk'[e], n, c)
    BY <1>7, <2>3, ListWritten DEF Dated, EditsTyped
  <2>5. \A e \in Device : \A i \in jobs'[e] :
            \/ i \in jobs[e] \/ i = [k |-> "filter", a |-> j.a, t |-> j.t, r |-> j.r]
            \/ i = [k |-> "load", a |-> j.a]
    BY <1>20 DEF A!MergeContacts, A!MergeFilter, EditsTyped, A!Continue
  <2>6. JobDated([k |-> "filter", a |-> j.a, t |-> j.t, r |-> j.r], n, c) /\ JobDated([k |-> "load", a |-> j.a], n, c)
    BY <2>1 DEF JobDated
  <2>7. \A e \in Device : \A i \in jobs'[e] : i \in jobs[e] \/ JobDated(i, n, c)
    BY <2>5, <2>6
  <2> QED BY <1>20, <2>4, <2>7 DEF A!MergeContacts, A!MergeFilter
<1>21. ASSUME NEW d \in Device, NEW j \in jobs[d], A!loadPersistedState(d, j)
       PROVE  Goal
  <2>1. \A e \in Device : \A i \in jobs'[e] : i \in jobs[e]
    BY <1>21 DEF EditsTyped, A!loadPersistedState, A!Continue
  <2> QED BY <1>21, <2>1 DEF A!loadPersistedState
<1>22. ASSUME NEW d \in Device, A!Reload(d)
       PROVE  Goal
  BY <1>22 DEF EditsTyped, A!Reload
<1>23. ASSUME NEW d \in Device, A!Shutdown(d)
       PROVE  Goal
  <2>1. disk' = [disk EXCEPT ![d].contacts = mem[d]] /\ mem[d] \in SUBSET Peer
    BY <1>23 DEF A!Shutdown, A!Save, EditsTyped
  <2>2. \A e \in Device : disk'[e] = disk[e] \/ Dated(disk'[e], n, c)
    BY <1>7, <2>1, ListWritten DEF Dated, EditsTyped
  <2> QED BY <1>23, <2>2 DEF A!Shutdown, EditsTyped
<1>24. ASSUME NEW s \in puts, A!PutArchive(s) \/ A!PutLost(s)
       PROVE  Goal
  BY <1>24 DEF A!PutArchive, A!PutLost
<1>25. ASSUME A!Tick
       PROVE  Goal
  BY <1>25 DEF A!Tick
<1>26. Goal
  BY <1>9, <1>10, <1>11, <1>12, <1>13, <1>14, <1>15, <1>16, <1>17, <1>18, <1>19, <1>20, <1>21,
     <1>22, <1>23, <1>24, <1>25 DEF A!Next, A!Call, A!Job
<1> QED BY <1>1, <1>2, <1>6, <1>26, StillDated

-----------------------------------------------------------------------------

\* A device that has lost no tombstone keeps off what it has deleted, and has its
\* tombstone; so does a merge under way on it.
Stays(d) ==
    <<d, "tombstones">> \notin torn =>
        /\ deleted[d] \cap (mem[d] \cup disk[d].contacts) = {}
        /\ \A p \in deleted[d] : disk[d].tombstones[p] > 0
        /\ \A j \in jobs[d] :
              /\ j.k \in {"tombs", "revs", "list"} => \A p \in deleted[d] : j.t[p] > 0
              /\ j.k = "list" => deleted[d] \subseteq A!Tombstoned(j.t, j.r)

\* The disk lists what an archive lists, but for what is gone.
Lists(d, a) == a.contacts \ A!Gone(d) \subseteq disk[d].contacts /\ disk[d].contacts \cap A!Gone(d) = {}

\* How far a pull has come that has had the disk to itself.
Pulls(d, j) ==
    /\ j.a = archive
    /\ j.k \in {"revs", "list", "filter"} => disk[d].tombstones = j.t
    /\ j.k \in {"list", "filter"} => disk[d].revivals = j.r
    /\ j.k = "list" => disk[d].contacts = j.v
    /\ j.k \in {"filter", "load"} => Lists(d, j.a)

\* A device has one merge at most; none is under way where a pull is done.
PullsWell(d) ==
    /\ \A i, j \in jobs[d] : i.k \in Merges /\ j.k \in Merges => i = j
    /\ pulled[d] = "pulling" => \A j \in jobs[d] : j.k \in Merges => Pulls(d, j)
    /\ pulled[d] \in {"merged", "restarted"} =>
          /\ \A j \in jobs[d] : j.k \notin Merges
          /\ Lists(d, archive) /\ disk[d].contacts \subseteq mem[d]
    /\ pulled[d] = "restarted" => mem[d] = disk[d].contacts

\* What device d does leaves the others alone.
Elsewhere(d) ==
    \A e \in Device \ {d} :
        /\ mem'[e] = mem[e] /\ disk'[e] = disk[e] /\ jobs'[e] = jobs[e]
        /\ deleted'[e] = deleted[e] /\ pulled'[e] = pulled[e] /\ archive' = archive

\* A write that was lost stays on record.
LEMMA TornGrows ==
    ASSUME EditsTyped, NEW d \in Device, A!Call(d) \/ A!Job(d) \/ A!Reload(d) \/ A!Shutdown(d)
    PROVE  torn \subseteq torn'
<1>1. ASSUME NEW key \in {"contacts", "tombstones", "revivals"}, NEW b, A!TearIf(d, key, b)
      PROVE  torn \subseteq torn'
  BY <1>1 DEF A!TearIf
<1>2. ASSUME NEW new, NEW p \in Peer, A!AddContact(d, p, new) PROVE torn \subseteq torn'
  BY <1>2 DEF A!AddContact
<1>3. ASSUME A!Call(d) \/ A!Reload(d) PROVE torn \subseteq torn'
  BY <1>2, <1>3 DEF A!Call, A!acceptContact, A!addContactByKey, A!onContactEstablished,
     A!removeContact, A!deleteConversation, A!pushArchive, A!pullArchive, A!Reload, A!history
<1>4. ASSUME A!Shutdown(d) \/ \E j \in jobs[d] : A!persistContacts(d, j) \/ A!Wipe(d, j)
      PROVE  torn \subseteq torn'
  BY <1>1, <1>4 DEF A!Shutdown, A!persistContacts, A!Wipe, A!Save
<1>5. ASSUME NEW j \in jobs[d], A!recordRevival(d, j) \/ A!MergeRevivals(d, j)
      PROVE  torn \subseteq torn'
  BY <1>1, <1>5 DEF A!recordRevival, A!MergeRevivals, A!WriteStamps
<1>6. ASSUME NEW j \in jobs[d], A!addTombstone(d, j) \/ A!MergeTombstones(d, j)
      PROVE  torn \subseteq torn'
  BY <1>1, <1>6 DEF A!addTombstone, A!MergeTombstones, A!WriteStamps
<1>7. ASSUME NEW j \in jobs[d], A!MergeContacts(d, j) \/ A!MergeFilter(d, j)
      PROVE  torn \subseteq torn'
  BY <1>1, <1>7 DEF A!MergeContacts, A!MergeFilter, A!WriteMerged
<1>8. ASSUME NEW j \in jobs[d], A!uploadArchive(d, j) \/ A!loadPersistedState(d, j)
      PROVE  torn \subseteq torn'
  BY <1>8 DEF A!uploadArchive, A!loadPersistedState, A!history
<1> QED BY <1>3, <1>4, <1>5, <1>6, <1>7, <1>8 DEF A!Job

LEMMA OthersRest ==
    ASSUME EditsTyped, NEW d \in Device, A!Call(d) \/ A!Job(d) \/ A!Reload(d) \/ A!Shutdown(d)
    PROVE  Elsewhere(d)
<1> USE DEF EditsTyped, Elsewhere, A!Begin, A!Continue, A!Touched
<1>1. ASSUME NEW p \in Peer, NEW new, A!AddContact(d, p, new) PROVE Elsewhere(d)
  BY <1>1 DEF A!AddContact
<1>2. ASSUME NEW p \in Peer, A!acceptContact(d, p) \/ A!addContactByKey(d, p) \/ A!onContactEstablished(d, p)
      PROVE  Elsewhere(d)
  BY <1>1, <1>2 DEF A!acceptContact, A!addContactByKey, A!onContactEstablished
<1>3. ASSUME NEW p \in Peer, A!removeContact(d, p) \/ A!deleteConversation(d, p)
      PROVE  Elsewhere(d)
  BY <1>3 DEF A!removeContact, A!deleteConversation
<1>4. ASSUME A!pushArchive(d) \/ A!pullArchive(d) \/ A!Reload(d)
      PROVE  Elsewhere(d)
  BY <1>4 DEF A!pushArchive, A!pullArchive, A!Reload, A!history
<1>5. ASSUME A!Shutdown(d)
      PROVE  Elsewhere(d)
  BY <1>5 DEF A!Shutdown, A!Save
<1>6. ASSUME NEW j \in jobs[d], A!persistContacts(d, j) \/ A!Wipe(d, j)
      PROVE  Elsewhere(d)
  BY <1>6 DEF A!persistContacts, A!Wipe, A!Save
<1>7. ASSUME NEW j \in jobs[d], A!recordRevival(d, j) \/ A!addTombstone(d, j)
      PROVE  Elsewhere(d)
  BY <1>7 DEF A!recordRevival, A!addTombstone, A!WriteStamps
<1>8. ASSUME NEW j \in jobs[d], A!MergeTombstones(d, j) \/ A!MergeRevivals(d, j)
      PROVE  Elsewhere(d)
  BY <1>8 DEF A!MergeTombstones, A!MergeRevivals, A!WriteStamps
<1>9. ASSUME NEW j \in jobs[d], A!MergeContacts(d, j) \/ A!MergeFilter(d, j)
      PROVE  Elsewhere(d)
  BY <1>9 DEF A!MergeContacts, A!MergeFilter, A!WriteMerged
<1>10. ASSUME NEW j \in jobs[d], A!uploadArchive(d, j) \/ A!loadPersistedState(d, j)
       PROVE  Elsewhere(d)
  BY <1>10 DEF A!uploadArchive, A!loadPersistedState, A!history
<1> QED
  BY <1>2, <1>3, <1>4, <1>5, <1>6, <1>7, <1>8, <1>9, <1>10 DEF A!Call, A!Job

\* A device that is touched while no merge moves has nothing to show for a pull.
LEMMA TouchedPulls ==
    ASSUME NEW d \in Device, PullsWell(d), pulled'[d] = "no",
           \A j \in jobs'[d] : j.k \in Merges => j \in jobs[d]
    PROVE  PullsWell(d)'
  BY DEF PullsWell

LEMMA Restful ==
    ASSUME NEW d \in Device, Stays(d), PullsWell(d), pulled'[d] = pulled[d], deleted'[d] = deleted[d],
           mem'[d] = mem[d], disk'[d] = disk[d], archive' = archive, torn \subseteq torn',
           \A j \in jobs'[d] : j.k \in Merges => j \in jobs[d]
    PROVE  Stays(d)' /\ PullsWell(d)'
<1>1. \A j \in jobs[d] : Pulls(d, j) => Pulls(d, j)'
  BY DEF Pulls, Lists, A!Gone
<1>2. Lists(d, archive) => Lists(d, archive)'
  BY DEF Lists, A!Gone
<1>3. Stays(d)'
  BY DEF Stays, Merges
<1> QED BY <1>1, <1>2, <1>3 DEF PullsWell

LEMMA OthersKeep ==
    ASSUME NEW d \in Device, Elsewhere(d), torn \subseteq torn',
           NEW e \in Device \ {d}, Stays(e), PullsWell(e)
    PROVE  Stays(e)' /\ PullsWell(e)'
  BY Restful DEF Elsewhere

\* The steps of device d itself.
LEMMA OwnKeeps ==
    ASSUME EditsTyped, NEW d \in Device, Stays(d), PullsWell(d),
           A!Call(d) \/ A!Job(d) \/ A!Reload(d) \/ A!Shutdown(d)
    PROVE  Stays(d)' /\ PullsWell(d)'
<1>0. disk[d] \in A!Snapshot /\ disk[d].contacts \in SUBSET Peer /\ jobs[d] \in SUBSET JobType
  BY DEF EditsTyped, A!Snapshot
<1>00. torn \subseteq torn' /\ disk[d].tombstones \in A!Stamps /\ deleted[d] \in SUBSET Peer
  BY TornGrows DEF EditsTyped, A!Snapshot
<1>1. ASSUME NEW p \in Peer, A!acceptContact(d, p) \/ A!addContactByKey(d, p) \/ A!onContactEstablished(d, p)
      PROVE  Stays(d)' /\ PullsWell(d)'
  <2>1. /\ mem' = [mem EXCEPT ![d] = @ \cup {p}] /\ disk' = disk
        /\ deleted' = [deleted EXCEPT ![d] = @ \ {p}] /\ A!Touched(d)
        /\ \/ A!Begin(d, {A!Revival(d, p, FALSE)}) \/ A!Begin(d, {A!Revival(d, p, TRUE)})
           \/ A!Begin(d, {[k |-> "persist"], A!Revival(d, p, FALSE)})
    BY <1>1 DEF A!acceptContact, A!addContactByKey, A!onContactEstablished, A!AddContact
  <2>2. \A j \in jobs'[d] : j.k \in Merges => j \in jobs[d]
    <3>1. PICK x : x = A!Revival(d, p, FALSE)
      OBVIOUS
    <3>2. PICK y : y = A!Revival(d, p, TRUE)
      OBVIOUS
    <3>3. x.k = "revival" /\ y.k = "revival"
      BY <3>1, <3>2 DEF A!Revival
    <3>4. \A j \in jobs'[d] : j \in jobs[d] \/ j = [k |-> "persist"] \/ j = x \/ j = y
      BY <2>1, <3>1, <3>2 DEF A!Begin, EditsTyped
    <3> QED BY <3>3, <3>4 DEF Merges
  <2>3. PullsWell(d)'
    BY <2>1, <2>2, TouchedPulls, TouchedTyped DEF EditsTyped
  <2>4. mem'[d] = mem[d] \cup {p} /\ deleted'[d] = deleted[d] \ {p}
    BY <2>1 DEF EditsTyped
  <2>5. Stays(d)'
    BY <1>00, <2>1, <2>2, <2>4 DEF Stays, Merges
  <2> QED BY <2>3, <2>5
<1>2. ASSUME NEW p \in Peer, A!removeContact(d, p) \/ A!deleteConversation(d, p)
      PROVE  Stays(d)' /\ PullsWell(d)'
  <2>1. /\ mem' = [mem EXCEPT ![d] = @ \ {p}] /\ disk' = disk /\ deleted' = deleted /\ A!Touched(d)
        /\ A!Begin(d, {[k |-> "persist"]}) \/ A!Begin(d, {[k |-> "wipe", p |-> p]})
    BY <1>2 DEF A!removeContact, A!deleteConversation
  <2>2. \A j \in jobs'[d] : j.k \in Merges => j \in jobs[d]
    BY <2>1 DEF A!Begin, EditsTyped, Merges
  <2>3. PullsWell(d)'
    BY <2>1, <2>2, TouchedPulls, TouchedTyped DEF EditsTyped
  <2>4. mem'[d] = mem[d] \ {p}
    BY <2>1 DEF EditsTyped
  <2>5. Stays(d)'
    BY <1>00, <2>1, <2>2, <2>4 DEF Stays, Merges
  <2> QED BY <2>3, <2>5
<1>3. ASSUME A!pushArchive(d)
      PROVE  Stays(d)' /\ PullsWell(d)'
  <2>1. \A j \in jobs'[d] : j.k \in Merges => j \in jobs[d]
    BY <1>3 DEF A!pushArchive, A!Begin, EditsTyped, Merges
  <2> QED BY <1>3, <1>00, <2>1, Restful DEF A!pushArchive, A!history
<1>4. ASSUME A!pullArchive(d)
      PROVE  Stays(d)' /\ PullsWell(d)'
  <2>1. \A j \in jobs[d] : j.k \notin Merges
    BY <1>4 DEF A!pullArchive, A!Merging, Merges
  <2>2. PICK i : /\ jobs'[d] = jobs[d] \cup {i} /\ i.k = "tombs" /\ i.a = archive
                 /\ i.t = A!LaterStamps(disk[d].tombstones, archive.tombstones)
    <3>1. PICK t : t = A!LaterStamps(disk[d].tombstones, archive.tombstones)
      OBVIOUS
    <3>2. PICK r : r = A!LaterStamps(disk[d].revivals, archive.revivals)
      OBVIOUS
    <3>3. PICK i : i = [k |-> "tombs", a |-> archive, t |-> t, r |-> r]
      OBVIOUS
    <3>4. jobs'[d] = jobs[d] \cup {i}
      BY <1>4, <3>1, <3>2, <3>3 DEF A!pullArchive, A!Begin, EditsTyped
    <3> QED BY <3>1, <3>3, <3>4
  <2>3. pulled'[d] = "pulling" /\ deleted' = deleted /\ mem' = mem /\ disk' = disk /\ archive' = archive
    BY <1>4 DEF A!pullArchive, EditsTyped
  <2>4. Stays(d)'
    <3>1. archive.tombstones \in A!Stamps
      BY <1>4 DEF A!pullArchive, EditsTyped, A!Snapshot
    <3>2. \A p \in Peer : disk[d].tombstones[p] > 0 => i.t[p] > 0
      BY <1>00, <2>2, <3>1 DEF A!LaterStamps, A!Later, A!Stamps
    <3>3. \A j \in jobs'[d] : j.k \in {"tombs", "revs", "list"} => j = i
      BY <2>1, <2>2 DEF Merges
    <3> QED BY <1>00, <2>2, <2>3, <3>2, <3>3 DEF Stays
  <2>5. Pulls(d, i)'
    BY <2>2, <2>3 DEF Pulls
  <2>6. PullsWell(d)'
    BY <2>1, <2>2, <2>3, <2>5 DEF PullsWell
  <2> QED BY <2>4, <2>6
<1>5. ASSUME NEW j \in jobs[d], A!persistContacts(d, j) \/ A!Wipe(d, j)
      PROVE  Stays(d)' /\ PullsWell(d)'
  <2>1. /\ disk' = [disk EXCEPT ![d].contacts = mem[d]] /\ mem[d] \in SUBSET Peer
        /\ mem' = mem /\ deleted' = deleted /\ A!Touched(d)
    BY <1>5 DEF A!persistContacts, A!Wipe, A!Save, EditsTyped
  <2>2. disk'[d].contacts = mem[d]
    BY <2>1, ListWritten DEF EditsTyped
  <2>3. \A i \in jobs'[d] : i.k \in Merges => i \in jobs[d]
    BY <1>5 DEF A!persistContacts, A!Wipe, A!Continue, EditsTyped, Merges
  <2>4. PullsWell(d)'
    BY <2>1, <2>3, TouchedPulls, TouchedTyped DEF EditsTyped
  <2>5. Stays(d)'
    BY <1>00, <2>1, <2>2, <2>3 DEF Stays, Merges
  <2> QED BY <2>4, <2>5
<1>6. ASSUME NEW j \in jobs[d], A!recordRevival(d, j)
      PROVE  Stays(d)' /\ PullsWell(d)'
  <2>1. j \in JobType /\ j.k = "revival"
    BY <1>6 DEF A!recordRevival, EditsTyped
  <2>2. PICK r \in A!Stamps : A!WriteStamps(d, "revivals", r)
    BY <1>6, <2>1, RevivalMap DEF A!recordRevival
  <2>3. disk'[d].contacts = disk[d].contacts /\ disk'[d].tombstones = disk[d].tombstones
    BY <2>2, StampsWritten DEF EditsTyped
  <2>4. mem' = mem /\ deleted' = deleted /\ A!Touched(d)
    BY <1>6 DEF A!recordRevival
  <2>5. \A i \in jobs'[d] : i.k \in Merges => i \in jobs[d]
    BY <1>6 DEF A!recordRevival, A!Continue, EditsTyped, Merges
  <2>6. PullsWell(d)'
    BY <2>4, <2>5, TouchedPulls, TouchedTyped DEF EditsTyped
  <2>7. Stays(d)'
    BY <1>00, <2>3, <2>4, <2>5 DEF Stays, Merges
  <2> QED BY <2>6, <2>7
<1>7. ASSUME NEW j \in jobs[d], A!addTombstone(d, j)
      PROVE  Stays(d)' /\ PullsWell(d)'
  <2>1. j \in JobType /\ j.k = "tombstone" /\ j.p \in Peer /\ j.t \in A!Stamps /\ A!DateNow(d) \in Nat
    BY <1>7, JobFields DEF A!addTombstone, EditsTyped, A!DateNow, Budgets
  <2>2. PICK x \in Nat : x = A!DateNow(d)
    BY <2>1
  <2>3. PICK t \in A!Stamps : t = [j.t EXCEPT ![j.p] = x]
    BY <2>1 DEF A!Stamps
  <2>4. A!WriteStamps(d, "tombstones", t)
    BY <1>7, <2>2, <2>3 DEF A!addTombstone
  <2>5. /\ disk'[d].contacts = disk[d].contacts /\ disk'[d].tombstones = t
        /\ <<d, "tombstones">> \notin torn' => \A p \in Peer : disk[d]["tombstones"][p] <= t[p]
    BY <2>4, StampsWritten DEF EditsTyped
  <2>6. mem' = mem /\ A!Touched(d)
    BY <1>7 DEF A!addTombstone
  <2>7. \A i \in jobs'[d] : i.k \in Merges => i \in jobs[d]
    BY <1>7 DEF A!addTombstone, A!Continue, EditsTyped, Merges
  <2>8. PullsWell(d)'
    BY <2>6, <2>7, TouchedPulls, TouchedTyped DEF EditsTyped
  <2>9. \/ deleted'[d] = deleted[d]
        \/ /\ deleted'[d] = deleted[d] \cup {j.p} /\ j.p \notin mem[d] \cup disk[d].contacts
           /\ ~A!Merging(d) /\ x > disk[d].revivals[j.p]
    BY <1>7, <1>00, <2>1, <2>2 DEF A!addTombstone, EditsTyped, A!Snapshot, A!Stamps
  <2>10. \A i \in jobs'[d] : i.k \in {"tombs", "revs", "list"} => i \in jobs[d] /\ A!Merging(d)
    BY <2>7 DEF A!Merging, Merges
  <2>11. ASSUME <<d, "tombstones">> \notin torn', NEW p \in deleted'[d]
         PROVE  disk'[d].tombstones[p] > 0
    <3>1. p \in Peer /\ disk[d].tombstones[p] \in Nat /\ t[p] \in Nat /\ disk[d].tombstones[p] <= t[p]
      BY <1>00, <2>1, <2>3, <2>5, <2>9, <2>11 DEF A!Stamps
    <3>2. CASE p \in deleted[d]
      <4>1. disk[d].tombstones[p] > 0
        BY <1>00, <2>11, <3>2 DEF Stays
      <4> QED BY <2>5, <3>1, <4>1
    <3>3. CASE p \notin deleted[d]
      <4>1. p = j.p /\ x > disk[d].revivals[p] /\ disk[d].revivals[p] \in Nat
        BY <1>0, <2>9, <3>1, <3>3 DEF A!Snapshot, A!Stamps
      <4>2. t[p] = x
        BY <2>1, <2>3, <4>1 DEF A!Stamps
      <4> QED BY <2>2, <2>5, <4>1, <4>2
    <3> QED BY <3>2, <3>3
  <2>12. Stays(d)'
    BY <1>00, <2>5, <2>6, <2>9, <2>10, <2>11 DEF Stays
  <2> QED BY <2>8, <2>12
<1>8. ASSUME NEW j \in jobs[d], A!uploadArchive(d, j)
      PROVE  Stays(d)' /\ PullsWell(d)'
  <2>1. \A i \in jobs'[d] : i.k \in Merges => i \in jobs[d]
    BY <1>8 DEF A!uploadArchive, A!Continue, EditsTyped
  <2> QED BY <1>8, <1>00, <2>1, Restful DEF A!uploadArchive, A!history
<1>9. ASSUME NEW j \in jobs[d], A!MergeTombstones(d, j)
      PROVE  Stays(d)' /\ PullsWell(d)'
  <2>1. j \in JobType /\ j.k = "tombs" /\ j.a \in A!Snapshot /\ j.t \in A!Stamps /\ j.r \in A!Stamps
    BY <1>9, JobFields DEF A!MergeTombstones, EditsTyped
  <2>2. disk'[d].contacts = disk[d].contacts /\ disk'[d].tombstones = j.t
    BY <1>9, <2>1, StampsWritten DEF EditsTyped, A!MergeTombstones
  <2>3. PICK i : i = [k |-> "revs", a |-> j.a, t |-> j.t, r |-> j.r]
    OBVIOUS
  <2>4. jobs'[d] = (jobs[d] \ {j}) \cup {i} /\ i.k = "revs" /\ i.a = j.a /\ i.t = j.t
    BY <1>9, <2>1, <2>3, SecondJob DEF A!MergeTombstones, A!Continue, EditsTyped
  <2>5. mem' = mem /\ deleted' = deleted /\ pulled' = pulled /\ archive' = archive
    BY <1>9 DEF A!MergeTombstones
  <2>6. Stays(d)'
    BY <1>00, <2>1, <2>2, <2>4, <2>5 DEF Stays
  <2>7. \A h \in jobs'[d] : h.k \in Merges => h = i
    BY <2>1, <2>4 DEF PullsWell, Merges
  <2>8. pulled[d] \in {"no", "pulling"} /\ (pulled[d] = "pulling" => Pulls(d, j))
    BY <2>1 DEF PullsWell, Merges, EditsTyped
  <2>9. pulled[d] = "pulling" => Pulls(d, i)'
    BY <2>2, <2>4, <2>5, <2>8 DEF Pulls
  <2> QED BY <2>5, <2>6, <2>7, <2>8, <2>9 DEF PullsWell
<1>10. ASSUME NEW j \in jobs[d], A!MergeRevivals(d, j)
       PROVE  Stays(d)' /\ PullsWell(d)'
  <2>1. j \in JobType /\ j.k = "revs" /\ j.a \in A!Snapshot /\ j.t \in A!Stamps /\ j.r \in A!Stamps
    BY <1>10, JobFields DEF A!MergeRevivals, EditsTyped
  <2>2. /\ disk'[d].contacts = disk[d].contacts /\ disk'[d].revivals = j.r
        /\ disk'[d].tombstones = disk[d].tombstones
    BY <1>10, <2>1, StampsWritten DEF EditsTyped, A!MergeRevivals
  <2>3. PICK i : i = [k |-> "list", a |-> j.a, t |-> j.t, r |-> j.r, v |-> disk[d].contacts]
    OBVIOUS
  <2>4. /\ jobs'[d] = (jobs[d] \ {j}) \cup {i}
        /\ i.k = "list" /\ i.a = j.a /\ i.t = j.t /\ i.r = j.r /\ i.v = disk[d].contacts
    BY <1>10, <2>3 DEF A!MergeRevivals, A!Continue, EditsTyped
  <2>5. /\ mem' = mem /\ pulled' = pulled /\ archive' = archive
        /\ deleted'[d] = deleted[d] \ {p \in Peer : 0 < j.t[p] /\ j.t[p] <= j.r[p]}
    BY <1>10 DEF A!MergeRevivals, EditsTyped
  <2>6. \A h \in jobs'[d] : h.k \in Merges => h = i
    BY <2>1, <2>4 DEF PullsWell, Merges
  <2>7. Stays(d)'
    <3>1. ASSUME <<d, "tombstones">> \notin torn', NEW p \in deleted'[d]
          PROVE  j.t[p] > 0 /\ p \in A!Tombstoned(j.t, j.r)
      <4>1. p \in Peer /\ j.t[p] \in Nat /\ j.r[p] \in Nat /\ p \in deleted[d]
        BY <1>00, <2>1, <2>5 DEF A!Stamps
      <4>2. j.t[p] > 0
        BY <1>00, <2>1, <3>1, <4>1 DEF Stays
      <4>3. ~(0 < j.t[p] /\ j.t[p] <= j.r[p])
        BY <2>5, <4>1
      <4> QED BY <4>1, <4>2, <4>3 DEF A!Tombstoned
    <3>2. deleted'[d] \subseteq deleted[d]
      BY <2>5
    <3> QED BY <1>00, <2>2, <2>4, <2>5, <2>6, <3>1, <3>2 DEF Stays, Merges
  <2>8. pulled[d] \in {"no", "pulling"} /\ (pulled[d] = "pulling" => Pulls(d, j))
    BY <2>1 DEF PullsWell, Merges, EditsTyped
  <2>9. pulled[d] = "pulling" => Pulls(d, i)'
    BY <2>1, <2>2, <2>4, <2>5, <2>8 DEF Pulls
  <2> QED BY <2>5, <2>6, <2>7, <2>8, <2>9 DEF PullsWell
<1>11. ASSUME NEW j \in jobs[d], A!MergeContacts(d, j)
       PROVE  Stays(d)' /\ PullsWell(d)'
  <2>1. j \in JobType /\ j.k = "list" /\ j.a \in A!Snapshot /\ j.v \in SUBSET Peer
    BY <1>11, JobFields DEF A!MergeContacts, EditsTyped
  <2>2. PICK l \in SUBSET Peer : l = A!Union(j)
    BY <2>1 DEF A!Union, A!Snapshot
  <2>3. disk' = [disk EXCEPT ![d].contacts = l]
    BY <1>11, <2>2 DEF A!MergeContacts, A!WriteMerged
  <2>4. /\ disk'[d].contacts = l /\ disk'[d].tombstones = disk[d].tombstones
        /\ disk'[d].revivals = disk[d].revivals
    BY <2>3, ListWritten DEF EditsTyped
  <2>5. PICK i : i = [k |-> "filter", a |-> j.a, t |-> j.t, r |-> j.r]
    OBVIOUS
  <2>6. jobs'[d] = (jobs[d] \ {j}) \cup {i} /\ i.k = "filter" /\ i.a = j.a /\ i.t = j.t /\ i.r = j.r
    BY <1>11, <2>5 DEF A!MergeContacts, A!Continue, EditsTyped
  <2>7. mem' = mem /\ pulled' = pulled /\ archive' = archive /\ deleted' = deleted
    BY <1>11 DEF A!MergeContacts
  <2>8. \A h \in jobs'[d] : h.k \in Merges => h = i
    BY <2>1, <2>6 DEF PullsWell, Merges
  <2>9. <<d, "tombstones">> \notin torn' => deleted[d] \subseteq A!Tombstoned(j.t, j.r)
    BY <1>00, <2>1 DEF Stays
  <2>10. Stays(d)'
    BY <1>00, <2>2, <2>4, <2>6, <2>7, <2>8, <2>9 DEF Stays, Merges, A!Union
  <2>11. pulled[d] \in {"no", "pulling"} /\ (pulled[d] = "pulling" => Pulls(d, j))
    BY <2>1 DEF PullsWell, Merges, EditsTyped
  <2>12. ASSUME pulled[d] = "pulling" PROVE Pulls(d, i)'
    <3>1. A!Gone(d)' = A!Tombstoned(j.t, j.r)
      BY <2>1, <2>4, <2>11, <2>12 DEF Pulls, A!Gone
    <3>2. Lists(d, j.a)'
      BY <2>2, <2>4, <3>1 DEF Lists, A!Union
    <3> QED BY <2>1, <2>4, <2>6, <2>7, <2>11, <2>12, <3>2 DEF Pulls, Lists
  <2> QED BY <2>7, <2>8, <2>10, <2>11, <2>12 DEF PullsWell
<1>12. ASSUME NEW j \in jobs[d], A!MergeFilter(d, j)
       PROVE  Stays(d)' /\ PullsWell(d)'
  <2>1. j \in JobType /\ j.k = "filter"
    BY <1>12 DEF A!MergeFilter, EditsTyped
  <2>2. PICK l \in SUBSET Peer : l = disk[d].contacts \ A!Tombstoned(j.t, j.r)
    BY <1>0
  <2>3. disk' = [disk EXCEPT ![d].contacts = l]
    BY <1>12, <2>2 DEF A!MergeFilter, A!WriteMerged
  <2>4. /\ disk'[d].contacts = l /\ disk'[d].tombstones = disk[d].tombstones
        /\ disk'[d].revivals = disk[d].revivals
    BY <2>3, ListWritten DEF EditsTyped
  <2>5. PICK i : i = [k |-> "load", a |-> j.a]
    OBVIOUS
  <2>6. jobs'[d] = (jobs[d] \ {j}) \cup {i} /\ i.k = "load" /\ i.a = j.a
    BY <1>12, <2>5 DEF A!MergeFilter, A!Continue, EditsTyped
  <2>7. mem' = mem /\ pulled' = pulled /\ archive' = archive /\ deleted' = deleted
    BY <1>12 DEF A!MergeFilter
  <2>8. \A h \in jobs'[d] : h.k \in Merges => h = i
    BY <2>1, <2>6 DEF PullsWell, Merges
  <2>9. Stays(d)'
    BY <1>00, <2>2, <2>4, <2>6, <2>7, <2>8 DEF Stays, Merges
  <2>10. pulled[d] \in {"no", "pulling"} /\ (pulled[d] = "pulling" => Pulls(d, j))
    BY <2>1 DEF PullsWell, Merges, EditsTyped
  <2>11. ASSUME pulled[d] = "pulling" PROVE Pulls(d, i)'
    <3>1. A!Gone(d)' = A!Gone(d) /\ A!Gone(d) = A!Tombstoned(j.t, j.r)
      BY <2>1, <2>4, <2>10, <2>11 DEF Pulls, A!Gone
    <3>2. Lists(d, j.a)
      BY <2>1, <2>10, <2>11 DEF Pulls
    <3>3. Lists(d, j.a)'
      BY <2>2, <2>4, <3>1, <3>2 DEF Lists
    <3> QED BY <2>6, <2>7, <2>10, <2>11, <3>3 DEF Pulls, Lists
  <2> QED BY <2>7, <2>8, <2>9, <2>10, <2>11 DEF PullsWell
<1>13. ASSUME NEW j \in jobs[d], A!loadPersistedState(d, j)
       PROVE  Stays(d)' /\ PullsWell(d)'
  <2>1. j.k = "load" /\ disk' = disk /\ archive' = archive /\ deleted' = deleted
    BY <1>13 DEF A!loadPersistedState
  <2>2. mem'[d] = mem[d] \cup disk[d].contacts /\ jobs'[d] = jobs[d] \ {j}
    BY <1>13 DEF A!loadPersistedState, A!Continue, EditsTyped
  <2>3. \A h \in jobs'[d] : h.k \notin Merges
    BY <2>1, <2>2 DEF PullsWell, Merges
  <2>4. Stays(d)'
    BY <1>00, <2>1, <2>2 DEF Stays
  <2>5. pulled'[d] = IF pulled[d] = "pulling" /\ j.a = archive THEN "merged" ELSE "no"
    BY <1>13 DEF A!loadPersistedState, EditsTyped
  <2>6. pulled[d] = "pulling" => Lists(d, archive)
    BY <2>1 DEF PullsWell, Pulls, Merges
  <2>7. pulled[d] = "pulling" => Lists(d, archive)'
    BY <2>1, <2>6 DEF Lists, A!Gone
  <2> QED BY <2>1, <2>2, <2>3, <2>4, <2>5, <2>7 DEF PullsWell
<1>14. ASSUME A!Reload(d)
       PROVE  Stays(d)' /\ PullsWell(d)'
  <2>1. /\ mem'[d] = disk[d].contacts /\ jobs'[d] = {} /\ disk' = disk /\ archive' = archive
        /\ deleted' = deleted
        /\ pulled'[d] = IF pulled[d] \in {"merged", "restarted"} THEN "restarted" ELSE "no"
    BY <1>14 DEF A!Reload, EditsTyped
  <2>2. Stays(d)'
    BY <1>00, <2>1 DEF Stays
  <2>3. Lists(d, archive) => Lists(d, archive)'
    BY <2>1 DEF Lists, A!Gone
  <2> QED BY <2>1, <2>2, <2>3 DEF PullsWell
<1>15. ASSUME A!Shutdown(d)
       PROVE  Stays(d)' /\ PullsWell(d)'
  <2>1. /\ disk' = [disk EXCEPT ![d].contacts = mem[d]] /\ mem[d] \in SUBSET Peer
        /\ mem' = mem /\ deleted' = deleted /\ A!Touched(d) /\ jobs'[d] = {}
    BY <1>15 DEF A!Shutdown, A!Save, EditsTyped
  <2>2. disk'[d].contacts = mem[d]
    BY <2>1, ListWritten DEF EditsTyped
  <2>3. Stays(d)'
    BY <1>00, <2>1, <2>2 DEF Stays
  <2>4. PullsWell(d)'
    BY <2>1, TouchedPulls, TouchedTyped DEF EditsTyped
  <2> QED BY <2>3, <2>4
<1> QED
  BY <1>1, <1>2, <1>3, <1>4, <1>5, <1>6, <1>7, <1>8, <1>9, <1>10, <1>11, <1>12, <1>13, <1>14, <1>15
  DEF A!Call, A!Job

\* A relay that takes another archive leaves no pull with something to show.
LEMMA RelayKeeps ==
    ASSUME EditsTyped, NEW d \in Device, Stays(d), PullsWell(d),
           A!Tick \/ \E s \in puts : A!PutArchive(s) \/ A!PutLost(s)
    PROVE  Stays(d)' /\ PullsWell(d)'
<1>1. mem' = mem /\ disk' = disk /\ jobs' = jobs /\ deleted' = deleted /\ torn' = torn
  BY DEF A!Tick, A!PutArchive, A!PutLost, A!history
<1>2. CASE pulled'[d] = pulled[d] /\ archive' = archive
  BY <1>1, <1>2, Restful
<1>3. CASE ~(pulled'[d] = pulled[d] /\ archive' = archive)
  <2>1. pulled'[d] = "no"
    BY <1>3 DEF A!Tick, A!PutArchive, A!PutLost, A!history, EditsTyped
  <2>2. PullsWell(d)'
    BY <1>1, <2>1, TouchedPulls
  <2>3. Stays(d)'
    BY <1>1 DEF Stays
  <2> QED BY <2>2, <2>3
<1> QED BY <1>2, <1>3

-----------------------------------------------------------------------------

\* What was added again is later than every delete.
Stands(d) ==
    <<d, "revivals">> \notin torn => \A p \in readded[d] : newest[p] < disk[d].revivals[p]

LEMMA StandsStill ==
    ASSUME EditsTyped, EditsTyped', NEW d \in Device, Stands(d),
           readded'[d] \subseteq readded[d], \A p \in readded'[d] : newest'[p] = newest[p],
           torn \subseteq torn',
           <<d, "revivals">> \notin torn' => \A p \in Peer : disk[d].revivals[p] <= disk'[d].revivals[p]
    PROVE  Stands(d)'
<1> SUFFICES ASSUME <<d, "revivals">> \notin torn', NEW p \in readded'[d]
             PROVE  newest'[p] < disk'[d].revivals[p]
  BY DEF Stands
<1>1. p \in Peer /\ p \in readded[d] /\ newest'[p] = newest[p]
  BY DEF EditsTyped
<1>2. newest[p] < disk[d].revivals[p]
  BY <1>1 DEF Stands
<1>3. disk[d].revivals[p] <= disk'[d].revivals[p]
  BY <1>1
<1>4. disk[d].revivals \in A!Stamps /\ disk'[d].revivals \in A!Stamps /\ newest \in A!Stamps
  BY DEF EditsTyped, A!Snapshot
<1>5. newest[p] \in Nat /\ disk[d].revivals[p] \in Nat /\ disk'[d].revivals[p] \in Nat
  BY <1>1, <1>4 DEF A!Stamps
<1> QED BY <1>1, <1>2, <1>3, <1>5

LEMMA SameRevivals ==
    ASSUME EditsTyped, EditsTyped', NEW d \in Device, Stands(d), readded' = readded, newest' = newest,
           torn \subseteq torn', disk'[d].revivals = disk[d].revivals
    PROVE  Stands(d)'
<1>1. disk[d].revivals \in A!Stamps
  BY DEF EditsTyped, A!Snapshot
<1>2. \A p \in Peer : disk[d].revivals[p] <= disk'[d].revivals[p]
  BY <1>1 DEF A!Stamps
<1> QED BY <1>2, StandsStill

LEMMA StandsKept ==
    ASSUME EditsTyped, EditsTyped', NEW x \in Device, Stands(x), [A!Next]_(A!vars)
    PROVE  Stands(x)'
<1>0. torn \subseteq Device \X {"contacts", "tombstones", "revivals"} /\ disk \in [Device -> A!Snapshot]
  BY DEF EditsTyped
<1>1. ASSUME UNCHANGED A!vars \/ A!Tick \/ \E s \in puts : A!PutArchive(s) \/ A!PutLost(s)
      PROVE  Stands(x)'
  BY <1>1 DEF A!vars, A!history, A!Tick, A!PutArchive, A!PutLost, Stands
<1>2. ASSUME NEW d \in Device, A!Call(d) \/ A!Reload(d)
      PROVE  Stands(x)'
  <2>1. disk' = disk /\ torn' = torn /\ readded' = readded /\ newest' = newest
    BY <1>2 DEF A!Call, A!acceptContact, A!addContactByKey, A!onContactEstablished, A!AddContact,
       A!removeContact, A!deleteConversation, A!pushArchive, A!pullArchive, A!Reload, A!history
  <2> QED BY <2>1 DEF Stands
<1>3. ASSUME NEW d \in Device, NEW c \in SUBSET Peer, disk' = [disk EXCEPT ![d].contacts = c],
             readded' = readded, newest' = newest, torn \subseteq torn'
      PROVE  Stands(x)'
  <2>1. disk'[x].revivals = disk[x].revivals
    BY <1>0, <1>3, ListWritten
  <2> QED BY <1>3, <2>1, SameRevivals
<1>4. ASSUME NEW d \in Device, A!Shutdown(d)
      PROVE  Stands(x)'
  <2>1. /\ disk' = [disk EXCEPT ![d].contacts = mem[d]] /\ mem[d] \in SUBSET Peer
        /\ readded' = readded /\ newest' = newest /\ torn \subseteq torn'
    BY <1>0, <1>4, TearTyped DEF A!Shutdown, A!Save, EditsTyped
  <2> QED BY <1>3, <2>1
<1>5. ASSUME NEW d \in Device, NEW j \in jobs[d], A!persistContacts(d, j) \/ A!Wipe(d, j)
      PROVE  Stands(x)'
  <2>1. /\ disk' = [disk EXCEPT ![d].contacts = mem[d]] /\ mem[d] \in SUBSET Peer
        /\ readded' = readded /\ newest' = newest /\ torn \subseteq torn'
    BY <1>0, <1>5, TearTyped DEF A!persistContacts, A!Wipe, A!Save, EditsTyped
  <2> QED BY <1>3, <2>1
<1>6. ASSUME NEW d \in Device, NEW j \in jobs[d], A!MergeContacts(d, j) \/ A!MergeFilter(d, j)
      PROVE  Stands(x)'
  <2>1. j.k = "list" => j.v \in SUBSET Peer /\ j.a \in A!Snapshot
    BY JobFields DEF EditsTyped
  <2>2. PICK l \in SUBSET Peer : disk' = [disk EXCEPT ![d].contacts = l]
    <3>1. CASE A!MergeContacts(d, j)
      <4>1. A!Union(j) \in SUBSET Peer
        BY <2>1, <3>1 DEF A!MergeContacts, A!Union, A!Snapshot
      <4> QED BY <3>1, <4>1 DEF A!MergeContacts, A!WriteMerged
    <3>2. CASE A!MergeFilter(d, j)
      <4>1. disk[d].contacts \ A!Tombstoned(j.t, j.r) \in SUBSET Peer
        BY <1>0 DEF A!Snapshot
      <4> QED BY <3>2, <4>1 DEF A!MergeFilter, A!WriteMerged
    <3> QED BY <1>6, <3>1, <3>2
  <2>3. readded' = readded /\ newest' = newest /\ torn \subseteq torn'
    BY <1>0, <1>6, TearTyped DEF A!MergeContacts, A!MergeFilter, A!WriteMerged
  <2> QED BY <1>3, <2>2, <2>3
<1>7. ASSUME NEW d \in Device, NEW j \in jobs[d], A!uploadArchive(d, j) \/ A!loadPersistedState(d, j)
      PROVE  Stands(x)'
  <2>1. disk' = disk /\ torn' = torn /\ readded' = readded /\ newest' = newest
    BY <1>7 DEF A!uploadArchive, A!loadPersistedState, A!history
  <2> QED BY <2>1 DEF Stands
<1>8. ASSUME NEW d \in Device, NEW j \in jobs[d], A!MergeTombstones(d, j)
      PROVE  Stands(x)'
  <2>1. j.t \in A!Stamps
    BY <1>8, JobFields DEF A!MergeTombstones, EditsTyped
  <2>2. disk'[x].revivals = disk[x].revivals /\ torn \subseteq torn'
    BY <1>0, <1>8, <2>1, StampsWritten DEF A!MergeTombstones
  <2> QED BY <1>8, <2>2, SameRevivals DEF A!MergeTombstones
<1>9. ASSUME NEW d \in Device, NEW j \in jobs[d], A!addTombstone(d, j)
      PROVE  Stands(x)'
  <2>1. j \in JobType /\ j.k = "tombstone" /\ j.p \in Peer /\ j.t \in A!Stamps /\ A!DateNow(d) \in Nat
    BY <1>9, JobFields DEF A!addTombstone, EditsTyped, A!DateNow, Budgets
  <2>2. PICK t : t = [j.t EXCEPT ![j.p] = A!DateNow(d)]
    OBVIOUS
  <2>3. t \in A!Stamps /\ A!WriteStamps(d, "tombstones", t)
    BY <1>9, <2>1, <2>2 DEF A!Stamps, A!addTombstone
  <2>4. disk'[x].revivals = disk[x].revivals /\ torn \subseteq torn'
    BY <1>0, <2>3, StampsWritten
  <2>5. readded'[x] = readded[x] \ {j.p}
    BY <1>9 DEF A!addTombstone
  <2>6. \A p \in readded'[x] : newest'[p] = newest[p]
    BY <1>9, <2>5 DEF A!addTombstone, EditsTyped, A!Stamps
  <2>7. disk[x].revivals \in A!Stamps
    BY <1>0 DEF A!Snapshot
  <2>8. \A p \in Peer : disk[x].revivals[p] <= disk'[x].revivals[p]
    BY <2>4, <2>7 DEF A!Stamps
  <2> QED BY <2>4, <2>5, <2>6, <2>8, StandsStill
<1>10. ASSUME NEW d \in Device, NEW j \in jobs[d], A!MergeRevivals(d, j)
       PROVE  Stands(x)'
  <2>1. j.r \in A!Stamps /\ A!WriteStamps(d, "revivals", j.r)
    BY <1>10, JobFields DEF A!MergeRevivals, EditsTyped
  <2>2. readded' = readded /\ newest' = newest
    BY <1>10 DEF A!MergeRevivals
  <2>3. CASE x # d
    <3>1. disk'[x].revivals = disk[x].revivals /\ torn \subseteq torn'
      BY <1>0, <2>1, <2>3, StampsWritten
    <3> QED BY <2>2, <3>1, SameRevivals
  <2>4. CASE x = d
    <3>1. /\ torn \subseteq torn' /\ disk'[d].revivals = j.r
          /\ <<d, "revivals">> \notin torn' => \A p \in Peer : disk[d]["revivals"][p] <= j.r[p]
      BY <1>0, <2>1, StampsWritten
    <3>2. <<d, "revivals">> \notin torn' => \A p \in Peer : disk[d].revivals[p] <= disk'[d].revivals[p]
      BY <3>1
    <3> QED BY <2>2, <2>4, <3>1, <3>2, StandsStill
  <2> QED BY <2>3, <2>4
<1>11. ASSUME NEW d \in Device, NEW j \in jobs[d], A!recordRevival(d, j)
       PROVE  Stands(x)'
  <2>1. j \in JobType /\ j.k = "revival" /\ j.p \in Peer /\ j.t \in Nat /\ j.r \in A!Stamps
    BY <1>11, JobFields DEF A!recordRevival, EditsTyped
  <2>2. PICK s : s = A!RevivalStamp(d, j)
    OBVIOUS
  <2>3. PICK r : r = [j.r EXCEPT ![j.p] = s]
    OBVIOUS
  <2>4. s \in Nat /\ s >= j.t + 1 /\ r \in A!Stamps
    BY <2>1, <2>2, <2>3, RevivalMap
  <2>5. A!WriteStamps(d, "revivals", r) /\ newest' = newest
    BY <1>11, <2>2, <2>3 DEF A!recordRevival
  <2>6. readded' = [readded EXCEPT ![d] = IF newest[j.p] <= j.t THEN @ \cup {j.p} ELSE @]
    BY <1>11 DEF A!recordRevival
  <2>7. disk[x].revivals \in A!Stamps
    BY <1>0 DEF A!Snapshot
  <2>8. CASE x # d
    <3>1. disk'[x].revivals = disk[x].revivals /\ torn \subseteq torn'
      BY <1>0, <2>4, <2>5, <2>8, StampsWritten
    <3>2. readded'[x] = readded[x]
      BY <2>6, <2>8 DEF EditsTyped
    <3>3. \A p \in Peer : disk[x].revivals[p] <= disk'[x].revivals[p]
      BY <2>7, <3>1 DEF A!Stamps
    <3> QED BY <2>5, <3>1, <3>2, <3>3, StandsStill
  <2>9. CASE x = d
    <3>1. /\ torn \subseteq torn' /\ disk'[d].revivals = r
          /\ <<d, "revivals">> \notin torn' => \A p \in Peer : disk[d]["revivals"][p] <= r[p]
      BY <1>0, <2>4, <2>5, StampsWritten
    <3> SUFFICES ASSUME <<d, "revivals">> \notin torn', NEW p \in readded'[d]
                 PROVE  newest'[p] < disk'[d].revivals[p]
      BY <2>9 DEF Stands
    <3>2. p \in Peer /\ newest[p] \in Nat /\ disk[d].revivals[p] \in Nat /\ r[p] \in Nat
      BY <2>4, <2>7, <2>9 DEF EditsTyped, A!Stamps
    <3>3. disk[d].revivals[p] <= r[p]
      BY <3>1, <3>2
    <3>4. CASE p \in readded[d]
      <4>1. newest[p] < disk[d].revivals[p]
        BY <2>9, <3>1, <3>4 DEF Stands
      <4> QED BY <2>5, <3>1, <3>2, <3>3, <4>1
    <3>5. CASE p \notin readded[d]
      <4>1. p = j.p /\ newest[p] <= j.t
        BY <2>6, <3>5 DEF EditsTyped
      <4>2. r[p] = s
        BY <2>1, <2>3, <4>1 DEF A!Stamps
      <4> QED BY <2>1, <2>4, <2>5, <3>1, <3>2, <4>1, <4>2
    <3> QED BY <3>4, <3>5
  <2> QED BY <2>8, <2>9
<1> QED
  BY <1>1, <1>2, <1>4, <1>5, <1>6, <1>7, <1>8, <1>9, <1>10, <1>11 DEF A!Next, A!Job

-----------------------------------------------------------------------------

EditsInv ==
    /\ EditsTyped /\ AllDated(newest, Clocks)
    /\ \A d \in Device : Stays(d) /\ PullsWell(d) /\ Stands(d)

\* The devices begun alike, with nothing under way.
LEMMA EditsStart == A!Init => EditsInv
<1> SUFFICES ASSUME A!Init PROVE EditsInv
  OBVIOUS
<1>a. PICK known \in {{}, Peer} :
          LET begun == [contacts |-> known, tombstones |-> [p \in Peer |-> 0],
                        revivals |-> [p \in Peer |-> IF p \in known THEN 1 ELSE 0]]
          IN  /\ mem = [d \in Device |-> known]
              /\ disk = [d \in Device |-> begun]
              /\ archive = (IF known = {} THEN NoArchive ELSE begun)
              /\ jobs = [d \in Device |-> {}]
              /\ puts = {}
              /\ deviceNow = 1
              /\ left \in Cases
              /\ deleted = [d \in Device |-> {}]
              /\ readded = [d \in Device |-> {}]
              /\ newest = [p \in Peer |-> 0]
              /\ torn = {}
              /\ pulled = [d \in Device |-> "no"]
  BY DEF A!Init
<1> DEFINE s == [contacts |-> known, tombstones |-> [p \in Peer |-> 0],
                 revivals |-> [p \in Peer |-> IF p \in known THEN 1 ELSE 0]]
<1>b. PICK begun : begun = s
  OBVIOUS
<1>1. /\ begun = [contacts |-> known, tombstones |-> [p \in Peer |-> 0],
                  revivals |-> [p \in Peer |-> IF p \in known THEN 1 ELSE 0]]
      /\ mem = [d \in Device |-> known] /\ disk = [d \in Device |-> begun]
      /\ archive = (IF known = {} THEN NoArchive ELSE begun)
      /\ jobs = [d \in Device |-> {}] /\ puts = {} /\ deviceNow = 1 /\ left \in Cases
      /\ deleted = [d \in Device |-> {}] /\ readded = [d \in Device |-> {}]
      /\ newest = [p \in Peer |-> 0] /\ torn = {} /\ pulled = [d \in Device |-> "no"]
  BY <1>a, <1>b DEF s
<1> HIDE DEF s
<1>2. known \in SUBSET Peer /\ begun \in A!Snapshot /\ left \in Budgets /\ newest \in A!Stamps
  BY <1>1, ArchiveConstants DEF A!Snapshot, A!Stamps, A!ConstantsOK, Budgets
<1>3. EditsTyped
  BY <1>1, <1>2 DEF EditsTyped
<1>4. Dated(begun, newest, Clocks)
  <2>1. TombsOld(begun.tombstones, newest)
    BY <1>1 DEF TombsOld
  <2>2. \A p \in Peer : begun.revivals[p] \in Nat /\ begun.revivals[p] <= 1 /\ newest[p] = 0
    BY <1>1
  <2>3. \A e \in Device : Clocks[e] \in Nat
    BY <1>3 DEF EditsTyped, Clocks, A!DateNow, Budgets
  <2>4. \A p \in Peer, e \in Device : begun.revivals[p] <= A!Later(Clocks[e], newest[p] + 1)
    BY <2>2, <2>3 DEF A!Later
  <2> QED BY <2>1, <2>4 DEF Dated, RevsOld
<1>5. AllDated(newest, Clocks)
  BY <1>1, <1>4 DEF AllDated
<1>6. ASSUME NEW d \in Device PROVE Stays(d) /\ PullsWell(d) /\ Stands(d)
  BY <1>1 DEF Stays, PullsWell, Stands
<1> QED BY <1>3, <1>5, <1>6 DEF EditsInv

LEMMA EditsStep == EditsInv /\ [A!Next]_(A!vars) => EditsInv'
<1> SUFFICES ASSUME EditsInv, [A!Next]_(A!vars) PROVE EditsInv'
  OBVIOUS
<1>1. EditsTyped /\ AllDated(newest, Clocks)
  BY DEF EditsInv
<1>2. EditsTyped'
  BY <1>1, TypesKept
<1>3. AllDated(newest, Clocks)'
  BY <1>1, <1>2, DatedKept
<1>4. ASSUME NEW x \in Device PROVE Stays(x)' /\ PullsWell(x)' /\ Stands(x)'
  <2>1. Stays(x) /\ PullsWell(x) /\ Stands(x)
    BY DEF EditsInv
  <2>2. Stands(x)'
    BY <1>1, <1>2, <2>1, StandsKept
  <2>3. CASE UNCHANGED A!vars
    <3>1. /\ pulled'[x] = pulled[x] /\ deleted'[x] = deleted[x] /\ mem'[x] = mem[x] /\ disk'[x] = disk[x]
          /\ archive' = archive /\ jobs' = jobs /\ torn' = torn
      BY <2>3 DEF A!vars, A!history
    <3> QED BY <2>1, <2>2, <3>1, Restful
  <2>4. ASSUME NEW d \in Device, A!Call(d) \/ A!Job(d) \/ A!Reload(d) \/ A!Shutdown(d)
        PROVE  Stays(x)' /\ PullsWell(x)'
    <3>1. CASE x = d
      BY <1>1, <2>1, <2>4, <3>1, OwnKeeps
    <3>2. CASE x # d
      <4>1. Elsewhere(d) /\ torn \subseteq torn'
        BY <1>1, <2>4, OthersRest, TornGrows
      <4> QED BY <2>1, <3>2, <4>1, OthersKeep
    <3> QED BY <3>1, <3>2
  <2>5. ASSUME A!Tick \/ \E s \in puts : A!PutArchive(s) \/ A!PutLost(s)
        PROVE  Stays(x)' /\ PullsWell(x)'
    BY <1>1, <2>1, <2>5, RelayKeeps
  <2> QED BY <2>2, <2>3, <2>4, <2>5 DEF A!Next
<1> QED BY <1>2, <1>3, <1>4 DEF EditsInv

LEMMA EditsHold == EditsInv => A!TypeOK /\ A!DeleteSticks /\ A!ReAddStands /\ A!PullTakesEffect
<1> SUFFICES ASSUME EditsInv PROVE A!TypeOK /\ A!DeleteSticks /\ A!ReAddStands /\ A!PullTakesEffect
  OBVIOUS
<1>1. EditsTyped
  BY DEF EditsInv
<1>2. A!TypeOK
  <2>1. ASSUME NEW d \in Device, NEW p \in Peer
        PROVE  /\ disk[d].tombstones[p] <= newest[p]
               /\ \E e \in Device : disk[d].revivals[p] <= A!Later(A!DateNow(e), newest[p] + 1)
    <3>1. disk[d].tombstones[p] <= newest[p]
      BY DEF EditsInv, AllDated, Dated, TombsOld
    <3>2. \E e \in Device : disk[d].revivals[p] <= A!Later(Clocks[e], newest[p] + 1)
      BY DEF EditsInv, AllDated, Dated, RevsOld
    <3> QED BY <3>1, <3>2 DEF Clocks
  <2> QED BY <1>1, <2>1 DEF EditsTyped, A!TypeOK
<1>3. A!DeleteSticks
  BY DEF EditsInv, Stays, A!DeleteSticks, A!Whole
<1>4. A!ReAddStands
  <2> SUFFICES ASSUME NEW d \in Device, <<d, "revivals">> \notin torn, NEW p \in readded[d], p \in A!Gone(d)
               PROVE  FALSE
    BY DEF A!ReAddStands, A!Whole
  <2>1. newest[p] < disk[d].revivals[p]
    BY DEF EditsInv, Stands
  <2>2. p \in Peer /\ disk[d].tombstones[p] > disk[d].revivals[p]
    BY DEF A!Gone, A!Tombstoned
  <2>3. disk[d].tombstones[p] <= newest[p]
    BY <2>2 DEF EditsInv, AllDated, Dated, TombsOld
  <2>4. disk[d].tombstones \in A!Stamps /\ disk[d].revivals \in A!Stamps /\ newest \in A!Stamps
    BY <1>1 DEF EditsTyped, A!Snapshot
  <2> QED BY <2>1, <2>2, <2>3, <2>4 DEF A!Stamps
<1>5. A!PullTakesEffect
  <2> SUFFICES ASSUME NEW d \in Device
               PROVE  /\ pulled[d] \in {"merged", "restarted"} => archive.contacts \ A!Gone(d) \subseteq mem[d]
                      /\ pulled[d] = "restarted" => mem[d] \cap A!Gone(d) = {}
    BY DEF A!PullTakesEffect
  <2>1. PullsWell(d)
    BY DEF EditsInv
  <2> QED BY <2>1 DEF PullsWell, Lists
<1> QED BY <1>2, <1>3, <1>4, <1>5

\* A contact goes from the list of a device where the user took it off, or where
\* the maps call it deleted.
LEMMA ContactsStay ==
    ASSUME EditsTyped, [A!Next]_(A!vars), NEW x \in Device, NEW p \in disk[x].contacts \ disk'[x].contacts,
           A!Whole(x, {"contacts"})'
    PROVE  p \in A!Gone(x)' \/ p \notin mem[x]
<1>0. disk \in [Device -> A!Snapshot] /\ <<x, "contacts">> \notin torn'
  BY DEF EditsTyped, A!Whole
<1> SUFFICES ASSUME p \in mem[x] PROVE p \in A!Gone(x)'
  OBVIOUS
<1>1. ASSUME disk'[x].contacts = disk[x].contacts PROVE FALSE
  BY <1>1
<1>2. PICK d \in Device : A!Call(d) \/ A!Job(d) \/ A!Reload(d) \/ A!Shutdown(d)
  BY <1>1 DEF A!Next, A!vars, A!Tick, A!PutArchive, A!PutLost
<1>3. x = d
  BY <1>1, <1>2, OthersRest DEF Elsewhere
<1>4. ASSUME disk' = disk PROVE FALSE
  BY <1>1, <1>4
<1>5. ~A!Call(d) /\ ~A!Reload(d)
  BY <1>4 DEF A!Call, A!acceptContact, A!addContactByKey, A!onContactEstablished, A!AddContact,
     A!removeContact, A!deleteConversation, A!pushArchive, A!pullArchive, A!Reload
<1>6. ASSUME A!Save(d) PROVE FALSE
  <2>1. disk'[d].contacts = mem[d]
    BY <1>0, <1>6, ListWritten DEF A!Save, EditsTyped
  <2> QED BY <1>3, <2>1
<1>7. PICK j \in jobs[d] : A!Job(d)
  BY <1>2, <1>5, <1>6 DEF A!Shutdown, A!Job
<1>8. ASSUME NEW i \in jobs[d], NEW seen, NEW list \in SUBSET Peer, A!WriteMerged(d, i, seen, list),
             p \in seen => p \in list \cup A!Tombstoned(i.t, i.r)
      PROVE  p \in A!Gone(x)'
  <2>1. disk[d].contacts = seen /\ A!Gone(d) = A!Tombstoned(i.t, i.r)
    BY <1>0, <1>3, <1>8 DEF A!WriteMerged, A!TearIf
  <2>2. /\ disk'[d].contacts = list /\ disk'[d].tombstones = disk[d].tombstones
        /\ disk'[d].revivals = disk[d].revivals
    BY <1>0, <1>8, ListWritten DEF A!WriteMerged
  <2>3. A!Gone(d)' = A!Gone(d)
    BY <2>2 DEF A!Gone
  <2> QED BY <1>3, <1>8, <2>1, <2>2, <2>3
<1>9. ASSUME NEW i \in jobs[d], A!MergeContacts(d, i) PROVE p \in A!Gone(x)'
  <2>1. i.v \in SUBSET Peer /\ i.a \in A!Snapshot
    BY <1>9, JobFields DEF A!MergeContacts, EditsTyped
  <2>2. A!Union(i) \in SUBSET Peer /\ (p \in i.v => p \in A!Union(i) \cup A!Tombstoned(i.t, i.r))
    BY <2>1 DEF A!Union, A!Snapshot
  <2> QED BY <1>8, <1>9, <2>2 DEF A!MergeContacts
<1>10. ASSUME NEW i \in jobs[d], A!MergeFilter(d, i) PROVE p \in A!Gone(x)'
  <2>1. PICK l \in SUBSET Peer : l = disk[d].contacts \ A!Tombstoned(i.t, i.r)
    BY <1>0 DEF A!Snapshot
  <2>2. A!WriteMerged(d, i, disk[d].contacts, l)
    BY <1>10, <2>1 DEF A!MergeFilter
  <2> QED BY <1>8, <2>1, <2>2
<1>11. ASSUME NEW i \in jobs[d], A!persistContacts(d, i) \/ A!Wipe(d, i) PROVE FALSE
  BY <1>6, <1>11 DEF A!persistContacts, A!Wipe
<1>12. ASSUME NEW i \in jobs[d], A!uploadArchive(d, i) \/ A!loadPersistedState(d, i) PROVE FALSE
  BY <1>4, <1>12 DEF A!uploadArchive, A!loadPersistedState
<1>13. ASSUME NEW key \in {"tombstones", "revivals"}, NEW m \in A!Stamps, A!WriteStamps(d, key, m) PROVE FALSE
  <2>1. disk'[d].contacts = disk[d].contacts
    BY <1>13, StampsWritten DEF EditsTyped
  <2> QED BY <1>1, <1>3, <2>1
<1>14. ASSUME NEW i \in jobs[d], A!recordRevival(d, i) PROVE FALSE
  <2>1. i \in JobType /\ i.k = "revival"
    BY <1>14 DEF A!recordRevival, EditsTyped
  <2>2. PICK r \in A!Stamps : r = [i.r EXCEPT ![i.p] = A!RevivalStamp(d, i)]
    BY <2>1, RevivalMap
  <2> QED BY <1>13, <1>14, <2>2 DEF A!recordRevival
<1>15. ASSUME NEW i \in jobs[d], A!addTombstone(d, i) PROVE FALSE
  <2>1. i.p \in Peer /\ i.t \in A!Stamps /\ A!DateNow(d) \in Nat
    BY <1>15, JobFields DEF A!addTombstone, EditsTyped, A!DateNow, Budgets
  <2>2. PICK t \in A!Stamps : t = [i.t EXCEPT ![i.p] = A!DateNow(d)]
    BY <2>1 DEF A!Stamps
  <2> QED BY <1>13, <1>15, <2>2 DEF A!addTombstone
<1>16. ASSUME NEW i \in jobs[d], A!MergeTombstones(d, i) \/ A!MergeRevivals(d, i) PROVE FALSE
  <2>1. i.t \in A!Stamps /\ i.r \in A!Stamps
    BY <1>16, JobFields DEF A!MergeTombstones, A!MergeRevivals, EditsTyped
  <2> QED BY <1>13, <1>16, <2>1 DEF A!MergeTombstones, A!MergeRevivals
<1> QED BY <1>7, <1>9, <1>10, <1>11, <1>12, <1>14, <1>15, <1>16 DEF A!Job

\* However calls, pulls, pushes, reloads and crashes of the devices cross, and however
\* their clocks differ: on a device where no write has discarded a tombstone a delete
\* made outside a pull stays until a merge has read a re-add that is not older; a re-add
\* stands against every older delete, and a pull takes effect with the next start.
THEOREM EditsLast == A!Spec => []EditsStand
<1>1. A!Init => EditsInv
  BY EditsStart
<1>2. EditsInv /\ [A!Next]_(A!vars) => EditsInv'
  BY EditsStep
<1>3. EditsInv => EditsStand
  BY EditsHold DEF EditsStand
<1> QED BY <1>1, <1>2, <1>3, PTL DEF A!Spec

\* No pull, save, reload or crash takes a contact off a disk: only the user does, or a
\* delete the device knows of (and a write that discarded one it had not read).
THEOREM ContactsLast == A!Spec => ContactsKept
<1>1. A!Init => EditsInv
  BY EditsStart
<1>2. EditsInv /\ [A!Next]_(A!vars) => EditsInv'
  BY EditsStep
<1> DEFINE Kept == \A d \in Device : \A p \in disk[d].contacts \ disk'[d].contacts :
                       A!Whole(d, {"contacts"})' => p \in A!Gone(d)' \/ p \notin mem[d]
<1>3. EditsInv /\ [A!Next]_(A!vars) => [Kept]_(A!vars)
  BY ContactsStay DEF EditsInv
<1>4. [][Kept]_(A!vars) <=> ContactsKept
  BY DEF ContactsKept, A!ContactsKept
<1> QED BY <1>1, <1>2, <1>3, <1>4, PTL DEF A!Spec

=============================================================================
