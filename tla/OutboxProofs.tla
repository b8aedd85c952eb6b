---------------------------- MODULE OutboxProofs ----------------------------
(***************************************************************************)
(* Theorems about Outbox: however flushes overlap and whatever throws, no  *)
(* message the SDK accepted disappears, none is sent a second time unless  *)
(* it could not be saved, and as long as no two flushes overlap what was   *)
(* queued is sent in order.                                                *)
(***************************************************************************)
EXTENDS Outbox, SequenceTheorems, TLAPS

\* What is being saved has been sent or stashed, so a call that returns leaves its
\* message somewhere.
HandedOver == \A c \in calls : c.stage = "save" => c.msg \in Elements(wire) \cup stashed

\* Where an accepted message can be.
Somewhere ==
    Elements(queue) \cup {c.msg : c \in calls} \cup Elements(wire) \cup stashed \cup thrown

-----------------------------------------------------------------------------
(* Lemmas *)

LEMMA ElementsContain ==
    ASSUME NEW s, NEW i \in DOMAIN s
    PROVE  s[i] \in Elements(s)
BY DEF Elements

\* Appending, and putting back in front, lose no element.
LEMMA ElementsGrow ==
    ASSUME NEW S, NEW s \in Seq(S), NEW e \in S
    PROVE  /\ Append(s, e) \in Seq(S) /\ <<e>> \o s \in Seq(S)
           /\ Elements(s) \cup {e} \subseteq Elements(Append(s, e))
           /\ Elements(s) \cup {e} \subseteq Elements(<<e>> \o s)
<1>1. Append(s, e) \in Seq(S) /\ <<e>> \o s \in Seq(S) OBVIOUS
<1>2. ASSUME NEW x \in Elements(s) \cup {e} PROVE x \in Elements(Append(s, e))
  <2>1. CASE x = e
    <3>1. Len(s) + 1 \in DOMAIN Append(s, e) /\ Append(s, e)[Len(s) + 1] = e
      OBVIOUS
    <3> QED BY <2>1, <3>1 DEF Elements
  <2>2. CASE x \in Elements(s)
    <3>1. PICK i \in DOMAIN s : x = s[i] BY <2>2 DEF Elements
    <3>2. i \in DOMAIN Append(s, e) /\ Append(s, e)[i] = s[i] OBVIOUS
    <3> QED BY <3>1, <3>2 DEF Elements
  <2> QED BY <1>2, <2>1, <2>2
<1>3. ASSUME NEW x \in Elements(s) \cup {e} PROVE x \in Elements(<<e>> \o s)
  <2>1. /\ DOMAIN (<<e>> \o s) = 1..(Len(s) + 1)
        /\ (<<e>> \o s)[1] = e
        /\ \A i \in 1..Len(s) : (<<e>> \o s)[i + 1] = s[i]
    OBVIOUS
  <2>2. DOMAIN s = 1..Len(s) /\ Len(s) \in Nat OBVIOUS
  <2>3. CASE x = e
    <3>1. 1 \in DOMAIN (<<e>> \o s) BY <2>1, <2>2
    <3>2. (<<e>> \o s)[1] \in Elements(<<e>> \o s) BY <3>1, ElementsContain
    <3> QED BY <2>1, <2>3, <3>2
  <2>4. CASE x \in Elements(s)
    <3>1. PICK i \in 1..Len(s) : x = s[i] BY <2>2, <2>4 DEF Elements
    <3>2. i + 1 \in DOMAIN (<<e>> \o s) BY <2>1, <2>2
    <3>3. (<<e>> \o s)[i + 1] \in Elements(<<e>> \o s) BY <3>2, ElementsContain
    <3> QED BY <2>1, <3>1, <3>3
  <2> QED BY <2>3, <2>4
<1> QED BY <1>1, <1>2, <1>3

\* Shifting a queue takes its head and nothing else.
LEMMA ElementsShift ==
    ASSUME NEW S, NEW s \in Seq(S), s # <<>>
    PROVE  /\ Head(s) \in S /\ Tail(s) \in Seq(S)
           /\ Elements(s) \subseteq Elements(Tail(s)) \cup {Head(s)}
<1>1. Head(s) \in S /\ Tail(s) \in Seq(S) OBVIOUS
<1>2. ASSUME NEW x \in Elements(s), x # Head(s) PROVE x \in Elements(Tail(s))
  <2>1. PICK i \in DOMAIN s : x = s[i] BY DEF Elements
  <2>2. i \in 1..Len(s) /\ i # 1 BY <1>2, <2>1
  <2>3. i - 1 \in DOMAIN Tail(s) /\ Tail(s)[i - 1] = s[i] BY <2>2
  <2> QED BY <2>1, <2>3 DEF Elements
<1> QED BY <1>1, <1>2

\* A flush that goes on moves the head of the queue to a call.
LEMMA FlushKeeps ==
    ASSUME queue \in Seq(Message), NEW others \in SUBSET Call, NEW online \in BOOLEAN,
           FlushFrom(queue, others, online)
    PROVE  /\ queue' \in Seq(Message) /\ calls' \subseteq Call
           /\ Elements(queue) \cup {c.msg : c \in others}
                \subseteq Elements(queue') \cup {c.msg : c \in calls'}
<1>1. CASE queue # <<>> /\ online
  <2> DEFINE k == FlushCall(Head(queue))
  <2>1. /\ Head(queue) \in Message /\ Tail(queue) \in Seq(Message)
        /\ Elements(queue) \subseteq Elements(Tail(queue)) \cup {Head(queue)}
    BY <1>1, ElementsShift
  <2>2. k \in Call /\ k.msg = Head(queue) BY <2>1 DEF FlushCall, Call
  <2>3. queue' = Tail(queue) /\ calls' = others \cup {k} BY <1>1 DEF FlushFrom
  <2> HIDE DEF k
  <2> QED BY <2>1, <2>2, <2>3
<1>2. CASE ~(queue # <<>> /\ online) BY <1>2 DEF FlushFrom
<1> QED BY <1>1, <1>2

-----------------------------------------------------------------------------
\* A step keeps every accepted message somewhere, and puts a new one there.
LEMMA StepSettles ==
    ASSUME TypeOK, HandedOver, [Next]_vars
    PROVE  /\ TypeOK' /\ accepted' \in {accepted, accepted + 1}
           /\ Somewhere \subseteq Somewhere'
           /\ accepted' # accepted => \E m \in Somewhere' : m.id = accepted
<1> USE DEF sending, Somewhere
<1>0. /\ queue \in Seq(Message) /\ wire \in Seq(Message) /\ calls \subseteq Call
      /\ accepted \in Nat /\ connects \in Nat /\ link \in {"down", "up", "stale"}
  BY DEF TypeOK, L!TypeOK
<1>1. CASE Connected
  <2>1. FlushFrom(queue, calls, TRUE) BY <1>1 DEF Connected
  <2>2. /\ queue' \in Seq(Message) /\ calls' \subseteq Call
        /\ Elements(queue) \cup {c.msg : c \in calls}
             \subseteq Elements(queue') \cup {c.msg : c \in calls'}
    BY <1>0, <2>1, FlushKeeps
  <2>3. UNCHANGED <<wire, stashed, thrown, unsaved, accepted>> BY <1>1 DEF Connected
  <2>4. overlapped' \in BOOLEAN /\ connects' \in Nat /\ link' \in {"down", "up", "stale"}
    BY <1>0, <1>1 DEF Connected, TypeOK, L!Up
  <2>5. TypeOK' BY <2>2, <2>3, <2>4 DEF TypeOK, L!TypeOK
  <2> QED BY <2>2, <2>3, <2>5
<1>2. CASE Disconnected
  BY <1>2 DEF Disconnected, L!GoStale, L!Down, TypeOK, L!TypeOK
<1>3. ASSUME NEW p \in Peer, sendMessage(p)
      PROVE  /\ TypeOK' /\ accepted' = accepted + 1 /\ Somewhere \subseteq Somewhere'
             /\ \E m \in Somewhere' : m.id = accepted
  <2> DEFINE m == [id |-> accepted, to |-> p, queued |-> ~nodeConnected]
             k == [msg |-> m, by |-> "app", stage |-> "prepare"]
  <2>1. m \in Message /\ m.id = accepted BY <1>0 DEF Message, nodeConnected
  <2>2. k \in Call /\ k.msg = m BY <2>1 DEF Call
  <2> HIDE DEF m
  <2>3. /\ accepted' = accepted + 1
        /\ UNCHANGED <<link, wire, stashed, thrown, unsaved, connects, overlapped>>
    BY <1>3 DEF sendMessage, m
  <2>4. CASE nodeConnected
    <3>1. calls' = calls \cup {k} /\ queue' = queue BY <1>3, <2>4 DEF sendMessage, m
    <3> HIDE DEF k
    <3>2. TypeOK' BY <1>0, <2>2, <2>3, <3>1 DEF TypeOK, L!TypeOK
    <3>3. m \in Somewhere' BY <2>2, <3>1
    <3>4. Somewhere \subseteq Somewhere' BY <2>3, <3>1
    <3> QED BY <2>1, <2>3, <3>2, <3>3, <3>4
  <2>5. CASE ~nodeConnected
    <3>1. queue' = Append(queue, m) /\ calls' = calls BY <1>3, <2>5 DEF sendMessage, m
    <3>2. queue' \in Seq(Message) /\ Elements(queue) \cup {m} \subseteq Elements(queue')
      BY <1>0, <2>1, <3>1, ElementsGrow
    <3>3. TypeOK' BY <1>0, <2>3, <3>1, <3>2 DEF TypeOK, L!TypeOK
    <3> QED BY <2>1, <2>3, <3>1, <3>2, <3>3
  <2> QED BY <2>4, <2>5
<1>4. ASSUME NEW c \in calls, routeAndSend(c) \/ Return(c) \/ Throw(c)
      PROVE  TypeOK' /\ accepted' = accepted /\ Somewhere \subseteq Somewhere'
  <2>1. c \in Call /\ c.msg \in Message BY <1>0 DEF Call
  <2>2. CASE routeAndSend(c)
    <3> DEFINE k == [c EXCEPT !.stage = "save"]
    <3>1. k \in Call /\ k.msg = c.msg BY <2>1 DEF Call
    <3>2. calls' = (calls \ {c}) \cup {k} BY <2>2 DEF routeAndSend
    <3> HIDE DEF k
    <3>3. {d.msg : d \in calls} \subseteq {d.msg : d \in calls'} BY <3>1, <3>2
    <3>4. /\ wire' \in Seq(Message) /\ Elements(wire) \subseteq Elements(wire')
          /\ stashed \subseteq stashed' /\ stashed' \subseteq Message
      BY <1>0, <2>1, <2>2, ElementsGrow DEF routeAndSend, TypeOK
    <3>5. UNCHANGED <<link, queue, thrown, unsaved, accepted, connects, overlapped>>
      BY <2>2 DEF routeAndSend
    <3>6. calls' \subseteq Call BY <1>0, <3>1, <3>2
    <3>7. TypeOK' BY <1>0, <3>4, <3>5, <3>6 DEF TypeOK, L!TypeOK
    <3> QED BY <3>3, <3>4, <3>5, <3>7
  <2>3. CASE Return(c)
    <3>1. c.msg \in Elements(wire) \cup stashed BY <2>3 DEF Return, HandedOver
    <3>2. UNCHANGED <<link, wire, stashed, thrown, unsaved, accepted, connects, overlapped>>
      BY <2>3 DEF Return
    <3>3. /\ queue' \in Seq(Message) /\ calls' \subseteq Call
          /\ Elements(queue) \cup {d.msg : d \in calls \ {c}}
               \subseteq Elements(queue') \cup {d.msg : d \in calls'}
      <4>1. CASE c.by = "flush"
        <5>1. FlushFrom(queue, calls \ {c}, nodeConnected) BY <2>3, <4>1 DEF Return
        <5>2. nodeConnected \in BOOLEAN /\ calls \ {c} \in SUBSET Call
          BY <1>0 DEF nodeConnected
        <5> QED BY <1>0, <5>1, <5>2, FlushKeeps
      <4>2. CASE c.by # "flush" BY <1>0, <2>3, <4>2 DEF Return
      <4> QED BY <4>1, <4>2
    <3>4. TypeOK' BY <3>2, <3>3 DEF TypeOK, L!TypeOK
    <3>5. {d.msg : d \in calls} \subseteq {d.msg : d \in calls \ {c}} \cup {c.msg}
      OBVIOUS
    <3> QED BY <3>1, <3>2, <3>3, <3>4, <3>5
  <2>4. CASE Throw(c)
    <3>1. /\ calls' = calls \ {c}
          /\ UNCHANGED <<link, wire, stashed, accepted, connects, overlapped>>
      BY <2>4 DEF Throw
    <3>2. unsaved' \subseteq Message BY <2>1, <2>4 DEF Throw, TypeOK
    <3>3. /\ queue' \in Seq(Message) /\ thrown' \subseteq Message
          /\ Elements(queue) \subseteq Elements(queue') /\ thrown \subseteq thrown'
          /\ c.msg \in Elements(queue') \cup thrown'
      <4>1. CASE c.by = "flush"
        <5>1. queue' = <<c.msg>> \o queue /\ thrown' = thrown BY <2>4, <4>1 DEF Throw
        <5> QED BY <1>0, <2>1, <5>1, ElementsGrow DEF TypeOK
      <4>2. CASE c.by # "flush" BY <1>0, <2>1, <2>4, <4>2 DEF Throw, TypeOK
      <4> QED BY <4>1, <4>2
    <3>4. TypeOK' BY <1>0, <3>1, <3>2, <3>3 DEF TypeOK, L!TypeOK
    <3>5. {d.msg : d \in calls} \subseteq {d.msg : d \in calls'} \cup {c.msg} BY <3>1
    <3> QED BY <3>1, <3>3, <3>4, <3>5
  <2> QED BY <1>4, <2>2, <2>3, <2>4
<1>5. CASE UNCHANGED vars BY <1>5 DEF vars, TypeOK, L!TypeOK
<1> QED BY <1>1, <1>2, <1>3, <1>4, <1>5 DEF Next

\* A new call has handed nothing over, and what was handed over stays so.
LEMMA HandedOverStays ==
    ASSUME TypeOK, HandedOver, [Next]_vars
    PROVE  HandedOver'
<1> USE DEF sending, HandedOver
<1>0. wire \in Seq(Message) /\ calls \subseteq Call BY DEF TypeOK
<1>1. ASSUME NEW q, NEW others \in SUBSET calls, NEW online, FlushFrom(q, others, online),
             UNCHANGED <<wire, stashed>>
      PROVE  HandedOver'
  <2>1. \A d \in calls' : d \in others \/ d = FlushCall(Head(q)) BY <1>1 DEF FlushFrom
  <2>2. FlushCall(Head(q)).stage # "save" BY DEF FlushCall
  <2> QED BY <1>1, <2>1, <2>2
<1>2. CASE Connected BY <1>1, <1>2 DEF Connected
<1>3. CASE Disconnected BY <1>3 DEF Disconnected
<1>4. ASSUME NEW p \in Peer, sendMessage(p) PROVE HandedOver'
  BY <1>4 DEF sendMessage
<1>5. ASSUME NEW c \in calls, routeAndSend(c) PROVE HandedOver'
  <2>1. calls' = (calls \ {c}) \cup {[c EXCEPT !.stage = "save"]}
    BY <1>5 DEF routeAndSend
  <2>2. c \in Call /\ c.msg \in Message BY <1>0 DEF Call
  <2>3. Elements(wire) \cup stashed \subseteq Elements(wire') \cup stashed'
    BY <1>0, <1>5, <2>2, ElementsGrow DEF routeAndSend
  <2>4. c.msg \in Elements(wire') \cup stashed'
    BY <1>0, <1>5, <2>2, ElementsGrow DEF routeAndSend
  <2>5. [c EXCEPT !.stage = "save"].msg = c.msg BY <2>2 DEF Call
  <2> QED BY <2>1, <2>3, <2>4, <2>5
<1>6. ASSUME NEW c \in calls, Return(c) PROVE HandedOver'
  <2>1. CASE c.by = "flush" BY <1>1, <1>6, <2>1 DEF Return
  <2>2. CASE c.by # "flush" BY <1>6, <2>2 DEF Return
  <2> QED BY <2>1, <2>2
<1>7. ASSUME NEW c \in calls, Throw(c) PROVE HandedOver' BY <1>7 DEF Throw
<1>8. CASE UNCHANGED vars BY <1>8 DEF vars
<1> QED BY <1>2, <1>3, <1>4, <1>5, <1>6, <1>7, <1>8 DEF Next

LEMMA Invariance == Spec => [](TypeOK /\ HandedOver /\ Accounted)
<1>1. Init => TypeOK /\ HandedOver /\ Accounted
  <2> SUFFICES ASSUME Init PROVE TypeOK /\ HandedOver /\ Accounted OBVIOUS
  <2>1. TypeOK
    <3>1. queue = <<>> /\ wire = <<>> /\ link = "down" BY DEF Init, L!Init
    <3>2. <<>> \in Seq(Message) OBVIOUS
    <3>3. L!TypeOK /\ queue \in Seq(Message) /\ wire \in Seq(Message)
      BY <3>1, <3>2 DEF L!TypeOK
    <3>4. {stashed, thrown, unsaved} \subseteq SUBSET Message BY DEF Init
    <3>5. {accepted, connects} \subseteq Nat BY DEF Init
    <3>6. calls \subseteq Call /\ overlapped \in BOOLEAN BY DEF Init
    <3> QED BY <3>3, <3>4, <3>5, <3>6, Zenon DEF TypeOK
  <2>2. 0..(accepted - 1) = {} BY DEF Init
  <2> QED BY <2>1, <2>2 DEF Init, HandedOver, Accounted
<1>2. TypeOK /\ HandedOver /\ Accounted /\ [Next]_vars => Accounted'
  <2> SUFFICES ASSUME TypeOK, HandedOver, Accounted, [Next]_vars, NEW n \in 0..(accepted' - 1)
               PROVE  \E m \in Somewhere' : m.id = n
    BY DEF Accounted, Somewhere
  <2>1. accepted \in Nat /\ accepted' \in {accepted, accepted + 1}
    BY StepSettles DEF TypeOK
  <2>2. CASE n \in 0..(accepted - 1)
    BY <2>2, StepSettles DEF Accounted, Somewhere
  <2>3. CASE n \notin 0..(accepted - 1)
    <3>1. accepted' = accepted + 1 BY <2>1, <2>3
    <3>2. n \in 0..accepted BY <2>1, <3>1
    <3>3. n = accepted BY <2>1, <2>3, <3>2
    <3> QED BY <2>1, <3>1, <3>3, StepSettles
  <2> QED BY <2>2, <2>3
<1>3. TypeOK /\ HandedOver /\ [Next]_vars => TypeOK' /\ HandedOver'
  BY StepSettles, HandedOverStays
<1> QED BY <1>1, <1>2, <1>3, PTL DEF Spec

-----------------------------------------------------------------------------
\* The variables keep their types.
THEOREM TypeCorrectness == Spec => []TypeOK
BY Invariance, PTL

\* A message that sendMessage accepted is never lost between the queue, the
\* flushes and the errors: it is queued, being sent, sent, stashed, or its caller
\* was told.
THEOREM NothingForgotten == Spec => []Accounted
BY Invariance, PTL

-----------------------------------------------------------------------------
(* How often and in what order messages are sent *)

\* Ids are given in order.
Below ==
    /\ \A m \in Elements(queue) \cup Elements(wire) : m.id < accepted
    /\ \A c \in calls : c.msg.id < accepted

Distinct(q) == \A i, j \in DOMAIN q : q[i] = q[j] => i = j
Rising(q)   == \A i, j \in DOMAIN q : i < j => q[i].id < q[j].id

\* A message is in the queue once, or in one call.
OneCopy ==
    /\ Distinct(queue)
    /\ \A c \in calls : c.msg \notin Elements(queue)
    /\ \A c, d \in calls : c.msg = d.msg => c = d

\* What is still to be sent and was sent before could not be saved then.
SentAgain ==
    /\ \A m \in Elements(queue) \cap Elements(wire) : m \in unsaved
    /\ \A c \in calls : c.stage = "prepare" /\ c.msg \in Elements(wire) => c.msg \in unsaved

\* Flushes carry the messages that were queued, the application's calls the others.
Marked ==
    /\ \A m \in Elements(queue) : m.queued
    /\ \A c \in calls : c.msg.queued <=> c.by = "flush"

\* Without overlapping flushes, one call carries the oldest queued message, and
\* what was sent from the queue is no younger.
FlushOrder ==
    /\ Rising(queue)
    /\ \A c, d \in calls : c.by = "flush" /\ d.by = "flush" => c = d
    /\ \A c \in calls : c.by = "flush" => \A m \in Elements(queue) : c.msg.id < m.id
    /\ \A w \in Elements(wire) : w.queued => \A m \in Elements(queue) : w.id <= m.id
    /\ \A w \in Elements(wire) : w.queued =>
          \A c \in calls : c.by = "flush" => w.id <= c.msg.id

SendInv ==
    /\ Below /\ OneCopy /\ SentAgain /\ Marked
    /\ ~overlapped => FlushOrder
    /\ SentOnceInOrder

LEMMA ElementsTyped ==
    ASSUME NEW q \in Seq(Message)
    PROVE  \A m \in Elements(q) : m \in Message /\ m.id \in Nat
<1>1. DOMAIN q = 1..Len(q) /\ \A i \in 1..Len(q) : q[i] \in Message
  OBVIOUS
<1>2. \A m \in Message : m.id \in Nat
  BY DEF Message
<1> QED BY <1>1, <1>2 DEF Elements

\* What shifting does to the order of a queue.
LEMMA ShiftOrder ==
    ASSUME NEW q \in Seq(Message), q # <<>>
    PROVE  /\ Head(q) \in Elements(q) /\ Elements(Tail(q)) \subseteq Elements(q)
           /\ Distinct(q) => Distinct(Tail(q)) /\ Head(q) \notin Elements(Tail(q))
           /\ Rising(q) => Rising(Tail(q)) /\ \A m \in Elements(Tail(q)) : Head(q).id < m.id
<1>1. /\ DOMAIN q = 1..Len(q) /\ Len(q) \in Nat /\ Len(q) > 0 /\ Head(q) = q[1]
      /\ DOMAIN Tail(q) = 1..(Len(q) - 1)
      /\ \A i \in 1..(Len(q) - 1) : Tail(q)[i] = q[i + 1]
  OBVIOUS
<1>2. Head(q) \in Elements(q)
  BY <1>1, ElementsContain
<1>3. \A m \in Elements(Tail(q)) : \E i \in 2..Len(q) : m = q[i]
  <2> SUFFICES ASSUME NEW i \in 1..(Len(q) - 1) PROVE \E j \in 2..Len(q) : Tail(q)[i] = q[j]
    BY <1>1 DEF Elements
  <2>1. i + 1 \in 2..Len(q) BY <1>1
  <2> QED BY <1>1, <2>1
<1>4. Elements(Tail(q)) \subseteq Elements(q)
  <2> SUFFICES ASSUME NEW m \in Elements(Tail(q)) PROVE m \in Elements(q)
    OBVIOUS
  <2>1. PICK i \in 2..Len(q) : m = q[i] BY <1>3
  <2>2. i \in DOMAIN q BY <1>1
  <2> QED BY <2>1, <2>2, ElementsContain
<1>5. ASSUME Distinct(q) PROVE Distinct(Tail(q)) /\ Head(q) \notin Elements(Tail(q))
  <2>1. \A i \in 2..Len(q) : q[i] # q[1]
    <3> SUFFICES ASSUME NEW i \in 2..Len(q) PROVE q[i] # q[1] OBVIOUS
    <3>1. i \in DOMAIN q /\ 1 \in DOMAIN q /\ i # 1 BY <1>1
    <3> QED BY <1>5, <3>1 DEF Distinct
  <2>2. ASSUME NEW i \in 1..(Len(q) - 1), NEW j \in 1..(Len(q) - 1), Tail(q)[i] = Tail(q)[j]
        PROVE  i = j
    <3>1. i + 1 \in DOMAIN q /\ j + 1 \in DOMAIN q BY <1>1
    <3>2. i + 1 = j + 1 BY <1>1, <1>5, <2>2, <3>1 DEF Distinct
    <3> QED BY <3>2
  <2> QED BY <1>1, <1>3, <2>1, <2>2 DEF Distinct
<1>6. ASSUME Rising(q)
      PROVE  Rising(Tail(q)) /\ \A m \in Elements(Tail(q)) : Head(q).id < m.id
  <2>1. \A i \in 2..Len(q) : q[1].id < q[i].id
    <3> SUFFICES ASSUME NEW i \in 2..Len(q) PROVE q[1].id < q[i].id OBVIOUS
    <3>1. i \in DOMAIN q /\ 1 \in DOMAIN q /\ 1 < i BY <1>1
    <3> QED BY <1>6, <3>1 DEF Rising
  <2>2. ASSUME NEW i \in 1..(Len(q) - 1), NEW j \in 1..(Len(q) - 1), i < j
        PROVE  Tail(q)[i].id < Tail(q)[j].id
    <3>1. i + 1 \in DOMAIN q /\ j + 1 \in DOMAIN q /\ i + 1 < j + 1 BY <1>1, <2>2
    <3> QED BY <1>1, <1>6, <3>1 DEF Rising
  <2> QED BY <1>1, <1>3, <2>1, <2>2 DEF Rising
<1> QED BY <1>2, <1>4, <1>5, <1>6

\* What putting a message back in front does.
LEMMA FrontOrder ==
    ASSUME NEW q \in Seq(Message), NEW e \in Message, NEW p, p = <<e>> \o q
    PROVE  /\ Elements(p) = Elements(q) \cup {e}
           /\ Distinct(q) /\ e \notin Elements(q) => Distinct(p)
           /\ Rising(q) /\ (\A m \in Elements(q) : e.id < m.id) => Rising(p)
<1>1. /\ DOMAIN q = 1..Len(q) /\ Len(q) \in Nat
      /\ DOMAIN p = 1..(Len(q) + 1) /\ p[1] = e
      /\ \A i \in 2..(Len(q) + 1) : p[i] = q[i - 1]
  OBVIOUS
<1>2. \A i \in DOMAIN p : i = 1 \/ (i - 1 \in DOMAIN q /\ p[i] = q[i - 1])
  BY <1>1
<1>3. Elements(q) \cup {e} \subseteq Elements(p)
  BY ElementsGrow
<1>4. Elements(p) \subseteq Elements(q) \cup {e}
  <2> SUFFICES ASSUME NEW i \in DOMAIN p PROVE p[i] \in Elements(q) \cup {e}
    BY DEF Elements
  <2> QED BY <1>1, <1>2, ElementsContain
<1>5. \A i \in DOMAIN p : i # 1 => p[i] \in Elements(q)
  BY <1>2, ElementsContain
<1>6. ASSUME Distinct(q), e \notin Elements(q), NEW i \in DOMAIN p, NEW j \in DOMAIN p, p[i] = p[j]
      PROVE  i = j
  <2>1. CASE i = 1 \/ j = 1
    BY <1>1, <1>5, <1>6, <2>1
  <2>2. CASE i # 1 /\ j # 1
    <3>1. i - 1 = j - 1 BY <1>2, <1>6, <2>2 DEF Distinct
    <3> QED BY <1>1, <3>1
  <2> QED BY <2>1, <2>2
<1>7. ASSUME Rising(q), \A m \in Elements(q) : e.id < m.id,
             NEW i \in DOMAIN p, NEW j \in DOMAIN p, i < j
      PROVE  p[i].id < p[j].id
  <2>1. j # 1 BY <1>1, <1>7
  <2>2. CASE i = 1
    BY <1>1, <1>5, <1>7, <2>1, <2>2
  <2>3. CASE i # 1
    <3>1. i - 1 < j - 1 BY <1>1, <1>7
    <3> QED BY <1>2, <1>7, <2>1, <2>3, <3>1 DEF Rising
  <2> QED BY <2>2, <2>3
<1> QED BY <1>3, <1>4, <1>6, <1>7 DEF Distinct, Rising

\* What appending a message does.
LEMMA BackOrder ==
    ASSUME NEW q \in Seq(Message), NEW e \in Message, NEW p, p = Append(q, e)
    PROVE  /\ Elements(p) = Elements(q) \cup {e}
           /\ Distinct(q) /\ e \notin Elements(q) => Distinct(p)
           /\ Rising(q) /\ (\A m \in Elements(q) : m.id < e.id) => Rising(p)
<1>1. /\ DOMAIN q = 1..Len(q) /\ Len(q) \in Nat
      /\ DOMAIN p = 1..(Len(q) + 1) /\ p[Len(q) + 1] = e
      /\ \A i \in 1..Len(q) : p[i] = q[i]
  OBVIOUS
<1>2. \A i \in DOMAIN p : i = Len(q) + 1 \/ (i \in DOMAIN q /\ p[i] = q[i])
  BY <1>1
<1>3. Elements(q) \cup {e} \subseteq Elements(p)
  BY ElementsGrow
<1>4. Elements(p) \subseteq Elements(q) \cup {e}
  <2> SUFFICES ASSUME NEW i \in DOMAIN p PROVE p[i] \in Elements(q) \cup {e}
    BY DEF Elements
  <2> QED BY <1>1, <1>2, ElementsContain
<1>5. \A i \in DOMAIN p : i # Len(q) + 1 => p[i] \in Elements(q)
  BY <1>2, ElementsContain
<1>6. ASSUME Distinct(q), e \notin Elements(q), NEW i \in DOMAIN p, NEW j \in DOMAIN p, p[i] = p[j]
      PROVE  i = j
  BY <1>1, <1>2, <1>5, <1>6 DEF Distinct
<1>7. ASSUME Rising(q), \A m \in Elements(q) : m.id < e.id,
             NEW i \in DOMAIN p, NEW j \in DOMAIN p, i < j
      PROVE  p[i].id < p[j].id
  <2>1. i # Len(q) + 1 BY <1>1, <1>7
  <2>2. CASE j = Len(q) + 1
    BY <1>1, <1>5, <1>7, <2>1, <2>2
  <2>3. CASE j # Len(q) + 1
    BY <1>2, <1>7, <2>1, <2>3 DEF Rising
  <2> QED BY <2>2, <2>3
<1> QED BY <1>3, <1>4, <1>6, <1>7 DEF Distinct, Rising

\* A flush that begins, or goes on, once no other is under way.
LEMMA FlushMoves ==
    ASSUME TypeOK, SendInv, NEW others \in SUBSET calls, NEW online,
           FlushFrom(queue, others, online), UNCHANGED <<wire, unsaved, accepted>>,
           ~overlapped' => ~overlapped /\ \A c \in others : c.by # "flush"
    PROVE  SendInv'
<1>0. queue \in Seq(Message) /\ Below /\ OneCopy /\ SentAgain /\ Marked /\ SentOnceInOrder
  BY DEF TypeOK, SendInv
<1>1. PICK k : k = FlushCall(Head(queue))
  OBVIOUS
<1>2. k.msg = Head(queue) /\ k.by = "flush" /\ k.stage = "prepare"
  BY <1>1 DEF FlushCall
<1>3. SentOnceInOrder'
  BY <1>0 DEF SentOnceInOrder, ResentIfUnsaved, QueuedInOrder
<1>4. CASE queue # <<>> /\ online
  <2>1. queue' = Tail(queue) /\ calls' = others \cup {k}
    BY <1>1, <1>4 DEF FlushFrom
  <2>2. /\ Head(queue) \in Elements(queue) /\ Elements(queue') \subseteq Elements(queue)
        /\ Distinct(queue') /\ Head(queue) \notin Elements(queue')
        /\ Rising(queue) => Rising(queue') /\ \A m \in Elements(queue') : Head(queue).id < m.id
    BY <1>0, <1>4, <2>1, ShiftOrder DEF OneCopy
  <2>3. Below'
    BY <1>0, <1>2, <2>1, <2>2 DEF Below
  <2>4. OneCopy'
    BY <1>0, <1>2, <2>1, <2>2 DEF OneCopy
  <2>5. SentAgain' /\ Marked'
    BY <1>0, <1>2, <2>1, <2>2 DEF SentAgain, Marked
  <2>6. ~overlapped' => FlushOrder'
    <3> SUFFICES ASSUME ~overlapped' PROVE FlushOrder'
      OBVIOUS
    <3>1. FlushOrder /\ \A c \in others : c.by # "flush"
      BY DEF SendInv
    <3>2. \A c \in calls' : c.by = "flush" => c = k
      BY <2>1, <3>1
    <3> QED BY <1>2, <2>2, <3>1, <3>2 DEF FlushOrder
  <2> QED BY <1>3, <2>3, <2>4, <2>5, <2>6 DEF SendInv
<1>5. CASE ~(queue # <<>> /\ online)
  <2>1. queue' = queue /\ calls' = others
    BY <1>5 DEF FlushFrom
  <2>2. Below' /\ OneCopy' /\ SentAgain' /\ Marked'
    BY <1>0, <2>1 DEF Below, OneCopy, SentAgain, Marked
  <2>3. ~overlapped' => FlushOrder'
    BY <2>1 DEF SendInv, FlushOrder
  <2> QED BY <1>3, <2>2, <2>3 DEF SendInv
<1> QED BY <1>4, <1>5

LEMMA StepSendInv == TypeOK /\ SendInv /\ [Next]_vars => SendInv'
<1> SUFFICES ASSUME TypeOK, SendInv, [Next]_vars PROVE SendInv'
  OBVIOUS
<1> USE DEF sending
<1>0. /\ queue \in Seq(Message) /\ wire \in Seq(Message) /\ calls \subseteq Call /\ accepted \in Nat
      /\ Below /\ OneCopy /\ SentAgain /\ Marked /\ SentOnceInOrder
      /\ ~overlapped => FlushOrder
  BY DEF TypeOK, SendInv
<1>1. CASE Connected
  <2>1. /\ FlushFrom(queue, calls, TRUE) /\ UNCHANGED <<wire, unsaved, accepted>>
        /\ ~overlapped' => ~overlapped /\ \A c \in calls : c.by # "flush"
    BY <1>1 DEF Connected
  <2> QED BY <2>1, FlushMoves
<1>2. CASE Disconnected \/ UNCHANGED vars
  BY <1>2 DEF Disconnected, vars, SendInv, Below, OneCopy, SentAgain, Marked, FlushOrder,
     SentOnceInOrder, ResentIfUnsaved, QueuedInOrder
<1>3. ASSUME NEW p \in Peer, sendMessage(p) PROVE SendInv'
  <2>1. PICK m : m = [id |-> accepted, to |-> p, queued |-> ~nodeConnected]
    OBVIOUS
  <2>2. m \in Message /\ m.id = accepted /\ m.queued = ~nodeConnected
    BY <1>0, <2>1 DEF Message, nodeConnected
  <2>3. m \notin Elements(queue) \cup Elements(wire) /\ \A c \in calls : c.msg # m
    BY <1>0, <2>2 DEF Below
  <2>4. accepted' = accepted + 1 /\ UNCHANGED <<wire, unsaved, overlapped>>
    BY <1>3 DEF sendMessage
  <2>5. SentOnceInOrder'
    BY <1>0, <2>4 DEF SentOnceInOrder, ResentIfUnsaved, QueuedInOrder
  <2>6. \A n \in Nat : n < accepted => n < accepted + 1
    BY <1>0
  <2>7. \A e \in Elements(queue) \cup Elements(wire) \cup {c.msg : c \in calls} : e.id \in Nat
    <3>1. \A c \in calls : c.msg \in Message /\ c.msg.id \in Nat
      BY <1>0 DEF Call, Message
    <3>2. \A e \in Elements(queue) : e.id \in Nat
      BY <1>0, ElementsTyped
    <3>3. \A e \in Elements(wire) : e.id \in Nat
      BY <1>0, ElementsTyped
    <3> QED BY <3>1, <3>2, <3>3
  <2>8. CASE nodeConnected
    <3>1. PICK k : k = [msg |-> m, by |-> "app", stage |-> "prepare"]
      OBVIOUS
    <3>2. calls' = calls \cup {k} /\ queue' = queue
      BY <1>3, <2>1, <2>8, <3>1 DEF sendMessage
    <3>3. k.msg = m /\ k.by = "app" /\ k.stage = "prepare" /\ ~m.queued
      BY <2>2, <2>8, <3>1
    <3>4. Below'
      BY <1>0, <2>2, <2>4, <2>6, <2>7, <3>2, <3>3 DEF Below
    <3>5. OneCopy' /\ SentAgain' /\ Marked'
      BY <1>0, <2>3, <2>4, <3>2, <3>3 DEF OneCopy, SentAgain, Marked
    <3>6. ~overlapped' => FlushOrder'
      BY <1>0, <2>4, <3>2, <3>3 DEF FlushOrder
    <3> QED BY <2>5, <3>4, <3>5, <3>6 DEF SendInv
  <2>9. CASE ~nodeConnected
    <3>1. queue' = Append(queue, m) /\ calls' = calls
      BY <1>3, <2>1, <2>9 DEF sendMessage
    <3>2. /\ Elements(queue') = Elements(queue) \cup {m}
          /\ Distinct(queue') /\ (Rising(queue) => Rising(queue'))
      <4>1. \A e \in Elements(queue) : e.id < m.id
        BY <1>0, <2>2 DEF Below
      <4> QED BY <1>0, <2>2, <2>3, <3>1, <4>1, BackOrder DEF OneCopy
    <3>3. m.queued
      BY <2>2, <2>9
    <3>4. Below'
      BY <1>0, <2>2, <2>4, <2>6, <2>7, <3>1, <3>2 DEF Below
    <3>5. OneCopy' /\ SentAgain' /\ Marked'
      BY <1>0, <2>3, <2>4, <3>1, <3>2, <3>3 DEF OneCopy, SentAgain, Marked
    <3>6. ~overlapped' => FlushOrder'
      <4>1. \A e \in Elements(wire) : e.id <= m.id
        BY <1>0, <2>2, <2>7 DEF Below
      <4>2. \A c \in calls : c.msg.id < m.id
        BY <1>0, <2>2 DEF Below
      <4> QED BY <1>0, <2>4, <3>1, <3>2, <4>1, <4>2 DEF FlushOrder
    <3> QED BY <2>5, <3>4, <3>5, <3>6 DEF SendInv
  <2> QED BY <2>8, <2>9
<1>4. ASSUME NEW c \in calls, routeAndSend(c) PROVE SendInv'
  <2>1. PICK k : k = [c EXCEPT !.stage = "save"]
    OBVIOUS
  <2>2. /\ calls' = (calls \ {c}) \cup {k} /\ c.stage = "prepare"
        /\ UNCHANGED <<queue, unsaved, accepted, overlapped>>
    BY <1>4, <2>1 DEF routeAndSend
  <2>3. c.msg \in Message /\ k.msg = c.msg /\ k.by = c.by /\ k.stage = "save"
    BY <1>0, <2>1 DEF Call
  <2>4. wire' = wire \/ wire' = Append(wire, c.msg)
    BY <1>4 DEF routeAndSend
  <2>5. Elements(wire') \subseteq Elements(wire) \cup {c.msg}
    BY <1>0, <2>3, <2>4, BackOrder
  <2>6. Below'
    BY <1>0, <2>2, <2>3, <2>5 DEF Below
  <2>7. OneCopy'
    BY <1>0, <2>2, <2>3 DEF OneCopy
  <2>8. SentAgain'
    <3>1. c.msg \notin Elements(queue) /\ \A d \in calls : d # c => d.msg # c.msg
      BY <1>0 DEF OneCopy
    <3> QED BY <1>0, <2>2, <2>3, <2>5, <3>1 DEF SentAgain
  <2>9. Marked'
    BY <1>0, <2>2, <2>3 DEF Marked
  <2>10. ~overlapped => FlushOrder'
    <3> SUFFICES ASSUME ~overlapped PROVE FlushOrder'
      OBVIOUS
    <3>1. c.msg.queued => c.by = "flush"
      BY <1>0 DEF Marked
    <3>2. c.msg.id \in Nat
      BY <2>3 DEF Message
    <3>3. c.by = "flush" => \A m \in Elements(queue) : c.msg.id < m.id
      BY <1>0 DEF FlushOrder
    <3>4. \A m \in Elements(queue) : m.id \in Nat
      BY <1>0, ElementsTyped
    <3>5. \A w \in Elements(wire') : w.queued => \A m \in Elements(queue) : w.id <= m.id
      BY <1>0, <2>5, <3>1, <3>2, <3>3, <3>4 DEF FlushOrder
    <3>6. \A d \in calls' : d.by = "flush" => \E b \in calls : b.by = "flush" /\ b.msg = d.msg
      BY <2>2, <2>3
    <3>7. \A d \in calls' : c.by = "flush" /\ d.by = "flush" => d = k
      BY <1>0, <2>2, <2>3 DEF FlushOrder
    <3>8. \A w \in Elements(wire') : w.queued =>
             \A d \in calls' : d.by = "flush" => w.id <= d.msg.id
      BY <1>0, <2>3, <2>5, <3>1, <3>2, <3>6, <3>7 DEF FlushOrder
    <3>9. \A d, e \in calls' : d.by = "flush" /\ e.by = "flush" => d = e
      BY <1>0, <2>2, <2>3, <3>7 DEF FlushOrder
    <3> QED BY <1>0, <2>2, <3>5, <3>6, <3>8, <3>9 DEF FlushOrder
  <2>11. SentOnceInOrder'
    <3>1. CASE wire' = wire
      BY <1>0, <2>2, <3>1 DEF SentOnceInOrder, ResentIfUnsaved, QueuedInOrder
    <3>2. CASE wire' = Append(wire, c.msg)
      <4>1. /\ DOMAIN wire = 1..Len(wire) /\ Len(wire) \in Nat
            /\ DOMAIN wire' = 1..(Len(wire) + 1) /\ wire'[Len(wire) + 1] = c.msg
            /\ \A i \in 1..Len(wire) : wire'[i] = wire[i]
        BY <1>0, <2>3, <3>2
      <4>2. ASSUME NEW i \in DOMAIN wire', NEW j \in DOMAIN wire', i < j
            PROVE  /\ i \in DOMAIN wire /\ wire'[i] = wire[i]
                   /\ j = Len(wire) + 1 \/ (j \in DOMAIN wire /\ wire'[j] = wire[j])
        BY <4>1, <4>2
      <4>3. ASSUME NEW i \in DOMAIN wire', NEW j \in DOMAIN wire', i < j, wire'[i] = wire'[j]
            PROVE  wire'[i] \in unsaved
        <5>1. CASE j = Len(wire) + 1
          <6>1. c.msg \in Elements(wire)
            BY <4>1, <4>2, <4>3, <5>1, ElementsContain
          <6> QED BY <1>0, <2>2, <4>1, <4>3, <5>1, <6>1 DEF SentAgain
        <5>2. CASE j # Len(wire) + 1
          BY <1>0, <4>2, <4>3, <5>2 DEF SentOnceInOrder, ResentIfUnsaved
        <5> QED BY <5>1, <5>2
      <4>4. ASSUME ~overlapped, NEW i \in DOMAIN wire', NEW j \in DOMAIN wire', i < j,
                   wire'[i].queued, wire'[j].queued
            PROVE  wire'[i].id <= wire'[j].id
        <5>1. CASE j = Len(wire) + 1
          <6>1. wire'[i] \in Elements(wire) /\ c.by = "flush"
            BY <1>0, <4>1, <4>2, <4>4, <5>1, ElementsContain DEF Marked
          <6> QED BY <1>0, <4>1, <4>4, <5>1, <6>1 DEF FlushOrder
        <5>2. CASE j # Len(wire) + 1
          BY <1>0, <4>2, <4>4, <5>2 DEF SentOnceInOrder, QueuedInOrder
        <5> QED BY <5>1, <5>2
      <4> QED BY <2>2, <4>3, <4>4 DEF SentOnceInOrder, ResentIfUnsaved, QueuedInOrder
    <3> QED BY <2>4, <3>1, <3>2
  <2> QED BY <2>2, <2>6, <2>7, <2>8, <2>9, <2>10, <2>11 DEF SendInv
<1>5. ASSUME NEW c \in calls, Return(c) PROVE SendInv'
  <2>1. UNCHANGED <<wire, unsaved, accepted, overlapped>>
    BY <1>5 DEF Return
  <2>2. CASE c.by = "flush"
    <3>1. ~overlapped => \A d \in calls \ {c} : d.by # "flush"
      BY <1>0, <2>2 DEF FlushOrder
    <3>2. FlushFrom(queue, calls \ {c}, nodeConnected) /\ calls \ {c} \in SUBSET calls
      BY <1>5, <2>2 DEF Return
    <3> QED BY <2>1, <3>1, <3>2, FlushMoves
  <2>3. CASE c.by # "flush"
    <3>1. calls' = calls \ {c} /\ queue' = queue
      BY <1>5, <2>3 DEF Return
    <3> QED BY <1>0, <2>1, <3>1 DEF SendInv, Below, OneCopy, SentAgain, Marked, FlushOrder,
               SentOnceInOrder, ResentIfUnsaved, QueuedInOrder
  <2> QED BY <2>2, <2>3
<1>6. ASSUME NEW c \in calls, Throw(c) PROVE SendInv'
  <2>1. /\ calls' = calls \ {c} /\ unsaved \subseteq unsaved'
        /\ UNCHANGED <<wire, accepted, overlapped>>
    BY <1>6 DEF Throw
  <2>2. SentOnceInOrder'
    BY <1>0, <2>1 DEF SentOnceInOrder, ResentIfUnsaved, QueuedInOrder
  <2>3. CASE c.by = "flush"
    <3>1. queue' = <<c.msg>> \o queue
      BY <1>6, <2>3 DEF Throw
    <3>2. c.msg \in Message /\ c.stage \in {"prepare", "save"}
      BY <1>0 DEF Call
    <3>3. /\ Elements(queue') = Elements(queue) \cup {c.msg}
          /\ Distinct(queue')
          /\ Rising(queue) /\ (\A m \in Elements(queue) : c.msg.id < m.id) => Rising(queue')
      <4>1. Distinct(queue) /\ c.msg \notin Elements(queue)
        BY <1>0 DEF OneCopy
      <4>2. queue \in Seq(Message)
        BY <1>0
      <4>3. /\ Elements(queue') = Elements(queue) \cup {c.msg}
            /\ Distinct(queue) /\ c.msg \notin Elements(queue) => Distinct(queue')
            /\ Rising(queue) /\ (\A m \in Elements(queue) : c.msg.id < m.id) => Rising(queue')
        BY <3>1, <3>2, <4>2, FrontOrder
      <4> QED BY <4>1, <4>3
    <3>4. c.msg \in Elements(wire) => c.msg \in unsaved'
      BY <1>0, <1>6, <2>1, <3>2 DEF Throw, SentAgain
    <3>5. Below'
      BY <1>0, <2>1, <3>3 DEF Below
    <3>6. OneCopy'
      BY <1>0, <2>1, <3>3 DEF OneCopy
    <3>7. SentAgain' /\ Marked'
      BY <1>0, <2>1, <2>3, <3>3, <3>4 DEF SentAgain, Marked
    <3>8. ~overlapped => FlushOrder'
      <4> SUFFICES ASSUME ~overlapped PROVE FlushOrder'
        OBVIOUS
      <4>1. \A d \in calls' : d.by # "flush"
        BY <1>0, <2>1, <2>3 DEF FlushOrder
      <4> QED BY <1>0, <2>1, <2>3, <3>3, <4>1 DEF FlushOrder
    <3> QED BY <2>1, <2>2, <3>5, <3>6, <3>7, <3>8 DEF SendInv
  <2>4. CASE c.by # "flush"
    <3>1. queue' = queue
      BY <1>6, <2>4 DEF Throw
    <3> QED BY <1>0, <2>1, <2>2, <3>1 DEF SendInv, Below, OneCopy, SentAgain, Marked, FlushOrder
  <2> QED BY <2>3, <2>4
<1> QED BY <1>1, <1>2, <1>3, <1>4, <1>5, <1>6 DEF Next

\* Initially nothing is queued or sent.
LEMMA InitSendInv == Init => SendInv
<1> SUFFICES ASSUME Init PROVE SendInv
  OBVIOUS
<1>1. queue = <<>> /\ wire = <<>> /\ calls = {}
  BY DEF Init
<1>2. DOMAIN queue = {} /\ DOMAIN wire = {} /\ Elements(queue) = {} /\ Elements(wire) = {}
  BY <1>1 DEF Elements
<1> QED BY <1>1, <1>2 DEF SendInv, Below, OneCopy, SentAgain, Marked, FlushOrder, Distinct, Rising,
           SentOnceInOrder, ResentIfUnsaved, QueuedInOrder

\* No message is sent twice unless the first time it could not be saved, and what
\* was queued is sent in its order unless flushes overlap (flushOutboundQueue).
THEOREM SentOnce == Spec => []SentOnceInOrder
<1>1. SendInv => SentOnceInOrder
  BY DEF SendInv
<1> QED BY <1>1, InitSendInv, StepSendInv, TypeCorrectness, PTL DEF Spec

=============================================================================
