------------------------------ MODULE Devices ------------------------------
(***************************************************************************)
(* The devices of one account, as the account's primary device and its     *)
(* contacts have them.  The primary links and revokes devices and tells    *)
(* every contact over its pairwise channel; a contact keeps the latest     *)
(* announcement by the time it was made.  PermissionManager holds two      *)
(* views: the devices of each account and the account of each device       *)
(* (accountOf; those that have one are also the flat set contacts).        *)
(***************************************************************************)
EXTENDS Integers, FiniteSets

CONSTANTS
    Device,      \* all devices:
    Primary,     \* the primary device, whose key is the account's key
    Secondary,   \* devices that may be linked
    Contact,     \* contacts of the primary, of one device each
    None,        \* no account
    OfferTtl,    \* life of a link offer
    Budgets      \* bounds: the secondaries that take part in a behaviour, and what
                 \* may happen how often

VARIABLES
    mem,        \* PermissionManager of each device
    seen,       \* deviceAnnouncementSeen for this account: device -> eventAt
    disk,       \* what storage has of both
    unsaved,    \* devices with a persistContacts under way, or one that failed:
                \* the next, of shutdown at the latest, writes the list
    unseen,     \* devices with a persistDeviceAnnouncementSeen under way
    offer,      \* pendingLinkOffer of each secondary
    offers,     \* offers shown so far
    linking,    \* secondaries inside handleDeviceLinked's await
    calls,      \* the primary's broadcasts under way
    net,        \* control messages under way
    now, left,
    minted,     \* history: announcements made
    told,       \* history: announcements that reached each device
    missed,     \* history: was one lost, or not sent?
    strayed     \* history: devices that removed a contact themselves, took over
                \* a list, or crashed with something unsaved

vars == <<mem, seen, disk, unsaved, unseen, offer, offers, linking, calls, net, now, left,
          minted, told, missed, strayed>>

NoOffer == [challenge |-> 0, expiresAt |-> 0]

\* All that is counted down, and who takes part.
Allowance ==
    [secondaries : SUBSET Secondary, calls : Nat, offers : Nat, handshakes : Nat,
     removals : Nat, restarts : Nat, losses : Nat, ticks : Nat]

ConstantsOK ==
    /\ Device = {Primary} \cup Secondary \cup Contact
    /\ Primary \notin Secondary \cup Contact /\ Secondary \cap Contact = {}
    /\ None \notin Device
    /\ IsFiniteSet(Contact) /\ OfferTtl \in Nat
    /\ Budgets \subseteq Allowance

----------------------------------------------------------------------------
(* PermissionManager *)

\* The devices of each account ({}: no such account) with the account's place in
\* the list, the places given so far, and the account of each device.  The list
\* is what storage and messages have: all but accountOf.
Knowing(order) ==
    [devices   |-> [a \in Device |-> IF a \in DOMAIN order THEN {a} ELSE {}],
     place     |-> [a \in Device |-> IF a \in DOMAIN order THEN order[a] ELSE 0],
     places    |-> Cardinality(DOMAIN order),
     accountOf |-> [k \in Device |-> IF k \in DOMAIN order THEN k ELSE None]]

Empty == Knowing([a \in {} |-> 0])

getContactRecords(m) == [devices |-> m.devices, place |-> m.place, places |-> m.places]

Accounts(m) == {a \in Device : m.devices[a] # {}}

Mapped(m) == {k \in Device : m.accountOf[k] # None}

getDevicesForAccount(m, a) == m.devices[a]

\* A new account goes to the end of the list.
addContactAccount(m, a, ds) ==
    [devices   |-> [m.devices EXCEPT ![a] = @ \cup ds],
     place     |-> IF a \in Accounts(m) THEN m.place ELSE [m.place EXCEPT ![a] = m.places],
     places    |-> IF a \in Accounts(m) THEN m.places ELSE m.places + 1,
     accountOf |-> [k \in Device |-> IF k \in ds THEN a ELSE m.accountOf[k]]]

addContact(m, p) == addContactAccount(m, p, {p})

\* An account not yet known is created, with the account key as first device.
addDeviceToContact(m, a, k) ==
    addContactAccount(m, a, IF a \in Accounts(m) THEN {k} ELSE {a, k})

\* Mutant of removeDeviceFromContact: the reverse mapping is forgotten.
removeDeviceButMapping(m, a, k) == [m EXCEPT !.devices[a] = @ \ {k}]

\* An account without devices goes.
removeDeviceFromContact(m, a, k) ==
    IF a \notin Accounts(m) THEN m ELSE
    [devices   |-> [m.devices EXCEPT ![a] = @ \ {k}],
     place     |-> IF m.devices[a] = {k} THEN [m.place EXCEPT ![a] = 0] ELSE m.place,
     places    |-> m.places,
     accountOf |-> [m.accountOf EXCEPT ![k] = None]]

\* An account with all its devices, or else one device of its account.
removeContact(m, p) ==
    IF p \in Accounts(m)
    THEN [devices   |-> [m.devices EXCEPT ![p] = {}],
          place     |-> [m.place EXCEPT ![p] = 0],
          places    |-> m.places,
          accountOf |-> [k \in Device |-> IF k \in m.devices[p] THEN None ELSE m.accountOf[k]]]
    ELSE IF p \in Mapped(m) THEN removeDeviceFromContact(m, m.accountOf[p], p) ELSE m

\* The accounts of a list are added one by one: a device that two of them list
\* belongs to the last.
Last(list, k) ==
    CHOOSE a \in Device : /\ k \in list.devices[a]
                          /\ \A b \in Device : k \in list.devices[b] => list.place[b] <= list.place[a]

loadContactRecords(m, list) ==
    [devices   |-> [a \in Device |-> m.devices[a] \cup list.devices[a]],
     place     |-> [a \in Device |-> IF a \in Accounts(list) \ Accounts(m) THEN m.places + list.place[a]
                                     ELSE m.place[a]],
     places    |-> m.places + list.places,
     accountOf |-> [k \in Device |-> IF \E a \in Device : k \in list.devices[a] THEN Last(list, k)
                                     ELSE m.accountOf[k]]]

\* sendMessage goes to all devices of the account the recipient belongs to.
FanOut(m, p) == IF m.accountOf[p] # None THEN getDevicesForAccount(m, m.accountOf[p]) ELSE {p}

----------------------------------------------------------------------------

Spend(what) ==
    /\ left[what] > 0
    /\ left' = [left EXCEPT ![what] = @ - 1]

Init ==
    /\ \E order \in [Contact -> 0..Cardinality(Contact) - 1] :
          /\ \A b, c \in Contact : order[b] = order[c] => b = c
          /\ mem = [x \in Device |-> CASE x = Primary -> Knowing(order)
                                       [] x \in Contact -> Knowing([p \in {Primary} |-> 0])
                                       [] OTHER -> Empty]
    /\ seen = [x \in Device |-> [k \in Secondary |-> 0]]
    /\ disk = [x \in Device |-> [records |-> getContactRecords(mem[x]), seen |-> seen[x]]]
    /\ unsaved = {} /\ unseen = {} /\ linking = {}
    /\ offer = [d \in Secondary |-> NoOffer] /\ offers = {}
    /\ calls = {} /\ net = {} /\ now = 1
    /\ left \in Budgets
    /\ minted = {} /\ told = [x \in Device |-> {}] /\ missed = FALSE /\ strayed = {}

Tick ==
    /\ Spend("ticks")
    /\ now' = now + 1
    /\ UNCHANGED <<mem, seen, disk, unsaved, unseen, offer, offers, linking, calls, net, minted, told, missed, strayed>>

----------------------------------------------------------------------------
(* The primary *)

\* Device k joins or leaves the account: signed, applied here, and told to the
\* contacts once persistContacts is done.  "linked" is the offer accepted, if any.
Announce(kind, k, at, linked) ==
    LET m == [kind |-> kind, device |-> k, at |-> at]
    IN  /\ mem' = [mem EXCEPT ![Primary] = IF kind = "device_added" THEN addDeviceToContact(@, Primary, k)
                                            ELSE removeDeviceFromContact(@, Primary, k)]
        /\ calls' = calls \cup {[announcement |-> m, linked |-> linked, saved |-> FALSE]}
        /\ minted' = minted \cup {m}
        /\ UNCHANGED <<seen, disk, unsaved, unseen, offer, offers, linking, net, now, told, missed, strayed>>

broadcastDeviceAdded(k) == Spend("calls") /\ Announce("device_added", k, now, NoOffer)

broadcastDeviceRevoked(k) == Spend("calls") /\ Announce("device_revoked", k, now, NoOffer)

\* The handshake with the secondary, which precedes the announcement, may take
\* until after the offer has expired.
acceptDeviceLinkOffer(o) ==
    /\ Spend("calls")
    /\ Announce("device_added", o.device, now, [challenge |-> o.challenge, expiresAt |-> o.expiresAt])

CallSaved(c) ==
    /\ ~c.saved
    /\ calls' = (calls \ {c}) \cup {[c EXCEPT !.saved = TRUE]}
    /\ disk' = [disk EXCEPT ![Primary].records = getContactRecords(mem[Primary])]
    /\ UNCHANGED <<mem, seen, unsaved, unseen, offer, offers, linking, net, now, left, minted, told, missed, strayed>>

\* Storage fails: the call throws, its change stays, nobody is told.
CallFails(c) ==
    /\ ~c.saved
    /\ Spend("losses")
    /\ calls' = calls \ {c}
    /\ unsaved' = unsaved \cup {Primary}
    /\ missed' = TRUE
    /\ UNCHANGED <<mem, seen, disk, unseen, offer, offers, linking, net, now, minted, told, strayed>>

\* To every contact there is now, each sendControl to all devices of the
\* contact's account; the one linked gets the list as well.
Broadcast(c) ==
    /\ c.saved
    /\ calls' = calls \ {c}
    /\ LET a == c.announcement
           peers == Mapped(mem[Primary])
                    \ ({Primary} \cup IF a.kind = "device_added" THEN {a.device} ELSE {})
           to == (UNION {FanOut(mem[Primary], p) : p \in peers}) \ {Primary}
           linkedTo == IF c.linked = NoOffer THEN {} ELSE FanOut(mem[Primary], a.device) \ {Primary}
       IN  net' = net \cup {[to |-> x, kind |-> a.kind, device |-> a.device, at |-> a.at] : x \in to}
                      \cup {[to |-> x, kind |-> "device_linked", device |-> a.device, at |-> a.at,
                             linkChallenge |-> c.linked.challenge,
                             contactRecords |-> getContactRecords(mem[Primary])] : x \in linkedTo}
    /\ UNCHANGED <<mem, seen, disk, unsaved, unseen, offer, offers, linking, now, left, minted, told, missed, strayed>>

----------------------------------------------------------------------------
(* The others *)

createDeviceLinkOffer(d) ==
    /\ Spend("offers")
    /\ LET o == [challenge |-> Cardinality(offers) + 1, expiresAt |-> now + OfferTtl]
       IN  /\ offer' = [offer EXCEPT ![d] = o]
           /\ offers' = offers \cup {[device |-> d, challenge |-> o.challenge, expiresAt |-> o.expiresAt]}
    /\ UNCHANGED <<mem, seen, disk, unsaved, unseen, linking, calls, net, now, minted, told, missed, strayed>>

\* A message is handled once; copies to one device are one.
Take(m) == m \in net /\ net' = net \ {m}

\* Mutant of Applies: the guard compares nothing.
AppliesAlways(m) == TRUE

\* The latest by time of signing; at equal times the first to come.
Applies(m) == m.at > seen[m.to][m.device]

applyDeviceAnnouncement(m) ==
    /\ m.kind \in {"device_added", "device_revoked"}
    /\ Take(m)
    /\ told' = [told EXCEPT ![m.to] = @ \cup {[kind |-> m.kind, device |-> m.device, at |-> m.at]}]
    /\ \/ /\ Applies(m)
          /\ seen' = [seen EXCEPT ![m.to][m.device] = m.at]
          /\ mem' = [mem EXCEPT ![m.to] = IF m.kind = "device_added" THEN addDeviceToContact(@, Primary, m.device)
                                          ELSE removeDeviceFromContact(@, Primary, m.device)]
          /\ unsaved' = unsaved \cup {m.to} /\ unseen' = unseen \cup {m.to}
       \/ ~Applies(m) /\ UNCHANGED <<seen, mem, unsaved, unseen>>
    /\ UNCHANGED <<disk, offer, offers, linking, calls, now, left, minted, missed, strayed>>

\* The challenge must be that of the offer pending now, which must not have expired.
handleDeviceLinked(m) ==
    /\ m.kind = "device_linked"
    /\ Take(m)
    /\ LET x == m.to
           known == x \in Secondary /\ offer[x] # NoOffer /\ offer[x].challenge = m.linkChallenge
           alive == known /\ now <= offer[x].expiresAt
           imports == alive /\ m.device = x
       IN  /\ \/ /\ imports
                 /\ mem' = [mem EXCEPT ![x] = addDeviceToContact(loadContactRecords(@, m.contactRecords), Primary, x)]
                 /\ linking' = linking \cup {x}
                 /\ strayed' = strayed \cup {x}
              \/ ~imports /\ UNCHANGED <<mem, linking, strayed>>
           /\ offer' = IF known /\ ~alive THEN [offer EXCEPT ![x] = NoOffer] ELSE offer
    /\ UNCHANGED <<seen, disk, unsaved, unseen, offers, calls, now, left, minted, told, missed>>

\* The list is saved; only now the pending offer is cleared, whichever it is.
LinkSaved(d) ==
    /\ d \in linking
    /\ linking' = linking \ {d}
    /\ offer' = [offer EXCEPT ![d] = NoOffer]
    /\ disk' = [disk EXCEPT ![d].records = getContactRecords(mem[d])]
    /\ UNCHANGED <<mem, seen, unsaved, unseen, offers, calls, net, now, left, minted, told, missed, strayed>>

\* A handshake of y reaches x, which makes y a contact.
Handshake(x, y) ==
    /\ x # y
    /\ Spend("handshakes")
    /\ mem' = [mem EXCEPT ![x] = addContact(@, y)]
    /\ unsaved' = unsaved \cup {x}
    /\ UNCHANGED <<seen, disk, unseen, offer, offers, linking, calls, net, now, minted, told, missed, strayed>>

RemoveContact(x, y) ==
    /\ Spend("removals")
    /\ y \in Accounts(mem[x]) \cup Mapped(mem[x])
    /\ mem' = [mem EXCEPT ![x] = removeContact(@, y)]
    /\ unsaved' = unsaved \cup {x}
    /\ strayed' = strayed \cup {x}
    /\ UNCHANGED <<seen, disk, unseen, offer, offers, linking, calls, net, now, minted, told, missed>>

----------------------------------------------------------------------------
(* Storage and failures *)

\* persistContacts writes the list as it is when its turn comes.
ContactsSaved(x) ==
    /\ x \in unsaved
    /\ unsaved' = unsaved \ {x}
    /\ disk' = [disk EXCEPT ![x].records = getContactRecords(mem[x])]
    /\ UNCHANGED <<mem, seen, unseen, offer, offers, linking, calls, net, now, left, minted, told, missed, strayed>>

SeenSaved(x) ==
    /\ x \in unseen
    /\ unseen' = unseen \ {x}
    /\ disk' = [disk EXCEPT ![x].seen = seen[x]]
    /\ UNCHANGED <<mem, seen, unsaved, offer, offers, linking, calls, net, now, left, minted, told, missed, strayed>>

\* sendControl swallows the error of sendMessage.
Lose(m) ==
    /\ Take(m)
    /\ Spend("losses")
    /\ missed' = TRUE
    /\ UNCHANGED <<mem, seen, disk, unsaved, unseen, offer, offers, linking, calls, now, minted, told, strayed>>

Whole(x) == x \notin unsaved \cup unseen \cup linking /\ (x = Primary => calls = {})

\* The process ends and starts: loadPersistedState.
Restart(x) ==
    /\ Spend("restarts")
    /\ mem' = [mem EXCEPT ![x] = loadContactRecords(Empty, disk[x].records)]
    /\ seen' = [seen EXCEPT ![x] = disk[x].seen]
    /\ unsaved' = unsaved \ {x} /\ unseen' = unseen \ {x} /\ linking' = linking \ {x}
    /\ offer' = IF x \in Secondary THEN [offer EXCEPT ![x] = NoOffer] ELSE offer
    /\ calls' = IF x = Primary THEN {} ELSE calls
    /\ strayed' = IF Whole(x) THEN strayed ELSE strayed \cup {x}
    /\ UNCHANGED <<disk, offers, net, now, minted, told, missed>>

Acting == {Primary} \cup Contact \cup left.secondaries

Next ==
    \/ Tick
    \/ \E k \in left.secondaries : broadcastDeviceAdded(k) \/ broadcastDeviceRevoked(k)
    \/ \E o \in offers : acceptDeviceLinkOffer(o)
    \/ \E c \in calls : CallSaved(c) \/ CallFails(c) \/ Broadcast(c)
    \/ \E d \in left.secondaries : createDeviceLinkOffer(d) \/ LinkSaved(d)
    \/ \E m \in net : applyDeviceAnnouncement(m) \/ handleDeviceLinked(m) \/ Lose(m)
    \/ \E x, y \in Acting : Handshake(x, y) \/ RemoveContact(x, y)
    \/ \E x \in Acting : ContactsSaved(x) \/ SeenSaved(x) \/ Restart(x)

Spec == Init /\ [][Next]_vars

----------------------------------------------------------------------------
(* Properties *)

\* An account that is listed has its place, and no time of an announcement lies
\* in the future.
TypeOK ==
    /\ \A x \in Device :
        /\ mem[x].devices \in [Device -> SUBSET Device]
        /\ mem[x].accountOf \in [Device -> Device \cup {None}]
        /\ \A a, b \in Accounts(mem[x]) :
              mem[x].place[a] < mem[x].places /\ (mem[x].place[a] = mem[x].place[b] => a = b)
        /\ \A k \in Secondary : disk[x].seen[k] <= seen[x][k] /\ seen[x][k] <= now
    /\ unsaved \cup unseen \subseteq Device /\ linking \subseteq Secondary /\ missed \in BOOLEAN

\* The two views of PermissionManager never contradict each other: a device
\* that resolves to an account is listed there, so that a message sent to it
\* is sent to it, through handshakes, links, revocations, removals and restarts.
ReachesItself ==
    \A x, k \in Device : mem[x].accountOf[k] # None => k \in FanOut(mem[x], k)

\* The flat view is "maintained in sync with" the list, the comment says, but for
\* one way out: a device that is listed under two accounts and leaves one of them,
\* revoked by the primary or removed here.
UnmappedByRevocation ==
    \A x \in Device \ strayed, a \in Device : \A k \in mem[x].devices[a] :
        mem[x].accountOf[k] = None =>
            /\ a = k
            /\ \E m \in told[x] \cup IF x = Primary THEN minted ELSE {} :
                  m.device = k /\ m.kind = "device_revoked"

\* What PermissionManager keeps holds together.
AccountsSound == TypeOK /\ ReachesItself /\ UnmappedByRevocation

\* Whatever order announcements arrive in, a device counts as one of the
\* account exactly if the latest that arrived says so, unless the list was
\* changed otherwise (strayed) or two bear the same time.
LatestStands ==
    \A x \in Device \ ({Primary} \cup strayed) : \A m \in told[x] :
        (\A n \in told[x] \ {m} : n.device = m.device => n.at < m.at)
            => (m.device \in getDevicesForAccount(mem[x], Primary) <=> m.kind = "device_added")

\* When nothing is under way and nothing was lost, every contact lists the
\* devices the primary lists, although broadcasts overlap, each read the
\* contacts after an await, and their messages crossed.
ViewsAgree ==
    calls = {} /\ net = {} /\ ~missed /\ Primary \notin strayed
    /\ (\A m, n \in minted : m.device = n.device /\ m.at = n.at => m = n) =>
        \A c \in Contact \ strayed :
            getDevicesForAccount(mem[c], Primary) \cap Secondary
                = getDevicesForAccount(mem[Primary], Primary) \cap Secondary

=============================================================================
