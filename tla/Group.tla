------------------------------- MODULE Group -------------------------------
(***************************************************************************)
(* One group: who is in it, with which sender keys, under which admin and  *)
(* name, as each member's GroupManager has it.  There is no group server:  *)
(* a change is made on one device and told to the others one by one, over  *)
(* their pairwise channels.  sendControl is not awaited, sends wait for    *)
(* different things, and a copy on the LAN overtakes the one through the   *)
(* relay: what one device tells another may arrive in any order.           *)
(* An invite is held until the application accepts it, and control         *)
(* messages that arrive before that find no group and are dropped.         *)
(***************************************************************************)
EXTENDS Integers, Sequences, FiniteSets, SequencesExt

CONSTANTS
    Peer,          \* the devices
    Creator,       \* the one that creates the group
    Name,          \* names of the group
    Nobody,        \* '' as treeRoot: the group has no admin; also: no group, no invite
    MaxChanges,    \* bound: changes after the creation
    MaxLost,       \* bound: control messages that sendControl gives up
    MaxRestarts    \* bound: restarts

VARIABLES
    group,      \* a member's Group: members in order of insertion, senderKeys,
                \* treeRoot, name; or Nobody
    pending,    \* pendingGroupInvites: the invite not yet answered, or Nobody
    net,        \* control messages from one device to another, as they were sent
    keyCount,   \* sender keys generated so far
    changes, lost, restarts,
    addedBy,    \* history: who made a device a member, once for each time
    gone,       \* history: left or declined of its own accord, and not back
    strayed,    \* history: devices that dropped or missed a message, removed
                \* someone locally, or lost something in a restart
    headless,   \* history: was the group ever without an admin?
    swapped     \* history: did a message mislead that overtook others of its sender?

vars == <<group, pending, net, keyCount, changes, lost, restarts, addedBy, gone, strayed, headless,
          swapped>>

ConstantsOK ==
    /\ IsFiniteSet(Peer) /\ Creator \in Peer
    /\ Nobody \notin Peer
    /\ Name # {}

Key == Nat \ {0}

In == {p \in Peer : group[p] # Nobody}

Members(g) == ToSet(g.members)

----------------------------------------------------------------------------
(* GroupManager *)

addMember(g, p, key) ==
    [g EXCEPT !.members = Append(@, p),
              !.keys = [q \in DOMAIN @ \cup {p} |-> IF q = p THEN key ELSE @[q]]]

\* Of a member.
removeMember(g, p) ==
    [g EXCEPT !.members = RemoveAt(@, CHOOSE i \in DOMAIN @ : @[i] = p),
              !.keys = [q \in DOMAIN @ \ {p} |-> @[q]]]

\* The invite becomes the group, whoever invited is taken for its admin.
joinGroup(invite) ==
    [members |-> invite.members, keys |-> invite.keys, admin |-> invite.by, name |-> invite.name]

\* setAdmin refuses a new admin that is not a member.
setAdmin(g, p) == IF p = Nobody \/ p \in Members(g) THEN [g EXCEPT !.admin = p] ELSE g

setName(g, n) == [g EXCEPT !.name = n]

----------------------------------------------------------------------------
(* Control messages *)

InviteOf(g, by) ==
    [kind |-> "group_invite", members |-> g.members, keys |-> g.keys, by |-> by, name |-> g.name]

\* sendControl: message m from p to each of the devices "to".
SendTo(network, p, to, m) ==
    [network EXCEPT ![p] = [q \in Peer |-> IF q \in to THEN Append(@[q], m) ELSE @[q]]]

\* p, or any member of a group without admin, may add and rename.
MayManage(g, p) == g.admin = p \/ (g.admin = Nobody /\ p \in Members(g))

----------------------------------------------------------------------------
(* The application's calls *)

Init ==
    /\ group = [p \in Peer |-> Nobody]
    /\ pending = [p \in Peer |-> Nobody]
    /\ net = [p \in Peer |-> [q \in Peer |-> <<>>]]
    /\ keyCount = 0 /\ changes = 0 /\ lost = 0 /\ restarts = 0
    /\ addedBy = [p \in Peer |-> <<>>]
    /\ gone = {} /\ strayed = {} /\ headless = FALSE /\ swapped = FALSE

\* createGroup: keys for everyone are made here and sent with the invites.
CreateGroup(first) ==
    LET members == <<Creator>> \o first
        g == [members |-> members, keys |-> [p \in ToSet(members) |-> CHOOSE i \in DOMAIN members : members[i] = p],
              admin |-> Creator, name |-> CHOOSE n \in Name : TRUE]
    IN  /\ keyCount = 0
        /\ group' = [group EXCEPT ![Creator] = g]
        /\ net' = SendTo(net, Creator, ToSet(first), InviteOf(g, Creator))
        /\ keyCount' = Len(members)
        /\ addedBy' = [p \in Peer |-> IF p \in Members(g) THEN <<Creator>> ELSE <<>>]
        /\ UNCHANGED <<pending, changes, lost, restarts, gone, strayed, headless, swapped>>

\* A call of the application on a device that is in the group.
Change(p) ==
    /\ p \in In
    /\ changes < MaxChanges
    /\ changes' = changes + 1
    /\ UNCHANGED <<pending, lost, restarts, swapped>>

\* addGroupMemberBroadcast: a fresh key, an invite to the new member, a
\* notice to the others.
AddGroupMember(p, new) ==
    /\ Change(p)
    /\ group[p].admin \in {Nobody, p}
    /\ new \notin Members(group[p])
    /\ LET key == keyCount + 1
           g == addMember(group[p], new, key)
           others == Members(g) \ {p, new}
       IN  /\ group' = [group EXCEPT ![p] = g]
           /\ net' = SendTo(SendTo(net, p, {new}, InviteOf(g, p)), p, others,
                            [kind |-> "group_member_added", peer |-> new, key |-> key])
    /\ keyCount' = keyCount + 1
    /\ addedBy' = [addedBy EXCEPT ![new] = Append(@, p)]
    /\ UNCHANGED <<gone, strayed, headless>>

\* Mutant of KickGroupMember: the recipients are those after the removal, and
\* the victim is not told.
KickGroupMemberUntold(p, victim) ==
    /\ Change(p)
    /\ group[p].admin = p
    /\ victim # p /\ victim \in Members(group[p])
    /\ group' = [group EXCEPT ![p] = removeMember(@, victim)]
    /\ net' = SendTo(net, p, Members(group[p]) \ {p, victim}, [kind |-> "group_member_kicked", peer |-> victim])
    /\ UNCHANGED <<keyCount, addedBy, gone, strayed, headless>>

\* kickGroupMemberBroadcast: the recipients are those before the removal.
KickGroupMember(p, victim) ==
    /\ Change(p)
    /\ group[p].admin = p
    /\ victim # p /\ victim \in Members(group[p])
    /\ group' = [group EXCEPT ![p] = removeMember(@, victim)]
    /\ net' = SendTo(net, p, Members(group[p]) \ {p}, [kind |-> "group_member_kicked", peer |-> victim])
    /\ UNCHANGED <<keyCount, addedBy, gone, strayed, headless>>

\* Mutant of TransferGroupAdmin: the old admin keeps the role until it hears
\* of the transfer, which nobody tells it.
TransferGroupAdminLater(p, new) ==
    /\ Change(p)
    /\ group[p].admin = p
    /\ new \in (Members(group[p]) \cup {Nobody}) \ {p}
    /\ net' = SendTo(net, p, Members(group[p]) \ {p}, [kind |-> "group_admin_change", peer |-> new])
    /\ headless' = (headless \/ new = Nobody)
    /\ UNCHANGED <<group, keyCount, addedBy, gone, strayed>>

\* transferGroupAdminBroadcast; Nobody makes the group adminless.
TransferGroupAdmin(p, new) ==
    /\ Change(p)
    /\ group[p].admin = p
    /\ new \in (Members(group[p]) \cup {Nobody}) \ {p}
    /\ group' = [group EXCEPT ![p] = setAdmin(@, new)]
    /\ net' = SendTo(net, p, Members(group[p]) \ {p}, [kind |-> "group_admin_change", peer |-> new])
    /\ headless' = (headless \/ new = Nobody)
    /\ UNCHANGED <<keyCount, addedBy, gone, strayed>>

\* renameGroupBroadcast; the present name is no change.
RenameGroup(p, n) ==
    /\ Change(p)
    /\ group[p].admin \in {Nobody, p}
    /\ n # group[p].name
    /\ group' = [group EXCEPT ![p] = setName(@, n)]
    /\ net' = SendTo(net, p, Members(group[p]) \ {p}, [kind |-> "group_rename", name |-> n])
    /\ UNCHANGED <<keyCount, addedBy, gone, strayed, headless>>

\* GroupHandle.leave: tell the members this device knows of, then forget.
Leave(p) ==
    /\ Change(p)
    /\ net' = SendTo(net, p, Members(group[p]) \ {p}, [kind |-> "group_leave"])
    /\ group' = [group EXCEPT ![p] = Nobody]
    /\ gone' = gone \cup {p}
    /\ headless' = (headless \/ group[p].admin = p)
    /\ UNCHANGED <<keyCount, addedBy, strayed>>

\* GroupHandle.removeMember: on this device only.
RemoveMember(p, q) ==
    /\ Change(p)
    /\ q # p /\ q \in Members(group[p])
    /\ group' = [group EXCEPT ![p] = removeMember(@, q)]
    /\ strayed' = strayed \cup {p}
    /\ UNCHANGED <<net, keyCount, addedBy, gone, headless>>

\* acceptGroupInvite: also over a group this device is in already.
AcceptInvite(p) ==
    /\ pending[p] # Nobody
    /\ group' = [group EXCEPT ![p] = joinGroup(pending[p])]
    /\ pending' = [pending EXCEPT ![p] = Nobody]
    /\ gone' = gone \ {p}
    /\ UNCHANGED <<net, keyCount, changes, lost, restarts, addedBy, strayed, headless, swapped>>

\* declineGroupInvite: nobody is told.
DeclineInvite(p) ==
    /\ pending[p] # Nobody
    /\ pending' = [pending EXCEPT ![p] = Nobody]
    /\ gone' = gone \cup ({p} \ In)
    /\ UNCHANGED <<group, net, keyCount, changes, lost, restarts, addedBy, strayed, headless, swapped>>

----------------------------------------------------------------------------
(* The control handlers *)

\* What a device must not hear before what the same one sent earlier: a rename before
\* a rename, which then undoes it, or before the news of an admin, and the news of an
\* admin before anything, for whoever takes the role over tells and invites others
\* without knowing what the last admin did.
Misleads(messages, i) ==
    \/ messages[i].kind = "group_admin_change" /\ i > 1
    \/ /\ messages[i].kind = "group_rename"
       /\ \E k \in 1..(i - 1) : messages[k].kind \in {"group_rename", "group_admin_change"}

\* p takes message i of those from q, if it is of "kind".
Takes(p, q, i, kind) ==
    /\ net[q][p][i].kind = kind
    /\ net' = [net EXCEPT ![q][p] = RemoveAt(@, i)]
    /\ swapped' = (swapped \/ Misleads(net[q][p], i))
    /\ UNCHANGED <<keyCount, changes, lost, restarts, addedBy>>

\* The handler breaks off.
Ignore(p) ==
    /\ strayed' = strayed \cup {p}
    /\ UNCHANGED <<group, pending, gone, headless>>

Becomes(p, g) ==
    /\ group' = [group EXCEPT ![p] = g]
    /\ UNCHANGED <<pending, strayed>>

\* A later invite replaces the one that waits.
OnGroupInvite(p, q, i) ==
    /\ Takes(p, q, i, "group_invite")
    /\ pending' = [pending EXCEPT ![p] = net[q][p][i]]
    /\ UNCHANGED <<group, gone, strayed, headless>>

\* The admin who leaves without a successor leaves the group adminless.
OnGroupLeave(p, q, i) ==
    /\ Takes(p, q, i, "group_leave")
    /\ LET applies == p \in In /\ q \in Members(group[p])
       IN  \/ /\ applies
              /\ Becomes(p, removeMember(IF group[p].admin = q THEN setAdmin(group[p], Nobody) ELSE group[p], q))
              /\ headless' = (headless \/ group[p].admin = q)
              /\ UNCHANGED gone
           \/ ~applies /\ Ignore(p)

OnGroupMemberAdded(p, q, i) ==
    /\ Takes(p, q, i, "group_member_added")
    /\ LET m == net[q][p][i]
           applies == p \in In /\ MayManage(group[p], q) /\ m.peer \notin Members(group[p])
       IN  \/ /\ applies
              /\ Becomes(p, addMember(group[p], m.peer, m.key))
              /\ UNCHANGED <<gone, headless>>
           \/ ~applies /\ Ignore(p)

\* Only the admin this device knows may name the next one.
OnGroupAdminChange(p, q, i) ==
    /\ Takes(p, q, i, "group_admin_change")
    /\ LET m == net[q][p][i]
           applies == p \in In /\ group[p].admin = q /\ m.peer \in Members(group[p]) \cup {Nobody}
       IN  \/ /\ applies
              /\ Becomes(p, setAdmin(group[p], m.peer))
              /\ UNCHANGED <<gone, headless>>
           \/ ~applies /\ Ignore(p)

\* The member kicked forgets the group, the others drop the member.
OnGroupMemberKicked(p, q, i) ==
    /\ Takes(p, q, i, "group_member_kicked")
    /\ LET m == net[q][p][i]
           applies == p \in In /\ group[p].admin = q /\ m.peer \in Members(group[p])
       IN  \/ /\ applies
              /\ Becomes(p, IF m.peer = p THEN Nobody ELSE removeMember(group[p], m.peer))
              /\ UNCHANGED <<gone, headless>>
           \/ ~applies /\ Ignore(p)

OnGroupRename(p, q, i) ==
    /\ Takes(p, q, i, "group_rename")
    /\ LET applies == p \in In /\ MayManage(group[p], q)
       IN  \/ /\ applies
              /\ Becomes(p, setName(group[p], net[q][p][i].name))
              /\ UNCHANGED <<gone, headless>>
           \/ ~applies /\ Ignore(p)

----------------------------------------------------------------------------
(* Failures *)

\* sendControl swallows the error of sendMessage: one device is not told.
\* What is lost is lost when it would have been handled.
Lose(p, q, i) ==
    /\ lost < MaxLost
    /\ lost' = lost + 1
    /\ net' = [net EXCEPT ![p][q] = RemoveAt(@, i)]
    /\ strayed' = strayed \cup {q}
    /\ UNCHANGED <<group, pending, keyCount, changes, restarts, addedBy, gone, headless, swapped>>

\* The process ends and starts.  Invites are in memory only; the group comes
\* back through restoreGroup from the application's copy of members, keys and
\* name, which joins as if the first member had invited.
Restart(p) ==
    /\ restarts < MaxRestarts
    /\ p \in In \/ pending[p] # Nobody
    /\ restarts' = restarts + 1
    /\ pending' = [pending EXCEPT ![p] = Nobody]
    /\ group' = IF p \in In THEN [group EXCEPT ![p].admin = group[p].members[1]] ELSE group
    /\ strayed' = IF pending[p] # Nobody \/ group' # group THEN strayed \cup {p} ELSE strayed
    /\ UNCHANGED <<net, keyCount, changes, lost, addedBy, gone, headless, swapped>>

Next ==
    \/ \E first \in SetToAllKPermutations(Peer \ {Creator}) : CreateGroup(first)
    \/ \E p, q \in Peer :
        \/ AddGroupMember(p, q)
        \/ KickGroupMember(p, q)
        \/ RemoveMember(p, q)
        \/ \E i \in DOMAIN net[p][q] : Lose(p, q, i)
        \/ \E i \in DOMAIN net[q][p] :
            \/ OnGroupInvite(p, q, i)
            \/ OnGroupLeave(p, q, i)
            \/ OnGroupMemberAdded(p, q, i)
            \/ OnGroupAdminChange(p, q, i)
            \/ OnGroupMemberKicked(p, q, i)
            \/ OnGroupRename(p, q, i)
    \/ \E p \in Peer :
        \/ \E new \in Peer \cup {Nobody} : TransferGroupAdmin(p, new)
        \/ \E n \in Name : RenameGroup(p, n)
        \/ Leave(p)
        \/ AcceptInvite(p)
        \/ DeclineInvite(p)
        \/ Restart(p)

Spec == Init /\ [][Next]_vars

----------------------------------------------------------------------------
(* Properties *)

\* A member's list and its keys name the same devices, itself among them.
TypeOK ==
    /\ \A p \in In :
        /\ DOMAIN group[p].keys = Members(group[p])
        /\ IsInjective(group[p].members)
        /\ p \in Members(group[p])
        /\ group[p].admin \in Peer \cup {Nobody} /\ group[p].name \in Name
        /\ \A q \in Members(group[p]) : group[p].keys[q] \in 1..keyCount
    /\ \A p, q \in Peer : \A i \in DOMAIN net[p][q] : p # q
    /\ strayed \cup gone \subseteq Peer /\ {headless, swapped} \subseteq BOOLEAN

\* What a member encrypts with is what the others decrypt with: two devices
\* that hold a key for the same member hold the same one, also while changes
\* are under way, crossed or lost ("so everyone agrees" in
\* addGroupMemberBroadcast), unless the member was added more than once.
KeysAgree ==
    \A p, q \in In : \A m \in Members(group[p]) \cap Members(group[q]) :
        Len(addedBy[m]) <= 1 => group[p].keys[m] = group[q].keys[m]

\* The role of admin is handed on, never copied: whatever order the messages
\* come in, no two devices act as admin, as long as none was restarted
\* (restoreGroup gives the role back to the first member of the list).
OneAdmin ==
    restarts = 0 => Cardinality({p \in In : group[p].admin = p}) <= 1

Quiet == \A p, q \in Peer : net[p][q] = <<>> /\ pending[p] = Nobody

\* Once everything is delivered and answered, the members agree, in whatever order
\* it came: each lists all of them, with one key for each, no one else but devices
\* that left or declined by themselves, and they have one admin and one name.  Not if
\* a rename overtook another or the news of an admin, or that news overtook anything;
\* nor if a device dropped or missed a message, nor once the group had no admin or a
\* device was added again: the kick of its first time may still be on the way.
Agreement ==
    Quiet /\ strayed = {} /\ ~headless /\ ~swapped /\ (\A m \in Peer : Len(addedBy[m]) <= 1) =>
        \A p, q \in In :
            /\ group[p].admin = group[q].admin /\ group[p].name = group[q].name
            /\ In \subseteq Members(group[p]) /\ Members(group[p]) \subseteq In \cup gone
            /\ group[p].keys[p] = group[q].keys[p]
=============================================================================
