------------------------ MODULE ConsumerGroupsProofs ------------------------
(***************************************************************************)
(* The committed offsets of consumer groups lie within the logs, their     *)
(* generations fence, and their tables of assignments have an entry for    *)
(* each member or none.                                                    *)
(***************************************************************************)
EXTENDS ConsumerGroups, WellFoundedInduction, TLAPS

-----------------------------------------------------------------------------
(* The inductive invariant.                                                *)

LogsOK == \A t \in DOMAIN topics : \A i \in DOMAIN topics[t] : topics[t][i] \in [base : Nat, next : Nat]

IsMember(member) ==
    member = [protocols |-> member.protocols, session_timeout |-> member.session_timeout,
              last_heartbeat |-> member.last_heartbeat]

\* All members know the protocol.
Agreed(members, protocol) == DOMAIN members # {} => protocol \in Common(members)

IsGroup(x) ==
    /\ x = [generation |-> x.generation, leader |-> x.leader, members |-> x.members,
            protocol |-> x.protocol, assignments |-> x.assignments, offsets |-> x.offsets]
    /\ x.generation \in Nat
    /\ \A m \in DOMAIN x.members : IsMember(x.members[m])
    /\ \A p \in DOMAIN x.offsets : x.offsets[p] \in Nat
    /\ DOMAIN x.assignments \in {{}, DOMAIN x.members}
    /\ Agreed(x.members, x.protocol)

\* The groups gs have committed offsets within the logs.
Committed(gs) ==
    \A g \in DOMAIN gs : \A p \in DOMAIN gs[g].offsets : p \in Existing /\ gs[g].offsets[p] <= Log(p).next

\* The SyncGroup being applied was accepted, and is still acceptable: nothing else
\* changes the group before it ends.
ApplyingOK ==
    applying # NIL =>
        \E g \in Groups, m \in Members :
           applying = <<g, m>> /\ Client(g, m).phase = "Syncing" /\ SyncAccepted(g, m)

GroupsInv ==
    /\ LogsOK
    /\ \A g \in DOMAIN groups : IsGroup(groups[g])
    /\ Committed(groups)
    /\ DOMAIN clients = Groups \X Members
    /\ ApplyingOK

-----------------------------------------------------------------------------
(* Groups.                                                                 *)

\* The group old may become new.
Follows(old, new) ==
    /\ new.generation >= old.generation
    /\ new.generation = old.generation => /\ DOMAIN new.members = DOMAIN old.members
                                          /\ new.leader = old.leader /\ new.protocol = old.protocol

\* The groups may become gs.
GroupsFollow(gs) ==
    /\ DOMAIN groups \subseteq DOMAIN gs
    /\ \A g \in DOMAIN gs : IsGroup(gs[g])
    /\ \A g \in DOMAIN groups : Follows(groups[g], gs[g])

(* The first of a nonempty set of names.                                   *)
LEMMA LeastName ==
  ASSUME NEW S \in SUBSET Nat, S # {}
  PROVE  Min(S) \in S
<1>1. PICK x \in S : \A y \in S : ~(<<y, x>> \in OpToRel(<, Nat))
  BY Zenon, WFMin, NatLessThanWellFounded
<1>2. ASSUME NEW y \in S PROVE x <= y
  <2>1. y \in Nat /\ x \in Nat
    BY Zenon
  <2>2. ~(y < x)
    BY Zenon, <1>1, <2>1 DEF OpToRel
  <2> QED BY <2>1, <2>2
<1> QED BY Zenon, <1>2 DEF Min

(* select_group_protocol selects a protocol all members know.              *)
LEMMA SelectedIsCommon ==
  ASSUME NEW members, Common(members) # {}
  PROVE  SelectGroupProtocol(members) \in Common(members)
<1>1. Common(members) \in SUBSET Nat
  BY Zenon, ConsumerGroupsAssumption DEF Common
<1> QED BY Zenon, <1>1, LeastName DEF SelectGroupProtocol

(* Fewer members that know what they knew have more in common.             *)
LEMMA CommonGrows ==
  ASSUME NEW old, NEW new, DOMAIN new \subseteq DOMAIN old,
         \A m \in DOMAIN new : DOMAIN new[m].protocols = DOMAIN old[m].protocols
  PROVE  /\ Common(old) \subseteq Common(new)
         /\ \A protocol : Agreed(old, protocol) => Agreed(new, protocol)
BY Zenon DEF Common, Agreed

\* The group of these fields.
Group(generation, leader, members, protocol, assignments, offsets) ==
    [generation |-> generation, leader |-> leader, members |-> members,
     protocol |-> protocol, assignments |-> assignments, offsets |-> offsets]

(* What makes a group.                                                     *)
LEMMA GroupMade ==
  ASSUME NEW generation \in Nat, NEW leader, NEW members, NEW protocol, NEW assignments, NEW offsets,
         \A m \in DOMAIN members : IsMember(members[m]), \A p \in DOMAIN offsets : offsets[p] \in Nat,
         DOMAIN assignments \in {{}, DOMAIN members}, Agreed(members, protocol)
  PROVE  IsGroup(Group(generation, leader, members, protocol, assignments, offsets))
<1> DEFINE x == Group(generation, leader, members, protocol, assignments, offsets)
<1>1. /\ x.generation = generation /\ x.leader = leader /\ x.members = members
      /\ x.protocol = protocol /\ x.assignments = assignments /\ x.offsets = offsets
  BY Zenon DEF Group
<1>2. x = [generation |-> x.generation, leader |-> x.leader, members |-> x.members,
           protocol |-> x.protocol, assignments |-> x.assignments, offsets |-> x.offsets]
  BY Zenon, <1>1 DEF Group
<1> HIDE DEF x
<1>3. IsGroup(x)
  BY Zenon, <1>1, <1>2 DEF IsGroup
<1> QED BY Zenon, <1>3 DEF x

(* A group may stay as it is.                                              *)
LEMMA SameFollows ==
  ASSUME NEW x, IsGroup(x) PROVE Follows(x, x)
BY DEF IsGroup, Follows

(* expire_group_members.                                                   *)
LEMMA LapsedFollows ==
  ASSUME NEW x, IsGroup(x)
  PROVE  /\ IsGroup(Lapsed(x)) /\ Follows(x, Lapsed(x)) /\ Lapsed(x).offsets = x.offsets
         /\ Unexpired(x.members) = x.members => Lapsed(x) = x
<1> DEFINE kept == Unexpired(x.members)
           protocol == IF kept = Nothing THEN NoName ELSE SelectGroupProtocol(kept)
           leader == IF x.leader \in DOMAIN kept THEN x.leader ELSE FirstMember(kept)
<1>1. CASE kept = x.members
  <2>1. Lapsed(x) = x
    BY Zenon, <1>1 DEF Lapsed
  <2> QED BY Zenon, <2>1, SameFollows
<1>2. CASE kept # x.members
  <2>1. Lapsed(x) = Group(x.generation + 1, leader, kept, protocol, Nothing, x.offsets)
    <3>1. Lapsed(x) = [x EXCEPT !.members = kept, !.generation = @ + 1, !.assignments = Nothing,
                                !.leader = leader, !.protocol = protocol]
      BY Zenon, <1>2 DEF Lapsed
    <3> HIDE DEF kept, leader, protocol
    <3>2. x = Group(x.generation, x.leader, x.members, x.protocol, x.assignments, x.offsets)
      BY Zenon DEF IsGroup, Group
    <3> QED BY Zenon, <3>1, <3>2 DEF Group
  <2>2. DOMAIN kept \subseteq DOMAIN x.members /\ \A m \in DOMAIN kept : kept[m] = x.members[m]
    BY Zenon DEF Unexpired, Drop
  <2>3. DOMAIN Nothing = {} /\ Unexpired(x.members) # x.members
    BY Zenon, <1>2 DEF Nothing
  <2> HIDE DEF kept
  <2>4. Agreed(kept, protocol)
    <3>1. SUFFICES ASSUME DOMAIN kept # {} PROVE protocol \in Common(kept)
      BY Zenon DEF Agreed
    <3>2. x.protocol \in Common(kept)
      BY Zenon, <2>2, <3>1, CommonGrows DEF IsGroup, Agreed
    <3> QED BY Zenon, <2>3, <3>1, <3>2, SelectedIsCommon
  <2> HIDE DEF leader, protocol
  <2>5. \A m \in DOMAIN kept : IsMember(kept[m])
    BY Zenon, <2>2 DEF IsGroup
  <2>6. x.generation \in Nat /\ \A p \in DOMAIN x.offsets : x.offsets[p] \in Nat
    BY Zenon DEF IsGroup
  <2>7. x.generation + 1 \in Nat /\ x.generation + 1 >= x.generation /\ x.generation + 1 # x.generation
    BY <2>6
  <2>8. DOMAIN Nothing \in {{}, DOMAIN kept}
    BY Zenon, <2>3
  <2>9. IsGroup(Lapsed(x)) /\ Lapsed(x).generation = x.generation + 1 /\ Lapsed(x).offsets = x.offsets
    <3>1. IsGroup(Group(x.generation + 1, leader, kept, protocol, Nothing, x.offsets))
      BY Zenon, <2>4, <2>5, <2>6, <2>7, <2>8, GroupMade
    <3>2. IsGroup(Lapsed(x))
      BY Zenon, <2>1, <3>1
    <3>3. Lapsed(x).generation = x.generation + 1 /\ Lapsed(x).offsets = x.offsets
      BY <2>1 DEF Group
    <3> QED BY Zenon, <3>2, <3>3
  <2> QED BY Zenon, <2>3, <2>7, <2>9 DEF Follows
<1> QED BY Zenon, <1>1, <1>2

(* Every group at once.                                                    *)
LEMMA AllLapsedFollows ==
  ASSUME GroupsInv
  PROVE  /\ GroupsFollow(AllLapsed) /\ Committed(AllLapsed) /\ DOMAIN AllLapsed = DOMAIN groups
         /\ \A g \in DOMAIN groups : AllLapsed[g] = Lapsed(groups[g]) /\ IsGroup(groups[g])
<1>1. DOMAIN AllLapsed = DOMAIN groups /\ \A g \in DOMAIN groups : AllLapsed[g] = Lapsed(groups[g])
  BY Zenon DEF AllLapsed
<1>2. \A g \in DOMAIN groups : /\ IsGroup(groups[g]) /\ IsGroup(Lapsed(groups[g]))
                               /\ Follows(groups[g], Lapsed(groups[g]))
                               /\ Lapsed(groups[g]).offsets = groups[g].offsets
  BY Zenon, LapsedFollows DEF GroupsInv
<1>3. GroupsFollow(AllLapsed)
  BY Zenon, <1>1, <1>2 DEF GroupsFollow
<1>4. Committed(AllLapsed)
  BY Zenon, <1>1, <1>2 DEF GroupsInv, Committed
<1> QED BY Zenon, <1>1, <1>2, <1>3, <1>4

\* The groups res are gs but for g.
DiffersAt(gs, res, g) ==
    DOMAIN res = DOMAIN gs \cup {g} /\ \A h \in DOMAIN gs : h # g => res[h] = gs[h]

(* One group is replaced, and the others follow.                           *)
LEMMA OneFollows ==
  ASSUME NEW gs, GroupsFollow(gs), Committed(gs), NEW res, NEW g, DiffersAt(gs, res, g), IsGroup(res[g]),
         g \in DOMAIN groups => Follows(groups[g], res[g]),
         \A p \in DOMAIN res[g].offsets : p \in Existing /\ res[g].offsets[p] <= Log(p).next
  PROVE  GroupsFollow(res) /\ Committed(res)
<1>1. ASSUME NEW h \in DOMAIN res
      PROVE  /\ IsGroup(res[h])
             /\ h \in DOMAIN groups => Follows(groups[h], res[h])
             /\ \A p \in DOMAIN res[h].offsets : p \in Existing /\ res[h].offsets[p] <= Log(p).next
  <2>1. CASE h = g
    BY Zenon, <2>1
  <2>2. CASE h # g
    BY Zenon, <2>2 DEF GroupsFollow, Committed, DiffersAt
  <2> QED BY Zenon, <2>1, <2>2
<1>2. DOMAIN groups \subseteq DOMAIN res
  BY Zenon DEF GroupsFollow, DiffersAt
<1> QED BY Zenon, <1>1, <1>2 DEF GroupsFollow, Committed

(* The groups as they are.                                                 *)
LEMMA GroupsStay ==
  ASSUME GroupsInv PROVE GroupsFollow(groups) /\ Committed(groups)
BY Zenon, SameFollows DEF GroupsInv, GroupsFollow

(* JoinGroup: whoever joins, or joins with something new, opens a          *)
(* generation.                                                             *)
LEMMA JoinFollows ==
  ASSUME GroupsInv, NEW g, NEW m, NEW protocols, NEW session_timeout, JoinGroup(g, m, protocols, session_timeout)
  PROVE  GroupsFollow(groups') /\ Committed(groups')
<1> DEFINE state == IF g \in DOMAIN groups THEN AllLapsed[g] ELSE NewGroup(m)
           old == state.members
           member == [protocols |-> protocols, session_timeout |-> session_timeout, last_heartbeat |-> clock]
           members == Put(old, m, member)
           same == /\ m \in DOMAIN old
                   /\ old[m].protocols = protocols /\ old[m].session_timeout = session_timeout
           selected == SelectGroupProtocol(members)
           joined == IF same /\ state.protocol = selected THEN [state EXCEPT !.members = members]
                     ELSE [state EXCEPT !.members = members, !.protocol = selected,
                                        !.generation = @ + 1, !.assignments = Nothing]
<1>1. Compatible(members) /\ groups' = Put(AllLapsed, g, joined)
  BY Zenon DEF JoinGroup
<1>2. /\ IsGroup(state)
      /\ g \in DOMAIN groups => Follows(groups[g], state)
      /\ \A p \in DOMAIN state.offsets : p \in Existing /\ state.offsets[p] <= Log(p).next
  <2>1. CASE g \in DOMAIN groups
    BY Zenon, <2>1, AllLapsedFollows DEF GroupsFollow, Committed
  <2>2. CASE g \notin DOMAIN groups
    <3>1. state = Group(0, m, Nothing, NoName, Nothing, Nothing)
      BY Zenon, <2>2 DEF NewGroup, Group
    <3>2. DOMAIN Nothing = {} /\ 0 \in Nat
      BY Zenon DEF Nothing
    <3>3. Agreed(Nothing, NoName) /\ DOMAIN Nothing \in {{}, DOMAIN Nothing}
      BY Zenon, <3>2 DEF Agreed
    <3> HIDE DEF state
    <3>4. IsGroup(state) /\ state.offsets = Nothing
      <4>1. IsGroup(Group(0, m, Nothing, NoName, Nothing, Nothing))
        BY Zenon, <3>2, <3>3, GroupMade
      <4> QED BY Zenon, <3>1, <4>1 DEF Group
    <3> QED BY Zenon, <2>2, <3>2, <3>4
  <2> QED BY Zenon, <2>1, <2>2
<1> HIDE DEF state
<1>3. /\ DOMAIN members = DOMAIN old \cup {m} /\ members[m] = member
      /\ \A o \in DOMAIN old : o # m => members[o] = old[o]
  BY Zenon DEF Put
<1>4. \A o \in DOMAIN members : IsMember(members[o])
  <2>1. IsMember(member)
    BY Zenon DEF IsMember
  <2> QED BY Zenon, <1>2, <1>3, <2>1 DEF IsGroup
<1>5. Agreed(members, selected)
  BY Zenon, <1>1, SelectedIsCommon DEF Compatible, Agreed
<1> HIDE DEF members, selected, member
<1>6. IsGroup(joined) /\ Follows(state, joined) /\ joined.offsets = state.offsets
  <2>1. state.generation \in Nat /\ \A p \in DOMAIN state.offsets : state.offsets[p] \in Nat
    BY Zenon, <1>2 DEF IsGroup
  <2>2. CASE same /\ state.protocol = selected
    <3>1. joined = Group(state.generation, state.leader, members, state.protocol, state.assignments, state.offsets)
      BY Zenon, <1>2, <2>2 DEF IsGroup, Group
    <3>2. DOMAIN members = DOMAIN old /\ Agreed(members, state.protocol)
      BY Zenon, <1>3, <1>5, <2>2
    <3>3. DOMAIN state.assignments \in {{}, DOMAIN members}
      BY Zenon, <1>2, <3>2 DEF IsGroup
    <3>4. state.generation >= state.generation
      BY <2>1
    <3> HIDE DEF joined
    <3>5. /\ IsGroup(joined) /\ joined.members = members /\ joined.leader = state.leader
          /\ joined.generation = state.generation /\ joined.protocol = state.protocol /\ joined.offsets = state.offsets
      <4>1. IsGroup(Group(state.generation, state.leader, members, state.protocol, state.assignments, state.offsets))
        BY Zenon, <1>4, <2>1, <3>2, <3>3, GroupMade
      <4> QED BY Zenon, <3>1, <4>1 DEF Group
    <3> QED BY Zenon, <3>2, <3>4, <3>5 DEF Follows
  <2>3. CASE ~(same /\ state.protocol = selected)
    <3>1. joined = Group(state.generation + 1, state.leader, members, selected, Nothing, state.offsets)
      <4>1. state = Group(state.generation, state.leader, state.members, state.protocol, state.assignments,
                          state.offsets)
        BY Zenon, <1>2 DEF IsGroup, Group
      <4>2. joined = [state EXCEPT !.members = members, !.protocol = selected,
                                   !.generation = @ + 1, !.assignments = Nothing]
        BY Zenon, <2>3
      <4> HIDE DEF joined
      <4> QED BY Zenon, <4>1, <4>2 DEF Group
    <3>2. DOMAIN Nothing \in {{}, DOMAIN members}
      BY Zenon DEF Nothing
    <3>3. /\ state.generation + 1 \in Nat /\ state.generation + 1 >= state.generation
          /\ state.generation + 1 # state.generation
      BY <2>1
    <3> HIDE DEF joined
    <3>4. IsGroup(joined) /\ joined.generation = state.generation + 1 /\ joined.offsets = state.offsets
      <4>1. IsGroup(Group(state.generation + 1, state.leader, members, selected, Nothing, state.offsets))
        BY Zenon, <1>4, <1>5, <2>1, <3>2, <3>3, GroupMade
      <4> QED BY Zenon, <3>1, <4>1 DEF Group
    <3> QED BY Zenon, <3>3, <3>4 DEF Follows
  <2> QED BY Zenon, <2>2, <2>3
<1> HIDE DEF joined
<1>7. g \in DOMAIN groups => Follows(groups[g], joined)
  BY <1>2, <1>6 DEF Follows, IsGroup, GroupsInv
<1>8. DiffersAt(AllLapsed, groups', g) /\ groups'[g] = joined
  BY Zenon, <1>1 DEF Put, DiffersAt
<1>9. /\ IsGroup(groups'[g])
      /\ g \in DOMAIN groups => Follows(groups[g], groups'[g])
      /\ \A p \in DOMAIN groups'[g].offsets : p \in Existing /\ groups'[g].offsets[p] <= Log(p).next
  BY Zenon, <1>2, <1>6, <1>7, <1>8
<1> QED BY Zenon, <1>8, <1>9, AllLapsedFollows, OneFollows

(* What replaces a group of the table, the others staying.                 *)
LEMMA OneChanges ==
  ASSUME GroupsInv, NEW gs, GroupsFollow(gs), Committed(gs), NEW g \in DOMAIN groups,
         NEW res, DiffersAt(gs, res, g), IsGroup(res[g]), Follows(groups[g], res[g]),
         res[g].offsets = groups[g].offsets
  PROVE  GroupsFollow(res) /\ Committed(res)
<1>1. \A p \in DOMAIN res[g].offsets : p \in Existing /\ res[g].offsets[p] <= Log(p).next
  BY Zenon DEF GroupsInv, Committed
<1> QED BY Zenon, <1>1, OneFollows

(* LeaveGroup: the members left keep their protocol under a new            *)
(* generation.                                                             *)
LEMMA LeaveFollows ==
  ASSUME GroupsInv, NEW g, NEW m, LeaveGroup(g, m)
  PROVE  GroupsFollow(groups') /\ Committed(groups')
<1> DEFINE group == groups[g]
           kept == Drop(group.members, {m})
           leader == IF group.leader = m THEN FirstMember(kept) ELSE group.leader
           new == Group(group.generation + 1, leader, kept, group.protocol, Nothing, group.offsets)
<1>1. CASE m \notin DOMAIN group.members
  BY Zenon, <1>1, GroupsStay DEF LeaveGroup
<1>2. CASE m \in DOMAIN group.members
  <2>1. g \in DOMAIN groups /\ IsGroup(group)
    BY Zenon DEF LeaveGroup, GroupsInv
  <2>2. /\ groups'[g] = [group EXCEPT !.members = kept, !.assignments = Nothing,
                                      !.generation = @ + 1, !.leader = leader]
        /\ DiffersAt(groups, groups', g)
    BY Zenon, <1>2, <2>1 DEF LeaveGroup, DiffersAt
  <2>3. DOMAIN kept \subseteq DOMAIN group.members /\ \A o \in DOMAIN kept : kept[o] = group.members[o]
    BY Zenon DEF Drop
  <2> HIDE DEF kept, leader
  <2>4. groups'[g] = new
    <3> HIDE DEF group
    <3>1. group = Group(group.generation, group.leader, group.members, group.protocol, group.assignments, group.offsets)
      BY Zenon, <2>1 DEF IsGroup, Group
    <3> QED BY Zenon, <2>2, <3>1 DEF Group
  <2>5. Agreed(kept, group.protocol) /\ DOMAIN Nothing \in {{}, DOMAIN kept}
    BY Zenon, <2>1, <2>3, CommonGrows DEF IsGroup, Nothing
  <2>6. /\ group.generation \in Nat /\ \A p \in DOMAIN group.offsets : group.offsets[p] \in Nat
        /\ \A o \in DOMAIN kept : IsMember(kept[o])
    BY Zenon, <2>1, <2>3 DEF IsGroup
  <2>7. /\ group.generation + 1 \in Nat /\ group.generation + 1 >= group.generation
        /\ group.generation + 1 # group.generation
    BY <2>6
  <2> HIDE DEF group
  <2>8. IsGroup(new)
    BY Zenon, <2>5, <2>6, <2>7, GroupMade
  <2>9. new.generation = group.generation + 1 /\ new.offsets = group.offsets
    BY Zenon DEF Group
  <2>10. Follows(group, new)
    BY Zenon, <2>7, <2>9 DEF Follows
  <2> HIDE DEF new
  <2>11. IsGroup(groups'[g]) /\ Follows(groups[g], groups'[g]) /\ groups'[g].offsets = groups[g].offsets
    BY Zenon, <2>4, <2>8, <2>9, <2>10 DEF group
  <2> QED BY Zenon, <2>1, <2>2, <2>11, GroupsStay, OneChanges
<1> QED BY Zenon, <1>1, <1>2

(* HeartbeatGroup: a beat is only taken from a group that loses nobody.    *)
LEMMA HeartbeatFollows ==
  ASSUME GroupsInv, NEW g, NEW m, HeartbeatGroup(g, m)
  PROVE  GroupsFollow(groups') /\ Committed(groups')
<1> DEFINE accepted == Current(g, m) /\ Unexpired(groups[g].members) = groups[g].members
           group == groups[g]
           member == [group.members[m] EXCEPT !.last_heartbeat = clock]
           members == [group.members EXCEPT ![m] = member]
           new == Group(group.generation, group.leader, members, group.protocol, group.assignments, group.offsets)
<1>1. CASE ~accepted
  BY Zenon, <1>1, GroupsStay DEF HeartbeatGroup
<1>2. CASE accepted
  <2>1. /\ g \in DOMAIN groups /\ m \in DOMAIN group.members /\ IsGroup(group)
        /\ groups' = [AllLapsed EXCEPT ![g].members[m].last_heartbeat = clock]
    BY Zenon, <1>2 DEF HeartbeatGroup, Current, GroupsInv
  <2>2. AllLapsed[g] = group /\ DOMAIN AllLapsed = DOMAIN groups
    BY Zenon, <1>2, <2>1, AllLapsedFollows, LapsedFollows
  <2>3. groups' = [AllLapsed EXCEPT ![g] = [group EXCEPT !.members = members]]
    BY Zenon, <2>1, <2>2
  <2>4. IsMember(group.members[m]) /\ \A o \in DOMAIN group.members : IsMember(group.members[o])
    BY Zenon, <2>1 DEF IsGroup
  <2>5. IsMember(member) /\ member.protocols = group.members[m].protocols
    <3> DEFINE old == group.members[m]
    <3> HIDE DEF group
    <3>1. old = [protocols |-> old.protocols, session_timeout |-> old.session_timeout,
                 last_heartbeat |-> old.last_heartbeat]
      BY Zenon, <2>4 DEF IsMember
    <3> HIDE DEF old
    <3>2. [old EXCEPT !.last_heartbeat = clock] =
            [protocols |-> old.protocols, session_timeout |-> old.session_timeout, last_heartbeat |-> clock]
      BY <3>1
    <3> QED BY Zenon, <3>2 DEF IsMember, old
  <2> HIDE DEF member
  <2>6. /\ DOMAIN members = DOMAIN group.members /\ members[m] = member
        /\ \A o \in DOMAIN members : o # m => members[o] = group.members[o]
    BY Zenon, <2>1
  <2> HIDE DEF members
  <2>7. [group EXCEPT !.members = members] = new
    <3> HIDE DEF group
    <3> QED BY <2>1 DEF IsGroup, Group
  <2>8. \A o \in DOMAIN members : /\ IsMember(members[o])
                                   /\ DOMAIN members[o].protocols = DOMAIN group.members[o].protocols
    BY Zenon, <2>4, <2>5, <2>6
  <2>9. Agreed(members, group.protocol) /\ DOMAIN group.assignments \in {{}, DOMAIN members}
    BY Zenon, <2>1, <2>6, <2>8, CommonGrows DEF IsGroup
  <2>10. /\ group.generation \in Nat /\ \A p \in DOMAIN group.offsets : group.offsets[p] \in Nat
    BY Zenon, <2>1 DEF IsGroup
  <2> HIDE DEF group
  <2>11. IsGroup(new)
    BY Zenon, <2>8, <2>9, <2>10, GroupMade
  <2>12. /\ new.generation = group.generation /\ new.offsets = group.offsets /\ new.members = members
         /\ new.leader = group.leader /\ new.protocol = group.protocol
    BY Zenon DEF Group
  <2>13. Follows(group, new)
    BY <2>6, <2>10, <2>12 DEF Follows
  <2> HIDE DEF new
  <2>14. DiffersAt(AllLapsed, groups', g) /\ groups'[g] = new
    BY Zenon, <2>1, <2>2, <2>3, <2>7 DEF DiffersAt
  <2>15. IsGroup(groups'[g]) /\ Follows(groups[g], groups'[g]) /\ groups'[g].offsets = groups[g].offsets
    BY Zenon, <2>11, <2>12, <2>13, <2>14 DEF group
  <2> QED BY Zenon, <2>1, <2>14, <2>15, AllLapsedFollows, OneChanges
<1> QED BY Zenon, <1>1, <1>2

\* The group x with the table a and these offsets.
WithTable(x, a, offsets) == Group(x.generation, x.leader, x.members, x.protocol, a, offsets)

(* Only the table or the offsets of a group are replaced.                  *)
LEMMA TableFollows ==
  ASSUME NEW x, IsGroup(x), NEW a, DOMAIN a \in {{}, DOMAIN x.members},
         NEW offsets, \A p \in DOMAIN offsets : offsets[p] \in Nat
  PROVE  /\ IsGroup(WithTable(x, a, offsets)) /\ Follows(x, WithTable(x, a, offsets))
         /\ WithTable(x, a, offsets).offsets = offsets
<1> DEFINE new == WithTable(x, a, offsets)
<1>1. /\ x.generation \in Nat /\ Agreed(x.members, x.protocol)
      /\ \A m \in DOMAIN x.members : IsMember(x.members[m])
  BY Zenon DEF IsGroup
<1>2. IsGroup(new)
  BY Zenon, <1>1, GroupMade DEF WithTable
<1>3. /\ new.generation = x.generation /\ new.leader = x.leader /\ new.members = x.members
      /\ new.protocol = x.protocol /\ new.offsets = offsets
  BY Zenon DEF Group, WithTable
<1>4. x.generation >= x.generation
  BY <1>1
<1> QED BY Zenon, <1>2, <1>3, <1>4 DEF Follows

(* rebalanced_assignment has an entry for each member.                     *)
LEMMA RebalancedCovers ==
  ASSUME NEW x, Rebalanced(x) # NIL PROVE DOMAIN Rebalanced(x) = DOMAIN x.members
BY Zenon DEF Rebalanced, BalancePartitionsByLag

(* SyncGroup: the table it installs has an entry for each member, since    *)
(* the members are those of the moment it was accepted.                    *)
LEMMA SyncFollows ==
  ASSUME GroupsInv, NEW g \in Groups, NEW m \in Members, SyncGroupEnds(g, m)
  PROVE  GroupsFollow(groups') /\ Committed(groups')
<1> DEFINE x == groups[g]
           balanced == Rebalanced(x)
           proposal == Client(g, m).proposal
           a == CASE balanced # NIL -> balanced [] proposal # Nothing -> proposal [] OTHER -> x.assignments
           new == groups'[g]
<1>1. applying = <<g, m>> /\ groups' = [groups EXCEPT ![g] = [x EXCEPT !.assignments = a]]
  BY Zenon DEF SyncGroupEnds
<1>2. SyncAccepted(g, m)
  <2>1. applying # NIL
    <3>1. applying \in Groups \X Members
      BY Zenon, <1>1
    <3> QED BY Zenon, <3>1, ConsumerGroupsAssumption
  <2>2. PICK h \in Groups, o \in Members : applying = <<h, o>> /\ SyncAccepted(h, o)
    BY Zenon, <2>1 DEF GroupsInv, ApplyingOK
  <2>3. <<g, m>> = <<h, o>>
    BY Zenon, <1>1, <2>2
  <2>4. h = g /\ o = m
    BY Zenon, <2>3
  <2> QED BY Zenon, <2>2, <2>4
<1>3. g \in DOMAIN groups /\ IsGroup(x) /\ (proposal # Nothing => DOMAIN proposal = DOMAIN x.members)
  BY Zenon, <1>2 DEF SyncAccepted, GroupsInv
<1>4. balanced # NIL => DOMAIN balanced = DOMAIN x.members
  BY Zenon, RebalancedCovers
<1>5. DOMAIN x.assignments \in {{}, DOMAIN x.members} /\ \A p \in DOMAIN x.offsets : x.offsets[p] \in Nat
  BY Zenon, <1>3 DEF IsGroup
<1> HIDE DEF x, balanced, proposal
<1>6. DOMAIN a \in {{}, DOMAIN x.members}
  BY <1>3, <1>4, <1>5
<1> HIDE DEF a
<1>7. new = [x EXCEPT !.assignments = a]
  BY Zenon, <1>1, <1>3 DEF x
<1>8. DiffersAt(groups, groups', g)
  BY Zenon, <1>1, <1>3 DEF DiffersAt
<1> HIDE DEF new
<1>9. new = WithTable(x, a, x.offsets)
  <2>1. x = Group(x.generation, x.leader, x.members, x.protocol, x.assignments, x.offsets)
    BY Zenon, <1>3 DEF IsGroup, Group
  <2> QED BY Zenon, <1>7, <2>1 DEF Group, WithTable
<1>10. IsGroup(new) /\ Follows(x, new) /\ new.offsets = x.offsets
  <2>1. /\ IsGroup(WithTable(x, a, x.offsets)) /\ Follows(x, WithTable(x, a, x.offsets))
        /\ WithTable(x, a, x.offsets).offsets = x.offsets
    BY <1>3, <1>5, <1>6, TableFollows
  <2> QED BY Zenon, <1>9, <2>1
<1>11. IsGroup(groups'[g]) /\ Follows(groups[g], groups'[g]) /\ groups'[g].offsets = groups[g].offsets
  BY Zenon, <1>10 DEF x, new
<1> QED BY Zenon, <1>3, <1>8, <1>11, GroupsStay, OneChanges

(* CommitOffset takes an offset up to the end of the log.                  *)
LEMMA CommitFollows ==
  ASSUME GroupsInv, NEW g, NEW m, NEW q, NEW offset \in 0 .. MaxOffset, NEW fenced,
         CommitOffset(g, m, q, offset, fenced)
  PROVE  GroupsFollow(groups') /\ Committed(groups')
<1> DEFINE x == groups[g]
           offsets == Put(x.offsets, q, offset)
           new == groups'[g]
<1>1. /\ g \in DOMAIN groups /\ IsGroup(x) /\ q \in Existing /\ offset <= Log(q).next
      /\ groups' = [groups EXCEPT ![g] = [x EXCEPT !.offsets = offsets]]
  BY Zenon DEF CommitOffset, GroupsInv
<1>2. offset \in Nat
  BY ConsumerGroupsAssumption
<1>3. /\ DOMAIN offsets = DOMAIN x.offsets \cup {q} /\ offsets[q] = offset
      /\ \A p \in DOMAIN x.offsets : p # q => offsets[p] = x.offsets[p]
  BY Zenon DEF Put
<1>4. /\ DOMAIN x.assignments \in {{}, DOMAIN x.members}
      /\ \A p \in DOMAIN x.offsets : /\ x.offsets[p] \in Nat
                                       /\ p \in Existing /\ x.offsets[p] <= Log(p).next
  BY Zenon, <1>1 DEF IsGroup, GroupsInv, Committed
<1> HIDE DEF x, offsets
<1>5. \A p \in DOMAIN offsets : offsets[p] \in Nat /\ p \in Existing /\ offsets[p] <= Log(p).next
  BY Zenon, <1>1, <1>2, <1>3, <1>4
<1>6. /\ new = [x EXCEPT !.offsets = offsets] /\ DiffersAt(groups, groups', g)
  BY Zenon, <1>1 DEF DiffersAt, x
<1> HIDE DEF new
<1>7. new = WithTable(x, x.assignments, offsets)
  <2>1. x = Group(x.generation, x.leader, x.members, x.protocol, x.assignments, x.offsets)
    BY Zenon, <1>1 DEF IsGroup, Group
  <2> QED BY Zenon, <1>6, <2>1 DEF Group, WithTable
<1>8. IsGroup(new) /\ Follows(x, new) /\ new.offsets = offsets
  <2>1. /\ IsGroup(WithTable(x, x.assignments, offsets)) /\ Follows(x, WithTable(x, x.assignments, offsets))
        /\ WithTable(x, x.assignments, offsets).offsets = offsets
    BY <1>1, <1>4, <1>5, TableFollows
  <2> QED BY Zenon, <1>7, <2>1
<1>9. /\ IsGroup(groups'[g])
      /\ g \in DOMAIN groups => Follows(groups[g], groups'[g])
      /\ \A p \in DOMAIN groups'[g].offsets : p \in Existing /\ groups'[g].offsets[p] <= Log(p).next
  BY Zenon, <1>5, <1>8 DEF x, new
<1> QED BY Zenon, <1>6, <1>9, GroupsStay, OneFollows

-----------------------------------------------------------------------------
(* Logs.                                                                   *)

\* The logs of ts.
Parts(ts) == UNION {{t} \X (DOMAIN ts[t]) : t \in DOMAIN ts}

(* What a partition is.                                                    *)
LEMMA PartsFact ==
  ASSUME NEW ts
  PROVE  /\ \A p \in Parts(ts) : p[1] \in DOMAIN ts /\ p[2] \in DOMAIN ts[p[1]] /\ p = <<p[1], p[2]>>
         /\ \A t \in DOMAIN ts : \A i \in DOMAIN ts[t] : <<t, i>> \in Parts(ts)
BY DEF Parts

\* Every log but those of the topics D is still there, and has not shrunk.
LogsGrow(D) ==
    \A t \in DOMAIN topics \ D :
        /\ t \in DOMAIN topics'
        /\ \A i \in DOMAIN topics[t] : i \in DOMAIN topics'[t] /\ topics'[t][i].next >= topics[t][i].next

(* Offsets committed within logs that grow stay within them.               *)
LEMMA CommittedStays ==
  ASSUME LogsOK, LogsOK', NEW D, LogsGrow(D), \A g \in DOMAIN groups' : IsGroup(groups'[g]),
         \A g \in DOMAIN groups' : \A p \in DOMAIN groups'[g].offsets :
            p \in Existing /\ groups'[g].offsets[p] <= Log(p).next /\ p[1] \notin D
  PROVE  Committed(groups)'
<1>1. ASSUME NEW g \in DOMAIN groups', NEW p \in DOMAIN groups'[g].offsets
      PROVE  p \in Existing' /\ groups'[g].offsets[p] <= topics'[p[1]][p[2]].next
  <2> DEFINE o == groups'[g].offsets[p]
             old == topics[p[1]][p[2]]
             new == topics'[p[1]][p[2]]
  <2>1. p \in Parts(topics) /\ o <= old.next /\ p[1] \notin D /\ o \in Nat
    BY Zenon, <1>1 DEF Existing, Parts, Log, IsGroup
  <2>2. p[1] \in DOMAIN topics /\ p[2] \in DOMAIN topics[p[1]] /\ p = <<p[1], p[2]>>
    BY Zenon, <2>1, PartsFact
  <2>3. p[1] \in DOMAIN topics' /\ p[2] \in DOMAIN topics'[p[1]] /\ new.next >= old.next
    BY Zenon, <2>1, <2>2 DEF LogsGrow
  <2>4. <<p[1], p[2]>> \in Parts(topics')
    BY Zenon, <2>3, PartsFact
  <2>5. old \in [base : Nat, next : Nat] /\ new \in [base : Nat, next : Nat]
    BY Zenon, <2>2, <2>3 DEF LogsOK
  <2> HIDE DEF o, old, new
  <2>6. o <= new.next
    BY <2>1, <2>3, <2>5
  <2> QED BY Zenon, <2>2, <2>4, <2>6 DEF Existing, Parts, o, new
<1> QED BY Zenon, <1>1 DEF Committed, Log

(* The topic commands keep the records of logs, and none but DeleteTopic   *)
(* takes a log away.                                                       *)
LEMMA TopicsGrow ==
  ASSUME LogsOK
  PROVE  /\ \A t, n : CreateTopic(t, n) => LogsOK' /\ LogsGrow({})
         /\ \A t : ClearTopic(t) => LogsOK' /\ LogsGrow({})
         /\ \A t : DeleteTopic(t) => LogsOK' /\ LogsGrow({t})
         /\ \A p : PublishKafkaBatch(p) => LogsOK' /\ LogsGrow({})
         /\ Retain => LogsOK' /\ LogsGrow({})
         /\ topics' = topics => LogsOK' /\ LogsGrow({})
<1> DEFINE LogRecord == [base : Nat, next : Nat]
<1>1. \A t \in DOMAIN topics : \A i \in DOMAIN topics[t] :
         topics[t][i] \in LogRecord /\ topics[t][i].next \in Nat /\ topics[t][i].next >= topics[t][i].next
  <2>1. \A log \in LogRecord : log.next \in Nat /\ log.next >= log.next
    OBVIOUS
  <2> HIDE DEF LogRecord
  <2> QED BY Zenon, <2>1 DEF LogsOK, LogRecord
<1>2. ASSUME NEW t, NEW n, CreateTopic(t, n) PROVE LogsOK' /\ LogsGrow({})
  <2>1. /\ DOMAIN topics' = DOMAIN topics \cup {t} /\ t \notin DOMAIN topics
        /\ \A u \in DOMAIN topics : topics'[u] = topics[u]
        /\ topics'[t] = [i \in 0 .. n - 1 |-> [base |-> 0, next |-> 0]]
    BY Zenon, <1>2 DEF CreateTopic, Put
  <2>2. [base |-> 0, next |-> 0] \in LogRecord
    BY Zenon
  <2>3. \A i \in DOMAIN topics'[t] : topics'[t][i] \in LogRecord
    BY Zenon, <2>1, <2>2
  <2> QED BY Zenon, <1>1, <2>1, <2>3 DEF LogsOK, LogsGrow
<1>3. ASSUME NEW t, ClearTopic(t) PROVE LogsOK' /\ LogsGrow({})
  <2> DEFINE cleared(i) == [base |-> topics[t][i].next, next |-> topics[t][i].next]
  <2>1. /\ DOMAIN topics' = DOMAIN topics /\ t \in DOMAIN topics
        /\ \A u \in DOMAIN topics : u # t => topics'[u] = topics[u]
        /\ topics'[t] = [i \in DOMAIN topics[t] |-> cleared(i)]
    BY Zenon, <1>3 DEF ClearTopic
  <2>2. \A i \in DOMAIN topics[t] : cleared(i) \in LogRecord /\ cleared(i).next >= topics[t][i].next
    BY Zenon, <1>1, <2>1
  <2> HIDE DEF cleared
  <2>3. /\ DOMAIN topics'[t] = DOMAIN topics[t]
        /\ \A i \in DOMAIN topics[t] : topics'[t][i] \in LogRecord /\ topics'[t][i].next >= topics[t][i].next
    BY Zenon, <2>1, <2>2
  <2> QED BY Zenon, <1>1, <2>1, <2>3 DEF LogsOK, LogsGrow
<1>4. ASSUME NEW t, DeleteTopic(t) PROVE LogsOK' /\ LogsGrow({t})
  <2>1. DOMAIN topics' = DOMAIN topics \ {t} /\ \A u \in DOMAIN topics' : topics'[u] = topics[u]
    BY Zenon, <1>4 DEF DeleteTopic, Drop
  <2> QED BY Zenon, <1>1, <2>1 DEF LogsOK, LogsGrow
<1>5. ASSUME NEW p, PublishKafkaBatch(p) PROVE LogsOK' /\ LogsGrow({})
  <2> DEFINE t == p[1]
             k == p[2]
  <2>1. p \in Parts(topics) /\ topics' = [topics EXCEPT ![t][k].next = @ + 1]
    BY Zenon, <1>5 DEF PublishKafkaBatch, Existing, Parts
  <2>2. t \in DOMAIN topics /\ k \in DOMAIN topics[t]
    BY Zenon, <2>1, PartsFact
  <2> HIDE DEF t, k
  <2>3. /\ DOMAIN topics' = DOMAIN topics /\ \A u \in DOMAIN topics : u # t => topics'[u] = topics[u]
        /\ DOMAIN topics'[t] = DOMAIN topics[t]
        /\ \A i \in DOMAIN topics[t] : i # k => topics'[t][i] = topics[t][i]
        /\ topics'[t][k] = [topics[t][k] EXCEPT !.next = @ + 1]
    BY Zenon, <2>1, <2>2
  <2>4. topics'[t][k] \in LogRecord /\ topics'[t][k].next >= topics[t][k].next
    BY <1>1, <2>2, <2>3
  <2>5. \A i \in DOMAIN topics[t] : topics'[t][i] \in LogRecord /\ topics'[t][i].next >= topics[t][i].next
    BY Zenon, <1>1, <2>2, <2>3, <2>4
  <2> QED BY Zenon, <1>1, <2>3, <2>5 DEF LogsOK, LogsGrow
<1>6. ASSUME Retain PROVE LogsOK' /\ LogsGrow({})
  <2>1. PICK trim \in [Existing -> 0 .. MaxOffset] :
           topics' = [t \in DOMAIN topics |->
                        [i \in DOMAIN topics[t] |-> [topics[t][i] EXCEPT !.base = trim[<<t, i>>]]]]
    BY Zenon, <1>6 DEF Retain
  <2>2. ASSUME NEW t \in DOMAIN topics, NEW i \in DOMAIN topics[t]
        PROVE  topics'[t][i] \in LogRecord /\ topics'[t][i].next >= topics[t][i].next
    <3>1. topics'[t][i] = [topics[t][i] EXCEPT !.base = trim[<<t, i>>]]
      BY Zenon, <2>1
    <3>2. <<t, i>> \in Existing
      BY Zenon, PartsFact DEF Existing, Parts
    <3>3. trim[<<t, i>>] \in Nat
      BY <2>1, <3>2, ConsumerGroupsAssumption
    <3> QED BY <1>1, <3>1, <3>3
  <2>3. DOMAIN topics' = DOMAIN topics /\ \A t \in DOMAIN topics : DOMAIN topics'[t] = DOMAIN topics[t]
    BY Zenon, <2>1
  <2> QED BY Zenon, <2>2, <2>3 DEF LogsOK, LogsGrow
<1>7. topics' = topics => LogsOK' /\ LogsGrow({})
  BY Zenon, <1>1 DEF LogsOK, LogsGrow
<1> QED BY Zenon, <1>2, <1>3, <1>4, <1>5, <1>6, <1>7

-----------------------------------------------------------------------------
(* Steps.                                                                  *)

(* DeleteTopic takes the offsets committed for the topic along.            *)
LEMMA DeleteFollows ==
  ASSUME GroupsInv, NEW t, DeleteTopic(t)
  PROVE  /\ GroupsFollow(groups')
         /\ \A g \in DOMAIN groups' : \A p \in DOMAIN groups'[g].offsets :
               p \in Existing /\ groups'[g].offsets[p] <= Log(p).next /\ p[1] \notin {t}
<1> DEFINE left(g) == Drop(groups[g].offsets, {p \in DOMAIN groups[g].offsets : p[1] = t})
<1>1. /\ DOMAIN groups' = DOMAIN groups
      /\ \A g \in DOMAIN groups : groups'[g] = [groups[g] EXCEPT !.offsets = left(g), !.assignments = Nothing]
  BY Zenon DEF DeleteTopic
<1>2. \A g \in DOMAIN groups :
         /\ IsGroup(groups[g])
         /\ \A p \in DOMAIN left(g) : /\ left(g)[p] \in Nat /\ p \in Existing
                                       /\ left(g)[p] <= Log(p).next /\ p[1] \notin {t}
  BY Zenon DEF Drop, GroupsInv, Committed, IsGroup
<1> HIDE DEF left
<1>3. ASSUME NEW g \in DOMAIN groups
      PROVE  IsGroup(groups'[g]) /\ Follows(groups[g], groups'[g]) /\ groups'[g].offsets = left(g)
  <2> DEFINE x == groups[g]
             new == groups'[g]
  <2>1. IsGroup(x) /\ new = [x EXCEPT !.offsets = left(g), !.assignments = Nothing]
    BY Zenon, <1>1, <1>2
  <2>2. /\ DOMAIN Nothing \in {{}, DOMAIN x.members}
        /\ \A p \in DOMAIN left(g) : left(g)[p] \in Nat
    BY Zenon, <1>2 DEF Nothing
  <2> HIDE DEF x, new
  <2>3. new = WithTable(x, Nothing, left(g))
    <3>1. x = Group(x.generation, x.leader, x.members, x.protocol, x.assignments, x.offsets)
      BY Zenon, <2>1 DEF IsGroup, Group
    <3> QED BY Zenon, <2>1, <3>1 DEF Group, WithTable
  <2>4. /\ IsGroup(WithTable(x, Nothing, left(g))) /\ Follows(x, WithTable(x, Nothing, left(g)))
        /\ WithTable(x, Nothing, left(g)).offsets = left(g)
    BY <2>1, <2>2, TableFollows
  <2> QED BY Zenon, <2>3, <2>4 DEF x, new
<1>4. GroupsFollow(groups')
  BY Zenon, <1>1, <1>3 DEF GroupsFollow
<1>5. ASSUME NEW g \in DOMAIN groups', NEW p \in DOMAIN groups'[g].offsets
      PROVE  p \in Existing /\ groups'[g].offsets[p] <= Log(p).next /\ p[1] \notin {t}
  BY Zenon, <1>1, <1>2, <1>3
<1> QED BY Zenon, <1>4, <1>5

(* A client that is not the one whose SyncGroup is being applied may       *)
(* change.                                                                 *)
LEMMA ApplyingStays ==
  ASSUME GroupsInv, NEW c, NEW new, c # applying \/ applying = NIL, clients' = [clients EXCEPT ![c] = new],
         UNCHANGED <<groups, applying>>
  PROVE  ApplyingOK' /\ DOMAIN clients' = Groups \X Members
<1>1. DOMAIN clients' = Groups \X Members
  BY Zenon DEF GroupsInv
<1>2. SUFFICES ASSUME applying # NIL PROVE ApplyingOK'
  BY Zenon, <1>1 DEF ApplyingOK
<1>3. PICK g \in Groups, m \in Members : applying = <<g, m>> /\ Client(g, m).phase = "Syncing" /\ SyncAccepted(g, m)
  BY Zenon, <1>2 DEF GroupsInv, ApplyingOK
<1>4. clients'[<<g, m>>] = clients[<<g, m>>]
  BY Zenon, <1>2, <1>3 DEF GroupsInv
<1>5. applying' = <<g, m>> /\ Client(g, m)'.phase = "Syncing" /\ SyncAccepted(g, m)'
  BY Zenon, <1>3, <1>4 DEF Client, SyncAccepted
<1> QED BY Zenon, <1>5 DEF ApplyingOK

\* The part of the invariant about groups, and what a step may do to them.
Keeps == GroupsInv' /\ GroupsFollow(groups')

(* Commands that change groups, and leave the logs.                        *)
LEMMA GroupCommand ==
  ASSUME GroupsInv, GroupsFollow(groups'), Committed(groups'), topics' = topics, applying' = NIL,
         DOMAIN clients' = DOMAIN clients
  PROVE  Keeps
<1>1. LogsOK' /\ ApplyingOK' /\ Committed(groups)'
  <2>1. LogsOK
    BY Zenon DEF GroupsInv
  <2>2. LogsOK' /\ ApplyingOK'
    BY Zenon, <2>1 DEF LogsOK, ApplyingOK
  <2>3. Committed(groups)'
    BY Zenon DEF Committed, Existing, Log
  <2> QED BY Zenon, <2>2, <2>3
<1>2. \A g \in DOMAIN groups' : IsGroup(groups'[g])
  BY Zenon DEF GroupsFollow
<1>3. (\A g \in DOMAIN groups : IsGroup(groups[g]))'
  BY Zenon, <1>2 DEF IsGroup, IsMember, Agreed, Common
<1> QED BY Zenon, <1>1, <1>3 DEF GroupsInv, Keeps

(* Commands that change logs.                                              *)
LEMMA LogCommand ==
  ASSUME GroupsInv, GroupsFollow(groups'), LogsOK', NEW D, LogsGrow(D),
         \A g \in DOMAIN groups' : \A p \in DOMAIN groups'[g].offsets :
            p \in Existing /\ groups'[g].offsets[p] <= Log(p).next /\ p[1] \notin D,
         applying' = NIL, clients' = clients
  PROVE  Keeps
<1>1. \A g \in DOMAIN groups' : IsGroup(groups'[g])
  BY Zenon DEF GroupsFollow
<1>2. Committed(groups)'
  BY Zenon, <1>1, CommittedStays DEF GroupsInv
<1>3. (\A g \in DOMAIN groups : IsGroup(groups[g]))' /\ ApplyingOK'
  BY Zenon, <1>1 DEF IsGroup, IsMember, Agreed, Common, ApplyingOK
<1> QED BY Zenon, <1>2, <1>3 DEF GroupsInv, Keeps

(* Steps of clients and of the clock.                                      *)
LEMMA ClientStep ==
  ASSUME GroupsInv, topics' = topics, groups' = groups, ApplyingOK', DOMAIN clients' = Groups \X Members
  PROVE  Keeps
<1>1. GroupsFollow(groups')
  BY Zenon, GroupsStay
<1>2. LogsOK' /\ Committed(groups)'
  <2>1. LogsOK /\ Committed(groups)
    BY Zenon DEF GroupsInv
  <2>2. LogsOK'
    BY Zenon, <2>1 DEF LogsOK
  <2>3. Committed(groups)'
    BY Zenon, <2>1 DEF Committed, Existing, Log
  <2> QED BY Zenon, <2>2, <2>3
<1>3. \A g \in DOMAIN groups' : IsGroup(groups'[g])
  BY Zenon, <1>1 DEF GroupsFollow
<1>4. (\A g \in DOMAIN groups : IsGroup(groups[g]))'
  BY Zenon, <1>3 DEF IsGroup, IsMember, Agreed, Common
<1> QED BY Zenon, <1>1, <1>2, <1>4 DEF GroupsInv, Keeps

(* Topics.                                                                 *)
LEMMA AdministerKeeps ==
  ASSUME GroupsInv, NEW t, NEW n, CreateTopic(t, n) \/ DeleteTopic(t) \/ ClearTopic(t) PROVE Keeps
<1>1. LogsOK /\ GroupsFollow(groups) /\ Committed(groups)
  BY Zenon, GroupsStay DEF GroupsInv
<1>2. CASE CreateTopic(t, n) \/ ClearTopic(t)
  <2>1. groups' = groups /\ applying' = NIL /\ clients' = clients
    BY Zenon, <1>2 DEF CreateTopic, ClearTopic
  <2>2. LogsOK' /\ LogsGrow({})
    BY Zenon, <1>1, <1>2, TopicsGrow
  <2>3. \A g \in DOMAIN groups' : \A p \in DOMAIN groups'[g].offsets :
           p \in Existing /\ groups'[g].offsets[p] <= Log(p).next /\ p[1] \notin {}
    BY Zenon, <1>1, <2>1 DEF Committed
  <2> QED BY Zenon, <1>1, <2>1, <2>2, <2>3, LogCommand
<1>3. CASE DeleteTopic(t)
  <2>1. applying' = NIL /\ clients' = clients
    BY Zenon, <1>3 DEF DeleteTopic
  <2>2. LogsOK' /\ LogsGrow({t})
    BY Zenon, <1>1, <1>3, TopicsGrow
  <2> QED BY Zenon, <1>3, <2>1, <2>2, DeleteFollows, LogCommand
<1> QED BY Zenon, <1>2, <1>3

(* Records and retention.                                                  *)
LEMMA LogStepKeeps ==
  ASSUME GroupsInv, NEW q, PublishKafkaBatch(q) \/ Retain PROVE Keeps
<1>1. LogsOK /\ (groups' = groups \/ groups' = AllLapsed) /\ applying' = NIL /\ clients' = clients
  BY Zenon DEF GroupsInv, PublishKafkaBatch, Retain
<1>2. GroupsFollow(groups') /\ Committed(groups')
  BY Zenon, <1>1, GroupsStay, AllLapsedFollows
<1>3. LogsOK' /\ LogsGrow({})
  BY Zenon, <1>1, TopicsGrow
<1>4. \A g \in DOMAIN groups' : \A p \in DOMAIN groups'[g].offsets :
         p \in Existing /\ groups'[g].offsets[p] <= Log(p).next /\ p[1] \notin {}
  BY Zenon, <1>2 DEF Committed
<1> QED BY Zenon, <1>1, <1>2, <1>3, <1>4, LogCommand

(* Members and offsets.                                                    *)
LEMMA MemberKeeps ==
  ASSUME GroupsInv, NEW g \in Groups, NEW m \in Members, NEW s, NEW timeout,
         JoinGroup(g, m, s, timeout) \/ LeaveGroup(g, m) \/ HeartbeatGroup(g, m) \/ SyncGroupEnds(g, m)
  PROVE  Keeps
<1>1. topics' = topics /\ applying' = NIL
  BY Zenon DEF JoinGroup, LeaveGroup, HeartbeatGroup, SyncGroupEnds
<1>2. DOMAIN clients' = DOMAIN clients
  BY Zenon DEF JoinGroup, LeaveGroup, HeartbeatGroup, SyncGroupEnds, Fenced
<1>3. GroupsFollow(groups') /\ Committed(groups')
  BY Zenon, JoinFollows, LeaveFollows, HeartbeatFollows, SyncFollows
<1> QED BY Zenon, <1>1, <1>2, <1>3, GroupCommand

(* Commits.                                                                *)
LEMMA CommitKeeps ==
  ASSUME GroupsInv, NEW g, NEW m, NEW p, NEW offset \in 0 .. MaxOffset, NEW fenced,
         CommitOffset(g, m, p, offset, fenced)
  PROVE  Keeps
<1>1. topics' = topics /\ applying' = NIL /\ DOMAIN clients' = DOMAIN clients
  BY Zenon DEF CommitOffset
<1>2. GroupsFollow(groups') /\ Committed(groups')
  BY Zenon, CommitFollows
<1> QED BY Zenon, <1>1, <1>2, GroupCommand

(* What clients do while a command is being applied.                       *)
LEMMA ClientKeeps ==
  ASSUME GroupsInv, NEW g \in Groups, NEW m \in Members, NEW proposal,
         \/ SyncRequest(g, m, proposal) \/ SyncRefused(g, m)
         \/ ReadAssignment(g, m) \/ Vanish(g, m)
  PROVE  Keeps
<1>1. /\ UNCHANGED <<topics, groups, applying>>
      /\ Client(g, m).phase # "Syncing" \/ applying = NIL
  BY Zenon DEF SyncRequest, SyncRefused, ReadAssignment, Vanish, In, Idle
<1>2. \E new : clients' = [clients EXCEPT ![<<g, m>>] = new]
  <2>1. CASE SyncRefused(g, m) \/ Vanish(g, m)
    BY Zenon, <2>1 DEF SyncRefused, Vanish, Fenced
  <2>2. CASE SyncRequest(g, m, proposal)
    BY Zenon, <2>2 DEF SyncRequest, Fenced
  <2>3. CASE ReadAssignment(g, m)
    BY Zenon, <2>3 DEF ReadAssignment, Fenced
  <2> QED BY Zenon, <2>1, <2>2, <2>3
<1>3. PICK new : clients' = [clients EXCEPT ![<<g, m>>] = new]
  BY Zenon, <1>2
<1>4. <<g, m>> # applying \/ applying = NIL
  <2>1. ASSUME applying = <<g, m>>, applying # NIL PROVE Client(g, m).phase = "Syncing"
    <3>1. PICK h \in Groups, o \in Members : applying = <<h, o>> /\ Client(h, o).phase = "Syncing"
      BY Zenon, <2>1 DEF GroupsInv, ApplyingOK
    <3> QED BY Zenon, <2>1, <3>1 DEF Client
  <2> QED BY Zenon, <1>1, <2>1
<1>5. ApplyingOK' /\ DOMAIN clients' = Groups \X Members
  BY Zenon, <1>1, <1>3, <1>4, ApplyingStays
<1> QED BY Zenon, <1>1, <1>5, ClientStep

(* A SyncGroup is taken up, and time passes.                               *)
LEMMA QuietKeeps ==
  ASSUME GroupsInv,
         (\E g \in Groups, m \in Members : SyncGroupBegins(g, m)) \/ Tick \/ StepBack \/ UNCHANGED vars
  PROVE  Keeps
<1>1. topics' = topics /\ groups' = groups /\ clients' = clients
  BY Zenon DEF SyncGroupBegins, Tick, StepBack, vars
<1>2. ApplyingOK'
  <2>1. ASSUME NEW g \in Groups, NEW m \in Members, SyncGroupBegins(g, m) PROVE ApplyingOK'
    BY Zenon, <1>1, <2>1 DEF SyncGroupBegins, ApplyingOK, SyncAccepted, Client
  <2>2. CASE applying' = applying
    BY Zenon, <1>1, <2>2 DEF GroupsInv, ApplyingOK, SyncAccepted, Client
  <2> QED BY Zenon, <2>1, <2>2 DEF Tick, StepBack, vars
<1>3. DOMAIN clients' = Groups \X Members
  BY Zenon, <1>1 DEF GroupsInv
<1> QED BY Zenon, <1>1, <1>2, <1>3, ClientStep

(* Every step.                                                             *)
LEMMA StepKeeps ==
  ASSUME GroupsInv, [Next]_vars PROVE Keeps
<1>1. CASE Administer
  BY Zenon, <1>1, AdministerKeeps DEF Administer
<1>2. CASE Consume \/ Retain
  BY Zenon, <1>2, LogStepKeeps, CommitKeeps DEF Consume
<1>3. ASSUME NEW g \in Groups, NEW m \in Members, Sync(g, m) PROVE Keeps
  BY Zenon, <1>3, MemberKeeps, ClientKeeps, QuietKeeps DEF Sync
<1>4. CASE Membership
  BY Zenon, <1>3, <1>4, MemberKeeps, ClientKeeps DEF Membership
<1>5. CASE Tick \/ StepBack \/ UNCHANGED vars
  BY Zenon, <1>5, QuietKeeps
<1> QED BY Zenon, <1>1, <1>2, <1>4, <1>5 DEF Next

(* The inductive invariant holds.                                          *)
LEMMA GroupsInvHolds == Spec => []GroupsInv
<1>1. Init => GroupsInv
  <2>1. DOMAIN Nothing = {}
    BY Zenon DEF Nothing
  <2> QED BY Zenon, <2>1 DEF Init, NoGroups, GroupsInv, LogsOK, Committed, ApplyingOK
<1>2. GroupsInv /\ [Next]_vars => GroupsInv'
  BY Zenon, StepKeeps DEF Keeps
<1> QED BY <1>1, <1>2, PTL DEF Spec

(* validate_state opens what any sequence of commands leaves: a committed  *)
(* offset names a partition there is, and lies within its log, whatever    *)
(* topics are deleted, cleared and trimmed meanwhile.                      *)
THEOREM OffsetsWithinLogs == Spec => []CommittedWithinLog
<1>1. GroupsInv => CommittedWithinLog
  BY Zenon DEF GroupsInv, Committed, CommittedWithinLog
<1> QED BY <1>1, GroupsInvHolds, PTL

(* Joining, leaving, beating, expiring and syncing change who is in a      *)
(* group, its leader or its protocol only under a new generation, and none *)
(* of them takes a generation back.                                        *)
THEOREM GenerationsFence == Spec => GenerationFences
<1> DEFINE Fence == \A g \in DOMAIN groups :
                       /\ g \in DOMAIN groups' /\ groups'[g].generation >= groups[g].generation
                       /\ groups'[g].generation = groups[g].generation =>
                             /\ DOMAIN groups'[g].members = DOMAIN groups[g].members
                             /\ groups'[g].leader = groups[g].leader
                             /\ groups'[g].protocol = groups[g].protocol
<1>1. GroupsInv /\ [Next]_vars => [Fence]_vars
  BY Zenon, StepKeeps DEF Keeps, GroupsFollow, Follows
<1> QED BY <1>1, GroupsInvHolds, PTL DEF Spec, GenerationFences

(* A member finds its entry in every table of assignments but an empty     *)
(* one, and all members know the protocol of their group, also when a      *)
(* SyncGroup ends that was accepted before other clients were answered.    *)
THEOREM EntriesAreTotal == Spec => []EntriesTotal
<1>1. GroupsInv => EntriesTotal
  BY Zenon DEF GroupsInv, IsGroup, Agreed, EntriesTotal
<1> QED BY <1>1, GroupsInvHolds, PTL

=============================================================================
