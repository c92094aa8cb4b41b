--------------------------- MODULE ConsumerGroups ---------------------------
(***************************************************************************)
(* Topics and consumer groups of server/src/broker/engine.rs, with the     *)
(* group requests of server/src/broker/stream.rs that drive them.          *)
(*                                                                         *)
(* Commands are applied one at a time under the apply lock.  Reads are not *)
(* under it: the broker's tables are shared cells, so the sync_group       *)
(* handler, which checks the leader, submits SyncGroup and then reads the  *)
(* assignment, may see what the command of another member is writing.      *)
(*                                                                         *)
(* One project.  Names are numbers in the order of the strings they stand  *)
(* for, and 0 is the empty string.  A partition is a log of offsets; which *)
(* prefix of it Retain trims is BrokerQueues' subject and any prefix here. *)
(***************************************************************************)
EXTENDS Integers, FiniteSets, FiniteSetsExt, Maps, LagBalance

CONSTANTS Topics, Groups, Members,
          Protocols,       \* names of assignment protocols
          Subscriptions,   \* the metadata maps a member may join with
          Proposals,       \* the assignments a leader may propose to a member
          SessionTimeouts, PartitionCounts,
          Unreadable,      \* metadata decode_subscribed_topics cannot read
          NIL,
          MaxGeneration, MaxOffset, MaxTime   \* bounds

VARIABLES topics,     \* topic -> partition index -> [base, next]
          groups,     \* group -> GroupState
          clock,      \* the sequencer's wall clock, which may step back
          applying,   \* the SyncGroup being applied, or NIL
          clients     \* <<group, member>> -> what the member's client knows

vars == <<topics, groups, clock, applying, clients>>

NoName == 0
Metadata == SUBSET Topics \cup {Unreadable}
Partitions == Topics \X Nat

ASSUME ConsumerGroupsAssumption ==
    /\ Topics \subseteq Nat /\ Members \subseteq Nat \ {0} /\ Protocols \subseteq Nat \ {0}
    /\ \A s \in Subscriptions : /\ DOMAIN s # {} /\ DOMAIN s \subseteq Protocols
                                /\ \A p \in DOMAIN s : s[p] \in Metadata
    /\ Proposals \subseteq SUBSET Partitions
    /\ SessionTimeouts \subseteq Nat \ {0} /\ PartitionCounts \subseteq Nat \ {0}
    /\ {MaxGeneration, MaxOffset, MaxTime} \subseteq Nat
    /\ NIL \notin Groups \X Members

\* The partitions there are.
Existing == UNION {{t} \X (DOMAIN topics[t]) : t \in DOMAIN topics}
Log(p) == topics[p[1]][p[2]]

-----------------------------------------------------------------------------
(* Members.                                                                *)

Expired(member) == clock - member.last_heartbeat >= member.session_timeout

\* Mutant: nobody's session runs out.
UnexpiredAll(members) == members

Unexpired(members) == Drop(members, {m \in DOMAIN members : Expired(members[m])})

\* The protocols all members know.
Common(members) == {p \in Protocols : \A m \in DOMAIN members : p \in DOMAIN members[m].protocols}

\* The first of them; NoName stands for the error when there is none.
SelectGroupProtocol(members) == IF Common(members) = {} THEN NoName ELSE Min(Common(members))

FirstMember(members) == IF DOMAIN members = {} THEN NoName ELSE Min(DOMAIN members)

\* Mutant: the group that loses a member keeps its generation.
LapsedKeepsGeneration(group) ==
    LET kept == Unexpired(group.members)
    IN  IF kept = group.members THEN group
        ELSE [group EXCEPT
                !.members = kept,
                !.assignments = Nothing,
                !.leader = IF @ \in DOMAIN kept THEN @ ELSE FirstMember(kept),
                !.protocol = IF kept = Nothing THEN NoName ELSE SelectGroupProtocol(kept)]

\* expire_group_members, for one group.
Lapsed(group) ==
    LET kept == Unexpired(group.members)
    IN  IF kept = group.members THEN group
        ELSE [group EXCEPT
                !.members = kept,
                !.generation = @ + 1,
                !.assignments = Nothing,
                !.leader = IF @ \in DOMAIN kept THEN @ ELSE FirstMember(kept),
                !.protocol = IF kept = Nothing THEN NoName ELSE SelectGroupProtocol(kept)]

AllLapsed == [g \in DOMAIN groups |-> Lapsed(groups[g])]

NewGroup(m) ==
    [generation |-> 0, leader |-> m, members |-> Nothing, protocol |-> NoName,
     assignments |-> Nothing, offsets |-> Nothing]

-----------------------------------------------------------------------------
(* Topics.                                                                 *)

CreateTopic(t, n) ==
    /\ applying = NIL
    /\ t \notin DOMAIN topics
    /\ topics' = Put(topics, t, [i \in 0 .. n - 1 |-> [base |-> 0, next |-> 0]])
    /\ UNCHANGED <<groups, clock, applying, clients>>

\* Mutant: the committed offsets outlive the topic.
DeleteTopicKeepsOffsets(t) ==
    /\ applying = NIL
    /\ t \in DOMAIN topics
    /\ topics' = Drop(topics, {t})
    /\ groups' = [g \in DOMAIN groups |-> [groups[g] EXCEPT !.assignments = Nothing]]
    /\ UNCHANGED <<clock, applying, clients>>

\* Mutant: the assignments outlive the topic.
DeleteTopicKeepsAssignments(t) ==
    /\ applying = NIL
    /\ t \in DOMAIN topics
    /\ topics' = Drop(topics, {t})
    /\ groups' = [g \in DOMAIN groups |->
          [groups[g] EXCEPT !.offsets = Drop(@, {p \in DOMAIN @ : p[1] = t})]]
    /\ UNCHANGED <<clock, applying, clients>>

\* The offsets committed for the topic go, and every assignment of the project.
DeleteTopic(t) ==
    /\ applying = NIL
    /\ t \in DOMAIN topics
    /\ topics' = Drop(topics, {t})
    /\ groups' = [g \in DOMAIN groups |->
          [groups[g] EXCEPT !.offsets = Drop(@, {p \in DOMAIN @ : p[1] = t}),
                            !.assignments = Nothing]]
    /\ UNCHANGED <<clock, applying, clients>>

ClearTopic(t) ==
    /\ applying = NIL
    /\ t \in DOMAIN topics
    /\ topics' = [topics EXCEPT ![t] = [i \in DOMAIN @ |-> [base |-> @[i].next, next |-> @[i].next]]]
    /\ UNCHANGED <<groups, clock, applying, clients>>

PublishKafkaBatch(p) ==
    /\ applying = NIL
    /\ p \in Existing /\ Log(p).next < MaxOffset
    /\ topics' = [topics EXCEPT ![p[1]][p[2]].next = @ + 1]
    /\ UNCHANGED <<groups, clock, applying, clients>>

-----------------------------------------------------------------------------
(* What a client knows.                                                    *)

Client(g, m) == clients[<<g, m>>]

\* An error tells the client that it has lost its place; it has to join again.
Fenced(g, m) ==
    clients' = [clients EXCEPT ![<<g, m>>] = [@ EXCEPT !.phase = "Out", !.proposal = Nothing, !.owned = {}]]

\* Requests of one connection are answered in order.
Idle(g, m) == Client(g, m).phase \in {"Out", "Joined", "Synced"}
In(g, m) == Client(g, m).phase \in {"Joined", "Synced"}

Current(g, m) ==
    /\ g \in DOMAIN groups
    /\ groups[g].generation = Client(g, m).generation
    /\ m \in DOMAIN groups[g].members

-----------------------------------------------------------------------------
(* Group commands.                                                         *)

\* validate_command takes a member only if the group keeps a common protocol.
Compatible(members) == Common(members) # {}

\* JoinGroup, when the members left and this one have a protocol in common.
JoinGroup(g, m, protocols, session_timeout) ==
    LET lapsed == AllLapsed
        state == IF g \in DOMAIN groups THEN lapsed[g] ELSE NewGroup(m)
        old == state.members
        members == Put(old, m, [protocols |-> protocols, session_timeout |-> session_timeout,
                                last_heartbeat |-> clock])
        same == /\ m \in DOMAIN old
                /\ old[m].protocols = protocols /\ old[m].session_timeout = session_timeout
        selected == SelectGroupProtocol(members)
        joined == IF same /\ state.protocol = selected THEN [state EXCEPT !.members = members]
                  ELSE [state EXCEPT !.members = members, !.protocol = selected,
                                     !.generation = @ + 1, !.assignments = Nothing]
    IN  /\ applying = NIL /\ Idle(g, m)
        /\ clock + session_timeout <= MaxTime
        /\ Compatible(members)
        /\ joined.generation <= MaxGeneration
        /\ groups' = Put(lapsed, g, joined)
        /\ clients' = [clients EXCEPT ![<<g, m>>] =
              [phase |-> "Joined", generation |-> joined.generation, proposal |-> Nothing, owned |-> {}]]
        /\ UNCHANGED <<topics, clock, applying>>

\* sync_group: an assignment is only taken from the leader of the generation.
SyncRequest(g, m, proposal) ==
    LET leads == /\ g \in DOMAIN groups
                 /\ groups[g].generation = Client(g, m).generation /\ groups[g].leader = m
    IN  /\ In(g, m)
        /\ IF proposal = Nothing \/ leads
             THEN clients' = [clients EXCEPT ![<<g, m>>].phase = "Syncing", ![<<g, m>>].proposal = proposal]
             ELSE Fenced(g, m)
        /\ UNCHANGED <<topics, groups, clock, applying>>

\* subscribed_partition_lag
PartitionLag(group, wanted) ==
    [p \in {q \in Existing : q[1] \in wanted} |->
        LET from == IF p \in DOMAIN group.offsets THEN group.offsets[p] ELSE Log(p).base
        IN  IF Log(p).next > from THEN Log(p).next - from ELSE 0]

\* What a member subscribes to under the group's protocol.
Subscribed(group, m) ==
    IF group.protocol \in DOMAIN group.members[m].protocols
      THEN group.members[m].protocols[group.protocol] ELSE Unreadable

\* Whether decode_subscribed_topics reads every member's metadata.
AllReadable(group) == \A m \in DOMAIN group.members : Subscribed(group, m) # Unreadable

\* rebalanced_assignment; NIL when some member's metadata cannot be read.
Rebalanced(group) ==
    LET subscriptions == [m \in DOMAIN group.members |-> Subscribed(group, m)]
        wanted == UNION {subscriptions[m] : m \in DOMAIN group.members}
    IN  IF DOMAIN group.members = {} \/ ~AllReadable(group)
          THEN NIL
          ELSE BalancePartitionsByLag(subscriptions, PartitionLag(group, wanted))

\* SyncGroup is refused once the generation or the member set has moved on.
SyncAccepted(g, m) ==
    /\ g \in DOMAIN groups /\ groups[g].generation = Client(g, m).generation
    /\ Client(g, m).proposal # Nothing => DOMAIN Client(g, m).proposal = DOMAIN groups[g].members

SyncRefused(g, m) ==
    /\ applying = NIL /\ Client(g, m).phase = "Syncing"
    /\ ~SyncAccepted(g, m)
    /\ Fenced(g, m)
    /\ UNCHANGED <<topics, groups, clock, applying>>

SyncGroupBegins(g, m) ==
    /\ applying = NIL /\ Client(g, m).phase = "Syncing"
    /\ SyncAccepted(g, m)
    /\ applying' = <<g, m>>
    /\ UNCHANGED <<topics, groups, clock, clients>>

\* The proposal is installed, and then replaced by the broker's own balance.
SyncGroupEnds(g, m) ==
    LET balanced == Rebalanced(groups[g])
        proposal == Client(g, m).proposal
    IN  /\ applying = <<g, m>>
        /\ applying' = NIL
        /\ groups' = [groups EXCEPT ![g].assignments =
              CASE balanced # NIL -> balanced [] proposal # Nothing -> proposal [] OTHER -> @]
        /\ clients' = [clients EXCEPT ![<<g, m>>].phase = "Reading", ![<<g, m>>].proposal = Nothing]
        /\ UNCHANGED <<topics, clock>>

\* group_assignment.  While another SyncGroup of the group is being applied the
\* entry is the old one, missing, or the one that was only proposed.
Visible(g, m) ==
    LET entry(a) == IF m \in DOMAIN a THEN a[m] ELSE NIL
        rewriting == applying # NIL /\ applying[1] = g
        proposal == IF rewriting THEN clients[applying].proposal ELSE Nothing
    IN  {entry(groups[g].assignments)}
          \cup {entry(a) : a \in {proposal} \ {Nothing}}
          \cup {a \in {NIL} : rewriting /\ (proposal # Nothing \/ Rebalanced(groups[g]) # NIL)}

ReadAssignment(g, m) ==
    /\ Client(g, m).phase = "Reading"
    /\ \E found \in IF Current(g, m) THEN Visible(g, m) ELSE {NIL} :
          IF found = NIL THEN Fenced(g, m)
          ELSE clients' = [clients EXCEPT ![<<g, m>>].phase = "Synced", ![<<g, m>>].owned = found]
    /\ UNCHANGED <<topics, groups, clock, applying>>

\* A client may leave whatever it knows; it is answered even if it is unknown.
LeaveGroup(g, m) ==
    LET group == groups[g]
        kept == Drop(group.members, {m})
    IN  /\ applying = NIL /\ Idle(g, m)
        /\ g \in DOMAIN groups
        /\ groups' = IF m \notin DOMAIN group.members THEN groups
                     ELSE [groups EXCEPT ![g] =
                        [group EXCEPT !.members = kept, !.assignments = Nothing, !.generation = @ + 1,
                                      !.leader = IF @ = m THEN FirstMember(kept) ELSE @]]
        /\ Fenced(g, m)
        /\ UNCHANGED <<topics, clock, applying>>

\* HeartbeatGroup is refused while any member of the group has expired, and it
\* expires the members of the other groups.
HeartbeatGroup(g, m) ==
    LET accepted == Current(g, m) /\ Unexpired(groups[g].members) = groups[g].members
    IN  /\ applying = NIL /\ In(g, m)
        /\ accepted => clock + groups[g].members[m].session_timeout <= MaxTime
        /\ IF accepted
             THEN /\ groups' = [AllLapsed EXCEPT ![g].members[m].last_heartbeat = clock]
                  /\ UNCHANGED clients
             ELSE Fenced(g, m) /\ UNCHANGED groups
        /\ UNCHANGED <<topics, clock, applying>>

\* CommitOffset, with the member's generation (version 1 and later) or without.
CommitOffset(g, m, p, offset, fenced) ==
    /\ applying = NIL /\ Idle(g, m)
    /\ g \in DOMAIN groups
    /\ p \in Existing /\ offset <= Log(p).next
    /\ fenced => In(g, m) /\ Current(g, m)
    /\ groups' = [groups EXCEPT ![g].offsets = Put(@, p, offset)]
    /\ UNCHANGED <<topics, clock, applying, clients>>

-----------------------------------------------------------------------------
(* Maintenance, time and the loss of clients.                              *)

Retain ==
    /\ applying = NIL
    /\ groups' = AllLapsed
    /\ \E trim \in [Existing -> 0 .. MaxOffset] :
          /\ \A p \in Existing : trim[p] \in Log(p).base .. Log(p).next
          /\ topics' = [t \in DOMAIN topics |->
                [i \in DOMAIN topics[t] |-> [topics[t][i] EXCEPT !.base = trim[<<t, i>>]]]]
    /\ UNCHANGED <<clock, applying, clients>>

Tick == clock < MaxTime /\ clock' = clock + 1 /\ UNCHANGED <<topics, groups, applying, clients>>
StepBack == clock > 0 /\ clock' = clock - 1 /\ UNCHANGED <<topics, groups, applying, clients>>

\* The client is gone.  One that is cut off during a request is one that vanishes
\* before it looks at the answer: what it has submitted is applied all the same.
Vanish(g, m) ==
    /\ Idle(g, m)
    /\ clients' = [clients EXCEPT ![<<g, m>>].phase = "Gone"]
    /\ UNCHANGED <<topics, groups, clock, applying>>

-----------------------------------------------------------------------------
NoGroups ==
    /\ groups = Nothing
    /\ clock = 0
    /\ applying = NIL
    /\ clients = [c \in Groups \X Members |->
          [phase |-> "Out", generation |-> 0, proposal |-> Nothing, owned |-> {}]]

Init == topics = Nothing /\ NoGroups

\* A client-side assignor may propose anything, and the broker does not look into it.
Proposed(g) == IF g \notin DOMAIN groups THEN {} ELSE [DOMAIN groups[g].members -> Proposals]

Administer ==
    \/ \E t \in Topics, n \in PartitionCounts : CreateTopic(t, n)
    \/ \E t \in Topics : DeleteTopic(t) \/ ClearTopic(t)

\* What moves the lag of a partition.
Consume ==
    \/ \E p \in Existing : PublishKafkaBatch(p)
    \/ \E g \in Groups, m \in Members, p \in Existing, offset \in 0 .. MaxOffset, fenced \in BOOLEAN :
          CommitOffset(g, m, p, offset, fenced)

Sync(g, m) ==
    \/ \E proposal \in {Nothing} \cup Proposed(g) : SyncRequest(g, m, proposal)
    \/ SyncRefused(g, m) \/ SyncGroupBegins(g, m) \/ SyncGroupEnds(g, m) \/ ReadAssignment(g, m)

Membership ==
    \E g \in Groups, m \in Members :
       \/ \E s \in Subscriptions, timeout \in SessionTimeouts : JoinGroup(g, m, s, timeout)
       \/ Sync(g, m) \/ LeaveGroup(g, m) \/ HeartbeatGroup(g, m) \/ Vanish(g, m)

Next == Administer \/ Consume \/ Membership \/ Retain \/ Tick \/ StepBack

Spec == Init /\ [][Next]_vars

-----------------------------------------------------------------------------

\* validate_state refuses to open a database whose committed offsets name a missing
\* partition or lie beyond the end of one: no sequence of topic and group commands
\* leaves such an offset.
CommittedWithinLog ==
    \A g \in DOMAIN groups : \A p \in DOMAIN groups[g].offsets :
        p \in Existing /\ groups[g].offsets[p] <= Log(p).next

\* The generation is what fences a client that has been replaced: no step changes
\* who is in a group, who leads it or which protocol it speaks under a generation
\* that some client already holds, and no step takes a generation back.
GenerationFences ==
    [][\A g \in DOMAIN groups :
          /\ g \in DOMAIN groups' /\ groups'[g].generation >= groups[g].generation
          /\ groups'[g].generation = groups[g].generation =>
                /\ DOMAIN groups'[g].members = DOMAIN groups[g].members
                /\ groups'[g].leader = groups[g].leader
                /\ groups'[g].protocol = groups[g].protocol]_vars

\* The table of assignments is empty or has an entry for each member, since
\* group_assignment takes a member without one for a stranger; and all members know
\* the protocol of the group, also the one a departed member leaves behind, under
\* which rebalanced_assignment reads their metadata.
EntriesTotal ==
    \A g \in DOMAIN groups :
        /\ DOMAIN groups[g].assignments \in {{}, DOMAIN groups[g].members}
        /\ DOMAIN groups[g].members # {} => groups[g].protocol \in Common(groups[g].members)

\* Of a group whose members' metadata the broker reads, what the table hands out
\* exists, is subscribed to and is handed to one member only, as the tests of
\* balance_partitions_by_lag ask of one balance: whatever its leaders propose, no
\* table they installed while some metadata was unreadable outlives that, and it
\* stays so while topics come and go and members change.
AssignmentsSound ==
    /\ EntriesTotal
    /\ \A g \in DOMAIN groups :
          LET group == groups[g]
              held == DOMAIN group.assignments
          IN  AllReadable(group) =>
                \A m \in held : \A p \in group.assignments[m] :
                   /\ p \in Existing
                   /\ p[1] \in Subscribed(group, m)
                   /\ \A o \in held \ {m} : p \notin group.assignments[o]

\* validate_state, "broker consumer group state is invalid": a group with members
\* is led by one of them, and its protocol is the one select_group_protocol
\* selects for them.
GroupStateValid ==
    \A g \in DOMAIN groups : groups[g].members # Nothing =>
        /\ groups[g].leader \in DOMAIN groups[g].members
        /\ groups[g].protocol = SelectGroupProtocol(groups[g].members)

\* A member whose client is gone leaves its group once its session has run out,
\* by expire_group_members, however the others join and beat.
GoneMemberExpires ==
    \A g \in Groups, m \in Members :
        Client(g, m).phase = "Gone" ~> (g \in DOMAIN groups => m \notin DOMAIN groups[g].members)

=============================================================================
