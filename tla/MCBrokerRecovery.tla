-------------------------- MODULE MCBrokerRecovery --------------------------
(***************************************************************************)
(* The two halves of the broker, queues with their connections and topics  *)
(* with their groups, over one clock, and the maintenance loop that serves *)
(* both: what is left behind by a connection or a group member that is     *)
(* gone comes back, and a stream consumer is served.                       *)
(***************************************************************************)
EXTENDS AmqpConnections, TLC

CONSTANTS q1, o1, o2, t1
CONSTANTS Topics, Groups, Members, Protocols, Subscriptions, Proposals, SessionTimeouts,
          PartitionCounts, Unreadable, MaxGeneration

VARIABLES topics, groups, applying, clients, setting

Kafka == INSTANCE ConsumerGroups

kafkaVars == <<topics, groups, applying, clients>>
mcVars == <<allVars, kafkaVars, setting>>

Plain == [kind |-> "Classic", dead_letter |-> NIL, retention |-> [max_age |-> NIL, max_bytes |-> NIL],
          exclusive |-> FALSE, auto_delete |-> FALSE]
Stream == [Plain EXCEPT !.kind = "Stream"]
SmallStream == [Stream EXCEPT !.retention = [max_age |-> NIL, max_bytes |-> 1]]
MCDeclarations == {Plain, Stream, SmallStream}
NoPolicy == {}
NoLimit == {}
MCMaxTags == [ch \in Channels |-> 3]
FromFirst == {<<"First">>, <<"Timestamp", 0>>}
FromNext == {<<"Next">>}
OneSubscription == {1 :> {1}}

MCInit ==
    /\ AmqpInit
    /\ topics = 1 :> (0 :> [base |-> 0, next |-> 0]) /\ Kafka!NoGroups
    /\ setting \in {"classic", "stream", "groups"}

OnlyAmqp(A) == A /\ UNCHANGED <<kafkaVars, setting>>
OnlyKafka(A) == A /\ UNCHANGED <<allVars, setting>>

\* One Retain expires leases and members alike; it waits for a command being applied.
Maintenance == Retain /\ Kafka!Retain /\ UNCHANGED <<connection, setting>>

\* Time passes for ever, so it is counted from now: every deadline comes nearer, and
\* one that has passed is now.
Clock ==
    /\ leases' = [w \in DOMAIN leases |-> Max({leases[w] - 1, clock})]
    /\ groups' = [g \in DOMAIN groups |-> [groups[g] EXCEPT !.members =
                    [m \in DOMAIN @ |-> [@[m] EXCEPT !.last_heartbeat =
                        Max({@ - 1, clock - groups[g].members[m].session_timeout})]]]]
    /\ UNCHANGED <<declared, streams, payloads, segments, cursors, clock, connection>>
    /\ UNCHANGED <<topics, applying, clients, setting>>

\* o1 takes deliveries, keeps or settles them, and may be lost at any time; o2 stays
\* and acknowledges automatically.
Subscribe(w) ==
    /\ setting = "classic"
    /\ \E ch \in Channels, tag \in ConsumerTags, q \in Queues :
          BasicConsume(w, ch, tag, q, w = o2, <<"First">>)
ClassicNext ==
    /\ setting = "classic"
    /\ \/ CreateQueue(q1, Plain, o1) /\ UNCHANGED connection
       \/ next_message_id = 0 /\ PublishAny
       \/ DeleteAny
       \/ Subscribe(o1) \/ Subscribe(o2) \/ Renew(o1) \/ Disconnect(o1) \/ Vanish(o1)
       \/ \E ch \in Channels, outcome \in {"Ack", "Requeue"} :
             \E tag \in 1 .. MaxTags[ch] : BasicSettle(o1, ch, tag, FALSE, outcome)

\* A stream consumer that acknowledges, of a stream that may be trimmed.
StreamNext ==
    /\ setting = "stream"
    /\ \/ (\E d \in {Stream, SmallStream} : CreateQueue(q1, d, o1)) /\ UNCHANGED connection
       \/ PublishAny \/ Consume(o1) \/ Cancel(o1)
       \/ \E ch \in Channels : \E tag \in 0 .. MaxTags[ch] : BasicSettle(o1, ch, tag, TRUE, "Ack")

Serve(w) == OnlyAmqp(Step(w))
Hand(w) == OnlyAmqp(PumpRound(w))
Finish == OnlyKafka(\E g \in Groups, m \in Members : Kafka!SyncGroupEnds(g, m))

MCNext ==
    \/ Maintenance \/ Clock
    \/ OnlyAmqp(ClassicNext) \/ OnlyAmqp(StreamNext) \/ \E w \in Owners : Serve(w) \/ Hand(w)
    \/ setting = "groups" /\ OnlyKafka(Kafka!Membership)

\* Handlers and commands finish, the maintenance loop runs and time passes.  Retain
\* has its turn among the commands; tokio::select! picks among its ready branches at
\* random, so a busy client cannot keep the pump's tick from being taken; the memory
\* budget admits a delivery; and o2 subscribes in the end.
MCSpec ==
    /\ MCInit /\ [][MCNext]_mcVars
    /\ SF_<<stored, topics, groups>>(Maintenance) /\ WF_<<leases, groups>>(Clock)
    /\ \A w \in Owners : WF_agenda(Serve(w)) /\ SF_agenda(Hand(w))
    /\ WF_next_consumer(OnlyAmqp(Subscribe(o2))) /\ WF_applying(Finish)

\* A member whose client is gone leaves its group once its session has run out,
\* by expire_group_members, however the others join and beat.
GoneMemberExpires == Kafka!GoneMemberExpires

=============================================================================
