---------------------------- MODULE BrokerQueues ----------------------------
(***************************************************************************)
(* The queue side of the broker state machine of                           *)
(* server/src/broker/engine.rs: exchanges, bindings, queues and their      *)
(* streams of references, the payloads the references share, the segments  *)
(* the payloads live in, delivery leases and consumer registrations.       *)
(*                                                                         *)
(* BrokerStateMachine::apply runs one command at a time under the apply    *)
(* lock of the database, so every command is one action, and a command     *)
(* that validate_command refuses changes nothing and is no action at all.  *)
(*                                                                         *)
(* One project.  A binding is present exactly when its routing key matches *)
(* (topic_match is TopicMatch's subject).  A record weighs one byte.  A    *)
(* delivery tag is the offset plus one, as in fetch_queue.  Commands are   *)
(* stamped with the wall clock of the sequencer, which may step back.      *)
(***************************************************************************)
EXTENDS Integers, FiniteSets, FiniteSetsExt, Maps

CONSTANTS Exchanges, Queues, Owners, Consumers,
          Declarations,  \* the attributes a queue may be declared with
          Retentions,    \* the policies SetQueueRetention may install
          LeaseMillis,   \* DELIVERY_LEASE_MILLIS
          NIL,           \* an absent Option
          MaxMessages, MaxStreams, MaxOffset, MaxTime, MaxBatch   \* bounds

VARIABLES exchanges,    \* declared exchanges
          bindings,     \* set of <<exchange, queue>>
          queues,       \* queue name -> declaration and stream
          streams,      \* stream id -> base_offset, next_offset, bytes, records
          payloads,     \* message id -> segment and time
          segments,     \* segment id -> live_records
          leases,       \* owner -> deadline
          consumers,    \* queue name -> registered <<owner, consumer>>
          next_message_id, next_stream_id, next_payload_segment_id,
          clock         \* the sequencer's wall clock

declared == <<exchanges, bindings, queues, consumers>>
cursors == <<next_message_id, next_stream_id, next_payload_segment_id>>
stored == <<streams, payloads, segments, leases>>
vars == <<declared, stored, cursors, clock>>

Routes == Exchanges \cup Queues   \* an exchange, or the default exchange and a queue name
Policy == [max_age : Nat \cup {NIL}, max_bytes : Nat \cup {NIL}]
Declaration == [kind : {"Classic", "Stream"}, dead_letter : Routes \cup {NIL},
                retention : Policy, exclusive : BOOLEAN, auto_delete : BOOLEAN]

ASSUME BrokerQueuesAssumption ==
    /\ NIL \notin Owners \cup Consumers \cup Routes \cup Nat
    /\ Exchanges \cap Queues = {}
    /\ Declarations \subseteq Declaration
    /\ Retentions \subseteq Policy
    /\ LeaseMillis \in Nat \ {0}
    /\ {MaxMessages, MaxStreams, MaxOffset, MaxTime, MaxBatch} \subseteq Nat

-----------------------------------------------------------------------------
(* Streams and references.                                                 *)

Offsets(st) == st.base_offset .. st.next_offset - 1

EmptyStream == [base_offset |-> 0, next_offset |-> 0, bytes |-> 0, records |-> Nothing]

\* `handouts` is history: how often the reference was handed to a consumer.
FreshReference(m) ==
    [message |-> m, delivery |-> "Ready", owner |-> NIL, consumer |-> NIL,
     redelivered |-> FALSE, handouts |-> 0]

Settled(ref, outcome) == [ref EXCEPT !.delivery = outcome, !.owner = NIL, !.consumer = NIL]

\* Mutant: a requeued message is not marked.
RequeuedUnmarked(ref) == Settled(ref, "Ready")

Requeued(ref) == [Settled(ref, "Ready") EXCEPT !.redelivered = TRUE]

\* append_initial_references_batch, append_reference_with_route: n references,
\* the i-th to message msg[i].
Appended(st, n, msg) ==
    [base_offset |-> st.base_offset, next_offset |-> st.next_offset + n, bytes |-> st.bytes + n,
     records |-> [o \in st.base_offset .. st.next_offset + n - 1 |->
                     IF o < st.next_offset THEN st.records[o]
                                           ELSE FreshReference(msg[o - st.next_offset + 1])]]

AppendTo(ss, targets, n, msg) ==
    [s \in DOMAIN ss |-> IF s \in targets THEN Appended(ss[s], n, msg) ELSE ss[s]]

RewriteRecords(ss, s, f) == [ss EXCEPT ![s].records = f]

MessagesIn(st) == {st.records[o].message : o \in Offsets(st)}
Messages(ss) == UNION {MessagesIn(ss[s]) : s \in DOMAIN ss}

UnackedIn(st, owner) == {o \in Offsets(st) : st.records[o].delivery = "Unacked" /\ st.records[o].owner = owner}

\* owner_has_unacked: only classic queues carry deliveries.
OwnerHasUnacked(qs, ss, owner) ==
    \E q \in DOMAIN qs : qs[q].kind = "Classic" /\ UnackedIn(ss[qs[q].stream], owner) # {}

Idle(qs, ss, owners) == {w \in owners : ~OwnerHasUnacked(qs, ss, w)}

-----------------------------------------------------------------------------
(* Payloads and segments: reclaim_payload_candidates and remove_payload.   *)

\* Mutant: a payload goes with the first reference that goes.
DeadAtOnce(candidates, ss) == candidates \cap DOMAIN payloads

Dead(candidates, ss) == (candidates \cap DOMAIN payloads) \ Messages(ss)

InSegment(ms, g) == {m \in ms : payloads[m].segment = g}

Reclaim(candidates, ss) ==
    LET dead == Dead(candidates, ss)
        left(g) == segments[g] - Cardinality(InSegment(dead, g))
    IN  /\ payloads' = Drop(payloads, dead)
        /\ segments' = [g \in {h \in DOMAIN segments : left(h) # 0} |-> left(g)]

-----------------------------------------------------------------------------
(* Exchanges, bindings and queue declarations.                             *)

CreateExchange(x) ==
    /\ x \notin exchanges
    /\ exchanges' = exchanges \cup {x}
    /\ UNCHANGED <<bindings, queues, consumers, stored, cursors, clock>>

ExchangeHasBindings(x) == \E b \in bindings : b[1] = x

\* The queues whose dead_letter_exchange names x keep the name.
DeleteExchange(x, if_unused) ==
    /\ x \in exchanges
    /\ if_unused => ~ExchangeHasBindings(x)
    /\ exchanges' = exchanges \ {x}
    /\ bindings' = {b \in bindings : b[1] # x}
    /\ UNCHANGED <<queues, consumers, stored, cursors, clock>>

CreateQueue(q, d, owner) ==
    /\ q \notin DOMAIN queues
    /\ d.dead_letter \in Exchanges => d.dead_letter \in exchanges
    /\ next_stream_id < MaxStreams
    /\ next_stream_id' = next_stream_id + 1
    /\ streams' = Put(streams, next_stream_id', EmptyStream)
    /\ queues' = Put(queues, q,
                     [stream |-> next_stream_id', kind |-> d.kind, dead_letter |-> d.dead_letter,
                      retention |-> d.retention, auto_delete |-> d.auto_delete,
                      exclusive_owner |-> IF d.exclusive THEN owner ELSE NIL])
    /\ UNCHANGED <<exchanges, bindings, consumers, payloads, segments, leases,
                   next_message_id, next_payload_segment_id, clock>>

SetQueueRetention(q, policy) ==
    /\ q \in DOMAIN queues
    /\ queues' = [queues EXCEPT ![q].retention = policy]
    /\ UNCHANGED <<exchanges, bindings, consumers, stored, cursors, clock>>

BindQueue(x, q) ==
    /\ x \in exchanges /\ q \in DOMAIN queues
    /\ bindings' = bindings \cup {<<x, q>>}
    /\ UNCHANGED <<exchanges, queues, consumers, stored, cursors, clock>>

UnbindQueue(x, q) ==
    /\ <<x, q>> \in bindings
    /\ bindings' = bindings \ {<<x, q>>}
    /\ UNCHANGED <<exchanges, queues, consumers, stored, cursors, clock>>

Without(gone) == Drop(streams, gone)

\* drop_queue, for every queue of K: the queue, its registrations, bindings and
\* stream, the leases of owners left with nothing, the payloads nobody else holds.
DropQueues(K, registered) ==
    LET gone == {queues[q].stream : q \in K}
        ss == Without(gone)
        qs == Drop(queues, K)
        unsettled == {w \in DOMAIN leases : \E s \in gone : UnackedIn(streams[s], w) # {}}
    IN  /\ queues' = qs
        /\ consumers' = Drop(registered, K)
        /\ bindings' = {b \in bindings : b[2] \notin K}
        /\ streams' = ss
        /\ leases' = Drop(leases, Idle(qs, ss, unsettled))
        /\ Reclaim(UNION {MessagesIn(streams[s]) : s \in gone}, ss)
        /\ UNCHANGED <<exchanges, cursors, clock>>

ReadyIn(st) == {o \in Offsets(st) : st.records[o].delivery = "Ready"}

Registered(q) == IF q \in DOMAIN consumers THEN consumers[q] ELSE {}

\* queue_deletion_counts, then drop_queue.
DeleteQueue(q, if_unused, if_empty) ==
    /\ q \in DOMAIN queues
    /\ if_unused => Registered(q) = {}
    /\ if_empty => ReadyIn(streams[queues[q].stream]) = {}
    /\ DropQueues({q}, consumers)

PurgeQueue(q) ==
    /\ q \in DOMAIN queues
    /\ LET s == queues[q].stream
           recs == streams[s].records
       IN  streams' = RewriteRecords(streams, s,
                         [o \in DOMAIN recs |-> IF recs[o].delivery = "Ready"
                                                  THEN Settled(recs[o], "Acknowledged") ELSE recs[o]])
    /\ UNCHANGED <<declared, payloads, segments, leases, cursors, clock>>

-----------------------------------------------------------------------------
(* Consumers.                                                              *)

RegisterConsumer(q, owner, c) ==
    /\ q \in DOMAIN queues
    /\ queues[q].exclusive_owner \in {NIL, owner}
    /\ consumers' = Put(consumers, q, Registered(q) \cup {<<owner, c>>})
    /\ UNCHANGED <<exchanges, bindings, queues, stored, cursors, clock>>

AutoDelete(q) == q \in DOMAIN queues /\ queues[q].auto_delete

\* `kept` are the registrations that stay; emptied entries are removed, and an
\* auto-delete queue goes with its last consumer.
Unregister(kept, also) ==
    LET emptied == {q \in DOMAIN consumers : kept[q] = {} /\ consumers[q] # {}}
    IN  DropQueues({q \in emptied : AutoDelete(q)} \cup also, Drop(kept, emptied))

UnregisterConsumer(q, owner, c) ==
    /\ <<owner, c>> \in Registered(q)
    /\ Unregister([consumers EXCEPT ![q] = @ \ {<<owner, c>>}], {})

\* Exclusive queues die with their connection.
ReleaseConnection(owner) ==
    Unregister([q \in DOMAIN consumers |-> {r \in consumers[q] : r[1] # owner}],
               {q \in DOMAIN queues : queues[q].exclusive_owner = owner})

-----------------------------------------------------------------------------
(* Publishing.                                                             *)

RouteExists(r) == r \in Exchanges => r \in exchanges

\* amqp_targets
Targets(r) ==
    IF r \in Exchanges THEN {queues[q].stream : q \in {p \in DOMAIN queues : <<r, p>> \in bindings}}
    ELSE {queues[q].stream : q \in DOMAIN queues \cap {r}}

Room(ss, targets, n) == \A s \in targets : ss[s].next_offset + n <= MaxOffset

\* The n messages of one batch take consecutive identifiers and one segment.
Allocate(n) ==
    /\ next_message_id + n <= MaxMessages
    /\ next_message_id' = next_message_id + n
    /\ next_payload_segment_id' = next_payload_segment_id + 1
    /\ segments' = Put(segments, next_payload_segment_id', n)
    /\ payloads' = [m \in DOMAIN payloads \cup (next_message_id + 1 .. next_message_id + n) |->
                      IF m \in DOMAIN payloads THEN payloads[m]
                      ELSE [segment |-> next_payload_segment_id', time |-> clock]]

\* PublishAmqp (n = 1) and PublishAmqpUniformBatch: one envelope, routed once.
\* A publish nobody is bound to is accepted and dropped.
PublishUniform(r, n) ==
    /\ RouteExists(r) /\ Targets(r) # {}
    /\ Room(streams, Targets(r), n)
    /\ Allocate(n)
    /\ streams' = AppendTo(streams, Targets(r), n, [i \in 1 .. n |-> next_message_id + i])
    /\ UNCHANGED <<declared, leases, next_stream_id, clock>>

\* PublishAmqpBatch with two envelopes: the messages share a segment.  (A record
\* of the batch nobody is bound to takes no identifier and no space.)
PublishMixed(r1, r2) ==
    LET once == AppendTo(streams, Targets(r1), 1, <<next_message_id + 1>>)
    IN  /\ RouteExists(r1) /\ RouteExists(r2)
        /\ Targets(r1) # {} /\ Targets(r2) # {}
        /\ Room(streams, Targets(r1) \cup Targets(r2), 2)
        /\ Allocate(2)
        /\ streams' = AppendTo(once, Targets(r2), 1, <<next_message_id + 2>>)
        /\ UNCHANGED <<declared, leases, next_stream_id, clock>>

-----------------------------------------------------------------------------
(* Delivery.                                                               *)

Extended(owner) ==
    IF owner \in DOMAIN leases /\ leases[owner] >= clock + LeaseMillis
      THEN leases[owner] ELSE clock + LeaseMillis

\* Mutant: settled references are skipped nowhere.
FirstReadyOrSettled(st, n) ==
    LET free == {o \in Offsets(st) : st.records[o].delivery # "Unacked"}
    IN  {o \in free : Cardinality({p \in free : p < o}) < n}

\* The first n ready offsets.
FirstReady(st, n) == {o \in ReadyIn(st) : Cardinality({p \in ReadyIn(st) : p < o}) < n}

\* fetch_queue on a classic queue, from its first offset: the first `maximum`
\* ready references become the owner's, or are settled at once.
DeliverClassic(q, maximum, owner, c, automatic_ack) ==
    LET s == queues[q].stream
        st == streams[s]
        selected == FirstReady(st, maximum)
        handed(ref) == [ref EXCEPT !.delivery = IF automatic_ack THEN "Acknowledged" ELSE "Unacked",
                                   !.owner = IF automatic_ack THEN NIL ELSE owner,
                                   !.consumer = IF automatic_ack THEN NIL ELSE c,
                                   !.handouts = @ + 1]
    IN  /\ q \in DOMAIN queues /\ queues[q].kind = "Classic"
        /\ selected # {}
        /\ streams' = RewriteRecords(streams, s,
                         [o \in DOMAIN st.records |-> IF o \in selected THEN handed(st.records[o])
                                                                        ELSE st.records[o]])
        /\ leases' = IF automatic_ack THEN leases ELSE Put(leases, owner, Extended(owner))
        /\ UNCHANGED <<declared, payloads, segments, cursors, clock>>

\* read_stream_queue, and fetch_queue on a stream queue: `maximum` references
\* from an offset the consumer keeps, whatever their delivery state; the broker's
\* own state does not change.
ReadStream(q, from, maximum) ==
    LET s == queues[q].stream
        st == streams[s]
    IN  /\ q \in DOMAIN queues /\ queues[q].kind = "Stream"
        /\ from >= st.base_offset
        /\ streams' = RewriteRecords(streams, s,
                         [o \in DOMAIN st.records |-> IF o \in from .. from + maximum - 1
                                                        THEN [st.records[o] EXCEPT !.handouts = @ + 1]
                                                        ELSE st.records[o]])
        /\ UNCHANGED <<declared, payloads, segments, leases, cursors, clock>>

-----------------------------------------------------------------------------
(* Settlement.                                                             *)

Named(st, owner, c, tag, multiple) ==
    {o \in UnackedIn(st, owner) : /\ st.records[o].consumer = c
                                  /\ IF multiple THEN o + 1 <= tag ELSE o + 1 = tag}

\* A delivery that is not settled for good is requeued.
AfterSettling(ref, outcome) == IF outcome = "Ready" THEN Requeued(ref) ELSE Settled(ref, outcome)

\* Mutant: a settlement rewrites everything up to the last reference it names.
SettledStreamsUpTo(s, chosen, outcome) ==
    RewriteRecords(streams, s, [o \in DOMAIN streams[s].records |->
        IF \E p \in chosen : o <= p THEN AfterSettling(streams[s].records[o], outcome) ELSE streams[s].records[o]])

SettledStreams(s, chosen, outcome) ==
    RewriteRecords(streams, s, [o \in DOMAIN streams[s].records |->
        IF o \in chosen THEN AfterSettling(streams[s].records[o], outcome) ELSE streams[s].records[o]])

ReleaseIfIdle(ss, owner) == leases' = Drop(leases, Idle(queues, ss, {owner}))

Ack(q, owner, c, tag, multiple) ==
    /\ q \in DOMAIN queues /\ queues[q].kind = "Classic"
    /\ LET s == queues[q].stream
           chosen == Named(streams[s], owner, c, tag, multiple)
           ss == SettledStreams(s, chosen, "Acknowledged")
       IN  /\ chosen # {}
           /\ streams' = ss
           /\ ReleaseIfIdle(ss, owner)
    /\ UNCHANGED <<declared, payloads, segments, cursors, clock>>

Requeue(q, owner, c, tag, multiple) ==
    /\ q \in DOMAIN queues /\ queues[q].kind = "Classic"
    /\ LET s == queues[q].stream
           chosen == Named(streams[s], owner, c, tag, multiple)
           ss == SettledStreams(s, chosen, "Ready")
       IN  /\ chosen # {}
           /\ streams' = ss
           /\ ReleaseIfIdle(ss, owner)
    /\ UNCHANGED <<declared, payloads, segments, cursors, clock>>

\* A rejected delivery is referenced again, in offset order, from every queue
\* its queue's dead-letter exchange routes to.
Reject(q, owner, c, tag, multiple) ==
    /\ q \in DOMAIN queues /\ queues[q].kind = "Classic"
    /\ RouteExists(queues[q].dead_letter)
    /\ LET s == queues[q].stream
           chosen == Named(streams[s], owner, c, tag, multiple)
           ss == SettledStreams(s, chosen, "DeadLettered")
           targets == Targets(queues[q].dead_letter)
           n == Cardinality(chosen)
       IN  /\ chosen # {}
           /\ Room(streams, targets, n)
           /\ ReleaseIfIdle(ss, owner)
           /\ \E order \in [1 .. n -> chosen] :
                 /\ \A i, j \in 1 .. n : i < j => order[i] < order[j]
                 /\ streams' = AppendTo(ss, targets, n,
                                        [i \in 1 .. n |-> streams[s].records[order[i]].message])
    /\ UNCHANGED <<declared, payloads, segments, cursors, clock>>

-----------------------------------------------------------------------------
(* Leases and maintenance.                                                 *)

RenewDeliveryLease(owner) ==
    /\ leases' = IF OwnerHasUnacked(queues, streams, owner)
                   THEN Put(leases, owner, Extended(owner)) ELSE Drop(leases, {owner})
    /\ UNCHANGED <<declared, streams, payloads, segments, cursors, clock>>

ClassicStreams == {queues[q].stream : q \in {p \in DOMAIN queues : queues[p].kind = "Classic"}}

\* release_delivery_lease for every owner of W, over the classic queues.
Released(W) ==
    LET released(ref) == ref.delivery = "Unacked" /\ ref.owner \in W
    IN  [s \in DOMAIN streams |->
            IF s \notin ClassicStreams THEN streams[s]
            ELSE [streams[s] EXCEPT !.records =
                    [o \in DOMAIN @ |-> IF released(@[o]) THEN Requeued(@[o]) ELSE @[o]]]]

ReleaseDeliveryLease(owner) ==
    /\ streams' = Released({owner})
    /\ leases' = Drop(leases, {owner})
    /\ UNCHANGED <<declared, payloads, segments, cursors, clock>>

\* Mutants: maintenance forgets the leases, or takes them a lease too early.
ExpiredNever == {}
ExpiredEarly == {w \in DOMAIN leases : leases[w] <= clock + LeaseMillis}

Expired == {w \in DOMAIN leases : leases[w] <= clock}

\* Mutant: retention leaves settled references to the age and size limits.
FirstKeptByLimits(st, policy) ==
    LET removable(o) ==
            /\ st.records[o].delivery # "Unacked"
            /\ \/ policy.max_age # NIL /\ clock - payloads[st.records[o].message].time >= policy.max_age
               \/ policy.max_bytes # NIL /\ st.bytes - (o - st.base_offset) > policy.max_bytes
    IN  Min({o \in st.base_offset .. st.next_offset : o = st.next_offset \/ ~removable(o)})

\* retain: the first offset that stays.  An unacknowledged delivery stays, and
\* so does all that follows it.
FirstKept(st, policy) ==
    LET removable(o) ==
            /\ st.records[o].delivery # "Unacked"
            /\ \/ policy.max_age # NIL /\ clock - payloads[st.records[o].message].time >= policy.max_age
               \/ policy.max_bytes # NIL /\ st.bytes - (o - st.base_offset) > policy.max_bytes
               \/ st.records[o].delivery \in {"Acknowledged", "DeadLettered"}
    IN  Min({o \in st.base_offset .. st.next_offset : o = st.next_offset \/ ~removable(o)})

\* Mutant: an emptied stream starts over.
TrimmedStartsOver(st, b) ==
    IF b = st.next_offset THEN EmptyStream
    ELSE [st EXCEPT !.base_offset = b, !.bytes = @ - (b - st.base_offset),
                    !.records = [o \in b .. st.next_offset - 1 |-> st.records[o]]]

Trimmed(st, b) ==
    [st EXCEPT !.base_offset = b, !.bytes = @ - (b - st.base_offset),
               !.records = [o \in b .. st.next_offset - 1 |-> st.records[o]]]

PolicyOf(s) == queues[CHOOSE q \in DOMAIN queues : queues[q].stream = s].retention

\* Retain: expire_delivery_leases, retain, reclaim_payload_candidates.
Retain ==
    LET ss == Released(Expired)
        keep(s) == FirstKept(ss[s], PolicyOf(s))
        trimmed == [s \in DOMAIN ss |-> Trimmed(ss[s], keep(s))]
        removed == UNION {{ss[s].records[o].message : o \in ss[s].base_offset .. keep(s) - 1} : s \in DOMAIN ss}
    IN  /\ streams' = trimmed
        /\ leases' = Drop(leases, Expired)
        /\ Reclaim(removed, trimmed)
        /\ UNCHANGED <<declared, cursors, clock>>

-----------------------------------------------------------------------------
(* SystemTime::now, which an administrator or NTP may set back.            *)

Tick == clock < MaxTime /\ clock' = clock + 1 /\ UNCHANGED <<declared, stored, cursors>>
StepBack == clock > 0 /\ clock' = clock - 1 /\ UNCHANGED <<declared, stored, cursors>>

-----------------------------------------------------------------------------
Init ==
    /\ exchanges = {} /\ bindings = {}
    /\ queues = Nothing /\ consumers = Nothing
    /\ streams = Nothing /\ payloads = Nothing /\ segments = Nothing /\ leases = Nothing
    /\ next_message_id = 0 /\ next_stream_id = 0 /\ next_payload_segment_id = 0
    /\ clock = 0

\* The commands on the exchanges X and the queues Q, by the owners W, with the
\* declarations D and the retention policies P.
Declare(X, Q, D, P, W) ==
    \/ \E x \in X : CreateExchange(x)
    \/ \E x \in X, u \in BOOLEAN : DeleteExchange(x, u)
    \/ \E q \in Q, d \in D, w \in W : CreateQueue(q, d, w)
    \/ \E q \in Q, p \in P : SetQueueRetention(q, p)
    \/ \E x \in X, q \in Q : BindQueue(x, q)
    \/ \E x \in X, q \in Q : UnbindQueue(x, q)
    \/ \E q \in Q, u, e \in BOOLEAN : DeleteQueue(q, u, e)
    \/ \E q \in Q : PurgeQueue(q)

Attach(Q, W) ==
    \/ \E q \in Q, w \in W, c \in Consumers : RegisterConsumer(q, w, c)
    \/ \E q \in Q, w \in W, c \in Consumers : UnregisterConsumer(q, w, c)
    \/ \E w \in W : ReleaseConnection(w)

Publish(R) ==
    \/ \E r \in R, n \in 1 .. MaxBatch : PublishUniform(r, n)
    \/ \E r1, r2 \in R : PublishMixed(r1, r2)

Deliver(Q, W) ==
    \/ \E q \in Q, m \in 1 .. MaxBatch, w \in W, c \in Consumers, a \in BOOLEAN :
          DeliverClassic(q, m, w, c, a)
    \/ \E q \in Q, from \in 0 .. MaxOffset, m \in 1 .. MaxBatch : ReadStream(q, from, m)

Settle(Q, W) ==
    \E q \in Q, w \in W, c \in Consumers, tag \in 1 .. MaxOffset, multiple \in BOOLEAN :
       \/ Ack(q, w, c, tag, multiple)
       \/ Requeue(q, w, c, tag, multiple)
       \/ Reject(q, w, c, tag, multiple)

Lease(W) ==
    \/ \E w \in W : RenewDeliveryLease(w)
    \/ \E w \in W : ReleaseDeliveryLease(w)
    \/ Retain

Next ==
    \/ Declare(Exchanges, Queues, Declarations, Retentions, Owners)
    \/ Attach(Queues, Owners) \/ Publish(Routes)
    \/ Deliver(Queues, Owners) \/ Settle(Queues, Owners) \/ Lease(Owners)
    \/ Tick \/ StepBack

Spec == Init /\ [][Next]_vars

-----------------------------------------------------------------------------
(* Properties.                                                             *)

Reference == [message : 1 .. MaxMessages,
              delivery : {"Ready", "Unacked", "Acknowledged", "DeadLettered"},
              owner : Owners \cup {NIL}, consumer : Consumers \cup {NIL},
              redelivered : BOOLEAN, handouts : Nat]

IsStream(st) ==
    /\ st = [base_offset |-> st.base_offset, next_offset |-> st.next_offset,
             bytes |-> st.bytes, records |-> st.records]
    /\ st.base_offset \in Nat /\ st.next_offset \in Nat /\ st.bytes \in Nat
    /\ st.base_offset <= st.next_offset
    /\ st.records \in [Offsets(st) -> Reference]

QueueRecord == [stream : Nat, kind : {"Classic", "Stream"}, dead_letter : Routes \cup {NIL},
                retention : Policy, auto_delete : BOOLEAN, exclusive_owner : Owners \cup {NIL}]

TablesOK ==
    /\ exchanges \subseteq Exchanges
    /\ bindings \subseteq Exchanges \X Queues
    /\ DOMAIN queues \subseteq Queues /\ \A q \in DOMAIN queues : queues[q] \in QueueRecord
    /\ DOMAIN consumers \subseteq Queues
    /\ \A q \in DOMAIN consumers : consumers[q] \subseteq Owners \X Consumers

StreamsOK ==
    DOMAIN streams \subseteq 1 .. next_stream_id /\ \A s \in DOMAIN streams : IsStream(streams[s])

PayloadsOK ==
    /\ DOMAIN payloads \subseteq 1 .. next_message_id
    /\ \A m \in DOMAIN payloads : payloads[m] \in [segment : 1 .. next_payload_segment_id, time : Nat]
    /\ DOMAIN segments \subseteq 1 .. next_payload_segment_id
    /\ \A g \in DOMAIN segments : segments[g] \in Nat \ {0}

LeasesOK == DOMAIN leases \subseteq Owners /\ \A w \in DOMAIN leases : leases[w] \in Nat

CursorsOK ==
    /\ next_message_id \in 0 .. MaxMessages
    /\ next_stream_id \in Nat /\ next_payload_segment_id \in Nat
    /\ clock \in Nat

\* The types of the broker's tables.  Offsets of a stream are consecutive from
\* base_offset to next_offset, as validate_state requires.
TypeOK == TablesOK /\ StreamsOK /\ PayloadsOK /\ LeasesOK /\ CursorsOK

\* validate_state: every stream belongs to exactly one queue, and every queue
\* has its stream.
StreamsOwned ==
    /\ DOMAIN streams = {queues[q].stream : q \in DOMAIN queues}
    /\ \A p, q \in DOMAIN queues : queues[p].stream = queues[q].stream => p = q

\* validate_state: the payload table is exactly the set of messages some stream
\* still refers to.  A payload shared by a fan-out or a dead letter outlives its
\* first queue, and none is left behind.
PayloadsExact == DOMAIN payloads = Messages(streams)

\* validate_state: a segment is kept exactly while it holds a live payload, and
\* its live_records is their number.
SegmentsExact ==
    /\ DOMAIN segments = {payloads[m].segment : m \in DOMAIN payloads}
    /\ \A g \in DOMAIN segments : segments[g] = Cardinality(InSegment(DOMAIN payloads, g))

\* validate_state: retained_bytes is the weight of the references kept.
BytesExact == \A s \in DOMAIN streams : streams[s].bytes = streams[s].next_offset - streams[s].base_offset

\* validate_state: the owners with a lease are exactly those some reference is
\* out to.  A missing lease would leave a delivery no maintenance ever requeues.
LeasesExact ==
    DOMAIN leases = {w \in Owners : \E s \in DOMAIN streams : UnackedIn(streams[s], w) # {}}

\* validate_state: both ends of a binding exist; and a registration names a
\* declared queue, so that a queue of the same name declared later starts clean.
DeclarationsClosed ==
    /\ \A b \in bindings : b[1] \in exchanges /\ b[2] \in DOMAIN queues
    /\ DOMAIN consumers \subseteq DOMAIN queues
    /\ \A q \in DOMAIN consumers : consumers[q] # {}

\* fetch_queue tells a consumer that a message is redelivered exactly when it
\* was handed to a consumer before.
RedeliveredExact ==
    \A q \in DOMAIN queues : queues[q].kind = "Classic" =>
        LET st == streams[queues[q].stream]
        IN  \A o \in ReadyIn(st) : st.records[o].redelivered <=> st.records[o].handouts # 0

\* A delivery is out to a connection, and only classic queues have any: what
\* owner_has_unacked and release_delivery_lease skip can hold none.
DeliveriesOwned ==
    \A s \in DOMAIN streams : \A o \in Offsets(streams[s]) :
        streams[s].records[o].delivery = "Unacked" =>
            s \in ClassicStreams /\ streams[s].records[o].owner \in Owners

\* What validate_state accepts on restore holds after every command.
QueuesInv ==
    /\ TypeOK /\ StreamsOwned /\ PayloadsExact /\ SegmentsExact /\ BytesExact
    /\ DeliveriesOwned /\ LeasesExact /\ DeclarationsClosed

Final == {"Acknowledged", "DeadLettered"}

\* No command requeues or rewrites a settled reference, moves the message of an
\* offset, or passes an unacknowledged delivery from one owner to another.
ReferencesStable ==
    [][\A s \in DOMAIN streams \cap DOMAIN streams' :
          \A o \in Offsets(streams[s]) \cap Offsets(streams'[s]) :
             LET old == streams[s].records[o]
                 new == streams'[s].records[o]
             IN  /\ new.message = old.message
                 /\ old.delivery \in Final => new.delivery = old.delivery
                 /\ old.delivery = new.delivery => old.owner = new.owner /\ old.consumer = new.consumer]_vars

\* discard_ready_records: a purged record "stops being deliverable", and so does
\* an acknowledged or dead-lettered one, however often it was handed out before:
\* no command hands it to a consumer of a classic queue, for manual or automatic
\* acknowledgement.  (A stream queue is read whatever the delivery state.)
SettledNotDelivered ==
    [][\A s \in ClassicStreams \cap DOMAIN streams' :
          \A o \in Offsets(streams[s]) \cap Offsets(streams'[s]) :
             streams[s].records[o].delivery \in Final =>
                streams'[s].records[o].handouts = streams[s].records[o].handouts]_vars

\* Retention never erases a delivery that is out ("retention cannot erase the
\* reference while the delivery lease still names it"), unless in the same
\* command its lease expired.  What goes is always the oldest.
RetentionKeepsDeliveries ==
    [][\A s \in DOMAIN streams \cap DOMAIN streams' :
          \A o \in Offsets(streams[s]) \ Offsets(streams'[s]) :
             /\ o < streams'[s].base_offset
             /\ streams[s].records[o].delivery = "Unacked" =>
                   leases[streams[s].records[o].owner] <= clock]_vars

\* Offsets are never reused: an offset a consumer of this stream has seen never
\* names a later message, through trimming to empty and publishing again.
OffsetsMonotone ==
    [][\A s \in DOMAIN streams \cap DOMAIN streams' :
          /\ streams'[s].base_offset >= streams[s].base_offset
          /\ streams'[s].next_offset >= streams[s].next_offset]_vars

=============================================================================
