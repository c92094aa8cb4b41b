-------------------------- MODULE AmqpConnections ---------------------------
(***************************************************************************)
(* AMQP connections over the broker: server/src/broker/queue.rs composed   *)
(* with BrokerQueues.  A connection is one task.  It runs one handler at a *)
(* time, but a handler submits its broker commands one by one and awaits   *)
(* each, so the commands of other connections, and maintenance, come       *)
(* between them.  `agenda` is what is left of the handler being run.       *)
(*                                                                         *)
(* A connection's identity is its delivery_owner.  Its channels are open   *)
(* from the start and not reopened.  Exchanges are left out: messages are  *)
(* published to a queue by name.                                           *)
(***************************************************************************)
EXTENDS BrokerQueues, Sequences, SequencesExt

CONSTANTS Channels, ConsumerTags,
          Starts,        \* where stream consumers start
          Limits,        \* the prefetch counts basic.qos may set; 0 is no limit
          MaxTags        \* channel -> bound on its delivery tags

VARIABLES phase,          \* owner -> "Open" | "Gone"
          channels,       \* owner -> channel -> ChannelState
          next_consumer,  \* owner -> next_consumer_id
          agenda,         \* owner -> the broker commands its handler still has to submit
          abandoned       \* history: owner -> what its refused cleanups did not return

connection == <<phase, channels, next_consumer, agenda, abandoned>>
broker == <<declared, stored, cursors, clock>>
allVars == <<broker, connection>>

ASSUME AmqpConnectionsAssumption ==
    /\ Consumers = 1 .. Cardinality(Consumers) /\ Channels \subseteq Nat
    /\ \A s \in Starts : s \in {<<"First">>, <<"Last">>, <<"Next">>} \/ s \in {"Absolute", "Timestamp"} \X Nat
    /\ Limits \subseteq Nat /\ MaxTags \in [Channels -> Nat]

Free(w) == phase[w] = "Open" /\ agenda[w] = <<>>
Chan(w, ch) == channels[w][ch]
IsOpen(w, ch) == Free(w) /\ ch \in DOMAIN channels[w]

\* saturating_sub
Minus(a, b) == IF a > b THEN a - b ELSE 0

-----------------------------------------------------------------------------
(* Settlement: select_delivery_tags, prefix_settleable_groups, settle_tags. *)

Group(d) == <<d.queue, d.consumer>>

\* Mutant: the highest selected tag of a group is always settled as a prefix.
PrefixAllGroups(out, T) ==
    LET selected(g) == {t \in T : out[t].kind = "Classic" /\ Group(out[t]) = g}
    IN  [g \in {Group(out[t]) : t \in {u \in T : out[u].kind = "Classic"}} |->
            Max({out[t].engine_delivery_tag : t \in selected(g)})]

\* The groups of the tags T that one prefix command settles, and its tag: those
\* whose outstanding deliveries up to the highest selected are all selected.
PrefixSettleableGroups(out, T) ==
    LET classic == {t \in DOMAIN out : out[t].kind = "Classic"}
        selected(g) == {t \in T \cap classic : Group(out[t]) = g}
        highest(g) == Max({out[t].engine_delivery_tag : t \in selected(g)})
        covered(g) == {t \in classic : Group(out[t]) = g /\ out[t].engine_delivery_tag <= highest(g)}
        groups == {Group(out[t]) : t \in T \cap classic}
    IN  [g \in {h \in groups : Cardinality(covered(h)) = Cardinality(selected(h))} |-> highest(g)]

\* settle_tags, about to be run.  `strict`: an error closes the channel, rather
\* than being ignored.  `named` is history: the deliveries the client named.
SettleTags(w, ch, T, outcome, strict) ==
    LET out == Chan(w, ch).outstanding
    IN  [op |-> "settle", ch |-> ch, tags |-> SetToSortSeq(T, <), outcome |-> outcome,
         strict |-> strict, prefixes |-> PrefixSettleableGroups(out, T), settled |-> {},
         named |-> {out[t] : t \in T}]

\* Mutant: a channel is removed without returning what it holds.
CleanupChannelForgets(w, ch) == << [op |-> "drop", ch |-> ch] >>

\* cleanup_channel, then channels.remove.
CleanupChannel(w, ch) ==
    << SettleTags(w, ch, DOMAIN Chan(w, ch).outstanding, "Requeue", FALSE), [op |-> "drop", ch |-> ch] >>

\* A settlement of no tags submits nothing.
Do(w, items) == agenda' = [agenda EXCEPT ![w] = SelectSeq(items, LAMBDA i : i.op = "settle" => i.tags # <<>>)]
Rest(w) == Tail(agenda[w])
Job(w) == Head(agenda[w])
Running(w, op) == phase[w] = "Open" /\ agenda[w] # <<>> /\ Job(w).op = op

\* The delivery settle_tags is at, and whether it submits a command for it.
Current(w) == Chan(w, Job(w).ch).outstanding[Head(Job(w).tags)]
Prefixed(w) == Group(Current(w)) \in DOMAIN Job(w).prefixes
Submits(w) ==
    /\ Current(w).kind = "Classic"
    /\ Prefixed(w) => /\ Current(w).engine_delivery_tag = Job(w).prefixes[Group(Current(w))]
                      /\ Group(Current(w)) \notin Job(w).settled

\* What settle_tags does with a delivery once it is settled.
Forget(w) ==
    LET job == Job(w)
        tag == Head(job.tags)
        d == Current(w)
        offset == d.engine_delivery_tag - 1
        settled(k) ==
            [k EXCEPT !.outstanding = Minus(@, 1),
                      !.next_offset = IF d.kind = "Stream" /\ job.outcome = "Requeue"
                                        THEN <<"Absolute", IF @[1] = "Absolute" THEN Min({@[2], offset}) ELSE offset>>
                                        ELSE @]
    IN  /\ channels' = [channels EXCEPT
              ![w][job.ch].outstanding = Drop(@, {tag}),
              ![w][job.ch].consumers = [t \in DOMAIN @ |-> IF t = d.tag THEN settled(@[t]) ELSE @[t]]]
        /\ Do(w, <<[job EXCEPT !.tags = Tail(@), !.settled = IF Prefixed(w) /\ Submits(w)
                                                              THEN @ \cup {Group(d)} ELSE @]>> \o Rest(w))

Command(w) ==
    LET d == Current(w)
        tag == d.engine_delivery_tag
    IN  CASE Job(w).outcome = "Ack" -> Ack(d.queue, w, d.consumer, tag, Prefixed(w))
          [] Job(w).outcome = "Requeue" -> Requeue(d.queue, w, d.consumer, tag, Prefixed(w))
          [] Job(w).outcome = "Reject" -> Reject(d.queue, w, d.consumer, tag, Prefixed(w))

\* validate_settlement.
Known(w) ==
    LET d == Current(w)
    IN  /\ d.queue \in DOMAIN queues /\ queues[d.queue].kind = "Classic"
        /\ Named(streams[queues[d.queue].stream], w, d.consumer, d.engine_delivery_tag, Prefixed(w)) # {}

SettleOne(w) ==
    /\ Running(w, "settle")
    /\ IF Submits(w) THEN Command(w) ELSE UNCHANGED broker
    /\ Forget(w)
    /\ UNCHANGED <<phase, next_consumer, abandoned>>

\* The reference a delivery was made of.
Place(d) == <<d.stream, d.engine_delivery_tag - 1>>

\* The broker refuses the command: the rest is not settled.
SettleRefused(w) ==
    LET job == Job(w)
        out == Chan(w, job.ch).outstanding
    IN  /\ Running(w, "settle")
        /\ Submits(w) /\ ~Known(w)
        /\ IF job.strict
             THEN Do(w, CleanupChannel(w, job.ch)) /\ UNCHANGED abandoned
             ELSE /\ Do(w, Rest(w))
                  /\ abandoned' = [abandoned EXCEPT ![w] = @ \cup {Place(out[t]) : t \in ToSet(Tail(job.tags))}]
        /\ UNCHANGED <<broker, phase, channels, next_consumer>>

DropChannel(w) ==
    /\ Running(w, "drop")
    /\ channels' = [channels EXCEPT ![w] = Drop(@, {Job(w).ch})]
    /\ Do(w, Rest(w))
    /\ UNCHANGED <<broker, phase, next_consumer, abandoned>>

-----------------------------------------------------------------------------
(* Client methods.                                                         *)

ChannelError(w, ch) == Do(w, CleanupChannel(w, ch))

\* The first record that is not older than a time, or the log end.
FirstSince(st, time) ==
    Min({o \in Offsets(st) : payloads[st.records[o].message].time >= time} \cup {st.next_offset})

\* Mutant: the kept offset is taken for the last one delivered.
ResolvedAfter(st, next_offset) ==
    CASE next_offset[1] = "First" -> st.base_offset
      [] next_offset[1] = "Last" -> Minus(st.next_offset, 1)
      [] next_offset[1] = "Next" -> st.next_offset
      [] next_offset[1] = "Timestamp" -> FirstSince(st, next_offset[2])
      [] next_offset[1] = "Absolute" -> next_offset[2] + 1

\* resolve_offset: the last record and the log end are those at the time of the read.
Resolved(st, next_offset) ==
    CASE next_offset[1] = "First" -> st.base_offset
      [] next_offset[1] = "Last" -> Minus(st.next_offset, 1)
      [] next_offset[1] = "Next" -> st.next_offset
      [] next_offset[1] = "Timestamp" -> FirstSince(st, next_offset[2])
      [] next_offset[1] = "Absolute" -> next_offset[2]

\* The offset a consumer keeps may have been trimmed, and resolves to an error.
RetentionExpired(st, next_offset) == next_offset[1] = "Absolute" /\ next_offset[2] < st.base_offset

\* basic.consume registers before it looks at the consumer tag; a tag in use is
\* a channel error.  `since` is history: where the consumer started.
BasicConsume(w, ch, tag, q, automatic_ack, start) ==
    LET id == next_consumer[w] + 1
    IN  /\ IsOpen(w, ch) /\ id \in Consumers
        /\ q \in DOMAIN queues
        /\ queues[q].kind = "Classic" => start = <<"First">>
        /\ RegisterConsumer(q, w, id)
        /\ next_consumer' = [next_consumer EXCEPT ![w] = id]
        /\ IF tag \in DOMAIN Chan(w, ch).consumers
             THEN ChannelError(w, ch) /\ UNCHANGED channels
             ELSE /\ channels' = [channels EXCEPT ![w][ch].consumers =
                        Put(@, tag, [id |-> id, queue |-> q, kind |-> queues[q].kind,
                                     automatic_ack |-> automatic_ack, outstanding |-> 0, next_offset |-> start,
                                     since |-> Resolved(streams[queues[q].stream], start)])]
                  /\ UNCHANGED agenda
        /\ UNCHANGED <<phase, abandoned>>

\* An OutstandingDelivery.  `stream` is history: the queue may be declared again.
Entry(consumer, tag, q, o) ==
    [consumer |-> consumer, tag |-> tag, queue |-> q, kind |-> queues[q].kind,
     engine_delivery_tag |-> o + 1, stream |-> queues[q].stream]

\* The deliveries of the offsets O, recorded under the next tags in offset order.
Record(out, next, O, consumer, tag, q) ==
    LET n == Cardinality(O)
        order == SetToSortSeq(O, <)
    IN  [t \in DOMAIN out \cup (next + 1 .. next + n) |->
            IF t \in DOMAIN out THEN out[t] ELSE Entry(consumer, tag, q, order[t - next])]

BasicGet(w, ch, q, automatic_ack) ==
    LET id == next_consumer[w] + 1
        st == streams[queues[q].stream]
        tag == Chan(w, ch).next_delivery_tag + 1
    IN  /\ IsOpen(w, ch) /\ id \in Consumers /\ tag <= MaxTags[ch]
        /\ q \in DOMAIN queues /\ queues[q].kind = "Classic"
        /\ DeliverClassic(q, 1, w, id, automatic_ack)
        /\ next_consumer' = [next_consumer EXCEPT ![w] = id]
        /\ channels' = [channels EXCEPT
              ![w][ch].next_delivery_tag = tag,
              ![w][ch].outstanding =
                 IF automatic_ack THEN @
                 ELSE Record(@, tag - 1, FirstReady(st, 1), id, NIL, q)]
        /\ UNCHANGED <<phase, agenda, abandoned>>

BasicQos(w, ch, count, global) ==
    /\ IsOpen(w, ch)
    /\ channels' = [channels EXCEPT ![w][ch].prefetch_count = count, ![w][ch].prefetch_global = global]
    /\ UNCHANGED <<broker, phase, next_consumer, agenda, abandoned>>

\* select_delivery_tags.
Selected(w, ch, tag, multiple) ==
    {t \in DOMAIN Chan(w, ch).outstanding : IF multiple THEN tag = 0 \/ t <= tag ELSE t = tag}

\* basic.ack, basic.nack, basic.reject and basic.recover (all tags, requeued).
BasicSettle(w, ch, tag, multiple, outcome) ==
    LET T == Selected(w, ch, tag, multiple)
    IN  /\ IsOpen(w, ch)
        /\ IF T = {} /\ ~(multiple /\ tag = 0) THEN ChannelError(w, ch)
           ELSE Do(w, <<SettleTags(w, ch, T, outcome, TRUE)>>)
        /\ UNCHANGED <<broker, phase, channels, next_consumer, abandoned>>

\* basic.cancel: requeues what the consumer holds, then unregisters it.
BasicCancel(w, ch, tag) ==
    LET k == Chan(w, ch).consumers[tag]
        out == Chan(w, ch).outstanding
        T == {t \in DOMAIN out : out[t].consumer = k.id}
    IN  /\ IsOpen(w, ch) /\ tag \in DOMAIN Chan(w, ch).consumers
        /\ channels' = [channels EXCEPT ![w][ch].consumers = Drop(@, {tag})]
        /\ Do(w, <<SettleTags(w, ch, T, "Requeue", TRUE),
                   [op |-> "unregister", queue |-> k.queue, consumer |-> k.id]>>)
        /\ UNCHANGED <<broker, phase, next_consumer, abandoned>>

\* UnregisterConsumer of a registration that is gone changes nothing.
Unregistered(w) ==
    /\ Running(w, "unregister")
    /\ IF <<w, Job(w).consumer>> \in Registered(Job(w).queue)
         THEN UnregisterConsumer(Job(w).queue, w, Job(w).consumer) ELSE UNCHANGED broker
    /\ Do(w, Rest(w))
    /\ UNCHANGED <<phase, channels, next_consumer, abandoned>>

ChannelClose(w, ch) ==
    /\ IsOpen(w, ch)
    /\ ChannelError(w, ch)
    /\ UNCHANGED <<broker, phase, channels, next_consumer, abandoned>>

-----------------------------------------------------------------------------
(* pump_consumers: a round of the pump works out how much each consumer may *)
(* take, then serves the requests one by one.                              *)

\* Mutant: what a request was granted is not taken off the channel's budget.
SpentBeforeNothing(w, order, i) == {}

\* The earlier requests of a round that draw on the same channel's budget.
SpentBefore(w, order, i) ==
    {j \in 1 .. i - 1 : order[j][1] = order[i][1] /\ ~Chan(w, order[j][1]).consumers[order[j][2]].automatic_ack}

\* The maximum of each consumer <<channel, tag>> of a round.
Maxima(w, order) ==
    LET maximum[i \in DOMAIN order] ==
            LET chan == Chan(w, order[i][1])
                k == chan.consumers[order[i][2]]
                spent == MapThenSumSet(LAMBDA j : maximum[j], SpentBefore(w, order, i))
                used == IF chan.prefetch_global THEN Cardinality(DOMAIN chan.outstanding) + spent ELSE k.outstanding
            IN  IF k.automatic_ack \/ chan.prefetch_count = 0 THEN MaxBatch
                ELSE Min({MaxBatch, Minus(chan.prefetch_count, used)})
    IN  maximum

Requests(w, order) ==
    LET maximum == Maxima(w, order)
        request(i) == [op |-> "pump", ch |-> order[i][1], tag |-> order[i][2], maximum |-> maximum[i]]
    IN  SelectSeq([i \in 1 .. Len(order) |-> request(i)], LAMBDA r : r.maximum # 0)

ConsumersOf(w) == UNION {{ch} \X DOMAIN Chan(w, ch).consumers : ch \in DOMAIN channels[w]}

ConsumerOf(w, request) == Chan(w, request.ch).consumers[request.tag]

\* What a request of at most n would be handed.
Deliverable(w, request, n) ==
    LET k == ConsumerOf(w, request)
        st == streams[queues[k.queue].stream]
        start == Resolved(st, k.next_offset)
    IN  IF k.kind = "Classic" THEN FirstReady(st, n) ELSE Offsets(st) \cap (start .. start + n - 1)

Undeliverable(w, request) ==
    LET k == ConsumerOf(w, request)
        st == streams[queues[k.queue].stream]
    IN  \/ k.queue \notin DOMAIN queues
        \/ k.kind = "Stream" /\ Offsets(st) # {} /\ RetentionExpired(st, k.next_offset)

\* How many tags the channel has left, within the bound.
TagsLeft(w, ch) == Minus(MaxTags[ch], Chan(w, ch).next_delivery_tag)

Idles(w, request) ==
    /\ ~Undeliverable(w, request)
    /\ Deliverable(w, request, 1) = {} \/ TagsLeft(w, request.ch) = 0

\* The consumers that are due, in the order the channels' cursors give: any of them
\* in any order.  A round that would find nothing for anyone is not begun.
PumpRound(w) ==
    /\ Free(w)
    /\ \E due \in SUBSET ConsumersOf(w) : \E order \in SetToSeqs(due) :
          LET requests == Requests(w, order)
          IN  /\ \E r \in ToSet(requests) : ~Idles(w, r)
              /\ Do(w, requests)
    /\ UNCHANGED <<broker, phase, channels, next_consumer, abandoned>>

\* The batch is cut down to what the memory budget admits, so any n will do.
PumpDelivers(w) ==
    LET request == Job(w)
        ch == request.ch
        k == ConsumerOf(w, request)
        next == Chan(w, ch).next_delivery_tag
    IN  /\ Running(w, "pump") /\ ~Undeliverable(w, request) /\ ~Idles(w, request)
        /\ \E n \in 1 .. Min({request.maximum, TagsLeft(w, ch)}) :
             LET O == Deliverable(w, request, n)
             IN  /\ IF k.kind = "Classic" THEN DeliverClassic(k.queue, n, w, k.id, k.automatic_ack)
                    ELSE ReadStream(k.queue, Resolved(streams[queues[k.queue].stream], k.next_offset), n)
                 /\ channels' = [channels EXCEPT
                       ![w][ch].next_delivery_tag = next + Cardinality(O),
                       ![w][ch].outstanding = IF k.automatic_ack THEN @
                                              ELSE Record(@, next, O, k.id, request.tag, k.queue),
                       ![w][ch].consumers[request.tag].outstanding = IF k.automatic_ack THEN @
                                                                     ELSE @ + Cardinality(O),
                       ![w][ch].consumers[request.tag].next_offset = IF k.kind = "Stream" THEN <<"Absolute", Max(O) + 1>>
                                                                     ELSE @]
        /\ Do(w, Rest(w))
        /\ UNCHANGED <<phase, next_consumer, abandoned>>

\* Nothing is available.
PumpIdles(w) ==
    /\ Running(w, "pump") /\ Idles(w, Job(w))
    /\ Do(w, Rest(w))
    /\ UNCHANGED <<broker, phase, channels, next_consumer, abandoned>>

\* The memory budget does not admit a single delivery: a later round tries again.
PumpStarves(w) ==
    /\ Running(w, "pump") /\ ~Undeliverable(w, Job(w)) /\ ~Idles(w, Job(w))
    /\ Do(w, Rest(w))
    /\ UNCHANGED <<broker, phase, channels, next_consumer, abandoned>>

\* The queue was deleted, or the stream was trimmed past the consumer: a channel
\* error, and the round is over.
PumpFails(w) ==
    /\ Running(w, "pump") /\ Undeliverable(w, Job(w))
    /\ ChannelError(w, Job(w).ch)
    /\ UNCHANGED <<broker, phase, channels, next_consumer, abandoned>>

Renew(w) ==
    /\ Free(w)
    /\ \E ch \in DOMAIN channels[w] : \E t \in DOMAIN Chan(w, ch).outstanding :
          Chan(w, ch).outstanding[t].kind = "Classic"
    /\ RenewDeliveryLease(w)
    /\ UNCHANGED connection

-----------------------------------------------------------------------------
(* The end of a connection.                                                *)

\* The peer closes, the heartbeat times out or the server shuts down:
\* cleanup_connection, channel by channel.
Disconnect(w) ==
    LET chans == SetToSortSeq(DOMAIN channels[w], <)
    IN  /\ Free(w)
        /\ Do(w, FlattenSeq([i \in 1 .. Len(chans) |-> CleanupChannel(w, chans[i])])
                 \o <<[op |-> "release_connection"], [op |-> "release_lease"]>>)
        /\ UNCHANGED <<broker, phase, channels, next_consumer, abandoned>>

ReleaseConnectionStep(w) ==
    /\ Running(w, "release_connection")
    /\ ReleaseConnection(w)
    /\ Do(w, Rest(w))
    /\ UNCHANGED <<phase, channels, next_consumer, abandoned>>

ReleaseLeaseStep(w) ==
    /\ Running(w, "release_lease")
    /\ ReleaseDeliveryLease(w)
    /\ Do(w, <<>>)
    /\ phase' = [phase EXCEPT ![w] = "Gone"]
    /\ UNCHANGED <<channels, next_consumer, abandoned>>

\* A heartbeat or a flush fails, or the server crashes: serve returns, or the
\* task is gone, with no cleanup at all.
Vanish(w) ==
    /\ phase[w] = "Open"
    /\ phase' = [phase EXCEPT ![w] = "Gone"]
    /\ channels' = [channels EXCEPT ![w] = Nothing]
    /\ Do(w, <<>>)
    /\ UNCHANGED <<broker, next_consumer, abandoned>>

-----------------------------------------------------------------------------
\* Connections of which owner w has the channels opened[w].
Connected(opened) ==
    /\ Init
    /\ phase = [w \in Owners |-> "Open"]
    /\ channels = [w \in Owners |-> [ch \in opened[w] |->
                     [prefetch_count |-> 0, prefetch_global |-> FALSE,
                      consumers |-> Nothing, outstanding |-> Nothing, next_delivery_tag |-> 0]]]
    /\ next_consumer = [w \in Owners |-> 0]
    /\ agenda = [w \in Owners |-> <<>>]
    /\ abandoned = [w \in Owners |-> {}]

AmqpInit == Connected([w \in Owners |-> Channels])

\* What is left of a connection's handler.
Step(w) ==
    \/ SettleOne(w) \/ SettleRefused(w)
    \/ DropChannel(w) \/ Unregistered(w)
    \/ PumpDelivers(w) \/ PumpIdles(w) \/ PumpFails(w)
    \/ ReleaseConnectionStep(w) \/ ReleaseLeaseStep(w)

Consume(w) == \E ch \in Channels, tag \in ConsumerTags, q \in Queues, a \in BOOLEAN, s \in Starts :
                 BasicConsume(w, ch, tag, q, a, s)
Qos(w) == \E ch \in Channels, count \in Limits, global \in BOOLEAN : BasicQos(w, ch, count, global)
Get(w) == \E ch \in Channels, q \in Queues, a \in BOOLEAN : BasicGet(w, ch, q, a)
SettleAny(w) == \E ch \in Channels, multiple \in BOOLEAN, outcome \in {"Ack", "Requeue", "Reject"} :
                   \E tag \in 0 .. MaxTags[ch] : BasicSettle(w, ch, tag, multiple, outcome)
Cancel(w) == \E ch \in Channels, tag \in ConsumerTags : BasicCancel(w, ch, tag)
Close(w) == \E ch \in Channels : ChannelClose(w, ch)

\* Commands that are no connection's own: declarations, publishes, maintenance.
CreateAny == (\E q \in Queues, d \in Declarations, w \in Owners : CreateQueue(q, d, w)) /\ UNCHANGED connection
DeleteAny == (\E q \in Queues : DeleteQueue(q, FALSE, FALSE)) /\ UNCHANGED connection
PublishAny == (\E q \in Queues : PublishUniform(q, 1)) /\ UNCHANGED connection
Maintain == Retain /\ UNCHANGED connection
Time == Tick /\ UNCHANGED connection

AmqpNext ==
    \/ CreateAny \/ DeleteAny \/ PublishAny \/ Maintain \/ Time
    \/ \E w \in Owners : \/ Step(w) \/ PumpRound(w) \/ PumpStarves(w) \/ Qos(w) \/ Consume(w) \/ Get(w)
                         \/ SettleAny(w) \/ Cancel(w) \/ Close(w) \/ Renew(w) \/ Disconnect(w) \/ Vanish(w)

AmqpSpec == AmqpInit /\ [][AmqpNext]_allVars

-----------------------------------------------------------------------------
(* Properties.                                                             *)

References == {<<s, o>> \in (DOMAIN streams) \X (0 .. MaxOffset) : o \in Offsets(streams[s])}
Ref(r) == streams[r[1]].records[r[2]]
OutTo(w) == {r \in References : Ref(r).delivery = "Unacked" /\ Ref(r).owner = w}

\* Whether settling what the client was handed as d may settle reference r: d is r,
\* or d was handed out of a queue that was deleted and declared again, whose own
\* delivery of that tag r is.
Covers(d, r) ==
    \/ Place(d) = r
    \/ /\ d.stream \notin DOMAIN streams
       /\ d.queue \in DOMAIN queues /\ queues[d.queue].stream = r[1]
       /\ d.consumer = Ref(r).consumer /\ d.engine_delivery_tag = r[2] + 1

\* prefix_settleable_groups: a settlement never touches "a delivery the client
\* did not name", whatever the prefix commands, expired leases, redeliveries and
\* other connections did meanwhile.  The name is the queue's: a tag that outlived
\* its queue names the delivery of the queue declared in its place.
SettlesOnlyNamed ==
    [][\A w \in Owners : \A r \in OutTo(w) :
          (/\ r[1] \in DOMAIN streams' /\ r[2] \in Offsets(streams'[r[1]])
           /\ streams'[r[1]].records[r[2]].delivery \in Final)
             => Running(w, "settle") /\ \E d \in Job(w).named : Covers(d, r)]_allVars

HeldBy(chan, id) == {t \in DOMAIN chan.outstanding : chan.outstanding[t].consumer = id}

\* pump_consumers: what a consumer is handed for acknowledgement stays within the
\* prefetch in force, the consumer's own or, with prefetch_global, the whole
\* channel's; what basic.qos lowered the limit below is not taken back.  It counts
\* by Consumer.outstanding, which therefore never drifts from the table.
PrefetchRespected ==
    [][\A w \in Owners : \A ch \in DOMAIN channels[w] \cap DOMAIN channels'[w] :
         LET old == Chan(w, ch)
             new == channels'[w][ch]
             handed == {new.outstanding[t].tag : t \in DOMAIN new.outstanding \ DOMAIN old.outstanding} \ {NIL}
         IN  /\ (handed # {} /\ new.prefetch_count # 0) =>
                   IF new.prefetch_global THEN Cardinality(DOMAIN new.outstanding) <= new.prefetch_count
                   ELSE \A tag \in handed :
                           Cardinality(HeldBy(new, new.consumers[tag].id)) <= new.prefetch_count
             /\ \A tag \in DOMAIN new.consumers :
                   new.consumers[tag].outstanding = Cardinality(HeldBy(new, new.consumers[tag].id))]_allVars

\* Between two handlers, everything that is out to a connection is a delivery one
\* of its channels holds, and so may still be settled by name, unless a cleanup the
\* broker refused left it behind: cleanup_channel ignores the error, and with it
\* every delivery after the refused one.
HeldByChannel ==
    \A w \in Owners : Free(w) => \A r \in OutTo(w) :
        \/ r \in abandoned[w]
        \/ \E ch \in DOMAIN channels[w] : \E t \in DOMAIN Chan(w, ch).outstanding :
              Place(Chan(w, ch).outstanding[t]) = r

\* What a connection that is gone held comes back, cleanup or no cleanup.
GoneReturnsDeliveries ==
    \A w \in Owners : phase[w] = "Gone" ~> OutTo(w) = {}

\* Message m is out to a connection that is open.
HeldOpen(m) == \E w \in Owners : phase[w] = "Open" /\ \E r \in OutTo(w) : Ref(r).message = m

\* A message in a classic queue is settled in the end and its payload reclaimed,
\* unless an open connection keeps it: such a connection renews the lease of what
\* it holds for as long as its client leaves it unsettled.
EveryMessageSettled ==
    \A m \in 1 .. MaxMessages :
        ([]<>~HeldOpen(m)) =>
            ((\E s \in ClassicStreams : m \in MessagesIn(streams[s])) ~> m \notin DOMAIN payloads)

\* A stream consumer is handed every record from where it started.
StreamDelivered ==
    \A w \in Owners, ch \in Channels, tag \in ConsumerTags, o \in 0 .. MaxOffset - 1 :
        LET attached == /\ ch \in DOMAIN channels[w] /\ tag \in DOMAIN Chan(w, ch).consumers
                        /\ Chan(w, ch).consumers[tag].kind = "Stream"
            k == Chan(w, ch).consumers[tag]
            waiting == /\ attached
                       /\ k.queue \in DOMAIN queues
                       /\ o \in Offsets(streams[queues[k.queue].stream]) /\ o >= k.since
                       /\ streams[queues[k.queue].stream].records[o].handouts = 0
        IN  waiting ~> ~waiting

=============================================================================
