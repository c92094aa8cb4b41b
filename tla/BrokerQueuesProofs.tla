------------------------- MODULE BrokerQueuesProofs -------------------------
(***************************************************************************)
(* QueuesInv, what validate_state accepts, is inductive: every command of  *)
(* the queue side of the broker leads from a state that can be restored to *)
(* one that can.  Here are the commands that add or remove references,     *)
(* payloads and queues, and the theorems.                                  *)
(***************************************************************************)
EXTENDS BrokerQueuesCommands

\* In the streams ss nothing is out to W, and to the others what was.
ReleasedFrom(ss, W) ==
    /\ \A t \in DOMAIN streams : \A v : UnackedIn(ss[t], v) = IF v \in W THEN {} ELSE UnackedIn(streams[t], v)
    /\ \A t \in DOMAIN streams : \A o \in Offsets(ss[t]) : ss[t].records[o].delivery = "Unacked" =>
          /\ o \in Offsets(streams[t]) /\ ss[t].records[o] = streams[t].records[o]
          /\ streams[t].records[o].owner \notin W

(* release_delivery_lease leaves nothing out to W, and touches no other    *)
(* delivery.                                                               *)
LEMMA ReleasedOut ==
  ASSUME QueuesInv, NEW W, NEW ss, ss = Released(W)
  PROVE  ReleasedFrom(ss, W)
<1>1. /\ SameShapes(ss)
      /\ \A t \in DOMAIN streams : \A o \in Offsets(streams[t]) :
            \/ ss[t].records[o] = streams[t].records[o]
               /\ ~(streams[t].records[o].delivery = "Unacked" /\ streams[t].records[o].owner \in W)
            \/ ss[t].records[o].delivery = "Ready"
               /\ streams[t].records[o].delivery = "Unacked" /\ streams[t].records[o].owner \in W
  BY ReleasedFact
<1>2. \A t \in DOMAIN streams : Offsets(ss[t]) = Offsets(streams[t])
  BY Zenon, <1>1 DEF SameShapes, SameShape
<1>3. ASSUME NEW t \in DOMAIN streams, NEW o \in Offsets(ss[t]), ss[t].records[o].delivery = "Unacked"
      PROVE  /\ o \in Offsets(streams[t]) /\ ss[t].records[o] = streams[t].records[o]
             /\ streams[t].records[o].owner \notin W
  BY Zenon, <1>1, <1>2, <1>3
<1>4. ASSUME NEW t \in DOMAIN streams, NEW v
      PROVE  UnackedIn(ss[t], v) = IF v \in W THEN {} ELSE UnackedIn(streams[t], v)
  <2>1. \A o \in Offsets(streams[t]) :
           (ss[t].records[o].delivery = "Unacked" /\ ss[t].records[o].owner = v)
           <=> (v \notin W /\ streams[t].records[o].delivery = "Unacked" /\ streams[t].records[o].owner = v)
    BY <1>1
  <2> QED BY Zenon, <1>2, <2>1 DEF UnackedIn
<1> QED BY Zenon, <1>3, <1>4 DEF ReleasedFrom

(* A connection that goes gives back what it had.                          *)
LEMMA ReleaseLeaseKeeps ==
  ASSUME QueuesInv, NEW w, ReleaseDeliveryLease(w)
  PROVE  QueuesInv'
<1>1. /\ streams' = Released({w}) /\ leases' = Drop(leases, {w})
      /\ UNCHANGED <<declared, payloads, segments, cursors, clock>>
  BY Zenon DEF ReleaseDeliveryLease
<1>2. SameShapes(streams')
  BY Zenon, <1>1, ReleasedFact
<1>3. /\ TablesOK' /\ StreamsOK' /\ PayloadsOK' /\ CursorsOK' /\ StreamsOwned'
      /\ PayloadsExact' /\ SegmentsExact' /\ BytesExact' /\ DeclarationsClosed'
      /\ ClassicStreams' = ClassicStreams
  BY Zenon, <1>1, <1>2, Kept DEF SameShapes
<1>4. /\ \A t \in DOMAIN streams : \A v : UnackedIn(streams'[t], v) = IF v \in {w} THEN {} ELSE UnackedIn(streams[t], v)
      /\ \A t \in DOMAIN streams : \A o \in Offsets(streams'[t]) : streams'[t].records[o].delivery = "Unacked" =>
            /\ o \in Offsets(streams[t]) /\ streams'[t].records[o] = streams[t].records[o]
            /\ streams[t].records[o].owner \notin {w}
  <2>1. ReleasedFrom(streams', {w})
    BY Zenon, <1>1, ReleasedOut
  <2> QED BY Zenon, <2>1 DEF ReleasedFrom
<1>5. DeliveriesOwned'
  BY <1>2, <1>3, <1>4 DEF QueuesInv, DeliveriesOwned, SameShapes
<1>6. DOMAIN leases' = DOMAIN leases \ {w} /\ \A v \in DOMAIN leases' : leases'[v] = leases[v]
  BY Zenon, <1>1 DEF Drop
<1>7. LeasesOK'
  BY Zenon, <1>6 DEF QueuesInv, TypeOK, LeasesOK
<1>8. LeasesExact'
  BY <1>2, <1>4, <1>6 DEF QueuesInv, LeasesExact, SameShapes
<1> QED BY Zenon, <1>3, <1>5, <1>7, <1>8 DEF QueuesInv, TypeOK

-----------------------------------------------------------------------------
(* Queues come and go.                                                     *)

(* The initial stream of a queue.                                          *)
LEMMA EmptyStreamFact ==
  IsStream(EmptyStream) /\ Offsets(EmptyStream) = {} /\ MessagesIn(EmptyStream) = {}
  /\ EmptyStream.bytes = EmptyStream.next_offset - EmptyStream.base_offset
<1>1. Offsets(EmptyStream) = {}
  BY DEF Offsets, EmptyStream
<1>2. Nothing \in [{} -> Reference]
  BY Zenon DEF Nothing
<1> QED BY <1>1, <1>2 DEF IsStream, EmptyStream, MessagesIn

(* A new queue has a new, empty stream.                                    *)
LEMMA CreateQueueKeeps ==
  ASSUME BrokerQueuesAssumption, QueuesInv, NEW q \in Queues, NEW d \in Declarations, NEW w \in Owners,
         CreateQueue(q, d, w)
  PROVE  QueuesInv'
<1> DEFINE n == next_stream_id + 1
           rec == [stream |-> n, kind |-> d.kind, dead_letter |-> d.dead_letter,
                   retention |-> d.retention, auto_delete |-> d.auto_delete,
                   exclusive_owner |-> IF d.exclusive THEN w ELSE NIL]
<1>1. /\ q \notin DOMAIN queues /\ next_stream_id' = n
      /\ streams' = Put(streams, n, EmptyStream) /\ queues' = Put(queues, q, rec)
      /\ UNCHANGED <<exchanges, bindings, consumers, payloads, segments, leases,
                     next_message_id, next_payload_segment_id, clock>>
  BY Zenon DEF CreateQueue
<1>2. rec \in QueueRecord /\ rec.stream = n
  BY DEF QueueRecord, BrokerQueuesAssumption, Declaration, QueuesInv, TypeOK, CursorsOK
<1>3. n \notin DOMAIN streams /\ n \in Nat /\ DOMAIN streams \subseteq 1 .. n /\ n \in 1 .. n
  BY DEF QueuesInv, TypeOK, CursorsOK, StreamsOK
<1> HIDE DEF n, rec
<1>4. /\ DOMAIN streams' = DOMAIN streams \cup {n} /\ streams'[n] = EmptyStream
      /\ \A s \in DOMAIN streams : streams'[s] = streams[s]
      /\ DOMAIN queues' = DOMAIN queues \cup {q} /\ queues'[q] = rec
      /\ \A p \in DOMAIN queues : queues'[p] = queues[p]
  BY Zenon, <1>1, <1>3 DEF Put
<1>5. CursorsOK' /\ PayloadsOK' /\ LeasesOK'
  BY Zenon, <1>1, <1>3 DEF QueuesInv, TypeOK, CursorsOK, PayloadsOK, LeasesOK
<1>6. TablesOK' /\ DeclarationsClosed'
  BY Zenon, <1>1, <1>2, <1>4 DEF QueuesInv, TypeOK, TablesOK, DeclarationsClosed
<1>7. StreamsOK' /\ BytesExact'
  BY <1>1, <1>3, <1>4, EmptyStreamFact DEF QueuesInv, TypeOK, StreamsOK, BytesExact
<1>8. StreamsOwned'
  BY <1>1, <1>2, <1>3, <1>4 DEF QueuesInv, StreamsOwned
<1>9. Messages(streams') = Messages(streams)
  <2>1. MessagesIn(streams'[n]) = {}
    BY Zenon, <1>4, EmptyStreamFact
  <2> QED BY <1>4, <2>1 DEF Messages
<1>10. PayloadsExact' /\ SegmentsExact'
  <2>1. PayloadsExact' <=> DOMAIN payloads' = Messages(streams')
    BY Zenon DEF PayloadsExact
  <2>2. SegmentsExact'
    BY Zenon, <1>1 DEF QueuesInv, SegmentsExact, InSegment
  <2> QED BY Zenon, <1>1, <1>9, <2>1, <2>2 DEF QueuesInv, PayloadsExact
<1>11. ClassicStreams \subseteq ClassicStreams'
  BY <1>1, <1>4 DEF ClassicStreams
<1>12. \A v : UnackedIn(streams'[n], v) = {}
  BY Zenon, <1>4, EmptyStreamFact DEF UnackedIn
<1>13. DeliveriesOwned'
  BY Zenon, <1>4, <1>11, EmptyStreamFact DEF QueuesInv, DeliveriesOwned
<1>14. LeasesExact'
  BY Zenon, <1>1, <1>4, <1>12 DEF QueuesInv, LeasesExact
<1> QED BY Zenon, <1>5, <1>6, <1>7, <1>8, <1>10, <1>13, <1>14 DEF QueuesInv, TypeOK

(* drop_queue takes with a queue all that is its own and nothing else.     *)
LEMMA DropKeeps ==
  ASSUME QueuesInv, NEW K \in SUBSET DOMAIN queues, NEW registered,
         DOMAIN registered \subseteq DOMAIN consumers,
         \A q \in DOMAIN registered : registered[q] \subseteq Owners \X Consumers /\ registered[q] # {},
         DropQueues(K, registered)
  PROVE  QueuesInv'
<1> DEFINE gone == {queues[q].stream : q \in K}
           ss == Drop(streams, gone)
           qs == Drop(queues, K)
           unsettled == {w \in DOMAIN leases : \E s \in gone : UnackedIn(streams[s], w) # {}}
           candidates == UNION {MessagesIn(streams[s]) : s \in gone}
<1>1. /\ queues' = qs /\ consumers' = Drop(registered, K) /\ bindings' = {b \in bindings : b[2] \notin K}
      /\ streams' = ss /\ leases' = Drop(leases, Idle(qs, ss, unsettled)) /\ Reclaim(candidates, ss)
      /\ UNCHANGED <<exchanges, cursors, clock>>
  BY Zenon DEF DropQueues, Without
<1>2. /\ DOMAIN qs = DOMAIN queues \ K /\ \A q \in DOMAIN qs : qs[q] = queues[q]
      /\ DOMAIN ss = DOMAIN streams \ gone /\ \A s \in DOMAIN ss : ss[s] = streams[s]
      /\ DOMAIN consumers' = DOMAIN registered \ K /\ \A q \in DOMAIN consumers' : consumers'[q] = registered[q]
  BY Zenon, <1>1 DEF Drop
<1>3. UNCHANGED <<next_message_id, next_stream_id, next_payload_segment_id>>
  BY Zenon, <1>1 DEF cursors
<1>4. gone \subseteq DOMAIN streams /\ \A q \in DOMAIN queues : queues[q].stream \in gone <=> q \in K
  BY Zenon DEF QueuesInv, StreamsOwned
<1>5. TablesOK' /\ DeclarationsClosed'
  BY Zenon, <1>1, <1>2 DEF QueuesInv, TypeOK, TablesOK, DeclarationsClosed
<1>6. StreamsOK' /\ BytesExact' /\ CursorsOK'
  BY Zenon, <1>1, <1>2, <1>3 DEF QueuesInv, TypeOK, StreamsOK, BytesExact, CursorsOK
<1>7. DOMAIN ss = {qs[q].stream : q \in DOMAIN qs} /\ StreamsOwned'
  <2> HIDE DEF ss, qs, gone
  <2>3. DOMAIN streams = {queues[q].stream : q \in DOMAIN queues}
    BY Zenon DEF QueuesInv, StreamsOwned
  <2>4. ASSUME NEW s \in DOMAIN ss PROVE \E q \in DOMAIN qs : qs[q].stream = s
    <3>1. PICK q \in DOMAIN queues : queues[q].stream = s
      BY Zenon, <1>2, <2>3
    <3> QED BY Zenon, <1>2, <1>4, <3>1
  <2>5. ASSUME NEW q \in DOMAIN qs PROVE qs[q].stream \in DOMAIN ss
    BY <1>2, <1>4, <2>3
  <2>1. DOMAIN ss = {qs[q].stream : q \in DOMAIN qs}
    BY Zenon, <2>4, <2>5
  <2>6. \A p, q \in DOMAIN qs : qs[p].stream = qs[q].stream => p = q
    BY Zenon, <1>2 DEF QueuesInv, StreamsOwned
  <2>2. StreamsOwned'
    BY Zenon, <1>1, <2>1, <2>6 DEF StreamsOwned
  <2> QED BY Zenon, <2>1, <2>2
<1>8. /\ Messages(ss) \subseteq Messages(streams)
      /\ Messages(streams) \ Messages(ss) \subseteq candidates
  <2> HIDE DEF ss, gone
  <2>1. ASSUME NEW m \in Messages(ss) PROVE m \in Messages(streams)
    BY <1>2 DEF Messages
  <2>2. ASSUME NEW m \in Messages(streams), m \notin Messages(ss) PROVE m \in candidates
    BY <1>2, <1>4, <2>2 DEF Messages
  <2> QED BY Zenon, <2>1, <2>2
<1>9. DOMAIN payloads' = Messages(ss) /\ PayloadsOK' /\ SegmentsExact'
  <2>1. CursorsOK /\ PayloadsOK /\ PayloadsExact /\ SegmentsExact
    BY Zenon DEF QueuesInv, TypeOK
  <2> HIDE DEF ss, candidates
  <2> QED BY Zenon, <1>1, <1>8, <2>1, ReclaimFact
<1>10. PayloadsExact'
  <2>1. PayloadsExact' <=> DOMAIN payloads' = Messages(streams')
    BY Zenon DEF PayloadsExact
  <2> QED BY Zenon, <1>1, <1>9, <2>1
<1>11. ASSUME NEW s \in DOMAIN ss, NEW o \in Offsets(ss[s]), ss[s].records[o].delivery = "Unacked"
       PROVE  /\ \E q \in DOMAIN qs : qs[q].kind = "Classic" /\ qs[q].stream = s
              /\ ss[s].records[o].owner \in Owners
  <2>1. s \in ClassicStreams /\ ss[s].records[o].owner \in Owners
    BY Zenon, <1>2, <1>11 DEF QueuesInv, DeliveriesOwned
  <2>2. PICK q \in DOMAIN queues : queues[q].kind = "Classic" /\ queues[q].stream = s
    BY Zenon, <2>1 DEF ClassicStreams
  <2>3. q \in DOMAIN qs
    BY Zenon, <1>2, <1>4, <2>2
  <2> QED BY Zenon, <1>2, <2>1, <2>2, <2>3
<1>12. \A w : OwnerHasUnacked(qs, ss, w) <=> \E s \in DOMAIN ss : UnackedIn(ss[s], w) # {}
  <2> HIDE DEF ss, qs
  <2>1. DOMAIN ss = {qs[q].stream : q \in DOMAIN qs}
    BY Zenon, <1>7
  <2>2. ASSUME NEW w, NEW s \in DOMAIN ss, UnackedIn(ss[s], w) # {}
        PROVE  \E q \in DOMAIN qs : qs[q].kind = "Classic" /\ qs[q].stream = s
    BY Zenon, <1>11, <2>2 DEF UnackedIn
  <2> QED BY Zenon, <2>1, <2>2 DEF OwnerHasUnacked
<1> HIDE DEF ss, qs, gone
<1>13. DeliveriesOwned'
  <2>1. ClassicStreams' = {qs[q].stream : q \in {p \in DOMAIN qs : qs[p].kind = "Classic"}}
    BY Zenon, <1>1 DEF ClassicStreams
  <2> QED BY <1>1, <1>11, <2>1 DEF DeliveriesOwned
<1>14. DOMAIN leases' = DOMAIN leases \ Idle(qs, ss, unsettled) /\ \A w \in DOMAIN leases' : leases'[w] = leases[w]
  BY Zenon, <1>1 DEF Drop
<1>15. ASSUME NEW w \in Owners
       PROVE  w \in DOMAIN leases' <=> \E s \in DOMAIN ss : UnackedIn(ss[s], w) # {}
  <2>1. w \in DOMAIN leases <=> \E s \in DOMAIN streams : UnackedIn(streams[s], w) # {}
    BY Zenon DEF QueuesInv, LeasesExact
  <2>2. w \in Idle(qs, ss, unsettled) <=> w \in unsettled /\ ~ \E s \in DOMAIN ss : UnackedIn(ss[s], w) # {}
    BY Zenon, <1>12 DEF Idle
  <2> QED BY Zenon, <1>2, <1>4, <1>14, <2>1, <2>2
<1>16. LeasesOK' /\ DOMAIN leases' \subseteq Owners
  BY Zenon, <1>14 DEF QueuesInv, TypeOK, LeasesOK
<1>17. LeasesExact'
  BY Zenon, <1>1, <1>15, <1>16 DEF LeasesExact
<1> QED BY <1>5, <1>6, <1>7, <1>9, <1>10, <1>13, <1>16, <1>17 DEF QueuesInv, TypeOK

(* DeleteQueue, UnregisterConsumer and ReleaseConnection drop queues.      *)
LEMMA UnregisterKeeps ==
  ASSUME QueuesInv, NEW kept, DOMAIN kept = DOMAIN consumers,
         \A q \in DOMAIN consumers : kept[q] \subseteq consumers[q],
         NEW also \in SUBSET DOMAIN queues, Unregister(kept, also)
  PROVE  QueuesInv'
<1> DEFINE emptied == {q \in DOMAIN consumers : kept[q] = {} /\ consumers[q] # {}}
           K == {q \in emptied : AutoDelete(q)} \cup also
           registered == Drop(kept, emptied)
<1>1. DropQueues(K, registered)
  BY Zenon DEF Unregister
<1>2. K \in SUBSET DOMAIN queues
  BY Zenon DEF AutoDelete
<1>3. /\ DOMAIN registered \subseteq DOMAIN consumers
      /\ \A q \in DOMAIN registered : registered[q] \subseteq Owners \X Consumers /\ registered[q] # {}
  BY Zenon DEF Drop, QueuesInv, DeclarationsClosed, TypeOK, TablesOK
<1> HIDE DEF K, registered
<1> QED BY Zenon, <1>1, <1>2, <1>3, DropKeeps

(* Every command that can end a queue keeps the invariant.                *)
LEMMA QueueEndKeeps ==
  ASSUME QueuesInv, NEW q, NEW w, NEW c, NEW u, NEW e,
         DeleteQueue(q, u, e) \/ UnregisterConsumer(q, w, c) \/ ReleaseConnection(w)
  PROVE  QueuesInv'
<1>1. CASE DeleteQueue(q, u, e)
  <2>1. {q} \in SUBSET DOMAIN queues /\ DropQueues({q}, consumers)
    BY Zenon, <1>1 DEF DeleteQueue
  <2>2. \A p \in DOMAIN consumers : consumers[p] \subseteq Owners \X Consumers /\ consumers[p] # {}
    BY Zenon DEF QueuesInv, DeclarationsClosed, TypeOK, TablesOK
  <2> QED BY Zenon, <2>1, <2>2, DropKeeps
<1>2. CASE UnregisterConsumer(q, w, c)
  <2> DEFINE kept == [consumers EXCEPT ![q] = @ \ {<<w, c>>}]
  <2>1. Unregister(kept, {})
    BY Zenon, <1>2 DEF UnregisterConsumer
  <2>2. DOMAIN kept = DOMAIN consumers /\ \A p \in DOMAIN consumers : kept[p] \subseteq consumers[p]
    BY Zenon
  <2> HIDE DEF kept
  <2> QED BY Zenon, <2>1, <2>2, UnregisterKeeps
<1>3. CASE ReleaseConnection(w)
  <2> DEFINE kept == [p \in DOMAIN consumers |-> {r \in consumers[p] : r[1] # w}]
             also == {p \in DOMAIN queues : queues[p].exclusive_owner = w}
  <2>1. Unregister(kept, also) /\ also \in SUBSET DOMAIN queues
    BY Zenon, <1>3 DEF ReleaseConnection
  <2>2. DOMAIN kept = DOMAIN consumers /\ \A p \in DOMAIN consumers : kept[p] \subseteq consumers[p]
    BY Zenon
  <2> HIDE DEF kept, also
  <2> QED BY Zenon, <2>1, <2>2, UnregisterKeeps
<1> QED BY Zenon, <1>1, <1>2, <1>3

-----------------------------------------------------------------------------
(* Publishing and dead letters.                                            *)

(* amqp_targets are streams of declared queues.                            *)
LEMMA TargetsFact ==
  ASSUME QueuesInv, NEW r PROVE Targets(r) \subseteq DOMAIN streams
BY Zenon DEF Targets, QueuesInv, StreamsOwned

(* Appending leaves the deliveries that are out as they are.               *)
LEMMA LongerOut ==
  ASSUME NEW ss, NEW new, Longer(ss, new)
  PROVE  /\ \A s \in DOMAIN ss : \A v : UnackedIn(new[s], v) = UnackedIn(ss[s], v)
         /\ \A s \in DOMAIN ss : \A o \in Offsets(new[s]) : new[s].records[o].delivery = "Unacked" =>
               o \in Offsets(ss[s]) /\ new[s].records[o] = ss[s].records[o]
BY Zenon DEF Longer, Fresh, UnackedIn

(* References appended to the streams: the leases and the declarations     *)
(* need no change.                                                         *)
LEMMA LongerKeeps ==
  ASSUME QueuesInv, Longer(streams, streams'), UNCHANGED <<declared, leases, next_stream_id>>,
         CursorsOK', PayloadsOK', SegmentsExact', PayloadsExact'
  PROVE  QueuesInv'
<1>1. UNCHANGED <<exchanges, bindings, queues, consumers, leases, next_stream_id>>
  BY Zenon DEF declared
<1>2. TablesOK' /\ DeclarationsClosed' /\ LeasesOK' /\ ClassicStreams' = ClassicStreams
  BY Zenon, <1>1 DEF QueuesInv, TypeOK, TablesOK, DeclarationsClosed, LeasesOK, ClassicStreams
<1>3. StreamsOK' /\ StreamsOwned' /\ BytesExact'
  BY <1>1 DEF QueuesInv, TypeOK, StreamsOK, StreamsOwned, BytesExact, Longer
<1>4. /\ \A s \in DOMAIN streams : \A v : UnackedIn(streams'[s], v) = UnackedIn(streams[s], v)
      /\ \A s \in DOMAIN streams : \A o \in Offsets(streams'[s]) : streams'[s].records[o].delivery = "Unacked" =>
            o \in Offsets(streams[s]) /\ streams'[s].records[o] = streams[s].records[o]
  BY LongerOut
<1>5. DOMAIN streams' = DOMAIN streams
  BY Zenon DEF Longer
<1>6. DeliveriesOwned'
  BY Zenon, <1>2, <1>4, <1>5 DEF QueuesInv, DeliveriesOwned
<1>7. LeasesExact'
  BY <1>1, <1>4, <1>5 DEF QueuesInv, LeasesExact
<1> QED BY Zenon, <1>2, <1>3, <1>6, <1>7 DEF QueuesInv, TypeOK

\* A publish command that takes n identifiers.
Publishes(r, n) == PublishUniform(r, n) \/ (n = 2 /\ \E r2 : PublishMixed(r, r2))

(* Appending one message.                                                  *)
LEMMA AppendOne ==
  ASSUME NEW ss, Sound(ss), NEW targets \in SUBSET DOMAIN ss, NEW m \in 1 .. MaxMessages,
         NEW new, new = AppendTo(ss, targets, 1, <<m>>)
  PROVE  /\ Longer(ss, new) /\ Messages(new) = Messages(ss) \cup (IF targets = {} THEN {} ELSE {m})
<1>1. ASSUME NEW n \in Nat, n = 1, NEW msg, msg = <<m>>
      PROVE  /\ Longer(ss, new) /\ Messages(new) = Messages(ss) \cup (IF targets = {} THEN {} ELSE Listed(n, msg))
             /\ Listed(n, msg) = {m}
  <2>1. \A i \in 1 .. n : msg[i] = m
    BY <1>1
  <2>2. new = AppendTo(ss, targets, n, msg)
    BY Zenon, <1>1
  <2>3. Listed(n, msg) = {m}
    BY <1>1, <2>1 DEF Listed
  <2> QED BY <2>1, <2>2, <2>3, AppendToFact
<1>2. 1 \in Nat
  BY Zenon
<1> QED BY Zenon, <1>1, <1>2

(* What publishing does to the streams.                                    *)
LEMMA PublishFact ==
  ASSUME QueuesInv, BrokerQueuesAssumption, NEW r, NEW n \in Nat \ {0},
         Publishes(r, n)
  PROVE  /\ Longer(streams, streams') /\ Allocate(n) /\ UNCHANGED <<declared, leases, next_stream_id, clock>>
         /\ Messages(streams') = Messages(streams) \cup (next_message_id + 1 .. next_message_id + n)
<1>0. Sound(streams) /\ next_message_id \in Nat /\ MaxMessages \in Nat
  BY DEF Sound, QueuesInv, TypeOK, StreamsOK, BytesExact, CursorsOK, BrokerQueuesAssumption
<1>1. CASE PublishUniform(r, n)
  <2> DEFINE msg == [i \in 1 .. n |-> next_message_id + i]
  <2>1. /\ Targets(r) # {} /\ Allocate(n) /\ streams' = AppendTo(streams, Targets(r), n, msg)
        /\ UNCHANGED <<declared, leases, next_stream_id, clock>>
    BY Zenon, <1>1 DEF PublishUniform
  <2>2. next_message_id + n <= MaxMessages
    BY Zenon, <2>1 DEF Allocate
  <2>3. \A i \in 1 .. n : msg[i] = next_message_id + i /\ msg[i] \in 1 .. MaxMessages
    BY <1>0, <2>2
  <2> HIDE DEF msg
  <2>4. Targets(r) \in SUBSET DOMAIN streams
    BY Zenon, TargetsFact
  <2>5. /\ Longer(streams, streams')
        /\ Messages(streams') = Messages(streams) \cup (IF Targets(r) = {} THEN {} ELSE Listed(n, msg))
    BY <1>0, <2>1, <2>3, <2>4, AppendToFact
  <2>6. Listed(n, msg) = next_message_id + 1 .. next_message_id + n
    <3>1. ASSUME NEW m \in next_message_id + 1 .. next_message_id + n
          PROVE  \E i \in 1 .. n : msg[i] = m
      <4>1. m - next_message_id \in 1 .. n /\ next_message_id + (m - next_message_id) = m
        BY <1>0
      <4> QED BY Zenon, <2>3, <4>1
    <3>2. ASSUME NEW i \in 1 .. n PROVE msg[i] \in next_message_id + 1 .. next_message_id + n
      BY <1>0, <2>3
    <3> QED BY Zenon, <3>1, <3>2 DEF Listed
  <2> QED BY Zenon, <2>1, <2>5, <2>6
<1>2. CASE n = 2 /\ \E r2 : PublishMixed(r, r2)
  <2>0. PICK r2 : PublishMixed(r, r2)
    BY Zenon, <1>2
  <2> DEFINE once == AppendTo(streams, Targets(r), 1, <<next_message_id + 1>>)
  <2>1. /\ Targets(r) # {} /\ Targets(r2) # {} /\ Allocate(n)
        /\ streams' = AppendTo(once, Targets(r2), 1, <<next_message_id + 2>>)
        /\ UNCHANGED <<declared, leases, next_stream_id, clock>>
    BY Zenon, <1>2, <2>0 DEF PublishMixed
  <2>2. next_message_id + 1 \in 1 .. MaxMessages /\ next_message_id + 2 \in 1 .. MaxMessages
    <3>1. next_message_id + n <= MaxMessages
      BY Zenon, <2>1 DEF Allocate
    <3> QED BY <1>0, <1>2, <3>1
  <2>3. Targets(r) \in SUBSET DOMAIN streams /\ Targets(r2) \in SUBSET DOMAIN streams
    BY Zenon, TargetsFact
  <2>4. Longer(streams, once) /\ Messages(once) = Messages(streams) \cup {next_message_id + 1}
    BY <1>0, <2>1, <2>2, <2>3, AppendOne
  <2> HIDE DEF once
  <2>5. Sound(once) /\ Targets(r2) \in SUBSET DOMAIN once
    BY Zenon, <2>3, <2>4 DEF Longer, Sound
  <2>6. Longer(once, streams') /\ Messages(streams') = Messages(once) \cup {next_message_id + 2}
    <3>1. PICK m : m = next_message_id + 2
      BY Zenon
    <3>2. m \in 1 .. MaxMessages /\ streams' = AppendTo(once, Targets(r2), 1, <<m>>) /\ Targets(r2) # {}
      BY Zenon, <2>1, <2>2, <3>1
    <3>3. Longer(once, streams') /\ Messages(streams') = Messages(once) \cup {m}
      BY <2>5, <3>2, AppendOne
    <3> QED BY Zenon, <3>1, <3>3
  <2>7. Longer(streams, streams')
    <3>1. \A s \in DOMAIN streams : /\ streams[s].next_offset \in Nat /\ once[s].next_offset \in Nat
                                    /\ streams'[s].next_offset \in Nat
      BY Zenon, <1>0, <2>4, <2>6 DEF Longer, IsStream, Sound
    <3> QED BY <2>4, <2>6, <3>1 DEF Longer
  <2>8. {next_message_id + 1, next_message_id + 2} = next_message_id + 1 .. next_message_id + 2
    BY <1>0
  <2> QED BY Zenon, <1>2, <2>1, <2>4, <2>6, <2>7, <2>8
<1> QED BY Zenon, <1>1, <1>2 DEF Publishes

(* Publishing: each identifier taken is the message of some reference.     *)
LEMMA PublishKeeps ==
  ASSUME QueuesInv, BrokerQueuesAssumption, NEW r, NEW n \in Nat \ {0},
         Publishes(r, n)
  PROVE  QueuesInv'
<1>1. /\ Longer(streams, streams') /\ Allocate(n) /\ UNCHANGED <<declared, leases, next_stream_id, clock>>
      /\ Messages(streams') = Messages(streams) \cup (next_message_id + 1 .. next_message_id + n)
  BY Zenon, PublishFact
<1>2. /\ CursorsOK' /\ PayloadsOK' /\ SegmentsExact'
      /\ DOMAIN payloads' = DOMAIN payloads \cup (next_message_id + 1 .. next_message_id + n)
  <2>1. CursorsOK /\ PayloadsOK /\ SegmentsExact
    BY Zenon DEF QueuesInv, TypeOK
  <2> QED BY Zenon, <1>1, <2>1, AllocateFact
<1>3. PayloadsExact'
  <2>1. PayloadsExact' <=> DOMAIN payloads' = Messages(streams')
    BY Zenon DEF PayloadsExact
  <2> QED BY Zenon, <1>1, <1>2, <2>1 DEF QueuesInv, PayloadsExact
<1> QED BY Zenon, <1>1, <1>2, <1>3, LongerKeeps

(* The settled half of Reject, and what it appends.                        *)
LEMMA RejectFact ==
  ASSUME QueuesInv, NEW q, NEW w, NEW c, NEW tag, NEW multiple, Reject(q, w, c, tag, multiple)
  PROVE  \E ss : /\ SameShapes(ss) /\ StillOut(ss, w) /\ Longer(ss, streams')
                 /\ leases' = Drop(leases, Idle(queues, ss, {w}))
                 /\ Messages(streams') = Messages(streams)
                 /\ \A t \in DOMAIN streams : \A o \in Offsets(streams[t]) :
                       \/ ss[t].records[o] = streams[t].records[o]
                       \/ /\ streams[t].records[o].delivery = "Unacked"
                          /\ ss[t].records[o] = AfterSettling(streams[t].records[o], "DeadLettered")
<1> DEFINE s == queues[q].stream
           st == streams[s]
           chosen == Named(st, w, c, tag, multiple)
           f == [o \in DOMAIN st.records |-> IF o \in chosen THEN AfterSettling(st.records[o], "DeadLettered")
                                                               ELSE st.records[o]]
           ss == RewriteRecords(streams, s, f)
           targets == Targets(queues[q].dead_letter)
           n == Cardinality(chosen)
           msg(order) == [i \in 1 .. n |-> st.records[order[i]].message]
<1>1. /\ q \in DOMAIN queues /\ leases' = Drop(leases, Idle(queues, ss, {w}))
      /\ \E order \in [1 .. n -> chosen] : streams' = AppendTo(ss, targets, n, msg(order))
  BY Zenon DEF Reject, SettledStreams, ReleaseIfIdle
<1>2. s \in DOMAIN streams /\ IsStream(st)
  BY Zenon, <1>1 DEF QueuesInv, StreamsOwned, TypeOK, StreamsOK
<1>3. /\ st.records \in [Offsets(st) -> Reference] /\ \A o \in Offsets(st) : st.records[o] \in Reference
      /\ st.base_offset \in Nat /\ st.next_offset \in Nat
  BY Zenon, <1>2 DEF IsStream
<1>4. chosen \subseteq UnackedIn(st, w) /\ chosen \subseteq Offsets(st)
  BY Zenon DEF Named, UnackedIn
<1>5. n \in Nat
  <2>1. IsFiniteSet(Offsets(st))
    <3>1. st.base_offset \in Int /\ st.next_offset - 1 \in Int
      BY <1>3
    <3> QED BY Zenon, <3>1, FS_Interval DEF Offsets
  <2> QED BY Zenon, <1>4, <2>1, FS_Subset, FS_CardinalityType
<1> HIDE DEF chosen, n
<1>6. Rewrites(s, w, f)
  <2>1. \A o \in Offsets(st) : /\ AfterSettling(st.records[o], "DeadLettered") \in Reference
                               /\ AfterSettling(st.records[o], "DeadLettered").message = st.records[o].message
                               /\ AfterSettling(st.records[o], "DeadLettered").delivery # "Unacked"
    BY Zenon, <1>3, SettledFact
  <2>2. f \in [Offsets(st) -> Reference]
    BY Zenon, <1>3, <2>1
  <2>3. \A o \in Offsets(st) : f[o] = IF o \in chosen THEN AfterSettling(st.records[o], "DeadLettered") ELSE st.records[o]
    BY Zenon, <1>3
  <2> HIDE DEF f
  <2> QED BY Zenon, <1>2, <1>4, <2>1, <2>2, <2>3 DEF Rewrites
<1>7. ASSUME NEW t \in DOMAIN streams, NEW o \in Offsets(streams[t])
       PROVE  \/ ss[t].records[o] = streams[t].records[o]
              \/ /\ streams[t].records[o].delivery = "Unacked"
                 /\ ss[t].records[o] = AfterSettling(streams[t].records[o], "DeadLettered")
  <2>1. CASE t # s
    BY Zenon, <2>1 DEF RewriteRecords
  <2>2. CASE t = s
    <3>1. ss[t] = [st EXCEPT !.records = f]
      BY Zenon, <1>2, <2>2 DEF RewriteRecords
    <3>2. ss[t].records = f
      BY Zenon, <1>2, <3>1 DEF IsStream
    <3> QED BY Zenon, <1>3, <1>4, <2>2, <3>2 DEF UnackedIn
  <2> QED BY Zenon, <2>1, <2>2
<1> HIDE DEF f
<1>8. SameShapes(ss) /\ StillOut(ss, w)
  <2> HIDE DEF s
  <2> QED BY Zenon, <1>6, Settlement
<1>9. Messages(ss) = Messages(streams)
  <2> HIDE DEF ss
  <2> QED BY Zenon, <1>8, ShapeMessages DEF SameShapes
<1>10. Sound(ss)
  BY Zenon, <1>8 DEF SameShapes, SameShape, Sound, QueuesInv, BytesExact
<1>11. PICK order \in [1 .. n -> chosen] : streams' = AppendTo(ss, targets, n, msg(order))
  BY Zenon, <1>1
<1>12. \A i \in 1 .. n : /\ msg(order)[i] \in 1 .. MaxMessages
                          /\ msg(order)[i] \in Messages(streams)
  <2>1. ASSUME NEW i \in 1 .. n
        PROVE  /\ st.records[order[i]].message \in 1 .. MaxMessages
               /\ st.records[order[i]].message \in Messages(streams)
    <3>1. order[i] \in Offsets(st)
      BY Zenon, <1>4, <1>11
    <3>2. st.records[order[i]] \in Reference
      BY Zenon, <1>3, <3>1
    <3>3. st.records[order[i]].message \in MessagesIn(st)
      BY Zenon, <3>1 DEF MessagesIn
    <3> QED BY Zenon, <1>2, <3>2, <3>3 DEF Reference, Messages
  <2> QED BY Zenon, <2>1
<1>13. targets \in SUBSET DOMAIN ss
  BY Zenon, <1>8, TargetsFact DEF SameShapes
<1> HIDE DEF ss, targets, msg
<1>14. /\ Longer(ss, streams')
       /\ Messages(streams') = Messages(ss) \cup (IF targets = {} THEN {} ELSE Listed(n, msg(order)))
  BY <1>5, <1>10, <1>11, <1>12, <1>13, AppendToFact
<1>15. Listed(n, msg(order)) \subseteq Messages(streams)
  BY Zenon, <1>12 DEF Listed
<1>16. Messages(streams') = Messages(streams)
  BY Zenon, <1>9, <1>14, <1>15
<1> QED BY Zenon, <1>1, <1>7, <1>8, <1>14, <1>16

(* Rejecting keeps the payloads: they were and stay referred to.           *)
LEMMA RejectKeeps ==
  ASSUME QueuesInv, NEW q, NEW w, NEW c, NEW tag, NEW multiple, Reject(q, w, c, tag, multiple)
  PROVE  QueuesInv'
<1>1. PICK ss : /\ SameShapes(ss) /\ StillOut(ss, w) /\ Longer(ss, streams')
                /\ leases' = Drop(leases, Idle(queues, ss, {w}))
                /\ Messages(streams') = Messages(streams)
  BY Zenon, RejectFact
<1>2. UNCHANGED <<exchanges, bindings, queues, consumers, payloads, segments, next_message_id,
                  next_stream_id, next_payload_segment_id, clock>>
  BY Zenon DEF Reject, declared, cursors
<1>3. TablesOK' /\ PayloadsOK' /\ CursorsOK' /\ DeclarationsClosed' /\ ClassicStreams' = ClassicStreams
  BY Zenon, <1>2 DEF QueuesInv, TypeOK, TablesOK, PayloadsOK, CursorsOK, DeclarationsClosed, ClassicStreams
<1>4. DOMAIN ss = DOMAIN streams /\ DOMAIN streams' = DOMAIN streams
  BY Zenon, <1>1 DEF SameShapes, Longer
<1>5. StreamsOK' /\ StreamsOwned' /\ BytesExact'
  <2>1. DOMAIN streams \subseteq 1 .. next_stream_id /\ StreamsOwned
    BY Zenon DEF QueuesInv, TypeOK, StreamsOK
  <2>2. \A s \in DOMAIN streams' :
          IsStream(streams'[s]) /\ streams'[s].bytes = streams'[s].next_offset - streams'[s].base_offset
    BY Zenon, <1>1, <1>4 DEF Longer
  <2>3. StreamsOK'
    BY Zenon, <1>2, <1>4, <2>1, <2>2 DEF StreamsOK
  <2>4. StreamsOwned'
    BY Zenon, <1>2, <1>4, <2>1 DEF StreamsOwned
  <2> QED BY Zenon, <2>2, <2>3, <2>4 DEF BytesExact
<1>6. PayloadsExact' /\ SegmentsExact'
  <2>1. PayloadsExact' <=> DOMAIN payloads' = Messages(streams')
    BY Zenon DEF PayloadsExact
  <2>2. SegmentsExact'
    BY Zenon, <1>2 DEF QueuesInv, SegmentsExact, InSegment
  <2> QED BY Zenon, <1>1, <1>2, <2>1, <2>2 DEF QueuesInv, PayloadsExact
<1>7. /\ \A s \in DOMAIN ss : \A v : UnackedIn(streams'[s], v) = UnackedIn(ss[s], v)
      /\ \A s \in DOMAIN ss : \A o \in Offsets(streams'[s]) : streams'[s].records[o].delivery = "Unacked" =>
            o \in Offsets(ss[s]) /\ streams'[s].records[o] = ss[s].records[o]
  <2>1. Longer(ss, streams')
    BY Zenon, <1>1
  <2> QED BY <2>1, LongerOut
<1>8. DeliveriesOwned'
  <2>1. DeliveriesOwned
    BY Zenon DEF QueuesInv
  <2>2. \A t \in DOMAIN streams : \A o \in Offsets(ss[t]) : ss[t].records[o].delivery = "Unacked" =>
          o \in Offsets(streams[t]) /\ ss[t].records[o] = streams[t].records[o]
    BY Zenon, <1>1 DEF StillOut
  <2> QED BY <1>3, <1>4, <1>7, <2>1, <2>2 DEF DeliveriesOwned
<1>9. LeasesOK' /\ DOMAIN leases' = {v \in Owners : \E t \in DOMAIN streams : UnackedIn(ss[t], v) # {}}
  BY Zenon, <1>1, SettleLeases
<1>10. LeasesExact'
  BY Zenon, <1>4, <1>7, <1>9 DEF LeasesExact
<1> QED BY <1>3, <1>5, <1>6, <1>8, <1>9, <1>10 DEF QueuesInv, TypeOK

-----------------------------------------------------------------------------
(* Maintenance.                                                            *)

\* The streams `new` are `ss` without a prefix in which nothing is out.
Shorter(ss, new) ==
    /\ DOMAIN new = DOMAIN ss
    /\ \A s \in DOMAIN ss :
          /\ IsStream(new[s]) /\ new[s].bytes = new[s].next_offset - new[s].base_offset
          /\ new[s].base_offset >= ss[s].base_offset /\ new[s].next_offset = ss[s].next_offset
          /\ \A o \in Offsets(new[s]) : o \in Offsets(ss[s]) /\ new[s].records[o] = ss[s].records[o]
          /\ \A o \in Offsets(ss[s]) \ Offsets(new[s]) :
                o < new[s].base_offset /\ ss[s].records[o].delivery # "Unacked"

(* retain drops prefixes, and collects the messages it drops.              *)
LEMMA RetainFact ==
  ASSUME QueuesInv, Retain
  PROVE  \E ss, removed : /\ ss = Released(Expired) /\ SameShapes(ss) /\ Shorter(ss, streams')
                          /\ Reclaim(removed, streams')
                          /\ Messages(streams') \subseteq Messages(streams)
                          /\ Messages(streams) \ Messages(streams') \subseteq removed
<1> DEFINE ss == Released(Expired)
           keep(s) == FirstKept(ss[s], PolicyOf(s))
           removed == UNION {{ss[s].records[o].message : o \in ss[s].base_offset .. keep(s) - 1} : s \in DOMAIN ss}
<1>1. /\ DOMAIN streams' = DOMAIN ss /\ \A s \in DOMAIN ss : streams'[s] = Trimmed(ss[s], keep(s))
      /\ Reclaim(removed, streams')
  BY Zenon DEF Retain
<1>2. SameShapes(ss)
  BY Zenon, ReleasedFact
<1> HIDE DEF ss
<1>3. Sound(ss) /\ Messages(ss) = Messages(streams)
  BY Zenon, <1>2, ShapeMessages DEF SameShapes, SameShape, Sound, QueuesInv, BytesExact
<1>4. ASSUME NEW s \in DOMAIN ss
      PROVE  /\ IsStream(streams'[s]) /\ streams'[s].bytes = streams'[s].next_offset - streams'[s].base_offset
             /\ streams'[s].base_offset = keep(s) /\ streams'[s].next_offset = ss[s].next_offset
             /\ Offsets(streams'[s]) \subseteq Offsets(ss[s])
             /\ Offsets(ss[s]) \ Offsets(streams'[s]) = ss[s].base_offset .. keep(s) - 1
             /\ \A o \in Offsets(streams'[s]) : streams'[s].records[o] = ss[s].records[o]
             /\ keep(s) \in ss[s].base_offset .. ss[s].next_offset
             /\ \A o \in ss[s].base_offset .. keep(s) - 1 : ss[s].records[o].delivery # "Unacked"
  <2>1. IsStream(ss[s]) /\ ss[s].bytes = ss[s].next_offset - ss[s].base_offset
    BY Zenon, <1>3 DEF Sound
  <2>2. /\ keep(s) \in ss[s].base_offset .. ss[s].next_offset
        /\ \A o \in ss[s].base_offset .. keep(s) - 1 : ss[s].records[o].delivery # "Unacked"
    BY Zenon, <2>1, FirstKeptFact
  <2>3. streams'[s] = Trimmed(ss[s], keep(s))
    BY Zenon, <1>1
  <2> HIDE DEF keep
  <2> QED BY <2>1, <2>2, <2>3, StreamTrim
<1>5. Shorter(ss, streams')
  <2>1. ASSUME NEW s \in DOMAIN ss
        PROVE  /\ keep(s) >= ss[s].base_offset
               /\ \A o \in ss[s].base_offset .. keep(s) - 1 : o < keep(s)
    <3>1. ss[s].base_offset \in Nat /\ ss[s].next_offset \in Nat
      BY Zenon, <1>3 DEF Sound, IsStream
    <3>2. keep(s) \in ss[s].base_offset .. ss[s].next_offset
      BY Zenon, <1>4
    <3> HIDE DEF keep
    <3> QED BY <3>1, <3>2
  <2> HIDE DEF keep
  <2> QED BY <1>1, <1>4, <2>1 DEF Shorter
<1> HIDE DEF keep
<1>6. Messages(streams') \subseteq Messages(ss)
  <2>1. \A s \in DOMAIN ss : MessagesIn(streams'[s]) \subseteq MessagesIn(ss[s])
    BY <1>4 DEF MessagesIn
  <2> QED BY Zenon, <1>1, <2>1 DEF Messages
<1>7. Messages(ss) \ Messages(streams') \subseteq removed
  <2>1. ASSUME NEW m \in Messages(ss), m \notin Messages(streams') PROVE m \in removed
    <3>1. PICK s \in DOMAIN ss : m \in MessagesIn(ss[s])
      BY Zenon DEF Messages
    <3>2. PICK o \in Offsets(ss[s]) : m = ss[s].records[o].message
      BY Zenon, <3>1 DEF MessagesIn
    <3>3. o \notin Offsets(streams'[s])
      <4>1. SUFFICES ASSUME o \in Offsets(streams'[s]) PROVE FALSE
        BY Zenon
      <4>2. m \in MessagesIn(streams'[s])
        BY Zenon, <1>4, <3>2, <4>1 DEF MessagesIn
      <4> QED BY Zenon, <1>1, <2>1, <4>2 DEF Messages
    <3>4. o \in ss[s].base_offset .. keep(s) - 1
      BY Zenon, <1>4, <3>3
    <3> QED BY <3>2, <3>4
  <2> QED BY Zenon, <2>1
<1> QED BY Zenon, <1>1, <1>2, <1>3, <1>5, <1>6, <1>7 DEF ss

(* Retain expires leases, then trims, then reclaims.                       *)
LEMMA RetainKeeps ==
  ASSUME QueuesInv, Retain
  PROVE  QueuesInv'
<1>1. PICK ss, removed : /\ ss = Released(Expired) /\ SameShapes(ss) /\ Shorter(ss, streams')
                         /\ Reclaim(removed, streams')
                         /\ Messages(streams') \subseteq Messages(streams)
                         /\ Messages(streams) \ Messages(streams') \subseteq removed
  BY Zenon, RetainFact
<1>2. /\ UNCHANGED <<exchanges, bindings, queues, consumers, next_message_id, next_stream_id,
                     next_payload_segment_id, clock>>
      /\ UNCHANGED cursors /\ leases' = Drop(leases, Expired)
  BY Zenon DEF Retain, declared, cursors
<1>3. TablesOK' /\ CursorsOK' /\ DeclarationsClosed' /\ ClassicStreams' = ClassicStreams
  BY Zenon, <1>2 DEF QueuesInv, TypeOK, TablesOK, CursorsOK, DeclarationsClosed, ClassicStreams
<1>4. DOMAIN ss = DOMAIN streams /\ DOMAIN streams' = DOMAIN streams
  BY Zenon, <1>1 DEF SameShapes, Shorter
<1>5. StreamsOK' /\ StreamsOwned' /\ BytesExact'
  <2>1. DOMAIN streams \subseteq 1 .. next_stream_id /\ StreamsOwned
    BY Zenon DEF QueuesInv, TypeOK, StreamsOK
  <2>2. \A s \in DOMAIN streams' :
          IsStream(streams'[s]) /\ streams'[s].bytes = streams'[s].next_offset - streams'[s].base_offset
    BY Zenon, <1>1, <1>4 DEF Shorter
  <2>3. StreamsOK'
    BY Zenon, <1>2, <1>4, <2>1, <2>2 DEF StreamsOK
  <2>4. StreamsOwned'
    BY Zenon, <1>2, <1>4, <2>1 DEF StreamsOwned
  <2> QED BY Zenon, <2>2, <2>3, <2>4 DEF BytesExact
<1>6. DOMAIN payloads' = Messages(streams') /\ PayloadsOK' /\ SegmentsExact'
  <2>1. CursorsOK /\ PayloadsOK /\ PayloadsExact /\ SegmentsExact
    BY Zenon DEF QueuesInv, TypeOK
  <2> QED BY Zenon, <1>1, <1>2, <2>1, ReclaimFact
<1>7. PayloadsExact'
  BY Zenon, <1>6 DEF PayloadsExact
<1>8. /\ \A t \in DOMAIN streams : \A v : UnackedIn(ss[t], v) = IF v \in Expired THEN {} ELSE UnackedIn(streams[t], v)
      /\ \A t \in DOMAIN streams : \A o \in Offsets(ss[t]) : ss[t].records[o].delivery = "Unacked" =>
            /\ o \in Offsets(streams[t]) /\ ss[t].records[o] = streams[t].records[o]
            /\ streams[t].records[o].owner \notin Expired
  <2>1. ReleasedFrom(ss, Expired)
    BY Zenon, <1>1, ReleasedOut
  <2> QED BY Zenon, <2>1 DEF ReleasedFrom
<1>9. \A t \in DOMAIN streams : \A v : UnackedIn(streams'[t], v) = UnackedIn(ss[t], v)
  BY <1>1, <1>4 DEF Shorter, UnackedIn
<1>10. DeliveriesOwned'
  <2>1. DeliveriesOwned
    BY Zenon DEF QueuesInv
  <2>2. \A t \in DOMAIN ss : \A o \in Offsets(streams'[t]) :
          o \in Offsets(ss[t]) /\ streams'[t].records[o] = ss[t].records[o]
    BY Zenon, <1>1 DEF Shorter
  <2> QED BY <1>3, <1>4, <1>8, <2>1, <2>2 DEF DeliveriesOwned
<1>11. DOMAIN leases' = DOMAIN leases \ Expired /\ \A v \in DOMAIN leases' : leases'[v] = leases[v]
  BY Zenon, <1>2 DEF Drop
<1>12. LeasesOK'
  BY Zenon, <1>11 DEF QueuesInv, TypeOK, LeasesOK
<1>13. LeasesExact'
  <2>1. LeasesExact
    BY Zenon DEF QueuesInv
  <2>2. \A t \in DOMAIN streams : \A v : UnackedIn(streams'[t], v) = IF v \in Expired THEN {} ELSE UnackedIn(streams[t], v)
    BY Zenon, <1>8, <1>9
  <2> QED BY Zenon, <1>4, <1>11, <2>1, <2>2 DEF LeasesExact
<1> QED BY <1>3, <1>5, <1>6, <1>7, <1>10, <1>12, <1>13 DEF QueuesInv, TypeOK

-----------------------------------------------------------------------------
(* The theorems.                                                           *)

(* The empty broker can be restored.                                       *)
LEMMA QueuesInit == ASSUME BrokerQueuesAssumption, Init PROVE QueuesInv
<1>1. /\ DOMAIN queues = {} /\ DOMAIN consumers = {} /\ DOMAIN streams = {} /\ DOMAIN payloads = {}
      /\ DOMAIN segments = {} /\ DOMAIN leases = {} /\ exchanges = {} /\ bindings = {}
      /\ next_message_id = 0 /\ next_stream_id = 0 /\ next_payload_segment_id = 0 /\ clock = 0
  BY Zenon DEF Init, Nothing
<1>2. TypeOK
  BY <1>1 DEF TypeOK, TablesOK, StreamsOK, PayloadsOK, LeasesOK, CursorsOK, BrokerQueuesAssumption
<1>3. StreamsOwned /\ BytesExact /\ DeliveriesOwned /\ DeclarationsClosed
  BY Zenon, <1>1 DEF StreamsOwned, BytesExact, DeliveriesOwned, DeclarationsClosed
<1>4. PayloadsExact /\ SegmentsExact /\ LeasesExact
  BY Zenon, <1>1 DEF PayloadsExact, Messages, SegmentsExact, LeasesExact
<1> QED BY Zenon, <1>2, <1>3, <1>4 DEF QueuesInv

(* Every command keeps QueuesInv.                                          *)
LEMMA QueuesStep == ASSUME BrokerQueuesAssumption, QueuesInv, Next PROVE QueuesInv'
<1>1. CASE Declare(Exchanges, Queues, Declarations, Retentions, Owners)
  <2>1. ASSUME NEW q \in Queues, NEW d \in Declarations, NEW w \in Owners, CreateQueue(q, d, w)
        PROVE  QueuesInv'
    BY Zenon, <2>1, CreateQueueKeeps
  <2>2. ASSUME NEW q, NEW u, NEW e, DeleteQueue(q, u, e) PROVE QueuesInv'
    BY Zenon, <2>2, QueueEndKeeps
  <2>3. ASSUME NEW q, PurgeQueue(q) PROVE QueuesInv'
    BY Zenon, <2>3, PurgeAndReadKeep
  <2>4. ASSUME NEW x, NEW q, NEW policy, NEW u,
               \/ x \in Exchanges /\ CreateExchange(x)
               \/ DeleteExchange(x, u) \/ BindQueue(x, q) \/ UnbindQueue(x, q)
               \/ policy \in Retentions /\ SetQueueRetention(q, policy)
        PROVE  QueuesInv'
    BY Zenon, <2>4, DeclareKeeps
  <2> QED BY Zenon, <1>1, <2>1, <2>2, <2>3, <2>4 DEF Declare
<1>2. CASE Attach(Queues, Owners) \/ Tick \/ StepBack
  <2>1. ASSUME NEW q, NEW w, NEW c,
               (w \in Owners /\ c \in Consumers /\ RegisterConsumer(q, w, c)) \/ Tick \/ StepBack
        PROVE  QueuesInv'
    BY Zenon, <2>1, RegisterAndTickKeep
  <2>2. ASSUME NEW q, NEW w, NEW c, UnregisterConsumer(q, w, c) \/ ReleaseConnection(w) PROVE QueuesInv'
    BY Zenon, <2>2, QueueEndKeeps
  <2> QED BY Zenon, <1>2, <2>1, <2>2 DEF Attach
<1>3. CASE Publish(Routes)
  <2>1. ASSUME NEW r, NEW n \in 1 .. MaxBatch, PublishUniform(r, n) PROVE QueuesInv'
    <3>1. n \in Nat \ {0}
      BY DEF BrokerQueuesAssumption
    <3>2. Publishes(r, n)
      BY Zenon, <2>1 DEF Publishes
    <3> QED BY Zenon, <3>1, <3>2, PublishKeeps
  <2>2. ASSUME NEW r1, NEW r2, PublishMixed(r1, r2) PROVE QueuesInv'
    <3>1. 2 \in Nat \ {0}
      OBVIOUS
    <3>2. ASSUME NEW n \in Nat \ {0}, n = 2 PROVE QueuesInv'
      <4>1. Publishes(r1, n)
        BY Zenon, <2>2, <3>2 DEF Publishes
      <4> QED BY Zenon, <3>2, <4>1, PublishKeeps
    <3> QED BY Zenon, <3>1, <3>2
  <2> QED BY Zenon, <1>3, <2>1, <2>2 DEF Publish
<1>4. CASE Deliver(Queues, Owners)
  <2>1. ASSUME NEW q, NEW m, NEW w \in Owners, NEW c \in Consumers, NEW a \in BOOLEAN,
               DeliverClassic(q, m, w, c, a)
        PROVE  QueuesInv'
    BY <2>1, DeliverKeeps
  <2>2. ASSUME NEW q, NEW from, NEW m, ReadStream(q, from, m) PROVE QueuesInv'
    BY Zenon, <2>2, PurgeAndReadKeep
  <2> QED BY <1>4, <2>1, <2>2 DEF Deliver
<1>5. CASE Settle(Queues, Owners)
  <2>1. PICK q \in Queues, w \in Owners, c \in Consumers, tag \in 1 .. MaxOffset, multiple \in BOOLEAN :
           Ack(q, w, c, tag, multiple) \/ Requeue(q, w, c, tag, multiple) \/ Reject(q, w, c, tag, multiple)
    BY <1>5 DEF Settle
  <2> QED BY Zenon, <2>1, SettleKeeps, RejectKeeps
<1>6. CASE Lease(Owners)
  <2>1. ASSUME NEW w \in Owners, RenewDeliveryLease(w) PROVE QueuesInv'
    BY Zenon, <2>1, RenewKeeps
  <2>2. ASSUME NEW w, ReleaseDeliveryLease(w) PROVE QueuesInv'
    BY Zenon, <2>2, ReleaseLeaseKeeps
  <2> QED BY Zenon, <1>6, <2>1, <2>2, RetainKeeps DEF Lease
<1> QED BY Zenon, <1>1, <1>2, <1>3, <1>4, <1>5, <1>6 DEF Next

(* What is persisted can always be restored: after every sequence of       *)
(* commands the tables satisfy what validate_state asks of them.  Payloads *)
(* are kept exactly while a reference needs them, every delivery that is   *)
(* out has a lease that can expire, and nothing outlives its queue.        *)
THEOREM QueuesAreRestorable == Spec => []QueuesInv
<1>1. Init => QueuesInv
  BY Zenon, BrokerQueuesAssumption, QueuesInit
<1>2. QueuesInv /\ [Next]_vars => QueuesInv'
  <2>1. CASE Next
    BY Zenon, <2>1, BrokerQueuesAssumption, QueuesStep
  <2>2. CASE UNCHANGED vars
    <3>1. UNCHANGED <<declared, stored, cursors, clock>>
      BY Zenon, <2>2 DEF vars
    <3>2. ASSUME QueuesInv PROVE QueuesInv'
      <4>1. TablesOK' /\ StreamsOwned' /\ DeclarationsClosed' /\ ClassicStreams' = ClassicStreams /\ clock' \in Nat
        <5>1. TablesOK' /\ DeclarationsClosed'
          BY Zenon, <3>1, <3>2 DEF declared, stored, QueuesInv, TypeOK, TablesOK, DeclarationsClosed
        <5>2. StreamsOwned' /\ ClassicStreams' = ClassicStreams
          BY Zenon, <3>1, <3>2 DEF declared, stored, QueuesInv, StreamsOwned, ClassicStreams
        <5>3. clock' \in Nat
          BY Zenon, <3>1, <3>2 DEF QueuesInv, TypeOK, CursorsOK
        <5> QED BY Zenon, <5>1, <5>2, <5>3
      <4> QED BY Zenon, <3>1, <3>2, <4>1, DeclaredOnly
    <3> QED BY Zenon, <3>2
  <2> QED BY Zenon, <2>1, <2>2
<1> QED BY <1>1, <1>2, PTL DEF Spec

(* Only Retain takes references from a stream that stays.                  *)
LEMMA OnlyRetainTrims ==
  ASSUME BrokerQueuesAssumption, QueuesInv, Next, ~Retain, NEW s \in DOMAIN streams \cap DOMAIN streams'
  PROVE  streams'[s].base_offset = streams[s].base_offset /\ streams'[s].next_offset >= streams[s].next_offset
<1> DEFINE Bounds == /\ streams'[s].base_offset = streams[s].base_offset
                     /\ streams'[s].next_offset >= streams[s].next_offset
<1> SUFFICES Bounds
  BY Zenon
<1>1. IsStream(streams[s]) /\ streams[s].base_offset \in Nat /\ streams[s].next_offset \in Nat
  BY Zenon DEF QueuesInv, TypeOK, StreamsOK, IsStream
<1>2. ASSUME streams'[s] = streams[s] PROVE Bounds
  BY <1>1, <1>2
<1>3. ASSUME NEW t, NEW f, streams' = RewriteRecords(streams, t, f) PROVE Bounds
  <2>1. streams'[s] = streams[s] \/ streams'[s] = [streams[s] EXCEPT !.records = f]
    BY Zenon, <1>3 DEF RewriteRecords
  <2>2. CASE streams'[s] = [streams[s] EXCEPT !.records = f]
    BY <1>1, <2>2 DEF IsStream
  <2> QED BY Zenon, <1>2, <2>1, <2>2
<1>4. CASE Declare(Exchanges, Queues, Declarations, Retentions, Owners)
  <2>1. ASSUME NEW q, NEW d, NEW w, CreateQueue(q, d, w) PROVE Bounds
    <3>1. next_stream_id + 1 # s
      BY DEF QueuesInv, TypeOK, StreamsOK, CursorsOK
    <3> QED BY Zenon, <1>2, <2>1, <3>1 DEF CreateQueue, Put
  <2>2. ASSUME NEW q, NEW u, NEW e, DeleteQueue(q, u, e) PROVE Bounds
    BY Zenon, <1>2, <2>2 DEF DeleteQueue, DropQueues, Without, Drop
  <2>3. ASSUME NEW q, PurgeQueue(q) PROVE Bounds
    BY Zenon, <1>3, <2>3 DEF PurgeQueue
  <2>4. ASSUME NEW x, NEW q, NEW p, NEW u,
               CreateExchange(x) \/ DeleteExchange(x, u) \/ BindQueue(x, q) \/ UnbindQueue(x, q) \/ SetQueueRetention(q, p)
        PROVE  Bounds
    BY Zenon, <1>2, <2>4 DEF CreateExchange, DeleteExchange, BindQueue, UnbindQueue, SetQueueRetention, stored
  <2> HIDE DEF Bounds
  <2> QED BY Zenon, <1>4, <2>1, <2>2, <2>3, <2>4 DEF Declare
<1>5. CASE Attach(Queues, Owners) \/ Tick \/ StepBack
  <2>1. ASSUME NEW q, NEW w, NEW c, RegisterConsumer(q, w, c) \/ Tick \/ StepBack PROVE Bounds
    BY Zenon, <1>2, <2>1 DEF RegisterConsumer, Tick, StepBack, stored
  <2>2. ASSUME NEW q, NEW w, NEW c, UnregisterConsumer(q, w, c) \/ ReleaseConnection(w) PROVE Bounds
    <3>1. ASSUME NEW K, NEW registered, DropQueues(K, registered) PROVE Bounds
      BY Zenon, <1>2, <3>1 DEF DropQueues, Without, Drop
    <3> HIDE DEF Bounds
    <3> QED BY Zenon, <2>2, <3>1 DEF UnregisterConsumer, ReleaseConnection, Unregister
  <2> HIDE DEF Bounds
  <2> QED BY Zenon, <1>5, <2>1, <2>2 DEF Attach
<1>6. CASE Publish(Routes)
  <2>1. ASSUME NEW r, NEW n \in Nat \ {0}, Publishes(r, n) PROVE Bounds
    BY Zenon, <2>1, PublishFact DEF Longer
  <2>2. ASSUME NEW n \in 1 .. MaxBatch PROVE n \in Nat \ {0}
    BY DEF BrokerQueuesAssumption
  <2>3. ASSUME NEW n \in Nat \ {0}, n = 2, NEW r1, NEW r2, PublishMixed(r1, r2) PROVE Bounds
    <3>1. Publishes(r1, n)
      BY Zenon, <2>3 DEF Publishes
    <3> QED BY Zenon, <2>1, <3>1
  <2>4. 2 \in Nat \ {0}
    OBVIOUS
  <2>5. ASSUME NEW n \in 1 .. MaxBatch, NEW r, PublishUniform(r, n) PROVE Bounds
    <3>1. Publishes(r, n) /\ n \in Nat \ {0}
      BY Zenon, <2>2, <2>5 DEF Publishes
    <3> QED BY Zenon, <2>1, <3>1
  <2> HIDE DEF Bounds
  <2> QED BY Zenon, <1>6, <2>3, <2>4, <2>5 DEF Publish
<1>7. CASE Deliver(Queues, Owners)
  <2>1. ASSUME NEW q, NEW m, NEW w, NEW c, NEW a, DeliverClassic(q, m, w, c, a) PROVE Bounds
    BY Zenon, <1>3, <2>1 DEF DeliverClassic
  <2>2. ASSUME NEW q, NEW from, NEW m, ReadStream(q, from, m) PROVE Bounds
    BY Zenon, <1>3, <2>2 DEF ReadStream
  <2> HIDE DEF Bounds
  <2> QED BY Zenon, <1>7, <2>1, <2>2 DEF Deliver
<1>8. CASE Settle(Queues, Owners)
  <2>1. ASSUME NEW q, NEW w, NEW c, NEW tag, NEW multiple, Reject(q, w, c, tag, multiple) PROVE Bounds
    BY Zenon, <2>1, RejectFact DEF SameShapes, SameShape, Longer
  <2>2. ASSUME NEW q, NEW w, NEW c, NEW tag, NEW multiple,
               Ack(q, w, c, tag, multiple) \/ Requeue(q, w, c, tag, multiple)
        PROVE  Bounds
    BY Zenon, <1>3, <2>2 DEF Ack, Requeue, SettledStreams
  <2> HIDE DEF Bounds
  <2> QED BY Zenon, <1>8, <2>1, <2>2 DEF Settle
<1>9. CASE Lease(Owners)
  <2>1. ASSUME NEW w, RenewDeliveryLease(w) PROVE Bounds
    BY Zenon, <1>2, <2>1 DEF RenewDeliveryLease
  <2>2. ASSUME NEW w, ReleaseDeliveryLease(w) PROVE Bounds
    <3>1. SameShapes(streams')
      BY Zenon, <2>2, ReleasedFact DEF ReleaseDeliveryLease
    <3> QED BY <1>1, <3>1 DEF SameShapes, SameShape
  <2> HIDE DEF Bounds
  <2> QED BY Zenon, <1>9, <2>1, <2>2 DEF Lease
<1> QED BY Zenon, <1>4, <1>5, <1>6, <1>7, <1>8, <1>9 DEF Next

(* Retention never erases a delivery that is out unless its lease expired  *)
(* in the same command, and what it erases is always the oldest.           *)
THEOREM RetentionIsSafe == Spec => RetentionKeepsDeliveries
<1> DEFINE Oldest == \A s \in DOMAIN streams \cap DOMAIN streams' :
                       \A o \in Offsets(streams[s]) \ Offsets(streams'[s]) :
                          /\ o < streams'[s].base_offset
                          /\ streams[s].records[o].delivery = "Unacked" =>
                                leases[streams[s].records[o].owner] <= clock
<1>1. ASSUME QueuesInv, Next, ~Retain PROVE Oldest
  <2>1. ASSUME NEW s \in DOMAIN streams \cap DOMAIN streams' PROVE Offsets(streams[s]) \subseteq Offsets(streams'[s])
    <3>1. streams'[s].base_offset = streams[s].base_offset /\ streams'[s].next_offset >= streams[s].next_offset
      BY Zenon, <1>1, BrokerQueuesAssumption, OnlyRetainTrims
    <3>2. /\ streams[s].base_offset \in Nat /\ streams[s].next_offset \in Nat
          /\ streams'[s].base_offset \in Nat /\ streams'[s].next_offset \in Nat
      <4>1. QueuesInv'
        BY Zenon, <1>1, BrokerQueuesAssumption, QueuesStep
      <4> QED BY Zenon, <1>1, <4>1 DEF QueuesInv, TypeOK, StreamsOK, IsStream
    <3> QED BY <3>1, <3>2 DEF Offsets
  <2> QED BY Zenon, <2>1
<1>2. ASSUME QueuesInv, Retain PROVE Oldest
  <2>1. PICK ss : ss = Released(Expired) /\ SameShapes(ss) /\ Shorter(ss, streams')
    BY Zenon, <1>2, RetainFact
  <2>2. ASSUME NEW s \in DOMAIN streams, NEW o \in Offsets(streams[s]), o \notin Offsets(streams'[s])
        PROVE  /\ o < streams'[s].base_offset
               /\ streams[s].records[o].delivery = "Unacked" => leases[streams[s].records[o].owner] <= clock
    <3>1. s \in DOMAIN ss /\ o \in Offsets(ss[s])
      BY Zenon, <2>1, <2>2 DEF SameShapes, SameShape
    <3>2. o < streams'[s].base_offset /\ ss[s].records[o].delivery # "Unacked"
      BY <2>1, <2>2, <3>1 DEF Shorter
    <3>3. ASSUME streams[s].records[o].delivery = "Unacked" PROVE streams[s].records[o].owner \in Expired
      <4>1. \/ ss[s].records[o] = streams[s].records[o]
            \/ streams[s].records[o].delivery = "Unacked" /\ streams[s].records[o].owner \in Expired
        BY <1>2, <2>1, ReleasedFact
      <4> QED BY Zenon, <3>2, <3>3, <4>1
    <3> QED BY Zenon, <3>2, <3>3 DEF Expired
  <2> QED BY Zenon, <2>2
<1>3. QueuesInv /\ [Next]_vars => [Oldest]_vars
  BY Zenon, <1>1, <1>2
<1> QED BY <1>3, QueuesAreRestorable, PTL DEF Spec, RetentionKeepsDeliveries

(* Offsets are never reused, through trimming to empty and publishing      *)
(* again.                                                                  *)
THEOREM OffsetsNeverReused == Spec => OffsetsMonotone
<1> DEFINE Forward == \A s \in DOMAIN streams \cap DOMAIN streams' :
                        /\ streams'[s].base_offset >= streams[s].base_offset
                        /\ streams'[s].next_offset >= streams[s].next_offset
<1>1. ASSUME QueuesInv, Next, ~Retain PROVE Forward
  <2>1. ASSUME NEW s \in DOMAIN streams \cap DOMAIN streams'
        PROVE  /\ streams'[s].base_offset = streams[s].base_offset
               /\ streams'[s].next_offset >= streams[s].next_offset /\ streams[s].base_offset \in Nat
    BY Zenon, <1>1, BrokerQueuesAssumption, OnlyRetainTrims DEF QueuesInv, TypeOK, StreamsOK, IsStream
  <2> QED BY <2>1
<1>2. ASSUME QueuesInv, Retain PROVE Forward
  <2>1. PICK ss : SameShapes(ss) /\ Shorter(ss, streams')
    BY Zenon, <1>2, RetainFact
  <2>2. \A s \in DOMAIN streams : streams[s].next_offset \in Nat
    BY Zenon, <1>2 DEF QueuesInv, TypeOK, StreamsOK, IsStream
  <2>3. \A s \in DOMAIN streams : ss[s].base_offset = streams[s].base_offset /\ ss[s].next_offset = streams[s].next_offset
    BY Zenon, <2>1 DEF SameShapes, SameShape
  <2>4. \A s \in DOMAIN streams :
          streams'[s].base_offset >= ss[s].base_offset /\ streams'[s].next_offset = ss[s].next_offset
    BY Zenon, <2>1 DEF Shorter, SameShapes
  <2> QED BY <2>2, <2>3, <2>4
<1>3. QueuesInv /\ [Next]_vars => [Forward]_vars
  BY Zenon, <1>1, <1>2
<1> QED BY <1>3, QueuesAreRestorable, PTL DEF Spec, OffsetsMonotone

-----------------------------------------------------------------------------
(* What a command may make of a reference.                                 *)

\* A ready reference is marked redelivered exactly if it was handed out, and one
\* that is out was handed out.
Honest(ref) ==
    /\ ref.delivery = "Ready" => (ref.redelivered <=> ref.handouts # 0)
    /\ ref.delivery = "Unacked" => ref.handouts # 0

\* The reference `old` of stream s may become `new`.
Moves(s, old, new) ==
    /\ new.message = old.message
    /\ old.delivery \in Final => new.delivery = old.delivery
    /\ old.delivery = new.delivery => old.owner = new.owner /\ old.consumer = new.consumer
    /\ s \in ClassicStreams => /\ old.delivery \in Final => new.handouts = old.handouts
                               /\ Honest(old) => Honest(new)

\* The streams may become `new`.
ReferencesMove(new) ==
    /\ \A s \in DOMAIN streams \cap DOMAIN new :
          /\ \A o \in Offsets(streams[s]) \cap Offsets(new[s]) : Moves(s, streams[s].records[o], new[s].records[o])
          /\ \A o \in Offsets(new[s]) \ Offsets(streams[s]) : Honest(new[s].records[o])
    /\ \A s \in DOMAIN new \ DOMAIN streams : Offsets(new[s]) = {}

(* A reference may stay, be settled once, come back when it is out, and be *)
(* handed out when it is ready; a stream queue is read whatever its state. *)
LEMMA MoveFact ==
  ASSUME NEW s, NEW ref \in Reference
  PROVE  /\ Moves(s, ref, ref)
         /\ ref.delivery = "Unacked" =>
               \A outcome \in {"Ready", "Acknowledged", "DeadLettered"} : Moves(s, ref, AfterSettling(ref, outcome))
         /\ ref.delivery = "Unacked" => Moves(s, ref, Requeued(ref))
         /\ ref.delivery \notin Final => \A outcome \in Final : Moves(s, ref, Settled(ref, outcome))
         /\ ref.delivery = "Ready" =>
               \A d \in {"Acknowledged", "Unacked"} : \A w, c :
                  Moves(s, ref, [ref EXCEPT !.delivery = d, !.owner = w, !.consumer = c, !.handouts = @ + 1])
         /\ s \notin ClassicStreams => Moves(s, ref, [ref EXCEPT !.handouts = @ + 1])
<1>1. ASSUME ref.delivery = "Unacked" PROVE Moves(s, ref, Requeued(ref))
  BY Zenon, <1>1 DEF Moves, Honest, Requeued, Settled, Reference, Final
<1>2. ASSUME ref.delivery \notin Final, NEW outcome \in Final PROVE Moves(s, ref, Settled(ref, outcome))
  BY Zenon, <1>2 DEF Moves, Honest, Settled, Reference, Final
<1>3. ASSUME ref.delivery = "Ready", NEW d \in {"Acknowledged", "Unacked"}, NEW w, NEW c
      PROVE  Moves(s, ref, [ref EXCEPT !.delivery = d, !.owner = w, !.consumer = c, !.handouts = @ + 1])
  BY Zenon, <1>3, HandoutFact DEF Moves, Honest, Reference, Final
<1>4. ASSUME s \notin ClassicStreams PROVE Moves(s, ref, [ref EXCEPT !.handouts = @ + 1])
  BY Zenon, <1>4 DEF Moves, Reference
<1>5. Moves(s, ref, ref)
  BY Zenon DEF Moves
<1>6. ASSUME ref.delivery = "Unacked", NEW outcome \in {"Ready", "Acknowledged", "DeadLettered"}
      PROVE  Moves(s, ref, AfterSettling(ref, outcome))
  BY Zenon, <1>1, <1>2, <1>6 DEF AfterSettling, Final
<1> QED BY Zenon, <1>1, <1>2, <1>3, <1>4, <1>5, <1>6

(* A delivery that is out may be settled.                                  *)
LEMMA SettlingMoves ==
  ASSUME NEW s, NEW ref \in Reference, ref.delivery = "Unacked",
         NEW outcome \in {"Ready", "Acknowledged", "DeadLettered"}
  PROVE  Moves(s, ref, AfterSettling(ref, outcome))
BY Zenon, MoveFact

(* The references of a stream.                                             *)
LEMMA StreamReferences ==
  ASSUME QueuesInv, NEW s \in DOMAIN streams
  PROVE  /\ DOMAIN streams[s].records = Offsets(streams[s])
         /\ \A o \in Offsets(streams[s]) : streams[s].records[o] \in Reference
BY Zenon DEF QueuesInv, TypeOK, StreamsOK, IsStream

(* References that stay where they are may move to themselves.             *)
LEMMA SameMoves ==
  ASSUME QueuesInv, DOMAIN streams' \subseteq DOMAIN streams,
         \A s \in DOMAIN streams' : streams'[s] = streams[s]
  PROVE  ReferencesMove(streams')
BY Zenon, StreamReferences, MoveFact DEF ReferencesMove

(* Rewriting the references of a stream.                                   *)
LEMMA RecordsRewritten ==
  ASSUME NEW st, IsStream(st), NEW f, NEW new, new = [st EXCEPT !.records = f]
  PROVE  Offsets(new) = Offsets(st) /\ new.records = f
<1>1. new = [base_offset |-> st.base_offset, next_offset |-> st.next_offset,
             bytes |-> st.bytes, records |-> f]
  BY Zenon DEF IsStream
<1> QED BY Zenon, <1>1 DEF Offsets

(* Rewriting one stream.                                                   *)
LEMMA RewriteMoves ==
  ASSUME QueuesInv, NEW s \in DOMAIN streams, NEW f, streams' = RewriteRecords(streams, s, f),
         \A o \in Offsets(streams[s]) : Moves(s, streams[s].records[o], f[o])
  PROVE  ReferencesMove(streams')
<1>1. /\ DOMAIN streams' = DOMAIN streams /\ \A t \in DOMAIN streams : t # s => streams'[t] = streams[t]
      /\ streams'[s] = [streams[s] EXCEPT !.records = f]
  BY Zenon DEF RewriteRecords
<1>2. Offsets(streams'[s]) = Offsets(streams[s]) /\ streams'[s].records = f
  <2>1. IsStream(streams[s])
    BY Zenon DEF QueuesInv, TypeOK, StreamsOK
  <2> QED BY <1>1, <2>1, RecordsRewritten
<1>3. ASSUME NEW t \in DOMAIN streams, NEW o \in Offsets(streams[t])
      PROVE  o \in Offsets(streams'[t]) => Moves(t, streams[t].records[o], streams'[t].records[o])
  <2>1. CASE t = s
    BY Zenon, <1>2, <2>1
  <2>2. CASE t # s
    BY Zenon, <1>1, <2>2, StreamReferences, MoveFact
  <2> QED BY Zenon, <2>1, <2>2
<1>4. \A t \in DOMAIN streams : Offsets(streams'[t]) = Offsets(streams[t])
  BY Zenon, <1>1, <1>2
<1> QED BY Zenon, <1>1, <1>3, <1>4 DEF ReferencesMove

(* Appending to streams whose references have moved in place.              *)
LEMMA LongerMoves ==
  ASSUME NEW ss, ReferencesMove(ss), SameShapes(ss), Longer(ss, streams')
  PROVE  ReferencesMove(streams')
<1>1. /\ DOMAIN streams' = DOMAIN streams /\ DOMAIN ss = DOMAIN streams
      /\ \A s \in DOMAIN streams : Offsets(ss[s]) = Offsets(streams[s])
  BY Zenon DEF SameShapes, SameShape, Longer
<1>2. ASSUME NEW s \in DOMAIN streams, NEW o \in Offsets(streams[s])
      PROVE  Moves(s, streams[s].records[o], streams'[s].records[o])
  <2>1. o \in Offsets(ss[s]) /\ s \in DOMAIN ss
    BY Zenon, <1>1
  <2>2. Moves(s, streams[s].records[o], ss[s].records[o])
    BY Zenon, <2>1 DEF ReferencesMove
  <2>3. streams'[s].records[o] = ss[s].records[o]
    BY Zenon, <2>1 DEF Longer
  <2> QED BY Zenon, <2>2, <2>3
<1>3. ASSUME NEW s \in DOMAIN streams, NEW o \in Offsets(streams'[s]) \ Offsets(streams[s])
      PROVE  Honest(streams'[s].records[o])
  <2>1. s \in DOMAIN ss /\ o \in Offsets(streams'[s]) \ Offsets(ss[s])
    BY Zenon, <1>1
  <2>2. Fresh(streams'[s].records[o])
    BY Zenon, <2>1 DEF Longer
  <2> QED BY Zenon, <2>2 DEF Fresh, Honest
<1> QED BY Zenon, <1>1, <1>2, <1>3 DEF ReferencesMove

(* release_delivery_lease requeues.                                        *)
LEMMA ReleasedMoves ==
  ASSUME QueuesInv, NEW W, NEW ss, ss = Released(W)
  PROVE  SameShapes(ss) /\ ReferencesMove(ss)
<1>1. /\ SameShapes(ss)
      /\ \A s \in DOMAIN streams : \A o \in Offsets(streams[s]) :
            \/ ss[s].records[o] = streams[s].records[o]
            \/ ss[s].records[o] = Requeued(streams[s].records[o]) /\ streams[s].records[o].delivery = "Unacked"
  <2>1. /\ SameShapes(ss)
        /\ \A t \in DOMAIN streams : \A o \in Offsets(streams[t]) :
              \/ ss[t].records[o] = streams[t].records[o]
                 /\ ~(streams[t].records[o].delivery = "Unacked" /\ streams[t].records[o].owner \in W)
              \/ ss[t].records[o] = Requeued(streams[t].records[o]) /\ ss[t].records[o].delivery = "Ready"
                 /\ streams[t].records[o].delivery = "Unacked" /\ streams[t].records[o].owner \in W
    BY ReleasedFact
  <2> QED BY Zenon, <2>1
<1>2. ASSUME NEW s \in DOMAIN streams, NEW o \in Offsets(streams[s])
      PROVE  Moves(s, streams[s].records[o], ss[s].records[o])
  <2>1. streams[s].records[o] \in Reference
    BY Zenon, StreamReferences
  <2>2. CASE ss[s].records[o] = streams[s].records[o]
    BY Zenon, <2>1, <2>2, MoveFact
  <2>3. CASE ss[s].records[o] = Requeued(streams[s].records[o]) /\ streams[s].records[o].delivery = "Unacked"
    BY Zenon, <2>1, <2>3, MoveFact
  <2> QED BY Zenon, <1>1, <2>2, <2>3
<1> QED BY Zenon, <1>1, <1>2 DEF ReferencesMove, SameShapes, SameShape

(* Every command moves the references it touches, and only those.          *)
LEMMA CommandsMove ==
  ASSUME BrokerQueuesAssumption, QueuesInv, Next PROVE ReferencesMove(streams')
<1> DEFINE Move == ReferencesMove(streams')
<1> SUFFICES Move
  BY Zenon
<1>1. ASSUME streams' = streams PROVE Move
  BY Zenon, <1>1, SameMoves
<1>2. ASSUME NEW gone, streams' = Drop(streams, gone) PROVE Move
  BY Zenon, <1>2, SameMoves DEF Drop
<1>3. ASSUME NEW q \in DOMAIN queues, NEW f, streams' = RewriteRecords(streams, queues[q].stream, f),
             \A o \in Offsets(streams[queues[q].stream]) :
                Moves(queues[q].stream, streams[queues[q].stream].records[o], f[o])
      PROVE  Move
  <2>1. queues[q].stream \in DOMAIN streams
    BY Zenon DEF QueuesInv, StreamsOwned
  <2> QED BY Zenon, <1>3, <2>1, RewriteMoves
<1>4. ASSUME NEW q \in DOMAIN queues
      PROVE  /\ DOMAIN streams[queues[q].stream].records = Offsets(streams[queues[q].stream])
             /\ \A o \in Offsets(streams[queues[q].stream]) : streams[queues[q].stream].records[o] \in Reference
  BY Zenon, StreamReferences DEF QueuesInv, StreamsOwned
<1>5. CASE Declare(Exchanges, Queues, Declarations, Retentions, Owners)
  <2>1. ASSUME NEW q, NEW d, NEW w, CreateQueue(q, d, w) PROVE Move
    <3>1. /\ DOMAIN streams' = DOMAIN streams \cup {next_stream_id + 1} /\ next_stream_id + 1 \notin DOMAIN streams
          /\ streams'[next_stream_id + 1] = EmptyStream /\ \A s \in DOMAIN streams : streams'[s] = streams[s]
      <4>1. next_stream_id + 1 \notin DOMAIN streams
        BY DEF QueuesInv, TypeOK, StreamsOK, CursorsOK
      <4> QED BY Zenon, <2>1, <4>1 DEF CreateQueue, Put
    <3>2. Offsets(EmptyStream) = {}
      BY DEF Offsets, EmptyStream
    <3> QED BY Zenon, <3>1, <3>2, StreamReferences, MoveFact DEF ReferencesMove
  <2>2. ASSUME NEW q, NEW u, NEW e, DeleteQueue(q, u, e) PROVE Move
    BY Zenon, <1>2, <2>2 DEF DeleteQueue, DropQueues, Without
  <2>3. ASSUME NEW q, PurgeQueue(q) PROVE Move
    <3> DEFINE recs == streams[queues[q].stream].records
               f == [o \in DOMAIN recs |-> IF recs[o].delivery = "Ready" THEN Settled(recs[o], "Acknowledged") ELSE recs[o]]
    <3>1. q \in DOMAIN queues /\ streams' = RewriteRecords(streams, queues[q].stream, f)
      BY Zenon, <2>3 DEF PurgeQueue
    <3>2. ASSUME NEW o \in Offsets(streams[queues[q].stream]) PROVE Moves(queues[q].stream, recs[o], f[o])
      BY Zenon, <1>4, <3>1, MoveFact DEF Final
    <3> HIDE DEF f
    <3> QED BY Zenon, <1>3, <3>1, <3>2
  <2>4. ASSUME NEW x, NEW q, NEW p, NEW u,
               CreateExchange(x) \/ DeleteExchange(x, u) \/ BindQueue(x, q) \/ UnbindQueue(x, q) \/ SetQueueRetention(q, p)
        PROVE  Move
    BY Zenon, <1>1, <2>4 DEF CreateExchange, DeleteExchange, BindQueue, UnbindQueue, SetQueueRetention, stored
  <2> HIDE DEF Move
  <2> QED BY Zenon, <1>5, <2>1, <2>2, <2>3, <2>4 DEF Declare
<1>6. CASE Attach(Queues, Owners) \/ Tick \/ StepBack
  <2>1. ASSUME NEW q, NEW w, NEW c, RegisterConsumer(q, w, c) \/ Tick \/ StepBack PROVE Move
    BY Zenon, <1>1, <2>1 DEF RegisterConsumer, Tick, StepBack, stored
  <2>2. ASSUME NEW q, NEW w, NEW c, UnregisterConsumer(q, w, c) \/ ReleaseConnection(w) PROVE Move
    BY Zenon, <1>2, <2>2 DEF UnregisterConsumer, ReleaseConnection, Unregister, DropQueues, Without
  <2> HIDE DEF Move
  <2> QED BY Zenon, <1>6, <2>1, <2>2 DEF Attach
<1>7. CASE Publish(Routes)
  <2>1. ASSUME NEW r, NEW n \in Nat \ {0}, Publishes(r, n) PROVE Move
    <3>1. Longer(streams, streams')
      BY Zenon, <2>1, PublishFact
    <3>2. SameShapes(streams) /\ ReferencesMove(streams)
      <4>1. \A s \in DOMAIN streams : \A o \in Offsets(streams[s]) : Moves(s, streams[s].records[o], streams[s].records[o])
        BY Zenon, StreamReferences, MoveFact
      <4> QED BY Zenon, <4>1 DEF ReferencesMove, SameShapes, SameShape, QueuesInv, TypeOK, StreamsOK
    <3> QED BY Zenon, <3>1, <3>2, LongerMoves
  <2>2. ASSUME NEW n \in 1 .. MaxBatch PROVE n \in Nat \ {0}
    BY DEF BrokerQueuesAssumption
  <2>3. ASSUME NEW n \in Nat \ {0}, n = 2, NEW r1, NEW r2, PublishMixed(r1, r2) PROVE Move
    <3>1. Publishes(r1, n)
      BY Zenon, <2>3 DEF Publishes
    <3> QED BY Zenon, <2>1, <3>1
  <2>4. 2 \in Nat \ {0}
    OBVIOUS
  <2>5. ASSUME NEW n \in 1 .. MaxBatch, NEW r, PublishUniform(r, n) PROVE Move
    <3>1. Publishes(r, n) /\ n \in Nat \ {0}
      BY Zenon, <2>2, <2>5 DEF Publishes
    <3> QED BY Zenon, <2>1, <3>1
  <2> HIDE DEF Move
  <2> QED BY Zenon, <1>7, <2>3, <2>4, <2>5 DEF Publish
<1>8. CASE Deliver(Queues, Owners)
  <2>1. ASSUME NEW q, NEW m, NEW w, NEW c, NEW a, DeliverClassic(q, m, w, c, a) PROVE Move
    <3> DEFINE st == streams[queues[q].stream]
               handed(ref) == [ref EXCEPT !.delivery = IF a THEN "Acknowledged" ELSE "Unacked",
                                          !.owner = IF a THEN NIL ELSE w,
                                          !.consumer = IF a THEN NIL ELSE c,
                                          !.handouts = @ + 1]
               f == [o \in DOMAIN st.records |-> IF o \in FirstReady(st, m) THEN handed(st.records[o]) ELSE st.records[o]]
    <3>1. q \in DOMAIN queues /\ streams' = RewriteRecords(streams, queues[q].stream, f)
      BY Zenon, <2>1 DEF DeliverClassic
    <3>2. ASSUME NEW o \in FirstReady(st, m) PROVE o \in Offsets(st) /\ Moves(queues[q].stream, st.records[o], handed(st.records[o]))
      <4>1. o \in Offsets(st) /\ st.records[o].delivery = "Ready"
        BY Zenon DEF FirstReady, ReadyIn
      <4>2. PICK d \in {"Acknowledged", "Unacked"} : d = IF a THEN "Acknowledged" ELSE "Unacked"
        BY Zenon
      <4> QED BY Zenon, <1>4, <3>1, <4>1, <4>2, MoveFact
    <3>3. ASSUME NEW o \in Offsets(st) PROVE Moves(queues[q].stream, st.records[o], f[o])
      <4> HIDE DEF handed
      <4> QED BY Zenon, <1>4, <3>1, <3>2, MoveFact
    <3> HIDE DEF f
    <3> QED BY Zenon, <1>3, <3>1, <3>3
  <2>2. ASSUME NEW q, NEW from, NEW m, ReadStream(q, from, m) PROVE Move
    <3> DEFINE st == streams[queues[q].stream]
               f == [o \in DOMAIN st.records |-> IF o \in from .. from + m - 1
                                                   THEN [st.records[o] EXCEPT !.handouts = @ + 1] ELSE st.records[o]]
    <3>1. q \in DOMAIN queues /\ queues[q].kind = "Stream" /\ streams' = RewriteRecords(streams, queues[q].stream, f)
      BY Zenon, <2>2 DEF ReadStream
    <3>2. queues[q].stream \notin ClassicStreams
      BY Zenon, <3>1 DEF QueuesInv, StreamsOwned, ClassicStreams
    <3>3. ASSUME NEW o \in Offsets(st) PROVE Moves(queues[q].stream, st.records[o], f[o])
      BY Zenon, <1>4, <3>1, <3>2, MoveFact
    <3> HIDE DEF f
    <3> QED BY Zenon, <1>3, <3>1, <3>3
  <2> HIDE DEF Move
  <2> QED BY Zenon, <1>8, <2>1, <2>2 DEF Deliver
<1>9. CASE Settle(Queues, Owners)
  <2>1. ASSUME NEW q, NEW w, NEW c, NEW tag, NEW multiple, Reject(q, w, c, tag, multiple) PROVE Move
    <3>1. PICK ss : /\ SameShapes(ss) /\ Longer(ss, streams')
                    /\ \A s \in DOMAIN streams : \A o \in Offsets(streams[s]) :
                          \/ ss[s].records[o] = streams[s].records[o]
                          \/ /\ streams[s].records[o].delivery = "Unacked"
                             /\ ss[s].records[o] = AfterSettling(streams[s].records[o], "DeadLettered")
      BY Zenon, <2>1, RejectFact
    <3>2. ASSUME NEW s \in DOMAIN streams, NEW o \in Offsets(streams[s])
          PROVE  Moves(s, streams[s].records[o], ss[s].records[o])
      <4>1. streams[s].records[o] \in Reference
        BY Zenon, StreamReferences
      <4>2. CASE ss[s].records[o] = streams[s].records[o]
        BY Zenon, <4>1, <4>2, MoveFact
      <4>3. CASE /\ streams[s].records[o].delivery = "Unacked"
                 /\ ss[s].records[o] = AfterSettling(streams[s].records[o], "DeadLettered")
        <5>1. Moves(s, streams[s].records[o], AfterSettling(streams[s].records[o], "DeadLettered"))
          BY Zenon, <4>1, <4>3, SettlingMoves
        <5> QED BY Zenon, <4>3, <5>1
      <4> QED BY Zenon, <3>1, <4>2, <4>3
    <3>3. ReferencesMove(ss)
      BY Zenon, <3>1, <3>2 DEF ReferencesMove, SameShapes, SameShape
    <3> QED BY Zenon, <3>1, <3>3, LongerMoves
  <2>2. ASSUME NEW q \in DOMAIN queues, NEW w, NEW c, NEW tag, NEW multiple,
               NEW outcome \in {"Ready", "Acknowledged", "DeadLettered"},
               streams' = SettledStreams(queues[q].stream, Named(streams[queues[q].stream], w, c, tag, multiple), outcome)
        PROVE  Move
    <3> DEFINE st == streams[queues[q].stream]
               chosen == Named(st, w, c, tag, multiple)
               f == [o \in DOMAIN st.records |-> IF o \in chosen THEN AfterSettling(st.records[o], outcome) ELSE st.records[o]]
    <3>1. streams' = RewriteRecords(streams, queues[q].stream, f)
      BY Zenon, <2>2 DEF SettledStreams
    <3>2. \A o \in chosen : st.records[o].delivery = "Unacked"
      BY Zenon DEF Named, UnackedIn
    <3> HIDE DEF chosen
    <3>3. ASSUME NEW o \in Offsets(st) PROVE Moves(queues[q].stream, st.records[o], f[o])
      BY Zenon, <1>4, <2>2, <3>2, MoveFact
    <3> HIDE DEF f
    <3> QED BY Zenon, <1>3, <3>1, <3>3
  <2>3. ASSUME NEW q, NEW w, NEW c, NEW tag, NEW multiple, Ack(q, w, c, tag, multiple) PROVE Move
    BY Zenon, <2>2, <2>3 DEF Ack
  <2>4. ASSUME NEW q, NEW w, NEW c, NEW tag, NEW multiple, Requeue(q, w, c, tag, multiple) PROVE Move
    BY Zenon, <2>2, <2>4 DEF Requeue
  <2> HIDE DEF Move
  <2> QED BY Zenon, <1>9, <2>1, <2>3, <2>4 DEF Settle
<1>10. CASE Lease(Owners)
  <2>1. ASSUME NEW w, RenewDeliveryLease(w) PROVE Move
    BY Zenon, <1>1, <2>1 DEF RenewDeliveryLease
  <2>2. ASSUME NEW w, ReleaseDeliveryLease(w) PROVE Move
    BY Zenon, <2>2, ReleasedMoves DEF ReleaseDeliveryLease
  <2>3. ASSUME Retain PROVE Move
    <3>1. PICK ss : ss = Released(Expired) /\ Shorter(ss, streams')
      BY Zenon, <2>3, RetainFact
    <3>2. SameShapes(ss) /\ ReferencesMove(ss)
      BY Zenon, <3>1, ReleasedMoves
    <3>3. /\ DOMAIN streams' = DOMAIN streams /\ DOMAIN ss = DOMAIN streams
          /\ \A s \in DOMAIN streams : Offsets(ss[s]) = Offsets(streams[s])
      BY Zenon, <3>1, <3>2 DEF SameShapes, SameShape, Shorter
    <3>4. ASSUME NEW s \in DOMAIN streams, NEW o \in Offsets(streams'[s])
          PROVE  o \in Offsets(streams[s]) /\ Moves(s, streams[s].records[o], streams'[s].records[o])
      <4>1. o \in Offsets(ss[s]) /\ streams'[s].records[o] = ss[s].records[o]
        BY Zenon, <3>1, <3>3 DEF Shorter
      <4> QED BY Zenon, <3>2, <3>3, <4>1 DEF ReferencesMove
    <3> QED BY Zenon, <3>3, <3>4 DEF ReferencesMove
  <2> HIDE DEF Move
  <2> QED BY Zenon, <1>10, <2>1, <2>2, <2>3 DEF Lease
<1> QED BY Zenon, <1>5, <1>6, <1>7, <1>8, <1>9, <1>10 DEF Next

(* A stream never changes its kind.                                        *)
LEMMA KindsStay ==
  ASSUME QueuesInv, Next PROVE ClassicStreams' \cap DOMAIN streams \subseteq ClassicStreams
<1> DEFINE Same == ClassicStreams' \cap DOMAIN streams \subseteq ClassicStreams
<1> SUFFICES Same
  BY Zenon
<1>1. ASSUME queues' = queues PROVE Same
  BY Zenon, <1>1 DEF ClassicStreams
<1>2. ASSUME NEW K, NEW registered, DropQueues(K, registered) PROVE Same
  BY Zenon, <1>2 DEF DropQueues, Drop, ClassicStreams
<1>3. ASSUME NEW q, NEW d, NEW w, CreateQueue(q, d, w) PROVE Same
  <2>1. next_stream_id + 1 \notin DOMAIN streams
    BY DEF QueuesInv, TypeOK, StreamsOK, CursorsOK
  <2>2. /\ DOMAIN queues' = DOMAIN queues \cup {q} /\ queues'[q].stream = next_stream_id + 1
        /\ \A p \in DOMAIN queues : queues'[p] = queues[p]
    BY Zenon, <1>3 DEF CreateQueue, Put
  <2> QED BY Zenon, <2>1, <2>2 DEF ClassicStreams
<1>4. ASSUME NEW q, NEW p, SetQueueRetention(q, p) PROVE Same
  <2>1. /\ DOMAIN queues' = DOMAIN queues
        /\ \A r \in DOMAIN queues : queues'[r].kind = queues[r].kind /\ queues'[r].stream = queues[r].stream
    BY Zenon, <1>4 DEF SetQueueRetention, QueuesInv, TypeOK, TablesOK, QueueRecord
  <2> QED BY Zenon, <2>1 DEF ClassicStreams
<1> HIDE DEF Same
<1>5. CASE Declare(Exchanges, Queues, Declarations, Retentions, Owners)
  <2>1. ASSUME NEW x, NEW q, NEW u, NEW e,
               \/ CreateExchange(x) \/ DeleteExchange(x, u) \/ BindQueue(x, q) \/ UnbindQueue(x, q)
               \/ PurgeQueue(q) \/ DeleteQueue(q, u, e)
        PROVE  Same
    BY Zenon, <1>1, <1>2, <2>1 DEF CreateExchange, DeleteExchange, BindQueue, UnbindQueue, PurgeQueue, DeleteQueue, declared
  <2> QED BY Zenon, <1>3, <1>4, <1>5, <2>1 DEF Declare
<1>6. CASE Attach(Queues, Owners)
  <2>1. ASSUME NEW kept, NEW also, Unregister(kept, also) PROVE Same
    BY Zenon, <1>2, <2>1 DEF Unregister
  <2>2. ASSUME NEW q, NEW w, NEW c, RegisterConsumer(q, w, c) \/ UnregisterConsumer(q, w, c) \/ ReleaseConnection(w)
        PROVE  Same
    <3>1. CASE RegisterConsumer(q, w, c)
      BY Zenon, <1>1, <3>1 DEF RegisterConsumer
    <3>2. CASE UnregisterConsumer(q, w, c)
      BY Zenon, <2>1, <3>2 DEF UnregisterConsumer
    <3>3. CASE ReleaseConnection(w)
      BY Zenon, <2>1, <3>3 DEF ReleaseConnection
    <3> QED BY Zenon, <2>2, <3>1, <3>2, <3>3
  <2> QED BY Zenon, <1>6, <2>2 DEF Attach
<1>7. CASE Publish(Routes) \/ Tick \/ StepBack
  BY Zenon, <1>1, <1>7 DEF Publish, PublishUniform, PublishMixed, Tick, StepBack, declared
<1>8. CASE Deliver(Queues, Owners) \/ Settle(Queues, Owners)
  <2>1. ASSUME NEW q, NEW m, NEW w, NEW c, NEW a,
               DeliverClassic(q, m, w, c, a) \/ ReadStream(q, m, a)
        PROVE  Same
    BY Zenon, <1>1, <2>1 DEF DeliverClassic, ReadStream, declared
  <2>2. ASSUME NEW q, NEW w, NEW c, NEW tag, NEW multiple,
               Ack(q, w, c, tag, multiple) \/ Requeue(q, w, c, tag, multiple) \/ Reject(q, w, c, tag, multiple)
        PROVE  Same
    BY Zenon, <1>1, <2>2 DEF Ack, Requeue, Reject, declared
  <2> QED BY Zenon, <1>8, <2>1, <2>2 DEF Deliver, Settle
<1>9. CASE Lease(Owners)
  BY Zenon, <1>1, <1>9 DEF Lease, RenewDeliveryLease, ReleaseDeliveryLease, Retain, declared
<1> QED BY Zenon, <1>3, <1>5, <1>6, <1>7, <1>8, <1>9 DEF Next

(* No command requeues or rewrites a settled reference, moves the message  *)
(* of an offset, or passes a delivery from one owner to another.           *)
THEOREM ReferencesAreStable == Spec => ReferencesStable
<1> DEFINE Stable == \A s \in DOMAIN streams \cap DOMAIN streams' :
                       \A o \in Offsets(streams[s]) \cap Offsets(streams'[s]) :
                          LET old == streams[s].records[o]
                              new == streams'[s].records[o]
                          IN  /\ new.message = old.message
                              /\ old.delivery \in Final => new.delivery = old.delivery
                              /\ old.delivery = new.delivery => old.owner = new.owner /\ old.consumer = new.consumer
<1>1. ASSUME QueuesInv, Next PROVE Stable
  <2>1. ReferencesMove(streams')
    BY Zenon, <1>1, BrokerQueuesAssumption, CommandsMove
  <2> QED BY Zenon, <2>1 DEF ReferencesMove, Moves
<1>2. QueuesInv /\ [Next]_vars => [Stable]_vars
  BY Zenon, <1>1
<1> QED BY <1>2, QueuesAreRestorable, PTL DEF Spec, ReferencesStable

(* What is acknowledged, dead-lettered or purged is handed to no consumer  *)
(* of a classic queue again.                                               *)
THEOREM SettledIsNotDelivered == Spec => SettledNotDelivered
<1> DEFINE Silent == \A s \in ClassicStreams \cap DOMAIN streams' :
                       \A o \in Offsets(streams[s]) \cap Offsets(streams'[s]) :
                          streams[s].records[o].delivery \in Final =>
                             streams'[s].records[o].handouts = streams[s].records[o].handouts
<1>1. ASSUME QueuesInv, Next PROVE Silent
  <2>1. ReferencesMove(streams')
    BY Zenon, <1>1, BrokerQueuesAssumption, CommandsMove
  <2>2. ClassicStreams \subseteq DOMAIN streams
    BY Zenon, <1>1 DEF QueuesInv, StreamsOwned, ClassicStreams
  <2> QED BY Zenon, <2>1, <2>2 DEF ReferencesMove, Moves
<1>2. QueuesInv /\ [Next]_vars => [Silent]_vars
  BY Zenon, <1>1
<1> QED BY <1>2, QueuesAreRestorable, PTL DEF Spec, SettledNotDelivered

\* The references of classic queues are honest, those that are out included.
HonestInv == \A s \in ClassicStreams : \A o \in Offsets(streams[s]) : Honest(streams[s].records[o])

(* A message is announced as redelivered exactly when it was handed to a   *)
(* consumer before.                                                        *)
THEOREM RedeliveryIsExact == Spec => []RedeliveredExact
<1>1. Init => HonestInv
  BY Zenon DEF Init, HonestInv, ClassicStreams, Nothing
<1>2. ASSUME QueuesInv, QueuesInv', HonestInv, Next PROVE HonestInv'
  <2>1. ReferencesMove(streams') /\ ClassicStreams' \cap DOMAIN streams \subseteq ClassicStreams
    BY Zenon, <1>2, BrokerQueuesAssumption, CommandsMove, KindsStay
  <2>2. ClassicStreams' \subseteq DOMAIN streams'
    BY Zenon, <1>2 DEF QueuesInv, StreamsOwned, ClassicStreams
  <2>3. ASSUME NEW s \in ClassicStreams', NEW o \in Offsets(streams'[s]) PROVE Honest(streams'[s].records[o])
    BY Zenon, <1>2, <2>1, <2>2 DEF ReferencesMove, Moves, HonestInv
  <2> QED BY Zenon, <2>3 DEF HonestInv, Offsets
<1>3. QueuesInv /\ QueuesInv' /\ HonestInv /\ [Next]_vars => HonestInv'
  <2>1. ASSUME HonestInv, UNCHANGED vars PROVE HonestInv'
    BY Zenon, <2>1 DEF HonestInv, ClassicStreams, vars, declared, stored
  <2> QED BY Zenon, <1>2, <2>1
<1>4. HonestInv => RedeliveredExact
  BY Zenon DEF HonestInv, RedeliveredExact, ClassicStreams, ReadyIn, Honest
<1> QED BY <1>1, <1>3, <1>4, QueuesAreRestorable, PTL DEF Spec

=============================================================================
