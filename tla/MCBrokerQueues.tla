--------------------------- MODULE MCBrokerQueues ---------------------------
(* Three small settings of BrokerQueues, one per behaviour. *)
EXTENDS BrokerQueues, TLC

CONSTANTS x1, q1, q2, q3, q4, o1, o2, o3, c1

VARIABLE setting

Keep == [max_age |-> NIL, max_bytes |-> NIL]
Aging == [max_age |-> 1, max_bytes |-> NIL]
Small == [max_age |-> NIL, max_bytes |-> 1]

Plain == [kind |-> "Classic", dead_letter |-> NIL, retention |-> Keep,
          exclusive |-> FALSE, auto_delete |-> FALSE]

\* A queue that rejects to q2 and goes with its connection, one that goes with
\* its last consumer, and a stream queue.
Lifetimes == {[Plain EXCEPT !.dead_letter = q2, !.exclusive = TRUE],
              [Plain EXCEPT !.auto_delete = TRUE],
              [Plain EXCEPT !.kind = "Stream"]}

DeadLettering == {[Plain EXCEPT !.dead_letter = x1]}

MCDeclarations == {Plain} \cup DeadLettering \cup Lifetimes
MCRetentions == {Keep, Aging, Small}

\* Delivery: one queue, two owners, leases, retention and time.  Routing: fan-out,
\* dead letters and reclamation over two queues, at one time.  Lifetime: exclusive
\* and auto-delete queues, stream queues and registrations, at one time.
Settings ==
    [delivery |-> [exchanges |-> {}, queues |-> {q1}, routes |-> {q1}, declarations |-> {Plain},
                   retentions |-> MCRetentions, owners |-> {o1, o2}, registers |-> TRUE,
                   streams |-> 1, messages |-> 2, references |-> 2, handouts |-> 2, time |-> MaxTime],
     routing |-> [exchanges |-> {x1}, queues |-> {q3, q4}, routes |-> {x1}, declarations |-> DeadLettering,
                  retentions |-> {Keep}, owners |-> {o3}, registers |-> FALSE,
                  streams |-> 2, messages |-> 2, references |-> 3, handouts |-> 2, time |-> 0],
     lifetime |-> [exchanges |-> {}, queues |-> {q1, q2}, routes |-> {q1, q2}, declarations |-> Lifetimes,
                   retentions |-> {Keep}, owners |-> {o1, o2}, registers |-> TRUE,
                   streams |-> 3, messages |-> 1, references |-> 2, handouts |-> 2, time |-> 0]]

\* The references appended to the streams there are.
Appends(ss) == MapThenSumSet(LAMBDA s : ss[s].next_offset, DOMAIN ss)

\* The most often a reference has been handed out.
MostHandouts(ss) == Max({0} \cup UNION {{ss[s].records[o].handouts : o \in Offsets(ss[s])} : s \in DOMAIN ss})

\* The settings differ in what there is, and in the bounds on it.
Step(s) ==
    /\ \/ Declare(s.exchanges, s.queues, s.declarations, s.retentions, s.owners)
       \/ s.registers /\ Attach(s.queues, s.owners)
       \/ Publish(s.routes)
       \/ Deliver(s.queues, s.owners) \/ Settle(s.queues, s.owners) \/ Lease(s.owners)
       \/ Tick \/ StepBack
    /\ next_stream_id' <= s.streams /\ next_message_id' <= s.messages /\ clock' <= s.time
    /\ Appends(streams') <= s.references /\ MostHandouts(streams') <= s.handouts

MCInit == Init /\ setting \in DOMAIN Settings

MCSpec ==
    /\ MCInit
    /\ [][Step(Settings[setting]) /\ UNCHANGED setting]_<<vars, setting>>

Symmetry == Permutations({o1, o2}) \cup Permutations({q3, q4})

=============================================================================
