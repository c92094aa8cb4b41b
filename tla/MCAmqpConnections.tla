------------------------- MODULE MCAmqpConnections --------------------------
(* Three small settings of AmqpConnections.                                *)
EXTENDS AmqpConnections, TLC

CONSTANTS q1, o1, o2, o3, o4, t1, t2

VARIABLE setting

mcVars == <<allVars, setting>>

OneQueue == {[kind |-> "Classic", dead_letter |-> NIL, retention |-> [max_age |-> NIL, max_bytes |-> NIL],
              exclusive |-> FALSE, auto_delete |-> FALSE]}
NoPolicy == {}
FromFirst == {<<"First">>}
MCMaxTags == 1 :> 3 @@ 2 :> 1 @@ 3 :> 2 @@ 4 :> 1

\* Settlement: two connections of one channel settle, lose and reclaim deliveries.
\* Channels: one connection of two channels, all its methods but basic.qos, and the
\* queue deleted and declared again.  Prefetch: two consumers of one channel.
\* Time passes in the first only.
Opened ==
    [settlement |-> [w \in Owners |-> IF w = o1 THEN {1} ELSE IF w = o2 THEN {2} ELSE {}],
     channels |-> [w \in Owners |-> IF w = o3 THEN {3, 4} ELSE {}],
     prefetch |-> [w \in Owners |-> IF w = o4 THEN {1} ELSE {}]]

MCInit == \E s \in DOMAIN Opened : setting = s /\ Connected(Opened[s])

MCNext ==
    \/ CreateAny \/ PublishAny
    \/ \E w \in Owners : Step(w) \/ PumpRound(w) \/ SettleAny(w)
    \/ /\ setting = "settlement"
       /\ Maintain \/ Time \/ \E w \in {o1, o2}, ch \in Channels : Renew(w) \/ BasicConsume(w, ch, t1, q1, FALSE, <<"First">>)
    \/ setting = "channels" /\ (DeleteAny \/ Consume(o3) \/ Get(o3) \/ Cancel(o3) \/ Close(o3) \/ Disconnect(o3))
    \/ setting = "prefetch" /\ (Qos(o4) \/ PumpStarves(o4) \/ Consume(o4) \/ Get(o4) \/ Cancel(o4))

\* How many consumers a connection may have had, and how often the queue is declared.
Bounds ==
    [settlement |-> [consumers |-> 1, streams |-> 1],
     channels |-> [consumers |-> 2, streams |-> 2],
     prefetch |-> [consumers |-> 3, streams |-> 1]]

MCSpec ==
    /\ MCInit
    /\ [][/\ MCNext /\ UNCHANGED setting
          /\ next_stream_id' <= Bounds[setting].streams
          /\ \A w \in Owners : next_consumer'[w] <= Bounds[setting].consumers]_mcVars

Symmetry == Permutations({t1, t2})

=============================================================================
