----------------------------- MODULE LagBalance -----------------------------
(***************************************************************************)
(* balance_partitions_by_lag of server/src/broker/engine.rs: the broker's  *)
(* assignment of partitions to the members of a consumer group.            *)
(*                                                                         *)
(* `subscriptions` maps a member to the topics it subscribes to, `lag` a   *)
(* partition <<topic, index>> to the records the group has yet to read.    *)
(* Names are numbers, in the order of the strings they stand for.          *)
(***************************************************************************)
EXTENDS Integers, FiniteSets, FiniteSetsExt, Folds

KeyBefore(p, q) == p[1] < q[1] \/ (p[1] = q[1] /\ p[2] < q[2])

\* Mutant: the lightest partitions are placed first.
LighterBefore(lag, p, q) == lag[p] < lag[q] \/ (lag[p] = lag[q] /\ KeyBefore(p, q))

\* The order of the sort.
HeavierBefore(lag, p, q) == lag[p] > lag[q] \/ (lag[p] = lag[q] /\ KeyBefore(p, q))

PlacedLast(lag, P) == CHOOSE p \in P : \A q \in P \ {p} : HeavierBefore(lag, q, p)

Subscribers(subscriptions, p) == {m \in DOMAIN subscriptions : p[1] \in subscriptions[m]}

\* The least loaded member of M, the first by name among equals.
LeastLoaded(load, M) ==
    CHOOSE m \in M : \A o \in M : load[m] < load[o] \/ (load[m] = load[o] /\ m <= o)

Place(subscriptions, lag, placed, p) ==
    LET able == Subscribers(subscriptions, p)
        m == LeastLoaded(placed.load, able)
    IN  IF able = {} THEN placed
        ELSE [load |-> [placed.load EXCEPT ![m] = @ + lag[p]],
              assignment |-> [placed.assignment EXCEPT ![m] = @ \cup {p}]]

\* The fold places what it chooses after all the others.
BalancePartitionsByLag(subscriptions, lag) ==
    LET placed == MapThenFoldSet(LAMBDA p, acc : Place(subscriptions, lag, acc, p),
                                 [load |-> [m \in DOMAIN subscriptions |-> 0],
                                  assignment |-> [m \in DOMAIN subscriptions |-> {}]],
                                 LAMBDA p : p, LAMBDA P : PlacedLast(lag, P), DOMAIN lag)
    IN  [m \in DOMAIN subscriptions |-> placed.assignment[m]]

=============================================================================
