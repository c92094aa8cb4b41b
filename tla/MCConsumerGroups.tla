-------------------------- MODULE MCConsumerGroups --------------------------
(* Two small settings of ConsumerGroups, and the broker's pure algorithms   *)
(* over every small input.                                                  *)
EXTENDS ConsumerGroups, TopicMatch, TLC

CONSTANTS MaxWords, MaxLag

VARIABLE setting

mcVars == <<vars, setting>>

\* A member knows both protocols, or only the second, or only the first and writes
\* its metadata in a way the broker cannot read.
Both == 1 :> {1} @@ 2 :> {1}
MCSubscriptions == {Both, 2 :> {1}, 1 :> Unreadable}
MCProposals == {{}, {<<1, 0>>}}

\* Moving: topics come and go, are written, trimmed and read, and members speak
\* different protocols and propose assignments of their own, which the broker does
\* not look into: one partition for both members, or of a topic that is gone.
\* Standing: one topic of two partitions with a record each, whose lags do not move;
\* sessions of two lengths; the assignments are the broker's.
\* Inputs: a single state, in which the algorithms are given all their inputs.
MCInit ==
    \/ setting = "moving" /\ Init
    \/ /\ setting = "standing" /\ NoGroups
       /\ topics = 1 :> [i \in 0 .. 1 |-> [base |-> 0, next |-> 1]]
    \/ setting = "inputs" /\ Init

MembersOf(gs) == UNION {{gs[g].members[m] : m \in DOMAIN gs[g].members} : g \in DOMAIN gs}

MovingNext ==
    /\ setting = "moving"
    /\ Next
    /\ \A member \in MembersOf(groups') : member.last_heartbeat + member.session_timeout <= 1
    /\ clock' <= 1

StandingNext ==
    /\ setting = "standing"
    /\ Membership \/ (Retain /\ UNCHANGED topics) \/ Tick
    /\ \A member \in MembersOf(groups') : member.protocols = Both
    /\ \A c \in DOMAIN clients' : clients'[c].proposal = Nothing

InputsNext == setting = "inputs" /\ UNCHANGED vars

MCSpec == MCInit /\ [][(MovingNext \/ StandingNext \/ InputsNext) /\ UNCHANGED setting]_mcVars

\* "Every partition must be assigned exactly once" (test of
\* balance_partitions_by_lag): while the lags stand still, two members that have
\* synced in one generation do not both take themselves for the owner of a
\* partition, whichever of them synced first and whoever expired meanwhile.
OwnersExclusive ==
    setting = "standing" =>
        \A g \in Groups : \A m, o \in Members :
            (m # o /\ Client(g, m).generation = Client(g, o).generation)
                => Client(g, m).owned \cap Client(g, o).owned = {}

-----------------------------------------------------------------------------
Words == {"a", "b"}
KeysOver(S) == UNION {[1 .. n -> S] : n \in 1 .. MaxWords}

\* The AMQP meaning of a topic binding: the routing key can be cut into one piece per
\* segment of the binding, any piece for "#", one segment for "*", that very segment
\* for a word.  cut[i] is where the i-th piece ends.
Splits(pattern, value) ==
    \E cut \in [1 .. Len(pattern) -> 0 .. Len(value)] :
        /\ cut[Len(pattern)] = Len(value)
        /\ \A i \in 1 .. Len(pattern) :
              LET start == IF i = 1 THEN 0 ELSE cut[i - 1]
              IN  IF pattern[i] = "#" THEN start <= cut[i]
                  ELSE cut[i] = start + 1 /\ pattern[i] \in {"*", value[cut[i]]}

\* The rows of topic_match decide exactly the bindings that can be cut so; it
\* replaces a backtracking search that the comment on it rejects.
MatchIsSplit ==
    setting = "inputs" =>
        \A binding \in KeysOver(Words \cup {"*", "#"}), routing \in KeysOver(Words) :
            TopicMatches(binding, routing) <=> Splits(binding, routing)

-----------------------------------------------------------------------------
BalancedTopics == {1, 2}
Balanced == {<<1, 0>>, <<1, 1>>, <<1, 2>>, <<2, 0>>, <<2, 1>>}
Lags == [Balanced -> 0 .. MaxLag]

Makespan(lag, a) == Max({MapThenSumSet(LAMBDA p : lag[p], a[m]) : m \in Members})

\* The best any assignment can do when all members subscribe to all topics.
Optimum(lag) ==
    Min({Makespan(lag, [m \in Members |-> {p \in Balanced : f[p] = m}]) : f \in [Balanced -> Members]})

\* What balance_partitions_by_lag and its tests say of it, over every small input:
\* "every partition must be assigned exactly once", "a member must never be handed a
\* topic it did not subscribe to", and "greedy LPT is within 4/3 of optimal", which is
\* so of members that subscribe to the same topics.
BalanceIsFair ==
    setting = "inputs" =>
        \A subscriptions \in [Members -> SUBSET BalancedTopics], lag \in Lags :
            LET a == BalancePartitionsByLag(subscriptions, lag)
                wanted == {p \in Balanced : \E m \in Members : p[1] \in subscriptions[m]}
            IN  /\ \A p \in wanted : \E m \in Members : p \in a[m] /\ p[1] \in subscriptions[m]
                /\ \A m, o \in Members : m # o => a[m] \cap a[o] = {}
                /\ UNION {a[m] : m \in Members} \subseteq wanted
                /\ (\A m \in Members : subscriptions[m] = BalancedTopics) =>
                      3 * Makespan(lag, a) <= 4 * Optimum(lag)

=============================================================================
