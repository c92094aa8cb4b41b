----------------------------- MODULE TopicMatch -----------------------------
(***************************************************************************)
(* topic_match of server/src/broker/engine.rs: whether the binding key of  *)
(* a topic exchange matches a routing key.  Keys are the sequences of      *)
(* segments that splitting at the dots gives, so neither is ever empty.    *)
(***************************************************************************)
EXTENDS Integers, Sequences, SequencesExt

\* Mutant: "#" takes at least one segment.
AdvanceHashOne(segment, value, reachable) ==
    IF segment = "#" THEN {i \in 0 .. Len(value) : \E j \in reachable : j < i}
    ELSE {i + 1 : i \in {j \in reachable : j < Len(value) /\ segment \in {"*", value[j + 1]}}}

\* The positions of the routing key that one more pattern segment can reach:
\* the row `next` from the row `reachable`, as the set of its true entries.
Advance(segment, value, reachable) ==
    IF segment = "#" THEN {i \in 0 .. Len(value) : \E j \in reachable : j <= i}
    ELSE {i + 1 : i \in {j \in reachable : j < Len(value) /\ segment \in {"*", value[j + 1]}}}

TopicMatches(pattern, value) ==
    Len(value) \in FoldLeft(LAMBDA row, segment : Advance(segment, value, row), {0}, pattern)

=============================================================================
