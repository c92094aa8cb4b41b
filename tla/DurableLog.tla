----------------------------- MODULE DurableLog -----------------------------
(***************************************************************************)
(* What the write path promises its callers (docs/architecture.md,         *)
(* "Transactions and durability"): mutations take effect in RAM one        *)
(* position at a time, the disk holds a prefix of them that only grows, a  *)
(* flush promises only what the disk already holds, and a crash, or the    *)
(* death of the writer, takes back what is not on disk yet and no more.    *)
(***************************************************************************)
EXTENDS Integers

VARIABLES
  recorded,  \* the last position whose records the runtime owns
  stored,    \* the last position on disk
  promised   \* the last position some flush or shutdown answered Ok for

vars == <<recorded, stored, promised>>

Init == recorded = 0 /\ stored = 0 /\ promised = 0

Apply == recorded' = recorded + 1 /\ UNCHANGED <<stored, promised>>

Persist ==
  /\ stored' \in (stored + 1)..recorded
  /\ UNCHANGED <<recorded, promised>>

Promise ==
  /\ promised' \in (promised + 1)..stored
  /\ UNCHANGED <<recorded, stored>>

Lose == recorded' \in stored..recorded /\ UNCHANGED <<stored, promised>>

Next == Apply \/ Persist \/ Promise \/ Lose

Spec == Init /\ [][Next]_vars
=============================================================================
