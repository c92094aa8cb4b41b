---------------------------- MODULE DirtyRecords ----------------------------
(***************************************************************************)
(* The coalescing of record operations between the ordered RAM writer and  *)
(* the persistence thread (crates/server/src/engine/runtime.rs) and the    *)
(* commit of the coalesced batch (crates/storage/src/records.rs).          *)
(*                                                                         *)
(* A dirty root keeps, per key, the last point operation and, apart from   *)
(* it, a set of deleted prefixes.  into_batch emits every prefix deletion  *)
(* before every point operation, so the order in which the operations      *)
(* arrived is forgotten; the module states that nothing depends on it.     *)
(*                                                                         *)
(* Keys are byte strings ordered lexicographically, as in the BTreeMap and *)
(* BTreeSet of the code.  Positions are left to module WriteRuntime.       *)
(***************************************************************************)
EXTENDS Integers, Sequences

CONSTANTS Keys,      \* record keys and prefixes, as byte strings
          Values,    \* record values
          Absent,    \* no row under a key / a point deletion
          Untouched, \* no entry for a key in DirtyRecords::points
          MaxOps     \* bound on the operations of one behaviour

ASSUME KeysAssumption == Keys \subseteq Seq(Nat)
ASSUME ValuesAssumption == /\ Absent \notin Values
                           /\ Untouched \notin Values \cup {Absent}
ASSUME MaxOpsAssumption == MaxOps \in Nat

Rows == [Keys -> Values \cup {Absent}]

RecordOp ==
  [op : {"Put"}, key : Keys, value : Values]
    \cup [op : {"Delete", "DeletePrefix"}, key : Keys]

Dirty == [points : [Keys -> Values \cup {Absent, Untouched}],
          prefixes : SUBSET Keys]

EmptyDirty == [points |-> [k \in Keys |-> Untouched], prefixes |-> {}]

-----------------------------------------------------------------------------
(* Byte strings: starts_with and the order of Vec<u8>.                     *)

StartsWith(k, p) ==
  /\ Len(p) <= Len(k)
  /\ \A i \in 1..Len(p) : k[i] = p[i]

LexLeq(a, b) ==
  \/ StartsWith(b, a)
  \/ \E i \in 1..Len(a) : /\ i <= Len(b)
                          /\ a[i] < b[i]
                          /\ \A j \in 1..(i - 1) : a[j] = b[j]

(* S.range(p..).take_while(|k| k.starts_with(p)): the scan stops at the    *)
(* first key that does not extend p.                                       *)
PrefixScan(S, p) ==
  {k \in S : /\ LexLeq(p, k)
             /\ \A j \in S : LexLeq(p, j) /\ LexLeq(j, k) => StartsWith(j, p)}

(* S.range(..=p).next_back().is_some_and(|q| p.starts_with(q)): only the   *)
(* greatest member not above p is looked at.                               *)
CoveredBy(S, p) ==
  \E q \in S : /\ LexLeq(q, p)
               /\ \A r \in S : LexLeq(r, p) => LexLeq(r, q)
               /\ StartsWith(p, q)

-----------------------------------------------------------------------------
(* DirtyRecords::absorb, one operation.                                    *)

AbsorbPoint(d, k, v) == [d EXCEPT !.points[k] = v]

(* Mutant: the points under the deleted prefix survive it.                 *)
AbsorbPrefixKeepsPoints(d, p) ==
  [points   |-> d.points,
   prefixes |-> IF CoveredBy(d.prefixes, p)
                  THEN d.prefixes
                  ELSE (d.prefixes \ PrefixScan(d.prefixes, p)) \cup {p}]

(* Mutant: prefixes that extend the new one are left in the set.           *)
AbsorbPrefixKeepsExtensions(d, p) ==
  LET removed == PrefixScan({k \in Keys : d.points[k] # Untouched}, p)
  IN  [points   |-> [k \in Keys |-> IF k \in removed THEN Untouched
                                                     ELSE d.points[k]],
       prefixes |-> d.prefixes \cup {p}]

AbsorbPrefix(d, p) ==
  LET touched == {k \in Keys : d.points[k] # Untouched}
      removed == PrefixScan(touched, p)
  IN  [points   |-> [k \in Keys |-> IF k \in removed THEN Untouched
                                                     ELSE d.points[k]],
       prefixes |-> IF CoveredBy(d.prefixes, p)
                      THEN d.prefixes
                      ELSE (d.prefixes \ PrefixScan(d.prefixes, p)) \cup {p}]

Absorb(d, o) ==
  CASE o.op = "Put"          -> AbsorbPoint(d, o.key, o.value)
    [] o.op = "Delete"       -> AbsorbPoint(d, o.key, Absent)
    [] o.op = "DeletePrefix" -> AbsorbPrefix(d, o.key)

(* Mutant: the points of other are absorbed before its prefixes.           *)
AbsorbAllPointsFirst(d, e) ==
  LET hit(k) == \E p \in e.prefixes : StartsWith(k, p)
      all    == d.prefixes \cup e.prefixes
  IN  [points   |-> [k \in Keys |->
                       IF hit(k) THEN Untouched
                       ELSE IF e.points[k] # Untouched THEN e.points[k]
                       ELSE d.points[k]],
       prefixes |-> {q \in all : ~ \E p \in all : p # q /\ StartsWith(q, p)}]

(* dirty.absorb(other.into_batch()): every prefix of other, then every     *)
(* point of other, in one step (AbsorbAllMatchesLoop compares it with the  *)
(* loop of the code).                                                      *)
AbsorbAll(d, e) ==
  LET hit(k) == \E p \in e.prefixes : StartsWith(k, p)
      all    == d.prefixes \cup e.prefixes
  IN  [points   |-> [k \in Keys |->
                       IF e.points[k] # Untouched THEN e.points[k]
                       ELSE IF hit(k) THEN Untouched ELSE d.points[k]],
       prefixes |-> {q \in all : ~ \E p \in all : p # q /\ StartsWith(q, p)}]

(* One record operation on the rows: the meaning ordered application gives *)
(* it in RAM, and RecordStore::commit on disk.                             *)
ApplyOp(rows, o) ==
  CASE o.op = "Put"          -> [rows EXCEPT ![o.key] = o.value]
    [] o.op = "Delete"       -> [rows EXCEPT ![o.key] = Absent]
    [] o.op = "DeletePrefix" ->
         [k \in Keys |-> IF StartsWith(k, o.key) THEN Absent ELSE rows[k]]

(* RecordStore::commit of DirtyRecords::into_batch: the prefix deletions   *)
(* first, then the points.                                                 *)
CommitBatch(rows, d) ==
  [k \in Keys |->
     IF d.points[k] # Untouched THEN d.points[k]
     ELSE IF \E p \in d.prefixes : StartsWith(k, p) THEN Absent ELSE rows[k]]

=============================================================================
