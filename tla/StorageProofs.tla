---------------------------- MODULE StorageProofs ---------------------------
(***************************************************************************)
(* Proofs about what the rows on disk are worth.                           *)
(*                                                                         *)
(* RecordPersistence: coalescing loses nothing, for every set of keys and  *)
(* values and every number of operations.                                  *)
(*                                                                         *)
(* SegmentStore: the bytes of broker payloads are kept and found, for any  *)
(* contents, readers, number of publications and number of crashes.  The   *)
(* invariant says what the disk will hold once the roots under way are     *)
(* committed, which claims keep a staged file, and what a reader may rely  *)
(* on between two locks.                                                   *)
(***************************************************************************)
EXTENDS RecordPersistence, SegmentStore, WellFoundedInduction, TLAPS

-----------------------------------------------------------------------------
(* Facts about byte strings.                                               *)

(* A byte string starts with itself.                                       *)
LEMMA StartsWithReflexive ==
  \A k \in Seq(Nat) : StartsWith(k, k)
  BY DEF StartsWith

(* starts_with is transitive.                                              *)
LEMMA StartsWithTransitive ==
  \A a, b, c \in Seq(Nat) :
     StartsWith(a, b) /\ StartsWith(b, c) => StartsWith(a, c)
  BY DEF StartsWith

(* Byte strings that start with each other are equal.                      *)
LEMMA StartsWithAntisymmetric ==
  \A a, b \in Seq(Nat) : StartsWith(a, b) /\ StartsWith(b, a) => a = b
  <1> SUFFICES ASSUME NEW a \in Seq(Nat), NEW b \in Seq(Nat),
                      StartsWith(a, b), StartsWith(b, a)
               PROVE  a = b
    BY Zenon
  <1>1. Len(a) = Len(b)
    BY DEF StartsWith
  <1>2. \A i \in 1..Len(a) : a[i] = b[i]
    BY Zenon, <1>1 DEF StartsWith
  <1> QED
    BY <1>1, <1>2

(* Every byte string between a prefix and one of its extensions extends    *)
(* the prefix as well: the scans of the code stop at the right place.      *)
LEMMA BetweenExtends ==
  ASSUME NEW p \in Seq(Nat), NEW j \in Seq(Nat), NEW k \in Seq(Nat),
         LexLeq(p, j), LexLeq(j, k), StartsWith(k, p)
  PROVE  StartsWith(j, p)
  <1> SUFFICES ASSUME ~ StartsWith(j, p)
               PROVE  FALSE
    BY Zenon
  <1>1. PICK i \in 1..Len(p) : /\ i <= Len(j)
                               /\ p[i] < j[i]
                               /\ \A n \in 1..(i - 1) : p[n] = j[n]
    BY Zenon DEF LexLeq
  <1>2. /\ i <= Len(k)
        /\ k[i] < j[i]
        /\ \A n \in 1..(i - 1) : k[n] = j[n]
    BY <1>1 DEF StartsWith
  <1>3. CASE StartsWith(k, j)
    BY <1>1, <1>2, <1>3 DEF StartsWith
  <1>4. CASE ~ StartsWith(k, j)
    <2>1. PICK m \in 1..Len(j) : /\ m <= Len(k)
                                 /\ j[m] < k[m]
                                 /\ \A n \in 1..(m - 1) : j[n] = k[n]
      BY Zenon, <1>4 DEF LexLeq
    <2>2. CASE m < i
      BY <1>2, <2>1, <2>2
    <2>3. CASE m = i
      BY <1>1, <1>2, <2>1, <2>3
    <2>4. CASE m > i
      <3>1. i \in 1..(m - 1)
        BY <1>1, <2>1, <2>4
      <3>2. j[i] = k[i]
        BY Zenon, <2>1, <3>1
      <3>3. j[i] \in Nat
        BY <1>1
      <3> QED BY <1>2, <3>2, <3>3
    <2> QED
      BY <2>2, <2>3, <2>4
  <1> QED
    BY Zenon, <1>3, <1>4

(* The order of Vec<u8> is total: two strings that differ differ first     *)
(* somewhere.                                                              *)
LEMMA LexTotal ==
  ASSUME NEW a \in Seq(Nat), NEW b \in Seq(Nat)
  PROVE  LexLeq(a, b) \/ LexLeq(b, a)
  <1> DEFINE T == {i \in Nat : i \in 1..Len(a) /\ i \in 1..Len(b) /\ a[i] # b[i]}
  <1>1. CASE T = {}
    <2>1. \A i \in 1..Len(a) : i <= Len(b) => a[i] = b[i]
      BY <1>1
    <2> QED
      BY <2>1 DEF LexLeq, StartsWith
  <1>2. CASE T # {}
    <2>1. PICK i \in T : \A y \in T : ~ (<<y, i>> \in OpToRel(<, Nat))
      <3> HIDE DEF T
      <3>1. T \subseteq Nat
        BY Zenon DEF T
      <3> QED
        BY Zenon, <1>2, <3>1, NatLessThanWellFounded, WFMin
    <2>2. /\ i \in Nat /\ i \in 1..Len(a) /\ i \in 1..Len(b)
          /\ a[i] \in Nat /\ b[i] \in Nat /\ a[i] # b[i]
      OBVIOUS
    <2>3. ASSUME NEW n \in 1..(i - 1), a[n] # b[n]
          PROVE  FALSE
      <3>1. n \in T /\ n < i
        BY <2>2, <2>3
      <3>2. <<n, i>> \in OpToRel(<, Nat)
        BY Zenon, <2>2, <3>1 DEF OpToRel
      <3> QED
        BY Zenon, <2>1, <3>1, <3>2
    <2>4. a[i] < b[i] \/ b[i] < a[i]
      BY <2>2
    <2>5. \A n \in 1..(i - 1) : a[n] = b[n] /\ b[n] = a[n]
      BY Zenon, <2>3
    <2> HIDE DEF T
    <2>6. CASE a[i] < b[i]
      BY <2>2, <2>5, <2>6 DEF LexLeq
    <2>7. CASE b[i] < a[i]
      BY <2>2, <2>5, <2>7 DEF LexLeq
    <2> QED
      BY Zenon, <2>4, <2>6, <2>7
  <1> QED
    BY Zenon, <1>1, <1>2

-----------------------------------------------------------------------------
(* What the range scans of absorb compute.                                 *)

(* range(p..).take_while(starts_with) finds exactly the extensions of p.   *)
LEMMA PrefixScanIsExtensions ==
  ASSUME NEW S \in SUBSET Keys, NEW p \in Keys
  PROVE  PrefixScan(S, p) = {k \in S : StartsWith(k, p)}
  <1>1. ASSUME NEW k \in PrefixScan(S, p)
        PROVE  StartsWith(k, p)
    BY Zenon, StartsWithReflexive, KeysAssumption DEF PrefixScan, LexLeq
  <1>2. ASSUME NEW k \in S, StartsWith(k, p)
        PROVE  k \in PrefixScan(S, p)
    <2>1. LexLeq(p, k)
      BY Zenon, <1>2 DEF LexLeq
    <2>2. \A j \in S : LexLeq(p, j) /\ LexLeq(j, k) => StartsWith(j, p)
      BY Zenon, <1>2, BetweenExtends, KeysAssumption
    <2> QED
      BY Zenon, <2>1, <2>2 DEF PrefixScan
  <1>3. PrefixScan(S, p) \subseteq S
    BY Zenon DEF PrefixScan
  <1> QED
    BY Zenon, <1>1, <1>2, <1>3

(* In an antichain the greatest member not above p decides whether any     *)
(* member is a prefix of p.                                                *)
LEMMA CoveredByIsSomePrefix ==
  ASSUME NEW S \in SUBSET Keys, NEW p \in Keys, Antichain(S)
  PROVE  CoveredBy(S, p) <=> \E q \in S : StartsWith(p, q)
  <1>1. CoveredBy(S, p) => \E q \in S : StartsWith(p, q)
    BY Zenon DEF CoveredBy
  <1>2. ASSUME NEW q \in S, StartsWith(p, q)
        PROVE  CoveredBy(S, p)
    <2>1. LexLeq(q, p)
      BY Zenon, <1>2 DEF LexLeq
    <2>2. ASSUME NEW r \in S, LexLeq(r, p)
          PROVE  LexLeq(r, q)
      <3>1. CASE LexLeq(q, r)
        <4>1. StartsWith(r, q)
          BY Zenon, <1>2, <2>2, <3>1, BetweenExtends, KeysAssumption
        <4>2. r = q
          BY Zenon, <4>1 DEF Antichain
        <4> QED
          BY Zenon, <4>2, <3>1
      <3> QED
        BY Zenon, <3>1, LexTotal, KeysAssumption
    <2> QED
      BY Zenon, <1>2, <2>1, <2>2 DEF CoveredBy
  <1> QED
    BY Zenon, <1>1, <1>2

-----------------------------------------------------------------------------
(* Absorbing one operation.                                                *)

(* What absorb does with a prefix deletion, free of the order of keys.     *)
LEMMA AbsorbPrefixFields ==
  ASSUME NEW d \in Dirty, NEW p \in Keys, Antichain(d.prefixes)
  PROVE  /\ AbsorbPrefix(d, p).points =
              [k \in Keys |-> IF StartsWith(k, p) THEN Untouched ELSE d.points[k]]
         /\ (\E q \in d.prefixes : StartsWith(p, q))
              => AbsorbPrefix(d, p).prefixes = d.prefixes
         /\ ~ (\E q \in d.prefixes : StartsWith(p, q))
              => AbsorbPrefix(d, p).prefixes
                   = {q \in d.prefixes : ~ StartsWith(q, p)} \cup {p}
         /\ AbsorbPrefix(d, p) \in Dirty
  <1> DEFINE touched == {k \in Keys : d.points[k] # Untouched}
             S == d.prefixes
  <1>1. S \in SUBSET Keys /\ touched \in SUBSET Keys
    BY Zenon DEF Dirty
  <1>2. PrefixScan(touched, p) = {k \in touched : StartsWith(k, p)}
    BY Zenon, <1>1, PrefixScanIsExtensions
  <1>3. PrefixScan(S, p) = {k \in S : StartsWith(k, p)}
    BY Zenon, <1>1, PrefixScanIsExtensions
  <1>4. CoveredBy(S, p) <=> \E q \in S : StartsWith(p, q)
    BY Zenon, <1>1, CoveredByIsSomePrefix
  <1>5. [k \in Keys |-> IF k \in PrefixScan(touched, p) THEN Untouched
                                                        ELSE d.points[k]]
          = [k \in Keys |-> IF StartsWith(k, p) THEN Untouched ELSE d.points[k]]
    BY Zenon, <1>2
  <1>6. (S \ PrefixScan(S, p)) \cup {p} = {q \in S : ~ StartsWith(q, p)} \cup {p}
    BY Zenon, <1>3
  <1>7. /\ AbsorbPrefix(d, p).points =
             [k \in Keys |-> IF k \in PrefixScan(touched, p) THEN Untouched
                                                            ELSE d.points[k]]
        /\ CoveredBy(S, p) => AbsorbPrefix(d, p).prefixes = S
        /\ ~ CoveredBy(S, p)
             => AbsorbPrefix(d, p).prefixes = (S \ PrefixScan(S, p)) \cup {p}
    BY Zenon DEF AbsorbPrefix
  <1>8. AbsorbPrefix(d, p) \in Dirty
    <2>1. AbsorbPrefix(d, p) = [points |-> AbsorbPrefix(d, p).points,
                                prefixes |-> AbsorbPrefix(d, p).prefixes]
      BY Zenon DEF AbsorbPrefix
    <2>2. AbsorbPrefix(d, p).points \in [Keys -> Values \cup {Absent, Untouched}]
      BY Zenon, <1>7 DEF Dirty
    <2>3. AbsorbPrefix(d, p).prefixes \in SUBSET Keys
      BY Zenon, <1>1, <1>7
    <2> QED
      BY Zenon, <2>1, <2>2, <2>3 DEF Dirty
  <1> QED
    BY Zenon, <1>4, <1>5, <1>6, <1>7, <1>8

(* absorb of one operation yields a well-formed dirty root.                *)
LEMMA AbsorbType ==
  ASSUME NEW d \in Dirty, NEW o \in RecordOp, Antichain(d.prefixes)
  PROVE  Absorb(d, o) \in Dirty
  <1>1. CASE o.op = "Put"
    <2>1. o.key \in Keys /\ o.value \in Values
      BY Zenon, <1>1 DEF RecordOp
    <2> QED
      BY Zenon, <1>1, <2>1 DEF Absorb, AbsorbPoint, Dirty
  <1>2. CASE o.op = "Delete"
    <2>1. o.key \in Keys
      BY Zenon, <1>2 DEF RecordOp
    <2> QED
      BY Zenon, <1>2, <2>1 DEF Absorb, AbsorbPoint, Dirty
  <1>3. CASE o.op = "DeletePrefix"
    <2>1. o.key \in Keys
      BY Zenon, <1>3 DEF RecordOp
    <2>2. Absorb(d, o) = AbsorbPrefix(d, o.key)
      BY Zenon, <1>3 DEF Absorb
    <2> QED
      BY Zenon, <2>1, <2>2, AbsorbPrefixFields
  <1> QED
    BY Zenon, <1>1, <1>2, <1>3 DEF RecordOp

(* absorb of a DeletePrefix keeps the kept prefixes an antichain.          *)
LEMMA AbsorbPrefixAntichain ==
  ASSUME NEW d \in Dirty, NEW p \in Keys, Antichain(d.prefixes)
  PROVE  Antichain(AbsorbPrefix(d, p).prefixes)
  <1>1. CASE \E q \in d.prefixes : StartsWith(p, q)
    BY Zenon, <1>1, AbsorbPrefixFields
  <1>2. CASE ~ \E q \in d.prefixes : StartsWith(p, q)
    <2>1. AbsorbPrefix(d, p).prefixes
            = {q \in d.prefixes : ~ StartsWith(q, p)} \cup {p}
      BY Zenon, <1>2, AbsorbPrefixFields
    <2> QED
      BY Zenon, <1>2, <2>1 DEF Antichain
  <1> QED
    BY Zenon, <1>1, <1>2

(* absorb of any operation keeps the kept prefixes an antichain.           *)
LEMMA AbsorbAntichain ==
  ASSUME NEW d \in Dirty, NEW o \in RecordOp, Antichain(d.prefixes)
  PROVE  Antichain(Absorb(d, o).prefixes)
  <1>1. CASE o.op = "Put" \/ o.op = "Delete"
    BY Zenon, <1>1 DEF Absorb, AbsorbPoint, Dirty
  <1>2. CASE o.op = "DeletePrefix"
    <2>1. o.key \in Keys
      BY Zenon, <1>2 DEF RecordOp
    <2>2. Absorb(d, o) = AbsorbPrefix(d, o.key)
      BY Zenon, <1>2 DEF Absorb
    <2> QED
      BY Zenon, <2>1, <2>2, AbsorbPrefixAntichain
  <1> QED
    BY Zenon, <1>1, <1>2 DEF RecordOp

(* Committing a root that absorbed a DeletePrefix is committing the root   *)
(* and then deleting the prefix.                                           *)
LEMMA AbsorbPrefixEffect ==
  ASSUME NEW d \in Dirty, NEW p \in Keys, NEW rows \in Rows,
         Antichain(d.prefixes)
  PROVE  CommitBatch(rows, AbsorbPrefix(d, p))
           = [k \in Keys |-> IF StartsWith(k, p) THEN Absent
                                                 ELSE CommitBatch(rows, d)[k]]
  <1> DEFINE e == AbsorbPrefix(d, p)
  <1>1. ASSUME NEW k \in Keys
        PROVE  (\E q \in e.prefixes : StartsWith(k, q))
                 <=> StartsWith(k, p) \/ \E q \in d.prefixes : StartsWith(k, q)
    <2>1. d.prefixes \subseteq Seq(Nat) /\ k \in Seq(Nat) /\ p \in Seq(Nat)
      BY Zenon, KeysAssumption DEF Dirty
    <2>2. CASE \E q \in d.prefixes : StartsWith(p, q)
      <3>1. e.prefixes = d.prefixes
        BY Zenon, <2>2, AbsorbPrefixFields
      <3>2. PICK q \in d.prefixes : StartsWith(p, q)
        BY Zenon, <2>2
      <3>3. StartsWith(k, p) => StartsWith(k, q)
        BY Zenon, <2>1, <3>2, StartsWithTransitive
      <3> QED
        BY Zenon, <3>1, <3>2, <3>3
    <2>3. CASE ~ \E q \in d.prefixes : StartsWith(p, q)
      <3>1. e.prefixes = {q \in d.prefixes : ~ StartsWith(q, p)} \cup {p}
        BY Zenon, <2>3, AbsorbPrefixFields
      <3>2. \A q \in d.prefixes :
               StartsWith(k, q) /\ StartsWith(q, p) => StartsWith(k, p)
        BY Zenon, <2>1, StartsWithTransitive
      <3> QED
        BY Zenon, <3>1, <3>2
    <2> QED
      BY Zenon, <2>2, <2>3
  <1>2. e.points = [k \in Keys |-> IF StartsWith(k, p) THEN Untouched
                                                       ELSE d.points[k]]
    BY Zenon, AbsorbPrefixFields
  <1> HIDE DEF e
  <1>3. CommitBatch(rows, e)
          = [k \in Keys |-> IF StartsWith(k, p) THEN Absent
                                                ELSE CommitBatch(rows, d)[k]]
    BY Zenon, <1>1, <1>2 DEF CommitBatch
  <1> QED
    BY Zenon, <1>3 DEF e

(* Committing a root that absorbed one more operation is committing the    *)
(* root and then performing the operation.                                 *)
LEMMA AbsorbEffect ==
  ASSUME NEW d \in Dirty, NEW o \in RecordOp, NEW rows \in Rows,
         Antichain(d.prefixes)
  PROVE  CommitBatch(rows, Absorb(d, o)) = ApplyOp(CommitBatch(rows, d), o)
  <1>1. CASE o.op = "Put"
    <2>1. o.key \in Keys /\ o.value \in Values
      BY Zenon, <1>1 DEF RecordOp
    <2> QED
      BY Zenon, <1>1, <2>1, ValuesAssumption
         DEF Absorb, AbsorbPoint, Dirty, CommitBatch, ApplyOp
  <1>2. CASE o.op = "Delete"
    <2>1. o.key \in Keys
      BY Zenon, <1>2 DEF RecordOp
    <2> QED
      BY Zenon, <1>2, <2>1, ValuesAssumption
         DEF Absorb, AbsorbPoint, Dirty, CommitBatch, ApplyOp
  <1>3. CASE o.op = "DeletePrefix"
    <2>1. o.key \in Keys
      BY Zenon, <1>3 DEF RecordOp
    <2>2. Absorb(d, o) = AbsorbPrefix(d, o.key)
      BY Zenon, <1>3 DEF Absorb
    <2> QED
      BY <1>3, <2>1, <2>2, AbsorbPrefixEffect DEF ApplyOp
  <1> QED
    BY Zenon, <1>1, <1>2, <1>3 DEF RecordOp

-----------------------------------------------------------------------------
(* Joining two roots.                                                      *)

(* DirtyRecords::default() is well formed and commits nothing.             *)
LEMMA EmptyDirtyFacts ==
  /\ EmptyDirty \in Dirty
  /\ Antichain(EmptyDirty.prefixes)
  /\ \A rows \in Rows : CommitBatch(rows, EmptyDirty) = rows
  BY Zenon DEF EmptyDirty, Dirty, Antichain, CommitBatch, Rows

(* Joining two roots yields a well-formed root.                            *)
LEMMA AbsorbAllType ==
  ASSUME NEW d \in Dirty, NEW e \in Dirty
  PROVE  AbsorbAll(d, e) \in Dirty /\ Antichain(AbsorbAll(d, e).prefixes)
  <1>1. AbsorbAll(d, e) \in Dirty
    BY Zenon DEF AbsorbAll, Dirty
  <1>2. Antichain(AbsorbAll(d, e).prefixes)
    BY Zenon DEF AbsorbAll, Antichain
  <1> QED
    BY Zenon, <1>1, <1>2

(* The kept prefixes of a join cover what either root's prefixes cover.    *)
LEMMA AbsorbAllCovers ==
  ASSUME NEW d \in Dirty, NEW e \in Dirty, NEW k \in Keys,
         Antichain(d.prefixes), Antichain(e.prefixes)
  PROVE  (\E q \in AbsorbAll(d, e).prefixes : StartsWith(k, q))
           <=> \E q \in d.prefixes \cup e.prefixes : StartsWith(k, q)
  <1> DEFINE all == d.prefixes \cup e.prefixes
             kept == {q \in all : ~ \E p \in all : p # q /\ StartsWith(q, p)}
  <1>1. AbsorbAll(d, e).prefixes = kept
    BY Zenon DEF AbsorbAll
  <1>2. all \subseteq Seq(Nat) /\ k \in Seq(Nat)
    BY Zenon, KeysAssumption DEF Dirty
  <1>3. ASSUME NEW p \in all, StartsWith(k, p)
        PROVE  \E q \in kept : StartsWith(k, q)
    <2>1. CASE p \in kept
      BY Zenon, <1>3, <2>1
    <2>2. CASE p \notin kept
      <3>1. PICK q \in all : q # p /\ StartsWith(p, q)
        BY Zenon, <2>2
      <3>2. StartsWith(k, q)
        BY Zenon, <1>2, <1>3, <3>1, StartsWithTransitive
      <3>3. q \in kept
        <4> SUFFICES ASSUME NEW r \in all, r # q, StartsWith(q, r)
                     PROVE  FALSE
          BY Zenon
        <4>1. StartsWith(p, r)
          BY Zenon, <1>2, <3>1, StartsWithTransitive
        <4>2. \/ p \in d.prefixes /\ q \in e.prefixes /\ r \in d.prefixes
              \/ p \in e.prefixes /\ q \in d.prefixes /\ r \in e.prefixes
          BY Zenon, <3>1, <4>1 DEF Antichain
        <4>3. p = r
          BY Zenon, <4>1, <4>2 DEF Antichain
        <4> QED
          BY Zenon, <1>2, <3>1, <4>3, StartsWithAntisymmetric
      <3> QED
        BY Zenon, <3>2, <3>3
    <2> QED
      BY Zenon, <2>1, <2>2
  <1> QED
    BY Zenon, <1>1, <1>3

(* Committing the join of two roots is committing one after the other.     *)
LEMMA AbsorbAllEffect ==
  ASSUME NEW d \in Dirty, NEW e \in Dirty, NEW rows \in Rows,
         Antichain(d.prefixes), Antichain(e.prefixes)
  PROVE  CommitBatch(rows, AbsorbAll(d, e)) = CommitBatch(CommitBatch(rows, d), e)
  <1> DEFINE j == AbsorbAll(d, e)
  <1>1. j.points = [k \in Keys |->
                      IF e.points[k] # Untouched THEN e.points[k]
                      ELSE IF \E p \in e.prefixes : StartsWith(k, p)
                             THEN Untouched ELSE d.points[k]]
    BY Zenon DEF AbsorbAll
  <1>2. \A k \in Keys : (\E q \in j.prefixes : StartsWith(k, q))
           <=> \/ \E q \in d.prefixes : StartsWith(k, q)
               \/ \E q \in e.prefixes : StartsWith(k, q)
    BY AbsorbAllCovers
  <1> HIDE DEF j
  <1>3. CommitBatch(rows, j) = CommitBatch(CommitBatch(rows, d), e)
    BY Zenon, <1>1, <1>2 DEF CommitBatch
  <1> QED
    BY Zenon, <1>3 DEF j

-----------------------------------------------------------------------------
(* The inductive invariant.                                                *)

(* RecordStore::commit yields rows.                                        *)
LEMMA CommitBatchType ==
  ASSUME NEW rows \in Rows, NEW d \in Dirty
  PROVE  CommitBatch(rows, d) \in Rows
  BY Zenon DEF CommitBatch, Rows, Dirty

(* Ordered application of an operation yields rows.                        *)
LEMMA ApplyOpType ==
  ASSUME NEW rows \in Rows, NEW o \in RecordOp
  PROVE  ApplyOp(rows, o) \in Rows
  <1>1. CASE o.op = "Put"
    BY Zenon, <1>1 DEF ApplyOp, Rows, RecordOp
  <1>2. CASE o.op = "Delete"
    BY Zenon, <1>2 DEF ApplyOp, Rows, RecordOp
  <1>3. CASE o.op = "DeletePrefix"
    BY Zenon, <1>3 DEF ApplyOp, Rows, RecordOp
  <1> QED
    BY Zenon, <1>1, <1>2, <1>3 DEF RecordOp

(* unwrap_or_default of an optional root is well formed and stands for the *)
(* same rows.                                                              *)
LEMMA OrDefaultFacts ==
  ASSUME NEW root \in Root, root # None => Antichain(root.prefixes),
         NEW rows \in Rows
  PROVE  /\ OrDefault(root) \in Dirty
         /\ Antichain(OrDefault(root).prefixes)
         /\ CommitBatch(rows, OrDefault(root)) = Overlay(rows, root)
         /\ Overlay(rows, root) \in Rows
  BY Zenon, EmptyDirtyFacts, CommitBatchType DEF OrDefault, Overlay, Root

(* A freshly started runtime satisfies the coalescing invariant: RAM and   *)
(* disk agree and there is no root.                                        *)
THEOREM CoalescingInvInit == Init => CoalescingInv
  BY MaxOpsAssumption
     DEF Init, CoalescingInv, TypeOK, PrefixesAntichain, RootsExclusive,
         DiskPlusRootsIsRam, Overlay, Rows, Root

(* publish, the take, commit, failure and retry of a batch, and a restart  *)
(* preserve the coalescing invariant.                                      *)
THEOREM CoalescingInvStep == CoalescingInv /\ [Next]_vars => CoalescingInv'
  <1> SUFFICES ASSUME CoalescingInv, [Next]_vars
               PROVE  CoalescingInv'
    BY Zenon
  <1> USE MaxOpsAssumption, NoneAssumption
          DEF CoalescingInv, PrefixesAntichain, RootsExclusive
  <1>t. /\ ram \in Rows /\ disk \in Rows
        /\ pending \in Root /\ merging \in Root
        /\ retained \in Root /\ inflight \in Root
        /\ ops \in 0..MaxOps
    BY Zenon DEF TypeOK
  <1>1. CASE TakeRoot
    <2>1. /\ OrDefault(pending) \in Dirty
          /\ Antichain(OrDefault(pending).prefixes)
          /\ \A rows \in Rows :
                CommitBatch(rows, OrDefault(pending)) = Overlay(rows, pending)
      BY Zenon, <1>t, OrDefaultFacts
    <2>2. /\ Overlay(disk, retained) \in Rows
          /\ Overlay(Overlay(disk, retained), inflight) \in Rows
      BY Zenon, <1>t, CommitBatchType DEF Overlay, Root
    <2>3. TypeOK'
      BY Zenon, <1>1, <1>t, <2>1 DEF TakeRoot, TypeOK, Root
    <2>4. PrefixesAntichain' /\ RootsExclusive'
      BY Zenon, <1>1, <2>1 DEF TakeRoot
    <2>5. DiskPlusRootsIsRam'
      BY Zenon, <1>1, <2>1, <2>2 DEF TakeRoot, DiskPlusRootsIsRam, Overlay
    <2> QED
      BY Zenon, <2>3, <2>4, <2>5
  <1>2. ASSUME NEW o \in RecordOp, AbsorbRecord(o)
        PROVE  CoalescingInv'
    <2>1. merging \in Dirty /\ merging # None /\ pending = None
      BY Zenon, <1>2, <1>t DEF AbsorbRecord, Root
    <2> DEFINE below == Overlay(Overlay(disk, retained), inflight)
    <2>2. below \in Rows
      BY Zenon, <1>t, CommitBatchType DEF Overlay, Root
    <2>3. /\ Absorb(merging, o) \in Dirty
          /\ Antichain(Absorb(merging, o).prefixes)
          /\ CommitBatch(below, Absorb(merging, o))
               = ApplyOp(CommitBatch(below, merging), o)
      BY Zenon, <2>1, <2>2, AbsorbType, AbsorbAntichain, AbsorbEffect
    <2>4. TypeOK'
      BY <1>2, <1>t, <2>3, ApplyOpType DEF AbsorbRecord, TypeOK, Root
    <2>5. PrefixesAntichain' /\ RootsExclusive'
      BY Zenon, <1>2, <2>1, <2>3 DEF AbsorbRecord
    <2>6. DiskPlusRootsIsRam'
      <3>1. ram = CommitBatch(below, merging)
        BY Zenon, <2>1 DEF DiskPlusRootsIsRam, Overlay
      <3>2. below' = below
        BY Zenon, <1>2 DEF AbsorbRecord, Overlay
      <3>3. merging' # None /\ pending' = None
        BY Zenon, <1>2, <2>1, <2>3 DEF AbsorbRecord
      <3> QED
        BY Zenon, <1>2, <2>3, <3>1, <3>2, <3>3
           DEF AbsorbRecord, DiskPlusRootsIsRam, Overlay
    <2> QED
      BY Zenon, <2>4, <2>5, <2>6
  <1>3. CASE RestoreRoot
    BY Zenon, <1>3, <1>t DEF RestoreRoot, TypeOK, DiskPlusRootsIsRam, Overlay
  <1>4. CASE TakeBatch
    <2> DEFINE r == OrDefault(retained)
               below == Overlay(disk, retained)
    <2>1. /\ r \in Dirty /\ Antichain(r.prefixes)
          /\ CommitBatch(disk, r) = below
          /\ below \in Rows
      BY Zenon, <1>t, OrDefaultFacts
    <2>2. /\ inflight' \in Dirty
          /\ Antichain((inflight').prefixes)
          /\ CommitBatch(disk, inflight') = Overlay(below, pending)
      <3>1. CASE pending = None
        BY Zenon, <1>4, <2>1, <3>1 DEF TakeBatch, Overlay
      <3>2. CASE pending # None
        <4>1. pending \in Dirty /\ Antichain(pending.prefixes)
          BY Zenon, <1>t, <3>2 DEF Root
        <4>2. inflight' = AbsorbAll(r, pending)
          BY Zenon, <1>4, <3>2 DEF TakeBatch
        <4>3. CommitBatch(disk, AbsorbAll(r, pending))
                = CommitBatch(CommitBatch(disk, r), pending)
          BY Zenon, <1>t, <2>1, <4>1, AbsorbAllEffect
        <4> HIDE DEF r
        <4> QED
          BY Zenon, <2>1, <3>2, <4>1, <4>2, <4>3, AbsorbAllType DEF Overlay
      <3> QED
        BY Zenon, <3>1, <3>2
    <2>3. inflight = None /\ pending' = None /\ retained' = None /\ inflight' # None
      BY Zenon, <1>4, <2>2 DEF TakeBatch
    <2>4. TypeOK'
      BY Zenon, <1>4, <1>t, <2>2, <2>3 DEF TakeBatch, TypeOK, Root
    <2>5. PrefixesAntichain' /\ RootsExclusive'
      BY Zenon, <1>4, <2>2, <2>3 DEF TakeBatch
    <2>6. DiskPlusRootsIsRam'
      BY Zenon, <1>4, <2>2, <2>3 DEF TakeBatch, DiskPlusRootsIsRam, Overlay
    <2> QED
      BY Zenon, <2>4, <2>5, <2>6
  <1>5. CASE Persisted
    <2>1. CommitBatch(disk, inflight) \in Rows
      BY Zenon, <1>5, <1>t, CommitBatchType DEF Persisted, Root
    <2> QED
      BY Zenon, <1>5, <1>t, <2>1
         DEF Persisted, TypeOK, DiskPlusRootsIsRam, Overlay, Root
  <1>6. CASE PersistFailed
    <2>1. inflight \in Dirty /\ inflight # None /\ retained = None
      BY Zenon, <1>6, <1>t DEF PersistFailed, Root
    <2>2. /\ retained' \in Dirty
          /\ Antichain((retained').prefixes)
          /\ CommitBatch(disk, retained') = CommitBatch(disk, inflight)
      <3>1. retained' = AbsorbAll(EmptyDirty, inflight)
        BY Zenon, <1>6 DEF PersistFailed
      <3>2. Antichain(inflight.prefixes)
        BY Zenon, <2>1
      <3>3. CommitBatch(disk, AbsorbAll(EmptyDirty, inflight))
              = CommitBatch(CommitBatch(disk, EmptyDirty), inflight)
        BY Zenon, <1>t, <2>1, <3>2, EmptyDirtyFacts, AbsorbAllEffect
      <3>4. CommitBatch(disk, EmptyDirty) = disk
        BY Zenon, <1>t, EmptyDirtyFacts
      <3> QED
        BY Zenon, <2>1, <3>1, <3>3, <3>4, EmptyDirtyFacts, AbsorbAllType
    <2> QED
      BY Zenon, <1>6, <1>t, <2>1, <2>2
         DEF PersistFailed, TypeOK, DiskPlusRootsIsRam, Overlay, Root
  <1>7. CASE Restart
    BY Zenon, <1>7, <1>t DEF Restart, TypeOK, DiskPlusRootsIsRam, Overlay, Root
  <1>8. CASE UNCHANGED vars
    BY Zenon, <1>8, <1>t DEF vars, TypeOK, DiskPlusRootsIsRam, Overlay
  <1> QED
    BY Zenon, <1>1, <1>2, <1>3, <1>4, <1>5, <1>6, <1>7, <1>8 DEF Next

(* For all keys, values and behaviours: the rows on disk with the roots in *)
(* RAM committed on top are the rows ordered application produced.         *)
THEOREM CoalescingIsOrdered == Spec => []DiskPlusRootsIsRam
  <1>1. CoalescingInv => DiskPlusRootsIsRam
    BY Zenon DEF CoalescingInv
  <1> QED
    BY <1>1, CoalescingInvInit, CoalescingInvStep, PTL DEF Spec

(* The prefixes kept by a root never extend one another.                   *)
THEOREM RootsAreAntichains == Spec => []PrefixesAntichain
  <1>1. CoalescingInv => PrefixesAntichain
    BY Zenon DEF CoalescingInv
  <1> QED
    BY <1>1, CoalescingInvInit, CoalescingInvStep, PTL DEF Spec

(* Every state is well typed.                                              *)
THEOREM RecordPersistenceType == Spec => []TypeOK
  <1>1. CoalescingInv => TypeOK
    BY Zenon DEF CoalescingInv
  <1> QED
    BY <1>1, CoalescingInvInit, CoalescingInvStep, PTL DEF Spec

-----------------------------------------------------------------------------
(* The bytes of payloads.                                                  *)

\* NIL stands for Option::None: it is no index and no publication in progress.
NilIsDistinct == NIL \notin Nat /\ NIL \notin [at : {"capture", "bind", "failed"}, file : Contents]

\* The rows on disk after the operations of a root.
Over(rows, edits) == (rows \ DOMAIN edits) \cup {f \in DOMAIN edits : edits[f] = "Put"}

\* f is a function into S.
Map(f, S) == f \in [DOMAIN f -> S]

\* The segments of the last publication or removal that is in a batch.
Settled == IF writer = NIL THEN live ELSE Drop(live, {issued})

\* What will be on disk when the batch, and then the root, are committed.
Stored == Over(redb.rows, batch.rows)
Arriving == Over(Stored, mailbox.rows)

\* A root holds row operations and the segments as of its index; index 0 is the empty root.
RootOK(root) ==
    /\ root = [rows |-> root.rows, live |-> root.live, index |-> root.index]
    /\ Map(root.rows, {"Put", "Delete"})
    /\ root.index \in Nat
    /\ root.index = 0 => root = Empty
    /\ Map(root.live, Contents) /\ DOMAIN root.live \subseteq 1 .. issued

\* The types of the store; a publication in progress is the newest segment.
SegmentTypes ==
    /\ issued \in Nat /\ applied \in Nat
    /\ Map(live, Contents) /\ DOMAIN live \subseteq 1 .. issued
    /\ writer = NIL \/ /\ writer \in [at : {"capture", "bind"}, file : Contents]
                       /\ issued \in DOMAIN live /\ live[issued] = writer.file
    /\ RootOK(mailbox) /\ RootOK(batch)
    /\ redb = [rows |-> redb.rows, live |-> redb.live, index |-> redb.index]
    /\ redb.index \in Nat /\ Map(redb.live, Contents) /\ DOMAIN redb.live \subseteq 1 .. issued
    /\ thread \in {"idle", "commit", "release"}

\* The rows follow the segments: disk, batch and root each lead to exactly the files
\* that the segments of their index name, and their indices come in that order.
RowsFollowSegments ==
    /\ redb.rows = Range(redb.live)
    /\ batch.index # 0 => Stored = Range(batch.live)
    /\ Arriving = Range(Settled)
    /\ Settled = IF mailbox.index # 0 THEN mailbox.live
                 ELSE IF batch.index # 0 THEN batch.live ELSE redb.live
    /\ applied = IF mailbox.index # 0 THEN mailbox.index
                 ELSE IF batch.index # 0 THEN batch.index ELSE redb.index
    /\ mailbox.index # 0 => mailbox.index > batch.index /\ mailbox.index > redb.index
    /\ thread = "idle" => batch.index = 0 \/ batch.index > redb.index
    /\ thread = "commit" => batch.index > redb.index
    /\ thread = "release" => batch.index = redb.index /\ batch.index # 0 /\ batch.live = redb.live /\ Stored = redb.rows

\* A publication of f has a batch that stores it.
Bound(f) == f \in DOMAIN staged /\ staged[f].latest_bound # NIL

\* The claims on a staged file are those of the publication in progress and of the
\* latest batch that stores it; every row still to be written has its bytes staged.
ClaimsExact ==
    /\ Map(staged, [unbound : {0, 1}, latest_bound : Nat \cup {NIL}])
    /\ DOMAIN staged \subseteq Contents
    /\ \A f \in DOMAIN staged : staged[f].unbound = 1 <=> writer # NIL /\ writer.file = f
    /\ writer # NIL => writer.file \in DOMAIN staged
    /\ publications = {<<staged[f].latest_bound, f>> : f \in {x \in DOMAIN staged : staged[x].latest_bound # NIL}}
    /\ \A f \in DOMAIN staged :
          /\ staged[f].unbound = 0 => staged[f].latest_bound # NIL
          /\ staged[f].latest_bound # NIL => /\ staged[f].latest_bound <= applied
                                             /\ thread # "release" => staged[f].latest_bound > redb.index
    /\ \A f \in DOMAIN mailbox.rows : mailbox.rows[f] = "Put" => Bound(f) /\ staged[f].latest_bound > batch.index
    /\ thread # "release" => \A f \in DOMAIN batch.rows : batch.rows[f] = "Put" => Bound(f)

\* The bytes of f are on disk and nothing on its way there deletes them.
Kept(f) ==
    /\ f \in redb.rows
    /\ f \in DOMAIN batch.rows => batch.rows[f] = "Put"
    /\ f \in DOMAIN mailbox.rows => mailbox.rows[f] = "Put"

\* A reader that found its bytes on disk finds them there as long as its segment lives.
ReaderOK(r) ==
    r.at # "idle" =>
       /\ r.segment \in 1 .. issued
       /\ r.segment \in DOMAIN live => live[r.segment] = r.file
       /\ r.at = "disk" /\ r.segment \in DOMAIN live => Kept(r.file)
       /\ r.at = "failed" => r.segment \notin DOMAIN live

\* Every reader is at a point of the read and is right to be there.
ReadersOK ==
    /\ readers \in [Readers -> [at : {"idle", "pins", "staged", "disk", "pinned", "failed"},
                                segment : Nat, file : Contents \cup {NIL}]]
    /\ \A r \in Readers : ReaderOK(readers[r])

\* The inductive invariant.
SegmentInv == SegmentTypes /\ RowsFollowSegments /\ ClaimsExact /\ ReadersOK

\* No operations change no rows.
LEMMA OverNothing == \A rows : Over(rows, Nothing) = rows
BY Zenon DEF Over, Nothing

\* What Joined makes of the rows of a root: the later operation on a file wins.
LEMMA JoinedRows ==
  ASSUME NEW root, NEW edits, NEW segments, NEW index
  PROVE  LET new == Joined(root, edits, segments, index) IN
         /\ DOMAIN new.rows = DOMAIN root.rows \cup DOMAIN edits
         /\ \A f \in DOMAIN new.rows : new.rows[f] = IF f \in DOMAIN edits THEN edits[f] ELSE root.rows[f]
BY Zenon DEF Joined

\* Committing the same operations twice is committing them once.
LEMMA OverTwice == \A rows, edits : Over(Over(rows, edits), edits) = Over(rows, edits)
BY Zenon DEF Over

\* Joined keeps the shape of a root.
LEMMA JoinedOK ==
  ASSUME NEW root, RootOK(root), NEW edits, Map(edits, {"Put", "Delete"}),
         NEW segments, Map(segments, Contents), DOMAIN segments \subseteq 1 .. issued,
         NEW index \in Nat \ {0}
  PROVE  RootOK(Joined(root, edits, segments, index))
<1> DEFINE new == Joined(root, edits, segments, index)
<1>1. /\ new.live = segments /\ new.index = index
      /\ new = [rows |-> new.rows, live |-> new.live, index |-> new.index]
  BY Zenon DEF Joined
<1>2. Map(new.rows, {"Put", "Delete"})
  BY Zenon DEF Joined, RootOK, Map
<1> QED BY Zenon, <1>1, <1>2 DEF RootOK

\* The empty root is a root.
LEMMA EmptyOK == issued \in Nat => RootOK(Empty)
BY Zenon DEF RootOK, Empty, Map, Nothing

\* Facts about the map of segments.
LEMMA RangeOfPut ==
  ASSUME NEW f, NEW k, NEW v, k \notin DOMAIN f, NEW S, Map(f, S)
  PROVE  Drop(Put(f, k, v), {k}) = f
<1> DEFINE g == Drop(Put(f, k, v), {k})
<1>1. DOMAIN g = DOMAIN f
  BY Zenon DEF Put, Drop
<1>2. \A x \in DOMAIN f : g[x] = f[x]
  BY Zenon DEF Put, Drop
<1>3. g = [x \in DOMAIN g |-> g[x]] /\ f = [x \in DOMAIN f |-> f[x]]
  BY Zenon DEF Drop, Map
<1> QED BY Zenon, <1>1, <1>2, <1>3

\* A segment adds its file to the files of the others.
LEMMA RangeOfDrop ==
  ASSUME NEW f, NEW k \in DOMAIN f
  PROVE  Range(f) = Range(Drop(f, {k})) \cup {f[k]}
BY Zenon DEF Range, Drop

-----------------------------------------------------------------------------
\* An empty store satisfies the invariant.
LEMMA SegmentInitOK == ASSUME NilIsDistinct, SegmentInit PROVE SegmentInv
<1> USE DEF SegmentInit
<1>1. SegmentTypes
  BY Zenon, EmptyOK DEF SegmentTypes, Map, Nothing
<1>2. RowsFollowSegments
  BY OverNothing DEF RowsFollowSegments, Stored, Arriving, Settled, Range, Nothing, Empty
<1>3. ClaimsExact
  BY Zenon DEF ClaimsExact, Map, Nothing, Empty
<1>4. ReadersOK
  BY Zenon DEF ReadersOK, ReaderOK, Idle
<1> QED BY Zenon, <1>1, <1>2, <1>3, <1>4 DEF SegmentInv

\* Staging a publication keeps the invariant.
LEMMA WriteImmutableOK ==
  ASSUME NilIsDistinct, SegmentInv, NEW f \in Contents, WriteImmutable(f)
  PROVE  SegmentInv'
<1> USE DEF SegmentInv
<1>1. /\ writer = NIL /\ issued \in Nat /\ issued' = issued + 1
      /\ Map(live, Contents) /\ DOMAIN live \subseteq 1 .. issued
      /\ live' = Put(live, issued + 1, f) /\ writer' = [at |-> "capture", file |-> f]
      /\ UNCHANGED <<publications, applied, mailbox, batch, redb, thread, readers>>
  BY Zenon DEF WriteImmutable, SegmentTypes
<1>2. writer' # NIL /\ issued + 1 \notin DOMAIN live
  BY <1>1 DEF NilIsDistinct
<1>3. /\ Map(live', Contents) /\ DOMAIN live' = DOMAIN live \cup {issued + 1}
      /\ live'[issued + 1] = f /\ \A s \in DOMAIN live : live'[s] = live[s]
  BY Zenon, <1>1, <1>2 DEF Put, Map
<1>4. Settled' = Settled
  BY Zenon, <1>1, <1>2, RangeOfPut DEF Settled
<1>5. SegmentTypes'
  <2>1. DOMAIN live' \subseteq 1 .. issued'
    BY <1>1, <1>3
  <2>2. RootOK(mailbox)' /\ RootOK(batch)'
    BY <1>1 DEF SegmentTypes, RootOK
  <2>3. DOMAIN redb.live \subseteq 1 .. issued'
    BY <1>1 DEF SegmentTypes
  <2> QED BY <1>1, <1>3, <2>1, <2>2, <2>3 DEF SegmentTypes
<1>6. RowsFollowSegments'
  BY Zenon, <1>1, <1>4 DEF RowsFollowSegments, Stored, Arriving
<1>7. ClaimsExact'
  <2>1. \A x \in DOMAIN staged : staged[x].unbound = 0
    BY Zenon, <1>1 DEF ClaimsExact, Map
  <2>2. staged' = Put(staged, f, [unbound |-> 1, latest_bound |-> IF f \in DOMAIN staged THEN staged[f].latest_bound ELSE NIL])
    BY <2>1 DEF WriteImmutable, ClaimsExact, Map
  <2>3. /\ DOMAIN staged' = DOMAIN staged \cup {f}
        /\ staged'[f].unbound = 1
        /\ \A x \in DOMAIN staged : staged'[x].latest_bound = staged[x].latest_bound /\ (x # f => staged'[x] = staged[x])
        /\ f \notin DOMAIN staged => staged'[f].latest_bound = NIL
    BY Zenon, <2>2 DEF Put
  <2>4. Map(staged, [unbound : {0, 1}, latest_bound : Nat \cup {NIL}])'
    BY Zenon, <2>2 DEF Put, Map, ClaimsExact
  <2>5. publications' = {<<staged'[x].latest_bound, x>> : x \in {y \in DOMAIN staged' : staged'[y].latest_bound # NIL}}
    BY <1>1, <2>3 DEF ClaimsExact
  <2>6. \A x : Bound(x) <=> Bound(x)'
    BY Zenon, <2>3 DEF Bound
  <2> QED BY <1>1, <1>2, <2>1, <2>3, <2>4, <2>5, <2>6 DEF ClaimsExact, Bound
<1>8. ReadersOK'
  BY <1>1, <1>2, <1>3 DEF ReadersOK, ReaderOK, Kept
<1> QED BY Zenon, <1>5, <1>6, <1>7, <1>8

\* Capturing the staged bytes keeps the invariant.
LEMMA CaptureOK ==
  ASSUME NilIsDistinct, SegmentInv, Capture
  PROVE  SegmentInv'
<1> USE DEF SegmentInv
<1>1. /\ writer \in [at : {"capture", "bind"}, file : Contents] /\ writer # NIL
      /\ writer.file \in DOMAIN staged /\ staged[writer.file].unbound = 1
  BY Zenon DEF Capture, SegmentTypes, ClaimsExact
<1>2. /\ writer' = [writer EXCEPT !.at = "bind"]
      /\ UNCHANGED <<live, staged, publications, applied, mailbox, batch, redb, thread, readers, issued>>
  BY <1>1 DEF Capture
<1>3. writer' \in [at : {"capture", "bind"}, file : Contents] /\ writer' # NIL /\ writer'.file = writer.file
  BY Zenon, <1>1, <1>2 DEF NilIsDistinct
<1>4. SegmentTypes'
  BY Zenon, <1>1, <1>2, <1>3 DEF SegmentTypes, RootOK
<1>5. RowsFollowSegments'
  BY Zenon, <1>1, <1>2, <1>3 DEF RowsFollowSegments, Stored, Arriving, Settled
<1>6. ClaimsExact'
  BY <1>1, <1>2, <1>3 DEF ClaimsExact, Bound
<1>7. ReadersOK'
  BY Zenon, <1>2 DEF ReadersOK, ReaderOK, Kept
<1> QED BY Zenon, <1>4, <1>5, <1>6, <1>7

\* What the batch of a mutation does to the rows and the segments.
LEMMA PublishOK ==
  ASSUME SegmentInv, NEW edits, Map(edits, {"Put", "Delete"}), Map(live, Contents)',
         DOMAIN live' \subseteq 1 .. issued, Over(Range(Settled), edits) = Range(live'), writer' = NIL,
         applied' = applied + 1, mailbox' = Joined(mailbox, edits, live', applied'),
         UNCHANGED <<batch, redb, thread, issued>>
  PROVE  SegmentTypes' /\ RowsFollowSegments'
<1> USE DEF SegmentInv
<1>1. applied \in Nat /\ applied' \in Nat \ {0}
  BY DEF SegmentTypes
<1>2. RootOK(mailbox)'
  BY <1>1, JoinedOK DEF SegmentTypes, RootOK
<1>3. mailbox'.live = live' /\ mailbox'.index = applied + 1
  BY Zenon DEF Joined
<1>4. Arriving' = Range(live')
  <2>1. Arriving' = Over(Stored, mailbox'.rows) /\ Arriving = Over(Stored, mailbox.rows)
    BY Zenon DEF Arriving, Stored
  <2>2. Over(Over(Stored, mailbox.rows), edits) = Over(Stored, mailbox'.rows)
    <3>1. /\ DOMAIN mailbox'.rows = DOMAIN mailbox.rows \cup DOMAIN edits
          /\ \A f \in DOMAIN mailbox'.rows : mailbox'.rows[f] = IF f \in DOMAIN edits THEN edits[f] ELSE mailbox.rows[f]
      BY Zenon DEF Joined
    <3> QED BY Zenon, <3>1 DEF Over
  <2>3. Arriving' = Over(Arriving, edits)
    BY Zenon, <2>1, <2>2
  <2> QED BY Zenon, <2>3 DEF RowsFollowSegments
<1>5. SegmentTypes'
  BY Zenon, <1>1, <1>2 DEF SegmentTypes, RootOK
<1>6. batch.index \in Nat /\ redb.index \in Nat /\ mailbox.index \in Nat
  BY Zenon DEF SegmentTypes, RootOK
<1>7. applied + 1 > batch.index /\ applied + 1 > redb.index
  BY <1>1, <1>6 DEF RowsFollowSegments, SegmentTypes
<1>8. RowsFollowSegments'
  BY Zenon, <1>1, <1>3, <1>4, <1>6, <1>7 DEF RowsFollowSegments, Stored, Settled
<1> QED BY Zenon, <1>5, <1>8

\* Binding a publication to its batch keeps the invariant and always finds its claim.
LEMMA BindOK ==
  ASSUME NilIsDistinct, SegmentInv, Bind
  PROVE  SegmentInv'
<1> DEFINE f == writer.file
           edits == [x \in {f} |-> "Put"]
<1> USE DEF SegmentInv
<1>1. /\ writer \in [at : {"capture", "bind"}, file : Contents] /\ writer # NIL
      /\ f \in DOMAIN staged /\ staged[f].unbound = 1
      /\ issued \in DOMAIN live /\ live[issued] = f
  BY Zenon DEF Bind, SegmentTypes, ClaimsExact
<1>2. /\ staged' = [staged EXCEPT ![f] = [unbound |-> @.unbound - 1, latest_bound |-> applied + 1]]
      /\ publications' = (publications \ {<<staged[f].latest_bound, f>>}) \cup {<<applied + 1, f>>}
      /\ applied' = applied + 1 /\ mailbox' = Joined(mailbox, edits, live, applied') /\ writer' = NIL
      /\ UNCHANGED <<live, batch, redb, thread, readers, issued>>
  BY <1>1 DEF Bind, Publish
<1>3. SegmentTypes' /\ RowsFollowSegments'
  <2>1. Range(live) = Range(Settled) \cup {f}
    BY <1>1, RangeOfDrop DEF Settled
  <2>2. Over(Range(Settled), edits) = Range(live)
    BY Zenon, <2>1 DEF Over
  <2>3. Map(edits, {"Put", "Delete"})
    BY Zenon DEF Map
  <2> HIDE DEF edits
  <2> QED BY Zenon, <1>2, <2>2, <2>3, PublishOK DEF SegmentTypes
<1>4. applied \in Nat /\ applied + 1 # NIL /\ batch.index \in Nat /\ redb.index \in Nat
      /\ applied + 1 > batch.index /\ applied + 1 > redb.index
  BY <1>2, <1>3 DEF SegmentTypes, NilIsDistinct, RowsFollowSegments, RootOK, Joined
<1>5. /\ DOMAIN staged' = DOMAIN staged
      /\ staged'[f] = [unbound |-> 0, latest_bound |-> applied + 1]
      /\ \A x \in DOMAIN staged \ {f} : staged'[x] = staged[x]
  BY <1>1, <1>2 DEF ClaimsExact, Map
<1>6. ClaimsExact'
  <2>1. Map(staged, [unbound : {0, 1}, latest_bound : Nat \cup {NIL}])'
    BY <1>1, <1>2, <1>4, <1>5 DEF Map, ClaimsExact
  <2>2. publications' = {<<staged'[x].latest_bound, x>> : x \in {y \in DOMAIN staged' : staged'[y].latest_bound # NIL}}
    BY <1>1, <1>2, <1>4, <1>5 DEF ClaimsExact
  <2>3. \A x \in DOMAIN mailbox'.rows : mailbox'.rows[x] = "Put" => x = f \/ (x \in DOMAIN mailbox.rows /\ mailbox.rows[x] = "Put")
    <3>1. DOMAIN mailbox'.rows = DOMAIN mailbox.rows \cup DOMAIN edits
      BY <1>2, JoinedRows
    <3>2. \A x \in DOMAIN mailbox'.rows : mailbox'.rows[x] = IF x \in DOMAIN edits THEN edits[x] ELSE mailbox.rows[x]
      BY <1>2, JoinedRows
    <3>3. DOMAIN edits = {f}
      BY Zenon
    <3> HIDE DEF edits
    <3> QED BY Zenon, <3>1, <3>2, <3>3
  <2>4. \A x \in DOMAIN staged : staged[x].unbound = 1 <=> x = f
    BY Zenon, <1>1 DEF ClaimsExact
  <2>5. \A x : Bound(x) => Bound(x)'
    BY <1>4, <1>5 DEF Bound
  <2>6. \A x \in DOMAIN staged' : staged'[x].unbound # 1
    BY <1>5, <2>4
  <2>7. \A x \in DOMAIN staged' :
          /\ staged'[x].unbound = 0 => staged'[x].latest_bound # NIL
          /\ staged'[x].latest_bound # NIL => /\ staged'[x].latest_bound <= applied'
                                              /\ thread # "release" => staged'[x].latest_bound > redb.index
    BY <1>2, <1>4, <1>5 DEF ClaimsExact, Map
  <2>8. \A x \in DOMAIN mailbox'.rows : mailbox'.rows[x] = "Put" => Bound(x)' /\ staged'[x].latest_bound > batch.index
    BY <1>1, <1>4, <1>5, <2>3, <2>5 DEF ClaimsExact, Bound
  <2>9. thread # "release" => \A x \in DOMAIN batch.rows : batch.rows[x] = "Put" => Bound(x)'
    BY Zenon, <2>5 DEF ClaimsExact
  <2>10. DOMAIN staged' \subseteq Contents
    BY Zenon, <1>5 DEF ClaimsExact
  <2> HIDE DEF f, edits
  <2> QED BY Zenon, <1>2, <2>1, <2>2, <2>6, <2>7, <2>8, <2>9, <2>10 DEF ClaimsExact
<1>7. ReadersOK'
  <2>1. \A x : Kept(x) => Kept(x)'
    BY Zenon, <1>2 DEF Kept, Joined
  <2> QED BY Zenon, <1>2, <2>1 DEF ReadersOK, ReaderOK
<1> QED BY Zenon, <1>3, <1>6, <1>7

\* Removing a segment keeps the invariant: the file goes with its last segment.
LEMMA RetireOK ==
  ASSUME NilIsDistinct, SegmentInv, NEW gone \in SUBSET DOMAIN live, Retire(gone)
  PROVE  SegmentInv'
<1> DEFINE edits == [x \in Retired(gone, live') |-> "Delete"]
<1> USE DEF SegmentInv
<1>1. /\ writer = NIL /\ writer' = NIL /\ live' = Drop(live, gone) /\ applied' = applied + 1
      /\ mailbox' = Joined(mailbox, edits, live', applied')
      /\ UNCHANGED <<staged, publications, batch, redb, thread, readers, issued>>
  BY Zenon DEF Retire
<1>2. /\ Map(live, Contents) /\ Map(live', Contents) /\ DOMAIN live' = DOMAIN live \ gone
      /\ \A s \in DOMAIN live' : live'[s] = live[s]
  BY Zenon, <1>1 DEF SegmentTypes, Map, Drop
<1>3. SegmentTypes' /\ RowsFollowSegments'
  <2>1. Settled = live
    BY Zenon, <1>1 DEF Settled
  <2>2. Over(Range(live), edits) = Range(live) \ Retired(gone, live')
    BY Zenon DEF Over
  <2>3. Range(live) \ Retired(gone, live') = Range(live')
    BY Zenon, <1>2 DEF Retired, Range
  <2>4. Map(edits, {"Put", "Delete"})
    BY Zenon DEF Map
  <2>5. DOMAIN live' \subseteq 1 .. issued
    BY Zenon, <1>2 DEF SegmentTypes
  <2> HIDE DEF edits
  <2> QED BY Zenon, <1>1, <1>2, <2>1, <2>2, <2>3, <2>4, <2>5, PublishOK
<1>4. \A x \in DOMAIN mailbox'.rows :
        /\ mailbox'.rows[x] = "Put" => x \in DOMAIN mailbox.rows /\ mailbox.rows[x] = "Put"
        /\ mailbox'.rows[x] # "Put" => x \in Retired(gone, live') \/ (x \in DOMAIN mailbox.rows /\ mailbox.rows[x] # "Put")
  <2>1. DOMAIN mailbox'.rows = DOMAIN mailbox.rows \cup DOMAIN edits
    BY <1>1, JoinedRows
  <2>2. \A x \in DOMAIN mailbox'.rows : mailbox'.rows[x] = IF x \in DOMAIN edits THEN edits[x] ELSE mailbox.rows[x]
    BY <1>1, JoinedRows
  <2>3. DOMAIN edits = Retired(gone, live') /\ \A x \in DOMAIN edits : edits[x] = "Delete"
    BY Zenon
  <2> HIDE DEF edits
  <2>4. ASSUME NEW x \in DOMAIN mailbox'.rows
        PROVE  /\ mailbox'.rows[x] = "Put" => x \in DOMAIN mailbox.rows /\ mailbox.rows[x] = "Put"
               /\ mailbox'.rows[x] # "Put" => x \in Retired(gone, live') \/ (x \in DOMAIN mailbox.rows /\ mailbox.rows[x] # "Put")
    BY Zenon, <2>1, <2>2, <2>3
  <2> QED BY Zenon, <2>4
<1>5. ClaimsExact'
  BY <1>1, <1>4 DEF ClaimsExact, Bound, SegmentTypes, Map
<1>6. ReadersOK'
  <2>1. ASSUME NEW r \in Readers PROVE ReaderOK(readers[r])'
    <3>1. CASE readers[r].at = "disk" /\ readers[r].segment \in DOMAIN live'
      <4>1. readers[r].segment \in DOMAIN live /\ readers[r].file \in Range(live') /\ Kept(readers[r].file)
        BY <1>1, <1>2, <3>1 DEF ReadersOK, ReaderOK, Range
      <4>2. Kept(readers[r].file)'
        BY Zenon, <1>1, <1>4, <4>1 DEF Kept, Retired
      <4> QED BY Zenon, <1>1, <1>2, <3>1, <4>2 DEF ReadersOK, ReaderOK
    <3>2. CASE ~(readers[r].at = "disk" /\ readers[r].segment \in DOMAIN live')
      BY Zenon, <1>1, <1>2, <3>2 DEF ReadersOK, ReaderOK
    <3> QED BY Zenon, <3>1, <3>2
  <2> QED BY Zenon, <1>1, <2>1 DEF ReadersOK
<1> QED BY Zenon, <1>3, <1>5, <1>6

\* The persistence thread takes the root and joins it to what it retained.
LEMMA TakeMailboxOK ==
  ASSUME NilIsDistinct, SegmentInv, TakeMailbox
  PROVE  SegmentInv'
<1> USE DEF SegmentInv
<1>1. /\ batch' = Joined(batch, mailbox.rows, mailbox.live, mailbox.index) /\ mailbox' = Empty
      /\ thread = "idle" /\ thread' = "commit" /\ mailbox.index \in Nat \ {0}
      /\ UNCHANGED <<live, staged, publications, writer, applied, redb, readers, issued>>
  BY DEF TakeMailbox, SegmentTypes, RootOK
<1>2. RootOK(batch)' /\ RootOK(mailbox)'
  <2>1. RootOK(Joined(batch, mailbox.rows, mailbox.live, mailbox.index))
    BY Zenon, <1>1, JoinedOK DEF SegmentTypes, RootOK
  <2> QED BY Zenon, <1>1, <2>1, EmptyOK DEF SegmentTypes, RootOK
<1>3. SegmentTypes'
  BY Zenon, <1>1, <1>2 DEF SegmentTypes
<1>4. batch'.live = mailbox.live /\ batch'.index = mailbox.index /\ mailbox'.rows = Nothing /\ mailbox'.index = 0
  BY Zenon, <1>1 DEF Joined, Empty
<1>5. Stored' = Arriving
  <2>1. Over(Over(redb.rows, batch.rows), mailbox.rows)
          = Over(redb.rows, Joined(batch, mailbox.rows, mailbox.live, mailbox.index).rows)
    BY Zenon DEF Over, Joined
  <2> QED BY Zenon, <1>1, <2>1 DEF Stored, Arriving
<1>6. Arriving' = Stored'
  BY Zenon, <1>4, OverNothing DEF Arriving
<1>7. Settled' = Settled
  BY Zenon, <1>1 DEF Settled
<1>8. RowsFollowSegments'
  BY Zenon, <1>1, <1>4, <1>5, <1>6, <1>7 DEF RowsFollowSegments
<1>9. \A x \in DOMAIN batch'.rows :
        \/ x \in DOMAIN mailbox.rows /\ batch'.rows[x] = mailbox.rows[x]
        \/ x \in DOMAIN batch.rows /\ batch'.rows[x] = batch.rows[x]
  <2>1. DOMAIN batch'.rows = DOMAIN batch.rows \cup DOMAIN mailbox.rows
    BY <1>1, JoinedRows
  <2>2. \A x \in DOMAIN batch'.rows : batch'.rows[x] = IF x \in DOMAIN mailbox.rows THEN mailbox.rows[x] ELSE batch.rows[x]
    BY <1>1, JoinedRows
  <2> QED BY Zenon, <2>1, <2>2
<1>10. ClaimsExact'
  BY <1>1, <1>4, <1>9 DEF ClaimsExact, Bound, Nothing
<1>11. ReadersOK'
  <2>1. \A x : Kept(x) => Kept(x)'
    BY Zenon, <1>1, <1>4, <1>9 DEF Kept, Nothing
  <2> QED BY Zenon, <1>1, <2>1 DEF ReadersOK, ReaderOK
<1> QED BY Zenon, <1>3, <1>8, <1>10, <1>11

\* A committed batch is on disk.
LEMMA CommitOK ==
  ASSUME NilIsDistinct, SegmentInv, Commit
  PROVE  SegmentInv'
<1> USE DEF SegmentInv
<1>1. /\ redb' = [rows |-> Stored, live |-> batch.live, index |-> batch.index]
      /\ thread = "commit" /\ thread' = "release"
      /\ UNCHANGED <<live, staged, publications, writer, applied, mailbox, batch, readers, issued>>
  BY Zenon DEF Commit, Stored, Over
<1>2. redb'.rows = Stored /\ redb'.live = batch.live /\ redb'.index = batch.index
  BY Zenon, <1>1
<1>3. batch.index \in Nat /\ redb.index \in Nat /\ batch.index > redb.index /\ batch.index # 0 /\ mailbox.index \in Nat
  BY <1>1 DEF SegmentTypes, RootOK, RowsFollowSegments
<1>4. SegmentTypes'
  BY Zenon, <1>1, <1>2, <1>3 DEF SegmentTypes, RootOK
<1>5. Stored' = Stored /\ Arriving' = Arriving /\ Settled' = Settled
  BY Zenon, <1>1, <1>2, OverTwice DEF Stored, Arriving, Settled
<1>6. RowsFollowSegments'
  BY Zenon, <1>1, <1>2, <1>3, <1>5 DEF RowsFollowSegments
<1>7. ClaimsExact'
  BY Zenon, <1>1 DEF ClaimsExact, Bound
<1>8. ReadersOK'
  <2>1. \A x : Kept(x) => Kept(x)'
    BY Zenon, <1>1, <1>2 DEF Kept, Stored, Over
  <2> QED BY Zenon, <1>1, <2>1 DEF ReadersOK, ReaderOK
<1> QED BY Zenon, <1>4, <1>6, <1>7, <1>8

\* A batch that failed is retained.
LEMMA CommitFailsOK ==
  ASSUME NilIsDistinct, SegmentInv, CommitFails
  PROVE  SegmentInv'
<1> USE DEF SegmentInv
<1>1. /\ thread = "commit" /\ thread' = "idle"
      /\ UNCHANGED <<live, staged, publications, writer, applied, mailbox, batch, redb, readers, issued>>
  BY Zenon DEF CommitFails
<1>2. SegmentTypes'
  BY Zenon, <1>1 DEF SegmentTypes, RootOK
<1>3. RowsFollowSegments'
  BY Zenon, <1>1 DEF RowsFollowSegments, Stored, Arriving, Settled
<1>4. ClaimsExact'
  BY Zenon, <1>1 DEF ClaimsExact, Bound
<1>5. ReadersOK'
  BY Zenon, <1>1 DEF ReadersOK, ReaderOK, Kept
<1> QED BY Zenon, <1>2, <1>3, <1>4, <1>5

\* Releasing one publication up to the durable index keeps the invariant: a claim of a
\* later batch, or of a publication in progress, keeps the bytes staged.
LEMMA ReleaseOneOK ==
  ASSUME NilIsDistinct, SegmentInv, thread = "release",
         NEW p \in publications, p[1] <= batch.index,
         publications' = publications \ {p}, staged' = Released(p[2]),
         UNCHANGED <<live, writer, applied, mailbox, batch, redb, thread, readers, issued>>
  PROVE  SegmentInv'
<1> DEFINE f == p[2]
<1> USE DEF SegmentInv
<1>1. f \in DOMAIN staged /\ staged[f].latest_bound # NIL /\ p = <<staged[f].latest_bound, f>>
  BY DEF ClaimsExact
<1>2. SegmentTypes'
  BY Zenon DEF SegmentTypes, RootOK
<1>3. RowsFollowSegments'
  BY Zenon DEF RowsFollowSegments, Stored, Arriving, Settled
<1>4. /\ staged[f] \in [unbound : {0, 1}, latest_bound : Nat \cup {NIL}]
      /\ staged[f].latest_bound \in Nat /\ staged[f].latest_bound <= batch.index /\ batch.index \in Nat
  BY <1>1 DEF ClaimsExact, Map, SegmentTypes, RootOK
<1>5. /\ DOMAIN staged' \subseteq DOMAIN staged /\ DOMAIN staged \subseteq DOMAIN staged' \cup {f}
      /\ \A x \in DOMAIN staged' : x # f => staged'[x] = staged[x]
      /\ staged[f].unbound = 0 => f \notin DOMAIN staged'
      /\ staged[f].unbound # 0 => f \in DOMAIN staged' /\ staged'[f] = [unbound |-> 1, latest_bound |-> NIL]
  BY Zenon, <1>1, <1>4 DEF Released, Drop, ClaimsExact, Map
<1>6. Map(staged, [unbound : {0, 1}, latest_bound : Nat \cup {NIL}])'
  <2>1. staged' = [x \in DOMAIN staged' |-> staged'[x]]
    BY Zenon, <1>1 DEF Released, Drop, ClaimsExact, Map
  <2>2. \A x \in DOMAIN staged' : staged'[x] \in [unbound : {0, 1}, latest_bound : Nat \cup {NIL}]
    BY <1>5 DEF ClaimsExact, Map
  <2> QED BY Zenon, <2>1, <2>2 DEF Map
<1>7. publications' = {<<staged'[x].latest_bound, x>> : x \in {y \in DOMAIN staged' : staged'[y].latest_bound # NIL}}
  BY <1>1, <1>4, <1>5 DEF ClaimsExact
<1>8. \A x \in DOMAIN mailbox.rows : mailbox.rows[x] = "Put" => x # f /\ Bound(x)'
  BY <1>1, <1>4, <1>5 DEF ClaimsExact, Bound, SegmentTypes, RootOK
<1>9. ClaimsExact'
  <2>1. \A x \in DOMAIN staged' : staged'[x].unbound = 1 <=> writer # NIL /\ writer.file = x
    BY <1>4, <1>5 DEF ClaimsExact
  <2>2. writer # NIL => writer.file \in DOMAIN staged'
    BY <1>4, <1>5 DEF ClaimsExact
  <2>3. \A x \in DOMAIN staged' :
          /\ staged'[x].unbound = 0 => staged'[x].latest_bound # NIL
          /\ staged'[x].latest_bound # NIL => staged'[x].latest_bound <= applied
    BY <1>4, <1>5 DEF ClaimsExact
  <2>4. \A x \in DOMAIN mailbox.rows : mailbox.rows[x] = "Put" => staged'[x].latest_bound > batch.index
    BY Zenon, <1>5, <1>8 DEF ClaimsExact, Bound
  <2>5. DOMAIN staged' \subseteq Contents
    BY Zenon, <1>5 DEF ClaimsExact
  <2> HIDE DEF f
  <2> QED BY Zenon, <1>6, <1>7, <1>8, <2>1, <2>2, <2>3, <2>4, <2>5 DEF ClaimsExact
<1>10. ReadersOK'
  BY Zenon DEF ReadersOK, ReaderOK, Kept
<1> QED BY Zenon, <1>2, <1>3, <1>9, <1>10

\* The release ends when nothing bound is left at or below the durable index.
LEMMA ReleaseDoneOK ==
  ASSUME NilIsDistinct, SegmentInv, thread = "release",
         \A p \in publications : ~(p[1] <= batch.index),
         thread' = "idle", batch' = Empty,
         UNCHANGED <<live, staged, publications, writer, applied, mailbox, redb, readers, issued>>
  PROVE  SegmentInv'
<1> USE DEF SegmentInv
<1>1. batch'.rows = Nothing /\ batch'.index = 0
  BY Zenon DEF Empty
<1>2. /\ Stored = redb.rows /\ batch.index = redb.index /\ batch.live = redb.live
      /\ batch.index \in Nat \ {0} /\ redb.index \in Nat /\ mailbox.index \in Nat
  BY Zenon DEF RowsFollowSegments, SegmentTypes, RootOK
<1>3. SegmentTypes'
  BY Zenon, EmptyOK DEF SegmentTypes, RootOK
<1>4. Stored' = Stored
  BY Zenon, <1>1, <1>2, OverNothing DEF Stored
<1>5. Arriving' = Arriving /\ Settled' = Settled
  BY Zenon, <1>4 DEF Arriving, Settled
<1>6. RowsFollowSegments'
  BY <1>1, <1>2, <1>4, <1>5 DEF RowsFollowSegments
<1>7. \A x \in DOMAIN staged : staged[x].latest_bound # NIL => staged[x].latest_bound > redb.index
  <2>1. ASSUME NEW x \in DOMAIN staged, staged[x].latest_bound # NIL
        PROVE  staged[x].latest_bound > redb.index
    <3>1. <<staged[x].latest_bound, x>> \in publications
      BY Zenon, <2>1 DEF ClaimsExact
    <3>2. ~(staged[x].latest_bound <= batch.index)
      BY Zenon, <3>1
    <3>3. staged[x].latest_bound \in Nat
      BY Zenon, <2>1 DEF ClaimsExact, Map
    <3> QED BY <1>2, <3>2, <3>3
  <2> QED BY Zenon, <2>1
<1>8. ClaimsExact'
  <2>1. \A x \in DOMAIN mailbox.rows : mailbox.rows[x] = "Put" => Bound(x) /\ staged[x].latest_bound > 0
    BY <1>2 DEF ClaimsExact, Bound, Map
  <2> QED BY <1>1, <1>7, <2>1 DEF ClaimsExact, Bound, Nothing
<1>9. ReadersOK'
  BY Zenon, <1>1 DEF ReadersOK, ReaderOK, Kept, Nothing
<1> QED BY Zenon, <1>3, <1>6, <1>8, <1>9

\* Every step of the release keeps the invariant.
LEMMA ReleaseOK ==
  ASSUME NilIsDistinct, SegmentInv, Release
  PROVE  SegmentInv'
<1> DEFINE covered == {p \in publications : p[1] <= batch.index}
<1>1. CASE covered = {}
  BY Zenon, <1>1, ReleaseDoneOK DEF Release
<1>2. CASE covered # {}
  <2>1. PICK p \in covered : publications' = publications \ {p} /\ staged' = Released(p[2]) /\ UNCHANGED <<thread, batch>>
    BY Zenon, <1>2 DEF Release
  <2> QED BY Zenon, <2>1, ReleaseOneOK DEF Release
<1> QED BY Zenon, <1>1, <1>2

\* A reader that looks its segment up keeps the invariant.
LEMMA DescriptorOK ==
  ASSUME NilIsDistinct, SegmentInv, NEW r \in Readers, NEW s \in DOMAIN live, Descriptor(r, s)
  PROVE  SegmentInv'
<1> USE DEF SegmentInv
<1>1. /\ readers' = [readers EXCEPT ![r] = [at |-> "pins", segment |-> s, file |-> live[s]]]
      /\ UNCHANGED <<live, staged, publications, writer, applied, mailbox, batch, redb, thread, issued>>
  BY Zenon DEF Descriptor
<1>2. SegmentTypes'
  BY Zenon, <1>1 DEF SegmentTypes, RootOK
<1>3. RowsFollowSegments'
  BY Zenon, <1>1 DEF RowsFollowSegments, Stored, Arriving, Settled
<1>4. ClaimsExact'
  BY Zenon, <1>1 DEF ClaimsExact, Bound
<1>5. s \in 1 .. issued /\ s \in Nat /\ live[s] \in Contents
  BY DEF SegmentTypes, Map
<1>6. ReadersOK'
  BY Zenon, <1>1, <1>5 DEF ReadersOK, ReaderOK, Kept
<1> QED BY Zenon, <1>2, <1>3, <1>4, <1>6

\* The bytes of a live segment that are not staged are on disk, and stay there
\* until the segment is removed.
LEMMA UnstagedIsKept ==
  ASSUME SegmentInv, NEW s \in DOMAIN live, live[s] \notin DOMAIN staged
  PROVE  Kept(live[s])
<1> DEFINE f == live[s]
<1> USE DEF SegmentInv
<1>1. f \in Range(Settled)
  <2>1. CASE writer = NIL
    BY Zenon, <2>1 DEF Settled, Range
  <2>2. CASE writer # NIL
    <3>1. s # issued
      BY Zenon, <2>2 DEF ClaimsExact, SegmentTypes
    <3>2. s \in DOMAIN Drop(live, {issued}) /\ Drop(live, {issued})[s] = f
      BY Zenon, <3>1 DEF Drop
    <3> QED BY Zenon, <2>2, <3>2 DEF Settled, Range
  <2> QED BY Zenon, <2>1, <2>2
<1>2. f \in Arriving
  BY Zenon, <1>1 DEF RowsFollowSegments
<1>3. f \notin DOMAIN mailbox.rows /\ f \in Stored
  BY Zenon, <1>2 DEF Arriving, Over, ClaimsExact, Bound
<1>4. f \in redb.rows /\ (f \in DOMAIN batch.rows => batch.rows[f] = "Put")
  <2>1. CASE thread = "release"
    BY Zenon, <1>3, <2>1 DEF RowsFollowSegments, Stored, Over
  <2>2. CASE thread # "release"
    BY Zenon, <1>3, <2>2 DEF Stored, Over, ClaimsExact, Bound
  <2> QED BY Zenon, <2>1, <2>2
<1> QED BY Zenon, <1>3, <1>4 DEF Kept

\* A reader that finds its bytes staged or on disk, or nowhere, keeps the invariant.
LEMMA PinOK ==
  ASSUME NilIsDistinct, SegmentInv, NEW r \in Readers, Pin(r)
  PROVE  SegmentInv'
<1> USE DEF SegmentInv
<1>1. UNCHANGED <<live, staged, publications, writer, applied, mailbox, batch, redb, thread, issued>>
  BY Zenon DEF Pin
<1>2. SegmentTypes'
  BY Zenon, <1>1 DEF SegmentTypes, RootOK
<1>3. RowsFollowSegments'
  BY Zenon, <1>1 DEF RowsFollowSegments, Stored, Arriving, Settled
<1>4. ClaimsExact'
  BY Zenon, <1>1 DEF ClaimsExact, Bound
<1>5. PICK to \in {"staged", "disk", "pinned", "failed"} :
        /\ readers[r].at # "idle"
        /\ readers' = [readers EXCEPT ![r].at = to]
        /\ to = "disk" => readers[r].file \notin DOMAIN staged
        /\ to = "failed" => readers[r].at = "disk" /\ readers[r].file \notin redb.rows
  BY Zenon DEF Pin, PinStep, Goes
<1>6. /\ readers' \in [Readers -> [at : {"idle", "pins", "staged", "disk", "pinned", "failed"},
                                  segment : Nat, file : Contents \cup {NIL}]]
      /\ readers'[r].at = to /\ readers'[r].segment = readers[r].segment /\ readers'[r].file = readers[r].file
      /\ \A other \in Readers \ {r} : readers'[other] = readers[other]
  BY Zenon, <1>5 DEF ReadersOK
<1>7. \A x : Kept(x)' <=> Kept(x)
  BY Zenon, <1>1 DEF Kept
<1>8. ReaderOK(readers[r])'
  <2>1. to = "disk" /\ readers[r].segment \in DOMAIN live => Kept(readers[r].file)
    BY Zenon, <1>5, UnstagedIsKept DEF ReadersOK, ReaderOK
  <2>2. to = "failed" => readers[r].segment \notin DOMAIN live
    BY Zenon, <1>5 DEF ReadersOK, ReaderOK, Kept
  <2> QED BY Zenon, <1>1, <1>5, <1>6, <1>7, <2>1, <2>2 DEF ReadersOK, ReaderOK
<1>9. \A other \in Readers \ {r} : ReaderOK(readers[other])'
  BY Zenon, <1>1, <1>6, <1>7 DEF ReadersOK, ReaderOK
<1>10. ReadersOK'
  BY Zenon, <1>6, <1>8, <1>9 DEF ReadersOK
<1> QED BY Zenon, <1>2, <1>3, <1>4, <1>10

\* A reader that is done keeps the invariant.
LEMMA UnpinOK ==
  ASSUME NilIsDistinct, SegmentInv, NEW r \in Readers, Unpin(r)
  PROVE  SegmentInv'
<1> USE DEF SegmentInv
<1>1. /\ readers' = [readers EXCEPT ![r] = Idle]
      /\ UNCHANGED <<live, staged, publications, writer, applied, mailbox, batch, redb, thread, issued>>
  BY Zenon DEF Unpin
<1>2. SegmentTypes'
  BY Zenon, <1>1 DEF SegmentTypes, RootOK
<1>3. RowsFollowSegments'
  BY Zenon, <1>1 DEF RowsFollowSegments, Stored, Arriving, Settled
<1>4. ClaimsExact'
  BY Zenon, <1>1 DEF ClaimsExact, Bound
<1>5. ReadersOK'
  BY Zenon, <1>1 DEF ReadersOK, ReaderOK, Kept, Idle
<1> QED BY Zenon, <1>2, <1>3, <1>4, <1>5

\* A restart on the same disk keeps the invariant.
LEMMA CrashOK ==
  ASSUME NilIsDistinct, SegmentInv, Crash
  PROVE  SegmentInv'
<1> USE DEF SegmentInv
<1>1. /\ live' = redb.live /\ applied' = redb.index
      /\ staged' = Nothing /\ publications' = {} /\ writer' = NIL
      /\ mailbox' = Empty /\ batch' = Empty /\ thread' = "idle"
      /\ readers' = [r \in Readers |-> Idle]
      /\ UNCHANGED <<redb, issued>>
  BY Zenon DEF Crash
<1>2. /\ mailbox'.rows = Nothing /\ mailbox'.index = 0 /\ batch'.rows = Nothing /\ batch'.index = 0
      /\ DOMAIN Nothing = {}
  BY Zenon, <1>1 DEF Empty, Nothing
<1>3. SegmentTypes'
  <2>1. RootOK(mailbox)' /\ RootOK(batch)'
    BY Zenon, <1>1, EmptyOK DEF SegmentTypes, RootOK
  <2> QED BY Zenon, <1>1, <2>1 DEF SegmentTypes
<1>4. Stored' = redb.rows /\ Arriving' = redb.rows /\ Settled' = redb.live
  BY Zenon, <1>1, <1>2, OverNothing DEF Stored, Arriving, Settled
<1>5. RowsFollowSegments'
  BY Zenon, <1>1, <1>2, <1>4 DEF RowsFollowSegments, SegmentTypes
<1>6. ClaimsExact'
  BY Zenon, <1>1, <1>2 DEF ClaimsExact, Map, Nothing
<1>7. ReadersOK'
  BY Zenon, <1>1 DEF ReadersOK, ReaderOK, Idle
<1> QED BY Zenon, <1>3, <1>5, <1>6, <1>7

\* Every step keeps the invariant.
LEMMA SegmentStep ==
  ASSUME NilIsDistinct, SegmentInv, [SegmentNext]_segmentVars
  PROVE  SegmentInv'
<1>1. CASE UNCHANGED segmentVars
  <2>1. SegmentTypes'
    BY Zenon, <1>1 DEF segmentVars, SegmentInv, SegmentTypes, RootOK
  <2>2. RowsFollowSegments'
    BY Zenon, <1>1 DEF segmentVars, SegmentInv, RowsFollowSegments, Stored, Arriving, Settled
  <2>3. ClaimsExact'
    BY Zenon, <1>1 DEF segmentVars, SegmentInv, ClaimsExact, Bound
  <2>4. ReadersOK'
    BY Zenon, <1>1 DEF segmentVars, SegmentInv, ReadersOK, ReaderOK, Kept
  <2> QED BY Zenon, <2>1, <2>2, <2>3, <2>4 DEF SegmentInv
<1>2. CASE SegmentNext
  BY Zenon, <1>2, WriteImmutableOK, CaptureOK, BindOK, RetireOK, TakeMailboxOK, CommitOK, CommitFailsOK, ReleaseOK,
     DescriptorOK, PinOK, UnpinOK, CrashOK DEF SegmentNext
<1> QED BY Zenon, <1>1, <1>2

\* The invariant holds always.
LEMMA SegmentAlways == ASSUME NilIsDistinct PROVE SegmentSpec => []SegmentInv
<1>1. SegmentInit => SegmentInv
  BY Zenon, SegmentInitOK
<1>2. SegmentInv /\ [SegmentNext]_segmentVars => SegmentInv'
  BY Zenon, SegmentStep
<1> QED BY <1>1, <1>2, PTL DEF SegmentSpec

\* A read of a payload fails only when its segment was removed meanwhile, whatever the
\* publications, removals, commits, releases, readers and crashes around it.
THEOREM LiveBytesAreFound == ASSUME NilIsDistinct PROVE SegmentSpec => []ReadsFindLive
<1>1. SegmentInv => ReadsFindLive
  BY Zenon DEF SegmentInv, ReadersOK, ReaderOK, ReadsFindLive
<1> QED BY <1>1, SegmentAlways, PTL

\* Payload bytes are staged or on disk exactly as long as something needs them: the
\* disk holds the files its metadata names and no others, each staged file has a claim
\* that a later release or publication settles, and a publication finds its claim.
THEOREM BytesAreKept == ASSUME NilIsDistinct PROVE SegmentSpec => []BytesKeptExactly
<1>1. SegmentInv => BytesKeptExactly
  BY DEF SegmentInv, RowsFollowSegments, ClaimsExact, Map, SegmentTypes, BytesKeptExactly
<1> QED BY <1>1, SegmentAlways, PTL

=============================================================================
