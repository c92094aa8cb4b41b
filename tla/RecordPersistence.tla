------------------------- MODULE RecordPersistence --------------------------
(***************************************************************************)
(* What the rows on disk are worth while operations are coalesced: the RAM *)
(* writer merges into a root it has taken out of the mailbox, the          *)
(* persistence thread takes the published root, joins it with what an      *)
(* earlier failure retained, and commits the result in one transaction.    *)
(***************************************************************************)
EXTENDS DirtyRecords

CONSTANT None  \* Option::None for a root

ASSUME NoneAssumption == None \notin Dirty

VARIABLES ram,      \* the rows that the operations published so far give, in order
          disk,     \* the rows of the last committed transaction
          pending,  \* PersistenceState::pending
          merging,  \* the root PersistenceMailbox::publish works on
          retained, \* the persistence thread's retained root
          inflight, \* the batch handed to backend.persist
          ops       \* operations absorbed so far

vars == <<ram, disk, pending, merging, retained, inflight, ops>>

Root == Dirty \cup {None}

Init ==
  /\ disk = [k \in Keys |-> Absent]
  /\ ram = disk
  /\ pending = None /\ merging = None /\ retained = None /\ inflight = None
  /\ ops = 0

OrDefault(root) == IF root = None THEN EmptyDirty ELSE root

(* publish: the pending root is swapped out under the lock ...             *)
TakeRoot ==
  /\ merging = None
  /\ ops < MaxOps
  /\ merging' = OrDefault(pending)
  /\ pending' = None
  /\ UNCHANGED <<ram, disk, retained, inflight, ops>>

(* ... each operation of the applied mutation is absorbed outside it ...   *)
AbsorbRecord(o) ==
  /\ merging # None
  /\ ops < MaxOps
  /\ merging' = Absorb(merging, o)
  /\ ram' = ApplyOp(ram, o)
  /\ ops' = ops + 1
  /\ UNCHANGED <<disk, pending, retained, inflight>>

(* ... and the merged root is put back.                                    *)
RestoreRoot ==
  /\ merging # None
  /\ pending' = merging
  /\ merging' = None
  /\ UNCHANGED <<ram, disk, retained, inflight, ops>>

(* The persistence thread joins the retained and the pending root.         *)
TakeBatch ==
  /\ inflight = None
  /\ pending # None \/ retained # None
  /\ inflight' = IF pending = None
                   THEN OrDefault(retained)
                   ELSE AbsorbAll(OrDefault(retained), pending)
  /\ pending' = None
  /\ retained' = None
  /\ UNCHANGED <<ram, disk, merging, ops>>

(* backend.persist succeeded: one transaction, all or nothing.             *)
Persisted ==
  /\ inflight # None
  /\ disk' = CommitBatch(disk, inflight)
  /\ inflight' = None
  /\ UNCHANGED <<ram, pending, merging, retained, ops>>

(* backend.persist failed: the batch is absorbed into a new retained root. *)
PersistFailed ==
  /\ inflight # None
  /\ retained' = AbsorbAll(EmptyDirty, inflight)
  /\ inflight' = None
  /\ UNCHANGED <<ram, disk, pending, merging, ops>>

(* The process stops and restores its RAM state from the records.          *)
Restart ==
  /\ ram' = disk
  /\ pending' = None /\ merging' = None /\ retained' = None /\ inflight' = None
  /\ UNCHANGED <<disk, ops>>

Next ==
  \/ TakeRoot
  \/ \E o \in RecordOp : AbsorbRecord(o)
  \/ RestoreRoot
  \/ TakeBatch
  \/ Persisted
  \/ PersistFailed
  \/ Restart

Spec == Init /\ [][Next]_vars

-----------------------------------------------------------------------------
Overlay(rows, root) == IF root = None THEN rows ELSE CommitBatch(rows, root)

(* The type of the state; a root is absent or a well-formed dirty root.    *)
TypeOK ==
  /\ ram \in Rows /\ disk \in Rows
  /\ pending \in Root /\ merging \in Root
  /\ retained \in Root /\ inflight \in Root
  /\ ops \in 0..MaxOps

(* Whatever was coalesced, split over roots, failed and retried: committing*)
(* the roots still in RAM, oldest first, on top of the disk yields exactly *)
(* the rows that ordered application of every operation produced.          *)
DiskPlusRootsIsRam ==
  ram = Overlay(Overlay(Overlay(Overlay(disk, retained), inflight), pending),
                merging)

(* No kept prefix extends another one: what makes the single-neighbour     *)
(* lookup of absorb sufficient and keeps the set from growing.             *)
Antichain(S) == \A p, q \in S : StartsWith(p, q) => p = q

PrefixesAntichain ==
  \A root \in {pending, merging, retained, inflight} :
     root # None => Antichain(root.prefixes)

(* While the writer merges, no root is published; while a batch is being   *)
(* persisted, none is retained: each operation is in one root only.        *)
RootsExclusive ==
  /\ merging # None => pending = None
  /\ inflight # None => retained = None

(* The inductive invariant behind DiskPlusRootsIsRam.                      *)
CoalescingInv ==
  TypeOK /\ PrefixesAntichain /\ RootsExclusive /\ DiskPlusRootsIsRam

=============================================================================
