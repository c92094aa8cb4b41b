---------------------------- MODULE Transactions ----------------------------
(***************************************************************************)
(* Explicit transactions (crates/server/src/server/database.rs): the       *)
(* admission registry, the lifecycle of each transaction's resource, the   *)
(* operations of its owner (run, commit, rollback, drop) and the           *)
(* maintenance task that expires transactions.                             *)
(*                                                                         *)
(* A step is what happens between two lock operations.  The registry lock  *)
(* is held across steps only by the maintenance task, the lifecycle lock of*)
(* a transaction only by its owner.  One batch of a transaction accounts   *)
(* for one byte above the minimum.  The fence of a standalone node never   *)
(* changes, so expiry is the only reason to terminate.                     *)
(***************************************************************************)
EXTENDS Integers, FiniteSets, FiniteSetsExt

CONSTANTS
  Tx,       \* transactions, each used once (Uuid::new_v4)
  Pins,     \* (project, bookmark) keys of snapshots
  MaxRuns   \* bound on the batches of one transaction

ASSUME BoundsAssumption == MaxRuns \in Nat /\ IsFiniteSet(Tx)

MinBytes == 1

VARIABLES
  pc,         \* where the owner of a transaction is
  op,         \* what it does after ensure_active
  lifecycle, terminal, accounted,  \* TransactionResource, TransactionState
  expired,    \* whether the deadline has passed
  records,    \* transactions with a record in the registry
  bytes, pin, finalizing,          \* fields of OpenTransactionRecord
  encoded_bytes, pins,             \* totals of TransactionAdmissionState
  sweep,      \* what maintain still has to terminate; it holds the registry
  committed   \* transactions whose mutation was applied

ownerVars == <<pc, op, accounted, expired, committed>>
resourceVars == <<lifecycle, terminal>>
registryVars == <<records, bytes, pin, finalizing, encoded_bytes, pins>>
vars == <<ownerVars, resourceVars, registryVars, sweep>>

Init ==
  /\ pc = [t \in Tx |-> "unborn"]
  /\ op = [t \in Tx |-> "run"]
  /\ lifecycle = [t \in Tx |-> "active"]
  /\ terminal = [t \in Tx |-> 0]
  /\ accounted = [t \in Tx |-> MinBytes]
  /\ expired = [t \in Tx |-> FALSE]
  /\ records = {}
  /\ bytes = [t \in Tx |-> 0]
  /\ pin \in [Tx -> Pins]
  /\ finalizing = [t \in Tx |-> FALSE]
  /\ encoded_bytes = 0
  /\ pins = [p \in Pins |-> 0]
  /\ sweep = {}
  /\ committed = {}

Go(t, point) == pc' = [pc EXCEPT ![t] = point]

RegistryFree == sweep = {}

(* Mutant: try_terminate does not respect the lock of a running query.     *)
HoldsNothing(t) == FALSE

(* The owner holds the lifecycle lock.                                     *)
Holds(t) == pc[t] \in {"checking", "refused", "running", "emitting", "loaded"}

(* Mutant: a check that only asks whether the record is still there.       *)
LiveUnexpired(t) == t \in records /\ ~finalizing[t]

(* The record exists, is not finalizing and its deadline has not passed.   *)
Live(t) == t \in records /\ ~finalizing[t] /\ ~expired[t]

(* Mutant: removal forgets the pin.                                        *)
RemoveKeepsPin(t) ==
  /\ records' = records \ {t}
  /\ encoded_bytes' = encoded_bytes - bytes[t]
  /\ bytes' = [bytes EXCEPT ![t] = 0]
  /\ UNCHANGED <<pin, finalizing, pins>>

(* remove_transaction_record.                                              *)
Remove(t) ==
  /\ records' = records \ {t}
  /\ encoded_bytes' = encoded_bytes - bytes[t]
  /\ bytes' = [bytes EXCEPT ![t] = 0]
  /\ pins' = [pins EXCEPT ![pin[t]] = @ - 1]
  /\ UNCHANGED <<pin, finalizing>>

(* TransactionAdmissionRegistry::resize of a live record.                  *)
Resize(t, n) ==
  /\ bytes' = [bytes EXCEPT ![t] = n]
  /\ encoded_bytes' = encoded_bytes - bytes[t] + n
  /\ UNCHANGED <<records, pin, finalizing, pins>>

-----------------------------------------------------------------------------
(* begin_transaction; the deadline is in the future.                       *)
Begin(t) ==
  /\ pc[t] = "unborn" /\ RegistryFree
  /\ Go(t, "idle")
  /\ records' = records \cup {t}
  /\ bytes' = [bytes EXCEPT ![t] = accounted[t]]
  /\ encoded_bytes' = encoded_bytes + accounted[t]
  /\ pins' = [pins EXCEPT ![pin[t]] = @ + 1]
  /\ UNCHANGED <<op, accounted, expired, committed, resourceVars, pin, finalizing, sweep>>

DeadlinePasses(t) ==
  /\ pc[t] \notin {"unborn", "gone"} /\ ~expired[t]
  /\ expired' = [expired EXCEPT ![t] = TRUE]
  /\ UNCHANGED <<pc, op, accounted, committed, resourceVars, registryVars, sweep>>

(* run or commit is called.                                                *)
Call(t) ==
  /\ pc[t] = "idle"
  /\ \E o \in {"run", "commit"} : op' = [op EXCEPT ![t] = o]
  /\ Go(t, "ensure")
  /\ UNCHANGED <<accounted, expired, committed, resourceVars, registryVars, sweep>>

(* An error leaves a transaction open after run; commit consumes it.       *)
Refused(t) == IF op[t] = "run" THEN "idle" ELSE "drop"

(* ensure_active: the database is poisoned by a failed apply, ...          *)
EnsureUnhealthy(t) ==
  /\ pc[t] = "ensure"
  /\ Go(t, Refused(t))
  /\ UNCHANGED <<op, accounted, expired, committed, resourceVars, registryVars, sweep>>

(* ... or the registry is asked; after a refusal the lifecycle is locked   *)
(* once to find the error to report.                                       *)
EnsureRegistry(t) ==
  /\ pc[t] = "ensure" /\ RegistryFree
  /\ Go(t, IF Live(t) THEN "checked" ELSE "refused")
  /\ UNCHANGED <<op, accounted, expired, committed, resourceVars, registryVars, sweep>>

EnsureRefused(t) ==
  /\ pc[t] = "refused"
  /\ Go(t, Refused(t))
  /\ UNCHANGED <<op, accounted, expired, committed, resourceVars, registryVars, sweep>>

(* The registry is unlocked before the lifecycle is locked.                *)
EnsureLock(t) ==
  /\ pc[t] = "checked"
  /\ Go(t, "checking")
  /\ UNCHANGED <<op, accounted, expired, committed, resourceVars, registryVars, sweep>>

EnsureLifecycle(t) ==
  /\ pc[t] = "checking"
  /\ Go(t, IF lifecycle[t] # "active" THEN Refused(t)
           ELSE IF op[t] = "run" THEN "lock" ELSE "mark")
  /\ UNCHANGED <<op, accounted, expired, committed, resourceVars, registryVars, sweep>>

-----------------------------------------------------------------------------
(* run: the lifecycle lock is held from here to the end.                   *)
RunLock(t) ==
  /\ pc[t] = "lock"
  /\ Go(t, IF lifecycle[t] = "active" THEN "running" ELSE "idle")
  /\ UNCHANGED <<op, accounted, expired, committed, resourceVars, registryVars, sweep>>

(* A request for another project, a query that fails, DDL.                 *)
RunFails(t) ==
  /\ pc[t] \in {"lock", "running"}
  /\ Go(t, "idle")
  /\ UNCHANGED <<op, accounted, expired, committed, resourceVars, registryVars, sweep>>

(* The new batch is accounted before the result is emitted.                *)
RunResize(t) ==
  /\ pc[t] = "running" /\ RegistryFree /\ accounted[t] < MinBytes + MaxRuns
  /\ IF Live(t) THEN Go(t, "emitting") /\ Resize(t, accounted[t] + 1)
                ELSE Go(t, "idle") /\ UNCHANGED registryVars
  /\ UNCHANGED <<op, accounted, expired, committed, resourceVars, sweep>>

(* The emission failed: the accounting is taken back, unless the record is *)
(* expired by now, when resize refuses.                                    *)
EmitFails(t) ==
  /\ pc[t] = "emitting" /\ RegistryFree
  /\ Go(t, "idle")
  /\ IF Live(t) THEN Resize(t, accounted[t]) ELSE UNCHANGED registryVars
  /\ UNCHANGED <<op, accounted, expired, committed, resourceVars, sweep>>

(* A termination requested meanwhile is carried out by the query itself.   *)
EmitOk(t) ==
  /\ pc[t] = "emitting"
  /\ IF terminal[t] = 0
       THEN Go(t, "loaded") /\ UNCHANGED lifecycle
       ELSE Go(t, "idle") /\ lifecycle' = [lifecycle EXCEPT ![t] = "terminal"]
  /\ UNCHANGED <<op, accounted, expired, committed, terminal, registryVars, sweep>>

RunKeeps(t) ==
  /\ pc[t] = "loaded"
  /\ accounted' = [accounted EXCEPT ![t] = @ + 1]
  /\ Go(t, "idle")
  /\ UNCHANGED <<op, expired, committed, resourceVars, registryVars, sweep>>

-----------------------------------------------------------------------------
(* commit: from mark_finalizing on maintenance leaves the record alone.    *)
MarkFinalizing(t) ==
  /\ pc[t] = "mark" /\ RegistryFree
  /\ IF Live(t)
       THEN Go(t, "take") /\ finalizing' = [finalizing EXCEPT ![t] = TRUE]
       ELSE Go(t, "drop") /\ UNCHANGED finalizing
  /\ UNCHANGED <<op, accounted, expired, committed, resourceVars, records, bytes, pin,
                 encoded_bytes, pins, sweep>>

TakeState(t) ==
  /\ pc[t] = "take"
  /\ IF lifecycle[t] = "active"
       THEN Go(t, "commit") /\ lifecycle' = [lifecycle EXCEPT ![t] = "finalizing"]
       ELSE Go(t, "drop") /\ UNCHANGED lifecycle
  /\ UNCHANGED <<op, accounted, expired, committed, terminal, registryVars, sweep>>

(* commit_state: the dependencies are stale, the write is refused or has   *)
(* run out of time; or the mutation is applied.                            *)
CommitState(t) ==
  /\ pc[t] = "commit"
  /\ Go(t, "drop")
  /\ committed' \in {committed, committed \cup {t}}
  /\ UNCHANGED <<op, accounted, expired, resourceVars, registryVars, sweep>>

(* rollback, or the owner is dropped between two calls.                    *)
Abandon(t) ==
  /\ pc[t] = "idle"
  /\ Go(t, "drop")
  /\ UNCHANGED <<op, accounted, expired, committed, resourceVars, registryVars, sweep>>

(* finish: the record is removed; without one nothing is closed.  Dropping *)
(* the transaction calls it again after commit and rollback.               *)
Finish(t) ==
  /\ pc[t] = "drop" /\ RegistryFree
  /\ IF t \in records THEN Go(t, "close") /\ Remove(t)
                      ELSE Go(t, "gone") /\ UNCHANGED registryVars
  /\ UNCHANGED <<op, accounted, expired, committed, resourceVars, sweep>>

(* Mutant: close overwrites a terminal lifecycle.                          *)
CloseAlways(t) ==
  /\ pc[t] = "close"
  /\ Go(t, "drop")
  /\ terminal' = [terminal EXCEPT ![t] = 3]
  /\ lifecycle' = [lifecycle EXCEPT ![t] = "closed"]
  /\ UNCHANGED <<op, accounted, expired, committed, registryVars, sweep>>

(* TransactionResource::close.                                             *)
Close(t) ==
  /\ pc[t] = "close"
  /\ Go(t, "drop")
  /\ terminal' = [terminal EXCEPT ![t] = 3]
  /\ lifecycle' = [lifecycle EXCEPT ![t] = IF @ = "terminal" THEN @ ELSE "closed"]
  /\ UNCHANGED <<op, accounted, expired, committed, registryVars, sweep>>

-----------------------------------------------------------------------------
(* Mutant: a transaction that was asked to stop is not looked at again.    *)
SweepableOnce(t) == t \in records /\ ~finalizing[t] /\ expired[t] /\ terminal[t] = 0

(* maintain: what it collects under the registry lock, which it keeps.     *)
Sweepable(t) == t \in records /\ ~finalizing[t] /\ expired[t]

SweepStart ==
  /\ RegistryFree
  /\ \E t \in Tx : Sweepable(t)
  /\ sweep' = {t \in Tx : Sweepable(t)}
  /\ UNCHANGED <<ownerVars, resourceVars, registryVars>>

(* try_terminate: without the lifecycle lock only the request is left, and *)
(* a finalizing transaction keeps its record.  The resource outlives the   *)
(* record, which the owner removes before it lets go of it.                *)
SweepOne(t) ==
  /\ t \in sweep
  /\ sweep' = sweep \ {t}
  /\ terminal' = [terminal EXCEPT ![t] =
                    IF Holds(t) \/ lifecycle[t] = "active" THEN 1 ELSE @]
  /\ lifecycle' = [lifecycle EXCEPT ![t] =
                     IF ~Holds(t) /\ @ = "active" THEN "terminal" ELSE @]
  /\ IF Holds(t) \/ lifecycle[t] = "finalizing" THEN UNCHANGED registryVars ELSE Remove(t)
  /\ UNCHANGED ownerVars

OwnerStep(t) ==
  \/ EnsureUnhealthy(t) \/ EnsureRegistry(t) \/ EnsureRefused(t)
  \/ EnsureLock(t) \/ EnsureLifecycle(t)
  \/ RunLock(t) \/ RunFails(t) \/ RunResize(t) \/ EmitFails(t) \/ EmitOk(t) \/ RunKeeps(t)
  \/ MarkFinalizing(t) \/ TakeState(t) \/ CommitState(t)
  \/ Finish(t) \/ Close(t)

Maintain == SweepStart \/ \E t \in Tx : SweepOne(t)

Done == (\A t \in Tx : pc[t] = "gone") /\ UNCHANGED vars

Next ==
  \/ \E t \in Tx : Begin(t) \/ DeadlinePasses(t) \/ Call(t) \/ Abandon(t) \/ OwnerStep(t)
  \/ Maintain
  \/ Done

Spec == Init /\ [][Next]_vars

(* The maintenance task ticks, and a call that has started runs to its     *)
(* end.  The task sleeps between two ticks, so a call that needs the       *)
(* registry lock gets it however often the task has taken it: SF.          *)
Fairness == WF_vars(Maintain) /\ \A t \in Tx : SF_vars(OwnerStep(t))

FairSpec == Spec /\ Fairness

-----------------------------------------------------------------------------
(* Every variable has its type; bytes are counted only for records.        *)
TypeOK ==
  /\ pc \in [Tx -> {"unborn", "idle", "ensure", "refused", "checked", "checking", "lock",
                    "running", "emitting", "loaded", "mark", "take", "commit", "drop", "close", "gone"}]
  /\ op \in [Tx -> {"run", "commit"}]
  /\ lifecycle \in [Tx -> {"active", "finalizing", "terminal", "closed"}]
  /\ terminal \in [Tx -> {0, 1, 3}]
  /\ accounted \in [Tx -> MinBytes..(MinBytes + MaxRuns)]
  /\ expired \in [Tx -> BOOLEAN]
  /\ records \in SUBSET Tx /\ sweep \in SUBSET records
  /\ bytes \in [Tx -> 0..(MinBytes + MaxRuns)]
  /\ pin \in [Tx -> Pins]
  /\ finalizing \in [Tx -> BOOLEAN]
  /\ encoded_bytes \in Nat /\ pins \in [Pins -> Nat]
  /\ committed \in SUBSET Tx

(* The totals the registry admits by are the sums over its records: resize,*)
(* finish and maintenance never lose or double a byte or a pin reference.  *)
AccountingExact ==
  /\ encoded_bytes = MapThenSumSet(LAMBDA t : bytes[t], records)
  /\ \A p \in Pins : pins[p] = Cardinality({t \in records : pin[t] = p})

(* The overlay of a transaction is accounted for as long as it is kept,    *)
(* and maintenance never takes the record from under a query in flight.    *)
RetainedIsAccounted ==
  \A t \in Tx : /\ lifecycle[t] = "active" /\ pc[t] \notin {"unborn", "close", "gone"}
                     => t \in records /\ bytes[t] >= accounted[t]
                /\ pc[t] \in {"running", "emitting", "loaded"} => t \in records

(* No transaction is both terminated by maintenance and committed: a       *)
(* commit that got past mark_finalizing is never swept, and one that was   *)
(* swept, or only asked to stop, never gets past it.                       *)
CommittedWasNotExpired ==
  \A t \in committed : lifecycle[t] \in {"finalizing", "closed"} /\ terminal[t] # 1

(* The defensive branches are dead: commit always finds the state active   *)
(* after mark_finalizing, and maintenance, whose list was made under the   *)
(* registry lock, never meets a finalizing or closed transaction.          *)
DefensiveBranchesDead ==
  /\ \A t \in Tx : pc[t] = "take" => lifecycle[t] = "active"
  /\ \A t \in sweep : lifecycle[t] \in {"active", "terminal"}

(* A terminated transaction stays terminated, whatever its owner does.     *)
TerminalIsFinal ==
  [][\A t \in Tx : lifecycle[t] = "terminal" => lifecycle'[t] = "terminal"]_vars

(* An expired transaction is released without its owner: maintenance       *)
(* removes it, unless the owner holds the lifecycle lock again and again   *)
(* (try_terminate gives up when it cannot have it).                        *)
ExpiredIsReleased ==
  \A t \in Tx : (t \in records /\ expired[t] ~> t \notin records) \/ []<>Holds(t)

(* What the program points and flags of one transaction say about each     *)
(* other; the inductive invariant behind the properties above.             *)
Consistent(t) ==
  /\ t \in sweep => t \in records /\ ~finalizing[t] /\ expired[t]
  /\ t \in records => /\ pc[t] \notin {"unborn", "close", "gone"}
                      /\ lifecycle[t] # "closed" /\ terminal[t] # 3
  /\ terminal[t] = 1 => expired[t] /\ ~finalizing[t]
  /\ lifecycle[t] = "terminal" => terminal[t] # 0 /\ expired[t]
  /\ lifecycle[t] = "closed" => pc[t] \in {"drop", "gone"}
  /\ lifecycle[t] = "finalizing" => /\ finalizing[t] /\ pc[t] \in {"commit", "drop", "close"}
                                    /\ pc[t] # "close" => t \in records
  /\ finalizing[t] => /\ pc[t] \in {"take", "commit", "drop", "close", "gone"}
                      /\ lifecycle[t] # "terminal"
  /\ pc[t] = "take" => finalizing[t] /\ lifecycle[t] = "active"
  /\ pc[t] = "commit" => lifecycle[t] = "finalizing"
  /\ pc[t] \in {"running", "emitting", "loaded"} => lifecycle[t] = "active"
  /\ terminal[t] = 3 => pc[t] \in {"drop", "gone"}
  /\ lifecycle[t] = "active" /\ pc[t] \notin {"unborn", "close", "gone"}
       => t \in records /\ bytes[t] >= accounted[t]
  /\ pc[t] \in {"emitting", "loaded"} => bytes[t] > accounted[t]
  /\ t \in committed => /\ finalizing[t] /\ lifecycle[t] \in {"finalizing", "closed"}
                        /\ pc[t] \in {"drop", "close", "gone"}

(* Every transaction is consistent in this sense.                          *)
LifecycleInv == \A t \in Tx : Consistent(t)

=============================================================================
