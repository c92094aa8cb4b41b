------------------------- MODULE TransactionsProofs -------------------------
(***************************************************************************)
(* For every set of transactions and snapshots: expiry and commit exclude  *)
(* each other, and what a transaction retains is accounted for.            *)
(***************************************************************************)
EXTENDS Transactions, TLAPS

(* The part of the types the lifecycle argument needs.                     *)
Shapes ==
  /\ pc \in [Tx -> {"unborn", "idle", "ensure", "refused", "checked", "checking", "lock",
                    "running", "emitting", "loaded", "mark", "take", "commit", "drop", "close", "gone"}]
  /\ op \in [Tx -> {"run", "commit"}]
  /\ lifecycle \in [Tx -> {"active", "finalizing", "terminal", "closed"}]
  /\ terminal \in [Tx -> {0, 1, 3}]
  /\ accounted \in [Tx -> Nat] /\ bytes \in [Tx -> Nat]
  /\ expired \in [Tx -> BOOLEAN] /\ finalizing \in [Tx -> BOOLEAN]
  /\ records \in SUBSET Tx /\ sweep \in SUBSET Tx /\ committed \in SUBSET Tx

Inv == Shapes /\ LifecycleInv

(* Before the first begin_transaction everything is consistent.            *)
LEMMA LifecycleInit == Init => Inv
BY DEF Init, Inv, Shapes, LifecycleInv, Consistent, MinBytes

(* One step of one transaction: its owner's, or maintenance's on it.       *)
StepOf(t) == Begin(t) \/ DeadlinePasses(t) \/ Call(t) \/ Abandon(t) \/ OwnerStep(t) \/ SweepOne(t)

(* Everything but the history is untouched for the other transactions.     *)
Same(t) ==
  /\ pc'[t] = pc[t] /\ lifecycle'[t] = lifecycle[t] /\ terminal'[t] = terminal[t]
  /\ accounted'[t] = accounted[t] /\ bytes'[t] = bytes[t]
  /\ expired'[t] = expired[t] /\ finalizing'[t] = finalizing[t]
  /\ t \in records' <=> t \in records
  /\ t \in committed' <=> t \in committed
  /\ t \in sweep' => t \in sweep

(* A transaction nobody touched stays consistent.                          *)
LEMMA SameConsistent ==
  ASSUME NEW t \in Tx, Consistent(t), Same(t)
  PROVE  Consistent(t)'
BY Zenon DEF Consistent, Same

(* What one step of t does: the types are kept, t stays consistent and the *)
(* other transactions are left alone.                                      *)
Good(t) == Shapes' /\ Consistent(t)' /\ \A u \in Tx \ {t} : Same(u)

(* begin_transaction, the clock, the start of a call and a drop.           *)
LEMMA CallSteps ==
  ASSUME Inv, NEW t \in Tx
  PROVE  /\ Begin(t) => Good(t)
         /\ DeadlinePasses(t) => Good(t)
         /\ Call(t) => Good(t)
         /\ Abandon(t) => Good(t)
<1> USE DEF Inv, Shapes, Same, Good, LifecycleInv, Consistent, ownerVars, resourceVars,
            registryVars, Go, RegistryFree
<1>1. Begin(t) => Good(t)
  BY DEF Begin
<1>2. DeadlinePasses(t) => Good(t)
  BY DEF DeadlinePasses
<1>3. Call(t) => Good(t)
  BY DEF Call
<1>4. Abandon(t) => Good(t)
  BY DEF Abandon
<1> HIDE DEF Inv, Good
<1> QED BY Zenon, <1>1, <1>2, <1>3, <1>4

(* The steps of ensure_active.                                             *)
LEMMA EnsureSteps ==
  ASSUME Inv, NEW t \in Tx
  PROVE  /\ EnsureUnhealthy(t) => Good(t)
         /\ EnsureRegistry(t) => Good(t)
         /\ EnsureRefused(t) => Good(t)
         /\ EnsureLock(t) => Good(t)
         /\ EnsureLifecycle(t) => Good(t)
<1> USE DEF Inv, Shapes, Same, Good, LifecycleInv, Consistent, ownerVars, resourceVars,
            registryVars, Go, RegistryFree, Refused
<1>1. EnsureUnhealthy(t) => Good(t)
  BY DEF EnsureUnhealthy
<1>2. EnsureRegistry(t) => Good(t)
  BY DEF EnsureRegistry
<1>3. EnsureRefused(t) => Good(t)
  BY DEF EnsureRefused
<1>4. EnsureLock(t) => Good(t)
  BY DEF EnsureLock
<1>5. EnsureLifecycle(t) => Good(t)
  BY DEF EnsureLifecycle
<1> HIDE DEF Inv, Good
<1> QED BY Zenon, <1>1, <1>2, <1>3, <1>4, <1>5

(* The steps of run.                                                       *)
LEMMA RunSteps ==
  ASSUME Inv, NEW t \in Tx
  PROVE  /\ RunLock(t) => Good(t)
         /\ RunFails(t) => Good(t)
         /\ RunResize(t) => Good(t)
         /\ EmitFails(t) => Good(t)
         /\ EmitOk(t) => Good(t)
         /\ RunKeeps(t) => Good(t)
<1> USE DEF Inv, Shapes, Same, Good, LifecycleInv, Consistent, ownerVars, resourceVars,
            registryVars, Go, RegistryFree
<1>1. RunLock(t) => Good(t)
  BY DEF RunLock
<1>2. RunFails(t) => Good(t)
  BY DEF RunFails
<1>3. RunResize(t) => Good(t)
  BY DEF RunResize, Resize
<1>4. EmitFails(t) => Good(t)
  BY DEF EmitFails, Resize
<1>5. EmitOk(t) => Good(t)
  BY DEF EmitOk
<1>6. RunKeeps(t) => Good(t)
  BY DEF RunKeeps
<1> HIDE DEF Inv, Good
<1> QED BY Zenon, <1>1, <1>2, <1>3, <1>4, <1>5, <1>6

(* The steps of commit, finish, close and of maintenance on one            *)
(* transaction.                                                            *)
LEMMA EndSteps ==
  ASSUME Inv, NEW t \in Tx
  PROVE  /\ MarkFinalizing(t) => Good(t)
         /\ TakeState(t) => Good(t)
         /\ CommitState(t) => Good(t)
         /\ Finish(t) => Good(t)
         /\ Close(t) => Good(t)
         /\ SweepOne(t) => Good(t)
<1> USE DEF Inv, Shapes, Same, Good, LifecycleInv, Consistent, ownerVars, resourceVars,
            registryVars, Go, RegistryFree
<1>1. MarkFinalizing(t) => Good(t)
  <2> SUFFICES ASSUME MarkFinalizing(t) PROVE Good(t)
    BY Zenon
  <2>1. CASE ~Live(t)
    BY <2>1 DEF MarkFinalizing
  <2>2. CASE Live(t)
    <3>1. lifecycle[t] = "active" /\ terminal[t] # 1 /\ t \notin sweep
      BY Zenon, <2>2 DEF Live
    <3>2. Shapes'
      <4>1. /\ pc' = [pc EXCEPT ![t] = "take"]
            /\ finalizing' = [finalizing EXCEPT ![t] = TRUE]
            /\ UNCHANGED <<op, lifecycle, terminal, accounted, bytes, expired, records,
                           sweep, committed>>
        BY Zenon, <2>2 DEF MarkFinalizing
      <4> HIDE DEF Inv, Good, Same, LifecycleInv, Consistent
      <4>2. Shapes
        BY Zenon DEF Inv
      <4>3. /\ pc' \in [Tx -> {"unborn", "idle", "ensure", "refused", "checked", "checking",
                    "lock", "running", "emitting", "loaded", "mark", "take", "commit", "drop",
                    "close", "gone"}]
            /\ finalizing' \in [Tx -> BOOLEAN]
        BY Zenon, <4>1, <4>2
      <4> QED BY Zenon, <4>1, <4>2, <4>3
    <3>3. Consistent(t)'
      BY <2>2, <3>1 DEF MarkFinalizing
    <3>4. \A u \in Tx \ {t} : Same(u)
      BY <2>2 DEF MarkFinalizing
    <3> HIDE DEF Inv, Shapes, Same, Consistent
    <3> QED BY Zenon, <3>2, <3>3, <3>4
  <2> HIDE DEF Inv, Good
  <2> QED BY Zenon, <2>1, <2>2
<1>2. TakeState(t) => Good(t)
  BY DEF TakeState
<1>3. CommitState(t) => Good(t)
  BY DEF CommitState
<1>4. Finish(t) => Good(t)
  BY DEF Finish, Remove
<1>5. Close(t) => Good(t)
  BY DEF Close
<1>6. SweepOne(t) => Good(t)
  BY DEF SweepOne, Remove, Holds
<1> HIDE DEF Inv, Good
<1> QED BY Zenon, <1>1, <1>2, <1>3, <1>4, <1>5, <1>6

(* Every step of or on one transaction is good.                            *)
LEMMA EveryStep ==
  ASSUME Inv, NEW t \in Tx, StepOf(t)
  PROVE  Good(t)
BY Zenon, CallSteps, EnsureSteps, RunSteps, EndSteps DEF StepOf, OwnerStep

(* Every step of the system preserves the invariant.                       *)
LEMMA LifecycleStep ==
  ASSUME Inv, [Next]_vars
  PROVE  Inv'
<1>1. ASSUME NEW t \in Tx, StepOf(t) PROVE Inv'
  <2>1. Good(t)
    BY Zenon, <1>1, EveryStep
  <2>2. ASSUME NEW u \in Tx, u # t PROVE Consistent(u)'
    BY Zenon, <2>1, <2>2, SameConsistent DEF Good, Inv, LifecycleInv
  <2> QED BY Zenon, <2>1, <2>2 DEF Good, Inv, LifecycleInv
<1>2. CASE SweepStart
  BY <1>2 DEF SweepStart, Sweepable, Inv, Shapes, LifecycleInv, Consistent, ownerVars,
              resourceVars, registryVars
<1>3. CASE UNCHANGED vars
  BY <1>3 DEF vars, Inv, Shapes, LifecycleInv, Consistent, ownerVars, resourceVars,
              registryVars
<1> QED BY Zenon, <1>1, <1>2, <1>3 DEF Next, Maintain, Done, StepOf

(* The program points, flags and accounting of every transaction stay      *)
(* consistent, however calls, the deadline and maintenance interleave.     *)
THEOREM TransactionLifecycle == Spec => []LifecycleInv
<1>1. Spec => []Inv
  BY LifecycleInit, LifecycleStep, PTL DEF Spec
<1>2. Inv => LifecycleInv
  BY Zenon DEF Inv
<1> QED BY <1>1, <1>2, PTL

(* Commit and expiry exclude each other (mark_finalizing against maintain).*)
THEOREM CommitExcludesExpiry == Spec => []CommittedWasNotExpired
<1>1. Spec => []Inv
  BY LifecycleInit, LifecycleStep, PTL DEF Spec
<1>2. Inv => CommittedWasNotExpired
  BY Zenon DEF Inv, Shapes, LifecycleInv, Consistent, CommittedWasNotExpired
<1> QED BY <1>1, <1>2, PTL

(* What a transaction retains is accounted in the registry, and a query in *)
(* flight keeps its record.                                                *)
THEOREM OverlaysAreAccounted == Spec => []RetainedIsAccounted
<1>1. Spec => []Inv
  BY LifecycleInit, LifecycleStep, PTL DEF Spec
<1>2. Inv => RetainedIsAccounted
  BY Zenon DEF Inv, Shapes, LifecycleInv, Consistent, RetainedIsAccounted
<1> QED BY <1>1, <1>2, PTL

(* commit never finds its state taken after mark_finalizing, and maintain  *)
(* never meets a finalizing or closed resource.                            *)
THEOREM BranchesAreDead == Spec => []DefensiveBranchesDead
<1>1. Spec => []Inv
  BY LifecycleInit, LifecycleStep, PTL DEF Spec
<1>2. Inv => DefensiveBranchesDead
  BY Zenon DEF Inv, Shapes, LifecycleInv, Consistent, DefensiveBranchesDead
<1> QED BY <1>1, <1>2, PTL

(* No step of any actor undoes a termination.                              *)
LEMMA TerminalStep ==
  ASSUME Inv, [Next]_vars, NEW t \in Tx, lifecycle[t] = "terminal"
  PROVE  lifecycle'[t] = "terminal"
<1> USE DEF Inv, Shapes, ownerVars, resourceVars, registryVars
<1>1. ASSUME NEW u \in Tx, StepOf(u) PROVE lifecycle'[t] = "terminal"
  <2>1. CASE u # t
    BY <1>1, <2>1, EveryStep DEF Good, Same
  <2>2. CASE u = t
    <3>1. CASE CommitState(t) \/ Finish(t) \/ Close(t) \/ TakeState(t) \/ SweepOne(t)
      BY <3>1 DEF LifecycleInv, Consistent, CommitState, Finish, Close, TakeState, SweepOne
    <3>2. CASE RunLock(t) \/ RunFails(t) \/ RunResize(t) \/ EmitFails(t) \/ EmitOk(t)
               \/ RunKeeps(t) \/ MarkFinalizing(t)
      BY Zenon, <3>2 DEF RunLock, RunFails, RunResize, EmitFails, EmitOk, RunKeeps, MarkFinalizing
    <3>3. CASE Begin(t) \/ DeadlinePasses(t) \/ Call(t)
               \/ Abandon(t) \/ EnsureUnhealthy(t) \/ EnsureRegistry(t) \/ EnsureRefused(t)
               \/ EnsureLock(t) \/ EnsureLifecycle(t)
      BY Zenon, <3>3 DEF Begin, DeadlinePasses, Call, Abandon, EnsureUnhealthy, EnsureRegistry,
                  EnsureRefused, EnsureLock, EnsureLifecycle
    <3> QED BY Zenon, <1>1, <2>2, <3>1, <3>2, <3>3 DEF StepOf, OwnerStep
  <2> QED BY Zenon, <2>1, <2>2
<1> QED BY Zenon, <1>1 DEF Next, Maintain, Done, StepOf, SweepStart, vars

(* A terminated transaction stays terminated (EmitOk's own termination and *)
(* maintenance's alike): close does not overwrite it.                      *)
THEOREM TerminationIsFinal == Spec => TerminalIsFinal
<1>1. Spec => []Inv
  BY LifecycleInit, LifecycleStep, PTL DEF Spec
<1>2. Inv /\ [Next]_vars
        => [\A t \in Tx : lifecycle[t] = "terminal" => lifecycle'[t] = "terminal"]_vars
  BY Zenon, TerminalStep
<1> QED BY <1>1, <1>2, PTL DEF Spec, TerminalIsFinal

=============================================================================
