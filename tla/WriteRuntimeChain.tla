------------------------- MODULE WriteRuntimeChain --------------------------
(***************************************************************************)
(* The chain of spans and the types of the runtime: they hold when the     *)
(* runtime starts; the callers, the writer thread, the persistence thread  *)
(* with its failures and retries, and a crash keep them.                   *)
(***************************************************************************)
EXTENDS WriteRuntime, TLAPS

(* The last element of a nonempty interval of positions is its upper end.  *)
LEMMA LastOfInterval ==
  ASSUME NEW a \in Nat, NEW b \in Nat, a <= b
  PROVE  LastOf(a..b) = b
BY DEF LastOf

(* What the writer recorded is read off its batches.                       *)
LEMMA RecordedInterval ==
  ASSUME NEW n \in Nat, published \in Nat, published <= n,
         batches = (published + 1)..n
  PROVE  recorded = n
<1>1. CASE published = n
  <2>1. batches = {}
    BY <1>1
  <2> QED BY Zenon, <1>1, <2>1 DEF recorded
<1>2. CASE published < n
  <2>1. batches # {}
    BY <1>2
  <2>2. LastOf(batches) = n
    BY <1>2, LastOfInterval
  <2> QED BY Zenon, <2>1, <2>2 DEF recorded
<1> QED BY <1>1, <1>2

(* A runtime that has just started satisfies the chain invariant: its      *)
(* positions are those of the record store.                                *)
THEOREM ChainInvInit == Init => ChainInv
<1> SUFFICES ASSUME Init PROVE ChainInv
  BY Zenon
<1> USE DEF Init, StartRuntime
<1>1. recorded = 0
  BY Zenon DEF recorded
<1>2. ChainTypes
  <2>1. prepared \in Seq([write : Writes, index : Nat])
    OBVIOUS
  <2>2. {pending, root, retained, batch} \subseteq OptionalDirty
    BY Zenon DEF OptionalDirty
  <2>3. published \in Nat /\ durable \in Nat /\ diskBookmark \in Nat /\ applied \in Nat
    BY Zenon
  <2> QED BY Zenon, <1>1, <2>1, <2>2, <2>3 DEF ChainTypes
<1>3. PlacesMatchPoints
  BY DEF PlacesMatchPoints
<1>4. SpansChain
  <2>1. HeldLast = 0 /\ Held = None
    BY Zenon DEF HeldLast, Held
  <2> QED BY <1>1, <2>1 DEF SpansChain
<1>5. DurablePrefix
  BY DEF DurablePrefix
<1> QED BY Zenon, <1>2, <1>3, <1>4, <1>5 DEF ChainInv

(* The variables the chain is about, program points excepted.              *)
chainVars == <<batches, root, applied, failure, pending, published, durable,
               retained, batch, diskVars>>

(* A step that touches neither the roots nor the disk keeps the chain.     *)
LEMMA ChainFrame ==
  ASSUME ChainInv, UNCHANGED chainVars, wpc = "done" => wpc' = "done"
  PROVE  SpansChain' /\ DurablePrefix' /\ recorded' = recorded /\ HeldLast' = HeldLast
<1>1. recorded' = recorded
  BY Zenon DEF recorded, chainVars
<1>2. Held' = Held /\ HeldLast' = HeldLast
  BY Zenon DEF Held, HeldLast, chainVars
<1>3. SpansChain'
  BY Zenon, <1>1, <1>2 DEF ChainInv, SpansChain, IsSpan, chainVars, diskVars
<1>4. DurablePrefix'
  BY Zenon DEF ChainInv, DurablePrefix, chainVars, diskVars
<1> QED BY Zenon, <1>1, <1>2, <1>3, <1>4

(* The types of the chain survive a step that leaves the records alone.    *)
LEMMA ChainFrameTypes ==
  ASSUME ChainInv, UNCHANGED chainVars, wpc = "done" => wpc' = "done",
         prepared' \in Seq([write : Writes, index : Nat])
  PROVE  ChainTypes'
BY Zenon, ChainFrame DEF ChainInv, ChainTypes, OptionalDirty, chainVars, diskVars

(* Steps of the callers, the clock and the closer, and the waits and wakes *)
(* of the persistence thread.                                              *)
LEMMA ChainQuiet ==
  ASSUME ChainInv, UNCHANGED <<chainVars, wpc, prepared>>,
         ppc' = ppc \/ (batch = None /\ ppc' \notin {"persist", "persisted", "failed"})
  PROVE  ChainInv'
<1>1. ChainTypes'
  BY Zenon, ChainFrameTypes DEF ChainInv, ChainTypes
<1>2. PlacesMatchPoints'
  BY Zenon DEF ChainInv, PlacesMatchPoints, chainVars, diskVars
<1> QED BY Zenon, <1>1, <1>2, ChainFrame DEF ChainInv

(* What push_back does to a sequence, element by element.                  *)
LEMMA AppendMember ==
  ASSUME NEW S, NEW s \in Seq(S), NEW e
  PROVE  /\ e \in S => Append(s, e) \in Seq(S)
         /\ DOMAIN Append(s, e) = 1..(Len(s) + 1)
         /\ DOMAIN s = 1..Len(s) /\ Len(s) \in Nat
         /\ \A i \in 1..Len(s) : Append(s, e)[i] = s[i]
         /\ Append(s, e)[Len(s) + 1] = e
OBVIOUS

(* Steps of the writer that neither apply nor publish.                     *)
LEMMA ChainWriter ==
  ASSUME ChainInv, UNCHANGED chainVars,
         ppc' = ppc \/ (batch = None /\ ppc' \notin {"persist", "persisted", "failed"}),
         wpc \notin {"merge", "done"}, wpc' # "merge",
         wpc' = "apply" \/ batches = {},
         prepared' = prepared \/ (wpc = "prepare" /\ prepared' = Append(prepared,
             [write |-> Head(wpending), index |-> NextIndex]) /\ Head(wpending) \in Writes),
         prepared' # <<>> => wpc' \in {"prepare", "pull", "apply"}
  PROVE  ChainInv'
<1> DEFINE E == [write : Writes, index : Nat]
           new == [write |-> Head(wpending), index |-> NextIndex]
<1>0. prepared \in Seq(E) /\ applied \in Nat
  BY Zenon DEF ChainInv, ChainTypes
<1>1. prepared' \in Seq(E)
  <2>1. CASE prepared' = prepared
    BY Zenon, <1>0, <2>1
  <2>2. CASE prepared' # prepared
    <3>1. NextIndex \in Nat
      BY <1>0 DEF NextIndex
    <3>2. new \in E /\ prepared' = Append(prepared, new)
      BY Zenon, <2>2, <3>1
    <3> QED BY Zenon, <1>0, <3>2, AppendMember
  <2> QED BY Zenon, <2>1, <2>2
<1>2. ChainTypes'
  BY Zenon, <1>1, ChainFrameTypes
<1>3. ASSUME ~failure, NEW i \in DOMAIN prepared'
      PROVE  prepared'[i].index = applied + i
  <2>1. CASE prepared' = prepared
    BY Zenon, <1>3, <2>1 DEF ChainInv, PlacesMatchPoints
  <2>2. CASE prepared' # prepared
    <3>1. prepared' = Append(prepared, new)
      BY Zenon, <2>2
    <3>2. CASE i = Len(prepared) + 1
      BY <1>0, <3>1, <3>2, AppendMember DEF NextIndex
    <3>3. CASE i # Len(prepared) + 1
      <4>1. i \in DOMAIN prepared /\ prepared'[i] = prepared[i]
        BY <1>0, <1>3, <3>1, <3>3, AppendMember
      <4> QED BY Zenon, <1>3, <4>1 DEF ChainInv, PlacesMatchPoints
    <3> QED BY Zenon, <3>2, <3>3
  <2> QED BY Zenon, <2>1, <2>2
<1>4. PlacesMatchPoints'
  BY Zenon, <1>3 DEF ChainInv, PlacesMatchPoints, chainVars, diskVars
<1> QED BY Zenon, <1>2, <1>4, ChainFrame DEF ChainInv

(* A notification leaves the persistence thread where it is, or moves it   *)
(* from one of its waits, where it holds no batch.                         *)
LEMMA NotifyQuiet ==
  ASSUME ChainInv, NEW yes, Notify(yes)
  PROVE  ppc' = ppc \/ (batch = None /\ ppc' \notin {"persist", "persisted", "failed"})
BY Zenon DEF Notify, ChainInv, PlacesMatchPoints

(* Callers and the closer do not touch the records.                        *)
LEMMA ChainClients ==
  ASSUME TypeOK, ChainInv,
         \/ SendWrite \/ \E c \in Callers : SendFlush(c)
         \/ TimerStep \/ BeginClose \/ CloserStep \/ Stopped
  PROVE  ChainInv'
<1> USE DEF chainVars, writerVars, mailVars, workerVars, diskVars, CloserOnly
<1>1. CASE SendWrite
  BY Zenon, <1>1, ChainQuiet DEF SendWrite
<1>2. CASE \E c \in Callers : SendFlush(c)
  BY Zenon, <1>2, ChainQuiet DEF SendFlush
<1>3. CASE WindowEnds
  BY Zenon, <1>3, ChainQuiet DEF WindowEnds
<1>4. CASE TimedWaitReturns
  BY Zenon, <1>4, ChainQuiet DEF TimedWaitReturns, ChainInv, PlacesMatchPoints
<1>5. CASE BeginClose
  BY Zenon, <1>5, ChainQuiet DEF BeginClose
<1>6. CASE CloseSend
  BY Zenon, <1>6, ChainQuiet DEF CloseSend
<1>7. CASE CloseSendFails
  BY Zenon, <1>7, ChainQuiet DEF CloseSendFails
<1>8. CASE Abandon
  BY Zenon, <1>8, ChainQuiet DEF Abandon
<1>9. CASE CloseAnswered
  BY Zenon, <1>9, ChainQuiet DEF CloseAnswered
<1>10. CASE JoinWriter
  BY Zenon, <1>10, ChainQuiet, NotifyQuiet DEF JoinWriter, Barrier
<1>11. CASE JoinWorker
  BY Zenon, <1>11, ChainQuiet DEF JoinWorker
<1>12. CASE Stopped
  BY Zenon, <1>12, ChainQuiet DEF Stopped, vars
<1> QED
  BY Zenon, <1>1, <1>2, <1>3, <1>4, <1>5, <1>6, <1>7, <1>8, <1>9, <1>10, <1>11, <1>12
  DEF TimerStep, CloserStep

(* The writer up to the apply loop, and a batch without records.           *)
LEMMA ChainWriterControl ==
  ASSUME TypeOK, ChainInv,
         \/ ReceiveWrite \/ ReceiveFlush \/ ReceiveShutdown \/ ReceiveDisconnected
         \/ Pull \/ EnterBatch \/ EnterFailed \/ ExpireFirst
         \/ PrepareRefused \/ PrepareReserved \/ PulledEnough \/ PrepareFull
         \/ PrepareEmpty \/ PublishNothing
  PROVE  ChainInv'
<1> USE DEF chainVars, mailVars, workerVars, diskVars, WriterOnly
<1>0. /\ wpc \in {"top", "drain", "prepare", "pull"} => batches = {}
      /\ wpc \in {"top", "drain"} => prepared = <<>>
  BY Zenon DEF ChainInv, PlacesMatchPoints
<1>1. CASE ReceiveWrite
  BY Zenon, <1>0, <1>1, ChainWriter DEF ReceiveWrite, TakeMessage
<1>2. CASE ReceiveFlush
  BY Zenon, <1>2, ChainQuiet, NotifyQuiet DEF ReceiveFlush, Barrier
<1>3. CASE ReceiveShutdown
  BY Zenon, <1>0, <1>3, ChainWriter, NotifyQuiet DEF ReceiveShutdown, Barrier, ExitWriter
<1>4. CASE ReceiveDisconnected
  BY Zenon, <1>0, <1>4, ChainWriter, NotifyQuiet DEF ReceiveDisconnected, Barrier, ExitWriter
<1>5. CASE Pull
  BY Zenon, <1>5, ChainQuiet DEF Pull
<1>6. CASE EnterBatch
  BY Zenon, <1>0, <1>6, ChainWriter DEF EnterBatch
<1>7. CASE EnterFailed
  BY Zenon, <1>0, <1>7, ChainWriter DEF EnterFailed, ExitWriter
<1>8. CASE ExpireFirst
  BY Zenon, <1>0, <1>8, ChainWriter DEF ExpireFirst, LoopHead
<1>9. CASE PrepareRefused
  BY Zenon, <1>9, ChainQuiet DEF PrepareRefused
<1>10. CASE PrepareReserved
  <2>1. Head(wpending) \in Writes
    BY <1>10 DEF PrepareReserved, TypeOK, ChannelOK
  <2> QED BY Zenon, <1>0, <1>10, <2>1, ChainWriter DEF PrepareReserved
<1>11. CASE PulledEnough
  BY Zenon, <1>0, <1>11, ChainWriter DEF PulledEnough
<1>12. CASE PrepareFull
  BY Zenon, <1>0, <1>12, ChainWriter DEF PrepareFull
<1>13. CASE PrepareEmpty
  BY Zenon, <1>0, <1>13, ChainWriter DEF PrepareEmpty
<1>14. CASE PublishNothing
  BY Zenon, <1>14, ChainWriter DEF PublishNothing, LoopHead
<1> QED
  BY Zenon, <1>1, <1>2, <1>3, <1>4, <1>5, <1>6, <1>7, <1>8, <1>9, <1>10, <1>11, <1>12,
     <1>13, <1>14

(* What pop_front does to a sequence, element by element.                  *)
LEMMA TailMember ==
  ASSUME NEW S, NEW s \in Seq(S), s # <<>>
  PROVE  /\ Tail(s) \in Seq(S) /\ Head(s) = s[1] /\ s[1] \in S
         /\ Len(s) \in Nat /\ Len(s) >= 1 /\ DOMAIN s = 1..Len(s)
         /\ DOMAIN Tail(s) = 1..(Len(s) - 1)
         /\ \A i \in 1..(Len(s) - 1) : Tail(s)[i] = s[i + 1]
OBVIOUS

(* One step of the apply loop that does not record: after a failure the    *)
(* indices of what is left no longer matter.                               *)
LEMMA ChainApplyFails ==
  ASSUME TypeOK, ChainInv, ApplyFailed \/ ApplyOmittedSpan \/ ApplyRefused
  PROVE  ChainInv'
<1> DEFINE E == [write : Writes, index : Nat]
<1> USE DEF mailVars, workerVars, diskVars, WriterOnly, ApplyFailed,
            ApplyOmittedSpan, ApplyRefused
<1>1. prepared' \in Seq(E) /\ applied' \in Nat
  <2>1. prepared \in Seq(E) /\ applied \in Nat
    BY Zenon DEF ChainInv, ChainTypes
  <2>2. Tail(prepared) \in Seq(E) /\ Head(prepared) \in E
    BY Zenon, <2>1, TailMember
  <2> QED BY Zenon, <2>1, <2>2
<1>2. recorded' = recorded /\ Held' = Held /\ HeldLast' = HeldLast
  BY Zenon DEF recorded, Held, HeldLast
<1>3. ChainTypes'
  BY Zenon, <1>1, <1>2 DEF ChainInv, ChainTypes, OptionalDirty
<1>4. PlacesMatchPoints'
  BY DEF ChainInv, PlacesMatchPoints
<1>5. SpansChain'
  BY Zenon, <1>2 DEF ChainInv, SpansChain, IsSpan
<1> QED BY Zenon, <1>3, <1>4, <1>5 DEF ChainInv, DurablePrefix

(* A panic of the writer cuts the chain back to what is published: it can  *)
(* strike only where no root is being merged.                              *)
LEMMA ChainPanics ==
  ASSUME ChainInv, WriterPanics
  PROVE  ChainInv'
<1> USE DEF mailVars, workerVars, diskVars, WriterOnly, WriterPanics
<1>1. /\ wpc' = "done" /\ prepared' = <<>> /\ batches' = {} /\ root = None
      /\ UNCHANGED <<root, applied, failure, pending, published, durable, retained, batch,
                     ppc, diskBookmark, diskRows>>
  BY Zenon DEF ChainInv, PlacesMatchPoints
<1>2. recorded' = published /\ Held' = Held /\ HeldLast' = HeldLast
  BY Zenon, <1>1 DEF recorded, Held, HeldLast
<1>3. ChainTypes'
  <2>1. <<>> \in Seq([write : Writes, index : Nat])
    OBVIOUS
  <2> QED BY Zenon, <1>1, <1>2, <2>1 DEF ChainInv, ChainTypes, OptionalDirty
<1>4. PlacesMatchPoints'
  BY <1>1 DEF ChainInv, PlacesMatchPoints
<1>5. SpansChain'
  <2>1. batches' = (published' + 1)..recorded' /\ published' <= recorded'
    BY <1>1, <1>2 DEF ChainInv, ChainTypes
  <2> QED BY Zenon, <1>1, <1>2, <2>1 DEF ChainInv, SpansChain, IsSpan
<1> QED BY Zenon, <1>3, <1>4, <1>5 DEF ChainInv, DurablePrefix

(* The apply loop extends the chain by one position at a time, or stops.   *)
LEMMA ChainApplies ==
  ASSUME TypeOK, ChainInv, ApplyCommitted
  PROVE  ChainInv'
<1> DEFINE E == [write : Writes, index : Nat]
<1> USE DEF mailVars, workerVars, diskVars, WriterOnly, ApplyCommitted
<1>1. /\ prepared \in Seq(E) /\ applied \in Nat /\ published \in Nat
      /\ batches = (published + 1)..applied /\ published <= applied
      /\ recorded = applied
  BY Zenon DEF ChainInv, ChainTypes, SpansChain
<1>2. /\ prepared' \in Seq(E) /\ Head(prepared) = prepared[1] /\ 1 \in DOMAIN prepared
      /\ \A i \in DOMAIN prepared' : i \in Nat /\ i + 1 \in DOMAIN prepared
                                     /\ prepared'[i] = prepared[i + 1]
  BY <1>1, TailMember
<1>3. Head(prepared).index = applied + 1
  BY Zenon, <1>2 DEF ChainInv, PlacesMatchPoints
<1>4. applied' = applied + 1 /\ batches' = (published' + 1)..applied'
  BY <1>1, <1>3
<1>5. recorded' = applied'
  <2>1. LastOf((published' + 1)..applied') = applied'
    BY <1>1, <1>4, LastOfInterval
  <2>2. batches' # {}
    BY Zenon, <1>1, <1>4
  <2> QED BY Zenon, <1>4, <2>1, <2>2 DEF recorded
<1>6. ChainTypes'
  BY <1>1, <1>2, <1>4, <1>5 DEF ChainInv, ChainTypes, OptionalDirty
<1>7. ASSUME NEW i \in DOMAIN prepared'
      PROVE  prepared'[i].index = applied' + i
  <2>1. prepared[i + 1].index = applied + (i + 1)
    BY Zenon, <1>2 DEF ChainInv, PlacesMatchPoints
  <2>2. i \in Nat /\ prepared'[i] = prepared[i + 1]
    BY Zenon, <1>2, <1>7
  <2>3. applied' + i = applied + (i + 1)
    BY <1>1, <1>4, <2>2
  <2> QED BY Zenon, <2>1, <2>2, <2>3
<1>8. PlacesMatchPoints'
  BY Zenon, <1>4, <1>7 DEF ChainInv, PlacesMatchPoints
<1>9. Held' = Held /\ HeldLast' = HeldLast
  BY Zenon DEF Held, HeldLast
<1>10. SpansChain'
  BY <1>1, <1>4, <1>5, <1>9 DEF ChainInv, SpansChain, IsSpan
<1> QED BY Zenon, <1>6, <1>8, <1>10 DEF ChainInv, DurablePrefix

(* The last position the persistence thread holds is a position.           *)
LEMMA HeldLastType ==
  ASSUME ChainInv
  PROVE  HeldLast \in Nat /\ Held \in OptionalDirty
<1>1. Held \in OptionalDirty
  BY Zenon DEF Held, ChainInv, ChainTypes
<1>2. Held # None => Held.last \in Nat
  BY Zenon, <1>1 DEF OptionalDirty, Dirty
<1> QED BY Zenon, <1>1, <1>2 DEF HeldLast, ChainInv, ChainTypes

(* Absorbing a root that starts where the first one ends extends its span. *)
LEMMA AbsorbSpan ==
  ASSUME NEW d \in Dirty, NEW b \in Dirty, NEW f \in Nat, f >= 1,
         \/ d = DefaultDirty /\ IsSpan(b, f)
         \/ IsSpan(d, f) /\ IsSpan(b, d.last + 1)
  PROVE  Absorb(d, b) \in Dirty /\ IsSpan(Absorb(d, b), f) /\ Absorb(d, b).last = b.last
<1>1. Absorb(d, b) \in Dirty /\ Absorb(d, b).last = b.last
  BY Zenon DEF Absorb, Dirty
<1>2. CASE d = DefaultDirty /\ IsSpan(b, f)
  BY Zenon, <1>2 DEF Absorb, IsSpan, DefaultDirty, Dirty
<1>3. CASE IsSpan(d, f) /\ IsSpan(b, d.last + 1)
  <2>1. Absorb(d, b).first = f
    BY <1>3 DEF Absorb, IsSpan, Dirty
  <2>2. d.last \in Nat /\ b.last \in Nat /\ f <= d.last /\ d.last + 1 <= b.last
    BY Zenon, <1>3 DEF IsSpan, Dirty
  <2>3. d.rows = f..d.last /\ b.rows = (d.last + 1)..b.last
    BY Zenon, <1>3 DEF IsSpan
  <2>4. d.rows \cup b.rows = f..b.last
    BY <2>2, <2>3
  <2> QED BY <1>1, <2>1, <2>2, <2>4 DEF IsSpan, Absorb
<1> QED BY Zenon, <1>1, <1>2, <1>3

(* The published root leaves the mailbox: the chain runs through root.     *)
LEMMA ChainPublishTake ==
  ASSUME ChainInv, PublishTake
  PROVE  ChainInv'
<1> USE DEF mailVars, workerVars, diskVars, PublishTake
<1>1. recorded' = recorded /\ Held' = Held /\ HeldLast' = HeldLast
  BY Zenon DEF recorded, Held, HeldLast
<1>2. root = None /\ root' # None /\ root' \in Dirty
  <2>1. root = None
    BY Zenon DEF ChainInv, PlacesMatchPoints
  <2>2. DefaultDirty \in Dirty /\ None \notin Dirty
    BY Zenon, NamesAssumption DEF DefaultDirty, Dirty
  <2> QED BY Zenon, <2>1, <2>2 DEF ChainInv, ChainTypes, OptionalDirty, OrDefault
<1>3. ChainTypes'
  BY Zenon, <1>1, <1>2 DEF ChainInv, ChainTypes, OptionalDirty
<1>4. PlacesMatchPoints'
  BY Zenon, <1>2 DEF ChainInv, PlacesMatchPoints
<1>5. SpansChain'
  <2>1. CASE pending = None
    <3>1. root' = DefaultDirty /\ published = HeldLast
      BY Zenon, <1>2, <2>1 DEF ChainInv, SpansChain, OrDefault
    <3> QED BY Zenon, <1>1, <3>1 DEF ChainInv, SpansChain, IsSpan
  <2>2. CASE pending # None
    <3>1. root' = pending /\ IsSpan(pending, HeldLast + 1) /\ pending.last = published
      BY Zenon, <2>2 DEF ChainInv, SpansChain, OrDefault
    <3>2. root' # DefaultDirty
      BY <3>1, HeldLastType DEF IsSpan, DefaultDirty
    <3> QED BY Zenon, <1>1, <1>2, <3>1, <3>2 DEF ChainInv, SpansChain, IsSpan
  <2> QED BY Zenon, <2>1, <2>2
<1> QED BY Zenon, <1>3, <1>4, <1>5 DEF ChainInv, DurablePrefix

(* The merged root is put back with the writer's batches at its end.       *)
LEMMA ChainPublishRestore ==
  ASSUME ChainInv, PublishRestore
  PROVE  ChainInv'
<1> DEFINE b == [first |-> published + 1, last |-> LastOf(batches), rows |-> batches]
<1>1. /\ root # None /\ root \in Dirty /\ pending = None /\ batches # {}
      /\ failure \/ applied = recorded
      /\ published \in Nat /\ recorded \in Nat /\ published <= recorded
      /\ batches = (published + 1)..recorded /\ recorded = LastOf(batches)
  BY Zenon DEF PublishRestore, ChainInv, ChainTypes, PlacesMatchPoints, SpansChain,
         OptionalDirty, recorded
<1>2. HeldLast \in Nat
  BY Zenon, HeldLastType
<1>3. /\ pending' = Absorb(root, b) /\ published' = recorded /\ root' = None
      /\ batches' = {} /\ wpc' \in {"top", "drain"}
      /\ UNCHANGED <<prepared, applied, failure, durable, retained, batch, diskVars>>
  BY Zenon, <1>1 DEF PublishRestore, LoopHead
<1>4. b \in Dirty /\ IsSpan(b, published + 1) /\ b.last = recorded
  <2>1. published < recorded
    BY <1>1
  <2> QED BY <1>1, <2>1 DEF IsSpan, Dirty
<1> HIDE DEF b
<1>5. pending' \in Dirty /\ IsSpan(pending', HeldLast + 1) /\ pending'.last = published'
  <2>1. CASE root = DefaultDirty
    <3>1. published = HeldLast
      BY Zenon, <1>1, <2>1 DEF ChainInv, SpansChain
    <3>2. IsSpan(b, HeldLast + 1) /\ HeldLast + 1 \in Nat /\ HeldLast + 1 >= 1
      BY <1>2, <1>4, <3>1
    <3>3. /\ Absorb(root, b) \in Dirty /\ IsSpan(Absorb(root, b), HeldLast + 1)
          /\ Absorb(root, b).last = b.last
      BY Zenon, <1>1, <1>4, <2>1, <3>2, AbsorbSpan
    <3> QED BY Zenon, <1>3, <1>4, <3>3
  <2>2. CASE root # DefaultDirty
    <3>1. IsSpan(root, HeldLast + 1) /\ root.last = published
      BY Zenon, <1>1, <2>2 DEF ChainInv, SpansChain
    <3>2. IsSpan(b, root.last + 1) /\ HeldLast + 1 \in Nat /\ HeldLast + 1 >= 1
      BY <1>2, <1>4, <3>1
    <3>3. /\ Absorb(root, b) \in Dirty /\ IsSpan(Absorb(root, b), HeldLast + 1)
          /\ Absorb(root, b).last = b.last
      BY Zenon, <1>1, <1>4, <3>1, <3>2, AbsorbSpan
    <3> QED BY Zenon, <1>3, <1>4, <3>3
  <2> QED BY Zenon, <2>1, <2>2
<1>6. recorded' = recorded /\ Held' = Held /\ HeldLast' = HeldLast
  BY Zenon, <1>3 DEF recorded, Held, HeldLast
<1>7. None \notin Dirty
  BY Zenon, NamesAssumption DEF Dirty
<1>8. ppc' = ppc \/ (batch = None /\ ppc' \notin {"persist", "persisted", "failed"})
  BY Zenon, NotifyQuiet DEF PublishRestore
<1>9. ChainTypes'
  BY Zenon, <1>1, <1>3, <1>5, <1>6 DEF ChainInv, ChainTypes, OptionalDirty, diskVars
<1>10. PlacesMatchPoints'
  <2>1. prepared = <<>>
    BY Zenon DEF PublishRestore, ChainInv, PlacesMatchPoints
  <2> QED BY Zenon, <1>3, <1>8, <2>1 DEF ChainInv, PlacesMatchPoints, diskVars
<1>11. SpansChain'
  <2>1. batches' = (published' + 1)..recorded'
    BY <1>1, <1>3, <1>6
  <2>2. pending' # None
    BY Zenon, <1>5, <1>7
  <2>3. IsSpan(pending, HeldLast + 1)' /\ (Held # None => IsSpan(Held, durable + 1))'
    BY Zenon, <1>3, <1>5, <1>6 DEF ChainInv, SpansChain, IsSpan
  <2> QED BY <1>1, <1>3, <1>5, <1>6, <2>1, <2>2, <2>3 DEF ChainInv, SpansChain, diskVars
<1> QED BY Zenon, <1>3, <1>9, <1>10, <1>11 DEF ChainInv, DurablePrefix, diskVars

-----------------------------------------------------------------------------
(* The persistence thread.                                                 *)


(* The wait loop of the persistence thread does not touch the records.     *)
LEMMA ChainWorkerWaits ==
  ASSUME ChainInv, WorkerExit \/ WorkerWaitWindow \/ WorkerPark \/ WorkerSettle
  PROVE  ChainInv'
<1>1. batch = None
  BY Zenon DEF WorkerExit, WorkerWaitWindow, WorkerPark, WorkerSettle, ChainInv,
         PlacesMatchPoints
<1> QED BY Zenon, <1>1, ChainQuiet
  DEF WorkerExit, WorkerWaitWindow, WorkerPark, WorkerSettle, WorkerOnly, chainVars,
      writerVars, diskVars

(* The batch of the persistence thread: what it retained, extended by what *)
(* the mailbox holds.                                                      *)
LEMMA ChainTake ==
  ASSUME ChainInv, WorkerTake
  PROVE  ChainInv'
<1>1. /\ batch = None /\ pending \in OptionalDirty /\ retained \in OptionalDirty
      /\ durable \in Nat /\ (pending # None \/ retained # None)
  BY Zenon DEF WorkerTake, Due, ChainInv, ChainTypes, PlacesMatchPoints
<1>2. None \notin Dirty /\ DefaultDirty \in Dirty
  BY Zenon, NamesAssumption DEF Dirty, DefaultDirty
<1>3. Held = retained /\ HeldLast \in Nat
  BY Zenon, <1>1, HeldLastType DEF Held
<1>4. /\ batch' = IF pending = None THEN OrDefault(retained)
                                    ELSE Absorb(OrDefault(retained), pending)
      /\ pending' = None /\ retained' = None /\ ppc' = "persist"
      /\ UNCHANGED <<wpc, prepared, batches, root, applied, failure, published,
                     durable, diskVars>>
  BY Zenon DEF WorkerTake, WorkerOnly, writerVars
<1>5. /\ batch' \in Dirty /\ IsSpan(batch', durable + 1)
      /\ batch'.last = IF pending = None THEN HeldLast ELSE published
      /\ pending # None => HeldLast <= published
  <2>1. CASE pending = None
    <3>1. batch' = retained /\ retained \in Dirty /\ HeldLast = retained.last
      BY Zenon, <1>1, <1>2, <1>3, <1>4, <2>1 DEF OrDefault, OptionalDirty, HeldLast
    <3> QED BY Zenon, <1>1, <1>3, <2>1, <3>1 DEF ChainInv, SpansChain
  <2>2. CASE pending # None
    <3>1. pending \in Dirty /\ IsSpan(pending, HeldLast + 1) /\ pending.last = published
      BY Zenon, <1>1, <2>2 DEF ChainInv, SpansChain, OptionalDirty
    <3>2. HeldLast <= published
      BY <1>3, <3>1 DEF IsSpan, Dirty
    <3>3. CASE retained = None
      <4>1. HeldLast = durable /\ batch' = Absorb(DefaultDirty, pending)
        BY Zenon, <1>3, <1>4, <2>2, <3>3 DEF OrDefault, HeldLast
      <4>2. IsSpan(pending, durable + 1) /\ durable + 1 \in Nat /\ durable + 1 >= 1
        BY <1>1, <3>1, <4>1
      <4> QED BY Zenon, <1>2, <2>2, <3>1, <3>2, <4>1, <4>2, AbsorbSpan
    <3>4. CASE retained # None
      <4>1. /\ retained \in Dirty /\ HeldLast = retained.last
            /\ batch' = Absorb(retained, pending) /\ IsSpan(retained, durable + 1)
        BY Zenon, <1>1, <1>3, <1>4, <2>2, <3>4
        DEF OrDefault, HeldLast, OptionalDirty, ChainInv, SpansChain
      <4>2. IsSpan(pending, retained.last + 1) /\ durable + 1 \in Nat /\ durable + 1 >= 1
        BY <1>1, <3>1, <4>1
      <4> QED BY Zenon, <2>2, <3>1, <3>2, <4>1, <4>2, AbsorbSpan
    <3> QED BY Zenon, <3>3, <3>4
  <2> QED BY Zenon, <2>1, <2>2
<1>6. batch' # None /\ Held' = batch' /\ HeldLast' = batch'.last
  BY Zenon, <1>2, <1>5 DEF Held, HeldLast
<1>7. recorded' = recorded
  BY Zenon, <1>4 DEF recorded
<1>8. ChainTypes'
  BY Zenon, <1>4, <1>5, <1>7 DEF ChainInv, ChainTypes, OptionalDirty, diskVars
<1>9. PlacesMatchPoints'
  BY Zenon, <1>4, <1>6 DEF WorkerTake, ChainInv, PlacesMatchPoints, diskVars
<1>10. SpansChain'
  <2>1. HeldLast <= HeldLast'
    BY <1>3, <1>5, <1>6
  <2>2. durable' <= diskBookmark' /\ diskBookmark' <= HeldLast'
    <3>1. /\ durable' = durable /\ diskBookmark' = diskBookmark /\ diskBookmark \in Nat
          /\ durable <= diskBookmark /\ diskBookmark <= HeldLast
      BY Zenon, <1>4 DEF ChainInv, ChainTypes, SpansChain, diskVars
    <3>2. HeldLast \in Nat /\ HeldLast' \in Nat
      BY Zenon, <1>1, <1>3, <1>5, <1>6 DEF Dirty
    <3> QED BY <2>1, <3>1, <3>2
  <2>3. (Held # None => IsSpan(Held, durable + 1))'
    BY Zenon, <1>4, <1>5, <1>6
  <2>4. CASE pending = None
    BY Zenon, <1>4, <1>5, <1>6, <1>7, <2>2, <2>3, <2>4 DEF ChainInv, SpansChain, IsSpan
  <2>5. CASE pending # None
    <3>1. root = None
      BY Zenon, <2>5 DEF ChainInv, PlacesMatchPoints
    <3> QED BY Zenon, <1>4, <1>5, <1>6, <1>7, <2>2, <2>3, <2>5, <3>1
        DEF ChainInv, SpansChain
  <2> QED BY Zenon, <2>4, <2>5
<1> QED BY Zenon, <1>4, <1>8, <1>9, <1>10 DEF ChainInv, DurablePrefix, diskVars

(* A commit moves the bookmark to the end of the batch and adds exactly the*)
(* positions in between; a refused one changes nothing.                    *)
LEMMA ChainPersist ==
  ASSUME ChainInv, PersistOk \/ PersistError \/ PersistErrorAfterCommit
  PROVE  ChainInv'
<1>1. /\ ppc = "persist" /\ ppc' \in {"persisted", "failed"}
      /\ UNCHANGED <<wpc, prepared, batches, root, applied, failure, pending,
                     published, durable, retained, batch>>
  BY Zenon DEF PersistOk, PersistError, PersistErrorAfterCommit, PersistOutcome, WorkerOnly,
         mailVars, writerVars
<1>2. /\ batch \in Dirty /\ Held = batch /\ HeldLast = batch.last
      /\ IsSpan(batch, durable + 1) /\ durable \in Nat /\ diskBookmark \in Nat
  <2>1. batch # None /\ batch \in OptionalDirty
    BY Zenon, <1>1 DEF ChainInv, ChainTypes, PlacesMatchPoints
  <2> QED BY Zenon, <2>1 DEF ChainInv, ChainTypes, SpansChain, OptionalDirty, Held, HeldLast
<1>3. Held' = Held /\ HeldLast' = HeldLast /\ recorded' = recorded
  BY Zenon, <1>1 DEF Held, HeldLast, recorded
<1>4. CASE UNCHANGED diskVars
  <2>1. ppc' = "failed" \/ diskBookmark = batch.last
    BY Zenon, <1>4 DEF PersistOk, PersistError, PersistErrorAfterCommit, PersistOutcome,
                Commit, diskVars
  <2>2. "afterCommit" \notin DiskFaults => diskBookmark = durable
    BY Zenon, <1>1 DEF ChainInv, PlacesMatchPoints
  <2>3. ChainTypes' /\ PlacesMatchPoints'
    BY Zenon, <1>1, <1>3, <1>4, <2>1, <2>2
    DEF ChainInv, ChainTypes, PlacesMatchPoints, OptionalDirty, diskVars
  <2>4. SpansChain' /\ DurablePrefix'
    BY Zenon, <1>1, <1>3, <1>4 DEF ChainInv, SpansChain, DurablePrefix, IsSpan, diskVars
  <2> QED BY Zenon, <2>3, <2>4 DEF ChainInv
<1>5. CASE Commit
  <2>1. /\ batch.first = diskBookmark + 1 /\ batch.last \in Nat
        /\ batch.first <= batch.last /\ diskBookmark' = batch.last
        /\ diskRows' = diskRows \cup batch.rows
    BY Zenon, <1>2, <1>5 DEF Commit, Continues, Dirty
  <2>2. diskBookmark = durable /\ batch.rows = (diskBookmark + 1)..batch.last
    BY <1>2, <2>1 DEF IsSpan
  <2>3. diskRows' = 1..diskBookmark'
    <3>1. diskRows = 1..diskBookmark
      BY Zenon DEF ChainInv, DurablePrefix
    <3> QED BY <1>2, <2>1, <2>2, <3>1
  <2>4. ppc' = "persisted" \/ "afterCommit" \in DiskFaults \/ UNCHANGED diskVars
    BY Zenon DEF PersistOk, PersistError, PersistErrorAfterCommit, PersistOutcome, diskVars
  <2>5. CASE UNCHANGED diskVars
    BY Zenon, <1>4, <2>5
  <2>6. CASE ppc' = "persisted" \/ "afterCommit" \in DiskFaults
    <3>1. ChainTypes'
      BY Zenon, <1>1, <1>3, <2>1 DEF ChainInv, ChainTypes, OptionalDirty
    <3>2. PlacesMatchPoints'
      BY Zenon, <1>1, <2>1, <2>6 DEF ChainInv, PlacesMatchPoints
    <3>3. SpansChain'
      <4>1. durable' = durable /\ diskBookmark' = batch.last /\ HeldLast' = batch.last
        BY Zenon, <1>1, <1>2, <1>3, <2>1
      <4>2. durable <= batch.last
        BY <1>2, <2>1, <2>2
      <4>3. durable' <= diskBookmark' /\ diskBookmark' <= HeldLast'
        BY <2>1, <4>1, <4>2
      <4> QED BY Zenon, <1>1, <1>3, <4>3 DEF ChainInv, SpansChain, IsSpan
    <3> QED BY Zenon, <2>3, <3>1, <3>2, <3>3 DEF ChainInv, DurablePrefix
  <2> QED BY Zenon, <2>4, <2>5, <2>6
<1> QED BY Zenon, <1>4, <1>5 DEF PersistOk, PersistError, PersistErrorAfterCommit

(* The batch is released at its last position.                             *)
LEMMA ChainPersisted ==
  ASSUME ChainInv, WorkerPersisted
  PROVE  ChainInv'
<1>1. /\ ppc = "persisted" /\ ppc' = "settle" /\ batch' = None /\ durable' = batch.last
      /\ UNCHANGED <<wpc, prepared, batches, root, applied, failure, pending,
                     published, retained, diskVars>>
  BY Zenon DEF WorkerPersisted, WorkerOnly, writerVars
<1>2. /\ batch \in Dirty /\ retained = None /\ HeldLast = batch.last
      /\ diskBookmark = batch.last /\ batch.last \in Nat
  <2>1. batch # None /\ batch \in OptionalDirty
    BY Zenon, <1>1 DEF ChainInv, ChainTypes, PlacesMatchPoints
  <2>2. batch \in Dirty
    BY Zenon, <2>1 DEF OptionalDirty
  <2> QED BY Zenon, <1>1, <2>1, <2>2 DEF ChainInv, PlacesMatchPoints, Held, HeldLast, Dirty
<1>3. Held' = None /\ HeldLast' = HeldLast /\ recorded' = recorded
  BY Zenon, <1>1, <1>2 DEF Held, HeldLast, recorded
<1>4. ChainTypes'
  BY Zenon, <1>1, <1>2, <1>3 DEF ChainInv, ChainTypes, OptionalDirty, diskVars
<1>5. PlacesMatchPoints'
  BY Zenon, <1>1, <1>2 DEF ChainInv, PlacesMatchPoints, diskVars
<1>6. SpansChain'
  BY Zenon, <1>1, <1>2, <1>3 DEF ChainInv, SpansChain, IsSpan, diskVars
<1> QED BY Zenon, <1>1, <1>4, <1>5, <1>6 DEF ChainInv, DurablePrefix, diskVars

(* The failed batch becomes the retained root, with the same span.         *)
LEMMA ChainFailed ==
  ASSUME ChainInv, WorkerFailed
  PROVE  ChainInv'
<1>1. /\ ppc = "failed" /\ ppc' \in {"check", "done"} /\ batch' = None
      /\ retained' = Absorb(DefaultDirty, batch)
      /\ UNCHANGED <<wpc, prepared, batches, root, applied, failure, pending,
                     published, durable, diskVars>>
  BY Zenon DEF WorkerFailed, WorkerOnly, writerVars
<1>2. /\ batch \in Dirty /\ HeldLast = batch.last /\ IsSpan(batch, durable + 1)
      /\ durable \in Nat
  <2>1. batch # None /\ batch \in OptionalDirty
    BY Zenon, <1>1 DEF ChainInv, ChainTypes, PlacesMatchPoints
  <2> QED BY Zenon, <2>1 DEF ChainInv, ChainTypes, SpansChain, OptionalDirty, Held, HeldLast
<1>3. /\ retained' \in Dirty /\ IsSpan(retained', durable + 1)
      /\ retained'.last = batch.last
  <2>1. DefaultDirty \in Dirty /\ durable + 1 \in Nat /\ durable + 1 >= 1
    BY <1>2 DEF DefaultDirty, Dirty
  <2> QED BY Zenon, <1>1, <1>2, <2>1, AbsorbSpan
<1>4. retained' # None
  BY Zenon, <1>3, NamesAssumption DEF Dirty
<1>5. Held' = retained' /\ HeldLast' = HeldLast /\ recorded' = recorded
  BY Zenon, <1>1, <1>2, <1>3, <1>4 DEF Held, HeldLast, recorded
<1>6. ChainTypes'
  BY Zenon, <1>1, <1>3, <1>5 DEF ChainInv, ChainTypes, OptionalDirty, diskVars
<1>7. PlacesMatchPoints'
  BY Zenon, <1>1, <1>4 DEF ChainInv, PlacesMatchPoints, diskVars
<1>8. SpansChain'
  <2>1. (Held # None => IsSpan(Held, durable + 1))'
    BY Zenon, <1>1, <1>3, <1>5 DEF IsSpan
  <2> QED BY Zenon, <1>1, <1>5, <2>1 DEF ChainInv, SpansChain, IsSpan, diskVars
<1> QED BY Zenon, <1>1, <1>6, <1>7, <1>8 DEF ChainInv, DurablePrefix, diskVars

(* A restart begins at the bookmark on disk.                               *)
LEMMA ChainCrash ==
  ASSUME ChainInv, Crash
  PROVE  ChainInv'
<1>1. /\ wpc' = "top" /\ prepared' = <<>> /\ batches' = {} /\ root' = None
      /\ applied' = diskBookmark /\ failure' = FALSE /\ pending' = None
      /\ published' = diskBookmark /\ durable' = diskBookmark
      /\ ppc' = "check" /\ retained' = None /\ batch' = None
      /\ UNCHANGED diskVars /\ diskBookmark \in Nat
  BY Zenon DEF Crash, RestartRuntime, ChainInv, ChainTypes
<1>2. Held' = None /\ HeldLast' = diskBookmark /\ recorded' = diskBookmark
  BY Zenon, <1>1 DEF Held, HeldLast, recorded
<1>3. ChainTypes'
  <2>1. prepared' \in Seq([write : Writes, index : Nat])
    BY <1>1
  <2> QED BY Zenon, <1>1, <1>2, <2>1 DEF ChainTypes, OptionalDirty, diskVars
<1>4. PlacesMatchPoints'
  BY <1>1 DEF PlacesMatchPoints, diskVars
<1>5. SpansChain'
  <2>1. batches' = (published' + 1)..recorded'
    BY <1>1, <1>2
  <2> QED BY <1>1, <1>2, <2>1 DEF SpansChain, diskVars
<1> QED BY Zenon, <1>1, <1>3, <1>4, <1>5 DEF ChainInv, DurablePrefix, diskVars

(* A step that leaves the callers alone keeps their types.                 *)
LEMMA ClientsFrame ==
  ASSUME ClientsOK, UNCHANGED <<clientVars, cpc, crashes>>
  PROVE  ClientsOK'
BY Zenon DEF ClientsOK, clientVars

(* A step that leaves the channel and the deque alone keeps their types.   *)
LEMMA ChannelFrame ==
  ASSUME ChannelOK, UNCHANGED <<queue, wpending, deferred, prepared>>
  PROVE  ChannelOK'
BY Zenon DEF ChannelOK

(* A step that leaves the writer's state alone keeps its types.            *)
LEMMA WriterFrame ==
  ASSUME WriterOK, UNCHANGED <<wpc, batches, root, applied, failure>>
  PROVE  WriterOK'
BY Zenon DEF WriterOK

(* A step that leaves the mailbox alone keeps its types.                   *)
LEMMA MailboxFrame ==
  ASSUME MailboxOK, UNCHANGED mailVars
  PROVE  MailboxOK'
BY Zenon DEF MailboxOK, mailVars

(* A step that leaves the persistence thread alone keeps its types.        *)
LEMMA WorkerFrame ==
  ASSUME WorkerOK, UNCHANGED <<workerVars, diskVars>>
  PROVE  WorkerOK'
BY Zenon DEF WorkerOK, workerVars, diskVars

(* Answering flush and shutdown calls keeps their types.                   *)
LEMMA AnswerControlType ==
  ASSUME ClientsOK, NEW ok, NEW err, AnswerControl(ok, err)
  PROVE  /\ control' \in [Control -> {"idle", "queued", "ok", "err"}]
         /\ promised' \in SUBSET Writes
BY Zenon DEF ClientsOK, AnswerControl, Covered

(* Answering writes keeps their types.                                     *)
LEMMA AnswerWritesType ==
  ASSUME ClientsOK, NEW ws, NEW answer \in {"ok", "err"}, AnswerWrites(ws, answer)
  PROVE  reply' \in [Writes -> {"none", "ok", "err"}]
BY Zenon DEF ClientsOK, AnswerWrites

(* barrier keeps the types of the mailbox.                                 *)
LEMMA BarrierType ==
  ASSUME MailboxOK, WorkerOK, UNCHANGED diskVars,
         NEW cs \in SUBSET Control, NEW close \in BOOLEAN, Barrier(cs, close)
  PROVE  MailboxOK' /\ WorkerOK'
<1>1. waiters' \in SUBSET (Nat \X Control) /\ closing' \in BOOLEAN /\ force' \in BOOLEAN
  <2>1. /\ waiters \in SUBSET (Nat \X Control) /\ closing \in BOOLEAN /\ force \in BOOLEAN /\ published \in Nat
    BY Zenon DEF MailboxOK
  <2> QED BY <2>1 DEF Barrier
<1>2. MailboxOK'
  BY Zenon, <1>1 DEF MailboxOK, Barrier
<1> QED BY Zenon, <1>2 DEF WorkerOK, Barrier, Notify, diskVars

(* A send keeps the channel within its capacity.                           *)
LEMMA QueueAppend ==
  ASSUME ChannelOK, NEW m \in Writes \cup Control, Len(queue) < BatchLimit,
         queue' = Append(queue, m), UNCHANGED <<wpending, deferred, prepared>>
  PROVE  ChannelOK'
<1>1. queue' \in Seq(Writes \cup Control)
  BY Zenon, AppendMember DEF ChannelOK
<1>2. Len(queue') = Len(queue) + 1 /\ Len(queue) \in Nat
  BY DEF ChannelOK
<1> QED BY <1>1, <1>2, BoundsAssumption DEF ChannelOK

(* The deque and the reserved writes after a step of the writer.           *)
LEMMA QueueTail ==
  ASSUME ChannelOK, queue # <<>>
  PROVE  /\ Tail(queue) \in Seq(Writes \cup Control) /\ Len(Tail(queue)) <= BatchLimit
         /\ Head(queue) \in Writes \cup Control
<1>1. queue \in Seq(Writes \cup Control) /\ Len(queue) <= BatchLimit
  BY Zenon DEF ChannelOK
<1>2. Tail(queue) \in Seq(Writes \cup Control) /\ Head(queue) \in Writes \cup Control
  BY <1>1, TailMember
<1>3. Len(Tail(queue)) = Len(queue) - 1 /\ Len(queue) \in Nat
  BY <1>1
<1> QED BY <1>1, <1>2, <1>3, BoundsAssumption

(* pop_front of the deque keeps its type.                                  *)
LEMMA PendingTail ==
  ASSUME ChannelOK, wpending # <<>>
  PROVE  /\ Tail(wpending) \in Seq(Writes) /\ Head(wpending) \in Writes
         /\ Len(Tail(wpending)) = Len(wpending) - 1
         /\ Len(wpending) \in Nat /\ Len(prepared) \in Nat
BY TailMember DEF ChannelOK

(* Taking a prepared write keeps the type of the batch.                    *)
LEMMA PreparedTail ==
  ASSUME ChannelOK, prepared # <<>>
  PROVE  /\ Tail(prepared) \in Seq([write : Writes, index : Nat])
         /\ Head(prepared) \in [write : Writes, index : Nat]
         /\ Len(Tail(prepared)) = Len(prepared) - 1
         /\ Len(wpending) \in Nat /\ Len(prepared) \in Nat
<1> DEFINE E == [write : Writes, index : Nat]
<1>1. prepared \in Seq(E) /\ wpending \in Seq(Writes)
  BY Zenon DEF ChannelOK
<1> HIDE DEF E
<1>2. Tail(prepared) \in Seq(E) /\ Head(prepared) \in E
  BY Zenon, <1>1, TailMember
<1>3. Len(Tail(prepared)) = Len(prepared) - 1 /\ Len(prepared) \in Nat
  BY <1>1
<1>4. Len(wpending) \in Nat
  BY <1>1
<1> QED BY Zenon, <1>2, <1>3, <1>4 DEF E

(* Outside the prepare, pull and apply points no write is reserved; the    *)
(* drain loops are entered with a write.                                   *)
LEMMA NothingReserved ==
  ASSUME ChainInv, wpc \in {"top", "drain", "merge"}
  PROVE  prepared = <<>> /\ Len(prepared) = 0
BY Zenon DEF ChainInv, PlacesMatchPoints

(* A batch that lost an entry, and a deque of one write, are within the    *)
(* limit on a batch.                                                       *)
LEMMA Room ==
  \A n \in Nat \ {0} : /\ 1 + 0 <= n /\ 0 + 0 <= n /\ 0 <= n
                       /\ \A a, b \in Nat : a + b <= n =>
                             a + (b - 1) <= n /\ (a - 1) + b <= n /\ (a - 1) + (b + 1) <= n
OBVIOUS

(* Callers, closer and clock keep the types.                               *)
LEMMA TypeClients ==
  ASSUME TypeOK,
         \/ SendWrite \/ \E c \in Callers : SendFlush(c)
         \/ TimerStep \/ BeginClose \/ CloserStep \/ Stopped
  PROVE  TypeOK'
<1> USE ClientsFrame, ChannelFrame, WriterFrame, MailboxFrame, WorkerFrame
<1> USE DEF TypeOK, CloserOnly, writerVars
<1>1. CASE SendWrite
  <2>0. sent' = sent + 1 /\ sent < MaxWrites /\ sent \in 0..MaxWrites
    BY Zenon, <1>1 DEF SendWrite, ClientsOK
  <2>1. sent + 1 \in Writes /\ sent' \in 0..MaxWrites
    BY <2>0, BoundsAssumption DEF Writes
  <2>2. ClientsOK'
    BY Zenon, <1>1, <2>1 DEF SendWrite, ClientsOK
  <2>3. ChannelOK'
    BY Zenon, <1>1, <2>1, QueueAppend DEF SendWrite, CanSend
  <2> QED BY Zenon, <1>1, <2>2, <2>3 DEF SendWrite
<1>2. ASSUME NEW c \in Callers, SendFlush(c) PROVE TypeOK'
  <2>1. c \in Control
    BY Zenon DEF Control
  <2>2. ClientsOK'
    BY Zenon, <1>2, <2>1 DEF SendFlush, ClientsOK
  <2>3. ChannelOK'
    BY Zenon, <1>2, <2>1, QueueAppend DEF SendFlush, CanSend
  <2> QED BY Zenon, <1>2, <2>2, <2>3 DEF SendFlush
<1>3. CASE WindowEnds
  BY Zenon, <1>3 DEF WindowEnds, MailboxOK
<1>4. CASE TimedWaitReturns
  BY Zenon, <1>4 DEF TimedWaitReturns, WorkerOK, diskVars
<1>5. CASE BeginClose \/ Abandon \/ CloseAnswered \/ JoinWorker
  <2>1. ClientsOK'
    BY Zenon, <1>5 DEF BeginClose, Abandon, CloseAnswered, JoinWorker, ClientsOK
  <2> QED BY Zenon, <1>5, <2>1 DEF BeginClose, Abandon, CloseAnswered, JoinWorker
<1>6. CASE CloseSend
  <2>1. Closer \in Control
    BY Zenon DEF Control
  <2>2. ClientsOK'
    BY Zenon, <1>6, <2>1 DEF CloseSend, ClientsOK
  <2>3. ChannelOK'
    BY Zenon, <1>6, <2>1, QueueAppend DEF CloseSend
  <2> QED BY Zenon, <1>6, <2>2, <2>3 DEF CloseSend
<1>7. CASE CloseSendFails
  <2>1. ClientsOK'
    BY Zenon, <1>7 DEF CloseSendFails, ClientsOK, Control
  <2> QED BY Zenon, <1>7, <2>1 DEF CloseSendFails
<1>8. CASE JoinWriter
  <2>1. ClientsOK'
    BY Zenon, <1>8 DEF JoinWriter, ClientsOK
  <2>2. MailboxOK' /\ WorkerOK'
    BY Zenon, <1>8, BarrierType DEF JoinWriter
  <2> QED BY Zenon, <1>8, <2>1, <2>2 DEF JoinWriter
<1>9. CASE Stopped
  BY Zenon, <1>9 DEF Stopped, vars
<1> QED BY Zenon, <1>1, <1>2, <1>3, <1>4, <1>5, <1>6, <1>7, <1>8, <1>9 DEF TimerStep, CloserStep

(* The thread ends: what it drops is answered, its deque is empty.         *)
LEMMA TypeExit ==
  ASSUME TypeOK, ChainInv, wpc \in {"top", "drain"},
         NEW answered, NEW waiting, ExitWriter(answered, waiting)
  PROVE  ClientsOK' /\ ChannelOK' /\ WriterOK'
<1>1. ClientsOK'
  BY Zenon, AnswerControlType, AnswerWritesType DEF ExitWriter, TypeOK, ClientsOK
<1>2. ChannelOK'
  <2>1. Len(<<>>) = 0 /\ <<>> \in Seq(Writes) /\ <<>> \in Seq(Writes \cup Control)
    OBVIOUS
  <2>2. prepared = <<>> /\ prepared' = prepared
    BY Zenon, NothingReserved DEF ExitWriter
  <2> QED BY <2>1, <2>2, BoundsAssumption DEF ExitWriter, TypeOK, ChannelOK
<1> QED BY Zenon, <1>1, <1>2 DEF ExitWriter, TypeOK, WriterOK

(* A panicking writer leaves well-typed state behind.                      *)
LEMMA TypePanics ==
  ASSUME TypeOK, WriterPanics
  PROVE  TypeOK'
<1> USE DEF TypeOK, WriterOnly, WriterPanics
<1>1. ClientsOK'
  BY Zenon, AnswerControlType, AnswerWritesType DEF ClientsOK
<1>2. ChannelOK'
  <2>1. /\ <<>> \in Seq(Writes \cup Control) /\ <<>> \in Seq(Writes) /\ Len(<<>>) = 0
        /\ <<>> \in Seq([write : Writes, index : Nat])
    OBVIOUS
  <2>2. Len(<<>>) + Len(<<>>) <= BatchLimit /\ Len(<<>>) <= BatchLimit
    BY Zenon, <2>1, BoundsAssumption, Room
  <2> QED BY Zenon, <2>1, <2>2 DEF ChannelOK
<1> QED BY Zenon, <1>1, <1>2, MailboxFrame, WorkerFrame DEF WriterOK

(* Receiving a message keeps the types.                                    *)
LEMMA TypeReceive ==
  ASSUME TypeOK, ChainInv,
         \/ ReceiveWrite \/ ReceiveFlush \/ ReceiveShutdown \/ ReceiveDisconnected
         \/ EnterFailed
  PROVE  TypeOK'
<1> USE ClientsFrame, ChannelFrame, WriterFrame, MailboxFrame, WorkerFrame
<1> USE DEF TypeOK, WriterOnly, NoAnswer, clientVars
<1>1. ASSUME TakeMessage PROVE /\ queue' \in Seq(Writes \cup Control)
                               /\ Len(queue') <= BatchLimit /\ deferred' = None
                               /\ NextMessage \in Writes \cup Control
  BY Zenon, <1>1, QueueTail DEF TakeMessage, NextMessage, ChannelOK
<1>2. CASE ReceiveWrite
  <2>1. wpending' = <<NextMessage>> /\ NextMessage \in Writes
        /\ prepared' = prepared /\ Len(prepared) = 0
    BY Zenon, <1>2, NothingReserved DEF ReceiveWrite, TakeMessage
  <2>2. wpending' \in Seq(Writes) /\ Len(wpending') = 1
    BY <2>1
  <2>3. ChannelOK'
    <3>1. Len(wpending') + Len(prepared) <= BatchLimit
      BY Zenon, <2>1, <2>2, BoundsAssumption, Room
    <3>2. TakeMessage
      BY Zenon, <1>2 DEF ReceiveWrite
    <3> QED BY Zenon, <1>1, <2>1, <2>2, <3>1, <3>2 DEF ChannelOK
  <2>4. WriterOK'
    BY Zenon, <1>2 DEF ReceiveWrite, WriterOK
  <2> QED BY Zenon, <1>2, <2>3, <2>4 DEF ReceiveWrite
<1>3. CASE ReceiveFlush
  <2>1. NextMessage \in Control
    BY Zenon, <1>3 DEF ReceiveFlush, Control
  <2>2. MailboxOK' /\ WorkerOK'
    BY Zenon, <1>3, <2>1, BarrierType DEF ReceiveFlush
  <2>3. ClientsOK'
    BY Zenon, <1>3, AnswerControlType DEF ReceiveFlush, ClientsOK
  <2>4. ChannelOK'
    BY Zenon, <1>1, <1>3 DEF ReceiveFlush, ChannelOK
  <2>5. WriterOK'
    BY Zenon, <1>3 DEF ReceiveFlush
  <2> QED BY Zenon, <2>2, <2>3, <2>4, <2>5
<1>4. CASE ReceiveShutdown
  <2>1. MailboxOK' /\ WorkerOK'
    BY Zenon, <1>4, BarrierType DEF ReceiveShutdown, ExitWriter, Control
  <2>2. ClientsOK' /\ ChannelOK' /\ WriterOK'
    BY Zenon, <1>4, TypeExit DEF ReceiveShutdown
  <2> QED BY Zenon, <2>1, <2>2
<1>5. CASE ReceiveDisconnected
  <2>1. MailboxOK' /\ WorkerOK'
    BY Zenon, <1>5, BarrierType DEF ReceiveDisconnected, ExitWriter
  <2>2. ClientsOK' /\ ChannelOK' /\ WriterOK'
    BY Zenon, <1>5, TypeExit DEF ReceiveDisconnected
  <2> QED BY Zenon, <2>1, <2>2
<1>6. CASE EnterFailed
  <2>1. ClientsOK' /\ ChannelOK' /\ WriterOK'
    BY Zenon, <1>6, TypeExit DEF EnterFailed
  <2> QED BY Zenon, <1>6, <2>1 DEF EnterFailed, ExitWriter
<1> QED BY Zenon, <1>2, <1>3, <1>4, <1>5, <1>6



(* The prepare loop keeps the types.                                       *)
LEMMA TypePrepare ==
  ASSUME TypeOK, ChainInv,
         \/ Pull \/ EnterBatch \/ ExpireFirst \/ PrepareRefused \/ PrepareReserved
         \/ PulledEnough \/ PrepareFull \/ PrepareEmpty
  PROVE  TypeOK'
<1> USE ClientsFrame, ChannelFrame, WriterFrame, MailboxFrame, WorkerFrame
<1> USE DEF TypeOK, WriterOnly, NoAnswer, clientVars
<1>1. CASE Pull
  <2>1. CASE Head(queue) \in Writes
    <3>1. /\ wpending' = Append(wpending, Head(queue)) /\ queue' = Tail(queue)
          /\ UNCHANGED <<deferred, prepared>>
          /\ Len(wpending) + Len(prepared) < BatchLimit /\ queue # <<>>
      BY Zenon, <1>1, <2>1 DEF Pull, CanPull
    <3>2. wpending \in Seq(Writes) /\ Len(prepared) \in Nat
      BY DEF ChannelOK
    <3>3. wpending' \in Seq(Writes) /\ Len(wpending') = Len(wpending) + 1
          /\ Len(wpending) \in Nat
      BY <2>1, <3>1, <3>2, AppendMember
    <3>4. ChannelOK'
      BY <3>1, <3>2, <3>3, QueueTail, BoundsAssumption DEF ChannelOK
    <3> QED BY Zenon, <1>1, <3>4 DEF Pull
  <2>2. CASE Head(queue) \notin Writes
    <3>1. /\ deferred' = Head(queue) /\ queue' = Tail(queue)
          /\ UNCHANGED <<wpending, prepared>> /\ queue # <<>>
      BY Zenon, <1>1, <2>2 DEF Pull, CanPull
    <3>2. ChannelOK'
      BY Zenon, <2>2, <3>1, QueueTail DEF ChannelOK
    <3> QED BY Zenon, <1>1, <3>2 DEF Pull
  <2> QED BY Zenon, <2>1, <2>2
<1>2. CASE ExpireFirst \/ PrepareRefused
  <2>1. wpending # <<>> /\ wpending' = Tail(wpending) /\ UNCHANGED <<queue, deferred, prepared>>
    BY Zenon, <1>2 DEF ExpireFirst, PrepareRefused
  <2>2. ChannelOK'
    <3>1. /\ Tail(wpending) \in Seq(Writes) /\ Len(Tail(wpending)) = Len(wpending) - 1
          /\ Len(wpending) \in Nat /\ Len(prepared) \in Nat /\ Len(wpending) + Len(prepared) <= BatchLimit
      BY Zenon, <2>1, PendingTail DEF ChannelOK
    <3>2. (Len(wpending) - 1) + Len(prepared) <= BatchLimit
      BY Zenon, <3>1, BoundsAssumption, Room
    <3> QED BY Zenon, <2>1, <3>1, <3>2 DEF ChannelOK
  <2>3. ClientsOK'
    BY Zenon, <1>2, AnswerWritesType DEF ExpireFirst, PrepareRefused, ClientsOK
  <2>4. WriterOK'
    BY Zenon, <1>2 DEF ExpireFirst, PrepareRefused, LoopHead, WriterOK
  <2> QED BY Zenon, <1>2, <2>2, <2>3, <2>4 DEF ExpireFirst, PrepareRefused
<1>3. CASE PrepareReserved
  <2> DEFINE E == [write : Writes, index : Nat]
             new == [write |-> Head(wpending), index |-> NextIndex]
  <2>1. /\ wpending # <<>> /\ wpending' = Tail(wpending) /\ UNCHANGED <<queue, deferred>>
        /\ prepared' = Append(prepared, new)
    BY Zenon, <1>3 DEF PrepareReserved
  <2>2. prepared \in Seq(E) /\ applied \in Nat
    BY Zenon DEF ChannelOK, WriterOK
  <2>3. new \in E
    <3>1. Head(wpending) \in Writes /\ Len(prepared) \in Nat
      BY Zenon, <2>1, PendingTail
    <3>2. NextIndex \in Nat
      BY <2>2, <3>1 DEF NextIndex
    <3> QED BY Zenon, <3>1, <3>2
  <2>4. prepared' \in Seq(E)
    BY Zenon, <2>1, <2>2, <2>3, AppendMember
  <2>5. Len(prepared') = Len(prepared) + 1 /\ Len(prepared) \in Nat
    BY <2>1, <2>2
  <2>6. ChannelOK'
    <3>1. /\ Tail(wpending) \in Seq(Writes) /\ Len(Tail(wpending)) = Len(wpending) - 1
          /\ Len(wpending) \in Nat /\ Len(prepared) \in Nat /\ Len(wpending) + Len(prepared) <= BatchLimit
      BY Zenon, <2>1, PendingTail DEF ChannelOK
    <3>2. (Len(wpending) - 1) + (Len(prepared) + 1) <= BatchLimit
      BY Zenon, <3>1, BoundsAssumption, Room
    <3> QED BY Zenon, <2>1, <2>4, <2>5, <3>1, <3>2 DEF ChannelOK
  <2>7. WriterOK'
    BY Zenon, <1>3 DEF PrepareReserved, WriterOK
  <2> QED BY Zenon, <1>3, <2>6, <2>7 DEF PrepareReserved
<1>4. CASE EnterBatch \/ PulledEnough \/ PrepareFull \/ PrepareEmpty
  <2>1. WriterOK'
    BY Zenon, <1>4 DEF EnterBatch, PulledEnough, PrepareFull, PrepareEmpty, WriterOK
  <2> QED BY Zenon, <1>4, <2>1 DEF EnterBatch, PulledEnough, PrepareFull, PrepareEmpty
<1> QED BY Zenon, <1>1, <1>2, <1>3, <1>4

(* The apply loop and publish keep the types.                              *)
LEMMA TypeApply ==
  ASSUME TypeOK, ChainInv,
         \/ ApplyCommitted \/ ApplyFailed \/ ApplyOmittedSpan \/ ApplyRefused
         \/ PublishNothing \/ PublishTake \/ PublishRestore
  PROVE  TypeOK'
<1> USE ClientsFrame, ChannelFrame, WriterFrame, MailboxFrame, WorkerFrame
<1> USE DEF TypeOK, WriterOnly, NoAnswer, clientVars
<1>1. CASE ApplyCommitted \/ ApplyFailed \/ ApplyOmittedSpan \/ ApplyRefused
  <2> USE DEF ApplyCommitted, ApplyFailed, ApplyOmittedSpan, ApplyRefused
  <2>1. /\ prepared # <<>> /\ prepared' = Tail(prepared)
        /\ UNCHANGED <<queue, wpending, deferred>>
    BY Zenon, <1>1
  <2>2. Head(prepared).write \in Writes /\ Head(prepared).index \in Nat
    BY Zenon, <2>1, PreparedTail
  <2>3. ChannelOK'
    <3>1. /\ prepared' \in Seq([write : Writes, index : Nat]) /\ Len(prepared') = Len(prepared) - 1
          /\ Len(wpending) \in Nat /\ Len(prepared) \in Nat /\ Len(wpending) + Len(prepared) <= BatchLimit
      BY Zenon, <2>1, PreparedTail DEF ChannelOK
    <3>2. Len(wpending) + Len(prepared') <= BatchLimit
      BY Zenon, <3>1, BoundsAssumption, Room
    <3> QED BY Zenon, <2>1, <3>1, <3>2 DEF ChannelOK
  <2>4. reply' \in [Writes -> {"none", "ok", "err"}]
    BY Zenon, <1>1, AnswerWritesType
  <2>5. ClientsOK'
    BY Zenon, <1>1, <2>2, <2>4 DEF ClientsOK
  <2>6. WriterOK'
    BY Zenon, <1>1, <2>2 DEF WriterOK
  <2> QED BY Zenon, <1>1, <2>3, <2>5, <2>6
<1>2. CASE PublishNothing
  <2>1. WriterOK'
    BY Zenon, <1>2 DEF PublishNothing, WriterOK, LoopHead
  <2> QED BY Zenon, <1>2, <2>1 DEF PublishNothing
<1>3. CASE PublishTake
  <2>1. root' \in OptionalDirty /\ pending' \in OptionalDirty
    BY Zenon, <1>3 DEF PublishTake, OrDefault, DefaultDirty, OptionalDirty, Dirty, MailboxOK
  <2>2. WriterOK' /\ MailboxOK'
    BY Zenon, <1>3, <2>1 DEF PublishTake, WriterOK, MailboxOK
  <2> QED BY Zenon, <1>3, <2>2 DEF PublishTake
<1>4. CASE PublishRestore
  <2>1. ChainInv'
    BY Zenon, <1>4, ChainPublishRestore
  <2>2. pending' \in OptionalDirty /\ published' \in Nat
    BY Zenon, <2>1 DEF ChainInv, ChainTypes
  <2>3. MailboxOK'
    BY Zenon, <1>4, <2>2 DEF PublishRestore, MailboxOK
  <2>4. WriterOK'
    BY Zenon, <1>4 DEF PublishRestore, WriterOK, LoopHead, OptionalDirty
  <2>5. WorkerOK'
    BY Zenon, <1>4 DEF PublishRestore, Notify, WorkerOK, diskVars
  <2> QED BY Zenon, <1>4, <2>3, <2>4, <2>5 DEF PublishRestore
<1> QED BY Zenon, <1>1, <1>2, <1>3, <1>4

(* The persistence thread keeps the types.                                 *)
LEMMA TypeWorker ==
  ASSUME TypeOK, ChainInv, ChainInv', WorkerStep
  PROVE  TypeOK'
<1> USE ClientsFrame, ChannelFrame, WriterFrame, MailboxFrame, WorkerFrame
<1> USE DEF TypeOK, WorkerOnly, clientVars, writerVars
<1>0. /\ pending' \in OptionalDirty /\ retained' \in OptionalDirty /\ batch' \in OptionalDirty
      /\ durable' \in Nat /\ diskBookmark' \in Nat /\ diskRows' \in SUBSET Nat
  BY DEF ChainInv, ChainTypes, DurablePrefix
<1>1. CASE WorkerExit \/ WorkerTake \/ WorkerWaitWindow \/ WorkerPark
  <2> USE DEF WorkerExit, WorkerTake, WorkerWaitWindow, WorkerPark
  <2>1. MailboxOK'
    BY Zenon, <1>0, <1>1 DEF MailboxOK
  <2>2. WorkerOK'
    BY Zenon, <1>0, <1>1 DEF WorkerOK
  <2> QED BY Zenon, <1>1, <2>1, <2>2
<1>2. CASE PersistOk \/ PersistError \/ PersistErrorAfterCommit
  <2>1. PersistOutcome("persisted") \/ PersistOutcome("failed")
    BY Zenon, <1>2 DEF PersistOk, PersistError, PersistErrorAfterCommit
  <2>2. WorkerOK'
    BY Zenon, <1>0, <2>1 DEF PersistOutcome, WorkerOK
  <2> QED BY Zenon, <2>1, <2>2 DEF PersistOutcome
<1>3. CASE WorkerPersisted
  <2>1. MailboxOK' /\ WorkerOK'
    BY Zenon, <1>0, <1>3 DEF WorkerPersisted, MailboxOK, WorkerOK
  <2> QED BY Zenon, <1>3, <2>1 DEF WorkerPersisted
<1>4. CASE WorkerSettle
  <2>1. waiters' \in SUBSET (Nat \X Control) /\ force' \in BOOLEAN
    BY Zenon, <1>4 DEF WorkerSettle, Ready, MailboxOK, WorkerOK
  <2>2. MailboxOK' /\ WorkerOK'
    BY Zenon, <1>0, <1>4, <2>1 DEF WorkerSettle, MailboxOK, WorkerOK
  <2>3. ClientsOK'
    BY Zenon, <1>4, AnswerControlType DEF WorkerSettle, ClientsOK
  <2> QED BY Zenon, <1>4, <2>2, <2>3 DEF WorkerSettle
<1>5. CASE WorkerFailed
  <2>1. MailboxOK' /\ WorkerOK'
    BY Zenon, <1>0, <1>5 DEF WorkerFailed, MailboxOK, WorkerOK
  <2>2. ClientsOK'
    BY Zenon, <1>5, AnswerControlType DEF WorkerFailed, ClientsOK
  <2> QED BY Zenon, <1>5, <2>1, <2>2 DEF WorkerFailed
<1> QED BY Zenon, <1>1, <1>2, <1>3, <1>4, <1>5 DEF WorkerStep

(* A crash and restart keep the types.                                     *)
LEMMA TypeCrash ==
  ASSUME TypeOK, Crash
  PROVE  TypeOK'
<1>1. ClientsOK'
  <2>1. reply' \in [Writes -> {"none", "ok", "err"}]
    BY Zenon, AnswerWritesType DEF Crash, TypeOK
  <2>2. cpc' = "open" /\ crashes' \in 0..MaxCrashes
    <3>1. cpc' = "open" /\ crashes' = crashes + 1 /\ crashes < MaxCrashes /\ crashes \in 0..MaxCrashes
      BY Zenon DEF Crash, RestartRuntime, TypeOK, ClientsOK
    <3> QED BY <3>1, BoundsAssumption
  <2> QED BY Zenon, <2>1, <2>2 DEF Crash, TypeOK, ClientsOK
<1>2. ChannelOK'
  <2>1. /\ <<>> \in Seq(Writes \cup Control) /\ <<>> \in Seq(Writes) /\ Len(<<>>) = 0
        /\ <<>> \in Seq([write : Writes, index : Nat])
    OBVIOUS
  <2> QED BY <2>1, BoundsAssumption DEF Crash, RestartRuntime, ChannelOK
<1>3. WriterOK' /\ MailboxOK' /\ WorkerOK'
  BY Zenon DEF Crash, RestartRuntime, TypeOK, WriterOK, MailboxOK, WorkerOK, OptionalDirty, diskVars
<1> QED BY Zenon, <1>1, <1>2, <1>3 DEF TypeOK

(* A runtime that has just started is well typed and satisfies the chain   *)
(* invariant.                                                              *)
LEMMA TypedInit == Init => TypeOK /\ ChainInv
<1> SUFFICES ASSUME Init PROVE TypeOK
  BY Zenon, ChainInvInit
<1> USE DEF Init, StartRuntime
<1>1. ClientsOK
  BY BoundsAssumption DEF ClientsOK
<1>2. ChannelOK
  <2>1. /\ <<>> \in Seq(Writes \cup Control) /\ <<>> \in Seq(Writes) /\ Len(<<>>) = 0
        /\ <<>> \in Seq([write : Writes, index : Nat])
    OBVIOUS
  <2> QED BY <2>1, BoundsAssumption DEF ChannelOK
<1>3. WriterOK /\ MailboxOK /\ WorkerOK
  BY Zenon DEF WriterOK, MailboxOK, WorkerOK, OptionalDirty
<1> QED BY Zenon, <1>1, <1>2, <1>3 DEF TypeOK

(* Every step of a client, a thread, the clock, the closer or a crash keeps*)
(* the types and the chain.                                                *)
LEMMA TypedStep == TypeOK /\ ChainInv /\ [Next]_vars => (TypeOK /\ ChainInv)'
<1> SUFFICES ASSUME TypeOK, ChainInv, [Next]_vars PROVE (TypeOK /\ ChainInv)'
  BY Zenon
<1>1. CASE \/ SendWrite \/ \E c \in Callers : SendFlush(c)
           \/ TimerStep \/ BeginClose \/ CloserStep \/ Stopped
  BY Zenon, <1>1, TypeClients, ChainClients
<1>2. CASE WriterStep
  BY Zenon, <1>2, TypeReceive, TypePrepare, TypeApply, TypePanics, ChainWriterControl,
     ChainApplyFails, ChainPanics, ChainApplies, ChainPublishTake, ChainPublishRestore DEF WriterStep
<1>3. CASE WorkerStep
  <2>1. ChainInv'
    BY Zenon, <1>3, ChainWorkerWaits, ChainTake, ChainPersist, ChainPersisted, ChainFailed
    DEF WorkerStep
  <2> QED BY Zenon, <1>3, <2>1, TypeWorker
<1>4. CASE Crash
  BY Zenon, <1>4, TypeCrash, ChainCrash
<1>5. CASE UNCHANGED vars
  <2>1. TypeOK'
    BY Zenon, <1>5, ClientsFrame, ChannelFrame, WriterFrame, MailboxFrame, WorkerFrame
    DEF TypeOK, vars, clientVars, writerVars
  <2>2. ChainInv'
    BY Zenon, <1>5, ChainQuiet
    DEF vars, chainVars, writerVars, mailVars, workerVars, diskVars
  <2> QED BY Zenon, <2>1, <2>2
<1> QED BY Zenon, <1>1, <1>2, <1>3, <1>4, <1>5 DEF Next

=============================================================================
