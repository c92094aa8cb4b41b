---------------------------- MODULE WriteRuntime ----------------------------
(***************************************************************************)
(* The ordered writer thread, the persistence thread, the mailbox between  *)
(* them and the callers of WriteRuntime (crates/server/src/engine/         *)
(* runtime.rs), down to the commit of a batch in the record store.         *)
(*                                                                         *)
(* A write is a number, in the order the writes enter the writer channel.  *)
(* The records of a mutation are represented by its position: module       *)
(* RecordPersistence shows that a coalesced root stands for the ordered    *)
(* replay of the positions in it.  A dirty root keeps the two fields the   *)
(* code trusts (first_index and the index of its bookmark) next to the set *)
(* of positions that really went into it, since absorb never compares them.*)
(***************************************************************************)
EXTENDS Integers, Sequences, FiniteSets

CONSTANTS
  MaxWrites,  \* bound on the writes sent in one behaviour
  Callers,    \* callers of flush_persistence
  Closer,     \* the caller of shutdown, or the thread Drop spawns
  BatchLimit, \* MAX_WRITE_BATCH, also the capacity of the writer channel
  Pipelined,  \* whether the backend's reservations may be pipelined
  DiskFaults, \* how persist may fail: "error", "afterCommit"
  MaxCrashes, \* bound on process crashes
  None        \* Option::None

Writes == 1..MaxWrites
Control == Callers \cup {Closer}

ASSUME BoundsAssumption ==
  /\ MaxWrites \in Nat /\ MaxCrashes \in Nat
  /\ BatchLimit \in Nat \ {0}
  /\ Pipelined \in BOOLEAN
  /\ DiskFaults \subseteq {"error", "afterCommit"}
ASSUME NamesAssumption ==
  /\ Closer \notin Callers
  /\ Control \cap Writes = {}
  /\ None \notin Control
  /\ None \notin [first : Nat, last : Nat, rows : SUBSET Nat]

VARIABLES
  sent, reply, position,              \* writes: sent so far, answer, index
  control, mark, promised,            \* flush and shutdown calls
  queue,                              \* the writer channel
  wpc, wpending, deferred, prepared,  \* standalone_writer_loop
  batches, root, applied, failure,
  pending, deadline, published,       \* PersistenceState
  durable, waiters, force, closing, error, publication_parked,
  ppc, retained, batch, settling,     \* standalone_persistence_loop
  diskBookmark, diskRows,             \* RecordStore
  cpc, crashes                        \* shutdown / Drop; environment

clientVars == <<sent, reply, position, control, mark, promised>>
writerVars == <<wpc, wpending, deferred, prepared, batches, root, applied, failure>>
mailVars   == <<pending, deadline, published, durable, waiters, force, closing,
                error, publication_parked>>
workerVars == <<ppc, retained, batch, settling>>
diskVars   == <<diskBookmark, diskRows>>
vars == <<clientVars, queue, writerVars, mailVars, workerVars, diskVars, cpc, crashes>>

Dirty == [first : Nat, last : Nat, rows : SUBSET Nat]

DefaultDirty == [first |-> 0, last |-> 0, rows |-> {}]

OrDefault(d) == IF d = None THEN DefaultDirty ELSE d

(* Mutant of absorb: the records already there are lost.                   *)
AbsorbReplaces(d, b) == [first |-> IF d.first = 0 THEN b.first ELSE d.first,
                         last |-> b.last, rows |-> b.rows]

(* DirtyRecords::absorb of a batch with the span and rows of b.            *)
Absorb(d, b) == [first |-> IF d.first = 0 THEN b.first ELSE d.first,
                 last  |-> b.last,
                 rows  |-> d.rows \cup b.rows]

(* The process has just restored its state from the record store.          *)
StartRuntime ==
  /\ queue = <<>>
  /\ wpc = "top" /\ wpending = <<>> /\ deferred = None /\ prepared = <<>>
  /\ batches = {} /\ root = None /\ applied = diskBookmark /\ failure = FALSE
  /\ pending = None /\ deadline = "none"
  /\ published = diskBookmark /\ durable = diskBookmark
  /\ waiters = {} /\ force = FALSE /\ closing = FALSE /\ error = FALSE
  /\ publication_parked = FALSE
  /\ ppc = "check" /\ retained = None /\ batch = None /\ settling = {}
  /\ cpc = "open"

RestartRuntime ==
  /\ queue' = <<>>
  /\ wpc' = "top" /\ wpending' = <<>> /\ deferred' = None /\ prepared' = <<>>
  /\ batches' = {} /\ root' = None /\ applied' = diskBookmark /\ failure' = FALSE
  /\ pending' = None /\ deadline' = "none"
  /\ published' = diskBookmark /\ durable' = diskBookmark
  /\ waiters' = {} /\ force' = FALSE /\ closing' = FALSE /\ error' = FALSE
  /\ publication_parked' = FALSE
  /\ ppc' = "check" /\ retained' = None /\ batch' = None /\ settling' = {}
  /\ cpc' = "open"

Init ==
  /\ sent = 0
  /\ reply = [w \in Writes |-> "none"]
  /\ position = [w \in Writes |-> 0]
  /\ control = [c \in Control |-> "idle"]
  /\ mark = [c \in Control |-> 0]
  /\ promised = {}
  /\ diskBookmark = 0 /\ diskRows = {}
  /\ crashes = 0
  /\ StartRuntime

-----------------------------------------------------------------------------
(* Answers.  promised collects, for every flush or shutdown answered Ok,   *)
(* the writes it covers: those sent before it that were applied.           *)

Covered(cs) == {w \in Writes : position[w] # 0 /\ \E c \in cs : w <= mark[c]}

AnswerControl(ok, err) ==
  /\ control' = [c \in Control |-> IF c \in ok THEN "ok"
                                   ELSE IF c \in err THEN "err" ELSE control[c]]
  /\ promised' = promised \cup Covered(ok)

AnswerWrites(ws, answer) ==
  reply' = [w \in Writes |-> IF w \in ws THEN answer ELSE reply[w]]

(* The writer thread returns: its receiver, its deque and a deferred       *)
(* control message are dropped, and with them the reply channels.          *)
Dropped == {queue[i] : i \in DOMAIN queue} \cup {wpending[i] : i \in DOMAIN wpending}
             \cup ({deferred} \ {None})

(* Mutant: the condition variable reaches only a timed wait.               *)
NotifyTimed(yes) == ppc' = IF yes /\ ppc = "timed" THEN "check" ELSE ppc

(* Condvar::notify_one; the only waiter is the persistence thread.         *)
Notify(yes) ==
  ppc' = IF yes /\ ppc \in {"wait", "timed"} THEN "check" ELSE ppc

(* PersistenceMailbox::barrier for the calls in cs (at most one).          *)
Barrier(cs, close) ==
  LET target == published
      wake   == close \/ target > durable
  IN  /\ waiters' = IF target <= durable THEN waiters
                    ELSE waiters \cup {<<target, c>> : c \in cs}
      /\ closing' = (closing \/ close)
      /\ force' = (force \/ wake)
      /\ Notify(wake)
      /\ UNCHANGED <<pending, deadline, published, durable, error,
                     publication_parked, retained, batch, settling>>

(* Mutant: a barrier answers without comparing its target with durable.    *)
BarrierAnswersAtOnce(cs) == cs

BarrierAnswers(cs) == IF published <= durable THEN cs ELSE {}

-----------------------------------------------------------------------------
(* Callers.  A call on a stopped writer fails at once and changes nothing. *)

(* The runtime is borrowed by every call, so none starts once it is being  *)
(* dropped; a send waits for room in the channel.                          *)
CanSend == /\ wpc # "done"
           /\ cpc \in {"open", "send", "await", "joinWriter"}
           /\ Len(queue) < BatchLimit

(* WriteRuntime::write up to the send.  Its check of the failure cell comes*)
(* before the wait for room, so a write may arrive after a failure.        *)
SendWrite ==
  /\ sent < MaxWrites
  /\ CanSend
  /\ sent' = sent + 1
  /\ queue' = Append(queue, sent + 1)
  /\ UNCHANGED <<reply, position, control, mark, promised, writerVars, mailVars,
                 workerVars, diskVars, cpc, crashes>>

(* WriteRuntime::flush_persistence up to the send.                         *)
SendFlush(c) ==
  /\ control[c] # "queued"
  /\ CanSend
  /\ control' = [control EXCEPT ![c] = "queued"]
  /\ mark' = [mark EXCEPT ![c] = sent]
  /\ queue' = Append(queue, c)
  /\ UNCHANGED <<sent, reply, position, promised, writerVars, mailVars,
                 workerVars, diskVars, cpc, crashes>>

-----------------------------------------------------------------------------
(* The writer thread.                                                      *)

(* What a step of the writer that stays off the mailbox leaves alone.      *)
WriterOnly == UNCHANGED <<sent, mark, mailVars, workerVars, diskVars, cpc, crashes>>

NoAnswer == UNCHANGED <<reply, position, control, promised>>

NextMessage == IF deferred # None THEN deferred ELSE Head(queue)

TakeMessage ==
  /\ wpc = "top" /\ wpending = <<>>
  /\ deferred # None \/ queue # <<>>
  /\ deferred' = None
  /\ queue' = IF deferred # None THEN queue ELSE Tail(queue)

(* blocking_recv returned a write.                                         *)
ReceiveWrite ==
  /\ TakeMessage
  /\ NextMessage \in Writes
  /\ wpending' = <<NextMessage>>
  /\ wpc' = "drain"
  /\ UNCHANGED <<prepared, batches, root, applied, failure>>
  /\ WriterOnly /\ NoAnswer

(* Flush: a barrier that asks for durability of everything published.      *)
ReceiveFlush ==
  /\ TakeMessage
  /\ NextMessage \in Callers
  /\ Barrier({NextMessage}, FALSE)
  /\ AnswerControl(BarrierAnswers({NextMessage}), {})
  /\ UNCHANGED <<sent, reply, position, mark, wpc, wpending, prepared, batches,
                 root, applied, failure, diskVars, cpc, crashes>>

(* The writer thread is gone; whatever still waits for it is answered Err. *)
ExitWriter(answered, waiting) ==
  /\ wpc' = "done"
  /\ queue' = <<>> /\ wpending' = <<>> /\ deferred' = None
  /\ AnswerWrites(Dropped \cap Writes, "err")
  /\ AnswerControl(answered, (Dropped \cap Control) \ (answered \cup waiting))
  /\ UNCHANGED <<sent, position, mark, prepared, batches, root, applied, failure,
                 diskVars, cpc, crashes>>

(* Shutdown: a closing barrier, then the writer returns.                   *)
ReceiveShutdown ==
  /\ wpc = "top" /\ wpending = <<>>
  /\ deferred # None \/ queue # <<>>
  /\ NextMessage = Closer
  /\ Barrier({Closer}, TRUE)
  /\ ExitWriter(BarrierAnswers({Closer}), {Closer})

(* Every sender is gone: the same barrier with nobody to answer.           *)
ReceiveDisconnected ==
  /\ wpc = "top" /\ wpending = <<>> /\ deferred = None /\ queue = <<>>
  /\ cpc = "abandoned"
  /\ Barrier({}, TRUE)
  /\ ExitWriter({}, {})

(* Mutant: the drain loops go on after a control message.                  *)
CanPullPastControl == Len(wpending) + Len(prepared) < BatchLimit /\ queue # <<>>

(* One try_recv of either drain loop: a write joins the deque, a control   *)
(* message is deferred until every write before it has been processed.     *)
CanPull == Len(wpending) + Len(prepared) < BatchLimit /\ deferred = None /\ queue # <<>>

(* Mutant: a drained write overtakes the deque.                            *)
PullOvertakes ==
  /\ wpc \in {"drain", "pull"}
  /\ CanPull
  /\ queue' = Tail(queue)
  /\ IF Head(queue) \in Writes
       THEN wpending' = <<Head(queue)>> \o wpending /\ UNCHANGED deferred
       ELSE deferred' = Head(queue) /\ UNCHANGED wpending
  /\ UNCHANGED <<wpc, prepared, batches, root, applied, failure>>
  /\ WriterOnly /\ NoAnswer

Pull ==
  /\ wpc \in {"drain", "pull"}
  /\ CanPull
  /\ queue' = Tail(queue)
  /\ IF Head(queue) \in Writes
       THEN wpending' = Append(wpending, Head(queue)) /\ UNCHANGED deferred
       ELSE deferred' = Head(queue) /\ UNCHANGED wpending
  /\ UNCHANGED <<wpc, prepared, batches, root, applied, failure>>
  /\ WriterOnly /\ NoAnswer

(* The head of the writer loop blocks only on an empty deque.              *)
LoopHead(deque) == IF deque = <<>> THEN "top" ELSE "drain"

(* process_writer_batch is entered.                                        *)
EnterBatch ==
  /\ wpc = "drain" /\ ~CanPull /\ ~failure
  /\ wpc' = "prepare"
  /\ UNCHANGED <<queue, wpending, deferred, prepared, batches, root, applied, failure>>
  /\ WriterOnly /\ NoAnswer

(* An earlier apply failed: every write of the deque is answered Err and   *)
(* the writer thread returns.                                              *)
EnterFailed ==
  /\ wpc = "drain" /\ ~CanPull /\ failure
  /\ ExitWriter({}, {})
  /\ UNCHANGED <<mailVars, workerVars>>

(* The first write expired in the queue or while waiting for the gate: it  *)
(* alone is answered and the batch ends without records.                   *)
ExpireFirst ==
  /\ wpc = "drain" /\ ~CanPull /\ ~failure /\ wpending # <<>>
  /\ AnswerWrites({Head(wpending)}, "err")
  /\ wpending' = Tail(wpending)
  /\ wpc' = LoopHead(wpending')
  /\ UNCHANGED <<position, control, promised, queue, deferred, prepared, batches,
                 root, applied, failure>>
  /\ WriterOnly

(* A later write expired, or its preparation, reservation or encoding was  *)
(* refused: it is answered and the loop continues.                         *)
PrepareRefused ==
  /\ wpc = "prepare" /\ wpending # <<>> /\ Len(prepared) < BatchLimit
  /\ AnswerWrites({Head(wpending)}, "err")
  /\ wpending' = Tail(wpending)
  /\ UNCHANGED <<position, control, promised, queue, wpc, deferred, prepared,
                 batches, root, applied, failure>>
  /\ WriterOnly

(* next_index: counted from the applied bookmark, up with every reservation*)
NextIndex == applied + Len(prepared) + 1

(* The write is reserved at the next index.  Only a pipelined reservation  *)
(* lets the batch grow, and not beyond the size target.                    *)
PrepareReserved ==
  /\ wpc = "prepare" /\ wpending # <<>> /\ Len(prepared) < BatchLimit
  /\ prepared' = Append(prepared, [write |-> Head(wpending), index |-> NextIndex])
  /\ wpending' = Tail(wpending)
  /\ wpc' \in IF Pipelined THEN {"pull", "apply"} ELSE {"apply"}
  /\ UNCHANGED <<queue, deferred, batches, root, applied, failure>>
  /\ WriterOnly /\ NoAnswer

PulledEnough ==
  /\ wpc = "pull" /\ ~CanPull
  /\ wpc' = "prepare"
  /\ UNCHANGED <<queue, wpending, deferred, prepared, batches, root, applied, failure>>
  /\ WriterOnly /\ NoAnswer

(* The batch ends: the deque is empty, the limit is reached, or the        *)
(* reservation of the next write finds admission full; that write keeps its*)
(* place at the front of the deque.                                        *)
PrepareFull ==
  /\ wpc = "prepare" /\ Pipelined /\ prepared # <<>>
  /\ wpc' = "apply"
  /\ UNCHANGED <<queue, wpending, deferred, prepared, batches, root, applied, failure>>
  /\ WriterOnly /\ NoAnswer

(* Nothing survived preparation.                                           *)
PrepareEmpty ==
  /\ wpc = "prepare" /\ wpending = <<>> /\ prepared = <<>>
  /\ wpc' = "top"
  /\ UNCHANGED <<queue, wpending, deferred, prepared, batches, root, applied, failure>>
  /\ WriterOnly /\ NoAnswer

(* The apply loop, one prepared write at a time.  The caller is answered   *)
(* before the records are published; completing the reservation may fail   *)
(* after the mutation was applied.                                         *)
ApplyCommitted ==
  /\ wpc = "apply" /\ prepared # <<>> /\ ~failure
  /\ applied' = Head(prepared).index
  /\ position' = [position EXCEPT ![Head(prepared).write] = Head(prepared).index]
  /\ batches' = batches \cup {Head(prepared).index}
  /\ \E answer \in {"ok", "err"} : AnswerWrites({Head(prepared).write}, answer)
  /\ prepared' = Tail(prepared)
  /\ UNCHANGED <<control, promised, queue, wpc, wpending, deferred, root, failure>>
  /\ WriterOnly

(* The backend refused the mutation: nothing more is ever applied.         *)
ApplyFailed ==
  /\ wpc = "apply" /\ prepared # <<>> /\ ~failure
  /\ failure' = TRUE
  /\ AnswerWrites({Head(prepared).write}, "err")
  /\ prepared' = Tail(prepared)
  /\ UNCHANGED <<position, control, promised, queue, wpc, wpending, deferred,
                 batches, root, applied>>
  /\ WriterOnly

(* The backend applied the mutation without its record span.               *)
ApplyOmittedSpan ==
  /\ wpc = "apply" /\ prepared # <<>> /\ ~failure
  /\ failure' = TRUE
  /\ applied' = Head(prepared).index
  /\ AnswerWrites({Head(prepared).write}, "err")
  /\ prepared' = Tail(prepared)
  /\ UNCHANGED <<position, control, promised, queue, wpc, wpending, deferred,
                 batches, root>>
  /\ WriterOnly

(* The rest of a batch with a failure is refused.                          *)
ApplyRefused ==
  /\ wpc = "apply" /\ prepared # <<>> /\ failure
  /\ AnswerWrites({Head(prepared).write}, "err")
  /\ prepared' = Tail(prepared)
  /\ UNCHANGED <<position, control, promised, queue, wpc, wpending, deferred,
                 batches, root, applied, failure>>
  /\ WriterOnly

(* A backend call panics in the middle of a batch and unwinds the writer   *)
(* thread.  The receiver, the deque, the reserved writes and the records of*)
(* what the batch had applied go with it; the failure cell stays empty.    *)
WriterPanics ==
  /\ \/ wpc = "prepare" /\ wpending # <<>> /\ Len(prepared) < BatchLimit
     \/ wpc = "apply" /\ prepared # <<>>
  /\ wpc' = "done"
  /\ queue' = <<>> /\ wpending' = <<>> /\ deferred' = None
  /\ prepared' = <<>> /\ batches' = {}
  /\ AnswerWrites((Dropped \cap Writes) \cup {prepared[i].write : i \in DOMAIN prepared}, "err")
  /\ AnswerControl({}, Dropped \cap Control)
  /\ UNCHANGED <<position, root, applied, failure>>
  /\ WriterOnly

(* publish: without records there is nothing to do; otherwise the pending  *)
(* root is swapped out under the lock.                                     *)
PublishNothing ==
  /\ wpc = "apply" /\ prepared = <<>> /\ batches = {}
  /\ wpc' = LoopHead(wpending)
  /\ UNCHANGED <<queue, wpending, deferred, prepared, batches, root, applied, failure>>
  /\ WriterOnly /\ NoAnswer

LastOf(S) == CHOOSE n \in S : \A m \in S : m <= n

(* The span check of publish: every batch continues what is published (its *)
(* error return is never taken: PublicationContiguous).                    *)
Contiguous == batches = (published + 1)..LastOf(batches)

PublishTake ==
  /\ wpc = "apply" /\ prepared = <<>> /\ batches # {}
  /\ Contiguous
  /\ root' = OrDefault(pending)
  /\ pending' = None
  /\ wpc' = "merge"
  /\ UNCHANGED <<clientVars, queue, wpending, deferred, prepared, batches, applied,
                 failure, deadline, published, durable, waiters, force, closing,
                 error, publication_parked, workerVars, diskVars, cpc, crashes>>

(* Mutant: publish ignores the wake handshake.                             *)
PublishNotifiesUnparked == ~error /\ (deadline \in {"none", "passed"} \/ force)

PublishNotifies ==
  ~error /\ (deadline \in {"none", "passed"} \/ publication_parked \/ force)

(* publish: the merged root is put back, the group window is armed and the *)
(* persistence thread is woken if it may be parked or is already due; none *)
(* of that happens while an IO error is unresolved.                        *)
PublishRestore ==
  /\ wpc = "merge"
  /\ pending' = Absorb(root, [first |-> published + 1, last |-> LastOf(batches),
                              rows |-> batches])
  /\ published' = LastOf(batches)
  /\ deadline' = IF ~error /\ deadline = "none" THEN "armed" ELSE deadline
  /\ Notify(PublishNotifies)
  /\ root' = None
  /\ batches' = {}
  /\ wpc' = LoopHead(wpending)
  /\ UNCHANGED <<clientVars, queue, wpending, deferred, prepared, applied, failure,
                 durable, waiters, force, closing, error, publication_parked,
                 retained, batch, settling, diskVars, cpc, crashes>>

WriterStep ==
  \/ ReceiveWrite \/ ReceiveFlush \/ ReceiveShutdown \/ ReceiveDisconnected
  \/ Pull \/ EnterBatch \/ EnterFailed \/ ExpireFirst
  \/ PrepareRefused \/ PrepareReserved \/ PulledEnough \/ PrepareFull \/ PrepareEmpty
  \/ ApplyCommitted \/ ApplyFailed \/ ApplyOmittedSpan \/ ApplyRefused \/ WriterPanics
  \/ PublishNothing \/ PublishTake \/ PublishRestore

-----------------------------------------------------------------------------
(* The persistence thread.                                                 *)

WorkerOnly == UNCHANGED <<sent, reply, position, mark, queue, writerVars, cpc, crashes>>

(* The conditions of the wait loop, evaluated under the mailbox lock.      *)
Drained == closing /\ pending = None /\ retained = None

(* Mutant: an unresolved error blocks even an explicit retry.              *)
DueWithoutRetry == /\ ~error
                   /\ force \/ deadline = "passed"
                   /\ pending # None \/ retained # None

Due == /\ ~error \/ force
       /\ force \/ deadline = "passed"
       /\ pending # None \/ retained # None

WorkerExit ==
  /\ ppc = "check" /\ Drained
  /\ ppc' = "done"
  /\ publication_parked' = FALSE
  /\ UNCHANGED <<control, promised, pending, deadline, published, durable, waiters,
                 force, closing, error, retained, batch, settling, diskVars>>
  /\ WorkerOnly

(* Mutant: a new root takes the place of the retained one.                 *)
WorkerTakeForgets ==
  /\ ppc = "check" /\ ~Drained /\ Due
  /\ force' = FALSE
  /\ deadline' = "none"
  /\ batch' = IF pending = None THEN retained ELSE pending
  /\ pending' = None /\ retained' = None
  /\ publication_parked' = FALSE
  /\ ppc' = "persist"
  /\ UNCHANGED <<control, promised, published, durable, waiters, closing, error,
                 settling, diskVars>>
  /\ WorkerOnly

(* A batch is due: the published root joins the retained one.              *)
WorkerTake ==
  /\ ppc = "check" /\ ~Drained /\ Due
  /\ force' = FALSE
  /\ deadline' = "none"
  /\ batch' = IF pending = None THEN OrDefault(retained)
                                ELSE Absorb(OrDefault(retained), pending)
  /\ pending' = None /\ retained' = None
  /\ publication_parked' = FALSE
  /\ ppc' = "persist"
  /\ UNCHANGED <<control, promised, published, durable, waiters, closing, error,
                 settling, diskVars>>
  /\ WorkerOnly

(* wait_for the end of the group window.                                   *)
WorkerWaitWindow ==
  /\ ppc = "check" /\ ~Drained /\ ~Due
  /\ ~error /\ pending # None /\ deadline # "none"
  /\ ppc' = "timed"
  /\ publication_parked' = FALSE
  /\ UNCHANGED <<control, promised, pending, deadline, published, durable, waiters,
                 force, closing, error, retained, batch, settling, diskVars>>
  /\ WorkerOnly

(* wait without a limit; publication_parked tells a merging publisher that *)
(* its root was missed.                                                    *)
WorkerPark ==
  /\ ppc = "check" /\ ~Drained /\ ~Due
  /\ ~(~error /\ pending # None /\ deadline # "none")
  /\ publication_parked' = (~error /\ pending = None)
  /\ ppc' = "wait"
  /\ UNCHANGED <<control, promised, pending, deadline, published, durable, waiters,
                 force, closing, error, retained, batch, settling, diskVars>>
  /\ WorkerOnly

(* RecordStore::commit accepts only the continuation of the durable prefix.*)
Continues == batch.first = diskBookmark + 1 /\ batch.last >= batch.first

Commit ==
  /\ Continues
  /\ diskBookmark' = batch.last
  /\ diskRows' = diskRows \cup batch.rows

PersistOutcome(pc) ==
  /\ ppc = "persist"
  /\ ppc' = pc
  /\ UNCHANGED <<control, promised, mailVars, retained, batch, settling>>
  /\ WorkerOnly

PersistOk == PersistOutcome("persisted") /\ Commit

(* persist failed, or refused the span, without touching the disk.         *)
PersistError ==
  /\ PersistOutcome("failed")
  /\ "error" \in DiskFaults \/ ~Continues
  /\ UNCHANGED diskVars

(* The transaction was committed and persist reported a failure all the    *)
(* same (an error or a panic after records.commit).                        *)
PersistErrorAfterCommit ==
  /\ "afterCommit" \in DiskFaults
  /\ PersistOutcome("failed")
  /\ Commit

(* Ok: the bookmark is durable and the waiters are taken under the lock.   *)
WorkerPersisted ==
  /\ ppc = "persisted"
  /\ durable' = batch.last
  /\ error' = FALSE
  /\ settling' = waiters /\ waiters' = {}
  /\ batch' = None
  /\ ppc' = "settle"
  /\ UNCHANGED <<control, promised, pending, deadline, published, force, closing,
                 publication_parked, retained, diskVars>>
  /\ WorkerOnly

(* Mutant: a finished batch answers every waiter.                          *)
ReadyAll == settling

Ready == {x \in settling : x[1] <= durable}

(* Outside the lock the waiters that are covered are answered; the others  *)
(* are put back and ask for another batch, as closing does.                *)
WorkerSettle ==
  /\ ppc = "settle"
  /\ AnswerControl({x[2] : x \in Ready}, {})
  /\ waiters' = waiters \cup (settling \ Ready)
  /\ settling' = {}
  /\ force' = (force \/ closing \/ waiters' # {})
  /\ ppc' = "check"
  /\ UNCHANGED <<pending, deadline, published, durable, closing, error,
                 publication_parked, retained, batch, diskVars>>
  /\ WorkerOnly

(* Err: every waiter is told, the batch is retained for an explicit retry; *)
(* a closing mailbox gets no second attempt.                               *)
WorkerFailed ==
  /\ ppc = "failed"
  /\ error' = TRUE /\ force' = FALSE /\ deadline' = "none"
  /\ AnswerControl({}, {x[2] : x \in waiters})
  /\ waiters' = {}
  /\ retained' = Absorb(DefaultDirty, batch)
  /\ batch' = None
  /\ ppc' = IF closing THEN "done" ELSE "check"
  /\ UNCHANGED <<pending, published, durable, closing, publication_parked,
                 settling, diskVars>>
  /\ WorkerOnly

WorkerStep ==
  \/ WorkerExit \/ WorkerTake \/ WorkerWaitWindow \/ WorkerPark
  \/ PersistOk \/ PersistError \/ PersistErrorAfterCommit
  \/ WorkerPersisted \/ WorkerSettle \/ WorkerFailed

(* The group window ends; a timed wait returns.                            *)
WindowEnds ==
  /\ deadline = "armed"
  /\ deadline' = "passed"
  /\ UNCHANGED <<clientVars, queue, writerVars, pending, published, durable,
                 waiters, force, closing, error, publication_parked, workerVars,
                 diskVars, cpc, crashes>>

TimedWaitReturns ==
  /\ ppc = "timed" /\ deadline = "passed"
  /\ ppc' = "check"
  /\ UNCHANGED <<clientVars, queue, writerVars, mailVars, retained, batch,
                 settling, diskVars, cpc, crashes>>

TimerStep == WindowEnds \/ TimedWaitReturns

-----------------------------------------------------------------------------
(* shutdown and Drop.                                                      *)

CloserOnly ==
  UNCHANGED <<sent, reply, position, promised, writerVars, diskVars, crashes>>

(* The worker handles are taken; a second shutdown finds none and returns. *)
BeginClose ==
  /\ cpc = "open"
  /\ cpc' \in {"send", "dropSend"}
  /\ UNCHANGED <<control, mark, queue, mailVars, workerVars>> /\ CloserOnly

CloseSend ==
  /\ cpc \in {"send", "dropSend"} /\ wpc # "done" /\ Len(queue) < BatchLimit
  /\ queue' = Append(queue, Closer)
  /\ control' = [control EXCEPT ![Closer] = "queued"]
  /\ mark' = [mark EXCEPT ![Closer] = sent]
  /\ cpc' = IF cpc = "send" THEN "await" ELSE "dropJoin"
  /\ UNCHANGED <<mailVars, workerVars>> /\ CloserOnly

(* The writer stopped: the send fails, the workers are still joined.       *)
CloseSendFails ==
  /\ cpc \in {"send", "dropSend"} /\ wpc = "done"
  /\ control' = [control EXCEPT ![Closer] = "err"]
  /\ cpc' = IF cpc = "send" THEN "joinWriter" ELSE "dropJoin"
  /\ UNCHANGED <<mark, queue, mailVars, workerVars>> /\ CloserOnly

(* The future of shutdown was dropped before its send and then the runtime,*)
(* or Drop could not spawn its thread: every sender is gone, nobody joins. *)
Abandon ==
  /\ cpc \in {"send", "dropSend"}
  /\ cpc' = "abandoned"
  /\ UNCHANGED <<control, mark, queue, mailVars, workerVars>> /\ CloserOnly

CloseAnswered ==
  /\ cpc = "await" /\ control[Closer] # "queued"
  /\ cpc' = "joinWriter"
  /\ UNCHANGED <<control, mark, queue, mailVars, workerVars>> /\ CloserOnly

(* join_workers: a second, idempotent closing barrier between the joins.   *)
JoinWriter ==
  /\ cpc \in {"joinWriter", "dropJoin"} /\ wpc = "done"
  /\ Barrier({}, TRUE)
  /\ cpc' = "joinWorker"
  /\ UNCHANGED <<control, mark, queue>> /\ CloserOnly

JoinWorker ==
  /\ cpc = "joinWorker" /\ ppc = "done"
  /\ cpc' = "closed"
  /\ UNCHANGED <<control, mark, queue, mailVars, workerVars>> /\ CloserOnly

CloserStep == CloseSend \/ CloseSendFails \/ Abandon \/ CloseAnswered
                \/ JoinWriter \/ JoinWorker

-----------------------------------------------------------------------------
(* The process dies and is started again on the same record store.  Calls  *)
(* in flight fail; a mutation that never reached the disk has no position. *)
Crash ==
  /\ crashes < MaxCrashes
  /\ crashes' = crashes + 1
  /\ AnswerWrites({w \in 1..sent : reply[w] = "none"}, "err")
  /\ position' = [w \in Writes |-> IF position[w] \in diskRows THEN position[w] ELSE 0]
  /\ control' = [c \in Control |-> "idle"]
  /\ UNCHANGED <<sent, mark, promised, diskVars>>
  /\ RestartRuntime

(* A closed or abandoned runtime does nothing more.  When the writer failed*)
(* or panicked and nobody joins it, nobody closes the mailbox either: the  *)
(* persistence thread stays parked.                                        *)
Leaked == cpc = "abandoned" /\ ~closing /\ ppc = "wait"

Stopped ==
  /\ cpc \in {"closed", "abandoned"} /\ wpc = "done"
  /\ ppc = "done" \/ Leaked
  /\ UNCHANGED vars

Next ==
  \/ SendWrite
  \/ \E c \in Callers : SendFlush(c)
  \/ WriterStep \/ WorkerStep \/ TimerStep
  \/ BeginClose \/ CloserStep
  \/ Crash
  \/ Stopped

Spec == Init /\ [][Next]_vars

(* Both threads, the clock and a closer that has begun keep running; the   *)
(* permits of the channel are handed out in order, so a waiting Shutdown   *)
(* is sent eventually.  Nothing makes callers call.                        *)
Fairness ==
  /\ WF_vars(WriterStep) /\ WF_vars(WorkerStep) /\ WF_vars(TimerStep)
  /\ SF_vars(CloserStep)

FairSpec == Spec /\ Fairness

-----------------------------------------------------------------------------
(* Properties.                                                             *)

OptionalDirty == Dirty \cup {None}

ClientsOK ==
  /\ sent \in 0..MaxWrites
  /\ reply \in [Writes -> {"none", "ok", "err"}]
  /\ position \in [Writes -> Nat]
  /\ control \in [Control -> {"idle", "queued", "ok", "err"}]
  /\ mark \in [Control -> 0..MaxWrites]
  /\ promised \in SUBSET Writes
  /\ cpc \in {"open", "send", "dropSend", "await", "joinWriter", "dropJoin",
              "joinWorker", "closed", "abandoned"}
  /\ crashes \in 0..MaxCrashes

ChannelOK ==
  /\ queue \in Seq(Writes \cup Control) /\ Len(queue) <= BatchLimit
  /\ wpending \in Seq(Writes)
  /\ prepared \in Seq([write : Writes, index : Nat])
  /\ Len(wpending) + Len(prepared) <= BatchLimit
  /\ deferred \in Control \cup {None}

WriterOK ==
  /\ wpc \in {"top", "drain", "prepare", "pull", "apply", "merge", "done"}
  /\ batches \in SUBSET Nat
  /\ root \in OptionalDirty
  /\ applied \in Nat
  /\ failure \in BOOLEAN

MailboxOK ==
  /\ pending \in OptionalDirty
  /\ deadline \in {"none", "armed", "passed"}
  /\ published \in Nat /\ durable \in Nat
  /\ waiters \in SUBSET (Nat \X Control)
  /\ force \in BOOLEAN /\ closing \in BOOLEAN /\ error \in BOOLEAN
  /\ publication_parked \in BOOLEAN

WorkerOK ==
  /\ ppc \in {"check", "timed", "wait", "persist", "persisted", "settle", "failed", "done"}
  /\ retained \in OptionalDirty /\ batch \in OptionalDirty
  /\ settling \in SUBSET (Nat \X Control)
  /\ diskBookmark \in Nat
  /\ diskRows \in SUBSET Nat

(* Every variable of the runtime has the type its Rust field has; the      *)
(* channel and the deque stay within MAX_WRITE_BATCH.                      *)
TypeOK == ClientsOK /\ ChannelOK /\ WriterOK /\ MailboxOK /\ WorkerOK

(* The record store always holds exactly the positions up to its bookmark: *)
(* publish, the two absorbs and the retry of a retained batch never leave  *)
(* a gap behind a bookmark that claims to cover it.                        *)
DurablePrefix == diskRows = 1..diskBookmark

(* A flush or shutdown answered Ok covers every write that was sent before *)
(* it: each of them has been answered, and those that were applied are on  *)
(* disk, whatever crashes afterwards.                                      *)
FlushCoversEarlierWrites ==
  /\ \A w \in promised : position[w] \in diskRows
  /\ \A c \in Control : control[c] = "ok" => \A w \in 1..mark[c] : reply[w] # "none"

(* The noncontiguous-span error of publish cannot happen: what one batch of*)
(* the writer applied continues what was published before.                 *)
PublicationContiguous ==
  wpc = "apply" /\ prepared = <<>> /\ batches # {} => Contiguous

(* Unless persist itself lost track (an error after its commit left the    *)
(* disk ahead of durable), a batch, and a retry that merged several,       *)
(* continues the prefix on disk, so the store never refuses it.            *)
RetryContinuesPrefix ==
  ppc = "persist" /\ ("afterCommit" \notin DiskFaults \/ diskBookmark = durable) => Continues

(* The channel, the deque and the batch keep the writes in the order they  *)
(* were sent, a write put back by a full admission included.               *)
WritesInOrder ==
  \A v, w \in Writes : v < w /\ position[v] # 0 /\ position[w] # 0
                         => position[v] < position[w]

(* When shutdown has returned Ok nothing that was ever applied is missing  *)
(* on disk and no call is left without an answer.                          *)
ShutdownIsComplete ==
  cpc = "closed" /\ control[Closer] = "ok" =>
    /\ \A w \in 1..sent : reply[w] # "none" /\ position[w] \in diskRows \cup {0}
    /\ \A c \in Callers : control[c] # "queued"

(* Every write, flush and shutdown that entered the channel is answered,   *)
(* through disk failures and the failure or panic of the writer.           *)
EveryCallAnswered ==
  /\ \A w \in Writes : sent >= w ~> reply[w] # "none"
  /\ \A c \in Control : control[c] = "queued" ~> control[c] # "queued"

(* shutdown and Drop end both threads, also after a failure or a panic of  *)
(* the writer, and shutdown returns; only a writer that died with nobody   *)
(* to join it leaves its sibling parked.                                   *)
CloseTerminates ==
  cpc # "open" ~> /\ cpc \in {"closed", "abandoned"} /\ wpc = "done"
                  /\ ppc = "done" \/ Leaked

(* A mutation arms the group window: as long as no IO error is reported,   *)
(* what is published reaches the disk without anybody asking for it.       *)
WindowPersists ==
  []~error => \A n \in Writes : published >= n ~> diskBookmark >= n

(* The same of every moment without an unresolved IO error: a batch that   *)
(* failed and was retried left nothing behind.                             *)
PublishedIsPersisted ==
  \A n \in Writes : published >= n /\ ~error ~> diskBookmark >= n \/ error

(* Where the records are: Held is with the persistence thread, as a batch  *)
(* being persisted or retained after a failure.                            *)
Held == IF batch # None THEN batch ELSE retained
HeldLast == IF Held = None THEN durable ELSE Held.last

recorded == IF batches = {} THEN published ELSE LastOf(batches)

IsSpan(d, first) == d.first = first /\ first <= d.last /\ d.rows = first..d.last

(* Every root claims exactly the positions whose records it holds, and the *)
(* roots chain without gap or overlap: durable, then what the persistence  *)
(* thread holds, then the published root (in the mailbox or being merged), *)
(* then what the writer applied and has not published.                     *)
SpansChain ==
  /\ durable <= diskBookmark /\ diskBookmark <= HeldLast
  /\ Held # None => IsSpan(Held, durable + 1)
  /\ pending # None => IsSpan(pending, HeldLast + 1) /\ pending.last = published
  /\ root \notin {None, DefaultDirty} => IsSpan(root, HeldLast + 1) /\ root.last = published
  /\ pending = None /\ root \in {None, DefaultDirty} => published = HeldLast
  /\ published <= recorded /\ batches = (published + 1)..recorded
  /\ failure \/ wpc = "done" \/ applied = recorded

(* What the program points say about the places records can be in.         *)
PlacesMatchPoints ==
  /\ batch # None <=> ppc \in {"persist", "persisted", "failed"}
  /\ batch # None => retained = None
  /\ root # None <=> wpc = "merge"
  /\ root # None => pending = None /\ batches # {}
  /\ batches # {} => wpc \in {"apply", "merge"}
  /\ prepared # <<>> => wpc \in {"prepare", "pull", "apply"}
  /\ ~failure => \A i \in DOMAIN prepared : prepared[i].index = applied + i
  /\ ppc = "persisted" => diskBookmark = batch.last
  /\ "afterCommit" \notin DiskFaults /\ ppc # "persisted" => diskBookmark = durable

ChainTypes ==
  /\ published \in Nat /\ durable \in Nat /\ diskBookmark \in Nat /\ applied \in Nat
  /\ {pending, root, retained, batch} \subseteq OptionalDirty
  /\ prepared \in Seq([write : Writes, index : Nat])
  /\ batches \in SUBSET Nat /\ recorded \in Nat
  /\ failure \in BOOLEAN

(* The inductive invariant behind DurablePrefix: the chain of spans, the   *)
(* places the program points allow, and the prefix on disk.                *)
ChainInv == ChainTypes /\ PlacesMatchPoints /\ SpansChain /\ DurablePrefix

(* Where the writes and the calls of flush and shutdown are.               *)
Reserved == {prepared[i].write : i \in DOMAIN prepared}
InDeque == {wpending[i] : i \in DOMAIN wpending}
InChannel == {queue[i] : i \in DOMAIN queue}
InFlight == Reserved \cup InDeque \cup (InChannel \cap Writes)
Waiting == waiters \cup settling

(* The writes wait in the order they were sent, batch before deque before  *)
(* channel; they are the ones without an answer; none has a position yet,  *)
(* and all of them come after every write that has one.                    *)
WritesInLine ==
  /\ \A i, j \in DOMAIN prepared : i < j => prepared[i].write < prepared[j].write
  /\ \A i, j \in DOMAIN wpending : i < j => wpending[i] < wpending[j]
  /\ \A i, j \in DOMAIN queue :
        i < j /\ queue[i] \in Writes /\ queue[j] \in Writes => queue[i] < queue[j]
  /\ \A v \in Reserved, w \in InDeque : v < w
  /\ \A v \in Reserved \cup InDeque, w \in InChannel \cap Writes : v < w
  /\ InFlight = {w \in 1..sent : reply[w] = "none"}
  /\ \A w \in Writes : w > sent => reply[w] = "none" /\ position[w] = 0
  /\ \A v \in Writes, w \in InFlight : position[v] # 0 => v < w

(* A position is one that was applied, and one whose records the runtime   *)
(* has unless a panic of the writer took them.                             *)
PositionsBounded ==
  \A w \in Writes : position[w] <= applied /\ (wpc # "done" => position[w] <= recorded)

(* A call of flush or shutdown that is not answered is in one place.       *)
CallsInPlace ==
  /\ \A i, j \in DOMAIN queue : queue[i] = queue[j] => i = j
  /\ deferred # None => deferred \notin InChannel
  /\ \A x \in Waiting : x[2] \notin InChannel \cup {deferred}
  /\ \A x, y \in Waiting : x[2] = y[2] => x = y
  /\ waiters \cap settling = {}
  /\ \A c \in Control :
        control[c] = "queued" <=> c \in InChannel \cup {deferred} \cup {x[2] : x \in Waiting}
  /\ settling # {} => ppc = "settle"

(* What the ends of the two threads and the steps of shutdown leave behind.*)
EndsInOrder ==
  /\ wpc = "done" => queue = <<>> /\ wpending = <<>> /\ prepared = <<>> /\ deferred = None
  /\ closing => wpc = "done"
  /\ ppc = "done" => closing /\ Waiting = {}
  /\ cpc \in {"open", "send", "dropSend"} => control[Closer] = "idle"
  /\ cpc \in {"joinWorker", "closed"} => wpc = "done" /\ closing
  /\ cpc = "closed" => ppc = "done"

(* The writes before a call stay ahead of it, and a call waits for a target*)
(* that covers every write before it that was applied.                     *)
MarksHold ==
  /\ \A c \in Control : mark[c] <= sent
  /\ \A i, j \in DOMAIN queue :
        i < j /\ queue[i] \in Control /\ queue[j] \in Writes => mark[queue[i]] < queue[j]
  /\ deferred # None => \A w \in InChannel \cap Writes : mark[deferred] < w
  /\ \A x \in Waiting : /\ x[1] <= published
                        /\ \A w \in 1..mark[x[2]] : reply[w] # "none" /\ position[w] <= x[1]
  /\ \A x \in waiters : durable < x[1]

(* shutdown covers every write there will be; what was promised is kept.   *)
AnswersHold ==
  /\ \A c \in Control : control[c] = "ok" => \A w \in 1..mark[c] : reply[w] # "none"
  /\ \A x \in Waiting : x[2] = Closer => wpc = "done" /\ \A w \in Writes : position[w] <= x[1]
  /\ control[Closer] = "ok" =>
        wpc = "done" /\ \A w \in Writes : position[w] \in diskRows \cup {0}
  /\ \A w \in promised : position[w] \in diskRows

(* The inductive invariant behind the order of the writes and the answers. *)
CallsInv == /\ WritesInLine /\ PositionsBounded /\ WritesInOrder
            /\ CallsInPlace /\ EndsInOrder /\ MarksHold /\ AnswersHold

(* The types of the runtime, the chain and the calls: together they are    *)
(* inductive.                                                              *)
RuntimeInv == TypeOK /\ ChainInv /\ CallsInv

-----------------------------------------------------------------------------
(* The runtime as an implementation of DurableLog.                         *)

Highest(S) == IF S = {} THEN 0 ELSE LastOf(S)

promisedPosition == Highest({position[w] : w \in promised})

Log == INSTANCE DurableLog WITH recorded <- recorded, stored <- diskBookmark,
                                promised <- promisedPosition

(* The runtime implements the durable log: records enter one position at a *)
(* time, the disk gains whole prefixes of them, Ok is answered only for    *)
(* what the disk holds, and only a crash or the death of the writer takes  *)
(* anything back, never what is on disk.                                   *)
ImplementsDurableLog == Log!Spec

=============================================================================
