------------------------- MODULE WriteRuntimeProofs -------------------------
(***************************************************************************)
(* The ends of the two threads, the retries and a crash; with them the     *)
(* safety of the write path, and the write path as an implementation of    *)
(* DurableLog.                                                             *)
(***************************************************************************)
EXTENDS WriteRuntimeChain, WriteRuntimeCalls, WellFoundedInduction

(* The persistence thread ends only when nothing waits for it: all that was*)
(* published is durable then, and a waiter waits for more than that.       *)
LEMMA CallsWorkerExit ==
  ASSUME RuntimeInv, WorkerExit
  PROVE  CallsInv'
<1> USE DEF RuntimeInv, CallsInv
<1>1. /\ ppc = "check" /\ closing /\ pending = None /\ retained = None /\ ppc' = "done"
      /\ UNCHANGED <<clientVars, queue, wpending, deferred, prepared, waiters, settling, closing, durable,
                     applied, recorded, published, diskRows, wpc, cpc>>
  BY Zenon DEF WorkerExit, Drained, WorkerOnly, writerVars, diskVars, clientVars, recorded
<1>2. batch = None /\ root = None
  BY Zenon, <1>1 DEF ChainInv, PlacesMatchPoints, EndsInOrder
<1>3. published = durable
  BY Zenon, <1>1, <1>2 DEF ChainInv, SpansChain, Held, HeldLast
<1>4. settling = {}
  BY Zenon, <1>1 DEF CallsInPlace
<1>5. waiters = {}
  <2> SUFFICES ASSUME NEW x \in waiters PROVE FALSE
    BY Zenon
  <2>1. x[1] \in Nat /\ x[1] <= published /\ durable < x[1] /\ published \in Nat
    BY Zenon, PlaceTypes DEF MarksHold, Waiting, TypeOK, MailboxOK
  <2> QED BY <1>3, <2>1
<1>6. Waiting = {} /\ published' \in Nat /\ published <= published'
  BY <1>1, <1>4, <1>5 DEF Waiting, TypeOK, MailboxOK
<1> HIDE DEF RuntimeInv
<1> QED BY Zenon, <1>1, <1>4, <1>6, CallsFrame

(* After a commit every waiter is taken out of the mailbox.                *)
LEMMA CallsPersisted ==
  ASSUME RuntimeInv, WorkerPersisted
  PROVE  CallsInv'
<1> USE DEF RuntimeInv, CallsInv, clientVars
<1>1. /\ ppc = "persisted" /\ ppc' = "settle" /\ settling' = waiters /\ waiters' = {}
      /\ UNCHANGED <<clientVars, queue, wpending, deferred, prepared, closing, applied, recorded, published,
                     diskRows, wpc, cpc>>
  BY Zenon DEF WorkerPersisted, WorkerOnly, writerVars, diskVars, recorded
<1>2. settling = {}
  BY Zenon, <1>1 DEF CallsInPlace
<1>3. UNCHANGED <<Reserved, InDeque, InChannel, InFlight, Waiting>>
  BY Zenon, <1>1, <1>2 DEF Reserved, InDeque, InChannel, InFlight, Waiting
<1>4. WritesInLine' /\ WritesInOrder' /\ PositionsBounded'
  BY Zenon, <1>1, <1>3 DEF WritesInLine, WritesInOrder, PositionsBounded
<1>5. CallsInPlace'
  BY Zenon, <1>1, <1>3 DEF CallsInPlace
<1>6. EndsInOrder' /\ MarksHold' /\ AnswersHold'
  BY Zenon, <1>1, <1>3 DEF EndsInOrder, MarksHold, AnswersHold
<1> QED BY Zenon, <1>4, <1>5, <1>6

(* The waiters that are covered are answered Ok, the others wait again.    *)
LEMMA CallsSettle ==
  ASSUME RuntimeInv, WorkerSettle
  PROVE  CallsInv'
<1> DEFINE ok == {x[2] : x \in Ready}
<1> USE DEF RuntimeInv, CallsInv
<1>1. /\ ppc = "settle" /\ ppc' = "check" /\ settling' = {} /\ waiters' = waiters \cup (settling \ Ready)
      /\ UNCHANGED <<sent, reply, position, mark, queue, wpending, deferred, prepared, closing, applied,
                     recorded, published, durable, diskRows, wpc, cpc>>
      /\ AnswerControl(ok, {})
  BY Zenon DEF WorkerSettle, WorkerOnly, writerVars, diskVars, recorded
<1>2. Ready \subseteq settling /\ Ready \subseteq Waiting /\ Waiting' = Waiting \ Ready
  BY Zenon, <1>1 DEF Ready, Waiting, CallsInPlace
<1>3. UNCHANGED <<Reserved, InDeque, InChannel, InFlight>>
  BY Zenon, <1>1 DEF Reserved, InDeque, InChannel, InFlight
<1>4. /\ published \in Nat /\ durable \in Nat /\ (\A w \in Writes : position[w] \in Nat)
      /\ \A c \in Control : 1..mark[c] \subseteq Writes
  BY BoundsAssumption DEF TypeOK, MailboxOK, ClientsOK, Writes
<1>5. ok \in SUBSET Control /\ {} \in SUBSET Control
  BY Zenon, <1>2, PlaceTypes
<1>6. \A x \in Ready : x[1] <= durable /\ x[1] \in Nat /\ x[2] \in Control
  BY Zenon, <1>2, PlaceTypes DEF Ready
<1>7. /\ \A c \in Control : control'[c] = IF c \in ok THEN "ok" ELSE control[c]
      /\ \A w \in promised' : position'[w] \in diskRows'
  <2>1. \A c \in ok : \A w \in 1..mark[c] : position[w] <= durable
    <3> SUFFICES ASSUME NEW x \in Ready, NEW w \in 1..mark[x[2]] PROVE position[w] <= durable
      BY Zenon
    <3>1. position[w] <= x[1] /\ w \in Writes
      BY <1>2, <1>4, <1>6 DEF MarksHold
    <3> QED BY <1>4, <1>6, <3>1
  <2>2. AnswerControl(ok, {}) /\ position' = position /\ diskRows' = diskRows
    BY Zenon, <1>1
  <2> HIDE DEF ok, RuntimeInv
  <2>3. RuntimeInv
    BY Zenon
  <2> QED BY <1>5, <2>1, <2>2, <2>3, AnswersKept
<1>8. WritesInLine' /\ WritesInOrder' /\ PositionsBounded'
  BY Zenon, <1>1, <1>3 DEF WritesInLine, WritesInOrder, PositionsBounded
<1>9. CallsInPlace'
  <2>1. ASSUME NEW c \in Control
        PROVE  control'[c] = "queued" <=> c \in InChannel' \cup {deferred'} \cup {x[2] : x \in Waiting'}
    <3>1. CASE c \in ok
      <4>1. PICK x \in Ready : x[2] = c
        BY Zenon, <3>1
      <4>2. c \notin InChannel \cup {deferred}
        BY <1>2, <4>1 DEF CallsInPlace
      <4>3. \A y \in Waiting \ Ready : y[2] # c
        BY <1>2, <4>1 DEF CallsInPlace
      <4> QED BY <1>1, <1>2, <1>3, <1>7, <3>1, <4>2, <4>3
    <3>2. CASE c \notin ok
      <4>1. \A x \in Ready : x[2] # c
        BY Zenon, <3>2
      <4>2. c \in {x[2] : x \in Waiting'} <=> c \in {x[2] : x \in Waiting}
        BY Zenon, <1>2, <4>1
      <4> QED BY <1>1, <1>3, <1>7, <3>2, <4>2 DEF CallsInPlace
    <3> QED BY Zenon, <3>1, <3>2
  <2> QED BY <1>1, <1>2, <1>3, <2>1 DEF CallsInPlace
<1>10. EndsInOrder'
  <2>1. cpc \in {"open", "send", "dropSend"} => Closer \notin ok
    <3>1. \A x \in Waiting : control[x[2]] = "queued"
      BY Zenon, PlaceTypes DEF CallsInPlace
    <3> QED BY Zenon, <1>2, <3>1 DEF EndsInOrder
  <2>2. Closer \in Control
    BY Zenon DEF Control
  <2> QED BY <1>1, <1>7, <2>1, <2>2 DEF EndsInOrder
<1>11. MarksHold'
  <2>1. \A x \in settling \ Ready : durable < x[1]
    BY <1>4, PlaceTypes DEF Ready, Waiting
  <2> QED BY Zenon, <1>1, <1>2, <1>3, <2>1 DEF MarksHold
<1>12. AnswersHold'
  <2>1. \A c \in ok : \A w \in 1..mark[c] : reply[w] # "none"
    BY Zenon, <1>2 DEF MarksHold
  <2>2. Closer \in ok => wpc = "done" /\ \A w \in Writes : position[w] \in diskRows \cup {0}
    <3>1. ASSUME NEW x \in Ready, x[2] = Closer, NEW w \in Writes PROVE position[w] \in diskRows \cup {0}
      <4>1. position[w] <= x[1]
        BY <1>2, <3>1 DEF AnswersHold
      <4>2. position[w] <= durable /\ position[w] \in Nat
        BY <1>4, <1>6, <4>1
      <4> QED BY Zenon, <4>2, DurableOnDisk
    <3>2. \A x \in Ready : x[2] = Closer => wpc = "done"
      BY Zenon, <1>2 DEF AnswersHold
    <3> QED BY Zenon, <3>1, <3>2
  <2>3. Closer \in Control
    BY Zenon DEF Control
  <2> HIDE DEF ok
  <2> QED BY <1>1, <1>2, <1>7, <2>1, <2>2, <2>3 DEF AnswersHold
<1> QED BY <1>8, <1>9, <1>10, <1>11, <1>12

(* A failed persist answers Err to every waiter.                           *)
LEMMA CallsFailed ==
  ASSUME RuntimeInv, WorkerFailed
  PROVE  CallsInv'
<1> DEFINE err == {x[2] : x \in waiters}
<1> USE DEF RuntimeInv, CallsInv
<1>1. /\ ppc = "failed" /\ ppc' = (IF closing THEN "done" ELSE "check") /\ waiters' = {} /\ settling' = settling
      /\ UNCHANGED <<sent, reply, position, mark, queue, wpending, deferred, prepared, closing, applied,
                     recorded, published, durable, diskRows, wpc, cpc>>
      /\ AnswerControl({}, err)
  BY Zenon DEF WorkerFailed, WorkerOnly, writerVars, diskVars, recorded
<1>2. settling = {} /\ Waiting = waiters /\ Waiting' = {}
  BY Zenon, <1>1 DEF CallsInPlace, Waiting
<1>3. UNCHANGED <<Reserved, InDeque, InChannel, InFlight>>
  BY Zenon, <1>1 DEF Reserved, InDeque, InChannel, InFlight
<1>4. err \in SUBSET Control /\ {} \in SUBSET Control
  BY Zenon, <1>2, PlaceTypes
<1>5. /\ \A c \in Control : control'[c] = IF c \in err THEN "err" ELSE control[c]
      /\ \A w \in promised' : position'[w] \in diskRows'
  <2>1. \A c \in {} : \A w \in 1..mark[c] : position[w] <= durable
    BY Zenon
  <2>2. AnswerControl({}, err) /\ position' = position /\ diskRows' = diskRows
    BY Zenon, <1>1
  <2> HIDE DEF err, RuntimeInv
  <2>3. RuntimeInv
    BY Zenon
  <2> QED BY <1>4, <2>1, <2>2, <2>3, AnswersKept
<1>6. WritesInLine' /\ WritesInOrder' /\ PositionsBounded'
  BY Zenon, <1>1, <1>3 DEF WritesInLine, WritesInOrder, PositionsBounded
<1>7. CallsInPlace'
  BY <1>1, <1>2, <1>3, <1>5 DEF CallsInPlace
<1>8. EndsInOrder'
  <2>1. Closer \in Control /\ (cpc \in {"open", "send", "dropSend"} => Closer \notin err)
    BY Zenon, <1>2 DEF Control, EndsInOrder, CallsInPlace
  <2> QED BY <1>1, <1>2, <1>5, <2>1 DEF EndsInOrder
<1>9. MarksHold' /\ AnswersHold'
  <2>1. Closer \in Control
    BY Zenon DEF Control
  <2> QED BY <1>1, <1>2, <1>3, <1>5, <2>1 DEF MarksHold, AnswersHold
<1> QED BY <1>6, <1>7, <1>8, <1>9

(* A close that finds the writer gone, and the join of the writer.         *)
LEMMA CallsClose ==
  ASSUME RuntimeInv, CloseSendFails \/ JoinWriter
  PROVE  CallsInv'
<1> USE DEF RuntimeInv, CallsInv
<1>1. /\ UNCHANGED <<sent, reply, position, mark, promised, queue, wpending, deferred, prepared, waiters,
                     settling, applied, recorded, published, durable, diskRows, wpc>>
      /\ wpc = "done" /\ (ppc' = ppc \/ (ppc \in {"wait", "timed"} /\ ppc' = "check"))
      /\ (closing => closing') /\ closing' \in BOOLEAN
      /\ cpc' \in {"joinWriter", "dropJoin", "joinWorker"} /\ (cpc' = "joinWorker" => closing')
      /\ control' = control \/ (control[Closer] = "idle" /\ control' = [control EXCEPT ![Closer] = "err"])
  <2>1. CASE CloseSendFails
    BY Zenon, <2>1 DEF CloseSendFails, CloserOnly, writerVars, mailVars, workerVars, diskVars, recorded, EndsInOrder,
                TypeOK, MailboxOK
  <2>2. CASE JoinWriter
    <3>1. waiters' = waiters
      BY Zenon, <2>2 DEF JoinWriter, Barrier
    <3> QED BY Zenon, <2>2, <3>1 DEF JoinWriter, Barrier, Notify, CloserOnly, writerVars, diskVars, recorded,
                              TypeOK, MailboxOK
  <2> QED BY Zenon, <2>1, <2>2
<1>2. UNCHANGED <<Reserved, InDeque, InChannel, InFlight, Waiting>>
  BY Zenon, <1>1 DEF Reserved, InDeque, InChannel, InFlight, Waiting
<1>3. /\ Closer \in Control /\ \A c \in Control : c # Closer => control'[c] = control[c]
      /\ control'[Closer] = "queued" <=> control[Closer] = "queued"
      /\ control'[Closer] = "ok" <=> control[Closer] = "ok"
  BY Zenon, <1>1 DEF Control, TypeOK, ClientsOK
<1>4. WritesInLine' /\ WritesInOrder' /\ PositionsBounded'
  BY Zenon, <1>1, <1>2 DEF WritesInLine, WritesInOrder, PositionsBounded
<1>5. CallsInPlace'
  BY Zenon, <1>1, <1>2, <1>3 DEF CallsInPlace
<1>6. EndsInOrder'
  BY Zenon, <1>1, <1>2 DEF EndsInOrder
<1>7. MarksHold' /\ AnswersHold'
  BY Zenon, <1>1, <1>2, <1>3 DEF MarksHold, AnswersHold
<1> QED BY Zenon, <1>4, <1>5, <1>6, <1>7

(* A crash answers every call; the writes on disk keep their positions.    *)
LEMMA CallsCrash ==
  ASSUME RuntimeInv, Crash
  PROVE  CallsInv'
<1> USE DEF RuntimeInv, CallsInv
<1>1. /\ queue' = <<>> /\ wpending' = <<>> /\ prepared' = <<>> /\ deferred' = None /\ waiters' = {}
      /\ settling' = {} /\ wpc' = "top" /\ ppc' = "check" /\ cpc' = "open" /\ ~closing' /\ batches' = {}
      /\ published' = diskBookmark /\ durable' = diskBookmark /\ applied' = diskBookmark
      /\ UNCHANGED <<sent, mark, promised, diskRows, diskBookmark>>
  BY Zenon DEF Crash, RestartRuntime, diskVars
<1>2. /\ \A w \in Writes : reply'[w] = IF w \in 1..sent /\ reply[w] = "none" THEN "err" ELSE reply[w]
      /\ \A w \in Writes : position'[w] = IF position[w] \in diskRows THEN position[w] ELSE 0
      /\ \A c \in Control : control'[c] = "idle"
  BY Zenon DEF Crash, AnswerWrites
<1>3. /\ Reserved' = {} /\ InDeque' = {} /\ InChannel' = {} /\ InFlight' = {} /\ Waiting' = {}
      /\ recorded' = diskBookmark
  <2> HIDE DEF RuntimeInv, CallsInv
  <2>1. DOMAIN <<>> = {}
    OBVIOUS
  <2> QED BY Zenon, <1>1, <2>1 DEF Reserved, InDeque, InChannel, InFlight, Waiting, recorded
<1>4. /\ diskBookmark \in Nat /\ diskRows = 1..diskBookmark /\ sent \in Nat /\ 1..sent \subseteq Writes
      /\ Closer \in Control /\ promised \subseteq Writes
  <2>1. diskBookmark \in Nat /\ diskRows = 1..diskBookmark /\ promised \subseteq Writes
    BY Zenon DEF ChainInv, ChainTypes, DurablePrefix, TypeOK, ClientsOK
  <2> QED BY Zenon, <2>1, CallTypes DEF Control
<1>5. WritesInLine'
  <2>1. \A w \in 1..sent : reply'[w] # "none"
    BY Zenon, <1>2, <1>4
  <2>2. \A w \in Writes : w > sent => reply'[w] = "none" /\ position'[w] = 0
    BY <1>2, <1>4 DEF WritesInLine, Writes
  <2>3. DOMAIN <<>> = {}
    OBVIOUS
  <2>4. {w \in 1..sent' : reply'[w] = "none"} = {}
    BY Zenon, <1>1, <2>1
  <2> QED BY Zenon, <1>1, <1>3, <2>2, <2>3, <2>4 DEF WritesInLine, Writes
<1>6. WritesInOrder' /\ PositionsBounded'
  BY <1>1, <1>2, <1>3, <1>4 DEF WritesInOrder, PositionsBounded
<1>7. CallsInPlace'
  BY <1>1, <1>2, <1>3, PlaceTypes DEF CallsInPlace
<1>8. EndsInOrder'
  BY <1>1, <1>2, <1>3, <1>4 DEF EndsInOrder
<1>9. MarksHold'
  BY <1>1, <1>3 DEF MarksHold
<1>10. AnswersHold'
  BY <1>1, <1>2, <1>3, <1>4 DEF AnswersHold
<1> QED BY <1>5, <1>6, <1>7, <1>8, <1>9, <1>10

(* Before the first call nothing is in flight.                             *)
LEMMA CallsInit == Init => CallsInv
<1> SUFFICES ASSUME Init PROVE CallsInv
  BY Zenon
<1>1. /\ Reserved = {} /\ InDeque = {} /\ InChannel = {} /\ InFlight = {} /\ Waiting = {} /\ recorded = 0
      /\ Closer \in Control /\ None \notin Control
  BY NamesAssumption DEF Init, StartRuntime, Reserved, InDeque, InChannel, InFlight, Waiting, recorded, Control
<1>2. WritesInLine /\ PositionsBounded /\ WritesInOrder
  BY <1>1 DEF Init, StartRuntime, WritesInLine, PositionsBounded, WritesInOrder
<1>3. CallsInPlace /\ EndsInOrder
  BY <1>1 DEF Init, StartRuntime, CallsInPlace, EndsInOrder
<1>4. MarksHold /\ AnswersHold
  BY <1>1 DEF Init, StartRuntime, MarksHold, AnswersHold
<1> QED BY <1>2, <1>3, <1>4 DEF CallsInv


(* Every step keeps the invariant of the calls.                            *)
LEMMA CallsStep ==
  ASSUME RuntimeInv, ChainInv', [Next]_vars
  PROVE  CallsInv'
<1>1. CASE SendWrite \/ (\E c \in Callers : SendFlush(c)) \/ TimerStep \/ BeginClose \/ CloserStep \/ Stopped
  BY <1>1, CallsUntouched, CallsSend, CallsClose DEF TimerStep, CloserStep
<1>2. CASE WriterStep
  BY <1>2, CallsUntouched, CallsPublish, CallsPull, CallsRefuse, CallsReserve, CallsApply, CallsFlush, CallsEnd
  DEF WriterStep
<1>3. CASE WorkerStep
  BY <1>3, CallsUntouched, CallsCommit, CallsWorkerExit, CallsPersisted, CallsSettle, CallsFailed
  DEF WorkerStep
<1>4. CASE Crash
  BY Zenon, <1>4, CallsCrash
<1>5. CASE UNCHANGED vars
  <2>1. /\ UNCHANGED <<clientVars, queue, wpending, deferred, prepared, waiters, settling, closing, durable,
                       applied, recorded, published, diskRows, wpc, ppc, cpc>>
        /\ published \in Nat /\ published <= published
    BY <1>5 DEF vars, clientVars, writerVars, mailVars, workerVars, diskVars, recorded, RuntimeInv, TypeOK,
                MailboxOK
  <2> QED BY Zenon, <2>1, CallsFrame DEF RuntimeInv, CallsInv, EndsInOrder, CallsInPlace
<1> QED BY Zenon, <1>1, <1>2, <1>3, <1>4, <1>5 DEF Next

(* The types, the chain and the calls hold together for any number of      *)
(* writes, callers and crashes, any disk failure and a panic of the writer *)
(* at any point.                                                           *)
THEOREM RuntimeIsSafe == Spec => []RuntimeInv
<1>1. Init => RuntimeInv
  BY Zenon, TypedInit, CallsInit DEF RuntimeInv
<1>2. RuntimeInv /\ [Next]_vars => RuntimeInv'
  BY Zenon, TypedStep, CallsStep DEF RuntimeInv
<1> QED BY <1>1, <1>2, PTL DEF Spec

(* The types of runtime.rs, the bounds of the channel and the deque.       *)
THEOREM RuntimeTypes == Spec => []TypeOK
BY RuntimeIsSafe, PTL DEF RuntimeInv

(* The roots chain from the durable bookmark to the last applied position. *)
THEOREM RuntimeChain == Spec => []ChainInv
BY RuntimeIsSafe, PTL DEF RuntimeInv

(* The record store holds exactly the positions its bookmark covers: no    *)
(* interleaving of publish, persist, failure, retry and crash leaves a gap.*)
THEOREM DiskHoldsPrefix == Spec => []DurablePrefix
<1>1. ChainInv => DurablePrefix
  BY Zenon DEF ChainInv
<1> QED BY <1>1, RuntimeChain, PTL

(* publish never meets a noncontiguous span.                               *)
THEOREM PublicationNeverRefused == Spec => []PublicationContiguous
<1>1. ChainInv => PublicationContiguous
  BY Zenon DEF ChainInv, SpansChain, PublicationContiguous, Contiguous, recorded
<1> QED BY <1>1, RuntimeChain, PTL

(* The record store refuses no batch unless persist failed after a commit. *)
THEOREM RetryNeverRefused == Spec => []RetryContinuesPrefix
<1>1. ChainInv => RetryContinuesPrefix
  <2> SUFFICES ASSUME ChainInv, ppc = "persist",
                      "afterCommit" \notin DiskFaults \/ diskBookmark = durable
               PROVE  Continues
    BY Zenon DEF RetryContinuesPrefix
  <2>1. batch # None /\ diskBookmark = durable
    BY Zenon DEF ChainInv, PlacesMatchPoints
  <2>2. batch \in Dirty /\ IsSpan(batch, durable + 1)
    BY Zenon, <2>1 DEF ChainInv, ChainTypes, OptionalDirty, SpansChain, Held
  <2> QED BY Zenon, <2>1, <2>2 DEF IsSpan, Continues, Dirty
<1> QED BY <1>1, RuntimeChain, PTL

(* flush and shutdown of runtime.rs answer Ok only when every write sent   *)
(* before them has its answer, and what those writes applied is on disk and*)
(* stays there through every later failure and crash.                      *)
THEOREM FlushCoversWrites == Spec => []FlushCoversEarlierWrites
<1>1. RuntimeInv => FlushCoversEarlierWrites
  BY Zenon DEF RuntimeInv, CallsInv, AnswersHold, FlushCoversEarlierWrites
<1> QED BY <1>1, RuntimeIsSafe, PTL

(* Writes take their positions in the order they entered the channel: the  *)
(* drain loops, a reservation put back and a failed batch reorder nothing. *)
THEOREM WritesKeepOrder == Spec => []WritesInOrder
<1>1. RuntimeInv => WritesInOrder
  BY Zenon DEF RuntimeInv, CallsInv
<1> QED BY <1>1, RuntimeIsSafe, PTL

(* After a shutdown that returned Ok no applied write is missing on disk   *)
(* and no flush is left without an answer.                                 *)
THEOREM ShutdownLeavesNothing == Spec => []ShutdownIsComplete
<1>1. RuntimeInv => ShutdownIsComplete
  <2> SUFFICES ASSUME RuntimeInv, cpc = "closed", control[Closer] = "ok"
               PROVE  /\ \A w \in 1..sent : reply[w] # "none" /\ position[w] \in diskRows \cup {0}
                      /\ \A c \in Callers : control[c] # "queued"
    BY Zenon DEF ShutdownIsComplete
  <2> USE DEF RuntimeInv, CallsInv
  <2>1. /\ wpc = "done" /\ queue = <<>> /\ wpending = <<>> /\ prepared = <<>> /\ deferred = None
        /\ Waiting = {}
    BY Zenon DEF EndsInOrder
  <2>2. InChannel = {} /\ InFlight = {}
    BY <2>1 DEF InChannel, InFlight, Reserved, InDeque
  <2>3. 1..sent \subseteq Writes
    BY BoundsAssumption DEF TypeOK, ClientsOK, Writes
  <2>4. ASSUME NEW w \in 1..sent PROVE reply[w] # "none" /\ position[w] \in diskRows \cup {0}
    BY <2>2, <2>3 DEF WritesInLine, AnswersHold
  <2>5. ASSUME NEW c \in Callers PROVE control[c] # "queued"
    <3>1. c \in Control /\ c # None
      BY Zenon, PlaceTypes DEF Control
    <3> QED BY <2>1, <2>2, <3>1 DEF CallsInPlace
  <2> QED BY Zenon, <2>4, <2>5
<1> QED BY <1>1, RuntimeIsSafe, PTL

(* The highest of a bounded set of positions is one of them and bounds them*)
(* all; of no positions it is 0.                                           *)
LEMMA HighestIsLast ==
  ASSUME NEW n \in Nat, NEW S \in SUBSET (0..n)
  PROVE  Highest(S) \in 0..n /\ (\A m \in S : m <= Highest(S)) /\ (S # {} => Highest(S) \in S)
<1>1. CASE S = {}
  BY <1>1 DEF Highest
<1>2. CASE S # {}
  <2> DEFINE T == {n - m : m \in S}
  <2>1. T \in SUBSET Nat /\ T # {}
    <3>1. \A m \in S : n - m \in Nat
      OBVIOUS
    <3>2. PICK m \in S : TRUE
      BY Zenon, <1>2
    <3>3. n - m \in T
      BY Zenon, <3>2
    <3> QED BY Zenon, <3>1, <3>3
  <2>2. PICK x \in T : \A y \in T : ~(<<y, x>> \in OpToRel(<, Nat))
    <3> HIDE DEF T
    <3> QED BY Zenon, <2>1, WFMin, NatLessThanWellFounded
  <2>3. PICK k \in S : x = n - k
    BY Zenon
  <2>4. ASSUME NEW m \in S PROVE m <= k
    <3>1. n - m \in T /\ n - m \in Nat /\ x \in Nat /\ m \in Nat /\ k \in Nat
      BY <2>1
    <3>2. ~(n - m < x)
      BY Zenon, <2>2, <3>1 DEF OpToRel
    <3> QED BY <2>3, <3>1, <3>2
  <2>5. LastOf(S) \in S /\ \A m \in S : m <= LastOf(S)
    BY Zenon, <2>4 DEF LastOf
  <2> QED BY Zenon, <1>2, <2>5 DEF Highest
<1> QED BY Zenon, <1>1, <1>2

(* What is promised is on disk, and what is on disk is recorded.           *)
LogBounded ==
  /\ recorded \in Nat /\ diskBookmark \in Nat /\ published \in Nat
  /\ diskBookmark <= published /\ published <= recorded
  /\ promisedPosition \in 0..diskBookmark
  /\ {position[w] : w \in promised} \subseteq 1..diskBookmark

(* The invariant of the runtime orders the three positions of the log.     *)
LEMMA LogBounds == RuntimeInv => LogBounded
<1> SUFFICES ASSUME RuntimeInv PROVE LogBounded
  BY Zenon
<1>1. recorded \in Nat /\ diskBookmark \in Nat /\ published \in Nat /\ published <= recorded
  BY Zenon DEF RuntimeInv, ChainInv, ChainTypes, SpansChain
<1>2. diskBookmark <= published
  <2>1. HeldLast \in Nat /\ diskBookmark <= HeldLast
    BY HeldLastType DEF RuntimeInv, ChainInv, SpansChain
  <2>2. HeldLast <= published
    <3>1. CASE pending # None
      <4>1. pending \in Dirty
        BY Zenon, <3>1 DEF RuntimeInv, ChainInv, ChainTypes, OptionalDirty
      <4> QED BY <1>1, <2>1, <3>1, <4>1 DEF RuntimeInv, ChainInv, SpansChain, IsSpan, Dirty
    <3>2. CASE root \notin {None, DefaultDirty}
      <4>1. root \in Dirty
        BY Zenon, <3>2 DEF RuntimeInv, ChainInv, ChainTypes, OptionalDirty
      <4> QED BY <1>1, <2>1, <3>2, <4>1 DEF RuntimeInv, ChainInv, SpansChain, IsSpan, Dirty
    <3>3. CASE pending = None /\ root \in {None, DefaultDirty}
      BY <1>1, <2>1, <3>3 DEF RuntimeInv, ChainInv, SpansChain
    <3> QED BY <3>1, <3>2, <3>3
  <2> QED BY <1>1, <2>1, <2>2
<1>3. {position[w] : w \in promised} \subseteq 1..diskBookmark
  BY Zenon DEF RuntimeInv, ChainInv, DurablePrefix, CallsInv, AnswersHold
<1>4. promisedPosition \in 0..diskBookmark
  <2>1. {position[w] : w \in promised} \in SUBSET (0..diskBookmark)
    BY <1>1, <1>3
  <2> QED BY Zenon, <1>1, <2>1, HighestIsLast DEF promisedPosition
<1> QED BY <1>1, <1>2, <1>3, <1>4 DEF LogBounded

(* The same after a step.                                                  *)
LEMMA LogBoundsNext == RuntimeInv' => LogBounded'
BY LogBounds, PTL

(* Answers only raise the promised position, up to the disk.               *)
LEMMA LogAnswers ==
  ASSUME RuntimeInv, RuntimeInv', UNCHANGED <<position, diskBookmark, recorded>>, promised \subseteq promised'
  PROVE  Log!Next \/ UNCHANGED Log!vars
<1> DEFINE S == {position[w] : w \in promised}
<1>1. S \subseteq {position'[w] : w \in promised'}
  BY Zenon
<1>2. /\ diskBookmark \in Nat /\ promisedPosition \in 0..diskBookmark /\ S \in SUBSET (0..diskBookmark)
  BY LogBounds DEF LogBounded
<1>3. promisedPosition' \in 0..diskBookmark /\ {position'[w] : w \in promised'} \in SUBSET (0..diskBookmark)
  <2>1. /\ promisedPosition' \in 0..diskBookmark'
        /\ {position'[w] : w \in promised'} \subseteq 1..diskBookmark'
    BY Zenon, LogBoundsNext DEF LogBounded
  <2> QED BY <1>2, <2>1
<1>4. promisedPosition <= promisedPosition'
  <2>1. CASE S = {}
    <3>1. promisedPosition = 0
      BY Zenon, <2>1 DEF promisedPosition, Highest
    <3> QED BY <1>2, <1>3, <3>1
  <2>2. CASE S # {}
    <3>1. promisedPosition \in S
      BY Zenon, <1>2, <2>2, HighestIsLast DEF promisedPosition
    <3> DEFINE U == {position'[w] : w \in promised'}
    <3>2. promisedPosition' = Highest(U)
      BY Zenon DEF promisedPosition, Highest, LastOf
    <3> HIDE DEF S, U
    <3> QED BY Zenon, <1>1, <1>2, <1>3, <3>1, <3>2, HighestIsLast DEF U
  <2> QED BY Zenon, <2>1, <2>2
<1>5. promisedPosition' = promisedPosition \/ promisedPosition' \in (promisedPosition + 1)..diskBookmark
  BY <1>2, <1>3, <1>4
<1> QED BY Zenon, <1>5 DEF Log!Next, Log!Promise, Log!vars

(* A step that moves none of the promised writes keeps the promised        *)
(* position.                                                               *)
LEMMA PromisedKept ==
  ASSUME UNCHANGED promised, \A w \in promised : position'[w] = position[w]
  PROVE  promisedPosition' = promisedPosition
<1> DEFINE S == {position[w] : w \in promised}
           U == {position'[w] : w \in promised'}
<1>1. U = S
  BY Zenon
<1>2. promisedPosition' = Highest(U)
  BY Zenon DEF promisedPosition, Highest, LastOf
<1>3. promisedPosition = Highest(S)
  BY Zenon DEF promisedPosition
<1> HIDE DEF S, U
<1> QED BY Zenon, <1>1, <1>2, <1>3

(* Every step that neither applies, commits, publishes nor loses records   *)
(* is, to the log, an answer or nothing.                                   *)
LEMMA LogQuiet ==
  ASSUME RuntimeInv, RuntimeInv', [Next]_vars,
         ~ApplyCommitted, ~PersistOk, ~PersistErrorAfterCommit, ~WriterPanics, ~Crash, ~PublishRestore
  PROVE  Log!Next \/ UNCHANGED Log!vars
<1> USE DEF clientVars, writerVars, mailVars, workerVars, diskVars
<1>1. CASE SendWrite \/ (\E c \in Callers : SendFlush(c)) \/ TimerStep \/ BeginClose \/ CloserStep \/ Stopped
           \/ UNCHANGED vars
  <2>1. UNCHANGED <<position, promised, diskBookmark, batches, published>>
    BY Zenon, <1>1 DEF SendWrite, SendFlush, TimerStep, WindowEnds, TimedWaitReturns, BeginClose, CloserStep, CloseSend,
                CloseSendFails, Abandon, CloseAnswered, JoinWriter, JoinWorker, Barrier, CloserOnly, Stopped, vars
  <2>2. recorded' = recorded
    BY Zenon, <2>1 DEF recorded
  <2> QED BY Zenon, <2>1, <2>2, LogAnswers
<1>2. CASE WriterStep
  <2>1. UNCHANGED <<position, diskBookmark, batches, published>> /\ promised \subseteq promised'
    <3>1. CASE ReceiveFlush \/ ReceiveShutdown \/ ReceiveDisconnected \/ EnterFailed
      BY Zenon, <3>1 DEF ReceiveFlush, ReceiveShutdown, ReceiveDisconnected, EnterFailed, ExitWriter, Barrier,
                  AnswerControl
    <3>2. CASE ReceiveWrite \/ Pull \/ EnterBatch \/ ExpireFirst \/ PrepareRefused \/ PrepareReserved
               \/ PulledEnough \/ PrepareFull \/ PrepareEmpty
      BY Zenon, <3>2 DEF ReceiveWrite, Pull, EnterBatch, ExpireFirst, PrepareRefused, PrepareReserved, PulledEnough,
                  PrepareFull, PrepareEmpty, WriterOnly, NoAnswer
    <3>3. CASE ApplyFailed \/ ApplyOmittedSpan \/ ApplyRefused \/ PublishNothing \/ PublishTake
      BY Zenon, <3>3 DEF ApplyFailed, ApplyOmittedSpan, ApplyRefused, PublishNothing, PublishTake, WriterOnly, NoAnswer
    <3> QED BY Zenon, <1>2, <3>1, <3>2, <3>3 DEF WriterStep
  <2>2. recorded' = recorded
    BY Zenon, <2>1 DEF recorded
  <2> QED BY Zenon, <2>1, <2>2, LogAnswers
<1>3. CASE WorkerStep
  <2>1. UNCHANGED <<position, diskBookmark, batches, published>> /\ promised \subseteq promised'
    <3>1. CASE WorkerExit \/ WorkerTake \/ WorkerWaitWindow \/ WorkerPark \/ PersistError \/ WorkerPersisted
      BY Zenon, <3>1 DEF WorkerExit, WorkerTake, WorkerWaitWindow, WorkerPark, PersistError, PersistOutcome,
                  WorkerPersisted, WorkerOnly
    <3>2. CASE WorkerSettle \/ WorkerFailed
      BY Zenon, <3>2 DEF WorkerSettle, WorkerFailed, WorkerOnly, AnswerControl
    <3> QED BY Zenon, <1>3, <3>1, <3>2 DEF WorkerStep
  <2>2. recorded' = recorded
    BY Zenon, <2>1 DEF recorded
  <2> QED BY Zenon, <2>1, <2>2, LogAnswers
<1> QED BY Zenon, <1>1, <1>2, <1>3 DEF Next

(* Applying a write is Apply, a commit is Persist, a panic or a crash is   *)
(* Lose down to what is published or on disk; publishing is nothing.       *)
LEMMA LogMoves ==
  ASSUME RuntimeInv, RuntimeInv',
         \/ ApplyCommitted \/ PersistOk \/ PersistErrorAfterCommit \/ WriterPanics \/ Crash \/ PublishRestore
  PROVE  Log!Next \/ UNCHANGED Log!vars
<1> USE DEF clientVars, writerVars, mailVars, workerVars, diskVars
<1>1. /\ recorded \in Nat /\ diskBookmark \in Nat /\ published \in Nat
      /\ diskBookmark <= published /\ published <= recorded
      /\ recorded' \in Nat /\ diskBookmark' \in Nat /\ published' \in Nat
      /\ diskBookmark' <= published' /\ published' <= recorded'
  BY Zenon, LogBounds, LogBoundsNext DEF LogBounded
<1>2. \A w \in promised : w \in Writes /\ position[w] \in diskRows /\ position[w] # 0
  <2>1. \A w \in promised : w \in Writes /\ position[w] \in diskRows
    BY Zenon DEF RuntimeInv, CallsInv, AnswersHold, TypeOK, ClientsOK
  <2>2. diskRows = 1..diskBookmark
    BY Zenon DEF RuntimeInv, ChainInv, DurablePrefix
  <2> QED BY <1>1, <2>1, <2>2
<1>3. CASE ApplyCommitted
  <2> DEFINE w0 == Head(prepared).write
  <2>1. /\ UNCHANGED <<promised, diskBookmark, published>> /\ wpc = "apply" /\ ~failure /\ prepared # <<>>
        /\ position' = [position EXCEPT ![w0] = Head(prepared).index] /\ applied' = Head(prepared).index
        /\ wpc' = "apply" /\ ~failure' /\ prepared' = Tail(prepared)
    BY Zenon, <1>3 DEF ApplyCommitted, WriterOnly
  <2>2. Head(prepared) = prepared[1] /\ 1 \in DOMAIN prepared /\ w0 \in Reserved
    BY Zenon, <2>1, BatchPop
  <2>3. applied = recorded /\ applied' = recorded' /\ Head(prepared).index = applied + 1
    BY <2>1, <2>2 DEF RuntimeInv, ChainInv, SpansChain, PlacesMatchPoints
  <2>4. position[w0] = 0
    <3>1. w0 \in InFlight /\ w0 \in Writes /\ w0 \in Nat
      BY Zenon, <2>2, PlaceTypes DEF InFlight
    <3> HIDE DEF w0
    <3>2. position[w0] # 0 => w0 < w0
      BY Zenon, <3>1 DEF RuntimeInv, CallsInv, WritesInLine
    <3> QED BY <3>1, <3>2
  <2>5. \A w \in promised : position'[w] = position[w]
    BY <1>2, <2>1, <2>4 DEF RuntimeInv, TypeOK, ClientsOK
  <2>6. promisedPosition' = promisedPosition
    BY Zenon, <2>1, <2>5, PromisedKept
  <2> QED BY Zenon, <2>1, <2>3, <2>6 DEF Log!Next, Log!Apply
<1>4. CASE PersistOk \/ PersistErrorAfterCommit
  <2>1. UNCHANGED <<position, promised, batches, published>> /\ Commit
    BY Zenon, <1>4 DEF PersistOk, PersistErrorAfterCommit, PersistOutcome, WorkerOnly
  <2>2. recorded' = recorded /\ promisedPosition' = promisedPosition
    BY Zenon, <2>1, PromisedKept DEF recorded
  <2>3. diskBookmark' >= diskBookmark + 1
    BY Zenon, <1>1, <2>1 DEF Commit, Continues
  <2> QED BY <1>1, <2>1, <2>2, <2>3 DEF Log!Next, Log!Persist
<1>5. CASE WriterPanics
  <2>1. UNCHANGED <<position, promised, diskBookmark, published>> /\ batches' = {}
    BY Zenon, <1>5 DEF WriterPanics, WriterOnly, AnswerControl, Covered
  <2>2. recorded' = published /\ promisedPosition' = promisedPosition
    BY Zenon, <2>1, PromisedKept DEF recorded
  <2> QED BY <1>1, <2>1, <2>2 DEF Log!Next, Log!Lose
<1>6. CASE Crash
  <2>1. /\ UNCHANGED <<promised, diskBookmark>> /\ batches' = {} /\ published' = diskBookmark
        /\ position' = [w \in Writes |-> IF position[w] \in diskRows THEN position[w] ELSE 0]
    BY Zenon, <1>6 DEF Crash, RestartRuntime
  <2>2. \A w \in promised : position'[w] = position[w]
    BY Zenon, <1>2, <2>1
  <2>3. recorded' = diskBookmark /\ promisedPosition' = promisedPosition
    BY Zenon, <2>1, <2>2, PromisedKept DEF recorded
  <2> QED BY <1>1, <2>1, <2>3 DEF Log!Next, Log!Lose
<1>7. CASE PublishRestore
  <2>1. UNCHANGED <<position, promised, diskBookmark>> /\ batches' = {} /\ published' = LastOf(batches)
        /\ wpc = "merge"
    BY Zenon, <1>7 DEF PublishRestore
  <2>2. batches # {}
    BY Zenon, <2>1 DEF RuntimeInv, ChainInv, PlacesMatchPoints
  <2>3. recorded' = recorded /\ promisedPosition' = promisedPosition
    BY Zenon, <2>1, <2>2, PromisedKept DEF recorded
  <2> QED BY Zenon, <2>1, <2>3 DEF Log!vars
<1> QED BY Zenon, <1>3, <1>4, <1>5, <1>6, <1>7

(* The write path implements the durable log: whatever the threads, the    *)
(* disk, the closer and crashes do, records enter one position at a time,  *)
(* the disk only gains whole prefixes, Ok is promised only for what it     *)
(* holds, and nothing on disk is ever taken back.                          *)
THEOREM RuntimeImplementsLog == Spec => ImplementsDurableLog
<1>1. Init => Log!Init
  <2> SUFFICES ASSUME Init PROVE recorded = 0 /\ diskBookmark = 0 /\ promisedPosition = 0
    BY Zenon DEF Log!Init
  <2>1. {position[w] : w \in promised} = {}
    BY Zenon DEF Init
  <2> QED BY Zenon, <2>1 DEF Init, StartRuntime, recorded, promisedPosition, Highest
<1>2. RuntimeInv /\ RuntimeInv' /\ [Next]_vars => [Log!Next]_(Log!vars)
  BY Zenon, LogQuiet, LogMoves
<1> QED BY <1>1, <1>2, RuntimeIsSafe, PTL DEF Spec, ImplementsDurableLog, Log!Spec

=============================================================================
