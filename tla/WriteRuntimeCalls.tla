------------------------- MODULE WriteRuntimeCalls --------------------------
(***************************************************************************)
(* The calls on their way to the disk: sending, pulling, reserving and     *)
(* applying keep every write in line and every flush behind the writes     *)
(* before it; taking, answering and dropping a flush or a shutdown keep    *)
(* what the answers promise.                                               *)
(***************************************************************************)
EXTENDS WriteRuntime, TLAPS

(* What push_back does to a sequence, element by element.                  *)
LEMMA PushBack ==
  ASSUME NEW S, NEW s \in Seq(S), NEW e
  PROVE  /\ e \in S => Append(s, e) \in Seq(S)
         /\ DOMAIN Append(s, e) = 1..(Len(s) + 1)
         /\ DOMAIN s = 1..Len(s) /\ Len(s) \in Nat
         /\ \A i \in 1..Len(s) : Append(s, e)[i] = s[i]
         /\ Append(s, e)[Len(s) + 1] = e
OBVIOUS

(* The order of the indices.                                               *)
LEMMA Order ==
  /\ \A a, b, c \in Nat : a <= b /\ b <= c => a <= c
  /\ \A a \in Nat : a <= a /\ 0 <= a
OBVIOUS

(* The same of the strict order.                                           *)
LEMMA StrictOrder ==
  /\ \A a, b, c \in Nat : (a < b \/ a <= b) /\ b < c => a < c
  /\ \A a \in Nat : ~(a < a)
OBVIOUS

(* What pop_front does to a sequence, element by element.                  *)
LEMMA PopFront ==
  ASSUME NEW S, NEW s \in Seq(S), s # <<>>
  PROVE  /\ Tail(s) \in Seq(S) /\ Head(s) = s[1] /\ s[1] \in S
         /\ Len(s) \in Nat /\ Len(s) >= 1 /\ DOMAIN s = 1..Len(s)
         /\ DOMAIN Tail(s) = 1..(Len(s) - 1)
         /\ \A i \in 1..(Len(s) - 1) : Tail(s)[i] = s[i + 1]
OBVIOUS

(* The elements of a sequence before and after pop_front.                  *)
LEMMA TailRange ==
  ASSUME NEW S, NEW s \in Seq(S), s # <<>>
  PROVE  {s[i] : i \in DOMAIN s} = {Head(s)} \cup {Tail(s)[i] : i \in DOMAIN Tail(s)}
<1>1. /\ Head(s) = s[1] /\ Len(s) \in Nat /\ Len(s) >= 1 /\ DOMAIN s = 1..Len(s)
      /\ DOMAIN Tail(s) = 1..(Len(s) - 1)
      /\ \A i \in 1..(Len(s) - 1) : Tail(s)[i] = s[i + 1]
  BY Zenon, PopFront
<1>2. ASSUME NEW i \in DOMAIN s, i # 1
      PROVE  s[i] \in {Tail(s)[j] : j \in DOMAIN Tail(s)}
  <2>1. i - 1 \in DOMAIN Tail(s) /\ Tail(s)[i - 1] = s[i]
    BY <1>1, <1>2
  <2> QED BY Zenon, <2>1
<1>3. \A j \in DOMAIN Tail(s) : Tail(s)[j] \in {s[i] : i \in DOMAIN s}
  BY <1>1
<1> QED BY <1>1, <1>2, <1>3

(* A step that leaves every call where it is.                              *)
LEMMA CallsFrame ==
  ASSUME RuntimeInv,
         UNCHANGED <<clientVars, queue, wpending, deferred, prepared, waiters, settling,
                     closing, durable, applied, recorded>>,
         published' \in Nat, published <= published', diskRows \subseteq diskRows',
         wpc' = "done" <=> wpc = "done",
         ppc' = "done" => closing /\ Waiting = {},
         ppc = "done" => ppc' = "done", settling # {} => ppc' = "settle",
         cpc' = cpc \/ /\ cpc' \in {"open", "send", "dropSend"} => cpc \in {"open", "send", "dropSend"}
                       /\ cpc' \in {"joinWorker", "closed"} => cpc = "joinWorker" /\ ppc = "done"
  PROVE  CallsInv'
<1> USE DEF RuntimeInv, CallsInv, clientVars
<1>1. UNCHANGED <<Reserved, InDeque, InChannel, InFlight, Waiting>>
  BY Zenon DEF Reserved, InDeque, InChannel, InFlight, Waiting
<1>2. WritesInLine' /\ WritesInOrder'
  BY Zenon, <1>1 DEF WritesInLine, WritesInOrder
<1>3. PositionsBounded'
  BY Zenon DEF PositionsBounded
<1>4. CallsInPlace'
  BY Zenon, <1>1 DEF CallsInPlace
<1>5. EndsInOrder'
  BY Zenon, <1>1 DEF EndsInOrder
<1>6. MarksHold'
  <2>1. \A x \in Waiting : x[1] \in Nat
    BY Zenon DEF Waiting, TypeOK, MailboxOK, WorkerOK
  <2> QED BY <1>1, <2>1 DEF MarksHold, TypeOK, MailboxOK
<1>7. AnswersHold'
  BY Zenon, <1>1 DEF AnswersHold
<1> QED BY Zenon, <1>2, <1>3, <1>4, <1>5, <1>6, <1>7

(* The steps that leave every call where it is: waits, publication, the    *)
(* disk, and what the closer does outside the channel.                     *)
LEMMA CallsUntouched ==
  ASSUME RuntimeInv,
         \/ EnterBatch \/ PulledEnough \/ PrepareFull \/ PrepareEmpty \/ PublishNothing
         \/ WindowEnds \/ TimedWaitReturns \/ BeginClose \/ Abandon \/ CloseAnswered \/ JoinWorker
         \/ WorkerTake \/ WorkerWaitWindow \/ WorkerPark \/ PersistError \/ Stopped
  PROVE  CallsInv'
<1> USE DEF RuntimeInv, CallsInv, clientVars, writerVars, mailVars, workerVars, diskVars, WriterOnly, NoAnswer, WorkerOnly, CloserOnly
<1>0. published \in Nat /\ published <= published
  BY DEF TypeOK, MailboxOK
<1>1. CASE EnterBatch \/ PulledEnough \/ PrepareFull \/ PrepareEmpty \/ PublishNothing
  <2>1. /\ wpc # "done" /\ wpc' # "done"
        /\ UNCHANGED <<clientVars, queue, wpending, deferred, prepared, waiters, settling,
                       closing, durable, applied, published, batches, diskRows, ppc, cpc>>
    BY Zenon, <1>1 DEF EnterBatch, PulledEnough, PrepareFull, PrepareEmpty, PublishNothing, LoopHead
  <2>2. recorded' = recorded
    BY Zenon, <2>1 DEF recorded
  <2> QED BY Zenon, <1>0, <2>1, <2>2, CallsFrame DEF EndsInOrder, CallsInPlace
<1>2. CASE WindowEnds \/ TimedWaitReturns
  <2>1. /\ UNCHANGED <<clientVars, queue, wpending, deferred, prepared, waiters, settling, wpc,
                       closing, durable, applied, published, batches, diskRows, cpc>>
        /\ ppc' = ppc \/ (ppc = "timed" /\ ppc' = "check")
    BY Zenon, <1>2 DEF WindowEnds, TimedWaitReturns
  <2>2. recorded' = recorded
    BY Zenon, <2>1 DEF recorded
  <2> QED BY Zenon, <1>0, <2>1, <2>2, CallsFrame DEF EndsInOrder, CallsInPlace
<1>3. CASE BeginClose \/ Abandon \/ CloseAnswered \/ JoinWorker
  <2>1. /\ UNCHANGED <<clientVars, queue, wpending, deferred, prepared, waiters, settling, wpc,
                       closing, durable, applied, published, batches, diskRows, ppc>>
        /\ cpc' \in {"open", "send", "dropSend"} => cpc \in {"open", "send", "dropSend"}
        /\ cpc' \in {"joinWorker", "closed"} => cpc = "joinWorker" /\ ppc = "done"
    BY Zenon, <1>3 DEF BeginClose, Abandon, CloseAnswered, JoinWorker
  <2>2. recorded' = recorded
    BY Zenon, <2>1 DEF recorded
  <2> QED BY Zenon, <1>0, <2>1, <2>2, CallsFrame DEF EndsInOrder, CallsInPlace
<1>4. CASE WorkerTake \/ WorkerWaitWindow \/ WorkerPark \/ PersistError
  <2>1. /\ UNCHANGED <<clientVars, queue, wpending, deferred, prepared, waiters, settling, wpc,
                       closing, durable, applied, published, batches, diskRows, cpc>>
        /\ ppc \in {"check", "persist"} /\ ppc' # "done"
    BY Zenon, <1>4 DEF WorkerTake, WorkerWaitWindow, WorkerPark, PersistError, PersistOutcome
  <2>2. recorded' = recorded
    BY Zenon, <2>1 DEF recorded
  <2> QED BY Zenon, <1>0, <2>1, <2>2, CallsFrame DEF EndsInOrder, CallsInPlace
<1>5. CASE Stopped
  <2>1. /\ UNCHANGED <<clientVars, queue, wpending, deferred, prepared, waiters, settling, wpc,
                       closing, durable, applied, published, batches, diskRows, cpc, ppc>>
    BY Zenon, <1>5 DEF Stopped, vars
  <2>2. recorded' = recorded
    BY Zenon, <2>1 DEF recorded
  <2> QED BY Zenon, <1>0, <2>1, <2>2, CallsFrame DEF EndsInOrder, CallsInPlace
<1> QED BY Zenon, <1>1, <1>2, <1>3, <1>4, <1>5

(* Publishing moves records, not calls.                                    *)
LEMMA CallsPublish ==
  ASSUME RuntimeInv, PublishTake \/ PublishRestore
  PROVE  CallsInv'
<1> USE DEF RuntimeInv, CallsInv, workerVars, diskVars
<1>1. /\ UNCHANGED <<clientVars, queue, wpending, deferred, prepared, waiters, settling,
                     closing, durable, applied, diskRows, cpc>>
      /\ wpc # "done" /\ wpc' # "done"
      /\ ppc' = ppc \/ (ppc \in {"wait", "timed"} /\ ppc' = "check")
  BY Zenon DEF PublishTake, PublishRestore, Notify, LoopHead
<1>2. published' \in Nat /\ published <= published' /\ recorded' = recorded
  <2>1. CASE PublishTake
    BY <2>1 DEF PublishTake, recorded, TypeOK, MailboxOK
  <2>2. CASE PublishRestore
    <3>1. batches # {} /\ recorded = LastOf(batches)
      BY Zenon, <2>2 DEF PublishRestore, ChainInv, PlacesMatchPoints, recorded
    <3>2. published' = recorded /\ recorded' = published'
      BY Zenon, <2>2, <3>1 DEF PublishRestore, recorded
    <3> QED BY Zenon, <3>2 DEF ChainInv, ChainTypes, SpansChain
  <2> QED BY Zenon, <2>1, <2>2
<1> QED BY Zenon, <1>1, <1>2, CallsFrame DEF EndsInOrder, CallsInPlace

(* The disk gains rows and loses none.                                     *)
LEMMA CallsCommit ==
  ASSUME RuntimeInv, PersistOk \/ PersistErrorAfterCommit
  PROVE  CallsInv'
<1> USE DEF RuntimeInv, CallsInv, mailVars, writerVars, WorkerOnly, clientVars
<1>1. /\ UNCHANGED <<clientVars, queue, wpending, deferred, prepared, waiters, settling, wpc,
                     closing, durable, applied, published, batches, cpc>>
      /\ ppc = "persist" /\ ppc' \in {"persisted", "failed"} /\ diskRows \subseteq diskRows'
  BY Zenon DEF PersistOk, PersistErrorAfterCommit, PersistOutcome, Commit
<1>2. recorded' = recorded /\ published \in Nat /\ published <= published
  BY <1>1 DEF recorded, TypeOK, MailboxOK
<1> QED BY Zenon, <1>1, <1>2, CallsFrame DEF EndsInOrder, CallsInPlace

(* Types of the places of the calls.                                       *)
LEMMA PlaceTypes ==
  ASSUME RuntimeInv
  PROVE  /\ Reserved \subseteq Writes /\ InDeque \subseteq Writes
         /\ InChannel \subseteq Writes \cup Control /\ InFlight \subseteq Writes
         /\ Writes \cap Control = {} /\ None \notin Control
         /\ Waiting \subseteq Nat \X Control
         /\ \A x \in Waiting : x[1] \in Nat /\ x[2] \in Control
         /\ sent \in Nat /\ \A w \in Writes : w \in Nat /\ w >= 1
         /\ queue \in Seq(Writes \cup Control) /\ wpending \in Seq(Writes)
         /\ prepared \in Seq([write : Writes, index : Nat])
<1>1. /\ queue \in Seq(Writes \cup Control) /\ wpending \in Seq(Writes)
      /\ prepared \in Seq([write : Writes, index : Nat])
  BY Zenon DEF RuntimeInv, TypeOK, ChannelOK
<1>2. Reserved \subseteq Writes
  <2> DEFINE E == [write : Writes, index : Nat]
  <2>1. prepared \in Seq(E)
    BY Zenon, <1>1
  <2> HIDE DEF E
  <2>2. \A i \in DOMAIN prepared : prepared[i] \in E
    BY <2>1
  <2> QED BY Zenon, <2>2 DEF Reserved, E
<1>3. InDeque \subseteq Writes /\ InChannel \subseteq Writes \cup Control
  BY <1>1 DEF InDeque, InChannel
<1>4. Waiting \subseteq Nat \X Control
  BY Zenon DEF RuntimeInv, TypeOK, MailboxOK, WorkerOK, Waiting
<1>5. \A x \in Waiting : x[1] \in Nat /\ x[2] \in Control
  BY Zenon, <1>4
<1>6. sent \in Nat /\ \A w \in Writes : w \in Nat /\ w >= 1
  BY BoundsAssumption DEF RuntimeInv, TypeOK, ClientsOK, Writes
<1> QED BY Zenon, <1>1, <1>2, <1>3, <1>4, <1>5, <1>6, NamesAssumption DEF InFlight

(* Numbers: the indices, and the writes a call must outlast.               *)
LEMMA CallTypes ==
  ASSUME RuntimeInv
  PROVE  /\ published \in Nat /\ durable \in Nat /\ sent \in Nat
         /\ 1..sent \subseteq Writes /\ \A w \in Writes : position[w] \in Nat
         /\ \A c \in Control : /\ mark[c] \in Nat /\ mark[c] <= sent
                              /\ 1..mark[c] \subseteq 1..sent /\ 1..mark[c] \subseteq Writes
<1>1. /\ published \in Nat /\ durable \in Nat
      /\ sent \in 0..MaxWrites /\ position \in [Writes -> Nat] /\ mark \in [Control -> 0..MaxWrites]
  BY Zenon DEF RuntimeInv, TypeOK, MailboxOK, ClientsOK
<1>2. \A c \in Control : mark[c] <= sent
  BY Zenon DEF RuntimeInv, CallsInv, MarksHold
<1> QED BY <1>1, <1>2, BoundsAssumption DEF Writes

(* A message behind the others in the channel.                             *)
LEMMA ChannelPush ==
  ASSUME RuntimeInv, NEW m, queue' = Append(queue, m)
  PROVE  /\ InChannel' = InChannel \cup {m}
         /\ DOMAIN queue = 1..Len(queue) /\ Len(queue) \in Nat /\ DOMAIN queue' = 1..(Len(queue) + 1)
         /\ \A i \in DOMAIN queue : queue'[i] = queue[i]
         /\ queue'[Len(queue) + 1] = m
<1> DEFINE M == Writes \cup Control
<1>1. queue \in Seq(M)
  BY Zenon, PlaceTypes
<1> HIDE DEF M
<1>2. /\ DOMAIN queue = 1..Len(queue) /\ Len(queue) \in Nat /\ DOMAIN queue' = 1..(Len(queue) + 1)
      /\ \A i \in 1..Len(queue) : queue'[i] = queue[i]
      /\ queue'[Len(queue) + 1] = m
  BY <1>1, PushBack
<1> QED BY <1>2 DEF InChannel

(* A send of a write puts it behind everything sent before.                *)
LEMMA CallsSendWrite ==
  ASSUME RuntimeInv, SendWrite
  PROVE  CallsInv'
<1> DEFINE w0 == sent + 1
<1> USE DEF RuntimeInv, CallsInv
<1>1. /\ wpc # "done" /\ sent' = w0 /\ queue' = Append(queue, w0)
      /\ UNCHANGED <<reply, position, control, mark, promised, wpc, wpending, deferred, prepared,
                     batches, applied, published, durable, waiters, closing, ppc, settling, diskRows, cpc>>
  BY Zenon DEF SendWrite, CanSend, writerVars, mailVars, workerVars, diskVars
<1>2. w0 \in Writes /\ w0 \notin 1..sent /\ w0 > sent /\ 1..sent' = 1..sent \cup {w0} /\ sent' \in Nat
  <2>1. sent \in Nat /\ sent < MaxWrites /\ MaxWrites \in Nat
    BY BoundsAssumption DEF SendWrite, TypeOK, ClientsOK
  <2> QED BY <1>1, <2>1 DEF Writes
<1>3. /\ InChannel' = InChannel \cup {w0} /\ UNCHANGED <<Reserved, InDeque, Waiting>>
      /\ InFlight' = InFlight \cup {w0}
  <2>1. InChannel' = InChannel \cup {w0}
    BY Zenon, <1>1, ChannelPush
  <2>2. UNCHANGED <<Reserved, InDeque, Waiting>>
    BY Zenon, <1>1 DEF Reserved, InDeque, Waiting
  <2> QED BY Zenon, <1>2, <2>1, <2>2 DEF InFlight, Writes
<1>4. /\ DOMAIN queue = 1..Len(queue) /\ Len(queue) \in Nat /\ DOMAIN queue' = 1..(Len(queue) + 1)
      /\ \A i \in DOMAIN queue : queue'[i] = queue[i]
      /\ queue'[Len(queue) + 1] = w0
  BY Zenon, <1>1, ChannelPush
<1>5. \A v \in InFlight : v <= sent /\ v \in Nat /\ v < w0
  BY PlaceTypes DEF WritesInLine
<1>6. \A i \in DOMAIN queue : queue[i] \in InChannel /\ (queue[i] \in Writes => queue[i] \in InFlight)
  BY Zenon DEF InChannel, InFlight
<1>7. WritesInLine' /\ WritesInOrder'
  <2>1. \A i, j \in DOMAIN queue' :
          i < j /\ queue'[i] \in Writes /\ queue'[j] \in Writes => queue'[i] < queue'[j]
    BY <1>4, <1>5, <1>6 DEF WritesInLine
  <2>2. \A v \in Reserved \cup InDeque, w \in InChannel' \cap Writes : v < w
    BY <1>3, <1>5 DEF WritesInLine, InFlight
  <2>3. InFlight' = {w \in 1..sent' : reply'[w] = "none"}
    BY Zenon, <1>1, <1>2, <1>3 DEF WritesInLine
  <2>4. \A v \in Writes : position[v] # 0 => v < w0
    BY <1>2, PlaceTypes DEF WritesInLine
  <2>5. \A w \in Writes : w > sent' => w > sent
    BY <1>1, PlaceTypes
  <2> HIDE DEF w0
  <2> QED BY <1>1, <1>3, <2>1, <2>2, <2>3, <2>4, <2>5 DEF WritesInLine, WritesInOrder
<1>8. PositionsBounded'
  BY Zenon, <1>1 DEF PositionsBounded, recorded
<1>9. w0 \notin Control /\ w0 \notin InChannel /\ \A c \in Control : c \in InChannel' <=> c \in InChannel
  BY <1>2, <1>3, <1>5, PlaceTypes DEF InFlight
<1>10. CallsInPlace'
  <2>1. \A i, j \in DOMAIN queue' : queue'[i] = queue'[j] => i = j
    BY <1>4, <1>6, <1>9 DEF CallsInPlace
  <2>2. deferred # None => deferred \in Control
    BY Zenon DEF TypeOK, ChannelOK
  <2> HIDE DEF w0
  <2> QED BY Zenon, <1>1, <1>3, <1>9, <2>1, <2>2, PlaceTypes DEF CallsInPlace
<1>11. EndsInOrder'
  BY Zenon, <1>1, <1>3 DEF EndsInOrder
<1>12. MarksHold'
  <2>1. \A c \in Control : mark[c] <= sent' /\ mark[c] < w0
    BY <1>1, PlaceTypes DEF MarksHold, TypeOK, ClientsOK
  <2>2. \A i, j \in DOMAIN queue' :
          i < j /\ queue'[i] \in Control /\ queue'[j] \in Writes => mark[queue'[i]] < queue'[j]
    BY <1>4, <1>9, <2>1 DEF MarksHold
  <2>3. deferred # None => \A w \in InChannel' \cap Writes : mark[deferred] < w
    BY Zenon, <1>3, <2>1 DEF MarksHold, TypeOK, ChannelOK
  <2> HIDE DEF w0
  <2> QED BY Zenon, <1>1, <1>3, <2>1, <2>2, <2>3 DEF MarksHold
<1>13. AnswersHold'
  BY Zenon, <1>1, <1>3 DEF AnswersHold
<1> QED BY Zenon, <1>7, <1>8, <1>10, <1>11, <1>12, <1>13

(* A send of a flush or shutdown marks what was sent before it.            *)
LEMMA CallsSendControl ==
  ASSUME RuntimeInv, NEW c \in Control, control[c] # "queued", wpc # "done",
         queue' = Append(queue, c), control' = [control EXCEPT ![c] = "queued"],
         mark' = [mark EXCEPT ![c] = sent],
         UNCHANGED <<sent, reply, position, promised, wpc, wpending, deferred, prepared,
                     batches, applied, published, durable, waiters, closing, ppc, settling, diskRows>>,
         cpc' \in {"open", "send", "dropSend"} => cpc' = cpc /\ c # Closer,
         cpc' \notin {"joinWorker", "closed"}
  PROVE  CallsInv'
<1> USE DEF RuntimeInv, CallsInv
<1>1. /\ InChannel' = InChannel \cup {c} /\ UNCHANGED <<Reserved, InDeque, Waiting, InFlight>>
  <2>1. InChannel' = InChannel \cup {c}
    BY Zenon, ChannelPush
  <2>2. UNCHANGED <<Reserved, InDeque, Waiting>>
    BY Zenon DEF Reserved, InDeque, Waiting
  <2> QED BY Zenon, <2>1, <2>2, PlaceTypes DEF InFlight, Writes
<1>2. /\ DOMAIN queue = 1..Len(queue) /\ Len(queue) \in Nat /\ DOMAIN queue' = 1..(Len(queue) + 1)
      /\ \A i \in DOMAIN queue : queue'[i] = queue[i] /\ queue[i] \in InChannel
      /\ queue'[Len(queue) + 1] = c
  BY Zenon, ChannelPush DEF InChannel
<1>3. /\ c \notin InChannel /\ c # deferred /\ (\A x \in Waiting : x[2] # c) /\ c \notin Writes
      /\ InChannel' \cap Writes = InChannel \cap Writes
  BY <1>1, PlaceTypes DEF CallsInPlace
<1>4. WritesInLine' /\ WritesInOrder'
  <2>1. \A i, j \in DOMAIN queue' :
          i < j /\ queue'[i] \in Writes /\ queue'[j] \in Writes => queue'[i] < queue'[j]
    BY <1>2, <1>3 DEF WritesInLine
  <2> QED BY Zenon, <1>1, <1>3, <2>1 DEF WritesInLine, WritesInOrder
<1>5. PositionsBounded'
  BY Zenon DEF PositionsBounded, recorded
<1>6. /\ control'[c] = "queued" /\ mark'[c] = sent
      /\ \A d \in Control \ {c} : control'[d] = control[d] /\ mark'[d] = mark[d]
      /\ sent \in Nat /\ sent <= sent
  BY PlaceTypes DEF TypeOK, ClientsOK
<1>7. CallsInPlace'
  <2>1. \A i, j \in DOMAIN queue' : queue'[i] = queue'[j] => i = j
    BY <1>2, <1>3 DEF CallsInPlace
  <2> QED BY <1>1, <1>3, <1>6, <2>1, PlaceTypes DEF CallsInPlace
<1>8. EndsInOrder'
  BY Zenon, <1>1, <1>6 DEF EndsInOrder, Control
<1>9. MarksHold'
  <2>1. \A d \in Control : mark'[d] <= sent
    BY Zenon, <1>6 DEF MarksHold
  <2>2. \A i, j \in DOMAIN queue' :
          i < j /\ queue'[i] \in Control /\ queue'[j] \in Writes => mark'[queue'[i]] < queue'[j]
    BY <1>2, <1>3, <1>6 DEF MarksHold
  <2>3. deferred # None => \A w \in InChannel' \cap Writes : mark'[deferred] < w
    BY Zenon, <1>3, <1>6 DEF MarksHold, TypeOK, ChannelOK
  <2>4. \A x \in Waiting : mark'[x[2]] = mark[x[2]]
    BY Zenon, <1>3, <1>6, PlaceTypes
  <2> QED BY Zenon, <1>1, <2>1, <2>2, <2>3, <2>4 DEF MarksHold
<1>10. AnswersHold'
  BY Zenon, <1>1, <1>6 DEF AnswersHold, Control
<1> QED BY Zenon, <1>4, <1>5, <1>7, <1>8, <1>9, <1>10

(* Callers and the closer put their calls into the channel.                *)
LEMMA CallsSend ==
  ASSUME RuntimeInv, SendWrite \/ (\E c \in Callers : SendFlush(c)) \/ CloseSend
  PROVE  CallsInv'
<1>1. ASSUME NEW c \in Callers, SendFlush(c) PROVE CallsInv'
  <2>1. c \in Control /\ c # Closer
    BY Zenon, NamesAssumption DEF Control
  <2>2. cpc' = cpc /\ cpc \notin {"joinWorker", "closed"}
    BY Zenon, <1>1 DEF SendFlush, CanSend
  <2> QED BY Zenon, <1>1, <2>1, <2>2, CallsSendControl
    DEF SendFlush, CanSend, writerVars, mailVars, workerVars, diskVars
<1>2. CASE CloseSend
  <2>1. Closer \in Control /\ control[Closer] = "idle"
    BY Zenon, <1>2 DEF Control, CloseSend, RuntimeInv, CallsInv, EndsInOrder
  <2>2. cpc' \in {"await", "dropJoin"}
    BY Zenon, <1>2 DEF CloseSend
  <2> QED BY Zenon, <1>2, <2>1, <2>2, CallsSendControl
    DEF CloseSend, CloserOnly, writerVars, mailVars, workerVars, diskVars
<1> QED BY Zenon, <1>1, <1>2, CallsSendWrite

-----------------------------------------------------------------------------
(* The writer moves messages along.                                        *)

(* The first message leaves the channel: what is left keeps its order, and *)
(* comes after it.                                                         *)
LEMMA ChannelPop ==
  ASSUME RuntimeInv, queue # <<>>, queue' = Tail(queue), UNCHANGED mark
  PROVE  /\ Head(queue) \in Writes \cup Control
         /\ InChannel = {Head(queue)} \cup InChannel' /\ Head(queue) \notin InChannel'
         /\ Head(queue) \in Writes => \A w \in InChannel' \cap Writes : Head(queue) < w
         /\ Head(queue) \in Control => \A w \in InChannel' \cap Writes : mark[Head(queue)] < w
         /\ \A i, j \in DOMAIN queue' : /\ queue'[i] = queue'[j] => i = j
                                        /\ i < j /\ queue'[j] \in Writes =>
                                             /\ queue'[i] \in Writes => queue'[i] < queue'[j]
                                             /\ queue'[i] \in Control => mark'[queue'[i]] < queue'[j]
<1> DEFINE M == Writes \cup Control
<1>1. queue \in Seq(M)
  BY Zenon, PlaceTypes
<1> HIDE DEF M
<1>2. /\ Head(queue) = queue[1] /\ queue[1] \in M /\ Len(queue) \in Nat /\ Len(queue) >= 1
      /\ DOMAIN queue = 1..Len(queue) /\ DOMAIN queue' = 1..(Len(queue) - 1)
      /\ \A i \in 1..(Len(queue) - 1) : queue'[i] = queue[i + 1]
  BY Zenon, <1>1, PopFront
<1>3. InChannel = {Head(queue)} \cup InChannel'
  BY <1>1, TailRange DEF InChannel
<1>4. \A i \in DOMAIN queue' : i \in Nat /\ i + 1 \in DOMAIN queue /\ i + 1 > 1 /\ queue'[i] = queue[i + 1]
  BY <1>2
<1>5. \A i, j \in DOMAIN queue :
        /\ queue[i] = queue[j] => i = j
        /\ i < j /\ queue[j] \in Writes => /\ queue[i] \in Writes => queue[i] < queue[j]
                                           /\ queue[i] \in Control => mark[queue[i]] < queue[j]
  BY Zenon DEF RuntimeInv, CallsInv, WritesInLine, CallsInPlace, MarksHold
<1>6. \A i, j \in DOMAIN queue' : /\ queue'[i] = queue'[j] => i = j
                                  /\ i < j /\ queue'[j] \in Writes =>
                                       /\ queue'[i] \in Writes => queue'[i] < queue'[j]
                                       /\ queue'[i] \in Control => mark'[queue'[i]] < queue'[j]
  <2>1. ASSUME NEW i \in DOMAIN queue', NEW j \in DOMAIN queue'
        PROVE  /\ queue'[i] = queue'[j] => i = j
               /\ i < j /\ queue'[j] \in Writes =>
                    /\ queue'[i] \in Writes => queue'[i] < queue'[j]
                    /\ queue'[i] \in Control => mark'[queue'[i]] < queue'[j]
    <3>1. i + 1 = j + 1 => i = j
      BY <1>4
    <3>2. i < j => i + 1 < j + 1
      BY <1>4
    <3> QED BY <1>4, <1>5, <3>1, <3>2
  <2> QED BY Zenon, <2>1
<1>7. \A w \in InChannel' : \E i \in DOMAIN queue : i > 1 /\ w = queue[i]
  BY Zenon, <1>4 DEF InChannel
<1>8. 1 \in DOMAIN queue
  BY <1>2
<1>9. \A w \in InChannel' : w # queue[1]
  BY <1>5, <1>7, <1>8
<1>10. \A w \in InChannel' \cap Writes : /\ queue[1] \in Writes => queue[1] < w
                                         /\ queue[1] \in Control => mark[queue[1]] < w
  BY <1>5, <1>7, <1>8
<1> QED BY <1>2, <1>3, <1>6, <1>9, <1>10 DEF M

(* A write behind the others in the deque.                                 *)
LEMMA DequePush ==
  ASSUME RuntimeInv, NEW w \in Writes, wpending' = Append(wpending, w), \A v \in InDeque : v < w
  PROVE  /\ InDeque' = InDeque \cup {w}
         /\ \A i, j \in DOMAIN wpending' : i < j => wpending'[i] < wpending'[j]
<1>1. wpending \in Seq(Writes)
  BY Zenon, PlaceTypes
<1>2. /\ DOMAIN wpending = 1..Len(wpending) /\ Len(wpending) \in Nat /\ DOMAIN wpending' = 1..(Len(wpending) + 1)
      /\ \A i \in 1..Len(wpending) : wpending'[i] = wpending[i]
      /\ wpending'[Len(wpending) + 1] = w
  BY <1>1, PushBack
<1>3. InDeque' = InDeque \cup {w}
  BY <1>2 DEF InDeque
<1>4. \A i, j \in DOMAIN wpending' : i < j => wpending'[i] < wpending'[j]
  BY <1>2 DEF InDeque, RuntimeInv, CallsInv, WritesInLine
<1> QED BY Zenon, <1>3, <1>4

(* The first write leaves the deque.                                       *)
LEMMA DequePop ==
  ASSUME RuntimeInv, wpending # <<>>, wpending' = Tail(wpending)
  PROVE  /\ Head(wpending) \in Writes /\ InDeque = {Head(wpending)} \cup InDeque'
         /\ \A w \in InDeque' : Head(wpending) < w
         /\ \A i, j \in DOMAIN wpending' : i < j => wpending'[i] < wpending'[j]
<1>1. wpending \in Seq(Writes)
  BY Zenon, PlaceTypes
<1>2. /\ Head(wpending) = wpending[1] /\ wpending[1] \in Writes /\ Len(wpending) \in Nat /\ Len(wpending) >= 1
      /\ DOMAIN wpending = 1..Len(wpending) /\ DOMAIN wpending' = 1..(Len(wpending) - 1)
      /\ \A i \in 1..(Len(wpending) - 1) : wpending'[i] = wpending[i + 1]
  BY Zenon, <1>1, PopFront
<1>3. InDeque = {Head(wpending)} \cup InDeque'
  <2>1. {wpending[i] : i \in DOMAIN wpending}
          = {Head(wpending)} \cup {Tail(wpending)[i] : i \in DOMAIN Tail(wpending)}
    BY Zenon, <1>1, TailRange
  <2> QED BY Zenon, <2>1 DEF InDeque
<1>4. \A i \in DOMAIN wpending' : i \in Nat /\ i + 1 \in DOMAIN wpending /\ i + 1 > 1 /\ wpending'[i] = wpending[i + 1]
  BY <1>2
<1>5. \A i, j \in DOMAIN wpending : i < j => wpending[i] < wpending[j]
  BY Zenon DEF RuntimeInv, CallsInv, WritesInLine
<1>6. \A i, j \in DOMAIN wpending' : i < j => wpending'[i] < wpending'[j]
  BY <1>4, <1>5
<1>7. \A w \in InDeque' : wpending[1] < w
  BY <1>2, <1>4, <1>5 DEF InDeque
<1> QED BY Zenon, <1>2, <1>3, <1>6, <1>7

(* A write moves from the channel to the deque.                            *)
LEMMA CallsToDeque ==
  ASSUME RuntimeInv, queue # <<>>, Head(queue) \in Writes, deferred = None,
         queue' = Tail(queue), wpending' = Append(wpending, Head(queue)),
         wpc # "done", wpc' # "done",
         UNCHANGED <<clientVars, deferred, prepared, batches, applied, published, durable, waiters,
                     closing, ppc, settling, diskRows, cpc>>
  PROVE  CallsInv'
<1> DEFINE w0 == Head(queue)
<1> USE DEF RuntimeInv, CallsInv, clientVars
<1>1. /\ InChannel = {w0} \cup InChannel' /\ w0 \notin InChannel'
      /\ \A w \in InChannel' \cap Writes : w0 < w
      /\ \A i, j \in DOMAIN queue' : /\ queue'[i] = queue'[j] => i = j
                                     /\ i < j /\ queue'[j] \in Writes =>
                                          /\ queue'[i] \in Writes => queue'[i] < queue'[j]
                                          /\ queue'[i] \in Control => mark'[queue'[i]] < queue'[j]
  BY Zenon, ChannelPop
<1>2. w0 \in InChannel \cap Writes /\ \A v \in Reserved \cup InDeque : v < w0
  BY Zenon, <1>1 DEF WritesInLine
<1>3. /\ InDeque' = InDeque \cup {w0}
      /\ \A i, j \in DOMAIN wpending' : i < j => wpending'[i] < wpending'[j]
  BY Zenon, <1>2, DequePush
<1>4. UNCHANGED <<Reserved, Waiting>>
  BY Zenon DEF Reserved, Waiting
<1>5. InFlight' = InFlight
  BY Zenon, <1>1, <1>2, <1>3, <1>4 DEF InFlight, Writes
<1>6. \A c \in Control : c \in InChannel' <=> c \in InChannel
  BY <1>1, <1>2, PlaceTypes
<1> HIDE DEF w0
<1>7. WritesInLine' /\ WritesInOrder'
  BY Zenon, <1>1, <1>2, <1>3, <1>4, <1>5 DEF WritesInLine, WritesInOrder, Writes
<1>8. PositionsBounded'
  BY Zenon DEF PositionsBounded, recorded
<1>9. CallsInPlace'
  BY Zenon, <1>1, <1>4, <1>6, PlaceTypes DEF CallsInPlace
<1>10. EndsInOrder'
  BY Zenon, <1>4 DEF EndsInOrder
<1>11. MarksHold'
  BY Zenon, <1>1, <1>4 DEF MarksHold
<1>12. AnswersHold'
  BY Zenon, <1>4 DEF AnswersHold
<1> QED BY Zenon, <1>7, <1>8, <1>9, <1>10, <1>11, <1>12

(* A control message is set aside until the writes before it are done.     *)
LEMMA CallsDefer ==
  ASSUME RuntimeInv, queue # <<>>, Head(queue) \notin Writes, deferred = None,
         queue' = Tail(queue), deferred' = Head(queue), wpc # "done", wpc' # "done",
         UNCHANGED <<clientVars, wpending, prepared, batches, applied, published, durable, waiters,
                     closing, ppc, settling, diskRows, cpc>>
  PROVE  CallsInv'
<1> DEFINE c == Head(queue)
<1> USE DEF RuntimeInv, CallsInv, clientVars
<1>1. /\ c \in Control /\ InChannel = {c} \cup InChannel' /\ c \notin InChannel'
      /\ \A w \in InChannel' \cap Writes : mark[c] < w
      /\ \A i, j \in DOMAIN queue' : /\ queue'[i] = queue'[j] => i = j
                                     /\ i < j /\ queue'[j] \in Writes =>
                                          /\ queue'[i] \in Writes => queue'[i] < queue'[j]
                                          /\ queue'[i] \in Control => mark'[queue'[i]] < queue'[j]
  BY Zenon, ChannelPop
<1>2. UNCHANGED <<Reserved, InDeque, Waiting>>
  BY Zenon DEF Reserved, InDeque, Waiting
<1>3. InChannel' \cap Writes = InChannel \cap Writes /\ InFlight' = InFlight
  BY <1>1, <1>2 DEF InFlight, Writes
<1> HIDE DEF c
<1>4. WritesInLine' /\ WritesInOrder'
  BY Zenon, <1>1, <1>2, <1>3 DEF WritesInLine, WritesInOrder, Writes
<1>5. PositionsBounded'
  BY Zenon DEF PositionsBounded, recorded
<1>6. deferred' = c
  BY Zenon DEF c
<1>7. CallsInPlace'
  BY Zenon, <1>1, <1>2, <1>6, PlaceTypes DEF CallsInPlace
<1>8. EndsInOrder'
  BY Zenon, <1>2 DEF EndsInOrder
<1>9. MarksHold'
  BY Zenon, <1>1, <1>2, <1>6 DEF MarksHold
<1>10. AnswersHold'
  BY Zenon, <1>2 DEF AnswersHold
<1> QED BY Zenon, <1>4, <1>5, <1>7, <1>8, <1>9, <1>10

(* Receiving and pulling writes, and setting a control message aside.      *)
LEMMA CallsPull ==
  ASSUME RuntimeInv, ReceiveWrite \/ Pull
  PROVE  CallsInv'
<1> USE DEF WriterOnly, NoAnswer, clientVars, mailVars, workerVars, diskVars
<1>1. CASE ReceiveWrite
  <2>1. deferred = None
    BY Zenon, <1>1, NamesAssumption DEF ReceiveWrite, NextMessage, RuntimeInv, TypeOK, ChannelOK
  <2>2. /\ queue # <<>> /\ Head(queue) \in Writes /\ queue' = Tail(queue) /\ deferred' = None
        /\ wpending = <<>> /\ wpending' = <<Head(queue)>> /\ wpc # "done" /\ wpc' # "done"
    BY Zenon, <1>1, <2>1 DEF ReceiveWrite, TakeMessage, NextMessage
  <2>3. wpending' = Append(wpending, Head(queue))
    BY <2>2
  <2> QED BY Zenon, <1>1, <2>1, <2>2, <2>3, CallsToDeque DEF ReceiveWrite
<1>2. CASE Pull
  <2>1. deferred = None /\ queue # <<>> /\ queue' = Tail(queue) /\ wpc # "done" /\ wpc' # "done"
    BY Zenon, <1>2 DEF Pull, CanPull
  <2>2. CASE Head(queue) \in Writes
    BY Zenon, <1>2, <2>1, <2>2, CallsToDeque DEF Pull
  <2>3. CASE Head(queue) \notin Writes
    BY Zenon, <1>2, <2>1, <2>3, CallsDefer DEF Pull
  <2> QED BY Zenon, <2>2, <2>3
<1> QED BY Zenon, <1>1, <1>2

(* A write joins the batch behind the others.                              *)
LEMMA BatchPush ==
  ASSUME RuntimeInv, NEW e \in [write : Writes, index : Nat], prepared' = Append(prepared, e),
         \A v \in Reserved : v < e.write
  PROVE  /\ Reserved' = Reserved \cup {e.write}
         /\ \A i, j \in DOMAIN prepared' : i < j => prepared'[i].write < prepared'[j].write
<1> DEFINE E == [write : Writes, index : Nat]
<1>1. prepared \in Seq(E)
  BY Zenon, PlaceTypes
<1> HIDE DEF E
<1>2. /\ DOMAIN prepared = 1..Len(prepared) /\ Len(prepared) \in Nat /\ DOMAIN prepared' = 1..(Len(prepared) + 1)
      /\ \A i \in 1..Len(prepared) : prepared'[i] = prepared[i]
      /\ prepared'[Len(prepared) + 1] = e
  BY <1>1, PushBack
<1>3. Reserved' = Reserved \cup {e.write}
  BY <1>2 DEF Reserved
<1>4. \A i, j \in DOMAIN prepared' : i < j => prepared'[i].write < prepared'[j].write
  BY <1>2 DEF Reserved, RuntimeInv, CallsInv, WritesInLine
<1> QED BY Zenon, <1>3, <1>4

(* The first write leaves the batch.                                       *)
LEMMA BatchPop ==
  ASSUME RuntimeInv, prepared # <<>>, prepared' = Tail(prepared)
  PROVE  /\ Head(prepared) = prepared[1] /\ 1 \in DOMAIN prepared
         /\ Head(prepared).write \in Writes /\ Reserved = {Head(prepared).write} \cup Reserved'
         /\ \A w \in Reserved' : Head(prepared).write < w
         /\ \A i, j \in DOMAIN prepared' : i < j => prepared'[i].write < prepared'[j].write
<1> DEFINE E == [write : Writes, index : Nat]
<1>1. prepared \in Seq(E)
  BY Zenon, PlaceTypes
<1> HIDE DEF E
<1>2. /\ Head(prepared) = prepared[1] /\ prepared[1] \in E /\ Len(prepared) \in Nat /\ Len(prepared) >= 1
      /\ DOMAIN prepared = 1..Len(prepared) /\ DOMAIN prepared' = 1..(Len(prepared) - 1)
      /\ \A i \in 1..(Len(prepared) - 1) : prepared'[i] = prepared[i + 1]
  BY Zenon, <1>1, PopFront
<1>3. \A i \in DOMAIN prepared' : i \in Nat /\ i + 1 \in DOMAIN prepared /\ i + 1 > 1 /\ prepared'[i] = prepared[i + 1]
  BY <1>2
<1>4. \A i \in DOMAIN prepared : i = 1 \/ (i - 1 \in DOMAIN prepared' /\ prepared[i] = prepared'[i - 1])
  BY <1>2
<1>5. Reserved = {Head(prepared).write} \cup Reserved'
  BY <1>2, <1>3, <1>4 DEF Reserved
<1>6. \A i, j \in DOMAIN prepared : i < j => prepared[i].write < prepared[j].write
  BY Zenon DEF RuntimeInv, CallsInv, WritesInLine
<1>7. \A i, j \in DOMAIN prepared' : i < j => prepared'[i].write < prepared'[j].write
  BY <1>3, <1>6
<1>8. \A w \in Reserved' : prepared[1].write < w
  BY <1>2, <1>3, <1>6 DEF Reserved
<1> QED BY <1>2, <1>5, <1>7, <1>8 DEF E

(* A write is answered, with a position if it was applied.                 *)
LEMMA CallsAnswerWrite ==
  ASSUME RuntimeInv, NEW w0 \in InFlight, NEW answer \in {"ok", "err"}, AnswerWrites({w0}, answer),
         InFlight' = InFlight \ {w0}, Reserved' \subseteq Reserved, InDeque' \subseteq InDeque,
         \A i, j \in DOMAIN prepared' : i < j => prepared'[i].write < prepared'[j].write,
         \A i, j \in DOMAIN wpending' : i < j => wpending'[i] < wpending'[j],
         applied' \in Nat, applied <= applied', recorded' \in Nat, recorded <= recorded',
         \/ position' = position
         \/ /\ position' = [position EXCEPT ![w0] = applied'] /\ applied < applied' /\ applied' = recorded'
            /\ \A w \in InFlight : w0 <= w,
         wpc # "done", wpc' # "done",
         UNCHANGED <<sent, control, mark, promised, queue, deferred, published, durable, waiters,
                     closing, ppc, settling, diskRows, cpc>>
  PROVE  CallsInv'
<1> USE DEF RuntimeInv, CallsInv
<1>1. /\ w0 \in 1..sent /\ w0 \in Writes /\ reply[w0] = "none"
      /\ \A w \in Writes : reply'[w] = IF w = w0 THEN answer ELSE reply[w]
  BY Zenon, PlaceTypes DEF AnswerWrites, WritesInLine
<1>2. \A w \in Writes : w # w0 => position'[w] = position[w]
  BY Zenon, <1>1 DEF TypeOK, ClientsOK
<1>3. /\ \A v \in Writes : position[v] # 0 => v < w0
      /\ \A v \in Writes : position[v] \in Nat
      /\ \A v \in Writes : v # w0 \/ position[v] = 0
  <2>1. \A v \in Writes : position[v] # 0 => v < w0
    BY Zenon DEF WritesInLine
  <2>2. \A v \in Writes : v \in Nat /\ position[v] \in Nat
    BY Zenon, PlaceTypes, CallTypes
  <2> HIDE DEF RuntimeInv, CallsInv
  <2> QED BY <1>1, <2>1, <2>2
<1>4. position'[w0] = 0 \/ (position'[w0] = applied' /\ applied < applied' /\ applied' = recorded' /\ \A w \in InFlight : w0 <= w)
  BY Zenon, <1>1, <1>3 DEF TypeOK, ClientsOK
<1>5. UNCHANGED <<InChannel, Waiting>>
  BY Zenon DEF InChannel, Waiting
<1>6. applied \in Nat /\ recorded \in Nat
  BY Zenon DEF ChainInv, ChainTypes
<1>7. WritesInLine'
  <2>1. InFlight' = {w \in 1..sent : reply'[w] = "none"}
    <3>1. 1..sent \subseteq Writes
      BY Zenon, CallTypes
    <3> QED BY Zenon, <1>1, <3>1 DEF WritesInLine
  <2>2. \A w \in Writes : w > sent => reply'[w] = "none" /\ position'[w] = 0
    <3>1. \A w \in Writes : w > sent => w # w0
      BY <1>1, PlaceTypes
    <3> QED BY Zenon, <1>1, <1>2, <3>1 DEF WritesInLine
  <2>3. \A v \in Writes, w \in InFlight' : position'[v] # 0 => v < w
    <3> SUFFICES ASSUME NEW v \in Writes, NEW w \in InFlight', position'[v] # 0 PROVE v < w
      BY Zenon
    <3>1. w \in InFlight /\ w # w0 /\ w \in Nat /\ w0 \in Nat
      BY Zenon, <1>1, <2>1, CallTypes, PlaceTypes DEF WritesInLine
    <3>2. CASE v # w0
      BY Zenon, <1>2, <3>1, <3>2 DEF WritesInLine
    <3>3. CASE v = w0
      <4>1. w0 <= w
        BY Zenon, <1>4, <3>1, <3>3
      <4> HIDE DEF RuntimeInv, CallsInv
      <4> QED BY <3>1, <3>3, <4>1
    <3> QED BY Zenon, <3>2, <3>3
  <2> QED BY Zenon, <1>5, <2>1, <2>2, <2>3 DEF WritesInLine, Writes
<1>8. PositionsBounded'
  <2>1. \A w \in Writes : position[w] <= applied /\ position[w] <= recorded
    BY Zenon DEF PositionsBounded
  <2>2. \A w \in Writes : w # w0 => position'[w] <= applied' /\ position'[w] <= recorded'
    BY Zenon, <1>2, <1>3, <1>6, <2>1, Order
  <2>3. position'[w0] <= applied' /\ position'[w0] <= recorded'
    BY Zenon, <1>4, Order
  <2> QED BY Zenon, <2>2, <2>3 DEF PositionsBounded
<1>9. WritesInOrder'
  <2>1. ASSUME NEW v \in Writes, NEW w \in Writes, v < w, position'[v] # 0, position'[w] # 0
        PROVE  position'[v] < position'[w]
    <3>1. CASE w = w0
      <4>1. v # w0 /\ position'[w] = applied' /\ applied < applied'
        BY Zenon, <1>1, <1>4, <2>1, <3>1, PlaceTypes, StrictOrder
      <4>2. position'[v] = position[v] /\ position[v] \in Nat /\ position[v] <= applied
        BY Zenon, <1>2, <1>3, <4>1 DEF PositionsBounded
      <4> QED BY Zenon, <1>6, <4>1, <4>2, StrictOrder
    <3>2. CASE w # w0
      <4>0. v \in Nat /\ w \in Nat /\ w0 \in Nat
        BY Zenon, <1>1, PlaceTypes
      <4>1. position[w] # 0 /\ w < w0
        BY Zenon, <1>2, <1>3, <2>1, <3>2
      <4>2. v # w0
        BY Zenon, <2>1, <4>0, <4>1, StrictOrder
      <4> QED BY Zenon, <1>2, <2>1, <3>2, <4>1, <4>2 DEF WritesInOrder
    <3> QED BY Zenon, <3>1, <3>2
  <2> QED BY Zenon, <2>1 DEF WritesInOrder, Writes
<1>10. CallsInPlace'
  BY Zenon, <1>5 DEF CallsInPlace
<1>11. EndsInOrder'
  BY Zenon, <1>5 DEF EndsInOrder
<1>12. MarksHold'
  <2>1. ASSUME NEW x \in Waiting, NEW w \in 1..mark[x[2]]
        PROVE  reply'[w] # "none" /\ position'[w] <= x[1]
    <3>1. reply[w] # "none" /\ position[w] <= x[1]
      BY Zenon DEF MarksHold
    <3>2. w \in Writes
      BY Zenon, PlaceTypes, CallTypes
    <3> QED BY Zenon, <1>1, <1>2, <3>1, <3>2
  <2> QED BY Zenon, <1>5, <2>1 DEF MarksHold, Writes
<1>13. AnswersHold'
  <2>1. ASSUME NEW c \in Control, control[c] = "ok", NEW w \in 1..mark[c] PROVE reply'[w] # "none"
    <3>1. w \in Writes
      BY Zenon, CallTypes
    <3> QED BY Zenon, <1>1, <2>1, <3>1 DEF AnswersHold
  <2>2. \A w \in promised : position'[w] \in diskRows
    <3>1. promised \subseteq Writes /\ diskRows = 1..diskBookmark /\ diskBookmark \in Nat
      BY Zenon DEF TypeOK, ClientsOK, ChainInv, ChainTypes, DurablePrefix
    <3>2. \A w \in promised : position[w] # 0
      <4>1. \A w \in promised : position[w] \in 1..diskBookmark
        BY Zenon, <3>1 DEF AnswersHold
      <4> HIDE DEF RuntimeInv, CallsInv
      <4> QED BY <3>1, <4>1
    <3> QED BY Zenon, <1>2, <1>3, <3>1, <3>2 DEF AnswersHold
  <2>3. control[Closer] # "ok" /\ \A x \in Waiting : x[2] # Closer
    BY Zenon DEF AnswersHold
  <2> QED BY Zenon, <1>5, <2>1, <2>2, <2>3 DEF AnswersHold
<1> QED BY Zenon, <1>7, <1>8, <1>9, <1>10, <1>11, <1>12, <1>13

(* A refused or expired write of the deque.                                *)
LEMMA CallsRefuse ==
  ASSUME RuntimeInv, ExpireFirst \/ PrepareRefused
  PROVE  CallsInv'
<1> DEFINE w0 == Head(wpending)
<1>1. /\ wpending # <<>> /\ wpending' = Tail(wpending) /\ AnswerWrites({w0}, "err")
      /\ wpc # "done" /\ wpc' # "done"
      /\ UNCHANGED <<sent, position, control, mark, promised, queue, deferred, prepared, batches, applied,
                     published, durable, waiters, closing, ppc, settling, diskRows, cpc>>
  BY Zenon DEF ExpireFirst, PrepareRefused, LoopHead, WriterOnly, mailVars, workerVars, diskVars
<1>2. /\ w0 \in Writes /\ InDeque = {w0} \cup InDeque' /\ (\A w \in InDeque' : w0 < w)
      /\ \A i, j \in DOMAIN wpending' : i < j => wpending'[i] < wpending'[j]
  BY Zenon, <1>1, DequePop
<1>3. UNCHANGED <<Reserved, InChannel>>
  BY Zenon, <1>1 DEF Reserved, InChannel
<1>4. \A w \in Reserved \cup InDeque' \cup (InChannel \cap Writes) : w # w0
  <2>1. w0 \in InDeque /\ w0 \in Nat
    BY Zenon, <1>2, PlaceTypes
  <2>2. /\ \A w \in Reserved : w < w0
        /\ \A w \in InChannel \cap Writes : w0 < w
    BY Zenon, <2>1 DEF RuntimeInv, CallsInv, WritesInLine
  <2>3. \A w \in Reserved \cup InDeque' \cup (InChannel \cap Writes) : w \in Nat
    BY Zenon, <1>2, PlaceTypes
  <2> HIDE DEF w0
  <2> QED BY <1>2, <2>1, <2>2, <2>3
<1>5. InFlight' = InFlight \ {w0} /\ w0 \in InFlight
  BY Zenon, <1>2, <1>3, <1>4 DEF InFlight, Writes
<1>6. applied \in Nat /\ recorded \in Nat /\ applied <= applied /\ recorded <= recorded /\ recorded' = recorded
  BY <1>1 DEF RuntimeInv, ChainInv, ChainTypes, recorded
<1>7. \A i, j \in DOMAIN prepared : i < j => prepared[i].write < prepared[j].write
  BY Zenon DEF RuntimeInv, CallsInv, WritesInLine
<1> HIDE DEF w0
<1> QED BY Zenon, <1>1, <1>2, <1>3, <1>5, <1>6, <1>7, CallsAnswerWrite

(* A write of the deque is reserved.                                       *)
LEMMA CallsReserve ==
  ASSUME RuntimeInv, PrepareReserved
  PROVE  CallsInv'
<1> DEFINE w0 == Head(wpending)
           e == [write |-> w0, index |-> NextIndex]
<1> USE DEF RuntimeInv, CallsInv
<1>1. /\ wpending # <<>> /\ wpending' = Tail(wpending) /\ prepared' = Append(prepared, e)
      /\ wpc # "done" /\ wpc' # "done"
      /\ UNCHANGED <<clientVars, queue, deferred, batches, applied,
                     published, durable, waiters, closing, ppc, settling, diskRows, cpc>>
  BY Zenon DEF PrepareReserved, WriterOnly, NoAnswer, clientVars, mailVars, workerVars, diskVars
<1>2. /\ w0 \in Writes /\ InDeque = {w0} \cup InDeque' /\ (\A w \in InDeque' : w0 < w)
      /\ \A i, j \in DOMAIN wpending' : i < j => wpending'[i] < wpending'[j]
  BY Zenon, <1>1, DequePop
<1>3. UNCHANGED <<InChannel, Waiting>>
  BY Zenon, <1>1 DEF InChannel, Waiting
<1>4. NextIndex \in Nat
  BY PlaceTypes DEF NextIndex, ChainInv, ChainTypes
<1>5. \A v \in Reserved : v < w0
  BY Zenon, <1>2 DEF WritesInLine
<1>6. /\ Reserved' = Reserved \cup {w0}
      /\ \A i, j \in DOMAIN prepared' : i < j => prepared'[i].write < prepared'[j].write
  <2>1. e \in [write : Writes, index : Nat] /\ e.write = w0
    BY Zenon, <1>2, <1>4
  <2> HIDE DEF e
  <2> QED BY Zenon, <1>1, <1>5, <2>1, BatchPush
<1>7. InFlight' = InFlight
  BY Zenon, <1>2, <1>3, <1>6 DEF InFlight, Writes
<1> HIDE DEF w0, e
<1> USE DEF clientVars
<1>8. WritesInLine' /\ WritesInOrder'
  BY Zenon, <1>1, <1>2, <1>3, <1>6, <1>7 DEF WritesInLine, WritesInOrder, Writes
<1>9. PositionsBounded'
  BY Zenon, <1>1 DEF PositionsBounded, recorded
<1>10. CallsInPlace' /\ EndsInOrder'
  BY Zenon, <1>1, <1>3 DEF CallsInPlace, EndsInOrder
<1>11. MarksHold'
  BY Zenon, <1>1, <1>3 DEF MarksHold
<1>12. AnswersHold'
  BY Zenon, <1>1, <1>3 DEF AnswersHold
<1> QED BY Zenon, <1>8, <1>9, <1>10, <1>11, <1>12

(* The apply loop answers the writes of the batch in order.                *)
LEMMA CallsApply ==
  ASSUME RuntimeInv, ChainInv', ApplyCommitted \/ ApplyFailed \/ ApplyOmittedSpan \/ ApplyRefused
  PROVE  CallsInv'
<1> DEFINE w0 == Head(prepared).write
<1> USE DEF WriterOnly, mailVars, workerVars, diskVars
<1>1. /\ prepared # <<>> /\ prepared' = Tail(prepared) /\ wpc = "apply" /\ wpc' = "apply"
      /\ UNCHANGED <<sent, control, mark, promised, queue, deferred, wpending, published, durable, waiters,
                     closing, ppc, settling, diskRows, cpc>>
  BY Zenon DEF ApplyCommitted, ApplyFailed, ApplyOmittedSpan, ApplyRefused
<1>2. PICK answer \in {"ok", "err"} : AnswerWrites({w0}, answer)
  BY Zenon DEF ApplyCommitted, ApplyFailed, ApplyOmittedSpan, ApplyRefused
<1>3. /\ Head(prepared) = prepared[1] /\ 1 \in DOMAIN prepared
      /\ w0 \in Writes /\ Reserved = {w0} \cup Reserved' /\ (\A w \in Reserved' : w0 < w)
      /\ \A i, j \in DOMAIN prepared' : i < j => prepared'[i].write < prepared'[j].write
  BY Zenon, <1>1, BatchPop
<1>4. UNCHANGED <<InDeque, InChannel>>
  BY Zenon, <1>1 DEF InDeque, InChannel
<1>5. \A w \in Reserved' \cup InDeque \cup (InChannel \cap Writes) : w0 < w /\ w # w0
  <2>1. w0 \in Reserved /\ w0 \in Nat
    BY Zenon, <1>3, PlaceTypes
  <2>2. \A w \in Reserved' \cup InDeque \cup (InChannel \cap Writes) : w0 < w
    BY Zenon, <1>3, <2>1 DEF RuntimeInv, CallsInv, WritesInLine
  <2>3. \A w \in Reserved' \cup InDeque \cup (InChannel \cap Writes) : w \in Nat
    BY Zenon, <1>3, PlaceTypes
  <2> HIDE DEF w0
  <2> QED BY <2>1, <2>2, <2>3
<1>6. InFlight' = InFlight \ {w0} /\ w0 \in InFlight
  BY Zenon, <1>3, <1>4, <1>5 DEF InFlight, Writes
<1>7. \A w \in InFlight : w0 <= w
  BY <1>3, <1>5, PlaceTypes DEF InFlight
<1>8. applied \in Nat /\ recorded \in Nat /\ applied' \in Nat /\ recorded' \in Nat
  BY Zenon DEF RuntimeInv, ChainInv, ChainTypes
<1>9. ~failure => Head(prepared).index = applied + 1
  BY Zenon, <1>3 DEF RuntimeInv, ChainInv, PlacesMatchPoints
<1>10. CASE ApplyCommitted
  <2>1. /\ applied' = applied + 1 /\ position' = [position EXCEPT ![w0] = applied'] /\ ~failure /\ ~failure'
        /\ batches' = batches \cup {applied'}
    BY Zenon, <1>9, <1>10 DEF ApplyCommitted
  <2>2. applied = recorded /\ applied' = recorded'
    BY Zenon, <1>1, <2>1 DEF RuntimeInv, ChainInv, SpansChain
  <2>3. applied < applied' /\ applied <= applied' /\ recorded <= recorded'
    BY <1>8, <2>1, <2>2
  <2>4. \A i, j \in DOMAIN wpending : i < j => wpending[i] < wpending[j]
    BY Zenon DEF RuntimeInv, CallsInv, WritesInLine
  <2> HIDE DEF w0
  <2> QED BY Zenon, <1>1, <1>2, <1>3, <1>4, <1>6, <1>7, <1>8, <2>1, <2>2, <2>3, <2>4, CallsAnswerWrite
<1>11. CASE ApplyFailed \/ ApplyOmittedSpan \/ ApplyRefused
  <2>1. /\ position' = position /\ batches' = batches
        /\ applied' = applied \/ (applied' = Head(prepared).index /\ ~failure)
    BY Zenon, <1>11 DEF ApplyFailed, ApplyOmittedSpan, ApplyRefused
  <2>2. recorded' = recorded
    BY Zenon, <1>1, <2>1 DEF recorded
  <2>3. applied <= applied' /\ recorded <= recorded'
    BY <1>8, <1>9, <2>1, <2>2
  <2>4. \A i, j \in DOMAIN wpending : i < j => wpending[i] < wpending[j]
    BY Zenon DEF RuntimeInv, CallsInv, WritesInLine
  <2> HIDE DEF w0
  <2> QED BY Zenon, <1>1, <1>2, <1>3, <1>4, <1>6, <1>7, <1>8, <2>1, <2>3, <2>4, CallsAnswerWrite
<1> QED BY Zenon, <1>10, <1>11



(* The disk covers a position that durable covers.                         *)
LEMMA DurableOnDisk ==
  ASSUME RuntimeInv, NEW n \in Nat, n <= durable
  PROVE  n \in diskRows \cup {0}
BY DEF RuntimeInv, ChainInv, ChainTypes, SpansChain, DurablePrefix

(* Answers to flush and shutdown calls change nothing for the others, and  *)
(* promise only what the disk holds.                                       *)
LEMMA AnswersKept ==
  ASSUME RuntimeInv, NEW ok \in SUBSET Control, NEW err \in SUBSET Control, AnswerControl(ok, err), UNCHANGED <<position, diskRows>>,
         \A c \in ok : \A w \in 1..mark[c] : position[w] <= durable
  PROVE  /\ \A c \in Control : control'[c] = IF c \in ok THEN "ok" ELSE IF c \in err THEN "err" ELSE control[c]
         /\ \A w \in promised' : position'[w] \in diskRows'
<1>1. \A c \in Control : control'[c] = IF c \in ok THEN "ok" ELSE IF c \in err THEN "err" ELSE control[c]
  BY Zenon DEF AnswerControl
<1>2. ASSUME NEW w \in Covered(ok) PROVE position[w] \in diskRows
  <2>1. PICK c \in ok : w <= mark[c]
    BY Zenon DEF Covered
  <2>2. w \in Writes /\ position[w] # 0 /\ position[w] \in Nat /\ mark[c] \in Nat
    BY BoundsAssumption DEF Covered, RuntimeInv, TypeOK, ClientsOK
  <2>3. w \in 1..mark[c]
    BY <2>1, <2>2, PlaceTypes
  <2> QED BY Zenon, <2>2, <2>3, DurableOnDisk
<1>3. \A w \in promised : position[w] \in diskRows
  BY Zenon DEF RuntimeInv, CallsInv, AnswersHold
<1> QED BY Zenon, <1>1, <1>2, <1>3 DEF AnswerControl

(* A flush or shutdown is taken at the head of the loop: every write before*)
(* it has its answer, and what was applied is published.                   *)
LEMMA TakeControl ==
  ASSUME RuntimeInv, wpc = "top", wpending = <<>>, NextMessage \in Control,
         deferred # None \/ queue # <<>>
  PROVE  LET c == NextMessage IN
         /\ c \in InChannel \cup {deferred} /\ control[c] = "queued" /\ \A x \in Waiting : x[2] # c
         /\ \A w \in 1..mark[c] : reply[w] # "none"
         /\ \A w \in Writes : position[w] <= published
<1> DEFINE c == NextMessage
<1> USE DEF RuntimeInv, CallsInv
<1>1. prepared = <<>> /\ batches = {} /\ recorded = published
  BY Zenon DEF ChainInv, PlacesMatchPoints, recorded
<1>2. c \in InChannel \cup {deferred}
  <2>1. CASE deferred # None
    BY Zenon, <2>1 DEF NextMessage
  <2>2. CASE deferred = None
    <3>1. queue # <<>> /\ c = Head(queue) /\ queue \in Seq(Writes \cup Control)
      BY Zenon, <2>2, PlaceTypes DEF NextMessage
    <3>2. 1 \in DOMAIN queue /\ Head(queue) = queue[1]
      BY <3>1
    <3> QED BY Zenon, <3>1, <3>2 DEF InChannel
  <2> QED BY Zenon, <2>1, <2>2
<1>3. control[c] = "queued" /\ \A x \in Waiting : x[2] # c
  BY Zenon, <1>2 DEF CallsInPlace
<1>4. InFlight = InChannel \cap Writes
  BY <1>1 DEF InFlight, Reserved, InDeque
<1>5. \A w \in InChannel \cap Writes : mark[c] < w
  <2>1. CASE deferred # None
    BY Zenon, <2>1 DEF NextMessage, MarksHold
  <2>2. CASE deferred = None
    <3>1. queue # <<>> /\ c = Head(queue) /\ queue \in Seq(Writes \cup Control)
      BY Zenon, <2>2, PlaceTypes DEF NextMessage
    <3>2. /\ 1 \in DOMAIN queue /\ c = queue[1] /\ c \notin Writes
          /\ \A i \in DOMAIN queue : i \in Nat /\ i >= 1
      BY <3>1, PlaceTypes
    <3>3. ASSUME NEW w \in InChannel \cap Writes PROVE mark[c] < w
      <4>1. PICK i \in DOMAIN queue : queue[i] = w
        BY Zenon DEF InChannel
      <4>2. i # 1 /\ 1 < i
        BY <3>2, <4>1
      <4> QED BY Zenon, <3>2, <4>1, <4>2 DEF MarksHold
    <3> QED BY Zenon, <3>3
  <2> QED BY Zenon, <2>1, <2>2
<1>6. ASSUME NEW w \in 1..mark[c] PROVE reply[w] # "none"
  <2>1. mark[c] \in Nat /\ mark[c] <= sent
    BY Zenon, CallTypes
  <2>2. w \in 1..sent /\ w \in Nat /\ w <= mark[c]
    BY <2>1, PlaceTypes
  <2>3. w \notin InFlight
    BY <1>4, <1>5, <2>1, <2>2
  <2> QED BY Zenon, <2>2, <2>3 DEF WritesInLine
<1>7. \A w \in Writes : position[w] <= published
  BY Zenon, <1>1 DEF PositionsBounded
<1> QED BY Zenon, <1>2, <1>3, <1>6, <1>7

(* barrier with a flush: the call is answered or waits for its target.     *)
LEMMA CallsFlush ==
  ASSUME RuntimeInv, ReceiveFlush
  PROVE  CallsInv'
<1> DEFINE c == NextMessage
           ok == BarrierAnswers({c})
           N == IF published <= durable THEN {} ELSE {<<published, c>>}
<1> USE DEF RuntimeInv, CallsInv
<1>1. /\ wpc = "top" /\ wpending = <<>> /\ c \in Callers /\ c \in Control /\ c # Closer
      /\ deferred # None \/ queue # <<>>
  BY Zenon, NamesAssumption DEF ReceiveFlush, TakeMessage, Control
<1>2. /\ deferred' = None /\ queue' = (IF deferred # None THEN queue ELSE Tail(queue))
      /\ waiters' = waiters \cup N /\ closing' = closing /\ AnswerControl(ok, {})
      /\ ppc' = ppc \/ (ppc \in {"wait", "timed"} /\ ppc' = "check")
      /\ UNCHANGED <<sent, reply, position, mark, wpc, wpending, prepared, batches, applied, published,
                     durable, settling, diskRows, cpc>>
  BY Zenon DEF ReceiveFlush, TakeMessage, Barrier, Notify, diskVars, TypeOK, MailboxOK
<1>3. /\ c \in InChannel \cup {deferred} /\ control[c] = "queued" /\ (\A x \in Waiting : x[2] # c)
      /\ (\A w \in 1..mark[c] : reply[w] # "none") /\ (\A w \in Writes : position[w] <= published)
  BY Zenon, <1>1, TakeControl
<1>4. /\ InChannel' \cap Writes = InChannel \cap Writes /\ c \notin InChannel'
      /\ {c} \cup InChannel' = InChannel \cup ({deferred} \ {None})
      /\ \A i, j \in DOMAIN queue' : /\ queue'[i] = queue'[j] => i = j
                                     /\ i < j /\ queue'[j] \in Writes =>
                                          /\ queue'[i] \in Writes => queue'[i] < queue'[j]
                                          /\ queue'[i] \in Control => mark'[queue'[i]] < queue'[j]
  <2>1. CASE deferred # None
    <3>1. c = deferred /\ queue' = queue /\ InChannel' = InChannel
      BY Zenon, <1>2, <2>1 DEF NextMessage, InChannel
    <3> QED BY Zenon, <1>2, <2>1, <3>1 DEF CallsInPlace, WritesInLine, MarksHold, Writes
  <2>2. CASE deferred = None
    <3>1. queue # <<>> /\ c = Head(queue) /\ queue' = Tail(queue)
      BY Zenon, <1>1, <1>2, <2>2 DEF NextMessage
    <3>2. c \notin Writes
      BY Zenon, <1>1, PlaceTypes
    <3> HIDE DEF c
    <3> QED BY Zenon, <1>1, <1>2, <2>2, <3>1, <3>2, ChannelPop
  <2> QED BY Zenon, <2>1, <2>2
<1>5. UNCHANGED <<Reserved, InDeque, InFlight>> /\ Waiting' = Waiting \cup N
  <2>1. UNCHANGED <<Reserved, InDeque>>
    BY Zenon, <1>2 DEF Reserved, InDeque
  <2>2. Waiting' = Waiting \cup N
    <3>1. waiters' = waiters \cup N /\ settling' = settling
      BY Zenon, <1>2
    <3> HIDE DEF N
    <3> QED BY Zenon, <3>1 DEF Waiting
  <2> QED BY Zenon, <1>4, <2>1, <2>2 DEF InFlight, Writes
<1>6. published \in Nat /\ durable \in Nat /\ published <= published /\ (\A w \in Writes : position[w] \in Nat)
      /\ 1..mark[c] \subseteq Writes
  BY <1>1, CallTypes
<1>7. ok = (IF published <= durable THEN {c} ELSE {}) /\ ok \in SUBSET Control
  BY Zenon, <1>1 DEF BarrierAnswers
<1>8. /\ \A d \in Control : control'[d] = IF d \in ok THEN "ok" ELSE control[d]
      /\ \A w \in promised' : position'[w] \in diskRows'
  <2>1. \A d \in ok : \A w \in 1..mark[d] : position[w] <= durable
    <3>1. \A d \in ok : d = c /\ published <= durable
      BY Zenon, <1>7
    <3> HIDE DEF c, ok, N
    <3> QED BY Zenon, <1>3, <1>6, <3>1, Order
  <2>2. AnswerControl(ok, {}) /\ ok \in SUBSET Control /\ {} \in SUBSET Control
        /\ position' = position /\ diskRows' = diskRows
    BY Zenon, <1>2, <1>7
  <2> HIDE DEF c, ok, N, RuntimeInv
  <2>3. RuntimeInv
    BY Zenon
  <2> QED BY <2>1, <2>2, <2>3, AnswersKept
<1> HIDE DEF c, ok
<1>9. WritesInLine' /\ WritesInOrder'
  BY Zenon, <1>2, <1>4, <1>5 DEF WritesInLine, WritesInOrder, Writes
<1>10. PositionsBounded'
  BY Zenon, <1>2 DEF PositionsBounded, recorded
<1>11. CallsInPlace'
  <2>1. \A d \in Control \ {c} : /\ control'[d] = control[d]
                                 /\ d \in InChannel' <=> d \in InChannel \cup ({deferred} \ {None})
    BY Zenon, <1>4, <1>7, <1>8
  <2>2. control'[c] = "queued" <=> ~(published <= durable)
    BY Zenon, <1>1, <1>3, <1>7, <1>8
  <2>3. \A x \in Waiting : x[2] \notin InChannel'
    BY Zenon, <1>3, <2>1, PlaceTypes DEF CallsInPlace
  <2>4. settling # {} => ppc' = "settle"
    BY Zenon, <1>2 DEF CallsInPlace
  <2>5. waiters' \cap settling = {}
    <3>1. \A x \in N : x[2] = c
      OBVIOUS
    <3>2. \A x \in N : x \notin settling
      BY Zenon, <1>3, <3>1 DEF Waiting
    <3> HIDE DEF N
    <3> QED BY Zenon, <1>2, <3>2 DEF CallsInPlace
  <2>6. \A x, y \in Waiting' : x[2] = y[2] => x = y
    <3>1. \A x \in N : x[2] = c /\ x = <<published, c>>
      OBVIOUS
    <3> HIDE DEF N
    <3> QED BY Zenon, <1>3, <1>5, <3>1 DEF CallsInPlace
  <2>7. \A x \in Waiting' : x[2] \notin InChannel' /\ x[2] # None
    BY <1>1, <1>4, <1>5, <2>3, PlaceTypes
  <2>8. ASSUME NEW d \in Control
        PROVE  control'[d] = "queued" <=> d \in InChannel' \cup {None} \cup {x[2] : x \in Waiting'}
    <3>1. CASE d = c
      <4>1. c \notin InChannel' /\ c # None /\ (\A x \in Waiting : x[2] # c)
        BY Zenon, <1>1, <1>3, <1>4, PlaceTypes
      <4>2. c \in {x[2] : x \in N} <=> ~(published <= durable)
        BY Zenon
      <4>3. c \in {x[2] : x \in Waiting'} <=> c \in {x[2] : x \in N}
        BY Zenon, <1>5, <4>1
      <4> HIDE DEF N
      <4> QED BY Zenon, <2>2, <3>1, <4>1, <4>2, <4>3
    <3>2. CASE d # c
      <4>1. d \in {x[2] : x \in Waiting'} <=> d \in {x[2] : x \in Waiting}
        BY <1>5, <3>2
      <4> QED BY Zenon, <2>1, <3>2, <4>1, PlaceTypes DEF CallsInPlace
    <3> QED BY Zenon, <3>1, <3>2
  <2> QED BY <1>2, <1>4, <2>4, <2>5, <2>6, <2>7, <2>8 DEF CallsInPlace
<1>12. EndsInOrder'
  <2>1. ppc # "done"
    BY Zenon, <1>1 DEF EndsInOrder
  <2>2. Closer \in Control /\ Closer \notin ok
    BY Zenon, <1>1, <1>7 DEF Control
  <2> QED BY <1>1, <1>2, <1>8, <2>1, <2>2 DEF EndsInOrder
<1>13. MarksHold'
  <2>1. \A x \in N : /\ x[1] = published /\ x[2] = c /\ durable < x[1]
                     /\ \A w \in 1..mark[c] : position[w] <= x[1]
    BY <1>3, <1>6
  <2> QED BY Zenon, <1>2, <1>3, <1>4, <1>5, <1>6, <2>1 DEF MarksHold
<1>14. AnswersHold'
  <2>1. \A d \in Control : control'[d] = "ok" => d = c \/ control[d] = "ok"
    BY Zenon, <1>7, <1>8
  <2>2. \A x \in N : x[2] # Closer
    BY <1>1
  <2>3. Closer \in Control
    BY Zenon DEF Control
  <2> QED BY Zenon, <1>1, <1>2, <1>3, <1>5, <1>8, <2>1, <2>2, <2>3 DEF AnswersHold
<1> QED BY Zenon, <1>9, <1>10, <1>11, <1>12, <1>13, <1>14

(* The writer ends: what it still had is answered Err, and the call of     *)
(* shutdown that ended it, if keep holds one, is answered or waits for its *)
(* target.                                                                 *)
WriterEnds(keep) ==
  /\ wpc # "done" /\ wpc' = "done" /\ (closing => closing')
  /\ ppc' = ppc \/ (ppc \in {"wait", "timed"} /\ ppc' = "check")
  /\ queue' = <<>> /\ wpending' = <<>> /\ deferred' = None /\ prepared' = <<>>
  /\ AnswerWrites(InFlight, "err")
  /\ AnswerControl(BarrierAnswers(keep), (Dropped \cap Control) \ keep)
  /\ waiters' = waiters \cup (IF published <= durable THEN {} ELSE {<<published, c>> : c \in keep})
  /\ UNCHANGED <<sent, position, mark, applied, published, durable, settling, diskRows, cpc>>
  /\ keep # {} => /\ Closer \in InChannel \cup {deferred} /\ control[Closer] = "queued"
                  /\ \A x \in Waiting : x[2] # Closer
                  /\ \A w \in Writes : position[w] <= published

(* Whichever way the writer ends, every call keeps its place or is answered. *)
LEMMA CallsExit ==
  ASSUME RuntimeInv, NEW keep \in SUBSET {Closer}, WriterEnds(keep)
  PROVE  CallsInv'
<1> DEFINE ok == BarrierAnswers(keep)
           N == IF published <= durable THEN {} ELSE {<<published, c>> : c \in keep}
           err == (Dropped \cap Control) \ keep
<1>a. queue' = <<>> /\ wpending' = <<>> /\ deferred' = None /\ prepared' = <<>>
  BY Zenon DEF WriterEnds
<1>b. AnswerWrites(InFlight, "err") /\ AnswerControl(ok, err)
  BY Zenon DEF WriterEnds
<1>c. UNCHANGED <<sent, position, mark, applied, published, durable, settling, diskRows, cpc>>
  BY Zenon DEF WriterEnds
<1>d. waiters' = waiters \cup N
  BY Zenon DEF WriterEnds
<1>e. keep # {} => /\ Closer \in InChannel \cup {deferred} /\ control[Closer] = "queued"
                   /\ \A x \in Waiting : x[2] # Closer
                   /\ \A w \in Writes : position[w] <= published
  BY Zenon DEF WriterEnds
<1>f. /\ wpc # "done" /\ wpc' = "done" /\ (closing => closing')
      /\ ppc' = ppc \/ (ppc \in {"wait", "timed"} /\ ppc' = "check")
  BY Zenon DEF WriterEnds
<1>i. /\ WritesInLine /\ WritesInOrder /\ PositionsBounded /\ CallsInPlace /\ EndsInOrder /\ MarksHold /\ AnswersHold
  BY Zenon DEF RuntimeInv, CallsInv
<1>1. /\ Reserved' = {} /\ InDeque' = {} /\ InChannel' = {} /\ InFlight' = {}
      /\ Waiting' = Waiting \cup N
  <2>1. Reserved' = {} /\ InDeque' = {} /\ InChannel' = {}
    BY <1>a DEF Reserved, InDeque, InChannel
  <2>2. InFlight' = {}
    BY Zenon, <2>1 DEF InFlight
  <2>3. Waiting' = Waiting \cup N
    BY Zenon, <1>c, <1>d DEF Waiting
  <2> QED BY Zenon, <2>1, <2>2, <2>3
<1>2. \A w \in 1..sent : reply'[w] # "none"
  <2> SUFFICES ASSUME NEW w \in 1..sent PROVE reply'[w] # "none"
    BY Zenon
  <2>1. w \in Writes
    BY Zenon, CallTypes
  <2>2. reply'[w] = IF w \in InFlight THEN "err" ELSE reply[w]
    BY Zenon, <1>b, <2>1 DEF AnswerWrites
  <2> QED BY Zenon, <1>i, <2>2 DEF WritesInLine
<1>3. \A w \in Writes : w > sent => reply'[w] = reply[w]
  <2>1. \A w \in Writes : w > sent => w \notin InFlight
    <3>1. \A w \in 1..sent : ~(w > sent)
      BY CallTypes
    <3> QED BY Zenon, <1>i, <3>1 DEF WritesInLine
  <2> QED BY Zenon, <1>b, <2>1 DEF AnswerWrites
<1>4. /\ published \in Nat /\ durable \in Nat /\ sent \in Nat /\ (\A w \in Writes : position[w] \in Nat)
      /\ \A c \in Control : 1..mark[c] \subseteq Writes /\ 1..mark[c] \subseteq 1..sent /\ mark[c] <= sent
  BY Zenon, CallTypes
<1>5. /\ Closer \in Control /\ keep \subseteq Control /\ ppc # "done" /\ ppc' # "done" /\ control[Closer] # "ok"
      /\ cpc \notin {"joinWorker", "closed"}
  BY Zenon, <1>f, <1>i DEF Control, EndsInOrder, AnswersHold
<1>6. /\ ok = (IF published <= durable THEN keep ELSE {}) /\ ok \in SUBSET Control /\ err \in SUBSET Control
      /\ \A x \in N : x[1] = published /\ x[2] \in keep /\ durable < published
      /\ \A c \in keep \ ok : \E x \in N : x[2] = c
  <2>1. CASE published <= durable
    BY Zenon, <1>5, <2>1 DEF BarrierAnswers
  <2>2. CASE ~(published <= durable)
    <3>1. durable < published
      BY <1>4, <2>2
    <3>2. ok = {} /\ N = {<<published, c>> : c \in keep}
      BY Zenon, <2>2 DEF BarrierAnswers
    <3>3. \A c \in keep : <<published, c>> \in N /\ <<published, c>>[2] = c
      BY Zenon, <3>2
    <3>4. \A x \in N : x[1] = published /\ x[2] \in keep
      BY <3>2
    <3> HIDE DEF ok, N
    <3> QED BY Zenon, <2>2, <3>1, <3>2, <3>3, <3>4
  <2> QED BY Zenon, <2>1, <2>2
<1>7. /\ \A c \in Control : control'[c] = IF c \in ok THEN "ok" ELSE IF c \in err THEN "err" ELSE control[c]
      /\ \A w \in promised' : position'[w] \in diskRows'
  <2>1. \A c \in ok : \A w \in 1..mark[c] : position[w] <= durable
    <3>1. \A c \in ok : c \in keep /\ c \in Control /\ keep # {} /\ published <= durable
      BY Zenon, <1>5, <1>6
    <3> HIDE DEF ok, N
    <3> QED BY Zenon, <1>4, <1>e, <3>1, Order
  <2>2. AnswerControl(ok, err) /\ position' = position /\ diskRows' = diskRows
    BY Zenon, <1>b, <1>c
  <2> HIDE DEF ok, err, N
  <2> QED BY Zenon, <1>6, <2>1, <2>2, AnswersKept
<1>8. err = ((InChannel \cup {deferred}) \cap Control) \ keep
  <2>1. wpending \in Seq(Writes) /\ Writes \cap Control = {} /\ None \notin Control
    BY Zenon, PlaceTypes
  <2> HIDE DEF ok, N
  <2> QED BY <2>1 DEF Dropped, InChannel
<1> HIDE DEF ok, err, N
<1>9. WritesInLine'
  <2>1. InFlight' = {w \in 1..sent' : reply'[w] = "none"}
    BY Zenon, <1>1, <1>2, <1>c
  <2>2. \A w \in Writes : w > sent' => reply'[w] = "none" /\ position'[w] = 0
    BY Zenon, <1>3, <1>c, <1>i DEF WritesInLine
  <2>3. DOMAIN prepared' = {} /\ DOMAIN wpending' = {} /\ DOMAIN queue' = {}
    BY <1>a
  <2> QED BY Zenon, <1>1, <2>1, <2>2, <2>3 DEF WritesInLine, Writes
<1>10. WritesInOrder' /\ PositionsBounded'
  BY Zenon, <1>5, <1>a, <1>c, <1>f, <1>i DEF WritesInOrder, PositionsBounded, recorded
<1>11. CallsInPlace'
  <2>1. \A x \in Waiting' : x[2] # None /\ x[2] \in Control
    BY <1>1, <1>5, <1>6, PlaceTypes
  <2>2. \A x, y \in Waiting' : x[2] = y[2] => x = y
    <3>1. \A x, y \in N : x[2] = y[2] => x = y
      BY Zenon DEF N
    <3>2. \A x \in N, y \in Waiting : x[2] # y[2]
      BY Zenon, <1>6, <1>e
    <3> QED BY <1>1, <1>i, <3>1, <3>2 DEF CallsInPlace
  <2>3. waiters' \cap settling' = {}
    <3>1. \A x \in N : x \notin settling
      BY Zenon, <1>6, <1>e DEF Waiting
    <3> QED BY Zenon, <1>c, <1>d, <1>i, <3>1 DEF CallsInPlace
  <2>4. ASSUME NEW c \in Control
        PROVE  control'[c] = "queued" <=> c \in InChannel' \cup {deferred'} \cup {x[2] : x \in Waiting'}
    <3>1. c \in InChannel' \cup {deferred'} \cup {x[2] : x \in Waiting'}
            <=> (\E x \in Waiting : x[2] = c) \/ (\E x \in N : x[2] = c)
      BY Zenon, <1>1, <1>a, PlaceTypes
    <3>2. CASE c \in keep
      <4>1. c = Closer /\ c \notin err /\ control[c] = "queued" /\ \A x \in Waiting : x[2] # c
        BY Zenon, <1>8, <1>e, <3>2
      <4>2. CASE c \in ok
        <5>1. N = {}
          BY Zenon, <1>6, <4>2 DEF N
        <5> QED BY Zenon, <1>7, <3>1, <4>1, <4>2, <5>1
      <4>3. CASE c \notin ok
        BY Zenon, <1>6, <1>7, <3>1, <3>2, <4>1, <4>3
      <4> QED BY Zenon, <4>2, <4>3
    <3>3. CASE c \notin keep
      <4>1. c \notin ok /\ \A x \in N : x[2] # c
        BY Zenon, <1>6, <3>3
      <4>2. c \in err <=> c \in InChannel \cup {deferred}
        BY Zenon, <1>8, <3>3
      <4>3. control[c] = "queued" <=> c \in InChannel \cup {deferred} \/ \E x \in Waiting : x[2] = c
        <5>1. control[c] = "queued" <=> c \in InChannel \cup {deferred} \cup {x[2] : x \in Waiting}
          BY Zenon, <1>i DEF CallsInPlace
        <5>2. c \in {x[2] : x \in Waiting} <=> \E x \in Waiting : x[2] = c
          BY Zenon
        <5> QED BY Zenon, <5>1, <5>2
      <4>4. \A x \in Waiting : x[2] # deferred /\ x[2] \notin InChannel
        BY Zenon, <1>i DEF CallsInPlace
      <4> QED BY Zenon, <1>7, <3>1, <4>1, <4>2, <4>3, <4>4
    <3> QED BY Zenon, <3>2, <3>3
  <2>5. settling' # {} => ppc' = "settle"
    BY Zenon, <1>c, <1>f, <1>i DEF CallsInPlace
  <2>6. DOMAIN queue' = {}
    BY <1>a
  <2> QED BY Zenon, <1>1, <1>a, <2>1, <2>2, <2>3, <2>4, <2>5, <2>6 DEF CallsInPlace
<1>12. EndsInOrder'
  <2>1. cpc \in {"open", "send", "dropSend"} => keep = {}
    BY Zenon, <1>e, <1>i DEF EndsInOrder
  <2>2. cpc \in {"open", "send", "dropSend"} => control'[Closer] = "idle"
    <3>1. cpc \in {"open", "send", "dropSend"} => Closer \notin InChannel \cup {deferred}
      BY Zenon, <1>5, <1>i DEF EndsInOrder, CallsInPlace
    <3> QED BY Zenon, <1>5, <1>6, <1>7, <1>8, <1>i, <2>1, <3>1 DEF EndsInOrder
  <2> QED BY Zenon, <1>5, <1>a, <1>c, <1>f, <1>i, <2>2 DEF EndsInOrder
<1>13. MarksHold'
  <2>1. \A x \in Waiting' : /\ x[1] <= published
                            /\ \A w \in 1..mark[x[2]] : reply'[w] # "none" /\ position[w] <= x[1]
    <3>1. \A x \in Waiting' : mark[x[2]] <= sent /\ 1..mark[x[2]] \subseteq 1..sent
      BY Zenon, <1>1, <1>4, <1>5, <1>6, PlaceTypes
    <3>2. \A x \in Waiting : x[1] <= published /\ \A w \in 1..mark[x[2]] : position[w] <= x[1]
      BY Zenon, <1>i DEF MarksHold
    <3>3. \A x \in N : x[1] <= published /\ \A w \in 1..mark[x[2]] : position[w] <= x[1]
      <4>1. \A x \in N : x[1] = published /\ x[2] \in keep /\ x[2] \in Control /\ keep # {}
        BY Zenon, <1>5, <1>6
      <4>2. published <= published
        BY Zenon, <1>4, Order
      <4> QED BY Zenon, <1>4, <1>e, <4>1, <4>2
    <3> QED BY Zenon, <1>1, <1>2, <3>1, <3>2, <3>3
  <2>2. \A x \in waiters' : durable < x[1]
    BY Zenon, <1>6, <1>d, <1>i DEF MarksHold
  <2>3. DOMAIN queue' = {}
    BY <1>a
  <2> QED BY Zenon, <1>1, <1>4, <1>a, <1>c, <2>1, <2>2, <2>3 DEF MarksHold
<1>14. AnswersHold'
  <2>1. \A x \in Waiting' : x[2] = Closer => \A w \in Writes : position[w] <= x[1]
    <3>1. \A x \in N : \A w \in Writes : position[w] <= x[1]
      BY Zenon, <1>6, <1>e
    <3>2. \A x \in Waiting : x[2] = Closer => \A w \in Writes : position[w] <= x[1]
      BY Zenon, <1>i DEF AnswersHold
    <3> QED BY Zenon, <1>1, <3>1, <3>2
  <2>2. control'[Closer] = "ok" => \A w \in Writes : position[w] \in diskRows \cup {0}
    <3>1. control'[Closer] = "ok" => Closer \in ok
      BY Zenon, <1>5, <1>7
    <3>2. Closer \in ok => \A w \in Writes : position[w] <= durable
      <4>1. Closer \in ok => keep # {} /\ published <= durable
        BY Zenon, <1>6
      <4> QED BY Zenon, <1>4, <1>e, <4>1, Order
    <3> QED BY Zenon, <1>4, <3>1, <3>2, DurableOnDisk
  <2> QED BY Zenon, <1>2, <1>4, <1>7, <1>c, <1>f, <1>i, <2>1, <2>2 DEF AnswersHold
<1> QED BY Zenon, <1>9, <1>10, <1>11, <1>12, <1>13, <1>14 DEF CallsInv

(* The four ways the writer thread ends.                                   *)
LEMMA CallsEnd ==
  ASSUME RuntimeInv, ReceiveShutdown \/ ReceiveDisconnected \/ EnterFailed \/ WriterPanics
  PROVE  CallsInv'
<1>1. /\ Dropped \cap Writes = InDeque \cup (InChannel \cap Writes)
      /\ Closer \in Control /\ {} \in SUBSET {Closer} /\ {Closer} \in SUBSET {Closer}
  <2>1. Closer \in Control /\ {} \in SUBSET {Closer} /\ {Closer} \in SUBSET {Closer}
    BY Zenon DEF Control
  <2>2. wpending \in Seq(Writes) /\ ({deferred} \ {None}) \cap Writes = {}
    BY Zenon, PlaceTypes DEF RuntimeInv, TypeOK, ChannelOK
  <2> QED BY <2>1, <2>2 DEF Dropped, InDeque, InChannel
<1>2. prepared = <<>> => Dropped \cap Writes = InFlight
  BY <1>1 DEF InFlight, Reserved
<1>3. BarrierAnswers({}) = {} /\ BarrierAnswers({Closer}) \subseteq {Closer}
  BY Zenon DEF BarrierAnswers
<1>4. wpc \in {"top", "drain"} => prepared = <<>>
  BY Zenon DEF RuntimeInv, ChainInv, PlacesMatchPoints
<1>5. CASE ReceiveShutdown
  <2>1. /\ wpc = "top" /\ wpending = <<>> /\ NextMessage = Closer /\ (deferred # None \/ queue # <<>>)
        /\ wpc' = "done" /\ queue' = <<>> /\ wpending' = <<>> /\ deferred' = None /\ prepared' = prepared
        /\ UNCHANGED <<sent, position, mark, applied, published, durable, settling, diskRows, cpc>>
        /\ closing' /\ (ppc' = ppc \/ (ppc \in {"wait", "timed"} /\ ppc' = "check"))
    BY Zenon, <1>5 DEF ReceiveShutdown, ExitWriter, Barrier, Notify, diskVars
  <2>2. AnswerWrites(InFlight, "err")
    BY Zenon, <1>2, <1>4, <1>5, <2>1 DEF ReceiveShutdown, ExitWriter
  <2>3. BarrierAnswers({Closer}) \cup {Closer} = {Closer}
    BY Zenon, <1>3
  <2>4. AnswerControl(BarrierAnswers({Closer}), (Dropped \cap Control) \ {Closer})
    BY Zenon, <1>5, <2>3 DEF ReceiveShutdown, ExitWriter
  <2>5. waiters' = waiters \cup (IF published <= durable THEN {} ELSE {<<published, c>> : c \in {Closer}})
    BY Zenon, <1>5 DEF ReceiveShutdown, Barrier
  <2>6. /\ Closer \in InChannel \cup {deferred} /\ control[Closer] = "queued"
        /\ \A x \in Waiting : x[2] # Closer
        /\ \A w \in Writes : position[w] <= published
    BY Zenon, <1>1, <2>1, TakeControl
  <2>7. wpc # "done" /\ prepared' = <<>>
    BY Zenon, <1>4, <2>1
  <2>8. WriterEnds({Closer})
    BY Zenon, <2>1, <2>2, <2>4, <2>5, <2>6, <2>7 DEF WriterEnds
  <2> QED BY Zenon, <1>1, <2>8, CallsExit
<1>6. CASE ReceiveDisconnected \/ EnterFailed \/ WriterPanics
  <2> DEFINE N == IF published <= durable THEN {} ELSE {<<published, c>> : c \in {}}
  <2>1. N = {}
    BY Zenon
  <2>2. /\ wpc # "done" /\ wpc' = "done" /\ queue' = <<>> /\ wpending' = <<>> /\ deferred' = None
        /\ UNCHANGED <<sent, position, mark, applied, published, durable, settling, diskRows, cpc>>
        /\ (closing => closing') /\ (ppc' = ppc \/ (ppc \in {"wait", "timed"} /\ ppc' = "check"))
        /\ waiters' = waiters
    <3>1. CASE ReceiveDisconnected
      BY Zenon, <3>1 DEF ReceiveDisconnected, ExitWriter, Barrier, Notify, diskVars
    <3>2. CASE EnterFailed
      BY Zenon, <3>2 DEF EnterFailed, ExitWriter, mailVars, workerVars, diskVars
    <3>3. CASE WriterPanics
      BY Zenon, <3>3 DEF WriterPanics, WriterOnly, mailVars, workerVars, diskVars
    <3> QED BY Zenon, <1>6, <3>1, <3>2, <3>3
  <2>3. AnswerWrites(InFlight, "err") /\ prepared' = <<>>
    BY Zenon, <1>1, <1>2, <1>4, <1>6
       DEF ReceiveDisconnected, EnterFailed, WriterPanics, ExitWriter, InFlight, Reserved, AnswerWrites
  <2>4. (Dropped \cap Control) \ ({} \cup {}) = Dropped \cap Control
        /\ (Dropped \cap Control) \ {} = Dropped \cap Control
    BY Zenon
  <2>5. AnswerControl({}, Dropped \cap Control)
    BY Zenon, <1>6, <2>4 DEF ReceiveDisconnected, EnterFailed, WriterPanics, ExitWriter
  <2>6. waiters' = waiters \cup N /\ AnswerControl(BarrierAnswers({}), (Dropped \cap Control) \ {})
    BY Zenon, <1>3, <2>1, <2>2, <2>4, <2>5
  <2>7. WriterEnds({})
    BY Zenon, <2>2, <2>3, <2>6 DEF WriterEnds
  <2> QED BY Zenon, <1>1, <2>7, CallsExit
<1> QED BY Zenon, <1>5, <1>6

=============================================================================
