# IronGraph in TLA+

IronGraph keeps a graph and a message broker in RAM and writes them to disk
behind the caller's back. Every mutation goes through one ordered writer thread;
its records are coalesced and a second thread commits them about a second later.
These modules model that write path from the call of `WriteRuntime::write` to the
commit in the record store, what hangs on it (broker payloads, embeddings,
explicit transactions), and the broker with its AMQP connections and consumer
groups. TLC checks small instances; TLAPS proves the central invariants for every
instance.

## The system and its parts

A query reaches `Database` (`crates/server/src/server/database.rs`) over HTTP,
Bolt or in process. Reads run on the RAM state. A mutation is planned on it and
handed to `WriteRuntime` (`crates/server/src/engine/runtime.rs`):

1. the **writer thread** (`standalone_writer_loop`) takes messages from a bounded
   channel, drains up to `MAX_WRITE_BATCH` writes, reserves an index for each,
   applies them in order, answers the callers and *publishes* the records of the
   batch to
2. the **mailbox** (`PersistenceMailbox`), where `DirtyRecords::absorb` coalesces
   them with what is already pending, and from which
3. the **persistence thread** (`standalone_persistence_loop`) takes the whole root
   when its window ends, when someone flushes or on shutdown, and commits it to
4. the **record store** (`crates/storage/src/records.rs`), in one transaction with
   the bookmark of its last position.

A flush or shutdown travels through the writer channel behind the writes before
it and becomes a *barrier* in the mailbox, answered when the disk has caught up.
A failed batch is retained and retried only on request, joined with what was
published since.

Three kinds of state live along this path:

- An **explicit transaction** keeps an overlay, a record in an admission registry
  and a resource with its own lock; a maintenance task expires it.
- The bytes of a **broker payload** are staged in RAM by content, bound to the
  index of the mutation that publishes them, written by its batch and released
  after the commit; readers look for them in both places.
- The **embedding worker** follows rows that graph writes leave in their batches,
  runs inference for one owner at a time and publishes the vector as an ordinary
  mutation.

The **broker** is a state machine inside the same database: its commands are
mutations. AMQP connections and Kafka-style consumer groups are tasks that submit
such commands and read its tables.

| Part | Source (under `crates/`) | Module |
|---|---|---|
| Record coalescing | `server/src/engine/runtime.rs`, `storage/src/records.rs` | `DirtyRecords`, `RecordPersistence` |
| Ordered write runtime | `server/src/engine/{runtime,backend,write_types}.rs` | `WriteRuntime`, `DurableLog` |
| Explicit transactions | `server/src/server/database.rs` | `Transactions` |
| Segment staging | `storage/src/segment.rs`, `server/src/server/database.rs` | `SegmentStore` |
| Embedding catch-up | `server/src/server/{embedding_jobs,database}.rs`, `database/persistence.rs` | `EmbeddingCatchUp` |
| Broker queues | `server/src/broker/{engine,concurrent}.rs` | `BrokerQueues`, `Maps`, `TopicMatch` |
| AMQP connections | `server/src/broker/queue.rs` | `AmqpConnections` (extends `BrokerQueues`) |
| Topics and consumer groups | `server/src/broker/{engine,stream}.rs` | `ConsumerGroups`, `LagBalance` |

`PROJECT.json` lists every part of the repository with its status, the definition
by definition correspondence with the code, and the hazards this code is exposed
to.

## The modules

**DirtyRecords** has the data of coalescing: `Put`, `Delete` and `DeletePrefix`
over byte-string keys, `absorb` (`AbsorbPoint`, `AbsorbPrefix`), `into_batch`
followed by `absorb` (`AbsorbAll`) and the store's commit (`CommitBatch`: prefix
deletions first, then points). A root is `[points, prefixes]`; `points` maps a key
to a value, to `Absent` (a deletion) or to `Untouched`. `absorb` finds a covering
prefix by looking at one neighbour in the ordered set, and so does the model.

**RecordPersistence** moves such roots through `pending`, the root being merged
outside the lock, `retained` and the in-flight batch, with commit, failure, retry
and restart. `ram` is the reference: the rows the operations give, one by one.

**WriteRuntime** is the runtime itself. Writes are numbers in channel order, and a
root is `[first, last, rows]`: the two fields of its span the code trusts, and the
positions that really went into it, which the code never compares with the span.
`wpc`, `ppc` and `cpc` are the places of the writer thread, the persistence thread
and the closer; a step is what happens between two lock operations, so `publish`
is two steps (take the root, merge and put it back) and settling waiters is
separate from taking them. Modelled outcomes: expiry before dispatch, full and
refused reservations, pipelined and exclusive reservation, a failed apply, an
apply that reports no span, a panic of the backend that unwinds the writer thread
(`WriterPanics`), an I/O error before and after the commit, crash and restart,
`shutdown`, `Drop`, a dropped `shutdown` future, and a `Drop` that cannot spawn
its thread. `reply` is the writer's answer; a caller may have timed out before.

**DurableLog** is what the write path promises: RAM takes positions one at a time,
the disk holds a prefix of them that only grows, `Ok` of a flush or shutdown
promises only what the disk holds, and a crash cuts RAM back to the disk.
`WriteRuntime` implements it with `recorded` (published or still with the writer),
`diskBookmark` and the highest promised position.

**Transactions** has one place `pc[t]` per owner, the resource (`lifecycle`,
`terminal`, `accounted`), the registry (`records`, `bytes`, `pin`, `finalizing`
and the totals `encoded_bytes`, `pins`) and `sweep`, the rest of the list the
maintenance task goes through with the registry lock held. `ensure_active` is
split where the code unlocks. `try_terminate` uses `try_lock`; when the owner
holds the lock it leaves a request that the owner finds after its emission. One
batch accounts for one byte above the minimum. The registry of the running server
has no limits and its connection counts are kept exactly like the pins; both are
left out.

**SegmentStore** follows payload bytes. `staged` and `publications` are the
fields of `PendingPayloads`; a staged file counts its unbound claims and knows the
latest index it is bound to. Applying a publication is three steps, because the
staging area has a lock of its own: stage (`WriteImmutable`), find the claim
(`Capture`), bind it and hand the batch to the mailbox (`Bind`). `Retire` stands
for every command that removes segments; it deletes the files no other segment
has. The persistence thread commits and then releases one publication per lock
acquisition. A reader takes a descriptor from the tables and pins it: an existing
pin, the staging area, the disk, in this order and in separate steps.

**EmbeddingCatchUp** has the nodes of one project. A write of text records a row
with the owner's new revision in its batch; a write of a metadata field records
none, and moves the vector's stamp along only if the vector was current
(`Freshened`). After a commit with such rows the persistence thread sets
`wake_pending` and calls `notify_one`. The worker registers its future, asks for
the next owner (seed owners, then the removal of the last row, then rows in key
order from its cursor), loads, reads the text, encodes, and publishes through a
mutation that validates the owner's revision again. `source` is the state of
`committed_embedding_owners`, `wake` the flag and tokio's `Notify` (external,
modelled from its documented use: a permit, or a notified future). The activation
of the embedding profile and the creation of the indexes are one step (`Prepare`).

**BrokerQueues** is `BrokerStateMachine::apply` for everything but topics and
groups, one action per command, since commands run under the database's apply
lock. A queue has a stream of references; references share payloads, payloads
share segments, and an owner with deliveries out has a lease. `Retain` expires
leases and then trims each stream by settlement, age and size. The wall clock may
step back. One byte per record; a binding exists exactly when it matches.
**TopicMatch** is `topic_match`, the dynamic program over routing keys.

**AmqpConnections** adds the connection tasks. A handler submits its broker
commands one at a time and awaits each; `agenda` is what is left of it, so other
connections and maintenance come between any two of its commands. Consumers,
gets, `basic.qos`, settlement of one or all tags with the prefix optimisation of
`settle_tags`, cancel, channel errors and closes, lease renewal, an orderly end and
a loss without cleanup are actions. The delivery pump works in rounds
(`PumpRound`): it first computes how much each consumer may take, from its own
counter or, with `prefetch_global`, from the budget of the channel, and then serves
one request per step. Which consumers are due, and in which order, is any choice;
this stands for `channel.flow`, the polling intervals and the rotating cursor. A
delivery keeps the stream it came from, and `abandoned` what a refused cleanup left
out; both are history.

**ConsumerGroups** has topics with partition logs and the group commands. Reads
are not under the apply lock, so a `SyncGroup` begins and ends in two steps and a
client may read in between. `clients` is what each member's client knows. A leader
may propose any assignment; the broker installs it unread and replaces it by its
own balance if it can read every member's metadata. Which prefix of a log `Retain`
trims is any. **LagBalance** is
`balance_partitions_by_lag`.

## What TLC checks

| Run | Instance | Distinct states | Shows |
|---|---|---|---|
| `storage` | coalescing: 4 nested keys, 4 operations; segments: 2 contents, 2 readers, 2 publications, a crash; embeddings: 2 owners, 3 events (writes, failures, crashes), fair | 915,392 | ordered replay; bytes found and kept exactly; embeddings sound and caught up |
| `runtime_safety` | 3 writes, batch limit 2, a flusher, a closer, a crash, a panic, all disk failures | 1,777,506 | durability, order, implementation of `DurableLog` |
| `runtime_answers` | 2 writes, all failures, fair | 64,404 | every call answered, every close ends, the window persists |
| `transactions_safety` | 2 transactions, 2 pins, 2 runs each, fair | 405,632 | accounting, commit against expiry, release |
| `broker_queues` | three settings: delivery, routing, lifetime | 174,564 | what `validate_state` requires, and what a command may never do |
| `amqp_connections` | two connections of one channel; one of two channels; two consumers of one | 346,320 | settlement, prefetch, ownership across awaits |
| `broker_recovery` | queues, streams and groups on one clock, fair | 5,541 | what a lost client held comes back |
| `consumer_groups` | moving and standing topics, 2 members, 2 protocols; all small inputs of the algorithms | 1,084,929 | generations, offsets, assignments, `topic_match`, the lag balance |
| `runtime_stranded`, `embedding_metadata`, `stream_next`, `groups_state` | | violation | the findings below |

A run with several *settings* starts in one of several small instances that share
the modules and the properties; a behaviour never leaves its setting.

- *storage*. `DiskPlusRootsIsRam`: committing the roots oldest first on top of the
  disk gives `ram`, wherever the roots are. `PrefixesAntichain` is why the
  one-neighbour lookup is enough. `AbsorbAllMatchesLoop` ties the one-step merge
  to the loop of the code. `ReadsFindLive`: a pin fails only if its segment was
  removed since the read learned of it. `BytesKeptExactly`: the disk holds the
  files its metadata names and no others, at every commit, so also after a crash;
  staged bytes have a claim or an unreleased publication; no publication loses its
  claim. `VectorsMatchSource`: a vector whose stamp covers its owner was made from
  the owner's present text. `OwnersCaughtUp`: an owner that is behind is caught up
  with, unless its metadata changed meanwhile (see the findings).
- *runtime_safety*. `RuntimeInv` (the proofs' invariant: types, the gapless chain
  of roots and the place of every call; see below), `DurablePrefix` (the disk holds exactly the positions
  its bookmark covers), `FlushCoversEarlierWrites` (an `Ok` is never wrong, even after
  a later crash), `WritesInOrder`, `ShutdownIsComplete`, `ImplementsDurableLog`.
- *runtime_answers*. `EveryCallAnswered` and `CloseTerminates`, with one exception
  in the statement: if the writer failed and nobody joins it, nobody closes the
  mailbox, and the persistence thread stays parked (`Leaked`). `WindowPersists`:
  while no error is open, what is published reaches the disk unasked.
- *transactions_safety*. `AccountingExact` (totals are the sums over the records),
  `CommittedWasNotExpired`, `LifecycleInv` (the proofs' invariant; it includes that
  what is retained is accounted and that the defensive branches are dead),
  `TerminalIsFinal`, `ExpiredIsReleased`. Since maintenance gives up when it
  cannot have the lifecycle lock, an owner that holds it again and again may evade
  every sweep; the property says so.
- *broker_queues*. `QueuesInv` (the proofs' invariant) is what `validate_state`
  requires on restore and what the commands rely on. `RedeliveredExact`: a message
  is announced as redelivered exactly when it was handed out before.
  `ReferencesStable`: no command requeues a settled reference, moves a message to
  another offset or passes a delivery to another owner. `SettledNotDelivered`:
  what was settled or purged is not handed out from a classic queue: the number of
  its hand-outs, which is history, does not grow.
  `RetentionKeepsDeliveries`: a delivery that is out is erased only when its lease
  expired in the same command. `OffsetsMonotone`.
- *amqp_connections*. `SettlesOnlyNamed`: a delivery becomes final only in a
  settlement whose client named it, although `settle_tags` computes its prefix
  groups once and then awaits several commands, leases expire and messages are
  handed out again. A name is a queue and a tag: if the queue was deleted and
  declared again, a tag of the old one names the delivery of that tag in the new
  one, and the property says so. `HeldByChannel`: between two handlers, what is out
  to a connection is held by one of its channels, unless a cleanup left it behind:
  `cleanup_channel` ignores a refused settlement and with it all later deliveries of
  the channel (`abandoned`), which then stay out until the connection ends or its
  lease expires. TLC reaches both exceptions: without them the properties fail.
  `PrefetchRespected`: what the pump hands out for acknowledgement stays within the
  prefetch of the consumer or of the channel, whatever `basic.qos` changed, and the
  counter `outstanding` of a consumer is always the number of deliveries it holds.
- *broker_recovery*. `GoneReturnsDeliveries`: what a vanished connection held comes
  back through its lease. `EveryMessageSettled`: with one consumer that stays and
  acknowledges automatically, a message is settled and its payload reclaimed,
  provided that again and again no open connection holds it. The condition is
  needed: a connection renews the lease of what it holds, and a client that never
  settles keeps a message as long as it stays (without the condition TLC finds that
  behaviour). Requeuing is bounded by the tags of a channel; a client that requeued
  for ever could win every race for the message. `StreamDelivered`: a stream
  consumer that starts at the first record, or at a timestamp that has passed, is
  handed every record, or loses its channel when retention has trimmed the stream
  past it.
  `GoneMemberExpires`: a dead group member expires although the others keep the
  group busy.
- *consumer_groups*. `CommittedWithinLog` (committed offsets name what exists),
  `AssignmentsSound` (the table has an entry for every member or none; and where the
  broker reads every member's metadata, what it hands out exists, is subscribed to
  and has one owner, while topics come and go and whatever leaders propose; where it
  does not, the leader's proposal stands as it is, unchecked), `GenerationFences` (who
  is a member, who leads and which protocol is spoken changes only with the
  generation), `OwnersExclusive` (no partition has two owners in one generation,
  while lags stand still and no leader proposes). `MatchIsSplit` and
  `BalanceIsFair` compare `topic_match` and `balance_partitions_by_lag` with
  reference definitions: keys of up to four words, and five partitions of two
  topics with lags up to three for two members.

### Bounds

Bounds are constants of the modules or guards named in them. Three writes with a
batch limit of two give a full batch, a remainder and a write behind a flush; the
positions of a root can then have a hole, a duplicate or a wrong order. Four
operations reach every order of puts, deletions and prefix deletions around a
merge that runs outside the lock. Two contents, two readers and two publications
let one content be published while its earlier file is retired, committed and
released. Two owners and three events (writes of text or metadata, failures,
crashes) let an owner change during its own inference and behind the cursor. In the broker the interesting
cases need two of everything that competes (owners, references, members,
partitions) and a clock that passes one expiry. Each setting of *broker_queues*
also bounds the references it appends: two for deliveries and for the lives of
queues, three for routing, where a dead letter adds one; and a reference is handed
out at most twice. In *amqp_connections* a channel has one to three delivery tags
(`MaxTags`): three let a connection lose a batch to its lease and be handed one of
the messages again. In *broker_recovery* time never ends: it is counted from now,
and passing it brings every deadline nearer; a lease lasts two such steps, so that
renewing it in time is possible. Symmetry is used for owners, queues and consumer
tags in the safety runs of the broker only; no liveness run uses it. Crashes
are bounded to one, and by the events in the embeddings.

### Fairness

- *Runtime*: both threads and the timed wait are weakly fair, as threads that are
  not starved. The closer is strongly fair: its call needs room in the writer
  channel, which tokio hands out in order of arrival. Callers, crashes and the disk
  are not fair; the disk may fail for ever.
- *Transactions*: the maintenance task is weakly fair. A call that has begun is
  strongly fair, since it waits on mutexes that are handed on. Owners need not call.
- *Embeddings*: the worker task and the persistence thread are weakly fair.
  Failures of inference, of publication and of the disk count as events,
  which are bounded.
- *Broker*: handlers and commands finish and the clock runs (weak). `Retain` waits
  for the apply lock among commands, and the delivery tick is one ready branch of
  a `tokio::select!`, which picks at random; both are strongly fair. The connection
  that stays subscribes in the end, and the memory budget admits its deliveries.
  Renewing, settling and leaving are not fair: clients need not do anything.

## What TLAPS proves

The proofs hold for every value of the constants under the `ASSUME`s of the
component modules, which TLC evaluates on the runs that extend them. The listed theorems and
their arguments:

- **StorageProofs**, coalescing: `CoalescingIsOrdered` and `RootsAreAntichains`.
  The disk with its roots equals RAM only if every root is *ordered* (its prefixes
  an antichain, its points not contradicting them), which is the strengthening.
  The core is algebra: absorbing an operation into a root and committing equals
  committing the root and applying the operation, and merging two roots equals
  committing them in turn.
- **StorageProofs**, segments: `LiveBytesAreFound` and `BytesAreKept`, for any contents,
  readers, publications and crashes, given that `NIL` is no index and no
  publication (`NilIsDistinct`; a model value in the run). Neither property is
  inductive: a reader that has left the staging area relies on what the disk will
  hold. `SegmentInv` says what disk, batch and root lead to (exactly the files the
  segments of their index name), that every row still to be written has its bytes
  staged under a claim of the right index, and that a reader who is sent to the
  disk finds there what nothing on its way deletes while the segment lives.
- **WriteRuntimeChain**, **WriteRuntimeCalls**, **WriteRuntimeProofs**: every safety
  property of *runtime_safety*, the refinement included. `DurablePrefix`
  (`DiskHoldsPrefix`) is not inductive: that the disk stays a prefix depends on the
  spans of all roots on the way. `ChainInv` adds that the roots form a gapless chain
  from the bookmark over the retained and in-flight root and the mailbox to the
  writer's batch, and that each place holds a root exactly where its thread's
  program point allows. `FlushCoversEarlierWrites`, `WritesInOrder` and
  `ShutdownIsComplete` (`FlushCoversWrites`, `WritesKeepOrder`,
  `ShutdownLeavesNothing`) need `CallsInv` on top of it: where each unanswered call
  is (batch, deque, channel, deferred, waiter, being settled), in one place only;
  that the writes wait in the order they were sent and behind all that have a
  position; that a waiter's target covers every write before its call; and what the
  ends of the two threads leave behind. `RuntimeInv` is the conjunction, with the
  types, and is inductive (`RuntimeIsSafe`). From it follows the refinement
  `RuntimeImplementsLog`: a step is a step of `DurableLog` or leaves `recorded`, the
  bookmark and the highest promised position alone. Chain has the roots and the
  types, Calls one lemma per step about the calls, Proofs the closer, the crash and
  the theorems. Further theorems state that `publish` is never refused and that a
  retry is refused only after an error that followed its commit.
- **TransactionsProofs**: `TransactionLifecycle`, `CommitExcludesExpiry` and
  `TerminationIsFinal`. The invariant relates the owner's place, the lifecycle, the
  terminal reason and the registry record; with it a commit that went ahead held
  the lifecycle lock after the last moment at which expiry could win.
- **BrokerQueuesCommands**, **BrokerQueuesProofs**:
  `QueuesAreRestorable`, `RetentionIsSafe`, `OffsetsNeverReused`,
  `ReferencesAreStable`, `SettledIsNotDelivered` and `RedeliveryIsExact`, for any
  queues, owners, messages and limits. `QueuesInv` is
  inductive as a whole: types; each stream owned by one queue; payloads and
  segments exactly those some reference needs; byte counts exact; deliveries only
  in classic queues and with an owner; a lease for exactly the owners with
  deliveries out; bindings and registrations only of what exists. The first
  module has facts about the helpers (dropping, trimming, settling and releasing
  references) and a lemma for most commands; the second has publishing,
  rejecting and retention and combines them. The last three theorems rest on one
  relation between the references of a stream before and after any command
  (`ReferencesMove`): what a reference may become, that a new one has not
  been handed out, and that a new stream is empty. `RedeliveredExact` speaks of
  ready references only and is not inductive; `HonestInv` adds that a delivery that
  is out was handed out, so that marking it redelivered on its return is right.
- **ConsumerGroupsProofs**: `OffsetsWithinLogs`, `GenerationsFence` and
  `EntriesAreTotal` (`CommittedWithinLog`, `GenerationFences` and the first half of
  `AssignmentsSound`), given that `NIL` is no pair of a group and a member. `GroupsInv` is
  the invariant: logs and groups are well formed, and a `SyncGroup` that is being
  applied is still acceptable when it ends. Without this conjunct (`ApplyingOK`)
  the table could be written for members that have gone. Every command changes
  the groups along one relation (`GroupsFollow`): no group is lost, each stays
  well formed, and a change of members, leader or protocol has a new generation.

Only model-checked: all liveness (fairness is out of the prover's reach);
`AccountingExact` (sums over a finite set need an induction over data), and for
the same reason `AbsorbAllMatchesLoop`, `MatchIsSplit`, `BalanceIsFair`, `OwnersExclusive`
and the rest of `AssignmentsSound`: that what the table hands out exists, is
subscribed to and is handed out once depends on what the fold over the partitions
computes.
Everything about `EmbeddingCatchUp` and `AmqpConnections` is model-checked too.

## Findings

Each is a run that TLC must find violated, with the line of the repository it
disagrees with quoted in `PROJECT.json`.

- `runtime_stranded`: a mutation published while a flush-triggered retry is being
  persisted gets no window. `publish` arms none while an error is open, and
  clearing the error does not look at what was published meanwhile; the mutation
  waits until another write, flush or close comes.
- `embedding_metadata`: a change of metadata while its owner is pending drops the
  owner. The job's revision no longer matches, its row is removed as done, and
  the owner is not embedded until its text changes or the server restarts.
- `stream_next`: a stream consumer that starts at `next`, the default, resolves its
  start to the end of the log at every poll and is never handed anything.
- `groups_state`: a group that was emptied and joined again has no leader, and
  after `LeaveGroup` a group may keep a protocol that is no longer the selected
  one. `validate_state` refuses to restore either.

Other behaviour met while modelling, which no line of the repository contradicts:
a purged record of a stream queue stays readable by stream consumers; a settlement
that arrives after its queue was deleted and declared again applies to the new
queue; a stream consumer that starts at the last record resolves it anew until its
first delivery, and may pass over what was last when it attached; the registrations of a connection that vanished, and of a channel that
closed, are not collected with its leases; a deadline below one millisecond is
read as none. The 4/3 bound of the lag balance needs equal subscriptions, and
with moving lags, or a proposal read while it is applied, two members of one
generation may both own a partition. A pin whose segment was retired since
reports corrupt storage where a fetch below the log start reports expiry.

## Not modelled, and why

- *Embeddings*: relationship owners and the change of their scope, the windows of
  a long text, several projects in one worker, and the stop of the worker when
  inference panics. The handshake and the fence are the same for them.
- *Runtime*: request results (looked up and stored in the single writer step that
  applies the mutation; their byte and count limits are data) and write admission
  (the running server constructs it without limits; the release of an admission is
  part of the answer of its write). In both the interleaving is the runtime's.
- *Record store*: chunking, checksums, scans and opening of the file; the commit is
  atomic as the underlying engine promises.
- *Transactions*: a fence that no longer matches when a call begins
  (`verify_transaction_fence`): the write runtime is gone while the server shuts
  down. It finishes the transaction and leaves its owner idle with a closed
  lifecycle, which `LifecycleInv` excludes: the theorems on transactions speak of a
  server whose runtime is up.
- *AMQP*: handshake, frames, publisher confirms, the size of the memory budget, and a
  queue that is declared again as another kind under its consumers. Only the starts
  named above are part of a run; `last` and `offset` are in the model.
  *Kafka*: produce and fetch encoding, version negotiation, producer state.
- *Broker persistence*: which rows a command touched; `validate_state`, run on
  restore, is the source of `QueuesInv` and `GroupStateValid`.
- *Bootstrap, credentials, file system helpers*: sequential file handling without
  concurrent state of their own.
- *Graph, indexes, Cypher, query execution, GPU, the embedding model, protocols and
  clients*: pure computation, encoding or forwarding over unbounded data, which a
  small instance says little about.

## Running

In this directory, with TLC and the community modules on the path:

    tlc -workers 2 -config MCStorage.cfg MCStorage
    tlapm BrokerQueuesProofs.tla

`PROJECT.json` names module and configuration of each run. The longest run takes
about two minutes on two workers. A mutant is an operator next to the definition
it replaces, in a comment called "Mutant"; with it the property it is listed for
fails.
