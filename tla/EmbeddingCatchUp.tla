-------------------------- MODULE EmbeddingCatchUp --------------------------
(***************************************************************************)
(* How the embeddings of a project catch up with its graph: writes record  *)
(* the owners whose text changed in rows of the same batch, the committed  *)
(* rows wake a worker, and the worker embeds one owner at a time and       *)
(* publishes the vector through the ordered write path, while the graph    *)
(* keeps changing.  Owners are nodes.                                      *)
(***************************************************************************)
EXTENDS Integers, FiniteSets, FiniteSetsExt, Maps

CONSTANTS Owners,       \* node identifiers, 1 .. n
          MaxEvents,    \* graph writes, failures and crashes
          NIL           \* Option::None

VARIABLES ram,          \* the project: graph, vectors, and what is persisted with them
          pending,      \* the root in the persistence mailbox
          batch,        \* the persistence thread's root
          disk,         \* the committed rows and the committed project
          thread,       \* what the persistence thread is at
          wake,         \* tokio's Notify with the worker's future, and wake_pending
          worker,       \* the task of DurableEmbeddingWorker
          source,       \* the state of committed_embedding_owners
          touched,      \* owners whose metadata changed while their vector was behind
          events

embeddingVars == <<ram, pending, batch, disk, thread, wake, worker, source, touched,
                   events>>

SeedRow == 0  \* the key s/<project>; the others are pending owners, in key order
Deleted == 0  \* in a batch, RecordOp::Delete; a row holds a revision

Project == [graph |-> Nothing, vectors |-> Nothing, next_node |-> 1, applied |-> 0, prepared |-> FALSE]
Resting == [at |-> "head", job |-> NIL, loaded |-> NIL, text |-> NIL]
Fresh == [seed |-> {}, held |-> NIL, started |-> FALSE, cursor |-> SeedRow, published |-> NIL]
Asleep == [permit |-> FALSE, future |-> "none", pending |-> FALSE]

EmbeddingInit ==
    /\ ram = Project
    /\ pending = NIL /\ batch = NIL /\ thread = "idle"
    /\ disk = [rows |-> Nothing, ram |-> Project]
    /\ wake = Asleep /\ worker = Resting /\ source = Fresh
    /\ touched = {} /\ events = 0

-----------------------------------------------------------------------------
(* Graph writes.  A node's revision is the index of its last write.        *)

Overlay(f, g) == [x \in DOMAIN f \cup DOMAIN g |-> IF x \in DOMAIN g THEN g[x] ELSE f[x]]

\* The batch of an applied write joins the root in the mailbox.
Publish(rows, project) ==
    /\ ram' = project
    /\ pending' = [rows |-> IF pending = NIL THEN rows ELSE Overlay(pending.rows, rows), ram |-> project]

Row(k, v) == [x \in {k} |-> v]

\* Before the project is prepared it has no profile and records no owners.
OwnerRow(o, v) == IF ram.prepared THEN Row(o, v) ELSE Nothing

Happens == events < MaxEvents /\ events' = events + 1

Write ==
    /\ Happens
    /\ UNCHANGED <<batch, disk, thread, wake, worker, source>>

\* CreateNode, or SetNodeProperty of a field that is part of the text
WriteText(o) ==
    LET index == ram.applied + 1 IN
    /\ Write
    /\ o \in DOMAIN ram.graph \cup {ram.next_node}
    /\ Publish(OwnerRow(o, index),
               [ram EXCEPT !.graph = Put(@, o, [revision |-> index, text |-> index]),
                           !.next_node = IF o = @ THEN @ + 1 ELSE @,
                           !.applied = index])
    /\ touched' = touched \ {o}

DeleteNode(o) ==
    /\ Write
    /\ o \in DOMAIN ram.graph
    /\ Publish(OwnerRow(o, Deleted),
               [ram EXCEPT !.graph = Drop(@, {o}), !.vectors = Drop(@, {o}), !.applied = @ + 1])
    /\ touched' = touched \ {o}

\* The vector covers the state of its owner.
Covers(o) == o \in DOMAIN ram.vectors /\ ram.vectors[o].stamp >= ram.graph[o].revision

\* embedding_freshness_updates: only a vector that is not behind follows.
Freshened(o, index) ==
    IF Covers(o) THEN [ram.vectors EXCEPT ![o].stamp = index] ELSE ram.vectors

\* SetNodeProperty of any other field: no row, a new revision.
WriteMetadata(o) ==
    LET index == ram.applied + 1 IN
    /\ Write
    /\ o \in DOMAIN ram.graph
    /\ Publish(Nothing, [ram EXCEPT !.graph[o].revision = index,
                                    !.vectors = Freshened(o, index),
                                    !.applied = index])
    /\ touched' = IF Covers(o) THEN touched ELSE touched \cup {o}

\* initialize_automatic_semantic: the indexes, the profile and the seed row
Prepared == [ram EXCEPT !.prepared = TRUE, !.applied = @ + 1]

Prepare ==
    /\ ~ram.prepared
    /\ Publish(Row(SeedRow, ram.applied + 1), Prepared)
    /\ UNCHANGED <<batch, disk, thread, wake, worker, source, touched, events>>

-----------------------------------------------------------------------------
(* The persistence thread, which wakes the worker after a commit that put  *)
(* a row.                                                                  *)

TakeBatch ==
    /\ thread = "idle" /\ pending # NIL
    /\ batch' = pending /\ pending' = NIL
    /\ thread' = "commit"
    /\ UNCHANGED <<ram, disk, wake, worker, source, touched, events>>

Puts(rows) == {k \in DOMAIN rows : rows[k] # Deleted}

\* Mutant: a commit leaves the worker to find the rows by itself.
AfterCommitSilent(rows) == "idle"

AfterCommit(rows) == IF Puts(rows) = {} THEN "idle" ELSE "store"

Commit ==
    /\ thread = "commit"
    /\ disk' = [rows |-> Drop(Overlay(disk.rows, batch.rows), DOMAIN batch.rows \ Puts(batch.rows)),
                ram |-> batch.ram]
    /\ thread' = AfterCommit(batch.rows)
    /\ batch' = NIL
    /\ UNCHANGED <<ram, pending, wake, worker, source, touched, events>>

\* wake: the flag first ...
StoreWake ==
    /\ thread = "store"
    /\ wake' = [wake EXCEPT !.pending = TRUE]
    /\ thread' = "notify"
    /\ UNCHANGED <<ram, pending, batch, disk, worker, source, touched, events>>

\* ... then notify_one, which marks the waiting future or leaves a permit.
NotifyOne ==
    /\ thread = "notify"
    /\ wake' = IF wake.future = "waiting" THEN [wake EXCEPT !.future = "notified"]
                                          ELSE [wake EXCEPT !.permit = TRUE]
    /\ thread' = "idle"
    /\ UNCHANGED <<ram, pending, batch, disk, worker, source, touched, events>>

-----------------------------------------------------------------------------
(* The worker: where the next owner comes from.                            *)

\* The future of the last round is dropped, which hands a notification it did not
\* see to the next one; enable takes a permit at once.
Register ==
    /\ worker.at = "head"
    /\ wake' = [wake EXCEPT !.permit = FALSE,
                            !.future = IF @ = "notified" \/ wake.permit THEN "done" ELSE "waiting"]
    /\ worker' = [Resting EXCEPT !.at = "next"]
    /\ UNCHANGED <<ram, pending, batch, disk, thread, source, touched, events>>

Selected(o, revision) ==
    worker' = [Resting EXCEPT !.at = "load", !.job = [owner |-> o, revision |-> revision]]

Scan == worker' = [worker EXCEPT !.at = "scan"]

\* The seed first: owners that are still there, at their revision of now.
NextSeeded ==
    /\ worker.at = "next" /\ source.seed # {}
    /\ LET o == Min(source.seed) IN
       /\ source' = [source EXCEPT !.seed = @ \ {o}]
       /\ IF o \in DOMAIN ram.graph THEN Selected(o, ram.graph[o].revision) ELSE UNCHANGED worker
    /\ UNCHANGED <<ram, pending, batch, disk, thread, wake, touched, events>>

Removed(k, v) == IF k \in DOMAIN disk.rows /\ disk.rows[k] = v THEN Drop(disk.rows, {k}) ELSE disk.rows

\* Then the row of the owner before goes, by remove_if_value, unless its vector
\* was published: then the batch of the vector deletes it.
RetireHeld ==
    /\ worker.at = "next" /\ source.seed = {}
    /\ IF source.held = NIL \/ source.held = source.published
       THEN UNCHANGED disk
       ELSE disk' = [disk EXCEPT !.rows = Removed(source.held[1], source.held[2])]
    /\ source' = [source EXCEPT !.held = NIL]
    /\ Scan
    /\ UNCHANGED <<ram, pending, batch, thread, wake, touched, events>>

\* A failed removal ends the round; the row stays and the hold on it is gone.
RetireFails ==
    /\ worker.at = "next" /\ source.seed = {} /\ source.held # NIL
    /\ Happens
    /\ source' = [source EXCEPT !.held = NIL]
    /\ worker' = Resting
    /\ UNCHANGED <<ram, pending, batch, disk, thread, wake, touched>>

\* A worker starts with all owners of the project, which it prepares if need be.
SeedProject ==
    /\ worker.at = "scan" /\ ~source.started
    /\ IF ram.prepared THEN UNCHANGED <<ram, pending>> ELSE Publish(Row(SeedRow, ram.applied + 1), Prepared)
    /\ source' = [source EXCEPT !.started = TRUE, !.seed = DOMAIN ram.graph]
    /\ worker' = [worker EXCEPT !.at = "next"]
    /\ UNCHANGED <<batch, disk, thread, wake, touched, events>>

After(cursor) == {k \in DOMAIN disk.rows \ {SeedRow} : k > cursor}

\* A seed row comes before the pending owners, and owners come in key order.
NextRow ==
    /\ worker.at = "scan" /\ source.started
    /\ \/ /\ SeedRow \in DOMAIN disk.rows
          /\ source' = [source EXCEPT !.seed = DOMAIN ram.graph, !.held = <<SeedRow, disk.rows[SeedRow]>>]
          /\ worker' = [worker EXCEPT !.at = "next"]
       \/ /\ SeedRow \notin DOMAIN disk.rows /\ After(source.cursor) # {}
          /\ LET o == Min(After(source.cursor)) IN
             /\ source' = [source EXCEPT !.cursor = o, !.held = <<o, disk.rows[o]>>]
             /\ Selected(o, disk.rows[o])
       \/ /\ SeedRow \notin DOMAIN disk.rows /\ After(source.cursor) = {}
          /\ source' = [source EXCEPT !.cursor = SeedRow]
          /\ worker' = [worker EXCEPT !.at = "empty"]
    /\ UNCHANGED <<ram, pending, batch, disk, thread, wake, touched, events>>

AfterEmpty == IF wake.pending THEN "head" ELSE "idle"

\* A row that was committed behind the cursor is found by another pass.
Empty ==
    /\ worker.at = "empty"
    /\ worker' = [worker EXCEPT !.at = AfterEmpty]
    /\ wake' = [wake EXCEPT !.pending = FALSE]
    /\ UNCHANGED <<ram, pending, batch, disk, thread, source, touched, events>>

Notified ==
    /\ worker.at = "idle" /\ wake.future \in {"notified", "done"}
    /\ worker' = Resting
    /\ wake' = [wake EXCEPT !.future = "none"]
    /\ UNCHANGED <<ram, pending, batch, disk, thread, source, touched, events>>

-----------------------------------------------------------------------------
(* process_job.  The project it reads is the live one.                     *)

Revision(o) == IF o \in DOMAIN ram.graph THEN ram.graph[o].revision ELSE NIL
Done == worker' = Resting
job == worker.job

\* load: an owner that has moved on is left to the row of its later revision.
Load ==
    /\ worker.at = "load"
    /\ LET revision == Revision(job.owner) IN
       IF revision \notin {NIL, job.revision} THEN Done
       ELSE worker' = [worker EXCEPT !.at = "text", !.loaded = revision]
    /\ UNCHANGED <<ram, pending, batch, disk, thread, wake, source, touched, events>>

\* The text is read after the revision; a current vector needs none.
ReadText ==
    /\ worker.at = "text"
    /\ LET o == job.owner
           current == o \in DOMAIN ram.vectors /\ ram.vectors[o].stamp >= job.revision
       IN worker' = IF current \/ ~ram.prepared THEN Resting
                    ELSE [worker EXCEPT !.at = "encode",
                                        !.text = IF o \in DOMAIN ram.graph THEN ram.graph[o].text ELSE NIL]
    /\ UNCHANGED <<ram, pending, batch, disk, thread, wake, source, touched, events>>

\* Inference, and after it is_current and the check of publish: the owner is still at
\* the revision that was loaded.
Encode ==
    /\ worker.at = "encode"
    /\ IF Revision(job.owner) # worker.loaded THEN Done ELSE worker' = [worker EXCEPT !.at = "publish"]
    /\ UNCHANGED <<ram, pending, batch, disk, thread, wake, source, touched, events>>

\* A failed inference is tried again from the load.
EncodeFails ==
    /\ worker.at = "encode"
    /\ Happens
    /\ worker' = [worker EXCEPT !.at = "load", !.loaded = NIL, !.text = NIL]
    /\ UNCHANGED <<ram, pending, batch, disk, thread, wake, source, touched>>

\* A check followed by an unfenced commit.
UnchangedAssumed(o) == TRUE

\* The ordered write validates the owner's revision again.
Unchanged(o) == Revision(o) = worker.loaded

PublishVector ==
    /\ worker.at = "publish"
    /\ LET o == job.owner
           vectors == IF worker.text = NIL THEN Drop(ram.vectors, {o})
                      ELSE Put(ram.vectors, o, [stamp |-> job.revision, text |-> worker.text])
       IN IF Unchanged(o)
          THEN /\ Publish(Row(o, Deleted), [ram EXCEPT !.vectors = vectors, !.applied = @ + 1])
               /\ source' = [source EXCEPT !.published = <<o, job.revision>>]
          ELSE UNCHANGED <<ram, pending, source>>
    /\ Done
    /\ UNCHANGED <<batch, disk, thread, wake, touched, events>>

-----------------------------------------------------------------------------
Crash ==
    /\ Happens
    /\ ram' = disk.ram
    /\ pending' = NIL /\ batch' = NIL /\ thread' = "idle"
    /\ wake' = Asleep /\ worker' = Resting /\ source' = Fresh
    /\ touched' = {}
    /\ UNCHANGED disk

WorkerNext ==
    \/ Register \/ NextSeeded \/ RetireHeld \/ SeedProject \/ NextRow \/ Empty \/ Notified
    \/ Load \/ ReadText \/ Encode \/ PublishVector

ThreadNext == TakeBatch \/ Commit \/ StoreWake \/ NotifyOne

EmbeddingNext ==
    \/ \E o \in Owners : WriteText(o) \/ DeleteNode(o) \/ WriteMetadata(o)
    \/ Prepare
    \/ ThreadNext
    \/ WorkerNext \/ RetireFails \/ EncodeFails
    \/ Crash

EmbeddingFairness == WF_embeddingVars(WorkerNext) /\ WF_embeddingVars(ThreadNext)

EmbeddingSpec == EmbeddingInit /\ [][EmbeddingNext]_embeddingVars /\ EmbeddingFairness

-----------------------------------------------------------------------------
Behind(o) == ram.prepared /\ o \in DOMAIN ram.graph /\ ~Covers(o)

(* A vector that counts as current was made from the current text, although *)
(* text and revision are read one after the other and inference runs while *)
(* the graph changes; and no vector outlives its owner.                     *)
VectorsMatchSource ==
    \A o \in DOMAIN ram.vectors :
       /\ o \in DOMAIN ram.graph
       /\ Covers(o) => ram.vectors[o].text = ram.graph[o].text

(* The embedding of every owner of a prepared project catches up: no wake   *)
(* is lost between the worker's last look and its wait, no row is skipped   *)
(* behind the cursor, removed for a newer one, or lost in a crash between   *)
(* publication and commit.                                                  *)
EveryOwnerCaughtUp == \A o \in Owners : Behind(o) ~> ~Behind(o)

(* The same, but for owners whose metadata changed while they were behind.  *)
OwnersCaughtUp == \A o \in Owners : Behind(o) ~> (~Behind(o) \/ o \in touched)
=============================================================================
