---------------------------- MODULE SegmentStore ----------------------------
(***************************************************************************)
(* Where the bytes of broker payloads are: staged in RAM until the batch   *)
(* that stores them is committed, on disk from then on, and read by        *)
(* threads that take neither the writer's nor the persistence thread's     *)
(* side.  A payload file is named by its contents, so publications of      *)
(* equal bytes share one.                                                  *)
(***************************************************************************)
EXTENDS Integers, FiniteSets, Functions, Maps

CONSTANTS Contents,    \* the payload bytes of a publication, and so its file
          Readers,
          MaxSegments, \* publications
          MaxCrashes,
          NIL          \* Option::None

VARIABLES live,         \* BrokerState::payload_segments: segment -> file
          staged,       \* PendingPayloads::payloads: file -> claims
          publications, \* PendingPayloads::publications
          writer,       \* the publication between its staging and its batch, or NIL
          applied,      \* the last applied index
          mailbox,      \* the root in the persistence mailbox
          batch,        \* the persistence thread's root
          redb,         \* the committed rows
          thread,       \* what the persistence thread is at
          readers,
          issued, crashes

segmentVars == <<live, staged, publications, writer, applied, mailbox, batch, redb, thread,
                 readers, issued, crashes>>

Empty == [rows |-> Nothing, live |-> Nothing, index |-> 0]
Idle == [at |-> "idle", segment |-> 0, file |-> NIL]

SegmentInit ==
    /\ live = Nothing /\ staged = Nothing /\ publications = {} /\ writer = NIL /\ applied = 0
    /\ mailbox = Empty /\ batch = Empty
    /\ redb = [rows |-> {}, live |-> Nothing, index |-> 0]
    /\ thread = "idle"
    /\ readers = [r \in Readers |-> Idle]
    /\ issued = 0 /\ crashes = 0

\* A batch carries the rows it writes or deletes and the metadata as of its index.
Joined(root, rows, segments, index) ==
    [rows |-> [f \in DOMAIN root.rows \cup DOMAIN rows |-> IF f \in DOMAIN rows THEN rows[f] ELSE root.rows[f]],
     live |-> segments, index |-> index]

-----------------------------------------------------------------------------
(* The apply of a publication, under the state lock.  Staging, capturing   *)
(* and binding each take the lock on the staging area for themselves.      *)

\* write_immutable_streaming_indexed, and the segment's metadata with it
WriteImmutable(f) ==
    /\ writer = NIL /\ issued < MaxSegments
    /\ staged' = Put(staged, f, IF f \in DOMAIN staged
                                THEN [staged[f] EXCEPT !.unbound = @ + 1]
                                ELSE [unbound |-> 1, latest_bound |-> NIL])
    /\ issued' = issued + 1
    /\ live' = Put(live, issued', f)
    /\ writer' = [at |-> "capture", file |-> f]
    /\ UNCHANGED <<publications, applied, mailbox, batch, redb, thread, readers, crashes>>

\* The batch of the publication goes to the mailbox.
Publish(rows) ==
    /\ applied' = applied + 1
    /\ mailbox' = Joined(mailbox, rows, live, applied')
    /\ writer' = NIL

\* An error here leaves the node with a failed apply.
Refuse == writer' = [writer EXCEPT !.at = "failed"] /\ UNCHANGED <<applied, mailbox>>

\* pending_operations: a payload that is not staged gets no rows ...
Capture ==
    /\ writer # NIL /\ writer.at = "capture"
    /\ IF writer.file \notin DOMAIN staged THEN Publish(Nothing)
       ELSE IF staged[writer.file].unbound = 0 THEN Refuse
       ELSE writer' = [writer EXCEPT !.at = "bind"] /\ UNCHANGED <<applied, mailbox>>
    /\ UNCHANGED <<live, staged, publications, batch, redb, thread, readers, issued, crashes>>

\* ... and a staged one is bound to the index whose batch writes it.  The index
\* is the highest so far, so it always replaces the one before.
Bind ==
    /\ writer # NIL /\ writer.at = "bind"
    /\ LET f == writer.file IN
       IF f \notin DOMAIN staged \/ staged[f].unbound = 0
       THEN Refuse /\ UNCHANGED <<staged, publications>>
       ELSE /\ staged' = [staged EXCEPT ![f] = [unbound |-> @.unbound - 1, latest_bound |-> applied + 1]]
            /\ publications' = (publications \ {<<staged[f].latest_bound, f>>}) \cup {<<applied + 1, f>>}
            /\ Publish([x \in {f} |-> "Put"])
    /\ UNCHANGED <<live, batch, redb, thread, readers, issued, crashes>>

Retired(gone, left) == Range([s \in gone |-> live[s]]) \ Range(left)

\* A command that removes segments deletes the files no other segment has.
Retire(gone) ==
    /\ writer = NIL /\ gone # {}
    /\ live' = Drop(live, gone)
    /\ applied' = applied + 1
    /\ mailbox' = Joined(mailbox, [f \in Retired(gone, live') |-> "Delete"], live', applied')
    /\ UNCHANGED <<staged, publications, writer, batch, redb, thread, readers, issued, crashes>>

-----------------------------------------------------------------------------
(* The persistence thread.                                                 *)

TakeMailbox ==
    /\ thread = "idle" /\ mailbox.index > 0
    /\ batch' = Joined(batch, mailbox.rows, mailbox.live, mailbox.index)
    /\ mailbox' = Empty
    /\ thread' = "commit"
    /\ UNCHANGED <<live, staged, publications, writer, applied, redb, readers, issued, crashes>>

Commit ==
    /\ thread = "commit"
    /\ redb' = [rows |-> (redb.rows \ DOMAIN batch.rows)
                         \cup {f \in DOMAIN batch.rows : batch.rows[f] = "Put"},
                live |-> batch.live, index |-> batch.index]
    /\ thread' = "release"
    /\ UNCHANGED <<live, staged, publications, writer, applied, mailbox, batch, readers, issued, crashes>>

\* A failed commit is tried again, with what was published since.
CommitFails ==
    /\ thread = "commit"
    /\ mailbox.index > 0
    /\ thread' = "idle"
    /\ UNCHANGED <<live, staged, publications, writer, applied, mailbox, batch, redb, readers, issued, crashes>>

\* A release that forgets the publications still to be bound.
ReleasedUnbound(f) == Drop(staged, {f})

Released(f) ==
    IF staged[f].unbound = 0 THEN Drop(staged, {f}) ELSE [staged EXCEPT ![f].latest_bound = NIL]

\* release_committed_through, which takes the lock once for each publication
Release ==
    /\ thread = "release"
    /\ LET covered == {p \in publications : p[1] <= batch.index} IN
       IF covered = {}
       THEN thread' = "idle" /\ batch' = Empty /\ UNCHANGED <<staged, publications>>
       ELSE \E p \in covered :
              /\ \A other \in covered : p[1] <= other[1]
              /\ publications' = publications \ {p}
              /\ staged' = Released(p[2])
              /\ UNCHANGED <<thread, batch>>
    /\ UNCHANGED <<live, writer, applied, mailbox, redb, readers, issued, crashes>>

-----------------------------------------------------------------------------
(* A read: the descriptors are taken from the broker's tables, then each   *)
(* payload is pinned, from the staging area or from a snapshot of the disk.*)

Descriptor(r, s) ==
    /\ readers[r].at = "idle" /\ s \in DOMAIN live
    /\ readers' = [readers EXCEPT ![r] = [at |-> "pins", segment |-> s, file |-> live[s]]]
    /\ UNCHANGED <<live, staged, publications, writer, applied, mailbox, batch, redb, thread, issued, crashes>>

Goes(r, to) == readers' = [readers EXCEPT ![r].at = to]

\* A pin that looks at the disk before it looks at the staging area.
PinStepDiskFirst(r) ==
    LET f == readers[r].file
        shared == \E other \in Readers : readers[other].at = "pinned" /\ readers[other].file = f
    IN \/ readers[r].at = "pins" /\ Goes(r, IF shared THEN "pinned" ELSE "disk")
       \/ readers[r].at = "disk" /\ Goes(r, IF f \in redb.rows THEN "pinned" ELSE "staged")
       \/ readers[r].at = "staged" /\ Goes(r, IF f \in DOMAIN staged THEN "pinned" ELSE "failed")

PinStep(r) ==
    LET f == readers[r].file
        shared == \E other \in Readers : readers[other].at = "pinned" /\ readers[other].file = f
    IN \/ readers[r].at = "pins" /\ Goes(r, IF shared THEN "pinned" ELSE "staged")
       \/ readers[r].at = "staged" /\ Goes(r, IF f \in DOMAIN staged THEN "pinned" ELSE "disk")
       \/ readers[r].at = "disk" /\ Goes(r, IF f \in redb.rows THEN "pinned" ELSE "failed")

Pin(r) ==
    /\ PinStep(r)
    /\ UNCHANGED <<live, staged, publications, writer, applied, mailbox, batch, redb, thread, issued, crashes>>

\* The read is over and its pin dropped, or it reports its error.
Unpin(r) ==
    /\ readers[r].at \in {"pinned", "failed"}
    /\ readers' = [readers EXCEPT ![r] = Idle]
    /\ UNCHANGED <<live, staged, publications, writer, applied, mailbox, batch, redb, thread, issued, crashes>>

Crash ==
    /\ crashes < MaxCrashes
    /\ crashes' = crashes + 1
    /\ live' = redb.live /\ applied' = redb.index
    /\ staged' = Nothing /\ publications' = {} /\ writer' = NIL
    /\ mailbox' = Empty /\ batch' = Empty /\ thread' = "idle"
    /\ readers' = [r \in Readers |-> Idle]
    /\ UNCHANGED <<redb, issued>>

SegmentNext ==
    \/ \E f \in Contents : WriteImmutable(f)
    \/ Capture \/ Bind
    \/ \E gone \in SUBSET DOMAIN live : Retire(gone)
    \/ TakeMailbox \/ Commit \/ CommitFails \/ Release
    \/ \E r \in Readers : (\E s \in DOMAIN live : Descriptor(r, s)) \/ Pin(r) \/ Unpin(r)
    \/ Crash

SegmentSpec == SegmentInit /\ [][SegmentNext]_segmentVars

-----------------------------------------------------------------------------
(* A read fails only when its segment was removed since the read learned   *)
(* of it: between staging, commit, release and deletion there is no moment *)
(* at which the bytes of a live segment are neither staged nor on disk for *)
(* a reader that looks at the one and then at the other.                   *)
ReadsFindLive ==
    \A r \in Readers : readers[r].at = "failed" => readers[r].segment \notin DOMAIN live

(* Bytes are kept as long as they are needed and no longer.  After a crash *)
(* the disk holds the files its metadata names and no others; a staged     *)
(* file is held by a publication to come or by one not yet released, which *)
(* publications lists once; a publication never finds its claim taken.     *)
BytesKeptExactly ==
    /\ redb.rows = Range(redb.live)
    /\ publications = {<<staged[f].latest_bound, f>> : f \in {x \in DOMAIN staged : staged[x].latest_bound # NIL}}
    /\ \A f \in DOMAIN staged :
          \/ staged[f].unbound > 0
          \/ staged[f].latest_bound # NIL /\ (thread # "release" => staged[f].latest_bound > redb.index)
    /\ writer # NIL => writer.at # "failed"
=============================================================================
