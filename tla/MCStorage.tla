----------------------------- MODULE MCStorage ------------------------------
(***************************************************************************)
(* Small instances of the three components that decide what the rows on    *)
(* disk are worth: the coalescing of record operations, the bytes of       *)
(* broker payloads, and the embeddings that follow the graph.  Each        *)
(* behaviour is one of one of them.                                        *)
(***************************************************************************)
EXTENDS RecordPersistence, SegmentStore, FiniteSetsExt

CONSTANTS Owners, MaxEvents

VARIABLES setting,
          project, embeddingRoot, embeddingBatch, embeddingDisk, embeddingThread, wake, worker,
          source, touched, events

Embeddings == INSTANCE EmbeddingCatchUp WITH
    ram <- project, pending <- embeddingRoot, batch <- embeddingBatch, disk <- embeddingDisk,
    thread <- embeddingThread

embeddingVars == <<project, embeddingRoot, embeddingBatch, embeddingDisk, embeddingThread, wake,
                   worker, source, touched, events>>
mcVars == <<vars, segmentVars, embeddingVars, setting>>

\* Nested prefixes, siblings under one prefix and an unrelated key.
MCKeys == {<<1>>, <<1, 1>>, <<1, 2>>, <<2>>}

MCInit ==
    /\ Init /\ SegmentInit /\ Embeddings!EmbeddingInit
    /\ setting \in {"coalescing", "segments", "embeddings"}

CoalescingNext == setting = "coalescing" /\ Next /\ UNCHANGED <<segmentVars, embeddingVars, setting>>
SegmentsNext ==
    setting = "segments" /\ SegmentNext /\ UNCHANGED <<vars, embeddingVars, setting>>
EmbeddingsOnly(A) == setting = "embeddings" /\ A /\ UNCHANGED <<vars, segmentVars, setting>>

MCSpec ==
    /\ MCInit
    /\ [][CoalescingNext \/ SegmentsNext \/ EmbeddingsOnly(Embeddings!EmbeddingNext)]_mcVars
    /\ WF_embeddingVars(setting = "embeddings" /\ Embeddings!WorkerNext)
    /\ WF_embeddingVars(setting = "embeddings" /\ Embeddings!ThreadNext)

-----------------------------------------------------------------------------
\* dirty.absorb(other.into_batch()) as the loop of the code runs it: the prefixes of
\* other, then its points (neither loop depends on the order).
AbsorbLoop(d, e) ==
    LET afterPrefixes == FoldSet(LAMBDA p, acc : AbsorbPrefix(acc, p), d, e.prefixes)
        points == {k \in Keys : e.points[k] # Untouched}
    IN  FoldSet(LAMBDA k, acc : AbsorbPoint(acc, k, e.points[k]), afterPrefixes, points)

\* Joining the retained and the pending root in one step is the
\* operation-by-operation absorb the persistence thread performs.
AbsorbAllMatchesLoop ==
    pending # None => AbsorbAll(OrDefault(retained), pending) = AbsorbLoop(OrDefault(retained), pending)

\* A vector that counts as current was made from the current text of its owner.
VectorsMatchSource == Embeddings!VectorsMatchSource

\* The embedding of an owner catches up, unless its metadata changed while it was behind.
OwnersCaughtUp == Embeddings!OwnersCaughtUp
=============================================================================
