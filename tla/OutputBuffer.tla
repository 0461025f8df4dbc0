---------------------------- MODULE OutputBuffer ----------------------------
(***************************************************************************)
(* The output ring buffer of one session (internal/session: session.go,    *)
(* coldbuffer.go).  Every PTY read becomes a chunk with the next sequence  *)
(* number.  A chunk is first held raw (hot), then waits for compression    *)
(* (coldPending), then lives in a compressed segment (coldSegments).       *)
(* Compression runs outside the session lock, so the batch being           *)
(* compressed stays in coldPending, visible to resync, until the segment   *)
(* replaces it.  A reconnecting client is replayed the chunks it missed,   *)
(* batch by batch, while all of this goes on.                              *)
(***************************************************************************)
EXTENDS Naturals, Sequences, FiniteSets, SequencesExt, FiniteSetsExt

CONSTANTS
    MaxSeq,         \* bound: chunks the PTY produces
    MaxLen,         \* bound: bytes of a chunk
    MaxClock,       \* bound: the clock stops here
    MaxData,        \* bound: compressed size of a segment
    MaxFlushers,    \* bound: flushColdPending goroutines waiting for the lock
    MaxHotChunks,   \* maxHotOutputChunks (8192)
    MaxHotBytes,    \* maxHotOutputBytes (4 MiB)
    MaxColdBytes,   \* maxColdOutputBytes (32 MiB, compressed)
    SegmentTarget,  \* coldSegmentRawTarget (1 MiB)
    MaxAge,         \* maxOutputBufferAge (72 h)
    FlushAge,       \* coldPendingFlushAge (2 min)
    BatchBytes,     \* maxResyncBatchRawBytes (4 MiB)
    CompressMayFail \* whether compressChunks may return an error

ASSUME OutputBufferConstants ==
    /\ {MaxSeq, MaxLen, MaxData, MaxFlushers, MaxHotChunks, MaxHotBytes, SegmentTarget,
        BatchBytes} \subseteq Nat \ {0}
    /\ {MaxClock, MaxColdBytes, MaxAge, FlushAge} \subseteq Nat
    /\ MaxLen <= MaxHotBytes
    /\ FlushAge <= MaxAge
    /\ CompressMayFail \in BOOLEAN

VARIABLES
    clock,        \* time.Now()
    seq,          \* Session.seq
    hot,          \* outputChunks
    hotBytes,     \* outputBufferBytes
    pending,      \* coldPending
    pendingBytes, \* coldPendingBytes
    segments,     \* coldSegments
    coldBytes,    \* coldBytes
    flushers,     \* flushColdPending calls that have not taken the lock yet
    flusher,      \* who is compressing: coldFlushing is flusher # "none"
    batch,        \* the slice of coldPending it compresses
    phase,        \* resync of a client in handleConn: idle, running or done
    from,         \* the offset it began at: LastOffset + 1
    next,         \* the offset it asks for next
    sent,         \* sequence numbers written to the client
    noticed,      \* "Output was dropped" was sent to the client
    upTo,         \* history: seq when the resync ended
    born,         \* history: born[n] is the time of chunk n
    failed        \* history: sequence numbers dropped by a failed compression

bufferVars == <<hot, hotBytes, pending, pendingBytes, segments, coldBytes>>
flushVars  == <<flushers, flusher, batch>>
resyncVars == <<phase, from, next, sent, noticed, upTo>>
vars == <<clock, seq, bufferVars, flushVars, resyncVars, born, failed>>

\* Who calls flushColdPending: handlePTYOutput (a new goroutine each time) and
\* the manager's cleanup goroutine (synchronously, in EvictStaleOutput).
Callers == {"pty", "cleanup"}

Chunk == [seq : 1 .. MaxSeq, len : 1 .. MaxLen, at : 0 .. MaxClock]

Init ==
    /\ clock = 0
    /\ seq = 0
    /\ hot = <<>> /\ hotBytes = 0
    /\ pending = <<>> /\ pendingBytes = 0
    /\ segments = <<>> /\ coldBytes = 0
    /\ flushers = [g \in Callers |-> 0]
    /\ flusher = "none"
    /\ batch = <<>>
    /\ phase = "idle" /\ from = 1 /\ next = 1 /\ sent = <<>>
    /\ noticed = FALSE /\ upTo = 0
    /\ born = <<>>
    /\ failed = {}

-----------------------------------------------------------------------------
(* Eviction.                                                               *)

\* The sum of a sequence of numbers.
Total(ns) ==
    LET sum[k \in 0 .. Len(ns)] == IF k = 0 THEN 0 ELSE sum[k - 1] + ns[k]
    IN  sum[Len(ns)]

\* The size of chunks, and the compressed size of segments.
Bytes(chunks) == Total([i \in 1 .. Len(chunks) |-> chunks[i].len])
Size(segs) == Total([i \in 1 .. Len(segs) |-> segs[i].data])

\* A sequence's first k elements, and what is left when they are removed.
Take(q, k) == SubSeq(q, 1, k)
Drop(q, k) == SubSeq(q, k + 1, Len(q))

TooOld(at) == clock - at > MaxAge

\* How many elements a loop "while the head satisfies Go" removes from q, where
\* Go(k) speaks of the head when k elements have been removed.
LoopCount(q, Go(_)) == Min({k \in 0 .. Len(q) : k = Len(q) \/ ~Go(k)})

\* Chunks at the head of q that are past the retention limit.  Timestamps grow
\* along a layer, so these are all of them.
Expired(q) == LoopCount(q, LAMBDA k : TooOld(q[k + 1].at))

\* Mutant: retention age is not looked at.
HotEvictedAgeless(q, bytes) ==
    LoopCount(q, LAMBDA k : \/ Len(q) - k > MaxHotChunks
                            \/ bytes - Bytes(Take(q, k)) > MaxHotBytes)

\* The loop of evictHotLocked: the head goes while it is too old or a limit is
\* exceeded by what is left.
HotEvicted(q, bytes) ==
    LoopCount(q, LAMBDA k : \/ TooOld(q[k + 1].at)
                            \/ Len(q) - k > MaxHotChunks
                            \/ bytes - Bytes(Take(q, k)) > MaxHotBytes)

\* evictHotLocked: what leaves hot waits for compression unless it is too old.
EvictHot(q, bytes) ==
    LET k == HotEvicted(q, bytes)
    IN  [hot   |-> Drop(q, k),
         bytes |-> bytes - Bytes(Take(q, k)),
         moved |-> Drop(Take(q, k), Expired(q))]

\* Mutant: expired chunks are evicted under the compressor's feet.
EvictColdPendingAlways(q) == Drop(q, Expired(q))

\* evictColdPendingLocked: the batch being compressed is left alone.
EvictColdPending(q) ==
    IF flusher # "none" THEN q ELSE Drop(q, Expired(q))

\* evictColdLocked: a segment goes when its newest chunk is too old or the
\* compressed size of those left is over the limit.
SegmentsEvicted ==
    LoopCount(segments, LAMBDA k : \/ TooOld(segments[k + 1].newestTime)
                                   \/ coldBytes - Size(Take(segments, k)) > MaxColdBytes)

\* evictOutputChunksLocked, with q the chunks of hot and bytes their size; each
\* intermediate result is bound, so that it is computed once.
EvictOutputChunks(q, bytes) ==
    \E h \in {EvictHot(q, bytes)} :
    \E w \in {pending \o h.moved} :
    \E p \in {EvictColdPending(w)} :
    \E k \in {SegmentsEvicted} :
        /\ hot' = h.hot
        /\ hotBytes' = h.bytes
        /\ pending' = p
        /\ pendingBytes' = pendingBytes + Bytes(h.moved)
                             - Bytes(Take(w, Len(w) - Len(p)))
        /\ segments' = Drop(segments, k)
        /\ coldBytes' = coldBytes - Size(Take(segments, k))

\* Its result: enough is waiting and nobody is compressing.
NeedColdFlush == pendingBytes' >= SegmentTarget /\ flusher = "none"

-----------------------------------------------------------------------------
(* The session.                                                            *)

\* handlePTYOutput, the part under s.mu: number the chunk, append, evict; then
\* start a goroutine to compress if needed (one beyond the bound never runs).
HandlePTYOutput(len) ==
    /\ seq < MaxSeq
    /\ seq' = seq + 1
    /\ born' = Append(born, clock)
    /\ EvictOutputChunks(Append(hot, [seq |-> seq + 1, len |-> len, at |-> clock]),
                         hotBytes + len)
    /\ flushers' = IF NeedColdFlush /\ flushers["pty"] < MaxFlushers
                   THEN [flushers EXCEPT !["pty"] = @ + 1] ELSE flushers
    /\ UNCHANGED <<clock, flusher, batch, resyncVars, failed>>

\* EvictStaleOutput, called by the cleanup ticker for each session; the ticker
\* waits for the flush it makes here.
EvictStaleOutput ==
    /\ flushers["cleanup"] = 0 /\ flusher # "cleanup"
    /\ EvictOutputChunks(hot, hotBytes)
    /\ LET stale == /\ flusher = "none"
                    /\ pending' # <<>>
                    /\ clock - pending'[1].at > FlushAge
       IN  flushers' = IF NeedColdFlush \/ stale
                       THEN [flushers EXCEPT !["cleanup"] = 1] ELSE flushers
    /\ UNCHANGED <<clock, seq, flusher, batch, resyncVars, born, failed>>

\* flushColdPending up to its first Unlock; a no-op if someone is compressing
\* or nothing is waiting.
FlushBegin(g) ==
    /\ flushers[g] > 0
    /\ flushers' = [flushers EXCEPT ![g] = @ - 1]
    /\ IF flusher # "none" \/ pending = <<>>
       THEN UNCHANGED <<flusher, batch>>
       ELSE flusher' = g /\ batch' = pending
    /\ UNCHANGED <<clock, seq, bufferVars, resyncVars, born, failed>>

\* Mutant: chunks appended during the compression go with the batch.
RemoveBatchAndMore ==
    /\ flusher # "none"
    /\ pending' = <<>>
    /\ pendingBytes' = 0
    /\ flusher' = "none"
    /\ batch' = <<>>
    /\ UNCHANGED <<clock, seq, hot, hotBytes, flushers, resyncVars, born>>

\* flushColdPending from its second Lock: the first Len(batch) chunks leave
\* coldPending, whatever they are now.
RemoveBatch ==
    /\ flusher # "none"
    /\ pending' = Drop(pending, Len(batch))
    /\ pendingBytes' = pendingBytes - Bytes(batch)
    /\ flusher' = "none"
    /\ batch' = <<>>
    /\ UNCHANGED <<clock, seq, hot, hotBytes, flushers, resyncVars, born>>

\* compressChunks: the segment made of chunks, compressed to size bytes.
CompressChunks(chunks, size) ==
    [startSeq |-> chunks[1].seq, endSeq |-> Last(chunks).seq,
     newestTime |-> Last(chunks).at, chunks |-> chunks, data |-> size]

FlushEnd(size) ==
    /\ RemoveBatch
    /\ segments' = Append(segments, CompressChunks(batch, size))
    /\ coldBytes' = coldBytes + size
    /\ UNCHANGED failed

\* compressChunks returned an error: the batch is dropped.
FlushFails ==
    /\ CompressMayFail
    /\ RemoveBatch
    /\ failed' = failed \union {batch[i].seq : i \in 1 .. Len(batch)}
    /\ UNCHANGED <<segments, coldBytes>>

Tick ==
    /\ clock < MaxClock
    /\ clock' = clock + 1
    /\ UNCHANGED <<seq, bufferVars, flushVars, resyncVars, born, failed>>

-----------------------------------------------------------------------------
(* Resync of a client.                                                     *)

\* Mutant: the whole of a segment that reaches offset is returned.
ChunksFromAll(chunks, offset) == chunks

\* chunksFrom, and the same selection from the raw layers: chunks ascend, so those
\* from offset on are the ones after those that are older.
ChunksFrom(chunks, offset) ==
    Drop(chunks, LoopCount(chunks, LAMBDA k : chunks[k + 1].seq < offset))

\* Likewise the segments that hold any of them.
SegmentsFrom(offset) ==
    Drop(segments, LoopCount(segments, LAMBDA k : segments[k + 1].endSeq < offset))

\* oldestRetainedSeqLocked: the head of the oldest layer that is not empty; 0
\* if the buffer is empty.
OldestRetainedSeq ==
    IF segments # <<>> THEN segments[1].startSeq
    ELSE IF pending # <<>> THEN pending[1].seq
    ELSE IF hot # <<>> THEN hot[1].seq
    ELSE 0

\* What outputFromOffset may return, in order: each cold segment that reaches
\* offset as one piece, for a reconnecting client only, then each raw chunk.
Pieces(offset) ==
    LET reaching == SegmentsFrom(offset)
        raw == ChunksFrom(pending \o hot, offset)
    IN  (IF offset > 1
         THEN [i \in 1 .. Len(reaching) |-> ChunksFrom(reaching[i].chunks, offset)]
         ELSE <<>>)
          \o [i \in 1 .. Len(raw) |-> <<raw[i]>>]

\* outputFromOffset: pieces are taken until the batch holds BatchBytes.
OutputFromOffset(offset) ==
    LET pieces == Pieces(offset)
        k == LoopCount(pieces,
                 LAMBDA j : Bytes(FlattenSeq(Take(pieces, j))) < BatchBytes)
    IN  FlattenSeq(Take(pieces, k))

\* handleConn starts the resync of a client whose Hello says LastOffset = last.
\* One is enough: a resync changes nothing in the buffer.
StartResync(last) ==
    /\ phase = "idle"
    /\ last \in 0 .. seq
    /\ phase' = "running"
    /\ from' = last + 1 /\ next' = last + 1
    /\ UNCHANGED <<clock, seq, bufferVars, flushVars, sent, noticed, upTo, born, failed>>

\* One turn of its loop: onResync, then writeOutput of each chunk.
ResyncBatch ==
    LET chunks == OutputFromOffset(next)
    IN  /\ phase = "running"
        /\ noticed' = (noticed \/ (next > 1 /\ OldestRetainedSeq > next))
        /\ IF chunks = <<>>
           THEN /\ phase' = "done" /\ upTo' = seq
                /\ UNCHANGED <<next, sent>>
           ELSE /\ sent' = sent \o [i \in 1 .. Len(chunks) |-> chunks[i].seq]
                /\ next' = Last(chunks).seq + 1
                /\ UNCHANGED <<phase, upTo>>
        /\ UNCHANGED <<clock, seq, bufferVars, flushVars, from, born, failed>>

-----------------------------------------------------------------------------

SomeFlushEnds == \E size \in 1 .. MaxData : FlushEnd(size)

Next ==
    \/ \E len \in 1 .. MaxLen : HandlePTYOutput(len)
    \/ EvictStaleOutput
    \/ \E g \in Callers : FlushBegin(g)
    \/ SomeFlushEnds
    \/ FlushFails
    \/ Tick
    \/ \E last \in 0 .. seq : StartResync(last)
    \/ ResyncBatch

Spec == Init /\ [][Next]_vars

\* The cleanup ticker fires again and again, goroutines get to run, compression
\* ends, time passes.
Fairness ==
    /\ WF_vars(EvictStaleOutput)
    /\ WF_vars(SomeFlushEnds \/ FlushFails \/ \E g \in Callers : FlushBegin(g))
    /\ WF_vars(Tick)

FairSpec == Spec /\ Fairness

-----------------------------------------------------------------------------
(* Properties.                                                             *)

\* All that is retained, in the order in which resync reads the layers.
Retained ==
    FlattenSeq([i \in 1 .. Len(segments) |-> segments[i].chunks]) \o pending \o hot

RetainedSeqs == {ch.seq : ch \in ToSet(Retained)}

\* The three layers, read one after the other, are strictly ascending: no chunk
\* is in two layers or out of order, though compression moves chunks while the
\* PTY reader and the ticker append and evict.
LayersInOrder ==
    LET r == Retained
    IN  \A i \in 1 .. Len(r) - 1 : r[i].seq < r[i + 1].seq

\* What flushColdPending removes from coldPending when compression ends is what
\* it compressed: nobody has touched the head in the meantime.
BatchAtHead == IsPrefix(batch, pending)

\* The byte counters that decide eviction never drift from what the layers hold.
Accounting ==
    /\ hotBytes = Bytes(hot)
    /\ pendingBytes = Bytes(pending)
    /\ coldBytes = Size(segments)

\* A chunk leaves the buffer only because it aged out, because the cold layer
\* exceeded its limit (then everything older is gone too), or because its
\* compression failed; in particular it is visible while it is compressed.
NothingVanishes ==
    LET kept == RetainedSeqs
    IN  \A n \in (1 .. seq) \ kept :
            TooOld(born[n]) \/ n \in failed \/ \A m \in kept : n < m

\* A resync sends chunks in order, each once, although batches are read from
\* layers that change between them ...
ResyncInOrder ==
    \A i, j \in 1 .. Len(sent) : i < j => from <= sent[i] /\ sent[i] < sent[j]

\* ... and passes over no chunk that is still there.  (A new client, from = 1,
\* is not sent the cold layer.)
ResyncSkipsNothing ==
    \A n \in RetainedSeqs :
        n < next /\ n >= (IF from > 1 THEN from ELSE sent[1]) => n \in ToSet(sent)

\* A reconnecting client that missed output evicted by the size limit has been
\* told so, whichever batch of its resync the loss precedes.
GapReported ==
    phase = "done" /\ from > 1 =>
        \A n \in from .. upTo :
            \/ n \in ToSet(sent) \union failed
            \/ noticed
            \/ TooOld(born[n])

\* The same for all gaps.  docs/protocol.md: "Gaps that have aged out of the ring
\* buffer are reported via a Status frame".
EveryGapReported ==
    phase = "done" /\ from > 1 =>
        \A n \in from .. upTo : n \in ToSet(sent) \/ noticed

\* Output that stopped is reclaimed: with no further PTY output, the ticker
\* alone removes every raw chunk past its age, also after a compression during
\* which it could not ...
StaleReclaimed ==
    []<>(\A i \in 1 .. Len(pending \o hot) : ~TooOld((pending \o hot)[i].at))

\* ... and every compressed segment.
SegmentsReclaimed ==
    []<>(\A i \in 1 .. Len(segments) : ~TooOld(segments[i].newestTime))

\* The values of the variables.
TypeOK ==
    /\ clock \in 0 .. MaxClock
    /\ seq \in 0 .. MaxSeq
    /\ hot \in Seq(Chunk) /\ pending \in Seq(Chunk) /\ batch \in Seq(Chunk)
    /\ hotBytes \in Nat /\ pendingBytes \in Nat /\ coldBytes \in Nat
    /\ segments \in Seq([startSeq : 1 .. MaxSeq, endSeq : 1 .. MaxSeq,
                         newestTime : 0 .. MaxClock, chunks : Seq(Chunk), data : Nat])
    /\ flushers \in [Callers -> 0 .. MaxFlushers]
    /\ flusher \in Callers \union {"none"}
    /\ phase \in {"idle", "running", "done"}
    /\ from \in 1 .. MaxSeq + 1 /\ next \in 1 .. MaxSeq + 1
    /\ sent \in Seq(1 .. MaxSeq) /\ noticed \in BOOLEAN /\ upTo \in 0 .. MaxSeq
    /\ born \in Seq(0 .. MaxClock) /\ failed \in SUBSET (1 .. MaxSeq)

\* The buffer is what its fields say, whatever the PTY reader, the ticker and a
\* compression that holds no lock do at once: the layers are in order, what is being
\* compressed is at the head of coldPending, and the counters are those of the layers.
StoreConsistent == TypeOK /\ LayersInOrder /\ BatchAtHead /\ Accounting

\* What a resync sends is exact: in order, complete for what is there, and a gap left
\* by the size limit is reported.
ResyncExact == ResyncInOrder /\ ResyncSkipsNothing /\ GapReported

\* What is past its age is reclaimed in the raw layers and in the compressed one,
\* with the ticker alone.
Reclaimed == StaleReclaimed /\ SegmentsReclaimed
=============================================================================
