---------------------------- MODULE UnixFanoutProofs ----------------------------
(***************************************************************************)
(* Proofs about a session's output on its way to the terminals over two    *)
(* paths, for any clients, any output and any capacity of the queues: each *)
(* chunk is shown at most once and in order, whichever path it comes by,   *)
(* and no gap is shown once the renderer knows of the QUIC path.           *)
(***************************************************************************)
EXTENDS UnixFanout, Integers, SequenceTheorems, TLAPS

Numbers == 0 .. MaxSeq
Frame == [kind : {"OUTPUT", "OUTPUT_DROPPED", "SESSION_CLOSED", "none"}, seq : Numbers]
Reader == [pc : {"read", "quic", "uds", "ended"}, seq : Numbers, clients : SUBSET Clients,
           ids : SUBSET Clients]
Backlog == [pc : {"none", "copy", "send", "shrink", "restore", "ended"}, chunks : Seq(Numbers),
            width : Int]

-----------------------------------------------------------------------------
(* The inductive invariant.                                                *)

SessType ==
    /\ seq \in Numbers /\ hot \in 1 .. seq + 1 /\ reader \in Reader /\ quicReady \in BOOLEAN
    /\ clients \subseteq Clients /\ ids \subseteq Clients /\ active \subseteq Clients

QueueType ==
    /\ outCh \in [Clients -> Seq(Frame)] /\ frame \in [Clients -> Frame]
    /\ notices \in [Clients -> Nat] /\ backlog \in [Clients -> Backlog] /\ cols \in Int

TermType ==
    /\ quicCh \in [Clients -> Seq(Numbers)] /\ lastOffset \in [Clients -> Numbers]
    /\ dials \in [Clients -> 0 .. MaxDials]
    /\ ct \in [Clients -> {"none", "seeded", "started", "set"}]
    /\ screen \in [Clients -> Seq(Numbers)]

\* The reader has yet to pass the newest chunk on.
Pending == reader.pc \in {"quic", "uds"}

\* A queue has its capacity, and there is at most one notice for a chunk fanned out.
QueueInv(c) ==
    /\ Len(outCh[c]) <= OutCap
    /\ notices[c] + (IF Pending THEN 1 ELSE 0) <= seq

\* The newest chunk that has been put on the way over QUIC.
Reached(c) == IF quicCh[c] = <<>> THEN lastOffset[c] ELSE quicCh[c][Len(quicCh[c])]

\* What is on the way over QUIC goes on without a gap from the newest offset received,
\* and up to the newest chunk, or the one before if that is still to be sent.
RouteInv(c) ==
    /\ ct[c] # "none" => c \in ids
    /\ c \in active => ct[c] # "none"
    /\ quicCh[c] # <<>> => quicCh[c][1] <= lastOffset[c] + 1
    /\ \A i \in 1 .. Len(quicCh[c]) - 1 : quicCh[c][i + 1] <= quicCh[c][i] + 1
    /\ c \in active /\ ~(reader.pc = "quic" /\ c \in reader.ids) => seq <= Reached(c)
    /\ c \in active => seq <= Reached(c) + 1

\* What the transport has received is on the screen, or older than what is.
ScreenInv(c) == Ascending(screen[c]) /\ lastOffset[c] <= RenderedSeq(c)

ReaderInv == Pending => reader.seq = seq

QueuesInv == \A c \in Clients : QueueInv(c)
RoutesInv == \A c \in Clients : RouteInv(c)
ScreensInv == \A c \in Clients : ScreenInv(c)

IInv == SessType /\ QueueType /\ TermType /\ ReaderInv /\ QueuesInv /\ RoutesInv /\ ScreensInv

\* What NoGapOnceOnQUIC says of a step.
NoGap ==
    \A c \in Clients :
        ct[c] = "set" /\ Len(screen'[c]) > Len(screen[c])
            => screen'[c][Len(screen'[c])] = RenderedSeq(c) + 1

-----------------------------------------------------------------------------
(* Runs of chunks, queues and frames.                                      *)

LEMMA ChunksRun ==
    ASSUME FanoutConstants, NEW a \in Nat, NEW b \in Numbers
    PROVE  /\ Chunks(a, b) \in Seq(Numbers)
           /\ Len(Chunks(a, b)) = IF a > b THEN 0 ELSE b - a + 1
           /\ \A i \in 1 .. Len(Chunks(a, b)) : Chunks(a, b)[i] = a + i - 1
<1> DEFINE n == IF a > b THEN 0 ELSE b - a + 1
           r == [i \in 1 .. n |-> a + i - 1]
<1>1. n \in Nat /\ Chunks(a, b) = r
  BY DEF Chunks, Numbers
<1>2. \A i \in 1 .. n : a + i - 1 \in Numbers
  BY DEF Numbers, FanoutConstants
<1> HIDE DEF n
<1>3. r \in Seq(Numbers) /\ Len(r) = n /\ \A i \in 1 .. n : r[i] = a + i - 1
  BY <1>1, <1>2
<1> QED
  BY <1>1, <1>3 DEF n

LEMMA FramesTyped ==
    /\ \A n \in Numbers : Output(n) \in Frame
    /\ FanoutConstants => Dropped \in Frame /\ Closed \in Frame /\ NoFrame \in Frame
  BY DEF Output, Dropped, Closed, NoFrame, Frame, Numbers, FanoutConstants

LEMMA IdleTyped ==
    /\ \A p \in {"none", "shrink", "ended"}, w \in Int : [Idle EXCEPT !.pc = p, !.width = w] \in Backlog
    /\ [Idle EXCEPT !.pc = "ended"] \in Backlog /\ Idle \in Backlog
<1>1. \A e \in Seq(Numbers) : [pc |-> "none", chunks |-> e, width |-> 0] \in Backlog
  BY DEF Backlog
<1>2. <<>> \in Seq(Numbers)
  OBVIOUS
<1>3. Idle \in Backlog
  BY <1>1, <1>2, Zenon DEF Idle
<1> QED
  BY <1>3 DEF Backlog

\* A frame is queued where there is room.
LEMMA QueueGrows ==
    ASSUME FanoutConstants, NEW q \in Seq(Frame), NEW f \in Frame, Len(q) < OutCap
    PROVE  Append(q, f) \in Seq(Frame) /\ Len(Append(q, f)) <= OutCap
<1>1. Append(q, f) \in Seq(Frame) /\ Len(Append(q, f)) = Len(q) + 1 /\ Len(q) \in Nat
  BY AppendProperties, LenProperties
<1> QED
  BY <1>1 DEF FanoutConstants

LEMMA OfferFits ==
    ASSUME FanoutConstants, QueueType, NEW c \in Clients, NEW f \in Frame, Len(outCh[c]) <= OutCap
    PROVE  Offer(c, f) \in Seq(Frame) /\ Len(Offer(c, f)) <= OutCap
<1>1. outCh[c] \in Seq(Frame)
  BY DEF QueueType
<1> QED
  BY <1>1, QueueGrows DEF Offer

LEMMA QueueShrinks ==
    ASSUME NEW F, NEW q \in Seq(F), q # <<>>
    PROVE  /\ Head(q) \in F /\ Head(q) = q[1] /\ Tail(q) \in Seq(F) /\ Len(Tail(q)) = Len(q) - 1
           /\ \A i \in 1 .. Len(q) - 1 : Tail(q)[i] = q[i + 1]
           /\ Len(q) \in Nat \ {0}
  BY HeadTailProperties, LenProperties, EmptySeq

LEMMA LastTyped ==
    ASSUME NEW F, NEW q \in Seq(F), q # <<>>
    PROVE  Len(q) \in Nat \ {0} /\ q[Len(q)] \in F
<1>1. Len(q) \in Nat \ {0}
  BY LenProperties, EmptySeq
<1>2. Len(q) \in 1 .. Len(q) /\ DOMAIN q = 1 .. Len(q)
  BY <1>1
<1> QED
  BY <1>1, <1>2, ElementOfSeq

\* The newest of a sequence of chunks, and each of them, is a number.
LEMMA NumbersTyped ==
    ASSUME FanoutConstants, NEW q \in Seq(Numbers)
    PROVE  /\ Len(q) \in Nat /\ (q = <<>> <=> Len(q) = 0)
           /\ (IF q = <<>> THEN 0 ELSE q[Len(q)]) \in Numbers
           /\ \A i \in 1 .. Len(q) : q[i] \in Numbers /\ q[i] \in Nat
           /\ Numbers \subseteq Nat /\ 0 \in Numbers
<1>1. Numbers \subseteq Nat /\ 0 \in Numbers
  BY DEF Numbers, FanoutConstants
<1>2. Len(q) \in Nat /\ (q = <<>> <=> Len(q) = 0)
  BY LenProperties, EmptySeq
<1>3. ASSUME NEW i \in 1 .. Len(q) PROVE q[i] \in Numbers
  BY ElementOfSeq
<1>4. Len(q) # 0 => Len(q) \in 1 .. Len(q)
  BY <1>2
<1> QED
  BY <1>1, <1>2, <1>3, <1>4

LEMMA RenderedTyped ==
    ASSUME FanoutConstants, screen \in [Clients -> Seq(Numbers)], NEW c \in Clients
    PROVE  RenderedSeq(c) \in Numbers /\ RenderedSeq(c) \in Nat /\ Len(screen[c]) \in Nat
<1>1. screen[c] \in Seq(Numbers)
  OBVIOUS
<1> QED
  BY <1>1, NumbersTyped DEF RenderedSeq

-----------------------------------------------------------------------------
(* Steps that leave a part alone.                                          *)

LEMMA ScreensStay ==
    ASSUME IInv, UNCHANGED <<screen, lastOffset>>
    PROVE  ScreensInv' /\ NoGap
<1>1. ScreensInv'
  BY DEF IInv, ScreensInv, ScreenInv, RenderedSeq
<1>2. \A c \in Clients : Len(screen[c]) \in Nat
  BY LenProperties DEF IInv, TermType
<1>3. \A c \in Clients : ~(Len(screen'[c]) > Len(screen[c]))
  BY <1>2
<1> QED
  BY <1>1, <1>3 DEF NoGap

\* Nothing moves on the QUIC path or the screens.
LEMMA PathsStay ==
    ASSUME IInv, UNCHANGED <<seq, reader, ct, quicCh, lastOffset, dials, screen>>,
           ids \subseteq ids', active' \subseteq active
    PROVE  TermType' /\ ReaderInv' /\ RoutesInv' /\ ScreensInv' /\ NoGap
<1>1. TermType' /\ ReaderInv'
  BY DEF IInv, TermType, ReaderInv, Pending
<1>2. RoutesInv'
  BY DEF IInv, RoutesInv, RouteInv, Reached
<1>3. ScreensInv' /\ NoGap
  BY ScreensStay
<1> QED
  BY <1>1, <1>2, <1>3

LEMMA QueuesStay ==
    ASSUME IInv, UNCHANGED <<seq, reader, outCh, notices>>
    PROVE  QueuesInv'
  BY DEF IInv, QueuesInv, QueueInv, Pending

-----------------------------------------------------------------------------
(* The server's goroutines.                                                *)

\* Attach, the backlog's copy, the redraw and resizes.
LEMMA AttachKeeps ==
    ASSUME FanoutConstants, IInv, NEW c \in Clients,
           \/ AttachClient(c) \/ CopyBacklog(c) \/ ReadWidth(c) \/ Shrink(c) \/ Restore(c)
           \/ ClientResize(c)
    PROVE  IInv' /\ NoGap
<1>1. UNCHANGED <<seq, hot, reader, quicReady, ids, outCh, notices, frame, quicVars, termVars>>
  BY DEF AttachClient, CopyBacklog, ReadWidth, Shrink, Restore, ClientResize, sessVars, outVars
<1>2. clients' \subseteq Clients
  BY DEF AttachClient, CopyBacklog, ReadWidth, Shrink, Restore, ClientResize, sessVars,
         IInv, SessType
<1>3. SessType'
  BY <1>1, <1>2 DEF IInv, SessType, quicVars
<1>4. backlog[c] \in Backlog /\ cols \in Int /\ seq \in Numbers /\ hot \in Nat
  BY DEF IInv, QueueType, SessType
<1>5. cols' \in Int
  <2>1. \A w \in Int : Resize(w) => cols' \in Int
    BY <1>4 DEF Resize
  <2>2. \A w \in Widths : w \in Int
    BY DEF FanoutConstants
  <2>3. backlog[c].width \in Int /\ backlog[c].width - 1 \in Int
    BY <1>4 DEF Backlog
  <2> QED
    BY <1>4, <2>1, <2>2, <2>3
    DEF AttachClient, CopyBacklog, ReadWidth, Shrink, Restore, ClientResize, sizeVars
<1>6. backlog' = backlog \/ \E b \in Backlog : backlog' = [backlog EXCEPT ![c] = b]
  <2>1. CASE AttachClient(c)
    <3>1. backlog' = [backlog EXCEPT ![c] = [backlog[c] EXCEPT !.pc = "copy"]]
      BY <2>1 DEF AttachClient, IInv, QueueType
    <3>2. [backlog[c] EXCEPT !.pc = "copy"] \in Backlog
      BY <1>4 DEF Backlog
    <3> QED
      BY <3>1, <3>2
  <2>2. CASE CopyBacklog(c)
    <3> DEFINE b == [backlog[c] EXCEPT !.pc = "send", !.chunks = Chunks(hot, seq)]
    <3>1. backlog' = [backlog EXCEPT ![c] = b]
      BY <1>4, <2>2 DEF CopyBacklog, IInv, QueueType, Backlog
    <3>2. Chunks(hot, seq) \in Seq(Numbers)
      BY <1>4, ChunksRun
    <3>3. b \in Backlog
      BY <1>4, <3>2 DEF Backlog
    <3> QED
      BY <3>1, <3>3
  <2>3. CASE ReadWidth(c)
    <3> DEFINE x == IF reader.pc = "ended" THEN "ended" ELSE "shrink"
               b == [Idle EXCEPT !.pc = x, !.width = cols]
    <3>1. backlog' = [backlog EXCEPT ![c] = b]
      BY <2>3 DEF ReadWidth
    <3>2. b \in Backlog
      BY <1>4, IdleTyped
    <3> QED
      BY <3>1, <3>2
  <2>4. CASE Shrink(c)
    <3>1. backlog' = [backlog EXCEPT ![c] = [backlog[c] EXCEPT !.pc = "restore"]]
      BY <2>4 DEF Shrink, IInv, QueueType
    <3>2. [backlog[c] EXCEPT !.pc = "restore"] \in Backlog
      BY <1>4 DEF Backlog
    <3> QED
      BY <3>1, <3>2
  <2>5. CASE Restore(c)
    <3>1. [Idle EXCEPT !.pc = "ended"] \in Backlog
      BY <1>4, IdleTyped
    <3> QED
      BY <2>5, <3>1 DEF Restore
  <2>6. CASE ClientResize(c)
    BY <2>6 DEF ClientResize
  <2> QED
    BY <2>1, <2>2, <2>3, <2>4, <2>5, <2>6
<1>7. QueueType'
  <2>1. backlog' \in [Clients -> Backlog]
    BY <1>6 DEF IInv, QueueType
  <2> QED
    BY <1>1, <1>5, <2>1 DEF IInv, QueueType
<1>8. QueuesInv'
  BY <1>1, QueuesStay
<1>9. TermType' /\ ReaderInv' /\ RoutesInv' /\ ScreensInv' /\ NoGap
  BY <1>1, PathsStay DEF quicVars, termVars
<1> QED
  BY <1>3, <1>7, <1>8, <1>9 DEF IInv

\* The queue's two ends: a frame is offered, or the writer takes one; a write fails; the
\* handler goes.
LEMMA QueueStepsKeep ==
    ASSUME FanoutConstants, IInv, NEW c \in Clients,
           \/ SendOutputDroppedNotification(c) \/ SendBacklog(c) \/ WriterSelects(c)
           \/ WriteFails(c) \/ DetachClient(c) \/ CloseConn(c) \/ AwaitWriter(c)
    PROVE  IInv' /\ NoGap
<1>1. UNCHANGED <<seq, hot, reader, quicReady, ids, cols, quicVars, termVars>>
  BY DEF SendOutputDroppedNotification, SendBacklog, WriterSelects, WriteFails, DetachClient,
         CloseConn, AwaitWriter, sessVars, sizeVars
<1>2. clients' \subseteq Clients
  BY DEF SendOutputDroppedNotification, SendBacklog, WriterSelects, WriteFails, DetachClient,
         CloseConn, AwaitWriter, sessVars, IInv, SessType
<1>3. SessType'
  BY <1>1, <1>2 DEF IInv, SessType, quicVars
<1>4. /\ outCh[c] \in Seq(Frame) /\ Len(outCh[c]) <= OutCap /\ backlog[c] \in Backlog
      /\ notices[c] \in Nat /\ frame[c] \in Frame /\ backlog[c].chunks \in Seq(Numbers)
  BY DEF IInv, QueueType, QueuesInv, QueueInv, Backlog
<1>5. \E q \in Seq(Frame), f \in Frame, b \in Backlog, n \in {notices[c], notices[c] - 1} :
        /\ Len(q) <= OutCap /\ n \in Nat
        /\ outCh' = [outCh EXCEPT ![c] = q] /\ frame' = [frame EXCEPT ![c] = f]
        /\ backlog' = [backlog EXCEPT ![c] = b] /\ notices' = [notices EXCEPT ![c] = n]
  <2>0. /\ outCh = [outCh EXCEPT ![c] = outCh[c]] /\ frame = [frame EXCEPT ![c] = frame[c]]
        /\ backlog = [backlog EXCEPT ![c] = backlog[c]]
        /\ notices = [notices EXCEPT ![c] = notices[c]]
    BY DEF IInv, QueueType
  <2>1. CASE SendOutputDroppedNotification(c)
    <3>1. Offer(c, Dropped) \in Seq(Frame) /\ Len(Offer(c, Dropped)) <= OutCap
      BY <1>4, FramesTyped, OfferFits DEF IInv
    <3>2. notices[c] - 1 \in Nat /\ notices' = [notices EXCEPT ![c] = notices[c] - 1]
      BY <1>4, <2>1 DEF SendOutputDroppedNotification
    <3>3. UNCHANGED <<frame, backlog>>
      BY <2>1 DEF SendOutputDroppedNotification
    <3>4. PICK q \in {Offer(c, Dropped), outCh[c]} : outCh' = [outCh EXCEPT ![c] = q]
      BY <2>0, <2>1 DEF SendOutputDroppedNotification
    <3> QED
      BY <1>4, <2>0, <3>1, <3>2, <3>3, <3>4
  <2>2. CASE SendBacklog(c)
    <3>0. UNCHANGED <<frame, notices>> /\ backlog[c].chunks # <<>>
      BY <2>2 DEF SendBacklog
    <3>1. CASE /\ Len(outCh[c]) < OutCap
               /\ outCh' = [outCh EXCEPT ![c] = Append(@, Output(Head(backlog[c].chunks)))]
               /\ backlog' = [backlog EXCEPT ![c].chunks = Tail(@)]
      <4>1. Head(backlog[c].chunks) \in Numbers /\ Tail(backlog[c].chunks) \in Seq(Numbers)
        BY <1>4, <3>0, QueueShrinks
      <4>2. Output(Head(backlog[c].chunks)) \in Frame
        BY <4>1, FramesTyped
      <4> DEFINE q == Append(outCh[c], Output(Head(backlog[c].chunks)))
                 b == [backlog[c] EXCEPT !.chunks = Tail(backlog[c].chunks)]
      <4>3. q \in Seq(Frame) /\ Len(q) <= OutCap
        BY <1>4, <3>1, <4>2, QueueGrows
      <4>4. b \in Backlog
        BY <1>4, <4>1 DEF Backlog
      <4>5. outCh' = [outCh EXCEPT ![c] = q] /\ backlog' = [backlog EXCEPT ![c] = b]
        BY <3>1 DEF IInv, QueueType
      <4> HIDE DEF q, b
      <4> QED
        BY <1>4, <2>0, <3>0, <4>3, <4>4, <4>5
    <3>2. CASE backlog' = [backlog EXCEPT ![c] = [Idle EXCEPT !.pc = "ended"]] /\ UNCHANGED outVars
      <4>1. [Idle EXCEPT !.pc = "ended"] \in Backlog
        BY IdleTyped
      <4> QED
        BY <1>4, <2>0, <3>0, <3>2, <4>1 DEF outVars
    <3> QED
      BY <2>2, <3>1, <3>2 DEF SendBacklog, outVars
  <2>3. CASE WriterSelects(c)
    <3>0. UNCHANGED <<notices, backlog>>
      BY <2>3 DEF WriterSelects
    <3>1. CASE /\ outCh[c] # <<>> /\ frame' = [frame EXCEPT ![c] = Head(outCh[c])]
               /\ outCh' = [outCh EXCEPT ![c] = Tail(@)]
      <4>1. /\ Head(outCh[c]) \in Frame /\ Tail(outCh[c]) \in Seq(Frame)
            /\ Len(Tail(outCh[c])) = Len(outCh[c]) - 1 /\ Len(outCh[c]) \in Nat
        BY <1>4, <3>1, QueueShrinks
      <4>2. Len(Tail(outCh[c])) <= OutCap
        BY <1>4, <4>1 DEF FanoutConstants
      <4>3. outCh' = [outCh EXCEPT ![c] = Tail(outCh[c])]
        BY <3>1
      <4> QED
        BY <1>4, <2>0, <3>0, <3>1, <4>1, <4>2, <4>3
    <3>2. CASE UNCHANGED <<outCh, frame>>
      BY <1>4, <2>0, <3>0, <3>2
    <3> QED
      BY <2>3, <3>1, <3>2 DEF WriterSelects
  <2>4. CASE WriteFails(c)
    <3>1. UNCHANGED <<outCh, notices, backlog>> /\ frame' = [frame EXCEPT ![c] = NoFrame]
      BY <2>4 DEF WriteFails
    <3> QED
      BY <1>4, <2>0, <3>1, FramesTyped
  <2>5. CASE DetachClient(c) \/ CloseConn(c) \/ AwaitWriter(c)
    <3>1. UNCHANGED <<outCh, notices, backlog, frame>>
      BY <2>5 DEF DetachClient, CloseConn, AwaitWriter, outVars
    <3> QED
      BY <1>4, <2>0, <3>1
  <2> QED
    BY <2>1, <2>2, <2>3, <2>4, <2>5
<1>6. PICK q \in Seq(Frame), f \in Frame, b \in Backlog, n \in {notices[c], notices[c] - 1} :
        /\ Len(q) <= OutCap /\ n \in Nat
        /\ outCh' = [outCh EXCEPT ![c] = q] /\ frame' = [frame EXCEPT ![c] = f]
        /\ backlog' = [backlog EXCEPT ![c] = b] /\ notices' = [notices EXCEPT ![c] = n]
  BY <1>5
<1>7. QueueType'
  BY <1>1, <1>6 DEF IInv, QueueType
<1>8. QueuesInv'
  <2> SUFFICES ASSUME NEW d \in Clients PROVE QueueInv(d)'
    BY DEF QueuesInv
  <2> DEFINE more == IF Pending THEN 1 ELSE 0
  <2>1. QueueInv(d) /\ more' = more /\ notices[d] \in Nat /\ seq \in Nat /\ more \in {0, 1}
    BY <1>1 DEF IInv, QueuesInv, QueueType, SessType, Pending, Numbers
  <2>2. Len(outCh'[d]) <= OutCap
    BY <1>6, <2>1 DEF QueueInv, IInv, QueueType
  <2>3. notices'[d] \in {notices[d], notices[d] - 1}
    BY <1>6 DEF IInv, QueueType
  <2>4. notices[d] + more <= seq
    BY <2>1 DEF QueueInv
  <2> HIDE DEF more
  <2>5. notices'[d] + more <= seq
    BY <2>1, <2>3, <2>4
  <2> QED
    BY <1>1, <2>1, <2>2, <2>5 DEF QueueInv, more
<1>9. TermType' /\ ReaderInv' /\ RoutesInv' /\ ScreensInv' /\ NoGap
  BY <1>1, PathsStay DEF quicVars, termVars
<1> QED
  BY <1>3, <1>7, <1>8, <1>9 DEF IInv

-----------------------------------------------------------------------------
(* The PTY reader.                                                         *)

\* The chunk is numbered: every client with a connection is among those it is sent to.
LEMMA AppendOutputKeeps == FanoutConstants /\ IInv /\ AppendOutput => IInv' /\ NoGap
<1> SUFFICES ASSUME FanoutConstants, IInv, AppendOutput PROVE IInv' /\ NoGap
  OBVIOUS
<1>1. /\ seq' = seq + 1 /\ seq \in Nat /\ seq + 1 \in Numbers /\ ~Pending /\ Pending'
      /\ reader' = [pc |-> "quic", seq |-> seq + 1, clients |-> clients, ids |-> ids]
      /\ UNCHANGED <<quicReady, clients, ids, outVars, backlog, cols, quicVars, termVars>>
  BY DEF AppendOutput, IInv, SessType, Numbers, Pending, FanoutConstants, sizeVars
<1>2. SessType'
  <2>1. hot' \in 1 .. seq' + 1
    BY <1>1 DEF AppendOutput, IInv, SessType
  <2>2. reader' \in Reader
    BY <1>1 DEF Reader, IInv, SessType
  <2> QED
    BY <1>1, <2>1, <2>2 DEF IInv, SessType, quicVars
<1>3. QueueType' /\ TermType' /\ ReaderInv'
  BY <1>1 DEF IInv, QueueType, TermType, ReaderInv, outVars, quicVars, termVars
<1>4. QueuesInv'
  <2> SUFFICES ASSUME NEW c \in Clients PROVE QueueInv(c)'
    BY DEF QueuesInv
  <2>1. Len(outCh[c]) <= OutCap /\ notices[c] \in Nat /\ notices[c] + 0 <= seq
    BY <1>1 DEF IInv, QueuesInv, QueueInv, QueueType
  <2>2. notices[c] + 1 <= seq + 1
    BY <1>1, <2>1
  <2> QED
    BY <1>1, <2>1, <2>2 DEF QueueInv, outVars
<1>5. RoutesInv'
  <2> SUFFICES ASSUME NEW c \in Clients PROVE RouteInv(c)'
    BY DEF RoutesInv
  <2>1. RouteInv(c) /\ UNCHANGED <<ct, ids, active, quicCh, lastOffset>>
    BY <1>1 DEF IInv, RoutesInv, quicVars
  <2>2. c \in active => seq <= Reached(c) /\ c \in ids
    BY <2>1, <1>1 DEF RouteInv, Pending
  <2>3. Reached(c) \in Nat
    <3>1. quicCh[c] \in Seq(Numbers) /\ lastOffset[c] \in Numbers /\ Numbers \subseteq Nat
      BY DEF IInv, TermType, Numbers
    <3>2. quicCh[c] # <<>> => quicCh[c][Len(quicCh[c])] \in Numbers
      BY <3>1, LastTyped
    <3> QED
      BY <3>1, <3>2 DEF Reached
  <2>4. c \in active => seq' <= Reached(c) + 1
    BY <1>1, <2>2, <2>3
  <2>5. reader'.pc = "quic" /\ reader'.ids = ids
    BY <1>1
  <2>6. Reached(c)' = Reached(c)
    BY <2>1 DEF Reached
  <2> QED
    BY <2>1, <2>2, <2>4, <2>5, <2>6 DEF RouteInv
<1>6. ScreensInv' /\ NoGap
  BY <1>1, ScreensStay DEF quicVars, termVars
<1> QED
  BY <1>2, <1>3, <1>4, <1>5, <1>6 DEF IInv

\* The chunk goes out to the connections: what was put on the way went up to the one
\* before it.
LEMMA SendQUICKeeps == FanoutConstants /\ IInv /\ SendQUIC => IInv' /\ NoGap
<1> SUFFICES ASSUME FanoutConstants, IInv, SendQUIC PROVE IInv' /\ NoGap
  OBVIOUS
<1>1. /\ reader.pc = "quic" /\ reader' = [reader EXCEPT !.pc = "uds"] /\ reader.seq = seq
      /\ seq \in Numbers /\ Numbers \subseteq Nat
      /\ UNCHANGED <<seq, hot, quicReady, clients, ids, outVars, backlog, cols, active, dials,
                     ct, lastOffset, termVars>>
  BY DEF SendQUIC, IInv, SessType, ReaderInv, Pending, Numbers, sizeVars
<1>2. /\ reader'.pc = "uds" /\ reader'.seq = seq /\ reader'.ids = reader.ids /\ reader' \in Reader
  BY <1>1 DEF IInv, SessType, Reader
<1>3. Pending /\ Pending'
  BY <1>1, <1>2 DEF Pending
<1>4. SessType' /\ QueueType' /\ ReaderInv'
  BY <1>1, <1>2 DEF IInv, SessType, QueueType, ReaderInv, outVars
<1>5. QueuesInv'
  BY <1>1, <1>3 DEF IInv, QueuesInv, QueueInv, outVars
<1>6. ASSUME NEW c \in Clients
      PROVE  /\ quicCh[c] \in Seq(Numbers) /\ lastOffset[c] \in Nat
             /\ quicCh'[c] = IF c \in reader.ids \cap active THEN Append(quicCh[c], seq)
                             ELSE quicCh[c]
  BY <1>1 DEF SendQUIC, IInv, TermType, Numbers
<1>7. TermType'
  <2>1. ASSUME NEW c \in Clients PROVE quicCh'[c] \in Seq(Numbers)
    <3>1. Append(quicCh[c], seq) \in Seq(Numbers)
      BY <1>1, <1>6, AppendProperties
    <3> QED
      BY <1>6, <3>1
  <2>2. quicCh' = [c \in Clients |-> quicCh'[c]]
    BY DEF SendQUIC
  <2>3. quicCh' \in [Clients -> Seq(Numbers)]
    BY <2>1, <2>2
  <2> QED
    BY <1>1, <2>3 DEF IInv, TermType, termVars
<1>8. RoutesInv'
  <2> SUFFICES ASSUME NEW c \in Clients PROVE RouteInv(c)'
    BY DEF RoutesInv
  <2>1. RouteInv(c)
    BY DEF IInv, RoutesInv
  <2>2. CASE c \in reader.ids \cap active
    <3> DEFINE q == quicCh[c]
               r == Append(q, seq)
               n == Len(q)
    <3>1. /\ q \in Seq(Numbers) /\ quicCh'[c] = r /\ n \in Nat /\ lastOffset[c] \in Nat
          /\ \A i \in 1 .. n : q[i] \in Nat
      BY <1>1, <1>6, <2>2, LenProperties
    <3>2. Len(r) = n + 1 /\ r[n + 1] = seq /\ \A i \in 1 .. n : r[i] = q[i]
      BY <1>1, <3>1, AppendProperties
    <3>3. seq <= Reached(c) + 1
      BY <2>1, <2>2 DEF RouteInv
    <3>4. q = <<>> <=> n = 0
      BY <3>1, EmptySeq
    <3>5. (n = 0 => seq <= lastOffset[c] + 1) /\ (n # 0 => seq <= q[n] + 1)
      BY <3>3, <3>4 DEF Reached
    <3>6. n # 0 => q[1] <= lastOffset[c] + 1
      BY <2>1, <3>4 DEF RouteInv
    <3>7. \A i \in 1 .. n - 1 : q[i + 1] <= q[i] + 1
      BY <2>1 DEF RouteInv
    <3> HIDE DEF r, q, n
    <3>8. r[1] <= lastOffset[c] + 1
      BY <3>1, <3>2, <3>5, <3>6
    <3>9. \A i \in 1 .. Len(r) - 1 : r[i + 1] <= r[i] + 1
      <4> SUFFICES ASSUME NEW i \in 1 .. n PROVE r[i + 1] <= r[i] + 1
        BY <3>1, <3>2
      <4>1. CASE i = n
        BY <3>1, <3>2, <3>5, <4>1
      <4>2. CASE i # n
        BY <3>1, <3>2, <3>7, <4>2, SMTT(30)
      <4> QED
        BY <4>1, <4>2
    <3>10. r # <<>> /\ r[Len(r)] = seq /\ seq <= seq + 1
      BY <1>1, <3>1, <3>2
    <3>11. Reached(c)' = seq
      BY <3>1, <3>10 DEF Reached
    <3> QED
      BY <1>1, <2>1, <3>1, <3>8, <3>9, <3>10, <3>11 DEF RouteInv
  <2>3. CASE c \notin reader.ids \cap active
    <3>1. quicCh'[c] = quicCh[c]
      BY <1>6, <2>3
    <3>2. Reached(c)' = Reached(c)
      BY <1>1, <3>1 DEF Reached
    <3> QED
      BY <1>1, <1>2, <2>1, <2>3, <3>1, <3>2 DEF RouteInv
  <2> QED
    BY <2>2, <2>3
<1>9. ScreensInv' /\ NoGap
  BY <1>1, ScreensStay DEF termVars
<1> QED
  BY <1>4, <1>5, <1>7, <1>8, <1>9 DEF IInv

\* The chunk goes to the queues, or a notice of it is due.
LEMMA FanOutKeeps == FanoutConstants /\ IInv /\ FanOut => IInv' /\ NoGap
<1> SUFFICES ASSUME FanoutConstants, IInv, FanOut PROVE IInv' /\ NoGap
  OBVIOUS
<1>1. /\ reader.pc = "uds" /\ reader' = [reader EXCEPT !.pc = "read"] /\ reader.seq \in Numbers
      /\ UNCHANGED <<seq, hot, quicReady, clients, ids, backlog, cols, frame, quicVars, termVars>>
  BY DEF FanOut, IInv, SessType, Reader, sizeVars
<1>2. reader'.pc = "read" /\ reader' \in Reader
  BY <1>1 DEF IInv, SessType, Reader
<1>3. Pending /\ ~Pending'
  BY <1>1, <1>2 DEF Pending
<1>4. PICK to \in {IF quicReady THEN reader.clients \ SkippedOverUDS ELSE {}} :
         LET full == {c \in to : Len(outCh[c]) >= OutCap}
         IN  /\ outCh' = [c \in Clients |-> IF c \in to \ full
                                            THEN Append(outCh[c], Output(reader.seq))
                                            ELSE outCh[c]]
             /\ notices' = [c \in Clients |-> IF c \in full THEN notices[c] + 1 ELSE notices[c]]
  BY DEF FanOut
<1>5. ASSUME NEW c \in Clients
      PROVE  /\ \/ outCh'[c] = outCh[c]
                \/ Len(outCh[c]) < OutCap /\ outCh'[c] = Append(outCh[c], Output(reader.seq))
             /\ notices'[c] \in {notices[c], notices[c] + 1}
             /\ outCh[c] \in Seq(Frame) /\ Len(outCh[c]) <= OutCap /\ Len(outCh[c]) \in Nat
             /\ notices[c] \in Nat
  <2>1. /\ outCh[c] \in Seq(Frame) /\ Len(outCh[c]) <= OutCap /\ Len(outCh[c]) \in Nat
        /\ notices[c] \in Nat
    BY LenProperties DEF IInv, QueueType, QueuesInv, QueueInv
  <2>2. Len(outCh[c]) < OutCap \/ Len(outCh[c]) >= OutCap
    BY <2>1 DEF FanoutConstants
  <2> QED
    BY <1>4, <2>1, <2>2
<1>6. ASSUME NEW c \in Clients PROVE outCh'[c] \in Seq(Frame) /\ Len(outCh'[c]) <= OutCap
  <2>1. Output(reader.seq) \in Frame
    BY <1>1, FramesTyped
  <2>2. CASE outCh'[c] = outCh[c]
    BY <1>5, <2>2
  <2>3. CASE Len(outCh[c]) < OutCap /\ outCh'[c] = Append(outCh[c], Output(reader.seq))
    BY <1>5, <2>1, <2>3, QueueGrows
  <2> QED
    BY <1>5, <2>2, <2>3
<1>7. SessType' /\ TermType' /\ ReaderInv'
  BY <1>1, <1>2, <1>3 DEF IInv, SessType, TermType, ReaderInv, quicVars, termVars
<1>8. QueueType'
  <2>1. outCh' = [c \in Clients |-> outCh'[c]] /\ notices' = [c \in Clients |-> notices'[c]]
    BY <1>4
  <2>2. outCh' \in [Clients -> Seq(Frame)]
    BY <1>6, <2>1
  <2>3. \A c \in Clients : notices'[c] \in Nat
    BY <1>5
  <2>4. notices' \in [Clients -> Nat]
    BY <2>1, <2>3
  <2> QED
    BY <1>1, <2>2, <2>4 DEF IInv, QueueType
<1>9. QueuesInv'
  <2> SUFFICES ASSUME NEW c \in Clients PROVE QueueInv(c)'
    BY DEF QueuesInv
  <2>1. notices[c] + 1 <= seq /\ seq' = seq /\ seq \in Nat
    BY <1>1, <1>3 DEF IInv, QueuesInv, QueueInv, SessType, Numbers
  <2>2. notices'[c] + 0 <= seq'
    BY <1>5, <2>1
  <2> QED
    BY <1>3, <1>6, <2>2 DEF QueueInv
<1>10. RoutesInv'
  <2> SUFFICES ASSUME NEW c \in Clients PROVE RouteInv(c)'
    BY DEF RoutesInv
  <2>1. RouteInv(c) /\ UNCHANGED <<seq, ct, ids, active, quicCh, lastOffset>>
    BY <1>1 DEF IInv, RoutesInv, quicVars
  <2>2. Reached(c)' = Reached(c)
    BY <2>1 DEF Reached
  <2> QED
    BY <1>1, <2>1, <2>2 DEF RouteInv
<1>11. ScreensInv' /\ NoGap
  BY <1>1, ScreensStay DEF quicVars, termVars
<1> QED
  BY <1>7, <1>8, <1>9, <1>10, <1>11 DEF IInv

LEMMA NotifySessionClosedKeeps == FanoutConstants /\ IInv /\ NotifySessionClosed => IInv' /\ NoGap
<1> SUFFICES ASSUME FanoutConstants, IInv, NotifySessionClosed PROVE IInv' /\ NoGap
  OBVIOUS
<1>1. /\ reader.pc = "read" /\ reader' = [reader EXCEPT !.pc = "ended"]
      /\ UNCHANGED <<seq, hot, quicReady, clients, ids, notices, backlog, cols, frame, quicVars,
                     termVars>>
  BY DEF NotifySessionClosed, sizeVars
<1>2. reader'.pc = "ended" /\ reader' \in Reader
  BY <1>1 DEF IInv, SessType, Reader
<1>3. ~Pending /\ ~Pending'
  BY <1>1, <1>2 DEF Pending
<1>4. \A c \in Clients : Offer(c, Closed) \in Seq(Frame) /\ Len(Offer(c, Closed)) <= OutCap
  BY OfferFits, FramesTyped DEF IInv, QueuesInv, QueueInv
<1>5. \A c \in Clients : outCh'[c] \in Seq(Frame) /\ Len(outCh'[c]) <= OutCap
  BY <1>4 DEF NotifySessionClosed, IInv, QueueType, QueuesInv, QueueInv
<1>6. SessType' /\ TermType' /\ ReaderInv'
  BY <1>1, <1>2, <1>3 DEF IInv, SessType, TermType, ReaderInv, quicVars, termVars
<1>7. QueueType'
  <2>1. outCh' = [c \in Clients |-> outCh'[c]]
    BY DEF NotifySessionClosed
  <2>2. outCh' \in [Clients -> Seq(Frame)]
    BY <1>5, <2>1
  <2> QED
    BY <1>1, <2>2 DEF IInv, QueueType
<1>8. QueuesInv'
  BY <1>1, <1>3, <1>5 DEF IInv, QueuesInv, QueueInv
<1>9. RoutesInv'
  <2> SUFFICES ASSUME NEW c \in Clients PROVE RouteInv(c)'
    BY DEF RoutesInv
  <2>1. RouteInv(c) /\ UNCHANGED <<seq, ct, ids, active, quicCh, lastOffset>>
    BY <1>1 DEF IInv, RoutesInv, quicVars
  <2>2. Reached(c)' = Reached(c)
    BY <2>1 DEF Reached
  <2> QED
    BY <1>1, <2>1, <2>2 DEF RouteInv
<1>10. ScreensInv' /\ NoGap
  BY <1>1, ScreensStay DEF quicVars, termVars
<1> QED
  BY <1>6, <1>7, <1>8, <1>9, <1>10 DEF IInv

-----------------------------------------------------------------------------
(* The client.                                                             *)

\* What is rendered goes to the end of the screen, and is newer than what is there.
LEMMA RenderOutputKeeps ==
    ASSUME FanoutConstants, IInv, NEW c \in Clients, NEW n \in Numbers, NEW via,
           RenderOutput(c, n, via)
    PROVE  /\ screen' \in [Clients -> Seq(Numbers)]
           /\ \A d \in Clients : /\ Ascending(screen'[d]) /\ RenderedSeq(d) <= RenderedSeq(d)'
                                 /\ RenderedSeq(d)' \in Nat
           /\ Renders(c, n, via) => RenderedSeq(c)' = n
           /\ ~Renders(c, n, via) => screen' = screen
           /\ \A d \in Clients :
                Len(screen'[d]) > Len(screen[d]) => /\ d = c /\ Renders(c, n, via)
                                                    /\ screen'[d][Len(screen'[d])] = n
<1>1. /\ screen \in [Clients -> Seq(Numbers)] /\ \A d \in Clients : Ascending(screen[d])
      /\ Numbers \subseteq Nat
  BY DEF IInv, TermType, ScreensInv, ScreenInv, Numbers
<1>2. ASSUME NEW d \in Clients
      PROVE  Len(screen[d]) \in Nat /\ RenderedSeq(d) \in Nat /\ ~(Len(screen[d]) > Len(screen[d]))
  <2>1. Len(screen[d]) \in Nat /\ RenderedSeq(d) \in Nat
    BY <1>1, RenderedTyped
  <2> QED
    BY <2>1
<1>3. CASE Renders(c, n, via)
  <2> DEFINE s == screen[c]
             t == Append(s, n)
             k == Len(s)
  <2>1. screen' = [screen EXCEPT ![c] = t] /\ n > RenderedSeq(c)
    BY <1>1, <1>3 DEF RenderOutput, Renders
  <2>2. /\ s \in Seq(Numbers) /\ k \in Nat /\ n \in Nat /\ Ascending(s)
        /\ (s = <<>> <=> k = 0) /\ \A i \in 1 .. k : s[i] \in Nat
    <3>1. s \in Seq(Numbers) /\ Ascending(s) /\ n \in Nat
      BY <1>1
    <3> QED
      BY <3>1, NumbersTyped
  <2>3. t \in Seq(Numbers) /\ Len(t) = k + 1 /\ t[k + 1] = n /\ \A i \in 1 .. k : t[i] = s[i]
    BY <2>2, AppendProperties
  <2>4. k # 0 => n > s[k]
    BY <2>1, <2>2 DEF RenderedSeq
  <2>5. \A i \in 1 .. k - 1 : s[i] < s[i + 1]
    BY <2>2 DEF Ascending
  <2>6. \A d \in Clients : screen'[d] = IF d = c THEN t ELSE screen[d]
    BY <1>1, <2>1
  <2>7. screen' \in [Clients -> Seq(Numbers)]
    BY <1>1, <2>1, <2>3
  <2>8. RenderedSeq(c)' = n
    <3>1. t # <<>> /\ t[Len(t)] = n
      BY <2>2, <2>3
    <3>2. screen'[c] = t
      BY <2>6
    <3> QED
      BY <3>1, <3>2 DEF RenderedSeq
  <2> HIDE DEF s, t, k
  <2>9. Ascending(t)
    <3> SUFFICES ASSUME NEW i \in 1 .. k PROVE t[i] < t[i + 1]
      BY <2>2, <2>3 DEF Ascending
    <3>1. CASE i = k
      BY <2>2, <2>3, <2>4, <3>1
    <3>2. CASE i # k
      BY <2>2, <2>3, <2>5, <3>2
    <3> QED
      BY <3>1, <3>2
  <2>10. ASSUME NEW d \in Clients
         PROVE  Ascending(screen'[d]) /\ RenderedSeq(d) <= RenderedSeq(d)' /\ RenderedSeq(d)' \in Nat
    <3>1. CASE d = c
      BY <1>2, <2>1, <2>2, <2>6, <2>8, <2>9, <3>1
    <3>2. CASE d # c
      <4>1. screen'[d] = screen[d]
        BY <2>6, <3>2
      <4>2. RenderedSeq(d)' = RenderedSeq(d)
        BY <4>1 DEF RenderedSeq
      <4> QED
        BY <1>1, <1>2, <4>1, <4>2
    <3> QED
      BY <3>1, <3>2
  <2>11. ASSUME NEW d \in Clients, Len(screen'[d]) > Len(screen[d])
         PROVE  d = c /\ screen'[d][Len(screen'[d])] = n
    <3>1. d = c
      BY <1>2, <2>6, <2>11
    <3> QED
      BY <2>3, <2>6, <3>1
  <2> QED
    BY <1>3, <2>7, <2>8, <2>10, <2>11
<1>4. CASE ~Renders(c, n, via)
  <2>1. screen' = screen
    BY <1>4 DEF RenderOutput
  <2>2. \A d \in Clients : RenderedSeq(d)' = RenderedSeq(d)
    BY <2>1 DEF RenderedSeq
  <2>3. ASSUME NEW d \in Clients PROVE RenderedSeq(d) <= RenderedSeq(d) /\ RenderedSeq(d) \in Nat
    BY <1>2
  <2>4. \A d \in Clients : ~(Len(screen[d]) > Len(screen[d]))
    BY <1>2
  <2> QED
    BY <1>1, <1>4, <2>1, <2>2, <2>3, <2>4
<1> QED
  BY <1>3, <1>4

\* One client's QUIC path changes.
LEMMA RouteChanges ==
    ASSUME IInv, NEW c \in Clients, UNCHANGED <<seq, reader>>, ids \subseteq ids',
           \A d \in Clients \ {c} :
              /\ quicCh'[d] = quicCh[d] /\ lastOffset'[d] = lastOffset[d] /\ ct'[d] = ct[d]
              /\ d \in active' => d \in active,
           RouteInv(c)'
    PROVE  RoutesInv'
<1> SUFFICES ASSUME NEW d \in Clients, d # c PROVE RouteInv(d)'
  BY DEF RoutesInv
<1>1. RouteInv(d)
  BY DEF IInv, RoutesInv
<1>2. Reached(d)' = Reached(d)
  BY DEF Reached
<1> QED
  BY <1>1, <1>2 DEF RouteInv

\* The frame read is rendered, if it is newer, or ends the client.
LEMMA HandleServerKeeps ==
    ASSUME FanoutConstants, IInv, NEW c \in Clients, HandleServer(c)
    PROVE  IInv' /\ NoGap
<1>1. /\ frame' = [frame EXCEPT ![c] = NoFrame]
      /\ UNCHANGED <<sessVars, sizeVars, outCh, notices, backlog, quicVars>>
  BY DEF HandleServer
<1>2. SessType'
  BY <1>1 DEF IInv, SessType, sessVars, quicVars
<1>3. QueueType'
  BY <1>1, FramesTyped DEF IInv, QueueType, sizeVars
<1>4. QueuesInv'
  BY <1>1, QueuesStay DEF sessVars
<1>5. ReaderInv'
  BY <1>1 DEF IInv, ReaderInv, Pending, sessVars
<1>6. RoutesInv'
  <2>1. \A d \in Clients : Reached(d)' = Reached(d)
    BY <1>1 DEF Reached, quicVars
  <2> QED
    BY <1>1, <2>1 DEF IInv, RoutesInv, RouteInv, sessVars, quicVars
<1>7. lastOffset' = lastOffset /\ \A d \in Clients : lastOffset[d] \in Nat
  BY <1>1 DEF quicVars, IInv, TermType, Numbers
<1>8. frame[c].seq \in Numbers
  BY DEF IInv, QueueType, Frame
<1>9. CASE frame[c].kind = "OUTPUT"
  <2> DEFINE n == frame[c].seq
  <2>1. RenderOutput(c, n, FALSE)
    BY <1>9 DEF HandleServer
  <2>2. /\ screen' \in [Clients -> Seq(Numbers)]
        /\ \A d \in Clients : /\ Ascending(screen'[d]) /\ RenderedSeq(d) <= RenderedSeq(d)'
                              /\ RenderedSeq(d)' \in Nat
        /\ \A d \in Clients :
             Len(screen'[d]) > Len(screen[d]) => /\ d = c /\ Renders(c, n, FALSE)
                                                 /\ screen'[d][Len(screen'[d])] = n
    BY <1>8, <2>1, RenderOutputKeeps
  <2>3. TermType'
    BY <1>1, <2>2 DEF IInv, TermType, quicVars
  <2>4. \A d \in Clients : RenderedSeq(d) \in Nat /\ RenderedSeq(d)' \in Nat
    BY <2>2, RenderedTyped DEF IInv, TermType
  <2>5. \A d \in Clients : lastOffset[d] <= RenderedSeq(d)
    BY DEF IInv, ScreensInv, ScreenInv
  <2>6. \A d \in Clients : lastOffset[d] <= RenderedSeq(d)'
    BY <1>7, <2>2, <2>4, <2>5
  <2>7. ScreensInv'
    BY <1>7, <2>2, <2>6 DEF ScreensInv, ScreenInv
  <2>8. NoGap
    BY <2>2 DEF NoGap, Renders
  <2> QED
    BY <1>2, <1>3, <1>4, <1>5, <1>6, <2>3, <2>7, <2>8 DEF IInv
<1>10. CASE frame[c].kind # "OUTPUT"
  <2>1. screen' = screen
    BY <1>10 DEF HandleServer
  <2>2. TermType'
    BY <1>1, <2>1 DEF IInv, TermType, quicVars
  <2>3. ScreensInv' /\ NoGap
    BY <1>7, <2>1, ScreensStay
  <2> QED
    BY <1>2, <1>3, <1>4, <1>5, <1>6, <2>2, <2>3 DEF IInv
<1> QED
  BY <1>9, <1>10

\* The client goes, or its transport is published.
LEMMA LeaveKeeps ==
    ASSUME FanoutConstants, IInv, NEW c \in Clients, Leave(c) \/ SetTransport(c)
    PROVE  IInv' /\ NoGap
<1>1. /\ active' \subseteq active
      /\ UNCHANGED <<sessVars, sizeVars, outVars, backlog, quicCh, dials, lastOffset, screen>>
  BY DEF Leave, SetTransport, termVars
<1>2. SessType' /\ QueueType'
  BY <1>1 DEF IInv, SessType, QueueType, sessVars, sizeVars, outVars
<1>3. QueuesInv'
  BY <1>1, QueuesStay DEF sessVars, outVars
<1>4. CASE Leave(c)
  <2>1. TermType' /\ ReaderInv' /\ RoutesInv' /\ ScreensInv' /\ NoGap
    BY <1>1, <1>4, PathsStay DEF Leave, sessVars
  <2> QED
    BY <1>2, <1>3, <2>1 DEF IInv
<1>5. CASE SetTransport(c)
  <2>1. ct[c] = "started" /\ ct' = [ct EXCEPT ![c] = "set"] /\ active' = active
    BY <1>5 DEF SetTransport
  <2>2. TermType' /\ ReaderInv'
    BY <1>1, <2>1 DEF IInv, TermType, ReaderInv, Pending, sessVars
  <2>3. RouteInv(c)'
    <3>1. RouteInv(c)
      BY DEF IInv, RoutesInv
    <3>2. Reached(c)' = Reached(c) /\ ct[c] # "none" /\ ct'[c] = "set"
      BY <1>1, <2>1 DEF Reached, IInv, TermType
    <3> QED
      BY <1>1, <2>1, <3>1, <3>2 DEF RouteInv, sessVars
  <2>4. RoutesInv'
    BY <1>1, <2>1, <2>3, RouteChanges DEF sessVars, IInv, TermType
  <2>5. ScreensInv' /\ NoGap
    BY <1>1, ScreensStay
  <2> QED
    BY <1>2, <1>3, <2>2, <2>4, <2>5 DEF IInv
<1> QED
  BY <1>4, <1>5

\* The transport is seeded with what is on the screen: no connection is there yet.
LEMMA SeedTransportKeeps ==
    ASSUME FanoutConstants, IInv, NEW c \in Clients, SeedTransport(c)
    PROVE  IInv' /\ NoGap
<1>1. /\ ids' = ids \cup {c} /\ ct[c] = "none" /\ ct' = [ct EXCEPT ![c] = "seeded"]
      /\ lastOffset' = [lastOffset EXCEPT ![c] = RenderedSeq(c)]
      /\ UNCHANGED <<seq, hot, reader, quicReady, clients, sizeVars, outVars, backlog, active,
                     quicCh, dials, screen>>
  BY DEF SeedTransport, termVars
<1>2. RenderedSeq(c) \in Numbers /\ RenderedSeq(c) \in Nat /\ lastOffset[c] \in Nat
  BY RenderedTyped DEF IInv, TermType, Numbers
<1>3. SessType' /\ QueueType' /\ TermType' /\ ReaderInv'
  BY <1>1, <1>2 DEF IInv, SessType, QueueType, TermType, ReaderInv, Pending, sizeVars, outVars
<1>4. QueuesInv'
  BY <1>1, QueuesStay DEF outVars
<1>5. lastOffset'[c] = RenderedSeq(c) /\ ct'[c] = "seeded"
  BY <1>1 DEF IInv, TermType
<1>6. RouteInv(c)'
  <2>1. RouteInv(c) /\ c \notin active'
    BY <1>1 DEF IInv, RoutesInv, RouteInv
  <2>2. lastOffset[c] <= RenderedSeq(c)
    BY DEF IInv, ScreensInv, ScreenInv
  <2>3. quicCh[c] # <<>> => quicCh[c][1] \in Nat
    <3>1. quicCh[c] \in Seq(Numbers) /\ Numbers \subseteq Nat
      BY DEF IInv, TermType, Numbers
    <3> QED
      BY <3>1, NumbersTyped
  <2>4. quicCh[c] # <<>> => quicCh[c][1] <= lastOffset'[c] + 1
    BY <1>2, <1>5, <2>1, <2>2, <2>3 DEF RouteInv
  <2> QED
    BY <1>1, <1>5, <2>1, <2>4 DEF RouteInv
<1>7. RoutesInv'
  BY <1>1, <1>6, RouteChanges DEF IInv, TermType
<1>8. ScreensInv'
  <2>1. \A d \in Clients : RenderedSeq(d)' = RenderedSeq(d)
    BY <1>1 DEF RenderedSeq
  <2>2. \A d \in Clients \ {c} : lastOffset'[d] = lastOffset[d]
    BY <1>1 DEF IInv, TermType
  <2> QED
    BY <1>1, <1>2, <1>5, <2>1, <2>2 DEF IInv, ScreensInv, ScreenInv
<1>9. NoGap
  <2>1. \A d \in Clients : Len(screen[d]) \in Nat
    BY LenProperties DEF IInv, TermType
  <2>2. \A d \in Clients : ~(Len(screen'[d]) > Len(screen[d]))
    BY <1>1, <2>1
  <2> QED
    BY <2>2 DEF NoGap
<1> QED
  BY <1>3, <1>4, <1>7, <1>8, <1>9 DEF IInv

\* The replay starts behind the newest offset received and goes up to the newest chunk.
LEMMA QUICConnectsKeeps ==
    ASSUME FanoutConstants, IInv, NEW c \in Clients, QUICConnects(c)
    PROVE  IInv' /\ NoGap
<1> DEFINE q == Chunks(lastOffset[c] + 1, seq)
<1>1. /\ ct[c] # "none" /\ dials[c] < MaxDials /\ dials' = [dials EXCEPT ![c] = @ + 1]
      /\ active' = active \cup {c} /\ quicCh' = [quicCh EXCEPT ![c] = q] /\ quicReady' = TRUE
      /\ ct' = [ct EXCEPT ![c] = IF @ = "seeded" THEN "started" ELSE @]
      /\ UNCHANGED <<seq, hot, reader, clients, ids, sizeVars, outVars, backlog, lastOffset,
                     screen>>
  BY DEF QUICConnects, termVars
<1>2. /\ lastOffset[c] \in Nat /\ lastOffset[c] + 1 \in Nat /\ seq \in Numbers /\ seq \in Nat
      /\ MaxDials \in Nat /\ dials[c] \in Nat
  BY DEF IInv, TermType, SessType, Numbers, FanoutConstants
<1>3. /\ q \in Seq(Numbers)
      /\ Len(q) = IF lastOffset[c] + 1 > seq THEN 0 ELSE seq - (lastOffset[c] + 1) + 1
      /\ \A i \in 1 .. Len(q) : q[i] = lastOffset[c] + 1 + i - 1
  BY <1>2, ChunksRun
<1>4. q = <<>> <=> Len(q) = 0
  BY <1>3, EmptySeq
<1>5. quicCh'[c] = q /\ ct'[c] # "none"
  BY <1>1 DEF IInv, TermType
<1> HIDE DEF q
<1> DEFINE n == Len(q)
           o == lastOffset[c]
<1>6. /\ n \in Nat /\ (q = <<>> <=> n = 0) /\ o \in Nat
      /\ n = IF o + 1 > seq THEN 0 ELSE seq - (o + 1) + 1
      /\ \A i \in 1 .. n : q[i] = o + 1 + i - 1
  BY <1>2, <1>3, <1>4, NumbersTyped
<1> HIDE DEF n, o
<1>7. q # <<>> => q[1] = o + 1 /\ q[n] = seq
  <2> SUFFICES ASSUME q # <<>> PROVE q[1] = o + 1 /\ q[n] = seq
    OBVIOUS
  <2>1. n \in Nat \ {0} /\ n = seq - o
    BY <1>2, <1>6
  <2>2. 1 \in 1 .. n /\ n \in 1 .. n
    BY <2>1
  <2>3. q[1] = o + 1 + 1 - 1 /\ q[n] = o + 1 + n - 1
    BY <1>6, <2>2
  <2> QED
    BY <1>2, <1>6, <2>1, <2>3
<1>8. (q = <<>> => seq <= o) /\ \A i \in 1 .. n - 1 : q[i + 1] <= q[i] + 1
  BY <1>2, <1>6
<1>9. SessType' /\ QueueType' /\ ReaderInv'
  BY <1>1 DEF IInv, SessType, QueueType, ReaderInv, Pending, sizeVars, outVars
<1>10. TermType'
  <2>1. dials[c] + 1 \in 0 .. MaxDials
    BY <1>1, <1>2
  <2>2. dials' \in [Clients -> 0 .. MaxDials]
    BY <1>1, <2>1 DEF IInv, TermType
  <2>3. quicCh' \in [Clients -> Seq(Numbers)]
    BY <1>1, <1>3 DEF IInv, TermType
  <2> QED
    BY <1>1, <2>2, <2>3 DEF IInv, TermType
<1>11. QueuesInv'
  BY <1>1, QueuesStay DEF outVars
<1>12. RouteInv(c)'
  <2>1. c \in ids
    BY <1>1 DEF IInv, RoutesInv, RouteInv
  <2>2. Reached(c)' = IF q = <<>> THEN o ELSE q[n]
    BY <1>1, <1>5 DEF Reached, n, o
  <2>3. seq <= Reached(c)' /\ seq <= Reached(c)' + 1
    BY <1>2, <1>6, <1>7, <1>8, <2>2
  <2>4. q # <<>> => q[1] <= o + 1
    BY <1>6, <1>7
  <2> QED
    BY <1>1, <1>5, <1>8, <2>1, <2>3, <2>4 DEF RouteInv, n, o
<1>13. RoutesInv'
  BY <1>1, <1>12, RouteChanges DEF IInv, TermType
<1>14. ScreensInv' /\ NoGap
  BY <1>1, ScreensStay
<1> QED
  BY <1>9, <1>10, <1>11, <1>13, <1>14 DEF IInv

LEMMA QUICLostKeeps ==
    ASSUME FanoutConstants, IInv, NEW c \in Clients, QUICLost(c)
    PROVE  IInv' /\ NoGap
<1>1. /\ active' = active \ {c} /\ quicCh' = [quicCh EXCEPT ![c] = <<>>]
      /\ UNCHANGED <<sessVars, sizeVars, outVars, backlog, dials, ct, lastOffset, screen>>
  BY DEF QUICLost, termVars
<1>2. SessType' /\ QueueType' /\ ReaderInv'
  BY <1>1 DEF IInv, SessType, QueueType, ReaderInv, Pending, sessVars, sizeVars, outVars
<1>3. <<>> \in Seq(Numbers)
  OBVIOUS
<1>4. TermType'
  <2>1. quicCh' \in [Clients -> Seq(Numbers)]
    BY <1>1, <1>3 DEF IInv, TermType
  <2> QED
    BY <1>1, <2>1 DEF IInv, TermType
<1>5. QueuesInv'
  BY <1>1, QueuesStay DEF sessVars, outVars
<1>6. RouteInv(c)'
  <2>1. quicCh'[c] = <<>> /\ c \notin active'
    BY <1>1 DEF IInv, TermType
  <2>2. ct'[c] # "none" => c \in ids'
    BY <1>1 DEF IInv, RoutesInv, RouteInv, sessVars
  <2>3. \A i \in 1 .. Len(<<>>) - 1 : FALSE
    OBVIOUS
  <2> QED
    BY <2>1, <2>2, <2>3 DEF RouteInv
<1>7. RoutesInv'
  BY <1>1, <1>6, RouteChanges DEF IInv, TermType, sessVars
<1>8. ScreensInv' /\ NoGap
  BY <1>1, ScreensStay
<1> QED
  BY <1>2, <1>4, <1>5, <1>7, <1>8 DEF IInv

\* The next chunk on the connection is at most one after the newest received, so at
\* most one after what is on the screen.
LEMMA HandleQUICOutputKeeps ==
    ASSUME FanoutConstants, IInv, NEW c \in Clients, HandleQUICOutput(c)
    PROVE  IInv' /\ NoGap
<1> DEFINE q == quicCh[c]
           h == Head(q)
           r == Tail(q)
           last == lastOffset[c]
<1>1. /\ q # <<>> /\ ~stopped[c] /\ quicCh' = [quicCh EXCEPT ![c] = r]
      /\ UNCHANGED <<sessVars, sizeVars, outVars, backlog, active, dials, ct>>
  BY DEF HandleQUICOutput
<1>2. /\ q \in Seq(Numbers) /\ last \in Numbers /\ last \in Nat /\ Numbers \subseteq Nat
      /\ screen \in [Clients -> Seq(Numbers)] /\ quicCh'[c] = r
  BY <1>1 DEF IInv, TermType, Numbers
<1>3. /\ h \in Numbers /\ h = q[1] /\ r \in Seq(Numbers) /\ Len(r) = Len(q) - 1
      /\ \A i \in 1 .. Len(q) - 1 : r[i] = q[i + 1]
      /\ Len(q) \in Nat \ {0} /\ h \in Nat /\ (r = <<>> <=> Len(q) = 1)
      /\ \A i \in 1 .. Len(q) : q[i] \in Nat
  <2>1. /\ h \in Numbers /\ h = q[1] /\ r \in Seq(Numbers) /\ Len(r) = Len(q) - 1
        /\ \A i \in 1 .. Len(q) - 1 : r[i] = q[i + 1]
        /\ Len(q) \in Nat \ {0}
    BY <1>1, <1>2, QueueShrinks
  <2>2. (r = <<>> <=> Len(r) = 0) /\ \A i \in 1 .. Len(q) : q[i] \in Nat
    BY <1>2, <2>1, NumbersTyped
  <2> QED
    BY <1>2, <2>1, <2>2
<1>4. h <= last + 1 /\ \A i \in 1 .. Len(q) - 1 : q[i + 1] <= q[i] + 1
  BY <1>1, <1>3 DEF IInv, RoutesInv, RouteInv
<1>5. RenderedSeq(c) \in Nat /\ last <= RenderedSeq(c)
  BY <1>2, RenderedTyped DEF IInv, ScreensInv, ScreenInv
<1>6. \/ h <= last /\ UNCHANGED <<lastOffset, screen>>
      \/ /\ ~(h <= last) /\ lastOffset' = [lastOffset EXCEPT ![c] = h]
         /\ RenderOutput(c, h, TRUE)
  BY DEF HandleQUICOutput
<1> DEFINE new == IF h <= last THEN last ELSE h
<1>7. lastOffset' = [lastOffset EXCEPT ![c] = new]
  BY <1>6 DEF IInv, TermType
<1> HIDE DEF q, h, r
<1>8. lastOffset'[c] = new /\ new \in Numbers /\ h <= new /\ new \in Nat /\ last <= new
  BY <1>2, <1>3, <1>7 DEF IInv, TermType
<1>9. /\ screen' \in [Clients -> Seq(Numbers)]
      /\ \A d \in Clients : /\ Ascending(screen'[d]) /\ RenderedSeq(d) <= RenderedSeq(d)'
                            /\ RenderedSeq(d)' \in Nat
      /\ new <= RenderedSeq(c)'
      /\ NoGap
  <2>1. CASE h <= last
    <3>1. screen' = screen /\ new = last
      BY <1>2, <1>3, <1>6, <2>1
    <3>2. \A d \in Clients : RenderedSeq(d)' = RenderedSeq(d) /\ RenderedSeq(d) \in Nat
      BY <1>2, <3>1, RenderedTyped DEF RenderedSeq
    <3>3. \A d \in Clients : RenderedSeq(d) <= RenderedSeq(d)' /\ RenderedSeq(d)' \in Nat
      BY <3>2
    <3>4. \A d \in Clients : Ascending(screen[d])
      BY DEF IInv, ScreensInv, ScreenInv
    <3>5. NoGap
      <4>1. \A d \in Clients : Len(screen[d]) \in Nat
        BY <1>2, LenProperties
      <4>2. \A d \in Clients : ~(Len(screen'[d]) > Len(screen[d]))
        BY <3>1, <4>1
      <4> QED
        BY <4>2 DEF NoGap
    <3> QED
      BY <1>2, <1>5, <3>1, <3>2, <3>3, <3>4, <3>5
  <2>2. CASE ~(h <= last)
    <3> DEFINE s == RenderedSeq(c)
               t == RenderedSeq(c)'
    <3>00. h \in Nat /\ last \in Nat /\ h <= last + 1 /\ s \in Nat /\ last <= s
      BY <1>2, <1>3, <1>4, <1>5
    <3>0. RenderOutput(c, h, TRUE) /\ new = h /\ h = last + 1
      <4>1. RenderOutput(c, h, TRUE) /\ new = h
        BY <1>6, <2>2
      <4> HIDE DEF last
      <4>2. h = last + 1
        BY <2>2, <3>00
      <4> QED
        BY <4>1, <4>2
    <3>1. /\ screen' \in [Clients -> Seq(Numbers)]
          /\ \A d \in Clients : /\ Ascending(screen'[d]) /\ RenderedSeq(d) <= RenderedSeq(d)'
                                /\ RenderedSeq(d)' \in Nat
          /\ Renders(c, h, TRUE) => RenderedSeq(c)' = h
          /\ ~Renders(c, h, TRUE) => screen' = screen
          /\ \A d \in Clients :
               Len(screen'[d]) > Len(screen[d]) => /\ d = c /\ Renders(c, h, TRUE)
                                                   /\ screen'[d][Len(screen'[d])] = h
      <4>1. h \in Numbers /\ RenderOutput(c, h, TRUE) /\ FanoutConstants /\ IInv
        BY <1>3, <3>0
      <4> HIDE DEF last, new, s, t
      <4> QED
        BY <4>1, RenderOutputKeeps, Zenon
    <3>2. RenderedSeq(c)' \in Nat /\ RenderedSeq(c) <= RenderedSeq(c)'
      BY <3>1
    <3>3. Renders(c, h, TRUE) <=> h > RenderedSeq(c)
      BY <1>1 DEF Renders
    <3>4. h <= RenderedSeq(c)'
      <4>1. s \in Nat /\ t \in Nat /\ s <= t
        BY <3>00, <3>1, <3>2
      <4>2. h > s => t = h
        BY <3>1, <3>3
      <4> HIDE DEF s, t
      <4>3. h <= t
        BY <3>00, <4>1, <4>2
      <4> QED
        BY <4>3 DEF t
    <3>5. Renders(c, h, TRUE) => h = RenderedSeq(c) + 1
      <4> HIDE DEF s, t, last
      <4>1. h > s => h = s + 1
        BY <3>00, <3>0
      <4> QED
        BY <3>3, <4>1 DEF s
    <3>6. NoGap
      BY <3>1, <3>5 DEF NoGap
    <3> QED
      BY <3>0, <3>1, <3>4, <3>6
  <2> QED
    BY <1>2, <1>3, <2>1, <2>2
<1>10. SessType' /\ QueueType' /\ ReaderInv'
  BY <1>1 DEF IInv, SessType, QueueType, ReaderInv, Pending, sessVars, sizeVars, outVars
<1>11. TermType'
  BY <1>1, <1>3, <1>7, <1>8, <1>9 DEF IInv, TermType
<1>12. QueuesInv'
  BY <1>1, QueuesStay DEF sessVars, outVars
<1>13. ScreensInv'
  <2> SUFFICES ASSUME NEW d \in Clients PROVE lastOffset'[d] <= RenderedSeq(d)'
    BY <1>9 DEF ScreensInv, ScreenInv
  <2>1. CASE d = c
    BY <1>8, <1>9, <2>1
  <2>2. CASE d # c
    <3>1. lastOffset'[d] = lastOffset[d] /\ lastOffset[d] \in Nat /\ lastOffset[d] <= RenderedSeq(d)
      BY <1>7, <2>2 DEF IInv, TermType, ScreensInv, ScreenInv, Numbers
    <3>2. RenderedSeq(d) \in Nat /\ RenderedSeq(d)' \in Nat /\ RenderedSeq(d) <= RenderedSeq(d)'
      BY <1>2, <1>9, RenderedTyped
    <3> QED
      BY <3>1, <3>2
  <2> QED
    BY <2>1, <2>2
<1>14. RouteInv(c)'
  <2>1. RouteInv(c)
    BY DEF IInv, RoutesInv
  <2>2. \A i \in 1 .. Len(q) : q[i] \in Nat
    BY <1>3
  <2>3. r = <<>> <=> Len(q) = 1
    BY <1>3
  <2> HIDE DEF new, last
  <2>4. r # <<>> => r[1] <= new + 1
    <3>1. r # <<>> => r[1] = q[2] /\ q[2] <= q[1] + 1 /\ q[2] \in Nat
      BY <1>3, <1>4, <2>2, <2>3
    <3> QED
      BY <1>3, <1>8, <3>1
  <2>5. \A i \in 1 .. Len(r) - 1 : r[i + 1] <= r[i] + 1
    <3> SUFFICES ASSUME NEW i \in 1 .. Len(r) - 1 PROVE r[i + 1] <= r[i] + 1
      OBVIOUS
    <3>1. r[i + 1] = q[i + 2] /\ r[i] = q[i + 1] /\ i + 1 \in 1 .. Len(q) - 1
      <4> DEFINE m == Len(q)
      <4>1. m \in Nat \ {0} /\ Len(r) = m - 1 /\ \A j \in 1 .. m - 1 : r[j] = q[j + 1]
        BY <1>3
      <4> HIDE DEF m
      <4>2. i \in 1 .. m - 1 /\ i + 1 \in 1 .. m - 1 /\ i + 1 + 1 = i + 2
        BY <4>1
      <4> QED
        BY <4>1, <4>2 DEF m
    <3>2. q[i + 2] <= q[i + 1] + 1
      <4>1. q[(i + 1) + 1] <= q[i + 1] + 1 /\ (i + 1) + 1 = i + 2
        BY <1>4, <3>1
      <4> QED
        BY <4>1
    <3> QED
      BY <3>1, <3>2
  <2>6. Reached(c) = q[Len(q)] /\ Reached(c)' = IF r = <<>> THEN new ELSE r[Len(r)]
    <3>1. q # <<>> /\ quicCh'[c] = r /\ lastOffset'[c] = new
      BY <1>1, <1>2, <1>8
    <3> QED
      BY <3>1, Zenon DEF Reached, q
  <2>7. Reached(c) \in Nat /\ Reached(c)' \in Nat /\ Reached(c) <= Reached(c)'
    <3>1. CASE r = <<>>
      BY <1>3, <1>8, <2>2, <2>3, <2>6, <3>1
    <3>2. CASE r # <<>>
      <4>1. r[Len(r)] = q[Len(q)] /\ q[Len(q)] \in Nat
        BY <1>3, <2>2, <2>3, <3>2
      <4> QED
        BY <2>6, <3>2, <4>1
    <3> QED
      BY <3>1, <3>2
  <2>8. seq \in Nat /\ UNCHANGED <<seq, reader, ids, active, ct>>
    BY <1>1 DEF IInv, SessType, Numbers, sessVars
  <2>9. /\ c \in active /\ ~(reader.pc = "quic" /\ c \in reader.ids) => seq <= Reached(c)'
        /\ c \in active => seq <= Reached(c)' + 1
    <3>1. /\ seq <= Reached(c) => seq <= Reached(c)'
          /\ seq <= Reached(c) + 1 => seq <= Reached(c)' + 1
      BY <2>7, <2>8
    <3> QED
      BY <2>1, <3>1 DEF RouteInv
  <2> QED
    BY <1>2, <1>8, <2>1, <2>4, <2>5, <2>8, <2>9 DEF RouteInv
<1>15. RoutesInv'
  BY <1>1, <1>7, <1>14, RouteChanges DEF IInv, TermType, sessVars
<1> QED
  BY <1>9, <1>10, <1>11, <1>12, <1>13, <1>15 DEF IInv

-----------------------------------------------------------------------------
(* The theorems.                                                           *)

LEMMA StepKeeps == FanoutConstants /\ IInv /\ [Next]_vars => IInv' /\ NoGap
<1> SUFFICES ASSUME FanoutConstants, IInv, [Next]_vars PROVE IInv' /\ NoGap
  OBVIOUS
<1>1. CASE ReaderStep
  BY <1>1, AppendOutputKeeps, SendQUICKeeps, FanOutKeeps, NotifySessionClosedKeeps DEF ReaderStep
<1>2. ASSUME NEW c \in Clients, ServerStep(c) PROVE IInv' /\ NoGap
  BY <1>2, AttachKeeps, QueueStepsKeep DEF ServerStep
<1>3. ASSUME NEW c \in Clients, ClientStep(c) PROVE IInv' /\ NoGap
  BY <1>3, AttachKeeps, HandleServerKeeps, LeaveKeeps, SeedTransportKeeps, QUICConnectsKeeps,
     QUICLostKeeps, HandleQUICOutputKeeps DEF ClientStep
<1>4. CASE UNCHANGED vars
  <2>1. SessType' /\ QueueType'
    BY <1>4 DEF IInv, SessType, QueueType, vars, sessVars, sizeVars, outVars, quicVars
  <2>2. QueuesInv'
    BY <1>4, QueuesStay DEF vars, sessVars, outVars
  <2>3. TermType' /\ ReaderInv' /\ RoutesInv' /\ ScreensInv' /\ NoGap
    BY <1>4, PathsStay DEF vars, sessVars, quicVars, termVars
  <2> QED
    BY <2>1, <2>2, <2>3 DEF IInv
<1> QED
  BY <1>1, <1>2, <1>3, <1>4 DEF Next

LEMMA InitHolds == FanoutConstants /\ Init => IInv
<1> SUFFICES ASSUME FanoutConstants, Init PROVE IInv
  OBVIOUS
<1>1. /\ seq = 0 /\ hot = 1 /\ ids = {} /\ active = {} /\ 0 \in Numbers
      /\ reader = [pc |-> "read", seq |-> 0, clients |-> {}, ids |-> {}]
  BY DEF Init, Numbers, FanoutConstants
<1>2. reader \in Reader
  BY <1>1 DEF Reader
<1>3. SessType
  BY <1>1, <1>2 DEF Init, SessType
<1>4. <<>> \in Seq(Frame) /\ <<>> \in Seq(Numbers)
  OBVIOUS
<1>5. QueueType
  <2>1. outCh \in [Clients -> Seq(Frame)]
    BY <1>4 DEF Init
  <2>2. frame \in [Clients -> Frame]
    BY FramesTyped DEF Init
  <2>3. backlog \in [Clients -> Backlog]
    BY IdleTyped DEF Init
  <2>4. notices \in [Clients -> Nat] /\ cols \in Int
    BY DEF Init, FanoutConstants
  <2> QED
    BY <2>1, <2>2, <2>3, <2>4 DEF QueueType
<1>6. TermType
  <2>1. quicCh \in [Clients -> Seq(Numbers)]
    BY <1>4 DEF Init
  <2>2. screen \in [Clients -> Seq(Numbers)]
    BY <1>4 DEF Init
  <2>3. dials \in [Clients -> 0 .. MaxDials] /\ lastOffset \in [Clients -> Numbers]
    BY <1>1 DEF Init, FanoutConstants
  <2>4. ct \in [Clients -> {"none", "seeded", "started", "set"}]
    BY DEF Init
  <2> QED
    BY <2>1, <2>2, <2>3, <2>4 DEF TermType
<1>7. \A c \in Clients : outCh[c] = <<>> /\ quicCh[c] = <<>> /\ screen[c] = <<>>
                         /\ notices[c] = 0 /\ ct[c] = "none" /\ lastOffset[c] = 0
  BY DEF Init
<1>8. ~Pending
  BY <1>1 DEF Pending
<1>9. Len(<<>>) = 0 /\ OutCap \in Nat
  BY DEF FanoutConstants
<1>10. QueuesInv
  <2>1. \A c \in Clients : 0 <= OutCap /\ 0 + 0 <= 0
    BY <1>9
  <2> QED
    BY <1>1, <1>7, <1>8, <1>9, <2>1 DEF QueuesInv, QueueInv
<1>11. RoutesInv
  <2>1. \A i \in 1 .. 0 - 1 : FALSE
    OBVIOUS
  <2> QED
    BY <1>1, <1>7, <1>9, <2>1, Zenon DEF RoutesInv, RouteInv
<1>12. ScreensInv
  <2>1. (\A i \in 1 .. 0 - 1 : FALSE) /\ 0 <= 0
    OBVIOUS
  <2>2. Ascending(<<>>)
    BY <1>9, <2>1, Zenon DEF Ascending
  <2>3. \A c \in Clients : RenderedSeq(c) = 0
    BY <1>7 DEF RenderedSeq
  <2> QED
    BY <1>7, <2>1, <2>2, <2>3, Zenon DEF ScreensInv, ScreenInv
<1> QED
  BY <1>3, <1>5, <1>6, <1>8, <1>10, <1>11, <1>12 DEF IInv, ReaderInv

\* The fan-out, the backlog, the two paths and the renderer keep to the invariant.
THEOREM FanoutInvariant == Spec => []IInv
<1>1. FanoutConstants
  BY FanoutConstants
<1>2. Init => IInv
  BY <1>1, InitHolds
<1>3. IInv /\ [Next]_vars => IInv'
  BY <1>1, StepKeeps
<1> QED
  BY <1>2, <1>3, PTL DEF Spec

\* Whatever order the backlog's goroutine, the live fan-out (handlePTYOutput) and the two
\* paths deliver the chunks in, renderOutput shows each at most once and in session order.
THEOREM ShownOnceInOrderHolds == Spec => []ShownOnceInOrder
<1>1. IInv => ShownOnceInOrder
  <2> SUFFICES ASSUME IInv PROVE ShownOnceInOrder
    OBVIOUS
  <2>1. \A c \in Clients : Ascending(screen[c])
    BY DEF IInv, ScreensInv, ScreenInv
  <2>2. \A c \in Clients : notices[c] <= MaxSeq
    <3> SUFFICES ASSUME NEW c \in Clients PROVE notices[c] <= MaxSeq
      OBVIOUS
    <3> DEFINE more == IF Pending THEN 1 ELSE 0
    <3>1. notices[c] \in Nat /\ more \in {0, 1} /\ notices[c] + more <= seq /\ seq \in 0 .. MaxSeq
      BY DEF IInv, QueueType, SessType, QueuesInv, QueueInv, Numbers
    <3> HIDE DEF more
    <3> QED
      BY <3>1, FanoutConstants DEF FanoutConstants
  <2>3. /\ seq \in 0 .. MaxSeq /\ hot \in 1 .. seq + 1 /\ quicReady \in BOOLEAN
        /\ clients \subseteq Clients /\ ids \subseteq Clients /\ active \subseteq Clients
        /\ reader.pc \in {"read", "quic", "uds", "ended"}
    BY DEF IInv, SessType, Reader, Numbers
  <2>4. \A c \in Clients :
          /\ Len(outCh[c]) <= OutCap
          /\ backlog[c].pc \in {"none", "copy", "send", "shrink", "restore", "ended"}
          /\ lastOffset[c] \in 0 .. MaxSeq /\ dials[c] \in 0 .. MaxDials
    BY DEF IInv, QueueType, TermType, QueuesInv, QueueInv, Backlog, Numbers
  <2> QED
    BY <2>1, <2>2, <2>3, <2>4 DEF ShownOnceInOrder, TypeOK
<1> QED
  BY <1>1, FanoutInvariant, PTL

\* Once the QUIC transport is published to the renderer (SetTransport), no chunk is shown
\* across a gap, by either path: what the socket dropped is left to QUIC, whose replay
\* starts at or before the first chunk that is missing.
THEOREM NoGapOnceOnQUICHolds == Spec => NoGapOnceOnQUIC
<1>1. IInv /\ [Next]_vars => NoGap
  BY FanoutConstants, StepKeeps
<1> QED
  BY <1>1, FanoutInvariant, PTL DEF Spec, NoGapOnceOnQUIC, NoGap
=============================================================================
