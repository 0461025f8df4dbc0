----------------------------- MODULE UnixFanout -----------------------------
(***************************************************************************)
(* Output of one session to its attached clients over the Unix socket, and *)
(* the client's renderer that merges it with the QUIC path                 *)
(* (internal/session/session.go, handleConnection in cmd/tezzerd/main.go,  *)
(* cmd/tezzer/output.go, client.go and connect.go).  Per client there are  *)
(* OutCh, the goroutine that sends the backlog, the one that writes OutCh  *)
(* to the connection, and the connection's read loop.  A QUIC connection   *)
(* is reduced to what OutputDelivery shows of it: the chunks after the     *)
(* offset the client asked for, in order.                                  *)
(***************************************************************************)
EXTENDS Naturals, Sequences

CONSTANTS Clients,  \* clients that may attach
          MaxSeq,   \* bound on the chunks the PTY produces
          OutCap,   \* capacity of OutCh (1000)
          MaxDials, \* bound on the QUIC connections a client makes
          Widths    \* terminal widths clients ask for, the narrowest first

ASSUME FanoutConstants ==
    /\ MaxSeq \in Nat /\ MaxDials \in Nat /\ OutCap \in Nat \ {0}
    /\ Widths \subseteq Nat \ {0, 1}

VARIABLES
    seq,       \* outputSeq: chunks 1..seq exist
    hot,       \* the first chunk that is still in the hot layer
    reader,    \* the PTY reader: its step, chunk and copied client list
    quicReady, \* UDS delivery is allowed
    clients,   \* s.clients
    ids,       \* quicClientIDsOut
    active,    \* clients with a registered QUIC connection
    cols,      \* width of the PTY
    wanted,    \* GHOST: the width a client last asked for
    outCh,     \* queue of frames per client
    notices,   \* running sendOutputDroppedNotification goroutines
    backlog,   \* sendBufferedOutput: its step, chunks left and width read
    writer,    \* "none", "select", "write", "ended"
    frame,     \* the frame the writer has in hand
    loop,      \* the read loop: "none", "read", "detached", "closed", "ended"
    conn,      \* the Unix connection: "none", "open", "left" (by the client),
               \* "closed" (by the server)
    quicCh,    \* chunks on the way on the QUIC connection
    dials,     \* QUIC connections made
    ct,        \* startQUICTransport: "none", "seeded", "started", "set"
    lastOffset,\* newest offset the QUIC transport received or was seeded with
    screen,    \* chunks written to the terminal
    stopped    \* outputStopped: the client has said good-bye

sessVars == <<seq, hot, reader, quicReady, clients, ids>>
sizeVars == <<cols, wanted>>
outVars == <<outCh, notices, writer, frame>>
connVars == <<loop, conn>>
quicVars == <<active, quicCh, dials, ct, lastOffset>>
termVars == <<screen, stopped>>
vars == <<sessVars, sizeVars, outVars, backlog, connVars, quicVars, termVars>>

Output(n) == [kind |-> "OUTPUT", seq |-> n]
Dropped == [kind |-> "OUTPUT_DROPPED", seq |-> 0]
Closed == [kind |-> "SESSION_CLOSED", seq |-> 0]
NoFrame == [kind |-> "none", seq |-> 0]
Idle == [pc |-> "none", chunks |-> <<>>, width |-> 0]
Chunks(from, to) == [i \in 1 .. (IF from > to THEN 0 ELSE to - from + 1) |-> from + i - 1]

\* The PTY has output and no client yet; a created session is pending QUIC.
Init ==
    /\ seq = 0 /\ hot = 1
    /\ reader = [pc |-> "read", seq |-> 0, clients |-> {}, ids |-> {}]
    /\ quicReady \in BOOLEAN /\ clients = {} /\ ids = {} /\ active = {}
    /\ cols \in {w \in Widths : \A v \in Widths : w <= v} /\ wanted = cols
    /\ outCh = [c \in Clients |-> <<>>] /\ notices = [c \in Clients |-> 0]
    /\ backlog = [c \in Clients |-> Idle]
    /\ writer = [c \in Clients |-> "none"] /\ frame = [c \in Clients |-> NoFrame]
    /\ loop = [c \in Clients |-> "none"] /\ conn = [c \in Clients |-> "none"]
    /\ quicCh = [c \in Clients |-> <<>>] /\ dials = [c \in Clients |-> 0]
    /\ ct = [c \in Clients |-> "none"] /\ lastOffset = [c \in Clients |-> 0]
    /\ screen = [c \in Clients |-> <<>>] /\ stopped = [c \in Clients |-> FALSE]

-----------------------------------------------------------------------------
(* The PTY reader: handlePTYOutput, notifySessionClosed                     *)

\* Under s.mu: number and append the chunk, evict, copy who shall get it.
AppendOutput ==
    /\ reader.pc = "read" /\ seq < MaxSeq
    /\ seq' = seq + 1
    /\ hot' \in {hot, hot + 1}
    /\ reader' = [pc |-> "quic", seq |-> seq + 1, clients |-> clients, ids |-> ids]
    /\ UNCHANGED <<quicReady, clients, ids, sizeVars, outVars, backlog, connVars,
                   quicVars, termVars>>

\* SendOutput to the registered clients that are connected now.
SendQUIC ==
    /\ reader.pc = "quic"
    /\ quicCh' = [c \in Clients |-> IF c \in reader.ids \cap active
                                    THEN Append(quicCh[c], reader.seq) ELSE quicCh[c]]
    /\ reader' = [reader EXCEPT !.pc = "uds"]
    /\ UNCHANGED <<seq, hot, quicReady, clients, ids, sizeVars, outVars, backlog, connVars,
                   active, dials, ct, lastOffset, termVars>>

\* A client whose QUICClientID is active on QUIC is skipped.  The attach
\* requests of tezzer carry no client ID, so that no client has one.
QUICClientID(c) == 0
SkippedOverUDS == {c \in reader.clients : QUICClientID(c) # 0 /\ c \in active}

\* Queue the chunk on OutCh; where it is full, drop it and try to say so.
FanOut ==
    /\ reader.pc = "uds"
    /\ \E to \in {IF quicReady THEN reader.clients \ SkippedOverUDS ELSE {}} :
         LET full == {c \in to : Len(outCh[c]) >= OutCap}
         IN  /\ outCh' = [c \in Clients |-> IF c \in to \ full
                                            THEN Append(outCh[c], Output(reader.seq))
                                            ELSE outCh[c]]
             /\ notices' = [c \in Clients |-> IF c \in full THEN notices[c] + 1 ELSE notices[c]]
    /\ reader' = [reader EXCEPT !.pc = "read"]
    /\ UNCHANGED <<seq, hot, quicReady, clients, ids, sizeVars, backlog, writer, frame,
                   connVars, quicVars, termVars>>

\* A frame is queued if there is room, else lost.
Offer(c, f) == IF Len(outCh[c]) < OutCap THEN Append(outCh[c], f) ELSE outCh[c]

SendOutputDroppedNotification(c) ==
    /\ notices[c] > 0
    /\ notices' = [notices EXCEPT ![c] = @ - 1]
    /\ outCh' = IF c \in clients THEN [outCh EXCEPT ![c] = Offer(c, Dropped)] ELSE outCh
    /\ UNCHANGED <<sessVars, sizeVars, backlog, writer, frame, connVars, quicVars, termVars>>

\* The PTY ends: every client is told, where its queue has room.
NotifySessionClosed ==
    /\ reader.pc = "read"
    /\ reader' = [reader EXCEPT !.pc = "ended"]
    /\ outCh' = [c \in Clients |-> IF c \in clients THEN Offer(c, Closed) ELSE outCh[c]]
    /\ UNCHANGED <<seq, hot, quicReady, clients, ids, sizeVars, notices, backlog, writer,
                   frame, connVars, quicVars, termVars>>

-----------------------------------------------------------------------------
(* Attach, backlog, redraw, detach                                          *)

Resize(w) == cols' = IF reader.pc = "ended" THEN cols ELSE w

\* ATTACH_SESSION: resize unless the client is read-only, register, start the
\* backlog's goroutine, answer, then start the writer.
AttachClient(c) ==
    /\ conn[c] = "none" /\ reader.pc # "ended"
    /\ \/ UNCHANGED sizeVars
       \/ \E w \in Widths : w >= wanted /\ Resize(w) /\ wanted' = w
    /\ clients' = clients \cup {c}
    /\ conn' = [conn EXCEPT ![c] = "open"]
    /\ backlog' = [backlog EXCEPT ![c].pc = "copy"]
    /\ writer' = [writer EXCEPT ![c] = "select"]
    /\ loop' = [loop EXCEPT ![c] = "read"]
    /\ UNCHANGED <<seq, hot, reader, quicReady, ids, outCh, notices, frame, quicVars, termVars>>

\* sendBufferedOutput copies the hot layer under the lock (FromSeq is 0) ...
CopyBacklog(c) ==
    /\ backlog[c].pc = "copy"
    /\ backlog' = [backlog EXCEPT ![c].pc = "send", ![c].chunks = Chunks(hot, seq)]
    /\ UNCHANGED <<sessVars, sizeVars, outVars, connVars, quicVars, termVars>>

\* Mutant: the backlog waits for room whether its client is there or not.
SendBacklogWaits(c) ==
    /\ backlog[c].pc = "send" /\ backlog[c].chunks # <<>>
    /\ Len(outCh[c]) < OutCap
    /\ outCh' = [outCh EXCEPT ![c] = Append(@, Output(Head(backlog[c].chunks)))]
    /\ backlog' = [backlog EXCEPT ![c].chunks = Tail(@)]
    /\ UNCHANGED <<sessVars, sizeVars, notices, writer, frame, connVars, quicVars, termVars>>

\* ... queues it chunk by chunk, waiting for room, and gives up on Done ...
SendBacklog(c) ==
    /\ backlog[c].pc = "send" /\ backlog[c].chunks # <<>>
    /\ \/ /\ Len(outCh[c]) < OutCap
          /\ outCh' = [outCh EXCEPT ![c] = Append(@, Output(Head(backlog[c].chunks)))]
          /\ backlog' = [backlog EXCEPT ![c].chunks = Tail(@)]
       \/ /\ c \notin clients
          /\ backlog' = [backlog EXCEPT ![c] = [Idle EXCEPT !.pc = "ended"]]
          /\ UNCHANGED outCh
    /\ UNCHANGED <<sessVars, sizeVars, notices, writer, frame, connVars, quicVars, termVars>>

\* ... and RequestRedraw reads the width, shrinks it by one ...
ReadWidth(c) ==
    /\ backlog[c].pc = "send" /\ backlog[c].chunks = <<>>
    /\ backlog' = [backlog EXCEPT
         ![c] = [Idle EXCEPT !.pc = IF reader.pc = "ended" THEN "ended" ELSE "shrink",
                             !.width = cols]]
    /\ UNCHANGED <<sessVars, sizeVars, outVars, connVars, quicVars, termVars>>

Shrink(c) ==
    /\ backlog[c].pc = "shrink"
    /\ Resize(backlog[c].width - 1)
    /\ backlog' = [backlog EXCEPT ![c].pc = "restore"]
    /\ UNCHANGED <<sessVars, wanted, outVars, connVars, quicVars, termVars>>

\* ... and after 50 ms sets the width it read.
Restore(c) ==
    /\ backlog[c].pc = "restore"
    /\ Resize(backlog[c].width)
    /\ backlog' = [backlog EXCEPT ![c] = [Idle EXCEPT !.pc = "ended"]]
    /\ UNCHANGED <<sessVars, wanted, outVars, connVars, quicVars, termVars>>

\* A RESIZE of the client, over either path (bound: the terminal never gets narrower).
ClientResize(c) ==
    /\ conn[c] = "open" /\ reader.pc # "ended"
    /\ \E w \in Widths : w >= wanted /\ Resize(w) /\ wanted' = w
    /\ UNCHANGED <<sessVars, outVars, backlog, connVars, quicVars, termVars>>

\* The writer goroutine: wait for a frame or for Done ...
WriterSelects(c) ==
    /\ writer[c] = "select"
    /\ \/ /\ outCh[c] # <<>>
          /\ frame' = [frame EXCEPT ![c] = Head(outCh[c])]
          /\ outCh' = [outCh EXCEPT ![c] = Tail(@)]
          /\ writer' = [writer EXCEPT ![c] = "write"]
       \/ /\ c \notin clients
          /\ writer' = [writer EXCEPT ![c] = "ended"]
          /\ UNCHANGED <<outCh, frame>>
    /\ UNCHANGED <<sessVars, sizeVars, notices, backlog, connVars, quicVars, termVars>>

\* ... and end with the first write that fails.
WriteFails(c) ==
    /\ writer[c] = "write" /\ conn[c] # "open"
    /\ writer' = [writer EXCEPT ![c] = "ended"]
    /\ frame' = [frame EXCEPT ![c] = NoFrame]
    /\ UNCHANGED <<sessVars, sizeVars, outCh, notices, backlog, connVars, quicVars, termVars>>

\* The read loop ends with the connection: DetachClient closes Done ...
DetachClient(c) ==
    /\ loop[c] = "read" /\ conn[c] = "left"
    /\ clients' = clients \ {c}
    /\ loop' = [loop EXCEPT ![c] = "detached"]
    /\ UNCHANGED <<seq, hot, reader, quicReady, ids, sizeVars, outVars, backlog, conn,
                   quicVars, termVars>>

\* ... the connection is closed, so that a blocked write ends ...
CloseConn(c) ==
    /\ loop[c] = "detached"
    /\ conn' = [conn EXCEPT ![c] = "closed"]
    /\ loop' = [loop EXCEPT ![c] = "closed"]
    /\ UNCHANGED <<sessVars, sizeVars, outVars, backlog, quicVars, termVars>>

\* ... and the handler waits for the writer.
AwaitWriter(c) ==
    /\ loop[c] = "closed" /\ writer[c] = "ended"
    /\ loop' = [loop EXCEPT ![c] = "ended"]
    /\ UNCHANGED <<sessVars, sizeVars, outVars, backlog, conn, quicVars, termVars>>

-----------------------------------------------------------------------------
(* The client's renderer and its QUIC path                                  *)

\* renderedSeq: the newest chunk on the screen.
RenderedSeq(c) == IF screen[c] = <<>> THEN 0 ELSE screen[c][Len(screen[c])]

\* Mutant: what both paths deliver is shown twice.
RendersTwice(c, n, fromQUIC) ==
    /\ ~stopped[c]
    /\ n >= RenderedSeq(c)
    /\ n <= RenderedSeq(c) + 1 \/ fromQUIC \/ ct[c] # "set"

\* Mutant: a gap is skipped whatever comes after it.
RendersGaps(c, n, fromQUIC) == ~stopped[c] /\ n > RenderedSeq(c)

\* Over the Unix socket a gap is skipped only while there is no QUIC transport.
Renders(c, n, fromQUIC) ==
    /\ ~stopped[c]
    /\ n > RenderedSeq(c)
    /\ n = RenderedSeq(c) + 1 \/ fromQUIC \/ ct[c] # "set"

RenderOutput(c, n, fromQUIC) ==
    screen' = IF Renders(c, n, fromQUIC) THEN [screen EXCEPT ![c] = Append(@, n)] ELSE screen

\* handleServer reads the frame being written.  SESSION_CLOSED ends the client.
HandleServer(c) ==
    /\ writer[c] = "write" /\ conn[c] = "open"
    /\ frame' = [frame EXCEPT ![c] = NoFrame]
    /\ writer' = [writer EXCEPT ![c] = "select"]
    /\ CASE frame[c].kind = "OUTPUT" ->
              RenderOutput(c, frame[c].seq, FALSE) /\ UNCHANGED <<stopped, conn>>
         [] frame[c].kind = "SESSION_CLOSED" ->
              /\ stopped' = [stopped EXCEPT ![c] = TRUE]
              /\ conn' = [conn EXCEPT ![c] = "left"]
              /\ UNCHANGED screen
         [] OTHER -> UNCHANGED <<screen, stopped, conn>>
    /\ UNCHANGED <<sessVars, sizeVars, outCh, notices, backlog, loop, quicVars>>

\* The user detaches, or the client or its ssh tunnel dies.
Leave(c) ==
    /\ conn[c] = "open"
    /\ conn' = [conn EXCEPT ![c] = "left"]
    /\ stopped' = [stopped EXCEPT ![c] = TRUE]
    /\ active' = active \ {c}
    /\ UNCHANGED <<sessVars, sizeVars, outVars, backlog, loop, quicCh, dials, ct, lastOffset,
                   screen>>

\* startQUICTransport: send the client ID, and take what is rendered as the
\* offset to resume from ...
SeedTransport(c) ==
    /\ conn[c] = "open" /\ ct[c] = "none"
    /\ ids' = ids \cup {c}
    /\ ct' = [ct EXCEPT ![c] = "seeded"]
    /\ lastOffset' = [lastOffset EXCEPT ![c] = RenderedSeq(c)]
    /\ UNCHANGED <<seq, hot, reader, quicReady, clients, sizeVars, outVars, backlog, connVars,
                   active, quicCh, dials, termVars>>

\* ... connect (again, after a loss): the server registers the connection,
\* replays what follows lastOffset, and both gates of the session are open ...
QUICConnects(c) ==
    /\ ct[c] # "none" /\ c \notin active /\ ~stopped[c] /\ dials[c] < MaxDials
    /\ dials' = [dials EXCEPT ![c] = @ + 1]
    /\ active' = active \cup {c}
    /\ quicCh' = [quicCh EXCEPT ![c] = Chunks(lastOffset[c] + 1, seq)]
    /\ quicReady' = TRUE
    /\ ct' = [ct EXCEPT ![c] = IF @ = "seeded" THEN "started" ELSE @]
    /\ UNCHANGED <<seq, hot, reader, clients, ids, sizeVars, outVars, backlog, connVars,
                   lastOffset, termVars>>

\* ... and publish the transport to the renderer.
SetTransport(c) ==
    /\ ct[c] = "started"
    /\ ct' = [ct EXCEPT ![c] = "set"]
    /\ UNCHANGED <<sessVars, sizeVars, outVars, backlog, connVars, active, quicCh, dials,
                   lastOffset, termVars>>

\* The connection is lost with what was on it.
QUICLost(c) ==
    /\ c \in active
    /\ active' = active \ {c}
    /\ quicCh' = [quicCh EXCEPT ![c] = <<>>]
    /\ UNCHANGED <<sessVars, sizeVars, outVars, backlog, connVars, dials, ct, lastOffset,
                   termVars>>

\* handleQUICOutput: a duplicate ends in the transport, the rest is rendered.
HandleQUICOutput(c) ==
    /\ ct[c] = "set" /\ quicCh[c] # <<>> /\ ~stopped[c]
    /\ \E n \in {Head(quicCh[c])} :
         IF n <= lastOffset[c] THEN UNCHANGED <<lastOffset, screen>>
         ELSE /\ lastOffset' = [lastOffset EXCEPT ![c] = n]
              /\ RenderOutput(c, n, TRUE)
    /\ quicCh' = [quicCh EXCEPT ![c] = Tail(@)]
    /\ UNCHANGED <<sessVars, sizeVars, outVars, backlog, connVars, active, dials, ct, stopped>>

-----------------------------------------------------------------------------
ReaderStep == AppendOutput \/ SendQUIC \/ FanOut \/ NotifySessionClosed
ServerStep(c) ==
    \/ SendOutputDroppedNotification(c)
    \/ AttachClient(c) \/ CopyBacklog(c) \/ SendBacklog(c) \/ ReadWidth(c) \/ Shrink(c)
    \/ Restore(c) \/ WriterSelects(c) \/ WriteFails(c) \/ DetachClient(c) \/ CloseConn(c)
    \/ AwaitWriter(c)
ClientStep(c) ==
    \/ ClientResize(c) \/ HandleServer(c) \/ Leave(c) \/ SeedTransport(c)
    \/ QUICConnects(c) \/ SetTransport(c) \/ QUICLost(c) \/ HandleQUICOutput(c)

Next == ReaderStep \/ \E c \in Clients : ServerStep(c) \/ ClientStep(c)

\* The server's goroutines run; a client may stall for ever, and what the
\* PTY prints is up to its program.
Fairness ==
    /\ WF_vars(SendQUIC \/ FanOut)
    /\ \A c \in Clients :
         /\ WF_vars(CopyBacklog(c) \/ SendBacklog(c) \/ ReadWidth(c) \/ Shrink(c) \/ Restore(c))
         /\ WF_vars(WriterSelects(c) \/ WriteFails(c))
         /\ WF_vars(DetachClient(c) \/ CloseConn(c) \/ AwaitWriter(c))

Spec == Init /\ [][Next]_vars /\ Fairness

-----------------------------------------------------------------------------
(* Properties                                                               *)

Ascending(s) == \A i \in 1 .. Len(s) - 1 : s[i] < s[i + 1]

TypeOK ==
    /\ seq \in 0 .. MaxSeq /\ hot \in 1 .. seq + 1
    /\ reader.pc \in {"read", "quic", "uds", "ended"} /\ quicReady \in BOOLEAN
    /\ clients \subseteq Clients /\ ids \subseteq Clients /\ active \subseteq Clients
    /\ \A c \in Clients :
         /\ Len(outCh[c]) <= OutCap /\ notices[c] <= MaxSeq
         /\ backlog[c].pc \in {"none", "copy", "send", "shrink", "restore", "ended"}
         /\ lastOffset[c] \in 0 .. MaxSeq /\ dials[c] \in 0 .. MaxDials

\* Whatever order the backlog's goroutine, the live fan-out and the two paths
\* deliver the chunks in, each is rendered at most once and in session order.
ShownOnceInOrder == TypeOK /\ \A c \in Clients : Ascending(screen[c])

\* Once the QUIC transport is published to the renderer, no chunk is rendered
\* across a gap: what the Unix socket dropped is left to QUIC, whose replay
\* starts at or before the first chunk missing on the screen.
NoGapOnceOnQUIC ==
    [][\A c \in Clients :
         ct[c] = "set" /\ Len(screen'[c]) > Len(screen[c])
            => screen'[c][Len(screen'[c])] = RenderedSeq(c) + 1]_vars

\* A client that stalls never holds up the PTY reader.
ReaderNotHeldUp == reader.pc \in {"quic", "uds"} ~> reader.pc \in {"read", "ended"}

\* When a client is gone its handler, its writer and its backlog end, also
\* where they are blocked on a full queue or in a write.
DetachFreesAll ==
    \A c \in Clients :
        conn[c] = "left" ~> /\ loop[c] = "ended" /\ writer[c] = "ended"
                            /\ backlog[c].pc = "ended"

\* session.go:933-935: a chunk that goes to a client over its active QUIC
\* connection is not sent to it over the Unix socket as well.
OneRoute ==
    [][\A c \in Clients :
         /\ reader.pc = "uds" /\ reader'.pc = "read"
         /\ c \in active /\ \E i \in 1 .. Len(quicCh[c]) : quicCh[c][i] = reader.seq
         => outCh'[c] = outCh[c]]_vars

\* session.go:1095-1099: the redraw's shrunk width is restored; with no
\* redraw under way the PTY has the width a client last asked for.
WidthAsAsked ==
    \/ cols = wanted \/ reader.pc = "ended"
    \/ \E c \in Clients : backlog[c].pc \in {"shrink", "restore"}

\* docs/architecture.md:10-11: on attach the retained chunks are replayed: a
\* client that has read all there is, over one path with room for it, shows
\* every chunk that is still in the hot layer.
BacklogShown ==
    \A c \in Clients :
        /\ conn[c] = "open" /\ ct[c] = "none" /\ reader.pc = "read" /\ quicReady
        /\ backlog[c].pc = "ended" /\ outCh[c] = <<>> /\ writer[c] = "select"
        /\ MaxSeq < OutCap
        => \A n \in hot .. seq : \E i \in 1 .. Len(screen[c]) : screen[c][i] = n

\* Nobody waits for a client that stalls or is gone: not the PTY reader, and none of
\* the goroutines that served it.
NobodyWaits == ReaderNotHeldUp /\ DetachFreesAll
=============================================================================
