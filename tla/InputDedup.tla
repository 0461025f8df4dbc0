----------------------------- MODULE InputDedup -----------------------------
(***************************************************************************)
(* Keyboard input from client to server: every write goes on the reliable  *)
(* QUIC input stream and, when small, is sent a second time as an          *)
(* unreliable DATAGRAM [offset][data].  The server hands each byte to the  *)
(* session (ServerTransport.Input()) once and in order, whichever copy     *)
(* comes first (internal/qtransport: client.go SendInput and adoptConn,    *)
(* server.go readInput and readInputDatagrams, input_dedup.go).            *)
(*                                                                         *)
(* A byte is the natural number that counts it among the bytes typed, so   *)
(* two bytes of the model are equal only if they are the same keystroke.   *)
(***************************************************************************)
EXTENDS Naturals, Sequences

CONSTANTS MaxConns,   \* bound: connections dialed by the client, 1..MaxConns
          MaxTyped,   \* bound: bytes the user types
          MaxWrite,   \* bytes of one SendInput (a stdin batch)
          MaxDupInputSize, \* largest write also sent as a datagram (512)
          ReadSize    \* bytes of one read of the input stream (4096)

ASSUME InputConstants ==
    /\ MaxConns \in Nat \ {0}
    /\ MaxTyped \in Nat
    /\ MaxWrite \in Nat \ {0}
    /\ MaxDupInputSize \in Nat
    /\ ReadSize \in Nat \ {0}

Conns == 1 .. MaxConns

\* readInput and readInputDatagrams, started by handleConn for each connection.
Readers == {"stream", "datagram"}

VARIABLES
    typed,     \* bytes typed so far; the next byte is typed + 1
    cur,       \* the connection held in quicClient.in / inConn
    inOffset,  \* quicClient.inOffset
    inDatagramsOK, \* quicClient.inDatagramsOK of the current connection
    pend,      \* datagrams captured by SendInput, not yet given to the conn
    stream,    \* stream[c]: bytes accepted by the input stream of c
    alive,     \* the connections that are open at the client
    dgrams,    \* datagrams in flight
    readers,   \* readers[c]: the goroutines reading c at the server
    streamPos, \* inputDeduper.streamPos of c
    applied,   \* inputDeduper.applied of c
    hand,      \* bytes a reader of c is sending to s.input; inMu is held iff
               \* it is not empty
    holder,    \* holder[c]: the reader that held inMu of c last
    got,       \* got[c]: bytes of c that have entered s.input
    ctxDone    \* the server transport's context is cancelled

clientVars == <<typed, cur, inOffset, inDatagramsOK, pend>>
netVars    == <<stream, alive, dgrams>>
serverVars == <<readers, streamPos, applied, hand, holder, got, ctxDone>>
vars       == <<clientVars, netVars, serverVars>>

Datagram == [conn : Conns, offset : Nat, data : Seq(Nat)]

Init ==
    /\ typed = 0
    /\ cur = 1
    /\ inOffset = 0
    /\ inDatagramsOK \in BOOLEAN
    /\ pend = {}
    /\ stream = [c \in Conns |-> <<>>]
    /\ alive = {1}
    /\ dgrams = {}
    /\ readers = [c \in Conns |-> Readers]
    /\ streamPos = [c \in Conns |-> 0]
    /\ applied = [c \in Conns |-> 0]
    /\ hand = [c \in Conns |-> <<>>]
    /\ holder = [c \in Conns |-> "stream"]
    /\ got = [c \in Conns |-> <<>>]
    /\ ctxDone = FALSE

-----------------------------------------------------------------------------
(* The client.                                                             *)

\* The next n bytes the user types.
Keys(n) == [i \in 1 .. n |-> typed + i]

\* SendInput, in.Write succeeds: the stream write and the offset are updated
\* under inMu; conn and offset of the datagram copy are captured there too.
\* handleStdin is the only caller, so one datagram at most is pending.
SendInput(n) ==
    /\ pend = {}
    /\ cur \in alive
    /\ typed + n <= MaxTyped
    /\ typed' = typed + n
    /\ stream' = [stream EXCEPT ![cur] = @ \o Keys(n)]
    /\ inOffset' = inOffset + n
    /\ pend' = IF n <= MaxDupInputSize /\ inDatagramsOK
               THEN {[conn |-> cur, offset |-> inOffset, data |-> Keys(n)]}
               ELSE {}
    /\ UNCHANGED <<cur, inDatagramsOK, alive, dgrams, serverVars>>

\* SendInput, in.Write fails: the connection is dead, or dies after the stream
\* accepted the first k bytes.  The input is discarded (noteSendResult only
\* logs it), the offset does not move and no datagram is sent.
SendInputFails(n, k) ==
    /\ pend = {}
    /\ k = 0 \/ (cur \in alive /\ k < n)
    /\ typed + n <= MaxTyped
    /\ typed' = typed + n
    /\ stream' = [stream EXCEPT ![cur] = @ \o Keys(k)]
    /\ alive' = alive \ {cur}
    /\ UNCHANGED <<cur, inOffset, inDatagramsOK, pend, dgrams, serverVars>>

\* SendInput after inMu is released: conn.SendDatagram on the captured
\* connection, best effort (an error is ignored).
SendDatagram(d) ==
    /\ d \in pend
    /\ pend' = {}
    /\ \/ d.conn \in alive /\ dgrams' = dgrams \union {d}
       \/ UNCHANGED dgrams
    /\ UNCHANGED <<typed, cur, inOffset, inDatagramsOK, stream, alive, serverVars>>

\* Mutant: the offset goes on from the old stream's.
AdoptConnKeepsOffset(datagramsOK) ==
    /\ cur + 1 \in Conns
    /\ cur' = cur + 1
    /\ alive' = (alive \ {cur}) \union {cur + 1}
    /\ inDatagramsOK' = datagramsOK
    /\ UNCHANGED <<typed, inOffset, pend, stream, dgrams, serverVars>>

\* adoptConn: a new connection replaces the current one, which is closed; the
\* offset restarts at 0 with the new stream.
AdoptConn(datagramsOK) ==
    /\ cur + 1 \in Conns
    /\ cur' = cur + 1
    /\ alive' = (alive \ {cur}) \union {cur + 1}
    /\ inOffset' = 0
    /\ inDatagramsOK' = datagramsOK
    /\ UNCHANGED <<typed, pend, stream, dgrams, serverVars>>

\* The network: a connection dies at the client (idle timeout, reset) ...
ConnDies(c) ==
    /\ c \in alive
    /\ alive' = alive \ {c}
    /\ UNCHANGED <<clientVars, stream, dgrams, serverVars>>

\* ... and a datagram is lost.
LoseDatagram(d) ==
    /\ d \in dgrams
    /\ dgrams' = dgrams \ {d}
    /\ UNCHANGED <<clientVars, stream, alive, serverVars>>

-----------------------------------------------------------------------------
(* The server.                                                             *)

Least(a, b) == IF a < b THEN a ELSE b

\* Mutant: bytes a datagram has already delivered are not skipped.
FromStreamUnskipped(c, data) == data

\* Mutant: a read that datagrams have partly covered is skipped whole.
FromStreamSkipsAll(c, data) == IF streamPos[c] >= applied[c] THEN data ELSE <<>>

\* inputDeduper.fromStream: what is left of data, read at streamPos, once the
\* bytes below applied are skipped.
FromStream(c, data) ==
    IF streamPos[c] >= applied[c] THEN data
    ELSE SubSeq(data, Least(applied[c] - streamPos[c], Len(data)) + 1, Len(data))

\* Mutant: a datagram ahead of applied is taken, not only one that starts there.
FromDatagramAhead(c, offset, data) ==
    IF offset < applied[c] \/ Len(data) = 0 THEN <<>> ELSE data

\* inputDeduper.fromDatagram: data only if it starts exactly at applied.
FromDatagram(c, offset, data) ==
    IF offset # applied[c] \/ Len(data) = 0 THEN <<>> ELSE data

\* readInput: one Read of n bytes and its fromStream, under inMu.  Bytes not
\* yet applied stay in hand (with inMu) until the channel takes them.
ReadInput(c, n) ==
    /\ "stream" \in readers[c]
    /\ hand[c] = <<>>
    /\ streamPos[c] + n <= Len(stream[c])
    /\ LET data == SubSeq(stream[c], streamPos[c] + 1, streamPos[c] + n)
       IN  hand' = [hand EXCEPT ![c] = FromStream(c, data)]
    /\ streamPos' = [streamPos EXCEPT ![c] = @ + n]
    /\ applied' = [applied EXCEPT ![c] = IF @ < streamPos[c] + n
                                         THEN streamPos[c] + n ELSE @]
    /\ holder' = [holder EXCEPT ![c] = "stream"]
    /\ UNCHANGED <<clientVars, netVars, readers, got, ctxDone>>

\* readInputDatagrams: one datagram and its fromDatagram, under inMu.
ReadInputDatagrams(d) ==
    /\ d \in dgrams
    /\ "datagram" \in readers[d.conn]
    /\ hand[d.conn] = <<>>
    /\ dgrams' = dgrams \ {d}
    /\ LET out == FromDatagram(d.conn, d.offset, d.data)
       IN  /\ hand' = [hand EXCEPT ![d.conn] = out]
           /\ applied' = [applied EXCEPT ![d.conn] = @ + Len(out)]
    /\ holder' = [holder EXCEPT ![d.conn] = "datagram"]
    /\ UNCHANGED <<clientVars, stream, alive, readers, streamPos, got, ctxDone>>

\* The send to s.input that ends both readers' critical section.  The select
\* does not watch the connection: it may happen long after c has ended.
DeliverInput(c) ==
    /\ hand[c] # <<>>
    /\ got' = [got EXCEPT ![c] = @ \o hand[c]]
    /\ hand' = [hand EXCEPT ![c] = <<>>]
    /\ UNCHANGED <<clientVars, netVars, readers, streamPos, applied, holder, ctxDone>>

\* The select's other branch: the context is done, the bytes are dropped and
\* the reader returns (the other one may go on).
AbandonInput(c) ==
    /\ ctxDone
    /\ hand[c] # <<>>
    /\ hand' = [hand EXCEPT ![c] = <<>>]
    /\ readers' = [readers EXCEPT ![c] = @ \ {holder[c]}]
    /\ UNCHANGED <<clientVars, netVars, streamPos, applied, holder, got, ctxDone>>

\* A read of r on c fails (the server saw the close, the idle timeout or the
\* stall watchdog's CloseWithError) and r returns.
ReaderEnds(c, r) ==
    /\ c <= cur
    /\ r \in readers[c]
    /\ hand[c] = <<>> \/ holder[c] # r
    /\ readers' = [readers EXCEPT ![c] = @ \ {r}]
    /\ UNCHANGED <<clientVars, netVars, streamPos, applied, hand, holder, got, ctxDone>>

\* The server transport is closed.
CloseServer ==
    /\ ~ctxDone
    /\ ctxDone' = TRUE
    /\ UNCHANGED <<clientVars, netVars, readers, streamPos, applied, hand, holder, got>>

ReadSome(c) == \E n \in 1 .. ReadSize : ReadInput(c, n)

Next ==
    \/ \E n \in 1 .. MaxWrite : SendInput(n)
    \/ \E n \in 1 .. MaxWrite : \E k \in 0 .. n - 1 : SendInputFails(n, k)
    \/ \E d \in pend : SendDatagram(d)
    \/ \E ok \in BOOLEAN : AdoptConn(ok)
    \/ \E d \in dgrams : LoseDatagram(d) \/ ReadInputDatagrams(d)
    \/ \E c \in Conns : \/ ConnDies(c) \/ ReadSome(c) \/ DeliverInput(c)
                        \/ AbandonInput(c)
    \/ \E c \in Conns, r \in Readers : ReaderEnds(c, r)
    \/ CloseServer

Spec == Init /\ [][Next]_vars

\* The goroutines that run whatever the user and the network do: the stream
\* reader of each connection, and the channel's consumer (routeSharedInput,
\* handleTransportInput), which always comes back for the next item.
Fairness == \A c \in Conns : WF_vars(ReadSome(c)) /\ WF_vars(DeliverInput(c))

FairSpec == Spec /\ Fairness

-----------------------------------------------------------------------------
(* Properties.                                                             *)

\* The values of the variables.
TypeOK ==
    /\ typed \in Nat
    /\ cur \in Conns
    /\ inOffset \in Nat
    /\ inDatagramsOK \in BOOLEAN
    /\ pend \in SUBSET Datagram
    /\ stream \in [Conns -> Seq(Nat)]
    /\ alive \in SUBSET Conns
    /\ dgrams \in SUBSET Datagram
    /\ readers \in [Conns -> SUBSET Readers]
    /\ streamPos \in [Conns -> Nat]
    /\ applied \in [Conns -> Nat]
    /\ hand \in [Conns -> Seq(Nat)]
    /\ holder \in [Conns -> Readers]
    /\ got \in [Conns -> Seq(Nat)]
    /\ ctxDone \in BOOLEAN

\* No keystroke reaches the session twice: not through its two copies, and not
\* through two connections (input_dedup.go, "exactly once, in offset order").
AtMostOnce ==
    \A c1, c2 \in Conns :
        \A i \in 1 .. Len(got[c1]), j \in 1 .. Len(got[c2]) :
            got[c1][i] = got[c2][j] => c1 = c2 /\ i = j

\* Until the server closes, what the session gets from a connection is what
\* that connection's stream carries: in order and with no byte missing, though
\* two goroutines feed it and datagrams overtake the stream.
InOrderNoHole ==
    ~ctxDone =>
        \A c \in Conns :
            /\ Len(got[c]) <= Len(stream[c])
            /\ \A i \in 1 .. Len(got[c]) : got[c][i] = stream[c][i]

\* Every byte the input stream accepted reaches the session, even if all its
\* datagram copies are lost, unless the connection or the server ends first.
EveryByteArrives ==
    \A c \in Conns : \A n \in 1 .. MaxTyped :
        Len(stream[c]) >= n ~> (Len(got[c]) >= n \/ "stream" \notin readers[c] \/ ctxDone)

-----------------------------------------------------------------------------
(* The inductive invariant behind AtMostOnce and InOrderNoHole.            *)

\* A datagram carries the bytes that its offset says.
GenuineDatagram(d) ==
    /\ d.offset + Len(d.data) <= Len(stream[d.conn])
    /\ \A i \in 1 .. Len(d.data) : d.data[i] = stream[d.conn][d.offset + i]

\* Bytes go to streams in the order they were typed, connection by connection.
StreamsOrdered ==
    /\ \A c \in Conns : c > cur => stream[c] = <<>> /\ c \notin alive
    /\ \A c1, c2 \in Conns :
         \A i \in 1 .. Len(stream[c1]), j \in 1 .. Len(stream[c2]) :
            c1 < c2 \/ (c1 = c2 /\ i < j) => stream[c1][i] < stream[c2][j]
    /\ \A c \in Conns : \A i \in 1 .. Len(stream[c]) : stream[c][i] <= typed
    /\ cur \in alive => inOffset = Len(stream[cur])

\* streamPos never passes applied, nor applied the stream; what is in hand is
\* the last part of the bytes counted as applied.
DedupState ==
    \A c \in Conns :
        /\ streamPos[c] <= applied[c]
        /\ applied[c] <= Len(stream[c])
        /\ Len(hand[c]) <= applied[c]
        /\ \A i \in 1 .. Len(hand[c]) :
              hand[c][i] = stream[c][applied[c] - Len(hand[c]) + i]

\* What was delivered is old: every byte of it precedes, in its stream, the
\* bytes in hand and the bytes to come.
DeliveredOld ==
    \A c \in Conns :
        /\ \A i, j \in 1 .. Len(got[c]) : i < j => got[c][i] < got[c][j]
        /\ \A i \in 1 .. Len(got[c]) :
              \E p \in 1 .. applied[c] - Len(hand[c]) : got[c][i] = stream[c][p]

\* While the server runs nothing counted as applied is lost.
NothingDropped ==
    ~ctxDone =>
        \A c \in Conns :
            /\ Len(got[c]) + Len(hand[c]) = applied[c]
            /\ \A i \in 1 .. Len(got[c]) : got[c][i] = stream[c][i]

\* The two deduplication cursors, the datagrams in flight and the bytes in hand
\* stay consistent with the streams through every interleaving; this is the
\* inductive strengthening of AtMostOnce and InOrderNoHole.
IInv ==
    /\ TypeOK
    /\ \A d \in dgrams \union pend : GenuineDatagram(d)
    /\ StreamsOrdered
    /\ DedupState
    /\ DeliveredOld
    /\ NothingDropped
=============================================================================
