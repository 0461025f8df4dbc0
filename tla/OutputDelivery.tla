--------------------------- MODULE OutputDelivery ---------------------------
(***************************************************************************)
(* A session's output on its way to one client over QUIC, across            *)
(* reconnects.  At the server the PTY reader numbers each chunk and writes  *)
(* it to whatever connection is registered for the client, while the        *)
(* handler of a new connection replays what the client has missed           *)
(* (internal/session: handlePTYOutput, outputFromOffset;                    *)
(* internal/qtransport/server.go: handleConn, SendOutput).  At the client   *)
(* one pump per connection drops what lastOffset says is known and feeds a  *)
(* channel that a single goroutine renders (qtransport/client.go:           *)
(* adoptConn, pumpOutput; cmd/tezzer: handleQUICOutput, renderOutput).      *)
(* The ring buffer retains everything here; OutputBuffer is about what it   *)
(* forgets.                                                                 *)
(***************************************************************************)
EXTENDS Naturals, Sequences, SequencesExt

CONSTANTS MaxSeq,    \* bound: chunks the PTY produces
          MaxConns,  \* bound: connections the client dials
          BatchSize, \* chunks of one outputFromOffset batch
          OutCap,    \* capacity of quicClient.out (256)
          Faults     \* what may go wrong with a new connection: "lateHello", its
                     \* Hello is read after that of a newer one; adoptConn fails
                     \* once the Hello is sent, "reconnectFails" when the current
                     \* connection is dead, "failoverFails" when it is alive

ASSUME DeliveryConstants ==
    /\ {MaxSeq, MaxConns, BatchSize, OutCap} \subseteq Nat \ {0}
    /\ Faults \subseteq {"lateHello", "reconnectFails", "failoverFails"}

Conns == 1 .. MaxConns
None == 0

VARIABLES
    seq,        \* Session.seq
    ptyPC,      \* handlePTYOutput: "read", "lookup" or "write"
    target,     \* the serverClient SendOutput looked up
    clients,    \* quicServer.clients[cid]: a connection, or None
    handler,    \* handleConn of c: "none", "hello", "resync", "live" or "ended"
    last,       \* LastOffset in the Hello of c
    next,       \* handleConn's next
    todo,       \* chunks of the current batch not yet written
    written,    \* offsets written to the output stream of c
    dials,      \* connections dialed so far
    dialed,     \* the connection whose Hello is sent but that is not adopted
    cur,        \* quicClient.conn
    up,         \* connections open at the client
    readPos,    \* frames read from the output stream of c
    pump,       \* pump[c]: "read", or the frame it holds and how far it is
    lastOffset, \* quicClient.lastOffset
    out,        \* quicClient.out
    renderedSeq,
    rendered    \* offsets written to stdout

ptyVars    == <<seq, ptyPC, target>>
serverVars == <<clients, handler, last, next, todo, written>>
connVars   == <<dials, dialed, cur, up>>
pumpVars   == <<readPos, pump, lastOffset, out>>
renderVars == <<renderedSeq, rendered>>
vars == <<ptyVars, serverVars, connVars, pumpVars, renderVars>>

Offsets == 1 .. MaxSeq

Init ==
    /\ seq = 0 /\ ptyPC = "read" /\ target = None
    /\ clients = None
    /\ handler = [c \in Conns |-> "none"]
    /\ last = [c \in Conns |-> 0]
    /\ next = [c \in Conns |-> 1]
    /\ todo = [c \in Conns |-> <<>>]
    /\ written = [c \in Conns |-> <<>>]
    /\ dials = 0 /\ dialed = None /\ cur = None /\ up = {}
    /\ readPos = [c \in Conns |-> 0]
    /\ pump = [c \in Conns |-> [at |-> "read", offset |-> 0]]
    /\ lastOffset = 0
    /\ out = <<>>
    /\ renderedSeq = 0
    /\ rendered = <<>>

-----------------------------------------------------------------------------
(* The PTY reader.                                                         *)

\* handlePTYOutput under Session.mu: the chunk is numbered and retained.
HandlePTYOutput ==
    /\ ptyPC = "read"
    /\ seq < MaxSeq
    /\ seq' = seq + 1
    /\ ptyPC' = "lookup"
    /\ UNCHANGED <<target, serverVars, connVars, pumpVars, renderVars>>

\* SendOutput looks the client up under quicServer.mu ...
LookupClient ==
    /\ ptyPC = "lookup"
    /\ target' = clients
    /\ ptyPC' = IF clients = None THEN "read" ELSE "write"
    /\ UNCHANGED <<seq, serverVars, connVars, pumpVars, renderVars>>

\* ... and writes to it under that connection's outMu, long after perhaps.  The
\* write fails if the connection has ended.
SendOutput ==
    /\ ptyPC = "write"
    /\ ptyPC' = "read"
    /\ target' = None
    /\ written' = IF handler[target] = "ended" THEN written
                  ELSE [written EXCEPT ![target] = Append(@, seq)]
    /\ UNCHANGED <<seq, clients, handler, last, next, todo, connVars, pumpVars, renderVars>>

-----------------------------------------------------------------------------
(* handleConn.                                                             *)

\* Mutant: the resync starts one chunk too late.
RegisterSkipsOne(c) ==
    /\ handler[c] = "hello"
    /\ "lateHello" \in Faults \/ \A d \in Conns : d > c => handler[d] \in {"none", "hello"}
    /\ clients' = c
    /\ handler' = [handler EXCEPT ![c] = "resync"]
    /\ next' = [next EXCEPT ![c] = last[c] + 2]
    /\ UNCHANGED <<ptyVars, last, todo, written, connVars, pumpVars, renderVars>>

\* The Hello is read and the connection registered, replacing another one.
\* Connections have a goroutine each; nothing orders their Hellos.
Register(c) ==
    /\ handler[c] = "hello"
    /\ "lateHello" \in Faults \/ \A d \in Conns : d > c => handler[d] \in {"none", "hello"}
    /\ clients' = c
    /\ handler' = [handler EXCEPT ![c] = "resync"]
    /\ next' = [next EXCEPT ![c] = last[c] + 1]
    /\ UNCHANGED <<ptyVars, last, todo, written, connVars, pumpVars, renderVars>>

\* outputFromOffset(next): the next chunks retained; none ends the resync.
OnResync(c) ==
    LET size == IF seq + 1 - next[c] < BatchSize THEN seq + 1 - next[c] ELSE BatchSize
    IN  /\ handler[c] = "resync"
        /\ todo[c] = <<>>
        /\ IF size <= 0
           THEN /\ handler' = [handler EXCEPT ![c] = "live"]
                /\ UNCHANGED todo
           ELSE /\ todo' = [todo EXCEPT ![c] = [i \in 1 .. size |-> next[c] + i - 1]]
                /\ UNCHANGED handler
        /\ UNCHANGED <<ptyVars, clients, last, next, written, connVars, pumpVars, renderVars>>

\* writeOutput of one chunk of the batch.
WriteResync(c) ==
    /\ handler[c] = "resync"
    /\ todo[c] # <<>>
    /\ written' = [written EXCEPT ![c] = Append(@, Head(todo[c]))]
    /\ next' = [next EXCEPT ![c] = Head(todo[c]) + 1]
    /\ todo' = [todo EXCEPT ![c] = Tail(@)]
    /\ UNCHANGED <<ptyVars, clients, handler, last, connVars, pumpVars, renderVars>>

\* The server notices that the connection is over and removes it, if it is
\* still the registered one (stillMine).
HandlerEnds(c) ==
    /\ handler[c] \in {"hello", "resync", "live"}
    /\ c \notin up /\ c # dialed
    /\ handler' = [handler EXCEPT ![c] = "ended"]
    /\ clients' = IF clients = c THEN None ELSE clients
    /\ UNCHANGED <<ptyVars, last, next, todo, written, connVars, pumpVars, renderVars>>

-----------------------------------------------------------------------------
(* The client's connections.                                               *)

\* Mutant: the Hello names the first offset wanted, not the last one received.
SendHelloNextOffset(c) ==
    /\ dialed = None
    /\ c = dials + 1
    /\ dials' = c
    /\ dialed' = c
    /\ last' = [last EXCEPT ![c] = lastOffset + 1]
    /\ handler' = [handler EXCEPT ![c] = "hello"]
    /\ UNCHANGED <<ptyVars, clients, next, todo, written, cur, up, pumpVars, renderVars>>

\* reconnect or failover: a new connection is dialed and adoptConn sends the
\* Hello, with the lastOffset of that moment.
SendHello(c) ==
    /\ dialed = None
    /\ c = dials + 1
    /\ dials' = c
    /\ dialed' = c
    /\ last' = [last EXCEPT ![c] = lastOffset]
    /\ handler' = [handler EXCEPT ![c] = "hello"]
    /\ UNCHANGED <<ptyVars, clients, next, todo, written, cur, up, pumpVars, renderVars>>

\* adoptConn: the old connection is closed and the new one's pump started.
AdoptConn ==
    /\ dialed # None
    /\ cur' = dialed
    /\ up' = (up \ {cur}) \union {dialed}
    /\ dialed' = None
    /\ UNCHANGED <<dials, ptyVars, serverVars, pumpVars, renderVars>>

\* adoptConn fails after the Hello (OpenUniStreamSync): the new connection is
\* closed and the current one kept.
AdoptFails ==
    /\ (IF cur \in up THEN "failoverFails" ELSE "reconnectFails") \in Faults
    /\ dialed \notin {None, MaxConns}
    /\ dialed' = None
    /\ UNCHANGED <<dials, cur, up, ptyVars, serverVars, pumpVars, renderVars>>

\* A connection is lost.  The last one of the bounded number stays up.
ConnDies(c) ==
    /\ c \in up
    /\ c < MaxConns
    /\ up' = up \ {c}
    /\ UNCHANGED <<ptyVars, serverVars, dials, dialed, cur, pumpVars, renderVars>>

-----------------------------------------------------------------------------
(* pumpOutput, one goroutine per connection, and the renderer.             *)

\* readOutputFrame; it fails once the connection is closed.
ReadOutputFrame(c) ==
    /\ pump[c].at = "read"
    /\ c \in up
    /\ readPos[c] < Len(written[c])
    /\ readPos' = [readPos EXCEPT ![c] = @ + 1]
    /\ pump' = [pump EXCEPT ![c] = [at |-> "load", offset |-> written[c][readPos[c] + 1]]]
    /\ UNCHANGED <<ptyVars, serverVars, connVars, lastOffset, out, renderVars>>

\* lastOffset.Load: a known offset is dropped.
LoadLastOffset(c) ==
    /\ pump[c].at = "load"
    /\ pump' = [pump EXCEPT ![c].at = IF pump[c].offset <= lastOffset
                                      THEN "read" ELSE "store"]
    /\ UNCHANGED <<ptyVars, serverVars, connVars, readPos, lastOffset, out, renderVars>>

\* lastOffset.Store
StoreLastOffset(c) ==
    /\ pump[c].at = "store"
    /\ lastOffset' = pump[c].offset
    /\ pump' = [pump EXCEPT ![c].at = "send"]
    /\ UNCHANGED <<ptyVars, serverVars, connVars, readPos, out, renderVars>>

\* out <- chunk
SendOut(c) ==
    /\ pump[c].at = "send"
    /\ Len(out) < OutCap
    /\ out' = Append(out, pump[c].offset)
    /\ pump' = [pump EXCEPT ![c].at = "read"]
    /\ UNCHANGED <<ptyVars, serverVars, connVars, readPos, lastOffset, renderVars>>

\* Mutant: the renderer relies on the pumps to remove duplicates.
RenderOutputUnchecked ==
    /\ out # <<>>
    /\ out' = Tail(out)
    /\ renderedSeq' = Head(out)
    /\ rendered' = Append(rendered, Head(out))
    /\ UNCHANGED <<ptyVars, serverVars, connVars, readPos, pump, lastOffset>>

\* handleQUICOutput, renderOutput(fromQUIC = true): offsets up to renderedSeq are
\* dropped, later ones may skip some.
RenderOutput ==
    /\ out # <<>>
    /\ out' = Tail(out)
    /\ IF Head(out) <= renderedSeq
       THEN UNCHANGED renderVars
       ELSE /\ renderedSeq' = Head(out)
            /\ rendered' = Append(rendered, Head(out))
    /\ UNCHANGED <<ptyVars, serverVars, connVars, readPos, pump, lastOffset>>

-----------------------------------------------------------------------------

Pty == HandlePTYOutput \/ LookupClient \/ SendOutput
Handle(c) == Register(c) \/ OnResync(c) \/ WriteResync(c)
PumpOutput(c) == ReadOutputFrame(c) \/ LoadLastOffset(c) \/ StoreLastOffset(c) \/ SendOut(c)

Next ==
    \/ Pty
    \/ \E c \in Conns : \/ Handle(c) \/ HandlerEnds(c) \/ SendHello(c)
                        \/ ConnDies(c) \/ PumpOutput(c)
    \/ AdoptConn
    \/ AdoptFails
    \/ RenderOutput

Spec == Init /\ [][Next]_vars

\* The goroutines run, and a client whose connection is lost dials again and
\* again (watchdog, recoverWith) until one succeeds.
Fairness ==
    /\ WF_vars(LookupClient \/ SendOutput)
    /\ \A c \in Conns : /\ WF_vars(Handle(c))
                        /\ WF_vars(PumpOutput(c))
                        /\ WF_vars(c # 1 /\ cur \notin up /\ SendHello(c))
    /\ WF_vars(SendHello(1))
    /\ WF_vars(AdoptConn)
    /\ WF_vars(RenderOutput)

FairSpec == Spec /\ Fairness

-----------------------------------------------------------------------------
(* Properties.                                                             *)

\* The values of the variables.
TypeOK ==
    /\ seq \in 0 .. MaxSeq
    /\ ptyPC \in {"read", "lookup", "write"}
    /\ target \in Conns \union {None}
    /\ clients \in Conns \union {None}
    /\ handler \in [Conns -> {"none", "hello", "resync", "live", "ended"}]
    /\ last \in [Conns -> 0 .. MaxSeq]
    /\ next \in [Conns -> 1 .. MaxSeq + 1]
    /\ todo \in [Conns -> Seq(Offsets)]
    /\ written \in [Conns -> Seq(Offsets)]
    /\ dials \in 0 .. MaxConns
    /\ dialed \in Conns \union {None}
    /\ cur \in Conns \union {None}
    /\ up \in SUBSET Conns
    /\ readPos \in [Conns -> Nat]
    /\ pump \in [Conns -> [at : {"read", "load", "store", "send"}, offset : 0 .. MaxSeq]]
    /\ lastOffset \in 0 .. MaxSeq
    /\ out \in Seq(Offsets)
    /\ renderedSeq \in 0 .. MaxSeq
    /\ rendered \in Seq(Offsets)

\* Because a connection is registered before its resync reads the buffer, no
\* chunk falls between the two: once the resync is over the stream of the
\* registered connection carries every chunk the client has not got, except the
\* one the PTY reader is about to write.
NothingBetweenReplayAndLive ==
    \A c \in Conns : clients = c /\ handler[c] = "live" =>
        \A n \in last[c] + 1 .. seq :
            \/ n \in ToSet(written[c])
            \/ n = seq /\ (ptyPC = "lookup" \/ (ptyPC = "write" /\ target = c))

\* The end of an old connection does not cut a newer one off from live output:
\* when all other handlers have ended, a connection that is up and past its
\* Hello is the registered one.  server.go, handleConn: the end of the old
\* connection must not remove the new serverClient.
NewConnStaysRegistered ==
    \A c \in up : /\ handler[c] \in {"resync", "live"}
                  /\ \A d \in Conns \ {c} : handler[d] \in {"none", "ended"}
                  => clients = c

\* Every chunk shown is newer than those before it, although the pumps of an
\* old and a new connection may deliver the same chunks in any order: what the
\* user sees is a behaviour of Terminal.
T == INSTANCE Terminal WITH produced <- seq, shown <- rendered
ShownOnceInOrder == T!TerminalSpec

\* The newest output reaches the terminal, through reconnects at any moment.
NewestShown == \A n \in Offsets : seq >= n ~> renderedSeq >= n

\* Nothing is missing on the terminal while the ring buffer retains everything.
\* docs/protocol.md: "the server replays everything after it from the session's
\* output ring buffer before switching to live output".
NothingMissing == \A n \in 1 .. renderedSeq : n \in ToSet(rendered)

\* Between the replay and live output nothing falls, and the connection that gets live
\* output stays the newest one.
ReplayThenLive ==
    TypeOK /\ NothingBetweenReplayAndLive /\ NewConnStaysRegistered
=============================================================================
