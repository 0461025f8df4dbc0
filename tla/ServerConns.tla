---------------------------- MODULE ServerConns -----------------------------
(***************************************************************************)
(* The QUIC server's table of connections (internal/qtransport/server.go)  *)
(* for one session: a reconnect replaces the entry of its client while the *)
(* old connection may live on; the session's single PTY reader writes to   *)
(* the clients in turn, so one that does not drain its connection holds    *)
(* all of them; the stall watchdog cuts it; and the -A provider is         *)
(* re-elected as connections come and go (agent.go).  Somebody deletes the *)
(* session, holding the manager's lock while its clients are told.         *)
(***************************************************************************)
EXTENDS Naturals, Sequences, FiniteSets

CONSTANTS Clients,   \* client IDs of the session
          Agents,    \* those started with -A
          MaxConns,  \* bound: connections made
          NoClient,  \* no client
          Critical   \* stallCriticalThreshold, in watchdog rounds

ASSUME ServerConnsConstants ==
    /\ Agents \subseteq Clients /\ IsFiniteSet(Clients)
    /\ NoClient \notin Clients
    /\ {MaxConns, Critical} \subseteq Nat \ {0}

Conns == 1 .. MaxConns
NoConn == 0

VARIABLES
    clients,  \* s.clients: client -> its connection or NoConn
    provider, \* agentProviders[session], or NoClient
    owner,    \* connection -> the client whose Hello it carried, or NoClient,
              \* before it and when handleConn has returned
    ctx,      \* connection -> "new", "open", "closed" (its context is done),
              \* "gone" (handleConn has returned)
    drains,   \* connections whose peer reads the output stream
    asleep,   \* those whose peer is not heard of at all
    writer,   \* connection -> who is blocked in its Write, with outMu: "none",
              \* "pty", "resync"
    blocked,  \* connection -> rounds since writeStartNano
    todo,     \* clients SendOutput has yet to write to, in order
    sending,  \* the connection it looked up, or NoConn
    deleting, \* DeleteSession: "idle", "tells" or "done"
    untold    \* clients it has yet to tell, in order

connVars == <<clients, provider, owner>>
writeVars == <<writer, blocked>>
readerVars == <<todo, sending>>
peerVars == <<drains, asleep>>
deleteVars == <<deleting, untold>>
vars == <<connVars, ctx, peerVars, writeVars, readerVars, deleteVars>>

\* quicClientIDsOut.
Order == CHOOSE q \in [1 .. Cardinality(Clients) -> Clients] :
             \A c \in Clients : \E i \in DOMAIN q : q[i] = c

Init ==
    /\ clients = [c \in Clients |-> NoConn] /\ provider = NoClient
    /\ owner = [k \in Conns |-> NoClient] /\ ctx = [k \in Conns |-> "new"]
    /\ drains = Conns /\ asleep = {}
    /\ writer = [k \in Conns |-> "none"] /\ blocked = [k \in Conns |-> 0]
    /\ todo = <<>> /\ sending = NoConn
    /\ deleting = "idle" /\ untold = <<>>

Registered == {clients[c] : c \in Clients} \ {NoConn}

\* The connections of K end, and with them the Writes blocked on them.
CloseConns(K) ==
    /\ ctx' = [k \in Conns |-> IF k \in K THEN "closed" ELSE ctx[k]]
    /\ drains' = drains \union K /\ asleep' = asleep \ K
    /\ writer' = [k \in Conns |-> IF k \in K THEN "none" ELSE writer[k]]
    /\ sending' = IF \E k \in K : writer[k] = "pty" THEN NoConn ELSE sending

\* A Write to k does not wait.
Takes(k) == k \in drains \/ ctx[k] # "open"

-----------------------------------------------------------------------------
(* handleConn.                                                             *)

\* The Hello of client c on connection k: the entry and, with -A, the provider
\* are taken over ("the last Hello wins").
Hello(c, k) ==
    /\ ctx[k] = "new" /\ \A j \in 1 .. k - 1 : ctx[j] # "new"
    /\ deleting = "idle"
    /\ owner' = [owner EXCEPT ![k] = c]
    /\ ctx' = [ctx EXCEPT ![k] = "open"]
    /\ clients' = [clients EXCEPT ![c] = k]
    /\ provider' = IF c \in Agents THEN c ELSE provider
    /\ UNCHANGED <<peerVars, writeVars, readerVars, deleteVars>>

\* A writeOutput of the resync blocks.
ResyncBlocks(k) ==
    /\ ctx[k] = "open" /\ ~Takes(k) /\ writer[k] = "none"
    /\ writer' = [writer EXCEPT ![k] = "resync"]
    /\ UNCHANGED <<connVars, ctx, peerVars, blocked, readerVars, deleteVars>>

\* Who may take over from c as provider.
Heirs(c) == {d \in Clients \ {c} : clients[d] # NoConn /\ d \in Agents}

\* Mutant: the provider is cleared and nobody takes over.
DisconnectNoHeir(k) ==
    LET c == owner[k]
        mine == clients[c] = k
    IN  /\ ctx[k] = "closed"
        /\ ctx' = [ctx EXCEPT ![k] = "gone"]
        /\ clients' = IF mine THEN [clients EXCEPT ![c] = NoConn] ELSE clients
        /\ provider' = IF mine /\ provider = c THEN NoClient ELSE provider
        /\ owner' = [owner EXCEPT ![k] = NoClient]
        /\ UNCHANGED <<peerVars, writeVars, readerVars, deleteVars>>

\* The end of handleConn: unless a newer connection of the client has replaced
\* it, the entry goes, and the provider is re-elected.
Disconnect(k) ==
    LET c == owner[k]
        mine == clients[c] = k
    IN  /\ ctx[k] = "closed"
        /\ ctx' = [ctx EXCEPT ![k] = "gone"]
        /\ clients' = IF mine THEN [clients EXCEPT ![c] = NoConn] ELSE clients
        /\ IF mine /\ c \in Agents /\ provider = c
           THEN IF Heirs(c) = {} THEN provider' = NoClient ELSE provider' \in Heirs(c)
           ELSE UNCHANGED provider
        /\ owner' = [owner EXCEPT ![k] = NoClient]
        /\ UNCHANGED <<peerVars, writeVars, readerVars, deleteVars>>

-----------------------------------------------------------------------------
(* The peers and the network.                                              *)

\* The client closes the connection, having left or replaced it.
PeerCloses(k) ==
    /\ ctx[k] = "open" /\ k \notin asleep
    /\ CloseConns({k})
    /\ blocked' = [blocked EXCEPT ![k] = 0]
    /\ UNCHANGED <<connVars, todo, deleteVars>>

\* The peer's terminal takes no output (the rest of the client is alive), or it
\* falls asleep or off the network ...
PeerStops(k) ==
    /\ ctx[k] = "open" /\ k \in drains
    /\ drains' = drains \ {k}
    /\ asleep' \in {asleep, asleep \union {k}}
    /\ UNCHANGED <<connVars, ctx, writeVars, readerVars, deleteVars>>

\* ... and comes back: a blocked Write returns.
PeerResumes(k) ==
    /\ ctx[k] = "open" /\ k \notin drains
    /\ drains' = drains \union {k} /\ asleep' = asleep \ {k}
    /\ writer' = [writer EXCEPT ![k] = "none"]
    /\ blocked' = [blocked EXCEPT ![k] = 0]
    /\ sending' = IF writer[k] = "pty" THEN NoConn ELSE sending
    /\ UNCHANGED <<connVars, ctx, todo, deleteVars>>

\* quic-go gives up a peer that has been silent for MaxIdleTimeout.
IdleTimeout(k) ==
    /\ ctx[k] = "open" /\ k \in asleep
    /\ CloseConns({k})
    /\ blocked' = [blocked EXCEPT ![k] = 0]
    /\ UNCHANGED <<connVars, todo, deleteVars>>

-----------------------------------------------------------------------------
(* SendOutput, called by the PTY reader.                                   *)

SendOutput ==
    /\ todo = <<>> /\ sending = NoConn /\ deleting = "idle"
    /\ todo' = Order
    /\ UNCHANGED <<connVars, ctx, peerVars, writeVars, sending, deleteVars>>

\* The next client is looked up under s.mu.
LookUp ==
    /\ todo # <<>> /\ sending = NoConn
    /\ todo' = Tail(todo)
    /\ sending' = clients[Head(todo)]
    /\ UNCHANGED <<connVars, ctx, peerVars, writeVars, deleteVars>>

\* writeOutput, once outMu is free: the Write returns at once, or blocks with
\* writeStartNano set.
WriteOutput ==
    /\ sending # NoConn
    /\ writer[sending] = "none"
    /\ IF Takes(sending)
       THEN sending' = NoConn /\ UNCHANGED writer
       ELSE writer' = [writer EXCEPT ![sending] = "pty"] /\ UNCHANGED sending
    /\ UNCHANGED <<connVars, ctx, peerVars, blocked, todo, deleteVars>>

-----------------------------------------------------------------------------
(* stallWatchdog.                                                          *)

Overdue(k) == writer[k] # "none" /\ blocked[k] + 1 >= Critical

Blocked(K) ==
    [k \in Conns |-> IF k \in K THEN 0
                     ELSE IF writer[k] # "none" /\ blocked[k] < Critical THEN blocked[k] + 1
                     ELSE blocked[k]]

\* Mutant: nobody is cut off.
WatchWarns ==
    /\ blocked' = Blocked({})
    /\ UNCHANGED <<connVars, ctx, peerVars, writer, readerVars, deleteVars>>

\* An interval passes and the watchdog makes its round: of the connections in
\* s.clients, those whose Write has taken longer than the critical threshold are
\* closed.  (Below it others are warned.)
Watch ==
    LET K == {k \in Registered : Overdue(k)}
    IN  /\ CloseConns(K)
        /\ blocked' = Blocked(K)
        /\ UNCHANGED <<connVars, todo, deleteVars>>

-----------------------------------------------------------------------------
(* DeleteSession: Close tells the clients, under the manager's lock.       *)

DeleteSession ==
    /\ deleting = "idle"
    /\ deleting' = "tells" /\ untold' = Order
    /\ UNCHANGED <<connVars, ctx, peerVars, writeVars, readerVars>>

\* SendSessionGone: writeCtrl returns at once if there is no such client, and
\* otherwise when the peer is there to take the frame or the connection has ended.
SendSessionGone ==
    /\ untold # <<>>
    /\ LET k == clients[Head(untold)]
       IN  k # NoConn => k \notin asleep
    /\ untold' = Tail(untold)
    /\ deleting' = IF untold' = <<>> THEN "done" ELSE deleting
    /\ UNCHANGED <<connVars, ctx, peerVars, writeVars, readerVars>>

-----------------------------------------------------------------------------

Next ==
    \/ \E k \in Conns : \/ \E c \in Clients : Hello(c, k)
                        \/ ResyncBlocks(k) \/ Disconnect(k)
                        \/ PeerCloses(k) \/ PeerStops(k) \/ PeerResumes(k)
                        \/ IdleTimeout(k)
    \/ SendOutput \/ LookUp \/ WriteOutput
    \/ Watch
    \/ DeleteSession \/ SendSessionGone

Spec == Init /\ [][Next]_vars

\* quic-go's timer fires, and a goroutine that can go on again and again does (Go's
\* mutexes are not unfair for ever).  A client that is awake closes the connection
\* it has replaced; nothing else is promised of the peers.  (Each happens once at most to
\* a connection, so that fairness to all of them together is fairness to each.)
Fairness ==
    /\ WF_vars(Watch)
    /\ WF_vars(LookUp) /\ SF_vars(WriteOutput) /\ SF_vars(SendSessionGone)
    /\ WF_vars(\E k \in Conns : IdleTimeout(k)) /\ WF_vars(\E k \in Conns : Disconnect(k))
    /\ WF_vars(\E k \in Conns \ Registered : PeerCloses(k))

FairSpec == Spec /\ Fairness

-----------------------------------------------------------------------------
(* Properties.                                                             *)

TypeOK ==
    /\ clients \in [Clients -> Conns \union {NoConn}]
    /\ provider \in Clients \union {NoClient}
    /\ owner \in [Conns -> Clients \union {NoClient}]
    /\ ctx \in [Conns -> {"new", "open", "closed", "gone"}]
    /\ drains \subseteq Conns /\ asleep \subseteq Conns \ drains
    /\ writer \in [Conns -> {"none", "pty", "resync"}]
    /\ sending \in Conns \union {NoConn}
    /\ deleting \in {"idle", "tells", "done"} /\ untold \in Seq(Clients)

\* handleConn's election: while a client with -A is in the table, the provider is
\* one, whatever the order in which old and new connections of the clients end;
\* OpenAgentStream fails with "no provider" only if there is none.
ProviderElected ==
    /\ TypeOK
    /\ IF \E c \in Agents : clients[c] # NoConn
       THEN provider \in Agents /\ clients[provider] # NoConn
       ELSE provider = NoClient

\* stallWatchdog: no registered client holds its connection, and with it the
\* session's output, longer than the critical threshold and a round.
StallIsCut == \A k \in Registered : blocked[k] < Critical

\* The table of clients names a provider that is there and keeps no client that holds
\* the output up.
TableInOrder == ProviderElected /\ StallIsCut

\* What a client that does not drain can hold is released: the PTY reader comes back
\* from SendOutput, also when the connection it is blocked on has been superseded and
\* the watchdog no longer sees it, and DeleteSession gives the manager's lock back.
NobodyHeldForEver ==
    /\ (sending # NoConn) ~> (sending = NoConn)
    /\ (deleting = "tells") ~> (deleting = "done")

\* server.go:426-430: "past the critical threshold [it] disconnects the client's QUIC
\* connection and releases the PTY reader".
ReaderReleasedInTime ==
    \A k \in Conns : writer[k] = "pty" => blocked[k] < Critical
=============================================================================
