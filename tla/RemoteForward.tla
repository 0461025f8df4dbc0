---------------------------- MODULE RemoteForward ----------------------------
(***************************************************************************)
(* The registry of remote port forwards (-R) in internal/session/          *)
(* rforward.go, for one port, and the calls that reach it from             *)
(* quicServer.handleConn: hello when a connection is set up, gone when it  *)
(* ends.  Both calls are made outside quicServer.mu.  Clients of one       *)
(* device share the port; another device waits.  A client that loses its   *)
(* connection stays registered, dormant, for a while so that the port is   *)
(* not released.                                                           *)
(***************************************************************************)
EXTENDS Naturals, FiniteSets

CONSTANTS Clients,    \* transport.ClientID
          DeviceOf,   \* the device ID each client sends
          SessionOf,  \* the session of each client
          NoDevice,   \* the empty device ID
          MaxConns,   \* bound: connections of each client
          MaxClock,   \* bound: the clock stops here
          DormantTTL  \* rfwdDormantTTL (24 h)

Devices == {DeviceOf[c] : c \in Clients}
Sessions == {SessionOf[c] : c \in Clients}
Conns(c) == 1 .. MaxConns[c]

ASSUME RemoteForwardConstants ==
    /\ NoDevice \notin Devices
    /\ DOMAIN DeviceOf = Clients /\ DOMAIN SessionOf = Clients
    /\ MaxConns \in [Clients -> Nat]
    /\ {MaxClock, DormantTTL} \subseteq Nat

VARIABLES
    clock,
    hellos,    \* helloAt of the latest Hello (a count; no two are equal)
    provs,     \* rfwdPort.provs: a record for each registered client
    owner,     \* rfwdPort.owner; the port is bound iff it is a device
    bindErr,   \* rfwdPort.bindErr is set
    taken,     \* another process of the host listens on the port
    regd,      \* quicServer.clients: the connection registered for a client
    handler,   \* handler[c][k]: where handleConn of connection k of c is
    dropped    \* sessions deleted by DeleteSession

registryVars == <<provs, owner, bindErr>>
connVars == <<regd, handler>>
portVars == <<clock, hellos, registryVars, taken, connVars, dropped>>

\* handleConn: "new", "registered" (in quicServer.clients, rfwdHello to come),
\* "serving", "exited" or "lost" (the client exited, or the connection was lost:
\* stillMine decided, rfwdGone to come), "ended".
Leaving == {"exited", "lost"}
HandlerStates == {"new", "registered", "serving", "ended"} \union Leaving

NoProvs == [c \in {} |-> FALSE]

PortInit ==
    /\ clock = 0 /\ hellos = 0
    /\ provs = NoProvs
    /\ owner = NoDevice
    /\ bindErr = FALSE
    /\ taken \in BOOLEAN
    /\ regd = [c \in Clients |-> 0]
    /\ handler = [c \in Clients |-> [k \in Conns(c) |-> "new"]]
    /\ dropped = {}

-----------------------------------------------------------------------------
(* reconcileLocked.                                                        *)

\* hasDevice, over the clients in S.
HasDevice(S, d) == \E c \in S : DeviceOf[c] = d

\* latestLive: the device of the last to say Hello among the clients in S.
LatestDevice(ps, S) ==
    DeviceOf[CHOOSE c \in S : \A b \in S : ps[b].helloAt <= ps[c].helloAt]

\* stateFor: what a client is told of the port.
StateFor(own, err, c) ==
    CASE own = DeviceOf[c] -> "active"
      [] own \notin {DeviceOf[c], NoDevice} -> "busy"
      [] own = NoDevice /\ err -> "bindfail"
      [] OTHER -> ""

\* The notice of a client's state, which is not sent twice.  told is what the
\* client has been told on its present connection.
Notify(pr, st) ==
    IF st = pr.notice THEN pr ELSE [pr EXCEPT !.notice = st, !.told = st]

\* Mutant: a bind that has failed is not tried again.
ReconcileBindsOnce(ps) ==
    LET kept == {c \in DOMAIN ps : ps[c].live \/ clock - ps[c].lostAt <= DormantTTL}
        live == {c \in kept : ps[c].live}
        held == owner # NoDevice /\ HasDevice(kept, owner)
        bind == ~held /\ live # {} /\ ~bindErr
        own  == IF held THEN owner
                ELSE IF bind /\ ~taken THEN LatestDevice(ps, live) ELSE NoDevice
        err  == IF bind THEN taken ELSE bindErr
    IN  /\ owner' = IF kept = {} THEN NoDevice ELSE own
        /\ bindErr' = IF kept = {} THEN FALSE ELSE err
        /\ provs' = [c \in kept |->
                       IF c \in live THEN Notify(ps[c], StateFor(own, err, c)) ELSE ps[c]]

\* Mutant: dormant registrations do not hold the port.
ReconcileLiveOnly(ps) ==
    LET kept == {c \in DOMAIN ps : ps[c].live \/ clock - ps[c].lostAt <= DormantTTL}
        live == {c \in kept : ps[c].live}
        held == owner # NoDevice /\ HasDevice(live, owner)
        bind == ~held /\ live # {}
        own  == IF held THEN owner
                ELSE IF bind /\ ~taken THEN LatestDevice(ps, live) ELSE NoDevice
        err  == IF bind THEN taken ELSE bindErr
    IN  /\ owner' = IF kept = {} THEN NoDevice ELSE own
        /\ bindErr' = IF kept = {} THEN FALSE ELSE err
        /\ provs' = [c \in kept |->
                       IF c \in live THEN Notify(ps[c], StateFor(own, err, c)) ELSE ps[c]]

\* Expired registrations go; the port is released if its device has none left,
\* and bound for the latest live one if nobody has it; clients are told of a
\* change; an empty port is deleted.  ps is provs as the caller changed it.
Reconcile(ps) ==
    LET kept == {c \in DOMAIN ps : ps[c].live \/ clock - ps[c].lostAt <= DormantTTL}
        live == {c \in kept : ps[c].live}
        held == owner # NoDevice /\ HasDevice(kept, owner)
        bind == ~held /\ live # {}
        own  == IF held THEN owner
                ELSE IF bind /\ ~taken THEN LatestDevice(ps, live) ELSE NoDevice
        err  == IF bind THEN taken ELSE bindErr
    IN  /\ owner' = IF kept = {} THEN NoDevice ELSE own
        /\ bindErr' = IF kept = {} THEN FALSE ELSE err
        /\ provs' = [c \in kept |->
                       IF c \in live THEN Notify(ps[c], StateFor(own, err, c)) ELSE ps[c]]

Without(c) == [b \in DOMAIN provs \ {c} |-> provs[b]]

-----------------------------------------------------------------------------
(* The operations of the registry.                                         *)

\* hello, for a client that offers the port.
Hello(c) ==
    LET pr == [live |-> TRUE, helloAt |-> hellos + 1, lostAt |-> 0,
               notice |-> "", told |-> ""]
    IN  /\ hellos' = hellos + 1
        /\ Reconcile([b \in DOMAIN provs \union {c} |-> IF b = c THEN pr ELSE provs[b]])

\* Mutant: a client that loses its connection is removed as if it had exited.
GoneForgets(c, explicit) ==
    IF c \notin DOMAIN provs THEN UNCHANGED registryVars ELSE Reconcile(Without(c))

\* gone: an explicit exit, or the end of a client that does not hold the port,
\* removes the registration; a lost connection of the owner makes it dormant.
Gone(c, explicit) ==
    IF c \notin DOMAIN provs THEN UNCHANGED registryVars
    ELSE IF explicit \/ DeviceOf[c] # owner THEN Reconcile(Without(c))
    ELSE Reconcile([provs EXCEPT ![c].live = FALSE, ![c].lostAt = clock])

\* tick, every 30 s.
Tick ==
    /\ IF provs = NoProvs THEN UNCHANGED registryVars ELSE Reconcile(provs)
    /\ UNCHANGED <<clock, hellos, taken, connVars, dropped>>

\* Mutant: the session's clients go, the port is not reconsidered.
DropSessionUnreconciled(s) ==
    /\ s \notin dropped
    /\ dropped' = dropped \union {s}
    /\ provs' = [b \in {c \in DOMAIN provs : SessionOf[c] # s} |-> provs[b]]
    /\ UNCHANGED <<clock, hellos, owner, bindErr, taken, connVars>>

\* DeleteSession: dropSession removes the session's clients.
DropSession(s) ==
    LET gone == {c \in DOMAIN provs : SessionOf[c] = s}
    IN  /\ s \notin dropped
        /\ dropped' = dropped \union {s}
        /\ IF gone = {} THEN UNCHANGED registryVars
           ELSE Reconcile([b \in DOMAIN provs \ gone |-> provs[b]])
        /\ UNCHANGED <<clock, hellos, taken, connVars>>

-----------------------------------------------------------------------------
(* handleConn.                                                             *)

SetHandler(c, k, st) == handler' = [handler EXCEPT ![c][k] = st]

\* The Hello of connection k of c is read: it is put in quicServer.clients.
Register(c, k) ==
    /\ handler[c][k] = "new"
    /\ \A j \in 1 .. k - 1 : handler[c][j] # "new"
    /\ regd' = [regd EXCEPT ![c] = k]
    /\ SetHandler(c, k, "registered")
    /\ UNCHANGED <<clock, hellos, registryVars, taken, dropped>>

\* rfwdHello
CallHello(c, k) ==
    /\ handler[c][k] = "registered"
    /\ Hello(c)
    /\ SetHandler(c, k, "serving")
    /\ UNCHANGED <<clock, taken, regd, dropped>>

\* The connection ends.  If it is still the registered one it is removed and
\* rfwdGone will be called; a client that exits says so in the close code.
ConnEnds(c, k, how) ==
    /\ handler[c][k] = "serving"
    /\ IF regd[c] = k
       THEN regd' = [regd EXCEPT ![c] = 0] /\ SetHandler(c, k, how)
       ELSE regd' = regd /\ SetHandler(c, k, "ended")
    /\ UNCHANGED <<clock, hellos, registryVars, taken, dropped>>

\* rfwdGone
CallGone(c, k) ==
    /\ handler[c][k] \in Leaving
    /\ Gone(c, handler[c][k] = "exited")
    /\ SetHandler(c, k, "ended")
    /\ UNCHANGED <<clock, hellos, taken, regd, dropped>>

\* The host: another process takes the port when it is free, or releases it.
OtherProcess ==
    /\ owner = NoDevice
    /\ taken' = ~taken
    /\ UNCHANGED <<clock, hellos, registryVars, connVars, dropped>>

Elapse ==
    /\ clock < MaxClock
    /\ clock' = clock + 1
    /\ UNCHANGED <<hellos, registryVars, taken, connVars, dropped>>

PortNext ==
    \/ \E c \in Clients : \E k \in Conns(c) :
         \/ Register(c, k) \/ CallHello(c, k) \/ CallGone(c, k)
         \/ \E how \in Leaving : ConnEnds(c, k, how)
    \/ Tick
    \/ \E s \in Sessions : DropSession(s)
    \/ OtherProcess
    \/ Elapse

PortSpec == PortInit /\ [][PortNext]_portVars

\* The registry's ticker runs.
PortFairSpec == PortSpec /\ WF_portVars(Tick)

-----------------------------------------------------------------------------
(* Properties.                                                             *)

Notices == {"", "active", "busy", "bindfail"}

\* The values of the variables; an event is never recorded in the future.
PortTypeOK ==
    /\ clock \in 0 .. MaxClock /\ hellos \in Nat
    /\ DOMAIN provs \subseteq Clients
    /\ \A c \in DOMAIN provs :
         provs[c] \in [live : BOOLEAN, helloAt : 1 .. hellos, lostAt : 0 .. clock,
                       notice : Notices, told : Notices]
    /\ owner \in Devices \union {NoDevice}
    /\ bindErr \in BOOLEAN /\ taken \in BOOLEAN
    /\ \A c \in Clients : /\ regd[c] \in 0 .. MaxConns[c]
                         /\ handler[c] \in [Conns(c) -> HandlerStates]
    /\ dropped \in SUBSET Sessions

\* The port is held for a device only as long as one of its clients is
\* registered, connected or dormant, and it stays free with somebody connected
\* who asks for it only because the bind failed.
PortHeldForADevice ==
    /\ owner # NoDevice => HasDevice(DOMAIN provs, owner)
    /\ owner = NoDevice => \A c \in DOMAIN provs : ~provs[c].live \/ bindErr

\* The last thing a connected client was told about the port, on its present
\* connection, is true: no change of ownership goes unannounced, and a client that
\* is back is told what happened meanwhile, although no notice is repeated.
NoticesUpToDate ==
    \A c \in DOMAIN provs :
        provs[c].live => provs[c].told = StateFor(owner, bindErr, c)

\* Another machine never takes the port from one that has it: it changes hands
\* only when no client of the first is registered any more.  In particular a
\* machine that sleeps finds its port again.
NeverStolen ==
    [][owner # NoDevice /\ owner' # owner => ~HasDevice(DOMAIN provs', owner)]_portVars

\* A machine that loses its connections keeps the port: its registration ends
\* only by an exit, by the deletion of its session, or after DormantTTL.
KeptWhileAsleep ==
    [][\A c \in DOMAIN provs :
         DeviceOf[c] = owner /\ c \notin DOMAIN provs' =>
            \/ SessionOf[c] \in dropped'
            \/ \E k \in Conns(c) : handler[c][k] = "exited"
            \/ ~provs[c].live /\ clock - provs[c].lostAt > DormantTTL]_portVars

\* A port does not stay free while someone connected asks for it and no other
\* process has it.
PortIsBound ==
    []<>(owner # NoDevice \/ taken \/ \A c \in DOMAIN provs : ~provs[c].live)

Overdue(c) ==
    c \in DOMAIN provs /\ ~provs[c].live /\ clock - provs[c].lostAt > DormantTTL

\* A machine that never returns gives the port up: no registration stays dormant
\* longer than DormantTTL.
DormantExpires == []<>(\A c \in Clients : ~Overdue(c))

\* A connected client of the machine keeps the tunnel working.  README.md: "the
\* tunnel lasts as long as any of them does", "new ones work as soon as a client
\* is back".
ConnectedIsLive ==
    \A c \in Clients :
        /\ regd[c] # 0 /\ handler[c][regd[c]] = "serving"
        /\ \A k \in Conns(c) : handler[c][k] \notin Leaving
        /\ SessionOf[c] \notin dropped
        => c \in DOMAIN provs /\ provs[c].live

\* The port belongs to a machine that is there or may come back, and the clients know.
PortConsistent == PortTypeOK /\ PortHeldForADevice /\ NoticesUpToDate

\* With the ticker alone the port is bound when it can be and given up when it must.
PortSettles == PortIsBound /\ DormantExpires
==============================================================================
