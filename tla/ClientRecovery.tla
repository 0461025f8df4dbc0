--------------------------- MODULE ClientRecovery ---------------------------
(***************************************************************************)
(* How the client keeps its QUIC connection                                *)
(* (internal/qtransport/client.go and liveness.go): the watchdog, failing  *)
(* keystrokes and the ping loop start recoveries at any time; a recovery   *)
(* migrates the connection to a new socket, or dials the candidates and    *)
(* adopts a new connection.  A socket (quic.Transport) must stay open      *)
(* while a live connection is registered with it, and must be closed once  *)
(* it is not.                                                              *)
(***************************************************************************)
EXTENDS Naturals, FiniteSets

CONSTANTS Addrs,       \* addresses of the server
          V4,          \* those that are IPv4
          Lists,       \* candidate lists the refresher may compute
          Goroutines,  \* bound: recoverWith calls running or waiting at once
          Sockets,     \* bound: sockets that are open at once
          MaxPaths,    \* maxPathTransports (2)
          MaxFails,    \* backoffFails stops counting here (30)
          MaxBackoff,  \* reconnectBackoffMax in watchdog ticks (60)
          Throttle,    \* inputBackoffResetInterval in ticks (5)
          Silence,     \* pings without a pong until a failover is tried
          MaxChanges   \* bound on changes of the network

ASSUME RecoveryConstants ==
    /\ V4 \subseteq Addrs /\ Lists \subseteq (SUBSET Addrs) \ {{}} /\ Lists # {}
    /\ {MaxPaths, MaxFails, Throttle, MaxChanges} \subseteq Nat
    /\ {MaxBackoff, Silence} \subseteq Nat \ {0} /\ Sockets \subseteq Nat
    /\ "live" \notin Goroutines   \* the ping loop is none of them

VARIABLES
    reachable,    \* the addresses that answer
    changes,      \* changes of the network so far
    candidates,   \* the client's candidate list
    conn,         \* the connection: address, sockets it is registered with,
                  \* whether its path works from here, the server still has
                  \* it, and the client has seen it end
    state,        \* "connected", "recovering", "closed"
    tr,           \* the socket in use
    paths,        \* pathTransports
    retired,      \* sockets waiting for transportRetireGrace
    open,         \* open sockets
    recovering,   \* the flag that admits one recovery
    pc,           \* recoverWith's step per goroutine
    job,          \* per goroutine: addresses it dials, winner, socket in hand
    fails, wait,  \* backoffFails, and the ticks until backoffUntil
    throttle,     \* ticks until input may reset the backoff again
    jump,         \* a wall clock jump to be seen: "no", "short", "long"
    cooldown,     \* jumpRecoveryCooldown is running
    silent,       \* pings sent since the last pong, or the last try
    watched,      \* the ping loop watches the current connection
    closed        \* Close has cancelled the context

netVars == <<reachable, changes>>
sockVars == <<tr, paths, retired, open>>
backoffVars == <<fails, wait, throttle>>
watchVars == <<jump, cooldown>>
pingVars == <<silent, watched>>
recVars == <<recovering, pc, job>>
vars == <<netVars, candidates, conn, state, sockVars, recVars, backoffVars, watchVars,
          pingVars, closed>>

Live == "live"     \* livenessLoop's goroutine, which runs failover itself
Procs == Goroutines \cup {Live}
\* A socket to open: any free one, say the least.
Free == {s \in Sockets \ open : \A t \in Sockets \ open : s <= t}
NoAddr == "none"
NoJob == [dial |-> {}, addr |-> NoAddr, sock |-> {}, from |-> NoAddr]
Dead == conn.ended
Works == ~conn.ended /\ conn.server /\ conn.path /\ conn.addr \in reachable
OtherFamily(a) == {b \in candidates : (b \in V4) # (a \in V4)}

\* Connected with the first candidate list; any socket is as good as another.
Init ==
    /\ candidates \in Lists
    /\ reachable \in SUBSET Addrs /\ changes = 0
    /\ tr \in Sockets /\ \A s \in Sockets : tr <= s
    /\ \E a \in candidates \cap reachable :
         conn = [addr |-> a, socks |-> {tr}, path |-> TRUE, server |-> TRUE, ended |-> FALSE]
    /\ state = "connected" /\ paths = {} /\ retired = {} /\ open = {tr}
    /\ recovering = FALSE /\ pc = [p \in Procs |-> "idle"] /\ job = [p \in Procs |-> NoJob]
    /\ fails = 0 /\ wait = 0 /\ throttle = 0
    /\ jump = "no" /\ cooldown = FALSE /\ silent = 0 /\ watched = FALSE /\ closed = FALSE

-----------------------------------------------------------------------------
(* The network                                                              *)

\* Addresses become reachable or stop being so.
NetworkChanges ==
    /\ changes < MaxChanges /\ changes' = changes + 1
    /\ \E r \in SUBSET Addrs : reachable' = r
    /\ UNCHANGED <<candidates, conn, state, sockVars, recVars, backoffVars, watchVars,
                   pingVars, closed>>

\* The laptop sleeps: the clock jumps, the NAT binding may be gone, and after
\* a long sleep the server's idle timeout may have passed.
Sleep ==
    /\ changes < MaxChanges /\ changes' = changes + 1
    /\ jump' \in {"short", "long"}
    /\ \E path, server \in BOOLEAN :
         /\ jump' = "short" => server
         /\ conn' = [conn EXCEPT !.path = @ /\ path, !.server = @ /\ server]
    /\ UNCHANGED <<reachable, candidates, state, sockVars, recVars, backoffVars, cooldown,
                   pingVars, closed>>

\* MaxIdleTimeout: a connection that gets nothing through ends at both ends.
IdleTimeout ==
    /\ ~conn.ended /\ ~Works
    /\ conn' = [conn EXCEPT !.ended = TRUE, !.server = FALSE]
    /\ UNCHANGED <<netVars, candidates, state, sockVars, recVars, backoffVars, watchVars,
                   pingVars, closed>>

\* retireTransport's goroutine closes the socket; closing one that a live
\* connection is registered with destroys that connection.
CloseRetired(s) ==
    /\ s \in retired
    /\ retired' = retired \ {s} /\ open' = open \ {s}
    /\ conn' = [conn EXCEPT !.ended = @ \/ s \in conn.socks]
    /\ UNCHANGED <<netVars, candidates, state, tr, paths, recVars, backoffVars, watchVars,
                   pingVars, closed>>

-----------------------------------------------------------------------------
(* Who starts a recovery                                                    *)

\* go recoverWith(reason, tryMigrate)
Spawn(how) ==
    \/ \E g \in Goroutines :
         /\ pc[g] = "idle"
         /\ pc' = [pc EXCEPT ![g] = how]
    \/ /\ \A g \in Goroutines : pc[g] # "idle"
       /\ UNCHANGED pc

Reset == fails' = 0 /\ wait' = 0
Countdown(n) == IF n = 0 THEN 0 ELSE n - 1

\* Mutant: a connection that ends by itself is left to the next keystroke.
WatchdogIgnoresDead ==
    /\ ~closed
    /\ jump' = "no"
    /\ throttle' = Countdown(throttle)
    /\ wait' = Countdown(wait)
    /\ IF state = "recovering" THEN Spawn("recover") ELSE UNCHANGED pc
    /\ UNCHANGED <<netVars, candidates, conn, state, sockVars, recovering, job, fails, cooldown,
                   pingVars, closed>>

\* One tick of the watchdog, a second of the backoff's clock.
Watchdog ==
    /\ ~closed
    /\ jump' = "no"
    /\ throttle' = Countdown(throttle)
    /\ \/ /\ state = "recovering"
          /\ Spawn("recover") /\ UNCHANGED <<cooldown, fails>> /\ wait' = Countdown(wait)
       \/ /\ state # "recovering" /\ jump # "no" /\ ~cooldown
          /\ cooldown' = TRUE /\ Reset
          /\ Spawn(IF jump = "long" THEN "reconnect" ELSE "recover")
       \/ /\ state # "recovering" /\ jump = "no" /\ Dead
          /\ Spawn("recover") /\ UNCHANGED <<cooldown, fails>> /\ wait' = Countdown(wait)
       \/ /\ state # "recovering" /\ (IF jump = "no" THEN ~Dead ELSE cooldown)
          /\ wait' = Countdown(wait)
          /\ UNCHANGED <<pc, cooldown, fails>>
    /\ UNCHANGED <<netVars, candidates, conn, state, sockVars, recovering, job, pingVars, closed>>

CooldownEnds ==
    /\ cooldown /\ cooldown' = FALSE
    /\ UNCHANGED <<netVars, candidates, conn, state, sockVars, recVars, backoffVars, jump,
                   pingVars, closed>>

\* SendInput fails on an ended connection: resetBackoffByInput, then recover.
InputFails ==
    /\ Dead /\ ~closed
    /\ IF throttle = 0 THEN throttle' = Throttle /\ Reset ELSE UNCHANGED backoffVars
    /\ Spawn("recover")
    /\ UNCHANGED <<netVars, candidates, conn, state, sockVars, recovering, job, watchVars,
                   pingVars, closed>>

\* A tick of livenessLoop: ping while there is another family to go to, and
\* after Silence unanswered pings fail over, unless a recovery is running.
LivenessTick ==
    /\ ~closed /\ pc[Live] = "idle"
    /\ IF state = "connected" /\ OtherFamily(conn.addr) # {} THEN
         /\ watched' = TRUE
         /\ IF watched /\ silent + 1 >= Silence THEN
              /\ silent' = 0
              /\ IF recovering THEN UNCHANGED recVars
                 ELSE /\ recovering' = TRUE
                      /\ pc' = [pc EXCEPT ![Live] = "failover"]
                      /\ job' = [job EXCEPT ![Live] = [NoJob EXCEPT
                                    !.dial = OtherFamily(conn.addr), !.from = conn.addr]]
            ELSE silent' = (IF watched THEN silent + 1 ELSE 0) /\ UNCHANGED recVars
       ELSE watched' = FALSE /\ silent' = 0 /\ UNCHANGED recVars
    /\ UNCHANGED <<netVars, candidates, conn, state, sockVars, backoffVars, watchVars, closed>>

Pong ==
    /\ Works /\ silent > 0 /\ silent' = 0
    /\ UNCHANGED <<netVars, candidates, conn, state, sockVars, recVars, backoffVars, watchVars,
                   watched, closed>>

-----------------------------------------------------------------------------
(* A recovery                                                               *)

\* migrateMu is held from these steps to the end of migrate, reconnect or
\* the adoption of a failover.
Locked == \E p \in Procs : pc[p] \in {"probe", "dial", "refresh", "redial", "adopt"}

\* The goroutine ends and lets the next recovery in.
End(g) ==
    /\ recovering' = FALSE
    /\ pc' = [pc EXCEPT ![g] = "idle"]
    /\ job' = [job EXCEPT ![g] = NoJob]

\* The flag is taken by one; in the backoff it is given back at once.
RecoverWith(g) ==
    /\ pc[g] \in {"recover", "reconnect"}
    /\ IF recovering THEN pc' = [pc EXCEPT ![g] = "idle"] /\ UNCHANGED <<recovering, job>>
       ELSE IF wait > 0 THEN End(g)
       ELSE /\ recovering' = TRUE
            /\ pc' = [pc EXCEPT ![g] = IF @ = "recover" /\ ~Dead THEN "migrate" ELSE "lock"]
            /\ UNCHANGED job
    /\ UNCHANGED <<netVars, candidates, conn, state, sockVars, backoffVars, watchVars, pingVars,
                   closed>>

\* migrate: with too many paths held, or where AddPath fails, reconnect; else
\* probe a path over a new socket, thereby registered with the connection.
Migrate(g) ==
    /\ pc[g] = "migrate" /\ ~Locked
    /\ \/ /\ pc' = [pc EXCEPT ![g] = "lock"]
          /\ state' = IF Cardinality(paths) >= MaxPaths THEN state ELSE "recovering"
          /\ UNCHANGED <<job, open, conn>>
       \/ \E s \in Free :
            /\ Cardinality(paths) < MaxPaths
            /\ state' = "recovering"
            /\ open' = open \cup {s}
            /\ conn' = [conn EXCEPT !.socks = @ \cup {s}]
            /\ job' = [job EXCEPT ![g].sock = {s}]
            /\ pc' = [pc EXCEPT ![g] = "probe"]
    /\ UNCHANGED <<netVars, candidates, tr, paths, retired, recovering, backoffVars, watchVars,
                   pingVars, closed>>

\* Mutant: the old socket is retired after a migration, as after a reconnect.
MigrateOKRetires(g) ==
    /\ pc[g] = "probe" /\ ~conn.ended /\ conn.server /\ conn.addr \in reachable
    /\ retired' = retired \cup {tr}
    /\ \E s \in job[g].sock : tr' = s
    /\ conn' = [conn EXCEPT !.path = TRUE]
    /\ state' = "connected"
    /\ Reset /\ UNCHANGED throttle
    /\ End(g)
    /\ UNCHANGED <<netVars, candidates, paths, open, watchVars, pingVars, closed>>

\* Probe and Switch: the old socket is kept, for the connection still uses it.
MigrateOK(g) ==
    /\ pc[g] = "probe" /\ ~conn.ended /\ conn.server /\ conn.addr \in reachable
    /\ paths' = paths \cup {tr}
    /\ \E s \in job[g].sock : tr' = s
    /\ conn' = [conn EXCEPT !.path = TRUE]
    /\ state' = "connected"
    /\ Reset /\ UNCHANGED throttle
    /\ End(g)
    /\ UNCHANGED <<netVars, candidates, retired, open, watchVars, pingVars, closed>>

MigrateFails(g) ==
    /\ pc[g] = "probe"
    /\ paths' = paths \cup job[g].sock
    /\ pc' = [pc EXCEPT ![g] = "lock"]
    /\ job' = [job EXCEPT ![g] = NoJob]
    /\ UNCHANGED <<netVars, candidates, conn, state, tr, retired, open, recovering, backoffVars,
                   watchVars, pingVars, closed>>

\* reconnect: dial all candidates at once ...
Reconnect(g) ==
    /\ pc[g] = "lock" /\ ~Locked
    /\ state' = "recovering"
    /\ job' = [job EXCEPT ![g] = [NoJob EXCEPT !.dial = candidates]]
    /\ pc' = [pc EXCEPT ![g] = "dial"]
    /\ UNCHANGED <<netVars, candidates, conn, sockVars, recovering, backoffVars, watchVars,
                   pingVars, closed>>

\* ... the first that answers wins (and becomes the list's, when refreshed) ...
DialWins(g) ==
    /\ pc[g] \in {"dial", "redial", "failover"} /\ ~closed
    /\ \E a \in job[g].dial \cap reachable, s \in Free :
         /\ open' = open \cup {s}
         /\ job' = [job EXCEPT ![g].addr = a, ![g].sock = {s}]
    /\ candidates' = IF pc[g] = "redial" THEN job[g].dial ELSE candidates
    /\ pc' = [pc EXCEPT ![g] = IF @ = "failover" THEN "won" ELSE "adopt"]
    /\ UNCHANGED <<netVars, conn, state, tr, paths, retired, recovering, backoffVars, watchVars,
                   pingVars, closed>>

\* ... if none does, the candidates are computed anew, and tried if different.
NoneAnswers(g) == job[g].dial \cap reachable = {} \/ closed
DialFails(g) ==
    /\ pc[g] = "dial" /\ NoneAnswers(g)
    /\ \E fresh \in Lists :
         /\ (\E l \in Lists : l \cap reachable # {}) => fresh \cap reachable # {}
         /\ job' = [job EXCEPT ![g].dial = fresh]
         /\ pc' = [pc EXCEPT ![g] = IF fresh = candidates THEN "failed" ELSE "redial"]
    /\ UNCHANGED <<netVars, candidates, conn, state, sockVars, recovering, backoffVars,
                   watchVars, pingVars, closed>>
RedialFails(g) ==
    /\ pc[g] = "redial" /\ NoneAnswers(g)
    /\ pc' = [pc EXCEPT ![g] = "failed"]
    /\ UNCHANGED <<netVars, candidates, conn, state, sockVars, recovering, job, backoffVars,
                   watchVars, pingVars, closed>>

\* Doubled with every failure, and the maximum past it (or when the shift overflows).
BumpBackoff ==
    /\ wait' = IF 2 ^ fails \in 1 .. MaxBackoff THEN 2 ^ fails ELSE MaxBackoff
    /\ fails' = IF fails < MaxFails THEN fails + 1 ELSE fails

ReconnectFails(g) ==
    /\ pc[g] = "failed"
    /\ BumpBackoff /\ UNCHANGED throttle
    /\ End(g)
    /\ UNCHANGED <<netVars, candidates, conn, state, sockVars, watchVars, pingVars, closed>>

\* adoptConn: the streams open and the Hello is written; the old connection
\* is closed and its sockets, the paths' too, are retired.
AdoptConn(g) ==
    /\ conn' = [addr |-> job[g].addr, socks |-> job[g].sock, path |-> TRUE, server |-> TRUE,
                ended |-> closed]
    /\ retired' = retired \cup {tr} \cup paths
    /\ paths' = {}
    /\ \E s \in job[g].sock : tr' = s
    /\ watched' = FALSE
    /\ state' = "connected"
    /\ UNCHANGED <<open, silent>>

Adopt(g) ==
    /\ pc[g] = "adopt" /\ job[g].addr \in reachable
    /\ AdoptConn(g)
    /\ Reset /\ UNCHANGED throttle
    /\ End(g)
    /\ UNCHANGED <<netVars, candidates, watchVars, closed>>

\* It fails: the winner's socket is closed, the current connection untouched.
AdoptFails(g) ==
    /\ pc[g] = "adopt" /\ (job[g].addr \notin reachable \/ closed)
    /\ open' = open \ job[g].sock
    /\ BumpBackoff /\ UNCHANGED throttle
    /\ End(g)
    /\ UNCHANGED <<netVars, candidates, conn, state, tr, paths, retired, watchVars, pingVars,
                   closed>>

\* failover: adopt the winner if the silent connection is still the current
\* one; otherwise, or if that fails, nothing has changed.
Failover ==
    /\ pc[Live] = "won" /\ ~Locked
    /\ state = "connected" /\ conn.addr = job[Live].from /\ job[Live].addr \in reachable
    /\ AdoptConn(Live)
    /\ End(Live)
    /\ UNCHANGED <<netVars, candidates, backoffVars, watchVars, closed>>

FailoverFails ==
    /\ \/ pc[Live] = "failover" /\ NoneAnswers(Live)
       \/ /\ pc[Live] = "won" /\ ~Locked
          /\ state # "connected" \/ conn.addr # job[Live].from
             \/ job[Live].addr \notin reachable
    /\ open' = open \ job[Live].sock
    /\ End(Live)
    /\ UNCHANGED <<netVars, candidates, conn, state, tr, paths, retired, backoffVars, watchVars,
                   pingVars, closed>>

\* Close: cancel, tell the server, and close the sockets under the lock.
Close ==
    /\ ~closed /\ closed' = TRUE
    /\ state' = "closed"
    /\ conn' = [conn EXCEPT !.ended = TRUE, !.server = FALSE]
    /\ UNCHANGED <<netVars, candidates, sockVars, recVars, backoffVars, watchVars, pingVars>>

CloseSockets ==
    /\ closed /\ ~Locked /\ tr \in open
    /\ open' = open \ ({tr} \cup paths)
    /\ paths' = {}
    /\ UNCHANGED <<netVars, candidates, conn, state, tr, retired, recVars, backoffVars,
                   watchVars, pingVars, closed>>

-----------------------------------------------------------------------------
Recovery(g) ==
    \/ RecoverWith(g) \/ Migrate(g) \/ MigrateOK(g) \/ MigrateFails(g) \/ Reconnect(g)
    \/ DialWins(g) \/ DialFails(g) \/ RedialFails(g) \/ ReconnectFails(g)
    \/ Adopt(g) \/ AdoptFails(g)
LiveStep == LivenessTick \/ DialWins(Live) \/ Failover \/ FailoverFails

Next ==
    \/ NetworkChanges \/ Sleep \/ IdleTimeout \/ Pong \/ CooldownEnds
    \/ Watchdog \/ InputFails \/ LiveStep \/ Close \/ CloseSockets
    \/ \E s \in Sockets : CloseRetired(s)
    \/ \E g \in Goroutines : Recovery(g)

\* Tickers tick, dials and probes time out, sockets are closed after the
\* grace.  A failover's dial ends within 5 s (HandshakeIdleTimeout) and the
\* next one waits for 10 s of silence, so that the watchdog's ticks, a second
\* apart, and the goroutines they start also run while no failover does: the
\* strong fairness.  Nothing is assumed of the network, of input and of pongs.
Fairness ==
    /\ SF_vars(Watchdog /\ ~recovering) /\ WF_vars(LiveStep) /\ WF_vars(IdleTimeout)
    /\ \A s \in Sockets : WF_vars(CloseRetired(s))
    /\ \A g \in Goroutines :
         WF_vars(Recovery(g)) /\ SF_vars(RecoverWith(g) /\ ~recovering)

Spec == Init /\ [][Next]_vars /\ Fairness

-----------------------------------------------------------------------------
(* Properties                                                               *)

TypeOK ==
    /\ candidates \in Lists /\ changes \in 0 .. MaxChanges
    /\ state \in {"connected", "recovering", "closed"}
    /\ fails \in 0 .. MaxFails /\ wait \in 0 .. MaxBackoff /\ throttle \in 0 .. Throttle
    /\ open \subseteq Sockets /\ conn.socks # {}

\* Watchdog ticks, keystrokes and the ping loop start recoveries at once: one
\* at a time has the flag, and a socket the live connection is registered
\* with is neither retired nor closed by any of them.
LiveConnKeepsSockets ==
    /\ TypeOK
    /\ Cardinality({p \in Procs : pc[p] \notin {"idle", "recover", "reconnect"}}) <= 1
    /\ ~conn.ended => conn.socks \subseteq open \ retired

\* However recoveries succeed and fail, every open socket is in use, held for
\* the current connection, waiting for its grace, or in a recovery's hand.
NoSocketLeak ==
    /\ open = (open \cap {tr}) \cup paths \cup retired
              \cup UNION {job[p].sock : p \in Procs}
    /\ ~closed => tr \in open /\ Cardinality(paths) <= MaxPaths

\* While any list the client can compute has an address that answers, the
\* client comes back to a connection that works, whatever failed before.
Reconnects ==
    []<>(Works \/ closed \/ \A l \in Lists : l \cap reachable = {})

\* Through recoveries that start at once and fail at any point, the live connection
\* keeps its sockets and no other socket stays open without an owner.
SocketsExact == LiveConnKeepsSockets /\ NoSocketLeak
=============================================================================
