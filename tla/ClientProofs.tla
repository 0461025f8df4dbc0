----------------------------- MODULE ClientProofs -----------------------------
(***************************************************************************)
(* Proofs about the client.  First its connection, for any number of       *)
(* goroutines, sockets and addresses: recoveries that start at once,       *)
(* succeed and fail at any point never take a socket from the live         *)
(* connection, and leave no socket open that nothing holds.  Then the      *)
(* modes of its terminal, for any number of chunks, clients and upgrades,  *)
(* and any number of chunks kept.  Then its keyboard: packets carry what   *)
(* was typed, for any number of bytes and any sizes of its buffers.        *)
(***************************************************************************)
EXTENDS ClientRecovery, MCClientTerminal, Integers, FiniteSetTheorems,
        WellFoundedInduction, TLAPS

Job == [dial : SUBSET Addrs, addr : Addrs \cup {NoAddr}, sock : SUBSET Sockets,
        from : Addrs \cup {NoAddr}]
Conn == [addr : Addrs, socks : SUBSET Sockets, path : BOOLEAN, server : BOOLEAN,
         ended : BOOLEAN]
Waiting == {"idle", "recover", "reconnect"}
Steps == Waiting \cup {"migrate", "lock", "probe", "dial", "redial", "adopt", "failed"}

\* Past the flag; and with a socket of its own.
Busy(p) == pc[p] \notin Waiting
HasSock(p) == pc[p] \in {"probe", "adopt", "won"}

-----------------------------------------------------------------------------
(* The inductive invariant.                                                *)

TypeInv ==
    /\ TypeOK
    /\ candidates \subseteq Addrs /\ conn \in Conn /\ tr \in Sockets
    /\ paths \subseteq Sockets /\ retired \subseteq Sockets
    /\ recovering \in BOOLEAN /\ closed \in BOOLEAN
    /\ pc \in [Procs -> Steps \cup {"failover", "won"}]
    /\ pc[Live] \in {"idle", "failover", "won"}
    /\ \A g \in Goroutines : pc[g] \in Steps
    /\ job \in [Procs -> Job]

\* One recovery at a time, under the flag.
OneRecovery ==
    /\ \A p \in Procs : Busy(p) => recovering
    /\ \A p, q \in Procs : Busy(p) /\ Busy(q) => p = q

\* The socket of a recovery is nobody else's.  (A migration that starts when Close has
\* closed the socket in use may be given its number.)
OwnSock(p, s) ==
    /\ job[p].sock = {s} /\ s \in open
    /\ s \notin paths /\ s \notin retired
    /\ s = tr => closed /\ pc[p] = "probe"

JobInv(p) ==
    /\ ~HasSock(p) => job[p].sock = {}
    /\ HasSock(p) => \E s \in Sockets : OwnSock(p, s)
    /\ pc[p] = "redial" => job[p].dial \in Lists
    /\ pc[p] = "adopt" => tr \in open
    /\ pc[p] \in {"adopt", "won"} => job[p].addr \in Addrs
    /\ pc[p] = "probe" => Cardinality(paths) < MaxPaths
    /\ pc[p] \in {"failover", "won"} /\ closed => state = "closed"

\* Each open socket has an owner, and one only where it matters.
SockInv ==
    /\ paths \subseteq open /\ retired \subseteq open
    /\ retired \cap paths = {} /\ tr \notin retired
    /\ \A s \in open : s = tr \/ s \in paths \/ s \in retired \/ \E p \in Procs : s \in job[p].sock
    /\ ~closed => tr \in open
    /\ IsFiniteSet(paths) /\ Cardinality(paths) <= MaxPaths

\* The live connection is registered with the socket in use, those kept for it, and
\* the one a migration is probing.
ConnInv ==
    /\ closed => conn.ended
    /\ ~conn.ended => \A s \in conn.socks :
           s = tr \/ s \in paths \/ \E p \in Procs : pc[p] = "probe" /\ s \in job[p].sock

JobsInv == \A p \in Procs : JobInv(p)

IInv == TypeInv /\ OneRecovery /\ JobsInv /\ SockInv /\ ConnInv

-----------------------------------------------------------------------------
(* Who holds what.                                                         *)

\* A goroutine without a recovery has nothing to keep.
LEMMA WaitingJob ==
    ASSUME NEW p \in Procs, pc'[p] \in Waiting, job'[p].sock = {}
    PROVE  JobInv(p)'
  BY DEF JobInv, HasSock, Waiting

\* While one goroutine has a recovery the others hold no socket; so a step of its
\* recovery has to be looked at for itself only.
LEMMA BusyStep ==
    ASSUME IInv, NEW p \in Procs, Busy(p),
           \A q \in Procs \ {p} : pc'[q] = pc[q] /\ job'[q] = job[q],
           Busy(p)' => recovering', JobInv(p)'
    PROVE  /\ OneRecovery' /\ JobsInv'
           /\ \A q \in Procs \ {p} : /\ pc[q] \in Waiting /\ pc'[q] \in Waiting
                                     /\ job[q].sock = {} /\ job'[q].sock = {}
<1>1. ASSUME NEW q \in Procs \ {p}
      PROVE  /\ pc[q] \in Waiting /\ pc'[q] \in Waiting
             /\ job[q].sock = {} /\ job'[q].sock = {}
  <2>1. pc[q] \in Waiting
    BY DEF IInv, OneRecovery, Busy
  <2>2. job[q].sock = {}
    BY <2>1 DEF IInv, JobsInv, JobInv, HasSock, Waiting
  <2> QED
    BY <2>1, <2>2
<1>2. JobsInv'
  BY <1>1, WaitingJob DEF JobsInv
<1>3. OneRecovery'
  BY <1>1 DEF OneRecovery, Busy
<1> QED
  BY <1>1, <1>2, <1>3

\* A step that moves no socket.
LEMMA SocketsStay ==
    ASSUME IInv, UNCHANGED sockVars, conn'.socks = conn.socks,
           conn.ended => conn'.ended, closed => closed', closed' => conn'.ended,
           \A q \in Procs : /\ job'[q].sock = job[q].sock
                            /\ pc'[q] = "probe" <=> pc[q] = "probe"
    PROVE  SockInv' /\ ConnInv'
<1>1. SockInv'
  BY DEF IInv, SockInv, sockVars
<1>2. ConnInv'
  BY DEF IInv, ConnInv, sockVars
<1> QED
  BY <1>1, <1>2

-----------------------------------------------------------------------------
(* The network, the timers, and who starts a recovery.                     *)

LEMMA NetworkKeeps ==
    ASSUME RecoveryConstants, IInv,
           NetworkChanges \/ Sleep \/ IdleTimeout \/ Pong \/ CooldownEnds
    PROVE  IInv'
<1>1. UNCHANGED <<candidates, state, sockVars, recVars, backoffVars, closed>>
  BY DEF NetworkChanges, Sleep, IdleTimeout, Pong, CooldownEnds
<1>2. /\ conn' \in Conn /\ conn'.socks = conn.socks
      /\ conn.ended => conn'.ended
  <2>1. conn \in Conn
    BY DEF IInv, TypeInv
  <2>2. CASE NetworkChanges \/ Pong \/ CooldownEnds
    BY <2>1, <2>2 DEF NetworkChanges, Pong, CooldownEnds
  <2>3. CASE Sleep
    BY <2>1, <2>3 DEF Conn, Sleep
  <2>4. CASE IdleTimeout
    BY <2>1, <2>4 DEF Conn, IdleTimeout
  <2> QED
    BY <2>2, <2>3, <2>4
<1>3. changes' \in 0 .. MaxChanges
  <2>1. changes' = changes \/ (changes < MaxChanges /\ changes' = changes + 1)
    BY DEF NetworkChanges, Sleep, IdleTimeout, Pong, CooldownEnds, netVars
  <2>2. changes \in 0 .. MaxChanges /\ MaxChanges \in Nat
    BY DEF IInv, TypeInv, TypeOK, RecoveryConstants
  <2> QED
    BY <2>1, <2>2
<1>4. TypeInv'
  BY <1>1, <1>2, <1>3 DEF IInv, TypeInv, TypeOK, sockVars, recVars, backoffVars
<1>5. OneRecovery'
  BY <1>1 DEF IInv, OneRecovery, Busy, recVars
<1>6. JobsInv'
  BY <1>1 DEF IInv, JobsInv, JobInv, HasSock, OwnSock, recVars, sockVars
<1>7. SockInv' /\ ConnInv'
  BY <1>1, <1>2, SocketsStay DEF IInv, ConnInv, recVars
<1> QED
  BY <1>4, <1>5, <1>6, <1>7 DEF IInv

\* Close.
LEMMA CloseKeeps ==
    ASSUME RecoveryConstants, IInv, Close
    PROVE  IInv'
<1>1. /\ closed' = TRUE /\ state' = "closed"
      /\ UNCHANGED <<netVars, candidates, sockVars, recVars, backoffVars, watchVars, pingVars>>
  BY DEF Close
<1>2. conn' \in Conn /\ conn'.socks = conn.socks /\ conn'.ended
  BY DEF IInv, TypeInv, Conn, Close
<1>4. TypeInv'
  BY <1>1, <1>2 DEF IInv, TypeInv, TypeOK, sockVars, recVars, backoffVars, netVars
<1>5. OneRecovery'
  BY <1>1 DEF IInv, OneRecovery, Busy, recVars
<1>6. JobsInv'
  BY <1>1 DEF IInv, JobsInv, JobInv, HasSock, OwnSock, recVars, sockVars
<1>7. SockInv' /\ ConnInv'
  BY <1>1, <1>2, SocketsStay DEF IInv, recVars
<1> QED
  BY <1>4, <1>5, <1>6, <1>7 DEF IInv

\* A goroutine is started, or none is free to be.
LEMMA SpawnKeeps ==
    ASSUME RecoveryConstants, IInv, Watchdog \/ InputFails
    PROVE  IInv'
<1>1. UNCHANGED <<netVars, candidates, conn, state, sockVars, recovering, job, closed>>
  BY DEF Watchdog, InputFails
<1>2. \/ UNCHANGED pc
      \/ \E g \in Goroutines, how \in {"recover", "reconnect"} :
           pc[g] = "idle" /\ pc' = [pc EXCEPT ![g] = how]
  BY DEF Watchdog, InputFails, Spawn
<1>3. /\ pc' \in [Procs -> Steps \cup {"failover", "won"}]
      /\ pc'[Live] = pc[Live]
      /\ \A p \in Procs : pc'[p] = pc[p] \/ (pc[p] \in Waiting /\ pc'[p] \in Waiting)
      /\ \A g \in Goroutines : pc'[g] \in Steps
  <2>1. CASE UNCHANGED pc
    BY <2>1 DEF IInv, TypeInv
  <2>2. ASSUME NEW g \in Goroutines, NEW how \in {"recover", "reconnect"},
               pc[g] = "idle", pc' = [pc EXCEPT ![g] = how]
        PROVE  /\ pc' \in [Procs -> Steps \cup {"failover", "won"}]
               /\ pc'[Live] = pc[Live]
               /\ \A p \in Procs : pc'[p] = pc[p] \/ (pc[p] \in Waiting /\ pc'[p] \in Waiting)
               /\ \A h \in Goroutines : pc'[h] \in Steps
    <3>2. g # Live /\ g \in Procs /\ how \in Waiting /\ pc[g] \in Waiting
      BY <2>2 DEF Procs, Live, RecoveryConstants, Waiting
    <3>3. pc \in [Procs -> Steps \cup {"failover", "won"}] /\ how \in Steps
      BY <3>2 DEF IInv, TypeInv, Steps
    <3>4. \A p \in Procs : pc'[p] = IF p = g THEN how ELSE pc[p]
      BY <2>2, <3>3
    <3>5. Live \in Procs /\ Goroutines \subseteq Procs
      BY DEF Procs
    <3> QED
      BY <2>2, <3>2, <3>3, <3>4, <3>5 DEF IInv, TypeInv
  <2> QED
    BY <1>2, <2>1, <2>2
<1>4. fails' \in 0 .. MaxFails /\ wait' \in 0 .. MaxBackoff /\ throttle' \in 0 .. Throttle
  <2>1. /\ fails \in 0 .. MaxFails /\ wait \in 0 .. MaxBackoff /\ throttle \in 0 .. Throttle
        /\ {MaxFails, MaxBackoff, Throttle} \subseteq Nat
    BY DEF IInv, TypeInv, TypeOK, RecoveryConstants
  <2>2. fails' \in {fails, 0} /\ wait' \in {wait, 0, Countdown(wait)}
        /\ throttle' \in {throttle, Throttle, Countdown(throttle)}
    BY DEF Watchdog, InputFails, Reset, backoffVars
  <2>3. Countdown(wait) \in 0 .. MaxBackoff /\ Countdown(throttle) \in 0 .. Throttle
    BY <2>1 DEF Countdown
  <2> QED
    BY <2>1, <2>2, <2>3
<1>5. TypeInv'
  BY <1>1, <1>3, <1>4 DEF IInv, TypeInv, TypeOK, sockVars, netVars
<1>6. OneRecovery'
  BY <1>1, <1>3 DEF IInv, OneRecovery, Busy
<1>7. ASSUME NEW p \in Procs PROVE JobInv(p)'
  <2>1. CASE pc'[p] = pc[p]
    BY <1>1, <2>1 DEF IInv, JobsInv, JobInv, HasSock, OwnSock, sockVars
  <2>2. CASE pc[p] \in Waiting /\ pc'[p] \in Waiting
    <3>1. job'[p].sock = {}
      BY <1>1, <2>2 DEF IInv, JobsInv, JobInv, HasSock, Waiting
    <3> QED
      BY <2>2, <3>1, WaitingJob
  <2> QED
    BY <1>3, <2>1, <2>2
<1>8. SockInv' /\ ConnInv'
  BY <1>1, <1>3, SocketsStay DEF IInv, ConnInv, Waiting
<1> QED
  BY <1>5, <1>6, <1>7, <1>8 DEF IInv, JobsInv

-----------------------------------------------------------------------------
(* The steps of a recovery: what they have in common.                      *)

\* What TypeInv says of the goroutines.
ProcsTyped ==
    /\ recovering \in BOOLEAN
    /\ pc \in [Procs -> Steps \cup {"failover", "won"}]
    /\ pc[Live] \in {"idle", "failover", "won"}
    /\ \A g \in Goroutines : pc[g] \in Steps
    /\ job \in [Procs -> Job]

\* The others are out of the way.
Alone(p) == \A q \in Procs \ {p} : pc[q] \in Waiting /\ job[q].sock = {}

LEMMA PcTyped ==
    ASSUME RecoveryConstants, IInv, NEW p \in Procs, NEW x, pc' = [pc EXCEPT ![p] = x],
           \/ p \in Goroutines /\ x \in Steps
           \/ p = Live /\ x \in {"idle", "failover", "won"}
    PROVE  /\ pc' \in [Procs -> Steps \cup {"failover", "won"}]
           /\ pc'[Live] \in {"idle", "failover", "won"}
           /\ \A g \in Goroutines : pc'[g] \in Steps
           /\ pc'[p] = x /\ \A q \in Procs \ {p} : pc'[q] = pc[q]
<1>1. pc \in [Procs -> Steps \cup {"failover", "won"}] /\ x \in Steps \cup {"failover", "won"}
  BY DEF IInv, TypeInv, Steps, Waiting
<1>2. pc'[p] = x /\ \A q \in Procs \ {p} : pc'[q] = pc[q]
  BY <1>1
<1>3. Live \in Procs /\ Goroutines \subseteq Procs /\ Live \notin Goroutines
  BY DEF Procs, Live, RecoveryConstants
<1> QED
  BY <1>1, <1>2, <1>3 DEF IInv, TypeInv

\* A step of the recovery of p that goes on at x, with j.
LEMMA GoOn ==
    ASSUME RecoveryConstants, IInv, NEW p \in Procs, Busy(p), NEW x, NEW j \in Job,
           pc' = [pc EXCEPT ![p] = x], job' = [job EXCEPT ![p] = j],
           \/ p \in Goroutines /\ x \in Steps
           \/ p = Live /\ x \in {"idle", "failover", "won"},
           recovering' \in BOOLEAN, x \notin Waiting => recovering' = recovering,
           pc'[p] = x /\ job'[p] = j => JobInv(p)'
    PROVE  /\ ProcsTyped' /\ OneRecovery' /\ JobsInv' /\ Alone(p) /\ Alone(p)'
           /\ pc'[p] = x /\ job'[p] = j
<1>1. job \in [Procs -> Job]
  BY DEF IInv, TypeInv
<1>2. job' \in [Procs -> Job] /\ job'[p] = j /\ \A q \in Procs \ {p} : job'[q] = job[q]
  BY <1>1
<1>3. /\ pc' \in [Procs -> Steps \cup {"failover", "won"}]
      /\ pc'[Live] \in {"idle", "failover", "won"}
      /\ \A g \in Goroutines : pc'[g] \in Steps
      /\ pc'[p] = x /\ \A q \in Procs \ {p} : pc'[q] = pc[q]
  BY PcTyped
<1>4. Busy(p)' => recovering'
  BY <1>3 DEF IInv, OneRecovery, Busy
<1>5. /\ OneRecovery' /\ JobsInv'
      /\ \A q \in Procs \ {p} : /\ pc[q] \in Waiting /\ pc'[q] \in Waiting
                                /\ job[q].sock = {} /\ job'[q].sock = {}
  BY <1>2, <1>3, <1>4, BusyStep
<1> QED
  BY <1>2, <1>3, <1>5 DEF ProcsTyped, Alone

LEMMA NoJobTyped == NoJob \in Job /\ NoJob.sock = {}
  BY DEF NoJob, Job, NoAddr

\* The recovery of p ends.
LEMMA EndStep ==
    ASSUME RecoveryConstants, IInv, NEW p \in Procs, Busy(p), End(p)
    PROVE  /\ ProcsTyped' /\ OneRecovery' /\ JobsInv' /\ Alone(p)
           /\ \A q \in Procs : pc'[q] \in Waiting /\ job'[q].sock = {}
<1>1. /\ recovering' = FALSE /\ pc' = [pc EXCEPT ![p] = "idle"]
      /\ job' = [job EXCEPT ![p] = NoJob]
  BY DEF End
<1>2. pc'[p] = "idle" /\ job'[p] = NoJob => JobInv(p)'
  BY NoJobTyped, WaitingJob DEF Waiting
<1>3. "idle" \in Steps /\ "idle" \in Waiting
  BY DEF Steps, Waiting
<1>4. /\ ProcsTyped' /\ OneRecovery' /\ JobsInv' /\ Alone(p) /\ Alone(p)'
      /\ pc'[p] = "idle" /\ job'[p] = NoJob
  BY <1>1, <1>2, <1>3, NoJobTyped, GoOn DEF Procs
<1> QED
  BY <1>3, <1>4, NoJobTyped DEF Alone

\* The types of the rest.
LEMMA RestTyped ==
    ASSUME RecoveryConstants, IInv, ProcsTyped', UNCHANGED changes,
           candidates' \in Lists, conn' \in Conn, conn'.socks # {}, tr' \in Sockets,
           open' \subseteq Sockets, paths' \subseteq Sockets, retired' \subseteq Sockets,
           closed' = closed, state' \in {"connected", "recovering", "closed"},
           \/ UNCHANGED backoffVars
           \/ Reset /\ UNCHANGED throttle
           \/ BumpBackoff /\ UNCHANGED throttle
    PROVE  TypeInv'
<1>1. /\ fails \in 0 .. MaxFails /\ wait \in 0 .. MaxBackoff /\ throttle \in 0 .. Throttle
      /\ MaxFails \in Nat /\ MaxBackoff \in Nat \ {0}
  BY DEF IInv, TypeInv, TypeOK, RecoveryConstants
<1>2. fails' \in 0 .. MaxFails
  <2>1. fails' = fails \/ fails' = 0 \/ (fails < MaxFails /\ fails' = fails + 1)
    BY DEF backoffVars, Reset, BumpBackoff
  <2> QED
    BY <1>1, <2>1
<1>3. wait' \in 0 .. MaxBackoff
  <2>1. wait' = wait \/ wait' = 0 \/ wait' \in 1 .. MaxBackoff \/ wait' = MaxBackoff
    BY DEF backoffVars, Reset, BumpBackoff
  <2> QED
    BY <1>1, <2>1
<1>4. throttle' = throttle
  BY DEF backoffVars
<1>5. changes' \in 0 .. MaxChanges
  BY DEF IInv, TypeInv, TypeOK
<1>6. candidates' \subseteq Addrs
  BY DEF RecoveryConstants
<1>7. TypeOK'
  BY <1>1, <1>2, <1>3, <1>4, <1>5 DEF TypeOK
<1>8. closed' \in BOOLEAN
  BY DEF IInv, TypeInv
<1> QED
  BY <1>6, <1>7, <1>8 DEF TypeInv, ProcsTyped

-----------------------------------------------------------------------------
(* The flag.                                                               *)

LEMMA NobodyBusy ==
    ASSUME IInv, ~recovering, NEW q \in Procs
    PROVE  pc[q] \in Waiting /\ job[q].sock = {}
<1>1. pc[q] \in Waiting
  BY DEF IInv, OneRecovery, Busy
<1> QED
  BY <1>1 DEF IInv, JobsInv, JobInv, HasSock, Waiting

\* A recovery begins: it holds no socket yet.
LEMMA TakeFlag ==
    ASSUME RecoveryConstants, IInv, ~recovering, recovering' = TRUE, UNCHANGED <<closed>>,
           NEW p \in Procs, NEW x, NEW j \in Job, j.sock = {},
           pc' = [pc EXCEPT ![p] = x], job' = [job EXCEPT ![p] = j],
           \/ p \in Goroutines /\ x \in {"migrate", "lock"}
           \/ p = Live /\ x = "failover" /\ ~closed
    PROVE  /\ ProcsTyped' /\ OneRecovery' /\ JobsInv'
           /\ \A q \in Procs : /\ job'[q].sock = job[q].sock
                               /\ pc'[q] = "probe" <=> pc[q] = "probe"
<1>1. job \in [Procs -> Job]
  BY DEF IInv, TypeInv
<1>2. job' \in [Procs -> Job] /\ job'[p] = j /\ \A q \in Procs \ {p} : job'[q] = job[q]
  BY <1>1
<1>3. /\ pc' \in [Procs -> Steps \cup {"failover", "won"}]
      /\ pc'[Live] \in {"idle", "failover", "won"}
      /\ \A g \in Goroutines : pc'[g] \in Steps
      /\ pc'[p] = x /\ \A q \in Procs \ {p} : pc'[q] = pc[q]
  BY PcTyped DEF Steps
<1>4. \A q \in Procs : pc[q] \in Waiting /\ job[q].sock = {}
  BY NobodyBusy
<1>5. JobInv(p)'
  BY <1>2, <1>3 DEF JobInv, HasSock
<1>6. ASSUME NEW q \in Procs \ {p} PROVE JobInv(q)'
  BY <1>2, <1>3, <1>4, WaitingJob
<1>7. JobsInv'
  BY <1>5, <1>6 DEF JobsInv
<1>8. OneRecovery'
  BY <1>3, <1>4 DEF OneRecovery, Busy
<1>9. \A q \in Procs : /\ job'[q].sock = job[q].sock
                       /\ pc'[q] = "probe" <=> pc[q] = "probe"
  BY <1>2, <1>3, <1>4 DEF Waiting
<1> QED
  BY <1>2, <1>3, <1>7, <1>8, <1>9 DEF ProcsTyped

\* recoverWith: the flag is taken by one, and given back in the backoff.
LEMMA RecoverWithKeeps ==
    ASSUME RecoveryConstants, IInv, NEW g \in Goroutines, RecoverWith(g)
    PROVE  IInv'
<1>1. /\ pc[g] \in {"recover", "reconnect"} /\ g \in Procs
      /\ UNCHANGED <<netVars, candidates, conn, state, sockVars, backoffVars, closed>>
  BY DEF RecoverWith, Procs
<1>2. /\ pc[g] \in Waiting /\ job[g] \in Job /\ job[g].sock = {} /\ job \in [Procs -> Job]
      /\ job = [job EXCEPT ![g] = job[g]]
  BY <1>1 DEF Waiting, IInv, TypeInv, JobsInv, JobInv, HasSock
<1>3. /\ ProcsTyped' /\ OneRecovery' /\ JobsInv'
      /\ \A q \in Procs : /\ job'[q].sock = job[q].sock
                          /\ pc'[q] = "probe" <=> pc[q] = "probe"
  <2>1. CASE ~recovering /\ wait <= 0 /\ ~(wait > 0)
    <3>1. PICK x \in {"migrate", "lock"} :
              pc' = [pc EXCEPT ![g] = x] /\ recovering' = TRUE /\ UNCHANGED job
      BY <2>1 DEF RecoverWith
    <3>2. job' = [job EXCEPT ![g] = job[g]]
      BY <1>2, <3>1
    <3> QED
      BY <1>1, <1>2, <2>1, <3>1, <3>2, TakeFlag
  <2>2. CASE recovering \/ wait > 0
    <3>1. /\ pc' = [pc EXCEPT ![g] = "idle"] /\ recovering' = recovering
          /\ job' = job \/ job' = [job EXCEPT ![g] = NoJob]
      BY <2>2 DEF RecoverWith, End, IInv, TypeInv
    <3>2. /\ pc' \in [Procs -> Steps \cup {"failover", "won"}]
          /\ pc'[Live] \in {"idle", "failover", "won"}
          /\ \A h \in Goroutines : pc'[h] \in Steps
          /\ pc'[g] = "idle" /\ \A q \in Procs \ {g} : pc'[q] = pc[q]
      <4>1. "idle" \in Steps
        BY DEF Steps, Waiting
      <4> QED
        BY <1>1, <3>1, <4>1, PcTyped
    <3>3. /\ job' \in [Procs -> Job] /\ job'[g].sock = {}
          /\ \A q \in Procs \ {g} : job'[q] = job[q]
      BY <1>1, <1>2, <3>1, NoJobTyped
    <3>4. ProcsTyped'
      BY <3>1, <3>2, <3>3 DEF ProcsTyped, IInv, TypeInv
    <3>5. "idle" \in Waiting
      BY DEF Waiting
    <3>6. OneRecovery'
      BY <1>2, <3>1, <3>2, <3>5 DEF IInv, OneRecovery, Busy
    <3>7. ASSUME NEW q \in Procs PROVE JobInv(q)'
      <4>1. CASE q = g
        BY <3>2, <3>3, <3>5, <4>1, WaitingJob
      <4>2. CASE q # g
        <5>1. job'[q] = job[q] /\ pc'[q] = pc[q] /\ JobInv(q)
          BY <3>2, <3>3, <4>2 DEF IInv, JobsInv
        <5> QED
          BY <1>1, <5>1 DEF JobInv, HasSock, OwnSock, sockVars
      <4> QED
        BY <4>1, <4>2
    <3>8. \A q \in Procs : /\ job'[q].sock = job[q].sock
                           /\ pc'[q] = "probe" <=> pc[q] = "probe"
      BY <1>1, <1>2, <3>2, <3>3
    <3> QED
      BY <3>4, <3>6, <3>7, <3>8 DEF JobsInv
  <2>3. wait \in Nat
    BY DEF IInv, TypeInv, TypeOK
  <2> QED
    BY <2>1, <2>2, <2>3
<1>4. SockInv' /\ ConnInv'
  BY <1>1, <1>3, SocketsStay DEF IInv, ConnInv
<1>5. TypeInv'
  BY <1>1, <1>3 DEF ProcsTyped, IInv, TypeInv, TypeOK, sockVars, netVars, backoffVars
<1> QED
  BY <1>3, <1>4, <1>5 DEF IInv

\* livenessLoop: a failover takes the flag, unless a recovery has it.
LEMMA LivenessTickKeeps ==
    ASSUME RecoveryConstants, IInv, LivenessTick
    PROVE  IInv'
<1>1. /\ pc[Live] = "idle" /\ Live \in Procs /\ ~closed
      /\ UNCHANGED <<netVars, candidates, conn, state, sockVars, backoffVars, closed>>
  BY DEF LivenessTick, Procs
<1>2. CASE UNCHANGED recVars
  <2>1. TypeInv' /\ OneRecovery' /\ JobsInv'
    <3>1. TypeInv'
      BY <1>1, <1>2 DEF IInv, TypeInv, TypeOK, sockVars, netVars, backoffVars, recVars
    <3>2. OneRecovery'
      BY <1>2 DEF IInv, OneRecovery, Busy, recVars
    <3>3. JobsInv'
      BY <1>1, <1>2 DEF IInv, JobsInv, JobInv, HasSock, OwnSock, sockVars, recVars
    <3> QED
      BY <3>1, <3>2, <3>3
  <2>2. SockInv' /\ ConnInv'
    BY <1>1, <1>2, SocketsStay DEF IInv, ConnInv, recVars
  <2> QED
    BY <2>1, <2>2 DEF IInv
<1>3. CASE ~UNCHANGED recVars
  <2> DEFINE j == [NoJob EXCEPT !.dial = OtherFamily(conn.addr), !.from = conn.addr]
  <2>1. /\ ~recovering /\ recovering' = TRUE /\ pc' = [pc EXCEPT ![Live] = "failover"]
        /\ job' = [job EXCEPT ![Live] = j]
    BY <1>3 DEF LivenessTick
  <2>2. j \in Job /\ j.sock = {}
    <3>1. conn.addr \in Addrs /\ OtherFamily(conn.addr) \subseteq Addrs
      BY DEF IInv, TypeInv, Conn, OtherFamily
    <3> QED
      BY <3>1 DEF NoJob, Job
  <2>3. /\ ProcsTyped' /\ OneRecovery' /\ JobsInv'
        /\ \A q \in Procs : /\ job'[q].sock = job[q].sock
                            /\ pc'[q] = "probe" <=> pc[q] = "probe"
    BY <1>1, <2>1, <2>2, TakeFlag
  <2>4. SockInv' /\ ConnInv'
    BY <1>1, <2>3, SocketsStay DEF IInv, ConnInv
  <2>5. TypeInv'
    BY <1>1, <2>3 DEF ProcsTyped, IInv, TypeInv, TypeOK, sockVars, netVars, backoffVars
  <2> QED
    BY <2>3, <2>4, <2>5 DEF IInv
<1> QED
  BY <1>2, <1>3

-----------------------------------------------------------------------------
(* The steps of a recovery, one by one.                                    *)

\* Whose sockets there are while p is at it.
LEMMA Held ==
    ASSUME IInv, NEW p \in Procs, Busy(p)
    PROVE  /\ \A s \in open : s = tr \/ s \in paths \/ s \in retired \/ s \in job[p].sock
           /\ ~conn.ended => \A s \in conn.socks :
                  s = tr \/ s \in paths \/ (pc[p] = "probe" /\ s \in job[p].sock)
<1>1. ASSUME NEW q \in Procs \ {p} PROVE job[q].sock = {}
  <2>1. pc[q] \in Waiting
    BY DEF IInv, OneRecovery, Busy
  <2> QED
    BY <2>1 DEF IInv, JobsInv, JobInv, HasSock, Waiting
<1>2. \A s \in open : s = tr \/ s \in paths \/ s \in retired \/ s \in job[p].sock
  BY <1>1 DEF IInv, SockInv
<1>3. ~conn.ended => \A s \in conn.socks :
          s = tr \/ s \in paths \/ (pc[p] = "probe" /\ s \in job[p].sock)
  BY <1>1 DEF IInv, ConnInv
<1> QED
  BY <1>2, <1>3

\* The steps that open and close no socket: reconnect's first and last ones, and a
\* migration that is not tried.
LEMMA NoSocketKeeps ==
    ASSUME RecoveryConstants, IInv, NEW g \in Goroutines,
           \/ Reconnect(g) \/ DialFails(g) \/ RedialFails(g)
           \/ pc[g] = "migrate" /\ Migrate(g) /\ pc'[g] = "lock"
    PROVE  IInv'
<1>1. /\ g \in Procs /\ pc[g] \in {"lock", "dial", "redial", "migrate"}
      /\ UNCHANGED <<netVars, candidates, paths, retired, tr, recovering, backoffVars, closed>>
  BY DEF Procs, Reconnect, DialFails, RedialFails, Migrate, sockVars
<1>2. /\ Busy(g) /\ ~HasSock(g) /\ job[g].sock = {} /\ job[g] \in Job
      /\ job \in [Procs -> Job] /\ pc \in [Procs -> Steps \cup {"failover", "won"}]
  BY <1>1 DEF Busy, HasSock, Waiting, IInv, JobsInv, JobInv, TypeInv
<1>3. /\ UNCHANGED <<open, conn>>
      /\ state' \in {"connected", "recovering", "closed"}
      /\ \E x \in {"dial", "failed", "redial", "lock"}, d \in SUBSET Addrs :
           /\ pc' = [pc EXCEPT ![g] = x]
           /\ \/ job' = [job EXCEPT ![g] = job[g]]
              \/ job' = [job EXCEPT ![g] = [NoJob EXCEPT !.dial = d]]
              \/ job' = [job EXCEPT ![g] = [job[g] EXCEPT !.dial = d]]
           /\ x = "redial" => d \in Lists /\ job' = [job EXCEPT ![g] = [job[g] EXCEPT !.dial = d]]
  <2>1. CASE Reconnect(g)
    BY <2>1 DEF Reconnect, sockVars, IInv, TypeInv
  <2>2. CASE DialFails(g)
    <3>1. PICK fresh \in Lists :
            /\ job' = [job EXCEPT ![g].dial = fresh]
            /\ pc' = [pc EXCEPT ![g] = IF fresh = candidates THEN "failed" ELSE "redial"]
      BY <2>2 DEF DialFails
    <3>2. fresh \in SUBSET Addrs
      BY DEF RecoveryConstants
    <3>3. job' = [job EXCEPT ![g] = [job[g] EXCEPT !.dial = fresh]]
      BY <1>2, <3>1 DEF Job
    <3>4. UNCHANGED <<open, conn, state>>
      BY <2>2 DEF DialFails, sockVars
    <3>5. PICK x \in {"failed", "redial"} : pc' = [pc EXCEPT ![g] = x]
      BY <3>1
    <3>6. state' \in {"connected", "recovering", "closed"}
      BY <3>4 DEF IInv, TypeInv, TypeOK
    <3> QED
      BY <3>2, <3>3, <3>4, <3>5, <3>6
  <2>3. CASE RedialFails(g)
    <3>1. /\ UNCHANGED <<open, conn, state, job>> /\ pc' = [pc EXCEPT ![g] = "failed"]
      BY <2>3 DEF RedialFails, sockVars
    <3>2. job' = [job EXCEPT ![g] = job[g]]
      BY <1>2, <3>1
    <3>3. state' \in {"connected", "recovering", "closed"}
      BY <3>1 DEF IInv, TypeInv, TypeOK
    <3>4. {} \in SUBSET Addrs
      OBVIOUS
    <3> QED
      BY <3>1, <3>2, <3>3, <3>4
  <2>4. CASE Migrate(g) /\ pc'[g] = "lock"
    <3>0. pc'[g] # "probe"
      BY <2>4
    <3>1. /\ UNCHANGED <<open, conn, job>> /\ pc' = [pc EXCEPT ![g] = "lock"]
          /\ state' \in {state, "recovering"}
      BY <1>1, <1>2, <2>4, <3>0 DEF Migrate
    <3>2. job' = [job EXCEPT ![g] = job[g]]
      BY <1>2, <3>1
    <3>3. state' \in {"connected", "recovering", "closed"}
      BY <3>1 DEF IInv, TypeInv, TypeOK
    <3>4. {} \in SUBSET Addrs
      OBVIOUS
    <3> QED
      BY <3>1, <3>2, <3>3, <3>4
  <2> QED
    BY <2>1, <2>2, <2>3, <2>4
<1> PICK x \in {"dial", "failed", "redial", "lock"}, d \in SUBSET Addrs :
       /\ pc' = [pc EXCEPT ![g] = x]
       /\ \/ job' = [job EXCEPT ![g] = job[g]]
          \/ job' = [job EXCEPT ![g] = [NoJob EXCEPT !.dial = d]]
          \/ job' = [job EXCEPT ![g] = [job[g] EXCEPT !.dial = d]]
       /\ x = "redial" => d \in Lists /\ job' = [job EXCEPT ![g] = [job[g] EXCEPT !.dial = d]]
  BY <1>3, Zenon
<1> DEFINE j == job'[g]
<1>4. /\ pc' = [pc EXCEPT ![g] = x] /\ job' = [job EXCEPT ![g] = j] /\ j.sock = {}
      /\ j \in Job
      /\ x = "redial" => j.dial \in Lists
  <2>1. /\ [NoJob EXCEPT !.dial = d] \in Job /\ [NoJob EXCEPT !.dial = d].sock = {}
        /\ [job[g] EXCEPT !.dial = d] \in Job /\ [job[g] EXCEPT !.dial = d].sock = {}
        /\ [job[g] EXCEPT !.dial = d].dial = d
    BY <1>2 DEF Job, NoJob
  <2> QED
    BY <1>1, <1>2, <2>1
<1> HIDE DEF j
<1>5. pc'[g] = x /\ job'[g] = j => JobInv(g)'
  BY <1>4 DEF JobInv, HasSock
<1>6. x \in Steps /\ recovering' \in BOOLEAN /\ recovering' = recovering
  BY <1>1 DEF Steps, IInv, TypeInv
<1>7. /\ ProcsTyped' /\ OneRecovery' /\ JobsInv' /\ Alone(g) /\ Alone(g)'
      /\ pc'[g] = x /\ job'[g] = j
  BY <1>1, <1>2, <1>4, <1>5, <1>6, GoOn
<1>8. SockInv' /\ ConnInv'
  <2>1. \A q \in Procs : /\ job'[q].sock = job[q].sock
                         /\ pc'[q] = "probe" <=> pc[q] = "probe"
    <3>1. ASSUME NEW q \in Procs \ {g} PROVE pc[q] # "probe" /\ pc'[q] # "probe" /\ job'[q].sock = job[q].sock
      BY <1>7 DEF Alone, Waiting
    <3> QED
      BY <1>1, <1>2, <1>4, <1>7, <3>1
  <2> QED
    BY <1>1, <1>3, <2>1, SocketsStay DEF IInv, ConnInv, sockVars
<1>9. TypeInv'
  <2>1. /\ candidates \in Lists /\ conn \in Conn /\ conn.socks # {} /\ tr \in Sockets
        /\ open \subseteq Sockets /\ paths \subseteq Sockets /\ retired \subseteq Sockets
    BY DEF IInv, TypeInv, TypeOK
  <2> QED
    BY <1>1, <1>3, <1>7, <2>1, RestTyped DEF netVars
<1> QED
  BY <1>7, <1>8, <1>9 DEF IInv

\* reconnect fails, the failover's dial fails: the recovery ends with nothing in hand.
LEMMA EmptyHandedKeeps ==
    ASSUME RecoveryConstants, IInv, NEW p \in Procs, Busy(p), End(p), job[p].sock = {},
           pc[p] # "probe",
           UNCHANGED <<netVars, candidates, conn, state, tr, paths, retired, open, closed>>,
           \/ UNCHANGED backoffVars
           \/ BumpBackoff /\ UNCHANGED throttle
    PROVE  IInv'
<1>1. /\ ProcsTyped' /\ OneRecovery' /\ JobsInv' /\ Alone(p)
      /\ \A q \in Procs : pc'[q] \in Waiting /\ job'[q].sock = {}
  BY EndStep
<1>2. \A q \in Procs : /\ job'[q].sock = job[q].sock
                       /\ pc'[q] = "probe" <=> pc[q] = "probe"
  BY <1>1 DEF Alone, Waiting
<1>3. SockInv' /\ ConnInv'
  BY <1>2, SocketsStay DEF IInv, ConnInv, sockVars
<1>4. /\ candidates \in Lists /\ conn \in Conn /\ conn.socks # {} /\ tr \in Sockets
      /\ open \subseteq Sockets /\ paths \subseteq Sockets /\ retired \subseteq Sockets
      /\ state \in {"connected", "recovering", "closed"}
  BY DEF IInv, TypeInv, TypeOK
<1>5. TypeInv'
  BY <1>1, <1>4, RestTyped DEF netVars
<1> QED
  BY <1>1, <1>3, <1>5 DEF IInv

\* dialParallel: the winner's socket is new.
LEMMA DialWinsKeeps ==
    ASSUME RecoveryConstants, IInv, NEW p \in Procs, DialWins(p)
    PROVE  IInv'
<1>1. /\ pc[p] \in {"dial", "redial", "failover"} /\ ~closed
      /\ UNCHANGED <<netVars, conn, state, tr, paths, retired, recovering, backoffVars, closed>>
  BY DEF DialWins
<1>2. PICK a \in job[p].dial \cap reachable, s \in Free :
          /\ open' = open \cup {s}
          /\ job' = [job EXCEPT ![p].addr = a, ![p].sock = {s}]
  BY DEF DialWins
<1> DEFINE j == [job[p] EXCEPT !.addr = a, !.sock = {s}]
           x == IF pc[p] = "failover" THEN "won" ELSE "adopt"
<1>3. /\ Busy(p) /\ ~HasSock(p) /\ job[p].sock = {} /\ job[p] \in Job /\ job \in [Procs -> Job]
  BY <1>1 DEF Busy, HasSock, Waiting, IInv, JobsInv, JobInv, TypeInv
<1>4. s \in Sockets /\ s \notin open
  BY <1>2 DEF Free
<1>5. /\ j \in Job /\ j.sock = {s} /\ j.addr \in Addrs
      /\ job' = [job EXCEPT ![p] = j] /\ pc' = [pc EXCEPT ![p] = x]
  <2>1. j \in Job /\ j.sock = {s} /\ j.addr \in Addrs
    BY <1>2, <1>3, <1>4 DEF Job
  <2>2. job' = [job EXCEPT ![p] = j]
    BY <1>2, <1>3 DEF Job
  <2>3. pc' = [pc EXCEPT ![p] = x]
    BY DEF DialWins, IInv, TypeInv
  <2> QED
    BY <2>1, <2>2, <2>3
<1> HIDE DEF j
<1>6. /\ s \notin paths /\ s \notin retired /\ s # tr /\ tr \in open /\ tr \in open'
      /\ s \in open'
  BY <1>1, <1>2, <1>4 DEF IInv, SockInv
<1>7. pc'[p] = x /\ job'[p] = j => JobInv(p)'
  <2> SUFFICES ASSUME pc'[p] = x, job'[p] = j PROVE JobInv(p)'
    OBVIOUS
  <2>1. OwnSock(p, s)'
    BY <1>1, <1>5, <1>6 DEF OwnSock
  <2>2. HasSock(p)' /\ pc'[p] # "probe" /\ pc'[p] # "redial"
    BY DEF HasSock
  <2> QED
    BY <1>1, <1>4, <1>5, <1>6, <2>1, <2>2 DEF JobInv
<1>8. \/ p \in Goroutines /\ x \in Steps
      \/ p = Live /\ x \in {"idle", "failover", "won"}
  <2>1. p \in Goroutines => pc[p] # "failover"
    BY DEF IInv, TypeInv, Steps, Waiting
  <2>2. p = Live => pc[p] = "failover"
    BY <1>1 DEF IInv, TypeInv
  <2> QED
    BY <2>1, <2>2 DEF Procs, Steps
<1>9. /\ ProcsTyped' /\ OneRecovery' /\ JobsInv' /\ Alone(p) /\ Alone(p)'
      /\ pc'[p] = x /\ job'[p] = j
  <2>1. recovering' \in BOOLEAN
    BY <1>1 DEF IInv, TypeInv
  <2> HIDE DEF x
  <2> QED
    BY <1>1, <1>3, <1>5, <1>7, <1>8, <2>1, GoOn
<1>10. SockInv'
  <2>1. \A r \in open' : \/ r = tr \/ r \in paths \/ r \in retired
                         \/ \E q \in Procs : r \in job'[q].sock
    BY <1>2, <1>3, <1>5, <1>9, Held
  <2> QED
    BY <1>1, <1>2, <1>6, <2>1 DEF IInv, SockInv
<1>11. ConnInv'
  <2>1. ~conn.ended => \A r \in conn.socks : r = tr \/ r \in paths
    BY <1>1, <1>3, Held
  <2> QED
    BY <1>1, <2>1 DEF IInv, ConnInv
<1>12. TypeInv'
  <2>1. /\ conn \in Conn /\ conn.socks # {} /\ tr \in Sockets
        /\ open \subseteq Sockets /\ paths \subseteq Sockets /\ retired \subseteq Sockets
        /\ state \in {"connected", "recovering", "closed"}
    BY DEF IInv, TypeInv, TypeOK
  <2>2. candidates' \in Lists
    BY <1>1 DEF DialWins, IInv, JobsInv, JobInv, TypeInv, TypeOK
  <2>3. open' \subseteq Sockets
    BY <1>2, <1>4, <2>1
  <2> QED
    BY <1>1, <1>9, <2>1, <2>2, <2>3, RestTyped DEF netVars
<1> QED
  BY <1>9, <1>10, <1>11, <1>12 DEF IInv

\* migrate: the path that is probed is the connection's, over a new socket.
LEMMA ProbeKeeps ==
    ASSUME RecoveryConstants, IInv, NEW g \in Goroutines, Migrate(g), pc'[g] # "lock"
    PROVE  IInv'
<1>1. /\ pc[g] = "migrate" /\ g \in Procs
      /\ UNCHANGED <<netVars, candidates, tr, paths, retired, recovering, backoffVars, closed>>
  BY DEF Migrate, Procs
<1>2. /\ Busy(g) /\ ~HasSock(g) /\ job[g].sock = {} /\ job[g] \in Job /\ job \in [Procs -> Job]
      /\ pc \in [Procs -> Steps \cup {"failover", "won"}]
  BY <1>1 DEF Busy, HasSock, Waiting, IInv, JobsInv, JobInv, TypeInv
<1>3. PICK s \in Free :
        /\ Cardinality(paths) < MaxPaths /\ state' = "recovering"
        /\ open' = open \cup {s} /\ conn' = [conn EXCEPT !.socks = @ \cup {s}]
        /\ job' = [job EXCEPT ![g].sock = {s}] /\ pc' = [pc EXCEPT ![g] = "probe"]
  BY <1>1, <1>2 DEF Migrate
<1> DEFINE j == [job[g] EXCEPT !.sock = {s}]
<1>4. s \in Sockets /\ s \notin open
  BY <1>3 DEF Free
<1>5. j \in Job /\ j.sock = {s} /\ job' = [job EXCEPT ![g] = j]
  BY <1>2, <1>3, <1>4 DEF Job
<1> HIDE DEF j
<1>6. s \notin paths /\ s \notin retired /\ s \in open' /\ (s = tr => closed)
  BY <1>3, <1>4 DEF IInv, SockInv
<1>7. pc'[g] = "probe" /\ job'[g] = j => JobInv(g)'
  <2> SUFFICES ASSUME pc'[g] = "probe", job'[g] = j PROVE JobInv(g)'
    OBVIOUS
  <2>1. OwnSock(g, s)'
    BY <1>1, <1>5, <1>6 DEF OwnSock
  <2> QED
    BY <1>1, <1>3, <1>4, <2>1 DEF JobInv, HasSock
<1>8. /\ ProcsTyped' /\ OneRecovery' /\ JobsInv' /\ Alone(g) /\ Alone(g)'
      /\ pc'[g] = "probe" /\ job'[g] = j
  <2>1. recovering' \in BOOLEAN /\ "probe" \in Steps
    BY <1>1 DEF IInv, TypeInv, Steps
  <2> QED
    BY <1>1, <1>2, <1>3, <1>5, <1>7, <2>1, GoOn
<1>9. SockInv'
  <2>1. \A r \in open' : \/ r = tr \/ r \in paths \/ r \in retired
                         \/ \E q \in Procs : r \in job'[q].sock
    BY <1>1, <1>2, <1>3, <1>5, <1>8, Held
  <2> QED
    BY <1>1, <1>3, <2>1 DEF IInv, SockInv
<1>10. conn' \in Conn /\ conn'.socks = conn.socks \cup {s} /\ conn'.ended = conn.ended
  BY <1>3, <1>4 DEF IInv, TypeInv, Conn
<1>11. ConnInv'
  <2>1. ~conn.ended => \A r \in conn.socks : r = tr \/ r \in paths
    BY <1>1, <1>2, Held
  <2> QED
    BY <1>1, <1>5, <1>8, <1>10, <2>1 DEF IInv, ConnInv
<1>12. TypeInv'
  <2>1. /\ candidates \in Lists /\ tr \in Sockets
        /\ open \subseteq Sockets /\ paths \subseteq Sockets /\ retired \subseteq Sockets
    BY DEF IInv, TypeInv, TypeOK
  <2>3. open' \subseteq Sockets /\ conn'.socks # {}
    BY <1>3, <1>4, <1>10, <2>1
  <2> QED
    BY <1>1, <1>3, <1>8, <1>10, <2>1, <2>3, RestTyped DEF netVars
<1> QED
  BY <1>8, <1>9, <1>11, <1>12 DEF IInv

\* migrate, Switch: the old socket is kept, for the connection still uses it.
LEMMA MigrateOKKeeps ==
    ASSUME RecoveryConstants, IInv, NEW g \in Goroutines, MigrateOK(g)
    PROVE  IInv'
<1>1. /\ pc[g] = "probe" /\ g \in Procs /\ ~conn.ended /\ ~closed
      /\ paths' = paths \cup {tr} /\ (\E r \in job[g].sock : tr' = r)
      /\ conn' = [conn EXCEPT !.path = TRUE] /\ state' = "connected"
      /\ Reset /\ UNCHANGED throttle /\ End(g)
      /\ UNCHANGED <<netVars, candidates, retired, open, closed>>
  BY DEF MigrateOK, Procs, IInv, ConnInv
<1>2. Busy(g) /\ HasSock(g) /\ JobInv(g)
  BY <1>1 DEF Busy, HasSock, Waiting, IInv, JobsInv
<1>3. PICK s \in Sockets : OwnSock(g, s)
  BY <1>2 DEF JobInv
<1>4. /\ job[g].sock = {s} /\ s \in open /\ s \notin paths /\ s \notin retired /\ s # tr
      /\ tr' = s
  BY <1>1, <1>3 DEF OwnSock
<1>5. /\ ProcsTyped' /\ OneRecovery' /\ JobsInv' /\ Alone(g)
      /\ \A q \in Procs : pc'[q] \in Waiting /\ job'[q].sock = {}
  BY <1>1, <1>2, EndStep
<1>6. conn' \in Conn /\ conn'.socks = conn.socks /\ conn'.ended = conn.ended
  BY <1>1 DEF IInv, TypeInv, Conn
<1>7. /\ tr \in open /\ tr \notin retired /\ paths \subseteq open /\ retired \subseteq open
      /\ retired \cap paths = {} /\ IsFiniteSet(paths)
  BY <1>1 DEF IInv, SockInv
<1>8. IsFiniteSet(paths') /\ Cardinality(paths') <= MaxPaths
  <2>1. IsFiniteSet(paths') /\ Cardinality(paths') \in {Cardinality(paths), Cardinality(paths) + 1}
    BY <1>1, <1>7, FS_AddElement
  <2>2. Cardinality(paths) \in Nat
    BY <1>7, FS_CardinalityType
  <2>3. Cardinality(paths) < MaxPaths /\ MaxPaths \in Nat
    BY <1>1, <1>2 DEF JobInv, RecoveryConstants
  <2> QED
    BY <2>1, <2>2, <2>3
<1>9. SockInv'
  <2>1. \A r \in open : r = s \/ r \in paths' \/ r \in retired
    BY <1>1, <1>2, <1>4, Held
  <2> QED
    BY <1>1, <1>4, <1>7, <1>8, <2>1 DEF SockInv
<1>10. ConnInv'
  <2>1. \A r \in conn.socks : r = tr \/ r \in paths \/ r = s
    BY <1>1, <1>2, <1>4, Held
  <2> QED
    BY <1>1, <1>4, <1>6, <2>1 DEF ConnInv
<1>11. TypeInv'
  <2>1. /\ candidates \in Lists /\ conn.socks # {} /\ tr \in Sockets
        /\ open \subseteq Sockets /\ paths \subseteq Sockets /\ retired \subseteq Sockets
    BY DEF IInv, TypeInv, TypeOK
  <2>2. paths' \subseteq Sockets
    BY <1>1, <2>1
  <2> QED
    BY <1>1, <1>3, <1>4, <1>5, <1>6, <2>1, <2>2, RestTyped DEF netVars
<1> QED
  BY <1>5, <1>9, <1>10, <1>11 DEF IInv

\* migrate fails: the socket it probed is kept as well.
LEMMA MigrateFailsKeeps ==
    ASSUME RecoveryConstants, IInv, NEW g \in Goroutines, MigrateFails(g)
    PROVE  IInv'
<1>1. /\ pc[g] = "probe" /\ g \in Procs /\ paths' = paths \cup job[g].sock
      /\ pc' = [pc EXCEPT ![g] = "lock"] /\ job' = [job EXCEPT ![g] = NoJob]
      /\ UNCHANGED <<netVars, candidates, conn, state, tr, retired, open, recovering,
                     backoffVars, closed>>
  BY DEF MigrateFails, Procs
<1>2. Busy(g) /\ HasSock(g) /\ JobInv(g)
  BY <1>1 DEF Busy, HasSock, Waiting, IInv, JobsInv
<1>3. PICK s \in Sockets : OwnSock(g, s)
  BY <1>2 DEF JobInv
<1>4. job[g].sock = {s} /\ s \in open /\ s \notin paths /\ s \notin retired
  BY <1>3 DEF OwnSock
<1>5. /\ ProcsTyped' /\ OneRecovery' /\ JobsInv' /\ Alone(g) /\ Alone(g)'
      /\ pc'[g] = "lock" /\ job'[g] = NoJob
  <2>1. "lock" \in Steps /\ recovering' \in BOOLEAN
    BY <1>1 DEF Steps, IInv, TypeInv
  <2>2. pc'[g] = "lock" /\ job'[g] = NoJob => JobInv(g)'
    BY NoJobTyped DEF JobInv, HasSock
  <2> QED
    BY <1>1, <1>2, <2>1, <2>2, NoJobTyped, GoOn
<1>7. /\ tr \notin retired /\ paths \subseteq open /\ retired \subseteq open
      /\ retired \cap paths = {} /\ IsFiniteSet(paths) /\ (~closed => tr \in open)
  BY <1>1 DEF IInv, SockInv
<1>8. IsFiniteSet(paths') /\ Cardinality(paths') <= MaxPaths
  <2>1. IsFiniteSet(paths') /\ Cardinality(paths') = Cardinality(paths) + 1
    BY <1>1, <1>4, <1>7, FS_AddElement
  <2>2. Cardinality(paths) \in Nat
    BY <1>7, FS_CardinalityType
  <2>3. Cardinality(paths) < MaxPaths /\ MaxPaths \in Nat
    BY <1>1, <1>2 DEF JobInv, RecoveryConstants
  <2> QED
    BY <2>1, <2>2, <2>3
<1>9. SockInv'
  <2>1. \A r \in open : r = tr \/ r \in paths' \/ r \in retired
    BY <1>1, <1>2, <1>4, Held
  <2> QED
    BY <1>1, <1>4, <1>7, <1>8, <2>1 DEF SockInv
<1>10. ConnInv'
  <2>1. ~conn.ended => \A r \in conn.socks : r = tr \/ r \in paths'
    BY <1>1, <1>2, <1>4, Held
  <2> QED
    BY <1>1, <2>1 DEF IInv, ConnInv
<1>11. TypeInv'
  <2>1. /\ candidates \in Lists /\ conn \in Conn /\ conn.socks # {} /\ tr \in Sockets
        /\ open \subseteq Sockets /\ paths \subseteq Sockets /\ retired \subseteq Sockets
        /\ state \in {"connected", "recovering", "closed"}
    BY DEF IInv, TypeInv, TypeOK
  <2>2. paths' \subseteq Sockets
    BY <1>1, <1>4, <2>1
  <2> QED
    BY <1>1, <1>5, <2>1, <2>2, RestTyped DEF netVars
<1> QED
  BY <1>5, <1>9, <1>10, <1>11 DEF IInv

\* adoptConn, for a reconnect or a failover: all the old sockets are retired, for the
\* new connection uses none of them.
LEMMA AdoptKeeps ==
    ASSUME RecoveryConstants, IInv, NEW p \in Procs, pc[p] \in {"adopt", "won"},
           tr \in open, job[p].addr \in Addrs, AdoptConn(p), End(p),
           UNCHANGED <<netVars, candidates, closed>>,
           \/ UNCHANGED backoffVars
           \/ Reset /\ UNCHANGED throttle
    PROVE  IInv'
<1>1. /\ conn' = [addr |-> job[p].addr, socks |-> job[p].sock, path |-> TRUE, server |-> TRUE,
                  ended |-> closed]
      /\ retired' = retired \cup {tr} \cup paths /\ paths' = {}
      /\ (\E r \in job[p].sock : tr' = r) /\ state' = "connected" /\ UNCHANGED open
  BY DEF AdoptConn
<1>2. Busy(p) /\ HasSock(p) /\ JobInv(p)
  BY DEF Busy, HasSock, Waiting, IInv, JobsInv
<1>3. PICK s \in Sockets : OwnSock(p, s)
  BY <1>2 DEF JobInv
<1>4. /\ job[p].sock = {s} /\ s \in open /\ s \notin paths /\ s \notin retired /\ s # tr
      /\ tr' = s
  BY <1>1, <1>3 DEF OwnSock
<1>5. /\ ProcsTyped' /\ OneRecovery' /\ JobsInv' /\ Alone(p)
      /\ \A q \in Procs : pc'[q] \in Waiting /\ job'[q].sock = {}
  BY <1>2, EndStep
<1>6. paths \subseteq open /\ retired \subseteq open
  BY DEF IInv, SockInv
<1>7. SockInv'
  <2>1. \A r \in open : r = s \/ r \in retired'
    BY <1>1, <1>2, <1>4, Held
  <2>2. IsFiniteSet({}) /\ Cardinality({}) = 0 /\ MaxPaths \in Nat
    BY FS_EmptySet DEF RecoveryConstants
  <2>3. 0 <= MaxPaths
    BY <2>2
  <2>4. retired' \subseteq open /\ s \notin retired'
    BY <1>1, <1>4, <1>6
  <2> QED
    BY <1>1, <1>4, <2>1, <2>2, <2>3, <2>4 DEF SockInv
<1>8. ConnInv'
  BY <1>1, <1>4 DEF ConnInv
<1>9. TypeInv'
  <2>1. /\ candidates \in Lists /\ tr \in Sockets /\ closed \in BOOLEAN
        /\ open \subseteq Sockets /\ paths \subseteq Sockets /\ retired \subseteq Sockets
    BY DEF IInv, TypeInv, TypeOK
  <2>2. retired' \subseteq Sockets /\ paths' \subseteq Sockets /\ conn' \in Conn /\ conn'.socks # {}
    BY <1>1, <1>4, <2>1 DEF Conn
  <2> QED
    BY <1>1, <1>4, <1>5, <2>1, <2>2, RestTyped DEF netVars
<1> QED
  BY <1>5, <1>7, <1>8, <1>9 DEF IInv

\* A winner that is not adopted: its socket is closed.
LEMMA NotAdoptedKeeps ==
    ASSUME RecoveryConstants, IInv, NEW p \in Procs, pc[p] \in {"adopt", "won"},
           open' = open \ job[p].sock, End(p),
           UNCHANGED <<netVars, candidates, conn, state, tr, paths, retired, closed>>,
           \/ UNCHANGED backoffVars
           \/ BumpBackoff /\ UNCHANGED throttle
    PROVE  IInv'
<1>1. Busy(p) /\ HasSock(p) /\ JobInv(p) /\ pc[p] # "probe"
  BY DEF Busy, HasSock, Waiting, IInv, JobsInv
<1>2. PICK s \in Sockets : OwnSock(p, s)
  BY <1>1 DEF JobInv
<1>3. job[p].sock = {s} /\ s \in open /\ s \notin paths /\ s \notin retired /\ s # tr
  BY <1>1, <1>2 DEF OwnSock
<1>4. /\ ProcsTyped' /\ OneRecovery' /\ JobsInv' /\ Alone(p)
      /\ \A q \in Procs : pc'[q] \in Waiting /\ job'[q].sock = {}
  BY <1>1, EndStep
<1>5. SockInv'
  <2>1. \A r \in open' : r = tr \/ r \in paths \/ r \in retired
    BY <1>1, <1>3, Held
  <2> QED
    BY <1>3, <2>1 DEF IInv, SockInv
<1>6. ConnInv'
  <2>1. ~conn.ended => \A r \in conn.socks : r = tr \/ r \in paths
    BY <1>1, Held
  <2> QED
    BY <2>1 DEF IInv, ConnInv
<1>7. TypeInv'
  <2>1. /\ candidates \in Lists /\ conn \in Conn /\ conn.socks # {} /\ tr \in Sockets
        /\ open \subseteq Sockets /\ paths \subseteq Sockets /\ retired \subseteq Sockets
        /\ state \in {"connected", "recovering", "closed"}
    BY DEF IInv, TypeInv, TypeOK
  <2>2. open' \subseteq Sockets
    BY <2>1
  <2> QED
    BY <1>4, <2>1, <2>2, RestTyped DEF netVars
<1> QED
  BY <1>4, <1>5, <1>6, <1>7 DEF IInv

\* Close closes what it finds under the lock.
LEMMA CloseSocketsKeeps ==
    ASSUME RecoveryConstants, IInv, CloseSockets
    PROVE  IInv'
<1>1. /\ closed /\ ~Locked /\ open' = open \ ({tr} \cup paths) /\ paths' = {}
      /\ UNCHANGED <<netVars, candidates, conn, state, tr, retired, recVars, backoffVars, closed>>
  BY DEF CloseSockets
<1>2. \A p \in Procs : pc[p] \notin {"probe", "dial", "refresh", "redial", "adopt"}
  BY <1>1 DEF Locked
<1>3. ASSUME NEW p \in Procs PROVE JobInv(p)'
  <2>1. JobInv(p) /\ pc'[p] = pc[p] /\ job'[p] = job[p]
    BY <1>1 DEF IInv, JobsInv, recVars
  <2>2. ASSUME NEW s \in Sockets, HasSock(p), OwnSock(p, s) PROVE OwnSock(p, s)'
    BY <1>1, <1>2, <2>1, <2>2 DEF OwnSock
  <2> QED
    BY <1>1, <1>2, <2>1, <2>2 DEF JobInv, HasSock
<1>4. OneRecovery'
  BY <1>1 DEF IInv, OneRecovery, Busy, recVars
<1>5. SockInv'
  <2>1. IsFiniteSet({}) /\ Cardinality({}) = 0 /\ MaxPaths \in Nat
    BY FS_EmptySet DEF RecoveryConstants
  <2>2. 0 <= MaxPaths
    BY <2>1
  <2>3. retired \subseteq open'
    BY <1>1 DEF IInv, SockInv
  <2>4. \A s \in open' : s \in retired \/ \E p \in Procs : s \in job'[p].sock
    BY <1>1 DEF IInv, SockInv, recVars
  <2> QED
    BY <1>1, <2>1, <2>2, <2>3, <2>4 DEF IInv, SockInv
<1>6. ConnInv'
  BY <1>1 DEF IInv, ConnInv
<1>7. TypeInv'
  BY <1>1 DEF IInv, TypeInv, TypeOK, recVars, netVars, backoffVars
<1> QED
  BY <1>3, <1>4, <1>5, <1>6, <1>7 DEF IInv, JobsInv

\* retireTransport: nobody else has the socket.
LEMMA CloseRetiredKeeps ==
    ASSUME RecoveryConstants, IInv, NEW s \in Sockets, CloseRetired(s)
    PROVE  IInv'
<1>1. /\ s \in retired /\ retired' = retired \ {s} /\ open' = open \ {s}
      /\ UNCHANGED <<netVars, candidates, state, tr, paths, recVars, backoffVars, closed>>
  BY DEF CloseRetired
<1>2. /\ conn' \in Conn /\ conn'.socks = conn.socks /\ (conn.ended => conn'.ended)
  BY DEF IInv, TypeInv, Conn, CloseRetired
<1>3. s # tr /\ s \notin paths
  BY <1>1 DEF IInv, SockInv
<1>4. ASSUME NEW p \in Procs PROVE JobInv(p)'
  <2>1. JobInv(p) /\ pc'[p] = pc[p] /\ job'[p] = job[p]
    BY <1>1 DEF IInv, JobsInv, recVars
  <2>2. ASSUME NEW r \in Sockets, OwnSock(p, r) PROVE OwnSock(p, r)'
    BY <1>1, <2>1, <2>2 DEF OwnSock
  <2> QED
    BY <1>1, <1>3, <2>1, <2>2 DEF JobInv, HasSock
<1>5. OneRecovery'
  BY <1>1 DEF IInv, OneRecovery, Busy, recVars
<1>6. SockInv'
  BY <1>1, <1>3 DEF IInv, SockInv, recVars
<1>7. ConnInv'
  BY <1>1, <1>2 DEF IInv, ConnInv, recVars
<1>8. TypeInv'
  BY <1>1, <1>2 DEF IInv, TypeInv, TypeOK, recVars, netVars, backoffVars
<1> QED
  BY <1>4, <1>5, <1>6, <1>7, <1>8 DEF IInv, JobsInv

-----------------------------------------------------------------------------
(* The theorems.                                                           *)

LEMMA InitHolds ==
    ASSUME RecoveryConstants, Init
    PROVE  IInv
<1> USE DEF Init
<1>1. /\ \A p \in Procs : pc[p] = "idle" /\ job[p] = NoJob
      /\ open = {tr} /\ paths = {} /\ retired = {} /\ closed = FALSE
  OBVIOUS
<1>2. TypeInv
  <2>1. PICK a \in candidates \cap reachable :
            conn = [addr |-> a, socks |-> {tr}, path |-> TRUE, server |-> TRUE, ended |-> FALSE]
    OBVIOUS
  <2>2. candidates \subseteq Addrs
    BY DEF RecoveryConstants
  <2>3. conn \in Conn /\ conn.socks # {}
    BY <2>1, <2>2 DEF Conn
  <2>4. TypeOK
    BY <2>3 DEF TypeOK, RecoveryConstants
  <2>5. job \in [Procs -> Job]
    BY NoJobTyped
  <2>6. /\ pc \in [Procs -> Steps \cup {"failover", "won"}]
        /\ pc[Live] \in {"idle", "failover", "won"}
        /\ \A g \in Goroutines : pc[g] \in Steps
    BY DEF Procs, Steps, Waiting
  <2> QED
    BY <2>2, <2>3, <2>4, <2>5, <2>6 DEF TypeInv
<1>3. OneRecovery
  BY <1>1 DEF OneRecovery, Busy, Waiting
<1>4. JobsInv
  BY <1>1, NoJobTyped DEF JobsInv, JobInv, HasSock
<1>5. SockInv
  <2>1. IsFiniteSet({}) /\ Cardinality({}) = 0 /\ MaxPaths \in Nat
    BY FS_EmptySet DEF RecoveryConstants
  <2>2. 0 <= MaxPaths
    BY <2>1
  <2> QED
    BY <1>1, <2>1, <2>2 DEF SockInv
<1>6. ConnInv
  <2>1. conn.socks = {tr}
    OBVIOUS
  <2> QED
    BY <1>1, <2>1 DEF ConnInv
<1> QED
  BY <1>2, <1>3, <1>4, <1>5, <1>6 DEF IInv

\* The two ways of a goroutine's recovery out of a dial.
LEMMA AdoptStepsKeep ==
    ASSUME RecoveryConstants, IInv,
           \/ \E g \in Goroutines : Adopt(g) \/ AdoptFails(g) \/ ReconnectFails(g)
           \/ Failover \/ FailoverFails
    PROVE  IInv'
<1>1. Goroutines \subseteq Procs /\ Live \in Procs
  BY DEF Procs
<1>2. ASSUME NEW g \in Goroutines, Adopt(g) PROVE IInv'
  <2>1. /\ pc[g] = "adopt" /\ AdoptConn(g) /\ End(g) /\ Reset /\ UNCHANGED throttle
        /\ UNCHANGED <<netVars, candidates, closed>>
    BY <1>2 DEF Adopt
  <2>2. tr \in open /\ job[g].addr \in Addrs
    BY <1>1, <2>1 DEF IInv, JobsInv, JobInv
  <2> QED
    BY <1>1, <2>1, <2>2, AdoptKeeps
<1>3. ASSUME NEW g \in Goroutines, AdoptFails(g) PROVE IInv'
  <2>1. /\ pc[g] = "adopt" /\ open' = open \ job[g].sock /\ End(g)
        /\ BumpBackoff /\ UNCHANGED throttle
        /\ UNCHANGED <<netVars, candidates, conn, state, tr, paths, retired, closed>>
    BY <1>3 DEF AdoptFails
  <2> QED
    BY <1>1, <2>1, NotAdoptedKeeps
<1>4. ASSUME NEW g \in Goroutines, ReconnectFails(g) PROVE IInv'
  <2>1. /\ pc[g] = "failed" /\ End(g) /\ BumpBackoff /\ UNCHANGED throttle
        /\ UNCHANGED <<netVars, candidates, conn, state, tr, paths, retired, open, closed>>
    BY <1>4 DEF ReconnectFails, sockVars
  <2>2. Busy(g) /\ job[g].sock = {} /\ pc[g] # "probe"
    BY <1>1, <2>1 DEF Busy, Waiting, IInv, JobsInv, JobInv, HasSock
  <2> QED
    BY <1>1, <2>1, <2>2, EmptyHandedKeeps
<1>5. CASE Failover
  <2>1. /\ pc[Live] = "won" /\ state = "connected" /\ AdoptConn(Live) /\ End(Live)
        /\ UNCHANGED <<netVars, candidates, closed, backoffVars>>
    BY <1>5 DEF Failover
  <2>2. ~closed /\ job[Live].addr \in Addrs
    BY <1>1, <2>1 DEF IInv, JobsInv, JobInv
  <2>3. tr \in open
    BY <2>2 DEF IInv, SockInv
  <2> QED
    BY <1>1, <2>1, <2>2, <2>3, AdoptKeeps
<1>6. CASE FailoverFails
  <2>1. /\ pc[Live] \in {"failover", "won"} /\ open' = open \ job[Live].sock /\ End(Live)
        /\ UNCHANGED <<netVars, candidates, conn, state, tr, paths, retired, closed, backoffVars>>
    BY <1>6 DEF FailoverFails
  <2>2. CASE pc[Live] = "won"
    BY <1>1, <2>1, <2>2, NotAdoptedKeeps
  <2>3. CASE pc[Live] = "failover"
    <3>1. Busy(Live) /\ job[Live].sock = {} /\ pc[Live] # "probe"
      BY <1>1, <2>3 DEF Busy, Waiting, IInv, JobsInv, JobInv, HasSock
    <3>2. UNCHANGED open
      BY <2>1, <3>1
    <3> QED
      BY <1>1, <2>1, <3>1, <3>2, EmptyHandedKeeps
  <2> QED
    BY <2>1, <2>2, <2>3
<1> QED
  BY <1>2, <1>3, <1>4, <1>5, <1>6

LEMMA StepKeeps ==
    ASSUME RecoveryConstants, IInv, [Next]_vars
    PROVE  IInv'
<1>1. CASE UNCHANGED vars
  <2> USE <1>1 DEF vars, netVars, sockVars, recVars, backoffVars
  <2>1. TypeInv' /\ OneRecovery'
    BY DEF IInv, TypeInv, TypeOK, OneRecovery, Busy
  <2>2. JobsInv'
    BY DEF IInv, JobsInv, JobInv, HasSock, OwnSock
  <2>3. SockInv' /\ ConnInv'
    BY SocketsStay DEF IInv, ConnInv
  <2> QED
    BY <2>1, <2>2, <2>3 DEF IInv
<1>2. CASE NetworkChanges \/ Sleep \/ IdleTimeout \/ Pong \/ CooldownEnds
  BY <1>2, NetworkKeeps
<1>3. CASE Watchdog \/ InputFails
  BY <1>3, SpawnKeeps
<1>4. CASE LiveStep
  BY <1>4, LivenessTickKeeps, DialWinsKeeps, AdoptStepsKeep DEF LiveStep, Procs
<1>5. CASE Close \/ CloseSockets
  BY <1>5, CloseKeeps, CloseSocketsKeeps
<1>6. CASE \E s \in Sockets : CloseRetired(s)
  BY <1>6, CloseRetiredKeeps
<1>7. ASSUME NEW g \in Goroutines, Recovery(g) PROVE IInv'
  <2>1. g \in Procs
    BY DEF Procs
  <2>2. CASE Migrate(g)
    <3>1. pc[g] = "migrate"
      BY <2>2 DEF Migrate
    <3> QED
      BY <2>2, <3>1, NoSocketKeeps, ProbeKeeps
  <2> QED
    BY <1>7, <2>1, <2>2, RecoverWithKeeps, MigrateOKKeeps, MigrateFailsKeeps, NoSocketKeeps,
       DialWinsKeeps, AdoptStepsKeep DEF Recovery
<1> QED
  BY <1>1, <1>2, <1>3, <1>4, <1>5, <1>6, <1>7 DEF Next

\* The invariant of the client's sockets: one recovery at a time; each socket is the
\* one in use, kept for the connection, waiting to be closed or in a recovery's hand;
\* and the live connection is registered with none that is retired.
THEOREM RecoveryInvariant == Spec => []IInv
<1>1. Init => IInv
  BY InitHolds, RecoveryConstants
<1>2. IInv /\ [Next]_vars => IInv'
  BY StepKeeps, RecoveryConstants
<1> QED
  BY <1>1, <1>2, PTL DEF Spec

\* recoverWith's flag and retireTransport: however watchdog, keystrokes and ping loop
\* start recoveries and whatever of these fails, the live connection keeps its sockets
\* and no other socket stays open without an owner.
THEOREM SocketsExactHolds == Spec => []SocketsExact
<1>1. ASSUME RecoveryConstants, IInv PROVE LiveConnKeepsSockets
  <2>1. Cardinality({p \in Procs : pc[p] \notin {"idle", "recover", "reconnect"}}) <= 1
    <3> DEFINE B == {p \in Procs : pc[p] \notin {"idle", "recover", "reconnect"}}
    <3>1. \A p, q \in B : p = q
      BY <1>1 DEF IInv, OneRecovery, Busy, Waiting
    <3>2. CASE B = {}
      BY <3>2, FS_EmptySet
    <3>3. ASSUME NEW p \in B PROVE Cardinality(B) = 1
      <4>1. B = {p}
        BY <3>1
      <4> QED
        BY <4>1, FS_Singleton
    <3> QED
      BY <3>2, <3>3
  <2>2. ~conn.ended => conn.socks \subseteq open \ retired
    <3> SUFFICES ASSUME ~conn.ended, NEW s \in conn.socks PROVE s \in open /\ s \notin retired
      OBVIOUS
    <3>1. CASE s = tr
      BY <1>1, <3>1 DEF IInv, ConnInv, SockInv
    <3>2. CASE s \in paths
      BY <1>1, <3>2 DEF IInv, SockInv
    <3>3. ASSUME NEW p \in Procs, pc[p] = "probe", s \in job[p].sock
          PROVE  s \in open /\ s \notin retired
      BY <1>1, <3>3 DEF IInv, JobsInv, JobInv, HasSock, OwnSock
    <3> QED
      BY <1>1, <3>1, <3>2, <3>3 DEF IInv, ConnInv
  <2> QED
    BY <1>1, <2>1, <2>2 DEF LiveConnKeepsSockets, IInv, TypeInv
<1>2. ASSUME IInv PROVE NoSocketLeak
  <2> DEFINE Hands == UNION {job[p].sock : p \in Procs}
  <2>1. Hands \subseteq open
    <3> SUFFICES ASSUME NEW p \in Procs, NEW s \in job[p].sock PROVE s \in open
      OBVIOUS
    <3>1. HasSock(p)
      BY <1>2 DEF IInv, JobsInv, JobInv
    <3> QED
      BY <1>2, <3>1 DEF IInv, JobsInv, JobInv, OwnSock
  <2>2. \A s \in open : s = tr \/ s \in paths \/ s \in retired \/ s \in Hands
    BY <1>2 DEF IInv, SockInv
  <2>3. paths \subseteq open /\ retired \subseteq open
    BY <1>2 DEF IInv, SockInv
  <2> HIDE DEF Hands
  <2>4. open = (open \cap {tr}) \cup paths \cup retired \cup Hands
    BY <2>1, <2>2, <2>3
  <2> QED
    BY <1>2, <2>4 DEF NoSocketLeak, IInv, SockInv, Hands
<1> QED
  BY <1>1, <1>2, RecoveryInvariant, RecoveryConstants, PTL DEF SocketsExact

-----------------------------------------------------------------------------
(* Loops over the bytes of a chunk or of a read.                           *)

\* Induction up to n, for a set in the place of a predicate.
LEMMA UpTo ==
    ASSUME NEW n \in Nat, NEW T, 0 \in T,
           \A k \in 0 .. n : k < n /\ k \in T => k + 1 \in T
    PROVE  \A k \in 0 .. n : k \in T
<1> DEFINE less == {ss \in Nat \X Nat : ss[1] < ss[2]}
<1> SUFFICES ASSUME (0 .. n) \ T # {} PROVE FALSE
  OBVIOUS
<1>1. IsWellFoundedOn(less, Nat)
  <2>1. OpToRel(<, Nat) = less
    BY DEF OpToRel
  <2> QED
    BY <2>1, NatLessThanWellFounded
<1>2. (0 .. n) \ T \subseteq Nat
  OBVIOUS
<1>3. PICK k \in (0 .. n) \ T : \A j \in (0 .. n) \ T : <<j, k>> \notin less
  BY <1>1, <1>2, WFMin
<1>4. k # 0 /\ k - 1 \in 0 .. n /\ k - 1 < n /\ <<k - 1, k>> \in less
  BY <1>3
<1>5. k - 1 \in T
  BY <1>3, <1>4
<1>6. (k - 1) + 1 = k
  BY <1>3
<1> QED
  BY <1>3, <1>4, <1>5, <1>6

\* The history f of a loop of n steps, from x.
LoopRuns(D, n, x, step, f) ==
    /\ f \in [0 .. n -> D]
    /\ f[0] = x
    /\ \A k \in 1 .. n : f[k] = step[k][f[k - 1]]

\* It exists.
LEMMA LoopHasHistory ==
    ASSUME NEW D, NEW n \in Nat, NEW x \in D, NEW step \in [1 .. n -> [D -> D]]
    PROVE  \E f : LoopRuns(D, n, x, step, f)
<1> DEFINE T == {k \in 0 .. n : \E f : LoopRuns(D, k, x, step, f)}
<1>1. 0 \in T
  <2>1. LoopRuns(D, 0, x, step, [k \in 0 .. 0 |-> x])
    BY DEF LoopRuns
  <2> QED
    BY <2>1
<1>2. ASSUME NEW k \in 0 .. n, k < n, k \in T PROVE k + 1 \in T
  <2>1. PICK f : LoopRuns(D, k, x, step, f)
    BY <1>2
  <2> DEFINE g == [j \in 0 .. k + 1 |-> IF j = k + 1 THEN step[k + 1][f[k]] ELSE f[j]]
  <2>2. f[k] \in D /\ step[k + 1] \in [D -> D]
    BY <1>2, <2>1 DEF LoopRuns
  <2>3. step[k + 1][f[k]] \in D
    BY <2>2
  <2>4. g \in [0 .. k + 1 -> D]
    <3>1. ASSUME NEW j \in 0 .. k + 1, j # k + 1 PROVE f[j] \in D
      BY <2>1, <3>1 DEF LoopRuns
    <3> QED
      BY <2>3, <3>1
  <2>5. ASSUME NEW j \in 1 .. k + 1 PROVE g[j] = step[j][g[j - 1]]
    <3>1. CASE j = k + 1
      BY <1>2, <3>1
    <3>2. CASE j # k + 1
      <4>1. j \in 1 .. k /\ j - 1 \in 0 .. k + 1 /\ j - 1 # k + 1
        BY <3>2
      <4>2. g[j] = f[j] /\ g[j - 1] = f[j - 1]
        BY <4>1, <3>2
      <4> QED
        BY <2>1, <4>1, <4>2 DEF LoopRuns
    <3> QED
      BY <3>1, <3>2
  <2>6. g[0] = x
    BY <2>1 DEF LoopRuns
  <2> HIDE DEF g
  <2>7. LoopRuns(D, k + 1, x, step, g)
    BY <2>4, <2>5, <2>6 DEF LoopRuns
  <2> QED
    BY <1>2, <2>7
<1> HIDE DEF T
<1>3. \A k \in 0 .. n : k \in T
  BY <1>1, <1>2, UpTo
<1>4. n \in 0 .. n
  OBVIOUS
<1> QED
  BY <1>3, <1>4 DEF T

\* A function defined by the loop's recursion.
Recurs(D, n, x, step, f) ==
    /\ f[0] = x
    /\ \A k \in 1 .. n : f[k - 1] \in D => f[k] = step[k][f[k - 1]]

\* g is the history, and all that the recursion can define.
History(D, n, x, step, g) ==
    /\ LoopRuns(D, n, x, step, g)
    /\ \A f : Recurs(D, n, x, step, f) => \A k \in 0 .. n : f[k] = g[k]

\* There is a history, and whatever recurs as the loop does is that history.
LEMMA TheHistory ==
    ASSUME NEW D, NEW n \in Nat, NEW x \in D, NEW step \in [1 .. n -> [D -> D]]
    PROVE  \E g : History(D, n, x, step, g)
<1>1. PICK g : LoopRuns(D, n, x, step, g)
  BY LoopHasHistory
<1>2. ASSUME NEW f, Recurs(D, n, x, step, f) PROVE \A k \in 0 .. n : f[k] = g[k]
  <2> DEFINE T == {k \in 0 .. n : f[k] = g[k]}
  <2>1. 0 \in T
    BY <1>1, <1>2 DEF LoopRuns, Recurs
  <2>2. ASSUME NEW k \in 0 .. n, k < n, k \in T PROVE k + 1 \in T
    <3>1. k + 1 \in 1 .. n /\ (k + 1) - 1 = k
      BY <2>2
    <3>2. f[k] = g[k] /\ g[k] \in D
      BY <1>1, <2>2 DEF LoopRuns
    <3>3. g[k + 1] = step[k + 1][g[k]]
      BY <1>1, <3>1 DEF LoopRuns
    <3>4. f[k + 1] = step[k + 1][f[k]]
      BY <1>2, <3>1, <3>2 DEF Recurs
    <3> QED
      BY <3>1, <3>2, <3>3, <3>4
  <2> HIDE DEF T
  <2>3. \A k \in 0 .. n : k \in T
    BY <2>1, <2>2, UpTo
  <2> QED
    BY <2>3 DEF T
<1> QED
  BY <1>1, <1>2 DEF History

-----------------------------------------------------------------------------
(* Terminals.                                                              *)

Symbol == {"E", "CAN", "[", "?", ";", "=", ">", "h", "l", "c", "x"} \union Modes
Scans == {"ground", "esc", "csi", "private", "ignore"}
AllModes == Modes \union {"keypad"}
Terminal == [scan : Scans, params : SUBSET Modes, on : SUBSET AllModes]

\* Setting modes leaves a set of modes.
LEMMA SetModesTyped ==
    ASSUME NEW on, on \subseteq AllModes, NEW nums, nums \subseteq Modes, NEW set
    PROVE  SetModes(on, nums, set) \subseteq AllModes
  BY DEF SetModes, AllModes

\* A terminal that reads a symbol is a terminal.
LEMMA TerminalByteTyped ==
    ASSUME NEW t \in Terminal, NEW b \in Symbol
    PROVE  TerminalByte(t, b) \in Terminal
<1>1. t.scan \in Scans /\ t.params \subseteq Modes /\ t.on \subseteq AllModes
  BY DEF Terminal
<1>2. SetModes(t.on, t.params, b = "h") \subseteq AllModes
  BY <1>1, SetModesTyped
<1> QED
  BY <1>1, <1>2 DEF TerminalByte, Terminal, Scans, AllModes

\* The terminal after each symbol.
LEMMA TerminalHistory ==
    ASSUME NEW t \in Terminal, NEW w \in Seq(Symbol)
    PROVE  \E f \in [0 .. Len(w) -> Terminal] :
              /\ f[0] = t /\ TerminalReads(t, w) = f[Len(w)]
              /\ \A k \in 1 .. Len(w) : f[k] = TerminalByte(f[k - 1], w[k])
<1> DEFINE n == Len(w)
           step == [k \in 1 .. n |-> [u \in Terminal |-> TerminalByte(u, w[k])]]
           f == CHOOSE h : h = [k \in 0 .. n |-> IF k = 0 THEN t ELSE TerminalByte(h[k - 1], w[k])]
<1>1. n \in Nat /\ \A k \in 1 .. n : w[k] \in Symbol
  OBVIOUS
<1>2. step \in [1 .. n -> [Terminal -> Terminal]]
  BY <1>1, TerminalByteTyped
<1>3. \A k \in 1 .. n : \A u \in Terminal : step[k][u] = TerminalByte(u, w[k])
  OBVIOUS
<1>4. TerminalReads(t, w) = f[n]
  BY DEF TerminalReads
<1> HIDE DEF step, n
<1>5. PICK g : History(Terminal, n, t, step, g)
  BY <1>1, <1>2, TheHistory
<1>6. g \in [0 .. n -> Terminal] /\ g[0] = t
  BY <1>5 DEF History, LoopRuns
<1>7. ASSUME NEW k \in 1 .. n PROVE g[k] = TerminalByte(g[k - 1], w[k])
  <2>1. g[k - 1] \in Terminal
    BY <1>1, <1>6
  <2> QED
    BY <1>3, <1>5, <2>1 DEF History, LoopRuns
<1>8. g = [k \in 0 .. n |-> IF k = 0 THEN t ELSE TerminalByte(g[k - 1], w[k])]
  <2>1. ASSUME NEW k \in 0 .. n PROVE g[k] = IF k = 0 THEN t ELSE TerminalByte(g[k - 1], w[k])
    <3>1. k = 0 \/ k \in 1 .. n
      BY <1>1
    <3> QED
      BY <3>1, <1>6, <1>7
  <2> QED
    BY <1>6, <2>1
<1>9. f = [k \in 0 .. n |-> IF k = 0 THEN t ELSE TerminalByte(f[k - 1], w[k])]
  BY <1>8
<1> HIDE DEF f
<1>10. f[0] = t /\ \A k \in 1 .. n : f[k] = TerminalByte(f[k - 1], w[k])
  BY <1>1, <1>9
<1>11. Recurs(Terminal, n, t, step, f)
  BY <1>3, <1>10 DEF Recurs
<1>12. \A k \in 0 .. n : f[k] = g[k]
  BY <1>5, <1>11 DEF History
<1>13. TerminalReads(t, w) = g[n]
  BY <1>1, <1>4, <1>12
<1> QED
  BY <1>6, <1>7, <1>13 DEF n

-----------------------------------------------------------------------------
(* Two terminals that read the same.                                       *)

\* They stand at the same place in a sequence.
Synced(t, u) ==
    /\ t.scan = u.scan
    /\ t.scan = "private" => t.params = u.params

Agrees(t, u) == Synced(t, u) /\ t.on = u.on

\* In each mode t is as u is, or as it was set at first.
Caught(first, t, u) ==
    /\ Synced(t, u)
    /\ \A m \in AllModes : m \in t.on => m \in u.on \/ m \in first
    /\ \A m \in AllModes : m \in u.on /\ m \in first => m \in t.on

\* Or t has seen no sequence yet.
Near(first, t, u) ==
    \/ Caught(first, t, u)
    \/ t.scan = "ground" /\ t.on = first

\* Two terminals at the same place of a sequence are so after the next symbol.
LEMMA SyncedByte ==
    ASSUME NEW t \in Terminal, NEW u \in Terminal, NEW b \in Symbol, Synced(t, u)
    PROVE  Synced(TerminalByte(t, b), TerminalByte(u, b))
<1>1. /\ t.scan \in Scans /\ u.scan \in Scans /\ t.scan = u.scan
      /\ t.scan = "private" => t.params = u.params
  BY DEF Synced, Terminal
<1> QED
  BY <1>1 DEF Synced, TerminalByte, Scans, Terminal

\* One symbol takes modes on1 to on3 and modes on2 to on4.
SameEffect(on1, on2, on3, on4) ==
    \E put, keep : /\ on3 = put \union (on1 \intersect keep)
                   /\ on4 = put \union (on2 \intersect keep)

\* What a symbol does to the modes depends on the place in the sequence only.
LEMMA OnAfterByte ==
    ASSUME NEW t \in Terminal, NEW u \in Terminal, NEW b \in Symbol, Synced(t, u)
    PROVE  SameEffect(t.on, u.on, TerminalByte(t, b).on, TerminalByte(u, b).on)
<1> DEFINE v == TerminalByte(t, b)
           w == TerminalByte(u, b)
           Same == v.on = t.on /\ w.on = u.on
           Goal(put, keep) == /\ v.on = put \union (t.on \intersect keep)
                              /\ w.on = put \union (u.on \intersect keep)
<1> SUFFICES \E put, keep : Goal(put, keep)
  BY DEF SameEffect
<1>1. /\ t.scan \in Scans /\ u.scan \in Scans /\ t.scan = u.scan
      /\ t.scan = "private" => t.params = u.params
      /\ t.on \subseteq AllModes /\ u.on \subseteq AllModes
      /\ t.params \subseteq Modes /\ "keypad" \in AllModes /\ Modes \subseteq AllModes
  BY DEF Synced, Terminal, AllModes
<1>2. CASE Same
  BY <1>1, <1>2, Goal({}, AllModes)
<1>3. CASE t.scan = "esc" /\ b \in {"c", "=", ">"}
  <2>1. b = "c" => Goal({}, {})
    BY <1>1, <1>3 DEF TerminalByte, Terminal
  <2>2. b = "=" => Goal({"keypad"}, AllModes)
    BY <1>1, <1>3 DEF TerminalByte, Terminal
  <2>3. b = ">" => Goal({}, AllModes \ {"keypad"})
    BY <1>1, <1>3 DEF TerminalByte, Terminal
  <2> QED
    BY <1>1, <1>3, <2>1, <2>2, <2>3
<1>4. CASE t.scan = "private" /\ b \in {"h", "l"}
  <2> DEFINE differ == {m \in t.params : (m = "cursor") # (b = "h")}
  <2>1. Goal(differ, AllModes \ (t.params \ differ))
    <3>1. v.on = SetModes(t.on, t.params, b = "h") /\ w.on = SetModes(u.on, t.params, b = "h")
      BY <1>1, <1>4 DEF TerminalByte, Terminal, Final, Modes
    <3> QED
      BY <1>1, <3>1 DEF SetModes
  <2> QED
    BY <1>1, <2>1
<1>5. CASE ~(t.scan = "esc" /\ b \in {"c", "=", ">"}) /\ ~(t.scan = "private" /\ b \in {"h", "l"})
  BY <1>1, <1>2, <1>5 DEF TerminalByte, Terminal, Scans
<1> QED
  BY <1>3, <1>4, <1>5

\* What one symbol does to the three relations.
LEMMA NearByte ==
    ASSUME NEW t \in Terminal, NEW u \in Terminal, NEW b \in Symbol, NEW first
    PROVE  /\ Agrees(t, u) => Agrees(TerminalByte(t, b), TerminalByte(u, b))
           /\ Caught(first, t, u) => Caught(first, TerminalByte(t, b), TerminalByte(u, b))
           /\ Near(first, t, u) => Near(first, TerminalByte(t, b), TerminalByte(u, b))
<1> DEFINE v == TerminalByte(t, b)
           w == TerminalByte(u, b)
           Goal == /\ Agrees(t, u) => Agrees(v, w)
                   /\ Caught(first, t, u) => Caught(first, v, w)
                   /\ Near(first, t, u) => Near(first, v, w)
<1> SUFFICES Goal
  OBVIOUS
<1> HIDE DEF v, w
<1>1. CASE Synced(t, u)
  <2>1. Synced(v, w)
    BY <1>1, SyncedByte DEF v, w
  <2>2. SameEffect(t.on, u.on, v.on, w.on)
    BY <1>1, OnAfterByte DEF v, w
  <2>3. Caught(first, t, u) => Caught(first, v, w)
    BY <2>1, <2>2 DEF Caught, SameEffect
  <2>4. Agrees(t, u) => Agrees(v, w)
    BY <2>1, <2>2 DEF Agrees, SameEffect
  <2>5. t.on = first => Caught(first, t, u)
    BY <1>1 DEF Caught
  <2> QED
    BY <2>3, <2>4, <2>5 DEF Near
<1>2. CASE ~Synced(t, u) /\ t.scan = "ground" /\ t.on = first
  <2>1. CASE b = "E"
    <3>1. v.scan = "esc" /\ w.scan = "esc" /\ v.on = first /\ w.on = u.on
      BY <1>2, <2>1 DEF TerminalByte, Terminal, v, w
    <3>2. Caught(first, v, w)
      BY <3>1 DEF Caught, Synced
    <3> QED
      BY <1>2, <3>2 DEF Near, Agrees, Caught
  <2>2. CASE b # "E"
    <3>1. v.scan = "ground" /\ v.on = first
      BY <1>2, <2>2 DEF TerminalByte, Terminal, v
    <3> QED
      BY <1>2, <3>1 DEF Near, Agrees, Caught
  <2> QED
    BY <2>1, <2>2
<1> QED
  BY <1>1, <1>2 DEF Agrees, Caught, Near

\* Terminals that read the same symbols stay as near as they were.
LEMMA NearReads ==
    ASSUME NEW t \in Terminal, NEW u \in Terminal, NEW w \in Seq(Symbol), NEW first
    PROVE  /\ TerminalReads(t, w) \in Terminal
           /\ Agrees(t, u) => Agrees(TerminalReads(t, w), TerminalReads(u, w))
           /\ Caught(first, t, u) => Caught(first, TerminalReads(t, w), TerminalReads(u, w))
           /\ Near(first, t, u) => Near(first, TerminalReads(t, w), TerminalReads(u, w))
<1>1. PICK f \in [0 .. Len(w) -> Terminal] :
              /\ f[0] = t /\ TerminalReads(t, w) = f[Len(w)]
              /\ \A k \in 1 .. Len(w) : f[k] = TerminalByte(f[k - 1], w[k])
  BY TerminalHistory
<1>2. PICK g \in [0 .. Len(w) -> Terminal] :
              /\ g[0] = u /\ TerminalReads(u, w) = g[Len(w)]
              /\ \A k \in 1 .. Len(w) : g[k] = TerminalByte(g[k - 1], w[k])
  BY TerminalHistory
<1> DEFINE n == Len(w)
           Kept(v, z) == /\ Agrees(t, u) => Agrees(v, z)
                         /\ Caught(first, t, u) => Caught(first, v, z)
                         /\ Near(first, t, u) => Near(first, v, z)
           T == {k \in 0 .. n : Kept(f[k], g[k])}
<1>3. n \in Nat /\ \A k \in 1 .. n : w[k] \in Symbol
  OBVIOUS
<1>4. 0 \in T
  BY <1>1, <1>2
<1>5. ASSUME NEW k \in 0 .. n, k < n, k \in T PROVE k + 1 \in T
  <2>1. k + 1 \in 1 .. n /\ (k + 1) - 1 = k /\ k + 1 \in 0 .. n
    BY <1>5
  <2>2. f[k + 1] = TerminalByte(f[k], w[k + 1]) /\ g[k + 1] = TerminalByte(g[k], w[k + 1])
    BY <1>1, <1>2, <2>1
  <2>3. f[k] \in Terminal /\ g[k] \in Terminal /\ w[k + 1] \in Symbol
    BY <1>3, <2>1
  <2>4. /\ Agrees(f[k], g[k]) => Agrees(f[k + 1], g[k + 1])
        /\ Caught(first, f[k], g[k]) => Caught(first, f[k + 1], g[k + 1])
        /\ Near(first, f[k], g[k]) => Near(first, f[k + 1], g[k + 1])
    BY <2>2, <2>3, NearByte
  <2>5. Kept(f[k], g[k])
    BY <1>5
  <2>6. Kept(f[k + 1], g[k + 1])
    BY <2>4, <2>5
  <2> QED
    BY <2>1, <2>6
<1> HIDE DEF T
<1>6. \A k \in 0 .. n : k \in T
  BY <1>3, <1>4, <1>5, UpTo
<1>7. n \in T /\ f[n] \in Terminal
  BY <1>3, <1>6
<1> QED
  BY <1>1, <1>2, <1>7 DEF T

-----------------------------------------------------------------------------
(* The tracker, and a terminal.                                            *)

\* The tracker stands where the terminal does, or has left a sequence that is no mode.
Tracks(t, u) ==
    /\ t.on = u.on
    /\ Synced(t, u) \/ (t.scan = "ground" /\ u.scan \in {"ground", "ignore"})

Scan == [t : Terminal, skip : 0 .. 2]

\* The tracker's loop stays a tracker, with at most two bytes to skip.
LEMMA ModeStepTyped ==
    ASSUME NEW s \in Scan, NEW w \in Seq(Symbol), NEW i \in 1 .. Len(w)
    PROVE  ModeStep(s, w, i) \in Scan
<1>1. s.t \in Terminal /\ s.skip \in 0 .. 2 /\ w[i] \in Symbol
  BY DEF Scan
<1>2. TerminalByte(s.t, w[i]) \in Terminal
  BY <1>1, TerminalByteTyped
<1>3. [s.t EXCEPT !.scan = "esc"] \in Terminal /\ [s.t EXCEPT !.scan = "ground"] \in Terminal
  BY <1>1 DEF Terminal, Scans
<1>4. s.skip > 0 => s.skip - 1 \in 0 .. 2
  BY <1>1
<1> QED
  BY <1>1, <1>2, <1>3, <1>4 DEF ModeStep, Scan

\* The scan after each symbol.
LEMMA ScanHistory ==
    ASSUME NEW t \in Terminal, NEW w \in Seq(Symbol)
    PROVE  \E f \in [0 .. Len(w) -> Scan] :
              /\ f[0] = [t |-> t, skip |-> 0] /\ ModeScan(t, w) = f[Len(w)].t
              /\ \A k \in 1 .. Len(w) : f[k] = ModeStep(f[k - 1], w, k)
<1> DEFINE n == Len(w)
           x == [t |-> t, skip |-> 0]
           step == [k \in 1 .. n |-> [s \in Scan |-> ModeStep(s, w, k)]]
           f == CHOOSE h : h = [k \in 0 .. n |-> IF k = 0 THEN x ELSE ModeStep(h[k - 1], w, k)]
<1>1. n \in Nat /\ x \in Scan
  BY DEF Scan
<1>2. step \in [1 .. n -> [Scan -> Scan]]
  BY <1>1, ModeStepTyped
<1>3. \A k \in 1 .. n : \A s \in Scan : step[k][s] = ModeStep(s, w, k)
  OBVIOUS
<1>4. ModeScan(t, w) = f[n].t
  BY DEF ModeScan
<1> HIDE DEF step, n, x
<1>5. PICK g : History(Scan, n, x, step, g)
  BY <1>1, <1>2, TheHistory
<1>6. g \in [0 .. n -> Scan] /\ g[0] = x
  BY <1>5 DEF History, LoopRuns
<1>7. ASSUME NEW k \in 1 .. n PROVE g[k] = ModeStep(g[k - 1], w, k)
  <2>1. g[k - 1] \in Scan
    BY <1>1, <1>6
  <2> QED
    BY <1>3, <1>5, <2>1 DEF History, LoopRuns
<1>8. g = [k \in 0 .. n |-> IF k = 0 THEN x ELSE ModeStep(g[k - 1], w, k)]
  <2>1. ASSUME NEW k \in 0 .. n PROVE g[k] = IF k = 0 THEN x ELSE ModeStep(g[k - 1], w, k)
    <3>1. k = 0 \/ k \in 1 .. n
      BY <1>1
    <3> QED
      BY <3>1, <1>6, <1>7
  <2> QED
    BY <1>6, <2>1
<1>9. f = [k \in 0 .. n |-> IF k = 0 THEN x ELSE ModeStep(f[k - 1], w, k)]
  BY <1>8
<1> HIDE DEF f
<1>10. f[0] = x
  BY <1>1, <1>9
<1>14. \A k \in 1 .. n : f[k] = ModeStep(f[k - 1], w, k)
  BY <1>1, <1>9
<1>11. Recurs(Scan, n, x, step, f)
  BY <1>3, <1>10, <1>14 DEF Recurs
<1>12. \A k \in 0 .. n : f[k] = g[k]
  BY <1>5, <1>11 DEF History
<1>13. ModeScan(t, w) = g[n].t
  BY <1>1, <1>4, <1>12
<1> QED
  BY <1>6, <1>7, <1>13 DEF n, x

\* After n symbols of w: what is still to be skipped is read by the terminal as the
\* beginning of a sequence that is no mode.
ScanTracks(s, u, w, n) ==
    /\ s.t.on = u.on
    /\ \/ s.skip = 0 /\ Tracks(s.t, u)
       \/ s.skip = 2 /\ s.t.scan = "ground" /\ u.scan = "esc" /\ Skips(w, n)
       \/ /\ s.skip = 1 /\ s.t.scan = "ground" /\ u.scan = "csi"
          /\ n + 1 <= Len(w) /\ w[n + 1] \notin {"?", "E", "CAN"}

\* One step of the tracker's loop keeps up with a terminal that reads the byte.
LEMMA ScanTracksByte ==
    ASSUME NEW s \in Scan, NEW u \in Terminal, NEW w \in Seq(Symbol), NEW n \in 0 .. Len(w),
           n < Len(w), ScanTracks(s, u, w, n)
    PROVE  ScanTracks(ModeStep(s, w, n + 1), TerminalByte(u, w[n + 1]), w, n + 1)
<1> DEFINE b == w[n + 1]
           v == TerminalByte(u, b)
           z == ModeStep(s, w, n + 1)
<1>1. /\ s.t \in Terminal /\ s.skip \in 0 .. 2 /\ b \in Symbol /\ u.scan \in Scans
      /\ s.t.scan \in Scans
  BY DEF Scan, Terminal
<1>2. CASE s.skip = 2
  <2>1. z.skip = 1 /\ z.t = s.t
    BY <1>2 DEF ModeStep, Scan
  <2>2. b = "[" /\ u.scan = "esc" /\ s.t.scan = "ground" /\ s.t.on = u.on
    BY <1>2 DEF ScanTracks, Skips
  <2>3. v.scan = "csi" /\ v.on = u.on
    BY <2>2 DEF TerminalByte, Terminal
  <2>4. (n + 1) + 1 <= Len(w) /\ w[(n + 1) + 1] \notin {"?", "E", "CAN"}
    <3>1. n + 2 <= Len(w) /\ w[n + 2] \notin {"?", "E", "CAN"}
      BY <1>2 DEF ScanTracks, Skips
    <3>2. (n + 1) + 1 = n + 2
      OBVIOUS
    <3> QED
      BY <3>1, <3>2
  <2> HIDE DEF z, v
  <2> QED
    BY <2>1, <2>2, <2>3, <2>4 DEF ScanTracks, v, z
<1>3. CASE s.skip = 1
  <2>1. z.skip = 0 /\ z.t = s.t
    BY <1>3 DEF ModeStep, Scan
  <2>2. b \notin {"?", "E", "CAN"} /\ u.scan = "csi" /\ s.t.scan = "ground" /\ s.t.on = u.on
    BY <1>3 DEF ScanTracks
  <2>3. v.scan \in {"ground", "ignore"} /\ v.on = u.on
    BY <2>2 DEF TerminalByte, Terminal
  <2> QED
    BY <2>1, <2>2, <2>3 DEF ScanTracks, Tracks
<1>4. CASE s.skip = 0
  <2>1. Tracks(s.t, u) /\ s.t.on = u.on
    BY <1>4 DEF ScanTracks, Tracks
  <2>2. CASE s.t.scan = "ground" /\ b # "E"
    <3>1. z = s
      BY <1>4, <2>2 DEF ModeStep
    <3>2. u.scan \in {"ground", "ignore"}
      BY <2>1, <2>2 DEF Tracks, Synced
    <3>3. v.scan \in {"ground", "ignore"} /\ v.on = u.on
      BY <2>2, <3>2 DEF TerminalByte, Terminal
    <3> QED
      BY <1>4, <2>1, <2>2, <3>1, <3>3 DEF ScanTracks, Tracks
  <2>3. CASE s.t.scan = "ground" /\ b = "E"
    <3>1. v.scan = "esc" /\ v.on = u.on
      BY <2>3 DEF TerminalByte, Terminal
    <3>2. CASE Skips(w, n + 1)
      <4>1. z.skip = 2 /\ z.t = s.t
        BY <1>4, <2>3, <3>2 DEF ModeStep, Scan
      <4> QED
        BY <2>1, <2>3, <3>1, <3>2, <4>1 DEF ScanTracks
    <3>3. CASE ~Skips(w, n + 1)
      <4>1. z.skip = 0 /\ z.t.scan = "esc" /\ z.t.on = s.t.on
        BY <1>1, <1>4, <2>3, <3>3 DEF ModeStep, Scan, Terminal
      <4> QED
        BY <2>1, <3>1, <4>1 DEF ScanTracks, Tracks, Synced
    <3> QED
      BY <3>2, <3>3
  <2>4. CASE s.t.scan = "csi" /\ b \notin {"?", "E"}
    <3>1. z.skip = 0 /\ z.t.scan = "ground" /\ z.t.on = s.t.on
      BY <1>1, <1>4, <2>4 DEF ModeStep, Scan, Terminal
    <3>2. u.scan = "csi"
      BY <2>1, <2>4 DEF Tracks, Synced
    <3>3. v.scan \in {"ground", "ignore"} /\ v.on = u.on
      BY <2>4, <3>2 DEF TerminalByte, Terminal
    <3> QED
      BY <2>1, <3>1, <3>3 DEF ScanTracks, Tracks
  <2>5. CASE s.t.scan # "ground" /\ ~(s.t.scan = "csi" /\ b \notin {"?", "E"})
    <3>1. z.skip = 0 /\ z.t = TerminalByte(s.t, b)
      BY <1>1, <1>4, <2>5 DEF ModeStep, Scan
    <3>2. Agrees(s.t, u)
      BY <2>1, <2>5 DEF Tracks, Agrees
    <3>3. Agrees(z.t, v)
      BY <1>1, <3>1, <3>2, NearByte
    <3> HIDE DEF z, v
    <3> QED
      BY <3>1, <3>3 DEF ScanTracks, Tracks, Agrees, z, v
  <2> QED
    BY <2>2, <2>3, <2>4, <2>5
<1> QED
  BY <1>1, <1>2, <1>3, <1>4

\* The tracker still tracks when both have read a chunk.
LEMMA TracksScan ==
    ASSUME NEW t \in Terminal, NEW u \in Terminal, NEW w \in Seq(Symbol), Tracks(t, u)
    PROVE  /\ ModeScan(t, w) \in Terminal
           /\ Tracks(ModeScan(t, w), TerminalReads(u, w))
<1>1. PICK f \in [0 .. Len(w) -> Scan] :
              /\ f[0] = [t |-> t, skip |-> 0] /\ ModeScan(t, w) = f[Len(w)].t
              /\ \A k \in 1 .. Len(w) : f[k] = ModeStep(f[k - 1], w, k)
  BY ScanHistory
<1>2. PICK g \in [0 .. Len(w) -> Terminal] :
              /\ g[0] = u /\ TerminalReads(u, w) = g[Len(w)]
              /\ \A k \in 1 .. Len(w) : g[k] = TerminalByte(g[k - 1], w[k])
  BY TerminalHistory
<1> DEFINE n == Len(w)
           T == {k \in 0 .. n : ScanTracks(f[k], g[k], w, k)}
<1>3. n \in Nat
  OBVIOUS
<1>4. 0 \in T
  <2>1. f[0].skip = 0 /\ f[0].t = t /\ g[0] = u
    BY <1>1, <1>2
  <2>2. ScanTracks(f[0], g[0], w, 0)
    BY <2>1 DEF ScanTracks, Tracks
  <2> QED
    BY <1>3, <2>2
<1>5. ASSUME NEW k \in 0 .. n, k < n, k \in T PROVE k + 1 \in T
  <2>1. k + 1 \in 1 .. n /\ (k + 1) - 1 = k /\ k + 1 \in 0 .. n
    BY <1>5
  <2>2. f[k + 1] = ModeStep(f[k], w, k + 1) /\ g[k + 1] = TerminalByte(g[k], w[k + 1])
    BY <1>1, <1>2, <2>1
  <2>3. f[k] \in Scan /\ g[k] \in Terminal /\ ScanTracks(f[k], g[k], w, k)
    BY <1>5
  <2>4. ScanTracks(ModeStep(f[k], w, k + 1), TerminalByte(g[k], w[k + 1]), w, k + 1)
    BY <1>5, <2>3, ScanTracksByte
  <2> QED
    BY <2>1, <2>2, <2>4
<1> HIDE DEF T
<1>6. \A k \in 0 .. n : k \in T
  BY <1>3, <1>4, <1>5, UpTo
<1>7. n \in T /\ f[n] \in Scan /\ n \in 0 .. n
  BY <1>3, <1>6
<1>8. ScanTracks(f[n], g[n], w, n)
  BY <1>7 DEF T
<1>9. ~Skips(w, n) /\ ~(n + 1 <= Len(w))
  BY <1>3 DEF Skips
<1>10. Tracks(f[n].t, g[n])
  BY <1>8, <1>9 DEF ScanTracks
<1> QED
  BY <1>1, <1>2, <1>7, <1>10 DEF Scan

-----------------------------------------------------------------------------
(* Sequences that set and reset modes.                                     *)

\* A terminal that reads nothing stays what it is.
LEMMA ReadsNothing ==
    ASSUME NEW t \in Terminal
    PROVE  TerminalReads(t, <<>>) = t
<1> DEFINE w == <<>>
<1>1. w \in Seq(Symbol) /\ Len(w) = 0
  OBVIOUS
<1> HIDE DEF w
<1>2. PICK f \in [0 .. Len(w) -> Terminal] :
              /\ f[0] = t /\ TerminalReads(t, w) = f[Len(w)]
              /\ \A k \in 1 .. Len(w) : f[k] = TerminalByte(f[k - 1], w[k])
  BY <1>1, TerminalHistory
<1> QED
  BY <1>1, <1>2 DEF w

\* One read after another is one read of both.
LEMMA ReadsJoin ==
    ASSUME NEW t \in Terminal, NEW v \in Seq(Symbol), NEW w \in Seq(Symbol)
    PROVE  TerminalReads(t, v \o w) = TerminalReads(TerminalReads(t, v), w)
<1> DEFINE n == Len(v)
           m == Len(w)
           all == v \o w
<1>1. /\ n \in Nat /\ m \in Nat /\ all \in Seq(Symbol) /\ Len(all) = n + m
      /\ \A k \in 1 .. n : all[k] = v[k]
      /\ \A k \in 1 .. m : all[n + k] = w[k]
  OBVIOUS
<1>2. PICK f \in [0 .. Len(all) -> Terminal] :
              /\ f[0] = t /\ TerminalReads(t, all) = f[Len(all)]
              /\ \A k \in 1 .. Len(all) : f[k] = TerminalByte(f[k - 1], all[k])
  <2> HIDE DEF all
  <2> QED
    BY <1>1, TerminalHistory
<1>3. PICK g \in [0 .. n -> Terminal] :
              /\ g[0] = t /\ TerminalReads(t, v) = g[n]
              /\ \A k \in 1 .. n : g[k] = TerminalByte(g[k - 1], v[k])
  BY TerminalHistory
<1>4. g[n] \in Terminal
  BY <1>1, <1>3
<1>5. PICK h \in [0 .. m -> Terminal] :
              /\ h[0] = g[n] /\ TerminalReads(g[n], w) = h[m]
              /\ \A k \in 1 .. m : h[k] = TerminalByte(h[k - 1], w[k])
  BY <1>4, TerminalHistory
<1> HIDE DEF n, m, all
<1>14. n \in Nat /\ m \in Nat /\ Len(all) = n + m
  BY <1>1
<1> DEFINE S == {k \in 0 .. n : f[k] = g[k]}
           T == {k \in 0 .. m : f[n + k] = h[k]}
<1>6. 0 \in S
  BY <1>1, <1>2, <1>3
<1>7. ASSUME NEW k \in 0 .. n, k < n, k \in S PROVE k + 1 \in S
  <2>1. k + 1 \in 1 .. n /\ (k + 1) - 1 = k /\ k + 1 \in 0 .. n /\ k + 1 \in 1 .. Len(all)
    BY <1>7, <1>14
  <2>2. f[k + 1] = TerminalByte(f[k], all[k + 1]) /\ g[k + 1] = TerminalByte(g[k], v[k + 1])
    BY <1>2, <1>3, <2>1
  <2> QED
    BY <1>1, <1>7, <2>1, <2>2
<1> HIDE DEF S
<1>8. \A k \in 0 .. n : k \in S
  BY <1>1, <1>6, <1>7, UpTo
<1>9. f[n] = g[n]
  BY <1>1, <1>8 DEF S
<1>10. 0 \in T
  BY <1>1, <1>5, <1>9
<1>11. ASSUME NEW k \in 0 .. m, k < m, k \in T PROVE k + 1 \in T
  <2>1. /\ k + 1 \in 1 .. m /\ (k + 1) - 1 = k /\ k + 1 \in 0 .. m
        /\ n + (k + 1) \in 1 .. Len(all) /\ (n + (k + 1)) - 1 = n + k
    BY <1>11, <1>14
  <2>2. /\ f[n + (k + 1)] = TerminalByte(f[n + k], all[n + (k + 1)])
        /\ h[k + 1] = TerminalByte(h[k], w[k + 1])
    BY <1>2, <1>5, <2>1
  <2> QED
    BY <1>1, <1>11, <2>1, <2>2
<1> HIDE DEF T
<1>12. \A k \in 0 .. m : k \in T
  BY <1>1, <1>10, <1>11, UpTo
<1>13. f[n + m] = h[m]
  BY <1>1, <1>12 DEF T
<1> QED
  BY <1>1, <1>2, <1>3, <1>5, <1>13 DEF n, m, all

\* What the symbols of a sequence do, one by one.
LEMMA SymbolEffects ==
    ASSUME NEW t \in Terminal
    PROVE  /\ TerminalByte(t, "E").scan = "esc" /\ TerminalByte(t, "E").on = t.on
           /\ t.scan = "esc" =>
                 TerminalByte(t, "[").scan = "csi" /\ TerminalByte(t, "[").on = t.on
           /\ t.scan = "csi" =>
                 /\ TerminalByte(t, "?").scan = "private" /\ TerminalByte(t, "?").on = t.on
                 /\ TerminalByte(t, "?").params = {}
           /\ t.scan = "private" => \A m \in Modes :
                 /\ TerminalByte(t, m).scan = "private" /\ TerminalByte(t, m).on = t.on
                 /\ TerminalByte(t, m).params = t.params \union {m}
           /\ t.scan = "private" => \A b \in {"h", "l"} :
                 /\ TerminalByte(t, b).scan = "ground"
                 /\ TerminalByte(t, b).on = SetModes(t.on, t.params, b = "h")
           /\ t.scan = "esc" => \A b \in {"=", ">"} :
                 /\ TerminalByte(t, b).scan = "ground"
                 /\ TerminalByte(t, b).on =
                       IF b = "=" THEN t.on \union {"keypad"} ELSE t.on \ {"keypad"}
<1>1. TerminalByte(t, "E").scan = "esc" /\ TerminalByte(t, "E").on = t.on
  BY DEF TerminalByte, Terminal
<1>2. t.scan = "esc" => TerminalByte(t, "[").scan = "csi" /\ TerminalByte(t, "[").on = t.on
  BY DEF TerminalByte, Terminal
<1>3. t.scan = "csi" =>
         /\ TerminalByte(t, "?").scan = "private" /\ TerminalByte(t, "?").on = t.on
         /\ TerminalByte(t, "?").params = {}
  <2>1. SUFFICES ASSUME t.scan = "csi"
                 PROVE  /\ TerminalByte(t, "?").scan = "private" /\ TerminalByte(t, "?").on = t.on
                        /\ TerminalByte(t, "?").params = {}
    OBVIOUS
  <2>2. TerminalByte(t, "?") = [t EXCEPT !.scan = "private", !.params = {}]
    BY <2>1 DEF TerminalByte
  <2>3. t = [scan |-> t.scan, params |-> t.params, on |-> t.on]
    BY DEF Terminal
  <2>4. TerminalByte(t, "?") = [scan |-> "private", params |-> {}, on |-> t.on]
    BY <2>2, <2>3
  <2> QED
    BY <2>4
<1>4. ASSUME t.scan = "private", NEW m \in Modes
      PROVE  /\ TerminalByte(t, m).scan = "private" /\ TerminalByte(t, m).on = t.on
             /\ TerminalByte(t, m).params = t.params \union {m}
  BY <1>4 DEF TerminalByte, Terminal, Modes, Final
<1>5. ASSUME t.scan = "private", NEW b \in {"h", "l"}
      PROVE  /\ TerminalByte(t, b).scan = "ground"
             /\ TerminalByte(t, b).on = SetModes(t.on, t.params, b = "h")
  <2>1. b \notin {"E", "CAN"} /\ b \notin Modes /\ b \in Final
    BY DEF Modes, Final
  <2>2. TerminalByte(t, b) = [t EXCEPT !.scan = "ground", !.on = SetModes(@, t.params, b = "h")]
    BY <1>5, <2>1 DEF TerminalByte
  <2>3. t = [scan |-> t.scan, params |-> t.params, on |-> t.on]
    BY DEF Terminal
  <2>4. TerminalByte(t, b) = [scan |-> "ground", params |-> t.params,
                              on |-> SetModes(t.on, t.params, b = "h")]
    BY <2>2, <2>3
  <2> QED
    BY <2>4
<1>6. ASSUME t.scan = "esc", NEW b \in {"=", ">"}
      PROVE  /\ TerminalByte(t, b).scan = "ground"
             /\ TerminalByte(t, b).on =
                   IF b = "=" THEN t.on \union {"keypad"} ELSE t.on \ {"keypad"}
  BY <1>6 DEF TerminalByte, Terminal
<1> QED
  BY <1>1, <1>2, <1>3, <1>4, <1>5, <1>6

\* The sequence leaves the terminal with these modes on.
ReadsTo(t, sequence, on) ==
    /\ sequence \in Seq(Symbol)
    /\ TerminalReads(t, sequence) \in Terminal
    /\ TerminalReads(t, sequence).scan = "ground"
    /\ TerminalReads(t, sequence).on = on

\* One mode set or reset, wherever the terminal stood.
LEMMA ReadsCsi ==
    ASSUME NEW t \in Terminal, NEW m \in Modes, NEW final \in {"h", "l"}
    PROVE  ReadsTo(t, Csi(m, final), IF (m = "cursor") = (final = "l") THEN t.on \union {m}
                                                                     ELSE t.on \ {m})
<1> DEFINE w == Csi(m, final)
<1>10. {"E", "[", "?", m, final} \subseteq Symbol
  BY DEF Symbol
<1>1. /\ w \in Seq(Symbol) /\ Len(w) = 5
      /\ w[1] = "E" /\ w[2] = "[" /\ w[3] = "?" /\ w[4] = m /\ w[5] = final
  BY <1>10 DEF Csi
<1> HIDE DEF w
<1>2. PICK f \in [0 .. Len(w) -> Terminal] :
              /\ f[0] = t /\ TerminalReads(t, w) = f[Len(w)]
              /\ \A k \in 1 .. Len(w) : f[k] = TerminalByte(f[k - 1], w[k])
  BY <1>1, TerminalHistory
<1>3. /\ f[1] = TerminalByte(t, "E") /\ f[2] = TerminalByte(f[1], "[")
      /\ f[3] = TerminalByte(f[2], "?") /\ f[4] = TerminalByte(f[3], m)
      /\ f[5] = TerminalByte(f[4], final)
      /\ \A k \in 1 .. 5 : f[k] \in Terminal
  BY <1>1, <1>2
<1>4. f[1].scan = "esc" /\ f[1].on = t.on
  BY <1>3, SymbolEffects
<1>5. f[2].scan = "csi" /\ f[2].on = t.on
  BY <1>3, <1>4, SymbolEffects
<1>6. f[3].scan = "private" /\ f[3].on = t.on /\ f[3].params = {}
  BY <1>3, <1>5, SymbolEffects
<1>7. f[4].scan = "private" /\ f[4].on = t.on /\ f[4].params = {m}
  BY <1>3, <1>6, SymbolEffects
<1>8. f[5].scan = "ground" /\ f[5].on = SetModes(t.on, {m}, final = "h")
  <2>1. \A b \in {"h", "l"} : /\ TerminalByte(f[4], b).scan = "ground"
                              /\ TerminalByte(f[4], b).on = SetModes(f[4].on, f[4].params, b = "h")
    BY <1>3, <1>7, SymbolEffects
  <2> QED
    BY <1>3, <1>7, <2>1
<1>9. SetModes(t.on, {m}, final = "h") =
        IF (m = "cursor") = (final = "l") THEN t.on \union {m} ELSE t.on \ {m}
  BY DEF SetModes
<1>11. /\ TerminalReads(t, w) = f[5] /\ f[5] \in Terminal
  BY <1>1, <1>2, <1>3
<1> QED
  BY <1>1, <1>8, <1>9, <1>11 DEF w, ReadsTo

\* The four of them.
LEMMA ReadsEachCsi ==
    ASSUME NEW t \in Terminal
    PROVE  /\ ReadsTo(t, Csi("alt", "h"), t.on \union {"alt"})
           /\ ReadsTo(t, Csi("alt", "l"), t.on \ {"alt"})
           /\ ReadsTo(t, Csi("cursor", "h"), t.on \ {"cursor"})
           /\ ReadsTo(t, Csi("cursor", "l"), t.on \union {"cursor"})
<1>1. ASSUME NEW m \in Modes, NEW final \in {"h", "l"}
      PROVE  ReadsTo(t, Csi(m, final), IF (m = "cursor") = (final = "l") THEN t.on \union {m}
                                                                       ELSE t.on \ {m})
  BY ReadsCsi
<1>2. "alt" \in Modes /\ "cursor" \in Modes
  BY DEF Modes
<1>3. ReadsTo(t, Csi("alt", "h"), IF ("alt" = "cursor") = ("h" = "l") THEN t.on \union {"alt"}
                                                                    ELSE t.on \ {"alt"})
  BY <1>1, <1>2
<1>4. ReadsTo(t, Csi("alt", "l"), IF ("alt" = "cursor") = ("l" = "l") THEN t.on \union {"alt"}
                                                                    ELSE t.on \ {"alt"})
  BY <1>1, <1>2
<1>5. ReadsTo(t, Csi("cursor", "h"), IF ("cursor" = "cursor") = ("h" = "l")
                                     THEN t.on \union {"cursor"} ELSE t.on \ {"cursor"})
  BY <1>1, <1>2
<1>6. ReadsTo(t, Csi("cursor", "l"), IF ("cursor" = "cursor") = ("l" = "l")
                                     THEN t.on \union {"cursor"} ELSE t.on \ {"cursor"})
  BY <1>1, <1>2
<1> QED
  BY <1>3, <1>4, <1>5, <1>6

\* The keypad's modes.
LEMMA ReadsKeypad ==
    ASSUME NEW t \in Terminal, NEW b \in {"=", ">"}
    PROVE  /\ <<"E", b>> \in Seq(Symbol)
           /\ TerminalReads(t, <<"E", b>>) \in Terminal
           /\ TerminalReads(t, <<"E", b>>).scan = "ground"
           /\ TerminalReads(t, <<"E", b>>).on =
                 IF b = "=" THEN t.on \union {"keypad"} ELSE t.on \ {"keypad"}
<1> DEFINE w == <<"E", b>>
<1>6. {"E", b} \subseteq Symbol
  BY DEF Symbol
<1>1. w \in Seq(Symbol) /\ Len(w) = 2 /\ w[1] = "E" /\ w[2] = b
  BY <1>6
<1> HIDE DEF w
<1>2. PICK f \in [0 .. Len(w) -> Terminal] :
              /\ f[0] = t /\ TerminalReads(t, w) = f[Len(w)]
              /\ \A k \in 1 .. Len(w) : f[k] = TerminalByte(f[k - 1], w[k])
  BY <1>1, TerminalHistory
<1>3. f[1] = TerminalByte(t, "E") /\ f[2] = TerminalByte(f[1], b) /\ f[1] \in Terminal /\ f[2] \in Terminal
  BY <1>1, <1>2
<1>4. f[1].scan = "esc" /\ f[1].on = t.on
  BY <1>3, SymbolEffects
<1>5. f[2].scan = "ground" /\ f[2].on = IF b = "=" THEN t.on \union {"keypad"} ELSE t.on \ {"keypad"}
  BY <1>3, <1>4, SymbolEffects
<1> QED
  BY <1>1, <1>2, <1>3, <1>5 DEF w

\* The whole of what Restore writes, read by a terminal in its initial state.
LEMMA RestoreRestores ==
    ASSUME NEW t \in Terminal
    PROVE  /\ Restore(t) \in Seq(Symbol)
           /\ TerminalReads(Fresh, Restore(t)) \in Terminal
           /\ TerminalReads(Fresh, Restore(t)).scan = "ground"
           /\ TerminalReads(Fresh, Restore(t)).on = t.on
<1> DEFINE a == IF "alt" \in t.on THEN Csi("alt", "h") ELSE <<>>
           b == IF "cursor" \in t.on THEN Csi("cursor", "l") ELSE <<>>
           c == IF "keypad" \in t.on THEN <<"E", "=">> ELSE <<>>
           u == TerminalReads(Fresh, a)
           v == TerminalReads(u, b)
           w == TerminalReads(v, c)
<1>1. Restore(t) = a \o b \o c
  BY DEF Restore
<1>2. Fresh \in Terminal /\ Fresh.scan = "ground" /\ Fresh.on = {}
  BY DEF Fresh, Terminal, Scans
<1>3. "alt" \in Modes /\ "cursor" \in Modes /\ t.on \subseteq {"alt", "cursor", "keypad"}
  BY DEF Modes, Terminal, AllModes
<1>4. <<>> \in Seq(Symbol)
  OBVIOUS
<1>5. /\ a \in Seq(Symbol) /\ u \in Terminal /\ u.scan = "ground"
      /\ u.on = t.on \intersect {"alt"}
  <2>1. CASE "alt" \in t.on
    BY <1>2, <2>1, ReadsEachCsi DEF ReadsTo
  <2>2. CASE "alt" \notin t.on
    <3>1. a = <<>> /\ t.on \intersect {"alt"} = {}
      BY <2>2
    <3> QED
      BY <1>2, <1>4, <3>1, ReadsNothing
  <2> QED
    BY <2>1, <2>2
<1> HIDE DEF a, u
<1>6. /\ b \in Seq(Symbol) /\ v \in Terminal /\ v.scan = "ground"
      /\ v.on = t.on \intersect {"alt", "cursor"}
  <2>1. CASE "cursor" \in t.on
    <3>1. b = Csi("cursor", "l")
      BY <2>1
    <3>2. /\ Csi("cursor", "l") \in Seq(Symbol)
          /\ TerminalReads(u, Csi("cursor", "l")) \in Terminal
          /\ TerminalReads(u, Csi("cursor", "l")).scan = "ground"
          /\ TerminalReads(u, Csi("cursor", "l")).on = u.on \union {"cursor"}
      BY <1>5, ReadsEachCsi DEF ReadsTo
    <3> QED
      BY <1>5, <2>1, <3>1, <3>2
  <2>2. CASE "cursor" \notin t.on
    <3>1. b = <<>> /\ t.on \intersect {"alt", "cursor"} = t.on \intersect {"alt"}
      BY <2>2
    <3> QED
      BY <1>4, <1>5, <3>1, ReadsNothing
  <2> QED
    BY <2>1, <2>2
<1> HIDE DEF b, v
<1>7. c \in Seq(Symbol) /\ w \in Terminal /\ w.scan = "ground" /\ w.on = t.on
  <2>1. CASE "keypad" \in t.on
    <3>1. c = <<"E", "=">> /\ t.on = v.on \union {"keypad"}
      BY <1>3, <1>6, <2>1
    <3>2. /\ <<"E", "=">> \in Seq(Symbol)
          /\ TerminalReads(v, <<"E", "=">>) \in Terminal
          /\ TerminalReads(v, <<"E", "=">>).scan = "ground"
          /\ TerminalReads(v, <<"E", "=">>).on = v.on \union {"keypad"}
      BY <1>6, ReadsKeypad
    <3> QED
      BY <3>1, <3>2
  <2>2. CASE "keypad" \notin t.on
    <3>1. c = <<>> /\ t.on = v.on
      BY <1>3, <1>6, <2>2
    <3> QED
      BY <1>4, <1>6, <3>1, ReadsNothing
  <2> QED
    BY <2>1, <2>2
<1> HIDE DEF c, w
<1>8. a \o b \in Seq(Symbol) /\ (a \o b) \o c \in Seq(Symbol)
  BY <1>5, <1>6, <1>7
<1>9. TerminalReads(Fresh, a \o b) = v
  BY <1>2, <1>5, <1>6, ReadsJoin DEF u, v
<1>10. TerminalReads(Fresh, (a \o b) \o c) = w
  BY <1>2, <1>7, <1>8, <1>9, ReadsJoin DEF w
<1> QED
  BY <1>1, <1>7, <1>8, <1>10

\* What the client writes when it leaves undoes every mode, wherever the output stopped.
LEMMA ResetResets ==
    ASSUME NEW t \in Terminal
    PROVE  /\ TerminalReads(t, TerminalModeReset) \in Terminal
           /\ TerminalReads(t, TerminalModeReset).on = {}
<1> DEFINE a == Csi("alt", "l")
           b == <<"E", ">">>
           c == Csi("cursor", "h")
           u == TerminalReads(t, a)
           v == TerminalReads(u, b)
           w == TerminalReads(v, c)
<1>1. TerminalModeReset = a \o b \o c
  BY DEF TerminalModeReset
<1>2. "alt" \in Modes /\ "cursor" \in Modes /\ t.on \subseteq {"alt", "cursor", "keypad"}
  BY DEF Modes, Terminal, AllModes
<1>3. a \in Seq(Symbol) /\ u \in Terminal /\ u.on = t.on \ {"alt"}
  BY ReadsEachCsi DEF ReadsTo
<1> HIDE DEF a, u
<1>4. b \in Seq(Symbol) /\ v \in Terminal /\ v.on = u.on \ {"keypad"}
  BY <1>3, ReadsKeypad
<1> HIDE DEF b, v
<1>5. c \in Seq(Symbol) /\ w \in Terminal /\ w.on = v.on \ {"cursor"}
  BY <1>4, ReadsEachCsi DEF ReadsTo
<1> HIDE DEF c, w
<1>6. a \o b \in Seq(Symbol) /\ (a \o b) \o c \in Seq(Symbol)
  BY <1>3, <1>4, <1>5
<1>7. TerminalReads(t, a \o b) = v
  BY <1>3, <1>4, ReadsJoin DEF u, v
<1>8. TerminalReads(t, (a \o b) \o c) = w
  BY <1>5, <1>6, <1>7, ReadsJoin DEF w
<1>9. w.on = {}
  BY <1>2, <1>3, <1>4, <1>5
<1> QED
  BY <1>1, <1>5, <1>8, <1>9

-----------------------------------------------------------------------------
(* The client's guess at the screen, and a terminal.                       *)

AltTracker == [scan : Scans, hit : BOOLEAN, state : {"unknown", "main", "alt"}]

\* What it thinks, if it thinks anything, is so.
ScreenTrue(a, u) ==
    /\ a.state = "alt" => "alt" \in u.on
    /\ a.state = "main" => "alt" \notin u.on

\* It stands where the terminal does and is right, or thinks nothing.
Guesses(a, u) ==
    \/ /\ a.scan = u.scan /\ ScreenTrue(a, u)
       /\ a.scan = "private" => (a.hit <=> "alt" \in u.params)
    \/ a.scan = "ground" /\ a.state = "unknown"

\* An alternate screen tracker that reads a symbol is one.
LEMMA AltByteTyped ==
    ASSUME NEW a \in AltTracker, NEW b \in Symbol
    PROVE  AltByte(a, b) \in AltTracker
<1>1. a.scan \in Scans /\ a.hit \in BOOLEAN /\ a.state \in {"unknown", "main", "alt"}
  BY DEF AltTracker
<1> QED
  BY <1>1 DEF AltByte, AltTracker, Scans

\* A right guess stays right over one symbol.
LEMMA GuessesByte ==
    ASSUME NEW a \in AltTracker, NEW u \in Terminal, NEW b \in Symbol, Guesses(a, u)
    PROVE  Guesses(AltByte(a, b), TerminalByte(u, b))
<1> DEFINE c == AltByte(a, b)
           v == TerminalByte(u, b)
<1>1. /\ a.scan \in Scans /\ a.hit \in BOOLEAN /\ a.state \in {"unknown", "main", "alt"}
      /\ u.scan \in Scans /\ u.on \subseteq AllModes /\ u.params \subseteq Modes
  BY DEF AltTracker, Terminal
<1>2. CASE a.scan = "ground" /\ a.state = "unknown"
  <2>1. CASE b = "E"
    BY <1>1, <1>2, <2>1 DEF Guesses, ScreenTrue, AltByte, TerminalByte, AltTracker, Terminal
  <2>2. CASE b # "E"
    <3>1. c.scan = "ground" /\ c.state = "unknown"
      BY <1>1, <1>2, <2>2 DEF AltByte, AltTracker
    <3> QED
      BY <3>1 DEF Guesses
  <2> QED
    BY <2>1, <2>2
<1>3. CASE /\ a.scan = u.scan /\ ScreenTrue(a, u)
           /\ a.scan = "private" => (a.hit <=> "alt" \in u.params)
  <2>1. CASE a.scan # "private"
    BY <1>1, <1>3, <2>1 DEF Guesses, ScreenTrue, AltByte, TerminalByte, AltTracker, Terminal, Scans
  <2>2. CASE a.scan = "private"
    BY <1>1, <1>3, <2>2 DEF Guesses, ScreenTrue, AltByte, TerminalByte, AltTracker, Terminal, Scans, SetModes, Final, Modes
  <2> QED
    BY <2>1, <2>2
<1> QED
  BY <1>2, <1>3 DEF Guesses

\* The guess after each symbol.
LEMMA AltHistory ==
    ASSUME NEW a \in AltTracker, NEW w \in Seq(Symbol)
    PROVE  \E f \in [0 .. Len(w) -> AltTracker] :
              /\ f[0] = a /\ AltScan(a, w) = f[Len(w)]
              /\ \A k \in 1 .. Len(w) : f[k] = AltByte(f[k - 1], w[k])
<1> DEFINE n == Len(w)
           step == [k \in 1 .. n |-> [c \in AltTracker |-> AltByte(c, w[k])]]
           f == CHOOSE h : h = [k \in 0 .. n |-> IF k = 0 THEN a ELSE AltByte(h[k - 1], w[k])]
<1>1. n \in Nat /\ \A k \in 1 .. n : w[k] \in Symbol
  OBVIOUS
<1>2. step \in [1 .. n -> [AltTracker -> AltTracker]]
  BY <1>1, AltByteTyped
<1>3. \A k \in 1 .. n : \A c \in AltTracker : step[k][c] = AltByte(c, w[k])
  OBVIOUS
<1>4. AltScan(a, w) = f[n]
  BY DEF AltScan
<1> HIDE DEF step, n
<1>5. PICK g : History(AltTracker, n, a, step, g)
  BY <1>1, <1>2, TheHistory
<1>6. g \in [0 .. n -> AltTracker] /\ g[0] = a
  BY <1>5 DEF History, LoopRuns
<1>7. ASSUME NEW k \in 1 .. n PROVE g[k] = AltByte(g[k - 1], w[k])
  <2>1. g[k - 1] \in AltTracker
    BY <1>1, <1>6
  <2> QED
    BY <1>3, <1>5, <2>1 DEF History, LoopRuns
<1>8. g = [k \in 0 .. n |-> IF k = 0 THEN a ELSE AltByte(g[k - 1], w[k])]
  <2>1. ASSUME NEW k \in 0 .. n PROVE g[k] = IF k = 0 THEN a ELSE AltByte(g[k - 1], w[k])
    <3>1. k = 0 \/ k \in 1 .. n
      BY <1>1
    <3> QED
      BY <3>1, <1>6, <1>7
  <2> QED
    BY <1>6, <2>1
<1>9. f = [k \in 0 .. n |-> IF k = 0 THEN a ELSE AltByte(f[k - 1], w[k])]
  BY <1>8
<1> HIDE DEF f
<1>10. f[0] = a
  BY <1>1, <1>9
<1>14. \A k \in 1 .. n : f[k] = AltByte(f[k - 1], w[k])
  BY <1>1, <1>9
<1>11. Recurs(AltTracker, n, a, step, f)
  BY <1>3, <1>10, <1>14 DEF Recurs
<1>12. \A k \in 0 .. n : f[k] = g[k]
  BY <1>5, <1>11 DEF History
<1>13. AltScan(a, w) = g[n]
  BY <1>1, <1>4, <1>12
<1> QED
  BY <1>6, <1>7, <1>13 DEF n

\* And over a whole chunk.
LEMMA GuessesReads ==
    ASSUME NEW a \in AltTracker, NEW u \in Terminal, NEW w \in Seq(Symbol)
    PROVE  /\ AltScan(a, w) \in AltTracker
           /\ Guesses(a, u) => Guesses(AltScan(a, w), TerminalReads(u, w))
           /\ w = <<>> => AltScan(a, w) = a
<1>1. PICK f \in [0 .. Len(w) -> AltTracker] :
              /\ f[0] = a /\ AltScan(a, w) = f[Len(w)]
              /\ \A k \in 1 .. Len(w) : f[k] = AltByte(f[k - 1], w[k])
  BY AltHistory
<1>2. PICK g \in [0 .. Len(w) -> Terminal] :
              /\ g[0] = u /\ TerminalReads(u, w) = g[Len(w)]
              /\ \A k \in 1 .. Len(w) : g[k] = TerminalByte(g[k - 1], w[k])
  BY TerminalHistory
<1> DEFINE n == Len(w)
           T == {k \in 0 .. n : Guesses(a, u) => Guesses(f[k], g[k])}
<1>3. n \in Nat /\ \A k \in 1 .. n : w[k] \in Symbol
  OBVIOUS
<1>4. 0 \in T
  BY <1>1, <1>2
<1>5. ASSUME NEW k \in 0 .. n, k < n, k \in T PROVE k + 1 \in T
  <2>1. k + 1 \in 1 .. n /\ (k + 1) - 1 = k /\ k + 1 \in 0 .. n
    BY <1>5
  <2>2. f[k + 1] = AltByte(f[k], w[k + 1]) /\ g[k + 1] = TerminalByte(g[k], w[k + 1])
    BY <1>1, <1>2, <2>1
  <2>3. f[k] \in AltTracker /\ g[k] \in Terminal /\ w[k + 1] \in Symbol
    BY <1>3, <2>1
  <2>4. Guesses(f[k], g[k]) => Guesses(f[k + 1], g[k + 1])
    BY <2>2, <2>3, GuessesByte
  <2> QED
    BY <1>5, <2>1, <2>4
<1> HIDE DEF T
<1>6. \A k \in 0 .. n : k \in T
  BY <1>3, <1>4, <1>5, UpTo
<1>7. n \in T /\ f[n] \in AltTracker
  BY <1>3, <1>6
<1>8. w = <<>> => n = 0
  OBVIOUS
<1> QED
  BY <1>1, <1>2, <1>7, <1>8 DEF T

-----------------------------------------------------------------------------
(* The chunks that are kept.                                               *)

\* Chunk j of those kept, when chunk l is the last.
At(chunks, l, j) == chunks[j - (l - Len(chunks))]
OldestOf(chunks, l) == l - Len(chunks) + 1

KeptType(chunks, l) ==
    /\ chunks \in Seq(Seq(Symbol)) /\ l \in Nat
    /\ Len(chunks) <= l /\ (l > 0 => Len(chunks) > 0)

\* A terminal t that is fed the chunks from k on becomes u.
Replayed(chunks, l, k, t, u) ==
    \E f \in [k - 1 .. l -> Terminal] :
        /\ f[k - 1] = t /\ f[l] = u
        /\ \A j \in k .. l : f[j] = TerminalReads(f[j - 1], At(chunks, l, j))

\* A tracker a becomes c.
AltReplayed(chunks, l, k, a, c) ==
    \E f \in [k - 1 .. l -> AltTracker] :
        /\ f[k - 1] = a /\ f[l] = c
        /\ \A j \in k .. l : f[j] = AltScan(f[j - 1], At(chunks, l, j))

\* A kept chunk is a sequence of symbols.
LEMMA AtTyped ==
    ASSUME NEW chunks, NEW l, KeptType(chunks, l), NEW j \in OldestOf(chunks, l) .. l
    PROVE  At(chunks, l, j) \in Seq(Symbol)
<1>1. Len(chunks) \in Nat /\ l \in Nat
  BY DEF KeptType
<1>2. j - (l - Len(chunks)) \in 1 .. Len(chunks)
  BY <1>1 DEF OldestOf
<1> QED
  BY <1>2 DEF At, KeptType

\* Nothing is left to feed after the last chunk.
LEMMA ReplayedNone ==
    ASSUME NEW chunks, NEW l \in Nat, NEW t \in Terminal, NEW a \in AltTracker
    PROVE  /\ Replayed(chunks, l, l + 1, t, t)
           /\ \A u : Replayed(chunks, l, l + 1, t, u) => u = t
           /\ AltReplayed(chunks, l, l + 1, a, a)
           /\ \A c : AltReplayed(chunks, l, l + 1, a, c) => c = a
<1>1. (l + 1) - 1 = l /\ (l + 1 .. l) = {} /\ l .. l = {l}
  OBVIOUS
<1>2. [j \in l .. l |-> t] \in [l .. l -> Terminal] /\ [j \in l .. l |-> t][l] = t
  BY <1>1
<1>3. [j \in l .. l |-> a] \in [l .. l -> AltTracker] /\ [j \in l .. l |-> a][l] = a
  BY <1>1
<1>4. Replayed(chunks, l, l + 1, t, t)
  BY <1>1, <1>2 DEF Replayed
<1>5. AltReplayed(chunks, l, l + 1, a, a)
  BY <1>1, <1>3 DEF AltReplayed
<1>6. \A u : Replayed(chunks, l, l + 1, t, u) => u = t
  BY <1>1 DEF Replayed
<1>7. \A c : AltReplayed(chunks, l, l + 1, a, c) => c = a
  BY <1>1 DEF AltReplayed
<1> QED
  BY <1>4, <1>5, <1>6, <1>7

\* The same, as a fact to cite for a k that is known to be l + 1.
LEMMA ReplayedLast ==
    ASSUME NEW chunks, NEW l \in Nat, NEW k, k = l + 1, NEW t \in Terminal, NEW u,
           Replayed(chunks, l, k, t, u)
    PROVE  u = t
<1>1. \E a : a \in AltTracker
  <2>1. NewAlt("main") \in AltTracker
    BY DEF NewAlt, AltTracker, Scans
  <2> QED
    BY <2>1
<1> QED
  BY <1>1, ReplayedNone

\* And for the tracker.
LEMMA AltReplayedLast ==
    ASSUME NEW chunks, NEW l \in Nat, NEW k, k = l + 1, NEW a \in AltTracker, NEW c,
           AltReplayed(chunks, l, k, a, c)
    PROVE  c = a
<1>1. \E t : t \in Terminal
  <2>1. Fresh \in Terminal
    BY DEF Fresh, Terminal, Scans
  <2> QED
    BY <2>1
<1> QED
  BY <1>1, ReplayedNone

\* Chunk k is fed, then those from k + 1 on.
LEMMA ReplayedNext ==
    ASSUME NEW chunks, NEW l, KeptType(chunks, l), NEW k \in OldestOf(chunks, l) .. l
    PROVE  /\ \A t \in Terminal : \A u :
                 Replayed(chunks, l, k + 1, TerminalReads(t, At(chunks, l, k)), u)
                    => Replayed(chunks, l, k, t, u)
           /\ \A a \in AltTracker : \A c :
                 AltReplayed(chunks, l, k + 1, AltScan(a, At(chunks, l, k)), c)
                    => AltReplayed(chunks, l, k, a, c)
<1>1. l \in Nat /\ Len(chunks) \in Nat /\ Len(chunks) <= l
  BY DEF KeptType
<1>2. k \in 1 .. l /\ (k + 1) - 1 = k
  BY <1>1 DEF OldestOf
<1>3. ASSUME NEW t \in Terminal, NEW u,
             Replayed(chunks, l, k + 1, TerminalReads(t, At(chunks, l, k)), u)
      PROVE  Replayed(chunks, l, k, t, u)
  <2>1. PICK f \in [k .. l -> Terminal] :
           /\ f[k] = TerminalReads(t, At(chunks, l, k)) /\ f[l] = u
           /\ \A j \in k + 1 .. l : f[j] = TerminalReads(f[j - 1], At(chunks, l, j))
    BY <1>2, <1>3 DEF Replayed
  <2> DEFINE g == [j \in k - 1 .. l |-> IF j = k - 1 THEN t ELSE f[j]]
  <2>2. \A j \in k - 1 .. l : j # k - 1 => j \in k .. l
    BY <1>1, <1>2
  <2>3. g \in [k - 1 .. l -> Terminal]
    BY <2>1, <2>2
  <2>4. k - 1 \in k - 1 .. l /\ l \in k - 1 .. l /\ l # k - 1 /\ k - 1 # k /\ k \in k - 1 .. l
    BY <1>1, <1>2
  <2>5. g[k - 1] = t /\ g[l] = u /\ g[k] = f[k]
    BY <2>1, <2>4
  <2>6. ASSUME NEW j \in k .. l PROVE g[j] = TerminalReads(g[j - 1], At(chunks, l, j))
    <3>1. CASE j = k
      BY <2>1, <2>5, <3>1
    <3>2. CASE j # k
      <4>1. j \in k + 1 .. l /\ j \in k - 1 .. l /\ j - 1 \in k - 1 .. l /\ j # k - 1 /\ j - 1 # k - 1
        BY <1>1, <1>2, <3>2
      <4>2. g[j] = f[j] /\ g[j - 1] = f[j - 1]
        BY <4>1
      <4> QED
        BY <2>1, <4>1, <4>2
    <3> QED
      BY <3>1, <3>2
  <2> HIDE DEF g
  <2> QED
    BY <2>3, <2>5, <2>6 DEF Replayed
<1>4. ASSUME NEW a \in AltTracker, NEW c,
             AltReplayed(chunks, l, k + 1, AltScan(a, At(chunks, l, k)), c)
      PROVE  AltReplayed(chunks, l, k, a, c)
  <2>1. PICK f \in [k .. l -> AltTracker] :
           /\ f[k] = AltScan(a, At(chunks, l, k)) /\ f[l] = c
           /\ \A j \in k + 1 .. l : f[j] = AltScan(f[j - 1], At(chunks, l, j))
    BY <1>2, <1>4 DEF AltReplayed
  <2> DEFINE g == [j \in k - 1 .. l |-> IF j = k - 1 THEN a ELSE f[j]]
  <2>2. \A j \in k - 1 .. l : j # k - 1 => j \in k .. l
    BY <1>1, <1>2
  <2>3. g \in [k - 1 .. l -> AltTracker]
    BY <2>1, <2>2
  <2>4. k - 1 \in k - 1 .. l /\ l \in k - 1 .. l /\ l # k - 1 /\ k - 1 # k /\ k \in k - 1 .. l
    BY <1>1, <1>2
  <2>5. g[k - 1] = a /\ g[l] = c /\ g[k] = f[k]
    BY <2>1, <2>4
  <2>6. ASSUME NEW j \in k .. l PROVE g[j] = AltScan(g[j - 1], At(chunks, l, j))
    <3>1. CASE j = k
      BY <2>1, <2>5, <3>1
    <3>2. CASE j # k
      <4>1. j \in k + 1 .. l /\ j \in k - 1 .. l /\ j - 1 \in k - 1 .. l /\ j # k - 1 /\ j - 1 # k - 1
        BY <1>1, <1>2, <3>2
      <4>2. g[j] = f[j] /\ g[j - 1] = f[j - 1]
        BY <4>1
      <4> QED
        BY <2>1, <4>1, <4>2
    <3> QED
      BY <3>1, <3>2
  <2> HIDE DEF g
  <2> QED
    BY <2>3, <2>5, <2>6 DEF AltReplayed
<1> QED
  BY <1>3, <1>4

\* The chunks kept when data has been read.
Trimmed(chunks, data) ==
    LET all == Append(chunks, data)
    IN  SubSeq(all, IF Len(all) > Keep THEN 2 ELSE 1, Len(all))

\* new, up to chunk l + 1, are the last of chunks and one more.
OneMore(chunks, l, data, new) ==
    /\ KeptType(new, l + 1)
    /\ OldestOf(chunks, l) <= OldestOf(new, l + 1) /\ OldestOf(new, l + 1) \in 1 .. l + 1
    /\ \A j \in OldestOf(new, l + 1) .. l : At(new, l + 1, j) = At(chunks, l, j)
    /\ At(new, l + 1, l + 1) = data

\* handlePTYOutput keeps the chunks as OneMore says.
LEMMA KeptGrows ==
    ASSUME NEW chunks, NEW l, KeptType(chunks, l), Len(chunks) <= Keep,
           NEW data \in Seq(Symbol)
    PROVE  OneMore(chunks, l, data, Trimmed(chunks, data)) /\ Len(Trimmed(chunks, data)) <= Keep
<1> DEFINE all == Append(chunks, data)
           n == Len(chunks)
           new == Trimmed(chunks, data)
           from == IF n + 1 > Keep THEN 2 ELSE 1
<1>1. /\ Keep \in Nat /\ Keep > 0 /\ n \in Nat /\ l \in Nat /\ n <= l /\ n <= Keep
      /\ chunks \in Seq(Seq(Symbol))
  BY TermModesConstants DEF KeptType
<1>2. /\ all \in Seq(Seq(Symbol)) /\ Len(all) = n + 1 /\ all[n + 1] = data
      /\ \A i \in 1 .. n : all[i] = chunks[i]
  BY <1>1
<1>3. new = SubSeq(all, from, n + 1)
  BY <1>2 DEF Trimmed
<1> HIDE DEF all, new, from
<1>4. n + 1 > Keep => n + 1 = Keep + 1 /\ n >= 1
  BY <1>1
<1>5. /\ from \in {1, 2} /\ from <= n + 1
      /\ n + 2 - from <= Keep /\ n + 2 - from \in Nat /\ n + 2 - from > 0
      /\ n + 2 - from <= l + 1
  BY <1>1 DEF from
<1>6. /\ new \in Seq(Seq(Symbol)) /\ Len(new) = n + 2 - from
      /\ \A i \in 1 .. n + 2 - from : new[i] = all[from + i - 1]
  BY <1>1, <1>2, <1>3, <1>5
<1> DEFINE m == Len(new)
<1>7. m \in Nat /\ m = n + 2 - from /\ m <= Keep /\ m > 0 /\ m <= l + 1
  BY <1>5, <1>6
<1> HIDE DEF m, n
<1>8. KeptType(new, l + 1)
  BY <1>1, <1>6, <1>7 DEF KeptType, m
<1>9. OldestOf(chunks, l) = l - n + 1 /\ OldestOf(new, l + 1) = l + 1 - m + 1
  BY <1>1, <1>7 DEF OldestOf, n, m
<1>10. OldestOf(chunks, l) <= OldestOf(new, l + 1) /\ OldestOf(new, l + 1) \in 1 .. l + 1
  BY <1>1, <1>5, <1>7, <1>9
<1>11. ASSUME NEW j \in OldestOf(new, l + 1) .. l
       PROVE  At(new, l + 1, j) = At(chunks, l, j)
  <2>1. j \in Int /\ l + 2 - m <= j /\ j <= l
    BY <1>1, <1>7, <1>9
  <2>2. /\ j - (l + 1 - m) \in 1 .. n + 2 - from
        /\ from + (j - (l + 1 - m)) - 1 = j - (l - n)
        /\ j - (l - n) \in 1 .. n
    BY <1>1, <1>5, <1>7, <2>1
  <2>3. At(new, l + 1, j) = new[j - (l + 1 - m)] /\ At(chunks, l, j) = chunks[j - (l - n)]
    BY <1>1, <1>7, <2>1 DEF At, m, n
  <2>4. new[j - (l + 1 - m)] = all[from + (j - (l + 1 - m)) - 1]
    BY <1>6, <2>2
  <2> QED
    BY <1>2, <2>2, <2>3, <2>4
<1>12. At(new, l + 1, l + 1) = data
  <2>1. (l + 1) - (l + 1 - m) = m
    BY <1>1, <1>7
  <2>2. m \in 1 .. n + 2 - from
    BY <1>7
  <2>3. from + m - 1 = n + 1
    BY <1>1, <1>5, <1>7
  <2>4. At(new, l + 1, l + 1) = new[m]
    BY <1>1, <1>7, <2>1 DEF At, m
  <2> QED
    BY <1>2, <1>6, <2>2, <2>3, <2>4
<1> QED
  BY <1>7, <1>8, <1>10, <1>11, <1>12 DEF OneMore, new, m

\* What is fed up to the new chunk is what was fed before, and the chunk.
LEMMA ReplayedOneMore ==
    ASSUME NEW chunks, NEW l \in Nat, NEW data, NEW new, OneMore(chunks, l, data, new),
           NEW k \in OldestOf(new, l + 1) .. l + 1
    PROVE  /\ \A t : \A v : Replayed(new, l + 1, k, t, v) =>
                 \E u \in Terminal : Replayed(chunks, l, k, t, u) /\ v = TerminalReads(u, data)
           /\ \A a : \A d : AltReplayed(new, l + 1, k, a, d) =>
                 \E c \in AltTracker : AltReplayed(chunks, l, k, a, c) /\ d = AltScan(c, data)
<1> DEFINE old == OldestOf(new, l + 1)
<1>1. /\ old \in 1 .. l + 1 /\ k \in old .. l + 1 /\ (l + 1) - 1 = l
      /\ \A j \in old .. l : At(new, l + 1, j) = At(chunks, l, j)
      /\ At(new, l + 1, l + 1) = data
  BY DEF OneMore
<1> HIDE DEF old
<1>2. /\ k - 1 .. l \subseteq k - 1 .. l + 1 /\ l \in k - 1 .. l /\ k - 1 \in k - 1 .. l
      /\ l + 1 \in k .. l + 1
      /\ \A j \in k .. l : j \in k .. l + 1 /\ j \in old .. l /\ j \in k - 1 .. l /\ j - 1 \in k - 1 .. l
  BY <1>1
<1>3. ASSUME NEW t, NEW v, Replayed(new, l + 1, k, t, v)
      PROVE  \E u \in Terminal : Replayed(chunks, l, k, t, u) /\ v = TerminalReads(u, data)
  <2>1. PICK f \in [k - 1 .. l + 1 -> Terminal] :
           /\ f[k - 1] = t /\ f[l + 1] = v
           /\ \A j \in k .. l + 1 : f[j] = TerminalReads(f[j - 1], At(new, l + 1, j))
    BY <1>3 DEF Replayed
  <2> DEFINE g == [j \in k - 1 .. l |-> f[j]]
  <2>2. g \in [k - 1 .. l -> Terminal] /\ g[k - 1] = t /\ g[l] = f[l] /\ f[l] \in Terminal
    BY <1>2, <2>1
  <2>3. ASSUME NEW j \in k .. l PROVE g[j] = TerminalReads(g[j - 1], At(chunks, l, j))
    <3>1. g[j] = f[j] /\ g[j - 1] = f[j - 1]
      BY <1>2
    <3>2. f[j] = TerminalReads(f[j - 1], At(new, l + 1, j))
      BY <1>2, <2>1
    <3> QED
      BY <1>1, <1>2, <3>1, <3>2
  <2> HIDE DEF g
  <2>4. Replayed(chunks, l, k, t, f[l])
    BY <2>2, <2>3 DEF Replayed
  <2>5. v = TerminalReads(f[l], data)
    BY <1>1, <1>2, <2>1
  <2> QED
    BY <2>2, <2>4, <2>5
<1>4. ASSUME NEW a, NEW d, AltReplayed(new, l + 1, k, a, d)
      PROVE  \E c \in AltTracker : AltReplayed(chunks, l, k, a, c) /\ d = AltScan(c, data)
  <2>1. PICK f \in [k - 1 .. l + 1 -> AltTracker] :
           /\ f[k - 1] = a /\ f[l + 1] = d
           /\ \A j \in k .. l + 1 : f[j] = AltScan(f[j - 1], At(new, l + 1, j))
    BY <1>4 DEF AltReplayed
  <2> DEFINE g == [j \in k - 1 .. l |-> f[j]]
  <2>2. g \in [k - 1 .. l -> AltTracker] /\ g[k - 1] = a /\ g[l] = f[l] /\ f[l] \in AltTracker
    BY <1>2, <2>1
  <2>3. ASSUME NEW j \in k .. l PROVE g[j] = AltScan(g[j - 1], At(chunks, l, j))
    <3>1. g[j] = f[j] /\ g[j - 1] = f[j - 1]
      BY <1>2
    <3>2. f[j] = AltScan(f[j - 1], At(new, l + 1, j))
      BY <1>2, <2>1
    <3> QED
      BY <1>1, <1>2, <3>1, <3>2
  <2> HIDE DEF g
  <2>4. AltReplayed(chunks, l, k, a, f[l])
    BY <2>2, <2>3 DEF AltReplayed
  <2>5. d = AltScan(f[l], data)
    BY <1>1, <1>2, <2>1
  <2> QED
    BY <2>2, <2>4, <2>5
<1> QED
  BY <1>3, <1>4

\* The two parts of it, each on its own.
LEMMA ReplayedBefore ==
    ASSUME NEW chunks, NEW l \in Nat, NEW data, NEW new, OneMore(chunks, l, data, new),
           NEW k \in OldestOf(new, l + 1) .. l + 1, NEW t, NEW v, Replayed(new, l + 1, k, t, v)
    PROVE  \E u \in Terminal : Replayed(chunks, l, k, t, u) /\ v = TerminalReads(u, data)
  BY ReplayedOneMore

\* And for the tracker.
LEMMA AltReplayedBefore ==
    ASSUME NEW chunks, NEW l \in Nat, NEW data, NEW new, OneMore(chunks, l, data, new),
           NEW k \in OldestOf(new, l + 1) .. l + 1, NEW a, NEW d, AltReplayed(new, l + 1, k, a, d)
    PROVE  \E c \in AltTracker : AltReplayed(chunks, l, k, a, c) /\ d = AltScan(c, data)
  BY ReplayedOneMore

-----------------------------------------------------------------------------
(* What the kept chunks do to a terminal, as long as they are kept.        *)

\* Fed from chunk k on to a terminal without a sequence begun, they leave each mode as
\* in r, which has read all, or as it was; from a settled chunk on, at r's place.
Replays(chunks, l, s, r) ==
    \A k \in OldestOf(chunks, l) .. l + 1 : \A t, u \in Terminal :
        t.scan = "ground" /\ Replayed(chunks, l, k, t, u) =>
            Near(t.on, u, r) /\ (k <= s + 1 => Caught(t.on, u, r))

\* Fed to the terminal start, from any chunk up to c + 1 on, they make it as r.
Given(chunks, l, c, start, r) ==
    \A k \in OldestOf(chunks, l) .. c + 1 : \A u \in Terminal :
        Replayed(chunks, l, k, start, u) => Agrees(u, r)

\* A terminal t that has been shown chunk n is made as r by those after it.
Shows(chunks, l, n, t, r) ==
    OldestOf(chunks, l) <= n + 1 =>
        \A u \in Terminal : Replayed(chunks, l, n + 1, t, u) => Agrees(u, r)

\* A tracker that has read chunk n guesses right once it has read the others.
GuessesFrom(chunks, l, n, a, r) ==
    OldestOf(chunks, l) <= n + 1 =>
        \A c \in AltTracker : AltReplayed(chunks, l, n + 1, a, c) => Guesses(c, r)

\* So does one that begins without a guess.
GuessesAnew(chunks, l, r) ==
    \A k \in OldestOf(chunks, l) .. l + 1 : \A a, c \in AltTracker :
        a.scan = "ground" /\ a.state = "unknown" /\ AltReplayed(chunks, l, k, a, c) => Guesses(c, r)

\* A chunk more is read and kept: the kept chunks still do what they did.
LEMMA ReplaysMore ==
    ASSUME NEW chunks, NEW l \in Nat, NEW data \in Seq(Symbol), NEW new,
           OneMore(chunks, l, data, new),
           NEW r \in Terminal, NEW s \in 0 .. l, NEW s2,
           s2 = IF TerminalReads(r, data).scan = "ground" THEN l + 1 ELSE s,
           Replays(chunks, l, s, r)
    PROVE  Replays(new, l + 1, s2, TerminalReads(r, data))
<1> DEFINE r2 == TerminalReads(r, data)
<1>1. r2 \in Terminal /\ (s2 = s \/ (r2.scan = "ground" /\ s2 = l + 1))
  BY NearReads
<1>2. /\ OldestOf(chunks, l) \in Int /\ OldestOf(new, l + 1) \in Int
      /\ OldestOf(chunks, l) <= OldestOf(new, l + 1) /\ OldestOf(new, l + 1) <= l + 1
  BY DEF OneMore, OldestOf, KeptType
<1> SUFFICES ASSUME NEW k \in OldestOf(new, l + 1) .. (l + 1) + 1, NEW t \in Terminal,
                    NEW v \in Terminal, t.scan = "ground", Replayed(new, l + 1, k, t, v)
             PROVE  Near(t.on, v, r2) /\ (k <= s2 + 1 => Caught(t.on, v, r2))
  BY DEF Replays
<1> HIDE DEF r2
<1>3. Near(t.on, v, r2) /\ r2.scan = "ground" => Caught(t.on, v, r2)
  BY DEF Near, Caught, Synced
<1>4. CASE k = (l + 1) + 1
  <2>1. v = t
    <3>1. l + 1 \in Nat /\ k = (l + 1) + 1
      BY <1>4
    <3> QED
      BY <3>1, ReplayedLast
  <2>2. Near(t.on, v, r2)
    BY <2>1 DEF Near
  <2>3. k <= s2 + 1 => s2 # s
    BY <1>4
  <2> QED
    BY <1>1, <1>3, <2>2, <2>3
<1>5. CASE k # (l + 1) + 1
  <2>1. k \in OldestOf(new, l + 1) .. l + 1 /\ k \in OldestOf(chunks, l) .. l + 1
    BY <1>2, <1>5
  <2>2. PICK u \in Terminal : Replayed(chunks, l, k, t, u) /\ v = TerminalReads(u, data)
    BY <2>1, ReplayedBefore
  <2>3. Near(t.on, u, r) /\ (k <= s + 1 => Caught(t.on, u, r))
    BY <2>1, <2>2 DEF Replays
  <2>4. Near(t.on, v, r2) /\ (Caught(t.on, u, r) => Caught(t.on, v, r2))
    BY <2>2, <2>3, NearReads DEF r2
  <2> QED
    BY <1>1, <1>3, <2>3, <2>4
<1> QED
  BY <1>4, <1>5

\* So do they to what a client has been given and shown.
LEMMA AgreesMore ==
    ASSUME NEW chunks, NEW l \in Nat, NEW data \in Seq(Symbol), NEW new,
           OneMore(chunks, l, data, new),
           NEW r \in Terminal, NEW n \in 0 .. l, NEW t
    PROVE  /\ Given(chunks, l, n, t, r) => Given(new, l + 1, n, t, TerminalReads(r, data))
           /\ Shows(chunks, l, n, t, r) => Shows(new, l + 1, n, t, TerminalReads(r, data))
<1>1. /\ OldestOf(chunks, l) \in Int /\ OldestOf(new, l + 1) \in Int
      /\ OldestOf(chunks, l) <= OldestOf(new, l + 1) /\ OldestOf(new, l + 1) <= l + 1
  BY DEF OneMore, OldestOf, KeptType
<1>2. ASSUME NEW k \in OldestOf(new, l + 1) .. l + 1, NEW v, Replayed(new, l + 1, k, t, v),
             \A u \in Terminal : Replayed(chunks, l, k, t, u) => Agrees(u, r)
      PROVE  Agrees(v, TerminalReads(r, data))
  <2>1. PICK u \in Terminal : Replayed(chunks, l, k, t, u) /\ v = TerminalReads(u, data)
    BY <1>2, ReplayedBefore
  <2> QED
    BY <1>2, <2>1, NearReads
<1>3. ASSUME Given(chunks, l, n, t, r), NEW k \in OldestOf(new, l + 1) .. n + 1,
             NEW v \in Terminal, Replayed(new, l + 1, k, t, v)
      PROVE  Agrees(v, TerminalReads(r, data))
  <2>1. k \in OldestOf(new, l + 1) .. l + 1 /\ k \in OldestOf(chunks, l) .. n + 1
    BY <1>1
  <2> QED
    BY <1>2, <1>3, <2>1 DEF Given
<1>4. ASSUME Shows(chunks, l, n, t, r), OldestOf(new, l + 1) <= n + 1,
             NEW v \in Terminal, Replayed(new, l + 1, n + 1, t, v)
      PROVE  Agrees(v, TerminalReads(r, data))
  <2>1. n + 1 \in OldestOf(new, l + 1) .. l + 1 /\ OldestOf(chunks, l) <= n + 1
    BY <1>1, <1>4
  <2> QED
    BY <1>2, <1>4, <2>1 DEF Shows
<1> QED
  BY <1>3, <1>4 DEF Given, Shows

\* And to what its tracker guesses.
LEMMA GuessesMore ==
    ASSUME NEW chunks, NEW l \in Nat, NEW data \in Seq(Symbol), NEW new,
           OneMore(chunks, l, data, new), NEW r \in Terminal
    PROVE  /\ GuessesAnew(chunks, l, r) => GuessesAnew(new, l + 1, TerminalReads(r, data))
           /\ \A n \in 0 .. l : \A a : GuessesFrom(chunks, l, n, a, r)
                                  => GuessesFrom(new, l + 1, n, a, TerminalReads(r, data))
<1>1. /\ OldestOf(chunks, l) \in Int /\ OldestOf(new, l + 1) \in Int
      /\ OldestOf(chunks, l) <= OldestOf(new, l + 1) /\ OldestOf(new, l + 1) <= l + 1
  BY DEF OneMore, OldestOf, KeptType
<1>2. ASSUME NEW k \in OldestOf(new, l + 1) .. l + 1, NEW a, NEW d, AltReplayed(new, l + 1, k, a, d),
             \A c \in AltTracker : AltReplayed(chunks, l, k, a, c) => Guesses(c, r)
      PROVE  Guesses(d, TerminalReads(r, data))
  <2>1. PICK c \in AltTracker : AltReplayed(chunks, l, k, a, c) /\ d = AltScan(c, data)
    BY <1>2, AltReplayedBefore
  <2> QED
    BY <1>2, <2>1, GuessesReads
<1>3. ASSUME GuessesAnew(chunks, l, r), NEW k \in OldestOf(new, l + 1) .. (l + 1) + 1,
             NEW a \in AltTracker, NEW d \in AltTracker, a.scan = "ground", a.state = "unknown",
             AltReplayed(new, l + 1, k, a, d)
      PROVE  Guesses(d, TerminalReads(r, data))
  <2>1. CASE k = (l + 1) + 1
    <3>1. d = a
      <4>1. l + 1 \in Nat /\ k = (l + 1) + 1
        BY <2>1
      <4> QED
        BY <1>3, <4>1, AltReplayedLast
    <3> QED
      BY <1>3, <3>1 DEF Guesses
  <2>2. CASE k # (l + 1) + 1
    <3>1. k \in OldestOf(new, l + 1) .. l + 1 /\ k \in OldestOf(chunks, l) .. l + 1
      BY <1>1, <2>2
    <3> QED
      BY <1>2, <1>3, <3>1 DEF GuessesAnew
  <2> QED
    BY <2>1, <2>2
<1>4. ASSUME NEW n \in 0 .. l, NEW a, GuessesFrom(chunks, l, n, a, r),
             OldestOf(new, l + 1) <= n + 1, NEW d \in AltTracker,
             AltReplayed(new, l + 1, n + 1, a, d)
      PROVE  Guesses(d, TerminalReads(r, data))
  <2>1. n + 1 \in OldestOf(new, l + 1) .. l + 1 /\ OldestOf(chunks, l) <= n + 1
    BY <1>1, <1>4
  <2> QED
    BY <1>2, <1>4, <2>1 DEF GuessesFrom
<1> QED
  BY <1>3, <1>4 DEF GuessesAnew, GuessesFrom

\* A client that is given the modes r has, as they were when chunk s was the last settled.
LEMMA GivenAtAttach ==
    ASSUME NEW chunks, NEW l \in Nat, NEW s \in 0 .. l, NEW r \in Terminal, NEW start \in Terminal,
           start.scan = "ground", start.on = r.on, Replays(chunks, l, s, r)
    PROVE  Given(chunks, l, s, start, r)
<1> SUFFICES ASSUME NEW k \in OldestOf(chunks, l) .. s + 1, NEW u \in Terminal,
                    Replayed(chunks, l, k, start, u)
             PROVE  Agrees(u, r)
  BY DEF Given
<1>1. k \in OldestOf(chunks, l) .. l + 1 /\ k <= s + 1
  OBVIOUS
<1>2. Caught(start.on, u, r)
  BY <1>1 DEF Replays
<1>3. u.on \subseteq AllModes /\ r.on \subseteq AllModes
  BY DEF Terminal
<1>4. u.on = r.on
  BY <1>2, <1>3 DEF Caught
<1> QED
  BY <1>2, <1>4 DEF Agrees, Caught

\* The next chunk is shown.
LEMMA ShowsNext ==
    ASSUME NEW chunks, NEW l, KeptType(chunks, l), NEW n \in OldestOf(chunks, l) .. l,
           NEW r, NEW t \in Terminal
    PROVE  /\ Shows(chunks, l, n - 1, t, r)
                 => Shows(chunks, l, n, TerminalReads(t, At(chunks, l, n)), r)
           /\ \A c \in Nat : n <= c + 1 /\ Given(chunks, l, c, t, r)
                 => Shows(chunks, l, n, TerminalReads(t, At(chunks, l, n)), r)
<1>1. OldestOf(chunks, l) \in Int /\ n \in Int /\ OldestOf(chunks, l) <= n /\ (n - 1) + 1 = n
  BY DEF OldestOf, KeptType
<1>2. ASSUME NEW u \in Terminal, Replayed(chunks, l, n + 1, TerminalReads(t, At(chunks, l, n)), u)
      PROVE  Replayed(chunks, l, n, t, u)
  BY <1>2, ReplayedNext
<1>3. Shows(chunks, l, n - 1, t, r) => Shows(chunks, l, n, TerminalReads(t, At(chunks, l, n)), r)
  BY <1>1, <1>2 DEF Shows
<1>4. ASSUME NEW c \in Nat, n <= c + 1, Given(chunks, l, c, t, r)
      PROVE  Shows(chunks, l, n, TerminalReads(t, At(chunks, l, n)), r)
  <2>1. n \in OldestOf(chunks, l) .. c + 1
    BY <1>1, <1>4
  <2> QED
    BY <1>2, <1>4, <2>1 DEF Given, Shows
<1> QED
  BY <1>3, <1>4

\* Likewise for the tracker, which goes on from where it is or starts anew.
LEMMA GuessesNext ==
    ASSUME NEW chunks, NEW l, KeptType(chunks, l), NEW n \in OldestOf(chunks, l) .. l,
           NEW r, NEW a \in AltTracker
    PROVE  /\ GuessesFrom(chunks, l, n - 1, a, r)
                 => GuessesFrom(chunks, l, n, AltScan(a, At(chunks, l, n)), r)
           /\ GuessesAnew(chunks, l, r) /\ a.scan = "ground" /\ a.state = "unknown"
                 => GuessesFrom(chunks, l, n, AltScan(a, At(chunks, l, n)), r)
<1>1. OldestOf(chunks, l) \in Int /\ n \in Int /\ OldestOf(chunks, l) <= n /\ (n - 1) + 1 = n
  BY DEF OldestOf, KeptType
<1>2. ASSUME NEW c \in AltTracker, AltReplayed(chunks, l, n + 1, AltScan(a, At(chunks, l, n)), c)
      PROVE  AltReplayed(chunks, l, n, a, c)
  BY <1>2, ReplayedNext
<1>3. GuessesFrom(chunks, l, n - 1, a, r)
        => GuessesFrom(chunks, l, n, AltScan(a, At(chunks, l, n)), r)
  BY <1>1, <1>2 DEF GuessesFrom
<1>4. ASSUME GuessesAnew(chunks, l, r), a.scan = "ground", a.state = "unknown"
      PROVE  GuessesFrom(chunks, l, n, AltScan(a, At(chunks, l, n)), r)
  <2>1. n \in OldestOf(chunks, l) .. l + 1
    BY <1>1 DEF KeptType
  <2> QED
    BY <1>2, <1>4, <2>1 DEF GuessesAnew, GuessesFrom
<1> QED
  BY <1>3, <1>4

-----------------------------------------------------------------------------
(* The inductive invariant.                                                *)

ModesTyped ==
    /\ pending \in Seq(Symbol) /\ KeptType(kept, last) /\ Len(kept) <= Keep /\ last <= MaxChunks
    /\ tracker \in Terminal /\ real \in Terminal /\ term \in Terminal /\ altTracker \in AltTracker
    /\ settled \in 0 .. last /\ covered \in 0 .. last /\ shown \in 0 .. last
    /\ client \in {"none", "attaching", "live", "left"} /\ modes \in Seq(Symbol)

\* What a client's terminal is when it has been given the modes, and nothing else.
Start == TerminalReads(Fresh, modes)

ServerInv ==
    /\ ~cut => Tracks(tracker, real)
    /\ Replays(kept, last, settled, real)
    /\ GuessesAnew(kept, last, real)
    /\ GuessesFrom(kept, last, 0, NewAlt("main"), real)
    /\ last = 0 => tracker.on = {} /\ real = Fresh

ClientInv ==
    /\ client = "attaching" => term = Fresh /\ shown = 0
    /\ client = "live" /\ shown = 0 => term = Start
    /\ client \in {"attaching", "live"} /\ shown = 0 /\ ~gap /\ ~cut =>
          Given(kept, last, covered, Start, real)
    /\ client = "live" /\ shown > 0 /\ ~gap /\ ~cut => Shows(kept, last, shown, term, real)
    /\ client = "live" /\ shown > 0 => GuessesFrom(kept, last, shown, altTracker, real)
    /\ client \in {"attaching", "live"} /\ last = 0 => modes = <<>> /\ altTracker.state = "unknown"
    /\ client = "left" => term.on = {}

ModesInv == ModesTyped /\ ServerInv /\ ClientInv

\* A fresh terminal and the trackers that a client starts with.
LEMMA FreshTyped ==
    /\ Fresh \in Terminal /\ Fresh.scan = "ground" /\ Fresh.on = {}
    /\ NewAlt("main") \in AltTracker /\ NewAlt("unknown") \in AltTracker
    /\ NewAlt("unknown").state = "unknown" /\ NewAlt("unknown").scan = "ground"
    /\ NewAlt("main").scan = "ground" /\ NewAlt("main").state = "main"
  BY DEF Fresh, Terminal, Scans, NewAlt, AltTracker

\* The invariant holds at first.
LEMMA ModesInitInv == ModesInit => ModesInv
<1> SUFFICES ASSUME ModesInit PROVE ModesInv
  OBVIOUS
<1>1. /\ pending = <<>> /\ last = 0 /\ kept = <<>> /\ tracker = Fresh /\ real = Fresh
      /\ settled = 0 /\ client = "none" /\ modes = <<>> /\ covered = 0 /\ term = Fresh
      /\ altTracker = NewAlt("unknown") /\ shown = 0 /\ gap = FALSE /\ cut = FALSE
  BY DEF ModesInit
<1>2. KeptType(<<>>, 0) /\ OldestOf(<<>>, 0) = 1
  BY DEF KeptType, OldestOf
<1>3. ModesTyped
  <2>1. MaxChunks \in Nat /\ Keep \in Nat /\ 0 <= Keep /\ 0 <= MaxChunks
    BY TermModesConstants
  <2>2. <<>> \in Seq(Symbol) /\ Len(<<>>) = 0
    OBVIOUS
  <2> QED
    BY <1>1, <1>2, <2>1, <2>2, FreshTyped DEF ModesTyped
<1>4. Tracks(Fresh, Fresh)
  BY DEF Tracks, Synced
<1>5. ASSUME NEW k \in 1 .. 1, NEW t \in Terminal, NEW u \in Terminal, t.scan = "ground",
             Replayed(<<>>, 0, k, t, u)
      PROVE  Near(t.on, u, Fresh) /\ Caught(t.on, u, Fresh)
  <2>1. u = t
    <3>1. 0 \in Nat /\ k = 0 + 1
      OBVIOUS
    <3> QED
      BY <1>5, <3>1, ReplayedLast
  <2> QED
    BY <1>5, <2>1, FreshTyped DEF Near, Caught, Synced
<1>6. Replays(<<>>, 0, 0, Fresh)
  BY <1>2, <1>5 DEF Replays
<1>7. ASSUME NEW k \in 1 .. 1, NEW a \in AltTracker, NEW c \in AltTracker, AltReplayed(<<>>, 0, k, a, c)
      PROVE  c = a
  <2>1. 0 \in Nat /\ k = 0 + 1
    OBVIOUS
  <2> QED
    BY <1>7, <2>1, AltReplayedLast
<1>8. GuessesAnew(<<>>, 0, Fresh)
  BY <1>2, <1>7 DEF GuessesAnew, Guesses
<1>9. Guesses(NewAlt("main"), Fresh)
  BY FreshTyped DEF Guesses, ScreenTrue
<1>10. GuessesFrom(<<>>, 0, 0, NewAlt("main"), Fresh)
  <2>1. 0 + 1 \in 1 .. 1
    OBVIOUS
  <2> QED
    BY <1>7, <1>9, <2>1, FreshTyped DEF GuessesFrom
<1>11. ServerInv
  BY <1>1, <1>4, <1>6, <1>8, <1>10, FreshTyped DEF ServerInv
<1>12. ClientInv
  BY <1>1 DEF ClientInv
<1> QED
  BY <1>3, <1>11, <1>12 DEF ModesInv

-----------------------------------------------------------------------------
(* Steps of the app and of the session.                                    *)

\* Sequences of symbols, of each length that is written.
LEMMA Sequences ==
    ASSUME NEW S
    PROVE  /\ \A a, b \in S : <<a, b>> \in Seq(S)
           /\ \A a, b, c \in S : <<a, b, c>> \in Seq(S)
           /\ \A a, b, c, d, e \in S : <<a, b, c, d, e>> \in Seq(S)
           /\ \A a, b, c, d, e, f \in S : <<a, b, c, d, e, f>> \in Seq(S)
           /\ \A a, b, c, d, e, f, g \in S : <<a, b, c, d, e, f, g>> \in Seq(S)
  OBVIOUS

\* What the app writes is made of symbols.
LEMMA WritesTyped == Writes \subseteq Seq(Symbol)
<1>1. /\ "E" \in Symbol /\ "[" \in Symbol /\ "?" \in Symbol /\ "alt" \in Symbol /\ ";" \in Symbol
      /\ "cursor" \in Symbol /\ "h" \in Symbol /\ "l" \in Symbol /\ "=" \in Symbol
      /\ "c" \in Symbol /\ "x" \in Symbol /\ "CAN" \in Symbol
  BY DEF Symbol, Modes
<1>2. <<"E", "[", "?", "alt", ";", "cursor", "h">> \in Seq(Symbol)
  BY <1>1, Sequences, Zenon
<1>3. <<"E", "[", "?", "alt", "l">> \in Seq(Symbol)
  BY <1>1, Sequences, Zenon
<1>4. <<"E", "=">> \in Seq(Symbol)
  BY <1>1, Sequences, Zenon
<1>5. <<"E", "c">> \in Seq(Symbol)
  BY <1>1, Sequences, Zenon
<1>6. <<"E", "[", "x">> \in Seq(Symbol)
  BY <1>1, Sequences, Zenon
<1>7. <<"E", "[", "?", "cursor", "CAN", "h">> \in Seq(Symbol)
  BY <1>1, Sequences, Zenon
<1>8. <<"E", "[", "E", "[", "?", "alt", "h">> \in Seq(Symbol)
  BY <1>1, Sequences, Zenon
<1> QED
  BY <1>2, <1>3, <1>4, <1>5, <1>6, <1>7, <1>8 DEF Writes

\* The app writes: nothing has been read yet.
LEMMA AppWritesInv == ModesInv /\ AppWrites => ModesInv'
<1> SUFFICES ASSUME ModesInv, AppWrites PROVE ModesInv'
  OBVIOUS
<1>1. PICK w \in Writes : pending' = pending \o w
  BY DEF AppWrites
<1>2. pending' \in Seq(Symbol)
  BY <1>1, WritesTyped DEF ModesInv, ModesTyped
<1>3. UNCHANGED <<last, kept, tracker, real, settled, clientVars, cut>>
  BY DEF AppWrites
<1>4. ModesTyped'
  BY <1>2, <1>3 DEF ModesInv, ModesTyped, clientVars
<1>5. ServerInv'
  BY <1>3 DEF ModesInv, ServerInv
<1>6. ClientInv'
  BY <1>3 DEF ModesInv, ClientInv, Start, clientVars
<1> QED
  BY <1>4, <1>5, <1>6 DEF ModesInv

\* A chunk is read: tracker, ring and the terminal that has seen all move on together.
LEMMA HandlePTYOutputInv == ModesInv /\ HandlePTYOutput => ModesInv'
<1> SUFFICES ASSUME ModesInv, HandlePTYOutput PROVE ModesInv'
  OBVIOUS
<1>1. PICK n \in 1 .. Len(pending) :
         /\ kept' = Trimmed(kept, SubSeq(pending, 1, n))
         /\ tracker' = ModeScan(tracker, SubSeq(pending, 1, n))
         /\ real' = TerminalReads(real, SubSeq(pending, 1, n))
         /\ settled' = IF real'.scan = "ground" THEN last + 1 ELSE settled
         /\ pending' = SubSeq(pending, n + 1, Len(pending))
  BY DEF HandlePTYOutput, Trimmed
<1>2. last < MaxChunks /\ last' = last + 1 /\ UNCHANGED <<clientVars, cut>>
  BY DEF HandlePTYOutput
<1> DEFINE data == SubSeq(pending, 1, n)
           new == Trimmed(kept, data)
           r2 == TerminalReads(real, data)
           s2 == IF r2.scan = "ground" THEN last + 1 ELSE settled
<1>3. /\ kept' = new /\ tracker' = ModeScan(tracker, data) /\ real' = r2 /\ settled' = s2
      /\ pending' = SubSeq(pending, n + 1, Len(pending))
  BY <1>1
<1>4. data \in Seq(Symbol) /\ pending' \in Seq(Symbol)
  <2>1. pending \in Seq(Symbol) /\ n \in Nat /\ n <= Len(pending) /\ Len(pending) \in Nat
    BY DEF ModesInv, ModesTyped
  <2> QED
    BY <1>3, <2>1
<1>5. /\ KeptType(kept, last) /\ Len(kept) <= Keep /\ last \in Nat /\ tracker \in Terminal
      /\ real \in Terminal /\ settled \in 0 .. last /\ covered \in 0 .. last /\ shown \in 0 .. last
      /\ MaxChunks \in Nat
  BY TermModesConstants DEF ModesInv, ModesTyped, KeptType
<1> HIDE DEF data, new
<1>6. OneMore(kept, last, data, new) /\ Len(new) <= Keep
  BY <1>4, <1>5, KeptGrows DEF new
<1>7. r2 \in Terminal
  BY <1>4, <1>5, NearReads
<1>8. s2 \in 0 .. last + 1 /\ settled \in 0 .. last + 1 /\ covered \in 0 .. last + 1
      /\ shown \in 0 .. last + 1 /\ last + 1 <= MaxChunks /\ last + 1 # 0
  BY <1>2, <1>5
<1>9. Replays(new, last + 1, s2, r2)
  <2>1. Replays(kept, last, settled, real)
    BY DEF ModesInv, ServerInv
  <2> QED
    BY <1>4, <1>5, <1>6, <2>1, ReplaysMore
<1>10. ~cut => ModeScan(tracker, data) \in Terminal /\ Tracks(ModeScan(tracker, data), r2)
  BY <1>4, <1>5, TracksScan DEF ModesInv, ServerInv
<1>11. ModeScan(tracker, data) \in Terminal
  <2>1. PICK f \in [0 .. Len(data) -> Scan] : ModeScan(tracker, data) = f[Len(data)].t
    BY <1>4, <1>5, ScanHistory
  <2>2. f[Len(data)] \in Scan
    BY <1>4, <2>1
  <2> QED
    BY <2>1, <2>2 DEF Scan
<1> HIDE DEF r2, s2
<1>12. GuessesAnew(new, last + 1, r2) /\ GuessesFrom(new, last + 1, 0, NewAlt("main"), r2)
  BY <1>4, <1>5, <1>6, GuessesMore DEF ModesInv, ServerInv, r2
<1>13. ServerInv'
  BY <1>2, <1>3, <1>8, <1>9, <1>10, <1>12 DEF ServerInv
<1>14. ModesTyped'
  BY <1>2, <1>3, <1>4, <1>6, <1>7, <1>8, <1>11 DEF ModesTyped, ModesInv, OneMore, clientVars
<1>15. ClientInv
  BY DEF ModesInv
<1>16. /\ Given(kept, last, covered, Start, real) => Given(new, last + 1, covered, Start, r2)
       /\ Shows(kept, last, shown, term, real) => Shows(new, last + 1, shown, term, r2)
       /\ GuessesFrom(kept, last, shown, altTracker, real)
             => GuessesFrom(new, last + 1, shown, altTracker, r2)
  BY <1>4, <1>5, <1>6, AgreesMore, GuessesMore DEF r2
<1>17. Start' = Start
  BY <1>2 DEF Start, clientVars
<1>18. ClientInv'
  BY <1>2, <1>3, <1>8, <1>15, <1>16, <1>17 DEF ClientInv, clientVars
<1> QED
  BY <1>13, <1>14, <1>18 DEF ModesInv

\* The session learns nothing from the modes that were stored but what they say.
LEMMA HandoverInv == ModesInv /\ Handover => ModesInv'
<1> SUFFICES ASSUME ModesInv, Handover PROVE ModesInv'
  OBVIOUS
<1>1. /\ tracker' = ModeScan(Fresh, Restore(tracker))
      /\ cut' = (cut \/ tracker.scan # "ground")
      /\ UNCHANGED <<pending, last, kept, real, settled, clientVars>>
  BY DEF Handover, HandedOver
<1>2. tracker \in Terminal /\ real \in Terminal /\ (~cut => Tracks(tracker, real))
  BY DEF ModesInv, ModesTyped, ServerInv
<1>3. /\ Restore(tracker) \in Seq(Symbol)
      /\ TerminalReads(Fresh, Restore(tracker)) \in Terminal
      /\ TerminalReads(Fresh, Restore(tracker)).scan = "ground"
      /\ TerminalReads(Fresh, Restore(tracker)).on = tracker.on
  BY <1>2, RestoreRestores
<1>4. Tracks(Fresh, Fresh)
  BY DEF Tracks, Synced
<1>5. tracker' \in Terminal /\ Tracks(tracker', TerminalReads(Fresh, Restore(tracker)))
  BY <1>1, <1>3, <1>4, FreshTyped, TracksScan
<1>6. tracker'.on = tracker.on /\ tracker'.scan = "ground"
  BY <1>3, <1>5 DEF Tracks, Synced
<1>7. ASSUME ~cut' PROVE Tracks(tracker', real)
  <2>1. tracker.scan = "ground" /\ Tracks(tracker, real)
    BY <1>1, <1>2, <1>7
  <2> QED
    BY <1>6, <2>1 DEF Tracks, Synced
<1>8. ModesTyped'
  BY <1>1, <1>5 DEF ModesInv, ModesTyped, clientVars
<1>9. ServerInv'
  BY <1>1, <1>6, <1>7 DEF ModesInv, ServerInv
<1>10. ClientInv'
  BY <1>1 DEF ModesInv, ClientInv, Start, clientVars
<1> QED
  BY <1>8, <1>9, <1>10 DEF ModesInv

-----------------------------------------------------------------------------
(* Steps of the client.                                                    *)

\* It is given the modes of the output so far.
LEMMA AttachInv == ModesInv /\ Attach => ModesInv'
<1> SUFFICES ASSUME ModesInv, Attach PROVE ModesInv'
  OBVIOUS
<1>1. /\ client' = "attaching" /\ modes' = Restore(tracker) /\ covered' = settled
      /\ term' = Fresh /\ altTracker' = NewAlt("unknown") /\ shown' = 0 /\ gap' = FALSE
      /\ UNCHANGED <<pending, last, kept, tracker, real, settled, cut>>
  BY DEF Attach, sessionVars
<1>2. /\ tracker \in Terminal /\ real \in Terminal /\ last \in Nat /\ settled \in 0 .. last
      /\ 0 \in 0 .. last
  BY DEF ModesInv, ModesTyped, KeptType
<1>3. /\ Restore(tracker) \in Seq(Symbol)
      /\ TerminalReads(Fresh, Restore(tracker)) \in Terminal
      /\ TerminalReads(Fresh, Restore(tracker)).scan = "ground"
      /\ TerminalReads(Fresh, Restore(tracker)).on = tracker.on
  BY <1>2, RestoreRestores
<1>4. Start' = TerminalReads(Fresh, Restore(tracker))
  BY <1>1 DEF Start
<1>5. ASSUME ~cut PROVE Given(kept, last, settled, Start', real)
  <2>1. tracker.on = real.on
    BY <1>5 DEF ModesInv, ServerInv, Tracks
  <2>2. Replays(kept, last, settled, real)
    BY DEF ModesInv, ServerInv
  <2> QED
    BY <1>2, <1>3, <1>4, <2>1, <2>2, GivenAtAttach
<1>6. ASSUME last = 0 PROVE Restore(tracker) = <<>>
  <2>1. tracker.on = {}
    BY <1>6 DEF ModesInv, ServerInv
  <2> QED
    BY <2>1 DEF Restore
<1>7. ModesTyped'
  BY <1>1, <1>2, <1>3, FreshTyped DEF ModesInv, ModesTyped
<1>8. ServerInv'
  BY <1>1 DEF ModesInv, ServerInv
<1>9. ClientInv'
  BY <1>1, <1>5, <1>6, FreshTyped DEF ClientInv
<1> QED
  BY <1>7, <1>8, <1>9 DEF ModesInv

\* It writes them to its terminal.
LEMMA ApplyModesInv == ModesInv /\ ApplyModes => ModesInv'
<1> SUFFICES ASSUME ModesInv, ApplyModes PROVE ModesInv'
  OBVIOUS
<1>1. /\ client = "attaching" /\ client' = "live" /\ term' = TerminalReads(term, modes)
      /\ altTracker' = AltScan(altTracker, modes)
      /\ UNCHANGED <<pending, last, kept, tracker, real, settled, modes, covered, shown, gap, cut>>
  BY DEF ApplyModes, sessionVars
<1>2. /\ term = Fresh /\ shown = 0 /\ term \in Terminal /\ altTracker \in AltTracker
      /\ modes \in Seq(Symbol)
  BY <1>1 DEF ModesInv, ModesTyped, ClientInv
<1>3. term' = Start /\ Start' = Start /\ term' \in Terminal
  BY <1>1, <1>2, NearReads DEF Start
<1>4. altTracker' \in AltTracker /\ (modes = <<>> => altTracker' = altTracker)
  BY <1>1, <1>2, GuessesReads
<1>5. ModesTyped'
  BY <1>1, <1>3, <1>4 DEF ModesInv, ModesTyped
<1>6. ServerInv'
  BY <1>1 DEF ModesInv, ServerInv
<1>7. ClientInv'
  BY <1>1, <1>2, <1>3, <1>4 DEF ModesInv, ClientInv
<1> QED
  BY <1>5, <1>6, <1>7 DEF ModesInv

\* Which chunk is shown next: one that is kept, and the one after the last unless it is gone.
LEMMA NextShown ==
    ASSUME NEW chunks, NEW l, KeptType(chunks, l), NEW s \in 0 .. l, s < l, NEW n,
           n = IF OldestOf(chunks, l) > s + 1 THEN OldestOf(chunks, l) ELSE s + 1
    PROVE  /\ n \in OldestOf(chunks, l) .. l /\ n \in 0 .. l /\ n > 0 /\ n >= s + 1
           /\ n - OldestOf(chunks, l) + 1 = n - (l - Len(chunks))
  BY DEF OldestOf, KeptType

\* It shows the next chunk there is, after a gap or not.
LEMMA RenderInv == ModesInv /\ Render => ModesInv'
<1> SUFFICES ASSUME ModesInv, Render PROVE ModesInv'
  OBVIOUS
<1> DEFINE n == IF OldestOf(kept, last) > shown + 1 THEN OldestOf(kept, last) ELSE shown + 1
           data == At(kept, last, n)
<1>1. /\ KeptType(kept, last) /\ last \in Nat /\ shown \in 0 .. last /\ covered \in 0 .. last
      /\ term \in Terminal /\ altTracker \in AltTracker /\ real \in Terminal
  BY DEF ModesInv, ModesTyped, KeptType
<1>2. client = "live" /\ shown < last
  BY DEF Render, CanRender
<1>3. /\ n \in OldestOf(kept, last) .. last /\ n \in 0 .. last /\ n > 0 /\ n >= shown + 1
      /\ n - OldestOf(kept, last) + 1 = n - (last - Len(kept))
  BY <1>1, <1>2, NextShown
<1>4. /\ term' = TerminalReads(term, data)
      /\ altTracker' = TrackScreen(altTracker, n, shown, data)
      /\ shown' = n
      /\ gap' = (gap \/ (n > shown + 1 /\ (shown > 0 \/ n > covered + 1)))
      /\ UNCHANGED <<pending, last, kept, tracker, real, settled, client, modes, covered, cut>>
  <2>1. /\ term' = TerminalReads(term, kept[n - OldestOf(kept, last) + 1])
        /\ altTracker' = TrackScreen(altTracker, n, shown, kept[n - OldestOf(kept, last) + 1])
        /\ shown' = n
        /\ gap' = (gap \/ (n > shown + 1 /\ (shown > 0 \/ n > covered + 1)))
        /\ UNCHANGED <<pending, last, kept, tracker, real, settled, client, modes, covered, cut>>
    BY DEF Render, OldestOf, sessionVars
  <2> QED
    BY <1>3, <2>1 DEF At
<1> HIDE DEF n
<1>5. data \in Seq(Symbol)
  BY <1>1, <1>3, AtTyped
<1>6. term' \in Terminal
  BY <1>1, <1>4, <1>5, NearReads
<1>7. ASSUME ~gap', ~cut PROVE Shows(kept, last, n, TerminalReads(term, data), real)
  <2>1. ~gap /\ ~(n > shown + 1 /\ (shown > 0 \/ n > covered + 1))
    BY <1>4, <1>7
  <2>2. CASE shown = 0
    <3>1. term = Start /\ Given(kept, last, covered, term, real)
      BY <1>2, <1>7, <2>1, <2>2 DEF ModesInv, ClientInv
    <3>2. covered \in Nat /\ n <= covered + 1
      <4>1. ~(n > shown + 1 /\ n > covered + 1)
        BY <2>1
      <4> QED
        BY <1>1, <1>3, <2>2, <4>1
    <3> QED
      BY <1>1, <1>3, <3>1, <3>2, ShowsNext
  <2>3. CASE shown > 0
    <3>1. Shows(kept, last, shown, term, real)
      BY <1>2, <1>7, <2>1, <2>3 DEF ModesInv, ClientInv
    <3>2. shown = n - 1
      <4>1. ~(n > shown + 1 /\ shown > 0)
        BY <2>1
      <4> QED
        BY <1>1, <1>3, <2>3, <4>1
    <3> QED
      BY <1>1, <1>3, <3>1, <3>2, ShowsNext
  <2> QED
    BY <1>1, <2>2, <2>3
<1>8. /\ TrackScreen(altTracker, n, shown, data) \in AltTracker
      /\ GuessesFrom(kept, last, n, TrackScreen(altTracker, n, shown, data), real)
  <2>1. CASE n = 1
    <3>1. TrackScreen(altTracker, n, shown, data) = AltScan(NewAlt("main"), data)
      BY <2>1 DEF TrackScreen
    <3>2. GuessesFrom(kept, last, n - 1, NewAlt("main"), real)
      BY <2>1 DEF ModesInv, ServerInv
    <3> QED
      BY <1>1, <1>3, <1>5, <3>1, <3>2, FreshTyped, GuessesNext, GuessesReads
  <2>2. CASE n # 1 /\ n # shown + 1
    <3> DEFINE a == [altTracker EXCEPT !.state = "unknown", !.scan = "ground"]
    <3>1. TrackScreen(altTracker, n, shown, data) = AltScan(a, data)
      BY <2>2 DEF TrackScreen
    <3>2. a \in AltTracker /\ a.scan = "ground" /\ a.state = "unknown"
      BY <1>1 DEF AltTracker, Scans
    <3>3. GuessesAnew(kept, last, real)
      BY DEF ModesInv, ServerInv
    <3> HIDE DEF a
    <3> QED
      BY <1>1, <1>3, <1>5, <3>1, <3>2, <3>3, GuessesNext, GuessesReads
  <2>3. CASE n # 1 /\ n = shown + 1
    <3>1. TrackScreen(altTracker, n, shown, data) = AltScan(altTracker, data)
      BY <2>3 DEF TrackScreen
    <3>2. shown = n - 1 /\ shown > 0
      BY <1>1, <2>3
    <3>3. GuessesFrom(kept, last, n - 1, altTracker, real)
      BY <1>2, <3>2 DEF ModesInv, ClientInv
    <3> QED
      BY <1>1, <1>3, <1>5, <3>1, <3>3, GuessesNext, GuessesReads
  <2> QED
    BY <2>1, <2>2, <2>3
<1>9. ModesTyped'
  BY <1>3, <1>4, <1>6, <1>8 DEF ModesInv, ModesTyped
<1>10. ServerInv'
  BY <1>4 DEF ModesInv, ServerInv
<1> HIDE DEF data
<1>11. last # 0 /\ n # 0
  BY <1>1, <1>2, <1>3
<1>12. ClientInv'
  BY <1>2, <1>4, <1>7, <1>8, <1>11 DEF ClientInv
<1> QED
  BY <1>9, <1>10, <1>12 DEF ModesInv

\* It leaves a terminal with all modes reset.
LEMMA LeaveInv == ModesInv /\ Leave => ModesInv'
<1> SUFFICES ASSUME ModesInv, Leave PROVE ModesInv'
  OBVIOUS
<1>1. /\ client' = "left" /\ term' = TerminalReads(term, TerminalModeReset)
      /\ UNCHANGED <<pending, last, kept, tracker, real, settled, modes, covered, altTracker,
                     shown, gap, cut>>
  BY DEF Leave, sessionVars
<1>2. term' \in Terminal /\ term'.on = {}
  <2>1. term \in Terminal
    BY DEF ModesInv, ModesTyped
  <2> QED
    BY <1>1, <2>1, ResetResets
<1>3. ModesTyped'
  BY <1>1, <1>2 DEF ModesInv, ModesTyped
<1>4. ServerInv'
  BY <1>1 DEF ModesInv, ServerInv
<1>5. ClientInv'
  BY <1>1, <1>2 DEF ClientInv
<1> QED
  BY <1>3, <1>4, <1>5 DEF ModesInv

-----------------------------------------------------------------------------
(* The theorems.                                                           *)

\* Every step keeps the invariant.
LEMMA ModesNextInv == ModesInv /\ [ModesNext]_modesVars => ModesInv'
<1>1. ModesInv /\ UNCHANGED modesVars => ModesInv'
  <2> SUFFICES ASSUME ModesInv, UNCHANGED modesVars PROVE ModesInv'
    OBVIOUS
  <2>1. UNCHANGED <<pending, last, kept, tracker, real, settled, client, modes, covered, term,
                    altTracker, shown, gap, cut>>
    BY DEF modesVars, sessionVars, clientVars
  <2>2. ModesTyped'
    BY <2>1 DEF ModesInv, ModesTyped
  <2>3. ServerInv'
    BY <2>1 DEF ModesInv, ServerInv
  <2>4. ClientInv'
    BY <2>1 DEF ModesInv, ClientInv, Start
  <2> QED
    BY <2>2, <2>3, <2>4 DEF ModesInv
<1> QED
  BY <1>1, AppWritesInv, HandlePTYOutputInv, AttachInv, ApplyModesInv, RenderInv, LeaveInv,
     HandoverInv DEF ModesNext

\* However chunks cut the app's sequences, whichever chunks the ring has dropped when a
\* client attaches, and wherever upgrades fall, what is kept still leads each terminal
\* to the app's modes (handlePTYOutput, TermModeRestore, restoreSession).
THEOREM ModesInductive == ModesSpec => []ModesInv
  BY ModesInitInv, ModesNextInv, PTL DEF ModesSpec

\* What it says of the session, and of a client that has shown everything.
LEMMA ModesKnownInv == ModesInv => ModesKnown
<1> SUFFICES ASSUME ModesInv PROVE ModesKnown
  OBVIOUS
<1>1. /\ KeptType(kept, last) /\ last \in Nat /\ last <= MaxChunks /\ MaxChunks \in Nat
      /\ shown \in 0 .. last /\ covered \in 0 .. last /\ Len(kept) <= Keep
      /\ tracker \in Terminal /\ term \in Terminal /\ real \in Terminal /\ altTracker \in AltTracker
      /\ client \in {"none", "attaching", "live", "left"}
  BY TermModesConstants DEF ModesInv, ModesTyped, KeptType
<1>2. ModesTypeOK
  BY <1>1 DEF ModesTypeOK, Terminal, AltTracker, AllModes
<1>3. TrackerExact
  BY DEF ModesInv, ServerInv, Tracks, TrackerExact
<1>4. ASSUME client = "live", shown = last, ~gap, ~cut PROVE term.on = real.on
  <2>1. OldestOf(kept, last) <= last + 1 /\ OldestOf(kept, last) \in Int
    BY <1>1 DEF OldestOf, KeptType
  <2>2. \E a : a \in AltTracker
    BY <1>1
  <2>3. Replayed(kept, last, last + 1, term, term)
    BY <1>1, <2>2, ReplayedNone
  <2>4. CASE last = 0
    <3>1. Given(kept, last, covered, term, real)
      BY <1>4, <2>4 DEF ModesInv, ClientInv
    <3>2. last + 1 \in OldestOf(kept, last) .. covered + 1
      BY <1>1, <2>1, <2>4
    <3>3. Agrees(term, real)
      BY <1>1, <2>3, <3>1, <3>2 DEF Given
    <3> QED
      BY <3>3 DEF Agrees
  <2>5. CASE last > 0
    <3>1. Shows(kept, last, last, term, real)
      BY <1>4, <2>5 DEF ModesInv, ClientInv
    <3>2. Agrees(term, real)
      BY <1>1, <2>1, <2>3, <3>1 DEF Shows
    <3> QED
      BY <3>2 DEF Agrees
  <2> QED
    BY <1>1, <2>4, <2>5
<1> QED
  BY <1>2, <1>3, <1>4 DEF ModesKnown, AttachedAgrees

\* What it says of the client's guess, and of the terminal it leaves.
LEMMA TerminalKnownInv == ModesInv => TerminalKnown
<1> SUFFICES ASSUME ModesInv PROVE TerminalKnown
  OBVIOUS
<1>1. /\ KeptType(kept, last) /\ last \in Nat /\ shown \in 0 .. last
      /\ term \in Terminal /\ altTracker \in AltTracker
  BY DEF ModesInv, ModesTyped, KeptType
<1>2. LeavesCleanTerminal
  BY DEF ModesInv, ClientInv, LeavesCleanTerminal
<1>3. ASSUME client = "live", shown = last PROVE ScreenTrue(altTracker, real)
  <2>1. CASE last = 0
    BY <1>3, <2>1 DEF ModesInv, ClientInv, ScreenTrue
  <2>2. CASE last > 0
    <3>1. GuessesFrom(kept, last, last, altTracker, real)
      BY <1>3, <2>2 DEF ModesInv, ClientInv
    <3>2. OldestOf(kept, last) <= last + 1
      BY <1>1 DEF OldestOf, KeptType
    <3>3. AltReplayed(kept, last, last + 1, altTracker, altTracker)
      BY <1>1, ReplayedNone
    <3>4. Guesses(altTracker, real)
      BY <1>1, <3>1, <3>2, <3>3 DEF GuessesFrom
    <3> QED
      BY <3>4 DEF Guesses, ScreenTrue
  <2> QED
    BY <1>1, <2>1, <2>2
<1> QED
  BY <1>2, <1>3 DEF TerminalKnown, ScreenStateTrue, ScreenTrue

\* The session's tracker knows the modes of a terminal that has read every byte unless an
\* upgrade cut a sequence, and a client that attaches late and has shown everything has
\* them too unless chunks were lost to it (ModeTracker, TermModeRestore, the replay).
THEOREM ModesKnownHold == ModesSpec => []ModesKnown
  BY ModesInductive, ModesKnownInv, PTL

\* What a client thinks of the alternate screen is so once it has shown everything, gaps
\* or not, and it leaves its terminal without a mode (AltScreenTracker, trackScreen,
\* restoreTerminalModes).
THEOREM TerminalKnownHold == ModesSpec => []TerminalKnown
  BY ModesInductive, TerminalKnownInv, PTL

-----------------------------------------------------------------------------
(* Sequences of bytes.                                                     *)

\* What is in sequences that are put together or taken apart.
LEMMA RangeJoined ==
    ASSUME NEW S, NEW s \in Seq(S), NEW t \in Seq(S)
    PROVE  /\ s \o t \in Seq(S)
           /\ Range(s \o t) = Range(s) \union Range(t)
           /\ Range(s) \subseteq S
<1>1. /\ s \o t \in Seq(S) /\ Len(s \o t) = Len(s) + Len(t)
      /\ \A i \in 1 .. Len(s) : (s \o t)[i] = s[i]
      /\ \A i \in 1 .. Len(t) : (s \o t)[Len(s) + i] = t[i]
      /\ Len(s) \in Nat /\ Len(t) \in Nat
      /\ DOMAIN s = 1 .. Len(s) /\ DOMAIN t = 1 .. Len(t) /\ DOMAIN (s \o t) = 1 .. Len(s) + Len(t)
  OBVIOUS
<1>2. ASSUME NEW x \in Range(s \o t) PROVE x \in Range(s) \union Range(t)
  <2>1. PICK i \in 1 .. Len(s) + Len(t) : x = (s \o t)[i]
    BY <1>1, <1>2 DEF Range
  <2>2. CASE i <= Len(s)
    BY <1>1, <2>1, <2>2 DEF Range
  <2>3. CASE i > Len(s)
    <3>1. i - Len(s) \in 1 .. Len(t) /\ Len(s) + (i - Len(s)) = i
      BY <1>1, <2>3
    <3>2. x = t[i - Len(s)]
      BY <1>1, <2>1, <3>1
    <3> QED
      BY <1>1, <3>1, <3>2 DEF Range
  <2> QED
    BY <1>1, <2>2, <2>3
<1>3. ASSUME NEW x \in Range(s) PROVE x \in Range(s \o t)
  <2>1. PICK i \in 1 .. Len(s) : x = s[i]
    BY <1>1, <1>3 DEF Range
  <2>2. i \in 1 .. Len(s) + Len(t) /\ x = (s \o t)[i]
    BY <1>1, <2>1
  <2> QED
    BY <1>1, <2>2 DEF Range
<1>4. ASSUME NEW x \in Range(t) PROVE x \in Range(s \o t)
  <2>1. PICK i \in 1 .. Len(t) : x = t[i]
    BY <1>1, <1>4 DEF Range
  <2>2. Len(s) + i \in 1 .. Len(s) + Len(t) /\ x = (s \o t)[Len(s) + i]
    BY <1>1, <2>1
  <2> QED
    BY <1>1, <2>2 DEF Range
<1>5. Range(s) \subseteq S
  BY <1>1 DEF Range
<1> QED
  BY <1>1, <1>2, <1>3, <1>4, <1>5

\* A sequence of one.
LEMMA RangeSmall ==
    ASSUME NEW S, NEW x \in S
    PROVE  <<x>> \in Seq(S) /\ Range(<<x>>) = {x} /\ Range(<<>>) = {}
<1>1. <<x>> \in Seq(S) /\ DOMAIN <<x>> = 1 .. 1 /\ <<x>>[1] = x /\ DOMAIN <<>> = {}
  OBVIOUS
<1>2. 1 .. 1 = {1}
  OBVIOUS
<1> QED
  BY <1>1, <1>2 DEF Range

\* Bytes in the order they were typed.
Ascending(s) == \A i, j \in 1 .. Len(s) : i < j => s[i].pos < s[j].pos

\* No byte twice.
Once(s) == \A i, j \in 1 .. Len(s) : s[i].pos = s[j].pos => i = j

\* What a byte is made of.
LEMMA ByteTyped ==
    ASSUME NEW b \in Byte
    PROVE  b.pos \in Nat /\ b.pos \in 1 .. MaxTyped /\ b.key \in Keys /\ b.pos \in Int
  BY TerminalInputConstants DEF Byte

\* What ascends holds nothing twice.
LEMMA AscendingOnce ==
    ASSUME NEW s \in Seq(Byte), Ascending(s)
    PROVE  Once(s)
<1> SUFFICES ASSUME NEW i \in 1 .. Len(s), NEW j \in 1 .. Len(s), s[i].pos = s[j].pos, i # j
             PROVE  FALSE
  BY DEF Once
<1>1. s[i].pos \in Int /\ s[j].pos \in Int
  BY ByteTyped
<1>2. i < j \/ j < i
  OBVIOUS
<1> QED
  BY <1>1, <1>2 DEF Ascending

\* A byte more.
LEMMA AscendingMore ==
    ASSUME NEW s \in Seq(Byte), Ascending(s), NEW b \in Byte, \A c \in Range(s) : c.pos < b.pos
    PROVE  /\ Append(s, b) \in Seq(Byte) /\ Ascending(Append(s, b))
           /\ Range(Append(s, b)) = Range(s) \union {b}
<1> DEFINE t == Append(s, b)
<1>1. /\ t \in Seq(Byte) /\ Len(t) = Len(s) + 1 /\ t[Len(s) + 1] = b /\ Len(s) \in Nat
      /\ \A i \in 1 .. Len(s) : t[i] = s[i] /\ t[i] \in Range(s)
      /\ DOMAIN s = 1 .. Len(s) /\ DOMAIN t = 1 .. Len(s) + 1
  BY DEF Range
<1> HIDE DEF t
<1>2. ASSUME NEW i \in 1 .. Len(t), NEW j \in 1 .. Len(t), i < j PROVE t[i].pos < t[j].pos
  <2>1. i \in 1 .. Len(s) /\ (j \in 1 .. Len(s) \/ j = Len(s) + 1)
    BY <1>1, <1>2
  <2> QED
    BY <1>1, <1>2, <2>1 DEF Ascending
<1>3. \A i : i \in 1 .. Len(s) + 1 <=> i \in 1 .. Len(s) \/ i = Len(s) + 1
  BY <1>1
<1>4. Range(t) = Range(s) \union {b}
  BY <1>1, <1>3 DEF Range
<1> QED
  BY <1>1, <1>2, <1>4 DEF t, Ascending

\* x is the first k bytes of s, y the others.
Parts(s, k, x, y) ==
    k \in 0 .. Len(s) /\ x = SubSeq(s, 1, k) /\ y = SubSeq(s, k + 1, Len(s))

\* A sequence is cut in two.
LEMMA Cut ==
    ASSUME NEW s \in Seq(Byte), Ascending(s), NEW k, NEW x, NEW y, Parts(s, k, x, y)
    PROVE  /\ x \in Seq(Byte) /\ Ascending(x) /\ y \in Seq(Byte) /\ Ascending(y)
           /\ Range(s) = Range(x) \union Range(y)
           /\ \A b \in Range(x) : \A c \in Range(y) : b.pos < c.pos
           /\ \A b : b \in Range(x) <=> \E i \in 1 .. k : b = s[i]
           /\ \A b : b \in Range(y) <=> \E i \in k + 1 .. Len(s) : b = s[i]
           /\ Len(x) = k /\ (k > 0 => x[1] = s[1])
<1> DEFINE n == Len(s)
<1> USE DEF Parts
<1>1. n \in Nat /\ k \in Nat /\ k <= n
  OBVIOUS
<1>2. x \in Seq(Byte) /\ Len(x) = k /\ \A i \in 1 .. k : x[i] = s[i]
  OBVIOUS
<1>3. y \in Seq(Byte) /\ Len(y) = n - k /\ \A i \in 1 .. n - k : y[i] = s[k + i]
  OBVIOUS
<1> HIDE DEF Parts
<1>4. DOMAIN s = 1 .. n /\ DOMAIN x = 1 .. k /\ DOMAIN y = 1 .. n - k
  BY <1>2, <1>3
<1> HIDE DEF n
<1>5. \A b : b \in Range(x) <=> \E i \in 1 .. k : b = s[i]
  BY <1>2, <1>4 DEF Range
<1>6. ASSUME NEW b \in Range(y) PROVE \E i \in k + 1 .. n : b = s[i]
  <2>1. PICK i \in 1 .. n - k : b = s[k + i]
    BY <1>3, <1>4, <1>6 DEF Range
  <2>2. k + i \in k + 1 .. n
    BY <1>1
  <2> QED
    BY <2>1, <2>2
<1>7. ASSUME NEW i \in k + 1 .. n PROVE s[i] \in Range(y)
  <2>1. i - k \in 1 .. n - k /\ k + (i - k) = i
    BY <1>1
  <2>2. y[i - k] = s[i]
    BY <1>3, <2>1
  <2> QED
    BY <1>4, <2>1, <2>2 DEF Range
<1>8. \A i : i \in 1 .. n <=> i \in 1 .. k \/ i \in k + 1 .. n
  BY <1>1
<1>9. Range(s) = Range(x) \union Range(y)
  <2>1. \A b : b \in Range(s) <=> \E i \in 1 .. n : b = s[i]
    BY <1>4 DEF Range
  <2>2. \A b : b \in Range(y) <=> \E i \in k + 1 .. n : b = s[i]
    BY <1>6, <1>7
  <2> QED
    BY <1>5, <1>8, <2>1, <2>2
<1>10. ASSUME NEW b \in Range(x), NEW c \in Range(y) PROVE b.pos < c.pos
  <2>1. PICK i \in 1 .. k : b = s[i]
    BY <1>5
  <2>2. PICK j \in k + 1 .. n : c = s[j]
    BY <1>6
  <2>3. i \in 1 .. n /\ j \in 1 .. n /\ i < j
    BY <1>1
  <2> QED
    BY <2>1, <2>2, <2>3 DEF Ascending, n
<1>11. Ascending(x)
  <2> SUFFICES ASSUME NEW i \in 1 .. k, NEW j \in 1 .. k, i < j PROVE x[i].pos < x[j].pos
    BY <1>2 DEF Ascending
  <2>1. i \in 1 .. n /\ j \in 1 .. n
    BY <1>1
  <2> QED
    BY <1>2, <2>1 DEF Ascending, n
<1>12. Ascending(y)
  <2> SUFFICES ASSUME NEW i \in 1 .. n - k, NEW j \in 1 .. n - k, i < j PROVE y[i].pos < y[j].pos
    BY <1>3 DEF Ascending
  <2>1. k + i \in 1 .. n /\ k + j \in 1 .. n /\ k + i < k + j
    BY <1>1
  <2> QED
    BY <1>3, <2>1 DEF Ascending, n
<1>13. k > 0 => x[1] = s[1]
  BY <1>1, <1>2
<1> QED
  BY <1>2, <1>3, <1>5, <1>6, <1>7, <1>9, <1>10, <1>11, <1>12, <1>13 DEF n

-----------------------------------------------------------------------------
(* Packets put together.                                                   *)

\* f[k] is the first k pieces of q, put together.
Flattens(q, f) ==
    \A i \in 1 .. Len(q) : f[i] = IF i = 1 THEN q[i] ELSE f[i - 1] \o q[i]

\* The recursion of FlattenSeq defines something.
LEMMA FlattenSeqFlattens ==
    ASSUME NEW S, NEW q \in Seq(Seq(S)), q # <<>>
    PROVE  \E f : Flattens(q, f) /\ FlattenSeq(q) = f[Len(q)]
<1> DEFINE n == Len(q)
           D == Seq(S)
           step == [k \in 1 .. n |-> [r \in D |-> r \o q[k]]]
           f == CHOOSE h : h = [i \in 1 .. n |-> IF i = 1 THEN q[i] ELSE h[i - 1] \o q[i]]
<1>1. n \in Nat /\ n # 0 /\ \A i \in 1 .. n : q[i] \in D
  OBVIOUS
<1>2. step \in [1 .. n -> [D -> D]] /\ <<>> \in D
  BY <1>1
<1>3. \A k \in 1 .. n : \A r \in D : step[k][r] = r \o q[k]
  OBVIOUS
<1>4. FlattenSeq(q) = f[n]
  BY <1>1 DEF FlattenSeq
<1> HIDE DEF step, n
<1>5. PICK g : LoopRuns(D, n, <<>>, step, g)
  BY <1>1, <1>2, LoopHasHistory
<1> DEFINE h == [i \in 1 .. n |-> g[i]]
<1>6. ASSUME NEW i \in 1 .. n
      PROVE  h[i] = IF i = 1 THEN q[i] ELSE h[i - 1] \o q[i]
  <2> HIDE DEF D
  <2>1. i - 1 \in 0 .. n /\ g[i - 1] \in D /\ g[i] = step[i][g[i - 1]] /\ g[0] = <<>>
    BY <1>1, <1>5 DEF LoopRuns
  <2>2. g[i] = g[i - 1] \o q[i]
    BY <1>3, <2>1
  <2>3. CASE i = 1
    <3>1. i - 1 = 0
      BY <2>3
    <3>2. g[i] = <<>> \o q[i]
      BY <2>1, <2>2, <3>1
    <3>3. <<>> \o q[i] = q[i]
      BY <1>1 DEF D
    <3> QED
      BY <2>3, <3>2, <3>3
  <2>4. CASE i # 1
    <3>1. i - 1 \in 1 .. n
      BY <1>1, <2>4
    <3> QED
      BY <2>2, <2>4, <3>1
  <2> QED
    BY <2>3, <2>4
<1>7. h = [i \in 1 .. n |-> h[i]]
  OBVIOUS
<1> HIDE DEF h
<1>8. h = [i \in 1 .. n |-> IF i = 1 THEN q[i] ELSE h[i - 1] \o q[i]]
  BY <1>6, <1>7
<1>9. f = [i \in 1 .. n |-> IF i = 1 THEN q[i] ELSE f[i - 1] \o q[i]]
  BY <1>8
<1> HIDE DEF f
<1>10. Flattens(q, f)
  BY <1>9 DEF Flattens, n
<1> QED
  BY <1>4, <1>10 DEF n

\* What is appended comes last.
LEMMA Appended ==
    ASSUME NEW S, NEW q \in Seq(S), NEW x \in S
    PROVE  /\ Len(q) \in Nat /\ Append(q, x) \in Seq(S) /\ Len(Append(q, x)) = Len(q) + 1
           /\ Append(q, x)[Len(q) + 1] = x
           /\ \A i \in 1 .. Len(q) : Append(q, x)[i] = q[i]
  OBVIOUS

\* A packet more.
LEMMA FlattenMore ==
    ASSUME NEW S, NEW q \in Seq(Seq(S)), NEW x \in Seq(S)
    PROVE  FlattenSeq(Append(q, x)) = FlattenSeq(q) \o x
<1> DEFINE n == Len(q)
           r == Append(q, x)
<1>1. /\ n \in Nat /\ r \in Seq(Seq(S)) /\ Len(r) = n + 1 /\ r[n + 1] = x
      /\ \A i \in 1 .. n : r[i] = q[i]
  BY Appended
<1> HIDE DEF r
<1>5. r # <<>>
  BY <1>1
<1>2. PICK g : Flattens(r, g) /\ FlattenSeq(r) = g[n + 1]
  BY <1>1, <1>5, FlattenSeqFlattens
<1>3. CASE n = 0
  <2>1. q = <<>> /\ FlattenSeq(q) = <<>>
    BY <1>3 DEF FlattenSeq
  <2>2. g[1] = r[1] /\ r[1] = x
    BY <1>1, <1>2, <1>3 DEF Flattens
  <2>3. <<>> \o x = x
    OBVIOUS
  <2> QED
    BY <1>2, <1>3, <2>1, <2>2, <2>3 DEF r
<1>4. CASE n # 0
  <2>1. q # <<>>
    BY <1>4
  <2>2. PICK f : Flattens(q, f) /\ FlattenSeq(q) = f[n]
    BY <2>1, FlattenSeqFlattens
  <2> DEFINE T == {k \in 0 .. n : k > 0 => f[k] = g[k]}
  <2>3. 0 \in T
    BY <1>1
  <2>4. ASSUME NEW k \in 0 .. n, k < n, k \in T PROVE k + 1 \in T
    <3>1. k + 1 \in 1 .. n /\ k + 1 \in 1 .. n + 1 /\ (k + 1) - 1 = k /\ (k + 1 = 1 <=> k = 0)
      BY <1>1, <2>4
    <3>2. f[k + 1] = IF k + 1 = 1 THEN q[k + 1] ELSE f[k] \o q[k + 1]
      BY <2>2, <3>1 DEF Flattens
    <3>3. g[k + 1] = IF k + 1 = 1 THEN q[k + 1] ELSE g[k] \o q[k + 1]
      BY <1>1, <1>2, <3>1 DEF Flattens
    <3>4. f[k + 1] = g[k + 1]
      BY <2>4, <3>1, <3>2, <3>3
    <3> QED
      BY <3>1, <3>4
  <2> HIDE DEF T
  <2>5. \A k \in 0 .. n : k \in T
    BY <1>1, <2>3, <2>4, UpTo
  <2>6. f[n] = g[n]
    BY <1>1, <1>4, <2>5 DEF T
  <2>7. g[n + 1] = g[n] \o r[n + 1]
    <3>1. n + 1 \in 1 .. n + 1 /\ n + 1 # 1 /\ (n + 1) - 1 = n
      BY <1>1, <1>4
    <3> QED
      BY <1>1, <1>2, <3>1 DEF Flattens
  <2> QED
    BY <1>1, <1>2, <2>2, <2>6, <2>7 DEF r
<1> QED
  BY <1>3, <1>4

\* Sequences of packets: what is sent is in order but for the two exceptions.
Late == {"L", "M", "C"}
Overtakes(b, c) == b.key = "P" \/ c.key \in Late
InOrderOf(s) ==
    \A i, j \in 1 .. Len(s) : i < j /\ s[i].pos > s[j].pos => Overtakes(s[i], s[j])

\* What is sent next comes after all that was sent, and may be older only as an exception.
LEMMA SentGrows ==
    ASSUME NEW s \in Seq(Byte), NEW x \in Seq(Byte), InOrderOf(s), Once(s), Ascending(x),
           \A b \in Range(s) : \A c \in Range(x) :
               b.pos # c.pos /\ (b.pos > c.pos => Overtakes(b, c))
    PROVE  InOrderOf(s \o x) /\ Once(s \o x)
<1> DEFINE t == s \o x
           n == Len(s)
           k == Len(x)
<1>1. /\ n \in Nat /\ k \in Nat /\ Len(t) = n + k
      /\ \A i \in 1 .. n : t[i] = s[i] /\ t[i] \in Range(s) /\ t[i] \in Byte
      /\ \A i \in n + 1 .. n + k : t[i] = x[i - n] /\ i - n \in 1 .. k
  BY DEF Range
<1>2. \A i \in n + 1 .. n + k : t[i] \in Range(x) /\ t[i] \in Byte
  BY <1>1 DEF Range
<1> HIDE DEF t, n, k
<1>3. \A i \in 1 .. n + k : i \in 1 .. n \/ i \in n + 1 .. n + k
  BY <1>1
<1>4. \A i \in 1 .. n + k : t[i].pos \in Int
  BY <1>1, <1>2, <1>3, ByteTyped
<1>5. ASSUME NEW i \in 1 .. n + k, NEW j \in 1 .. n + k, i < j
      PROVE  t[i].pos # t[j].pos /\ (t[i].pos > t[j].pos => Overtakes(t[i], t[j]))
  <2>1. CASE j \in 1 .. n
    <3>1. i \in 1 .. n /\ i # j
      BY <1>1, <1>5, <2>1
    <3> QED
      BY <1>1, <1>5, <2>1, <3>1 DEF InOrderOf, Once, n
  <2>2. CASE i \in 1 .. n /\ j \in n + 1 .. n + k
    BY <1>1, <1>2, <2>2
  <2>3. CASE i \in n + 1 .. n + k /\ j \in n + 1 .. n + k
    <3>1. i - n \in 1 .. k /\ j - n \in 1 .. k /\ i - n < j - n
      BY <1>1, <1>5, <2>3
    <3>2. t[i].pos < t[j].pos
      BY <1>1, <2>3, <3>1 DEF Ascending, k
    <3> QED
      BY <1>4, <3>2
  <2>4. i \in 1 .. n \/ i \in n + 1 .. n + k
    BY <1>3
  <2>5. j \in 1 .. n \/ j \in n + 1 .. n + k
    BY <1>3
  <2> QED
    BY <2>1, <2>2, <2>3, <2>4, <2>5
<1>6. InOrderOf(t)
  BY <1>1, <1>5 DEF InOrderOf
<1>7. Once(t)
  <2> SUFFICES ASSUME NEW i \in 1 .. n + k, NEW j \in 1 .. n + k, t[i].pos = t[j].pos, i # j
               PROVE  FALSE
    BY <1>1 DEF Once
  <2>1. i < j \/ j < i
    BY <1>1
  <2> QED
    BY <1>5, <2>1
<1> QED
  BY <1>6, <1>7 DEF t

-----------------------------------------------------------------------------
(* Characters.                                                             *)

Lead(b) == b.key \in {"L", "M"}

\* b begins a character whose bytes up to place p are in K.
Reaches(b, p, K) ==
    /\ Lead(b) /\ b.pos <= p /\ p < b.pos + CharLength[b.key]
    /\ \A i \in b.pos + 1 .. p : [pos |-> i, key |-> "C"] \in K

\* With what it has of a character, X has all of it that is in K.
Together(X, K) ==
    \A b \in X : \A c \in K : b.pos < c.pos /\ Reaches(b, c.pos, K) => c \in X

\* b begins a character of which more may come after place m.
Open(b, m, K) == Reaches(b, m, K) /\ m + 1 < b.pos + CharLength[b.key]
NoneOpen(X, m, K) == \A b \in X : ~Open(b, m, K)

\* The length of a character, by its first byte.
LEMMA LengthOf ==
    /\ CharLength["L"] = 2 /\ CharLength["M"] = 3
    /\ \A b : Lead(b) => CharLength[b.key] \in {2, 3}
  BY DEF CharLength, Lead

\* With fewer bytes known, no more characters are together or open.
LEMMA FewerKnown ==
    ASSUME NEW X, NEW K, NEW K2, K2 \subseteq K, NEW m
    PROVE  /\ Together(X, K) => Together(X, K2)
           /\ NoneOpen(X, m, K) => NoneOpen(X, m, K2)
<1>1. \A b, p : Reaches(b, p, K2) => Reaches(b, p, K)
  BY DEF Reaches
<1> QED
  BY <1>1 DEF Together, NoneOpen, Open

\* All are at places up to m, each at one of its own.
Placed(K, m) ==
    /\ K \subseteq Byte
    /\ \A b, c \in K : b.pos = c.pos => b = c
    /\ \A b \in K : b.pos <= m

\* Byte m + 1 comes, or is known to be none.
LEMMA NoByte ==
    ASSUME NEW m \in Nat, NEW K, Placed(K, m), NEW X, X \subseteq K
    PROVE  NoneOpen(X, m + 1, K)
<1> SUFFICES ASSUME NEW b \in X, Open(b, m + 1, K) PROVE FALSE
  BY DEF NoneOpen
<1>1. b.pos \in Int /\ b.pos <= m
  BY ByteTyped DEF Placed
<1>2. m + 1 \in b.pos + 1 .. m + 1
  BY <1>1
<1>3. [pos |-> m + 1, key |-> "C"] \in K
  BY <1>2 DEF Open, Reaches
<1>4. m + 1 <= m
  BY <1>3 DEF Placed
<1> QED
  BY <1>4

\* A byte c comes at place m + 1: what was open, and nothing else, it may go on.
LEMMA NewByte ==
    ASSUME NEW m \in Nat, NEW K, Placed(K, m), NEW c \in Byte, c.pos = m + 1,
           NEW K2, K2 = K \union {c}, NEW X, X \subseteq K
    PROVE  /\ Placed(K2, m + 1)
           /\ Together(X, K) /\ NoneOpen(X, m, K) => Together(X, K2) /\ NoneOpen(X, m + 1, K2)
           /\ Together(X, K) => Together(X \union {c}, K2)
           /\ c.key # "C" => NoneOpen(X, m + 1, K2)
           /\ c.key # "C" /\ Together(X, K) => Together(X, K2)
<1>1. /\ \A b \in K : b \in Byte /\ b.pos \in Int /\ b.pos <= m
      /\ m + 1 \in Int
  BY ByteTyped DEF Placed
<1>2. Placed(K2, m + 1)
  <2>1. \A b \in K : b.pos # m + 1 /\ b.pos <= m + 1
    BY <1>1
  <2> QED
    BY <2>1 DEF Placed
<1>3. ASSUME NEW b \in K, NEW p \in Nat, p <= m, Reaches(b, p, K2) PROVE Reaches(b, p, K)
  <2> SUFFICES ASSUME NEW i \in b.pos + 1 .. p PROVE [pos |-> i, key |-> "C"] \in K
    BY <1>3 DEF Reaches
  <2>1. [pos |-> i, key |-> "C"] \in K2
    BY <1>3 DEF Reaches
  <2>2. [pos |-> i, key |-> "C"].pos # m + 1
    BY <1>1, <1>3
  <2> QED
    BY <2>1, <2>2
<1>4. ASSUME NEW b \in K, Reaches(b, m + 1, K2)
      PROVE  Open(b, m, K) /\ c.key = "C"
  <2>1. /\ Lead(b) /\ m + 1 < b.pos + CharLength[b.key] /\ CharLength[b.key] \in Int
        /\ \A i \in b.pos + 1 .. m + 1 : [pos |-> i, key |-> "C"] \in K2
    BY <1>4, LengthOf DEF Reaches
  <2>2. m + 1 \in b.pos + 1 .. m + 1 /\ b.pos \in Int /\ b.pos <= m
    BY <1>1
  <2>3. [pos |-> m + 1, key |-> "C"] \in K2
    BY <2>1, <2>2
  <2>4. [pos |-> m + 1, key |-> "C"] \notin K
    <3>1. [pos |-> m + 1, key |-> "C"].pos = m + 1
      OBVIOUS
    <3> QED
      BY <1>1, <3>1
  <2>5. c.key = "C"
    BY <2>3, <2>4
  <2>6. Reaches(b, m, K2)
    <3>1. \A i \in b.pos + 1 .. m : i \in b.pos + 1 .. m + 1
      BY <2>2
    <3>2. m < b.pos + CharLength[b.key]
      BY <2>1, <2>2
    <3> QED
      BY <2>1, <2>2, <3>1, <3>2 DEF Reaches
  <2>7. Reaches(b, m, K)
    BY <1>3, <2>6
  <2> QED
    BY <2>1, <2>5, <2>7 DEF Open
<1>5. ASSUME NEW b \in X, NEW d \in K2, b.pos < d.pos, Reaches(b, d.pos, K2), Together(X, K)
      PROVE  d \in X \/ (d = c /\ Open(b, m, K) /\ c.key = "C")
  <2>1. CASE d = c
    BY <1>4, <1>5, <2>1
  <2>2. CASE d # c
    <3>1. d \in K /\ d.pos \in Nat /\ d.pos <= m
      BY <1>1, <2>2, ByteTyped
    <3>2. Reaches(b, d.pos, K)
      BY <1>3, <1>5, <3>1
    <3> QED
      BY <1>5, <3>1, <3>2 DEF Together
  <2> QED
    BY <2>1, <2>2
<1>6. NoneOpen(X, m, K) \/ c.key # "C" => NoneOpen(X, m + 1, K2)
  BY <1>4 DEF NoneOpen, Open
<1>7. Together(X, K) /\ (NoneOpen(X, m, K) \/ c.key # "C") => Together(X, K2)
  BY <1>5 DEF Together, NoneOpen
<1>8. ASSUME Together(X, K) PROVE Together(X \union {c}, K2)
  <2> SUFFICES ASSUME NEW b \in X \union {c}, NEW d \in K2, b.pos < d.pos, Reaches(b, d.pos, K2)
               PROVE  d \in X \union {c}
    BY DEF Together
  <2>1. b # c
    <3>1. d.pos \in Int /\ d.pos <= m + 1
      BY <1>1
    <3> QED
      BY <3>1
  <2> QED
    BY <1>5, <1>8, <2>1
<1> QED
  BY <1>2, <1>6, <1>7, <1>8

-----------------------------------------------------------------------------
(* Where flushInputBatch cuts the batch.                                   *)

\* A character begins i bytes before the end of s.
Begins(s, i) ==
    /\ Lead(s[Len(s) + 1 - i])
    /\ \A j \in 1 .. i - 1 : s[Len(s) + 1 - j].key = "C"

\* Only one character begins so that all after it goes on with it.
LEMMA BeginsOnce ==
    ASSUME NEW s \in Seq(Byte), NEW i \in 1 .. Len(s), NEW j \in 1 .. Len(s),
           Begins(s, i), Begins(s, j)
    PROVE  i = j
<1> SUFFICES ASSUME i # j PROVE FALSE
  OBVIOUS
<1>1. i \in 1 .. j - 1 \/ j \in 1 .. i - 1
  OBVIOUS
<1> QED
  BY <1>1 DEF Begins, Lead

\* What utf8IncompleteTrail finds: the beginning that is not complete, if any.
LEMMA TrailIs ==
    ASSUME NEW s \in Seq(Byte), NEW k, k = Utf8IncompleteTrail(s)
    PROVE  /\ k \in 0 .. Len(s) /\ (k > 0 => Begins(s, k))
           /\ \A i \in 1 .. Len(s) :
                 i <= 3 /\ Begins(s, i) /\ i < CharLength[s[Len(s) + 1 - i].key] => k = i
<1> DEFINE n == Len(s)
           begun == {i \in 1 .. n : i <= 3 /\ Begins(s, i)}
<1>1. k = IF \E i \in begun : i < CharLength[s[n + 1 - i].key] THEN CHOOSE i \in begun : TRUE ELSE 0
  BY DEF Utf8IncompleteTrail, Begins, Lead
<1>2. n \in Nat
  OBVIOUS
<1>3. CASE \E i \in begun : i < CharLength[s[n + 1 - i].key]
  <2>1. k = CHOOSE i \in begun : TRUE
    BY <1>1, <1>3
  <2>2. k \in begun
    BY <1>3, <2>1
  <2>3. k \in 1 .. n /\ Begins(s, k) /\ k \in 0 .. n
    BY <1>2, <2>2
  <2> QED
    BY <2>3, BeginsOnce
<1>4. CASE ~ \E i \in begun : i < CharLength[s[n + 1 - i].key]
  <2>1. k = 0 /\ k \in 0 .. n
    BY <1>1, <1>2, <1>4
  <2> QED
    BY <1>4, <2>1
<1> QED
  BY <1>3, <1>4

\* The end of s is the character that has reached place m.
LEMMA OpenIsTrail ==
    ASSUME NEW s \in Seq(Byte), Ascending(s), NEW m \in Nat, NEW K, Placed(K, m),
           Range(s) \subseteq K, Together(Range(s), K), NEW b \in Range(s), Open(b, m, K)
    PROVE  /\ Utf8IncompleteTrail(s) > 0
           /\ b = s[Len(s) + 1 - Utf8IncompleteTrail(s)]
<1> DEFINE n == Len(s)
<1>1. /\ n \in Nat /\ DOMAIN s = 1 .. n /\ \A i \in 1 .. n : s[i] \in Range(s) /\ s[i] \in Byte
      /\ \A i \in 1 .. n : s[i].pos \in Int /\ s[i].pos <= m
  <2>1. n \in Nat /\ DOMAIN s = 1 .. n /\ \A i \in 1 .. n : s[i] \in Range(s) /\ s[i] \in Byte
    BY DEF Range
  <2> QED
    BY <2>1, ByteTyped DEF Placed
<1>10. \A i, j \in 1 .. n : i < j => s[i].pos < s[j].pos
  BY DEF Ascending
<1>11. \A i \in 1 .. n : i <= 3 /\ Begins(s, i) /\ i < CharLength[s[n + 1 - i].key]
          => Utf8IncompleteTrail(s) = i
  BY TrailIs
<1>12. \A i : Begins(s, i) <=> Lead(s[n + 1 - i]) /\ \A j \in 1 .. i - 1 : s[n + 1 - j].key = "C"
  BY DEF Begins
<1> SUFFICES Utf8IncompleteTrail(s) > 0 /\ b = s[n + 1 - Utf8IncompleteTrail(s)]
  OBVIOUS
<1> HIDE DEF n
<1>2. PICK i \in 1 .. n : b = s[i]
  BY <1>1 DEF Range
<1>3. /\ Lead(b) /\ b.pos <= m /\ m + 1 < b.pos + CharLength[b.key] /\ b.pos \in Int
      /\ CharLength[b.key] \in {2, 3}
  BY <1>1, <1>2, LengthOf DEF Open, Reaches
<1>4. m = b.pos \/ (m = b.pos + 1 /\ CharLength[b.key] = 3)
  BY <1>3
<1>5. \A j \in 1 .. n : i < j => b.pos < s[j].pos
  BY <1>2, <1>10
<1>6. CASE m = b.pos
  <2>1. i = n
    <3> SUFFICES ASSUME i # n PROVE FALSE
      OBVIOUS
    <3>1. n \in 1 .. n /\ i < n
      BY <1>1
    <3>2. b.pos < s[n].pos /\ s[n].pos <= m
      BY <1>1, <1>5, <3>1
    <3> QED
      BY <1>1, <1>3, <1>6, <3>1, <3>2
  <2>2. n + 1 - 1 = i /\ 1 \in 1 .. n /\ 1 - 1 = 0
    BY <1>1, <2>1
  <2>3. Begins(s, 1)
    BY <1>2, <1>3, <1>12, <2>2
  <2>4. 1 < CharLength[s[n + 1 - 1].key]
    BY <1>2, <1>3, <2>2
  <2>5. Utf8IncompleteTrail(s) = 1
    BY <1>11, <2>2, <2>3, <2>4
  <2> QED
    BY <1>2, <2>2, <2>5
<1>7. CASE m = b.pos + 1 /\ CharLength[b.key] = 3
  <2> DEFINE d == [pos |-> m, key |-> "C"]
  <2>1. d \in K /\ d.pos = m /\ d.key = "C"
    BY <1>3, <1>7 DEF Open, Reaches
  <2>2. d \in Range(s)
    <3>1. b.pos < d.pos /\ Reaches(b, d.pos, K)
      BY <1>3, <1>7, <2>1 DEF Open
    <3> QED
      BY <2>1, <3>1 DEF Together
  <2>3. PICK j \in 1 .. n : d = s[j]
    BY <1>1, <2>2 DEF Range
  <2> HIDE DEF d
  <2>4. j = n
    <3> SUFFICES ASSUME j # n PROVE FALSE
      OBVIOUS
    <3>1. n \in 1 .. n /\ j < n
      BY <1>1
    <3>2. s[j].pos < s[n].pos /\ s[n].pos <= m
      BY <1>1, <1>10, <3>1
    <3> QED
      BY <1>1, <2>1, <2>3, <3>1, <3>2
  <2>5. i = n - 1
    <3>1. i # n
      BY <1>2, <1>7, <1>3, <2>1, <2>3, <2>4
    <3> SUFFICES ASSUME i # n - 1 PROVE FALSE
      OBVIOUS
    <3>2. n - 1 \in 1 .. n /\ i < n - 1 /\ n - 1 < n /\ n \in 1 .. n
      BY <1>1, <3>1
    <3>3. b.pos < s[n - 1].pos /\ s[n - 1].pos < s[n].pos /\ s[n].pos = m
      BY <1>5, <1>10, <2>1, <2>3, <2>4, <3>2
    <3> QED
      BY <1>1, <1>3, <1>7, <3>2, <3>3
  <2>6. n + 1 - 2 = i /\ n + 1 - 1 = n /\ 2 \in 1 .. n
    BY <1>1, <2>5
  <2>7. Begins(s, 2)
    <3>1. \A l \in 1 .. 2 - 1 : l = 1
      OBVIOUS
    <3>2. s[n].key = "C"
      BY <2>1, <2>3, <2>4
    <3> QED
      BY <1>2, <1>3, <1>12, <2>6, <3>1, <3>2
  <2>8. 2 < CharLength[s[n + 1 - 2].key]
    BY <1>2, <1>7, <2>6
  <2>9. Utf8IncompleteTrail(s) = 2
    BY <1>11, <2>6, <2>7, <2>8
  <2> QED
    BY <1>2, <2>6, <2>9
<1> QED
  BY <1>4, <1>6, <1>7

\* The batch s is cut into x, which is sent, and y, which is kept.
CutAt(s, x, y) ==
    LET k == Utf8IncompleteTrail(s)
    IN  x = SubSeq(s, 1, Len(s) - k) /\ y = SubSeq(s, Len(s) - k + 1, Len(s))

\* What is kept is the beginning of a character.
LEMMA CutTyped ==
    ASSUME NEW s \in Seq(Byte), Ascending(s), NEW x, NEW y, CutAt(s, x, y)
    PROVE  /\ x \in Seq(Byte) /\ Ascending(x) /\ y \in Seq(Byte) /\ Ascending(y)
           /\ Range(s) = Range(x) \union Range(y)
           /\ \A b \in Range(x) : \A c \in Range(y) : b.pos < c.pos
           /\ \A c \in Range(y) : c.key \in Late
           /\ y # <<>> => y[1] \in Range(y) /\ Lead(y[1]) /\ \A c \in Range(y) : y[1].pos <= c.pos
<1> DEFINE n == Len(s)
           k == Utf8IncompleteTrail(s)
<1>1. k \in 0 .. n /\ n \in Nat /\ (k > 0 => Begins(s, k))
  BY TrailIs
<1>2. x = SubSeq(s, 1, n - k) /\ y = SubSeq(s, n - k + 1, n)
  BY DEF CutAt
<1> HIDE DEF k
<1> DEFINE h == n - k
<1>3. Parts(s, h, x, y)
  BY <1>1, <1>2 DEF Parts
<1> HIDE DEF h
<1>7. /\ x \in Seq(Byte) /\ Ascending(x) /\ y \in Seq(Byte) /\ Ascending(y)
      /\ Range(s) = Range(x) \union Range(y)
      /\ \A b \in Range(x) : \A c \in Range(y) : b.pos < c.pos
      /\ \A b : b \in Range(y) <=> \E i \in h + 1 .. n : b = s[i]
  BY <1>3, Cut
<1>8. \A b : Begins(s, b) <=> Lead(s[n + 1 - b]) /\ \A j \in 1 .. b - 1 : s[n + 1 - j].key = "C"
  BY DEF Begins
<1> HIDE DEF n
<1>4. /\ x \in Seq(Byte) /\ Ascending(x) /\ y \in Seq(Byte) /\ Ascending(y)
      /\ Range(s) = Range(x) \union Range(y)
      /\ \A b \in Range(x) : \A c \in Range(y) : b.pos < c.pos
      /\ \A b : b \in Range(y) <=> \E i \in n - k + 1 .. n : b = s[i]
  BY <1>7 DEF h
<1>5. ASSUME NEW c \in Range(y) PROVE c.key \in Late
  <2>1. PICK i \in n - k + 1 .. n : c = s[i]
    BY <1>4
  <2>2. k > 0 /\ Begins(s, k)
    BY <1>1, <2>1
  <2>3. CASE i = n - k + 1
    <3>1. i = n + 1 - k
      BY <1>1, <2>3
    <3> QED
      BY <1>8, <2>1, <2>2, <3>1 DEF Lead, Late
  <2>4. CASE i # n - k + 1
    <3>1. n + 1 - i \in 1 .. k - 1 /\ n + 1 - (n + 1 - i) = i
      BY <1>1, <2>1, <2>4
    <3> QED
      BY <1>8, <2>1, <2>2, <3>1 DEF Late
  <2> QED
    BY <2>3, <2>4
<1>6. ASSUME y # <<>>
      PROVE  y[1] \in Range(y) /\ Lead(y[1]) /\ \A c \in Range(y) : y[1].pos <= c.pos
  <2>1. /\ Len(y) \in Nat /\ Len(y) > 0 /\ DOMAIN y = 1 .. Len(y)
        /\ \A i \in 1 .. Len(y) : y[i] \in Byte
    BY <1>4, <1>6
  <2>2. 1 \in 1 .. Len(y) /\ y[1] \in Range(y)
    BY <2>1 DEF Range
  <2>3. k > 0
    <3>1. PICK i \in n - k + 1 .. n : y[1] = s[i]
      BY <1>4, <2>2
    <3> QED
      BY <1>1, <3>1
  <2>4. y[1] = s[n + 1 - k]
    <3>1. n - k + 1 = n + 1 - k /\ n - k + 1 \in 1 .. n
      BY <1>1, <2>3
    <3> QED
      BY <1>1, <1>2, <2>1, <2>2, <3>1 DEF n
  <2>5. ASSUME NEW c \in Range(y) PROVE y[1].pos <= c.pos
    <3>1. PICK i \in 1 .. Len(y) : c = y[i]
      BY <2>1 DEF Range
    <3>2. y[1].pos \in Int
      BY <2>1, <2>2, ByteTyped
    <3>3. CASE i = 1
      BY <3>1, <3>2, <3>3
    <3>4. CASE i # 1
      <4>1. 1 < i
        BY <2>1, <3>4
      <4>2. y[1].pos < y[i].pos
        BY <1>4, <2>2, <4>1 DEF Ascending
      <4>3. y[i].pos \in Int
        BY <2>1, ByteTyped
      <4> QED
        BY <3>1, <3>2, <4>2, <4>3
    <3> QED
      BY <3>3, <3>4
  <2> QED
    BY <1>1, <1>8, <2>2, <2>3, <2>4, <2>5
<1> QED
  BY <1>4, <1>5, <1>6

\* The cut goes through no character and leaves what is open in the batch.
LEMMA CutClean ==
    ASSUME NEW s \in Seq(Byte), Ascending(s), NEW x, NEW y, CutAt(s, x, y),
           NEW m \in Nat, NEW K, Placed(K, m), Range(s) \subseteq K, Together(Range(s), K)
    PROVE  /\ Together(Range(x), K) /\ Together(Range(y), K)
           /\ NoneOpen(Range(x), m, K)
<1> DEFINE X == Range(x)
           Y == Range(y)
<1>1. /\ Range(s) = X \union Y
      /\ \A b \in X : \A c \in Y : b.pos < c.pos
      /\ y # <<>> => y[1] \in Y /\ Lead(y[1]) /\ \A c \in Y : y[1].pos <= c.pos
      /\ y \in Seq(Byte) /\ x \in Seq(Byte)
  BY CutTyped
<1>2. \A b \in K : b \in Byte /\ b.pos \in Int
  BY ByteTyped DEF Placed
<1>3. \A b \in X \union Y : b \in K
  BY <1>1
<1>4. \A c \in Y : y # <<>>
  BY <1>1 DEF Range
<1> HIDE DEF X, Y
<1>5. ASSUME NEW b \in X, NEW c \in K, b.pos < c.pos, Reaches(b, c.pos, K), c \notin X
      PROVE  FALSE
  <2>1. c \in Y
    BY <1>1, <1>5 DEF Together
  <2>2. y[1] \in Y /\ Lead(y[1]) /\ y[1].pos <= c.pos /\ b.pos < y[1].pos /\ y[1] \in K
    BY <1>1, <1>3, <1>4, <2>1
  <2>3. y[1].pos \in b.pos + 1 .. c.pos
    BY <1>2, <1>3, <1>5, <2>2
  <2>4. [pos |-> y[1].pos, key |-> "C"] \in K
    BY <1>5, <2>3 DEF Reaches
  <2>5. y[1] = [pos |-> y[1].pos, key |-> "C"]
    BY <2>2, <2>4 DEF Placed
  <2>6. y[1].key = "C"
    BY <2>5
  <2> QED
    BY <2>2, <2>6 DEF Lead
<1>6. ASSUME NEW b \in Y, NEW c \in K, b.pos < c.pos, Reaches(b, c.pos, K), c \notin Y
      PROVE  FALSE
  <2>1. c \in X
    BY <1>1, <1>6 DEF Together
  <2>2. c.pos < b.pos
    BY <1>1, <2>1
  <2> QED
    BY <1>2, <1>3, <1>6, <2>2
<1>7. ASSUME NEW b \in X, Open(b, m, K) PROVE FALSE
  <2>1. b \in Range(s)
    BY <1>1
  <2>2. Utf8IncompleteTrail(s) > 0 /\ b = s[Len(s) + 1 - Utf8IncompleteTrail(s)]
    BY <1>7, <2>1, OpenIsTrail
  <2> DEFINE k == Utf8IncompleteTrail(s)
             n == Len(s)
  <2>3. k \in 0 .. n /\ n \in Nat
    BY TrailIs
  <2>4. y = SubSeq(s, n - k + 1, n)
    BY DEF CutAt
  <2>5. n - k \in 0 .. n /\ n + 1 - k = n - k + 1 /\ n + 1 - k \in n - k + 1 .. n
    BY <2>2, <2>3
  <2>6. x = SubSeq(s, 1, n - k)
    BY DEF CutAt
  <2> HIDE DEF k
  <2> DEFINE h == n - k
  <2>10. Parts(s, h, x, y)
    BY <2>4, <2>5, <2>6 DEF Parts
  <2> HIDE DEF h
  <2>11. \A d : d \in Y <=> \E i \in h + 1 .. n : d = s[i]
    BY <2>10, Cut DEF Y
  <2>7. \A d : d \in Y <=> \E i \in n - k + 1 .. n : d = s[i]
    BY <2>11 DEF h
  <2>8. b \in Y
    BY <2>2, <2>5, <2>7 DEF k
  <2>9. b.pos < b.pos /\ b.pos \in Int
    BY <1>1, <1>2, <1>3, <1>7, <2>8
  <2> QED
    BY <2>9
<1> QED
  BY <1>5, <1>6, <1>7 DEF Together, NoneOpen, X, Y

-----------------------------------------------------------------------------
(* The inductive invariant.                                                *)

LoopState == [esc : Seq(Byte), batch : Seq(Byte), prefixed : BOOLEAN,
              packets : Seq(Seq(Byte)), dropped : SUBSET (1 .. MaxTyped),
              gone : SUBSET (1 .. MaxTyped), ended : {"", "detach", "eof", "error"}]

\* Of the m bytes typed each is in s, which is sent, among the held ones H, or at a
\* place of D or G; and s is in order, also with what will be sent after it.
OnceInv(s, H, D, G, m) ==
    /\ s \in Seq(Byte) /\ Once(s) /\ Range(s) \intersect H = {}
    /\ Placed(Range(s) \union H, m)
    /\ D \intersect G = {} /\ D \union G \subseteq 1 .. m
    /\ \A b \in Range(s) \union H : b.pos \notin D \union G
    /\ \A p \in 1 .. m : p \in D \union G \/ \E b \in Range(s) \union H : b.pos = p
OrderInv(s, H) ==
    /\ InOrderOf(s)
    /\ \A b \in Range(s) : \A c \in H : b.pos > c.pos => Overtakes(b, c)
Core(s, H, D, G, m) == OnceInv(s, H, D, G, m) /\ OrderInv(s, H)

\* A packet that is no escape sequence.
Plain(x) == x[1].key # "E"

\* x neither cuts a character nor ends within one.
Clean(X, m, K) == Together(X, K) /\ NoneOpen(X, m, K)

\* No packet shares a byte with another, and the plain ones cut no character.
PacketsInv(q, K, m) ==
    /\ \A i \in 1 .. Len(q) : q[i] # <<>> /\ Range(q[i]) \subseteq Range(FlattenSeq(q))
    /\ \A i, j \in 1 .. Len(q) : i # j => Range(q[i]) \intersect Range(q[j]) = {}
    /\ \A i \in 1 .. Len(q) : Plain(q[i]) => Clean(Range(q[i]), m, K)

\* What is pending: while an escape sequence is collected, only the rest of a
\* character is left in the batch; a character that may go on is in the batch, and
\* the next byte goes there too.
HeldInv(e, b, prefix, K, m) ==
    /\ Ascending(e) /\ Ascending(b) /\ Range(e) \intersect Range(b) = {}
    /\ \A c \in Range(b) : c.key \notin {"E", "P"}
    /\ e # <<>> => /\ e[1].key = "E"
                   /\ \A c \in Range(b) : c.key \in Late /\ \A d \in Range(e) : c.pos < d.pos
    /\ Together(Range(b), K)
    /\ ~NoneOpen(Range(b), m, K) => e = <<>> /\ ~prefix

SentOf(st) == FlattenSeq(st.packets)
HeldBytes(st) == Range(st.esc) \union Range(st.batch)
Known(st) == Range(SentOf(st)) \union HeldBytes(st)

LoopInv(st, m) ==
    /\ st \in LoopState
    /\ Core(SentOf(st), HeldBytes(st), st.dropped, st.gone, m)
    /\ PacketsInv(st.packets, Known(st), m)
    /\ HeldInv(st.esc, st.batch, st.prefixed, Known(st), m)

-----------------------------------------------------------------------------
(* What arrives and what leaves.                                           *)

\* The places of a sequence of bytes.
LEMMA PlacesIs ==
    ASSUME NEW x \in Seq(Byte), NEW p
    PROVE  /\ p \in Places(x) <=> \E b \in Range(x) : b.pos = p
           /\ Places(x) \subseteq 1 .. MaxTyped
<1>1. DOMAIN x = 1 .. Len(x) /\ \A i \in 1 .. Len(x) : x[i] \in Byte
  OBVIOUS
<1>2. \A i \in 1 .. Len(x) : x[i].pos \in 1 .. MaxTyped
  BY <1>1, ByteTyped
<1> QED
  BY <1>1, <1>2 DEF Places, Range

\* Byte m + 1 is held.
LEMMA Arrives ==
    ASSUME NEW m \in Nat, NEW s, NEW H, NEW D, NEW G, Core(s, H, D, G, m),
           NEW c \in Byte, c.pos = m + 1
    PROVE  Core(s, H \union {c}, D, G, m + 1)
<1> DEFINE K == Range(s) \union H
           H2 == H \union {c}
<1>1. /\ s \in Seq(Byte) /\ Once(s) /\ Range(s) \intersect H = {} /\ Placed(K, m)
      /\ D \intersect G = {} /\ D \union G \subseteq 1 .. m
      /\ \A b \in K : b.pos \notin D \union G
      /\ \A p \in 1 .. m : p \in D \union G \/ \E b \in K : b.pos = p
      /\ InOrderOf(s) /\ \A b \in Range(s) : \A d \in H : b.pos > d.pos => Overtakes(b, d)
  BY DEF Core, OnceInv, OrderInv
<1>2. \A b \in K : b.pos \in Int /\ b.pos <= m
  BY <1>1, ByteTyped DEF Placed
<1>3. c \notin K /\ \A b \in Range(s) : ~(b.pos > c.pos)
  BY <1>2
<1>4. Placed(Range(s) \union H2, m + 1)
  <2>1. Placed(K \union {c}, m + 1)
    <3>1. {} \subseteq K
      OBVIOUS
    <3> HIDE DEF K
    <3> QED
      BY <1>1, <3>1, NewByte
  <2>2. K \union {c} = Range(s) \union H2
    OBVIOUS
  <2> QED
    BY <2>1, <2>2
<1>5. D \union G \subseteq 1 .. m + 1 /\ c.pos \notin D \union G
  BY <1>1
<1>6. \A p \in 1 .. m + 1 : p \in 1 .. m \/ p = c.pos
  OBVIOUS
<1>7. OnceInv(s, H2, D, G, m + 1)
  <2>1. \A b \in Range(s) \union H2 : b \in K \/ b = c
    OBVIOUS
  <2>2. \A p \in 1 .. m + 1 : p \in D \union G \/ \E b \in Range(s) \union H2 : b.pos = p
    BY <1>1, <1>6
  <2>3. \A b \in Range(s) \union H2 : b.pos \notin D \union G
    BY <1>1, <1>5, <2>1
  <2>4. Range(s) \intersect H2 = {}
    BY <1>1, <1>3
  <2> QED
    BY <1>1, <1>4, <1>5, <2>2, <2>3, <2>4 DEF OnceInv
<1>8. OrderInv(s, H2)
  BY <1>1, <1>3 DEF OrderInv
<1> QED
  BY <1>7, <1>8 DEF Core

\* x, held so far, is sent, dropped, or gone.
Leaves(x, s, D, G, s2, D2, G2) ==
    \/ s2 = s \o x /\ D2 = D /\ G2 = G
    \/ s2 = s /\ D2 = D \union Places(x) /\ G2 = G
    \/ s2 = s /\ D2 = D /\ G2 = G \union Places(x)

\* H2 is held after it was.
Without(x, H, H2) ==
    /\ H = H2 \union Range(x) /\ H2 \intersect Range(x) = {}
    /\ \A b \in Range(x) : \A c \in H2 : b.pos > c.pos => Overtakes(b, c)

\* Nothing is lost or doubled, and nothing goes out of order, when x leaves.
LEMMA Left ==
    ASSUME NEW m \in Nat, NEW s, NEW H, NEW D, NEW G, Core(s, H, D, G, m),
           NEW x \in Seq(Byte), Ascending(x), NEW H2, Without(x, H, H2),
           NEW s2, NEW D2, NEW G2, Leaves(x, s, D, G, s2, D2, G2)
    PROVE  /\ Core(s2, H2, D2, G2, m)
           /\ Range(s2) \union H2 \subseteq Range(s) \union H
<1> DEFINE K == Range(s) \union H
           K2 == Range(s2) \union H2
<1>1. /\ s \in Seq(Byte) /\ Once(s) /\ Range(s) \intersect H = {} /\ Placed(K, m)
      /\ D \intersect G = {} /\ D \union G \subseteq 1 .. m
      /\ \A b \in K : b.pos \notin D \union G
      /\ \A p \in 1 .. m : p \in D \union G \/ \E b \in K : b.pos = p
      /\ InOrderOf(s) /\ \A b \in Range(s) : \A d \in H : b.pos > d.pos => Overtakes(b, d)
  BY DEF Core, OnceInv, OrderInv
<1>2. /\ H = H2 \union Range(x) /\ H2 \intersect Range(x) = {}
      /\ \A b \in Range(x) : \A c \in H2 : b.pos > c.pos => Overtakes(b, c)
  BY DEF Without
<1>3. \A b \in K : b \in Byte /\ b.pos \in Int /\ b.pos <= m /\ b.pos \in 1 .. m
  <2>1. \A b \in K : b \in Byte /\ b.pos <= m
    BY <1>1 DEF Placed
  <2> QED
    BY <2>1, ByteTyped
<1>4. \A b, c \in K : b.pos = c.pos => b = c
  BY <1>1 DEF Placed
<1>5. \A p : p \in Places(x) <=> \E b \in Range(x) : b.pos = p
  BY PlacesIs
<1>6. CASE s2 = s \o x /\ D2 = D /\ G2 = G
  <2>1. Range(s2) = Range(s) \union Range(x) /\ K2 = K
    BY <1>1, <1>2, <1>6, RangeJoined
  <2>2. s2 \in Seq(Byte) /\ Once(s2) /\ InOrderOf(s2)
    <3>1. \A b \in Range(s) : \A c \in Range(x) : b.pos # c.pos /\ (b.pos > c.pos => Overtakes(b, c))
      BY <1>1, <1>2, <1>4
    <3> QED
      BY <1>1, <1>6, <3>1, SentGrows, RangeJoined
  <2>3. Range(s2) \intersect H2 = {}
    BY <1>1, <1>2, <2>1
  <2>4. OnceInv(s2, H2, D2, G2, m)
    BY <1>1, <1>6, <2>1, <2>2, <2>3 DEF OnceInv
  <2>5. OrderInv(s2, H2)
    BY <1>1, <1>2, <2>1, <2>2 DEF OrderInv
  <2> QED
    BY <2>1, <2>4, <2>5 DEF Core
<1>7. CASE s2 = s /\ D2 \union G2 = D \union G \union Places(x) /\ D2 \intersect G2 = {}
  <2>1. K2 \subseteq K /\ Range(s) \intersect H2 = {}
    BY <1>1, <1>2, <1>7
  <2>2. Placed(K2, m)
    BY <1>1, <2>1 DEF Placed
  <2>3. D2 \union G2 \subseteq 1 .. m
    BY <1>1, <1>2, <1>3, <1>5, <1>7
  <2>4. ASSUME NEW b \in K2, b.pos \in D2 \union G2 PROVE FALSE
    <3>1. b \in K /\ b.pos \in Places(x)
      BY <1>1, <1>7, <2>1, <2>4
    <3>2. PICK c \in Range(x) : c.pos = b.pos
      BY <1>5, <3>1
    <3>3. c = b
      BY <1>2, <1>4, <3>1, <3>2
    <3> QED
      BY <1>1, <1>2, <1>7, <3>3
  <2>5. ASSUME NEW p \in 1 .. m, p \notin D2 \union G2 PROVE \E b \in K2 : b.pos = p
    <3>1. p \notin D \union G /\ p \notin Places(x)
      BY <1>7, <2>5
    <3>2. PICK b \in K : b.pos = p
      BY <1>1, <3>1
    <3>3. b \notin Range(x)
      BY <1>5, <3>1, <3>2
    <3>4. b \in K2
      BY <1>2, <1>7, <3>2, <3>3
    <3> QED
      BY <3>2, <3>4
  <2>6. OnceInv(s2, H2, D2, G2, m)
    BY <1>1, <1>7, <2>1, <2>2, <2>3, <2>4, <2>5 DEF OnceInv
  <2>7. OrderInv(s2, H2)
    BY <1>1, <1>2, <1>7 DEF OrderInv
  <2> QED
    BY <2>1, <2>6, <2>7 DEF Core
<1>8. Places(x) \intersect (D \union G) = {}
  BY <1>1, <1>2, <1>5
<1>9. CASE s2 = s /\ (\/ D2 = D \union Places(x) /\ G2 = G
                      \/ D2 = D /\ G2 = G \union Places(x))
  BY <1>1, <1>7, <1>8, <1>9
<1> QED
  BY <1>6, <1>9 DEF Leaves

\* The same, for the packets.
LEMMA PacketSent ==
    ASSUME NEW m \in Nat, NEW q \in Seq(Seq(Byte)), NEW K, NEW K2, K2 \subseteq K,
           PacketsInv(q, K, m),
           NEW x \in Seq(Byte), x # <<>>, Range(x) \intersect Range(FlattenSeq(q)) = {},
           FlattenSeq(q) \in Seq(Byte),
           Plain(x) => Clean(Range(x), m, K)
    PROVE  PacketsInv(q, K2, m) /\ PacketsInv(Append(q, x), K2, m)
<1> DEFINE r == Append(q, x)
           s == FlattenSeq(q)
<1>1. /\ \A i \in 1 .. Len(q) : q[i] # <<>> /\ Range(q[i]) \subseteq Range(s)
      /\ \A i, j \in 1 .. Len(q) : i # j => Range(q[i]) \intersect Range(q[j]) = {}
      /\ \A i \in 1 .. Len(q) : Plain(q[i]) => Clean(Range(q[i]), m, K)
  BY DEF PacketsInv
<1>2. \A X : Clean(X, m, K) => Clean(X, m, K2)
  BY FewerKnown DEF Clean
<1>3. PacketsInv(q, K2, m)
  BY <1>1, <1>2 DEF PacketsInv
<1>4. FlattenSeq(r) = s \o x
  BY FlattenMore
<1>5. Range(FlattenSeq(r)) = Range(s) \union Range(x)
  BY <1>4, RangeJoined
<1>6. /\ Len(q) \in Nat /\ Len(r) = Len(q) + 1 /\ r[Len(q) + 1] = x
      /\ \A i \in 1 .. Len(q) : r[i] = q[i]
  BY Appended
<1>7. \A i \in 1 .. Len(r) : i \in 1 .. Len(q) \/ i = Len(q) + 1
  BY <1>6
<1> HIDE DEF r, s
<1>8. \A i \in 1 .. Len(r) : r[i] # <<>> /\ Range(r[i]) \subseteq Range(FlattenSeq(r))
  BY <1>1, <1>5, <1>6, <1>7
<1>9. ASSUME NEW i \in 1 .. Len(r), NEW j \in 1 .. Len(r), i # j
      PROVE  Range(r[i]) \intersect Range(r[j]) = {}
  <2>1. CASE i \in 1 .. Len(q) /\ j \in 1 .. Len(q)
    BY <1>1, <1>6, <1>9, <2>1
  <2>2. CASE i \in 1 .. Len(q) /\ j = Len(q) + 1
    BY <1>1, <1>6, <2>2 DEF s
  <2>3. CASE i = Len(q) + 1 /\ j \in 1 .. Len(q)
    BY <1>1, <1>6, <2>3 DEF s
  <2> QED
    BY <1>7, <1>9, <2>1, <2>2, <2>3
<1>10. \A i \in 1 .. Len(r) : Plain(r[i]) => Clean(Range(r[i]), m, K2)
  BY <1>1, <1>2, <1>6, <1>7
<1> QED
  BY <1>3, <1>8, <1>9, <1>10 DEF PacketsInv, r

-----------------------------------------------------------------------------
(* The operations on the loop keep the invariant.                          *)

\* The empty sequence.
LEMMA NothingHeld == Ascending(<<>>) /\ Range(<<>>) = {}
<1>1. Len(<<>>) = 0 /\ DOMAIN <<>> = {}
  OBVIOUS
<1> QED
  BY <1>1 DEF Ascending, Range

\* The loop with another batch, or another escape sequence.
LEMMA LoopUpdates ==
    ASSUME NEW st \in LoopState, NEW x \in Seq(Byte)
    PROVE  /\ [st EXCEPT !.esc = x] \in LoopState /\ [st EXCEPT !.batch = x] \in LoopState
           /\ [st EXCEPT !.esc = x].esc = x /\ [st EXCEPT !.batch = x].batch = x
           /\ [st EXCEPT !.esc = x].batch = st.batch /\ [st EXCEPT !.batch = x].esc = st.esc
           /\ [st EXCEPT !.esc = x].packets = st.packets /\ [st EXCEPT !.batch = x].packets = st.packets
           /\ [st EXCEPT !.esc = x].dropped = st.dropped /\ [st EXCEPT !.batch = x].dropped = st.dropped
           /\ [st EXCEPT !.esc = x].gone = st.gone /\ [st EXCEPT !.batch = x].gone = st.gone
           /\ [st EXCEPT !.esc = x].prefixed = st.prefixed /\ [st EXCEPT !.batch = x].prefixed = st.prefixed
           /\ [st EXCEPT !.esc = x].ended = st.ended /\ [st EXCEPT !.batch = x].ended = st.ended
  BY DEF LoopState

\* t is st after x has been given to sendInputBytes.
After(st, x, t) ==
    /\ t \in LoopState
    /\ \/ t.packets = Append(st.packets, x) /\ t.dropped = st.dropped /\ t.gone = st.gone
       \/ t.packets = st.packets /\ t.dropped = st.dropped \union Places(x) /\ t.gone = st.gone
       \/ t.packets = st.packets /\ t.dropped = st.dropped /\ t.gone = st.gone \union Places(x)

\* The three outcomes of sendInputBytes.
LEMMA SendInputBytesSends ==
    ASSUME NEW st \in LoopState, NEW x \in Seq(Byte)
    PROVE  /\ After(st, x, SendInputBytes(st, x))
           /\ SendInputBytes(st, x).esc = st.esc /\ SendInputBytes(st, x).batch = st.batch
           /\ SendInputBytes(st, x).prefixed = st.prefixed /\ SendInputBytes(st, x).ended = st.ended
<1>1. Places(x) \subseteq 1 .. MaxTyped
  BY PlacesIs
<1>2. Append(st.packets, x) \in Seq(Seq(Byte))
  <2>1. st.packets \in Seq(Seq(Byte))
    BY DEF LoopState
  <2> QED
    BY <2>1, Appended
<1>3. CASE readOnly
  <2>1. SendInputBytes(st, x) = [st EXCEPT !.gone = @ \union Places(x)]
    BY <1>3 DEF SendInputBytes
  <2> QED
    BY <1>1, <2>1 DEF After, LoopState
<1>4. CASE ~readOnly /\ link
  <2>1. SendInputBytes(st, x) = [st EXCEPT !.packets = Append(@, x)]
    BY <1>4 DEF SendInputBytes
  <2> QED
    BY <1>2, <2>1 DEF After, LoopState
<1>5. CASE ~readOnly /\ ~link
  <2>1. SendInputBytes(st, x) = [st EXCEPT !.dropped = @ \union Places(x)]
    BY <1>5 DEF SendInputBytes
  <2> QED
    BY <1>1, <2>1 DEF After, LoopState
<1> QED
  BY <1>3, <1>4, <1>5

\* x, of what was held in H, may be sent: it is an escape sequence, or cuts no character.
MaySend(st, H, K, x, H2, m) ==
    /\ K = Range(SentOf(st)) \union H
    /\ Core(SentOf(st), H, st.dropped, st.gone, m) /\ PacketsInv(st.packets, K, m)
    /\ x \in Seq(Byte) /\ x # <<>> /\ Ascending(x) /\ Without(x, H, H2)
    /\ Plain(x) => Clean(Range(x), m, K)

\* After x has been given to sendInputBytes.
LEMMA Sends ==
    ASSUME NEW m \in Nat, NEW st \in LoopState, NEW H, NEW K, NEW x, NEW H2,
           MaySend(st, H, K, x, H2, m),
           NEW t, After(st, x, t), NEW K2, K2 = Range(SentOf(t)) \union H2
    PROVE  /\ Core(SentOf(t), H2, t.dropped, t.gone, m)
           /\ PacketsInv(t.packets, K2, m)
           /\ K2 \subseteq K
<1> DEFINE s == SentOf(st)
           s2 == SentOf(t)
           q == st.packets
<1> USE DEF MaySend
<1>1. q \in Seq(Seq(Byte))
  BY DEF LoopState
<1>2. FlattenSeq(Append(q, x)) = s \o x
  BY <1>1, FlattenMore DEF SentOf
<1>3. Leaves(x, s, st.dropped, st.gone, s2, t.dropped, t.gone)
  BY <1>2 DEF Leaves, After, SentOf
<1>4. Core(s2, H2, t.dropped, t.gone, m) /\ K2 \subseteq K
  BY <1>3, Left
<1>5. Range(x) \intersect Range(s) = {} /\ s \in Seq(Byte)
  BY DEF Core, OnceInv, Without
<1>6. PacketsInv(q, K2, m) /\ PacketsInv(Append(q, x), K2, m)
  BY <1>1, <1>4, <1>5, PacketSent DEF SentOf
<1>7. t.packets = q \/ t.packets = Append(q, x)
  BY DEF After
<1> QED
  BY <1>4, <1>6, <1>7

\* flushEscBatch
LEMMA FlushEscBatchKeeps ==
    ASSUME NEW m \in Nat, NEW st, LoopInv(st, m)
    PROVE  /\ LoopInv(FlushEscBatch(st), m) /\ FlushEscBatch(st).esc = <<>>
           /\ FlushEscBatch(st).ended = st.ended
           /\ FlushEscBatch(st).prefixed = st.prefixed
<1> DEFINE t == FlushEscBatch(st)
           e == st.esc
           b == st.batch
           K == Known(st)
<1>1. CASE e = <<>>
  BY <1>1 DEF FlushEscBatch
<1>2. CASE e # <<>>
  <2> DEFINE u == SendInputBytes(st, e)
  <2>1. /\ st \in LoopState /\ e \in Seq(Byte) /\ b \in Seq(Byte)
        /\ Core(SentOf(st), HeldBytes(st), st.dropped, st.gone, m)
        /\ PacketsInv(st.packets, K, m) /\ HeldInv(e, b, st.prefixed, K, m)
    BY DEF LoopInv, LoopState
  <2>2. t = [u EXCEPT !.esc = <<>>]
    BY <1>2 DEF FlushEscBatch
  <2>3. /\ After(st, e, u) /\ u.esc = e /\ u.batch = b
        /\ u.prefixed = st.prefixed /\ u.ended = st.ended
    BY <2>1, SendInputBytesSends
  <2>4. /\ t \in LoopState /\ t.esc = <<>> /\ t.batch = b /\ t.packets = u.packets
        /\ t.dropped = u.dropped /\ t.gone = u.gone
        /\ t.prefixed = st.prefixed /\ t.ended = st.ended
    <3>1. <<>> \in Seq(Byte) /\ u \in LoopState
      BY <2>3 DEF After
    <3> HIDE DEF u, t, e, b
    <3> QED
      BY <2>2, <2>3, <3>1, LoopUpdates
  <2> HIDE DEF t, u
  <2>5. After(st, e, t)
    BY <2>3, <2>4 DEF After
  <2>6. HeldBytes(st) = Range(e) \union Range(b) /\ HeldBytes(t) = Range(b) /\ Known(t) = Range(SentOf(t)) \union Range(b)
    BY <2>4, NothingHeld DEF HeldBytes, Known
  <2>7. /\ Ascending(e) /\ Ascending(b) /\ Range(e) \intersect Range(b) = {} /\ e[1].key = "E"
        /\ \A c \in Range(b) : c.key \notin {"E", "P"} /\ c.key \in Late
        /\ Together(Range(b), K) /\ NoneOpen(Range(b), m, K)
    BY <1>2, <2>1 DEF HeldInv
  <2>8. Without(e, HeldBytes(st), Range(b))
    BY <2>6, <2>7 DEF Without, Overtakes
  <2>9. ~Plain(e)
    BY <2>7 DEF Plain
  <2>10. K = Range(SentOf(st)) \union HeldBytes(st)
    BY DEF Known
  <2> DEFINE H == HeldBytes(st)
             H2 == Range(b)
             K2 == Range(SentOf(t)) \union H2
  <2>15. st \in LoopState
    BY <2>1
  <2>12. Core(SentOf(st), H, st.dropped, st.gone, m) /\ K = Range(SentOf(st)) \union H /\ Without(e, H, H2)
    BY <2>1, <2>8, <2>10
  <2>13. K2 = Range(SentOf(t)) \union H2
    OBVIOUS
  <2> HIDE DEF e, K, H, H2, K2, b
  <2>18. MaySend(st, H, K, e, H2, m)
    BY <1>2, <2>1, <2>7, <2>9, <2>12 DEF MaySend
  <2>14. /\ Core(SentOf(t), H2, t.dropped, t.gone, m)
         /\ PacketsInv(t.packets, K2, m)
         /\ K2 \subseteq K
    BY <2>15, <2>5, <2>13, <2>18, Sends
  <2>11. /\ Core(SentOf(t), HeldBytes(t), t.dropped, t.gone, m)
         /\ PacketsInv(t.packets, Known(t), m)
         /\ Known(t) \subseteq K
    BY <2>6, <2>14 DEF H2, K2
  <2>16. Together(Range(b), Known(t)) /\ NoneOpen(Range(b), m, Known(t))
    BY <2>7, <2>11, FewerKnown
  <2>17. HeldInv(t.esc, t.batch, t.prefixed, Known(t), m)
    BY <2>4, <2>7, <2>16, NothingHeld DEF HeldInv
  <2> QED
    BY <2>4, <2>11, <2>17 DEF LoopInv, t
<1> QED
  BY <1>1, <1>2

\* flushInputBatch
LEMMA FlushInputBatchKeeps ==
    ASSUME NEW m \in Nat, NEW st, LoopInv(st, m)
    PROVE  /\ LoopInv(FlushInputBatch(st), m) /\ FlushInputBatch(st).esc = st.esc
           /\ FlushInputBatch(st).ended = st.ended
           /\ FlushInputBatch(st).prefixed = st.prefixed
           /\ \A c \in Range(FlushInputBatch(st).batch) : c.key \in Late
<1> DEFINE t == FlushInputBatch(st)
           e == st.esc
           b == st.batch
           K == Known(st)
           k == Utf8IncompleteTrail(b)
           x == SubSeq(b, 1, Len(b) - k)
           y == SubSeq(b, Len(b) - k + 1, Len(b))
           u == IF x = <<>> THEN st ELSE SendInputBytes(st, x)
<1>1. /\ st \in LoopState /\ e \in Seq(Byte) /\ b \in Seq(Byte)
      /\ Core(SentOf(st), HeldBytes(st), st.dropped, st.gone, m)
      /\ PacketsInv(st.packets, K, m) /\ HeldInv(e, b, st.prefixed, K, m)
  BY DEF LoopInv, LoopState
<1>2. CutAt(b, x, y)
  BY DEF CutAt
<1>3. t = [u EXCEPT !.batch = SubSeq(@, Len(b) - k + 1, Len(b))]
  BY DEF FlushInputBatch
<1>4. K = Range(SentOf(st)) \union HeldBytes(st) /\ HeldBytes(st) = Range(e) \union Range(b)
  BY DEF Known, HeldBytes
<1>5. /\ Ascending(e) /\ Ascending(b) /\ Range(e) \intersect Range(b) = {}
      /\ \A c \in Range(b) : c.key \notin {"E", "P"}
      /\ e # <<>> => /\ e[1].key = "E"
                     /\ \A c \in Range(b) : c.key \in Late /\ \A d \in Range(e) : c.pos < d.pos
      /\ Together(Range(b), K)
      /\ ~NoneOpen(Range(b), m, K) => e = <<>> /\ ~st.prefixed
  BY <1>1 DEF HeldInv
<1>6. Placed(K, m) /\ Range(b) \subseteq K
  BY <1>1, <1>4 DEF Core, OnceInv
<1> HIDE DEF K
<1>7. /\ x \in Seq(Byte) /\ Ascending(x) /\ y \in Seq(Byte) /\ Ascending(y)
      /\ Range(b) = Range(x) \union Range(y)
      /\ \A c \in Range(x) : \A d \in Range(y) : c.pos < d.pos
      /\ \A c \in Range(y) : c.key \in Late
  <2> HIDE DEF b, x, y
  <2> QED
    BY <1>1, <1>2, <1>5, CutTyped
<1>8. /\ Together(Range(x), K) /\ Together(Range(y), K) /\ NoneOpen(Range(x), m, K)
  <2> HIDE DEF b, x, y
  <2> QED
    BY <1>1, <1>2, <1>5, <1>6, CutClean
<1>9. /\ u \in LoopState /\ u.esc = e /\ u.batch = b
      /\ u.prefixed = st.prefixed /\ u.ended = st.ended
      /\ x # <<>> => After(st, x, u)
      /\ x = <<>> => u = st
  <2>1. CASE x = <<>>
    BY <1>1, <2>1
  <2>2. CASE x # <<>>
    <3>1. u = SendInputBytes(st, x)
      BY <2>2
    <3> HIDE DEF u, x
    <3> QED
      BY <1>1, <1>7, <2>2, <3>1, SendInputBytesSends DEF After
  <2> QED
    BY <2>1, <2>2
<1>10. t = [u EXCEPT !.batch = y]
  <2>1. u.batch = b
    BY <1>9
  <2> HIDE DEF u, b, k
  <2> QED
    BY <1>3, <2>1
<1> HIDE DEF u, t, x, y
<1>11. /\ t \in LoopState /\ t.esc = e /\ t.batch = y /\ t.packets = u.packets
       /\ t.dropped = u.dropped /\ t.gone = u.gone
       /\ t.prefixed = st.prefixed /\ t.ended = st.ended
  BY <1>7, <1>9, <1>10, LoopUpdates
<1>12. HeldBytes(t) = Range(e) \union Range(y) /\ Known(t) = Range(SentOf(t)) \union (Range(e) \union Range(y))
  BY <1>11 DEF HeldBytes, Known
<1>13. /\ Core(SentOf(t), HeldBytes(t), t.dropped, t.gone, m)
       /\ PacketsInv(t.packets, Known(t), m)
       /\ Known(t) \subseteq K
  <2>1. CASE x = <<>>
    <3>1. Range(b) = Range(y)
      BY <1>7, <2>1, NothingHeld
    <3>2. HeldBytes(t) = HeldBytes(st) /\ SentOf(t) = SentOf(st) /\ Known(t) = K
      BY <1>4, <1>9, <1>11, <1>12, <2>1, <3>1 DEF SentOf
    <3> QED
      BY <1>1, <1>9, <1>11, <2>1, <3>2
  <2>2. CASE x # <<>>
    <3> DEFINE H == HeldBytes(st)
               H2 == Range(e) \union Range(y)
               K2 == Range(SentOf(t)) \union H2
    <3>1. After(st, x, t)
      BY <1>9, <1>11, <2>2 DEF After
    <3>2. Without(x, H, H2)
      <4>1. \A c \in Range(x) : c \in Byte /\ c.pos \in Int
        BY <1>7, RangeJoined, ByteTyped
      <4>2. \A d \in Range(y) : d \in Byte /\ d.pos \in Int
        BY <1>7, RangeJoined, ByteTyped
      <4>3. \A d \in Range(e) : d \in Byte /\ d.pos \in Int
        BY <1>1, RangeJoined, ByteTyped
      <4>4. \A c \in Range(x) : \A d \in Range(y) : c # d /\ ~(c.pos > d.pos)
        BY <1>7, <4>1, <4>2
      <4>5. \A d \in Range(e) : e # <<>>
        BY NothingHeld
      <4>6. \A c \in Range(x) : \A d \in Range(e) : c # d /\ ~(c.pos > d.pos)
        BY <1>5, <1>7, <4>1, <4>3, <4>5
      <4>7. H = H2 \union Range(x)
        BY <1>4, <1>7
      <4> QED
        BY <4>4, <4>6, <4>7 DEF Without
    <3>3. K = Range(SentOf(st)) \union H /\ K2 = Range(SentOf(t)) \union H2
      BY <1>4
    <3>4. MaySend(st, H, K, x, H2, m)
      <4>1. Clean(Range(x), m, K)
        BY <1>8 DEF Clean
      <4> QED
        BY <1>1, <1>4, <1>7, <2>2, <3>2, <4>1 DEF MaySend
    <3> HIDE DEF H, H2, K2
    <3>5. st \in LoopState
      BY <1>1
    <3>6. /\ Core(SentOf(t), H2, t.dropped, t.gone, m)
          /\ PacketsInv(t.packets, K2, m)
          /\ K2 \subseteq K
      BY <3>1, <3>3, <3>4, <3>5, Sends
    <3> QED
      BY <1>12, <3>6 DEF H2, K2
  <2> QED
    BY <2>1, <2>2
<1>14. Together(Range(y), Known(t)) /\ (NoneOpen(Range(y), m, K) => NoneOpen(Range(y), m, Known(t)))
  BY <1>8, <1>13, FewerKnown
<1>15. NoneOpen(Range(b), m, K) => NoneOpen(Range(y), m, K)
  BY <1>7 DEF NoneOpen
<1>16. HeldInv(t.esc, t.batch, t.prefixed, Known(t), m)
  BY <1>5, <1>7, <1>11, <1>14, <1>15 DEF HeldInv
<1> QED
  BY <1>7, <1>11, <1>13, <1>16 DEF LoopInv, t

\* Byte m + 1 is a command, or comes after the client's end.
LEMMA ByteGone ==
    ASSUME NEW m \in Nat, NEW st, LoopInv(st, m), NEW b \in Byte, b.pos = m + 1,
           NEW t \in LoopState, t.esc = st.esc, t.batch = st.batch, t.packets = st.packets,
           t.dropped = st.dropped, t.gone = st.gone \union {b.pos}
    PROVE  LoopInv(t, m + 1)
<1> DEFINE H == HeldBytes(st)
           K == Known(st)
           s == SentOf(st)
<1>1. /\ st \in LoopState /\ Core(s, H, st.dropped, st.gone, m)
      /\ PacketsInv(st.packets, K, m) /\ HeldInv(st.esc, st.batch, st.prefixed, K, m)
  BY DEF LoopInv
<1>2. SentOf(t) = s /\ HeldBytes(t) = H /\ Known(t) = K /\ K = Range(s) \union H
  BY DEF SentOf, HeldBytes, Known
<1>3. Placed(K, m) /\ Range(st.batch) \subseteq K
  BY <1>1, <1>2 DEF Core, OnceInv, HeldBytes
<1>4. \A X : X \subseteq K => NoneOpen(X, m + 1, K)
  BY <1>3, NoByte
<1> HIDE DEF s, H, K
<1>5. Core(s, H, t.dropped, t.gone, m + 1)
  <2>1. /\ s \in Seq(Byte) /\ Once(s) /\ Range(s) \intersect H = {} /\ Placed(K, m)
        /\ st.dropped \intersect st.gone = {} /\ st.dropped \union st.gone \subseteq 1 .. m
        /\ \A c \in K : c.pos \notin st.dropped \union st.gone
        /\ \A p \in 1 .. m : p \in st.dropped \union st.gone \/ \E c \in K : c.pos = p
        /\ OrderInv(s, H)
    BY <1>1, <1>2 DEF Core, OnceInv
  <2>2. \A c \in K : c.pos \in Int /\ c.pos <= m /\ c.pos <= m + 1 /\ c.pos # b.pos
    BY <1>3, ByteTyped DEF Placed
  <2>3. Placed(K, m + 1)
    BY <1>3, <2>2 DEF Placed
  <2>4. b.pos \in 1 .. m + 1 /\ b.pos \notin st.dropped /\ \A p \in 1 .. m + 1 : p \in 1 .. m \/ p = b.pos
    BY <2>1
  <2>5. 1 .. m \subseteq 1 .. m + 1
    OBVIOUS
  <2>6. OnceInv(s, H, t.dropped, t.gone, m + 1)
    BY <1>2, <2>1, <2>2, <2>3, <2>4, <2>5 DEF OnceInv
  <2> QED
    BY <2>1, <2>6 DEF Core
<1>6. \A X : X \subseteq K /\ Clean(X, m, K) => Clean(X, m + 1, K)
  BY <1>4 DEF Clean
<1>7. \A i \in 1 .. Len(st.packets) : Range(st.packets[i]) \subseteq K
  BY <1>1, <1>2 DEF PacketsInv, SentOf, s
<1>8. PacketsInv(t.packets, K, m + 1)
  BY <1>1, <1>6, <1>7 DEF PacketsInv
<1>9. HeldInv(t.esc, t.batch, t.prefixed, K, m + 1)
  BY <1>1, <1>3, <1>4 DEF HeldInv
<1> QED
  BY <1>2, <1>5, <1>8, <1>9 DEF LoopInv

\* Byte m + 1 arrives.
LEMMA ByteArrives ==
    ASSUME NEW m \in Nat, NEW st, LoopInv(st, m), NEW c \in Byte, c.pos = m + 1,
           NEW K2, K2 = Known(st) \union {c}
    PROVE  /\ Core(SentOf(st), HeldBytes(st) \union {c}, st.dropped, st.gone, m + 1)
           /\ PacketsInv(st.packets, K2, m + 1)
           /\ Together(Range(st.batch) \union {c}, K2)
           /\ (st.esc # <<>> \/ st.prefixed \/ c.key # "C") => Clean(Range(st.batch), m + 1, K2)
           /\ \A d \in HeldBytes(st) : d.pos < c.pos
           /\ c.key = "P" => Clean({c}, m + 1, K2)
           /\ c \notin Known(st)
<1> DEFINE H == HeldBytes(st)
           K == Known(st)
           s == SentOf(st)
           B == Range(st.batch)
<1>1. /\ Core(s, H, st.dropped, st.gone, m)
      /\ PacketsInv(st.packets, K, m) /\ HeldInv(st.esc, st.batch, st.prefixed, K, m)
      /\ K = Range(s) \union H /\ B \subseteq H
  BY DEF LoopInv, Known, HeldBytes
<1>2. Placed(K, m) /\ B \subseteq K /\ H \subseteq K
  BY <1>1 DEF Core, OnceInv
<1>3. \A i \in 1 .. Len(st.packets) : Range(st.packets[i]) \subseteq K
  BY <1>1 DEF PacketsInv, SentOf
<1>4. /\ Together(B, K) /\ (~NoneOpen(B, m, K) => st.esc = <<>> /\ ~st.prefixed)
      /\ \A i \in 1 .. Len(st.packets) : Plain(st.packets[i]) => Clean(Range(st.packets[i]), m, K)
      /\ \A i \in 1 .. Len(st.packets) : st.packets[i] # <<>> /\ Range(st.packets[i]) \subseteq Range(s)
      /\ \A i, j \in 1 .. Len(st.packets) : i # j => Range(st.packets[i]) \intersect Range(st.packets[j]) = {}
  BY <1>1 DEF HeldInv, PacketsInv, SentOf
<1> HIDE DEF H, K, B, s
<1>5. Core(s, H \union {c}, st.dropped, st.gone, m + 1)
  BY <1>1, Arrives
<1>6. K2 = K \union {c}
  BY DEF K
<1>7. \A X : X \subseteq K /\ Clean(X, m, K) => Clean(X, m + 1, K2)
  BY <1>2, <1>6, NewByte DEF Clean
<1>8. PacketsInv(st.packets, K2, m + 1)
  BY <1>3, <1>4, <1>7 DEF PacketsInv, SentOf, s
<1>9. Together(B \union {c}, K2)
  BY <1>2, <1>4, <1>6, NewByte
<1>10. c.key # "C" => Together(B, K2) /\ NoneOpen(B, m + 1, K2)
  BY <1>2, <1>4, <1>6, NewByte
<1>11. (st.esc # <<>> \/ st.prefixed \/ c.key # "C") => Clean(B, m + 1, K2)
  BY <1>2, <1>4, <1>7, <1>10 DEF Clean
<1>12. \A d \in K : d.pos \in Int /\ d.pos <= m /\ d.pos < c.pos /\ d # c
  BY <1>2, ByteTyped DEF Placed
<1>13. ASSUME c.key = "P" PROVE Clean({c}, m + 1, K2)
  <2>1. ASSUME NEW d \in K2, c.pos < d.pos PROVE FALSE
    BY <1>6, <1>12, <2>1
  <2>2. Together({c}, K2)
    BY <2>1 DEF Together
  <2>3. ~Open(c, m + 1, K2)
    BY <1>13 DEF Open, Reaches, Lead
  <2> QED
    BY <2>2, <2>3 DEF Clean, NoneOpen
<1> QED
  BY <1>2, <1>5, <1>8, <1>9, <1>11, <1>12, <1>13 DEF H, K, B, s

\* It goes on with the escape sequence, or begins one.
LEMMA ByteOfEsc ==
    ASSUME NEW m \in Nat, NEW st, LoopInv(st, m), NEW c \in Byte, c.pos = m + 1,
           NEW t \in LoopState, t.esc = Append(st.esc, c), t.batch = st.batch,
           t.packets = st.packets, t.dropped = st.dropped, t.gone = st.gone,
           st.esc = <<>> => c.key = "E" /\ \A d \in Range(st.batch) : d.key \in Late
    PROVE  LoopInv(t, m + 1)
<1> DEFINE H == HeldBytes(st)
           K2 == Known(st) \union {c}
           e == st.esc
           B == Range(st.batch)
<1>1. /\ st \in LoopState /\ e \in Seq(Byte) /\ HeldInv(e, st.batch, st.prefixed, Known(st), m)
  BY DEF LoopInv, LoopState
<1>2. /\ Core(SentOf(st), H \union {c}, st.dropped, st.gone, m + 1)
      /\ PacketsInv(st.packets, K2, m + 1)
      /\ \A d \in H : d.pos < c.pos
      /\ (e # <<>> \/ c.key # "C") => Clean(B, m + 1, K2)
      /\ c \notin Known(st)
  BY ByteArrives
<1>3. /\ Ascending(e) /\ Ascending(st.batch) /\ Range(e) \intersect B = {}
      /\ \A d \in B : d.key \notin {"E", "P"}
      /\ e # <<>> => /\ e[1].key = "E"
                     /\ \A d \in B : d.key \in Late /\ \A a \in Range(e) : d.pos < a.pos
  BY <1>1 DEF HeldInv
<1>4. H = Range(e) \union B /\ H \subseteq Known(st)
  BY DEF HeldBytes, Known
<1>5. Ascending(t.esc) /\ Range(t.esc) = Range(e) \union {c}
  BY <1>1, <1>2, <1>3, <1>4, AscendingMore
<1>6. t.esc # <<>> /\ t.esc[1].key = "E"
  <2>1. /\ Len(e) \in Nat /\ Len(t.esc) = Len(e) + 1 /\ t.esc[Len(e) + 1] = c
        /\ \A i \in 1 .. Len(e) : t.esc[i] = e[i]
    BY <1>1, Appended
  <2>2. CASE e = <<>>
    <3>1. Len(e) = 0
      BY <2>2
    <3> QED
      BY <2>1, <2>2, <3>1
  <2>3. CASE e # <<>>
    <3>1. 1 \in 1 .. Len(e)
      BY <1>1, <2>3
    <3> QED
      BY <1>3, <2>1, <2>3, <3>1
  <2> QED
    BY <2>2, <2>3
<1>7. SentOf(t) = SentOf(st) /\ HeldBytes(t) = H \union {c} /\ Known(t) = K2
  BY <1>4, <1>5 DEF SentOf, HeldBytes, Known
<1>8. Clean(B, m + 1, K2)
  BY <1>2
<1>9. \A d \in B : d.key \in Late /\ \A a \in Range(t.esc) : d.pos < a.pos
  <2>1. \A d \in B : d.key \in Late
    BY <1>3
  <2>2. \A d \in B : d.pos < c.pos
    BY <1>2, <1>4
  <2>3. ASSUME NEW d \in B, NEW a \in Range(e) PROVE d.pos < a.pos
    <3>1. e # <<>>
      BY NothingHeld
    <3> QED
      BY <1>3, <3>1
  <2> QED
    BY <1>5, <2>1, <2>2, <2>3
<1>10. Range(t.esc) \intersect B = {}
  BY <1>2, <1>3, <1>4, <1>5
<1> HIDE DEF K2
<1>11. HeldInv(t.esc, t.batch, t.prefixed, K2, m + 1)
  BY <1>3, <1>5, <1>6, <1>8, <1>9, <1>10 DEF HeldInv, Clean
<1> QED
  BY <1>2, <1>7, <1>11 DEF LoopInv

\* It is plain input.
LEMMA ByteOfBatch ==
    ASSUME NEW m \in Nat, NEW st, LoopInv(st, m), NEW c \in Byte, c.pos = m + 1,
           st.esc = <<>>, ~st.prefixed, c.key \notin {"E", "P"},
           NEW t \in LoopState, t.batch = Append(st.batch, c), t.esc = st.esc,
           t.prefixed = st.prefixed,
           t.packets = st.packets, t.dropped = st.dropped, t.gone = st.gone
    PROVE  LoopInv(t, m + 1)
<1> DEFINE H == HeldBytes(st)
           K2 == Known(st) \union {c}
           B == Range(st.batch)
<1>1. /\ st \in LoopState /\ st.batch \in Seq(Byte)
      /\ HeldInv(st.esc, st.batch, st.prefixed, Known(st), m)
  BY DEF LoopInv, LoopState
<1>2. /\ Core(SentOf(st), H \union {c}, st.dropped, st.gone, m + 1)
      /\ PacketsInv(st.packets, K2, m + 1)
      /\ \A d \in H : d.pos < c.pos
      /\ Together(B \union {c}, K2)
  BY ByteArrives
<1>3. Ascending(st.batch) /\ \A d \in B : d.key \notin {"E", "P"}
  BY <1>1 DEF HeldInv
<1>4. H = B /\ Range(st.esc) = {}
  BY NothingHeld DEF HeldBytes
<1>5. Ascending(t.batch) /\ Range(t.batch) = B \union {c}
  BY <1>1, <1>2, <1>3, <1>4, AscendingMore
<1>6. SentOf(t) = SentOf(st) /\ HeldBytes(t) = H \union {c} /\ Known(t) = K2
  BY <1>4, <1>5 DEF SentOf, HeldBytes, Known
<1> HIDE DEF K2
<1>7. HeldInv(t.esc, t.batch, t.prefixed, K2, m + 1)
  BY <1>2, <1>3, <1>4, <1>5, NothingHeld DEF HeldInv
<1> QED
  BY <1>2, <1>6, <1>7 DEF LoopInv

\* It is the prefix key, doubled, and is sent at once.
LEMMA ByteDoubled ==
    ASSUME NEW m \in Nat, NEW st, LoopInv(st, m), NEW c \in Byte, c.pos = m + 1, c.key = "P",
           NEW t, After(st, <<c>>, t), t.esc = st.esc, t.batch = st.batch
    PROVE  LoopInv(t, m + 1)
<1> DEFINE H == HeldBytes(st)
           H1 == H \union {c}
           K1 == Known(st) \union {c}
           K2 == Known(t)
           x == <<c>>
<1>1. /\ st \in LoopState /\ HeldInv(st.esc, st.batch, st.prefixed, Known(st), m)
  BY DEF LoopInv
<1>2. /\ Core(SentOf(st), H1, st.dropped, st.gone, m + 1)
      /\ PacketsInv(st.packets, K1, m + 1)
      /\ Clean(Range(st.batch), m + 1, K1) /\ Clean({c}, m + 1, K1)
      /\ c \notin Known(st)
  BY ByteArrives
<1>3. x \in Seq(Byte) /\ Range(x) = {c} /\ Ascending(x) /\ x # <<>>
  BY RangeSmall DEF Ascending
<1>4. K1 = Range(SentOf(st)) \union H1 /\ HeldBytes(t) = H /\ K2 = Range(SentOf(t)) \union H
      /\ H \subseteq Known(st)
  BY DEF Known, HeldBytes
<1> HIDE DEF H, K1, K2, x
<1>5. Without(x, H1, H)
  BY <1>2, <1>3, <1>4 DEF Without, Overtakes
<1>6. MaySend(st, H1, K1, x, H, m + 1)
  BY <1>2, <1>3, <1>4, <1>5 DEF MaySend
<1>7. m + 1 \in Nat /\ After(st, x, t) /\ t \in LoopState
  BY DEF After, x
<1> HIDE DEF H1
<1>8. /\ Core(SentOf(t), H, t.dropped, t.gone, m + 1)
      /\ PacketsInv(t.packets, K2, m + 1)
      /\ K2 \subseteq K1
  <2> DEFINE l == m + 1
  <2>1. l \in Nat /\ MaySend(st, H1, K1, x, H, l)
    BY <1>6, <1>7
  <2> HIDE DEF l
  <2>2. /\ Core(SentOf(t), H, t.dropped, t.gone, l)
        /\ PacketsInv(t.packets, K2, l)
        /\ K2 \subseteq K1
    BY <1>1, <1>4, <1>7, <2>1, Sends
  <2> QED
    BY <2>2 DEF l
<1>9. Together(Range(st.batch), K2) /\ NoneOpen(Range(st.batch), m + 1, K2)
  BY <1>2, <1>8, FewerKnown DEF Clean
<1>10. HeldInv(t.esc, t.batch, t.prefixed, K2, m + 1)
  BY <1>1, <1>9 DEF HeldInv
<1> QED
  BY <1>4, <1>7, <1>8, <1>10 DEF LoopInv, K2

-----------------------------------------------------------------------------
(* The keyboard loop keeps the invariant.                                  *)

\* The byte after the prefix key.
LEMMA CommandKeeps ==
    ASSUME NEW m \in Nat, NEW st, LoopInv(st, m), NEW b \in Byte, b.pos = m + 1
    PROVE  LoopInv(Command(st, b), m + 1)
<1> DEFINE s == [st EXCEPT !.prefixed = FALSE]
<1>1. st \in LoopState /\ b.pos \in 1 .. MaxTyped
  BY ByteTyped DEF LoopInv
<1>2. /\ s \in LoopState /\ s.esc = st.esc /\ s.batch = st.batch /\ s.packets = st.packets
      /\ s.dropped = st.dropped /\ s.gone = st.gone
  BY <1>1 DEF LoopState
<1> HIDE DEF s
<1>3. CASE b.key = "."
  <2> DEFINE t == [s EXCEPT !.ended = "detach", !.gone = @ \union {b.pos}]
  <2>1. Command(st, b) = t
    BY <1>3 DEF Command, s
  <2>2. /\ t \in LoopState /\ t.esc = s.esc /\ t.batch = s.batch /\ t.packets = s.packets
        /\ t.dropped = s.dropped /\ t.gone = s.gone \union {b.pos}
    BY <1>1, <1>2 DEF LoopState
  <2> HIDE DEF t
  <2> QED
    BY <1>2, <2>1, <2>2, ByteGone
<1>4. CASE b.key = "P"
  <2> DEFINE u == SendInputBytes(s, <<b>>)
  <2>1. Command(st, b) = IF link \/ readOnly THEN u ELSE [u EXCEPT !.ended = "error"]
    BY <1>4 DEF Command, s
  <2>2. <<b>> \in Seq(Byte)
    BY RangeSmall
  <2>3. /\ After(s, <<b>>, u) /\ u.esc = s.esc /\ u.batch = s.batch
    BY <1>2, <2>2, SendInputBytesSends
  <2> HIDE DEF u
  <2> DEFINE t == [u EXCEPT !.ended = "error"]
  <2>4. /\ t \in LoopState /\ t.esc = u.esc /\ t.batch = u.batch /\ t.packets = u.packets
        /\ t.dropped = u.dropped /\ t.gone = u.gone
    <3>1. u \in LoopState
      BY <2>3 DEF After
    <3> QED
      BY <3>1 DEF LoopState
  <2> HIDE DEF t
  <2>5. After(st, <<b>>, u) /\ After(st, <<b>>, t)
    BY <1>2, <2>3, <2>4 DEF After
  <2>6. LoopInv(u, m + 1) /\ LoopInv(t, m + 1)
    BY <1>2, <1>4, <2>3, <2>4, <2>5, ByteDoubled
  <2> QED
    BY <2>1, <2>6 DEF t
<1>5. CASE b.key # "." /\ b.key # "P"
  <2> DEFINE t == [s EXCEPT !.gone = @ \union {b.pos}]
  <2>1. Command(st, b) = t
    BY <1>5 DEF Command, s
  <2>2. /\ t \in LoopState /\ t.esc = s.esc /\ t.batch = s.batch /\ t.packets = s.packets
        /\ t.dropped = s.dropped /\ t.gone = s.gone \union {b.pos}
    BY <1>1, <1>2 DEF LoopState
  <2> HIDE DEF t
  <2> QED
    BY <1>2, <2>1, <2>2, ByteGone
<1> QED
  BY <1>3, <1>4, <1>5

\* ESC: all that is pending goes first.
LEMMA StartEscKeeps ==
    ASSUME NEW m \in Nat, NEW st, LoopInv(st, m), NEW b \in Byte, b.pos = m + 1, b.key = "E"
    PROVE  LoopInv(StartEsc(st, b), m + 1)
<1> DEFINE u == FlushEscBatch(st)
           v == FlushInputBatch(u)
           t == [v EXCEPT !.esc = <<b>>]
<1>1. StartEsc(st, b) = t
  BY DEF StartEsc
<1>2. LoopInv(u, m) /\ u.esc = <<>>
  BY FlushEscBatchKeeps
<1> HIDE DEF u
<1>3. LoopInv(v, m) /\ v.esc = <<>> /\ \A c \in Range(v.batch) : c.key \in Late
  BY <1>2, FlushInputBatchKeeps
<1> HIDE DEF v
<1>4. v \in LoopState /\ <<b>> \in Seq(Byte)
  BY <1>3, RangeSmall DEF LoopInv
<1>5. /\ t \in LoopState /\ t.esc = <<b>> /\ t.batch = v.batch /\ t.packets = v.packets
      /\ t.dropped = v.dropped /\ t.gone = v.gone
  BY <1>4, LoopUpdates
<1> HIDE DEF t
<1>6. t.esc = Append(v.esc, b)
  <2>1. Append(<<>>, b) = <<b>>
    OBVIOUS
  <2> QED
    BY <1>3, <1>5, <2>1
<1> QED
  BY <1>1, <1>3, <1>5, <1>6, ByteOfEsc

\* Any byte.
LEMMA ProcessByteKeeps ==
    ASSUME NEW m \in Nat, NEW st, LoopInv(st, m), NEW b \in Byte, b.pos = m + 1
    PROVE  LoopInv(ProcessByte(st, b), m + 1)
<1>1. st \in LoopState /\ b.pos \in 1 .. MaxTyped /\ st.esc \in Seq(Byte) /\ st.batch \in Seq(Byte)
  BY ByteTyped DEF LoopInv, LoopState
<1>2. CASE st.ended # ""
  <2> DEFINE t == [st EXCEPT !.gone = @ \union {b.pos}]
  <2>1. ProcessByte(st, b) = t
    BY <1>2 DEF ProcessByte
  <2>2. /\ t \in LoopState /\ t.esc = st.esc /\ t.batch = st.batch /\ t.packets = st.packets
        /\ t.dropped = st.dropped /\ t.gone = st.gone \union {b.pos}
    BY <1>1 DEF LoopState
  <2> HIDE DEF t
  <2> QED
    BY <2>1, <2>2, ByteGone
<1>3. CASE st.ended = "" /\ st.prefixed
  BY <1>3, CommandKeeps DEF ProcessByte
<1>4. CASE st.ended = "" /\ ~st.prefixed /\ b.key = "P"
  <2> DEFINE u == IF Len(st.batch) >= MaxBatch THEN FlushInputBatch(st) ELSE st
             t == [u EXCEPT !.prefixed = TRUE, !.gone = @ \union {b.pos}]
  <2>1. ProcessByte(st, b) = t
    BY <1>4 DEF ProcessByte
  <2>2. LoopInv(u, m)
    BY FlushInputBatchKeeps
  <2> HIDE DEF u
  <2>3. u \in LoopState
    BY <2>2 DEF LoopInv
  <2>4. /\ t \in LoopState /\ t.esc = u.esc /\ t.batch = u.batch /\ t.packets = u.packets
        /\ t.dropped = u.dropped /\ t.gone = u.gone \union {b.pos}
    BY <1>1, <2>3 DEF LoopState
  <2> HIDE DEF t
  <2> QED
    BY <2>1, <2>2, <2>4, ByteGone
<1>5. CASE st.ended = "" /\ ~st.prefixed /\ b.key = "E"
  BY <1>5, StartEscKeeps DEF ProcessByte
<1>6. CASE st.ended = "" /\ ~st.prefixed /\ b.key \notin {"P", "E"} /\ st.esc # <<>>
  <2> DEFINE e == Append(st.esc, b)
             t == [st EXCEPT !.esc = e]
  <2>1. ProcessByte(st, b) = IF ShouldFlushEscBuf(t.esc) THEN FlushEscBatch(t) ELSE t
    BY <1>6 DEF ProcessByte
  <2>2. e \in Seq(Byte)
    BY <1>1
  <2>3. /\ t \in LoopState /\ t.esc = e /\ t.batch = st.batch /\ t.packets = st.packets
        /\ t.dropped = st.dropped /\ t.gone = st.gone
    BY <1>1, <2>2, LoopUpdates
  <2> HIDE DEF t
  <2>4. LoopInv(t, m + 1)
    BY <1>6, <2>3, ByteOfEsc
  <2>5. LoopInv(FlushEscBatch(t), m + 1)
    <3> DEFINE l == m + 1
    <3>1. l \in Nat /\ LoopInv(t, l)
      BY <2>4
    <3> HIDE DEF l
    <3>2. LoopInv(FlushEscBatch(t), l)
      BY <3>1, FlushEscBatchKeeps
    <3> QED
      BY <3>2 DEF l
  <2> QED
    BY <2>1, <2>4, <2>5
<1>7. CASE st.ended = "" /\ ~st.prefixed /\ b.key \notin {"P", "E"} /\ st.esc = <<>>
  <2> DEFINE x == Append(st.batch, b)
             t == [st EXCEPT !.batch = x]
  <2>1. ProcessByte(st, b) = t
    BY <1>7 DEF ProcessByte
  <2>2. x \in Seq(Byte)
    BY <1>1
  <2>3. /\ t \in LoopState /\ t.batch = x /\ t.esc = st.esc /\ t.packets = st.packets
        /\ t.dropped = st.dropped /\ t.gone = st.gone /\ t.prefixed = st.prefixed
    BY <1>1, <2>2, LoopUpdates
  <2> HIDE DEF t
  <2> QED
    BY <1>7, <2>1, <2>3, ByteOfBatch
<1> QED
  BY <1>2, <1>3, <1>4, <1>5, <1>6, <1>7

\* The bytes of a read.
LEMMA ProcessReadKeeps ==
    ASSUME NEW m \in Nat, NEW st, LoopInv(st, m), NEW w \in Seq(Byte),
           \A i \in 1 .. Len(w) : w[i].pos = m + i
    PROVE  LoopInv(ProcessRead(st, w), m + Len(w))
<1> DEFINE n == Len(w)
           D == LoopState
           f == CHOOSE h : h = [k \in 0 .. n |-> IF k = 0 THEN st ELSE ProcessByte(h[k - 1], w[k])]
           step == [k \in 1 .. n |-> [x \in D |->
                       IF LoopInv(x, m + k - 1) THEN ProcessByte(x, w[k]) ELSE x]]
<1>1. ProcessRead(st, w) = f[n]
  BY DEF ProcessRead
<1>2. n \in Nat /\ \A k \in 1 .. n : w[k] \in Byte /\ w[k].pos = m + k
  OBVIOUS
<1>3. ASSUME NEW k \in 1 .. n, NEW x, LoopInv(x, m + k - 1)
      PROVE  LoopInv(ProcessByte(x, w[k]), m + k) /\ ProcessByte(x, w[k]) \in D /\ x \in D
  <2> DEFINE l == m + k - 1
             b == w[k]
  <2>1. l \in Nat /\ b \in Byte /\ b.pos = l + 1 /\ l + 1 = m + k /\ LoopInv(x, l)
    BY <1>2, <1>3
  <2> HIDE DEF l, b, n
  <2>2. LoopInv(ProcessByte(x, b), l + 1)
    BY <2>1, ProcessByteKeeps
  <2> QED
    BY <2>1, <2>2 DEF LoopInv, b
<1> HIDE DEF n
<1>4. step \in [1 .. n -> [D -> D]]
  BY <1>3
<1>5. \A k \in 1 .. n : \A x \in D :
         step[k][x] = IF LoopInv(x, m + k - 1) THEN ProcessByte(x, w[k]) ELSE x
  OBVIOUS
<1>6. st \in D
  BY DEF LoopInv
<1> HIDE DEF step, D
<1>7. PICK g : LoopRuns(D, n, st, step, g)
  BY <1>2, <1>4, <1>6, LoopHasHistory
<1>8. \A k \in 0 .. n : LoopInv(g[k], m + k)
  <2> DEFINE T == {k \in 0 .. n : LoopInv(g[k], m + k)}
  <2>1. 0 \in T
    BY <1>2, <1>7 DEF LoopRuns
  <2>2. ASSUME NEW k \in 0 .. n, k < n, k \in T PROVE k + 1 \in T
    <3>1. /\ k + 1 \in 1 .. n /\ (k + 1) - 1 = k /\ m + (k + 1) - 1 = m + k /\ k + 1 \in 0 .. n
          /\ LoopInv(g[k], m + k) /\ g[k] \in D
      BY <1>2, <1>7, <2>2 DEF LoopRuns
    <3>2. g[k + 1] = step[k + 1][g[k]]
      BY <1>7, <3>1 DEF LoopRuns
    <3>3. g[k + 1] = ProcessByte(g[k], w[k + 1])
      BY <1>5, <3>1, <3>2
    <3>4. LoopInv(g[k + 1], m + (k + 1))
      BY <1>3, <3>1, <3>3
    <3> QED
      BY <3>1, <3>4
  <2> HIDE DEF T
  <2>3. \A k \in 0 .. n : k \in T
    BY <1>2, <2>1, <2>2, UpTo
  <2> QED
    BY <2>3 DEF T
<1>9. \A k \in 1 .. n : g[k] = ProcessByte(g[k - 1], w[k])
  <2> SUFFICES ASSUME NEW k \in 1 .. n PROVE g[k] = ProcessByte(g[k - 1], w[k])
    OBVIOUS
  <2>1. k - 1 \in 0 .. n /\ m + (k - 1) = m + k - 1
    BY <1>2
  <2>2. LoopInv(g[k - 1], m + k - 1) /\ g[k - 1] \in D /\ g[k] = step[k][g[k - 1]]
    BY <1>7, <1>8, <2>1 DEF LoopRuns
  <2> QED
    BY <1>5, <2>2
<1>10. g[0] = st
  BY <1>7 DEF LoopRuns
<1> DEFINE h == [k \in 0 .. n |-> g[k]]
<1>11. h = [k \in 0 .. n |-> IF k = 0 THEN st ELSE ProcessByte(h[k - 1], w[k])]
  <2> SUFFICES ASSUME NEW k \in 0 .. n
               PROVE  h[k] = IF k = 0 THEN st ELSE ProcessByte(h[k - 1], w[k])
    OBVIOUS
  <2>1. CASE k = 0
    BY <1>10, <2>1
  <2>2. CASE k # 0
    <3>1. k \in 1 .. n /\ k - 1 \in 0 .. n
      BY <1>2, <2>2
    <3> QED
      BY <1>9, <2>2, <3>1
  <2> QED
    BY <2>1, <2>2
<1>12. f = [k \in 0 .. n |-> IF k = 0 THEN st ELSE ProcessByte(f[k - 1], w[k])]
  <2> HIDE DEF h
  <2> QED
    BY <1>11
<1> HIDE DEF f, h
<1>13. f[0] = st /\ \A k \in 1 .. n : f[k] = ProcessByte(f[k - 1], w[k])
  <2>1. 0 \in 0 .. n
    BY <1>2
  <2>2. f[0] = st
    BY <1>12, <2>1
  <2>3. ASSUME NEW k \in 1 .. n PROVE f[k] = ProcessByte(f[k - 1], w[k])
    <3>1. k \in 0 .. n /\ k # 0
      BY <1>2
    <3> QED
      BY <1>12, <3>1
  <2> QED
    BY <2>2, <2>3
<1>14. \A k \in 0 .. n : f[k] = g[k]
  <2> DEFINE T == {k \in 0 .. n : f[k] = g[k]}
  <2>1. 0 \in T
    BY <1>2, <1>10, <1>13
  <2>2. ASSUME NEW k \in 0 .. n, k < n, k \in T PROVE k + 1 \in T
    <3>1. k + 1 \in 1 .. n /\ (k + 1) - 1 = k /\ k + 1 \in 0 .. n /\ f[k] = g[k]
      BY <1>2, <2>2
    <3>2. f[k + 1] = g[k + 1]
      BY <1>9, <1>13, <3>1
    <3> QED
      BY <3>1, <3>2
  <2> HIDE DEF T
  <2>3. \A k \in 0 .. n : k \in T
    BY <1>2, <2>1, <2>2, UpTo
  <2> QED
    BY <2>3 DEF T
<1>15. n \in 0 .. n
  BY <1>2
<1>16. LoopInv(f[n], m + n)
  BY <1>8, <1>14, <1>15
<1> QED
  BY <1>1, <1>16 DEF n

-----------------------------------------------------------------------------
(* The client's input.                                                     *)

InputInv ==
    /\ typed \in 0 .. MaxTyped
    /\ LoopInv(loop, typed)
    /\ armed \in BOOLEAN /\ link \in BOOLEAN /\ readOnly \in BOOLEAN

\* What the assumption says of the bound.
LEMMA InputBounds == MaxTyped \in Nat /\ MaxTyped \in Int /\ 0 < MaxTyped
<1>1. MaxTyped \in {MaxTyped, MaxBatch, MaxEsc}
  OBVIOUS
<1>2. MaxTyped \in Nat \ {0}
  BY <1>1, TerminalInputConstants
<1> QED
  BY <1>2

\* The loop as the last step left it.
LEMMA SetLoopSets ==
    ASSUME NEW st \in LoopState, SetLoop(st)
    PROVE  loop' = st /\ armed' \in BOOLEAN
<1>1. st = [esc |-> st.esc, batch |-> st.batch, prefixed |-> st.prefixed, packets |-> st.packets,
            dropped |-> st.dropped, gone |-> st.gone, ended |-> st.ended]
  BY DEF LoopState
<1>2. loop' = [esc |-> st.esc, batch |-> st.batch, prefixed |-> st.prefixed, packets |-> st.packets,
               dropped |-> st.dropped, gone |-> st.gone, ended |-> st.ended]
  BY DEF SetLoop, loop
<1>3. RecheckFlushTimer(st) \in BOOLEAN
  BY DEF RecheckFlushTimer
<1> QED
  BY <1>1, <1>2, <1>3 DEF SetLoop

\* The invariant holds at first.
LEMMA InputInitInv == InputInit => InputInv
<1> SUFFICES ASSUME InputInit PROVE InputInv
  OBVIOUS
<1>1. /\ loop = [esc |-> <<>>, batch |-> <<>>, prefixed |-> FALSE, packets |-> <<>>,
                 dropped |-> {}, gone |-> {}, ended |-> ""]
      /\ typed = 0
  BY DEF InputInit, loop
<1>2. loop \in LoopState
  <2>1. <<>> \in Seq(Byte) /\ <<>> \in Seq(Seq(Byte))
    OBVIOUS
  <2> QED
    BY <1>1, <2>1 DEF LoopState
<1>3. SentOf(loop) = <<>>
  BY <1>1 DEF SentOf, FlattenSeq
<1>4. HeldBytes(loop) = {} /\ Known(loop) = {}
  BY <1>1, <1>3, NothingHeld DEF HeldBytes, Known
<1>5. <<>> \in Seq(Byte) /\ Len(<<>>) = 0 /\ 1 .. 0 = {}
  OBVIOUS
<1>6. Placed({}, 0) /\ Once(<<>>) /\ InOrderOf(<<>>)
  BY <1>5 DEF Placed, Once, InOrderOf
<1>7. Core(<<>>, {}, {}, {}, 0)
  BY <1>5, <1>6, NothingHeld DEF Core, OnceInv, OrderInv
<1>8. PacketsInv(<<>>, {}, 0)
  BY <1>5 DEF PacketsInv
<1>9. HeldInv(<<>>, <<>>, FALSE, {}, 0)
  BY NothingHeld DEF HeldInv, Together, NoneOpen
<1>10. LoopInv(loop, 0)
  BY <1>1, <1>2, <1>3, <1>4, <1>7, <1>8, <1>9 DEF LoopInv
<1> QED
  <2>1. typed \in 0 .. MaxTyped
    <3>1. 0 \in 0 .. MaxTyped
      BY InputBounds
    <3>2. typed = 0
      BY <1>1
    <3> QED
      BY <3>1, <3>2
  <2>2. armed \in BOOLEAN /\ link \in BOOLEAN /\ readOnly \in BOOLEAN
    BY Zenon DEF InputInit
  <2>3. LoopInv(loop, typed)
    BY <1>1, <1>10
  <2> QED
    BY <2>1, <2>2, <2>3 DEF InputInv

\* A read keeps it.
LEMMA ReadKeeps ==
    ASSUME InputInv, NEW n \in 1 .. MaxTyped, NEW keys \in [1 .. n -> Keys], Read(keys)
    PROVE  InputInv'
<1> DEFINE w == [i \in DOMAIN keys |-> [pos |-> typed + i, key |-> keys[i]]]
           r == ProcessRead(loop, w)
           t == IF r.ended = "" THEN FlushInputBatch(r) ELSE r
           l == typed + n
<1>1. typed \in Nat /\ n \in Nat /\ n > 0 /\ LoopInv(loop, typed)
  BY InputBounds DEF InputInv
<1>2. DOMAIN keys = 1 .. n /\ Len(keys) = n
  <2>1. keys \in Seq(Keys)
    BY <1>1
  <2> QED
    BY <1>1, <2>1
<1>3. /\ SetLoop(t) /\ typed' = l /\ l \in 0 .. MaxTyped
      /\ link' = link /\ readOnly' = readOnly
  <2>1. typed + n <= MaxTyped /\ typed' = typed + n /\ link' = link /\ readOnly' = readOnly
    BY <1>2 DEF Read
  <2>2. \E st \in {ProcessRead(loop, w)} : SetLoop(IF st.ended = "" THEN FlushInputBatch(st) ELSE st)
    BY DEF Read
  <2>3. SetLoop(t)
    <3> HIDE DEF w
    <3> QED
      BY <2>2
  <2>4. l \in 0 .. MaxTyped
    <3>1. typed + n <= MaxTyped /\ typed \in Nat /\ n \in Nat
      BY <1>1, <2>1
    <3> HIDE DEF w, r, t
    <3> QED
      BY <3>1, InputBounds
  <2> QED
    BY <2>1, <2>3, <2>4
<1>4. \A i \in 1 .. n : [pos |-> typed + i, key |-> keys[i]] \in Byte
  <2>1. \A i \in 1 .. n : typed + i \in 1 .. MaxTyped /\ keys[i] \in Keys
    <3>1. typed + n <= MaxTyped /\ typed \in Nat /\ n \in Nat
      BY <1>1, <1>2 DEF Read
    <3> HIDE DEF w, r, t
    <3> QED
      BY <3>1, InputBounds
  <2> QED
    BY <2>1 DEF Byte
<1>5. w \in Seq(Byte) /\ Len(w) = n /\ \A i \in 1 .. n : w[i].pos = typed + i
  <2>1. w \in [1 .. n -> Byte]
    BY <1>2, <1>4
  <2>2. w \in Seq(Byte)
    BY <1>1, <2>1
  <2> QED
    BY <1>1, <1>2, <2>1, <2>2
<1> HIDE DEF w
<1>6. LoopInv(r, l)
  BY <1>1, <1>5, ProcessReadKeeps
<1> HIDE DEF r, l
<1>7. LoopInv(t, l)
  <2>1. l \in Nat
    BY <1>1 DEF l
  <2> QED
    BY <1>6, <2>1, FlushInputBatchKeeps
<1> HIDE DEF t
<1>8. loop' = t /\ armed' \in BOOLEAN
  BY <1>3, <1>7, SetLoopSets DEF LoopInv
<1> QED
  BY <1>3, <1>7, <1>8 DEF InputInv

\* The flush timer keeps it.
LEMMA TimerKeeps ==
    ASSUME InputInv, TimerFires
    PROVE  InputInv'
<1> DEFINE r == FlushEscBatch(loop)
           t == FlushInputBatch(r)
<1>1. typed \in Nat /\ LoopInv(loop, typed)
  BY TerminalInputConstants DEF InputInv
<1>2. SetLoop(t) /\ typed' = typed /\ link' = link /\ readOnly' = readOnly
  BY DEF TimerFires
<1>3. LoopInv(r, typed)
  BY <1>1, FlushEscBatchKeeps
<1> HIDE DEF r
<1>4. LoopInv(t, typed)
  BY <1>1, <1>3, FlushInputBatchKeeps
<1> HIDE DEF t
<1>5. loop' = t /\ armed' \in BOOLEAN
  BY <1>2, <1>4, SetLoopSets DEF LoopInv
<1> QED
  BY <1>2, <1>4, <1>5 DEF InputInv

\* That the client ends, or the link changes, is nothing to the invariant.
LEMMA OtherStepsKeep ==
    ASSUME InputInv, StdinEnds \/ LinkChanges \/ UNCHANGED inputVars
    PROVE  InputInv'
<1>1. /\ typed \in 0 .. MaxTyped /\ LoopInv(loop, typed) /\ loop \in LoopState
      /\ armed \in BOOLEAN /\ link \in BOOLEAN /\ readOnly \in BOOLEAN
  BY DEF InputInv, LoopInv
<1>2. /\ typed' = typed /\ esc' = esc /\ batch' = batch /\ prefixed' = prefixed
      /\ packets' = packets /\ dropped' = dropped /\ gone' = gone
      /\ ended' \in {"", "detach", "eof", "error"}
      /\ armed' \in BOOLEAN /\ link' \in BOOLEAN /\ readOnly' \in BOOLEAN
  <2>1. ended \in {"", "detach", "eof", "error"}
    BY <1>1 DEF LoopState, loop
  <2> QED
    BY <1>1, <2>1 DEF StdinEnds, LinkChanges, inputVars
<1>3. /\ loop' \in LoopState
      /\ loop'.esc = loop.esc /\ loop'.batch = loop.batch /\ loop'.prefixed = loop.prefixed
      /\ loop'.packets = loop.packets /\ loop'.dropped = loop.dropped /\ loop'.gone = loop.gone
  BY <1>1, <1>2 DEF loop, LoopState
<1> DEFINE t == loop'
<1>4. LoopInv(t, typed)
  <2>1. t \in LoopState /\ SentOf(t) = SentOf(loop) /\ HeldBytes(t) = HeldBytes(loop) /\ Known(t) = Known(loop)
    BY <1>3 DEF SentOf, HeldBytes, Known
  <2> QED
    BY <1>1, <1>3, <2>1 DEF LoopInv
<1> QED
  BY <1>1, <1>2, <1>4 DEF InputInv

\* The invariant of handleStdin's loop: what its buffers, the packets sent, the bytes
\* dropped and those that were commands say of all that was typed.
THEOREM InputInductive == InputSpec => []InputInv
<1>1. InputInit => InputInv
  BY InputInitInv
<1>2. InputInv /\ [InputNext]_inputVars => InputInv'
  <2> SUFFICES ASSUME InputInv, [InputNext]_inputVars PROVE InputInv'
    OBVIOUS
  <2>1. CASE \E n \in 1 .. MaxTyped : n <= MaxTyped - typed /\ \E keys \in [1 .. n -> Keys] : Read(keys)
    BY <2>1, ReadKeeps
  <2>2. CASE TimerFires
    BY <2>2, TimerKeeps
  <2>3. CASE StdinEnds \/ LinkChanges \/ UNCHANGED inputVars
    BY <2>3, OtherStepsKeep
  <2> QED
    BY <2>1, <2>2, <2>3 DEF InputNext
<1> QED
  BY <1>1, <1>2, PTL DEF InputSpec

\* What the invariant says of the variables.
LEMMA InvParts ==
    ASSUME InputInv
    PROVE  /\ loop \in LoopState /\ SentOf(loop) = Sent
           /\ esc \in Seq(Byte) /\ batch \in Seq(Byte) /\ Sent \in Seq(Byte)
           /\ packets \in Seq(Seq(Byte))
           /\ HeldBytes(loop) = Range(esc) \union Range(batch)
           /\ Known(loop) = Range(Sent) \union (Range(esc) \union Range(batch))
           /\ Core(Sent, Range(esc) \union Range(batch), dropped, gone, typed)
           /\ PacketsInv(packets, Range(Sent) \union (Range(esc) \union Range(batch)), typed)
           /\ HeldInv(esc, batch, prefixed, Range(Sent) \union (Range(esc) \union Range(batch)), typed)
<1>1. LoopInv(loop, typed)
  BY DEF InputInv
<1>2. /\ loop.esc = esc /\ loop.batch = batch /\ loop.packets = packets
      /\ loop.dropped = dropped /\ loop.gone = gone /\ loop.prefixed = prefixed
  BY DEF loop
<1>3. loop \in LoopState
  BY <1>1 DEF LoopInv
<1>4. esc \in Seq(Byte) /\ batch \in Seq(Byte) /\ packets \in Seq(Seq(Byte))
  BY <1>2, <1>3 DEF LoopState
<1>5. /\ SentOf(loop) = Sent /\ HeldBytes(loop) = Range(esc) \union Range(batch)
      /\ Known(loop) = Range(Sent) \union (Range(esc) \union Range(batch))
  BY <1>2 DEF SentOf, Sent, HeldBytes, Known
<1>6. /\ Core(Sent, Range(esc) \union Range(batch), dropped, gone, typed)
      /\ PacketsInv(packets, Known(loop), typed)
      /\ HeldInv(esc, batch, prefixed, Known(loop), typed)
  BY <1>1, <1>2, <1>5 DEF LoopInv
<1>7. Sent \in Seq(Byte)
  BY <1>6 DEF Core, OnceInv
<1> QED
  BY <1>3, <1>4, <1>5, <1>6, <1>7

\* The parts of PacketsAsTyped follow from the invariant: the types,
LEMMA InvTypeOK ==
    ASSUME InputInv
    PROVE  InputTypeOK
<1>1. /\ loop \in LoopState /\ esc \in Seq(Byte) /\ batch \in Seq(Byte) /\ Sent \in Seq(Byte)
  BY InvParts
<1>2. Range(esc) \subseteq Byte /\ Range(batch) \subseteq Byte /\ Range(Sent) \subseteq Byte
  BY <1>1, RangeJoined
<1>3. /\ dropped \subseteq 1 .. MaxTyped /\ gone \subseteq 1 .. MaxTyped
      /\ prefixed \in BOOLEAN /\ ended \in {"", "detach", "eof", "error"}
  BY <1>1 DEF LoopState, loop
<1>4. {prefixed, armed, link, readOnly} \subseteq BOOLEAN
  BY <1>3, Zenon DEF InputInv
<1> QED
  BY <1>2, <1>3, <1>4 DEF InputTypeOK, InputInv

\* As many places as bytes, when none is there twice.
LEMMA PlacesCount ==
    ASSUME NEW s \in Seq(Byte), Once(s)
    PROVE  Cardinality(Places(s)) = Len(s)
<1> DEFINE n == Len(s)
           f == [i \in 1 .. n |-> s[i].pos]
           P == Places(s)
<1>1. n \in Nat /\ DOMAIN s = 1 .. n
  OBVIOUS
<1>2. P = {s[i].pos : i \in 1 .. n}
  BY <1>1 DEF Places
<1>3. \A i, j \in 1 .. n : s[i].pos = s[j].pos => i = j
  BY DEF Once
<1> HIDE DEF n, P
<1>4. f \in [1 .. n -> P] /\ \A i \in 1 .. n : f[i] = s[i].pos
  BY <1>2
<1>5. \A p \in P : \E i \in 1 .. n : f[i] = p
  BY <1>2
<1>6. \A i, j \in 1 .. n : f[i] = f[j] => i = j
  BY <1>3, <1>4
<1> HIDE DEF f
<1>7. f \in Bijection(1 .. n, P)
  BY <1>4, <1>5, <1>6 DEF Bijection, Injection, Surjection, IsInjective
<1>8. ExistsBijection(1 .. n, P)
  BY <1>7 DEF ExistsBijection
<1> QED
  BY <1>1, <1>8, FS_CountingElements DEF n, P

\* that each byte is in one place,
LEMMA InvEachByteOnce ==
    ASSUME InputInv
    PROVE  EachByteOnce
<1> DEFINE all == Sent \o esc \o batch
           most == Sent \o esc
           H == Range(esc) \union Range(batch)
           K == Range(Sent) \union H
<1>1. /\ esc \in Seq(Byte) /\ batch \in Seq(Byte) /\ Sent \in Seq(Byte)
      /\ Core(Sent, H, dropped, gone, typed) /\ HeldInv(esc, batch, prefixed, K, typed)
  BY InvParts
<1>2. /\ Once(Sent) /\ InOrderOf(Sent) /\ Placed(K, typed) /\ Range(Sent) \intersect H = {}
      /\ dropped \intersect gone = {} /\ dropped \union gone \subseteq 1 .. typed
      /\ \A b \in K : b.pos \notin dropped \union gone
      /\ \A p \in 1 .. typed : p \in dropped \union gone \/ \E b \in K : b.pos = p
      /\ \A b \in Range(Sent) : \A c \in H : b.pos > c.pos => Overtakes(b, c)
  BY <1>1 DEF Core, OnceInv, OrderInv
<1>3. /\ Ascending(esc) /\ Ascending(batch) /\ Range(esc) \intersect Range(batch) = {}
      /\ (esc # <<>> => \A c \in Range(batch) : c.key \in Late)
  BY <1>1 DEF HeldInv
<1>4. \A b, c \in K : b.pos = c.pos => b = c
  BY <1>2 DEF Placed
<1>5. most \in Seq(Byte) /\ Range(most) = Range(Sent) \union Range(esc) /\ Once(most) /\ InOrderOf(most)
  <2>1. \A b \in Range(Sent) : \A c \in Range(esc) : b.pos # c.pos /\ (b.pos > c.pos => Overtakes(b, c))
    BY <1>2, <1>4
  <2> QED
    BY <1>1, <1>2, <1>3, <2>1, RangeJoined, SentGrows
<1> HIDE DEF most
<1>6. all = most \o batch
  BY DEF most
<1>7. all \in Seq(Byte) /\ Range(all) = K /\ Once(all)
  <2>1. \A b \in Range(esc) : esc # <<>>
    BY NothingHeld
  <2>2. \A b \in Range(most) : \A c \in Range(batch) : b.pos # c.pos /\ (b.pos > c.pos => Overtakes(b, c))
    BY <1>2, <1>3, <1>4, <1>5, <2>1 DEF Overtakes
  <2>3. Once(most \o batch)
    BY <1>1, <1>3, <1>5, <2>2, SentGrows
  <2>4. most \o batch \in Seq(Byte) /\ Range(most \o batch) = Range(most) \union Range(batch)
    BY <1>1, <1>5, RangeJoined
  <2> QED
    BY <1>5, <1>6, <2>3, <2>4
<1> HIDE DEF all
<1>8. Cardinality(Places(all)) = Len(all)
  BY <1>7, PlacesCount
<1>9. \A p : p \in Places(all) <=> \E b \in K : b.pos = p
  BY <1>7, PlacesIs
<1>10. \A b \in K : b.pos \in 1 .. typed
  <2>1. \A b \in K : b \in Byte /\ b.pos <= typed
    BY <1>2 DEF Placed
  <2>2. typed \in Int
    BY DEF InputInv
  <2>3. \A b \in K : b.pos \in Int /\ b.pos \in Nat /\ b.pos >= 1
    BY <2>1, ByteTyped, InputBounds
  <2> QED
    BY <2>1, <2>2, <2>3
<1>11. Places(all) \union dropped \union gone = 1 .. typed
  BY <1>2, <1>9, <1>10
<1>12. Places(all) \intersect (dropped \union gone) = {}
  BY <1>2, <1>9
<1> QED
  BY <1>2, <1>8, <1>11, <1>12 DEF EachByteOnce, all

\* the order,
LEMMA InvInOrder ==
    ASSUME InputInv
    PROVE  InOrder
<1>1. Sent \in Seq(Byte) /\ InOrderOf(Sent)
  BY InvParts DEF Core, OrderInv
<1>2. DOMAIN Sent = 1 .. Len(Sent)
  BY <1>1
<1> QED
  BY <1>1, <1>2 DEF InOrder, InOrderOf, Overtakes, Late

\* and that no character is cut.
LEMMA InvWholeCharacters ==
    ASSUME InputInv
    PROVE  WholeCharacters
<1> DEFINE K == Range(Sent) \union (Range(esc) \union Range(batch))
<1>1. /\ packets \in Seq(Seq(Byte)) /\ PacketsInv(packets, K, typed)
      /\ Sent = FlattenSeq(packets) /\ Sent \in Seq(Byte)
  BY InvParts DEF Sent
<1> HIDE DEF K
<1>2. /\ \A i \in 1 .. Len(packets) : packets[i] # <<>> /\ Range(packets[i]) \subseteq Range(Sent)
      /\ \A i, j \in 1 .. Len(packets) : i # j => Range(packets[i]) \intersect Range(packets[j]) = {}
      /\ \A i \in 1 .. Len(packets) : Plain(packets[i]) => Together(Range(packets[i]), K)
  BY <1>1 DEF PacketsInv, Clean
<1>3. Range(Sent) \subseteq K /\ Range(Sent) \subseteq Byte
  BY <1>1, RangeJoined DEF K
<1> SUFFICES ASSUME NEW q \in DOMAIN packets, NEW r \in DOMAIN packets,
                    NEW i \in DOMAIN packets[q], NEW j \in DOMAIN packets[r],
                    packets[q][i].key \in {"L", "M"},
                    packets[r][j].pos \in packets[q][i].pos + 1 ..
                                          packets[q][i].pos + CharLength[packets[q][i].key] - 1,
                    \A p \in packets[q][i].pos + 1 .. packets[r][j].pos :
                        [pos |-> p, key |-> "C"] \in Range(Sent),
                    "E" \notin {packets[q][1].key, packets[r][1].key}
             PROVE  q = r
  BY DEF WholeCharacters
<1> DEFINE b == packets[q][i]
           c == packets[r][j]
<1>4. /\ q \in 1 .. Len(packets) /\ r \in 1 .. Len(packets)
      /\ b \in Range(packets[q]) /\ c \in Range(packets[r]) /\ c \in K /\ b \in Byte /\ c \in Byte
  <2>1. q \in 1 .. Len(packets) /\ r \in 1 .. Len(packets)
    BY <1>1
  <2>2. b \in Range(packets[q]) /\ c \in Range(packets[r])
    BY DEF Range
  <2> QED
    BY <1>2, <1>3, <2>1, <2>2
<1>5. /\ Lead(b) /\ \A p \in b.pos + 1 .. c.pos : [pos |-> p, key |-> "C"] \in K
      /\ c.pos \in b.pos + 1 .. b.pos + CharLength[b.key] - 1
      /\ Plain(packets[q])
  BY <1>3 DEF Lead, Plain
<1> HIDE DEF b, c
<1>6. b.pos \in Int /\ c.pos \in Int /\ CharLength[b.key] \in Int
  BY <1>4, <1>5, ByteTyped, LengthOf
<1>7. b.pos < c.pos /\ b.pos <= c.pos /\ c.pos < b.pos + CharLength[b.key]
  BY <1>5, <1>6
<1>8. Reaches(b, c.pos, K)
  BY <1>5, <1>7 DEF Reaches
<1>9. c \in Range(packets[q])
  BY <1>2, <1>4, <1>5, <1>7, <1>8 DEF Together
<1> QED
  BY <1>2, <1>4, <1>9

\* PacketsAsTyped, for any number of bytes typed, any sizes and any reads: handleStdin
\* sends each byte once, in order but for the two exceptions, and flushInputBatch never
\* cuts a character, however reads, the flush timer and the connection fall.
THEOREM InputAsTyped == InputSpec => []PacketsAsTyped
<1>1. InputInv => PacketsAsTyped
  BY InvTypeOK, InvEachByteOnce, InvInOrder, InvWholeCharacters DEF PacketsAsTyped
<1> QED
  BY <1>1, InputInductive, PTL

-----------------------------------------------------------------------------
(* The terminal as a whole.                                                *)

\* What is typed leaves the modes alone, and the other way about: each part is a
\* behaviour of its own specification.
LEMMA TerminalParts == TerminalSpec => InputSpec /\ ModesSpec
<1>1. TerminalInit => InputInit /\ ModesInit
  BY DEF TerminalInit
<1>2. [TerminalNext]_<<inputVars, modesVars, part>> => [InputNext]_inputVars
  BY DEF TerminalNext
<1>3. [TerminalNext]_<<inputVars, modesVars, part>> => [ModesNext]_modesVars
  BY DEF TerminalNext
<1> QED
  BY <1>1, <1>2, <1>3, PTL DEF TerminalSpec, InputSpec, ModesSpec

\* The client's terminal keeps what both parts promise: handleStdin sends what was
\* typed, and the modes that the app has set are known and undone at the end.
THEOREM TerminalKeepsBoth ==
    TerminalSpec => []PacketsAsTyped /\ [](ModesKnown /\ TerminalKnown)
BY TerminalParts, InputAsTyped, ModesKnownHold, TerminalKnownHold, PTL
==============================================================================
