---------------------------- MODULE SessionProofs ----------------------------
(***************************************************************************)
(* Proofs about the session layer: the life of one session, for any        *)
(* clients and with every race of its startup; the table of sessions, for  *)
(* any requests, names and limit; both parts of the layer together; and    *)
(* the registry of a remote-forwarded port, for any clients, devices and   *)
(* sessions, any number of connections and any DormantTTL.                 *)
(***************************************************************************)
EXTENDS MCSessions, RemoteForward, FiniteSetTheorems, WellFoundedInduction, TLAPS

-----------------------------------------------------------------------------
(* The inductive invariant of a session's life.                            *)

\* The starter makes a process, opens its terminal, publishes both and is then
\* done; a process it does not publish is not left running.
Startup ==
    /\ creator = "created" => starter = "none"
    /\ starter \in {"none", "wait", "spawn"} => proc = "none" /\ fd = "none"
    /\ starter = "publish" => proc \in {"running", "exited"} /\ fd = "open"
    /\ published => starter = "end"
    /\ ~published /\ starter \in {"close", "end"} => proc \in {"none", "exited"}
    /\ status = "none" <=> proc \in {"none", "running"}

\* ptyReader does its steps once and in order: it runs from the publication on,
\* and nothing that one of them records is there before it.
ReaderInOrder ==
    /\ published <=> reader # "none"
    /\ reader \in {"none", "check", "read", "mark", "reap"} => waitCh = "none"
    /\ waitCh = "done" => proc = "reaped"
    /\ reader \in {"none", "check", "read", "mark", "reap", "select"} => exitCode = "unknown"
    /\ reader \notin {"close", "end"} => note = "none"
    /\ reader \in {"reap", "select", "notify", "close", "end"} => ptyClosed

\* Close is begun by the starter, which then publishes nothing, by the reader at
\* its end, or for DeleteSession; only in the last case can it overtake the
\* publication, or miss that the PTY has ended.
CloseInOrder ==
    /\ done /\ killer = "idle" =>
          \/ starter \in {"close", "end"} /\ ~published
          \/ reader \in {"close", "end"}
    /\ closePC \in {"fd", "kill", "done"} => ptyClosed /\ (closing => published)
    /\ closePC \in {"gone", "mark", "fd", "kill", "done"} /\ killer = "idle" /\ published
          => closing
    /\ closePC = "done" /\ closing => proc # "running"
    /\ gone # "none" => done

\* What a client was told as the exit status is what reapProcess recorded, and
\* stays so.
ToldIsRecorded ==
    /\ gone \in {"exit", "killed"} => exitCode = gone
    /\ waiter \in {"exit", "killed"} => exitCode = waiter
    /\ note \in {"exit", "killed"} => exitCode = note

LifeInv == /\ GatesAndFd /\ ExitStatusIsTrue
           /\ Startup /\ ReaderInOrder /\ CloseInOrder /\ ToldIsRecorded

-----------------------------------------------------------------------------
(* Every step of a session's life preserves it.                            *)

LEMMA InitLifeInv == LifecycleConstants /\ Init => LifeInv
BY DEF LifecycleConstants, Init, LifeInv, GatesAndFd, TypeOK, ResizeUsesOpenFd,
       StartsWhenBothGates, ExitStatusIsTrue, Startup, ReaderInOrder, CloseInOrder,
       ToldIsRecorded, done, Codes

\* The two gates and the starter: what they make is published once, and neither the
\* order in which the gates open nor a failure on the way matters.
LEMMA StartupKeepsLifeInv ==
    ASSUME LifeInv, (\E id \in Ids : RegisterQUICClient(id)) \/ OnQUICClientConnected \/ StartupStep
    PROVE  LifeInv'
<1> USE DEF LifeInv, GatesAndFd, TypeOK, ResizeUsesOpenFd, StartsWhenBothGates,
            ExitStatusIsTrue, Startup, ReaderInOrder, CloseInOrder, ToldIsRecorded,
            done, Codes, gateVars, procVars, closeVars, readerVars
<1>1. ASSUME NEW id \in Ids, RegisterQUICClient(id)
      PROVE  LifeInv'
  <2>1. /\ ids' = ids \union {id}
        /\ UNCHANGED <<st, creator, connected, starter, procVars, closeVars, readerVars,
                       ptyClosed, waiter>>
    BY <1>1 DEF RegisterQUICClient
  <2>2. {quicReady, quicReady', readyCh, readyCh'} \subseteq BOOLEAN
    BY <1>1 DEF RegisterQUICClient, SignalQuicReady
  <2>3. StartsWhenBothGates'
    BY <1>1, <2>1 DEF RegisterQUICClient, SignalQuicReady
  <2> QED
    BY <2>1, <2>2, <2>3
<1>2. CASE OnQUICClientConnected
  <2>1. /\ connected' = TRUE
        /\ UNCHANGED <<st, creator, ids, starter, procVars, closeVars, readerVars, ptyClosed,
                       waiter>>
    BY <1>2 DEF OnQUICClientConnected
  <2>2. {quicReady, quicReady', readyCh, readyCh'} \subseteq BOOLEAN
    BY <1>2 DEF OnQUICClientConnected, SignalQuicReady
  <2>3. StartsWhenBothGates'
    BY <1>2, <2>1 DEF OnQUICClientConnected, SignalQuicReady
  <2> QED
    BY <2>1, <2>2, <2>3
<1>3. CASE BeginQuicPendingMode
  <2>1. /\ creator = "created" /\ creator' = "attached"
        /\ quicReady' = FALSE
        /\ starter' = "wait"
        /\ UNCHANGED <<st, readyCh, ids, connected, procVars, closeVars, readerVars, ptyClosed,
                       waiter>>
    BY <1>3 DEF BeginQuicPendingMode
  <2>2. TypeOK'
    BY <2>1
  <2> QED
    BY <2>1, <2>2
<1>4. CASE QuicReady
  BY <1>4 DEF QuicReady, Starter
<1>5. CASE SessionDone
  BY <1>5 DEF SessionDone, Starter
<1>6. CASE QuicTimeout
  BY <1>6 DEF QuicTimeout, Starter
<1>7. CASE Spawn
  BY <1>7 DEF Spawn, Starter
<1>8. CASE SpawnFails
  BY <1>8 DEF SpawnFails, Starter
<1>9. CASE SetsizeFails
  BY <1>9 DEF SetsizeFails, Starter
<1>10. CASE Publish
  BY <1>10 DEF Publish, Starter
<1> QED
  BY <1>1, <1>2, <1>3, <1>4, <1>5, <1>6, <1>7, <1>8, <1>9, <1>10 DEF StartupStep

\* ptyReader and reapProcess's wait: the status is recorded once, after the process
\* has been waited for.
LEMMA ReaderKeepsLifeInv ==
    ASSUME LifeInv, ReaderStep \/ WaitReturns
    PROVE  LifeInv'
<1> USE DEF LifeInv, GatesAndFd, TypeOK, ResizeUsesOpenFd, StartsWhenBothGates,
            ExitStatusIsTrue, Startup, ReaderInOrder, CloseInOrder, ToldIsRecorded,
            done, Codes, gateVars, procVars, closeVars, readerVars
<1>1. CASE ReaderCheck
  BY <1>1 DEF ReaderCheck, Reader
<1>2. CASE ReadData
  BY <1>2 DEF ReadData, Reader
<1>3. CASE ReadFails
  BY <1>3 DEF ReadFails, Reader
<1>4. CASE MarkPtyClosed
  BY <1>4 DEF MarkPtyClosed, Reader
<1>5. CASE ReapBegin
  BY <1>5 DEF ReapBegin, Reader
<1>6. CASE ReapProcess
  BY <1>6 DEF ReapProcess, Reader
<1>7. CASE ReapTimeout
  BY <1>7 DEF ReapTimeout, Reader
<1>8. CASE NotifySessionClosed
  BY <1>8 DEF NotifySessionClosed, Reader
<1>9. CASE WaitReturns
  BY <1>9 DEF WaitReturns
<1> QED
  BY <1>1, <1>2, <1>3, <1>4, <1>5, <1>6, <1>7, <1>8, <1>9 DEF ReaderStep

\* Close, whoever calls it, and DeleteSession.
LEMMA CloseKeepsLifeInv ==
    ASSUME LifeInv, CloseStep \/ Kill
    PROVE  LifeInv'
<1> USE DEF LifeInv, GatesAndFd, TypeOK, ResizeUsesOpenFd, StartsWhenBothGates,
            ExitStatusIsTrue, Startup, ReaderInOrder, CloseInOrder, ToldIsRecorded,
            done, Codes, gateVars, procVars, closeVars, readerVars
<1>1. CASE CloseBegin
  BY <1>1 DEF CloseBegin, Closing, Calling
<1>2. CASE CloseReads
  BY <1>2 DEF CloseReads, Closing
<1>3. CASE SendSessionGone
  BY <1>3 DEF SendSessionGone, Closing
<1>4. CASE CloseMark
  BY <1>4 DEF CloseMark, Closing
<1>5. CASE CloseFd
  BY <1>5 DEF CloseFd, Closing
<1>6. CASE CloseKill
  BY <1>6 DEF CloseKill, Closing
<1>7. CASE CloseReturns
  BY <1>7 DEF CloseReturns, Calling, Returned
<1>8. CASE Kill
  BY <1>8 DEF Kill
<1> QED
  BY <1>1, <1>2, <1>3, <1>4, <1>5, <1>6, <1>7, <1>8 DEF CloseStep

\* The process, its terminal and a client that waits.
LEMMA OthersKeepLifeInv ==
    ASSUME LifeInv, ProcExits \/ HangUp \/ WaitSession
    PROVE  LifeInv'
<1> USE DEF LifeInv, GatesAndFd, TypeOK, ResizeUsesOpenFd, StartsWhenBothGates,
            ExitStatusIsTrue, Startup, ReaderInOrder, CloseInOrder, ToldIsRecorded,
            done, Codes, gateVars, procVars, closeVars, readerVars
<1>1. CASE ProcExits
  BY <1>1 DEF ProcExits
<1>2. CASE HangUp
  BY <1>2 DEF HangUp
<1>3. CASE WaitSession
  BY <1>3 DEF WaitSession
<1> QED
  BY <1>1, <1>2, <1>3

LEMMA NextLifeInv == LifeInv /\ [Next]_vars => LifeInv'
<1> SUFFICES ASSUME LifeInv, [Next]_vars PROVE LifeInv'
  OBVIOUS
<1>1. CASE UNCHANGED vars
  BY <1>1
  DEF vars, gateVars, procVars, closeVars, readerVars, LifeInv, GatesAndFd, TypeOK,
      ResizeUsesOpenFd, StartsWhenBothGates, ExitStatusIsTrue, Startup, ReaderInOrder,
      CloseInOrder, ToldIsRecorded, done
<1>2. CASE Next
  BY <1>2, StartupKeepsLifeInv, ReaderKeepsLifeInv, CloseKeepsLifeInv, OthersKeepLifeInv
  DEF Next
<1> QED
  BY <1>1, <1>2

-----------------------------------------------------------------------------
(* Theorems.                                                               *)

\* The invariant of a session's life that the others follow from.
THEOREM LifeInvariant ==
    ASSUME LifecycleConstants
    PROVE  Spec => []LifeInv
<1>1. Init => LifeInv
  BY InitLifeInv
<1>2. LifeInv /\ [Next]_vars => LifeInv'
  BY NextLifeInv
<1> QED
  BY <1>1, <1>2, PTL DEF Spec

\* Resize never uses a closed fd, whoever closes the session, and the process starts
\* when both gates are open, in whichever order and by whosever client they open.
THEOREM GatesAndFdHolds ==
    ASSUME LifecycleConstants
    PROVE  Spec => []GatesAndFd
<1>1. LifeInv => GatesAndFd
  BY DEF LifeInv
<1> QED
  BY <1>1, LifeInvariant, PTL

\* SessionGone, the SESSION_CLOSED note and the answer to WAIT_SESSION carry the
\* status with which the process ended, or say that it is not known.
THEOREM ExitStatusIsTrueHolds ==
    ASSUME LifecycleConstants
    PROVE  Spec => []ExitStatusIsTrue
<1>1. LifeInv => ExitStatusIsTrue
  BY DEF LifeInv
<1> QED
  BY <1>1, LifeInvariant, PTL

\* After Close no process of the session runs, unless a DeleteSession overtook its
\* publication.
THEOREM ClosedLeavesNothingHolds ==
    ASSUME LifecycleConstants
    PROVE  Spec => []ClosedLeavesNothing
<1>1. LifeInv => ClosedLeavesNothing
  BY DEF LifeInv, GatesAndFd, TypeOK, Startup, ReaderInOrder, CloseInOrder,
         ClosedLeavesNothing, done
<1> QED
  BY <1>1, LifeInvariant, PTL

-----------------------------------------------------------------------------
(* The table: its inductive invariant.                                     *)

\* Only sessions that were started are registered, and at any time only finitely
\* many are active, so that they can be counted.
Registering == \A r \in Requests : pc[r] = "register" => r \in started
FinitelyMany == IsFiniteSet(M!Active)

TableInv == M!TableConsistent /\ M!NoneLost /\ Registering /\ FinitelyMany

-----------------------------------------------------------------------------
(* Lemmas about the active sessions.                                       *)

\* The Cardinality of the table's own FiniteSets is the one the library is about.
LEMMA SameCardinality == \A S : M!Cardinality(S) = Cardinality(S)
BY DEF M!Cardinality, Cardinality

\* Where no session becomes active, those that are keep their names and are no more:
\* every step but Register.
LEMMA FewerActive ==
    ASSUME M!NamesUnique, M!LimitRespected, FinitelyMany, M!ManagerConstants,
           M!Active' \subseteq M!Active
    PROVE  M!NamesUnique' /\ M!LimitRespected' /\ FinitelyMany'
<1>1. FinitelyMany' /\ Cardinality(M!Active') <= Cardinality(M!Active)
  BY FS_Subset DEF FinitelyMany
<1>2. Cardinality(M!Active) \in Nat /\ Cardinality(M!Active') \in Nat
  BY <1>1, FS_CardinalityType DEF FinitelyMany
<1>3. M!LimitRespected'
  BY <1>1, <1>2, SameCardinality DEF M!LimitRespected, M!ManagerConstants
<1>4. M!NamesUnique'
  BY DEF M!NamesUnique
<1> QED
  BY <1>1, <1>3, <1>4

\* One session that passes both checks under the lock: CreateSession's registration.
LEMMA OneMoreActive ==
    ASSUME M!NamesUnique, M!LimitRespected, FinitelyMany, M!ManagerConstants,
           NEW r, M!Active' \subseteq M!Active \union {r},
           ~M!NameTaken(NameOf[r]), ~M!OverLimit
    PROVE  M!NamesUnique' /\ M!LimitRespected' /\ FinitelyMany'
<1> DEFINE Grown == M!Active \union {r}
<1>1. IsFiniteSet(Grown) /\ Cardinality(Grown) <= Cardinality(M!Active) + 1
  <2>1. IsFiniteSet(M!Active) /\ Cardinality(M!Active) \in Nat
    BY FS_CardinalityType DEF FinitelyMany
  <2>2. /\ IsFiniteSet(Grown)
        /\ \/ Cardinality(Grown) = Cardinality(M!Active)
           \/ Cardinality(Grown) = Cardinality(M!Active) + 1
    BY <2>1, FS_AddElement
  <2> HIDE DEF Grown
  <2> QED
    BY <2>1, <2>2
<1>2. FinitelyMany' /\ Cardinality(M!Active') <= Cardinality(Grown)
  BY <1>1, FS_Subset DEF FinitelyMany
<1>3. /\ Cardinality(M!Active) \in Nat
      /\ Cardinality(Grown) \in Nat
      /\ Cardinality(M!Active') \in Nat
  BY <1>1, <1>2, FS_CardinalityType DEF FinitelyMany
<1>4. M!LimitRespected'
  BY <1>1, <1>2, <1>3, SameCardinality DEF M!LimitRespected, M!OverLimit, M!ManagerConstants
<1>5. M!NamesUnique'
  BY DEF M!NamesUnique, M!NameTaken
<1> QED
  BY <1>2, <1>4, <1>5

-----------------------------------------------------------------------------
(* The invariant.                                                          *)

LEMMA InitTableInv == M!ManagerConstants /\ M!Init => TableInv
<1> SUFFICES ASSUME M!ManagerConstants, M!Init PROVE TableInv
  OBVIOUS
<1>1. M!Active = {} /\ IsFiniteSet({}) /\ Cardinality({}) = 0
  BY FS_EmptySet DEF M!Init, M!Active
<1>2. M!TypeOK /\ M!NamesUnique /\ M!CleanupOnlyDead
  BY <1>1 DEF M!Init, M!TypeOK, M!NamesUnique, M!CleanupOnlyDead
<1>3. M!LimitRespected /\ FinitelyMany
  BY <1>1, SameCardinality DEF M!LimitRespected, FinitelyMany, M!ManagerConstants
<1>4. M!NoneLost /\ Registering
  BY DEF M!Init, M!NoneLost, Registering
<1> QED
  BY <1>2, <1>3, <1>4 DEF TableInv, M!TableConsistent

\* CreateSession's checks before the session is started, and their failures.
LEMMA ChecksKeepTableInv ==
    ASSUME M!ManagerConstants, TableInv, NEW r \in Requests,
           M!CheckName(r) \/ M!CheckLimit(r) \/ M!NewSessionFails(r)
    PROVE  TableInv'
<1>1. UNCHANGED <<sessions, started, ended, overGrace, attached, cleanup>>
  BY DEF M!CheckName, M!CheckLimit, M!NewSessionFails, M!sessionVars
<1>2. /\ pc' \in [Requests -> {"name", "limit", "start", "register", "ok", "failed"}]
      /\ \A t \in Requests : pc'[t] = "register" <=> pc[t] = "register"
  BY DEF M!CheckName, M!CheckLimit, M!NewSessionFails, M!Goto, TableInv, M!TableConsistent, M!TypeOK
<1>3. M!TypeOK' /\ M!CleanupOnlyDead' /\ M!NoneLost' /\ Registering'
  BY <1>1, <1>2
  DEF TableInv, M!TableConsistent, M!TypeOK, M!CleanupOnlyDead, M!NoneLost, Registering
<1>4. M!NamesUnique' /\ M!LimitRespected' /\ FinitelyMany'
  BY <1>1, FewerActive DEF TableInv, M!TableConsistent, M!Active
<1> QED
  BY <1>3, <1>4 DEF TableInv, M!TableConsistent

\* The session is started; its request has yet to decide what becomes of it.
LEMMA NewSessionKeepsTableInv ==
    ASSUME M!ManagerConstants, TableInv, NEW r \in Requests, M!NewSession(r)
    PROVE  TableInv'
<1>1. /\ pc' = [pc EXCEPT ![r] = "register"]
      /\ started' = started \union {r}
      /\ UNCHANGED <<sessions, ended, overGrace, attached, cleanup>>
  BY DEF M!NewSession, M!Goto
<1>2. M!TypeOK' /\ M!CleanupOnlyDead'
  BY <1>1 DEF TableInv, M!TableConsistent, M!TypeOK, M!CleanupOnlyDead
<1>3. M!NoneLost' /\ Registering'
  BY <1>1 DEF TableInv, M!TableConsistent, M!TypeOK, M!NoneLost, Registering
<1>4. M!NamesUnique' /\ M!LimitRespected' /\ FinitelyMany'
  BY <1>1, FewerActive DEF TableInv, M!TableConsistent, M!Active
<1> QED
  BY <1>2, <1>3, <1>4 DEF TableInv, M!TableConsistent

\* The second check: the session is registered, or closed.
LEMMA RegisterKeepsTableInv ==
    ASSUME M!ManagerConstants, TableInv, NEW r \in Requests, M!Register(r)
    PROVE  TableInv'
<1>1. /\ r \in started
      /\ pc[r] = "register"
      /\ UNCHANGED <<started, overGrace, attached, cleanup>>
  BY DEF M!Register, TableInv, Registering
<1>2. CASE M!NameTaken(NameOf[r]) \/ M!OverLimit
  <2>1. /\ pc' = [pc EXCEPT ![r] = "failed"]
        /\ ended' = ended \union {r}
        /\ sessions' = sessions
    BY <1>2 DEF M!Register, M!Goto
  <2>2. M!TypeOK' /\ M!CleanupOnlyDead' /\ M!NoneLost' /\ Registering'
    BY <1>1, <2>1
    DEF TableInv, M!TableConsistent, M!TypeOK, M!CleanupOnlyDead, M!NoneLost, Registering
  <2>3. M!NamesUnique' /\ M!LimitRespected' /\ FinitelyMany'
    BY <2>1, FewerActive DEF TableInv, M!TableConsistent, M!Active
  <2> QED
    BY <2>2, <2>3 DEF TableInv, M!TableConsistent
<1>3. CASE ~M!NameTaken(NameOf[r]) /\ ~M!OverLimit
  <2>1. /\ pc' = [pc EXCEPT ![r] = "ok"]
        /\ sessions' = sessions \union {r}
        /\ ended' = ended
    BY <1>3 DEF M!Register, M!Goto
  <2>2. M!TypeOK' /\ M!CleanupOnlyDead' /\ M!NoneLost' /\ Registering'
    BY <1>1, <2>1
    DEF TableInv, M!TableConsistent, M!TypeOK, M!CleanupOnlyDead, M!NoneLost, Registering
  <2>3. M!Active' \subseteq M!Active \union {r}
    BY <2>1 DEF M!Active
  <2>4. M!NamesUnique' /\ M!LimitRespected' /\ FinitelyMany'
    BY <1>3, <2>3, OneMoreActive DEF TableInv, M!TableConsistent
  <2> QED
    BY <2>2, <2>4 DEF TableInv, M!TableConsistent
<1> QED
  BY <1>2, <1>3

\* What happens to a session once it is there, and the deletions: no session
\* becomes active, and no request moves.
LEMMA LifeKeepsTableInv ==
    ASSUME M!ManagerConstants, TableInv,
           \/ \E s \in Requests : \/ M!PtyEnds(s) \/ M!GraceElapses(s) \/ M!Attach(s) \/ M!Detach(s)
                                  \/ M!Kill(s)
           \/ M!CleanupScan
           \/ M!CleanupDelete
    PROVE  TableInv'
<1>1. /\ UNCHANGED <<pc, started>>
      /\ ended \subseteq ended' /\ ended' \subseteq started
      /\ sessions' \subseteq sessions /\ sessions \ sessions' \subseteq ended'
  BY DEF M!PtyEnds, M!GraceElapses, M!Attach, M!Detach, M!Kill, M!CleanupScan, M!CleanupDelete,
         M!DeleteSession, M!sessionVars, TableInv, M!TableConsistent, M!TypeOK
<1>2. /\ overGrace \subseteq overGrace' /\ overGrace' \subseteq ended'
      /\ attached' \subseteq started
      /\ cleanup' \subseteq overGrace'
  BY <1>1
  DEF M!PtyEnds, M!GraceElapses, M!Attach, M!Detach, M!Kill, M!CleanupScan, M!CleanupDelete,
      M!DeleteSession, M!sessionVars, TableInv, M!TableConsistent, M!TypeOK, M!CleanupOnlyDead
<1>3. M!TypeOK' /\ M!CleanupOnlyDead'
  BY <1>1, <1>2 DEF TableInv, M!TableConsistent, M!TypeOK, M!CleanupOnlyDead
<1>4. M!NoneLost' /\ Registering'
  BY <1>1 DEF TableInv, M!NoneLost, Registering
<1>5. M!NamesUnique' /\ M!LimitRespected' /\ FinitelyMany'
  <2>1. M!Active' \subseteq M!Active
    BY <1>1 DEF M!Active
  <2> QED
    BY <2>1, FewerActive DEF TableInv, M!TableConsistent
<1> QED
  BY <1>3, <1>4, <1>5 DEF TableInv, M!TableConsistent

LEMMA NextTableInv == M!ManagerConstants /\ TableInv /\ [M!Next]_(M!vars) => TableInv'
<1> SUFFICES ASSUME M!ManagerConstants, TableInv, [M!Next]_(M!vars) PROVE TableInv'
  OBVIOUS
<1>1. CASE \E r \in Requests : M!CheckName(r) \/ M!CheckLimit(r) \/ M!NewSessionFails(r)
  BY <1>1, ChecksKeepTableInv
<1>2. CASE \E r \in Requests : M!NewSession(r)
  BY <1>2, NewSessionKeepsTableInv
<1>3. CASE \E r \in Requests : M!Register(r)
  BY <1>3, RegisterKeepsTableInv
<1>4. CASE \/ \E s \in Requests : \/ M!PtyEnds(s) \/ M!GraceElapses(s) \/ M!Attach(s) \/ M!Detach(s)
                                  \/ M!Kill(s)
           \/ M!CleanupScan
           \/ M!CleanupDelete
  BY <1>4, LifeKeepsTableInv
<1>5. CASE UNCHANGED M!vars
  BY <1>5
  DEF M!vars, M!sessionVars, TableInv, M!TableConsistent, M!TypeOK, M!NamesUnique, M!LimitRespected,
      M!CleanupOnlyDead, M!NoneLost, Registering, FinitelyMany, M!Active
<1> QED
  BY <1>1, <1>2, <1>3, <1>4, <1>5 DEF M!Next

-----------------------------------------------------------------------------
(* Theorems.                                                               *)

\* The invariant that the others follow from: a session a request has made is one
\* that it will register or close, and the active ones can be counted.
THEOREM TableInvariant ==
    ASSUME M!ManagerConstants
    PROVE  M!Spec => []TableInv
<1>1. M!Init => TableInv
  BY InitTableInv
<1>2. TableInv /\ [M!Next]_(M!vars) => TableInv'
  BY NextTableInv
<1> QED
  BY <1>1, <1>2, PTL DEF M!Spec

\* CreateSession's double check: however many requests and cleanups overlap, two
\* active sessions never share a name, the limit holds, and the cleanup lists dead
\* sessions only.
THEOREM TableConsistentHolds ==
    ASSUME M!ManagerConstants
    PROVE  M!Spec => []M!TableConsistent
<1>1. TableInv => M!TableConsistent
  BY DEF TableInv
<1> QED
  BY <1>1, TableInvariant, PTL

\* CreateSession's failure path: a session that was started is registered, closed, or
\* in the hands of a request that is about to do one of the two.
THEOREM NoneLostHolds ==
    ASSUME M!ManagerConstants
    PROVE  M!Spec => []M!NoneLost
<1>1. TableInv => M!NoneLost
  BY DEF TableInv
<1> QED
  BY <1>1, TableInvariant, PTL

-----------------------------------------------------------------------------
(* The session layer as a whole.                                           *)

\* A step of a session's life leaves the table alone, and the other way about: each
\* part of the layer is a behaviour of its own specification.
LEMMA PartsAreSpecs == SessionsSpec => Spec /\ M!Spec
<1>1. [SessionsNext]_<<vars, tableVars, part>> => [Next]_vars
  BY DEF SessionsNext
<1>2. [SessionsNext]_<<vars, tableVars, part>> => [M!Next]_(M!vars)
  BY DEF SessionsNext, tableVars, M!vars, M!sessionVars
<1> QED
  BY <1>1, <1>2, PTL DEF SessionsSpec, SessionsInit, Spec, M!Spec

\* In the layer too the names of active sessions are unique, their number is limited
\* and a cleanup deletes dead ones only, whatever CreateSession, DeleteSession and the
\* ticker do at once.
THEOREM TableConsistentInLayer ==
    ASSUME M!ManagerConstants
    PROVE  SessionsSpec => []TableConsistent
<1>1. M!TableConsistent => TableConsistent
  BY DEF TableConsistent
<1> QED
  BY <1>1, TableConsistentHolds, PartsAreSpecs, PTL

\* And no session that CreateSession started is lost.
THEOREM NoneLostInLayer ==
    ASSUME M!ManagerConstants
    PROVE  SessionsSpec => []NoneLost
<1>1. M!NoneLost => NoneLost
  BY DEF NoneLost
<1> QED
  BY <1>1, NoneLostHolds, PartsAreSpecs, PTL

\* The layer keeps what its life promises.
THEOREM LifeInLayer ==
    ASSUME LifecycleConstants
    PROVE  SessionsSpec => [](GatesAndFd /\ ExitStatusIsTrue /\ ClosedLeavesNothing)
BY PartsAreSpecs, GatesAndFdHolds, ExitStatusIsTrueHolds, ClosedLeavesNothingHolds, PTL

-----------------------------------------------------------------------------
(* The registry of a remote-forwarded port: its inductive invariant.       *)

\* A registration when n Hellos have been counted.  What the client was told on its
\* connection is the last notice: a notice that is not repeated is one it has.
Prov(n) == [live : BOOLEAN, helloAt : 1 .. n, lostAt : 0 .. clock,
            notice : Notices, told : Notices]

ToldAsNoticed(ps) == \A c \in DOMAIN ps : ps[c].told = ps[c].notice

\* provs as an operation of the registry has changed it, when reconcileLocked begins.
Registrations(ps, n) ==
    /\ DOMAIN ps \subseteq Clients
    /\ \A c \in DOMAIN ps : ps[c] \in Prov(n)
    /\ ToldAsNoticed(ps)

\* What the operations of the registry keep, whoever calls them and when.
RegistryInv ==
    /\ Registrations(provs, hellos)
    /\ owner \in Devices \union {NoDevice} /\ bindErr \in BOOLEAN
    /\ PortHeldForADevice
    /\ NoticesUpToDate

HandlersInv ==
    /\ DOMAIN regd = Clients /\ DOMAIN handler = Clients
    /\ \A c \in Clients : /\ regd[c] \in 0 .. MaxConns[c]
                         /\ handler[c] \in [Conns(c) -> HandlerStates]

PortInv ==
    /\ clock \in 0 .. MaxClock /\ hellos \in Nat
    /\ taken \in BOOLEAN /\ dropped \in SUBSET Sessions
    /\ RegistryInv
    /\ HandlersInv

Expired(pr) == ~pr.live /\ clock - pr.lostAt > DormantTTL

-----------------------------------------------------------------------------
(* reconcileLocked.                                                        *)

\* latestLive finds one: the count of Hellos bounds when each was made.
LEMMA LatestIsOne ==
    ASSUME NEW ps, NEW n \in Nat, NEW S, S # {}, \A c \in S : ps[c].helloAt \in 1 .. n
    PROVE  \E c \in S : \A b \in S : ps[b].helloAt <= ps[c].helloAt
<1> DEFINE ages == {n - ps[c].helloAt : c \in S}
           less == {ss \in Nat \X Nat : ss[1] < ss[2]}
<1>1. ages \subseteq Nat /\ ages # {}
  OBVIOUS
<1>2. IsWellFoundedOn(less, Nat)
  <2>1. OpToRel(<, Nat) = less
    BY DEF OpToRel
  <2> QED
    BY <2>1, NatLessThanWellFounded
<1> HIDE DEF ages
<1>3. PICK a \in ages : \A b \in ages : <<b, a>> \notin less
  BY <1>1, <1>2, WFMin
<1>4. \A b \in ages : ~(b < a)
  <2> TAKE b \in ages
  <2>1. a \in Nat /\ b \in Nat
    BY <1>1
  <2>2. <<b, a>> \in Nat \X Nat /\ <<b, a>>[1] = b /\ <<b, a>>[2] = a
    BY <2>1
  <2> QED
    BY <1>3, <2>2
<1>5. PICK c \in S : a = n - ps[c].helloAt
  BY DEF ages
<1>6. ASSUME NEW b \in S PROVE ps[b].helloAt <= ps[c].helloAt
  <2>1. n - ps[b].helloAt \in ages
    BY DEF ages
  <2>2. ~(n - ps[b].helloAt < n - ps[c].helloAt)
    BY <1>4, <1>5, <2>1
  <2>3. ps[b].helloAt \in 1 .. n /\ ps[c].helloAt \in 1 .. n
    OBVIOUS
  <2> HIDE DEF less
  <2> QED
    BY <2>2, <2>3
<1> QED
  BY <1>6

\* A client is told one of the four states.
LEMMA StateForInNotices ==
    ASSUME NEW own, NEW err \in BOOLEAN, NEW c
    PROVE  StateFor(own, err, c) \in Notices
<1>1. CASE own = DeviceOf[c]
  BY <1>1 DEF StateFor, Notices
<1>2. CASE own \notin {DeviceOf[c], NoDevice}
  BY <1>2 DEF StateFor, Notices
<1>3. CASE own # DeviceOf[c] /\ own = NoDevice /\ err
  BY <1>3 DEF StateFor, Notices
<1>4. CASE own # DeviceOf[c] /\ own = NoDevice /\ ~err
  BY <1>4 DEF StateFor, Notices
<1> QED
  BY <1>1, <1>2, <1>3, <1>4

\* A notice brings what the client was told up to the state, sent or not.
LEMMA NotifyTells ==
    ASSUME NEW m \in Nat, NEW pr \in Prov(m), pr.told = pr.notice, NEW n \in Notices
    PROVE  /\ Notify(pr, n) \in Prov(m)
           /\ Notify(pr, n).live = pr.live
           /\ Notify(pr, n).lostAt = pr.lostAt
           /\ Notify(pr, n).told = Notify(pr, n).notice
           /\ Notify(pr, n).told = n
  BY DEF Notify, Prov

\* What reconcileLocked does, whatever changed before it: exactly the expired
\* registrations go; the port is held for a device that is still registered, and is
\* free with a client connected only if the bind failed; it leaves its device only
\* when that has nobody left; each connected client has been told the outcome.
LEMMA ReconcileSettles ==
    ASSUME RemoteForwardConstants, clock \in Nat,
           owner \in Devices \union {NoDevice}, bindErr \in BOOLEAN, taken \in BOOLEAN,
           NEW ps, NEW n \in Nat, Registrations(ps, n), Reconcile(ps)
    PROVE  /\ DOMAIN provs' = {c \in DOMAIN ps : ~Expired(ps[c])}
           /\ \A c \in DOMAIN provs' :
                /\ provs'[c] \in Prov(n)
                /\ provs'[c].told = provs'[c].notice
                /\ provs'[c].live => provs'[c].told = StateFor(owner', bindErr', c)
           /\ owner' \in Devices \union {NoDevice} /\ bindErr' \in BOOLEAN
           /\ PortHeldForADevice'
           /\ owner # NoDevice /\ owner' # owner => ~HasDevice(DOMAIN provs', owner)
<1> DEFINE kept == {c \in DOMAIN ps : ps[c].live \/ clock - ps[c].lostAt <= DormantTTL}
           live == {c \in kept : ps[c].live}
           held == owner # NoDevice /\ HasDevice(kept, owner)
           bind == ~held /\ live # {}
           own  == IF held THEN owner
                   ELSE IF bind /\ ~taken THEN LatestDevice(ps, live) ELSE NoDevice
           err  == IF bind THEN taken ELSE bindErr
<1>1. /\ owner' = IF kept = {} THEN NoDevice ELSE own
      /\ bindErr' = IF kept = {} THEN FALSE ELSE err
      /\ provs' = [c \in kept |->
                     IF c \in live THEN Notify(ps[c], StateFor(own, err, c)) ELSE ps[c]]
  BY DEF Reconcile
<1>2. \A c \in DOMAIN ps : /\ c \in Clients /\ DeviceOf[c] \in Devices
                          /\ DeviceOf[c] # NoDevice
                          /\ ps[c] \in Prov(n) /\ ps[c].told = ps[c].notice
  BY DEF Registrations, ToldAsNoticed, Devices, RemoteForwardConstants
<1>3. live # {} => LatestDevice(ps, live) \in {DeviceOf[c] : c \in live}
  <2> SUFFICES ASSUME live # {} PROVE LatestDevice(ps, live) \in {DeviceOf[c] : c \in live}
    OBVIOUS
  <2>1. \A c \in live : ps[c].helloAt \in 1 .. n
    BY <1>2 DEF Prov
  <2> HIDE DEF live
  <2>2. \E c \in live : \A b \in live : ps[b].helloAt <= ps[c].helloAt
    BY <2>1, LatestIsOne
  <2> QED
    BY <2>2 DEF LatestDevice
<1>4. /\ own \in Devices \union {NoDevice} /\ err \in BOOLEAN
      /\ own # NoDevice => HasDevice(kept, own)
      /\ owner # NoDevice /\ own # owner => ~HasDevice(kept, owner)
      /\ own = NoDevice /\ live # {} => err
  BY <1>2, <1>3 DEF HasDevice
<1>5. /\ kept = {} => owner' = NoDevice /\ ~bindErr'
      /\ kept # {} => owner' = own /\ bindErr' = err
      /\ DOMAIN provs' = kept
  BY <1>1
<1>6. ASSUME NEW c \in kept
      PROVE  /\ provs'[c] \in Prov(n)
             /\ provs'[c].live = ps[c].live
             /\ provs'[c].told = provs'[c].notice
             /\ provs'[c].live => provs'[c].told = StateFor(owner', bindErr', c)
  <2>1. owner' = own /\ bindErr' = err
    BY <1>5
  <2>2. CASE c \in live
    <3>1. provs'[c] = Notify(ps[c], StateFor(own, err, c))
      BY <1>1, <2>2
    <3>2. StateFor(own, err, c) \in Notices
      BY <1>4, StateForInNotices
    <3> HIDE DEF own, err
    <3> QED
      BY <1>2, <2>1, <3>1, <3>2, NotifyTells
  <2>3. CASE c \notin live
    <3>1. provs'[c] = ps[c] /\ ~ps[c].live
      BY <1>1, <2>3
    <3> QED
      BY <1>2, <3>1
  <2> QED
    BY <2>2, <2>3
<1>7. kept = {c \in DOMAIN ps : ~Expired(ps[c])}
  BY <1>2 DEF Expired, Prov, RemoteForwardConstants
<1>8. PortHeldForADevice'
  <2>1. owner' # NoDevice => HasDevice(DOMAIN provs', owner')
    BY <1>4, <1>5
  <2>2. ASSUME owner' = NoDevice, NEW c \in DOMAIN provs', provs'[c].live
        PROVE  bindErr'
    BY <1>4, <1>5, <1>6, <2>2
  <2> QED
    BY <2>1, <2>2 DEF PortHeldForADevice
<1>9. owner # NoDevice /\ owner' # owner => ~HasDevice(DOMAIN provs', owner)
  BY <1>4, <1>5 DEF HasDevice
<1>10. owner' \in Devices \union {NoDevice} /\ bindErr' \in BOOLEAN
  <2> HIDE DEF own, err
  <2> QED
    BY <1>1, <1>4
<1> HIDE DEF kept
<1> QED
  BY <1>5, <1>6, <1>7, <1>8, <1>9, <1>10

\* The bodies of the two action properties.
NotStolen == owner # NoDevice /\ owner' # owner => ~HasDevice(DOMAIN provs', owner)

KeptUnlessOver ==
    \A c \in DOMAIN provs :
       DeviceOf[c] = owner /\ c \notin DOMAIN provs' =>
          \/ SessionOf[c] \in dropped'
          \/ \E k \in Conns(c) : handler[c][k] = "exited"
          \/ Expired(provs[c])

\* reconcileLocked as each operation uses it.
LEMMA OperationSettles ==
    ASSUME RemoteForwardConstants, PortInv, clock' = clock, hellos' \in Nat,
           NEW ps, Registrations(ps, hellos'), Reconcile(ps)
    PROVE  /\ RegistryInv'
           /\ NotStolen
           /\ DOMAIN provs' = {c \in DOMAIN ps : ~Expired(ps[c])}
<1>1. /\ clock \in Nat /\ owner \in Devices \union {NoDevice}
      /\ bindErr \in BOOLEAN /\ taken \in BOOLEAN
  BY DEF PortInv, RegistryInv, RemoteForwardConstants
<1>2. /\ DOMAIN provs' = {c \in DOMAIN ps : ~Expired(ps[c])}
      /\ \A c \in DOMAIN provs' :
           /\ provs'[c] \in Prov(hellos')
           /\ provs'[c].told = provs'[c].notice
           /\ provs'[c].live => provs'[c].told = StateFor(owner', bindErr', c)
      /\ owner' \in Devices \union {NoDevice} /\ bindErr' \in BOOLEAN
      /\ PortHeldForADevice'
      /\ NotStolen
  BY <1>1, ReconcileSettles DEF NotStolen
<1>3. Prov(hellos') = Prov(hellos)'
  BY DEF Prov
<1>4. Registrations(provs, hellos)'
  BY <1>2, <1>3 DEF Registrations, ToldAsNoticed
<1>5. NoticesUpToDate'
  BY <1>2 DEF NoticesUpToDate
<1> QED
  BY <1>2, <1>4, <1>5 DEF RegistryInv

-----------------------------------------------------------------------------
(* The operations.                                                         *)

\* hello: the new registration is live and has been told nothing.
LEMMA HelloSettles ==
    ASSUME RemoteForwardConstants, PortInv, NEW c \in Clients, NEW k \in Conns(c), CallHello(c, k)
    PROVE  RegistryInv' /\ NotStolen /\ KeptUnlessOver
<1> DEFINE pr == [live |-> TRUE, helloAt |-> hellos + 1, lostAt |-> 0,
                  notice |-> "", told |-> ""]
           ps == [b \in DOMAIN provs \union {c} |-> IF b = c THEN pr ELSE provs[b]]
<1>0. hellos' = hellos + 1 /\ clock' = clock /\ hellos \in Nat /\ clock \in Nat
  <2>1. hellos' = hellos + 1 /\ clock' = clock
    BY DEF CallHello, Hello
  <2>2. hellos \in Nat /\ clock \in Nat
    BY DEF PortInv, RemoteForwardConstants
  <2> QED
    BY <2>1, <2>2
<1>1. Reconcile(ps)
  BY DEF CallHello, Hello
<1>2. pr \in Prov(hellos')
  BY <1>0 DEF Prov, Notices
<1>3. \A b \in DOMAIN provs : provs[b] \in Prov(hellos') /\ provs[b].told = provs[b].notice
  <2>1. \A b \in DOMAIN provs : provs[b] \in Prov(hellos) /\ provs[b].told = provs[b].notice
    BY DEF PortInv, RegistryInv, Registrations, ToldAsNoticed
  <2> QED
    BY <1>0, <2>1 DEF Prov
<1>4. Registrations(ps, hellos')
  BY <1>2, <1>3 DEF Registrations, ToldAsNoticed, PortInv, RegistryInv
<1>5. hellos' \in Nat
  BY <1>0
<1>6. /\ RegistryInv' /\ NotStolen
      /\ DOMAIN provs' = {b \in DOMAIN ps : ~Expired(ps[b])}
  BY <1>0, <1>1, <1>4, <1>5, OperationSettles
<1>7. KeptUnlessOver
  BY <1>6 DEF KeptUnlessOver, Expired
<1> QED
  BY <1>6, <1>7

\* gone: only the owner's device is kept from losing its registration.
LEMMA GoneSettles ==
    ASSUME RemoteForwardConstants, PortInv, NEW c \in Clients, NEW k \in Conns(c), CallGone(c, k)
    PROVE  RegistryInv' /\ NotStolen /\ KeptUnlessOver
<1>0. clock' = clock /\ hellos' = hellos /\ hellos' \in Nat
  BY DEF CallGone, PortInv
<1>1. \A b \in DOMAIN provs : /\ provs[b] \in Prov(hellos')
                             /\ provs[b].told = provs[b].notice
                             /\ b \in Clients
  BY <1>0 DEF PortInv, RegistryInv, Registrations, ToldAsNoticed
<1>2. CASE c \notin DOMAIN provs
  <2>1. UNCHANGED registryVars
    BY <1>2 DEF CallGone, Gone
  <2> QED
    BY <1>0, <2>1 DEF PortInv, RegistryInv, Registrations, ToldAsNoticed, Prov, NotStolen,
       KeptUnlessOver, PortHeldForADevice, NoticesUpToDate, registryVars
<1>3. CASE c \in DOMAIN provs /\ (handler[c][k] = "exited" \/ DeviceOf[c] # owner)
  <2>1. Reconcile(Without(c))
    BY <1>3 DEF CallGone, Gone
  <2>2. Registrations(Without(c), hellos')
    BY <1>1 DEF Registrations, ToldAsNoticed, Without
  <2>3. /\ RegistryInv' /\ NotStolen
        /\ DOMAIN provs' = {b \in DOMAIN Without(c) : ~Expired(Without(c)[b])}
    BY <1>0, <2>1, <2>2, OperationSettles
  <2>4. KeptUnlessOver
    BY <1>3, <2>3 DEF KeptUnlessOver, Without, Expired
  <2> QED
    BY <2>3, <2>4
<1>4. CASE c \in DOMAIN provs /\ handler[c][k] # "exited" /\ DeviceOf[c] = owner
  <2> DEFINE ps == [provs EXCEPT ![c].live = FALSE, ![c].lostAt = clock]
  <2>1. Reconcile(ps)
    BY <1>4 DEF CallGone, Gone
  <2>2. /\ DOMAIN ps = DOMAIN provs
        /\ \A b \in DOMAIN provs \ {c} : ps[b] = provs[b]
        /\ ps[c] = [provs[c] EXCEPT !.live = FALSE, !.lostAt = clock]
    BY <1>4
  <2>3. ps[c] \in Prov(hellos') /\ ps[c].told = ps[c].notice /\ ps[c].lostAt = clock
    <3>1. clock \in 0 .. clock
      BY DEF PortInv, RemoteForwardConstants
    <3> HIDE DEF ps
    <3>2. provs[c] \in Prov(hellos') /\ provs[c].told = provs[c].notice
      BY <1>1, <1>4
    <3> QED
      BY <2>2, <3>1, <3>2 DEF Prov
  <2> HIDE DEF ps
  <2>4. Registrations(ps, hellos')
    BY <1>1, <2>2, <2>3 DEF Registrations, ToldAsNoticed
  <2>5. /\ RegistryInv' /\ NotStolen
        /\ DOMAIN provs' = {b \in DOMAIN ps : ~Expired(ps[b])}
    BY <1>0, <2>1, <2>4, OperationSettles
  <2>6. ~Expired(ps[c])
    BY <2>3 DEF Expired, PortInv, RemoteForwardConstants
  <2>7. KeptUnlessOver
    BY <2>2, <2>5, <2>6 DEF KeptUnlessOver
  <2> QED
    BY <2>5, <2>7
<1> QED
  BY <1>2, <1>3, <1>4

\* tick changes nothing but what reconcileLocked finds.
LEMMA TickSettles ==
    ASSUME RemoteForwardConstants, PortInv, Tick
    PROVE  RegistryInv' /\ NotStolen /\ KeptUnlessOver
<1>0. clock' = clock /\ hellos' = hellos /\ hellos' \in Nat
  BY DEF Tick, PortInv
<1>1. CASE UNCHANGED registryVars
  BY <1>0, <1>1 DEF PortInv, RegistryInv, Registrations, ToldAsNoticed, Prov, NotStolen,
     KeptUnlessOver, PortHeldForADevice, NoticesUpToDate, registryVars
<1>2. CASE Reconcile(provs)
  <2>1. Registrations(provs, hellos')
    BY <1>0 DEF PortInv, RegistryInv
  <2>2. /\ RegistryInv' /\ NotStolen
        /\ DOMAIN provs' = {b \in DOMAIN provs : ~Expired(provs[b])}
    BY <1>0, <1>2, <2>1, OperationSettles
  <2> QED
    BY <2>2 DEF KeptUnlessOver
<1> QED
  BY <1>1, <1>2 DEF Tick

\* dropSession removes the clients of its session, and no other.
LEMMA DropSessionSettles ==
    ASSUME RemoteForwardConstants, PortInv, NEW s \in Sessions, DropSession(s)
    PROVE  RegistryInv' /\ NotStolen /\ KeptUnlessOver
<1> DEFINE removed == {c \in DOMAIN provs : SessionOf[c] = s}
           ps == [b \in DOMAIN provs \ removed |-> provs[b]]
<1>0. clock' = clock /\ hellos' = hellos /\ hellos' \in Nat /\ dropped' = dropped \union {s}
  BY DEF DropSession, PortInv
<1>1. CASE UNCHANGED registryVars
  BY <1>0, <1>1 DEF PortInv, RegistryInv, Registrations, ToldAsNoticed, Prov, NotStolen,
     KeptUnlessOver, PortHeldForADevice, NoticesUpToDate, registryVars
<1>2. CASE Reconcile(ps)
  <2>1. Registrations(ps, hellos')
    BY <1>0 DEF PortInv, RegistryInv, Registrations, ToldAsNoticed
  <2>2. /\ RegistryInv' /\ NotStolen
        /\ DOMAIN provs' = {b \in DOMAIN ps : ~Expired(ps[b])}
    BY <1>0, <1>2, <2>1, OperationSettles
  <2> QED
    BY <1>0, <2>2 DEF KeptUnlessOver
<1> QED
  BY <1>1, <1>2 DEF DropSession

-----------------------------------------------------------------------------
(* The handlers, and the theorems.                                         *)

\* A handler moves on: the entry of its own connection changes.
LEMMA HandlerMoves ==
    ASSUME HandlersInv, NEW c \in Clients, NEW k \in Conns(c), NEW now \in HandlerStates,
           SetHandler(c, k, now), regd' = regd \/ regd' = [regd EXCEPT ![c] = 0]
                                 \/ regd' = [regd EXCEPT ![c] = k]
    PROVE  HandlersInv'
<1>1. /\ DOMAIN handler' = Clients
      /\ \A b \in Clients : handler'[b] \in [Conns(b) -> HandlerStates]
  BY DEF HandlersInv, SetHandler
<1>2. MaxConns[c] \in Nat
  BY RemoteForwardConstants
<1>3. DOMAIN regd' = Clients /\ \A b \in Clients : regd'[b] \in 0 .. MaxConns[b]
  <2>1. 0 \in 0 .. MaxConns[c] /\ k \in 0 .. MaxConns[c]
    BY <1>2 DEF Conns
  <2> QED
    BY <2>1 DEF HandlersInv
<1> QED
  BY <1>1, <1>3 DEF HandlersInv

\* A step that leaves the registry alone, whatever the clock does.
LEMMA RegistryUntouched ==
    ASSUME PortInv, UNCHANGED <<hellos, registryVars>>, clock' \in Nat, clock <= clock'
    PROVE  RegistryInv' /\ NotStolen /\ KeptUnlessOver
<1>1. clock \in Nat
  BY RemoteForwardConstants DEF PortInv
<1>2. ASSUME NEW pr \in Prov(hellos) PROVE pr \in Prov(hellos)'
  BY <1>1 DEF Prov
<1>3. Registrations(provs, hellos)'
  BY <1>2 DEF PortInv, RegistryInv, Registrations, ToldAsNoticed, registryVars
<1> QED
  BY <1>3 DEF PortInv, RegistryInv, PortHeldForADevice, NoticesUpToDate, NotStolen,
     KeptUnlessOver, registryVars

\* One step of the system, with everything the properties ask of it.
LEMMA StepSettles ==
    ASSUME PortInv, [PortNext]_portVars
    PROVE  PortInv' /\ NotStolen /\ KeptUnlessOver
<1> USE RemoteForwardConstants
<1> DEFINE Rest == /\ clock' \in 0 .. MaxClock /\ hellos' \in Nat
                   /\ taken' \in BOOLEAN /\ dropped' \in SUBSET Sessions
           Goal == Rest /\ RegistryInv' /\ HandlersInv' /\ NotStolen /\ KeptUnlessOver
<1>1. SUFFICES Goal
  BY DEF PortInv
<1>2. /\ clock \in 0 .. MaxClock /\ clock \in Nat /\ hellos \in Nat
      /\ taken \in BOOLEAN /\ dropped \in SUBSET Sessions
      /\ HandlersInv
  BY DEF PortInv
<1>3. ASSUME NEW c \in Clients, NEW k \in Conns(c), Register(c, k) PROVE Goal
  <2>1. Rest
    BY <1>2, <1>3 DEF Register
  <2>2. "registered" \in HandlerStates
    BY DEF HandlerStates
  <2>3. HandlersInv'
    BY <1>2, <1>3, <2>2, HandlerMoves DEF Register
  <2>4. RegistryInv' /\ NotStolen /\ KeptUnlessOver
    BY <1>2, <1>3, RegistryUntouched DEF Register
  <2> QED
    BY <2>1, <2>3, <2>4
<1>4. ASSUME NEW c \in Clients, NEW k \in Conns(c), CallHello(c, k) PROVE Goal
  <2>1. Rest
    <3>1. hellos' = hellos + 1 /\ UNCHANGED <<clock, taken, dropped>>
      BY <1>4 DEF CallHello, Hello
    <3> QED
      BY <1>2, <3>1
  <2>2. "serving" \in HandlerStates
    BY DEF HandlerStates
  <2>3. HandlersInv'
    BY <1>2, <1>4, <2>2, HandlerMoves DEF CallHello
  <2> QED
    BY <1>4, <2>1, <2>3, HelloSettles
<1>5. ASSUME NEW c \in Clients, NEW k \in Conns(c), CallGone(c, k) PROVE Goal
  <2>1. Rest
    BY <1>2, <1>5 DEF CallGone
  <2>2. "ended" \in HandlerStates
    BY DEF HandlerStates
  <2>3. HandlersInv'
    BY <1>2, <1>5, <2>2, HandlerMoves DEF CallGone
  <2> QED
    BY <1>5, <2>1, <2>3, GoneSettles
<1>6. ASSUME NEW c \in Clients, NEW k \in Conns(c), NEW how \in Leaving, ConnEnds(c, k, how)
      PROVE  Goal
  <2>1. Rest
    BY <1>2, <1>6 DEF ConnEnds
  <2>2. how \in HandlerStates /\ "ended" \in HandlerStates
    BY DEF HandlerStates
  <2>3. HandlersInv'
    BY <1>2, <1>6, <2>2, HandlerMoves DEF ConnEnds
  <2>4. RegistryInv' /\ NotStolen /\ KeptUnlessOver
    BY <1>2, <1>6, RegistryUntouched DEF ConnEnds
  <2> QED
    BY <2>1, <2>3, <2>4
<1>7. CASE Tick
  <2>1. Rest /\ HandlersInv'
    BY <1>2, <1>7 DEF Tick, HandlersInv, connVars
  <2> QED
    BY <1>7, <2>1, TickSettles
<1>8. ASSUME NEW s \in Sessions, DropSession(s) PROVE Goal
  <2>1. Rest /\ HandlersInv'
    BY <1>2, <1>8 DEF DropSession, HandlersInv, connVars
  <2> QED
    BY <1>8, <2>1, DropSessionSettles
<1>9. CASE OtherProcess
  <2>1. Rest /\ HandlersInv'
    BY <1>2, <1>9 DEF OtherProcess, HandlersInv, connVars
  <2>2. RegistryInv' /\ NotStolen /\ KeptUnlessOver
    BY <1>2, <1>9, RegistryUntouched DEF OtherProcess
  <2> QED
    BY <2>1, <2>2
<1>10. CASE Elapse
  <2>1. Rest /\ HandlersInv'
    BY <1>2, <1>10 DEF Elapse, HandlersInv, connVars
  <2>2. RegistryInv' /\ NotStolen /\ KeptUnlessOver
    BY <1>2, <1>10, RegistryUntouched DEF Elapse
  <2> QED
    BY <2>1, <2>2
<1>11. CASE UNCHANGED portVars
  <2>1. Rest /\ HandlersInv'
    BY <1>2, <1>11 DEF portVars, HandlersInv, connVars
  <2>2. RegistryInv' /\ NotStolen /\ KeptUnlessOver
    BY <1>2, <1>11, RegistryUntouched DEF portVars
  <2> QED
    BY <2>1, <2>2
<1> QED
  BY <1>3, <1>4, <1>5, <1>6, <1>7, <1>8, <1>9, <1>10, <1>11 DEF PortNext

\* The inductive invariant: what the registry keeps through every call, in whatever
\* order the handlers of the connections make theirs.
THEOREM RegistryInvariant == PortSpec => []PortInv
<1>1. PortInit => PortInv
  <2> SUFFICES ASSUME PortInit PROVE PortInv
    OBVIOUS
  <2> USE RemoteForwardConstants DEF PortInit
  <2>1. RegistryInv
    BY DEF RegistryInv, Registrations, ToldAsNoticed, PortHeldForADevice, NoticesUpToDate,
       NoProvs
  <2>2. HandlersInv
    BY DEF HandlersInv, HandlerStates
  <2> QED
    BY <2>1, <2>2 DEF PortInv
<1>2. PortInv /\ [PortNext]_portVars => PortInv'
  BY StepSettles
<1> QED
  BY <1>1, <1>2, PTL DEF PortSpec

\* The port belongs to a machine that is connected or may come back, it is free with
\* someone waiting only because the bind failed, and what each connected client was
\* told on its present connection is true.
THEOREM PortConsistentHolds == PortSpec => []PortConsistent
<1>1. PortInv => PortConsistent
  <2> SUFFICES ASSUME PortInv PROVE PortConsistent
    OBVIOUS
  <2>1. PortTypeOK
    BY DEF PortInv, RegistryInv, Registrations, Prov, HandlersInv, PortTypeOK
  <2> QED
    BY <2>1 DEF PortInv, RegistryInv, PortConsistent
<1> QED
  BY <1>1, RegistryInvariant, PTL

\* Another machine never takes the port from one that still has a registration.
THEOREM NeverStolenHolds == PortSpec => NeverStolen
<1>1. PortInv /\ [PortNext]_portVars => [NotStolen]_portVars
  BY StepSettles
<1>2. NotStolen
      <=> (owner # NoDevice /\ owner' # owner => ~HasDevice(DOMAIN provs', owner))
  BY DEF NotStolen
<1> QED
  BY <1>1, <1>2, RegistryInvariant, PTL DEF PortSpec, NeverStolen, NotStolen

\* A registration of the machine that has the port ends only by an exit, by the
\* deletion of its session, or after DormantTTL: not by a lost connection.
THEOREM KeptWhileAsleepHolds == PortSpec => KeptWhileAsleep
<1>1. PortInv /\ [PortNext]_portVars
      => [\A c \in DOMAIN provs :
            DeviceOf[c] = owner /\ c \notin DOMAIN provs' =>
               \/ SessionOf[c] \in dropped'
               \/ \E k \in Conns(c) : handler[c][k] = "exited"
               \/ ~provs[c].live /\ clock - provs[c].lostAt > DormantTTL]_portVars
  BY StepSettles DEF KeptUnlessOver, Expired
<1> QED
  BY <1>1, RegistryInvariant, PTL DEF PortSpec, KeptWhileAsleep
==============================================================================
