-------------------------- MODULE SessionLifecycle --------------------------
(***************************************************************************)
(* The life of one session at the server, from CREATE_SESSION to the end   *)
(* of its process (internal/session/session.go, and handleConnection in    *)
(* cmd/tezzerd/main.go).  Five goroutines touch it: the creating           *)
(* connection; the starter, which waits for QUIC and starts the process;   *)
(* the PTY reader; reapProcess's wait; and whoever kills the session.      *)
(* Close runs once and the other callers wait for it (sync.Once).          *)
(***************************************************************************)
EXTENDS Naturals, FiniteSets

CONSTANTS Ids,     \* QUIC client IDs that clients of the session send
          Creator, \* the one of the client that creates the session
          Races    \* windows of the startup in which others act: "kill", the
                   \* session is deleted; "attach", another client joins before
                   \* BeginQuicPendingMode

ASSUME LifecycleConstants ==
    Creator \in Ids /\ Races \subseteq {"kill", "attach"}

VARIABLES
    st,        \* the QUIC transport could be started
    creator,   \* the creating connection: "created", "attached"
    quicReady, \* UDS delivery is allowed
    readyCh,   \* quicReadyCh is closed
    ids,       \* quicClientIDsOut
    connected, \* quicTransportConnected
    starter,   \* "none", "wait", "spawn", "publish", "close", "end"
    published, \* ptyMaster and proc are set
    fd,        \* the PTY master: "none", "open", "closed"
    hung,      \* no process has the terminal open any more
    proc,      \* "none", "running", "exited" (a zombie), "reaped"
    status,    \* how it ended: "none", "exit", "killed"
    reader,    \* ptyReader: "none", "check", "read", "mark", "reap", "select",
               \* "notify", "close", "end"
    waitCh,    \* reapProcess's goroutine: "none", "waiting", "done"
    killer,    \* DeleteSession: "idle", "close", "end"
    closePC,   \* Close: "idle", "read", "gone", "mark", "fd", "kill", "done"
    closing,   \* what Close read: ptyClosed, and later ptyMaster and proc
    ptyClosed,
    exitCode,  \* "unknown", or a status
    gone,      \* SessionGone sent: "none", "NO_SUCH_SESSION", "unknown" or a status
    note,      \* SESSION_CLOSED note: "none", "unknown" or a status
    waiter     \* what a WAIT_SESSION client was told, as note

gateVars == <<st, creator, quicReady, readyCh, ids, connected>>
procVars == <<published, fd, hung, proc, status>>
closeVars == <<killer, closePC, closing, gone>>
readerVars == <<reader, waitCh, exitCode, note>>
vars == <<gateVars, starter, procVars, closeVars, readerVars, ptyClosed, waiter>>

Init ==
    /\ st \in BOOLEAN
    /\ creator = "created" /\ quicReady = TRUE /\ readyCh = FALSE
    /\ ids = {} /\ connected = FALSE
    /\ starter = "none"
    /\ published = FALSE /\ fd = "none" /\ hung = FALSE
    /\ proc = "none" /\ status = "none"
    /\ reader = "none" /\ waitCh = "none"
    /\ killer = "idle" /\ closePC = "idle" /\ closing = FALSE
    /\ ptyClosed = FALSE /\ exitCode = "unknown"
    /\ gone = "none" /\ note = "none" /\ waiter = "none"

done == closePC # "idle"

-----------------------------------------------------------------------------
(* The two gates of the startup.                                           *)

\* CREATE_SESSION goes on: UDS output is held back, the client is attached and
\* the starter goroutine begins.
BeginQuicPendingMode ==
    /\ creator = "created"
    /\ creator' = "attached"
    /\ quicReady' = FALSE
    /\ starter' = "wait"
    /\ UNCHANGED <<st, readyCh, ids, connected, procVars, closeVars, readerVars, ptyClosed, waiter>>

\* signalQuicReadyLocked, if the gates are open.
SignalQuicReady(open) ==
    IF open THEN quicReady' = TRUE /\ readyCh' = TRUE ELSE UNCHANGED <<quicReady, readyCh>>

\* Gate 1: UDPClientInfoMsg of a client.  Only the first one counts.
RegisterQUICClient(id) ==
    /\ st
    /\ id \notin ids
    /\ id = Creator => creator = "attached"
    /\ id # Creator /\ creator = "created" => "attach" \in Races
    /\ ids' = ids \union {id}
    /\ SignalQuicReady(ids = {} /\ connected)
    /\ UNCHANGED <<st, creator, connected, starter, procVars, closeVars, readerVars,
                   ptyClosed, waiter>>

\* Gate 2: the transport has accepted a connection.
OnQUICClientConnected ==
    /\ st
    /\ ~connected
    /\ connected' = TRUE
    /\ SignalQuicReady(ids # {})
    /\ UNCHANGED <<st, creator, ids, starter, procVars, closeVars, readerVars, ptyClosed, waiter>>

-----------------------------------------------------------------------------
(* The starter: a select over quicReadyCh, done and a 15 s timer.          *)

Starter(from, to) ==
    /\ starter = from
    /\ starter' = to
    /\ UNCHANGED <<gateVars, closeVars, ptyClosed, waiter>>

QuicReady == readyCh /\ Starter("wait", "spawn") /\ UNCHANGED <<procVars, readerVars>>

SessionDone == done /\ Starter("wait", "end") /\ UNCHANGED <<procVars, readerVars>>

\* Mutant: the wait for QUIC has no timer.
QuicTimeoutNever == FALSE

QuicTimeout == Starter("wait", "close") /\ UNCHANGED <<procVars, readerVars>>

\* StartProcess: pty.Start ...
Spawn ==
    /\ Starter("spawn", "publish")
    /\ proc' = "running" /\ fd' = "open"
    /\ UNCHANGED <<published, hung, status, readerVars>>

SpawnFails == Starter("spawn", "close") /\ UNCHANGED <<procVars, readerVars>>

\* ... Setsize; if it fails the master is closed, which hangs the process up ...
SetsizeFails ==
    /\ Starter("publish", "close")
    /\ fd' = "closed" /\ hung' = TRUE
    /\ proc' = "exited" /\ status' = "killed"
    /\ UNCHANGED <<published, readerVars>>

\* ... and ptyMaster and proc are set and the reader started.
Publish ==
    /\ Starter("publish", "end")
    /\ published' = TRUE
    /\ reader' = "check"
    /\ UNCHANGED <<fd, hung, proc, status, waitCh, exitCode, note>>

-----------------------------------------------------------------------------
(* The process and the host.                                               *)

ProcExits ==
    /\ proc = "running"
    /\ proc' = "exited" /\ status' = "exit"
    /\ UNCHANGED <<gateVars, starter, published, fd, hung, closeVars, readerVars, ptyClosed, waiter>>

\* The last process closes the terminal: usually when ours exits, but a child
\* may keep it, and ours may live on without it.
HangUp ==
    /\ proc # "none"
    /\ ~hung
    /\ hung' = TRUE
    /\ UNCHANGED <<gateVars, starter, published, fd, proc, status, closeVars, readerVars,
                   ptyClosed, waiter>>

-----------------------------------------------------------------------------
(* ptyReader.                                                              *)

Reader(from, to) ==
    /\ reader = from
    /\ reader' = to
    /\ UNCHANGED <<gateVars, starter, published, fd, hung, status, closeVars, waiter>>

\* The select at the head of the loop.
ReaderCheck ==
    /\ Reader("check", IF done THEN "mark" ELSE "read")
    /\ UNCHANGED <<proc, ptyClosed, waitCh, exitCode, note>>

\* Read returns data (what becomes of it is the subject of OutputBuffer and
\* OutputDelivery), or fails once the terminal is hung up or the fd closed.
ReadData ==
    /\ fd = "open" /\ ~hung
    /\ Reader("read", "check")
    /\ UNCHANGED <<proc, ptyClosed, waitCh, exitCode, note>>

ReadFails ==
    /\ fd = "closed" \/ hung
    /\ Reader("read", "mark")
    /\ UNCHANGED <<proc, ptyClosed, waitCh, exitCode, note>>

\* The deferred function: ptyClosed, reapProcess, notifySessionClosed, Close.
MarkPtyClosed ==
    /\ Reader("mark", "reap")
    /\ ptyClosed' = TRUE
    /\ UNCHANGED <<proc, waitCh, exitCode, note>>

ReapBegin ==
    /\ Reader("reap", "select")
    /\ waitCh' = "waiting"
    /\ UNCHANGED <<proc, ptyClosed, exitCode, note>>

\* The goroutine that waits for the process, however long it takes.
WaitReturns ==
    /\ waitCh = "waiting"
    /\ proc = "exited"
    /\ proc' = "reaped"
    /\ waitCh' = "done"
    /\ UNCHANGED <<gateVars, starter, published, fd, hung, status, closeVars, reader,
                   exitCode, note, ptyClosed, waiter>>

\* Mutant: the exit code is recorded without waiting for the process.
ReapProcessEarly ==
    /\ Reader("select", "notify")
    /\ exitCode' = status
    /\ UNCHANGED <<proc, ptyClosed, waitCh, note>>

ReapProcess ==
    /\ waitCh = "done"
    /\ Reader("select", "notify")
    /\ exitCode' = status
    /\ UNCHANGED <<proc, ptyClosed, waitCh, note>>

\* After 3 s the exit code stays unknown.
ReapTimeout ==
    /\ Reader("select", "notify")
    /\ UNCHANGED <<proc, ptyClosed, waitCh, exitCode, note>>

NotifySessionClosed ==
    /\ Reader("notify", "close")
    /\ note' = exitCode
    /\ UNCHANGED <<proc, ptyClosed, waitCh, exitCode>>

-----------------------------------------------------------------------------
(* Close, called by the starter, the reader and DeleteSession.             *)

Kill ==
    /\ killer = "idle"
    /\ "kill" \in Races \/ starter = "end"
    /\ killer' = "close"
    /\ UNCHANGED <<gateVars, starter, procVars, closePC, closing, gone, readerVars,
                   ptyClosed, waiter>>

Calling == "close" \in {starter, reader, killer}

Closing(from, to) ==
    /\ closePC = from
    /\ closePC' = to
    /\ UNCHANGED <<gateVars, starter, killer, readerVars, waiter, published, hung>>

\* close(done)
CloseBegin ==
    /\ Calling
    /\ Closing("idle", "read")
    /\ UNCHANGED <<closing, gone, fd, proc, status, ptyClosed>>

CloseReads ==
    /\ Closing("read", "gone")
    /\ closing' = ptyClosed
    /\ UNCHANGED <<gone, fd, proc, status, ptyClosed>>

\* SessionGone to the clients, with the exit code if the PTY ended; then the
\* transport is closed.
SendSessionGone ==
    /\ Closing("gone", "mark")
    /\ gone' = IF ~st THEN "none" ELSE IF closing THEN exitCode ELSE "NO_SUCH_SESSION"
    /\ UNCHANGED <<closing, fd, proc, status, ptyClosed>>

\* Mutant: the fd is closed before ptyClosed is set.
CloseMarkLate ==
    /\ Closing("mark", "fd")
    /\ closing' = published
    /\ fd' = IF published THEN "closed" ELSE fd
    /\ UNCHANGED <<gone, proc, status, ptyClosed>>

\* Under the mutex: ptyClosed is set, ptyMaster and proc are read ...
CloseMark ==
    /\ Closing("mark", "fd")
    /\ ptyClosed' = TRUE
    /\ closing' = published
    /\ UNCHANGED <<gone, fd, proc, status>>

\* ... the master is closed ...
CloseFd ==
    /\ Closing("fd", "kill")
    /\ fd' = IF closing THEN "closed" ELSE fd
    /\ UNCHANGED <<closing, gone, proc, status, ptyClosed>>

\* Mutant: closing the master is thought to be enough.
CloseWithoutKill ==
    Closing("kill", "done") /\ UNCHANGED <<closing, gone, fd, ptyClosed, proc, status>>

\* ... and the process killed.
CloseKill ==
    /\ Closing("kill", "done")
    /\ IF closing /\ proc = "running"
       THEN proc' = "exited" /\ status' = "killed"
       ELSE UNCHANGED <<proc, status>>
    /\ UNCHANGED <<closing, gone, fd, ptyClosed>>

\* A caller of Close returns when the first one has finished.
Returned(pc) == IF pc = "close" THEN "end" ELSE pc

CloseReturns ==
    /\ Calling
    /\ closePC = "done"
    /\ starter' = Returned(starter)
    /\ reader' = Returned(reader)
    /\ killer' = Returned(killer)
    /\ UNCHANGED <<gateVars, procVars, closePC, closing, gone, waitCh, exitCode, note,
                   ptyClosed, waiter>>

\* waitSessionAndRespond: Done is closed, the exit code is read.
WaitSession ==
    /\ waiter = "none"
    /\ done
    /\ waiter' = exitCode
    /\ UNCHANGED <<gateVars, starter, procVars, closeVars, readerVars, ptyClosed>>

-----------------------------------------------------------------------------

StartupStep == \/ BeginQuicPendingMode \/ QuicReady \/ SessionDone \/ QuicTimeout
               \/ Spawn \/ SpawnFails \/ SetsizeFails \/ Publish
ReaderStep == \/ ReaderCheck \/ ReadData \/ ReadFails \/ MarkPtyClosed \/ ReapBegin
              \/ ReapProcess \/ ReapTimeout \/ NotifySessionClosed
CloseStep == \/ CloseBegin \/ CloseReads \/ SendSessionGone \/ CloseMark \/ CloseFd
             \/ CloseKill \/ CloseReturns

Next ==
    \/ \E id \in Ids : RegisterQUICClient(id)
    \/ OnQUICClientConnected
    \/ StartupStep
    \/ ReaderStep
    \/ WaitReturns
    \/ CloseStep
    \/ WaitSession
    \/ Kill
    \/ ProcExits
    \/ HangUp

Spec == Init /\ [][Next]_vars

\* The goroutines run.  Nothing makes a client come, a process exit or a
\* terminal hang up.
Fairness ==
    /\ WF_vars(StartupStep)
    /\ WF_vars(ReaderStep)
    /\ WF_vars(WaitReturns)
    /\ WF_vars(CloseStep)

FairSpec == Spec /\ Fairness

-----------------------------------------------------------------------------
(* Properties.                                                             *)

Codes == {"unknown", "exit", "killed"}

\* The values of the variables.
TypeOK ==
    /\ {st, quicReady, readyCh, connected, published, hung, closing, ptyClosed} \subseteq BOOLEAN
    /\ creator \in {"created", "attached"} /\ ids \in SUBSET Ids
    /\ starter \in {"none", "wait", "spawn", "publish", "close", "end"}
    /\ fd \in {"none", "open", "closed"}
    /\ proc \in {"none", "running", "exited", "reaped"}
    /\ status \in {"none", "exit", "killed"}
    /\ reader \in {"none", "check", "read", "mark", "reap", "select", "notify", "close", "end"}
    /\ waitCh \in {"none", "waiting", "done"}
    /\ killer \in {"idle", "close", "end"}
    /\ closePC \in {"idle", "read", "gone", "mark", "fd", "kill", "done"}
    /\ exitCode \in Codes
    /\ gone \in Codes \union {"none", "NO_SUCH_SESSION"}
    /\ {note, waiter} \subseteq Codes \union {"none"}

\* Resize calls Setsize under the mutex when ptyClosed is not set; the fd it uses
\* is then never a closed one, whoever is closing the session.
ResizeUsesOpenFd == published /\ ~ptyClosed => fd = "open"

\* A client is told the exit status of the process when the process ended by
\* itself: SessionGone carries it unless the wait for it timed out or somebody
\* killed the session meanwhile, and then it is "unknown", never a wrong one;
\* neither is what WAIT_SESSION answers, though done is closed before the end.
ExitStatusIsTrue ==
    /\ exitCode # "unknown" => proc = "reaped" /\ exitCode = status
    /\ gone \in {"exit", "killed"} => gone = status
    /\ waiter \in {"exit", "killed"} => waiter = status
    /\ note # "none" /\ exitCode # "unknown" => note = exitCode
    /\ note \in {"exit", "killed"} /\ killer = "idle" => gone \in {"none", note}

\* A session whose Close has finished, with nobody left to act on it, has no
\* process running, if Close saw the process or nobody deleted the session:
\* the two Closes of the startup and of the reader never miss one.
ClosedLeavesNothing ==
    /\ closePC = "done" /\ starter = "end" /\ reader \in {"none", "end"}
    /\ killer = "idle" \/ closing
    => proc # "running"

\* The same whoever closes it.  session.go, reapProcess: a process that outlives
\* its PTY is killed by Close and then reaped.
NothingRunsAfterClose ==
    closePC = "done" /\ starter = "end" /\ reader \in {"none", "end"} => proc # "running"

\* When both gates are open the process may start, in whichever order they open
\* and whoever's client opens them.
StartsWhenBothGates == ids # {} /\ connected => readyCh

\* And UDS output is allowed.  session.go: quicReady is true once both conditions
\* hold.
ReadyWhenBothGates ==
    creator = "attached" /\ ids # {} /\ connected => quicReady /\ readyCh

\* A session never stays half started: its process starts or it is closed, even
\* if no client ever connects.
StartupSettles == <>(published \/ closePC = "done")

\* The process of a closed session, or one whose terminal is gone, does not
\* remain a zombie once it exits, even if it exits long after the 3 s wait.
NoZombie ==
    (published /\ proc = "exited" /\ (hung \/ done)) ~> (proc = "reaped")

\* The order of the startup and of the close does not matter: both gates start the
\* process, and the fd is in use only while it is open.
GatesAndFd == TypeOK /\ ResizeUsesOpenFd /\ StartsWhenBothGates

\* Both ends of a session's life are reached: it starts or is closed, and its process
\* is collected.
LifeSettles == StartupSettles /\ NoZombie
=============================================================================
