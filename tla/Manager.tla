------------------------------- MODULE Manager -------------------------------
(***************************************************************************)
(* The session table of internal/session/manager.go: concurrent            *)
(* CREATE_SESSION requests, kills, and the ticker that deletes sessions    *)
(* whose process has ended.  A request checks the name and the limit,      *)
(* starts the session without holding the lock, and checks both again      *)
(* before it registers it.  What a session does is SessionLifecycle; here  *)
(* it is a name, whether its PTY has ended and whether clients are there.  *)
(***************************************************************************)
EXTENDS Naturals, FiniteSets

CONSTANTS Requests,    \* CREATE_SESSION requests; each makes at most one session
          NameOf,      \* the name each asks for
          NoName,      \* the empty name
          MaxSessions  \* --max-sessions, 0 for no limit

ManagerConstants ==
    /\ DOMAIN NameOf = Requests
    /\ MaxSessions \in Nat

VARIABLES
    pc,         \* CreateSession: "name", "limit", "start", "register", "ok", "failed"
    sessions,   \* Manager.sessions, by the request that made each
    started,    \* sessions NewSession has made, with their QUIC transports
    ptyClosed,  \* sessions whose PTY is marked closed
    overGrace,  \* of those, the ones closed for more than 30 s
    attached,   \* sessions with clients
    cleanup     \* cleanupClosedSessions: the sessions still to delete

sessionVars == <<started, ptyClosed, overGrace, attached>>
vars == <<pc, sessions, sessionVars, cleanup>>

Init ==
    /\ pc = [r \in Requests |-> "name"]
    /\ sessions = {} /\ started = {} /\ ptyClosed = {} /\ overGrace = {}
    /\ attached = {} /\ cleanup = {}

-----------------------------------------------------------------------------
(* CreateSession.                                                          *)

\* The active sessions: those whose PTY has not ended.
Active == sessions \ ptyClosed

\* FindByName
NameTaken(name) == name # NoName /\ \E s \in Active : NameOf[s] = name

\* activeSessionCountLocked against the limit
OverLimit == MaxSessions > 0 /\ Cardinality(Active) >= MaxSessions

Goto(r, to) == pc' = [pc EXCEPT ![r] = to]

CheckName(r) ==
    /\ pc[r] = "name"
    /\ Goto(r, IF NameTaken(NameOf[r]) THEN "failed" ELSE "limit")
    /\ UNCHANGED <<sessions, sessionVars, cleanup>>

CheckLimit(r) ==
    /\ pc[r] = "limit"
    /\ Goto(r, IF OverLimit THEN "failed" ELSE "start")
    /\ UNCHANGED <<sessions, sessionVars, cleanup>>

\* NewSession; it fails if the command is not found.
NewSession(r) ==
    /\ pc[r] = "start"
    /\ Goto(r, "register")
    /\ started' = started \union {r}
    /\ UNCHANGED <<sessions, ptyClosed, overGrace, attached, cleanup>>

NewSessionFails(r) ==
    /\ pc[r] = "start"
    /\ Goto(r, "failed")
    /\ UNCHANGED <<sessions, sessionVars, cleanup>>

\* Mutant: the name is not checked again before the session is registered.
RegisterUnnamed(r) ==
    /\ pc[r] = "register"
    /\ IF OverLimit
       THEN /\ Goto(r, "failed")
            /\ ptyClosed' = ptyClosed \union {r}
            /\ UNCHANGED sessions
       ELSE /\ Goto(r, "ok")
            /\ sessions' = sessions \union {r}
            /\ UNCHANGED ptyClosed
    /\ UNCHANGED <<started, overGrace, attached, cleanup>>

\* Mutant: a session that lost the race is forgotten without being closed.
RegisterLeaks(r) ==
    /\ pc[r] = "register"
    /\ IF NameTaken(NameOf[r]) \/ OverLimit
       THEN /\ Goto(r, "failed")
            /\ UNCHANGED <<sessions, ptyClosed>>
       ELSE /\ Goto(r, "ok")
            /\ sessions' = sessions \union {r}
            /\ UNCHANGED ptyClosed
    /\ UNCHANGED <<started, overGrace, attached, cleanup>>

\* Under the lock: the checks again, and the session is registered or closed.
Register(r) ==
    /\ pc[r] = "register"
    /\ IF NameTaken(NameOf[r]) \/ OverLimit
       THEN /\ Goto(r, "failed")
            /\ ptyClosed' = ptyClosed \union {r}
            /\ UNCHANGED sessions
       ELSE /\ Goto(r, "ok")
            /\ sessions' = sessions \union {r}
            /\ UNCHANGED ptyClosed
    /\ UNCHANGED <<started, overGrace, attached, cleanup>>

-----------------------------------------------------------------------------
(* The rest of a session's life.                                           *)

\* The process ends, or the startup times out: ptyReader or Close mark it.
PtyEnds(s) ==
    /\ s \in sessions \ ptyClosed
    /\ ptyClosed' = ptyClosed \union {s}
    /\ UNCHANGED <<pc, sessions, started, overGrace, attached, cleanup>>

GraceElapses(s) ==
    /\ s \in ptyClosed \ overGrace
    /\ overGrace' = overGrace \union {s}
    /\ UNCHANGED <<pc, sessions, started, ptyClosed, attached, cleanup>>

\* AttachClient, also of a session whose PTY has ended, and DetachClient.
Attach(s) ==
    /\ s \in sessions \ attached
    /\ attached' = attached \union {s}
    /\ UNCHANGED <<pc, sessions, started, ptyClosed, overGrace, cleanup>>

Detach(s) ==
    /\ s \in attached
    /\ attached' = attached \ {s}
    /\ UNCHANGED <<pc, sessions, started, ptyClosed, overGrace, cleanup>>

\* DeleteSession closes the session and removes it; it fails if it is gone.
DeleteSession(s) ==
    IF s \in sessions
    THEN sessions' = sessions \ {s} /\ ptyClosed' = ptyClosed \union {s}
    ELSE UNCHANGED <<sessions, ptyClosed>>

\* KILL_SESSION
Kill(s) ==
    /\ s \in sessions
    /\ DeleteSession(s)
    /\ UNCHANGED <<pc, started, overGrace, attached, cleanup>>

\* Mutant: only sessions that somebody watched to the end are collected.
CleanupScanAttached ==
    /\ cleanup = {}
    /\ cleanup' = {s \in sessions \intersect overGrace : s \in attached}
    /\ UNCHANGED <<pc, sessions, sessionVars>>

\* cleanupClosedSessions, every 60 s: the sessions are chosen under the read lock ...
CleanupScan ==
    /\ cleanup = {}
    /\ cleanup' = {s \in sessions \intersect overGrace : s \notin attached}
    /\ UNCHANGED <<pc, sessions, sessionVars>>

\* ... and deleted one at a time after it is released.
CleanupDelete ==
    \E s \in cleanup :
        /\ DeleteSession(s)
        /\ cleanup' = cleanup \ {s}
        /\ UNCHANGED <<pc, started, overGrace, attached>>

Next ==
    \/ \E r \in Requests : \/ CheckName(r) \/ CheckLimit(r) \/ NewSession(r)
                           \/ NewSessionFails(r) \/ Register(r)
    \/ \E s \in Requests : \/ PtyEnds(s) \/ GraceElapses(s) \/ Attach(s) \/ Detach(s)
                           \/ Kill(s)
    \/ CleanupScan
    \/ CleanupDelete

Spec == Init /\ [][Next]_vars

\* The ticker runs and time passes.
Fairness ==
    /\ WF_vars(CleanupScan) /\ WF_vars(CleanupDelete)
    /\ \A s \in Requests : WF_vars(GraceElapses(s))

FairSpec == Spec /\ Fairness

-----------------------------------------------------------------------------
(* Properties.                                                             *)

\* The values of the variables.
TypeOK ==
    /\ pc \in [Requests -> {"name", "limit", "start", "register", "ok", "failed"}]
    /\ started \subseteq Requests
    /\ sessions \subseteq started
    /\ ptyClosed \subseteq started
    /\ overGrace \subseteq ptyClosed
    /\ attached \subseteq started
    /\ cleanup \subseteq started

\* A name belongs to one active session at most, whatever requests are made at
\* the same time (CreateSession's second check).
NamesUnique ==
    \A s, t \in Active : s # t /\ NameOf[s] # NoName => NameOf[s] # NameOf[t]

\* The number of active sessions never exceeds --max-sessions.
LimitRespected == MaxSessions > 0 => Cardinality(Active) <= MaxSessions

\* Every session that was started is in the table or closed, or its request is
\* about to decide: none is lost with its transport running.
NoneLost ==
    \A s \in started : s \in sessions \/ s \in ptyClosed \/ pc[s] = "register"

\* The ticker never deletes a session whose process is alive, and lists none
\* whose time has not come, although it deletes without the lock it chose under.
CleanupOnlyDead == cleanup \subseteq ptyClosed \intersect overGrace

\* A session that has ended and that nobody is attached to is deleted in the end.
DeadAreDeleted ==
    \A s \in Requests :
        (s \in sessions \intersect ptyClosed /\ s \notin attached)
            ~> (s \notin sessions \/ s \in attached)

\* The table obeys its rules through concurrent requests and the ticker.
TableConsistent == TypeOK /\ NamesUnique /\ LimitRespected /\ CleanupOnlyDead
==============================================================================
