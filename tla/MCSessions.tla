----------------------------- MODULE MCSessions ------------------------------
(***************************************************************************)
(* The session layer for TLC: the life of one session (SessionLifecycle)   *)
(* and the table of sessions (Manager), which sees of a session only       *)
(* whether its PTY has ended.  Neither waits for the other, so a behaviour *)
(* is one of either; part says of which.                                   *)
(***************************************************************************)
EXTENDS SessionLifecycle

CONSTANTS Requests, NameOf, NoName, MaxSessions

VARIABLES part, pc, sessions, started, ended, overGrace, attached, cleanup

M == INSTANCE Manager WITH ptyClosed <- ended

ASSUME M!ManagerConstants

\* Two requests for the same name and others for none.
FourRequests == 1 .. 4
FourNames == <<"a", "a", "", "">>

tableVars == <<pc, sessions, started, ended, overGrace, attached, cleanup>>

SessionsInit == Init /\ M!Init /\ part \in {"life", "table"} /\ (part = "table" => st)

SessionsNext ==
    \/ part = "life" /\ Next /\ UNCHANGED <<tableVars, part>>
    \/ part = "table" /\ M!Next /\ UNCHANGED <<vars, part>>

\* Fairness of SessionLifecycle, in the part that it is.
LifeFairness ==
    /\ WF_vars(part = "life" /\ StartupStep)
    /\ WF_vars(part = "life" /\ ReaderStep)
    /\ WF_vars(part = "life" /\ WaitReturns)
    /\ WF_vars(part = "life" /\ CloseStep)

SessionsSpec ==
    /\ SessionsInit /\ [][SessionsNext]_<<vars, tableVars, part>>
    /\ LifeFairness
    /\ M!Fairness

\* The table obeys its rules through concurrent requests and the ticker.
TableConsistent == M!TableConsistent

\* Every session that was started is in the table or closed, or about to be.
NoneLost == M!NoneLost

\* A session that has ended and that nobody is attached to is deleted in the end.
DeadAreDeleted == M!DeadAreDeleted

\* Both ends of a session's life are reached (the lives of the part that has one).
LifeSettlesHere == part = "life" => LifeSettles
=============================================================================
