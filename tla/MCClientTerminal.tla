--------------------------- MODULE MCClientTerminal ---------------------------
(***************************************************************************)
(* The client's terminal for TLC: what is typed into it (TerminalInput)    *)
(* and the modes its output leaves it in (TermModes).  Neither looks at    *)
(* the other's state, so a behaviour is one of either; part says of which. *)
(***************************************************************************)
EXTENDS TerminalInput, TermModes

VARIABLE part

TerminalInit ==
    /\ InputInit /\ ModesInit /\ part \in {"input", "modes"}
    /\ part = "modes" => link /\ ~readOnly

TerminalNext ==
    \/ part = "input" /\ InputNext /\ UNCHANGED <<modesVars, part>>
    \/ part = "modes" /\ ModesNext /\ UNCHANGED <<inputVars, part>>

\* TimerFires is never enabled in the part without input.
TerminalSpec ==
    TerminalInit /\ [][TerminalNext]_<<inputVars, modesVars, part>> /\ WF_inputVars(TimerFires)
===============================================================================
