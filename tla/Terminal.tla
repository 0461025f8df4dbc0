------------------------------ MODULE Terminal ------------------------------
(***************************************************************************)
(* What the user is promised of a session's output: chunks 1, 2, 3, ...    *)
(* are produced, and the terminal shows each at most once and never an     *)
(* older one after a newer one.  (A chunk may be missing: the ring buffer  *)
(* forgets, and the client is then asked to redraw.)                       *)
(***************************************************************************)
EXTENDS Naturals, Sequences

CONSTANT MaxSeq   \* bound: chunks produced

VARIABLES produced, \* number of chunks produced
          shown     \* the chunks shown, in order

TerminalInit == produced = 0 /\ shown = <<>>

Produce ==
    /\ produced < MaxSeq
    /\ produced' = produced + 1
    /\ UNCHANGED shown

Show(n) ==
    /\ n \in 1 .. produced
    /\ \A i \in 1 .. Len(shown) : shown[i] < n
    /\ shown' = Append(shown, n)
    /\ UNCHANGED produced

TerminalNext == Produce \/ \E n \in 1 .. produced : Show(n)

TerminalSpec == TerminalInit /\ [][TerminalNext]_<<produced, shown>>
=============================================================================
