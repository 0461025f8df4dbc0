----------------------------- MODULE MCHandover -----------------------------
(* Handover for TLC: one session with output, and another that is locked,  *)
(* restored or lost before or after it.                                    *)
EXTENDS Handover
CONSTANTS s1, s2
MCMaxOut == [s \in Sessions |-> IF s = s1 THEN 2 ELSE 0]
=============================================================================
