--------------------------- MODULE MCRemoteForward ---------------------------
(***************************************************************************)
(* RemoteForward for TLC: two terminals of a laptop and one of a desktop,  *)
(* all asking for the same port.                                           *)
(***************************************************************************)
EXTENDS RemoteForward

CONSTANTS l1, l2, d1

ThreeClients == {l1, l2, d1}
ThreeDevices == [c \in ThreeClients |-> IF c = d1 THEN "desktop" ELSE "laptop"]
ThreeSessions == [c \in ThreeClients |-> IF c = l2 THEN "s2" ELSE "s1"]

\* One client comes back after it lost its connection.
OneReconnects == [c \in ThreeClients |-> IF c = l1 THEN 2 ELSE 1]
==============================================================================
