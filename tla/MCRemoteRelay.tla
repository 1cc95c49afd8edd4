--------------------------- MODULE MCRemoteRelay ---------------------------
(* Small instances of RemoteRelay for TLC. *)
EXTENDS RemoteRelay

CONSTANTS a1, a2, m1, m2

\* The messages of one agent share a link.
MCOneSender == [m \in Msgs |-> a1]
=============================================================================
