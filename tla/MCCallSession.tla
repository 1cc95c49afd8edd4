--------------------------- MODULE MCCallSession ---------------------------
(* Small instances of CallSession for TLC. *)
EXTENDS CallSession

CONSTANTS a1, a2, h1, c1, c2

\* One call between two agents.
MCFromAgent == [c \in Calls |-> a1]
MCToAgent == [c \in Calls |-> a2]

\* An agent and a human call each other.
MCCrossCaller == [c \in Calls |-> IF c = c1 THEN a1 ELSE h1]
MCCrossCallee == [c \in Calls |-> IF c = c1 THEN h1 ELSE a1]
=============================================================================
