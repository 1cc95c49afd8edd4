--------------------------- MODULE MCHubDelivery ---------------------------
(* Small instances of HubDelivery for TLC. *)
EXTENDS HubDelivery

CONSTANTS a1, a2, h1, s1, s2, n1, n2, m1, m2

\* Two agents with a session each.
MCOneEach == [s \in Sockets |-> IF s = s1 THEN a1 ELSE a2]

MCFromHumanAndRemote == [m \in Msgs |-> IF m = m1 THEN h1 ELSE Remote]

\* One by nickname, one by agent id.
MCToNameAndAgent == [m \in Msgs |-> IF m = m1 THEN n1 ELSE a1]
=============================================================================
