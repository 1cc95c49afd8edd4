------------------------ MODULE MCPlatformDelivery ------------------------
EXTENDS PlatformDelivery

CONSTANTS a1, s1, s2, m1, m2, m3, c1, c2

MCAgentOf == [s \in {s1, s2} |-> a1]
\* Two messages of strangers to the agent, or one each way, and calls each way.
MCFrom == [i \in Ids |-> IF i = c1 THEN Human ELSE IF i \in Calls THEN a1
                         ELSE IF i = m1 THEN Peer ELSE IF i = m2 THEN Human ELSE a1]
MCTo == [i \in Ids |-> IF i \in {c1, m1, m2} THEN a1 ELSE Human]
=============================================================================
