--------------------------- MODULE MCContactGraph ---------------------------
(* Small instances of ContactGraph for TLC.                                *)
EXTENDS ContactGraph, TLC

CONSTANTS acc1, acc2, a1, b1, k1

\* Account acc1 has one agent; account acc2 has an agent and a connector.
MCOwner == a1 :> acc1 @@ b1 :> acc2 @@ k1 :> acc2

\* The agents that use the older graph, either sharing with the other.
MCPairs == {<<a1, b1>>, <<b1, a1>>}
=============================================================================
