--------------------------- MODULE MCPlatformJobs ---------------------------
(* Small instances of PlatformJobs for TLC.                                *)
EXTENDS PlatformJobs

CONSTANTS f1, f2, a1
OneOwner == [f \in Files |-> a1]
=============================================================================
