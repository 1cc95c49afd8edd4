-------------------------- MODULE StoreAndForward --------------------------
(***************************************************************************)
(* What the local outbox promises the sender of a message to another       *)
(* machine: once accepted the message is never forgotten, it reaches the   *)
(* platform's routing at most once, its final status never changes, and    *)
(* "sent" is only ever said of a message the platform has.                 *)
(***************************************************************************)
EXTENDS Naturals

CONSTANT Msgs

VARIABLES
    status,    \* status[m]: "none", "pending", "sent" or "failed"
    arrivals   \* arrivals[m]: how often the platform has routed m

vars == <<status, arrivals>>

Init ==
    /\ status = [m \in Msgs |-> "none"]
    /\ arrivals = [m \in Msgs |-> 0]

\* The message is accepted, durably.
Accept(m) ==
    /\ status[m] = "none"
    /\ status' = [status EXCEPT ![m] = "pending"]
    /\ UNCHANGED arrivals

\* The platform routes it to its recipient, once.
Arrive(m) ==
    /\ status[m] # "none"
    /\ arrivals[m] = 0
    /\ arrivals' = [arrivals EXCEPT ![m] = 1]
    /\ UNCHANGED status

\* The sender learns that the platform has it.
Confirm(m) ==
    /\ status[m] = "pending"
    /\ arrivals[m] = 1
    /\ status' = [status EXCEPT ![m] = "sent"]
    /\ UNCHANGED arrivals

\* The sender learns that it was refused for good.
Refuse(m) ==
    /\ status[m] = "pending"
    /\ status' = [status EXCEPT ![m] = "failed"]
    /\ UNCHANGED arrivals

Next == \E m \in Msgs : Accept(m) \/ Arrive(m) \/ Confirm(m) \/ Refuse(m)

Spec == Init /\ [][Next]_vars
=============================================================================
