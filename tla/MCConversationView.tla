------------------------- MODULE MCConversationView -------------------------
(* Small instances of ConversationView for TLC.                            *)
EXTENDS ConversationView, TLC

CONSTANTS mine, theirs,    \* the human's conversation, and an agent's with the same peer
          byId, other,     \* the keys they are opened with
          m1, c1, o1       \* a message, a call, a submission

MCThreadOf == byId :> mine @@ other :> theirs

MCHandleOf == [k \in Keys |-> "peer"]

MCRowsOf == mine :> Rows @@ theirs :> {}

\* The message and the call share a time.
MCStamp == m1 :> 1 @@ c1 :> 1 @@ o1 :> 2

MCRank == c1 :> 1 @@ m1 :> 2 @@ o1 :> 3
=============================================================================
