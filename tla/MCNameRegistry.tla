--------------------------- MODULE MCNameRegistry ---------------------------
(* Small instances of NameRegistry for TLC.                                *)
EXTENDS NameRegistry, TLC

\* The rows, names and mailboxes are interchangeable.
Symmetry == Permutations(Accounts) \cup Permutations(Agents)
            \cup Permutations(Names) \cup Permutations(Emails)
            \cup Permutations(Slots)
=============================================================================
