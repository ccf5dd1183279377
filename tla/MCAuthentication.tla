-------------------------- MODULE MCAuthentication --------------------------
(***************************************************************************)
(* Instances of Authentication for TLC.                                    *)
(***************************************************************************)
EXTENDS Authentication, TLC

\* Three passwords, two of which have the same hash.
MCPasswords == {"right", "twin", "wrong"}
MCHash == [right |-> "h1", twin |-> "h1", wrong |-> "h2"]
MCPhrases == {"emergencyUnlock", "defaultSecret"}

Symmetry == Permutations(Clients)
=============================================================================
