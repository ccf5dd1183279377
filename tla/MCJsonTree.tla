----------------------------- MODULE MCJsonTree -----------------------------
(***************************************************************************)
(* Instances of JsonTree for TLC.                                          *)
(***************************************************************************)
EXTENDS JsonTree

\* One name is enough for a search to find, to miss and to stop early.
MCNames == {"item"}
MCLower == [k \in MCNames |-> "item"]

\* Which address an item gets makes no difference.
Symmetry == Permutations(Items)

\* What decides what comes next.
View == <<heap, held>>
=============================================================================
