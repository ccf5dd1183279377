------------------------- MODULE MCInventoryManager -------------------------
(***************************************************************************)
(* Instances of InventoryManager for TLC.                                  *)
(***************************************************************************)
EXTENDS InventoryManager, TLC

Number(k, q) == [key |-> k, number |-> TRUE, quantity |-> q]
Other(k) == [key |-> k, number |-> FALSE, quantity |-> 0]

\* Quantities that count and that do not.
MCQuantities == {-1, 0, 1, 2}

\* JSON objects: empty; two items; an item listed twice (as the keys "3" and
\* "03") around one that is no number; quantities that do not count; a key that
\* is no number in the middle, and one where it does no harm.
MCDocs ==
  {<<>>, <<Number(1, 2), Number(2, 1)>>, <<Number(2, 1), Other(1), Number(2, 1)>>,
   <<Number(1, 1), Number(2, 0), Number(1, -1)>>,
   <<Number(1, 1), Number(Malformed, 1), Number(2, 1)>>,
   <<Other(Malformed), Number(2, 1)>>}
=============================================================================
