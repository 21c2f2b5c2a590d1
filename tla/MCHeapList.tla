----------------------------- MODULE MCHeapList -----------------------------
(***************************************************************************)
(* Three granules and a heap with room for four nodes, whose base is not  *)
(* aligned; a test asks for nothing, for an alignment that is no power of  *)
(* two, and for blocks that leave the heap unaligned or nearly full.       *)
(***************************************************************************)
EXTENDS HeapList, TLC

Symmetry == Permutations(PA)
MCCells == {a \in 1 .. Top : a % NodeSize = 0}
=============================================================================
