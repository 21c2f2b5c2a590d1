---------------------------- MODULE MCPostamble ----------------------------
(***************************************************************************)
(* Two realm slots, each realm with an auxiliary tree, one level of tables *)
(* below the start tables, and RECs with an auxiliary granule.             *)
(***************************************************************************)
EXTENDS Postamble, TLC

(* The unprotected address 8 has a table of its own.                       *)
MCBase == [l \in Level |-> [a \in AnyIpa |-> IF a \in UIPA THEN 8 ELSE 0]]

(* The granules are interchangeable.                                       *)
Granules == Permutations(PA)
============================================================================
