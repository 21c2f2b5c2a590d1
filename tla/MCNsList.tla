------------------------------ MODULE MCNsList ------------------------------
(***************************************************************************)
(* Two granules and storage for two nodes: a test that leaves a node in    *)
(* the list, and the next one.                                             *)
(***************************************************************************)
EXTENDS NsList
=============================================================================
