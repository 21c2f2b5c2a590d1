--------------------------- MODULE MCTestDispatch ---------------------------
(* TestDispatch for TLC: a short test_list, one suite not supported.       *)
EXTENDS TestDispatch
=============================================================================
