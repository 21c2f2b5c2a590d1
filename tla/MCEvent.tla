------------------------------ MODULE MCEvent ------------------------------
(***************************************************************************)
(* Event for TLC.  Three processors, each with at most MaxCalls calls      *)
(* (one in the configuration): enough for a waiter to be overtaken by      *)
(* another between its unlocked read and its lock, for a sender to meet a  *)
(* waiter on its way into WFE, and for one send to serve several waiters.  *)
(***************************************************************************)
EXTENDS Event

CONSTANTS c1, c2, c3, MaxCalls

MCCPU == {c1, c2, c3}
MCIncrements == {1, 2}

(* The call sequences of length at most MaxCalls.                          *)
MCScripts == [MCCPU -> UNION {[1..n -> Calls] : n \in 0..MaxCalls}]
=============================================================================
