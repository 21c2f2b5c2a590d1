------------------------------- MODULE MCIrq -------------------------------
(* Two CPUs, one interrupt of each kind and two handlers. *)
EXTENDS Irq
============================================================================
