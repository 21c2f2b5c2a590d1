---------------------------- MODULE MCDevComm ----------------------------
(***************************************************************************)
(* One object kind with room for two parts, and transactions of up to      *)
(* three calls to the RMM, any number of them one after the other: the     *)
(* buffer is filled to the last byte, it runs full in the middle of an     *)
(* exit, and a transaction follows a failed one.                           *)
(***************************************************************************)
EXTENDS DevComm
==========================================================================
