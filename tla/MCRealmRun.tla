----------------------------- MODULE MCRealmRun -----------------------------
(***************************************************************************)
(* A realm that logs and runs plane 1 twice, and one whose calls to the    *)
(* RHI go through two sessions, one after the other: an identifier of a    *)
(* closed session can be passed again, a transfer can be left unfinished   *)
(* when its session is closed, and a send is told apart from a receive by  *)
(* its length.                                                             *)
(***************************************************************************)
EXTENDS RealmRun

MCMaxLogs == [rhi |-> 1, planes |-> 3]
=============================================================================
