---------------------------- MODULE MCRealmSetup ----------------------------
(***************************************************************************)
(* A realm with an auxiliary plane that has its own tree, two start tables *)
(* per tree, two levels of tables and two RECs.                            *)
(***************************************************************************)
EXTENDS RealmSetup

(* A table covers a hundred addresses: the images share theirs, the other  *)
(* regions have tables of their own.                                       *)
MCBase == [l \in Level |-> [a \in AnyIpa |-> (a \div 100) * 100]]
MCImageIpa == [t \in Tree |-> 100 + t]
MCPA == 1 .. 30
=============================================================================
