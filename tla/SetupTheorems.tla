--------------------------- MODULE SetupTheorems ---------------------------
(***************************************************************************)
(* What val_host_realm_setup promises the tests, from the invariant of     *)
(* SetupProofs: a realm that is complete when it returns success, and a    *)
(* postamble that always succeeds after it.                                *)
(***************************************************************************)
EXTENDS SetupProofs, PostambleProofs, FiniteSetTheorems

(* Zenon unless a step names another prover.                               *)
USE ZenonT(60)

(* As many RECs as the loop has made: their addresses differ.              *)
LEMMA RecsCounted ==
  ASSUME NEW k \in Nat, RecsThere(k)
  PROVE  Cardinality(Owned("REC", rd)) = k
<1> DEFINE f == [i \in 1 .. k |-> rec[i]]
           R == Owned("REC", rd)
<1>0. /\ \A p : p \in R <=> \E i \in 1 .. k : p = rec[i]
      /\ \A i, j \in 1 .. k : rec[i] = rec[j] => i = j
  BY DEF RecsThere
<1> HIDE DEF R
<1>1. f \in [1 .. k -> R]
  BY <1>0
<1>2. \A i, j \in 1 .. k : f[i] = f[j] => i = j
  BY <1>0
<1>3. \A p \in R : \E i \in 1 .. k : f[i] = p
  BY <1>0
<1>4. f \in Bijection(1 .. k, R)
  BY <1>1, <1>2, <1>3 DEF Bijection, Injection, IsInjective, Surjection
<1>5. Cardinality(R) = k
  BY <1>4, FS_CountingElements DEF ExistsBijection
<1> QED BY <1>5 DEF R

(* val_host_realm_setup returns VAL_SUCCESS only for a complete realm: all *)
(* RECs and start tables, every image and the shared region in every tree, *)
(* no granule delegated for nothing, an entry for every region.            *)
THEOREM SetupCompletes == SSpec => []SetupComplete
<1>1. SetupInv => SetupComplete
  <2> SUFFICES ASSUME SetupInv, pc \in {"success", "done"}, phase = "test"
               PROVE  /\ rd \in InState("RD")
                      /\ state = IF activate THEN "ACTIVE" ELSE "NEW"
                      /\ Cardinality(Owned("REC", rd)) = RecCount
                      /\ Cardinality(Owned("START", rd)) = StartTables
                      /\ \A t \in Tree : /\ DataAt(rd, ImageIpa[t]) = {image[t]}
                                         /\ AuxTrees(rd, ImageIpa[t]) = Aux
                      /\ [rd |-> rd, ipa |-> SharedIpa, level |-> 3] \in umap
                      /\ AuxTrees(rd, SharedIpa) = Aux
                      /\ InState("DELEGATED") = {}
                      /\ mapped = NumAux + (IF pc = "done" THEN 3 ELSE 2)
    BY DEF SetupComplete
  <2>1. Stage = pc
    BY SMTT(60) DEF Stage
  <2>2. MadeInv /\ CountInv /\ InHandInv
    BY DEF SetupInv, StepInv
  <2>3. /\ pc \in LastStages \ {"activate"}
        /\ pc \notin BeforeRealm \cup RecStages \cup Stopped
        /\ pc # "unknown" /\ pc # "rtt_create"
    BY SMTT(60) DEF LastStages, BeforeRealm, RecStages, Stopped
  <2>4. RealmThere /\ RecsThere(RecCount) /\ ImagesThere(Tree) /\ SharedThere
    BY <2>1, <2>2, <2>3 DEF MadeInv
  <2>5. Aux \subseteq AuxTrees(rd, SharedIpa)
    BY <2>1, <2>2, <2>3 DEF MadeInv
  <2>6. \A a : AuxTrees(rd, a) \subseteq Aux
    BY DEF AuxTrees
  <2>7. Within({})
    <3>1. pc \in Backs \cup {"delegate_data", "activate", "success", "done"}
      OBVIOUS
    <3> QED BY <2>1, <2>2, <2>3, <3>1 DEF InHandInv
  <2>8. mapped = NumAux + (IF pc = "done" THEN 3 ELSE 2)
    <3>1. CASE pc = "done"
      BY <2>1, <2>2, <3>1 DEF CountInv
    <3>2. CASE pc = "success"
      BY <2>1, <2>2, <2>3, <3>2, SMTT(60) DEF CountInv
    <3> QED BY <3>1, <3>2
  <2>9. state = IF activate THEN "ACTIVE" ELSE "NEW"
    BY <2>1, <2>2, <2>3 DEF CountInv
  <2>10. Cardinality(Owned("REC", rd)) = RecCount
    BY <2>4, RecsCounted, SetupAssumption
  <2>11. \A t \in Tree : /\ DataAt(rd, ImageIpa[t]) = {image[t]}
                         /\ AuxTrees(rd, ImageIpa[t]) = Aux
    BY <2>4, <2>6 DEF ImagesThere, ImageThere
  <2> QED BY <2>4, <2>5, <2>6, <2>7, <2>8, <2>9, <2>10, <2>11
          DEF RealmThere, SharedThere, Within
<1> QED BY <1>1, SetupInvariance, PTL

(* However the setup ends, the postamble does not fail, and when it has    *)
(* succeeded every granule is back with the host: the error paths of the   *)
(* setup leave nothing that the tracker does not know about.               *)
THEOREM SetupCleansUp == SSpec => [](phase # "error" /\ CleansUp)
<1>1. SetupInv /\ FailsOnlyForDevices => phase # "error"
  BY DEF SetupInv, EndInv, FailsOnlyForDevices
<1> QED BY <1>1, SetupInvariance, SetupIsATest, PostambleCleansUp, OnlyDevicesFail, PTL

(* The tracker mirrors the RMM throughout the setup and the postamble.     *)
THEOREM SetupMirrors == SSpec => []Mirror
BY SetupIsATest, PostambleMirrors, PTL
============================================================================
