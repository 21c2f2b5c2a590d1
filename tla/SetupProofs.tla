---------------------------- MODULE SetupProofs ----------------------------
(***************************************************************************)
(* val_host_realm_setup returns success only for a complete realm and      *)
(* rolls back a realm that was not created, for any number of planes, RECs *)
(* and start tables; it is one of the tests that Postamble allows, so that *)
(* what is proved of the postamble holds after it.                         *)
(***************************************************************************)
EXTENDS RealmSetup, TLAPS

(* Zenon unless a step names another prover.                               *)
USE ZenonT(60)

(* Where val_host_realm_setup is, with the creation of tables counted as a *)
(* part of the step that asked for it.                                     *)
Backs == {"ripas", "aux_map", "shared", "aux_shared", "unknown", "ns_shared"}
Stage == IF pc \in {"level", "rtt_create"} THEN create.back ELSE pc

BeforeRealm == {"images", "rtt", "delegate_rtt", "rd", "delegate_rd", "create"}
RecStages == {"aux_count", "rec", "delegate_rec", "aux", "rec_create"}
ImageStages == {"ripas", "delegate_data", "data", "aux_map"}
SharedStages == {"shared", "aux_shared"}
LastStages == {"activate", "success", "unknown", "ns_shared", "done"}
Stopped == {"undo", "error"}
Stages == BeforeRealm \cup RecStages \cup ImageStages \cup SharedStages
            \cup LastStages \cup Stopped

StartTable == [1 .. SlRtts -> PA]

SetupType ==
  /\ pc \in Stages \cup {"level", "rtt_create"}
  /\ pc \in {"level", "rtt_create"} => create.back \in Backs
  /\ fresh \in Nat /\ n \in Nat /\ plane \in Tree
  /\ start \in [Tree -> {<<>>} \cup StartTable]
  /\ image \in [Tree -> PA \cup {NoAddr}]
  /\ rec \in Seq(PA) /\ recaux \in Seq(Seq(PA))
  /\ create \in [tree : Tree, ipa : AnyIpa \cup {NoAddr}, rtt : PA \cup {NoAddr},
                 back : Backs \cup {"none"}]

(* The arguments that the commands of each step take are there.            *)
ArgInv ==
  /\ Stage \notin {"images"} \cup Stopped => image \in [Tree -> PA]
  /\ Stage = "rtt" => \A t \in Tree : t < plane => start[t] \in StartTable
  /\ Stage = "delegate_rtt" =>
       n \in 1 .. SlRtts /\ \A t \in Tree : t <= plane => start[t] \in StartTable
  /\ Stage \notin {"images", "rtt", "delegate_rtt"} \cup Stopped =>
       \A t \in Tree : start[t] \in StartTable
  /\ Stage \notin {"images", "rtt", "delegate_rtt", "rd"} \cup Stopped => rd \in PA
  /\ pc \in {"level", "rtt_create"} => create.ipa \in AnyIpa
  /\ pc = "rtt_create" => create.rtt \in PA /\ ~Walks(rd, create.ipa, 3, create.tree)
  /\ Stage = "unknown" => page \in PA

(* The indices of the loops.                                               *)
LoopInv ==
  /\ Stage \in {"images", "rd", "delegate_rd", "create"} \cup RecStages => plane = 0
  /\ Stage \in {"rd", "delegate_rd", "create", "aux_count"} => n = 0
  /\ Stage \in BeforeRealm \cup {"aux_count"} => rec = <<>> /\ recaux = <<>>
  /\ Stage = "rec" => n <= RecCount /\ Len(rec) = n /\ Len(recaux) = n
  /\ Stage \in {"delegate_rec", "aux", "rec_create"} =>
       n < RecCount /\ Len(rec) = n + 1 /\ Len(recaux) = n + 1
  /\ Stage = "delegate_rec" => recaux[n + 1] = <<>>
  /\ Stage = "aux" => Len(recaux[n + 1]) < RecAux
  /\ Stage = "rec_create" => Len(recaux[n + 1]) = RecAux
  /\ Stage \in {"aux_map", "aux_shared"} => n \in 1 .. NumAux + 1

(* Every granule that is DELEGATED is one the step is about to use.        *)
Within(S) == InState("DELEGATED") \subseteq S
TablesBefore ==
  {p \in PA : \E t \in Tree, s \in 1 .. SlRtts : t < plane /\ p = start[t][s]}
TablesTo ==
  {p \in PA : \E t \in Tree, s \in 1 .. SlRtts : t <= plane /\ p = start[t][s]}
AllTables == {p \in PA : \E t \in Tree, s \in 1 .. SlRtts : p = start[t][s]}
RecGranules ==
  {p \in PA : p = rec[n + 1] \/ \E b \in 1 .. Len(recaux[n + 1]) : p = recaux[n + 1][b]}

InHandInv ==
  /\ Stage = "rtt" => Within(TablesBefore)
  /\ Stage = "delegate_rtt" => Within(TablesTo)
  /\ Stage \in {"rd", "delegate_rd"} => Within(AllTables)
  /\ Stage = "create" => Within(AllTables \cup {rd})
  /\ Stage \in {"aux", "rec_create"} => Within(RecGranules)
  /\ Stage = "data" => Within({image[plane]})
  /\ pc = "rtt_create" =>
       Within({create.rtt} \cup (IF Stage = "unknown" THEN {page} ELSE {}))
  /\ Stage = "unknown" /\ pc # "rtt_create" => Within({page})
  /\ Stage \in {"images", "aux_count", "rec", "delegate_rec"} => Within({})
  /\ Stage \in Backs \cup {"delegate_data", "activate", "success", "done"} =>
       Stage = "unknown" \/ pc = "rtt_create" \/ Within({})

(* What has been made: the realm, RECs, images and the shared region.      *)
Untouched == \A p \in PA : gran[p].st \in {"UNDELEGATED", "DELEGATED"}
RealmThere == rd \in InState("RD") /\ Cardinality(Owned("START", rd)) = StartTables
RecsThere(k) ==
  /\ \A p : p \in Owned("REC", rd) <=> \E i \in 1 .. k : p = rec[i]
  /\ \A i, j \in 1 .. k : rec[i] = rec[j] => i = j
ImageThere(t) == DataAt(rd, ImageIpa[t]) = {image[t]}
ImagesThere(S) ==
  \A t \in S : ImageThere(t) /\ Aux \subseteq AuxTrees(rd, ImageIpa[t])
SharedThere == [rd |-> rd, ipa |-> SharedIpa, level |-> 3] \in umap

MadeInv ==
  /\ Stage \in BeforeRealm => Untouched
  /\ Stage \notin BeforeRealm \cup Stopped => RealmThere
  /\ Stage \in RecStages => RecsThere(n)
  /\ Stage \notin BeforeRealm \cup RecStages \cup Stopped => RecsThere(RecCount)
  /\ Stage \in ImageStages => ImagesThere({t \in Tree : t < plane})
  /\ Stage = "aux_map" =>
       ImageThere(plane) /\ 1 .. n - 1 \subseteq AuxTrees(rd, ImageIpa[plane])
  /\ Stage \in SharedStages \cup LastStages => ImagesThere(Tree)
  /\ Stage = "aux_shared" => SharedThere /\ 1 .. n - 1 \subseteq AuxTrees(rd, SharedIpa)
  /\ Stage \in LastStages => SharedThere /\ Aux \subseteq AuxTrees(rd, SharedIpa)

(* What realm->state and realm->granules_mapped_count say of it.           *)
CountInv ==
  /\ Stage \in BeforeRealm \cup RecStages => mapped = 0
  /\ Stage \in ImageStages => mapped = plane
  /\ Stage \in SharedStages => mapped = NumAux + 1
  /\ Stage \in LastStages \ {"done"} => mapped = NumAux + 2
  /\ Stage = "done" => mapped = NumAux + 3
  /\ Stage \notin BeforeRealm \cup Stopped =>
       state = IF activate /\ Stage \in LastStages \ {"activate"} THEN "ACTIVE" ELSE "NEW"

(* What is left to undo when the realm was not created.                    *)
LaterTables == {p \in PA : \E t \in Tree, s \in 2 .. SlRtts : p = start[t][s]}
UndoInv ==
  pc \in Stopped /\ failed = "create" =>
    /\ undo \in Seq(PA)
    /\ pc = "error" => undo = <<>>
    /\ \A p \in PA : gran[p].st # "UNDELEGATED" =>
         /\ gran[p].st = "DELEGATED"
         /\ p \in LaterTables \cup {undo[i] : i \in 1 .. Len(undo)}

StepInv == /\ SetupType /\ ArgInv /\ LoopInv /\ InHandInv /\ MadeInv /\ CountInv
           /\ UndoInv

(* Outside the test the postamble runs or is over, and no device object is *)
(* ever made.                                                              *)
EndInv ==
  /\ phase = "test" => cur = NoAddr
  /\ phase # "test" =>
       \/ caller = "postamble" /\ (cur # NoAddr => phase \in {"rec", "data", "rtt"})
       \/ phase \in {"success", "error"} /\ cur = NoAddr
  /\ InState("DEV") = {}

(* The granules are those of the heap.                                     *)
GranOK == gran = [p \in PA |-> gran[p]]

SetupInv == GranOK /\ EndInv /\ (phase = "test" => StepInv)
-----------------------------------------------------------------------------
(* What a command does to the parts of the realm that are made once.       *)
Keeps(st) == \A p \in PA : gran[p].st = st \/ gran'[p].st = st => gran'[p] = gran[p]

MappingsGrow ==
  /\ umap \subseteq umap'
  /\ auxmap \subseteq auxmap'

Grown ==
  /\ RealmThere => RealmThere'
  /\ (Owned("REC", rd))' = Owned("REC", rd)
  /\ \A t \in Tree : ImageThere(t) => ImageThere(t)'
  /\ \A t \in Tree : AuxTrees(rd, ImageIpa[t]) \subseteq (AuxTrees(rd, ImageIpa[t]))'
  /\ AuxTrees(rd, SharedIpa) \subseteq (AuxTrees(rd, SharedIpa))'
  /\ SharedThere => SharedThere'
  /\ InState("DEV") = {} => InState("DEV")' = {}

(* A command that leaves the granules of the realm alone only adds to it.  *)
LEMMA Grows ==
  ASSUME UNCHANGED <<rd, image>>, Keeps("RD"), Keeps("START"), Keeps("REC"), Keeps("DEV"),
         MappingsGrow,
         \A t \in Tree : ImageThere(t) => ImageThere(t)'
  PROVE  Grown
<1>0. rd' = rd /\ image' = image
  OBVIOUS
<1>1. InState("RD")' = InState("RD") /\ InState("DEV")' = InState("DEV")
  BY DEF Keeps, InState
<1>2. (Owned("START", rd))' = Owned("START", rd)
  BY <1>0 DEF Keeps, Owned, InState
<1>3. (Owned("REC", rd))' = Owned("REC", rd)
  BY <1>0 DEF Keeps, Owned, InState
<1>4. RealmThere => RealmThere'
  BY <1>0, <1>1, <1>2 DEF RealmThere
<1>5. \A t \in Tree : AuxTrees(rd, ImageIpa[t]) \subseteq (AuxTrees(rd, ImageIpa[t]))'
  BY <1>0 DEF AuxTrees, MappingsGrow
<1>6. AuxTrees(rd, SharedIpa) \subseteq (AuxTrees(rd, SharedIpa))'
  BY <1>0 DEF AuxTrees, MappingsGrow
<1>7. SharedThere => SharedThere'
  BY <1>0 DEF SharedThere, MappingsGrow
<1> QED BY <1>1, <1>3, <1>4, <1>5, <1>6, <1>7 DEF Grown

(* The images stay while no granule becomes or ceases to be DATA.          *)
LEMMA ImagesStay ==
  ASSUME UNCHANGED <<rd, image>>, Keeps("DATA")
  PROVE  \A t \in Tree : ImageThere(t) => ImageThere(t)'
<1>0. rd' = rd /\ image' = image
  OBVIOUS
<1>1. (Owned("DATA", rd))' = Owned("DATA", rd)
  BY <1>0 DEF Keeps, Owned, InState
<1>2. \A p \in Owned("DATA", rd) : gran'[p] = gran[p]
  BY DEF Keeps, Owned, InState
<1>3. ASSUME NEW t \in Tree PROVE (DataAt(rd, ImageIpa[t]))' = DataAt(rd, ImageIpa[t])
  BY <1>0, <1>1, <1>2 DEF DataAt
<1> QED BY <1>0, <1>3 DEF ImageThere

(* No command is issued.                                                   *)
LEMMA SameGrows ==
  ASSUME Same, UNCHANGED <<rd, image>>
  PROVE  /\ Grown /\ UNCHANGED <<gran, umap, auxmap>>
         /\ UNCHANGED <<rmm, track>>
<1>1. UNCHANGED <<gran, umap, auxmap>>
  BY DEF Same, rmm
<1>2. \A st : Keeps(st)
  BY <1>1 DEF Keeps
<1>3. MappingsGrow
  BY <1>1 DEF MappingsGrow
<1> QED BY <1>1, <1>2, <1>3, Grows, ImagesStay DEF Same

(* A granule is delegated.                                                 *)
LEMMA Delegates ==
  ASSUME GranOK, NEW x \in PA, rmi_granule_delegate(x)
  PROVE  /\ InState("DELEGATED")' = InState("DELEGATED") \cup {x}
         /\ gran[x].st = "UNDELEGATED"
         /\ \A st : st \notin {"UNDELEGATED", "DELEGATED"} => Keeps(st)
         /\ MappingsGrow
         /\ Untouched => Untouched'
         /\ InState("DEV")' = InState("DEV")
         /\ Next
<1>1. /\ gran[x].st = "UNDELEGATED" /\ UNCHANGED <<umap, auxmap>>
      /\ gran'[x].st = "DELEGATED" /\ \A p \in PA : p # x => gran'[p] = gran[p]
  BY SMTT(60) DEF rmi_granule_delegate, CanDelegate, Delegate, GranOK, Plain, Granule
<1>2. InState("DELEGATED")' = InState("DELEGATED") \cup {x}
  BY <1>1 DEF InState
<1>3. \A st : st \notin {"UNDELEGATED", "DELEGATED"} => Keeps(st)
  BY <1>1 DEF Keeps
<1>4. Untouched => Untouched'
  BY <1>1 DEF Untouched
<1>5. InState("DEV")' = InState("DEV")
  BY <1>1 DEF InState
<1>6. Next
  BY DEF Next
<1> QED BY <1>1, <1>2, <1>3, <1>4, <1>5, <1>6 DEF MappingsGrow

(* So the realm grows by nothing when a granule is delegated.              *)
LEMMA DelegateGrows ==
  ASSUME UNCHANGED <<rd, image>>, MappingsGrow,
         \A st : st \notin {"UNDELEGATED", "DELEGATED"} => Keeps(st)
  PROVE  Grown
<1>1. Keeps("RD") /\ Keeps("START") /\ Keeps("REC") /\ Keeps("DEV") /\ Keeps("DATA")
  OBVIOUS
<1> QED BY <1>1, Grows, ImagesStay

(* One granule that is DELEGATED becomes a table.                          *)
LEMMA TableGrows ==
  ASSUME GranOK, NEW x \in PA, NEW r \in PA, NEW a \in AnyIpa, NEW l \in Level,
         NEW t \in Tree, rmi_rtt_create(r, x, a, l, t), UNCHANGED <<rd, image>>
  PROVE  /\ Grown
         /\ InState("DELEGATED")' = InState("DELEGATED") \ {x}
         /\ Next
<1>1. /\ gran[x].st = "DELEGATED" /\ UNCHANGED <<umap, auxmap>>
      /\ gran' = [gran EXCEPT ![x] = Granule(TableState(t), r, a, l, t)]
  BY DEF rmi_rtt_create, CanRttCreate, RttCreate, InState
<1>2. /\ gran'[x].st \in {"RTT", "RTT_AUX"}
      /\ \A p \in PA : p # x => gran'[p] = gran[p]
  BY <1>1, SMTT(60) DEF GranOK, Granule, TableState
<1>3. InState("DELEGATED")' = InState("DELEGATED") \ {x}
  BY <1>1, <1>2 DEF InState
<1>4. Keeps("RD") /\ Keeps("START") /\ Keeps("REC") /\ Keeps("DEV") /\ Keeps("DATA")
  BY <1>1, <1>2 DEF Keeps
<1>5. Grown
  BY <1>1, <1>4, Grows, ImagesStay DEF MappingsGrow
<1>6. Next
  BY DEF Next
<1> QED BY <1>3, <1>5, <1>6

(* One granule that is DELEGATED becomes the page at a.                    *)
LEMMA DataGrows ==
  ASSUME GranOK, NEW x \in PA, NEW a \in IPA, rd \in PA, rmi_data_create(rd, x, a),
         UNCHANGED <<rd, image>>
  PROVE  /\ Grown
         /\ InState("DELEGATED")' = InState("DELEGATED") \ {x}
         /\ (DataAt(rd, a))' = {x}
         /\ Next
<1>0. rd' = rd /\ image' = image
  OBVIOUS
<1>1. /\ gran[x].st = "DELEGATED" /\ UNCHANGED <<umap, auxmap>> /\ DataAt(rd, a) = {}
      /\ gran' = [gran EXCEPT ![x] = Granule("DATA", rd, a, 0, 0)]
  BY DEF rmi_data_create, CanDataCreate, DataCreate, InState
<1>2. /\ gran'[x].st = "DATA" /\ gran'[x].rd = rd /\ gran'[x].ipa = a
      /\ \A p \in PA : p # x => gran'[p] = gran[p]
  BY <1>1, SMTT(60) DEF GranOK, Granule
<1>3. InState("DELEGATED")' = InState("DELEGATED") \ {x}
  BY <1>1, <1>2 DEF InState
<1>4. Keeps("RD") /\ Keeps("START") /\ Keeps("REC") /\ Keeps("DEV")
  BY <1>1, <1>2 DEF Keeps
<1>5. (DataAt(rd, a))' = {x}
  <2>1. \A p \in PA : gran[p].st = "DATA" /\ gran[p].rd = rd => gran[p].ipa # a
    BY <1>1 DEF DataAt, Owned, InState
  <2>2. \A p \in PA : gran'[p].st = "DATA" /\ gran'[p].rd = rd' /\ gran'[p].ipa = a <=> p = x
    BY <1>0, <1>2, <2>1
  <2>3. \A p : p \in (DataAt(rd, a))' <=> p \in {x}
    BY <2>2 DEF DataAt, Owned, InState
  <2> QED BY <2>3
<1>6. ASSUME NEW t \in Tree, ImageThere(t) PROVE ImageThere(t)'
  <2>1. ImageIpa[t] # a /\ DataAt(rd, ImageIpa[t]) = {image[t]}
    BY <1>1, <1>6 DEF ImageThere
  <2>2. (DataAt(rd, ImageIpa[t]))' = DataAt(rd, ImageIpa[t])
    BY <1>0, <1>1, <1>2, <2>1 DEF DataAt, Owned, InState
  <2> QED BY <1>0, <2>1, <2>2 DEF ImageThere
<1>7. Grown
  BY <1>1, <1>4, <1>6, Grows DEF MappingsGrow
<1>8. Next
  BY DEF Next
<1> QED BY <1>3, <1>5, <1>7, <1>8

(* A page is mapped in the primary tree, or in an auxiliary tree.          *)
LEMMA MapGrows ==
  ASSUME NEW a \in UIPA, rd \in PA, rmi_rtt_map_unprotected(rd, a, 3), UNCHANGED <<rd, image>>
  PROVE  /\ Grown /\ gran' = gran /\ Next
         /\ [rd |-> rd', ipa |-> a, level |-> 3] \in umap'
<1>1. /\ gran' = gran /\ auxmap' = auxmap
      /\ umap' = umap \cup {[rd |-> rd, ipa |-> a, level |-> 3]}
  BY DEF rmi_rtt_map_unprotected, Map
<1>2. Grown
  BY <1>1, Grows, ImagesStay DEF MappingsGrow, Keeps
<1>3. 3 \in Level
  BY GeometryAssumption, SMTT(60) DEF Level
<1>4. Next
  BY <1>3 DEF Next
<1> QED BY <1>1, <1>2, <1>4

(* An auxiliary mapping is added, and none is lost.                        *)
LEMMA AuxMapGrows ==
  ASSUME NEW a \in AnyIpa, NEW t \in Aux, rd \in PA, rmi_rtt_aux_map(rd, a, t),
         UNCHANGED <<rd, image>>
  PROVE  /\ Grown /\ gran' = gran /\ Next
         /\ AuxTrees(rd, a) \cup {t} \subseteq (AuxTrees(rd, a))'
<1>1. /\ gran' = gran /\ umap' = umap /\ rd' = rd
      /\ auxmap' = auxmap \cup {[rd |-> rd, ipa |-> a, tree |-> t]}
  BY DEF rmi_rtt_aux_map, AuxMap
<1>2. Grown
  BY <1>1, Grows, ImagesStay DEF MappingsGrow, Keeps
<1>3. Next
  BY DEF Next
<1>4. AuxTrees(rd, a) \cup {t} \subseteq (AuxTrees(rd, a))'
  BY <1>1 DEF AuxTrees
<1> QED BY <1>1, <1>2, <1>3, <1>4

(* A REC is created: the granules of the REC are no longer DELEGATED.      *)
LEMMA RecGrows ==
  ASSUME GranOK, NEW x \in PA, NEW S \in SUBSET PA, rd \in PA, rmi_rec_create(rd, x, S),
         UNCHANGED <<rd, image>>
  PROVE  /\ RealmThere => RealmThere'
         /\ InState("DEV") = {} => InState("DEV")' = {}
         /\ InState("DELEGATED")' = InState("DELEGATED") \ ({x} \cup S)
         /\ x \notin Owned("REC", rd) /\ (Owned("REC", rd))' = Owned("REC", rd) \cup {x}
         /\ Next
<1>0. rd' = rd /\ image' = image
  OBVIOUS
<1>1. /\ gran[x].st = "DELEGATED" /\ \A p \in S : gran[p].st = "DELEGATED"
      /\ UNCHANGED <<umap, auxmap>> /\ RecCreate(rd, x, S)
  BY DEF rmi_rec_create, CanRecCreate, RecCreate, InState
<1>2. /\ gran'[x].st = "REC" /\ gran'[x].rd = rd
      /\ \A p \in PA : p # x /\ p \in S => gran'[p].st = "REC_AUX"
      /\ \A p \in PA : p # x /\ p \notin S => gran'[p] = gran[p]
  BY <1>1, SMTT(60) DEF RecCreate, Granule
<1>3. Keeps("RD") /\ Keeps("START") /\ Keeps("DEV")
  BY <1>1, <1>2 DEF Keeps
<1>4. InState("RD")' = InState("RD") /\ InState("DEV")' = InState("DEV")
  BY <1>3 DEF Keeps, InState
<1>5. (Owned("START", rd))' = Owned("START", rd)
  BY <1>0, <1>3 DEF Keeps, Owned, InState
<1>6. \A p : p \in InState("DELEGATED")' <=> p \in InState("DELEGATED") \ ({x} \cup S)
  BY <1>2 DEF InState
<1>7. \A p : p \in (Owned("REC", rd))' <=> p \in Owned("REC", rd) \cup {x}
  BY <1>0, <1>1, <1>2 DEF Owned, InState
<1>8. x \notin Owned("REC", rd)
  BY <1>1 DEF Owned, InState
<1>9. Next
  BY DEF Next
<1> QED BY <1>0, <1>4, <1>5, <1>6, <1>7, <1>8, <1>9 DEF RealmThere

(* The realm is created from granules that are all DELEGATED.              *)
LEMMA RealmMade ==
  ASSUME GranOK, NEW S \in SUBSET PA, rd \in PA, Untouched, rmi_realm_create(rd, S), rd' = rd
  PROVE  /\ RealmThere'
         /\ InState("DEV") = {} => InState("DEV")' = {}
         /\ InState("DELEGATED")' = InState("DELEGATED") \ ({rd} \cup S)
         /\ (Owned("REC", rd))' = {}
         /\ Next
<1>1. /\ gran[rd].st = "DELEGATED" /\ rd \notin S /\ \A p \in S : gran[p].st = "DELEGATED"
      /\ Cardinality(S) = StartTables /\ RealmCreate(rd, S)
  BY DEF rmi_realm_create, CanRealmCreate, InState
<1>2. /\ gran'[rd].st = "RD" /\ gran'[rd].rd = rd
      /\ \A p \in S : gran'[p].st = "START" /\ gran'[p].rd = rd
      /\ \A p \in PA : p # rd /\ p \notin S => gran'[p] = gran[p]
  BY <1>1, SMTT(60) DEF RealmCreate, Granule
<1>3. \A p \in PA : gran[p].st \in {"UNDELEGATED", "DELEGATED"}
  BY DEF Untouched
<1>4. \A p : p \in (Owned("START", rd))' <=> p \in S
  BY <1>1, <1>2, <1>3 DEF Owned, InState
<1>5. (Owned("REC", rd))' = {}
  BY <1>1, <1>2, <1>3 DEF Owned, InState
<1>6. \A p : p \in InState("DELEGATED")' <=> p \in InState("DELEGATED") \ ({rd} \cup S)
  BY <1>2 DEF InState
<1>7. InState("DEV")' = {}
  BY <1>2, <1>3 DEF InState
<1>8. (Owned("START", rd))' = S
  BY <1>4
<1>9. RealmThere'
  BY <1>1, <1>2, <1>8 DEF RealmThere, InState
<1>10. Next
  BY DEF Next
<1> QED BY <1>5, <1>6, <1>7, <1>9, <1>10
-----------------------------------------------------------------------------
(* What each step of the setup keeps and shows: the invariant, and that it *)
(* is a call of a wrapper or leaves the RMM and the tracker alone.         *)
StepOK == /\ StepInv'
          /\ InState("DEV") = {} => InState("DEV")' = {}
          /\ Next \/ UNCHANGED <<rmm, track>>

(* A step fails: what it leaves to undo is known only for                  *)
(* RMI_REALM_CREATE.                                                       *)
Failing ==
  /\ pc' = "undo" /\ failed' = pc /\ Same
  /\ UNCHANGED <<fresh, rd, start, image, rec, recaux, n, plane, create>>

(* It keeps the invariant when the undoing starts from where it should.    *)
LEMMA FailKeeps ==
  ASSUME StepInv, Failing, pc = "create" => UndoInv'
  PROVE  StepOK
<1>0. /\ pc' = "undo" /\ failed' = pc /\ Same /\ UNCHANGED <<rd, image>>
      /\ UNCHANGED <<fresh, rd, start, image, rec, recaux, n, plane, create>>
  BY DEF Failing
<1>1. Stage' = "undo"
  BY <1>0 DEF Stage
<1>2. SetupType'
  BY <1>0 DEF StepInv, SetupType, Stages, Stopped
<1>3. ArgInv' /\ LoopInv'
  BY <1>0, <1>1 DEF ArgInv, LoopInv, Stopped, BeforeRealm, RecStages
<1>4. InHandInv' /\ CountInv'
  BY <1>0, <1>1 DEF InHandInv, CountInv, Stopped, BeforeRealm, RecStages, ImageStages,
     SharedStages, LastStages, Backs
<1>5. MadeInv'
  BY <1>0, <1>1 DEF MadeInv, Stopped, BeforeRealm, RecStages, ImageStages, SharedStages,
     LastStages
<1>6. UndoInv'
  <2>1. CASE pc # "create"
    BY <1>0, <2>1 DEF UndoInv
  <2> QED BY <2>1
<1> QED BY <1>0, <1>2, <1>3, <1>4, <1>5, <1>6, SameGrows DEF StepInv, StepOK, Grown

(* While tables are created, what has been made stays.                     *)
LEMMA StageKeeps ==
  ASSUME StepInv, Grown, Stage \in Backs, Stage' = Stage,
         UNCHANGED <<rd, rec, n, plane, mapped, state, activate>>
  PROVE  MadeInv' /\ CountInv'
<1>1. /\ rd' = rd /\ rec' = rec /\ n' = n /\ plane' = plane /\ mapped' = mapped /\ state' = state
      /\ activate' = activate
  OBVIOUS
<1>2. MadeInv /\ CountInv /\ plane \in Tree
  BY DEF StepInv, SetupType
<1>3. Stage \notin BeforeRealm /\ Stage \notin RecStages /\ Stage \notin Stopped
  BY DEF Backs, BeforeRealm, RecStages, Stopped
<1>4. RealmThere' /\ RecsThere(RecCount)'
  BY <1>1, <1>2, <1>3 DEF MadeInv, Grown, RecsThere
<1>5. Stage \in ImageStages => ImagesThere({t \in Tree : t < plane})'
  BY <1>1, <1>2 DEF MadeInv, Grown, ImagesThere
<1>6. Stage = "aux_map" =>
        ImageThere(plane)' /\ 1 .. n' - 1 \subseteq (AuxTrees(rd, ImageIpa[plane]))'
  BY <1>1, <1>2 DEF MadeInv, Grown
<1>7. Stage \in SharedStages \cup LastStages => ImagesThere(Tree)'
  BY <1>2 DEF MadeInv, Grown, ImagesThere
<1>8. Stage = "aux_shared" => SharedThere' /\ 1 .. n' - 1 \subseteq (AuxTrees(rd, SharedIpa))'
  BY <1>1, <1>2 DEF MadeInv, Grown
<1>9. Stage \in LastStages => SharedThere' /\ Aux \subseteq (AuxTrees(rd, SharedIpa))'
  BY <1>2 DEF MadeInv, Grown
<1>10. MadeInv'
  BY <1>3, <1>4, <1>5, <1>6, <1>7, <1>8, <1>9 DEF MadeInv
<1>11. CountInv'
  <2>1. Stage' = Stage
    OBVIOUS
  <2> QED BY <1>1, <1>2, <2>1, SMTT(60) DEF CountInv
<1> QED BY <1>10, <1>11

(* val_host_create_(aux_)rtt_levels is called, and it will return to where *)
(* it was called.                                                          *)
Calling ==
  /\ pc \in Backs /\ pc' = "level" /\ Same
  /\ create' \in [tree : Tree, ipa : AnyIpa, rtt : {NoAddr}, back : {pc}]
  /\ UNCHANGED <<fresh, rd, start, image, rec, recaux, state, mapped, n, plane, page, activate>>

(* Calling create_mapping is a step that touches no granule.               *)
LEMMA CallKeeps ==
  ASSUME StepInv, Calling
  PROVE  StepOK
<1>0. /\ pc \in Backs /\ pc' = "level" /\ Same
      /\ fresh' = fresh /\ rd' = rd /\ start' = start /\ image' = image /\ rec' = rec
      /\ recaux' = recaux /\ state' = state /\ mapped' = mapped /\ n' = n
      /\ plane' = plane /\ page' = page /\ activate' = activate
  BY DEF Calling
<1>1. create'.back = pc /\ create'.ipa \in AnyIpa
  BY SMTT(60) DEF Calling
<1>2. create' \in [tree : Tree, ipa : AnyIpa \cup {NoAddr}, rtt : PA \cup {NoAddr},
                   back : Backs \cup {"none"}]
  BY SMTT(60) DEF Calling
<1>3. Stage = pc /\ Stage' = pc
  BY <1>0, <1>1 DEF Stage, Backs
<1>4. Grown /\ UNCHANGED <<gran, umap, auxmap>> /\ UNCHANGED <<rmm, track>>
  BY <1>0, SameGrows
<1>5. SetupType'
  BY <1>0, <1>1, <1>2 DEF StepInv, SetupType
<1>6. ArgInv'
  BY <1>0, <1>1, <1>3 DEF StepInv, ArgInv
<1>6a. LoopInv'
  BY <1>0, <1>3 DEF StepInv, LoopInv
<1>7. InState("DELEGATED")' = InState("DELEGATED")
  BY <1>4 DEF InState
<1>8. pc # "rtt_create" /\ pc # "delegate_rtt"
  BY <1>0 DEF Backs
<1>9. \A S : Within(S) => InState("DELEGATED")' \subseteq S
  BY <1>7 DEF Within
<1>10. InHandInv'
  <2>1. pc = "unknown" => Within({page})'
    BY <1>0, <1>3, <1>9 DEF StepInv, InHandInv, Within
  <2>2. pc # "unknown" => Within({})'
    BY <1>0, <1>3, <1>8, <1>9 DEF StepInv, InHandInv, Within
  <2> QED BY <1>0, <1>3, <2>1, <2>2 DEF InHandInv, Backs
<1>11. MadeInv' /\ CountInv'
  BY <1>0, <1>3, <1>4, StageKeeps
<1>12. UndoInv'
  BY <1>0 DEF UndoInv, Stopped
<1> QED BY <1>4, <1>5, <1>6, <1>6a, <1>10, <1>11, <1>12 DEF StepInv, StepOK, Grown
-----------------------------------------------------------------------------
(* val_host_mem_alloc returned k granules.                                 *)
LEMMA Allocated ==
  ASSUME fresh \in Nat, NEW k \in Nat, Room(k)
  PROVE  /\ \A i \in 0 .. k - 1 : fresh + i \in PA
         /\ fresh + k \in Nat
BY SMTT(60) DEF Room

(* The allocation of one granule.                                          *)
LEMMA AllocOne ==
  ASSUME fresh \in Nat, Room(1)
  PROVE  fresh \in PA /\ fresh + 1 \in Nat
BY SMTT(60) DEF Room
-----------------------------------------------------------------------------
(* The steps before the realm is there leave its granules alone.           *)
LEMMA EarlyKeeps ==
  ASSUME StepInv, pc \in BeforeRealm, pc' \in BeforeRealm, Untouched', mapped' = mapped
  PROVE  Stage = pc /\ Stage' = pc' /\ MadeInv' /\ CountInv' /\ UndoInv'
<1>1. Stage = pc /\ Stage' = pc'
  BY DEF Stage, BeforeRealm
<1>2. mapped = 0
  BY <1>1 DEF StepInv, CountInv
<1>3. /\ pc' \notin RecStages /\ pc' \notin ImageStages /\ pc' \notin SharedStages
      /\ pc' \notin LastStages /\ pc' \notin Stopped
  BY DEF BeforeRealm, RecStages, ImageStages, SharedStages, LastStages, Stopped
<1>4. pc' # "aux_map" /\ pc' # "aux_shared" /\ pc' # "done"
  BY DEF BeforeRealm
<1>5. MadeInv'
  BY <1>1, <1>3, <1>4 DEF MadeInv
<1>6. CountInv'
  BY <1>1, <1>2, <1>3, <1>4 DEF CountInv
<1>7. UndoInv'
  BY <1>3 DEF UndoInv
<1> QED BY <1>1, <1>5, <1>6, <1>7

(* The memory for the images.                                              *)
LEMMA AllocImagesKeeps ==
  ASSUME StepInv, AllocImages
  PROVE  StepOK
<1>1. CASE FailAt(<<>>)
  BY <1>1, FailKeeps DEF AllocImages, FailAt, Failing
<1>2. CASE ~FailAt(<<>>)
  <2>1. /\ pc = "images" /\ Room(NumAux + 1) /\ image' = [t \in Tree |-> fresh + t]
        /\ fresh' = fresh + NumAux + 1 /\ pc' = "rtt" /\ Same
        /\ rd' = rd /\ start' = start /\ rec' = rec /\ recaux' = recaux /\ mapped' = mapped
        /\ n' = n /\ plane' = plane /\ create' = create
    BY <1>2 DEF AllocImages, Goto
  <2>2. /\ image' \in [Tree -> PA] /\ fresh' \in Nat
    <3>1. fresh \in Nat
      BY DEF StepInv, SetupType
    <3>2. \A i \in Tree : fresh + i \in PA
      BY <2>1, <3>1, CountAssumption, SMTT(60) DEF Room, Tree
    <3>3. fresh' \in Nat
      BY <2>1, <3>1, CountAssumption, SMTT(60)
    <3> QED BY <2>1, <3>2, <3>3
  <2>3. UNCHANGED <<gran, umap, auxmap>> /\ UNCHANGED <<rmm, track>>
    BY <2>1 DEF Same, rmm
  <2>4. Stage = "images" /\ Stage' = "rtt" /\ MadeInv' /\ CountInv' /\ UndoInv'
    <3>1. Untouched'
      BY <2>1, <2>3 DEF StepInv, MadeInv, Untouched, Stage, BeforeRealm
    <3> QED BY <2>1, <3>1, EarlyKeeps DEF BeforeRealm
  <2>5. SetupType'
    BY <2>1, <2>2 DEF StepInv, SetupType, Stages, BeforeRealm
  <2>6. plane = 0 /\ rec = <<>> /\ recaux = <<>>
    BY <2>4 DEF StepInv, LoopInv, BeforeRealm
  <2>7. \A t \in Tree : ~(t < plane')
    BY <2>1, <2>6, CountAssumption, SMTT(60) DEF Tree
  <2>8. ArgInv'
    BY <2>1, <2>2, <2>4, <2>7 DEF ArgInv, Stopped
  <2>9. LoopInv'
    BY <2>1, <2>4, <2>6 DEF LoopInv, BeforeRealm, RecStages
  <2>10. InState("DELEGATED")' = {}
    BY <2>3, <2>4 DEF StepInv, InHandInv, Within, InState
  <2>11. InHandInv'
    BY <2>1, <2>4, <2>10 DEF InHandInv, Within, Backs
  <2>12. InState("DEV")' = InState("DEV")
    BY <2>3 DEF InState
  <2> QED BY <2>3, <2>4, <2>5, <2>8, <2>9, <2>11, <2>12 DEF StepInv, StepOK
<1> QED BY <1>1, <1>2

(* The start tables of a tree are allocated.                               *)
LEMMA AllocRttKeeps ==
  ASSUME StepInv, AllocRtt
  PROVE  StepOK
<1>1. CASE FailAt(<<rd>>)
  BY <1>1, FailKeeps DEF AllocRtt, FailAt, Failing
<1>2. CASE ~FailAt(<<rd>>)
  <2>1. /\ pc = "rtt" /\ Room(SlRtts)
        /\ start' = [start EXCEPT ![plane] = [s \in 1 .. SlRtts |-> fresh + s - 1]]
        /\ fresh' = fresh + SlRtts /\ n' = 1 /\ pc' = "delegate_rtt" /\ Same
        /\ rd' = rd /\ image' = image /\ rec' = rec /\ recaux' = recaux /\ mapped' = mapped
        /\ plane' = plane /\ create' = create
    BY <1>2 DEF AllocRtt, Goto
  <2>2. fresh \in Nat /\ plane \in Tree /\ start \in [Tree -> {<<>>} \cup StartTable]
    BY DEF StepInv, SetupType
  <2>3. [s \in 1 .. SlRtts |-> fresh + s - 1] \in StartTable /\ fresh' \in Nat
    <3>1. \A s \in 1 .. SlRtts : fresh + s - 1 \in PA
      BY <2>1, <2>2, SetupAssumption, SMTT(60) DEF Room
    <3>2. fresh' \in Nat
      BY <2>1, <2>2, SetupAssumption, SMTT(60)
    <3> QED BY <3>1, <3>2 DEF StartTable
  <2>4. /\ start' \in [Tree -> {<<>>} \cup StartTable] /\ start'[plane] \in StartTable
        /\ \A t \in Tree : t # plane => start'[t] = start[t]
    BY <2>1, <2>2, <2>3
  <2>5. UNCHANGED <<gran, umap, auxmap>> /\ UNCHANGED <<rmm, track>>
    BY <2>1 DEF Same, rmm
  <2>6. Stage = "rtt" /\ Stage' = "delegate_rtt" /\ MadeInv' /\ CountInv' /\ UndoInv'
    <3>1. Untouched'
      BY <2>1, <2>5 DEF StepInv, MadeInv, Untouched, Stage, BeforeRealm
    <3> QED BY <2>1, <3>1, EarlyKeeps DEF BeforeRealm
  <2>7. SetupType'
    BY <2>1, <2>2, <2>3, <2>4 DEF StepInv, SetupType, Stages, BeforeRealm
  <2>8. \A t \in Tree : t <= plane <=> t < plane \/ t = plane
    BY <2>2, CountAssumption, SMTT(60) DEF Tree
  <2>9. \A t \in Tree : t <= plane' => start'[t] \in StartTable
    BY <2>1, <2>2, <2>4, <2>6, <2>8 DEF StepInv, ArgInv
  <2>10. n' \in 1 .. SlRtts
    BY <2>1, SetupAssumption, SMTT(60)
  <2>11. ArgInv'
    BY <2>1, <2>6, <2>9, <2>10 DEF StepInv, ArgInv, Stopped
  <2>12. LoopInv'
    BY <2>1, <2>6 DEF StepInv, LoopInv, BeforeRealm, RecStages
  <2>13. ASSUME NEW p \in InState("DELEGATED")'
         PROVE  p \in TablesTo'
    <3>1. p \in TablesBefore
      BY <2>5, <2>6, <2>13 DEF StepInv, InHandInv, Within, InState
    <3>2. PICK t \in Tree, s \in 1 .. SlRtts : t < plane /\ p = start[t][s]
      BY <3>1 DEF TablesBefore
    <3>3. t # plane /\ t <= plane'
      BY <2>1, <2>2, <3>2, CountAssumption, SMTT(60) DEF Tree
    <3>4. p \in PA
      BY <2>13 DEF InState
    <3> QED BY <2>4, <3>2, <3>3, <3>4 DEF TablesTo
  <2>14. InHandInv'
    BY <2>1, <2>6, <2>13 DEF InHandInv, Within, Backs
  <2>15. InState("DEV")' = InState("DEV")
    BY <2>5 DEF InState
  <2> QED BY <2>5, <2>6, <2>7, <2>11, <2>12, <2>14, <2>15 DEF StepInv, StepOK
<1> QED BY <1>1, <1>2

(* A start table is delegated; after the last of a tree comes the next     *)
(* tree, and after the last tree the RD.                                   *)
LEMMA DelegateRttKeeps ==
  ASSUME GranOK, StepInv, DelegateRtt
  PROVE  StepOK
<1>1. CASE FailAt(<<rd>>)
  BY <1>1, FailKeeps DEF DelegateRtt, FailAt, Failing
<1>2. CASE ~FailAt(<<rd>>)
  <2>1. /\ pc = "delegate_rtt" /\ rmi_granule_delegate(start[plane][n])
        /\ n' = IF n < SlRtts THEN n + 1 ELSE 0
        /\ plane' = IF n < SlRtts THEN plane ELSE IF plane < NumAux THEN plane + 1 ELSE 0
        /\ pc' = IF n < SlRtts THEN "delegate_rtt" ELSE IF plane < NumAux THEN "rtt" ELSE "rd"
        /\ fresh' = fresh /\ rd' = rd /\ start' = start /\ image' = image /\ rec' = rec
        /\ recaux' = recaux /\ mapped' = mapped /\ create' = create
    BY <1>2 DEF DelegateRtt, Goto, Realm
  <2>2. /\ plane \in Tree /\ Stage = "delegate_rtt" /\ n \in 1 .. SlRtts
        /\ \A t \in Tree : t <= plane => start[t] \in StartTable
    BY <2>1 DEF StepInv, SetupType, ArgInv, Stage
  <2>3. plane <= plane /\ \A t \in Tree : plane = NumAux => t <= plane
    BY <2>2, CountAssumption, SMTT(60) DEF Tree
  <2>4. start[plane][n] \in PA
    <3>1. start[plane] \in [1 .. SlRtts -> PA]
      BY <2>2, <2>3 DEF StartTable
    <3> QED BY <2>2, <3>1
  <2>5. /\ InState("DELEGATED")' = InState("DELEGATED") \cup {start[plane][n]}
        /\ Untouched => Untouched'
        /\ InState("DEV")' = InState("DEV") /\ Next
    BY <2>1, <2>4, Delegates
  <2>6. pc' \in BeforeRealm /\ pc' \in {"delegate_rtt", "rtt", "rd"}
    BY <2>1 DEF BeforeRealm
  <2>7. Stage' = pc' /\ MadeInv' /\ CountInv' /\ UndoInv'
    <3>1. Untouched'
      BY <2>2, <2>5 DEF StepInv, MadeInv, BeforeRealm
    <3> QED BY <2>1, <2>6, <3>1, EarlyKeeps DEF BeforeRealm
  <2>8. n' \in Nat /\ plane' \in Tree
    BY <2>1, <2>2, CountAssumption, SetupAssumption, SMTT(60) DEF Tree
  <2>9. SetupType'
    BY <2>1, <2>6, <2>8 DEF StepInv, SetupType, Stages, BeforeRealm
  <2>10. rec = <<>> /\ recaux = <<>> /\ image \in [Tree -> PA]
    BY <2>2 DEF StepInv, LoopInv, ArgInv, BeforeRealm, Stopped
  <2>11. \A p \in InState("DELEGATED") : p \in TablesTo
    BY <2>2 DEF StepInv, InHandInv, Within
  <2>12. \A p \in InState("DELEGATED")' : p \in TablesTo
    BY <2>2, <2>3, <2>4, <2>5, <2>11 DEF TablesTo
  <2>13. Next /\ (InState("DEV") = {} => InState("DEV")' = {})
    BY <2>5
  <2>14. CASE n < SlRtts
    <3>1. Stage' = "delegate_rtt" /\ plane' = plane /\ n' = n + 1
      BY <2>1, <2>7, <2>14
    <3>2. n' \in 1 .. SlRtts
      BY <2>2, <2>14, <3>1, SetupAssumption, SMTT(60)
    <3>3. ArgInv'
      BY <2>1, <2>2, <2>7, <2>10, <3>1, <3>2 DEF ArgInv, Stopped
    <3>4. LoopInv'
      BY <2>1, <2>10, <3>1 DEF LoopInv, BeforeRealm, RecStages
    <3>5. TablesTo' = TablesTo
      BY <2>1, <3>1 DEF TablesTo
    <3>6. InHandInv'
      BY <2>7, <2>12, <3>1, <3>5 DEF InHandInv, Within, Backs
    <3> QED BY <2>7, <2>9, <2>13, <3>3, <3>4, <3>6 DEF StepInv, StepOK
  <2>15. CASE ~(n < SlRtts) /\ plane < NumAux
    <3>1. Stage' = "rtt" /\ plane' = plane + 1
      BY <2>1, <2>7, <2>15
    <3>2. \A t \in Tree : t < plane' <=> t <= plane
      BY <2>2, <3>1, CountAssumption, SMTT(60) DEF Tree
    <3>3. ArgInv'
      BY <2>1, <2>2, <2>7, <2>10, <3>1, <3>2 DEF ArgInv, Stopped
    <3>4. LoopInv'
      BY <2>1, <2>10, <3>1 DEF LoopInv, BeforeRealm, RecStages
    <3>5. TablesBefore' = TablesTo
      BY <2>1, <3>2 DEF TablesTo, TablesBefore
    <3>6. InHandInv'
      BY <2>7, <2>12, <3>1, <3>5 DEF InHandInv, Within, Backs
    <3> QED BY <2>7, <2>9, <2>13, <3>3, <3>4, <3>6 DEF StepInv, StepOK
  <2>16. CASE ~(n < SlRtts) /\ ~(plane < NumAux)
    <3>1. Stage' = "rd" /\ plane' = 0 /\ n' = 0
      BY <2>1, <2>7, <2>16
    <3>2. plane = NumAux
      BY <2>2, <2>16, CountAssumption, SMTT(60) DEF Tree
    <3>3. ArgInv'
      BY <2>1, <2>2, <2>3, <2>7, <2>10, <3>1, <3>2 DEF ArgInv, Stopped
    <3>4. LoopInv'
      BY <2>1, <2>10, <3>1 DEF LoopInv, BeforeRealm, RecStages
    <3>5. AllTables' = TablesTo
      BY <2>1, <2>3, <3>2 DEF TablesTo, AllTables
    <3>6. InHandInv'
      BY <2>7, <2>12, <3>1, <3>5 DEF InHandInv, Within, Backs
    <3> QED BY <2>7, <2>9, <2>13, <3>3, <3>4, <3>6 DEF StepInv, StepOK
  <2> QED BY <2>14, <2>15, <2>16
<1> QED BY <1>1, <1>2

(* The RD is allocated, then delegated.                                    *)
LEMMA AllocRdKeeps ==
  ASSUME StepInv, AllocRd
  PROVE  StepOK
<1>1. CASE FailAt(<<>>)
  BY <1>1, FailKeeps DEF AllocRd, FailAt, Failing
<1>2. CASE ~FailAt(<<>>)
  <2>1. /\ pc = "rd" /\ Room(1) /\ rd' = fresh /\ fresh' = fresh + 1 /\ pc' = "delegate_rd"
        /\ Same /\ start' = start /\ image' = image /\ rec' = rec /\ recaux' = recaux
        /\ mapped' = mapped /\ n' = n /\ plane' = plane /\ create' = create
    BY <1>2 DEF AllocRd, Goto
  <2>2. rd' \in PA /\ fresh' \in Nat
    BY <2>1, AllocOne DEF StepInv, SetupType
  <2>3. UNCHANGED <<gran, umap, auxmap>> /\ UNCHANGED <<rmm, track>>
    BY <2>1 DEF Same, rmm
  <2>4. Stage = "rd" /\ Stage' = "delegate_rd" /\ MadeInv' /\ CountInv' /\ UndoInv'
    <3>1. Untouched'
      BY <2>1, <2>3 DEF StepInv, MadeInv, Untouched, Stage, BeforeRealm
    <3> QED BY <2>1, <3>1, EarlyKeeps DEF BeforeRealm
  <2>5. SetupType'
    BY <2>1, <2>2 DEF StepInv, SetupType, Stages, BeforeRealm
  <2>6. ArgInv'
    BY <2>1, <2>2, <2>4 DEF StepInv, ArgInv, Stopped
  <2>7. LoopInv'
    BY <2>1, <2>4 DEF StepInv, LoopInv, BeforeRealm, RecStages
  <2>8. Within(AllTables)'
    <3>1. AllTables' = AllTables /\ InState("DELEGATED")' = InState("DELEGATED")
      BY <2>1, <2>3 DEF AllTables, InState
    <3> QED BY <2>4, <3>1 DEF StepInv, InHandInv, Within
  <2>9. InHandInv'
    BY <2>1, <2>4, <2>8 DEF InHandInv, Backs
  <2>10. InState("DEV")' = InState("DEV")
    BY <2>3 DEF InState
  <2> QED BY <2>3, <2>4, <2>5, <2>6, <2>7, <2>9, <2>10 DEF StepInv, StepOK
<1> QED BY <1>1, <1>2

(* The granule of the RD is delegated.                                     *)
LEMMA DelegateRdKeeps ==
  ASSUME GranOK, StepInv, DelegateRd
  PROVE  StepOK
<1>1. CASE FailAt(<<>>)
  BY <1>1, FailKeeps DEF DelegateRd, FailAt, Failing
<1>2. CASE ~FailAt(<<>>)
  <2>1. /\ pc = "delegate_rd" /\ rmi_granule_delegate(rd) /\ pc' = "create" /\ fresh' = fresh
        /\ rd' = rd /\ start' = start /\ image' = image /\ rec' = rec /\ recaux' = recaux
        /\ mapped' = mapped /\ n' = n /\ plane' = plane /\ create' = create
    BY <1>2 DEF DelegateRd, Goto, Realm
  <2>2. rd \in PA
    BY <2>1 DEF StepInv, ArgInv, Stage, Stopped
  <2>3. /\ InState("DELEGATED")' = InState("DELEGATED") \cup {rd}
        /\ Untouched => Untouched'
        /\ InState("DEV")' = InState("DEV") /\ Next
    BY <2>1, <2>2, Delegates
  <2>4. Stage = "delegate_rd" /\ Stage' = "create" /\ MadeInv' /\ CountInv' /\ UndoInv'
    <3>1. Untouched'
      BY <2>1, <2>3 DEF StepInv, MadeInv, Stage, BeforeRealm
    <3> QED BY <2>1, <3>1, EarlyKeeps DEF BeforeRealm
  <2>5. SetupType'
    BY <2>1 DEF StepInv, SetupType, Stages, BeforeRealm
  <2>6. ArgInv'
    BY <2>1, <2>4 DEF StepInv, ArgInv, Stopped
  <2>7. LoopInv'
    BY <2>1, <2>4 DEF StepInv, LoopInv, BeforeRealm, RecStages
  <2>8. Within(AllTables \cup {rd})'
    <3>1. InState("DELEGATED") \subseteq AllTables /\ AllTables' = AllTables
      BY <2>1, <2>4 DEF StepInv, InHandInv, Within, AllTables
    <3> QED BY <2>1, <2>3, <3>1 DEF Within
  <2>9. InHandInv'
    BY <2>1, <2>4, <2>8 DEF InHandInv, Backs
  <2>10. Next /\ (InState("DEV") = {} => InState("DEV")' = {})
    BY <2>3
  <2> QED BY <2>4, <2>5, <2>6, <2>7, <2>9, <2>10 DEF StepInv, StepOK
<1> QED BY <1>1, <1>2

(* RMI_REALM_CREATE.  When it fails, the granules to undelegate and the    *)
(* further pages of the start tables are all that is DELEGATED.            *)
LEMMA CreateRealmKeeps ==
  ASSUME GranOK, StepInv, CreateRealm
  PROVE  StepOK
<1>0. /\ pc = "create" /\ Stage = "create" /\ rd \in PA /\ image \in [Tree -> PA]
      /\ \A t \in Tree : start[t] \in StartTable
      /\ Untouched /\ plane = 0 /\ n = 0 /\ rec = <<>> /\ recaux = <<>> /\ mapped = 0
  <2>1. pc = "create" /\ Stage = "create"
    BY DEF CreateRealm, Stage
  <2>2. rd \in PA /\ image \in [Tree -> PA] /\ \A t \in Tree : start[t] \in StartTable
    BY <2>1 DEF StepInv, ArgInv, Stopped
  <2>3. plane = 0 /\ n = 0 /\ rec = <<>> /\ recaux = <<>>
    BY <2>1 DEF StepInv, LoopInv, BeforeRealm
  <2>4. Untouched /\ mapped = 0
    BY <2>1 DEF StepInv, MadeInv, CountInv, BeforeRealm
  <2> QED BY <2>1, <2>2, <2>3, <2>4
<1>1. \A t \in Tree, s \in 1 .. SlRtts : start[t][s] \in PA
  <2>1. \A t \in Tree : start[t] \in [1 .. SlRtts -> PA]
    BY <1>0 DEF StartTable
  <2> QED BY <2>1
<1>2. InState("DELEGATED") \subseteq AllTables \cup {rd}
  BY <1>0 DEF StepInv, InHandInv, Within
<1>3. CASE FailAt(UndoCreate)
  <2> DEFINE f == [t \in 1 .. NumAux + 1 |-> start[t - 1][1]]
  <2>1. /\ pc' = "undo" /\ undo' = f \o <<rd>> /\ start' = start /\ gran' = gran
    BY <1>3 DEF FailAt, UndoCreate, Same, rmm
  <2>2. f \in Seq(PA) /\ Len(f) = NumAux + 1 /\ \A t \in Tree : f[t + 1] = start[t][1]
    <3>1. \A t \in 1 .. NumAux + 1 : t - 1 \in Tree
      BY CountAssumption, SMTT(60) DEF Tree
    <3>2. 1 \in 1 .. SlRtts
      BY SetupAssumption, SMTT(60)
    <3>3. \A t \in 1 .. NumAux + 1 : f[t] \in PA
      BY <1>1, <3>1, <3>2
    <3>4. f \in Seq(PA) /\ Len(f) = NumAux + 1
      BY <3>3, CountAssumption, SMTT(60)
    <3>5. \A t \in Tree : t + 1 \in 1 .. NumAux + 1 /\ (t + 1) - 1 = t
      BY CountAssumption, SMTT(60) DEF Tree
    <3> QED BY <3>4, <3>5
  <2>3. /\ undo' \in Seq(PA) /\ Len(undo') = NumAux + 2 /\ undo'[NumAux + 2] = rd
        /\ \A i \in 1 .. NumAux + 1 : undo'[i] = f[i]
    <3> HIDE DEF f
    <3> QED BY <1>0, <2>1, <2>2, CountAssumption, SMTT(60)
  <2>4. ASSUME NEW p \in PA, gran'[p].st # "UNDELEGATED"
        PROVE  /\ gran'[p].st = "DELEGATED"
               /\ p \in LaterTables' \cup {undo'[i] : i \in 1 .. Len(undo')}
    <3>1. gran[p].st = "DELEGATED"
      BY <1>0, <2>1, <2>4 DEF Untouched
    <3>2. p \in AllTables \cup {rd}
      BY <1>2, <3>1 DEF InState
    <3>3. CASE p = rd
      <4>1. NumAux + 2 \in 1 .. Len(undo')
        BY <2>3, CountAssumption, SMTT(60)
      <4> QED BY <2>1, <2>3, <3>1, <3>3, <4>1
    <3>4. CASE p \in AllTables
      <4>1. PICK t \in Tree, s \in 1 .. SlRtts : p = start[t][s]
        BY <3>4 DEF AllTables
      <4>2. CASE s = 1
        <5>1. t + 1 \in 1 .. NumAux + 1 /\ t + 1 \in 1 .. Len(undo')
          BY <2>3, CountAssumption, SMTT(60) DEF Tree
        <5>2. p = undo'[t + 1]
          BY <2>2, <2>3, <4>1, <4>2, <5>1
        <5> QED BY <2>1, <3>1, <5>1, <5>2
      <4>3. CASE s # 1
        <5>1. s \in 2 .. SlRtts
          BY <4>3, SetupAssumption, SMTT(60)
        <5> QED BY <2>1, <3>1, <4>1, <5>1 DEF LaterTables
      <4> QED BY <4>2, <4>3
    <3> QED BY <3>2, <3>3, <3>4
  <2>5. UndoInv'
    BY <2>1, <2>3, <2>4 DEF UndoInv
  <2> QED BY <1>3, <2>5, FailKeeps DEF FailAt, Failing
<1>4. CASE ~FailAt(UndoCreate)
  <2> DEFINE S == UNION {{start[t][s] : s \in 1 .. SlRtts} : t \in Tree}
  <2>1. /\ rmi_realm_create(rd, S) /\ state' = "NEW" /\ pc' = "aux_count" /\ fresh' = fresh
        /\ rd' = rd /\ start' = start /\ image' = image /\ rec' = rec /\ recaux' = recaux
        /\ mapped' = mapped /\ n' = n /\ plane' = plane /\ create' = create
    BY <1>4 DEF CreateRealm, Goto
  <2>2. S \in SUBSET PA /\ AllTables \subseteq S
    <3>1. ASSUME NEW t \in Tree, NEW s \in 1 .. SlRtts PROVE start[t][s] \in S
      <4>1. start[t][s] \in {start[t][q] : q \in 1 .. SlRtts}
        OBVIOUS
      <4> QED BY <4>1
    <3>2. \A p \in S : \E t \in Tree : p \in {start[t][s] : s \in 1 .. SlRtts}
      OBVIOUS
    <3> HIDE DEF S
    <3>3. AllTables \subseteq S
      BY <3>1 DEF AllTables
    <3>4. \A p \in S : p \in PA
      BY <1>1, <3>2
    <3> QED BY <3>3, <3>4
  <2>3. /\ RealmThere' /\ (InState("DEV") = {} => InState("DEV")' = {})
        /\ InState("DELEGATED")' = InState("DELEGATED") \ ({rd} \cup S)
        /\ (Owned("REC", rd))' = {} /\ Next
    <3> HIDE DEF S
    <3> QED BY <1>0, <2>1, <2>2, RealmMade
  <2>4. InState("DELEGATED")' = {}
    BY <1>2, <2>2, <2>3
  <2>5. Stage' = "aux_count"
    BY <2>1 DEF Stage
  <2>6. SetupType'
    BY <2>1 DEF StepInv, SetupType, Stages, RecStages
  <2>7. ArgInv'
    BY <1>0, <2>1, <2>5 DEF ArgInv
  <2>8. LoopInv'
    BY <1>0, <2>1, <2>5 DEF LoopInv
  <2>9. InHandInv'
    BY <2>1, <2>4, <2>5 DEF InHandInv, Within
  <2>10. RecsThere(n)'
    <3>1. \A i : i \notin 1 .. n'
      BY <1>0, <2>1, SMTT(60)
    <3> QED BY <2>3, <3>1 DEF RecsThere
  <2>11. MadeInv'
    BY <2>3, <2>5, <2>10 DEF MadeInv, BeforeRealm, RecStages, ImageStages, SharedStages, LastStages
  <2>12. CountInv' /\ UndoInv'
    BY <1>0, <2>1, <2>5 DEF CountInv, UndoInv, Stopped, RecStages, ImageStages, SharedStages,
       LastStages
  <2> QED BY <2>3, <2>6, <2>7, <2>8, <2>9, <2>11, <2>12 DEF StepInv, StepOK
<1> QED BY <1>3, <1>4
-----------------------------------------------------------------------------
(* The steps of val_host_rec_create between two RECs.                      *)
LEMMA RecKeeps ==
  ASSUME StepInv, Grown, pc \in RecStages, pc' \in RecStages, n' = n,
         \A i \in 1 .. n : rec'[i] = rec[i], UNCHANGED <<mapped, state>>
  PROVE  MadeInv' /\ CountInv' /\ UndoInv'
<1>1. Stage = pc /\ Stage' = pc'
  BY DEF Stage, RecStages
<1>2. /\ pc' \notin BeforeRealm /\ pc' \notin ImageStages /\ pc' \notin SharedStages
      /\ pc' \notin LastStages /\ pc' \notin Stopped
      /\ pc \notin BeforeRealm /\ pc \notin LastStages /\ pc \notin Stopped
  BY DEF BeforeRealm, RecStages, ImageStages, SharedStages, LastStages, Stopped
<1>3. pc' # "aux_map" /\ pc' # "aux_shared" /\ pc' # "done"
  BY DEF RecStages
<1>4. RealmThere /\ RecsThere(n) /\ mapped = 0 /\ state = "NEW"
  BY <1>1, <1>2 DEF StepInv, MadeInv, CountInv
<1>5. RealmThere' /\ RecsThere(n)'
  <2>1. RealmThere' /\ (Owned("REC", rd))' = Owned("REC", rd)
    BY <1>4 DEF Grown
  <2>2. \A p : p \in (Owned("REC", rd))' <=> \E i \in 1 .. n : p = rec'[i]
    BY <1>4, <2>1 DEF RecsThere
  <2>3. \A i, j \in 1 .. n : rec'[i] = rec'[j] => i = j
    BY <1>4 DEF RecsThere
  <2> QED BY <2>1, <2>2, <2>3 DEF RecsThere
<1>6. MadeInv'
  BY <1>1, <1>2, <1>3, <1>5 DEF MadeInv
<1>7. CountInv'
  BY <1>1, <1>2, <1>3, <1>4 DEF CountInv
<1>8. UndoInv'
  BY <1>2 DEF UndoInv
<1> QED BY <1>6, <1>7, <1>8

(* What stays while val_host_rec_create runs.                              *)
LEMMA RecArgs ==
  ASSUME StepInv, pc \in RecStages, pc' \in RecStages, UNCHANGED <<rd, start, image>>
  PROVE  Stage = pc /\ Stage' = pc' /\ rd \in PA /\ ArgInv' /\ plane = 0
<1>1. Stage = pc /\ Stage' = pc'
  BY DEF Stage, RecStages
<1>2. pc \notin {"images", "rtt", "delegate_rtt", "rd"} \cup Stopped
  BY DEF RecStages, Stopped
<1>3. /\ image \in [Tree -> PA] /\ rd \in PA
      /\ \A t \in Tree : start[t] \in StartTable
  BY <1>1, <1>2 DEF StepInv, ArgInv
<1>4. pc' \notin {"rtt", "delegate_rtt", "level", "rtt_create", "unknown"}
  BY DEF RecStages
<1>5. ArgInv'
  BY <1>1, <1>3, <1>4 DEF ArgInv
<1>6. plane = 0
  BY <1>1 DEF StepInv, LoopInv
<1> QED BY <1>1, <1>3, <1>5, <1>6

(* RMI_REC_AUX_COUNT.                                                      *)
LEMMA RecAuxCountKeeps ==
  ASSUME StepInv, RecAuxCount
  PROVE  StepOK
<1>1. CASE FailAt(<<>>)
  BY <1>1, FailKeeps DEF RecAuxCount, FailAt, Failing
<1>2. CASE ~FailAt(<<>>)
  <2>1. /\ pc = "aux_count" /\ pc' = "rec" /\ Same /\ fresh' = fresh
        /\ rd' = rd /\ start' = start /\ image' = image /\ rec' = rec /\ recaux' = recaux
        /\ mapped' = mapped /\ state' = state /\ n' = n /\ plane' = plane /\ create' = create
    BY <1>2 DEF RecAuxCount, Goto, Realm
  <2>2. Grown /\ UNCHANGED <<gran, umap, auxmap>> /\ UNCHANGED <<rmm, track>>
    BY <2>1, SameGrows
  <2>3. MadeInv' /\ CountInv' /\ UndoInv'
    BY <2>1, <2>2, RecKeeps DEF RecStages
  <2>4. Stage = "aux_count" /\ Stage' = "rec" /\ ArgInv' /\ plane = 0
    BY <2>1, RecArgs DEF RecStages
  <2>5. n = 0 /\ rec = <<>> /\ recaux = <<>>
    BY <2>4 DEF StepInv, LoopInv
  <2>6. n' <= RecCount /\ Len(rec') = n' /\ Len(recaux') = n'
    BY <2>1, <2>5, SetupAssumption, SMTT(60)
  <2>7. LoopInv'
    BY <2>1, <2>4, <2>6 DEF LoopInv, BeforeRealm
  <2>8. InHandInv'
    BY <2>1, <2>2, <2>4 DEF StepInv, InHandInv, Within, InState, Backs
  <2>9. SetupType'
    BY <2>1 DEF StepInv, SetupType, Stages, RecStages
  <2> QED BY <2>2, <2>3, <2>4, <2>7, <2>8, <2>9 DEF StepInv, StepOK, Grown
<1> QED BY <1>1, <1>2

(* The loop over the RECs: the memory of the next, or on to the images.    *)
LEMMA AllocRecKeeps ==
  ASSUME StepInv, AllocRec
  PROVE  StepOK
<1>0. pc = "rec" /\ Stage = "rec" /\ n \in Nat
  BY DEF AllocRec, Stage, StepInv, SetupType
<1>1. CASE FailAt(UndoRecs)
  BY <1>1, FailKeeps DEF AllocRec, FailAt, Failing
<1>2. CASE n < RecCount /\ ~FailAt(UndoRecs)
  <2>1. /\ Room(1) /\ rec' = Append(rec, fresh) /\ recaux' = Append(recaux, <<>>)
        /\ fresh' = fresh + 1 /\ pc' = "delegate_rec" /\ Same
        /\ rd' = rd /\ start' = start /\ image' = image /\ mapped' = mapped /\ state' = state
        /\ n' = n /\ plane' = plane /\ create' = create
    <3>1. n # RecCount
      BY <1>0, <1>2, SetupAssumption, SMTT(60)
    <3> QED BY <1>2, <3>1 DEF AllocRec, Goto
  <2>2. /\ rec \in Seq(PA) /\ recaux \in Seq(Seq(PA)) /\ fresh \in PA /\ fresh' \in Nat
        /\ Len(rec) = n /\ Len(recaux) = n
    BY <1>0, <2>1, AllocOne DEF StepInv, SetupType, LoopInv
  <2>3. /\ rec' \in Seq(PA) /\ Len(rec') = n + 1 /\ \A i \in 1 .. n : rec'[i] = rec[i]
    BY <2>1, <2>2, SMTT(60)
  <2>4. recaux' \in Seq(Seq(PA)) /\ Len(recaux') = n + 1 /\ recaux'[n + 1] = <<>>
    <3>1. <<>> \in Seq(PA)
      BY SMTT(60)
    <3> QED BY <2>1, <2>2, <3>1, SMTT(60)
  <2>5. Grown /\ UNCHANGED <<gran, umap, auxmap>> /\ UNCHANGED <<rmm, track>>
    BY <2>1, SameGrows
  <2>6. MadeInv' /\ CountInv' /\ UndoInv'
    BY <1>0, <2>1, <2>3, <2>5, RecKeeps DEF RecStages
  <2>7. Stage' = "delegate_rec" /\ ArgInv' /\ plane = 0
    BY <1>0, <2>1, RecArgs DEF RecStages
  <2>8. LoopInv'
    BY <1>2, <2>1, <2>3, <2>4, <2>7 DEF LoopInv, BeforeRealm
  <2>9. InHandInv'
    BY <1>0, <2>1, <2>5, <2>7 DEF StepInv, InHandInv, Within, InState, Backs
  <2>10. SetupType'
    BY <2>1, <2>2, <2>3, <2>4 DEF StepInv, SetupType, Stages, RecStages
  <2> QED BY <2>5, <2>6, <2>7, <2>8, <2>9, <2>10 DEF StepInv, StepOK, Grown
<1>3. CASE ~(n < RecCount) /\ ~FailAt(UndoRecs)
  <2>1. /\ n = RecCount /\ n' = 0 /\ pc' = "ripas" /\ Same /\ fresh' = fresh
        /\ rd' = rd /\ start' = start /\ image' = image /\ rec' = rec /\ recaux' = recaux
        /\ mapped' = mapped /\ state' = state /\ plane' = plane /\ create' = create
    BY <1>3 DEF AllocRec, Goto, Realm
  <2>2. Grown /\ UNCHANGED <<gran, umap, auxmap>> /\ UNCHANGED <<rmm, track>>
    BY <2>1, SameGrows
  <2>3. Stage' = "ripas"
    BY <2>1 DEF Stage
  <2>4. RealmThere /\ RecsThere(n) /\ mapped = 0 /\ state = "NEW" /\ plane = 0
    BY <1>0 DEF StepInv, MadeInv, CountInv, LoopInv, BeforeRealm, RecStages, LastStages, Stopped
  <2>5. RealmThere' /\ RecsThere(RecCount)'
    BY <2>1, <2>2, <2>4 DEF Grown, RecsThere
  <2>6. \A t \in Tree : ~(t < plane')
    BY <2>1, <2>4, CountAssumption, SMTT(60) DEF Tree
  <2>7. MadeInv'
    BY <2>3, <2>5, <2>6 DEF MadeInv, ImagesThere, BeforeRealm, RecStages, SharedStages, LastStages
  <2>8. CountInv' /\ UndoInv'
    BY <2>1, <2>3, <2>4 DEF CountInv, UndoInv, BeforeRealm, RecStages, ImageStages,
       SharedStages, LastStages, Stopped
  <2>9. ArgInv'
    BY <1>0, <2>1, <2>3 DEF StepInv, ArgInv, Stopped
  <2>10. LoopInv'
    BY <2>3 DEF LoopInv, BeforeRealm, RecStages
  <2>11. InHandInv'
    BY <1>0, <2>1, <2>2, <2>3 DEF StepInv, InHandInv, Within, InState
  <2>12. SetupType'
    BY <2>1 DEF StepInv, SetupType, Stages, ImageStages
  <2> QED BY <2>2, <2>7, <2>8, <2>9, <2>10, <2>11, <2>12 DEF StepInv, StepOK, Grown
<1> QED BY <1>1, <1>2, <1>3

(* The granule of a REC is delegated.                                      *)
LEMMA DelegateRecKeeps ==
  ASSUME GranOK, StepInv, DelegateRec
  PROVE  StepOK
<1>1. CASE FailAt(UndoRecs)
  BY <1>1, FailKeeps DEF DelegateRec, FailAt, Failing
<1>2. CASE ~FailAt(UndoRecs)
  <2>1. /\ pc = "delegate_rec" /\ rmi_granule_delegate(rec[n + 1])
        /\ pc' = IF RecAux > 0 THEN "aux" ELSE "rec_create"
        /\ fresh' = fresh /\ rd' = rd /\ start' = start /\ image' = image /\ rec' = rec
        /\ recaux' = recaux /\ mapped' = mapped /\ state' = state /\ n' = n
        /\ plane' = plane /\ create' = create
    BY <1>2 DEF DelegateRec, Goto, Realm
  <2>2. pc \in RecStages /\ pc' \in RecStages /\ pc' \in {"aux", "rec_create"}
    BY <2>1 DEF RecStages
  <2>3. Stage = pc /\ Stage' = pc' /\ ArgInv' /\ plane = 0
    BY <2>1, <2>2, RecArgs
  <2>4. /\ n \in Nat /\ rec \in Seq(PA) /\ n < RecCount /\ Len(rec) = n + 1
        /\ Len(recaux) = n + 1 /\ recaux[n + 1] = <<>>
    BY <2>1, <2>3 DEF StepInv, SetupType, LoopInv
  <2>5. rec[n + 1] \in PA /\ Len(<<>>) = 0
    BY <2>4, SMTT(60)
  <2>6. /\ InState("DELEGATED")' = InState("DELEGATED") \cup {rec[n + 1]}
        /\ InState("DEV")' = InState("DEV") /\ Next /\ Grown
    BY <2>1, <2>5, Delegates, DelegateGrows
  <2>7. MadeInv' /\ CountInv' /\ UndoInv'
    BY <2>1, <2>2, <2>6, RecKeeps
  <2>8. /\ pc' = "aux" => Len(recaux'[n' + 1]) < RecAux
        /\ pc' = "rec_create" => Len(recaux'[n' + 1]) = RecAux
    <3>1. recaux'[n' + 1] = <<>>
      BY <2>1, <2>4
    <3>2. RecAux \in Nat
      BY CountAssumption
    <3> QED BY <2>1, <2>5, <3>1, <3>2, SMTT(60)
  <2>9. LoopInv'
    BY <2>1, <2>2, <2>3, <2>4, <2>8 DEF LoopInv, BeforeRealm
  <2>10. Within(RecGranules)'
    <3>1. InState("DELEGATED") = {}
      BY <2>1, <2>3 DEF StepInv, InHandInv, Within
    <3> QED BY <2>1, <2>5, <2>6, <3>1 DEF Within, RecGranules
  <2>11. InHandInv'
    BY <2>2, <2>3, <2>10 DEF InHandInv, Backs
  <2>12. SetupType'
    BY <2>1, <2>2 DEF StepInv, SetupType, Stages
  <2>13. Next /\ (InState("DEV") = {} => InState("DEV")' = {})
    BY <2>6
  <2> QED BY <2>3, <2>7, <2>9, <2>11, <2>12, <2>13 DEF StepInv, StepOK
<1> QED BY <1>1, <1>2

(* An auxiliary granule of the REC is delegated.                           *)
LEMMA DelegateAuxKeeps ==
  ASSUME GranOK, StepInv, DelegateAux
  PROVE  StepOK
<1>1. CASE FailAt(UndoRecs)
  BY <1>1, FailKeeps DEF DelegateAux, FailAt, Failing
<1>2. CASE ~FailAt(UndoRecs)
  <2>1. /\ pc = "aux" /\ Room(1) /\ rmi_granule_delegate(fresh)
        /\ recaux' = [recaux EXCEPT ![n + 1] = Append(@, fresh)]
        /\ fresh' = fresh + 1
        /\ pc' = IF Len(recaux[n + 1]) + 1 < RecAux THEN "aux" ELSE "rec_create"
        /\ rd' = rd /\ start' = start /\ image' = image /\ rec' = rec
        /\ mapped' = mapped /\ state' = state /\ n' = n /\ plane' = plane /\ create' = create
    BY <1>2 DEF DelegateAux, Goto
  <2>2. pc \in RecStages /\ pc' \in RecStages /\ pc' \in {"aux", "rec_create"}
    BY <2>1 DEF RecStages
  <2>3. Stage = pc /\ Stage' = pc' /\ ArgInv' /\ plane = 0
    BY <2>1, <2>2, RecArgs
  <2>4. /\ n \in Nat /\ recaux \in Seq(Seq(PA)) /\ n < RecCount /\ Len(rec) = n + 1
        /\ Len(recaux) = n + 1 /\ Len(recaux[n + 1]) < RecAux /\ fresh \in PA /\ fresh' \in Nat
    BY <2>1, <2>3, AllocOne DEF StepInv, SetupType, LoopInv
  <2>5. recaux[n + 1] \in Seq(PA)
    BY <2>4, SMTT(60)
  <2>6. /\ Append(recaux[n + 1], fresh) \in Seq(PA)
        /\ Len(Append(recaux[n + 1], fresh)) = Len(recaux[n + 1]) + 1
        /\ Append(recaux[n + 1], fresh)[Len(recaux[n + 1]) + 1] = fresh
        /\ \A b \in 1 .. Len(recaux[n + 1]) :
             Append(recaux[n + 1], fresh)[b] = recaux[n + 1][b]
    BY <2>4, <2>5, SMTT(60)
  <2>7. /\ recaux' \in Seq(Seq(PA)) /\ Len(recaux') = n + 1
        /\ recaux'[n + 1] = Append(recaux[n + 1], fresh)
    BY <2>1, <2>4, <2>6, SMTT(60)
  <2>8. /\ InState("DELEGATED")' = InState("DELEGATED") \cup {fresh}
        /\ InState("DEV")' = InState("DEV") /\ Next /\ Grown
    BY <2>1, <2>4, Delegates, DelegateGrows
  <2>9. MadeInv' /\ CountInv' /\ UndoInv'
    BY <2>1, <2>2, <2>8, RecKeeps
  <2>10. /\ pc' = "aux" => Len(recaux'[n' + 1]) < RecAux
         /\ pc' = "rec_create" => Len(recaux'[n' + 1]) = RecAux
    <3>1. Len(recaux[n + 1]) \in Nat /\ RecAux \in Nat
      BY <2>5, CountAssumption, SMTT(60)
    <3>2. Len(recaux'[n' + 1]) = Len(recaux[n + 1]) + 1
      BY <2>1, <2>6, <2>7
    <3> QED BY <2>1, <2>4, <3>1, <3>2, SMTT(60)
  <2>11. LoopInv'
    BY <2>1, <2>2, <2>3, <2>4, <2>7, <2>10 DEF LoopInv, BeforeRealm
  <2>12. Within(RecGranules)'
    <3>1. InState("DELEGATED") \subseteq RecGranules
      BY <2>1, <2>3 DEF StepInv, InHandInv, Within
    <3>2. /\ Len(recaux'[n + 1]) = Len(recaux[n + 1]) + 1 /\ Len(recaux[n + 1]) \in Nat
          /\ recaux'[n + 1][Len(recaux[n + 1]) + 1] = fresh
          /\ \A b \in 1 .. Len(recaux[n + 1]) : recaux'[n + 1][b] = recaux[n + 1][b]
      BY <2>5, <2>6, <2>7, SMTT(60)
    <3>3. /\ \A b \in 1 .. Len(recaux[n + 1]) : b \in 1 .. Len(recaux'[n + 1])
          /\ Len(recaux[n + 1]) + 1 \in 1 .. Len(recaux'[n + 1])
      BY <3>2, SMTT(60)
    <3>4. RecGranules \subseteq RecGranules'
      BY <2>1, <3>2, <3>3 DEF RecGranules
    <3>5. fresh \in RecGranules'
      BY <2>1, <2>4, <3>2, <3>3 DEF RecGranules
    <3> QED BY <2>8, <3>1, <3>4, <3>5 DEF Within
  <2>13. InHandInv'
    BY <2>2, <2>3, <2>12 DEF InHandInv, Backs
  <2>14. SetupType'
    BY <2>1, <2>2, <2>4, <2>7 DEF StepInv, SetupType, Stages
  <2>15. Next /\ (InState("DEV") = {} => InState("DEV")' = {})
    BY <2>8
  <2> QED BY <2>3, <2>9, <2>11, <2>13, <2>14, <2>15 DEF StepInv, StepOK
<1> QED BY <1>1, <1>2

(* RMI_REC_CREATE takes all that was delegated for the REC.                *)
LEMMA CreateRecKeeps ==
  ASSUME GranOK, StepInv, CreateRec
  PROVE  StepOK
<1>1. CASE FailAt(UndoRecs)
  BY <1>1, FailKeeps DEF CreateRec, FailAt, Failing
<1>2. CASE ~FailAt(UndoRecs)
  <2> DEFINE S == {recaux[n + 1][b] : b \in 1 .. RecAux}
  <2>1. /\ pc = "rec_create" /\ rmi_rec_create(rd, rec[n + 1], S) /\ n' = n + 1 /\ pc' = "rec"
        /\ fresh' = fresh /\ rd' = rd /\ start' = start /\ image' = image /\ rec' = rec
        /\ recaux' = recaux /\ mapped' = mapped /\ state' = state
        /\ plane' = plane /\ create' = create
    BY <1>2 DEF CreateRec, Goto, Realm
  <2>2. Stage = "rec_create" /\ Stage' = "rec" /\ ArgInv' /\ plane = 0 /\ rd \in PA
    BY <2>1, RecArgs DEF RecStages
  <2>3. /\ n \in Nat /\ rec \in Seq(PA) /\ recaux \in Seq(Seq(PA)) /\ n < RecCount
        /\ Len(rec) = n + 1 /\ Len(recaux) = n + 1 /\ Len(recaux[n + 1]) = RecAux
    BY <2>2 DEF StepInv, SetupType, LoopInv
  <2>4. rec[n + 1] \in PA /\ \A b \in 1 .. RecAux : recaux[n + 1][b] \in PA
    <3>1. rec[n + 1] \in PA /\ recaux[n + 1] \in Seq(PA)
      BY <2>3, SMTT(60)
    <3>2. \A b \in 1 .. Len(recaux[n + 1]) : recaux[n + 1][b] \in PA
      BY <3>1, SMTT(60)
    <3> QED BY <2>3, <3>1, <3>2
  <2>5. S \in SUBSET PA
    BY <2>4
  <2>6. RecGranules \subseteq {rec[n + 1]} \cup S
    BY <2>3 DEF RecGranules
  <2>7. /\ RealmThere => RealmThere'
        /\ InState("DEV") = {} => InState("DEV")' = {}
        /\ InState("DELEGATED")' = InState("DELEGATED") \ ({rec[n + 1]} \cup S)
        /\ rec[n + 1] \notin Owned("REC", rd)
        /\ (Owned("REC", rd))' = Owned("REC", rd) \cup {rec[n + 1]}
        /\ Next
    <3> HIDE DEF S
    <3> QED BY <2>1, <2>2, <2>4, <2>5, RecGrows
  <2>8. InState("DELEGATED")' = {}
    BY <2>2, <2>6, <2>7 DEF StepInv, InHandInv, Within
  <2>9. RealmThere /\ RecsThere(n) /\ mapped = 0 /\ state = "NEW"
    BY <2>2 DEF StepInv, MadeInv, CountInv, BeforeRealm, RecStages, LastStages, Stopped
  <2>10. RecsThere(n)'
    <3>1. \A i : i \in 1 .. n + 1 <=> i \in 1 .. n \/ i = n + 1
      BY <2>3, SMTT(60)
    <3>2. \A p : p \in Owned("REC", rd) <=> \E i \in 1 .. n : p = rec[i]
      BY <2>9 DEF RecsThere
    <3>3. \A p : p \in (Owned("REC", rd))' <=> \E i \in 1 .. n' : p = rec'[i]
      BY <2>1, <2>7, <3>1, <3>2
    <3>4. \A i, j \in 1 .. n' : rec'[i] = rec'[j] => i = j
      <4>1. \A i \in 1 .. n : rec[i] # rec[n + 1]
        BY <2>7, <3>2
      <4> QED BY <2>1, <2>9, <3>1, <4>1 DEF RecsThere
    <3> QED BY <3>3, <3>4 DEF RecsThere
  <2>11. MadeInv'
    BY <2>2, <2>7, <2>9, <2>10 DEF MadeInv, BeforeRealm, RecStages, ImageStages, SharedStages,
       LastStages
  <2>12. CountInv' /\ UndoInv'
    BY <2>1, <2>2, <2>9 DEF CountInv, UndoInv, BeforeRealm, RecStages, ImageStages,
       SharedStages, LastStages, Stopped
  <2>13. n' \in Nat /\ n' <= RecCount
    BY <2>1, <2>3, SetupAssumption, SMTT(60)
  <2>14. LoopInv'
    BY <2>1, <2>2, <2>3, <2>13 DEF LoopInv, BeforeRealm
  <2>15. InHandInv'
    BY <2>1, <2>2, <2>8 DEF InHandInv, Within, Backs
  <2>16. SetupType'
    BY <2>1, <2>13 DEF StepInv, SetupType, Stages, RecStages
  <2> QED BY <2>2, <2>7, <2>11, <2>12, <2>14, <2>15, <2>16 DEF StepInv, StepOK
<1> QED BY <1>1, <1>2
-----------------------------------------------------------------------------
(* The lowest table of a walk is one of the levels.                        *)
LEMMA WalkFound ==
  ASSUME NEW a, NEW t
  PROVE  /\ WalkLevel(a, t) \in Level
         /\ Walks(rd, a, WalkLevel(a, t), t)
         /\ \A l \in Level : l > WalkLevel(a, t) => ~Walks(rd, a, l, t)
<1>1. Walks(rd, a, StartLevel, t) /\ StartLevel \in Level
  <2>1. StartLevel \in Level
    BY GeometryAssumption, SMTT(60) DEF Level
  <2> QED BY <2>1 DEF Walks
<1> DEFINE W(l) == Walks(rd, a, l, t)
<1>2. W(StartLevel)
  BY <1>1
<1>3. \E l \in Level : W(l) /\ \A m \in Level : m > l => ~W(m)
  <2> HIDE DEF W
  <2>1. \A l \in Level : l \in Int /\ StartLevel <= l /\ l <= 3
    BY GeometryAssumption, SMTT(60) DEF Level
  <2>2. CASE 3 \in Level /\ W(3)
    BY <2>1, <2>2, SMTT(60)
  <2>3. CASE 2 \in Level /\ W(2) /\ ~W(3)
    BY <2>1, <2>3, SMTT(60)
  <2>4. CASE 1 \in Level /\ W(1) /\ ~W(2) /\ ~W(3)
    BY <2>1, <2>4, SMTT(60)
  <2>5. CASE 0 \in Level /\ W(0) /\ ~W(1) /\ ~W(2) /\ ~W(3)
    BY <2>1, <2>5, SMTT(60)
  <2>6. StartLevel \in {0, 1, 2} /\ 3 \in Level /\ (StartLevel <= 2 => 2 \in Level)
        /\ (StartLevel <= 1 => 1 \in Level) /\ (StartLevel = 0 => 0 \in Level)
    BY GeometryAssumption, SMTT(60) DEF Level
  <2>7. (StartLevel = 2 => W(2)) /\ (StartLevel = 1 => W(1)) /\ (StartLevel = 0 => W(0))
    BY <1>2
  <2> QED BY <2>2, <2>3, <2>4, <2>5, <2>6, <2>7, SMTT(60)
<1>4. \E l \in Level : /\ Walks(rd, a, l, t)
                       /\ \A m \in Level : m > l => ~Walks(rd, a, m, t)
  BY <1>3
<1> QED BY <1>4 DEF WalkLevel

(* What stays while tables are created.                                    *)
LEMMA LevelArgs ==
  ASSUME StepInv, pc \in {"level", "rtt_create"}
  PROVE  /\ Stage = create.back /\ Stage \in Backs
         /\ create.ipa \in AnyIpa /\ create.tree \in Tree
         /\ rd \in PA /\ image \in [Tree -> PA]
         /\ \A t \in Tree : start[t] \in StartTable
         /\ Stage = "unknown" => page \in PA
<1>1. Stage = create.back /\ Stage \in Backs
  BY DEF Stage, StepInv, SetupType
<1>2. create.tree \in Tree
  BY SMTT(60) DEF StepInv, SetupType
<1>3. Stage \notin {"images", "rtt", "delegate_rtt", "rd"} \cup Stopped
  BY <1>1 DEF Backs, Stopped
<1> QED BY <1>1, <1>2, <1>3 DEF StepInv, ArgInv

(* The invariant after a step that leaves the loop variables alone, but    *)
(* for where the granules in hand are.                                     *)
LEMMA LevelKeeps ==
  ASSUME StepInv, pc \in {"level", "rtt_create"}, Grown, Stage' = Stage,
         pc' \in {"level", "rtt_create"} \cup Backs,
         pc' \in {"level", "rtt_create"} => create'.back \in Backs /\ create'.ipa \in AnyIpa,
         pc' = "rtt_create" => create'.rtt \in PA /\ ~Walks(rd, create.ipa, 3, create.tree)',
         fresh' \in Nat,
         create' \in [tree : Tree, ipa : AnyIpa \cup {NoAddr}, rtt : PA \cup {NoAddr},
                      back : Backs \cup {"none"}],
         UNCHANGED <<rd, start, image, rec, recaux, state, mapped, n, plane, page, activate>>
  PROVE  SetupType' /\ ArgInv' /\ LoopInv' /\ MadeInv' /\ CountInv' /\ UndoInv'
<1>0. /\ rd' = rd /\ start' = start /\ image' = image /\ rec' = rec /\ recaux' = recaux
      /\ state' = state /\ mapped' = mapped /\ n' = n /\ plane' = plane /\ page' = page
      /\ activate' = activate
  OBVIOUS
<1>1. /\ Stage \in Backs
      /\ rd \in PA /\ image \in [Tree -> PA]
      /\ \A t \in Tree : start[t] \in StartTable
      /\ Stage = "unknown" => page \in PA
  BY LevelArgs
<1>2. Stage \notin {"rtt", "delegate_rtt"}
  BY <1>1 DEF Backs
<1>3. SetupType'
  BY <1>0 DEF StepInv, SetupType, Stages, Backs, ImageStages, SharedStages, LastStages
<1>4. ArgInv'
  BY <1>0, <1>1, <1>2 DEF ArgInv
<1>5. LoopInv'
  <2>1. /\ Stage \notin {"images", "rd", "delegate_rd", "create"} \cup RecStages
        /\ Stage \notin BeforeRealm \cup {"aux_count"}
    BY <1>1 DEF Backs, RecStages, BeforeRealm
  <2>2. Stage \notin {"rec", "delegate_rec", "aux", "rec_create"}
    BY <1>1 DEF Backs
  <2>3. Stage \in {"aux_map", "aux_shared"} => n \in 1 .. NumAux + 1
    BY DEF StepInv, LoopInv
  <2> QED BY <1>0, <2>1, <2>2, <2>3 DEF LoopInv, BeforeRealm, RecStages
<1>6. MadeInv' /\ CountInv'
  BY <1>0, <1>1, StageKeeps
<1>7. UndoInv'
  BY DEF UndoInv, Stopped, Backs
<1> QED BY <1>3, <1>4, <1>5, <1>6, <1>7

(* The loop over the levels.                                               *)
LEMMA CreateLevelsKeeps ==
  ASSUME GranOK, StepInv, CreateLevels, activate' = activate
  PROVE  StepOK
<1> DEFINE walk == WalkLevel(create.ipa, create.tree)
<1>0. pc = "level" /\ pc \in {"level", "rtt_create"}
  BY DEF CreateLevels
<1>1. /\ Stage = create.back /\ Stage \in Backs
      /\ create.ipa \in AnyIpa /\ create.tree \in Tree /\ rd \in PA
      /\ create \in [tree : Tree, ipa : AnyIpa \cup {NoAddr}, rtt : PA \cup {NoAddr},
                     back : Backs \cup {"none"}]
      /\ fresh \in Nat
  BY <1>0, LevelArgs DEF StepInv, SetupType
<1>2. InState("DELEGATED") \subseteq (IF Stage = "unknown" THEN {page} ELSE {})
  <2>1. pc # "rtt_create"
    BY <1>0
  <2> QED BY <1>1, <2>1 DEF StepInv, InHandInv, Within
<1>3. CASE FailAt(<<>>)
  BY <1>0, <1>3, FailKeeps DEF FailAt, Failing
<1>4. CASE walk = 3 /\ Goto(create.back) /\ Same /\ UNCHANGED <<Realm, n, plane>>
  <2>1. /\ pc' = create.back /\ Same /\ fresh' = fresh
        /\ rd' = rd /\ start' = start /\ image' = image /\ rec' = rec
        /\ recaux' = recaux /\ mapped' = mapped /\ state' = state /\ n' = n
        /\ plane' = plane /\ create' = create /\ page' = page
    BY <1>4 DEF Goto, Realm
  <2>2. Grown /\ UNCHANGED <<gran, umap, auxmap>> /\ UNCHANGED <<rmm, track>>
    BY <2>1, SameGrows
  <2>3. Stage' = Stage /\ pc' \in Backs /\ pc' # "rtt_create" /\ pc' # "level"
    BY <1>1, <2>1 DEF Stage, Backs
  <2>4. SetupType' /\ ArgInv' /\ LoopInv' /\ MadeInv' /\ CountInv' /\ UndoInv'
    BY <1>0, <1>1, <2>1, <2>2, <2>3, LevelKeeps
  <2>5. InState("DELEGATED")' = InState("DELEGATED")
    BY <2>2 DEF InState
  <2>6. InHandInv'
    BY <1>1, <1>2, <2>1, <2>3, <2>5 DEF InHandInv, Within, Backs
  <2> QED BY <2>2, <2>4, <2>6 DEF StepInv, StepOK, Grown
<1>5. CASE /\ walk < 3 /\ Room(1)
           /\ rmi_granule_delegate(fresh)
           /\ create' = [create EXCEPT !.rtt = fresh]
           /\ fresh' = fresh + 1
           /\ Goto("rtt_create")
           /\ UNCHANGED <<rd, start, image, rec, recaux, state, mapped, n, plane>>
  <2>1. /\ rmi_granule_delegate(fresh) /\ create' = [create EXCEPT !.rtt = fresh]
        /\ pc' = "rtt_create"
        /\ rd' = rd /\ start' = start /\ image' = image /\ rec' = rec
        /\ recaux' = recaux /\ mapped' = mapped /\ state' = state /\ n' = n
        /\ plane' = plane /\ page' = page
    BY <1>5 DEF Goto
  <2>2. fresh \in PA /\ fresh' \in Nat
    BY <1>1, <1>5, AllocOne
  <2>3. /\ create'.back = create.back /\ create'.ipa = create.ipa
        /\ create'.tree = create.tree /\ create'.rtt = fresh
        /\ create' \in [tree : Tree, ipa : AnyIpa \cup {NoAddr}, rtt : PA \cup {NoAddr},
                        back : Backs \cup {"none"}]
    BY <1>1, <2>1, <2>2, SMTT(60)
  <2>4. Stage' = Stage
    BY <1>1, <2>1, <2>3 DEF Stage
  <2>5. /\ InState("DELEGATED")' = InState("DELEGATED") \cup {fresh}
        /\ InState("DEV")' = InState("DEV") /\ Next /\ Grown
        /\ Keeps("RTT") /\ Keeps("RTT_AUX")
    BY <2>1, <2>2, Delegates, DelegateGrows
  <2>6. ~Walks(rd, create.ipa, 3, create.tree)
    <3>1. walk \in Level /\ \A l \in Level : l > walk => ~Walks(rd, create.ipa, l, create.tree)
      BY WalkFound
    <3>2. 3 \in Level /\ 3 > walk
      BY <1>5, <3>1, GeometryAssumption, SMTT(60) DEF Level
    <3> QED BY <3>1, <3>2
  <2>7. ~Walks(rd, create.ipa, 3, create.tree)'
    <3>1. Keeps(TableState(create.tree))
      BY <2>5 DEF TableState
    <3>2. 3 # StartLevel /\ Table(rd, Base[3][create.ipa], 3, create.tree) = {}
      BY <2>6 DEF Walks
    <3>3. \A p \in PA : gran'[p].st = TableState(create.tree) => gran'[p] = gran[p]
      BY <3>1 DEF Keeps
    <3>4. (Table(rd, Base[3][create.ipa], 3, create.tree))' = {}
      <4> DEFINE st == TableState(create.tree)
      <4>1. /\ rd' = rd /\ create'.ipa = create.ipa /\ create'.tree = create.tree
            /\ TableState(create.tree)' = st
        BY <2>1, <2>3 DEF TableState
      <4>2. \A p \in PA : ~(/\ gran[p].st = st /\ gran[p].rd = rd
                            /\ gran[p].ipa = Base[3][create.ipa] /\ gran[p].level = 3
                            /\ gran[p].tree = create.tree)
        BY <3>2 DEF Table, Owned, InState
      <4> HIDE DEF st
      <4>3. \A p \in PA : ~(/\ gran'[p].st = st /\ gran'[p].rd = rd
                            /\ gran'[p].ipa = Base[3][create.ipa] /\ gran'[p].level = 3
                            /\ gran'[p].tree = create.tree)
        BY <3>3, <4>2 DEF st
      <4> QED BY <4>1, <4>3 DEF Table, Owned, InState
    <3> QED BY <3>2, <3>4 DEF Walks
  <2>8. SetupType' /\ ArgInv' /\ LoopInv' /\ MadeInv' /\ CountInv' /\ UndoInv'
    BY <1>0, <1>1, <2>1, <2>2, <2>3, <2>4, <2>5, <2>7, LevelKeeps
  <2>9. InHandInv'
    BY <1>1, <1>2, <2>1, <2>3, <2>4, <2>5 DEF InHandInv, Within, Backs
  <2>10. Next /\ (InState("DEV") = {} => InState("DEV")' = {})
    BY <2>5
  <2> QED BY <2>8, <2>9, <2>10 DEF StepInv, StepOK
<1> QED BY <1>3, <1>4, <1>5 DEF CreateLevels

(* A table is created from the granule just delegated.                     *)
LEMMA CreateTableKeeps ==
  ASSUME GranOK, StepInv, CreateTable, activate' = activate
  PROVE  StepOK
<1> DEFINE l == WalkLevel(create.ipa, create.tree) + 1
<1>0. pc = "rtt_create" /\ pc \in {"level", "rtt_create"}
  BY DEF CreateTable
<1>1. /\ Stage = create.back /\ Stage \in Backs
      /\ create.ipa \in AnyIpa /\ create.tree \in Tree /\ rd \in PA /\ create.rtt \in PA
      /\ create \in [tree : Tree, ipa : AnyIpa \cup {NoAddr}, rtt : PA \cup {NoAddr},
                     back : Backs \cup {"none"}]
      /\ fresh \in Nat /\ ~Walks(rd, create.ipa, 3, create.tree)
  BY <1>0, LevelArgs DEF StepInv, SetupType, ArgInv
<1>2. InState("DELEGATED") \subseteq {create.rtt} \cup (IF Stage = "unknown" THEN {page} ELSE {})
  BY <1>0 DEF StepInv, InHandInv, Within
<1>3. CASE FailAt(<<create.rtt>>)
  BY <1>0, <1>3, FailKeeps DEF FailAt, Failing
<1>4. CASE ~FailAt(<<create.rtt>>)
  <2>1. /\ rmi_rtt_create(rd, create.rtt, Base[l][create.ipa], l, create.tree)
        /\ pc' = "level" /\ fresh' = fresh
        /\ rd' = rd /\ start' = start /\ image' = image /\ rec' = rec
        /\ recaux' = recaux /\ mapped' = mapped /\ state' = state /\ n' = n
        /\ plane' = plane /\ create' = create /\ page' = page
    BY <1>4 DEF CreateTable, Goto, Realm
  <2>2. l \in Level
    <3> DEFINE w == WalkLevel(create.ipa, create.tree)
    <3>1. w \in Level /\ Walks(rd, create.ipa, w, create.tree)
      BY WalkFound
    <3>2. w # 3
      BY <1>1, <3>1
    <3> HIDE DEF w
    <3>3. w + 1 \in Level
      BY <3>1, <3>2, GeometryAssumption, SMTT(60) DEF Level
    <3> QED BY <3>3 DEF w
  <2>3. Base[l][create.ipa] \in AnyIpa
    <3> HIDE DEF l
    <3> QED BY <1>1, <2>2, GeometryAssumption
  <2>4. /\ Grown /\ Next
        /\ InState("DELEGATED")' = InState("DELEGATED") \ {create.rtt}
    <3> HIDE DEF l
    <3> QED BY <1>1, <2>1, <2>2, <2>3, TableGrows
  <2>5. Stage' = Stage
    BY <1>1, <2>1 DEF Stage
  <2>6. SetupType' /\ ArgInv' /\ LoopInv' /\ MadeInv' /\ CountInv' /\ UndoInv'
    BY <1>0, <1>1, <2>1, <2>4, <2>5, LevelKeeps
  <2>7. InHandInv'
    BY <1>1, <1>2, <2>1, <2>4, <2>5 DEF InHandInv, Within, Backs
  <2> QED BY <2>4, <2>6, <2>7 DEF StepInv, StepOK, Grown
<1> QED BY <1>3, <1>4
-----------------------------------------------------------------------------
Late == ImageStages \cup SharedStages \cup LastStages

(* What stays once the RECs are there.                                     *)
LEMMA LateKeeps ==
  ASSUME StepInv, pc \in Late, pc' \in Late, Grown, fresh' \in Nat, n' \in Nat, plane' \in Tree,
         pc' \in {"aux_map", "aux_shared"} => n' \in 1 .. NumAux + 1,
         pc' = "unknown" => page' \in PA,
         UNCHANGED <<rd, start, image, rec, recaux, create>>
  PROVE  /\ Stage = pc /\ Stage' = pc'
         /\ SetupType' /\ ArgInv' /\ LoopInv' /\ UndoInv'
         /\ RealmThere' /\ RecsThere(RecCount)'
<1>0. /\ rd' = rd /\ start' = start /\ image' = image /\ rec' = rec /\ recaux' = recaux
      /\ create' = create
  OBVIOUS
<1>1. Stage = pc /\ Stage' = pc'
  BY DEF Stage, Late, ImageStages, SharedStages, LastStages
<1>2. /\ pc \notin {"images", "rtt", "delegate_rtt", "rd"} \cup Stopped
      /\ pc \notin BeforeRealm \cup RecStages \cup Stopped /\ pc \notin BeforeRealm \cup Stopped
      /\ pc' \notin {"rtt", "delegate_rtt", "level", "rtt_create"} /\ pc' \notin Stopped
  BY DEF Late, ImageStages, SharedStages, LastStages, Stopped, BeforeRealm, RecStages
<1>3. SetupType'
  BY <1>0, <1>2 DEF StepInv, SetupType, Stages, Late
<1>4. /\ rd \in PA /\ image \in [Tree -> PA] /\ \A t \in Tree : start[t] \in StartTable
  BY <1>1, <1>2 DEF StepInv, ArgInv
<1>5. ArgInv'
  BY <1>0, <1>1, <1>2, <1>4 DEF ArgInv
<1>6. /\ pc' \notin {"images", "rd", "delegate_rd", "create"} \cup RecStages
      /\ pc' \notin {"rd", "delegate_rd", "create", "aux_count"}
      /\ pc' \notin BeforeRealm \cup {"aux_count"}
      /\ pc' \notin {"rec", "delegate_rec", "aux", "rec_create"}
  BY DEF Late, ImageStages, SharedStages, LastStages, BeforeRealm, RecStages
<1>7. LoopInv'
  BY <1>1, <1>6 DEF LoopInv
<1>8. UndoInv'
  BY <1>2 DEF UndoInv
<1>9. RealmThere /\ RecsThere(RecCount)
  BY <1>1, <1>2 DEF StepInv, MadeInv
<1>10. RealmThere' /\ RecsThere(RecCount)'
  BY <1>0, <1>9 DEF Grown, RecsThere
<1> QED BY <1>1, <1>3, <1>5, <1>7, <1>8, <1>10

(* What a late step finds.                                                 *)
LEMMA LateArgs ==
  ASSUME StepInv, pc \in Late
  PROVE  /\ Stage = pc /\ rd \in PA /\ image \in [Tree -> PA] /\ plane \in Tree
         /\ n \in Nat /\ fresh \in Nat /\ ImageIpa[plane] \in IPA /\ image[plane] \in PA
         /\ state = IF activate /\ pc \in LastStages \ {"activate"} THEN "ACTIVE" ELSE "NEW"
<1>1. Stage = pc
  BY DEF Stage, Late, ImageStages, SharedStages, LastStages
<1>2. pc \notin {"images", "rtt", "delegate_rtt", "rd"} \cup Stopped /\ pc \notin BeforeRealm \cup Stopped
  BY DEF Late, ImageStages, SharedStages, LastStages, Stopped, BeforeRealm
<1>3. rd \in PA /\ image \in [Tree -> PA]
  BY <1>1, <1>2 DEF StepInv, ArgInv
<1>4. plane \in Tree /\ n \in Nat /\ fresh \in Nat
  BY DEF StepInv, SetupType
<1>5. state = IF activate /\ pc \in LastStages \ {"activate"} THEN "ACTIVE" ELSE "NEW"
  BY <1>1, <1>2 DEF StepInv, CountInv
<1> QED BY <1>1, <1>3, <1>4, <1>5, SetupAssumption

(* RMI_RTT_INIT_RIPAS.                                                     *)
LEMMA InitRipasKeeps ==
  ASSUME StepInv, InitRipas, activate' = activate
  PROVE  StepOK
<1>0. pc = "ripas" /\ pc \in Late
  BY DEF InitRipas, Late, ImageStages
<1>1. Stage = pc /\ plane \in Tree /\ ImageIpa[plane] \in IPA /\ n \in Nat /\ fresh \in Nat
      /\ state = "NEW"
  BY <1>0, LateArgs DEF LastStages
<1>2. CASE FailAt(<<>>)
  BY <1>0, <1>2, FailKeeps DEF FailAt, Failing
<1>3. CASE CallCreate(0, ImageIpa[plane], "ripas")
  <2>1. create' \in [tree : Tree, ipa : AnyIpa, rtt : {NoAddr}, back : {pc}]
    BY <1>0, <1>1, <1>3, CountAssumption, SMTT(60) DEF CallCreate, Tree, AnyIpa
  <2> QED BY <1>0, <1>3, <2>1, CallKeeps DEF CallCreate, Calling, Goto, Backs
<1>4. CASE Goto("delegate_data") /\ Same /\ UNCHANGED <<Realm, n, plane>>
  <2>1. /\ pc' = "delegate_data" /\ Same /\ fresh' = fresh /\ rd' = rd /\ start' = start
        /\ image' = image /\ rec' = rec /\ recaux' = recaux /\ mapped' = mapped
        /\ state' = state /\ n' = n /\ plane' = plane /\ create' = create
    BY <1>4 DEF Goto, Realm
  <2>2. Grown /\ UNCHANGED <<gran, umap, auxmap>> /\ UNCHANGED <<rmm, track>>
    BY <2>1, SameGrows
  <2>3. /\ Stage' = "delegate_data" /\ SetupType' /\ ArgInv' /\ LoopInv' /\ UndoInv'
        /\ RealmThere' /\ RecsThere(RecCount)'
    <3>1. pc' \in Late
      BY <2>1 DEF Late, ImageStages
    <3> QED BY <1>0, <1>1, <2>1, <2>2, <3>1, LateKeeps
  <2>4. ImagesThere({t \in Tree : t < plane})'
    BY <1>0, <1>1, <2>1, <2>2 DEF StepInv, MadeInv, ImagesThere, Grown, ImageStages
  <2>5. MadeInv'
    BY <2>3, <2>4 DEF MadeInv, BeforeRealm, RecStages, SharedStages, LastStages
  <2>6. CountInv'
    BY <1>0, <1>1, <2>1, <2>3 DEF StepInv, CountInv, BeforeRealm, RecStages, ImageStages,
       SharedStages, LastStages
  <2>7. InHandInv'
    BY <1>0, <1>1, <2>1, <2>2, <2>3 DEF StepInv, InHandInv, Within, InState, Backs
  <2> QED BY <2>2, <2>3, <2>5, <2>6, <2>7 DEF StepInv, StepOK, Grown
<1> QED BY <1>2, <1>3, <1>4 DEF InitRipas

(* The page of an image is delegated, and becomes DATA.                    *)
LEMMA DelegateDataKeeps ==
  ASSUME GranOK, StepInv, DelegateData
  PROVE  StepOK
<1>0. pc = "delegate_data" /\ pc \in Late
  BY DEF DelegateData, Late, ImageStages
<1>1. /\ Stage = pc /\ plane \in Tree /\ image[plane] \in PA /\ n \in Nat /\ fresh \in Nat
      /\ state = "NEW"
  BY <1>0, LateArgs DEF LastStages
<1>2. CASE FailAt(<<>>)
  BY <1>0, <1>2, FailKeeps DEF FailAt, Failing
<1>3. CASE ~FailAt(<<>>)
  <2>1. /\ rmi_granule_delegate(image[plane])
        /\ pc' = "data" /\ fresh' = fresh /\ rd' = rd /\ start' = start
        /\ image' = image /\ rec' = rec /\ recaux' = recaux /\ mapped' = mapped
        /\ state' = state /\ n' = n /\ plane' = plane /\ create' = create
    BY <1>3 DEF DelegateData, Goto, Realm
  <2>2. /\ InState("DELEGATED")' = InState("DELEGATED") \cup {image[plane]}
        /\ Next /\ Grown
    BY <1>1, <2>1, Delegates, DelegateGrows
  <2>3. /\ Stage' = "data" /\ SetupType' /\ ArgInv' /\ LoopInv' /\ UndoInv'
        /\ RealmThere' /\ RecsThere(RecCount)'
    <3>1. pc' \in Late
      BY <2>1 DEF Late, ImageStages
    <3> QED BY <1>0, <1>1, <2>1, <2>2, <3>1, LateKeeps
  <2>4. ImagesThere({t \in Tree : t < plane})'
    BY <1>0, <1>1, <2>1, <2>2 DEF StepInv, MadeInv, ImagesThere, Grown, ImageStages
  <2>5. MadeInv'
    BY <2>3, <2>4 DEF MadeInv, BeforeRealm, RecStages, SharedStages, LastStages
  <2>6. CountInv'
    BY <1>0, <1>1, <2>1, <2>3 DEF StepInv, CountInv, BeforeRealm, RecStages, ImageStages,
       SharedStages, LastStages
  <2>7. InState("DELEGATED")' \subseteq {image'[plane']}
    <3>1. InState("DELEGATED") = {}
      BY <1>0, <1>1 DEF StepInv, InHandInv, Within
    <3> QED BY <2>1, <2>2, <3>1
  <2>8. InHandInv'
    BY <2>1, <2>3, <2>7 DEF InHandInv, Within, Backs
  <2> QED BY <2>2, <2>3, <2>5, <2>6, <2>8 DEF StepInv, StepOK, Grown
<1> QED BY <1>2, <1>3

(* A granule of an image becomes DATA.                                     *)
LEMMA CreateDataKeeps ==
  ASSUME GranOK, StepInv, CreateData
  PROVE  StepOK
<1>0. pc = "data" /\ pc \in Late
  BY DEF CreateData, Late, ImageStages
<1>1. /\ Stage = pc /\ plane \in Tree /\ image[plane] \in PA /\ n \in Nat /\ fresh \in Nat
      /\ state = "NEW" /\ rd \in PA /\ ImageIpa[plane] \in IPA
  BY <1>0, LateArgs DEF LastStages
<1>2. CASE FailAt(<<>>)
  BY <1>0, <1>2, FailKeeps DEF FailAt, Failing
<1>3. CASE ~FailAt(<<>>)
  <2>1. /\ rmi_data_create(rd, image[plane], ImageIpa[plane])
        /\ n' = 1 /\ pc' = "aux_map" /\ fresh' = fresh /\ rd' = rd /\ start' = start
        /\ image' = image /\ rec' = rec /\ recaux' = recaux /\ mapped' = mapped
        /\ state' = state /\ plane' = plane /\ create' = create
    BY <1>3 DEF CreateData, Goto, Realm
  <2>2. /\ InState("DELEGATED")' = InState("DELEGATED") \ {image[plane]}
        /\ Next /\ Grown
        /\ (DataAt(rd, ImageIpa[plane]))' = {image[plane]}
    <3>1. \A a \in IPA : rmi_data_create(rd, image[plane], a) =>
            (DataAt(rd, a))' = {image[plane]}
      BY <1>1, <2>1, DataGrows
    <3>2. {p \in Owned("DATA", rd)' : gran'[p].ipa = ImageIpa[plane]} = {image[plane]}
      BY <1>1, <2>1, <3>1 DEF DataAt
    <3> QED BY <1>1, <2>1, <3>2, DataGrows DEF DataAt
  <2>3. n' \in 1 .. NumAux + 1 /\ n' \in Nat /\ \A i : i \notin 1 .. n' - 1
    BY <2>1, CountAssumption, SMTT(60)
  <2>4. /\ Stage' = "aux_map" /\ SetupType' /\ ArgInv' /\ LoopInv' /\ UndoInv'
        /\ RealmThere' /\ RecsThere(RecCount)'
    <3>1. pc' \in Late
      BY <2>1 DEF Late, ImageStages
    <3> QED BY <1>0, <1>1, <2>1, <2>2, <2>3, <3>1, LateKeeps
  <2>5. ImagesThere({t \in Tree : t < plane})'
    BY <1>0, <1>1, <2>1, <2>2 DEF StepInv, MadeInv, ImagesThere, Grown, ImageStages
  <2>6. ImageThere(plane)'
    BY <2>1, <2>2 DEF ImageThere
  <2>7. MadeInv'
    BY <2>3, <2>4, <2>5, <2>6 DEF MadeInv, BeforeRealm, RecStages, SharedStages, LastStages
  <2>8. CountInv'
    BY <1>0, <1>1, <2>1, <2>4 DEF StepInv, CountInv, BeforeRealm, RecStages, ImageStages,
       SharedStages, LastStages
  <2>9. InState("DELEGATED")' = {}
    BY <1>0, <1>1, <2>2 DEF StepInv, InHandInv, Within
  <2>10. InHandInv'
    BY <2>1, <2>4, <2>9 DEF InHandInv, Within, Backs
  <2> QED BY <2>2, <2>4, <2>7, <2>8, <2>10 DEF StepInv, StepOK, Grown
<1> QED BY <1>2, <1>3

(* The page is mapped in every auxiliary tree.                             *)
LEMMA AuxMapDataKeeps ==
  ASSUME GranOK, StepInv, AuxMapData, activate' = activate
  PROVE  StepOK
<1>0. pc = "aux_map" /\ pc \in Late
  BY DEF AuxMapData, Late, ImageStages
<1>1. /\ Stage = pc /\ plane \in Tree /\ n \in Nat /\ fresh \in Nat
      /\ state = "NEW" /\ rd \in PA /\ ImageIpa[plane] \in AnyIpa
  BY <1>0, LateArgs DEF LastStages, AnyIpa
<1>2. n \in 1 .. NumAux + 1
  BY <1>0, <1>1 DEF StepInv, LoopInv
<1>3. CASE FailAt(<<>>)
  BY <1>0, <1>3, FailKeeps DEF FailAt, Failing
<1>4. CASE n <= NumAux /\ CallCreate(n, ImageIpa[plane], "aux_map")
  <2>1. create' \in [tree : Tree, ipa : AnyIpa, rtt : {NoAddr}, back : {pc}]
    BY <1>0, <1>1, <1>4, CountAssumption, SMTT(60) DEF CallCreate, Tree
  <2> QED BY <1>0, <1>4, <2>1, CallKeeps DEF CallCreate, Calling, Goto, Backs
<1>5. CASE /\ n <= NumAux
           /\ rmi_rtt_aux_map(rd, ImageIpa[plane], n)
           /\ n' = n + 1
           /\ Goto("aux_map") /\ UNCHANGED <<Realm, plane>>
  <2>1. /\ rmi_rtt_aux_map(rd, ImageIpa[plane], n)
        /\ n' = n + 1 /\ pc' = "aux_map" /\ fresh' = fresh /\ rd' = rd /\ start' = start
        /\ image' = image /\ rec' = rec /\ recaux' = recaux /\ mapped' = mapped
        /\ state' = state /\ plane' = plane /\ create' = create
    BY <1>5 DEF Goto, Realm
  <2>2. /\ n \in Aux /\ n' \in 1 .. NumAux + 1 /\ n' \in Nat
        /\ \A i : i \in 1 .. n' - 1 <=> i \in 1 .. n - 1 \/ i = n
    BY <1>2, <1>5, <2>1, CountAssumption, SMTT(60) DEF Aux
  <2>3. /\ Grown /\ gran' = gran /\ Next
        /\ AuxTrees(rd, ImageIpa[plane]) \cup {n} \subseteq (AuxTrees(rd, ImageIpa[plane]))'
    <3>1. \A a \in AnyIpa, t \in Aux : rmi_rtt_aux_map(rd, a, t) =>
            AuxTrees(rd, a) \cup {t} \subseteq (AuxTrees(rd, a))'
      BY <1>1, <2>1, AuxMapGrows
    <3>2. AuxTrees(rd, ImageIpa[plane]) \cup {n}
            \subseteq {t \in Aux : [rd |-> rd', ipa |-> ImageIpa[plane], tree |-> t] \in auxmap'}
      BY <1>1, <2>1, <2>2, <3>1 DEF AuxTrees
    <3> QED BY <1>1, <2>1, <2>2, <3>2, AuxMapGrows DEF AuxTrees
  <2>4. /\ Stage' = "aux_map" /\ SetupType' /\ ArgInv' /\ LoopInv' /\ UndoInv'
        /\ RealmThere' /\ RecsThere(RecCount)'
    BY <1>0, <1>1, <2>1, <2>2, <2>3, LateKeeps
  <2>5. ImagesThere({t \in Tree : t < plane})' /\ ImageThere(plane)'
    BY <1>0, <1>1, <2>1, <2>3 DEF StepInv, MadeInv, ImagesThere, Grown, ImageStages
  <2>6. 1 .. n' - 1 \subseteq (AuxTrees(rd, ImageIpa[plane]))'
    BY <1>0, <1>1, <2>2, <2>3 DEF StepInv, MadeInv
  <2>7. MadeInv'
    BY <2>4, <2>5, <2>6 DEF MadeInv, BeforeRealm, RecStages, SharedStages, LastStages
  <2>8. CountInv'
    BY <1>0, <1>1, <2>1, <2>4 DEF StepInv, CountInv, BeforeRealm, RecStages, ImageStages,
       SharedStages, LastStages
  <2>9. InState("DELEGATED")' = {}
    BY <1>0, <1>1, <2>3 DEF StepInv, InHandInv, Within, InState, Backs
  <2>10. InHandInv'
    BY <2>1, <2>4, <2>9 DEF InHandInv, Within, Backs
  <2> QED BY <2>3, <2>4, <2>7, <2>8, <2>10 DEF StepInv, StepOK, Grown
<1> QED BY <1>3, <1>4, <1>5 DEF AuxMapData

(* An image is done: the next plane, or the shared region.                 *)
LEMMA ImageMappedKeeps ==
  ASSUME StepInv, ImageMapped
  PROVE  StepOK
<1>0. pc = "aux_map" /\ pc \in Late
  BY DEF ImageMapped, Late, ImageStages
<1>1. /\ Stage = pc /\ plane \in Tree /\ n \in Nat /\ fresh \in Nat /\ state = "NEW"
  BY <1>0, LateArgs DEF LastStages
<1>2. /\ n > NumAux /\ mapped' = mapped + 1 /\ n' = 0 /\ Same
      /\ plane' = IF plane < NumAux THEN plane + 1 ELSE 0
      /\ pc' = IF plane < NumAux THEN "ripas" ELSE "shared"
      /\ fresh' = fresh /\ rd' = rd /\ start' = start /\ image' = image /\ rec' = rec
      /\ recaux' = recaux /\ state' = state /\ create' = create
  BY DEF ImageMapped, Goto
<1>3. plane' \in Tree /\ n' \in Nat /\ \A i \in Aux : i \in 1 .. n - 1
  BY <1>1, <1>2, CountAssumption, SMTT(60) DEF Tree, Aux
<1>4. Grown /\ UNCHANGED <<gran, umap, auxmap>> /\ UNCHANGED <<rmm, track>>
  BY <1>2, SameGrows
<1>5. pc' \in Late /\ pc' \in {"ripas", "shared"}
  BY <1>2 DEF Late, ImageStages, SharedStages
<1>6. /\ Stage' = pc' /\ SetupType' /\ ArgInv' /\ LoopInv' /\ UndoInv'
      /\ RealmThere' /\ RecsThere(RecCount)'
  BY <1>0, <1>1, <1>2, <1>3, <1>4, <1>5, LateKeeps
<1>7. ASSUME NEW t \in Tree, t < plane \/ t = plane
      PROVE  ImageThere(t)' /\ Aux \subseteq (AuxTrees(rd, ImageIpa[t]))'
  <2>1. ImageThere(t) /\ Aux \subseteq AuxTrees(rd, ImageIpa[t])
    BY <1>0, <1>1, <1>3, <1>7 DEF StepInv, MadeInv, ImagesThere, ImageStages
  <2> QED BY <1>4, <2>1 DEF Grown
<1>8. mapped = plane
  BY <1>0, <1>1 DEF StepInv, CountInv, ImageStages
<1>9. InState("DELEGATED")' = {}
  BY <1>0, <1>1, <1>4 DEF StepInv, InHandInv, Within, InState, Backs
<1>10. InHandInv'
  BY <1>5, <1>6, <1>9 DEF InHandInv, Within, Backs
<1>11. CASE plane < NumAux
  <2>1. Stage' = "ripas" /\ mapped' = plane'
    BY <1>2, <1>6, <1>8, <1>11
  <2>2. \A t \in Tree : t < plane' => t < plane \/ t = plane
    BY <1>1, <1>2, <1>11, CountAssumption, SMTT(60) DEF Tree
  <2>3. ImagesThere({t \in Tree : t < plane})'
    BY <1>7, <2>2 DEF ImagesThere
  <2>4. MadeInv'
    BY <1>6, <2>1, <2>3 DEF MadeInv, BeforeRealm, RecStages, SharedStages, LastStages
  <2>5. CountInv'
    BY <1>1, <1>2, <2>1 DEF CountInv, BeforeRealm, RecStages, ImageStages, SharedStages, LastStages
  <2> QED BY <1>4, <1>6, <1>10, <2>4, <2>5 DEF StepInv, StepOK, Grown
<1>12. CASE ~(plane < NumAux)
  <2>1. plane = NumAux /\ \A t \in Tree : t < plane \/ t = plane
    BY <1>1, <1>12, CountAssumption, SMTT(60) DEF Tree
  <2>2. Stage' = "shared" /\ mapped' = NumAux + 1
    BY <1>2, <1>6, <1>8, <1>12, <2>1
  <2>3. ImagesThere(Tree)'
    BY <1>7, <2>1 DEF ImagesThere
  <2>4. MadeInv'
    BY <1>6, <2>2, <2>3 DEF MadeInv, BeforeRealm, RecStages, ImageStages, LastStages
  <2>5. CountInv'
    BY <1>1, <1>2, <2>2 DEF CountInv, BeforeRealm, RecStages, ImageStages, SharedStages, LastStages
  <2> QED BY <1>4, <1>6, <1>10, <2>4, <2>5 DEF StepInv, StepOK, Grown
<1> QED BY <1>11, <1>12

(* The shared region is mapped in the primary tree.                        *)
LEMMA MapSharedKeeps ==
  ASSUME StepInv, MapShared, activate' = activate
  PROVE  StepOK
<1>0. pc = "shared" /\ pc \in Late
  BY DEF MapShared, Late, SharedStages
<1>1. /\ Stage = pc /\ plane \in Tree /\ n \in Nat /\ fresh \in Nat /\ state = "NEW" /\ rd \in PA
  BY <1>0, LateArgs DEF LastStages
<1>2. CASE FailAt(<<>>)
  BY <1>0, <1>2, FailKeeps DEF FailAt, Failing
<1>3. CASE CallCreate(0, SharedIpa, "shared")
  <2>1. create' \in [tree : Tree, ipa : AnyIpa, rtt : {NoAddr}, back : {pc}]
    BY <1>0, <1>3, CountAssumption, SetupAssumption, SMTT(60) DEF CallCreate, Tree, AnyIpa
  <2> QED BY <1>0, <1>3, <2>1, CallKeeps DEF CallCreate, Calling, Goto, Backs
<1>4. CASE /\ rmi_rtt_map_unprotected(rd, SharedIpa, 3)
           /\ n' = 1
           /\ Goto("aux_shared") /\ UNCHANGED <<Realm, plane>>
  <2>1. /\ rmi_rtt_map_unprotected(rd, SharedIpa, 3)
        /\ n' = 1 /\ pc' = "aux_shared" /\ fresh' = fresh /\ rd' = rd /\ start' = start
        /\ image' = image /\ rec' = rec /\ recaux' = recaux /\ mapped' = mapped
        /\ state' = state /\ plane' = plane /\ create' = create
    BY <1>4 DEF Goto, Realm
  <2>2. /\ Grown /\ gran' = gran /\ Next /\ SharedThere'
    BY <1>1, <2>1, SetupAssumption, MapGrows DEF SharedThere
  <2>3. n' \in 1 .. NumAux + 1 /\ n' \in Nat /\ \A i : i \notin 1 .. n' - 1
    BY <2>1, CountAssumption, SMTT(60)
  <2>4. /\ Stage' = "aux_shared" /\ SetupType' /\ ArgInv' /\ LoopInv' /\ UndoInv'
        /\ RealmThere' /\ RecsThere(RecCount)'
    <3>1. pc' \in Late
      BY <2>1 DEF Late, SharedStages
    <3> QED BY <1>0, <1>1, <2>1, <2>2, <2>3, <3>1, LateKeeps
  <2>5. ImagesThere(Tree)'
    BY <1>0, <1>1, <2>2 DEF StepInv, MadeInv, ImagesThere, Grown, SharedStages
  <2>6. MadeInv'
    BY <2>2, <2>3, <2>4, <2>5 DEF MadeInv, BeforeRealm, RecStages, ImageStages, LastStages
  <2>7. CountInv'
    BY <1>0, <1>1, <2>1, <2>4 DEF StepInv, CountInv, BeforeRealm, RecStages, ImageStages,
       SharedStages, LastStages
  <2>8. InState("DELEGATED")' = {}
    BY <1>0, <1>1, <2>2 DEF StepInv, InHandInv, Within, InState, Backs
  <2>9. InHandInv'
    BY <2>1, <2>4, <2>8 DEF InHandInv, Within, Backs
  <2> QED BY <2>2, <2>4, <2>6, <2>7, <2>9 DEF StepInv, StepOK, Grown
<1> QED BY <1>2, <1>3, <1>4 DEF MapShared

(* The shared region is mapped in every auxiliary tree.                    *)
LEMMA AuxMapSharedKeeps ==
  ASSUME StepInv, AuxMapShared, activate' = activate
  PROVE  StepOK
<1>0. pc = "aux_shared" /\ pc \in Late
  BY DEF AuxMapShared, Late, SharedStages
<1>1. /\ Stage = pc /\ plane \in Tree /\ n \in Nat /\ fresh \in Nat
      /\ state = "NEW" /\ rd \in PA /\ SharedIpa \in AnyIpa
  BY <1>0, LateArgs, SetupAssumption DEF LastStages, AnyIpa
<1>2. n \in 1 .. NumAux + 1
  BY <1>0, <1>1 DEF StepInv, LoopInv
<1>3. CASE FailAt(<<>>)
  BY <1>0, <1>3, FailKeeps DEF FailAt, Failing
<1>4. CASE n <= NumAux /\ CallCreate(n, SharedIpa, "aux_shared")
  <2>1. create' \in [tree : Tree, ipa : AnyIpa, rtt : {NoAddr}, back : {pc}]
    BY <1>0, <1>1, <1>4, CountAssumption, SMTT(60) DEF CallCreate, Tree
  <2> QED BY <1>0, <1>4, <2>1, CallKeeps DEF CallCreate, Calling, Goto, Backs
<1>5. CASE /\ n <= NumAux
           /\ rmi_rtt_aux_map(rd, SharedIpa, n)
           /\ n' = n + 1
           /\ Goto("aux_shared") /\ UNCHANGED <<Realm, plane>>
  <2>1. /\ rmi_rtt_aux_map(rd, SharedIpa, n)
        /\ n' = n + 1 /\ pc' = "aux_shared" /\ fresh' = fresh /\ rd' = rd /\ start' = start
        /\ image' = image /\ rec' = rec /\ recaux' = recaux /\ mapped' = mapped
        /\ state' = state /\ plane' = plane /\ create' = create
    BY <1>5 DEF Goto, Realm
  <2>2. /\ n \in Aux /\ n' \in 1 .. NumAux + 1 /\ n' \in Nat
        /\ \A i : i \in 1 .. n' - 1 <=> i \in 1 .. n - 1 \/ i = n
    BY <1>2, <1>5, <2>1, CountAssumption, SMTT(60) DEF Aux
  <2>3. /\ Grown /\ gran' = gran /\ Next
        /\ AuxTrees(rd, SharedIpa) \cup {n} \subseteq (AuxTrees(rd, SharedIpa))'
    BY <1>1, <2>1, <2>2, AuxMapGrows
  <2>4. /\ Stage' = "aux_shared" /\ SetupType' /\ ArgInv' /\ LoopInv' /\ UndoInv'
        /\ RealmThere' /\ RecsThere(RecCount)'
    BY <1>0, <1>1, <2>1, <2>2, <2>3, LateKeeps
  <2>5. ImagesThere(Tree)' /\ SharedThere'
    BY <1>0, <1>1, <2>3 DEF StepInv, MadeInv, ImagesThere, Grown, SharedStages
  <2>6. 1 .. n' - 1 \subseteq (AuxTrees(rd, SharedIpa))'
    BY <1>0, <1>1, <2>2, <2>3 DEF StepInv, MadeInv
  <2>7. MadeInv'
    BY <2>4, <2>5, <2>6 DEF MadeInv, BeforeRealm, RecStages, ImageStages, LastStages
  <2>8. CountInv'
    BY <1>0, <1>1, <2>1, <2>4 DEF StepInv, CountInv, BeforeRealm, RecStages, ImageStages,
       SharedStages, LastStages
  <2>9. InState("DELEGATED")' = {}
    BY <1>0, <1>1, <2>3 DEF StepInv, InHandInv, Within, InState, Backs
  <2>10. InHandInv'
    BY <2>1, <2>4, <2>9 DEF InHandInv, Within, Backs
  <2> QED BY <2>3, <2>4, <2>7, <2>8, <2>10 DEF StepInv, StepOK, Grown
<1> QED BY <1>3, <1>4, <1>5 DEF AuxMapShared

(* The shared region is done.                                              *)
LEMMA SharedMappedKeeps ==
  ASSUME StepInv, SharedMapped
  PROVE  StepOK
<1>0. pc = "aux_shared" /\ pc \in Late
  BY DEF SharedMapped, Late, SharedStages
<1>1. /\ Stage = pc /\ plane \in Tree /\ n \in Nat /\ fresh \in Nat /\ state = "NEW"
  BY <1>0, LateArgs DEF LastStages
<1>2. /\ n > NumAux /\ mapped' = mapped + 1 /\ Same /\ pc' = "activate"
      /\ fresh' = fresh /\ rd' = rd /\ start' = start /\ image' = image /\ rec' = rec
      /\ recaux' = recaux /\ state' = state /\ n' = n /\ plane' = plane /\ create' = create
  BY DEF SharedMapped, Goto
<1>3. \A i \in Aux : i \in 1 .. n - 1
  BY <1>1, <1>2, CountAssumption, SMTT(60) DEF Aux
<1>4. Grown /\ UNCHANGED <<gran, umap, auxmap>> /\ UNCHANGED <<rmm, track>>
  BY <1>2, SameGrows
<1>5. /\ Stage' = "activate" /\ SetupType' /\ ArgInv' /\ LoopInv' /\ UndoInv'
      /\ RealmThere' /\ RecsThere(RecCount)'
  <2>1. pc' \in Late
    BY <1>2 DEF Late, LastStages
  <2> QED BY <1>0, <1>1, <1>2, <1>4, <2>1, LateKeeps
<1>6. ImagesThere(Tree)' /\ SharedThere' /\ Aux \subseteq (AuxTrees(rd, SharedIpa))'
  BY <1>0, <1>1, <1>3, <1>4 DEF StepInv, MadeInv, ImagesThere, Grown, SharedStages
<1>7. MadeInv'
  BY <1>5, <1>6 DEF MadeInv, BeforeRealm, RecStages, ImageStages
<1>8. mapped' = NumAux + 2
  <2>1. mapped = NumAux + 1
    BY <1>0, <1>1 DEF StepInv, CountInv, SharedStages
  <2> QED BY <1>2, <2>1, CountAssumption, SMTT(60)
<1>9. CountInv'
  BY <1>1, <1>2, <1>5, <1>8 DEF CountInv, BeforeRealm, RecStages, ImageStages, SharedStages,
     LastStages
<1>10. InState("DELEGATED")' = {}
  BY <1>0, <1>1, <1>4 DEF StepInv, InHandInv, Within, InState, Backs
<1>11. InHandInv'
  BY <1>2, <1>5, <1>10 DEF InHandInv, Within, Backs
<1> QED BY <1>4, <1>5, <1>7, <1>9, <1>11 DEF StepInv, StepOK, Grown

(* The steps from the activation on add to a complete realm.               *)
LEMMA LastKeeps ==
  ASSUME StepInv, pc \in LastStages, pc' \in LastStages, Grown, fresh' \in Nat,
         pc' = "unknown" => page' \in PA,
         UNCHANGED <<rd, start, image, rec, recaux, create, n, plane>>
  PROVE  /\ Stage = pc /\ Stage' = pc' /\ rd \in PA
         /\ SetupType' /\ ArgInv' /\ LoopInv' /\ UndoInv' /\ MadeInv'
<1>1. pc \in Late /\ pc' \in Late /\ pc' \notin {"aux_map", "aux_shared"}
  BY DEF Late, LastStages
<1>2. plane \in Tree /\ n \in Nat /\ rd \in PA
  BY <1>1, LateArgs
<1>3. /\ Stage = pc /\ Stage' = pc'
      /\ SetupType' /\ ArgInv' /\ LoopInv' /\ UndoInv'
      /\ RealmThere' /\ RecsThere(RecCount)'
  BY <1>1, <1>2, LateKeeps
<1>4. ImagesThere(Tree)' /\ SharedThere' /\ Aux \subseteq (AuxTrees(rd, SharedIpa))'
  BY <1>3 DEF StepInv, MadeInv, ImagesThere, Grown
<1>5. pc' \notin BeforeRealm /\ pc' \notin RecStages /\ pc' \notin ImageStages
  BY DEF LastStages, BeforeRealm, RecStages, ImageStages
<1>6. MadeInv'
  BY <1>1, <1>3, <1>4, <1>5 DEF MadeInv
<1> QED BY <1>2, <1>3, <1>6

(* RMI_REALM_ACTIVATE.                                                     *)
LEMMA ActivateRealmKeeps ==
  ASSUME StepInv, ActivateRealm, activate' = activate
  PROVE  StepOK
<1>0. pc = "activate" /\ pc \in LastStages /\ pc \in Late
  BY DEF ActivateRealm, LastStages, Late
<1>1. state = "NEW" /\ fresh \in Nat
  BY <1>0, LateArgs
<1>2. CASE FailAt(<<>>)
  BY <1>0, <1>2, FailKeeps DEF FailAt, Failing
<1>3. CASE ~FailAt(<<>>)
  <2>1. /\ state' = (IF activate THEN "ACTIVE" ELSE state) /\ pc' = "success" /\ Same
        /\ fresh' = fresh /\ rd' = rd /\ start' = start /\ image' = image /\ rec' = rec
        /\ recaux' = recaux /\ mapped' = mapped /\ n' = n /\ plane' = plane /\ create' = create
    BY <1>3 DEF ActivateRealm, Goto
  <2>2. Grown /\ UNCHANGED <<gran, umap, auxmap>> /\ UNCHANGED <<rmm, track>>
    BY <2>1, SameGrows
  <2>3. /\ Stage = "activate" /\ Stage' = "success"
        /\ SetupType' /\ ArgInv' /\ LoopInv' /\ UndoInv' /\ MadeInv'
    <3>1. pc' \in LastStages
      BY <2>1 DEF LastStages
    <3> QED BY <1>0, <1>1, <2>1, <2>2, <3>1, LastKeeps
  <2>4. mapped = NumAux + 2
    BY <2>3 DEF StepInv, CountInv, LastStages
  <2>5. CountInv'
    BY <1>1, <2>1, <2>3, <2>4 DEF CountInv, BeforeRealm, RecStages, ImageStages, SharedStages,
       LastStages
  <2>6. InState("DELEGATED")' = {}
    BY <1>0, <2>2, <2>3 DEF StepInv, InHandInv, Within, InState
  <2>7. InHandInv'
    BY <2>1, <2>3, <2>6 DEF InHandInv, Within, Backs
  <2> QED BY <2>2, <2>3, <2>5, <2>7 DEF StepInv, StepOK, Grown
<1> QED BY <1>2, <1>3

(* The page that the test maps with unknown contents.                      *)
LEMMA DelegatePageKeeps ==
  ASSUME GranOK, StepInv, DelegatePage, activate' = activate
  PROVE  StepOK
<1>0. pc = "success" /\ pc \in LastStages /\ pc \in Late
  BY DEF DelegatePage, LastStages, Late
<1>1. fresh \in Nat
  BY <1>0, LateArgs
<1>2. CASE FailAt(<<>>)
  BY <1>0, <1>2, FailKeeps DEF FailAt, Failing
<1>3. CASE ~FailAt(<<>>)
  <2>1. /\ Room(1) /\ rmi_granule_delegate(fresh) /\ page' = fresh /\ fresh' = fresh + 1
        /\ pc' = "unknown" /\ rd' = rd /\ start' = start /\ image' = image /\ rec' = rec
        /\ recaux' = recaux /\ mapped' = mapped /\ state' = state /\ n' = n /\ plane' = plane
        /\ create' = create
    BY <1>3 DEF DelegatePage
  <2>2. fresh \in PA /\ fresh' \in Nat
    BY <1>1, <2>1, AllocOne
  <2>3. /\ InState("DELEGATED")' = InState("DELEGATED") \cup {fresh}
        /\ Next /\ Grown
    BY <2>1, <2>2, Delegates, DelegateGrows
  <2>4. /\ Stage = "success" /\ Stage' = "unknown"
        /\ SetupType' /\ ArgInv' /\ LoopInv' /\ UndoInv' /\ MadeInv'
    <3>1. pc' \in LastStages
      BY <2>1 DEF LastStages
    <3> QED BY <1>0, <2>1, <2>2, <2>3, <3>1, LastKeeps
  <2>5. CountInv'
    BY <2>1, <2>4 DEF StepInv, CountInv, BeforeRealm, RecStages, ImageStages, SharedStages,
       LastStages, Stopped
  <2>6. InState("DELEGATED")' \subseteq {page'}
    <3>1. InState("DELEGATED") = {}
      BY <1>0, <2>4 DEF StepInv, InHandInv, Within
    <3> QED BY <2>1, <2>3, <3>1
  <2>7. InHandInv'
    BY <2>1, <2>4, <2>6 DEF InHandInv, Within, Backs
  <2> QED BY <2>3, <2>4, <2>5, <2>7 DEF StepInv, StepOK, Grown
<1> QED BY <1>2, <1>3

(* The granule of unknown content becomes DATA.                            *)
LEMMA CreateUnknownKeeps ==
  ASSUME GranOK, StepInv, CreateUnknown, activate' = activate
  PROVE  StepOK
<1>0. pc = "unknown" /\ pc \in LastStages /\ pc \in Late
  BY DEF CreateUnknown, LastStages, Late
<1>1. fresh \in Nat /\ rd \in PA /\ Stage = pc /\ page \in PA
  BY <1>0, LateArgs DEF StepInv, ArgInv
<1>2. CASE FailAt(<<>>)
  BY <1>0, <1>2, FailKeeps DEF FailAt, Failing
<1>3. CASE CallCreate(0, TestIpa, "unknown")
  <2>1. create' \in [tree : Tree, ipa : AnyIpa, rtt : {NoAddr}, back : {pc}]
    BY <1>0, <1>3, CountAssumption, SetupAssumption, SMTT(60) DEF CallCreate, Tree, AnyIpa
  <2> QED BY <1>0, <1>3, <2>1, CallKeeps DEF CallCreate, Calling, Goto, Backs
<1>4. CASE /\ rmi_data_create(rd, page, TestIpa)
           /\ Goto("ns_shared") /\ UNCHANGED <<Realm, n, plane>>
  <2>1. /\ rmi_data_create(rd, page, TestIpa) /\ pc' = "ns_shared" /\ fresh' = fresh
        /\ rd' = rd /\ start' = start /\ image' = image /\ rec' = rec
        /\ recaux' = recaux /\ mapped' = mapped /\ state' = state /\ n' = n /\ plane' = plane
        /\ create' = create
    BY <1>4 DEF Goto, Realm
  <2>2. /\ InState("DELEGATED")' = InState("DELEGATED") \ {page}
        /\ Next /\ Grown
    BY <1>1, <2>1, SetupAssumption, DataGrows
  <2>3. /\ Stage' = "ns_shared"
        /\ SetupType' /\ ArgInv' /\ LoopInv' /\ UndoInv' /\ MadeInv'
    <3>1. pc' \in LastStages
      BY <2>1 DEF LastStages
    <3> QED BY <1>0, <1>1, <2>1, <2>2, <3>1, LastKeeps
  <2>4. CountInv'
    BY <1>0, <1>1, <2>1, <2>3 DEF StepInv, CountInv, BeforeRealm, RecStages, ImageStages,
       SharedStages, LastStages, Stopped
  <2>5. InState("DELEGATED")' = {}
    BY <1>0, <1>1, <2>2 DEF StepInv, InHandInv, Within
  <2>6. InHandInv'
    BY <2>1, <2>3, <2>5 DEF InHandInv, Within, Backs
  <2> QED BY <2>2, <2>3, <2>4, <2>6 DEF StepInv, StepOK, Grown
<1> QED BY <1>2, <1>3, <1>4 DEF CreateUnknown

(* The shared page that the test maps.                                     *)
LEMMA MapNsSharedKeeps ==
  ASSUME StepInv, MapNsShared, activate' = activate
  PROVE  StepOK
<1>0. pc = "ns_shared" /\ pc \in LastStages /\ pc \in Late
  BY DEF MapNsShared, LastStages, Late
<1>1. fresh \in Nat /\ rd \in PA /\ Stage = pc
  BY <1>0, LateArgs
<1>2. CASE FailAt(<<>>)
  BY <1>0, <1>2, FailKeeps DEF FailAt, Failing
<1>3. CASE CallCreate(0, TestUipa, "ns_shared")
  <2>1. create' \in [tree : Tree, ipa : AnyIpa, rtt : {NoAddr}, back : {pc}]
    BY <1>0, <1>3, CountAssumption, SetupAssumption, SMTT(60) DEF CallCreate, Tree, AnyIpa
  <2> QED BY <1>0, <1>3, <2>1, CallKeeps DEF CallCreate, Calling, Goto, Backs
<1>4. CASE /\ rmi_rtt_map_unprotected(rd, TestUipa, 3)
           /\ mapped' = mapped + 1
           /\ Goto("done")
           /\ UNCHANGED <<fresh, rd, start, image, rec, recaux, state, n, plane, create>>
  <2>1. /\ rmi_rtt_map_unprotected(rd, TestUipa, 3) /\ mapped' = mapped + 1 /\ pc' = "done"
        /\ fresh' = fresh /\ rd' = rd /\ start' = start /\ image' = image /\ rec' = rec
        /\ recaux' = recaux /\ state' = state /\ n' = n /\ plane' = plane /\ create' = create
    BY <1>4 DEF Goto
  <2>2. Grown /\ gran' = gran /\ Next
    BY <1>1, <2>1, SetupAssumption, MapGrows
  <2>3. /\ Stage' = "done"
        /\ SetupType' /\ ArgInv' /\ LoopInv' /\ UndoInv' /\ MadeInv'
    <3>1. pc' \in LastStages
      BY <2>1 DEF LastStages
    <3> QED BY <1>0, <1>1, <2>1, <2>2, <3>1, LastKeeps
  <2>4. mapped' = NumAux + 3
    <3>1. mapped = NumAux + 2
      BY <1>0, <1>1 DEF StepInv, CountInv, LastStages
    <3> QED BY <2>1, <3>1, CountAssumption, SMTT(60)
  <2>5. CountInv'
    BY <1>0, <1>1, <2>1, <2>3, <2>4 DEF StepInv, CountInv, BeforeRealm, RecStages, ImageStages,
       SharedStages, LastStages, Stopped
  <2>6. InState("DELEGATED")' = {}
    BY <1>0, <1>1, <2>2 DEF StepInv, InHandInv, Within, InState, Backs
  <2>7. InHandInv'
    BY <2>1, <2>3, <2>6 DEF InHandInv, Within, Backs
  <2> QED BY <2>2, <2>3, <2>5, <2>7 DEF StepInv, StepOK, Grown
<1> QED BY <1>2, <1>3, <1>4 DEF MapNsShared
-----------------------------------------------------------------------------
(* The error path.  After a failed RMI_REALM_CREATE the granules left are  *)
(* DELEGATED, so that the RMM refuses no undelegation.                     *)
LEMMA UndoKeeps ==
  ASSUME GranOK, StepInv, Undo
  PROVE  StepOK
<1>0. /\ pc = "undo" /\ fresh' = fresh /\ rd' = rd /\ start' = start /\ image' = image
      /\ rec' = rec /\ recaux' = recaux /\ create' = create /\ n' = n /\ plane' = plane
  BY DEF Undo, Realm
<1>1. pc' \in Stopped /\ failed' = failed
  BY <1>0 DEF Undo, Goto, Stopped
<1>2. Stage' \in Stopped /\ pc' \notin {"level", "rtt_create"}
  BY <1>1 DEF Stage, Stopped
<1>3. SetupType'
  BY <1>0, <1>1, <1>2 DEF StepInv, SetupType, Stages
<1>4. /\ Stage' \notin BeforeRealm /\ Stage' \notin RecStages /\ Stage' \notin ImageStages
      /\ Stage' \notin SharedStages /\ Stage' \notin LastStages /\ Stage' \notin Backs
      /\ Stage' \notin {"rtt", "delegate_rtt", "unknown", "images", "aux_count", "rec",
                        "delegate_rec", "rd", "delegate_rd", "create", "aux", "rec_create",
                        "data", "delegate_data", "activate", "success", "done", "aux_map",
                        "aux_shared"}
  BY <1>2 DEF Stopped, BeforeRealm, RecStages, ImageStages, SharedStages, LastStages, Backs
<1>5. ArgInv' /\ LoopInv'
  BY <1>2, <1>4 DEF ArgInv, LoopInv
<1>6. InHandInv' /\ CountInv'
  BY <1>2, <1>4 DEF InHandInv, CountInv
<1>7. MadeInv'
  BY <1>2, <1>4 DEF MadeInv
<1>8. ASSUME undo # <<>>, undo' = Tail(undo), pc' = pc,
             \A p \in PA : gran'[p].st # "UNDELEGATED" => gran'[p] = gran[p],
             Head(undo) \in PA => gran'[Head(undo)].st # "DELEGATED"
      PROVE  UndoInv'
  <2> SUFFICES ASSUME failed = "create" PROVE UndoInv'
    BY <1>1 DEF UndoInv
  <2>1. /\ undo \in Seq(PA) /\ \A p \in PA : gran[p].st # "UNDELEGATED" =>
             /\ gran[p].st = "DELEGATED"
             /\ p \in LaterTables \cup {undo[i] : i \in 1 .. Len(undo)}
    BY <1>0 DEF StepInv, UndoInv, Stopped
  <2>2. /\ Head(undo) \in PA /\ Head(undo) = undo[1] /\ Tail(undo) \in Seq(PA)
        /\ \A i \in 1 .. Len(undo) :
             i # 1 => i - 1 \in 1 .. Len(Tail(undo)) /\ Tail(undo)[i - 1] = undo[i]
    BY <1>8, <2>1, SMTT(60)
  <2>3. ASSUME NEW p \in PA, gran'[p].st # "UNDELEGATED"
        PROVE  /\ gran'[p].st = "DELEGATED"
               /\ p \in LaterTables \cup {Tail(undo)[i] : i \in 1 .. Len(Tail(undo))}
    <3>0. gran'[p] = gran[p]
      BY <1>8, <2>3
    <3>1. gran[p].st = "DELEGATED"
      BY <2>1, <2>3, <3>0
    <3>4. p # undo[1]
      BY <1>8, <2>2, <3>0, <3>1
    <3>2. CASE p \in LaterTables
      BY <3>0, <3>1, <3>2
    <3>3. CASE p \in {undo[i] : i \in 1 .. Len(undo)}
      <4>1. PICK i \in 1 .. Len(undo) : p = undo[i]
        BY <3>3
      <4>2. i - 1 \in 1 .. Len(Tail(undo)) /\ Tail(undo)[i - 1] = p
        BY <2>2, <3>4, <4>1
      <4> QED BY <3>0, <3>1, <4>2
    <3>5. p \in LaterTables \cup {undo[i] : i \in 1 .. Len(undo)}
      BY <2>1, <2>3, <3>0
    <3> QED BY <3>2, <3>3, <3>5
  <2>4. LaterTables' = LaterTables
    BY <1>0 DEF LaterTables
  <2>5. pc' # "error" /\ undo' = Tail(undo) /\ Tail(undo) \in Seq(PA)
    BY <1>0, <1>8, <2>2
  <2> QED BY <2>3, <2>4, <2>5 DEF UndoInv
<1>9. CASE undo = <<>> /\ Goto("error") /\ Same
  <2>1. gran' = gran /\ UNCHANGED <<rmm, track>> /\ InState("DEV")' = InState("DEV")
    BY <1>9 DEF Same, rmm, InState
  <2>2. undo' = undo /\ LaterTables' = LaterTables
    BY <1>0, <1>9 DEF Goto, LaterTables
  <2>3. UndoInv'
    BY <1>0, <1>1, <1>9, <2>1, <2>2 DEF StepInv, UndoInv, Stopped
  <2> QED BY <1>3, <1>5, <1>6, <1>7, <2>1, <2>3 DEF StepInv, StepOK
<1>10. CASE /\ undo # <<>> /\ undo' = Tail(undo) /\ pc' = pc
            /\ ~(Head(undo) \in PA /\ CanUndelegate(Head(undo))) /\ Same
  <2>1. gran' = gran /\ UNCHANGED <<rmm, track>> /\ InState("DEV")' = InState("DEV")
    BY <1>10 DEF Same, rmm, InState
  <2>2. UndoInv'
    BY <1>8, <1>10, <2>1 DEF CanUndelegate
  <2> QED BY <1>3, <1>5, <1>6, <1>7, <2>1, <2>2 DEF StepInv, StepOK
<1>11. CASE /\ undo # <<>> /\ undo' = Tail(undo) /\ pc' = pc
            /\ Head(undo) \in PA /\ rmi_granule_undelegate(Head(undo))
  <2> DEFINE g == Head(undo)
  <2>1. gran[g].st = "DELEGATED" /\ gran' = [gran EXCEPT ![g] = Plain("UNDELEGATED")]
    BY <1>11 DEF rmi_granule_undelegate, CanUndelegate, Undelegate
  <2> HIDE DEF g
  <2>2. gran'[g].st = "UNDELEGATED" /\ \A p \in PA : p # g => gran'[p] = gran[p]
    BY <1>11, <2>1, SMTT(60) DEF GranOK, Plain, Granule, g
  <2>3. UndoInv'
    BY <1>8, <1>11, <2>2 DEF g
  <2>4. InState("DEV") = {} => InState("DEV")' = {}
    BY <2>2 DEF InState
  <2>5. Next
    BY <1>11 DEF Next
  <2> QED BY <1>3, <1>5, <1>6, <1>7, <2>3, <2>4, <2>5 DEF StepInv, StepOK
<1> QED BY <1>9, <1>10, <1>11 DEF Undo

(* Every step of the setup keeps the invariant.                            *)
LEMMA SetupStepKeeps ==
  ASSUME GranOK, StepInv, SetupStep
  PROVE  StepOK
<1>1. activate' = activate
  BY DEF SetupStep
<1>2. CASE AllocImages \/ AllocRtt \/ DelegateRtt \/ AllocRd \/ DelegateRd \/ CreateRealm
  BY <1>2, AllocImagesKeeps, AllocRttKeeps, DelegateRttKeeps, AllocRdKeeps, DelegateRdKeeps,
     CreateRealmKeeps
<1>3. CASE RecAuxCount \/ AllocRec \/ DelegateRec \/ DelegateAux \/ CreateRec
  BY <1>3, RecAuxCountKeeps, AllocRecKeeps, DelegateRecKeeps, DelegateAuxKeeps, CreateRecKeeps
<1>4. CASE CreateLevels \/ CreateTable
  BY <1>1, <1>4, CreateLevelsKeeps, CreateTableKeeps
<1>5. CASE InitRipas \/ DelegateData \/ CreateData \/ AuxMapData \/ ImageMapped
  BY <1>1, <1>5, InitRipasKeeps, DelegateDataKeeps, CreateDataKeeps, AuxMapDataKeeps,
     ImageMappedKeeps
<1>6. CASE MapShared \/ AuxMapShared \/ SharedMapped \/ ActivateRealm
  BY <1>1, <1>6, MapSharedKeeps, AuxMapSharedKeeps, SharedMappedKeeps, ActivateRealmKeeps
<1>7. CASE DelegatePage \/ CreateUnknown \/ MapNsShared \/ Undo
  BY <1>1, <1>7, DelegatePageKeeps, CreateUnknownKeeps, MapNsSharedKeeps, UndoKeeps
<1> QED BY <1>2, <1>3, <1>4, <1>5, <1>6, <1>7 DEF SetupStep

(* The commands of the postamble give granules back.                       *)
LEMMA GivesBack ==
  ASSUME GranOK, NEW S, gran' = Release(S) \/ gran' = gran
  PROVE  GranOK' /\ InState("DEV")' \subseteq InState("DEV")
<1>1. CASE gran' = gran
  BY <1>1 DEF GranOK, InState
<1>2. CASE gran' = Release(S)
  <2>1. \A p \in PA : IF p \in S THEN gran'[p].st = "DELEGATED" ELSE gran'[p] = gran[p]
    BY <1>2 DEF Release, Plain, Granule
  <2>2. GranOK'
    BY <1>2 DEF GranOK, Release
  <2> QED BY <2>1, <2>2 DEF InState
<1> QED BY <1>1, <1>2

(* A command changes granules of the heap only.                            *)
LEMMA GranChanges ==
  ASSUME GranOK, NEW x, NEW v, gran' = [gran EXCEPT ![x] = v]
  PROVE  GranOK'
BY SMTT(60) DEF GranOK

(* Every command keeps to the heap.                                        *)
LEMMA GranKept ==
  ASSUME GranOK, Next
  PROVE  GranOK'
<1>1. CASE \E pa \in PA : rmi_granule_delegate(pa) \/ rmi_granule_undelegate(pa)
  BY <1>1, GranChanges DEF rmi_granule_delegate, Delegate, rmi_granule_undelegate, Undelegate
<1>2. CASE \E r \in PA : \E T \in SUBSET PA : rmi_realm_create(r, T)
  BY <1>2 DEF rmi_realm_create, RealmCreate, GranOK
<1>3. CASE \E r, c \in PA : \E T \in SUBSET PA : rmi_rec_create(r, c, T)
  BY <1>3 DEF rmi_rec_create, RecCreate, GranOK
<1>4. CASE \E r \in PA : rmi_realm_destroy(r) \/ rmi_rec_destroy(r)
  BY <1>4, GivesBack DEF rmi_realm_destroy, RealmDestroy, rmi_rec_destroy, RecDestroy
<1>5. CASE \E r, x \in PA : \E a \in AnyIpa, l \in Level, t \in Tree :
             rmi_rtt_create(r, x, a, l, t)
  BY <1>5, GranChanges DEF rmi_rtt_create, RttCreate
<1>6. CASE \E r \in PA : \E a \in AnyIpa, l \in Level, t \in Tree : rmi_rtt_destroy(r, a, l, t)
  BY <1>6, GivesBack DEF rmi_rtt_destroy, RttDestroy
<1>7. CASE \E r, x \in PA : \E a \in IPA : rmi_data_create(r, x, a)
  BY <1>7, GranChanges DEF rmi_data_create, DataCreate
<1>8. CASE \E r \in PA : \E a \in IPA : rmi_data_destroy(r, a)
  BY <1>8, GivesBack DEF rmi_data_destroy, DataDestroy
<1>9. CASE \/ \E r \in PA : \E a \in UIPA, l \in Level :
                rmi_rtt_map_unprotected(r, a, l) \/ rmi_rtt_unmap_unprotected(r, a, l)
           \/ \E r \in PA : \E a \in AnyIpa, t \in Aux :
                rmi_rtt_aux_map(r, a, t) \/ rmi_rtt_aux_unmap(r, a, t)
  <2>1. gran' = gran
    BY <1>9 DEF rmi_rtt_map_unprotected, Map, rmi_rtt_unmap_unprotected, Unmap, rmi_rtt_aux_map,
       AuxMap, rmi_rtt_aux_unmap, AuxUnmap
  <2> QED BY <2>1 DEF GranOK
<1>10. CASE \E pa \in PA : rmi_dev_create(pa) \/ rmi_dev_destroy(pa)
  BY <1>10, GranChanges, GivesBack DEF rmi_dev_create, DevCreate, rmi_dev_destroy, DevDestroy
<1> QED BY <1>1, <1>2, <1>3, <1>4, <1>5, <1>6, <1>7, <1>8, <1>9, <1>10 DEF Next

(* Every command of the postamble gives granules back.                     *)
LEMMA WorkGivesBack ==
  ASSUME GranOK, Work
  PROVE  GranOK' /\ InState("DEV")' \subseteq InState("DEV")
<1> DEFINE Back == GranOK' /\ InState("DEV")' \subseteq InState("DEV")
<1>1. UNCHANGED rmm => Back
  BY GivesBack DEF rmm
<1>2. ASSUME NEW x, rmi_granule_undelegate(x) PROVE Back
  <2>1. /\ gran[x].st = "DELEGATED" /\ gran' = [gran EXCEPT ![x] = Plain("UNDELEGATED")]
    BY <1>2 DEF rmi_granule_undelegate, CanUndelegate, Undelegate
  <2>2. \A p \in PA : gran'[p].st = "DEV" => gran[p].st = "DEV"
    BY <2>1, SMTT(60) DEF GranOK, Plain, Granule
  <2> QED BY <2>1, <2>2, GranChanges DEF InState
<1>3. ASSUME NEW x, rmi_rec_destroy(x) \/ rmi_realm_destroy(x) PROVE Back
  BY <1>3, GivesBack DEF rmi_rec_destroy, RecDestroy, rmi_realm_destroy, RealmDestroy
<1>4. ASSUME NEW r, NEW a, NEW t, rmi_rtt_aux_unmap(r, a, t) \/ rmi_data_destroy(r, a) PROVE Back
  BY <1>4, GivesBack DEF rmi_rtt_aux_unmap, AuxUnmap, rmi_data_destroy, DataDestroy
<1>5. ASSUME NEW r, NEW a, NEW l, NEW t,
             rmi_rtt_unmap_unprotected(r, a, l) \/ rmi_rtt_destroy(r, a, l, t)
      PROVE  Back
  BY <1>5, GivesBack DEF rmi_rtt_unmap_unprotected, Unmap, rmi_rtt_destroy, RttDestroy
<1> HIDE DEF Back
<1>6. ASSUME NextRealm \/ EndLoop PROVE Back
  BY <1>1, <1>6 DEF NextRealm, EndLoop
<1>7. ASSUME UndelegateCur \/ UndelegateNs \/ FreeRemaining PROVE Back
  BY <1>1, <1>2, <1>7 DEF UndelegateCur, UndelegateNs, FreeRemaining
<1>8. ASSUME DestroyRec \/ DestroyRd PROVE Back
  BY <1>1, <1>3, <1>8 DEF DestroyRec, DestroyRd, Command
<1>9. ASSUME DestroyData PROVE Back
  BY <1>1, <1>4, <1>9 DEF DestroyData, Command
<1>10. ASSUME UnmapUnprotected PROVE Back
  BY <1>1, <1>4, <1>5, <1>10 DEF UnmapUnprotected, Command
<1>11. ASSUME DestroyRtt PROVE Back
  BY <1>1, <1>5, <1>11 DEF DestroyRtt, Command
<1>12. Back
  BY <1>6, <1>7, <1>8, <1>9, <1>10, <1>11 DEF Work
<1> QED BY <1>12 DEF Back

(* The postamble does not return to the test.                              *)
LEMMA WorkEnds ==
  ASSUME EndInv, Work
  PROVE  /\ phase # "test" /\ phase' # "test"
         /\ \/ caller' = "postamble" /\ (cur' # NoAddr => phase' \in {"rec", "data", "rtt"})
            \/ phase' \in {"success", "error"} /\ cur' = NoAddr
<1>1. /\ phase \notin {"test", "success", "error"} /\ caller = "postamble"
      /\ cur # NoAddr => phase \in {"rec", "data", "rtt"}
  <2>1. phase \notin {"test", "success", "error"} \/ cur # NoAddr
    BY DEF Work, NextRealm, UndelegateCur, DestroyRec, DestroyData, UnmapUnprotected, DestroyRtt,
       EndLoop, DestroyRd, UndelegateNs, FreeRemaining
  <2> QED BY <2>1 DEF EndInv
<1>2. \A ok \in BOOLEAN : Return(ok) =>
        \/ phase' = "next" /\ caller' = caller /\ cur' = cur
        \/ phase' = "error" /\ cur' = NoAddr
  BY <1>1 DEF Return, Go, Leave
<1>3. CASE NextRealm
  BY <1>1, <1>3 DEF NextRealm, Go
<1>4. CASE UndelegateCur
  <2>1. CASE Return(FALSE)
    BY <1>1, <1>4, <2>1 DEF UndelegateCur, Return, Leave
  <2> QED BY <1>1, <1>4, <2>1 DEF UndelegateCur
<1>5. CASE DestroyRec \/ DestroyData \/ UnmapUnprotected \/ DestroyRtt
  <2> DEFINE P == \/ /\ phase' = phase /\ caller' = caller
                     /\ \/ phase \in {"rec", "data", "rtt"}
                        \/ phase = "valid_ns" /\ cur' = NoAddr
                  \/ Return(FALSE) /\ cur = NoAddr
  <2>1. \A can, act, pa : Command(can, act, pa) =>
          \/ phase' = phase /\ caller' = caller /\ cur' = pa
          \/ Return(FALSE)
    BY DEF Command
  <2>2. ASSUME DestroyRec PROVE P
    BY <2>1, <2>2 DEF DestroyRec
  <2>3. ASSUME DestroyData PROVE P
    BY <2>1, <2>3 DEF DestroyData
  <2>4. ASSUME UnmapUnprotected PROVE P
    BY <2>1, <2>4 DEF UnmapUnprotected
  <2>5. ASSUME DestroyRtt PROVE P
    BY <2>1, <2>5 DEF DestroyRtt
  <2> QED BY <1>1, <1>2, <1>5, <2>2, <2>3, <2>4, <2>5
<1>6. CASE EndLoop
  BY <1>1, <1>6 DEF EndLoop, Go
<1>7. CASE DestroyRd
  <2>1. phase = "rd" /\ (Return(TRUE) \/ Return(FALSE)) /\ cur = NoAddr
    BY <1>1, <1>7 DEF DestroyRd
  <2> QED BY <1>1, <1>2, <2>1
<1>8. CASE UndelegateNs
  BY <1>1, <1>8 DEF UndelegateNs, Go, Leave, post
<1>9. CASE FreeRemaining
  BY <1>1, <1>9 DEF FreeRemaining, Leave
<1> QED BY <1>1, <1>3, <1>4, <1>5, <1>6, <1>7, <1>8, <1>9 DEF Work
-----------------------------------------------------------------------------
(* The test starts with nothing allocated.                                 *)
LEMMA SetupStarts == SInit => SetupInv
<1> SUFFICES ASSUME SInit PROVE SetupInv
  OBVIOUS
<1>1. /\ pc = "images" /\ fresh = 1 /\ n = 0 /\ plane = 0 /\ mapped = 0
      /\ start = [t \in Tree |-> <<>>] /\ image = [t \in Tree |-> NoAddr]
      /\ rec = <<>> /\ recaux = <<>> /\ create = NoCreate
      /\ phase = "test" /\ cur = NoAddr
  BY DEF SInit, PInit
<1>2. gran = [p \in PA |-> Plain("UNDELEGATED")]
  BY DEF SInit, PInit, Init, RmmInit
<1>3. \A p \in PA : gran[p].st = "UNDELEGATED"
  BY <1>2, SMTT(60) DEF Plain, Granule
<1>4. Stage = "images"
  BY <1>1, SMTT(60) DEF Stage
<1>5. 0 \in Tree
  BY CountAssumption, SMTT(60) DEF Tree
<1>6. SetupType
  <2>1. create \in [tree : Tree, ipa : AnyIpa \cup {NoAddr}, rtt : PA \cup {NoAddr},
                    back : Backs \cup {"none"}]
    BY <1>1, <1>5 DEF NoCreate
  <2>2. /\ start \in [Tree -> {<<>>} \cup StartTable] /\ image \in [Tree -> PA \cup {NoAddr}]
        /\ rec \in Seq(PA) /\ recaux \in Seq(Seq(PA))
    BY <1>1, SMTT(60)
  <2>3. fresh \in Nat /\ n \in Nat
    BY <1>1, SMTT(60)
  <2>4. /\ pc \in Stages \cup {"level", "rtt_create"}
        /\ pc \in {"level", "rtt_create"} => create.back \in Backs
    BY <1>1, SMTT(60) DEF Stages, BeforeRealm
  <2> QED BY <1>1, <1>5, <2>1, <2>2, <2>3, <2>4 DEF SetupType
<1>7. ArgInv
  BY <1>1, <1>4, SMTT(60) DEF ArgInv, Stopped
<1>8. LoopInv
  BY <1>1, <1>4, SMTT(60) DEF LoopInv, RecStages
<1>9. InHandInv
  <2>1. Within({})
    BY <1>3, SMTT(60) DEF Within, InState
  <2> QED BY <1>1, <1>4, <2>1, SMTT(60) DEF InHandInv, Backs
<1>10. MadeInv
  <2>1. Untouched
    BY <1>3 DEF Untouched
  <2> QED BY <1>4, <2>1, SMTT(60) DEF MadeInv, BeforeRealm, RecStages, ImageStages,
             SharedStages, LastStages
<1>11. CountInv /\ UndoInv
  BY <1>1, <1>4, SMTT(60) DEF CountInv, UndoInv, BeforeRealm, ImageStages, SharedStages,
     LastStages, Stopped
<1>12. EndInv /\ GranOK
  <2>1. InState("DEV") = {}
    BY <1>3, SMTT(60) DEF InState
  <2> QED BY <1>1, <1>2, <2>1 DEF EndInv, GranOK
<1> QED BY <1>6, <1>7, <1>8, <1>9, <1>10, <1>11, <1>12 DEF SetupInv, StepInv

(* A step that changes nothing keeps the invariant.                        *)
LEMMA SetupStutters ==
  ASSUME SetupInv, UNCHANGED svars
  PROVE  SetupInv'
<1>1. /\ gran' = gran /\ umap' = umap /\ auxmap' = auxmap
      /\ phase' = phase /\ cur' = cur /\ caller' = caller
      /\ activate' = activate /\ pc' = pc /\ fresh' = fresh /\ rd' = rd /\ start' = start
      /\ image' = image /\ rec' = rec /\ recaux' = recaux /\ state' = state
      /\ mapped' = mapped /\ n' = n /\ plane' = plane /\ page' = page
      /\ create' = create /\ undo' = undo /\ failed' = failed
  BY DEF svars, vars, rmm, post, setup
<1>2. Stage' = Stage
  BY <1>1 DEF Stage
<1>3. SetupType' = SetupType /\ LoopInv' = LoopInv /\ CountInv' = CountInv
  BY <1>1, <1>2 DEF SetupType, LoopInv, CountInv
<1>4. ArgInv' = ArgInv
  BY <1>1, <1>2 DEF ArgInv, Walks, Table, InState, Owned
<1>5. InHandInv' = InHandInv
  <2>1. /\ TablesBefore' = TablesBefore /\ TablesTo' = TablesTo /\ AllTables' = AllTables
        /\ RecGranules' = RecGranules
    BY <1>1 DEF TablesBefore, TablesTo, AllTables, RecGranules
  <2>2. InState("DELEGATED")' = InState("DELEGATED")
    BY <1>1 DEF InState
  <2> QED BY <1>1, <1>2, <2>1, <2>2, SMTT(60) DEF InHandInv, Within
<1>6. MadeInv' = MadeInv
  <2>1. Untouched' = Untouched /\ SharedThere' = SharedThere
    BY <1>1 DEF Untouched, SharedThere
  <2>2. \A st \in {"RD", "START", "REC", "DATA"} : /\ InState(st)' = InState(st)
                                                 /\ (Owned(st, rd))' = Owned(st, rd)
    BY <1>1 DEF InState, Owned
  <2>3. RealmThere' = RealmThere /\ \A k : RecsThere(k)' = RecsThere(k)
    BY <1>1, <2>2 DEF RealmThere, RecsThere
  <2>4. \A a : (DataAt(rd, a))' = DataAt(rd, a) /\ (AuxTrees(rd, a))' = AuxTrees(rd, a)
    BY <1>1, <2>2 DEF DataAt, AuxTrees
  <2>5. \A t : ImageThere(t)' = ImageThere(t)
    BY <1>1, <2>4 DEF ImageThere
  <2>6. \A S : ImagesThere(S)' = ImagesThere(S)
    BY <1>1, <2>4, <2>5 DEF ImagesThere
  <2> QED BY <1>1, <1>2, <2>1, <2>3, <2>4, <2>5, <2>6, SMTT(60) DEF MadeInv
<1>7. UndoInv' = UndoInv
  BY <1>1 DEF UndoInv, LaterTables
<1>8. EndInv' = EndInv /\ GranOK' = GranOK
  BY <1>1 DEF EndInv, GranOK, InState
<1> QED BY <1>1, <1>3, <1>4, <1>5, <1>6, <1>7, <1>8 DEF SetupInv, StepInv

(* A step of the setup is a test's step.                                   *)
LEMMA SetupStepSafe ==
  ASSUME SetupInv, SetupStep
  PROVE  SetupInv' /\ (Test \/ UNCHANGED vars)
<1>1. phase = "test" /\ UNCHANGED post
  BY DEF SetupStep
<1>2. StepOK
  BY <1>1, SetupStepKeeps DEF SetupInv
<1>3. phase' = phase /\ cur' = cur /\ caller' = caller
  BY <1>1 DEF post
<1>4. GranOK'
  <2>1. CASE Next
    BY <2>1, GranKept DEF SetupInv
  <2>2. CASE UNCHANGED <<rmm, track>>
    BY <2>2 DEF SetupInv, GranOK, rmm
  <2> QED BY <1>2, <2>1, <2>2 DEF StepOK
<1>5. EndInv'
  BY <1>1, <1>2, <1>3 DEF SetupInv, EndInv, StepOK
<1>6. Test \/ UNCHANGED vars
  BY <1>1, <1>2 DEF StepOK, Test, vars
<1> QED BY <1>2, <1>4, <1>5, <1>6 DEF SetupInv, StepOK

(* And so is every step of the specification a step of the postamble's.    *)
LEMMA SetupNextSafe ==
  ASSUME SetupInv, [SNext]_svars
  PROVE  SetupInv' /\ [PNext]_vars
<1>1. CASE SetupStep
  BY <1>1, SetupStepSafe DEF PNext
<1>2. CASE EndTest
  <2>1. StartPostamble
    BY <1>2 DEF EndTest
  <2>2. /\ phase = "test" /\ phase' = "next" /\ caller' = "postamble"
        /\ gran' = gran /\ cur' = cur
    BY <2>1 DEF StartPostamble, rmm
  <2>3. GranOK' /\ EndInv'
    BY <2>2 DEF SetupInv, GranOK, EndInv, InState
  <2> QED BY <2>1, <2>2, <2>3 DEF SetupInv, PNext
<1>3. CASE CleanUp
  <2>1. Work
    BY <1>3 DEF CleanUp
  <2>2. GranOK' /\ InState("DEV")' \subseteq InState("DEV")
    BY <2>1, WorkGivesBack DEF SetupInv
  <2>3. /\ phase # "test" /\ phase' # "test"
        /\ \/ caller' = "postamble" /\ (cur' # NoAddr => phase' \in {"rec", "data", "rtt"})
           \/ phase' \in {"success", "error"} /\ cur' = NoAddr
    BY <2>1, WorkEnds DEF SetupInv
  <2>4. EndInv'
    BY <2>2, <2>3 DEF SetupInv, EndInv
  <2> QED BY <2>1, <2>2, <2>3, <2>4 DEF SetupInv, PNext
<1>4. CASE UNCHANGED svars
  BY <1>4, SetupStutters DEF svars
<1> QED BY <1>1, <1>2, <1>3, <1>4 DEF SNext, Done

(* The invariant of val_host_realm_setup: at every step of it, what has    *)
(* been delegated, created and mapped so far, for any number of planes,    *)
(* RECs and start tables and wherever a step fails.                        *)
THEOREM SetupInvariance == SSpec => []SetupInv
<1>1. SetupInv /\ [SNext]_svars => SetupInv'
  BY SetupNextSafe
<1> QED BY SetupStarts, <1>1, PTL DEF SSpec

(* Refinement: the setup followed by the postamble is one of the tests     *)
(* that Postamble allows.  Each of its steps issues commands the RMM       *)
(* accepts, or none, and the postamble runs unchanged after it.            *)
THEOREM SetupIsATest == SSpec => PSpec
<1>1. SInit => PInit
  BY DEF SInit
<1>2. SetupInv /\ [SNext]_svars => [PNext]_vars
  BY SetupNextSafe
<1> QED BY <1>1, <1>2, SetupInvariance, PTL DEF SSpec, PSpec

(* When RMI_REALM_CREATE fails, val_host_realm_create's error path has     *)
(* given back the RD and the first start table of every tree by the time   *)
(* it returns.                                                             *)
THEOREM CreateUndone == SSpec => []CreateRollsBack
<1>1. SetupInv => CreateRollsBack
  <2> SUFFICES ASSUME SetupInv, pc = "error", phase = "test", failed = "create",
                      NEW p \in PA, gran[p].st # "UNDELEGATED"
               PROVE  \E t \in Tree : \E s \in 2 .. SlRtts : p = start[t][s]
    BY DEF CreateRollsBack
  <2>1. undo = <<>> /\ p \in LaterTables \cup {undo[i] : i \in 1 .. Len(undo)}
    BY DEF SetupInv, StepInv, UndoInv, Stopped
  <2>2. p \in LaterTables
    BY <2>1, SMTT(60)
  <2> QED BY <2>2 DEF LaterTables
<1> QED BY <1>1, SetupInvariance, PTL
============================================================================
