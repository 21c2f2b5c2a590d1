-------------------------- MODULE MemTrackProofs ---------------------------
(***************************************************************************)
(* The tracker mirrors the RMM and never uses a NULL node, for any number  *)
(* of granules, addresses, slots and trees and for any order of calls.     *)
(*                                                                         *)
(* First what the RMM keeps whatever commands it is given, then what the   *)
(* operations of the tracker do in a state where the inductive invariant   *)
(* IInv of MemTrack holds, and at last the wrappers one by one.            *)
(***************************************************************************)
EXTENDS MemTrack, TLAPS

(* Zenon unless a step names another prover.                               *)
USE ZenonT(60)

RealmStates == {"REC", "RTT", "RTT_AUX", "DATA"}
Outside == {"DELEGATED", "START", "REC_AUX", "DEV"}

(* What the RMM guarantees about its own state: granules belong to live    *)
(* realms, keys are unique, and what is mapped in an auxiliary tree is     *)
(* mapped in the primary one.                                              *)
RmmInv ==
  /\ \A p \in InState("RD") : gran[p] = Granule("RD", p, NoAddr, 0, 0)
  /\ \A p \in InState("REC") : gran[p] = Granule("REC", gran[p].rd, NoAddr, 0, 0)
  /\ \A p \in InState("DATA") :
       gran[p] = Granule("DATA", gran[p].rd, gran[p].ipa, 0, 0) /\ gran[p].ipa \in IPA
  /\ \A p \in InState("RTT") : gran[p].tree = 0
  /\ \A p \in InState("RTT_AUX") : gran[p].tree # 0
  /\ \A p \in PA : gran[p].st \in RealmStates => gran[p].rd \in InState("RD")
  /\ \A p, q \in InState("DATA") :
       gran[p].rd = gran[q].rd /\ gran[p].ipa = gran[q].ipa => p = q
  /\ \A p, q \in InState("RTT") \cup InState("RTT_AUX") :
       gran[p] = gran[q] => p = q
  /\ \A u \in umap : u.rd \in InState("RD")
  /\ \A u, v \in umap : u.rd = v.rd /\ u.ipa = v.ipa => u = v
  /\ \A m \in auxmap :
       /\ m.rd \in InState("RD")
       /\ m.ipa \in IPA => DataAt(m.rd, m.ipa) # {}
       /\ m.ipa \in UIPA => \E u \in umap : u.rd = m.rd /\ u.ipa = m.ipa

RmmOK == RmmTypeOK /\ RmmInv
-----------------------------------------------------------------------------
(* A granule that is DELEGATED and gets a state outside the realm states,  *)
(* or the reverse, leaves everything the RMM guarantees alone.             *)
LEMMA OutsideStep ==
  ASSUME RmmOK, RmmTypeOK', UNCHANGED <<umap, auxmap>>,
         \A p \in PA : \/ gran'[p] = gran[p]
                       \/ /\ gran[p].st \notin RealmStates \cup {"RD"}
                          /\ gran'[p].st \notin RealmStates \cup {"RD"}
  PROVE  RmmInv'
<1>1. \A st \in RealmStates \cup {"RD"} : InState(st)' = InState(st)
  BY DEF InState, RealmStates
<1>2. \A st \in RealmStates \cup {"RD"} : \A p \in InState(st) : gran'[p] = gran[p]
  BY DEF InState, RealmStates
<1>3. \A r, a : DataAt(r, a)' = DataAt(r, a)
  BY <1>1, <1>2 DEF DataAt, Owned, InState, RealmStates
<1> QED
  BY <1>1, <1>2, <1>3, SMTT(60) DEF RmmOK, RmmInv, RealmStates, Granule, InState

(* RMI_GRANULE_DELEGATE, RMI_GRANULE_UNDELEGATE and the device commands.   *)
LEMMA PlainSteps ==
  ASSUME RmmOK, NEW pa \in PA,
         \/ CanDelegate(pa) /\ Delegate(pa)
         \/ CanUndelegate(pa) /\ Undelegate(pa)
         \/ CanDevCreate(pa) /\ DevCreate(pa)
         \/ CanDevDestroy(pa) /\ DevDestroy(pa)
  PROVE  RmmOK'
<1>1. UNCHANGED <<umap, auxmap>>
  BY DEF Delegate, Undelegate, DevCreate, DevDestroy
<1>2. PICK st \in {"DELEGATED", "UNDELEGATED", "DEV"} :
        /\ gran' = [gran EXCEPT ![pa] = Plain(st)]
        /\ gran[pa].st \in {"DELEGATED", "UNDELEGATED", "DEV"}
  BY DEF RmmOK, RmmTypeOK, CanDelegate, Delegate, CanUndelegate, Undelegate,
         CanDevCreate, DevCreate, CanDevDestroy, DevDestroy, Release
<1>3. RmmTypeOK'
  BY <1>1, <1>2, CountAssumption, SMTT(60)
     DEF RmmOK, RmmTypeOK, Plain, Granule, States, Tree
<1>4. \A p \in PA : \/ gran'[p] = gran[p]
                    \/ /\ gran[p].st \notin RealmStates \cup {"RD"}
                       /\ gran'[p].st \notin RealmStates \cup {"RD"}
  BY <1>2 DEF RmmOK, RmmTypeOK, Plain, Granule, RealmStates
<1> QED
  BY <1>1, <1>3, <1>4, OutsideStep DEF RmmOK

(* RMI_REALM_CREATE.                                                       *)
LEMMA RealmCreateStep ==
  ASSUME RmmOK, NEW rd \in PA, NEW tables \in SUBSET PA,
         CanRealmCreate(rd, tables), RealmCreate(rd, tables)
  PROVE  RmmOK'
<1> USE DEF RmmOK, CanRealmCreate, RealmCreate
<1>1. RmmTypeOK'
  BY CountAssumption, SMTT(60) DEF RmmTypeOK, Granule, States, Tree
<1>2. /\ InState("RD")' = InState("RD") \cup {rd}
      /\ \A st \in RealmStates : InState(st)' = InState(st)
  BY DEF InState, RealmStates, Granule
<1>3. /\ \A p \in InState("RD") : gran'[p] = gran[p]
      /\ \A st \in RealmStates : \A p \in InState(st) : gran'[p] = gran[p]
  BY DEF InState, RealmStates
<1>4. gran'[rd] = Granule("RD", rd, NoAddr, 0, 0)
  OBVIOUS
<1>5. \A r, a : DataAt(r, a)' = DataAt(r, a)
  BY <1>2, <1>3 DEF DataAt, Owned, InState, RealmStates
<1>6. RmmInv'
  BY <1>2, <1>3, <1>4, <1>5, SMTT(60) DEF RmmInv, RealmStates, Granule, InState
<1> QED
  BY <1>1, <1>6

(* RMI_REALM_DESTROY.                                                      *)
LEMMA RealmDestroyStep ==
  ASSUME RmmOK, NEW rd \in PA, CanRealmDestroy(rd), RealmDestroy(rd)
  PROVE  RmmOK'
<1>0. RmmTypeOK /\ RmmInv /\ UNCHANGED <<umap, auxmap>>
  BY DEF RmmOK, RealmDestroy
<1>1. RmmTypeOK'
  BY <1>0, CountAssumption, SMTT(60) DEF RealmDestroy, Release, Owned, InState, RmmTypeOK, Plain, Granule, States, Tree
<1>2. /\ InState("RD")' = InState("RD") \ {rd}
      /\ \A st \in RealmStates : InState(st)' = InState(st)
  BY <1>0 DEF CanRealmDestroy, RealmDestroy, Release, InState, Owned, RealmStates, Plain, Granule, RmmTypeOK
<1>3. /\ \A p \in InState("RD") \ {rd} : gran'[p] = gran[p]
      /\ \A st \in RealmStates : \A p \in InState(st) : gran'[p] = gran[p]
  BY <1>0 DEF CanRealmDestroy, RealmDestroy, Release, InState, Owned, RealmStates
<1>4. \A r, a : DataAt(r, a)' = DataAt(r, a)
  BY <1>2, <1>3 DEF DataAt, Owned, InState, RealmStates
<1>5. \A p \in PA : gran[p].st \in RealmStates => gran[p].rd # rd
  BY DEF CanRealmDestroy, Owned, InState, RealmStates
<1>6. \A u \in umap : u.rd # rd
  BY DEF CanRealmDestroy
<1>7. \A m \in auxmap : m.rd # rd
  BY DEF CanRealmDestroy
<1>8. RmmInv'
  BY <1>0, <1>2, <1>3, <1>4, <1>5, <1>6, <1>7, SMTT(60) DEF RmmInv, RealmStates, Granule, InState
<1> QED
  BY <1>1, <1>8 DEF RmmOK

(* RMI_REC_CREATE.                                                         *)
LEMMA RecCreateStep ==
  ASSUME RmmOK, NEW rd \in PA, NEW rec \in PA, NEW aux \in SUBSET PA,
         CanRecCreate(rd, rec, aux), RecCreate(rd, rec, aux)
  PROVE  RmmOK'
<1> USE DEF RmmOK, CanRecCreate, RecCreate
<1>1. RmmTypeOK'
  BY CountAssumption, SMTT(60) DEF RmmTypeOK, Granule, States, Tree
<1>2. /\ InState("REC")' = InState("REC") \cup {rec}
      /\ \A st \in {"RD", "RTT", "RTT_AUX", "DATA"} : InState(st)' = InState(st)
  BY DEF InState, Granule
<1>3. /\ gran'[rec] = Granule("REC", rd, NoAddr, 0, 0)
      /\ \A st \in RealmStates \cup {"RD"} : \A p \in InState(st) : gran'[p] = gran[p]
  BY DEF InState, RealmStates
<1>4. \A r, a : DataAt(r, a)' = DataAt(r, a)
  BY <1>2, <1>3 DEF DataAt, Owned, InState, RealmStates
<1>5. RmmInv'
  <2>1. /\ RmmInv /\ rd \in InState("RD") /\ umap' = umap /\ auxmap' = auxmap
        /\ \A p \in PA : p = rec \/ gran'[p] = gran[p] \/ gran'[p].st = "REC_AUX"
    BY SMTT(60) DEF Granule
  <2> HIDE DEF RmmOK, CanRecCreate, RecCreate
  <2> QED
    BY <1>2, <1>3, <1>4, <2>1, SMTT(60) DEF RmmInv, RealmStates, Granule
<1> QED
  BY <1>1, <1>5

(* RMI_REC_DESTROY.                                                        *)
LEMMA RecDestroyStep ==
  ASSUME RmmOK, NEW rec \in PA, CanRecDestroy(rec), RecDestroy(rec)
  PROVE  RmmOK'
<1>0. RmmTypeOK /\ RmmInv /\ UNCHANGED <<umap, auxmap>>
  BY DEF RmmOK, RecDestroy
<1>1. RmmTypeOK'
  BY <1>0, CountAssumption, SMTT(60) DEF RecDestroy, Release, Owned, InState, RmmTypeOK, Plain, Granule, States, Tree
<1>2. /\ InState("REC")' = InState("REC") \ {rec}
      /\ \A st \in {"RD", "RTT", "RTT_AUX", "DATA"} : InState(st)' = InState(st)
  BY <1>0 DEF CanRecDestroy, RecDestroy, Release, InState, Owned, Plain, Granule, RmmTypeOK
<1>3. \A st \in RealmStates \cup {"RD"} : \A p \in InState(st) \ {rec} : gran'[p] = gran[p]
  BY <1>0 DEF CanRecDestroy, RecDestroy, Release, InState, Owned, RealmStates
<1>4. \A r, a : DataAt(r, a)' = DataAt(r, a)
  BY <1>2, <1>3, SMTT(60) DEF CanRecDestroy, DataAt, Owned, InState, RealmStates
<1>5. RmmInv'
  BY <1>0, <1>2, <1>3, <1>4, SMTT(60) DEF CanRecDestroy, RmmInv, RealmStates, Granule, InState
<1> QED
  BY <1>1, <1>5 DEF RmmOK

(* RMI_RTT_CREATE and RMI_RTT_AUX_CREATE.                                  *)
LEMMA RttCreateStep ==
  ASSUME RmmOK, NEW rd \in PA, NEW rtt \in PA, NEW ipa \in AnyIpa,
         NEW level \in Level, NEW tree \in Tree,
         CanRttCreate(rd, rtt, ipa, level, tree), RttCreate(rd, rtt, ipa, level, tree)
  PROVE  RmmOK'
<1>0. RmmTypeOK /\ RmmInv /\ UNCHANGED <<umap, auxmap>>
  BY DEF RmmOK, RttCreate
<1> DEFINE st == TableState(tree)
           g == Granule(st, rd, ipa, level, tree)
<1>1. /\ st \in {"RTT", "RTT_AUX"}
      /\ st = "RTT" <=> tree = 0
      /\ gran' = [gran EXCEPT ![rtt] = g]
      /\ gran[rtt].st = "DELEGATED"
      /\ rd \in InState("RD")
  BY DEF RttCreate, CanRttCreate, InState, TableState
<1>2. g.st = st /\ g.rd = rd /\ g.ipa = ipa /\ g.level = level /\ g.tree = tree
  BY DEF Granule
<1>3. RmmTypeOK'
  BY <1>0, <1>1, GeometryAssumption, SMTT(60) DEF RmmTypeOK, Granule, States, Tree, Level
<1>4. /\ \A s \in {"RD", "REC", "DATA"} : InState(s)' = InState(s)
      /\ InState("RTT")' = IF tree = 0 THEN InState("RTT") \cup {rtt} ELSE InState("RTT")
      /\ InState("RTT_AUX")' = IF tree = 0 THEN InState("RTT_AUX")
                               ELSE InState("RTT_AUX") \cup {rtt}
  BY <1>0, <1>1, <1>2 DEF InState, RmmTypeOK
<1>5. gran'[rtt] = g /\ \A p \in PA : p # rtt => gran'[p] = gran[p]
  BY <1>0, <1>1 DEF RmmTypeOK
<1>6. \A r, a : DataAt(r, a)' = DataAt(r, a)
  BY <1>1, <1>4, <1>5, SMTT(60) DEF DataAt, Owned, InState
<1>7. \A p \in InState("RTT") \cup InState("RTT_AUX") : gran[p] # g
  BY <1>2, SMTT(60) DEF CanRttCreate, Table, Owned, InState
<1>8. RmmInv'
  <2>1. \A p \in PA : gran'[p].st \in RealmStates => gran'[p].rd \in InState("RD")'
    BY <1>0, <1>1, <1>2, <1>4, <1>5, SMTT(60) DEF RmmInv
  <2>2. \A p, q \in InState("RTT")' \cup InState("RTT_AUX")' :
          gran'[p] = gran'[q] => p = q
    BY <1>0, <1>4, <1>5, <1>7, SMTT(60) DEF RmmInv, InState
  <2>3. \A p \in PA : gran[p].st \in {"RD", "REC", "DATA"} => p # rtt
    BY <1>1
  <2> QED
    BY <1>0, <1>2, <1>4, <1>5, <1>6, <2>1, <2>2, <2>3, SMTT(60) DEF RmmInv, InState
<1> QED
  BY <1>3, <1>8 DEF RmmOK

(* RMI_RTT_DESTROY, RMI_RTT_FOLD and the auxiliary forms.                  *)
LEMMA RttDestroyStep ==
  ASSUME RmmOK, NEW rd \in PA, NEW ipa \in AnyIpa, NEW level \in Level,
         NEW tree \in Tree, RttDestroy(rd, ipa, level, tree)
  PROVE  RmmOK'
<1>0. RmmTypeOK /\ RmmInv /\ UNCHANGED <<umap, auxmap>>
  BY DEF RmmOK, RttDestroy
<1> DEFINE T == Table(rd, ipa, level, tree)
<1>1. /\ T \subseteq InState("RTT") \cup InState("RTT_AUX")
      /\ gran' = Release(T)
  BY DEF Table, Owned, InState, TableState, RttDestroy
<1>2. RmmTypeOK'
  BY <1>0, <1>1, CountAssumption, SMTT(60) DEF Release, RmmTypeOK, Plain, Granule, States, Tree
<1>3. \A p \in PA : IF p \in T THEN gran'[p].st = "DELEGATED" ELSE gran'[p] = gran[p]
  BY <1>1 DEF Release, Plain, Granule
<1>4. /\ \A s \in {"RD", "REC", "DATA"} : InState(s)' = InState(s)
      /\ \A s \in {"RTT", "RTT_AUX"} : InState(s)' = InState(s) \ T
  BY <1>1, <1>3 DEF InState
<1>5. \A r, a : DataAt(r, a)' = DataAt(r, a)
  BY <1>1, <1>3, <1>4 DEF DataAt, Owned, InState
<1>6. RmmInv'
  BY <1>0, <1>1, <1>3, <1>4, <1>5, SMTT(60) DEF RmmInv, InState, RealmStates
<1> QED
  BY <1>2, <1>6 DEF RmmOK

(* RMI_DATA_CREATE and RMI_DATA_CREATE_UNKNOWN.                            *)
LEMMA DataCreateStep ==
  ASSUME RmmOK, NEW rd \in PA, NEW pa \in PA, NEW ipa \in IPA,
         CanDataCreate(rd, pa, ipa), DataCreate(rd, pa, ipa)
  PROVE  RmmOK'
<1>0. RmmTypeOK /\ RmmInv /\ UNCHANGED <<umap, auxmap>>
  BY DEF RmmOK, DataCreate
<1> DEFINE g == Granule("DATA", rd, ipa, 0, 0)
<1>1. /\ gran' = [gran EXCEPT ![pa] = g]
      /\ gran[pa].st = "DELEGATED"
      /\ rd \in InState("RD")
      /\ DataAt(rd, ipa) = {}
  BY DEF CanDataCreate, DataCreate, InState
<1>2. g.st = "DATA" /\ g.rd = rd /\ g.ipa = ipa
  BY DEF Granule
<1>3. RmmTypeOK'
  BY <1>0, <1>1, CountAssumption, SMTT(60) DEF RmmTypeOK, Granule, States, Tree, AnyIpa
<1>4. gran'[pa] = g /\ \A p \in PA : p # pa => gran'[p] = gran[p]
  BY <1>0, <1>1 DEF RmmTypeOK
<1>5. /\ InState("DATA")' = InState("DATA") \cup {pa}
      /\ \A s \in {"RD", "REC", "RTT", "RTT_AUX"} : InState(s)' = InState(s)
  BY <1>1, <1>2, <1>4 DEF InState
<1>6. \A r, a : DataAt(r, a) # {} => DataAt(r, a)' # {}
  BY <1>1, <1>4, <1>5, SMTT(60) DEF DataAt, Owned, InState
<1>7. \A p \in InState("DATA") : ~(gran[p].rd = rd /\ gran[p].ipa = ipa)
  BY <1>1 DEF DataAt, Owned
<1>8. RmmInv'
  <2>1. \A p \in PA : gran'[p].st \in RealmStates => gran'[p].rd \in InState("RD")'
    BY <1>0, <1>1, <1>2, <1>4, <1>5, SMTT(60) DEF RmmInv
  <2>2. \A p \in PA : gran[p].st \in {"RD", "REC", "DATA", "RTT", "RTT_AUX"} => p # pa
    BY <1>1
  <2>3. \A p, q \in InState("DATA")' :
          gran'[p].rd = gran'[q].rd /\ gran'[p].ipa = gran'[q].ipa => p = q
    BY <1>0, <1>2, <1>4, <1>5, <1>7, SMTT(60) DEF RmmInv, InState
  <2>4. \A p \in InState("DATA")' :
          /\ gran'[p] = Granule("DATA", gran'[p].rd, gran'[p].ipa, 0, 0)
          /\ gran'[p].ipa \in IPA
    BY <1>0, <1>2, <1>4, <1>5, SMTT(60) DEF RmmInv, InState
  <2> QED
    BY <1>0, <1>4, <1>5, <1>6, <2>1, <2>2, <2>3, <2>4, SMTT(60) DEF RmmInv, InState
<1> QED
  BY <1>3, <1>8 DEF RmmOK

(* RMI_DATA_DESTROY.                                                       *)
LEMMA DataDestroyStep ==
  ASSUME RmmOK, NEW rd \in PA, NEW ipa \in IPA,
         CanDataDestroy(rd, ipa), DataDestroy(rd, ipa)
  PROVE  RmmOK'
<1>0. RmmTypeOK /\ RmmInv /\ UNCHANGED <<umap, auxmap>>
  BY DEF RmmOK, DataDestroy
<1> DEFINE D == DataAt(rd, ipa)
<1>1. D \subseteq InState("DATA") /\ gran' = Release(D)
  BY DEF DataAt, Owned, InState, DataDestroy
<1>2. RmmTypeOK'
  BY <1>0, <1>1, CountAssumption, SMTT(60) DEF Release, RmmTypeOK, Plain, Granule, States, Tree
<1>3. \A p \in PA : IF p \in D THEN gran'[p].st = "DELEGATED" ELSE gran'[p] = gran[p]
  BY <1>1 DEF Release, Plain, Granule
<1>4. /\ \A s \in {"RD", "REC", "RTT", "RTT_AUX"} : InState(s)' = InState(s)
      /\ InState("DATA")' = InState("DATA") \ D
  BY <1>1, <1>3 DEF InState
<1>5. \A r, a : ~(r = rd /\ a = ipa) => DataAt(r, a)' = DataAt(r, a)
  BY <1>1, <1>3, <1>4, SMTT(60) DEF DataAt, Owned, InState
<1>6. \A m \in auxmap : ~(m.rd = rd /\ m.ipa = ipa)
  BY <1>0, SMTT(60) DEF CanDataDestroy, AuxTrees, RmmTypeOK
<1>7. RmmInv'
  BY <1>0, <1>1, <1>3, <1>4, <1>5, <1>6, SMTT(60) DEF RmmInv, InState, RealmStates
<1> QED
  BY <1>2, <1>7 DEF RmmOK

(* The mapping commands, which leave the granules alone.                   *)
LEMMA MapSteps ==
  ASSUME RmmOK, NEW rd \in PA, NEW ipa \in UIPA, NEW level \in Level,
         \/ CanMap(rd, ipa, level) /\ Map(rd, ipa, level)
         \/ CanUnmap(rd, ipa, level) /\ Unmap(rd, ipa, level)
  PROVE  RmmOK'
<1>0. RmmTypeOK /\ RmmInv /\ UNCHANGED <<gran, auxmap>>
  BY DEF RmmOK, Map, Unmap
<1>1. /\ \A s : InState(s)' = InState(s)
      /\ \A r, a : DataAt(r, a)' = DataAt(r, a)
  BY <1>0 DEF InState, DataAt, Owned
<1> DEFINE u == [rd |-> rd, ipa |-> ipa, level |-> level]
<1>2. CASE CanMap(rd, ipa, level) /\ Map(rd, ipa, level)
  <2>1. umap' = umap \cup {u} /\ rd \in InState("RD")
    BY <1>2 DEF CanMap, Map
  <2>2. \A v \in umap : ~(v.rd = rd /\ v.ipa = ipa)
    BY <1>2 DEF CanMap
  <2>3. RmmTypeOK'
    BY <1>0, <2>1, SMTT(60) DEF RmmTypeOK
  <2>4. RmmInv'
    BY <1>0, <1>1, <2>1, <2>2, SMTT(60) DEF RmmInv
  <2> QED
    BY <2>3, <2>4 DEF RmmOK
<1>3. CASE CanUnmap(rd, ipa, level) /\ Unmap(rd, ipa, level)
  <2>1. umap' = umap \ {u} /\ u \in umap
    BY <1>3 DEF CanUnmap, Unmap
  <2>2. \A m \in auxmap : ~(m.rd = rd /\ m.ipa = ipa)
    BY <1>0, <1>3, SMTT(60) DEF CanUnmap, AuxTrees, RmmTypeOK
  <2>3. RmmTypeOK'
    BY <1>0, <2>1 DEF RmmTypeOK
  <2>4. RmmInv'
    BY <1>0, <1>1, <2>1, <2>2, SMTT(60) DEF RmmInv
  <2> QED
    BY <2>3, <2>4 DEF RmmOK
<1> QED
  BY <1>2, <1>3

\* Mapping or unmapping a page in an auxiliary tree (RMI_RTT_AUX_MAP_PROTECTED and
\* its unmap) changes no granule and keeps the RMM's invariant.
LEMMA AuxSteps ==
  ASSUME RmmOK, NEW rd \in PA, NEW ipa \in AnyIpa, NEW tree \in Aux,
         \/ CanAuxMap(rd, ipa, tree) /\ AuxMap(rd, ipa, tree)
         \/ CanAuxUnmap(rd, ipa, tree) /\ AuxUnmap(rd, ipa, tree)
  PROVE  RmmOK'
<1>0. RmmTypeOK /\ RmmInv /\ UNCHANGED <<gran, umap>>
  BY DEF RmmOK, AuxMap, AuxUnmap
<1>1. /\ \A s : InState(s)' = InState(s)
      /\ \A r, a : DataAt(r, a)' = DataAt(r, a)
  BY <1>0 DEF InState, DataAt, Owned
<1> DEFINE m == [rd |-> rd, ipa |-> ipa, tree |-> tree]
<1>2. CASE CanAuxMap(rd, ipa, tree) /\ AuxMap(rd, ipa, tree)
  <2>1. auxmap' = auxmap \cup {m} /\ rd \in InState("RD")
    BY <1>2 DEF CanAuxMap, AuxMap
  <2>2. /\ ipa \in IPA => DataAt(rd, ipa) # {}
        /\ ipa \in UIPA => \E u \in umap : u.rd = rd /\ u.ipa = ipa
    BY <1>0, <1>2, AddrAssumption DEF CanAuxMap, RmmTypeOK
  <2>3. RmmTypeOK'
    BY <1>0, <2>1, SMTT(60) DEF RmmTypeOK
  <2>4. RmmInv'
    BY <1>0, <1>1, <2>1, <2>2, SMTT(60) DEF RmmInv
  <2> QED
    BY <2>3, <2>4 DEF RmmOK
<1>3. CASE CanAuxUnmap(rd, ipa, tree) /\ AuxUnmap(rd, ipa, tree)
  <2>1. auxmap' \subseteq auxmap
    BY <1>3 DEF AuxUnmap
  <2>2. RmmTypeOK'
    BY <1>0, <2>1 DEF RmmTypeOK
  <2>3. RmmInv'
    BY <1>0, <1>1, <2>1, SMTT(60) DEF RmmInv
  <2> QED
    BY <2>2, <2>3 DEF RmmOK
<1> QED
  BY <1>2, <1>3
-----------------------------------------------------------------------------
(* What the tracker's own state satisfies besides Mirror.                  *)
TrackInv ==
  /\ memrd[0] = NoAddr
  /\ \A k \in Kind : list[k][0] = {}
  /\ \A i \in Slots : memrd[i] # NoAddr => memrd[i] \in InState("RD")
  /\ \A n \in ns :
       /\ n.aux = {}
       /\ n.state = "DELEGATED" => n.pa \in PA
       /\ n.state = "UNDELEGATED" => n.pa \in UIPA

IInv == TypeOK /\ NoNullNode /\ RmmInv /\ TrackInv /\ Mirror
-----------------------------------------------------------------------------
(* The node of a granule in the NS list.                                   *)
Delegated(p) == [pa |-> p, state |-> "DELEGATED", aux |-> {}]

(* get_curr_realm finds the slot of a realm, and it is the only one.       *)
LEMMA CurrRealm ==
  ASSUME IInv, NEW rd \in InState("RD")
  PROVE  /\ get_curr_realm(rd) \in Slots
         /\ memrd[get_curr_realm(rd)] = rd
         /\ \A i \in Slots : memrd[i] = rd => i = get_curr_realm(rd)
<1>1. rd # NoAddr
  BY AddrAssumption DEF InState
<1>2. PICK i \in Slots : memrd[i] = rd
  BY DEF IInv, Mirror
<1>3. \A j \in Slots : memrd[j] = rd => j = i
  BY <1>1, <1>2 DEF IInv, Mirror
<1>4. \A j \in 1 .. i - 1 : memrd[j] # rd
  BY <1>2, <1>3, NumRealmsAssumption, SMTT(60) DEF Slots
<1> QED
  BY <1>2, <1>3, <1>4 DEF get_curr_realm

(* claim_slot finds a free slot when there is one and rd is not a realm.   *)
LEMMA ClaimSlot ==
  ASSUME IInv, NEW rd \in PA, rd \notin InState("RD"),
         \E i \in Slots : memrd[i] = NoAddr /\ \A j \in 1 .. i - 1 : memrd[j] # NoAddr
  PROVE  claim_slot(rd) \in Slots /\ memrd[claim_slot(rd)] = NoAddr
<1> DEFINE usable(i) == memrd[i] \in {rd, NoAddr}
<1>1. \A i \in Slots : memrd[i] # rd
  BY AddrAssumption DEF IInv, TrackInv
<1>2. PICK x \in Slots : memrd[x] = NoAddr /\ \A j \in 1 .. x - 1 : memrd[j] # NoAddr
  OBVIOUS
<1>3. \A j \in 1 .. x - 1 : j \in Slots
  BY NumRealmsAssumption, SMTT(60) DEF Slots
<1>4. x \in Slots /\ usable(x) /\ \A j \in 1 .. x - 1 : ~usable(j)
  BY <1>1, <1>2, <1>3
<1>5. claim_slot(rd) = CHOOSE i \in Slots : usable(i) /\ \A j \in 1 .. i - 1 : ~usable(j)
  BY <1>4 DEF claim_slot
<1> QED
  BY <1>1, <1>4, <1>5

(* A delegated granule that is in no realm list has its node in NS.        *)
LEMMA FoundInNs ==
  ASSUME IInv, NEW p \in OnlyDelegated
  PROVE  p \in PA /\ find_granule(p) = {Delegated(p)}
<1>1. p \in PA
  BY DEF OnlyDelegated, InState
<1>2. PICK n \in ns : n.state = "DELEGATED" /\ n.pa = p
  BY DEF IInv, Mirror
<1>3. \A m \in ns : m.pa = p => m.state = "DELEGATED" /\ m.aux = {}
  BY <1>1, AddrAssumption DEF IInv, TrackInv, TypeOK, NsNode
<1>4. \A m \in ns : m.pa = p => m = Delegated(p)
  BY <1>3, SMTT(60) DEF IInv, TypeOK, NsNode, Delegated
<1> QED
  BY <1>1, <1>2, <1>4 DEF find_granule

(* How the nodes that the RMM's state calls for change with the granules:  *)
(* not at all, by one granule more, by one granule less.                   *)
LEMMA HeldSame ==
  ASSUME NEW k, NEW r, UNCHANGED <<umap, auxmap>>,
         \A p \in Owned(k, r) \cup Owned(k, r)' : gran'[p] = gran[p]
  PROVE  Held(k, r)' = Held(k, r)
<1>1. Owned(k, r)' = Owned(k, r)
  BY DEF Owned, InState
<1>2. \A p \in Owned(k, r) : gran'[p] = gran[p]
  BY DEF Owned, InState
<1>3. \A a : AuxTrees(r, a)' = AuxTrees(r, a)
  BY DEF AuxTrees
<1>4. \A p \in Owned(k, r) : GranuleNode(k, r, p)' = GranuleNode(k, r, p)
  BY <1>2, <1>3 DEF GranuleNode
<1>5. \A u \in umap : MappingNode(r, u)' = MappingNode(r, u)
  BY <1>3 DEF MappingNode
<1>6. CASE k = "UNPROTECTED"
  BY <1>5, <1>6 DEF Held
<1>7. CASE k # "UNPROTECTED"
  BY <1>1, <1>4, <1>7 DEF Held
<1> QED
  BY <1>6, <1>7

\* A granule that enters state k for realm r adds exactly its own node to what the
\* tracker should hold of that kind for that realm.
LEMMA HeldPlus ==
  ASSUME NEW k \in RealmStates, NEW r, NEW q \in PA, UNCHANGED <<umap, auxmap>>,
         gran[q].st # k, gran'[q].st = k, gran'[q].rd = r,
         \A p \in (Owned(k, r) \cup Owned(k, r)') \ {q} : gran'[p] = gran[p]
  PROVE  Held(k, r)' = Held(k, r) \cup {GranuleNode(k, r, q)'}
<1>1. Owned(k, r)' = Owned(k, r) \cup {q}
  BY SMTT(60) DEF Owned, InState
<1>2. \A p \in Owned(k, r) : gran'[p] = gran[p]
  BY DEF Owned, InState
<1>3. \A a : AuxTrees(r, a)' = AuxTrees(r, a)
  BY DEF AuxTrees
<1>4. \A p \in Owned(k, r) : GranuleNode(k, r, p)' = GranuleNode(k, r, p)
  BY <1>2, <1>3 DEF GranuleNode
<1>5. k # "UNPROTECTED"
  BY DEF RealmStates
<1> QED
  BY <1>1, <1>4, <1>5, SMTT(60) DEF Held

\* A granule that leaves state k of realm r removes exactly its own node from what
\* the tracker should hold of that kind for that realm.
LEMMA HeldMinus ==
  ASSUME NEW k \in RealmStates, NEW r, NEW q \in PA, UNCHANGED <<umap, auxmap>>,
         gran[q].st = k, gran[q].rd = r, gran'[q].st # k,
         \A p \in (Owned(k, r) \cup Owned(k, r)') \ {q} : gran'[p] = gran[p]
  PROVE  Held(k, r)' = Held(k, r) \ {GranuleNode(k, r, q)}
<1>1. Owned(k, r)' = Owned(k, r) \ {q}
  BY SMTT(60) DEF Owned, InState
<1>2. \A p \in Owned(k, r) \ {q} : gran'[p] = gran[p]
  BY DEF Owned, InState
<1>3. \A a : AuxTrees(r, a)' = AuxTrees(r, a)
  BY DEF AuxTrees
<1>4. \A p \in Owned(k, r) \ {q} : GranuleNode(k, r, p)' = GranuleNode(k, r, p)
  BY <1>2, <1>3 DEF GranuleNode
<1>5. k # "UNPROTECTED" /\ \A p : GranuleNode(k, r, p).pa = p
  BY DEF RealmStates, GranuleNode
<1> QED
  BY <1>1, <1>4, <1>5, SMTT(60) DEF Held

(* A granule that was DELEGATED and is now of kind k in realm rd, and its  *)
(* node, which update_granule_state moved.                                 *)
LEMMA Placed ==
  ASSUME IInv, RmmOK', UNCHANGED <<umap, auxmap>>,
         NEW k \in RealmStates, NEW rd \in InState("RD"), NEW q \in InState("DELEGATED"),
         NEW ipa \in AnyIpa \cup {NoAddr}, NEW level \in 0 .. 3, NEW tree \in Tree,
         k = "DATA" => AuxTrees(rd, ipa) = {},
         gran'[q] = Granule(k, rd, ipa, level, tree),
         \A p \in PA \ {q} : \/ gran'[p] = gran[p]
                             \/ gran[p].st \in Outside /\ gran'[p].st \in Outside,
         update_granule_state(rd, k, q, ipa, level, tree)
  PROVE  IInv'
<1> DEFINE i == get_curr_realm(rd)
           n == [pa |-> q, ipa |-> ipa, level |-> level, tree |-> tree, aux |-> {}]
<1>1. /\ i \in Slots /\ memrd[i] = rd
      /\ \A j \in Slots : memrd[j] = rd => j = i
  BY CurrRealm
<1>2. q \in PA /\ q \in OnlyDelegated
  BY DEF OnlyDelegated, InState
<1>3. find_granule(q) = {Delegated(q)}
  BY <1>2, FoundInNs
<1>4. /\ ns' = ns \ {Delegated(q)}
      /\ list' = [list EXCEPT ![k][i] = @ \cup {n}]
      /\ memrd' = memrd /\ fault' = fault
  <2>1. k # "RD" /\ k # "UNPROTECTED" /\ Delegated(q).aux = {}
    BY DEF RealmStates, Delegated
  <2> QED
    BY <1>3, <2>1 DEF update_granule_state
<1>5. k \in Kind /\ n \in Node
  BY <1>2 DEF RealmStates, Kind, Node
<1>6. TypeOK'
  BY <1>1, <1>4, <1>5, NumRealmsAssumption
     DEF IInv, TypeOK, RmmOK, NsNode, Slots, AllSlots
<1>7. InState("RD")' = InState("RD")
  BY SMTT(60) DEF InState, Granule, Outside, RealmStates
<1>8. TrackInv'
  BY <1>1, <1>4, <1>7, NumRealmsAssumption, SMTT(60) DEF IInv, TrackInv, TypeOK, Slots, AllSlots
<1>9. GranuleNode(k, rd, q)' = n
  <2>1. AuxTrees(rd, ipa)' = AuxTrees(rd, ipa)
    BY DEF AuxTrees
  <2>2. gran'[q].ipa = ipa /\ gran'[q].level = level /\ gran'[q].tree = tree
    BY SMTT(60) DEF Granule
  <2> QED
    BY <2>1, <2>2 DEF GranuleNode
<1>10. Held(k, rd)' = Held(k, rd) \cup {n}
  <2>1. gran[q].st # k
    BY DEF InState, RealmStates
  <2>2. gran'[q].st = k /\ gran'[q].rd = rd
    BY SMTT(60) DEF Granule
  <2>3. \A p \in (Owned(k, rd) \cup Owned(k, rd)') \ {q} : gran'[p] = gran[p]
    BY DEF Outside, RealmStates, Owned, InState
  <2>4. Held(k, rd)' = Held(k, rd) \cup {GranuleNode(k, rd, q)'}
    BY <1>2, <2>1, <2>2, <2>3, HeldPlus
  <2> QED
    BY <1>9, <2>4
<1>11. ASSUME NEW kk \in Kind, NEW r, ~(kk = k /\ r = rd)
       PROVE  Held(kk, r)' = Held(kk, r)
  <2>1. \A p \in Owned(kk, r) \cup Owned(kk, r)' : gran'[p] = gran[p]
    BY <1>2, <1>11, SMTT(60) DEF Outside, Granule, Kind, Owned, InState
  <2> QED BY <2>1, HeldSame
<1>12. OnlyDelegated' = OnlyDelegated \ {q}
  BY <1>2, SMTT(60) DEF OnlyDelegated, InState, Outside, Granule, RealmStates
<1>13. {m.pa : m \in {x \in ns' : x.state = "DELEGATED"}} = OnlyDelegated'
  <2>1. {m.pa : m \in {x \in ns : x.state = "DELEGATED"}} = OnlyDelegated
    BY DEF IInv, Mirror
  <2>2. \A m \in ns : m.pa = q <=> m = Delegated(q)
    BY <1>3 DEF find_granule
  <2> QED BY <1>4, <1>12, <2>1, <2>2
<1>14. ASSUME NEW kk \in Kind, NEW j \in Slots
       PROVE  /\ memrd'[j] = NoAddr => list'[kk][j] = {}
              /\ \A r \in PA : memrd'[j] = r => list'[kk][j] = Held(kk, r)'
  <2>1. list'[kk][j] = IF kk = k /\ j = i THEN list[kk][j] \cup {n} ELSE list[kk][j]
    <3>1. /\ list \in [Kind -> [AllSlots -> SUBSET Node]]
          /\ i \in AllSlots /\ j \in AllSlots
      BY <1>1, NumRealmsAssumption, SMTT(60) DEF IInv, TypeOK, Slots, AllSlots
    <3> HIDE DEF i, n
    <3> QED BY <1>4, <1>5, <3>1
  <2>2. /\ memrd[j] = NoAddr => list[kk][j] = {}
        /\ \A r \in PA : memrd[j] = r => list[kk][j] = Held(kk, r)
    BY DEF IInv, Mirror
  <2>3. rd # NoAddr
    BY AddrAssumption DEF InState
  <2> QED BY <1>1, <1>4, <1>10, <1>11, <2>1, <2>2, <2>3
<1>15. Mirror'
  BY <1>4, <1>7, <1>13, <1>14 DEF IInv, Mirror
<1> QED
  BY <1>4, <1>6, <1>8, <1>15 DEF IInv, RmmOK, NoNullNode

(* A granule of kind k in realm rd that is DELEGATED again, and its node,  *)
(* which update_destroy_granule_state moved back to the NS list.           *)
LEMMA Taken ==
  ASSUME IInv, RmmOK', UNCHANGED <<umap, auxmap>>,
         NEW k \in RealmStates, NEW rd \in InState("RD"), NEW q \in Owned(k, rd),
         NEW i \in Slots, memrd[i] = rd,
         k = "DATA" => AuxTrees(rd, gran[q].ipa) = {},
         gran'[q].st = "DELEGATED",
         \A p \in PA \ {q} : \/ gran'[p] = gran[p]
                             \/ gran[p].st \in Outside /\ gran'[p].st \in Outside,
         back_to_ns(k, i, GranuleNode(k, rd, q))
  PROVE  IInv'
<1> DEFINE n == GranuleNode(k, rd, q)
<1>1. /\ q \in PA /\ gran[q].st = k /\ gran[q].rd = rd
      /\ rd \in PA /\ rd # NoAddr
  BY AddrAssumption DEF Owned, InState
<1>2. n.pa = q /\ n.aux = {}
  BY DEF GranuleNode
<1>3. /\ list' = [list EXCEPT ![k][i] = @ \ {n}]
      /\ ns' = ns \cup {Delegated(q)}
      /\ memrd' = memrd /\ fault' = fault
  <2>1. k # "RD" /\ k # "UNPROTECTED"
    BY DEF RealmStates
  <2> QED
    BY <1>2, <2>1 DEF back_to_ns, Delegated
<1> HIDE DEF n
<1>4. /\ k \in Kind
      /\ list \in [Kind -> [AllSlots -> SUBSET Node]]
      /\ i \in AllSlots
  BY NumRealmsAssumption, SMTT(60) DEF RealmStates, Kind, IInv, TypeOK, Slots, AllSlots
<1>5. ASSUME NEW kk \in Kind, NEW j \in AllSlots
      PROVE  list'[kk][j] = IF kk = k /\ j = i THEN list[kk][j] \ {n} ELSE list[kk][j]
  BY <1>3, <1>4
<1>6. list' \in [Kind -> [AllSlots -> SUBSET Node]]
  BY <1>3, <1>4
<1>7. TypeOK'
  <2>1. Delegated(q) \in NsNode
    BY <1>1 DEF Delegated, NsNode
  <2> QED
    BY <1>3, <1>6, <2>1 DEF IInv, TypeOK, RmmOK
<1>8. InState("RD")' = InState("RD")
  BY <1>1 DEF InState, Outside, RealmStates
<1>9. TrackInv'
  <2>1. \A kk \in Kind : list'[kk][0] = {}
    <3>1. 0 \in AllSlots /\ 0 # i
      BY NumRealmsAssumption, SMTT(60) DEF Slots, AllSlots
    <3> QED BY <1>5, <3>1 DEF IInv, TrackInv
  <2>2. \A m \in ns' : /\ m.aux = {}
                       /\ m.state = "DELEGATED" => m.pa \in PA
                       /\ m.state = "UNDELEGATED" => m.pa \in UIPA
    BY <1>1, <1>3, SMTT(60) DEF IInv, TrackInv, Delegated
  <2> QED
    BY <1>3, <1>8, <2>1, <2>2 DEF IInv, TrackInv
<1>10. Held(k, rd)' = Held(k, rd) \ {n}
  <2>1. gran'[q].st # k
    BY DEF RealmStates
  <2>2. \A p \in (Owned(k, rd) \cup Owned(k, rd)') \ {q} : gran'[p] = gran[p]
    BY DEF Outside, RealmStates, Owned, InState
  <2> QED
    BY <1>1, <2>1, <2>2, HeldMinus DEF n
<1>11. ASSUME NEW kk \in Kind, NEW r, ~(kk = k /\ r = rd)
       PROVE  Held(kk, r)' = Held(kk, r)
  <2>1. \A p \in Owned(kk, r) \cup Owned(kk, r)' : gran'[p] = gran[p]
    BY <1>1, <1>11 DEF Outside, Kind, Owned, InState
  <2> QED BY <2>1, HeldSame
<1>12. OnlyDelegated' = OnlyDelegated \cup {q}
  BY <1>1, SMTT(60) DEF OnlyDelegated, InState, Outside, RealmStates
<1>13. {m.pa : m \in {x \in ns' : x.state = "DELEGATED"}} = OnlyDelegated'
  <2>1. {m.pa : m \in {x \in ns : x.state = "DELEGATED"}} = OnlyDelegated
    BY DEF IInv, Mirror
  <2>2. Delegated(q).state = "DELEGATED" /\ Delegated(q).pa = q
    BY DEF Delegated
  <2> QED BY <1>3, <1>12, <2>1, <2>2
<1>14. ASSUME NEW kk \in Kind, NEW j \in Slots
       PROVE  /\ memrd'[j] = NoAddr => list'[kk][j] = {}
              /\ \A r \in PA : memrd'[j] = r => list'[kk][j] = Held(kk, r)'
  <2>1. j \in AllSlots /\ (memrd[j] = rd => j = i)
    BY <1>1, NumRealmsAssumption, SMTT(60) DEF Slots, AllSlots, IInv, Mirror
  <2>2. /\ memrd[j] = NoAddr => list[kk][j] = {}
        /\ \A r \in PA : memrd[j] = r => list[kk][j] = Held(kk, r)
    BY DEF IInv, Mirror
  <2> QED BY <1>1, <1>3, <1>5, <1>10, <1>11, <2>1, <2>2, SMTT(60)
<1>15. Mirror'
  BY <1>3, <1>8, <1>13, <1>14, SMTT(60) DEF IInv, Mirror
<1> QED
  BY <1>3, <1>7, <1>9, <1>15 DEF IInv, RmmOK, NoNullNode

(* A descriptor's granule says it belongs to itself.                       *)
LEMMA RdOfRd ==
  ASSUME RmmInv, NEW p \in InState("RD")
  PROVE  gran[p].rd = p
<1>1. gran[p] = Granule("RD", p, NoAddr, 0, 0)
  BY DEF RmmInv
<1>2. Granule("RD", p, NoAddr, 0, 0).rd = p
  BY DEF Granule
<1> QED BY <1>1, <1>2

(* Steps that only move a granule between UNDELEGATED, DELEGATED and the   *)
(* other states outside the realms, with the NS list following.            *)
LEMMA NsOnly ==
  ASSUME IInv, RmmOK', UNCHANGED <<umap, auxmap, memrd, list, fault>>,
         \A p \in PA : \/ gran'[p] = gran[p]
                       \/ /\ gran[p].st \notin RealmStates \cup {"RD"}
                          /\ gran'[p].st \notin RealmStates \cup {"RD"},
         ns' \subseteq NsNode,
         \A n \in ns' : /\ n.aux = {}
                        /\ n.state = "DELEGATED" => n.pa \in PA
                        /\ n.state = "UNDELEGATED" => n.pa \in UIPA,
         {n.pa : n \in {m \in ns' : m.state = "DELEGATED"}} = OnlyDelegated'
  PROVE  IInv'
<1>1. InState("RD")' = InState("RD")
  BY DEF InState
<1>2. ASSUME NEW k \in Kind, NEW r \in PA
      PROVE  Held(k, r)' = Held(k, r)
  <2>1. CASE k = "UNPROTECTED"
    BY <2>1 DEF Held, MappingNode, AuxTrees
  <2>2. CASE k # "UNPROTECTED"
    <3>1. \A p \in Owned(k, r) \cup Owned(k, r)' : gran'[p] = gran[p]
      BY <2>2 DEF Owned, InState, Kind, RealmStates
    <3> QED BY <3>1, HeldSame
  <2> QED BY <2>1, <2>2
<1>3. Mirror'
  BY <1>1, <1>2, SMTT(60) DEF IInv, Mirror
<1>4. TrackInv'
  BY <1>1 DEF IInv, TrackInv
<1>5. TypeOK'
  BY DEF IInv, TypeOK, RmmOK
<1> QED
  BY <1>3, <1>4, <1>5 DEF IInv, RmmOK, NoNullNode

(* The nodes of a realm's list of kind k, and what a lookup in it returns. *)
LEMMA Lookup ==
  ASSUME IInv, NEW k \in RealmStates, NEW rd \in InState("RD"),
         NEW i \in Slots, memrd[i] = rd
  PROVE  list[k][i] = {GranuleNode(k, rd, p) : p \in Owned(k, rd)}
<1>1. k \in Kind /\ k # "UNPROTECTED" /\ rd \in PA
  BY DEF RealmStates, Kind, InState
<1>2. list[k][i] = Held(k, rd)
  BY <1>1 DEF IInv, Mirror
<1> QED BY <1>1, <1>2 DEF Held

(* Steps on the mappings alone: if the list of kind k of realm rd follows  *)
(* what the RMM holds, and the NS list keeps its delegated nodes, all is   *)
(* as before.                                                              *)
LEMMA MappingsOnly ==
  ASSUME IInv, RmmOK', UNCHANGED <<gran, memrd, fault>>,
         NEW k \in {"DATA", "UNPROTECTED"}, NEW rd \in InState("RD"),
         NEW i \in Slots, memrd[i] = rd,
         NEW L \in SUBSET Node, list' = [list EXCEPT ![k][i] = L],
         L = Held(k, rd)',
         \A kk \in Kind, r \in PA : kk # k \/ r # rd => Held(kk, r)' = Held(kk, r),
         ns' \subseteq NsNode,
         \A n \in ns' : /\ n.aux = {}
                        /\ n.state = "DELEGATED" => n.pa \in PA
                        /\ n.state = "UNDELEGATED" => n.pa \in UIPA,
         \A n : n.state = "DELEGATED" => (n \in ns' <=> n \in ns)
  PROVE  IInv'
<1>1. /\ k \in Kind /\ i \in AllSlots /\ Slots \subseteq AllSlots /\ 0 \in AllSlots
      /\ i # 0 /\ list \in [Kind -> [AllSlots -> SUBSET Node]] /\ rd \in PA
      /\ rd # NoAddr
  BY NumRealmsAssumption, AddrAssumption, SMTT(60)
     DEF Kind, Slots, AllSlots, IInv, TypeOK, InState
<1>2. ASSUME NEW kk \in Kind, NEW j \in AllSlots
      PROVE  list'[kk][j] = IF kk = k /\ j = i THEN L ELSE list[kk][j]
  BY <1>1
<1>3. list' \in [Kind -> [AllSlots -> SUBSET Node]]
  BY <1>1
<1>4. \A st : InState(st)' = InState(st)
  BY DEF InState
<1>5. TypeOK'
  BY <1>3 DEF IInv, TypeOK, RmmOK
<1>6. TrackInv'
  BY <1>1, <1>2, <1>4 DEF IInv, TrackInv
<1>7. ASSUME NEW kk \in Kind, NEW j \in Slots
      PROVE  /\ memrd'[j] = NoAddr => list'[kk][j] = {}
             /\ \A r \in PA : memrd'[j] = r => list'[kk][j] = Held(kk, r)'
  <2>1. /\ memrd[j] = NoAddr => list[kk][j] = {}
        /\ \A r \in PA : memrd[j] = r => list[kk][j] = Held(kk, r)
        /\ memrd[j] = rd => j = i
    BY <1>1 DEF IInv, Mirror
  <2>2. CASE kk = k /\ j = i
    BY <1>1, <1>2, <2>2
  <2>3. CASE ~(kk = k /\ j = i)
    <3>1. list'[kk][j] = list[kk][j]
      BY <1>1, <1>2, <2>3
    <3>2. ASSUME NEW r \in PA, memrd[j] = r PROVE Held(kk, r)' = Held(kk, r)
      BY <2>1, <2>3, <3>2
    <3> QED BY <2>1, <3>1, <3>2
  <2> QED BY <2>2, <2>3
<1>8. {n.pa : n \in {m \in ns' : m.state = "DELEGATED"}} = OnlyDelegated'
  <2>1. {n.pa : n \in {m \in ns : m.state = "DELEGATED"}} = OnlyDelegated
    BY DEF IInv, Mirror
  <2>2. {m \in ns' : m.state = "DELEGATED"} = {m \in ns : m.state = "DELEGATED"}
    OBVIOUS
  <2>3. OnlyDelegated' = OnlyDelegated
    BY <1>4 DEF OnlyDelegated
  <2> QED BY <2>1, <2>2, <2>3
<1>9. Mirror'
  BY <1>4, <1>7, <1>8 DEF IInv, Mirror
<1> QED
  BY <1>5, <1>6, <1>9 DEF IInv, RmmOK, NoNullNode

(* The mappings of an auxiliary tree change at one address of one realm.   *)
LEMMA AuxTreesStep ==
  ASSUME NEW rd, NEW ipa, NEW tree \in Aux
  PROVE  /\ auxmap' = auxmap \cup {[rd |-> rd, ipa |-> ipa, tree |-> tree]} =>
              /\ AuxTrees(rd, ipa)' = AuxTrees(rd, ipa) \cup {tree}
              /\ \A r, a : r # rd \/ a # ipa => AuxTrees(r, a)' = AuxTrees(r, a)
         /\ auxmap' = auxmap \ {[rd |-> rd, ipa |-> ipa, tree |-> tree]} =>
              /\ AuxTrees(rd, ipa)' = AuxTrees(rd, ipa) \ {tree}
              /\ \A r, a : r # rd \/ a # ipa => AuxTrees(r, a)' = AuxTrees(r, a)
BY DEF AuxTrees

(* The node at ipa in the list that update_aux_rtt_info searches: there is *)
(* one, and its flags are the auxiliary trees of ipa.                      *)
LEMMA AuxNode ==
  ASSUME IInv, NEW rd \in InState("RD"), NEW ipa \in AnyIpa,
         ipa \in IPA => DataAt(rd, ipa) # {},
         ipa \in UIPA => \E u \in umap : u.rd = rd /\ u.ipa = ipa
  PROVE  \E n \in Held(AuxKind(ipa), rd) :
            /\ n.ipa = ipa /\ n.aux = AuxTrees(rd, ipa)
            /\ \A m \in Held(AuxKind(ipa), rd) : m.ipa = ipa => m = n
<1>1. CASE ipa \in IPA
  <2>1. AuxKind(ipa) = "DATA" /\ "DATA" # "UNPROTECTED"
    BY <1>1 DEF AuxKind
  <2>2. PICK q \in Owned("DATA", rd) : gran[q].ipa = ipa
    BY <1>1 DEF DataAt
  <2>3. \A p \in Owned("DATA", rd) : gran[p].ipa = ipa => p = q
    BY <2>2 DEF IInv, RmmInv, Owned
  <2>4. Held("DATA", rd) = {GranuleNode("DATA", rd, p) : p \in Owned("DATA", rd)}
    BY <2>1 DEF Held
  <2>5. \A p : /\ GranuleNode("DATA", rd, p).ipa = gran[p].ipa
               /\ GranuleNode("DATA", rd, p).aux = AuxTrees(rd, gran[p].ipa)
    BY DEF GranuleNode
  <2> QED BY <2>1, <2>2, <2>3, <2>4, <2>5, SMTT(60)
<1>2. CASE ipa \in UIPA
  <2>1. AuxKind(ipa) = "UNPROTECTED"
    BY <1>2, AddrAssumption DEF AuxKind
  <2>2. PICK u \in umap : u.rd = rd /\ u.ipa = ipa
    BY <1>2
  <2>3. \A v \in umap : v.rd = rd /\ v.ipa = ipa => v = u
    BY <2>2 DEF IInv, RmmInv
  <2>4. Held("UNPROTECTED", rd) = {MappingNode(rd, v) : v \in {w \in umap : w.rd = rd}}
    BY DEF Held
  <2>5. \A v : MappingNode(rd, v).ipa = v.ipa /\ MappingNode(rd, v).aux = AuxTrees(rd, v.ipa)
    BY DEF MappingNode
  <2> QED BY <2>1, <2>2, <2>3, <2>4, <2>5, SMTT(60)
<1> QED BY <1>1, <1>2 DEF AnyIpa

(* The nodes that the RMM's state calls for, with the flags of one address *)
(* changed.                                                                *)
LEMMA HeldFlag ==
  ASSUME IInv, NEW rd \in PA, NEW ipa \in AnyIpa, NEW t, UNCHANGED <<gran, umap>>,
         AuxTrees(rd, ipa)' = t,
         \A r, a : r # rd \/ a # ipa => AuxTrees(r, a)' = AuxTrees(r, a)
  PROVE  /\ Held(AuxKind(ipa), rd)' =
              {IF m.ipa = ipa THEN [m EXCEPT !.aux = t] ELSE m :
                 m \in Held(AuxKind(ipa), rd)}
         /\ \A kk \in Kind, r \in PA :
              kk # AuxKind(ipa) \/ r # rd => Held(kk, r)' = Held(kk, r)
<1> DEFINE f(m) == IF m.ipa = ipa THEN [m EXCEPT !.aux = t] ELSE m
<1>1. \A p : GranuleNode("DATA", rd, p)' = f(GranuleNode("DATA", rd, p))
  BY DEF GranuleNode
<1>2. \A v : MappingNode(rd, v)' = f(MappingNode(rd, v))
  BY DEF MappingNode
<1>3. \A kk, r : Owned(kk, r)' = Owned(kk, r)
  BY DEF Owned, InState
<1>4. Held(AuxKind(ipa), rd)' = {f(m) : m \in Held(AuxKind(ipa), rd)}
  <2>1. CASE AuxKind(ipa) = "DATA"
    <3>1. /\ Held("DATA", rd) = {GranuleNode("DATA", rd, p) : p \in Owned("DATA", rd)}
          /\ Held("DATA", rd)' = {GranuleNode("DATA", rd, p)' : p \in Owned("DATA", rd)}
      BY <1>3 DEF Held
    <3> HIDE DEF f
    <3>2. Held("DATA", rd)' = {f(m) : m \in Held("DATA", rd)}
      BY <1>1, <3>1
    <3> QED BY <2>1, <3>2 DEF AuxKind
  <2>2. CASE AuxKind(ipa) = "UNPROTECTED"
    <3>1. /\ Held("UNPROTECTED", rd) = {MappingNode(rd, v) : v \in {w \in umap : w.rd = rd}}
          /\ Held("UNPROTECTED", rd)' = {MappingNode(rd, v)' : v \in {w \in umap : w.rd = rd}}
      BY DEF Held
    <3> HIDE DEF f
    <3>2. Held("UNPROTECTED", rd)' = {f(m) : m \in Held("UNPROTECTED", rd)}
      BY <1>2, <3>1
    <3> QED BY <2>2, <3>2 DEF AuxKind
  <2> QED BY <2>1, <2>2 DEF AuxKind
<1>5. ASSUME NEW kk \in Kind, NEW r \in PA, kk # AuxKind(ipa) \/ r # rd
      PROVE  Held(kk, r)' = Held(kk, r)
  <2>1. CASE kk = "UNPROTECTED"
    <3>1. \A v \in umap : v.rd = r => r # rd \/ v.ipa # ipa
      BY <1>5, <2>1, AddrAssumption DEF AuxKind, IInv, TypeOK, RmmTypeOK
    <3>2. \A v \in umap : v.rd = r => MappingNode(r, v)' = MappingNode(r, v)
      BY <3>1 DEF MappingNode
    <3> QED BY <2>1, <3>2 DEF Held
  <2>2. CASE kk = "DATA"
    <3>1. \A p \in Owned("DATA", r) : gran[p].ipa \in IPA
      BY DEF Owned, IInv, RmmInv
    <3>2. \A p \in Owned("DATA", r) : r # rd \/ gran[p].ipa # ipa
      BY <1>5, <2>2, <3>1 DEF AuxKind
    <3>3. \A p \in Owned("DATA", r) : GranuleNode("DATA", r, p)' = GranuleNode("DATA", r, p)
      BY <3>2 DEF GranuleNode
    <3> QED BY <1>3, <2>2, <3>3 DEF Held
  <2>3. CASE kk \notin {"DATA", "UNPROTECTED"}
    <3>1. \A p : GranuleNode(kk, r, p)' = GranuleNode(kk, r, p)
      BY <2>3 DEF GranuleNode
    <3> QED BY <1>3, <2>3, <3>1 DEF Held
  <2> QED BY <2>1, <2>2, <2>3
<1> QED BY <1>4, <1>5
-----------------------------------------------------------------------------
(* Granules that move between the RMM's states.                            *)

(* A new realm: its RD leaves the NS list and claims a free slot, whose    *)
(* lists are empty, as is everything the RMM holds for it.                 *)
LEMMA RealmCreateKeeps ==
  ASSUME IInv, NEW rd \in PA, NEW tables \in SUBSET PA, rmi_realm_create(rd, tables)
  PROVE  IInv'
<1> DEFINE i == claim_slot(rd)
           n == [pa |-> rd, ipa |-> NoAddr, level |-> 0, tree |-> 0, aux |-> {}]
<1>1. /\ rd \in InState("DELEGATED") /\ rd \notin InState("RD")
      /\ tables \subseteq InState("DELEGATED") \ {rd}
      /\ UNCHANGED <<umap, auxmap>>
      /\ rd # NoAddr
  BY AddrAssumption DEF rmi_realm_create, CanRealmCreate, RealmCreate, InState
<1>2. RmmOK'
  BY RealmCreateStep DEF IInv, TypeOK, RmmOK, rmi_realm_create
<1>3. i \in Slots /\ memrd[i] = NoAddr
  BY <1>1, ClaimSlot DEF rmi_realm_create
<1>4. rd \in OnlyDelegated
  BY <1>1 DEF OnlyDelegated
<1>5. find_granule(rd) = {Delegated(rd)}
  BY <1>4, FoundInNs
<1>6. /\ ns' = ns \ {Delegated(rd)}
      /\ list' = [list EXCEPT !["RD"][i] = @ \cup {n}]
      /\ memrd' = [memrd EXCEPT ![i] = rd]
      /\ fault' = fault
  <2>1. i # 0 /\ Delegated(rd).aux = {}
    BY <1>3, NumRealmsAssumption, SMTT(60) DEF Delegated, Slots
  <2> QED
    BY <1>5, <2>1 DEF rmi_realm_create, update_granule_state
<1>7. n \in Node
  BY CountAssumption, SMTT(60) DEF Node, Tree
<1> HIDE DEF i, n
<1>8. /\ list \in [Kind -> [AllSlots -> SUBSET Node]]
      /\ memrd \in [AllSlots -> PA \cup {NoAddr}]
      /\ i \in AllSlots /\ "RD" \in Kind
  BY <1>3, NumRealmsAssumption, SMTT(60) DEF Kind, IInv, TypeOK, Slots, AllSlots
<1>9. ASSUME NEW kk \in Kind, NEW j \in AllSlots
      PROVE  list'[kk][j] = IF kk = "RD" /\ j = i THEN list[kk][j] \cup {n}
                            ELSE list[kk][j]
  BY <1>6, <1>8
<1>10. list' \in [Kind -> [AllSlots -> SUBSET Node]]
  BY <1>6, <1>7, <1>8
<1>11. \A j \in AllSlots : memrd'[j] = IF j = i THEN rd ELSE memrd[j]
  BY <1>6, <1>8
<1>12. TypeOK'
  BY <1>2, <1>6, <1>8, <1>10 DEF IInv, TypeOK, RmmOK
<1>13. InState("RD")' = InState("RD") \cup {rd}
  BY <1>1 DEF rmi_realm_create, RealmCreate, InState, Granule
<1>14. TrackInv'
  <2>1. 0 # i /\ 0 \in AllSlots /\ Slots \subseteq AllSlots
    BY <1>3, NumRealmsAssumption, SMTT(60) DEF Slots, AllSlots
  <2>2. memrd'[0] = NoAddr /\ \A kk \in Kind : list'[kk][0] = {}
    BY <1>9, <1>11, <2>1 DEF IInv, TrackInv
  <2>3. \A j \in Slots : memrd'[j] # NoAddr => memrd'[j] \in InState("RD")'
    BY <1>11, <1>13, <2>1 DEF IInv, TrackInv
  <2> QED
    BY <1>6, <2>2, <2>3 DEF IInv, TrackInv
<1>15. ASSUME NEW kk \in Kind, NEW r \in PA, r # rd
       PROVE  Held(kk, r)' = Held(kk, r)
  <2>1. \A p \in Owned(kk, r) \cup Owned(kk, r)' : gran'[p] = gran[p]
    BY <1>1, <1>15 DEF rmi_realm_create, RealmCreate, Kind, Owned, InState, Granule
  <2> QED BY <1>1, <2>1, HeldSame
<1>16. ASSUME NEW kk \in Kind
       PROVE  Held(kk, rd)' = IF kk = "RD" THEN {n} ELSE {}
  <2>1. /\ \A p \in PA : gran[p].st \in RealmStates \cup {"RD"} => gran[p].rd # rd
        /\ \A u \in umap : u.rd # rd
    <3>1. \A p \in InState("RD") : gran[p].rd = p
      BY RdOfRd DEF IInv
    <3>2. /\ \A p \in PA : gran[p].st \in RealmStates => gran[p].rd \in InState("RD")
          /\ \A u \in umap : u.rd \in InState("RD")
      BY DEF IInv, RmmInv
    <3> QED BY <1>1, <3>1, <3>2 DEF InState
  <2>2. /\ \A s \in RealmStates : Owned(s, rd)' = {}
        /\ Owned("RD", rd)' = {rd}
    BY <1>1, <2>1 DEF rmi_realm_create, RealmCreate, Owned, InState, Granule, RealmStates
  <2>3. GranuleNode("RD", rd, rd)' = n
    BY DEF GranuleNode, n, rmi_realm_create, RealmCreate, Granule
  <2>4. Kind = RealmStates \cup {"RD", "UNPROTECTED"}
    BY DEF Kind, RealmStates
  <2>5. CASE kk = "UNPROTECTED"
    BY <1>1, <2>1, <2>5 DEF Held
  <2>6. CASE kk = "RD"
    BY <2>2, <2>3, <2>6 DEF Held
  <2>7. CASE kk \in RealmStates
    BY <2>2, <2>7 DEF Held, RealmStates
  <2> QED BY <2>4, <2>5, <2>6, <2>7
<1>17. OnlyDelegated' = OnlyDelegated \ {rd}
  BY <1>1, SMTT(60) DEF OnlyDelegated, InState, rmi_realm_create, RealmCreate, Granule
<1>18. {m.pa : m \in {x \in ns' : x.state = "DELEGATED"}} = OnlyDelegated'
  <2>1. {m.pa : m \in {x \in ns : x.state = "DELEGATED"}} = OnlyDelegated
    BY DEF IInv, Mirror
  <2>2. \A m \in ns : m.pa = rd <=> m = Delegated(rd)
    BY <1>5 DEF find_granule
  <2> QED BY <1>6, <1>17, <2>1, <2>2
<1>19. ASSUME NEW kk \in Kind, NEW j \in Slots
       PROVE  /\ memrd'[j] = NoAddr => list'[kk][j] = {}
              /\ \A r \in PA : memrd'[j] = r => list'[kk][j] = Held(kk, r)'
  <2>1. j \in AllSlots /\ memrd[j] # rd
    BY <1>1, NumRealmsAssumption, SMTT(60) DEF Slots, AllSlots, IInv, TrackInv
  <2>2. /\ memrd[j] = NoAddr => list[kk][j] = {}
        /\ \A r \in PA : memrd[j] = r => list[kk][j] = Held(kk, r)
    BY DEF IInv, Mirror
  <2>3. CASE j = i
    BY <1>1, <1>3, <1>9, <1>11, <1>16, <2>1, <2>2, <2>3
  <2>4. CASE j # i
    BY <1>1, <1>9, <1>11, <1>15, <2>1, <2>2, <2>4
  <2> QED BY <2>3, <2>4
<1>20. Mirror'
  <2>1. \A r \in InState("RD")' : \E j \in Slots : memrd'[j] = r
    <3>1. Slots \subseteq AllSlots
      BY NumRealmsAssumption, SMTT(60) DEF Slots, AllSlots
    <3>2. \A r \in InState("RD") : r # NoAddr /\ \E j \in Slots : memrd[j] = r
      BY AddrAssumption DEF IInv, Mirror, InState
    <3> QED BY <1>3, <1>8, <1>11, <1>13, <3>1, <3>2
  <2>2. \A j, jj \in Slots : memrd'[j] = memrd'[jj] /\ j # jj => memrd'[j] = NoAddr
    BY <1>1, <1>11, NumRealmsAssumption, SMTT(60) DEF IInv, Mirror, TrackInv, Slots, AllSlots
  <2>3. \A j \in Slots : memrd'[j] # NoAddr => memrd'[j] \in InState("RD")'
    BY <1>14 DEF TrackInv
  <2> QED
    BY <1>18, <1>19, <2>1, <2>2, <2>3 DEF Mirror
<1> QED
  BY <1>2, <1>6, <1>12, <1>14, <1>20 DEF IInv, RmmOK, NoNullNode

(* A realm is gone: its slot is free and its RD is in the NS list.         *)
LEMMA RealmDestroyKeeps ==
  ASSUME IInv, NEW rd \in PA, rmi_realm_destroy(rd)
  PROVE  IInv'
<1> DEFINE i == get_curr_realm(rd)
           n == GranuleNode("RD", rd, rd)
<1>1. rd \in InState("RD") /\ rd # NoAddr /\ UNCHANGED <<umap, auxmap>>
  BY AddrAssumption DEF rmi_realm_destroy, CanRealmDestroy, RealmDestroy
<1>2. RmmOK'
  BY RealmDestroyStep DEF IInv, TypeOK, RmmOK, rmi_realm_destroy
<1>3. /\ i \in Slots /\ memrd[i] = rd
      /\ \A j \in Slots : memrd[j] = rd => j = i
  BY <1>1, CurrRealm
<1>4. \A p \in InState("RD") : gran[p].rd = p
  BY RdOfRd DEF IInv
<1>5. Owned("RD", rd) = {rd}
  BY <1>1, <1>4 DEF Owned
<1>6. list["RD"][i] = {n}
  <2>1. list["RD"][i] = Held("RD", rd)
    BY <1>3 DEF IInv, Mirror, Kind
  <2> QED BY <1>5, <2>1 DEF Held
<1>7. n.pa = rd /\ n.aux = {}
  BY DEF GranuleNode
<1>8. Matching("RD", i, rd, NoAddr, 0, 0) = {n}
  BY <1>6, <1>7 DEF Matching
<1>9. back_to_ns("RD", i, n)
  BY <1>8 DEF rmi_realm_destroy, update_destroy_granule_state
<1>10. /\ list' = [list EXCEPT !["RD"][i] = @ \ {n}]
       /\ ns' = ns \cup {Delegated(rd)}
       /\ memrd' = [memrd EXCEPT ![i] = NoAddr]
       /\ fault' = fault
  BY <1>7, <1>9 DEF back_to_ns, Delegated
<1> HIDE DEF i, n
<1>11. /\ list \in [Kind -> [AllSlots -> SUBSET Node]]
       /\ memrd \in [AllSlots -> PA \cup {NoAddr}]
       /\ i \in AllSlots /\ "RD" \in Kind /\ Slots \subseteq AllSlots
       /\ 0 \in AllSlots /\ 0 # i
  BY <1>3, NumRealmsAssumption, SMTT(60) DEF Kind, IInv, TypeOK, Slots, AllSlots
<1>12. ASSUME NEW kk \in Kind, NEW j \in AllSlots
       PROVE  list'[kk][j] = IF kk = "RD" /\ j = i THEN {} ELSE list[kk][j]
  BY <1>6, <1>10, <1>11
<1>13. list' \in [Kind -> [AllSlots -> SUBSET Node]]
  BY <1>10, <1>11
<1>14. \A j \in AllSlots : memrd'[j] = IF j = i THEN NoAddr ELSE memrd[j]
  BY <1>10, <1>11
<1>15. TypeOK'
  <2>1. Delegated(rd) \in NsNode
    BY DEF Delegated, NsNode
  <2> QED
    BY <1>2, <1>10, <1>11, <1>13, <2>1 DEF IInv, TypeOK, RmmOK
<1>16. InState("RD")' = InState("RD") \ {rd}
  BY <1>1 DEF rmi_realm_destroy, RealmDestroy, Release, Owned, InState, Plain, Granule
<1>17. TrackInv'
  <2>1. memrd'[0] = NoAddr /\ \A kk \in Kind : list'[kk][0] = {}
    BY <1>11, <1>12, <1>14 DEF IInv, TrackInv
  <2>2. \A j \in Slots : memrd'[j] # NoAddr => memrd'[j] \in InState("RD")'
    BY <1>3, <1>11, <1>14, <1>16 DEF IInv, TrackInv
  <2>3. \A m \in ns' : /\ m.aux = {}
                       /\ m.state = "DELEGATED" => m.pa \in PA
                       /\ m.state = "UNDELEGATED" => m.pa \in UIPA
    BY <1>10, SMTT(60) DEF IInv, TrackInv, Delegated
  <2> QED
    BY <2>1, <2>2, <2>3 DEF TrackInv
<1>18. ASSUME NEW kk \in Kind, NEW r \in PA, r # rd
       PROVE  Held(kk, r)' = Held(kk, r)
  <2>1. \A p \in Owned(kk, r) \cup Owned(kk, r)' : gran'[p] = gran[p]
    BY <1>1, <1>4, <1>18
       DEF rmi_realm_destroy, RealmDestroy, Release, Kind, Owned, InState, Plain, Granule
  <2> QED BY <1>1, <2>1, HeldSame
<1>19. ASSUME NEW kk \in Kind, kk # "RD"
       PROVE  list[kk][i] = {}
  <2>1. list[kk][i] = Held(kk, rd)
    BY <1>3 DEF IInv, Mirror
  <2>2. kk = "UNPROTECTED" \/ Owned(kk, rd) = {}
    BY <1>19 DEF rmi_realm_destroy, CanRealmDestroy, Kind
  <2>3. \A u \in umap : u.rd # rd
    BY DEF rmi_realm_destroy, CanRealmDestroy
  <2> QED BY <2>1, <2>2, <2>3 DEF Held
<1>20. OnlyDelegated' = OnlyDelegated \cup {rd}
  BY <1>1, SMTT(60) DEF OnlyDelegated, InState, rmi_realm_destroy, RealmDestroy, Release,
              Owned, Plain, Granule
<1>21. {m.pa : m \in {x \in ns' : x.state = "DELEGATED"}} = OnlyDelegated'
  <2>1. {m.pa : m \in {x \in ns : x.state = "DELEGATED"}} = OnlyDelegated
    BY DEF IInv, Mirror
  <2>2. Delegated(rd).state = "DELEGATED" /\ Delegated(rd).pa = rd
    BY DEF Delegated
  <2> QED BY <1>10, <1>20, <2>1, <2>2
<1>22. ASSUME NEW kk \in Kind, NEW j \in Slots
       PROVE  /\ memrd'[j] = NoAddr => list'[kk][j] = {}
              /\ \A r \in PA : memrd'[j] = r => list'[kk][j] = Held(kk, r)'
  <2>1. /\ memrd[j] = NoAddr => list[kk][j] = {}
        /\ \A r \in PA : memrd[j] = r => list[kk][j] = Held(kk, r)
    BY DEF IInv, Mirror
  <2>2. CASE j = i
    <3>1. memrd'[j] = NoAddr
      BY <1>11, <1>14, <2>2
    <3>2. list'[kk][j] = {}
      BY <1>11, <1>12, <1>19, <2>2
    <3> QED BY <3>1, <3>2, AddrAssumption
  <2>3. CASE j # i
    BY <1>3, <1>11, <1>12, <1>14, <1>18, <2>1, <2>3
  <2> QED BY <2>2, <2>3
<1>23. Mirror'
  <2>1. \A r \in InState("RD")' : \E j \in Slots : memrd'[j] = r
    <3>1. \A r \in InState("RD") : \E j \in Slots : memrd[j] = r
      BY DEF IInv, Mirror
    <3> QED BY <1>3, <1>11, <1>14, <1>16, <3>1
  <2>2. \A j, jj \in Slots : memrd'[j] = memrd'[jj] /\ j # jj => memrd'[j] = NoAddr
    BY <1>11, <1>14 DEF IInv, Mirror
  <2>3. \A j \in Slots : memrd'[j] # NoAddr => memrd'[j] \in InState("RD")'
    BY <1>17 DEF TrackInv
  <2> QED
    BY <1>21, <1>22, <2>1, <2>2, <2>3 DEF Mirror
<1> QED
  BY <1>2, <1>10, <1>15, <1>17, <1>23 DEF IInv, RmmOK, NoNullNode

(* val_host_rmi_granule_delegate, _undelegate and the device commands.     *)
LEMMA PlainKeeps ==
  ASSUME IInv, NEW pa \in PA,
         \/ rmi_granule_delegate(pa)
         \/ rmi_granule_undelegate(pa)
         \/ rmi_dev_create(pa)
         \/ rmi_dev_destroy(pa)
  PROVE  IInv'
<1>1. RmmOK'
  BY PlainSteps DEF IInv, TypeOK, RmmOK, rmi_granule_delegate,
     rmi_granule_undelegate, rmi_dev_create, rmi_dev_destroy
<1>2. UNCHANGED <<umap, auxmap, memrd, list, fault>>
  BY DEF rmi_granule_delegate, rmi_granule_undelegate, rmi_dev_create, rmi_dev_destroy,
     Delegate, Undelegate, DevCreate, DevDestroy, add_granule, forget_granule, track
<1>3. PICK st \in {"DELEGATED", "UNDELEGATED", "DEV"} :
        /\ gran' = [gran EXCEPT ![pa] = Plain(st)]
        /\ gran[pa].st \in {"DELEGATED", "UNDELEGATED", "DEV"}
        /\ st = "UNDELEGATED" => rmi_granule_undelegate(pa)
        /\ st # "UNDELEGATED" =>
             \/ rmi_granule_delegate(pa)
             \/ ns' = ns /\ gran[pa].st # "UNDELEGATED"
  <2>1. CASE rmi_granule_delegate(pa)
    <3>1. gran' = [gran EXCEPT ![pa] = Plain("DELEGATED")] /\ gran[pa].st = "UNDELEGATED"
      BY <2>1 DEF rmi_granule_delegate, CanDelegate, Delegate
    <3> QED BY <2>1, <3>1
  <2>2. CASE rmi_granule_undelegate(pa)
    BY <2>2 DEF rmi_granule_undelegate, CanUndelegate, Undelegate
  <2>3. CASE rmi_dev_create(pa)
    BY <2>3 DEF rmi_dev_create, CanDevCreate, DevCreate, track
  <2>4. CASE rmi_dev_destroy(pa)
    <3>1. gran' = [gran EXCEPT ![pa] = Plain("DELEGATED")]
      BY <2>4 DEF rmi_dev_destroy, DevDestroy, Release, IInv, TypeOK, RmmTypeOK
    <3> QED
      BY <2>4, <3>1 DEF rmi_dev_destroy, CanDevDestroy, track
  <2> QED BY <2>1, <2>2, <2>3, <2>4
<1>4. /\ gran'[pa].st = st
      /\ \A p \in PA : p # pa => gran'[p] = gran[p]
  BY <1>3 DEF IInv, TypeOK, RmmTypeOK, Plain, Granule
<1>5. \A p \in PA : \/ gran'[p] = gran[p]
                    \/ /\ gran[p].st \notin RealmStates \cup {"RD"}
                       /\ gran'[p].st \notin RealmStates \cup {"RD"}
  BY <1>3, <1>4 DEF RealmStates
<1>6. OnlyDelegated' = IF st = "UNDELEGATED" THEN OnlyDelegated \ {pa}
                       ELSE OnlyDelegated \cup {pa}
  BY <1>3, <1>4, SMTT(60) DEF OnlyDelegated, InState
<1>7. {n.pa : n \in {m \in ns : m.state = "DELEGATED"}} = OnlyDelegated
  BY DEF IInv, Mirror
<1>8. Delegated(pa).pa = pa /\ Delegated(pa).state = "DELEGATED"
      /\ Delegated(pa).aux = {} /\ Delegated(pa) \in NsNode
  BY DEF Delegated, NsNode
<1>9. CASE st = "UNDELEGATED"
  <2>1. pa \in OnlyDelegated
    BY <1>3, <1>9 DEF rmi_granule_undelegate, CanUndelegate, OnlyDelegated, InState
  <2>2. ns' = ns \ {Delegated(pa)}
    BY <1>3, <1>9, <2>1, FoundInNs DEF rmi_granule_undelegate, forget_granule
  <2>3. \A n \in ns : n.pa = pa => n = Delegated(pa)
    BY <2>1, FoundInNs DEF find_granule
  <2>4. {n.pa : n \in {m \in ns' : m.state = "DELEGATED"}} = OnlyDelegated'
    BY <1>6, <1>7, <1>8, <1>9, <2>2, <2>3
  <2> QED
    BY <1>1, <1>2, <1>5, <2>2, <2>4, NsOnly DEF IInv, TypeOK, TrackInv
<1>10. CASE st # "UNDELEGATED" /\ rmi_granule_delegate(pa)
  <2>1. ns' = ns \cup {Delegated(pa)}
    BY <1>10 DEF rmi_granule_delegate, add_granule, Delegated
  <2>2. {n.pa : n \in {m \in ns' : m.state = "DELEGATED"}} = OnlyDelegated'
    BY <1>6, <1>7, <1>8, <1>10, <2>1
  <2> QED
    BY <1>1, <1>2, <1>5, <1>8, <2>1, <2>2, NsOnly DEF IInv, TypeOK, TrackInv
<1>11. CASE st # "UNDELEGATED" /\ ns' = ns /\ gran[pa].st # "UNDELEGATED"
  <2>1. pa \in OnlyDelegated
    BY <1>3, <1>11, SMTT(60) DEF OnlyDelegated, InState
  <2>2. {n.pa : n \in {m \in ns' : m.state = "DELEGATED"}} = OnlyDelegated'
    BY <1>6, <1>7, <1>11, <2>1
  <2> QED
    BY <1>1, <1>2, <1>5, <1>11, <2>2, NsOnly DEF IInv, TypeOK, TrackInv
<1> QED
  BY <1>3, <1>9, <1>10, <1>11

(* val_host_rmi_rec_create.                                                *)
LEMMA RecCreateKeeps ==
  ASSUME IInv, NEW rd \in PA, NEW rec \in PA, NEW aux \in SUBSET PA,
         rmi_rec_create(rd, rec, aux)
  PROVE  IInv'
<1>1. RmmOK'
  BY RecCreateStep DEF IInv, TypeOK, RmmOK, rmi_rec_create
<1>2. UNCHANGED <<umap, auxmap>> /\ rd \in InState("RD") /\ rec \in InState("DELEGATED")
  BY DEF rmi_rec_create, RecCreate, CanRecCreate
<1>3. gran'[rec] = Granule("REC", rd, NoAddr, 0, 0)
  BY DEF rmi_rec_create, RecCreate
<1>4. \A p \in PA \ {rec} : \/ gran'[p] = gran[p]
                            \/ gran[p].st \in Outside /\ gran'[p].st \in Outside
  BY DEF rmi_rec_create, RecCreate, CanRecCreate, InState, Outside, Granule
<1>5. update_granule_state(rd, "REC", rec, NoAddr, 0, 0)
  BY DEF rmi_rec_create
<1>6. "REC" \in RealmStates /\ 0 \in 0 .. 3 /\ 0 \in Tree /\ "REC" # "DATA"
  BY CountAssumption, SMTT(60) DEF RealmStates, Tree
<1> QED
  BY <1>1, <1>2, <1>3, <1>4, <1>5, <1>6, Placed

(* val_host_rmi_rtt_create and val_host_rmi_rtt_aux_create.                *)
LEMMA RttCreateKeeps ==
  ASSUME IInv, NEW rd \in PA, NEW rtt \in PA, NEW ipa \in AnyIpa,
         NEW level \in Level, NEW tree \in Tree,
         rmi_rtt_create(rd, rtt, ipa, level, tree)
  PROVE  IInv'
<1> DEFINE k == TableState(tree)
<1>1. RmmOK'
  BY RttCreateStep DEF IInv, TypeOK, RmmOK, rmi_rtt_create
<1>2. UNCHANGED <<umap, auxmap>> /\ rd \in InState("RD") /\ rtt \in InState("DELEGATED")
  BY DEF rmi_rtt_create, RttCreate, CanRttCreate
<1>3. /\ gran'[rtt] = Granule(k, rd, ipa, level, tree)
      /\ \A p \in PA \ {rtt} : gran'[p] = gran[p]
  BY DEF rmi_rtt_create, RttCreate, IInv, TypeOK, RmmTypeOK
<1>4. update_granule_state(rd, k, rtt, ipa, level, tree)
  BY DEF rmi_rtt_create
<1>5. k \in RealmStates /\ k # "DATA" /\ level \in 0 .. 3
  BY GeometryAssumption, SMTT(60) DEF RealmStates, TableState, Level
<1> HIDE DEF k
<1> QED
  BY <1>1, <1>2, <1>3, <1>4, <1>5, Placed

(* val_host_rmi_data_create and val_host_rmi_data_create_unknown.          *)
LEMMA DataCreateKeeps ==
  ASSUME IInv, NEW rd \in PA, NEW pa \in PA, NEW ipa \in IPA,
         rmi_data_create(rd, pa, ipa)
  PROVE  IInv'
<1>1. RmmOK'
  BY DataCreateStep DEF IInv, TypeOK, RmmOK, rmi_data_create
<1>2. /\ UNCHANGED <<umap, auxmap>> /\ rd \in InState("RD") /\ pa \in InState("DELEGATED")
      /\ DataAt(rd, ipa) = {}
  BY DEF rmi_data_create, DataCreate, CanDataCreate
<1>3. /\ gran'[pa] = Granule("DATA", rd, ipa, 0, 0)
      /\ \A p \in PA \ {pa} : gran'[p] = gran[p]
  BY DEF rmi_data_create, DataCreate, IInv, TypeOK, RmmTypeOK
<1>4. update_granule_state(rd, "DATA", pa, ipa, 0, 0)
  BY DEF rmi_data_create
<1>5. AuxTrees(rd, ipa) = {}
  <2>1. \A m \in auxmap : m.ipa \in IPA => DataAt(m.rd, m.ipa) # {}
    BY DEF IInv, RmmInv
  <2>2. \A m \in auxmap : ~(m.rd = rd /\ m.ipa = ipa)
    BY <1>2, <2>1
  <2> QED BY <2>2 DEF AuxTrees
<1>6. "DATA" \in RealmStates /\ 0 \in 0 .. 3 /\ 0 \in Tree /\ ipa \in AnyIpa
  BY CountAssumption, SMTT(60) DEF RealmStates, Tree, AnyIpa
<1> QED
  BY <1>1, <1>2, <1>3, <1>4, <1>5, <1>6, Placed

(* val_host_rmi_rec_destroy: the REC is found in the slot of its realm.    *)
LEMMA RecDestroyKeeps ==
  ASSUME IInv, NEW rec \in PA, rmi_rec_destroy(rec)
  PROVE  IInv'
<1> DEFINE rd == gran[rec].rd
           found(i) == Matching("REC", i, rec, NoAddr, 0, 0)
           n == GranuleNode("REC", rd, rec)
<1>1. RmmOK'
  BY RecDestroyStep DEF IInv, TypeOK, RmmOK, rmi_rec_destroy
<1>2. /\ UNCHANGED <<umap, auxmap>>
      /\ rec \in InState("REC")
      /\ "REC" \in RealmStates
  BY DEF rmi_rec_destroy, RecDestroy, CanRecDestroy, RealmStates
<1>3. rd \in InState("RD") /\ rec \in Owned("REC", rd)
  BY <1>2 DEF IInv, RmmInv, Owned, InState
<1>4. \A j \in Slots : found(j) = {x \in list["REC"][j] : x.pa = rec}
  BY DEF Matching
<1>5. \A r, p : GranuleNode("REC", r, p).pa = p
  BY DEF GranuleNode
<1>6. ASSUME NEW j \in Slots, memrd[j] = rd
      PROVE  found(j) = {n}
  <2>1. list["REC"][j] = {GranuleNode("REC", rd, p) : p \in Owned("REC", rd)}
    BY <1>2, <1>3, <1>6, Lookup
  <2> QED BY <1>3, <1>4, <1>5, <2>1, SMTT(60)
<1>7. ASSUME NEW j \in Slots, memrd[j] # rd
      PROVE  found(j) = {}
  <2>1. CASE memrd[j] = NoAddr
    <3>1. list["REC"][j] = {}
      BY <2>1 DEF IInv, Mirror, Kind
    <3> QED BY <1>4, <3>1
  <2>2. CASE memrd[j] # NoAddr
    <3>1. memrd[j] \in InState("RD")
      BY <2>2 DEF IInv, TrackInv
    <3>2. list["REC"][j] = {GranuleNode("REC", memrd[j], p) : p \in Owned("REC", memrd[j])}
      BY <1>2, <3>1, Lookup
    <3>3. rec \notin Owned("REC", memrd[j])
      BY <1>7 DEF Owned
    <3> QED BY <1>4, <1>5, <3>2, <3>3, SMTT(60)
  <2> QED BY <2>1, <2>2
<1>8. PICK i \in Slots : memrd[i] = rd
  BY <1>3, CurrRealm
<1>9. \E j \in Slots : \E x \in found(j) : back_to_ns("REC", j, x)
  <2>1. found(i) # {}
    BY <1>6, <1>8
  <2>2. update_destroy_granule_state(NoAddr, "REC", rec, NoAddr, 0, 0)
    BY DEF rmi_rec_destroy
  <2> QED BY <2>1, <2>2 DEF update_destroy_granule_state
<1>10. PICK j \in Slots : memrd[j] = rd /\ back_to_ns("REC", j, n)
  BY <1>6, <1>7, <1>9, SMTT(60)
<1>11. gran'[rec].st = "DELEGATED"
  BY DEF rmi_rec_destroy, RecDestroy, Release, Plain, Granule
<1>12. \A p \in PA \ {rec} : \/ gran'[p] = gran[p]
                             \/ gran[p].st \in Outside /\ gran'[p].st \in Outside
  BY DEF rmi_rec_destroy, RecDestroy, Release, Owned, InState, Outside, Plain, Granule
<1> HIDE DEF rd
<1> QED
  BY <1>1, <1>2, <1>3, <1>10, <1>11, <1>12, Taken

(* val_host_rmi_rtt_destroy, _fold and the auxiliary forms.                *)
LEMMA RttDestroyKeeps ==
  ASSUME IInv, NEW rd \in PA, NEW ipa \in AnyIpa, NEW level \in Level, NEW tree \in Tree,
         rmi_rtt_destroy(rd, ipa, level, tree)
  PROVE  IInv'
<1> DEFINE k == TableState(tree)
           i == get_curr_realm(rd)
<1>1. RmmOK'
  BY RttDestroyStep DEF IInv, TypeOK, RmmOK, rmi_rtt_destroy
<1>2. /\ UNCHANGED <<umap, auxmap>> /\ rd \in InState("RD")
      /\ Table(rd, ipa, level, tree) # {}
      /\ gran' = Release(Table(rd, ipa, level, tree))
  BY DEF rmi_rtt_destroy, RttDestroy, CanRttDestroy
<1>3. /\ k \in {"RTT", "RTT_AUX"} /\ k \in RealmStates /\ k # "DATA"
      /\ k = "RTT" <=> tree = 0
  BY DEF TableState, RealmStates
<1>4. PICK q \in Table(rd, ipa, level, tree) : TRUE
  BY <1>2
<1>5. /\ q \in Owned(k, rd) /\ q \in PA
      /\ gran[q].ipa = ipa /\ gran[q].level = level /\ gran[q].tree = tree
  BY <1>4 DEF Table, Owned, InState
<1>6. \A p \in Owned(k, rd) : gran[p].ipa = ipa /\ gran[p].level = level
                              /\ gran[p].tree = tree => p = q
  <2>1. ASSUME NEW p \in Owned(k, rd), gran[p].ipa = ipa, gran[p].level = level,
               gran[p].tree = tree
        PROVE  p = q
    <3>1. /\ p \in PA /\ gran[p].st = k /\ gran[p].rd = rd
          /\ gran[q].st = k /\ gran[q].rd = rd
      BY <1>5 DEF Owned, InState
    <3>2. gran[p] = gran[q]
      BY <1>5, <2>1, <3>1, SMTT(60) DEF IInv, TypeOK, RmmTypeOK
    <3> QED BY <1>3, <1>5, <3>1, <3>2, SMTT(60) DEF IInv, RmmInv, InState
  <2> QED BY <2>1
<1>7. Table(rd, ipa, level, tree) = {q}
  BY <1>4, <1>6 DEF Table
<1>8. i \in Slots /\ memrd[i] = rd
  BY <1>2, CurrRealm
<1>9. list[k][i] = {GranuleNode(k, rd, p) : p \in Owned(k, rd)}
  BY <1>2, <1>3, <1>8, Lookup
<1>10. \A p : /\ GranuleNode(k, rd, p).ipa = gran[p].ipa
              /\ GranuleNode(k, rd, p).level = gran[p].level
              /\ GranuleNode(k, rd, p).tree = gran[p].tree
  BY DEF GranuleNode
<1>11. \A p \in Owned(k, rd) : k = "RTT" => gran[p].tree = tree
  BY <1>3 DEF Owned, IInv, RmmInv
<1>12. Matching(k, i, NoAddr, ipa, level, tree) = {GranuleNode(k, rd, q)}
  <2>1. CASE k = "RTT"
    <3>1. Matching(k, i, NoAddr, ipa, level, tree)
            = {x \in list[k][i] : x.ipa = ipa /\ x.level = level}
      BY <2>1 DEF Matching
    <3> HIDE DEF k, i
    <3> QED BY <1>5, <1>6, <1>9, <1>10, <1>11, <2>1, <3>1, SMTT(60)
  <2>2. CASE k = "RTT_AUX"
    <3>1. Matching(k, i, NoAddr, ipa, level, tree)
            = {x \in list[k][i] : x.ipa = ipa /\ x.level = level /\ x.tree = tree}
      BY <2>2 DEF Matching
    <3> HIDE DEF k, i
    <3> QED BY <1>5, <1>6, <1>9, <1>10, <2>2, <3>1, SMTT(60)
  <2> QED BY <1>3, <2>1, <2>2
<1>13. back_to_ns(k, i, GranuleNode(k, rd, q))
  <2>1. update_destroy_granule_state(rd, k, NoAddr, ipa, level, tree) /\ k # "REC"
    BY <1>3 DEF rmi_rtt_destroy
  <2> HIDE DEF k
  <2> QED BY <1>12, <2>1 DEF update_destroy_granule_state
<1>14. /\ gran'[q].st = "DELEGATED"
       /\ \A p \in PA \ {q} : gran'[p] = gran[p]
  BY <1>2, <1>5, <1>7 DEF Release, Plain, Granule
<1> HIDE DEF k, i
<1> QED
  BY <1>1, <1>2, <1>3, <1>5, <1>8, <1>13, <1>14, Taken

(* val_host_rmi_data_destroy.                                              *)
LEMMA DataDestroyKeeps ==
  ASSUME IInv, NEW rd \in PA, NEW ipa \in IPA, rmi_data_destroy(rd, ipa)
  PROVE  IInv'
<1> DEFINE i == get_curr_realm(rd)
<1>1. RmmOK'
  BY DataDestroyStep DEF IInv, TypeOK, RmmOK, rmi_data_destroy
<1>2. /\ UNCHANGED <<umap, auxmap>> /\ rd \in InState("RD")
      /\ DataAt(rd, ipa) # {} /\ AuxTrees(rd, ipa) = {}
      /\ gran' = Release(DataAt(rd, ipa))
      /\ "DATA" \in RealmStates
  BY DEF rmi_data_destroy, DataDestroy, CanDataDestroy, RealmStates
<1>3. PICK q \in DataAt(rd, ipa) : TRUE
  BY <1>2
<1>4. q \in Owned("DATA", rd) /\ q \in PA /\ gran[q].ipa = ipa
  BY <1>3 DEF DataAt, Owned, InState
<1>5. \A p \in Owned("DATA", rd) : gran[p].ipa = ipa => p = q
  BY <1>4 DEF IInv, RmmInv, Owned
<1>6. DataAt(rd, ipa) = {q}
  BY <1>3, <1>5 DEF DataAt
<1>7. i \in Slots /\ memrd[i] = rd
  BY <1>2, CurrRealm
<1>8. list["DATA"][i] = {GranuleNode("DATA", rd, p) : p \in Owned("DATA", rd)}
  BY <1>2, <1>7, Lookup
<1>9. \A p : GranuleNode("DATA", rd, p).ipa = gran[p].ipa
  BY DEF GranuleNode
<1>10. Matching("DATA", i, NoAddr, ipa, 0, 0) = {GranuleNode("DATA", rd, q)}
  <2>1. Matching("DATA", i, NoAddr, ipa, 0, 0) = {x \in list["DATA"][i] : x.ipa = ipa}
    BY DEF Matching
  <2> HIDE DEF i
  <2> QED BY <1>4, <1>5, <1>8, <1>9, <2>1
<1>11. back_to_ns("DATA", i, GranuleNode("DATA", rd, q))
  <2>1. update_destroy_granule_state(rd, "DATA", NoAddr, ipa, 0, 0)
    BY DEF rmi_data_destroy
  <2> QED BY <1>10, <2>1 DEF update_destroy_granule_state
<1>12. /\ gran'[q].st = "DELEGATED"
       /\ \A p \in PA \ {q} : gran'[p] = gran[p]
  BY <1>2, <1>4, <1>6 DEF Release, Plain, Granule
<1> HIDE DEF i
<1> QED
  BY <1>1, <1>2, <1>4, <1>7, <1>11, <1>12, Taken
-----------------------------------------------------------------------------
(* Mappings, and the theorems.                                             *)

(* val_host_rmi_rtt_map_unprotected.                                       *)
LEMMA MapKeeps ==
  ASSUME IInv, NEW rd \in PA, NEW ipa \in UIPA, NEW level \in Level,
         rmi_rtt_map_unprotected(rd, ipa, level)
  PROVE  IInv'
<1> DEFINE i == get_curr_realm(rd)
           u == [rd |-> rd, ipa |-> ipa, level |-> level]
           n == [pa |-> ipa, ipa |-> ipa, level |-> level, tree |-> 0, aux |-> {}]
           L == list["UNPROTECTED"][i] \cup {n}
<1>1. RmmOK'
  BY MapSteps DEF IInv, TypeOK, RmmOK, rmi_rtt_map_unprotected
<1>2. /\ UNCHANGED <<gran, auxmap>> /\ rd \in InState("RD")
      /\ umap' = umap \cup {u}
      /\ \A v \in umap : ~(v.rd = rd /\ v.ipa = ipa)
  BY DEF rmi_rtt_map_unprotected, Map, CanMap
<1>3. i \in Slots /\ memrd[i] = rd
  BY <1>2, CurrRealm
<1>4. AuxTrees(rd, ipa) = {}
  <2>1. \A m \in auxmap : m.ipa \in UIPA => \E v \in umap : v.rd = m.rd /\ v.ipa = m.ipa
    BY DEF IInv, RmmInv
  <2>2. \A m \in auxmap : ~(m.rd = rd /\ m.ipa = ipa)
    BY <1>2, <2>1
  <2> QED BY <2>2 DEF AuxTrees
<1>5. \A x \in find_granule(ipa) : x.aux = {} /\ x.state = "UNDELEGATED"
  BY AddrAssumption DEF find_granule, IInv, TypeOK, NsNode, TrackInv
<1>6. update_granule_state(rd, "UNPROTECTED", ipa, ipa, level, 0)
  BY DEF rmi_rtt_map_unprotected
<1>7. /\ list' = [list EXCEPT !["UNPROTECTED"][i] = L]
      /\ UNCHANGED <<memrd, fault>>
      /\ ns' = ns \/ \E x \in find_granule(ipa) : ns' = ns \ {x}
  BY <1>5, <1>6 DEF update_granule_state
<1>8. /\ ns' \subseteq ns
      /\ \A x : x.state = "DELEGATED" => (x \in ns' <=> x \in ns)
  BY <1>5, <1>7
<1>9. \A r, a : AuxTrees(r, a)' = AuxTrees(r, a)
  BY <1>2 DEF AuxTrees
<1>10. \A r, v : MappingNode(r, v)' = MappingNode(r, v)
  BY <1>9 DEF MappingNode
<1>11. MappingNode(rd, u) = n
  BY <1>4 DEF MappingNode
<1>12. Held("UNPROTECTED", rd)' = Held("UNPROTECTED", rd) \cup {n}
  BY <1>2, <1>10, <1>11 DEF Held
<1>13. list["UNPROTECTED"][i] = Held("UNPROTECTED", rd)
  BY <1>3 DEF IInv, Mirror, Kind
<1>14. ASSUME NEW kk \in Kind, NEW r \in PA, kk # "UNPROTECTED" \/ r # rd
       PROVE  Held(kk, r)' = Held(kk, r)
  <2>1. CASE kk = "UNPROTECTED"
    BY <1>2, <1>10, <1>14, <2>1, SMTT(60) DEF Held
  <2>2. CASE kk # "UNPROTECTED"
    <3>1. Owned(kk, r)' = Owned(kk, r)
      BY <1>2 DEF Owned, InState
    <3>2. \A p : GranuleNode(kk, r, p)' = GranuleNode(kk, r, p)
      BY <1>2, <1>9 DEF GranuleNode
    <3> QED BY <2>2, <3>1, <3>2 DEF Held
  <2> QED BY <2>1, <2>2
<1>15. L \in SUBSET Node
  <2>1. n \in Node
    BY CountAssumption, GeometryAssumption, SMTT(60) DEF Node, AnyIpa, Tree, Level
  <2>2. list["UNPROTECTED"][i] \subseteq Node
    BY <1>3, NumRealmsAssumption, SMTT(60) DEF IInv, TypeOK, Kind, Slots, AllSlots
  <2> QED BY <2>1, <2>2
<1>16. L = Held("UNPROTECTED", rd)'
  BY <1>12, <1>13
<1>17. /\ ns' \subseteq NsNode
       /\ \A x \in ns' : /\ x.aux = {}
                         /\ x.state = "DELEGATED" => x.pa \in PA
                         /\ x.state = "UNDELEGATED" => x.pa \in UIPA
  BY <1>8 DEF IInv, TypeOK, TrackInv
<1> HIDE DEF i, L
<1> QED
  BY <1>1, <1>2, <1>3, <1>7, <1>8, <1>14, <1>15, <1>16, <1>17, MappingsOnly

(* val_host_rmi_rtt_unmap_unprotected.                                     *)
LEMMA UnmapKeeps ==
  ASSUME IInv, NEW rd \in PA, NEW ipa \in UIPA, NEW level \in Level,
         rmi_rtt_unmap_unprotected(rd, ipa, level)
  PROVE  IInv'
<1> DEFINE i == get_curr_realm(rd)
           u == [rd |-> rd, ipa |-> ipa, level |-> level]
           n == MappingNode(rd, u)
           L == list["UNPROTECTED"][i] \ {n}
           back == [pa |-> ipa, state |-> "UNDELEGATED", aux |-> {}]
<1>1. RmmOK'
  BY MapSteps DEF IInv, TypeOK, RmmOK, rmi_rtt_unmap_unprotected
<1>2. /\ UNCHANGED <<gran, auxmap>> /\ rd \in InState("RD")
      /\ u \in umap /\ umap' = umap \ {u}
      /\ AuxTrees(rd, ipa) = {}
  BY DEF rmi_rtt_unmap_unprotected, Unmap, CanUnmap
<1>3. i \in Slots /\ memrd[i] = rd
  BY <1>2, CurrRealm
<1>4. \A v \in umap : v.rd = rd /\ v.ipa = ipa => v = u
  BY <1>2 DEF IInv, RmmInv
<1>5. /\ \A r, v : MappingNode(r, v).pa = v.ipa
      /\ n.aux = {}
  BY <1>2 DEF MappingNode
<1>6. list["UNPROTECTED"][i] = {MappingNode(rd, v) : v \in {w \in umap : w.rd = rd}}
  <2>1. list["UNPROTECTED"][i] = Held("UNPROTECTED", rd)
    BY <1>3 DEF IInv, Mirror, Kind
  <2> QED BY <2>1 DEF Held
<1>7. Matching("UNPROTECTED", i, ipa, NoAddr, 0, 0) = {n}
  <2>1. Matching("UNPROTECTED", i, ipa, NoAddr, 0, 0)
          = {x \in list["UNPROTECTED"][i] : x.pa = ipa}
    BY DEF Matching
  <2>2. u.ipa = ipa /\ u.rd = rd
    OBVIOUS
  <2> HIDE DEF i, u
  <2>3. n \in list["UNPROTECTED"][i] /\ n.pa = ipa
    BY <1>2, <1>5, <1>6, <2>2
  <2>4. ASSUME NEW x \in list["UNPROTECTED"][i], x.pa = ipa
        PROVE  x = n
    <3>1. PICK v \in umap : v.rd = rd /\ x = MappingNode(rd, v)
      BY <1>6
    <3>2. v = u
      BY <3>1, <2>4, <1>4, <1>5
    <3> QED BY <3>1, <3>2
  <2> HIDE DEF n
  <2> QED BY <2>1, <2>3, <2>4
<1>8. back_to_ns("UNPROTECTED", i, n)
  <2>1. update_destroy_granule_state(rd, "UNPROTECTED", ipa, NoAddr, 0, 0)
    BY DEF rmi_rtt_unmap_unprotected
  <2> HIDE DEF n
  <2> QED BY <1>7, <2>1 DEF update_destroy_granule_state
<1>9. /\ list' = [list EXCEPT !["UNPROTECTED"][i] = L]
      /\ UNCHANGED <<memrd, fault>>
      /\ ns' = ns \cup {back}
  <2>1. n.pa = ipa
    BY <1>5
  <2> HIDE DEF n
  <2> QED BY <1>5, <1>8, <2>1 DEF back_to_ns
<1>10. back \in NsNode /\ back.aux = {} /\ back.state = "UNDELEGATED" /\ back.pa \in UIPA
  BY DEF NsNode
<1>11. \A r, a : AuxTrees(r, a)' = AuxTrees(r, a)
  BY <1>2 DEF AuxTrees
<1>12. \A r, v : MappingNode(r, v)' = MappingNode(r, v)
  BY <1>11 DEF MappingNode
<1>13. L = Held("UNPROTECTED", rd)'
  <2>1. Held("UNPROTECTED", rd)' = {MappingNode(rd, v) : v \in {w \in umap' : w.rd = rd}}
    BY <1>12 DEF Held
  <2>2. u.ipa = ipa /\ u.rd = rd
    OBVIOUS
  <2> HIDE DEF i, u
  <2>3. \A v \in umap : v.rd = rd /\ v # u => MappingNode(rd, v) # n
    BY <1>4, <1>5, <2>2, SMTT(60)
  <2>4. L = {MappingNode(rd, v) : v \in {w \in umap : w.rd = rd /\ w # u}}
    BY <1>6, <2>3
  <2> QED BY <1>2, <2>1, <2>4
<1>14. ASSUME NEW kk \in Kind, NEW r \in PA, kk # "UNPROTECTED" \/ r # rd
       PROVE  Held(kk, r)' = Held(kk, r)
  <2>1. CASE kk = "UNPROTECTED"
    BY <1>2, <1>12, <1>14, <2>1, SMTT(60) DEF Held
  <2>2. CASE kk # "UNPROTECTED"
    <3>1. Owned(kk, r)' = Owned(kk, r)
      BY <1>2 DEF Owned, InState
    <3>2. \A p : GranuleNode(kk, r, p)' = GranuleNode(kk, r, p)
      BY <1>2, <1>11 DEF GranuleNode
    <3> QED BY <2>2, <3>1, <3>2 DEF Held
  <2> QED BY <2>1, <2>2
<1>15. L \in SUBSET Node
  BY <1>3, NumRealmsAssumption, SMTT(60) DEF IInv, TypeOK, Kind, Slots, AllSlots
<1>16. /\ ns' \subseteq NsNode
       /\ \A x \in ns' : /\ x.aux = {}
                         /\ x.state = "DELEGATED" => x.pa \in PA
                         /\ x.state = "UNDELEGATED" => x.pa \in UIPA
       /\ \A x : x.state = "DELEGATED" => (x \in ns' <=> x \in ns)
  <2> HIDE DEF back
  <2> QED BY <1>9, <1>10 DEF IInv, TypeOK, TrackInv
<1> HIDE DEF i, L
<1> QED
  BY <1>1, <1>2, <1>3, <1>9, <1>13, <1>14, <1>15, <1>16, MappingsOnly

(* The four val_host_rmi_rtt_aux_(un)map_(un)protected wrappers.           *)
LEMMA AuxKeeps ==
  ASSUME IInv, NEW rd \in PA, NEW ipa \in AnyIpa, NEW tree \in Aux,
         rmi_rtt_aux_map(rd, ipa, tree) \/ rmi_rtt_aux_unmap(rd, ipa, tree)
  PROVE  IInv'
<1> DEFINE i == get_curr_realm(rd)
           k == AuxKind(ipa)
           H == Held(k, rd)
<1>1. RmmOK'
  BY AuxSteps DEF IInv, TypeOK, RmmOK, rmi_rtt_aux_map, rmi_rtt_aux_unmap
<1>2. /\ UNCHANGED <<gran, umap>> /\ rd \in InState("RD")
  BY DEF rmi_rtt_aux_map, rmi_rtt_aux_unmap, AuxMap, AuxUnmap, CanAuxMap, CanAuxUnmap
<1>3. PICK val \in BOOLEAN :
        /\ auxmap' = IF val THEN auxmap \cup {[rd |-> rd, ipa |-> ipa, tree |-> tree]}
                     ELSE auxmap \ {[rd |-> rd, ipa |-> ipa, tree |-> tree]}
        /\ update_aux_rtt_info(rd, k, ipa, tree, val)
  BY DEF rmi_rtt_aux_map, rmi_rtt_aux_unmap, AuxMap, AuxUnmap
<1> DEFINE T == IF val THEN AuxTrees(rd, ipa) \cup {tree} ELSE AuxTrees(rd, ipa) \ {tree}
<1>4. /\ AuxTrees(rd, ipa)' = T
      /\ \A r, a : r # rd \/ a # ipa => AuxTrees(r, a)' = AuxTrees(r, a)
  <2>1. CASE val
    BY <1>3, <2>1, AuxTreesStep, SMTT(60)
  <2>2. CASE ~val
    BY <1>3, <2>2, AuxTreesStep
  <2> QED BY <2>1, <2>2
<1>5. /\ ipa \in IPA => DataAt(rd, ipa) # {}
      /\ ipa \in UIPA => \E u \in umap : u.rd = rd /\ u.ipa = ipa
  <2>1. CASE rmi_rtt_aux_map(rd, ipa, tree)
    BY <2>1, AddrAssumption DEF rmi_rtt_aux_map, CanAuxMap, IInv, TypeOK, RmmTypeOK
  <2>2. CASE rmi_rtt_aux_unmap(rd, ipa, tree)
    <3> DEFINE m == [rd |-> rd, ipa |-> ipa, tree |-> tree]
    <3>1. m \in auxmap
      BY <2>2 DEF rmi_rtt_aux_unmap, CanAuxUnmap, AuxTrees
    <3>2. m.rd = rd /\ m.ipa = ipa
      OBVIOUS
    <3> HIDE DEF m
    <3> QED BY <3>1, <3>2 DEF IInv, RmmInv
  <2> QED BY <2>1, <2>2
<1>6. PICK n \in H : /\ n.ipa = ipa /\ n.aux = AuxTrees(rd, ipa)
                     /\ \A m \in H : m.ipa = ipa => m = n
  BY <1>2, <1>5, AuxNode
<1>7. i \in Slots /\ memrd[i] = rd
  BY <1>2, CurrRealm
<1>8. k \in {"DATA", "UNPROTECTED"} /\ k \in Kind
  BY DEF AuxKind, Kind
<1>9. list[k][i] = H
  BY <1>7, <1>8 DEF IInv, Mirror
<1>10. H \subseteq Node
  BY <1>7, <1>8, <1>9, NumRealmsAssumption, SMTT(60) DEF IInv, TypeOK, Slots, AllSlots
<1> DEFINE L == (H \ {n}) \cup {[n EXCEPT !.aux = T]}
<1>11. {m \in list[k][i] : m.ipa = ipa} = {n}
  BY <1>6, <1>9
<1>12. /\ list' = [list EXCEPT ![k][i] = L]
       /\ UNCHANGED <<ns, memrd, fault>>
  <2>1. [n EXCEPT !.aux = IF val THEN @ \cup {tree} ELSE @ \ {tree}]
          = [n EXCEPT !.aux = T]
    BY <1>6
  <2> HIDE DEF k, T
  <2> QED BY <1>3, <1>9, <1>11, <2>1 DEF update_aux_rtt_info
<1>13. /\ Held(k, rd)' = {IF m.ipa = ipa THEN [m EXCEPT !.aux = T] ELSE m : m \in H}
       /\ \A kk \in Kind, r \in PA : kk # k \/ r # rd => Held(kk, r)' = Held(kk, r)
  <2> HIDE DEF T
  <2> QED BY <1>2, <1>4, HeldFlag, SMTT(60)
<1>14. L = Held(k, rd)'
  <2> HIDE DEF k, T, H
  <2> QED BY <1>6, <1>13
<1>15. L \in SUBSET Node
  <2>1. T \subseteq Aux
    BY DEF AuxTrees
  <2>2. n \in Node
    BY <1>6, <1>10
  <2>3. [n EXCEPT !.aux = T] \in Node
    <3> HIDE DEF T
    <3> QED BY <2>1, <2>2 DEF Node
  <2> QED BY <1>10, <2>3
<1>16. /\ ns' \subseteq NsNode
       /\ \A x \in ns' : /\ x.aux = {}
                         /\ x.state = "DELEGATED" => x.pa \in PA
                         /\ x.state = "UNDELEGATED" => x.pa \in UIPA
       /\ \A x : x.state = "DELEGATED" => (x \in ns' <=> x \in ns)
  BY <1>12 DEF IInv, TypeOK, TrackInv
<1> HIDE DEF i, k, L
<1> QED
  BY <1>1, <1>2, <1>7, <1>8, <1>12, <1>13, <1>14, <1>15, <1>16, MappingsOnly
-----------------------------------------------------------------------------
(* The tracker and the RMM start empty.                                    *)
LEMMA InitIInv == Init => IInv
<1> SUFFICES ASSUME Init PROVE IInv
  OBVIOUS
<1>1. /\ \A p \in PA : gran[p].st = "UNDELEGATED"
      /\ umap = {} /\ auxmap = {}
  BY DEF Init, RmmInit, Plain, Granule
<1>2. \A st : st # "UNDELEGATED" => InState(st) = {}
  BY <1>1 DEF InState
<1>3. TypeOK
  <2>1. RmmTypeOK
    BY CountAssumption, SMTT(60) DEF Init, RmmInit, RmmTypeOK, Plain, Granule, States, Tree
  <2> QED BY <2>1 DEF Init, TrackInit, TypeOK
<1>4. RmmInv
  BY <1>1, <1>2, SMTT(60) DEF RmmInv, RealmStates
<1>5. TrackInv
  BY NumRealmsAssumption, SMTT(60) DEF Init, TrackInit, TrackInv, AllSlots, Slots
<1>6. Mirror
  <2>1. OnlyDelegated = {}
    BY <1>2 DEF OnlyDelegated
  <2>2. \A i \in Slots : memrd[i] = NoAddr /\ \A k \in Kind : list[k][i] = {}
    BY NumRealmsAssumption, SMTT(60) DEF Init, TrackInit, AllSlots, Slots
  <2>3. ns = {}
    BY DEF Init, TrackInit
  <2> QED BY <1>2, <2>1, <2>2, <2>3, AddrAssumption DEF Mirror
<1> QED
  BY <1>3, <1>4, <1>5, <1>6 DEF IInv, NoNullNode, Init, TrackInit

(* A step of any wrapper keeps the invariant.                              *)
LEMMA StepIInv == IInv /\ [Next]_mvars => IInv'
<1> SUFFICES ASSUME IInv, [Next]_mvars PROVE IInv'
  OBVIOUS
<1>1. CASE UNCHANGED mvars
  <2>1. UNCHANGED <<gran, umap, auxmap, ns, memrd, list, fault>>
    BY <1>1 DEF mvars, rmm, track
  <2>2. /\ \A st : InState(st)' = InState(st)
        /\ \A st, r : Owned(st, r)' = Owned(st, r)
        /\ \A r, a : AuxTrees(r, a)' = AuxTrees(r, a)
    BY <2>1 DEF InState, Owned, AuxTrees
  <2>3. RmmOK'
    <3>1. RmmTypeOK'
      BY <2>1 DEF IInv, TypeOK, RmmTypeOK
    <3> QED BY <2>1, <3>1, OutsideStep DEF IInv, TypeOK, RmmOK
  <2>4. OnlyDelegated' = OnlyDelegated
    BY <2>2 DEF OnlyDelegated
  <2> QED
    BY <2>1, <2>3, <2>4, NsOnly DEF IInv, TypeOK, TrackInv, Mirror
<1>2. CASE Next
  BY <1>2, PlainKeeps, RealmCreateKeeps, RealmDestroyKeeps, RecCreateKeeps, RecDestroyKeeps,
     RttCreateKeeps, RttDestroyKeeps, DataCreateKeeps, DataDestroyKeeps, MapKeeps, UnmapKeeps,
     AuxKeeps DEF Next
<1> QED
  BY <1>1, <1>2

(* For any number of granules, addresses, trees and realm slots, and any   *)
(* order of calls: the lists of mem_track mirror what the RMM holds for    *)
(* every realm (val_host_update_granule_state and its inverse).            *)
THEOREM TrackerMirrors == Spec => []Mirror
<1>1. IInv => Mirror
  BY DEF IInv
<1> QED
  BY <1>1, InitIInv, StepIInv, PTL DEF Spec

(* ... and val_host_update_destroy_granule_state and                       *)
(* val_host_update_aux_rtt_info find the node that they dereference.       *)
THEOREM NodeAlwaysFound == Spec => []NoNullNode
<1>1. IInv => NoNullNode
  BY DEF IInv
<1> QED
  BY <1>1, InitIInv, StepIInv, PTL DEF Spec

(* The variables keep their types.                                         *)
THEOREM TypeCorrect == Spec => []TypeOK
<1>1. IInv => TypeOK
  BY DEF IInv
<1> QED
  BY <1>1, InitIInv, StepIInv, PTL DEF Spec
=============================================================================
