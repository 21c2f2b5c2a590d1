-------------------------- MODULE PostambleProofs --------------------------
(***************************************************************************)
(* The postamble gives every granule back, from any state a test leaves.   *)
(***************************************************************************)
EXTENDS Postamble, MemTrackProofs

(* Zenon unless a step names another prover.                               *)
USE ZenonT(60)

(* What belongs to what, besides RmmInv: start tables to a live realm, the *)
(* auxiliary granules of a REC to a live REC, and tables are below the     *)
(* start tables.                                                           *)
ParentInv ==
  /\ \A p \in InState("START") : gran[p].rd \in InState("RD")
  /\ \A p \in InState("REC_AUX") : gran[p].rd \in InState("REC")
  /\ \A p \in InState("RTT") \cup InState("RTT_AUX") :
       gran[p].ipa \in AnyIpa /\ gran[p].level > StartLevel

(* The locals of val_host_postamble and val_host_realm_destroy.            *)
PostType ==
  /\ phase \in RealmPhases \cup {"test", "next", "ns", "free", "success", "error"}
  /\ slot \in 1 .. NumRealms + 1
  /\ level \in 1 .. 3
  /\ tree \in Tree
  /\ cur \in PA \cup {NoAddr}
  /\ caller \in {"test", "postamble"}

(* The realm being destroyed is there, and the granule to undelegate next  *)
(* is one that a command has just released.                                *)
PlaceInv ==
  /\ phase \in RealmPhases => slot \in Slots /\ memrd[slot] # NoAddr
  /\ cur # NoAddr => phase \in {"rec", "data", "rtt"} /\ gran[cur].st = "DELEGATED"
  /\ phase \in {"test", "success", "error"} => caller = "test"

(* The loops that are over have left nothing behind.                       *)
LoopsInv ==
  /\ phase \in {"data", "valid_ns", "rtt", "rd"} => Listed("REC") = {}
  /\ phase \in {"valid_ns", "rtt", "rd"} => Listed("DATA") = {}
  /\ phase \in {"rtt", "rd"} => Listed("UNPROTECTED") = {}
  /\ phase = "rtt" => \A m \in Listed("RTT") \cup Listed("RTT_AUX") :
                        tree < m.tree \/ (tree = m.tree /\ m.level <= level)
  /\ phase = "rd" => Listed("RTT") = {} /\ Listed("RTT_AUX") = {}

(* The postamble has destroyed the realms before the current one, and all  *)
(* of them when it comes to the NS list.                                   *)
RealmsInv ==
  /\ phase = "next" \/ caller = "postamble" =>
       \A i \in Slots : i < slot => memrd[i] = NoAddr
  /\ phase \in {"ns", "free", "success", "error"} => \A i \in Slots : memrd[i] = NoAddr
  /\ phase = "free" => DelegatedNodes = {}

PInv == /\ IInv /\ ParentInv /\ PostType /\ PlaceInv /\ LoopsInv /\ RealmsInv
        /\ CleansUp /\ FailsOnlyForDevices
-----------------------------------------------------------------------------
(* What a command has to respect for the owners to stay: a granule that    *)
(* takes a state with an owner gets a live one, and an RD or a REC goes    *)
(* only together with what it owns.                                        *)
LEMMA ParentsKept ==
  ASSUME ParentInv,
         \A p \in PA : gran'[p].st = "START" =>
           gran'[p] = gran[p] \/ gran'[p].rd \in InState("RD")',
         \A p \in PA : gran'[p].st = "REC_AUX" =>
           gran'[p] = gran[p] \/ gran'[p].rd \in InState("REC")',
         \A p \in PA : gran'[p].st \in {"RTT", "RTT_AUX"} =>
           gran'[p] = gran[p] \/ (gran'[p].ipa \in AnyIpa /\ gran'[p].level > StartLevel),
         \A r \in InState("RD") : r \in InState("RD")' \/
           \A p \in PA : ~(gran'[p] = gran[p] /\ gran[p].st = "START" /\ gran[p].rd = r),
         \A r \in InState("REC") : r \in InState("REC")' \/
           \A p \in PA : ~(gran'[p] = gran[p] /\ gran[p].st = "REC_AUX" /\ gran[p].rd = r)
  PROVE  ParentInv'
<1>1. ASSUME NEW p \in InState("START")' PROVE gran'[p].rd \in InState("RD")'
  <2>1. p \in PA /\ gran'[p].st = "START"
    BY DEF InState
  <2>2. CASE gran'[p] = gran[p]
    <3>1. gran[p].rd \in InState("RD")
      BY <2>1, <2>2 DEF ParentInv, InState
    <3> QED BY <2>1, <2>2, <3>1
  <2> QED BY <2>1, <2>2
<1>2. ASSUME NEW p \in InState("REC_AUX")' PROVE gran'[p].rd \in InState("REC")'
  <2>1. p \in PA /\ gran'[p].st = "REC_AUX"
    BY DEF InState
  <2>2. CASE gran'[p] = gran[p]
    <3>1. gran[p].rd \in InState("REC")
      BY <2>1, <2>2 DEF ParentInv, InState
    <3> QED BY <2>1, <2>2, <3>1
  <2> QED BY <2>1, <2>2
<1>3. \A p \in InState("RTT")' \cup InState("RTT_AUX")' :
        gran'[p].ipa \in AnyIpa /\ gran'[p].level > StartLevel
  BY DEF ParentInv, InState
<1> QED BY <1>1, <1>2, <1>3 DEF ParentInv

(* One granule changes and gets a state without an owner, or a table's.    *)
LEMMA OneGranule ==
  ASSUME RmmTypeOK, ParentInv, NEW pa \in PA, NEW g,
         gran' = [gran EXCEPT ![pa] = g],
         gran[pa].st \notin {"RD", "REC"}, g.st \notin {"START", "REC_AUX"},
         g.st \in {"RTT", "RTT_AUX"} => g.ipa \in AnyIpa /\ g.level > StartLevel
  PROVE  ParentInv'
<1>1. gran'[pa] = g /\ \A p \in PA : p # pa => gran'[p] = gran[p]
  BY DEF RmmTypeOK
<1>2. \A r \in InState("RD") : r \in InState("RD")'
  BY <1>1 DEF InState
<1>3. \A r \in InState("REC") : r \in InState("REC")'
  BY <1>1 DEF InState
<1> QED BY <1>1, <1>2, <1>3, ParentsKept

(* The granules of S return to DELEGATED; S holds an RD or a REC only      *)
(* together with what they own.                                            *)
LEMMA ReleaseKeeps ==
  ASSUME ParentInv, NEW S, gran' = Release(S),
         \A r \in S : r \in InState("RD") => Owned("START", r) \subseteq S,
         \A r \in S : r \in InState("REC") => Owned("REC_AUX", r) \subseteq S
  PROVE  ParentInv'
<1>1. \A p \in PA : IF p \in S THEN gran'[p].st = "DELEGATED" ELSE gran'[p] = gran[p]
  BY DEF Release, Plain, Granule
<1>2. ASSUME NEW r \in InState("RD")
      PROVE  r \in InState("RD")' \/
        \A p \in PA : ~(gran'[p] = gran[p] /\ gran[p].st = "START" /\ gran[p].rd = r)
  <2>1. CASE r \in S
    <3>1. \A p \in PA : gran[p].st = "START" /\ gran[p].rd = r => p \in S
      BY <2>1 DEF Owned, InState
    <3> QED BY <1>1, <3>1
  <2>2. CASE r \notin S
    BY <1>1, <2>2 DEF InState
  <2> QED BY <2>1, <2>2
<1>3. ASSUME NEW r \in InState("REC")
      PROVE  r \in InState("REC")' \/
        \A p \in PA : ~(gran'[p] = gran[p] /\ gran[p].st = "REC_AUX" /\ gran[p].rd = r)
  <2>1. CASE r \in S
    <3>1. \A p \in PA : gran[p].st = "REC_AUX" /\ gran[p].rd = r => p \in S
      BY <2>1 DEF Owned, InState
    <3> QED BY <1>1, <3>1
  <2>2. CASE r \notin S
    BY <1>1, <2>2 DEF InState
  <2> QED BY <2>1, <2>2
<1>4. \A p \in PA : gran'[p].st # "DELEGATED" => gran'[p] = gran[p]
  BY <1>1
<1> QED BY <1>2, <1>3, <1>4, ParentsKept

(* A new realm owns its start tables, a new REC its auxiliary granules.    *)
LEMMA CreateKeepsParents ==
  ASSUME ParentInv, NEW rd \in PA, NEW p1 \in PA, NEW S \in SUBSET PA,
         \/ CanRealmCreate(rd, S) /\ RealmCreate(rd, S)
         \/ CanRecCreate(rd, p1, S) /\ RecCreate(rd, p1, S)
  PROVE  ParentInv'
<1>1. CASE CanRealmCreate(rd, S) /\ RealmCreate(rd, S)
  <2>1. /\ gran'[rd].st = "RD"
        /\ \A p \in S : gran'[p].st = "START" /\ gran'[p].rd = rd
        /\ \A p \in PA : p # rd /\ p \notin S => gran'[p] = gran[p]
        /\ \A p \in S \cup {rd} : gran[p].st = "DELEGATED"
    BY <1>1 DEF CanRealmCreate, RealmCreate, Granule, InState
  <2>2. /\ rd \in InState("RD")'
        /\ \A r \in InState("RD") : r \in InState("RD")'
        /\ \A r \in InState("REC") : r \in InState("REC")'
    BY <2>1 DEF InState
  <2> QED BY <2>1, <2>2, ParentsKept
<1>2. CASE CanRecCreate(rd, p1, S) /\ RecCreate(rd, p1, S)
  <2>1. /\ gran'[p1].st = "REC"
        /\ \A p \in S : gran'[p].st = "REC_AUX" /\ gran'[p].rd = p1
        /\ \A p \in PA : p # p1 /\ p \notin S => gran'[p] = gran[p]
        /\ \A p \in S \cup {p1} : gran[p].st = "DELEGATED"
    BY <1>2 DEF CanRecCreate, RecCreate, Granule, InState
  <2>2. /\ p1 \in InState("REC")'
        /\ \A r \in InState("RD") : r \in InState("RD")'
        /\ \A r \in InState("REC") : r \in InState("REC")'
    BY <2>1 DEF InState
  <2> QED BY <2>1, <2>2, ParentsKept
<1> QED BY <1>1, <1>2

(* The commands on one granule.                                            *)
LEMMA PlainKeepsParents ==
  ASSUME RmmTypeOK, ParentInv, NEW pa \in PA,
         \/ CanDelegate(pa) /\ Delegate(pa)
         \/ CanUndelegate(pa) /\ Undelegate(pa)
         \/ CanDevCreate(pa) /\ DevCreate(pa)
         \/ CanDevDestroy(pa) /\ DevDestroy(pa)
  PROVE  ParentInv'
<1>1. \A st \in {"DELEGATED", "UNDELEGATED", "DEV"} : Plain(st).st = st
  BY DEF Plain, Granule
<1>2. CASE CanDevDestroy(pa) /\ DevDestroy(pa)
  <2>1. gran[pa].st = "DEV" /\ gran' = Release({pa})
    BY <1>2 DEF CanDevDestroy, DevDestroy
  <2> QED BY <2>1, ReleaseKeeps, SMTT(60) DEF InState
<1>3. CASE CanDelegate(pa) /\ Delegate(pa)
  BY <1>1, <1>3, OneGranule DEF CanDelegate, Delegate
<1>4. CASE CanUndelegate(pa) /\ Undelegate(pa)
  BY <1>1, <1>4, OneGranule DEF CanUndelegate, Undelegate
<1>5. CASE CanDevCreate(pa) /\ DevCreate(pa)
  BY <1>1, <1>5, OneGranule DEF CanDevCreate, DevCreate
<1> QED BY <1>2, <1>3, <1>4, <1>5

(* A new table or data page, and the commands that release granules.       *)
LEMMA RealmKeepsParents ==
  ASSUME RmmTypeOK, ParentInv, NEW rd \in PA, NEW pa \in PA, NEW a, NEW l \in Level, NEW t,
         \/ a \in AnyIpa /\ CanRttCreate(rd, pa, a, l, t) /\ RttCreate(rd, pa, a, l, t)
         \/ CanDataCreate(rd, pa, a) /\ DataCreate(rd, pa, a)
         \/ CanRealmDestroy(rd) /\ RealmDestroy(rd)
         \/ CanRecDestroy(pa) /\ RecDestroy(pa)
         \/ RttDestroy(rd, a, l, t)
         \/ DataDestroy(rd, a)
  PROVE  ParentInv'
<1>1. CASE a \in AnyIpa /\ CanRttCreate(rd, pa, a, l, t) /\ RttCreate(rd, pa, a, l, t)
  <2> DEFINE g == Granule(TableState(t), rd, a, l, t)
  <2>1. g.st \in {"RTT", "RTT_AUX"} /\ g.ipa = a /\ g.level = l /\ l > StartLevel
    BY <1>1 DEF Granule, TableState, CanRttCreate
  <2>2. gran' = [gran EXCEPT ![pa] = g] /\ gran[pa].st = "DELEGATED"
    BY <1>1 DEF CanRttCreate, RttCreate, InState
  <2> HIDE DEF g
  <2> QED BY <1>1, <2>1, <2>2, OneGranule
<1>2. CASE CanDataCreate(rd, pa, a) /\ DataCreate(rd, pa, a)
  <2> DEFINE g == Granule("DATA", rd, a, 0, 0)
  <2>1. g.st = "DATA"
    BY DEF Granule
  <2>2. gran' = [gran EXCEPT ![pa] = g] /\ gran[pa].st = "DELEGATED"
    BY <1>2 DEF CanDataCreate, DataCreate, InState
  <2> HIDE DEF g
  <2> QED BY <2>1, <2>2, OneGranule
<1>3. CASE CanRealmDestroy(rd) /\ RealmDestroy(rd)
  BY <1>3, ReleaseKeeps, SMTT(60) DEF CanRealmDestroy, RealmDestroy, Owned, InState
<1>4. CASE CanRecDestroy(pa) /\ RecDestroy(pa)
  BY <1>4, ReleaseKeeps, SMTT(60) DEF CanRecDestroy, RecDestroy, Owned, InState
<1>5. CASE RttDestroy(rd, a, l, t)
  BY <1>5, ReleaseKeeps, SMTT(60) DEF RttDestroy, Table, TableState, Owned, InState
<1>6. CASE DataDestroy(rd, a)
  BY <1>6, ReleaseKeeps DEF DataDestroy, DataAt, Owned, InState
<1> QED BY <1>1, <1>2, <1>3, <1>4, <1>5, <1>6

(* A step of any wrapper keeps the owners.                                 *)
LEMMA ParentStep ==
  ASSUME IInv, ParentInv, [Next]_mvars
  PROVE  ParentInv'
<1>0. RmmTypeOK
  BY DEF IInv, TypeOK
<1>1. CASE gran' = gran
  BY <1>1, ParentsKept DEF InState
<1>2. CASE \E pa \in PA : \/ rmi_granule_delegate(pa) \/ rmi_granule_undelegate(pa)
                          \/ rmi_dev_create(pa) \/ rmi_dev_destroy(pa)
  BY <1>0, <1>2, PlainKeepsParents DEF rmi_granule_delegate, rmi_granule_undelegate,
     rmi_dev_create, rmi_dev_destroy
<1>3. CASE \E rd, rec \in PA : \E S \in SUBSET PA :
             rmi_realm_create(rd, S) \/ rmi_rec_create(rd, rec, S)
  BY <1>3, CreateKeepsParents DEF rmi_realm_create, rmi_rec_create
<1>4. CASE \E rd, pa \in PA : \E a \in AnyIpa, l \in Level, t \in Tree :
             rmi_rtt_create(rd, pa, a, l, t) \/ rmi_rtt_destroy(rd, a, l, t)
  <2>0. PICK rd \in PA, pa \in PA, a \in AnyIpa, l \in Level, t \in Tree :
          rmi_rtt_create(rd, pa, a, l, t) \/ rmi_rtt_destroy(rd, a, l, t)
    BY <1>4
  <2>1. \/ CanRttCreate(rd, pa, a, l, t) /\ RttCreate(rd, pa, a, l, t)
        \/ RttDestroy(rd, a, l, t)
    BY <2>0 DEF rmi_rtt_create, rmi_rtt_destroy
  <2> QED BY <1>0, <2>1, RealmKeepsParents
<1>5. CASE \E rd, pa \in PA : \/ rmi_realm_destroy(rd) \/ rmi_rec_destroy(pa)
                              \/ \E a \in IPA : \/ rmi_data_create(rd, pa, a)
                                                \/ rmi_data_destroy(rd, a)
  <2>1. 3 \in Level
    BY GeometryAssumption, SMTT(60) DEF Level
  <2> QED
    BY <1>0, <1>5, <2>1, RealmKeepsParents DEF rmi_realm_destroy, rmi_rec_destroy,
       rmi_data_create, rmi_data_destroy
<1>6. CASE \E rd \in PA : \/ \E a \in UIPA, l \in Level : \/ rmi_rtt_map_unprotected(rd, a, l)
                                                      \/ rmi_rtt_unmap_unprotected(rd, a, l)
                          \/ \E a \in AnyIpa, t \in Aux : \/ rmi_rtt_aux_map(rd, a, t)
                                                         \/ rmi_rtt_aux_unmap(rd, a, t)
  BY <1>1, <1>6 DEF rmi_rtt_map_unprotected, rmi_rtt_unmap_unprotected,
     rmi_rtt_aux_map, rmi_rtt_aux_unmap, Map, Unmap, AuxMap, AuxUnmap
<1>7. CASE UNCHANGED mvars
  BY <1>1, <1>7 DEF mvars, rmm
<1> QED
  BY <1>2, <1>3, <1>4, <1>5, <1>6, <1>7 DEF Next

-----------------------------------------------------------------------------
(* The realm being destroyed, and the lists that describe it.              *)
LEMMA RealmAt ==
  ASSUME PInv, phase \in RealmPhases
  PROVE  /\ slot \in Slots /\ Rd \in InState("RD") /\ Rd \in PA
         /\ get_curr_realm(Rd) = slot
         /\ \A k \in Kind : Listed(k) = Held(k, Rd)
<1>1. IInv /\ slot \in Slots /\ memrd[slot] # NoAddr
  BY DEF PInv, PlaceInv
<1>2. Rd \in InState("RD") /\ Rd \in PA
  BY <1>1 DEF IInv, Mirror, Rd, InState
<1>3. get_curr_realm(Rd) = slot
  BY <1>1, <1>2, CurrRealm DEF Rd
<1>4. \A k \in Kind : Listed(k) = Held(k, Rd)
  BY <1>1, <1>2 DEF IInv, Mirror, Rd, Listed
<1> QED BY <1>1, <1>2, <1>3, <1>4

(* What the nodes of each list say about the RMM.                          *)
LEMMA GranuleNodes ==
  ASSUME PInv, phase \in RealmPhases, NEW k \in RealmStates, NEW m \in Listed(k)
  PROVE  /\ m.pa \in Owned(k, Rd) /\ m.pa \in PA
         /\ gran[m.pa].st = k /\ gran[m.pa].rd = Rd
         /\ m.ipa = gran[m.pa].ipa /\ m.level = gran[m.pa].level /\ m.tree = gran[m.pa].tree
         /\ k = "DATA" => m.aux = AuxTrees(Rd, m.ipa)
<1>1. k \in Kind /\ k # "UNPROTECTED"
  BY DEF RealmStates, Kind
<1>2. PICK p \in Owned(k, Rd) : m = GranuleNode(k, Rd, p)
  BY <1>1, RealmAt DEF Held
<1>3. /\ m.pa = p /\ m.ipa = gran[p].ipa /\ m.level = gran[p].level /\ m.tree = gran[p].tree
      /\ k = "DATA" => m.aux = AuxTrees(Rd, gran[p].ipa)
  BY <1>2 DEF GranuleNode
<1> QED BY <1>2, <1>3 DEF Owned, InState

\* The node of an unprotected mapping names the mapping that the RMM has.
LEMMA MappingNodes ==
  ASSUME PInv, phase \in RealmPhases, NEW m \in Listed("UNPROTECTED")
  PROVE  /\ [rd |-> Rd, ipa |-> m.ipa, level |-> m.level] \in umap
         /\ m.ipa \in UIPA /\ m.level \in Level
         /\ m.aux = AuxTrees(Rd, m.ipa)
<1>1. PICK u \in umap : u.rd = Rd /\ m = MappingNode(Rd, u)
  <2>1. "UNPROTECTED" \in Kind
    BY DEF Kind
  <2> QED BY <2>1, RealmAt DEF Held
<1>2. u \in [rd : PA, ipa : UIPA, level : Level]
  BY DEF PInv, IInv, TypeOK, RmmTypeOK
<1>3. m.ipa = u.ipa /\ m.level = u.level /\ m.aux = AuxTrees(Rd, u.ipa)
  BY <1>1 DEF MappingNode
<1>4. u = [rd |-> Rd, ipa |-> m.ipa, level |-> m.level]
  BY <1>1, <1>2, <1>3
<1> QED BY <1>2, <1>3, <1>4

(* val_host_update_destroy_granule_state takes nodes out of the lists and  *)
(* puts none in; only an RD's node frees a slot.                           *)
LEMMA DestroyTakes ==
  ASSUME TypeOK, NEW r, NEW k \in Kind, NEW pa, NEW a, NEW l, NEW t,
         update_destroy_granule_state(r, k, pa, a, l, t)
  PROVE  /\ \A kk \in Kind, i \in AllSlots : list'[kk][i] \subseteq list[kk][i]
         /\ k # "RD" => memrd' = memrd
<1>1. list \in [Kind -> [AllSlots -> SUBSET Node]]
  BY DEF TypeOK
<1>2. CASE UNCHANGED <<ns, memrd, list>>
  BY <1>2
<1>3. CASE \E i, m : back_to_ns(k, i, m)
  <2>1. PICK i, m : back_to_ns(k, i, m)
    BY <1>3
  <2>2. list' = [list EXCEPT ![k][i] = @ \ {m}] /\ (k # "RD" => memrd' = memrd)
    BY <2>1 DEF back_to_ns
  <2> QED BY <1>1, <2>2
<1> QED
  BY <1>2, <1>3 DEF update_destroy_granule_state

(* A change of an auxiliary flag touches the lists of one kind only.       *)
LEMMA FlagTouches ==
  ASSUME TypeOK, NEW r, NEW k \in Kind, NEW a, NEW t, NEW v,
         update_aux_rtt_info(r, k, a, t, v)
  PROVE  /\ \A kk \in Kind, i \in AllSlots : kk # k => list'[kk][i] = list[kk][i]
         /\ memrd' = memrd
<1>1. list \in [Kind -> [AllSlots -> SUBSET Node]]
  BY DEF TypeOK
<1>2. memrd' = memrd
  BY DEF update_aux_rtt_info
<1>3. list' = list \/ \E i, L : list' = [list EXCEPT ![k][i] = L]
  BY DEF update_aux_rtt_info
<1> QED BY <1>1, <1>2, <1>3

-----------------------------------------------------------------------------
(* The list that the current loop flags before it empties it.              *)
Current(k) == (phase = "data" /\ k = "DATA") \/ (phase = "valid_ns" /\ k = "UNPROTECTED")

(* A step that leaves the place in the code alone and only takes nodes out *)
(* of the realm's lists; the list of the current loop may change freely.   *)
LEMMA LoopKeeps ==
  ASSUME PInv, IInv', ParentInv', phase \in RealmPhases,
         UNCHANGED <<phase, slot, level, tree, caller, memrd>>,
         NEW k, k \in Kind => Current(k),
         \A kk \in Kind \ {k} : list'[kk][slot] \subseteq list[kk][slot],
         \/ cur' = NoAddr
         \/ phase \in {"rec", "data", "rtt"} /\ cur' \in PA /\ gran'[cur'].st = "DELEGATED"
  PROVE  PInv'
<1>1. PostType'
  BY DEF PInv, PostType
<1>2. PlaceInv'
  BY DEF PInv, PlaceInv
<1>3. LoopsInv'
  <2>1. /\ Listed("REC")' \subseteq Listed("REC")
        /\ Listed("RTT")' \subseteq Listed("RTT")
        /\ Listed("RTT_AUX")' \subseteq Listed("RTT_AUX")
    BY DEF Listed, Kind, Current
  <2>2. phase # "data" => Listed("DATA")' \subseteq Listed("DATA")
    BY DEF Listed, Kind, Current
  <2>3. phase # "valid_ns" => Listed("UNPROTECTED")' \subseteq Listed("UNPROTECTED")
    BY DEF Listed, Kind, Current
  <2> QED BY <2>1, <2>2, <2>3 DEF PInv, LoopsInv
<1>4. RealmsInv' /\ CleansUp' /\ FailsOnlyForDevices'
  BY DEF PInv, RealmsInv, CleansUp, FailsOnlyForDevices, RealmPhases
<1> QED BY <1>1, <1>2, <1>3, <1>4 DEF PInv

(* A command of a loop that succeeds.                                      *)
LEMMA StepTakes ==
  ASSUME PInv, phase \in RealmPhases, Next,
         UNCHANGED <<phase, slot, level, tree, caller, memrd>>,
         NEW k, k \in Kind => Current(k),
         \A kk \in Kind, i \in AllSlots : kk # k => list'[kk][i] \subseteq list[kk][i],
         \/ cur' = NoAddr
         \/ phase \in {"rec", "data", "rtt"} /\ cur' \in PA /\ gran'[cur'].st = "DELEGATED"
  PROVE  PInv'
<1>1. IInv'
  BY StepIInv DEF PInv
<1>2. ParentInv'
  BY ParentStep DEF PInv
<1>3. slot \in AllSlots
  BY RealmAt, NumRealmsAssumption, SMTT(60) DEF Slots, AllSlots
<1> QED BY <1>1, <1>2, <1>3, LoopKeeps

(* The undelegation of a granule that a loop has just released.            *)
LEMMA UndelegateCurKeeps ==
  ASSUME PInv, UndelegateCur
  PROVE  PInv' /\ phase' = phase
<1>1. cur \in PA /\ phase \in {"rec", "data", "rtt"} /\ gran[cur].st = "DELEGATED"
  BY DEF PInv, PostType, PlaceInv, UndelegateCur
<1>2. /\ rmi_granule_undelegate(cur) /\ cur' = NoAddr
      /\ UNCHANGED <<phase, slot, level, tree, caller>>
  BY <1>1 DEF UndelegateCur, CanUndelegate
<1>3. memrd' = memrd /\ list' = list
  BY <1>2 DEF rmi_granule_undelegate, forget_granule
<1>4. Next
  BY <1>1, <1>2 DEF Next
<1>5. phase \in RealmPhases
  BY <1>1 DEF RealmPhases
<1>6. "none" \notin Kind
  BY DEF Kind
<1> QED BY <1>2, <1>3, <1>4, <1>5, <1>6, StepTakes

(* Released granules are DELEGATED.                                        *)
LEMMA Released ==
  ASSUME NEW S, NEW p \in S, p \in PA, gran' = Release(S)
  PROVE  gran'[p].st = "DELEGATED"
BY DEF Release, Plain, Granule

(* The loop over the RECs: the RMM accepts every command.                  *)
LEMMA DestroyRecKeeps ==
  ASSUME PInv, DestroyRec
  PROVE  PInv' /\ phase' = phase
<1>1. phase = "rec" /\ phase \in RealmPhases /\ "REC" \in RealmStates /\ "REC" \in Kind
  BY DEF DestroyRec, RealmPhases, RealmStates, Kind
<1>2. PICK m \in Listed("REC") : Command(CanRecDestroy(m.pa), rmi_rec_destroy(m.pa), m.pa)
  BY DEF DestroyRec
<1>3. m.pa \in PA /\ gran[m.pa].st = "REC"
  BY <1>1, <1>2, GranuleNodes
<1>4. CanRecDestroy(m.pa)
  BY <1>3 DEF CanRecDestroy, InState
<1>5. /\ rmi_rec_destroy(m.pa) /\ cur' = m.pa
      /\ UNCHANGED <<phase, slot, level, tree, caller>>
  BY <1>2, <1>4 DEF Command
<1>6. gran'[m.pa].st = "DELEGATED"
  BY <1>3, <1>5, Released DEF rmi_rec_destroy, RecDestroy
<1>7. /\ memrd' = memrd
      /\ \A kk \in Kind, i \in AllSlots : list'[kk][i] \subseteq list[kk][i]
  BY <1>1, <1>5, DestroyTakes DEF rmi_rec_destroy, PInv, IInv
<1>8. Next
  BY <1>3, <1>5 DEF Next
<1>9. "none" \notin Kind
  BY DEF Kind
<1> QED BY <1>1, <1>3, <1>5, <1>6, <1>7, <1>8, <1>9, StepTakes

(* A mapping of an auxiliary tree is removed, in either of two loops.      *)
LEMMA AuxUnmapKeeps ==
  ASSUME PInv, NEW k \in Kind, Current(k),
         NEW a \in AnyIpa, AuxKind(a) = k, NEW t \in AuxTrees(Rd, a),
         Command(CanAuxUnmap(Rd, a, t), rmi_rtt_aux_unmap(Rd, a, t), NoAddr)
  PROVE  PInv' /\ phase' = phase
<1>1. phase \in RealmPhases
  BY DEF RealmPhases, Current
<1>2. Rd \in InState("RD") /\ Rd \in PA
  BY <1>1, RealmAt
<1>3. CanAuxUnmap(Rd, a, t) /\ t \in Aux
  BY <1>2 DEF CanAuxUnmap, AuxTrees
<1>4. /\ rmi_rtt_aux_unmap(Rd, a, t) /\ cur' = NoAddr
      /\ UNCHANGED <<phase, slot, level, tree, caller>>
  BY <1>3 DEF Command
<1>5. /\ memrd' = memrd
      /\ \A kk \in Kind, i \in AllSlots : kk # k => list'[kk][i] = list[kk][i]
  BY <1>4, FlagTouches DEF rmi_rtt_aux_unmap, PInv, IInv
<1>6. Next
  BY <1>2, <1>3, <1>4 DEF Next
<1>7. \A kk \in Kind, i \in AllSlots : kk # k => list'[kk][i] \subseteq list[kk][i]
  BY <1>5
<1> QED BY <1>1, <1>4, <1>5, <1>6, <1>7, StepTakes

(* The loop over the data granules: first the auxiliary trees, then the    *)
(* page, so that the RMM accepts both.                                     *)
LEMMA DestroyDataKeeps ==
  ASSUME PInv, DestroyData
  PROVE  PInv' /\ phase' = phase
<1>1. phase = "data" /\ phase \in RealmPhases /\ "DATA" \in RealmStates /\ "DATA" \in Kind
  BY DEF DestroyData, RealmPhases, RealmStates, Kind
<1>2. PICK m \in Listed("DATA") :
        \/ \E t \in m.aux :
             Command(CanAuxUnmap(Rd, m.ipa, t), rmi_rtt_aux_unmap(Rd, m.ipa, t), NoAddr)
        \/ /\ m.aux = {}
           /\ Command(CanDataDestroy(Rd, m.ipa), rmi_data_destroy(Rd, m.ipa), m.pa)
  BY DEF DestroyData
<1>3. /\ m.pa \in PA /\ m.pa \in Owned("DATA", Rd) /\ gran[m.pa].st = "DATA"
      /\ m.ipa = gran[m.pa].ipa /\ m.aux = AuxTrees(Rd, m.ipa)
  BY <1>1, <1>2, GranuleNodes
<1>4. m.ipa \in IPA /\ m.ipa \in AnyIpa /\ AuxKind(m.ipa) = "DATA"
  BY <1>3 DEF PInv, IInv, RmmInv, InState, AnyIpa, AuxKind
<1>5. CASE \E t \in m.aux :
             Command(CanAuxUnmap(Rd, m.ipa, t), rmi_rtt_aux_unmap(Rd, m.ipa, t), NoAddr)
  <2>1. PICK t \in AuxTrees(Rd, m.ipa) :
          Command(CanAuxUnmap(Rd, m.ipa, t), rmi_rtt_aux_unmap(Rd, m.ipa, t), NoAddr)
    BY <1>3, <1>5
  <2>2. Current("DATA")
    BY <1>1 DEF Current
  <2> QED BY <1>1, <1>4, <2>1, <2>2, AuxUnmapKeeps
<1>6. CASE m.aux = {} /\ Command(CanDataDestroy(Rd, m.ipa), rmi_data_destroy(Rd, m.ipa), m.pa)
  <2>1. m.pa \in DataAt(Rd, m.ipa) /\ Rd \in InState("RD") /\ Rd \in PA
    BY <1>1, <1>3, RealmAt DEF DataAt
  <2>2. CanDataDestroy(Rd, m.ipa)
    BY <1>3, <1>6, <2>1 DEF CanDataDestroy
  <2>3. /\ rmi_data_destroy(Rd, m.ipa) /\ cur' = m.pa
        /\ UNCHANGED <<phase, slot, level, tree, caller>>
    BY <1>6, <2>2 DEF Command
  <2>4. gran'[m.pa].st = "DELEGATED"
    BY <1>3, <2>1, <2>3, Released DEF rmi_data_destroy, DataDestroy
  <2>5. /\ memrd' = memrd
        /\ \A kk \in Kind, i \in AllSlots : list'[kk][i] \subseteq list[kk][i]
    BY <1>1, <2>3, DestroyTakes DEF rmi_data_destroy, PInv, IInv
  <2>6. Next
    BY <1>4, <2>1, <2>3 DEF Next
  <2>7. "none" \notin Kind
    BY DEF Kind
  <2> QED BY <1>1, <1>3, <2>3, <2>4, <2>5, <2>6, <2>7, StepTakes
<1> QED BY <1>2, <1>5, <1>6

(* The loop over the unprotected mappings.                                 *)
LEMMA UnmapUnprotectedKeeps ==
  ASSUME PInv, UnmapUnprotected
  PROVE  PInv' /\ phase' = phase
<1>1. phase = "valid_ns" /\ phase \in RealmPhases /\ "UNPROTECTED" \in Kind
  BY DEF UnmapUnprotected, RealmPhases, Kind
<1>2. PICK m \in Listed("UNPROTECTED") :
        \/ \E t \in m.aux :
             Command(CanAuxUnmap(Rd, m.ipa, t), rmi_rtt_aux_unmap(Rd, m.ipa, t), NoAddr)
        \/ /\ m.aux = {}
           /\ Command(CanUnmap(Rd, m.ipa, m.level),
                      rmi_rtt_unmap_unprotected(Rd, m.ipa, m.level), NoAddr)
  BY DEF UnmapUnprotected
<1>3. /\ [rd |-> Rd, ipa |-> m.ipa, level |-> m.level] \in umap
      /\ m.ipa \in UIPA /\ m.level \in Level /\ m.aux = AuxTrees(Rd, m.ipa)
  BY <1>1, <1>2, MappingNodes
<1>4. m.ipa \in AnyIpa /\ AuxKind(m.ipa) = "UNPROTECTED"
  BY <1>3, AddrAssumption DEF AnyIpa, AuxKind
<1>5. CASE \E t \in m.aux :
             Command(CanAuxUnmap(Rd, m.ipa, t), rmi_rtt_aux_unmap(Rd, m.ipa, t), NoAddr)
  <2>1. PICK t \in AuxTrees(Rd, m.ipa) :
          Command(CanAuxUnmap(Rd, m.ipa, t), rmi_rtt_aux_unmap(Rd, m.ipa, t), NoAddr)
    BY <1>3, <1>5
  <2>2. Current("UNPROTECTED")
    BY <1>1 DEF Current
  <2> QED BY <1>1, <1>4, <2>1, <2>2, AuxUnmapKeeps
<1>6. CASE /\ m.aux = {}
           /\ Command(CanUnmap(Rd, m.ipa, m.level),
                      rmi_rtt_unmap_unprotected(Rd, m.ipa, m.level), NoAddr)
  <2>1. Rd \in InState("RD") /\ Rd \in PA
    BY <1>1, RealmAt
  <2>2. CanUnmap(Rd, m.ipa, m.level)
    BY <1>3, <1>6, <2>1 DEF CanUnmap
  <2>3. /\ rmi_rtt_unmap_unprotected(Rd, m.ipa, m.level) /\ cur' = NoAddr
        /\ UNCHANGED <<phase, slot, level, tree, caller>>
    BY <1>6, <2>2 DEF Command
  <2>4. /\ memrd' = memrd
        /\ \A kk \in Kind, i \in AllSlots : list'[kk][i] \subseteq list[kk][i]
    BY <1>1, <2>3, DestroyTakes DEF rmi_rtt_unmap_unprotected, PInv, IInv
  <2>5. Next
    BY <1>3, <2>1, <2>3 DEF Next
  <2>6. "none" \notin Kind
    BY DEF Kind
  <2> QED BY <1>1, <2>3, <2>4, <2>5, <2>6, StepTakes
<1> QED BY <1>2, <1>5, <1>6

(* In the loop over the tables the realm has no mapping left: nothing in   *)
(* the auxiliary trees without a page or mapping in the primary one.       *)
LEMMA NothingMapped ==
  ASSUME PInv, phase \in {"rtt", "rd"}
  PROVE  /\ Owned("REC", Rd) = {} /\ Owned("DATA", Rd) = {}
         /\ \A u \in umap : u.rd # Rd
         /\ \A m \in auxmap : m.rd # Rd
<1>1. /\ phase \in RealmPhases
      /\ "REC" \in Kind /\ "DATA" \in Kind /\ "UNPROTECTED" \in Kind
      /\ Listed("REC") = {} /\ Listed("DATA") = {} /\ Listed("UNPROTECTED") = {}
  BY DEF RealmPhases, Kind, PInv, LoopsInv
<1>2. Held("REC", Rd) = {} /\ Held("DATA", Rd) = {} /\ Held("UNPROTECTED", Rd) = {}
  BY <1>1, RealmAt
<1>3. Owned("REC", Rd) = {} /\ Owned("DATA", Rd) = {}
  BY <1>2 DEF Held
<1>4. \A u \in umap : u.rd # Rd
  BY <1>2 DEF Held
<1>5. ASSUME NEW m \in auxmap, m.rd = Rd PROVE FALSE
  <2>1. m.ipa \in IPA \/ m.ipa \in UIPA
    BY DEF PInv, IInv, TypeOK, RmmTypeOK, AnyIpa
  <2>2. m.ipa \in IPA => DataAt(Rd, m.ipa) # {}
    BY <1>5 DEF PInv, IInv, RmmInv
  <2>3. m.ipa \in UIPA => \E u \in umap : u.rd = Rd
    BY <1>5 DEF PInv, IInv, RmmInv
  <2> QED BY <1>3, <1>4, <2>1, <2>2, <2>3 DEF DataAt
<1> QED BY <1>3, <1>4, <1>5

(* The loops over the levels and trees: a table that the loop has come to  *)
(* has no table below it any more, so the RMM accepts its destruction.     *)
LEMMA DestroyRttKeeps ==
  ASSUME PInv, DestroyRtt
  PROVE  PInv' /\ phase' = phase
<1> DEFINE k == TableState(tree)
<1>1. /\ phase = "rtt" /\ phase \in RealmPhases /\ k \in RealmStates /\ k \in Kind /\ k # "RD"
      /\ k \in {"RTT", "RTT_AUX"}
  BY DEF DestroyRtt, RealmPhases, RealmStates, Kind, TableState
<1>2. PICK m \in LevelTables :
        Command(CanRttDestroy(Rd, m.ipa, m.level, tree),
                rmi_rtt_destroy(Rd, m.ipa, m.level, tree), m.pa)
  BY DEF DestroyRtt
<1>3. m \in Listed(k) /\ m.level = level /\ m.tree = tree
  BY <1>2 DEF LevelTables
<1>4. /\ m.pa \in Owned(k, Rd) /\ m.pa \in PA /\ gran[m.pa].st = k
      /\ m.ipa = gran[m.pa].ipa /\ m.level = gran[m.pa].level /\ m.tree = gran[m.pa].tree
  <2> HIDE DEF k
  <2> QED BY <1>1, <1>3, GranuleNodes
<1>5. m.pa \in Table(Rd, m.ipa, m.level, tree)
  BY <1>3, <1>4 DEF Table
<1>6. Rd \in InState("RD") /\ Rd \in PA /\ tree \in Tree
  BY <1>1, RealmAt DEF PInv, PostType
<1>7. m.ipa \in AnyIpa /\ m.level \in Level
  <2>1. m.ipa \in AnyIpa /\ m.level > StartLevel /\ m.level \in 0 .. 3
    BY <1>1, <1>4 DEF PInv, ParentInv, IInv, TypeOK, RmmTypeOK, InState
  <2> QED BY <2>1, GeometryAssumption, SMTT(60) DEF Level
<1>8. ~Live(Rd, m.ipa, m.level, tree)
  <2>1. ASSUME NEW p \in Owned(k, Rd), gran[p].tree = tree, gran[p].level = m.level + 1
        PROVE  FALSE
    <3>1. GranuleNode(k, Rd, p) \in Listed(k)
      BY <1>1, RealmAt DEF Held
    <3>2. GranuleNode(k, Rd, p).tree = tree /\ GranuleNode(k, Rd, p).level = m.level + 1
      BY <2>1 DEF GranuleNode
    <3>3. tree < tree \/ m.level + 1 <= level
      BY <1>1, <3>1, <3>2 DEF PInv, LoopsInv, TableState
    <3> QED BY <1>3, <1>6, <3>3, SMTT(60) DEF PInv, PostType, Tree
  <2> QED BY <1>1, <2>1, NothingMapped DEF Live
<1>9. CanRttDestroy(Rd, m.ipa, m.level, tree)
  BY <1>5, <1>6, <1>8 DEF CanRttDestroy
<1>10. /\ rmi_rtt_destroy(Rd, m.ipa, m.level, tree) /\ cur' = m.pa
       /\ UNCHANGED <<phase, slot, level, tree, caller>>
  BY <1>2, <1>9 DEF Command
<1>11. gran'[m.pa].st = "DELEGATED"
  BY <1>4, <1>5, <1>10, Released DEF rmi_rtt_destroy, RttDestroy
<1>12. /\ memrd' = memrd
       /\ \A kk \in Kind, i \in AllSlots : list'[kk][i] \subseteq list[kk][i]
  <2>1. update_destroy_granule_state(Rd, k, NoAddr, m.ipa, m.level, tree)
    BY <1>10 DEF rmi_rtt_destroy
  <2> HIDE DEF k
  <2> QED BY <1>1, <2>1, DestroyTakes DEF PInv, IInv
<1>13. Next
  BY <1>6, <1>7, <1>10 DEF Next
<1>14. "none" \notin Kind
  BY DEF Kind
<1> QED BY <1>1, <1>4, <1>10, <1>11, <1>12, <1>13, <1>14, StepTakes

(* No realm, no table, REC or page: what is left is delegated or a device  *)
(* object.                                                                 *)
LEMMA NoRealmLeft ==
  ASSUME IInv, ParentInv, \A i \in Slots : memrd[i] = NoAddr
  PROVE  /\ umap = {} /\ auxmap = {}
         /\ \A p \in PA : gran[p].st \in {"UNDELEGATED", "DELEGATED", "DEV"}
         /\ \A k \in Kind, i \in AllSlots : list[k][i] = {}
<1>1. InState("RD") = {}
  BY AddrAssumption, SMTT(60) DEF IInv, Mirror, InState
<1>2. umap = {} /\ auxmap = {}
  BY <1>1 DEF IInv, RmmInv
<1>3. \A p \in PA : gran[p].st \notin RealmStates
  BY <1>1 DEF IInv, RmmInv
<1>4. \A p \in PA : gran[p].st \in States
  BY DEF IInv, TypeOK, RmmTypeOK
<1>5. \A p \in PA : gran[p].st # "START" /\ gran[p].st # "REC_AUX" /\ gran[p].st # "RD"
  BY <1>1, <1>3 DEF ParentInv, InState, RealmStates
<1>6. \A i \in AllSlots : i = 0 \/ i \in Slots
  BY NumRealmsAssumption, SMTT(60) DEF AllSlots, Slots
<1>7. \A k \in Kind, i \in AllSlots : list[k][i] = {}
  BY <1>6 DEF IInv, TrackInv, Mirror
<1> QED BY <1>2, <1>3, <1>4, <1>5, <1>7 DEF States, RealmStates

(* The steps from one loop of val_host_realm_destroy to the next.          *)
LEMMA EndLoopKeeps ==
  ASSUME PInv, EndLoop, UNCHANGED <<gran, umap, auxmap, ns, memrd, list, fault>>,
         IInv', ParentInv'
  PROVE  PInv' /\ phase' \in RealmPhases
<1>1. /\ cur' = NoAddr /\ slot' = slot /\ caller' = caller
      /\ phase \in {"rec", "data", "valid_ns", "rtt"}
      /\ phase' \in {"data", "valid_ns", "rtt", "rd"}
  BY DEF EndLoop, Go
<1>2. phase \in RealmPhases /\ phase' \in RealmPhases
  BY <1>1 DEF RealmPhases
<1>3. PostType'
  <2>1. /\ slot \in 1 .. NumRealms + 1 /\ level \in 1 .. 3 /\ tree \in Tree
        /\ caller \in {"test", "postamble"}
    BY DEF PInv, PostType
  <2>2. level' \in 1 .. 3 /\ tree' \in Tree
    BY <2>1, CountAssumption, SMTT(60) DEF EndLoop, Go, Tree
  <2> QED BY <1>1, <1>2, <2>1, <2>2 DEF PostType
<1>4. PlaceInv'
  BY <1>1, <1>2 DEF PInv, PlaceInv
<1>5. \A kk : Listed(kk)' = Listed(kk)
  BY <1>1 DEF Listed
<1>6. LoopsInv'
  <2>0. ASSUME NEW k \in {"RTT", "RTT_AUX"}, NEW m \in Listed(k)
        PROVE  m.tree \in Tree /\ m.level \in 1 .. 3 /\ k = TableState(m.tree)
    <3>1. k \in RealmStates
      BY DEF RealmStates
    <3>2. m.pa \in PA /\ gran[m.pa].st = k /\ m.level = gran[m.pa].level /\ m.tree = gran[m.pa].tree
      BY <1>2, <3>1, GranuleNodes
    <3>3. m.level > StartLevel /\ m.level \in 0 .. 3 /\ m.tree \in Tree
      BY <3>2, SMTT(60) DEF PInv, ParentInv, IInv, TypeOK, RmmTypeOK, InState
    <3>4. k = TableState(m.tree)
      BY <3>2, SMTT(60) DEF PInv, IInv, RmmInv, InState, TableState
    <3> QED BY <3>3, <3>4, GeometryAssumption, SMTT(60)
  <2>1. CASE phase = "rec" /\ Listed("REC") = {} /\ Go("data")
    BY <1>5, <2>1 DEF LoopsInv, Go
  <2>2. CASE phase = "data" /\ Listed("DATA") = {} /\ Go("valid_ns")
    BY <1>5, <2>2 DEF PInv, LoopsInv, Go
  <2>3. CASE /\ phase = "valid_ns" /\ Listed("UNPROTECTED") = {}
             /\ phase' = "rtt" /\ level' = 3 /\ tree' = 0
    <3>1. \A m \in Listed("RTT") \cup Listed("RTT_AUX") : 0 < m.tree \/ (0 = m.tree /\ m.level <= 3)
      BY <2>0, CountAssumption, SMTT(60) DEF Tree
    <3> QED BY <1>5, <2>3, <3>1 DEF PInv, LoopsInv
  <2>4. CASE phase = "rtt" /\ LevelTables = {}
    <3>1. ASSUME NEW k \in {"RTT", "RTT_AUX"}, NEW m \in Listed(k)
          PROVE  tree < m.tree \/ (tree = m.tree /\ m.level <= level /\ m.level # level)
      <4>1. tree < m.tree \/ (tree = m.tree /\ m.level <= level)
        BY <2>4 DEF PInv, LoopsInv
      <4>2. ~(tree = m.tree /\ m.level = level)
        BY <2>0, <2>4 DEF LevelTables
      <4> QED BY <4>1, <4>2
    <3>2. level \in 1 .. 3 /\ tree \in Tree
      BY DEF PInv, PostType
    <3>3. CASE level > 1 /\ level' = level - 1 /\ tree' = tree /\ phase' = "rtt"
      <4>1. \A m \in Listed("RTT") \cup Listed("RTT_AUX") :
              tree' < m.tree \/ (tree' = m.tree /\ m.level <= level')
        BY <2>0, <3>1, <3>2, <3>3, SMTT(60)
      <4> QED BY <1>5, <2>4, <3>3, <4>1 DEF PInv, LoopsInv
    <3>4. CASE level = 1 /\ level' = 3 /\ tree' = tree + 1 /\ phase' = "rtt"
      <4>1. \A m \in Listed("RTT") \cup Listed("RTT_AUX") :
              tree' < m.tree \/ (tree' = m.tree /\ m.level <= level')
        BY <2>0, <3>1, <3>2, <3>4, CountAssumption, SMTT(60) DEF Tree
      <4> QED BY <1>5, <2>4, <3>4, <4>1 DEF PInv, LoopsInv
    <3>5. CASE level = 1 /\ tree = NumAux /\ phase' = "rd"
      <4>1. Listed("RTT") = {} /\ Listed("RTT_AUX") = {}
        BY <2>0, <3>1, <3>5, CountAssumption, SMTT(60) DEF Tree
      <4> QED BY <1>5, <2>4, <3>5, <4>1 DEF PInv, LoopsInv
    <3> QED BY <2>4, <3>3, <3>4, <3>5 DEF EndLoop, Go
  <2> QED BY <2>1, <2>2, <2>3, <2>4 DEF EndLoop
<1>7. RealmsInv' /\ CleansUp' /\ FailsOnlyForDevices'
  BY <1>1, <1>2 DEF PInv, RealmsInv, CleansUp, FailsOnlyForDevices, RealmPhases
<1> QED BY <1>2, <1>3, <1>4, <1>6, <1>7 DEF PInv

(* RMI_REALM_DESTROY on a realm whose loops are over is accepted, and the  *)
(* tracker frees its slot.                                                 *)
LEMMA RdGone ==
  ASSUME PInv, DestroyRd
  PROVE  /\ rmi_realm_destroy(Rd) /\ Rd \in PA /\ Return(TRUE)
         /\ memrd' = [memrd EXCEPT ![slot] = NoAddr]
<1>1. phase = "rd" /\ phase \in RealmPhases /\ "RD" \in Kind
  BY DEF DestroyRd, RealmPhases, Kind
<1>2. Rd \in InState("RD") /\ Rd \in PA /\ get_curr_realm(Rd) = slot
  BY <1>1, RealmAt
<1>3. Owned("RTT", Rd) = {} /\ Owned("RTT_AUX", Rd) = {}
  <2>1. /\ "RTT" \in Kind /\ "RTT_AUX" \in Kind
        /\ Listed("RTT") = {} /\ Listed("RTT_AUX") = {}
    BY <1>1 DEF Kind, PInv, LoopsInv
  <2>2. Held("RTT", Rd) = {} /\ Held("RTT_AUX", Rd) = {}
    BY <1>1, <2>1, RealmAt
  <2> QED BY <2>2 DEF Held
<1>4. CanRealmDestroy(Rd)
  BY <1>1, <1>2, <1>3, NothingMapped DEF CanRealmDestroy
<1>5. rmi_realm_destroy(Rd) /\ Return(TRUE)
  BY <1>4 DEF DestroyRd
<1>6. ~fault'
  <2>1. Next
    BY <1>2, <1>5 DEF Next
  <2> QED BY <2>1, StepIInv DEF PInv, IInv, NoNullNode
<1>7. memrd' = [memrd EXCEPT ![slot] = NoAddr]
  <2>1. update_destroy_granule_state(Rd, "RD", Rd, NoAddr, 0, 0)
    BY <1>5 DEF rmi_realm_destroy
  <2>2. \E m : back_to_ns("RD", slot, m)
    BY <1>2, <1>6, <2>1 DEF update_destroy_granule_state
  <2> QED BY <2>2 DEF back_to_ns
<1> QED BY <1>2, <1>5, <1>7

(* The places outside val_host_realm_destroy with nothing to remember.     *)
LEMMA LeaveKeeps ==
  ASSUME IInv', ParentInv', Leave("test")
  PROVE  PInv'
<1>1. /\ phase' = "test" /\ slot' = 1 /\ level' = 3 /\ tree' = 0
      /\ cur' = NoAddr /\ caller' = "test"
  BY DEF Leave
<1>2. PostType'
  BY <1>1, CountAssumption, NumRealmsAssumption, SMTT(60) DEF PostType, Tree
<1>3. PlaceInv' /\ LoopsInv' /\ RealmsInv' /\ CleansUp' /\ FailsOnlyForDevices'
  BY <1>1 DEF PlaceInv, LoopsInv, RealmsInv, CleansUp, FailsOnlyForDevices, RealmPhases
<1> QED BY <1>2, <1>3 DEF PInv

\* The destroy of the RD returns to the test or to the postamble's loop.
LEMMA DestroyRdKeeps ==
  ASSUME PInv, DestroyRd
  PROVE  PInv' /\ memrd'[slot] = NoAddr
<1>1. phase = "rd" /\ phase \in RealmPhases
  BY DEF DestroyRd, RealmPhases
<1>2. Next
  BY RdGone DEF Next
<1>3. IInv' /\ ParentInv'
  BY <1>2, StepIInv, ParentStep DEF PInv
<1>4. slot \in Slots /\ memrd \in [AllSlots -> PA \cup {NoAddr}] /\ Slots \subseteq AllSlots
  BY <1>1, RealmAt, NumRealmsAssumption, SMTT(60) DEF PInv, IInv, TypeOK, Slots, AllSlots
<1>5. memrd'[slot] = NoAddr /\ \A i \in Slots : i # slot => memrd'[i] = memrd[i]
  BY <1>4, RdGone
<1>6. CASE caller = "test" /\ Leave("test")
  BY <1>3, <1>5, <1>6, LeaveKeeps
<1>7. CASE caller = "postamble" /\ Go("next")
  <2>1. /\ phase' = "next" /\ UNCHANGED <<slot, level, tree, cur, caller>>
        /\ cur = NoAddr
    BY <1>1, <1>7 DEF Go, PInv, PlaceInv
  <2>2. PostType'
    BY <2>1 DEF PInv, PostType
  <2>3. RealmsInv'
    <3>1. \A i \in Slots : i < slot => memrd[i] = NoAddr
      BY <1>7 DEF PInv, RealmsInv
    <3>2. \A i \in Slots : i < slot => memrd'[i] = NoAddr
      BY <1>5, <3>1, SMTT(60)
    <3> QED BY <2>1, <3>2 DEF RealmsInv
  <2>4. PlaceInv' /\ LoopsInv' /\ CleansUp' /\ FailsOnlyForDevices'
    BY <2>1 DEF PlaceInv, LoopsInv, CleansUp, FailsOnlyForDevices, RealmPhases
  <2> QED BY <1>3, <1>5, <2>2, <2>3, <2>4 DEF PInv
<1> QED BY <1>6, <1>7, RdGone DEF Return

(* The steps that change no granule and no list.                           *)
LEMMA SameState ==
  ASSUME PInv, UNCHANGED <<rmm, track>>
  PROVE  IInv' /\ ParentInv' /\ UNCHANGED <<gran, umap, auxmap, ns, memrd, list, fault>>
<1>1. UNCHANGED mvars
  BY DEF mvars
<1>2. IInv' /\ ParentInv'
  BY <1>1, StepIInv, ParentStep DEF PInv
<1> QED BY <1>2 DEF rmm, track

(* The postamble's loop over the slots: it leaves no realm behind it.      *)
LEMMA NextRealmKeeps ==
  ASSUME PInv, NextRealm
  PROVE  PInv'
<1>1. /\ IInv' /\ ParentInv' /\ UNCHANGED <<gran, umap, auxmap, ns, memrd, list, fault>>
      /\ phase = "next" /\ cur = NoAddr
      /\ slot \in 1 .. NumRealms + 1
      /\ \A i \in Slots : i < slot => memrd[i] = NoAddr
  BY SameState DEF NextRealm, PInv, PlaceInv, PostType, RealmsInv
<1>2. CASE slot > NumRealms /\ Go("ns")
  <2>1. \A i \in Slots : memrd'[i] = NoAddr
    BY <1>1, <1>2, NumRealmsAssumption, SMTT(60) DEF Slots
  <2>2. phase' = "ns" /\ UNCHANGED <<slot, level, tree, cur, caller>>
    BY <1>2 DEF Go
  <2>3. PostType'
    BY <2>2 DEF PInv, PostType
  <2>4. PlaceInv' /\ LoopsInv' /\ RealmsInv' /\ CleansUp' /\ FailsOnlyForDevices'
    BY <1>1, <2>1, <2>2 DEF PlaceInv, LoopsInv, RealmsInv, CleansUp, FailsOnlyForDevices, RealmPhases
  <2> QED BY <1>1, <2>3, <2>4 DEF PInv
<1>3. CASE slot \in Slots /\ memrd[slot] # NoAddr /\ Go("rec")
  <2>1. phase' = "rec" /\ UNCHANGED <<slot, level, tree, cur, caller>>
    BY <1>3 DEF Go
  <2>2. PostType'
    BY <2>1 DEF PInv, PostType, RealmPhases
  <2>3. PlaceInv' /\ LoopsInv' /\ RealmsInv' /\ CleansUp' /\ FailsOnlyForDevices'
    BY <1>1, <1>3, <2>1 DEF PlaceInv, LoopsInv, RealmsInv, CleansUp, FailsOnlyForDevices, RealmPhases
  <2> QED BY <1>1, <2>2, <2>3 DEF PInv
<1>4. CASE /\ slot \in Slots /\ memrd[slot] = NoAddr /\ slot' = slot + 1
           /\ UNCHANGED <<phase, level, tree, cur, caller>>
  <2>1. slot' \in 1 .. NumRealms + 1 /\ \A i \in Slots : i < slot' => memrd'[i] = NoAddr
    BY <1>1, <1>4, NumRealmsAssumption, SMTT(60) DEF Slots
  <2>2. PostType'
    BY <1>4, <2>1 DEF PInv, PostType
  <2>3. PlaceInv' /\ LoopsInv' /\ RealmsInv' /\ CleansUp' /\ FailsOnlyForDevices'
    BY <1>1, <1>4, <2>1 DEF PlaceInv, LoopsInv, RealmsInv, CleansUp, FailsOnlyForDevices, RealmPhases
  <2> QED BY <1>1, <2>2, <2>3 DEF PInv
<1> QED BY <1>2, <1>3, <1>4 DEF NextRealm

(* The postamble's loop over the NS list: it fails only on the granule of  *)
(* a device object.                                                        *)
LEMMA UndelegateNsKeeps ==
  ASSUME PInv, UndelegateNs
  PROVE  PInv'
<1>1. /\ phase = "ns" /\ cur = NoAddr /\ \A i \in Slots : memrd[i] = NoAddr
      /\ IInv /\ ParentInv
  BY DEF UndelegateNs, PInv, PlaceInv, RealmsInv
<1>2. ASSUME NEW m \in DelegatedNodes PROVE m.pa \in PA /\ m.pa \in OnlyDelegated
  BY <1>1 DEF DelegatedNodes, IInv, TrackInv, Mirror
<1>3. ASSUME NEW m \in DelegatedNodes, rmi_granule_undelegate(m.pa), UNCHANGED post
      PROVE  PInv'
  <2>1. Next
    BY <1>2, <1>3 DEF Next
  <2>2. IInv' /\ ParentInv'
    BY <1>1, <2>1, StepIInv, ParentStep
  <2>3. memrd' = memrd /\ UNCHANGED <<phase, slot, level, tree, cur, caller>>
    BY <1>3 DEF rmi_granule_undelegate, forget_granule, post
  <2>4. PostType'
    BY <2>3 DEF PInv, PostType
  <2>5. PlaceInv' /\ LoopsInv' /\ RealmsInv' /\ CleansUp' /\ FailsOnlyForDevices'
    BY <1>1, <2>3 DEF PInv, PlaceInv, LoopsInv, RealmsInv, CleansUp, FailsOnlyForDevices, RealmPhases
  <2> QED BY <2>2, <2>4, <2>5 DEF PInv
<1>4. ASSUME NEW m \in DelegatedNodes, ~CanUndelegate(m.pa), Leave("error"), UNCHANGED <<rmm, track>>
      PROVE  PInv'
  <2>1. IInv' /\ ParentInv' /\ UNCHANGED <<gran, umap, auxmap, ns, memrd, list, fault>>
    BY <1>4, SameState
  <2>2. gran[m.pa].st = "DEV"
    <3>1. gran[m.pa].st # "UNDELEGATED" /\ gran[m.pa].st # "DELEGATED"
      BY <1>2, <1>4 DEF OnlyDelegated, InState, CanUndelegate
    <3> QED BY <1>1, <1>2, <3>1, NoRealmLeft
  <2>3. FailsOnlyForDevices'
    BY <1>2, <2>1, <2>2 DEF FailsOnlyForDevices, InState
  <2>4. /\ phase' = "error" /\ slot' = 1 /\ level' = 3 /\ tree' = 0
        /\ cur' = NoAddr /\ caller' = "test"
    BY <1>4 DEF Leave
  <2>5. PostType'
    BY <2>4, CountAssumption, NumRealmsAssumption, SMTT(60) DEF PostType, Tree
  <2>6. PlaceInv' /\ LoopsInv' /\ RealmsInv' /\ CleansUp'
    BY <1>1, <2>1, <2>4 DEF PlaceInv, LoopsInv, RealmsInv, CleansUp, RealmPhases
  <2> QED BY <2>1, <2>3, <2>5, <2>6 DEF PInv
<1>5. CASE DelegatedNodes = {} /\ Go("free") /\ UNCHANGED <<rmm, track>>
  <2>1. IInv' /\ ParentInv' /\ UNCHANGED <<gran, umap, auxmap, ns, memrd, list, fault>>
    BY <1>5, SameState
  <2>2. phase' = "free" /\ UNCHANGED <<slot, level, tree, cur, caller>>
    BY <1>5 DEF Go
  <2>3. DelegatedNodes' = {}
    BY <1>5, <2>1 DEF DelegatedNodes
  <2>4. PostType'
    BY <2>2 DEF PInv, PostType
  <2>5. PlaceInv' /\ LoopsInv' /\ RealmsInv' /\ CleansUp' /\ FailsOnlyForDevices'
    BY <1>1, <2>1, <2>2, <2>3 DEF PlaceInv, LoopsInv, RealmsInv, CleansUp, FailsOnlyForDevices, RealmPhases
  <2> QED BY <2>1, <2>4, <2>5 DEF PInv
<1> QED BY <1>3, <1>4, <1>5 DEF UndelegateNs

(* The last step of the postamble: only nodes of unmapped addresses were   *)
(* left, and the RMM holds nothing.                                        *)
LEMMA FreeRemainingKeeps ==
  ASSUME PInv, FreeRemaining
  PROVE  PInv'
<1>1. /\ phase = "free" /\ \A i \in Slots : memrd[i] = NoAddr
      /\ IInv /\ ParentInv /\ DelegatedNodes = {}
  BY DEF FreeRemaining, PInv, RealmsInv
<1>2. /\ phase' = "success" /\ slot' = 1 /\ level' = 3 /\ tree' = 0
      /\ cur' = NoAddr /\ caller' = "test"
      /\ UNCHANGED <<gran, umap, auxmap, memrd, list, fault>>
  BY DEF FreeRemaining, Leave, rmm
<1>3. ns' = {}
  <2>1. \A m \in ns : m.state \in {"DELEGATED", "UNDELEGATED"}
    BY <1>1 DEF IInv, TypeOK, NsNode
  <2>2. \A m \in ns : m.state = "UNDELEGATED"
    BY <1>1, <2>1 DEF DelegatedNodes
  <2> QED BY <2>2 DEF FreeRemaining
<1>4. OnlyDelegated = {}
  BY <1>1 DEF IInv, Mirror, DelegatedNodes
<1>5. /\ umap = {} /\ auxmap = {}
      /\ \A p \in PA : gran[p].st = "UNDELEGATED"
      /\ \A k \in Kind, i \in AllSlots : list[k][i] = {}
  BY <1>1, <1>4, NoRealmLeft, SMTT(60) DEF OnlyDelegated, InState
<1>6. IInv'
  <2>1. RmmOK'
    <3>1. RmmTypeOK' /\ RmmOK
      BY <1>1, <1>2 DEF IInv, TypeOK, RmmTypeOK, RmmOK
    <3> QED BY <1>2, <3>1, OutsideStep DEF RmmOK
  <2>2. OnlyDelegated' = OnlyDelegated
    BY <1>2, SMTT(60) DEF OnlyDelegated, InState
  <2> QED BY <1>1, <1>2, <1>3, <1>4, <2>1, <2>2, NsOnly
<1>7. ParentInv'
  BY <1>1, <1>2, ParentsKept DEF InState
<1>8. CleansUp'
  BY <1>2, <1>3, <1>5 DEF CleansUp
<1>9. PostType'
  BY <1>2, CountAssumption, NumRealmsAssumption, SMTT(60) DEF PostType, Tree
<1>10. PlaceInv' /\ LoopsInv' /\ RealmsInv' /\ FailsOnlyForDevices'
  BY <1>1, <1>2 DEF PlaceInv, LoopsInv, RealmsInv, FailsOnlyForDevices, RealmPhases
<1> QED BY <1>6, <1>7, <1>8, <1>9, <1>10 DEF PInv

(* After a successful postamble the reset for the next test changes        *)
(* nothing: the tracker is already as it was linked.                       *)
LEMMA ResetKeeps ==
  ASSUME PInv, reset_mem_tack
  PROVE  PInv'
<1>1. /\ phase = "success" /\ cur = NoAddr /\ ns = {} /\ IInv
      /\ \A k \in Kind, i \in AllSlots : list[k][i] = {}
      /\ \A i \in AllSlots : memrd[i] = NoAddr
  <2>1. \A i \in AllSlots : i = 0 \/ i \in Slots
    BY NumRealmsAssumption, SMTT(60) DEF AllSlots, Slots
  <2> QED
    BY <2>1 DEF reset_mem_tack, PInv, PlaceInv, RealmsInv, CleansUp, IInv, TrackInv
<1>2. list' = list /\ memrd' = memrd /\ ns' = ns
  <2>1. list \in [Kind -> [AllSlots -> SUBSET Node]] /\ memrd \in [AllSlots -> PA \cup {NoAddr}]
    BY <1>1 DEF IInv, TypeOK
  <2>2. list' = [k \in Kind |-> IF k = "RTT_AUX" THEN list[k] ELSE [i \in AllSlots |-> {}]]
    BY DEF reset_mem_tack
  <2>3. \A k \in Kind : list[k] = [i \in AllSlots |-> {}]
    BY <1>1, <2>1
  <2>4. list' = list
    BY <2>1, <2>2, <2>3
  <2> QED BY <1>1, <2>1, <2>4 DEF reset_mem_tack
<1>3. UNCHANGED <<rmm, track>>
  BY <1>2 DEF reset_mem_tack, track
<1>4. IInv' /\ ParentInv'
  BY <1>3, SameState
<1>5. phase' = "test" /\ UNCHANGED <<slot, level, tree, cur, caller>>
  BY DEF reset_mem_tack, Go
<1>6. PostType'
  BY <1>5 DEF PInv, PostType
<1>7. PlaceInv' /\ LoopsInv' /\ RealmsInv' /\ CleansUp' /\ FailsOnlyForDevices'
  BY <1>1, <1>2, <1>5 DEF PInv, PlaceInv, LoopsInv, RealmsInv, CleansUp, FailsOnlyForDevices, RealmPhases
<1> QED BY <1>4, <1>6, <1>7 DEF PInv

-----------------------------------------------------------------------------
(* The invariant holds before the first test.                              *)
LEMMA InitPInv == PInit => PInv
<1> SUFFICES ASSUME PInit PROVE PInv
  OBVIOUS
<1>1. IInv
  BY InitIInv DEF PInit
<1>2. ParentInv
  BY DEF PInit, Init, RmmInit, ParentInv, InState, Plain, Granule
<1>3. PostType
  BY CountAssumption, NumRealmsAssumption, SMTT(60) DEF PInit, PostType, Tree
<1>4. PlaceInv /\ LoopsInv /\ RealmsInv /\ CleansUp /\ FailsOnlyForDevices
  BY DEF PInit, PlaceInv, LoopsInv, RealmsInv, CleansUp, FailsOnlyForDevices, RealmPhases
<1> QED BY <1>1, <1>2, <1>3, <1>4 DEF PInv

(* The test's own steps, and its calls of val_host_realm_destroy and of    *)
(* the postamble.                                                          *)
LEMMA TestKeeps ==
  ASSUME PInv, Test \/ CallRealmDestroy \/ StartPostamble
  PROVE  PInv'
<1>1. phase = "test" /\ cur = NoAddr /\ caller = "test"
  BY DEF Test, CallRealmDestroy, StartPostamble, PInv, PlaceInv
<1>2. CASE Test
  <2>1. Next /\ UNCHANGED <<phase, slot, level, tree, cur, caller>>
    BY <1>2 DEF Test, post
  <2>2. IInv' /\ ParentInv'
    BY <2>1, StepIInv, ParentStep DEF PInv
  <2>3. PostType'
    BY <2>1 DEF PInv, PostType
  <2>4. PlaceInv' /\ LoopsInv' /\ RealmsInv' /\ CleansUp' /\ FailsOnlyForDevices'
    BY <1>1, <2>1 DEF PlaceInv, LoopsInv, RealmsInv, CleansUp, FailsOnlyForDevices, RealmPhases
  <2> QED BY <2>2, <2>3, <2>4 DEF PInv
<1>3. CASE CallRealmDestroy
  <2>1. /\ slot' \in Slots /\ memrd[slot'] # NoAddr /\ phase' = "rec" /\ caller' = "test"
        /\ UNCHANGED <<rmm, track, level, tree, cur>>
    BY <1>3 DEF CallRealmDestroy
  <2>2. IInv' /\ ParentInv' /\ UNCHANGED <<gran, umap, auxmap, ns, memrd, list, fault>>
    BY <2>1, SameState
  <2>3. PostType'
    BY <2>1, NumRealmsAssumption, SMTT(60) DEF PInv, PostType, RealmPhases, Slots
  <2>4. PlaceInv' /\ LoopsInv' /\ RealmsInv' /\ CleansUp' /\ FailsOnlyForDevices'
    BY <1>1, <2>1, <2>2 DEF PlaceInv, LoopsInv, RealmsInv, CleansUp, FailsOnlyForDevices, RealmPhases
  <2> QED BY <2>2, <2>3, <2>4 DEF PInv
<1>4. CASE StartPostamble
  <2>1. /\ slot' = 1 /\ phase' = "next" /\ caller' = "postamble"
        /\ UNCHANGED <<rmm, track, level, tree, cur>>
    BY <1>4 DEF StartPostamble
  <2>2. IInv' /\ ParentInv' /\ UNCHANGED <<gran, umap, auxmap, ns, memrd, list, fault>>
    BY <2>1, SameState
  <2>3. PostType'
    BY <2>1, NumRealmsAssumption, SMTT(60) DEF PInv, PostType
  <2>4. \A i \in Slots : ~(i < slot')
    BY <2>1, NumRealmsAssumption, SMTT(60) DEF Slots
  <2>5. PlaceInv' /\ LoopsInv' /\ RealmsInv' /\ CleansUp' /\ FailsOnlyForDevices'
    BY <1>1, <2>1, <2>4 DEF PlaceInv, LoopsInv, RealmsInv, CleansUp, FailsOnlyForDevices, RealmPhases
  <2> QED BY <2>2, <2>3, <2>5 DEF PInv
<1> QED BY <1>2, <1>3, <1>4

(* Every step keeps the invariant; val_host_realm_destroy is left only by  *)
(* the destroy of the RD.                                                  *)
LEMMA StepPInv ==
  ASSUME PInv, [PNext]_vars
  PROVE  /\ PInv'
         /\ phase \in RealmPhases /\ phase' \notin RealmPhases => memrd'[slot] = NoAddr
<1>1. CASE UNCHANGED vars
  <2>1. UNCHANGED <<rmm, track>> /\ UNCHANGED <<phase, slot, level, tree, cur, caller>>
    BY <1>1 DEF vars, post
  <2>2. IInv' /\ ParentInv' /\ UNCHANGED <<gran, umap, auxmap, ns, memrd, list, fault>>
    BY <2>1, SameState
  <2>3. PostType' /\ PlaceInv'
    BY <2>1, <2>2 DEF PInv, PostType, PlaceInv
  <2>4. LoopsInv'
    BY <2>1, <2>2 DEF PInv, LoopsInv, Listed
  <2>5. RealmsInv' /\ CleansUp' /\ FailsOnlyForDevices'
    BY <2>1, <2>2 DEF PInv, RealmsInv, DelegatedNodes, CleansUp, FailsOnlyForDevices, InState
  <2> QED BY <2>1, <2>2, <2>3, <2>4, <2>5 DEF PInv
<1>2. CASE Test \/ CallRealmDestroy \/ StartPostamble
  BY <1>2, TestKeeps DEF Test, CallRealmDestroy, StartPostamble, RealmPhases
<1>3. CASE NextRealm
  BY <1>3, NextRealmKeeps DEF NextRealm, RealmPhases
<1>4. CASE UndelegateCur \/ DestroyRec \/ DestroyData \/ UnmapUnprotected \/ DestroyRtt
  BY <1>4, UndelegateCurKeeps, DestroyRecKeeps, DestroyDataKeeps, UnmapUnprotectedKeeps,
     DestroyRttKeeps
<1>5. CASE EndLoop
  BY <1>5, SameState, EndLoopKeeps DEF EndLoop
<1>6. CASE DestroyRd
  BY <1>6, DestroyRdKeeps
<1>7. CASE UndelegateNs
  BY <1>7, UndelegateNsKeeps DEF UndelegateNs, RealmPhases
<1>8. CASE FreeRemaining \/ reset_mem_tack
  BY <1>8, FreeRemainingKeeps, ResetKeeps DEF FreeRemaining, reset_mem_tack, RealmPhases
<1>9. CASE Halted
  BY <1>1, <1>9 DEF Halted
<1> QED
  BY <1>1, <1>2, <1>3, <1>4, <1>5, <1>6, <1>7, <1>8, <1>9 DEF PNext, Work

(* The invariant holds in every reachable state of a test and its          *)
(* postamble.                                                              *)
THEOREM PostambleInvariance == PSpec => []PInv
<1>1. PInv /\ [PNext]_vars => PInv'
  BY StepPInv
<1> QED BY <1>1, InitPInv, PTL DEF PSpec

(* Whatever a test did, for any number of granules, addresses, trees and   *)
(* slots: a postamble that returns VAL_SUCCESS has given every granule     *)
(* back, left no mapping and emptied every list of mem_track.              *)
THEOREM PostambleCleansUp == PSpec => []CleansUp
<1>1. PInv => CleansUp
  BY DEF PInv
<1> QED BY <1>1, PostambleInvariance, PTL

(* val_host_postamble returns VAL_ERROR only when the test left a device   *)
(* object: the RMM refuses none of the commands before the NS list.        *)
THEOREM OnlyDevicesFail == PSpec => []FailsOnlyForDevices
<1>1. PInv => FailsOnlyForDevices
  BY DEF PInv
<1> QED BY <1>1, PostambleInvariance, PTL

(* The lists of mem_track mirror the RMM throughout the postamble, and the *)
(* reset of val_host_reset_mem_tack, which forgets the auxiliary table     *)
(* lists, loses nothing.                                                   *)
THEOREM PostambleMirrors == PSpec => []Mirror
<1>1. PInv => Mirror
  BY DEF PInv, IInv
<1> QED BY <1>1, PostambleInvariance, PTL

(* val_host_realm_destroy returns only when the realm is gone.             *)
THEOREM DestroyAlwaysCompletes == PSpec => DestroyCompletes
<1>1. PInv /\ [PNext]_vars =>
        [(phase \in RealmPhases /\ phase' \notin RealmPhases) => memrd'[slot] = NoAddr]_vars
  BY StepPInv
<1> QED BY <1>1, PostambleInvariance, PTL DEF PSpec, DestroyCompletes
=============================================================================
