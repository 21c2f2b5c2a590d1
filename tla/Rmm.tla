-------------------------------- MODULE Rmm --------------------------------
(***************************************************************************)
(* The Realm Management Monitor as the host library drives it.  The RMM is *)
(* not part of this repository; it is modelled from the commands issued by *)
(* val_host_rmi.c and the order in which val_host_realm_destroy and        *)
(* val_host_postamble undo them.                                           *)
(*                                                                         *)
(* Every command is a guard Can...(..), true when the RMM answers          *)
(* RMI_SUCCESS, and an effect on the granules and mappings the RMM owns.   *)
(* A command that fails changes nothing.                                   *)
(*                                                                         *)
(* Left out: fold and unfold of a table that holds live mappings, and the  *)
(* NEW/ACTIVE state of a realm; the tracker looks at neither.              *)
(***************************************************************************)
EXTENDS Integers, FiniteSets

CONSTANTS
  PA,         \* granules of the host's heap
  IPA,        \* protected addresses of a realm
  UIPA,       \* unprotected addresses of a realm
  Base,       \* Base[l][a]: the address of the level l table that covers a
  StartLevel, \* level of the start tables, given in the realm parameters
  NumAux,     \* auxiliary translation trees, VAL_MAX_AUX_PLANES
  StartTables,\* granules the start tables of a realm take
  RecAux,     \* granules RMI_REC_AUX_COUNT asks for
  NoAddr      \* no address: a field that is not in use

AnyIpa == IPA \cup UIPA
Level == StartLevel .. 3
Tree == 0 .. NumAux
Aux == 1 .. NumAux

ASSUME AddrAssumption ==
  /\ PA \cap UIPA = {}
  /\ IPA \cap UIPA = {}
  /\ NoAddr \notin PA \cup AnyIpa
ASSUME GeometryAssumption ==
  /\ StartLevel \in 0 .. 2
  /\ Base \in [Level -> [AnyIpa -> AnyIpa]]
ASSUME CountAssumption == NumAux \in Nat /\ StartTables \in Nat /\ RecAux \in Nat

VARIABLES
  gran,   \* the state of every granule, and what it is used for
  umap,   \* unprotected mappings of the primary trees
  auxmap  \* mappings in the auxiliary trees

rmm == <<gran, umap, auxmap>>

States == {"UNDELEGATED", "DELEGATED", "RD", "START", "REC", "REC_AUX", "RTT",
           "RTT_AUX", "DATA", "DEV"}

(* A granule in state st that belongs to rd (or, for REC_AUX, to a REC).   *)
Granule(st, rd, ipa, level, tree) ==
  [st |-> st, rd |-> rd, ipa |-> ipa, level |-> level, tree |-> tree]
Plain(st) == Granule(st, NoAddr, NoAddr, 0, 0)

RmmTypeOK ==
  /\ gran \in [PA -> [st : States, rd : PA \cup {NoAddr},
                      ipa : AnyIpa \cup {NoAddr}, level : 0 .. 3, tree : Tree]]
  /\ umap \subseteq [rd : PA, ipa : UIPA, level : Level]
  /\ auxmap \subseteq [rd : PA, ipa : AnyIpa, tree : Aux]

RmmInit ==
  /\ gran = [p \in PA |-> Plain("UNDELEGATED")]
  /\ umap = {}
  /\ auxmap = {}

InState(st) == {p \in PA : gran[p].st = st}

(* The granules in state st that belong to rd.                             *)
Owned(st, rd) == {p \in InState(st) : gran[p].rd = rd}

TableState(tree) == IF tree = 0 THEN "RTT" ELSE "RTT_AUX"

(* The granule of rd's table at (ipa, level) in a tree: none, or one.      *)
Table(rd, ipa, level, tree) ==
  {p \in Owned(TableState(tree), rd) :
      gran[p].ipa = ipa /\ gran[p].level = level /\ gran[p].tree = tree}

(* Does the walk for ipa in a tree of rd reach a table of this level?      *)
Walks(rd, ipa, level, tree) ==
  level = StartLevel \/ Table(rd, Base[level][ipa], level, tree) # {}

(* The mappings that live in the table at (ipa, level) of a tree.          *)
Live(rd, ipa, level, tree) ==
  \/ \E p \in Owned(TableState(tree), rd) :
       /\ gran[p].tree = tree
       /\ gran[p].level = level + 1
       /\ Base[level][gran[p].ipa] = ipa
  \/ /\ tree = 0 /\ level = 3
     /\ \E p \in Owned("DATA", rd) : Base[3][gran[p].ipa] = ipa
  \/ /\ tree = 0
     /\ \E u \in umap : u.rd = rd /\ u.level = level /\ Base[level][u.ipa] = ipa
  \/ \E m \in auxmap :
       /\ m.rd = rd /\ m.tree = tree
       /\ LET l == IF m.ipa \in IPA THEN 3
                   ELSE (CHOOSE u \in umap : u.rd = rd /\ u.ipa = m.ipa).level
          IN l = level /\ Base[level][m.ipa] = ipa

(* RMI_GRANULE_DELEGATE and RMI_GRANULE_UNDELEGATE.                        *)
CanDelegate(pa) == gran[pa].st = "UNDELEGATED"
Delegate(pa) ==
  gran' = [gran EXCEPT ![pa] = Plain("DELEGATED")] /\ UNCHANGED <<umap, auxmap>>

CanUndelegate(pa) == gran[pa].st = "DELEGATED"
Undelegate(pa) ==
  gran' = [gran EXCEPT ![pa] = Plain("UNDELEGATED")] /\ UNCHANGED <<umap, auxmap>>

(* Granules in the set S return to DELEGATED.                              *)
Release(S) ==
  [p \in PA |-> IF p \in S THEN Plain("DELEGATED") ELSE gran[p]]

(* RMI_REALM_CREATE takes the RD and the start tables of the parameters.   *)
CanRealmCreate(rd, tables) ==
  /\ rd \in InState("DELEGATED")
  /\ tables \subseteq InState("DELEGATED") \ {rd}
  /\ Cardinality(tables) = StartTables
RealmCreate(rd, tables) ==
  /\ gran' = [p \in PA |-> IF p = rd THEN Granule("RD", rd, NoAddr, 0, 0)
                           ELSE IF p \in tables
                           THEN Granule("START", rd, NoAddr, 0, 0)
                           ELSE gran[p]]
  /\ UNCHANGED <<umap, auxmap>>

(* RMI_REALM_DESTROY refuses a realm that still has RECs or live tables.   *)
CanRealmDestroy(rd) ==
  /\ rd \in InState("RD")
  /\ \A st \in {"REC", "RTT", "RTT_AUX", "DATA"} : Owned(st, rd) = {}
  /\ \A u \in umap : u.rd # rd
  /\ \A m \in auxmap : m.rd # rd
RealmDestroy(rd) ==
  /\ gran' = Release({rd} \cup Owned("START", rd))
  /\ UNCHANGED <<umap, auxmap>>

(* RMI_REC_CREATE and RMI_REC_DESTROY, with the auxiliary granules.        *)
CanRecCreate(rd, rec, aux) ==
  /\ rd \in InState("RD")
  /\ rec \in InState("DELEGATED")
  /\ aux \subseteq InState("DELEGATED") \ {rec}
  /\ Cardinality(aux) = RecAux
RecCreate(rd, rec, aux) ==
  /\ gran' = [p \in PA |-> IF p = rec THEN Granule("REC", rd, NoAddr, 0, 0)
                           ELSE IF p \in aux
                           THEN Granule("REC_AUX", rec, NoAddr, 0, 0)
                           ELSE gran[p]]
  /\ UNCHANGED <<umap, auxmap>>

CanRecDestroy(rec) == rec \in InState("REC")
RecDestroy(rec) ==
  gran' = Release({rec} \cup Owned("REC_AUX", rec)) /\ UNCHANGED <<umap, auxmap>>

(* RMI_RTT_CREATE, RMI_RTT_AUX_CREATE: the parent table is there, and the  *)
(* parent's entry holds neither a table nor a block mapping.               *)
CanRttCreate(rd, rtt, ipa, level, tree) ==
  /\ rd \in InState("RD")
  /\ rtt \in InState("DELEGATED")
  /\ level > StartLevel /\ Base[level][ipa] = ipa
  /\ Walks(rd, ipa, level - 1, tree)
  /\ Table(rd, ipa, level, tree) = {}
  /\ \A u \in umap :
       u.rd = rd /\ u.level < level => Base[level][u.ipa] # ipa
RttCreate(rd, rtt, ipa, level, tree) ==
  /\ gran' = [gran EXCEPT ![rtt] = Granule(TableState(tree), rd, ipa, level, tree)]
  /\ UNCHANGED <<umap, auxmap>>

(* RMI_RTT_DESTROY, RMI_RTT_FOLD of an unassigned table, and their AUX     *)
(* forms.                                                                  *)
CanRttDestroy(rd, ipa, level, tree) ==
  /\ rd \in InState("RD")
  /\ Table(rd, ipa, level, tree) # {}
  /\ ~Live(rd, ipa, level, tree)
RttDestroy(rd, ipa, level, tree) ==
  gran' = Release(Table(rd, ipa, level, tree)) /\ UNCHANGED <<umap, auxmap>>

(* RMI_DATA_CREATE and RMI_DATA_CREATE_UNKNOWN.                            *)
DataAt(rd, ipa) == {p \in Owned("DATA", rd) : gran[p].ipa = ipa}
CanDataCreate(rd, pa, ipa) ==
  /\ rd \in InState("RD")
  /\ pa \in InState("DELEGATED")
  /\ Walks(rd, ipa, 3, 0)
  /\ DataAt(rd, ipa) = {}
DataCreate(rd, pa, ipa) ==
  /\ gran' = [gran EXCEPT ![pa] = Granule("DATA", rd, ipa, 0, 0)]
  /\ UNCHANGED <<umap, auxmap>>

(* RMI_DATA_DESTROY refuses a page still mapped in an auxiliary tree.      *)
AuxTrees(rd, ipa) == {t \in Aux : [rd |-> rd, ipa |-> ipa, tree |-> t] \in auxmap}
CanDataDestroy(rd, ipa) ==
  /\ rd \in InState("RD")
  /\ DataAt(rd, ipa) # {}
  /\ AuxTrees(rd, ipa) = {}
DataDestroy(rd, ipa) ==
  gran' = Release(DataAt(rd, ipa)) /\ UNCHANGED <<umap, auxmap>>

(* RMI_RTT_MAP_UNPROTECTED and RMI_RTT_UNMAP_UNPROTECTED.                  *)
CanMap(rd, ipa, level) ==
  /\ rd \in InState("RD")
  /\ Walks(rd, ipa, level, 0)
  /\ level < 3 => Table(rd, Base[level + 1][ipa], level + 1, 0) = {}
  /\ \A u \in umap : ~(u.rd = rd /\ u.ipa = ipa)
Map(rd, ipa, level) ==
  /\ umap' = umap \cup {[rd |-> rd, ipa |-> ipa, level |-> level]}
  /\ UNCHANGED <<gran, auxmap>>

CanUnmap(rd, ipa, level) ==
  /\ rd \in InState("RD")
  /\ [rd |-> rd, ipa |-> ipa, level |-> level] \in umap
  /\ AuxTrees(rd, ipa) = {}
Unmap(rd, ipa, level) ==
  /\ umap' = umap \ {[rd |-> rd, ipa |-> ipa, level |-> level]}
  /\ UNCHANGED <<gran, auxmap>>

(* RMI_RTT_AUX_MAP_PROTECTED / UNPROTECTED copy a mapping of the primary   *)
(* tree into an auxiliary one; the AUX_UNMAP commands remove the copy.     *)
CanAuxMap(rd, ipa, tree) ==
  /\ rd \in InState("RD")
  /\ tree \notin AuxTrees(rd, ipa)
  /\ \/ ipa \in IPA /\ DataAt(rd, ipa) # {} /\ Walks(rd, ipa, 3, tree)
     \/ \E u \in umap : u.rd = rd /\ u.ipa = ipa /\ Walks(rd, ipa, u.level, tree)
AuxMap(rd, ipa, tree) ==
  /\ auxmap' = auxmap \cup {[rd |-> rd, ipa |-> ipa, tree |-> tree]}
  /\ UNCHANGED <<gran, umap>>

CanAuxUnmap(rd, ipa, tree) == rd \in InState("RD") /\ tree \in AuxTrees(rd, ipa)
AuxUnmap(rd, ipa, tree) ==
  /\ auxmap' = auxmap \ {[rd |-> rd, ipa |-> ipa, tree |-> tree]}
  /\ UNCHANGED <<gran, umap>>

(* RMI_PDEV_CREATE, RMI_VDEV_CREATE and the DESTROY commands.              *)
CanDevCreate(pa) == gran[pa].st = "DELEGATED"
DevCreate(pa) ==
  gran' = [gran EXCEPT ![pa] = Plain("DEV")] /\ UNCHANGED <<umap, auxmap>>

CanDevDestroy(pa) == gran[pa].st = "DEV"
DevDestroy(pa) == gran' = Release({pa}) /\ UNCHANGED <<umap, auxmap>>
============================================================================
