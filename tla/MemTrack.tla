------------------------------ MODULE MemTrack ------------------------------
(***************************************************************************)
(* The granule tracker of the host library (val_host_realm.c) and the      *)
(* val_host_rmi_* wrappers that feed it (val_host_rmi.c).                  *)
(*                                                                         *)
(* A wrapper issues an RMI command and, when the command succeeds, moves   *)
(* the granule's node between the lists of mem_track.  A test calls the    *)
(* wrappers in any order; the tracker must be able to say at the end which *)
(* commands undo what the test did.                                        *)
(*                                                                         *)
(* A list is a set of nodes: the code appends at the end and looks up by   *)
(* key, and no two nodes of a list have the same key (Mirror).  The NS     *)
(* list's own pointers are the subject of module NsList.  A node of the NS *)
(* list keeps the fields of its last use; only those that are read again   *)
(* (PA, state, has_auxiliary) are kept here.  is_granule_sliced is never   *)
(* set to 1 in the repository, so the sliced branches are not modelled.    *)
(***************************************************************************)
EXTENDS Rmm

CONSTANT NumRealms  \* VAL_HOST_MAX_REALMS - 1: the slots a realm can take

ASSUME NumRealmsAssumption == NumRealms \in Nat \ {0}

Slots == 1 .. NumRealms
AllSlots == 0 .. NumRealms      \* slot 0 is the NS entry of mem_track
Kind == {"RD", "REC", "RTT", "RTT_AUX", "DATA", "UNPROTECTED"}
Node == [pa : PA \cup UIPA, ipa : AnyIpa \cup {NoAddr}, level : 0 .. 3,
         tree : Tree, aux : SUBSET Aux]
NsNode == [pa : PA \cup UIPA, state : {"DELEGATED", "UNDELEGATED"},
           aux : SUBSET Aux]

VARIABLES
  ns,     \* mem_track[0].gran_type.ns
  memrd,  \* mem_track[i].rd; NoAddr stands for 0xFFFFFFFF, a free slot
  list,   \* list[k][i]: the list of kind k of mem_track[i]
  fault   \* has the tracker dereferenced a NULL node

track == <<ns, memrd, list, fault>>
mvars == <<rmm, track>>

TypeOK ==
  /\ RmmTypeOK
  /\ ns \subseteq NsNode
  /\ memrd \in [AllSlots -> PA \cup {NoAddr}]
  /\ list \in [Kind -> [AllSlots -> SUBSET Node]]
  /\ fault \in BOOLEAN

(* mem_track as it is linked into the image.                               *)
TrackInit ==
  /\ ns = {}
  /\ memrd = [i \in AllSlots |-> NoAddr]
  /\ list = [k \in Kind |-> [i \in AllSlots |-> {}]]
  /\ fault = FALSE

Init == RmmInit /\ TrackInit

(* val_host_get_curr_realm: the first slot of rd, 0 when there is none.    *)
get_curr_realm(rd) ==
  IF \E i \in Slots : memrd[i] = rd
  THEN CHOOSE i \in Slots : memrd[i] = rd /\ \A j \in 1 .. i - 1 : memrd[j] # rd
  ELSE 0

(* val_host_find_granule: the nodes of the NS list for this PA.            *)
find_granule(pa) == {n \in ns : n.pa = pa}

(* val_host_add_granule with a new node.                                   *)
add_granule(pa) ==
  /\ ns' = ns \cup {[pa |-> pa, state |-> "DELEGATED", aux |-> {}]}
  /\ UNCHANGED <<memrd, list, fault>>

(* The slot a new RD takes: the first that is free or already has this rd. *)
(* With none, current_realm keeps the value of get_curr_realm, which is 0. *)
claim_slot(rd) ==
  LET usable(i) == memrd[i] \in {rd, NoAddr}
  IN IF \E i \in Slots : usable(i)
     THEN CHOOSE i \in Slots : usable(i) /\ \A j \in 1 .. i - 1 : ~usable(j)
     ELSE get_curr_realm(rd)

(* val_host_update_granule_state: a node leaves the NS list for the list   *)
(* of its new kind.  A granule the NS list does not know is tracked only   *)
(* when it is an unprotected mapping.                                      *)
update_granule_state(rd, kind, pa, ipa, level, tree) ==
  LET i == IF kind = "RD" THEN claim_slot(rd) ELSE get_curr_realm(rd)
      node(aux) == [pa |-> pa, ipa |-> ipa, level |-> level, tree |-> tree,
                    aux |-> aux]
      put(aux) == list' = [list EXCEPT ![kind][i] = @ \cup {node(aux)}]
  IN /\ UNCHANGED fault
     /\ \/ /\ find_granule(pa) = {}
           /\ IF kind = "UNPROTECTED" THEN put({}) ELSE UNCHANGED list
           /\ UNCHANGED <<ns, memrd>>
        \/ \E n \in find_granule(pa) :
             /\ ns' = ns \ {n}
             /\ put(n.aux)
             /\ memrd' = IF kind = "RD" /\ i # 0 THEN [memrd EXCEPT ![i] = rd]
                         ELSE memrd

(* val_host_update_destroy_granule_state for UNDELEGATED.                  *)
forget_granule(pa) ==
  /\ \/ find_granule(pa) = {} /\ UNCHANGED ns
     \/ \E n \in find_granule(pa) : ns' = ns \ {n}
  /\ UNCHANGED <<memrd, list, fault>>

(* Mutant: mem_track[i].rd is not cleared.                                 *)
back_to_ns_keeps_rd(kind, i, n) ==
  LET state == IF kind = "UNPROTECTED" THEN "UNDELEGATED" ELSE "DELEGATED"
  IN /\ list' = [list EXCEPT ![kind][i] = @ \ {n}]
     /\ ns' = ns \cup {[pa |-> n.pa, state |-> state, aux |-> n.aux]}
     /\ UNCHANGED <<memrd, fault>>

(* The node n goes from list[kind][i] to the end of the NS list.           *)
back_to_ns(kind, i, n) ==
  LET state == IF kind = "UNPROTECTED" THEN "UNDELEGATED" ELSE "DELEGATED"
  IN /\ list' = [list EXCEPT ![kind][i] = @ \ {n}]
     /\ ns' = ns \cup {[pa |-> n.pa, state |-> state, aux |-> n.aux]}
     /\ memrd' = IF kind = "RD" THEN [memrd EXCEPT ![i] = NoAddr] ELSE memrd
     /\ UNCHANGED fault

(* val_host_remove_granule, _remove_data_granule, _remove_rtt_granule and  *)
(* _remove_aux_rtt_granule: the nodes of a list that match the key.        *)
Matching(kind, i, pa, ipa, level, tree) ==
  {n \in list[kind][i] :
     CASE kind \in {"RD", "REC", "UNPROTECTED"} -> n.pa = pa
       [] kind = "DATA" -> n.ipa = ipa
       [] kind = "RTT" -> n.ipa = ipa /\ n.level = level
       [] kind = "RTT_AUX" -> n.ipa = ipa /\ n.level = level /\ n.tree = tree}

(* val_host_update_destroy_granule_state for the other states.  The node   *)
(* that the lookup returns is used without a test for NULL, except for a   *)
(* REC, which is searched for in every realm.                              *)
update_destroy_granule_state(rd, kind, pa, ipa, level, tree) ==
  LET found(i) == Matching(kind, i, pa, ipa, level, tree)
      searched == IF kind = "REC" THEN Slots ELSE {get_curr_realm(rd)}
  IN \/ \E i \in searched : \E n \in found(i) : back_to_ns(kind, i, n)
     \/ /\ \A i \in searched : found(i) = {}
        /\ fault' = (fault \/ kind # "REC")
        /\ UNCHANGED <<ns, memrd, list>>

(* val_host_update_aux_rtt_info: sets or clears has_auxiliary[tree - 1].   *)
update_aux_rtt_info(rd, kind, ipa, tree, val) ==
  LET i == get_curr_realm(rd)
      found == {n \in list[kind][i] : n.ipa = ipa}
      flag(n) == [n EXCEPT !.aux = IF val THEN @ \cup {tree} ELSE @ \ {tree}]
  IN /\ UNCHANGED <<ns, memrd>>
     /\ \/ \E n \in found :
             /\ list' = [list EXCEPT ![kind][i] = (@ \ {n}) \cup {flag(n)}]
             /\ UNCHANGED fault
        \/ /\ found = {}
           /\ fault' = (fault \/ list[kind][i] # {})
           /\ UNCHANGED list
-----------------------------------------------------------------------------
(* The wrappers of val_host_rmi.c, when the command succeeds.              *)

rmi_granule_delegate(pa) == CanDelegate(pa) /\ Delegate(pa) /\ add_granule(pa)

rmi_granule_undelegate(pa) ==
  CanUndelegate(pa) /\ Undelegate(pa) /\ forget_granule(pa)

(* Bound: a realm is created only while there is a (first) free slot.      *)
(* There are nine slots and the tests of the repository create at most     *)
(* four realms.                                                            *)
rmi_realm_create(rd, tables) ==
  /\ \E i \in Slots : memrd[i] = NoAddr /\ \A j \in 1 .. i - 1 : memrd[j] # NoAddr
  /\ CanRealmCreate(rd, tables) /\ RealmCreate(rd, tables)
  /\ update_granule_state(rd, "RD", rd, NoAddr, 0, 0)

rmi_realm_destroy(rd) ==
  /\ CanRealmDestroy(rd) /\ RealmDestroy(rd)
  /\ update_destroy_granule_state(rd, "RD", rd, NoAddr, 0, 0)

rmi_rec_create(rd, rec, aux) ==
  /\ CanRecCreate(rd, rec, aux) /\ RecCreate(rd, rec, aux)
  /\ update_granule_state(rd, "REC", rec, NoAddr, 0, 0)

rmi_rec_destroy(rec) ==
  /\ CanRecDestroy(rec) /\ RecDestroy(rec)
  /\ update_destroy_granule_state(NoAddr, "REC", rec, NoAddr, 0, 0)

(* val_host_rmi_rtt_create is tree 0, val_host_rmi_rtt_aux_create the      *)
(* others; so for destroy and fold.                                        *)
rmi_rtt_create(rd, rtt, ipa, level, tree) ==
  /\ CanRttCreate(rd, rtt, ipa, level, tree) /\ RttCreate(rd, rtt, ipa, level, tree)
  /\ update_granule_state(rd, TableState(tree), rtt, ipa, level, tree)

rmi_rtt_destroy(rd, ipa, level, tree) ==
  /\ CanRttDestroy(rd, ipa, level, tree) /\ RttDestroy(rd, ipa, level, tree)
  /\ update_destroy_granule_state(rd, TableState(tree), NoAddr, ipa, level, tree)

(* val_host_rmi_data_create and val_host_rmi_data_create_unknown.          *)
rmi_data_create(rd, pa, ipa) ==
  /\ CanDataCreate(rd, pa, ipa) /\ DataCreate(rd, pa, ipa)
  /\ update_granule_state(rd, "DATA", pa, ipa, 0, 0)

rmi_data_destroy(rd, ipa) ==
  /\ CanDataDestroy(rd, ipa) /\ DataDestroy(rd, ipa)
  /\ update_destroy_granule_state(rd, "DATA", NoAddr, ipa, 0, 0)

(* The node of an unprotected mapping has the IPA in its PA field.         *)
rmi_rtt_map_unprotected(rd, ipa, level) ==
  /\ CanMap(rd, ipa, level) /\ Map(rd, ipa, level)
  /\ update_granule_state(rd, "UNPROTECTED", ipa, ipa, level, 0)

rmi_rtt_unmap_unprotected(rd, ipa, level) ==
  /\ CanUnmap(rd, ipa, level) /\ Unmap(rd, ipa, level)
  /\ update_destroy_granule_state(rd, "UNPROTECTED", ipa, NoAddr, 0, 0)

(* The four val_host_rmi_rtt_aux_(un)map_(un)protected wrappers.           *)
AuxKind(ipa) == IF ipa \in IPA THEN "DATA" ELSE "UNPROTECTED"

rmi_rtt_aux_map(rd, ipa, tree) ==
  /\ CanAuxMap(rd, ipa, tree) /\ AuxMap(rd, ipa, tree)
  /\ update_aux_rtt_info(rd, AuxKind(ipa), ipa, tree, TRUE)

rmi_rtt_aux_unmap(rd, ipa, tree) ==
  /\ CanAuxUnmap(rd, ipa, tree) /\ AuxUnmap(rd, ipa, tree)
  /\ update_aux_rtt_info(rd, AuxKind(ipa), ipa, tree, FALSE)

(* The device commands, which the tracker does not see.                    *)
rmi_dev_create(pa) == CanDevCreate(pa) /\ DevCreate(pa) /\ UNCHANGED track
rmi_dev_destroy(pa) == CanDevDestroy(pa) /\ DevDestroy(pa) /\ UNCHANGED track

Next ==
  \/ \E pa \in PA : rmi_granule_delegate(pa)
  \/ \E pa \in PA : rmi_granule_undelegate(pa)
  \/ \E rd \in PA : \E tables \in SUBSET PA : rmi_realm_create(rd, tables)
  \/ \E rd \in PA : rmi_realm_destroy(rd)
  \/ \E rd, rec \in PA : \E aux \in SUBSET PA : rmi_rec_create(rd, rec, aux)
  \/ \E rec \in PA : rmi_rec_destroy(rec)
  \/ \E rd, rtt \in PA : \E ipa \in AnyIpa, level \in Level, tree \in Tree :
       rmi_rtt_create(rd, rtt, ipa, level, tree)
  \/ \E rd \in PA : \E ipa \in AnyIpa, level \in Level, tree \in Tree :
       rmi_rtt_destroy(rd, ipa, level, tree)
  \/ \E rd, pa \in PA : \E ipa \in IPA : rmi_data_create(rd, pa, ipa)
  \/ \E rd \in PA : \E ipa \in IPA : rmi_data_destroy(rd, ipa)
  \/ \E rd \in PA : \E ipa \in UIPA, level \in Level :
       rmi_rtt_map_unprotected(rd, ipa, level)
  \/ \E rd \in PA : \E ipa \in UIPA, level \in Level :
       rmi_rtt_unmap_unprotected(rd, ipa, level)
  \/ \E rd \in PA : \E ipa \in AnyIpa, tree \in Aux : rmi_rtt_aux_map(rd, ipa, tree)
  \/ \E rd \in PA : \E ipa \in AnyIpa, tree \in Aux : rmi_rtt_aux_unmap(rd, ipa, tree)
  \/ \E pa \in PA : rmi_dev_create(pa)
  \/ \E pa \in PA : rmi_dev_destroy(pa)

Spec == Init /\ [][Next]_mvars
-----------------------------------------------------------------------------
(* The nodes that describe what the RMM holds for rd: a granule of the     *)
(* given kind, an unprotected mapping, all of a kind.                      *)
GranuleNode(kind, rd, p) ==
  [pa |-> p, ipa |-> gran[p].ipa, level |-> gran[p].level, tree |-> gran[p].tree,
   aux |-> IF kind = "DATA" THEN AuxTrees(rd, gran[p].ipa) ELSE {}]

MappingNode(rd, u) ==
  [pa |-> u.ipa, ipa |-> u.ipa, level |-> u.level, tree |-> 0,
   aux |-> AuxTrees(rd, u.ipa)]

Held(kind, rd) ==
  IF kind = "UNPROTECTED"
  THEN {MappingNode(rd, u) : u \in {v \in umap : v.rd = rd}}
  ELSE {GranuleNode(kind, rd, p) : p \in Owned(kind, rd)}

(* The granules the host has delegated and the RMM holds in a state the    *)
(* tracker has no list for.                                                *)
OnlyDelegated ==
  UNION {InState(st) : st \in {"DELEGATED", "START", "REC_AUX", "DEV"}}

(* The lists of mem_track mirror the RMM: every realm has exactly one      *)
(* slot and every taken slot a realm, the lists of the slot hold exactly   *)
(* its granules and mappings with the address, level and auxiliary trees   *)
(* under which the RMM can undo them, a free slot has empty lists, and the *)
(* NS list has exactly the other delegated granules.  Whatever order the   *)
(* wrappers are called in.                                                 *)
Mirror ==
  /\ \A rd \in InState("RD") : \E i \in Slots : memrd[i] = rd
  /\ \A i \in Slots : memrd[i] # NoAddr => memrd[i] \in InState("RD")
  /\ \A i, j \in Slots : memrd[i] = memrd[j] /\ i # j => memrd[i] = NoAddr
  /\ \A k \in Kind, i \in Slots :
       /\ memrd[i] = NoAddr => list[k][i] = {}
       /\ \A rd \in PA : memrd[i] = rd => list[k][i] = Held(k, rd)
  /\ {n.pa : n \in {m \in ns : m.state = "DELEGATED"}} = OnlyDelegated

(* update_destroy_granule_state and update_aux_rtt_info use the node they  *)
(* look up without a test for NULL: the node is always there.              *)
NoNullNode == ~fault
=============================================================================
