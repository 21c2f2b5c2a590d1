----------------------------- MODULE Postamble -----------------------------
(***************************************************************************)
(* val_host_postamble and val_host_realm_destroy (val_host_realm.c): how a *)
(* test's realms and granules are taken down from what the tracker says,   *)
(* one RMI command a step.                                                 *)
(*                                                                         *)
(* The test calls the wrappers of MemTrack, or val_host_realm_destroy on a *)
(* realm; at its end val_host_test_exit runs the postamble; then           *)
(* val_host_test_init resets mem_track for the next test.  The host is     *)
(* sequential here, so the only interleaving is between the code and the   *)
(* state that the test left.  A command the RMM refuses makes the code     *)
(* return VAL_ERROR.                                                       *)
(*                                                                         *)
(* The loops walk a list and take the matching nodes out of it; the order  *)
(* of a list is not kept, so a step takes any matching node.               *)
(***************************************************************************)
EXTENDS MemTrack

VARIABLES
  phase,   \* the loop that val_host_realm_destroy or the postamble is in
  slot,    \* the realm being destroyed
  level,   \* the table level of the loop in val_host_destroy_(aux_)rtt_levels
  tree,    \* the tree of that loop
  cur,     \* the granule to undelegate next, NoAddr when there is none
  caller   \* who called val_host_realm_destroy

post == <<phase, slot, level, tree, cur, caller>>
vars == <<rmm, track, post>>

RealmPhases == {"rec", "data", "valid_ns", "rtt", "rd"}

PInit ==
  /\ Init
  /\ phase = "test"
  /\ slot = 1
  /\ level = 3
  /\ tree = 0
  /\ cur = NoAddr
  /\ caller = "test"

Go(p) == phase' = p /\ UNCHANGED <<slot, level, tree, cur, caller>>

(* The locals have their initial values outside the two functions.         *)
Leave(p) ==
  /\ phase' = p /\ slot' = 1 /\ level' = 3 /\ tree' = 0
  /\ cur' = NoAddr /\ caller' = "test"

(* val_host_realm_destroy returns to the test, or to the postamble's loop. *)
Return(ok) ==
  \/ caller = "test" /\ Leave("test")
  \/ caller = "postamble" /\ ok /\ Go("next")
  \/ caller = "postamble" /\ ~ok /\ Leave("error")

(* A test issues commands, or destroys a realm that it created.            *)
Test == phase = "test" /\ Next /\ UNCHANGED post

CallRealmDestroy ==
  /\ phase = "test"
  /\ \E i \in Slots : memrd[i] # NoAddr /\ slot' = i
  /\ phase' = "rec"
  /\ caller' = "test"
  /\ UNCHANGED <<rmm, track, level, tree, cur>>

(* val_host_test_exit calls the postamble.                                 *)
StartPostamble ==
  /\ phase = "test"
  /\ phase' = "next"
  /\ slot' = 1
  /\ caller' = "postamble"
  /\ UNCHANGED <<rmm, track, level, tree, cur>>

(* The loop over the slots of mem_track.                                   *)
NextRealm ==
  /\ phase = "next"
  /\ \/ slot > NumRealms /\ Go("ns")
     \/ slot \in Slots /\ memrd[slot] # NoAddr /\ Go("rec")
     \/ /\ slot \in Slots /\ memrd[slot] = NoAddr
        /\ slot' = slot + 1
        /\ UNCHANGED <<phase, level, tree, cur, caller>>
  /\ UNCHANGED <<rmm, track>>

Rd == memrd[slot]
Listed(kind) == list[kind][slot]

(* One command of a loop on the node n.  When it succeeds the granule pa   *)
(* is the next to be undelegated (none after an unmap); when the RMM       *)
(* refuses it, the function returns VAL_ERROR.                             *)
Command(can, act, pa) ==
  \/ can /\ act /\ cur' = pa /\ UNCHANGED <<phase, slot, level, tree, caller>>
  \/ ~can /\ Return(FALSE) /\ UNCHANGED <<rmm, track>>

(* val_host_rmi_granule_undelegate on the granule just released.           *)
UndelegateCur ==
  /\ cur # NoAddr
  /\ phase # "ns"
  /\ \/ /\ rmi_granule_undelegate(cur)
        /\ cur' = NoAddr
        /\ UNCHANGED <<phase, slot, level, tree, caller>>
     \/ ~CanUndelegate(cur) /\ Return(FALSE) /\ UNCHANGED <<rmm, track>>

(* For each REC: destroy, undelegate.                                      *)
DestroyRec ==
  /\ phase = "rec" /\ cur = NoAddr
  /\ \E n \in Listed("REC") :
       Command(CanRecDestroy(n.pa), rmi_rec_destroy(n.pa), n.pa)

(* Mutant: the auxiliary mappings are not removed first.                   *)
DestroyDataPrimaryOnly ==
  /\ phase = "data" /\ cur = NoAddr
  /\ \E n \in Listed("DATA") :
       Command(CanDataDestroy(Rd, n.ipa), rmi_data_destroy(Rd, n.ipa), n.pa)

(* For each data granule: unmap it from the auxiliary trees, destroy it,   *)
(* undelegate it.                                                          *)
DestroyData ==
  /\ phase = "data" /\ cur = NoAddr
  /\ \E n \in Listed("DATA") :
       \/ \E t \in n.aux :
            Command(CanAuxUnmap(Rd, n.ipa, t), rmi_rtt_aux_unmap(Rd, n.ipa, t), NoAddr)
       \/ /\ n.aux = {}
          /\ Command(CanDataDestroy(Rd, n.ipa), rmi_data_destroy(Rd, n.ipa), n.pa)

(* For each unprotected mapping: unmap it from the auxiliary trees, then   *)
(* from the primary one, at the level that the tracker remembers.          *)
UnmapUnprotected ==
  /\ phase = "valid_ns" /\ cur = NoAddr
  /\ \E n \in Listed("UNPROTECTED") :
       \/ \E t \in n.aux :
            Command(CanAuxUnmap(Rd, n.ipa, t), rmi_rtt_aux_unmap(Rd, n.ipa, t), NoAddr)
       \/ /\ n.aux = {}
          /\ Command(CanUnmap(Rd, n.ipa, n.level),
                     rmi_rtt_unmap_unprotected(Rd, n.ipa, n.level), NoAddr)

(* val_host_destroy_rtt_levels, and val_host_destroy_aux_rtt_levels for    *)
(* each auxiliary tree: the tables of the current level and tree.          *)
LevelTables ==
  {n \in Listed(TableState(tree)) : n.level = level /\ n.tree = tree}

DestroyRtt ==
  /\ phase = "rtt" /\ cur = NoAddr
  /\ \E n \in LevelTables :
       Command(CanRttDestroy(Rd, n.ipa, n.level, tree),
               rmi_rtt_destroy(Rd, n.ipa, n.level, tree), n.pa)

(* Mutants: the unprotected mappings are left; the loop over the trees    *)
(* does not count.                                                         *)
EndLoopSkipsNs ==
  /\ cur = NoAddr
  /\ \/ phase = "rec" /\ Listed("REC") = {} /\ Go("data")
     \/ phase = "data" /\ Listed("DATA") = {} /\ Go("rtt")
     \/ /\ phase = "rtt" /\ LevelTables = {}
        /\ \/ level > 1 /\ level' = level - 1 /\ UNCHANGED phase
           \/ level = 1 /\ phase' = "rd" /\ UNCHANGED level
        /\ UNCHANGED <<slot, tree, cur, caller>>
  /\ UNCHANGED <<rmm, track>>

EndLoopSameTree ==
  /\ cur = NoAddr
  /\ \/ phase = "rec" /\ Listed("REC") = {} /\ Go("data")
     \/ phase = "data" /\ Listed("DATA") = {} /\ Go("valid_ns")
     \/ phase = "valid_ns" /\ Listed("UNPROTECTED") = {} /\ Go("rtt")
     \/ /\ phase = "rtt" /\ LevelTables = {}
        /\ level' = IF level = 1 THEN 3 ELSE level - 1
        /\ UNCHANGED <<phase, slot, tree, cur, caller>>
  /\ UNCHANGED <<rmm, track>>

(* A loop is over when its list is empty: levels 3, 2, 1 of tree 0, then   *)
(* of every auxiliary tree.                                                *)
EndLoop ==
  /\ cur = NoAddr
  /\ \/ phase = "rec" /\ Listed("REC") = {} /\ Go("data")
     \/ phase = "data" /\ Listed("DATA") = {} /\ Go("valid_ns")
     \/ /\ phase = "valid_ns" /\ Listed("UNPROTECTED") = {}
        /\ phase' = "rtt" /\ level' = 3 /\ tree' = 0
        /\ UNCHANGED <<slot, cur, caller>>
     \/ /\ phase = "rtt" /\ LevelTables = {}
        /\ \/ /\ level > 1
              /\ level' = level - 1
              /\ UNCHANGED <<phase, tree>>
           \/ /\ level = 1 /\ tree < NumAux
              /\ level' = 3 /\ tree' = tree + 1
              /\ UNCHANGED phase
           \/ /\ level = 1 /\ tree = NumAux
              /\ phase' = "rd"
              /\ UNCHANGED <<level, tree>>
        /\ UNCHANGED <<slot, cur, caller>>
  /\ UNCHANGED <<rmm, track>>

(* RD destroy; its granule stays in the NS list for the postamble.         *)
DestroyRd ==
  /\ phase = "rd"
  /\ \/ rmi_realm_destroy(Rd) /\ Return(TRUE)
     \/ ~CanRealmDestroy(Rd) /\ Return(FALSE) /\ UNCHANGED <<rmm, track>>

(* The postamble's loop over the NS list.                                  *)
DelegatedNodes == {n \in ns : n.state = "DELEGATED"}

UndelegateNs ==
  /\ phase = "ns"
  /\ \/ \E n \in DelegatedNodes :
          \/ rmi_granule_undelegate(n.pa) /\ UNCHANGED post
          \/ ~CanUndelegate(n.pa) /\ Leave("error") /\ UNCHANGED <<rmm, track>>
     \/ DelegatedNodes = {} /\ Go("free") /\ UNCHANGED <<rmm, track>>

(* Mutant: the nodes are left in the list.                                 *)
FreeRemainingNothing ==
  phase = "free" /\ Leave("success") /\ UNCHANGED <<rmm, track>>

(* The nodes of unmapped unprotected addresses are dropped from the list.  *)
FreeRemaining ==
  /\ phase = "free"
  /\ Leave("success")
  /\ ns' = {n \in ns : n.state # "UNDELEGATED"}
  /\ UNCHANGED <<rmm, memrd, list, fault>>

(* val_host_reset_mem_tack, called by val_host_test_init for the next      *)
(* test.  It leaves the auxiliary table lists alone.                       *)
reset_mem_tack ==
  /\ phase = "success"
  /\ Go("test")
  /\ ns' = {}
  /\ memrd' = [i \in AllSlots |-> NoAddr]
  /\ list' = [k \in Kind |-> IF k = "RTT_AUX" THEN list[k]
                             ELSE [i \in AllSlots |-> {}]]
  /\ UNCHANGED <<rmm, fault>>

(* Bound: the run ends at a failed postamble.  What the tests that follow  *)
(* find in the tracker's pointers is the subject of module NsList.         *)
Halted == phase = "error" /\ UNCHANGED vars

Work ==
  \/ NextRealm \/ UndelegateCur \/ DestroyRec \/ DestroyData \/ UnmapUnprotected
  \/ DestroyRtt \/ EndLoop \/ DestroyRd \/ UndelegateNs \/ FreeRemaining

PNext == Test \/ CallRealmDestroy \/ StartPostamble \/ Work \/ reset_mem_tack \/ Halted

PSpec == PInit /\ [][PNext]_vars

-----------------------------------------------------------------------------
(* A postamble that returns VAL_SUCCESS has given every granule back: the  *)
(* RMM holds none, no mapping is left and every list is empty, so that the *)
(* reset that follows loses nothing.                                       *)
CleansUp ==
  phase = "success" =>
    /\ \A p \in PA : gran[p].st = "UNDELEGATED"
    /\ umap = {} /\ auxmap = {}
    /\ ns = {}
    /\ \A k \in Kind, i \in AllSlots : list[k][i] = {}

(* The postamble fails only when the test left a device object behind,     *)
(* which the tracker does not know about.                                  *)
FailsOnlyForDevices == phase = "error" => InState("DEV") # {}

(* val_host_realm_destroy returns only when the realm is gone: the order   *)
(* of its loops (RECs, data, unprotected, tables from the leaves up, RD)   *)
(* is one the RMM accepts, from any state a test can leave.                *)
DestroyCompletes ==
  [][(phase \in RealmPhases /\ phase' \notin RealmPhases)
       => memrd'[slot] = NoAddr]_vars

(* The commands still to come: two for a node in a realm's list, one for  *)
(* each of its auxiliary mappings and for a delegated node in the NS list. *)
CommandsLeft ==
  LET nodes == UNION {{<<k, i, n>> : n \in list[k][i]} : k \in Kind, i \in AllSlots}
      mapped == UNION {{<<e, t>> : t \in e[3].aux} : e \in nodes}
  IN 2 * Cardinality(nodes) + Cardinality(mapped) + Cardinality(DelegatedNodes)

(* The place in the code, ordered as <<a, b, c, d>> is, lexicographically. *)
Place ==
  LET order == <<"next", "rec", "data", "valid_ns", "rtt", "rd", "ns", "free">>
  IN IF phase \in {"test", "success", "error"} THEN <<NumRealms + 2, 0, 0, 0>>
     ELSE <<slot, CHOOSE i \in DOMAIN order : order[i] = phase, tree, 3 - level>>

Before(p, q) == \E i \in 1 .. 4 : p[i] < q[i] /\ \A j \in 1 .. i - 1 : p[j] = q[j]

(* val_host_realm_destroy and the postamble return: every step of theirs   *)
(* leaves fewer commands or is at a later place in the code, although the  *)
(* commands put nodes on a list that is walked later.                      *)
PostambleReturns ==
  [][phase \notin {"test", "success", "error"} =>
       \/ CommandsLeft' < CommandsLeft
       \/ CommandsLeft' = CommandsLeft /\ Before(Place, Place')]_vars
============================================================================
