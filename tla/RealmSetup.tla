----------------------------- MODULE RealmSetup -----------------------------
(***************************************************************************)
(* val_host_realm_setup (val_host_realm.c): a realm is created, its RECs   *)
(* are created, the image of every plane and the shared region are mapped, *)
(* the realm is activated.  Any allocation and any RMI command may fail;   *)
(* the code then undoes part of its work and returns VAL_ERROR, and the    *)
(* test goes on to the postamble.                                          *)
(*                                                                         *)
(* A region is one page.  val_host_mem_alloc hands out rising addresses    *)
(* and val_host_mem_free does nothing.  The images' addresses share their  *)
(* tables, so that RMI_RTT_INIT_RIPAS answers with the top of the range.   *)
(***************************************************************************)
EXTENDS Postamble, Sequences

CONSTANTS
  RecCount,    \* realm->rec_count
  SlRtts,      \* realm->num_s2_sl_rtts
  ImageIpa,    \* ImageIpa[t]: where the image of plane t is mapped
  SharedIpa,   \* the shared region
  TestIpa,     \* a page that the test maps itself, with unknown contents
  TestUipa     \* a shared page of the test

ASSUME SetupAssumption ==
  /\ RecCount \in Nat /\ SlRtts \in Nat \ {0}
  /\ StartTables = SlRtts * (NumAux + 1)
  /\ ImageIpa \in [Tree -> IPA] /\ SharedIpa \in UIPA
  /\ TestIpa \in IPA /\ TestUipa \in UIPA

VARIABLES
  activate, \* the argument activate of val_host_realm_setup
  pc,      \* where val_host_realm_setup is
  fresh,   \* the next address of the allocator
  rd,      \* realm->rd
  start,   \* start[t][s]: realm->rtt_l0_addr and rtt_aux_l0_addr, page s
  image,   \* image[t]: realm->image_pa_base and aux_image_pa_base
  rec,     \* realm->rec
  recaux,  \* realm->rec_aux_granules, by REC
  state,   \* realm->state
  mapped,  \* realm->granules_mapped_count
  n,       \* the index of the current loop: table page, REC
  plane,   \* the tree or plane of the current loop
  page,    \* the physical page of TestIpa
  create,  \* val_host_create_(aux_)rtt_levels: tree, ipa, level, rtt, return
  undo,    \* the granules the error path still has to undelegate
  failed   \* the step that failed, kept for the properties

setup == <<activate, pc, fresh, rd, start, image, rec, recaux, state, mapped, n,
           plane, page, create, undo, failed>>
svars == <<vars, setup>>

NoCreate == [tree |-> 0, ipa |-> NoAddr, rtt |-> NoAddr, back |-> "none"]

(* The test has cleared its val_host_realm_ts.                             *)
SInit ==
  /\ PInit
  /\ activate \in BOOLEAN /\ pc = "images" /\ fresh = 1 /\ rd = NoAddr
  /\ start = [t \in Tree |-> <<>>] /\ image = [t \in Tree |-> NoAddr]
  /\ rec = <<>> /\ recaux = <<>>
  /\ state = "NULL" /\ mapped = 0 /\ n = 0 /\ plane = 0 /\ page = NoAddr
  /\ create = NoCreate /\ undo = <<>> /\ failed = "none"

Same == UNCHANGED <<rmm, track>>

(* A step fails: the function returns VAL_ERROR once the granules u have   *)
(* been undelegated.                                                       *)
FailAt(u) ==
  /\ pc' = "undo" /\ undo' = u /\ failed' = pc
  /\ Same
  /\ UNCHANGED <<fresh, rd, start, image, rec, recaux, state, mapped, n, plane, page, create>>

Goto(p) == pc' = p /\ UNCHANGED <<page, undo, failed>>

(* val_host_mem_alloc has k more granules; otherwise it returns NULL and   *)
(* the step fails.                                                         *)
Room(k) == fresh .. fresh + k - 1 \subseteq PA

(* The fields that only one or two steps change.                           *)
Realm == <<fresh, rd, start, image, rec, recaux, state, mapped, create>>
-----------------------------------------------------------------------------
(* val_host_realm_create.                                                  *)

(* Memory for the images; it is delegated when they are mapped.            *)
AllocImages ==
  /\ pc = "images"
  /\ \/ FailAt(<<>>)
     \/ /\ Room(NumAux + 1)
        /\ image' = [t \in Tree |-> fresh + t]
        /\ fresh' = fresh + NumAux + 1
        /\ Goto("rtt") /\ Same
        /\ UNCHANGED <<rd, start, rec, recaux, state, mapped, n, plane, create>>

(* The start tables of each tree.  The labels free_rtt and undelegate_rd   *)
(* only undelegate realm->rd, which is not yet set.                        *)
AllocRtt ==
  /\ pc = "rtt"
  /\ \/ FailAt(<<rd>>)
     \/ /\ Room(SlRtts)
        /\ start' = [start EXCEPT ![plane] = [s \in 1 .. SlRtts |-> fresh + s - 1]]
        /\ fresh' = fresh + SlRtts
        /\ n' = 1
        /\ Goto("delegate_rtt") /\ Same
        /\ UNCHANGED <<rd, image, rec, recaux, state, mapped, plane, create>>

DelegateRtt ==
  /\ pc = "delegate_rtt"
  /\ \/ FailAt(<<rd>>)
     \/ /\ rmi_granule_delegate(start[plane][n])
        /\ n' = IF n < SlRtts THEN n + 1 ELSE 0
        /\ plane' = IF n < SlRtts THEN plane ELSE IF plane < NumAux THEN plane + 1 ELSE 0
        /\ Goto(IF n < SlRtts THEN "delegate_rtt" ELSE IF plane < NumAux THEN "rtt" ELSE "rd")
        /\ UNCHANGED Realm

AllocRd ==
  /\ pc = "rd"
  /\ \/ FailAt(<<>>)
     \/ /\ Room(1)
        /\ rd' = fresh /\ fresh' = fresh + 1
        /\ Goto("delegate_rd") /\ Same
        /\ UNCHANGED <<start, image, rec, recaux, state, mapped, n, plane, create>>

DelegateRd ==
  /\ pc = "delegate_rd"
  /\ \/ FailAt(<<>>)
     \/ rmi_granule_delegate(rd) /\ Goto("create") /\ UNCHANGED <<Realm, n, plane>>

(* Mutant: only the tables of the primary tree are undelegated.            *)
UndoCreatePrimaryOnly == <<start[0][1], rd>>

(* From the label undelegate_rtt on: the first page of each tree's start   *)
(* tables, then the RD.                                                    *)
UndoCreate == [t \in 1 .. NumAux + 1 |-> start[t - 1][1]] \o <<rd>>

(* The parameters are allocated, and RMI_REALM_CREATE.                     *)
CreateRealm ==
  /\ pc = "create"
  /\ \/ FailAt(UndoCreate)
     \/ /\ rmi_realm_create(rd, UNION {{start[t][s] : s \in 1 .. SlRtts} : t \in Tree})
        /\ state' = "NEW"
        /\ Goto("aux_count")
        /\ UNCHANGED <<fresh, rd, start, image, rec, recaux, mapped, n, plane, create>>
-----------------------------------------------------------------------------
(* val_host_rec_create.                                                    *)

(* RMI_REC_AUX_COUNT and the memory for the parameters.                    *)
RecAuxCount ==
  /\ pc = "aux_count"
  /\ \/ FailAt(<<>>)
     \/ Goto("rec") /\ Same /\ UNCHANGED <<Realm, n, plane>>

(* free_rec_params: RECs n down to 1 of 0 .. n, each with its auxiliary    *)
(* granules.  The fields of REC n may not have been set.                   *)
Field(s, a) == IF a \in DOMAIN s THEN s[a] ELSE NoAddr
UndoRec(a) ==
  <<Field(rec, a + 1)>> \o
    [b \in 1 .. RecAux |-> IF a + 1 \in DOMAIN recaux THEN Field(recaux[a + 1], b) ELSE NoAddr]
UndoRecs ==
  LET f[a \in 0 .. RecCount] == IF a = 0 THEN <<>> ELSE UndoRec(a) \o f[a - 1]
  IN f[n]

(* The loop over the RECs, and the memory for one.                         *)
AllocRec ==
  /\ pc = "rec"
  /\ \/ n < RecCount /\ FailAt(UndoRecs)
     \/ /\ n < RecCount /\ Room(1)
        /\ rec' = Append(rec, fresh) /\ recaux' = Append(recaux, <<>>)
        /\ fresh' = fresh + 1
        /\ Goto("delegate_rec") /\ Same
        /\ UNCHANGED <<rd, start, image, state, mapped, n, plane, create>>
     \/ /\ n = RecCount
        /\ n' = 0
        /\ Goto("ripas") /\ Same /\ UNCHANGED <<Realm, plane>>

DelegateRec ==
  /\ pc = "delegate_rec"
  /\ \/ FailAt(UndoRecs)
     \/ /\ rmi_granule_delegate(rec[n + 1])
        /\ Goto(IF RecAux > 0 THEN "aux" ELSE "rec_create")
        /\ UNCHANGED <<Realm, n, plane>>

(* An auxiliary granule is allocated and delegated, then recorded.         *)
DelegateAux ==
  /\ pc = "aux"
  /\ \/ FailAt(UndoRecs)
     \/ /\ Room(1)
        /\ rmi_granule_delegate(fresh)
        /\ recaux' = [recaux EXCEPT ![n + 1] = Append(@, fresh)]
        /\ fresh' = fresh + 1
        /\ Goto(IF Len(recaux[n + 1]) + 1 < RecAux THEN "aux" ELSE "rec_create")
        /\ UNCHANGED <<rd, start, image, rec, state, mapped, n, plane, create>>

CreateRec ==
  /\ pc = "rec_create"
  /\ \/ FailAt(UndoRecs)
     \/ /\ rmi_rec_create(rd, rec[n + 1], {recaux[n + 1][b] : b \in 1 .. RecAux})
        /\ n' = n + 1
        /\ Goto("rec") /\ UNCHANGED <<Realm, plane>>
-----------------------------------------------------------------------------
(* val_host_create_rtt_levels and val_host_create_aux_rtt_levels: the      *)
(* missing tables for an address, from the top down.                       *)

(* The walk level: the lowest table that is there.                         *)
WalkLevel(ipa, t) ==
  CHOOSE l \in Level : /\ Walks(rd, ipa, l, t)
                       /\ \A m \in Level : m > l => ~Walks(rd, ipa, m, t)

CallCreate(t, ipa, back) ==
  /\ create' = [tree |-> t, ipa |-> ipa, rtt |-> NoAddr, back |-> back]
  /\ Goto("level") /\ Same
  /\ UNCHANGED <<fresh, rd, start, image, rec, recaux, state, mapped, n, plane>>

(* Mutant: one level too few.                                              *)
CreateLevelsOneShort ==
  /\ pc = "level"
  /\ LET walk == WalkLevel(create.ipa, create.tree)
     IN \/ walk >= 2 /\ Goto(create.back) /\ Same /\ UNCHANGED <<Realm, n, plane>>
        \/ /\ walk < 2 /\ Room(1)
           /\ rmi_granule_delegate(fresh)
           /\ create' = [create EXCEPT !.rtt = fresh]
           /\ fresh' = fresh + 1
           /\ Goto("rtt_create")
           /\ UNCHANGED <<rd, start, image, rec, recaux, state, mapped, n, plane>>

(* The loop over the levels: a table is allocated and delegated.           *)
CreateLevels ==
  /\ pc = "level"
  /\ LET walk == WalkLevel(create.ipa, create.tree)
     IN \/ walk = 3 /\ Goto(create.back) /\ Same /\ UNCHANGED <<Realm, n, plane>>
        \/ walk < 3 /\ FailAt(<<>>)
        \/ /\ walk < 3 /\ Room(1)
           /\ rmi_granule_delegate(fresh)
           /\ create' = [create EXCEPT !.rtt = fresh]
           /\ fresh' = fresh + 1
           /\ Goto("rtt_create")
           /\ UNCHANGED <<rd, start, image, rec, recaux, state, mapped, n, plane>>

CreateTable ==
  /\ pc = "rtt_create"
  /\ LET l == WalkLevel(create.ipa, create.tree) + 1
     IN \/ FailAt(<<create.rtt>>)
        \/ /\ rmi_rtt_create(rd, create.rtt, Base[l][create.ipa], l, create.tree)
           /\ Goto("level") /\ UNCHANGED <<Realm, n, plane>>
-----------------------------------------------------------------------------
(* val_host_image_map for plane 0, then for the auxiliary planes.          *)

(* val_host_ripas_init: RMI_RTT_INIT_RIPAS until the tables are there.     *)
InitRipas ==
  /\ pc = "ripas"
  /\ LET ipa == ImageIpa[plane]
     IN \/ FailAt(<<>>)
        \/ ~Walks(rd, ipa, 3, 0) /\ CallCreate(0, ipa, "ripas")
        \/ /\ Walks(rd, ipa, 3, 0)
           /\ Goto("delegate_data") /\ Same /\ UNCHANGED <<Realm, n, plane>>

(* val_host_map_protected_data.  The tables are there by now, so its own   *)
(* call of val_host_create_rtt_levels is not reached.                      *)
DelegateData ==
  /\ pc = "delegate_data"
  /\ \/ FailAt(<<>>)
     \/ /\ rmi_granule_delegate(image[plane])
        /\ Goto("data") /\ UNCHANGED <<Realm, n, plane>>

CreateData ==
  /\ pc = "data"
  /\ \/ FailAt(<<>>)
     \/ /\ rmi_data_create(rd, image[plane], ImageIpa[plane])
        /\ n' = 1
        /\ Goto("aux_map") /\ UNCHANGED <<Realm, plane>>

(* val_host_aux_map_protected_data: the page in every auxiliary tree.      *)
AuxMapData ==
  /\ pc = "aux_map"
  /\ LET ipa == ImageIpa[plane]
     IN \/ n <= NumAux /\ FailAt(<<>>)
        \/ n <= NumAux /\ ~Walks(rd, ipa, 3, n) /\ CallCreate(n, ipa, "aux_map")
        \/ /\ n <= NumAux
           /\ rmi_rtt_aux_map(rd, ipa, n)
           /\ n' = n + 1
           /\ Goto("aux_map") /\ UNCHANGED <<Realm, plane>>

(* The image is entered in realm->granules.                                *)
ImageMapped ==
  /\ pc = "aux_map" /\ n > NumAux
  /\ mapped' = mapped + 1
  /\ n' = 0
  /\ plane' = IF plane < NumAux THEN plane + 1 ELSE 0
  /\ Goto(IF plane < NumAux THEN "ripas" ELSE "shared") /\ Same
  /\ UNCHANGED <<fresh, rd, start, image, rec, recaux, state, create>>
-----------------------------------------------------------------------------
(* Mutant: the auxiliary trees are left out.                               *)
MapSharedPrimaryOnly ==
  /\ pc = "shared"
  /\ \/ ~Walks(rd, SharedIpa, 3, 0) /\ CallCreate(0, SharedIpa, "shared")
     \/ /\ rmi_rtt_map_unprotected(rd, SharedIpa, 3)
        /\ mapped' = mapped + 1
        /\ Goto("activate")
        /\ UNCHANGED <<fresh, rd, start, image, rec, recaux, state, n, plane, create>>

(* val_host_map_shared_region: val_host_map_unprotected, then              *)
(* val_host_aux_map_unprotected for every auxiliary tree.                  *)
MapShared ==
  /\ pc = "shared"
  /\ \/ FailAt(<<>>)
     \/ ~Walks(rd, SharedIpa, 3, 0) /\ CallCreate(0, SharedIpa, "shared")
     \/ /\ rmi_rtt_map_unprotected(rd, SharedIpa, 3)
        /\ n' = 1
        /\ Goto("aux_shared") /\ UNCHANGED <<Realm, plane>>

AuxMapShared ==
  /\ pc = "aux_shared"
  /\ \/ n <= NumAux /\ FailAt(<<>>)
     \/ n <= NumAux /\ ~Walks(rd, SharedIpa, 3, n) /\ CallCreate(n, SharedIpa, "aux_shared")
     \/ /\ n <= NumAux
        /\ rmi_rtt_aux_map(rd, SharedIpa, n)
        /\ n' = n + 1
        /\ Goto("aux_shared") /\ UNCHANGED <<Realm, plane>>

(* The region is entered in realm->granules.                               *)
SharedMapped ==
  /\ pc = "aux_shared" /\ n > NumAux
  /\ mapped' = mapped + 1
  /\ Goto("activate") /\ Same
  /\ UNCHANGED <<fresh, rd, start, image, rec, recaux, state, n, plane, create>>

(* val_host_realm_activate.                                                *)
ActivateRealm ==
  /\ pc = "activate"
  /\ \/ activate /\ FailAt(<<>>)
     \/ /\ state' = IF activate THEN "ACTIVE" ELSE state
        /\ Goto("success") /\ Same
        /\ UNCHANGED <<fresh, rd, start, image, rec, recaux, mapped, n, plane, create>>

(* val_host_map_protected_data_unknown, called by the test: the page stays *)
(* delegated when a step after its delegation fails.                       *)
DelegatePage ==
  /\ pc = "success"
  /\ \/ FailAt(<<>>)
     \/ /\ Room(1)
        /\ rmi_granule_delegate(fresh)
        /\ page' = fresh /\ fresh' = fresh + 1
        /\ pc' = "unknown"
        /\ UNCHANGED <<rd, start, image, rec, recaux, state, mapped, n, plane, create,
                       undo, failed>>

CreateUnknown ==
  /\ pc = "unknown"
  /\ \/ FailAt(<<>>)
     \/ ~Walks(rd, TestIpa, 3, 0) /\ CallCreate(0, TestIpa, "unknown")
     \/ /\ rmi_data_create(rd, page, TestIpa)
        /\ Goto("ns_shared") /\ UNCHANGED <<Realm, n, plane>>

(* val_host_map_ns_shared_region, through val_host_map_unprotected_attr.   *)
MapNsShared ==
  /\ pc = "ns_shared"
  /\ \/ FailAt(<<>>)
     \/ ~Walks(rd, TestUipa, 3, 0) /\ CallCreate(0, TestUipa, "ns_shared")
     \/ /\ rmi_rtt_map_unprotected(rd, TestUipa, 3)
        /\ mapped' = mapped + 1
        /\ Goto("done")
        /\ UNCHANGED <<fresh, rd, start, image, rec, recaux, state, n, plane, create>>

(* The error path: an undelegation the RMM refuses is only logged.         *)
Undo ==
  /\ pc = "undo"
  /\ \/ /\ undo # <<>>
        /\ undo' = Tail(undo)
        /\ UNCHANGED <<pc, page, failed>>
        /\ LET g == Head(undo)
           IN IF g \in PA /\ CanUndelegate(g) THEN rmi_granule_undelegate(g) ELSE Same
     \/ undo = <<>> /\ Goto("error") /\ Same
  /\ UNCHANGED <<Realm, n, plane>>
-----------------------------------------------------------------------------
SetupStep ==
  /\ phase = "test"
  /\ \/ AllocImages \/ AllocRtt \/ DelegateRtt \/ AllocRd \/ DelegateRd
     \/ CreateRealm \/ RecAuxCount \/ AllocRec \/ DelegateRec \/ DelegateAux
     \/ CreateRec \/ CreateLevels \/ CreateTable \/ InitRipas \/ DelegateData
     \/ CreateData \/ AuxMapData \/ ImageMapped \/ MapShared \/ AuxMapShared
     \/ SharedMapped \/ ActivateRealm \/ DelegatePage \/ CreateUnknown
     \/ MapNsShared \/ Undo
  /\ UNCHANGED <<post, activate>>

(* The test, whatever the result, ends with the postamble.                 *)
EndTest == pc \in {"success", "done", "error"} /\ StartPostamble /\ UNCHANGED setup

CleanUp == Work /\ UNCHANGED setup

Done == phase \in {"success", "error"} /\ UNCHANGED svars

SNext == SetupStep \/ EndTest \/ CleanUp \/ Done

(* The host is one thread, and runs on.                                    *)
SSpec == SInit /\ [][SNext]_svars /\ WF_svars(SNext)
-----------------------------------------------------------------------------
(* val_host_realm_setup returns VAL_SUCCESS only for a complete realm: all *)
(* RECs, every image page and the shared page in the primary tree and in   *)
(* every auxiliary tree, all start tables in use, no granule delegated for *)
(* nothing and an entry in realm->granules for every region; the two       *)
(* regions that a test maps afterwards disturb none of this.               *)
SetupComplete ==
  pc \in {"success", "done"} /\ phase = "test" =>
    /\ rd \in InState("RD")
    /\ state = IF activate THEN "ACTIVE" ELSE "NEW"
    /\ Cardinality(Owned("REC", rd)) = RecCount
    /\ Cardinality(Owned("START", rd)) = StartTables
    /\ \A t \in Tree : /\ DataAt(rd, ImageIpa[t]) = {image[t]}
                       /\ AuxTrees(rd, ImageIpa[t]) = Aux
    /\ [rd |-> rd, ipa |-> SharedIpa, level |-> 3] \in umap
    /\ AuxTrees(rd, SharedIpa) = Aux
    /\ InState("DELEGATED") = {}
    /\ mapped = NumAux + (IF pc = "done" THEN 3 ELSE 2)

(* When RMI_REALM_CREATE fails, the error path of val_host_realm_create    *)
(* gives back the RD and the first start table of every tree; only the     *)
(* further pages of start tables are left to the postamble.                *)
CreateRollsBack ==
  pc = "error" /\ phase = "test" /\ failed = "create" =>
    \A p \in PA : gran[p].st # "UNDELEGATED" =>
      \E t \in Tree : \E s \in 2 .. SlRtts : p = start[t][s]

(* However the setup ended, the postamble succeeds.                        *)
SetupIsUndone == <>(phase = "success")
=============================================================================
