---------------------------- MODULE DeviceProofs ----------------------------
(***************************************************************************)
(* Proofs about a device, each module for itself.  DeviceAssignment, for   *)
(* any number of calls of the Realm, any lengths of measurements and any   *)
(* limit on mapped regions: what the teardown leaves behind, and what the  *)
(* Realm can continue.  PcieRegs, for any number of operations and errors  *)
(* and any field: an operation changes its own bits only, and the verdict  *)
(* on a bit field is right.                                                *)
(***************************************************************************)
EXTENDS DeviceAssignment, PcieRegs, TLAPS

(* Zenon unless a step names another prover.                               *)
USE ZenonT(60)

CreateSteps == {"pdev_create", "pdev_buffers", "needs_key", "set_pubkey", "ready",
                "realm_setup", "vdev_create", "unlocked", "lock", "locked", "vdev_buffers"}
EndSteps == {"vdev1", "vdev0", "pdev", "done"}
VdevStates == {"none", "new", "unlocked", "locked", "error"}
VdevOps == {"none", "lock", "unlock", "measure", "report"}
Vdevs == {d \in [state : VdevStates, op : VdevOps] : d.op # "none" => d.state # "none"}
Vobjs == [ptr : BOOLEAN, meas : BOOLEAN, meas_len : Nat, ifc_len : Nat]

AssignType ==
  /\ pc \in CreateSteps \cup {"serve", "teardown"} \cup EndSteps
  /\ vdev \in [Ids -> Vdevs]
  /\ vobj \in [Ids -> Vobjs]
  /\ failed \in BOOLEAN /\ fault \in BOOLEAN /\ sound \in BOOLEAN

(* The handle remembered is the one given out last.                        *)
HandleInv == handles \in Nat /\ next_handle = handles

(* An operation is begun by da_init between its lock and the transaction   *)
(* that follows, and by the Realm, on the first VDEV, with a handle.       *)
PendingInv ==
  /\ pc \in CreateSteps \ {"locked"} => \A v \in Ids : vdev[v].op = "none"
  /\ pc = "locked" => \A v \in Ids : v # Cur => vdev[v].op = "none"
  /\ pc = "serve" => vdev[1].op = "none" /\ (vdev[0].op # "none" => handles # 0)

(* Until something fails the host knows every VDEV that the RMM has.       *)
KnownInv ==
  /\ pc \in {"unlocked", "lock", "locked", "vdev_buffers"} => vobj[Cur].ptr
  /\ pc = "lock" => vdev[Cur].state # "none"
  /\ pc \in CreateSteps \cup {"serve"} =>
       /\ \A v \in Ids : vdev[v].state # "none" => vobj[v].ptr
       /\ vobj[0].meas \/ pc = "serve" => vobj[0].ptr
       /\ count \in Nat /\ (count > 1 => vobj[1].ptr)

(* A page of device memory that is mapped and not recorded goes with a     *)
(* test that has failed.                                                   *)
MappedInv ==
  /\ mapped # {} /\ ~failed => vobj[0].ptr
  /\ ~failed => mapped \subseteq Recorded
  /\ pc = "pdev" /\ ~failed => mapped = {}
  /\ pc = "done" /\ ~failed => mapped = {} /\ Gone

(* The teardown of a sound test in which the RMM fails no call.            *)
Idling(v) == vdev[v].state # "none" => vobj[v].ptr /\ vdev[v].op = "none"
TeardownInv ==
  pc \in EndSteps /\ sound /\ ~fault =>
    /\ pdev # "none" => pobj
    /\ pc = "vdev1" => Idling(1) /\ Idling(0)
    /\ pc = "vdev0" => vdev[1].state = "none" /\ Idling(0)
    /\ pc \in {"pdev", "done"} => \A v \in Ids : vdev[v].state = "none"
    /\ pc = "done" => pdev = "none"

AssignInv == AssignType /\ HandleInv /\ PendingInv /\ KnownInv /\ MappedInv /\ TeardownInv
-----------------------------------------------------------------------------
(* Before da_init nothing is created, mapped or pending.                   *)
LEMMA AssignStarts == Init => AssignInv
<1> SUFFICES ASSUME Init PROVE AssignInv
  OBVIOUS
<1>1. AssignType /\ HandleInv
  <2>1. NoVdev \in Vdevs /\ NoObj \in Vobjs
    BY SMTT(60) DEF Vdevs, VdevStates, VdevOps, Vobjs, NoVdev, NoObj
  <2>2. vdev \in [Ids -> Vdevs] /\ vobj \in [Ids -> Vobjs]
    BY <2>1, SMTT(60) DEF Init
  <2>3. pc \in CreateSteps /\ handles \in Nat /\ next_handle = handles
    BY SMTT(60) DEF Init, CreateSteps
  <2>4. failed \in BOOLEAN /\ fault \in BOOLEAN /\ sound \in BOOLEAN
    BY DEF Init
  <2> QED BY <2>2, <2>3, <2>4 DEF AssignType, HandleInv
<1>2. PendingInv /\ KnownInv
  BY SMTT(60) DEF Init, PendingInv, KnownInv, NoVdev, NoObj, Ids
<1>3. MappedInv /\ TeardownInv
  BY SMTT(60) DEF Init, MappedInv, TeardownInv, EndSteps
<1> QED BY <1>1, <1>2, <1>3 DEF AssignInv

(* A step of da_init or da_create_vdev leaves the Realm's part alone.      *)
LEMMA CreateKeeps ==
  ASSUME AssignInv, pc' \in CreateSteps \cup {"serve", "teardown"},
         UNCHANGED <<mapped, regions, rhi, fault, sound>>,
         failed' \in BOOLEAN, failed => failed',
         vdev' \in [Ids -> Vdevs], vobj' \in [Ids -> Vobjs], vobj[0].ptr => vobj'[0].ptr,
         pc' # "teardown" => PendingInv' /\ KnownInv'
  PROVE  AssignInv'
<1>1. pc' \notin EndSteps /\ pc' # "pdev" /\ pc' # "done"
  BY SMTT(60) DEF EndSteps, CreateSteps
<1>2. AssignType' /\ HandleInv'
  BY DEF AssignInv, AssignType, HandleInv, rhi
<1>3. MappedInv' /\ TeardownInv'
  BY <1>1 DEF AssignInv, MappedInv, TeardownInv, Recorded
<1>4. pc' = "teardown" => PendingInv' /\ KnownInv'
  BY SMTT(60) DEF PendingInv, KnownInv, CreateSteps
<1> QED BY <1>2, <1>3, <1>4 DEF AssignInv

(* The current VDEV changes only when its buffers are there.               *)
LEMMA CurrentVdev ==
  ASSUME AssignType
  PROVE  /\ Cur \in Ids /\ vdev[Cur] \in Vdevs /\ vobj[Cur] \in Vobjs
         /\ vobj'[0].meas = vobj[0].meas => Cur' = Cur
BY SMTT(60) DEF AssignType, Cur, Ids

(* The steps of da_init for the PDEV and the Realm, and a step that fails. *)
LEMMA PdevKeeps ==
  ASSUME AssignInv,
         \/ \E step \in InitSteps : StepFails(step)
         \/ PdevCreate \/ PdevBuffers \/ PdevCommunicate \/ SetPubkey \/ RealmSetup
  PROVE  AssignInv'
<1>1. /\ UNCHANGED <<vdev, vobj, mapped, regions, rhi, fault, sound, count>>
      /\ \/ pc' = "teardown" /\ failed' = TRUE
         \/ /\ failed' = failed
            /\ pc \in {"pdev_create", "pdev_buffers", "needs_key", "set_pubkey", "ready", "realm_setup"}
            /\ pc' \in {"pdev_buffers", "needs_key", "set_pubkey", "ready", "realm_setup", "vdev_create"}
  BY SMTT(60) DEF StepFails, Failed, PdevCreate, PdevBuffers, PdevCommunicate, SetPubkey, RealmSetup
<1>2. AssignType /\ PendingInv /\ KnownInv
  BY DEF AssignInv
<1>3. pc' # "teardown" => PendingInv' /\ KnownInv'
  BY <1>1, <1>2, SMTT(60) DEF PendingInv, KnownInv, CreateSteps
<1>4. pc' \in CreateSteps \cup {"serve", "teardown"}
  BY <1>1, SMTT(60) DEF CreateSteps
<1>5. failed' \in BOOLEAN /\ (failed => failed')
  BY <1>1, <1>2 DEF AssignType
<1> QED BY <1>1, <1>2, <1>3, <1>4, <1>5, CreateKeeps DEF AssignType

(* What the host's assignments to the fields of a VDEV object give.        *)
LEMMA PtrSet ==
  ASSUME NEW o \in Vobjs
  PROVE  /\ [o EXCEPT !.ptr = TRUE] \in Vobjs
         /\ [o EXCEPT !.ptr = TRUE].ptr /\ [o EXCEPT !.ptr = TRUE].meas = o.meas
BY DEF Vobjs

(* The buffers for measurements and report.                                *)
LEMMA BuffersSet ==
  ASSUME NEW o \in Vobjs
  PROVE  /\ [o EXCEPT !.meas = TRUE, !.meas_len = 0, !.ifc_len = 0] \in Vobjs
         /\ [o EXCEPT !.meas = TRUE, !.meas_len = 0, !.ifc_len = 0].ptr = o.ptr
<1>1. 0 \in Nat
  BY SMTT(60)
<1> QED BY <1>1 DEF Vobjs

(* The lengths of the measurements and the report.                         *)
LEMMA LengthsSet ==
  ASSUME NEW o \in Vobjs, NEW m \in Nat, NEW n \in Nat
  PROVE  /\ [o EXCEPT !.meas_len = m, !.ifc_len = n] \in Vobjs
         /\ [o EXCEPT !.meas_len = m, !.ifc_len = n].ptr = o.ptr
BY DEF Vobjs

(* A VDEV that is created is known to the host once its state was read.    *)
LEMMA VdevCreateKeeps ==
  ASSUME AssignInv, NEW b \in BOOLEAN, VdevCreate(b)
  PROVE  AssignInv'
<1>1. AssignType /\ PendingInv /\ KnownInv
  BY DEF AssignInv
<1>2. /\ vdev' = [vdev EXCEPT ![Cur].state = "new"] /\ pc = "vdev_create"
      /\ UNCHANGED <<mapped, regions, rhi, fault, sound>>
  BY DEF VdevCreate
<1>3. vdev' \in [Ids -> Vdevs] /\ \A v \in Ids : vdev'[v].op = "none"
  BY <1>1, <1>2, CurrentVdev, SMTT(60) DEF AssignType, PendingInv, Vdevs, VdevStates, VdevOps, CreateSteps
<1>4. CASE b
  <2>1. /\ vobj' = [vobj EXCEPT ![Cur] = [NoObj EXCEPT !.ptr = TRUE]]
        /\ pc' \in {"serve", "unlocked"} /\ failed' = failed
    BY <1>4, SMTT(60) DEF VdevCreate
  <2>2. /\ vobj' \in [Ids -> Vobjs] /\ vobj'[Cur].ptr /\ Cur' = Cur
        /\ \A v \in Ids : v # Cur => vobj'[v] = vobj[v]
    <3> DEFINE o == [NoObj EXCEPT !.ptr = TRUE]
    <3>1. o \in Vobjs /\ o.ptr /\ ~o.meas
      <4>1. NoObj \in Vobjs /\ NoObj.meas = FALSE /\ 0 \in Nat
        BY SMTT(60) DEF NoObj, Vobjs
      <4> QED BY <4>1, PtrSet
    <3> HIDE DEF o
    <3>2. /\ vobj' \in [Ids -> Vobjs] /\ vobj'[Cur] = o
          /\ \A v \in Ids : v # Cur => vobj'[v] = vobj[v]
      BY <1>1, <2>1, <3>1, CurrentVdev, SMTT(60) DEF AssignType, o
    <3>3. vobj'[0].meas = vobj[0].meas
      BY <1>1, <3>1, <3>2, SMTT(60) DEF AssignType, Vobjs, Cur, Ids
    <3> QED BY <1>1, <3>1, <3>2, <3>3, CurrentVdev
  <2>3. \A v \in Ids : vobj[v].ptr => vobj'[v].ptr
    BY <2>2
  <2>4. \A v \in Ids : vdev'[v].state # "none" => vobj'[v].ptr
    BY <1>1, <1>2, <2>2, <2>3, SMTT(60) DEF AssignType, KnownInv, CreateSteps
  <2>5. /\ vobj'[0].ptr /\ count' \in Nat /\ (count' > 1 => vobj'[1].ptr)
    BY <1>1, <1>2, <2>2, <2>3, SMTT(60) DEF VdevCreate, KnownInv, CreateSteps, Cur, Ids
  <2>6. PendingInv' /\ KnownInv'
    BY <1>3, <2>1, <2>2, <2>4, <2>5, SMTT(60) DEF PendingInv, KnownInv, Ids
  <2> QED BY <1>1, <1>2, <1>3, <2>1, <2>2, <2>3, <2>6, CreateKeeps, SMTT(60)
          DEF AssignType, CreateSteps, Ids
<1>5. CASE ~b
  BY <1>1, <1>2, <1>3, <1>5, CreateKeeps, SMTT(60) DEF VdevCreate, Failed, AssignType
<1> QED BY <1>4, <1>5

(* The lock is begun on the VDEV being brought up, and on no other.        *)
LEMMA VdevLockKeeps ==
  ASSUME AssignInv, VdevLock
  PROVE  AssignInv'
<1>1. AssignType /\ PendingInv /\ KnownInv
  BY DEF AssignInv
<1>2. /\ vdev' = [vdev EXCEPT ![Cur].op = "lock"] /\ pc = "lock" /\ pc' = "locked"
      /\ UNCHANGED <<vobj, mapped, regions, rhi, fault, sound, failed>>
  BY DEF VdevLock
<1>a. count' = count /\ vdev[Cur].state # "none"
  BY <1>1, <1>2 DEF VdevLock, KnownInv
<1>3. /\ vdev' \in [Ids -> Vdevs] /\ Cur' = Cur
      /\ \A v \in Ids : vdev'[v].state = vdev[v].state
      /\ \A v \in Ids : v # Cur => vdev'[v] = vdev[v]
  BY <1>1, <1>2, <1>a, CurrentVdev, SMTT(60) DEF AssignType, Vdevs, VdevStates, VdevOps, Cur
<1>4. PendingInv' /\ KnownInv'
  BY <1>1, <1>2, <1>a, <1>3, SMTT(60) DEF PendingInv, KnownInv, CreateSteps
<1> QED BY <1>1, <1>2, <1>3, <1>4, CreateKeeps, SMTT(60) DEF AssignType, CreateSteps

(* A transaction leaves nothing pending, or the test goes to its teardown. *)
LEMMA VdevCommunicateKeeps ==
  ASSUME AssignInv, VdevUnlocked \/ VdevLocked
  PROVE  AssignInv'
<1>1. AssignType /\ PendingInv /\ KnownInv
  BY DEF AssignInv
<1>2. PICK target \in {"unlocked", "locked"} :
        pc \in {"unlocked", "locked"} /\ VdevCommunicate(Cur, target)
  BY DEF VdevUnlocked, VdevLocked
<1>3. UNCHANGED <<vobj, mapped, regions, rhi, fault, sound, count>> /\ Cur' = Cur
  BY DEF VdevUnlocked, VdevLocked, Cur
<1>4. CASE /\ vdev' = [vdev EXCEPT ![Cur] = [state |-> target, op |-> "none"]]
           /\ pc' \in {"vdev_buffers", "serve", "lock"} /\ failed' = failed
  <2>1. /\ vdev' \in [Ids -> Vdevs] /\ vdev'[Cur].op = "none"
        /\ vdev'[Cur].state # "none"
        /\ \A v \in Ids : v # Cur => vdev'[v] = vdev[v]
    BY <1>1, <1>4, CurrentVdev, SMTT(60) DEF AssignType, Vdevs, VdevStates, VdevOps
  <2>2. \A v \in Ids : vdev'[v].op = "none"
    BY <1>1, <1>2, <2>1, SMTT(60) DEF PendingInv, CreateSteps
  <2>3. PendingInv'
    BY <1>4, <2>2, SMTT(60) DEF PendingInv, CreateSteps, Ids
  <2>4. /\ vobj[Cur].ptr /\ count \in Nat /\ (count > 1 => vobj[1].ptr)
        /\ \A v \in Ids : vdev[v].state # "none" => vobj[v].ptr
        /\ vobj[0].meas => vobj[0].ptr
    BY <1>1, <1>2, SMTT(60) DEF KnownInv, CreateSteps
  <2>5. vobj[0].ptr /\ \A v \in Ids : vdev'[v].state # "none" => vobj[v].ptr
    BY <2>1, <2>4, SMTT(60) DEF Cur, Ids
  <2>6. KnownInv'
    BY <1>3, <2>1, <2>4, <2>5 DEF KnownInv
  <2> QED BY <1>1, <1>3, <1>4, <2>1, <2>3, <2>6, CreateKeeps, SMTT(60) DEF AssignType, CreateSteps
<1>5. CASE /\ \E d \in BrokenVdev(Cur) : vdev' = [vdev EXCEPT ![Cur] = d]
           /\ Failed
  <2>1. vdev' \in [Ids -> Vdevs]
    BY <1>1, <1>5, CurrentVdev, SMTT(60) DEF AssignType, Vdevs, VdevStates, VdevOps, BrokenVdev
  <2> QED BY <1>1, <1>3, <1>5, <2>1, CreateKeeps, SMTT(60) DEF Failed, AssignType
<1> QED BY <1>2, <1>4, <1>5, SMTT(60) DEF VdevCommunicate

(* The buffers come last, and with those of the second VDEV its count.     *)
LEMMA VdevBuffersKeeps ==
  ASSUME AssignInv, VdevBuffers
  PROVE  AssignInv'
<1>1. AssignType /\ PendingInv /\ KnownInv
  BY DEF AssignInv
<1>2. /\ pc = "vdev_buffers" /\ pc' \in {"vdev_create", "serve"}
      /\ vobj' = [vobj EXCEPT ![Cur] = [@ EXCEPT !.meas = TRUE, !.meas_len = 0, !.ifc_len = 0]]
      /\ UNCHANGED <<vdev, mapped, regions, rhi, failed, fault, sound>>
  BY SMTT(60) DEF VdevBuffers
<1>3. vobj' \in [Ids -> Vobjs] /\ \A v \in Ids : vobj'[v].ptr = vobj[v].ptr
  <2> DEFINE o == [vobj[Cur] EXCEPT !.meas = TRUE, !.meas_len = 0, !.ifc_len = 0]
  <2>1. o \in Vobjs /\ o.ptr = vobj[Cur].ptr
    BY <1>1, CurrentVdev, BuffersSet
  <2>2. vobj' = [vobj EXCEPT ![Cur] = o]
    BY <1>2
  <2> HIDE DEF o
  <2> QED BY <1>1, <2>1, <2>2, CurrentVdev, SMTT(60) DEF AssignType
<1>4. PendingInv'
  BY <1>1, <1>2, SMTT(60) DEF PendingInv, CreateSteps, Ids
<1>5. /\ vobj'[0].ptr /\ \A v \in Ids : vdev'[v].state # "none" => vobj'[v].ptr
  BY <1>1, <1>2, <1>3, SMTT(60) DEF KnownInv, CreateSteps, Ids, Cur
<1>6. count' \in Nat /\ (count' > 1 => vobj'[1].ptr)
  BY <1>1, <1>2, <1>3, SMTT(60) DEF VdevBuffers, VdevCount, KnownInv, CreateSteps, Ids, Cur
<1>7. KnownInv'
  BY <1>2, <1>5, <1>6, SMTT(60) DEF KnownInv
<1> QED BY <1>1, <1>2, <1>3, <1>4, <1>7, CreateKeeps, SMTT(60) DEF AssignType, CreateSteps, Ids

(* Every step of da_init and of da_create_vdev.                            *)
LEMMA DaInitKeeps ==
  ASSUME AssignInv, DaInit
  PROVE  AssignInv'
BY PdevKeeps, VdevCreateKeeps, VdevLockKeeps, VdevCommunicateKeeps, VdevBuffersKeeps DEF DaInit
-----------------------------------------------------------------------------
(* A call of the Realm leaves the test's own state alone.                  *)
LEMMA CallKeeps ==
  ASSUME AssignInv, Serving, Known,
         vdev' \in [Ids -> Vdevs], vobj' \in [Ids -> Vobjs],
         \A v \in Ids : vobj'[v].ptr = vobj[v].ptr,
         \A v \in Ids : vdev'[v].state # "none" => vobj[v].ptr,
         handles' \in Nat, next_handle' = handles',
         vdev'[1].op = "none", vdev'[0].op # "none" => handles' # 0
  PROVE  AssignInv'
<1>1. /\ AssignType /\ HandleInv /\ KnownInv /\ MappedInv /\ pc = "serve"
      /\ UNCHANGED <<pc, mapped, count, regions, failed, fault, sound>>
  BY DEF AssignInv, Serving, Known
<1>2. AssignType' /\ HandleInv'
  BY <1>1 DEF AssignType, HandleInv
<1>3. PendingInv'
  BY <1>1, SMTT(60) DEF PendingInv, CreateSteps
<1>4. KnownInv'
  <2>1. vobj[0].ptr /\ count \in Nat /\ (count > 1 => vobj[1].ptr)
    BY <1>1 DEF KnownInv
  <2>2. vobj'[0].ptr /\ (count > 1 => vobj'[1].ptr)
    BY <2>1, SMTT(60) DEF Ids
  <2>3. pc' = "serve" /\ count' = count
    BY <1>1
  <2> QED BY <2>1, <2>2, <2>3, SMTT(60) DEF KnownInv
<1>5. MappedInv'
  BY <1>1, SMTT(60) DEF MappedInv, Recorded, Ids
<1>6. TeardownInv'
  BY <1>1, SMTT(60) DEF TeardownInv, EndSteps
<1> QED BY <1>2, <1>3, <1>4, <1>5, <1>6 DEF AssignInv

(* What the host has when a call comes.                                    *)
LEMMA AtCall ==
  ASSUME AssignInv, pc = "serve"
  PROVE  /\ vdev \in [Ids -> Vdevs] /\ vobj \in [Ids -> Vobjs]
         /\ \A v \in Ids : vdev[v].state # "none" => vobj[v].ptr
         /\ handles \in Nat /\ next_handle = handles
         /\ vdev[1].op = "none" /\ (vdev[0].op # "none" => handles # 0)
         /\ vobj[0].ptr /\ (count > 1 => vobj[1].ptr)
BY DEF AssignInv, AssignType, HandleInv, PendingInv, KnownInv

(* A call that is refused, or that only reads.                             *)
LEMMA SaysKeeps ==
  ASSUME AssignInv, Serving, Known, NEW call, NEW status, NEW arg, Says(call, status, arg)
  PROVE  AssignInv'
<1>1. UNCHANGED <<vdev, vobj, handles, next_handle>>
  BY DEF Says
<1> QED BY <1>1, AtCall, CallKeeps DEF Serving

(* A handle is given out for an operation on the first VDEV, or for none.  *)
LEMMA IncompleteKeeps ==
  ASSUME AssignInv, Serving, Known, NEW call, NEW arg, Incomplete(call, arg), vobj' = vobj,
         vdev' = vdev \/ \E op \in VdevOps : /\ vdev' = [vdev EXCEPT ![0].op = op]
                                           /\ vdev[0].state # "none"
  PROVE  AssignInv'
<1>1. handles' = handles + 1 /\ next_handle' = handles + 1 /\ pc = "serve"
  BY DEF Incomplete, Serving
<1>2. handles' \in Nat /\ handles' # 0 /\ next_handle' = handles'
  BY <1>1, AtCall, SMTT(60)
<1>3. /\ vdev' \in [Ids -> Vdevs] /\ vdev'[1] = vdev[1]
      /\ \A v \in Ids : vdev'[v].state = vdev[v].state
  BY <1>1, AtCall, SMTT(60) DEF Ids, Vdevs
<1> QED BY <1>1, <1>2, <1>3, AtCall, CallKeeps

(* The calls that begin a measurement or a report.                         *)
LEMMA BeginKeeps ==
  ASSUME AssignInv, Serving, Known, NEW call, NEW op \in VdevOps, NEW refused, NEW ipa, NEW id,
         Begin(call, op, refused, ipa, id)
  PROVE  AssignInv'
<1>1. CASE \E status : Says(call, status, 0)
  BY <1>1, SaysKeeps
<1>2. CASE /\ vdev[0].state \in {"unlocked", "locked"} /\ vdev' = [vdev EXCEPT ![0].op = op]
           /\ Incomplete(call, 0) /\ UNCHANGED vobj
  BY <1>2, IncompleteKeeps
<1> QED BY <1>1, <1>2 DEF Begin

(* RHI_DA_VDEV_SET_TDI_STATE begins a lock, or nothing for its handle.     *)
LEMMA TdiKeeps ==
  ASSUME AssignInv, NEW id, NEW tdi, vdev_set_tdi_state(id, tdi)
  PROVE  AssignInv'
<1>1. Serving /\ Known /\ pc = "serve"
  BY DEF vdev_set_tdi_state, Serving
<1>2. CASE \E status : Says("set_tdi", status, tdi)
  BY <1>1, <1>2, SaysKeeps
<1>3. CASE /\ vdev[0] = [state |-> "unlocked", op |-> "none"]
           /\ vdev' = [vdev EXCEPT ![0].op = "lock"]
           /\ Incomplete("set_tdi", tdi) /\ UNCHANGED vobj
  <2>1. vdev[0].state # "none" /\ "lock" \in VdevOps
    BY <1>3, SMTT(60) DEF VdevOps
  <2> QED BY <1>1, <1>3, <2>1, IncompleteKeeps
<1>4. CASE Incomplete("set_tdi", tdi) /\ UNCHANGED <<vdev, vobj>>
  BY <1>1, <1>4, IncompleteKeeps
<1> QED BY <1>2, <1>3, <1>4 DEF vdev_set_tdi_state

(* RHI_DA_VDEV_ABORT ends what is pending on the first VDEV.               *)
LEMMA AbortKeeps ==
  ASSUME AssignInv, NEW id, vdev_abort(id)
  PROVE  AssignInv'
<1>1. Serving /\ Known /\ pc = "serve"
  BY DEF vdev_abort, Serving
<1>2. CASE \E status : Says("abort", status, 0)
  BY <1>1, <1>2, SaysKeeps
<1>3. CASE /\ vdev' = [vdev EXCEPT ![0].op = "none"]
           /\ UNCHANGED <<vobj, handles, next_handle>>
  <2>1. /\ vdev' \in [Ids -> Vdevs] /\ vdev'[1] = vdev[1] /\ vdev'[0].op = "none"
        /\ \A v \in Ids : vdev'[v].state = vdev[v].state
    BY <1>1, <1>3, AtCall, SMTT(60) DEF Ids, Vdevs, VdevOps
  <2> QED BY <1>1, <1>3, <2>1, AtCall, CallKeeps
<1> QED BY <1>2, <1>3 DEF vdev_abort

(* What the host keeps of a device's answer.                               *)
LEMMA KeptObject ==
  ASSUME NEW o \in Vobjs, NEW op
  PROVE  Kept(o, op) \in Vobjs /\ Kept(o, op).ptr = o.ptr
<1>1. /\ o.meas_len \in Nat /\ o.ifc_len \in Nat
      /\ o.meas_len + MeasLen \in Nat /\ o.ifc_len + MeasLen \in Nat
  BY MeasAssumption, SMTT(60) DEF Vobjs
<1> DEFINE m == IF op = "measure" THEN o.meas_len + MeasLen ELSE o.meas_len
           n == IF op = "report" THEN o.ifc_len + MeasLen ELSE o.ifc_len
<1>2. m \in Nat /\ n \in Nat
  BY <1>1
<1>3. Kept(o, op) = [o EXCEPT !.meas_len = m, !.ifc_len = n]
  BY DEF Kept
<1> HIDE DEF m, n
<1>4. /\ [o EXCEPT !.meas_len = m, !.ifc_len = n] \in Vobjs
      /\ [o EXCEPT !.meas_len = m, !.ifc_len = n].ptr = o.ptr
  BY <1>2, LengthsSet
<1> QED BY <1>3, <1>4

(* RHI_DA_VDEV_CONTINUE ends what was begun, or the device breaks off.     *)
LEMMA ContinueKeeps ==
  ASSUME AssignInv, NEW id \in Ids, NEW handle, vdev_continue(id, handle)
  PROVE  AssignInv'
<1>1. Serving /\ Known /\ pc = "serve"
  BY DEF vdev_continue, Serving
<1>2. CASE Says("continue", "invalid_vdev", handle)
  BY <1>1, <1>2, SaysKeeps
<1>3. ASSUME /\ id = 0 \/ count > 1
             /\ \E d \in BrokenVdev(id) \cup {[state |-> "locked", op |-> "none"]} :
                   vdev' = [vdev EXCEPT ![id] = d]
             /\ vobj' = vobj \/ vobj' = [vobj EXCEPT ![id] = Kept(vobj[id], vdev[id].op)]
             /\ UNCHANGED <<handles, next_handle>>
      PROVE  AssignInv'
  <2>1. vobj[id].ptr
    BY <1>1, <1>3, AtCall, SMTT(60) DEF Ids
  <2>2. PICK d \in BrokenVdev(id) \cup {[state |-> "locked", op |-> "none"]} :
          vdev' = [vdev EXCEPT ![id] = d]
    BY <1>3
  <2>3. d \in Vdevs /\ (d.op = "none" \/ d = vdev[id])
    BY <1>1, AtCall, SMTT(60) DEF BrokenVdev, Vdevs, VdevStates, VdevOps
  <2>4. /\ vdev' \in [Ids -> Vdevs] /\ vdev'[id] = d
        /\ \A v \in Ids : v # id => vdev'[v] = vdev[v]
    BY <1>1, <2>2, <2>3, AtCall
  <2>5. vobj' \in [Ids -> Vobjs] /\ \A v \in Ids : vobj'[v].ptr = vobj[v].ptr
    <3>1. vobj \in [Ids -> Vobjs]
      BY <1>1, AtCall
    <3>2. CASE vobj' = [vobj EXCEPT ![id] = Kept(vobj[id], vdev[id].op)]
      <4>1. PICK o \in Vobjs : vobj' = [vobj EXCEPT ![id] = o] /\ o.ptr = vobj[id].ptr
        BY <3>1, <3>2, KeptObject
      <4> QED BY <3>1, <4>1
    <3> QED BY <1>3, <3>1, <3>2
  <2>6. \A v \in Ids : /\ vdev'[v].state # "none" => vobj[v].ptr
                       /\ vdev'[v].op = "none" \/ vdev'[v] = vdev[v]
    BY <1>1, <2>1, <2>3, <2>4, AtCall
  <2>7. vdev'[1].op = "none" /\ (vdev'[0].op # "none" => handles # 0)
    BY <1>1, <2>6, AtCall, SMTT(60) DEF Ids
  <2> QED BY <1>1, <1>3, <2>4, <2>5, <2>6, <2>7, AtCall, CallKeeps
<1>4. \/ Says("continue", "invalid_vdev", handle)
      \/ /\ id = 0 \/ count > 1
         /\ \E d \in BrokenVdev(id) \cup {[state |-> "locked", op |-> "none"]} :
               vdev' = [vdev EXCEPT ![id] = d]
         /\ vobj' = vobj \/ vobj' = [vobj EXCEPT ![id] = Kept(vobj[id], vdev[id].op)]
         /\ UNCHANGED <<handles, next_handle>>
  BY DEF vdev_continue
<1> QED BY <1>2, <1>3, <1>4

(* The pages of a region are recorded together, or the test has failed.    *)
LEMMA MapKeeps ==
  ASSUME AssignInv, NEW r, NEW pages \in 0 .. 2, dev_mem_map(r, pages)
  PROVE  AssignInv'
<1>1. /\ AssignType /\ HandleInv /\ PendingInv /\ KnownInv /\ MappedInv /\ pc = "serve"
      /\ UNCHANGED <<vdev, vobj, count, rhi, fault, sound>>
  BY DEF AssignInv, dev_mem_map
<1>2. \/ pc' = "teardown" /\ failed' = TRUE
      \/ /\ pc' = "serve" /\ failed' = failed /\ regions' = regions \cup {r}
         /\ mapped' = mapped \cup ({r} \X (1 .. 2))
  BY <1>1 DEF dev_mem_map, Failed
<1>3. AssignType' /\ HandleInv'
  <2>1. pc' \in CreateSteps \cup {"serve", "teardown"} \cup EndSteps /\ failed' \in BOOLEAN
    BY <1>1, <1>2 DEF AssignType
  <2> QED BY <1>1, <2>1 DEF AssignType, HandleInv, rhi
<1>4. PendingInv' /\ KnownInv'
  <2>1. CASE pc' = "serve"
    BY <1>1, <2>1, SMTT(60) DEF PendingInv, KnownInv, rhi, CreateSteps
  <2>2. CASE pc' = "teardown"
    BY <2>2, SMTT(60) DEF PendingInv, KnownInv, CreateSteps
  <2> QED BY <1>2, <2>1, <2>2
<1>5. MappedInv'
  <2>1. pc' # "pdev" /\ pc' # "done"
    BY <1>2
  <2>2. CASE failed'
    BY <2>1, <2>2 DEF MappedInv
  <2>3. CASE ~failed'
    <3>1. mapped' \subseteq Recorded'
      <4>1. 1 .. 2 = {1, 2}
        BY SMTT(60)
      <4>2. mapped \subseteq regions \X {1, 2}
        BY <1>1, <1>2, <2>3 DEF MappedInv, Recorded
      <4> QED BY <1>2, <2>3, <4>1, <4>2 DEF Recorded
    <3>2. vobj'[0].ptr
      BY <1>1 DEF KnownInv
    <3> QED BY <2>1, <3>1, <3>2 DEF MappedInv
  <2> QED BY <2>2, <2>3
<1>6. TeardownInv'
  BY <1>2, SMTT(60) DEF TeardownInv, EndSteps
<1> QED BY <1>3, <1>4, <1>5, <1>6 DEF AssignInv

(* Every call of the Realm.                                                *)
LEMMA ServeKeeps ==
  ASSUME AssignInv, Serve
  PROVE  AssignInv'
<1>1. ASSUME NEW id, NEW ipa, \/ vdev_get_measurements(id, ipa)
                             \/ vdev_get_interface_report(id)
      PROVE  AssignInv'
  <2>1. "measure" \in VdevOps /\ "report" \in VdevOps
    BY DEF VdevOps
  <2> QED BY <1>1, <2>1, BeginKeeps DEF vdev_get_measurements, vdev_get_interface_report
<1>2. ASSUME NEW id, NEW id2, vdev_p2p_unbind(id, id2)
      PROVE  AssignInv'
  BY <1>2, SaysKeeps, IncompleteKeeps DEF vdev_p2p_unbind
<1>3. ASSUME NEW id, NEW obj, object_size(id, obj)
      PROVE  AssignInv'
  BY <1>3, SaysKeeps DEF object_size
<1>4. ASSUME NEW id, NEW obj, NEW ipa, NEW max_len, NEW offset,
             object_read(id, obj, ipa, max_len, offset)
      PROVE  AssignInv'
  BY <1>4, SaysKeeps DEF object_read
<1> QED BY <1>1, <1>2, <1>3, <1>4, TdiKeeps, AbortKeeps, ContinueKeeps, MapKeeps DEF Serve
-----------------------------------------------------------------------------
(* The teardown starts with the second VDEV, from where the test stops.    *)
LEMMA TeardownStartsKeeps ==
  ASSUME AssignInv, TeardownStarts
  PROVE  AssignInv'
<1>1. /\ AssignType /\ HandleInv /\ MappedInv /\ pc' = "vdev1"
      /\ UNCHANGED <<pdev, vdev, mapped, pobj, vobj, regions, rhi, failed, fault>>
  BY DEF AssignInv, TeardownStarts
<1>2. AssignType' /\ HandleInv'
  BY <1>1 DEF AssignType, HandleInv, rhi, EndSteps, TeardownStarts
<1>3. PendingInv' /\ KnownInv'
  BY <1>1, SMTT(60) DEF PendingInv, KnownInv, CreateSteps
<1>4. MappedInv'
  BY <1>1 DEF MappedInv, Recorded
<1>5. TeardownInv'
  <2>1. sound' => (pdev # "none" => pobj) /\ Idling(0) /\ Idling(1)
    BY DEF TeardownStarts, Idling, Ids
  <2>2. sound' => (pdev' # "none" => pobj') /\ Idling(0)' /\ Idling(1)'
    BY <1>1, <2>1 DEF Idling
  <2> QED BY <1>1, <2>2 DEF TeardownInv
<1> QED BY <1>2, <1>3, <1>4, <1>5 DEF AssignInv

(* What the teardown of a VDEV can give: unless the RMM fails a call, one  *)
(* that had nothing pending is gone.                                       *)
LEMMA OutcomeGone ==
  ASSUME NEW d \in Vdevs, NEW o \in Outcomes(d)
  PROVE  /\ o.d \in Vdevs /\ o.ok \in BOOLEAN /\ o.fault \in BOOLEAN
         /\ d.op = "none" /\ ~o.fault => o.d = NoVdev /\ o.ok
<1> DEFINE R == [d : Vdevs, ok : BOOLEAN, fault : BOOLEAN, reset : BOOLEAN]
           Good(x) == x \in R /\ (~x.fault => x.d = NoVdev /\ x.ok)
           unlocked == [state |-> "unlocked", op |-> "none"]
           unlocking == [d EXCEPT !.op = "unlock"]
<1>1. NoVdev \in Vdevs /\ Error \in Vdevs /\ unlocked \in Vdevs
  BY SMTT(60) DEF NoVdev, Error, Vdevs, VdevStates, VdevOps
<1>2. d.state = "locked" => unlocking \in Vdevs /\ unlocking.state = "locked"
  BY SMTT(60) DEF Vdevs, VdevStates, VdevOps
<1>3. ASSUME NEW e \in Vdevs, NEW b \in BOOLEAN, NEW x \in Destroy(e, b)
      PROVE  x \in R /\ (e.op = "none" => Good(x))
  <2>1. CASE x = [d |-> NoVdev, ok |-> TRUE, fault |-> FALSE, reset |-> b]
    BY <1>1, <2>1
  <2>2. CASE x = [d |-> e, ok |-> FALSE, fault |-> (e.op = "none"), reset |-> b]
    BY <2>2
  <2> QED BY <1>3, <2>1, <2>2 DEF Destroy
<1>4. ASSUME NEW e \in Vdevs, NEW b \in BOOLEAN, NEW x \in UnlockFailed(e, b)
      PROVE  x \in R /\ (b => Good(x))
  <2>1. CASE e.state = "error"
    <3>1. PICK y \in Destroy(e, FALSE) : x = [y EXCEPT !.fault = TRUE]
      BY <1>4, <2>1 DEF UnlockFailed
    <3>2. y \in R
      BY <1>3
    <3> QED BY <3>1, <3>2
  <2>2. CASE e.state # "error"
    <3>1. x = [d |-> e, ok |-> TRUE, fault |-> b, reset |-> FALSE]
      BY <1>4, <2>2 DEF UnlockFailed
    <3> QED BY <3>1
  <2> QED BY <2>1, <2>2
<1>5. ASSUME NEW e \in Vdevs, NEW x \in NoState(e)
      PROVE  Good(x)
  <2>1. x = [d |-> e, ok |-> FALSE, fault |-> TRUE, reset |-> FALSE]
    BY <1>5 DEF NoState
  <2> QED BY <2>1
<1> HIDE DEF Good, R
<1>6. o \in R /\ (d.op = "none" => Good(o))
  <2>1. CASE o \in NoState(d)
    BY <2>1, <1>5 DEF Good
  <2>2. CASE d.state # "locked" /\ o \in Destroy(d, TRUE)
    BY <2>2, <1>3
  <2>3. CASE d.state = "locked" /\ o \in UnlockFailed(d, d.op = "none")
    <3>1. (d.op = "none") \in BOOLEAN
      OBVIOUS
    <3> QED BY <2>3, <3>1, <1>4
  <2>4. CASE d.state = "locked" /\ o \in UnlockFailed(Error, TRUE) \cup NoState(Error)
    BY <2>4, <1>1, <1>4, <1>5 DEF Good
  <2>5. CASE d.state = "locked" /\ o \in UnlockFailed(unlocking, TRUE) \cup NoState(unlocking)
    BY <2>5, <1>2, <1>4, <1>5 DEF Good
  <2>6. CASE d.state = "locked" /\ o \in Destroy(unlocked, TRUE)
    <3>1. unlocked.op = "none"
      OBVIOUS
    <3> QED BY <2>6, <3>1, <1>1, <1>3
  <2>7. \/ o \in NoState(d)
        \/ d.state # "locked" /\ o \in Destroy(d, TRUE)
        \/ /\ d.state = "locked"
           /\ \/ o \in UnlockFailed(d, d.op = "none")
              \/ o \in UnlockFailed(Error, TRUE) \cup NoState(Error)
              \/ o \in UnlockFailed(unlocking, TRUE) \cup NoState(unlocking)
              \/ o \in Destroy(unlocked, TRUE)
    BY DEF Outcomes
  <2> QED BY <2>1, <2>2, <2>3, <2>4, <2>5, <2>6, <2>7
<1> QED BY <1>6 DEF R, Good

(* val_host_vdev_teardown for either VDEV.                                 *)
LEMMA VdevTeardownKeeps ==
  ASSUME AssignInv, NEW v \in Ids, NEW here, NEW next, vdev_teardown(v, here, next),
         <<v, here, next>> \in {<<1, "vdev1", "vdev0">>, <<0, "vdev0", "pdev">>}
  PROVE  AssignInv'
<1>1. /\ AssignType /\ HandleInv /\ MappedInv /\ TeardownInv /\ pc = here
      /\ UNCHANGED <<pdev, pobj, vobj, rhi, sound>>
  BY DEF AssignInv, vdev_teardown
<1>2. \/ v = 1 /\ pc = "vdev1" /\ next = "vdev0"
      \/ v = 0 /\ pc = "vdev0" /\ next = "pdev"
  BY <1>1
<1>3. next \in {"vdev0", "pdev"} /\ pc' \in {next, "done"}
  <2>1. pc' \in {next, "done"}
    BY DEF vdev_teardown, Goes
  <2> QED BY <1>2, <2>1
<1>4. pc' \in {"vdev0", "pdev", "done"}
  BY <1>3
<1>5. /\ vdev \in [Ids -> Vdevs] /\ failed \in BOOLEAN /\ fault \in BOOLEAN
      /\ ~failed => mapped \subseteq Recorded /\ (mapped # {} => vobj[0].ptr)
      /\ sound /\ ~fault => Idling(v) /\ (v = 0 => vdev[1].state = "none") /\ (v = 1 => Idling(0))
  <2>1. /\ vdev \in [Ids -> Vdevs] /\ failed \in BOOLEAN /\ fault \in BOOLEAN
        /\ ~failed => mapped \subseteq Recorded /\ (mapped # {} => vobj[0].ptr)
    BY <1>1 DEF AssignType, MappedInv
  <2>2. 0 # 1 /\ pc \in EndSteps
    BY <1>2, SMTT(60) DEF EndSteps
  <2>3. sound /\ ~fault => /\ pc = "vdev1" => Idling(1) /\ Idling(0)
                           /\ pc = "vdev0" => vdev[1].state = "none" /\ Idling(0)
    BY <1>1, <2>2 DEF TeardownInv
  <2> QED BY <1>2, <2>1, <2>2, <2>3
<1> DEFINE Typed == vdev' \in [Ids -> Vdevs] /\ failed' \in BOOLEAN /\ fault' \in BOOLEAN
           Unmaps == ~failed' => /\ mapped' \subseteq Recorded' /\ pc' # "done"
                                 /\ mapped' # {} => v = 1 /\ vobj[0].ptr
           Others == \A u \in Ids : u # v => vdev'[u] = vdev[u]
           Goal == sound /\ ~fault' => pc' = next /\ ~fault /\ vdev'[v].state = "none"
<1>6. Typed /\ Unmaps /\ Others /\ Goal
  <2>1. ASSUME ~vobj[v].ptr, Goes(next, TRUE), UNCHANGED <<vdev, mapped, regions, fault>>
        PROVE  Typed /\ Unmaps /\ Others /\ Goal
    <3>1. failed' = failed /\ pc' = next
      BY <1>5, <2>1 DEF Goes
    <3>2. Typed /\ Others
      BY <1>5, <2>1, <3>1
    <3>3. Unmaps
      BY <1>2, <1>3, <1>5, <2>1, <3>1 DEF Recorded, Ids
    <3>4. Goal
      BY <1>5, <2>1, <3>1 DEF Idling
    <3> QED BY <3>2, <3>3, <3>4
  <2>2. ASSUME Goes(next, FALSE), fault' = TRUE, UNCHANGED vdev
        PROVE  Typed /\ Unmaps /\ Others /\ Goal
    BY <1>5, <2>2 DEF Goes
  <2>3. ASSUME vobj[v].ptr, mapped' = mapped \ Recorded, NEW o \in Outcomes(vdev[v]),
               vdev' = [vdev EXCEPT ![v] = o.d], fault' = (fault \/ o.fault),
               Goes(next, o.ok)
        PROVE  Typed /\ Unmaps /\ Others /\ Goal
    <3>1. /\ o.d \in Vdevs /\ o.ok \in BOOLEAN /\ o.fault \in BOOLEAN
          /\ vdev[v].op = "none" /\ ~o.fault => o.d = NoVdev /\ o.ok
      BY <1>5, OutcomeGone
    <3>2. Typed /\ Others /\ vdev'[v] = o.d
      BY <1>5, <2>3, <3>1 DEF Goes
    <3>3. Unmaps
      <4>1. ~failed' => ~failed /\ pc' = next
        BY <1>5, <2>3, <3>1 DEF Goes
      <4>2. ~failed' => mapped' = {}
        BY <1>5, <2>3, <4>1
      <4> QED BY <1>3, <4>1, <4>2
    <3>4. Goal
      <4>1. SUFFICES ASSUME sound, ~fault'
                     PROVE  pc' = next /\ ~fault /\ vdev'[v].state = "none"
        OBVIOUS
      <4>2. ~fault /\ ~o.fault
        BY <1>5, <2>3, <3>1, <4>1
      <4>3. vdev[v].op = "none"
        BY <1>5, <4>1, <4>2 DEF Idling, Vdevs
      <4>4. o.d = NoVdev /\ o.ok
        BY <3>1, <4>2, <4>3
      <4>5. pc' = next
        BY <2>3, <4>4 DEF Goes
      <4>6. vdev'[v].state = "none"
        BY <3>2, <4>4, SMTT(60) DEF NoVdev
      <4> QED BY <4>2, <4>5, <4>6
    <3> QED BY <3>2, <3>3, <3>4
  <2> HIDE DEF Typed, Unmaps, Others, Goal
  <2> QED BY <2>1, <2>2, <2>3 DEF vdev_teardown
<1>7. AssignType' /\ HandleInv'
  BY <1>1, <1>4, <1>6 DEF AssignType, HandleInv, rhi, EndSteps
<1>8. PendingInv' /\ KnownInv'
  BY <1>4, SMTT(60) DEF PendingInv, KnownInv, CreateSteps
<1>9. MappedInv'
  <2>1. 0 # 1
    BY SMTT(60)
  <2>2. ~failed' => /\ mapped' \subseteq Recorded' /\ pc' # "done"
                    /\ mapped' # {} => vobj'[0].ptr /\ pc' # "pdev"
    BY <1>1, <1>2, <1>3, <1>6, <2>1
  <2> QED BY <2>2 DEF MappedInv
<1>10. TeardownInv'
  <2>1. SUFFICES ASSUME sound', ~fault' PROVE TeardownInv'
    BY DEF TeardownInv
  <2>2. /\ pc' = next /\ ~fault /\ vdev'[v].state = "none" /\ sound
        /\ \A u \in Ids : u # v => vdev'[u] = vdev[u]
    BY <1>1, <1>6, <2>1
  <2>3. pdev' # "none" => pobj'
    BY <1>1, <1>2, <2>2 DEF TeardownInv, EndSteps
  <2>4. CASE v = 1
    <3>1. vdev'[1].state = "none" /\ Idling(0)' /\ pc' = "vdev0"
      <4>1. 0 \in Ids /\ 0 # 1
        BY SMTT(60) DEF Ids
      <4>2. vdev'[0] = vdev[0] /\ vobj' = vobj /\ Idling(0)
        BY <1>1, <1>5, <2>2, <2>4, <4>1
      <4> QED BY <1>2, <2>2, <2>4, <4>1, <4>2 DEF Idling
    <3> QED BY <2>3, <3>1 DEF TeardownInv
  <2>5. CASE v = 0
    <3>1. vdev'[1].state = "none" /\ vdev'[0].state = "none" /\ pc' = "pdev"
      <4>1. 1 \in Ids /\ 0 # 1
        BY SMTT(60) DEF Ids
      <4> QED BY <1>2, <1>5, <2>2, <2>5, <4>1
    <3> QED BY <2>3, <3>1 DEF TeardownInv, Ids
  <2> QED BY <1>2, <2>4, <2>5
<1> QED BY <1>7, <1>8, <1>9, <1>10 DEF AssignInv

(* val_host_pdev_teardown succeeds only when the VDEVs are gone.           *)
LEMMA PdevTeardownKeeps ==
  ASSUME AssignInv, pdev_teardown
  PROVE  AssignInv'
<1>1. /\ AssignType /\ HandleInv /\ MappedInv /\ TeardownInv /\ pc = "pdev" /\ pc' = "done"
      /\ UNCHANGED <<vdev, mapped, pobj, vobj, regions, rhi, sound>>
  BY DEF AssignInv, pdev_teardown, Goes
<1>2. AssignType' /\ HandleInv'
  BY <1>1 DEF AssignType, HandleInv, rhi, EndSteps, pdev_teardown, Goes
<1>3. PendingInv' /\ KnownInv'
  BY <1>1, SMTT(60) DEF PendingInv, KnownInv, CreateSteps
<1>4. ~failed' => ~failed /\ pdev' = "none" /\ CanStop
  BY <1>1 DEF AssignType, pdev_teardown, Goes
<1>5. MappedInv'
  BY <1>1, <1>4 DEF MappedInv, Recorded, CanStop, Gone
<1>6. TeardownInv'
  <2>1. SUFFICES ASSUME sound, ~fault' PROVE TeardownInv'
    BY <1>1 DEF TeardownInv
  <2>2. ~fault
    BY <1>1, <2>1 DEF pdev_teardown, AssignType
  <2>3. CanStop /\ (pdev # "none" => pobj)
    BY <1>1, <2>1, <2>2 DEF TeardownInv, EndSteps, CanStop
  <2>4. pdev' = "none"
    BY <2>1, <2>3 DEF pdev_teardown
  <2> QED BY <1>1, <2>3, <2>4 DEF TeardownInv, CanStop
<1> QED BY <1>2, <1>3, <1>5, <1>6 DEF AssignInv

(* Nothing changes in a step that leaves the variables alone.              *)
LEMMA AssignStutters ==
  ASSUME AssignInv, UNCHANGED vars
  PROVE  AssignInv'
<1>1. UNCHANGED <<pc, pdev, vdev, mapped, pobj, vobj, count, regions, handles, next_handle,
                  failed, fault, sound>>
  BY DEF vars
<1>2. AssignType' /\ HandleInv' /\ MappedInv'
  BY <1>1 DEF AssignInv, AssignType, HandleInv, MappedInv, Recorded, Gone
<1>3. PendingInv' /\ KnownInv'
  BY <1>1 DEF AssignInv, PendingInv, KnownInv, Cur
<1>4. TeardownInv'
  BY <1>1 DEF AssignInv, TeardownInv, Idling
<1> QED BY <1>2, <1>3, <1>4 DEF AssignInv

(* The host's and the RMM's view of the devices, over da_init, the calls   *)
(* of the Realm and the teardown functions (val_host_da.c).                *)
THEOREM AssignInvariance == Spec => []AssignInv
<1>1. AssignInv /\ [Next]_vars => AssignInv'
  <2>1. SUFFICES ASSUME AssignInv, [Next]_vars PROVE AssignInv'
    OBVIOUS
  <2>2. CASE Teardown
    <3>1. 0 \in Ids /\ 1 \in Ids
      BY DEF Ids
    <3> QED BY <2>1, <2>2, <3>1, TeardownStartsKeeps, VdevTeardownKeeps, PdevTeardownKeeps
            DEF Teardown
  <2> QED BY <2>1, <2>2, DaInitKeeps, ServeKeeps, AssignStutters DEF Next
<1> QED BY <1>1, AssignStarts, PTL DEF Spec

(* A test that is not set to FAIL leaves no PDEV, no VDEV and no mapped    *)
(* page of device memory behind.                                           *)
THEOREM LeaksNothing == Spec => []NoSilentLeak
<1>1. AssignInv => NoSilentLeak
  BY DEF AssignInv, MappedInv, NoSilentLeak
<1> QED BY <1>1, AssignInvariance, PTL

(* Wherever the test stops, the teardown destroys every device object if   *)
(* the host knew them all, nothing was pending, and the RMM fails no call. *)
THEOREM CleansIdle == Spec => []CleansWhenIdle
<1>1. AssignInv => CleansWhenIdle
  BY DEF AssignInv, TeardownInv, EndSteps, CleansWhenIdle, Gone
<1> QED BY <1>1, AssignInvariance, PTL

(* An operation begun for the Realm can be continued: the host remembers   *)
(* the handle given out last, and CONTINUE finds the VDEV.                 *)
THEOREM ContinuesPending == Spec => []PendingContinuable
<1>1. AssignInv => PendingContinuable
  BY DEF AssignInv, HandleInv, PendingInv, PendingContinuable, Ids
<1> QED BY <1>1, AssignInvariance, PTL
-----------------------------------------------------------------------------
(* PcieRegs: the updates of an operation.  What one drops for good or sets *)
(* is the operation's own.                                                 *)
Shared == Registers \ {"BF"}
Updates(n) ==
  {u \in [reg : Shared, drop : SUBSET (Own(n) \cup W1C), set : SUBSET Own(n)] :
     n = "clear_urd" => u.reg = "DCTLR" /\ {"CED", "URD"} \subseteq u.drop}

Programmed(n, todo) == todo \in Seq(Updates(n)) /\ todo # << >>

(* An operation in progress has its own updates to do, and what it read    *)
(* differs from the register by errors recorded since.                     *)
ProgInv ==
  /\ DOMAIN reg = Registers /\ reg["DCTLR"] \cap W1C \subseteq {"CED", "URD"}
  /\ prog = [name |-> prog.name, todo |-> prog.todo]
  /\ prog = Idle \/ Programmed(prog.name, prog.todo)
  /\ prog.todo = << >> => rd = Unread
  /\ rd # Unread =>
       LET r == Head(prog.todo).reg
       IN rd \ W1C = reg[r] \ W1C /\ (r = "DCTLR" => rd \cap W1C \subseteq {"CED", "URD"})

(* What makes a register access an update of operation n.                  *)
LEMMA OneUpdate ==
  ASSUME NEW n, NEW r \in Shared, NEW d \in SUBSET (Own(n) \cup W1C), NEW s \in SUBSET Own(n),
         n = "clear_urd" => r = "DCTLR" /\ {"CED", "URD"} \subseteq d
  PROVE  Update(r, d, s) \in Updates(n)
BY DEF Updates, Update

(* A program of one update.                                                *)
LEMMA OneStep ==
  ASSUME NEW n, NEW u \in Updates(n)
  PROVE  Programmed(n, <<u>>)
BY SMTT(60) DEF Programmed

(* And of two.                                                             *)
LEMMA TwoSteps ==
  ASSUME NEW n, NEW u \in Updates(n), NEW w \in Updates(n)
  PROVE  Programmed(n, <<u, w>>)
BY SMTT(60) DEF Programmed

(* The registers that operations share.                                    *)
LEMMA SharedRegisters ==
  \A r \in {"CR", "SEC_STA", "DCTLR", "DMACTL1", "MSICTL", "INTXCTL", "RID"} : r \in Shared
BY DEF Shared, Registers

(* An update that drops and sets the bits of the operation only.           *)
LEMMA OwnUpdate ==
  ASSUME NEW n, n # "clear_urd", NEW B, Own(n) = B, NEW r \in Shared,
         NEW d \in SUBSET B, NEW s \in SUBSET B
  PROVE  Update(r, d, s) \in Updates(n)
BY OneUpdate

(* Each control of the configuration space is a program of own updates.    *)
LEMMA ControlsOwn ==
  ASSUME NEW n \in DOMAIN Control
  PROVE  Programmed(n, Control[n])
<1>1. CASE n = "enable_bme"
  <2>1. Own(n) = {"BME"} /\ Control[n] = Control.enable_bme
    BY <1>1 DEF Own, Control
  <2> QED BY <1>1, <2>1, OwnUpdate, OneStep, SharedRegisters DEF Control, val_pcie_enable_bme
<1>2. CASE n = "disable_bme"
  <2>1. Own(n) = {"BME"} /\ Control[n] = Control.disable_bme
    BY <1>2 DEF Own, Control
  <2> QED BY <1>2, <2>1, OwnUpdate, OneStep, SharedRegisters DEF Control, val_pcie_disable_bme
<1>3. CASE n = "enable_msa"
  <2>1. Own(n) = {"MSE"} /\ Control[n] = Control.enable_msa
    BY <1>3 DEF Own, Control
  <2> QED BY <1>3, <2>1, OwnUpdate, OneStep, SharedRegisters DEF Control, val_pcie_enable_msa
<1>4. CASE n = "disable_msa"
  <2>1. Own(n) = {"MSE"} /\ Control[n] = Control.disable_msa
    BY <1>4 DEF Own, Control
  <2> QED BY <1>4, <2>1, OwnUpdate, OneStep, SharedRegisters DEF Control, val_pcie_disable_msa
<1>5. CASE n = "clear_urd"
  <2>1. Own(n) = {"URD"} /\ Control[n] = Control.clear_urd
    BY <1>5 DEF Own, Control
  <2> QED BY <1>5, <2>1, OneUpdate, OneStep, SharedRegisters DEF Control, val_pcie_clear_urd, W1C
<1>6. CASE n = "clear_error"
  <2>1. Own(n) = {"CED", "URD"} /\ Control[n] = Control.clear_error
    BY <1>6 DEF Own, Control
  <2> QED BY <1>6, <2>1, OwnUpdate, OneStep, SharedRegisters DEF Control, val_pcie_clear_device_status_error
<1>7. CASE n = "clear_abort"
  <2>1. Own(n) = {"STA", "SSTA"} /\ Control[n] = Control.clear_abort
    BY <1>7 DEF Own, Control
  <2> QED BY <1>7, <2>1, OwnUpdate, TwoSteps, SharedRegisters DEF Control, val_pcie_clear_sig_target_abort
<1>8. CASE n = "enable_eru"
  <2>1. Own(n) = {"SERRE", "ERE"} /\ Control[n] = Control.enable_eru
    BY <1>8 DEF Own, Control
  <2> QED BY <1>8, <2>1, OwnUpdate, TwoSteps, SharedRegisters DEF Control, val_pcie_enable_eru
<1>9. CASE n = "disable_eru"
  <2>1. Own(n) = {"SERRE", "ERE"} /\ Control[n] = Control.disable_eru
    BY <1>9 DEF Own, Control
  <2> QED BY <1>9, <2>1, OwnUpdate, TwoSteps, SharedRegisters DEF Control, val_pcie_disable_eru
<1>10. CASE n = "mem_enable"
  <2>1. Own(n) = {"IOE", "MSE", "BME", "bit4"} /\ Control[n] = Control.mem_enable
    BY <1>10 DEF Own, Control
  <2> QED BY <1>10, <2>1, OwnUpdate, OneStep, SharedRegisters DEF Control, val_pcie_mem_enable
<1>11. CASE n = "exerciser_init"
  <2>1. Own(n) = {"MSE", "BME"} /\ Control[n] = Control.exerciser_init
    BY <1>11 DEF Own, Control
  <2> QED BY <1>11, <2>1, OwnUpdate, OneStep, SharedRegisters DEF Control, val_exerciser_init
<1> QED BY <1>1, <1>2, <1>3, <1>4, <1>5, <1>6, <1>7, <1>8, <1>9, <1>10, <1>11 DEF Control

(* And so is each operation of an exerciser.                               *)
LEMMA ExerciserOwn ==
  ASSUME NEW n \in DOMAIN pal_exerciser_ops
  PROVE  Programmed(n, pal_exerciser_ops[n])
<1>1. CASE n = "start_dma_from"
  <2>1. Own(n) = {"from", "trigger"} /\ pal_exerciser_ops[n] = pal_exerciser_ops.start_dma_from
    BY <1>1 DEF Own, pal_exerciser_ops
  <2> QED BY <1>1, <2>1, OwnUpdate, TwoSteps, SharedRegisters DEF pal_exerciser_ops, start_dma
<1>2. CASE n = "start_dma_to"
  <2>1. Own(n) = {"from", "trigger"} /\ pal_exerciser_ops[n] = pal_exerciser_ops.start_dma_to
    BY <1>2 DEF Own, pal_exerciser_ops
  <2> QED BY <1>2, <2>1, OwnUpdate, TwoSteps, SharedRegisters DEF pal_exerciser_ops, start_dma
<1>3. CASE n = "generate_msi_0"
  <2>1. Own(n) = {"msi", "index"} /\ pal_exerciser_ops[n] = pal_exerciser_ops.generate_msi_0
    BY <1>3 DEF Own, pal_exerciser_ops
  <2> QED BY <1>3, <2>1, OwnUpdate, OneStep, SharedRegisters DEF pal_exerciser_ops
<1>4. CASE n = "generate_msi_1"
  <2>1. Own(n) = {"msi", "index"} /\ pal_exerciser_ops[n] = pal_exerciser_ops.generate_msi_1
    BY <1>4 DEF Own, pal_exerciser_ops
  <2> QED BY <1>4, <2>1, OwnUpdate, OneStep, SharedRegisters DEF pal_exerciser_ops
<1>5. CASE n = "generate_intx"
  <2>1. Own(n) = {"intx"} /\ pal_exerciser_ops[n] = pal_exerciser_ops.generate_intx
    BY <1>5 DEF Own, pal_exerciser_ops
  <2> QED BY <1>5, <2>1, OwnUpdate, OneStep, SharedRegisters DEF pal_exerciser_ops
<1>6. CASE n = "clear_intr"
  <2>1. Own(n) = {"intx"} /\ pal_exerciser_ops[n] = pal_exerciser_ops.clear_intr
    BY <1>6 DEF Own, pal_exerciser_ops
  <2> QED BY <1>6, <2>1, OwnUpdate, OneStep, SharedRegisters DEF pal_exerciser_ops
<1>7. CASE n = "pasid_start"
  <2>1. Own(n) = {"pasid"} /\ pal_exerciser_ops[n] = pal_exerciser_ops.pasid_start
    BY <1>7 DEF Own, pal_exerciser_ops
  <2> QED BY <1>7, <2>1, OwnUpdate, OneStep, SharedRegisters DEF pal_exerciser_ops
<1>8. CASE n = "pasid_stop"
  <2>1. Own(n) = {"pasid"} /\ pal_exerciser_ops[n] = pal_exerciser_ops.pasid_stop
    BY <1>8 DEF Own, pal_exerciser_ops
  <2> QED BY <1>8, <2>1, OwnUpdate, OneStep, SharedRegisters DEF pal_exerciser_ops
<1>9. CASE n = "no_snoop_enable"
  <2>1. Own(n) = {"no_snoop"} /\ pal_exerciser_ops[n] = pal_exerciser_ops.no_snoop_enable
    BY <1>9 DEF Own, pal_exerciser_ops
  <2> QED BY <1>9, <2>1, OwnUpdate, OneStep, SharedRegisters DEF pal_exerciser_ops
<1>10. CASE n = "no_snoop_disable"
  <2>1. Own(n) = {"no_snoop"} /\ pal_exerciser_ops[n] = pal_exerciser_ops.no_snoop_disable
    BY <1>10 DEF Own, pal_exerciser_ops
  <2> QED BY <1>10, <2>1, OwnUpdate, OneStep, SharedRegisters DEF pal_exerciser_ops
<1>11. CASE n = "at_untranslated"
  <2>1. Own(n) = {"at0", "at1"} /\ pal_exerciser_ops[n] = pal_exerciser_ops.at_untranslated
    BY <1>11 DEF Own, pal_exerciser_ops
  <2> QED BY <1>11, <2>1, OwnUpdate, OneStep, SharedRegisters DEF pal_exerciser_ops, set_address_type
<1>12. CASE n = "at_translated"
  <2>1. Own(n) = {"at0", "at1"} /\ pal_exerciser_ops[n] = pal_exerciser_ops.at_translated
    BY <1>12 DEF Own, pal_exerciser_ops
  <2> QED BY <1>12, <2>1, OwnUpdate, OneStep, SharedRegisters DEF pal_exerciser_ops, set_address_type
<1>13. CASE n = "pasid_16"
  <2>1. Own(n) = {"len"} /\ pal_exerciser_ops[n] = pal_exerciser_ops.pasid_16
    BY <1>13 DEF Own, pal_exerciser_ops
  <2> QED BY <1>13, <2>1, OwnUpdate, OneStep, SharedRegisters DEF pal_exerciser_ops, set_pasid_length
<1>14. CASE n = "pasid_17"
  <2>1. Own(n) = {"len"} /\ pal_exerciser_ops[n] = pal_exerciser_ops.pasid_17
    BY <1>14 DEF Own, pal_exerciser_ops
  <2> QED BY <1>14, <2>1, OwnUpdate, OneStep, SharedRegisters DEF pal_exerciser_ops, set_pasid_length
<1>15. CASE n = "req_id"
  <2>1. Own(n) = {"rid", "valid"} /\ pal_exerciser_ops[n] = pal_exerciser_ops.req_id
    BY <1>15 DEF Own, pal_exerciser_ops
  <2> QED BY <1>15, <2>1, OwnUpdate, OneStep, SharedRegisters DEF pal_exerciser_ops
<1>16. CASE n = "req_id_valid"
  <2>1. Own(n) = {"rid", "valid"} /\ pal_exerciser_ops[n] = pal_exerciser_ops.req_id_valid
    BY <1>16 DEF Own, pal_exerciser_ops
  <2> QED BY <1>16, <2>1, OwnUpdate, OneStep, SharedRegisters DEF pal_exerciser_ops
<1>17. CASE n = "req_id_invalid"
  <2>1. Own(n) = {"rid", "valid"} /\ pal_exerciser_ops[n] = pal_exerciser_ops.req_id_invalid
    BY <1>17 DEF Own, pal_exerciser_ops
  <2> QED BY <1>17, <2>1, OwnUpdate, OneStep, SharedRegisters DEF pal_exerciser_ops
<1> QED BY <1>1, <1>2, <1>3, <1>4, <1>5, <1>6, <1>7, <1>8, <1>9, <1>10, <1>11, <1>12, <1>13, <1>14, <1>15, <1>16, <1>17 DEF pal_exerciser_ops

(* At first no operation is in progress and no error is recorded.          *)
LEMMA ProgStarts == RegInit => ProgInv
<1> SUFFICES ASSUME RegInit PROVE ProgInv
  OBVIOUS
<1>1. "DCTLR" \in Registers
  BY DEF Registers
<1> QED BY <1>1 DEF RegInit, ProgInv, Idle

(* The first of the updates left to do.                                    *)
LEMMA FirstUpdate ==
  ASSUME ProgInv, prog.todo # << >>
  PROVE  /\ prog # Idle /\ prog.todo \in Seq(Updates(prog.name))
         /\ Head(prog.todo) \in Updates(prog.name)
         /\ Head(prog.todo).reg \in Shared
         /\ Head(prog.todo).drop \subseteq Own(prog.name) \cup W1C
         /\ Head(prog.todo).set \subseteq Own(prog.name)
<1>1. prog # Idle /\ prog.todo \in Seq(Updates(prog.name))
  <2>1. Idle.todo = << >>
    BY DEF Idle
  <2> QED BY <2>1 DEF ProgInv, Programmed
<1>2. Head(prog.todo) \in Updates(prog.name)
  BY <1>1, SMTT(60)
<1> QED BY <1>1, <1>2 DEF Updates

(* Steps that leave the operation and the registers it shares alone.       *)
LEMMA OthersKeepProg ==
  ASSUME ProgInv, UNCHANGED <<prog, rd>>, DOMAIN reg' = Registers,
         \A r \in Shared : reg'[r] = reg[r]
  PROVE  ProgInv'
<1>1. "DCTLR" \in Shared
  BY SharedRegisters
<1>2. rd # Unread => Head(prog.todo).reg \in Shared
  BY FirstUpdate DEF ProgInv
<1> QED BY <1>1, <1>2 DEF ProgInv

(* A write to the register under check leaves the others alone.            *)
LEMMA CheckKeepsProg ==
  ASSUME ProgInv, NEW v, reg' = [reg EXCEPT !["BF"] = v], UNCHANGED <<prog, rd>>
  PROVE  ProgInv' /\ \A r \in Shared : reg'[r] = reg[r]
<1>1. DOMAIN reg' = Registers /\ \A r \in Shared : reg'[r] = reg[r]
  BY DEF ProgInv, Shared
<1> QED BY <1>1, OthersKeepProg

(* An operation starts with its own program and nothing read.              *)
LEMMA StartKeepsProg ==
  ASSUME ProgInv, StartOp
  PROVE  ProgInv'
<1>1. prog.todo = << >> /\ rd = Unread /\ rd' = rd /\ reg' = reg
  BY DEF StartOp, ProgInv, Idle
<1>2. PICK n : \E t : prog' = [name |-> n, todo |-> t] /\ Programmed(n, t)
  BY ControlsOwn, ExerciserOwn DEF StartOp
<1>3. Programmed(prog'.name, prog'.todo) /\ prog' = [name |-> prog'.name, todo |-> prog'.todo]
  <2>1. PICK t : prog' = [name |-> n, todo |-> t] /\ Programmed(n, t)
    BY <1>2
  <2>2. prog'.name = n /\ prog'.todo = t
    BY <2>1
  <2> QED BY <2>1, <2>2
<1> QED BY <1>1, <1>3 DEF ProgInv

(* The value read is kept until the write back.                            *)
LEMMA ReadKeepsProg ==
  ASSUME ProgInv, ReadReg
  PROVE  ProgInv'
BY DEF ProgInv, ReadReg

(* An error sets a bit that is cleared by writing one, and no other.       *)
LEMMA ErrorKeepsProg ==
  ASSUME ProgInv, DeviceError
  PROVE  ProgInv'
<1>1. CASE chk # NoCheck
  BY <1>1, CheckKeepsProg DEF DeviceError
<1>2. CASE chk = NoCheck
  <2>1. PICK e \in {<<"CR", "STA">>, <<"SEC_STA", "SSTA">>, <<"DCTLR", "CED">>, <<"DCTLR", "URD">>} :
          reg' = [reg EXCEPT ![e[1]] = @ \cup {e[2]}]
    BY <1>2 DEF DeviceError
  <2>2. e[1] \in Registers /\ e[2] \in W1C /\ (e[1] = "DCTLR" => e[2] \in {"CED", "URD"})
    BY SMTT(60) DEF Registers, W1C
  <2>3. DOMAIN reg' = Registers /\ "DCTLR" \in Registers
    BY <2>1 DEF ProgInv, Registers
  <2>4. \A r \in Registers : reg'[r] = IF r = e[1] THEN reg[r] \cup {e[2]} ELSE reg[r]
    BY <2>1, <2>2 DEF ProgInv
  <2>5. \A r \in Registers : reg'[r] \ W1C = reg[r] \ W1C
    BY <2>2, <2>4
  <2>6. reg'["DCTLR"] \cap W1C \subseteq {"CED", "URD"}
    <3>1. reg["DCTLR"] \cap W1C \subseteq {"CED", "URD"}
      BY DEF ProgInv
    <3>2. CASE e[1] = "DCTLR"
      <4>1. reg'["DCTLR"] = reg["DCTLR"] \cup {e[2]} /\ e[2] \in {"CED", "URD"}
        BY <2>2, <2>3, <2>4, <3>2
      <4> QED BY <3>1, <4>1
    <3>3. CASE e[1] # "DCTLR"
      <4>1. reg'["DCTLR"] = reg["DCTLR"]
        BY <2>3, <2>4, <3>3
      <4> QED BY <3>1, <4>1
    <3> QED BY <3>2, <3>3
  <2>7. UNCHANGED <<prog, rd>>
    BY DEF DeviceError
  <2>8. rd # Unread => Head(prog.todo).reg \in Registers
    BY FirstUpdate DEF ProgInv, Shared
  <2> QED BY <2>3, <2>5, <2>6, <2>7, <2>8 DEF ProgInv
<1> QED BY <1>1, <1>2

(* What a write back changes.                                              *)
LEMMA WriteChanges ==
  ASSUME ProgInv, WriteReg, NEW r \in Shared
  PROVE  LET changed == (reg[r] \ reg'[r]) \cup (reg'[r] \ reg[r])
         IN changed \subseteq Own(prog.name) \cup
              (IF prog.name = "clear_urd" THEN {} ELSE rd \cap W1C)
<1> DEFINE u == Head(prog.todo)
           v == (rd \ u.drop) \cup u.set
<1>1. /\ u \in Updates(prog.name) /\ u.reg \in Shared
      /\ u.drop \subseteq Own(prog.name) \cup W1C /\ u.set \subseteq Own(prog.name)
  BY FirstUpdate DEF WriteReg
<1>2. reg' = [reg EXCEPT ![u.reg] = Written(u.reg, reg[u.reg], v)]
  BY DEF WriteReg
<1>3. CASE r # u.reg
  <2>1. reg'[r] = reg[r]
    BY <1>2, <1>3 DEF ProgInv, Shared
  <2> QED BY <2>1
<1>4. CASE r = u.reg
  <2>1. reg'[r] = (v \ W1C) \cup ((reg[r] \cap W1C) \ v)
    BY <1>1, <1>2, <1>4 DEF ProgInv, Shared, Written, Fixed
  <2>2. rd \ W1C = reg[r] \ W1C
    BY <1>4 DEF WriteReg, ProgInv
  <2>3. \A x \in (reg[r] \ reg'[r]) \cup (reg'[r] \ reg[r]) :
          x \in Own(prog.name) \/ (x \in rd \cap W1C /\ x \notin u.drop)
    BY <1>1, <2>1, <2>2
  <2>4. prog.name = "clear_urd" => (rd \cap W1C) \ u.drop = {}
    BY <1>1, <1>4 DEF WriteReg, ProgInv, Updates
  <2> QED BY <2>3, <2>4
<1> QED BY <1>3, <1>4

(* What is left of a program of two updates.                               *)
LEMMA TailLeft ==
  ASSUME NEW S, NEW t \in Seq(S), t # << >>, Len(t) # 1
  PROVE  Tail(t) \in Seq(S) /\ Tail(t) # << >>
<1>1. Tail(t) \in Seq(S) /\ Len(Tail(t)) = Len(t) - 1 /\ Len(t) \in Nat
  BY SMTT(60)
<1>2. Len(Tail(t)) # 0
  BY <1>1, SMTT(60)
<1>3. Len(<< >>) = 0
  BY SMTT(60)
<1> QED BY <1>1, <1>2, <1>3

(* A write back ends the update, and sets no error bit.                    *)
LEMMA WriteKeepsProg ==
  ASSUME ProgInv, WriteReg
  PROVE  ProgInv'
<1> DEFINE u == Head(prog.todo)
           v == (rd \ u.drop) \cup u.set
<1>1. /\ prog # Idle /\ prog.todo # << >> /\ prog.todo \in Seq(Updates(prog.name))
      /\ u.reg \in Shared
  BY FirstUpdate DEF WriteReg
<1>2. reg' = [reg EXCEPT ![u.reg] = Written(u.reg, reg[u.reg], v)]
  BY DEF WriteReg
<1>3. DOMAIN reg' = Registers /\ "DCTLR" \in Registers
  BY <1>2 DEF ProgInv, Registers
<1>4. reg'["DCTLR"] \cap W1C \subseteq reg["DCTLR"] \cap W1C
  <2>1. Written(u.reg, reg[u.reg], v) \cap W1C \subseteq reg[u.reg] \cap W1C
    BY <1>1 DEF Written, Fixed, Shared
  <2> QED BY <1>2, <1>3, <2>1 DEF ProgInv
<1>5. rd' = Unread
  BY DEF WriteReg
<1>6. prog' = Idle \/ Programmed(prog'.name, prog'.todo)
  <2>1. CASE Len(prog.todo) # 1
    <3>1. prog' = [prog EXCEPT !.todo = Tail(prog.todo)]
      BY <2>1 DEF WriteReg
    <3>2. Tail(prog.todo) \in Seq(Updates(prog.name)) /\ Tail(prog.todo) # << >>
      BY <1>1, <2>1, TailLeft
    <3>3. prog'.name = prog.name /\ prog'.todo = Tail(prog.todo)
      BY <3>1 DEF ProgInv
    <3> QED BY <3>2, <3>3 DEF Programmed
  <2> QED BY <2>1 DEF WriteReg
<1>7. prog' = [name |-> prog'.name, todo |-> prog'.todo]
  BY DEF WriteReg, ProgInv, Idle
<1> QED BY <1>3, <1>4, <1>5, <1>6, <1>7 DEF ProgInv
-----------------------------------------------------------------------------
(* PcieRegs: the bit-field check, one place after the other.               *)
Places == {"read0", "write0", "read1", "write1", "read2", "restore", "done"}
Bits == Field \cup {"n", "s"}
Checks == [pc : Places, e : Entries, rw : SUBSET Field, v : SUBSET Bits, ov : SUBSET Bits,
           before : SUBSET Bits, disturbed : BOOLEAN, verdict : {0, 1}]

(* What the register holds once its errors are cleared, and when the       *)
(* writable bits of the field are inverted.                                *)
Kept0 == chk.before \ W1C
Inverted == (Kept0 \ chk.rw) \cup (chk.rw \ Kept0)

(* What is known before each access unless an error was recorded.          *)
Reached ==
  /\ chk.pc # "done" => chk.e.cap
  /\ chk.pc \in {"read0", "write0"} => BF = chk.before
  /\ chk.pc = "write0" => chk.v = chk.before
  /\ chk.pc \in {"read1", "write1"} => BF = Kept0
  /\ chk.pc \in {"write1", "read2", "restore"} =>
       chk.v = Kept0 /\ Kept0 \cap Field = chk.e.value
  /\ chk.pc = "read2" =>
       /\ chk.e.attr \in {"RO", "RW"} => chk.ov = Toggled(Kept0) /\ BF = Inverted
       /\ chk.e.attr = "RSVDP" => BF = Kept0
       /\ chk.e.attr = "RSVDZ" => BF = Kept0 \ chk.rw
  /\ chk.pc = "restore" =>
       /\ chk.e.attr = "RW" /\ BF = Inverted
       /\ chk.e.warn = {} => (chk.verdict = 0 <=> chk.rw = Field)
  /\ BitfieldVerdict

CheckInv ==
  chk # NoCheck =>
    /\ chk \in Checks /\ BF \subseteq Bits
    /\ chk.pc \in {"write1", "read2", "restore"} => chk.e.attr # "invalid"
    /\ ~chk.disturbed => Reached

(* What a write leaves of a register that held k: the same, a part of the  *)
(* field inverted, a part of it cleared.                                   *)
LEMMA WriteLaws ==
  ASSUME NEW k, chk.rw \subseteq Field
  PROVE  /\ Written("BF", k, k) = k \ W1C
         /\ k \cap W1C = {} =>
              /\ Written("BF", k, Toggled(k)) = (k \ chk.rw) \cup (chk.rw \ k)
              /\ Written("BF", k, k \ Field) = k \ chk.rw
              /\ Written("BF", (k \ chk.rw) \cup (chk.rw \ k), k) = k
<1>1. \A x, y : Written("BF", x, y) = ((y \ W1C) \ (Field \ chk.rw))
                     \cup (x \cap (Field \ chk.rw)) \cup ((x \cap W1C) \ y)
  BY DEF Written, Fixed
<1>2. \A x : ~(x \in Field /\ x \in W1C)
  BY FieldAssumption
<1>3. Written("BF", k, k) = k \ W1C
  BY <1>1, <1>2, SMTT(60)
<1>4. ASSUME k \cap W1C = {}
      PROVE  Written("BF", k, Toggled(k)) = (k \ chk.rw) \cup (chk.rw \ k)
  BY <1>1, <1>2, <1>4, SMTT(60) DEF Toggled
<1>5. ASSUME k \cap W1C = {}
      PROVE  Written("BF", k, k \ Field) = k \ chk.rw
  BY <1>1, <1>2, <1>5, SMTT(60)
<1>6. ASSUME k \cap W1C = {}
      PROVE  Written("BF", (k \ chk.rw) \cup (chk.rw \ k), k) = k
  BY <1>1, <1>2, <1>6, SMTT(60)
<1> QED BY <1>3, <1>4, <1>5, <1>6

(* A write sets no bit that the register has not.                          *)
LEMMA WrittenBits ==
  ASSUME NEW x \in SUBSET Bits, NEW y \in SUBSET Bits
  PROVE  Written("BF", x, y) \in SUBSET Bits
BY DEF Written

(* Which fields conform, in terms of what the register holds.              *)
LEMMA ConformsKept ==
  ASSUME chk \in Checks, chk.e.cap, Kept0 \cap Field = chk.e.value
  PROVE  /\ chk.e.attr = "RO" => (Conforms(chk.e) <=> Inverted = Kept0)
         /\ chk.e.attr = "RW" => (Conforms(chk.e) <=> chk.rw = Field)
         /\ chk.e.attr = "RSVDP" => (Conforms(chk.e) <=> Kept0 \cap Field = {})
         /\ chk.e.attr = "RSVDZ" => (Conforms(chk.e) <=> Kept0 \ chk.rw = Kept0)
         /\ Toggled(Kept0) = Inverted <=> chk.rw = Field
<1>1. chk.before \cap Field = chk.e.value /\ chk.rw \subseteq Field
  BY FieldAssumption DEF Kept0, Checks
<1>2. chk.e.attr = "RO" => (Conforms(chk.e) <=> chk.rw = {})
  BY <1>1 DEF Conforms
<1>3. chk.e.attr = "RW" => (Conforms(chk.e) <=> chk.rw = Field)
  BY <1>1 DEF Conforms
<1>4. chk.e.attr = "RSVDP" => (Conforms(chk.e) <=> chk.e.value = {})
  BY <1>1 DEF Conforms
<1>5. chk.e.attr = "RSVDZ" => (Conforms(chk.e) <=> chk.e.value \cap chk.rw = {})
  BY <1>1 DEF Conforms
<1>6. Inverted = Kept0 <=> chk.rw = {}
  BY DEF Inverted
<1>7. Kept0 \ chk.rw = Kept0 <=> chk.e.value \cap chk.rw = {}
  BY <1>1
<1>8. Toggled(Kept0) = Inverted <=> chk.rw = Field
  BY <1>1 DEF Toggled, Inverted
<1> QED BY <1>2, <1>3, <1>4, <1>5, <1>6, <1>7, <1>8

(* What holds before a step of a check, and what it sets.                  *)
LEMMA AtCheck ==
  ASSUME ProgInv, CheckInv, NEW place \in Places, NEW r, NEW c, CheckStep(place, r, c)
  PROVE  /\ chk \in Checks /\ chk.pc = place /\ chk' = c /\ BF' = r /\ BF \in SUBSET Bits
         /\ place \in {"write1", "read2", "restore"} => chk.e.attr # "invalid"
         /\ ~chk.disturbed => Reached
<1>1. NoCheck.pc \notin Places
  BY DEF NoCheck, Places
<1>2. chk # NoCheck /\ chk.pc = place /\ chk' = c
  BY <1>1 DEF CheckStep
<1>3. "BF" \in DOMAIN reg
  BY DEF ProgInv, Registers
<1>4. BF' = r
  BY <1>3 DEF CheckStep, BF
<1> QED BY <1>2, <1>4 DEF CheckInv

(* A check whose place and values change still has the same register,      *)
(* entry and history.                                                      *)
LEMMA CheckMoves ==
  ASSUME chk \in Checks, NEW p \in Places
  PROVE  LET c == [chk EXCEPT !.pc = p]
         IN /\ c \in Checks /\ c.pc = p /\ c.v = chk.v /\ c.e = chk.e /\ c.rw = chk.rw
            /\ c.before = chk.before /\ c.disturbed = chk.disturbed
<1>1. [chk EXCEPT !.pc = p] \in Checks
  BY DEF Checks
<1> QED BY <1>1 DEF Checks

(* It keeps what it read.                                                  *)
LEMMA CheckKeeps ==
  ASSUME chk \in Checks, NEW p \in Places, NEW x \in SUBSET Bits
  PROVE  LET c == [chk EXCEPT !.pc = p, !.v = x]
         IN /\ c \in Checks /\ c.pc = p /\ c.v = x /\ c.e = chk.e /\ c.rw = chk.rw
            /\ c.before = chk.before /\ c.disturbed = chk.disturbed
<1>1. [chk EXCEPT !.pc = p, !.v = x] \in Checks
  BY DEF Checks
<1> QED BY <1>1 DEF Checks

(* It keeps the value it tries.                                            *)
LEMMA CheckTries ==
  ASSUME chk \in Checks, NEW p \in Places, NEW x \in SUBSET Bits
  PROVE  LET c == [chk EXCEPT !.pc = p, !.ov = x]
         IN /\ c \in Checks /\ c.pc = p /\ c.v = chk.v /\ c.ov = x /\ c.e = chk.e /\ c.rw = chk.rw
            /\ c.before = chk.before /\ c.disturbed = chk.disturbed
<1>1. [chk EXCEPT !.pc = p, !.ov = x] \in Checks
  BY DEF Checks
<1> QED BY <1>1 DEF Checks

(* It decides.                                                             *)
LEMMA CheckJudges ==
  ASSUME chk \in Checks, NEW p \in Places, NEW w \in {0, 1}
  PROVE  LET c == [chk EXCEPT !.pc = p, !.verdict = w]
         IN /\ c \in Checks /\ c.pc = p /\ c.v = chk.v /\ c.verdict = w /\ c.e = chk.e /\ c.rw = chk.rw
            /\ c.before = chk.before /\ c.disturbed = chk.disturbed
<1>1. [chk EXCEPT !.pc = p, !.verdict = w] \in Checks
  BY DEF Checks
<1> QED BY <1>1 DEF Checks

(* A check starts with what the register holds, or is over without one.    *)
LEMMA StartChecks ==
  ASSUME ProgInv, StartCheck
  PROVE  CheckInv'
<1>1. PICK e \in Entries, x \in SUBSET (Field \cup {"n", "s"}), rw \in SUBSET Field :
        /\ reg' = [reg EXCEPT !["BF"] = x]
        /\ chk' = [pc |-> IF e.cap THEN "read0" ELSE "done", e |-> e, rw |-> rw,
                   v |-> {}, ov |-> {}, before |-> x, disturbed |-> FALSE, verdict |-> 1]
  BY DEF StartCheck
<1>2. BF' = x /\ x \in SUBSET Bits
  BY <1>1 DEF BF, Bits, ProgInv, Registers
<1>3. chk' \in Checks
  BY <1>1 DEF Checks, Places, Bits
<1>4. /\ chk'.pc = (IF e.cap THEN "read0" ELSE "done") /\ chk'.e = e /\ chk'.before = x
      /\ chk'.verdict = 1
  BY <1>1
<1>5. CASE e.cap
  BY <1>2, <1>3, <1>4, <1>5 DEF CheckInv, Reached, BitfieldVerdict
<1>6. CASE ~e.cap
  <2>1. chk'.pc = "done" /\ ~Conforms(chk.e)'
    BY <1>4, <1>6 DEF Conforms
  <2>2. chk'.verdict # 0
    BY <1>4, SMTT(60)
  <2> QED BY <1>2, <1>3, <2>1, <2>2 DEF CheckInv, Reached, BitfieldVerdict
<1> QED BY <1>5, <1>6

(* The first read.                                                         *)
LEMMA Read0Checks ==
  ASSUME ProgInv, CheckInv, CheckRead0
  PROVE  CheckInv'
<1>1. {"read0", "write0"} \subseteq Places
  BY DEF Places
<1>2. /\ chk \in Checks /\ chk.pc = "read0" /\ BF' = BF /\ BF \in SUBSET Bits
      /\ chk' = [chk EXCEPT !.pc = "write0", !.v = BF]
      /\ ~chk.disturbed => Reached
  BY <1>1, AtCheck DEF CheckRead0
<1>3. /\ chk' \in Checks /\ chk'.pc = "write0" /\ chk'.v = BF /\ chk'.e = chk.e
      /\ chk'.before = chk.before /\ chk'.disturbed = chk.disturbed
  BY <1>1, <1>2, CheckKeeps
<1>4. ASSUME Reached PROVE Reached'
  BY <1>2, <1>3, <1>4 DEF Reached, BitfieldVerdict
<1> QED BY <1>2, <1>3, <1>4 DEF CheckInv

(* Writing back what was read clears the errors and nothing else.          *)
LEMMA WriteBackChecks ==
  ASSUME ProgInv, CheckInv, CheckWriteBack
  PROVE  CheckInv'
<1>1. {"write0", "read1"} \subseteq Places
  BY DEF Places
<1>2. /\ chk \in Checks /\ chk.pc = "write0" /\ BF' = WriteBF(chk.v) /\ BF \in SUBSET Bits
      /\ chk' = [chk EXCEPT !.pc = "read1"]
      /\ ~chk.disturbed => Reached
  BY <1>1, AtCheck DEF CheckWriteBack
<1>3. /\ chk' \in Checks /\ chk'.pc = "read1" /\ chk'.e = chk.e
      /\ chk'.before = chk.before /\ chk'.disturbed = chk.disturbed
  BY <1>1, <1>2, CheckMoves
<1>4. BF' \in SUBSET Bits
  BY <1>2, WrittenBits DEF WriteBF, Checks
<1>5. ASSUME Reached PROVE Reached'
  <2>1. BF = chk.before /\ chk.v = chk.before /\ chk.e.cap
    BY <1>2, <1>5 DEF Reached
  <2>2. BF' = Kept0'
    BY <1>2, <1>3, <2>1, WriteLaws DEF WriteBF, Kept0, Checks
  <2> QED BY <1>3, <2>1, <2>2 DEF Reached, BitfieldVerdict
<1> QED BY <1>2, <1>3, <1>4, <1>5 DEF CheckInv

(* The value is compared with the entry.                                   *)
LEMMA ValueChecks ==
  ASSUME ProgInv, CheckInv, CheckValue
  PROVE  CheckInv'
<1>1. {"read1", "write1", "done"} \subseteq Places
  BY DEF Places
<1>2. /\ chk \in Checks /\ chk.pc = "read1" /\ BF' = BF /\ BF \in SUBSET Bits
      /\ chk' = IF BF \cap Field # chk.e.value THEN Done(Mismatch(1))
                ELSE IF chk.e.attr = "invalid" THEN Done(1)
                ELSE [chk EXCEPT !.pc = "write1", !.v = BF]
      /\ ~chk.disturbed => Reached
  BY <1>1, AtCheck DEF CheckValue
<1>3. ASSUME Reached
      PROVE  BF = Kept0 /\ chk.e.cap /\ chk.before \cap Field = BF \cap Field
  <2>1. BF = Kept0 /\ chk.e.cap
    BY <1>2, <1>3 DEF Reached
  <2> QED BY <2>1, FieldAssumption DEF Kept0
<1>4. CASE BF \cap Field = chk.e.value /\ chk.e.attr # "invalid"
  <2>a. chk' = [chk EXCEPT !.pc = "write1", !.v = BF]
    BY <1>2, <1>4
  <2>1. /\ chk' \in Checks /\ chk'.pc = "write1" /\ chk'.v = BF /\ chk'.e = chk.e
        /\ chk'.before = chk.before /\ chk'.disturbed = chk.disturbed
    <3>1. chk \in Checks /\ BF \in SUBSET Bits /\ "write1" \in Places
      BY <1>1, <1>2
    <3> QED BY <2>a, <3>1, CheckKeeps
  <2>2. ASSUME Reached PROVE Reached'
    BY <1>2, <1>3, <1>4, <2>1, <2>2 DEF Reached, BitfieldVerdict, Kept0
  <2> QED BY <1>2, <1>4, <2>1, <2>2 DEF CheckInv
<1>5. CASE BF \cap Field # chk.e.value \/ chk.e.attr = "invalid"
  <2>1. PICK w \in {0, 1} : /\ chk' = [chk EXCEPT !.pc = "done", !.verdict = w]
                            /\ chk.e.warn = {} => w = 1
    BY <1>2, <1>5 DEF Done, Mismatch
  <2>2. /\ chk' \in Checks /\ chk'.pc = "done" /\ chk'.verdict = w /\ chk'.e = chk.e
        /\ chk'.rw = chk.rw /\ chk'.before = chk.before /\ chk'.disturbed = chk.disturbed
    <3>1. chk \in Checks /\ "done" \in Places
      BY <1>1, <1>2
    <3> QED BY <2>1, <3>1, CheckJudges
  <2>3. ASSUME Reached PROVE Reached'
    <3>1. ~Conforms(chk.e)'
      BY <1>3, <1>5, <2>2, <2>3 DEF Conforms
    <3>2. 1 # 0
      BY SMTT(60)
    <3>3. BitfieldVerdict'
      BY <2>1, <2>2, <3>1, <3>2 DEF BitfieldVerdict
    <3> QED BY <2>2, <3>3 DEF Reached
  <2> QED BY <1>2, <2>2, <2>3 DEF CheckInv
<1> QED BY <1>4, <1>5

(* The field is tried as its attribute says.                               *)
LEMMA TryChecks ==
  ASSUME ProgInv, CheckInv, CheckTry
  PROVE  CheckInv'
<1> DEFINE ov == CASE chk.e.attr \in {"RO", "RW"} -> Toggled(chk.v)
                   [] chk.e.attr = "RSVDP" -> chk.v
                   [] chk.e.attr = "RSVDZ" -> chk.v \ Field
<1>1. {"write1", "read2"} \subseteq Places
  BY DEF Places
<1>2. /\ chk \in Checks /\ chk.pc = "write1" /\ BF' = WriteBF(ov) /\ BF \in SUBSET Bits
      /\ chk' = [chk EXCEPT !.pc = "read2", !.ov = ov] /\ chk.e.attr # "invalid"
      /\ ~chk.disturbed => Reached
  BY <1>1, AtCheck DEF CheckTry
<1>3. /\ chk.e.attr \in {"RO", "RW"} => ov = Toggled(chk.v)
      /\ chk.e.attr = "RSVDP" => ov = chk.v
      /\ chk.e.attr = "RSVDZ" => ov = chk.v \ Field
  OBVIOUS
<1> HIDE DEF ov
<1>4. chk.e.attr \in {"RO", "RW", "RSVDP", "RSVDZ"} /\ chk.rw \subseteq Field
  BY <1>2 DEF Checks, Entries
<1>5. ov \in SUBSET Bits
  BY <1>2, <1>3, <1>4 DEF Checks, Bits, Toggled
<1>6. /\ chk' \in Checks /\ chk'.pc = "read2" /\ chk'.v = chk.v /\ chk'.ov = ov
      /\ chk'.e = chk.e /\ chk'.rw = chk.rw
      /\ chk'.before = chk.before /\ chk'.disturbed = chk.disturbed
  <2>1. chk \in Checks /\ "read2" \in Places
    BY <1>1, <1>2
  <2>2. chk' = [chk EXCEPT !.pc = "read2", !.ov = ov]
    BY <1>2
  <2> QED BY <1>5, <2>1, <2>2, CheckTries
<1>7. BF' \in SUBSET Bits
  BY <1>2, <1>5, WrittenBits DEF WriteBF
<1>8. ASSUME Reached PROVE Reached'
  <2>1. BF = Kept0 /\ chk.v = Kept0 /\ Kept0 \cap Field = chk.e.value /\ chk.e.cap
    BY <1>2, <1>8 DEF Reached
  <2>2. Kept0 \cap W1C = {}
    BY DEF Kept0
  <2>3. Kept0 \ W1C = Kept0
    BY <2>2
  <2>4. /\ chk.e.attr \in {"RO", "RW"} => ov = Toggled(Kept0) /\ BF' = Inverted
        /\ chk.e.attr = "RSVDP" => BF' = Kept0
        /\ chk.e.attr = "RSVDZ" => BF' = Kept0 \ chk.rw
    BY <1>2, <1>3, <1>4, <2>1, <2>2, <2>3, WriteLaws DEF WriteBF, Inverted
  <2>5. Kept0' = Kept0 /\ Inverted' = Inverted
    BY <1>6 DEF Kept0, Inverted
  <2> QED BY <1>6, <2>1, <2>4, <2>5 DEF Reached, BitfieldVerdict, Toggled
<1> QED BY <1>2, <1>6, <1>7, <1>8 DEF CheckInv

(* What reads back decides.                                                *)
LEMMA ReadBackChecks ==
  ASSUME ProgInv, CheckInv, CheckReadBack
  PROVE  CheckInv'
<1>1. {"read2", "restore", "done"} \subseteq Places
  BY DEF Places
<1> DEFINE c == CASE chk.e.attr = "RW" ->
                        [chk EXCEPT !.pc = "restore",
                                    !.verdict = IF BF # chk.ov THEN Mismatch(2) ELSE 0]
                  [] chk.e.attr = "RSVDP" -> Done(IF BF \cap Field # {} THEN Mismatch(2) ELSE 0)
                  [] OTHER -> Done(IF BF # chk.v THEN Mismatch(2) ELSE 0)
<1>2. /\ chk \in Checks /\ chk.pc = "read2" /\ BF' = BF /\ BF \in SUBSET Bits
      /\ chk' = c /\ chk.e.attr # "invalid"
      /\ ~chk.disturbed => Reached
  <2>1. CheckStep("read2", BF, c)
    BY DEF CheckReadBack
  <2> HIDE DEF c
  <2> QED BY <1>1, <2>1, AtCheck
<1> DEFINE Same == CASE chk.e.attr = "RW" -> BF = chk.ov
                     [] chk.e.attr = "RSVDP" -> BF \cap Field = {}
                     [] OTHER -> BF = chk.v
<1>3. PICK w \in {0, 1}, p \in {"restore", "done"} :
        /\ chk' = [chk EXCEPT !.pc = p, !.verdict = w] /\ (p = "restore" <=> chk.e.attr = "RW")
        /\ Same => w = 0
        /\ chk.e.warn = {} /\ ~Same => w = 1
  BY <1>2 DEF Done, Mismatch
<1>4. /\ chk' \in Checks /\ chk'.pc = p /\ chk'.v = chk.v /\ chk'.verdict = w
      /\ chk'.e = chk.e /\ chk'.rw = chk.rw
      /\ chk'.before = chk.before /\ chk'.disturbed = chk.disturbed
  <2>1. chk \in Checks /\ p \in Places
    BY <1>1, <1>2
  <2> QED BY <1>3, <2>1, CheckJudges
<1>5. ASSUME Reached PROVE Reached'
  <2>1. /\ chk.v = Kept0 /\ Kept0 \cap Field = chk.e.value /\ chk.e.cap
        /\ chk.e.attr \in {"RO", "RW"} => chk.ov = Toggled(Kept0) /\ BF = Inverted
        /\ chk.e.attr = "RSVDP" => BF = Kept0
        /\ chk.e.attr = "RSVDZ" => BF = Kept0 \ chk.rw
    BY <1>2, <1>5 DEF Reached
  <2>2. Kept0' = Kept0 /\ Inverted' = Inverted /\ (Conforms(chk.e)' <=> Conforms(chk.e))
    BY <1>4 DEF Kept0, Inverted, Conforms
  <2>3. chk.e.attr \in {"RO", "RW", "RSVDP", "RSVDZ"}
    BY <1>2 DEF Checks, Entries
  <2>4. Same <=> Conforms(chk.e)
    BY <1>2, <2>1, <2>3, ConformsKept
  <2>5. 1 # 0
    BY SMTT(60)
  <2>6. chk.e.warn = {} => (w = 0 <=> Conforms(chk.e))
    BY <1>3, <2>4, <2>5
  <2>7. CASE p = "restore"
    <3>1. chk.e.attr = "RW" /\ (Conforms(chk.e) <=> chk.rw = Field)
      BY <1>2, <1>3, <2>1, <2>7, ConformsKept
    <3> QED BY <1>2, <1>4, <2>1, <2>2, <2>6, <2>7, <3>1 DEF Reached, BitfieldVerdict
  <2>8. CASE p = "done"
    <3>1. Same => BF = Kept0
      BY <1>3, <2>1, <2>3, <2>8
    <3>2. Kept0 \ W1C = Kept0
      BY DEF Kept0
    <3>3. BitfieldVerdict'
      BY <1>2, <1>4, <2>4, <2>6, <2>2, <3>1, <3>2 DEF BitfieldVerdict, Kept0
    <3> QED BY <1>4, <2>8, <3>3 DEF Reached
  <2> QED BY <2>7, <2>8
<1> QED BY <1>2, <1>4, <1>5 DEF CheckInv

(* The field that was tried gets its value back.                           *)
LEMMA RestoreChecks ==
  ASSUME ProgInv, CheckInv, CheckRestore
  PROVE  CheckInv'
<1>1. {"restore", "done"} \subseteq Places
  BY DEF Places
<1>2. /\ chk \in Checks /\ chk.pc = "restore" /\ BF' = WriteBF(chk.v) /\ BF \in SUBSET Bits
      /\ chk' = Done(chk.verdict)
      /\ ~chk.disturbed => Reached
  BY <1>1, AtCheck DEF CheckRestore
<1>3. /\ chk' \in Checks /\ chk'.pc = "done" /\ chk'.verdict = chk.verdict
      /\ chk'.e = chk.e /\ chk'.rw = chk.rw
      /\ chk'.before = chk.before /\ chk'.disturbed = chk.disturbed
  <2>1. chk \in Checks /\ "done" \in Places /\ chk.verdict \in {0, 1}
    BY <1>1, <1>2 DEF Checks
  <2>2. chk' = [chk EXCEPT !.pc = "done", !.verdict = chk.verdict]
    BY <1>2 DEF Done
  <2> QED BY <2>1, <2>2, CheckJudges
<1>4. BF' \in SUBSET Bits
  BY <1>2, WrittenBits DEF WriteBF, Checks
<1>5. ASSUME Reached PROVE Reached'
  <2>1. /\ chk.v = Kept0 /\ Kept0 \cap Field = chk.e.value /\ chk.e.cap
        /\ chk.e.attr = "RW" /\ BF = Inverted
        /\ chk.e.warn = {} => (chk.verdict = 0 <=> chk.rw = Field)
    BY <1>2, <1>5 DEF Reached
  <2>2. Conforms(chk.e)' <=> chk.rw = Field
    <3>1. Conforms(chk.e) <=> chk.rw = Field
      BY <1>2, <2>1, ConformsKept
    <3> QED BY <1>3, <3>1 DEF Conforms
  <2>3. BF' = Kept0
    <3>1. Kept0 \cap W1C = {} /\ chk.rw \subseteq Field
      BY <1>2 DEF Kept0, Checks
    <3> QED BY <1>2, <2>1, <3>1, WriteLaws DEF WriteBF, Inverted
  <2>4. BF' \ W1C = chk.before \ W1C
    BY <2>3 DEF Kept0
  <2>5. BitfieldVerdict'
    BY <1>3, <2>1, <2>2, <2>4 DEF BitfieldVerdict
  <2> QED BY <1>3, <2>5 DEF Reached
<1> QED BY <1>2, <1>3, <1>4, <1>5 DEF CheckInv

(* After an error in the register under check nothing is claimed.          *)
LEMMA ErrorChecks ==
  ASSUME ProgInv, CheckInv, DeviceError
  PROVE  CheckInv'
<1>1. CASE chk = NoCheck
  BY <1>1 DEF DeviceError, CheckInv
<1>2. CASE chk # NoCheck
  <2>1. chk \in Checks /\ BF \subseteq Bits /\ chk' = [chk EXCEPT !.disturbed = TRUE]
    BY <1>2 DEF CheckInv, DeviceError
  <2>2. chk' \in Checks /\ chk'.disturbed /\ chk'.pc = chk.pc /\ chk'.e = chk.e
    <3>1. [chk EXCEPT !.disturbed = TRUE] \in Checks
      BY <2>1 DEF Checks
    <3>2. /\ [chk EXCEPT !.disturbed = TRUE].disturbed
          /\ [chk EXCEPT !.disturbed = TRUE].pc = chk.pc
          /\ [chk EXCEPT !.disturbed = TRUE].e = chk.e
      BY <2>1 DEF Checks
    <3> QED BY <2>1, <3>1, <3>2
  <2>3. BF' \subseteq Bits
    <3>1. reg' = [reg EXCEPT !["BF"] = reg["BF"] \cup {"s"}] /\ "BF" \in DOMAIN reg
      BY <1>2 DEF DeviceError, ProgInv, Registers
    <3>2. BF' = BF \cup {"s"}
      BY <3>1 DEF BF
    <3> QED BY <2>1, <3>2 DEF Bits
  <2> QED BY <1>2, <2>2, <2>3 DEF CheckInv
<1> QED BY <1>1, <1>2

(* Steps that leave the check and its register alone.                      *)
LEMMA OthersKeepCheck ==
  ASSUME CheckInv, chk' = chk, BF' = BF
  PROVE  CheckInv'
<1>1. Reached => Reached'
  BY DEF Reached, Kept0, Inverted, BitfieldVerdict, Conforms
<1> QED BY <1>1 DEF CheckInv

RegInv == ProgInv /\ CheckInv /\ errors \in Nat

(* Every access of the host and every error of the device.                 *)
LEMMA RegStep == RegInv /\ [RegNext]_regvars => RegInv'
<1>0. ASSUME errors \in Nat, [RegNext]_regvars PROVE errors' \in Nat
  <2>1. errors' = errors \/ errors' = errors + 1
    BY <1>0 DEF RegNext, regvars, StartOp, ReadReg, WriteReg, DeviceError,
         val_pcie_bitfield_check, StartCheck, CheckRead0, CheckWriteBack, CheckValue,
         CheckTry, CheckReadBack, CheckRestore, CheckStep
  <2> QED BY <1>0, <2>1, SMTT(60)
<1> SUFFICES ASSUME ProgInv, CheckInv, [RegNext]_regvars PROVE ProgInv' /\ CheckInv'
  BY <1>0 DEF RegInv
<1>1. CASE StartOp \/ ReadReg
  <2>1. chk' = chk /\ BF' = BF
    BY <1>1 DEF StartOp, ReadReg, BF
  <2> QED BY <1>1, <2>1, StartKeepsProg, ReadKeepsProg, OthersKeepCheck
<1>2. CASE WriteReg
  <2>1. Head(prog.todo).reg # "BF"
    BY <1>2, FirstUpdate DEF WriteReg, Shared
  <2>2. chk' = chk /\ BF' = BF
    BY <1>2, <2>1 DEF WriteReg, BF, ProgInv, Registers
  <2> QED BY <1>2, <2>2, WriteKeepsProg, OthersKeepCheck
<1>3. CASE DeviceError
  BY <1>3, ErrorKeepsProg, ErrorChecks
<1>4. CASE val_pcie_bitfield_check
  <2>1. UNCHANGED <<prog, rd>> /\ \E v : reg' = [reg EXCEPT !["BF"] = v]
    BY <1>4 DEF val_pcie_bitfield_check, StartCheck, CheckRead0, CheckWriteBack, CheckValue,
         CheckTry, CheckReadBack, CheckRestore, CheckStep
  <2>2. ProgInv'
    BY <2>1, CheckKeepsProg
  <2>3. CheckInv'
    BY <1>4, StartChecks, Read0Checks, WriteBackChecks, ValueChecks, TryChecks, ReadBackChecks,
       RestoreChecks DEF val_pcie_bitfield_check
  <2> QED BY <2>2, <2>3
<1>5. CASE UNCHANGED regvars
  <2>1. UNCHANGED <<reg, prog, rd, chk>>
    BY <1>5 DEF regvars
  <2>2. chk' = chk /\ BF' = BF
    BY <2>1 DEF BF
  <2>3. ProgInv'
    BY <2>1 DEF ProgInv
  <2> QED BY <2>2, <2>3, OthersKeepCheck
<1> QED BY <1>1, <1>2, <1>3, <1>4, <1>5 DEF RegNext

(* The registers, the operation and the check agree at every access.       *)
THEOREM RegInvariance == RegSpec => []RegInv
<1>1. RegInit => RegInv
  <2>1. 0 \in Nat
    BY SMTT(60)
  <2> QED BY <2>1, ProgStarts DEF RegInit, RegInv, CheckInv
<1> QED BY <1>1, RegStep, PTL DEF RegSpec

(* Whatever the field, a check of it (val_pcie_bitfield_check) passes      *)
(* exactly if it conforms, and has then restored the register, unless the  *)
(* entry only warns or the device records an error meanwhile.              *)
THEOREM VerdictsRight == RegSpec => []BitfieldVerdict
<1>1. RegInv => BitfieldVerdict
  <2> SUFFICES ASSUME CheckInv PROVE BitfieldVerdict
    BY DEF RegInv
  <2>1. CASE chk = NoCheck
    BY <2>1 DEF NoCheck, BitfieldVerdict
  <2>2. CASE chk # NoCheck
    BY <2>2 DEF CheckInv, Reached, BitfieldVerdict
  <2> QED BY <2>1, <2>2
<1> QED BY <1>1, RegInvariance, PTL

(* An operation on a register it shares with others changes only its own   *)
(* bits, and errors that were there when it read the register.             *)
THEOREM OwnBitsOnly == RegSpec => OnlyOwnBits
<1> DEFINE A == \A r \in Registers \ {"BF"} :
          LET changed == (reg[r] \ reg'[r]) \cup (reg'[r] \ reg[r])
          IN (prog # Idle /\ errors' = errors) =>
                changed \subseteq Own(prog.name) \cup
                    (IF prog.name = "clear_urd" THEN {} ELSE rd \cap W1C)
<1>1. RegInv /\ [RegNext]_regvars => [A]_regvars
  <2> SUFFICES ASSUME ProgInv, RegNext, prog # Idle, errors' = errors,
                      errors \in Nat, NEW r \in Shared
               PROVE  LET changed == (reg[r] \ reg'[r]) \cup (reg'[r] \ reg[r])
                      IN changed \subseteq Own(prog.name) \cup
                           (IF prog.name = "clear_urd" THEN {} ELSE rd \cap W1C)
    BY DEF RegInv, Shared
  <2>1. CASE WriteReg
    BY <2>1, WriteChanges
  <2>2. ASSUME reg'[r] = reg[r]
        PROVE  (reg[r] \ reg'[r]) \cup (reg'[r] \ reg[r]) = {}
    BY <2>2
  <2>3. CASE StartOp \/ ReadReg
    BY <2>2, <2>3 DEF StartOp, ReadReg
  <2>4. CASE val_pcie_bitfield_check
    <3>1. UNCHANGED <<prog, rd>> /\ \E v : reg' = [reg EXCEPT !["BF"] = v]
      BY <2>4 DEF val_pcie_bitfield_check, StartCheck, CheckRead0, CheckWriteBack, CheckValue,
           CheckTry, CheckReadBack, CheckRestore, CheckStep
    <3> QED BY <2>2, <3>1, CheckKeepsProg
  <2>5. ~DeviceError
    BY SMTT(60) DEF DeviceError
  <2> QED BY <2>1, <2>3, <2>4, <2>5 DEF RegNext
<1> QED BY <1>1, RegInvariance, PTL DEF RegSpec, OnlyOwnBits
=============================================================================
