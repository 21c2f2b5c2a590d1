------------------------ MODULE DeviceAssignment ------------------------
(***************************************************************************)
(* The life of an assigned device in a test: da_init creates the physical  *)
(* device object (PDEV) and the first virtual one (VDEV) and brings it to  *)
(* the state the test wants, da_create_vdev adds a second VDEV, the RHI    *)
(* device handlers serve the Realm, and the teardown functions destroy     *)
(* what was created.  Every RMI call can fail, and every test that meets a *)
(* failure goes to the teardown.                                           *)
(*                                                                         *)
(* val_host_dev_communicate is one step here: module DevComm shows that it *)
(* reports success only when the device is in the wanted state and the RMM *)
(* is silent.  The RMM is external: pdev and vdev are its objects.         *)
(***************************************************************************)
EXTENDS Naturals, FiniteSets

CONSTANTS MaxRegions,  \* VAL_MAX_DEV_GRANULES_MAP
          MaxCalls,    \* bound: RHI calls the Realm makes in a test
          MeasLen,     \* bytes a device gives for each measurement or report
          MeasMax      \* VAL_HOST_VDEV_MEAS_LEN_MAX, and the same for reports

ASSUME CallsAssumption == MaxCalls \in Nat /\ MaxRegions \in Nat
ASSUME MeasAssumption == MeasLen \in Nat \ {0} /\ MeasMax \in Nat

VARIABLES pc,          \* the test: which step of which function comes next
          plan,        \* the test's choices: VDEV state it wants, number of VDEVs
          pdev,        \* RMM: state of the PDEV, "none" before it is created
          vdev,        \* RMM: state of each VDEV and the operation it has begun
          mapped,      \* RMM: pages of device memory mapped in the Realm
          pobj,        \* the host's val_host_pdev_ts: is its pdev field set?
          vobj,        \* the host's val_host_vdev_ts array
          count,       \* g_da_vdev_count
          regions,     \* realm->dev_granules[0 .. dev_granules_mapped_count - 1]
          handles,     \* handles val_da_alloc_handle has given out
          next_handle, \* g_da_next_handle
          answer,      \* the last RHI call and its status
          calls,       \* RHI calls made so far
          failed,      \* the test has been set to FAIL
          fault,       \* history: the RMM failed a call of the teardown
          sound        \* history: at the start of the teardown the host knew every
                       \*          device object and no operation was pending

vars == <<pc, plan, pdev, vdev, mapped, pobj, vobj, count, regions, handles,
          next_handle, answer, calls, failed, fault, sound>>
rhi == <<handles, next_handle, answer, calls>>

Ids == {0, 1}
NoVdev == [state |-> "none", op |-> "none"]
NoObj == [ptr |-> FALSE, meas |-> FALSE, meas_len |-> 0, ifc_len |-> 0]

\* The tests under test/rhi: a VDEV is wanted in one of three states, and the
\* test of RHI_DA_VDEV_P2P_UNBIND has two, both locked.
Plans == [state : {"new", "unlocked", "locked"}, vdevs : {1}]
            \cup {[state |-> "locked", vdevs |-> 2]}

Init ==
    /\ pc = "pdev_create"
    /\ plan \in Plans
    /\ pdev = "none"
    /\ vdev = [v \in Ids |-> NoVdev]
    /\ mapped = {}
    /\ pobj = FALSE
    /\ vobj = [v \in Ids |-> NoObj]
    /\ count = 1
    /\ regions = {}
    /\ handles = 0
    /\ next_handle = 0
    /\ answer = [call |-> "none", status |-> "success", arg |-> 0]
    /\ calls = 0
    /\ failed = FALSE
    /\ fault = FALSE
    /\ sound = TRUE

-----------------------------------------------------------------------------
(* The contract of val_host_dev_communicate, and the RMM behind it.        *)

\* Where a transaction can lead: from a state, with an operation begun.
Leads(d, target) ==
    \/ d.state = "new" /\ target = "unlocked"
    \/ d.op = "lock" /\ target = "locked"
    \/ d.op = "unlock" /\ target = "unlocked"
    \/ d.op \in {"none", "measure", "report"} /\ target = d.state

\* What a transaction that fails leaves: the device as it was, or in error.
BrokenVdev(v) == {vdev[v], [state |-> "error", op |-> "none"]}

PdevLeads == [new |-> "needs_key", has_key |-> "ready", stopping |-> "stopped"]

-----------------------------------------------------------------------------
(* da_init and da_create_vdev                                              *)

Failed == failed' = TRUE /\ pc' = "teardown"

\* A failure of an allocation or of an RMI call before the step's effect.
StepFails(step) ==
    /\ pc = step
    /\ Failed
    /\ UNCHANGED <<plan, pdev, vdev, mapped, pobj, vobj, count, regions, rhi, fault, sound>>

\* The PDEV is created before the host's object is filled in: between the two,
\* the buffers for the device's VCA, certificate and key are allocated.
PdevCreate ==
    /\ pc = "pdev_create"
    /\ pdev' = "new"
    /\ pc' = "pdev_buffers"
    /\ UNCHANGED <<plan, vdev, mapped, pobj, vobj, count, regions, rhi, failed, fault, sound>>

PdevBuffers ==
    /\ pc = "pdev_buffers"
    /\ pobj' = TRUE
    /\ pc' = "needs_key"
    /\ UNCHANGED <<plan, pdev, vdev, mapped, vobj, count, regions, rhi, failed, fault, sound>>

\* The two transactions of the PDEV and the public key between them.
PdevCommunicate ==
    /\ pc \in {"needs_key", "ready"}
    /\ \/ /\ pdev' = PdevLeads[pdev]
          /\ pc' = IF pc = "needs_key" THEN "set_pubkey" ELSE "realm_setup"
          /\ UNCHANGED failed
       \/ pdev' \in {pdev, "communicating", "error"} /\ Failed
    /\ UNCHANGED <<plan, vdev, mapped, pobj, vobj, count, regions, rhi, fault, sound>>

SetPubkey ==
    /\ pc = "set_pubkey"
    /\ pdev' = "has_key"
    /\ pc' = "ready"
    /\ UNCHANGED <<plan, vdev, mapped, pobj, vobj, count, regions, rhi, failed, fault, sound>>

\* val_host_realm_setup: module RealmSetup.
RealmSetup ==
    /\ pc = "realm_setup"
    /\ pc' = "vdev_create"
    /\ UNCHANGED <<plan, pdev, vdev, mapped, pobj, vobj, count, regions, rhi, failed, fault, sound>>

\* The VDEV being brought up: the first one by da_init, or, once that is done,
\* the second by da_create_vdev, which goes through the same steps.
Cur == IF vobj[0].meas THEN 1 ELSE 0

\* The host's object is filled in once the state of the new VDEV was read.
VdevCreate(state_read) ==
    /\ pc = "vdev_create"
    /\ vdev' = [vdev EXCEPT ![Cur].state = "new"]
    /\ IF state_read
       THEN /\ vobj' = [vobj EXCEPT ![Cur] = [NoObj EXCEPT !.ptr = TRUE]]
            /\ pc' = IF plan.state = "new" THEN "serve" ELSE "unlocked"
            /\ UNCHANGED failed
       ELSE Failed /\ UNCHANGED vobj
    /\ UNCHANGED <<plan, pdev, mapped, pobj, count, regions, rhi, fault, sound>>

VdevCommunicate(v, target) ==
    \/ /\ Leads(vdev[v], target)
       /\ vdev' = [vdev EXCEPT ![v] = [state |-> target, op |-> "none"]]
       /\ pc' = IF target = "locked" THEN "vdev_buffers"
                ELSE IF plan.state = "unlocked" THEN "serve" ELSE "lock"
       /\ UNCHANGED failed
    \/ /\ \E d \in BrokenVdev(v) : vdev' = [vdev EXCEPT ![v] = d]
       /\ Failed

VdevUnlocked ==
    /\ pc = "unlocked"
    /\ VdevCommunicate(Cur, "unlocked")
    /\ UNCHANGED <<plan, pdev, mapped, pobj, vobj, count, regions, rhi, fault, sound>>

VdevLock ==
    /\ pc = "lock"
    /\ vdev' = [vdev EXCEPT ![Cur].op = "lock"]
    /\ pc' = "locked"
    /\ UNCHANGED <<plan, pdev, mapped, pobj, vobj, count, regions, rhi, failed, fault, sound>>

VdevLocked ==
    /\ pc = "locked"
    /\ VdevCommunicate(Cur, "locked")
    /\ UNCHANGED <<plan, pdev, mapped, pobj, vobj, count, regions, rhi, fault, sound>>

\* da_create_vdev counts its VDEV at the very end.
VdevCount == IF Cur = 1 THEN count + 1 ELSE count

\* The buffers for measurements and report come last.
VdevBuffers ==
    /\ pc = "vdev_buffers"
    /\ vobj' = [vobj EXCEPT ![Cur] = [@ EXCEPT !.meas = TRUE, !.meas_len = 0, !.ifc_len = 0]]
    /\ count' = VdevCount
    /\ pc' = IF Cur = 0 /\ plan.vdevs = 2 THEN "vdev_create" ELSE "serve"
    /\ UNCHANGED <<plan, pdev, vdev, mapped, pobj, regions, rhi, failed, fault, sound>>

InitSteps == {"pdev_create", "pdev_buffers", "set_pubkey", "realm_setup",
              "vdev_create", "lock", "vdev_buffers"}

DaInit ==
    \/ \E step \in InitSteps : StepFails(step)
    \/ \E b \in BOOLEAN : VdevCreate(b)
    \/ PdevCreate \/ PdevBuffers \/ PdevCommunicate \/ SetPubkey \/ RealmSetup
    \/ VdevUnlocked \/ VdevLock \/ VdevLocked \/ VdevBuffers

-----------------------------------------------------------------------------
(* Serving the Realm: val_host_rhi_da_dispatch, one call at a time.        *)

Serving == pc = "serve" /\ calls < MaxCalls
Known == UNCHANGED <<pc, plan, pdev, mapped, pobj, count, regions, failed, fault, sound>>

Reply(call, status, arg) ==
    /\ answer' = [call |-> call, status |-> status, arg |-> arg]
    /\ calls' = calls + 1

\* A call that is refused, or that only reads.
Says(call, status, arg) ==
    /\ Reply(call, status, arg)
    /\ UNCHANGED <<vdev, vobj, handles, next_handle>>

\* Mutant: the handle is given out and not remembered.
IncompleteForgets(call, arg) ==
    /\ Reply(call, "incomplete", arg)
    /\ handles' = handles + 1
    /\ UNCHANGED next_handle

\* val_da_alloc_handle: the handle given out last is the only one remembered.
Incomplete(call, arg) ==
    /\ Reply(call, "incomplete", arg)
    /\ handles' = handles + 1
    /\ next_handle' = handles + 1

\* The handlers look at the first VDEV only; CONTINUE knows both.
Begin(call, op, refused, ipa, id) ==
    \/ id # 0 /\ Says(call, "invalid_vdev", 0)
    \/ id = 0 /\ ~ipa /\ Says(call, "access_failed", 0)
    \/ id = 0 /\ ipa /\ Says(call, refused, 0)
    \/ /\ id = 0 /\ ipa /\ vdev[0].op = "none" /\ vdev[0].state \in {"unlocked", "locked"}
       /\ vdev' = [vdev EXCEPT ![0].op = op]
       /\ Incomplete(call, 0)
       /\ UNCHANGED vobj

\* The tests ask for measurements and reports when the VDEV was locked for them.
vdev_get_measurements(id, ipa) ==
    /\ Serving /\ plan.state = "locked" /\ Known
    /\ Begin("get_measurements", "measure", "device", ipa, id)

vdev_get_interface_report(id) ==
    /\ Serving /\ plan.state = "locked" /\ Known
    /\ Begin("get_interface_report", "report", "busy", TRUE, id)

\* RHI_DA_TDI_CONFIG_UNLOCKED, _LOCKED and _RUN are 0, 1 and 2.
vdev_set_tdi_state(id, tdi) ==
    /\ Serving /\ Known
    /\ \/ id # 0 /\ Says("set_tdi", "invalid_vdev", tdi)
       \/ id = 0 /\ tdi > 2 /\ Says("set_tdi", "invalid_object", tdi)
       \/ id = 0 /\ tdi = 1 /\ Says("set_tdi", "val_error", tdi)
       \/ /\ id = 0 /\ tdi = 1 /\ vdev[0] = [state |-> "unlocked", op |-> "none"]
          /\ vdev' = [vdev EXCEPT ![0].op = "lock"]
          /\ Incomplete("set_tdi", tdi)
          /\ UNCHANGED vobj
       \/ /\ id = 0 /\ tdi \in {0, 2}
          /\ Incomplete("set_tdi", tdi)
          /\ UNCHANGED <<vdev, vobj>>

\* An entry of the array that was never filled in has the identifier 0.
vdev_p2p_unbind(id1, id2) ==
    /\ Serving /\ Known
    /\ LET ids == {0} \cup {v \in Ids : vobj[v].ptr}
       IN IF {id1, id2} \subseteq ids
          THEN Incomplete("p2p_unbind", 0) /\ UNCHANGED <<vdev, vobj>>
          ELSE Says("p2p_unbind", "invalid_vdev", 0)

vdev_abort(id) ==
    /\ Serving /\ Known
    /\ \/ id # 0 /\ Says("abort", "invalid_vdev", 0)
       \/ id = 0 /\ vdev[0].op = "none" /\ Says("abort", "had_completed", 0)
       \/ /\ id = 0 /\ vdev[0].op # "none"
          /\ vdev' = [vdev EXCEPT ![0].op = "none"]
          /\ Reply("abort", "success", 0)
          /\ UNCHANGED <<vobj, handles, next_handle>>

\* The object kept by the host grows by what the device gives; DevComm refuses
\* what does not fit.
Kept(o, op) ==
    [o EXCEPT !.meas_len = IF op = "measure" THEN @ + MeasLen ELSE @,
              !.ifc_len = IF op = "report" THEN @ + MeasLen ELSE @]

vdev_continue(id, handle) ==
    /\ Serving /\ Known
    /\ LET known == id = 0 \/ (count > 1 /\ id = 1)
           bad == handle # next_handle
           o == Kept(vobj[id], vdev[id].op)
           ok == Leads(vdev[id], "locked") /\ o.meas_len <= MeasMax /\ o.ifc_len <= MeasMax
       IN \/ bad /\ Says("continue", "invalid_vdev", handle)
          \/ ~bad /\ ~known /\ Says("continue", "invalid_vdev", handle)
          \/ /\ ~bad /\ known /\ ok
             /\ vdev' = [vdev EXCEPT ![id] = [state |-> "locked", op |-> "none"]]
             /\ vobj' = [vobj EXCEPT ![id] = o]
             /\ Reply("continue", "success", handle)
             /\ UNCHANGED <<handles, next_handle>>
          \/ /\ ~bad /\ known
             /\ \E d \in BrokenVdev(id) : vdev' = [vdev EXCEPT ![id] = d]
             /\ Reply("continue", "device", handle)
             /\ UNCHANGED <<vobj, handles, next_handle>>

\* RHI_DA_OBJECT_SIZE, and RHI_DA_OBJECT_READ with a buffer that is too small.
ObjectLen(obj) ==
    CASE obj = "measurements" -> vobj[0].meas_len
      [] obj = "interface_report" -> vobj[0].ifc_len
      [] OTHER -> 1      \* VCA and certificate: kept since da_init

object_size(id, obj) ==
    /\ Serving /\ Known
    /\ \/ id # 0 /\ Says("object_size", "invalid_vdev", 0)
       \/ id = 0 /\ obj = "evidence" /\ Says("object_size", "unsupported", 0)
       \/ id = 0 /\ obj = "other" /\ Says("object_size", "invalid_object", 0)
       \/ /\ id = 0 /\ obj \in {"vca", "measurements", "interface_report"}
          /\ IF ObjectLen(obj) = 0
             THEN Says("object_size", "data_not_available", 0)
             ELSE Says("object_size", "success", ObjectLen(obj))

object_read(id, obj, ipa, max_len, offset) ==
    /\ Serving /\ Known
    /\ LET n == ObjectLen(obj)
           fits == offset < max_len /\ n <= max_len - offset
           kept == obj \in {"vca", "measurements", "interface_report"}
       IN \/ id # 0 /\ Says("object_read", "invalid_vdev", 0)
          \/ id = 0 /\ ~ipa /\ Says("object_read", "access_failed", 0)
          \/ id = 0 /\ ipa /\ obj = "evidence" /\ Says("object_read", "unsupported", 0)
          \/ id = 0 /\ ipa /\ obj = "other" /\ Says("object_read", "invalid_object", 0)
          \/ id = 0 /\ ipa /\ kept /\ n = 0 /\ Says("object_read", "data_not_available", 0)
          \/ id = 0 /\ ipa /\ kept /\ n # 0 /\ ~fits /\ Says("object_read", "invalid_offset", 0)
          \/ id = 0 /\ ipa /\ kept /\ n # 0 /\ fits /\ Says("object_read", "success", n)

\* val_host_dev_mem_map: a region of two pages is recorded once both are
\* mapped; when a page cannot be mapped, the earlier one stays mapped.
dev_mem_map(r, pages) ==
    /\ pc = "serve" /\ vdev[0].state = "locked"
    /\ UNCHANGED <<plan, pdev, vdev, pobj, vobj, count, rhi, fault, sound>>
    /\ r \in regions => pages = 0      \* its pages are delegated already
    /\ IF Cardinality(regions) >= MaxRegions
       THEN Failed /\ UNCHANGED <<mapped, regions>>
       ELSE /\ mapped' = mapped \cup ({r} \X (1 .. pages))
            /\ IF pages = 2 THEN regions' = regions \cup {r} /\ UNCHANGED <<pc, failed>>
                            ELSE Failed /\ UNCHANGED regions

Objects == {"vca", "measurements", "interface_report", "evidence", "other"}

Serve ==
    \/ \E id \in 0 .. 2 :
        \/ \E ipa \in BOOLEAN : vdev_get_measurements(id, ipa)
        \/ vdev_get_interface_report(id)
        \/ \E tdi \in 0 .. 3 : vdev_set_tdi_state(id, tdi)
        \/ \E id2 \in 0 .. 2 : vdev_p2p_unbind(id, id2)
        \/ vdev_abort(id)
        \/ \E obj \in Objects : object_size(id, obj)
        \/ \E obj \in Objects, ipa \in BOOLEAN, max_len \in 0 .. 2, offset \in 0 .. 1 :
              object_read(id, obj, ipa, max_len, offset)
    \/ \E id \in Ids, handle \in 0 .. MaxCalls + 1 : vdev_continue(id, handle)
    \/ \E r \in 1 .. 2, pages \in 0 .. 2 : dev_mem_map(r, pages)

-----------------------------------------------------------------------------
(* Teardown: val_host_vdev_teardown for the second and the first VDEV, then *)
(* val_host_pdev_teardown.                                                 *)

TeardownStarts ==
    /\ pc \in {"serve", "teardown"}
    /\ pc' = "vdev1"
    /\ sound' = /\ pdev # "none" => pobj
                /\ \A v \in Ids : vdev[v].state # "none" => vobj[v].ptr /\ vdev[v].op = "none"
    /\ UNCHANGED <<plan, pdev, vdev, mapped, pobj, vobj, count, regions, rhi, failed, fault>>

\* After a failure a test goes on with the next object or gives up.
Goes(next, ok) ==
    /\ failed' = (failed \/ ~ok)
    /\ pc' \in IF ok THEN {next} ELSE {next, "done"}

Error == [state |-> "error", op |-> "none"]

\* What destroying a VDEV in state d can give.  A refusal is the RMM's fault
\* unless an operation is pending.
Destroy(d, reset) ==
    { [d |-> NoVdev, ok |-> TRUE, fault |-> FALSE, reset |-> reset],
      [d |-> d, ok |-> FALSE, fault |-> d.op = "none", reset |-> reset] }

\* When unlocking fails and leaves the VDEV in d, it is destroyed only if it is
\* in error; otherwise the function still returns success.
UnlockFailed(d, is_fault) ==
    IF d.state = "error"
    THEN {[o EXCEPT !.fault = TRUE] : o \in Destroy(d, FALSE)}
    ELSE {[d |-> d, ok |-> TRUE, fault |-> is_fault, reset |-> FALSE]}

\* A state query that fails ends the function.
NoState(d) == {[d |-> d, ok |-> FALSE, fault |-> TRUE, reset |-> FALSE]}

\* Mutant: a VDEV that has been unlocked is not destroyed.
OutcomesOnlyUnlock(d) ==
    IF d.state # "locked" THEN Destroy(d, TRUE)
    ELSE {[d |-> [state |-> "unlocked", op |-> "none"], ok |-> TRUE, fault |-> FALSE,
           reset |-> TRUE]}

Outcomes(d) ==
    LET unlocking == [d EXCEPT !.op = "unlock"]
    IN NoState(d) \cup
       IF d.state # "locked" THEN Destroy(d, TRUE)
       ELSE UnlockFailed(d, d.op = "none")                       \* VDEV_UNLOCK refused
            \cup UnlockFailed(Error, TRUE) \cup NoState(Error)
            \cup UnlockFailed(unlocking, TRUE)                   \* communicate failed
            \cup NoState(unlocking)
            \cup Destroy([state |-> "unlocked", op |-> "none"], TRUE)

\* Mutant: the last page of a region is not unmapped.
RecordedButLast == regions \X {1}

Recorded == regions \X {1, 2}

vdev_teardown(v, here, next) ==
    /\ pc = here
    /\ \/ /\ ~vobj[v].ptr
          /\ Goes(next, TRUE)
          /\ UNCHANGED <<vdev, mapped, regions, fault>>
       \/ /\ vobj[v].ptr /\ mapped \cap Recorded # {}        \* an unmap fails
          /\ \E done \in SUBSET (mapped \cap Recorded) : mapped' = mapped \ done
          /\ Goes(next, FALSE)
          /\ fault' = TRUE
          /\ UNCHANGED <<vdev, regions>>
       \/ /\ vobj[v].ptr
          /\ mapped' = mapped \ Recorded
          /\ \E o \in Outcomes(vdev[v]) :
                /\ vdev' = [vdev EXCEPT ![v] = o.d]
                /\ fault' = (fault \/ o.fault)
                /\ regions' = IF o.reset THEN {} ELSE regions
                /\ Goes(next, o.ok)
    /\ UNCHANGED <<plan, pdev, pobj, vobj, count, rhi, sound>>

\* The RMM stops a PDEV that has no VDEV.
CanStop == \A v \in Ids : vdev[v].state = "none"

pdev_teardown ==
    /\ pc = "pdev"
    /\ \/ ~pobj /\ Goes("done", FALSE) /\ UNCHANGED <<pdev, fault>>
       \/ pobj /\ CanStop /\ pdev' = "none" /\ Goes("done", TRUE) /\ UNCHANGED fault
       \/ /\ pobj /\ Goes("done", FALSE)
          /\ \/ ~CanStop /\ UNCHANGED fault
             \/ fault' = TRUE
          /\ \/ pdev' = IF pdev = "communicating" THEN "ready" ELSE pdev
             \/ CanStop /\ pdev' \in {"stopping", "stopped", "error"}
    /\ UNCHANGED <<plan, vdev, mapped, pobj, vobj, count, regions, rhi, sound>>

Teardown ==
    \/ TeardownStarts
    \/ vdev_teardown(1, "vdev1", "vdev0")
    \/ vdev_teardown(0, "vdev0", "pdev")
    \/ pdev_teardown

Next == DaInit \/ Serve \/ Teardown

Spec == Init /\ [][Next]_vars

-----------------------------------------------------------------------------
(* Properties                                                              *)

Gone == pdev = "none" /\ \A v \in Ids : vdev[v].state = "none"

\* A test that is not set to FAIL leaves no PDEV, no VDEV and no mapped page of
\* device memory behind, although val_host_vdev_teardown returns success on
\* paths that destroy nothing (val_host_da.c:433, 449).
NoSilentLeak == pc = "done" /\ ~failed => Gone /\ mapped = {}

\* Wherever the test stops, the teardown destroys every device object if the
\* host knew them all, no operation was pending, and the RMM fails no call.
CleansWhenIdle == pc = "done" /\ sound /\ ~fault => Gone

\* While the Realm is served, an operation a VDEV has begun can be continued:
\* the host remembers a handle that was given out, and CONTINUE finds the VDEV.
PendingContinuable ==
    \A v \in Ids : pc = "serve" /\ vdev[v].op # "none" =>
        next_handle # 0 /\ next_handle = handles /\ (v = 0 \/ count > 1)

==========================================================================
