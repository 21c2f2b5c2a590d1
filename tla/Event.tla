------------------------------- MODULE Event -------------------------------
(***************************************************************************)
(* Events and the spinlock below them (val_mp_supp.c, pal_spinlock.S).     *)
(*                                                                         *)
(* The host's processors share one event_t: a pending counter cnt and the  *)
(* spinlock that protects its updates.  Every processor runs a script, the *)
(* sequence of send and wait calls a test makes on it.  A step is one      *)
(* access to shared memory, one WFE or one SEV, so that the unlocked read  *)
(* of cnt, the exclusive pair LDAXR/STXR and the wake-ups interleave as    *)
(* they do between processors.                                             *)
(*                                                                         *)
(* External to the repository: the event register (SEV and SEVL set it,    *)
(* WFE waits for it and clears it) and the exclusive monitor (LDAXR arms   *)
(* it; a store of another processor to the word clears it and sets the     *)
(* event register of the processor that had it armed).                     *)
(***************************************************************************)
EXTENDS Integers, Sequences

CONSTANTS
  CPU,        \* the processors that share the event
  Increments, \* the values inc may have: 1, a cpus_count, the processor count
  Scripts     \* the possible assignments of a call sequence to each processor

(* A call of the val_send_event family, or of val_wait_for_event.          *)
SendCall(n) == [op |-> "send", inc |-> n]
WaitCall == [op |-> "wait", inc |-> 0]
Calls == {SendCall(n) : n \in Increments} \cup {WaitCall}

ASSUME IncrementsAssumption == Increments \subseteq Nat
ASSUME ScriptsAssumption == Scripts \subseteq [CPU -> Seq(Calls)]

VARIABLES
  cnt,      \* event->cnt
  lock,     \* event->lock.lock, 0 or 1
  pc,       \* where each processor is
  script,   \* the calls each processor has still to finish
  reg,      \* w1 or the local copy of cnt, per processor
  evreg,    \* the event register of each processor
  monitor   \* is the exclusive monitor of each processor armed for the lock

vars == <<cnt, lock, pc, script, reg, evreg, monitor>>

Labels == {"idle", "check", "wfe", "l1", "l2", "stxr", "read", "write",
           "unlock", "sev"}

(* Between taking the lock and the store that releases it.                 *)
Critical == {"read", "write", "unlock"}

Current(c) == Head(script[c])

TypeOK ==
  /\ cnt \in Nat
  /\ lock \in {0, 1}
  /\ pc \in [CPU -> Labels]
  /\ script \in [CPU -> Seq(Calls)]
  /\ reg \in [CPU -> Nat]
  /\ evreg \in [CPU -> BOOLEAN]
  /\ monitor \in [CPU -> BOOLEAN]

(* val_init_event, called by the primary before it powers up the others.   *)
Init ==
  /\ cnt = 0
  /\ lock = 0
  /\ pc = [c \in CPU |-> "idle"]
  /\ script \in Scripts
  /\ reg = [c \in CPU |-> 0]
  /\ evreg = [c \in CPU |-> FALSE]
  /\ monitor = [c \in CPU |-> FALSE]

Goto(c, label) == pc' = [pc EXCEPT ![c] = label]

(* A store to the lock word by c: the monitors armed for it are cleared    *)
(* and their owners, c excepted, see an event.                             *)
StoreToLock(c, value) ==
  /\ lock' = value
  /\ monitor' = [d \in CPU |-> FALSE]
  /\ evreg' = [d \in CPU |-> evreg[d] \/ (d # c /\ monitor[d])]

(* The first instructions of pal_spin_lock: SEVL, so that the first WFE    *)
(* does not wait.                                                          *)
EnterSpinLock(c) ==
  /\ Goto(c, "l1")
  /\ evreg' = [evreg EXCEPT ![c] = TRUE]

(* send_event_common is called: it starts by taking the lock.              *)
StartSend(c) ==
  /\ pc[c] = "idle" /\ script[c] # << >>
  /\ Current(c).op = "send"
  /\ EnterSpinLock(c)
  /\ UNCHANGED <<cnt, lock, script, reg, monitor>>

(* val_wait_for_event is called.                                           *)
StartWait(c) ==
  /\ pc[c] = "idle" /\ script[c] # << >>
  /\ Current(c).op = "wait"
  /\ Goto(c, "check")
  /\ UNCHANGED <<cnt, lock, script, reg, evreg, monitor>>

(* while (!event_received): the counter is read without the lock.          *)
CheckPending(c) ==
  /\ pc[c] = "check"
  /\ \/ cnt = 0 /\ Goto(c, "wfe") /\ UNCHANGED evreg
     \/ cnt # 0 /\ EnterSpinLock(c)
  /\ UNCHANGED <<cnt, lock, script, reg, monitor>>

(* wfe() of val_wait_for_event.                                            *)
WaitForEvent(c) ==
  /\ pc[c] = "wfe" /\ evreg[c]
  /\ evreg' = [evreg EXCEPT ![c] = FALSE]
  /\ Goto(c, "check")
  /\ UNCHANGED <<cnt, lock, script, reg, monitor>>

(* l1: wfe                                                                 *)
SpinWfe(c) ==
  /\ pc[c] = "l1" /\ evreg[c]
  /\ evreg' = [evreg EXCEPT ![c] = FALSE]
  /\ Goto(c, "l2")
  /\ UNCHANGED <<cnt, lock, script, reg, monitor>>

(* l2: ldaxr w1, [x0]; cbnz w1, l1                                         *)
SpinLoad(c) ==
  /\ pc[c] = "l2"
  /\ monitor' = [monitor EXCEPT ![c] = TRUE]
  /\ Goto(c, IF lock # 0 THEN "l1" ELSE "stxr")
  /\ UNCHANGED <<cnt, lock, script, reg, evreg>>

(* stxr w1, w2, [x0]; cbnz w1, l2: the store happens only if the monitor   *)
(* is still armed.                                                         *)
SpinStore(c) ==
  /\ pc[c] = "stxr"
  /\ \/ monitor[c] /\ StoreToLock(c, 1) /\ Goto(c, "read")
     \/ ~monitor[c] /\ Goto(c, "l2") /\ UNCHANGED <<lock, monitor, evreg>>
  /\ UNCHANGED <<cnt, script, reg>>

(* The load of event->cnt inside the critical section.                     *)
ReadCnt(c) ==
  /\ pc[c] = "read"
  /\ reg' = [reg EXCEPT ![c] = cnt]
  /\ Goto(c, "write")
  /\ UNCHANGED <<cnt, lock, script, evreg, monitor>>

(* event->cnt += inc                                                       *)
AddToCnt(c) ==
  /\ pc[c] = "write" /\ Current(c).op = "send"
  /\ cnt' = reg[c] + Current(c).inc
  /\ Goto(c, "unlock")
  /\ UNCHANGED <<lock, script, reg, evreg, monitor>>

(* if (event->cnt != 0) --event->cnt: the event may have been stolen while *)
(* this processor was waiting for the lock.                                *)
TakeFromCnt(c) ==
  /\ pc[c] = "write" /\ Current(c).op = "wait"
  /\ \/ reg[c] # 0 /\ cnt' = reg[c] - 1
     \/ reg[c] = 0 /\ UNCHANGED cnt
  /\ Goto(c, "unlock")
  /\ UNCHANGED <<lock, script, reg, evreg, monitor>>

(* Mutant: event_received is set even when the event was stolen.           *)
UnlockAlwaysReceived(c) ==
  /\ pc[c] = "unlock"
  /\ StoreToLock(c, 0)
  /\ \/ /\ Current(c).op = "send"
        /\ Goto(c, "sev") /\ UNCHANGED script
     \/ /\ Current(c).op = "wait"
        /\ Goto(c, "idle") /\ script' = [script EXCEPT ![c] = Tail(@)]
  /\ UNCHANGED <<cnt, reg>>

(* pal_spin_unlock.  A sender goes on to SEV; a waiter returns when        *)
(* event_received is set and reads the counter again otherwise.            *)
Unlock(c) ==
  /\ pc[c] = "unlock"
  /\ StoreToLock(c, 0)
  /\ \/ /\ Current(c).op = "send"
        /\ Goto(c, "sev") /\ UNCHANGED script
     \/ /\ Current(c).op = "wait" /\ reg[c] # 0
        /\ Goto(c, "idle") /\ script' = [script EXCEPT ![c] = Tail(@)]
     \/ /\ Current(c).op = "wait" /\ reg[c] = 0
        /\ Goto(c, "check") /\ UNCHANGED script
  /\ UNCHANGED <<cnt, reg>>

(* Mutant: no sev() after the unlock.                                      *)
SendEventNoSev(c) ==
  /\ pc[c] = "sev"
  /\ Goto(c, "idle")
  /\ script' = [script EXCEPT ![c] = Tail(@)]
  /\ UNCHANGED <<cnt, lock, reg, evreg, monitor>>

(* dsbsy(); sev(); and the send returns.                                   *)
SendEvent(c) ==
  /\ pc[c] = "sev"
  /\ evreg' = [d \in CPU |-> TRUE]
  /\ Goto(c, "idle")
  /\ script' = [script EXCEPT ![c] = Tail(@)]
  /\ UNCHANGED <<cnt, lock, reg, monitor>>

Step(c) ==
  \/ StartSend(c) \/ StartWait(c) \/ CheckPending(c) \/ WaitForEvent(c)
  \/ SpinWfe(c) \/ SpinLoad(c) \/ SpinStore(c)
  \/ ReadCnt(c) \/ AddToCnt(c) \/ TakeFromCnt(c)
  \/ Unlock(c) \/ SendEvent(c)

Next == \E c \in CPU : Step(c)

(* Every processor that is powered up keeps executing its instructions.    *)
Fairness == \A c \in CPU : WF_vars(Step(c))

Spec == Init /\ [][Next]_vars
FairSpec == Spec /\ Fairness
-----------------------------------------------------------------------------
(* The spinlock: two processors are never both between the STXR that took  *)
(* the lock and the STLR that releases it, and the word is set meanwhile.  *)
MutualExclusion ==
  /\ \A c, d \in CPU : pc[c] \in Critical /\ pc[d] \in Critical => c = d
  /\ \A c \in CPU : pc[c] \in Critical => lock = 1

(* What each processor has still to do, a call counting as done from the  *)
(* store that publishes its effect on the counter.                         *)
TookEffect(c) ==
  \/ pc[c] = "sev"
  \/ pc[c] = "unlock" /\ (Current(c).op = "wait" => reg[c] # 0)

Todo == [c \in CPU |-> IF TookEffect(c) THEN Tail(script[c]) ELSE script[c]]

Atomic == INSTANCE AtomicEvent WITH todo <- Todo

(* Every call acts on the counter as if it were one atomic step: no        *)
(* increment of send_event_common is lost, and val_wait_for_event returns  *)
(* exactly when it has taken one event that no other processor took.       *)
Linearizable == Atomic!Spec

(* No wake-up is lost in the read-then-WFE of val_wait_for_event or in the *)
(* WFE of the spinlock: in the end every call has returned, save the waits *)
(* for which no event is left.                                             *)
NoLostWakeup ==
  <>[](\A c \in CPU :
         \/ script[c] = << >>
         \/ cnt = 0 /\ pc[c] \in {"check", "wfe"})

=============================================================================
