---------------------------- MODULE SharedProofs ----------------------------
(***************************************************************************)
(* Proofs about the two services that every test shares, each for itself.  *)
(* Event, for any set of processors and any scripts: the spinlock          *)
(* excludes, and the event is linearizable.  HostAlloc, for every heap and *)
(* all requests that stay clear of the size of a word: the blocks are      *)
(* disjoint, lie in the heap and are aligned.                              *)
(***************************************************************************)
EXTENDS Event, HostAlloc, TLAPS

(* A store-exclusive whose monitor is still armed finds the lock free: any *)
(* store to the word since the load would have cleared the monitor.        *)
MonitorInv == \A c \in CPU : pc[c] = "stxr" /\ monitor[c] => lock = 0

(* The value loaded in a critical section is still the counter when it is  *)
(* used, and the call under way fits the place of the processor.           *)
CallInv ==
  \A c \in CPU :
    /\ pc[c] = "write" => reg[c] = cnt
    /\ pc[c] # "idle" => script[c] # << >>
    /\ pc[c] \in {"check", "wfe"} => Current(c).op = "wait"
    /\ pc[c] = "sev" => Current(c).op = "send"

(* MutualExclusion is not inductive by itself: the store-exclusive has to  *)
(* know that the word it overwrites is still 0.                            *)
IInv == TypeOK /\ MutualExclusion /\ MonitorInv /\ CallInv

(* The head and the tail of a non-empty script.                            *)
LEMMA ScriptParts ==
  ASSUME NEW s \in Seq(Calls), s # << >>
  PROVE  /\ Head(s) \in Calls
         /\ Tail(s) \in Seq(Calls)
         /\ Head(s).op \in {"send", "wait"}
         /\ Head(s).inc \in Nat
<1>1. Head(s) \in Calls /\ Tail(s) \in Seq(Calls)
  OBVIOUS
<1>2. ASSUME NEW x \in Calls PROVE x.op \in {"send", "wait"} /\ x.inc \in Nat
  BY IncrementsAssumption DEF Calls, SendCall, WaitCall
<1>3. QED BY <1>1, <1>2

\* Before any processor calls, no lock is held and no call is in flight, so the
\* inductive invariant holds.
LEMMA InitIInv == Init => IInv
<1> SUFFICES ASSUME Init PROVE IInv
  OBVIOUS
<1>1. TypeOK
  BY ScriptsAssumption DEF Init, TypeOK, Labels
<1>2. MutualExclusion /\ MonitorInv /\ CallInv
  BY <1>1 DEF Init, MutualExclusion, MonitorInv, CallInv, Critical
<1>3. QED BY <1>1, <1>2 DEF IInv

\* Every instruction of val_send_event, val_wait_for_event and the spinlock keeps
\* the program counters, the lock word, the monitors and the counter well typed.
LEMMA TypeStep == IInv /\ [Next]_vars => TypeOK'
<1> SUFFICES ASSUME IInv, [Next]_vars PROVE TypeOK'
  OBVIOUS
<1> USE DEF TypeOK, Labels
<1>0. TypeOK /\ CallInv
  BY DEF IInv
<1>1. CASE UNCHANGED vars
  BY <1>0, <1>1 DEF vars
<1>2. ASSUME NEW c \in CPU, Step(c) PROVE TypeOK'
  <2>1. CASE StartSend(c)
    BY <1>0, <2>1 DEF StartSend, EnterSpinLock, Goto
  <2>2. CASE StartWait(c)
    BY <1>0, <2>2 DEF StartWait, Goto
  <2>3. CASE CheckPending(c)
    BY <1>0, <2>3, Zenon DEF CheckPending, EnterSpinLock, Goto
  <2>4. CASE WaitForEvent(c)
    BY <1>0, <2>4 DEF WaitForEvent, Goto
  <2>5. CASE SpinWfe(c)
    BY <1>0, <2>5 DEF SpinWfe, Goto
  <2>6. CASE SpinLoad(c)
    BY <1>0, <2>6 DEF SpinLoad, Goto
  <2>7. CASE SpinStore(c)
    BY <1>0, <2>7, Zenon DEF SpinStore, StoreToLock, Goto
  <2>8. CASE ReadCnt(c)
    BY <1>0, <2>8 DEF ReadCnt, Goto
  <2>9. CASE AddToCnt(c)
    <3>1. Current(c).inc \in Nat
      BY <1>0, <2>9, ScriptParts DEF CallInv, AddToCnt, Current
    <3>2. QED BY <1>0, <2>9, <3>1 DEF AddToCnt, Goto
  <2>10. CASE TakeFromCnt(c)
    BY <1>0, <2>10 DEF TakeFromCnt, Goto
  <2>11. CASE Unlock(c)
    <3>1. Tail(script[c]) \in Seq(Calls)
      BY <1>0, <2>11, ScriptParts DEF CallInv, Unlock
    <3>2. QED BY <1>0, <2>11, <3>1, Zenon DEF Unlock, StoreToLock, Goto
  <2>12. CASE SendEvent(c)
    <3>1. Tail(script[c]) \in Seq(Calls)
      BY <1>0, <2>12, ScriptParts DEF CallInv, SendEvent
    <3>2. QED BY <1>0, <2>12, <3>1 DEF SendEvent, Goto
  <2>13. QED
    BY <1>2, <2>1, <2>2, <2>3, <2>4, <2>5, <2>6, <2>7, <2>8, <2>9, <2>10,
       <2>11, <2>12 DEF Step
<1>3. QED BY <1>1, <1>2 DEF Next

\* Every instruction keeps at most one processor between lock and unlock, and
\* keeps the exclusive monitor consistent with the lock word it guards.
LEMMA SafetyStep == IInv /\ [Next]_vars => (MutualExclusion /\ MonitorInv)'
<1> SUFFICES ASSUME IInv, [Next]_vars PROVE (MutualExclusion /\ MonitorInv)'
  OBVIOUS
<1> USE DEF TypeOK, MutualExclusion, MonitorInv, Critical
<1>0. TypeOK /\ MutualExclusion /\ MonitorInv
  BY DEF IInv
<1>1. CASE UNCHANGED vars
  BY <1>0, <1>1 DEF vars
<1>2. ASSUME NEW c \in CPU, Step(c) PROVE (MutualExclusion /\ MonitorInv)'
  <2>1. CASE StartSend(c)
    BY <1>0, <2>1 DEF StartSend, EnterSpinLock, Goto
  <2>2. CASE StartWait(c)
    BY <1>0, <2>2 DEF StartWait, Goto
  <2>3. CASE CheckPending(c)
    <3>1. /\ lock' = lock /\ monitor' = monitor
          /\ pc'[c] \in {"wfe", "l1"}
          /\ \A d \in CPU : d # c => pc'[d] = pc[d]
      BY <1>0, <2>3, Zenon DEF CheckPending, EnterSpinLock, Goto
    <3>2. QED BY <1>0, <3>1, Zenon
  <2>4. CASE WaitForEvent(c)
    BY <1>0, <2>4 DEF WaitForEvent, Goto
  <2>5. CASE SpinWfe(c)
    BY <1>0, <2>5 DEF SpinWfe, Goto
  <2>6. CASE SpinLoad(c)
    BY <1>0, <2>6 DEF SpinLoad, Goto
  <2>7. CASE SpinStore(c)
    <3>1. CASE monitor[c]
      <4>1. \A d \in CPU : pc[d] \notin Critical
        BY <1>0, <2>7, <3>1 DEF SpinStore
      <4>2. /\ lock' = 1
            /\ monitor' = [d \in CPU |-> FALSE]
            /\ pc' = [pc EXCEPT ![c] = "read"]
        BY <2>7, <3>1 DEF SpinStore, StoreToLock, Goto
      <4>3. MutualExclusion'
        BY <1>0, <4>1, <4>2
      <4>4. MonitorInv'
        BY <4>2
      <4>5. QED BY <4>3, <4>4
    <3>2. CASE ~monitor[c]
      <4>1. lock' = lock /\ monitor' = monitor /\ pc' = [pc EXCEPT ![c] = "l2"]
        BY <2>7, <3>2 DEF SpinStore, Goto
      <4>2. QED BY <1>0, <4>1
    <3>3. QED BY <3>1, <3>2
  <2>8. CASE ReadCnt(c)
    BY <1>0, <2>8 DEF ReadCnt, Goto
  <2>9. CASE AddToCnt(c)
    BY <1>0, <2>9 DEF AddToCnt, Goto
  <2>10. CASE TakeFromCnt(c)
    BY <1>0, <2>10 DEF TakeFromCnt, Goto
  <2>11. CASE Unlock(c)
    <3>1. /\ pc[c] = "unlock" /\ lock' = 0 /\ monitor' = [d \in CPU |-> FALSE]
          /\ pc'[c] \notin Critical
          /\ \A d \in CPU : d # c => pc'[d] = pc[d]
      BY <1>0, <2>11, Zenon DEF Unlock, StoreToLock, Goto
    <3>2. QED BY <1>0, <3>1, Zenon
  <2>12. CASE SendEvent(c)
    BY <1>0, <2>12 DEF SendEvent, Goto
  <2>13. QED
    BY <1>2, <2>1, <2>2, <2>3, <2>4, <2>5, <2>6, <2>7, <2>8, <2>9, <2>10,
       <2>11, <2>12 DEF Step
<1>3. QED BY <1>1, <1>2 DEF Next

\* Every instruction keeps the counter value read under the lock current until it
\* is written back, and each processor inside the function its call names.
LEMMA CallStep == IInv /\ [Next]_vars => CallInv'
<1> SUFFICES ASSUME IInv, [Next]_vars PROVE CallInv'
  OBVIOUS
<1> USE DEF TypeOK, MutualExclusion, CallInv, Critical, Current
<1>0. TypeOK /\ MutualExclusion /\ CallInv
  BY DEF IInv
<1>1. CASE UNCHANGED vars
  BY <1>0, <1>1 DEF vars
<1>2. ASSUME NEW c \in CPU, Step(c) PROVE CallInv'
  <2>1. CASE StartSend(c)
    BY <1>0, <2>1 DEF StartSend, EnterSpinLock, Goto
  <2>2. CASE StartWait(c)
    BY <1>0, <2>2 DEF StartWait, Goto
  <2>3. CASE CheckPending(c)
    BY <1>0, <2>3 DEF CheckPending, EnterSpinLock, Goto
  <2>4. CASE WaitForEvent(c)
    BY <1>0, <2>4 DEF WaitForEvent, Goto
  <2>5. CASE SpinWfe(c)
    BY <1>0, <2>5 DEF SpinWfe, Goto
  <2>6. CASE SpinLoad(c)
    BY <1>0, <2>6 DEF SpinLoad, Goto
  <2>7. CASE SpinStore(c)
    BY <1>0, <2>7 DEF SpinStore, Goto
  <2>8. CASE ReadCnt(c)
    BY <1>0, <2>8 DEF ReadCnt, Goto
  <2>9. CASE AddToCnt(c)
    BY <1>0, <2>9 DEF AddToCnt, Goto
  <2>10. CASE TakeFromCnt(c)
    BY <1>0, <2>10 DEF TakeFromCnt, Goto
  <2>11. CASE Unlock(c)
    BY <1>0, <2>11 DEF Unlock, Goto
  <2>12. CASE SendEvent(c)
    BY <1>0, <2>12 DEF SendEvent, Goto
  <2>13. QED
    BY <1>2, <2>1, <2>2, <2>3, <2>4, <2>5, <2>6, <2>7, <2>8, <2>9, <2>10,
       <2>11, <2>12 DEF Step
<1>3. QED BY <1>1, <1>2 DEF Next

(* The inductive invariant holds in every reachable state.                 *)
THEOREM Invariance == Spec => []IInv
<1>1. Init => IInv
  BY InitIInv
<1>2. IInv /\ [Next]_vars => IInv'
  BY TypeStep, SafetyStep, CallStep DEF IInv
<1>3. QED BY <1>1, <1>2, PTL DEF Spec

(* The lock of pal_spinlock.S excludes, for any number of processors and   *)
(* any sequences of send and wait calls.                                   *)
THEOREM LockExcludes == Spec => []MutualExclusion
<1>1. IInv => MutualExclusion
  BY DEF IInv
<1>2. QED BY <1>1, Invariance, PTL

(* The step of the detailed event is a step of the atomic one: the store   *)
(* to cnt under the lock is the point at which a call takes effect.        *)
LEMMA StepRefines == IInv /\ [Next]_vars => [Atomic!Next]_<<cnt, Todo>>
<1> SUFFICES ASSUME IInv, [Next]_vars
             PROVE  Atomic!Next \/ (cnt' = cnt /\ Todo' = Todo)
  BY DEF Atomic!Next
<1> USE DEF TypeOK, Current
<1>0. TypeOK /\ CallInv
  BY DEF IInv
<1>1. CASE UNCHANGED vars
  BY <1>1 DEF vars, Todo, TookEffect
<1>2. ASSUME NEW c \in CPU, Step(c)
      PROVE  Atomic!Next \/ (cnt' = cnt /\ Todo' = Todo)
  <2>1. CASE StartSend(c)
    BY <1>0, <2>1 DEF StartSend, EnterSpinLock, Goto, Todo, TookEffect
  <2>2. CASE StartWait(c)
    BY <1>0, <2>2 DEF StartWait, Goto, Todo, TookEffect
  <2>3. CASE CheckPending(c)
    BY <1>0, <2>3 DEF CheckPending, EnterSpinLock, Goto, Todo, TookEffect
  <2>4. CASE WaitForEvent(c)
    BY <1>0, <2>4 DEF WaitForEvent, Goto, Todo, TookEffect
  <2>5. CASE SpinWfe(c)
    BY <1>0, <2>5 DEF SpinWfe, Goto, Todo, TookEffect
  <2>6. CASE SpinLoad(c)
    BY <1>0, <2>6 DEF SpinLoad, Goto, Todo, TookEffect
  <2>7. CASE SpinStore(c)
    BY <1>0, <2>7 DEF SpinStore, Goto, Todo, TookEffect
  <2>8. CASE ReadCnt(c)
    BY <1>0, <2>8 DEF ReadCnt, Goto, Todo, TookEffect
  <2>9. CASE AddToCnt(c)
    <3>1. /\ Todo[c] = script[c] /\ script[c] # << >> /\ reg[c] = cnt
          /\ Todo' = [Todo EXCEPT ![c] = Tail(script[c])]
      BY <1>0, <2>9, Zenon DEF AddToCnt, Goto, Todo, TookEffect, CallInv
    <3>2. Atomic!Send(c)
      BY <2>9, <3>1 DEF AddToCnt, Atomic!Send
    <3>3. QED BY <3>2 DEF Atomic!Next
  <2>10. CASE TakeFromCnt(c)
    <3>1. CASE reg[c] = 0
      BY <1>0, <2>10, <3>1 DEF TakeFromCnt, Goto, Todo, TookEffect
    <3>2. CASE reg[c] # 0
      <4>1. /\ Todo[c] = script[c] /\ script[c] # << >> /\ reg[c] = cnt
            /\ Todo' = [Todo EXCEPT ![c] = Tail(script[c])]
        BY <1>0, <2>10, <3>2, Zenon
           DEF TakeFromCnt, Goto, Todo, TookEffect, CallInv
      <4>2. Atomic!Wait(c)
        BY <1>0, <2>10, <3>2, <4>1 DEF TakeFromCnt, Atomic!Wait
      <4>3. QED BY <4>2 DEF Atomic!Next
    <3>3. QED BY <3>1, <3>2
  <2>11. CASE Unlock(c)
    <3>1. /\ pc[c] = "unlock" /\ cnt' = cnt /\ reg' = reg
          /\ \A d \in CPU : d # c => pc'[d] = pc[d] /\ script'[d] = script[d]
      BY <1>0, <2>11, Zenon DEF Unlock, Goto
    <3>2. \A d \in CPU : d # c => Todo'[d] = Todo[d]
      BY <3>1 DEF Todo, TookEffect
    <3>3. Todo'[c] = Todo[c]
      <4>1. CASE Current(c).op = "send" /\ pc'[c] = "sev" /\ script'[c] = script[c]
        BY <3>1, <4>1 DEF Todo, TookEffect
      <4>2. CASE /\ Current(c).op = "wait" /\ reg[c] # 0 /\ pc'[c] = "idle"
                 /\ script'[c] = Tail(script[c])
        BY <3>1, <4>2 DEF Todo, TookEffect
      <4>3. CASE /\ Current(c).op = "wait" /\ reg[c] = 0 /\ pc'[c] = "check"
                 /\ script'[c] = script[c]
        BY <3>1, <4>3 DEF Todo, TookEffect
      <4>4. QED
        BY <1>0, <2>11, <4>1, <4>2, <4>3, Zenon DEF Unlock, Goto
    <3>4. QED
      BY <3>1, <3>2, <3>3, Zenon DEF Todo
  <2>12. CASE SendEvent(c)
    BY <1>0, <2>12 DEF SendEvent, Goto, Todo, TookEffect, CallInv
  <2>13. QED
    BY <1>2, <2>1, <2>2, <2>3, <2>4, <2>5, <2>6, <2>7, <2>8, <2>9, <2>10,
       <2>11, <2>12 DEF Step
<1>3. QED BY <1>1, <1>2 DEF Next

(* The events of val_mp_supp.c implement the atomic event, for any number  *)
(* of processors and any sequences of calls.                               *)
THEOREM EventRefines == Spec => Linearizable
<1>1. Init => Atomic!Init
  BY ScriptsAssumption DEF Init, Atomic!Init, Todo, TookEffect
<1>2. IInv /\ [Next]_vars => [Atomic!Next]_<<cnt, Todo>>
  BY StepRefines
<1>3. QED
  BY <1>1, <1>2, Invariance, PTL DEF Spec, Linearizable, Atomic!Spec
-----------------------------------------------------------------------------
(* The heap.                                                               *)

(* The heap is between HeapBase and Top, the blocks are as stated.         *)
HeapInv ==
  /\ HeapTypeOK
  /\ heap_top = Top /\ HeapBase <= heap_base
  /\ Disjoint /\ Aligned

(* A remainder is smaller than its divisor.                                *)
LEMMA ModBound ==
  ASSUME NEW y \in Nat, NEW a \in Nat, a > 0
  PROVE  y % a \in Nat /\ y % a < a
  BY SMT

(* A number below the divisor is its own remainder.                        *)
LEMMA ModSmall ==
  ASSUME NEW y \in Nat, NEW a \in Nat, y < a
  PROVE  y % a = y
  BY SMT

(* What is left after the remainder is taken off is a multiple.            *)
LEMMA ModMultiple ==
  ASSUME NEW y \in Nat, NEW a \in Nat, a > 0
  PROVE  (y - (y % a)) % a = 0
<1> DEFINE q == y \div a
           r == y % a
           m == a * q
<1>1. y = m + r
  BY SMT
<1>2. q \in Nat /\ r \in Nat
  BY SMT
<1> HIDE DEF q, r
<1>3. m % a = 0
  BY <1>2, SMTT(30)
<1>4. m \in Nat
  BY <1>2, SMT
<1> HIDE DEF m
<1>5. y - r = m
  BY <1>1, <1>2, <1>4, SMT
<1> QED BY <1>3, <1>5 DEF r

(* ADDR_ALIGN rounds up to a multiple of the alignment, by less than it.   *)
LEMMA AlignUp ==
  ASSUME NEW x \in Nat, NEW a \in Nat, a > 0, x + a < Word, Word \in Nat
  PROVE  /\ ADDR_ALIGN(x, a) \in Nat
         /\ x <= ADDR_ALIGN(x, a) /\ ADDR_ALIGN(x, a) < x + a
         /\ ADDR_ALIGN(x, a) % a = 0
<1> DEFINE y == x + a - 1
           r == y % a
<1>1. y \in Nat
  BY SMT
<1>2. r \in Nat /\ r < a
  BY <1>1, ModBound
<1>3. (y - r) \in Nat /\ x <= y - r /\ y - r < x + a /\ y - r < Word
  <2> HIDE DEF r
  <2> QED BY <1>1, <1>2, SMT DEF y
<1>4. (y - r) % Word = y - r
  <2> HIDE DEF r, y
  <2> QED BY <1>3, ModSmall
<1>5. (y - r) % a = 0
  BY <1>1, ModMultiple
<1> QED BY <1>3, <1>4, <1>5 DEF ADDR_ALIGN

(* mem_alloc keeps the invariant when its arithmetic does not wrap.        *)
LEMMA AllocKeeps ==
  ASSUME HeapInv, NEW align \in Nat, align > 0, NEW asked \in Nat,
         NEW size \in Nat, asked <= size, size < asked + align,
         Top + asked + align + align < Word, Word \in Nat,
         HeapBase \in Nat, HeapSize \in Nat,
         mem_alloc(align, size, asked)
  PROVE  HeapInv'
<1> DEFINE addr == ADDR_ALIGN(heap_base, align)
           padded == (size + (addr - heap_base)) % Word
           new == [addr |-> addr, size |-> asked, align |-> align]
<1>1. heap_base \in Nat /\ heap_base <= Top /\ Top \in Nat /\ heap_top = Top /\ HeapBase <= heap_base
  BY DEF HeapInv, HeapTypeOK, Disjoint, Top
<1>2. addr \in Nat /\ heap_base <= addr /\ addr < heap_base + align /\ addr % align = 0
  <2>1. heap_base + align < Word
    BY <1>1, SMT
  <2> QED BY <1>1, <2>1, AlignUp
<1>3. padded = size + (addr - heap_base) /\ padded \in Nat
  <2> DEFINE z == size + (addr - heap_base)
  <2>1. z \in Nat /\ z < Word
    BY <1>1, <1>2, SMT
  <2>2. z % Word = z
    <3> HIDE DEF z
    <3> QED BY <2>1, ModSmall
  <2> QED BY <2>1, <2>2
<1>4. CASE UNCHANGED heapvars
  BY <1>4 DEF heapvars, HeapInv, HeapTypeOK, Disjoint, Aligned
<1>5. CASE /\ heap_top - heap_base >= padded
           /\ heap_base' = (heap_base + padded) % Word
           /\ blocks' = blocks \cup {new} /\ UNCHANGED heap_top
  <2> DEFINE hb == heap_base + padded
  <2>1. hb \in Nat /\ hb <= Top /\ hb < Word /\ addr + asked <= hb /\ heap_base <= hb
    <3> HIDE DEF addr, padded
    <3> QED BY <1>1, <1>2, <1>3, <1>5, SMT DEF hb
  <2>2. heap_base' = hb
    <3>1. hb % Word = hb
      <4> HIDE DEF hb
      <4> QED BY <2>1, ModSmall
    <3> QED BY <3>1, <1>5
  <2> HIDE DEF addr, padded, hb
  <2>3. new \in Block
    BY <1>2 DEF Block
  <2>4. HeapTypeOK' /\ (heap_top = Top)' /\ (HeapBase <= heap_base)'
    BY <1>1, <1>5, <2>1, <2>2, <2>3, SMT DEF HeapInv, HeapTypeOK, Top
  <2>5. \A b \in blocks : b \in Block /\ HeapBase <= b.addr /\ b.addr + b.size <= heap_base
    BY DEF HeapInv, HeapTypeOK, Disjoint, Aligned
  <2>6. \A b \in blocks' : HeapBase <= b.addr /\ b.addr + b.size <= heap_base'
    BY <1>1, <1>2, <1>5, <2>1, <2>2, <2>5, SMT DEF Block
  <2>7. \A b, c \in blocks' : b # c => b.addr + b.size <= c.addr \/ c.addr + c.size <= b.addr
    <3> SUFFICES ASSUME NEW b \in blocks', NEW c \in blocks', b # c
                 PROVE  b.addr + b.size <= c.addr \/ c.addr + c.size <= b.addr
      OBVIOUS
    <3>1. CASE b \in blocks /\ c \in blocks
      BY <3>1 DEF HeapInv, Disjoint
    <3>2. CASE b = new /\ c \in blocks
      BY <3>2, <1>1, <1>2, <2>5, SMT DEF Block
    <3>3. CASE c = new /\ b \in blocks
      BY <3>3, <1>1, <1>2, <2>5, SMT DEF Block
    <3> QED BY <3>1, <3>2, <3>3, <1>5
  <2>8. Disjoint'
    BY <2>1, <2>2, <2>6, <2>7, <1>5, <1>1 DEF Disjoint
  <2>9. Aligned'
    BY <1>2, <1>5 DEF HeapInv, Aligned
  <2> QED BY <2>4, <2>8, <2>9 DEF HeapInv
<1> QED BY <1>4, <1>5 DEF mem_alloc

(* val_host_mem_alloc, when the padded size does not wrap.                 *)
LEMMA HostAllocKeeps ==
  ASSUME HeapInv, NEW align \in Nat, NEW asked \in Nat,
         Top + asked + align + align < Word,
         host_mem_alloc(align, asked)
  PROVE  HeapInv'
<1>1. Word \in Nat /\ HeapBase \in Nat /\ HeapSize \in Nat /\ PowersOf2 \subseteq Nat \ {0}
  BY HeapAssumption
<1>2. CASE UNCHANGED heapvars
  BY <1>2 DEF heapvars, HeapInv, HeapTypeOK, Disjoint, Aligned
<1>3. CASE asked > 0 /\ align \in PowersOf2 /\ mem_alloc(align, (asked + align - 1) % Word, asked)
  <2> DEFINE z == asked + align - 1
  <2>1. align > 0 /\ z \in Nat /\ z < Word
    BY <1>1, <1>3, SMT DEF Top
  <2>2. z % Word = z
    <3> HIDE DEF z
    <3> QED BY <1>1, <2>1, ModSmall
  <2>3. mem_alloc(align, z, asked)
    BY <1>3, <2>2
  <2>4. asked <= z /\ z < asked + align
    BY <2>1, SMT
  <2> HIDE DEF z
  <2> QED BY <1>1, <2>1, <2>3, <2>4, AllocKeeps
<1> QED BY <1>2, <1>3 DEF host_mem_alloc

(* Every step keeps the invariant.                                         *)
LEMMA HeapStepInv == HeapInv /\ [HeapNext]_heapvars => HeapInv'
<1> SUFFICES ASSUME HeapInv, [HeapNext]_heapvars PROVE HeapInv'
  OBVIOUS
<1>a. /\ Word \in Nat /\ HeapBase \in Nat /\ HeapSize \in Nat /\ Page \in Nat
      /\ Alignments \subseteq Nat /\ Sizes \subseteq Nat
  BY HeapAssumption
<1>1. CASE mem_alloc_init
  BY <1>1, <1>a, SMT DEF mem_alloc_init, HeapInv, HeapTypeOK, Disjoint, Aligned, Block, Top
<1>2. ASSUME NEW align \in Alignments, NEW size \in Sizes, host_mem_alloc(align, size)
      PROVE  HeapInv'
  <2>1. Top + size + align + align < Word
    BY HeapAssumption
  <2> QED BY <1>2, <1>a, <2>1, HostAllocKeeps
<1>3. ASSUME NEW n \in Counts, NEW size \in Sizes, buffer_alloc_calloc(n, size)
      PROVE  HeapInv'
  <2> DEFINE z == n * size
  <2>1. z \in Nat /\ Top + z + Page + Page < Word
    BY HeapAssumption
  <2> HIDE DEF z
  <2>2. z < Word
    BY <1>a, <2>1, SMT DEF Top
  <2>3. z % Word = z
    BY <1>a, <2>1, <2>2, ModSmall
  <2>4. host_mem_alloc(Page, z)
    BY <1>3, <2>3 DEF buffer_alloc_calloc, z
  <2> QED BY <1>a, <2>1, <2>4, HostAllocKeeps
<1>4. CASE node_alloc
  <2>1. NodeSize \in Nat /\ NodeSize > 0 /\ Top + NodeSize + NodeSize + NodeSize < Word
    BY HeapAssumption
  <2>2. NodeSize < NodeSize + NodeSize
    BY <2>1, SMT
  <2> QED BY <1>4, <1>a, <2>1, <2>2, AllocKeeps DEF node_alloc
<1>5. CASE UNCHANGED heapvars
  BY <1>5 DEF heapvars, HeapInv, HeapTypeOK, Disjoint, Aligned
<1> QED BY <1>1, <1>2, <1>3, <1>4, <1>5 DEF HeapNext, mem_free

(* The heap that val_host_mem_alloc_init sets up satisfies the invariant.  *)
LEMMA HeapInitInv == HeapInit => HeapInv
<1>1. HeapBase \in Nat /\ HeapSize \in Nat
  BY HeapAssumption
<1> QED BY <1>1, SMT DEF HeapInit, HeapInv, HeapTypeOK, Disjoint, Aligned, Block, Top

(* The blocks that val_host_mem_alloc and val_buffer_alloc_calloc hand out *)
(* in a test are disjoint and lie in the heap, for every heap and every    *)
(* sequence of requests within HeapAssumption.                             *)
THEOREM BlocksDisjoint == HeapSpec => []Disjoint
<1>1. HeapInv => Disjoint
  BY DEF HeapInv
<1> QED BY <1>1, HeapInitInv, HeapStepInv, PTL DEF HeapSpec

(* Every block they hand out is aligned as the caller asked.               *)
THEOREM BlocksAligned == HeapSpec => []Aligned
<1>1. HeapInv => Aligned
  BY DEF HeapInv
<1> QED BY <1>1, HeapInitInv, HeapStepInv, PTL DEF HeapSpec
=============================================================================
