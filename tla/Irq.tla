-------------------------------- MODULE Irq --------------------------------
(***************************************************************************)
(* Interrupts: the handler tables of pal_irq.c, the GICv3 driver under     *)
(* them and the dispatcher every vector ends in.  A test registers a       *)
(* handler, enables the interrupt, later disables it and unregisters the   *)
(* handler; other CPUs do the same, and interrupts arrive in between.      *)
(*                                                                         *)
(* A line is what the GIC and the tables keep one entry for: an SPI is one *)
(* line of the system, a private one, PPI or SGI, one line per CPU.  All   *)
(* interrupts have one priority: while one is active on a CPU no other is  *)
(* signalled to it.  The image is the host's (ns) or a realm's (realm),    *)
(* whose GIC is virtual.                                                   *)
(***************************************************************************)
EXTENDS Integers, FiniteSets

CONSTANTS Cpus, Primary, Spis, Privates, Null, Spurious,
          MaxCalls,   \* bound: calls the tests make
          MaxRaises   \* bound: interrupts that devices raise

\* A line is a pair, and an SPI's starts with "spi" where a private one has its CPU.
ASSUME IrqAssumption ==
    /\ Primary \in Cpus /\ "spi" \notin Cpus /\ Null \notin Cpus
    /\ Spis \cap Privates = {}
    /\ Spurious \notin ({"spi"} \X Spis) \cup (Cpus \X Privates)

Irqs == Spis \cup Privates
Lines == {<<"spi", i>> : i \in Spis} \cup (Cpus \X Privates)

VARIABLES image,
          handler,    \* [line -> registered handler or Null]
          lock,       \* the holder of spi_lock, Null when free
          enabled, pending,
          active,     \* set of <<line, CPU that acknowledged it>>
          route,      \* GICD_IROUTER: [SPI -> CPU]
          g1ns,       \* GICD_CTLR forwards group 1 of the non-secure world
          masked,     \* PSTATE.I of each CPU
          call,       \* [CPU -> the call its test is in]
          frame,      \* [CPU -> the dispatcher on top of it]
          left,       \* those of active whose dispatcher returned without completing them
          halted,     \* an assertion ended the simulation
          calls, raises

irqvars == <<image, handler, lock, enabled, pending, active, route, g1ns, masked, call, frame,
          left, halted, calls, raises>>

gicvars == <<enabled, pending, active, route, g1ns>>

Idle == [pc |-> "idle"]
NoFrame == [st |-> "none"]

(* -------------------------------------------------------------- the tables *)

\* One entry for all CPUs: the index of the calling CPU is forgotten.
BankForgotten(c, i) == IF i \in Spis THEN <<"spi", i>> ELSE <<Primary, i>>

get_irq_handler(c, i) == IF i \in Spis THEN <<"spi", i>> ELSE <<c, i>>

(* ---------------------------------------------------------- the GIC driver *)

\* gicv3_probe_redistif_addr has run on the CPU: pal_irq_setup is called on the
\* primary CPU of the host only.
Probed(c) == c = Primary

\* The affinity an SPI or SGI for c is sent to.  An entry never filled is zero, the
\* affinity of the primary CPU; only entry 0 starts as UINT64_MAX.
mpidr_list(c) == IF Probed(c) THEN c ELSE Primary

\* The CPU interface takes interrupts.
igrpen1(c) == image = "realm" \/ Probed(c)

Line(c, i) == IF i \in Spis THEN <<"spi", i>> ELSE <<c, i>>

\* The registers of a private interrupt are in the CPU's redistributor: an access
\* without it fails an assertion.
HasRegister(c, i) == i \in Spis \/ Probed(c)

gicv3_set_isenabler(c, i) == enabled' = enabled \cup {Line(c, i)}
gicv3_set_icenabler(c, i) == enabled' = enabled \ {Line(c, i)}
gicv3_set_intr_route(c, i) == route' = [route EXCEPT ![i] = mpidr_list(c)]
gicv3_send_sgi(i, d) == pending' = pending \cup {<<mpidr_list(d), i>>}

Target(l) == IF l[1] = "spi" THEN route[l[2]] ELSE l[1]

\* The lines the GIC would signal to c but for one that is active there
Waiting(c) == {l \in pending \cap enabled : Target(l) = c /\ igrpen1(c) /\ g1ns}

Signalled(c) ==
    IF \E a \in active : a[2] = c THEN {} ELSE {l \in Waiting(c) : \A a \in active : a[1] # l}

(* ----------------------------------------------------------- calls of tests *)

CanCall(c) == /\ ~halted /\ call[c] = Idle /\ frame[c] = NoFrame /\ calls < MaxCalls

\* pal_assert ends the simulation.
Halt == halted' = TRUE /\ UNCHANGED <<gicvars, masked, call>>

\* SPI handlers are changed without the lock.
NeverLocks(i) == FALSE

TakesLock(i) == i \in Spis

\* pal_irq_register_handler and, with h Null, pal_irq_unregister_handler.  The test of
\* each CPU has one handler, named after the CPU.
UpdateStart(c, i, h) ==
    /\ CanCall(c)
    /\ call' = [call EXCEPT ![c] = [pc |-> IF TakesLock(i) THEN "lock" ELSE "check",
                                    i |-> i, h |-> h]]
    /\ calls' = calls + 1
    /\ UNCHANGED <<image, handler, lock, gicvars, masked, frame, left, halted, raises>>

\* A step of the call c is in: its vector is not on top.
InCall(c, pc) == ~halted /\ frame[c] = NoFrame /\ call[c].pc = pc

UpdateLock(c) ==
    /\ InCall(c, "lock") /\ lock = Null
    /\ lock' = c
    /\ call' = [call EXCEPT ![c].pc = "check"]
    /\ UNCHANGED <<image, handler, gicvars, masked, frame, left, halted, calls, raises>>

\* A handler where none is expected, or none where one is, fails an assertion.
UpdateCheck(c) ==
    /\ InCall(c, "check")
    /\ LET valid == (handler[get_irq_handler(c, call[c].i)] = Null) = (call[c].h # Null)
       IN \/ valid /\ call' = [call EXCEPT ![c].pc = "write"] /\ UNCHANGED halted
          \/ ~valid /\ halted' = TRUE /\ UNCHANGED call
    /\ UNCHANGED <<image, handler, lock, gicvars, masked, frame, left, calls, raises>>

UpdateWrite(c) ==
    /\ InCall(c, "write")
    /\ handler' = [handler EXCEPT ![get_irq_handler(c, call[c].i)] = call[c].h]
    /\ call' = [call EXCEPT ![c] = IF TakesLock(@.i) THEN [@ EXCEPT !.pc = "unlock"] ELSE Idle]
    /\ UNCHANGED <<image, lock, gicvars, masked, frame, left, halted, calls, raises>>

UpdateUnlock(c) ==
    /\ InCall(c, "unlock")
    /\ lock' = Null
    /\ call' = [call EXCEPT ![c] = Idle]
    /\ UNCHANGED <<image, handler, gicvars, masked, frame, left, halted, calls, raises>>

\* pal_irq_enable: mask, route an SPI to the caller ...
EnableStart(c, i) ==
    /\ CanCall(c) /\ image = "ns"
    /\ IF ~HasRegister(c, i) THEN Halt
       ELSE /\ masked' = [masked EXCEPT ![c] = TRUE]
            /\ IF i \in Spis THEN gicv3_set_intr_route(c, i) ELSE UNCHANGED route
            /\ call' = [call EXCEPT ![c] = [pc |-> "enable", i |-> i]]
            /\ UNCHANGED <<enabled, pending, active, g1ns, halted>>
    /\ calls' = calls + 1
    /\ UNCHANGED <<image, handler, lock, frame, left, raises>>

\* ... then enable the interrupt and unmask.
EnableFinish(c) ==
    /\ InCall(c, "enable")
    /\ gicv3_set_isenabler(c, call[c].i)
    /\ masked' = [masked EXCEPT ![c] = FALSE]
    /\ call' = [call EXCEPT ![c] = Idle]
    /\ UNCHANGED <<image, handler, lock, pending, active, route, g1ns, frame, left, halted,
                   calls, raises>>

pal_irq_disable(c, i) ==
    /\ CanCall(c) /\ image = "ns"
    /\ IF ~HasRegister(c, i) THEN Halt
       ELSE /\ gicv3_set_icenabler(c, i)
            /\ UNCHANGED <<pending, active, route, g1ns, masked, call, halted>>
    /\ calls' = calls + 1
    /\ UNCHANGED <<image, handler, lock, frame, left, raises>>

pal_send_sgi(c, i, d) ==
    /\ CanCall(c) /\ image = "ns"
    /\ gicv3_send_sgi(i, d)
    /\ masked' = [masked EXCEPT ![c] = FALSE]
    /\ calls' = calls + 1
    /\ UNCHANGED <<image, handler, lock, enabled, active, route, g1ns, call, frame, left,
                   halted, raises>>

\* A realm's test completes the interrupt itself.
pal_gic_end_of_intr(c, i) ==
    /\ CanCall(c) /\ image = "realm"
    /\ active' = active \ {<<Line(c, i), c>>}
    /\ left' = left \ {<<Line(c, i), c>>}
    /\ calls' = calls + 1
    /\ UNCHANGED <<image, handler, lock, enabled, pending, route, g1ns, masked, call, frame,
                   halted, raises>>

\* The secure image configures its watchdog: the group of the host's interrupts is
\* disabled at the distributor and stays so.
gicv3_configure_secure_gic_intr_enable(c) ==
    /\ CanCall(c) /\ image = "ns" /\ c = Primary /\ g1ns
    /\ g1ns' = FALSE
    /\ calls' = calls + 1
    /\ UNCHANGED <<image, handler, lock, enabled, pending, active, route, masked, call, frame,
                   left, halted, raises>>

(* ----------------------------------------------------------- the dispatcher *)

\* External: a device raises its line, or the host queues an interrupt for the realm.
Raise(l) ==
    /\ ~halted /\ raises < MaxRaises /\ l \notin pending
    /\ pending' = pending \cup {l}
    /\ raises' = raises + 1
    /\ UNCHANGED <<image, handler, lock, enabled, active, route, g1ns, masked, call, frame,
                   left, halted, calls>>

\* The processor takes the exception, which masks interrupts.
TakeIrq(c) ==
    /\ ~halted /\ ~masked[c] /\ frame[c] = NoFrame /\ Signalled(c) # {}
    /\ frame' = [frame EXCEPT ![c] = [st |-> "ack"]]
    /\ masked' = [masked EXCEPT ![c] = TRUE]
    /\ UNCHANGED <<image, handler, lock, gicvars, call, left, halted, calls, raises>>

\* A step of the dispatcher on c, to frame f
InFrame(c, st, f) ==
    /\ ~halted /\ frame[c].st = st
    /\ frame' = [frame EXCEPT ![c] = f]
    /\ masked' = [masked EXCEPT ![c] = f # NoFrame]
    /\ UNCHANGED <<image, lock, enabled, route, g1ns, call, halted, calls, raises>>

\* The line may be gone again: then the acknowledge returns the spurious number.
Acknowledge(c) ==
    \/ \E l \in Signalled(c) :
          /\ InFrame(c, "ack", [st |-> "check", line |-> l])
          /\ pending' = pending \ {l}
          /\ active' = active \cup {<<l, c>>}
          /\ UNCHANGED <<handler, left>>
    \/ /\ Signalled(c) = {}
       /\ InFrame(c, "ack", [st |-> "check", line |-> Spurious])
       /\ UNCHANGED <<handler, pending, active, left>>

\* The table entry the dispatcher looks up; no one registers a spurious handler.
Entry(c) == LET l == frame[c].line
            IN IF l = Spurious THEN Null ELSE handler[get_irq_handler(c, l[2])]

\* Without a handler the dispatcher returns an error and completes nothing.
CheckHandler(c) ==
    /\ frame[c].st = "check"
    /\ \/ /\ Entry(c) # Null
          /\ InFrame(c, "check", [frame[c] EXCEPT !.st = "call"])
          /\ UNCHANGED left
       \/ /\ Entry(c) = Null
          /\ InFrame(c, "check", NoFrame)
          /\ left' = IF frame[c].line = Spurious THEN left ELSE left \cup {<<frame[c].line, c>>}
    /\ UNCHANGED <<handler, pending, active>>

\* A call through a null pointer faults; the handler of the fault never returns.
default_sync_current_exception == "crashed"

\* The entry is read again for the call.
CallHandler(c) ==
    /\ frame[c].st = "call"
    /\ InFrame(c, "call",
                [frame[c] EXCEPT !.st = IF Entry(c) = Null
                                        THEN default_sync_current_exception ELSE "eoi"])
    /\ UNCHANGED <<handler, pending, active, left>>

\* The line stays active.
NoEoi(c) ==
    /\ frame[c].st = "eoi"
    /\ InFrame(c, "eoi", NoFrame)
    /\ UNCHANGED <<handler, pending, active, left>>

EndOfIntr(c) ==
    /\ frame[c].st = "eoi"
    /\ InFrame(c, "eoi", NoFrame)
    /\ active' = IF image = "realm" THEN active ELSE active \ {<<frame[c].line, c>>}
    /\ left' = IF image = "realm" THEN left \cup {<<frame[c].line, c>>} ELSE left
    /\ UNCHANGED <<handler, pending>>

(* --------------------------------------------------------------- the system *)

IrqInit ==
    /\ image \in {"ns", "realm"}
    /\ handler = [l \in Lines |-> Null]
    /\ lock = Null
    /\ enabled = IF image = "realm" THEN Lines ELSE {}
    /\ pending = {} /\ active = {} /\ left = {}
    /\ route \in [Spis -> IF image = "realm" THEN Cpus ELSE {Primary}]
    /\ g1ns = TRUE
    /\ masked = [c \in Cpus |-> image = "ns"]
    /\ call = [c \in Cpus |-> Idle]
    /\ frame = [c \in Cpus |-> NoFrame]
    /\ halted = FALSE
    /\ calls = 0 /\ raises = 0

Calls(c) ==
    \/ \E i \in Irqs : \/ \E h \in {c, Null} : UpdateStart(c, i, h)
                       \/ EnableStart(c, i)
                       \/ pal_irq_disable(c, i)
                       \/ pal_gic_end_of_intr(c, i)
    \/ \E i \in Privates, d \in Cpus : pal_send_sgi(c, i, d)
    \/ gicv3_configure_secure_gic_intr_enable(c)

\* What a CPU does next in the call or the dispatcher it is in
Step(c) == \/ UpdateLock(c) \/ UpdateCheck(c) \/ UpdateWrite(c) \/ UpdateUnlock(c)
           \/ EnableFinish(c)
           \/ Acknowledge(c) \/ CheckHandler(c) \/ CallHandler(c) \/ EndOfIntr(c)

IrqNext == \/ \E c \in Cpus : Calls(c) \/ Step(c) \/ TakeIrq(c)
        \/ \E l \in Lines : Raise(l)

\* A CPU goes on with what it is in, and takes an interrupt that stays signalled.
Fairness == \A c \in Cpus : WF_irqvars(Step(c)) /\ WF_irqvars(TakeIrq(c))

IrqSpec == IrqInit /\ [][IrqNext]_irqvars /\ Fairness

(* --------------------------------------------------------------- properties *)

\* A registered handler is only ever taken out, never replaced: of two CPUs that
\* register one for the same SPI at the same time, the second fails its assertion.
HandlersKept ==
    [][\A l \in Lines : handler[l] # Null => handler'[l] \in {handler[l], Null}]_irqvars

\* A CPU is sent through a null handler only for an SPI, whose handler another CPU
\* unregistered after the dispatcher had looked: never for a line of its own, whatever
\* the other CPUs do.  A line is active only while it is dispatched, or because it had no
\* handler, or, in a realm, until the test completes it.
DispatchSound ==
    \A c \in Cpus :
       /\ frame[c].st = "crashed" => frame[c].line[1] = "spi"
       /\ \A l \in Lines : <<l, c>> \in active =>
             \/ frame[c].st \in {"check", "call", "eoi", "crashed"} /\ frame[c].line = l
             \/ <<l, c>> \in left

\* On the host an interrupt that is enabled and pending for a CPU with interrupts
\* unmasked is acknowledged, unless it is disabled or routed elsewhere, the secure
\* image turns its group off, or the CPU is lost: it crashed, or was left with an
\* active line that had no handler.
IrqServed ==
    \A c \in Cpus, l \in Lines :
       (image = "ns" /\ l \in Waiting(c) /\ ~masked[c])
       ~> \/ l \notin Waiting(c)
          \/ halted \/ frame[c].st = "crashed" \/ \E k \in Lines : <<k, c>> \in left
============================================================================
