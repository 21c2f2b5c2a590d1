----------------------------- MODULE PcieEnum -----------------------------
(***************************************************************************)
(* Enumeration of the PCIe hierarchy: pal_pcie_enumerate walks the buses   *)
(* behind every ECAM block depth first, gives each bridge its bus numbers  *)
(* and each BAR an address, and closes each bridge's memory windows on the *)
(* way back.  The hierarchy itself (hw) is hardware: it is chosen once and *)
(* answers configuration accesses by the bus numbers programmed so far.    *)
(* The recursion of pal_pcie_enumerate_device is a stack of frames.        *)
(*                                                                         *)
(* A slot is dev * MaxFunc + func.  Addresses count units of which MB make *)
(* one BAR_INCREMENT; each pool of addresses has its own start.            *)
(***************************************************************************)
EXTENDS Integers, Sequences, FiniteSets, SequencesExt

CONSTANTS Topologies,  \* the hierarchies the host may find itself on
          Root,        \* where a function without a bridge above it hangs
          Ecams,       \* the ECAM blocks: sequence of [seg, start_bus, end_bus]
          MaxDev, MaxFunc,
          MaxBus,      \* the subordinate number of a bridge being enumerated
          MB,
          Starts       \* [pool -> PLATFORM_OVERRIDE_..._VALUE]

Slots == 0..(MaxDev * MaxFunc - 1)
Pools == {"np", "p", "p64"}

VARIABLES hw,          \* the functions: [f -> [up, ecam, slot, kind, port, doe, bars]]
          cfg,         \* the writable part of their configuration space
          g,           \* the address cursors: globals of the enumerator
          stack,       \* frames of pal_pcie_enumerate_device, innermost first
          pcie_index,  \* the ECAM block in use
          enumerate

evars == <<hw, cfg, g, stack, pcie_index, enumerate>>

(* ---------------------------------------------------------------- fabric *)

Fns == DOMAIN hw

\* The platform declares the blocks up to the last that holds a function.
NumEcam == Max({hw[f].ecam : f \in Fns})

Bridges == {f \in Fns : hw[f].kind = "bridge"}

\* The bridges between a function and its root
Above(f) ==
    LET up[h \in Fns] == IF hw[h].up = Root THEN {} ELSE {hw[h].up} \cup up[hw[h].up]
    IN up[f]

Below(b) == {f \in Fns : b \in Above(f)}

Forwards(b, bus) == cfg[b].sec # 0 /\ cfg[b].sec <= bus /\ bus <= cfg[b].sub

\* The functions that answer a configuration access: those on the root bus of
\* the block, and those on the secondary bus of a bridge to which every bridge
\* above forwards.  When none does the read returns all ones.
Answers(e, bus, slot) ==
    {f \in Fns : /\ hw[f].ecam = e
                 /\ hw[f].slot = slot
                 /\ IF hw[f].up = Root
                    THEN bus = Ecams[e].start_bus
                    ELSE /\ cfg[hw[f].up].sec = bus
                         /\ \A b \in Above(f) : Forwards(b, bus)}

\* A BAR keeps the part of an address its size leaves writable.
BarReg(addr, size) == (addr \div size) * size

Floor(addr) == (addr \div MB) * MB
Closed == [base |-> 0, limit |-> 0]

Reset(f) == [pri |-> 0, sec |-> 0, sub |-> 0, command |-> FALSE,
             bar |-> [i \in 1..Len(hw[f].bars) |-> 0], np |-> Closed, p |-> Closed]

(* ----------------------------------------------------------- BAR cursors *)

\* The first BAR of a function on a known bus is put where the cursor stands.
AdvanceKnownBus(gg, bus, k, size, last) ==
    IF gg.size[k] < size /\ last # 0 THEN size ELSE last

\* One BAR of an end point.  last is the size of the BAR of the same pool that
\* this function got before, 0 if this is its first.
Advance(gg, bus, k, size, last) ==
    IF last = 0 /\ gg.bus[k] = bus
    THEN IF gg.size[k] < size THEN size ELSE gg.size[k]
    ELSE IF gg.size[k] < size /\ last # 0 THEN size ELSE last

PlaceBar(acc, bar, bus) ==
    LET k == bar.pool
        addr == acc.g.start[k] + Advance(acc.g, bus, k, bar.size, acc.last[k])
    IN [g |-> [acc.g EXCEPT !.start[k] = addr, !.size[k] = bar.size, !.bus[k] = bus],
        last |-> [acc.last EXCEPT ![k] = bar.size],
        regs |-> Append(acc.regs, BarReg(addr, bar.size))]

pal_pcie_program_bar_reg(f, bus) ==
    LET acc == FoldLeft(LAMBDA a, bar : PlaceBar(a, bar, bus),
                        [g |-> g, last |-> [k \in Pools |-> 0], regs |-> <<>>],
                        hw[f].bars)
    IN [g |-> [acc.g EXCEPT !.max = acc.g.start], regs |-> acc.regs]

\* The BARs of a bridge: every 64-bit one is given the same address.
PlaceRpBar(acc, bar) ==
    IF bar.pool = "p64"
    THEN [acc EXCEPT !.regs = Append(@, BarReg(acc.g.rp64, bar.size))]
    ELSE [g |-> [acc.g EXCEPT !.rp32 = @ + bar.size],
          regs |-> Append(acc.regs, BarReg(acc.g.rp32, bar.size))]

pal_pcie_rp_program_bar(f, gg) ==
    FoldLeft(PlaceRpBar, [g |-> gg, regs |-> <<>>], hw[f].bars)

\* Closing the 32-bit window of pool k: nothing when the cursor has not moved.
get_resource_base_32(gg, k, base, win) ==
    LET start == IF gg.start[k] % MB # 0 THEN Floor(gg.start[k]) + MB ELSE gg.start[k]
        limit == IF gg.max[k] = start THEN gg.max[k] - MB ELSE gg.max[k]
    IN IF base = gg.start[k] THEN [g |-> gg, win |-> win]
       ELSE [g |-> [gg EXCEPT !.start[k] = start],
             win |-> [win EXCEPT !.limit = Floor(limit)]]

\* The 64-bit window uses the registers of the prefetchable one.
get_resource_base_64(gg, base, win) ==
    LET start == gg.start["p64"]
        up == IF start # 0 THEN Floor(start) + MB ELSE start
    IN IF base = gg.max["p64"] \/ start > gg.max["p64"] THEN [g |-> gg, win |-> win]
       ELSE [g |-> [gg EXCEPT !.start["p64"] = Floor(up) + MB],
             win |-> [base |-> Floor(base), limit |-> Floor(gg.max["p64"])]]

(* ----------------------------------------------------------- enumeration *)

Frame(bus, sec, gg) ==
    [bus |-> bus, sec |-> sec, sub |-> bus, slot |-> 0, base |-> gg.start]

fr == Head(stack)
EndBus == Ecams[pcie_index].end_bus

\* The slots of the frame's bus still to visit that hold something to configure:
\* all-ones answers and host bridges are skipped.
Occupied ==
    {s \in Slots : /\ s >= fr.slot
                   /\ fr.bus # EndBus + 1
                   /\ \E f \in Answers(pcie_index, fr.bus, s) : hw[f].kind # "host"}

NextSlot == CHOOSE s \in Occupied : \A t \in Occupied : s <= t
Visited(slot) == CHOOSE f \in Answers(pcie_index, fr.bus, slot) : TRUE

EInit ==
    /\ hw \in Topologies
    /\ cfg = [f \in Fns |-> Reset(f)]
    /\ g = [start |-> [k \in Pools |-> Starts[k]], max |-> [k \in Pools |-> 0], size |-> [k \in Pools |-> 0],
            bus |-> [k \in Pools |-> 0], rp32 |-> Starts.rp32, rp64 |-> Starts.rp64]
    /\ pcie_index = 1
    /\ enumerate = TRUE
    /\ stack = <<Frame(Ecams[1].start_bus, Ecams[1].start_bus + 1, g)>>

\* A bridge: open its windows at the cursors, let it forward everything above
\* the new secondary bus, and enumerate that bus.
EnumerateBridge ==
    /\ stack # <<>> /\ Occupied # {}
    /\ LET f == Visited(NextSlot)
       IN /\ hw[f].kind = "bridge"
          /\ cfg' = [cfg EXCEPT ![f] =
                        [@ EXCEPT !.command = TRUE, !.pri = fr.bus, !.sec = fr.sec,
                                  !.sub = MaxBus,
                                  !.np = [base |-> Floor(g.start["np"]), limit |-> 0],
                                  !.p = [base |-> Floor(g.start["p"]), limit |-> 0]]]
          /\ stack' = <<Frame(fr.sec, fr.sec + 1, g), [fr EXCEPT !.slot = NextSlot]>>
                      \o Tail(stack)
    /\ UNCHANGED <<hw, g, pcie_index, enumerate>>

\* An end point: give its BARs their addresses.
EnumerateDevice ==
    /\ stack # <<>> /\ Occupied # {}
    /\ LET f == Visited(NextSlot)
           p == pal_pcie_program_bar_reg(f, fr.bus)
       IN /\ hw[f].kind = "device"
          /\ g' = p.g
          /\ cfg' = [cfg EXCEPT ![f].bar = p.regs]
          /\ stack' = <<[fr EXCEPT !.sub = fr.sec - 1, !.slot = NextSlot + 1]>> \o Tail(stack)
    /\ UNCHANGED <<hw, pcie_index, enumerate>>

\* The bridge's own secondary number is used again for the next bridge.
SameSec(sub) == sub

\* The next free bus number, after a bridge whose last bus is sub
NextSec(sub) == sub + 1

\* The bus below a bridge is done: its subordinate number is known, its windows
\* are closed and its own BARs programmed.
EnumerateReturn ==
    /\ Len(stack) > 1 /\ Occupied = {}
    /\ LET par == stack[2]
           f == CHOOSE h \in Answers(pcie_index, par.bus, par.slot) : TRUE
           np == get_resource_base_32(g, "np", par.base["np"], cfg[f].np)
           p == get_resource_base_32(np.g, "p", par.base["p"], cfg[f].p)
           w == get_resource_base_64(p.g, par.base["p64"], p.win)
           rp == pal_pcie_rp_program_bar(f, w.g)
       IN /\ cfg' = [cfg EXCEPT ![f] = [@ EXCEPT !.sub = fr.sub, !.np = np.win,
                                                 !.p = w.win, !.bar = rp.regs]]
          /\ g' = rp.g
          /\ stack' = <<[par EXCEPT !.sec = NextSec(fr.sub), !.sub = fr.sub, !.slot = @ + 1,
                                    !.base = rp.g.start]>> \o SubSeq(stack, 3, Len(stack))
    /\ UNCHANGED <<hw, pcie_index, enumerate>>

\* pal_clear_pri_bus, from bus 0 to the end of the block
ClearPri ==
    [f \in Fns |->
        IF f \in Bridges /\ \E b \in 0..EndBus : f \in Answers(pcie_index, b, hw[f].slot)
        THEN [cfg[f] EXCEPT !.pri = 0] ELSE cfg[f]]

\* The root bus of a block is done: on to the next block.
EnumerateBlock ==
    /\ Len(stack) = 1 /\ Occupied = {}
    /\ cfg' = ClearPri
    /\ LET last == pcie_index = NumEcam
           next == Ecams[pcie_index + 1].start_bus
       IN /\ stack' = IF last THEN <<>> ELSE <<Frame(next, next + 1, g)>>
          /\ pcie_index' = IF last THEN 1 ELSE pcie_index + 1
          /\ enumerate' = (enumerate /\ ~last)
    /\ UNCHANGED <<hw, g>>

\* A secondary CPU runs val_host_main from its start: on a host built with the
\* device tests it enumerates again, over the bus numbers programmed before and
\* from where the cursors stand.  Bound: one block.  With two, pal_pci_cfg_read,
\* which now sets pcie_index itself, takes the loop over the blocks back.
Reenumerate ==
    /\ stack = <<>> /\ ~enumerate /\ NumEcam = 1
    /\ stack' = <<Frame(Ecams[1].start_bus, Ecams[1].start_bus + 1, g)>>
    /\ UNCHANGED <<hw, cfg, g, pcie_index, enumerate>>

Enumerate == EnumerateBridge \/ EnumerateDevice \/ EnumerateReturn \/ EnumerateBlock

(* ------------------------------------------------------------ properties *)

\* The bus a function sits on, by the programmed numbers
BusOf(f) == IF hw[f].up = Root THEN Ecams[hw[f].ecam].start_bus ELSE cfg[hw[f].up].sec

\* While a bus is walked no two bridges side by side claim it, not even during a
\* second enumeration over old bus numbers, and at most one function answers a
\* configuration address: no access of the walk reaches two functions.  After each
\* enumeration the bus numbers mirror the hierarchy: each function answers on its
\* own bus, inside its block, and a bridge's range holds the buses of exactly the
\* functions below it.
BusTree ==
    /\ \A e \in 1..NumEcam, s \in Slots :
          \A b \in Ecams[e].start_bus..Ecams[e].end_bus : Cardinality(Answers(e, b, s)) <= 1
    /\ stack # <<>> =>
          \A b, c \in Bridges : /\ b # c /\ hw[b].up = hw[c].up /\ hw[b].ecam = hw[c].ecam
                                /\ hw[b].ecam = pcie_index
                               => ~(Forwards(b, fr.bus) /\ Forwards(c, fr.bus))
    /\ stack = <<>> =>
       /\ \A f \in Fns : /\ f \in Answers(hw[f].ecam, BusOf(f), hw[f].slot)
                         /\ BusOf(f) <= Ecams[hw[f].ecam].end_bus
       /\ \A b \in Bridges :
             /\ cfg[b].pri = 0
             /\ \A f \in Fns \ {b} : hw[f].ecam = hw[b].ecam =>
                   (f \in Below(b) <=> cfg[b].sec <= BusOf(f) /\ BusOf(f) <= cfg[b].sub)
===========================================================================
