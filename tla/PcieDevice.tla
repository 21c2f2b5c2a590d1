---------------------------- MODULE PcieDevice ----------------------------
(***************************************************************************)
(* A device that the DOE search found: its registers are operated when it  *)
(* is an exerciser, and its address ranges are read back from its BARs.    *)
(***************************************************************************)
EXTENDS PcieTable, PcieRegs

VARIABLE ranges     \* [device -> ncoh_addr_range]

dvars == <<regvars, ranges>>
vars == <<tvars, dvars>>

Dut == At(Last(found))
\* Bound: an exerciser is operated on a host that booted no secondary CPU.
Exerciser == found # <<>> /\ hw[Dut].exerciser /\ boots = 0

(* ------------------------------------------------------- address ranges *)

\* Bound: every address is below Ones.
Ones == 1023

\* What reads back after all ones were written, and the register afterwards.
pci_bar_size_helper(bar, size) ==
    [mask |-> BarReg(Ones, size), bar |-> BarReg(bar, size)]

\* val_pcie_get_bar: the probe comes first, then the address is read.
val_pcie_get_bar(f, i) ==
    LET p == pci_bar_size_helper(cfg[f].bar[i], hw[f].bars[i].size)
    IN [base |-> p.bar, top |-> p.bar + (Ones + 1 - p.mask)]

val_host_get_addr_range ==
    /\ found # <<>> /\ prog = Idle /\ chk.pc = "none" /\ ranges[Dut] = <<>>
    /\ LET n == Len(hw[Dut].bars)
       IN /\ ranges' = [ranges EXCEPT ![Dut] = [i \in 1..n |-> val_pcie_get_bar(Dut, i)]]
          /\ cfg' = [cfg EXCEPT ![Dut].bar = [i \in 1..n |->
                        pci_bar_size_helper(@[i], hw[Dut].bars[i].size).bar]]
    /\ UNCHANGED <<hw, g, stack, pcie_index, enumerate, table, created, num_bdf, found,
                   status, boots, regvars>>

(* ------------------------------------------------------------ the system *)

Init == TInit /\ RegInit /\ ranges = [f \in Fns |-> <<>>]

Next == \/ TNext /\ prog = Idle /\ chk.pc \in {"none", "done"} /\ UNCHANGED dvars
        \/ Exerciser /\ RegNext /\ UNCHANGED <<tvars, ranges>>
        \/ val_host_get_addr_range

Spec == Init /\ [][Next]_vars

(* ------------------------------------------------------------ properties *)

\* The address ranges handed on for a device are what its BARs decode, and those
\* of devices that share a bus with end points only never overlap.
RangesDisjoint ==
    \A f \in {x \in Fns : ranges[x] # <<>>} :
       /\ \A i \in 1..Len(ranges[f]) :
             ranges[f][i] = [base |-> cfg[f].bar[i],
                             top |-> cfg[f].bar[i] + hw[f].bars[i].size]
       /\ \A h \in {x \in Fns : ranges[x] # <<>>} :
             (/\ hw[f].up = hw[h].up /\ hw[f].ecam = hw[h].ecam
              /\ \A b \in Bridges : ~(hw[b].up = hw[f].up /\ hw[b].ecam = hw[f].ecam))
             => \A i \in 1..Len(ranges[f]), j \in 1..Len(ranges[h]) :
                   (<<f, i>> # <<h, j>> /\ hw[f].bars[i].pool = hw[h].bars[j].pool)
                   => \/ ranges[f][i].top <= ranges[h][j].base
                      \/ ranges[h][j].top <= ranges[f][i].base
===========================================================================
