----------------------------- MODULE PcieTable -----------------------------
(***************************************************************************)
(* What the host knows of the PCIe hierarchy once it is enumerated: the    *)
(* table of functions with their root ports, the questions val_host_pcie.c *)
(* answers from that table and from the bus-number registers, and the      *)
(* search for devices with a DOE mailbox on which every device-assignment  *)
(* test starts.  Functions are named by <<segment, bus, slot>>, the BDF.   *)
(***************************************************************************)
EXTENDS PcieEnum

VARIABLES table,     \* g_pcie_bdf_table: sequence of [bdf, rp_bdf]
          created,
          num_bdf,   \* the caller's count of entries still to search
          found,     \* the devices the searches of this caller returned
          status,    \* what the last search returned
          boots

CONSTANT MaxBoots    \* bound: secondary CPUs booted

tvars == <<hw, cfg, g, stack, pcie_index, enumerate, table, created, num_bdf, found, status,
           boots>>

NoBdf == <<-1, -1, -1>>    \* 0xffffffff: an integrated end point has no root port
ZeroBdf == <<0, 0, 0>>

(* ------------------------------------------------------ config accesses *)

\* val_pcie_read_cfg: the block of the segment that holds the bus; the function
\* that answers there.  The set is empty when the read returns all ones.
EcamsOf(bdf) ==
    {e \in 1..NumEcam : /\ Ecams[e].seg = bdf[1]
                        /\ Ecams[e].start_bus <= bdf[2] /\ bdf[2] <= Ecams[e].end_bus}

val_pcie_read_cfg(bdf) ==
    LET es == EcamsOf(bdf)
    IN IF es = {} THEN {}
       ELSE Answers(CHOOSE e \in es : \A d \in es : e <= d, bdf[2], bdf[3])

At(bdf) == CHOOSE f \in val_pcie_read_cfg(bdf) : TRUE

val_pcie_is_host_bridge(bdf) == hw[At(bdf)].kind = "host"

\* val_pcie_find_capability for the PCI Express capability: a function without
\* one is a legacy PCI function.
HasPcieCap(bdf) == hw[At(bdf)].port # "legacy"

val_pcie_device_port_type(bdf) == hw[At(bdf)].port

Type0(bdf) == hw[At(bdf)].kind # "bridge"

Sec(bdf) == cfg[At(bdf)].sec
Sub(bdf) == cfg[At(bdf)].sub

(* ------------------------------------------------------- the table *)

\* All BDFs of a block in the order of the three nested scans
BlockBdfs(e) ==
    LET n == MaxDev * MaxFunc
    IN [i \in 1..((Ecams[e].end_bus - Ecams[e].start_bus + 1) * n) |->
           <<Ecams[e].seg, Ecams[e].start_bus + ((i - 1) \div n), (i - 1) % n>>]

AllBdfs == FlattenSeq([e \in 1..NumEcam |-> BlockBdfs(e)])

Listed(bdf) == /\ val_pcie_read_cfg(bdf) # {}
               /\ ~val_pcie_is_host_bridge(bdf)
               /\ HasPcieCap(bdf)

\* The range test stops one bus short.
CoversShort(rp, bdf) == /\ val_pcie_device_port_type(rp) = "RP"
                        /\ Sec(rp) <= bdf[2] /\ bdf[2] < Sub(rp)
                        /\ rp[1] = bdf[1]

Covers(rp, bdf) == /\ val_pcie_device_port_type(rp) = "RP"
                   /\ Sec(rp) <= bdf[2] /\ bdf[2] <= Sub(rp)
                   /\ rp[1] = bdf[1]

\* The root port of a function: itself for a root port, none for an integrated
\* end point, else the first root port of the table whose range covers the bus.
val_pcie_get_rootport(bdfs, bdf) ==
    LET dp_type == val_pcie_device_port_type(bdf)
        covering == {i \in 1..Len(bdfs) : Covers(bdfs[i], bdf)}
    IN IF dp_type = "RP" THEN [status |-> 0, rp_bdf |-> bdf]
       ELSE IF dp_type \in {"RCiEP", "RCEC"} THEN [status |-> 1, rp_bdf |-> NoBdf]
       ELSE IF covering = {} THEN [status |-> 1, rp_bdf |-> ZeroBdf]
       ELSE [status |-> 0,
             rp_bdf |-> bdfs[CHOOSE i \in covering : \A j \in covering : i <= j]]

\* val_pcie_create_device_bdf_table with val_pcie_populate_device_rootport
CreateTable ==
    /\ stack = <<>> /\ ~created
    /\ LET bdfs == SelectSeq(AllBdfs, Listed)
       IN table' = [i \in 1..Len(bdfs) |->
                       [bdf |-> bdfs[i],
                        rp_bdf |-> val_pcie_get_rootport(bdfs, bdfs[i]).rp_bdf]]
    /\ created' = TRUE
    /\ UNCHANGED <<evars, num_bdf, found, status, boots>>

\* A secondary CPU boots while the test on the primary one waits for it.  The
\* test that boots one runs before those that search for devices.
SecondaryBoot ==
    /\ created /\ status = "none" /\ num_bdf = 0 /\ boots < MaxBoots
    /\ Reenumerate
    /\ created' = FALSE
    /\ boots' = boots + 1
    /\ UNCHANGED <<table, num_bdf, found, status>>

(* ---------------------------------------------------- the DOE search *)

\* val_pcie_get_num_bdf: a test starts its search at the top of the table.
StartSearch ==
    /\ created /\ table # <<>>
    /\ num_bdf' = Len(table)
    /\ found' = <<>>
    /\ status' = "none"
    /\ UNCHANGED <<evars, table, created, boots>>

\* An entry that can become a physical device: function 0, an end point with a
\* root port or an integrated one, with the DOE extended capability
HasDoe(ent) ==
    /\ ent.bdf[3] % MaxFunc = 0
    /\ val_pcie_device_port_type(ent.bdf) \in {"EP", "RCiEP"}
    /\ ~(val_pcie_device_port_type(ent.bdf) = "EP" /\ ent.rp_bdf = ZeroBdf)
    /\ hw[At(ent.bdf)].doe

\* An off-by-one that passes over the first of the remaining entries
IdxPast == Len(table) - num_bdf + 2

\* The index of the entry num_bdf counts from
Idx == Len(table) - num_bdf + 1

\* val_pcie_find_doe_capability consumes entries until one qualifies.
FindDoe ==
    /\ created /\ num_bdf # 0
    /\ LET hits == {i \in 1..Len(table) : i >= Idx /\ HasDoe(table[i])}
           hit == CHOOSE i \in hits : \A j \in hits : i <= j
       IN \/ /\ hits # {}
             /\ num_bdf' = Len(table) - hit
             /\ found' = Append(found, table[hit].bdf)
             /\ status' = "success"
          \/ /\ hits = {}
             /\ num_bdf' = 0
             /\ status' = "error"
             /\ UNCHANGED found
    /\ UNCHANGED <<evars, table, created, boots>>

(* -------------------------------------- questions about the hierarchy *)

Bdfs == [i \in 1..Len(table) |-> table[i].bdf]

First(seq, Test(_)) ==
    LET hits == {i \in 1..Len(seq) : Test(seq[i])}
    IN IF hits = {} THEN NoBdf ELSE seq[CHOOSE i \in hits : \A j \in hits : i <= j]

\* The first type 0 function behind a bridge, else the first type 1 function
val_pcie_get_downstream_function(bdf) ==
    LET inside(b) == Sec(bdf) <= b[2] /\ b[2] <= Sub(bdf) /\ b[1] = bdf[1]
        inside0(b) == inside(b) /\ Type0(b)
        d0 == First(Bdfs, inside0)
    IN IF d0 # NoBdf THEN d0 ELSE First(Bdfs, inside)

\* The root port whose secondary bus is the function's bus
val_pcie_parent_is_rootport(bdf) ==
    LET parent(b) == /\ val_pcie_device_port_type(b) = "RP"
                     /\ bdf[2] = Sec(b) /\ bdf[2] <= Sub(b)
    IN First(Bdfs, parent)

\* The block of a function: by its bus, and for a bridge by its range too
val_pcie_get_ecam_index(bdf) ==
    {e \in EcamsOf(bdf) : Type0(bdf) \/ (/\ Sec(bdf) >= Ecams[e].start_bus
                                        /\ Sub(bdf) <= Ecams[e].end_bus)}

\* The block whose base is returned: only the segment counts for a type 0 function.
val_pcie_get_ecam_base(bdf) ==
    LET holds(e) == Sec(bdf) >= Ecams[e].start_bus /\ Sub(bdf) <= Ecams[e].end_bus
        es == {e \in 1..NumEcam : Ecams[e].seg = bdf[1] /\ (Type0(bdf) \/ holds(e))}
    IN IF es = {} THEN 0 ELSE CHOOSE e \in es : \A d \in es : e <= d

\* The next BDF in scan order, ZeroBdf after the last
val_pcie_increment_bdf(bdf) ==
    LET same == {e \in 1..NumEcam : Ecams[e].seg = bdf[1]}
        e == CHOOSE x \in same : \A y \in same : y <= x
        func == bdf[3] % MaxFunc
        dev == bdf[3] \div MaxFunc
    IN IF same = {} THEN ZeroBdf
       ELSE IF func < MaxFunc - 1 THEN <<bdf[1], bdf[2], bdf[3] + 1>>
       ELSE IF dev < MaxDev - 1 THEN <<bdf[1], bdf[2], (dev + 1) * MaxFunc>>
       ELSE IF bdf[2] < Ecams[e].end_bus THEN <<bdf[1], bdf[2] + 1, 0>>
       ELSE IF e + 1 <= NumEcam THEN <<Ecams[e + 1].seg, Ecams[e + 1].start_bus, 0>>
       ELSE ZeroBdf

(* ----------------------------------------------------------- the system *)

TInit == /\ EInit
         /\ table = <<>>
         /\ created = FALSE
         /\ num_bdf = 0
         /\ found = <<>>
         /\ status = "none"
         /\ boots = 0

TNext == \/ Enumerate /\ UNCHANGED <<table, created, num_bdf, found, status, boots>>
         \/ SecondaryBoot
         \/ CreateTable
         \/ StartSearch
         \/ FindDoe

(* ----------------------------------------------------------- properties *)

BdfOf(f) == <<Ecams[hw[f].ecam].seg, BusOf(f), hw[f].slot>>

\* The port at the root of the hierarchy of a function
TrueRoot(f) ==
    LET rps == {b \in Above(f) : hw[b].port = "RP"}
    IN IF hw[f].port = "RP" THEN BdfOf(f)
       ELSE IF hw[f].port \in {"RCiEP", "RCEC"} THEN NoBdf
       ELSE IF rps = {} THEN ZeroBdf
       ELSE BdfOf(CHOOSE b \in rps : TRUE)

\* A function that can become a physical device: function 0 of its device, an end
\* point that hangs under a root port or an integrated one, with a DOE mailbox
Assignable(f) == /\ hw[f].slot % MaxFunc = 0
                 /\ \/ hw[f].port = "EP" /\ \E b \in Above(f) : hw[b].port = "RP"
                    \/ hw[f].port = "RCiEP"
                 /\ hw[f].doe

\* The searches of one caller return every device that has a DOE mailbox and can
\* be assigned, in table order, none twice and none passed over; the error comes
\* only after the last.
DoeEachOnce ==
    LET assignable(ent) == \E f \in Fns : Assignable(f) /\ ent.bdf = BdfOf(f)
        searched == SelectSeq(SubSeq(table, 1, Len(table) - num_bdf), assignable)
    IN status # "none" =>
          /\ found = [i \in 1..Len(searched) |-> searched[i].bdf]
          /\ status = "error" => Len(found) = Cardinality({f \in Fns : Assignable(f)})

\* The host's picture of the hierarchy is the hierarchy.  The table lists every
\* PCIe function but the host bridges, each once, under the root port it
\* physically hangs under.  The function found downstream of a bridge is below it
\* and is an end point if there is one; the parent is reported as root port exactly
\* when it is one; the block is the function's own; increment_bdf steps through
\* all BDFs.
HierarchyKnown ==
    created =>
       /\ \A i \in 1..Len(table) :
             \E f \in Fns : BdfOf(f) = table[i].bdf /\ table[i].rp_bdf = TrueRoot(f)
       /\ \A f \in Fns : Cardinality({i \in 1..Len(table) : table[i].bdf = BdfOf(f)})
                         = IF hw[f].kind = "host" \/ hw[f].port = "legacy" THEN 0 ELSE 1
       /\ \A b \in {x \in Bridges : hw[x].port # "legacy"} :
             LET below == {BdfOf(f) : f \in {x \in Below(b) : hw[x].port # "legacy"}}
                 d == val_pcie_get_downstream_function(BdfOf(b))
             IN /\ d = NoBdf <=> below = {}
                /\ d # NoBdf => /\ d \in below
                                /\ ~Type0(d) => \A x \in below : ~Type0(x)
       /\ \A f \in Fns :
             val_pcie_parent_is_rootport(BdfOf(f)) =
                IF hw[f].up # Root /\ hw[hw[f].up].port = "RP"
                THEN BdfOf(hw[f].up) ELSE NoBdf
       /\ \A f \in Fns : hw[f].kind # "host" =>
             /\ val_pcie_get_ecam_index(BdfOf(f)) = {hw[f].ecam}
             /\ val_pcie_get_ecam_base(BdfOf(f)) = hw[f].ecam
       /\ LET all == AllBdfs
          IN \A i \in 1..Len(all) :
                val_pcie_increment_bdf(all[i]) = IF i = Len(all) THEN ZeroBdf ELSE all[i + 1]
===========================================================================
