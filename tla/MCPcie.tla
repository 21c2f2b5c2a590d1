------------------------------ MODULE MCPcie ------------------------------
(***************************************************************************)
(* Small PCIe hierarchies for PcieTable: two ECAM blocks of two segments,  *)
(* the first with four buses.  One family varies the shape of the          *)
(* hierarchy and the kinds of its functions, one the sizes and kinds of    *)
(* the BARs of three end points on one bus, and one is an exerciser whose  *)
(* registers are operated.                                                 *)
(***************************************************************************)
EXTENDS PcieDevice

MCRoot == 0
MCEcams == <<[seg |-> 0, start_bus |-> 0, end_bus |-> 3],
             [seg |-> 1, start_bus |-> 4, end_bus |-> 5]>>
MCStarts == [np |-> 16, p |-> 32, p64 |-> 64, rp32 |-> 96, rp64 |-> 112]

Bar(pool, size) == [pool |-> pool, size |-> size]

Function(up, ecam, slot, kind, port, doe, bars) ==
    [up |-> up, ecam |-> ecam, slot |-> slot, kind |-> kind, port |-> port,
     doe |-> doe, bars |-> bars, exerciser |-> FALSE]

\* What may hang on a root bus, and what below a bridge
Host(e) == Function(0, e, 0, "host", "legacy", FALSE, <<>>)
RootPort(e, s) == Function(0, e, s, "bridge", "RP", FALSE, <<Bar("p", 1)>>)
Integrated(e, s) == Function(0, e, s, "device", "RCiEP", TRUE, <<Bar("p", 2)>>)

Children(up, e, s) ==
    {Function(up, e, s, "bridge", "switch", FALSE, <<Bar("p64", 1)>>),
     Function(up, e, s, "device", "EP", TRUE, <<Bar("p", 1), Bar("p64", 4)>>),
     Function(up, e, s, "device", "EP", FALSE, <<Bar("np", 2)>>),
     Function(up, e, s, "device", "legacy", FALSE, <<>>)}

\* Function 1 is the host bridge; 2 and 3 hang on the root bus, 4 and 5 below
\* one of the earlier bridges.
Below2(fs) == {u \in DOMAIN fs : fs[u].kind = "bridge"}

Add(family, n, slots) ==
    UNION {UNION {{Append(fs, c) : c \in UNION {Children(u, fs[u].ecam, s) : s \in slots
                       \ {fs[i].slot : i \in {j \in 2..Len(fs) : fs[j].up = u}}}} :
                  u \in Below2(fs)} :
           fs \in {x \in family : Len(x) = n}}

Start == {<<Host(1), RootPort(1, 1)>>,
          <<Host(1), RootPort(1, 2), RootPort(1, 1)>>,
          <<Host(1), Integrated(1, 2), RootPort(1, 3)>>,
          <<Host(1), RootPort(1, 3), RootPort(2, 0)>>,
          <<Host(1), Integrated(2, 2), RootPort(2, 1)>>}

\* No block is given more bridges than it has bus numbers.
Fits(fs) == \A e \in 1..2 :
               Cardinality({i \in DOMAIN fs : fs[i].ecam = e /\ fs[i].kind = "bridge"})
               <= MCEcams[e].end_bus - MCEcams[e].start_bus

Shapes ==
    LET three == Start \cup Add(Start, 2, 0..2)
        four == three \cup Add(three, 3, 0..2)
    IN {fs \in four \cup Add(four, 4, {0}) : Fits(fs)}

BarLists == {<<Bar("p", 1)>>, <<Bar("p", 2)>>, <<Bar("p", 1), Bar("p", 8)>>,
             <<Bar("p64", 2), Bar("np", 1), Bar("p64", 4)>>,
             <<Bar("np", 4), Bar("p", 4), Bar("np", 2)>>}

Barred == {<<Host(1), RootPort(1, 1)>> \o
           [i \in 1..3 |-> Function(2, 1, 2 * i - 2, "device", "EP", TRUE, bs[i])] :
              bs \in [1..3 -> BarLists]}

Exercisers == {<<Host(1), RootPort(1, 1),
                 [Function(2, 1, 0, "device", "EP", TRUE, <<Bar("p", 2)>>)
                     EXCEPT !.exerciser = TRUE]>>}

MCTopologies == Shapes \cup Barred \cup Exercisers
===========================================================================
