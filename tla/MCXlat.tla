------------------------------ MODULE MCXlat ------------------------------
(* An address space of eight pages, two entries per table, five sub-tables. *)
EXTENDS Xlat

R(va, pa, size, attr, gran) ==
    [va |-> va, pa |-> pa, size |-> size, attr |-> attr, gran |-> gran]

CODE == {"NS"}
RODATA == {"XN", "NS"}
RWDATA == {"RW", "XN", "NS"}
DEVICE == {"DEVICE", "RW", "NS"}

\* An image in two pages of their own, and one whose read-only data lies
\* inside a larger read-write region, listed after it.
MCImages == {<<R(0, 0, 2, CODE, 8), R(4, 4, 2, RWDATA, 8)>>,
             <<R(0, 0, 8, RWDATA, 8), R(2, 2, 2, RODATA, 8), R(6, 6, 2, CODE, 8)>>}

\* Regions that need no sub-table, one, two or three; that touch, overlap and
\* leave the address space; and one that is not aligned.
MCRequests == {R(8, 16, 8, RWDATA, 8), R(8, 16, 2, DEVICE, 8), R(10, 18, 4, RWDATA, 8),
               R(12, 24, 4, RWDATA, 2), R(14, 22, 2, RWDATA, 2), R(9, 16, 2, DEVICE, 8),
               R(6, 26, 6, RWDATA, 8), R(14, 28, 4, RWDATA, 8), R(0, 30, 0, CODE, 8)}

\* One page, and two pages of different tables
MCRanges == {[va |-> 4, size |-> 2], [va |-> 10, size |-> 4]}
MCNewAttrs == {RODATA}
============================================================================
