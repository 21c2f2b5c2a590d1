---------------------------- MODULE AddressMap ----------------------------
(***************************************************************************)
(* What a translation context promises its user: a flat map from the pages *)
(* of the virtual address space to frames and attributes, governed by a    *)
(* set of regions.  Regions are declared before the map is loaded; from    *)
(* then on they are mapped and unmapped as a whole, and the attributes of  *)
(* a range of mapped pages can be changed.  Xlat, with its multi-level     *)
(* tables, implements this specification.                                  *)
(***************************************************************************)
EXTENDS Integers, FiniteSets

CONSTANTS Pages,   \* addresses of the pages of the virtual address space
          None     \* the translation of a page that is not mapped

VARIABLES regions, \* set of [va, pa, size, bits]
          map,     \* Pages -> None or [pa, bits]
          loaded

amvars == <<regions, map, loaded>>

Covers(r, p) == r.va <= p /\ p < r.va + r.size

PagesOf(r) == {p \in Pages : Covers(r, p)}

\* The region that governs a page: overlapping regions are nested, and the
\* innermost one, the smallest, counts.
Innermost(rs, p) ==
    CHOOSE r \in rs : /\ Covers(r, p)
                      /\ \A s \in rs : Covers(s, p) => r.size <= s.size

Target(r, p) == [pa |-> r.pa + p - r.va, bits |-> r.bits]

MapOf(rs) ==
    [p \in Pages |-> IF \E r \in rs : Covers(r, p)
                     THEN Target(Innermost(rs, p), p) ELSE None]

AMInit == /\ regions = {}
          /\ map = [p \in Pages |-> None]
          /\ loaded = FALSE

Declare == /\ ~loaded
           /\ UNCHANGED <<map, loaded>>

Load == /\ ~loaded
        /\ loaded' = TRUE
        /\ map' = MapOf(regions)
        /\ UNCHANGED regions

\* A region is mapped where nothing was mapped, and nothing else changes.
Map == /\ loaded /\ UNCHANGED loaded
       /\ LET old == map
          IN \E r \in regions' \ regions :
                /\ regions' = regions \cup {r}
                /\ \A p \in PagesOf(r) : old[p] = None
                /\ map' = [p \in Pages |->
                              IF Covers(r, p) THEN Target(r, p) ELSE old[p]]

Unmap == /\ loaded /\ UNCHANGED loaded
         /\ LET old == map
            IN \E r \in regions \ regions' :
                  /\ regions' = regions \ {r}
                  /\ map' = [p \in Pages |->
                                IF Covers(r, p) THEN None ELSE old[p]]

\* Only attributes change, of mapped pages that follow each other, to one value.
Protect ==
    /\ loaded /\ UNCHANGED <<regions, loaded>>
    /\ LET old == map
           new == map'
           changed == {p \in Pages : new[p] # old[p]}
           range == {p \in Pages : \E lo, hi \in changed : lo <= p /\ p <= hi}
       IN \A p \in range : /\ old[p] # None /\ new[p] # None
                            /\ new[p].pa = old[p].pa
                            /\ \A q \in range : new[q].bits = new[p].bits

AMNext == Declare \/ Load \/ Map \/ Unmap \/ Protect

AMSpec == AMInit /\ [][AMNext]_amvars
============================================================================
