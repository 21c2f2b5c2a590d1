------------------------------- MODULE Xlat -------------------------------
(***************************************************************************)
(* The translation tables of the host, the realm and the secure image:     *)
(* the list of regions (mmap), the base table and the pool of sub-tables   *)
(* with the number of regions mapped in each, and every operation of the   *)
(* library on them.  An operation runs on one processor before any other   *)
(* uses the tables, so each is one step; within it the recursion over the  *)
(* levels is the code's, because the order in which sub-tables are taken   *)
(* and given back is what can go wrong.                                    *)
(*                                                                         *)
(* Addresses are bytes of a scaled-down architecture: a page is PageSize   *)
(* bytes and a table has Entries entries, so that an exclusive bound and   *)
(* the address of a last byte stay different things, as in the code.       *)
(***************************************************************************)
EXTENDS Integers, Sequences, FiniteSets, SequencesExt

CONSTANTS
    PageSize, Entries,  \* PAGE_SIZE, XLAT_TABLE_ENTRIES
    MinLvlBlock,        \* MIN_LVL_BLOCK_DESC
    NTables,            \* tables_num: sub-tables of the context
    MmapNum,            \* mmap_num: regions the context can hold
    VaSpace, PaSpace,   \* sizes the context is registered with
    Regime,             \* "EL1_EL0" or "EL2"
    AddrMod,            \* 2^64: addresses wrap here
    Images,             \* region lists of an image, as given to mmap_add_ctx
    Widths,             \* address space sizes a realm may be given
    Requests,           \* regions given to the calls on dynamic regions
    MaxCount,           \* bound on the regions counted in one table
    Ranges, NewAttrs    \* [va, size] and attributes given to
                        \* xlat_change_mem_attributes_ctx

VARIABLES
    mmap,        \* ctx->mmap up to its terminator
    xt,          \* [tab: table contents, cnt: tables_mapped_regions, halt]
    va_max, pa_max, base_level,
    max_va, max_pa,
    initialized,
    mmu          \* SCTLR.M of the regime

vars == <<mmap, xt, va_max, pa_max, base_level, max_va, max_pa, initialized, mmu>>
limits == <<va_max, pa_max, base_level>>

Base == 0
Tables == 1..NTables
NoTable == NTables + 1

BlockSize(level) == PageSize * Entries ^ (3 - level)

PageAligned(a) == a % PageSize = 0

\* GET_XLAT_TABLE_LEVEL_BASE and GET_NUM_BASE_LEVEL_ENTRIES
LevelBase(size) == CASE size > BlockSize(0) -> 0
                     [] size > BlockSize(1) /\ size <= BlockSize(0) -> 1
                     [] size > BlockSize(2) /\ size <= BlockSize(1) -> 2
                     [] OTHER -> 3
BaseEntries == VaSpace \div BlockSize(LevelBase(VaSpace))

INVALID_DESC == 0
BLOCK_DESC == 1
TABLE_DESC == 3
PAGE_DESC == 3

Invalid == [type |-> INVALID_DESC, addr |-> 0, bits |-> {}]

EndVa(mm) == (mm.va + mm.size - 1) % AddrMod
EndPa(mm) == (mm.pa + mm.size - 1) % AddrMod

---------------------------------------------------------------------------
\* Descriptors.  An attribute is a set of MT_ flags; MT_MEMORY is the type
\* when neither DEVICE nor NON_CACHEABLE is in it.

xn_desc == IF Regime = "EL1_EL0" THEN {"UXN", "PXN"} ELSE {"XN"}

get_pas(attr) == CASE "REALM" \in attr -> {"NSE", "NS"}
                   [] "ROOT" \in attr -> {"NSE"}
                   [] "NS" \in attr -> {"NS"}
                   [] OTHER -> {}

xlat_desc(attr, pa, level) ==
    [type |-> IF level = 3 THEN PAGE_DESC ELSE BLOCK_DESC,
     addr |-> pa,
     bits |->
        (IF "AF_CLEAR" \in attr THEN {} ELSE {"AF"})
        \cup get_pas(attr)
        \cup (IF "RW" \in attr THEN {} ELSE {"RO"})
        \cup (IF Regime # "EL1_EL0" \/ "USER" \in attr THEN {"AP1"} ELSE {})
        \cup (IF "DEVICE" \in attr THEN {"DEV", "OSH"} \cup xn_desc
              ELSE (IF attr \cap {"RW", "XN"} # {} THEN xn_desc ELSE {})
                   \cup (CASE "NON_CACHEABLE" \in attr -> {"NC", "OSH"}
                           [] "NSH" \in attr -> {}
                           [] "OSH" \in attr -> {"OSH"}
                           [] OTHER -> {"ISH"}))]

\* xlat_get_mem_attributes_internal: MT_AF_CLEAR is reported when the access
\* flag is set.
attributes(desc) ==
    (CASE "DEV" \in desc.bits -> {"DEVICE"}
       [] "NC" \in desc.bits -> {"NON_CACHEABLE"}
       [] OTHER -> {})
    \cup (IF "RO" \in desc.bits THEN {} ELSE {"RW"})
    \cup (IF Regime = "EL1_EL0" /\ "AP1" \in desc.bits THEN {"USER"} ELSE {})
    \cup (IF "NS" \in desc.bits THEN {"NS"} ELSE {})
    \cup (IF xn_desc \subseteq desc.bits THEN {"XN"} ELSE {})
    \cup (IF "AF" \in desc.bits THEN {"AF_CLEAR"} ELSE {})

---------------------------------------------------------------------------
\* The pool of sub-tables

xlat_table_get_empty(x) ==
    LET free == {t \in Tables : x.cnt[t] = 0}
    IN IF free = {} THEN NoTable ELSE CHOOSE t \in free : \A u \in free : t <= u

xlat_table_inc_regions_count(x, t) ==
    IF t = Base THEN x ELSE [x EXCEPT !.cnt[t] = @ + 1]

xlat_table_dec_regions_count(x, t) ==
    IF t = Base THEN x ELSE [x EXCEPT !.cnt[t] = @ - 1]

find_start_va(mm, baseVa, level) ==
    IF mm.va > baseVa THEN mm.va - (mm.va % BlockSize(level)) ELSE baseVa

va_to_index(baseVa, va, level) == (va - baseVa) \div BlockSize(level)

TableEntries(t) == IF t = Base THEN BaseEntries ELSE Entries

---------------------------------------------------------------------------
\* Unmapping

\* A sub-table in a range that is unmapped is unlinked and not unmapped.
UnlinksTables(mm, va, level, type) ==
    LET end == va + BlockSize(level) - 1
        covers == mm.va <= va /\ EndVa(mm) >= end
        touches == mm.va <= end \/ EndVa(mm) >= va
    IN CASE covers /\ type # INVALID_DESC -> "write"
         [] ~covers /\ touches /\ level < 3 /\ type = TABLE_DESC -> "recurse"
         [] ~covers /\ ~touches -> "none"
         [] OTHER -> "assert"

unmap_region_action(mm, va, level, type) ==
    LET end == va + BlockSize(level) - 1
        covers == mm.va <= va /\ EndVa(mm) >= end
        touches == mm.va <= end \/ EndVa(mm) >= va
    IN CASE covers /\ level = 3 /\ type = PAGE_DESC -> "write"
         [] covers /\ level < 3 /\ type = TABLE_DESC -> "recurse"
         [] covers /\ level < 3 /\ type = BLOCK_DESC -> "write"
         [] ~covers /\ touches /\ level < 3 /\ type = TABLE_DESC -> "recurse"
         [] ~covers /\ ~touches -> "none"
         [] OTHER -> "assert"

RECURSIVE unmap_region(_, _, _, _, _), UnmapFrom(_, _, _, _, _, _)

unmap_region(x, mm, t, baseVa, level) ==
    xlat_table_dec_regions_count(
        UnmapFrom(x, mm, t, baseVa, level, find_start_va(mm, baseVa, level)), t)

\* The loop of xlat_tables_unmap_region, from the entry of table t at va on
UnmapFrom(x, mm, t, baseVa, level, va) ==
    LET idx == va_to_index(baseVa, va, level)
        desc == x.tab[t][idx]
        action == unmap_region_action(mm, va, level, desc.type)
        sub == unmap_region(x, mm, desc.addr, va, level + 1)
        y == CASE action = "write" -> [x EXCEPT !.tab[t][idx] = Invalid]
               [] action = "recurse" /\ sub.cnt[desc.addr] = 0 ->
                      [sub EXCEPT !.tab[t][idx] = Invalid]
               [] action = "recurse" /\ sub.cnt[desc.addr] # 0 -> sub
               [] action = "none" -> x
               [] OTHER -> [x EXCEPT !.halt = TRUE]
    IN IF x.halt \/ idx >= TableEntries(t) THEN x
       ELSE IF EndVa(mm) <= va + BlockSize(level) THEN y
       ELSE UnmapFrom(y, mm, t, baseVa, level, va + BlockSize(level))

---------------------------------------------------------------------------
\* Mapping

map_region_action(mm, type, pa, va, level) ==
    LET end == va + BlockSize(level) - 1
        covers == mm.va <= va /\ EndVa(mm) >= end
        touches == mm.va <= end \/ EndVa(mm) >= va
        coarse == /\ pa % BlockSize(level) = 0
                  /\ level >= MinLvlBlock
                  /\ mm.gran >= BlockSize(level)
    IN CASE covers /\ level = 3 /\ type = PAGE_DESC -> "none"
         [] covers /\ level = 3 /\ type = INVALID_DESC -> "write"
         [] covers /\ level < 3 /\ type = TABLE_DESC -> "recurse"
         [] covers /\ level < 3 /\ type = INVALID_DESC /\ coarse -> "write"
         [] covers /\ level < 3 /\ type = INVALID_DESC /\ ~coarse -> "create"
         [] covers /\ level < 3 /\ type = BLOCK_DESC -> "none"
         [] ~covers /\ touches /\ level < 3 /\ type = INVALID_DESC -> "create"
         [] ~covers /\ touches /\ level < 3 /\ type = TABLE_DESC -> "recurse"
         [] ~covers /\ ~touches -> "none"
         [] OTHER -> "assert"

RECURSIVE map_region(_, _, _, _, _), MapFrom(_, _, _, _, _, _)

\* The context afterwards and the address returned: that of the last byte
\* mapped, or of the entry for which there was no table.
map_region(x, mm, t, baseVa, level) ==
    MapFrom(xlat_table_inc_regions_count(x, t), mm, t, baseVa, level,
            find_start_va(mm, baseVa, level))

\* The loop of xlat_tables_map_region, from the entry of table t at va on
MapFrom(x, mm, t, baseVa, level, va) ==
    LET idx == va_to_index(baseVa, va, level)
        desc == x.tab[t][idx]
        pa == (mm.pa + va - mm.va) % AddrMod
        next == va + BlockSize(level)
        action == map_region_action(mm, desc.type, pa, va, level)
        new == xlat_table_get_empty(x)
        linked == [x EXCEPT !.tab[t][idx] =
                      [type |-> TABLE_DESC, addr |-> new, bits |-> {}]]
        sub == CASE action = "create" -> map_region(linked, mm, new, va, level + 1)
                 [] action = "recurse" -> map_region(x, mm, desc.addr, va, level + 1)
                 [] action = "write" ->
                        [x |-> [x EXCEPT !.tab[t][idx] = xlat_desc(mm.attr, pa, level)],
                         end |-> next - 1]
                 [] OTHER -> [x |-> [x EXCEPT !.halt = @ \/ action = "assert"],
                              end |-> next - 1]
    IN CASE x.halt \/ idx >= TableEntries(t) -> [x |-> x, end |-> va - 1]
         [] ~x.halt /\ idx < TableEntries(t) /\ action = "create" /\ new = NoTable ->
                [x |-> x, end |-> va]
         [] OTHER ->
                IF sub.end # next - 1 \/ EndVa(mm) <= next
                THEN sub
                ELSE MapFrom(sub.x, mm, t, baseVa, level, next)

---------------------------------------------------------------------------
\* The list of regions

Nested(r, s) == \/ r.va >= s.va /\ EndVa(r) <= EndVa(s)
                \/ s.va >= r.va /\ EndVa(s) <= EndVa(r)

Separated(r, s) == /\ EndPa(r) < s.pa \/ r.pa > EndPa(s)
                   /\ EndVa(r) < s.va \/ r.va > EndVa(s)

Compatible(r, s) ==
    IF Nested(r, s)
    THEN /\ "DYNAMIC" \notin r.attr \cup s.attr
         /\ s.va - s.pa = r.va - r.pa
         /\ ~(r.va = s.va /\ r.size = s.size)
    ELSE Separated(r, s)

mmap_add_region_check(list, mm) ==
    CASE \/ ~PageAligned(mm.pa) \/ ~PageAligned(mm.va) \/ ~PageAligned(mm.size)
         \/ mm.gran \notin {BlockSize(l) : l \in 1..3} -> "EINVAL"
      [] OTHER ->
    CASE \/ mm.pa > EndPa(mm) \/ mm.va > EndVa(mm)
         \/ EndVa(mm) > va_max \/ EndPa(mm) > pa_max -> "ERANGE"
      [] OTHER ->
    CASE Len(list) >= MmapNum -> "ENOMEM"
      [] OTHER ->
    IF \A i \in DOMAIN list : Compatible(mm, list[i]) THEN "0" ELSE "EPERM"

\* In the order of the first byte only
PlaceByStart(list, mm) ==
    LET stop == {i \in 1..Len(list) : list[i].va > mm.va} \cup {Len(list) + 1}
    IN CHOOSE i \in stop : \A j \in stop : i <= j

\* Lower end first, then smaller size: the place the two loops stop at
Place(list, mm) ==
    LET before == {i \in DOMAIN list :
                      \/ EndVa(list[i]) < EndVa(mm)
                      \/ EndVa(list[i]) = EndVa(mm) /\ list[i].size < mm.size}
        stop == {i \in 1..(Len(list) + 1) : i \notin before}
    IN CHOOSE i \in stop : \A j \in stop : i <= j

Insert(list, mm) == InsertAt(list, Place(list, mm), mm)

Highest(ends) == IF ends = {} THEN 0
                 ELSE CHOOSE e \in ends : \A f \in ends : f <= e

\* mmap_alloc_va_align_ctx for a region that starts after the highest one
alloc_va(mm) ==
    LET va == max_va + 1
        levels == {l \in base_level..2 : /\ mm.pa % BlockSize(l) = 0
                                         /\ mm.size % BlockSize(l) = 0}
        size == BlockSize(CHOOSE l \in levels : \A k \in levels : l <= k)
    IN [mm EXCEPT !.va = IF levels = {} THEN va
                         ELSE ((va + size - 1) \div size) * size]

---------------------------------------------------------------------------
\* Operations before the tables are written

Init == /\ mmap = <<>>
        /\ xt = [tab |-> [t \in {Base} \cup Tables |->
                             [i \in 0..(TableEntries(t) - 1) |-> Invalid]],
                 cnt |-> [t \in Tables |-> 0],
                 halt |-> FALSE]
        /\ va_max = VaSpace - 1 /\ pa_max = PaSpace - 1
        /\ base_level = LevelBase(VaSpace)
        /\ max_va = 0 /\ max_pa = 0
        /\ initialized = FALSE /\ mmu = FALSE

Running == ~xt.halt

\* mmap_add_region_ctx on a list: the region is put in its place, or the
\* check's assertion stops the image.
AddTo(acc, mm) ==
    IF mm.size = 0 \/ acc.halt THEN acc
    ELSE IF mmap_add_region_check(acc.list, mm) # "0" THEN [acc EXCEPT !.halt = TRUE]
    ELSE [list |-> Insert(acc.list, mm), halt |-> FALSE]

mmap_add_ctx(list) ==
    LET acc == FoldLeft(AddTo, [list |-> mmap, halt |-> FALSE], list)
        added == acc.list
    IN /\ mmap' = added
       /\ max_va' = Highest({max_va} \cup {EndVa(added[i]) : i \in DOMAIN added})
       /\ max_pa' = Highest({max_pa} \cup {EndPa(added[i]) : i \in DOMAIN added})
       /\ xt' = [xt EXCEPT !.halt = acc.halt]

\* val_host_add_mmap, val_realm_add_mmap, val_secure_add_mmap
AddImage == /\ Running /\ ~initialized /\ mmap = <<>>
            /\ \E list \in Images : mmap_add_ctx(list)
            /\ UNCHANGED <<limits, initialized, mmu>>

\* A realm learns the width of its address space after it has listed its
\* regions, which lie within it; a test widens the output range later.
val_realm_update_xlat_ctx_ias_oas ==
    /\ Running /\ mmap # <<>>
    /\ \E ias, oas \in {w - 1 : w \in Widths} :
          /\ ias >= max_va /\ oas >= max_pa
          /\ initialized => ias = va_max
          /\ va_max' = ias /\ pa_max' = oas /\ base_level' = LevelBase(ias)
    /\ UNCHANGED <<mmap, xt, max_va, max_pa, initialized, mmu>>

\* init_xlat_tables_ctx: the regions are mapped in the order of the list.
\* What the mapping of a region returns is not looked at.
MapNext(x, mm) == map_region(x, mm, Base, 0, base_level).x

init_xlat_tables_ctx ==
    /\ Running /\ ~initialized /\ mmap # <<>> /\ ~mmu
    /\ xt' = [FoldLeft(MapNext, xt, mmap) EXCEPT
                 !.halt = @ \/ max_va > va_max \/ max_pa > pa_max]
    /\ initialized' = TRUE
    /\ UNCHANGED <<mmap, limits, max_va, max_pa, mmu>>

val_enable_mmu == /\ Running /\ initialized /\ ~mmu
                  /\ mmu' = TRUE
                  /\ UNCHANGED <<mmap, xt, limits, max_va, max_pa, initialized>>

---------------------------------------------------------------------------
\* Operations on dynamic regions.  Only tests call them, with the MMU on, so
\* the tables are always initialized.

\* All of the region is unmapped, and not only what was mapped.
UndoWhole(r, mm) ==
    IF mm.va >= r.end THEN r.x ELSE unmap_region(r.x, mm, Base, 0, base_level)

\* What a mapping that ran out of tables leaves: nothing is undone when the
\* first entry already failed.
Undo(r, mm) ==
    IF mm.va >= r.end THEN r.x
    ELSE unmap_region(r.x, [mm EXCEPT !.size = r.end - mm.va], Base, 0, base_level)

AddRegion(mm) ==
    LET list == Insert(mmap, mm)
        r == map_region(xt, mm, Base, 0, base_level)
        mapped == r.end = EndVa(mm)
    IN /\ xt' = IF mapped THEN r.x ELSE Undo(r, mm)
       /\ \A t \in Tables : xt'.cnt[t] <= MaxCount
       /\ mmap' = IF mapped THEN list ELSE mmap
       /\ max_va' = IF mapped THEN Highest({max_va, EndVa(mm)}) ELSE max_va
       /\ max_pa' = IF mapped THEN Highest({max_pa, EndPa(mm)}) ELSE max_pa

mmap_add_dynamic_region_ctx(req) ==
    LET mm == [req EXCEPT !.attr = @ \cup {"DYNAMIC"}]
    IN /\ req.size # 0
       /\ mmap_add_region_check(mmap, mm) = "0"
       /\ AddRegion(mm)

\* val_xlat_pgt_create, from val_host_pgt_create and val_realm_pgt_create
AddDynamic == /\ Running /\ mmu
              /\ \E r \in Requests : mmap_add_dynamic_region_ctx(r)
              /\ UNCHANGED <<limits, initialized, mmu>>

mmap_add_dynamic_region_alloc_va_ctx ==
    /\ Running /\ mmu
    /\ \E r \in Requests : mmap_add_dynamic_region_ctx(alloc_va(r))
    /\ UNCHANGED <<limits, initialized, mmu>>

mmap_remove_dynamic_region_ctx ==
    /\ Running /\ mmu
    /\ \E i \in DOMAIN mmap :
          LET mm == mmap[i]
              rest == RemoveAt(mmap, i)
          IN /\ "DYNAMIC" \in mm.attr
             /\ mmap' = rest
             /\ xt' = unmap_region(xt, mm, Base, 0, base_level)
             /\ max_va' = IF EndVa(mm) = max_va
                          THEN Highest({EndVa(rest[j]) : j \in DOMAIN rest}) ELSE max_va
             /\ max_pa' = IF EndPa(mm) = max_pa
                          THEN Highest({EndPa(rest[j]) : j \in DOMAIN rest}) ELSE max_pa
    /\ UNCHANGED <<limits, initialized, mmu>>

---------------------------------------------------------------------------
\* Walks and attributes

NoEntry == [t |-> NoTable, idx |-> 0, level |-> 0]

\* find_xlat_table_entry: the place of the entry that maps va, or NoEntry
Walk(va, start) ==
    LET walk[t \in {Base} \cup Tables, level \in 0..3] ==
            LET idx == (va \div BlockSize(level)) % Entries
                desc == xt.tab[t][idx]
            IN CASE idx >= TableEntries(t) \/ desc.type = INVALID_DESC -> NoEntry
                 [] OTHER ->
               IF level = 3 \/ desc.type = BLOCK_DESC
               THEN [t |-> t, idx |-> idx, level |-> level]
               ELSE walk[desc.addr, level + 1]
    IN walk[Base, start]

find_xlat_table_entry(va) == Walk(va, LevelBase(va_max + 1))

\* xlat_change_mem_attributes_ctx
change_mem_attributes(va, size, attr) ==
    LET pages == {p \in va..(va + size - 1) : PageAligned(p)}
        entry == [p \in pages |-> find_xlat_table_entry(p)]
        desc(p) == xt.tab[entry[p].t][entry[p].idx]
    IN /\ PageAligned(va) /\ PageAligned(size) /\ size > 0
       /\ ~("RW" \in attr /\ "XN" \notin attr)
       /\ \A p \in pages : /\ entry[p] # NoEntry
                           /\ entry[p].level = 3
                           /\ "DEV" \in desc(p).bits => "XN" \in attr
       /\ xt' = [xt EXCEPT !.tab =
            [t \in DOMAIN @ |-> [i \in DOMAIN @[t] |->
                IF \E p \in pages : entry[p].t = t /\ entry[p].idx = i
                THEN xlat_desc(attr, @[t][i].addr, 3) ELSE @[t][i]]]]

\* val_host_update_attributes, val_realm_update_attributes: with attributes
\* of the caller's, or those read with val_host_read_atributes and the access
\* flag toggled.
ChangeAttributes ==
    /\ Running /\ mmu
    /\ \E r \in Ranges :
          /\ find_xlat_table_entry(r.va) # NoEntry
          /\ LET e == find_xlat_table_entry(r.va)
                 read == attributes(xt.tab[e.t][e.idx])
             IN \E attr \in NewAttrs \cup {read \cup {"AF_CLEAR"}, read \ {"AF_CLEAR"}} :
                   change_mem_attributes(r.va, r.size, attr)
    /\ UNCHANGED <<mmap, limits, max_va, max_pa, initialized, mmu>>

Next == \/ AddImage \/ val_realm_update_xlat_ctx_ias_oas
        \/ init_xlat_tables_ctx \/ val_enable_mmu
        \/ AddDynamic \/ mmap_add_dynamic_region_alloc_va_ctx
        \/ mmap_remove_dynamic_region_ctx \/ ChangeAttributes

Spec == Init /\ [][Next]_vars

---------------------------------------------------------------------------
\* Properties

\* setup_mmu_cfg sets TCR.T0SZ from the size of the address space, and from it
\* the processor takes the level its walk starts at, one per factor of Entries.
RECURSIVE setup_mmu_cfg(_, _)
setup_mmu_cfg(size, level) == IF BlockSize(level - 1) >= size THEN level
                        ELSE setup_mmu_cfg(size, level - 1)

Unmapped == [pa |-> -1, bits |-> {}]

\* What the processor makes of the tables
Translate(p) ==
    LET e == Walk(p, setup_mmu_cfg(va_max + 1, 3))
        desc == xt.tab[e.t][e.idx]
    IN IF e = NoEntry THEN Unmapped
       ELSE [pa |-> desc.addr + (p % BlockSize(e.level)), bits |-> desc.bits]

AllPages == {p \in 0..(VaSpace - 1) : PageAligned(p)}

AM == INSTANCE AddressMap WITH
    Pages <- AllPages,
    None <- Unmapped,
    regions <- {[va |-> mmap[i].va, pa |-> mmap[i].pa, size |-> mmap[i].size,
                 bits |-> xlat_desc(mmap[i].attr, 0, 3).bits] : i \in DOMAIN mmap},
    map <- [p \in AllPages |-> IF initialized /\ p <= va_max THEN Translate(p) ELSE Unmapped],
    loaded <- initialized

\* The tables the processor walks are the flat map that the region list
\* describes, through every order of mapping, unmapping and attribute changes,
\* and a mapping that runs out of tables changes nothing the processor sees.
ImplementsAddressMap == AM!AMSpec

\* Tables that a walk can reach
Linked == {t \in Tables : \E u \in {Base} \cup Tables : \E i \in DOMAIN xt.tab[u] :
              /\ xt.tab[u][i].type = TABLE_DESC /\ xt.tab[u][i].addr = t
              /\ xt.tab[u][i].bits = {}}

\* A table is in use exactly when one entry of one table points to it, and a
\* table that is not in use is blank: no two regions ever come to share a table
\* by accident, and a table handed out again maps nothing of its past.
TablesAccounted ==
    initialized /\ Running =>
      /\ Linked = {t \in Tables : xt.cnt[t] > 0}
      /\ \A t \in Tables : xt.cnt[t] >= 0
      /\ \A t \in Tables \ Linked : \A i \in DOMAIN xt.tab[t] : xt.tab[t][i] = Invalid

\* No sequence of calls trips one of the assertions on the shape of the tables
\* (a partially covered page, a block where a table must be), including the
\* unmapping that undoes a mapping for which there were not enough tables.
NoAssertFails == ~xt.halt
============================================================================
