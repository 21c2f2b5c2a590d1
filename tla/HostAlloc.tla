----------------------------- MODULE HostAlloc -----------------------------
(***************************************************************************)
(* The heap of the host library (val_host_alloc.c).  An allocation only    *)
(* moves heap_base up; val_host_mem_free gives nothing back, and           *)
(* val_host_test_init starts every test on a fresh heap.                   *)
(*                                                                         *)
(* Addresses and sizes are words, and are added modulo Word.               *)
(***************************************************************************)
EXTENDS Integers

CONSTANTS
  Word,        \* 2^64
  HeapBase,    \* PLATFORM_HEAP_REGION_BASE
  HeapSize,    \* PLATFORM_HEAP_REGION_SIZE
  Page,        \* PAGE_SIZE
  PowersOf2,   \* the powers of two below 2^32
  Alignments,  \* the alignments asked for
  Sizes,       \* the sizes asked for
  Counts,      \* the numbers of elements asked for
  NodeSize     \* sizeof(val_host_granule_ts), 64

Top == HeapBase + HeapSize

(* Bound: no request comes near the size of a word, and the alignments fit *)
(* in 32 bits, the width in which they are tested.  The largest request in *)
(* the repository is that of a realm's image.                              *)
ASSUME HeapAssumption ==
  /\ Word \in Nat /\ HeapBase \in Nat \ {0} /\ HeapSize \in Nat
  /\ PowersOf2 \subseteq Nat \ {0}
  /\ Page \in PowersOf2 /\ NodeSize \in PowersOf2
  /\ Alignments \subseteq Nat /\ Sizes \subseteq Nat /\ Counts \subseteq Nat
  /\ Top < Word
  /\ \A a \in Alignments \cup {Page}, s \in Sizes : Top + s + a + a < Word
  /\ Top + NodeSize + NodeSize + NodeSize < Word
  /\ \A c \in Counts, s \in Sizes : c * s \in Nat /\ Top + c * s + Page + Page < Word

VARIABLES
  heap_base, heap_top,
  blocks   \* history: what this test has been given

heapvars == <<heap_base, heap_top, blocks>>

Block == [addr : Nat, size : Nat, align : Nat]

HeapTypeOK ==
  /\ heap_base \in Nat /\ heap_top \in Nat
  /\ blocks \subseteq Block

HeapInit == heap_base = HeapBase /\ heap_top = Top /\ blocks = {}

(* val_host_mem_alloc_init.  It also resets number_of_regions and the      *)
(* counter of val_host_get_vmid, which nothing reads.                      *)
mem_alloc_init ==
  heap_base' = HeapBase /\ heap_top' = Top /\ blocks' = {}

(* The next multiple of a, a power of two.                                 *)
ADDR_ALIGN(x, a) == ((x + a - 1) - ((x + a - 1) % a)) % Word

(* mem_alloc; asked is the size before val_host_mem_alloc padded it.       *)
mem_alloc(align, size, asked) ==
  LET addr == ADDR_ALIGN(heap_base, align)
      padded == (size + (addr - heap_base)) % Word
  IN \/ heap_top - heap_base < padded /\ UNCHANGED heapvars
     \/ /\ heap_top - heap_base >= padded
        /\ heap_base' = (heap_base + padded) % Word
        /\ blocks' = blocks \cup {[addr |-> addr, size |-> asked, align |-> align]}
        /\ UNCHANGED heap_top

(* val_host_mem_alloc.                                                     *)
host_mem_alloc(align, size) ==
  \/ (size <= 0 \/ align \notin PowersOf2) /\ UNCHANGED heapvars
  \/ /\ size > 0 /\ align \in PowersOf2
     /\ mem_alloc(align, (size + align - 1) % Word, size)

(* val_buffer_alloc_calloc.                                                *)
buffer_alloc_calloc(n, size) == host_mem_alloc(Page, (n * size) % Word)

(* val_host_add_granule and val_host_update_granule_state: a node of the    *)
(* granule tracker, with its own size as the alignment.                    *)
node_alloc == mem_alloc(NodeSize, NodeSize, NodeSize)

(* val_host_mem_free and val_buffer_alloc_free.                            *)
mem_free == UNCHANGED heapvars

HeapNext ==
  \/ mem_alloc_init
  \/ \E align \in Alignments, size \in Sizes : host_mem_alloc(align, size)
  \/ \E n \in Counts, size \in Sizes : buffer_alloc_calloc(n, size)
  \/ node_alloc
  \/ mem_free

HeapSpec == HeapInit /\ [][HeapNext]_heapvars
-----------------------------------------------------------------------------
(* The blocks of a test do not overlap, whatever is freed in between, and  *)
(* lie in the heap: between its base and heap_base, which stays below the  *)
(* top.                                                                    *)
Disjoint ==
  /\ heap_base <= heap_top
  /\ \A b \in blocks : HeapBase <= b.addr /\ b.addr + b.size <= heap_base
  /\ \A b, c \in blocks :
       b # c => b.addr + b.size <= c.addr \/ c.addr + c.size <= b.addr

(* Every block is aligned as asked.                                        *)
Aligned == \A b \in blocks : b.addr % b.align = 0
============================================================================
