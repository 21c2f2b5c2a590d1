------------------------------ MODULE HeapList ------------------------------
(***************************************************************************)
(* The granule tracker's NS list in the heap of the host library.  A node  *)
(* is a block that mem_alloc handed out, between the blocks that tests and *)
(* the crypto library ask for; val_host_mem_free gives no node back, and   *)
(* val_host_test_init resets the lists and starts the heap again at its    *)
(* base.  A node is named by its address.                                  *)
(***************************************************************************)
EXTENDS NsList, HostAlloc

hvars == <<lvars, heapvars>>

HInit == LInit /\ HeapInit

(* val_host_add_granule writes the node mem_alloc returned without a test  *)
(* for NULL: on a full heap the host faults, and the behaviour ends.       *)
AddGranule(addr) ==
  /\ node_alloc
  /\ blocks' # blocks
  /\ Delegate(addr, ADDR_ALIGN(heap_base, NodeSize))

(* A test, or the crypto library, gets memory.  It may write all of it;    *)
(* NodesOwned says that this changes no node.                              *)
TestAllocates ==
  /\ \/ \E align \in Alignments, size \in Sizes : host_mem_alloc(align, size)
     \/ \E n \in Counts, size \in Sizes : buffer_alloc_calloc(n, size)
  /\ UNCHANGED lvars

(* The node that an undelegation frees stays allocated.                    *)
ListChanges == ListStep /\ mem_free

(* Mutant: the heap is started again, the lists are not reset.             *)
TestInitHeapOnly == mem_alloc_init /\ UNCHANGED lvars

(* The end of val_host_test_init.                                          *)
TestInit == ResetLists /\ mem_alloc_init

HNext ==
  \/ \E addr \in PA : AddGranule(addr)
  \/ ListChanges
  \/ TestAllocates
  \/ TestInit

HSpec == HInit /\ [][HNext]_hvars
-----------------------------------------------------------------------------
(* Every node that the tracker can reach is a block of its own, handed out *)
(* since the heap was started and to the tracker: no block of a test       *)
(* overlaps it, and no later node is put into it.  The three pointers stay *)
(* on one list that ends at tail.                                          *)
NodesOwned ==
  /\ OneList /\ Disjoint
  /\ \A c \in On(head) \cup away :
       /\ c \in used
       /\ [addr |-> c, size |-> NodeSize, align |-> NodeSize] \in blocks
  /\ \A c, d \in On(head) \cup away : c # d => pa[c] # pa[d]
=============================================================================
