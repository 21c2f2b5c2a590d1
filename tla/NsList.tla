------------------------------- MODULE NsList -------------------------------
(***************************************************************************)
(* The pointers of the NS list (val_host_realm.c): head and tail, the copy *)
(* mem_track[0].gran_type.ns of head, and the next fields of the nodes.    *)
(*                                                                         *)
(* val_host_find_granule walks from head, val_host_remove_granule and the  *)
(* postamble walk from mem_track[0].gran_type.ns, val_host_add_granule     *)
(* appends at tail.  The three agree only as long as every update keeps    *)
(* them together, across the reset at the start of a test.                 *)
(*                                                                         *)
(* A node is the storage mem_alloc returned for it.  val_host_test_init    *)
(* resets the allocator, so a test's nodes may use the storage of an       *)
(* earlier test's; the contents stay until they are overwritten.           *)
(***************************************************************************)
EXTENDS Integers, FiniteSets, Sequences

CONSTANTS
  PA,               \* granule addresses
  Cells,            \* the storage for nodes
  NULL,
  PostambleMayFail  \* does a test end with granules left in the list?

ASSUME NullAssumption == NULL \notin Cells
ASSUME MayFailAssumption == PostambleMayFail \in BOOLEAN

VARIABLES
  head, tail, nsp,  \* the three pointers
  next, pa,         \* the fields of the nodes
  used,             \* cells handed out since the allocator was reset
  away              \* nodes of this test that are in a realm's list

ptrs == <<head, tail, nsp>>
lvars == <<ptrs, next, pa, used, away>>

LInit ==
  /\ head = NULL /\ tail = NULL /\ nsp = NULL
  /\ next = [c \in Cells |-> NULL]
  /\ pa \in {[c \in Cells |-> p] : p \in PA}
  /\ used = {}
  /\ away = {}

(* The nodes met by following next from p; a cycle ends the walk.          *)
Walk(p) ==
  LET follow == [c \in Cells \cup {NULL} |-> IF c = NULL THEN NULL ELSE next[c]]
      at[n \in 1 .. Cardinality(Cells)] == IF n = 1 THEN p ELSE follow[at[n - 1]]
  IN SelectSeq([n \in 1 .. Cardinality(Cells) |-> at[n]], LAMBDA c : c # NULL)

On(p) == {Walk(p)[i] : i \in 1 .. Len(Walk(p))}

(* val_host_find_granule: the first node of the list at head for addr.     *)
Find(addr) ==
  LET w == Walk(head)
      hits == {i \in 1 .. Len(w) : pa[w[i]] = addr}
  IN IF hits = {} THEN NULL ELSE w[CHOOSE i \in hits : \A j \in hits : i <= j]

(* Mutant: nodes are added at the front.                                   *)
LinkFront(c, nxt) ==
  /\ head' = c /\ nsp' = c
  /\ tail' = IF head = NULL THEN c ELSE tail
  /\ next' = [nxt EXCEPT ![c] = head]

(* val_host_add_granule links the node c at the end of the list.           *)
Link(c, nxt) ==
  \/ /\ head = NULL
     /\ head' = c /\ nsp' = c /\ tail' = c
     /\ next' = [nxt EXCEPT ![c] = NULL]
  \/ /\ head # NULL
     /\ next' = [nxt EXCEPT ![tail] = c]
     /\ tail' = c
     /\ UNCHANGED <<head, nsp>>

(* val_host_rmi_granule_delegate of a granule that is not delegated: a new *)
(* node, which the allocator puts at c.                                    *)
Delegate(addr, c) ==
  /\ \A d \in away \cup On(nsp) : pa[d] # addr
  /\ used' = used \cup {c}
  /\ pa' = [pa EXCEPT ![c] = addr]
  /\ Link(c, [next EXCEPT ![c] = NULL])
  /\ UNCHANGED away

(* val_host_remove_granule(&mem_track[0].gran_type.ns, addr).              *)
Unlink(addr) ==
  LET w == Walk(nsp)
      hits == {i \in 1 .. Len(w) : pa[w[i]] = addr}
      i == CHOOSE h \in hits : \A j \in hits : h <= j
  IN /\ hits # {}
     /\ \/ /\ i = 1
           /\ head' = next[w[1]] /\ nsp' = next[w[1]]
           /\ next' = [next EXCEPT ![w[1]] = NULL]
           /\ UNCHANGED tail
        \/ /\ i > 1
           /\ next' = [next EXCEPT ![w[i - 1]] = next[w[i]], ![w[i]] = NULL]
           /\ tail' = IF next[w[i]] = NULL THEN w[i - 1] ELSE tail
           /\ UNCHANGED <<head, nsp>>

(* val_host_rmi_granule_undelegate: the node found is removed and freed,   *)
(* which releases no storage.  When find and remove disagree the code      *)
(* dereferences NULL; the behaviour ends there.                            *)
Undelegate(addr) ==
  /\ Find(addr) # NULL
  /\ Unlink(addr)
  /\ UNCHANGED <<pa, used, away>>

(* val_host_update_granule_state: the node goes to a realm's list.         *)
Use(addr) ==
  /\ Find(addr) # NULL
  /\ Unlink(addr)
  /\ away' = away \cup {Find(addr)}
  /\ UNCHANGED <<pa, used>>

(* val_host_update_destroy_granule_state: a node comes back from a realm's *)
(* list, where its next field was set to NULL when it was taken out.       *)
GiveBack(c) ==
  /\ c \in away
  /\ away' = away \ {c}
  /\ Link(c, next)
  /\ UNCHANGED <<pa, used>>

(* The next test: val_host_reset_mem_tack clears the list heads of         *)
(* mem_track, val_host_mem_alloc_init frees all storage.  The postamble    *)
(* has emptied the lists, unless it failed.                                *)
ResetLists ==
  /\ PostambleMayFail \/ (nsp = NULL /\ away = {})
  /\ nsp' = NULL
  /\ used' = {}
  /\ away' = {}
  /\ UNCHANGED <<head, tail, next, pa>>

(* What the wrappers do to the lists without a new node.                   *)
ListStep ==
  \/ \E addr \in PA : Undelegate(addr) \/ Use(addr)
  \/ \E c \in Cells : GiveBack(c)

LNext ==
  \/ \E addr \in PA, c \in Cells \ used : Delegate(addr, c)
  \/ ListStep
  \/ ResetLists

LSpec == LInit /\ [][LNext]_lvars
-----------------------------------------------------------------------------
(* find walks the list that remove and the postamble walk, and tail is its *)
(* last node: otherwise add_granule loses nodes or links two lists.        *)
OneList ==
  /\ head = nsp
  /\ head # NULL => /\ Walk(head)[Len(Walk(head))] = tail
                    /\ next[tail] = NULL
  /\ \A i, j \in 1 .. Len(Walk(head)) : i # j => Walk(head)[i] # Walk(head)[j]
  /\ On(head) \cap away = {}

(* Every node that the present test has got and not freed is where the     *)
(* postamble looks for it: in a realm's list or in the NS list.  Freed     *)
(* nodes are those in neither list, so this is stated on the step: a       *)
(* node linked by add_granule is on the list at mem_track[0].gran_type.ns. *)
AddedIsTracked ==
  [][\A c \in Cells :
       (c \in used' \ used \/ c \in away \ away') /\ used' # {}
         => c \in On(nsp)']_lvars

(* The pointers implement a sequence.                                      *)
Granules == LET w == Walk(nsp) IN [i \in 1 .. Len(w) |-> pa[w[i]]]
Abstract == INSTANCE SeqList WITH seq <- Granules
ImplementsSequence == Abstract!Spec
=============================================================================
