----------------------------- MODULE PageAlloc -----------------------------
(***************************************************************************)
(* The physical page allocator of memory.c: the free list built by         *)
(* memory_init, memory_alloc_page and memory_free_page, called by kernel   *)
(* threads that the timer may preempt between any two statements.  The    *)
(* list is intrusive: the next pointer of a free page is stored in the     *)
(* page itself (union linked_page), and memset of a page clears it.        *)
(*                                                                         *)
(* A page is a number in 1..NPAGES in address order; 0 is NULL.  Each      *)
(* call is split at the statements between which a preemption changes      *)
(* the outcome: alloc reads the head (274) and then unlinks it (275);      *)
(* free links the page to the head (309) and then publishes it (310).      *)
(***************************************************************************)
EXTENDS Naturals, FiniteSets, SequencesExt

CONSTANTS Threads,   \* kernel threads that allocate and free pages
          NPAGES,    \* pages between heap_end and RAM_END
          MaxHeld    \* pages a thread holds at once in the model

NULL == 0
Pages == 1..NPAGES

VARIABLES
  free_list,   \* the head pointer, static union linked_page *free_list
  next,        \* next[p]: the next field stored in page p
  held,        \* held[t]: pages thread t obtained from alloc and not yet freed
  pc,          \* where each thread is inside alloc or free
  page,        \* the local 'page' of the call in progress
  halted       \* TRUE once the kernel has panicked

vars == <<free_list, next, held, pc, page, halted>>

(* memory_init, 227-245: free_list is set to heap_end (page 1) before    *)
(* the loop pushes the pages from heap_end up to RAM_END, each linked to *)
(* the head before it; heap_end's page is linked to itself.              *)
InitNext(p) == IF p = 1 THEN 1 ELSE p - 1
Init ==
  /\ free_list = NPAGES
  /\ next = [p \in Pages |-> InitNext(p)]
  /\ held = [t \in Threads |-> {}]
  /\ pc = [t \in Threads |-> "idle"]
  /\ page = [t \in Threads |-> NULL]
  /\ halted = FALSE

Running == ~halted

\* panic(): the kernel stops.
Panic(t) == /\ halted' = TRUE
            /\ pc' = [pc EXCEPT ![t] = "panic"]
            /\ UNCHANGED <<free_list, next, held, page>>

(* memory_alloc_page, 264-274: panic on an empty list, else read the head. *)
alloc_head(t) ==
  /\ Running
  /\ pc[t] = "idle"
  /\ Cardinality(held[t]) < MaxHeld
  /\ IF free_list = NULL
       THEN Panic(t)
       ELSE /\ page' = [page EXCEPT ![t] = free_list]
            /\ pc' = [pc EXCEPT ![t] = "alloc_unlink"]
            /\ UNCHANGED <<free_list, next, held, halted>>

(* 275-281: free_list = free_list->next re-reads the head, then the page *)
(* is zeroed (clearing its next field) and returned.  A NULL head here   *)
(* is a load through NULL, a fatal fault.                                *)
alloc_unlink(t) ==
  /\ Running
  /\ pc[t] = "alloc_unlink"
  /\ IF free_list = NULL
       THEN Panic(t)
       ELSE /\ free_list' = next[free_list]
            /\ next' = [next EXCEPT ![page[t]] = NULL]
            /\ held' = [held EXCEPT ![t] = @ \cup {page[t]}]
            /\ pc' = [pc EXCEPT ![t] = "idle"]
            /\ page' = [page EXCEPT ![t] = NULL]
            /\ UNCHANGED halted

(* memory_free_page, 294-309: the page (aligned and non-NULL, as every   *)
(* page a caller holds is) is zeroed and its next set to the head.       *)
free_link(t, p) ==
  /\ Running
  /\ pc[t] = "idle"
  /\ p \in held[t]
  /\ next' = [next EXCEPT ![p] = free_list]
  /\ held' = [held EXCEPT ![t] = @ \ {p}]
  /\ page' = [page EXCEPT ![t] = p]
  /\ pc' = [pc EXCEPT ![t] = "free_publish"]
  /\ UNCHANGED <<free_list, halted>>

\* 310: free_list = page.
free_publish(t) ==
  /\ Running
  /\ pc[t] = "free_publish"
  /\ free_list' = page[t]
  /\ page' = [page EXCEPT ![t] = NULL]
  /\ pc' = [pc EXCEPT ![t] = "idle"]
  /\ UNCHANGED <<next, held, halted>>

Next ==
  \E t \in Threads :
     \/ alloc_head(t)
     \/ alloc_unlink(t)
     \/ free_publish(t)
     \/ \E p \in Pages : free_link(t, p)

Spec == Init /\ [][Next]_vars

-----------------------------------------------------------------------------
TypeOK ==
  /\ free_list \in Pages \cup {NULL}
  /\ next \in [Pages -> Pages \cup {NULL}]
  /\ held \in [Threads -> SUBSET Pages]
  /\ pc \in [Threads -> {"idle", "alloc_unlink", "free_publish", "panic"}]
  /\ page \in [Threads -> Pages \cup {NULL}]
  /\ halted \in BOOLEAN

(* The pages reached from free_list by following next, as a sequence,    *)
(* cut off after NPAGES + 1 hops so that a cycle shows as a repeat.      *)
RECURSIVE Chain(_, _)
Chain(p, k) == IF p = NULL \/ k = 0 THEN <<>> ELSE <<p>> \o Chain(next[p], k - 1)

FreeChain == Chain(free_list, NPAGES + 1)

FreeSet == ToSet(FreeChain)

(* Spec 8: every page on the free list is reachable exactly once from    *)
(* free_list: the chain ends in NULL and repeats no page.  A preemption  *)
(* between the two halves of memory_free_page or memory_alloc_page can   *)
(* link a page that is already on the list, or in use, into it.          *)
FreeListWellFormed ==
  /\ Len(FreeChain) <= NPAGES
  /\ IsInjective(FreeChain)

=============================================================================
