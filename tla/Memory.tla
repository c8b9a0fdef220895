------------------------------- MODULE Memory -------------------------------
(***************************************************************************)
(* The virtual-memory manager of memory.c and the ELF loader of elf.c, as  *)
(* used by processes: exec (process_exec: memory_unmap_and_free_user, then *)
(* elf_load), user page faults (umode_excp_handler ->                      *)
(* memory_handle_page_fault), fork (memory_space_clone) and exit           *)
(* (memory_space_reclaim).                                                 *)
(*                                                                         *)
(* Each C function is an operator from a machine state                     *)
(*   [mem |-> page contents seen as page tables, free |-> the free list,   *)
(*    halt |-> "" or the reason the kernel panicked]                       *)
(* to a result [st |-> new machine state, ret |-> return value].  An       *)
(* address space is private to its process, and the free list is the only *)
(* state two processes share; its push and pop are taken as atomic here    *)
(* and their interleaving is the subject of PageAlloc.                     *)
(*                                                                         *)
(* Sv39 is kept with its three levels, but a table has IDX entries and a   *)
(* page PAGE_SIZE bytes.  Level-2 entry 0 is the kernel's global mapping;  *)
(* the user region is the part of the address space under the last        *)
(* level-2 entry.  Page contents other than PTEs are not modelled.         *)
(***************************************************************************)
EXTENDS Integers, Sequences, FiniteSets

CONSTANTS Procs,      \* process slots
          MainProc,   \* the process procmgr_init creates
          NPAGES,     \* physical pages on the free list
          PAGE_SIZE,  \* bytes per page
          IDX,        \* entries per page table
          Images,     \* executables processes exec
          Accesses    \* kinds of user access that may fault

ASSUME MainProc \in Procs

NULL == 0
Pages == 1..NPAGES
MainRoot == -2               \* main_pt2, the kernel's static root table
KernelPPN == -1              \* target of the kernel's global mapping
NoLoc == <<>>                \* a NULL struct pte *
Tables == Pages \cup {MainRoot}
Idx == 0..(IDX - 1)

NVPAGES == IDX * IDX * IDX
USER_START_VMA == (IDX - 1) * IDX * IDX * PAGE_SIZE
USER_END_VMA == NVPAGES * PAGE_SIZE
USER_STACK_VMA == USER_END_VMA
UserVAs == USER_START_VMA..(USER_END_VMA - 1)
UserPageVAs == {v \in UserVAs : v % PAGE_SIZE = 0}

\* VPN0/VPN1/VPN2: the index of vma's entry at a level.
VPN(level, vma) == ((vma \div PAGE_SIZE) \div (IDX ^ level)) % IDX

RWX == {"R", "W", "X"}
Flag == {"V", "R", "W", "X", "U", "G", "A", "D"}
\* PTE_FLAGS_MASK: the permission bits set_page_flags replaces (spec 4.B:
\* the flag byte is overwritten, A, D and V preserved).
PTE_FLAGS_MASK == {"R", "W", "X", "U", "G"}

ZeroPte == [flags |-> {}, ppn |-> NULL]
ZeroTable == [i \in Idx |-> ZeroPte]
\* leaf_pte(): rwxug_flags | A | D | V.
LeafPte(p, fl) == [flags |-> fl \cup {"A", "D", "V"}, ppn |-> p]
IsLeaf(e) == e.flags \cap RWX # {}

RoundDown(a) == (a \div PAGE_SIZE) * PAGE_SIZE
\* Mutant: round_up_size truncating instead of rounding up.
RoundUpTrunc(a) == (a \div PAGE_SIZE) * PAGE_SIZE
RoundUp(a) == ((a + PAGE_SIZE - 1) \div PAGE_SIZE) * PAGE_SIZE
Aligned(a) == a % PAGE_SIZE = 0

\* A free_page of an address that is not a RAM page (see Rollback).
NotRam(va) == NPAGES + 1 + va \div PAGE_SIZE

VARIABLES
  mem,      \* mem[t][i]: entry i of page t read as a page table
  free,     \* the free list, head first
  halt,     \* "" while running, else why the kernel panicked
  status,   \* status[q]: "free", "live" or "exited" (proctab keeps it)
  mtag      \* mtag[q]: root table of q's address space

vars == <<mem, free, halt, status, mtag>>

Machine == [mem |-> mem, free |-> free, halt |-> halt]
Res(s, r) == [st |-> s, ret |-> r]
Panic(s, why) == [s EXCEPT !.halt = why]
Pte(s, loc) == s.mem[loc[1]][loc[2]]
SetPte(s, loc, e) == [s EXCEPT !.mem[loc[1]][loc[2]] = e]

-----------------------------------------------------------------------------
(* memory_alloc_page, 264-282: pop the head and zero it.  free lists the *)
(* pages before the link memory_init leaves from heap_end's page to      *)
(* itself (memory.c 227, 243): once free is empty the code's head is     *)
(* heap_end's page, already handed out, and the next call hands it out   *)
(* again (PageAlloc shows this).  The model stops there.                 *)
AllocPage(s) ==
  IF s.free = <<>>
    THEN Res(Panic(s, "heap_end page reissued"), NULL)
    ELSE Res([s EXCEPT !.free = Tail(@), !.mem[Head(s.free)] = ZeroTable],
             Head(s.free))

(* memory_free_page, 294-312: zero the page and push it. *)
FreePage(s, p) == [s EXCEPT !.free = <<p>> \o @, !.mem[p] = ZeroTable]

(* walk_pt, 814-859: from level 2 down to 1, descend through a valid     *)
(* non-leaf entry, stop at a leaf, and create a zeroed table for an      *)
(* invalid entry if create is set.  Returns the location <<table, index>> *)
(* of the level-0 PTE, or NoLoc.                                         *)
RECURSIVE WalkLevel(_, _, _, _, _)
WalkLevel(s, pt, vma, create, level) ==
  IF level = 0 THEN Res(s, <<pt, VPN(0, vma)>>)
  ELSE LET e == s.mem[pt][VPN(level, vma)] IN
       IF "V" \in e.flags
         THEN IF IsLeaf(e) THEN Res(s, NoLoc)
              ELSE WalkLevel(s, e.ppn, vma, create, level - 1)
       ELSE IF ~create THEN Res(s, NoLoc)
       ELSE LET a == AllocPage(s) IN
            IF a.st.halt # "" THEN Res(a.st, NoLoc)
            ELSE WalkLevel(SetPte(a.st, <<pt, VPN(level, vma)>>,
                                  [flags |-> {"V"}, ppn |-> a.ret]),
                           a.ret, vma, create, level - 1)

walk_pt(s, root, vma, create) == WalkLevel(s, root, vma, create, 2)

\* The valid level-0 PTE mapping vma, or ZeroPte.
Mapped(s, root, vma) ==
  LET w == walk_pt(s, root, vma, FALSE) IN
  IF w.ret # NoLoc /\ "V" \in Pte(s, w.ret).flags THEN Pte(s, w.ret) ELSE ZeroPte
(* memory_alloc_and_map_page, 555-583: a misaligned vma gives NULL; else *)
(* take a page, walk with create and install a leaf PTE over whatever    *)
(* the slot held.                                                        *)
memory_alloc_and_map_page(s, root, vma, fl) ==
  IF ~Aligned(vma) THEN Res(s, NULL)
  ELSE LET a == AllocPage(s)
           w == walk_pt(a.st, root, vma, TRUE)
       IN IF a.st.halt # "" THEN a
          ELSE IF w.st.halt # "" THEN Res(w.st, NULL)
          ELSE IF w.ret = NoLoc THEN Res(FreePage(w.st, a.ret), NULL)
          ELSE Res(SetPte(w.st, w.ret, LeafPte(a.ret, fl)), vma)

(* 437-449: on failure the k pages already mapped are "rolled back" by    *)
(* memory_free_page of their virtual addresses, which are not RAM pages, *)
(* and they stay mapped.                                                 *)
Rollback(s, start, k) ==
  [s EXCEPT !.free = [i \in 1..k |-> NotRam(start + (k - i) * PAGE_SIZE)] \o @]

RECURSIVE MapPagesFrom(_, _, _, _, _, _)
MapPagesFrom(s, root, start, k, n, fl) ==
  IF k = n THEN Res(s, start)
  ELSE LET r == memory_alloc_and_map_page(s, root, start + k * PAGE_SIZE, fl) IN
       IF r.st.halt # "" THEN r
       ELSE IF r.ret = NULL THEN Res(Rollback(r.st, start, k), NULL)
       ELSE MapPagesFrom(r.st, root, start, k + 1, n, fl)

(* memory_alloc_and_map_range, 423-455: the results of round_down_addr   *)
(* and round_up_addr are discarded, so the loop maps size / PAGE_SIZE    *)
(* pages from vma as given.                                              *)
memory_alloc_and_map_range(s, root, vma, size, fl) ==
  MapPagesFrom(s, root, vma, 0, size \div PAGE_SIZE, fl)

(* memory_set_page_flags, 326-350: misaligned, unmapped or invalid:      *)
(* nothing; else replace the permission bits.                            *)
memory_set_page_flags(s, root, vp, fl) ==
  LET w == walk_pt(s, root, vp, FALSE) IN
  IF ~Aligned(vp) \/ w.ret = NoLoc THEN s
  ELSE IF "V" \notin Pte(s, w.ret).flags THEN s
  ELSE SetPte(s, w.ret, [Pte(s, w.ret) EXCEPT
                           !.flags = (@ \ PTE_FLAGS_MASK) \cup fl])

RECURSIVE SetFlagsFrom(_, _, _, _, _)
SetFlagsFrom(s, root, vp, n, fl) ==
  IF n = 0 THEN s
  ELSE SetFlagsFrom(memory_set_page_flags(s, root, vp, fl),
                    root, vp + PAGE_SIZE, n - 1, fl)

(* memory_set_range_flags, 471-489: rounding discarded as above.         *)
memory_set_range_flags(s, root, vp, size, fl) ==
  SetFlagsFrom(s, root, vp, size \div PAGE_SIZE, fl)

\* Mutant: the PTE is cleared but the page is not freed.
RECURSIVE UnmapNoFree(_, _, _)
UnmapNoFree(s, root, va) ==
  IF va >= USER_END_VMA THEN s
  ELSE LET w == walk_pt(s, root, va, FALSE)
           e == Pte(s, w.ret)
       IN UnmapNoFree(IF w.ret # NoLoc /\ "V" \in e.flags /\ "U" \in e.flags /\ IsLeaf(e)
                        THEN SetPte(s, w.ret, [e EXCEPT !.flags = {}])
                        ELSE s,
                      root, va + PAGE_SIZE)

(* memory_unmap_and_free_user, 500-532: for every user page whose PTE is *)
(* valid, U and a leaf, clear its flags (the ppn stays) and free the     *)
(* page, in increasing address order.                                    *)
RECURSIVE UnmapFrom(_, _, _)
UnmapFrom(s, root, va) ==
  IF va >= USER_END_VMA THEN s
  ELSE LET w == walk_pt(s, root, va, FALSE)
           e == Pte(s, w.ret)
       IN UnmapFrom(IF w.ret # NoLoc /\ "V" \in e.flags /\ "U" \in e.flags /\ IsLeaf(e)
                      THEN FreePage(SetPte(s, w.ret, [e EXCEPT !.flags = {}]), e.ppn)
                      ELSE s,
                    root, va + PAGE_SIZE)

memory_unmap_and_free_user(s, root) == UnmapFrom(s, root, USER_START_VMA)

\* Mutant: the PTE is zeroed before its ppn is read for the free.
RECURSIVE ReclaimZeroFirst(_, _, _)
ReclaimZeroFirst(s, root, va) ==
  IF va >= USER_END_VMA THEN s
  ELSE LET w == walk_pt(s, root, va, FALSE)
           e == Pte(s, w.ret)
       IN ReclaimZeroFirst(IF w.ret # NoLoc /\ "V" \in e.flags /\ "G" \notin e.flags /\ IsLeaf(e)
                             THEN FreePage(SetPte(s, w.ret, ZeroPte), NULL)
                             ELSE s,
                           root, va + PAGE_SIZE)

(* memory_space_reclaim, 365-405: free every valid, non-global leaf of   *)
(* the user range and zero its PTE; the tables and root are not freed.   *)
RECURSIVE ReclaimFrom(_, _, _)
ReclaimFrom(s, root, va) ==
  IF va >= USER_END_VMA THEN s
  ELSE LET w == walk_pt(s, root, va, FALSE)
           e == Pte(s, w.ret)
       IN ReclaimFrom(IF w.ret # NoLoc /\ "V" \in e.flags /\ "G" \notin e.flags /\ IsLeaf(e)
                        THEN SetPte(FreePage(s, e.ppn), w.ret, ZeroPte)
                        ELSE s,
                      root, va + PAGE_SIZE)

memory_space_reclaim(s, root) == ReclaimFrom(s, root, USER_START_VMA)
\* Mutant: the child PTE points at the parent's page (no copy).
RECURSIVE CloneShallow(_, _, _, _)
CloneShallow(s, proot, croot, va) ==
  IF va >= USER_END_VMA \/ s.halt # "" THEN s
  ELSE LET pe == Mapped(s, proot, va)
           c == walk_pt(s, croot, va, TRUE)
       IN IF "V" \notin pe.flags THEN CloneShallow(s, proot, croot, va + PAGE_SIZE)
          ELSE IF c.st.halt # "" THEN c.st
          ELSE CloneShallow(SetPte(c.st, c.ret, pe), proot, croot, va + PAGE_SIZE)

\* Mutant: the loop stops one page short of USER_END_VMA.
RECURSIVE CloneSkipLast(_, _, _, _)
CloneSkipLast(s, proot, croot, va) ==
  IF va >= USER_END_VMA - PAGE_SIZE \/ s.halt # "" THEN s
  ELSE LET pe == Mapped(s, proot, va)
           c == walk_pt(s, croot, va, TRUE)
           a == AllocPage(c.st)
       IN IF "V" \notin pe.flags THEN CloneSkipLast(s, proot, croot, va + PAGE_SIZE)
          ELSE IF a.st.halt # "" THEN a.st
          ELSE CloneSkipLast(SetPte(a.st, c.ret,
                                    [ppn |-> a.ret,
                                     flags |-> Pte(a.st, c.ret).flags \cup pe.flags]),
                             proot, croot, va + PAGE_SIZE)

(* memory_space_clone, 763-785: for each user page valid in the parent,  *)
(* walk the child with create, take a fresh page, point the child PTE at *)
(* it and or the parent's flags into it (the contents are copied).       *)
RECURSIVE CloneFrom(_, _, _, _)
CloneFrom(s, proot, croot, va) ==
  IF va >= USER_END_VMA \/ s.halt # "" THEN s
  ELSE LET pe == Mapped(s, proot, va)
           c == walk_pt(s, croot, va, TRUE)
           a == AllocPage(c.st)
       IN IF "V" \notin pe.flags THEN CloneFrom(s, proot, croot, va + PAGE_SIZE)
          ELSE IF a.st.halt # "" THEN a.st
          ELSE CloneFrom(SetPte(a.st, c.ret,
                                [ppn |-> a.ret,
                                 flags |-> Pte(a.st, c.ret).flags \cup pe.flags]),
                         proot, croot, va + PAGE_SIZE)

(* memory_space_clone, 739-793: a fresh zeroed root holding the G        *)
(* entries of main_pt2, then the user pages.  Returns the child's root.  *)
memory_space_clone(s, proot) ==
  LET a == AllocPage(s)
      r == a.ret
      s1 == [a.st EXCEPT !.mem[r] =
               [i \in Idx |-> IF "G" \in s.mem[MainRoot][i].flags
                                THEN s.mem[MainRoot][i] ELSE ZeroPte]]
  IN IF a.st.halt # "" THEN a ELSE Res(CloneFrom(s1, proot, r, USER_START_VMA), r)

(* memory_handle_page_fault, 594-635: a fault outside the user region or *)
(* whose walk finds no PTE panics; otherwise a fresh R|W|U page is       *)
(* mapped at the page of the address, whatever the PTE held before.      *)
memory_handle_page_fault(s, root, vptr) ==
  LET va == RoundDown(vptr)
      w == walk_pt(s, root, va, TRUE)
      m == memory_alloc_and_map_page(w.st, root, va, {"R", "W", "U"})
  IN IF vptr < USER_START_VMA \/ vptr >= USER_END_VMA THEN Panic(s, "fault outside user space")
     ELSE IF w.st.halt # "" THEN w.st
     ELSE IF w.ret = NoLoc THEN Panic(w.st, "PTE not found")
     ELSE IF m.st.halt # "" THEN m.st
     ELSE IF m.ret = NULL THEN Panic(m.st, "allocation failed")
     ELSE m.st

(* memory_validate_vptr_len, 650-678: 0 if len > 0 and the page of each *)
(* of vp, vp + PAGE_SIZE, ... below vp + len is valid with all of the    *)
(* flags, else -1.  The start is not rounded down (660).                 *)
memory_validate_vptr_len(s, root, vp, len, fl) ==
  IF len = 0 THEN -1
  ELSE IF \A k \in 0..((len - 1) \div PAGE_SIZE) :
            LET e == Mapped(s, root, vp + k * PAGE_SIZE) IN
            "V" \in e.flags /\ fl \subseteq e.flags
       THEN 0 ELSE -1

-----------------------------------------------------------------------------
(* An executable: err is the result of the header checks (0 if they     *)
(* pass, else -1, -2, -3 or -9), phdrs its program headers, entry its    *)
(* entry point.  A program header is [type, vaddr, paddr, memsz, filesz, *)
(* flags] with type "LOAD", "OTHER", "SHORT" (the header cannot be read whole)  *)
(* or "TRUNC" (a PT_LOAD whose file data is short).                      *)

\* Every byte of [a, a + n) lies in a valid writable page: the kernel
\* (with SUM set) can store there without a fault.
Writable(s, root, a, n) ==
  \A b \in a..(a + n - 1) : {"V", "W"} \subseteq Mapped(s, root, RoundDown(b)).flags

(* elf_load, 81-140: one program header per step.                        *)
RECURSIVE LoadPhdrs(_, _, _)
LoadPhdrs(s, root, phs) ==
  IF phs = <<>> THEN Res(s, 0)
  ELSE LET ph == Head(phs)
           base == RoundDown(ph.vaddr)
           size == RoundUp(ph.memsz)
           fl == ph.flags \cup {"U"}
           m == memory_alloc_and_map_range(s, root, base, size, fl \cup {"W"})
       IN IF ph.type = "SHORT" THEN Res(s, -5)
          ELSE IF ph.vaddr + ph.memsz > USER_STACK_VMA THEN Res(s, -11)
          ELSE IF ph.type = "OTHER" THEN LoadPhdrs(s, root, Tail(phs))
          ELSE IF ph.vaddr < USER_START_VMA \/ ph.vaddr + ph.memsz > USER_END_VMA
            THEN Res(s, -6)
          ELSE IF m.st.halt # "" THEN m
          ELSE IF m.ret = NULL THEN Res(m.st, -10)
          \* ioread_full into p_paddr (126), then memset of the bss tail
          ELSE IF ~Writable(m.st, root, ph.paddr, ph.filesz)
            THEN Res(Panic(m.st, "kernel page fault"), -8)
          ELSE IF ph.type = "TRUNC" THEN Res(m.st, -8)
          ELSE IF ~Writable(m.st, root, ph.vaddr + ph.filesz, ph.memsz - ph.filesz)
            THEN Res(Panic(m.st, "kernel page fault"), -8)
          ELSE LoadPhdrs(memory_set_range_flags(m.st, root, base, size, fl),
                         root, Tail(phs))

elf_load(s, root, img) ==
  IF img.err # 0 THEN Res(s, img.err) ELSE LoadPhdrs(s, root, img.phdrs)
-----------------------------------------------------------------------------
(* The kernel's root maps the kernel with a global leaf; the pages of the *)
(* free list are pushed in address order by memory_init (227-245), page  *)
(* 1 being heap_end's; the main process runs in the kernel's address     *)
(* space (procmgr_init).                                                 *)
Init ==
  /\ mem = [t \in Tables |->
              IF t = MainRoot
                THEN [i \in Idx |->
                        IF i = 0 THEN [flags |-> {"V", "R", "W", "X", "G", "A", "D"},
                                       ppn |-> KernelPPN]
                        ELSE ZeroPte]
                ELSE ZeroTable]
  /\ free = [i \in 1..NPAGES |-> NPAGES + 1 - i]
  /\ halt = ""
  /\ status = [q \in Procs |-> IF q = MainProc THEN "live" ELSE "free"]
  /\ mtag = [q \in Procs |-> IF q = MainProc THEN MainRoot ELSE NULL]

Apply(s) == /\ mem' = s.mem
            /\ free' = s.free
            /\ halt' = s.halt

Running(q) == halt = "" /\ status[q] = "live"

(* process_exec, 97-137: unmap the user region, then elf_load.  A failed *)
(* load returns -1 with whatever it mapped left in place.                *)
process_exec(q, img) ==
  /\ Running(q)
  /\ Apply(elf_load(memory_unmap_and_free_user(Machine, mtag[q]), mtag[q], img).st)
  /\ UNCHANGED <<status, mtag>>

\* The permission a user access needs.
Need == [load |-> "R", store |-> "W", fetch |-> "X"]

(* A user access to va traps when its page is not valid, not U or lacks  *)
(* the permission; umode_excp_handler (excp.c 78-81) passes every page   *)
(* fault to memory_handle_page_fault.                                    *)
umode_page_fault(q, va, acc) ==
  /\ Running(q)
  /\ ~({"V", "U", Need[acc]} \subseteq Mapped(Machine, mtag[q], RoundDown(va)).flags)
  /\ Apply(memory_handle_page_fault(Machine, mtag[q], va))
  /\ UNCHANGED <<status, mtag>>

(* sysfork, 335-387: claim a free proctab slot for the child, whose      *)
(* address space is memory_space_clone of the parent's.                  *)
sysfork(q, r) ==
  /\ Running(q)
  /\ status[r] = "free"
  /\ LET c == memory_space_clone(Machine, mtag[q]) IN
       /\ Apply(c.st)
       /\ status' = [status EXCEPT ![r] = "live"]
       /\ mtag' = [mtag EXCEPT ![r] = c.ret]

(* process_exit, 145-165: memory_space_reclaim; the slot stays taken.     *)
process_exit(q) ==
  /\ Running(q)
  /\ Apply(memory_space_reclaim(Machine, mtag[q]))
  /\ status' = [status EXCEPT ![q] = "exited"]
  /\ UNCHANGED mtag

Next ==
  \E q \in Procs :
     \/ \E img \in Images : process_exec(q, img)
     \/ \E va \in UserVAs, acc \in Accesses : umode_page_fault(q, va, acc)
     \/ \E r \in Procs : sysfork(q, r)
     \/ process_exit(q)

Spec == Init /\ [][Next]_vars
-----------------------------------------------------------------------------
Reasons == {"", "heap_end page reissued", "fault outside user space", "PTE not found",
            "allocation failed", "kernel page fault"}

TypeOK ==
  /\ mem \in [Tables -> [Idx -> [flags : SUBSET Flag,
                                 ppn : Pages \cup {NULL, KernelPPN}]]]
  /\ free \in Seq(Pages)
  /\ halt \in Reasons
  /\ status \in [Procs -> {"free", "live", "exited"}]
  /\ mtag \in [Procs -> Tables \cup {NULL}]

\* The tables of the three levels under a root.
Children(t) == {mem[t][i].ppn : i \in {j \in Idx : "V" \in mem[t][j].flags
                                                   /\ ~IsLeaf(mem[t][j])}}
TablesUnder(root) == {root} \cup Children(root)
                       \cup UNION {Children(c) : c \in Children(root)}

(* Physical pages are neither lost nor shared: while the kernel runs,     *)
(* every page is on the free list exactly once, or else is the root of   *)
(* one process slot or the target of exactly one valid PTE in the tables *)
(* of one slot.  (An exited process keeps its root and tables: the       *)
(* reclaim leak spec 4.B accepts.)  Broken if a leaf is installed over a *)
(* valid one (memory_alloc_and_map_page, memory_handle_page_fault), if a *)
(* page is freed twice or while mapped, or if clone shares a page.       *)
PagesAccounted ==
  LET Owned == {q \in Procs : status[q] # "free"}
      RefSet == UNION {{<<q, t, i>> : t \in TablesUnder(mtag[q]), i \in Idx} : q \in Owned}
      Refs(p) == Cardinality({x \in RefSet : "V" \in mem[x[2]][x[3]].flags
                                              /\ mem[x[2]][x[3]].ppn = p})
                 + Cardinality({q \in Owned : mtag[q] = p})
      OnFree(p) == Cardinality({i \in 1..Len(free) : free[i] = p})
  IN halt = "" => \A p \in Pages : OnFree(p) + Refs(p) = 1

\* The permissions of each user page in the address space under root.
UserMapping(m, root) ==
  [va \in UserPageVAs |-> Mapped([mem |-> m], root, va).flags]

(* Spec 4.B: after fork the child's user pages are mapped exactly as the  *)
(* parent's, with the same flags, and the parent's mapping is untouched:  *)
(* memory_space_clone walks every user page of the parent and builds the *)
(* child's tables with walk_pt(create).                                  *)
ForkCopiesMappings ==
  [][\A r \in Procs :
       (status[r] = "free" /\ status'[r] = "live" /\ halt' = "") =>
         \E p \in Procs :
            /\ status[p] = "live"
            /\ UserMapping(mem', mtag'[r]) = UserMapping(mem, mtag[p])
            /\ UserMapping(mem', mtag[p]) = UserMapping(mem, mtag[p])]_vars

(* elf_load stores the file data at p_paddr and zeroes the bss tail only *)
(* in pages it mapped writable itself: loading a valid executable never  *)
(* takes a kernel page fault.                                            *)
ElfLoadWritesMappedPages == halt # "kernel page fault"

\* The checks syscall.c makes of user buffers (sysread, syswrite).
ValidateFlags == {{"W", "U"}, {"R", "U"}}

(* Spec 4.B: validate_vptr_len succeeds only if every page touched by    *)
(* [vp, vp + len) is mapped with all the flags.  The loop steps from the *)
(* unrounded vp (memory.c 660-667).                                      *)
ValidateVptrLenSound ==
  \A q \in Procs, vp \in UserVAs, len \in 1..(2 * PAGE_SIZE), fl \in ValidateFlags :
     (/\ status[q] = "live"
      /\ vp + len <= USER_END_VMA
      /\ memory_validate_vptr_len(Machine, mtag[q], vp, len, fl) = 0)
       => \A b \in vp..(vp + len - 1) :
            fl \cup {"V"} \subseteq Mapped(Machine, mtag[q], RoundDown(b)).flags

=============================================================================
