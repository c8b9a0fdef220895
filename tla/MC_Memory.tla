---------------------------- MODULE MC_Memory ----------------------------
(* Executables for Memory, with PAGE_SIZE = 2 and IDX = 2: user virtual   *)
(* addresses are 8..15 (four pages) and USER_STACK_VMA is 16.            *)
EXTENDS Memory, TLC

Seg(type, vaddr, memsz, filesz, fl) ==
  [type |-> type, vaddr |-> vaddr, paddr |-> vaddr, memsz |-> memsz,
   filesz |-> filesz, flags |-> fl]

Exe(phdrs) == [err |-> 0, phdrs |-> phdrs, entry |-> 8]

\* Page-aligned segments, and the error paths of elf_load.
MCImages ==
  { \* text over two pages
    Exe(<<Seg("LOAD", 8, 3, 2, {"R", "X"})>>),
    \* text, a note header and data with a bss tail
    Exe(<<Seg("LOAD", 8, 2, 2, {"R", "X"}), Seg("OTHER", 0, 0, 0, {}),
          Seg("LOAD", 12, 2, 1, {"R", "W"})>>),
    \* bad magic (-2)
    [err |-> -2, phdrs |-> <<>>, entry |-> 8],
    \* second program header cannot be read (-5) after the first is loaded
    Exe(<<Seg("LOAD", 10, 2, 2, {"R", "X"}), Seg("SHORT", 0, 0, 0, {})>>),
    \* segment reaching past USER_STACK_VMA (-11)
    Exe(<<Seg("LOAD", 14, 4, 4, {"R"})>>),
    \* segment data shorter than p_filesz (-8)
    Exe(<<Seg("TRUNC", 12, 2, 2, {"R", "W"})>>) }

\* The two loadable executables above, for runs with fork.
MCForkImages ==
  { Exe(<<Seg("LOAD", 8, 3, 2, {"R", "X"})>>),
    Exe(<<Seg("LOAD", 8, 2, 2, {"R", "X"}), Seg("OTHER", 0, 0, 0, {}),
          Seg("LOAD", 12, 2, 1, {"R", "W"})>>) }

MCLoads == {"load"}

\* A data segment that starts inside a page and ends in the next one.
MCTailImages == { Exe(<<Seg("LOAD", 11, 2, 1, {"R", "W"})>>) }

=============================================================================
