\* The main process alone, through every path of elf_load; it only loads.
\* Deadlock is not checked: the process may exit or the kernel panic.
CONSTANTS
  Procs = {p0}
  MainProc = p0
  NPAGES = 8
  PAGE_SIZE = 2
  IDX = 2
  Images <- MCImages
  Accesses <- MCLoads
SPECIFICATION Spec
INVARIANTS PagesAccounted ElfLoadWritesMappedPages
CHECK_DEADLOCK FALSE
