\* A data segment that starts inside a page and ends in the next one.
CONSTANTS
  Procs = {p0}
  MainProc = p0
  NPAGES = 8
  PAGE_SIZE = 2
  IDX = 2
  Images <- MCTailImages
  Accesses <- MCLoads
SPECIFICATION Spec
INVARIANT ElfLoadWritesMappedPages
CHECK_DEADLOCK FALSE
