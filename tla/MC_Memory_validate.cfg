\* A syscall checks a user buffer that starts inside a page.
CONSTANTS
  Procs = {p0}
  MainProc = p0
  NPAGES = 8
  PAGE_SIZE = 2
  IDX = 2
  Images <- MCImages
  Accesses <- MCLoads
SPECIFICATION Spec
INVARIANT ValidateVptrLenSound
CHECK_DEADLOCK FALSE
