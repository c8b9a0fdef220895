\* The main process and one slot for a child; eight physical pages, so
\* that a child's clone can run the pool dry.  User programs only load.
CONSTANTS
  Procs = {p0, p1}
  MainProc = p0
  NPAGES = 8
  PAGE_SIZE = 2
  IDX = 2
  Images <- MCForkImages
  Accesses <- MCLoads
SPECIFICATION Spec
INVARIANTS TypeOK PagesAccounted
PROPERTY ForkCopiesMappings
\* Every process may exit, and a panic stops the kernel: such states have
\* no successor in the real system either.
CHECK_DEADLOCK FALSE
