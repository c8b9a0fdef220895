\* Two preemptible threads sharing the free list of three pages.
CONSTANTS
  Threads = {t1, t2}
  NPAGES = 3
  MaxHeld = 2
SPECIFICATION Spec
INVARIANT FreeListWellFormed
SYMMETRY ThreadSymmetry
CHECK_DEADLOCK FALSE
