\* A write that starts at (or runs into) the end of the device returns
\* through "return 0" at vioblk.c:462 without lock_release.
CONSTANTS
  Threads = {t1, t2}
  NoThread = NoThread
  BLKSZ = 2
  NBLK = 2
  Vals = {0, 1}
  RingWrap = 4
  Calls <- MCCalls
SPECIFICATION Spec
INVARIANT LockFreeWhenIdle
SYMMETRY ThreadSymmetry
CHECK_DEADLOCK FALSE
