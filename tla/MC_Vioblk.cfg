\* Driver safety and refinement: every call the driver accepts, two threads.
\* The code really can stop (a lost used_updated wake-up, a write that
\* returns holding io_lock: runs vioblk_lost_wakeup and vioblk_lock_leak),
\* so deadlock is not checked here.
CONSTANTS
  Threads = {t1, t2}
  NoThread = NoThread
  BLKSZ = 2
  NBLK = 2
  Vals = {0, 1}
  RingWrap = 4
  Calls <- MCCalls
SPECIFICATION Spec
INVARIANT TypeOK
INVARIANT ReadReturnsDiskData
INVARIANT OneRequestInFlight
PROPERTY BlockDeviceRefined
SYMMETRY ThreadSymmetry
CHECK_DEADLOCK FALSE
