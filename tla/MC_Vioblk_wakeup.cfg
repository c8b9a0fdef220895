\* One thread reading, under the fairness of the scheduler, the device and
\* the interrupt controller.  Deadlock is not checked: a lost wake-up leaves
\* the thread asleep for ever, which is what the property reports.
CONSTANTS
  Threads = {t1}
  NoThread = NoThread
  BLKSZ = 2
  NBLK = 2
  Vals = {0, 1}
  RingWrap = 4
  Calls <- MCReadCalls
SPECIFICATION FairSpec
PROPERTY CallsReturn
CHECK_DEADLOCK FALSE
