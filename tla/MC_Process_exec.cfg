\* Open a program, exec it and exit, as run_program in shell.c does: the
\* handle given to process_exec is never closed and its kfs slot stays open.
CONSTANTS
  NPROC = 2
  Recs = {0, 1, 2}
  MAIN = 0
  PROCESS_IOMAX = 1
  FS_MAXOPEN = 2
  ForkMayFail = FALSE
  ReopenFds = FALSE
  MaxRefcnt = 2
  Sigs = {1}
INIT Init
NEXT Next
INVARIANT NoHandleLeak
CHECK_DEADLOCK FALSE
