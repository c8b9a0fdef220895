\* Fork, open, close, exec, exit and signals among up to three processes, with
\* thread_fork_to_user allowed to fail and fds reopened while in use.
CONSTANTS
  NPROC = 2
  Recs = {0, 1, 2}
  MAIN = 0
  PROCESS_IOMAX = 1
  FS_MAXOPEN = 1
  ForkMayFail = TRUE
  ReopenFds = TRUE
  MaxRefcnt = 2
  Sigs = {1}
INIT Init
NEXT Next
INVARIANT TypeOK
INVARIANT NoPrematureClose
\* Once every process has called process_exit no system call is left to run:
\* the system really stops there.
CHECK_DEADLOCK FALSE
