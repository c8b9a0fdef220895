\* A read of WORD - 1 bytes from position 1: file_position + n wraps past
\* zero, escapes the clamp, and the block loop runs past the end of the file.
CONSTANTS
  Threads = {t1}
  NoThread = NoThread
  n_a = n_a
  n_b = n_b
  n_c = n_c
  FS_BLKSZ = 2
  FS_MAXOPEN = 2
  NumData = 3
  NENTRY = 2
  SIZEOF_INODE = 4
  Vals = {0, 1}
  WORD = 16
  MaxHeld = 1
  Inodes <- MCInodes
  Dir <- MCDir
  Calls <- MCHugeCalls
  InitData <- MCInitData
SPECIFICATION Spec
INVARIANT FilePositionInBounds
