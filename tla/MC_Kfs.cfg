\* File system safety and refinement: two threads, two slots, two files.
CONSTANTS
  Threads = {t1, t2}
  NoThread = NoThread
  n_a = n_a
  n_b = n_b
  n_c = n_c
  FS_BLKSZ = 2
  FS_MAXOPEN = 2
  NumData = 3
  NENTRY = 2
  SIZEOF_INODE = 4
  Vals = {0, 1}
  WORD = 16
  MaxHeld = 1
  Inodes <- MCInodes
  Dir <- MCDir
  Calls <- MCCalls
  InitData <- MCInitData
SPECIFICATION Spec
INVARIANT TypeOK
INVARIANT FilePositionInBounds
INVARIANT ReadReturnsFileData
PROPERTY FileStoreRefined
SYMMETRY ThreadSymmetry
