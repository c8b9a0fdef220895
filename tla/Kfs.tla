-------------------------------- MODULE Kfs --------------------------------
(***************************************************************************)
(* The file system of kfs.c: fs_open, fs_read, fs_write, fs_ioctl and      *)
(* fs_close called by kernel threads, serialised by fs_lock (the sleep     *)
(* lock of lock.h) except fs_close, which takes no lock.                   *)
(*                                                                         *)
(* The disk is [ boot block | NumInodes inode blocks | NumData data        *)
(* blocks ] of FS_BLKSZ bytes.  The file system reaches it only through    *)
(* the block device's setpos, read and write, which act as BlockDevice     *)
(* specifies (Vioblk is checked to implement it): a transfer is clamped to *)
(* the end of the device and SETPOS beyond the end fails.  The boot block  *)
(* and the inodes are constants (nothing writes them); the data blocks are *)
(* the variable data.                                                      *)
(*                                                                         *)
(* unsigned long and uint64_t are kept modulo WORD, a power of two         *)
(* standing for 2^64, because fs_read and fs_write compute                 *)
(* file_position + n in that width.                                        *)
(***************************************************************************)
EXTENDS Naturals, Sequences, FiniteSets

CONSTANTS Threads,       \* kernel threads making file system calls
          NoThread,      \* fs_lock.tid when the lock is free
          FS_BLKSZ,      \* bytes per block
          FS_MAXOPEN,    \* open-file slots (file_structs)
          NumData,       \* data blocks on the disk
          NENTRY,        \* entries of inode_t.data_block_num
          SIZEOF_INODE,  \* sizeof(struct inode_t), the code's block_index bound
          Inodes,        \* ino -> [byte_len, blocks: 0..NENTRY-1 -> data block]
          Dir,           \* the boot block's dentries: name -> ino
          Vals,          \* byte values
          InitData,      \* the contents the data blocks may start with
          WORD,          \* 2^64 in the model's width
          Calls,         \* the calls threads make: [op, arg, val] records
          MaxHeld        \* open files a thread holds at once in the model

ASSUME NoThread \notin Threads

NumInodes == Cardinality(DOMAIN Inodes)
Slots == 0..(FS_MAXOPEN - 1)
NoSlot == FS_MAXOPEN
DEVSIZE == (1 + NumInodes + NumData) * FS_BLKSZ
DataStart == (1 + NumInodes) * FS_BLKSZ
DataBytes == 0..(NumData * FS_BLKSZ - 1)

MinN(a, b) == IF a < b THEN a ELSE b

\* The byte offsets the code computes (kfs.c 223, 343, 384-387, 494, 534-536).
InodeOffset(ino) == FS_BLKSZ + ino * FS_BLKSZ
DataBlockOffset(dbn) == FS_BLKSZ + NumInodes * FS_BLKSZ + dbn * FS_BLKSZ

\* Bytes the block device transfers from offset off when asked for k.
DevCount(off, k) == IF off >= DEVSIZE THEN 0 ELSE MinN(k, DEVSIZE - off)

(* inode.data_block_num[bi].  An index past the array reads the bytes     *)
(* that follow the global inode buffer: any block number, valid or not.   *)
Entries(ino, bi) == IF bi < NENTRY THEN {Inodes[ino].blocks[bi]} ELSE 0..NumData

\* The setpos and the inode-sized read that fetch an inode succeed.
InodeReadOK(ino) == /\ InodeOffset(ino) <= DEVSIZE
                    /\ DevCount(InodeOffset(ino), FS_BLKSZ) = FS_BLKSZ

NoCall == [op |-> "none", arg |-> 0, val |-> 0]

Free == [pos |-> 0, size |-> 0, ino |-> 0, flags |-> 0]

VARIABLES
  file_structs,  \* the open-file table
  data,          \* the bytes of the data blocks
  fs_lock,       \* fs_lock.tid
  pc,            \* where each thread is
  call,          \* the call each thread is making
  fh,            \* the slot (io_intf) the call is on
  held,          \* the slots each thread has opened and not closed
  fpos,          \* local file_pos
  left,          \* local bytes_to_read / bytes_to_write
  buf            \* the bytes a read has copied to the caller so far

vars == <<file_structs, data, fs_lock, pc, call, fh, held, fpos, left, buf>>
locals == <<fpos, left, buf>>

(* fs_mount (kfs.c 104-143) has run: boot block read, fs_initialized set  *)
(* and every slot free.  The data blocks hold one of InitData.            *)
Init ==
  /\ file_structs = [s \in Slots |-> Free]
  /\ data \in InitData
  /\ fs_lock = NoThread
  /\ pc = [t \in Threads |-> "idle"]
  /\ call = [t \in Threads |-> NoCall]
  /\ fh = [t \in Threads |-> NoSlot]
  /\ held = [t \in Threads |-> {}]
  /\ fpos = [t \in Threads |-> 0]
  /\ left = [t \in Threads |-> 0]
  /\ buf = [t \in Threads |-> <<>>]

\* A thread calls into the file system on a slot it holds (or, for open, none).
Begin(t, c) ==
  /\ pc[t] = "idle"
  /\ c.op # "open" \/ Cardinality(held[t]) < MaxHeld
  /\ \E s \in (IF c.op = "open" THEN {NoSlot} ELSE held[t]) :
       /\ call' = [call EXCEPT ![t] = c]
       /\ fh' = [fh EXCEPT ![t] = s]
  /\ pc' = [pc EXCEPT ![t] = "acquire"]
  /\ UNCHANGED <<file_structs, data, fs_lock, held, fpos, left, buf>>

\* The ioctl commands are served by fs_ioctl.
IoctlCmds == {"getlen", "getpos", "setpos", "getblksz"}
Body(op) == IF op \in IoctlCmds THEN "ioctl" ELSE op

(* lock_acquire (lock.h): with interrupts disabled the caller takes the   *)
(* lock if it is free and otherwise sleeps until a release; a sleeping    *)
(* thread is one for which this action is not enabled.                    *)
lock_acquire(t) ==
  /\ pc[t] = "acquire"
  /\ fs_lock = NoThread
  /\ fs_lock' = t
  /\ pc' = [pc EXCEPT ![t] = Body(call[t].op)]
  /\ UNCHANGED <<file_structs, data, call, fh, held, fpos, left, buf>>

\* lock_release(&fs_lock) and return to the caller.
(* The call's locals end with it.                                         *)
Return(t) == /\ fs_lock' = NoThread
             /\ pc' = [pc EXCEPT ![t] = "idle"]
             /\ call' = [call EXCEPT ![t] = NoCall]
             /\ fh' = [fh EXCEPT ![t] = NoSlot]
             /\ fpos' = [fpos EXCEPT ![t] = 0]
             /\ left' = [left EXCEPT ![t] = 0]
             /\ buf' = [buf EXCEPT ![t] = <<>>]

(* fs_open, kfs.c 160-255: take the lowest free slot, look the name up in *)
(* the dentries, fetch the inode, fill the slot and mark it in use.  The  *)
(* position and inode number are stored before the inode fetch, so a      *)
(* failed fetch leaves them in a slot that stays free.                    *)
fs_open(t) ==
  LET free == {s \in Slots : file_structs[s].flags = 0}
      s == CHOOSE x \in free : \A y \in free : x <= y
      name == call[t].arg
  IN
  /\ pc[t] = "open"
  /\ Return(t)
  /\ IF free = {} \/ name \notin DOMAIN Dir
       THEN UNCHANGED <<file_structs, held>>
       ELSE LET ino == Dir[name]
                set == [file_structs EXCEPT ![s].pos = 0, ![s].ino = ino]
            IN IF ~InodeReadOK(ino)
                 THEN /\ file_structs' = set
                      /\ UNCHANGED held
                 ELSE /\ file_structs' = [set EXCEPT ![s].size = Inodes[ino].byte_len,
                                                     ![s].flags = 1]
                      /\ held' = [held EXCEPT ![t] = @ \cup {s}]
  /\ UNCHANGED data

(* fs_close, kfs.c 269-279, reached from ioclose when the last reference  *)
(* goes: it clears the slot's in-use flag without taking fs_lock.         *)
fs_close(t, s) ==
  /\ pc[t] = "idle"
  /\ s \in held[t]
  /\ file_structs' = [file_structs EXCEPT ![s].flags = 0]
  /\ held' = [held EXCEPT ![t] = @ \ {s}]
  /\ UNCHANGED <<data, fs_lock, pc, call, fh, fpos, left, buf>>

\* Mutant: fs_setpos without the new_pos > file_size check.
FsIoctlNoBound(t) ==
  LET s == fh[t]
      f == file_structs[s]
  IN
  /\ pc[t] = "ioctl"
  /\ Return(t)
  /\ IF f.flags # 0 /\ call[t].op = "setpos"
       THEN file_structs' = [file_structs EXCEPT ![s].pos = call[t].arg]
       ELSE UNCHANGED file_structs
  /\ UNCHANGED <<data, held>>

(* fs_ioctl, kfs.c 593-630, with fs_getlen/getpos/setpos/getblksz         *)
(* (645-740).  Only SETPOS changes state: fs_setpos refuses a position    *)
(* past file_size.  The default case (return -ENOTSUP with fs_lock held)  *)
(* is not reachable: sysioctl passes only these four commands.            *)
fs_ioctl(t) ==
  LET s == fh[t]
      f == file_structs[s]
  IN
  /\ pc[t] = "ioctl"
  /\ Return(t)
  /\ IF f.flags # 0 /\ call[t].op = "setpos" /\ call[t].arg <= f.size
       THEN file_structs' = [file_structs EXCEPT ![s].pos = call[t].arg]
       ELSE UNCHANGED file_structs
  /\ UNCHANGED <<data, held>>

(* fs_read, kfs.c 446-515: refuse a free slot, return 0 at or past the    *)
(* end, clamp n to the bytes left in the file (compared in the width of   *)
(* unsigned long), fetch the inode, and start the block loop.             *)
fs_read(t) ==
  LET f == file_structs[fh[t]]
      n == call[t].arg
      m == IF (f.pos + n) % WORD > f.size THEN f.size - f.pos ELSE n
  IN
  /\ pc[t] = "read"
  /\ IF f.flags = 0 \/ f.pos >= f.size \/ ~InodeReadOK(f.ino)
       THEN Return(t)
       ELSE /\ fpos' = [fpos EXCEPT ![t] = f.pos]
            /\ left' = [left EXCEPT ![t] = m]
            /\ buf' = [buf EXCEPT ![t] = <<>>]
            /\ pc' = [pc EXCEPT ![t] = "rloop"]
            /\ UNCHANGED <<fs_lock, call, fh>>
  /\ UNCHANGED <<file_structs, data, held>>

\* Mutant: bytes_this_read not limited to bytes_to_read.
ReadBlockNoMin(t) ==
  LET f == file_structs[fh[t]]
      bi == fpos[t] \div FS_BLKSZ
      bo == fpos[t] % FS_BLKSZ
      k == FS_BLKSZ - bo
  IN
  /\ pc[t] = "rloop"
  /\ left[t] > 0
  /\ bi < SIZEOF_INODE
  /\ \E dbn \in Entries(f.ino, bi) :
       LET off == DataBlockOffset(dbn) IN
       IF off > DEVSIZE \/ DevCount(off, FS_BLKSZ) # FS_BLKSZ
         THEN Return(t)
         ELSE /\ buf' = [buf EXCEPT ![t] =
                          @ \o [i \in 1..k |-> data[off - DataStart + bo + i - 1]]]
              /\ left' = [left EXCEPT ![t] = @ - k]
              /\ fpos' = [fpos EXCEPT ![t] = (@ + k) % WORD]
              /\ UNCHANGED <<fs_lock, pc, call, fh>>
  /\ UNCHANGED <<file_structs, data, held>>

\* Mutant: the copy out of data_block starts at the block, not block_offset.
ReadBlockNoOffset(t) ==
  LET f == file_structs[fh[t]]
      bi == fpos[t] \div FS_BLKSZ
      bo == fpos[t] % FS_BLKSZ
      k == MinN(left[t], FS_BLKSZ - bo)
  IN
  /\ pc[t] = "rloop"
  /\ left[t] > 0
  /\ bi < SIZEOF_INODE
  /\ \E dbn \in Entries(f.ino, bi) :
       LET off == DataBlockOffset(dbn) IN
       IF off > DEVSIZE \/ DevCount(off, FS_BLKSZ) # FS_BLKSZ
         THEN Return(t)
         ELSE /\ buf' = [buf EXCEPT ![t] =
                          @ \o [i \in 1..k |-> data[off - DataStart + i - 1]]]
              /\ left' = [left EXCEPT ![t] = @ - k]
              /\ fpos' = [fpos EXCEPT ![t] = (@ + k) % WORD]
              /\ UNCHANGED <<fs_lock, pc, call, fh>>
  /\ UNCHANGED <<file_structs, data, held>>

(* One iteration of fs_read's loop, kfs.c 517-566: the block is read     *)
(* whole into the bounce buffer data_block and the caller's part of it   *)
(* copied out.  A failed seek or short read returns -1 without updating  *)
(* file_position.                                                         *)
ReadBlock(t) ==
  LET f == file_structs[fh[t]]
      bi == fpos[t] \div FS_BLKSZ
      bo == fpos[t] % FS_BLKSZ
      k == MinN(left[t], FS_BLKSZ - bo)
  IN
  /\ pc[t] = "rloop"
  /\ left[t] > 0
  /\ bi < SIZEOF_INODE
  /\ \E dbn \in Entries(f.ino, bi) :
       LET off == DataBlockOffset(dbn) IN
       IF off > DEVSIZE \/ DevCount(off, FS_BLKSZ) # FS_BLKSZ
         THEN Return(t)
         ELSE /\ buf' = [buf EXCEPT ![t] =
                          @ \o [i \in 1..k |-> data[off - DataStart + bo + i - 1]]]
              /\ left' = [left EXCEPT ![t] = @ - k]
              /\ fpos' = [fpos EXCEPT ![t] = (@ + k) % WORD]
              /\ UNCHANGED <<fs_lock, pc, call, fh>>
  /\ UNCHANGED <<file_structs, data, held>>

(* The end of the read or write loop (kfs.c 375-377, 419-424, 524-526, 569-572): the loop  *)
(* ran out of bytes or broke at block_index >= sizeof(struct inode_t);   *)
(* file_position takes file_pos.                                          *)
LoopEnd(t) ==
  /\ pc[t] \in {"rloop", "wloop"}
  /\ left[t] = 0 \/ fpos[t] \div FS_BLKSZ >= SIZEOF_INODE
  /\ file_structs' = [file_structs EXCEPT ![fh[t]].pos = fpos[t]]
  /\ Return(t)
  /\ UNCHANGED <<data, held>>

(* fs_write, kfs.c 297-366: as fs_read (returning -2 on a free slot and   *)
(* -5 on a failed inode fetch), then the block loop.                      *)
fs_write(t) ==
  LET f == file_structs[fh[t]]
      n == call[t].arg
      m == IF (f.pos + n) % WORD > f.size THEN f.size - f.pos ELSE n
  IN
  /\ pc[t] = "write"
  /\ IF f.flags = 0 \/ f.pos >= f.size \/ ~InodeReadOK(f.ino)
       THEN Return(t)
       ELSE /\ fpos' = [fpos EXCEPT ![t] = f.pos]
            /\ left' = [left EXCEPT ![t] = m]
            /\ pc' = [pc EXCEPT ![t] = "wloop"]
            /\ UNCHANGED <<fs_lock, call, fh, buf>>
  /\ UNCHANGED <<file_structs, data, held>>

\* Mutant: the seek goes to the data block without + block_offset.
WriteBlockNoOffset(t) ==
  LET f == file_structs[fh[t]]
      bi == fpos[t] \div FS_BLKSZ
      bo == fpos[t] % FS_BLKSZ
      k == MinN(left[t], FS_BLKSZ - bo)
  IN
  /\ pc[t] = "wloop"
  /\ left[t] > 0
  /\ bi < SIZEOF_INODE
  /\ \E dbn \in Entries(f.ino, bi) :
       LET off == DataBlockOffset(dbn)
           done == DevCount(off, k)
       IN
       IF off > DEVSIZE
         THEN /\ Return(t)
              /\ UNCHANGED data
         ELSE /\ data' = [x \in DataBytes |->
                             IF off <= DataStart + x /\ DataStart + x < off + done
                               THEN call[t].val ELSE data[x]]
              /\ IF done # k
                   THEN Return(t)
                   ELSE /\ left' = [left EXCEPT ![t] = @ - k]
                        /\ fpos' = [fpos EXCEPT ![t] = (@ + k) % WORD]
                        /\ UNCHANGED <<fs_lock, pc, call, fh, buf>>
  /\ UNCHANGED <<file_structs, held>>

(* One iteration of fs_write's loop, kfs.c 368-416: seek to the byte     *)
(* inside the block and write this block's part from data_block.  A      *)
(* failed seek returns -6; a short device write (the device end) has     *)
(* already stored what it could and returns -7.                           *)
WriteBlock(t) ==
  LET f == file_structs[fh[t]]
      bi == fpos[t] \div FS_BLKSZ
      bo == fpos[t] % FS_BLKSZ
      k == MinN(left[t], FS_BLKSZ - bo)
  IN
  /\ pc[t] = "wloop"
  /\ left[t] > 0
  /\ bi < SIZEOF_INODE
  /\ \E dbn \in Entries(f.ino, bi) :
       LET off == DataBlockOffset(dbn) + bo
           done == DevCount(off, k)
       IN
       IF off > DEVSIZE
         THEN /\ Return(t)
              /\ UNCHANGED data
         ELSE /\ data' = [x \in DataBytes |->
                             IF off <= DataStart + x /\ DataStart + x < off + done
                               THEN call[t].val ELSE data[x]]
              /\ IF done # k
                   THEN Return(t)
                   ELSE /\ left' = [left EXCEPT ![t] = @ - k]
                        /\ fpos' = [fpos EXCEPT ![t] = (@ + k) % WORD]
                        /\ UNCHANGED <<fs_lock, pc, call, fh, buf>>
  /\ UNCHANGED <<file_structs, held>>

Next ==
  \E t \in Threads :
     \/ \E c \in Calls : Begin(t, c)
     \/ lock_acquire(t)
     \/ fs_open(t)
     \/ fs_ioctl(t)
     \/ fs_read(t)
     \/ ReadBlock(t)
     \/ fs_write(t)
     \/ WriteBlock(t)
     \/ LoopEnd(t)
     \/ \E s \in Slots : fs_close(t, s)

Spec == Init /\ [][Next]_vars
-----------------------------------------------------------------------------
TypeOK ==
  /\ file_structs \in [Slots -> [pos : 0..(WORD - 1), size : 0..(WORD - 1),
                                  ino : DOMAIN Inodes, flags : {0, 1}]]
  /\ data \in [DataBytes -> Vals]
  /\ fs_lock \in Threads \cup {NoThread}
  /\ pc \in [Threads -> {"idle", "acquire", "open", "ioctl", "read", "rloop",
                          "write", "wloop"}]
  /\ call \in [Threads -> Calls \cup {NoCall}]
  /\ fh \in [Threads -> Slots \cup {NoSlot}]
  /\ held \in [Threads -> SUBSET Slots]
  /\ fpos \in [Threads -> 0..(WORD - 1)]
  /\ left \in [Threads -> 0..(WORD - 1)]
  /\ buf \in [Threads -> Seq(Vals)]

\* Byte i of the file with inode ino, found through its block list.
FileByte(ino, i) ==
  data[DataBlockOffset(Inodes[ino].blocks[i \div FS_BLKSZ]) - DataStart + (i % FS_BLKSZ)]

(* Spec 5: every open file has 0 <= file_position <= file_size.  fs_read  *)
(* and fs_write clamp n so that the block loop stops at the end of the    *)
(* file; fs_setpos refuses a position past it.                            *)
FilePositionInBounds ==
  \A s \in Slots : file_structs[s].flags = 1 =>
                      file_structs[s].pos <= file_structs[s].size

(* While fs_read copies blocks, what it has handed to the caller is the   *)
(* file's bytes from the starting position up to file_pos, all inside the *)
(* file: the loop's block index, block offset and bounce-buffer copy      *)
(* agree with the file's layout on disk.                                  *)
ReadReturnsFileData ==
  \A t \in Threads : pc[t] = "rloop" =>
    LET f == file_structs[fh[t]]
        k == Len(buf[t])
    IN /\ k <= fpos[t]
       /\ fpos[t] <= f.size
       /\ \A i \in 1..k : buf[t][i] = FileByte(f.ino, fpos[t] - k + i - 1)

(* Refinement.  A read or write takes effect when fs_read or fs_write has *)
(* clamped n (it holds fs_lock from then to the end): from there on the   *)
(* slot's position is the one the loop will store, fpos + left, and the   *)
(* bytes a write has still to store are shown already written.            *)
Pending(ino, i) ==
  {t \in Threads : /\ pc[t] = "wloop"
                   /\ file_structs[fh[t]].ino = ino
                   /\ fpos[t] <= i /\ i < fpos[t] + left[t]}

MappedContents ==
  [ino \in DOMAIN Inodes |->
     [i \in 0..(Inodes[ino].byte_len - 1) |->
        IF Pending(ino, i) # {} THEN call[CHOOSE t \in Pending(ino, i) : TRUE].val
                                ELSE FileByte(ino, i)]]

InLoop(s) == {t \in Threads : pc[t] \in {"rloop", "wloop"} /\ fh[t] = s}

MappedPos(s) ==
  IF InLoop(s) # {} THEN LET t == CHOOSE u \in InLoop(s) : TRUE IN fpos[t] + left[t]
                   ELSE file_structs[s].pos

MappedHandle ==
  [s \in Slots |->
     IF file_structs[s].flags = 0
       THEN [open |-> FALSE, file |-> 0, pos |-> 0]
       ELSE [open |-> TRUE, file |-> file_structs[s].ino, pos |-> MappedPos(s)]]

FS == INSTANCE FileStore WITH
        Files <- DOMAIN Inodes,
        FLen <- [ino \in DOMAIN Inodes |-> Inodes[ino].byte_len],
        Counts <- {c.arg : c \in {d \in Calls : d.op \in {"read", "write"}}},
        Positions <- {c.arg : c \in {d \in Calls : d.op = "setpos"}},
        contents <- MappedContents,
        handle <- MappedHandle

(* The file system implements FileStore: every call is one atomic read,   *)
(* write, SETPOS, open or close of the abstract files.                    *)
FileStoreRefined == FS!Spec
=============================================================================
