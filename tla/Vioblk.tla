------------------------------- MODULE Vioblk -------------------------------
(***************************************************************************)
(* The VirtIO block driver (src/kern/vioblk.c) with the sleep lock that    *)
(* serialises it (src/kern/lock.h), the used_updated condition its ISR     *)
(* broadcasts, and the device on the far side of the one-slot virtqueue.   *)
(*                                                                         *)
(* Every kernel thread in Threads makes one driver call at a time: an      *)
(* ioctl (SETPOS, GETPOS), a read or a write.  A call is split at the      *)
(* points where another thread, the device or the ISR can act: the lock    *)
(* acquire, each request submission, and each condition_wait.  Sections   *)
(* the code runs with interrupts disabled (the test-and-sleep in           *)
(* lock_acquire, intr_disable + condition_wait) are single steps.          *)
(***************************************************************************)
EXTENDS Integers, Sequences

CONSTANTS Threads,   \* kernel threads calling into the driver
          NoThread,  \* lk->tid == -1
          BLKSZ,     \* dev->blksz
          NBLK,      \* dev->blkcnt
          Vals,      \* byte values
          Calls,     \* calls the threads make: [op, arg, val] records
          RingWrap   \* avail.idx / used.idx wrap (2^16 in the code)

ASSUME NoThread \notin Threads

SIZE == BLKSZ * NBLK          \* dev->size
Bytes == 0..(SIZE - 1)
EINVAL == -1                  \* stands for -EINVAL

VARIABLES
  disk,          \* device storage
  pos,           \* dev->pos
  blkbuf,        \* dev->blkbuf, the bounce buffer the device DMAs to/from
  reqType,       \* dev->vq.req_header.type
  reqSector,     \* dev->vq.req_header.sector
  availIdx,      \* dev->vq.avail.idx
  usedIdx,       \* dev->vq.used.idx (written by the device)
  intStatus,     \* virtqueue bit of regs->interrupt_status
  lockTid,       \* dev->io_lock.tid
  lockWaiters,   \* threads asleep in condition_wait(&io_lock.cond)
  usedWaiters,   \* threads asleep in condition_wait(&vq.used_updated)
  pc,            \* per thread: where in the driver it is
  call,          \* per thread: the call being made
  total,         \* per thread: total_read / total_written
  off,           \* per thread: sector_offset of the current block
  chunk,         \* per thread: bytes_this_read / bytes_this_write
  buf            \* per thread: bytes copied out to the caller's buffer

devVars == <<disk, pos, blkbuf, reqType, reqSector, availIdx, usedIdx, intStatus>>
lockVars == <<lockTid, lockWaiters, usedWaiters>>
thrVars == <<pc, call, total, off, chunk, buf>>
vars == <<devVars, lockVars, thrVars>>

MinNat(a, b) == IF a < b THEN a ELSE b

\* The labels of a call in progress, and the wait label -> resume label map.
ReadLabels == {"rloop", "rwait", "rcopy"}
WriteLabels == {"wloop", "wrmw", "wfill", "wwait", "wdone"}
BodyLabels == {"ioctl"} \cup ReadLabels \cup WriteLabels
Resume == [rwait |-> "rcopy", wrmw |-> "wfill", wwait |-> "wdone"]

Blocked(t) == t \in lockWaiters \/ t \in usedWaiters

\* The call's arguments and locals live on the thread's stack; on return
\* they are gone, and the thread is back to idle.
NoCall == CHOOSE c \in Calls : TRUE
Return(t) == /\ pc' = [pc EXCEPT ![t] = "idle"]
             /\ call' = [call EXCEPT ![t] = NoCall]
             /\ total' = [total EXCEPT ![t] = 0]
             /\ off' = [off EXCEPT ![t] = 0]
             /\ chunk' = [chunk EXCEPT ![t] = 0]
             /\ buf' = [buf EXCEPT ![t] = <<>>]

-----------------------------------------------------------------------------
(* Initial state: what vioblk_attach and vioblk_open leave behind.  blkbuf *)
(* comes from kmalloc and is never cleared, so it may hold any bytes.      *)

Init ==
  /\ disk \in [Bytes -> Vals]
  /\ pos = 0
  /\ blkbuf \in [0..(BLKSZ - 1) -> Vals]
  /\ reqType = "IN"
  /\ reqSector = 0
  /\ availIdx = 0
  /\ usedIdx = 0
  /\ intStatus = FALSE
  /\ lockTid = NoThread
  /\ lockWaiters = {}
  /\ usedWaiters = {}
  /\ pc = [t \in Threads |-> "idle"]
  /\ call = [t \in Threads |-> NoCall]
  /\ total = [t \in Threads |-> 0]
  /\ off = [t \in Threads |-> 0]
  /\ chunk = [t \in Threads |-> 0]
  /\ buf = [t \in Threads |-> <<>>]

-----------------------------------------------------------------------------
(* lock.h *)

\* lock_release: tid = -1, then broadcast to every sleeper on the lock.
lock_release == /\ lockTid' = NoThread
                /\ lockWaiters' = {}

\* lock_acquire, lock free: take it (test and set with interrupts off).
AcquireLock(t) ==
  /\ pc[t] = "acquire"
  /\ ~Blocked(t)
  /\ lockTid = NoThread
  /\ lockTid' = t
  /\ pc' = [pc EXCEPT ![t] = CASE call[t].op \in {"setpos", "getpos"} -> "ioctl"
                               [] call[t].op = "read" -> "rloop"
                               [] call[t].op = "write" -> "wloop"]
  /\ UNCHANGED <<devVars, lockWaiters, usedWaiters, call, total, off, chunk, buf>>

\* lock_acquire, lock held: condition_wait on the lock, retry when woken.
BlockOnLock(t) ==
  /\ pc[t] = "acquire"
  /\ ~Blocked(t)
  /\ lockTid # NoThread
  /\ lockWaiters' = lockWaiters \cup {t}
  /\ UNCHANGED <<devVars, lockTid, usedWaiters, thrVars>>

-----------------------------------------------------------------------------
(* The request cycle shared by reads and writes: fill in the request       *)
(* header, publish ring slot 0, bump avail.idx, notify the device.         *)

Submit(type, sector) ==
  /\ reqType' = type
  /\ reqSector' = sector
  /\ availIdx' = (availIdx + 1) % RingWrap

\* Mutant: the wait is left out, the thread goes on without sleeping.
WaitUsedNoSleep(t) ==
  /\ pc[t] \in DOMAIN Resume
  /\ pc' = [pc EXCEPT ![t] = Resume[pc[t]]]
  /\ UNCHANGED <<devVars, lockVars, call, total, off, chunk, buf>>

\* intr_disable(); condition_wait(&used_updated); intr_restore()
WaitUsed(t) ==
  /\ pc[t] \in DOMAIN Resume
  /\ usedWaiters' = usedWaiters \cup {t}
  /\ pc' = [pc EXCEPT ![t] = Resume[pc[t]]]
  /\ UNCHANGED <<devVars, lockTid, lockWaiters, call, total, off, chunk, buf>>

-----------------------------------------------------------------------------
(* A thread enters the driver with a call.                                 *)

Invoke(t) ==
  /\ pc[t] = "idle"
  /\ \E c \in Calls :
       /\ call' = [call EXCEPT ![t] = c]
       /\ pc' = [pc EXCEPT ![t] = "acquire"]
       /\ total' = [total EXCEPT ![t] = 0]
       /\ buf' = [buf EXCEPT ![t] = <<>>]
  /\ UNCHANGED <<devVars, lockVars, off, chunk>>

\* vioblk_setpos: reject a position past the end.  (GETPOS only reads pos.)
vioblk_setpos(x) == IF x > SIZE THEN EINVAL ELSE 0

\* vioblk_ioctl: run the helper under io_lock, then release it.
vioblk_ioctl(t) ==
  /\ pc[t] = "ioctl"
  /\ pos' = IF call[t].op = "setpos" /\ vioblk_setpos(call[t].arg) = 0
            THEN call[t].arg ELSE pos
  /\ lock_release
  /\ Return(t)
  /\ UNCHANGED <<disk, blkbuf, reqType, reqSector, availIdx, usedIdx, intStatus,
                 usedWaiters>>

-----------------------------------------------------------------------------
(* vioblk_read *)

\* Loop head, more to read: compute the block and offset, submit an IN.
ReadSubmit(t) ==
  /\ pc[t] = "rloop"
  /\ total[t] < call[t].arg
  /\ pos < SIZE
  /\ off' = [off EXCEPT ![t] = pos % BLKSZ]
  /\ chunk' = [chunk EXCEPT ![t] = MinNat(BLKSZ - (pos % BLKSZ), call[t].arg - total[t])]
  /\ Submit("IN", pos \div BLKSZ)
  /\ pc' = [pc EXCEPT ![t] = "rwait"]
  /\ UNCHANGED <<disk, pos, blkbuf, usedIdx, intStatus, lockVars, call, total, buf>>

\* Mutant: memcpy from dev->blkbuf instead of dev->blkbuf + sector_offset.
ReadCopyNoOffset(t) ==
  /\ pc[t] = "rcopy"
  /\ ~Blocked(t)
  /\ buf' = [buf EXCEPT ![t] = @ \o [i \in 1..chunk[t] |-> blkbuf[i - 1]]]
  /\ pos' = pos + chunk[t]
  /\ total' = [total EXCEPT ![t] = @ + chunk[t]]
  /\ pc' = [pc EXCEPT ![t] = "rloop"]
  /\ UNCHANGED <<disk, blkbuf, reqType, reqSector, availIdx, usedIdx, intStatus,
                 lockVars, call, off, chunk>>

\* Woken: copy blkbuf[off .. off+chunk) out, advance pos and total_read.
ReadCopy(t) ==
  /\ pc[t] = "rcopy"
  /\ ~Blocked(t)
  /\ buf' = [buf EXCEPT ![t] = @ \o [i \in 1..chunk[t] |-> blkbuf[off[t] + i - 1]]]
  /\ pos' = pos + chunk[t]
  /\ total' = [total EXCEPT ![t] = @ + chunk[t]]
  /\ pc' = [pc EXCEPT ![t] = "rloop"]
  /\ UNCHANGED <<disk, blkbuf, reqType, reqSector, availIdx, usedIdx, intStatus,
                 lockVars, call, off, chunk>>

\* Loop exit (all read, or at the end of the device): release, return total.
ReadReturn(t) ==
  /\ pc[t] = "rloop"
  /\ total[t] >= call[t].arg \/ pos >= SIZE
  /\ lock_release
  /\ Return(t)
  /\ UNCHANGED <<devVars, usedWaiters>>

-----------------------------------------------------------------------------
(* vioblk_write *)

WriteChunk(t) == MinNat(BLKSZ - (pos % BLKSZ), call[t].arg - total[t])

\* Mutant: no read-back of a partial block; blkbuf keeps what it held.
WritePartialNoRead(t) ==
  /\ pc[t] = "wloop"
  /\ total[t] < call[t].arg
  /\ pos < SIZE
  /\ WriteChunk(t) # BLKSZ
  /\ off' = [off EXCEPT ![t] = pos % BLKSZ]
  /\ chunk' = [chunk EXCEPT ![t] = WriteChunk(t)]
  /\ pc' = [pc EXCEPT ![t] = "wfill"]
  /\ UNCHANGED <<devVars, lockVars, call, total, buf>>

\* Loop head, partial block: submit an IN first to fill blkbuf (read-modify-write).
WritePartial(t) ==
  /\ pc[t] = "wloop"
  /\ total[t] < call[t].arg
  /\ pos < SIZE
  /\ WriteChunk(t) # BLKSZ
  /\ off' = [off EXCEPT ![t] = pos % BLKSZ]
  /\ chunk' = [chunk EXCEPT ![t] = WriteChunk(t)]
  /\ Submit("IN", pos \div BLKSZ)
  /\ pc' = [pc EXCEPT ![t] = "wrmw"]
  /\ UNCHANGED <<disk, pos, blkbuf, usedIdx, intStatus, lockVars, call, total, buf>>

\* Loop head, whole block: nothing to read back.
WriteWhole(t) ==
  /\ pc[t] = "wloop"
  /\ total[t] < call[t].arg
  /\ pos < SIZE
  /\ WriteChunk(t) = BLKSZ
  /\ off' = [off EXCEPT ![t] = pos % BLKSZ]
  /\ chunk' = [chunk EXCEPT ![t] = BLKSZ]
  /\ pc' = [pc EXCEPT ![t] = "wfill"]
  /\ UNCHANGED <<devVars, lockVars, call, total, buf>>

\* memcpy the caller's bytes into blkbuf[off ..], submit the OUT.
WriteFill(t) ==
  /\ pc[t] = "wfill"
  /\ ~Blocked(t)
  /\ blkbuf' = [i \in DOMAIN blkbuf |->
                  IF off[t] <= i /\ i < off[t] + chunk[t] THEN call[t].val ELSE blkbuf[i]]
  /\ Submit("OUT", pos \div BLKSZ)
  /\ pc' = [pc EXCEPT ![t] = "wwait"]
  /\ UNCHANGED <<disk, pos, usedIdx, intStatus, lockVars, call, total, off, chunk, buf>>

\* Mutant: pos advanced by a whole block instead of bytes_this_write.
WriteAdvanceBlock(t) ==
  /\ pc[t] = "wdone"
  /\ ~Blocked(t)
  /\ pos' = pos + BLKSZ
  /\ total' = [total EXCEPT ![t] = @ + chunk[t]]
  /\ pc' = [pc EXCEPT ![t] = "wloop"]
  /\ UNCHANGED <<disk, blkbuf, reqType, reqSector, availIdx, usedIdx, intStatus,
                 lockVars, call, off, chunk, buf>>

\* Woken after the OUT: advance pos and total_written.
WriteAdvance(t) ==
  /\ pc[t] = "wdone"
  /\ ~Blocked(t)
  /\ pos' = pos + chunk[t]
  /\ total' = [total EXCEPT ![t] = @ + chunk[t]]
  /\ pc' = [pc EXCEPT ![t] = "wloop"]
  /\ UNCHANGED <<disk, blkbuf, reqType, reqSector, availIdx, usedIdx, intStatus,
                 lockVars, call, off, chunk, buf>>

\* Loop exit, all written: release, return total_written.
WriteReturn(t) ==
  /\ pc[t] = "wloop"
  /\ total[t] >= call[t].arg
  /\ lock_release
  /\ Return(t)
  /\ UNCHANGED <<devVars, usedWaiters>>

\* Loop head at the end of the device: "return 0" with io_lock still held.
WriteAtEnd(t) ==
  /\ pc[t] = "wloop"
  /\ total[t] < call[t].arg
  /\ pos >= SIZE
  /\ Return(t)
  /\ UNCHANGED <<devVars, lockVars>>

-----------------------------------------------------------------------------
(* The device and the interrupt handler.                                   *)

\* The device takes the published request, moves one block between disk
\* and blkbuf, advances used.idx and raises the virtqueue interrupt.
DeviceServe ==
  /\ availIdx # usedIdx
  /\ LET base == reqSector * BLKSZ IN
       IF reqType = "IN"
       THEN /\ blkbuf' = [i \in DOMAIN blkbuf |-> disk[base + i]]
            /\ UNCHANGED disk
       ELSE /\ disk' = [b \in Bytes |->
                          IF base <= b /\ b < base + BLKSZ THEN blkbuf[b - base] ELSE disk[b]]
            /\ UNCHANGED blkbuf
  /\ usedIdx' = availIdx
  /\ intStatus' = TRUE
  /\ UNCHANGED <<pos, reqType, reqSector, availIdx, lockVars, thrVars>>

\* vioblk_isr: virtqueue bit set -> broadcast used_updated, acknowledge.
vioblk_isr ==
  /\ intStatus
  /\ usedWaiters' = {}
  /\ intStatus' = FALSE
  /\ UNCHANGED <<disk, pos, blkbuf, reqType, reqSector, availIdx, usedIdx,
                 lockTid, lockWaiters, thrVars>>

-----------------------------------------------------------------------------

ThreadStep(t) ==
  \/ AcquireLock(t) \/ BlockOnLock(t) \/ WaitUsed(t) \/ vioblk_ioctl(t)
  \/ ReadSubmit(t) \/ ReadCopy(t) \/ ReadReturn(t)
  \/ WritePartial(t) \/ WriteWhole(t) \/ WriteFill(t) \/ WriteAdvance(t)
  \/ WriteReturn(t) \/ WriteAtEnd(t)

Next == \/ \E t \in Threads : Invoke(t) \/ ThreadStep(t)
        \/ DeviceServe
        \/ vioblk_isr

Spec == Init /\ [][Next]_vars

\* The scheduler keeps running a runnable thread, the device serves a
\* notified request, and a pending interrupt is taken once interrupts are
\* enabled.  Starting a new call is up to the caller and is not fair.
FairSpec == Spec /\ \A t \in Threads : WF_vars(ThreadStep(t))
                 /\ WF_vars(DeviceServe) /\ WF_vars(vioblk_isr)

-----------------------------------------------------------------------------
(* Properties *)

TypeOK ==
  /\ disk \in [Bytes -> Vals]
  /\ pos \in 0..SIZE
  /\ blkbuf \in [0..(BLKSZ - 1) -> Vals]
  /\ reqType \in {"IN", "OUT"}
  /\ reqSector \in 0..(NBLK - 1)
  /\ availIdx \in 0..(RingWrap - 1) /\ usedIdx \in 0..(RingWrap - 1)
  /\ intStatus \in BOOLEAN
  /\ lockTid \in Threads \cup {NoThread}
  /\ lockWaiters \subseteq Threads /\ usedWaiters \subseteq Threads
  /\ pc \in [Threads -> {"idle", "acquire"} \cup BodyLabels]
  /\ call \in [Threads -> Calls]
  /\ total \in [Threads -> 0..SIZE]
  /\ buf \in [Threads -> Seq(Vals)]

InCall(t) == pc[t] \in BodyLabels

\* A thread inside a read holds exactly the bytes the disk has at the
\* positions it has passed: whatever the order of submission, DMA by the
\* device, the ISR wake-up and the copy out of blkbuf at sector_offset.
\* (vioblk_read, lines 377-426)
ReadReturnsDiskData ==
  \A t \in Threads :
    pc[t] \in ReadLabels =>
      buf[t] = [i \in 1..total[t] |-> disk[pos - total[t] + i - 1]]

\* At most one request is in the virtqueue, it belongs to the thread that
\* holds io_lock and is between submitting and being woken, and when no
\* thread is inside read or write, avail.idx = used.idx.
\* (vioblk_read/vioblk_write submission under io_lock, vioblk_isr)
OneRequestInFlight ==
  /\ (availIdx - usedIdx + RingWrap) % RingWrap \in {0, 1}
  /\ availIdx # usedIdx =>
       /\ lockTid \in Threads
       /\ pc[lockTid] \in {"rwait", "rcopy", "wrmw", "wfill", "wwait", "wdone"}
  /\ (\A t \in Threads : pc[t] \notin ReadLabels \cup WriteLabels) => availIdx = usedIdx

\* When no thread is inside a driver call, io_lock is free: every path out
\* of a call releases the lock it took.  (vioblk_write line 462)
LockFreeWhenIdle ==
  (\A t \in Threads : ~InCall(t)) => lockTid = NoThread

\* Every driver call that was started eventually returns.
\* (notify at line 415 before intr_disable at line 417)
CallsReturn == \A t \in Threads : (pc[t] # "idle") ~> (pc[t] = "idle")

-----------------------------------------------------------------------------
(* Refinement: the driver implements BlockDevice.  A read or write takes   *)
(* effect when its caller takes io_lock; until it returns, the abstract    *)
(* disk is the device's disk with the bytes the write is storing laid over *)
(* it, and the abstract position is where the call will leave it.          *)

Active == {t \in Threads : InCall(t)}

Start(t) == pos - total[t]

Target(t) ==
  LET c == call[t] IN
  CASE c.op = "setpos" -> IF c.arg <= SIZE THEN c.arg ELSE pos
    [] c.op = "getpos" -> pos
    [] OTHER -> Start(t) + MinNat(c.arg, SIZE - Start(t))

MappedPos == IF Active = {} THEN pos ELSE Target(CHOOSE t \in Active : TRUE)

MappedDisk ==
  IF \E t \in Active : call[t].op = "write"
  THEN LET w == CHOOSE t \in Active : call[t].op = "write" IN
       [b \in Bytes |-> IF Start(w) <= b /\ b < Target(w) THEN call[w].val ELSE disk[b]]
  ELSE disk

BD == INSTANCE BlockDevice WITH disk <- MappedDisk, pos <- MappedPos

BlockDeviceRefined == BD!Spec
=============================================================================
