# TLA+ models of the RISC-V teaching kernel

This directory holds TLA+ models of the kernel in `src/src/kern`, together with
the TLC configurations that check them. `PROJECT.json` records:

- which source lines each definition translates (`map`);
- the runs, the mutants and the findings;
- the hazards the code is exposed to.

## The system

The kernel runs on a single hart and its kernel threads are preemptive. A
thread sleeps with `condition_wait` and is woken by `condition_broadcast`,
which interrupt service routines also call. The parts are:

| part | source | shared state | concurrency |
|------|--------|--------------|-------------|
| sleep lock | `lock.h` | `tid`, condition `released` | acquire tests and sets `tid` with interrupts disabled, otherwise sleeps |
| virtio block driver | `vioblk.c` | `pos`, `blkbuf`, the virtqueue (`avail.idx`, `used.idx`, header), `io_lock` | threads serialised by `io_lock`, racing the device and `vioblk_isr` |
| kernel file system | `kfs.c` | open-file table, global `inode`/`data_block` buffers, `fs_lock` | threads serialised by `fs_lock`, built on the block device |
| memory manager | `memory.c` | free page list, page tables | callers from every thread, and page faults |
| processes, system calls | `process.c`, `syscall.c` | process table, fd tables with `io_intf` reference counts | fork, exec, exit and wait |
| signals | `signals.c`, `excp.c` | pending and masked bit sets | delivered on return to user mode |
| ELF loader | `elf.c` | none (a pure function of the image) | none |
| io helpers, literal I/O | `io.c` | `pos` of a memory-backed endpoint | none |
| PLIC, terminal | `plic.c`, `io.c` (ioterm) | device registers | hardware I/O |

The parts interact as follows:

- The file system reads and writes the disk only through the block driver's
  `io_intf`, with `fs_lock` held around the driver's own `io_lock`.
- System calls reach both through the process's fd table.
- Page faults reach the memory manager.

## Modules

- **`BlockDevice`** is the abstract specification of a block device handle
  (spec 4.A, 4.C). It is a byte array of `SIZE` bytes with one position. A
  read, write or `SETPOS` takes effect atomically. Reads and writes are
  clamped to the end of the device.

- **`Vioblk`** models `vioblk_read`, `vioblk_write` and `vioblk_ioctl`, for a
  set of `Threads`, against a model of the virtio device and the ISR.
  - **Sleep lock:** `io_lock` is the sleep lock of `lock.h` and is composed in:
    - `AcquireLock` and `BlockOnLock` are the two outcomes of
      `lock_acquire`'s test;
    - `lock_release` sets `tid = -1` and wakes all sleepers.
  - **Thread state:** each thread has a program counter `pc` at the driver's
    blocking points and the locals `total_read`/`total_written` (`total`),
    `sector_offset` (`off`), `bytes_to_read`/`bytes_this_write` (`chunk`) and
    the caller's buffer (`buf`).
  - **One action per step:**
    - `ReadSubmit` builds the request header, `avail.idx++` and the notify;
    - `WaitUsed` is `intr_disable` followed by `condition_wait`;
    - `ReadCopy` is the memcpy and the position update;
    - the write path splits the same way, with `WritePartial` doing the
      read-modify-write IN request (vioblk.c 477-507);
    - `WriteAtEnd` is the early return at vioblk.c 462.
  - **Device:** `DeviceServe` is the device. It is modelled from spec 4.C
    because it is hardware: it serves the request in the avail slot, copies
    between disk and `blkbuf`, and sets `used.idx` and the interrupt status.
    `vioblk_isr` acknowledges the interrupt and broadcasts `used_updated`.
  - **Data:**
    - the block buffer is `kmalloc`ed and never initialised, so `Init` lets
      `blkbuf` hold any values;
    - `avail.idx` and `used.idx` are `uint16_t`, kept modulo `RingWrap`,
      which is sound because the code only compares them;
    - `getlen` and `getblksz` change no state and are folded into `getpos`.
  - **Refinement:** the module refines `BlockDevice`
    (`BD == INSTANCE BlockDevice WITH ...`).
    - The linearization point of a call is its `lock_acquire`. At that point
      `MappedPos` jumps to the position the call will end at.
    - `MappedDisk` shows the bytes of a write that is still in progress as
      already written.

- **`PageAlloc`** models the physical page allocator of `memory.c` for a set
  of `Threads` that the timer may preempt between any two statements.
  - **State:** the head `free_list` and the intrusive `next` field stored in
    each free page (`union linked_page`). Each thread also has the pages it
    holds, its `pc` and the local `page`.
  - **Actions:** each call is split at the statement where a preemption
    changes the outcome.
    - `alloc_head` reads the head, or panics on an empty list (264-274).
    - `alloc_unlink` re-reads `free_list->next`, then zeroes the page, which
      clears its `next` (275-281).
    - `free_link` zeroes the page and links it to the head (294-309).
    - `free_publish` stores the page into `free_list` (310).
  - **`Init`:** `memory_init` sets `free_list` to `heap_end` (227), then its
    loop pushes the pages in address order, each linked to the previous head
    (241-245). So heap_end's page, page 1, is linked to itself (`InitNext`).

- **`Memory`** models the virtual-memory manager of `memory.c` and the ELF
  loader of `elf.c` as processes use them.
  - **Machine state:** every C function is an operator from
    `[mem, free, halt]` to `[st, ret]`:
    - `mem` holds the page tables;
    - `free` is the free list, whose push and pop are atomic here because
      their races are `PageAlloc`'s subject;
    - `halt` is the panic reason.
  - **Recursion:** the loops over pages and program headers are `RECURSIVE`
    operators (`MapPagesFrom`, `UnmapFrom`, `ReclaimFrom`, `CloneFrom`,
    `LoadPhdrs`), each named after the loop it models.
  - **Actions:** one per process-level operation.
    - `process_exec` is `memory_unmap_and_free_user` followed by `elf_load`.
    - `umode_page_fault` is `umode_excp_handler` calling
      `memory_handle_page_fault` for an access the PTE does not permit.
    - `sysfork` is `memory_space_clone` into a free process slot.
    - `process_exit` is `memory_space_reclaim`.
  - **Page tables:** Sv39 keeps its three levels, but with `IDX` entries per
    table and `PAGE_SIZE` bytes per page.
    - Level-2 entry 0 of the main root is the kernel's global leaf (`G`).
    - The user region is the last level-2 entry.
  - **Data:** page contents other than PTEs are abstracted away. An
    executable is a header error code and a sequence of program headers:
    - `LOAD` is loaded;
    - `OTHER` is skipped;
    - `SHORT` means the header read fails;
    - `TRUNC` means the segment's data read is short.

- **`FileStore`** is the abstract specification of the file system (spec
  4.D). Each file is a fixed-length byte array and each open-file slot holds
  a file and a position. A read or write of `n` bytes is atomic, moves the
  position by the bytes it transfers and never passes the end of the file.
  `SETPOS` past the end changes nothing.

- **`Kfs`** models `fs_open`, `fs_close`, `fs_read`, `fs_write` and
  `fs_ioctl` of `kfs.c` for a set of `Threads`.
  - **Locking:** the calls take `fs_lock` (the sleep lock of `lock.h`),
    except `fs_close`, which clears the slot's flags without it (kfs.c
    269-279) and so interleaves with every other step.
  - **Steps:** a read or write is split at the block loop (`ReadBlock`,
    `WriteBlock`) because the loop re-reads the inode and the slot between
    blocks. `LoopEnd` is the position update after it.
  - **Device:** the disk is reached through `setpos`, `read` and `write` as
    `BlockDevice` specifies, which `Vioblk` is checked to implement. The boot
    block and inodes are constants; the data blocks are the variable state.
  - **Widths:** `unsigned long` and `uint64_t` are kept modulo `WORD`. `WORD
    = 16` stands for 2^64, because `file_position + n` is computed in that
    width.
  - **Block index:** the loops stop at `block_index >= sizeof(struct
    inode_t)`. `SIZEOF_INODE = 4` is that bound, against `NENTRY = 2` real
    entries; an entry past the array reads any block number (`Entries`).
  - **Refinement:** `FS == INSTANCE FileStore WITH ...`. `MappedContents` is
    the file bytes read through the inodes; `MappedPos` is a slot's position.

- **`Process`** models the process table and fd tables of `process.c` and
  `syscall.c`, with the `io_intf` reference counts of the kfs handles and of
  the block device, and the signal state.
  - **Serialisation:** a system call is one atomic step. Spec section 5 says
    the process table is protected by the implicit serialisation of system
    calls, and the calls modelled never sleep.
  - **State:** `proctab`, each record's `rstate` (unused, live, idle after
    exit), `id`, `iotab` and `exe` (the handle given to `process_exec`); per
    handle (a kfs slot in `KfsSlots`, or the device `DEV`), `refcnt` and
    `in_use` (the slot's flags, or vioblk's `opened`); per record,
    `pending`, `blocked` and `dflterm` (the SIGTERM handler is NULL).
  - **Actions:** `Next` is the dispatcher `syscall` (syscall.c 507-561):
    `sysfsopen`, `sysdevopen`, `sysclose`, `sysfdcall`, `sysexec`,
    `sysfork`, `process_exit` (`sysexit`) and `syssignal`, plus
    `signal_deliver`. `sysdevopen` fails for a bad or unknown name, or with
    `vioblk_open`'s `-EBUSY` when the device is open. Otherwise it sets the
    device's refcount to 1 and stores it over the fd, as `sysfsopen` does.
    `sysfdcall` is `sysread`, `syswrite` and `sysioctl`. Their `-EBADFD` and
    `-EINVAL` returns and their calls on the handle change no state of this
    model, but they are returns to user mode where a signal is delivered.
    `syssignal` looks the pid up with `find_process_by_pid`. The pids tried
    are `Pids`, the table's indices plus -1 and `NPROC`. SIGKILL goes to
    `process_terminate`, which exits only when the target is the caller.
  - **Return to user mode:** `umode_excp_handler` calls `signal_deliver`
    after every system call (excp.c 75-92). A returning call sets `ret`, and
    `signal_deliver` must then run before any process makes another call.
  - **Undefined behaviour:**
    - when `proctab` is full, `sysfork`'s `child_proc` is never assigned; the
      model lets it be NULL or any allocated record;
    - a `kmalloc`ed child's signal fields are never set; the model lets them
      hold any value.
  - **Fork failure:** if `thread_fork_to_user` fails, the record is zeroed
    before `proctab[child_proc->id]` is cleared. That clears `proctab[0]`.
  - **Bound:** `MaxRefcnt` bounds the reference counts through a guard on
    `sysfork`.

- **`MC_Vioblk`** supplies the model values and calls:
  - `SETPOS` to 0, 1, 3 and 5 (5 is beyond `SIZE`);
  - `GETPOS`;
  - reads and writes of 1 and 3 bytes, with the value 0 or 1.

- **`MC_PageAlloc`** declares thread symmetry.

- **`MC_Memory`** defines the executables. With `PAGE_SIZE = 2` and
  `IDX = 2`, user addresses are 8..15 (four pages) and `USER_STACK_VMA` is 16.

- **`MC_Kfs`** defines a disk of one boot block, two inodes and three data
  blocks of two bytes. File `a` is 3 bytes in blocks 0 and 1, file `b` is
  2 bytes in block 2, and name `c` has no dentry. The calls are opens of all
  three names, reads of 1 and 3 bytes, a 3-byte write, and `SETPOS` to 1 and
  to 4 (past the end).

- **`MC_Process`** has three records for a two-entry table, so the second
  fork finds the table full. Each process has one fd, and there is one kfs
  slot plus the block device, so a file and the device can be held at once.
  Two kfs slots with the device exceed the five-minute budget. SIGTERM is the catchable signal, and SIGKILL is always an input.

## Runs

| run | cfg | expect | what it shows |
|-----|-----|--------|---------------|
| `vioblk_safety` | `MC_Vioblk.cfg` | pass | See below. |
| `vioblk_lock_leak` | `MC_Vioblk_leak.cfg` | violation | Thread 1 seeks to 3 and reads 3 bytes, which leaves `pos = size`. Thread 2's write then returns at vioblk.c 462 with `io_lock` held. Every later call sleeps forever. |
| `vioblk_lost_wakeup` | `MC_Vioblk_wakeup.cfg` | violation | See below. |
| `page_free_list_cycle` | `MC_PageAlloc_race.cfg` | violation | See below. |
| `memory_fork` | `MC_Memory.cfg` | pass | See below. |
| `memory_one` | `MC_Memory_one.cfg` | pass | See below. |
| `elf_bss_tail` | `MC_Memory_tail.cfg` | violation | A segment at address 11 with `p_memsz = 2` is mapped from 10 with `round_up_size(2) = 2` bytes. Page 12 stays unmapped, and the bss `memset` faults in the kernel (elf.c 106). |
| `validate_unaligned` | `MC_Memory_validate.cfg` | violation | `memory_validate_vptr_len` discards its rounding (memory.c 660-661). It steps from the unaligned start, so a range ending on an unmapped page validates (`ValidateVptrLenSound`). |
| `kfs_safety` | `MC_Kfs.cfg` | pass | See below. |
| `kfs_size_wrap` | `MC_Kfs_wrap.cfg` | violation | A read of `WORD - 1` bytes from position 1 wraps `file_position + n` (kfs.c 484). The clamp is skipped and the position ends past the end of the file (`FilePositionInBounds`). `memory_validate_vptr_len` accepts such a length because its own end address wraps. |
| `process_fds` | `MC_Process.cfg` | pass | See below. |
| `process_exec_leak` | `MC_Process_exec.cfg` | violation | `sysexec` clears the fd and passes the handle to `process_exec`, and nothing ever closes it (syscall.c 277). After the process exits, the kfs slot stays in use with no owner (`NoHandleLeak`). |

**`vioblk_safety`.** Two threads, with all the calls above:

- at most one request is ever in the one-slot virtqueue, and it belongs to
  the lock holder (`OneRequestInFlight`);
- every read returns exactly the disk's bytes at the positions it covered
  (`ReadReturnsDiskData`);
- the driver implements `BlockDevice` (`BlockDeviceRefined`).

**`vioblk_lost_wakeup`.** This run has one reader and weak fairness on every
thread step, on the device and on the ISR. The device can complete and
`vioblk_isr` can broadcast between `virtio_notify_avail` (vioblk.c 415) and
`intr_disable(); condition_wait(...)` (417-418). The broadcast then wakes
nobody, and the read never returns.

**`page_free_list_cycle`.** `memory_init` sets `free_list = heap_end`
(memory.c 227) before the loop that pushes every page from `heap_end` up,
so the first page pushed, heap_end's own, gets `next = heap_end`. The
initial state already violates `FreeListWellFormed` (`next = <<1, 1, 2>>`).
Spec section 8 says the list has no cycles, and that allocation on an empty
list panics. Instead, once the other pages are taken, `memory_alloc_page`
returns heap_end's page and leaves `free_list` pointing at it. The next
allocation hands the same page out again while it is still in use, and
zeroes it.

The preemption race of alloc and free (spec section 5 says interrupts are
disabled around push and pop; the code does not disable them) breaks the
same property. This run stops at the initial state first, so no run shows
the race on its own: a free linked but not yet published lets another
thread unlink through it, and the page it then holds is also on the list.

**`memory_fork`.** Two process slots, the two loadable images, load faults,
fork and exit, 305,084 states:

- `PagesAccounted`: while the kernel runs, every physical page is exactly
  one of these:
  - on the free list, once;
  - the root of one owned process slot;
  - the target of one valid PTE in the tables of one owned slot.
- `ForkCopiesMappings`: after a fork, the child's user mapping equals the
  parent's and the parent's is unchanged.

**`memory_one`.** One process and all six images, including the error paths
of `elf_load`, 172,551 states:

- the error paths are a bad header, a short program-header read, a segment
  over the stack and a truncated segment;
- pages stay accounted after a failed exec, a partial load and exit;
- `elf_load` never writes a page it did not map (`ElfLoadWritesMappedPages`).

The passing Memory runs use only load faults. A store or fetch fault on a
mapped page maps a fresh page over the valid PTE (memory.c 624, 575) and
leaks the old one; so does a second segment on the same page. Both break
`PagesAccounted` at once and would mask every other property, so they are
recorded as hazards and are not run.

**`kfs_safety`.** Two threads, two slots and two files, with every call
but `fs_close` under `fs_lock` and `fs_close` interleaving anywhere:

- no open file's position passes its size (`FilePositionInBounds`);
- every read copies exactly the file's bytes at the positions it covered
  (`ReadReturnsFileData`);
- kfs implements `FileStore` (`FileStoreRefined`).

**`process_fds`.** Three records run fork (with failures and a full table),
fsopen, devopen, read/write/ioctl, close, exec, exit, SIGTERM and SIGKILL,
with signal delivery on every return, 1,455,886 states (about 2 minutes). `NoPrematureClose`:
every handle has at least as many references as fds that hold it, and its
kfs slot or the device is open exactly while its count is positive. Breaking it takes a fork and a later close or exit in
another process, or a fork that fails after `ioref`.

**Bounds.** The bounds are `BLKSZ = 2` and `NBLK = 2`, so `SIZE = 4`:

- a 3-byte transfer from position 1 or 3 crosses a block boundary;
- it includes a partial first block, which exercises the read-modify-write;
- it also reaches the end of the device, which exercises the clamp and the
  early return.

**Bounds of the memory runs.** `NPAGES = 8`, `PAGE_SIZE = 2`, `IDX = 2`.

- A user address space needs a root, a level-1 table, up to two level-0
  tables and up to four leaves. So a fork of a process with two or three
  mapped pages fits in 8 pages.
- Exec, fault or fork of a bigger space stops the model when the list is
  empty ("heap_end page reissued"). There the code would hand out heap_end's
  page a second time (`page_free_list_cycle`).
- With `IDX = 2`, the user region spans two level-0 tables, so clone,
  reclaim and unmap each cross a table boundary.
- `PAGE_SIZE = 2` gives a page both an aligned and an unaligned address,
  which is what the ELF rounding and the validation bugs need.
- `PageAlloc` uses three pages with two threads.

**Bounds of the kfs runs.** Two-byte blocks, a 3-byte file over two blocks
and a 2-byte file in one:

- a 3-byte transfer crosses a block boundary and reaches the end of a file;
- `SETPOS` to 4 is past the end of either file;
- two slots and `MaxHeld = 1` let two threads hold the same file or
  different files;
- `WORD = 16` keeps the wrap reachable with 15-byte counts.

**Bounds of the process runs.** `NPROC = 2` with three records, one fd each,
two kfs slots, `MaxRefcnt = 2`:

- the second fork finds the table full, which reaches the uninitialized
  `child_proc`;
- two kfs slots let two handles be open at once, so a reused fd and a
  shared handle both occur;
- a second catchable signal multiplies the state space past TLC's reach, and
  `signal_handle` gives every signal but SIGTERM no action anyway.

**Symmetry and deadlock.**

- Thread symmetry is used in the safety runs, where it is sound because the
  threads are interchangeable. It is not used in the liveness run.
- Deadlock is checked in `kfs_safety`: a thread can always make another
  call. It is not checked in the Vioblk, PageAlloc and Memory runs. Once the
  lock leaks, or a wake-up is lost, the real system stops, which is exactly
  what the violation runs demonstrate; a panic or the last exit also ends
  the Memory and Process models, as it ends the kernel.

**Fairness.** The liveness run assumes weak fairness on every thread's steps,
the device and the ISR. The scheduler is round-robin on a timer, the device
completes every request it is notified of, and a pending interrupt is taken
once interrupts are enabled.

## Not modelled

- **io helpers and the literal endpoint** (`io.c`): byte-copy loops with no
  shared state. Their reference counting (`ioref`, `ioclose`) is modelled in
  `Process`. The literal endpoint never advances `pos` (io.c 124), but
  nothing under `src/` creates one. `ioread_full`'s only callers read kfs
  files in `elf_load`, which `Memory` models by whether each read succeeds.
- **PLIC and terminal** (`plic.c`, `ioterm` in `io.c`): register-level I/O.
  `ioterm_getsn`'s escape case tests `'\133'`, which is `[` and not ESC, a
  line-editing defect with no state a property is about.
- **User shell** (`shell.c`, `init_shell.c`): user-space string handling. It
  reaches the kernel only through system calls, which `Process` takes as
  arbitrary inputs.
- **`syswait`, `sysusleep`**: they only call `thread_join` and
  `alarm_sleep`, whose code is not in the repository.
- **`vioblk_close`'s window** (vioblk.c 352): `opened` is cleared after
  `io_lock` is released. `Process` takes open and close as single steps,
  because system calls are serialised and no other thread opens the device.
- **`sysmsgout`, `sysnumprograms`, `sysprognames`, `sysrunningprocs`**:
  these only copy strings and counters to user memory. `sysrunningprocs`
  adds to an uninitialized `num_written` (syscall.c 431), which is a data
  defect and not a control one.
- **Signal handlers and masks**: no system call sets them. Custom and
  ignored handlers are reachable only through the uninitialized fields of a
  forked record, and `signal_handle` does nothing for them. SIGKILL to
  another process does nothing in the code (process.c 187), against spec
  118; the model follows the code.
- **`memory_init`'s kernel mappings, `satp`, `sfence.vma`**: hardware
  set-up.
- **`memory_validate_vstr`**: it walks the string byte by byte and checks
  the page of each byte until the NUL (memory.c 692-725). A model of that
  walk, compared with "every byte up to the NUL is on a mapped page", is the
  same statement written twice, so the property could not fail whatever the
  code did. The model checks nothing about this function.
