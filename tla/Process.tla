------------------------------ MODULE Process ------------------------------
(***************************************************************************)
(* The process table and the file-descriptor tables of process.c and       *)
(* syscall.c, with the reference counts of the handles they hold: the     *)
(* system calls, process_exit and signal delivery.                         *)
(*                                                                         *)
(* A process record is a number in Recs; record MAIN is the static         *)
(* main_proc that proctab[0] points to, the others are what kmalloc hands  *)
(* out.  A handle is an open-file slot of kfs (the io_intf embedded in     *)
(* file_structs[h]) or the block device DEV (vioblk's io_intf); in_use is *)
(* the slot's flags or the device's opened flag.  Each                     *)
(* live record runs on its own kernel thread and the threads interleave    *)
(* between system calls; each call is one step, since the process table    *)
(* and the open-file pool rely on syscall serialization (spec section 5).  *)
(***************************************************************************)
EXTENDS Integers, FiniteSets

CONSTANTS NPROC,          \* entries of proctab
          Recs,           \* process records (MAIN and kmalloc'able ones)
          MAIN,           \* main_proc
          PROCESS_IOMAX,  \* fds per process
          FS_MAXOPEN,     \* kfs open-file slots
          ForkMayFail,    \* whether thread_fork_to_user may fail
          ReopenFds,      \* whether programs call sysfsopen on an fd in use
          MaxRefcnt,      \* model bound on a handle's refcnt
          Sigs            \* the catchable signals programs send

ASSUME MAIN \in Recs

NULL == -1
Slots == 0..(NPROC - 1)
\* pid arguments: the table's indices and one on each side of it.
Pids == -1..NPROC
Fds == 0..(PROCESS_IOMAX - 1)
KfsSlots == 0..(FS_MAXOPEN - 1)
DEV == FS_MAXOPEN
Handles == KfsSlots \cup {DEV}

\* signals.h: the signal numbers.
SIGTERM == 1
SIGKILL == 2
NSIG == 10

ASSUME Sigs \subseteq (1..(NSIG - 1)) \ {SIGKILL}

VARIABLES
  proctab,    \* proctab[i]: the record in entry i, or NULL
  rstate,     \* "unused" (not allocated), "live" (a thread runs it) or "idle"
  id,         \* the id field of each record
  iotab,      \* iotab[r][fd]: a handle or NULL
  refcnt,     \* the io_intf refcnt of each handle
  in_use,     \* file_structs[h].flags
  exe,        \* the handle the image a record runs was loaded from, or NULL
  pending,    \* pending_signals, as a set of signal numbers
  blocked,    \* blocked_signals
  dflterm,    \* signal_handler[SIGTERM] = NULL (the default action)
  ret         \* ret[r]: r's thread is between its syscall and signal_deliver

vars == <<proctab, rstate, id, iotab, refcnt, in_use, exe, pending, blocked, dflterm, ret>>
sigvars == <<pending, blocked, dflterm>>

NoFds == [fd \in Fds |-> NULL]

(* procmgr_init, process.c 57-75: main_proc is process 0 with an empty fd *)
(* table, and proctab's initializer points entry 0 at it (38-40).  The   *)
(* rest of the static main_proc is zero: nothing pending or blocked and  *)
(* every handler NULL.                                                   *)
Init ==
  /\ proctab = [i \in Slots |-> IF i = 0 THEN MAIN ELSE NULL]
  /\ rstate = [r \in Recs |-> IF r = MAIN THEN "live" ELSE "unused"]
  /\ id = [r \in Recs |-> 0]
  /\ iotab = [r \in Recs |-> NoFds]
  /\ refcnt = [h \in Handles |-> 0]
  /\ in_use = [h \in Handles |-> FALSE]
  /\ exe = [r \in Recs |-> NULL]
  /\ pending = [r \in Recs |-> {}]
  /\ blocked = [r \in Recs |-> {}]
  /\ dflterm = [r \in Recs |-> TRUE]
  /\ ret = [r \in Recs |-> FALSE]

(* A process makes a system call from user mode; umode_excp_handler      *)
(* (excp.c 75-92) runs the call and then signal_deliver, and the calls    *)
(* are serialized: no other thread runs between the two.                  *)
Running(r) == rstate[r] = "live" /\ \A q \in Recs : ~ret[q]

\* The call returns: signal_deliver is the caller's next step.
Return(r) == ret' = [ret EXCEPT ![r] = TRUE]

\* Number of fds of table tab that hold handle h.
Uses(tab, h) == Cardinality({fd \in Fds : tab[fd] = h})

\* Mutant: the copy loop of sysfork without the ioref.
IorefNone(tab, rc) == rc

(* ioref on every handle of tab (io.h, spec 4.A).                         *)
IorefAll(tab, rc) == [h \in Handles |-> rc[h] + Uses(tab, h)]

(* ioclose on every handle of tab: drop one reference per fd; at zero the *)
(* close operation, fs_close or vioblk_close, clears in_use.               *)
IocloseAll(tab, rc) == [h \in Handles |-> rc[h] - Uses(tab, h)]
InUseAfter(rc) == [h \in Handles |-> in_use[h] /\ rc[h] > 0]

(* sysfsopen, syscall.c 111-128, with fs_open (kfs.c 160-255): fs_open   *)
(* takes the lowest free slot and sets its refcnt to 1; the handle is     *)
(* stored in iotab[fd] over whatever was there.  A name with no dentry or  *)
(* no free slot makes fs_open fail and the call change nothing.           *)
sysfsopen(r, fd) ==
  LET free == {h \in KfsSlots : ~in_use[h]}
      h == CHOOSE x \in free : \A y \in free : x <= y
  IN
  /\ Running(r)
  /\ ReopenFds \/ iotab[r][fd] = NULL
  /\ \/ /\ free # {}
        /\ in_use' = [in_use EXCEPT ![h] = TRUE]
        /\ refcnt' = [refcnt EXCEPT ![h] = 1]
        /\ iotab' = [iotab EXCEPT ![r][fd] = h]
     \/ UNCHANGED <<in_use, refcnt, iotab>>
  /\ Return(r)
  /\ UNCHANGED <<proctab, rstate, id, exe, sigvars>>

(* vioblk_open, vioblk.c 284-325, for the one block device: -EBUSY if it *)
(* is open, else reset the rings, set refcnt to 1 and mark it opened.     *)
vioblk_open == /\ ~in_use[DEV]
               /\ in_use' = [in_use EXCEPT ![DEV] = TRUE]
               /\ refcnt' = [refcnt EXCEPT ![DEV] = 1]

(* sysdevopen, syscall.c 77-109: a name that fails memory_validate_vstr   *)
(* or names no device, or vioblk_open's -EBUSY, changes nothing; on       *)
(* success the handle is stored in iotab[fd] over whatever was there.     *)
sysdevopen(r, fd) ==
  /\ Running(r)
  /\ ReopenFds \/ iotab[r][fd] = NULL
  /\ \/ vioblk_open /\ iotab' = [iotab EXCEPT ![r][fd] = DEV]
     \/ UNCHANGED <<in_use, refcnt, iotab>>
  /\ Return(r)
  /\ UNCHANGED <<proctab, rstate, id, exe, sigvars>>

(* sysread, syswrite and sysioctl, syscall.c 167-265: -EBADFD for an      *)
(* empty fd, -EINVAL for a bad buffer or command, otherwise the handle's  *)
(* read, write or ctl.  None of them touches the fd table or a refcount.  *)
sysfdcall(r, fd) ==
  /\ Running(r)
  /\ Return(r)
  /\ UNCHANGED <<proctab, rstate, id, iotab, refcnt, in_use, exe, sigvars>>

(* sysclose, syscall.c 142-153: -EBADFD for an empty fd, otherwise       *)
(* ioclose(iotab[fd]) and clear the entry.                                *)
sysclose(r, fd) ==
  LET h == iotab[r][fd] IN
  /\ Running(r)
  /\ \/ /\ h # NULL
        /\ refcnt' = [refcnt EXCEPT ![h] = @ - 1]
        /\ in_use' = [in_use EXCEPT ![h] = refcnt[h] > 1]
        /\ iotab' = [iotab EXCEPT ![r][fd] = NULL]
     \/ /\ h = NULL
        /\ UNCHANGED <<refcnt, in_use, iotab>>
  /\ Return(r)
  /\ UNCHANGED <<proctab, rstate, id, exe, sigvars>>

(* sysexec, syscall.c 268-281: the handle leaves the fd table ("ownership *)
(* transfers into exec") and goes to process_exec (process.c 95-134),     *)
(* which loads from it and neither on success nor on failure closes it.   *)
(* On success the new image runs from the handle and the thread enters    *)
(* user mode directly; when elf_load or the entry check fails (110-119)   *)
(* the call returns -1 and nobody has the handle.                         *)
sysexec(r, fd) ==
  /\ Running(r)
  /\ iotab[r][fd] # NULL
  /\ \/ exe' = [exe EXCEPT ![r] = iotab[r][fd]] /\ UNCHANGED ret
     \/ UNCHANGED exe /\ Return(r)
  /\ iotab' = [iotab EXCEPT ![r][fd] = NULL]
  /\ UNCHANGED <<proctab, rstate, id, refcnt, in_use, sigvars>>

(* The body of process_exit, process.c 145-166: ioclose every fd and end *)
(* the thread.  The proctab entry and the record are not released.       *)
Exit(r) ==
  LET rc == IocloseAll(iotab[r], refcnt) IN
  /\ refcnt' = rc
  /\ in_use' = InUseAfter(rc)
  /\ iotab' = [iotab EXCEPT ![r] = NoFds]
  /\ rstate' = [rstate EXCEPT ![r] = "idle"]
  /\ exe' = [exe EXCEPT ![r] = NULL]

\* sysexit: process_exit, which never returns.
process_exit(r) ==
  /\ Running(r)
  /\ Exit(r)
  /\ UNCHANGED <<proctab, id, sigvars, ret>>

(* find_process_by_pid, process.c 179-183: NULL for a pid outside the   *)
(* table, else the entry, which may be NULL.                              *)
find_process_by_pid(pid) == IF pid \in Slots THEN proctab[pid] ELSE NULL

(* process_terminate, process.c 187-197: process_exit if the target is    *)
(* the caller; for any other process nothing happens, and syssignal       *)
(* returns.                                                               *)
process_terminate(r, pid) ==
  \/ /\ find_process_by_pid(pid) = r
     /\ Exit(r)
     /\ UNCHANGED <<pending, ret>>
  \/ /\ find_process_by_pid(pid) # r
     /\ Return(r)
     /\ UNCHANGED <<refcnt, in_use, iotab, rstate, exe, pending>>

(* syssignal, syscall.c 395-415.  No record for pid gives -EINVAL;        *)
(* SIGKILL goes to process_terminate; any other signal is added to the    *)
(* pending set of the record in proctab[pid], whatever state it is in.    *)
syssignal(r, pid, sig) ==
  LET p == find_process_by_pid(pid) IN
  /\ Running(r)
  /\ \/ /\ p = NULL
        /\ Return(r)
        /\ UNCHANGED <<refcnt, in_use, iotab, rstate, exe, pending>>
     \/ /\ p # NULL /\ sig = SIGKILL
        /\ process_terminate(r, pid)
     \/ /\ p # NULL /\ sig # SIGKILL
        /\ pending' = [pending EXCEPT ![p] = @ \cup {sig}]
        /\ Return(r)
        /\ UNCHANGED <<refcnt, in_use, iotab, rstate, exe>>
  /\ UNCHANGED <<proctab, id, blocked, dflterm>>

Lowest(S) == CHOOSE x \in S : \A y \in S : x <= y
Allocated == {c \in Recs : rstate[c] # "unused"}

\* Mutant: the id loop stores i + 1.
ChildIdPlusOne(c, tab) ==
  LET idx == {k \in Slots : tab[k] = c} IN
  IF idx = {} THEN id[c] ELSE Lowest(idx) + 1

(* The second loop of sysfork (syscall.c 351-356): the first index of     *)
(* proctab holding child_proc, or id left alone when none does.           *)
ChildId(c, tab) ==
  LET idx == {k \in Slots : tab[k] = c} IN
  IF idx = {} THEN id[c] ELSE Lowest(idx)

(* The part of sysfork (syscall.c 349-385) after child_proc is chosen,    *)
(* given the table tab the first loop left: the id loop, then the fds     *)
(* are copied with ioref.  sysfork sets no other field: a fresh record    *)
(* keeps whatever kmalloc's memory held in pending_signals,               *)
(* blocked_signals and signal_handler.  If thread_fork_to_user succeeds   *)
(* the child's thread runs.  If it fails, the record is zeroed, then      *)
(* proctab[child_proc->id], that is proctab[0], is cleared, and ioclose   *)
(* runs on the fds current_proc has after the memset.  The parent         *)
(* returns either way.                                                    *)
ForkInto(r, c, tab) ==
  LET rc == IorefAll(iotab[r], refcnt) IN
  \/ /\ proctab' = tab
     /\ id' = [id EXCEPT ![c] = ChildId(c, tab)]
     /\ iotab' = [iotab EXCEPT ![c] = iotab[r]]
     /\ refcnt' = rc
     /\ rstate' = [rstate EXCEPT ![c] = "live"]
     /\ IF rstate[c] = "unused"
          THEN \E pd, bl \in SUBSET Sigs, df \in BOOLEAN :
                 /\ pending' = [pending EXCEPT ![c] = pd]
                 /\ blocked' = [blocked EXCEPT ![c] = bl]
                 /\ dflterm' = [dflterm EXCEPT ![c] = df]
          ELSE UNCHANGED sigvars
     /\ UNCHANGED <<in_use, exe>>
  \/ /\ ForkMayFail
     /\ LET io == [iotab EXCEPT ![c] = NoFds]
            rc2 == IocloseAll(io[r], rc)
        IN /\ iotab' = io
           /\ refcnt' = rc2
           /\ in_use' = InUseAfter(rc2)
     /\ proctab' = [tab EXCEPT ![0] = NULL]
     /\ id' = [id EXCEPT ![c] = 0]
     /\ rstate' = [rstate EXCEPT ![c] = IF @ = "unused" THEN "idle" ELSE @]
     /\ pending' = [pending EXCEPT ![c] = {}]
     /\ blocked' = [blocked EXCEPT ![c] = {}]
     /\ dflterm' = [dflterm EXCEPT ![c] = TRUE]
     /\ UNCHANGED exe

(* sysfork, syscall.c 335-387.  The first loop stores a fresh kmalloc'd   *)
(* record into the lowest empty entry of proctab.  When no entry is       *)
(* empty, child_proc is never assigned: its value is whatever the stack   *)
(* held, NULL (the call returns -1) or a pointer to a                     *)
(* record already allocated, which the rest of the call then reuses.      *)
(* Recs bounds the records kmalloc can hand out, MaxRefcnt the counts.    *)
sysfork(r) ==
  LET free == {i \in Slots : proctab[i] = NULL} IN
  /\ Running(r)
  /\ \A h \in Handles : IorefAll(iotab[r], refcnt)[h] <= MaxRefcnt
  /\ \/ /\ free # {}
        /\ \E n \in Recs : /\ rstate[n] = "unused"
                          /\ ForkInto(r, n, [proctab EXCEPT ![Lowest(free)] = n])
     \/ /\ free = {}
        /\ \E c \in Allocated : ForkInto(r, c, proctab)
     \/ /\ free = {}
        /\ UNCHANGED <<proctab, rstate, id, iotab, refcnt, in_use, exe, sigvars>>
  /\ Return(r)

(* signal_deliver, signals.c 12-25, with signal_handle (41-59): on the   *)
(* way back to user mode, clear the lowest pending signal not blocked and *)
(* handle it; with a NULL handler SIGTERM runs process_exit, and every    *)
(* other case does nothing.                                               *)
signal_deliver(r) ==
  LET unmasked == pending[r] \ blocked[r]
      sig == Lowest(unmasked)
  IN
  /\ ret[r]
  /\ ret' = [ret EXCEPT ![r] = FALSE]
  /\ \/ /\ unmasked = {}
        /\ UNCHANGED <<refcnt, in_use, iotab, rstate, exe, pending>>
     \/ /\ unmasked # {}
        /\ pending' = [pending EXCEPT ![r] = @ \ {sig}]
        /\ IF sig = SIGTERM /\ dflterm[r]
             THEN Exit(r)
             ELSE UNCHANGED <<refcnt, in_use, iotab, rstate, exe>>
  /\ UNCHANGED <<proctab, id, blocked, dflterm>>

(* A live process's next system call, dispatched by syscall (syscall.c    *)
(* 507-570) on its number; syswait, sysusleep, sysmsgout and the listing  *)
(* calls change none of this state and are left out.                      *)
Next == \E r \in Recs :
          \/ sysfork(r)
          \/ process_exit(r)
          \/ signal_deliver(r)
          \/ \E pid \in Pids, sig \in Sigs \cup {SIGKILL} : syssignal(r, pid, sig)
          \/ \E fd \in Fds : \/ sysfsopen(r, fd) \/ sysdevopen(r, fd) \/ sysfdcall(r, fd)
                           \/ sysclose(r, fd) \/ sysexec(r, fd)

Spec == Init /\ [][Next]_vars

-----------------------------------------------------------------------------
TypeOK ==
  /\ proctab \in [Slots -> Recs \cup {NULL}]
  /\ rstate \in [Recs -> {"unused", "live", "idle"}]
  /\ id \in [Recs -> Slots]
  /\ iotab \in [Recs -> [Fds -> Handles \cup {NULL}]]
  /\ refcnt \in [Handles -> 0..MaxRefcnt]
  /\ in_use \in [Handles -> BOOLEAN]
  /\ exe \in [Recs -> Handles \cup {NULL}]
  /\ pending \in [Recs -> SUBSET Sigs]
  /\ blocked \in [Recs -> SUBSET Sigs]
  /\ dflterm \in [Recs -> BOOLEAN]
  /\ ret \in [Recs -> BOOLEAN]

\* References to handle h held by the fd tables of all records.
Refs(h) == Cardinality({rf \in Recs \X Fds : iotab[rf[1]][rf[2]] = h})

(* No handle is closed while an fd still holds it: across sysfsopen,     *)
(* sysclose, the fd copy of sysfork and its failure path, sysexec and     *)
(* process_exit, a handle's refcnt is at least the number of fds of all   *)
(* processes that hold it, and kfs has the slot open exactly while the    *)
(* count is positive.  Otherwise a later ioclose through one of those fds *)
(* would close a slot fs_open has handed to another file.                 *)
NoPrematureClose ==
  \A h \in Handles : /\ Refs(h) <= refcnt[h]
                     /\ in_use[h] = (refcnt[h] > 0)

(* The open-file lifecycle of spec 4.D ends in FREE: a kfs slot that is   *)
(* open is held by some fd or by the image a running process was loaded   *)
(* from, so once every process that opened a file has closed, exec'd or   *)
(* exited, its slot is free again for fs_open.                            *)
NoHandleLeak ==
  \A h \in Handles : in_use[h] =>
     Refs(h) > 0 \/ \E r \in Recs : rstate[r] = "live" /\ exe[r] = h

=============================================================================
