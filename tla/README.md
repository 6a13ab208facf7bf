# A verification development of Ev6

Ev6 is a teaching kernel (xv6 for RISC-V) that survives uncorrectable memory
errors in its own data.  When an access of a kernel object raises an NMI, the
kernel finds out which object the broken address belongs to, replaces the object
by a new one (*Internal Surgery*), decides what becomes of the interrupted
process (its *After-Treatment*: fail, redo or finish the system call, kill the
process, return to user mode or to the interrupted procedure), and goes on.
What it cannot repair it stops for (*Fail-Stop*, `panic`).

This directory holds TLA+ specifications of the parts on which that rests, the
configurations that check them with TLC, and proofs checked with TLAPS.
Paths below are relative to `src/kernel/` unless they say otherwise.

## 1. Inventory

| Component (source) | State | Operations | What must be right |
|---|---|---|---|
| Recovery locking (`recovery_locking.c/.h`) | per section a recovery lock, `num`, `exception` and the lock `lk` that guards them; per process `history_idx[5]` | enter, enter_nodes, exit; acquire/release of the recovery lock, counting, busy-waits, leaving all sections after a recovery | nobody is inside an object while it is replaced; the counts stay true over recoveries; waiters and handlers get on |
| NMI shepherding (`nmi_handle.c`, `after-treatment.c`) | function pointers `mem_nmi_handle_next`, `handler_for_mem_fault`; `nmi_queue` (on the stack of the recovery process) | shadow handler, first handler, follow handler; After-Treatments | one recovery process at a time; no dangling queue; each victim gets its own result |
| M-List tracker (`mlist_tracker.c`) | the loop over the NMI Queue, `recovered_memobj` | dispatch to the handler of the object, reporting, shifting, cleanup | every victim is served; nothing is repaired twice |
| Log (`log.c`) | `struct log`, header and blocks on disk, pins | begin_op, log_write, end_op, commit, recovery at boot | atomic, crash-safe commits; reservations are sound; callers get on |
| Log recovery (`recovery_handler_log.c`) | replicas `dup_lhdr`, `dup_outstanding` | rebuild, give up the victim's call, commit | the log stays atomic, `outstanding` exact, replicas equal |
| Buffer cache (`bio.c`, `recovery_handler_buf.c`) | LRU list, refcnt, valid, sleeplocks | bget, bread, brelse, bpin, bunpin; replacing a buffer | one buffer per block; a pinned or used buffer is not recycled; a read sees the last change |
| Processes (`proc.c`, `swtch.S`) | state, chan, killed, parent | sleep, wakeup, fork, exit, wait, kill, scheduler | no lost wakeups, no lost zombies |
| Allocator (`kalloc.c`, `recovery_handlers_MM.c`), M-List (`mlist.c`), transactions (`trans.c`) | free list; list of nodes for each kind of object; saved state | kalloc, kfree, my_kalloc, registration; kmem and run handlers | the free list and the M-List describe the same pages |
| Pipes (`pipe.c`, `recovery_handler_pipe.c`) | ring buffer, nread, nwrite, two ends | read, write, close; repair | no byte lost or invented; nobody sleeps for ever |
| File table (`file.c`, `sysfile.c`, `recovery_handler_file.c`) | `struct file` with ref, descriptors of processes | open, pipe, dup, fork, close, exit; moving the whole table | references equal counts, also after the table moved |
| Inodes and directories (`fs.c`, `sysfile.c`, `recovery_handler_inode.c`) | inode cache; inodes, bitmap, blocks on disk | path walks, create, link, unlink, chdir, read, write, iput; replacing the cache | the cache agrees with the disk; the tree passes a check whenever the log can commit; calls do not lock each other up |
| Console, printf, uart and handlers | input ring, locks | consoleread, consoleintr; repair | sections and locks are left as they were found |
| Locks (`spinlock.c`, `sleeplock.c`, `recovery_handlers_locks.c`) | holder | acquire, release; repair of a broken lock | mutual exclusion |
| Disk (`virtio_disk.c`) | descriptors, rings | rw, interrupt, polling by a recovering process | each request completes once |
| Page tables (`vm.c`, `exec.c`, `ptdup.c`, `recovery_handler_pagetable.c`, `mlist_pagetable.c`) | tables of three levels; a duplicate per process: copies of levels 2 and 1, a compressed list of level 0 | uvmalloc, uvmcopy, uvmunmap, exec; rebuilding a table | no page has two uses; a recovery changes no address space |
| User cooperation, traps, boot, user programs, `mkfs` | | | see section 7 |

**Interactions.** Every kernel path brackets its use of a recoverable object with
`enter_/exit_recovery_critical_section` (a *Recovery Critical Section*, R.C.S.).
Sections nest: a read of a cached block is inside FTABLE, its file, ICACHE, its
inode, BCACHE and its buffer.  `nmi_imitate` (the injected error) calls
`nmi_handle`, which dispatches through a function pointer to
`mem_nmi_handle_first` or `mem_nmi_handle_follow`.  The first victim runs
`mlist_tracker`, which calls one recovery handler per entry of the NMI Queue;
handlers use the recovery locks to keep others out, the replicas to rebuild the
object, the buffer cache and the log like any other process, and the sections'
histories to take the victim out of what it was in.  The log calls the buffer
cache, which calls the disk driver; both sleep and are woken by interrupts.

**What is hard here.** Recovery handlers run *in the middle* of somebody's
operation and beside everybody else's.  Locks are taken in an order the paths
never use; counts are read without the lock under which they are changed;
function pointers and the queue pointer are read and set in separate steps; the
victim's half-done operation has to be undone from a replica whose update was
another step; crashes come on top.  None of it is reachable for the
unit tests of `src/user/usertests.c`, which are sequential programs.

The hazards, each with its line, are listed in `PROJECT.json`.

## 2. Modules

| Module | Models | Grain |
|---|---|---|
| `RecoveryLocking` | `recovery_locking.c`, and the parts of `sleep`, `wakeup`, `mlist_tracker` it needs | one section operation is one to five steps |
| `RcsPaths` | the callers: in which order kernel paths and handlers enter, use and leave sections | operators that build paths |
| `RcsDiscipline` | what the mechanism relies on in its callers, as a condition on paths | constant definitions |
| `MCRecoveryLocking` | instances: processes, paths, broken objects, and the discipline of their paths | |
| `RecoveryLockingProofs` | theorems about `RecoveryLocking` | |
| `NmiQueue` | `nmi_handle.c`, the loop of `mlist_tracker.c` | a step per access of a shared variable |
| `NmiQueueProofs` | theorems about `NmiQueue` | |
| `AtomicDisk` | what a log promises | abstract specification |
| `Log` | `log.c` with crashes | a step per disk write of a commit |
| `LogRecovery` | `recovery_handler_log.c` on top of `Log` (EXTENDS) | a step per error, lock, count, surgery |
| `LogProofs` | theorems about `Log` (reservations, pins, the refinement of `AtomicDisk`), and in a second part about `LogRecovery` | |
| `Proc` | `proc.c`: fork, exit, wait, kill, sleep, wakeup, scheduler | a step per acquisition of a lock |
| `ProcProofs` | theorems about `Proc` | |
| `Kmem` | `kalloc.c`, the run list of `mlist.c`, the transaction of kfree in `trans.c`, `recovery_handlers_MM.c` | a step per access of struct kmem or of a free page |
| `MCKmem` | the free list of the instance | |
| `KmemProofs` | theorems about `Kmem` | |
| `Bcache` | `bio.c`, `sleeplock.c`, `virtio_disk.c`, `recovery_handler_buf.c` | a step per hold of `bcache.lock`, a sleeplock's lock or `vdisk_lock` |
| `BcacheProofs` | theorems about `Bcache` | |
| `Files` | `file.c`, the descriptors of `sysfile.c` and `proc.c`, `pipe.c`, the handlers of struct file and struct pipe | a step per hold of `ftable->lock` or a pipe's lock |
| `FilesProofs` | theorems about `Files`: the ring of a pipe, who sleeps in it, counts of files, ends and inodes | |
| `PageTables` | `vm.c`, `exec.c`, `ptdup.c`, `mlist_pagetable.c`, `recovery_handler_pagetable.c`, `cleanup_unused_procs` | a step per page of the loops of uvmalloc and uvmcopy, else per call |
| `FsTree` | `fs.c`, the tree calls of `sysfile.c`, `recovery_handler_inode.c`, the root directory of `mkfs` | a step per lock of an inode |
| `FsTreeProofs` | theorems about the inode cache of `FsTree` | |
| `MCBcache`, `MCFiles`, `MCPageTables`, `MCFsTree` | symmetry, start states, calls and paths of the instances | |

`RecoveryLocking` and `RcsPaths` are composed by `MCRecoveryLocking`
(`Paths <- LogPaths`, ...); `LogRecovery` composes the log with its handler;
`Log` and `LogRecovery` implement `AtomicDisk` under the refinement mapping at
the end of `Log`.  `RecoveryLocking` abstracts the queue that `NmiQueue` details
(there a victim's handler is a choice of status), and `LogRecovery` assumes what
`RecoveryLocking` is about: a section under recovery admits nobody; so does
`Kmem`, which also has the NMI Queue as a plain sequence, and so do the four
modules for the other objects, in each of which one object is hit at a time.
`Bcache` has of the log what it does to buffers (`log_write`, `install_trans`);
`FsTree` has the buffers' contents as everybody sees them and of the log the count
of outstanding calls, because `Log` shows that all of it becomes durable together
when that count is 0.

### RecoveryLocking

State: `num`, `exception`, the recovery lock (`rlock`) and `lk` of every section,
as in `struct recovery_lock`; `history` is `history_idx` without its zeros;
`path[p]` is what process p still has to execute, a sequence of operations on
sections, and `at[p]` is where it is inside one.  `queue` and `tracker` are the
victims and the recovery process; `gen[f]` counts replacements of f (it stands
for `recovered_memobj`).  Two ghosts: `depth[p][f]`, how often p really is inside
f, and `late[f]`, who got in after the recovery lock was taken.

Actions: `EnterBegin`, `EnterTest`, `EnterSleep`, `EnterWoken`, `EnterAdmit`,
`EnterRecord` are the pieces of `enter_recovery_critical_section` between which
others can run (the test of the recovery lock and the increment are two steps:
`lk` protects the counter, not the recovery lock); `Exit`, `ExitRecord` those of
`exit_`; `AcquireRecoveryLock` ... `WakeWaiters` the calls that handlers make,
without `lk` where the code has none; `Nmi` an error at an access (`use`);
`Done` the end of a victim.  `ExitAll` decrements the count of section 0 once for
every empty slot of the history, as the code does; `DelHistory` keeps what
`del_rcs_history` does to a full history without the flag.

Paths are data: `RcsPaths` writes every system call and handler as a sequence such
as `E(FTABLE) \o N(f) \o U(f) \o X(f) \o X(FTABLE)`, in the order of the source.
Branches become several paths.

### NmiQueue

`next` and `handler` are the function pointers, `active` is `nmi_queue != 0`,
`slots` what it points to, `state` p->state as far as NMIs care, `pc` where p is.
`nmi_handle` is split into five steps because it reads and writes
`mem_nmi_handle_next` five times without holding one lock throughout; what
happens under `nmi_queue_lock` is one step, except that a follower which finds
the queue gone while polling goes to `mem_nmi_handle_first` with the lock held
(`qlock`), where `acquire` panics.  A handler is a choice of After-Treatment
status or Fail-Stop.  The five system-call statuses are treated alike by this
code and are one value.  `Shifted` copies slots like the code: up to the first
empty one, never clearing the last.  The ghost `kept` is set when that happens to a
full queue.

### Log, LogRecovery and AtomicDisk

`disk`, `logBlocks`, `head` survive a crash; `cache` is the contents of the
buffers; `pins` is what `bpin`/`bunpin` add to refcnt; `lh`, `outstanding`,
`committing` are `struct log`; `dup_lhdr`, `dup_outstanding` their replicas.
`LogWrite` is the caller's change of the buffer together with `log_write`.
`commit()` takes a step per disk write, and so does `recover_from_log` at boot;
`Crash` may come anywhere, also during boot.  `RecycleBuf` is bget taking a
buffer whose refcnt is 0.

`LogRecovery` adds memory errors at each place where `struct log` is read
(`HitPoints` names them), the handler (`LockLog`, `CountLog`, `Surgery`,
`EndRecovery`), and the branch of `mlist_tracker` for objects that were recovered
already.  Errors whose handler is a Fail-Stop by the code's own rules
(conservative mode: log_write, create, sys_write) are `HitFailStop`.  A second
victim in the log while the first is being served is not modelled here: the
queue is `NmiQueue`'s subject.

`AtomicDisk` says: writes of the calls since the last commit become durable in
one step, which happens only while no call is active, and a crash undoes exactly
the rest.  Refinement: `durable` is what recovery at boot would make of the disk
now (`Replay`), `current` is the cache, `active` the calls between begin_op and
end_op.  Under it `WriteHead` is `Commit`, everything else in `commit()` and in
boot a stutter.

### Proc

`state`, `parent`, `chan`, `killed` are the fields of `struct proc`, `lock` the holder of
each `p->lock`; `lk` and `event` are a lock and a condition as pipes, the console and
the disk have them, with their loops around `sleep(chan, lk)`.  `pc` is where a
process is, `other` the slot it looks at (`original_parent` in exit, `np` in wait and
fork, the index in wakeup), `kids` is `havekids`.  What happens between an
acquisition and the next one is one step.  exit is `Exit` (wake init), `ReadParent`,
`LockParent`, `LockSelf`, `Reparent` once per child, `Zombie`, `Gone`; wait is `Wait`,
`ScanOther` and `ScanChild` for the slots in turn, `EndScan`; `Schedule` switches to a
process, which resumes where it slept.  allocproc may take any free slot instead of
the first one it finds: other processes may hold or free slots while it searches.
A failing kalloc or uvmcopy in fork is the branch of `Fork` that frees the slot again.
Slot 1 is init, which only waits for children, as `src/user/init.c` does after it has
started the shell.

### Kmem

`freelist` and `next` are the chain through the pages, `runs` is the run list of the
M-List (`mlist.run_list`, its circular header left out: `NodeAddr` gives the header's
address behind the last node).  `kmem` is the pointer that the handler moves to a
page, `lock` the spinlock inside the struct at an address, so that a process may
spin on the lock of a struct kmem that was given up.  `log_run` and `trans` are the
transaction of kfree.  `KmemSurgery`, `Rollback`, `EndTrans` are
`recovery_handler_kmem` with `check_and_handle_trans_run`; `RunSurgery` is
`recovery_handler_run`; `MyPop` and `MyDelete` are `my_kalloc` as the handlers of other
objects call it; `Leave` is the end of a victim with `check_all_locks`.  A wild
pointer that is followed stops the system (`halted`), as the kernel's page fault does.
`init_run_list` stops one page early, and so does `Init`.

### Bcache

`list` is the LRU list behind `bcache.head`, `buf` the buffers (one more per
possible replacement), `free`, `info`, `avail`, `used` the driver's `disk`; the
device (`Device`, external) finishes any request it has.  `Bget`, `EnterNode`,
`AcquireSleep` are bget up to its sleeplock, with the gap between the release of
`bcache.lock` and the section of the buffer; `VirtioStart`, `Poll`, `VirtioDone` are
virtio_disk_rw for a process that sleeps and for one in state RECOVERING, which
polls and stops the interrupt handler (`VirtioIntr`) from waking others
(`continue_polling`).  `LogWrite`, `StartCommit`, `Bwrite`, `Bunpin`, `EndCommit` are
what the log does with buffers.  `Hit` and `ScanHit` are an error in a buffer that
its only user has, or that bget's search reads; `InsertNew` and `Solve` are the
surgery on the list and `solve_inconsistency_buf`, mistakes included (`Evict`).
`truth` is the ghost against which reads are compared; `astray` has the blocks that
log_write took for pinned, because `lh` still had them, although the buffer that was
pinned had been lost.

### Files

`file`, `ofile`, `pipe`, `ref` are the table, the descriptors, the pages of pipes and
the references of inodes.  A byte of a pipe is its number, so that `InOrder` can
say that bytes are neither lost, doubled nor overtaken.  A slot keeps its old
`ip` and `pipe` when it is closed: the handlers look at them.  `SysPipe` ...
`PipeFds` and `SysOpen` ... `OpenFd` are split where the lock is given up, and have
the error paths of full tables.  `ExitLoop` closes one descriptor after the other.
`PipeHit` is the whole pipe handler with the After-Treatment; the file handler
starts (`StartFileRecovery`: which end of a pipe, which inode), waits until the
others have left the section (`Drained`), and moves the table
(`FinishFileRecovery`).  User cooperation is off.

### PageTables

The state of memory is one record `mm` (free list, tables, M-List nodes,
duplicates), and the functions of `vm.c` and `ptdup.c` are operators on such
records: `Then` passes on a failure (no memory, panic) as their callers do.  A
table has W entries instead of 512, an address is a page number.  The lists of
PTDSs and PTEDs keep the values of empty and deleted slots, because the code's
searches depend on them (`SlotAdd`, `PTDS_delete`).  A loop of uvmalloc or uvmcopy is
a `job` that advances by a page; `RunDup`, `RunJob`, `RunEnd` are its run of adjacent
pages.  `Hit` is an error in any table that a process touches next, with
`mlist_tracker`'s search for the owner, the handler of the level, the isolated
duplicates and the unfinished fork; `Cleanup` is the handler after it waited for
the lock of another process's child.  `bad` is a ghost that is set where a table
was rebuilt from a duplicate the code is known to have kept wrongly; the
properties are about all other behaviours.

### FsTree

`fs` is the disk as seen through the buffer cache (`di`: inodes, `used`: bitmap,
`blk`: blocks); sizes are in units, one unit being a directory entry, a block
number or a piece of a file, so that directories, indirect blocks and files are
blocks with the same addressing, as in the code (`Bmap`).  `ic` is the inode cache.
A process has a frame `t[p]`: the call, the rest of its path, the inodes it has,
what it is about to `iput` and what follows.  Path walks lock one directory per
step (`Walk`); iput takes up to four (`Iput`, `IputTrunc`, `IputInval`, `IputDrop`),
between which others run.  System calls are split where they give up the lock of
an inode.  `Hit`, `HitLooked` and `HitWritten` are an error in an entry of the cache,
in conservative mode: before the step of a process, in the iunlock with which a lookup in
a directory ends, and in the iunlock after writei.  `FailStop` is
`check_fail_stop`, which looks for functions on the victim's stack: create, idup, iput,
iupdate, writei, sys_link, sys_open and sys_unlink stop the system (`HitFails`).
What is left, and recovered, is the path walk of chdir; the
ilock, the iunlock and what is between them in chdir and fileread; the ilock and iunlock of
filewrite, that is with a transaction open; and the iunlock that ends
mkdir and mknod.  (Those of exec and fstat are recovered too; these calls are not
in the module.)  The handler waits until the others have left ICACHE, then replaces
the cache, clears the files on the broken inode and takes the call out of `outstanding`
(`Replace`).  `leak`,
`lost` and `odd` are ghosts: references that a recovery left, inodes whose entry was
hit, and the cases under *inodes* below that the code gets wrong.

## 3. Runs

Bounds are CONSTANTS (`MaxNmi`, `MaxCalls`, `MaxOps`, `MaxShared`, `MaxCrash`, `MaxHit`) or sizes
of sets; nothing else limits a behaviour.  Deadlock checking is off: when all
calls are used up, or after a Fail-Stop, the models stop, as the system may.

| Run | Checks | Instance and why it is enough |
|---|---|---|
| `rcs` | `OneIntruder`, `OnlyLateEntrants`, `FtableDrained` | three processes, each with a log operation, a commit, a close or a fork; two errors in the log or in a file: with fewer processes there is no second intruder, with one error no follower |
| `rcs_nested` | `TypeOK`, `NoUndercount`, `RecoveryCompletes` | two processes, six kinds of path, six broken objects; the deepest path (`FileRead`) overflows the history of five |
| `nmi` | `SoleTracker`, `QueueOwned`, `OwnResult`, `Recovered` | three processes, three errors, a queue of three: it gets full, and the race for the first handler occurs |
| `log_space` | `LogInv` (`TypeOK`, `PinsMatch`), `SpaceReserved`, `BeginProceeds` | three processes and a log with room for two blocks (`LOGSIZE` and `nlog` of 3), so that calls wait for space and for a commit; buffers are recycled; one crash at any point |
| `log_repair` | `OutstandingExact`, `ReplicasInSync`, `ImplementsAtomicDisk` | two processes, three calls with up to two writes each, an error, two crashes: the second crash may hit the recovery at boot from the first |
| `log_hits` | `RecoveryEnds` | two errors at any access of `struct log` |
| `kmem` | `RunListExact` (`TypeOK`, `RunsUnused`, `FreeRegistered`), `NoDoubleUse` | three processes, four free pages and one in use, four calls, two errors: kalloc and kfree are interrupted at each access, with a second victim in the queue; the free list runs empty |
| `proc` | `NoSleepOverZombie`, `ParentInUse`, `NoMissedWakeup`, `KilledLeavesWait`, `NoCircularWait`, `ExitEnds` | init and three more slots, which are reused, so that a slot may come back as a descendant of the process that still takes it for its parent; three calls besides exit and init's wait |
| `bcache` | `CacheInv` (`TypeOK`, `DescriptorsOwned`, `RefcntExact`), `ExclusiveUse`, `CoherentRead`, `NoMissedCompletion` | two processes, one of them RECOVERING, three blocks for two buffers, so that buffers are recycled and run out; six descriptors are two requests; five calls, of which the first three may overlap (`MaxShared`), and an error: as many as it takes to lose a logged buffer, log its block again, recycle and read it; blocks are symmetric |
| `files` | `CountsExact` (`TypeOK`, `RefExact`, `EndsExact`, `InodeRefs`), `InOrder`, `SleepsForReason`, `HandlerGoesOn` | two processes with two descriptors, three files, so that tables run full; a ring of two bytes, so that it wraps; four calls and an error; also from a pipe that both share |
| `pt` | `TablesInv` (`TypeOK`, `Mirrored`), `NoDoubleUse`, `RecoverySound` | three slots, tables of five entries, so that a process reaches a second level-0 table; memory for a fork and an exec but not for both, and a hole between free pages, so that runs break and calls fail at each page; aggressive mode, where more is recovered; four calls and an error |
| `fs` | `IcacheInv` (`TypeOK`, `RefsExact`, `Coherent`), `IputFree`, `FsckOK`, `CallsGoOn` | two processes, one with two calls and one with one, over thirteen calls with paths and read, write, close, exit, from two trees: a file with an indirect block that is open, and an empty directory that is a current one; five inodes, four cache entries and eight blocks, all of which can run out; an error, also with transactions open |

What they show: at most one process slips past a recovery lock, and only that
one can be inside a counted object during surgery; counts never make a handler
believe that it is alone when an older visitor is there; nested sections and
handlers of different objects do not lock each other up; NMI shepherding keeps
one recovery process and a valid queue under every race for its pointers, and
serves everybody when the queue has room; the log is an atomic disk over two
crashes and a repaired error in begin_op (after its increment), end_op (before
its decrement), commit() up to the reset of the header and the rest of end_op; the
first recoveries of struct kmem and of free pages give no page two uses; exit, wait,
kill, sleep and wakeup lose nothing between processes, and their locks form no
circle but through a process in exit() that was given to init and holds the slot of its old
parent; the buffer cache never gives a block to two processes, and it gives an old version
of a block only when the newer one was in a buffer that was hit, or was logged after
that without a pin; reference counts of files, pipe ends and inodes survive full
tables, exits and the move of a table, and bytes of a pipe keep their order; calls
that run out of memory half way give back exactly what they took, and a page
table that is rebuilt from a faithful duplicate is the one that was there; the
file system is consistent whenever the log may commit, although inode numbers
are reused while their last user is still in iput.


Each property of a passing run has a mutant: a changed copy of an operator,
defined next to it (`EnterBegin_nolk`, `Surgery_nodup`, ...), with which the
property fails.

### Scope of the properties that hold

Several properties hold on an instance and fail on a larger one for a reason that
is understood; the instance is drawn where the code is sound.

 * `NoUndercount` holds for paths that leave what they entered; see *exit* below.
 * `OnlyLateEntrants` is about objects whose handler counts (the log); kmem's does
   not count and a buffer's count misses processes in bget's search.
 * `RecoveryCompletes` is checked without the log, `RecoveryEnds` with one victim at a time: a second
   victim that commits is waited for in vain, see *commit* below.
 * `Recovered` excepts what a full queue loses (`ServesTheAbsent`): see *full queue* below.
 * `OwnResult` excepts behaviours in which a full queue kept its last entry (`kept`).
   The proof showed that it must: the process of that entry, hit once more, may take
   the status of its earlier error.
 * `PinsMatch` speaks of the time before the first crash, without errors: see
   *pins* below.  (`ImplementsAtomicDisk` is checked without recycling for that reason,
   and proved with recycling only until a first crash.)
 * `kmem` has no error in struct kmem or in a free page after struct kmem was
   replaced (`HitAgain`), and the first error does not hit a process that spins
   (`HitWaiters`): see *kmem* below.
 * `NoCircularWait` excepts circles in which a process in exit() has the lock of a slot that
   is not its parent's any more (`GivenAway`), and `ExitEnds` says that exits end unless
   processes wait in a circle: see *exit's parent* below.  The run has the case: without the
   exceptions both fail in it.  `NoSleepOverZombie` leaves out init: see *init* below.
 * `OutstandingExact`, `ReplicasInSync` and the refinement under errors are checked
   for the hit points named above; *log* below has the others.
 * `Bcache`: `ExclusiveUse` and `CoherentRead` except behaviours in which a handler ended
   another process's commit (`crossed`) or bunpin took a reference that was not the
   log's (`unbalanced`); `RefcntExact` is about the time before the error;
   `NoMissedCompletion` excepts those whom a polling process or a handler robbed
   (`unheard`).  `CoherentRead` also excepts the blocks in `astray`: a block whose buffer was
   lost and which the handler's comparison passes over stays in `lh`, so that the
   next log_write of it absorbs and does not pin the new buffer, which is recycled
   before its change is on disk.  The run has that case: without the exception
   `CoherentRead` fails in it.
 * `Files`: pipes that were hit (`hurt`), files of a call that was cut off (`orphan`)
   and a wrongly guessed inode (`misjudged`) are excepted.
 * `PageTables`, `FsTree`: `Sound` excepts what follows one of the cases under *page
   tables* and *inodes* below (`bad`, `odd`).  In `FsTree` no call is started after that.

### Known divergences

Found while modelling and recorded for the reader.  Those with a property or a
constant in parentheses were confirmed with TLC on the modules here; each is why
a property above has an exception or an instance its limits.

 * *Race* (`recovery_locking.c:243`): enter tests the recovery lock and increments `num`
   under `rlk->lk`, handlers take the recovery lock and read `num` without it.  A
   process that saw the lock free counts itself after the handler has counted, and
   is inside while the object is replaced (`SurgeryExclusion` with `LogPaths`, two
   processes).  `OneIntruder` bounds it.
 * *exit* (`proc.c:366`): exit() calls fileclose and iput without the sections of the
   file and the inode, which they leave all the same: counts become too small
   (`NoUndercount` with `ExitPaths`, whose paths are not `Disciplined`).
 * *Full queue* (`mlist_tracker.c:160`): the shift of a full NMI Queue leaves its last
   entry twice; the copy is served for a victim that has left, for whom the tracker
   waits for ever (`Recovered` with a queue of two and two processes).  If that process
   is hit again meanwhile, the status computed for the copy is the one it takes
   (`OwnResult` without `kept`).  The size is 5 and there may be 8 harts.
 * *Lost wakeup* (`recovery_locking.c:414`): `release_recovery_lock` releases and
   wakes up without `rlk->lk`.  A process between `EnterTest` and `EnterSleep`
   misses `WakeWaiters`.  Under `FairSpec` with `LogPaths`, `at[p] = "asleep" ~>
   at[p] # "asleep" \/ halted` fails.
 * *Search* (`bio.c:72`): bget's search reads buffers under BCACHE alone; an error
   there is recovered by a process the buffer's section does not count, so that a
   count of 1 is somebody else's (`BgetScan` with `SurgeryExclusion`).
 * *History* (`recovery_locking.c:139`): the sixth nested section is dropped; after
   a recovery it stays counted.  The same happens to victims whose object was
   recovered already (`mlist_tracker.c:819`), which are let go without
   `exit_rcs_after_recovery`.
 * *pid 2* (`recovery_locking.c:244`): end_op passes its pid as exception; pid 2 is
   taken for fork's code.
 * *Commit* (`recovery_handler_log.c:106`): the handler waits for a commit whose
   process waits in the NMI Queue behind the handler.
 * *Polling* (`nmi_handle.c:157`): the queue is found gone with `nmi_queue_lock`
   held, and `mem_nmi_handle_first` acquires it again: panic.
 * *Re-arming* (`nmi_handle.c:80`): the loser of a race for the first handler leaves
   `mem_nmi_handle_next` at panic after the winner re-armed it: the next error
   stops the system.
 * *State* (`nmi_handle.c:190`): followers that return to user mode or to the
   kernel stay RECOVERING until they are rescheduled.
 * *Frames* (`mlist_tracker.c:874`): the recovery process returns with pid, sp, s0
   and irq of the last entry it served.
 * *Size* (`log.c:244`): `mkfs` makes nlog = LOGSIZE (`src/mkfs/mkfs.c:25`), log_write
   panics at nlog - 1, begin_op admits up to LOGSIZE.
 * *Pins* (`log.c:78`): install_trans unpins at boot what was not pinned: refcnt
   becomes -1, a later pin makes it 0, and the logged buffer may be recycled
   before its commit.  A commit repeated by the handler unpins twice.
 * *exit's parent* (`proc.c:396`): exit() locks the slot that was its parent's when it looked.
   If the parent gives the process away meanwhile, "the result will be a harmless
   spurious wakeup to a dead or wrong process" (`proc.c:392`).  It is not always: the parent
   is reaped, its slot is given to a descendant of the exiting process, which exits
   too and locks upwards, and each waits for the other's spinlock for ever, with
   interrupts off (`NoCircularWait` without `GivenAway`: init, the process, a child of it,
   and the child's child in the slot of the old parent).  `NoCircles` shows
   that there is no other way to a circle.
 * *Log* (`recovery_handler_log.c:145`): an error in begin_op before its increment takes
   another call out of the count, and the log commits while that call is active,
   although "the logging system only commits when there are no FS system calls
   active" (`log.c:18`; `ImplementsAtomicDisk` with hit point `begin`).  An error in
   end_op after its decrement makes the handler decrement again; one in the second
   write_head finds an empty header and leaves the committed one on disk, to be
   replayed over the next commit's blocks after a crash; the "already recovered"
   branch decrements `outstanding` and not its replica.
 * *kmem* (`recovery_handlers_MM.c:127`, `trans.c:266`): the new free list begins at the
   second node of what is left, so that each recovery of struct kmem loses a page,
   and `recovery_handler_run` loses the pages in front of the broken one.  They stay
   registered, with old links: a second recovery of struct kmem may build the free
   list from such a page, whose link leads to the page that struct kmem is in
   (`NoDoubleUse` with `HitAgain`).  A kfree that is hit finds its own page first in
   the M-List, so that it becomes struct kmem and the transaction is never ended
   (`run_ntrans`); and `exit_trans_run` is called in the name of the recovery process,
   not of the victim.  The handler counts nobody inside the section, so that an
   error found by a process that spins replaces struct kmem under the holder of its
   lock (`HitWaiters`).
 * *my_kalloc* (`mlist.c:250`): a handler waits for `kmem->lock` while its holder waits
   in the NMI Queue behind the handler.  For several pages, only one of them is taken
   out of the M-List.
 * *init* (`proc.c:383`): exit() wakes init before it gives its children to init; init
   may look before that and sleep over a zombie until the next exit ("init may miss
   this wakeup, but that seems harmless").
 * *Kill* (`pipe.c:120`): the loops around sleep() test `killed` without `p->lock`; a
   process killed between the test and sleep() sleeps until the next event.
 * *Disk* (`virtio_disk.c:271`): while a RECOVERING process polls, the interrupt
   handler wakes nobody; a process that sleeps for another request stays asleep
   (`NoMissedCompletion` without `unheard`).  One that finds no free descriptor
   (`virtio_disk.c:175`) spins with `vdisk_lock` held, so that none is ever freed.  The
   three descriptors of a victim that is cut off are lost.
 * *Buffers*: the handler drains the used ring and wakes its waiters without clearing
   `b->disk` (`recovery_handler_buf.c:107`), so that they sleep again; it sets
   `log->committing` to 0 while another process commits (`:142`); it compares each
   logged block with the first buffer of the list only, and so drops blocks from
   the log that are not broken (`:148`; the comment at `:158` speaks of a search of the
   whole cache) and keeps some that are, which log_write then does not pin
   (`CoherentRead` without `astray`); a replaced buffer loses its pin,
   and bunpin drops somebody else's reference; neighbours of
   the broken buffer are looked for in `bcache.buf[]` and the head only (`:269`), not
   among buffers that replaced others.
 * *Pipes*: the pipe handler kills the first process with the pipe open and gives the
   new pipe to its file alone (`recovery_handler_pipe.c:123`): the pair is split.  A killed
   writer returns without waking readers of what it wrote (`pipe.c:94`).  A sys_pipe that
   is cut off in its error path leaks a file.
 * *Files* (`recovery_handler_file.c`): any file that is the other end of a pipe may be taken
   for the partner; for a lost write end the wrong open flag is cleared; the inode
   of the broken file is guessed from counts that stale fields of closed slots and
   opens under way disturb, before the others have left; the handler waits for
   ever for a process asleep in a pipe (`HandlerGoesOn` without its exception).
   filewrite leaves ICACHE without having entered it when a device has no write
   (`file.c:200`).
 * *Page tables*: uvmalloc and uvmcopy lose the page at which a run breaks
   (`vm.c:316`); a PTDS that crosses or starts at the end of a level-0 table, index 0 of
   a list, a part of a PTDS that is deleted, and the guard page (which fork's
   duplicate gives back PTE_U) are kept wrongly; a full list overwrites its first
   slot; nodes of a child's tables are registered under the parent's pid; init has
   no duplicates of levels 1 and 0; an error in the level-2 table of an exec under
   way finds the process's old tables; a kill inside uvmalloc ends in the panic
   "freewalk: leaf"; proc_freepagetable with size 0 leaks the tables, and a uvmcopy
   that fails at its first page panics; cleanup_unused_procs may free a child that
   runs, and the duplicates of an exec of another process; a table that was
   replaced stays in the parent's walk of wait; a pid of 1024 or more does not fit
   into a node.
 * *Inodes* (`recovery_handler_inode.c`): outstanding is decremented for a read, which has no
   transaction, so that it may become negative and the log never commits (`:143`);
   a current directory in the hit entry refers to a cleared one (`:158`); chdir
   (`sysfile.c:476`) and fileclose (`file.c:86`) keep a pointer into the old cache over the
   point where they wait for the section, and a read or write that waits finds
   `f->ip` cleared and panics; references of the victim to other inodes are never
   given back; an open file without a link that is hit is never freed on disk.
 * *Removed directories* (`fs.c:566`, `sysfile.c:304`): a name may be linked or created in
   a directory that was removed while the path walk had it, and ".." of a removed
   directory names an inode that may be free (panic in ilock).
 * *mkfs* (`src/mkfs/mkfs.c:169`): a root directory of exactly full blocks is rounded up
   to one more, which is a hole.

## 4. Fairness

`RecoveryLocking`, `NmiQueue`, `Log`: weak fairness of every process's own steps.
The scheduler is round robin on every hart and the timer takes the CPU back; in
the NMI handler interrupts are off and the hart runs nothing else.  Spinlocks are
not fair, but a bounded number of calls can take one from another process only a
bounded number of times, so that weak fairness is enough.  Nobody has to make a
system call, nothing has to fail, and no crash has to happen; the boot sequence
goes on once begun.  `Proc`: weak fairness of what a process does next, be it that the
scheduler, which goes round the table, switches to it (`Schedule`) or a step inside a call
(`Inside`); the timer may preempt it between any two, so that only both together go on; init calls wait
again and again; nobody else has to call anything.  `Files`: weak fairness of the steps inside a
call, a process asleep in a pipe has none.  `Bcache`, `PageTables` and `FsTree` have
only safety properties; `CallsGoOn` says without fairness that not everybody waits.
In `LogRecovery` the steps of a process that are kept out by
the recovery lock are not enabled, like those of a process asleep in enter.

## 5. Proofs

TLAPS proves the following for all values of the constants that satisfy the named
ASSUMEs of the modules: sets of processes are finite where they are counted, pids
and addresses differ from 0, sizes are natural numbers (a queue of at least two
entries, a process table of at least two slots, a log whose header and one call's
share fit), initial values are values.  Every invariant below was first checked
with TLC on the run's instance; those of `BcacheProofs` and `FilesProofs` on two more.
`TypeOK` of `Files` says of the numbers of bytes that they are natural numbers: the cap
`MaxBytes` is in the guard of a run's reads and writes, not in the code.

**Recovery locking** (`RecoveryLockingProofs`)

 * `TypeCorrect`: `Spec => []TypeOK`, the bound of the history included.
 * `Invariance` and `AtMostOneIntruder`: `Spec => []OneIntruder`
   for any number of processes, paths, handlers and errors.
   `OneIntruder` is not inductive: it says nothing of a process that has passed the
   test and has not counted itself.  `IInv` adds `LkInv` (whoever is between
   acquire and release of `lk` inside enter holds it) and `LateInv` (the late
   entrants *together with* those admitted and not yet counted are at most one
   process, and there are none while the recovery lock is free).  A step that
   takes the recovery lock keeps it because at most one process holds `lk`; a step
   that admits needs the recovery lock to be free, which makes `late` empty; the
   step that counts turns the admitted process into a late one.
 * `NeverUndercounted`: `Spec => []NoUndercount`, and `OnlyLateGetIn`:
   `Spec => []OnlyLateEntrants`, `GiantStaysDrained`: `Spec => []GiantDrained(g, node)`, for
   every g and node; `FtableDrained` is the last for `FTABLE` and a file.  They are about
   any paths and handlers that are `Disciplined` (`RcsDiscipline`): there is a
   set of paths, with a ledger each (how often it is inside each section, which recovery locks
   it has, what it has counted and waited for), that contains all paths and what is left of
   them after each operation, and in which a path leaves only sections that it is
   inside of, and a handler enters none whose recovery lock it has, leaves the section
   of its object with the victim's others only, and ends without recovery locks.
   `OnlyLateGetIn` needs in addition that counted objects are used inside their
   section and replaced after the count (`Judged`), `GiantStaysDrained` that nodes are replaced
   after the busy-wait (`Waits`).  For the paths of `RcsPaths` these are the ASSUME
   `PathsDisciplined` of `MCRecoveryLocking`, which TLC evaluates in both runs (`Judged` and
   `Waits` for the paths of `rcs` only: bget's search uses buffers outside their section); the paths of
   exit() do not satisfy it (see *exit* in section 3), and `NoUndercount` fails for them.

   The invariant `DInv` has three parts.  `NumInv` is why the
   count is never too small: a process weighs in a section as often as it is inside or,
   if that is more, as often as its history has it; the sum of the weights, as the
   cardinality of the set `Bars`, is at most `num`.  The depth alone would not do: a full history
   drops entries, and exit of a section that was dropped may remove somebody else's
   slot; `exit_rcs_after_recovery` takes from `num` what the history says, not the
   depth.  `QueueInv` says who is in the NMI Queue, and that all but the first wait inside
   the section of the object that hit them.  `PathInv` has for each process a ledger that fits:
   it is inside at least what the ledger says, and for the recovery process `TrackerOK`
   turns the past tense of the ledger into a statement about now: since the count,
   nobody but the victim is inside without being late; since the busy-wait, everybody
   inside is late or in the queue.  `CountedAlone` and `Drained` are the two
   counting arguments.

**NMI shepherding** (`NmiQueueProofs`)

 * `TypeCorrect`: no index leaves the queue.
 * `OneRecoveryProcess`: `SoleTracker /\ QueueOwned`.  Neither is
   inductive alone: the creator of a queue has seen none, and only with
   `QueueOwned` does that mean that there is no other owner.  `OwnerStep` sums up
   what any step can do to the queue pointer and to the set of owners.
   `QueueNeverDangles` is the second half by itself.
 * `QueueCorrect` and `OwnStatus`: whoever leaves takes the status that was computed for
   its own error (`OwnResult`, an action property).  The invariant `ServeInv` follows
   an entry through the queue: there is one entry for each waiting process
   (`QueueInv`), the entry at the head is the recovery process's or a waiting
   follower's and carries its status (`HeadInv`), and what a process is about to
   leave with is that status (`TermInv`).  The case in which this breaks, a full
   queue that keeps its last entry, is the disjunct `kept`.

**The log** (`LogProofs`)

 * `ReservationSound`: what is logged and what the active calls may still
   log fits into the log (`SpaceReserved`).  `ControlInv` is the invariant: at most one process
   commits, while nobody is active (`Solo`); `outstanding` is the number of active calls
   (`CountInv`); and begin_op's test, `lh.n + (outstanding+1)*MAXOPBLOCKS`, bounds
   the sum over what each call has left (`SpaceInv`).
 * `OnlyTooBig`: if log_write panics, the log holds at least `nlog` - 1 blocks.  So only
   the on-disk size (*size* in section 3) can make it panic, never a call that was
   admitted without room.
 * `LogCorrect`: `LogInv`, that is types and `PinsMatch`: a block is pinned once from its first
   log_write to its installation.  `PinsInv` adds that a header names no block
   twice and says which blocks install_trans has already unpinned.
 * `LogRefinesAtomicDisk`: `Spec => ImplementsAtomicDisk`, if buffers are not recycled
   or there is no crash (`Recycle => MaxCrash = 0`).  The hypothesis is the code's
   limit, not the proof's: after a boot from a full log the pins are wrong (*pins* in section 3) and
   a logged buffer can be recycled.  `DiskInv` says at each label of commit() and of
   recovery at boot what has been written: blocks outside the header are on disk
   as cached, `logBlocks` holds the first ones of the header, their homes hold the
   first ones of the log.  From it each step is shown to be the abstract step that
   the refinement mapping makes of it; `Replay`, the mapping's disk, is unchanged by
   every write except that of the header.

**The log's recovery** (`LogProofs`, second part)

 * `RecoveryCountsExactly`, `RecoveryKeepsReplicas`, `RecoveryRefinesAtomicDisk`:
   `OutstandingExact`, `ReplicasInSync` and `ImplementsAtomicDisk` for any number of errors and crashes.
   Hypotheses: errors come at the hit points that the handler repairs
   (`RepairedPoints`; the others are under *log* in section 3) and buffers are not
   recycled.  `RecInv` is the log's invariant without the pins, with a count that
   may be one too high while a victim waits (`RecCount`), and `VictimInv`: who was hit,
   that the recovery lock is held for it, and that nobody else commits then.  Steps of
   the log are taken over from the first part as lemmas, those of the handler are new.

**Processes** (`ProcProofs`)

 * `TypeCorrect`, `Invariance`, `NoZombieMissed`, `ParentsInUse`,
   `KilledDoNotWait`: `[]TypeOK`, `[]NoSleepOverZombie`, `[]ParentInUse` and
   `[]KilledLeavesWait` for every size of the process table and any
   number of calls.  `TypeOK` is inductive, and so is `KilledLeavesWait` with it; the other
   two are not.  `LockInv` says which locks the labels of
   exit, wait and fork imply; `ParentInv` that exit's copy of the parent is right
   unless the process was given to init, and that a zombie has no children;
   `WaitInv` that a search of wait has left no zombie behind it.  The two meet when a
   child becomes a zombie: it holds its parent's lock, so that the parent is not in
   the middle of its search, and wakes it if it sleeps.  The proof also shows why init is
   left out: the copy may be stale exactly when the parent is init.
 * `NoWakeupMissed`: `[]NoMissedWakeup`.  `EventInv` says that `lk` is held from the test
   of the event to the change of state and during wakeup(); `Expected`, that whoever
   sleeps over an event that has happened is in the part of the table wakeup() has
   still to come to.
 * `NoCircles`: `[]NoCircularWait` for every size of the process table.  `HolderInv` says
   where the holder of a lock is; `Tree`, that `parent` has no circles: every set of processes has
   one without children in it, since fork takes a slot that nobody's `parent`
   names (`TreeStep`).  In a circle in which exit() has the lock of the parent it still has,
   each member that holds a lock of the table waits, through the lock of a child, for that
   child or for a child of it (`HolderInCircle`, `BlockerCases`).  These members, and the
   children between them, would be a set in which everybody has a child.

**Buffer cache and disk** (`BcacheProofs`)

 * `CacheCorrect`, `LockedAlone`, `CompletionHeard`, `NoDescriptorLost`: `[]ExclusiveUse`,
   `[]NoMissedCompletion` and `[]DescriptorsOwned` (a part of `CacheInv`), with any number of
   buffers, requests, errors and replaced buffers.  One invariant serves all of them:
   `Types`; `ListInv` (the LRU list has no node twice, and lacks one exactly during
   a replacement); `PlaceInv` (what a process holds where it is); `DescInv` (a
   descriptor is free, in one request or leaked); `RequestInv` (a chain belongs to the
   process that waits for it, and is not freed while the device or the used ring has
   it); `HeardInv` (who was woken has its request finished); `BlockInv` (a block has
   one node, and a node at least as many references as users).  Exclusive use needs
   all of it: a buffer is recycled when its count is 0, so that the count must
   cover those between the release of `bcache.lock` and their sleeplock, over the
   surgery on the list and over bunpin.
 * `ReferencesCounted`, `ReadsLastChange`, `CacheExact`: `[]RefcntExact`,
   `[](faults = 0 => CoherentRead /\ astray = {})` and `[]CacheInv`, the invariant of the run.  Before the first
   error an exact invariant (`Clean`) goes with the one above: `PinInv` says that the
   count of a buffer is that of its users plus one while the log has its block
   and has not unpinned it, where install_trans has got to included; `DataInv`, that a
   block has its last version in its buffer, and on disk unless the log has it.
   The two need each other: a buffer with a logged block is not recycled because
   the pin is counted, and so what is read again from disk is never older than the log.
   After an error `RefcntExact` says nothing, but the types in `CacheInv` do: that the
   device's rings have room (`RingsHavePlace`: a head is in one ring at most, and
   takes three descriptors) and that what the handler's evictions leave is a header.
   `Evict` computes that with a fold, whose recursive function is shown to exist and to be
   the only one (`FoldExists` and the lemmas behind it; `LeastNumber` takes the part of induction).

**Memory allocator** (`KmemProofs`)

 * `PagesUsedOnce` and `RunListStaysExact`: `[]NoDoubleUse` and `[]RunListExact` (with the
   types), for any number of processes, pages, calls and errors, wherever the errors
   hit and in whatever order victims are served.  Hypotheses are the two constants
   that the run has FALSE: an error in struct kmem or in a free page is first met by
   who holds `kmem->lock` (`HitWaiters`), and nothing hits them again once struct kmem was
   replaced (`HitAgain`).  Both are the code's limits (*kmem* in section 3); which pages and
   how many are hit before, and how often objects of other kinds are, is free.
 * The invariant speaks of the free list as a *sequence* s of pages that the pointers spell
   out (`IsChain`).  `OneUse` says where a page may be (handed out, in s, struct kmem, in
   one hand).  `InOrder` relates s to the M-List: the same pages in the same order,
   but for the last one, which the boot does not register, and for a page that is
   registered and not yet linked (`Sorted`; `Follows` when nobody is in between).  It is what
   the two handlers live on: they make the free list begin at the second page that
   the M-List has left, and from `Sorted` it follows that this page leads to the
   rest of the chain (`SecondOn`, `FirstOn`), although nobody reads the pointers before it.
 * The other parts say when the handlers run.  `LockInv`: who is inside holds the lock,
   and the lock of a replaced struct kmem is never free again, so that a process
   that spins on it stays there.  `HandInv`: a page in a hand is in the M-List only when
   kfree has registered it or my_kalloc has not deleted it yet.  `HitInv`: the victim that
   an error in the allocator has is the holder of the lock (`FirstHit`), so that while
   it waits nobody moves the lists.  `ErrorInv` and `TransInv`: a page that was hit is lost
   once served, and what a roll-back links in again has no other use.
 * `NoDoubleUse` follows the pointers with a recursive function; `ReachedPages` shows that
   it gives the pages of s and one end, after as many steps as there are pages
   (`ListFits`), from an explicit solution of the recursion and `LeastNumber`.

**Pipes** (`FilesProofs`)

 * `BytesInOrder`: `[]InOrder` for every size of the ring.  That a byte is not overwritten
   before it is read is arithmetic: of two numbers less than `PIPESIZE` apart one does not take
   the other's place (`PlacesDiffer`, from which `PutOrdered`).  The rest is `Shape`: types, an
   end of a pipe has a pipe (`EndInv`), who is inside a pipe has one and bytes to
   move (`PlaceInv`), an open end has its page (`OpenInv`).
 * `SleepersHaveReason`: `[]SleepsForReason`.  Relative to `Shape` it is inductive; `Reasoned` is the property of
   one process, and `QuietSleep` deals with every step that puts nobody to sleep and
   leaves the pipes of the sleepers alone.

**Files** (`FilesProofs`)

 * `ReferencesCounted`, `EndsOpen`, `InodesReferenced`: `[]RefExact`, `[]EndsExact`,
   `[]InodeRefs`, and with the types `AllCountsExact`: `[]CountsExact`, the invariant of the
   run, for tables of any size and any number of processes, calls and errors.
 * A count is the number of *places* with the file: `Refs` maps a process and a place (a
   descriptor, or one of the two files its call has in hand) to a file, `InodeMap` does the same
   for inodes.  A step changes a few places of one process, and `CountChange` with its
   corollaries says what that does to a count; fork, which fills a process's places at once,
   and the file handler, which empties all places of one file, have lemmas of their own.
 * The properties are not inductive: `CallInv` says which places are in use at which label
   (exit keeps the descriptor until fileclose has returned, and a killed process goes on there),
   and that one handler runs at a time.  `RefInv` follows the broken file while the handler
   waits: its process has one reference that no place shows, or holds the file in a
   descriptor.  `NewInv` says that a file which pipe or open has allocated is nobody else's, and that
   a slot with count 0 has no type.  `EndsInv` adds that a pipe has each end in one place at
   most, the table or a process inside pipeclose: only then does the flag that is cleared
   belong to the last one.
 * What a handler cut off stays excepted (`orphan`, `hurt`, `misjudged`, section 3): the theorems say
   that nothing else disturbs a count.

**Inodes** (`FsTreeProofs`)

 * `ReferencesExact` and `InodeHasOneEntry` (conjuncts of `IcacheInv`) and `LastPutIsFree`
   (`[]IputFree`), from `CacheInvariant`, for any number of processes, inodes, cache
   entries, calls and errors, whatever the tree is.  Assumed are finitely many processes,
   that the cache has room for what init and the processes have at the start
   (`StartsAssumption`), and that calls are calls (`PathCallsAssumption`).  Like the
   properties, the theorems say nothing after a panic, a Fail-Stop or one of the cases
   under *inodes* in section 3 (`Sound`).
 * `RefsExact` counts references in five places: those of a call in hand (`ip`, `dp`, and `put` for
   iput), current directories and open files.  It is not inductive, because what a call puts or hands
   on depends on where it is.  `Ready(l, x)` says which inodes a call has at label l, which kind
   of call comes there, and whether there is path left; `Fit` that the frame of a process is ready
   for its label, or in iput for the label it goes on at.  `Moved` names the two labels at
   which the current directory is put, and counts no more, before `p->cwd` says so.
 * A step is one process taking or giving up a reference or neither.  `Gets` and `Even` say so of a
   frame, `Sum` of the cache, and `KeptStep` that the two together keep the count exact for
   everybody (`CountStep`).  Only the replacement of a broken inode, which clears the files of
   all processes at once, is not of that form (`ReplaceEntryAll`).
 * `LastPutIsFree` needs `LockInv`: a lock that is held between two steps belongs to a process that has
   a reference to the inode in hand (`Holds`).  If the count is 1, then by `RefsExact` the one
   reference is that of the process in iput, so that nobody else holds the lock; it does not hold it
   either, since with a second reference in hand the count would be 2 (`HoldsRef`).  `OneIn` gives the one entry for each inode, across
    iget, a number that ialloc gives out again, and the replacement.
 * `EntriesMatchDisk`, from a second invariant (`DataInv`) on top of that one: what an unlocked entry
   holds that was loaded is its inode on the disk (the rest of `Coherent`, for entries of inode
   numbers that exist).  Not inductive either, since a call between iupdate and iunlock, or in
   iput for an inode that it has freed but not yet invalidated, is exactly where the two could
   part.  `DataInv` says that the copy is right whoever has the lock, except in that window of
   iput (`Dying`); that a call finds what it holds loaded and locked by itself; and that iput
   frees no inode which its caller, coming out of a directory it still has locked, goes on to use
   (`Later`).  A step changes the copies in a set of entries that nobody else has locked, and on
   the disk only their inodes or free ones (`DataStep`).
 * For that, writei and dirlink have to leave all inodes but their own alone (`Wrote`, `Made`).
   writei is a fold over its units, whose recursive function is shown to exist (`WritesExist`) and
   to keep the inodes (`WritesSame`) by induction over the size of what is left.  That inode
   numbers in directories are inode numbers belongs to `FsckOK`, hence the restriction above.
   `TreesAssumption`, which TLC evaluates, says that the trees of `Starts` have their inodes.

**Only model-checked**, and why:

 * liveness (`RecoveryCompletes`, `Recovered`, `BeginProceeds`, `RecoveryEnds`, `ExitEnds`,
   `HandlerGoesOn`): out of the prover's reach;
 * `CoherentRead` after the first error, with its exceptions;
 * `FtableDrained` is the instance of `GiantStaysDrained` for the constants of `MCRecoveryLocking`;
 * `TablesInv` and `NoDoubleUse` of `PageTables`; of `FsTree` `FsckOK`, `CallsGoOn` and, in `IcacheInv`,
   the types of what is on disk and that the inode numbers in directories are inode numbers: no
   proofs yet (section 6).

## 6. Plan

All components with a state of their own have a module, and all but two of these have
their safety properties proved (section 5).  What is left is proofs:

 1. `PageTables`: `TablesInv` and `NoDoubleUse`, for which the folds that build and free a
    tree of tables need the induction that `BcacheProofs` has for its own fold
    (`FoldExists`).
 2. `FsTree`: the types of what is on disk (which need the induction of `WritesExist` once more, for
    what is written to directories), then `CallsGoOn`, then `FsckOK`, which relates the link
    counts to the tree of directories.

## 7. Not modelled

 * Aggressive mode of the handlers of the log and of inodes, and the roll-backs of
   `trans.c` for the log: `recovery_mode` is CONSERVATIVE as built (`mlist_tracker.c:59`).  (`PageTables`
   has both, as a constant.)
 * User cooperation (`user_coop.c`, `sysev6.c`): a process may ask to have files
   reopened after a recovery; the request is served by the user side.  The
   models take it to be off.
 * Handlers decide by walking return addresses on the victim's stack.  The models
   have the outcome of that walk (hit points, Fail-Stop), not the walk.
 * Steps that are coarser than the code where no property here can tell: log_write's size check, which
   comes before it takes `log->lock` (`log.c:244`), is part of `LogWrite`; `Scan`, `Choose` and
   `Dispatch` of `NmiQueue` are several reads each (`nmi_handle.c:47`); fileclose's iput after
   begin_op is part of the step under `ftable->lock` (`file.c:96`); `Piperead` and `Pipewrite` test
   `killed` in the step in which they go to sleep (the race is *kill* in section 3); `Poll` sets
   `continue_polling` under `vdisk_lock` (`virtio_disk.c:237`).  Left out for the same
   reason: the file handler's end_op (`recovery_handler_file.c:81`) and the commit of the page-table
   handler (`recovery_handler_pagetable.c:383`), since these modules have no log; my_kalloc in
   register_memobj, when a page of nodes is full (`mlist.c:164`).
 * A second error in an object while its handler runs, except in `RecoveryLocking`,
   `NmiQueue` and `Kmem`, which are about that.
 * `Bcache`: errors while the log installs its blocks.  `FsTree`: fork's idup, exec's
   namei, fstat, offsets shared after a fork.
 * The kernel's own page table, which is never recovered; copyin and copyout; ELF.
 * Traps, PLIC, uart registers, the line discipline of the console, start-up,
   string routines, the user programs: hardware interfaces or sequential code.
 * Interrupt-context cases of `exit_rcs_after_recovery`, `update_recovery_lock_idx` and
   the flag that the last buffer and the first file share (`recovery_locking.c:67`).

## 8. Running

    tlc -workers 2 -config rcs.cfg MCRecoveryLocking
    tlc -workers 2 -config rcs_nested.cfg MCRecoveryLocking
    tlc -workers 2 -config nmi.cfg NmiQueue
    tlc -workers 2 -config log_space.cfg Log
    tlc -workers 2 -config log_repair.cfg LogRecovery
    tlc -workers 2 -config log_hits.cfg LogRecovery
    tlc -workers 2 -config kmem.cfg MCKmem
    tlc -workers 2 -config proc.cfg Proc
    tlc -workers 2 -config bcache.cfg MCBcache
    tlc -workers 2 -config files.cfg MCFiles
    tlc -workers 2 -config pt.cfg MCPageTables
    tlc -workers 2 -config fs.cfg MCFsTree
    tlapm RecoveryLockingProofs.tla
    tlapm NmiQueueProofs.tla
    tlapm ProcProofs.tla
    tlapm LogProofs.tla
    tlapm BcacheProofs.tla
    tlapm FilesProofs.tla
    tlapm KmemProofs.tla
    tlapm FsTreeProofs.tla
