------------------------------ MODULE RcsPaths ------------------------------
(***************************************************************************)
(* The paths on which the kernel enters and leaves Recovery Critical       *)
(* Sections, transcribed from the callers of recovery_locking.c: which     *)
(* sections, in which order, and which object is touched in between.       *)
(* A flag stands for its section and for the object(s) it protects.        *)
(***************************************************************************)
EXTENDS Integers, Sequences

CONSTANTS NBUF, NFILE, NINODE   \* sizes of the node tables

BCACHE == 1
CONS == 2
FTABLE == 3
ICACHE == 4
KMEM == 5
LOG == 6
PIPE == 7
PR == 8
LAST_FLAG_WO_IDX == 8
RL_FLAG_MAX == 8 + NBUF + NFILE + NINODE + 1
Flags == 0..RL_FLAG_MAX

\* init_recovery_lock_idx: the flag of node i of each table.
BufFlag(i) == LAST_FLAG_WO_IDX + i + 1
FileFlag(i) == LAST_FLAG_WO_IDX + NBUF + i
InodeFlag(i) == LAST_FLAG_WO_IDX + NBUF + NFILE + i

Op(name, f) == [op |-> name, flag |-> f, exc |-> "0"]
E(f) == <<Op("enter", f)>>          \* enter_recovery_critical_section(f, 0)
N(f) == <<Op("node", f)>>           \* enter_recovery_critical_section_nodes
X(f) == <<Op("exit", f)>>           \* exit_recovery_critical_section(f, 0)
U(f) == <<Op("use", f)>>            \* an access of the object
EP(f) == <<[op |-> "enter", flag |-> f, exc |-> "pid"]>>
XP(f) == <<[op |-> "exit", flag |-> f, exc |-> "pid"]>>
EF(f) == <<[op |-> "enter", flag |-> f, exc |-> "fork"]>>
XF(f) == <<[op |-> "exit", flag |-> f, exc |-> "fork"]>>

-----------------------------------------------------------------------------
(* Kernel paths. *)

\* kalloc, kfree
Kalloc == E(KMEM) \o U(KMEM) \o X(KMEM)

\* begin_op, log_write, and end_op when operations are outstanding
LogOp == E(LOG) \o U(LOG) \o X(LOG)

\* bget of a cached block: the node is entered before the list is left.  The
\* search reads the nodes it passes, b among them, under BCACHE alone.
BgetHit(b) == E(BCACHE) \o N(b) \o U(b) \o X(BCACHE)
BgetScan(b) == E(BCACHE) \o U(b) \o N(b) \o U(b) \o X(BCACHE)
\* bget of a block that is not cached: the node is entered after it.
BgetMiss(b) == E(BCACHE) \o X(BCACHE) \o N(b) \o U(b)
Brelse(b) == E(BCACHE) \o X(b) \o X(BCACHE)
BufAccess(b) == BgetHit(b) \o Brelse(b)

\* commit() reads and writes the log and goes through the buffer cache.
Commit(b) == U(LOG) \o BufAccess(b) \o U(LOG)
\* end_op of the last outstanding operation
EndOpCommit(b) ==
    LogOp \o EP(LOG) \o Commit(b) \o XP(LOG) \o E(LOG) \o U(LOG) \o X(LOG)

\* sys_read/sys_write of a pipe: argfd enters the file inside FTABLE.
PipeCall(f) == E(FTABLE) \o N(f) \o U(f) \o E(PIPE) \o U(PIPE) \o X(PIPE)
               \o X(f) \o X(FTABLE)

\* sys_read of an inode whose block is cached
FileRead(f, i, b) == E(FTABLE) \o N(f) \o U(f) \o E(ICACHE) \o N(i) \o U(i)
                     \o BufAccess(b) \o X(i) \o X(ICACHE) \o X(f) \o X(FTABLE)

\* fileclose of a file that stays open elsewhere, and of the last reference
\* to an inode (iput leaves the inode's section).
FileClose(f) == U(f) \o X(f)
FileCloseInode(f, i) == U(f) \o LogOp \o E(ICACHE) \o N(i) \o U(i) \o X(i)
                        \o X(ICACHE) \o LogOp \o X(f)
SysClose(f) == E(FTABLE) \o N(f) \o FileClose(f) \o X(FTABLE)
SysCloseInode(f, i) == E(FTABLE) \o N(f) \o FileCloseInode(f, i) \o X(FTABLE)
\* exit() calls fileclose for its open files and iput for its directory
\* without entering the files and the inode.
ExitProc(f, i) == E(FTABLE) \o E(ICACHE) \o FileClose(f) \o X(ICACHE) \o X(FTABLE)
                  \o LogOp \o E(ICACHE) \o U(i) \o X(i) \o X(ICACHE) \o LogOp

\* fork(): one open file and the current directory
Fork(f, i) == E(FTABLE) \o N(f) \o U(f) \o X(f) \o X(FTABLE)
              \o EF(ICACHE) \o N(i) \o U(i) \o X(i) \o XF(ICACHE)

\* consoleintr, consolewrite, consoleread
ConsIntr == E(CONS) \o U(CONS) \o X(CONS)

\* printf
Printf == E(PR) \o U(PR) \o X(PR)

-----------------------------------------------------------------------------
(* Recovery handlers. *)
Rlock(f) == <<Op("rlock", f)>>
Count(f) == <<Op("rcount", f)>>
Surgery(f) == <<Op("repair", f)>>
ExitRcs(f) == <<Op("rexit", f)>>
Runlock(f) == <<Op("runlock", f), Op("rwakeup", f)>>
End(f) == <<Op("rdone", f)>>

\* recovery_handler_log: readsb() reads the superblock's buffer; commit()
\* is called when nothing is outstanding any more.
LogHandlers(b) ==
    LET before == Rlock(LOG) \o <<Op("rcommit", LOG)>> \o Count(LOG)
                  \o BufAccess(b) \o Surgery(LOG)
        after == ExitRcs(LOG) \o Runlock(LOG) \o End(LOG)
    IN  {before \o after, before \o BufAccess(b) \o after}

\* recovery_handler_pipe, recovery_handler_cons, recovery_handler_pr
PipeHandler == Rlock(PIPE) \o Count(PIPE) \o Surgery(PIPE) \o Runlock(PIPE)
               \o ExitRcs(PIPE) \o End(PIPE)
ConsHandler == Rlock(CONS) \o Count(CONS) \o Surgery(CONS) \o Runlock(CONS)
               \o ExitRcs(CONS) \o End(CONS)
PrHandler == Rlock(PR) \o Count(PR) \o Surgery(PR) \o Runlock(PR)
             \o ExitRcs(PR) \o End(PR)

\* recovery_handler_kmem, recovery_handler_run: nobody is counted
KmemHandler == Rlock(KMEM) \o Surgery(KMEM) \o ExitRcs(KMEM) \o Runlock(KMEM)
               \o End(KMEM)

\* recovery_handler_buf: the giant section is locked, the node is counted
BufHandler(b) == Rlock(BCACHE) \o Rlock(b) \o Count(b) \o Surgery(b)
                 \o Runlock(BCACHE) \o Runlock(b) \o ExitRcs(b) \o End(b)

\* recovery_handler_file
FileHandler(f) == Rlock(FTABLE) \o Rlock(f) \o <<Op("rnocount", f), Op("rwait", FTABLE)>>
                  \o Surgery(f) \o ExitRcs(f) \o Runlock(FTABLE) \o Runlock(f)
                  \o End(f)

HandlersOf(f) ==
    CASE f = LOG  -> LogHandlers(BufFlag(0))
      [] f = PIPE -> {PipeHandler}
      [] f = CONS -> {ConsHandler}
      [] f = PR   -> {PrHandler}
      [] f = KMEM -> {KmemHandler}
      [] f \in {BufFlag(i) : i \in 0..NBUF-1} -> {BufHandler(f)}
      [] f \in {FileFlag(i) : i \in 0..NFILE-1} -> {FileHandler(f)}
      [] OTHER -> {}
=============================================================================
