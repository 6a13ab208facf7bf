-------------------------------- MODULE Log --------------------------------
(***************************************************************************)
(* The redo log of the file system (kernel/log.c): begin_op, log_write and *)
(* end_op of concurrent system calls, the group commit, and the recovery   *)
(* at boot after a crash at any point.  What happens under log->lock is    *)
(* one step; commit() and recover_from_log() take a step per disk write.   *)
(* The buffer cache is what bread returns: the last contents of a block, or*)
(* the disk's when its buffer was recycled (bget takes one with refcnt 0). *)
(***************************************************************************)
EXTENDS Integers, Sequences, FiniteSetsExt

CONSTANTS
    Proc,         \* processes
    Block,        \* home blocks
    Val,          \* contents of blocks
    InitVal,      \* contents of blocks after mkfs
    LOGSIZE,
    MAXOPBLOCKS,
    Nlog,         \* sb->nlog
    Recycle,      \* TRUE: buffers are scarce, bget recycles unused ones
    MaxOps,       \* bound: the number of system calls in a behaviour
    MaxCrash      \* bound: the number of crashes in a behaviour

ASSUME SizeAssumption ==
    /\ LOGSIZE \in Nat /\ MAXOPBLOCKS \in Nat /\ Nlog \in Nat
    /\ MaxOps \in Nat /\ MaxCrash \in Nat /\ Recycle \in BOOLEAN
ASSUME ValAssumption == InitVal \in Val
ASSUME ProcAssumption == IsFiniteSet(Proc)

VARIABLES
    disk,         \* home blocks on disk
    logBlocks,    \* blocks log->start+1, ... on disk
    head,         \* header block on disk: the logged block numbers
    cache,        \* contents of the buffers
    pins,         \* refcnt of the buffers, without who has them from bread
    lh,           \* log->lh
    dup_lhdr,     \* the replica of log->lh (mlist.c)
    outstanding,  \* log->outstanding
    dup_outstanding,
    committing,   \* log->committing
    pc,           \* where a process is
    tail,         \* loop variable of write_log and install_trans
    written,      \* how many log_writes the current call of p made
    boot,         \* where recover_from_log is, "up" afterwards
    halted,       \* panic
    ops, crashes  \* numbers of system calls and crashes so far

onDisk == <<disk, logBlocks, head>>
buffers == <<cache, pins>>
header == <<lh, dup_lhdr>>
counts == <<outstanding, dup_outstanding>>
bounds == <<ops, crashes>>
vars == <<onDisk, buffers, header, counts, committing, pc, tail, written, boot,
          halted, bounds>>

\* Inside commit().
CommitPc == {"commit", "write_log", "write_head", "install", "reset", "erase"}
\* Inside begin_op, waiting.
WaitPc == {"asleep", "woken"}
Pc == {"idle", "begin", "op", "docommit", "finish", "hit"} \cup WaitPc \cup CommitPc
Header == {s \in Seq(Block) : Len(s) <= LOGSIZE}

TypeOK ==
    /\ disk \in [Block -> Val] /\ cache \in [Block -> Val]
    /\ logBlocks \in [1..LOGSIZE -> Val]
    /\ head \in Header /\ lh \in Header /\ dup_lhdr \in Header
    /\ pins \in [Block -> Int]
    /\ outstanding \in Nat /\ dup_outstanding \in Nat
    /\ committing \in BOOLEAN /\ halted \in BOOLEAN
    /\ pc \in [Proc -> Pc]
    /\ tail \in Nat \ {0}
    /\ written \in [Proc -> 0..MAXOPBLOCKS]
    /\ boot \in {"up", "read", "install", "reset", "erase"}
    /\ ops \in Nat /\ crashes \in Nat

Init ==
    /\ disk = [b \in Block |-> InitVal] /\ cache = disk
    /\ logBlocks = [i \in 1..LOGSIZE |-> InitVal]
    /\ head = <<>> /\ lh = <<>> /\ dup_lhdr = <<>>
    /\ pins = [b \in Block |-> 0]
    /\ outstanding = 0 /\ dup_outstanding = 0
    /\ committing = FALSE /\ halted = FALSE
    /\ pc = [p \in Proc |-> "idle"]
    /\ tail = 1
    /\ written = [p \in Proc |-> 0]
    /\ boot = "up"
    /\ ops = 0 /\ crashes = 0

-----------------------------------------------------------------------------
At(p, l) == ~halted /\ boot = "up" /\ pc[p] = l
Goto(p, l) == pc' = [pc EXCEPT ![p] = l]
Halt == halted' = TRUE
InHeader(b, h) == \E i \in 1..Len(h) : h[i] = b

\* wakeup(&log), in the step in which p goes to l.
WakeAndGoto(p, l) ==
    pc' = [q \in Proc |-> IF q = p THEN l
                          ELSE IF pc[q] = "asleep" THEN "woken" ELSE pc[q]]

-----------------------------------------------------------------------------
(* System calls. *)

Call(p) ==
    /\ At(p, "idle") /\ ops < MaxOps
    /\ ops' = ops + 1
    /\ written' = [written EXCEPT ![p] = 0]
    /\ Goto(p, "begin")
    /\ UNCHANGED <<onDisk, buffers, header, counts, committing, tail, boot, halted, crashes>>

\* Mutant: the space of the new call is not reserved.
NoSpace_off == Len(lh) + outstanding * MAXOPBLOCKS > LOGSIZE

\* this op might exhaust log space
NoSpace == Len(lh) + (outstanding + 1) * MAXOPBLOCKS > LOGSIZE

\* begin_op: one pass of the loop.
BeginOp(p) ==
    /\ At(p, "begin") \/ At(p, "woken")
    /\ IF committing \/ NoSpace
       THEN Goto(p, "asleep") /\ UNCHANGED counts
       ELSE /\ outstanding' = outstanding + 1
            /\ dup_outstanding' = dup_outstanding + 1
            /\ Goto(p, "op")
    /\ UNCHANGED <<onDisk, buffers, header, committing, tail, written, boot, halted, bounds>>

\* Mutant: the block is not pinned in the cache.
LogWrite_nopin(p, b, v) ==
    /\ At(p, "op") /\ written[p] < MAXOPBLOCKS /\ Len(lh) < Nlog - 1
    /\ cache' = [cache EXCEPT ![b] = v]
    /\ written' = [written EXCEPT ![p] = @ + 1]
    /\ lh' = IF InHeader(b, lh) THEN lh ELSE Append(lh, b)
    /\ dup_lhdr' = IF InHeader(b, lh) THEN dup_lhdr ELSE Append(dup_lhdr, b)
    /\ UNCHANGED <<onDisk, pins, counts, committing, pc, tail, boot, halted, bounds>>

\* The caller changes the buffer it has from bread and calls log_write; a
\* system call changes at most MAXOPBLOCKS blocks.  A block that is in the
\* log already is absorbed.
LogWrite(p, b, v) ==
    /\ At(p, "op") /\ written[p] < MAXOPBLOCKS
    /\ cache' = [cache EXCEPT ![b] = v]
    /\ written' = [written EXCEPT ![p] = @ + 1]
    /\ IF Len(lh) >= LOGSIZE \/ Len(lh) >= Nlog - 1 \/ outstanding < 1
       THEN Halt /\ UNCHANGED <<header, pins>>
       ELSE IF InHeader(b, lh)
            THEN UNCHANGED <<header, pins, halted>>
            ELSE /\ lh' = Append(lh, b)
                 /\ dup_lhdr' = Append(dup_lhdr, b)
                 /\ pins' = [pins EXCEPT ![b] = @ + 1]
                 /\ UNCHANGED halted
    /\ UNCHANGED <<onDisk, counts, committing, pc, tail, boot, bounds>>

\* end_op up to do_commit: the last outstanding call commits.
EndOp(p) ==
    /\ At(p, "op")
    /\ outstanding' = outstanding - 1
    /\ dup_outstanding' = dup_outstanding - 1
    /\ IF committing
       THEN Halt /\ UNCHANGED <<committing, pc>>
       ELSE IF outstanding = 1
            THEN committing' = TRUE /\ Goto(p, "docommit") /\ UNCHANGED halted
            ELSE WakeAndGoto(p, "idle") /\ UNCHANGED <<committing, halted>>
    /\ UNCHANGED <<onDisk, buffers, header, tail, written, boot, bounds>>

\* do_commit: the section is entered again, for the commit.
EnterCommit(p) ==
    /\ At(p, "docommit")
    /\ Goto(p, "commit")
    /\ UNCHANGED <<onDisk, buffers, header, counts, committing, tail, written, boot, halted,
                   bounds>>

-----------------------------------------------------------------------------
(* commit() *)

\* Nothing to do for an empty log.
Commit(p) ==
    /\ At(p, "commit")
    /\ Goto(p, IF lh # <<>> THEN "write_log" ELSE "finish")
    /\ tail' = 1
    /\ UNCHANGED <<onDisk, buffers, header, counts, committing, written, boot, halted, bounds>>

\* write_log: the cached contents of block tail go to the log.
WriteLog(p) ==
    /\ At(p, "write_log")
    /\ IF tail <= Len(lh)
       THEN /\ logBlocks' = [logBlocks EXCEPT ![tail] = cache[lh[tail]]]
            /\ tail' = tail + 1
            /\ UNCHANGED pc
       ELSE Goto(p, "write_head") /\ UNCHANGED <<logBlocks, tail>>
    /\ UNCHANGED <<disk, head, buffers, header, counts, committing, written, boot, halted, bounds>>

\* write_head: "the real commit".
WriteHead(p) ==
    /\ At(p, "write_head")
    /\ head' = lh
    /\ tail' = 1
    /\ Goto(p, "install")
    /\ UNCHANGED <<disk, logBlocks, buffers, header, counts, committing, written, boot,
                   halted, bounds>>

\* install_trans, one block: from the log to its home, by way of its buffer.
InstallBlock ==
    /\ tail <= Len(lh)
    /\ cache' = [cache EXCEPT ![lh[tail]] = logBlocks[tail]]
    /\ disk' = [disk EXCEPT ![lh[tail]] = logBlocks[tail]]
    /\ pins' = [pins EXCEPT ![lh[tail]] = @ - 1]
    /\ tail' = tail + 1

InstallTrans(p) ==
    /\ At(p, "install")
    /\ \/ InstallBlock /\ UNCHANGED pc
       \/ tail > Len(lh) /\ Goto(p, "reset") /\ UNCHANGED <<cache, disk, pins, tail>>
    /\ UNCHANGED <<logBlocks, head, header, counts, committing, written, boot, halted, bounds>>

ResetHeader(p) ==
    /\ At(p, "reset")
    /\ lh' = <<>> /\ dup_lhdr' = <<>>
    /\ Goto(p, "erase")
    /\ UNCHANGED <<onDisk, buffers, counts, committing, tail, written, boot, halted, bounds>>

\* write_head: erase the transaction from the log.
EraseHead(p) ==
    /\ At(p, "erase")
    /\ head' = lh
    /\ Goto(p, "finish")
    /\ UNCHANGED <<disk, logBlocks, buffers, header, counts, committing, tail, written, boot,
                   halted, bounds>>

\* Mutant: nobody is woken after the commit.
Finish_nowakeup(p) ==
    /\ At(p, "finish")
    /\ committing' = FALSE
    /\ Goto(p, "idle")
    /\ UNCHANGED <<onDisk, buffers, header, counts, tail, written, boot, halted, bounds>>

\* The rest of end_op.
Finish(p) ==
    /\ At(p, "finish")
    /\ committing' = FALSE
    /\ WakeAndGoto(p, "idle")
    /\ UNCHANGED <<onDisk, buffers, header, counts, tail, written, boot, halted, bounds>>

-----------------------------------------------------------------------------
(* The rest of the kernel, crashes and boot. *)

\* bget recycles the buffer of block b; the next bread reads the disk.
RecycleBuf(b) ==
    /\ Recycle /\ ~halted /\ boot = "up" /\ pins[b] = 0
    /\ cache' = [cache EXCEPT ![b] = disk[b]]
    /\ UNCHANGED <<onDisk, pins, header, counts, committing, pc, tail, written, boot,
                   halted, bounds>>

\* Power fails, or somebody reboots after a panic: only the disk survives.
Crash ==
    /\ crashes < MaxCrash
    /\ crashes' = crashes + 1
    /\ cache' = disk
    /\ pins' = [b \in Block |-> 0]
    /\ lh' = <<>> /\ dup_lhdr' = <<>>
    /\ outstanding' = 0 /\ dup_outstanding' = 0
    /\ committing' = FALSE /\ halted' = FALSE
    /\ pc' = [p \in Proc |-> "idle"]
    /\ tail' = 1
    /\ written' = [p \in Proc |-> 0]
    /\ boot' = "read"
    /\ UNCHANGED <<onDisk, ops>>

Booting(l) == ~halted /\ boot = l

\* recover_from_log: read_head,
ReadHead ==
    /\ Booting("read")
    /\ lh' = head /\ dup_lhdr' = head
    /\ boot' = "install"
    /\ UNCHANGED <<onDisk, buffers, counts, committing, pc, tail, written, halted, bounds>>

\* install_trans,
BootInstall ==
    /\ Booting("install")
    /\ \/ InstallBlock /\ UNCHANGED boot
       \/ tail > Len(lh) /\ boot' = "reset" /\ UNCHANGED <<cache, disk, pins, tail>>
    /\ UNCHANGED <<logBlocks, head, header, counts, committing, pc, written, halted, bounds>>

BootReset ==
    /\ Booting("reset")
    /\ lh' = <<>> /\ dup_lhdr' = <<>>
    /\ boot' = "erase"
    /\ UNCHANGED <<onDisk, buffers, counts, committing, pc, tail, written, halted, bounds>>

\* and write_head clears the log.
BootErase ==
    /\ Booting("erase")
    /\ head' = lh
    /\ boot' = "up"
    /\ UNCHANGED <<disk, logBlocks, buffers, header, counts, committing, pc, tail, written,
                   halted, bounds>>

-----------------------------------------------------------------------------
CommitStep(p) == \/ Commit(p) \/ WriteLog(p) \/ WriteHead(p) \/ InstallTrans(p)
                 \/ ResetHeader(p) \/ EraseHead(p)
Boot == ReadHead \/ BootInstall \/ BootReset \/ BootErase

Step(p) == BeginOp(p) \/ EndOp(p) \/ EnterCommit(p) \/ CommitStep(p) \/ Finish(p)

Next == \/ \E p \in Proc : \/ Call(p) \/ Step(p)
                           \/ \E b \in Block, v \in Val : LogWrite(p, b, v)
        \/ \E b \in Block : RecycleBuf(b)
        \/ Crash \/ Boot

\* A system call that can go on goes on, and reaches its end_op; the kernel
\* boots.  Nobody has to make a call, and nothing has to fail.
Fairness == WF_vars(Boot) /\ \A p \in Proc : WF_vars(Step(p))

Spec == Init /\ [][Next]_vars
FairSpec == Spec /\ Fairness

-----------------------------------------------------------------------------
(* Properties. *)

\* What recover_from_log makes of the disk.
Replay == [b \in Block |->
              IF InHeader(b, head)
              THEN logBlocks[CHOOSE i \in 1..Len(head) : head[i] = b]
              ELSE disk[b]]

A == INSTANCE AtomicDisk WITH
        durable <- Replay,
        current <- IF boot = "up" THEN cache ELSE Replay,
        active <- {p \in Proc : pc[p] = "op"}

\* The log implements an atomic disk: writes of the system calls since the
\* last commit become durable in one step (write_head), when no system call
\* is active ("there is never any reasoning required about whether a commit
\* might write an uncommitted system call's updates to disk"), and a crash at
\* any point, also during boot, loses all of them or none.
ImplementsAtomicDisk == A!Spec

\* The log_writes that the active calls may still make, and their number.
Room == {s \in Proc \X (1..MAXOPBLOCKS) : pc[s[1]] = "op" /\ written[s[1]] < s[2]}
Reserved == Cardinality(Room)

\* begin_op's reservation is sound: the blocks in the log and all that the
\* active calls may still add fit into the log.
SpaceReserved == ~halted => Len(lh) + Reserved <= LOGSIZE

\* A block stays in the cache from log_write to its installation, and no
\* longer: refcnt counts the log's pin exactly while no commit is under way.
\* (Until the first crash: install_trans at boot unpins what is not pinned.)
PinsMatch ==
    (crashes = 0 /\ boot = "up" /\ ~committing) =>
        \A b \in Block : pins[b] = IF InHeader(b, lh) THEN 1 ELSE 0

\* The state of the log is of its type, and pins match the header.
LogInv == TypeOK /\ PinsMatch

\* A system call that waits in begin_op is admitted or the system fails.
BeginProceeds ==
    \A p \in Proc : (pc[p] = "begin") ~> (pc[p] \notin {"begin"} \cup WaitPc \/ halted)
=============================================================================
