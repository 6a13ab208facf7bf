------------------------------- MODULE Bcache -------------------------------
(***************************************************************************)
(* The buffer cache (kernel/bio.c) with its sleep locks (sleeplock.c), the *)
(* driver of the virtio disk below it (virtio_disk.c) and the recovery     *)
(* handler of struct buf (recovery_handler_buf.c).  What happens under     *)
(* bcache.lock, a sleep lock's spin lock or disk.vdisk_lock is one step.   *)
(* The processes read blocks, change logged blocks, and install the logged *)
(* blocks; a process that is RECOVERING does its I/O by polling.  A memory *)
(* error hits a buffer that its only user has, or an unused one that bget  *)
(* looks at.                                                               *)
(***************************************************************************)
EXTENDS Integers, SequencesExt, FiniteSetsExt

CONSTANTS
    Proc,         \* processes
    Recovering,   \* the processes in state RECOVERING, inside a handler
    Block,        \* block numbers
    NoProc, NoNode, NoBlock,
    NBUF,
    NUM,          \* descriptors of the disk
    MaxOps,       \* bound: the number of system calls in a behaviour
    MaxShared,    \* bound: how many of them begin while others run
    MaxFault      \* bound: the number of memory errors in a behaviour

ASSUME BcacheAssumption ==
    /\ IsFiniteSet(Proc) /\ Recovering \subseteq Proc
    /\ NBUF \in Nat \ {0} /\ NUM \in Nat \ {0, 1, 2}
    /\ MaxOps \in Nat /\ MaxShared \in Nat /\ MaxFault \in Nat
    /\ NoProc \notin Proc /\ NoBlock \notin Block /\ NoNode \notin 1..(NBUF + MaxFault)

VARIABLES
    list,         \* bcache.head: the nodes, most recently used first
    buf,          \* the nodes: bcache.buf[] and the ones from my_kalloc
    ondisk,       \* contents of the blocks on the disk
    free,         \* disk.free: the free descriptors
    info,         \* disk.info[].b
    avail,        \* what the device has to do, in the order of disk.avail
    used,         \* disk.used->elems from disk.used_idx to disk.used->id: the
                  \* finished requests that the driver has not looked at
    spinner,      \* who spins for descriptors with disk.vdisk_lock held
    continue_polling,
    pc, mode, want, cur, \* of a process: place, call, the block it asks for, its buffer
    idx, rw,      \* its descriptors, and whether it writes
    tail,         \* loop variable of install_trans
    lh,           \* log->lh
    committing,   \* log->committing
    halted,       \* panic or Fail-Stop
    ops, faults,  \* numbers of system calls and memory errors so far
    truth,        \* history: what the last change of a block left
    unheard,      \* history: who was not told that its request is finished
    leaked,       \* history: descriptors of calls that were cut off
    crossed,      \* history: a handler ended the commit of another process
    unbalanced,   \* history: bunpin dropped a reference that was not the log's
    astray      \* history: blocks that log_write found in log->lh and whose
                  \* buffer was not pinned: they are not read again as written

cache == <<list, buf>>
rings == <<avail, used>>
descs == <<free, info>>
disk == <<ondisk, descs, rings, spinner, continue_polling>>
procs == <<pc, mode, want, cur, idx, rw, tail>>
log == <<lh, committing>>
bounds == <<ops, faults>>
history == <<truth, unheard, leaked, crossed, unbalanced, astray>>
vars == <<cache, disk, procs, log, halted, bounds, history>>

Node == 1..(NBUF + MaxFault)
Array == 1..NBUF
Desc == 0..(NUM - 1)
Val == {0, 1}
Fresh == [block |-> NoBlock, valid |-> FALSE, disk |-> FALSE, owner |-> NoProc,
          refcnt |-> 0, data |-> 0]
\* Where a process is inside virtio_disk_rw, with its descriptors.
InFlight == {"iowait", "woken"}
\* Where a process has its buffer locked.
Locked == {"rw", "descwait", "hold", "written", "brelse"} \cup InFlight
\* Between enter_recovery_critical_section_nodes and its exit.
InSection == Locked \cup {"lock", "lockwait", "unref"}
Pc == {"idle", "enter", "insert", "solve"} \cup InSection

\* Types, and that the list has every node once that was not replaced.
TypeOK ==
    /\ list \in Seq(Node) /\ IsInjective(list) /\ Len(list) <= NBUF
    /\ buf \in [Node -> [block : Block \cup {NoBlock}, valid : BOOLEAN, disk : BOOLEAN,
                         owner : Proc \cup {NoProc}, refcnt : Int, data : Val]]
    /\ ondisk \in [Block -> Val]
    /\ free \subseteq Desc /\ info \in [Desc -> Node \cup {NoNode}]
    /\ avail \in Seq(Desc) /\ used \in Seq(Desc) /\ Len(avail) + Len(used) < NUM
    /\ spinner \in Recovering \cup {NoProc} /\ continue_polling \in BOOLEAN
    /\ pc \in [Proc -> Pc] /\ want \in [Proc -> Block \cup {NoBlock}]
    /\ cur \in [Proc -> Node \cup {NoNode}]
    /\ mode \in [Proc -> {"none", "read", "op", "install"}]
    /\ idx \in [Proc -> Seq(Desc)] /\ rw \in [Proc -> BOOLEAN]
    /\ tail \in [Proc -> Nat]
    /\ lh \in Seq(Block) /\ committing \in BOOLEAN /\ halted \in BOOLEAN
    /\ ops \in 0..MaxOps /\ faults \in 0..MaxFault
    /\ truth \in [Block -> Val] /\ unheard \subseteq Proc /\ leaked \subseteq Desc
    /\ crossed \in BOOLEAN /\ unbalanced \in BOOLEAN /\ astray \subseteq Block

\* binit, virtio_disk_init: each buffer is put at the front of the list.
Init ==
    /\ list = [i \in 1..NBUF |-> NBUF + 1 - i]
    /\ buf = [n \in Node |-> Fresh]
    /\ ondisk = [b \in Block |-> 0]
    /\ free = Desc /\ info = [d \in Desc |-> NoNode]
    /\ avail = <<>> /\ used = <<>>
    /\ spinner = NoProc /\ continue_polling = FALSE
    /\ pc = [p \in Proc |-> "idle"] /\ want = [p \in Proc |-> NoBlock]
    /\ cur = [p \in Proc |-> NoNode]
    /\ mode = [p \in Proc |-> "none"]
    /\ idx = [p \in Proc |-> <<>>] /\ rw = [p \in Proc |-> FALSE]
    /\ tail = [p \in Proc |-> 1]
    /\ lh = <<>> /\ committing = FALSE /\ halted = FALSE
    /\ ops = 0 /\ faults = 0
    /\ truth = ondisk /\ unheard = {} /\ leaked = {}
    /\ crossed = FALSE /\ unbalanced = FALSE /\ astray = {}

-----------------------------------------------------------------------------
At(p, l) == ~halted /\ pc[p] = l
Goto(p, l) == pc' = [pc EXCEPT ![p] = l]
Halt == halted' = TRUE
B(p) == buf[cur[p]]
\* Nobody spins with disk.vdisk_lock.
VdiskLock == spinner = NoProc
\* pc after wakeup of the processes S, when p goes to l.
WakeAndGoto(S, to, p, l) ==
    pc' = [q \in Proc |-> IF q = p THEN l ELSE IF q \in S THEN to ELSE pc[q]]

\* RL_FLAG_BCACHE is free for enter_recovery_critical_section: no handler has
\* its recovery lock.
MayEnterBcache == \A q \in Proc : pc[q] # "insert"

-----------------------------------------------------------------------------
(* bget *)

Users(n) == {p \in Proc : cur[p] = n}
Cached(b) == {i \in DOMAIN list : buf[list[i]].block = b}

\* Mutant: a buffer is recycled without a look at its reference count.
Unused_any == {i \in DOMAIN list : buf[list[i]].owner = NoProc}

Unused == {i \in DOMAIN list : buf[list[i]].refcnt = 0}

\* Bound: after MaxShared calls nothing begins beside another call or commit, and
\* only processes that are not RECOVERING begin something.
MayStart(p, n) == n < MaxShared \/ (p \notin Recovering /\ \A q \in Proc : mode[q] = "none")

\* The system call of p that needs block b next; begin_op waits for a commit.
Wants(p, b) ==
    \/ mode[p] = "none" /\ ops < MaxOps /\ MayStart(p, ops)
    \/ mode[p] = "install" /\ tail[p] <= Len(lh) /\ lh[tail[p]] = b

StartCall(p) ==
    IF mode[p] = "none"
    THEN /\ \E m \in {"read"} \cup (IF committing THEN {} ELSE {"op"}) :
              mode' = [mode EXCEPT ![p] = m]
         /\ ops' = ops + 1
    ELSE UNCHANGED <<mode, ops>>

\* bget: the block's buffer, or else the least recently used free one; the
\* section of a recycled buffer is entered only after bcache.lock is released.
Bget(p, b) ==
    /\ At(p, "idle") /\ Wants(p, b) /\ MayEnterBcache
    /\ StartCall(p)
    /\ want' = [want EXCEPT ![p] = b]
    /\ IF Cached(b) # {}
       THEN LET n == list[Min(Cached(b))] IN
            /\ buf' = [buf EXCEPT ![n].refcnt = @ + 1]
            /\ cur' = [cur EXCEPT ![p] = n]
            /\ Goto(p, "lock") /\ UNCHANGED halted
       ELSE IF Unused # {}
       THEN LET n == list[Max(Unused)] IN
            /\ buf' = [buf EXCEPT ![n].block = b, ![n].valid = FALSE, ![n].refcnt = 1]
            /\ cur' = [cur EXCEPT ![p] = n]
            /\ Goto(p, "enter") /\ UNCHANGED halted
       ELSE Halt /\ UNCHANGED <<buf, cur, pc>>
    /\ UNCHANGED <<list, disk, idx, rw, tail, log, faults, history>>

\* The section of a node that was replaced meanwhile is not found: panic.
EnterNode(p) ==
    /\ At(p, "enter")
    /\ IF cur[p] \in Range(list)
       THEN Goto(p, "lock") /\ UNCHANGED halted
       ELSE Halt /\ UNCHANGED pc
    /\ UNCHANGED <<cache, disk, want, cur, mode, idx, rw, tail, log, bounds, history>>

\* acquiresleep: one pass of its loop.  bread then reads the disk only for a
\* buffer that is not valid.
AcquireSleep(p) ==
    /\ At(p, "lock")
    /\ IF B(p).owner # NoProc
       THEN Goto(p, "lockwait") /\ UNCHANGED buf
       ELSE /\ buf' = [buf EXCEPT ![cur[p]].owner = p]
            /\ Goto(p, IF B(p).valid THEN "hold" ELSE "rw")
    /\ UNCHANGED <<list, disk, want, cur, mode, idx, rw, tail, log, halted, bounds, history>>

-----------------------------------------------------------------------------
(* virtio_disk_rw, virtio_disk_intr and the device *)

DescSleepers == {q \in Proc : pc[q] = "descwait"}

\* alloc3_desc: the three first free descriptors.
Lowest(k) == CHOOSE i \in free : Cardinality({j \in free : j < i}) = k

\* virtio_disk_rw up to the wait.  A failed allocation frees what it took,
\* which wakes the other processes that wait for descriptors; a process that
\* is RECOVERING tries again, with disk.vdisk_lock.
VirtioStart(p) ==
    /\ At(p, "rw") /\ spinner \in {NoProc, p}
    /\ IF Cardinality(free) >= 3
       THEN LET d == <<Lowest(0), Lowest(1), Lowest(2)>> IN
            /\ free' = free \ Range(d)
            /\ idx' = [idx EXCEPT ![p] = d]
            /\ info' = [info EXCEPT ![d[1]] = cur[p]]
            /\ buf' = [buf EXCEPT ![cur[p]].disk = TRUE]
            /\ avail' = Append(avail, d[1])
            /\ continue_polling' = FALSE /\ spinner' = NoProc
            /\ Goto(p, "iowait")
       ELSE /\ IF p \in Recovering
               THEN /\ spinner' = p /\ continue_polling' = TRUE
                    /\ WakeAndGoto(IF free = {} THEN {} ELSE DescSleepers, "rw", p, "rw")
               ELSE /\ WakeAndGoto(IF free = {} THEN {} ELSE DescSleepers, "rw", p, "descwait")
                    /\ UNCHANGED <<spinner, continue_polling>>
            /\ UNCHANGED <<descs, idx, buf, avail>>
    /\ UNCHANGED <<list, ondisk, used, want, cur, mode, rw, tail, log, halted, bounds, history>>

\* The device finishes one of the requests it has, in any order.
Device(i) ==
    /\ ~halted /\ i \in DOMAIN avail
    /\ LET d == avail[i]
           n == info[d]
           p == CHOOSE q \in Proc : idx[q] # <<>> /\ idx[q][1] = d
       IN /\ IF rw[p]
             THEN ondisk' = [ondisk EXCEPT ![buf[n].block] = buf[n].data] /\ UNCHANGED buf
             ELSE buf' = [buf EXCEPT ![n].data = ondisk[buf[n].block]] /\ UNCHANGED ondisk
          /\ used' = Append(used, d)
    /\ avail' = RemoveAt(avail, i)
    /\ UNCHANGED <<list, descs, spinner, continue_polling, procs, log, halted, bounds, history>>

Waiters(D) == {q \in Proc : pc[q] = "iowait" /\ idx[q][1] \in D}

\* Mutant: a poller that was told keeps the others from being told.
VirtioIntr_oneonly ==
    /\ ~halted /\ VdiskLock /\ used # <<>>
    /\ LET d == Head(used) IN
       /\ buf' = [buf EXCEPT ![info[d]].disk = FALSE]
       /\ pc' = [q \in Proc |-> IF q \in Waiters({d}) \ Recovering THEN "woken" ELSE pc[q]]
    /\ used' = <<>>
    /\ UNCHANGED <<list, ondisk, descs, avail, spinner, continue_polling, want, cur, mode,
                   idx, rw, tail, log, halted, bounds, history>>

\* virtio_disk_intr: every finished request; the sleepers are not woken while
\* a RECOVERING process polls.
VirtioIntr ==
    /\ ~halted /\ VdiskLock /\ used # <<>>
    /\ buf' = [n \in Node |-> [buf[n] EXCEPT !.disk = @ /\ n \notin {info[d] : d \in Range(used)}]]
    /\ LET S == Waiters(Range(used)) \ Recovering IN
       IF continue_polling
       THEN unheard' = unheard \cup S /\ UNCHANGED pc
       ELSE /\ pc' = [q \in Proc |-> IF q \in S THEN "woken" ELSE pc[q]]
            /\ UNCHANGED unheard
    /\ used' = <<>>
    /\ UNCHANGED <<list, ondisk, descs, avail, spinner, continue_polling, want, cur, mode,
                   idx, rw, tail, log, halted, bounds, truth, leaked, crossed, unbalanced,
                   astray>>

\* One turn of the polling loop: interrupts are on, disk.vdisk_lock is free.
Poll(p) ==
    /\ At(p, "iowait") /\ p \in Recovering /\ B(p).disk /\ VdiskLock
    /\ ~continue_polling
    /\ continue_polling' = TRUE
    /\ UNCHANGED <<cache, ondisk, descs, rings, spinner, procs, log, halted, bounds, history>>

\* free_chain
Chain(p) == Range(idx[p])

\* A process that was woken, or that polls, finds b->disk = 0 and frees its
\* chain; or it waits again.
VirtioDone(p) ==
    /\ At(p, "woken") \/ (At(p, "iowait") /\ p \in Recovering /\ ~B(p).disk)
    /\ VdiskLock
    /\ IF B(p).disk
       THEN Goto(p, "iowait") /\ UNCHANGED <<descs, idx, buf, continue_polling>>
       ELSE /\ free' = free \cup Chain(p)
            /\ info' = [info EXCEPT ![idx[p][1]] = NoNode]
            /\ idx' = [idx EXCEPT ![p] = <<>>]
            /\ buf' = [buf EXCEPT ![cur[p]].valid = @ \/ ~rw[p]]
            /\ continue_polling' = IF p \in Recovering THEN FALSE ELSE continue_polling
            /\ WakeAndGoto(DescSleepers, "rw", p, IF rw[p] THEN "written" ELSE "hold")
    /\ UNCHANGED <<list, ondisk, rings, spinner, want, cur, mode, rw, tail, log, halted,
                   bounds, history>>

-----------------------------------------------------------------------------
(* What the callers do with a locked buffer *)

\* Mutant: the buffer is not pinned.
LogWrite_nopin(p) ==
    /\ At(p, "hold") /\ mode[p] = "op"
    /\ LET n == cur[p]
           b == B(p).block
       IN /\ buf' = [buf EXCEPT ![n].data = 1 - @]
          /\ truth' = [truth EXCEPT ![b] = 1 - buf[n].data]
          /\ lh' = IF b \in Range(lh) THEN lh ELSE Append(lh, b)
    /\ Goto(p, "brelse")
    /\ UNCHANGED <<list, disk, want, cur, mode, idx, rw, tail, committing, halted, bounds, unheard,
                   leaked, crossed, unbalanced, astray>>

\* The buffer is changed and logged: log_write pins it (bpin) once.
LogWrite(p) ==
    /\ At(p, "hold") /\ mode[p] = "op"
    /\ LET n == cur[p]
           b == B(p).block
           new == b \notin Range(lh)
       IN /\ buf' = [buf EXCEPT ![n].data = 1 - @, ![n].refcnt = @ + (IF new THEN 1 ELSE 0)]
          /\ truth' = [truth EXCEPT ![b] = 1 - buf[n].data]
          /\ lh' = IF new THEN Append(lh, b) ELSE lh
          /\ astray' = IF new THEN astray \ {b}
                         ELSE IF buf[n].refcnt <= Cardinality(Users(n)) THEN astray \cup {b}
                         ELSE astray
    /\ Goto(p, "brelse")
    /\ UNCHANGED <<list, disk, want, cur, mode, idx, rw, tail, committing, halted, bounds, unheard,
                   leaked, crossed, unbalanced>>

\* commit: no system call is inside a transaction.
StartCommit(p) ==
    /\ At(p, "idle") /\ mode[p] = "none" /\ lh # <<>> /\ ~committing /\ MayStart(p, ops - 1)
    /\ \A q \in Proc : mode[q] # "op"
    /\ committing' = TRUE
    /\ mode' = [mode EXCEPT ![p] = "install"]
    /\ tail' = [tail EXCEPT ![p] = 1]
    /\ UNCHANGED <<cache, disk, pc, want, cur, idx, rw, lh, halted, bounds, history>>

\* install_trans: bwrite of the home block.
Bwrite(p) ==
    /\ At(p, "hold") /\ mode[p] = "install"
    /\ rw' = [rw EXCEPT ![p] = TRUE]
    /\ Goto(p, "rw")
    /\ UNCHANGED <<cache, disk, want, cur, mode, idx, tail, log, halted, bounds, history>>

\* Mutant: the installed block stays pinned.
Bunpin_forgotten(p) ==
    /\ At(p, "written")
    /\ Goto(p, "brelse")
    /\ UNCHANGED <<cache, disk, want, cur, mode, idx, rw, tail, log, halted, bounds, history>>

\* install_trans: bunpin after the write.
Bunpin(p) ==
    /\ At(p, "written")
    /\ buf' = [buf EXCEPT ![cur[p]].refcnt = @ - 1]
    /\ unbalanced' = (unbalanced \/ B(p).refcnt <= Cardinality(Users(cur[p])))
    /\ Goto(p, "brelse")
    /\ UNCHANGED <<list, disk, want, cur, mode, idx, rw, tail, log, halted, bounds, truth, unheard,
                   leaked, crossed, astray>>

\* brelse: releasesleep wakes who waits for the lock.  A reader changes nothing
\* before.
ReleaseSleep(p) ==
    /\ At(p, "brelse") \/ (At(p, "hold") /\ mode[p] = "read")
    /\ buf' = [buf EXCEPT ![cur[p]].owner = NoProc]
    /\ WakeAndGoto({q \in Proc : pc[q] = "lockwait" /\ cur[q] = cur[p]}, "lock", p, "unref")
    /\ UNCHANGED <<list, disk, want, cur, mode, idx, rw, tail, log, halted, bounds, history>>

\* bcache.head without node n.
Unlinked(n) == LET i == CHOOSE j \in DOMAIN list : list[j] = n IN RemoveAt(list, i)
MoveToFront(n) == <<n>> \o Unlinked(n)

\* The rest of brelse, under bcache.lock.
Brelse(p) ==
    /\ At(p, "unref") /\ MayEnterBcache
    /\ LET n == cur[p] IN
       /\ buf' = [buf EXCEPT ![n].refcnt = @ - 1]
       /\ list' = IF buf[n].refcnt = 1 THEN MoveToFront(n) ELSE list
    /\ cur' = [cur EXCEPT ![p] = NoNode]
    /\ want' = [want EXCEPT ![p] = NoBlock]
    /\ IF mode[p] = "install"
       THEN tail' = [tail EXCEPT ![p] = @ + 1] /\ UNCHANGED mode
       ELSE mode' = [mode EXCEPT ![p] = "none"] /\ UNCHANGED tail
    /\ rw' = [rw EXCEPT ![p] = FALSE]
    /\ Goto(p, "idle")
    /\ UNCHANGED <<disk, idx, log, halted, bounds, history>>

\* The end of commit: log->lh.n = 0.
EndCommit(p) ==
    /\ At(p, "idle") /\ mode[p] = "install" /\ tail[p] > Len(lh)
    /\ lh' = <<>> /\ committing' = FALSE
    /\ mode' = [mode EXCEPT ![p] = "none"]
    /\ tail' = [tail EXCEPT ![p] = 1]
    /\ UNCHANGED <<cache, disk, pc, want, cur, idx, rw, halted, bounds, history>>

-----------------------------------------------------------------------------
(* recovery_handler_buf *)

\* The handler looks for the neighbours of the broken node in bcache.head and
\* bcache.buf[]: a neighbour from my_kalloc is not found.
Found(i) == i \in {0, Len(list) + 1} \/ list[i] \in Array
NeighboursFound(n) ==
    LET i == CHOOSE j \in DOMAIN list : list[j] = n IN Found(i - 1) /\ Found(i + 1)

\* check_and_count_procs_in_rcs
InRcs(n) == {q \in Proc : cur[q] = n /\ pc[q] \in InSection}

\* The handler up to where the broken node is out of the list.
StartRecovery(p, n) ==
    /\ faults < MaxFault /\ MayEnterBcache
    /\ faults' = faults + 1
    /\ IF Cardinality(InRcs(n)) > 1 \/ ~NeighboursFound(n)
       THEN Halt /\ UNCHANGED <<list, pc, cur, truth>>
       ELSE /\ list' = Unlinked(n)
            /\ cur' = [cur EXCEPT ![p] = n]
            /\ Goto(p, "insert")
            /\ truth' = IF buf[n].block = NoBlock THEN truth
                        ELSE [truth EXCEPT ![buf[n].block] = ondisk[buf[n].block]]
            /\ UNCHANGED halted
    /\ UNCHANGED <<buf, disk, want, mode, idx, rw, tail, log, ops, unheard, leaked,
                   crossed, unbalanced, astray>>

\* A memory error in the buffer that p uses.
Hit(p) ==
    /\ \E l \in {"lock", "rw", "woken", "hold"} : At(p, l)
    /\ p \notin Recovering /\ mode[p] # "install" /\ cur[p] \in Range(list)
    /\ StartRecovery(p, cur[p])

\* A memory error in an unused buffer that the scan of bget looks at.
ScanHit(p, i) ==
    /\ At(p, "idle") /\ mode[p] = "none" /\ i \in Unused /\ Users(list[i]) = {}
    /\ p \notin Recovering
    /\ StartRecovery(p, list[i])

\* The new node becomes the least recently used one, the victim's buffers are
\* unlocked, the recovery locks released.
InsertNew(p) ==
    /\ At(p, "insert")
    /\ list' = Append(list, NBUF + faults)
    /\ buf' = [n \in Node |-> IF buf[n].owner = p THEN [buf[n] EXCEPT !.owner = NoProc] ELSE buf[n]]
    /\ WakeAndGoto({q \in Proc : pc[q] = "lockwait" /\ B(q).owner = p}, "lock", p, "solve")
    /\ UNCHANGED <<disk, want, cur, mode, idx, rw, tail, log, halted, bounds, history>>

\* "check losing buffered data to be written": each block of the log header is
\* compared with the first buffer of the list only, and what slides into the
\* place of an evicted block is passed over.
Evict(h) ==
    LET first == buf[list[1]].block
        step(g, i) == IF i <= Len(g) /\ g[i] # first THEN RemoveAt(g, i) ELSE g
    IN FoldLeft(step, h, [i \in 1..Len(h) |-> i])

\* solve_inconsistency_buf and the end of the handler.  When the broken buffer
\* has a request in disk.info[], the used ring is drained: who waits for a
\* request in it is woken, and finds b->disk as it was.
Solve(p) ==
    /\ At(p, "solve") /\ VdiskLock
    /\ LET D == IF cur[p] \in Range(info) THEN Range(used) ELSE {} IN
       /\ used' = IF D = {} THEN used ELSE <<>>
       /\ unheard' = unheard \cup Waiters(D)
       /\ WakeAndGoto(Waiters(D) \ Recovering, "woken", p, "idle")
    /\ lh' = Evict(lh)
    /\ committing' = FALSE
    /\ crossed' = (crossed \/ committing)
    /\ UNCHANGED <<unbalanced, astray>>
    /\ leaked' = leaked \cup Range(idx[p])
    /\ idx' = [idx EXCEPT ![p] = <<>>]
    /\ cur' = [cur EXCEPT ![p] = NoNode]
    /\ want' = [want EXCEPT ![p] = NoBlock]
    /\ mode' = [mode EXCEPT ![p] = "none"]
    /\ UNCHANGED <<cache, ondisk, descs, avail, spinner, continue_polling, rw, tail,
                   halted, bounds, truth>>

-----------------------------------------------------------------------------
ProcNext(p) ==
    \/ \E b \in Block : Bget(p, b)
    \/ EnterNode(p) \/ AcquireSleep(p)
    \/ VirtioStart(p) \/ Poll(p) \/ VirtioDone(p)
    \/ LogWrite(p) \/ StartCommit(p) \/ Bwrite(p) \/ Bunpin(p)
    \/ ReleaseSleep(p) \/ Brelse(p) \/ EndCommit(p)
    \/ InsertNew(p) \/ Solve(p)

Next ==
    \/ \E p \in Proc : ProcNext(p) \/ Hit(p)
    \/ \E p \in Proc, i \in 1..NBUF : ScanHit(p, i)
    \/ \E i \in 1..Cardinality(Proc) : Device(i)
    \/ VirtioIntr

Spec == Init /\ [][Next]_vars

-----------------------------------------------------------------------------
Using(p) == ~halted /\ pc[p] \in Locked /\ cur[p] \in Range(list)

\* A process has the block locked that it asked for, and no two processes have
\* one block locked, be it in one buffer or in two: bget never makes a second
\* buffer for a block, nor recycles one that is in use or pinned, and the
\* recovery of a buffer does not break that, unless the handler ended another
\* process's commit.
ExclusiveUse ==
    ~unbalanced => \A p, q \in Proc :
        Using(p) /\ Using(q) => B(p).block = want[p] /\ (p # q => want[p] # want[q])

\* Who has a buffer from bread sees the last change of the block, logged or
\* installed.  A change is lost only with the buffer that was hit, or when
\* log_write took the block for pinned, because log->lh still had it, after the
\* buffer that was pinned for it had been lost.
CoherentRead ==
    ~crossed /\ ~unbalanced => \A p \in Proc :
        Using(p) /\ pc[p] \in {"hold", "written"} /\ mode[p] # "none"
            => B(p).data = truth[want[p]] \/ want[p] \in astray

\* The descriptors that are not free belong to one request each, or to a
\* request whose process was hit while the disk had it: nothing else leaks
\* them, none is freed twice.
DescriptorsOwned ==
    LET held == UNION {Range(idx[p]) : p \in Proc} IN
    /\ free \cup held \cup leaked = Desc
    /\ free \cap (held \cup leaked) = {} /\ held \cap leaked = {}
    /\ \A p, q \in Proc : p # q => Range(idx[p]) \cap Range(idx[q]) = {}

\* Without memory errors the reference count of a buffer is the number of its
\* users, and one for the log: brelse and bunpin undo bget and bpin.
RefcntExact ==
    faults = 0 => \A i \in DOMAIN list :
        LET n == list[i]
            pinned == buf[n].block \in Range(lh)
            unpinned == \E p \in Proc : mode[p] = "install" /\
                \/ \E k \in 1..(tail[p] - 1) : k <= Len(lh) /\ lh[k] = buf[n].block
                \/ cur[p] = n /\ pc[p] \in {"brelse", "unref"}
        IN buf[n].refcnt = Cardinality(Users(n))
                           + (IF pinned /\ ~unpinned THEN 1 ELSE 0)

\* What is counted or handed out in the cache and in the driver is exact.
CacheInv == TypeOK /\ DescriptorsOwned /\ RefcntExact

\* A process that waits for the disk and whose request is finished has been
\* woken, unless a RECOVERING process polled when the interrupt came, or the
\* handler of a buffer drained the used ring.
NoMissedCompletion ==
    \A p \in Proc \ Recovering :
        pc[p] = "iowait" /\ ~(\E i \in DOMAIN avail : avail[i] = idx[p][1])
            => idx[p][1] \in Range(used) \/ p \in unheard
=============================================================================
