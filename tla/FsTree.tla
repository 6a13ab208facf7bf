------------------------------- MODULE FsTree -------------------------------
(***************************************************************************)
(* The inode layer of the file system (kernel/fs.c), the system calls that *)
(* change the tree of directories (sysfile.c), and the recovery of a       *)
(* struct inode (recovery_handler_inode.c).                                *)
(*                                                                         *)
(* fs is what the file system's blocks say, as everybody sees them through *)
(* the buffer cache; the log makes all of it durable when the last         *)
(* outstanding call ends (module Log).  What is done under the lock of an  *)
(* inode, between two uses of the inode cache, is one step.                *)
(*                                                                         *)
(* Sizes and offsets are in units: a directory entry, a piece of a file or *)
(* a block number in an indirect block is one unit.                        *)
(***************************************************************************)
EXTENDS Integers, SequencesExt, FiniteSetsExt

CONSTANTS
    Proc,           \* the processes
    NINUM,          \* the number of inodes on the disk
    NBLOCK,         \* the number of data blocks
    NINODE,         \* entries of the inode cache
    UNITS,          \* units in a block
    NDIRECT,        \* direct blocks of an inode
    Starts,         \* the tree at the start, what the processes have of it, and the
                    \* bound on the numbers of their system calls
    PathCalls,      \* the system calls with one or two path names:
                    \* [call, a, b], and a path name is [abs |-> BOOLEAN, e |-> names]
    WriteN,         \* numbers of units that write is called with
    MaxFault        \* bound: memory errors in a behaviour

\* mkfs rounds the size of the root directory up to a whole block; a full block
\* would get a hole behind it.
ASSUME FsTreeAssumption ==
    /\ {NINUM, NBLOCK, NINODE, NDIRECT} \subseteq Nat \ {0}
    /\ UNITS \in Nat /\ UNITS > 2
    /\ WriteN \subseteq Nat \ {0} /\ MaxFault \in Nat
    /\ IsFiniteSet(Proc) /\ 0 \notin Proc
\* The cache has room for what init (the inodes 1 and 2) and the processes have.
ASSUME StartsAssumption ==
    \A x \in Starts :
        /\ x.cwd \in [Proc -> 1..NINUM] /\ x.open \in [Proc -> 0..NINUM]
        /\ 2 + Cardinality((Range(x.cwd) \cup Range(x.open)) \ {0, 1, 2}) <= NINODE
ASSUME PathCallsAssumption ==
    \A c \in PathCalls :
        /\ c.call \in {"openr", "openrw", "create", "mkdir", "mknod", "chdir", "link", "unlink"}
        /\ \A e \in {c.a, c.b} : e \in [abs : BOOLEAN, e : Seq(STRING)]

None == 0
CONSOLE == 2
Inum == 1..NINUM
Block == 1..NBLOCK
Slot == 1..NINODE
ROOTINO == 1
MAXFILE == NDIRECT + UNITS

VARIABLES
    fs,             \* di: inodes on the disk; used: the bitmap; blk: the blocks
    ic,             \* icache.inode[]
    t,              \* where a process is, and the variables of its calls
    cwd,            \* p->cwd
    of,             \* the open file of a process: its inode, writable, off
    outstanding,    \* log.outstanding
    halted,         \* panic or Fail-Stop
    left,           \* the number of system calls that a process may still make
    faults,         \* the number of memory errors so far
    leak,           \* history: references that recoveries left in an entry
    lost,           \* history: the inodes whose entries were hit
    odd             \* history: something that the code is known to get wrong: a link
                    \* in a directory that was removed, outstanding decremented for
                    \* a read, a current directory whose entry was hit
vars == <<fs, ic, t, cwd, of, outstanding, halted, left, faults, leak, lost, odd>>
history == <<leak, lost, odd>>
bounds == <<left, faults>>

-----------------------------------------------------------------------------
(* Blocks and the contents of an inode *)

Unit(k, n, v) == [k |-> k, n |-> n, v |-> v]
Zero == Unit("zero", "", 0)
Dirent(name, inum) == Unit("ent", name, inum)
Data(inum) == Unit("data", "", inum)
Ptr(b) == Unit("ptr", "", b)
NoAddrs == [i \in 0..NDIRECT |-> None]
FreeDinode == [type |-> "none", nlink |-> 0, size |-> 0, addrs |-> NoAddrs]

\* A working copy: fs, the inode d in memory, the block that bmap returned, and
\* whether there was no panic.
Work(f, d) == [fs |-> f, d |-> d, a |-> None, ok |-> TRUE]

Then(w, F(_)) == IF w.ok THEN F(w) ELSE w

\* balloc: the first free block, zeroed.
Balloc(w) ==
    LET S == Block \ w.fs.used IN
    IF S = {} THEN [w EXCEPT !.ok = FALSE]
    ELSE [w EXCEPT !.a = Min(S), !.fs.used = @ \cup {Min(S)},
                   !.fs.blk[Min(S)] = [i \in 0..(UNITS - 1) |-> Zero]]

\* bmap
BmapAddr(w, i) ==
    IF w.d.addrs[i] # None THEN [w EXCEPT !.a = w.d.addrs[i]]
    ELSE Then(Balloc(w), LAMBDA x : [x EXCEPT !.d.addrs[i] = x.a])
BmapIndirect(w, b, i) ==
    IF w.fs.blk[b][i] # Zero THEN [w EXCEPT !.a = w.fs.blk[b][i].v]
    ELSE Then(Balloc(w), LAMBDA x : [x EXCEPT !.fs.blk[b][i] = Ptr(x.a)])
Bmap(w, bn) ==
    IF bn < NDIRECT THEN BmapAddr(w, bn)
    ELSE Then(BmapAddr(w, NDIRECT), LAMBDA x : BmapIndirect(x, x.a, bn - NDIRECT))

\* bmap and readi of one unit, where there is no hole.
BlockOf(f, d, bn) ==
    IF bn < NDIRECT THEN d.addrs[bn] ELSE f.blk[d.addrs[NDIRECT]][bn - NDIRECT].v
UnitAt(f, d, off) == f.blk[BlockOf(f, d, off \div UNITS)][off % UNITS]

\* iupdate
Iupdate(f, inum, d) == [f EXCEPT !.di[inum] = d]

\* writei of the units us from off on, with its iupdate.
WriteUnit(w, off, u) ==
    Then(w, LAMBDA x : Then(Bmap(x, off \div UNITS),
                            LAMBDA y : [y EXCEPT !.fs.blk[y.a][off % UNITS] = u]))
Extend(w, inum, end) ==
    LET d == [w.d EXCEPT !.size = IF end > @ THEN end ELSE @]
    IN [w EXCEPT !.d = d, !.fs = Iupdate(@, inum, d)]
TooFar(d, off, n) == off > d.size \/ off + n > MAXFILE * UNITS
Writei(w, inum, off, us) ==
    IF TooFar(w.d, off, Len(us)) THEN [w EXCEPT !.ok = FALSE]
    ELSE Then(FoldLeft(LAMBDA x, i : WriteUnit(x, off + i - 1, us[i]), w,
                       [i \in 1..Len(us) |-> i]),
              LAMBDA x : Extend(x, inum, off + Len(us)))

\* The blocks of an inode; bfree all of them (itrunc).
BlocksOf(f, d) ==
    (Range(d.addrs) \cup (IF d.addrs[NDIRECT] = None THEN {}
                          ELSE {u.v : u \in Range(f.blk[d.addrs[NDIRECT]])})) \ {None}
\* Mutant: the blocks that the indirect block lists are not freed.
Itrunc_direct(f, d) == [f EXCEPT !.used = @ \ Range(d.addrs)]
Itrunc(f, d) == [f EXCEPT !.used = @ \ BlocksOf(f, d)]

\* dirlookup, and the entry that dirlink takes: an empty one, or behind the end.
Offsets(f, d, name) ==
    {o \in 0..(d.size - 1) : UnitAt(f, d, o).k = "ent" /\ UnitAt(f, d, o).n = name}
Found(f, d, name) == Offsets(f, d, name) # {}
InumOf(f, d, name) == UnitAt(f, d, Min(Offsets(f, d, name))).v
FreeEntry(f, d) == Min({o \in 0..(d.size - 1) : UnitAt(f, d, o).v = 0} \cup {d.size})
Dirlink(w, inum, name, target) ==
    Then(w, LAMBDA x : IF Found(x.fs, x.d, name) THEN [x EXCEPT !.ok = FALSE]
                       ELSE Writei(x, inum, FreeEntry(x.fs, x.d), <<Dirent(name, target)>>))
Isdirempty(f, d) == \A o \in 2..(d.size - 1) : UnitAt(f, d, o).v = 0

-----------------------------------------------------------------------------
(* The inode cache *)

FreeInode == [inum |-> None, ref |-> 0, valid |-> FALSE, lock |-> None, d |-> FreeDinode]

\* iget: the entry of the inode, or the first free one; got = None: panic.
Cached(c, inum) == {s \in Slot : c[s].ref > 0 /\ c[s].inum = inum}
Empty(c) == {s \in Slot : c[s].ref = 0}
\* Mutant: the entry that was found gets no reference.
Iget_noref(c, inum) ==
    IF Cached(c, inum) # {} THEN [got |-> Min(Cached(c, inum)), c |-> c]
    ELSE IF Empty(c) = {} THEN [got |-> None, c |-> c]
    ELSE LET s == Min(Empty(c)) IN
         [got |-> s, c |-> [c EXCEPT ![s].inum = inum, ![s].ref = 1, ![s].valid = FALSE]]
Iget(c, inum) ==
    IF Cached(c, inum) # {}
    THEN LET s == Min(Cached(c, inum)) IN [got |-> s, c |-> [c EXCEPT ![s].ref = @ + 1]]
    ELSE IF Empty(c) = {} THEN [got |-> None, c |-> c]
    ELSE LET s == Min(Empty(c)) IN
         [got |-> s, c |-> [c EXCEPT ![s].inum = inum, ![s].ref = 1, ![s].valid = FALSE]]
Idup(c, s) == [c EXCEPT ![s].ref = @ + 1]

\* ilock, when the lock is free: the inode as it is in memory afterwards.
Free(s) == ic[s].lock = None
Loaded(s) ==
    IF ic[s].valid THEN ic[s].d
    ELSE IF ic[s].inum = None THEN FreeDinode ELSE fs.di[ic[s].inum]
\* ilock panics: no reference, or an inode of no type.
NoType(s) == ic[s].ref < 1 \/ (~ic[s].valid /\ Loaded(s).type = "none")
Lock(c, s, p, d) == [c EXCEPT ![s].valid = TRUE, ![s].d = d, ![s].lock = p]
Unlock(c, s) == [c EXCEPT ![s].lock = None]
\* Locked, changed to d and unlocked again.
Set(c, s, d) == [c EXCEPT ![s].valid = TRUE, ![s].d = d, ![s].lock = None]

-----------------------------------------------------------------------------
(* Processes *)

\* pc: where; call: the system call; e: the rest of the path; par: nameiparent;
\* ip, dp: the inodes the call has; put: the argument of iput, then: what comes
\* after it; e2: the second path of link.
Idle == [pc |-> "user", call |-> "", abs |-> TRUE, e |-> <<>>, par |-> FALSE, ip |-> None,
         dp |-> None, put |-> None, then |-> "", e2 |-> [abs |-> TRUE, e |-> <<>>], n |-> 0]
NoFile == [ip |-> None, wr |-> FALSE, off |-> 0]
\* The references of init.
InitRefs(s) == IF s \in {1, 2} THEN 1 ELSE 0

At(p, l) == ~halted /\ t[p].pc = l
Draining == \E q \in Proc : t[q].pc = "drain"
Halt == halted' = TRUE /\ UNCHANGED <<fs, ic, t, cwd, of, outstanding, bounds, history>>

\* The process goes on with the frame x.  At the end of a call is end_op, also at
\* the end of each of the two operations of exit, and before chdir sets p->cwd.
Go(p, x) ==
    /\ t' = [t EXCEPT ![p] = IF x.pc = "end" THEN Idle ELSE x]
    /\ outstanding' = outstanding - (IF x.pc \in {"end", "exit", "dead", "chdone"} THEN 1 ELSE 0)
Goto(x, l) == [x EXCEPT !.pc = l]
PutThen(x, s, l) == [x EXCEPT !.pc = "iput", !.put = s, !.then = l]
PutIp(x, l) == PutThen([x EXCEPT !.ip = None], x.ip, l)
PutDp(x, l) == PutThen([x EXCEPT !.dp = None], x.dp, l)

\* The start of namex: the root or the current directory.  A path without a name
\* ends at once.
AfterNamex(x) ==
    IF x.par THEN (CASE x.call \in {"create", "mkdir", "mknod"} -> "create"
                     [] x.call = "unlink" -> "unlink" [] OTHER -> "linkdir")
    ELSE IF x.call = "chdir" THEN "chdir" ELSE IF x.call = "link" THEN "link" ELSE "open"
NamexFails(x) == IF x.call = "link" /\ x.par THEN "linkbad" ELSE "end"
Arrived(x, s) == IF x.par THEN [x EXCEPT !.pc = AfterNamex(x), !.dp = s]
                 ELSE [x EXCEPT !.pc = AfterNamex(x), !.ip = s]
Namex(p, x, c) ==
    LET g == IF x.abs THEN Iget(c, ROOTINO) ELSE [got |-> cwd[p], c |-> Idup(c, cwd[p])]
        y == IF x.e # <<>> THEN [x EXCEPT !.pc = "walk", !.dp = g.got]
             ELSE IF x.par THEN PutThen(x, g.got, NamexFails(x)) ELSE Arrived(x, g.got)
    IN IF g.got = None THEN [x |-> x, c |-> c, ok |-> FALSE] ELSE [x |-> y, c |-> g.c, ok |-> TRUE]

\* The start of a system call, with begin_op unless it is a read; then comes the
\* section of the inode cache, which a recovery closes.  Bound: no more calls when
\* odd is set.
Begin(p, x, op) ==
    /\ At(p, "user") /\ left[p] > 0 /\ ~odd
    /\ t' = [t EXCEPT ![p] = [x EXCEPT !.pc = "begun"]]
    /\ outstanding' = outstanding + op
    /\ left' = [left EXCEPT ![p] = @ - 1]
    /\ UNCHANGED <<fs, ic, cwd, halted, faults, history>>

StartPath(p, c) ==
    /\ Begin(p, [Idle EXCEPT !.call = c.call, !.abs = c.a.abs, !.e = c.a.e, !.e2 = c.b,
                             !.par = c.call \in {"create", "mkdir", "mknod", "unlink"}], 1)
    /\ UNCHANGED of
\* Not a device, which has its own read and write.
Regular(p) == of[p].ip # None /\ ic[of[p].ip].d.type # "dev"
StartRead(p) == Regular(p) /\ Begin(p, [Idle EXCEPT !.call = "read"], 0) /\ UNCHANGED of
StartWrite(p, n) ==
    /\ Regular(p) /\ of[p].wr
    /\ Begin(p, [Idle EXCEPT !.call = "write", !.n = n], 1) /\ UNCHANGED of
\* fileclose has its copy of the file before it waits.
Close(p) ==
    /\ of[p].ip # None /\ Begin(p, [Idle EXCEPT !.call = "close", !.ip = of[p].ip], 1)
    /\ of' = [of EXCEPT ![p] = NoFile]
\* exit is in the section before it closes the file.
Exit(p) ==
    /\ IF of[p].ip # None THEN Begin(p, [Idle EXCEPT !.call = "exit"], 0)
                          ELSE Begin(p, [Idle EXCEPT !.call = "exit", !.then = "exit"], 1)
    /\ UNCHANGED of

HasPath(x) == x.call \notin {"read", "write", "close", "exit"}

\* Inside the section.  A read or write finds its file cleared by a recovery.
EnterPath(p) ==
    /\ At(p, "begun") /\ ~Draining /\ HasPath(t[p])
    /\ LET r == Namex(p, t[p], ic) IN
       /\ ic' = r.c /\ halted' = ~r.ok
       /\ t' = [t EXCEPT ![p] = r.x]
    /\ UNCHANGED <<fs, cwd, of, outstanding, bounds, history>>
EnterFile(p) ==
    /\ At(p, "begun") /\ ~Draining /\ t[p].call \in {"read", "write"}
    /\ t' = [t EXCEPT ![p].pc = t[p].call, ![p].ip = of[p].ip]
    /\ halted' = (of[p].ip = None)
    /\ UNCHANGED <<fs, ic, cwd, of, outstanding, bounds, history>>
EnterPut(p) ==
    /\ At(p, "begun") /\ ~Draining
    /\ LET x == t[p] IN
       \/ /\ x.call = "close"
          /\ t' = [t EXCEPT ![p] = PutIp(x, "end")] /\ UNCHANGED <<of, outstanding>>
       \/ /\ x.call = "exit" /\ x.then # "exit"
          /\ IF of[p].ip = None
             THEN /\ t' = [t EXCEPT ![p].pc = "exit", ![p].then = "exit"]
                  /\ UNCHANGED <<of, outstanding>>
             ELSE /\ t' = [t EXCEPT ![p] = PutThen(x, of[p].ip, "exit")]
                  /\ of' = [of EXCEPT ![p] = NoFile] /\ outstanding' = outstanding + 1
       \/ /\ x.call = "exit" /\ x.then = "exit"
          /\ t' = [t EXCEPT ![p] = PutThen(x, cwd[p], "exited")] /\ UNCHANGED <<of, outstanding>>
    /\ UNCHANGED <<fs, ic, cwd, halted, bounds, history>>

\* The second operation of exit, and its end.
ExitCwd(p) ==
    /\ At(p, "exit")
    /\ t' = [t EXCEPT ![p].pc = "begun"] /\ outstanding' = outstanding + 1
    /\ UNCHANGED <<fs, ic, cwd, of, halted, bounds, history>>
ExitDone(p) ==
    /\ At(p, "exited")
    /\ cwd' = [cwd EXCEPT ![p] = None] /\ Go(p, Goto(t[p], "dead"))
    /\ UNCHANGED <<fs, ic, of, halted, bounds, history>>

\* One element of namex: lock, look up, unlock; the reference to the directory
\* is dropped after that.
Walk(p) ==
    /\ At(p, "walk") /\ Free(t[p].dp)
    /\ LET x == t[p]
           d == Loaded(x.dp)
           c == Set(ic, x.dp, d)
           name == Head(x.e)
           g == Iget(c, InumOf(fs, d, name))
           y == [x EXCEPT !.e = Tail(@)]
       IN IF NoType(x.dp) THEN Halt
          ELSE IF d.type = "dir" /\ x.par /\ Len(x.e) = 1
          THEN Go(p, Arrived(x, x.dp)) /\ ic' = c
               /\ UNCHANGED <<fs, cwd, of, halted, bounds, history>>
          ELSE IF d.type # "dir" \/ ~Found(fs, d, name)
          THEN Go(p, PutDp(x, NamexFails(x))) /\ ic' = c
               /\ UNCHANGED <<fs, cwd, of, halted, bounds, history>>
          ELSE IF g.got = None THEN Halt
          ELSE /\ ic' = g.c
               /\ Go(p, IF y.e = <<>> THEN PutDp([y EXCEPT !.ip = g.got], AfterNamex(x))
                        ELSE [PutThen(y, x.dp, "walk") EXCEPT !.dp = g.got])
               /\ UNCHANGED <<fs, cwd, of, halted, bounds, history>>

-----------------------------------------------------------------------------
(* iput *)

LastUse(s) == ic[s].ref = 1 /\ ic[s].valid /\ ic[s].d.nlink = 0

\* The reference is dropped; the last one to an inode without links locks it
\* first, with icache.lock held.
Iput(p) ==
    /\ At(p, "iput")
    /\ LET x == t[p] IN
       IF LastUse(x.put)
       THEN IF ~Free(x.put) THEN Halt
            ELSE /\ ic' = [ic EXCEPT ![x.put].lock = p]
                 /\ Go(p, Goto(x, "itrunc"))
                 /\ UNCHANGED <<fs, cwd, of, halted, bounds, history>>
       ELSE /\ ic' = [ic EXCEPT ![x.put].ref = @ - 1]
            /\ Go(p, [x EXCEPT !.pc = x.then, !.put = None])
            /\ UNCHANGED <<fs, cwd, of, halted, bounds, history>>

\* itrunc, and type = 0.
IputTrunc(p) ==
    /\ At(p, "itrunc")
    /\ LET s == t[p].put IN
       /\ fs' = Iupdate(Itrunc(fs, ic[s].d), ic[s].inum, FreeDinode)
       /\ ic' = [ic EXCEPT ![s].d = FreeDinode]
    /\ Go(p, Goto(t[p], "iinval"))
    /\ UNCHANGED <<cwd, of, halted, bounds, history>>

\* Mutant: the entry stays valid.
IputInval_not(p) ==
    /\ At(p, "iinval")
    /\ ic' = Unlock(ic, t[p].put)
    /\ Go(p, Goto(t[p], "irel"))
    /\ UNCHANGED <<fs, cwd, of, halted, bounds, history>>

\* valid = 0 before the lock is released.
IputInval(p) ==
    /\ At(p, "iinval")
    /\ ic' = [Unlock(ic, t[p].put) EXCEPT ![t[p].put].valid = FALSE]
    /\ Go(p, Goto(t[p], "irel"))
    /\ UNCHANGED <<fs, cwd, of, halted, bounds, history>>

IputDrop(p) ==
    /\ At(p, "irel")
    /\ ic' = [ic EXCEPT ![t[p].put].ref = @ - 1]
    /\ Go(p, [t[p] EXCEPT !.pc = t[p].then, !.put = None])
    /\ UNCHANGED <<fs, cwd, of, halted, bounds, history>>

-----------------------------------------------------------------------------
(* The rest of the system calls, after namex *)

\* sys_open: the file gets ip, which is locked; without a descriptor it is given
\* back.
Opened(p, c, wr) ==
    LET x == t[p] IN
    IF of[p] # NoFile
    THEN /\ Go(p, PutIp(x, "end")) /\ ic' = Unlock(c, x.ip) /\ UNCHANGED of
    ELSE /\ of' = [of EXCEPT ![p] = [ip |-> x.ip, wr |-> wr, off |-> 0]]
         /\ ic' = Unlock(c, x.ip)
         /\ Go(p, Goto(x, "end"))

Open(p) ==
    /\ At(p, "open") /\ Free(t[p].ip)
    /\ LET x == t[p]
           d == Loaded(x.ip)
       IN IF NoType(x.ip) THEN Halt
          ELSE /\ IF d.type = "dir" /\ x.call = "openrw"
                  THEN Go(p, PutIp(x, "end")) /\ ic' = Set(ic, x.ip, d) /\ UNCHANGED of
                  ELSE Opened(p, Lock(ic, x.ip, p, d), x.call = "openrw")
               /\ UNCHANGED <<fs, cwd, halted, bounds, history>>

\* sys_chdir: the old directory is put, and the section left, before p->cwd is
\* set.
Chdir(p) ==
    /\ At(p, "chdir") /\ Free(t[p].ip)
    /\ LET x == t[p]
           d == Loaded(x.ip)
       IN IF NoType(x.ip) THEN Halt
          ELSE /\ Go(p, IF d.type # "dir" THEN PutIp(x, "end")
                        ELSE PutThen(x, cwd[p], "chdone"))
               /\ ic' = Set(ic, x.ip, d)
               /\ UNCHANGED <<fs, cwd, of, halted, bounds, history>>
ChdirDone(p) ==
    /\ At(p, "chdone")
    /\ cwd' = [cwd EXCEPT ![p] = t[p].ip] /\ t' = [t EXCEPT ![p] = Idle]
    /\ UNCHANGED <<fs, ic, of, outstanding, halted, bounds, history>>

\* The count of links changed by k.
Nlink(d, k) == [d EXCEPT !.nlink = @ + k]

\* sys_link: count first, then look for the new directory.
Link(p) ==
    /\ At(p, "link") /\ Free(t[p].ip)
    /\ LET x == t[p]
           d == Loaded(x.ip)
           n == Nlink(d, 1)
           r == Namex(p, [x EXCEPT !.abs = x.e2.abs, !.e = x.e2.e, !.par = TRUE], Set(ic, x.ip, n))
       IN IF NoType(x.ip) \/ (d.type # "dir" /\ ~r.ok) THEN Halt
          ELSE IF d.type = "dir"
          THEN /\ Go(p, PutIp(x, "end")) /\ ic' = Set(ic, x.ip, d)
               /\ UNCHANGED <<fs, cwd, of, halted, bounds, history>>
          ELSE /\ fs' = Iupdate(fs, ic[x.ip].inum, n)
               /\ ic' = r.c /\ Go(p, r.x)
               /\ UNCHANGED <<cwd, of, halted, bounds, history>>

\* dirlink into the new directory; a name that is there is taken from the cache,
\* which may be full, and put again.
LinkDir(p) ==
    /\ At(p, "linkdir") /\ Free(t[p].dp)
    /\ LET x == t[p]
           d == Loaded(x.dp)
           there == Found(fs, d, Head(x.e))
       IN IF NoType(x.dp) \/ (there /\ Iget(ic, InumOf(fs, d, Head(x.e))).got = None) THEN Halt
          ELSE IF there
          THEN /\ Go(p, PutDp(x, "linkbad")) /\ ic' = Set(ic, x.dp, d)
               /\ UNCHANGED <<fs, cwd, of, halted, bounds, history>>
          ELSE \E w \in {Dirlink(Work(fs, d), ic[x.dp].inum, Head(x.e), ic[x.ip].inum)} :
               IF ~w.ok THEN Halt ELSE
               /\ fs' = w.fs /\ ic' = Set(ic, x.dp, w.d)
               /\ odd' = (odd \/ d.nlink = 0)
               /\ Go(p, PutDp(x, "linked"))
               /\ UNCHANGED <<cwd, of, halted, bounds, leak, lost>>
LinkDone(p) ==
    /\ At(p, "linked")
    /\ Go(p, PutIp(t[p], "end"))
    /\ UNCHANGED <<fs, ic, cwd, of, halted, bounds, history>>

\* The count is taken back.
LinkBad(p) ==
    /\ At(p, "linkbad") /\ Free(t[p].ip)
    /\ LET x == t[p]
           d == Nlink(Loaded(x.ip), -1)
       IN IF NoType(x.ip) THEN Halt
          ELSE /\ ic' = Set(ic, x.ip, d)
               /\ fs' = Iupdate(fs, ic[x.ip].inum, d)
               /\ Go(p, PutIp(x, "end"))
               /\ UNCHANGED <<cwd, of, halted, bounds, history>>

\* sys_unlink: the directory stays locked while the inode is locked.
Unlink(p) ==
    /\ At(p, "unlink") /\ Free(t[p].dp)
    /\ LET x == t[p]
           d == Loaded(x.dp)
           name == Head(x.e)
           g == Iget(Lock(ic, x.dp, p, d), InumOf(fs, d, name))
       IN IF NoType(x.dp) THEN Halt
          ELSE IF name \in {".", ".."} \/ ~Found(fs, d, name)
          THEN /\ Go(p, PutDp(x, "end")) /\ ic' = Set(ic, x.dp, d)
               /\ UNCHANGED <<fs, cwd, of, halted, bounds, history>>
          ELSE IF g.got = None THEN Halt
          ELSE /\ ic' = g.c /\ Go(p, [x EXCEPT !.pc = "unlinkip", !.ip = g.got])
               /\ UNCHANGED <<fs, cwd, of, halted, bounds, history>>
UnlinkIp(p) ==
    /\ At(p, "unlinkip") /\ Free(t[p].ip)
    /\ LET x == t[p]
           d == Loaded(x.ip)
           dd == ic[x.dp].d
           off == Min(Offsets(fs, dd, Head(x.e)))
       IN IF NoType(x.ip) \/ d.nlink < 1 THEN Halt
          ELSE IF d.type = "dir" /\ ~Isdirempty(fs, d)
          THEN /\ ic' = Set(ic, x.ip, d) /\ Go(p, PutIp(x, "unlinkbad"))
               /\ UNCHANGED <<fs, cwd, of, halted, bounds, history>>
          ELSE \E w \in {Writei(Work(fs, dd), ic[x.dp].inum, off, <<Zero>>)} :
               LET dn == IF d.type = "dir" THEN Nlink(w.d, -1) ELSE w.d IN
               /\ fs' = Iupdate(w.fs, ic[x.dp].inum, dn)
               /\ ic' = Set(Lock(ic, x.ip, p, d), x.dp, dn)
               /\ Go(p, PutDp(x, "unlinked"))
               /\ UNCHANGED <<cwd, of, halted, bounds, history>>
\* Mutant: the directory stays locked.
UnlinkBad_locked(p) ==
    /\ At(p, "unlinkbad")
    /\ Go(p, PutDp(t[p], "end"))
    /\ UNCHANGED <<fs, ic, cwd, of, halted, bounds, history>>
UnlinkBad(p) ==
    /\ At(p, "unlinkbad")
    /\ ic' = Unlock(ic, t[p].dp) /\ Go(p, PutDp(t[p], "end"))
    /\ UNCHANGED <<fs, cwd, of, halted, bounds, history>>
UnlinkDone(p) ==
    /\ At(p, "unlinked")
    /\ LET s == t[p].ip
           d == Nlink(ic[s].d, -1)
       IN ic' = Set(ic, s, d) /\ fs' = Iupdate(fs, ic[s].inum, d)
    /\ Go(p, PutIp(t[p], "end"))
    /\ UNCHANGED <<cwd, of, halted, bounds, history>>

\* create: the new inode inum is filled in and linked into directory dd, which is
\* d in memory.
Dots(w, inum, dd) == Dirlink(Dirlink(w, inum, ".", inum), inum, "..", dd)
Make(f, dd, d, inum, name) ==
    LET n == [f.di[inum] EXCEPT !.nlink = 1]
        w == Work(Iupdate(f, inum, n), n)
    IN IF n.type = "dir"
       THEN Then(Dots(w, inum, dd),
                 LAMBDA x : Dirlink(Work(Iupdate(x.fs, dd, Nlink(d, 1)), Nlink(d, 1)),
                                    dd, name, inum))
       ELSE Dirlink(Work(w.fs, d), dd, name, inum)

TypeFor(call) == IF call = "mkdir" THEN "dir" ELSE IF call = "mknod" THEN "dev" ELSE "file"

\* create: the name exists, or an inode is allocated (ialloc) and the directory
\* stays locked.
Create(p) ==
    /\ At(p, "create") /\ Free(t[p].dp)
    /\ LET x == t[p]
           d == Loaded(x.dp)
           name == Head(x.e)
           c == Lock(ic, x.dp, p, d)
           g == Iget(c, InumOf(fs, d, name))
           S == {i \in Inum : fs.di[i].type = "none"}
           h == Iget(c, Min(S))
       IN IF NoType(x.dp) THEN Halt
          ELSE IF Found(fs, d, name)
          THEN IF g.got = None THEN Halt
               ELSE /\ ic' = Unlock(g.c, x.dp)
                    /\ Go(p, PutDp([x EXCEPT !.ip = g.got], "exists"))
                    /\ UNCHANGED <<fs, cwd, of, halted, bounds, history>>
          ELSE IF S = {} \/ h.got = None THEN Halt
          ELSE /\ fs' = Iupdate(fs, Min(S), [FreeDinode EXCEPT !.type = TypeFor(x.call)])
               /\ ic' = h.c /\ Go(p, [x EXCEPT !.pc = "created", !.ip = h.got])
               /\ UNCHANGED <<cwd, of, halted, bounds, history>>

\* The name existed: a file is opened, everything else fails.
Exists(p) ==
    /\ At(p, "exists") /\ Free(t[p].ip)
    /\ LET x == t[p]
           d == Loaded(x.ip)
       IN IF NoType(x.ip) THEN Halt
          ELSE /\ IF x.call = "create" /\ d.type # "dir"
                  THEN Opened(p, Lock(ic, x.ip, p, d), TRUE)
                  ELSE /\ ic' = Set(ic, x.ip, d) /\ Go(p, PutIp(x, "end"))
                       /\ UNCHANGED of
               /\ UNCHANGED <<fs, cwd, halted, bounds, history>>

\* The new inode is locked and filled in, then linked into the directory.
Created(p) ==
    /\ At(p, "created") /\ Free(t[p].ip)
    /\ LET x == t[p]
           inum == ic[x.ip].inum
           d == ic[x.dp].d
       IN \E w \in {Make(fs, ic[x.dp].inum, d, inum, Head(x.e))} :
          IF NoType(x.ip) \/ ~w.ok THEN Halt ELSE
          /\ fs' = w.fs
          /\ ic' = Set(Lock(ic, x.ip, p, w.fs.di[inum]), x.dp, w.d)
          /\ odd' = (odd \/ d.nlink = 0)
          /\ Go(p, PutDp(x, "new"))
          /\ UNCHANGED <<cwd, of, halted, bounds, leak, lost>>

\* sys_open, or sys_mkdir and sys_mknod, with the locked new inode.
CreateDone(p) ==
    /\ At(p, "new")
    /\ IF t[p].call = "create" THEN Opened(p, ic, TRUE)
       ELSE /\ ic' = Unlock(ic, t[p].ip) /\ Go(p, PutIp(t[p], "end"))
            /\ UNCHANGED of
    /\ UNCHANGED <<fs, cwd, halted, bounds, history>>

\* fileread of a unit, which ends at the end of the file.
Read(p) ==
    /\ At(p, "read") /\ Free(t[p].ip)
    /\ LET x == t[p]
           d == Loaded(x.ip)
           off == of[p].off
       IN IF NoType(x.ip) THEN Halt
          ELSE /\ ic' = Set(ic, x.ip, d)
               /\ of' = [of EXCEPT ![p].off = IF off < d.size THEN off + 1 ELSE off]
               /\ t' = [t EXCEPT ![p] = Idle]
               /\ UNCHANGED <<fs, cwd, outstanding, halted, bounds, history>>

\* filewrite of a chunk; a file that gets too long is an error.
TooLong(p) == TooFar(Loaded(t[p].ip), of[p].off, t[p].n)
Chunk(p) ==
    LET inum == ic[t[p].ip].inum IN
    Writei(Work(fs, Loaded(t[p].ip)), inum, of[p].off, [i \in 1..t[p].n |-> Data(inum)])
WriteChunk(p) ==
    \E w \in {Chunk(p)} :
       /\ w.ok /\ fs' = w.fs /\ ic' = Set(ic, t[p].ip, w.d)
       /\ of' = [of EXCEPT ![p].off = @ + t[p].n]
Write(p) ==
    /\ At(p, "write") /\ Free(t[p].ip)
    /\ IF NoType(t[p].ip) THEN Halt
       ELSE IF TooLong(p)
       THEN /\ ic' = Set(ic, t[p].ip, Loaded(t[p].ip)) /\ Go(p, Goto(t[p], "end"))
            /\ UNCHANGED <<fs, cwd, of, halted, bounds, history>>
       ELSE IF ~Chunk(p).ok THEN Halt
       ELSE /\ WriteChunk(p) /\ Go(p, Goto(t[p], "end"))
            /\ UNCHANGED <<cwd, halted, bounds, history>>

-----------------------------------------------------------------------------
(* recovery_handler_inode.c, with recovery_mode CONSERVATIVE *)

\* The inodes that p touches next; iget looks at every entry up to the one it
\* finds.
Scanned(inum) == IF Cached(ic, inum) = {} THEN Slot ELSE 1..Min(Cached(ic, inum))
Touched(p) ==
    LET x == t[p]
        d == Loaded(x.dp)
    IN IF x.pc = "begun"
       THEN IF Draining \/ ~HasPath(x) THEN {}
            ELSE IF x.abs THEN Scanned(ROOTINO) ELSE {cwd[p]}
       ELSE IF x.pc \in {"user", "dead", "drain", "chdone", "exit", "exited"} THEN {}
       ELSE ({x.ip, x.dp, x.put} \ {None})
            \cup (IF x.pc = "walk" /\ Free(x.dp) /\ d.type = "dir" /\ Found(fs, d, Head(x.e))
                  THEN Scanned(InumOf(fs, d, Head(x.e))) ELSE {})

\* The inodes in whose sections q is; chdir leaves the one of ip before it puts
\* the old directory, whose section it did not enter.
Nodes(q) == IF t[q].then = "chdone" THEN {} ELSE {t[q].ip, t[q].dp, t[q].put}

\* The iunlock of the new inode, at the end of mkdir and mknod.
LastUnlock(x) == x.call \in {"mkdir", "mknod"} /\ x.pc = "new"

\* check_fail_stop, which knows the functions on the stack, and more than one
\* process in the section of the inode.  What it lets through: namex for chdir and
\* the ilock and iunlock of chdir, fileread, filewrite, mkdir and mknod.
FailStop(p, s) ==
    \/ t[p].call \notin {"chdir", "read", "write"} /\ ~LastUnlock(t[p])
    \/ t[p].pc \in {"iput", "itrunc", "iinval", "irel"}
    \/ t[p].pc = "begun" /\ ~t[p].abs
    \/ \A x \in Slot \ {s} : ic[x].d.type # "dev"
    \/ \A x \in Slot \ {s} : ic[x].d.type # "dev" => ic[x].inum # ROOTINO
    \/ \E q \in Proc \ {p} : s \in Nodes(q)

MayHit == ~halted /\ ~Draining /\ faults < MaxFault
Drain(p, x, s) ==
    /\ t' = [t EXCEPT ![p] = [x EXCEPT !.pc = "drain", !.put = s]]
    /\ faults' = faults + 1
    /\ UNCHANGED <<cwd, outstanding, halted, left, history>>

\* A memory error in inode s that p touches.  A hit in writei is a Fail-Stop.  The
\* lock of the directory in which p looks up a name is released; the lock of s
\* itself goes with s, and who sleeps on it is a Fail-Stop (DrainFails).
HitFails(p, s) ==
    /\ MayHit /\ (FailStop(p, s) \/ t[p].pc = "write")
    /\ faults' = faults + 1 /\ halted' = TRUE
    /\ UNCHANGED <<fs, ic, t, cwd, of, outstanding, left, history>>
Hit(p, s) ==
    /\ MayHit /\ ~FailStop(p, s)
    /\ Drain(p, t[p], s)
    /\ ic' = IF t[p].pc = "walk" /\ s # t[p].dp THEN Set(ic, t[p].dp, Loaded(t[p].dp))
             ELSE IF t[p].pc = "new" THEN Unlock(ic, s) ELSE ic
    /\ UNCHANGED <<fs, of>>

\* A memory error in the iunlock of a directory in which namex has found the next
\* inode, and of a file that has been written.
HitLooked(p) ==
    /\ At(p, "walk") /\ Free(t[p].dp) /\ ~NoType(t[p].dp)
    /\ MayHit /\ ~FailStop(p, t[p].dp)
    /\ LET x == t[p]
           d == Loaded(x.dp)
           g == Iget(Set(ic, x.dp, d), InumOf(fs, d, Head(x.e)))
       IN /\ d.type = "dir" /\ Found(fs, d, Head(x.e)) /\ g.got # None
          /\ ic' = g.c /\ Drain(p, [x EXCEPT !.ip = g.got], x.dp)
    /\ UNCHANGED <<fs, of>>
HitWritten(p) ==
    /\ At(p, "write") /\ Free(t[p].ip) /\ ~NoType(t[p].ip) /\ ~TooLong(p)
    /\ MayHit /\ ~FailStop(p, t[p].ip)
    /\ WriteChunk(p) /\ Drain(p, t[p], t[p].ip)

OthersLeft(p) == \A q \in Proc \ {p} : t[q].pc \in {"user", "dead", "begun", "chdone", "exit"}

\* All others have left the section: a new inode cache without the inode.
\* solve_inconsistency_inode clears the files on it.  The references that the
\* call still had are not given back.
Replace(p) ==
    /\ At(p, "drain") /\ OthersLeft(p)
    /\ LET s == t[p].put
           held == IF t[p].call \in {"read", "write"} THEN {} ELSE {t[p].ip, t[p].dp} \ {None, s}
       IN /\ ic' = [ic EXCEPT ![s] = FreeInode]
          /\ of' = [q \in Proc |-> IF of[q].ip = s THEN NoFile ELSE of[q]]
          /\ leak' = [x \in Slot |-> IF x = s THEN 0 ELSE IF x \in held THEN leak[x] + 1
                                     ELSE leak[x]]
          /\ lost' = IF ic[s].ref > 0 THEN lost \cup {ic[s].inum} ELSE lost
          /\ odd' = (\/ odd \/ (t[p].call = "read" /\ outstanding > 0)
                     \/ InitRefs(s) > 0
                     \/ \E q \in Proc : \/ cwd[q] = s \/ t[q].pc = "chdone"
                                        \/ t[q].pc = "begun" /\ t[q].call = "close")
    /\ outstanding' = IF outstanding > 0 THEN outstanding - 1 ELSE 0
    /\ t' = [t EXCEPT ![p] = Idle]
    /\ UNCHANGED <<fs, cwd, halted, bounds>>

\* check_proc_waiting_rcs_icache takes what a process sleeps on for a lock, and a
\* file that was not found has the flag of another object: a Fail-Stop.
DrainFails(p) == At(p, "drain") /\ Halt

-----------------------------------------------------------------------------
Step(p) ==
    \/ EnterPath(p) \/ EnterFile(p) \/ EnterPut(p) \/ ExitCwd(p) \/ ExitDone(p) \/ Walk(p)
    \/ Iput(p) \/ IputTrunc(p) \/ IputInval(p) \/ IputDrop(p)
    \/ Open(p) \/ Chdir(p) \/ ChdirDone(p) \/ Link(p) \/ LinkDir(p) \/ LinkDone(p) \/ LinkBad(p)
    \/ Unlink(p) \/ UnlinkIp(p) \/ UnlinkBad(p) \/ UnlinkDone(p)
    \/ Create(p) \/ Exists(p) \/ Created(p) \/ CreateDone(p) \/ Read(p) \/ Write(p)
    \/ Replace(p)

Next == \E p \in Proc :
    \/ Step(p)
    \/ \E c \in PathCalls : StartPath(p, c)
    \/ StartRead(p) \/ (\E n \in WriteN : StartWrite(p, n)) \/ Close(p) \/ Exit(p)
    \/ \E s \in Touched(p) : Hit(p, s) \/ HitFails(p, s)
    \/ HitLooked(p) \/ HitWritten(p) \/ DrainFails(p)

-----------------------------------------------------------------------------
\* What mkfs leaves: the root directory, rounded up to a whole block.
RootBlock == [i \in 0..(UNITS - 1) |->
                IF i = 0 THEN Dirent(".", ROOTINO)
                ELSE IF i = 1 THEN Dirent("..", ROOTINO) ELSE Zero]
RootDinode == [type |-> "dir", nlink |-> 1, size |-> UNITS, addrs |-> [NoAddrs EXCEPT ![0] = 1]]
Mkfs == [di |-> [i \in Inum |-> IF i = ROOTINO THEN RootDinode ELSE FreeDinode],
         used |-> {1},
         blk |-> [b \in Block |-> IF b = 1 THEN RootBlock ELSE [i \in 0..(UNITS - 1) |-> Zero]]]

\* The tree that earlier calls made: x.inum of type x.type in directory x.dd.
Plant(f, x) ==
    LET g == Iupdate(f, x.inum, [FreeDinode EXCEPT !.type = x.type])
        h == Make(g, x.dd, g.di[x.dd], x.inum, x.name).fs
        us == [i \in 1..x.n |-> Data(x.inum)]
    IN IF x.n = 0 THEN h ELSE Writei(Work(h, h.di[x.inum]), x.inum, 0, us).fs

\* The tree at the start has its inodes on the disk, and what is in use is there.
StartTree(x) == FoldLeft(Plant, Mkfs, x.tree)
ASSUME TreesAssumption ==
    \A x \in Starts :
        /\ DOMAIN StartTree(x) = {"di", "used", "blk"} /\ DOMAIN StartTree(x).di = Inum
        /\ \A i \in Inum : DOMAIN StartTree(x).di[i] = {"type", "nlink", "size", "addrs"}
        /\ \A i \in ({ROOTINO, CONSOLE} \cup Range(x.cwd) \cup Range(x.open)) \cap Inum :
              StartTree(x).di[i].type # "none"

\* init has the root directory and the console; a process has its current
\* directory, and perhaps a file that it opened.
Init ==
    \E start \in Starts :
        LET inums == <<ROOTINO, CONSOLE>>
                     \o SetToSeq((Range(start.cwd) \cup Range(start.open))
                                 \ {ROOTINO, CONSOLE, None})
            In(inum) == IF inum = None THEN None ELSE CHOOSE s \in DOMAIN inums : inums[s] = inum
            Users(f, s) == Cardinality({p \in Proc : f[p] = inums[s]})
            Refs(s) == InitRefs(s) + Users(start.cwd, s) + Users(start.open, s)
        IN /\ fs = StartTree(start)
           /\ ic = [s \in Slot |->
                      IF s \notin DOMAIN inums THEN FreeInode
                      ELSE [inum |-> inums[s], ref |-> Refs(s), valid |-> TRUE, lock |-> None,
                            d |-> fs.di[inums[s]]]]
           /\ cwd = [p \in Proc |-> In(start.cwd[p])]
           /\ of = [p \in Proc |-> [NoFile EXCEPT !.ip = In(start.open[p]),
                                                 !.wr = start.open[p] # None]]
           /\ t = [p \in Proc |-> Idle]
           /\ outstanding = 0 /\ halted = FALSE /\ left = start.calls /\ faults = 0
           /\ leak = [s \in Slot |-> 0] /\ lost = {} /\ odd = FALSE

Spec == Init /\ [][Next]_vars

-----------------------------------------------------------------------------
Dinode == [type : {"none", "dir", "file", "dev"}, nlink : Nat, size : 0..(MAXFILE * UNITS),
           addrs : [0..NDIRECT -> Block \cup {None}]]
TypeOK ==
    /\ fs.di \in [Inum -> Dinode] /\ fs.used \subseteq Block
    /\ DOMAIN fs.blk = Block
    /\ ic \in [Slot -> [inum : Inum \cup {None}, ref : Int, valid : BOOLEAN,
                        lock : Proc \cup {None}, d : Dinode]]
    /\ \A p \in Proc : {t[p].ip, t[p].dp, t[p].put} \subseteq Slot \cup {None}
    /\ cwd \in [Proc -> Slot \cup {None}]
    /\ of \in [Proc -> [ip : Slot \cup {None}, wr : BOOLEAN, off : Nat]]
    /\ outstanding \in Int /\ halted \in BOOLEAN /\ odd \in BOOLEAN
    /\ left \in [Proc -> Nat] /\ faults \in 0..MaxFault
    /\ leak \in [Slot -> Nat] /\ lost \subseteq Inum

Sound == ~halted /\ ~odd

\* ref counts the references: current directories (not the one that is being
\* put, or was), open files, those of the calls under way, those that recoveries
\* left.
Count(P) == Cardinality({p \in Proc : P[p]})
Flight(s) ==
    Count([p \in Proc |-> t[p].ip = s /\ t[p].call \notin {"read", "write"}])
    + Count([p \in Proc |-> t[p].dp = s])
    + Count([p \in Proc |-> t[p].put = s /\ t[p].pc # "drain"])
RefsExact ==
    \A s \in Slot :
        ic[s].ref = InitRefs(s) + leak[s] + Flight(s)
                    + Count([p \in Proc |-> cwd[p] = s /\ t[p].then \notin {"chdone", "exited"}])
                    + Count([p \in Proc |-> of[p].ip = s])

\* An inode has one entry, and an unlocked valid entry is what the disk says.
Coherent ==
    \A s \in Slot : ic[s].ref > 0 =>
        /\ Cached(ic, ic[s].inum) = {s}
        /\ ic[s].valid /\ Free(s) => ic[s].d = fs.di[ic[s].inum]

\* The inode cache through every call, every failure of a call half way, every
\* reuse of an inode number whose last user is still in iput, and the recovery
\* of a struct inode: no reference is lost or counted twice.
IcacheInv == TypeOK /\ (Sound => RefsExact /\ Coherent)

\* The comment in iput (fs.c): ref == 1 means that no other process can have the
\* inode locked, so that acquiresleep, under the spinlock of the cache, does not
\* block.
IputFree == Sound => \A p \in Proc : t[p].pc = "iput" /\ LastUse(t[p].put) => Free(t[p].put)

Alloc == {i \in Inum : fs.di[i].type # "none"}
Dirs == {i \in Alloc : fs.di[i].type = "dir" /\ fs.di[i].nlink > 0}
EntryAt(e) == UnitAt(fs, fs.di[e[1]], e[2])
Entries == {e \in Dirs \X (0..(MAXFILE * UNITS - 1)) :
                e[2] < fs.di[e[1]].size /\ EntryAt(e).k = "ent"}
Links(i) ==
    (IF i = ROOTINO THEN 1 ELSE 0)
    + Cardinality({e \in Entries : /\ EntryAt(e).v = i
                                   /\ EntryAt(e).n # "."
                                   /\ EntryAt(e).n = ".." => e[1] # ROOTINO})

\* What a check of the file system would find whenever the log can commit: every
\* entry of a directory names an inode in use; the count of links of an inode is
\* the number of its names and of the directories in it; every block in use
\* belongs to one inode, and the bitmap says so; a file holds only its own data;
\* an inode without a link is one that a process still has, or lost by a memory
\* error.
FsckOK ==
    Sound /\ outstanding = 0 =>
        /\ \A e \in Entries : EntryAt(e).v \in Alloc
        /\ \A i \in Alloc : fs.di[i].nlink = Links(i)
        /\ fs.used = UNION {BlocksOf(fs, fs.di[i]) : i \in Alloc}
        /\ \A i, j \in Alloc : i # j => BlocksOf(fs, fs.di[i]) \cap BlocksOf(fs, fs.di[j]) = {}
        /\ \A i \in Alloc : fs.di[i].type = "file" =>
              \A o \in 0..(fs.di[i].size - 1) : UnitAt(fs, fs.di[i], o) = Data(i)
        /\ \A i \in Alloc : fs.di[i].nlink = 0 => Cached(ic, i) # {} \/ i \in lost

\* A call can go on as long as there is one, also when processes lock directories
\* above and below each other, and a handler waits until the others have left the
\* section: nobody waits for a lock that is not given back.
Wanted(p) ==
    IF t[p].pc \in {"walk", "unlink", "create", "linkdir"} THEN {t[p].dp}
    ELSE IF t[p].pc \in {"open", "chdir", "link", "linkbad", "unlinkip", "exists", "created",
                         "read", "write"} THEN {t[p].ip}
    ELSE {}
Out == {p \in Proc : t[p].pc \in {"user", "dead"}}
Waiting ==
    {p \in Proc : \/ \E s \in Wanted(p) : ~Free(s)
                  \/ t[p].pc = "begun" /\ Draining
                  \/ t[p].pc = "drain" /\ ~OthersLeft(p)}
CallsGoOn == ~halted => Out = Proc \/ Out \cup Waiting # Proc
=============================================================================
