------------------------------- MODULE Files --------------------------------
(***************************************************************************)
(* The file table (kernel/file.c), the file descriptors of the processes   *)
(* (sysfile.c, and the part of fork and exit in proc.c), pipes (pipe.c),   *)
(* and the recovery handlers of struct file and struct pipe.  What happens *)
(* under ftable->lock or a pipe's lock is one step.  A slot of the table   *)
(* keeps its old ip and pipe when it is closed and used again, as in the   *)
(* code.  A byte of a pipe is the number of bytes written before it.       *)
(***************************************************************************)
EXTENDS Integers, SequencesExt, FiniteSetsExt

CONSTANTS
    NPROC, NOFILE, NFILE, NINODE, PIPESIZE,
    NPIPE,        \* bound: the number of pages that pipes can have
    MaxWrite,     \* bound: the number of bytes of a write
    MaxBytes,     \* bound: the number of bytes written to a pipe
    MaxOps,       \* bound: the number of system calls in a behaviour
    MaxFault      \* bound: the number of memory errors in a behaviour

ASSUME FilesAssumption ==
    /\ {NPROC, NOFILE, NFILE, NINODE, PIPESIZE, MaxWrite} \subseteq Nat \ {0}
    /\ {NPIPE, MaxBytes, MaxOps, MaxFault} \subseteq Nat

Proc == 1..NPROC
Fd == 1..NOFILE
File == 1..NFILE
Inode == 1..NINODE
Pipe == 1..NPIPE
None == 0         \* the null pointer

VARIABLES
    ofile,        \* p->ofile
    file,         \* ftable->file
    pipe,         \* the pages of the pipes
    ref,          \* ref of the inodes
    pc,           \* where a process is
    cur, cur2,    \* files that the call of a process has
    ff,           \* the pipe, and the end of it, that it took from a file
    arg,          \* its inode, number of bytes, or descriptor
    exiting,      \* the processes inside exit
    killed,       \* p->killed
    halted,       \* panic or Fail-Stop
    ops, faults,  \* numbers of system calls and memory errors so far
    gone,         \* pages of pipes that were hit by a memory error
    hurt,         \* history: pipes that a memory error affected
    unsaid,       \* history: pipes with bytes that no reader was woken for
    orphan,       \* history: files whose references a call had not counted down, or
                  \* had counted down already, when a handler cut it off
    misjudged     \* history: the file handler took a wrong inode for the broken
                  \* file's one, or did not drop its reference

tables == <<ofile, file, pipe, ref, gone>>
locals == <<cur, cur2, ff, arg>>
calls == <<pc, locals, exiting>>
bounds == <<ops, faults>>
history == <<hurt, unsaid, orphan, misjudged>>
vars == <<tables, calls, killed, halted, bounds, history>>

FreeFile == [type |-> "none", rd |-> FALSE, wr |-> FALSE, pipe |-> None, ip |-> None, ref |-> 0]
FreePipe == [used |-> FALSE, readopen |-> FALSE, writeopen |-> FALSE, nread |-> 0, nwrite |-> 0,
             data |-> [i \in 0..(PIPESIZE - 1) |-> 0]]
NoPipe == [pipe |-> None, wr |-> FALSE]

\* Inside RL_FLAG_PIPE, and inside RL_FLAG_FTABLE.
InPipe == {"read", "rsleep", "write", "wsleep", "pipeclose"}
InFtable == InPipe \cup {"pipe2", "pipefds", "openfd", "close", "exit"}
Pc == {"unused", "user", "namei", "drain"} \cup InFtable

TypeOK ==
    /\ ofile \in [Proc -> [Fd -> File \cup {None}]]
    /\ file \in [File -> [type : {"none", "pipe", "inode"}, rd : BOOLEAN, wr : BOOLEAN,
                          pipe : Pipe \cup {None}, ip : Inode \cup {None}, ref : Nat]]
    /\ pipe \in [Pipe -> [used : BOOLEAN, readopen : BOOLEAN, writeopen : BOOLEAN,
                          nread : Nat, nwrite : Nat, data : [0..(PIPESIZE - 1) -> Nat]]]
    /\ ref \in [Inode -> Int]
    /\ pc \in [Proc -> Pc] /\ cur \in [Proc -> File \cup {None}]
    /\ cur2 \in [Proc -> File \cup {None}] /\ arg \in [Proc -> Nat]
    /\ ff \in [Proc -> [pipe : Pipe \cup {None}, wr : BOOLEAN]]
    /\ exiting \subseteq Proc /\ killed \subseteq Proc /\ halted \in BOOLEAN
    /\ ops \in 0..MaxOps /\ faults \in 0..MaxFault
    /\ gone \subseteq Pipe /\ hurt \subseteq Pipe /\ unsaid \subseteq Pipe
    /\ orphan \subseteq File /\ misjudged \in BOOLEAN

\* fileinit; one process runs.
Init ==
    /\ ofile = [p \in Proc |-> [d \in Fd |-> None]]
    /\ file = [f \in File |-> FreeFile] /\ pipe = [a \in Pipe |-> FreePipe]
    /\ ref = [i \in Inode |-> 0]
    /\ pc = [p \in Proc |-> IF p = 1 THEN "user" ELSE "unused"]
    /\ cur = [p \in Proc |-> None] /\ cur2 = cur /\ arg = [p \in Proc |-> 0]
    /\ ff = [p \in Proc |-> NoPipe] /\ gone = {}
    /\ exiting = {} /\ killed = {} /\ halted = FALSE
    /\ ops = 0 /\ faults = 0
    /\ hurt = {} /\ unsaid = {} /\ orphan = {} /\ misjudged = FALSE

-----------------------------------------------------------------------------
At(p, l) == ~halted /\ pc[p] = l
Halt == halted' = TRUE
Goto(p, l) == pc' = [pc EXCEPT ![p] = l]
WakeAndGoto(S, to, p, l) ==
    pc' = [q \in Proc |-> IF q = p THEN l ELSE IF q \in S THEN to ELSE pc[q]]

\* The call of p returns.
Return(p) ==
    /\ Goto(p, "user")
    /\ cur' = [cur EXCEPT ![p] = None] /\ cur2' = [cur2 EXCEPT ![p] = None]
    /\ arg' = [arg EXCEPT ![p] = 0] /\ ff' = [ff EXCEPT ![p] = NoPipe]

\* enter_recovery_critical_section(RL_FLAG_FTABLE): the file handler lets nobody in.
FtableFree == \A q \in Proc : pc[q] # "drain"

\* A process that was killed does not make another call.
StartCall(p) ==
    /\ At(p, "user") /\ p \notin killed \cup exiting /\ ops < MaxOps
    /\ ops' = ops + 1

\* filealloc: the first slot with ref 0; fdalloc: the first free descriptor.
FreeSlot == LET S == {f \in File : file[f].ref = 0} IN IF S = {} THEN None ELSE Min(S)
FreeFd(p) == {d \in Fd : ofile[p][d] = None}
Filealloc(f) == [file EXCEPT ![f].ref = 1]

-----------------------------------------------------------------------------
(* pipe, open, dup, fork *)

\* sys_pipe: the first filealloc of pipealloc.
SysPipe(p) ==
    /\ StartCall(p) /\ FtableFree
    /\ IF FreeSlot = None
       THEN UNCHANGED <<file, pc, cur>>
       ELSE /\ file' = Filealloc(FreeSlot)
            /\ cur' = [cur EXCEPT ![p] = FreeSlot]
            /\ Goto(p, "pipe2")
    /\ UNCHANGED <<ofile, pipe, ref, gone, cur2, ff, arg, exiting, killed, halted, faults, history>>

\* The second filealloc; when it fails, the first file is closed.
Pipealloc(p) ==
    /\ At(p, "pipe2")
    /\ IF FreeSlot = None
       THEN Goto(p, "close") /\ UNCHANGED <<file, cur2>>
       ELSE /\ file' = Filealloc(FreeSlot)
            /\ cur2' = [cur2 EXCEPT ![p] = FreeSlot]
            /\ Goto(p, "pipefds")
    /\ UNCHANGED <<ofile, pipe, ref, gone, cur, ff, arg, exiting, killed, halted, bounds, history>>

\* The rest of pipealloc and of sys_pipe.  When kalloc fails, the files are
\* closed as they are; when fdalloc or copyout fails, as ends of the pipe.
PipeFds(p) ==
    /\ At(p, "pipefds")
    /\ \/ Goto(p, "close") /\ UNCHANGED <<ofile, file, pipe, cur, cur2>>
       \/ \E a \in {b \in Pipe : ~pipe[b].used /\ \A c \in Pipe : c < b => pipe[c].used} :
          /\ pipe' = [pipe EXCEPT ![a] = [FreePipe EXCEPT !.used = TRUE, !.readopen = TRUE,
                                                          !.writeopen = TRUE]]
          /\ file' = [file EXCEPT ![cur[p]] = [@ EXCEPT !.type = "pipe", !.rd = TRUE,
                                                        !.wr = FALSE, !.pipe = a],
                                  ![cur2[p]] = [@ EXCEPT !.type = "pipe", !.rd = FALSE,
                                                         !.wr = TRUE, !.pipe = a]]
          /\ \/ Goto(p, "close") /\ UNCHANGED <<ofile, cur, cur2>>
             \/ /\ Cardinality(FreeFd(p)) >= 2
                /\ LET d0 == Min(FreeFd(p))
                       d1 == Min(FreeFd(p) \ {d0})
                   IN ofile' = [ofile EXCEPT ![p] = [@ EXCEPT ![d0] = cur[p], ![d1] = cur2[p]]]
                /\ Goto(p, "user")
                /\ cur' = [cur EXCEPT ![p] = None] /\ cur2' = [cur2 EXCEPT ![p] = None]
    /\ UNCHANGED <<ref, gone, ff, arg, exiting, killed, halted, bounds, history>>

\* sys_open up to filealloc: namei has a reference of the inode.
SysOpen(p, i) ==
    /\ StartCall(p)
    /\ ref' = [ref EXCEPT ![i] = @ + 1]
    /\ arg' = [arg EXCEPT ![p] = i]
    /\ Goto(p, "namei")
    /\ UNCHANGED <<ofile, file, pipe, gone, cur, cur2, ff, exiting, killed, halted, faults,
                   history>>

\* filealloc; without a slot iunlockput drops the inode.
OpenAlloc(p) ==
    /\ At(p, "namei") /\ FtableFree
    /\ IF FreeSlot = None
       THEN /\ ref' = [ref EXCEPT ![arg[p]] = @ - 1]
            /\ Return(p) /\ UNCHANGED file
       ELSE /\ file' = Filealloc(FreeSlot)
            /\ cur' = [cur EXCEPT ![p] = FreeSlot]
            /\ Goto(p, "openfd") /\ UNCHANGED <<ref, cur2, ff, arg>>
    /\ UNCHANGED <<ofile, pipe, gone, exiting, killed, halted, bounds, history>>

\* fdalloc, and the file is set up; without a descriptor the file is closed
\* (its type is still FD_NONE) and the inode dropped.
OpenFd(p) ==
    /\ At(p, "openfd")
    /\ IF FreeFd(p) = {}
       THEN /\ file' = [file EXCEPT ![cur[p]].ref = 0]
            /\ ref' = [ref EXCEPT ![arg[p]] = @ - 1]
            /\ UNCHANGED ofile
       ELSE /\ file' = [file EXCEPT ![cur[p]] = [@ EXCEPT !.type = "inode", !.ip = arg[p],
                                                          !.rd = TRUE, !.wr = TRUE]]
            /\ ofile' = [ofile EXCEPT ![p][Min(FreeFd(p))] = cur[p]]
            /\ UNCHANGED ref
    /\ Return(p)
    /\ UNCHANGED <<pipe, gone, exiting, killed, halted, bounds, history>>

\* sys_dup: fdalloc, then filedup.
SysDup(p, d) ==
    /\ StartCall(p) /\ FtableFree /\ ofile[p][d] # None /\ FreeFd(p) # {}
    /\ ofile' = [ofile EXCEPT ![p][Min(FreeFd(p))] = ofile[p][d]]
    /\ IF file[ofile[p][d]].ref < 1
       THEN Halt /\ UNCHANGED file
       ELSE file' = [file EXCEPT ![ofile[p][d]].ref = @ + 1] /\ UNCHANGED halted
    /\ UNCHANGED <<pipe, ref, gone, calls, killed, faults, history>>

\* fork: filedup of every open file.
Fork(p, c) ==
    /\ StartCall(p) /\ FtableFree /\ At(c, "unused")
    /\ ofile' = [ofile EXCEPT ![c] = ofile[p]]
    /\ file' = [f \in File |->
                  [file[f] EXCEPT !.ref = @ + Cardinality({d \in Fd : ofile[p][d] = f})]]
    /\ Goto(c, "user")
    /\ UNCHANGED <<pipe, ref, gone, locals, exiting, killed, halted, faults, history>>

-----------------------------------------------------------------------------
(* close and exit *)

\* sys_close: the descriptor is free before fileclose.
SysClose(p, d) ==
    /\ StartCall(p) /\ FtableFree /\ ofile[p][d] # None
    /\ ofile' = [ofile EXCEPT ![p][d] = None]
    /\ cur' = [cur EXCEPT ![p] = ofile[p][d]]
    /\ Goto(p, "close")
    /\ UNCHANGED <<file, pipe, ref, gone, cur2, ff, arg, exiting, killed, halted, faults, history>>

OpenFds(p) == {d \in Fd : ofile[p][d] # None}

\* exit, which a handler may start again.
Exit(p) ==
    /\ At(p, "user") /\ FtableFree
    /\ p \in killed \/ p \in exiting \/ ops < MaxOps
    /\ ops' = IF p \in killed \cup exiting THEN ops ELSE ops + 1
    /\ exiting' = exiting \cup {p}
    /\ Goto(p, "exit")
    /\ UNCHANGED <<tables, locals, killed, halted, faults, history>>

\* The files are closed one by one, a descriptor is freed after its file.
ExitLoop(p) ==
    /\ At(p, "exit")
    /\ IF OpenFds(p) = {}
       THEN /\ Goto(p, "unused") /\ killed' = killed \ {p} /\ exiting' = exiting \ {p}
            /\ UNCHANGED <<cur, arg>>
       ELSE /\ arg' = [arg EXCEPT ![p] = Min(OpenFds(p))]
            /\ cur' = [cur EXCEPT ![p] = ofile[p][Min(OpenFds(p))]]
            /\ Goto(p, "close") /\ UNCHANGED <<killed, exiting>>
    /\ UNCHANGED <<tables, cur2, ff, halted, bounds, history>>

\* Where p goes when fileclose returns: sys_pipe closes a second file, exit
\* frees the descriptor and goes on; S are woken.
Closed(p, S, to) ==
    /\ WakeAndGoto(S, to, p, IF cur2[p] # None THEN "close"
                             ELSE IF p \in exiting THEN "exit" ELSE "user")
    /\ cur' = [cur EXCEPT ![p] = cur2[p]] /\ cur2' = [cur2 EXCEPT ![p] = None]
    /\ ff' = [ff EXCEPT ![p] = NoPipe]
    /\ ofile' = IF p \in exiting THEN [ofile EXCEPT ![p][arg[p]] = None] ELSE ofile
    /\ arg' = [arg EXCEPT ![p] = 0]

\* fileclose under ftable->lock; iput for an inode.
Fileclose(p) ==
    /\ At(p, "close")
    /\ LET f == cur[p] IN
       IF file[f].ref < 1
       THEN Halt /\ UNCHANGED <<ofile, file, ref, pc, locals>>
       ELSE /\ UNCHANGED halted
            /\ IF file[f].ref > 1
               THEN file' = [file EXCEPT ![f].ref = @ - 1] /\ Closed(p, {}, "user") /\ UNCHANGED ref
               ELSE /\ file' = [file EXCEPT ![f].ref = 0, ![f].type = "none"]
                    /\ IF file[f].type = "pipe"
                       THEN /\ ff' = [ff EXCEPT ![p] = [pipe |-> file[f].pipe, wr |-> file[f].wr]]
                            /\ Goto(p, "pipeclose") /\ UNCHANGED <<ofile, ref, cur, cur2, arg>>
                       ELSE /\ ref' = IF file[f].type = "inode"
                                      THEN [ref EXCEPT ![file[f].ip] = @ - 1] ELSE ref
                            /\ Closed(p, {}, "user")
    /\ UNCHANGED <<pipe, gone, exiting, killed, bounds, history>>

-----------------------------------------------------------------------------
(* Pipes *)

\* The pipe that p uses; nothing is modelled of a process that touches a page
\* that was hit before.
Pi(p) == pipe[ff[p].pipe]
OnPipe(p, l) == At(p, l) /\ ff[p].pipe \notin gone
Sleepers(l, a) == {q \in Proc : pc[q] = l /\ ff[q].pipe = a}

\* Mutant: the writers are not woken when the last reader goes.
Pipeclose_silent(p) ==
    /\ OnPipe(p, "pipeclose")
    /\ LET a == ff[p].pipe
           new == IF ff[p].wr THEN [Pi(p) EXCEPT !.writeopen = FALSE]
                              ELSE [Pi(p) EXCEPT !.readopen = FALSE]
       IN pipe' = [pipe EXCEPT ![a] = IF new.readopen \/ new.writeopen THEN new ELSE FreePipe]
    /\ Closed(p, {}, "user")
    /\ UNCHANGED <<file, ref, gone, exiting, killed, halted, bounds, history>>

\* pipeclose under the pipe's lock: the other end is woken, and the page is
\* freed when both ends are closed.  Then fileclose returns.
Pipeclose(p) ==
    /\ OnPipe(p, "pipeclose")
    /\ LET a == ff[p].pipe
           new == IF ff[p].wr THEN [Pi(p) EXCEPT !.writeopen = FALSE]
                              ELSE [Pi(p) EXCEPT !.readopen = FALSE]
       IN /\ pipe' = [pipe EXCEPT ![a] = IF new.readopen \/ new.writeopen THEN new ELSE FreePipe]
          /\ IF ff[p].wr THEN Closed(p, Sleepers("rsleep", a), "read")
                         ELSE Closed(p, Sleepers("wsleep", a), "write")
    /\ UNCHANGED <<file, ref, gone, exiting, killed, halted, bounds, history>>

\* sys_read, sys_write: fileread and filewrite of a pipe's end.
SysRw(p, d, n) ==
    /\ StartCall(p) /\ FtableFree
    /\ ofile[p][d] # None
    /\ LET f == file[ofile[p][d]] IN
       /\ f.type = "pipe" /\ pipe[f.pipe].nwrite + NPROC * MaxWrite <= MaxBytes
       /\ ff' = [ff EXCEPT ![p] = [pipe |-> f.pipe, wr |-> f.wr]]
       /\ Goto(p, IF f.rd THEN "read" ELSE "write")
    /\ cur' = [cur EXCEPT ![p] = ofile[p][d]]
    /\ arg' = [arg EXCEPT ![p] = n]
    /\ UNCHANGED <<tables, cur2, exiting, killed, halted, faults, history>>

\* piperead: it sleeps while the pipe is empty and has a writer, unless killed.
Piperead(p) ==
    /\ OnPipe(p, "read")
    /\ LET a == ff[p].pipe
           k == Min({arg[p], Pi(p).nwrite - Pi(p).nread})
       IN IF k = 0 /\ Pi(p).writeopen
          THEN /\ IF p \in killed THEN Return(p) ELSE Goto(p, "rsleep") /\ UNCHANGED locals
               /\ UNCHANGED <<pipe, unsaid>>
          ELSE /\ pipe' = [pipe EXCEPT ![a].nread = @ + k]
               /\ WakeAndGoto(Sleepers("wsleep", a), "write", p, "user")
               /\ cur' = [cur EXCEPT ![p] = None] /\ ff' = [ff EXCEPT ![p] = NoPipe]
               /\ arg' = [arg EXCEPT ![p] = 0]
               /\ unsaid' = IF k + Pi(p).nread = Pi(p).nwrite THEN unsaid \ {a} ELSE unsaid
               /\ UNCHANGED cur2
    /\ UNCHANGED <<ofile, file, ref, gone, exiting, killed, halted, bounds, hurt, orphan,
                   misjudged>>

\* Mutant: the index does not wrap around.
Put_nowrap(pi, k) ==
    [pi EXCEPT !.nwrite = @ + k,
               !.data = [i \in DOMAIN @ |->
                  IF i \in pi.nwrite..(pi.nwrite + k - 1) THEN i ELSE @[i]]]

\* The ring after k more bytes.
Put(pi, k) ==
    [pi EXCEPT !.nwrite = @ + k,
               !.data = [i \in DOMAIN @ |->
                  LET S == {j \in pi.nwrite..(pi.nwrite + k - 1) : j % PIPESIZE = i}
                  IN IF S = {} THEN @[i] ELSE Max(S)]]

\* pipewrite up to where it sleeps or returns.  On a full pipe without reader,
\* or when it is killed, it returns without waking the readers.
Pipewrite(p) ==
    /\ OnPipe(p, "write")
    /\ LET a == ff[p].pipe
           k == Min({arg[p], PIPESIZE - (Pi(p).nwrite - Pi(p).nread)})
           full == k < arg[p]
           fails == full /\ (~Pi(p).readopen \/ p \in killed)
           S == IF fails THEN {} ELSE Sleepers("rsleep", a)
       IN /\ pipe' = [pipe EXCEPT ![a] = Put(@, k)]
          /\ WakeAndGoto(S, "read", p, IF full /\ ~fails THEN "wsleep" ELSE "user")
          /\ unsaid' = IF fails THEN unsaid \cup {a} ELSE unsaid \ {a}
          /\ IF full /\ ~fails
             THEN arg' = [arg EXCEPT ![p] = @ - k] /\ UNCHANGED <<cur, ff>>
             ELSE /\ cur' = [cur EXCEPT ![p] = None] /\ ff' = [ff EXCEPT ![p] = NoPipe]
                  /\ arg' = [arg EXCEPT ![p] = 0]
    /\ UNCHANGED <<ofile, file, ref, gone, cur2, exiting, killed, halted, bounds, hurt, orphan,
                   misjudged>>

\* kill: a sleeping process is made runnable.
Kill(p, q) ==
    /\ StartCall(p) /\ pc[q] \notin {"unused"} /\ q \notin killed
    /\ killed' = killed \cup {q}
    /\ pc' = [pc EXCEPT ![q] = IF @ = "rsleep" THEN "read" ELSE IF @ = "wsleep" THEN "write" ELSE @]
    /\ UNCHANGED <<tables, locals, exiting, halted, faults, history>>

-----------------------------------------------------------------------------
(* recovery_handler_pipe *)

\* The descriptors whose file points to page a, the first process first.  The
\* type of the file is not looked at.
Pointing(a) == {x \in Proc \X Fd : ofile[x[1]][x[2]] # None /\ file[ofile[x[1]][x[2]]].pipe = a}
First(S) == CHOOSE x \in S : \A y \in S : x[1] < y[1] \/ (x[1] = y[1] /\ x[2] <= y[2])
FreePages == {a \in Pipe : ~pipe[a].used}

\* A memory error in the pipe that p uses, and its handler: the first file that
\* is found gets the new page, its process is killed.  A process inside exit
\* calls exit again, on the file that it had closed if that is the one found.
PipeHit(p) ==
    /\ \E l \in {"read", "write", "pipeclose"} : OnPipe(p, l)
    /\ faults < MaxFault /\ FreePages # {}
    /\ faults' = faults + 1
    /\ LET a == ff[p].pipe
           b == Min(FreePages)
       IN IF \E q \in Proc \ {p} : pc[q] \in InPipe
          THEN Halt /\ UNCHANGED <<file, pipe, gone, pc, locals, killed, hurt, orphan>>
          ELSE /\ LET S == Pointing(a)
                      f == IF S = {} THEN ofile[NPROC][NOFILE] ELSE ofile[First(S)[1]][First(S)[2]]
                      again == p \in exiting /\ f # None /\ file[f].ref = 0
                  IN /\ pipe' = [pipe EXCEPT ![b] = [FreePipe EXCEPT
                                   !.used = TRUE,
                                   !.writeopen = S # {} /\ file[f].wr,
                                   !.readopen = S # {} /\ ~file[f].wr /\ file[f].rd]]
                     /\ file' = [g \in File |-> IF g # f THEN file[g]
                                   ELSE [file[g] EXCEPT !.pipe = IF S = {} THEN @ ELSE b,
                                                        !.ref = IF again THEN 1 ELSE @]]
                     /\ killed' = IF S = {} THEN killed ELSE killed \cup {First(S)[1]}
               /\ gone' = gone \cup {a} /\ hurt' = hurt \cup {a, b}
               /\ orphan' = orphan \cup ({cur2[p]} \ {None})
                                   \cup (IF p \in exiting THEN {cur[p]} ELSE {})
               /\ Return(p) /\ UNCHANGED halted
    /\ UNCHANGED <<ofile, ref, exiting, ops, unsaid, misjudged>>

-----------------------------------------------------------------------------
(* recovery_handler_file *)

\* The last pipe end in the table that may be read, or written.
LastEnd(f, wr) ==
    LET S == {g \in File \ {f} : file[g].type = "pipe" /\ file[g].wr = wr}
    IN IF S = {} THEN None ELSE Max(S)

\* The first inode whose references are not the ones of the table.
InodeOf(f) ==
    LET match(i) == Cardinality({g \in File \ {f} : file[g].type # "none" /\ file[g].ip = i})
        S == {i \in Inode : ref[i] >= 1 /\ ref[i] # match(i)}
    IN IF S = {} THEN None ELSE Min(S)

Holders(f) == {q \in Proc : \E d \in Fd : ofile[q][d] = f}

\* The handler up to its wait.  When the other end of a pipe seems lost, a flag
\* of the pipe is cleared and the holders of the end that is left are killed.
\* The count of the file's section is read out of bounds: it may fail.
StartFileRecovery(p, f) ==
    /\ faults < MaxFault /\ FtableFree
    /\ faults' = faults + 1
    /\ LET r == LastEnd(f, FALSE)
           w == LastEnd(f, TRUE)
           left == IF r # None /\ w = None THEN r ELSE IF r = None /\ w # None THEN w ELSE None
       IN /\ pipe' = IF left = None THEN pipe
                     ELSE IF left = r THEN [pipe EXCEPT ![file[r].pipe].readopen = FALSE]
                     ELSE [pipe EXCEPT ![file[w].pipe].writeopen = FALSE]
          /\ killed' = IF left = None THEN killed ELSE killed \cup Holders(left)
          /\ hurt' = hurt \cup (IF left = None THEN {} ELSE {file[left].pipe})
                          \cup (IF file[f].type = "pipe" THEN {file[f].pipe} ELSE {})
          /\ arg' = [arg EXCEPT ![p] = InodeOf(f)]
          /\ cur2' = [cur2 EXCEPT ![p] = IF r # None THEN r ELSE w]
    /\ orphan' = orphan \cup ({cur2[p]} \ {None})
    /\ cur' = [cur EXCEPT ![p] = f]
    /\ Goto(p, "drain")
    /\ halted' \in {FALSE, TRUE}
    /\ UNCHANGED <<ofile, file, ref, gone, ff, exiting, unsaid, misjudged>>

\* A memory error in the file that p closes, or in one that its call looks at.
FileHit(p) ==
    /\ At(p, "close")
    /\ StartFileRecovery(p, cur[p])
    /\ UNCHANGED ops

FileHitCall(p, d) ==
    /\ StartCall(p) /\ ofile[p][d] # None
    /\ StartFileRecovery(p, ofile[p][d])

\* Mutant: the process that recovers counts itself.
Drained_self(p) == \A q \in Proc : pc[q] \notin InFtable \cup {"drain"}

\* check_and_wait_procs_in_rcs_file: nobody else is inside RL_FLAG_FTABLE.
Drained(p) == \A q \in Proc \ {p} : pc[q] \notin InFtable

\* Mutant: only the process that was hit loses its descriptors.
Dropped_own(p, q, d) == IF p = q /\ ofile[q][d] = cur[p] THEN None ELSE ofile[q][d]

\* ofile[] with the new table: the broken file is closed everywhere.
Dropped(p, q, d) == IF ofile[q][d] = cur[p] THEN None ELSE ofile[q][d]

\* The table is moved and the inode of the broken file dropped, unless there is
\* an end of a pipe in the table.
FinishFileRecovery(p) ==
    /\ At(p, "drain") /\ Drained(p)
    /\ file' = [file EXCEPT ![cur[p]] = FreeFile]
    /\ ofile' = [q \in Proc |-> [d \in Fd |-> Dropped(p, q, d)]]
    /\ LET drop == IF cur2[p] = None THEN arg[p] ELSE None
           truth == IF file[cur[p]].type = "inode" THEN file[cur[p]].ip ELSE None
       IN /\ ref' = IF drop = None THEN ref ELSE [ref EXCEPT ![drop] = @ - 1]
          /\ misjudged' = (misjudged \/ drop # truth)
    /\ Return(p)
    /\ UNCHANGED <<pipe, gone, exiting, killed, halted, bounds, hurt, unsaid, orphan>>

-----------------------------------------------------------------------------
ProcNext(p) ==
    \/ Pipealloc(p) \/ PipeFds(p) \/ OpenAlloc(p) \/ OpenFd(p)
    \/ ExitLoop(p) \/ Fileclose(p) \/ Pipeclose(p) \/ Piperead(p) \/ Pipewrite(p)
    \/ FinishFileRecovery(p)

Next ==
    \/ \E p \in Proc : ProcNext(p) \/ SysPipe(p) \/ Exit(p) \/ PipeHit(p) \/ FileHit(p)
    \/ \E p \in Proc, i \in Inode : SysOpen(p, i)
    \/ \E p \in Proc, d \in Fd : SysDup(p, d) \/ SysClose(p, d) \/ FileHitCall(p, d)
    \/ \E p \in Proc, d \in Fd, n \in 1..MaxWrite : SysRw(p, d, n)
    \/ \E p, q \in Proc : Fork(p, q) \/ Kill(p, q)

Spec == Init /\ [][Next]_vars

\* The scheduler runs every process that is inside a system call.
FairSpec == Spec /\ \A p \in Proc : WF_vars(ProcNext(p))

-----------------------------------------------------------------------------
\* References of a file that calls in progress have.
InFlight(f) ==
    {p \in Proc : cur[p] = f /\ pc[p] \in {"pipe2", "pipefds", "openfd"}}
    \cup {p \in Proc : cur[p] = f /\ pc[p] = "close" /\ p \notin exiting}
InFlight2(f) == {p \in Proc : cur2[p] = f /\ pc[p] \in {"pipefds", "close", "pipeclose"}}

\* The reference count of a file is the number of descriptors and of calls that
\* have it, through failing calls, exits and the recovery of a file: no file is
\* leaked or closed too early.  Only a call that a handler cut off loses one.
RefExact ==
    ~halted => \A f \in File \ {cur[p] : p \in {q \in Proc : pc[q] = "drain"}} :
        LET fds == {x \in Proc \X Fd : ofile[x[1]][x[2]] = f
                       /\ ~(x[1] \in exiting /\ pc[x[1]] = "pipeclose" /\ arg[x[1]] = x[2])}
            n == Cardinality(fds) + Cardinality(InFlight(f)) + Cardinality(InFlight2(f))
        IN file[f].ref = n \/ f \in orphan

\* An end of a pipe is open as long as a file of it is, and no longer; the page
\* is freed with the second end.  What a memory error did to a pipe is excepted.
EndsExact ==
    ~halted /\ orphan = {} => \A a \in Pipe \ hurt :
        LET open(wr) == \/ \E f \in File : file[f].type = "pipe" /\ file[f].ref > 0
                                           /\ file[f].pipe = a /\ file[f].wr = wr
                        \/ \E p \in Proc : pc[p] = "pipeclose" /\ ff[p] = [pipe |-> a, wr |-> wr]
        IN /\ pipe[a].readopen = open(FALSE) /\ pipe[a].writeopen = open(TRUE)
           /\ pipe[a].used = (open(FALSE) \/ open(TRUE))

\* The bytes between nread and nwrite are in the ring, in the order in which
\* they were written, and no more than fit into it.
InOrder ==
    \A a \in Pipe :
        /\ pipe[a].nwrite - pipe[a].nread \in 0..PIPESIZE
        /\ \A k \in pipe[a].nread..(pipe[a].nwrite - 1) : pipe[a].data[k % PIPESIZE] = k

\* Who sleeps in a pipe has a reason: a reader has no byte to read and a writer
\* to wait for, a writer has no room and a reader to wait for.  A writer that
\* was killed leaves readers asleep over its bytes.
SleepsForReason ==
    ~halted /\ orphan = {} => \A p \in Proc :
        LET pi == pipe[ff[p].pipe] IN
        /\ pc[p] = "rsleep" /\ ff[p].pipe \notin hurt =>
               pi.writeopen /\ (pi.nread = pi.nwrite \/ ff[p].pipe \in unsaid)
        /\ pc[p] = "wsleep" /\ ff[p].pipe \notin hurt =>
               pi.readopen /\ pi.nwrite = pi.nread + PIPESIZE

\* The references of an inode are the open files and the opens in progress,
\* unless the file handler misjudged which inode the broken file had.
InodeRefs ==
    ~halted /\ ~misjudged /\ orphan = {} => \A i \in Inode :
        ref[i] = Cardinality({f \in File : file[f].type = "inode" /\ file[f].ip = i})
                 + Cardinality({p \in Proc : pc[p] \in {"namei", "openfd"} /\ arg[p] = i})

\* All counts of the file table, of pipes and of inodes are exact.
CountsExact == TypeOK /\ RefExact /\ EndsExact /\ InodeRefs

\* The handler of a file goes on once the calls inside the file table are done:
\* it waits for ever only for a process that sleeps in a pipe.
HandlerGoesOn ==
    \A p \in Proc : (pc[p] = "drain") ~>
        (pc[p] # "drain" \/ halted \/ \E q \in Proc : pc[q] \in {"rsleep", "wsleep"})
=============================================================================
