-------------------------- MODULE MCRecoveryLocking --------------------------
(* Instances of RecoveryLocking: which processes run which kernel paths,    *)
(* and which objects memory errors hit.                                     *)
EXTENDS RcsDiscipline, RcsPaths

buf == BufFlag(0)
file == FileFlag(1)
inode == InodeFlag(0)

MCHandlers == [f \in Flags |-> HandlersOf(f)]

\* One object, many interleavings: log operations and commits.
LogPaths == {LogOp, EndOpCommit(buf)}
LogBroken == {LOG}

\* Sections inside each other, objects with different handlers.
NestedPaths == {Printf, Kalloc, PipeCall(file), ConsIntr,
                FileRead(file, inode, buf), BgetScan(buf) \o Brelse(buf),
                BgetMiss(buf) \o Brelse(buf)}
NestedBroken == {PIPE, CONS, PR, KMEM, buf}

\* A table whose nodes are replaced together.
FilePaths == {SysClose(file), SysCloseInode(file, inode), Fork(file, inode)}
FileBroken == {file}
\* Each process is about to make a call: three times about the log, or two
\* closes and one call about a file and an inode.  Which process makes which
\* call does not matter.
LogFilePaths == LogPaths \cup FilePaths
LogFileBroken == LogBroken \cup FileBroken
MCInit ==
    /\ \/ \E n \in 0..Cardinality(Proc) :
            path = [p \in Proc |-> IF Cardinality({q \in Proc : q < p}) < n
                                   THEN LogOp ELSE EndOpCommit(buf)]
       \/ \E s \in FilePaths :
            path = [p \in Proc |-> IF \E q \in Proc : q < p THEN SysClose(file) ELSE s]
    /\ InitLocks
MCSpec == MCInit /\ [][Next]_vars

\* See GiantDrained.
FtableDrained == GiantDrained(FTABLE, file)

\* A process that exits with an open file.
ExitPaths == {ExitProc(file, inode)}

\* The paths and handlers of an instance with their ledgers.
Books ==
    LET starts == (Paths \X {Start({})})
                  \cup UNION {(Handlers[f] \cup {<<Finish(f)>>}) \X {Start({f})} : f \in Broken}
        after(x) == [n \in 0..Len(x[1]) |->
                       LET b[k \in 0..n] == IF k = 0 THEN x[2] ELSE Book(b[k - 1], x[1][k])
                       IN b[n]]
        rest == UNION {{<<SubSeq(x[1], n + 1, Len(x[1])), after(x)[n]>> : n \in 0..Len(x[1])}
                       : x \in starts}
        nodes == {x \in rest : x[1] # <<>> /\ Head(x[1]).op = "node"}
    IN rest \cup {<<<<[Head(x[1]) EXCEPT !.op = "enter"]>> \o Tail(x[1]), x[2]>> : x \in nodes}
            \cup {<<<<>>, Start(o)>> : o \in {{}} \cup {{f} : f \in Broken}}

\* What the theorems assume of the paths is true of those of the kernel.
ASSUME PathsDisciplined ==
    /\ Disciplined(Books)
    /\ Broken = LogFileBroken => Judged(Books) /\ Waits(Books, FTABLE, file)
=============================================================================
