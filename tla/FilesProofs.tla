---------------------------- MODULE FilesProofs -----------------------------
(***************************************************************************)
(* Theorems about pipes and the file table: the ring of a pipe keeps the   *)
(* order of its bytes; nobody sleeps in a pipe without a reason; the       *)
(* reference count of a file is the number of descriptors and calls that   *)
(* have it; an end of a pipe is open as long as a file of it is; and an    *)
(* inode has the references of its open files and of the opens in progress.*)
(***************************************************************************)
EXTENDS Files, FiniteSetTheorems, NaturalsInduction, WellFoundedInduction, TLAPS

FileRec == [type : {"none", "pipe", "inode"}, rd : BOOLEAN, wr : BOOLEAN,
            pipe : Pipe \cup {None}, ip : Inode \cup {None}, ref : Nat]
PipeRec == [used : BOOLEAN, readopen : BOOLEAN, writeopen : BOOLEAN,
            nread : Nat, nwrite : Nat, data : [0..(PIPESIZE - 1) -> Nat]]
EndRec == [pipe : Pipe \cup {None}, wr : BOOLEAN]

\* TypeOK without the caps on calls and memory errors.
Types ==
    /\ ofile \in [Proc -> [Fd -> File \cup {None}]]
    /\ file \in [File -> FileRec]
    /\ pipe \in [Pipe -> PipeRec]
    /\ ref \in [Inode -> Int]
    /\ pc \in [Proc -> Pc]
    /\ cur \in [Proc -> File \cup {None}] /\ cur2 \in [Proc -> File \cup {None}]
    /\ arg \in [Proc -> Nat] /\ ff \in [Proc -> EndRec]
    /\ exiting \subseteq Proc /\ killed \subseteq Proc /\ halted \in BOOLEAN
    /\ gone \subseteq Pipe /\ hurt \subseteq Pipe /\ unsaid \subseteq Pipe
    /\ orphan \subseteq File /\ misjudged \in BOOLEAN

\* A file that is an end of a pipe points to it.
EndInv == \A f \in File : file[f].type = "pipe" => file[f].pipe \in Pipe

\* What a process has where it is: a file, an inode, a pipe and bytes to move.
PlaceInv ==
    \A p \in Proc :
        /\ pc[p] \in (InFtable \ {"exit"}) \cup {"drain"} => cur[p] \in File
        /\ pc[p] \in {"namei", "openfd"} => arg[p] \in Inode
        /\ pc[p] \in InPipe => ff[p].pipe \in Pipe
        /\ pc[p] \in {"read", "rsleep", "write", "wsleep"} => arg[p] >= 1

\* A pipe with an open end has its page.
OpenInv == \A a \in Pipe : pipe[a].readopen \/ pipe[a].writeopen => pipe[a].used

Shape == Types /\ EndInv /\ PlaceInv /\ OpenInv
Inv == Shape /\ InOrder /\ SleepsForReason

-----------------------------------------------------------------------------
(* Searches. *)

\* A set of slots, descriptors or pages that is not empty has a least element.
LEMMA LeastNumber ==
    ASSUME NEW S, S \subseteq Nat, S # {}
    PROVE  \E m \in S : \A k \in S : m <= k
<1>1. \E m \in S : \A k \in S : ~ (<<k, m>> \in OpToRel(<, Nat))
  BY WFMin, NatLessThanWellFounded
<1>2. PICK m \in S : \A k \in S : ~ (<<k, m>> \in OpToRel(<, Nat))
  BY <1>1
<1>3. \A k \in S : ~ (k < m)
  BY <1>2 DEF OpToRel
<1>4. QED BY <1>3

\* The loops over a table find an element of it.
LEMMA SearchFinds ==
    ASSUME NEW k \in Nat, NEW S, S \subseteq 1..k, S # {}
    PROVE  Min(S) \in S /\ Max(S) \in S
<1>1. Min(S) \in S
  <2>1. \E m \in S : \A y \in S : m <= y
    <3>1. S \subseteq Nat OBVIOUS
    <3>2. QED BY <3>1, LeastNumber
  <2>2. QED BY <2>1 DEF Min
<1>2. Max(S) \in S
  <2> DEFINE T == {k - x : x \in S}
  <2>1. T \subseteq Nat /\ T # {}
    <3>1. \A x \in S : x \in 1..k OBVIOUS
    <3>2. \A x \in S : k - x \in Nat BY <3>1
    <3>3. QED BY <3>2
  <2>2. PICK t \in T : \A y \in T : t <= y BY <2>1, LeastNumber
  <2>3. PICK m \in S : t = k - m BY <2>2
  <2>4. \A y \in S : m >= y
    <3> TAKE y \in S
    <3>1. k - m <= k - y BY <2>2, <2>3
    <3>2. QED BY <3>1
  <2>5. QED BY <2>4 DEF Max
<1>3. QED BY <1>1, <1>2

\* filealloc finds a slot or none.
LEMMA FreeSlotFinds == FreeSlot \in File \cup {None}
<1> DEFINE S == {f \in File : file[f].ref = 0}
<1>1. CASE S = {} BY <1>1 DEF FreeSlot
<1>2. CASE S # {}
  <2>1. Min(S) \in S BY <1>2, SearchFinds, FilesAssumption DEF File
  <2>2. QED BY <1>2, <2>1 DEF FreeSlot
<1>3. QED BY <1>1, <1>2

\* The file handler's search for the other end of a pipe.
LEMMA LastEndFinds ==
    ASSUME NEW f, NEW wr
    PROVE  LET g == LastEnd(f, wr) IN g # None => g \in File /\ file[g].type = "pipe"
<1> DEFINE S == {g \in File \ {f} : file[g].type = "pipe" /\ file[g].wr = wr}
<1>1. CASE S = {} BY <1>1 DEF LastEnd
<1>2. CASE S # {}
  <2>1. Max(S) \in S BY <1>2, SearchFinds, FilesAssumption DEF File
  <2>2. LastEnd(f, wr) = Max(S) BY <1>2 DEF LastEnd
  <2>3. QED BY <2>1, <2>2
<1>3. QED BY <1>1, <1>2

\* The file handler's search for the inode of the broken file.
LEMMA InodeOfFinds == ASSUME NEW f PROVE InodeOf(f) \in Inode \cup {None}
<1> DEFINE match(i) == Cardinality({g \in File \ {f} : file[g].type # "none" /\ file[g].ip = i})
           S == {i \in Inode : ref[i] >= 1 /\ ref[i] # match(i)}
<1>1. CASE S = {} BY <1>1 DEF InodeOf
<1>2. CASE S # {}
  <2>1. S \subseteq 1..NINODE /\ NINODE \in Nat BY FilesAssumption DEF Inode
  <2> HIDE DEF S
  <2>2. Min(S) \in S BY <1>2, <2>1, SearchFinds
  <2>3. Min(S) \in Inode BY <2>1, <2>2 DEF Inode
  <2>4. InodeOf(f) = Min(S) BY <1>2 DEF InodeOf, S
  <2>5. QED BY <2>3, <2>4
<1>3. QED BY <1>1, <1>2

\* A free page for a pipe.
LEMMA FreePageFinds == FreePages # {} => Min(FreePages) \in FreePages
BY SearchFinds, FilesAssumption DEF FreePages, Pipe

\* exit closes a descriptor that is open.
LEMMA OpenFdFinds ==
    ASSUME NEW p, OpenFds(p) # {}
    PROVE  Min(OpenFds(p)) \in OpenFds(p)
BY SearchFinds, FilesAssumption DEF OpenFds, Fd

\* The pipe handler's search over the processes and their descriptors.
LEMMA FirstFinds ==
    ASSUME NEW S, S \subseteq Proc \X Fd, S # {}
    PROVE  First(S) \in S
<1> DEFINE P == {x[1] : x \in S}
<1>1. P \subseteq Nat /\ P # {} BY DEF Proc
<1>2. PICK q \in P : \A r \in P : q <= r BY <1>1, LeastNumber
<1> DEFINE D == {x[2] : x \in {y \in S : y[1] = q}}
<1>3. D \subseteq Nat /\ D # {} BY DEF Fd
<1>4. PICK d \in D : \A e \in D : d <= e BY <1>3, LeastNumber
<1>5. PICK x \in S : x[1] = q /\ x[2] = d OBVIOUS
<1>6. \A y \in S : x[1] < y[1] \/ (x[1] = y[1] /\ x[2] <= y[2])
  <2> TAKE y \in S
  <2>1. x[1] <= y[1] BY <1>2, <1>5
  <2>2. y[1] = x[1] => x[2] <= y[2] BY <1>4, <1>5
  <2>3. x[1] \in Nat /\ y[1] \in Nat BY <1>1
  <2>4. QED BY <2>1, <2>2, <2>3
<1>7. QED BY <1>6 DEF First

-----------------------------------------------------------------------------
(* The ring. *)

\* Division with remainder.
LEMMA Division ==
    ASSUME NEW i \in Nat, NEW n \in Nat \ {0}
    PROVE  i = n * (i \div n) + (i % n) /\ i \div n \in Int /\ i % n \in 0..(n - 1)
OBVIOUS

\* Two bytes of a pipe that can be in the ring together have different places.
LEMMA PlacesDiffer ==
    ASSUME NEW i \in Nat, NEW j \in Nat, NEW n \in Nat \ {0},
           i < j, j - i < n, i % n = j % n
    PROVE  FALSE
<1>1. PICK x \in Int : i = n * x + (i % n) BY Division
<1>2. PICK y \in Int : j = n * y + (j % n) BY Division
<1>3. PICK r \in Int : i % n = r /\ j % n = r BY Division
<1>4. i = n * x + r /\ j = n * y + r BY <1>1, <1>2, <1>3
<1>5. j - i = n * (y - x) BY ONLY <1>4, i \in Nat, j \in Nat, n \in Nat, x \in Int, y \in Int, r \in Int
<1>6. CASE y - x <= 0
  <2>1. n * (y - x) <= 0 BY ONLY <1>6, n \in Nat, x \in Int, y \in Int
  <2>2. QED BY <1>5, <2>1
<1>7. CASE y - x >= 1
  <2>1. n * (y - x) >= n BY ONLY <1>7, n \in Nat, x \in Int, y \in Int
  <2>2. QED BY <1>5, <2>1
<1>8. QED BY <1>6, <1>7

\* What InOrder says of one pipe.
Ordered(pi) ==
    /\ pi.nwrite - pi.nread \in 0..PIPESIZE
    /\ \A k \in pi.nread..(pi.nwrite - 1) : pi.data[k % PIPESIZE] = k

\* pipewrite puts k bytes behind the ones that are there, over the end of the
\* ring if need be, and overwrites none.
LEMMA PutOrdered ==
    ASSUME NEW pi \in PipeRec, Ordered(pi), NEW k \in Nat,
           k <= PIPESIZE - (pi.nwrite - pi.nread)
    PROVE  /\ Put(pi, k) \in PipeRec /\ Ordered(Put(pi, k))
           /\ Put(pi, k) = [pi EXCEPT !.nwrite = pi.nwrite + k, !.data = Put(pi, k).data]
<1> DEFINE w == pi.nwrite
           r == pi.nread
           N == PIPESIZE
           S(i) == {j \in w..(w + k - 1) : j % N = i}
           data == [i \in DOMAIN pi.data |-> IF S(i) = {} THEN pi.data[i] ELSE Max(S(i))]
<1>1. w \in Nat /\ r \in Nat /\ N \in Nat \ {0} /\ DOMAIN pi.data = 0..(N - 1)
  BY FilesAssumption DEF PipeRec
<1>2. Put(pi, k) = [pi EXCEPT !.nwrite = w + k, !.data = data]
  BY DEF Put, PipeRec
<1>3. r <= w /\ w - r <= N /\ k <= N - (w - r) BY <1>1 DEF Ordered
<1>4. \A j \in w..(w + k - 1) : Max(S(j % N)) = j
  <2> TAKE j \in w..(w + k - 1)
  <2>1. j \in Nat BY <1>1
  <2>2. ASSUME NEW h \in S(j % N) PROVE h = j
    <3>1. h \in Nat /\ h \in w..(w + k - 1) /\ h % N = j % N BY <1>1
    <3> HIDE DEF S, data, w, r, N
    <3>2. h - j < N /\ j - h < N BY <1>1, <1>3, <2>1, <3>1
    <3>3. ~(h < j) BY <3>1, <3>2, <2>1, <1>1, PlacesDiffer
    <3>4. ~(j < h) BY <3>1, <3>2, <2>1, <1>1, PlacesDiffer
    <3>5. QED BY <3>1, <3>3, <3>4, <2>1
  <2>3. j \in S(j % N) OBVIOUS
  <2> HIDE DEF S
  <2>4. S(j % N) = {j} BY <2>2, <2>3
  <2>5. QED BY <2>1, <2>4 DEF Max
<1>5. \A j \in r..(w - 1) : S(j % N) = {}
  <2> SUFFICES ASSUME NEW j \in r..(w - 1), NEW h \in w..(w + k - 1), h % N = j % N PROVE FALSE
    OBVIOUS
  <2>1. j \in Nat /\ h \in Nat BY <1>1
  <2> HIDE DEF S, data, w, r, N
  <2>2. j < h /\ h - j < N BY <1>1, <1>3, <2>1
  <2>3. QED BY <2>1, <2>2, <1>1, PlacesDiffer
<1>6. \A j \in Nat : j % N \in 0..(N - 1) BY <1>1, Division
<1>7. \A j \in r..(w + k - 1) : data[j % N] = j
  <2> TAKE j \in r..(w + k - 1)
  <2>0. j \in Nat BY <1>1
  <2>1. j \in Nat /\ j % N \in DOMAIN pi.data
    <3> HIDE DEF data
    <3>1. QED BY <2>0, <1>1, <1>6
  <2>2. CASE j < w
    <3>1. j \in r..(w - 1) BY <2>1, <2>2, <1>1
    <3>2. pi.data[j % N] = j BY <3>1 DEF Ordered
    <3>3. S(j % N) = {} BY <3>1, <1>5
    <3>4. QED BY <2>1, <3>2, <3>3
  <2>3. CASE j >= w
    <3>1. j \in w..(w + k - 1) BY <2>1, <2>3, <1>1
    <3>2. j \in S(j % N) BY <3>1
    <3>3. QED BY <2>1, <3>1, <3>2, <1>4
  <2>4. QED BY <2>1, <2>2, <2>3, <1>1
<1>8. data \in [0..(N - 1) -> Nat]
  <2> SUFFICES ASSUME NEW i \in 0..(N - 1) PROVE data[i] \in Nat
    BY <1>1
  <2>1. CASE S(i) = {} BY <1>1, <2>1 DEF PipeRec
  <2>2. CASE S(i) # {}
    <3>1. PICK j \in w..(w + k - 1) : j % N = i BY <2>2
    <3>2. Max(S(i)) = j BY <1>4, <3>1
    <3>3. j \in Nat BY <1>1
    <3>4. QED BY <1>1, <2>2, <3>2, <3>3
  <2>3. QED BY <2>1, <2>2
<1> HIDE DEF data
<1>9. w + k \in Nat BY <1>1
<1>10. Put(pi, k).data = data /\ Put(pi, k).nwrite = w + k /\ Put(pi, k).nread = r
  BY <1>2 DEF PipeRec
<1>11. Put(pi, k) \in PipeRec BY <1>2, <1>8, <1>9 DEF PipeRec
<1>12. w + k - r \in 0..N
  <2> HIDE DEF w, r, N
  <2>1. QED BY <1>1, <1>3
<1>13. PICK e \in Nat : e = w + k BY <1>9
<1>14. PICK new : new = Put(pi, k) OBVIOUS
<1>15. new.nwrite = e /\ new.nread = r /\ new.data = data BY <1>10, <1>13, <1>14
<1>16. e - r \in 0..N /\ \A j \in r..(e - 1) : data[j % N] = j
  <2>1. e - r \in 0..N BY <1>1, <1>12, <1>13
  <2>2. r..(e - 1) = r..(w + k - 1) BY <1>1, <1>13
  <2> HIDE DEF w, r, N
  <2>3. QED BY <1>7, <2>1, <2>2
<1>17. Ordered(new) BY ONLY <1>15, <1>16 DEF Ordered
<1>18. QED BY <1>2, <1>10, <1>11, <1>14, <1>17

-----------------------------------------------------------------------------
(* Shape. *)

\* The types and pipes of the files are what they were.
SameEnds == \A g \in File : file'[g].type = file[g].type /\ file'[g].pipe = file[g].pipe

\* A count of references that changes leaves the rest of the table alone.
LEMMA CountSet ==
    ASSUME file \in [File -> FileRec], NEW f, NEW n \in Nat,
           file' = [file EXCEPT ![f].ref = n]
    PROVE  file' \in [File -> FileRec] /\ SameEnds
<1>1. ASSUME NEW g \in File
      PROVE  /\ file'[g] \in FileRec
             /\ file'[g].type = file[g].type /\ file'[g].pipe = file[g].pipe
  <2>1. file'[g] = IF g = f THEN [file[g] EXCEPT !.ref = n] ELSE file[g] BY <1>1
  <2>2. file[g] \in FileRec BY <1>1
  <2>3. QED BY ONLY <2>1, <2>2, n \in Nat DEF FileRec
<1>2. QED BY <1>1 DEF SameEnds

\* A step that changes no type and no pipe of a file keeps EndInv.
LEMMA SameEndInv == ASSUME EndInv, SameEnds PROVE EndInv'
BY DEF EndInv, SameEnds

\* sys_pipe's first filealloc.
LEMMA SysPipeShape == ASSUME Shape, NEW p \in Proc, SysPipe(p) PROVE Shape'
<1>1. file' \in [File -> FileRec] /\ SameEnds
  <2>1. CASE FreeSlot = None BY <2>1 DEF SysPipe, Shape, Types, SameEnds
  <2>2. CASE FreeSlot # None
    <3>1. file' = [file EXCEPT ![FreeSlot].ref = 1] BY <2>2 DEF SysPipe, Filealloc
    <3>2. QED BY <3>1, CountSet, Zenon DEF Shape, Types
  <2>3. QED BY <2>1, <2>2
<1>2. Types' BY ZenonT(60), <1>1, FreeSlotFinds DEF SysPipe, StartCall, At, Goto, Shape, Types, Pc, InFtable, history
<1>3. EndInv' BY <1>1, SameEndInv DEF Shape
<1>4. PlaceInv' /\ OpenInv'
  BY FreeSlotFinds DEF SysPipe, StartCall, At, Goto, Shape, Types, PlaceInv, OpenInv, InPipe, InFtable
<1>5. QED BY <1>2, <1>3, <1>4 DEF Shape

\* pipealloc's second filealloc.
LEMMA PipeallocShape == ASSUME Shape, NEW p \in Proc, Pipealloc(p) PROVE Shape'
<1>1. file' \in [File -> FileRec] /\ SameEnds
  <2>1. CASE FreeSlot = None BY <2>1 DEF Pipealloc, Shape, Types, SameEnds
  <2>2. CASE FreeSlot # None
    <3>1. file' = [file EXCEPT ![FreeSlot].ref = 1] BY <2>2 DEF Pipealloc, Filealloc
    <3>2. QED BY <3>1, CountSet, Zenon DEF Shape, Types
  <2>3. QED BY <2>1, <2>2
<1>2. Types' BY <1>1, FreeSlotFinds DEF Pipealloc, StartCall, At, Goto, Shape, Types, Pc, InFtable, history
<1>3. EndInv' BY <1>1, SameEndInv DEF Shape
<1>4. PlaceInv' /\ OpenInv'
  BY FreeSlotFinds DEF Pipealloc, StartCall, At, Goto, Shape, Types, PlaceInv, OpenInv, InPipe, InFtable
<1>5. QED BY <1>2, <1>3, <1>4 DEF Shape

\* sys_open as far as namei.
LEMMA SysOpenShape ==
    ASSUME Shape, NEW p \in Proc, NEW i \in Inode, SysOpen(p, i)
    PROVE  Shape'
<1>0. i \in Nat /\ ref' \in [Inode -> Int]
  <2>1. i \in Nat BY DEF Inode
  <2>2. ref' \in [Inode -> Int] BY DEF SysOpen, Shape, Types
  <2>3. QED BY <2>1, <2>2
<1>1. Types' BY <1>0 DEF SysOpen, StartCall, At, Goto, Shape, Types, Pc, InFtable, InPipe, history
<1>2. EndInv' /\ OpenInv' BY DEF SysOpen, Inode, Shape, EndInv, OpenInv
<1>3. PlaceInv'
  BY DEF SysOpen, StartCall, At, Goto, Inode, Shape, Types, PlaceInv, InPipe, InFtable
<1>4. QED BY <1>1, <1>2, <1>3 DEF Shape

\* sys_close frees the descriptor.
LEMMA SysCloseShape ==
    ASSUME Shape, NEW p \in Proc, NEW d \in Fd, SysClose(p, d)
    PROVE  Shape'
<1>1. Types' BY DEF SysClose, StartCall, At, Goto, Shape, Types, Pc, InFtable, InPipe, history
<1>2. EndInv' /\ OpenInv' BY DEF SysClose, Shape, EndInv, OpenInv
<1>3. PlaceInv'
  BY DEF SysClose, StartCall, At, Goto, Shape, Types, PlaceInv, InPipe, InFtable
<1>4. QED BY <1>1, <1>2, <1>3 DEF Shape

\* exit begins.
LEMMA ExitShape ==
    ASSUME Shape, NEW p \in Proc, Exit(p)
    PROVE  Shape'
<1>1. Types' BY DEF Exit, StartCall, At, Goto, tables, locals, Shape, Types, Pc, InFtable, InPipe, history
<1>2. EndInv' /\ OpenInv' BY DEF Exit, tables, locals, Shape, EndInv, OpenInv
<1>3. PlaceInv'
  BY DEF Exit, StartCall, At, Goto, tables, locals, Shape, Types, PlaceInv, InPipe, InFtable
<1>4. QED BY <1>1, <1>2, <1>3 DEF Shape

\* kill makes a sleeper runnable.
LEMMA KillShape ==
    ASSUME Shape, NEW p \in Proc, NEW q \in Proc, Kill(p, q)
    PROVE  Shape'
<1>1. Types' BY DEF Kill, StartCall, At, Goto, tables, locals, Shape, Types, Pc, InFtable, InPipe, history
<1>2. EndInv' /\ OpenInv' BY DEF Kill, tables, locals, Shape, EndInv, OpenInv
<1>3. PlaceInv'
  BY DEF Kill, StartCall, At, Goto, tables, locals, Shape, Types, PlaceInv, InPipe, InFtable
<1>4. QED BY <1>1, <1>2, <1>3 DEF Shape

\* fileread and filewrite find a pipe and its end.
LEMMA SysRwShape ==
    ASSUME Shape, NEW p \in Proc, NEW d \in Fd, NEW n \in 1..MaxWrite, SysRw(p, d, n)
    PROVE  Shape'
<1>0. ff' \in [Proc -> EndRec] /\ arg' \in [Proc -> Nat] /\ n >= 1 /\ ff'[p].pipe \in Pipe
  BY FilesAssumption DEF SysRw, Shape, Types, EndInv, FileRec, EndRec
<1>1. Types' BY <1>0 DEF SysRw, StartCall, At, Goto, tables, Shape, Types, Pc, InFtable, InPipe, history
<1>2. EndInv' /\ OpenInv' BY DEF SysRw, tables, Shape, EndInv, OpenInv
<1>3. PlaceInv'
  BY <1>0 DEF SysRw, StartCall, At, Goto, tables, Shape, Types, PlaceInv, InPipe, InFtable
<1>4. QED BY <1>1, <1>2, <1>3 DEF Shape

\* sys_open's filealloc.
LEMMA OpenAllocShape == ASSUME Shape, NEW p \in Proc, OpenAlloc(p) PROVE Shape'
<1>1. CASE FreeSlot = None
  <2>1. UNCHANGED <<ofile, file, pipe, gone, exiting, killed, halted, history>> /\ Return(p)
    BY <1>1 DEF OpenAlloc
  <2>2. ref' \in [Inode -> Int] BY <1>1 DEF OpenAlloc, Shape, Types
  <2>3. QED
    BY <2>1, <2>2 DEF Shape, Types, EndInv, PlaceInv, OpenInv, Return, Goto, Pc, InPipe, InFtable,
                      EndRec, NoPipe, history
<1>2. CASE FreeSlot # None
  <2>1. /\ UNCHANGED <<ofile, pipe, gone, exiting, killed, halted, history, ref, cur2, ff, arg>>
        /\ cur' = [cur EXCEPT ![p] = FreeSlot] /\ pc' = [pc EXCEPT ![p] = "openfd"]
        /\ pc[p] = "namei"
    BY <1>2 DEF OpenAlloc, Goto, At
  <2>2. file' = [file EXCEPT ![FreeSlot].ref = 1] BY <1>2 DEF OpenAlloc, Filealloc
  <2>3. file' \in [File -> FileRec] /\ SameEnds BY <2>2, CountSet, Zenon DEF Shape, Types
  <2>4. EndInv' BY <2>3, SameEndInv DEF Shape
  <2>5. FreeSlot \in File BY <1>2, FreeSlotFinds
  <2>6. Types' /\ PlaceInv' /\ OpenInv'
    BY <2>1, <2>3, <2>5 DEF Shape, Types, PlaceInv, OpenInv, Pc, InPipe, InFtable, history
  <2>7. QED BY <2>4, <2>6 DEF Shape
<1>3. QED BY <1>1, <1>2

\* sys_open has a descriptor and sets up the file, or gives both up.
LEMMA OpenFdShape == ASSUME Shape, NEW p \in Proc, OpenFd(p) PROVE Shape'
<1>1. cur[p] \in File /\ arg[p] \in Inode BY DEF OpenFd, At, Shape, PlaceInv, InFtable
<1>2. file' \in [File -> FileRec] /\ EndInv'
  <2>1. CASE FreeFd(p) = {}
    <3>1. file' = [file EXCEPT ![cur[p]].ref = 0] BY <2>1 DEF OpenFd
    <3>2. QED BY <3>1, CountSet, SameEndInv, Zenon DEF Shape, Types
  <2>2. CASE FreeFd(p) # {}
    <3>1. PICK new : new = [file[cur[p]] EXCEPT !.type = "inode", !.ip = arg[p], !.rd = TRUE, !.wr = TRUE]
      OBVIOUS
    <3>2. file' = [file EXCEPT ![cur[p]] = new] BY <2>2, <3>1 DEF OpenFd
    <3>3. file[cur[p]] \in FileRec BY <1>1 DEF Shape, Types
    <3>4. new \in FileRec /\ new.type = "inode" BY <1>1, <3>1, <3>3 DEF FileRec
    <3>5. QED BY <3>2, <3>4 DEF Shape, Types, EndInv
  <2>3. QED BY <2>1, <2>2
<1>3. ofile' \in [Proc -> [Fd -> File \cup {None}]]
  <2>1. CASE FreeFd(p) = {} BY <2>1 DEF OpenFd, Shape, Types
  <2>2. CASE FreeFd(p) # {}
    <3>1. ofile' = [ofile EXCEPT ![p] = [ofile[p] EXCEPT ![Min(FreeFd(p))] = cur[p]]]
      BY <2>2 DEF OpenFd
    <3>2. ofile[p] \in [Fd -> File \cup {None}] BY DEF Shape, Types
    <3>3. [ofile[p] EXCEPT ![Min(FreeFd(p))] = cur[p]] \in [Fd -> File \cup {None}]
      BY <1>1, <3>2
    <3>4. QED BY <3>1, <3>3 DEF Shape, Types
  <2>3. QED BY <2>1, <2>2
<1>4. ref' \in [Inode -> Int] BY DEF OpenFd, Shape, Types
<1>5. UNCHANGED <<pipe, gone, exiting, killed, halted, history>> /\ Return(p) BY DEF OpenFd
<1>6. Types' /\ PlaceInv' /\ OpenInv'
  BY <1>2, <1>3, <1>4, <1>5
     DEF Shape, Types, PlaceInv, OpenInv, Return, Goto, Pc, InPipe, InFtable, EndRec, NoPipe, history
<1>7. QED BY <1>2, <1>6 DEF Shape

\* fdalloc and filedup.
LEMMA SysDupShape ==
    ASSUME Shape, NEW p \in Proc, NEW d \in Fd, SysDup(p, d)
    PROVE  Shape'
<1>1. PICK f \in File : f = ofile[p][d] BY DEF SysDup, Shape, Types
<1>2. file' \in [File -> FileRec] /\ SameEnds
  <2>1. CASE file[f].ref < 1
    <3>1. file' = file BY <2>1, <1>1 DEF SysDup
    <3>2. QED BY <3>1 DEF Shape, Types, SameEnds
  <2>2. CASE ~(file[f].ref < 1)
    <3>1. file[f].ref \in Nat BY DEF Shape, Types, FileRec
    <3>2. PICK n \in Nat : n = file[f].ref + 1 BY <3>1
    <3>3. file' = [file EXCEPT ![f].ref = n] BY <1>1, <2>2, <3>2 DEF SysDup
    <3>4. QED BY <3>3, CountSet, Zenon DEF Shape, Types
  <2>3. QED BY <2>1, <2>2
<1>3. ofile' \in [Proc -> [Fd -> File \cup {None}]]
  <2>1. ofile' = [ofile EXCEPT ![p] = [ofile[p] EXCEPT ![Min(FreeFd(p))] = f]] BY <1>1 DEF SysDup
  <2>2. ofile[p] \in [Fd -> File \cup {None}] BY DEF Shape, Types
  <2>3. [ofile[p] EXCEPT ![Min(FreeFd(p))] = f] \in [Fd -> File \cup {None}] BY <2>2
  <2>4. QED BY <2>1, <2>3 DEF Shape, Types
<1>4. EndInv' BY <1>2, SameEndInv DEF Shape
<1>5. UNCHANGED <<pipe, ref, gone, calls, killed, history>> /\ halted' \in BOOLEAN
  BY DEF SysDup, Halt, Shape, Types
<1>6. Types' /\ PlaceInv' /\ OpenInv'
  BY <1>2, <1>3, <1>5 DEF Shape, Types, PlaceInv, OpenInv, calls, locals, history
<1>7. QED BY <1>4, <1>6 DEF Shape

\* exit's loop takes the next open descriptor.
LEMMA ExitLoopShape == ASSUME Shape, NEW p \in Proc, ExitLoop(p) PROVE Shape'
<1>1. UNCHANGED <<ofile, file, pipe, ref, gone, cur2, ff, halted, history>> /\ pc[p] = "exit"
  BY DEF ExitLoop, tables, At
<1>2. CASE OpenFds(p) = {}
  <2>1. /\ pc' = [pc EXCEPT ![p] = "unused"] /\ killed' = killed \ {p} /\ exiting' = exiting \ {p}
        /\ UNCHANGED <<cur, arg>>
    BY <1>2 DEF ExitLoop, Goto
  <2>2. QED
    BY <1>1, <2>1 DEF Shape, Types, EndInv, PlaceInv, OpenInv, Pc, InPipe, InFtable, history
<1>3. CASE OpenFds(p) # {}
  <2>1. PICK d \in Fd : d = Min(OpenFds(p)) /\ ofile[p][d] # None
    BY <1>3, OpenFdFinds DEF OpenFds
  <2>2. /\ arg' = [arg EXCEPT ![p] = d] /\ cur' = [cur EXCEPT ![p] = ofile[p][d]]
        /\ pc' = [pc EXCEPT ![p] = "close"] /\ UNCHANGED <<killed, exiting>>
    BY <1>3, <2>1 DEF ExitLoop, Goto
  <2>3. ofile[p][d] \in File BY <2>1 DEF Shape, Types
  <2>4. d \in Nat BY DEF Fd
  <2>5. QED
    BY <1>1, <2>2, <2>3, <2>4
       DEF Shape, Types, EndInv, PlaceInv, OpenInv, Pc, InPipe, InFtable, history
<1>4. QED BY <1>2, <1>3

\* fork duplicates every open file.
LEMMA ForkShape ==
    ASSUME Shape, NEW p \in Proc, NEW c \in Proc, Fork(p, c)
    PROVE  Shape'
<1>1. /\ UNCHANGED <<pipe, ref, gone, locals, exiting, killed, halted, history>>
      /\ ofile' = [ofile EXCEPT ![c] = ofile[p]] /\ pc' = [pc EXCEPT ![c] = "user"]
  BY DEF Fork, Goto
<1>2. file' \in [File -> FileRec] /\ SameEnds
  <2>1. ASSUME NEW f \in File
        PROVE  /\ file'[f] \in FileRec
               /\ file'[f].type = file[f].type /\ file'[f].pipe = file[f].pipe
    <3>1. Cardinality({d \in Fd : ofile[p][d] = f}) \in Nat
      <4>1. IsFiniteSet(Fd) BY FS_Interval, FilesAssumption DEF Fd
      <4>2. QED BY <4>1, FS_Subset, FS_CardinalityType
    <3>2. file[f] \in FileRec BY DEF Shape, Types
    <3>3. PICK n \in Nat : n = file[f].ref + Cardinality({d \in Fd : ofile[p][d] = f})
      <4>1. PICK k \in Nat : k = Cardinality({d \in Fd : ofile[p][d] = f}) BY <3>1
      <4>2. PICK r \in Nat : r = file[f].ref BY <3>2 DEF FileRec
      <4>3. r + k \in Nat OBVIOUS
      <4>4. QED BY <4>1, <4>2, <4>3
    <3>4. file'[f] = [file[f] EXCEPT !.ref = n] BY <3>3 DEF Fork
    <3>5. QED BY ONLY <3>2, <3>4, n \in Nat DEF FileRec
  <2>2. QED BY <2>1 DEF Fork, SameEnds
<1>3. EndInv' BY <1>2, SameEndInv DEF Shape
<1>4. Types' /\ PlaceInv' /\ OpenInv'
  BY <1>1, <1>2 DEF Shape, Types, PlaceInv, OpenInv, Pc, InPipe, InFtable, locals, history
<1>5. QED BY <1>3, <1>4 DEF Shape

\* pipealloc sets up the ring and both files, sys_pipe the descriptors.
LEMMA PipeFdsShape == ASSUME Shape, NEW p \in Proc, PipeFds(p) PROVE Shape'
<1>0. /\ UNCHANGED <<ref, gone, ff, arg, exiting, killed, halted, history>>
      /\ pc[p] = "pipefds" /\ cur[p] \in File
  BY DEF PipeFds, At, Shape, PlaceInv, InFtable
<1>1. CASE Goto(p, "close") /\ UNCHANGED <<ofile, file, pipe, cur, cur2>>
  BY <1>0, <1>1
     DEF Shape, Types, EndInv, PlaceInv, OpenInv, Goto, Pc, InPipe, InFtable, history
<1>2. ASSUME NEW a \in Pipe, 
             pipe' = [pipe EXCEPT ![a] = [FreePipe EXCEPT !.used = TRUE, !.readopen = TRUE,
                                                          !.writeopen = TRUE]],
             file' = [file EXCEPT ![cur[p]] = [@ EXCEPT !.type = "pipe", !.rd = TRUE,
                                                        !.wr = FALSE, !.pipe = a],
                                  ![cur2[p]] = [@ EXCEPT !.type = "pipe", !.rd = FALSE,
                                                         !.wr = TRUE, !.pipe = a]]
      PROVE  /\ pipe' \in [Pipe -> PipeRec] /\ OpenInv'
             /\ file' \in [File -> FileRec] /\ EndInv'
  <2>1. PICK new : new = [FreePipe EXCEPT !.used = TRUE, !.readopen = TRUE, !.writeopen = TRUE]
    OBVIOUS
  <2>2. new \in PipeRec /\ new.used BY <2>1, FilesAssumption DEF FreePipe, PipeRec
  <2>3. pipe' = [pipe EXCEPT ![a] = new] BY <1>2, <2>1
  <2>4. ASSUME NEW g \in File
        PROVE  file'[g] \in FileRec /\ (file'[g].type = "pipe" => file'[g].pipe \in Pipe)
    <3>1. \/ file'[g] = file[g]
          \/ file'[g] = [file[g] EXCEPT !.type = "pipe", !.rd = TRUE, !.wr = FALSE, !.pipe = a]
          \/ file'[g] = [file[g] EXCEPT !.type = "pipe", !.rd = FALSE, !.wr = TRUE, !.pipe = a]
          \/ file'[g] = [[file[g] EXCEPT !.type = "pipe", !.rd = TRUE, !.wr = FALSE, !.pipe = a]
                                 EXCEPT !.type = "pipe", !.rd = FALSE, !.wr = TRUE, !.pipe = a]
      BY <1>2 DEF Shape, Types
    <3>2. file[g] \in FileRec /\ (file[g].type = "pipe" => file[g].pipe \in Pipe)
      BY DEF Shape, Types, EndInv
    <3>3. QED BY ONLY ZenonT(60), <3>1, <3>2, a \in Pipe DEF FileRec
  <2>5. file' \in [File -> FileRec] BY <1>2, <2>4 DEF Shape, Types
  <2>6. QED BY <2>2, <2>3, <2>4, <2>5 DEF Shape, Types, EndInv, OpenInv
<1>3. CASE ~(Goto(p, "close") /\ UNCHANGED <<ofile, file, pipe, cur, cur2>>)
  <2>1. PICK a \in Pipe :
          /\ pipe' = [pipe EXCEPT ![a] = [FreePipe EXCEPT !.used = TRUE, !.readopen = TRUE,
                                                          !.writeopen = TRUE]]
          /\ file' = [file EXCEPT ![cur[p]] = [@ EXCEPT !.type = "pipe", !.rd = TRUE,
                                                        !.wr = FALSE, !.pipe = a],
                                  ![cur2[p]] = [@ EXCEPT !.type = "pipe", !.rd = FALSE,
                                                         !.wr = TRUE, !.pipe = a]]
          /\ \/ Goto(p, "close") /\ UNCHANGED <<ofile, cur, cur2>>
             \/ /\ LET d0 == Min(FreeFd(p))
                       d1 == Min(FreeFd(p) \ {d0})
                   IN ofile' = [ofile EXCEPT ![p] = [@ EXCEPT ![d0] = cur[p], ![d1] = cur2[p]]]
                /\ Goto(p, "user")
                /\ cur' = [cur EXCEPT ![p] = None] /\ cur2' = [cur2 EXCEPT ![p] = None]
    BY <1>3 DEF PipeFds
  <2>2. pipe' \in [Pipe -> PipeRec] /\ OpenInv' /\ file' \in [File -> FileRec] /\ EndInv'
    BY <1>2, <2>1
  <2>3. CASE Goto(p, "close") /\ UNCHANGED <<ofile, cur, cur2>>
    BY <1>0, <2>2, <2>3 DEF Shape, Types, PlaceInv, Goto, Pc, InPipe, InFtable, history
  <2>4. CASE /\ LET d0 == Min(FreeFd(p))
                    d1 == Min(FreeFd(p) \ {d0})
                IN ofile' = [ofile EXCEPT ![p] = [@ EXCEPT ![d0] = cur[p], ![d1] = cur2[p]]]
             /\ Goto(p, "user")
             /\ cur' = [cur EXCEPT ![p] = None] /\ cur2' = [cur2 EXCEPT ![p] = None]
    <3>1. PICK d0, d1 :
            ofile' = [ofile EXCEPT ![p] = [ofile[p] EXCEPT ![d0] = cur[p], ![d1] = cur2[p]]]
      BY <2>4
    <3>2. [ofile[p] EXCEPT ![d0] = cur[p], ![d1] = cur2[p]] \in [Fd -> File \cup {None}]
      BY DEF Shape, Types
    <3>3. ofile' \in [Proc -> [Fd -> File \cup {None}]] BY <3>1, <3>2 DEF Shape, Types
    <3>4. QED BY <1>0, <2>2, <2>4, <3>3 DEF Shape, Types, PlaceInv, Goto, Pc, InPipe, InFtable, history
  <2>5. QED BY <2>1, <2>3, <2>4
<1>4. QED BY <1>1, <1>3

\* What is left of a process when its fileclose returns, and of those it wakes.
LEMMA ClosedShape ==
    ASSUME Types, PlaceInv, NEW p \in Proc, NEW S, NEW to \in {"user", "read", "write"},
           S \subseteq {q \in Proc : pc[q] \in {"rsleep", "wsleep"}}, Closed(p, S, to)
    PROVE  /\ ofile' \in [Proc -> [Fd -> File \cup {None}]] /\ pc' \in [Proc -> Pc]
           /\ cur' \in [Proc -> File \cup {None}] /\ cur2' \in [Proc -> File \cup {None}]
           /\ ff' \in [Proc -> EndRec] /\ arg' \in [Proc -> Nat] /\ PlaceInv'
<1>1. ofile' \in [Proc -> [Fd -> File \cup {None}]]
  <2>1. CASE p \notin exiting BY <2>1 DEF Closed, Types
  <2>2. CASE p \in exiting
    <3>1. ofile' = [ofile EXCEPT ![p] = [ofile[p] EXCEPT ![arg[p]] = None]] BY <2>2 DEF Closed
    <3>2. [ofile[p] EXCEPT ![arg[p]] = None] \in [Fd -> File \cup {None}] BY DEF Types
    <3>3. QED BY <3>1, <3>2 DEF Types
  <2>3. QED BY <2>1, <2>2
<1>2. pc' \in [Proc -> Pc] BY DEF Closed, WakeAndGoto, Types, Pc, InFtable, InPipe
<1>3. /\ cur' \in [Proc -> File \cup {None}] /\ cur2' \in [Proc -> File \cup {None}]
      /\ ff' \in [Proc -> EndRec] /\ arg' \in [Proc -> Nat]
  BY DEF Closed, Types, NoPipe, EndRec
<1>4. PlaceInv'
  BY DEF Closed, WakeAndGoto, Types, PlaceInv, InFtable, InPipe
<1>5. QED BY <1>1, <1>2, <1>3, <1>4

\* fileclose counts down, and frees the slot with the last reference.
LEMMA FilecloseShape == ASSUME Shape, NEW p \in Proc, Fileclose(p) PROVE Shape'
<1>1. PICK f \in File : f = cur[p]
  BY DEF Fileclose, At, Shape, PlaceInv, InFtable
<1>2. UNCHANGED <<pipe, gone, exiting, killed, history>> /\ pc[p] = "close"
  BY DEF Fileclose, At
<1>3. PICK rc \in Nat : rc = file[f].ref BY DEF Shape, Types, FileRec
<1>4. CASE rc < 1
  <2>1. halted' = TRUE /\ UNCHANGED <<ofile, file, ref, pc, locals>>
    BY <1>1, <1>3, <1>4 DEF Fileclose, Halt
  <2>2. QED BY <1>2, <2>1 DEF Shape, Types, EndInv, PlaceInv, OpenInv, locals, history
<1>5. CASE rc > 1
  <2>1. /\ file' = [file EXCEPT ![f].ref = rc - 1]
        /\ Closed(p, {}, "user") /\ UNCHANGED <<ref, halted>>
    BY <1>1, <1>3, <1>5 DEF Fileclose
  <2>2. rc - 1 \in Nat BY <1>5
  <2>3. file' \in [File -> FileRec] /\ SameEnds BY <2>1, <2>2, CountSet, Zenon DEF Shape, Types
  <2>4. EndInv' BY <2>3, SameEndInv DEF Shape
  <2>5. QED BY <1>2, <2>1, <2>3, <2>4, ClosedShape DEF Shape, Types, OpenInv, history
<1>6. CASE rc = 1
  <2>0. /\ file' = [file EXCEPT ![f].ref = 0, ![f].type = "none"]
        /\ halted' = halted
    BY <1>1, <1>3, <1>6 DEF Fileclose
  <2>1. /\ \A g \in File : file'[g] = IF g = f THEN [file[f] EXCEPT !.ref = 0, !.type = "none"]
                                               ELSE file[g]
        /\ DOMAIN file' = File /\ halted' = halted /\ file' = [g \in File |-> file'[g]]
    BY <2>0 DEF Shape, Types
  <2>2. PICK new : new = [file[f] EXCEPT !.ref = 0, !.type = "none"] OBVIOUS
  <2>3. file[f] \in FileRec BY DEF Shape, Types
  <2>4. new \in FileRec /\ new.type = "none" BY ONLY <2>2, <2>3 DEF FileRec
  <2>5. \A g \in File : file'[g] = IF g = f THEN new ELSE file[g] BY <2>1, <2>2
  <2>6. file' \in [File -> FileRec] /\ EndInv' BY <2>1, <2>4, <2>5 DEF Shape, Types, EndInv
  <2>7. CASE file[f].type = "pipe"
    <3>1. /\ ff' = [ff EXCEPT ![p] = [pipe |-> file[f].pipe, wr |-> file[f].wr]]
          /\ pc' = [pc EXCEPT ![p] = "pipeclose"] /\ UNCHANGED <<ofile, ref, cur, cur2, arg>>
      BY <1>1, <1>3, <1>6, <2>7 DEF Fileclose, Goto
    <3>2. file[f].pipe \in Pipe /\ file[f].wr \in BOOLEAN
      BY <2>3, <2>7 DEF Shape, EndInv, FileRec
    <3>3. PICK end : end = [pipe |-> file[f].pipe, wr |-> file[f].wr] OBVIOUS
    <3>6. end \in EndRec /\ end.pipe \in Pipe BY <3>2, <3>3 DEF EndRec
    <3>4. ff' = [ff EXCEPT ![p] = end] BY <3>1, <3>3
    <3>5. QED
      BY <1>1, <1>2, <2>1, <2>6, <3>1, <3>4, <3>6
         DEF Shape, Types, PlaceInv, OpenInv, Pc, InPipe, InFtable, history
  <2>8. CASE file[f].type # "pipe"
    <3>1. /\ ref' = IF file[f].type = "inode" THEN [ref EXCEPT ![file[f].ip] = @ - 1] ELSE ref
          /\ Closed(p, {}, "user")
      BY <1>1, <1>3, <1>6, <2>8 DEF Fileclose
    <3>2. ref' \in [Inode -> Int]
      <4>1. CASE file[f].type = "inode"
        <5>1. ref' = [ref EXCEPT ![file[f].ip] = @ - 1] BY <3>1, <4>1
        <5>2. \A i \in Inode : ref'[i] = IF i = file[f].ip THEN ref[i] - 1 ELSE ref[i]
          BY <5>1 DEF Shape, Types
        <5>3. \A i \in Inode : ref'[i] \in Int BY <5>2 DEF Shape, Types
        <5>4. QED BY <5>1, <5>3 DEF Shape, Types
      <4>2. CASE file[f].type # "inode" BY <3>1, <4>2 DEF Shape, Types
      <4>3. QED BY <4>1, <4>2
    <3>3. QED BY <1>2, <2>1, <2>6, <3>1, <3>2, ClosedShape DEF Shape, Types, OpenInv, history
  <2>9. QED BY <2>7, <2>8
<1>7. QED BY <1>4, <1>5, <1>6

\* pipeclose closes one end and frees the page with the second.
LEMMA PipecloseShape == ASSUME Shape, NEW p \in Proc, Pipeclose(p) PROVE Shape'
<1>1. PICK a \in Pipe : a = ff[p].pipe
  BY DEF Pipeclose, OnPipe, At, Shape, PlaceInv, InPipe
<1>2. UNCHANGED <<file, ref, gone, exiting, killed, halted, history>> BY DEF Pipeclose
<1>3. PICK new : new = IF ff[p].wr THEN [pipe[a] EXCEPT !.writeopen = FALSE]
                                   ELSE [pipe[a] EXCEPT !.readopen = FALSE]
  OBVIOUS
<1>4. pipe' = [pipe EXCEPT ![a] = IF new.readopen \/ new.writeopen THEN new ELSE FreePipe]
  BY <1>1, <1>3 DEF Pipeclose, Pi
<1>5. pipe[a] \in PipeRec /\ (pipe[a].readopen \/ pipe[a].writeopen => pipe[a].used)
  BY DEF Shape, Types, OpenInv
<1>6. new \in PipeRec /\ (new.readopen \/ new.writeopen => new.used)
  BY ONLY <1>3, <1>5 DEF PipeRec
<1>7. FreePipe \in PipeRec /\ ~FreePipe.readopen /\ ~FreePipe.writeopen
  BY FilesAssumption DEF FreePipe, PipeRec
<1>8. pipe' \in [Pipe -> PipeRec] /\ OpenInv'
  BY <1>4, <1>6, <1>7 DEF Shape, Types, OpenInv
<1>9. \E S, to : /\ S \subseteq {q \in Proc : pc[q] \in {"rsleep", "wsleep"}}
                 /\ to \in {"user", "read", "write"} /\ Closed(p, S, to)
  <2>1. CASE ff[p].wr
    <3>1. Closed(p, Sleepers("rsleep", a), "read") BY <1>1, <2>1 DEF Pipeclose
    <3>2. Sleepers("rsleep", a) \subseteq {q \in Proc : pc[q] \in {"rsleep", "wsleep"}}
      BY DEF Sleepers
    <3>3. QED BY <3>1, <3>2
  <2>2. CASE ~ff[p].wr
    <3>1. Closed(p, Sleepers("wsleep", a), "write") BY <1>1, <2>2 DEF Pipeclose
    <3>2. Sleepers("wsleep", a) \subseteq {q \in Proc : pc[q] \in {"rsleep", "wsleep"}}
      BY DEF Sleepers
    <3>3. QED BY <3>1, <3>2
  <2>3. QED BY <2>1, <2>2
<1>10. QED BY <1>2, <1>8, <1>9, ClosedShape DEF Shape, Types, EndInv, history

\* The bytes that piperead can take from a pipe.
LEMMA ReadBytes ==
    ASSUME Types, InOrder, NEW p \in Proc, ff[p].pipe \in Pipe
    PROVE  LET k == Min({arg[p], Pi(p).nwrite - Pi(p).nread})
           IN /\ k \in Nat /\ k <= Pi(p).nwrite - Pi(p).nread
              /\ k = 0 => arg[p] = 0 \/ Pi(p).nwrite = Pi(p).nread
<1>1. Pi(p) \in PipeRec BY DEF Types, Pi
<1>2. PICK w \in Nat, r \in Nat : w = Pi(p).nwrite /\ r = Pi(p).nread BY <1>1 DEF PipeRec
<1>3. w - r \in 0..PIPESIZE BY <1>2 DEF InOrder, Pi
<1>4. PICK n \in Nat : n = arg[p] BY DEF Types
<1>5. r <= w BY <1>3, FilesAssumption
<1>6. PICK k : k = Min({n, w - r}) OBVIOUS
<1>7. k \in {n, w - r} /\ k <= n /\ k <= w - r
  <2>1. \E m \in {n, w - r} : \A y \in {n, w - r} : m <= y
    <3>1. CASE n <= w - r BY <3>1
    <3>2. CASE w - r <= n BY <3>2
    <3>3. QED BY <3>1, <3>2
  <2>2. QED BY <1>6, <2>1 DEF Min
<1>8. k \in Nat /\ k <= w - r /\ (k = 0 => n = 0 \/ w = r) BY <1>5, <1>7
<1>9. QED BY <1>2, <1>4, <1>6, <1>8

\* The bytes that pipewrite can put into a pipe.
LEMMA WriteBytes ==
    ASSUME Types, InOrder, NEW p \in Proc, ff[p].pipe \in Pipe
    PROVE  LET room == PIPESIZE - (Pi(p).nwrite - Pi(p).nread)
               k == Min({arg[p], room})
           IN k \in Nat /\ k <= room /\ k <= arg[p] /\ (k < arg[p] => k = room)
<1>1. Pi(p) \in PipeRec BY DEF Types, Pi
<1>2. PICK room : room = PIPESIZE - (Pi(p).nwrite - Pi(p).nread) OBVIOUS
<1>3. room \in Nat
  <2>1. PICK m \in 0..PIPESIZE : m = Pi(p).nwrite - Pi(p).nread BY DEF InOrder, Pi
  <2>2. room = PIPESIZE - m BY <1>2, <2>1
  <2>3. QED BY <2>2, FilesAssumption
<1>4. PICK n \in Nat : n = arg[p] BY DEF Types
<1>6. PICK k : k = Min({n, room}) OBVIOUS
<1>7. k \in {n, room} /\ k <= n /\ k <= room
  <2>1. \E m \in {n, room} : \A y \in {n, room} : m <= y
    <3>1. CASE n <= room BY <3>1, <1>3
    <3>2. CASE room <= n BY <3>2, <1>3
    <3>3. QED BY <3>1, <3>2, <1>3
  <2>2. QED BY <1>6, <2>1 DEF Min
<1>8. k \in Nat /\ k <= room /\ k <= n /\ (k < n => k = room) BY <1>3, <1>7
<1>9. QED BY <1>2, <1>4, <1>6, <1>8

\* piperead takes bytes from the front, or sleeps.
LEMMA PipereadShape ==
    ASSUME Shape, InOrder, NEW p \in Proc, Piperead(p)
    PROVE  Shape' /\ InOrder'
<1>1. PICK a \in Pipe : a = ff[p].pipe
  BY DEF Piperead, OnPipe, At, Shape, PlaceInv, InPipe
<1>2. UNCHANGED <<ofile, file, ref, gone, exiting, killed, halted, hurt, orphan, misjudged>>
  BY DEF Piperead
<1>3. PICK k \in Nat : k = Min({arg[p], Pi(p).nwrite - Pi(p).nread})
                       /\ k <= Pi(p).nwrite - Pi(p).nread
  BY <1>1, ReadBytes DEF Shape
<1>4. pc[p] = "read" BY DEF Piperead, OnPipe, At
<1>5. CASE k = 0 /\ Pi(p).writeopen
  <2>1. UNCHANGED <<pipe, unsaid>> BY <1>3, <1>5 DEF Piperead
  <2>2. Return(p) \/ (Goto(p, "rsleep") /\ UNCHANGED locals) BY <1>3, <1>5 DEF Piperead
  <2>3. Shape'
    <3>1. CASE Return(p)
      BY <1>2, <1>4, <2>1, <3>1
         DEF Shape, Types, EndInv, PlaceInv, OpenInv, Return, Goto, Pc, InPipe, InFtable, EndRec,
             NoPipe
    <3>2. CASE Goto(p, "rsleep") /\ UNCHANGED locals
      BY <1>2, <1>4, <2>1, <3>2
         DEF Shape, Types, EndInv, PlaceInv, OpenInv, Goto, Pc, InPipe, InFtable, locals
    <3>3. QED BY <2>2, <3>1, <3>2
  <2>4. QED BY <2>1, <2>3 DEF InOrder
<1>6. CASE ~(k = 0 /\ Pi(p).writeopen)
  <2>1. pipe' = [pipe EXCEPT ![a].nread = @ + k] BY <1>1, <1>3, <1>6 DEF Piperead
  <2>2. /\ WakeAndGoto(Sleepers("wsleep", a), "write", p, "user") /\ UNCHANGED cur2
        /\ cur' = [cur EXCEPT ![p] = None] /\ ff' = [ff EXCEPT ![p] = NoPipe]
        /\ arg' = [arg EXCEPT ![p] = 0] /\ unsaid' \subseteq unsaid
    BY <1>1, <1>3, <1>6 DEF Piperead
  <2>3. PICK pi \in PipeRec : pi = pipe[a] BY DEF Shape, Types
  <2>4. PICK r \in Nat, w \in Nat : r = pi.nread /\ w = pi.nwrite BY DEF PipeRec
  <2>5. w - r \in 0..PIPESIZE /\ k <= w - r /\ PIPESIZE \in Nat
    BY <1>1, <1>3, <2>3, <2>4, FilesAssumption DEF InOrder, Pi
  <2>6. PICK e \in Nat : e = r + k OBVIOUS
  <2>7. PICK new : new = [pi EXCEPT !.nread = e] OBVIOUS
  <2>8. /\ new \in PipeRec /\ new.nread = e /\ new.nwrite = w /\ new.data = pi.data
        /\ new.readopen = pi.readopen /\ new.writeopen = pi.writeopen /\ new.used = pi.used
    BY ONLY <2>4, <2>7, pi \in PipeRec, e \in Nat DEF PipeRec
  <2>9. pipe' = [pipe EXCEPT ![a] = new] BY <2>1, <2>3, <2>4, <2>6, <2>7
  <2>10. pipe' \in [Pipe -> PipeRec] /\ OpenInv'
    BY <2>3, <2>8, <2>9 DEF Shape, Types, OpenInv
  <2>11. Shape'
    BY <1>2, <2>2, <2>10
       DEF Shape, Types, EndInv, PlaceInv, WakeAndGoto, Sleepers, Pc, InPipe, InFtable, EndRec,
           NoPipe
  <2>12. w - e \in 0..PIPESIZE BY <2>5, <2>6
  <2>13. \A j \in e..(w - 1) : j \in r..(w - 1) BY <2>6
  <2>14. \A j \in e..(w - 1) : new.data[j % PIPESIZE] = j
    BY <2>3, <2>4, <2>8, <2>13 DEF InOrder
  <2>15. InOrder'
    <3> SUFFICES ASSUME NEW b \in Pipe PROVE Ordered(pipe'[b]) BY DEF InOrder, Ordered
    <3>1. CASE b = a
      <4>1. pipe'[b] = new BY <2>9, <3>1 DEF Shape, Types
      <4>2. Ordered(new) BY <2>8, <2>12, <2>14 DEF Ordered
      <4>3. QED BY <4>1, <4>2
    <3>2. CASE b # a
      <4>1. pipe'[b] = pipe[b] BY <2>9, <3>2 DEF Shape, Types
      <4>2. QED BY <4>1 DEF InOrder, Ordered
    <3>3. QED BY <3>1, <3>2
  <2>16. QED BY <2>11, <2>15
<1>7. QED BY <1>5, <1>6

\* pipewrite puts bytes behind the last, and sleeps when the ring is full.
LEMMA PipewriteShape ==
    ASSUME Shape, InOrder, NEW p \in Proc, Pipewrite(p)
    PROVE  Shape' /\ InOrder'
<1>1. PICK a \in Pipe : a = ff[p].pipe
  BY DEF Pipewrite, OnPipe, At, Shape, PlaceInv, InPipe
<1>2. UNCHANGED <<ofile, file, ref, gone, cur2, exiting, killed, halted, hurt, orphan, misjudged>>
  BY DEF Pipewrite
<1>3. PICK k \in Nat : /\ k = Min({arg[p], PIPESIZE - (Pi(p).nwrite - Pi(p).nread)})
                       /\ k <= PIPESIZE - (Pi(p).nwrite - Pi(p).nread)
                       /\ k <= arg[p] /\ (k < arg[p] => k = PIPESIZE - (Pi(p).nwrite - Pi(p).nread))
  BY <1>1, WriteBytes DEF Shape
<1>4. pc[p] = "write" BY DEF Pipewrite, OnPipe, At
<1>5. PICK fails \in BOOLEAN : fails = (k < arg[p] /\ (~Pi(p).readopen \/ p \in killed))
  OBVIOUS
<1>6. pipe' = [pipe EXCEPT ![a] = Put(pipe[a], k)] BY <1>1, <1>3 DEF Pipewrite
<1>7. /\ WakeAndGoto(IF fails THEN {} ELSE Sleepers("rsleep", a), "read", p,
                     IF k < arg[p] /\ ~fails THEN "wsleep" ELSE "user")
      /\ unsaid' = IF fails THEN unsaid \cup {a} ELSE unsaid \ {a}
      /\ IF k < arg[p] /\ ~fails
         THEN arg' = [arg EXCEPT ![p] = @ - k] /\ UNCHANGED <<cur, ff>>
         ELSE /\ cur' = [cur EXCEPT ![p] = None] /\ ff' = [ff EXCEPT ![p] = NoPipe]
              /\ arg' = [arg EXCEPT ![p] = 0]
  BY <1>1, <1>3, <1>5 DEF Pipewrite
<1>8. pipe[a] \in PipeRec /\ Ordered(pipe[a]) BY DEF Shape, Types, InOrder, Ordered
<1>9. PICK new : new = Put(pipe[a], k) OBVIOUS
<1>10. /\ new \in PipeRec /\ Ordered(new)
       /\ new = [pipe[a] EXCEPT !.nwrite = pipe[a].nwrite + k, !.data = new.data]
  BY <1>1, <1>3, <1>8, <1>9, PutOrdered DEF Pi
<1>11. pipe' = [pipe EXCEPT ![a] = new] BY <1>6, <1>9
<1>12. InOrder'
  <2> SUFFICES ASSUME NEW b \in Pipe PROVE Ordered(pipe'[b]) BY DEF InOrder, Ordered
  <2>1. CASE b = a
    <3>1. pipe'[b] = new BY <1>11, <2>1 DEF Shape, Types
    <3>2. QED BY <1>10, <3>1
  <2>2. CASE b # a
    <3>1. pipe'[b] = pipe[b] BY <1>11, <2>2 DEF Shape, Types
    <3>2. QED BY <3>1 DEF InOrder, Ordered
  <2>3. QED BY <2>1, <2>2
<1>13. new.readopen = pipe[a].readopen /\ new.writeopen = pipe[a].writeopen /\ new.used = pipe[a].used
  BY ONLY <1>8, <1>10 DEF PipeRec
<1>14. pipe' \in [Pipe -> PipeRec] /\ OpenInv'
  BY <1>10, <1>11, <1>13 DEF Shape, Types, OpenInv
<1>15. arg' \in [Proc -> Nat] /\ (k < arg[p] /\ ~fails => arg'[p] >= 1)
  <2>1. PICK n \in Nat : n = arg[p] BY DEF Shape, Types
  <2>2. k < n => n - k \in Nat /\ n - k >= 1 OBVIOUS
  <2>3. QED BY <1>7, <2>1, <2>2 DEF Shape, Types
<1>16. PICK S : S \subseteq {q \in Proc : pc[q] = "rsleep"}
                /\ WakeAndGoto(S, "read", p, IF k < arg[p] /\ ~fails THEN "wsleep" ELSE "user")
  BY <1>7 DEF Sleepers
<1>17. Types'
  <2>1. pc' \in [Proc -> Pc] BY <1>16 DEF Shape, Types, WakeAndGoto, Pc, InPipe, InFtable
  <2>2. cur' \in [Proc -> File \cup {None}] /\ ff' \in [Proc -> EndRec]
    <3>1. CASE k < arg[p] /\ ~fails BY <1>7, <3>1 DEF Shape, Types
    <3>2. CASE ~(k < arg[p] /\ ~fails)
      <4>1. cur' = [cur EXCEPT ![p] = None] /\ ff' = [ff EXCEPT ![p] = NoPipe]
        BY <1>7, <3>2, Zenon
      <4>2. QED BY <4>1 DEF Shape, Types, EndRec, NoPipe
    <3>3. QED BY <3>1, <3>2
  <2>3. unsaid' \subseteq Pipe BY <1>7 DEF Shape, Types
  <2>4. QED BY <1>2, <1>14, <1>15, <2>1, <2>2, <2>3 DEF Shape, Types
<1>18. PlaceInv'
  <2> SUFFICES ASSUME NEW q \in Proc
               PROVE  /\ pc'[q] \in (InFtable \ {"exit"}) \cup {"drain"} => cur'[q] \in File
                      /\ pc'[q] \in {"namei", "openfd"} => arg'[q] \in Inode
                      /\ pc'[q] \in InPipe => ff'[q].pipe \in Pipe
                      /\ pc'[q] \in {"read", "rsleep", "write", "wsleep"} => arg'[q] >= 1
    BY DEF PlaceInv
  <2>1. CASE q = p
    <3>1. pc'[q] = IF k < arg[p] /\ ~fails THEN "wsleep" ELSE "user" BY <1>16, <2>1 DEF WakeAndGoto
    <3>2. QED BY <1>4, <1>7, <1>15, <2>1, <3>1 DEF Shape, PlaceInv, InPipe, InFtable
  <2>2. CASE q # p
    <3>1. pc'[q] = pc[q] \/ (pc[q] = "rsleep" /\ pc'[q] = "read") BY <1>16, <2>2 DEF WakeAndGoto
    <3>2. cur'[q] = cur[q] /\ ff'[q] = ff[q] /\ arg'[q] = arg[q] BY <1>7, <2>2 DEF Shape, Types
    <3>3. QED BY <3>1, <3>2 DEF Shape, PlaceInv, InPipe, InFtable
  <2>3. QED BY <2>1, <2>2
<1>19. EndInv' BY <1>2 DEF Shape, EndInv
<1>20. QED BY <1>12, <1>14, <1>17, <1>18, <1>19 DEF Shape

\* The handler of a pipe gives an empty ring to the file it finds.
LEMMA PipeHitShape ==
    ASSUME Shape, InOrder, NEW p \in Proc, PipeHit(p)
    PROVE  Shape' /\ InOrder'
<1>1. PICK a \in Pipe : a = ff[p].pipe /\ pc[p] \in {"read", "write", "pipeclose"}
  BY DEF PipeHit, OnPipe, At, Shape, PlaceInv, InPipe
<1>2. UNCHANGED <<ofile, ref, exiting, unsaid, misjudged>> BY DEF PipeHit
<1>3. PICK b \in Pipe : b = Min(FreePages)
  BY FreePageFinds DEF PipeHit, FreePages
<1>4. CASE \E q \in Proc \ {p} : pc[q] \in InPipe
  <2>1. Halt /\ UNCHANGED <<file, pipe, gone, pc, locals, killed, hurt, orphan>>
    BY <1>4 DEF PipeHit
  <2>2. QED
    BY <1>2, <2>1 DEF Shape, Types, EndInv, PlaceInv, OpenInv, InOrder, Halt, locals
<1>5. CASE ~(\E q \in Proc \ {p} : pc[q] \in InPipe)
  <2>1. PICK S : S = Pointing(a) OBVIOUS
  <2>2. PICK f : f = IF S = {} THEN ofile[NPROC][NOFILE] ELSE ofile[First(S)[1]][First(S)[2]]
    OBVIOUS
  <2>3. PICK again : again = (p \in exiting /\ f # None /\ file[f].ref = 0) OBVIOUS
  <2>4. PICK new : new = [FreePipe EXCEPT
                            !.used = TRUE,
                            !.writeopen = S # {} /\ file[f].wr,
                            !.readopen = S # {} /\ ~file[f].wr /\ file[f].rd]
    OBVIOUS
  <2>5. /\ pipe' = [pipe EXCEPT ![b] = new]
        /\ file' = [g \in File |-> IF g # f THEN file[g]
                                   ELSE [file[g] EXCEPT !.pipe = IF S = {} THEN @ ELSE b,
                                                        !.ref = IF again THEN 1 ELSE @]]
        /\ killed' = IF S = {} THEN killed ELSE killed \cup {First(S)[1]}
        /\ gone' = gone \cup {a} /\ hurt' = hurt \cup {a, b}
        /\ orphan' = orphan \cup ({cur2[p]} \ {None})
                            \cup (IF p \in exiting THEN {cur[p]} ELSE {})
        /\ Return(p) /\ UNCHANGED halted
    BY <1>1, <1>3, <1>5, <2>1, <2>2, <2>3, <2>4 DEF PipeHit
  <2>6. new \in PipeRec /\ new.used /\ Ordered(new)
    <3>1. (S # {} /\ file[f].wr) \in BOOLEAN /\ (S # {} /\ ~file[f].wr /\ file[f].rd) \in BOOLEAN
      OBVIOUS
    <3>2. FreePipe \in PipeRec BY FilesAssumption DEF FreePipe, PipeRec
    <3>3. PICK x \in BOOLEAN, y \in BOOLEAN :
            new = [FreePipe EXCEPT !.used = TRUE, !.writeopen = x, !.readopen = y]
      BY <2>4, <3>1
    <3>4. new \in PipeRec /\ new.used /\ new.nread = 0 /\ new.nwrite = 0
      BY ONLY <3>2, <3>3, x \in BOOLEAN, y \in BOOLEAN DEF PipeRec, FreePipe
    <3>5. QED BY <3>4, FilesAssumption DEF Ordered
  <2>7. pipe' \in [Pipe -> PipeRec] /\ OpenInv' BY <2>5, <2>6 DEF Shape, Types, OpenInv
  <2>8. InOrder'
    <3> SUFFICES ASSUME NEW c \in Pipe PROVE Ordered(pipe'[c]) BY DEF InOrder, Ordered
    <3>1. pipe'[c] = IF c = b THEN new ELSE pipe[c] BY <2>5 DEF Shape, Types
    <3>2. QED BY <2>6, <3>1 DEF InOrder, Ordered
  <2>9. file' \in [File -> FileRec] /\ EndInv'
    <3>1. ASSUME NEW g \in File
          PROVE  file'[g] \in FileRec /\ (file'[g].type = "pipe" => file'[g].pipe \in Pipe)
      <4>1. PICK x, y : /\ x = IF S = {} THEN file[g].pipe ELSE b
                        /\ y = IF again THEN 1 ELSE file[g].ref
        OBVIOUS
      <4>2. file'[g] = file[g] \/ file'[g] = [file[g] EXCEPT !.pipe = x, !.ref = y]
        BY <2>5, <4>1
      <4>3. file[g] \in FileRec /\ (file[g].type = "pipe" => file[g].pipe \in Pipe)
        BY DEF Shape, Types, EndInv
      <4>4. x = file[g].pipe \/ x \in Pipe BY <4>1
      <4>5. y \in Nat BY <4>1, <4>3 DEF FileRec
      <4>6. QED BY ONLY <4>2, <4>3, <4>4, <4>5 DEF FileRec
    <3>2. QED BY <2>5, <3>1 DEF EndInv
  <2>10. killed' \subseteq Proc
    <3>1. Pointing(a) \subseteq Proc \X Fd BY DEF Pointing
    <3>2. S # {} => First(S) \in Proc \X Fd BY <2>1, <3>1, FirstFinds
    <3>3. QED BY <2>5, <3>2 DEF Shape, Types
  <2>11. cur[p] \in File BY <1>1 DEF Shape, PlaceInv, InFtable, InPipe
  <2>12. orphan' \subseteq File BY <2>5, <2>11 DEF Shape, Types
  <2>13. /\ pc' \in [Proc -> Pc] /\ cur' \in [Proc -> File \cup {None}]
         /\ cur2' \in [Proc -> File \cup {None}] /\ arg' \in [Proc -> Nat]
         /\ ff' \in [Proc -> EndRec]
    BY <2>5 DEF Shape, Types, Return, Goto, Pc, InFtable, EndRec, NoPipe
  <2>14. gone' \subseteq Pipe /\ hurt' \subseteq Pipe BY <2>5 DEF Shape, Types
  <2>15. Types' BY <1>2, <2>5, <2>7, <2>9, <2>10, <2>12, <2>13, <2>14 DEF Shape, Types
  <2>16. PlaceInv'
    BY <2>5 DEF Shape, Types, PlaceInv, Return, Goto, InPipe, InFtable
  <2>17. QED BY <2>7, <2>8, <2>9, <2>15, <2>16 DEF Shape
<1>6. QED BY <1>4, <1>5

\* The file handler's first part, for the file f that p closes or looks at.
LEMMA StartShape ==
    ASSUME Shape, InOrder, NEW p \in Proc, NEW f \in File, StartFileRecovery(p, f)
    PROVE  Shape' /\ InOrder'
<1>1. PICK r, w : r = LastEnd(f, FALSE) /\ w = LastEnd(f, TRUE) OBVIOUS
<1>2. /\ r \in File \cup {None} /\ w \in File \cup {None}
      /\ r # None => file[r].type = "pipe" /\ file[r].pipe \in Pipe
      /\ w # None => file[w].type = "pipe" /\ file[w].pipe \in Pipe
  BY <1>1, LastEndFinds DEF Shape, EndInv
<1>3. PICK left : left = IF r # None /\ w = None THEN r
                         ELSE IF r = None /\ w # None THEN w ELSE None
  OBVIOUS
<1>4. /\ pipe' = IF left = None THEN pipe
                 ELSE IF left = r THEN [pipe EXCEPT ![file[r].pipe].readopen = FALSE]
                 ELSE [pipe EXCEPT ![file[w].pipe].writeopen = FALSE]
      /\ killed' = IF left = None THEN killed ELSE killed \cup Holders(left)
      /\ hurt' = hurt \cup (IF left = None THEN {} ELSE {file[left].pipe})
                      \cup (IF file[f].type = "pipe" THEN {file[f].pipe} ELSE {})
      /\ arg' = [arg EXCEPT ![p] = InodeOf(f)]
      /\ cur2' = [cur2 EXCEPT ![p] = IF r # None THEN r ELSE w]
  BY <1>1, <1>3 DEF StartFileRecovery
<1>5. /\ orphan' = orphan \cup ({cur2[p]} \ {None})
      /\ cur' = [cur EXCEPT ![p] = f] /\ pc' = [pc EXCEPT ![p] = "drain"]
      /\ halted' \in {FALSE, TRUE}
      /\ UNCHANGED <<ofile, file, ref, gone, ff, exiting, unsaid, misjudged>>
  BY DEF StartFileRecovery, Goto
<1>6. ASSUME NEW c \in Pipe
      PROVE  /\ pipe'[c] \in PipeRec /\ (pipe'[c].readopen \/ pipe'[c].writeopen => pipe'[c].used)
             /\ Ordered(pipe'[c])
  <2>1. /\ pipe[c] \in PipeRec /\ (pipe[c].readopen \/ pipe[c].writeopen => pipe[c].used)
        /\ Ordered(pipe[c])
    BY DEF Shape, Types, OpenInv, InOrder, Ordered
  <2>2. \/ pipe'[c] = pipe[c]
        \/ pipe'[c] = [pipe[c] EXCEPT !.readopen = FALSE]
        \/ pipe'[c] = [pipe[c] EXCEPT !.writeopen = FALSE]
    BY <1>4 DEF Shape, Types
  <2>3. /\ pipe'[c] \in PipeRec /\ (pipe'[c].readopen \/ pipe'[c].writeopen => pipe'[c].used)
        /\ pipe'[c].nread = pipe[c].nread /\ pipe'[c].nwrite = pipe[c].nwrite
        /\ pipe'[c].data = pipe[c].data
    BY ONLY <2>1, <2>2 DEF PipeRec
  <2>4. QED BY <2>1, <2>3 DEF Ordered
<1>7. pipe' \in [Pipe -> PipeRec]
  <2>1. DOMAIN pipe' = Pipe /\ pipe' = [c \in Pipe |-> pipe'[c]] BY <1>4 DEF Shape, Types
  <2>2. QED BY <1>6, <2>1
<1>8. InOrder' /\ OpenInv' BY <1>6 DEF InOrder, Ordered, OpenInv
<1>9. killed' \subseteq Proc /\ hurt' \subseteq Pipe /\ orphan' \subseteq File
  <2>1. killed' \subseteq Proc BY <1>4 DEF Holders, Shape, Types
  <2>2. left # None => file[left].pipe \in Pipe BY <1>2, <1>3
  <2>3. hurt' \subseteq Pipe BY <1>4, <2>2 DEF Shape, Types, EndInv
  <2>4. orphan' \subseteq File BY <1>5 DEF Shape, Types
  <2>5. QED BY <2>1, <2>3, <2>4
<1>10. InodeOf(f) \in Nat BY InodeOfFinds DEF Inode, None
<1>11. /\ arg' \in [Proc -> Nat] /\ cur2' \in [Proc -> File \cup {None}]
       /\ cur' \in [Proc -> File \cup {None}] /\ pc' \in [Proc -> Pc]
  BY <1>2, <1>4, <1>5, <1>10 DEF Shape, Types, Pc
<1>12. Types' BY <1>5, <1>7, <1>9, <1>11 DEF Shape, Types
<1>13. EndInv' BY <1>5 DEF Shape, EndInv
<1>14. PlaceInv' BY <1>4, <1>5 DEF Shape, Types, PlaceInv, InPipe, InFtable
<1>15. QED BY <1>8, <1>12, <1>13, <1>14 DEF Shape

\* The file handler's second part: the table is moved without the broken file.
LEMMA FinishShape == ASSUME Shape, NEW p \in Proc, FinishFileRecovery(p) PROVE Shape'
<1>1. /\ UNCHANGED <<pipe, gone, exiting, killed, halted, hurt, unsaid, orphan>> /\ Return(p)
      /\ file' = [file EXCEPT ![cur[p]] = FreeFile]
      /\ ofile' = [q \in Proc |-> [d \in Fd |-> Dropped(p, q, d)]]
  BY DEF FinishFileRecovery
<1>2. file' \in [File -> FileRec] /\ EndInv'
  <2>1. FreeFile \in FileRec /\ FreeFile.type # "pipe" BY DEF FreeFile, FileRec
  <2>2. QED BY <1>1, <2>1 DEF Shape, Types, EndInv
<1>3. ofile' \in [Proc -> [Fd -> File \cup {None}]] BY <1>1 DEF Dropped, Shape, Types
<1>4. ref' \in [Inode -> Int]
  <2>1. PICK drop : ref' = IF drop = None THEN ref ELSE [ref EXCEPT ![drop] = @ - 1]
    BY DEF FinishFileRecovery
  <2>2. \A i \in Inode : ref'[i] = IF drop # None /\ i = drop THEN ref[i] - 1 ELSE ref[i]
    BY <2>1 DEF Shape, Types
  <2>3. \A i \in Inode : ref'[i] \in Int BY <2>2 DEF Shape, Types
  <2>4. QED BY <2>1, <2>3 DEF Shape, Types
<1>5. misjudged' \in BOOLEAN
  <2>1. PICK x, y : misjudged' = (misjudged \/ x # y) BY DEF FinishFileRecovery
  <2>2. QED BY <2>1 DEF Shape, Types
<1>6. Types' /\ PlaceInv' /\ OpenInv'
  BY <1>1, <1>2, <1>3, <1>4, <1>5
     DEF Shape, Types, PlaceInv, OpenInv, Return, Goto, Pc, InPipe, InFtable, EndRec, NoPipe
<1>7. QED BY <1>2, <1>6 DEF Shape

-----------------------------------------------------------------------------
(* The order of the bytes. *)

\* A step that touches no ring.
LEMMA SamePipes == ASSUME InOrder, pipe' = pipe PROVE InOrder'
BY DEF InOrder

\* pipealloc gives an empty ring.
LEMMA PipeFdsOrder == ASSUME Shape, InOrder, NEW p \in Proc, PipeFds(p) PROVE InOrder'
<1>1. CASE pipe' = pipe BY <1>1, SamePipes
<1>2. CASE pipe' # pipe
  <2>1. PICK a \in Pipe :
          pipe' = [pipe EXCEPT ![a] = [FreePipe EXCEPT !.used = TRUE, !.readopen = TRUE,
                                                       !.writeopen = TRUE]]
    BY <1>2 DEF PipeFds
  <2>2. PICK new : new = [FreePipe EXCEPT !.used = TRUE, !.readopen = TRUE, !.writeopen = TRUE]
    OBVIOUS
  <2>3. new.nread = 0 /\ new.nwrite = 0 BY <2>2 DEF FreePipe
  <2>4. Ordered(new) BY <2>3, FilesAssumption DEF Ordered
  <2>5. ASSUME NEW c \in Pipe PROVE Ordered(pipe'[c])
    <3>1. pipe'[c] = IF c = a THEN new ELSE pipe[c] BY <2>1, <2>2 DEF Shape, Types
    <3>2. QED BY <2>4, <3>1 DEF InOrder, Ordered
  <2>6. QED BY <2>5 DEF InOrder, Ordered
<1>3. QED BY <1>1, <1>2

\* pipeclose frees the ring or leaves it as it is.
LEMMA PipecloseOrder == ASSUME Shape, InOrder, NEW p \in Proc, Pipeclose(p) PROVE InOrder'
<1>1. PICK a \in Pipe : a = ff[p].pipe
  BY DEF Pipeclose, OnPipe, At, Shape, PlaceInv, InPipe
<1>2. PICK new : new = IF ff[p].wr THEN [pipe[a] EXCEPT !.writeopen = FALSE]
                                   ELSE [pipe[a] EXCEPT !.readopen = FALSE]
  OBVIOUS
<1>3. pipe' = [pipe EXCEPT ![a] = IF new.readopen \/ new.writeopen THEN new ELSE FreePipe]
  BY <1>1, <1>2 DEF Pipeclose, Pi
<1>4. pipe[a] \in PipeRec /\ Ordered(pipe[a]) BY DEF Shape, Types, InOrder, Ordered
<1>5. new.nread = pipe[a].nread /\ new.nwrite = pipe[a].nwrite /\ new.data = pipe[a].data
  BY ONLY <1>2, <1>4 DEF PipeRec
<1>6. Ordered(new) BY <1>4, <1>5 DEF Ordered
<1>7. Ordered(FreePipe) BY FilesAssumption DEF Ordered, FreePipe
<1>8. ASSUME NEW c \in Pipe PROVE Ordered(pipe'[c])
  <2>1. pipe'[c] = pipe[c] \/ pipe'[c] = new \/ pipe'[c] = FreePipe
    BY <1>3 DEF Shape, Types
  <2>2. QED BY <1>6, <1>7, <2>1 DEF InOrder, Ordered
<1>9. QED BY <1>8 DEF InOrder, Ordered

\* The shape and the order of the bytes are kept by every step.
LEMMA NextShape ==
    ASSUME Shape, InOrder, [Next]_vars
    PROVE  Shape' /\ InOrder'
<1>1. ASSUME NEW p \in Proc, ProcNext(p) PROVE Shape' /\ InOrder'
  <2>1. CASE Pipealloc(p)
    <3>1. pipe' = pipe BY <2>1 DEF Pipealloc
    <3>2. QED BY <2>1, <3>1, PipeallocShape, SamePipes
  <2>2. CASE PipeFds(p) BY <2>2, PipeFdsShape, PipeFdsOrder
  <2>3. CASE OpenAlloc(p)
    <3>1. pipe' = pipe BY <2>3 DEF OpenAlloc
    <3>2. QED BY <2>3, <3>1, OpenAllocShape, SamePipes
  <2>4. CASE OpenFd(p)
    <3>1. pipe' = pipe BY <2>4 DEF OpenFd
    <3>2. QED BY <2>4, <3>1, OpenFdShape, SamePipes
  <2>5. CASE ExitLoop(p)
    <3>1. pipe' = pipe BY <2>5 DEF ExitLoop, tables
    <3>2. QED BY <2>5, <3>1, ExitLoopShape, SamePipes
  <2>6. CASE Fileclose(p)
    <3>1. pipe' = pipe BY <2>6 DEF Fileclose
    <3>2. QED BY <2>6, <3>1, FilecloseShape, SamePipes
  <2>7. CASE Pipeclose(p) BY <2>7, PipecloseShape, PipecloseOrder
  <2>8. CASE Piperead(p) BY <2>8, PipereadShape
  <2>9. CASE Pipewrite(p) BY <2>9, PipewriteShape
  <2>10. CASE FinishFileRecovery(p)
    <3>1. pipe' = pipe BY <2>10 DEF FinishFileRecovery
    <3>2. QED BY <2>10, <3>1, FinishShape, SamePipes
  <2>11. QED
    BY <1>1, <2>1, <2>2, <2>3, <2>4, <2>5, <2>6, <2>7, <2>8, <2>9, <2>10 DEF ProcNext
<1>2. ASSUME NEW p \in Proc, SysPipe(p) PROVE Shape' /\ InOrder'
  <2>1. pipe' = pipe BY <1>2 DEF SysPipe
  <2>2. QED BY <1>2, <2>1, SysPipeShape, SamePipes
<1>3. ASSUME NEW p \in Proc, Exit(p) PROVE Shape' /\ InOrder'
  <2>1. pipe' = pipe BY <1>3 DEF Exit, tables
  <2>2. QED BY <1>3, <2>1, ExitShape, SamePipes
<1>4. ASSUME NEW p \in Proc, PipeHit(p) PROVE Shape' /\ InOrder'
  BY <1>4, PipeHitShape
<1>5. ASSUME NEW p \in Proc, FileHit(p) PROVE Shape' /\ InOrder'
  <2>1. cur[p] \in File BY <1>5 DEF FileHit, At, Shape, PlaceInv, InFtable
  <2>2. QED BY <1>5, <2>1, StartShape DEF FileHit
<1>6. ASSUME NEW p \in Proc, NEW i \in Inode, SysOpen(p, i) PROVE Shape' /\ InOrder'
  <2>1. pipe' = pipe BY <1>6 DEF SysOpen
  <2>2. QED BY <1>6, <2>1, SysOpenShape, SamePipes
<1>7. ASSUME NEW p \in Proc, NEW d \in Fd, SysDup(p, d) PROVE Shape' /\ InOrder'
  <2>1. pipe' = pipe BY <1>7 DEF SysDup
  <2>2. QED BY <1>7, <2>1, SysDupShape, SamePipes
<1>8. ASSUME NEW p \in Proc, NEW d \in Fd, SysClose(p, d) PROVE Shape' /\ InOrder'
  <2>1. pipe' = pipe BY <1>8 DEF SysClose
  <2>2. QED BY <1>8, <2>1, SysCloseShape, SamePipes
<1>9. ASSUME NEW p \in Proc, NEW d \in Fd, FileHitCall(p, d) PROVE Shape' /\ InOrder'
  <2>1. ofile[p][d] \in File BY <1>9 DEF FileHitCall, Shape, Types
  <2>2. QED BY <1>9, <2>1, StartShape DEF FileHitCall
<1>10. ASSUME NEW p \in Proc, NEW d \in Fd, NEW n \in 1..MaxWrite, SysRw(p, d, n)
       PROVE  Shape' /\ InOrder'
  <2>1. pipe' = pipe BY <1>10 DEF SysRw, tables
  <2>2. QED BY <1>10, <2>1, SysRwShape, SamePipes
<1>11. ASSUME NEW p \in Proc, NEW q \in Proc, Fork(p, q) PROVE Shape' /\ InOrder'
  <2>1. pipe' = pipe BY <1>11 DEF Fork
  <2>2. QED BY <1>11, <2>1, ForkShape, SamePipes
<1>12. ASSUME NEW p \in Proc, NEW q \in Proc, Kill(p, q) PROVE Shape' /\ InOrder'
  <2>1. pipe' = pipe BY <1>12 DEF Kill, tables
  <2>2. QED BY <1>12, <2>1, KillShape, SamePipes
<1>13. CASE UNCHANGED vars
  BY <1>13 DEF vars, tables, calls, locals, history, Shape, Types, EndInv, PlaceInv, OpenInv, InOrder
<1>14. QED
  BY <1>1, <1>2, <1>3, <1>4, <1>5, <1>6, <1>7, <1>8, <1>9, <1>10, <1>11, <1>12, <1>13 DEF Next

\* fileinit: no file is open, no pipe has a page.
LEMMA InitShape == Init => Shape /\ InOrder
<1> SUFFICES ASSUME Init PROVE Shape /\ InOrder
  OBVIOUS
<1>1. FreeFile \in FileRec /\ FreeFile.type = "none" BY DEF FreeFile, FileRec
<1>2. /\ FreePipe \in PipeRec /\ ~FreePipe.readopen /\ ~FreePipe.writeopen
      /\ FreePipe.nread = 0 /\ FreePipe.nwrite = 0
  BY FilesAssumption DEF FreePipe, PipeRec
<1>3. NoPipe \in EndRec BY DEF NoPipe, EndRec
<1>4. Types
  <2>1. /\ file \in [File -> FileRec] /\ pipe \in [Pipe -> PipeRec]
        /\ ff \in [Proc -> EndRec] /\ pc \in [Proc -> Pc] /\ arg \in [Proc -> Nat]
    BY <1>1, <1>2, <1>3 DEF Init, Pc
  <2>2. ofile \in [Proc -> [Fd -> File \cup {None}]] /\ ref \in [Inode -> Int] BY DEF Init
  <2>3. cur \in [Proc -> File \cup {None}] /\ cur2 \in [Proc -> File \cup {None}] BY DEF Init
  <2>4. /\ exiting \subseteq Proc /\ killed \subseteq Proc /\ halted \in BOOLEAN
        /\ gone \subseteq Pipe /\ hurt \subseteq Pipe /\ unsaid \subseteq Pipe
        /\ orphan \subseteq File /\ misjudged \in BOOLEAN
    BY DEF Init
  <2>5. QED BY <2>1, <2>2, <2>3, <2>4 DEF Types
<1>5. EndInv /\ OpenInv BY <1>1, <1>2 DEF Init, EndInv, OpenInv
<1>6. PlaceInv BY DEF Init, PlaceInv, InFtable, InPipe
<1>7. Ordered(FreePipe) BY <1>2, FilesAssumption DEF Ordered
<1>8. InOrder BY <1>7 DEF Init, InOrder, Ordered
<1>9. QED BY <1>4, <1>5, <1>6, <1>8 DEF Shape

\* Types, and where the calls of processes are, for every size of the tables.
LEMMA ShapeCorrect == Spec => [](Shape /\ InOrder)
<1>1. Shape /\ InOrder /\ [Next]_vars => Shape' /\ InOrder' BY NextShape
<1>2. QED BY <1>1, InitShape, PTL DEF Spec

\* A pipe gives its readers the bytes that were written to it, in their order,
\* none twice and none overwritten, for any number of readers and writers and
\* any size of the ring, also when its page or its files were replaced.
THEOREM BytesInOrder == Spec => []InOrder
BY ShapeCorrect, PTL

-----------------------------------------------------------------------------
(* Sleepers. *)

\* What SleepsForReason says of one process.
Reasoned(q) ==
    LET a == ff[q].pipe IN
    a \notin hurt =>
        /\ pc[q] = "rsleep" => /\ pipe[a].writeopen
                               /\ pipe[a].nread = pipe[a].nwrite \/ a \in unsaid
        /\ pc[q] = "wsleep" => /\ pipe[a].readopen
                               /\ pipe[a].nwrite = pipe[a].nread + PIPESIZE

\* SleepsForReason, process by process.
LEMMA SleepsReasoned ==
    SleepsForReason <=> (~halted /\ orphan = {} => \A q \in Proc : Reasoned(q))
BY DEF SleepsForReason, Reasoned

\* A step that puts nobody to sleep and leaves the pipes of the sleepers alone.
LEMMA QuietSleep ==
    ASSUME SleepsForReason, ~halted, orphan \subseteq orphan', hurt \subseteq hurt',
           unsaid' = unsaid,
           \A q \in Proc : pc'[q] \in {"rsleep", "wsleep"} =>
               /\ pc'[q] = pc[q] /\ ff'[q] = ff[q]
               /\ Reasoned(q) /\ ff[q].pipe \notin hurt' => pipe'[ff[q].pipe] = pipe[ff[q].pipe]
    PROVE  SleepsForReason'
<1> SUFFICES ASSUME orphan' = {}, NEW q \in Proc PROVE Reasoned(q)'
  BY DEF Reasoned, SleepsForReason
<1>1. Reasoned(q) BY SleepsReasoned
<1>2. CASE pc'[q] \notin {"rsleep", "wsleep"} BY <1>2 DEF Reasoned
<1>3. CASE pc'[q] \in {"rsleep", "wsleep"} /\ ff[q].pipe \notin hurt'
  <2>1. pc'[q] = pc[q] /\ ff'[q] = ff[q] /\ pipe'[ff[q].pipe] = pipe[ff[q].pipe]
    BY <1>1, <1>3
  <2>2. ff[q].pipe \notin hurt BY <1>3
  <2>3. QED BY <1>1, <2>1, <2>2 DEF Reasoned
<1>4. CASE pc'[q] \in {"rsleep", "wsleep"} /\ ff[q].pipe \in hurt' BY <1>4 DEF Reasoned
<1>5. QED BY <1>2, <1>3, <1>4

\* Steps outside of the pipes.
LEMMA SystemCallSleep ==
    ASSUME Shape, SleepsForReason, NEW p \in Proc,
           \/ Pipealloc(p) \/ OpenAlloc(p) \/ OpenFd(p) \/ ExitLoop(p) \/ Fileclose(p)
           \/ FinishFileRecovery(p) \/ SysPipe(p) \/ Exit(p)
           \/ \E i \in Inode : SysOpen(p, i)
           \/ \E d \in Fd : SysDup(p, d) \/ SysClose(p, d)
           \/ \E d \in Fd, n \in 1..MaxWrite : SysRw(p, d, n)
           \/ \E q \in Proc : Fork(p, q) \/ Kill(p, q)
    PROVE  SleepsForReason'
<1>1. ~halted
  BY DEF Pipealloc, OpenAlloc, OpenFd, ExitLoop, Fileclose, FinishFileRecovery, SysPipe, Exit,
         SysOpen, SysDup, SysClose, SysRw, Fork, Kill, StartCall, At
<1>2. pipe' = pipe /\ UNCHANGED <<orphan, hurt, unsaid>>
  BY DEF Pipealloc, OpenAlloc, OpenFd, ExitLoop, Fileclose, FinishFileRecovery, SysPipe, Exit,
         SysOpen, SysDup, SysClose, SysRw, Fork, Kill, tables, history
<1>3. \A q \in Proc : pc'[q] \in {"rsleep", "wsleep"} => pc'[q] = pc[q] /\ ff'[q] = ff[q]
  <2>1. CASE Pipealloc(p) BY <2>1 DEF Pipealloc, Goto, Shape, Types
  <2>2. CASE OpenAlloc(p) BY <2>2 DEF OpenAlloc, Return, Goto, Shape, Types
  <2>3. CASE OpenFd(p) BY <2>3 DEF OpenFd, Return, Goto, Shape, Types
  <2>4. CASE ExitLoop(p) BY <2>4 DEF ExitLoop, Goto, Shape, Types
  <2>5. CASE Fileclose(p)
    <3>1. \/ UNCHANGED <<pc, ff>> \/ Closed(p, {}, "user")
          \/ /\ \E e : ff' = [ff EXCEPT ![p] = e]
             /\ pc' = [pc EXCEPT ![p] = "pipeclose"]
      BY <2>5 DEF Fileclose, locals, Goto
    <3>2. QED BY <3>1 DEF Closed, WakeAndGoto, Shape, Types
  <2>6. CASE FinishFileRecovery(p) BY <2>6 DEF FinishFileRecovery, Return, Goto, Shape, Types
  <2>7. CASE SysPipe(p) BY <2>7 DEF SysPipe, Goto, Shape, Types
  <2>8. CASE Exit(p) BY <2>8 DEF Exit, Goto, locals, Shape, Types
  <2>9. CASE \E i \in Inode : SysOpen(p, i) BY <2>9 DEF SysOpen, Goto, Shape, Types
  <2>10. CASE \E d \in Fd : SysDup(p, d) \/ SysClose(p, d)
    BY <2>10 DEF SysDup, SysClose, calls, locals, Goto, Shape, Types
  <2>11. CASE \E d \in Fd, n \in 1..MaxWrite : SysRw(p, d, n) BY SMTT(60), <2>11 DEF SysRw, Goto, Shape, Types
  <2>12. CASE \E q \in Proc : Fork(p, q) \/ Kill(p, q)
    BY <2>12 DEF Fork, Kill, Goto, locals, Shape, Types
  <2>13. QED
    BY <2>1, <2>2, <2>3, <2>4, <2>5, <2>6, <2>7, <2>8, <2>9, <2>10, <2>11, <2>12
<1>4. QED BY <1>1, <1>2, <1>3, QuietSleep

\* pipealloc takes a page that nobody sleeps in.
LEMMA PipeFdsSleep ==
    ASSUME Shape, SleepsForReason, NEW p \in Proc, PipeFds(p)
    PROVE  SleepsForReason'
<1>1. ~halted /\ UNCHANGED <<ff, orphan, hurt, unsaid>> BY DEF PipeFds, At, history
<1>2. \A q \in Proc : pc'[q] \in {"rsleep", "wsleep"} => pc'[q] = pc[q]
  BY DEF PipeFds, Goto, Shape, Types
<1>3. \A c \in Pipe : pipe'[c] = pipe[c] \/ ~pipe[c].used BY DEF PipeFds, Shape, Types
<1>4. ASSUME NEW q \in Proc, pc[q] \in {"rsleep", "wsleep"}, Reasoned(q), ff[q].pipe \notin hurt
      PROVE  pipe'[ff[q].pipe] = pipe[ff[q].pipe]
  <2>1. ff[q].pipe \in Pipe BY <1>4 DEF Shape, PlaceInv, InPipe
  <2>2. pipe[ff[q].pipe].used BY <1>4, <2>1 DEF Reasoned, Shape, OpenInv
  <2>3. QED BY <1>3, <2>1, <2>2
<1>5. QED BY <1>1, <1>2, <1>4, QuietSleep

\* What a memory error did to a pipe is excepted.
LEMMA HitSleep ==
    ASSUME Shape, InOrder, SleepsForReason, NEW p \in Proc,
           PipeHit(p) \/ FileHit(p) \/ \E d \in Fd : FileHitCall(p, d)
    PROVE  SleepsForReason'
<1>1. CASE PipeHit(p)
  <2>1. ~halted /\ UNCHANGED unsaid BY <1>1 DEF PipeHit, OnPipe, At
  <2>2. CASE \E q \in Proc \ {p} : pc[q] \in InPipe
    BY <1>1, <2>2 DEF PipeHit, Halt, SleepsForReason
  <2>3. CASE ~(\E q \in Proc \ {p} : pc[q] \in InPipe)
    <3>1. PICK b, new : /\ pipe' = [pipe EXCEPT ![b] = new] /\ hurt' = hurt \cup {ff[p].pipe, b}
                        /\ orphan \subseteq orphan' /\ Return(p)
      BY <1>1, <2>3 DEF PipeHit
    <3>2. \A q \in Proc : pc'[q] \in {"rsleep", "wsleep"} =>
            pc'[q] = pc[q] /\ ff'[q] = ff[q]
      BY <3>1 DEF Return, Goto, Shape, Types
    <3>3. \A c \in Pipe : c \notin hurt' => pipe'[c] = pipe[c]
      BY <3>1 DEF Shape, Types
    <3>4. \A q \in Proc : pc[q] \in {"rsleep", "wsleep"} => ff[q].pipe \in Pipe
      BY DEF Shape, PlaceInv, InPipe
    <3>5. \A q \in Proc : pc'[q] \in {"rsleep", "wsleep"} =>
               /\ pc'[q] = pc[q] /\ ff'[q] = ff[q]
               /\ Reasoned(q) /\ ff[q].pipe \notin hurt' => pipe'[ff[q].pipe] = pipe[ff[q].pipe]
      BY <3>2, <3>3, <3>4
    <3>6. hurt \subseteq hurt' BY <3>1
    <3>7. QED BY <2>1, <3>1, <3>5, <3>6, QuietSleep
  <2>4. QED BY <2>2, <2>3
<1>2. ASSUME NEW f \in File, StartFileRecovery(p, f), ~halted PROVE SleepsForReason'
  <2>1. PICK r, w : r = LastEnd(f, FALSE) /\ w = LastEnd(f, TRUE) OBVIOUS
  <2>2. PICK left : left = IF r # None /\ w = None THEN r
                           ELSE IF r = None /\ w # None THEN w ELSE None
    OBVIOUS
  <2>3. /\ pipe' = IF left = None THEN pipe
                   ELSE IF left = r THEN [pipe EXCEPT ![file[r].pipe].readopen = FALSE]
                   ELSE [pipe EXCEPT ![file[w].pipe].writeopen = FALSE]
        /\ hurt' = hurt \cup (IF left = None THEN {} ELSE {file[left].pipe})
                        \cup (IF file[f].type = "pipe" THEN {file[f].pipe} ELSE {})
    BY <1>2, <2>1, <2>2 DEF StartFileRecovery
  <2>4. /\ orphan \subseteq orphan' /\ unsaid' = unsaid /\ ff' = ff
        /\ pc' = [pc EXCEPT ![p] = "drain"]
    BY <1>2 DEF StartFileRecovery, Goto
  <2>5. \A q \in Proc : pc'[q] \in {"rsleep", "wsleep"} => pc'[q] = pc[q]
    BY <2>4 DEF Shape, Types
  <2>6. \A q \in Proc : pc[q] \in {"rsleep", "wsleep"} => ff[q].pipe \in Pipe
    BY DEF Shape, PlaceInv, InPipe
  <2>7. \A c \in Pipe : c \notin hurt' => pipe'[c] = pipe[c]
    <3>1. CASE left = None BY <2>3, <3>1
    <3>2. CASE left # None /\ left = r BY <2>3, <3>2 DEF Shape, Types
    <3>3. CASE left # None /\ left # r
      <4>1. left = w BY <2>2, <3>3
      <4>2. QED BY <2>3, <3>3, <4>1 DEF Shape, Types
    <3>4. QED BY <3>1, <3>2, <3>3
  <2>8. hurt \subseteq hurt' BY <2>3
  <2>9. \A q \in Proc : pc'[q] \in {"rsleep", "wsleep"} =>
             /\ pc'[q] = pc[q] /\ ff'[q] = ff[q]
             /\ Reasoned(q) /\ ff[q].pipe \notin hurt' => pipe'[ff[q].pipe] = pipe[ff[q].pipe]
    BY <2>4, <2>5, <2>6, <2>7
  <2>10. QED BY <1>2, <2>4, <2>8, <2>9, QuietSleep
<1>3. CASE FileHit(p)
  <2>1. cur[p] \in File BY <1>3 DEF FileHit, At, Shape, PlaceInv, InFtable
  <2>2. QED BY <1>2, <1>3, <2>1 DEF FileHit, At
<1>4. ASSUME NEW d \in Fd, FileHitCall(p, d) PROVE SleepsForReason'
  <2>1. ofile[p][d] \in File BY <1>4 DEF FileHitCall, Shape, Types
  <2>2. QED BY <1>2, <1>4, <2>1 DEF FileHitCall, StartCall, At
<1>5. QED BY <1>1, <1>3, <1>4

\* pipeclose wakes the other end: it keeps no sleeper who waits for the end
\* that is closed.
LEMMA PipecloseSleep ==
    ASSUME Shape, SleepsForReason, NEW p \in Proc, Pipeclose(p)
    PROVE  SleepsForReason'
<1>1. PICK a \in Pipe : a = ff[p].pipe
  BY DEF Pipeclose, OnPipe, At, Shape, PlaceInv, InPipe
<1>2. ~halted /\ pc[p] = "pipeclose" /\ UNCHANGED <<halted, orphan, hurt, unsaid>>
  BY DEF Pipeclose, OnPipe, At, history
<1>3. PICK new : new = IF ff[p].wr THEN [pipe[a] EXCEPT !.writeopen = FALSE]
                                   ELSE [pipe[a] EXCEPT !.readopen = FALSE]
  OBVIOUS
<1>4. pipe' = [pipe EXCEPT ![a] = IF new.readopen \/ new.writeopen THEN new ELSE FreePipe]
  BY <1>1, <1>3 DEF Pipeclose, Pi
<1>5. pipe[a] \in PipeRec BY DEF Shape, Types
<1>6. /\ new.nread = pipe[a].nread /\ new.nwrite = pipe[a].nwrite
      /\ ff[p].wr => new.readopen = pipe[a].readopen
      /\ ~ff[p].wr => new.writeopen = pipe[a].writeopen
  BY ONLY <1>3, <1>5 DEF PipeRec
<1>7. /\ ff[p].wr => Closed(p, Sleepers("rsleep", a), "read")
      /\ ~ff[p].wr => Closed(p, Sleepers("wsleep", a), "write")
  BY <1>1 DEF Pipeclose
<1>8. ASSUME NEW q \in Proc, pc'[q] \in {"rsleep", "wsleep"}, orphan' = {}
      PROVE  Reasoned(q)'
  <2>1. q # p /\ pc'[q] = pc[q] /\ ff'[q] = ff[q]
    BY <1>7, <1>8 DEF Closed, WakeAndGoto, Shape, Types
  <2>2. Reasoned(q) BY <1>2, <1>8, SleepsReasoned
  <2>3. CASE ff[q].pipe # a
    <3>1. ff[q].pipe \in Pipe BY <1>8, <2>1 DEF Shape, PlaceInv, InPipe
    <3>2. pipe'[ff[q].pipe] = pipe[ff[q].pipe] BY <1>4, <2>3, <3>1 DEF Shape, Types
    <3>3. QED BY <1>2, <2>1, <2>2, <3>2 DEF Reasoned
  <2>4. CASE ff[q].pipe = a /\ a \in hurt BY <1>2, <2>1, <2>4 DEF Reasoned
  <2>5. CASE ff[q].pipe = a /\ a \notin hurt
    <3>1. pc[q] = IF ff[p].wr THEN "wsleep" ELSE "rsleep"
      BY <1>7, <1>8, <2>1, <2>5 DEF Closed, WakeAndGoto, Sleepers, Shape, Types
    <3>2. new.readopen \/ new.writeopen BY <1>6, <2>2, <2>5, <3>1 DEF Reasoned
    <3>3. pipe'[a] = new BY <1>4, <3>2 DEF Shape, Types
    <3>4. QED BY <1>2, <1>6, <2>1, <2>2, <2>5, <3>1, <3>3 DEF Reasoned
  <2>6. QED BY <2>3, <2>4, <2>5
<1>9. \A q \in Proc : pc'[q] \notin {"rsleep", "wsleep"} => Reasoned(q)' BY DEF Reasoned
<1>10. QED BY <1>8, <1>9 DEF Reasoned, SleepsForReason

\* piperead sleeps on an empty pipe that has a writer, and wakes the writers.
LEMMA PipereadSleep ==
    ASSUME Shape, InOrder, SleepsForReason, NEW p \in Proc, Piperead(p)
    PROVE  SleepsForReason'
<1>1. PICK a \in Pipe : a = ff[p].pipe
  BY DEF Piperead, OnPipe, At, Shape, PlaceInv, InPipe
<1>2. ~halted /\ pc[p] = "read" /\ UNCHANGED <<halted, orphan, hurt>>
  BY DEF Piperead, OnPipe, At
<1>3. arg[p] >= 1 BY <1>2 DEF Shape, PlaceInv
<1>4. PICK k \in Nat : k = Min({arg[p], Pi(p).nwrite - Pi(p).nread})
                       /\ (k = 0 => Pi(p).nwrite = Pi(p).nread)
  <2>1. arg[p] # 0 BY <1>3
  <2>2. QED BY <1>1, <2>1, ReadBytes DEF Shape
<1>5. CASE k = 0 /\ Pi(p).writeopen
  <2>1. UNCHANGED <<pipe, unsaid>> BY <1>4, <1>5 DEF Piperead
  <2>2. CASE Return(p)
    <3>1. \A q \in Proc : pc'[q] \in {"rsleep", "wsleep"} => pc'[q] = pc[q] /\ ff'[q] = ff[q]
      BY <2>2 DEF Return, Goto, Shape, Types
    <3>2. QED BY <1>2, <2>1, <3>1, QuietSleep
  <2>3. CASE Goto(p, "rsleep") /\ UNCHANGED locals
    <3>1. ff' = ff /\ pc' = [pc EXCEPT ![p] = "rsleep"] BY <2>3 DEF locals, Goto
    <3>2. ASSUME NEW q \in Proc, orphan' = {} PROVE Reasoned(q)'
      <4>1. CASE q = p
        BY <1>1, <1>2, <1>4, <1>5, <2>1, <3>1, <4>1 DEF Reasoned, Pi, Shape, Types
      <4>2. CASE q # p
        <5>1. Reasoned(q) BY <1>2, <3>2, SleepsReasoned
        <5>2. pc'[q] = pc[q] BY <3>1, <4>2 DEF Shape, Types
        <5>3. QED BY <1>2, <2>1, <3>1, <5>1, <5>2 DEF Reasoned
      <4>3. QED BY <4>1, <4>2
    <3>3. QED BY <3>2 DEF Reasoned, SleepsForReason
  <2>4. QED BY <1>4, <1>5, <2>2, <2>3 DEF Piperead
<1>6. CASE ~(k = 0 /\ Pi(p).writeopen)
  <2>1. /\ pipe' = [pipe EXCEPT ![a].nread = @ + k]
        /\ WakeAndGoto(Sleepers("wsleep", a), "write", p, "user")
        /\ ff' = [ff EXCEPT ![p] = NoPipe]
        /\ unsaid' = IF k + Pi(p).nread = Pi(p).nwrite THEN unsaid \ {a} ELSE unsaid
    BY <1>1, <1>4, <1>6 DEF Piperead
  <2>2. PICK pi \in PipeRec : pi = pipe[a] BY DEF Shape, Types
  <2>3. PICK r \in Nat, w \in Nat : r = pi.nread /\ w = pi.nwrite BY DEF PipeRec
  <2>4. PICK e \in Nat : e = r + k OBVIOUS
  <2>5. PICK new : new = [pi EXCEPT !.nread = e] OBVIOUS
  <2>6. new.nread = e /\ new.nwrite = w /\ new.writeopen = pi.writeopen
    BY ONLY <2>3, <2>5, pi \in PipeRec, e \in Nat DEF PipeRec
  <2>7. pipe' = [pipe EXCEPT ![a] = new] BY <2>1, <2>2, <2>3, <2>4, <2>5
  <2>8. unsaid' = IF e = w THEN unsaid \ {a} ELSE unsaid
    BY <1>1, <2>1, <2>2, <2>3, <2>4 DEF Pi
  <2>9. ASSUME NEW q \in Proc, pc'[q] \in {"rsleep", "wsleep"}, orphan' = {}
        PROVE  Reasoned(q)'
    <3>1. q # p /\ pc'[q] = pc[q] /\ ff'[q] = ff[q]
      BY <2>1, <2>9 DEF WakeAndGoto, Shape, Types
    <3>2. Reasoned(q) BY <1>2, <2>9, SleepsReasoned
    <3>3. ff[q].pipe \in Pipe BY <2>9, <3>1 DEF Shape, PlaceInv, InPipe
    <3>4. CASE ff[q].pipe # a
      <4>1. pipe'[ff[q].pipe] = pipe[ff[q].pipe] BY <2>7, <3>3, <3>4 DEF Shape, Types
      <4>2. ff[q].pipe \in unsaid => ff[q].pipe \in unsaid' BY <2>8, <3>4
      <4>3. QED BY <1>2, <3>1, <3>2, <4>1, <4>2 DEF Reasoned
    <3>5. CASE ff[q].pipe = a /\ a \in hurt BY <1>2, <3>1, <3>5 DEF Reasoned
    <3>6. CASE ff[q].pipe = a /\ a \notin hurt
      <4>1. pc[q] = "rsleep"
        BY <2>1, <2>9, <3>1, <3>6 DEF WakeAndGoto, Sleepers, Shape, Types
      <4>2. pi.writeopen /\ (r = w \/ a \in unsaid)
        BY <2>2, <2>3, <3>2, <3>6, <4>1 DEF Reasoned
      <4>3. k # 0 BY <1>1, <1>6, <2>2, <4>2 DEF Pi
      <4>4. r # w
        <5>1. k <= w - r BY <1>1, <1>4, <2>2, <2>3, ReadBytes DEF Pi, Shape
        <5>2. QED BY <4>3, <5>1
      <4>5. e = w \/ a \in unsaid' BY <2>8, <4>2, <4>4
      <4>6. pipe'[a] = new BY <2>7 DEF Shape, Types
      <4>7. QED BY <2>6, <3>1, <3>6, <4>1, <4>2, <4>5, <4>6 DEF Reasoned
    <3>7. QED BY <3>4, <3>5, <3>6
  <2>10. \A q \in Proc : pc'[q] \notin {"rsleep", "wsleep"} => Reasoned(q)' BY DEF Reasoned
  <2>11. QED BY <2>9, <2>10 DEF Reasoned, SleepsForReason
<1>7. QED BY <1>5, <1>6

\* pipewrite sleeps on a full pipe that has a reader, and wakes the readers but
\* when it fails.
LEMMA PipewriteSleep ==
    ASSUME Shape, InOrder, SleepsForReason, NEW p \in Proc, Pipewrite(p)
    PROVE  SleepsForReason'
<1>1. PICK a \in Pipe : a = ff[p].pipe
  BY DEF Pipewrite, OnPipe, At, Shape, PlaceInv, InPipe
<1>2. ~halted /\ pc[p] = "write" /\ UNCHANGED <<halted, orphan, hurt>>
  BY DEF Pipewrite, OnPipe, At
<1>3. PICK k \in Nat : /\ k = Min({arg[p], PIPESIZE - (Pi(p).nwrite - Pi(p).nread)})
                       /\ k <= PIPESIZE - (Pi(p).nwrite - Pi(p).nread)
                       /\ (k < arg[p] => k = PIPESIZE - (Pi(p).nwrite - Pi(p).nread))
  BY <1>1, WriteBytes DEF Shape
<1>4. PICK full \in BOOLEAN : full <=> (k < arg[p]) OBVIOUS
<1>5. PICK fails \in BOOLEAN : fails = (full /\ (~Pi(p).readopen \/ p \in killed)) OBVIOUS
<1>6. /\ pipe' = [pipe EXCEPT ![a] = Put(pipe[a], k)]
      /\ WakeAndGoto(IF fails THEN {} ELSE Sleepers("rsleep", a), "read", p,
                     IF full /\ ~fails THEN "wsleep" ELSE "user")
      /\ unsaid' = IF fails THEN unsaid \cup {a} ELSE unsaid \ {a}
      /\ IF full /\ ~fails THEN ff' = ff ELSE ff' = [ff EXCEPT ![p] = NoPipe]
  BY <1>1, <1>3, <1>4, <1>5 DEF Pipewrite
<1>7. PICK pi \in PipeRec : pi = pipe[a] BY DEF Shape, Types
<1>8. PICK new : new = Put(pi, k) OBVIOUS
<1>9. Ordered(pi) BY <1>7 DEF InOrder, Ordered
<1>10. new = [pi EXCEPT !.nwrite = pi.nwrite + k, !.data = new.data]
  BY <1>1, <1>3, <1>7, <1>8, <1>9, PutOrdered DEF Pi
<1>11. PICK r \in Nat, w \in Nat : r = pi.nread /\ w = pi.nwrite BY DEF PipeRec
<1>12. PICK e \in Nat : e = w + k OBVIOUS
<1>13. /\ new.nread = r /\ new.nwrite = e
       /\ new.readopen = pi.readopen /\ new.writeopen = pi.writeopen
  BY ONLY <1>10, <1>11, <1>12, pi \in PipeRec DEF PipeRec
<1>14. pipe' = [pipe EXCEPT ![a] = new] BY <1>6, <1>7, <1>8
<1>15. pipe'[a] = new BY <1>14 DEF Shape, Types
<1>16. w = r + PIPESIZE => k = 0
  <2>1. k <= PIPESIZE - (w - r) BY <1>1, <1>3, <1>7, <1>11 DEF Pi
  <2>2. QED BY <2>1, FilesAssumption
<1>17. full => e = r + PIPESIZE
  <2>1. full => k = PIPESIZE - (w - r) BY <1>1, <1>3, <1>4, <1>7, <1>11 DEF Pi
  <2>2. QED BY <1>12, <2>1, FilesAssumption
<1>18. ASSUME NEW q \in Proc, pc'[q] \in {"rsleep", "wsleep"}, orphan' = {}
       PROVE  Reasoned(q)'
  <2>1. CASE q = p
    <3>1. full /\ ~fails /\ pc'[q] = "wsleep" BY <1>6, <1>18, <2>1 DEF WakeAndGoto, Shape, Types
    <3>2. ff'[q] = ff[q] BY <1>6, <3>1
    <3>3. pi.readopen BY <1>1, <1>5, <1>7, <3>1 DEF Pi
    <3>4. e = r + PIPESIZE BY <1>17, <3>1
    <3>5. QED BY <1>1, <1>13, <1>15, <2>1, <3>1, <3>2, <3>3, <3>4 DEF Reasoned
  <2>2. CASE q # p
    <3>1. pc'[q] = pc[q] /\ ff'[q] = ff[q]
      BY <1>6, <1>18, <2>2 DEF WakeAndGoto, Shape, Types
    <3>2. Reasoned(q) BY <1>2, <1>18, SleepsReasoned
    <3>3. ff[q].pipe \in Pipe BY <1>18, <3>1 DEF Shape, PlaceInv, InPipe
    <3>4. CASE ff[q].pipe # a
      <4>1. pipe'[ff[q].pipe] = pipe[ff[q].pipe] BY <1>14, <3>3, <3>4 DEF Shape, Types
      <4>2. ff[q].pipe \in unsaid => ff[q].pipe \in unsaid' BY <1>6, <3>4
      <4>3. QED BY <1>2, <3>1, <3>2, <4>1, <4>2 DEF Reasoned
    <3>5. CASE ff[q].pipe = a /\ a \in hurt BY <1>2, <3>1, <3>5 DEF Reasoned
    <3>6. CASE ff[q].pipe = a /\ a \notin hurt /\ pc[q] = "rsleep"
      <4>1. fails
        BY <1>6, <1>18, <2>2, <3>1, <3>6 DEF WakeAndGoto, Sleepers, Shape, Types
      <4>2. a \in unsaid' /\ pi.writeopen BY <1>6, <1>7, <3>2, <3>6, <4>1 DEF Reasoned
      <4>3. QED BY <1>13, <1>15, <3>1, <3>6, <4>2 DEF Reasoned
    <3>7. CASE ff[q].pipe = a /\ a \notin hurt /\ pc[q] = "wsleep"
      <4>1. pi.readopen /\ w = r + PIPESIZE BY <1>7, <1>11, <3>2, <3>7 DEF Reasoned
      <4>2. e = r + PIPESIZE BY <1>12, <1>16, <4>1
      <4>3. QED BY <1>13, <1>15, <3>1, <3>7, <4>1, <4>2 DEF Reasoned
    <3>8. QED BY <1>18, <3>1, <3>4, <3>5, <3>6, <3>7
  <2>3. QED BY <2>1, <2>2
<1>19. \A q \in Proc : pc'[q] \notin {"rsleep", "wsleep"} => Reasoned(q)' BY DEF Reasoned
<1>20. QED BY <1>18, <1>19 DEF Reasoned, SleepsForReason

\* No step puts a process to sleep, or leaves it asleep, without a reason.
LEMMA NextSleep ==
    ASSUME Shape, InOrder, SleepsForReason, [Next]_vars
    PROVE  SleepsForReason'
<1>1. ASSUME NEW p \in Proc, ProcNext(p) PROVE SleepsForReason'
  BY <1>1, SystemCallSleep, PipeFdsSleep, PipecloseSleep, PipereadSleep, PipewriteSleep DEF ProcNext
<1>2. ASSUME NEW p \in Proc, SysPipe(p) \/ Exit(p) \/ PipeHit(p) \/ FileHit(p)
      PROVE  SleepsForReason'
  BY <1>2, SystemCallSleep, HitSleep
<1>3. ASSUME NEW p \in Proc, NEW i \in Inode, SysOpen(p, i) PROVE SleepsForReason'
  BY <1>3, SystemCallSleep
<1>4. ASSUME NEW p \in Proc, NEW d \in Fd, SysDup(p, d) \/ SysClose(p, d) \/ FileHitCall(p, d)
      PROVE  SleepsForReason'
  BY <1>4, SystemCallSleep, HitSleep
<1>5. ASSUME NEW p \in Proc, NEW d \in Fd, NEW n \in 1..MaxWrite, SysRw(p, d, n)
      PROVE  SleepsForReason'
  BY <1>5, SystemCallSleep
<1>6. ASSUME NEW p \in Proc, NEW q \in Proc, Fork(p, q) \/ Kill(p, q) PROVE SleepsForReason'
  BY <1>6, SystemCallSleep
<1>7. CASE UNCHANGED vars
  BY <1>7 DEF vars, tables, calls, locals, history, SleepsForReason
<1>8. QED BY <1>1, <1>2, <1>3, <1>4, <1>5, <1>6, <1>7 DEF Next

\* piperead, pipewrite and pipeclose miss no wakeup, for any number of readers
\* and writers: a sleeping reader has nothing to read and somebody to wait for,
\* a sleeping writer no room; but a killed writer leaves bytes unsaid.
THEOREM SleepersHaveReason == Spec => []SleepsForReason
<1>1. Init => SleepsForReason BY DEF Init, SleepsForReason
<1>2. Shape /\ InOrder /\ SleepsForReason /\ [Next]_vars => SleepsForReason'
  BY NextSleep
<1>3. QED BY <1>1, <1>2, ShapeCorrect, PTL DEF Spec

-----------------------------------------------------------------------------
(* The counts of the file table.  The references to files are one function,*)
(* from the places where a process may have a file to files, and a count   *)
(* is the number of places that refer to the file.  A step changes a few   *)
(* places of one process, so its effect on a count is arithmetic:          *)
(* CountChange and its corollaries.                                        *)
(*                                                                         *)
(* What counts as a reference of a file:                                   *)

\* The places where a process may have a file: the two its call has in hand,
\* and its descriptors.
Place == Proc \X ((-1)..NOFILE)

\* The file that p refers to at place k, if the reference counts.
Ref(p, k) ==
    IF k = 0
    THEN IF pc[p] \in {"pipe2", "pipefds", "openfd"} \/ (pc[p] = "close" /\ p \notin exiting)
         THEN cur[p] ELSE None
    ELSE IF k = -1
    THEN IF pc[p] \in {"pipefds", "close", "pipeclose"} THEN cur2[p] ELSE None
    ELSE IF p \in exiting /\ pc[p] = "pipeclose" /\ arg[p] = k THEN None ELSE ofile[p][k]

Refs == [x \in Place |-> Ref(x[1], x[2])]

\* How many places of R refer to f.
Count(R, f) == Cardinality({x \in DOMAIN R : R[x] = f})

\* The same for inodes: open files, and calls of open.
InodePlace == ({0} \X File) \cup ({1} \X Proc)
Ip(f) == IF file[f].type = "inode" THEN file[f].ip ELSE None
Opens(p) == IF pc[p] \in {"namei", "openfd"} THEN arg[p] ELSE None
InodeMap == [x \in InodePlace |-> IF x[1] = 0 THEN Ip(x[2]) ELSE Opens(x[2])]

-----------------------------------------------------------------------------
(* The inductive invariant. *)

\* Where the places of a process are in use.
CallOK(p) ==
    /\ pc[p] = "unused" => p \notin exiting /\ \A d \in Fd : ofile[p][d] = None
    /\ p \in exiting => pc[p] \in {"user", "exit", "close", "pipeclose", "drain"}
    /\ pc[p] = "exit" => p \in exiting
    /\ cur2[p] # None => pc[p] \in {"pipefds", "close", "pipeclose", "drain"}
    /\ p \in exiting /\ pc[p] # "drain" => cur2[p] = None
    /\ pc[p] = "pipefds" => cur2[p] \in File
    /\ p \in exiting /\ pc[p] \in {"close", "pipeclose"} =>
           arg[p] \in Fd /\ ofile[p][arg[p]] = cur[p]

CallInv ==
    /\ \A p \in Proc : CallOK(p)
    /\ \A p, q \in Proc : pc[p] = "drain" /\ pc[q] = "drain" => p = q

\* p's handler moves the table because f was hit.
Drains(p, f) == pc[p] = "drain" /\ cur[p] = f

\* The count of a file; the handler's process has a reference of the broken
\* file itself, as a descriptor or in the close that was hit.
RefInv ==
    \A f \in File \ orphan :
        /\ (\A p \in Proc : ~Drains(p, f)) => file[f].ref = Count(Refs, f)
        /\ \A p \in Proc : Drains(p, f) =>
             \/ file[f].ref = Count(Refs, f) + 1
             \/ file[f].ref = Count(Refs, f) /\ \E d \in Fd : ofile[p][d] = f

\* A file that pipe or open has allocated is nobody else's and has no type.
New(f) == file[f].type = "none" /\ file[f].ref = 1 /\ \A q \in Proc : ~Drains(q, f)
NewOK(p) ==
    /\ pc[p] \in {"pipe2", "pipefds", "openfd"} /\ cur[p] \notin orphan => New(cur[p])
    /\ pc[p] = "pipefds" /\ cur2[p] \notin orphan => New(cur2[p])
NewInv ==
    /\ \A p \in Proc : NewOK(p)
    /\ \A f \in File \ orphan : file[f].ref = 0 => file[f].type = "none"

\* An end of a pipe: as a file, or in the hands of a process that closes it.
IsEnd(f, a, wr) == file[f].type = "pipe" /\ file[f].pipe = a /\ file[f].wr = wr
Closes(p, a, wr) == pc[p] = "pipeclose" /\ ff[p] = [pipe |-> a, wr |-> wr]

\* A pipe has each of its ends once, or it is closed.
EndsInv ==
    \A a \in Pipe \ hurt : \A wr \in BOOLEAN :
        LET open == IF wr THEN pipe[a].writeopen ELSE pipe[a].readopen IN
        /\ open <=> (\E f \in File : IsEnd(f, a, wr)) \/ (\E p \in Proc : Closes(p, a, wr))
        /\ \A f, g \in File : IsEnd(f, a, wr) /\ IsEnd(g, a, wr) => f = g
        /\ \A p, q \in Proc : Closes(p, a, wr) /\ Closes(q, a, wr) => p = q
        /\ \A f \in File, p \in Proc : ~(IsEnd(f, a, wr) /\ Closes(p, a, wr))
UsedInv == \A a \in Pipe \ hurt : pipe[a].used <=> pipe[a].readopen \/ pipe[a].writeopen

\* What the file handler does to a pipe is excepted until it is done.
DrainInv == \A p \in Proc, f \in File : Drains(p, f) /\ file[f].type = "pipe" => file[f].pipe \in hurt

InodeInv == \A i \in Inode : ref[i] = Count(InodeMap, i)

EndInvs == EndsInv /\ UsedInv /\ DrainInv

\* What holds as long as nothing has halted: the counts of the files; the ends
\* of the pipes, as long as no handler cut off a call; the counts of the inodes,
\* as long as the file handler dropped the right ones too.
Counted == CallInv /\ (~halted => RefInv /\ NewInv)
Ended == ~halted /\ orphan = {} => EndInvs
Dropping == ~halted /\ orphan = {} /\ ~misjudged => InodeInv

-----------------------------------------------------------------------------
(* Counting. *)

\* One place changes.
LEMMA CountChange ==
    ASSUME NEW D, IsFiniteSet(D), NEW R, NEW S, DOMAIN R = D, DOMAIN S = D,
           NEW x \in D, \A y \in D \ {x} : S[y] = R[y], NEW f
    PROVE  /\ Count(R, f) \in Nat /\ Count(S, f) \in Nat
           /\ Count(S, f) = Count(R, f) - (IF R[x] = f THEN 1 ELSE 0)
                                        + (IF S[x] = f THEN 1 ELSE 0)
<1> DEFINE A == {y \in D : R[y] = f}
           B == {y \in D : S[y] = f}
<1>1. A \in SUBSET D /\ B \in SUBSET D OBVIOUS
<1>2. IsFiniteSet(A) /\ IsFiniteSet(B) BY <1>1, FS_Subset
<1>3. Cardinality(A) \in Nat /\ Cardinality(B) \in Nat BY <1>2, FS_CardinalityType
<1>4. A \ {x} = B \ {x} OBVIOUS
<1>5. Cardinality(A \ {x}) = IF x \in A THEN Cardinality(A) - 1 ELSE Cardinality(A)
  BY <1>2, FS_RemoveElement
<1>6. Cardinality(B \ {x}) = IF x \in B THEN Cardinality(B) - 1 ELSE Cardinality(B)
  BY <1>2, FS_RemoveElement
<1>7. (x \in A <=> R[x] = f) /\ (x \in B <=> S[x] = f) OBVIOUS
<1>8. Count(R, f) = Cardinality(A) /\ Count(S, f) = Cardinality(B) BY DEF Count
<1> HIDE DEF A, B
<1>9. QED BY <1>3, <1>4, <1>5, <1>6, <1>7, <1>8

\* Places that refer to f are places that did.
LEMMA CountSame ==
    ASSUME NEW R, NEW S, DOMAIN R = DOMAIN S, NEW f,
           \A y \in DOMAIN R : S[y] = f <=> R[y] = f
    PROVE  Count(S, f) = Count(R, f)
<1>1. {y \in DOMAIN R : R[y] = f} = {y \in DOMAIN S : S[y] = f} OBVIOUS
<1>2. QED BY <1>1 DEF Count

\* How many places there are at least.
LEMMA CountAtLeast ==
    ASSUME NEW R, IsFiniteSet(DOMAIN R), NEW f
    PROVE  /\ Count(R, f) \in Nat
           /\ Count(R, f) = 0 <=> \A x \in DOMAIN R : R[x] # f
           /\ \A x, y \in DOMAIN R : R[x] = f /\ R[y] = f /\ x # y => Count(R, f) >= 2
<1> DEFINE A == {y \in DOMAIN R : R[y] = f}
<1>1. A \in SUBSET DOMAIN R OBVIOUS
<1>2. IsFiniteSet(A) BY <1>1, FS_Subset
<1>3. Cardinality(A) \in Nat BY <1>2, FS_CardinalityType
<1>4. Cardinality(A) = 0 <=> A = {} BY <1>2, FS_EmptySet
<1>5. Cardinality(A) = 1 => \E x : A = {x} BY <1>2, FS_Singleton
<1>6. ASSUME NEW x \in DOMAIN R, NEW y \in DOMAIN R, R[x] = f, R[y] = f, x # y
      PROVE  Cardinality(A) >= 2
  <2>1. x \in A /\ y \in A BY <1>6
  <2> HIDE DEF A
  <2>2. Cardinality(A) # 0 /\ Cardinality(A) # 1 BY <1>4, <1>5, <1>6, <2>1
  <2>3. QED BY <1>3, <2>2
<1>7. QED BY <1>3, <1>4, <1>6 DEF Count

\* A row of places is filled.
LEMMA CountRow ==
    ASSUME NEW D, IsFiniteSet(D), NEW R, NEW S, DOMAIN R = D, DOMAIN S = D, NEW f,
           NEW X \in SUBSET D, \A y \in D : S[y] = f <=> R[y] = f \/ y \in X,
           \A y \in X : R[y] # f
    PROVE  Count(S, f) = Count(R, f) + Cardinality(X) /\ Cardinality(X) \in Nat
<1> DEFINE A == {y \in D : R[y] = f}
           B == {y \in D : S[y] = f}
<1>1. A \in SUBSET D /\ B = A \cup X /\ A \cap X = {} OBVIOUS
<1>2. IsFiniteSet(A) /\ IsFiniteSet(X) BY <1>1, FS_Subset
<1>3. Cardinality(A) \in Nat /\ Cardinality(X) \in Nat BY <1>2, FS_CardinalityType
<1>4. Cardinality(B) = Cardinality(A) + Cardinality(X) - Cardinality({}) BY <1>1, <1>2, FS_Union
<1>5. Cardinality({}) = 0 BY FS_EmptySet
<1>6. Count(R, f) = Cardinality(A) /\ Count(S, f) = Cardinality(B) BY DEF Count
<1> HIDE DEF A, B
<1>7. QED BY <1>3, <1>4, <1>5, <1>6

\* A copy of a set is as large.
LEMMA CopySize ==
    ASSUME NEW S, IsFiniteSet(S), NEW k
    PROVE  /\ IsFiniteSet(S \X {k}) /\ Cardinality(S \X {k}) = Cardinality(S)
           /\ IsFiniteSet({k} \X S) /\ Cardinality({k} \X S) = Cardinality(S)
<1>1. IsFiniteSet({k}) /\ Cardinality({k}) = 1 BY FS_Singleton
<1>2. Cardinality(S) \in Nat BY FS_CardinalityType
<1>3. /\ IsFiniteSet(S \X {k}) /\ Cardinality(S \X {k}) = Cardinality(S) * Cardinality({k})
      /\ IsFiniteSet({k} \X S) /\ Cardinality({k} \X S) = Cardinality({k}) * Cardinality(S)
  BY <1>1, FS_Product
<1>4. QED BY <1>1, <1>2, <1>3

\* The tables are finite.
LEMMA PlacesFinite ==
    /\ IsFiniteSet(Place) /\ IsFiniteSet(InodePlace)
    /\ IsFiniteSet(Proc) /\ IsFiniteSet(File) /\ IsFiniteSet(Fd)
<1>1. NPROC \in Int /\ NOFILE \in Int /\ NFILE \in Int BY FilesAssumption
<1>2. IsFiniteSet(Proc) /\ IsFiniteSet(File) /\ IsFiniteSet(Fd) /\ IsFiniteSet((-1)..NOFILE)
  BY <1>1, FS_Interval DEF Proc, File, Fd
<1>3. IsFiniteSet(Place) BY <1>2, FS_Product DEF Place
<1>4. IsFiniteSet({0} \X File) /\ IsFiniteSet({1} \X Proc) BY <1>2, CopySize
<1>5. IsFiniteSet(InodePlace) BY <1>4, FS_Union DEF InodePlace
<1>6. QED BY <1>2, <1>3, <1>5

\* The places of a process, and None is no file, process or descriptor.
LEMMA PlaceFacts ==
    /\ None \notin File /\ None \notin Proc /\ None \notin Fd /\ None \notin Inode
    /\ (-1)..NOFILE = {0, -1} \cup Fd /\ 0 \notin Fd /\ -1 \notin Fd
    /\ Place = Proc \X ({0, -1} \cup Fd)
    /\ DOMAIN Refs = Place
<1>1. NOFILE \in Nat \ {0} BY FilesAssumption
<1>2. (-1)..NOFILE = {0, -1} \cup 1..NOFILE BY <1>1
<1>3. QED BY <1>2 DEF None, File, Proc, Fd, Inode, Place, Refs

\* The count of RefExact, as one count.
LEMMA RefsCounted ==
    ASSUME Types, NEW f \in File
    PROVE  LET fds == {x \in Proc \X Fd : ofile[x[1]][x[2]] = f
                          /\ ~(x[1] \in exiting /\ pc[x[1]] = "pipeclose" /\ arg[x[1]] = x[2])}
           IN Count(Refs, f) = Cardinality(fds) + Cardinality(InFlight(f)) + Cardinality(InFlight2(f))
<1> DEFINE fds == {x \in Proc \X Fd : ofile[x[1]][x[2]] = f
                          /\ ~(x[1] \in exiting /\ pc[x[1]] = "pipeclose" /\ arg[x[1]] = x[2])}
           A == InFlight(f) \X {0}
           B == InFlight2(f) \X {-1}
<1>1. {x \in Place : Refs[x] = f} = fds \cup A \cup B
  <2>1. ASSUME NEW p \in Proc, NEW d \in Fd
        PROVE  Refs[<<p, d>>] = f <=> <<p, d>> \in fds
    BY PlaceFacts DEF Refs, Ref
  <2>2. ASSUME NEW p \in Proc PROVE Refs[<<p, 0>>] = f <=> p \in InFlight(f)
    BY PlaceFacts DEF Refs, Ref, InFlight
  <2>3. ASSUME NEW p \in Proc PROVE Refs[<<p, -1>>] = f <=> p \in InFlight2(f)
    BY PlaceFacts DEF Refs, Ref, InFlight2
  <2>4. InFlight(f) \subseteq Proc /\ InFlight2(f) \subseteq Proc BY DEF InFlight, InFlight2
  <2>5. \A x \in Place : Refs[x] = f <=> x \in fds \cup A \cup B
    <3> SUFFICES ASSUME NEW p \in Proc, NEW k \in {0, -1} \cup Fd
                 PROVE  Refs[<<p, k>>] = f <=> <<p, k>> \in fds \cup A \cup B
      BY PlaceFacts
    <3> HIDE DEF fds
    <3>0. <<p, k>> \in fds => k \in Fd BY DEF fds
    <3>1. CASE k = 0 BY <3>0, <3>1, <2>2, PlaceFacts
    <3>2. CASE k = -1 BY <3>0, <3>2, <2>3, PlaceFacts
    <3>3. CASE k \in Fd BY <3>3, <2>1, PlaceFacts
    <3>4. QED BY <3>1, <3>2, <3>3
  <2>6. fds \cup A \cup B \subseteq Place BY <2>4, PlaceFacts
  <2>7. QED BY <2>5, <2>6
<1>2. fds \in SUBSET Place /\ InFlight(f) \in SUBSET Proc /\ InFlight2(f) \in SUBSET Proc
  BY PlaceFacts DEF InFlight, InFlight2
<1>3. IsFiniteSet(fds) /\ IsFiniteSet(InFlight(f)) /\ IsFiniteSet(InFlight2(f))
  BY <1>2, PlacesFinite, FS_Subset
<1>4. /\ IsFiniteSet(A) /\ Cardinality(A) = Cardinality(InFlight(f))
      /\ IsFiniteSet(B) /\ Cardinality(B) = Cardinality(InFlight2(f))
  BY <1>3, CopySize
<1>5. fds \cap A = {} /\ (fds \cup A) \cap B = {}
  <2>1. \A x \in fds : x[2] \in Fd OBVIOUS
  <2>2. \A x \in A : x[2] = 0 OBVIOUS
  <2>3. \A x \in B : x[2] = -1 OBVIOUS
  <2> HIDE DEF fds, A, B
  <2>4. QED BY <2>1, <2>2, <2>3, PlaceFacts
<1> HIDE DEF fds, A, B
<1>6. /\ IsFiniteSet(fds \cup A)
      /\ Cardinality(fds \cup A) = Cardinality(fds) + Cardinality(A) - Cardinality({})
  BY <1>3, <1>4, <1>5, FS_Union
<1>7. Cardinality(fds \cup A \cup B) = Cardinality(fds \cup A) + Cardinality(B) - Cardinality({})
  BY <1>4, <1>5, <1>6, FS_Union
<1>8. Cardinality({}) = 0 BY FS_EmptySet
<1>9. Cardinality(fds) \in Nat /\ Cardinality(A) \in Nat /\ Cardinality(B) \in Nat
  BY <1>3, <1>4, FS_CardinalityType
<1>10. Count(Refs, f) = Cardinality(fds \cup A \cup B) BY <1>1, PlaceFacts DEF Count
<1>11. Count(Refs, f) = Cardinality(fds) + Cardinality(InFlight(f)) + Cardinality(InFlight2(f))
  BY <1>4, <1>6, <1>7, <1>8, <1>9, <1>10
<1>12. QED BY <1>11 DEF fds

-----------------------------------------------------------------------------
(* The processes that do not take the step. *)

\* What a step may do to a process that does not take it: wake it.
Quiet(q) ==
    /\ \/ pc'[q] = pc[q]
       \/ pc[q] = "rsleep" /\ pc'[q] = "read"
       \/ pc[q] = "wsleep" /\ pc'[q] = "write"
    /\ cur'[q] = cur[q] /\ cur2'[q] = cur2[q] /\ ff'[q] = ff[q] /\ arg'[q] = arg[q]
    /\ ofile'[q] = ofile[q] /\ (q \in exiting' <=> q \in exiting)
Others(p) == \A q \in Proc \ {p} : Quiet(q)

\* A return from a call.
LEMMA ReturnQuiet ==
    ASSUME Types, NEW p \in Proc, Return(p)
    PROVE  /\ pc'[p] = "user" /\ cur'[p] = None /\ cur2'[p] = None /\ ff'[p] = NoPipe /\ arg'[p] = 0
           /\ \A q \in Proc \ {p} : /\ pc'[q] = pc[q] /\ cur'[q] = cur[q] /\ cur2'[q] = cur2[q]
                                    /\ ff'[q] = ff[q] /\ arg'[q] = arg[q]
BY DEF Types, Return, Goto

\* The end of fileclose.
LEMMA ClosedQuiet ==
    ASSUME Types, NEW p \in Proc, NEW S, NEW to, Closed(p, S, to), exiting' = exiting,
           \/ S = {}
           \/ to = "read" /\ S \subseteq {q \in Proc : pc[q] = "rsleep"}
           \/ to = "write" /\ S \subseteq {q \in Proc : pc[q] = "wsleep"}
    PROVE  /\ Others(p)
           /\ pc'[p] = IF cur2[p] # None THEN "close" ELSE IF p \in exiting THEN "exit" ELSE "user"
           /\ cur'[p] = cur2[p] /\ cur2'[p] = None /\ ff'[p] = NoPipe /\ arg'[p] = 0
           /\ ofile'[p] = IF p \in exiting THEN [ofile[p] EXCEPT ![arg[p]] = None] ELSE ofile[p]
BY DEF Types, Closed, WakeAndGoto, Others, Quiet

\* Each call leaves the other processes alone, but wakes some.
LEMMA OthersQuiet ==
    ASSUME Types, NEW p \in Proc,
           \/ SysPipe(p) \/ Pipealloc(p) \/ PipeFds(p) \/ OpenAlloc(p) \/ OpenFd(p)
           \/ ExitLoop(p) \/ Fileclose(p) \/ Pipeclose(p) \/ Piperead(p) \/ Pipewrite(p)
           \/ Exit(p) \/ PipeHit(p) \/ FileHit(p)
           \/ \E i \in Inode : SysOpen(p, i)
           \/ \E d \in Fd : SysDup(p, d) \/ SysClose(p, d) \/ FileHitCall(p, d)
           \/ \E d \in Fd, n \in 1..MaxWrite : SysRw(p, d, n)
    PROVE  Others(p)
<1>1. CASE SysPipe(p) BY <1>1 DEF Types, SysPipe, Goto, Others, Quiet
<1>2. CASE Pipealloc(p) BY <1>2 DEF Types, Pipealloc, Goto, Others, Quiet
<1>3. CASE PipeFds(p)
  <2>1. \A q \in Proc \ {p} : ofile'[q] = ofile[q] BY <1>3 DEF Types, PipeFds
  <2>2. \A q \in Proc \ {p} : pc'[q] = pc[q] /\ cur'[q] = cur[q] /\ cur2'[q] = cur2[q]
    BY <1>3 DEF Types, PipeFds, Goto
  <2>3. UNCHANGED <<ff, arg, exiting>> BY <1>3 DEF PipeFds
  <2>4. QED BY <2>1, <2>2, <2>3 DEF Others, Quiet
<1>4. CASE OpenAlloc(p)
  <2>1. CASE FreeSlot = None
    BY <1>4, <2>1, ReturnQuiet DEF OpenAlloc, Others, Quiet
  <2>2. CASE FreeSlot # None
    BY <1>4, <2>2 DEF Types, OpenAlloc, Goto, Others, Quiet
  <2>3. QED BY <2>1, <2>2
<1>5. CASE OpenFd(p)
  <2>1. \A q \in Proc \ {p} : ofile'[q] = ofile[q]
    <3>1. CASE FreeFd(p) = {} BY <1>5, <3>1 DEF OpenFd
    <3>2. CASE FreeFd(p) # {}
      <4>1. ofile' = [ofile EXCEPT ![p][Min(FreeFd(p))] = cur[p]] BY <1>5, <3>2 DEF OpenFd
      <4>2. QED BY <4>1 DEF Types
    <3>3. QED BY <3>1, <3>2
  <2>2. QED BY <1>5, <2>1, ReturnQuiet DEF OpenFd, Others, Quiet
<1>6. CASE ExitLoop(p) BY <1>6 DEF Types, ExitLoop, Goto, tables, Others, Quiet
<1>7. CASE Fileclose(p)
  <2>1. exiting' = exiting BY <1>7 DEF Fileclose
  <2>2. CASE UNCHANGED <<ofile, pc, locals>> BY <2>1, <2>2 DEF Others, Quiet, locals
  <2>3. CASE Closed(p, {}, "user") BY <2>1, <2>3, ClosedQuiet
  <2>4. CASE /\ ff' = [ff EXCEPT ![p] = [pipe |-> file[cur[p]].pipe, wr |-> file[cur[p]].wr]]
             /\ Goto(p, "pipeclose") /\ UNCHANGED <<ofile, cur, cur2, arg>>
    BY <2>1, <2>4 DEF Types, Goto, Others, Quiet
  <2>5. QED BY <1>7, <2>2, <2>3, <2>4 DEF Fileclose
<1>8. CASE Pipeclose(p)
  <2>1. exiting' = exiting BY <1>8 DEF Pipeclose
  <2>2. \E S, to : /\ Closed(p, S, to)
                   /\ \/ to = "read" /\ S \subseteq {q \in Proc : pc[q] = "rsleep"}
                      \/ to = "write" /\ S \subseteq {q \in Proc : pc[q] = "wsleep"}
    BY <1>8 DEF Pipeclose, Sleepers
  <2>3. QED BY <2>1, <2>2, ClosedQuiet
<1>9. CASE Piperead(p)
  <2>1. CASE UNCHANGED locals /\ Goto(p, "rsleep")
    BY <1>9, <2>1 DEF Types, Piperead, Goto, locals, Others, Quiet
  <2>2. CASE Return(p) BY <1>9, <2>2, ReturnQuiet DEF Piperead, Others, Quiet
  <2>3. CASE /\ WakeAndGoto(Sleepers("wsleep", ff[p].pipe), "write", p, "user")
             /\ cur' = [cur EXCEPT ![p] = None] /\ ff' = [ff EXCEPT ![p] = NoPipe]
             /\ arg' = [arg EXCEPT ![p] = 0] /\ UNCHANGED cur2
    BY <1>9, <2>3 DEF Types, Piperead, WakeAndGoto, Sleepers, Others, Quiet
  <2>4. QED BY <1>9, <2>1, <2>2, <2>3 DEF Piperead
<1>10. CASE Pipewrite(p)
  <2>1. PICK S, l : /\ S \subseteq {q \in Proc : pc[q] = "rsleep"} /\ WakeAndGoto(S, "read", p, l)
    <3> DEFINE k == Min({arg[p], PIPESIZE - (Pi(p).nwrite - Pi(p).nread)})
               full == k < arg[p]
               fails == full /\ (~Pi(p).readopen \/ p \in killed)
    <3>1. WakeAndGoto(IF fails THEN {} ELSE Sleepers("rsleep", ff[p].pipe), "read", p,
                      IF full /\ ~fails THEN "wsleep" ELSE "user")
      BY <1>10 DEF Pipewrite
    <3> HIDE DEF full, fails
    <3>2. (IF fails THEN {} ELSE Sleepers("rsleep", ff[p].pipe))
             \subseteq {q \in Proc : pc[q] = "rsleep"}
      BY DEF Sleepers
    <3>3. QED BY <3>1, <3>2
  <2>2. UNCHANGED <<ofile, exiting, cur2>> BY <1>10 DEF Pipewrite
  <2>3. \A q \in Proc \ {p} : cur'[q] = cur[q] /\ ff'[q] = ff[q] /\ arg'[q] = arg[q]
    <3>1. \/ (\E n : arg' = [arg EXCEPT ![p] = n]) /\ UNCHANGED <<cur, ff>>
          \/ /\ cur' = [cur EXCEPT ![p] = None] /\ ff' = [ff EXCEPT ![p] = NoPipe]
             /\ arg' = [arg EXCEPT ![p] = 0]
      BY <1>10 DEF Pipewrite
    <3>2. QED BY <3>1 DEF Types
  <2>4. QED BY <2>1, <2>2, <2>3 DEF WakeAndGoto, Others, Quiet
<1>11. CASE Exit(p) BY <1>11 DEF Types, Exit, Goto, tables, locals, Others, Quiet
<1>12. CASE PipeHit(p)
  <2>1. UNCHANGED <<ofile, exiting>> /\ (UNCHANGED <<pc, locals>> \/ Return(p))
    BY <1>12 DEF PipeHit
  <2>2. QED BY <2>1, ReturnQuiet DEF Others, Quiet, locals
<1>13. CASE FileHit(p)
  BY <1>13 DEF Types, FileHit, StartFileRecovery, Goto, Others, Quiet
<1>14. CASE \E i \in Inode : SysOpen(p, i) BY <1>14 DEF Types, SysOpen, Goto, Others, Quiet
<1>15. ASSUME NEW d \in Fd, SysDup(p, d) PROVE Others(p)
  <2>1. ofile' = [ofile EXCEPT ![p][Min(FreeFd(p))] = ofile[p][d]] /\ UNCHANGED calls
    BY <1>15 DEF SysDup
  <2>2. QED BY <2>1 DEF Types, calls, locals, Others, Quiet
<1>16. ASSUME NEW d \in Fd, SysClose(p, d) PROVE Others(p)
  BY <1>16 DEF Types, SysClose, Goto, Others, Quiet
<1>17. ASSUME NEW d \in Fd, FileHitCall(p, d) PROVE Others(p)
  BY <1>17 DEF Types, FileHitCall, StartFileRecovery, Goto, Others, Quiet
<1>18. ASSUME NEW d \in Fd, NEW n \in 1..MaxWrite, SysRw(p, d, n) PROVE Others(p)
  BY SMTT(60), <1>18 DEF Types, SysRw, Goto, tables, Others, Quiet
<1>19. QED BY <1>1, <1>2, <1>3, <1>4, <1>5, <1>6, <1>7, <1>8, <1>9, <1>10, <1>11, <1>12, <1>13,
              <1>14, <1>15, <1>16, <1>17, <1>18

\* Where each call takes its process.
LEMMA CallGoes ==
    ASSUME Types, NEW p \in Proc
    PROVE  /\ SysPipe(p) => pc'[p] \in {"user", "pipe2"}
           /\ Pipealloc(p) => pc'[p] \in {"close", "pipefds"}
           /\ PipeFds(p) => pc'[p] \in {"close", "user"}
           /\ \A i \in Inode : SysOpen(p, i) => pc'[p] = "namei"
           /\ OpenAlloc(p) => pc'[p] \in {"user", "openfd"}
           /\ OpenFd(p) \/ FinishFileRecovery(p) => pc'[p] = "user"
           /\ \A d \in Fd : SysDup(p, d) => pc'[p] = "user"
           /\ \A d \in Fd : SysClose(p, d) => pc'[p] = "close"
           /\ Exit(p) => pc'[p] = "exit"
           /\ ExitLoop(p) => pc'[p] \in {"unused", "close"}
           /\ Fileclose(p) => pc'[p] \in {"close", "exit", "user", "pipeclose"}
           /\ Pipeclose(p) => pc'[p] \in {"close", "exit", "user"}
           /\ \A d \in Fd, n \in 1..MaxWrite : SysRw(p, d, n) => pc'[p] \in {"read", "write"}
           /\ Piperead(p) => pc'[p] \in {"user", "rsleep"}
           /\ Pipewrite(p) => pc'[p] \in {"user", "wsleep"}
           /\ FileHit(p) => pc'[p] = "drain"
           /\ \A d \in Fd : FileHitCall(p, d) => pc'[p] = "drain"
<1>1. \A l : Goto(p, l) => pc'[p] = l BY DEF Goto, Types
<1>2. Return(p) => pc'[p] = "user" BY <1>1 DEF Return
<1>3. \A S, to, l : WakeAndGoto(S, to, p, l) => pc'[p] = l BY DEF WakeAndGoto
<1>4. \A S, to : Closed(p, S, to) => pc'[p] \in {"close", "exit", "user"} BY <1>3 DEF Closed
<1>5. SysPipe(p) => pc'[p] \in {"user", "pipe2"}
  <2>1. SysPipe(p) => pc[p] = "user" /\ (pc' = pc \/ Goto(p, "pipe2"))
    BY DEF SysPipe, StartCall, At
  <2>2. QED BY <1>1, <2>1
<1>6. Pipealloc(p) => pc'[p] \in {"close", "pipefds"} BY <1>1 DEF Pipealloc
<1>7. PipeFds(p) => pc'[p] \in {"close", "user"}
  <2>1. PipeFds(p) => Goto(p, "close") \/ Goto(p, "user") BY DEF PipeFds
  <2>2. QED BY <1>1, <2>1
<1>8. \A i \in Inode : SysOpen(p, i) => pc'[p] = "namei" BY <1>1 DEF SysOpen
<1>9. OpenAlloc(p) => pc'[p] \in {"user", "openfd"} BY <1>1, <1>2 DEF OpenAlloc
<1>10. OpenFd(p) \/ FinishFileRecovery(p) => pc'[p] = "user"
  BY <1>2 DEF OpenFd, FinishFileRecovery
<1>11. \A d \in Fd : SysDup(p, d) => pc'[p] = "user" BY DEF SysDup, StartCall, At, calls
<1>12. \A d \in Fd : SysClose(p, d) => pc'[p] = "close" BY <1>1 DEF SysClose
<1>13. Exit(p) => pc'[p] = "exit" BY <1>1 DEF Exit
<1>14. ExitLoop(p) => pc'[p] \in {"unused", "close"} BY <1>1 DEF ExitLoop
<1>15. Fileclose(p) => pc'[p] \in {"close", "exit", "user", "pipeclose"}
  <2>1. Fileclose(p) => /\ pc[p] = "close"
                        /\ pc' = pc \/ Goto(p, "pipeclose") \/ Closed(p, {}, "user")
    BY DEF Fileclose, At
  <2>2. QED BY <1>1, <1>4, <2>1
<1>16. Pipeclose(p) => pc'[p] \in {"close", "exit", "user"} BY <1>4 DEF Pipeclose
<1>17. \A d \in Fd, n \in 1..MaxWrite : SysRw(p, d, n) => pc'[p] \in {"read", "write"}
  <2>1. \A d \in Fd, n \in 1..MaxWrite : SysRw(p, d, n) => Goto(p, "read") \/ Goto(p, "write")
    BY DEF SysRw
  <2>2. QED BY <1>1, <2>1
<1>18. Piperead(p) => pc'[p] \in {"user", "rsleep"}
  <2>1. Piperead(p) => Return(p) \/ Goto(p, "rsleep") \/ \E S, to : WakeAndGoto(S, to, p, "user")
    BY DEF Piperead
  <2>2. QED BY <1>1, <1>2, <1>3, <2>1
<1>19. Pipewrite(p) => pc'[p] \in {"user", "wsleep"}
  <2> DEFINE k == Min({arg[p], PIPESIZE - (Pi(p).nwrite - Pi(p).nread)})
             full == k < arg[p]
             fails == full /\ (~Pi(p).readopen \/ p \in killed)
  <2>1. Pipewrite(p) =>
           WakeAndGoto(IF fails THEN {} ELSE Sleepers("rsleep", ff[p].pipe), "read", p,
                       IF full /\ ~fails THEN "wsleep" ELSE "user")
    BY DEF Pipewrite
  <2> HIDE DEF full, fails
  <2>2. QED BY <1>3, <2>1
<1>20. FileHit(p) => pc'[p] = "drain" BY <1>1 DEF FileHit, StartFileRecovery
<1>21. \A d \in Fd : FileHitCall(p, d) => pc'[p] = "drain"
  BY <1>1 DEF FileHitCall, StartFileRecovery
<1>22. QED BY <1>5, <1>6, <1>7, <1>8, <1>9, <1>10, <1>11, <1>12, <1>13, <1>14, <1>15, <1>16, <1>17,
              <1>18, <1>19, <1>20, <1>21

\* A step of p keeps the calls of the others.
LEMMA OthersCall ==
    ASSUME CallInv, NEW p \in Proc, Others(p), CallOK(p)',
           pc'[p] = "drain" => FtableFree \/ pc[p] = "drain"
    PROVE  CallInv'
<1>1. ASSUME NEW q \in Proc \ {p} PROVE CallOK(q)'
  <2>1. CallOK(q) /\ Quiet(q) BY DEF CallInv, Others
  <2>2. CASE pc'[q] = pc[q] BY <2>1, <2>2 DEF CallOK, Quiet
  <2>3. CASE pc[q] \in {"rsleep", "wsleep"} /\ pc'[q] \in {"read", "write"}
    BY <2>1, <2>3 DEF CallOK, Quiet
  <2>4. QED BY <2>1, <2>2, <2>3 DEF Quiet
<1>2. \A q \in Proc \ {p} : pc'[q] = "drain" => pc[q] = "drain" BY DEF Others, Quiet
<1>3. ASSUME NEW q \in Proc, NEW r \in Proc, pc'[q] = "drain", pc'[r] = "drain" PROVE q = r
  BY <1>2, <1>3 DEF CallInv, FtableFree
<1>4. QED BY <1>1, <1>3 DEF CallInv

\* Their references are what they were.
LEMMA OthersRefs ==
    ASSUME NEW p \in Proc, Others(p), NEW q \in Proc \ {p}, NEW k \in {0, -1} \cup Fd
    PROVE  Refs'[<<q, k>>] = Refs[<<q, k>>]
<1>1. Quiet(q) BY DEF Others
<1>2. Ref(q, k)' = Ref(q, k)
  <2>1. CASE pc'[q] = pc[q] BY <1>1, <2>1 DEF Ref, Quiet
  <2>2. CASE pc[q] \in {"rsleep", "wsleep"} /\ pc'[q] \in {"read", "write"}
    BY <1>1, <2>2 DEF Ref, Quiet
  <2>3. QED BY <1>1, <2>1, <2>2 DEF Quiet
<1>3. <<q, k>> \in Place BY PlaceFacts
<1>4. QED BY <1>2, <1>3 DEF Refs

-----------------------------------------------------------------------------
(* The reference counts. *)

\* Two places change.
LEMMA CountChange2 ==
    ASSUME NEW D, IsFiniteSet(D), NEW R, NEW S, DOMAIN R = D, DOMAIN S = D,
           NEW x \in D, NEW y \in D, x # y, \A z \in D \ {x, y} : S[z] = R[z], NEW f
    PROVE  /\ Count(R, f) \in Nat /\ Count(S, f) \in Nat
           /\ Count(S, f) = Count(R, f) - (IF R[x] = f THEN 1 ELSE 0) - (IF R[y] = f THEN 1 ELSE 0)
                                        + (IF S[x] = f THEN 1 ELSE 0) + (IF S[y] = f THEN 1 ELSE 0)
<1>1. PICK T : T = [z \in D |-> IF z = x THEN S[x] ELSE R[z]] OBVIOUS
<1>2. DOMAIN T = D /\ T[x] = S[x] /\ T[y] = R[y] BY <1>1
<1>3. \A z \in D \ {x} : T[z] = R[z] BY <1>1
<1>4. \A z \in D \ {y} : S[z] = T[z] BY <1>1
<1>5. /\ Count(R, f) \in Nat /\ Count(T, f) \in Nat
      /\ Count(T, f) = Count(R, f) - (IF R[x] = f THEN 1 ELSE 0)
                                   + (IF T[x] = f THEN 1 ELSE 0)
  BY <1>2, <1>3, CountChange
<1>6. /\ Count(T, f) \in Nat /\ Count(S, f) \in Nat
      /\ Count(S, f) = Count(T, f) - (IF T[y] = f THEN 1 ELSE 0)
                                   + (IF S[y] = f THEN 1 ELSE 0)
  BY <1>2, <1>4, CountChange
<1>7. QED BY <1>2, <1>5, <1>6

Spots == {0, -1} \cup Fd

\* A step of p that leaves its references where they are.
LEMMA SameRefs ==
    ASSUME NEW p \in Proc, Others(p), \A k \in Spots : Ref(p, k)' = Ref(p, k)
    PROVE  Refs' = Refs
<1>1. \A q \in Proc, k \in Spots : Ref(q, k)' = Ref(q, k)
  <2> SUFFICES ASSUME NEW q \in Proc, NEW k \in Spots, q # p PROVE Ref(q, k)' = Ref(q, k)
    OBVIOUS
  <2>1. <<q, k>> \in Place BY PlaceFacts DEF Spots
  <2>2. Refs'[<<q, k>>] = Refs[<<q, k>>] BY OthersRefs DEF Spots
  <2>3. QED BY <2>1, <2>2 DEF Refs
<1>2. QED BY <1>1, PlaceFacts DEF Refs, Spots

\* One place of p changes.
LEMMA OneRef ==
    ASSUME NEW p \in Proc, Others(p), NEW k \in Spots,
           \A j \in Spots \ {k} : Ref(p, j)' = Ref(p, j), NEW f
    PROVE  /\ Count(Refs, f) \in Nat /\ Count(Refs, f)' \in Nat
           /\ Count(Refs, f)' = Count(Refs, f) - (IF Ref(p, k) = f THEN 1 ELSE 0)
                                               + (IF Ref(p, k)' = f THEN 1 ELSE 0)
<1>1. PICK R, S : R = Refs /\ S = Refs' OBVIOUS
<1>2. PICK x : x = <<p, k>> OBVIOUS
<1>3. x \in Place /\ DOMAIN R = Place /\ DOMAIN S = Place BY <1>1, <1>2, PlaceFacts DEF Spots, Refs
<1>4. R[x] = Ref(p, k) /\ S[x] = Ref(p, k)' BY <1>1, <1>2, <1>3 DEF Refs
<1>5. \A y \in Place \ {x} : S[y] = R[y]
  <2> SUFFICES ASSUME NEW q \in Proc, NEW j \in Spots, <<q, j>> # <<p, k>>
               PROVE  S[<<q, j>>] = R[<<q, j>>]
    BY <1>2, PlaceFacts DEF Spots
  <2>1. CASE q # p BY <1>1, <2>1, OthersRefs DEF Spots
  <2>2. CASE q = p
    <3>1. Ref(p, j)' = Ref(p, j) BY <2>2
    <3>2. <<p, j>> \in Place BY PlaceFacts DEF Spots
    <3>3. QED BY <1>1, <2>2, <3>1, <3>2 DEF Refs
  <2>3. QED BY <2>1, <2>2
<1>6. /\ Count(R, f) \in Nat /\ Count(S, f) \in Nat
      /\ Count(S, f) = Count(R, f) - (IF R[x] = f THEN 1 ELSE 0) + (IF S[x] = f THEN 1 ELSE 0)
  BY <1>3, <1>5, PlacesFinite, CountChange
<1>7. Count(Refs, f) = Count(R, f) /\ Count(Refs, f)' = Count(S, f) BY <1>1
<1>8. QED BY <1>4, <1>6, <1>7

\* Two places of p change.
LEMMA TwoRefs ==
    ASSUME NEW p \in Proc, Others(p), NEW j \in Spots, NEW k \in Spots, j # k,
           \A i \in Spots \ {j, k} : Ref(p, i)' = Ref(p, i), NEW f
    PROVE  /\ Count(Refs, f) \in Nat /\ Count(Refs, f)' \in Nat
           /\ Count(Refs, f)' = Count(Refs, f) - (IF Ref(p, j) = f THEN 1 ELSE 0)
                                               - (IF Ref(p, k) = f THEN 1 ELSE 0)
                                               + (IF Ref(p, j)' = f THEN 1 ELSE 0)
                                               + (IF Ref(p, k)' = f THEN 1 ELSE 0)
<1>1. PICK R, S : R = Refs /\ S = Refs' OBVIOUS
<1>2. PICK x, y : x = <<p, j>> /\ y = <<p, k>> OBVIOUS
<1>3. x \in Place /\ y \in Place /\ x # y /\ DOMAIN R = Place /\ DOMAIN S = Place
  BY <1>1, <1>2, PlaceFacts DEF Spots, Refs
<1>4. R[x] = Ref(p, j) /\ S[x] = Ref(p, j)' /\ R[y] = Ref(p, k) /\ S[y] = Ref(p, k)'
  BY <1>1, <1>2, <1>3 DEF Refs
<1>5. \A z \in Place \ {x, y} : S[z] = R[z]
  <2> SUFFICES ASSUME NEW q \in Proc, NEW i \in Spots, <<q, i>> # <<p, j>>, <<q, i>> # <<p, k>>
               PROVE  S[<<q, i>>] = R[<<q, i>>]
    BY <1>2, PlaceFacts DEF Spots
  <2>1. CASE q # p BY <1>1, <2>1, OthersRefs DEF Spots
  <2>2. CASE q = p
    <3>1. Ref(p, i)' = Ref(p, i) BY <2>2
    <3>2. <<p, i>> \in Place BY PlaceFacts DEF Spots
    <3>3. QED BY <1>1, <2>2, <3>1, <3>2 DEF Refs
  <2>3. QED BY <2>1, <2>2
<1>6. /\ Count(R, f) \in Nat /\ Count(S, f) \in Nat
      /\ Count(S, f) = Count(R, f) - (IF R[x] = f THEN 1 ELSE 0) - (IF R[y] = f THEN 1 ELSE 0)
                                   + (IF S[x] = f THEN 1 ELSE 0) + (IF S[y] = f THEN 1 ELSE 0)
  BY <1>3, <1>5, PlacesFinite, CountChange2
<1>7. Count(Refs, f) = Count(R, f) /\ Count(Refs, f)' = Count(S, f) BY <1>1
<1>8. QED BY <1>4, <1>6, <1>7

\* How many references a file has.
LEMMA RefCount ==
    ASSUME NEW f \in File
    PROVE  /\ Count(Refs, f) \in Nat
           /\ \A p \in Proc, k \in Spots : Ref(p, k) = f => Count(Refs, f) >= 1
           /\ \A p, q \in Proc, j, k \in Spots :
                 Ref(p, j) = f /\ Ref(q, k) = f /\ <<p, j>> # <<q, k>> => Count(Refs, f) >= 2
<1>1. PICK R : R = Refs OBVIOUS
<1>2. DOMAIN R = Place BY <1>1, PlaceFacts
<1>3. /\ Count(R, f) \in Nat
      /\ Count(R, f) = 0 <=> \A x \in DOMAIN R : R[x] # f
      /\ \A x, y \in DOMAIN R : R[x] = f /\ R[y] = f /\ x # y => Count(R, f) >= 2
  BY <1>2, PlacesFinite, CountAtLeast
<1>4. \A p \in Proc, k \in Spots : <<p, k>> \in DOMAIN R /\ R[<<p, k>>] = Ref(p, k)
  BY <1>1, PlaceFacts DEF Spots, Refs
<1>5. \A p \in Proc, k \in Spots : Ref(p, k) = f => Count(R, f) # 0 BY <1>3, <1>4
<1>6. \A p, q \in Proc, j, k \in Spots :
         Ref(p, j) = f /\ Ref(q, k) = f /\ <<p, j>> # <<q, k>> => Count(R, f) >= 2
  BY <1>3, <1>4
<1>7. QED BY <1>1, <1>3, <1>5, <1>6

\* A step leaves the count of f as right or as wrong as it was.
Balance(f) ==
    /\ Count(Refs, f)' \in Nat
    /\ file'[f].ref - Count(Refs, f)' = file[f].ref - Count(Refs, f)

\* A step that keeps the balance keeps the counts.
LEMMA RefsKept ==
    ASSUME Types, Types', RefInv, NEW p \in Proc, Others(p), pc[p] # "drain", pc'[p] # "drain",
           orphan \subseteq orphan', \A f \in File \ orphan' : Balance(f)
    PROVE  RefInv'
<1> SUFFICES ASSUME NEW f \in File, f \notin orphan'
             PROVE  /\ (\A q \in Proc : ~Drains(q, f)') => file'[f].ref = Count(Refs, f)'
                    /\ \A q \in Proc : Drains(q, f)' =>
                         \/ file'[f].ref = Count(Refs, f)' + 1
                         \/ file'[f].ref = Count(Refs, f)' /\ \E d \in Fd : ofile'[q][d] = f
  BY DEF RefInv
<1>1. \A q \in Proc : /\ Drains(q, f)' <=> Drains(q, f)
                      /\ Drains(q, f) => ofile'[q] = ofile[q]
  BY DEF Others, Quiet, Drains
<1>2. PICK m, n : m = Count(Refs, f) /\ n = Count(Refs, f)' OBVIOUS
<1>3. m \in Nat /\ n \in Nat BY <1>2, RefCount DEF Balance
<1>4. PICK r, s : r = file[f].ref /\ s = file'[f].ref OBVIOUS
<1>5. r \in Nat /\ s \in Nat BY <1>4 DEF Types, FileRec
<1>6. s - n = r - m BY <1>2, <1>4 DEF Balance
<1>7. (s = n <=> r = m) /\ (s = n + 1 <=> r = m + 1) BY <1>3, <1>5, <1>6
<1>8. f \notin orphan OBVIOUS
<1>9. QED BY <1>1, <1>2, <1>4, <1>7, <1>8 DEF RefInv
\* A step of p after which it refers to f where it did.
LEMMA SameCount ==
    ASSUME NEW p \in Proc, Others(p), NEW f, \A k \in Spots : Ref(p, k)' = f <=> Ref(p, k) = f
    PROVE  Count(Refs, f)' = Count(Refs, f)
<1>1. PICK R, S : R = Refs /\ S = Refs' OBVIOUS
<1>2. DOMAIN R = Place /\ DOMAIN S = Place BY <1>1, PlaceFacts DEF Refs
<1>3. \A y \in Place : S[y] = f <=> R[y] = f
  <2> SUFFICES ASSUME NEW q \in Proc, NEW k \in Spots PROVE S[<<q, k>>] = f <=> R[<<q, k>>] = f
    BY PlaceFacts DEF Spots
  <2>1. <<q, k>> \in Place BY PlaceFacts DEF Spots
  <2>2. CASE q # p BY <1>1, <2>2, OthersRefs DEF Spots
  <2>3. CASE q = p
    <3>1. R[<<q, k>>] = Ref(p, k) /\ S[<<q, k>>] = Ref(p, k)' BY <1>1, <2>1, <2>3 DEF Refs
    <3>2. QED BY <3>1
  <2>4. QED BY <2>2, <2>3
<1>4. Count(S, f) = Count(R, f) BY <1>2, <1>3, CountSame
<1>5. QED BY <1>1, <1>4

\* Nothing changes for f.
LEMMA SameBalance ==
    ASSUME NEW f \in File, Count(Refs, f)' = Count(Refs, f), file'[f].ref = file[f].ref
    PROVE  Balance(f)
BY RefCount DEF Balance

\* The references of p, by the place where it is.
LEMMA RefCases ==
    ASSUME NEW p \in Proc
    PROVE  /\ pc[p] \in {"pipe2", "pipefds", "openfd"} => Ref(p, 0) = cur[p]
           /\ pc[p] = "close" /\ p \notin exiting => Ref(p, 0) = cur[p]
           /\ pc[p] = "close" /\ p \in exiting => Ref(p, 0) = None
           /\ pc[p] \notin {"pipe2", "pipefds", "openfd", "close"} => Ref(p, 0) = None
           /\ pc[p] \in {"pipefds", "close", "pipeclose"} => Ref(p, -1) = cur2[p]
           /\ pc[p] \notin {"pipefds", "close", "pipeclose"} => Ref(p, -1) = None
           /\ \A d \in Fd : ~(p \in exiting /\ pc[p] = "pipeclose" /\ arg[p] = d)
                  => Ref(p, d) = ofile[p][d]
           /\ \A d \in Fd : p \in exiting /\ pc[p] = "pipeclose" /\ arg[p] = d => Ref(p, d) = None
BY PlaceFacts DEF Ref

\* The steps that have no reference to take or to drop.
LEMMA QuietCount ==
    ASSUME Types, CallInv, NEW p \in Proc,
           \/ ExitLoop(p) \/ Piperead(p) \/ Pipewrite(p) \/ Exit(p)
           \/ \E i \in Inode : SysOpen(p, i)
           \/ \E d \in Fd, n \in 1..MaxWrite : SysRw(p, d, n)
    PROVE  /\ Others(p) /\ Refs' = Refs /\ file' = file /\ orphan' = orphan
           /\ pc[p] # "drain" /\ pc'[p] # "drain" /\ CallOK(p)'
<1>1. Others(p) BY OthersQuiet
<1>2. CallOK(p) BY DEF CallInv
<1> SUFFICES /\ ofile'[p] = ofile[p] /\ file' = file /\ orphan' = orphan
             /\ pc[p] \in {"exit", "read", "write", "user"}
             /\ pc'[p] \in {"exit", "read", "write", "user", "namei", "rsleep", "wsleep"}
                \/ (pc[p] = "exit" /\ pc'[p] = "unused")
                \/ (pc[p] = "exit" /\ p \in exiting' /\ cur2'[p] = None /\ pc'[p] = "close")
             /\ CallOK(p)'
  <2>1. ASSUME NEW k \in Spots PROVE Ref(p, k)' = Ref(p, k)
    BY <2>1, PlaceFacts DEF Ref, Spots
  <2>2. Refs' = Refs BY <1>1, <2>1, SameRefs
  <2>3. QED BY <1>1, <2>2
<1>3. CASE ExitLoop(p)
  <2>1. pc[p] = "exit" /\ p \in exiting /\ cur2[p] = None /\ UNCHANGED <<ofile, file, orphan, cur2>>
    BY <1>2, <1>3 DEF ExitLoop, At, tables, history, CallOK
  <2>2. CASE OpenFds(p) = {}
    <3>1. pc'[p] = "unused" /\ p \notin exiting' BY <1>3, <2>2 DEF ExitLoop, Goto, Types
    <3>2. QED BY <2>1, <2>2, <3>1 DEF CallOK, OpenFds
  <2>3. CASE OpenFds(p) # {}
    <3>1. PICK d : d = Min(OpenFds(p)) OBVIOUS
    <3>2. d \in Fd BY <2>3, <3>1, OpenFdFinds DEF OpenFds
    <3>3. pc'[p] = "close" /\ p \in exiting' /\ arg'[p] = d /\ cur'[p] = ofile[p][d]
      BY <1>3, <2>1, <2>3, <3>1 DEF ExitLoop, Goto, Types
    <3>4. QED BY <2>1, <3>2, <3>3 DEF CallOK
  <2>4. QED BY <2>2, <2>3
<1>4. CASE Piperead(p)
  <2>1. pc[p] = "read" /\ UNCHANGED <<ofile, file, exiting, orphan>>
    BY <1>4 DEF Piperead, OnPipe, At
  <2>2. p \notin exiting /\ cur2[p] = None BY <1>2, <2>1 DEF CallOK
  <2>3. cur2'[p] = None /\ pc'[p] \in {"user", "rsleep"}
    <3>1. CASE UNCHANGED locals /\ Goto(p, "rsleep") BY <2>2, <3>1 DEF Types, Goto, locals
    <3>2. CASE Return(p) BY <3>2 DEF Types, Return, Goto
    <3>3. CASE WakeAndGoto(Sleepers("wsleep", ff[p].pipe), "write", p, "user") /\ UNCHANGED cur2
      BY <2>2, <3>3 DEF Types, WakeAndGoto
    <3>4. QED BY <1>4, <3>1, <3>2, <3>3 DEF Piperead
  <2>4. QED BY <2>1, <2>2, <2>3 DEF CallOK
<1>5. CASE Pipewrite(p)
  <2>1. pc[p] = "write" /\ UNCHANGED <<ofile, file, exiting, orphan, cur2>>
    BY <1>5 DEF Pipewrite, OnPipe, At
  <2>2. p \notin exiting /\ cur2[p] = None BY <1>2, <2>1 DEF CallOK
  <2>3. \E S, l : WakeAndGoto(S, "read", p, l) /\ l \in {"user", "wsleep"}
    <3> DEFINE k == Min({arg[p], PIPESIZE - (Pi(p).nwrite - Pi(p).nread)})
               full == k < arg[p]
               fails == full /\ (~Pi(p).readopen \/ p \in killed)
    <3>1. WakeAndGoto(IF fails THEN {} ELSE Sleepers("rsleep", ff[p].pipe), "read", p,
                      IF full /\ ~fails THEN "wsleep" ELSE "user")
      BY <1>5 DEF Pipewrite
    <3> HIDE DEF full, fails
    <3>2. QED BY <3>1
  <2>4. pc'[p] \in {"user", "wsleep"} BY <2>3 DEF WakeAndGoto
  <2>5. QED BY <2>1, <2>2, <2>4 DEF CallOK
<1>6. CASE Exit(p)
  <2>1. /\ pc[p] = "user" /\ pc'[p] = "exit" /\ exiting' = exiting \cup {p}
        /\ UNCHANGED <<ofile, file, orphan, cur2>>
    BY <1>6 DEF Exit, At, Goto, Types, tables, locals, history
  <2>2. QED BY <1>2, <2>1 DEF CallOK
<1>7. CASE \E i \in Inode : SysOpen(p, i)
  <2>1. /\ pc[p] = "user" /\ pc'[p] = "namei" /\ p \notin exiting
        /\ UNCHANGED <<ofile, file, exiting, orphan, cur2>>
    BY <1>7 DEF SysOpen, StartCall, At, Goto, Types, history
  <2>2. QED BY <1>2, <2>1 DEF CallOK
<1>8. CASE \E d \in Fd, n \in 1..MaxWrite : SysRw(p, d, n)
  <2>1. /\ pc[p] = "user" /\ pc'[p] \in {"read", "write"} /\ p \notin exiting
        /\ UNCHANGED <<ofile, file, exiting, orphan, cur2>>
    BY SMTT(60), <1>8 DEF SysRw, StartCall, At, Goto, Types, tables, history
  <2>2. QED BY <1>2, <2>1 DEF CallOK
<1>9. QED BY <1>3, <1>4, <1>5, <1>6, <1>7, <1>8

\* filealloc finds a slot with count 0.
LEMMA FreeSlotEmpty == FreeSlot # None => FreeSlot \in File /\ file[FreeSlot].ref = 0
<1> DEFINE S == {f \in File : file[f].ref = 0}
<1>1. CASE S = {} BY <1>1 DEF FreeSlot
<1>2. CASE S # {}
  <2>1. Min(S) \in S BY <1>2, SearchFinds, FilesAssumption DEF File
  <2>2. QED BY <1>2, <2>1 DEF FreeSlot
<1>3. QED BY <1>1, <1>2

\* filealloc counts one reference.
LEMMA AllocRef ==
    ASSUME Types, NEW f \in File, file' = Filealloc(f), NEW g \in File
    PROVE  /\ file'[g].ref = IF g = f THEN 1 ELSE file[g].ref
           /\ file'[g].type = file[g].type /\ file'[g].pipe = file[g].pipe
           /\ file'[g].wr = file[g].wr /\ file'[g].ip = file[g].ip
BY DEF Types, FileRec, Filealloc

\* A step that takes an empty slot and puts it into a place of p.
LEMMA AllocBalance ==
    ASSUME Types, NEW p \in Proc, Others(p), NEW h \in File, file[h].ref = 0, file' = Filealloc(h),
           NEW k \in Spots, Ref(p, k) = None, Ref(p, k)' = h,
           \A j \in Spots \ {k} : Ref(p, j)' = Ref(p, j), NEW f \in File
    PROVE  Balance(f)
<1>1. f # None BY PlaceFacts
<1>2. /\ Count(Refs, f) \in Nat /\ Count(Refs, f)' \in Nat
      /\ Count(Refs, f)' = Count(Refs, f) - (IF Ref(p, k) = f THEN 1 ELSE 0)
                                          + (IF Ref(p, k)' = f THEN 1 ELSE 0)
  BY OneRef
<1>3. file'[f].ref = IF f = h THEN 1 ELSE file[f].ref BY AllocRef
<1>4. file[f].ref \in Nat BY DEF Types, FileRec
<1>5. PICK m \in Nat, n \in Nat, r \in Nat :
         m = Count(Refs, f) /\ n = Count(Refs, f)' /\ r = file[f].ref
  BY <1>2, <1>4
<1>6. PICK s : s = file'[f].ref OBVIOUS
<1>7. n = m + (IF h = f THEN 1 ELSE 0) BY <1>1, <1>2, <1>5
<1>8. s = IF f = h THEN 1 ELSE r BY <1>3, <1>5, <1>6
<1>9. f = h => r = 0 BY <1>5
<1>10. s - n = r - m BY <1>7, <1>8, <1>9
<1>11. QED BY <1>5, <1>6, <1>10 DEF Balance

\* A step of p that leaves its references where they are, or moves one.
LEMMA MoveBalance ==
    ASSUME NEW p \in Proc, Others(p), NEW j \in Spots, NEW k \in Spots, j # k,
           \A i \in Spots \ {j, k} : Ref(p, i)' = Ref(p, i),
           Ref(p, j)' = Ref(p, k) /\ Ref(p, k)' = Ref(p, j), NEW f \in File
    PROVE  Count(Refs, f)' = Count(Refs, f)
<1>1. PICK a, b : a = Ref(p, j) /\ b = Ref(p, k) OBVIOUS
<1>2. PICK m, n : m = Count(Refs, f) /\ n = Count(Refs, f)' OBVIOUS
<1>3. /\ m \in Nat /\ n \in Nat
      /\ n = m - (IF a = f THEN 1 ELSE 0) - (IF b = f THEN 1 ELSE 0)
               + (IF b = f THEN 1 ELSE 0) + (IF a = f THEN 1 ELSE 0)
  BY <1>1, <1>2, TwoRefs
<1>4. QED BY <1>2, <1>3

\* What a step of p must show for the counts.
StepRefs(p) ==
    /\ Others(p) /\ CallOK(p)'
    /\ pc[p] # "drain" /\ pc'[p] # "drain" /\ orphan \subseteq orphan'
    /\ halted' \/ \A f \in File \ orphan' : Balance(f)

\* pipe up to its first file, or nothing.
LEMMA SysPipeRefs == ASSUME Shape, CallInv, NEW p \in Proc, SysPipe(p) PROVE StepRefs(p)
<1>1. Others(p) BY OthersQuiet DEF Shape
<1>2. CallOK(p) /\ Types BY DEF CallInv, Shape
<1>3. /\ pc[p] = "user" /\ p \notin exiting /\ exiting' = exiting /\ orphan' = orphan
      /\ ofile' = ofile /\ cur2' = cur2 /\ arg' = arg
  BY DEF SysPipe, StartCall, At, history
<1>4. CASE FreeSlot = None
  <2>1. UNCHANGED <<file, pc, cur>> BY <1>4 DEF SysPipe
  <2>2. \A k \in Spots : Ref(p, k)' = Ref(p, k) BY <1>3, <2>1 DEF Ref
  <2>3. Refs' = Refs BY <1>1, <2>2, SameRefs
  <2>4. \A f \in File : Balance(f)
    <3> TAKE f \in File
    <3>1. Count(Refs, f)' = Count(Refs, f) BY <2>3
    <3>2. QED BY <2>1, <3>1, SameBalance
  <2>5. QED BY <1>1, <1>2, <1>3, <2>1, <2>4 DEF StepRefs, CallOK
<1>5. CASE FreeSlot # None
  <2>1. PICK h : h = FreeSlot OBVIOUS
  <2>2. h \in File /\ file[h].ref = 0 BY <1>5, <2>1, FreeSlotEmpty
  <2>3. file' = Filealloc(h) /\ cur'[p] = h /\ pc'[p] = "pipe2"
    BY <1>2, <1>5, <2>1 DEF SysPipe, Goto, Types
  <2>4. Ref(p, 0) = None /\ Ref(p, 0)' = h BY <1>3, <2>3 DEF Ref
  <2>5. \A j \in Spots \ {0} : Ref(p, j)' = Ref(p, j)
    BY <1>3, <2>3, PlaceFacts DEF Ref, Spots
  <2>6. \A f \in File : Balance(f)
    BY <1>1, <1>2, <2>2, <2>3, <2>4, <2>5, AllocBalance DEF Spots
  <2>7. QED BY <1>1, <1>2, <1>3, <2>3, <2>6 DEF StepRefs, CallOK
<1>6. QED BY <1>4, <1>5

\* The second file of a pipe, or the close of the first.
LEMMA PipeallocRefs == ASSUME Shape, CallInv, NEW p \in Proc, Pipealloc(p) PROVE StepRefs(p)
<1>1. Others(p) BY OthersQuiet DEF Shape
<1>2. CallOK(p) /\ Types BY DEF CallInv, Shape
<1>3. /\ pc[p] = "pipe2" /\ exiting' = exiting /\ orphan' = orphan
      /\ ofile' = ofile /\ cur' = cur /\ arg' = arg
  BY DEF Pipealloc, At, history
<1>3a. p \notin exiting /\ cur2[p] = None BY <1>2, <1>3 DEF CallOK
<1>4. CASE FreeSlot = None
  <2>1. UNCHANGED <<file, cur2>> /\ pc'[p] = "close" BY <1>2, <1>4 DEF Pipealloc, Goto, Types
  <2>2. \A k \in Spots : Ref(p, k)' = Ref(p, k) BY <1>3, <1>3a, <2>1 DEF Ref
  <2>3. Refs' = Refs BY <1>1, <2>2, SameRefs
  <2>4. \A f \in File : Balance(f)
    <3> TAKE f \in File
    <3>1. Count(Refs, f)' = Count(Refs, f) BY <2>3
    <3>2. QED BY <2>1, <3>1, SameBalance
  <2>5. QED BY <1>1, <1>2, <1>3, <1>3a, <2>1, <2>4 DEF StepRefs, CallOK
<1>5. CASE FreeSlot # None
  <2>1. PICK h : h = FreeSlot OBVIOUS
  <2>2. h \in File /\ file[h].ref = 0 BY <1>5, <2>1, FreeSlotEmpty
  <2>3. file' = Filealloc(h) /\ cur2'[p] = h /\ pc'[p] = "pipefds"
    BY <1>2, <1>5, <2>1 DEF Pipealloc, Goto, Types
  <2>4. Ref(p, -1) = None /\ Ref(p, -1)' = h BY <1>3, <2>3 DEF Ref
  <2>5. \A j \in Spots \ {-1} : Ref(p, j)' = Ref(p, j)
    BY <1>3, <1>3a, <2>3, PlaceFacts DEF Ref, Spots
  <2>6. \A f \in File : Balance(f)
    BY <1>1, <1>2, <2>2, <2>3, <2>4, <2>5, AllocBalance DEF Spots
  <2>7. QED BY <1>1, <1>2, <1>3, <1>3a, <2>2, <2>3, <2>6 DEF StepRefs, CallOK
<1>6. QED BY <1>4, <1>5

\* The file of open.
LEMMA OpenAllocRefs == ASSUME Shape, CallInv, NEW p \in Proc, OpenAlloc(p) PROVE StepRefs(p)
<1>1. Others(p) BY OthersQuiet DEF Shape
<1>2. CallOK(p) /\ Types BY DEF CallInv, Shape
<1>3. pc[p] = "namei" /\ exiting' = exiting /\ orphan' = orphan /\ ofile' = ofile
  BY DEF OpenAlloc, At, history
<1>3a. p \notin exiting /\ cur2[p] = None BY <1>2, <1>3 DEF CallOK
<1>4. CASE FreeSlot = None
  <2>1. UNCHANGED file /\ pc'[p] = "user" /\ cur2'[p] = None
    BY <1>2, <1>4, ReturnQuiet DEF OpenAlloc
  <2>2. \A k \in Spots : Ref(p, k)' = Ref(p, k) BY <1>3, <1>3a, <2>1 DEF Ref
  <2>3. Refs' = Refs BY <1>1, <2>2, SameRefs
  <2>4. \A f \in File : Balance(f)
    <3> TAKE f \in File
    <3>1. Count(Refs, f)' = Count(Refs, f) BY <2>3
    <3>2. QED BY <2>1, <3>1, SameBalance
  <2>5. QED BY <1>1, <1>2, <1>3, <1>3a, <2>1, <2>4 DEF StepRefs, CallOK
<1>5. CASE FreeSlot # None
  <2>1. PICK h : h = FreeSlot OBVIOUS
  <2>2. h \in File /\ file[h].ref = 0 BY <1>5, <2>1, FreeSlotEmpty
  <2>3. file' = Filealloc(h) /\ cur'[p] = h /\ pc'[p] = "openfd" /\ cur2' = cur2 /\ arg' = arg
    BY <1>2, <1>5, <2>1 DEF OpenAlloc, Goto, Types
  <2>4. Ref(p, 0) = None /\ Ref(p, 0)' = h BY <1>3, <2>3 DEF Ref
  <2>5. \A j \in Spots \ {0} : Ref(p, j)' = Ref(p, j)
    BY <1>3, <1>3a, <2>3, PlaceFacts DEF Ref, Spots
  <2>6. \A f \in File : Balance(f)
    BY <1>1, <1>2, <2>2, <2>3, <2>4, <2>5, AllocBalance DEF Spots
  <2>7. QED BY <1>1, <1>2, <1>3, <1>3a, <2>3, <2>6 DEF StepRefs, CallOK
<1>6. QED BY <1>4, <1>5

\* Calls that move no file keep every count.
LEMMA QuietRefs ==
    ASSUME Shape, CallInv, NEW p \in Proc,
           \/ ExitLoop(p) \/ Piperead(p) \/ Pipewrite(p) \/ Exit(p)
           \/ \E i \in Inode : SysOpen(p, i)
           \/ \E d \in Fd, n \in 1..MaxWrite : SysRw(p, d, n)
    PROVE  StepRefs(p)
<1>1. /\ Others(p) /\ Refs' = Refs /\ file' = file /\ orphan' = orphan
      /\ pc[p] # "drain" /\ pc'[p] # "drain" /\ CallOK(p)'
  BY QuietCount DEF Shape
<1>2. \A f \in File : Balance(f)
  <2> TAKE f \in File
  <2>1. Count(Refs, f)' = Count(Refs, f) BY <1>1
  <2>2. QED BY <1>1, <2>1, SameBalance
<1>3. QED BY <1>1, <1>2 DEF StepRefs

\* The descriptor that fdalloc finds.
LEMMA FreeFdFinds == ASSUME NEW p, FreeFd(p) # {} PROVE Min(FreeFd(p)) \in FreeFd(p)
BY SearchFinds, FilesAssumption DEF FreeFd, Fd

\* What p has allocated has one reference.
LEMMA NewRef ==
    ASSUME NewInv, NEW p \in Proc
    PROVE  /\ pc[p] \in {"pipe2", "pipefds", "openfd"} /\ cur[p] \notin orphan
                  => file[cur[p]].ref = 1 /\ file[cur[p]].type = "none"
           /\ pc[p] = "pipefds" /\ cur2[p] \notin orphan
                  => file[cur2[p]].ref = 1 /\ file[cur2[p]].type = "none"
BY DEF NewInv, NewOK, New

\* The descriptor of open, or the close of its file.
LEMMA OpenFdRefs == ASSUME Shape, CallInv, NewInv, NEW p \in Proc, OpenFd(p) PROVE StepRefs(p)
<1>1. Others(p) BY OthersQuiet DEF Shape
<1>2. CallOK(p) /\ Types BY DEF CallInv, Shape
<1>3. pc[p] = "openfd" /\ exiting' = exiting /\ orphan' = orphan /\ Return(p)
  BY DEF OpenFd, At, history
<1>4. pc'[p] = "user" /\ cur2'[p] = None BY <1>2, <1>3, ReturnQuiet
<1>5. p \notin exiting /\ cur2[p] = None BY <1>2, <1>3 DEF CallOK
<1>6. PICK h \in File : h = cur[p] BY <1>3 DEF Shape, PlaceInv, InFtable, InPipe
<1>7. Ref(p, 0) = h /\ Ref(p, 0)' = None /\ Ref(p, -1) = None /\ Ref(p, -1)' = None
  BY <1>3, <1>4, <1>5, <1>6, PlaceFacts DEF Ref
<1>8. CallOK(p)' BY <1>3, <1>4, <1>5 DEF CallOK
<1>9. CASE FreeFd(p) = {}
  <2>1. file' = [file EXCEPT ![h].ref = 0] /\ ofile' = ofile BY <1>6, <1>9 DEF OpenFd
  <2>2. \A j \in Spots \ {0} : Ref(p, j)' = Ref(p, j)
    BY <1>3, <1>4, <1>5, <1>7, <2>1, PlaceFacts DEF Ref, Spots
  <2>3. ASSUME NEW f \in File, f \notin orphan' PROVE Balance(f)
    <3>1. f # None BY PlaceFacts
    <3>2. /\ Count(Refs, f) \in Nat /\ Count(Refs, f)' \in Nat
          /\ Count(Refs, f)' = Count(Refs, f) - (IF Ref(p, 0) = f THEN 1 ELSE 0)
                                              + (IF Ref(p, 0)' = f THEN 1 ELSE 0)
      BY <1>1, <2>2, OneRef DEF Spots
    <3>3. file'[f].ref = IF f = h THEN 0 ELSE file[f].ref BY <1>2, <2>1 DEF Types, FileRec
    <3>4. f = h => file[f].ref = 1 BY <1>3, <1>6, <2>3, NewRef
    <3>5. PICK m \in Nat, n \in Nat : m = Count(Refs, f) /\ n = Count(Refs, f)' BY <3>2
    <3>6. n = m - (IF h = f THEN 1 ELSE 0) BY <1>7, <3>1, <3>2, <3>5
    <3>7. PICK r, s : r \in Nat /\ r = file[f].ref /\ s = file'[f].ref BY <1>2 DEF Types, FileRec
    <3>8. s - n = r - m BY <3>3, <3>4, <3>6, <3>7
    <3>9. QED BY <3>5, <3>7, <3>8 DEF Balance
  <2>4. QED BY <1>1, <1>3, <1>4, <1>8, <2>3 DEF StepRefs
<1>10. CASE FreeFd(p) # {}
  <2>1. PICK d \in Fd : d = Min(FreeFd(p)) /\ ofile[p][d] = None
    BY <1>10, FreeFdFinds DEF FreeFd
  <2>2. /\ ofile' = [ofile EXCEPT ![p][d] = h]
        /\ file' = [file EXCEPT ![h] = [@ EXCEPT !.type = "inode", !.ip = arg[p],
                                                 !.rd = TRUE, !.wr = TRUE]]
    BY <1>6, <1>10, <2>1 DEF OpenFd
  <2>3. ofile'[p] = [ofile[p] EXCEPT ![d] = h] BY <1>2, <2>2 DEF Types
  <2>4. Ref(p, d) = None /\ Ref(p, d)' = h
    BY <1>2, <1>3, <1>4, <2>1, <2>3, PlaceFacts DEF Ref, Types
  <2>5. \A j \in Spots \ {0, d} : Ref(p, j)' = Ref(p, j)
    BY <1>2, <1>3, <1>4, <1>5, <1>7, <2>3, PlaceFacts DEF Ref, Spots, Types
  <2>6. 0 # d BY PlaceFacts
  <2>7. ASSUME NEW f \in File PROVE Balance(f)
    <3>1. Count(Refs, f)' = Count(Refs, f)
      BY <1>1, <1>7, <2>4, <2>5, <2>6, MoveBalance DEF Spots
    <3>2. file'[f].ref = file[f].ref BY <1>2, <2>2 DEF Types, FileRec
    <3>3. QED BY <3>1, <3>2, SameBalance
  <2>8. QED BY <1>1, <1>3, <1>4, <1>8, <2>7 DEF StepRefs
<1>11. QED BY <1>9, <1>10

\* dup counts what it puts into a descriptor.
LEMMA SysDupRefs ==
    ASSUME Shape, CallInv, NEW p \in Proc, NEW d \in Fd, SysDup(p, d)
    PROVE  StepRefs(p)
<1>1. Others(p) BY OthersQuiet DEF Shape
<1>2. CallOK(p) /\ Types BY DEF CallInv, Shape
<1>3. /\ pc[p] = "user" /\ p \notin exiting /\ FreeFd(p) # {} /\ ofile[p][d] # None
      /\ UNCHANGED <<pc, cur, cur2, ff, arg, exiting, orphan>>
  BY DEF SysDup, StartCall, At, history, calls, locals
<1>4. PICK h \in File : h = ofile[p][d] BY <1>2, <1>3 DEF Types
<1>5. PICK e \in Fd : e = Min(FreeFd(p)) /\ ofile[p][e] = None
  BY <1>3, FreeFdFinds DEF FreeFd
<1>6. ofile' = [ofile EXCEPT ![p][e] = h] BY <1>4, <1>5 DEF SysDup
<1>7. ofile'[p] = [ofile[p] EXCEPT ![e] = h] BY <1>2, <1>6 DEF Types
<1>8. Ref(p, e) = None /\ Ref(p, e)' = h
  BY <1>2, <1>3, <1>5, <1>7, PlaceFacts DEF Ref, Types
<1>9. \A j \in Spots \ {e} : Ref(p, j)' = Ref(p, j)
  BY <1>2, <1>3, <1>7, PlaceFacts DEF Ref, Spots, Types
<1>10. ASSUME ~halted', NEW f \in File PROVE Balance(f)
  <2>1. f # None BY PlaceFacts
  <2>2. /\ Count(Refs, f) \in Nat /\ Count(Refs, f)' \in Nat
        /\ Count(Refs, f)' = Count(Refs, f) - (IF Ref(p, e) = f THEN 1 ELSE 0)
                                            + (IF Ref(p, e)' = f THEN 1 ELSE 0)
    BY ZenonT(60), <1>1, <1>9, OneRef DEF Spots
  <2>3. file' = [file EXCEPT ![h].ref = @ + 1] BY <1>4, <1>10 DEF SysDup, Halt
  <2>4. PICK c \in Nat : c = file[h].ref BY <1>2 DEF Types, FileRec
  <2>5. file' = [file EXCEPT ![h].ref = c + 1] BY <2>3, <2>4
  <2>6. file'[f].ref = IF f = h THEN c + 1 ELSE file[f].ref BY <1>2, <2>5 DEF Types, FileRec
  <2>7. PICK m \in Nat, n \in Nat : m = Count(Refs, f) /\ n = Count(Refs, f)' BY <2>2
  <2>8. n = m + (IF h = f THEN 1 ELSE 0) BY <1>8, <2>1, <2>2, <2>7
  <2>9. PICK r, s : r \in Nat /\ r = file[f].ref /\ s = file'[f].ref BY <1>2 DEF Types, FileRec
  <2>10. s - n = r - m BY <2>4, <2>6, <2>8, <2>9
  <2>11. QED BY <2>7, <2>9, <2>10 DEF Balance
<1>11. CallOK(p)' BY <1>2, <1>3 DEF CallOK
<1>12. QED BY <1>1, <1>3, <1>10, <1>11 DEF StepRefs

\* close takes a file out of its descriptor.
LEMMA SysCloseRefs ==
    ASSUME Shape, CallInv, NEW p \in Proc, NEW d \in Fd, SysClose(p, d)
    PROVE  StepRefs(p)
<1>1. Others(p) BY OthersQuiet DEF Shape
<1>2. CallOK(p) /\ Types BY DEF CallInv, Shape
<1>3. /\ pc[p] = "user" /\ p \notin exiting /\ UNCHANGED <<file, cur2, ff, arg, exiting, orphan>>
      /\ ofile' = [ofile EXCEPT ![p][d] = None]
  BY DEF SysClose, StartCall, At, history
<1>4. cur'[p] = ofile[p][d] /\ pc'[p] = "close" /\ ofile'[p] = [ofile[p] EXCEPT ![d] = None]
  BY <1>2, <1>3 DEF SysClose, Goto, Types
<1>5. Ref(p, 0) = None /\ Ref(p, 0)' = ofile[p][d] BY <1>3, <1>4 DEF Ref
<1>6. Ref(p, d) = ofile[p][d] /\ Ref(p, d)' = None
  BY <1>2, <1>3, <1>4, PlaceFacts DEF Ref, Types
<1>6a. cur2[p] = None BY <1>2, <1>3 DEF CallOK
<1>7. \A j \in Spots \ {0, d} : Ref(p, j)' = Ref(p, j)
  BY <1>2, <1>3, <1>4, <1>6a, PlaceFacts DEF Ref, Spots, Types
<1>8. ASSUME NEW f \in File PROVE Balance(f)
  <2>1. 0 # d BY PlaceFacts
  <2>2. Count(Refs, f)' = Count(Refs, f) BY <1>1, <1>5, <1>6, <1>7, <2>1, MoveBalance DEF Spots
  <2>3. QED BY <1>3, <2>2, SameBalance
<1>9. CallOK(p)' BY <1>2, <1>3, <1>4, <1>6a DEF CallOK
<1>10. QED BY <1>1, <1>3, <1>4, <1>8, <1>9 DEF StepRefs

\* The two files become the ends of a pipe; their counts stay.
LEMMA PipeFdsFile ==
    ASSUME Types, NEW p \in Proc, PipeFds(p), cur[p] \in File, cur2[p] \in File, NEW f \in File
    PROVE  /\ file'[f].ref = file[f].ref
           /\ f \notin {cur[p], cur2[p]} => file'[f] = file[f]
<1>1. CASE file' = file BY <1>1
<1>2. CASE \E a : file' = [file EXCEPT ![cur[p]] = [@ EXCEPT !.type = "pipe", !.rd = TRUE,
                                                      !.wr = FALSE, !.pipe = a],
                                       ![cur2[p]] = [@ EXCEPT !.type = "pipe", !.rd = FALSE,
                                                       !.wr = TRUE, !.pipe = a]]
  <2>1. PICK g \in File, h \in File : g = cur[p] /\ h = cur2[p] OBVIOUS
  <2>2. PICK a : file' = [file EXCEPT ![g] = [@ EXCEPT !.type = "pipe", !.rd = TRUE,
                                                      !.wr = FALSE, !.pipe = a],
                                       ![h] = [@ EXCEPT !.type = "pipe", !.rd = FALSE,
                                                       !.wr = TRUE, !.pipe = a]]
    BY <1>2, <2>1
  <2>3. CASE f # h BY ZenonT(60), <2>1, <2>2, <2>3 DEF Types, FileRec
  <2>4. CASE f = h /\ g # h BY <2>1, <2>2, <2>4 DEF Types, FileRec
  <2>5. CASE f = h /\ g = h BY <2>1, <2>2, <2>5 DEF Types, FileRec
  <2>6. QED BY <2>3, <2>4, <2>5
<1>3. QED BY <1>1, <1>2 DEF PipeFds

\* The files of a pipe get their descriptors, or are closed.
LEMMA PipeFdsRefs == ASSUME Shape, CallInv, NEW p \in Proc, PipeFds(p) PROVE StepRefs(p)
<1>1. Others(p) BY OthersQuiet DEF Shape
<1>2. CallOK(p) /\ Types BY DEF CallInv, Shape
<1>3. pc[p] = "pipefds" /\ exiting' = exiting /\ orphan' = orphan /\ arg' = arg
  BY DEF PipeFds, At, history
<1>4. p \notin exiting /\ cur2[p] \in File BY <1>2, <1>3 DEF CallOK
<1>5. PICK g \in File, h \in File : g = cur[p] /\ h = cur2[p]
  BY <1>3, <1>4 DEF Shape, PlaceInv, InFtable, InPipe
<1>6. Ref(p, 0) = g /\ Ref(p, -1) = h BY <1>3, <1>5 DEF Ref
<1>7. \A f \in File : file'[f].ref = file[f].ref BY <1>2, <1>5, PipeFdsFile
<1>8. CASE Goto(p, "close") /\ UNCHANGED <<ofile, cur, cur2>>
  <2>1. pc'[p] = "close" BY <1>2, <1>8 DEF Goto, Types
  <2>2. \A k \in Spots : Ref(p, k)' = Ref(p, k) BY <1>3, <1>4, <1>8, <2>1 DEF Ref
  <2>3. Refs' = Refs BY <1>1, <2>2, SameRefs
  <2>4. ASSUME NEW f \in File PROVE Balance(f)
    <3>1. Count(Refs, f)' = Count(Refs, f) BY <2>3
    <3>2. QED BY <1>7, <3>1, SameBalance
  <2>5. QED BY <1>1, <1>2, <1>3, <1>4, <1>8, <2>1, <2>4 DEF StepRefs, CallOK
<1>9. CASE /\ Cardinality(FreeFd(p)) >= 2
           /\ LET d0 == Min(FreeFd(p))
                  d1 == Min(FreeFd(p) \ {d0})
              IN ofile' = [ofile EXCEPT ![p] = [@ EXCEPT ![d0] = cur[p], ![d1] = cur2[p]]]
           /\ Goto(p, "user")
           /\ cur' = [cur EXCEPT ![p] = None] /\ cur2' = [cur2 EXCEPT ![p] = None]
  <2>1. PICK d0, d1 : /\ d0 = Min(FreeFd(p)) /\ d1 = Min(FreeFd(p) \ {d0})
                      /\ ofile' = [ofile EXCEPT ![p] = [@ EXCEPT ![d0] = g, ![d1] = h]]
    BY <1>5, <1>9
  <2>2. IsFiniteSet(FreeFd(p)) BY PlacesFinite, FS_Subset DEF FreeFd
  <2>3. FreeFd(p) # {}
    <3>1. Cardinality(FreeFd(p)) >= 2 BY <1>9
    <3>2. Cardinality(FreeFd(p)) # 0 BY ONLY <3>1
    <3>3. QED BY ONLY <3>2, FS_EmptySet
  <2>4. d0 \in FreeFd(p) BY <2>1, <2>3, FreeFdFinds
  <2>5. FreeFd(p) \ {d0} # {}
    <3>1. Cardinality(FreeFd(p) \ {d0}) = Cardinality(FreeFd(p)) - 1
      BY <2>2, <2>4, FS_RemoveElement
    <3>2. Cardinality(FreeFd(p)) \in Nat BY <2>2, FS_CardinalityType
    <3>3. Cardinality(FreeFd(p) \ {d0}) # 0 BY <1>9, <3>1, <3>2
    <3>4. QED BY <3>3, FS_EmptySet
  <2>6. d1 \in FreeFd(p) \ {d0}
    <3>1. FreeFd(p) \ {d0} \subseteq 1..NOFILE BY DEF FreeFd, Fd
    <3>2. QED BY <2>1, <2>5, <3>1, SearchFinds, FilesAssumption
  <2>7. /\ d0 \in Fd /\ d1 \in Fd /\ d0 # d1 /\ ofile[p][d0] = None /\ ofile[p][d1] = None
    BY <2>4, <2>6 DEF FreeFd
  <2>8. /\ ofile'[p][d0] = g /\ ofile'[p][d1] = h
        /\ \A d \in Fd \ {d0, d1} : ofile'[p][d] = ofile[p][d]
    BY <1>2, <2>1, <2>7 DEF Types
  <2>9. pc'[p] = "user" /\ cur2'[p] = None BY <1>2, <1>9 DEF Types, Goto
  <2>10. /\ Ref(p, 0)' = None /\ Ref(p, -1)' = None
         /\ Ref(p, d0) = None /\ Ref(p, d0)' = g /\ Ref(p, d1) = None /\ Ref(p, d1)' = h
         /\ \A d \in Fd \ {d0, d1} : Ref(p, d)' = Ref(p, d)
    BY <1>3, <2>7, <2>8, <2>9, PlaceFacts DEF Ref
  <2>11. ASSUME NEW f \in File PROVE Count(Refs, f)' = Count(Refs, f)
    <3>1. PICK R, S : R = Refs /\ S = Refs' OBVIOUS
    <3>2. PICK x0, x1, y0, y1 : x0 = <<p, 0>> /\ x1 = <<p, -1>> /\ y0 = <<p, d0>> /\ y1 = <<p, d1>>
      OBVIOUS
    <3>3. /\ x0 \in Place /\ x1 \in Place /\ y0 \in Place /\ y1 \in Place
          /\ x0 # x1 /\ x0 # y0 /\ x0 # y1 /\ x1 # y0 /\ x1 # y1 /\ y0 # y1
      BY <2>7, <3>2, PlaceFacts
    <3>4. DOMAIN R = Place /\ DOMAIN S = Place BY <3>1, PlaceFacts DEF Refs
    <3>5. /\ R[x0] = g /\ R[x1] = h /\ R[y0] = None /\ R[y1] = None
          /\ S[x0] = None /\ S[x1] = None /\ S[y0] = g /\ S[y1] = h
      BY <1>6, <2>10, <3>1, <3>2, <3>3 DEF Refs
    <3>6. \A z \in Place \ {x0, x1, y0, y1} : S[z] = R[z]
      <4> SUFFICES ASSUME NEW q \in Proc, NEW k \in Spots, <<q, k>> \notin {x0, x1, y0, y1}
                   PROVE  S[<<q, k>>] = R[<<q, k>>]
        BY PlaceFacts DEF Spots
      <4>1. CASE q # p
        <5>1. Refs'[<<q, k>>] = Refs[<<q, k>>] BY <1>1, <4>1, OthersRefs DEF Spots
        <5>2. QED BY <3>1, <5>1
      <4>2. CASE q = p
        <5>1. k \in Fd \ {d0, d1} BY <3>2, <4>2 DEF Spots
        <5>2. <<p, k>> \in Place BY PlaceFacts DEF Spots
        <5>3. QED BY <2>10, <3>1, <4>2, <5>1, <5>2 DEF Refs
      <4>3. QED BY <4>1, <4>2
    <3>7. PICK T : T = [z \in Place |-> IF z = x0 THEN None ELSE IF z = y0 THEN g ELSE R[z]]
      OBVIOUS
    <3>8. /\ DOMAIN T = Place /\ T[x0] = None /\ T[y0] = g /\ T[x1] = h /\ T[y1] = None
          /\ \A z \in Place \ {x0, y0} : T[z] = R[z]
      BY <3>3, <3>5, <3>7
    <3>9. \A z \in Place \ {x1, y1} : S[z] = T[z] BY <3>3, <3>5, <3>6, <3>7
    <3>10. f # None BY PlaceFacts
    <3>11. /\ Count(R, f) \in Nat /\ Count(T, f) \in Nat
           /\ Count(T, f) = Count(R, f) - (IF R[x0] = f THEN 1 ELSE 0) - (IF R[y0] = f THEN 1 ELSE 0)
                                        + (IF T[x0] = f THEN 1 ELSE 0) + (IF T[y0] = f THEN 1 ELSE 0)
      BY <3>3, <3>4, <3>8, PlacesFinite, CountChange2
    <3>12. /\ Count(S, f) \in Nat
           /\ Count(S, f) = Count(T, f) - (IF T[x1] = f THEN 1 ELSE 0) - (IF T[y1] = f THEN 1 ELSE 0)
                                        + (IF S[x1] = f THEN 1 ELSE 0) + (IF S[y1] = f THEN 1 ELSE 0)
      BY <3>3, <3>4, <3>8, <3>9, PlacesFinite, CountChange2
    <3>13. Count(T, f) = Count(R, f)
      BY <3>5, <3>8, <3>10, <3>11
    <3>14. Count(S, f) = Count(T, f)
      BY <3>5, <3>8, <3>10, <3>11, <3>12
    <3>15. Count(Refs, f)' = Count(S, f) /\ Count(Refs, f) = Count(R, f) BY <3>1
    <3>16. QED BY <3>13, <3>14, <3>15
  <2>12. \A f \in File : Balance(f) BY <1>7, <2>11, SameBalance
  <2>13. QED BY <1>1, <1>2, <1>3, <1>4, <2>9, <2>12 DEF StepRefs, CallOK
<1>10. QED BY <1>8, <1>9 DEF PipeFds

\* Closed drops the reference that fileclose was called for.
LEMMA ClosedRefs ==
    ASSUME Types, CallInv, NEW p \in Proc, NEW S, NEW to, Closed(p, S, to), exiting' = exiting,
           \/ S = {}
           \/ to = "read" /\ S \subseteq {q \in Proc : pc[q] = "rsleep"}
           \/ to = "write" /\ S \subseteq {q \in Proc : pc[q] = "wsleep"},
           pc[p] \in {"close", "pipeclose"}, cur[p] \in File, NEW f \in File
    PROVE  /\ Others(p) /\ pc'[p] \in {"close", "exit", "user"} /\ CallOK(p)'
           /\ Count(Refs, f) \in Nat /\ Count(Refs, f)' \in Nat
           /\ Count(Refs, f)' = Count(Refs, f)
                                - (IF pc[p] = "close" /\ cur[p] = f THEN 1 ELSE 0)
<1>1. /\ Others(p)
      /\ pc'[p] = IF cur2[p] # None THEN "close" ELSE IF p \in exiting THEN "exit" ELSE "user"
      /\ cur'[p] = cur2[p] /\ cur2'[p] = None
      /\ ofile'[p] = IF p \in exiting THEN [ofile[p] EXCEPT ![arg[p]] = None] ELSE ofile[p]
  BY ClosedQuiet
<1>2. CallOK(p) BY DEF CallInv
<1>3. f # None /\ -1 \in Spots /\ 0 \in Spots BY PlaceFacts DEF Spots
<1>4. CASE p \notin exiting
  <2>1. /\ Ref(p, 0) = (IF pc[p] = "close" THEN cur[p] ELSE None) /\ Ref(p, -1) = cur2[p]
        /\ Ref(p, 0)' = cur2[p] /\ Ref(p, -1)' = None
    BY <1>1, <1>4 DEF Ref
  <2>2. \A j \in Spots \ {0, -1} : Ref(p, j)' = Ref(p, j) BY <1>1, <1>4, PlaceFacts DEF Ref, Spots
  <2>3. /\ Count(Refs, f) \in Nat /\ Count(Refs, f)' \in Nat
        /\ Count(Refs, f)' = Count(Refs, f) - (IF Ref(p, 0) = f THEN 1 ELSE 0)
                                            - (IF Ref(p, -1) = f THEN 1 ELSE 0)
                                            + (IF Ref(p, 0)' = f THEN 1 ELSE 0)
                                            + (IF Ref(p, -1)' = f THEN 1 ELSE 0)
    BY <1>1, <1>3, <2>2, TwoRefs
  <2>4. PICK m \in Nat, n \in Nat : m = Count(Refs, f) /\ n = Count(Refs, f)' BY <2>3
  <2>5. n = m - (IF pc[p] = "close" /\ cur[p] = f THEN 1 ELSE 0)
    BY <1>3, <2>1, <2>3, <2>4
  <2>6. CallOK(p)' BY <1>1, <1>4, <1>2 DEF CallOK
  <2>7. QED BY <1>1, <1>4, <2>4, <2>5, <2>6
<1>5. CASE p \in exiting
  <2>1. PICK d \in Fd : d = arg[p] /\ ofile[p][d] = cur[p] /\ cur2[p] = None
    BY <1>2, <1>5 DEF CallOK
  <2>2. ofile'[p] = [ofile[p] EXCEPT ![d] = None] /\ pc'[p] = "exit" BY <1>1, <1>5, <2>1
  <2>3. /\ Ref(p, d) = (IF pc[p] = "close" THEN cur[p] ELSE None) /\ Ref(p, d)' = None
    BY <1>5, <2>1, <2>2, PlaceFacts DEF Ref, Types
  <2>4. \A j \in Spots \ {d} : Ref(p, j)' = Ref(p, j)
    BY <1>5, <2>1, <2>2, PlaceFacts DEF Ref, Spots, Types
  <2>5. /\ Count(Refs, f) \in Nat /\ Count(Refs, f)' \in Nat
        /\ Count(Refs, f)' = Count(Refs, f) - (IF Ref(p, d) = f THEN 1 ELSE 0)
                                            + (IF Ref(p, d)' = f THEN 1 ELSE 0)
    BY <1>1, <2>4, OneRef DEF Spots
  <2>6. PICK m \in Nat, n \in Nat : m = Count(Refs, f) /\ n = Count(Refs, f)' BY <2>5
  <2>7. n = m - (IF pc[p] = "close" /\ cur[p] = f THEN 1 ELSE 0)
    BY <1>3, <2>3, <2>5, <2>6
  <2>8. CallOK(p)' BY <1>1, <1>5, <2>1, <2>2 DEF CallOK
  <2>9. QED BY <1>1, <2>2, <2>6, <2>7, <2>8
<1>6. QED BY <1>4, <1>5

\* pipeclose: the file has lost its last reference before.
LEMMA PipecloseRefs == ASSUME Shape, CallInv, NEW p \in Proc, Pipeclose(p) PROVE StepRefs(p)
<1>1. /\ pc[p] = "pipeclose" /\ UNCHANGED <<file, exiting, orphan>>
  BY DEF Pipeclose, OnPipe, At, history
<1>2. cur[p] \in File /\ Types BY <1>1 DEF Shape, PlaceInv, InFtable, InPipe
<1>3. PICK S, to : /\ Closed(p, S, to)
                   /\ \/ to = "read" /\ S \subseteq {q \in Proc : pc[q] = "rsleep"}
                      \/ to = "write" /\ S \subseteq {q \in Proc : pc[q] = "wsleep"}
  BY DEF Pipeclose, Sleepers
<1>4. ASSUME NEW f \in File
      PROVE  /\ Others(p) /\ pc'[p] \in {"close", "exit", "user"} /\ CallOK(p)' /\ Balance(f)
  <2>1. /\ Others(p) /\ pc'[p] \in {"close", "exit", "user"} /\ CallOK(p)'
        /\ Count(Refs, f) \in Nat /\ Count(Refs, f)' \in Nat
        /\ Count(Refs, f)' = Count(Refs, f) - (IF pc[p] = "close" /\ cur[p] = f THEN 1 ELSE 0)
    BY <1>1, <1>2, <1>3, ClosedRefs
  <2>2. Count(Refs, f)' = Count(Refs, f) BY <1>1, <2>1
  <2>3. QED BY <1>1, <2>1, <2>2, SameBalance
<1>5. QED BY <1>1, <1>2, <1>4 DEF StepRefs

\* One reference less.
LEMMA LessBalance ==
    ASSUME Types, NEW f \in File, NEW h, NEW b \in BOOLEAN,
           Count(Refs, f) \in Nat, Count(Refs, f)' \in Nat,
           Count(Refs, f)' = Count(Refs, f) - (IF b THEN 1 ELSE 0),
           file'[f].ref = file[f].ref - (IF b THEN 1 ELSE 0)
    PROVE  Balance(f)
<1>1. PICK m, n, r, s : /\ m \in Nat /\ n \in Nat /\ r \in Nat
                       /\ m = Count(Refs, f) /\ n = Count(Refs, f)'
                       /\ r = file[f].ref /\ s = file'[f].ref
  BY DEF Types, FileRec
<1>2. s - n = r - m BY <1>1
<1>3. QED BY <1>1, <1>2 DEF Balance

\* What fileclose does to the file.
LEMMA FilecloseFile ==
    ASSUME Types, NEW p \in Proc, Fileclose(p), NEW h \in File, h = cur[p], file[h].ref >= 1
    PROVE  /\ file'[h].ref = file[h].ref - 1
           /\ file[h].ref = 1 => file'[h].type = "none"
           /\ file[h].ref > 1 => file'[h].type = file[h].type
           /\ file'[h].pipe = file[h].pipe /\ file'[h].wr = file[h].wr /\ file'[h].ip = file[h].ip
           /\ \A f \in File \ {h} : file'[f] = file[f]
<1>1. PICK r \in Nat : r = file[h].ref BY DEF Types, FileRec
<1>2. CASE r > 1
  <2>1. file' = [file EXCEPT ![h].ref = @ - 1] BY <1>1, <1>2 DEF Fileclose
  <2>2. file' = [file EXCEPT ![h].ref = r - 1] BY <1>1, <2>1
  <2>3. QED BY <1>1, <1>2, <2>2 DEF Types, FileRec
<1>3. CASE r = 1
  <2>1. file' = [file EXCEPT ![h].ref = 0, ![h].type = "none"]
    BY <1>1, <1>3 DEF Fileclose
  <2>2. QED BY <1>1, <1>3, <2>1 DEF Types, FileRec
<1>4. QED BY <1>1, <1>2, <1>3

\* fileclose takes one reference off, or halts.
LEMMA FilecloseRefs == ASSUME Shape, CallInv, NEW p \in Proc, Fileclose(p) PROVE StepRefs(p)
<1>1. Others(p) BY OthersQuiet DEF Shape
<1>2. CallOK(p) /\ Types BY DEF CallInv, Shape
<1>3. pc[p] = "close" /\ exiting' = exiting /\ orphan' = orphan
  BY DEF Fileclose, At, history
<1>4. PICK h \in File : h = cur[p] BY <1>3 DEF Shape, PlaceInv, InFtable, InPipe
<1>5. PICK r \in Nat : r = file[h].ref BY <1>2 DEF Types, FileRec
<1>6. CASE r < 1
  <2>1. halted' /\ UNCHANGED <<ofile, pc, locals>> BY <1>4, <1>5, <1>6 DEF Fileclose, Halt
  <2>2. QED BY <1>1, <1>2, <1>3, <2>1 DEF StepRefs, CallOK, locals
<1>7. CASE r >= 1
  <2>1. file'[h].ref = r - 1 /\ \A f \in File \ {h} : file'[f].ref = file[f].ref
    BY <1>2, <1>4, <1>5, <1>7, FilecloseFile
  <2>2. CASE Closed(p, {}, "user")
    <3>1. ASSUME NEW f \in File
          PROVE  /\ pc'[p] \in {"close", "exit", "user"} /\ CallOK(p)' /\ Balance(f)
      <4>1. /\ pc'[p] \in {"close", "exit", "user"} /\ CallOK(p)'
            /\ Count(Refs, f) \in Nat /\ Count(Refs, f)' \in Nat
            /\ Count(Refs, f)' = Count(Refs, f) - (IF pc[p] = "close" /\ cur[p] = f THEN 1 ELSE 0)
        BY <1>2, <1>3, <1>4, <2>2, ClosedRefs
      <4>2. PICK b \in BOOLEAN : b = (h = f) OBVIOUS
      <4>3. Count(Refs, f)' = Count(Refs, f) - (IF b THEN 1 ELSE 0) BY <1>3, <1>4, <4>1, <4>2
      <4>4. file'[f].ref = file[f].ref - (IF b THEN 1 ELSE 0)
        <5>1. file[f].ref \in Nat BY <1>2 DEF Types, FileRec
        <5>2. CASE f = h BY <1>5, <2>1, <4>2, <5>2
        <5>3. CASE f # h
          <6>1. file'[f].ref = file[f].ref /\ b = FALSE BY <2>1, <4>2, <5>3
          <6>2. QED BY <5>1, <6>1
        <5>4. QED BY <5>2, <5>3
      <4>5. Balance(f) BY <1>2, <4>1, <4>3, <4>4, LessBalance
      <4>6. QED BY <4>1, <4>5
    <3>2. QED BY <1>1, <1>3, <1>4, <3>1 DEF StepRefs
  <2>3. CASE Goto(p, "pipeclose") /\ UNCHANGED <<ofile, cur, cur2, arg>>
    <3>1. pc'[p] = "pipeclose" BY <1>2, <2>3 DEF Types, Goto
    <3>2. CallOK(p)' BY <1>2, <1>3, <2>3, <3>1 DEF CallOK
    <3>3. PICK k \in Spots : /\ Ref(p, k) = h /\ Ref(p, k)' = None
                             /\ \A j \in Spots \ {k} : Ref(p, j)' = Ref(p, j)
      <4>1. CASE p \notin exiting
        <5>1. Ref(p, 0) = h /\ Ref(p, 0)' = None BY <1>3, <1>4, <3>1, <4>1 DEF Ref
        <5>2. \A j \in Spots \ {0} : Ref(p, j)' = Ref(p, j)
          BY <1>3, <2>3, <3>1, <4>1, PlaceFacts DEF Ref, Spots
        <5>3. QED BY <5>1, <5>2 DEF Spots
      <4>2. CASE p \in exiting
        <5>1. PICK d \in Fd : d = arg[p] /\ ofile[p][d] = h BY <1>2, <1>3, <1>4, <4>2 DEF CallOK
        <5>2. Ref(p, d) = h /\ Ref(p, d)' = None
          BY <1>3, <2>3, <3>1, <4>2, <5>1, PlaceFacts DEF Ref
        <5>3. \A j \in Spots \ {d} : Ref(p, j)' = Ref(p, j)
          BY <1>3, <2>3, <3>1, <4>2, <5>1, PlaceFacts DEF Ref, Spots
        <5>4. QED BY <5>2, <5>3 DEF Spots
      <4>3. QED BY <4>1, <4>2
    <3>4. ASSUME NEW f \in File PROVE Balance(f)
      <4>1. f # None BY PlaceFacts
      <4>2. /\ Count(Refs, f) \in Nat /\ Count(Refs, f)' \in Nat
            /\ Count(Refs, f)' = Count(Refs, f) - (IF Ref(p, k) = f THEN 1 ELSE 0)
                                                + (IF Ref(p, k)' = f THEN 1 ELSE 0)
        BY <1>1, <3>3, OneRef
      <4>3. PICK b \in BOOLEAN : b = (h = f) OBVIOUS
      <4>4. Count(Refs, f)' = Count(Refs, f) - (IF b THEN 1 ELSE 0)
        <5>0. PICK u, v : u = Ref(p, k) /\ v = Ref(p, k)' OBVIOUS
        <5>1. PICK m \in Nat, n \in Nat : m = Count(Refs, f) /\ n = Count(Refs, f)'
          BY <4>2
        <5>2. n = m - (IF u = f THEN 1 ELSE 0) + (IF v = f THEN 1 ELSE 0) BY <4>2, <5>0, <5>1
        <5>3. u = h /\ v = None BY <3>3, <5>0
        <5>4. n = m - (IF b THEN 1 ELSE 0)
          <6>1. n = m - (IF h = f THEN 1 ELSE 0) BY <4>1, <5>2, <5>3
          <6>2. CASE h = f
            <7>1. b = TRUE BY <4>3, <6>2
            <7>2. QED BY <6>1, <6>2, <7>1
          <6>3. CASE h # f
            <7>1. b = FALSE BY <4>3, <6>3
            <7>2. QED BY <6>1, <6>3, <7>1
          <6>4. QED BY <6>2, <6>3
        <5>5. QED BY <5>1, <5>4
      <4>5. file'[f].ref = file[f].ref - (IF b THEN 1 ELSE 0)
        <5>1. file[f].ref \in Nat BY <1>2 DEF Types, FileRec
        <5>2. CASE f = h BY <1>5, <2>1, <4>3, <5>2
        <5>3. CASE f # h
          <6>1. file'[f].ref = file[f].ref /\ b = FALSE BY <2>1, <4>3, <5>3
          <6>2. QED BY <5>1, <6>1
        <5>4. QED BY <5>2, <5>3
      <4>6. QED BY <1>2, <4>2, <4>4, <4>5, LessBalance
    <3>5. QED BY <1>1, <1>3, <3>1, <3>2, <3>4 DEF StepRefs
  <2>4. QED BY <1>4, <1>5, <1>7, <2>2, <2>3 DEF Fileclose
<1>8. QED BY <1>5, <1>6, <1>7

\* The pipe handler leaves the table as it is, but for the page that one file
\* points to and the count of what exit was closing.
LEMMA PipeHitFile ==
    ASSUME Shape, CallInv, RefInv, NEW p \in Proc, PipeHit(p),
           ~\E q \in Proc \ {p} : pc[q] \in InPipe, NEW f \in File
    PROVE  /\ file'[f].type = file[f].type /\ file'[f].wr = file[f].wr /\ file'[f].ip = file[f].ip
           /\ \/ file'[f].pipe = file[f].pipe
              \/ file'[f].pipe \in hurt' /\ file[f].pipe \in hurt'
           /\ f \notin orphan' => file'[f].ref = file[f].ref
<1>1. CallOK(p) /\ Types BY DEF CallInv, Shape
<1>2. pc[p] \in {"read", "write", "pipeclose"} BY DEF PipeHit, OnPipe, At
<1>3. PICK a, b : a = ff[p].pipe /\ b = Min(FreePages) OBVIOUS
<1>4. PICK S : S = Pointing(a) OBVIOUS
<1>5. PICK h : h = IF S = {} THEN ofile[NPROC][NOFILE] ELSE ofile[First(S)[1]][First(S)[2]]
  OBVIOUS
<1>6. PICK again : again = (p \in exiting /\ h # None /\ file[h].ref = 0) OBVIOUS
<1>7. /\ file' = [g \in File |-> IF g # h THEN file[g]
                   ELSE [file[g] EXCEPT !.pipe = IF S = {} THEN @ ELSE b,
                                        !.ref = IF again THEN 1 ELSE @]]
      /\ hurt' = hurt \cup {a, b}
      /\ orphan' = orphan \cup ({cur2[p]} \ {None}) \cup (IF p \in exiting THEN {cur[p]} ELSE {})
  BY <1>3, <1>4, <1>5, <1>6 DEF PipeHit
<1>8. PICK q \in Proc, d \in Fd : h = ofile[q][d] /\ (S # {} => file[h].pipe = a)
  <2>1. CASE S = {} BY <1>5, <2>1, FilesAssumption DEF Proc, Fd
  <2>2. CASE S # {}
    <3>1. S \subseteq Proc \X Fd BY <1>4 DEF Pointing
    <3>2. First(S) \in S BY <2>2, <3>1, FirstFinds
    <3>3. h = ofile[First(S)[1]][First(S)[2]] BY <1>5, <2>2
    <3>4. file[h].pipe = a BY <1>4, <3>2, <3>3 DEF Pointing
    <3>5. QED BY <3>1, <3>2, <3>3, <3>4
  <2>3. QED BY <2>1, <2>2
<1>9. ASSUME again, h = f, f \notin orphan' PROVE FALSE
  <2>1. p \in exiting /\ file[f].ref = 0 /\ ofile[q][d] = f BY <1>6, <1>8, <1>9
  <2>2. f # cur[p] /\ f \in File \ orphan BY <1>7, <1>9, <2>1
  <2>3. pc[p] = "pipeclose" /\ arg[p] \in Fd /\ ofile[p][arg[p]] = cur[p]
    BY <1>1, <1>2, <2>1 DEF CallOK
  <2>4. Ref(q, d) = f
    <3>1. CASE q = p BY <2>1, <2>2, <2>3, <3>1, RefCases
    <3>2. CASE q # p
      <4>1. pc[q] # "pipeclose" BY <3>2 DEF InPipe
      <4>2. QED BY <2>1, <4>1, RefCases
    <3>3. QED BY <3>1, <3>2
  <2>5. Count(Refs, f) \in Nat /\ Count(Refs, f) >= 1 BY <2>4, RefCount DEF Spots
  <2>6. file[f].ref = Count(Refs, f) \/ file[f].ref = Count(Refs, f) + 1 BY <2>2 DEF RefInv
  <2>7. QED BY <2>1, <2>5, <2>6
<1>10. PICK x, y : x = (IF S = {} THEN file[f].pipe ELSE b) /\ y = (IF again THEN 1 ELSE file[f].ref)
  OBVIOUS
<1>11. file'[f] = file[f] \/ (h = f /\ file'[f] = [file[f] EXCEPT !.pipe = x, !.ref = y])
  BY <1>7, <1>10
<1>12. file[f] \in FileRec BY <1>1 DEF Types
<1>13. CASE file'[f] = file[f] BY <1>13
<1>14. CASE h = f /\ file'[f] = [file[f] EXCEPT !.pipe = x, !.ref = y]
  <2>1. /\ file'[f].type = file[f].type /\ file'[f].wr = file[f].wr /\ file'[f].ip = file[f].ip
        /\ file'[f].pipe = x /\ file'[f].ref = y
    BY ONLY <1>12, <1>14 DEF FileRec
  <2>2. x = file[f].pipe \/ (x \in hurt' /\ file[f].pipe \in hurt')
    BY <1>7, <1>8, <1>10, <1>14
  <2>3. f \notin orphan' => y = file[f].ref BY <1>9, <1>10, <1>14
  <2>4. QED BY <2>1, <2>2, <2>3
<1>15. QED BY <1>11, <1>13, <1>14

\* The pipe handler cuts off what its process has in hand; what exit was
\* closing is in its descriptor again.
LEMMA PipeHitRefs == ASSUME Shape, CallInv, RefInv, NEW p \in Proc, PipeHit(p) PROVE StepRefs(p)
<1>1. Others(p) BY OthersQuiet DEF Shape
<1>2. CallOK(p) /\ Types BY DEF CallInv, Shape
<1>3. pc[p] \in {"read", "write", "pipeclose"} /\ ofile' = ofile /\ exiting' = exiting
  BY DEF PipeHit, OnPipe, At
<1>4. CASE \E q \in Proc \ {p} : pc[q] \in InPipe
  <2>1. halted' /\ UNCHANGED <<pc, locals, orphan>> BY <1>4 DEF PipeHit, Halt
  <2>2. QED BY <1>1, <1>2, <1>3, <2>1 DEF StepRefs, CallOK, locals
<1>5. CASE ~\E q \in Proc \ {p} : pc[q] \in InPipe
  <2>1. /\ Return(p)
        /\ orphan' = orphan \cup ({cur2[p]} \ {None}) \cup (IF p \in exiting THEN {cur[p]} ELSE {})
    BY <1>5 DEF PipeHit
  <2>2. pc'[p] = "user" /\ cur'[p] = None /\ cur2'[p] = None BY <1>2, <2>1, ReturnQuiet
  <2>3. CallOK(p)' BY <1>2, <1>3, <2>2 DEF CallOK
  <2>4. p \in exiting /\ pc[p] = "pipeclose" => arg[p] \in Fd /\ ofile[p][arg[p]] = cur[p]
    BY <1>2 DEF CallOK
  <2>5. ASSUME NEW f \in File, f \notin orphan' PROVE Balance(f)
    <3>1. f # None /\ f # cur2[p] /\ (p \in exiting => f # cur[p])
      BY <2>1, <2>5, PlaceFacts
    <3>2. \A k \in Spots : Ref(p, k)' = f <=> Ref(p, k) = f
      BY <1>3, <2>2, <2>4, <3>1 DEF Ref, Spots
    <3>3. Count(Refs, f)' = Count(Refs, f) BY <1>1, <3>2, SameCount
    <3>4. file'[f].ref = file[f].ref BY <1>5, <2>5, PipeHitFile
    <3>5. QED BY <3>3, <3>4, SameBalance
  <2>6. QED BY <1>1, <1>3, <2>1, <2>2, <2>3, <2>5 DEF StepRefs
<1>6. QED BY <1>4, <1>5

\* fork counts the descriptors that it copies.
LEMMA ForkRefs ==
    ASSUME Shape, CallInv, NEW p \in Proc, NEW c \in Proc, Fork(p, c) PROVE StepRefs(c)
<1>1. CallOK(c) /\ Types BY DEF CallInv, Shape
<1>2. /\ pc[c] = "unused" /\ pc[p] = "user" /\ pc' = [pc EXCEPT ![c] = "user"]
      /\ ofile' = [ofile EXCEPT ![c] = ofile[p]]
      /\ UNCHANGED <<cur, cur2, ff, arg, exiting, orphan>>
  BY DEF Fork, StartCall, At, Goto, locals, history
<1>3. Others(c) BY <1>1, <1>2 DEF Others, Quiet, Types
<1>4. c \notin exiting /\ cur2[c] = None /\ \A d \in Fd : ofile[c][d] = None
  BY <1>1, <1>2 DEF CallOK
<1>5. pc'[c] = "user" /\ ofile'[c] = ofile[p] BY <1>1, <1>2 DEF Types
<1>6. CallOK(c)' BY <1>2, <1>4, <1>5 DEF CallOK
<1>7. ASSUME NEW f \in File PROVE Balance(f)
  <2> DEFINE F == {d \in Fd : ofile[p][d] = f}
             X == {c} \X F
  <2>1. PICK R, S : R = Refs /\ S = Refs' OBVIOUS
  <2>2. DOMAIN R = Place /\ DOMAIN S = Place /\ X \in SUBSET Place
    BY <2>1, PlaceFacts DEF Refs
  <2>3. f # None BY PlaceFacts
  <2>4. IsFiniteSet(F) BY PlacesFinite, FS_Subset
  <2>5. /\ Ref(c, 0) = None /\ Ref(c, -1) = None /\ Ref(c, 0)' = None /\ Ref(c, -1)' = None
        /\ \A d \in Fd : Ref(c, d) = None /\ Ref(c, d)' = ofile[p][d]
    BY <1>2, <1>4, <1>5, PlaceFacts DEF Ref
  <2>6. \A q \in Proc, k \in Spots :
           /\ <<q, k>> \in X <=> q = c /\ k \in Fd /\ ofile[p][k] = f
           /\ S[<<q, k>>] = f <=> R[<<q, k>>] = f \/ <<q, k>> \in X
           /\ <<q, k>> \in X => R[<<q, k>>] # f
    <3> SUFFICES ASSUME NEW q \in Proc, NEW k \in Spots
                 PROVE  /\ <<q, k>> \in X <=> q = c /\ k \in Fd /\ ofile[p][k] = f
                        /\ S[<<q, k>>] = f <=> R[<<q, k>>] = f \/ <<q, k>> \in X
                        /\ <<q, k>> \in X => R[<<q, k>>] # f
      OBVIOUS
    <3>1. <<q, k>> \in X <=> q = c /\ k \in Fd /\ ofile[p][k] = f OBVIOUS
    <3> HIDE DEF X
    <3>2. CASE q # c
      <4>1. Refs'[<<q, k>>] = Refs[<<q, k>>] BY <1>3, <3>2, OthersRefs DEF Spots
      <4>2. QED BY <2>1, <3>1, <3>2, <4>1
    <3>3. CASE q = c
      <4>1. <<c, k>> \in Place BY PlaceFacts DEF Spots
      <4>2. R[<<c, k>>] = Ref(c, k) /\ S[<<c, k>>] = Ref(c, k)' BY <2>1, <4>1 DEF Refs
      <4>3. CASE k \in Fd BY <2>3, <2>5, <3>1, <3>3, <4>2, <4>3
      <4>4. CASE k \notin Fd BY <2>3, <2>5, <3>1, <3>3, <4>2, <4>4 DEF Spots
      <4>5. QED BY <4>3, <4>4
    <3>4. QED BY <3>2, <3>3, <3>1
  <2> HIDE DEF X
  <2>7. \A y \in Place : S[y] = f <=> R[y] = f \/ y \in X BY <2>6, PlaceFacts DEF Spots
  <2>8. \A y \in X : R[y] # f BY <2>2, <2>6, PlaceFacts DEF Spots
  <2>9. Count(S, f) = Count(R, f) + Cardinality(X) /\ Cardinality(X) \in Nat
    BY <2>2, <2>7, <2>8, PlacesFinite, CountRow
  <2>10. Cardinality(X) = Cardinality(F) BY <2>4, CopySize DEF X
  <2>11. PICK n \in Nat : n = Cardinality(F) BY <2>9, <2>10
  <2>12. file'[f] = [file[f] EXCEPT !.ref = @ + n] BY <2>11 DEF Fork
  <2>13. PICK r \in Nat : r = file[f].ref BY <1>1 DEF Types, FileRec
  <2>14. file'[f].ref = r + n
    <3>1. file'[f] = [file[f] EXCEPT !.ref = r + n] BY <2>12, <2>13
    <3>2. QED BY <1>1, <3>1 DEF Types, FileRec
  <2>15. PICK m \in Nat : m = Count(R, f)
    BY <2>2, PlacesFinite, CountAtLeast
  <2>16. Count(S, f) = m + n BY <2>9, <2>10, <2>11, <2>15
  <2>17. Count(Refs, f)' = m + n /\ Count(Refs, f) = m BY <2>1, <2>15, <2>16
  <2>18. QED BY <2>13, <2>14, <2>17 DEF Balance
<1>8. QED BY <1>2, <1>3, <1>5, <1>6, <1>7 DEF StepRefs

\* What a step shows for the counts is enough.
LEMMA StepRefsKeeps ==
    ASSUME Types, Types', CallInv, RefInv, NEW p \in Proc, StepRefs(p)
    PROVE  CallInv' /\ (~halted' => RefInv')
<1>1. CallInv' BY OthersCall DEF StepRefs
<1>2. ASSUME ~halted' PROVE RefInv'
  <2>1. \A f \in File \ orphan' : Balance(f) BY <1>2 DEF StepRefs
  <2>2. QED BY <2>1, RefsKept DEF StepRefs
<1>3. QED BY <1>1, <1>2

\* kill changes no count.
LEMMA KillRefs ==
    ASSUME Types, CallInv, RefInv, NEW p \in Proc, NEW q \in Proc, Kill(p, q)
    PROVE  CallInv' /\ RefInv'
<1>1. \A r \in Proc : Quiet(r)
  BY DEF Kill, Quiet, Types, tables, locals, history
<1>2. UNCHANGED <<file, orphan, ofile, cur>> BY DEF Kill, tables, locals, history
<1>3. Others(p) /\ pc'[p] = "user" /\ pc[p] = "user"
  <2>1. Others(p) BY <1>1 DEF Others
  <2>2. pc[p] = "user" BY DEF Kill, StartCall, At
  <2>3. QED BY <1>1, <2>1, <2>2 DEF Quiet
<1>4. CallOK(p) BY DEF CallInv
<1>5. CallOK(p)' BY <1>1, <1>3, <1>4 DEF CallOK, Quiet
<1>6. CallInv' BY <1>3, <1>5, OthersCall
<1>7. \A k \in Spots : Ref(p, k)' = Ref(p, k) BY <1>1, <1>3 DEF Quiet, Ref
<1>8. Refs' = Refs BY <1>3, <1>7, SameRefs
<1>9. \A r \in Proc, f \in File : Drains(r, f)' <=> Drains(r, f)
  BY <1>1 DEF Quiet, Drains
<1>10. RefInv'
  <2> SUFFICES ASSUME NEW f \in File, f \notin orphan
               PROVE  /\ (\A r \in Proc : ~Drains(r, f)') => file'[f].ref = Count(Refs, f)'
                      /\ \A r \in Proc : Drains(r, f)' =>
                           \/ file'[f].ref = Count(Refs, f)' + 1
                           \/ file'[f].ref = Count(Refs, f)' /\ \E d \in Fd : ofile'[r][d] = f
    BY <1>2 DEF RefInv
  <2>1. Count(Refs, f)' = Count(Refs, f) BY <1>8
  <2>2. QED BY <1>2, <1>9, <2>1 DEF RefInv
<1>11. QED BY <1>6, <1>10

\* The file handler begins: the reference of its process is the file itself.
LEMMA StartRefs ==
    ASSUME Shape, CallInv, RefInv, NEW p \in Proc, NEW h \in File, StartFileRecovery(p, h), Others(p),
           \/ pc[p] = "close" /\ h = cur[p]
           \/ pc[p] = "user" /\ p \notin exiting /\ \E d \in Fd : h = ofile[p][d]
    PROVE  CallInv' /\ RefInv'
<1>1. CallOK(p) /\ Types BY DEF CallInv, Shape
<1>2. /\ FtableFree /\ orphan' = orphan \cup ({cur2[p]} \ {None}) /\ cur'[p] = h /\ pc'[p] = "drain"
      /\ UNCHANGED <<ofile, file, exiting>>
  BY <1>1 DEF StartFileRecovery, Goto, Types
<1>3. CallOK(p)' BY <1>1, <1>2 DEF CallOK
<1>4. CallInv' BY <1>2, <1>3, OthersCall
<1>5. \A q \in Proc, f \in File : ~Drains(q, f) BY <1>2 DEF FtableFree, Drains
<1>6. \A q \in Proc, f \in File : Drains(q, f)' <=> q = p /\ f = h
  BY <1>2, <1>5 DEF Drains, Others, Quiet
<1>7. /\ Ref(p, 0)' = None /\ Ref(p, -1)' = None
      /\ \A d \in Fd : Ref(p, d)' = ofile[p][d]
      /\ \A d \in Fd : Ref(p, d) = ofile[p][d]
  BY <1>2, PlaceFacts DEF Ref
<1>8. ASSUME NEW f \in File, f \notin orphan'
      PROVE  /\ (\A q \in Proc : ~Drains(q, f)') => file'[f].ref = Count(Refs, f)'
             /\ \A q \in Proc : Drains(q, f)' =>
                  \/ file'[f].ref = Count(Refs, f)' + 1
                  \/ file'[f].ref = Count(Refs, f)' /\ \E d \in Fd : ofile'[q][d] = f
  <2>1. f # None /\ f # cur2[p] /\ f \notin orphan BY <1>2, <1>8, PlaceFacts
  <2>2. file[f].ref = Count(Refs, f) BY <1>5, <2>1 DEF RefInv
  <2>3. Ref(p, -1) # f BY <2>1, PlaceFacts DEF Ref
  <2>4. CASE Ref(p, 0) # f
    <3>1. \A k \in Spots : Ref(p, k)' = f <=> Ref(p, k) = f BY <1>7, <2>1, <2>3, <2>4 DEF Spots
    <3>2. Count(Refs, f)' = Count(Refs, f) BY <3>1, SameCount
    <3>3. f = h => \E d \in Fd : ofile[p][d] = f
      <4>1. f = h /\ pc[p] = "close" => p \in exiting BY <2>4 DEF Ref
      <4>2. QED BY <1>1, <4>1 DEF CallOK
    <3>4. QED BY <1>2, <1>6, <2>2, <3>2, <3>3
  <2>5. CASE Ref(p, 0) = f
    <3>1. f = h BY <2>1, <2>5 DEF Ref
    <3>2. \A j \in Spots \ {0, -1} : Ref(p, j)' = Ref(p, j) BY <1>7 DEF Spots
    <3>3. 0 \in Spots /\ -1 \in Spots /\ 0 # -1 BY DEF Spots
    <3>4. /\ Count(Refs, f) \in Nat /\ Count(Refs, f)' \in Nat
          /\ Count(Refs, f)' = Count(Refs, f) - (IF Ref(p, 0) = f THEN 1 ELSE 0)
                                              - (IF Ref(p, -1) = f THEN 1 ELSE 0)
                                              + (IF Ref(p, 0)' = f THEN 1 ELSE 0)
                                              + (IF Ref(p, -1)' = f THEN 1 ELSE 0)
      BY <3>2, <3>3, TwoRefs
    <3>5. PICK m \in Nat, n \in Nat : m = Count(Refs, f) /\ n = Count(Refs, f)' BY <3>4
    <3>6. n = m - 1 BY <1>7, <2>1, <2>3, <2>5, <3>4, <3>5
    <3>7. file'[f].ref = m BY <1>2, <2>2, <3>5
    <3>8. file'[f].ref = Count(Refs, f)' + 1 BY <3>5, <3>6, <3>7
    <3>9. QED BY <1>6, <3>1, <3>8
  <2>6. QED BY <2>4, <2>5
<1>9. QED BY <1>4, <1>8 DEF RefInv

\* The file handler closes the broken file everywhere.
LEMMA FinishRefs ==
    ASSUME Shape, CallInv, RefInv, NEW p \in Proc, FinishFileRecovery(p)
    PROVE  CallInv' /\ RefInv'
<1>1. /\ Types /\ pc[p] = "drain" /\ Drained(p) /\ Return(p)
      /\ file' = [file EXCEPT ![cur[p]] = FreeFile]
      /\ ofile' = [q \in Proc |-> [d \in Fd |-> Dropped(p, q, d)]]
      /\ UNCHANGED <<exiting, orphan>>
  BY DEF FinishFileRecovery, At, Shape
<1>2. /\ pc'[p] = "user" /\ cur'[p] = None /\ cur2'[p] = None
      /\ \A q \in Proc \ {p} : /\ pc'[q] = pc[q] /\ cur'[q] = cur[q] /\ cur2'[q] = cur2[q]
                               /\ ff'[q] = ff[q] /\ arg'[q] = arg[q]
  BY <1>1, ReturnQuiet
<1>3. \A q \in Proc \ {p} : pc[q] # "drain" BY <1>1 DEF CallInv
<1>4. PICK h \in File : h = cur[p] BY <1>1 DEF Shape, PlaceInv
<1>5. \A q \in Proc, d \in Fd : ofile'[q][d] = IF ofile[q][d] = h THEN None ELSE ofile[q][d]
  BY <1>1, <1>4 DEF Dropped
<1>6. \A q \in Proc \ {p} : pc[q] \notin InFtable BY <1>1 DEF Drained
<1>7. CallInv'
  <2>1. ASSUME NEW q \in Proc PROVE CallOK(q)'
    <3>1. CallOK(q) BY DEF CallInv
    <3>2. CASE q = p BY <1>1, <1>2, <3>1, <3>2 DEF CallOK
    <3>3. CASE q # p
      <4>1. pc[q] \notin {"close", "pipeclose", "pipefds"} BY <1>6, <3>3 DEF InFtable, InPipe
      <4>2. pc'[q] = pc[q] /\ cur2'[q] = cur2[q] BY <1>2, <3>3
      <4>3. pc[q] = "unused" => \A d \in Fd : ofile'[q][d] = None
        BY <1>5, <3>1 DEF CallOK
      <4>4. QED BY <1>1, <3>1, <4>1, <4>2, <4>3 DEF CallOK
    <3>4. QED BY <3>2, <3>3
  <2>2. \A q \in Proc : pc'[q] # "drain" BY <1>2, <1>3
  <2>3. QED BY <2>1, <2>2 DEF CallInv
<1>8. \A q \in Proc, f \in File : ~Drains(q, f)' BY <1>2, <1>3 DEF Drains
<1>9. ASSUME NEW q \in Proc
      PROVE  /\ Ref(q, 0) = None /\ Ref(q, 0)' = None /\ Ref(q, -1) = None /\ Ref(q, -1)' = None
             /\ \A d \in Fd : Ref(q, d) = ofile[q][d] /\ Ref(q, d)' = ofile'[q][d]
  <2>1. pc[q] \notin {"pipe2", "pipefds", "openfd", "close", "pipeclose"}
    BY <1>1, <1>6 DEF InFtable, InPipe
  <2>2. pc'[q] \notin {"pipe2", "pipefds", "openfd", "close", "pipeclose"} BY <1>2, <2>1
  <2>3. QED BY <2>1, <2>2, PlaceFacts DEF Ref
<1>10. ASSUME NEW f \in File, f \notin orphan
       PROVE  file'[f].ref = Count(Refs, f)'
  <2>1. PICK R, S : R = Refs /\ S = Refs' OBVIOUS
  <2>2. DOMAIN R = Place /\ DOMAIN S = Place BY <2>1, PlaceFacts DEF Refs
  <2>3. \A q \in Proc, k \in Spots : /\ <<q, k>> \in Place
                                     /\ R[<<q, k>>] = Ref(q, k) /\ S[<<q, k>>] = Ref(q, k)'
    BY <2>1, PlaceFacts DEF Spots, Refs
  <2>4. f # None BY PlaceFacts
  <2>5. CASE f = h
    <3>1. ASSUME NEW q \in Proc, NEW k \in Spots PROVE S[<<q, k>>] # f
      <4>1. S[<<q, k>>] = Ref(q, k)' BY <2>3
      <4>2. k \in Fd => ofile'[q][k] # f BY <1>5, <2>4, <2>5
      <4>3. Ref(q, k)' # f BY <1>9, <2>4, <4>2 DEF Spots
      <4>4. QED BY <4>1, <4>3
    <3>2. \A x \in DOMAIN S : S[x] # f BY <2>2, <3>1, PlaceFacts DEF Spots
    <3>3. Count(S, f) = 0 BY <2>2, <3>2, PlacesFinite, CountAtLeast
    <3>4. file'[f].ref = 0 BY <1>1, <1>4, <2>5 DEF FreeFile, Types
    <3>5. QED BY <2>1, <3>3, <3>4
  <2>6. CASE f # h
    <3>1. ASSUME NEW q \in Proc, NEW k \in Spots PROVE S[<<q, k>>] = f <=> R[<<q, k>>] = f
      <4>1. S[<<q, k>>] = Ref(q, k)' /\ R[<<q, k>>] = Ref(q, k) BY <2>3
      <4>2. k \in Fd => (ofile'[q][k] = f <=> ofile[q][k] = f) BY <1>5, <2>4, <2>6
      <4>3. Ref(q, k)' = f <=> Ref(q, k) = f BY <1>9, <2>4, <4>2 DEF Spots
      <4>4. QED BY <4>1, <4>3
    <3>2. \A x \in DOMAIN R : S[x] = f <=> R[x] = f BY <2>2, <3>1, PlaceFacts DEF Spots
    <3>3. Count(S, f) = Count(R, f) BY <2>2, <3>2, CountSame
    <3>4. \A q \in Proc : ~Drains(q, f) BY <1>3, <1>4, <2>6 DEF Drains
    <3>5. file[f].ref = Count(R, f) BY <1>10, <2>1, <3>4 DEF RefInv
    <3>6. file'[f].ref = file[f].ref BY <1>1, <1>4, <2>6 DEF Types
    <3>7. QED BY <2>1, <3>3, <3>5, <3>6
  <2>7. QED BY <2>5, <2>6
<1>11. RefInv' BY <1>1, <1>8, <1>10 DEF RefInv
<1>12. QED BY <1>7, <1>11

-----------------------------------------------------------------------------
(* What pipe and open have allocated. *)

\* q has allocated f and has not given it out yet.
Holds(q, f) ==
    \/ pc[q] \in {"pipe2", "pipefds", "openfd"} /\ cur[q] = f
    \/ pc[q] = "pipefds" /\ cur2[q] = f

\* Nobody else refers to a new file.
LEMMA NewAlone ==
    ASSUME Types, RefInv, NewInv, NEW q \in Proc, NEW f \in File, f \notin orphan, Holds(q, f)
    PROVE  New(f) /\ \A p \in Proc \ {q}, k \in Spots : Ref(p, k) # f
<1>1. New(f) BY DEF NewInv, NewOK, Holds
<1>2. PICK j \in Spots : Ref(q, j) = f
  <2>1. 0 \in Spots /\ -1 \in Spots BY DEF Spots
  <2>2. QED BY <2>1, RefCases DEF Holds
<1>3. Count(Refs, f) = 1 BY <1>1 DEF RefInv, New
<1>4. QED BY <1>1, <1>2, <1>3, RefCount

\* A free slot is not the file that a handler drops.
LEMMA FreeNew ==
    ASSUME Types, RefInv, NewInv, NEW f \in File, f \notin orphan, file[f].ref = 0
    PROVE  file[f].type = "none" /\ \A q \in Proc : ~Drains(q, f)
<1>1. ASSUME NEW q \in Proc, Drains(q, f) PROVE FALSE
  <2>1. \/ file[f].ref = Count(Refs, f) + 1
        \/ file[f].ref = Count(Refs, f) /\ \E d \in Fd : ofile[q][d] = f
    BY <1>1 DEF RefInv
  <2>2. Count(Refs, f) \in Nat BY RefCount
  <2>3. PICK d \in Fd : ofile[q][d] = f BY <2>1, <2>2
  <2>4. Ref(q, d) = f BY <1>1, <2>3, RefCases DEF Drains
  <2>5. Count(Refs, f) >= 1 BY <2>4, RefCount DEF Spots
  <2>6. QED BY <2>1, <2>2, <2>5
<1>2. QED BY <1>1 DEF NewInv

\* What a step of p must show for the new files.
StepNew(p) ==
    /\ NewOK(p)'
    /\ \A f \in File \ orphan' :
          /\ file'[f].ref = 0 => file'[f].type = "none"
          /\ New(f) /\ (\A k \in Spots : Ref(p, k) # f) => New(f)'

\* The other processes keep their new files, which nobody else refers to.
LEMMA StepNewKeeps ==
    ASSUME Shape, CallInv, RefInv, NewInv, NEW p \in Proc, Others(p),
           orphan \subseteq orphan', StepNew(p)
    PROVE  NewInv'
<1>1. ASSUME NEW q \in Proc \ {p} PROVE NewOK(q)'
  <2>1. \/ pc'[q] = pc[q]
        \/ pc'[q] \notin {"pipe2", "pipefds", "openfd"}
    BY DEF Others, Quiet
  <2>2. cur'[q] = cur[q] /\ cur2'[q] = cur2[q] BY DEF Others, Quiet
  <2>3. ASSUME NEW f, f \notin orphan', Holds(q, f) PROVE New(f)'
    <3>1. f \in File
      BY <2>3 DEF Holds, Shape, PlaceInv, InFtable, InPipe, CallInv, CallOK
    <3>2. New(f) /\ \A k \in Spots : Ref(p, k) # f
      BY <2>3, <3>1, NewAlone DEF Shape
    <3>3. QED BY <2>3, <3>1, <3>2 DEF StepNew
  <2>4. CASE pc'[q] = pc[q]
    <3>1. PICK a, b : a = cur[q] /\ b = cur2[q] OBVIOUS
    <3>2. pc[q] \in {"pipe2", "pipefds", "openfd"} /\ a \notin orphan' => New(a)'
      BY <2>3, <3>1 DEF Holds
    <3>3. pc[q] = "pipefds" /\ b \notin orphan' => New(b)'
      BY <2>3, <3>1 DEF Holds
    <3>4. QED BY <2>2, <2>4, <3>1, <3>2, <3>3 DEF NewOK, New
  <2>5. CASE pc'[q] \notin {"pipe2", "pipefds", "openfd"} BY <2>5 DEF NewOK
  <2>6. QED BY <2>1, <2>4, <2>5
<1>2. QED BY <1>1 DEF StepNew, NewInv

\* No handler begins in a step of p.
LEMMA SameDrains ==
    ASSUME NEW p \in Proc, Others(p), pc[p] # "drain", pc'[p] # "drain", NEW f
    PROVE  (\A q \in Proc : ~Drains(q, f)) => \A q \in Proc : ~Drains(q, f)'
BY DEF Others, Quiet, Drains

\* The steps that leave the table as it is.
LEMMA QuietNew ==
    ASSUME Shape, CallInv, RefInv, NewInv, NEW p \in Proc,
           \/ ExitLoop(p) \/ Piperead(p) \/ Pipewrite(p) \/ Exit(p) \/ Pipeclose(p)
           \/ \E i \in Inode : SysOpen(p, i)
           \/ \E d \in Fd : SysClose(p, d)
           \/ \E d \in Fd, n \in 1..MaxWrite : SysRw(p, d, n)
    PROVE  StepNew(p)
<1>1. StepRefs(p) BY QuietRefs, PipecloseRefs, SysCloseRefs
<1>2. file' = file /\ orphan' = orphan
  BY DEF ExitLoop, Piperead, Pipewrite, Exit, Pipeclose, SysOpen, SysClose, SysRw, tables, history
<1>3. pc'[p] \notin {"pipe2", "pipefds", "openfd"}
  <2>1. CASE Pipeclose(p)
    <3>1. PICK S, to : /\ Closed(p, S, to)
                       /\ \/ to = "read" /\ S \subseteq {q \in Proc : pc[q] = "rsleep"}
                          \/ to = "write" /\ S \subseteq {q \in Proc : pc[q] = "wsleep"}
      BY <2>1 DEF Pipeclose, Sleepers
    <3>2. exiting' = exiting BY <2>1 DEF Pipeclose
    <3>3. QED BY <3>1, <3>2, ClosedQuiet DEF Shape
  <2>2. CASE \E d \in Fd : SysClose(p, d) BY <2>2 DEF SysClose, Goto, Shape, Types
  <2>3. CASE ExitLoop(p) BY <2>3 DEF ExitLoop, Goto, Shape, Types
  <2>4. CASE Piperead(p)
    <3>1. CASE Goto(p, "rsleep") BY <3>1 DEF Shape, Types, Goto
    <3>2. CASE Return(p) BY <3>2 DEF Shape, Types, Return, Goto
    <3>3. CASE WakeAndGoto(Sleepers("wsleep", ff[p].pipe), "write", p, "user")
      BY <3>3 DEF WakeAndGoto
    <3>4. QED BY <2>4, <3>1, <3>2, <3>3 DEF Piperead
  <2>5. CASE Pipewrite(p)
    <3> DEFINE k == Min({arg[p], PIPESIZE - (Pi(p).nwrite - Pi(p).nread)})
               full == k < arg[p]
               fails == full /\ (~Pi(p).readopen \/ p \in killed)
    <3>1. WakeAndGoto(IF fails THEN {} ELSE Sleepers("rsleep", ff[p].pipe), "read", p,
                      IF full /\ ~fails THEN "wsleep" ELSE "user")
      BY <2>5 DEF Pipewrite
    <3> HIDE DEF full, fails
    <3>2. QED BY <3>1 DEF WakeAndGoto
  <2>6. CASE Exit(p) BY <2>6 DEF Exit, Goto, Shape, Types
  <2>7. CASE \E i \in Inode : SysOpen(p, i) BY <2>7 DEF SysOpen, Goto, Shape, Types
  <2>8. CASE \E d \in Fd, n \in 1..MaxWrite : SysRw(p, d, n) BY SMTT(60), <2>8 DEF SysRw, Goto, Shape, Types
  <2>9. QED BY <2>1, <2>2, <2>3, <2>4, <2>5, <2>6, <2>7, <2>8
<1>4. \A f : (\A q \in Proc : ~Drains(q, f)) => \A q \in Proc : ~Drains(q, f)'
  BY <1>1, SameDrains DEF StepRefs
<1>5. ASSUME NEW f \in File, f \notin orphan'
      PROVE  /\ file'[f].ref = 0 => file'[f].type = "none"
             /\ New(f) => New(f)'
  BY <1>2, <1>4, <1>5 DEF NewInv, New
<1>6. QED BY <1>3, <1>5 DEF StepNew, NewOK

\* A new slot.
LEMMA AllocNew ==
    ASSUME Shape, CallInv, RefInv, NewInv, NEW p \in Proc, StepRefs(p), orphan' = orphan,
           NEW h \in File, file[h].ref = 0, file' = Filealloc(h), NEW f \in File, f \notin orphan
    PROVE  /\ file'[f].ref = 0 => file'[f].type = "none"
           /\ f = h \/ New(f) => New(f)'
<1>1. file'[f].ref = (IF f = h THEN 1 ELSE file[f].ref) /\ file'[f].type = file[f].type
  BY AllocRef DEF Shape
<1>2. file[f].ref = 0 => file[f].type = "none" /\ \A q \in Proc : ~Drains(q, f)
  BY FreeNew DEF Shape
<1>3. (\A q \in Proc : ~Drains(q, f)) => \A q \in Proc : ~Drains(q, f)'
  BY SameDrains DEF StepRefs
<1>4. QED BY <1>1, <1>2, <1>3 DEF New

\* The calls that allocate a file.
LEMMA AllocsNew ==
    ASSUME Shape, CallInv, RefInv, NewInv, NEW p \in Proc,
           SysPipe(p) \/ Pipealloc(p) \/ OpenAlloc(p)
    PROVE  StepNew(p)
<1>1. StepRefs(p) BY SysPipeRefs, PipeallocRefs, OpenAllocRefs
<1>2. orphan' = orphan /\ Types BY DEF SysPipe, Pipealloc, OpenAlloc, history, Shape
<1>3. NewOK(p) BY DEF NewInv
<1>4. CASE FreeSlot = None
  <2>1. file' = file /\ pc'[p] \notin {"pipe2", "pipefds", "openfd"}
    <3>1. CASE SysPipe(p)
      <4>1. UNCHANGED <<file, pc>> BY <1>4, <3>1 DEF SysPipe
      <4>2. pc[p] = "user" BY <3>1 DEF SysPipe, StartCall, At
      <4>3. QED BY <4>1, <4>2
    <3>2. CASE Pipealloc(p) BY <1>2, <1>4, <3>2 DEF Pipealloc, Goto, Types
    <3>3. CASE OpenAlloc(p) BY <1>2, <1>4, <3>3, ReturnQuiet DEF OpenAlloc
    <3>4. QED BY <3>1, <3>2, <3>3
  <2>2. \A f : (\A q \in Proc : ~Drains(q, f)) => \A q \in Proc : ~Drains(q, f)'
    BY <1>1, SameDrains DEF StepRefs
  <2>3. ASSUME NEW f \in File, f \notin orphan'
        PROVE  /\ file'[f].ref = 0 => file'[f].type = "none"
               /\ New(f) => New(f)'
    BY <1>2, <2>1, <2>2, <2>3 DEF NewInv, New
  <2>4. QED BY <2>1, <2>3 DEF StepNew, NewOK
<1>5. CASE FreeSlot # None
  <2>1. PICK h : h = FreeSlot OBVIOUS
  <2>2. h \in File /\ file[h].ref = 0 BY <1>5, <2>1, FreeSlotEmpty
  <2>3. file' = Filealloc(h) BY <1>5, <2>1 DEF SysPipe, Pipealloc, OpenAlloc
  <2>4. ASSUME NEW f \in File, f \notin orphan
        PROVE  /\ file'[f].ref = 0 => file'[f].type = "none"
               /\ f = h \/ New(f) => New(f)'
    BY <1>1, <1>2, <2>2, <2>3, <2>4, AllocNew
  <2>5. NewOK(p)'
    <3>1. CASE SysPipe(p) \/ OpenAlloc(p)
      <4>1. cur'[p] = h /\ pc'[p] # "pipefds"
        BY <1>2, <1>5, <2>1, <3>1 DEF SysPipe, OpenAlloc, Goto, Types
      <4>2. QED BY <1>2, <2>2, <2>4, <4>1 DEF NewOK, New
    <3>2. CASE Pipealloc(p)
      <4>1. cur2'[p] = h /\ cur' = cur /\ pc[p] = "pipe2"
        BY <1>2, <1>5, <2>1, <3>2 DEF Pipealloc, At, Types
      <4>2. PICK g \in File : g = cur[p] BY <4>1 DEF Shape, PlaceInv, InFtable
      <4>3. g \notin orphan => New(g) BY <1>3, <4>1, <4>2 DEF NewOK
      <4>4. g \notin orphan => New(g)' BY <2>4, <4>2, <4>3
      <4>5. h \notin orphan => New(h)' BY <2>2, <2>4
      <4>6. QED BY <1>2, <4>1, <4>2, <4>4, <4>5 DEF NewOK, New
    <3>3. QED BY <3>1, <3>2
  <2>6. QED BY <1>2, <2>4, <2>5 DEF StepNew
<1>6. QED BY <1>4, <1>5

\* The steps that change a file that p refers to.
LEMMA OwnNew ==
    ASSUME Shape, CallInv, RefInv, NewInv, NEW p \in Proc,
           \/ PipeFds(p) \/ OpenFd(p) \/ Fileclose(p)
           \/ \E d \in Fd : SysDup(p, d)
    PROVE  StepNew(p)
<1>1. StepRefs(p) BY PipeFdsRefs, OpenFdRefs, FilecloseRefs, SysDupRefs
<1>2. orphan' = orphan /\ Types BY DEF PipeFds, OpenFd, Fileclose, SysDup, history, Shape
<1>3. CallOK(p) BY DEF CallInv
<1>4. \A f : (\A q \in Proc : ~Drains(q, f)) => \A q \in Proc : ~Drains(q, f)'
  BY <1>1, SameDrains DEF StepRefs
<1>5. SUFFICES /\ pc'[p] \notin {"pipe2", "pipefds", "openfd"}
               /\ \A f \in File \ orphan :
                     /\ file[f] = file'[f] \/ \E k \in Spots : Ref(p, k) = f
                     /\ file[f] = file'[f] \/ file'[f].ref # 0 \/ file'[f].type = "none"
  <2>1. ASSUME NEW f \in File, f \notin orphan', New(f), \A k \in Spots : Ref(p, k) # f
        PROVE  New(f)'
    <3>1. file'[f] = file[f] BY <1>2, <1>5, <2>1
    <3>2. QED BY <1>4, <2>1, <3>1 DEF New
  <2>2. \A f \in File \ orphan' : file'[f].ref = 0 => file'[f].type = "none"
    BY <1>2, <1>5 DEF NewInv
  <2>3. QED BY <1>5, <2>1, <2>2 DEF StepNew, NewOK
<1>6. CASE PipeFds(p)
  <2>1. pc[p] = "pipefds" BY <1>6 DEF PipeFds, At
  <2>2. PICK g \in File, h \in File : g = cur[p] /\ h = cur2[p]
    BY <1>3, <2>1 DEF Shape, PlaceInv, InFtable, InPipe, CallOK
  <2>3. pc'[p] \in {"close", "user"}
    <3>1. CASE Goto(p, "close") BY <1>2, <3>1 DEF Goto, Types
    <3>2. CASE Goto(p, "user") BY <1>2, <3>2 DEF Goto, Types
    <3>3. QED BY <1>6, <3>1, <3>2 DEF PipeFds
  <2>4. Ref(p, 0) = g /\ Ref(p, -1) = h /\ 0 \in Spots /\ -1 \in Spots
    BY <2>1, <2>2, RefCases DEF Spots
  <2>5. \A f \in File : /\ file'[f].ref = file[f].ref
                        /\ f \notin {g, h} => file'[f] = file[f]
    BY <1>2, <1>6, <2>2, PipeFdsFile
  <2>6. \A f \in File \ orphan : f \in {g, h} => file[f].ref = 1 BY <2>1, <2>2, NewRef
  <2>7. QED BY <2>3, <2>4, <2>5, <2>6
<1>7. CASE OpenFd(p)
  <2>1. pc[p] = "openfd" /\ pc'[p] = "user" BY <1>2, <1>7, ReturnQuiet DEF OpenFd, At
  <2>2. PICK h \in File : h = cur[p] BY <2>1 DEF Shape, PlaceInv, InFtable
  <2>3. Ref(p, 0) = h /\ 0 \in Spots BY <2>1, <2>2, RefCases DEF Spots
  <2>4. ASSUME NEW f \in File, f \notin orphan
        PROVE  /\ f # h => file'[f] = file[f]
               /\ f = h => file'[f].ref # 0 \/ file'[f].type = "none"
    <3>1. f = h => file[f].ref = 1 /\ file[f].type = "none" BY <2>1, <2>2, <2>4, NewRef
    <3>2. CASE file' = [file EXCEPT ![h].ref = 0] BY <1>2, <3>1, <3>2 DEF Types, FileRec
    <3>3. CASE file' = [file EXCEPT ![h] = [@ EXCEPT !.type = "inode", !.ip = arg[p],
                                                     !.rd = TRUE, !.wr = TRUE]]
      BY <1>2, <3>1, <3>3 DEF Types, FileRec
    <3>4. QED BY <1>7, <2>2, <3>2, <3>3 DEF OpenFd
  <2>5. QED BY <2>1, <2>3, <2>4
<1>8. CASE Fileclose(p)
  <2>1. pc[p] = "close" BY <1>8 DEF Fileclose, At
  <2>2. PICK h \in File : h = cur[p] BY <2>1 DEF Shape, PlaceInv, InFtable, InPipe
  <2>3. pc'[p] \in {"close", "pipeclose", "exit", "user"}
    <3>1. CASE UNCHANGED <<ofile, pc, locals>> BY <2>1, <3>1
    <3>2. CASE Goto(p, "pipeclose") BY <1>2, <3>2 DEF Goto, Types
    <3>3. CASE Closed(p, {}, "user") BY <3>3 DEF Closed, WakeAndGoto
    <3>4. QED BY <1>8, <3>1, <3>2, <3>3 DEF Fileclose
  <2>4. \E k \in Spots : Ref(p, k) = h
    <3>1. CASE p \notin exiting BY <2>1, <2>2, <3>1, RefCases DEF Spots
    <3>2. CASE p \in exiting
      <4>1. arg[p] \in Fd /\ ofile[p][arg[p]] = h BY <1>3, <2>1, <2>2, <3>2 DEF CallOK
      <4>2. QED BY <2>1, <4>1, RefCases DEF Spots
    <3>3. QED BY <3>1, <3>2
  <2>5. file[h].ref \in Nat BY <1>2 DEF Types, FileRec
  <2>6. CASE file[h].ref < 1
    <3>1. file' = file BY <1>8, <2>2, <2>6 DEF Fileclose
    <3>2. QED BY <2>3, <3>1
  <2>7. CASE file[h].ref >= 1
    <3>1. /\ file'[h].ref = file[h].ref - 1 /\ (file[h].ref = 1 => file'[h].type = "none")
          /\ \A f \in File \ {h} : file'[f] = file[f]
      BY <1>2, <1>8, <2>2, <2>7, FilecloseFile
    <3>2. file'[h].ref # 0 \/ file'[h].type = "none" BY <2>5, <2>7, <3>1
    <3>3. QED BY <2>3, <2>4, <3>1, <3>2
  <2>8. QED BY <2>5, <2>6, <2>7
<1>9. ASSUME NEW d \in Fd, SysDup(p, d)
      PROVE  /\ pc'[p] \notin {"pipe2", "pipefds", "openfd"}
             /\ \A f \in File \ orphan :
                   /\ file[f] = file'[f] \/ \E k \in Spots : Ref(p, k) = f
                   /\ file[f] = file'[f] \/ file'[f].ref # 0 \/ file'[f].type = "none"
  <2>1. pc[p] = "user" /\ pc' = pc /\ ofile[p][d] # None
    BY <1>9 DEF SysDup, StartCall, At, calls
  <2>2. PICK h \in File : h = ofile[p][d] BY <1>2, <2>1 DEF Types
  <2>3. Ref(p, d) = h BY <2>1, <2>2, RefCases
  <2>4. CASE file' = file BY <2>1, <2>4
  <2>5. CASE file' = [file EXCEPT ![h].ref = @ + 1]
    <3>1. PICK c \in Nat : c = file[h].ref BY <1>2 DEF Types, FileRec
    <3>2. file' = [file EXCEPT ![h].ref = c + 1] BY <2>5, <3>1
    <3>3. file'[h].ref # 0 /\ \A f \in File \ {h} : file'[f] = file[f]
      BY <1>2, <3>2 DEF Types, FileRec
    <3>4. QED BY <2>1, <2>3, <3>3 DEF Spots
  <2>6. QED BY <1>9, <2>2, <2>4, <2>5 DEF SysDup
<1>10. QED BY <1>6, <1>7, <1>8, <1>9

\* The pipe handler's process has no new file, and no other file changes its type.
LEMMA PipeHitNew ==
    ASSUME Shape, CallInv, RefInv, NewInv, NEW p \in Proc, PipeHit(p)
    PROVE  StepNew(p)
<1>1. StepRefs(p) /\ Types BY PipeHitRefs DEF Shape
<1>2. \A f : (\A q \in Proc : ~Drains(q, f)) => \A q \in Proc : ~Drains(q, f)'
  BY <1>1, SameDrains DEF StepRefs
<1>3. ASSUME NEW f \in File, f \notin orphan'
      PROVE  file'[f].ref = file[f].ref /\ file'[f].type = file[f].type
  <2>1. CASE \E q \in Proc \ {p} : pc[q] \in InPipe
    <3>1. file' = file BY <2>1 DEF PipeHit
    <3>2. QED BY <3>1
  <2>2. CASE ~\E q \in Proc \ {p} : pc[q] \in InPipe BY <1>3, <2>2, PipeHitFile
  <2>3. QED BY <2>1, <2>2
<1>4. pc'[p] \notin {"pipe2", "pipefds", "openfd"}
  <2>1. pc[p] \in {"read", "write", "pipeclose"} BY DEF PipeHit, OnPipe, At
  <2>2. pc' = pc \/ Return(p) BY DEF PipeHit
  <2>3. QED BY <1>1, <2>1, <2>2, ReturnQuiet
<1>5. orphan \subseteq orphan' BY <1>1 DEF StepRefs
<1>6. QED BY <1>2, <1>3, <1>4, <1>5 DEF StepNew, NewOK, New, NewInv

\* The file that a handler recovers is not a new one.
LEMMA StartNew ==
    ASSUME Shape, CallInv, RefInv, NewInv, NEW p \in Proc, NEW h \in File, StartFileRecovery(p, h),
           Others(p), pc[p] \in {"close", "user"}, \E k \in Spots : Ref(p, k) = h
    PROVE  NewInv'
<1>1. /\ pc'[p] = "drain" /\ cur'[p] = h /\ file' = file /\ orphan \subseteq orphan'
  BY DEF StartFileRecovery, Goto, Shape, Types
<1>2. ASSUME NEW f \in File, f \notin orphan', New(f), \A k \in Spots : Ref(p, k) # f
      PROVE  New(f)'
  <2>1. \A q \in Proc : ~Drains(q, f)' BY <1>1, <1>2 DEF New, Drains, Others, Quiet
  <2>2. QED BY <1>1, <1>2, <2>1 DEF New
<1>3. StepNew(p) BY <1>1, <1>2 DEF StepNew, NewOK, NewInv
<1>4. QED BY <1>1, <1>3, StepNewKeeps

\* A memory error in a file, and the first part of its handler.
LEMMA HitNew ==
    ASSUME Shape, CallInv, RefInv, NewInv, NEW p \in Proc,
           FileHit(p) \/ \E d \in Fd : FileHitCall(p, d)
    PROVE  CallInv' /\ RefInv' /\ NewInv'
<1>1. Others(p) BY OthersQuiet DEF Shape
<1>2. CASE FileHit(p)
  <2>1. pc[p] = "close" /\ StartFileRecovery(p, cur[p]) BY <1>2 DEF FileHit, At
  <2>2. PICK h \in File : h = cur[p] BY <2>1 DEF Shape, PlaceInv, InFtable, InPipe
  <2>3. StartFileRecovery(p, h) BY <2>1, <2>2
  <2>4. \E k \in Spots : Ref(p, k) = h
    <3>1. CASE p \notin exiting BY <2>1, <2>2, <3>1, RefCases DEF Spots
    <3>2. CASE p \in exiting
      <4>1. CallOK(p) BY DEF CallInv
      <4>2. arg[p] \in Fd /\ ofile[p][arg[p]] = h BY <2>1, <2>2, <3>2, <4>1 DEF CallOK
      <4>3. QED BY <2>1, <4>2, RefCases DEF Spots
    <3>3. QED BY <3>1, <3>2
  <2>5. CallInv' /\ RefInv' BY <1>1, <2>1, <2>2, <2>3, StartRefs
  <2>6. NewInv' BY <1>1, <2>1, <2>3, <2>4, StartNew
  <2>7. QED BY <2>5, <2>6
<1>3. ASSUME NEW d \in Fd, FileHitCall(p, d) PROVE CallInv' /\ RefInv' /\ NewInv'
  <2>1. pc[p] = "user" /\ p \notin exiting /\ StartFileRecovery(p, ofile[p][d]) /\ ofile[p][d] # None
    BY <1>3 DEF FileHitCall, StartCall, At
  <2>2. PICK h \in File : h = ofile[p][d] BY <2>1 DEF Shape, Types
  <2>3. StartFileRecovery(p, h) BY <2>1, <2>2
  <2>4. Ref(p, d) = h /\ d \in Spots BY <2>1, <2>2, RefCases DEF Spots
  <2>5. CallInv' /\ RefInv' BY <1>1, <2>1, <2>2, <2>3, StartRefs
  <2>6. NewInv' BY <1>1, <2>1, <2>3, <2>4, StartNew
  <2>7. QED BY <2>5, <2>6
<1>4. QED BY <1>2, <1>3

\* fork copies no new file.
LEMMA ForkNew ==
    ASSUME Shape, CallInv, RefInv, NewInv, NEW p \in Proc, NEW c \in Proc, Fork(p, c)
    PROVE  NewInv'
<1>1. StepRefs(c) /\ Types BY ForkRefs DEF Shape
<1>2. /\ pc[p] = "user" /\ pc[c] = "unused" /\ orphan' = orphan /\ pc'[c] = "user"
      /\ \A q \in Proc \ {c} : pc'[q] = pc[q]
      /\ UNCHANGED <<cur, cur2>>
  BY <1>1 DEF Fork, StartCall, At, Goto, history, locals, Types
<1>3. ASSUME NEW f \in File
      PROVE  /\ file'[f].type = file[f].type
             /\ file'[f].ref = 0 => file[f].ref = 0
             /\ (\A d \in Fd : ofile[p][d] # f) => file'[f].ref = file[f].ref
  <2> DEFINE F == {d \in Fd : ofile[p][d] = f}
  <2>1. IsFiniteSet(F) BY PlacesFinite, FS_Subset
  <2>2. PICK n \in Nat : n = Cardinality(F) BY <2>1, FS_CardinalityType
  <2>3. (\A d \in Fd : ofile[p][d] # f) => n = 0 BY <2>2, FS_EmptySet
  <2>4. PICK r \in Nat : r = file[f].ref BY <1>1 DEF Types, FileRec
  <2>5. file'[f] = [file[f] EXCEPT !.ref = @ + n] BY <2>2 DEF Fork
  <2>6. file'[f] = [file[f] EXCEPT !.ref = r + n] BY <2>4, <2>5
  <2>7. file'[f].type = file[f].type /\ file'[f].ref = r + n BY <1>1, <2>6 DEF Types, FileRec
  <2> HIDE DEF F
  <2>8. QED BY <2>3, <2>4, <2>7
<1>4. \A f : (\A q \in Proc : ~Drains(q, f)) => \A q \in Proc : ~Drains(q, f)'
  BY <1>1, SameDrains DEF StepRefs
<1>5. ASSUME NEW q \in Proc, NEW f \in File, f \notin orphan, Holds(q, f) PROVE New(f)'
  <2>1. New(f) /\ \A r \in Proc \ {q}, k \in Spots : Ref(r, k) # f BY <1>1, <1>5, NewAlone
  <2>2. p # q BY <1>2, <1>5 DEF Holds
  <2>3. \A d \in Fd : ofile[p][d] # f
    <3> TAKE d \in Fd
    <3>1. Ref(p, d) = ofile[p][d] BY <1>2, RefCases
    <3>2. d \in Spots BY DEF Spots
    <3>3. QED BY <2>1, <2>2, <3>1, <3>2
  <2>4. QED BY <1>3, <1>4, <2>1, <2>3 DEF New
<1>6. ASSUME NEW q \in Proc PROVE NewOK(q)'
  <2>1. CASE q = c BY <1>2, <2>1 DEF NewOK
  <2>2. CASE q # c
    <3>1. PICK a, b : a = cur[q] /\ b = cur2[q] OBVIOUS
    <3>2. pc[q] \in {"pipe2", "pipefds", "openfd"} => a \in File
      BY <3>1 DEF Shape, PlaceInv, InFtable
    <3>3. pc[q] = "pipefds" => b \in File BY <3>1 DEF CallInv, CallOK
    <3>4. pc[q] \in {"pipe2", "pipefds", "openfd"} /\ a \notin orphan => New(a)'
      BY <1>5, <3>1, <3>2 DEF Holds
    <3>5. pc[q] = "pipefds" /\ b \notin orphan => New(b)' BY <1>5, <3>1, <3>3 DEF Holds
    <3>6. QED BY <1>2, <2>2, <3>1, <3>4, <3>5 DEF NewOK, New
  <2>3. QED BY <2>1, <2>2
<1>7. \A f \in File \ orphan' : file'[f].ref = 0 => file'[f].type = "none"
  BY <1>2, <1>3 DEF NewInv
<1>8. QED BY <1>6, <1>7 DEF NewInv

\* kill moves no file.
LEMMA KillNew ==
    ASSUME Shape, NewInv, NEW p \in Proc, NEW q \in Proc, Kill(p, q)
    PROVE  NewInv'
<1>1. \A r \in Proc : Quiet(r)
  BY DEF Kill, Quiet, Shape, Types, tables, locals, history
<1>2. UNCHANGED <<file, orphan, cur, cur2>> BY DEF Kill, tables, locals, history
<1>3. \A f, r : (r \in Proc /\ Drains(r, f)') => Drains(r, f) BY <1>1 DEF Quiet, Drains
<1>4. ASSUME NEW r \in Proc PROVE NewOK(r)'
  <2>1. NewOK(r) /\ Quiet(r) BY <1>1 DEF NewInv
  <2>2. pc'[r] \in {"pipe2", "pipefds", "openfd"} => pc'[r] = pc[r] BY <2>1 DEF Quiet
  <2>3. PICK a, b : a = cur[r] /\ b = cur2[r] OBVIOUS
  <2>4. New(a) => New(a)' BY <1>2, <1>3 DEF New
  <2>5. New(b) => New(b)' BY <1>2, <1>3 DEF New
  <2>6. QED BY <1>2, <2>1, <2>2, <2>3, <2>4, <2>5 DEF NewOK, New
<1>5. QED BY <1>2, <1>4 DEF NewInv

\* The second part of the file handler: the broken file is free.
LEMMA FinishNew ==
    ASSUME Shape, CallInv, RefInv, NewInv, NEW p \in Proc, FinishFileRecovery(p)
    PROVE  NewInv'
<1>1. /\ Types /\ pc[p] = "drain" /\ Drained(p) /\ Return(p) /\ orphan' = orphan
      /\ file' = [file EXCEPT ![cur[p]] = FreeFile]
  BY DEF FinishFileRecovery, At, Shape
<1>2. pc'[p] = "user" /\ \A q \in Proc \ {p} : pc'[q] = pc[q] BY <1>1, ReturnQuiet
<1>3. \A q \in Proc : pc'[q] \notin {"pipe2", "pipefds", "openfd"}
  BY <1>1, <1>2 DEF Drained, InFtable
<1>4. PICK h \in File : h = cur[p] BY <1>1 DEF Shape, PlaceInv
<1>5. \A f \in File : file'[f] = IF f = h THEN FreeFile ELSE file[f]
  BY <1>1, <1>4 DEF Types
<1>6. \A f \in File \ orphan' : file'[f].ref = 0 => file'[f].type = "none"
  BY <1>1, <1>5 DEF NewInv, FreeFile
<1>7. QED BY <1>3, <1>6 DEF NewInv, NewOK

\* Nothing happens after a halt.
LEMMA NextRuns == Next => ~halted
<1> SUFFICES ASSUME Next PROVE ~halted OBVIOUS
<1>1. ASSUME NEW p \in Proc, ProcNext(p) PROVE ~halted
  BY <1>1 DEF ProcNext, Pipealloc, PipeFds, OpenAlloc, OpenFd, ExitLoop, Fileclose, Pipeclose,
              Piperead, Pipewrite, FinishFileRecovery, OnPipe, At
<1>2. ASSUME NEW p \in Proc, SysPipe(p) \/ Exit(p) \/ PipeHit(p) \/ FileHit(p) PROVE ~halted
  BY <1>2 DEF SysPipe, Exit, PipeHit, FileHit, StartCall, OnPipe, At
<1>3. ASSUME NEW p \in Proc, NEW i \in Inode, SysOpen(p, i) PROVE ~halted
  BY <1>3 DEF SysOpen, StartCall, At
<1>4. ASSUME NEW p \in Proc, NEW d \in Fd, SysDup(p, d) \/ SysClose(p, d) \/ FileHitCall(p, d)
      PROVE  ~halted
  BY <1>4 DEF SysDup, SysClose, FileHitCall, StartCall, At
<1>5. ASSUME NEW p \in Proc, NEW d \in Fd, NEW n \in 1..MaxWrite, SysRw(p, d, n) PROVE ~halted
  BY <1>5 DEF SysRw, StartCall, At
<1>6. ASSUME NEW p \in Proc, NEW q \in Proc, Fork(p, q) \/ Kill(p, q) PROVE ~halted
  BY <1>6 DEF Fork, Kill, StartCall, At
<1>7. QED BY <1>1, <1>2, <1>3, <1>4, <1>5, <1>6 DEF Next

\* Every step keeps the counts.
LEMMA NextCounted ==
    ASSUME Shape, Shape', Counted, [Next]_vars
    PROVE  Counted'
<1> USE DEF Counted
<1>1. CASE UNCHANGED vars
  <2>1. /\ file' = file /\ orphan' = orphan /\ halted' = halted /\ pc' = pc /\ cur' = cur /\ cur2' = cur2
        /\ ofile' = ofile /\ arg' = arg /\ exiting' = exiting
    BY <1>1 DEF vars, tables, calls, locals, history
  <2>2. CallInv' BY <2>1 DEF CallInv, CallOK
  <2>3. Refs' = Refs BY <2>1 DEF Refs, Ref
  <2>4. RefInv => RefInv'
    <3> SUFFICES ASSUME RefInv, NEW f \in File, f \notin orphan
                 PROVE  /\ (\A r \in Proc : ~Drains(r, f)') => file'[f].ref = Count(Refs, f)'
                        /\ \A r \in Proc : Drains(r, f)' =>
                             \/ file'[f].ref = Count(Refs, f)' + 1
                             \/ file'[f].ref = Count(Refs, f)' /\ \E d \in Fd : ofile'[r][d] = f
      BY <2>1 DEF RefInv
    <3>1. Count(Refs, f)' = Count(Refs, f) BY <2>3
    <3>2. \A r \in Proc : Drains(r, f)' <=> Drains(r, f) BY <2>1 DEF Drains
    <3>3. QED BY <2>1, <3>1, <3>2 DEF RefInv
  <2>5. NewInv => NewInv' BY <2>1 DEF NewInv, NewOK, New, Drains
  <2>6. QED BY <2>1, <2>2, <2>4, <2>5
<1>2. CASE Next
  <2>1. ~halted BY <1>2, NextRuns
  <2>2. RefInv /\ NewInv /\ CallInv BY <2>1
  <2>3. ASSUME NEW p \in Proc, StepRefs(p), StepNew(p) PROVE Counted'
    <3>1. CallInv' /\ (~halted' => RefInv') BY <2>2, <2>3, StepRefsKeeps DEF Shape
    <3>2. NewInv' BY <2>2, <2>3, StepNewKeeps DEF StepRefs
    <3>3. QED BY <3>1, <3>2
  <2>4. ASSUME NEW p \in Proc, ProcNext(p) PROVE Counted'
    <3>1. CASE FinishFileRecovery(p) BY <2>2, <3>1, FinishRefs, FinishNew
    <3>2. CASE ExitLoop(p) \/ Piperead(p) \/ Pipewrite(p) \/ Pipeclose(p)
      BY <2>2, <2>3, <3>2, QuietRefs, PipecloseRefs, QuietNew
    <3>3. CASE Pipealloc(p) \/ OpenAlloc(p)
      BY <2>2, <2>3, <3>3, PipeallocRefs, OpenAllocRefs, AllocsNew
    <3>4. CASE PipeFds(p) \/ OpenFd(p) \/ Fileclose(p)
      BY <2>2, <2>3, <3>4, PipeFdsRefs, OpenFdRefs, FilecloseRefs, OwnNew
    <3>5. QED BY <2>4, <3>1, <3>2, <3>3, <3>4 DEF ProcNext
  <2>5. ASSUME NEW p \in Proc, SysPipe(p) PROVE Counted'
    BY <2>2, <2>3, <2>5, SysPipeRefs, AllocsNew
  <2>6. ASSUME NEW p \in Proc, Exit(p) \/ \E i \in Inode : SysOpen(p, i) PROVE Counted'
    BY <2>2, <2>3, <2>6, QuietRefs, QuietNew
  <2>7. ASSUME NEW p \in Proc, PipeHit(p) PROVE Counted'
    BY <2>2, <2>3, <2>7, PipeHitRefs, PipeHitNew
  <2>8. ASSUME NEW p \in Proc, FileHit(p) \/ \E d \in Fd : FileHitCall(p, d) PROVE Counted'
    BY <2>2, <2>8, HitNew
  <2>9. ASSUME NEW p \in Proc, NEW d \in Fd, SysDup(p, d) PROVE Counted'
    BY <2>2, <2>3, <2>9, SysDupRefs, OwnNew
  <2>10. ASSUME NEW p \in Proc, NEW d \in Fd, SysClose(p, d) PROVE Counted'
    BY <2>2, <2>3, <2>10, SysCloseRefs, QuietNew
  <2>11. ASSUME NEW p \in Proc, NEW d \in Fd, NEW n \in 1..MaxWrite, SysRw(p, d, n) PROVE Counted'
    BY <2>2, <2>3, <2>11, QuietRefs, QuietNew
  <2>12. ASSUME NEW p \in Proc, NEW q \in Proc, Fork(p, q) PROVE Counted'
    <3>1. StepRefs(q) /\ NewInv' BY <2>2, <2>12, ForkRefs, ForkNew
    <3>2. CallInv' /\ (~halted' => RefInv') BY <2>2, <3>1, StepRefsKeeps DEF Shape
    <3>3. QED BY <3>1, <3>2
  <2>13. ASSUME NEW p \in Proc, NEW q \in Proc, Kill(p, q) PROVE Counted'
    BY <2>2, <2>13, KillRefs, KillNew DEF Shape
  <2>14. QED BY <1>2, <2>4, <2>5, <2>6, <2>7, <2>8, <2>9, <2>10, <2>11, <2>12, <2>13 DEF Next
<1>3. QED BY <1>1, <1>2

\* Nobody has a file when the system starts.
LEMMA InitCounted == Init => Counted
<1> SUFFICES ASSUME Init PROVE Counted OBVIOUS
<1>1. CallInv /\ NewInv BY DEF Init, CallInv, CallOK, NewInv, NewOK, New, FreeFile
<1>2. \A q \in Proc, f \in File : ~Drains(q, f) BY DEF Init, Drains
<1>3. ASSUME NEW f \in File PROVE file[f].ref = Count(Refs, f)
  <2>1. PICK R : R = Refs OBVIOUS
  <2>2. \A q \in Proc, k \in Spots : Ref(q, k) # f BY PlaceFacts DEF Init, Ref, Spots
  <2>3. DOMAIN R = Place /\ \A x \in Place : R[x] # f BY <2>1, <2>2, PlaceFacts DEF Refs, Spots
  <2>4. Count(R, f) = 0 BY <2>3, PlacesFinite, CountAtLeast
  <2>5. QED BY <2>1, <2>4 DEF Init, FreeFile
<1>4. QED BY <1>1, <1>2, <1>3 DEF Counted, RefInv

\* The invariant of the reference counts.
LEMMA CountedCorrect == Spec => [](Shape /\ Counted)
<1>1. Init => Shape /\ Counted BY InitShape, InitCounted
<1>2. Shape /\ Shape' /\ Counted /\ [Next]_vars => Counted' BY NextCounted
<1>3. QED BY <1>1, <1>2, ShapeCorrect, PTL DEF Spec

\* The count of a file is the number of its references, for any number of
\* processes, descriptors and files, any interleaving of calls, exits and forks,
\* and through the recovery of files and pipes; only the files that a handler
\* takes out of the hands of a call are excepted.
THEOREM ReferencesCounted == Spec => []RefExact
<1>1. Shape /\ Counted => RefExact
  <2> SUFFICES ASSUME Shape, Counted, ~halted,
                      NEW f \in File \ {cur[p] : p \in {q \in Proc : pc[q] = "drain"}}
               PROVE  LET fds == {x \in Proc \X Fd : ofile[x[1]][x[2]] = f
                                   /\ ~(x[1] \in exiting /\ pc[x[1]] = "pipeclose" /\ arg[x[1]] = x[2])}
                          n == Cardinality(fds) + Cardinality(InFlight(f)) + Cardinality(InFlight2(f))
                      IN file[f].ref = n \/ f \in orphan
    BY DEF RefExact
  <2>1. \A p \in Proc : ~Drains(p, f) BY DEF Drains
  <2>2. file[f].ref = Count(Refs, f) \/ f \in orphan BY <2>1 DEF Counted, RefInv
  <2>3. QED BY <2>2, RefsCounted DEF Shape
<1>2. QED BY <1>1, CountedCorrect, PTL

-----------------------------------------------------------------------------
(* The ends of the pipes. *)

\* A pipe keeps what is open of it.
SameFlags(a) ==
    /\ pipe'[a].readopen = pipe[a].readopen /\ pipe'[a].writeopen = pipe[a].writeopen
    /\ pipe'[a].used = pipe[a].used

\* A step that leaves the ends of the pipes where they are.
LEMMA EndsFrame ==
    ASSUME EndsInv, UsedInv, hurt \subseteq hurt',
           \A a \in Pipe \ hurt' :
              /\ SameFlags(a)
              /\ \A wr \in BOOLEAN :
                    /\ \A f \in File : IsEnd(f, a, wr)' <=> IsEnd(f, a, wr)
                    /\ \A q \in Proc : Closes(q, a, wr)' <=> Closes(q, a, wr)
    PROVE  EndsInv' /\ UsedInv'
<1>1. UsedInv' BY DEF UsedInv, SameFlags
<1>2. ASSUME NEW a \in Pipe, a \notin hurt', NEW wr \in BOOLEAN
      PROVE  LET open == IF wr THEN pipe'[a].writeopen ELSE pipe'[a].readopen IN
        /\ open <=> (\E f \in File : IsEnd(f, a, wr)') \/ (\E p \in Proc : Closes(p, a, wr)')
        /\ \A f, g \in File : IsEnd(f, a, wr)' /\ IsEnd(g, a, wr)' => f = g
        /\ \A p, q \in Proc : Closes(p, a, wr)' /\ Closes(q, a, wr)' => p = q
        /\ \A f \in File, p \in Proc : ~(IsEnd(f, a, wr)' /\ Closes(p, a, wr)')
  <2>1. a \in Pipe \ hurt /\ SameFlags(a) BY <1>2
  <2>2. \A f \in File : IsEnd(f, a, wr)' <=> IsEnd(f, a, wr) BY <1>2
  <2>3. \A q \in Proc : Closes(q, a, wr)' <=> Closes(q, a, wr) BY <1>2
  <2>4. LET open == IF wr THEN pipe[a].writeopen ELSE pipe[a].readopen IN
        /\ open <=> (\E f \in File : IsEnd(f, a, wr)) \/ (\E p \in Proc : Closes(p, a, wr))
        /\ \A f, g \in File : IsEnd(f, a, wr) /\ IsEnd(g, a, wr) => f = g
        /\ \A p, q \in Proc : Closes(p, a, wr) /\ Closes(q, a, wr) => p = q
        /\ \A f \in File, p \in Proc : ~(IsEnd(f, a, wr) /\ Closes(p, a, wr))
    BY <2>1 DEF EndsInv
  <2>5. pipe'[a].readopen = pipe[a].readopen /\ pipe'[a].writeopen = pipe[a].writeopen
    BY <2>1 DEF SameFlags
  <2> HIDE DEF SameFlags
  <2>6. QED BY <2>2, <2>3, <2>4, <2>5
<1>3. QED BY <1>1, <1>2 DEF EndsInv

\* Who does not take the step closes the end that it did.
LEMMA OthersClose ==
    ASSUME NEW p \in Proc, Others(p), NEW q \in Proc \ {p}, NEW a, NEW wr
    PROVE  Closes(q, a, wr)' <=> Closes(q, a, wr)
BY DEF Others, Quiet, Closes

\* The handler's file, with what it points to.
LEMMA OthersDrain ==
    ASSUME DrainInv, NEW p \in Proc, Others(p), pc'[p] # "drain", hurt \subseteq hurt',
           \A f \in File : file'[f].type = "pipe" /\ (\E q \in Proc : Drains(q, f)) =>
              file[f].type = "pipe" /\ (file'[f].pipe = file[f].pipe \/ file'[f].pipe \in hurt')
    PROVE  DrainInv'
<1>1. ASSUME NEW q \in Proc, NEW f \in File, Drains(q, f)' PROVE Drains(q, f)
  BY <1>1 DEF Others, Quiet, Drains
<1>2. QED BY <1>1 DEF DrainInv

\* The table points where it did.
SameTable == \A f \in File : /\ file'[f].type = file[f].type /\ file'[f].pipe = file[f].pipe
                             /\ file'[f].wr = file[f].wr

\* A step of p that has to do with no end.
LEMMA PlainEnds ==
    ASSUME EndInvs, NEW p \in Proc, Others(p), pc[p] # "pipeclose", pc'[p] \notin {"pipeclose", "drain"},
           hurt' = hurt, SameTable, \A a \in Pipe : SameFlags(a)
    PROVE  EndInvs'
<1>1. \A a, wr : \A f \in File : IsEnd(f, a, wr)' <=> IsEnd(f, a, wr) BY DEF SameTable, IsEnd
<1>2. \A a, wr : \A q \in Proc : Closes(q, a, wr)' <=> Closes(q, a, wr)
  BY OthersClose DEF Closes
<1>3. EndsInv' /\ UsedInv' BY <1>1, <1>2, EndsFrame DEF EndInvs
<1>4. DrainInv' BY OthersDrain DEF EndInvs, SameTable
<1>5. QED BY <1>3, <1>4 DEF EndInvs

\* The bytes have nothing to do with the ends.
LEMMA MoveFlags ==
    ASSUME Shape, InOrder, NEW p \in Proc, Piperead(p) \/ Pipewrite(p)
    PROVE  \A a \in Pipe : SameFlags(a)
<1>1. PICK a \in Pipe : a = ff[p].pipe
  BY DEF Piperead, Pipewrite, OnPipe, At, Shape, PlaceInv, InPipe
<1>2. PICK pi \in PipeRec : pi = pipe[a] BY DEF Shape, Types
<1>3. CASE Piperead(p)
  <2>1. PICK k \in Nat : k = Min({arg[p], Pi(p).nwrite - Pi(p).nread})
    BY <1>1, ReadBytes DEF Shape
  <2>2. pipe' = pipe \/ pipe' = [pipe EXCEPT ![a].nread = @ + k] BY <1>1, <1>3, <2>1 DEF Piperead
  <2>3. PICK e \in Nat : e = pi.nread + k BY <1>2 DEF PipeRec
  <2>4. pipe' = pipe \/ pipe' = [pipe EXCEPT ![a] = [pi EXCEPT !.nread = e]]
    BY <1>2, <2>2, <2>3
  <2>5. QED BY <1>2, <2>4 DEF Shape, Types, PipeRec, SameFlags
<1>4. CASE Pipewrite(p)
  <2>1. PICK k \in Nat : /\ k = Min({arg[p], PIPESIZE - (Pi(p).nwrite - Pi(p).nread)})
                         /\ k <= PIPESIZE - (Pi(p).nwrite - Pi(p).nread)
    BY <1>1, WriteBytes DEF Shape
  <2>2. pipe' = [pipe EXCEPT ![a] = Put(pi, k)] BY <1>1, <1>2, <1>4, <2>1 DEF Pipewrite
  <2>3. Ordered(pi) BY <1>2 DEF InOrder, Ordered
  <2>4. k <= PIPESIZE - (pi.nwrite - pi.nread) BY <1>1, <1>2, <2>1 DEF Pi
  <2>5. PICK new : new = Put(pi, k) OBVIOUS
  <2>6. new \in PipeRec /\ new = [pi EXCEPT !.nwrite = pi.nwrite + k, !.data = new.data]
    BY <2>3, <2>4, <2>5, PutOrdered
  <2>7. PICK e : e = pi.nwrite + k OBVIOUS
  <2>8. new = [pi EXCEPT !.nwrite = e, !.data = new.data] BY <2>6, <2>7
  <2>9. new.readopen = pi.readopen /\ new.writeopen = pi.writeopen /\ new.used = pi.used
    BY ONLY <2>8, pi \in PipeRec DEF PipeRec
  <2>10. pipe' = [pipe EXCEPT ![a] = new] BY <2>2, <2>5
  <2>11. QED BY <1>2, <2>9, <2>10 DEF Shape, Types, SameFlags
<1>5. QED BY <1>3, <1>4

\* The calls that do not touch an end.
LEMMA CallsEnds ==
    ASSUME Shape, InOrder, CallInv, EndInvs, NEW p \in Proc,
           \/ ExitLoop(p) \/ Piperead(p) \/ Pipewrite(p) \/ Exit(p)
           \/ SysPipe(p) \/ Pipealloc(p) \/ OpenAlloc(p)
           \/ \E i \in Inode : SysOpen(p, i)
           \/ \E d \in Fd : SysClose(p, d) \/ SysDup(p, d)
           \/ \E d \in Fd, n \in 1..MaxWrite : SysRw(p, d, n)
    PROVE  EndInvs'
<1>1. Others(p) /\ Types BY OthersQuiet DEF Shape
<1>2. hurt' = hurt
  BY DEF ExitLoop, Piperead, Pipewrite, Exit, SysPipe, Pipealloc, OpenAlloc, SysOpen, SysClose, SysDup,
         SysRw, history
<1>3. SameTable
  <2>1. CASE file' = file BY <2>1 DEF SameTable
  <2>2. CASE FreeSlot # None /\ file' = Filealloc(FreeSlot)
    <3>1. PICK h \in File : h = FreeSlot BY <2>2, FreeSlotFinds
    <3>2. file' = Filealloc(h) BY <2>2, <3>1
    <3>3. QED BY <1>1, <3>2, AllocRef DEF SameTable
  <2>3. CASE \E d \in Fd : SysDup(p, d)
    <3>1. PICK d \in Fd : SysDup(p, d) BY <2>3
    <3>2. PICK h \in File : h = ofile[p][d] BY <1>1, <3>1 DEF SysDup, Types
    <3>3. PICK c : c = file[h].ref + 1 OBVIOUS
    <3>4. file' = file \/ file' = [file EXCEPT ![h].ref = c] BY <3>1, <3>2, <3>3 DEF SysDup
    <3>5. QED BY <1>1, <3>4 DEF Types, FileRec, SameTable
  <2>4. CASE SysPipe(p) \/ Pipealloc(p) \/ OpenAlloc(p)
    <3>1. file' = file \/ (FreeSlot # None /\ file' = Filealloc(FreeSlot))
      BY <2>4 DEF SysPipe, Pipealloc, OpenAlloc
    <3>2. QED BY <2>1, <2>2, <3>1
  <2>5. CASE \/ ExitLoop(p) \/ Piperead(p) \/ Pipewrite(p) \/ Exit(p)
             \/ \E i \in Inode : SysOpen(p, i)
             \/ \E d \in Fd : SysClose(p, d)
             \/ \E d \in Fd, n \in 1..MaxWrite : SysRw(p, d, n)
    <3>1. file' = file
      BY <2>5 DEF ExitLoop, Piperead, Pipewrite, Exit, SysOpen, SysClose, SysRw, tables
    <3>2. QED BY <2>1, <3>1
  <2>6. QED BY <2>3, <2>4, <2>5
<1>4. \A a \in Pipe : SameFlags(a)
  <2>1. CASE Piperead(p) \/ Pipewrite(p) BY <2>1, MoveFlags
  <2>2. CASE ~(Piperead(p) \/ Pipewrite(p))
    <3>1. pipe' = pipe
      BY <2>2 DEF ExitLoop, Exit, SysPipe, Pipealloc, OpenAlloc, SysOpen, SysClose, SysDup, SysRw, tables
    <3>2. QED BY <3>1 DEF SameFlags
  <2>3. QED BY <2>1, <2>2
<1>5. pc[p] # "pipeclose"
  BY DEF ExitLoop, Piperead, Pipewrite, Exit, SysPipe, Pipealloc, OpenAlloc, SysOpen, SysClose, SysDup,
         SysRw, StartCall, OnPipe, At
<1>6. pc'[p] \notin {"pipeclose", "drain"} BY <1>1, CallGoes
<1>7. QED BY <1>1, <1>2, <1>3, <1>4, <1>5, <1>6, PlainEnds

\* open's file is no end, neither before nor after.
LEMMA OpenFdEnds ==
    ASSUME Shape, NewInv, EndInvs, orphan = {}, NEW p \in Proc, OpenFd(p)
    PROVE  EndInvs'
<1>1. Others(p) /\ Types BY OthersQuiet DEF Shape
<1>2. /\ pc[p] = "openfd" /\ pc'[p] = "user" /\ pipe' = pipe /\ hurt' = hurt
  BY <1>1, ReturnQuiet DEF OpenFd, At, history
<1>3. PICK h \in File : h = cur[p] BY <1>2 DEF Shape, PlaceInv, InFtable
<1>4. file[h].type = "none" BY <1>2, <1>3, NewRef
<1>5. /\ \A f \in File \ {h} : file'[f] = file[f]
      /\ file'[h].type # "pipe"
  <2>1. CASE file' = [file EXCEPT ![h].ref = 0] BY <1>1, <1>4, <2>1 DEF Types, FileRec
  <2>2. CASE file' = [file EXCEPT ![h] = [@ EXCEPT !.type = "inode", !.ip = arg[p],
                                                   !.rd = TRUE, !.wr = TRUE]]
    BY <1>1, <2>2 DEF Types, FileRec
  <2>3. QED BY <1>3, <2>1, <2>2 DEF OpenFd
<1>6. \A a, wr : \A f \in File : IsEnd(f, a, wr)' <=> IsEnd(f, a, wr)
  BY <1>4, <1>5 DEF IsEnd
<1>7. \A a, wr : \A q \in Proc : Closes(q, a, wr)' <=> Closes(q, a, wr)
  BY <1>1, <1>2, OthersClose DEF Closes
<1>8. EndsInv' /\ UsedInv' BY <1>2, <1>6, <1>7, EndsFrame DEF EndInvs, SameFlags
<1>9. DrainInv' BY <1>1, <1>2, <1>5, OthersDrain DEF EndInvs
<1>10. QED BY <1>8, <1>9 DEF EndInvs

\* pipe gives each end of its page to one file, or closes two files that are none.
LEMMA PipeFdsEnds ==
    ASSUME Shape, CallInv, RefInv, NewInv, EndInvs, orphan = {}, NEW p \in Proc, PipeFds(p)
    PROVE  EndInvs'
<1>1. Others(p) /\ Types BY OthersQuiet DEF Shape
<1>2. pc[p] = "pipefds" /\ hurt' = hurt BY DEF PipeFds, At, history
<1>3. pc'[p] \in {"close", "user"}
  <2>1. Goto(p, "close") \/ Goto(p, "user") BY DEF PipeFds
  <2>2. QED BY <1>1, <2>1 DEF Goto, Types
<1>4. \A a, wr : \A q \in Proc : Closes(q, a, wr)' <=> Closes(q, a, wr)
  BY <1>1, <1>2, <1>3, OthersClose DEF Closes
<1>5. PICK g \in File, h \in File : g = cur[p] /\ h = cur2[p]
  BY <1>2 DEF Shape, PlaceInv, InFtable, CallInv, CallOK
<1>6. New(g) /\ New(h) BY <1>2, <1>5 DEF NewInv, NewOK
<1>7. g # h
  <2>1. Ref(p, 0) = g /\ Ref(p, -1) = h /\ 0 \in Spots /\ -1 \in Spots /\ <<p, 0>> # <<p, -1>>
    BY <1>2, <1>5, RefCases DEF Spots
  <2>2. g = h => Count(Refs, g) >= 2 BY <2>1, RefCount
  <2>3. file[g].ref = Count(Refs, g) BY <1>6 DEF RefInv, New
  <2>4. QED BY <1>6, <2>2, <2>3 DEF New
<1>8. CASE UNCHANGED <<file, pipe>>
  <2>1. SameTable /\ \A a \in Pipe : SameFlags(a) BY <1>8 DEF SameTable, SameFlags
  <2>2. QED BY <1>1, <1>2, <1>3, <2>1, PlainEnds
<1>9. CASE ~UNCHANGED <<file, pipe>>
  <2>1. PICK a \in Pipe :
           /\ ~pipe[a].used
           /\ pipe' = [pipe EXCEPT ![a] = [FreePipe EXCEPT !.used = TRUE, !.readopen = TRUE,
                                                           !.writeopen = TRUE]]
           /\ file' = [file EXCEPT ![g] = [@ EXCEPT !.type = "pipe", !.rd = TRUE,
                                                    !.wr = FALSE, !.pipe = a],
                                   ![h] = [@ EXCEPT !.type = "pipe", !.rd = FALSE,
                                                    !.wr = TRUE, !.pipe = a]]
    BY <1>5, <1>9 DEF PipeFds
  <2>2. /\ file'[g].type = "pipe" /\ file'[g].wr = FALSE /\ file'[g].pipe = a
        /\ file'[h].type = "pipe" /\ file'[h].wr = TRUE /\ file'[h].pipe = a
        /\ \A f \in File \ {g, h} : file'[f] = file[f]
    BY <1>1, <1>7, <2>1 DEF Types, FileRec
  <2>3. /\ pipe'[a].used /\ pipe'[a].readopen /\ pipe'[a].writeopen
        /\ \A b \in Pipe \ {a} : pipe'[b] = pipe[b]
    BY <1>1, <2>1 DEF Types, FreePipe
  <2>4. ASSUME NEW b \in Pipe, NEW wr \in BOOLEAN, NEW f \in File
        PROVE  IsEnd(f, b, wr)' <=> IsEnd(f, b, wr) \/ (b = a /\ f = IF wr THEN h ELSE g)
    <3>1. CASE f \notin {g, h} BY <2>2, <3>1 DEF IsEnd
    <3>2. CASE f \in {g, h} BY <1>6, <1>7, <2>2, <3>2 DEF IsEnd, New
    <3>3. QED BY <3>1, <3>2
  <2>5. a \notin hurt => \A wr \in BOOLEAN : /\ \A f \in File : ~IsEnd(f, a, wr)
                                             /\ \A q \in Proc : ~Closes(q, a, wr)
    <3> SUFFICES ASSUME a \notin hurt, NEW wr \in BOOLEAN
                 PROVE  /\ \A f \in File : ~IsEnd(f, a, wr)
                        /\ \A q \in Proc : ~Closes(q, a, wr)
      OBVIOUS
    <3>1. ~pipe[a].readopen /\ ~pipe[a].writeopen BY <2>1 DEF EndInvs, UsedInv
    <3>2. (IF wr THEN pipe[a].writeopen ELSE pipe[a].readopen)
             <=> (\E f \in File : IsEnd(f, a, wr)) \/ (\E q \in Proc : Closes(q, a, wr))
      BY DEF EndInvs, EndsInv
    <3>3. QED BY <3>1, <3>2
  <2>6. ASSUME NEW b \in Pipe, b \notin hurt', NEW wr \in BOOLEAN
        PROVE  LET open == IF wr THEN pipe'[b].writeopen ELSE pipe'[b].readopen IN
          /\ open <=> (\E f \in File : IsEnd(f, b, wr)') \/ (\E q \in Proc : Closes(q, b, wr)')
          /\ \A f, e \in File : IsEnd(f, b, wr)' /\ IsEnd(e, b, wr)' => f = e
          /\ \A q, r \in Proc : Closes(q, b, wr)' /\ Closes(r, b, wr)' => q = r
          /\ \A f \in File, q \in Proc : ~(IsEnd(f, b, wr)' /\ Closes(q, b, wr)')
    <3>1. b \in Pipe \ hurt BY <1>2, <2>6
    <3>2. CASE b = a
      <4>1. \A f \in File : IsEnd(f, b, wr)' <=> f = IF wr THEN h ELSE g
        BY <2>4, <2>5, <3>1, <3>2
      <4>2. \A q \in Proc : ~Closes(q, b, wr)' BY <1>4, <2>5, <3>1, <3>2
      <4>3. QED BY <2>3, <3>2, <4>1, <4>2
    <3>3. CASE b # a
      <4>1. \A f \in File : IsEnd(f, b, wr)' <=> IsEnd(f, b, wr) BY <2>4, <3>3
      <4>2. \A q \in Proc : Closes(q, b, wr)' <=> Closes(q, b, wr) BY <1>4
      <4>3. pipe'[b] = pipe[b] BY <2>3, <3>3
      <4>4. LET open == IF wr THEN pipe[b].writeopen ELSE pipe[b].readopen IN
            /\ open <=> (\E f \in File : IsEnd(f, b, wr)) \/ (\E q \in Proc : Closes(q, b, wr))
            /\ \A f, e \in File : IsEnd(f, b, wr) /\ IsEnd(e, b, wr) => f = e
            /\ \A q, r \in Proc : Closes(q, b, wr) /\ Closes(r, b, wr) => q = r
            /\ \A f \in File, q \in Proc : ~(IsEnd(f, b, wr) /\ Closes(q, b, wr))
        BY <3>1 DEF EndInvs, EndsInv
      <4>5. QED BY <4>1, <4>2, <4>3, <4>4
    <3>4. QED BY <3>2, <3>3
  <2>7. EndsInv' BY <2>6 DEF EndsInv
  <2>8. UsedInv' BY <1>2, <2>3 DEF EndInvs, UsedInv
  <2>9. DrainInv'
    <3>1. \A f \in File : (\E q \in Proc : Drains(q, f)) => f \notin {g, h} BY <1>6 DEF New
    <3>2. QED BY <1>1, <1>2, <1>3, <2>2, <3>1, OthersDrain DEF EndInvs
  <2>10. QED BY <2>7, <2>8, <2>9 DEF EndInvs
<1>10. QED BY <1>8, <1>9

\* fileclose hands the end over to pipeclose with the last reference.
LEMMA FilecloseEnds ==
    ASSUME Shape, CallInv, EndInvs, NEW p \in Proc, Fileclose(p), ~halted'
    PROVE  EndInvs'
<1>1. Others(p) /\ Types BY OthersQuiet DEF Shape
<1>2. pc[p] = "close" /\ hurt' = hurt /\ pipe' = pipe BY DEF Fileclose, At, history
<1>3. PICK h \in File : h = cur[p] BY <1>2 DEF Shape, PlaceInv, InFtable, InPipe
<1>4. PICK r \in Nat : r = file[h].ref BY <1>1 DEF Types, FileRec
<1>5. r >= 1 BY <1>3, <1>4 DEF Fileclose, Halt
<1>6. /\ file'[h].ref = r - 1
      /\ r = 1 => file'[h].type = "none"
      /\ r > 1 => file'[h].type = file[h].type
      /\ file'[h].pipe = file[h].pipe /\ file'[h].wr = file[h].wr
      /\ \A f \in File \ {h} : file'[f] = file[f]
  BY <1>1, <1>3, <1>4, <1>5, FilecloseFile
<1>7. \A a, wr : ~Closes(p, a, wr) BY <1>2 DEF Closes
<1>8. \A a \in Pipe : SameFlags(a) BY <1>2 DEF SameFlags
<1>9. DrainInv' /\ pc'[p] # "drain"
  <2>1. pc'[p] # "drain"
    <3>1. Goto(p, "pipeclose") \/ Closed(p, {}, "user") BY <1>3, <1>4, <1>5 DEF Fileclose
    <3>2. QED BY <1>1, <3>1 DEF Goto, Closed, WakeAndGoto, Types
  <2>2. \A f \in File : file'[f].type = "pipe" => file[f].type = "pipe" /\ file'[f].pipe = file[f].pipe
    BY <1>4, <1>5, <1>6
  <2>3. QED BY <1>1, <1>2, <2>1, <2>2, OthersDrain DEF EndInvs
<1>10. CASE r > 1 \/ file[h].type # "pipe"
  <2>1. Closed(p, {}, "user") BY <1>3, <1>4, <1>5, <1>10 DEF Fileclose
  <2>2. pc'[p] # "pipeclose" BY <1>1, <2>1 DEF Closed, WakeAndGoto
  <2>3. \A a, wr : \A f \in File : IsEnd(f, a, wr)' <=> IsEnd(f, a, wr)
    BY <1>4, <1>5, <1>6, <1>10 DEF IsEnd
  <2>4. \A a, wr : \A q \in Proc : Closes(q, a, wr)' <=> Closes(q, a, wr)
    BY <1>1, <1>7, <2>2, OthersClose DEF Closes
  <2>5. QED BY <1>2, <1>8, <1>9, <2>3, <2>4, EndsFrame DEF EndInvs
<1>11. CASE r = 1 /\ file[h].type = "pipe"
  <2>1. /\ ff' = [ff EXCEPT ![p] = [pipe |-> file[h].pipe, wr |-> file[h].wr]]
        /\ Goto(p, "pipeclose")
    BY <1>3, <1>4, <1>11 DEF Fileclose
  <2>2. pc'[p] = "pipeclose" /\ ff'[p] = [pipe |-> file[h].pipe, wr |-> file[h].wr]
    BY <1>1, <2>1 DEF Goto, Types
  <2>3. \A a, wr : Closes(p, a, wr)' <=> IsEnd(h, a, wr) BY <1>11, <2>2 DEF Closes, IsEnd
  <2>4. \A a, wr : /\ ~IsEnd(h, a, wr)'
                   /\ \A f \in File \ {h} : IsEnd(f, a, wr)' <=> IsEnd(f, a, wr)
    BY <1>6, <1>11 DEF IsEnd
  <2>5. \A a, wr : \A q \in Proc \ {p} : Closes(q, a, wr)' <=> Closes(q, a, wr)
    BY <1>1, OthersClose
  <2>6. ASSUME NEW b \in Pipe, b \notin hurt', NEW wr \in BOOLEAN
        PROVE  LET open == IF wr THEN pipe'[b].writeopen ELSE pipe'[b].readopen IN
          /\ open <=> (\E f \in File : IsEnd(f, b, wr)') \/ (\E q \in Proc : Closes(q, b, wr)')
          /\ \A f, e \in File : IsEnd(f, b, wr)' /\ IsEnd(e, b, wr)' => f = e
          /\ \A q, s \in Proc : Closes(q, b, wr)' /\ Closes(s, b, wr)' => q = s
          /\ \A f \in File, q \in Proc : ~(IsEnd(f, b, wr)' /\ Closes(q, b, wr)')
    <3>1. LET open == IF wr THEN pipe[b].writeopen ELSE pipe[b].readopen IN
            /\ open <=> (\E f \in File : IsEnd(f, b, wr)) \/ (\E q \in Proc : Closes(q, b, wr))
            /\ \A f, e \in File : IsEnd(f, b, wr) /\ IsEnd(e, b, wr) => f = e
            /\ \A q, s \in Proc : Closes(q, b, wr) /\ Closes(s, b, wr) => q = s
            /\ \A f \in File, q \in Proc : ~(IsEnd(f, b, wr) /\ Closes(q, b, wr))
      BY <1>2, <2>6 DEF EndInvs, EndsInv
    <3>2. /\ Closes(p, b, wr)' <=> IsEnd(h, b, wr)
          /\ ~IsEnd(h, b, wr)' /\ ~Closes(p, b, wr)
          /\ \A f \in File \ {h} : IsEnd(f, b, wr)' <=> IsEnd(f, b, wr)
          /\ \A q \in Proc \ {p} : Closes(q, b, wr)' <=> Closes(q, b, wr)
      BY <1>7, <2>3, <2>4, <2>5
    <3>3. (\E f \in File : IsEnd(f, b, wr)') \/ (\E q \in Proc : Closes(q, b, wr)')
             <=> (\E f \in File : IsEnd(f, b, wr)) \/ (\E q \in Proc : Closes(q, b, wr))
      BY <3>2
    <3>4. \A f, e \in File : IsEnd(f, b, wr)' /\ IsEnd(e, b, wr)' => f = e BY <3>1, <3>2
    <3>5. \A q, s \in Proc : Closes(q, b, wr)' /\ Closes(s, b, wr)' => q = s BY <3>1, <3>2
    <3>6. \A f \in File, q \in Proc : ~(IsEnd(f, b, wr)' /\ Closes(q, b, wr)') BY <3>1, <3>2
    <3>7. QED BY <1>2, <3>1, <3>3, <3>4, <3>5, <3>6
  <2>7. EndsInv' BY <2>6 DEF EndsInv
  <2>8. UsedInv' BY <1>2 DEF EndInvs, UsedInv
  <2>9. QED BY <1>9, <2>7, <2>8 DEF EndInvs
<1>12. QED BY <1>4, <1>5, <1>10, <1>11

\* pipeclose closes one end; the page is free when the other is closed too.
LEMMA PipecloseEnds ==
    ASSUME Shape, CallInv, EndInvs, NEW p \in Proc, Pipeclose(p)
    PROVE  EndInvs'
<1>1. Others(p) /\ Types BY OthersQuiet DEF Shape
<1>2. pc[p] = "pipeclose" /\ hurt' = hurt /\ file' = file /\ exiting' = exiting
  BY DEF Pipeclose, OnPipe, At, history
<1>3. PICK a \in Pipe, w \in BOOLEAN : a = ff[p].pipe /\ w = ff[p].wr
  BY <1>1, <1>2 DEF Shape, PlaceInv, InPipe, Types, EndRec
<1>4. pc'[p] \notin {"pipeclose", "drain"}
  <2>1. PICK S, to : Closed(p, S, to) BY DEF Pipeclose
  <2>2. QED BY <2>1 DEF Closed, WakeAndGoto
<1>5. PICK pi \in PipeRec : pi = pipe[a] BY <1>1 DEF Types
<1>6. PICK new : new = IF w THEN [pi EXCEPT !.writeopen = FALSE] ELSE [pi EXCEPT !.readopen = FALSE]
  OBVIOUS
<1>7. /\ new.used = pi.used
      /\ new.writeopen = (pi.writeopen /\ ~w) /\ new.readopen = (pi.readopen /\ w)
  BY ONLY <1>5, <1>6, w \in BOOLEAN DEF PipeRec
<1>8. pipe' = [pipe EXCEPT ![a] = IF new.readopen \/ new.writeopen THEN new ELSE FreePipe]
  BY <1>3, <1>5, <1>6 DEF Pipeclose, Pi
<1>9. /\ pipe'[a].writeopen = (pi.writeopen /\ ~w) /\ pipe'[a].readopen = (pi.readopen /\ w)
      /\ pipe'[a].used = (pi.used /\ (pipe'[a].writeopen \/ pipe'[a].readopen))
      /\ \A b \in Pipe \ {a} : pipe'[b] = pipe[b]
  <2>1. pipe'[a] = IF new.readopen \/ new.writeopen THEN new ELSE FreePipe
    BY <1>1, <1>8 DEF Types
  <2>2. pi.used \in BOOLEAN /\ pi.writeopen \in BOOLEAN /\ pi.readopen \in BOOLEAN
    BY <1>5 DEF PipeRec
  <2>3. CASE new.readopen \/ new.writeopen BY <1>7, <2>1, <2>2, <2>3, <1>1, <1>8 DEF Types
  <2>4. CASE ~(new.readopen \/ new.writeopen)
    <3>1. ~pipe'[a].readopen /\ ~pipe'[a].writeopen /\ ~pipe'[a].used
      BY <2>1, <2>4 DEF FreePipe
    <3>2. pipe'[a].readopen = FALSE /\ pipe'[a].writeopen = FALSE /\ pipe'[a].used = FALSE
      BY <2>1, <2>4 DEF FreePipe
    <3>3. QED BY <1>7, <2>2, <2>4, <3>2, <1>1, <1>8 DEF Types
  <2>5. QED BY <2>3, <2>4
<1>10. Closes(p, a, w) /\ \A b, v : Closes(p, b, v) => b = a /\ v = w
  <2>1. PICK e \in EndRec : e = ff[p] BY <1>1 DEF Types
  <2>2. e = [pipe |-> a, wr |-> w] BY <1>3, <2>1 DEF EndRec
  <2>3. \A b, v : e = [pipe |-> b, wr |-> v] => b = a /\ v = w BY <1>3, <2>1
  <2>4. QED BY <1>2, <2>1, <2>2, <2>3 DEF Closes
<1>11. \A b, v : ~Closes(p, b, v)' BY <1>4 DEF Closes
<1>12. \A b, v : /\ \A f \in File : IsEnd(f, b, v)' <=> IsEnd(f, b, v)
                 /\ \A q \in Proc \ {p} : Closes(q, b, v)' <=> Closes(q, b, v)
  BY <1>1, <1>2, OthersClose DEF IsEnd
<1>13. ASSUME NEW b \in Pipe, b \notin hurt', NEW v \in BOOLEAN
        PROVE  LET open == IF v THEN pipe'[b].writeopen ELSE pipe'[b].readopen IN
          /\ open <=> (\E f \in File : IsEnd(f, b, v)') \/ (\E q \in Proc : Closes(q, b, v)')
          /\ \A f, e \in File : IsEnd(f, b, v)' /\ IsEnd(e, b, v)' => f = e
          /\ \A q, s \in Proc : Closes(q, b, v)' /\ Closes(s, b, v)' => q = s
          /\ \A f \in File, q \in Proc : ~(IsEnd(f, b, v)' /\ Closes(q, b, v)')
  <2>1. LET open == IF v THEN pipe[b].writeopen ELSE pipe[b].readopen IN
            /\ open <=> (\E f \in File : IsEnd(f, b, v)) \/ (\E q \in Proc : Closes(q, b, v))
            /\ \A f, e \in File : IsEnd(f, b, v) /\ IsEnd(e, b, v) => f = e
            /\ \A q, s \in Proc : Closes(q, b, v) /\ Closes(s, b, v) => q = s
            /\ \A f \in File, q \in Proc : ~(IsEnd(f, b, v) /\ Closes(q, b, v))
    BY <1>2, <1>13 DEF EndInvs, EndsInv
  <2>2. CASE b = a /\ v = w
    <3>1. \A f \in File : ~IsEnd(f, b, v)' BY <1>10, <1>12, <2>1, <2>2
    <3>2. \A q \in Proc : ~Closes(q, b, v)' BY <1>10, <1>11, <1>12, <2>1, <2>2
    <3>3. ~(IF v THEN pipe'[b].writeopen ELSE pipe'[b].readopen) BY <1>9, <2>2
    <3>4. QED BY <3>1, <3>2, <3>3
  <2>3. CASE ~(b = a /\ v = w)
    <3>1. ~Closes(p, b, v) /\ ~Closes(p, b, v)' BY <1>10, <1>11, <2>3
    <3>2. \A q \in Proc : Closes(q, b, v)' <=> Closes(q, b, v) BY <1>12, <3>1
    <3>3. (IF v THEN pipe'[b].writeopen ELSE pipe'[b].readopen)
             <=> (IF v THEN pipe[b].writeopen ELSE pipe[b].readopen)
      <4>1. CASE b = a BY <1>5, <1>9, <2>3, <4>1
      <4>2. CASE b # a BY <1>9, <4>2
      <4>3. QED BY <4>1, <4>2
    <3>4. \A f \in File : IsEnd(f, b, v)' <=> IsEnd(f, b, v) BY <1>12
    <3>5. QED BY <2>1, <3>2, <3>3, <3>4
  <2>4. QED BY <2>2, <2>3
<1>14. EndsInv' BY <1>13 DEF EndsInv
<1>15. UsedInv'
  <2> SUFFICES ASSUME NEW b \in Pipe \ hurt
               PROVE  pipe'[b].used <=> pipe'[b].readopen \/ pipe'[b].writeopen
    BY <1>2 DEF UsedInv
  <2>1. pipe[b].used <=> pipe[b].readopen \/ pipe[b].writeopen BY DEF EndInvs, UsedInv
  <2>2. CASE b = a BY <1>5, <1>9, <2>1, <2>2
  <2>3. CASE b # a BY <1>9, <2>1, <2>3
  <2>4. QED BY <2>2, <2>3
<1>16. DrainInv' BY <1>1, <1>2, <1>4, OthersDrain DEF EndInvs
<1>17. QED BY <1>14, <1>15, <1>16 DEF EndInvs

\* The pipe handler touches the pipe that was hit and the new one only.
LEMMA PipeHitEnds ==
    ASSUME Shape, CallInv, RefInv, EndInvs, NEW p \in Proc, PipeHit(p), ~halted'
    PROVE  EndInvs'
<1>1. Others(p) /\ Types BY OthersQuiet DEF Shape
<1>2. ~\E q \in Proc \ {p} : pc[q] \in InPipe BY DEF PipeHit, Halt
<1>3. PICK a, b : a = ff[p].pipe /\ b = Min(FreePages) OBVIOUS
<1>4. hurt' = hurt \cup {a, b} /\ Return(p) /\ \E new : pipe' = [pipe EXCEPT ![b] = new]
  BY <1>2, <1>3 DEF PipeHit
<1>5. pc'[p] = "user" BY <1>1, <1>4, ReturnQuiet
<1>6. \A f \in File : /\ file'[f].type = file[f].type /\ file'[f].wr = file[f].wr
                      /\ \/ file'[f].pipe = file[f].pipe
                         \/ file'[f].pipe \in hurt' /\ file[f].pipe \in hurt'
  BY <1>2, PipeHitFile
<1>7. ASSUME NEW c \in Pipe, c \notin hurt'
      PROVE  /\ SameFlags(c)
             /\ \A wr \in BOOLEAN :
                    /\ \A f \in File : IsEnd(f, c, wr)' <=> IsEnd(f, c, wr)
                    /\ \A q \in Proc : Closes(q, c, wr)' <=> Closes(q, c, wr)
  <2>1. c # a /\ c # b BY <1>4, <1>7
  <2>2. pipe'[c] = pipe[c] BY <1>1, <1>4, <2>1 DEF Types
  <2>3. \A wr : \A f \in File : IsEnd(f, c, wr)' <=> IsEnd(f, c, wr) BY <1>6, <1>7 DEF IsEnd
  <2>4. \A wr : ~Closes(p, c, wr) /\ ~Closes(p, c, wr)'
    BY <1>3, <1>5, <2>1 DEF Closes
  <2>5. \A wr : \A q \in Proc : Closes(q, c, wr)' <=> Closes(q, c, wr)
    BY <1>1, <2>4, OthersClose
  <2>6. QED BY <2>2, <2>3, <2>5 DEF SameFlags
<1>8. EndsInv' /\ UsedInv' BY <1>4, <1>7, EndsFrame DEF EndInvs
<1>9. DrainInv' BY <1>1, <1>4, <1>5, <1>6, OthersDrain DEF EndInvs
<1>10. QED BY <1>8, <1>9 DEF EndInvs

\* The file handler clears a flag of a pipe that it hurts.
LEMMA StartEnds ==
    ASSUME Shape, EndInvs, NEW p \in Proc, NEW h \in File, StartFileRecovery(p, h),
           Others(p), pc[p] \in {"close", "user"}
    PROVE  EndInvs'
<1>1. Types BY DEF Shape
<1>2. PICK left :
        /\ left # None => left \in File /\ file[left].pipe \in Pipe
        /\ \E c : left # None => pipe' = [pipe EXCEPT ![file[left].pipe].readopen = FALSE]
                              \/ pipe' = [pipe EXCEPT ![file[left].pipe].writeopen = FALSE]
        /\ left = None => pipe' = pipe
        /\ hurt' = hurt \cup (IF left = None THEN {} ELSE {file[left].pipe})
                        \cup (IF file[h].type = "pipe" THEN {file[h].pipe} ELSE {})
  <2>1. PICK r, w : r = LastEnd(h, FALSE) /\ w = LastEnd(h, TRUE) OBVIOUS
  <2>2. /\ r # None => r \in File /\ file[r].type = "pipe"
        /\ w # None => w \in File /\ file[w].type = "pipe"
    BY <2>1, LastEndFinds
  <2>3. PICK left : left = IF r # None /\ w = None THEN r ELSE IF r = None /\ w # None THEN w ELSE None
    OBVIOUS
  <2>4. /\ pipe' = IF left = None THEN pipe
                   ELSE IF left = r THEN [pipe EXCEPT ![file[r].pipe].readopen = FALSE]
                   ELSE [pipe EXCEPT ![file[w].pipe].writeopen = FALSE]
        /\ hurt' = hurt \cup (IF left = None THEN {} ELSE {file[left].pipe})
                        \cup (IF file[h].type = "pipe" THEN {file[h].pipe} ELSE {})
    BY <2>1, <2>3 DEF StartFileRecovery
  <2>5. left # None => left \in File /\ file[left].pipe \in Pipe
    BY <2>2, <2>3 DEF Shape, EndInv
  <2>6. left # None => left \in {r, w} BY <2>3
  <2>7. WITNESS left
  <2>8. QED BY <2>3, <2>4, <2>5, <2>6
<1>3. file' = file /\ pc'[p] = "drain" /\ cur'[p] = h
  BY <1>1 DEF StartFileRecovery, Goto, Types
<1>4. ASSUME NEW c \in Pipe, c \notin hurt' PROVE SameFlags(c)
  <2>1. left # None => c # file[left].pipe BY <1>2, <1>4
  <2>2. pipe'[c] = pipe[c]
    <3>1. CASE left = None BY <1>2, <3>1
    <3>2. CASE left # None BY <1>1, <1>2, <2>1, <3>2 DEF Types
    <3>3. QED BY <3>1, <3>2
  <2>3. QED BY <2>2 DEF SameFlags
<1>5. \A a, wr : /\ \A f \in File : IsEnd(f, a, wr)' <=> IsEnd(f, a, wr)
                 /\ \A q \in Proc : Closes(q, a, wr)' <=> Closes(q, a, wr)
  <2>1. \A a, wr : \A f \in File : IsEnd(f, a, wr)' <=> IsEnd(f, a, wr) BY <1>3 DEF IsEnd
  <2>2. \A a, wr : ~Closes(p, a, wr) /\ ~Closes(p, a, wr)' BY <1>3 DEF Closes
  <2>3. \A a, wr : \A q \in Proc \ {p} : Closes(q, a, wr)' <=> Closes(q, a, wr)
    BY OthersClose
  <2>4. QED BY <2>1, <2>2, <2>3
<1>6. EndsInv' /\ UsedInv' BY <1>2, <1>4, <1>5, EndsFrame DEF EndInvs
<1>7. DrainInv'
  <2>1. ASSUME NEW q \in Proc, NEW f \in File, Drains(q, f)', file'[f].type = "pipe"
        PROVE  file'[f].pipe \in hurt'
    <3>1. CASE q = p BY <1>2, <1>3, <2>1, <3>1 DEF Drains
    <3>2. CASE q # p
      <4>1. Drains(q, f) BY <2>1, <3>2 DEF Drains, Others, Quiet
      <4>2. QED BY <1>2, <1>3, <2>1, <4>1 DEF EndInvs, DrainInv
    <3>3. QED BY <3>1, <3>2
  <2>2. QED BY <2>1 DEF DrainInv
<1>8. QED BY <1>6, <1>7 DEF EndInvs

\* The pipe of the file that the handler drops was hurt when the handler began.
LEMMA FinishEnds ==
    ASSUME Shape, CallInv, EndInvs, NEW p \in Proc, FinishFileRecovery(p)
    PROVE  EndInvs'
<1>1. /\ Types /\ pc[p] = "drain" /\ Return(p) /\ pipe' = pipe /\ hurt' = hurt
      /\ file' = [file EXCEPT ![cur[p]] = FreeFile]
  BY DEF FinishFileRecovery, At, Shape
<1>2. /\ pc'[p] = "user"
      /\ \A q \in Proc \ {p} : pc'[q] = pc[q] /\ ff'[q] = ff[q]
  BY <1>1, ReturnQuiet
<1>3. PICK h \in File : h = cur[p] BY <1>1 DEF Shape, PlaceInv
<1>4. file[h].type = "pipe" => file[h].pipe \in hurt
  BY <1>1, <1>3 DEF EndInvs, DrainInv, Drains
<1>5. \A f \in File : file'[f] = IF f = h THEN FreeFile ELSE file[f] BY <1>1, <1>3 DEF Types
<1>6. \A a \in Pipe \ hurt', wr \in BOOLEAN :
         /\ \A f \in File : IsEnd(f, a, wr)' <=> IsEnd(f, a, wr)
         /\ \A q \in Proc : Closes(q, a, wr)' <=> Closes(q, a, wr)
  <2> SUFFICES ASSUME NEW a \in Pipe \ hurt, NEW wr \in BOOLEAN
               PROVE  /\ \A f \in File : IsEnd(f, a, wr)' <=> IsEnd(f, a, wr)
                      /\ \A q \in Proc : Closes(q, a, wr)' <=> Closes(q, a, wr)
    BY <1>1
  <2>1. \A f \in File : IsEnd(f, a, wr)' <=> IsEnd(f, a, wr)
    BY <1>4, <1>5 DEF IsEnd, FreeFile
  <2>2. \A q \in Proc : Closes(q, a, wr)' <=> Closes(q, a, wr) BY <1>1, <1>2 DEF Closes
  <2>3. QED BY <2>1, <2>2
<1>7. EndsInv' /\ UsedInv' BY <1>1, <1>6, EndsFrame DEF EndInvs, SameFlags
<1>8. DrainInv'
  <2>1. \A q \in Proc : pc'[q] # "drain" BY <1>1, <1>2 DEF CallInv
  <2>2. QED BY <2>1 DEF DrainInv, Drains
<1>9. QED BY <1>7, <1>8 DEF EndInvs

\* fork and kill leave the ends alone.
LEMMA ForkKillEnds ==
    ASSUME Shape, CallInv, EndInvs, NEW p \in Proc, NEW c \in Proc, Fork(p, c) \/ Kill(p, c)
    PROVE  EndInvs'
<1>1. Types /\ hurt' = hurt /\ pipe' = pipe BY DEF Fork, Kill, tables, history, Shape
<1>2. CASE Fork(p, c)
  <2>1. StepRefs(c) /\ pc[c] = "unused" /\ pc'[c] = "user"
    BY <1>1, <1>2, ForkRefs DEF Fork, At, Goto, Types
  <2>2. SameTable
    <3>1. ASSUME NEW f \in File
          PROVE  /\ file'[f].type = file[f].type /\ file'[f].pipe = file[f].pipe
                 /\ file'[f].wr = file[f].wr
      <4>1. PICK n : n = file[f].ref + Cardinality({d \in Fd : ofile[p][d] = f}) OBVIOUS
      <4>2. file'[f] = [file[f] EXCEPT !.ref = n] BY <1>2, <4>1 DEF Fork
      <4>3. file[f] \in FileRec BY <1>1 DEF Types
      <4>4. QED BY <4>2, <4>3 DEF FileRec
    <3>2. QED BY <3>1 DEF SameTable
  <2>3. QED BY <1>1, <2>1, <2>2, PlainEnds DEF StepRefs, SameFlags
<1>3. CASE Kill(p, c)
  <2>1. \A r \in Proc : Quiet(r) BY <1>1, <1>3 DEF Kill, Quiet, Types, tables, locals, history
  <2>2. Others(p) /\ pc[p] = "user" /\ pc'[p] = "user"
    <3>1. Others(p) BY <2>1 DEF Others
    <3>2. pc[p] = "user" BY <1>3 DEF Kill, StartCall, At
    <3>3. QED BY <2>1, <3>1, <3>2 DEF Quiet
  <2>3. SameTable BY <1>3 DEF Kill, tables, SameTable
  <2>4. QED BY <1>1, <2>2, <2>3, PlainEnds DEF SameFlags
<1>4. QED BY <1>2, <1>3

\* No step makes a cut-off call whole.
LEMMA OrphansStay == Next => orphan \subseteq orphan'
<1> SUFFICES ASSUME Next PROVE orphan \subseteq orphan' OBVIOUS
<1>1. ASSUME NEW p \in Proc, ProcNext(p) PROVE orphan \subseteq orphan'
  BY <1>1 DEF ProcNext, Pipealloc, PipeFds, OpenAlloc, OpenFd, ExitLoop, Fileclose, Pipeclose,
              Piperead, Pipewrite, FinishFileRecovery, history
<1>2. ASSUME NEW p \in Proc, SysPipe(p) \/ Exit(p) \/ PipeHit(p) \/ FileHit(p)
      PROVE  orphan \subseteq orphan'
  <2>1. CASE PipeHit(p)
    <3>1. UNCHANGED orphan \/ orphan' = orphan \cup ({cur2[p]} \ {None})
                                   \cup (IF p \in exiting THEN {cur[p]} ELSE {})
      BY <2>1 DEF PipeHit
    <3>2. QED BY <3>1
  <2>2. CASE ~PipeHit(p)
    BY <1>2, <2>2 DEF SysPipe, Exit, FileHit, StartFileRecovery, history
  <2>3. QED BY <2>1, <2>2
<1>3. ASSUME NEW p \in Proc, NEW i \in Inode, SysOpen(p, i) PROVE orphan \subseteq orphan'
  BY <1>3 DEF SysOpen, history
<1>4. ASSUME NEW p \in Proc, NEW d \in Fd, SysDup(p, d) \/ SysClose(p, d) \/ FileHitCall(p, d)
      PROVE  orphan \subseteq orphan'
  BY <1>4 DEF SysDup, SysClose, FileHitCall, StartFileRecovery, history
<1>5. ASSUME NEW p \in Proc, NEW d \in Fd, NEW n \in 1..MaxWrite, SysRw(p, d, n)
      PROVE  orphan \subseteq orphan'
  BY <1>5 DEF SysRw, history
<1>6. ASSUME NEW p \in Proc, NEW q \in Proc, Fork(p, q) \/ Kill(p, q) PROVE orphan \subseteq orphan'
  BY <1>6 DEF Fork, Kill, history
<1>7. QED BY <1>1, <1>2, <1>3, <1>4, <1>5, <1>6 DEF Next

\* Every step keeps the ends.
LEMMA NextEnds ==
    ASSUME Shape, InOrder, Counted, Ended, [Next]_vars
    PROVE  Ended'
<1>1. CASE UNCHANGED vars
  <2>1. /\ file' = file /\ orphan' = orphan /\ halted' = halted /\ pc' = pc /\ cur' = cur /\ ff' = ff
        /\ pipe' = pipe /\ hurt' = hurt
    BY <1>1 DEF vars, tables, calls, locals, history
  <2>2. EndInvs => EndInvs' BY <2>1 DEF EndInvs, EndsInv, UsedInv, DrainInv, IsEnd, Closes, Drains
  <2>3. QED BY <2>1, <2>2 DEF Ended
<1>2. CASE Next /\ ~halted' /\ orphan' = {}
  <2>1. ~halted /\ orphan = {} BY <1>2, NextRuns, OrphansStay
  <2>2. RefInv /\ NewInv /\ CallInv /\ EndInvs BY <2>1 DEF Counted, Ended
  <2>3. ASSUME NEW p \in Proc, ProcNext(p) PROVE EndInvs'
    <3>1. CASE FinishFileRecovery(p) BY <2>2, <3>1, FinishEnds
    <3>2. CASE ExitLoop(p) \/ Piperead(p) \/ Pipewrite(p) \/ Pipealloc(p) \/ OpenAlloc(p)
      BY <2>2, <3>2, CallsEnds
    <3>3. CASE Pipeclose(p) BY <2>2, <3>3, PipecloseEnds
    <3>4. CASE PipeFds(p) BY <2>1, <2>2, <3>4, PipeFdsEnds
    <3>5. CASE OpenFd(p) BY <2>1, <2>2, <3>5, OpenFdEnds
    <3>6. CASE Fileclose(p) BY <1>2, <2>2, <3>6, FilecloseEnds
    <3>7. QED BY <2>3, <3>1, <3>2, <3>3, <3>4, <3>5, <3>6 DEF ProcNext
  <2>4. ASSUME NEW p \in Proc, SysPipe(p) \/ Exit(p) \/ \E i \in Inode : SysOpen(p, i) PROVE EndInvs'
    BY <2>2, <2>4, CallsEnds
  <2>5. ASSUME NEW p \in Proc, PipeHit(p) PROVE EndInvs' BY <1>2, <2>2, <2>5, PipeHitEnds
  <2>6. ASSUME NEW p \in Proc, FileHit(p) PROVE EndInvs'
    <3>1. pc[p] = "close" /\ StartFileRecovery(p, cur[p]) BY <2>6 DEF FileHit, At
    <3>2. PICK h \in File : h = cur[p] BY <3>1 DEF Shape, PlaceInv, InFtable, InPipe
    <3>3. StartFileRecovery(p, h) BY <3>1, <3>2
    <3>4. Others(p) BY <2>6, OthersQuiet DEF Shape
    <3>5. QED BY <2>2, <3>1, <3>3, <3>4, StartEnds
  <2>7. ASSUME NEW p \in Proc, NEW d \in Fd, FileHitCall(p, d) PROVE EndInvs'
    <3>1. pc[p] = "user" /\ StartFileRecovery(p, ofile[p][d]) /\ ofile[p][d] # None
      BY <2>7 DEF FileHitCall, StartCall, At
    <3>2. PICK h \in File : h = ofile[p][d] BY <3>1 DEF Shape, Types
    <3>3. StartFileRecovery(p, h) BY <3>1, <3>2
    <3>4. Others(p) BY <2>7, OthersQuiet DEF Shape
    <3>5. QED BY <2>2, <3>1, <3>3, <3>4, StartEnds
  <2>8. ASSUME NEW p \in Proc, NEW d \in Fd, SysDup(p, d) \/ SysClose(p, d) PROVE EndInvs'
    BY <2>2, <2>8, CallsEnds
  <2>9. ASSUME NEW p \in Proc, NEW d \in Fd, NEW n \in 1..MaxWrite, SysRw(p, d, n) PROVE EndInvs'
    BY <2>2, <2>9, CallsEnds
  <2>10. ASSUME NEW p \in Proc, NEW q \in Proc, Fork(p, q) \/ Kill(p, q) PROVE EndInvs'
    BY <2>2, <2>10, ForkKillEnds
  <2>11. EndInvs' BY <1>2, <2>3, <2>4, <2>5, <2>6, <2>7, <2>8, <2>9, <2>10 DEF Next
  <2>12. QED BY <2>11 DEF Ended
<1>3. QED BY <1>1, <1>2 DEF Ended

\* Nothing is open when the system starts.
LEMMA InitEnds == Init => Ended
<1> SUFFICES ASSUME Init PROVE EndInvs BY DEF Ended
<1>1. \A a, wr : \A f \in File : ~IsEnd(f, a, wr) BY DEF Init, FreeFile, IsEnd
<1>2. \A a, wr : \A p \in Proc : ~Closes(p, a, wr) BY DEF Init, Closes
<1>3. \A a \in Pipe : ~pipe[a].readopen /\ ~pipe[a].writeopen /\ ~pipe[a].used
  BY DEF Init, FreePipe
<1>4. EndsInv BY <1>1, <1>2, <1>3 DEF EndsInv
<1>5. UsedInv BY <1>3 DEF UsedInv
<1>6. DrainInv BY DEF Init, DrainInv, Drains
<1>7. QED BY <1>4, <1>5, <1>6 DEF EndInvs

\* An end of a pipe is open as long as a file of it is, or a close of it is on
\* its way, and the page is kept as long as an end is open: for any number of
\* processes, files and pages, through failing calls and the recovery of files
\* and of other pipes.
THEOREM EndsOpen == Spec => []EndsExact
<1>1. Shape /\ Counted /\ Ended => EndsExact
  <2> SUFFICES ASSUME Shape, Counted, Ended, ~halted, orphan = {}, NEW a \in Pipe, a \notin hurt
               PROVE  LET open(wr) ==
                            \/ \E f \in File : file[f].type = "pipe" /\ file[f].ref > 0
                                               /\ file[f].pipe = a /\ file[f].wr = wr
                            \/ \E p \in Proc : pc[p] = "pipeclose" /\ ff[p] = [pipe |-> a, wr |-> wr]
                      IN /\ pipe[a].readopen = open(FALSE) /\ pipe[a].writeopen = open(TRUE)
                         /\ pipe[a].used = (open(FALSE) \/ open(TRUE))
    BY DEF EndsExact
  <2> DEFINE open(wr) ==
                \/ \E f \in File : file[f].type = "pipe" /\ file[f].ref > 0
                                   /\ file[f].pipe = a /\ file[f].wr = wr
                \/ \E p \in Proc : pc[p] = "pipeclose" /\ ff[p] = [pipe |-> a, wr |-> wr]
  <2>1. \A f \in File : file[f].type = "pipe" => file[f].ref > 0
    <3> SUFFICES ASSUME NEW f \in File, file[f].type = "pipe" PROVE file[f].ref > 0
      OBVIOUS
    <3>1. file[f].ref # 0 BY DEF Counted, NewInv
    <3>2. file[f].ref \in Nat BY DEF Shape, Types, FileRec
    <3>3. QED BY <3>1, <3>2
  <2>2. ASSUME NEW wr \in BOOLEAN
        PROVE  open(wr) <=> (\E f \in File : IsEnd(f, a, wr)) \/ (\E p \in Proc : Closes(p, a, wr))
    BY <2>1 DEF IsEnd, Closes
  <2> HIDE DEF open
  <2>3. EndsInv /\ UsedInv BY DEF Ended, EndInvs
  <2>4. pipe[a].readopen <=> open(FALSE)
    <3>1. pipe[a].readopen <=> \/ \E f \in File : IsEnd(f, a, FALSE)
                               \/ \E p \in Proc : Closes(p, a, FALSE)
      BY <2>3 DEF EndsInv
    <3>2. QED BY <2>2, <3>1
  <2>5. pipe[a].writeopen <=> open(TRUE)
    <3>1. pipe[a].writeopen <=> \/ \E f \in File : IsEnd(f, a, TRUE)
                                \/ \E p \in Proc : Closes(p, a, TRUE)
      BY <2>3 DEF EndsInv
    <3>2. QED BY <2>2, <3>1
  <2>6. pipe[a].used <=> pipe[a].readopen \/ pipe[a].writeopen BY <2>3 DEF UsedInv
  <2>7. pipe[a].readopen \in BOOLEAN /\ pipe[a].writeopen \in BOOLEAN /\ pipe[a].used \in BOOLEAN
    BY DEF Shape, Types, PipeRec
  <2>8. open(FALSE) \in BOOLEAN /\ open(TRUE) \in BOOLEAN BY DEF open
  <2>9. /\ pipe[a].readopen = open(FALSE) /\ pipe[a].writeopen = open(TRUE)
        /\ pipe[a].used = (open(FALSE) \/ open(TRUE))
    BY <2>4, <2>5, <2>6, <2>7, <2>8
  <2>10. QED BY <2>9 DEF open
<1>2. Init => Ended BY InitEnds
<1>3. Shape /\ InOrder /\ Counted /\ Ended /\ [Next]_vars => Ended' BY NextEnds
<1>4. QED BY <1>1, <1>2, <1>3, CountedCorrect, ShapeCorrect, PTL DEF Spec

-----------------------------------------------------------------------------
(* The inodes. *)

\* What refers to an inode: the files and the calls of open.
LEMMA InodePlaces ==
    /\ \A f \in File : <<0, f>> \in InodePlace /\ InodeMap[<<0, f>>] = Ip(f)
    /\ \A p \in Proc : <<1, p>> \in InodePlace /\ InodeMap[<<1, p>>] = Opens(p)
    /\ \A x \in InodePlace : (\E f \in File : x = <<0, f>>) \/ (\E p \in Proc : x = <<1, p>>)
    /\ DOMAIN InodeMap = InodePlace
    /\ \A f, p : <<0, f>> # <<1, p>>
BY DEF InodePlace, InodeMap

\* A step that leaves what refers to inodes.
LEMMA SameInodes ==
    ASSUME InodeInv, ref' = ref, \A f \in File : Ip(f)' = Ip(f), \A q \in Proc : Opens(q)' = Opens(q)
    PROVE  InodeInv'
<1>1. PICK R, S : R = InodeMap /\ S = InodeMap' OBVIOUS
<1>2. R = S BY <1>1 DEF InodeMap, InodePlace
<1>3. \A i : Count(InodeMap, i)' = Count(InodeMap, i) BY <1>1, <1>2 DEF Count
<1>4. QED BY <1>3 DEF InodeInv

\* A file or a call takes or drops an inode.
LEMMA OneInode ==
    ASSUME Types, InodeInv, NEW x \in InodePlace, NEW m, NEW n,
           m = InodeMap[x], n = InodeMap'[x],
           \A y \in InodePlace \ {x} : InodeMap'[y] = InodeMap[y],
           \A i \in Inode : ref'[i] = ref[i] - (IF m = i THEN 1 ELSE 0) + (IF n = i THEN 1 ELSE 0)
    PROVE  InodeInv'
<1>1. PICK R, S : R = InodeMap /\ S = InodeMap' OBVIOUS
<1>2. DOMAIN R = InodePlace /\ DOMAIN S = InodePlace BY <1>1 DEF InodeMap, InodePlace
<1>3. ASSUME NEW i \in Inode PROVE ref'[i] = Count(S, i)
  <2>1. /\ Count(R, i) \in Nat /\ Count(S, i) \in Nat
        /\ Count(S, i) = Count(R, i) - (IF R[x] = i THEN 1 ELSE 0) + (IF S[x] = i THEN 1 ELSE 0)
    BY <1>1, <1>2, PlacesFinite, CountChange
  <2>2. R[x] = m /\ S[x] = n BY <1>1
  <2>3. ref[i] = Count(R, i) BY <1>1 DEF InodeInv
  <2>4. QED BY <2>1, <2>2, <2>3
<1>4. QED BY <1>1, <1>3 DEF InodeInv

\* A call of open gives its inode to its file.
LEMMA TwoInodes ==
    ASSUME Types, InodeInv, NEW f \in File, NEW p \in Proc, NEW m,
           Opens(p) = m, Opens(p)' = None, Ip(f) = None, Ip(f)' = m, ref' = ref,
           \A g \in File \ {f} : Ip(g)' = Ip(g), \A q \in Proc \ {p} : Opens(q)' = Opens(q)
    PROVE  InodeInv'
<1>1. PICK R, S : R = InodeMap /\ S = InodeMap' OBVIOUS
<1>2. PICK x, y : x = <<0, f>> /\ y = <<1, p>> OBVIOUS
<1>3. x \in InodePlace /\ y \in InodePlace /\ x # y BY <1>2, InodePlaces
<1>4. DOMAIN R = InodePlace /\ DOMAIN S = InodePlace BY <1>1 DEF InodeMap, InodePlace
<1>5. R[x] = None /\ S[x] = m /\ R[y] = m /\ S[y] = None
  BY <1>1, <1>2, <1>3 DEF InodeMap
<1>6. \A z \in InodePlace \ {x, y} : S[z] = R[z]
  BY <1>1, <1>2 DEF InodeMap, InodePlace
<1>7. ASSUME NEW i \in Inode PROVE ref'[i] = Count(S, i)
  <2>1. /\ Count(R, i) \in Nat /\ Count(S, i) \in Nat
        /\ Count(S, i) = Count(R, i) - (IF R[x] = i THEN 1 ELSE 0) - (IF R[y] = i THEN 1 ELSE 0)
                                     + (IF S[x] = i THEN 1 ELSE 0) + (IF S[y] = i THEN 1 ELSE 0)
    BY <1>3, <1>4, <1>6, PlacesFinite, CountChange2
  <2>2. Count(S, i) = Count(R, i) BY <1>5, <2>1
  <2>3. ref[i] = Count(R, i) BY <1>1 DEF InodeInv
  <2>4. QED BY <2>2, <2>3
<1>8. QED BY <1>1, <1>7 DEF InodeInv

\* Who does not take the step opens what it did.
LEMMA OthersOpen ==
    ASSUME NEW p \in Proc, Others(p), NEW q \in Proc \ {p}
    PROVE  Opens(q)' = Opens(q)
BY DEF Others, Quiet, Opens

\* A file takes or drops an inode, and nothing else does.
LEMMA FileInode ==
    ASSUME Types, InodeInv, NEW f \in File, NEW m, NEW n, Ip(f) = m, Ip(f)' = n,
           \A g \in File \ {f} : Ip(g)' = Ip(g), \A q \in Proc : Opens(q)' = Opens(q),
           \A i \in Inode : ref'[i] = ref[i] - (IF m = i THEN 1 ELSE 0) + (IF n = i THEN 1 ELSE 0)
    PROVE  InodeInv'
<1>1. PICK x : x = <<0, f>> OBVIOUS
<1>2. x \in InodePlace /\ m = InodeMap[x] BY <1>1, InodePlaces
<1>3. n = InodeMap'[x] BY <1>1, <1>2 DEF InodeMap
<1>4. \A y \in InodePlace \ {x} : InodeMap'[y] = InodeMap[y] BY <1>1 DEF InodeMap, InodePlace
<1>5. QED BY <1>2, <1>3, <1>4, OneInode

\* A call takes or drops an inode, and no file does.
LEMMA CallInode ==
    ASSUME Types, InodeInv, NEW p \in Proc, NEW m, NEW n, Opens(p) = m, Opens(p)' = n,
           \A g \in File : Ip(g)' = Ip(g), \A q \in Proc \ {p} : Opens(q)' = Opens(q),
           \A i \in Inode : ref'[i] = ref[i] - (IF m = i THEN 1 ELSE 0) + (IF n = i THEN 1 ELSE 0)
    PROVE  InodeInv'
<1>1. PICK x : x = <<1, p>> OBVIOUS
<1>2. x \in InodePlace /\ m = InodeMap[x] BY <1>1, InodePlaces
<1>3. n = InodeMap'[x] BY <1>1, <1>2 DEF InodeMap
<1>4. \A y \in InodePlace \ {x} : InodeMap'[y] = InodeMap[y] BY <1>1 DEF InodeMap, InodePlace
<1>5. QED BY <1>2, <1>3, <1>4, OneInode

\* A step of p that has nothing to do with inodes.
LEMMA PlainInodes ==
    ASSUME InodeInv, NEW p \in Proc, Others(p), ref' = ref,
           \A f \in File : file'[f].type = file[f].type /\ file'[f].ip = file[f].ip,
           pc[p] \notin {"namei", "openfd"}, pc'[p] \notin {"namei", "openfd"}
    PROVE  InodeInv'
<1>1. \A f \in File : Ip(f)' = Ip(f) BY DEF Ip
<1>2. Opens(p)' = Opens(p) BY DEF Opens
<1>3. \A q \in Proc : Opens(q)' = Opens(q) BY <1>2, OthersOpen
<1>4. QED BY <1>1, <1>3, SameInodes

\* One is taken off or put on the count of an inode.
LEMMA RefChange ==
    ASSUME Types, NEW m, NEW i \in Inode
    PROVE  /\ ref' = [ref EXCEPT ![m] = @ - 1] => ref'[i] = ref[i] - (IF m = i THEN 1 ELSE 0)
           /\ ref' = [ref EXCEPT ![m] = @ + 1] => ref'[i] = ref[i] + (IF m = i THEN 1 ELSE 0)
           /\ ref[i] \in Int
<1>1. ref[i] \in Int BY DEF Types
<1>2. CASE m = i BY <1>1, <1>2 DEF Types
<1>3. CASE m # i BY <1>1, <1>3 DEF Types
<1>4. QED BY <1>1, <1>2, <1>3

\* The calls that have nothing to do with inodes.
LEMMA CallsInodes ==
    ASSUME Shape, InodeInv, NEW p \in Proc,
           \/ ExitLoop(p) \/ Piperead(p) \/ Pipewrite(p) \/ Exit(p) \/ Pipeclose(p)
           \/ SysPipe(p) \/ Pipealloc(p)
           \/ \E d \in Fd : SysClose(p, d) \/ SysDup(p, d)
           \/ \E d \in Fd, n \in 1..MaxWrite : SysRw(p, d, n)
    PROVE  InodeInv'
<1>1. Others(p) /\ Types BY OthersQuiet DEF Shape
<1>2. ref' = ref
  BY DEF ExitLoop, Piperead, Pipewrite, Pipeclose, Exit, SysPipe, Pipealloc, SysClose, SysDup, SysRw,
         tables
<1>3. \A f \in File : file'[f].type = file[f].type /\ file'[f].ip = file[f].ip
  <2>1. CASE SysPipe(p) \/ Pipealloc(p)
    <3>1. file' = file \/ (FreeSlot # None /\ file' = Filealloc(FreeSlot))
      BY <2>1 DEF SysPipe, Pipealloc
    <3>2. CASE FreeSlot # None /\ file' = Filealloc(FreeSlot)
      <4>1. PICK h \in File : h = FreeSlot BY <3>2, FreeSlotFinds
      <4>2. file' = Filealloc(h) BY <3>2, <4>1
      <4>3. QED BY <1>1, <4>2, AllocRef
    <3>3. QED BY <3>1, <3>2
  <2>2. CASE \E d \in Fd : SysDup(p, d)
    <3>1. PICK d \in Fd : SysDup(p, d) BY <2>2
    <3>2. PICK h \in File : h = ofile[p][d] BY <1>1, <3>1 DEF SysDup, Types
    <3>3. PICK c : c = file[h].ref + 1 OBVIOUS
    <3>4. file' = file \/ file' = [file EXCEPT ![h].ref = c] BY <3>1, <3>2, <3>3 DEF SysDup
    <3>5. QED BY <1>1, <3>4 DEF Types, FileRec
  <2>3. CASE \/ ExitLoop(p) \/ Piperead(p) \/ Pipewrite(p) \/ Exit(p) \/ Pipeclose(p)
             \/ \E d \in Fd : SysClose(p, d)
             \/ \E d \in Fd, n \in 1..MaxWrite : SysRw(p, d, n)
    <3>1. file' = file
      BY <2>3 DEF ExitLoop, Piperead, Pipewrite, Pipeclose, Exit, SysClose, SysRw, tables
    <3>2. QED BY <3>1
  <2>4. QED BY <2>1, <2>2, <2>3
<1>4. pc[p] \notin {"namei", "openfd"}
  BY DEF ExitLoop, Piperead, Pipewrite, Pipeclose, Exit, SysPipe, Pipealloc, SysClose, SysDup,
         SysRw, StartCall, OnPipe, At
<1>5. pc'[p] \notin {"namei", "openfd"} BY <1>1, CallGoes
<1>6. QED BY <1>1, <1>2, <1>3, <1>4, <1>5, PlainInodes

\* namei takes a reference.
LEMMA SysOpenInodes ==
    ASSUME Shape, InodeInv, NEW p \in Proc, NEW j \in Inode, SysOpen(p, j)
    PROVE  InodeInv'
<1>1. Others(p) /\ Types BY OthersQuiet DEF Shape
<1>2. pc[p] = "user" /\ file' = file /\ ref' = [ref EXCEPT ![j] = @ + 1]
  BY DEF SysOpen, StartCall, At
<1>3. pc'[p] = "namei" /\ arg'[p] = j BY <1>1 DEF SysOpen, Goto, Types
<1>4. Opens(p) = None /\ Opens(p)' = j BY <1>2, <1>3 DEF Opens
<1>5. \A g \in File : Ip(g)' = Ip(g) BY <1>2 DEF Ip
<1>6. \A q \in Proc \ {p} : Opens(q)' = Opens(q) BY <1>1, OthersOpen
<1>7. ASSUME NEW i \in Inode
      PROVE  ref'[i] = ref[i] - (IF None = i THEN 1 ELSE 0) + (IF j = i THEN 1 ELSE 0)
  <2>1. None # i BY PlaceFacts
  <2>2. ref'[i] = ref[i] + (IF j = i THEN 1 ELSE 0) /\ ref[i] \in Int BY <1>1, <1>2, RefChange
  <2>3. QED BY <2>1, <2>2
<1>8. QED BY <1>1, <1>4, <1>5, <1>6, <1>7, CallInode

\* Without a slot open drops its inode.
LEMMA OpenAllocInodes ==
    ASSUME Shape, InodeInv, NEW p \in Proc, OpenAlloc(p)
    PROVE  InodeInv'
<1>1. Others(p) /\ Types BY OthersQuiet DEF Shape
<1>2. pc[p] = "namei" BY DEF OpenAlloc, At
<1>3. PICK j : j = arg[p] OBVIOUS
<1>4. Opens(p) = j BY <1>2, <1>3 DEF Opens
<1>5. \A q \in Proc \ {p} : Opens(q)' = Opens(q) BY <1>1, OthersOpen
<1>6. CASE FreeSlot = None
  <2>1. ref' = [ref EXCEPT ![j] = @ - 1] /\ Return(p) /\ file' = file BY <1>3, <1>6 DEF OpenAlloc
  <2>2. Opens(p)' = None
    <3>1. pc'[p] = "user" BY <1>1, <2>1, ReturnQuiet
    <3>2. QED BY <3>1 DEF Opens
  <2>3. \A g \in File : Ip(g)' = Ip(g) BY <2>1 DEF Ip
  <2>4. ASSUME NEW i \in Inode
        PROVE  ref'[i] = ref[i] - (IF j = i THEN 1 ELSE 0) + (IF None = i THEN 1 ELSE 0)
    <3>1. None # i BY PlaceFacts
    <3>2. ref'[i] = ref[i] - (IF j = i THEN 1 ELSE 0) /\ ref[i] \in Int BY <1>1, <2>1, RefChange
    <3>3. QED BY <3>1, <3>2
  <2>5. QED BY <1>1, <1>4, <1>5, <2>2, <2>3, <2>4, CallInode
<1>7. CASE FreeSlot # None
  <2>1. PICK h \in File : h = FreeSlot BY <1>7, FreeSlotFinds
  <2>2. file' = Filealloc(h) /\ ref' = ref /\ arg' = arg /\ Goto(p, "openfd")
    BY <1>7, <2>1 DEF OpenAlloc
  <2>3. \A g \in File : Ip(g)' = Ip(g)
    <3>1. \A g \in File : file'[g].type = file[g].type /\ file'[g].ip = file[g].ip
      BY <1>1, <2>2, AllocRef
    <3>2. QED BY <3>1 DEF Ip
  <2>4. Opens(p)' = Opens(p) BY <1>1, <1>2, <2>2 DEF Opens, Goto, Types
  <2>5. \A q \in Proc : Opens(q)' = Opens(q) BY <1>5, <2>4
  <2>6. QED BY <2>2, <2>3, <2>5, SameInodes
<1>8. QED BY <1>6, <1>7

\* The file of open gets the inode, or open drops it.
LEMMA OpenFdInodes ==
    ASSUME Shape, NewInv, InodeInv, orphan = {}, NEW p \in Proc, OpenFd(p)
    PROVE  InodeInv'
<1>1. Others(p) /\ Types BY OthersQuiet DEF Shape
<1>2. pc[p] = "openfd" BY DEF OpenFd, At
<1>3. PICK j \in Inode, h \in File : j = arg[p] /\ h = cur[p]
  BY <1>2 DEF Shape, PlaceInv, InFtable
<1>4. Opens(p) = j BY <1>2, <1>3 DEF Opens
<1>5. Opens(p)' = None
  <2>1. pc'[p] = "user" BY <1>1, ReturnQuiet DEF OpenFd
  <2>2. QED BY <2>1 DEF Opens
<1>6. \A q \in Proc \ {p} : Opens(q)' = Opens(q) BY <1>1, OthersOpen
<1>7. file[h].type = "none" BY <1>2, <1>3, NewRef
<1>8. Ip(h) = None BY <1>7 DEF Ip
<1>9. CASE FreeFd(p) = {}
  <2>1. file' = [file EXCEPT ![h].ref = 0] /\ ref' = [ref EXCEPT ![j] = @ - 1]
    BY <1>3, <1>9 DEF OpenFd
  <2>2. \A g \in File : file'[g].type = file[g].type /\ file'[g].ip = file[g].ip
    BY <1>1, <2>1 DEF Types, FileRec
  <2>3. \A g \in File : Ip(g)' = Ip(g) BY <2>2 DEF Ip
  <2>4. ASSUME NEW i \in Inode
        PROVE  ref'[i] = ref[i] - (IF j = i THEN 1 ELSE 0) + (IF None = i THEN 1 ELSE 0)
    <3>1. None # i BY PlaceFacts
    <3>2. ref'[i] = ref[i] - (IF j = i THEN 1 ELSE 0) /\ ref[i] \in Int BY <1>1, <2>1, RefChange
    <3>3. QED BY <3>1, <3>2
  <2>5. QED BY <1>1, <1>4, <1>5, <1>6, <2>3, <2>4, CallInode
<1>10. CASE FreeFd(p) # {}
  <2>1. /\ file' = [file EXCEPT ![h] = [@ EXCEPT !.type = "inode", !.ip = j,
                                                 !.rd = TRUE, !.wr = TRUE]]
        /\ ref' = ref
    BY <1>3, <1>10 DEF OpenFd
  <2>2. /\ file'[h].type = "inode" /\ file'[h].ip = j
        /\ \A g \in File \ {h} : file'[g] = file[g]
    BY <1>1, <2>1 DEF Types, FileRec
  <2>3. Ip(h)' = j /\ \A g \in File \ {h} : Ip(g)' = Ip(g) BY <2>2 DEF Ip
  <2>4. QED BY <1>1, <1>4, <1>5, <1>6, <1>8, <2>1, <2>3, TwoInodes
<1>11. QED BY <1>9, <1>10

\* The files that pipe makes ends of a pipe were nothing.
LEMMA PipeFdsInodes ==
    ASSUME Shape, CallInv, NewInv, InodeInv, orphan = {}, NEW p \in Proc, PipeFds(p)
    PROVE  InodeInv'
<1>1. Others(p) /\ Types BY OthersQuiet DEF Shape
<1>2. pc[p] = "pipefds" /\ ref' = ref BY DEF PipeFds, At
<1>3. pc'[p] \in {"close", "user"}
  <2>1. Goto(p, "close") \/ Goto(p, "user") BY DEF PipeFds
  <2>2. QED BY <1>1, <2>1 DEF Goto, Types
<1>4. PICK g \in File, h \in File : g = cur[p] /\ h = cur2[p]
  BY <1>2 DEF Shape, PlaceInv, InFtable, CallInv, CallOK
<1>5. file[g].type = "none" /\ file[h].type = "none" BY <1>2, <1>4, NewRef
<1>6. ASSUME NEW f \in File PROVE Ip(f)' = Ip(f)
  <2>1. CASE f \notin {g, h}
    <3>1. file'[f] = file[f] BY <1>1, <1>4, <2>1, PipeFdsFile
    <3>2. QED BY <3>1 DEF Ip
  <2>2. CASE f \in {g, h}
    <3>1. file'[f] = file[f] \/ file'[f].type = "pipe"
      <4>1. CASE file' = file BY <4>1
      <4>2. CASE \E a : file' = [file EXCEPT ![g] = [@ EXCEPT !.type = "pipe", !.rd = TRUE,
                                                              !.wr = FALSE, !.pipe = a],
                                             ![h] = [@ EXCEPT !.type = "pipe", !.rd = FALSE,
                                                              !.wr = TRUE, !.pipe = a]]
        <5>1. PICK a : file' = [file EXCEPT ![g] = [@ EXCEPT !.type = "pipe", !.rd = TRUE,
                                                             !.wr = FALSE, !.pipe = a],
                                            ![h] = [@ EXCEPT !.type = "pipe", !.rd = FALSE,
                                                             !.wr = TRUE, !.pipe = a]]
          BY <4>2
        <5>2. CASE f = h BY <1>1, <5>1, <5>2 DEF Types, FileRec
        <5>3. CASE f = g /\ f # h BY <1>1, <5>1, <5>3 DEF Types, FileRec
        <5>4. QED BY <2>2, <5>2, <5>3
      <4>3. QED BY <1>4, <4>1, <4>2 DEF PipeFds
    <3>2. Ip(f) = None BY <1>5, <2>2 DEF Ip
    <3>3. QED BY <1>5, <2>2, <3>1, <3>2 DEF Ip
  <2>3. QED BY <2>1, <2>2
<1>7. Opens(p)' = Opens(p) BY <1>2, <1>3 DEF Opens
<1>8. \A q \in Proc : Opens(q)' = Opens(q) BY <1>1, <1>7, OthersOpen
<1>9. QED BY <1>2, <1>6, <1>8, SameInodes

\* The last close of a file drops its inode.
LEMMA FilecloseInodes ==
    ASSUME Shape, InodeInv, NEW p \in Proc, Fileclose(p), ~halted'
    PROVE  InodeInv'
<1>1. Others(p) /\ Types BY OthersQuiet DEF Shape
<1>2. pc[p] = "close" BY DEF Fileclose, At
<1>3. PICK h \in File : h = cur[p] BY <1>2 DEF Shape, PlaceInv, InFtable, InPipe
<1>4. PICK r \in Nat : r = file[h].ref BY <1>1 DEF Types, FileRec
<1>5. r >= 1 BY <1>3, <1>4 DEF Fileclose, Halt
<1>6. /\ r = 1 => file'[h].type = "none"
      /\ r > 1 => file'[h].type = file[h].type
      /\ file'[h].ip = file[h].ip
      /\ \A f \in File \ {h} : file'[f] = file[f]
  BY <1>1, <1>3, <1>4, <1>5, FilecloseFile
<1>7. \A q \in Proc : Opens(q)' = Opens(q)
  <2>1. pc'[p] \notin {"namei", "openfd"}
    <3>1. Goto(p, "pipeclose") \/ Closed(p, {}, "user") BY <1>3, <1>4, <1>5 DEF Fileclose
    <3>2. QED BY <1>1, <3>1 DEF Goto, Closed, WakeAndGoto, Types
  <2>2. Opens(p)' = Opens(p) BY <1>2, <2>1 DEF Opens
  <2>3. QED BY <1>1, <2>2, OthersOpen
<1>8. CASE r > 1 \/ file[h].type # "inode"
  <2>1. ref' = ref BY <1>3, <1>4, <1>5, <1>8 DEF Fileclose
  <2>2. \A f \in File : Ip(f)' = Ip(f) BY <1>4, <1>5, <1>6, <1>8 DEF Ip
  <2>3. QED BY <1>7, <2>1, <2>2, SameInodes
<1>9. CASE r = 1 /\ file[h].type = "inode"
  <2>1. PICK j : j = file[h].ip OBVIOUS
  <2>2. ref' = [ref EXCEPT ![j] = @ - 1] BY <1>3, <1>4, <1>9, <2>1 DEF Fileclose
  <2>3. Ip(h) = j /\ Ip(h)' = None /\ \A f \in File \ {h} : Ip(f)' = Ip(f)
    BY <1>6, <1>9, <2>1 DEF Ip
  <2>4. ASSUME NEW i \in Inode
        PROVE  ref'[i] = ref[i] - (IF j = i THEN 1 ELSE 0) + (IF None = i THEN 1 ELSE 0)
    <3>1. None # i BY PlaceFacts
    <3>2. ref'[i] = ref[i] - (IF j = i THEN 1 ELSE 0) /\ ref[i] \in Int BY <1>1, <2>2, RefChange
    <3>3. QED BY <3>1, <3>2
  <2>5. QED BY <1>1, <1>7, <2>3, <2>4, FileInode
<1>10. QED BY <1>4, <1>5, <1>8, <1>9

\* The pipe handler and the beginning of the file handler leave the inodes alone.
LEMMA HitInodes ==
    ASSUME Shape, CallInv, RefInv, InodeInv, NEW p \in Proc, ~halted',
           PipeHit(p) \/ FileHit(p) \/ \E d \in Fd : FileHitCall(p, d)
    PROVE  InodeInv'
<1>1. Others(p) /\ Types BY OthersQuiet DEF Shape
<1>2. CASE PipeHit(p)
  <2>1. ~\E q \in Proc \ {p} : pc[q] \in InPipe BY <1>2 DEF PipeHit, Halt
  <2>2. \A f \in File : file'[f].type = file[f].type /\ file'[f].ip = file[f].ip
    BY <1>2, <2>1, PipeHitFile
  <2>3. ref' = ref /\ Return(p) BY <1>2, <2>1 DEF PipeHit
  <2>4. pc[p] \notin {"namei", "openfd"} BY <1>2 DEF PipeHit, OnPipe, At
  <2>5. pc'[p] = "user" BY <1>1, <2>3, ReturnQuiet
  <2>6. QED BY <1>1, <2>2, <2>3, <2>4, <2>5, PlainInodes
<1>3. CASE FileHit(p) \/ \E d \in Fd : FileHitCall(p, d)
  <2>1. file' = file /\ ref' = ref /\ Goto(p, "drain") /\ pc[p] \in {"close", "user"}
    BY <1>3 DEF FileHit, FileHitCall, StartFileRecovery, StartCall, At
  <2>2. pc'[p] = "drain" BY <1>1, <2>1 DEF Goto, Types
  <2>3. QED BY <1>1, <2>1, <2>2, PlainInodes
<1>4. QED BY <1>2, <1>3

\* The file handler drops the inode of the broken file.
LEMMA FinishInodes ==
    ASSUME Shape, InodeInv, NEW p \in Proc, FinishFileRecovery(p), ~misjudged'
    PROVE  InodeInv'
<1>1. /\ Types /\ pc[p] = "drain" /\ Return(p) /\ file' = [file EXCEPT ![cur[p]] = FreeFile]
  BY DEF FinishFileRecovery, At, Shape
<1>2. PICK h \in File : h = cur[p] BY <1>1 DEF Shape, PlaceInv
<1>3. PICK j : j = Ip(h) OBVIOUS
<1>4. ref' = IF j = None THEN ref ELSE [ref EXCEPT ![j] = @ - 1]
  <2>1. PICK drop : /\ ref' = IF drop = None THEN ref ELSE [ref EXCEPT ![drop] = @ - 1]
                    /\ misjudged' = (misjudged \/ drop # j)
    BY <1>2, <1>3 DEF FinishFileRecovery, Ip
  <2>2. QED BY <2>1
<1>5. \A f \in File : file'[f] = IF f = h THEN FreeFile ELSE file[f] BY <1>1, <1>2 DEF Types
<1>6. Ip(h)' = None /\ \A f \in File \ {h} : Ip(f)' = Ip(f) BY <1>5 DEF Ip, FreeFile
<1>7. \A q \in Proc : Opens(q)' = Opens(q) BY <1>1, ReturnQuiet DEF Opens
<1>8. ASSUME NEW i \in Inode
      PROVE  ref'[i] = ref[i] - (IF j = i THEN 1 ELSE 0) + (IF None = i THEN 1 ELSE 0)
  <2>1. None # i /\ ref[i] \in Int BY <1>1, PlaceFacts DEF Types
  <2>2. CASE j = None BY <1>4, <2>1, <2>2
  <2>3. CASE j # None
    <3>1. ref' = [ref EXCEPT ![j] = @ - 1] BY <1>4, <2>3
    <3>2. ref'[i] = ref[i] - (IF j = i THEN 1 ELSE 0) BY <1>1, <3>1, RefChange
    <3>3. QED BY <2>1, <3>2
  <2>4. QED BY <2>2, <2>3
<1>9. QED BY <1>1, <1>3, <1>6, <1>7, <1>8, FileInode

\* fork and kill leave the inodes alone.
LEMMA ForkKillInodes ==
    ASSUME Shape, CallInv, InodeInv, NEW p \in Proc, NEW c \in Proc, Fork(p, c) \/ Kill(p, c)
    PROVE  InodeInv'
<1>1. Types /\ ref' = ref BY DEF Fork, Kill, tables, Shape
<1>2. CASE Fork(p, c)
  <2>1. StepRefs(c) /\ pc[c] = "unused" /\ pc'[c] = "user"
    BY <1>1, <1>2, ForkRefs DEF Fork, At, Goto, Types
  <2>2. ASSUME NEW f \in File
        PROVE  file'[f].type = file[f].type /\ file'[f].ip = file[f].ip
    <3>1. PICK n : n = file[f].ref + Cardinality({d \in Fd : ofile[p][d] = f}) OBVIOUS
    <3>2. file'[f] = [file[f] EXCEPT !.ref = n] BY <1>2, <3>1 DEF Fork
    <3>3. file[f] \in FileRec BY <1>1 DEF Types
    <3>4. QED BY <3>2, <3>3 DEF FileRec
  <2>3. QED BY <1>1, <2>1, <2>2, PlainInodes DEF StepRefs
<1>3. CASE Kill(p, c)
  <2>1. \A r \in Proc : Quiet(r) BY <1>1, <1>3 DEF Kill, Quiet, Types, tables, locals, history
  <2>2. \A q \in Proc : Opens(q)' = Opens(q) BY <2>1 DEF Quiet, Opens
  <2>3. \A f \in File : Ip(f)' = Ip(f) BY <1>3 DEF Kill, tables, Ip
  <2>4. QED BY <1>1, <2>2, <2>3, SameInodes
<1>4. QED BY <1>2, <1>3

\* A misjudgement is never taken back.
LEMMA MisjudgedStays == Next => (misjudged => misjudged')
<1> SUFFICES ASSUME Next, misjudged PROVE misjudged' OBVIOUS
<1>1. ASSUME NEW p \in Proc, ProcNext(p) PROVE misjudged'
  BY <1>1 DEF ProcNext, Pipealloc, PipeFds, OpenAlloc, OpenFd, ExitLoop, Fileclose, Pipeclose,
              Piperead, Pipewrite, FinishFileRecovery, history
<1>2. ASSUME NEW p \in Proc, SysPipe(p) \/ Exit(p) \/ PipeHit(p) \/ FileHit(p) PROVE misjudged'
  BY <1>2 DEF SysPipe, Exit, PipeHit, FileHit, StartFileRecovery, history
<1>3. ASSUME NEW p \in Proc, NEW i \in Inode, SysOpen(p, i) PROVE misjudged'
  BY <1>3 DEF SysOpen, history
<1>4. ASSUME NEW p \in Proc, NEW d \in Fd, SysDup(p, d) \/ SysClose(p, d) \/ FileHitCall(p, d)
      PROVE  misjudged'
  BY <1>4 DEF SysDup, SysClose, FileHitCall, StartFileRecovery, history
<1>5. ASSUME NEW p \in Proc, NEW d \in Fd, NEW n \in 1..MaxWrite, SysRw(p, d, n)
      PROVE  misjudged'
  BY <1>5 DEF SysRw, history
<1>6. ASSUME NEW p \in Proc, NEW q \in Proc, Fork(p, q) \/ Kill(p, q) PROVE misjudged'
  BY <1>6 DEF Fork, Kill, history
<1>7. QED BY <1>1, <1>2, <1>3, <1>4, <1>5, <1>6 DEF Next

\* Every step keeps the counts of the inodes.
LEMMA NextInodes ==
    ASSUME Shape, Counted, Dropping, [Next]_vars
    PROVE  Dropping'
<1>1. CASE UNCHANGED vars
  <2>1. /\ file' = file /\ orphan' = orphan /\ halted' = halted /\ misjudged' = misjudged
        /\ pc' = pc /\ arg' = arg /\ ref' = ref
    BY <1>1 DEF vars, tables, calls, locals, history
  <2>2. (\A f \in File : Ip(f)' = Ip(f)) /\ \A q \in Proc : Opens(q)' = Opens(q)
    BY <2>1 DEF Ip, Opens
  <2>3. InodeInv => InodeInv' BY <2>1, <2>2, SameInodes
  <2>4. QED BY <2>1, <2>3 DEF Dropping
<1>2. CASE Next /\ ~halted' /\ orphan' = {} /\ ~misjudged'
  <2>1. ~halted /\ orphan = {} BY <1>2, NextRuns, OrphansStay
  <2>2. ~misjudged BY <1>2, MisjudgedStays
  <2>3. RefInv /\ NewInv /\ CallInv /\ InodeInv BY <2>1, <2>2 DEF Counted, Dropping
  <2>4. ASSUME NEW p \in Proc, ProcNext(p) PROVE InodeInv'
    <3>1. CASE FinishFileRecovery(p) BY <1>2, <2>3, <3>1, FinishInodes
    <3>2. CASE ExitLoop(p) \/ Piperead(p) \/ Pipewrite(p) \/ Pipealloc(p) \/ Pipeclose(p)
      BY <2>3, <3>2, CallsInodes
    <3>3. CASE OpenAlloc(p) BY <2>3, <3>3, OpenAllocInodes
    <3>4. CASE PipeFds(p) BY <2>1, <2>3, <3>4, PipeFdsInodes
    <3>5. CASE OpenFd(p) BY <2>1, <2>3, <3>5, OpenFdInodes
    <3>6. CASE Fileclose(p) BY <1>2, <2>3, <3>6, FilecloseInodes
    <3>7. QED BY <2>4, <3>1, <3>2, <3>3, <3>4, <3>5, <3>6 DEF ProcNext
  <2>5. ASSUME NEW p \in Proc, SysPipe(p) \/ Exit(p) PROVE InodeInv' BY <2>3, <2>5, CallsInodes
  <2>6. ASSUME NEW p \in Proc, NEW i \in Inode, SysOpen(p, i) PROVE InodeInv'
    BY <2>3, <2>6, SysOpenInodes
  <2>7. ASSUME NEW p \in Proc, PipeHit(p) \/ FileHit(p) \/ \E d \in Fd : FileHitCall(p, d)
        PROVE  InodeInv'
    BY <1>2, <2>3, <2>7, HitInodes
  <2>8. ASSUME NEW p \in Proc, NEW d \in Fd, SysDup(p, d) \/ SysClose(p, d) PROVE InodeInv'
    BY <2>3, <2>8, CallsInodes
  <2>9. ASSUME NEW p \in Proc, NEW d \in Fd, NEW n \in 1..MaxWrite, SysRw(p, d, n) PROVE InodeInv'
    BY <2>3, <2>9, CallsInodes
  <2>10. ASSUME NEW p \in Proc, NEW q \in Proc, Fork(p, q) \/ Kill(p, q) PROVE InodeInv'
    BY <2>3, <2>10, ForkKillInodes
  <2>11. InodeInv' BY <1>2, <2>4, <2>5, <2>6, <2>7, <2>8, <2>9, <2>10 DEF Next
  <2>12. QED BY <2>11 DEF Dropping
<1>3. QED BY <1>1, <1>2 DEF Dropping

\* Nothing refers to an inode when the system starts.
LEMMA InitInodes == Init => Dropping
<1> SUFFICES ASSUME Init, NEW i \in Inode PROVE ref[i] = Count(InodeMap, i)
  BY DEF Dropping, InodeInv
<1>1. PICK R : R = InodeMap OBVIOUS
<1>2. DOMAIN R = InodePlace BY <1>1 DEF InodeMap
<1>3. \A x \in InodePlace : R[x] = None BY <1>1 DEF Init, FreeFile, Ip, Opens, InodeMap, InodePlace
<1>4. None # i BY PlaceFacts
<1>5. Count(R, i) = 0 BY <1>2, <1>3, <1>4, PlacesFinite, CountAtLeast
<1>6. QED BY <1>1, <1>5 DEF Init

\* The count of InodeRefs, as one count.
LEMMA InodesCounted ==
    ASSUME NEW i \in Inode
    PROVE  Count(InodeMap, i)
             = Cardinality({f \in File : file[f].type = "inode" /\ file[f].ip = i})
               + Cardinality({p \in Proc : pc[p] \in {"namei", "openfd"} /\ arg[p] = i})
<1> DEFINE F == {f \in File : file[f].type = "inode" /\ file[f].ip = i}
           P == {p \in Proc : pc[p] \in {"namei", "openfd"} /\ arg[p] = i}
<1>1. F \in SUBSET File /\ P \in SUBSET Proc OBVIOUS
<1>2. (\A f \in File : Ip(f) = i <=> f \in F) /\ (\A p \in Proc : Opens(p) = i <=> p \in P)
  BY PlaceFacts DEF Ip, Opens
<1> HIDE DEF F, P
<1>3. {x \in InodePlace : InodeMap[x] = i} = ({0} \X F) \cup ({1} \X P)
  <2>1. \A f \in File : InodeMap[<<0, f>>] = i <=> <<0, f>> \in ({0} \X F) \cup ({1} \X P)
    BY <1>2, InodePlaces
  <2>2. \A p \in Proc : InodeMap[<<1, p>>] = i <=> <<1, p>> \in ({0} \X F) \cup ({1} \X P)
    BY <1>2, InodePlaces
  <2>3. \A x \in InodePlace : InodeMap[x] = i <=> x \in ({0} \X F) \cup ({1} \X P)
    BY <2>1, <2>2, InodePlaces
  <2>4. ({0} \X F) \cup ({1} \X P) \subseteq InodePlace BY <1>1 DEF InodePlace
  <2>5. QED BY <2>3, <2>4
<1>4. IsFiniteSet(F) /\ IsFiniteSet(P) BY <1>1, PlacesFinite, FS_Subset
<1>5. /\ IsFiniteSet({0} \X F) /\ Cardinality({0} \X F) = Cardinality(F)
      /\ IsFiniteSet({1} \X P) /\ Cardinality({1} \X P) = Cardinality(P)
  BY <1>4, CopySize
<1>6. ({0} \X F) \cap ({1} \X P) = {} OBVIOUS
<1>7. Cardinality(({0} \X F) \cup ({1} \X P))
        = Cardinality({0} \X F) + Cardinality({1} \X P) - Cardinality({})
  BY <1>5, <1>6, FS_Union
<1>8. Cardinality({}) = 0 /\ Cardinality(F) \in Nat /\ Cardinality(P) \in Nat
  BY <1>4, FS_EmptySet, FS_CardinalityType
<1>9. Count(InodeMap, i) = Cardinality(F) + Cardinality(P)
  <2>1. Count(InodeMap, i) = Cardinality(({0} \X F) \cup ({1} \X P))
    BY <1>3, InodePlaces DEF Count
  <2>2. QED BY <1>5, <1>7, <1>8, <2>1
<1>10. QED BY <1>9 DEF F, P

\* The references of an inode are its open files and the opens in progress, for
\* any number of them, as long as no handler cut off a call or took the wrong
\* inode for the one of a broken file.
THEOREM InodesReferenced == Spec => []InodeRefs
<1>1. Dropping => InodeRefs BY InodesCounted DEF Dropping, InodeInv, InodeRefs
<1>2. Init => Dropping BY InitInodes
<1>3. Shape /\ Counted /\ Dropping /\ [Next]_vars => Dropping' BY NextInodes
<1>4. QED BY <1>1, <1>2, <1>3, CountedCorrect, PTL DEF Spec

-----------------------------------------------------------------------------
(* All counts. *)

Capped == ops \in 0..MaxOps /\ faults \in 0..MaxFault

\* The caps on calls and on memory errors are kept by the guards.
LEMMA CapsKept == Capped /\ [Next]_vars => Capped'
<1> SUFFICES ASSUME Capped, [Next]_vars PROVE Capped'
  OBVIOUS
<1>1. MaxOps \in Nat /\ MaxFault \in Nat BY FilesAssumption
<1>2. ops' = ops \/ (ops < MaxOps /\ ops' = ops + 1)
  <2>1. CASE UNCHANGED vars BY <2>1 DEF vars, bounds
  <2>2. ASSUME NEW p \in Proc, ProcNext(p) PROVE ops' = ops
    BY <2>2 DEF ProcNext, Pipealloc, PipeFds, OpenAlloc, OpenFd, ExitLoop, Fileclose, Pipeclose,
                Piperead, Pipewrite, FinishFileRecovery, bounds
  <2>3. ASSUME NEW p \in Proc, SysPipe(p) \/ PipeHit(p) \/ FileHit(p) \/ Exit(p)
        PROVE  ops' = ops \/ (ops < MaxOps /\ ops' = ops + 1)
    BY <2>3 DEF SysPipe, PipeHit, FileHit, Exit, StartCall
  <2>4. ASSUME NEW p \in Proc, NEW i \in Inode, SysOpen(p, i) PROVE ops < MaxOps /\ ops' = ops + 1
    BY <2>4 DEF SysOpen, StartCall
  <2>5. ASSUME NEW p \in Proc, NEW d \in Fd, SysDup(p, d) \/ SysClose(p, d) \/ FileHitCall(p, d)
        PROVE  ops < MaxOps /\ ops' = ops + 1
    BY <2>5 DEF SysDup, SysClose, FileHitCall, StartCall
  <2>6. ASSUME NEW p \in Proc, NEW d \in Fd, NEW n \in 1..MaxWrite, SysRw(p, d, n)
        PROVE  ops < MaxOps /\ ops' = ops + 1
    BY <2>6 DEF SysRw, StartCall
  <2>7. ASSUME NEW p \in Proc, NEW q \in Proc, Fork(p, q) \/ Kill(p, q)
        PROVE  ops < MaxOps /\ ops' = ops + 1
    BY <2>7 DEF Fork, Kill, StartCall
  <2>8. QED BY <2>1, <2>2, <2>3, <2>4, <2>5, <2>6, <2>7 DEF Next
<1>3. faults' = faults \/ (faults < MaxFault /\ faults' = faults + 1)
  <2>1. CASE UNCHANGED vars BY <2>1 DEF vars, bounds
  <2>2. ASSUME NEW p \in Proc, ProcNext(p) PROVE faults' = faults
    BY <2>2 DEF ProcNext, Pipealloc, PipeFds, OpenAlloc, OpenFd, ExitLoop, Fileclose, Pipeclose,
                Piperead, Pipewrite, FinishFileRecovery, bounds
  <2>3. ASSUME NEW p \in Proc, PipeHit(p) \/ FileHit(p) \/ \E d \in Fd : FileHitCall(p, d)
        PROVE  faults < MaxFault /\ faults' = faults + 1
    BY <2>3 DEF PipeHit, FileHit, FileHitCall, StartFileRecovery
  <2>4. ASSUME NEW p \in Proc,
               \/ SysPipe(p) \/ Exit(p)
               \/ \E i \in Inode : SysOpen(p, i)
               \/ \E d \in Fd : SysDup(p, d) \/ SysClose(p, d)
               \/ \E d \in Fd, n \in 1..MaxWrite : SysRw(p, d, n)
               \/ \E q \in Proc : Fork(p, q) \/ Kill(p, q)
        PROVE  faults' = faults
    BY <2>4 DEF SysPipe, Exit, SysOpen, SysDup, SysClose, SysRw, Fork, Kill
  <2>5. QED BY <2>1, <2>2, <2>3, <2>4 DEF Next
<1>4. QED BY <1>1, <1>2, <1>3 DEF Capped

\* All counts of the file table, of the pipes and of the inodes are exact (kernel/file.c,
\* pipe.c, and the recovery handlers of struct file and struct pipe).
THEOREM AllCountsExact == Spec => []CountsExact
<1>1. Init => Capped BY FilesAssumption DEF Init, Capped
<1>2. Spec => []Capped BY <1>1, CapsKept, PTL DEF Spec
<1>3. Shape /\ Capped => TypeOK
  BY DEF Capped, Shape, Types, TypeOK, FileRec, PipeRec, EndRec
<1>4. TypeOK /\ RefExact /\ EndsExact /\ InodeRefs => CountsExact BY DEF CountsExact
<1>5. QED BY <1>2, <1>3, <1>4, ShapeCorrect, ReferencesCounted, EndsOpen, InodesReferenced, PTL
=============================================================================
