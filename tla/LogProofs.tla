----------------------------- MODULE LogProofs -----------------------------
(* The redo log implements an atomic disk, for every number of processes,  *)
(* blocks and values and every size of the log: begin_op's reservation is  *)
(* sound, pins match the header, and a crash at any point loses all of the *)
(* system calls since the last commit or none of them.  The second part    *)
(* proves it of the log with its recovery handler: it gives up one system  *)
(* call, outstanding stays exact, the replicas stay in sync and the disk   *)
(* stays atomic, for memory errors at the accesses that RepairedPoints     *)
(* lists.                                                                  *)
EXTENDS LogRecovery, FiniteSetTheorems, TLAPS

-----------------------------------------------------------------------------
(* Who is active, who commits. *)

Active == {p \in Proc : pc[p] = "op"}
\* From the end_op that sets committing to its last part.
CommitterPc == {"docommit", "finish"} \cup CommitPc

\* At most one process commits, while committing is set and no call is active.
Solo ==
    /\ boot # "up" => \A p \in Proc : pc[p] = "idle"
    /\ committing => Active = {}
    /\ \A p \in Proc : pc[p] \in CommitterPc => committing
    /\ \A p, q \in Proc : pc[p] \in CommitterPc /\ pc[q] \in CommitterPc => p = q

\* The count is exact, and the replicas follow struct log.
CountInv ==
    /\ outstanding = Cardinality(Active)
    /\ dup_outstanding = outstanding /\ dup_lhdr = lh

\* A panic is the one of log_write, and only for the on-disk log's size.
PanicInv == halted => Len(lh) >= Nlog - 1

\* begin_op's reservation, which a panic leaves in place.
SpaceInv == Len(lh) + Reserved <= LOGSIZE

\* What the provers need of the control.
ControlInv == TypeOK /\ Solo /\ CountInv /\ SpaceInv /\ PanicInv

-----------------------------------------------------------------------------
(* Header and pins. *)

Distinct(s) == \A i, j \in 1..Len(s) : s[i] = s[j] => i = j

\* install_trans has unpinned b.
Unpinned(b) == \E p \in Proc : /\ pc[p] \in {"install", "reset"}
                               /\ \E i \in 1..Len(lh) : i < tail /\ lh[i] = b

\* The headers name no block twice, and install_trans handles all of them.
Shape ==
    /\ Distinct(lh) /\ Distinct(head)
    /\ \A p \in Proc : pc[p] = "reset" => tail > Len(lh)
    /\ \A p \in Proc : pc[p] = "erase" => lh = <<>>

PinsInv ==
    /\ Shape
    /\ crashes <= MaxCrash
    /\ crashes = 0 => boot = "up"
    /\ crashes = 0 =>
         \A b \in Block : pins[b] = IF InHeader(b, lh) /\ ~Unpinned(b) THEN 1 ELSE 0

-----------------------------------------------------------------------------
(* Contents. *)

\* The log holds the cached contents of the first n - 1 blocks of h,
Logged(h, n) == \A i \in 1..Len(h) : i < n => logBlocks[i] = cache[h[i]]
\* and so do their homes.
Installed(h, n) == \A i \in 1..Len(h) : i < n => disk[h[i]] = logBlocks[i]

\* The header on disk while the system runs.
HeadInv ==
    /\ head # <<>> => committing
    /\ \/ head = <<>>
       \/ head = lh /\ Logged(lh, Len(lh) + 1)
       \/ Installed(head, Len(head) + 1) /\ \E p \in Proc : pc[p] = "erase"

\* Where a committing process is, and what it has written by then.
PhaseInv(p) ==
    /\ pc[p] = "write_log" => Logged(lh, tail)
    /\ pc[p] = "write_head" => Logged(lh, Len(lh) + 1)
    /\ pc[p] \in {"install", "reset"} => head = lh /\ Installed(lh, tail)
    /\ pc[p] = "finish" => head = <<>>

UpInv == ~halted =>
    /\ \A b \in Block : ~InHeader(b, lh) => cache[b] = disk[b]
    /\ HeadInv
    /\ \A p \in Proc : PhaseInv(p)

BootInv ==
    /\ cache = disk
    /\ boot = "read" => tail = 1
    /\ boot = "install" => lh = head /\ Installed(lh, tail)
    /\ boot = "reset" => lh = head /\ Installed(lh, Len(lh) + 1)
    /\ boot = "erase" => lh = <<>> /\ Installed(head, Len(head) + 1)

DiskInv == (boot = "up" => UpInv) /\ (boot # "up" => BootInv)

IInv == ControlInv /\ PinsInv /\ DiskInv

-----------------------------------------------------------------------------
(* Sizes. *)

\* The headers that fit.
LEMMA HeaderType ==
    /\ <<>> \in Header /\ Len(<<>>) = 0
    /\ \A s \in Header : s \in Seq(Block) /\ Len(s) \in Nat /\ Len(s) <= LOGSIZE
    /\ \A s \in Header : \A i \in 1..Len(s) : s[i] \in Block /\ i \in 1..LOGSIZE
    /\ \A s \in Header : Len(s) = 0 => s = <<>>
BY SizeAssumption DEF Header

\* log_write's new entry.
LEMMA AppendType ==
    ASSUME NEW s \in Header, Len(s) < LOGSIZE, NEW b \in Block
    PROVE  /\ Append(s, b) \in Header
           /\ Len(Append(s, b)) = Len(s) + 1
           /\ \A i \in 1..Len(s) : Append(s, b)[i] = s[i]
           /\ Append(s, b)[Len(s) + 1] = b
BY SizeAssumption DEF Header

\* The active calls are finitely many,
LEMMA ActiveFinite == IsFiniteSet(Active)
<1>1. Active \in SUBSET Proc BY DEF Active
<1>2. QED BY <1>1, ProcAssumption, FS_Subset

\* and so is what they may still write,
LEMMA RoomFinite == IsFiniteSet(Room) /\ Reserved \in Nat
<1>1. IsFiniteSet(1..MAXOPBLOCKS) BY SizeAssumption, FS_Interval
<1>2. IsFiniteSet(Proc \X (1..MAXOPBLOCKS)) BY <1>1, ProcAssumption, FS_Product
<1>3. Room \in SUBSET (Proc \X (1..MAXOPBLOCKS)) BY DEF Room
<1>4. IsFiniteSet(Room) BY <1>2, <1>3, FS_Subset
<1>5. QED BY <1>4, FS_CardinalityType DEF Reserved

\* also after a step.
LEMMA FiniteAfter == (IsFiniteSet(Active) /\ IsFiniteSet(Room) /\ Reserved \in Nat)'
<1>1. IsFiniteSet(Active) /\ IsFiniteSet(Room) /\ Reserved \in Nat
  BY ActiveFinite, RoomFinite
<1>2. QED BY <1>1, PTL

\* Every active call writes at most MAXOPBLOCKS blocks,
LEMMA RoomBound == Reserved <= Cardinality(Active) * MAXOPBLOCKS
<1>1. IsFiniteSet(1..MAXOPBLOCKS) /\ Cardinality(1..MAXOPBLOCKS) = MAXOPBLOCKS
  BY SizeAssumption, FS_Interval
<1>2. /\ IsFiniteSet(Active \X (1..MAXOPBLOCKS))
      /\ Cardinality(Active \X (1..MAXOPBLOCKS)) = Cardinality(Active) * MAXOPBLOCKS
  BY <1>1, ActiveFinite, FS_Product
<1>3. Room \in SUBSET (Active \X (1..MAXOPBLOCKS))
  BY DEF Room, Active
<1>4. QED BY <1>2, <1>3, FS_Subset DEF Reserved

\* The same after a step.
LEMMA RoomBoundAfter == Reserved' <= Cardinality(Active') * MAXOPBLOCKS
<1>1. (Reserved <= Cardinality(Active) * MAXOPBLOCKS)' BY RoomBound, PTL
<1>2. QED BY <1>1

\* Who writes less and is active less reserves less.
LEMMA RoomShrinks ==
    ASSUME Room' \subseteq Room
    PROVE  Reserved' <= Reserved
<1>1. Room' \in SUBSET Room OBVIOUS
<1>2. QED BY <1>1, RoomFinite, FS_Subset DEF Reserved

\* The reservation is kept by steps that neither log nor reserve more.
LEMMA SpaceKept ==
    ASSUME TypeOK, TypeOK', SpaceInv, Room' \subseteq Room, Len(lh') <= Len(lh)
    PROVE  SpaceInv'
<1>1. Len(lh) \in Nat /\ Len(lh') \in Nat BY HeaderType DEF TypeOK
<1>2. Reserved' <= Reserved BY RoomShrinks
<1>3. QED BY <1>1, <1>2, RoomFinite, FiniteAfter, SizeAssumption DEF SpaceInv

\* The log's count of active calls is exact, so nobody is active at zero.
LEMMA NobodyActive ==
    ASSUME CountInv
    PROVE  outstanding = 0 <=> Active = {}
BY ActiveFinite, FS_EmptySet DEF CountInv

-----------------------------------------------------------------------------
(* Control: types, counts, the reservation. *)

\* The state after mkfs.
LEMMA InitControl == Init => ControlInv
<1> SUFFICES ASSUME Init PROVE ControlInv
  OBVIOUS
<1>1. TypeOK
  <2>1. /\ disk \in [Block -> Val] /\ cache \in [Block -> Val]
        /\ logBlocks \in [1..LOGSIZE -> Val]
    BY ValAssumption DEF Init
  <2>2. head \in Header /\ lh \in Header /\ dup_lhdr \in Header
    BY HeaderType DEF Init
  <2>3. /\ pins \in [Block -> Int] /\ written \in [Proc -> 0..MAXOPBLOCKS]
        /\ tail \in Nat \ {0}
    BY SizeAssumption DEF Init
  <2>4. pc \in [Proc -> Pc] BY DEF Init, Pc
  <2>5. QED BY <2>1, <2>2, <2>3, <2>4 DEF Init, TypeOK
<1>2. Active = {} BY DEF Init, Active
<1>3. Solo BY <1>2 DEF Init, Solo, CommitterPc, CommitPc
<1>4. CountInv BY <1>2, FS_EmptySet DEF Init, CountInv
<1>5. Reserved = 0
  <2>1. Room = {} BY DEF Init, Room
  <2>2. QED BY <2>1, FS_EmptySet DEF Reserved
<1>6. SpaceInv BY <1>5, SizeAssumption DEF Init, SpaceInv
<1>7. QED BY <1>1, <1>3, <1>4, <1>6 DEF Init, ControlInv, PanicInv

\* The call of a system call that has no effect on the log yet.
LEMMA CallMoves ==
    ASSUME TypeOK, Solo, NEW p \in Proc, Call(p)
    PROVE  TypeOK' /\ Solo' /\ Active' = Active
<1>1. TypeOK'
  <2>1. pc' \in [Proc -> Pc] BY DEF Call, Goto, TypeOK, Pc
  <2>2. written' \in [Proc -> 0..MAXOPBLOCKS] BY SizeAssumption DEF Call, TypeOK
  <2>3. QED BY <2>1, <2>2 DEF Call, TypeOK, onDisk, buffers, header, counts
<1>2. Active' = Active BY DEF Call, At, Goto, Active, TypeOK
<1>3. Solo'
  BY <1>2 DEF Call, At, Goto, Solo, CommitterPc, CommitPc, TypeOK
<1>4. QED BY <1>1, <1>2, <1>3

\* begin_op, log_write and end_op keep the control invariant.
LEMMA CallControl ==
    ASSUME ControlInv, NEW p \in Proc, Call(p)
    PROVE  ControlInv'
<1> USE DEF ControlInv
<1>1. TypeOK' /\ Solo' /\ Active' = Active BY CallMoves
<1>2. Room' \subseteq Room
  BY DEF Call, At, Goto, Room, TypeOK
<1>3. SpaceInv'
  <2>1. Len(lh') <= Len(lh) BY HeaderType DEF Call, header, TypeOK
  <2>2. QED BY <1>1, <1>2, <2>1, SpaceKept
<1>4. QED BY <1>1, <1>3 DEF Call, CountInv, PanicInv, counts, header

\* begin_op: a call is admitted only while nobody commits;
LEMMA BeginMoves ==
    ASSUME TypeOK, Solo, NEW p \in Proc, BeginOp(p)
    PROVE  /\ TypeOK' /\ Solo'
           /\ \/ (committing \/ NoSpace) /\ Active' = Active /\ UNCHANGED counts
              \/ /\ ~(committing \/ NoSpace) /\ p \notin Active /\ Active' = Active \cup {p}
                 /\ outstanding' = outstanding + 1 /\ dup_outstanding' = dup_outstanding + 1
<1>0. pc[p] \in {"begin", "woken"} /\ boot = "up" /\ ~halted
  BY DEF BeginOp, At
<1>1. TypeOK'
  <2>1. pc' \in [Proc -> Pc] BY DEF BeginOp, Goto, TypeOK, Pc, WaitPc
  <2>2. outstanding' \in Nat /\ dup_outstanding' \in Nat BY DEF BeginOp, counts, TypeOK
  <2>3. QED BY <2>1, <2>2 DEF BeginOp, TypeOK, onDisk, buffers, header, bounds
<1>2. CASE committing \/ NoSpace
  <2>1. Active' = Active BY <1>0, <1>2 DEF BeginOp, Goto, Active, TypeOK
  <2>2. Solo'
    BY <1>0, <1>2, <2>1 DEF BeginOp, Goto, Solo, CommitterPc, CommitPc, TypeOK
  <2>3. QED BY <1>1, <1>2, <2>1, <2>2 DEF BeginOp
<1>3. CASE ~(committing \/ NoSpace)
  <2>1. Active' = Active \cup {p} BY <1>0, <1>3 DEF BeginOp, Goto, Active, TypeOK
  <2>2. p \notin Active BY <1>0 DEF Active
  <2>3. ~committing /\ ~committing' /\ boot' = "up" BY <1>0, <1>3 DEF BeginOp
  <2>4. \A q \in Proc : pc'[q] \in CommitterPc => pc[q] \in CommitterPc
    BY <1>0, <1>3 DEF BeginOp, Goto, CommitterPc, CommitPc, TypeOK
  <2>5. Solo' BY <2>3, <2>4 DEF Solo
  <2>6. QED BY <1>1, <1>3, <2>1, <2>2, <2>5 DEF BeginOp
<1>4. QED BY <1>2, <1>3

\* and then it finds its MAXOPBLOCKS blocks unreserved.
LEMMA BeginControl ==
    ASSUME ControlInv, NEW p \in Proc, BeginOp(p)
    PROVE  ControlInv'
<1> USE DEF ControlInv
<1>1. TypeOK' /\ Solo' BY BeginMoves
<1>2. CASE committing \/ NoSpace
  <2>1. Active' = Active BY <1>2, BeginMoves
  <2>2. Room' \subseteq Room BY <1>2 DEF BeginOp, At, Goto, Room, TypeOK
  <2>3. SpaceInv'
    <3>1. Len(lh') <= Len(lh) BY HeaderType DEF BeginOp, header, TypeOK
    <3>2. QED BY <1>1, <2>2, <3>1, SpaceKept
  <2>4. QED
    BY <1>1, <1>2, <2>1, <2>3 DEF BeginOp, CountInv, PanicInv, counts, header
<1>3. CASE ~(committing \/ NoSpace)
  <2>1. Active' = Active \cup {p} /\ p \notin Active BY <1>3, BeginMoves
  <2>2. CountInv'
    <3>1. Cardinality(Active') = Cardinality(Active) + 1
      BY <2>1, ActiveFinite, FS_AddElement
    <3>2. QED BY <1>3, <3>1 DEF BeginOp, CountInv, header
  <2>3. SpaceInv'
    <3>1. Reserved' <= Cardinality(Active') * MAXOPBLOCKS BY RoomBoundAfter
    <3>2. Cardinality(Active') = outstanding + 1 BY <1>3, <2>2 DEF BeginOp, CountInv
    <3>3. Reserved' <= (outstanding + 1) * MAXOPBLOCKS BY <3>1, <3>2
    <3>4. Len(lh) + (outstanding + 1) * MAXOPBLOCKS <= LOGSIZE
      BY <1>3, SizeAssumption, HeaderType DEF NoSpace, TypeOK
    <3>5. Reserved' \in Nat /\ (outstanding + 1) * MAXOPBLOCKS \in Nat /\ Len(lh) \in Nat
      BY FiniteAfter, SizeAssumption, HeaderType DEF TypeOK
    <3>6. lh' = lh BY DEF BeginOp, header
    <3>7. QED BY <3>3, <3>4, <3>5, <3>6, SizeAssumption DEF SpaceInv
  <2>4. QED BY <1>1, <2>2, <2>3 DEF BeginOp, PanicInv, header
<1>4. QED BY <1>2, <1>3

\* log_write: at most one entry is added to both headers;
LEMMA WriteMoves ==
    ASSUME TypeOK, Solo, dup_lhdr = lh, NEW p \in Proc, NEW b \in Block, NEW v \in Val,
           LogWrite(p, b, v)
    PROVE  /\ TypeOK' /\ Solo' /\ Active' = Active /\ UNCHANGED counts /\ dup_lhdr' = lh'
           /\ Len(lh') <= Len(lh) + 1
<1>0. /\ boot' = boot /\ pc' = pc /\ committing' = committing /\ UNCHANGED counts
      /\ written[p] < MAXOPBLOCKS /\ written' = [written EXCEPT ![p] = @ + 1]
  BY DEF LogWrite, At
<1>1. Len(lh) \in Nat /\ Len(lh) <= LOGSIZE /\ written[p] \in 0..MAXOPBLOCKS
  BY HeaderType DEF TypeOK
<1>2. Active' = Active BY <1>0 DEF Active
<1>3. \/ UNCHANGED <<lh, dup_lhdr, pins>>
      \/ /\ Len(lh) < LOGSIZE /\ pins' = [pins EXCEPT ![b] = @ + 1]
         /\ lh' = Append(lh, b) /\ dup_lhdr' = Append(dup_lhdr, b)
  <2>1. ~(Len(lh) >= LOGSIZE) => Len(lh) < LOGSIZE BY <1>1, SizeAssumption
  <2>2. QED BY <2>1 DEF LogWrite, header
<1>4. lh' \in Header /\ Len(lh') <= Len(lh) + 1 /\ dup_lhdr' = lh'
  <2>1. CASE lh' = lh BY <1>1, <1>3, <2>1 DEF TypeOK
  <2>2. CASE Len(lh) < LOGSIZE /\ lh' = Append(lh, b)
    BY <1>1, <1>3, <2>2, AppendType DEF TypeOK
  <2>3. QED BY <1>3, <2>1, <2>2
<1>5. TypeOK'
  <2>1. cache' \in [Block -> Val] BY DEF LogWrite, TypeOK
  <2>2. written' \in [Proc -> 0..MAXOPBLOCKS]
    BY <1>0, <1>1, SizeAssumption DEF TypeOK
  <2>3. pins' \in [Block -> Int] BY <1>3 DEF TypeOK
  <2>4. halted' \in BOOLEAN BY DEF LogWrite, Halt, TypeOK
  <2>5. QED
    BY <1>0, <1>4, <2>1, <2>2, <2>3, <2>4 DEF LogWrite, TypeOK, onDisk, counts, bounds
<1>6. QED BY <1>0, <1>2, <1>4, <1>5 DEF Solo

\* the reservation pays for it, so only the size of the log on disk can make
\* log_write panic.
LEMMA WriteControl ==
    ASSUME ControlInv, NEW p \in Proc, NEW b \in Block, NEW v \in Val, LogWrite(p, b, v)
    PROVE  ControlInv'
<1> USE DEF ControlInv
<1>0. /\ pc[p] = "op" /\ ~halted /\ pc' = pc
      /\ written[p] < MAXOPBLOCKS /\ written' = [written EXCEPT ![p] = @ + 1]
  BY DEF LogWrite, At
<1>1. Len(lh) \in Nat /\ Len(lh) <= LOGSIZE /\ written[p] \in 0..MAXOPBLOCKS
  BY HeaderType DEF TypeOK
<1>2. /\ TypeOK' /\ Solo' /\ Active' = Active /\ UNCHANGED counts /\ dup_lhdr' = lh'
      /\ Len(lh') <= Len(lh) + 1
  BY WriteMoves DEF CountInv
<1>3. Reserved' = Reserved - 1
  <2>1. <<p, written[p] + 1>> \in Room BY <1>0, <1>1, SizeAssumption DEF Room
  <2>2. ASSUME NEW s \in Proc \X (1..MAXOPBLOCKS)
        PROVE  s \in Room' <=> s \in Room \ {<<p, written[p] + 1>>}
    <3>1. CASE s[1] = p
      <4>1. written'[p] = written[p] + 1 BY <1>0 DEF TypeOK
      <4>2. s[2] \in Int /\ (s = <<p, written[p] + 1>> <=> s[2] = written[p] + 1)
        BY <3>1, SizeAssumption
      <4>3. QED BY <1>0, <1>1, <3>1, <4>1, <4>2 DEF Room
    <3>2. CASE s[1] # p
      <4>1. written'[s[1]] = written[s[1]] /\ s # <<p, written[p] + 1>>
        BY <1>0, <3>2 DEF TypeOK
      <4>2. QED BY <1>0, <4>1 DEF Room
    <3>3. QED BY <3>1, <3>2
  <2>3. Room' = Room \ {<<p, written[p] + 1>>} BY <2>2 DEF Room
  <2>4. Cardinality(Room') = Cardinality(Room) - 1
    BY <2>1, <2>3, RoomFinite, FS_RemoveElement
  <2>5. QED BY <2>4 DEF Reserved
<1>4. Len(lh) < LOGSIZE
  BY <1>1, <1>3, RoomFinite, FiniteAfter, SizeAssumption DEF SpaceInv
<1>5. outstanding >= 1
  <2>1. Active # {} BY <1>0 DEF Active
  <2>2. outstanding # 0 BY <2>1, NobodyActive
  <2>3. QED BY <2>2 DEF TypeOK
<1>6. PanicInv'
  <2>1. ~(Len(lh) >= LOGSIZE) /\ ~(outstanding < 1)
    BY <1>1, <1>4, <1>5, SizeAssumption DEF TypeOK
  <2>2. halted' => Len(lh) >= Nlog - 1 /\ lh' = lh
    BY <1>0, <2>1 DEF LogWrite, Halt, header
  <2>3. QED BY <2>2 DEF PanicInv
<1>7. SpaceInv'
  <2>1. Len(lh') \in Nat BY <1>2, HeaderType DEF TypeOK
  <2>2. QED BY <1>1, <1>2, <1>3, <2>1, RoomFinite, SizeAssumption DEF SpaceInv
<1>8. QED BY <1>2, <1>6, <1>7 DEF CountInv, counts

\* end_op: nobody commits while a call ends, so the panic is not reached.
LEMMA EndMoves ==
    ASSUME TypeOK, Solo, NEW p \in Proc, EndOp(p)
    PROVE  /\ p \in Active /\ Active' = Active \ {p} /\ ~committing /\ halted' = halted
           /\ pc' \in [Proc -> Pc] /\ committing' \in BOOLEAN
           /\ (outstanding = 1 => Active' = {}) => Solo'
<1>0. pc[p] = "op" /\ boot = "up" /\ ~halted /\ boot' = boot
  BY DEF EndOp, At
<1>1. p \in Active /\ ~committing BY <1>0 DEF Active, Solo
<1>2. /\ halted' = halted
      /\ \/ outstanding = 1 /\ committing' = TRUE /\ pc' = [pc EXCEPT ![p] = "docommit"]
         \/ outstanding # 1 /\ committing' = FALSE /\ WakeAndGoto(p, "idle")
  BY <1>0, <1>1 DEF EndOp, Goto, TypeOK
<1>3. Active' = Active \ {p}
  BY <1>2 DEF Active, WakeAndGoto, TypeOK
<1>4. pc' \in [Proc -> Pc] BY <1>2 DEF WakeAndGoto, TypeOK, Pc, WaitPc
<1>5. ASSUME outstanding = 1 => Active' = {} PROVE Solo'
  <2>0. \A q \in Proc : pc[q] \notin CommitterPc BY <1>1 DEF Solo
  <2>1. CASE outstanding = 1
    <3>1. \A q \in Proc : pc'[q] \in CommitterPc => q = p
      BY <1>2, <2>0, <2>1 DEF TypeOK
    <3>2. QED BY <1>0, <1>2, <1>5, <2>1, <3>1 DEF Solo
  <2>2. CASE outstanding # 1
    <3>1. \A q \in Proc : pc'[q] \notin CommitterPc
      BY <1>2, <2>0, <2>2 DEF WakeAndGoto, CommitterPc, CommitPc
    <3>2. QED BY <1>0, <1>2, <2>2, <3>1 DEF Solo
  <2>3. QED BY <2>1, <2>2
<1>6. QED BY <1>1, <1>2, <1>3, <1>4, <1>5

\* A call that ends while others are active leaves its reservation to them; the
\* last one is alone, and commits.
LEMMA EndControl ==
    ASSUME ControlInv, NEW p \in Proc, EndOp(p)
    PROVE  ControlInv'
<1> USE DEF ControlInv
<1>0. /\ outstanding' = outstanding - 1 /\ dup_outstanding' = dup_outstanding - 1
      /\ UNCHANGED <<onDisk, buffers, header, tail, written, boot, bounds>>
  BY DEF EndOp
<1>1. /\ p \in Active /\ Active' = Active \ {p} /\ halted' = halted
      /\ pc' \in [Proc -> Pc] /\ committing' \in BOOLEAN
      /\ (outstanding = 1 => Active' = {}) => Solo'
  BY EndMoves
<1>2. outstanding \in Nat /\ outstanding >= 1
  <2>1. outstanding # 0 BY <1>1, NobodyActive
  <2>2. QED BY <2>1 DEF TypeOK
<1>3. Cardinality(Active') = Cardinality(Active) - 1
  BY <1>1, ActiveFinite, FS_RemoveElement
<1>4. CountInv' BY <1>0, <1>3 DEF CountInv, header
<1>5. TypeOK'
  <2>1. outstanding' \in Nat /\ dup_outstanding' \in Nat BY <1>0, <1>2 DEF CountInv
  <2>2. QED BY <1>0, <1>1, <2>1 DEF TypeOK, onDisk, buffers, header, bounds
<1>6. outstanding = 1 => Active' = {}
  BY <1>0, <1>4, FiniteAfter, FS_EmptySet DEF CountInv
<1>7. SpaceInv'
  <2>1. Room' \subseteq Room BY <1>0, <1>1 DEF Room, Active
  <2>2. Len(lh') <= Len(lh) BY <1>0, HeaderType DEF header, TypeOK
  <2>3. QED BY <1>5, <2>1, <2>2, SpaceKept
<1>8. QED BY <1>0, <1>1, <1>4, <1>5, <1>6, <1>7 DEF PanicInv, header

\* A move of the committing process, inside end_op: nobody else's concern.
LEMMA CommitterMoves ==
    ASSUME TypeOK, Solo, TypeOK', NEW p \in Proc, pc[p] \in CommitterPc,
           pc' = pc \/ \E l \in CommitterPc : pc' = [pc EXCEPT ![p] = l],
           UNCHANGED <<committing, boot>>
    PROVE  Solo' /\ Active' = Active
<1>1. \A q \in Proc : pc'[q] = pc[q] \/ (q = p /\ pc'[q] \in CommitterPc)
  BY DEF TypeOK
<1>2. Active' = Active
  BY <1>1 DEF Active, CommitterPc, CommitPc
<1>3. \A q \in Proc : pc'[q] \in CommitterPc <=> pc[q] \in CommitterPc BY <1>1
<1>4. boot' = "up" BY DEF Solo, CommitterPc, CommitPc
<1>5. QED BY <1>2, <1>3, <1>4 DEF Solo

\* install_trans, one block: what it writes is of its type.
LEMMA InstallType ==
    ASSUME TypeOK, InstallBlock
    PROVE  /\ cache' \in [Block -> Val] /\ disk' \in [Block -> Val]
           /\ pins' \in [Block -> Int] /\ tail' \in Nat \ {0}
           /\ tail \in 1..Len(lh) /\ lh[tail] \in Block
<1>1. tail \in 1..Len(lh) BY HeaderType DEF InstallBlock, TypeOK
<1>2. lh[tail] \in Block /\ logBlocks[tail] \in Val BY <1>1, HeaderType DEF TypeOK
<1>3. cache' \in [Block -> Val] /\ disk' \in [Block -> Val]
  BY <1>2 DEF InstallBlock, TypeOK
<1>4. pins' \in [Block -> Int] BY <1>2 DEF InstallBlock, TypeOK
<1>5. tail' \in Nat \ {0} BY DEF InstallBlock, TypeOK
<1>6. QED BY <1>1, <1>2, <1>3, <1>4, <1>5

\* commit()
LEMMA CommitMoves ==
    ASSUME TypeOK, Solo, dup_lhdr = lh, NEW p \in Proc, EnterCommit(p) \/ CommitStep(p)
    PROVE  /\ TypeOK' /\ Solo' /\ Active' = Active /\ dup_lhdr' = lh' /\ Len(lh') <= Len(lh)
           /\ UNCHANGED <<counts, committing, written, boot, halted>>
<1>0. Len(lh) \in Nat /\ <<>> \in Header /\ Len(<<>>) = 0
  BY HeaderType DEF TypeOK
<1>1. CASE EnterCommit(p)
  <2>1. TypeOK'
    BY <1>1 DEF EnterCommit, Goto, TypeOK, Pc, CommitPc, onDisk, buffers, header, counts, bounds
  <2>2. /\ pc[p] \in CommitterPc
        /\ pc' = pc \/ \E l \in CommitterPc : pc' = [pc EXCEPT ![p] = l]
    BY <1>1 DEF EnterCommit, At, Goto, CommitterPc, CommitPc
  <2>3. QED BY <1>0, <1>1, <2>1, <2>2, CommitterMoves DEF EnterCommit, At, header
<1>2. CASE Commit(p)
  <2>1. pc' \in [Proc -> Pc] BY <1>2 DEF Commit, Goto, TypeOK, Pc, CommitPc
  <2>2. TypeOK'
    BY <1>2, <2>1 DEF Commit, TypeOK, onDisk, buffers, header, counts, bounds
  <2>3. /\ pc[p] \in CommitterPc
        /\ pc' = pc \/ \E l \in CommitterPc : pc' = [pc EXCEPT ![p] = l]
    BY <1>2 DEF Commit, At, Goto, CommitterPc, CommitPc
  <2>4. QED BY <1>0, <1>2, <2>2, <2>3, CommitterMoves DEF Commit, At, header
<1>3. CASE WriteLog(p)
  <2>1. pc' \in [Proc -> Pc] BY <1>3 DEF WriteLog, Goto, TypeOK, Pc, CommitPc
  <2>2. logBlocks' \in [1..LOGSIZE -> Val] /\ tail' \in Nat \ {0}
    <3>1. CASE tail <= Len(lh)
      <4>1. tail \in 1..Len(lh) BY <1>0, <3>1 DEF TypeOK
      <4>2. cache[lh[tail]] \in Val BY <4>1, HeaderType DEF TypeOK
      <4>3. /\ logBlocks' = [logBlocks EXCEPT ![tail] = cache[lh[tail]]]
            /\ tail' = tail + 1
        BY <1>3, <3>1 DEF WriteLog
      <4>4. logBlocks' \in [1..LOGSIZE -> Val] BY <4>2, <4>3 DEF TypeOK
      <4>5. tail \in Nat \ {0} BY DEF TypeOK
      <4>6. QED BY <4>3, <4>4, <4>5
    <3>2. CASE ~(tail <= Len(lh)) BY <1>3, <3>2 DEF WriteLog, TypeOK
    <3>3. QED BY <3>1, <3>2
  <2>3. TypeOK'
    BY <1>3, <2>1, <2>2 DEF WriteLog, TypeOK, buffers, header, counts, bounds
  <2>4. /\ pc[p] \in CommitterPc
        /\ pc' = pc \/ \E l \in CommitterPc : pc' = [pc EXCEPT ![p] = l]
    BY <1>3 DEF WriteLog, At, Goto, CommitterPc, CommitPc
  <2>5. QED BY <1>0, <1>3, <2>3, <2>4, CommitterMoves DEF WriteLog, At, header
<1>4. CASE WriteHead(p)
  <2>1. pc' \in [Proc -> Pc] BY <1>4 DEF WriteHead, Goto, TypeOK, Pc, CommitPc
  <2>2. TypeOK'
    BY <1>4, <2>1 DEF WriteHead, TypeOK, buffers, header, counts, bounds
  <2>3. /\ pc[p] \in CommitterPc
        /\ pc' = pc \/ \E l \in CommitterPc : pc' = [pc EXCEPT ![p] = l]
    BY <1>4 DEF WriteHead, At, Goto, CommitterPc, CommitPc
  <2>4. QED BY <1>0, <1>4, <2>2, <2>3, CommitterMoves DEF WriteHead, At, header
<1>5. CASE InstallTrans(p)
  <2>1. pc' \in [Proc -> Pc] BY <1>5 DEF InstallTrans, Goto, TypeOK, Pc, CommitPc
  <2>2. /\ cache' \in [Block -> Val] /\ disk' \in [Block -> Val]
        /\ pins' \in [Block -> Int] /\ tail' \in Nat \ {0}
    BY <1>5, InstallType DEF InstallTrans, TypeOK
  <2>3. TypeOK'
    BY <1>5, <2>1, <2>2 DEF InstallTrans, TypeOK, header, counts, bounds
  <2>4. /\ pc[p] \in CommitterPc
        /\ pc' = pc \/ \E l \in CommitterPc : pc' = [pc EXCEPT ![p] = l]
    BY <1>5 DEF InstallTrans, At, Goto, CommitterPc, CommitPc
  <2>5. QED BY <1>0, <1>5, <2>3, <2>4, CommitterMoves DEF InstallTrans, At, header
<1>6. CASE ResetHeader(p)
  <2>1. pc' \in [Proc -> Pc] BY <1>6 DEF ResetHeader, Goto, TypeOK, Pc, CommitPc
  <2>2. TypeOK'
    BY <1>0, <1>6, <2>1 DEF ResetHeader, TypeOK, onDisk, buffers, counts, bounds
  <2>3. /\ pc[p] \in CommitterPc
        /\ pc' = pc \/ \E l \in CommitterPc : pc' = [pc EXCEPT ![p] = l]
    BY <1>6 DEF ResetHeader, At, Goto, CommitterPc, CommitPc
  <2>4. QED BY <1>0, <1>6, <2>2, <2>3, CommitterMoves DEF ResetHeader, At
<1>7. CASE EraseHead(p)
  <2>1. pc' \in [Proc -> Pc] BY <1>7 DEF EraseHead, Goto, TypeOK, Pc, CommitPc
  <2>2. TypeOK'
    BY <1>7, <2>1 DEF EraseHead, TypeOK, buffers, header, counts, bounds
  <2>3. /\ pc[p] \in CommitterPc
        /\ pc' = pc \/ \E l \in CommitterPc : pc' = [pc EXCEPT ![p] = l]
    BY <1>7 DEF EraseHead, At, Goto, CommitterPc, CommitPc
  <2>4. QED BY <1>0, <1>7, <2>2, <2>3, CommitterMoves DEF EraseHead, At, header
<1>8. QED BY <1>1, <1>2, <1>3, <1>4, <1>5, <1>6, <1>7 DEF CommitStep

\* commit()'s disk writes keep the control invariant.
LEMMA CommitControl ==
    ASSUME ControlInv, NEW p \in Proc, EnterCommit(p) \/ CommitStep(p)
    PROVE  ControlInv'
<1> USE DEF ControlInv
<1>1. /\ TypeOK' /\ Solo' /\ Active' = Active /\ dup_lhdr' = lh' /\ Len(lh') <= Len(lh)
      /\ UNCHANGED <<counts, committing, written, boot, halted>>
  BY CommitMoves DEF CountInv
<1>2. ~halted BY DEF EnterCommit, CommitStep, Commit, WriteLog, WriteHead, InstallTrans,
                     ResetHeader, EraseHead, At
<1>3. Room' \subseteq Room BY <1>1 DEF Room, Active
<1>4. QED BY <1>1, <1>2, <1>3, SpaceKept DEF CountInv, PanicInv, counts

\* The rest of end_op.
LEMMA FinishMoves ==
    ASSUME TypeOK, Solo, NEW p \in Proc, Finish(p)
    PROVE  TypeOK' /\ Solo' /\ Active' = Active
<1>1. pc[p] = "finish" /\ boot = "up" /\ pc[p] \in CommitterPc
  BY DEF Finish, At, CommitterPc
<1>2. Active' = Active BY <1>1 DEF Finish, WakeAndGoto, Active
<1>3. TypeOK'
  <2>1. pc' \in [Proc -> Pc] BY DEF Finish, WakeAndGoto, TypeOK, Pc, WaitPc
  <2>2. QED BY <2>1 DEF Finish, TypeOK, onDisk, buffers, header, counts, bounds
<1>4. \A q \in Proc : pc'[q] \notin CommitterPc
  BY <1>1 DEF Finish, WakeAndGoto, Solo, CommitterPc, CommitPc
<1>5. boot' = "up" /\ committing' = FALSE BY <1>1 DEF Finish
<1>6. QED BY <1>2, <1>3, <1>4, <1>5 DEF Solo

\* The end of a commit, where end_op wakes who waits, keeps it.
LEMMA FinishControl ==
    ASSUME ControlInv, NEW p \in Proc, Finish(p)
    PROVE  ControlInv'
<1> USE DEF ControlInv
<1>1. TypeOK' /\ Solo' /\ Active' = Active BY FinishMoves
<1>2. Room' \subseteq Room BY <1>1 DEF Finish, Room, Active
<1>3. Len(lh') <= Len(lh) BY HeaderType DEF Finish, header, TypeOK
<1>4. SpaceInv' BY <1>1, <1>2, <1>3, SpaceKept
<1>5. QED BY <1>1, <1>4 DEF Finish, CountInv, PanicInv, counts, header

\* Crashes, and recover_from_log: no process runs.
LEMMA BootMoves ==
    ASSUME TypeOK, Solo, dup_lhdr = lh, Crash \/ Boot
    PROVE  /\ TypeOK' /\ Solo' /\ Active' = {} /\ dup_lhdr' = lh'
           /\ \/ Crash /\ outstanding' = 0 /\ dup_outstanding' = 0 /\ halted' = FALSE
              \/ Boot /\ Active = {} /\ UNCHANGED counts /\ ~halted /\ ~halted'
<1>1. CASE Crash
  <2>1. pc' \in [Proc -> Pc] /\ written' \in [Proc -> 0..MAXOPBLOCKS]
    BY <1>1, SizeAssumption DEF Crash, Pc
  <2>2. pins' \in [Block -> Int] /\ tail' \in Nat \ {0} BY <1>1 DEF Crash
  <2>3. lh' \in Header /\ dup_lhdr' \in Header BY <1>1, HeaderType DEF Crash
  <2>4. outstanding' \in Nat /\ dup_outstanding' \in Nat /\ crashes' \in Nat
    BY <1>1 DEF Crash, TypeOK
  <2>5. TypeOK' BY <1>1, <2>1, <2>2, <2>3, <2>4 DEF Crash, TypeOK, onDisk
  <2>6. Active' = {} BY <1>1 DEF Crash, Active
  <2>7. Solo' BY <1>1, <2>6 DEF Crash, Solo, CommitterPc, CommitPc
  <2>8. QED BY <1>1, <2>5, <2>6, <2>7 DEF Crash
<1>2. CASE Boot
  <2>0. boot # "up" /\ ~halted BY <1>2 DEF Boot, ReadHead, BootInstall, BootReset, BootErase,
                                               Booting
  <2>1. \A q \in Proc : pc[q] = "idle" BY <2>0 DEF Solo
  <2>2. UNCHANGED <<pc, counts, committing, halted>> /\ dup_lhdr' = lh'
    BY <1>2 DEF Boot, ReadHead, BootInstall, BootReset, BootErase, header
  <2>3. TypeOK'
    <3>1. CASE ReadHead
      BY <3>1 DEF ReadHead, TypeOK, onDisk, buffers, counts, bounds
    <3>2. CASE BootInstall
      <4>1. /\ cache' \in [Block -> Val] /\ disk' \in [Block -> Val]
            /\ pins' \in [Block -> Int] /\ tail' \in Nat \ {0}
        BY <3>2, InstallType DEF BootInstall, TypeOK
      <4>2. boot' \in {"up", "read", "install", "reset", "erase"}
        BY <3>2 DEF BootInstall, TypeOK
      <4>3. QED BY <3>2, <4>1, <4>2 DEF BootInstall, TypeOK, header, counts, bounds
    <3>3. CASE BootReset
      BY <3>3, HeaderType DEF BootReset, TypeOK, onDisk, buffers, counts, bounds
    <3>4. CASE BootErase
      BY <3>4 DEF BootErase, TypeOK, buffers, header, counts, bounds
    <3>5. QED BY <1>2, <3>1, <3>2, <3>3, <3>4 DEF Boot
  <2>4. Active = {} /\ Active' = {} BY <2>1, <2>2 DEF Active
  <2>5. Solo' BY <2>1, <2>2, <2>4 DEF Solo, CommitterPc, CommitPc
  <2>6. QED BY <1>2, <2>0, <2>2, <2>3, <2>4, <2>5
<1>3. QED BY <1>1, <1>2

\* recover_from_log at boot keeps it.
LEMMA BootControl ==
    ASSUME ControlInv, Crash \/ Boot
    PROVE  ControlInv'
<1> USE DEF ControlInv
<1>1. /\ TypeOK' /\ Solo' /\ Active' = {} /\ dup_lhdr' = lh' /\ ~halted'
      /\ \/ outstanding' = 0 /\ dup_outstanding' = 0
         \/ Active = {} /\ UNCHANGED counts
  BY BootMoves DEF CountInv
<1>2. CountInv'
  BY <1>1, FS_EmptySet DEF CountInv, counts
<1>3. Reserved' = 0
  <2>1. Room' = {} BY <1>1 DEF Room, Active
  <2>2. QED BY <2>1, FS_EmptySet DEF Reserved
<1>4. SpaceInv' BY <1>1, <1>3, HeaderType, SizeAssumption DEF SpaceInv, TypeOK
<1>5. QED BY <1>1, <1>2, <1>4 DEF PanicInv

\* Every step keeps the counts exact and the reservation sound.
LEMMA NextControl == ControlInv /\ [Next]_vars => ControlInv'
<1> SUFFICES ASSUME ControlInv, [Next]_vars PROVE ControlInv'
  OBVIOUS
<1>1. CASE UNCHANGED vars
  BY <1>1 DEF ControlInv, TypeOK, Solo, CountInv, SpaceInv, PanicInv, Active, Reserved, Room,
              vars, onDisk, buffers, header, counts, bounds
<1>2. ASSUME NEW b \in Block, RecycleBuf(b) PROVE ControlInv'
  <2>1. cache' \in [Block -> Val] BY <1>2 DEF RecycleBuf, ControlInv, TypeOK
  <2>2. TypeOK'
    BY <1>2, <2>1 DEF RecycleBuf, ControlInv, TypeOK, onDisk, header, counts, bounds
  <2>3. QED
    BY <1>2, <2>2 DEF RecycleBuf, ControlInv, Solo, CountInv, SpaceInv, PanicInv, Active,
                      Reserved, Room, header, counts
<1>3. ASSUME NEW p \in Proc, Step(p) PROVE ControlInv'
  BY <1>3, BeginControl, EndControl, CommitControl, FinishControl DEF Step
<1>4. QED
  BY <1>1, <1>2, <1>3, CallControl, WriteControl, BootControl DEF Next

\* The log's control invariant holds always.
LEMMA ControlCorrect == Spec => []ControlInv
BY InitControl, NextControl, PTL DEF Spec

\* begin_op's reservation is sound: whatever the number of concurrent system
\* calls, the blocks in the log and all that the active calls may still add fit
\* into LOGSIZE.
THEOREM ReservationSound == Spec => []SpaceReserved
<1>1. ControlInv => SpaceReserved BY DEF ControlInv, SpaceInv, SpaceReserved
<1>2. QED BY <1>1, ControlCorrect, PTL

\* The panics of end_op ("log.committing") and of log_write for a call outside
\* of a transaction are never reached, and "too big a transaction" only where
\* the log on disk (sb->nlog) is smaller than what begin_op reserves from.
THEOREM OnlyTooBig == Spec => [](halted => Len(lh) >= Nlog - 1)
<1>1. ControlInv => (halted => Len(lh) >= Nlog - 1) BY DEF ControlInv, PanicInv
<1>2. QED BY <1>1, ControlCorrect, PTL

-----------------------------------------------------------------------------
(* Pins. *)

\* Steps outside of the installation leave the log's pins alone.
LEMMA PinsKept ==
    ASSUME PinsInv, UNCHANGED <<lh, head, pins, crashes, boot>>,
           \A q \in Proc : \A l \in {"install", "reset", "erase"} : pc'[q] = l <=> pc[q] = l,
           tail' = tail \/ \A q \in Proc : pc[q] \notin {"install", "reset", "erase"}
    PROVE  PinsInv'
<1>1. \A b \in Block : Unpinned(b)' <=> Unpinned(b) BY DEF Unpinned
<1>2. QED BY <1>1 DEF PinsInv, Shape, Distinct, InHeader

\* Nobody installs while a call is active, or while p commits elsewhere.
LEMMA NobodyInstalls ==
    ASSUME Solo, NEW p \in Proc,
           pc[p] = "op" \/ pc[p] \in CommitterPc \ {"install", "reset", "erase"}
    PROVE  \A q \in Proc : pc[q] \notin {"install", "reset", "erase"}
BY DEF Solo, Active, CommitterPc, CommitPc

\* System calls: log_write pins what it adds to the header.
LEMMA CallPins ==
    ASSUME ControlInv, PinsInv, NEW p \in Proc,
           \/ Call(p) \/ BeginOp(p) \/ EndOp(p) \/ EnterCommit(p) \/ Finish(p)
           \/ \E b \in Block, v \in Val : LogWrite(p, b, v)
    PROVE  PinsInv'
<1> USE DEF ControlInv
<1>1. CASE Call(p) \/ BeginOp(p) \/ EndOp(p) \/ EnterCommit(p) \/ Finish(p)
  <2>1. UNCHANGED <<lh, head, pins, crashes, boot, tail>>
    BY <1>1 DEF Call, BeginOp, EndOp, EnterCommit, Finish, onDisk, buffers, header, bounds
  <2>2. /\ pc[p] \notin {"install", "reset", "erase"}
        /\ pc'[p] \notin {"install", "reset", "erase"}
        /\ \A q \in Proc \ {p} : pc'[q] = pc[q] \/ (pc[q] = "asleep" /\ pc'[q] = "woken")
    BY <1>1 DEF Call, BeginOp, EndOp, EnterCommit, Finish, At, Goto, WakeAndGoto, TypeOK
  <2>3. \A q \in Proc : \A l \in {"install", "reset", "erase"} : pc'[q] = l <=> pc[q] = l
    BY <2>2
  <2>4. QED BY <2>1, <2>3, PinsKept
<1>2. ASSUME NEW b \in Block, NEW v \in Val, LogWrite(p, b, v) PROVE PinsInv'
  <2>1. /\ pc[p] = "op" /\ pc' = pc /\ tail' = tail /\ UNCHANGED <<head, crashes, boot>>
    BY <1>2 DEF LogWrite, At, onDisk, bounds
  <2>2. \A q \in Proc : pc[q] \notin {"install", "reset", "erase"}
    BY <2>1, NobodyInstalls
  <2>3. CASE UNCHANGED <<lh, pins>> BY <2>1, <2>3, PinsKept
  <2>4. CASE /\ ~InHeader(b, lh) /\ Len(lh) < LOGSIZE
             /\ lh' = Append(lh, b) /\ pins' = [pins EXCEPT ![b] = @ + 1]
    <3>1. lh \in Header /\ Len(lh) \in Nat BY HeaderType DEF TypeOK
    <3>2. /\ Len(lh') = Len(lh) + 1 /\ lh'[Len(lh) + 1] = b
          /\ \A i \in 1..Len(lh) : lh'[i] = lh[i]
      BY <2>4, <3>1, AppendType
    <3>3. Distinct(lh') BY <2>4, <3>1, <3>2 DEF PinsInv, Shape, Distinct, InHeader
    <3>4. \A c \in Block : InHeader(c, lh') <=> InHeader(c, lh) \/ c = b
      BY <3>1, <3>2 DEF InHeader
    <3>5. \A c \in Block : ~Unpinned(c) /\ ~Unpinned(c)'
      BY <2>1, <2>2 DEF Unpinned
    <3>6. crashes = 0 =>
            \A c \in Block : pins'[c] = IF InHeader(c, lh') /\ ~Unpinned(c)' THEN 1 ELSE 0
      BY <2>4, <3>4, <3>5 DEF PinsInv, Shape, TypeOK
    <3>7. QED BY <2>1, <2>2, <3>3, <3>6 DEF PinsInv, Shape
  <2>5. ~(Len(lh) >= LOGSIZE) => Len(lh) < LOGSIZE
    BY HeaderType, SizeAssumption DEF TypeOK
  <2>6. QED BY <1>2, <2>3, <2>4, <2>5 DEF LogWrite, header
<1>3. QED BY <1>1, <1>2

\* commit(): install_trans unpins each block of the header once.
LEMMA CommitPins ==
    ASSUME ControlInv, PinsInv, NEW p \in Proc, CommitStep(p)
    PROVE  PinsInv'
<1> USE DEF ControlInv
<1>0. /\ lh \in Header /\ Len(lh) \in Nat /\ tail \in Nat \ {0}
      /\ UNCHANGED <<crashes, boot>>
  BY HeaderType DEF TypeOK, CommitStep, Commit, WriteLog, WriteHead, InstallTrans, ResetHeader,
                    EraseHead, bounds
<1>1. CASE Commit(p) \/ WriteLog(p)
  <2>1. UNCHANGED <<lh, head, pins>> BY <1>1 DEF Commit, WriteLog, onDisk, buffers, header
  <2>2. \A q \in Proc : pc[q] \notin {"install", "reset", "erase"}
    BY <1>1, NobodyInstalls DEF Commit, WriteLog, At, CommitterPc, CommitPc
  <2>3. \A q \in Proc : pc'[q] \notin {"install", "reset", "erase"}
    BY <1>1, <2>2 DEF Commit, WriteLog, Goto, TypeOK
  <2>4. QED BY <1>0, <2>1, <2>2, <2>3, PinsKept
<1>2. CASE WriteHead(p)
  <2>1. \A q \in Proc : pc[q] \notin {"install", "reset", "erase"}
    BY <1>2, NobodyInstalls DEF WriteHead, At, CommitterPc, CommitPc
  <2>2. \A q \in Proc : pc'[q] \notin {"reset", "erase"}
    BY <1>2, <2>1 DEF WriteHead, Goto, TypeOK
  <2>3. UNCHANGED <<lh, pins>> /\ head' = lh /\ tail' = 1
    BY <1>2 DEF WriteHead, buffers, header
  <2>4. \A b \in Block : ~Unpinned(b) /\ ~Unpinned(b)' BY <2>1, <2>3 DEF Unpinned
  <2>5. QED BY <1>0, <2>2, <2>3, <2>4 DEF PinsInv, Shape, Distinct, InHeader
<1>3. CASE InstallTrans(p)
  <2>1. /\ pc[p] = "install" /\ UNCHANGED <<lh, head>>
        /\ \A q \in Proc \ {p} : pc[q] \notin CommitterPc
    BY <1>3 DEF InstallTrans, At, header, Solo, CommitterPc, CommitPc
  <2>2. CASE InstallBlock /\ pc' = pc
    <3>1. tail \in 1..Len(lh) /\ lh[tail] \in Block /\ tail' = tail + 1
      BY <2>2, InstallType DEF InstallBlock
    <3>2. \A q \in Proc : pc'[q] \notin {"reset", "erase"}
      BY <2>1, <2>2 DEF CommitterPc, CommitPc
    <3>3. \A b \in Block : Unpinned(b)' <=> Unpinned(b) \/ b = lh[tail]
      BY <1>0, <2>1, <2>2, <3>1 DEF Unpinned
    <3>4. ~Unpinned(lh[tail]) /\ InHeader(lh[tail], lh)
      BY <1>0, <3>1 DEF Unpinned, PinsInv, Shape, Distinct, InHeader
    <3>5. crashes = 0 =>
            \A b \in Block : pins'[b] = IF InHeader(b, lh') /\ ~Unpinned(b)' THEN 1 ELSE 0
      BY <2>1, <2>2, <3>1, <3>3, <3>4 DEF InstallBlock, PinsInv, Shape, TypeOK
    <3>6. QED BY <1>0, <2>1, <3>2, <3>5 DEF PinsInv, Shape, Distinct
  <2>3. CASE tail > Len(lh) /\ Goto(p, "reset") /\ UNCHANGED <<cache, disk, pins, tail>>
    <3>1. \A b \in Block : Unpinned(b)' <=> Unpinned(b)
      BY <2>1, <2>3 DEF Unpinned, Goto, TypeOK
    <3>2. \A q \in Proc : pc'[q] # "erase"
      BY <2>1, <2>3 DEF Goto, TypeOK, CommitterPc, CommitPc
    <3>3. QED BY <1>0, <2>1, <2>3, <3>1, <3>2 DEF PinsInv, Shape, Distinct, InHeader
  <2>4. QED BY <1>3, <2>2, <2>3 DEF InstallTrans
<1>4. CASE ResetHeader(p)
  <2>1. /\ pc[p] = "reset" /\ lh' = <<>> /\ UNCHANGED <<head, pins>>
        /\ \A q \in Proc \ {p} : pc[q] \notin CommitterPc
    BY <1>4 DEF ResetHeader, At, onDisk, buffers, Solo, CommitterPc, CommitPc
  <2>2. \A q \in Proc : pc'[q] # "reset"
    BY <1>4, <2>1 DEF ResetHeader, Goto, TypeOK, CommitterPc, CommitPc
  <2>3. \A b \in Block : InHeader(b, lh) => Unpinned(b)
    BY <1>0, <2>1 DEF InHeader, Unpinned, PinsInv, Shape
  <2>4. \A b \in Block : ~InHeader(b, lh') BY <2>1, HeaderType DEF InHeader
  <2>5. Distinct(lh') BY <2>1, HeaderType DEF Distinct
  <2>6. QED BY <1>0, <2>1, <2>2, <2>3, <2>4, <2>5 DEF PinsInv, Shape
<1>5. CASE EraseHead(p)
  <2>1. /\ pc[p] = "erase" /\ head' = lh /\ UNCHANGED <<lh, pins>> /\ lh = <<>>
        /\ \A q \in Proc \ {p} : pc[q] \notin CommitterPc
    BY <1>5 DEF EraseHead, At, buffers, header, Solo, CommitterPc, CommitPc, PinsInv, Shape
  <2>2. \A q \in Proc : pc'[q] \notin {"install", "reset", "erase"}
    BY <1>5, <2>1 DEF EraseHead, Goto, TypeOK, CommitterPc, CommitPc
  <2>3. \A b \in Block : ~InHeader(b, lh) BY <2>1, HeaderType DEF InHeader
  <2>4. QED BY <1>0, <2>1, <2>2, <2>3 DEF PinsInv, Shape, Distinct
<1>6. QED BY <1>1, <1>2, <1>3, <1>4, <1>5 DEF CommitStep

\* Crashes, boot and the recycling of buffers.
LEMMA BootPins ==
    ASSUME ControlInv, PinsInv, Crash \/ Boot \/ \E b \in Block : RecycleBuf(b)
    PROVE  PinsInv'
<1> USE DEF ControlInv
<1>1. CASE Crash
  <2>1. /\ lh' = <<>> /\ head' = head /\ crashes' = crashes + 1 /\ crashes < MaxCrash
        /\ \A q \in Proc : pc'[q] = "idle"
    BY <1>1 DEF Crash, onDisk
  <2>2. crashes' # 0 /\ crashes' <= MaxCrash BY <2>1, SizeAssumption DEF TypeOK
  <2>3. Distinct(lh') BY <2>1, HeaderType DEF Distinct
  <2>4. QED BY <2>1, <2>2, <2>3 DEF PinsInv, Shape, Distinct
<1>2. CASE Boot
  <2>1. /\ boot # "up" /\ UNCHANGED <<crashes, pc>>
        /\ lh' \in {lh, head, <<>>} /\ head' \in {head, lh}
    BY <1>2 DEF Boot, ReadHead, BootInstall, BootReset, BootErase, Booting, header, onDisk, bounds
  <2>2. crashes # 0 /\ \A q \in Proc : pc'[q] = "idle" BY <2>1 DEF PinsInv, Shape, Solo
  <2>3. Distinct(lh') /\ Distinct(head') BY <2>1, HeaderType DEF PinsInv, Shape, Distinct
  <2>4. QED BY <2>1, <2>2, <2>3 DEF PinsInv, Shape
<1>3. ASSUME NEW b \in Block, RecycleBuf(b) PROVE PinsInv'
  BY <1>3, PinsKept DEF RecycleBuf, onDisk, header, bounds
<1>4. QED BY <1>1, <1>2, <1>3

\* Every step keeps the pins in step with the header.
LEMMA NextPins == ControlInv /\ PinsInv /\ [Next]_vars => PinsInv'
<1> SUFFICES ASSUME ControlInv, PinsInv, [Next]_vars PROVE PinsInv'
  OBVIOUS
<1>1. CASE UNCHANGED vars
  BY <1>1, PinsKept DEF vars, onDisk, buffers, header, bounds
<1>2. CASE Next BY <1>2, CallPins, CommitPins, BootPins DEF Next, Step
<1>3. QED BY <1>1, <1>2

\* The state after mkfs.
LEMMA InitPins == Init => PinsInv
<1> SUFFICES ASSUME Init PROVE PinsInv
  OBVIOUS
<1>1. Distinct(lh) /\ Distinct(head) BY HeaderType DEF Init, Distinct
<1>2. \A b \in Block : ~InHeader(b, lh) BY HeaderType DEF Init, InHeader
<1>3. QED BY <1>1, <1>2, SizeAssumption DEF Init, PinsInv, Shape

\* Control and pins hold in every reachable state.
LEMMA PinsCorrect == Spec => [](ControlInv /\ PinsInv)
<1>1. Init => PinsInv BY InitPins
<1>2. ControlInv /\ PinsInv /\ [Next]_vars => PinsInv' BY NextPins
<1>3. QED BY <1>1, <1>2, ControlCorrect, PTL DEF Spec

\* The log's types, for every size of the log and any number of processes, and
\* the log's pins: until a first crash, a block is pinned once from its first
\* log_write until install_trans has written it home, and not otherwise.
THEOREM LogCorrect == Spec => []LogInv
<1>1. ControlInv /\ PinsInv => LogInv
  <2> SUFFICES ASSUME ControlInv, PinsInv PROVE LogInv
    OBVIOUS
  <2>1. ~committing => \A b \in Block : ~Unpinned(b)
    BY DEF ControlInv, Solo, Unpinned, CommitterPc, CommitPc
  <2>2. PinsMatch BY <2>1 DEF PinsInv, Shape, PinsMatch
  <2>3. QED BY <2>2 DEF LogInv, ControlInv
<1>2. QED BY <1>1, PinsCorrect, PTL

-----------------------------------------------------------------------------
(* What a reboot finds. *)

\* Replay, of any header, log and disk.
ReplayOf(h, lb, d) ==
    [b \in Block |-> IF InHeader(b, h) THEN lb[CHOOSE i \in 1..Len(h) : h[i] = b] ELSE d[b]]

\* recover_from_log makes of the disk what Replay says, before and after a step.
LEMMA ReplayIs ==
    /\ Replay = ReplayOf(head, logBlocks, disk)
    /\ Replay' = ReplayOf(head', logBlocks', disk')
BY DEF Replay, ReplayOf

\* An empty header leaves the disk alone.
LEMMA ReplayNothing ==
    ASSUME NEW lb, NEW d \in [Block -> Val]
    PROVE  ReplayOf(<<>>, lb, d) = d
<1>1. \A b \in Block : ~InHeader(b, <<>>) BY HeaderType DEF InHeader
<1>2. QED BY <1>1 DEF ReplayOf

\* Every block of the header gets its contents from the log.
LEMMA ReplayLogged ==
    ASSUME NEW h \in Header, NEW lb, NEW d, Distinct(h), NEW i \in 1..Len(h)
    PROVE  ReplayOf(h, lb, d)[h[i]] = lb[i]
<1>1. h[i] \in Block BY HeaderType
<1>2. InHeader(h[i], h) BY DEF InHeader
<1>3. PICK j \in 1..Len(h) : j = CHOOSE k \in 1..Len(h) : h[k] = h[i]
  OBVIOUS
<1>4. h[j] = h[i] BY <1>3
<1>5. j = i BY <1>4 DEF Distinct
<1>6. QED BY <1>1, <1>2, <1>3, <1>5 DEF ReplayOf

\* Contents that the log and, elsewhere, the disk agree with are what a replay
\* yields.
LEMMA ReplayYields ==
    ASSUME NEW h \in Header, NEW lb, NEW d, Distinct(h), NEW c \in [Block -> Val],
           \A i \in 1..Len(h) : lb[i] = c[h[i]],
           \A b \in Block : ~InHeader(b, h) => d[b] = c[b]
    PROVE  ReplayOf(h, lb, d) = c
<1>1. ASSUME NEW b \in Block PROVE ReplayOf(h, lb, d)[b] = c[b]
  <2>1. CASE InHeader(b, h)
    <3>1. PICK i \in 1..Len(h) : h[i] = b BY <2>1 DEF InHeader
    <3>2. QED BY <3>1, ReplayLogged
  <2>2. CASE ~InHeader(b, h) BY <2>2 DEF ReplayOf
  <2>3. QED BY <2>1, <2>2
<1>2. QED BY <1>1 DEF ReplayOf

\* Writing home what is in the log makes no difference to a replay.
LEMMA ReplayInstalls ==
    ASSUME NEW h, NEW lb, NEW d, NEW e, \A b \in Block : ~InHeader(b, h) => e[b] = d[b]
    PROVE  ReplayOf(h, lb, e) = ReplayOf(h, lb, d)
BY DEF ReplayOf

-----------------------------------------------------------------------------
(* Steps of the log, as steps of the atomic disk. *)

Current == IF boot = "up" THEN cache ELSE Replay

\* A step that changes neither what is durable nor what calls read.
LEMMA Stutters ==
    ASSUME Replay' = Replay, Current' = Current, Active' = Active
    PROVE  [A!Next]_(A!vars)
BY DEF A!vars, Current, Active

\* Where PhaseInv and HeadInv tell processes apart.
PhasePc == {"write_log", "write_head", "install", "reset", "erase", "finish"}

\* Steps that write neither buffers nor disk.
LEMMA DiskKept ==
    ASSUME DiskInv, UNCHANGED <<disk, logBlocks, head, cache, lh, tail, boot, halted>>,
           committing => committing',
           \A q \in Proc : \A l \in PhasePc : pc'[q] = l <=> pc[q] = l
    PROVE  DiskInv' /\ Replay' = Replay /\ Current' = Current
<1>1. Replay' = Replay /\ Current' = Current BY DEF Current, Replay
<1>2. CASE boot # "up" BY <1>1, <1>2 DEF DiskInv, BootInv, Installed
<1>3. CASE boot = "up" /\ ~halted
  <2>1. HeadInv' BY <1>3 DEF DiskInv, UpInv, HeadInv, Logged, Installed, PhasePc
  <2>2. \A q \in Proc : PhaseInv(q)'
    BY <1>3 DEF DiskInv, UpInv, PhaseInv, Logged, Installed, PhasePc
  <2>3. QED BY <1>1, <1>3, <2>1, <2>2 DEF DiskInv, UpInv
<1>4. CASE boot = "up" /\ halted BY <1>1, <1>4 DEF DiskInv, UpInv
<1>5. QED BY <1>2, <1>3, <1>4

\* begin_op begins a call of the atomic disk, end_op ends one.
LEMMA CallRefines ==
    ASSUME TypeOK, Solo, DiskInv, NEW p \in Proc,
           Call(p) \/ BeginOp(p) \/ EndOp(p) \/ EnterCommit(p)
    PROVE  DiskInv' /\ [A!Next]_(A!vars)
<1>1. UNCHANGED <<disk, logBlocks, head, cache, lh, tail, boot, halted>>
  BY EndMoves DEF Call, BeginOp, EndOp, EnterCommit, onDisk, buffers, header
<1>2. committing => committing'
  BY DEF Call, BeginOp, EndOp, EnterCommit, Solo, Active, At
<1>3. \A q \in Proc : \A l \in PhasePc : pc'[q] = l <=> pc[q] = l
  <2>1. /\ pc[p] \notin PhasePc /\ pc'[p] \notin PhasePc
        /\ \A q \in Proc \ {p} : pc'[q] = pc[q] \/ (pc[q] = "asleep" /\ pc'[q] = "woken")
    BY DEF Call, BeginOp, EndOp, EnterCommit, At, Goto, WakeAndGoto, TypeOK, PhasePc
  <2>2. QED BY <2>1 DEF PhasePc
<1>4. DiskInv' /\ Replay' = Replay /\ Current' = Current
  BY <1>1, <1>2, <1>3, DiskKept
<1>5. \/ Active' = Active
      \/ p \notin Active /\ Active' = Active \cup {p}
      \/ p \in Active /\ Active' = Active \ {p}
  <2>1. CASE EnterCommit(p) BY <2>1 DEF EnterCommit, At, Goto, Active, TypeOK
  <2>2. QED BY <2>1, CallMoves, BeginMoves, EndMoves
<1>6. CASE Active' = Active BY <1>4, <1>6, Stutters
<1>7. CASE p \notin Active /\ Active' = Active \cup {p}
  <2>1. A!Begin(p) BY <1>4, <1>7 DEF A!Begin, Active, Current
  <2>2. QED BY <1>4, <2>1 DEF A!Next
<1>8. CASE p \in Active /\ Active' = Active \ {p}
  <2>1. A!End(p) BY <1>4, <1>8 DEF A!End, Active, Current
  <2>2. QED BY <1>4, <2>1 DEF A!Next
<1>9. QED BY <1>5, <1>6, <1>7, <1>8

\* log_write writes what system calls read; nothing is committed meanwhile.
LEMMA WriteRefines ==
    ASSUME TypeOK, Solo, Shape, DiskInv, NEW p \in Proc, NEW b \in Block, NEW v \in Val,
           LogWrite(p, b, v)
    PROVE  DiskInv' /\ A!Write(p, b, v)
<1>1. /\ pc[p] = "op" /\ boot = "up" /\ boot' = "up" /\ ~halted /\ UNCHANGED <<pc, committing>>
      /\ UNCHANGED onDisk /\ cache' = [cache EXCEPT ![b] = v]
  BY DEF LogWrite, At
<1>2. A!Write(p, b, v)
  <2>1. Replay' = Replay BY <1>1 DEF Replay, onDisk
  <2>2. QED BY <1>1, <2>1 DEF A!Write
<1>3. \A q \in Proc : pc[q] \notin CommitterPc
  BY <1>1 DEF Solo, Active
<1>4. head = <<>> /\ UpInv
  BY <1>1 DEF DiskInv, UpInv, HeadInv, Solo, Active
<1>5. CASE halted' BY <1>1, <1>2, <1>5 DEF DiskInv, UpInv
<1>6. CASE ~halted'
  <2>1. \/ InHeader(b, lh) /\ lh' = lh
        \/ Len(lh) < LOGSIZE /\ lh' = Append(lh, b)
    <3>1. ~(Len(lh) >= LOGSIZE) => Len(lh) < LOGSIZE
      BY HeaderType, SizeAssumption DEF TypeOK
    <3>2. QED BY <1>6, <3>1 DEF LogWrite, Halt, header
  <2>2. \A c \in Block : InHeader(c, lh') <=> InHeader(c, lh) \/ c = b
    <3>1. CASE InHeader(b, lh) /\ lh' = lh BY <3>1
    <3>2. CASE Len(lh) < LOGSIZE /\ lh' = Append(lh, b)
      <4>1. lh \in Header /\ Len(lh) \in Nat BY HeaderType DEF TypeOK
      <4>2. QED BY <3>2, <4>1, AppendType DEF InHeader
    <3>3. QED BY <2>1, <3>1, <3>2
  <2>3. \A c \in Block : ~InHeader(c, lh') => cache'[c] = disk'[c]
    BY <1>1, <1>4, <1>6, <2>2 DEF UpInv, TypeOK, onDisk
  <2>4. HeadInv' BY <1>1, <1>4 DEF HeadInv, onDisk
  <2>5. \A q \in Proc : PhaseInv(q)'
    BY <1>1, <1>3 DEF PhaseInv, CommitterPc, CommitPc
  <2>6. QED BY <1>1, <1>2, <2>3, <2>4, <2>5 DEF DiskInv, UpInv
<1>7. QED BY <1>2, <1>5, <1>6

\* While p commits, no call is active and no other process commits.
LEMMA OneCommits ==
    ASSUME TypeOK, Solo, NEW p \in Proc, pc[p] \in CommitterPc, ~halted, DiskInv
    PROVE  /\ boot = "up" /\ Active = {} /\ UpInv /\ committing
           /\ \A q \in Proc \ {p} : pc[q] \notin CommitterPc
BY DEF Solo, DiskInv, CommitterPc, CommitPc

\* write_log: the log is written before the header refers to it.
LEMMA WriteLogRefines ==
    ASSUME TypeOK, Solo, Shape, DiskInv, NEW p \in Proc, Commit(p) \/ WriteLog(p)
    PROVE  DiskInv' /\ Replay' = Replay /\ Current' = Current /\ Active' = Active
<1>0. /\ ~halted /\ pc[p] \in {"commit", "write_log"} /\ pc[p] \in CommitterPc
      /\ UNCHANGED <<disk, head, cache, lh, committing, boot, halted>>
  BY DEF Commit, WriteLog, At, onDisk, buffers, header, CommitterPc, CommitPc
<1>1. /\ boot = "up" /\ Active = {} /\ UpInv /\ committing
      /\ \A q \in Proc \ {p} : pc[q] \notin CommitterPc
  BY <1>0, OneCommits
<1>2. /\ \A q \in Proc \ {p} : pc'[q] = pc[q]
      /\ pc'[p] \in {"write_log", "write_head", "finish"}
  BY DEF Commit, WriteLog, At, Goto, TypeOK
<1>3. Active' = Active BY <1>0, <1>2 DEF Active
<1>4. head = <<>> \/ (head = lh /\ Logged(lh, Len(lh) + 1))
  <2>1. \A q \in Proc : pc[q] # "erase" BY <1>0, <1>1 DEF CommitterPc, CommitPc
  <2>2. QED BY <1>0, <1>1, <2>1 DEF UpInv, HeadInv
<1>5. Len(lh) \in Nat /\ lh \in Header /\ tail \in Nat \ {0} BY HeaderType DEF TypeOK
<1>6. CASE Commit(p)
  <2>1. logBlocks' = logBlocks /\ tail' = 1 BY <1>6 DEF Commit, onDisk
  <2>2. Replay' = Replay /\ Current' = Current BY <1>0, <2>1 DEF Replay, Current
  <2>3. HeadInv' BY <1>0, <1>1, <1>4, <2>1 DEF HeadInv, Logged
  <2>4. PhaseInv(p)'
    <3>1. CASE lh # <<>>
      BY <1>6, <2>1, <3>1 DEF Commit, Goto, TypeOK, PhaseInv, Logged
    <3>2. CASE lh = <<>>
      BY <1>0, <1>4, <1>6, <3>2 DEF Commit, Goto, TypeOK, PhaseInv
    <3>3. QED BY <3>1, <3>2
  <2>5. \A q \in Proc \ {p} : PhaseInv(q)'
    BY <1>1, <1>2 DEF PhaseInv, CommitterPc, CommitPc
  <2>6. QED
    BY <1>0, <1>1, <1>3, <2>2, <2>3, <2>4, <2>5 DEF DiskInv, UpInv
<1>7. CASE WriteLog(p)
  <2>0. Logged(lh, tail) BY <1>0, <1>1, <1>7 DEF WriteLog, At, UpInv, PhaseInv
  <2>1. \A q \in Proc \ {p} : PhaseInv(q)'
    BY <1>1, <1>2 DEF PhaseInv, CommitterPc, CommitPc
  <2>2. CASE tail <= Len(lh)
    <3>1. /\ tail' = tail + 1 /\ pc' = pc /\ pc[p] = "write_log" /\ tail \in 1..Len(lh)
          /\ logBlocks' = [logBlocks EXCEPT ![tail] = cache[lh[tail]]]
      BY <1>5, <1>7, <2>2 DEF WriteLog, At
    <3>2. tail \in 1..LOGSIZE BY <1>5, <3>1, HeaderType
    <3>3. Logged(lh, tail)' BY <1>0, <1>5, <2>0, <3>1, <3>2 DEF Logged, TypeOK
    <3>4. head = lh => logBlocks' = logBlocks
      <4> SUFFICES ASSUME head = lh PROVE logBlocks' = logBlocks
        OBVIOUS
      <4>1. head # <<>> BY <1>5, <2>2, HeaderType
      <4>2. logBlocks[tail] = cache[lh[tail]] BY <1>4, <1>5, <3>1, <4>1 DEF Logged
      <4>3. QED BY <3>1, <3>2, <4>2 DEF TypeOK
    <3>5. HeadInv' BY <1>0, <1>1, <1>4, <3>4 DEF HeadInv, Logged
    <3>6. Replay' = Replay
      <4>1. CASE head = <<>> BY <1>0, <4>1, ReplayIs, ReplayNothing DEF TypeOK
      <4>2. CASE head = lh BY <1>0, <3>4, <4>2 DEF Replay
      <4>3. QED BY <1>4, <4>1, <4>2
    <3>7. PhaseInv(p)' BY <3>1, <3>3 DEF PhaseInv
    <3>8. Current' = Current BY <1>0, <1>1 DEF Current
    <3>9. QED
      BY <1>0, <1>1, <1>3, <2>1, <3>5, <3>6, <3>7, <3>8 DEF DiskInv, UpInv
  <2>3. CASE ~(tail <= Len(lh))
    <3>1. /\ tail' = tail /\ pc'[p] = "write_head" /\ logBlocks' = logBlocks
      BY <1>7, <2>3 DEF WriteLog, Goto, TypeOK
    <3>2. Logged(lh, Len(lh) + 1)' BY <1>0, <1>5, <2>0, <2>3, <3>1 DEF Logged
    <3>3. HeadInv' BY <1>0, <1>1, <1>4, <3>1 DEF HeadInv, Logged
    <3>4. Replay' = Replay /\ Current' = Current BY <1>0, <3>1 DEF Replay, Current
    <3>5. PhaseInv(p)' BY <3>1, <3>2 DEF PhaseInv
    <3>6. QED
      BY <1>0, <1>1, <1>3, <2>1, <3>3, <3>4, <3>5 DEF DiskInv, UpInv
  <2>4. QED BY <2>2, <2>3
<1>8. QED BY <1>6, <1>7

\* write_head is "the real commit": all that was written since the last one
\* becomes durable, while no call is active.
LEMMA WriteHeadRefines ==
    ASSUME TypeOK, Solo, Shape, DiskInv, NEW p \in Proc, WriteHead(p)
    PROVE  DiskInv' /\ A!Commit
<1>0. /\ ~halted /\ pc[p] = "write_head" /\ pc[p] \in CommitterPc /\ tail' = 1 /\ head' = lh
      /\ UNCHANGED <<disk, logBlocks, cache, lh, committing, boot, halted>>
  BY DEF WriteHead, At, buffers, header, CommitterPc, CommitPc
<1>1. /\ boot = "up" /\ Active = {} /\ UpInv /\ committing
      /\ \A q \in Proc \ {p} : pc[q] \notin CommitterPc
  BY <1>0, OneCommits
<1>2. pc'[p] = "install" /\ \A q \in Proc \ {p} : pc'[q] = pc[q]
  BY DEF WriteHead, Goto, TypeOK
<1>3. Logged(lh, Len(lh) + 1) /\ \A b \in Block : ~InHeader(b, lh) => cache[b] = disk[b]
  BY <1>0, <1>1 DEF UpInv, PhaseInv
<1>4. Len(lh) \in Nat /\ lh \in Header BY HeaderType DEF TypeOK
<1>5. Replay' = cache
  <2>1. \A i \in 1..Len(lh) : logBlocks[i] = cache[lh[i]] BY <1>3, <1>4 DEF Logged
  <2>2. Distinct(lh) /\ cache \in [Block -> Val] BY DEF Shape, TypeOK
  <2>3. ReplayOf(lh, logBlocks, disk) = cache
    BY <1>3, <1>4, <2>1, <2>2, ReplayYields
  <2>4. QED BY <1>0, <2>3, ReplayIs
<1>6. A!Commit
  <2>1. Active' = Active BY <1>0, <1>2 DEF Active
  <2>2. QED BY <1>0, <1>1, <1>5, <2>1 DEF A!Commit, Active
<1>7. HeadInv' BY <1>0, <1>1, <1>3 DEF HeadInv, Logged
<1>8. PhaseInv(p)' BY <1>0, <1>2 DEF PhaseInv, Installed
<1>9. \A q \in Proc \ {p} : PhaseInv(q)'
  BY <1>1, <1>2 DEF PhaseInv, CommitterPc, CommitPc
<1>10. QED
  BY <1>0, <1>1, <1>3, <1>6, <1>7, <1>8, <1>9 DEF DiskInv, UpInv

\* install_trans, one block of the committed header: nothing is lost if the
\* power fails now.
LEMMA InstallBlockKeeps ==
    ASSUME TypeOK, Shape, InstallBlock, head = lh, Installed(lh, tail), UNCHANGED <<lh, head,
           logBlocks>>
    PROVE  /\ Installed(lh, tail)' /\ Replay' = Replay
           /\ disk'[lh[tail]] = logBlocks[tail] /\ tail \in 1..Len(lh) /\ lh[tail] \in Block
<1>1. /\ tail \in 1..Len(lh) /\ lh[tail] \in Block /\ tail' = tail + 1
      /\ disk' = [disk EXCEPT ![lh[tail]] = logBlocks[tail]]
  BY InstallType DEF InstallBlock
<1>2. Len(lh) \in Nat /\ lh \in Header BY HeaderType DEF TypeOK
<1>3. disk'[lh[tail]] = logBlocks[tail] BY <1>1 DEF TypeOK
<1>4. Installed(lh, tail)'
  <2>1. ASSUME NEW i \in 1..Len(lh), i < tail + 1 PROVE disk'[lh[i]] = logBlocks[i]
    <3>1. CASE i = tail BY <1>3, <3>1
    <3>2. CASE i # tail
      <4>1. i < tail /\ lh[i] # lh[tail] BY <1>1, <2>1, <3>2 DEF Shape, Distinct
      <4>2. lh[i] \in Block /\ disk[lh[i]] = logBlocks[i]
        BY <1>2, <4>1, HeaderType DEF Installed
      <4>3. QED BY <1>1, <4>1, <4>2 DEF TypeOK
    <3>3. QED BY <3>1, <3>2
  <2>2. QED BY <1>1, <2>1 DEF Installed
<1>5. Replay' = Replay
  <2>1. \A b \in Block : ~InHeader(b, lh) => disk'[b] = disk[b]
    BY <1>1 DEF InHeader, TypeOK
  <2>2. ReplayOf(lh, logBlocks, disk') = ReplayOf(lh, logBlocks, disk)
    BY <2>1, ReplayInstalls
  <2>3. QED BY <1>1, <2>2, ReplayIs
<1>6. QED BY <1>1, <1>3, <1>4, <1>5

\* install_trans
LEMMA InstallRefines ==
    ASSUME TypeOK, Solo, Shape, DiskInv, NEW p \in Proc, InstallTrans(p)
    PROVE  DiskInv' /\ Replay' = Replay /\ Current' = Current /\ Active' = Active
<1>0. /\ ~halted /\ pc[p] = "install" /\ pc[p] \in CommitterPc
      /\ UNCHANGED <<logBlocks, head, lh, committing, boot, halted>>
  BY DEF InstallTrans, At, header, CommitterPc, CommitPc
<1>1. /\ boot = "up" /\ Active = {} /\ UpInv /\ committing
      /\ \A q \in Proc \ {p} : pc[q] \notin CommitterPc
  BY <1>0, OneCommits
<1>2. pc'[p] \in {"install", "reset"} /\ \A q \in Proc \ {p} : pc'[q] = pc[q]
  BY <1>0 DEF InstallTrans, Goto, TypeOK
<1>3. Active' = Active BY <1>0, <1>2 DEF Active
<1>4. Len(lh) \in Nat /\ lh \in Header /\ tail \in Nat \ {0} BY HeaderType DEF TypeOK
<1>5. head = lh /\ Installed(lh, tail) BY <1>0, <1>1 DEF UpInv, PhaseInv
<1>6. \A i \in 1..Len(lh) : logBlocks[i] = cache[lh[i]]
  <2>1. \A q \in Proc : pc[q] # "erase" BY <1>0, <1>1 DEF CommitterPc, CommitPc
  <2>2. CASE head = <<>> BY <1>5, <2>2, HeaderType
  <2>3. CASE Logged(lh, Len(lh) + 1) BY <1>4, <2>3 DEF Logged
  <2>4. QED BY <1>0, <1>1, <2>1, <2>2, <2>3 DEF UpInv, HeadInv
<1>7. \/ cache' = cache /\ Replay' = Replay /\ Installed(lh, tail)' /\ pc' = pc
      \/ UNCHANGED <<cache, disk, tail>>
  <2>1. CASE InstallBlock /\ pc' = pc
    <3>1. /\ Installed(lh, tail)' /\ Replay' = Replay
          /\ tail \in 1..Len(lh) /\ lh[tail] \in Block
      BY <1>0, <1>5, <2>1, InstallBlockKeeps
    <3>2. cache' = cache BY <1>6, <2>1, <3>1 DEF InstallBlock, TypeOK
    <3>3. QED BY <2>1, <3>1, <3>2
  <2>2. QED BY <2>1 DEF InstallTrans
<1>8. /\ cache' = cache /\ Replay' = Replay /\ Installed(lh, tail)'
  BY <1>0, <1>5, <1>7 DEF Replay, Installed
<1>9. \A b \in Block : ~InHeader(b, lh) => disk'[b] = disk[b]
  <2>1. CASE UNCHANGED disk BY <2>1
  <2>2. CASE InstallBlock
    BY <2>2, InstallType DEF InstallBlock, InHeader, TypeOK
  <2>3. QED BY <2>1, <2>2 DEF InstallTrans
<1>10. HeadInv'
  <2>1. Logged(lh, Len(lh) + 1)' BY <1>0, <1>6, <1>8 DEF Logged
  <2>2. QED BY <1>0, <1>1, <1>5, <2>1 DEF HeadInv
<1>11. PhaseInv(p)' BY <1>0, <1>2, <1>5, <1>8 DEF PhaseInv
<1>12. \A q \in Proc \ {p} : PhaseInv(q)'
  BY <1>1, <1>2 DEF PhaseInv, CommitterPc, CommitPc
<1>13. Current' = Current BY <1>0, <1>1, <1>8 DEF Current
<1>14. \A b \in Block : ~InHeader(b, lh') => cache'[b] = disk'[b]
  BY <1>0, <1>1, <1>8, <1>9 DEF UpInv
<1>15. QED
  BY <1>0, <1>1, <1>3, <1>8, <1>10, <1>11, <1>12, <1>13, <1>14 DEF DiskInv, UpInv

\* The header in memory is emptied after the last block is home, and the one
\* on disk after that.
LEMMA EraseRefines ==
    ASSUME TypeOK, Solo, Shape, DiskInv, NEW p \in Proc, ResetHeader(p) \/ EraseHead(p)
    PROVE  DiskInv' /\ Replay' = Replay /\ Current' = Current /\ Active' = Active
<1>0. /\ ~halted /\ pc[p] \in {"reset", "erase"} /\ pc[p] \in CommitterPc
      /\ UNCHANGED <<disk, logBlocks, cache, tail, committing, boot, halted>>
  BY DEF ResetHeader, EraseHead, At, onDisk, buffers, CommitterPc, CommitPc
<1>1. /\ boot = "up" /\ Active = {} /\ UpInv /\ committing
      /\ \A q \in Proc \ {p} : pc[q] \notin CommitterPc
  BY <1>0, OneCommits
<1>2. pc'[p] \in {"erase", "finish"} /\ \A q \in Proc \ {p} : pc'[q] = pc[q]
  BY <1>0 DEF ResetHeader, EraseHead, Goto, TypeOK
<1>3. Active' = Active BY <1>0, <1>2 DEF Active
<1>4. Len(lh) \in Nat /\ lh \in Header /\ head \in Header BY HeaderType DEF TypeOK
<1>5. \A q \in Proc \ {p} : PhaseInv(q)'
  BY <1>1, <1>2 DEF PhaseInv, CommitterPc, CommitPc
<1>6. CASE ResetHeader(p)
  <2>1. pc[p] = "reset" /\ lh' = <<>> /\ head' = head /\ pc'[p] = "erase"
    BY <1>6 DEF ResetHeader, At, onDisk, Goto, TypeOK
  <2>2. head = lh /\ Installed(lh, tail) /\ tail > Len(lh)
    BY <1>0, <1>1, <2>1 DEF UpInv, PhaseInv, Shape
  <2>3. \A i \in 1..Len(lh) : disk[lh[i]] = logBlocks[i]
    BY <1>4, <2>2 DEF Installed, TypeOK
  <2>4. \A i \in 1..Len(lh) : logBlocks[i] = cache[lh[i]]
    <3>1. \A q \in Proc : pc[q] # "erase" BY <1>1, <2>1 DEF CommitterPc, CommitPc
    <3>2. CASE head = <<>> BY <2>2, <3>2, HeaderType
    <3>3. CASE Logged(lh, Len(lh) + 1) BY <1>4, <3>3 DEF Logged
    <3>4. QED BY <1>0, <1>1, <3>1, <3>2, <3>3 DEF UpInv, HeadInv
  <2>5. \A b \in Block : cache[b] = disk[b]
    BY <1>0, <1>1, <2>3, <2>4 DEF UpInv, InHeader
  <2>6. Replay' = Replay /\ Current' = Current BY <1>0, <2>1 DEF Replay, Current
  <2>7. HeadInv'
    <3>1. Installed(head, Len(head) + 1)' BY <1>0, <2>1, <2>2, <2>3 DEF Installed
    <3>2. QED BY <1>0, <1>1, <2>1, <3>1 DEF HeadInv
  <2>8. PhaseInv(p)' BY <2>1 DEF PhaseInv
  <2>9. QED
    BY <1>0, <1>1, <1>3, <1>5, <2>5, <2>6, <2>7, <2>8 DEF DiskInv, UpInv
<1>7. CASE EraseHead(p)
  <2>1. pc[p] = "erase" /\ lh' = lh /\ lh = <<>> /\ head' = lh /\ pc'[p] = "finish"
    BY <1>7 DEF EraseHead, At, header, Goto, TypeOK, Shape
  <2>2. \A b \in Block : ~InHeader(b, lh) BY <2>1, HeaderType DEF InHeader
  <2>3. cache = disk BY <1>0, <1>1, <2>2 DEF UpInv, TypeOK
  <2>4. Replay = disk
    <3>1. CASE head = <<>> BY <3>1, ReplayIs, ReplayNothing DEF TypeOK
    <3>2. CASE Installed(head, Len(head) + 1)
      <4>1. \A i \in 1..Len(head) : logBlocks[i] = disk[head[i]]
        BY <1>4, <3>2, HeaderType DEF Installed
      <4>2. Distinct(head) /\ disk \in [Block -> Val] BY DEF Shape, TypeOK
      <4>3. ReplayOf(head, logBlocks, disk) = disk BY <1>4, <4>1, <4>2, ReplayYields
      <4>4. QED BY <4>3, ReplayIs
    <3>3. QED BY <1>0, <1>1, <2>1, <3>1, <3>2 DEF UpInv, HeadInv
  <2>5. Replay' = disk BY <1>0, <2>1, ReplayIs, ReplayNothing DEF TypeOK
  <2>6. Current' = Current BY <1>0, <1>1 DEF Current
  <2>7. HeadInv' /\ PhaseInv(p)' BY <2>1 DEF HeadInv, PhaseInv
  <2>8. \A b \in Block : ~InHeader(b, lh') => cache'[b] = disk'[b] BY <1>0, <2>3
  <2>9. QED
    BY <1>0, <1>1, <1>3, <1>5, <2>4, <2>5, <2>6, <2>7, <2>8 DEF DiskInv, UpInv
<1>8. QED BY <1>6, <1>7

\* The rest of end_op.
LEMMA FinishRefines ==
    ASSUME TypeOK, Solo, Shape, DiskInv, NEW p \in Proc, Finish(p)
    PROVE  DiskInv' /\ Replay' = Replay /\ Current' = Current
<1>0. /\ ~halted /\ pc[p] = "finish" /\ pc[p] \in CommitterPc
      /\ UNCHANGED <<disk, logBlocks, head, cache, lh, boot, halted>>
  BY DEF Finish, At, onDisk, buffers, header, CommitterPc
<1>1. /\ boot = "up" /\ Active = {} /\ UpInv /\ committing
      /\ \A q \in Proc \ {p} : pc[q] \notin CommitterPc
  BY <1>0, OneCommits
<1>2. head = <<>> BY <1>0, <1>1 DEF UpInv, PhaseInv
<1>3. Replay' = Replay /\ Current' = Current BY <1>0 DEF Replay, Current
<1>4. \A q \in Proc : pc'[q] \notin CommitterPc
  BY <1>1 DEF Finish, WakeAndGoto, CommitterPc, CommitPc
<1>5. HeadInv' BY <1>0, <1>2 DEF HeadInv
<1>6. \A q \in Proc : PhaseInv(q)' BY <1>4 DEF PhaseInv, CommitterPc, CommitPc
<1>7. QED BY <1>0, <1>1, <1>3, <1>5, <1>6 DEF DiskInv, UpInv

\* Power fails: what was not committed is lost, and nothing else.
LEMMA CrashRefines ==
    ASSUME TypeOK, Crash
    PROVE  DiskInv' /\ A!Crash
<1>1. /\ boot' = "read" /\ cache' = disk /\ disk' = disk /\ tail' = 1
      /\ pc' = [p \in Proc |-> "idle"]
  BY DEF Crash, onDisk
<1>2. Replay' = Replay BY DEF Crash, onDisk, Replay
<1>3. A!Crash BY <1>1, <1>2 DEF A!Crash
<1>4. DiskInv' BY <1>1 DEF DiskInv, BootInv
<1>5. QED BY <1>3, <1>4

\* recover_from_log, again after a crash in its middle if need be.
LEMMA BootRefines ==
    ASSUME TypeOK, Solo, Shape, DiskInv, Boot
    PROVE  DiskInv' /\ Replay' = Replay /\ Current' = Current /\ Active' = Active
<1>0. boot # "up" /\ ~halted /\ UNCHANGED <<pc, halted, committing>>
  BY DEF Boot, ReadHead, BootInstall, BootReset, BootErase, Booting
<1>1. BootInv /\ \A q \in Proc : pc[q] = "idle" BY <1>0 DEF DiskInv, Solo
<1>2. Active' = Active BY <1>0 DEF Active
<1>3. Len(lh) \in Nat /\ lh \in Header /\ head \in Header BY HeaderType DEF TypeOK
<1>4. CASE ReadHead
  <2>1. /\ boot = "read" /\ boot' = "install" /\ lh' = head
        /\ UNCHANGED <<disk, logBlocks, head, cache, tail>>
    BY <1>4 DEF ReadHead, Booting, onDisk, buffers
  <2>2. Replay' = Replay /\ Current' = Current BY <2>1 DEF Replay, Current
  <2>3. BootInv' BY <1>1, <2>1 DEF BootInv, Installed
  <2>4. QED BY <1>2, <2>1, <2>2, <2>3 DEF DiskInv
<1>5. CASE BootInstall
  <2>1. boot = "install" /\ UNCHANGED <<logBlocks, head, lh>> /\ cache = disk /\ lh = head
          /\ Installed(lh, tail)
    BY <1>1, <1>5 DEF BootInstall, Booting, header, BootInv
  <2>2. CASE InstallBlock /\ boot' = boot
    <3>1. Installed(lh, tail)' /\ Replay' = Replay BY <2>1, <2>2, InstallBlockKeeps
    <3>2. cache' = disk' BY <2>1, <2>2 DEF InstallBlock
    <3>3. Current' = Current BY <2>1, <2>2, <3>1 DEF Current
    <3>4. QED BY <1>2, <2>1, <2>2, <3>1, <3>2, <3>3 DEF DiskInv, BootInv
  <2>3. CASE tail > Len(lh) /\ boot' = "reset" /\ UNCHANGED <<cache, disk, pins, tail>>
    <3>1. Installed(lh, Len(lh) + 1)' BY <1>3, <2>1, <2>3 DEF Installed, TypeOK
    <3>2. Replay' = Replay /\ Current' = Current BY <2>1, <2>3 DEF Replay, Current
    <3>3. QED BY <1>2, <2>1, <2>3, <3>1, <3>2 DEF DiskInv, BootInv
  <2>4. QED BY <1>5, <2>2, <2>3 DEF BootInstall
<1>6. CASE BootReset
  <2>1. /\ boot = "reset" /\ boot' = "erase" /\ lh' = <<>>
        /\ UNCHANGED <<disk, logBlocks, head, cache, tail>>
    BY <1>6 DEF BootReset, Booting, onDisk, buffers
  <2>2. Replay' = Replay /\ Current' = Current BY <2>1 DEF Replay, Current
  <2>3. BootInv' BY <1>1, <2>1 DEF BootInv, Installed
  <2>4. QED BY <1>2, <2>1, <2>2, <2>3 DEF DiskInv
<1>7. CASE BootErase
  <2>1. /\ boot = "erase" /\ boot' = "up" /\ lh' = lh /\ head' = lh /\ lh = <<>>
        /\ UNCHANGED <<disk, logBlocks, cache, tail>> /\ cache = disk
        /\ Installed(head, Len(head) + 1)
    BY <1>1, <1>7 DEF BootErase, Booting, buffers, header, BootInv
  <2>2. Replay = disk
    <3>1. \A i \in 1..Len(head) : logBlocks[i] = disk[head[i]]
      BY <1>3, <2>1, HeaderType DEF Installed
    <3>2. Distinct(head) /\ disk \in [Block -> Val] BY DEF Shape, TypeOK
    <3>3. ReplayOf(head, logBlocks, disk) = disk BY <1>3, <3>1, <3>2, ReplayYields
    <3>4. QED BY <3>3, ReplayIs
  <2>3. Replay' = disk BY <2>1, ReplayIs, ReplayNothing DEF TypeOK
  <2>4. Current' = Current BY <2>1, <2>2 DEF Current
  <2>5. UpInv'
    <3>1. HeadInv' BY <2>1 DEF HeadInv
    <3>2. \A q \in Proc : PhaseInv(q)' BY <1>0, <1>1 DEF PhaseInv
    <3>3. QED BY <2>1, <3>1, <3>2 DEF UpInv
  <2>6. QED BY <1>2, <2>1, <2>2, <2>3, <2>4, <2>5 DEF DiskInv
<1>8. QED BY <1>4, <1>5, <1>6, <1>7 DEF Boot

\* bget recycles a buffer that nobody has: before the first crash, its contents
\* are the disk's.
LEMMA RecycleRefines ==
    ASSUME ControlInv, PinsInv, DiskInv, crashes = 0, NEW b \in Block, RecycleBuf(b)
    PROVE  DiskInv' /\ Replay' = Replay /\ Current' = Current /\ Active' = Active
<1> USE DEF ControlInv
<1>0. /\ boot = "up" /\ ~halted /\ pins[b] = 0 /\ cache' = [cache EXCEPT ![b] = disk[b]]
      /\ UNCHANGED <<disk, logBlocks, head, lh, tail, boot, halted, committing, pc>>
  BY DEF RecycleBuf, onDisk, header
<1>1. UpInv BY <1>0 DEF DiskInv
<1>2. cache[b] = disk[b]
  <2>1. CASE ~InHeader(b, lh) BY <1>0, <1>1, <2>1 DEF UpInv
  <2>2. CASE InHeader(b, lh)
    <3>1. Unpinned(b) BY <1>0, <2>2 DEF PinsInv
    <3>2. PICK p \in Proc, i \in 1..Len(lh) :
            pc[p] \in {"install", "reset"} /\ i < tail /\ lh[i] = b
      BY <3>1 DEF Unpinned
    <3>3. head = lh /\ disk[b] = logBlocks[i]
      BY <1>0, <1>1, <3>2 DEF UpInv, PhaseInv, Installed
    <3>4. \A q \in Proc : pc[q] # "erase"
      BY <3>2 DEF Solo, CommitterPc, CommitPc
    <3>5. head # <<>> /\ Len(lh) \in Nat BY <3>2, <3>3, HeaderType DEF TypeOK
    <3>6. Logged(lh, Len(lh) + 1) BY <1>0, <1>1, <3>4, <3>5 DEF UpInv, HeadInv
    <3>7. logBlocks[i] = cache[b] BY <3>2, <3>5, <3>6 DEF Logged
    <3>8. QED BY <3>3, <3>7
  <2>3. QED BY <2>1, <2>2
<1>3. cache' = cache BY <1>0, <1>2 DEF TypeOK
<1>4. DiskInv' /\ Replay' = Replay /\ Current' = Current BY <1>0, <1>3, DiskKept
<1>5. QED BY <1>0, <1>4 DEF Active

\* Every step of the log but the recycling of buffers.
LogStep ==
    \/ \E p \in Proc : \/ Call(p) \/ Step(p)
                       \/ \E b \in Block, v \in Val : LogWrite(p, b, v)
    \/ Crash \/ Boot

\* Every such step is one of the atomic disk, or none.
LEMMA StepRefines ==
    ASSUME TypeOK, Solo, Shape, DiskInv, LogStep
    PROVE  DiskInv' /\ [A!Next]_(A!vars)
<1>1. ASSUME NEW p \in Proc, Call(p) \/ BeginOp(p) \/ EndOp(p) \/ EnterCommit(p)
      PROVE  DiskInv' /\ [A!Next]_(A!vars)
  BY <1>1, CallRefines
<1>2. ASSUME NEW p \in Proc, NEW b \in Block, NEW v \in Val, LogWrite(p, b, v)
      PROVE  DiskInv' /\ [A!Next]_(A!vars)
  <2>1. DiskInv' /\ A!Write(p, b, v) BY <1>2, WriteRefines
  <2>2. QED BY <2>1 DEF A!Next
<1>3. ASSUME NEW p \in Proc, WriteHead(p) PROVE DiskInv' /\ [A!Next]_(A!vars)
  <2>1. DiskInv' /\ A!Commit BY <1>3, WriteHeadRefines
  <2>2. QED BY <2>1 DEF A!Next
<1>4. ASSUME NEW p \in Proc,
             \/ Commit(p) \/ WriteLog(p) \/ InstallTrans(p) \/ ResetHeader(p) \/ EraseHead(p)
             \/ Finish(p)
      PROVE  DiskInv' /\ [A!Next]_(A!vars)
  <2>1. DiskInv' /\ Replay' = Replay /\ Current' = Current /\ Active' = Active
    BY <1>4, WriteLogRefines, InstallRefines, EraseRefines, FinishRefines, FinishMoves
  <2>2. QED BY <2>1, Stutters
<1>5. CASE Crash
  <2>1. DiskInv' /\ A!Crash BY <1>5, CrashRefines
  <2>2. QED BY <2>1 DEF A!Next
<1>6. CASE Boot
  <2>1. DiskInv' /\ Replay' = Replay /\ Current' = Current /\ Active' = Active
    BY <1>6, BootRefines
  <2>2. QED BY <2>1, Stutters
<1>7. QED BY <1>1, <1>2, <1>3, <1>4, <1>5, <1>6 DEF LogStep, Step, CommitStep

\* With the pins, this is true of all steps.
LEMMA NextRefines ==
    ASSUME Recycle => MaxCrash = 0, ControlInv, PinsInv, DiskInv, [Next]_vars
    PROVE  DiskInv' /\ [A!Next]_(A!vars)
<1>0. TypeOK /\ Solo /\ Shape BY DEF ControlInv, PinsInv
<1>1. CASE UNCHANGED vars
  <2>1. DiskInv' /\ Replay' = Replay /\ Current' = Current
    BY <1>1, DiskKept DEF vars, onDisk, buffers, header
  <2>2. Active' = Active BY <1>1 DEF vars, Active
  <2>3. QED BY <2>1, <2>2, Stutters
<1>2. CASE LogStep BY <1>0, <1>2, StepRefines
<1>3. ASSUME NEW b \in Block, RecycleBuf(b) PROVE DiskInv' /\ [A!Next]_(A!vars)
  <2>1. crashes = 0 BY <1>3 DEF RecycleBuf, PinsInv, ControlInv, TypeOK
  <2>2. DiskInv' /\ Replay' = Replay /\ Current' = Current /\ Active' = Active
    BY <1>3, <2>1, RecycleRefines
  <2>3. QED BY <2>2, Stutters
<1>4. QED BY <1>1, <1>2, <1>3 DEF Next, LogStep

\* mkfs makes the initial state of an atomic disk.
LEMMA InitRefines == Init => DiskInv /\ A!Init
<1> SUFFICES ASSUME Init PROVE DiskInv /\ A!Init
  OBVIOUS
<1>1. disk \in [Block -> Val] BY ValAssumption DEF Init
<1>2. Replay = disk BY <1>1, ReplayIs, ReplayNothing DEF Init
<1>3. A!Init BY <1>2 DEF Init, A!Init
<1>4. HeadInv /\ \A p \in Proc : PhaseInv(p) BY DEF Init, HeadInv, PhaseInv
<1>5. QED BY <1>3, <1>4 DEF Init, DiskInv, UpInv

\* The log implements an atomic disk: the writes of concurrent system calls
\* become durable in one step (write_head), while no call is active, and a crash
\* at any point, also during boot, undoes exactly what was not durable.  Where
\* buffers are recycled this is claimed until a first crash only: install_trans
\* at boot unpins what is not pinned, and such a buffer can be recycled later
\* while its contents are in no log.
THEOREM LogRefinesAtomicDisk ==
    ASSUME Recycle => MaxCrash = 0
    PROVE  Spec => ImplementsAtomicDisk
<1>1. Init => DiskInv /\ A!Init BY InitRefines
<1>2. ControlInv /\ PinsInv /\ DiskInv /\ [Next]_vars => DiskInv' /\ [A!Next]_(A!vars)
  BY NextRefines
<1>3. QED BY <1>1, <1>2, PinsCorrect, PTL DEF Spec, ImplementsAtomicDisk, A!Spec

-----------------------------------------------------------------------------
(* The log with its recovery handler. *)

\* The accesses after which the handler finds struct log as it expects it: not
\* those of begin_op before and of end_op after the counters have changed, not
\* that of the second write_head, and no object but the log.
RepairedPoints == {"begun", "end", "commit", "finish", "write"}

-----------------------------------------------------------------------------
(* The inductive invariant. *)

\* Who was hit, and what the handler does for it.
VictimInv ==
    /\ victim \in Proc \cup {NoProc} /\ locked \in BOOLEAN
    /\ \A q \in Proc : pc[q] = "hit" => q = victim
    /\ locked => victim # NoProc
    /\ victim # NoProc =>
         /\ pc[victim] \in {"hit", "finish"} \cup CommitPc
         /\ pc[victim] # "hit" => locked
         /\ pc[victim] = "hit" => \A q \in Proc : pc[q] \notin CommitterPc

\* The victim was hit inside its call: outstanding counts it still.
Counted == victim # NoProc /\ pc[victim] = "hit" /\ ~committing

RecCount ==
    /\ outstanding = Cardinality(Active) + (IF Counted THEN 1 ELSE 0)
    /\ dup_outstanding = outstanding /\ dup_lhdr = lh

RecInv == TypeOK /\ Solo /\ Shape /\ DiskInv /\ VictimInv /\ RecCount

-----------------------------------------------------------------------------
(* The log's own steps, between and during recoveries. *)

\* The headers name no block twice, whatever the log does.
LEMMA LogShape ==
    ASSUME TypeOK, Solo, Shape, LogStep
    PROVE  Shape'
<1>0. lh \in Header /\ Len(lh) \in Nat /\ head \in Header /\ tail \in Nat \ {0}
  BY HeaderType DEF TypeOK
<1>1. ASSUME NEW p \in Proc,
             \/ Call(p) \/ BeginOp(p) \/ EndOp(p) \/ EnterCommit(p) \/ Finish(p)
      PROVE  Shape'
  <2>1. UNCHANGED <<lh, head, tail>>
    BY <1>1 DEF Call, BeginOp, EndOp, EnterCommit, Finish, onDisk, header
  <2>2. /\ pc'[p] \notin {"reset", "erase"}
        /\ \A q \in Proc \ {p} : pc'[q] = pc[q] \/ (pc[q] = "asleep" /\ pc'[q] = "woken")
    BY <1>1, EndMoves DEF Call, BeginOp, EndOp, EnterCommit, Finish, At, Goto, WakeAndGoto,
                          TypeOK
  <2>3. QED BY <2>1, <2>2 DEF Shape, Distinct
<1>2. ASSUME NEW p \in Proc, NEW b \in Block, NEW v \in Val, LogWrite(p, b, v)
      PROVE  Shape'
  <2>1. pc[p] = "op" /\ pc' = pc /\ UNCHANGED <<head, tail>>
    BY <1>2 DEF LogWrite, At, onDisk
  <2>2. \A q \in Proc : pc[q] \notin {"install", "reset", "erase"}
    BY <2>1, NobodyInstalls
  <2>3. Distinct(lh')
    <3>1. CASE lh' = lh BY <3>1 DEF Shape, Distinct
    <3>2. CASE Len(lh) < LOGSIZE /\ ~InHeader(b, lh) /\ lh' = Append(lh, b)
      <4>1. /\ Len(lh') = Len(lh) + 1 /\ lh'[Len(lh) + 1] = b
            /\ \A i \in 1..Len(lh) : lh'[i] = lh[i]
        BY <1>0, <3>2, AppendType
      <4>2. QED BY <1>0, <3>2, <4>1 DEF Shape, Distinct, InHeader
    <3>3. ~(Len(lh) >= LOGSIZE) => Len(lh) < LOGSIZE BY <1>0, SizeAssumption
    <3>4. QED BY <1>2, <3>1, <3>2, <3>3 DEF LogWrite, header
  <2>4. QED BY <2>1, <2>2, <2>3 DEF Shape, Distinct
<1>3. ASSUME NEW p \in Proc, CommitStep(p)
      PROVE  Shape'
  <2>1. pc[p] \in CommitPc /\ \A q \in Proc \ {p} : pc'[q] = pc[q] /\ pc[q] \notin CommitPc
    BY <1>3 DEF CommitStep, Commit, WriteLog, WriteHead, InstallTrans, ResetHeader, EraseHead,
                At, Goto, TypeOK, Solo, CommitterPc, CommitPc
  <2>2. lh' \in {lh, <<>>} /\ head' \in {head, lh}
    BY <1>3 DEF CommitStep, Commit, WriteLog, WriteHead, InstallTrans, ResetHeader, EraseHead,
                onDisk, header
  <2>3. Distinct(lh') /\ Distinct(head') BY <2>2, HeaderType DEF Shape, Distinct
  <2>4. pc'[p] = "reset" => tail' > Len(lh')
    BY <1>3 DEF CommitStep, Commit, WriteLog, WriteHead, InstallTrans, ResetHeader, EraseHead,
                At, Goto, TypeOK, header
  <2>5. pc'[p] = "erase" => lh' = <<>>
    BY <1>3 DEF CommitStep, Commit, WriteLog, WriteHead, InstallTrans, ResetHeader, EraseHead,
                At, Goto, TypeOK, header
  <2>6. \A q \in Proc \ {p} : pc'[q] \notin {"reset", "erase"} BY <2>1 DEF CommitPc
  <2>7. QED BY <2>3, <2>4, <2>5, <2>6 DEF Shape
<1>4. CASE Crash \/ Boot
  <2>1. lh' \in {lh, head, <<>>} /\ head' \in {head, lh}
    BY <1>4 DEF Crash, Boot, ReadHead, BootInstall, BootReset, BootErase, header, onDisk
  <2>2. Distinct(lh') /\ Distinct(head') BY <2>1, HeaderType DEF Shape, Distinct
  <2>3. \A q \in Proc : pc'[q] = "idle"
    BY <1>4 DEF Crash, Boot, ReadHead, BootInstall, BootReset, BootErase, Booting, Solo
  <2>4. QED BY <2>2, <2>3 DEF Shape
<1>5. QED BY <1>1, <1>2, <1>3, <1>4 DEF LogStep, Step

\* What the counters mean while a call is active: nobody commits, and with a
\* victim in its call the active one is not the last.
LEMMA ActiveCount ==
    ASSUME TypeOK, Solo, VictimInv, RecCount, NEW p \in Active
    PROVE  /\ ~committing /\ outstanding \in Nat /\ outstanding >= 1
           /\ Cardinality(Active) \in Nat
           /\ Cardinality(Active \ {p}) = Cardinality(Active) - 1
           /\ victim # NoProc => pc[victim] = "hit" /\ Counted /\ outstanding >= 2
           /\ outstanding = 1 => Active \ {p} = {}
<1>1. ~committing BY DEF Solo
<1>2. /\ IsFiniteSet(Active \ {p}) /\ Cardinality(Active \ {p}) = Cardinality(Active) - 1
      /\ Cardinality(Active) \in Nat /\ Cardinality(Active \ {p}) \in Nat
  BY ActiveFinite, FS_RemoveElement, FS_CardinalityType
<1>3. victim # NoProc => pc[victim] = "hit" /\ Counted
  BY <1>1 DEF VictimInv, Solo, Counted, CommitterPc
<1>4. outstanding = Cardinality(Active) + (IF Counted THEN 1 ELSE 0) BY DEF RecCount
<1>5. outstanding = 1 => Cardinality(Active \ {p}) = 0 BY <1>2, <1>4
<1>6. outstanding = 1 => Active \ {p} = {} BY <1>2, <1>5, FS_EmptySet
<1>7. QED BY <1>1, <1>2, <1>3, <1>4, <1>6

\* Steps that enter the section of the log.
LEMMA EnteringRec ==
    ASSUME TypeOK, Solo, VictimInv, RecCount, NEW p \in Proc, Entering(p)
    PROVE  TypeOK' /\ Solo' /\ VictimInv' /\ RecCount'
<1>0. ~locked /\ UNCHANGED <<victim, locked>> BY DEF Entering, recVars
<1>1. victim # NoProc => pc[victim] = "hit" /\ \A q \in Proc : pc[q] \notin CommitterPc
  BY <1>0 DEF VictimInv
<1>2. CASE BeginOp(p)
  <2>1. /\ pc[p] \in {"begin", "woken"} /\ UNCHANGED <<committing, header>>
        /\ pc'[p] \in {"asleep", "op"} /\ \A q \in Proc \ {p} : pc'[q] = pc[q]
    BY <1>2 DEF BeginOp, At, Goto, TypeOK
  <2>2. TypeOK' /\ Solo' BY <1>2, BeginMoves
  <2>3. VictimInv' BY <1>0, <1>1, <2>1 DEF VictimInv, CommitterPc, CommitPc
  <2>4. Counted' <=> Counted BY <1>0, <1>1, <2>1 DEF Counted, VictimInv
  <2>5. RecCount'
    <3>1. CASE Active' = Active /\ UNCHANGED counts
      BY <2>1, <2>4, <3>1 DEF RecCount, counts, header
    <3>2. CASE /\ p \notin Active /\ Active' = Active \cup {p}
               /\ outstanding' = outstanding + 1 /\ dup_outstanding' = dup_outstanding + 1
      <4>1. Cardinality(Active') = Cardinality(Active) + 1 /\ Cardinality(Active) \in Nat
        BY <3>2, ActiveFinite, FS_AddElement, FS_CardinalityType
      <4>2. QED BY <2>1, <2>4, <3>2, <4>1 DEF RecCount, header
    <3>3. QED BY <1>2, <3>1, <3>2, BeginMoves
  <2>6. QED BY <2>2, <2>3, <2>5
<1>3. CASE EndOp(p)
  <2>1. /\ outstanding' = outstanding - 1 /\ dup_outstanding' = dup_outstanding - 1
        /\ UNCHANGED <<onDisk, buffers, header, tail, written, boot, bounds>>
    BY <1>3 DEF EndOp
  <2>2. /\ p \in Active /\ Active' = Active \ {p} /\ halted' = halted
        /\ pc' \in [Proc -> Pc] /\ committing' \in BOOLEAN
        /\ (outstanding = 1 => Active' = {}) => Solo'
    BY <1>3, EndMoves
  <2>3. /\ ~committing /\ outstanding \in Nat /\ outstanding >= 1
        /\ Cardinality(Active) \in Nat /\ Cardinality(Active') = Cardinality(Active) - 1
        /\ victim # NoProc => Counted /\ outstanding >= 2
        /\ outstanding = 1 => Active' = {}
    BY <2>2, ActiveCount
  <2>4. TypeOK'
    <3>1. outstanding' \in Nat /\ dup_outstanding' \in Nat BY <2>1, <2>3 DEF RecCount
    <3>2. QED BY <2>1, <2>2, <3>1 DEF TypeOK, onDisk, buffers, header, bounds
  <2>5. VictimInv' /\ (Counted' <=> Counted)
    <3>1. CASE victim = NoProc
      <4>1. \A q \in Proc : pc[q] # "hit" BY <3>1, NoProcAssumption DEF VictimInv
      <4>2. \A q \in Proc : pc'[q] # "hit"
        BY <1>3, <4>1 DEF EndOp, Goto, WakeAndGoto, TypeOK
      <4>3. QED BY <1>0, <3>1, <4>2 DEF VictimInv, Counted
    <3>2. CASE victim # NoProc
      <4>1. victim # p /\ victim \in Proc /\ pc[victim] = "hit"
        BY <1>1, <2>2, <3>2 DEF VictimInv, Active
      <4>2. WakeAndGoto(p, "idle") /\ committing' = committing
        BY <1>3, <2>3, <3>2 DEF EndOp
      <4>3. \A q \in Proc : \/ pc'[q] = pc[q] \/ pc'[q] \in {"idle", "woken"}
        BY <4>2 DEF WakeAndGoto
      <4>4. pc'[victim] = "hit" BY <4>1, <4>2 DEF WakeAndGoto
      <4>5. \A q \in Proc : pc'[q] \notin CommitterPc
        BY <1>1, <3>2, <4>3 DEF CommitterPc, CommitPc
      <4>6. QED BY <1>0, <4>1, <4>2, <4>3, <4>4, <4>5 DEF VictimInv, Counted
    <3>3. QED BY <3>1, <3>2
  <2>6. RecCount' BY <2>1, <2>3, <2>5 DEF RecCount, header
  <2>7. QED BY <2>2, <2>3, <2>4, <2>5, <2>6
<1>4. CASE EnterCommit(p)
  <2>1. victim = NoProc BY <1>1, <1>4 DEF EnterCommit, At, CommitterPc
  <2>2. /\ TypeOK' /\ Solo' /\ Active' = Active /\ dup_lhdr' = lh'
        /\ UNCHANGED <<counts, committing>>
    BY <1>4, CommitMoves DEF RecCount
  <2>3. \A q \in Proc : pc[q] # "hit" BY <2>1, NoProcAssumption DEF VictimInv
  <2>4. \A q \in Proc : pc'[q] # "hit"
    BY <1>4, <2>3 DEF EnterCommit, Goto, TypeOK
  <2>5. VictimInv' /\ ~Counted /\ ~Counted' BY <1>0, <2>1, <2>4 DEF VictimInv, Counted
  <2>6. QED BY <2>2, <2>5 DEF RecCount, counts
<1>5. CASE Finish(p)
  <2>1. victim = NoProc BY <1>1, <1>5 DEF Finish, At, CommitterPc
  <2>2. TypeOK' /\ Solo' /\ Active' = Active BY <1>5, FinishMoves
  <2>3. \A q \in Proc : pc[q] # "hit" BY <2>1, NoProcAssumption DEF VictimInv
  <2>4. \A q \in Proc : pc'[q] # "hit" BY <1>5, <2>3 DEF Finish, WakeAndGoto
  <2>5. VictimInv' /\ ~Counted /\ ~Counted' BY <1>0, <2>1, <2>4 DEF VictimInv, Counted
  <2>6. QED BY <1>5, <2>2, <2>5 DEF Finish, RecCount, counts, header
<1>6. ASSUME NEW b \in Block, NEW v \in Val, LogWrite(p, b, v)
      PROVE  TypeOK' /\ Solo' /\ VictimInv' /\ RecCount'
  <2>1. TypeOK' /\ Solo' /\ Active' = Active /\ UNCHANGED counts /\ dup_lhdr' = lh'
    BY <1>6, WriteMoves DEF RecCount
  <2>2. pc' = pc /\ committing' = committing BY <1>6 DEF LogWrite
  <2>3. QED BY <1>0, <2>1, <2>2 DEF VictimInv, RecCount, Counted, counts
<1>7. QED BY <1>2, <1>3, <1>4, <1>5, <1>6 DEF Entering

\* commit(), of a system call or of the handler.
LEMMA InsideRec ==
    ASSUME TypeOK, Solo, VictimInv, RecCount, NEW p \in Proc, Inside(p)
    PROVE  TypeOK' /\ Solo' /\ VictimInv' /\ RecCount'
<1>0. CommitStep(p) /\ UNCHANGED <<victim, locked>> BY DEF Inside, recVars
<1>1. /\ TypeOK' /\ Solo' /\ Active' = Active /\ dup_lhdr' = lh'
      /\ UNCHANGED <<counts, committing>>
  BY <1>0, CommitMoves DEF RecCount
<1>2. /\ pc[p] \in CommitPc /\ pc'[p] \in {"finish"} \cup CommitPc
      /\ \A q \in Proc \ {p} : pc'[q] = pc[q]
  BY <1>0 DEF CommitStep, Commit, WriteLog, WriteHead, InstallTrans, ResetHeader, EraseHead,
              At, Goto, TypeOK, CommitPc
<1>3. victim # NoProc => pc[victim] # "hit" /\ victim = p
  BY <1>2 DEF VictimInv, Solo, CommitterPc
<1>4. VictimInv'
  BY <1>0, <1>2, <1>3 DEF VictimInv, CommitPc
<1>5. ~Counted /\ ~Counted' BY <1>0, <1>2, <1>3 DEF Counted, CommitPc
<1>6. QED BY <1>1, <1>4, <1>5 DEF RecCount, counts

-----------------------------------------------------------------------------
(* Memory errors and their recovery. *)

\* A step of the handler or of the hardware that leaves disk and buffers alone.
LEMMA QuietRefines ==
    ASSUME TypeOK, DiskInv, Shape,
           UNCHANGED <<disk, logBlocks, head, cache, lh, tail, boot, halted>>,
           committing => committing',
           \/ \A q \in Proc : \A l \in PhasePc : pc'[q] = l <=> pc[q] = l
           \/ \E p \in Proc : /\ pc[p] # "erase" /\ pc'[p] \notin PhasePc
                              /\ \A q \in Proc \ {p} : pc'[q] = pc[q],
           Active' = Active \/ \E p \in Active : Active' = Active \ {p}
    PROVE  DiskInv' /\ Shape' /\ [A!Next]_(A!vars)
<1>0. \A q \in Proc : \A l \in PhasePc : pc'[q] = l => pc[q] = l
  OBVIOUS
<1>1. Shape' BY <1>0 DEF Shape, Distinct, PhasePc
<1>2. Replay' = Replay /\ Current' = Current BY DEF Current, Replay
<1>3. DiskInv'
  <2>1. CASE boot # "up" BY <2>1 DEF DiskInv, BootInv, Installed
  <2>2. CASE boot = "up" /\ ~halted
    <3>1. \A q \in Proc : pc[q] = "erase" => pc'[q] = "erase" BY DEF PhasePc
    <3>2. HeadInv' BY <2>2, <3>1 DEF DiskInv, UpInv, HeadInv, Logged, Installed
    <3>3. \A q \in Proc : PhaseInv(q)'
      BY <1>0, <2>2 DEF DiskInv, UpInv, PhaseInv, Logged, Installed, PhasePc
    <3>4. QED BY <2>2, <3>2, <3>3 DEF DiskInv, UpInv
  <2>3. CASE boot = "up" /\ halted BY <2>3 DEF DiskInv, UpInv
  <2>4. QED BY <2>1, <2>2, <2>3
<1>4. CASE Active' = Active BY <1>1, <1>2, <1>3, <1>4, Stutters
<1>5. ASSUME NEW p \in Active, Active' = Active \ {p} PROVE [A!Next]_(A!vars)
  <2>1. p \in Proc BY DEF Active
  <2>2. A!End(p) BY <1>2, <1>5 DEF A!End, Active, Current
  <2>3. QED BY <2>1, <2>2 DEF A!Next
<1>6. QED BY <1>1, <1>3, <1>4, <1>5

\* An access fails: the call of the victim is over for the atomic disk, its
\* entry in outstanding remains for the handler.
LEMMA FailRec ==
    ASSUME HitPoints \subseteq RepairedPoints, RecInv, NEW p \in Proc, Fail(p)
    PROVE  RecInv' /\ [A!Next]_(A!vars)
<1> USE DEF RecInv
<1>1. \/ HitBegun(p) \/ HitEnd(p) \/ HitCommit(p) \/ HitFinish(p) \/ HitFailStop(p)
  BY DEF Fail, HitBegin, HitEnded, HitErase, AlreadyRecovered, Hit, RepairedPoints
<1>2. CASE HitFailStop(p)
  <2>1. /\ halted' = TRUE /\ boot = "up" /\ UNCHANGED <<victim, locked, pc, committing>>
        /\ UNCHANGED <<onDisk, buffers, header, counts, committing, tail, written, boot, bounds>>
    BY <1>2 DEF HitFailStop, Halt, At
  <2>2. TypeOK'
    BY <2>1 DEF TypeOK, onDisk, buffers, header, counts, bounds
  <2>3. /\ Solo' /\ Shape' /\ VictimInv' /\ RecCount' /\ DiskInv'
    BY <2>1 DEF Solo, Shape, VictimInv, RecCount, DiskInv, UpInv, Active, Counted, Distinct,
                onDisk, header, counts
  <2>4. Replay' = Replay /\ Current' = Current /\ Active' = Active
    BY <2>1 DEF Replay, Current, Active, onDisk, buffers
  <2>5. QED BY <2>2, <2>3, <2>4, Stutters
<1>3. CASE HitBegun(p) \/ HitEnd(p) \/ HitCommit(p) \/ HitFinish(p)
  <2>1. /\ victim = NoProc /\ victim' = p /\ pc' = [pc EXCEPT ![p] = "hit"] /\ locked' = locked
        /\ UNCHANGED <<onDisk, buffers, header, committing, tail, written, boot, halted, bounds>>
    BY <1>3 DEF HitBegun, HitEnd, HitCommit, HitFinish, Hit, Goto
  <2>2. /\ pc'[p] = "hit" /\ \A q \in Proc \ {p} : pc'[q] = pc[q]
        /\ boot = "up" /\ pc[p] # "erase" /\ p # NoProc
    BY <1>3, <2>1, NoProcAssumption
    DEF HitBegun, HitEnd, HitCommit, HitFinish, At, TypeOK, CommitPc
  <2>3. \A q \in Proc \ {p} : pc[q] \notin {"hit"} \cup CommitterPc
    <3>1. CASE pc[p] \in CommitterPc BY <2>1, <3>1, NoProcAssumption DEF VictimInv, Solo
    <3>2. CASE ~committing BY <2>1, <3>2, NoProcAssumption DEF VictimInv, Solo
    <3>3. QED
      BY <1>3, <3>1, <3>2
      DEF HitBegun, HitEnd, HitCommit, HitFinish, At, Solo, Active, CommitterPc
  <2>4. Active' = Active \ {p} BY <2>2 DEF Active
  <2>5. Solo'
    <3>1. \A q \in Proc : pc'[q] \notin CommitterPc
      BY <2>2, <2>3 DEF CommitterPc, CommitPc
    <3>2. QED BY <2>1, <2>2, <2>4, <3>1 DEF Solo
  <2>6. VictimInv'
    <3>1. \A q \in Proc : pc'[q] = "hit" => q = p BY <2>2, <2>3
    <3>2. \A q \in Proc : pc'[q] \notin CommitterPc
      BY <2>2, <2>3 DEF CommitterPc, CommitPc
    <3>3. QED BY <2>1, <2>2, <3>1, <3>2 DEF VictimInv
  <2>7. ~Counted /\ Cardinality(Active) \in Nat /\ (Counted' <=> ~committing)
    BY <2>1, <2>2, ActiveFinite, FS_CardinalityType DEF Counted
  <2>8. RecCount' /\ outstanding' \in Nat /\ dup_outstanding' \in Nat
    <3>1. CASE HitBegun(p)
      <4>1. /\ outstanding' = outstanding + 1 /\ dup_outstanding' = dup_outstanding + 1
            /\ ~committing /\ p \notin Active
        BY <3>1 DEF HitBegun, At, Active
      <4>2. Active' = Active BY <2>4, <4>1
      <4>3. QED BY <2>1, <2>7, <4>1, <4>2 DEF RecCount, header, TypeOK
    <3>2. CASE HitEnd(p)
      <4>1. p \in Active /\ UNCHANGED counts BY <3>2 DEF HitEnd, At, Active
      <4>2. ~committing /\ Cardinality(Active') = Cardinality(Active) - 1
        BY <2>4, <4>1, ActiveCount
      <4>3. QED BY <2>1, <2>7, <4>1, <4>2 DEF RecCount, header, counts, TypeOK
    <3>3. CASE HitCommit(p) \/ HitFinish(p)
      <4>1. /\ pc[p] \in CommitterPc /\ p \notin Active /\ UNCHANGED counts
        BY <3>3 DEF HitCommit, HitFinish, At, Active, CommitterPc, CommitPc
      <4>2. committing /\ Active' = Active BY <2>4, <4>1 DEF Solo
      <4>3. QED BY <2>1, <2>7, <4>1, <4>2 DEF RecCount, header, counts, TypeOK
    <3>4. QED BY <1>3, <3>1, <3>2, <3>3
  <2>9. TypeOK'
    <3>1. pc' \in [Proc -> Pc] BY <2>1 DEF TypeOK, Pc
    <3>2. QED BY <2>1, <2>8, <3>1 DEF TypeOK, onDisk, buffers, header, bounds
  <2>10. DiskInv' /\ Shape' /\ [A!Next]_(A!vars)
    <3>1. /\ UNCHANGED <<disk, logBlocks, head, cache, lh, tail, boot, halted>>
          /\ committing => committing'
      BY <2>1 DEF onDisk, buffers, header
    <3>2. \E q \in Proc : /\ pc[q] # "erase" /\ pc'[q] \notin PhasePc
                          /\ \A r \in Proc \ {q} : pc'[r] = pc[r]
      BY <2>2 DEF PhasePc
    <3>3. Active' = Active \/ \E q \in Active : Active' = Active \ {q} BY <2>4
    <3>4. QED BY <3>1, <3>2, <3>3, QuietRefines
  <2>11. QED BY <2>5, <2>6, <2>8, <2>9, <2>10
<1>4. QED BY <1>1, <1>2, <1>3

\* recovery_handler_log rebuilds struct log from the replicas, gives up the
\* victim's call and commits when no call is left.
LEMMA SurgeryRec ==
    ASSUME RecInv, NEW p \in Proc, Surgery(p)
    PROVE  RecInv' /\ [A!Next]_(A!vars)
<1> USE DEF RecInv
<1>1. /\ pc[p] = "hit" /\ boot = "up" /\ ~halted /\ locked
      /\ lh' = dup_lhdr /\ dup_lhdr' = dup_lhdr
      /\ outstanding' = Remaining(dup_outstanding)
      /\ dup_outstanding' = Remaining(dup_outstanding) /\ AfterSurgery(p)
      /\ UNCHANGED <<onDisk, buffers, tail, written, boot, halted, bounds>>
  BY DEF Surgery, Alone, At
<1>2. /\ victim = p /\ p # NoProc /\ lh' = lh /\ dup_lhdr' = lh'
      /\ \A q \in Proc : pc[q] \notin CommitterPc
  BY <1>1, NoProcAssumption DEF VictimInv, RecCount
<1>3. Cardinality(Active) \in Nat BY ActiveFinite, FS_CardinalityType
<1>4. outstanding' = Cardinality(Active) /\ dup_outstanding' = outstanding'
  <2>1. CASE committing
    <3>1. Active = {} /\ ~Counted BY <2>1 DEF Solo, Counted
    <3>2. Cardinality(Active) = 0 BY <3>1, FS_EmptySet
    <3>3. dup_outstanding = 0 BY <3>1, <3>2 DEF RecCount
    <3>4. QED BY <1>1, <3>2, <3>3 DEF Remaining
  <2>2. CASE ~committing
    <3>1. Counted BY <1>1, <1>2, <2>2 DEF Counted
    <3>2. dup_outstanding = Cardinality(Active) + 1 BY <3>1 DEF RecCount
    <3>3. QED BY <1>1, <1>3, <3>2 DEF Remaining
  <2>3. QED BY <2>1, <2>2
<1>5. \/ /\ outstanding' = 0 /\ committing' = TRUE /\ pc' = [pc EXCEPT ![p] = "commit"]
         /\ victim' = p /\ locked' = TRUE
      \/ /\ outstanding' # 0 /\ committing' = FALSE /\ pc' = [pc EXCEPT ![p] = "idle"]
         /\ victim' = NoProc /\ locked' = FALSE
  BY <1>1, <1>2 DEF AfterSurgery, Goto, VictimInv
<1>6. /\ pc'[p] \in {"commit", "idle"} /\ \A q \in Proc \ {p} : pc'[q] = pc[q]
  BY <1>5 DEF TypeOK
<1>7. Active' = Active BY <1>1, <1>6 DEF Active
<1>8. committing => committing'
  <2>1. committing => Cardinality(Active) = 0 BY FS_EmptySet DEF Solo
  <2>2. QED BY <1>4, <1>5, <2>1
<1>9. Solo'
  <2>1. committing' => Active' = {}
    <3>1. Cardinality(Active) = 0 => Active = {} BY ActiveFinite, FS_EmptySet
    <3>2. QED BY <1>4, <1>5, <1>7, <3>1
  <2>2. \A q \in Proc : pc'[q] \in CommitterPc => q = p /\ pc'[p] = "commit"
    BY <1>2, <1>6 DEF CommitterPc, CommitPc
  <2>3. pc'[p] = "commit" => committing' BY <1>5, <1>6 DEF TypeOK
  <2>4. QED BY <1>1, <2>1, <2>2, <2>3 DEF Solo
<1>10. VictimInv'
  <2>1. \A q \in Proc : pc'[q] # "hit" BY <1>2, <1>6 DEF VictimInv
  <2>2. victim' # NoProc => victim' = p /\ locked' /\ pc'[p] = "commit"
    BY <1>5, <1>6 DEF TypeOK
  <2>3. victim' \in Proc \cup {NoProc} /\ locked' \in BOOLEAN /\ (locked' => victim' # NoProc)
    BY <1>2, <1>5
  <2>4. QED BY <2>1, <2>2, <2>3 DEF VictimInv, CommitPc
<1>11. RecCount'
  <2>1. ~Counted' BY <1>5, <1>6 DEF Counted
  <2>2. QED BY <1>2, <1>3, <1>4, <1>7, <2>1 DEF RecCount
<1>12. TypeOK'
  <2>1. pc' \in [Proc -> Pc] BY <1>5 DEF TypeOK, Pc, CommitPc
  <2>2. outstanding' \in Nat /\ dup_outstanding' \in Nat BY <1>3, <1>4
  <2>3. QED BY <1>1, <1>2, <1>5, <2>1, <2>2 DEF TypeOK, onDisk, buffers, bounds
<1>13. DiskInv' /\ Shape' /\ [A!Next]_(A!vars)
  <2>1. /\ UNCHANGED <<disk, logBlocks, head, cache, lh, tail, boot, halted>>
    BY <1>1, <1>2 DEF onDisk, buffers
  <2>2. \E q \in Proc : /\ pc[q] # "erase" /\ pc'[q] \notin PhasePc
                        /\ \A r \in Proc \ {q} : pc'[r] = pc[r]
    BY <1>1, <1>6 DEF PhasePc
  <2>3. QED BY <1>7, <1>8, <2>1, <2>2, QuietRefines
<1>14. QED BY <1>9, <1>10, <1>11, <1>12, <1>13

\* The other steps of recovery_handler_log.
LEMMA HandlerRec ==
    ASSUME RecInv, NEW p \in Proc, LockLog(p) \/ CountLog(p) \/ EndRecovery(p)
    PROVE  RecInv' /\ [A!Next]_(A!vars)
<1> USE DEF RecInv
<1>1. CASE LockLog(p)
  <2>1. UNCHANGED <<vars, victim>> /\ locked' = TRUE /\ victim # NoProc
    BY <1>1, NoProcAssumption DEF LockLog, At, VictimInv
  <2>2. TypeOK' /\ Solo' /\ Shape' /\ RecCount'
    BY <2>1 DEF TypeOK, Solo, Shape, RecCount, Counted, Distinct, Active, vars, onDisk, buffers,
                header, counts, bounds
  <2>3. VictimInv' BY <2>1 DEF VictimInv, vars
  <2>4. DiskInv' /\ Replay' = Replay /\ Current' = Current
    BY <2>1, DiskKept DEF vars, onDisk, buffers, header
  <2>5. Active' = Active BY <2>1 DEF vars, Active
  <2>6. QED BY <2>2, <2>3, <2>4, <2>5, Stutters
<1>2. CASE CountLog(p)
  <2>1. /\ halted' = TRUE /\ boot = "up" /\ UNCHANGED <<victim, locked, pc>>
        /\ UNCHANGED <<onDisk, buffers, header, counts, committing, tail, written, boot, bounds>>
    BY <1>2 DEF CountLog, Halt, At, recVars
  <2>2. TypeOK'
    BY <2>1 DEF TypeOK, onDisk, buffers, header, counts, bounds
  <2>3. /\ Solo' /\ Shape' /\ VictimInv' /\ RecCount' /\ DiskInv'
    BY <2>1 DEF Solo, Shape, VictimInv, RecCount, DiskInv, UpInv, Active, Counted, Distinct,
                onDisk, header, counts
  <2>4. Replay' = Replay /\ Current' = Current /\ Active' = Active
    BY <2>1 DEF Replay, Current, Active, onDisk, buffers
  <2>5. QED BY <2>2, <2>3, <2>4, Stutters
<1>3. CASE EndRecovery(p)
  <2>1. Finish(p) /\ victim = p /\ victim' = NoProc /\ locked' = FALSE
    BY <1>3 DEF EndRecovery
  <2>2. TypeOK' /\ Solo' /\ Active' = Active BY <2>1, FinishMoves
  <2>3. DiskInv' /\ Replay' = Replay /\ Current' = Current BY <2>1, FinishRefines
  <2>4. Shape' BY <2>1, LogShape DEF LogStep, Step
  <2>5. \A q \in Proc : pc'[q] # "hit"
    BY <2>1 DEF Finish, At, WakeAndGoto, VictimInv
  <2>6. VictimInv' BY <2>1, <2>5 DEF VictimInv
  <2>7. ~Counted /\ ~Counted' BY <2>1 DEF Counted, Finish, At
  <2>8. RecCount' BY <2>1, <2>2, <2>7 DEF RecCount, Finish, counts, header
  <2>9. QED BY <2>2, <2>3, <2>4, <2>6, <2>8, Stutters
<1>4. QED BY <1>1, <1>2, <1>3

\* Every step of the log with memory errors is one of the atomic disk, or none.
LEMMA RecNextRefines ==
    ASSUME HitPoints \subseteq RepairedPoints, ~Recycle, RecInv, [RecNext]_allVars
    PROVE  RecInv' /\ [A!Next]_(A!vars)
<1>0. TypeOK /\ Solo /\ Shape /\ DiskInv /\ VictimInv /\ RecCount BY DEF RecInv
<1>1. CASE UNCHANGED allVars
  <2>1. UNCHANGED <<vars, recVars>> BY <1>1 DEF allVars
  <2>2. TypeOK' /\ Solo' /\ Shape' /\ RecCount' /\ VictimInv'
    BY <1>0, <2>1 DEF TypeOK, Solo, Shape, RecCount, VictimInv, Counted, Distinct, Active, vars,
                      recVars, onDisk, buffers, header, counts, bounds
  <2>3. DiskInv' /\ Replay' = Replay /\ Current' = Current
    BY <1>0, <2>1, DiskKept DEF vars, onDisk, buffers, header
  <2>4. Active' = Active BY <2>1 DEF vars, Active
  <2>5. QED BY <2>2, <2>3, <2>4, Stutters DEF RecInv
<1>2. ASSUME NEW p \in Proc, Entering(p) PROVE RecInv' /\ [A!Next]_(A!vars)
  <2>1. LogStep BY <1>2 DEF Entering, LogStep, Step
  <2>2. QED BY <1>0, <1>2, <2>1, EnteringRec, LogShape, StepRefines DEF RecInv
<1>3. ASSUME NEW p \in Proc, Inside(p) PROVE RecInv' /\ [A!Next]_(A!vars)
  <2>1. LogStep BY <1>3 DEF Inside, LogStep, Step
  <2>2. QED BY <1>0, <1>3, <2>1, InsideRec, LogShape, StepRefines DEF RecInv
<1>4. ASSUME NEW p \in Proc, Recovery(p) \/ Fail(p) PROVE RecInv' /\ [A!Next]_(A!vars)
  BY <1>4, FailRec, SurgeryRec, HandlerRec DEF Recovery
<1>5. ASSUME NEW p \in Proc, Call(p) /\ UNCHANGED recVars PROVE RecInv' /\ [A!Next]_(A!vars)
  <2>1. LogStep BY <1>5 DEF LogStep
  <2>2. TypeOK' /\ Solo' /\ Active' = Active BY <1>0, <1>5, CallMoves
  <2>3. /\ pc[p] = "idle" /\ pc'[p] = "begin" /\ \A q \in Proc \ {p} : pc'[q] = pc[q]
        /\ UNCHANGED <<victim, locked, committing>>
    BY <1>0, <1>5 DEF Call, At, Goto, TypeOK, recVars
  <2>4. victim # p /\ victim' = victim BY <1>0, <2>3, NoProcAssumption DEF VictimInv, CommitPc
  <2>5. VictimInv' /\ (Counted' <=> Counted)
    BY <1>0, <2>3, <2>4 DEF VictimInv, Counted, CommitterPc, CommitPc
  <2>6. RecCount' BY <1>0, <1>5, <2>2, <2>5 DEF Call, RecCount, counts, header
  <2>7. QED BY <1>0, <2>1, <2>2, <2>5, <2>6, LogShape, StepRefines DEF RecInv
<1>6. CASE RecCrash \/ (Boot /\ UNCHANGED recVars)
  <2>1. LogStep BY <1>6 DEF LogStep, RecCrash
  <2>2. /\ TypeOK' /\ Solo' /\ Active' = {} /\ dup_lhdr' = lh'
        /\ \/ Crash /\ outstanding' = 0 /\ dup_outstanding' = 0
           \/ Boot /\ Active = {} /\ UNCHANGED counts
    BY <1>0, <1>6, BootMoves DEF RecCrash, RecCount
  <2>3. \A q \in Proc : pc'[q] = "idle"
    BY <1>0, <1>6 DEF RecCrash, Crash, Boot, ReadHead, BootInstall, BootReset, BootErase,
                      Booting, Solo
  <2>4. victim' = NoProc /\ locked' = FALSE
    <3>1. CASE RecCrash BY <3>1 DEF RecCrash
    <3>2. CASE Boot /\ UNCHANGED recVars
      <4>1. \A q \in Proc : pc[q] = "idle"
        BY <1>0, <3>2 DEF Boot, ReadHead, BootInstall, BootReset, BootErase, Booting, Solo
      <4>2. victim = NoProc /\ locked = FALSE BY <1>0, <4>1 DEF VictimInv, CommitPc
      <4>3. QED BY <3>2, <4>2 DEF recVars
    <3>3. QED BY <1>6, <3>1, <3>2
  <2>5. VictimInv' /\ ~Counted' BY <2>3, <2>4 DEF VictimInv, Counted
  <2>6. RecCount'
    <3>1. CASE Crash BY <2>2, <2>5, <3>1, FS_EmptySet DEF RecCount, Crash
    <3>2. CASE Boot /\ UNCHANGED recVars
      <4>1. Active = {} /\ UNCHANGED counts
        BY <1>0, <3>2, BootMoves DEF RecCount, Boot, ReadHead, BootInstall, BootReset,
                                     BootErase, Booting, Solo, Active
      <4>2. ~Counted
        BY <1>0, <3>2 DEF Counted, VictimInv, Boot, ReadHead, BootInstall, BootReset,
                          BootErase, Booting, Solo
      <4>3. QED BY <1>0, <2>2, <2>5, <4>1, <4>2 DEF RecCount, counts
    <3>3. QED BY <1>6, <3>1, <3>2 DEF RecCrash
  <2>7. QED BY <1>0, <2>1, <2>2, <2>5, <2>6, LogShape, StepRefines DEF RecInv
<1>7. QED
  BY <1>1, <1>2, <1>3, <1>4, <1>5, <1>6 DEF RecNext, RecycleBuf

\* The state after mkfs, before any memory error.
LEMMA RecInitRefines == RecInit => RecInv /\ A!Init
<1> SUFFICES ASSUME RecInit PROVE RecInv /\ A!Init
  OBVIOUS
<1>1. ControlInv /\ PinsInv /\ DiskInv /\ A!Init
  BY InitControl, InitPins, InitRefines DEF RecInit
<1>2. victim = NoProc /\ locked = FALSE /\ \A q \in Proc : pc[q] = "idle"
  BY DEF RecInit, Init
<1>3. VictimInv /\ ~Counted BY <1>2 DEF VictimInv, Counted
<1>4. Cardinality(Active) \in Nat BY ActiveFinite, FS_CardinalityType
<1>5. RecCount BY <1>1, <1>3, <1>4 DEF ControlInv, CountInv, RecCount
<1>6. QED BY <1>1, <1>3, <1>5 DEF RecInv, ControlInv, PinsInv

\* The invariant of the log with its handler holds in every reachable state.
LEMMA RecCorrect ==
    ASSUME HitPoints \subseteq RepairedPoints, ~Recycle
    PROVE  RecSpec => []RecInv
<1>1. RecInv /\ [RecNext]_allVars => RecInv' BY RecNextRefines
<1>2. RecInit => RecInv BY RecInitRefines
<1>3. QED BY <1>1, <1>2, PTL DEF RecSpec

\* outstanding counts exactly the system calls that are active, also after the
\* struct log that counted them was lost and rebuilt, and after repeated errors.
THEOREM RecoveryCountsExactly ==
    ASSUME HitPoints \subseteq RepairedPoints, ~Recycle
    PROVE  RecSpec => []OutstandingExact
<1>1. RecInv => OutstandingExact
  <2> SUFFICES ASSUME RecInv, victim = NoProc PROVE outstanding = Cardinality(Active)
    BY DEF OutstandingExact, Active
  <2>1. Cardinality(Active) \in Nat BY ActiveFinite, FS_CardinalityType
  <2>2. QED BY <2>1 DEF RecInv, RecCount, Counted
<1>2. QED BY <1>1, RecCorrect, PTL

\* The replicas that the next recovery of struct log starts from agree with it.
THEOREM RecoveryKeepsReplicas ==
    ASSUME HitPoints \subseteq RepairedPoints, ~Recycle
    PROVE  RecSpec => []ReplicasInSync
<1>1. RecInv => ReplicasInSync BY DEF RecInv, RecCount, ReplicasInSync
<1>2. QED BY <1>1, RecCorrect, PTL

\* The log implements an atomic disk although memory errors lose struct log and
\* the handler gives up system calls and commits for them: at any point of any
\* recovery a crash loses all since the last commit or nothing.
THEOREM RecoveryRefinesAtomicDisk ==
    ASSUME HitPoints \subseteq RepairedPoints, ~Recycle
    PROVE  RecSpec => ImplementsAtomicDisk
<1>1. RecInv /\ [RecNext]_allVars => [A!Next]_(A!vars) BY RecNextRefines
<1>2. RecInit => A!Init BY RecInitRefines
<1>3. QED BY <1>1, <1>2, RecCorrect, PTL DEF RecSpec, ImplementsAtomicDisk, A!Spec
=============================================================================
