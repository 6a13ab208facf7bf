------------------------ MODULE RecoveryLockingProofs ------------------------
(***************************************************************************)
(* TLAPS proofs about the recovery-locking mechanism, for every set of     *)
(* processes, flags, kernel paths and recovery handlers; from NumInv on    *)
(* for paths that keep the discipline of RcsDiscipline.                    *)
(***************************************************************************)
EXTENDS RcsDiscipline, SequenceTheorems, FiniteSetTheorems,
        WellFoundedInduction, TLAPS

\* Adding to a history keeps it a sequence of flags that fits the array.
LEMMA AddHistoryType ==
    ASSUME NEW h \in Seq(Flag), Len(h) <= HistorySize, NEW f \in Flag
    PROVE  AddHistory(h, f) \in Seq(Flag) /\ Len(AddHistory(h, f)) <= HistorySize
  BY SizeAssumption, AppendProperties DEF AddHistory

\* Removing one slot keeps the other ones.
LEMMA WithoutType ==
    ASSUME NEW h \in Seq(Flag), NEW i \in 1..Len(h)
    PROVE  Without(h, i) \in Seq(Flag) /\ Len(Without(h, i)) = Len(h) - 1
  <1> DEFINE a == SubSeq(h, 1, i - 1)
             b == SubSeq(h, i + 1, Len(h))
  <1>0. /\ Len(h) \in Nat /\ i \in Int
        /\ \A j \in 1..(i - 1) : h[j] \in Flag
        /\ \A j \in (i + 1)..Len(h) : h[j] \in Flag
    OBVIOUS
  <1>1. a \in Seq(Flag) /\ Len(a) = i - 1
    <2>1. /\ a \in Seq(Flag)
          /\ Len(a) = IF 1 <= i - 1 THEN (i - 1) - 1 + 1 ELSE 0
      BY <1>0, SubSeqProperties
    <2>2. QED
      BY <2>1, <1>0
  <1>2. b \in Seq(Flag) /\ Len(b) = Len(h) - i
    <2>1. /\ b \in Seq(Flag)
          /\ Len(b) = IF i + 1 <= Len(h) THEN Len(h) - (i + 1) + 1 ELSE 0
      BY <1>0, SubSeqProperties
    <2>2. QED
      BY <2>1, <1>0
  <1>3. a \o b \in Seq(Flag) /\ Len(a \o b) = Len(a) + Len(b)
    BY <1>1, <1>2, ConcatProperties
  <1>4. Without(h, i) = a \o b
    BY DEF Without
  <1>5. Len(a) + Len(b) = Len(h) - 1
    <2> HIDE DEF a, b
    <2> QED
      BY <1>0, <1>1, <1>2
  <1>6. QED
    BY <1>3, <1>4, <1>5

\* A nonempty set of positions has a last one.
LEMMA LastPosition ==
    ASSUME NEW n \in Nat, NEW T, T \subseteq 1..n, T # {}
    PROVE  \E i \in T : \A j \in T : j <= i
  <1> DEFINE D == {n - i : i \in T}
  <1>1. D \subseteq Nat /\ D # {}
    <2>1. \A i \in T : i \in Int /\ n - i \in Nat
      OBVIOUS
    <2>2. QED
      BY <2>1
  <1>2. PICK d \in D : \A e \in D : ~ (<<e, d>> \in OpToRel(<, Nat))
    BY <1>1, NatLessThanWellFounded, WFMin, Zenon
  <1>3. \A e \in D : d <= e
    <2>1. OpToRel(<, Nat) = {ss \in Nat \X Nat : ss[1] < ss[2]}
      BY Zenon DEF OpToRel
    <2>2. \A e \in Nat : e < d => <<e, d>> \in {ss \in Nat \X Nat : ss[1] < ss[2]}
      BY <1>1
    <2>3. \A e \in D : ~ (e < d)
      BY <1>1, <1>2, <2>1, <2>2
    <2>4. QED
      BY <1>1, <2>3
  <1>4. PICK i \in T : d = n - i
    OBVIOUS
  <1>5. \A j \in T : j <= i
    <2> TAKE j \in T
    <2>1. n - j \in D
      OBVIOUS
    <2>2. d <= n - j
      BY <2>1, <1>3
    <2>3. QED
      BY <2>2, <1>4
  <1>6. QED
    BY <1>5

\* Deleting from a history, found or not, keeps it a history.
LEMMA DelHistoryType ==
    ASSUME NEW h \in Seq(Flag), Len(h) <= HistorySize, NEW f \in Flag
    PROVE  DelHistory(h, f) \in Seq(Flag) /\ Len(DelHistory(h, f)) <= HistorySize
  <1> DEFINE slots == {i \in 1..Len(h) : h[i] = f}
             front == SubSeq(h, 1, Len(h) - 1)
  <1>0. Len(h) \in Nat /\ slots \subseteq 1..Len(h)
    OBVIOUS
  <1>1. CASE slots # {}
    <2> DEFINE last == CHOOSE i \in slots : \A j \in slots : j <= i
    <2>1. \E i \in slots : \A j \in slots : j <= i
      BY <1>0, <1>1, LastPosition
    <2>2. last \in 1..Len(h)
      BY <1>0, <2>1
    <2>3. Without(h, last) \in Seq(Flag) /\ Len(Without(h, last)) = Len(h) - 1
      BY <2>2, WithoutType
    <2>4. DelHistory(h, f) = Without(h, last)
      BY <1>1 DEF DelHistory
    <2> HIDE DEF last, slots
    <2>5. QED
      BY <1>0, <2>3, <2>4, SizeAssumption
  <1>2. CASE slots = {}
    <2>1. DelHistory(h, f) = IF Len(h) = HistorySize THEN front ELSE h
      BY <1>2 DEF DelHistory
    <2>2. \A j \in 1..(Len(h) - 1) : h[j] \in Flag
      BY <1>0
    <2>3. /\ front \in Seq(Flag)
          /\ Len(front) = IF 1 <= Len(h) - 1 THEN (Len(h) - 1) - 1 + 1 ELSE 0
      BY <1>0, <2>2, SubSeqProperties
    <2>4. QED
      BY <1>0, <2>1, <2>3, SizeAssumption
  <1>3. QED
    BY <1>1, <1>2

\* A history has a natural number of slots with a flag, empty slots included.
LEMMA SlotsType ==
    ASSUME NEW h \in Seq(Flag), Len(h) <= HistorySize, NEW f \in Flag
    PROVE  Slots(h, f) \in Nat
  <1>1. Len(h) \in Nat
    OBVIOUS
  <1>2. IsFiniteSet(1..Len(h))
    BY <1>1, FS_Interval
  <1>3. Cardinality({i \in 1..Len(h) : h[i] = f}) \in Nat
    BY <1>2, FS_Subset, FS_CardinalityType
  <1>4. QED
    BY <1>1, <1>3, SizeAssumption DEF Slots

-----------------------------------------------------------------------------
(* Type correctness. *)

\* What a process that still has something to execute is about to execute.
LEMMA CurType ==
    ASSUME TypeOK, NEW p \in Proc, path[p] # <<>>
    PROVE  /\ Cur(p) \in Operation /\ F(p) \in Flag /\ Exc(p) \in Nat
           /\ Tail(path[p]) \in Seq(Operation)
  <1>1. path[p] \in Seq(Operation)
    BY DEF TypeOK
  <1>2. Cur(p) \in Operation /\ Tail(path[p]) \in Seq(Operation)
    BY <1>1, HeadTailProperties DEF Cur
  <1>3. F(p) \in Flag /\ Cur(p).exc \in {"0", "fork", "pid"}
    BY <1>2 DEF F, Operation
  <1>4. Exc(p) \in Nat
    BY <1>3, ProcAssumption DEF Exc, ICACHE_FORK
  <1>5. QED
    BY <1>2, <1>3, <1>4

\* The victim at the head of the NMI Queue is a process.
LEMMA VictimType ==
    ASSUME TypeOK, queue # <<>>
    PROVE  Victim \in Proc /\ Tail(queue) \in Seq(Entry)
  <1>1. queue \in Seq(Entry)
    BY DEF TypeOK
  <1>2. Head(queue) \in Entry /\ Tail(queue) \in Seq(Entry)
    BY <1>1, HeadTailProperties
  <1>3. QED
    BY <1>2 DEF Victim, Entry

\* The steps of enter and exit keep the types.
LEMMA TypeEnterLeave ==
    ASSUME TypeOK, NEW p \in Proc, Enter(p) \/ Leave(p)
    PROVE  TypeOK'
  <1>0. path[p] # <<>>
    BY DEF Enter, Leave, EnterNode, EnterBegin, EnterTest, EnterSleep, EnterWoken,
           EnterAdmit, EnterRecord, Exit, ExitRecord, Doing, In, Running
  <1>1. /\ Cur(p) \in Operation /\ F(p) \in Flag /\ Exc(p) \in Nat
        /\ Tail(path[p]) \in Seq(Operation)
    BY <1>0, CurType
  <1> USE DEF locks, nmiVars, ghosts, Goto, Halt, Advance, Stage
  <1>2. CASE EnterNode(p)
    <2> DEFINE o == [Head(path[p]) EXCEPT !.op = "enter"]
    <2>1. o \in Operation
      BY <1>1 DEF Cur, Operation, OpName
    <2>2. <<o>> \o Tail(path[p]) \in Seq(Operation)
      BY <2>1, <1>1, ConcatProperties
    <2>3. path' \in [Proc -> Seq(Operation)] /\ halted' \in BOOLEAN
      BY <1>2, <2>2 DEF EnterNode, TypeOK
    <2>4. QED
      BY <1>2, <2>3 DEF EnterNode, TypeOK
  <1>3. CASE EnterBegin(p)
    <2>1. at' \in [Proc -> Stage] /\ lk' \in [Flag -> Proc \cup {NoProc}]
      BY <1>3, <1>1 DEF EnterBegin, TypeOK
    <2>2. depth' \in [Proc -> [Flag -> Nat]]
      <3>1. [depth EXCEPT ![p][F(p)] = @ + 1] \in [Proc -> [Flag -> Nat]]
        BY <1>1 DEF TypeOK
      <3>2. depth \in [Proc -> [Flag -> Nat]]
        BY DEF TypeOK
      <3>3. QED
        BY <1>3, <3>1, <3>2 DEF EnterBegin
    <2>3. QED
      BY <1>3, <2>1, <2>2 DEF EnterBegin, TypeOK
  <1>4. CASE EnterTest(p)
    BY <1>4, <1>1 DEF EnterTest, TypeOK
  <1>5. CASE EnterSleep(p)
    BY <1>5, <1>1 DEF EnterSleep, TypeOK
  <1>6. CASE EnterWoken(p)
    BY <1>6, <1>1 DEF EnterWoken, TypeOK
  <1>7. CASE EnterAdmit(p)
    <2>1. num' \in [Flag -> Int] /\ exception' \in [Flag -> Nat]
      BY SMTT(60), <1>7, <1>1 DEF EnterAdmit, TypeOK
    <2>2. lk' \in [Flag -> Proc \cup {NoProc}] /\ at' \in [Proc -> Stage]
      BY <1>7, <1>1 DEF EnterAdmit, TypeOK
    <2>3. depth' \in [Proc -> [Flag -> Nat]]
      BY SMTT(60), <1>7, <1>1 DEF EnterAdmit, TypeOK
    <2>4. late' \in [Flag -> SUBSET Proc]
      <3>1. late[F(p)] \cup {p} \in SUBSET Proc /\ late[F(p)] \in SUBSET Proc
        BY <1>1 DEF TypeOK
      <3>2. QED
        BY <1>7, <1>1, <3>1 DEF EnterAdmit, TypeOK
    <2>5. QED
      BY <1>7, <2>1, <2>2, <2>3, <2>4 DEF EnterAdmit, TypeOK
  <1>8. CASE EnterRecord(p)
    <2>1. /\ AddHistory(history[p], F(p)) \in Seq(Flag)
          /\ Len(AddHistory(history[p], F(p))) <= HistorySize
      BY <1>1, AddHistoryType DEF TypeOK
    <2>2. QED
      BY <1>8, <1>1, <2>1 DEF EnterRecord, TypeOK
  <1>9. CASE Exit(p)
    <2>1. num' \in [Flag -> Int] /\ exception' \in [Flag -> Nat]
      BY <1>9, <1>1 DEF Exit, TypeOK
    <2>2. at' \in [Proc -> Stage] /\ depth' \in [Proc -> [Flag -> Nat]]
      BY <1>9, <1>1 DEF Exit, TypeOK
    <2>3. QED
      BY <1>9, <2>1, <2>2 DEF Exit, TypeOK
  <1>10. CASE ExitRecord(p)
    <2>1. /\ DelHistory(history[p], F(p)) \in Seq(Flag)
          /\ Len(DelHistory(history[p], F(p))) <= HistorySize
      BY <1>1, DelHistoryType DEF TypeOK
    <2>2. QED
      BY <1>10, <1>1, <2>1 DEF ExitRecord, TypeOK
  <1>11. QED
    BY <1>2, <1>3, <1>4, <1>5, <1>6, <1>7, <1>8, <1>9, <1>10 DEF Enter, Leave

\* The steps of a recovery handler keep the types.
LEMMA TypeRecover ==
    ASSUME TypeOK, NEW p \in Proc, Recover(p)
    PROVE  TypeOK'
  <1>0. path[p] # <<>> /\ queue # <<>>
    BY DEF Recover, AcquireRecoveryLock, WaitCommit, CountProcs, CountOutOfBounds,
           WaitGiant, Repair, ExitAll, ReleaseRecoveryLock, WakeWaiters, Done,
           Recovering, Doing, Running
  <1>1. /\ F(p) \in Flag /\ Tail(path[p]) \in Seq(Operation)
        /\ Victim \in Proc /\ Tail(queue) \in Seq(Entry)
    BY <1>0, CurType, VictimType
  <1> USE DEF locks, nmiVars, ghosts, Goto, Halt, Advance, Stage
  <1>2. CASE AcquireRecoveryLock(p)
    BY <1>2, <1>1 DEF AcquireRecoveryLock, TypeOK
  <1>3. CASE WaitCommit(p)
    <2>1. path' \in [Proc -> Seq(Operation)]
      BY <1>3, <1>1 DEF WaitCommit, TypeOK
    <2>2. exception' \in [Flag -> Nat]
      BY SMTT(60), <1>3, <1>1 DEF WaitCommit, TypeOK
    <2>3. halted' \in BOOLEAN
      BY <1>3 DEF WaitCommit, TypeOK
    <2>4. QED
      BY <1>3, <2>1, <2>2, <2>3 DEF WaitCommit, TypeOK
  <1>4. CASE CountProcs(p)
    BY <1>4, <1>1 DEF CountProcs, TypeOK
  <1>5. CASE CountOutOfBounds(p)
    BY <1>5, <1>1 DEF CountOutOfBounds, TypeOK
  <1>6. CASE WaitGiant(p)
    BY <1>6, <1>1 DEF WaitGiant, TypeOK
  <1>7. CASE Repair(p)
    BY SMTT(60), <1>7, <1>1 DEF Repair, TypeOK
  <1>8. CASE ExitAll(p)
    <2>1. \A f \in Flag : Slots(history[Victim], f) \in Nat
      BY <1>1, SlotsType DEF TypeOK
    <2>2. num' \in [Flag -> Int]
      BY <1>8, <2>1 DEF ExitAll, TypeOK
    <2>3. /\ history' \in [Proc -> Seq(Flag)]
          /\ \A q \in Proc : Len(history'[q]) <= HistorySize
      BY SMTT(60), <1>8, <1>1, SizeAssumption DEF ExitAll, TypeOK
    <2>4. depth' \in [Proc -> [Flag -> Nat]]
      BY <1>8, <1>1 DEF ExitAll, TypeOK
    <2>5. QED
      BY <1>8, <1>1, <2>2, <2>3, <2>4 DEF ExitAll, TypeOK
  <1>9. CASE ReleaseRecoveryLock(p)
    BY <1>9, <1>1 DEF ReleaseRecoveryLock, TypeOK
  <1>10. CASE WakeWaiters(p)
    BY <1>10, <1>1 DEF WakeWaiters, TypeOK
  <1>11. CASE Done(p)
    <2>1. depth' \in [Proc -> [Flag -> Nat]] /\ at' \in [Proc -> Stage]
      BY <1>11, <1>1 DEF Done, TypeOK
    <2>2. path' \in [Proc -> Seq(Operation)]
      <3>1. ASSUME Tail(queue) # <<>>, NEW s \in NextHandler(Head(Tail(queue)))
            PROVE  s \in Seq(Operation)
        <4>0. Head(Tail(queue)) \in Entry
          BY <1>1, <3>1, HeadTailProperties
        <4>1. Head(Tail(queue)).flag \in Flag
          BY <4>0 DEF Entry
        <4> DEFINE o == [op |-> "rdone", flag |-> Head(Tail(queue)).flag, exc |-> "0"]
        <4>2. <<o>> \in Seq(Operation)
          <5>1. o \in Operation
            BY <4>1 DEF Operation, OpName
          <5> HIDE DEF o
          <5>2. QED
            BY <5>1
        <4>3. QED
          BY <3>1, <4>1, <4>2, PathAssumption DEF NextHandler
      <3>2. <<>> \in Seq(Operation)
        BY EmptySeq
      <3>3. CASE Tail(queue) = <<>>
        BY <1>11, <1>1, <3>2, <3>3 DEF Done, TypeOK
      <3>4. CASE Tail(queue) # <<>>
        <4>1. PICK s \in NextHandler(Head(Tail(queue))) :
                 path' = [path EXCEPT ![Victim] = <<>>, ![p] = s]
          BY <1>11, <3>4 DEF Done
        <4>2. QED
          BY <4>1, <3>1, <3>2, <3>4, <1>1 DEF TypeOK
      <3>5. QED
        BY <3>3, <3>4
    <2>3. QED
      BY <1>11, <1>1, <2>1, <2>2 DEF Done, TypeOK
  <1>12. QED
    BY <1>2, <1>3, <1>4, <1>5, <1>6, <1>7, <1>8, <1>9, <1>10, <1>11 DEF Recover

\* Calls, accesses and memory errors keep the types.
LEMMA TypeOther ==
    ASSUME TypeOK, NEW p \in Proc, Call(p) \/ Use(p) \/ Nmi(p)
    PROVE  TypeOK'
  <1> USE DEF locks, nmiVars, ghosts, Goto, Advance, Stage
  <1>1. CASE Call(p)
    <2>1. path' \in [Proc -> Seq(Operation)] /\ calls' \in Nat
      BY <1>1, PathAssumption DEF Call, TypeOK
    <2>2. QED
      BY <1>1, <2>1 DEF Call, TypeOK
  <1>2. CASE Use(p)
    <2>1. Tail(path[p]) \in Seq(Operation)
      BY <1>2, CurType DEF Use, Doing, Running
    <2>2. QED
      BY <1>2, <2>1 DEF Use, TypeOK
  <1>3. CASE Nmi(p)
    <2>1. F(p) \in Flag
      BY <1>3, CurType DEF Nmi, Doing, Running
    <2> DEFINE e == [pid |-> p, flag |-> F(p), gen |-> gen[F(p)]]
    <2>2. e \in Entry
      BY <2>1 DEF Entry, TypeOK
    <2>3. queue' \in Seq(Entry) /\ nmis' \in Nat
      BY <1>3, <2>2, AppendProperties DEF Nmi, TypeOK
    <2>4. path' \in [Proc -> Seq(Operation)] /\ at' \in [Proc -> Stage]
      BY <1>3, <2>1, PathAssumption DEF Nmi, TypeOK
    <2>5. QED
      BY <1>3, <2>1, <2>3, <2>4 DEF Nmi, TypeOK
  <1>4. QED
    BY <1>1, <1>2, <1>3

\* The initial state has the types.
LEMMA InitType ==
    ASSUME Init
    PROVE  TypeOK
  <1>1. history \in [Proc -> Seq(Flag)] /\ \A p \in Proc : Len(history[p]) <= HistorySize
    BY SizeAssumption DEF Init, InitLocks
  <1>2. /\ path \in [Proc -> Seq(Operation)] /\ at \in [Proc -> Stage]
        /\ queue \in Seq(Entry)
    BY DEF Init, InitLocks, Stage
  <1>3. /\ rlock \in [Flag -> Proc \cup {NoProc}] /\ lk \in [Flag -> Proc \cup {NoProc}]
        /\ num \in [Flag -> Int] /\ exception \in [Flag -> Nat] /\ gen \in [Flag -> Nat]
    BY DEF Init, InitLocks
  <1>4. /\ tracker \in Proc \cup {NoProc} /\ halted \in BOOLEAN /\ nmis \in Nat
        /\ calls \in Nat /\ depth \in [Proc -> [Flag -> Nat]]
        /\ late \in [Flag -> SUBSET Proc]
    BY DEF Init, InitLocks
  <1>5. QED
    BY <1>1, <1>2, <1>3, <1>4 DEF TypeOK

\* Every step keeps the types.
LEMMA NextType ==
    ASSUME TypeOK, [Next]_vars
    PROVE  TypeOK'
  <1>1. CASE UNCHANGED vars
    BY <1>1 DEF vars, TypeOK
  <1>2. CASE Next
    BY <1>2, TypeEnterLeave, TypeRecover, TypeOther DEF Next, Step
  <1>3. QED
    BY <1>1, <1>2

\* Every reachable state has the types: in particular a history never outgrows
\* history_idx[], whatever the nesting of the sections.
THEOREM TypeCorrect == Spec => []TypeOK
  <1>1. Init => TypeOK
    BY InitType
  <1>2. TypeOK /\ [Next]_vars => TypeOK'
    BY NextType
  <1>3. QED
    BY <1>1, <1>2, PTL DEF Spec

-----------------------------------------------------------------------------
(* The inspection at the entrance of a section. *)

\* A step of p that leaves the others alone: at and path change for p only.
Local(p) == \A q \in Proc \ {p} : at'[q] = at[q] /\ path'[q] = path[q]

\* A step that changes lk at most by p's releasing or taking F(p) keeps LkInv.
LEMMA LkLocal ==
    ASSUME TypeOK, LkInv, NEW p \in Proc, F(p) \in Flag, Local(p),
           \/ lk' = lk
           \/ lk[F(p)] = NoProc /\ lk' = [lk EXCEPT ![F(p)] = p]
           \/ lk[F(p)] = p /\ lk' = [lk EXCEPT ![F(p)] = NoProc],
           HoldsLk(p)' => path'[p] # <<>> /\ lk'[F(p)'] = p
    PROVE  LkInv'
  <1> SUFFICES ASSUME NEW q \in Proc, HoldsLk(q)'
               PROVE  path'[q] # <<>> /\ lk'[F(q)'] = q
    BY DEF LkInv
  <1>1. CASE q = p
    BY <1>1
  <1>2. CASE q # p
    <2>1. HoldsLk(q) /\ path'[q] = path[q] /\ F(q)' = F(q)
      BY <1>2 DEF Local, HoldsLk, F, Cur
    <2>2. path[q] # <<>> /\ lk[F(q)] = q
      BY <2>1 DEF LkInv
    <2>3. F(q) \in Flag /\ q # NoProc
      BY <2>2, CurType, ProcAssumption
    <2>4. lk'[F(q)] = q
      BY <1>2, <2>2, <2>3 DEF TypeOK
    <2>5. QED
      BY <2>1, <2>2, <2>4
  <1>3. QED
    BY <1>1, <1>2

\* lk is held exactly as the code says by everybody inside the inspection.
LEMMA LkNext ==
    ASSUME TypeOK, LkInv, NEW p \in Proc, Call(p) \/ Step(p) \/ Nmi(p)
    PROVE  LkInv'
  <1> USE DEF locks, nmiVars, ghosts, Goto, Halt, Advance
  <1>1. CASE Call(p)
    <2>1. /\ lk' = lk /\ at' = at
          /\ \A q \in Proc \ {p} : path'[q] = path[q]
      BY <1>1 DEF Call, TypeOK
    <2> SUFFICES ASSUME NEW q \in Proc, HoldsLk(q)'
                 PROVE  path'[q] # <<>> /\ lk'[F(q)'] = q
      BY DEF LkInv
    <2>2. HoldsLk(q) /\ q # p
      BY <1>1, <2>1 DEF HoldsLk, Call
    <2>3. QED
      BY <2>1, <2>2 DEF LkInv, F, Cur
  <1>2. ASSUME Enter(p) \/ Leave(p) \/ Use(p) PROVE LkInv'
    <2>0. path[p] # <<>> /\ F(p) \in Flag
      <3>1. path[p] # <<>>
        BY <1>2 DEF Enter, Leave, Use, EnterNode, EnterBegin, EnterTest, EnterSleep,
           EnterWoken, EnterAdmit, EnterRecord, Exit, ExitRecord, Doing, In, Running
      <3>2. QED
        BY <3>1, CurType
    <2> USE DEF Local, HoldsLk, F, Cur
    <2>1. CASE EnterNode(p)
      <3>1. Local(p) /\ lk' = lk /\ at'[p] = "ready"
        BY <2>1 DEF EnterNode, Doing, TypeOK
      <3>2. QED
        BY <3>1, <2>0, LkLocal
    <2>2. CASE EnterBegin(p)
      <3>1. /\ Local(p) /\ path' = path
            /\ \/ lk' = lk /\ at'[p] = "record"
               \/ /\ lk[F(p)] = NoProc /\ lk' = [lk EXCEPT ![F(p)] = p]
                  /\ lk'[F(p)] = p
        BY <2>2, <2>0 DEF EnterBegin, TypeOK
      <3>2. QED
        BY <3>1, <2>0, LkLocal
    <2>3. CASE EnterTest(p)
      <3>1. Local(p) /\ lk' = lk /\ path' = path /\ HoldsLk(p)
        BY <2>3 DEF EnterTest, In, TypeOK
      <3>2. QED
        BY <3>1, <2>0, LkLocal DEF LkInv
    <2>4. CASE EnterSleep(p)
      <3>1. /\ Local(p) /\ HoldsLk(p) /\ at'[p] = "asleep"
            /\ lk' = [lk EXCEPT ![F(p)] = NoProc]
        BY <2>4 DEF EnterSleep, In, TypeOK
      <3>2. lk[F(p)] = p
        BY <3>1 DEF LkInv
      <3>3. QED
        BY <3>1, <3>2, <2>0, LkLocal
    <2>5. CASE EnterWoken(p)
      <3>1. /\ Local(p) /\ path' = path /\ lk[F(p)] = NoProc
            /\ lk' = [lk EXCEPT ![F(p)] = p] /\ lk'[F(p)] = p
        BY <2>5, <2>0 DEF EnterWoken, In, TypeOK
      <3>2. QED
        BY <3>1, <2>0, LkLocal
    <2>6. CASE EnterAdmit(p)
      <3>1. /\ Local(p) /\ HoldsLk(p) /\ at'[p] = "record"
            /\ lk' = [lk EXCEPT ![F(p)] = NoProc]
        BY <2>6 DEF EnterAdmit, In, TypeOK
      <3>2. lk[F(p)] = p
        BY <3>1 DEF LkInv
      <3>3. QED
        BY <3>1, <3>2, <2>0, LkLocal
    <2>7. CASE EnterRecord(p) \/ ExitRecord(p) \/ Exit(p) \/ Use(p)
      <3>1. Local(p) /\ lk' = lk /\ at'[p] \in {"ready", "unrecord"}
        BY <2>7 DEF EnterRecord, ExitRecord, Exit, Use, Doing, In, TypeOK
      <3>2. QED
        BY <3>1, <2>0, LkLocal
    <2>8. QED
      BY <1>2, <2>1, <2>2, <2>3, <2>4, <2>5, <2>6, <2>7 DEF Enter, Leave
  <1>3. CASE Nmi(p)
    <2>1. F(p) \in Flag
      BY <1>3, CurType DEF Nmi, Doing, Running
    <2>2. Local(p) /\ lk' = lk /\ at'[p] \in {"ready", "nmi"}
      BY <1>3 DEF Nmi, Doing, TypeOK, Local
    <2>3. QED
      BY <2>1, <2>2, LkLocal DEF HoldsLk
  <1>4. CASE Recover(p)
    <2>0. path[p] # <<>> /\ queue # <<>> /\ at[p] = "ready"
      BY <1>4 DEF Recover, AcquireRecoveryLock, WaitCommit, CountProcs, CountOutOfBounds,
         WaitGiant, Repair, ExitAll, ReleaseRecoveryLock, WakeWaiters, Done,
         Recovering, Doing, Running
    <2>1. F(p) \in Flag /\ Victim \in Proc
      BY <2>0, CurType, VictimType
    <2>2. lk' = lk
      BY <1>4 DEF Recover, AcquireRecoveryLock, WaitCommit, CountProcs, CountOutOfBounds,
         WaitGiant, Repair, ExitAll, ReleaseRecoveryLock, WakeWaiters, Done
    <2>3. \A q \in Proc : HoldsLk(q)' => HoldsLk(q) /\ q # p /\ path'[q] = path[q]
      <3>1. CASE Done(p)
        BY <3>1, <2>0, <2>1 DEF Done, TypeOK, HoldsLk
      <3>2. CASE WakeWaiters(p)
        BY <3>2, <2>0 DEF WakeWaiters, TypeOK, HoldsLk
      <3>3. CASE ~ (Done(p) \/ WakeWaiters(p))
        <4>1. at' = at /\ \A q \in Proc \ {p} : path'[q] = path[q]
          BY <1>4, <3>3 DEF Recover, AcquireRecoveryLock, WaitCommit, CountProcs,
             CountOutOfBounds, WaitGiant, Repair, ExitAll, ReleaseRecoveryLock, TypeOK
        <4>2. QED
          BY <4>1, <2>0 DEF HoldsLk
      <3>4. QED
        BY <3>1, <3>2, <3>3
    <2>4. QED
      BY <2>2, <2>3 DEF LkInv, F, Cur
  <1>5. QED
    BY <1>1, <1>2, <1>3, <1>4 DEF Step

-----------------------------------------------------------------------------
(* At most one process gets past a recovery lock. *)

\* A step that changes neither a recovery lock nor its late entrants, and lets
\* nobody pass the inspection, keeps LateInv.
LEMMA LateFrame ==
    ASSUME LateInv, rlock' = rlock, late' = late,
           \A q \in Proc : at'[q] = "admit" => at[q] = "admit" /\ path'[q] = path[q]
    PROVE  LateInv'
  <1>1. \A f \in Flag : Admitted(f)' \subseteq Admitted(f)
    BY DEF Admitted, F, Cur
  <1>2. QED
    BY <1>1 DEF LateInv

\* The only way past a taken recovery lock is to have been admitted before.
LEMMA LateNext ==
    ASSUME TypeOK, LkInv, LateInv, NEW p \in Proc, Call(p) \/ Step(p) \/ Nmi(p)
    PROVE  LateInv'
  <1> USE DEF locks, nmiVars, ghosts, Goto, Halt, Advance
  <1>1. CASE Call(p) \/ Use(p) \/ Nmi(p)
    <2>1. /\ rlock' = rlock /\ late' = late
          /\ \A q \in Proc : at'[q] = "admit" => at[q] = "admit" /\ path'[q] = path[q]
      BY <1>1 DEF Call, Use, Nmi, Doing, TypeOK
    <2>2. QED
      BY <2>1, LateFrame
  <1>2. CASE Leave(p) \/ EnterNode(p) \/ EnterBegin(p) \/ EnterSleep(p)
             \/ EnterWoken(p) \/ EnterRecord(p)
    <2>1. /\ rlock' = rlock /\ late' = late
          /\ \A q \in Proc : at'[q] = "admit" => at[q] = "admit" /\ path'[q] = path[q]
      BY <1>2 DEF Leave, Exit, ExitRecord, EnterNode, EnterBegin, EnterSleep,
                  EnterWoken, EnterRecord, Doing, In, TypeOK
    <2>2. QED
      BY <2>1, LateFrame
  <1>3. CASE EnterTest(p)
    <2>1. rlock' = rlock /\ late' = late /\ path' = path
      BY <1>3 DEF EnterTest
    <2>2. \A q \in Proc : at'[q] = "admit" =>
             at[q] = "admit" \/ (q = p /\ rlock[F(p)] = NoProc)
      BY <1>3 DEF EnterTest, TypeOK
    <2>3. ASSUME NEW f \in Flag, rlock[f] # NoProc
          PROVE  Admitted(f)' \subseteq Admitted(f)
      BY <2>1, <2>2, <2>3 DEF Admitted, F, Cur
    <2>4. QED
      BY <2>1, <2>3 DEF LateInv
  <1>4. CASE EnterAdmit(p)
    <2>1. /\ rlock' = rlock /\ path' = path /\ at[p] = "admit" /\ F(p) \in Flag
          /\ at' = [at EXCEPT ![p] = "record"]
      BY <1>4, CurType DEF EnterAdmit, In, Running
    <2>2. \A f \in Flag : Admitted(f)' \subseteq Admitted(f)
      BY <2>1 DEF Admitted, F, Cur, TypeOK
    <2>3. \A f \in Flag : late'[f] = late[f] \/
             (f = F(p) /\ rlock[f] # NoProc /\ late'[f] = late[f] \cup {p})
      BY <1>4, <2>1 DEF EnterAdmit, TypeOK
    <2>4. p \in Admitted(F(p))
      BY <2>1 DEF Admitted
    <2>5. \A f \in Flag : late'[f] \cup Admitted(f)' \subseteq late[f] \cup Admitted(f)
      BY <2>2, <2>3, <2>4
    <2>6. \A f \in Flag : rlock[f] = NoProc => late'[f] = late[f]
      BY <2>3
    <2>7. QED
      BY <2>1, <2>5, <2>6 DEF LateInv
  <1>5. CASE Recover(p)
    <2>0. path[p] # <<>> /\ queue # <<>> /\ at[p] = "ready"
      BY <1>5 DEF Recover, AcquireRecoveryLock, WaitCommit, CountProcs, CountOutOfBounds,
         WaitGiant, Repair, ExitAll, ReleaseRecoveryLock, WakeWaiters, Done,
         Recovering, Doing, Running
    <2>1. F(p) \in Flag /\ Victim \in Proc
      BY <2>0, CurType, VictimType
    <2>2. \A q \in Proc : at'[q] = "admit" => at[q] = "admit" /\ path'[q] = path[q]
      <3>1. CASE Done(p)
        BY <3>1, <2>0, <2>1 DEF Done, TypeOK
      <3>2. CASE WakeWaiters(p)
        BY <3>2, <2>0 DEF WakeWaiters, TypeOK
      <3>3. CASE ~ (Done(p) \/ WakeWaiters(p))
        <4>1. at' = at /\ \A q \in Proc \ {p} : path'[q] = path[q]
          BY <1>5, <3>3 DEF Recover, AcquireRecoveryLock, WaitCommit, CountProcs,
             CountOutOfBounds, WaitGiant, Repair, ExitAll, ReleaseRecoveryLock, TypeOK
        <4>2. QED
          BY <4>1, <2>0
      <3>4. QED
        BY <3>1, <3>2, <3>3
    <2>3. \A f \in Flag : Admitted(f)' \subseteq Admitted(f)
      BY <2>2 DEF Admitted, F, Cur
    <2>4. CASE AcquireRecoveryLock(p)
      <3>1. \A f \in Flag \ {F(p)} : rlock'[f] = rlock[f] /\ late'[f] = late[f]
        BY <2>4, <2>1 DEF AcquireRecoveryLock, TypeOK
      <3>2. late'[F(p)] = {} /\ rlock'[F(p)] = p
        BY <2>4, <2>1 DEF AcquireRecoveryLock, TypeOK
      <3>3. \A q, r \in Admitted(F(p)) : q = r
        \* both hold lk of the same flag
        BY DEF Admitted, LkInv, HoldsLk
      <3>4. QED
        BY <3>1, <3>2, <3>3, <2>3, ProcAssumption DEF LateInv
    <2>5. CASE ReleaseRecoveryLock(p)
      <3>1. \A f \in Flag \ {F(p)} : rlock'[f] = rlock[f] /\ late'[f] = late[f]
        BY <2>5, <2>1 DEF ReleaseRecoveryLock, TypeOK
      <3>2. late'[F(p)] = {} /\ rlock'[F(p)] = NoProc
        BY <2>5, <2>1 DEF ReleaseRecoveryLock, TypeOK
      <3>3. QED
        BY <3>1, <3>2, <2>3 DEF LateInv
    <2>6. CASE ~ (AcquireRecoveryLock(p) \/ ReleaseRecoveryLock(p))
      <3>1. rlock' = rlock /\ late' = late
        BY <1>5, <2>6 DEF Recover, WaitCommit, CountProcs, CountOutOfBounds,
           WaitGiant, Repair, ExitAll, WakeWaiters, Done
      <3>2. QED
        BY <3>1, <2>2, LateFrame
    <2>7. QED
      BY <2>4, <2>5, <2>6
  <1>6. QED
    BY <1>1, <1>2, <1>3, <1>4, <1>5 DEF Step, Enter

\* The inductive invariant: types, who holds lk, and who gets past a taken
\* recovery lock.
THEOREM Invariance == Spec => []IInv
  <1>1. Init => IInv
    <2> SUFFICES ASSUME Init PROVE LkInv /\ LateInv
      BY InitType DEF IInv
    <2>1. LkInv
      BY DEF Init, InitLocks, LkInv, HoldsLk
    <2>2. LateInv
      BY DEF Init, InitLocks, LateInv
    <2>3. QED
      BY <2>1, <2>2
  <1>2. IInv /\ [Next]_vars => IInv'
    <2> SUFFICES ASSUME TypeOK, LkInv, LateInv, [Next]_vars
                 PROVE  TypeOK' /\ LkInv' /\ LateInv'
      BY DEF IInv
    <2>1. CASE UNCHANGED vars
      <3>1. TypeOK'
        BY <2>1, NextType
      <3>2. LkInv'
        BY <2>1 DEF vars, LkInv, HoldsLk, F, Cur
      <3>3. LateInv'
        BY <2>1 DEF vars, LateInv, Admitted, F, Cur
      <3>4. QED
        BY <3>1, <3>2, <3>3
    <2>2. CASE Next
      BY <2>2, NextType, LkNext, LateNext DEF Next
    <2>3. QED
      BY <2>1, <2>2
  <1>3. QED
    BY <1>1, <1>2, PTL DEF Spec

\* Whatever the kernel paths and the recovery handlers are, at most one process
\* enters a section between acquire_recovery_lock and release_recovery_lock.
THEOREM AtMostOneIntruder == Spec => []OneIntruder
  <1>1. IInv => OneIntruder
    BY DEF IInv, LateInv, OneIntruder
  <1>2. QED
    BY <1>1, Invariance, PTL

-----------------------------------------------------------------------------
(* Counting the slots of a history. *)

\* A set that is mapped into another one without collisions is not larger.
LEMMA Smaller ==
    ASSUME NEW S, NEW T, IsFiniteSet(T), NEW m, m \in [S -> T],
           \A x, y \in S : m[x] = m[y] => x = y
    PROVE  /\ IsFiniteSet(S) /\ Cardinality(S) \in Nat
           /\ Cardinality(S) <= Cardinality(T)
<1>1. m \in Injection(S, T) BY DEF Injection, IsInjective
<1>2. QED BY <1>1, FS_Injection, FS_CardinalityType

Held(h, f) == {i \in 1..Len(h) : h[i] = f}

\* The slots of a flag are finitely many.
LEMMA HeldFinite ==
    ASSUME NEW h \in Seq(Flag), NEW f \in Flag \ {0}
    PROVE  /\ IsFiniteSet(Held(h, f)) /\ Slots(h, f) = Cardinality(Held(h, f))
           /\ Slots(h, f) \in Nat
<1>1. Len(h) \in Nat /\ Held(h, f) \subseteq 1..Len(h) BY DEF Held
<1>2. IsFiniteSet(Held(h, f))
  <2>1. IsFiniteSet(1..Len(h)) BY <1>1, FS_Interval
  <2>2. QED BY ONLY <1>1, <2>1, FS_Subset
<1>3. QED BY <1>2, FS_CardinalityType DEF Slots, Held

\* An empty history has no slot with a flag.
LEMMA EmptySlots ==
    ASSUME NEW f \in Flag \ {0}
    PROVE  Slots(<<>>, f) = 0
<1>1. <<>> \in Seq(Flag) BY EmptySeq
<1>2. Slots(<<>>, f) = Cardinality(Held(<<>>, f)) BY <1>1, HeldFinite
<1>3. Len(<<>>) = 0 OBVIOUS
<1>4. Held(<<>>, f) = {} BY <1>3 DEF Held
<1>5. QED BY <1>2, <1>4, FS_EmptySet

\* add_rcs_history fills at most one slot.
LEMMA AddHistorySlots ==
    ASSUME NEW h \in Seq(Flag), NEW f \in Flag, NEW g \in Flag \ {0}
    PROVE  Slots(AddHistory(h, f), g) <= Slots(h, g) + (IF g = f THEN 1 ELSE 0)
<1>1. CASE AddHistory(h, f) = h
  <2>1. Slots(h, g) \in Nat BY HeldFinite
  <2>2. QED BY <1>1, <2>1
<1>2. CASE AddHistory(h, f) = Append(h, f)
  <2>1. PICK k \in Seq(Flag) : k = Append(h, f) BY AppendProperties
  <2>2. Len(k) = Len(h) + 1 /\ k[Len(h) + 1] = f /\ \A i \in 1..Len(h) : k[i] = h[i]
    BY <2>1, AppendProperties
  <2>3. Len(h) \in Nat OBVIOUS
  <2>4. /\ IsFiniteSet(Held(h, g)) /\ Slots(h, g) = Cardinality(Held(h, g))
        /\ Slots(k, g) = Cardinality(Held(k, g)) /\ Slots(k, g) \in Nat /\ Slots(h, g) \in Nat
    BY HeldFinite
  <2>5. CASE g = f
    <3>1. Held(k, g) \subseteq Held(h, g) \cup {Len(h) + 1} BY <2>2, <2>3 DEF Held
    <3>2. /\ IsFiniteSet(Held(h, g) \cup {Len(h) + 1})
          /\ Cardinality(Held(h, g) \cup {Len(h) + 1}) <= Cardinality(Held(h, g)) + 1
      <4>1. Cardinality(Held(h, g) \cup {Len(h) + 1})
              = IF Len(h) + 1 \in Held(h, g) THEN Cardinality(Held(h, g)) ELSE Cardinality(Held(h, g)) + 1
        BY <2>4, FS_AddElement
      <4>2. QED BY <4>1, <2>4, FS_AddElement
    <3>3. Cardinality(Held(k, g)) <= Cardinality(Held(h, g) \cup {Len(h) + 1})
      BY <3>1, <3>2, FS_Subset
    <3>4. Cardinality(Held(h, g) \cup {Len(h) + 1}) \in Nat BY <3>2, FS_CardinalityType
    <3>5. QED BY <1>2, <2>1, <2>4, <2>5, <3>2, <3>3, <3>4
  <2>6. CASE g # f
    <3>1. Held(k, g) \subseteq Held(h, g) BY <2>2, <2>3, <2>6 DEF Held
    <3>2. Cardinality(Held(k, g)) <= Cardinality(Held(h, g)) BY <2>4, <3>1, FS_Subset
    <3>3. QED BY <1>2, <2>1, <2>4, <2>6, <3>2
  <2>7. QED BY <2>5, <2>6
<1>3. QED BY <1>1, <1>2 DEF AddHistory

\* Where the slots are after one was emptied.
LEMMA WithoutAt ==
    ASSUME NEW h \in Seq(Flag), NEW i \in 1..Len(h)
    PROVE  \A j \in 1..(Len(h) - 1) : Without(h, i)[j] = IF j < i THEN h[j] ELSE h[j + 1]
<1> DEFINE a == SubSeq(h, 1, i - 1)
           b == SubSeq(h, i + 1, Len(h))
<1>0. /\ Len(h) \in Nat /\ i \in Int /\ 1 <= i /\ i <= Len(h)
      /\ \A j \in 1..(i - 1) : h[j] \in Flag
      /\ \A j \in (i + 1)..Len(h) : h[j] \in Flag
  OBVIOUS
<1>1. a \in Seq(Flag) /\ Len(a) = i - 1 /\ \A j \in 1..(i - 1) : a[j] = h[j]
  <2>1. /\ a \in Seq(Flag) /\ Len(a) = IF 1 <= i - 1 THEN (i - 1) - 1 + 1 ELSE 0
        /\ \A j \in 1..((i - 1) - 1 + 1) : a[j] = h[1 + j - 1]
    BY <1>0, SubSeqProperties
  <2> HIDE DEF a
  <2>2. QED BY <2>1, <1>0
<1>2. b \in Seq(Flag) /\ Len(b) = Len(h) - i /\ \A j \in 1..(Len(h) - i) : b[j] = h[j + i]
  <2>1. /\ b \in Seq(Flag) /\ Len(b) = IF i + 1 <= Len(h) THEN Len(h) - (i + 1) + 1 ELSE 0
        /\ \A j \in 1..(Len(h) - (i + 1) + 1) : b[j] = h[(i + 1) + j - 1]
    BY <1>0, SubSeqProperties
  <2> HIDE DEF b
  <2>2. Len(h) - (i + 1) + 1 = Len(h) - i BY <1>0
  <2>3. \A j \in 1..(Len(h) - i) : b[j] = h[j + i]
    <3> TAKE j \in 1..(Len(h) - i)
    <3>1. j \in 1..(Len(h) - (i + 1) + 1) BY <2>2
    <3>2. (i + 1) + j - 1 = j + i BY <1>0
    <3>3. b[j] = h[(i + 1) + j - 1] BY <2>1, <3>1
    <3>4. QED BY <3>2, <3>3
  <2>4. Len(b) = Len(h) - i BY <1>0, <2>1
  <2>5. QED BY <2>1, <2>3, <2>4
<1>3. Without(h, i) = a \o b BY DEF Without
<1> HIDE DEF a, b
<1>4. \A j \in 1..(Len(a) + Len(b)) : (a \o b)[j] = IF j <= Len(a) THEN a[j] ELSE b[j - Len(a)]
  BY <1>1, <1>2, ConcatProperties
<1>5. SUFFICES ASSUME NEW j \in 1..(Len(h) - 1)
               PROVE  (a \o b)[j] = IF j < i THEN h[j] ELSE h[j + 1]
  BY <1>3
<1>6. j \in 1..(Len(a) + Len(b)) BY <1>0, <1>1, <1>2
<1>7. CASE j < i
  <2>1. j <= Len(a) /\ j \in 1..(i - 1) BY <1>0, <1>1, <1>7
  <2>2. QED BY <1>1, <1>4, <1>6, <1>7, <2>1
<1>8. CASE ~(j < i)
  <2>1. ~(j <= Len(a)) /\ j - Len(a) \in 1..(Len(h) - i) /\ (j - Len(a)) + i = j + 1
    BY <1>0, <1>1, <1>8
  <2>2. (a \o b)[j] = b[j - Len(a)] BY <1>4, <1>6, <2>1
  <2>3. b[j - Len(a)] = h[j + 1] BY <1>2, <2>1
  <2>4. QED BY <1>8, <2>2, <2>3
<1>9. QED BY <1>7, <1>8

\* del_rcs_history empties a slot of the flag if there is one, and fills none.
LEMMA DelHistorySlots ==
    ASSUME NEW h \in Seq(Flag), Len(h) <= HistorySize, NEW f \in Flag, NEW g \in Flag \ {0}
    PROVE  /\ Slots(DelHistory(h, f), g) <= Slots(h, g)
           /\ g = f /\ Slots(h, g) > 0 => Slots(DelHistory(h, f), g) <= Slots(h, g) - 1
<1>1. /\ IsFiniteSet(Held(h, g)) /\ Slots(h, g) = Cardinality(Held(h, g)) /\ Slots(h, g) \in Nat
      /\ Len(h) \in Nat
  BY HeldFinite
<1> DEFINE slots == {i \in 1..Len(h) : h[i] = f}
<1>2. CASE slots # {}
  <2> DEFINE last == CHOOSE i \in slots : \A j \in slots : j <= i
  <2>1. last \in slots
    <3>1. \E i \in slots : \A j \in slots : j <= i BY <1>1, <1>2, LastPosition
    <3>2. QED BY <3>1
  <2>2. DelHistory(h, f) = Without(h, last) BY <1>2 DEF DelHistory
  <2>3. PICK i \in 1..Len(h) : i = last /\ h[i] = f BY <2>1
  <2>4. PICK k \in Seq(Flag) : k = Without(h, i) BY WithoutType
  <2> HIDE DEF last, slots
  <2>5. /\ Len(k) = Len(h) - 1
        /\ \A j \in 1..(Len(h) - 1) : k[j] = IF j < i THEN h[j] ELSE h[j + 1]
    BY <2>4, WithoutType, WithoutAt
  <2> DEFINE m == [j \in Held(k, g) |-> IF j < i THEN j ELSE j + 1]
  <2>6. m \in [Held(k, g) -> Held(h, g) \ {i}]
    <3> SUFFICES ASSUME NEW j \in Held(k, g)
                 PROVE  (IF j < i THEN j ELSE j + 1) \in Held(h, g) \ {i}
      OBVIOUS
    <3>1. j \in 1..(Len(h) - 1) /\ k[j] = g BY <2>5 DEF Held
    <3>2. CASE j < i
      <4>1. h[j] = g /\ j \in 1..Len(h) /\ j # i BY <1>1, <2>5, <3>1, <3>2
      <4>2. QED BY <3>2, <4>1 DEF Held
    <3>3. CASE ~(j < i)
      <4>1. h[j + 1] = g /\ j + 1 \in 1..Len(h) /\ j + 1 # i BY <1>1, <2>5, <3>1, <3>3
      <4>2. QED BY <3>3, <4>1 DEF Held
    <3>4. QED BY <3>2, <3>3
  <2>7. \A x, y \in Held(k, g) : m[x] = m[y] => x = y
    <3> SUFFICES ASSUME NEW x \in Held(k, g), NEW y \in Held(k, g),
                        (IF x < i THEN x ELSE x + 1) = (IF y < i THEN y ELSE y + 1)
                 PROVE  x = y
      OBVIOUS
    <3>1. x \in Int /\ y \in Int BY DEF Held
    <3>2. QED BY <3>1
  <2>8. /\ IsFiniteSet(Held(h, g) \ {i})
        /\ Cardinality(Held(h, g) \ {i}) = IF i \in Held(h, g) THEN Cardinality(Held(h, g)) - 1
                                                               ELSE Cardinality(Held(h, g))
    BY <1>1, FS_RemoveElement
  <2> HIDE DEF m
  <2>9. Cardinality(Held(k, g)) \in Nat /\ Cardinality(Held(k, g)) <= Cardinality(Held(h, g) \ {i})
    BY <2>6, <2>7, <2>8, Smaller
  <2>10. Slots(k, g) = Cardinality(Held(k, g)) BY HeldFinite
  <2>11. g = f => i \in Held(h, g) BY <2>3 DEF Held
  <2>12. DelHistory(h, f) = k BY <2>2, <2>3, <2>4
  <2>13. QED BY <1>1, <2>8, <2>9, <2>10, <2>11, <2>12
<1>3. CASE slots = {}
  <2>1. g = f => Slots(h, g) = 0
    <3>1. g = f => Held(h, g) = {} BY <1>3 DEF Held
    <3>2. QED BY <1>1, <3>1, FS_EmptySet
  <2>2. CASE DelHistory(h, f) = h BY <1>1, <2>1, <2>2
  <2>3. CASE DelHistory(h, f) = SubSeq(h, 1, Len(h) - 1)
    <3>1. \A j \in 1..(Len(h) - 1) : h[j] \in Flag BY <1>1
    <3>2. PICK k \in Seq(Flag) : k = SubSeq(h, 1, Len(h) - 1)
      <4>1. Len(h) - 1 \in Int BY <1>1
      <4>2. SubSeq(h, 1, Len(h) - 1) \in Seq(Flag) BY <3>1, <4>1, SubSeqProperties
      <4>3. QED BY <4>2
    <3>3. /\ Len(k) = IF 1 <= Len(h) - 1 THEN (Len(h) - 1) - 1 + 1 ELSE 0
          /\ \A j \in 1..((Len(h) - 1) - 1 + 1) : k[j] = h[1 + j - 1]
      BY <1>1, <3>1, <3>2, SubSeqProperties
    <3>4. Len(k) <= Len(h) /\ \A j \in 1..Len(k) : k[j] = h[j] BY <1>1, <3>3
    <3>5. Held(k, g) \subseteq Held(h, g) BY <1>1, <3>4 DEF Held
    <3>6. Cardinality(Held(k, g)) <= Cardinality(Held(h, g)) BY <1>1, <3>5, FS_Subset
    <3>7. Slots(k, g) = Cardinality(Held(k, g)) BY HeldFinite
    <3>8. QED BY <1>1, <2>1, <2>3, <3>2, <3>6, <3>7
  <2>4. DelHistory(h, f) = h \/ DelHistory(h, f) = SubSeq(h, 1, Len(h) - 1)
    BY <1>3 DEF DelHistory
  <2>5. QED BY <2>2, <2>3, <2>4
<1>4. QED BY <1>2, <1>3

-----------------------------------------------------------------------------
(* Columns: how much each process has. *)

Bars(w) == {x \in (DOMAIN w) \X (Nat \ {0}) : x[2] <= w[x[1]]}

\* No column has grown.
LEMMA BarsLess ==
    ASSUME NEW P, NEW w \in [P -> Nat], NEW v \in [P -> Nat], IsFiniteSet(Bars(w)),
           \A q \in P : v[q] <= w[q]
    PROVE  /\ IsFiniteSet(Bars(v)) /\ Cardinality(Bars(v)) \in Nat /\ Cardinality(Bars(w)) \in Nat
           /\ Cardinality(Bars(v)) <= Cardinality(Bars(w))
<1>1. Bars(v) \subseteq Bars(w)
  <2> SUFFICES ASSUME NEW q \in P, NEW n \in Nat \ {0}, n <= v[q] PROVE n <= w[q]
    BY DEF Bars
  <2>1. v[q] \in Nat /\ w[q] \in Nat /\ v[q] <= w[q] OBVIOUS
  <2>2. QED BY <2>1
<1>2. QED BY <1>1, FS_Subset, FS_CardinalityType

\* One column has grown by one at most.
LEMMA BarsMore ==
    ASSUME NEW P, NEW w \in [P -> Nat], NEW v \in [P -> Nat], IsFiniteSet(Bars(w)), NEW p \in P,
           \A q \in P \ {p} : v[q] <= w[q], v[p] <= w[p] + 1
    PROVE  /\ IsFiniteSet(Bars(v)) /\ Cardinality(Bars(v)) \in Nat /\ Cardinality(Bars(w)) \in Nat
           /\ Cardinality(Bars(v)) <= Cardinality(Bars(w)) + 1
<1> DEFINE x == <<p, w[p] + 1>>
<1>1. Bars(v) \subseteq Bars(w) \cup {x}
  <2> SUFFICES ASSUME NEW q \in P, NEW n \in Nat \ {0}, n <= v[q], ~(q = p /\ n = w[p] + 1)
               PROVE  n <= w[q]
    BY DEF Bars
  <2>1. v[q] \in Nat /\ w[q] \in Nat OBVIOUS
  <2>2. CASE q = p BY <2>1, <2>2
  <2>3. CASE q # p
    <3>1. v[q] <= w[q] BY <2>3
    <3>2. QED BY <2>1, <3>1
  <2>4. QED BY <2>2, <2>3
<1> HIDE DEF x
<1>2. Cardinality(Bars(w)) \in Nat BY FS_CardinalityType
<1>3. /\ IsFiniteSet(Bars(w) \cup {x})
      /\ Cardinality(Bars(w) \cup {x}) = IF x \in Bars(w) THEN Cardinality(Bars(w))
                                                          ELSE Cardinality(Bars(w)) + 1
  BY FS_AddElement
<1>4. /\ IsFiniteSet(Bars(v)) /\ Cardinality(Bars(v)) <= Cardinality(Bars(w) \cup {x})
  BY <1>1, <1>3, FS_Subset
<1>5. Cardinality(Bars(v)) \in Nat BY <1>4, FS_CardinalityType
<1>6. QED BY <1>2, <1>3, <1>4, <1>5

\* One column has lost k at least.
LEMMA BarsDrop ==
    ASSUME NEW P, NEW w \in [P -> Nat], NEW v \in [P -> Nat], IsFiniteSet(Bars(w)), NEW p \in P,
           \A q \in P \ {p} : v[q] <= w[q], NEW k \in Nat, v[p] + k <= w[p]
    PROVE  /\ IsFiniteSet(Bars(v)) /\ Cardinality(Bars(v)) \in Nat /\ Cardinality(Bars(w)) \in Nat
           /\ Cardinality(Bars(v)) + k <= Cardinality(Bars(w))
<1> DEFINE N == (w[p] - k + 1)..w[p]
           D == {p} \X N
<1>1. v[p] \in Nat /\ w[p] \in Nat OBVIOUS
<1>2. IsFiniteSet(N) /\ Cardinality(N) = k
  <2>1. w[p] - k + 1 \in Int /\ w[p] \in Int BY <1>1
  <2>2. /\ IsFiniteSet(N)
        /\ Cardinality(N) = IF w[p] - k + 1 > w[p] THEN 0 ELSE w[p] - (w[p] - k + 1) + 1
    BY <2>1, FS_Interval
  <2> HIDE DEF N
  <2>3. QED BY <1>1, <2>2
<1>3. IsFiniteSet(D) /\ Cardinality(D) = k
  <2> HIDE DEF N
  <2>1. IsFiniteSet({p}) /\ Cardinality({p}) = 1 BY FS_Singleton
  <2>2. IsFiniteSet(D) /\ Cardinality(D) = 1 * k BY <1>2, <2>1, FS_Product
  <2> HIDE DEF D
  <2>3. QED BY <2>2
<1>4. D \subseteq Bars(w)
  <2> SUFFICES ASSUME NEW n \in N PROVE n \in Nat \ {0} /\ n <= w[p]
    BY DEF Bars
  <2>1. QED BY <1>1
<1>5. Bars(v) \subseteq Bars(w) \ D
  <2> SUFFICES ASSUME NEW q \in P, NEW n \in Nat \ {0}, n <= v[q]
               PROVE  n <= w[q] /\ ~(q = p /\ n \in N)
    BY DEF Bars
  <2>1. v[q] \in Nat /\ w[q] \in Nat OBVIOUS
  <2>2. CASE q = p BY <1>1, <2>1, <2>2
  <2>3. CASE q # p
    <3>1. v[q] <= w[q] BY <2>3
    <3>2. QED BY <2>1, <2>3, <3>1
  <2>4. QED BY <2>2, <2>3
<1> HIDE DEF D, N
<1>6. Cardinality(Bars(w)) \in Nat BY FS_CardinalityType
<1>7. /\ IsFiniteSet(Bars(w) \ D)
      /\ Cardinality(Bars(w) \ D) = Cardinality(Bars(w)) - Cardinality(Bars(w) \cap D)
  BY FS_Difference
<1>8. Bars(w) \cap D = D BY <1>4
<1>9. /\ IsFiniteSet(Bars(v)) /\ Cardinality(Bars(v)) <= Cardinality(Bars(w) \ D)
  BY <1>5, <1>7, FS_Subset
<1>10. Cardinality(Bars(v)) \in Nat BY <1>9, FS_CardinalityType
<1>11. QED BY <1>3, <1>6, <1>7, <1>8, <1>9, <1>10

-----------------------------------------------------------------------------
(* What a process weighs in the count of a section: as often as it is inside *)
(* or, if that is more, as its history says.                                 *)

\* The slots for f of a process that is not between the count and its history;
\* of one that is, those it will have.
Recorded(p, f) ==
    LET n == Slots(history[p], f) IN
    IF at[p] = "record" /\ F(p) = f THEN n + 1
    ELSE IF at[p] = "unrecord" /\ F(p) = f /\ n > 0 THEN n - 1
    ELSE n

Weight(p, f) == IF depth[p][f] > Recorded(p, f) THEN depth[p][f] ELSE Recorded(p, f)
Weights(f) == [p \in Proc |-> Weight(p, f)]

\* The count of a section is not less than the sum of the weights.
NumInv ==
    \A f \in Flag \ {0} : /\ IsFiniteSet(Bars(Weights(f)))
                          /\ Cardinality(Bars(Weights(f))) <= num[f]

\* A weight is a number, at least the depth, and the slots of who is not in between.
LEMMA WeightType ==
    ASSUME TypeOK, NEW p \in Proc, NEW f \in Flag \ {0}
    PROVE  /\ Slots(history[p], f) \in Nat /\ Recorded(p, f) \in Nat /\ depth[p][f] \in Nat
           /\ Weight(p, f) \in Nat /\ depth[p][f] <= Weight(p, f)
           /\ Recorded(p, f) <= Weight(p, f)
           /\ at[p] \notin {"record", "unrecord"} => Recorded(p, f) = Slots(history[p], f)
<1>1. PICK n \in Nat : n = Slots(history[p], f) BY HeldFinite DEF TypeOK
<1>2. depth[p][f] \in Nat BY DEF TypeOK
<1>3. Recorded(p, f) \in Nat BY <1>1 DEF Recorded
<1>4. QED BY <1>1, <1>2, <1>3 DEF Weight, Recorded

\* The weights of all processes.
LEMMA WeightsType ==
    ASSUME NEW f \in Flag \ {0}
    PROVE  /\ TypeOK => Weights(f) \in [Proc -> Nat]
           /\ TypeOK' => Weights(f)' \in [Proc -> Nat]
<1>1. TypeOK => Weights(f) \in [Proc -> Nat] BY WeightType DEF Weights
<1>2. ASSUME TypeOK', NEW p \in Proc PROVE Weight(p, f)' \in Nat
  <2>1. PICK n \in Nat : n = Slots(history'[p], f) BY <1>2, HeldFinite DEF TypeOK
  <2>2. depth'[p][f] \in Nat BY <1>2 DEF TypeOK
  <2>3. Recorded(p, f)' \in Nat BY <2>1 DEF Recorded
  <2>4. QED BY <2>2, <2>3 DEF Weight
<1>3. TypeOK' => Weights(f)' \in [Proc -> Nat] BY <1>2 DEF Weights
<1>4. QED BY <1>1, <1>3

\* Who does not move keeps its weight.
LEMMA SameWeight ==
    ASSUME NEW q \in Proc, at'[q] = at[q], path'[q] = path[q], history'[q] = history[q],
           depth'[q] = depth[q], NEW f
    PROVE  Weight(q, f)' = Weight(q, f)
BY DEF Weight, Recorded, F, Cur

\* Nor does the weight depend on where a process is, but for the two places
\* between the count and the history.
LEMMA RestWeight ==
    ASSUME NEW q \in Proc, at[q] \notin {"record", "unrecord"}, at'[q] \notin {"record", "unrecord"},
           history'[q] = history[q], depth'[q] = depth[q], NEW f
    PROVE  Weight(q, f)' = Weight(q, f)
BY DEF Weight, Recorded

\* A step that makes no weight larger and no count smaller.
LEMMA NumKeeps ==
    ASSUME TypeOK, TypeOK', NumInv,
           \A f \in Flag \ {0} : num'[f] >= num[f],
           \A q \in Proc, f \in Flag \ {0} : Weight(q, f)' <= Weight(q, f)
    PROVE  NumInv'
<1> SUFFICES ASSUME NEW f \in Flag \ {0}
             PROVE  /\ IsFiniteSet(Bars(Weights(f)')) /\ Cardinality(Bars(Weights(f)')) <= num'[f]
  BY DEF NumInv, Bars
<1>1. PICK w \in [Proc -> Nat], v \in [Proc -> Nat] : w = Weights(f) /\ v = Weights(f)'
  BY WeightsType
<1>2. \A q \in Proc : v[q] <= w[q] BY <1>1 DEF Weights
<1>3. IsFiniteSet(Bars(w)) /\ Cardinality(Bars(w)) <= num[f] BY <1>1 DEF NumInv
<1>4. /\ IsFiniteSet(Bars(v)) /\ Cardinality(Bars(v)) \in Nat /\ Cardinality(Bars(w)) \in Nat
      /\ Cardinality(Bars(v)) <= Cardinality(Bars(w))
  BY <1>2, <1>3, BarsLess
<1>5. num[f] \in Int /\ num'[f] \in Int BY DEF TypeOK
<1>6. Cardinality(Bars(v)) <= num'[f] BY <1>3, <1>4, <1>5
<1>7. QED BY <1>1, <1>4, <1>6

\* A step that counts an entry of p.
LEMMA NumMore ==
    ASSUME TypeOK, TypeOK', NumInv, NEW p \in Proc, NEW g,
           \A f \in Flag \ {0} : num'[f] = IF f = g THEN num[f] + 1 ELSE num[f],
           \A q \in Proc \ {p}, f \in Flag \ {0} : Weight(q, f)' <= Weight(q, f),
           \A f \in Flag \ {0} : Weight(p, f)' <= IF f = g THEN Weight(p, f) + 1 ELSE Weight(p, f)
    PROVE  NumInv'
<1> SUFFICES ASSUME NEW f \in Flag \ {0}
             PROVE  /\ IsFiniteSet(Bars(Weights(f)')) /\ Cardinality(Bars(Weights(f)')) <= num'[f]
  BY DEF NumInv, Bars
<1>1. PICK w \in [Proc -> Nat], v \in [Proc -> Nat] : w = Weights(f) /\ v = Weights(f)'
  BY WeightsType
<1>2. /\ \A q \in Proc \ {p} : v[q] <= w[q]
      /\ v[p] <= IF f = g THEN w[p] + 1 ELSE w[p]
  BY <1>1 DEF Weights
<1>3. IsFiniteSet(Bars(w)) /\ Cardinality(Bars(w)) <= num[f] BY <1>1 DEF NumInv
<1>4. num[f] \in Int /\ num'[f] \in Int BY DEF TypeOK
<1>5. CASE f = g
  <2>1. v[p] <= w[p] + 1 BY <1>2, <1>5
  <2>2. /\ IsFiniteSet(Bars(v)) /\ Cardinality(Bars(v)) \in Nat /\ Cardinality(Bars(w)) \in Nat
        /\ Cardinality(Bars(v)) <= Cardinality(Bars(w)) + 1
    BY <1>2, <1>3, <2>1, BarsMore
  <2>3. Cardinality(Bars(v)) <= num'[f] BY <1>3, <1>4, <1>5, <2>2
  <2>4. QED BY <1>1, <2>2, <2>3
<1>6. CASE f # g
  <2>1. \A q \in Proc : v[q] <= w[q] BY <1>2, <1>6
  <2>2. /\ IsFiniteSet(Bars(v)) /\ Cardinality(Bars(v)) \in Nat /\ Cardinality(Bars(w)) \in Nat
        /\ Cardinality(Bars(v)) <= Cardinality(Bars(w))
    BY <1>3, <2>1, BarsLess
  <2>3. Cardinality(Bars(v)) <= num'[f] BY <1>3, <1>4, <1>6, <2>2
  <2>4. QED BY <1>1, <2>2, <2>3
<1>7. QED BY <1>5, <1>6

\* A step that takes p out of its sections, as far as the counts go.
LEMMA NumDrop ==
    ASSUME TypeOK, TypeOK', NumInv, NEW p \in Proc, NEW k, k \in [Flag \ {0} -> Nat],
           \A f \in Flag \ {0} : num'[f] = num[f] - k[f],
           \A q \in Proc \ {p}, f \in Flag \ {0} : Weight(q, f)' <= Weight(q, f),
           \A f \in Flag \ {0} : Weight(p, f)' + k[f] <= Weight(p, f)
    PROVE  NumInv'
<1> SUFFICES ASSUME NEW f \in Flag \ {0}
             PROVE  /\ IsFiniteSet(Bars(Weights(f)')) /\ Cardinality(Bars(Weights(f)')) <= num'[f]
  BY DEF NumInv, Bars
<1>1. PICK w \in [Proc -> Nat], v \in [Proc -> Nat] : w = Weights(f) /\ v = Weights(f)'
  BY WeightsType
<1>2. \A q \in Proc \ {p} : v[q] <= w[q] BY <1>1 DEF Weights
<1>3. PICK c \in Nat : c = k[f] OBVIOUS
<1>4. v[p] + c <= w[p] BY <1>1, <1>3 DEF Weights
<1>5. IsFiniteSet(Bars(w)) /\ Cardinality(Bars(w)) <= num[f] BY <1>1 DEF NumInv
<1>6. num[f] \in Int /\ num'[f] \in Int BY DEF TypeOK
<1>7. /\ IsFiniteSet(Bars(v)) /\ Cardinality(Bars(v)) \in Nat /\ Cardinality(Bars(w)) \in Nat
      /\ Cardinality(Bars(v)) + c <= Cardinality(Bars(w))
  BY <1>2, <1>4, <1>5, BarsDrop
<1>8. num'[f] = num[f] - c BY <1>3
<1>9. Cardinality(Bars(v)) <= num'[f] BY <1>5, <1>6, <1>7, <1>8
<1>10. QED BY <1>1, <1>7, <1>9

\* The step of enter that counts.
LEMMA AdmitNum ==
    ASSUME TypeOK, TypeOK', NumInv, NEW p \in Proc, EnterAdmit(p)
    PROVE  NumInv'
<1>1. /\ path[p] # <<>> /\ at[p] = "admit" /\ at'[p] = "record" /\ path' = path /\ history' = history
      /\ \A q \in Proc \ {p} : at'[q] = at[q] /\ depth'[q] = depth[q]
  BY DEF EnterAdmit, In, Running, Goto, TypeOK
<1>2. PICK g \in Flag : g = F(p) BY <1>1, CurType
<1>3. /\ \A f \in Flag : num'[f] = IF f = g THEN num[f] + 1 ELSE num[f]
      /\ \A f \in Flag : depth'[p][f] = IF f = g THEN depth[p][f] + 1 ELSE depth[p][f]
  BY <1>2 DEF EnterAdmit, TypeOK
<1>4. F(p)' = g BY <1>1, <1>2 DEF F, Cur
<1>5. ASSUME NEW f \in Flag \ {0}
      PROVE  Weight(p, f)' <= IF f = g THEN Weight(p, f) + 1 ELSE Weight(p, f)
  <2>1. PICK n \in Nat, d \in Nat : n = Slots(history[p], f) /\ d = depth[p][f] BY WeightType
  <2>2. Weight(p, f) = IF d > n THEN d ELSE n BY <1>1, <2>1 DEF Weight, Recorded
  <2>3. Slots(history[p], f)' = n BY <1>1, <2>1
  <2>4. Recorded(p, f)' = IF f = g THEN n + 1 ELSE n BY <1>1, <1>4, <2>3 DEF Recorded
  <2>5. depth'[p][f] = IF f = g THEN d + 1 ELSE d BY <1>3, <2>1
  <2>6. QED BY <2>2, <2>4, <2>5 DEF Weight
<1>6. ASSUME NEW q \in Proc \ {p}, NEW f \in Flag \ {0} PROVE Weight(q, f)' <= Weight(q, f)
  <2>1. Weight(q, f)' = Weight(q, f) BY <1>1, SameWeight
  <2>2. QED BY <2>1, WeightType
<1>7. QED BY <1>3, <1>5, <1>6, NumMore

\* The step of exit that counts, for a process that is inside.
LEMMA ExitNum ==
    ASSUME TypeOK, TypeOK', NumInv, NEW p \in Proc, Exit(p), depth[p][F(p)] >= 1
    PROVE  NumInv'
<1>1. /\ path[p] # <<>> /\ at[p] = "ready" /\ at'[p] = "unrecord" /\ path' = path /\ history' = history
      /\ \A q \in Proc \ {p} : at'[q] = at[q] /\ depth'[q] = depth[q]
  BY DEF Exit, Doing, Running, Goto, TypeOK
<1>2. PICK g \in Flag : g = F(p) BY <1>1, CurType
<1>3. /\ \A f \in Flag : num'[f] = IF f = g THEN num[f] - 1 ELSE num[f]
      /\ \A f \in Flag : depth'[p][f] = IF f = g THEN depth[p][f] - 1 ELSE depth[p][f]
  BY <1>2 DEF Exit, TypeOK
<1>4. F(p)' = g BY <1>1, <1>2 DEF F, Cur
<1>5. PICK k : k = [f \in Flag \ {0} |-> IF f = g THEN 1 ELSE 0] OBVIOUS
<1>6. ASSUME NEW f \in Flag \ {0} PROVE Weight(p, f)' + k[f] <= Weight(p, f)
  <2>1. PICK n \in Nat, d \in Nat : n = Slots(history[p], f) /\ d = depth[p][f] BY WeightType
  <2>2. Weight(p, f) = IF d > n THEN d ELSE n BY <1>1, <2>1 DEF Weight, Recorded
  <2>3. Slots(history[p], f)' = n BY <1>1, <2>1
  <2>4. Recorded(p, f)' = IF f = g /\ n > 0 THEN n - 1 ELSE n BY <1>1, <1>4, <2>3 DEF Recorded
  <2>5. depth'[p][f] = IF f = g THEN d - 1 ELSE d BY <1>3, <2>1
  <2>6. f = g => d >= 1 BY <1>2, <2>1
  <2>7. k[f] = IF f = g THEN 1 ELSE 0 BY <1>5
  <2>8. QED BY <2>2, <2>4, <2>5, <2>6, <2>7 DEF Weight
<1>7. ASSUME NEW q \in Proc \ {p}, NEW f \in Flag \ {0} PROVE Weight(q, f)' <= Weight(q, f)
  <2>1. Weight(q, f)' = Weight(q, f) BY <1>1, SameWeight
  <2>2. QED BY <2>1, WeightType
<1>8. \A f \in Flag \ {0} : num'[f] = num[f] - k[f]
  <2>1. \A f \in Flag : num[f] \in Int BY DEF TypeOK
  <2>2. QED BY <1>3, <1>5, <2>1
<1>9. k \in [Flag \ {0} -> Nat] BY <1>5
<1>10. QED BY <1>6, <1>7, <1>8, <1>9, NumDrop

\* The histories follow.
LEMMA RecordNum ==
    ASSUME TypeOK, TypeOK', NumInv, NEW p \in Proc, EnterRecord(p) \/ ExitRecord(p)
    PROVE  NumInv'
<1>1. /\ path[p] # <<>> /\ at[p] \in {"record", "unrecord"} /\ at'[p] = "ready"
      /\ num' = num /\ depth' = depth
      /\ \A q \in Proc \ {p} : at'[q] = at[q] /\ path'[q] = path[q] /\ history'[q] = history[q]
  BY DEF EnterRecord, ExitRecord, In, Running, Goto, Advance, TypeOK, locks, ghosts
<1>2. PICK g \in Flag : g = F(p) BY <1>1, CurType
<1>3. ASSUME NEW f \in Flag \ {0} PROVE Weight(p, f)' <= Weight(p, f)
  <2>1. PICK n \in Nat, d \in Nat : n = Slots(history[p], f) /\ d = depth[p][f] BY WeightType
  <2>2. PICK m \in Nat : m = Slots(history'[p], f) BY HeldFinite DEF TypeOK
  <2>3. Weight(p, f)' = IF d > m THEN d ELSE m BY <1>1, <2>1, <2>2 DEF Weight, Recorded
  <2>4. m <= Recorded(p, f)
    <3>1. history[p] \in Seq(Flag) /\ Len(history[p]) <= HistorySize BY DEF TypeOK
    <3>2. CASE at[p] = "record"
      <4>1. history'[p] = AddHistory(history[p], g)
        BY <1>2, <3>2 DEF EnterRecord, ExitRecord, In, TypeOK
      <4>2. m <= n + (IF f = g THEN 1 ELSE 0) BY <2>1, <2>2, <3>1, <4>1, AddHistorySlots
      <4>3. Recorded(p, f) = IF f = g THEN n + 1 ELSE n BY <1>2, <2>1, <3>2 DEF Recorded
      <4>4. QED BY <4>2, <4>3
    <3>3. CASE at[p] = "unrecord"
      <4>1. history'[p] = DelHistory(history[p], g)
        BY <1>2, <3>3 DEF EnterRecord, ExitRecord, In, TypeOK
      <4>2. m <= n /\ (f = g /\ n > 0 => m <= n - 1)
        BY <2>1, <2>2, <3>1, <4>1, DelHistorySlots
      <4>3. Recorded(p, f) = IF f = g /\ n > 0 THEN n - 1 ELSE n BY <1>2, <2>1, <3>3 DEF Recorded
      <4>4. QED BY <4>2, <4>3
    <3>4. QED BY <1>1, <3>2, <3>3
  <2>5. PICK r \in Nat : r = Recorded(p, f) BY WeightType
  <2>6. Weight(p, f) = IF d > r THEN d ELSE r BY <2>1, <2>5 DEF Weight
  <2>7. QED BY <2>3, <2>4, <2>5, <2>6
<1>4. ASSUME NEW q \in Proc \ {p}, NEW f \in Flag \ {0} PROVE Weight(q, f)' <= Weight(q, f)
  <2>1. Weight(q, f)' = Weight(q, f) BY <1>1, SameWeight
  <2>2. QED BY <2>1, WeightType
<1>5. \A f \in Flag \ {0} : num'[f] >= num[f] BY <1>1 DEF TypeOK
<1>6. QED BY <1>3, <1>4, <1>5, NumKeeps

\* exit_rcs_after_recovery takes as much from the counts as the history says.
LEMMA ExitAllNum ==
    ASSUME TypeOK, TypeOK', NumInv, NEW p \in Proc, ExitAll(p), Victim \in Proc,
           at[Victim] \notin {"record", "unrecord"}
    PROVE  NumInv'
<1>1. PICK v \in Proc : v = Victim OBVIOUS
<1>2. /\ at' = at /\ history' = [history EXCEPT ![v] = <<>>]
      /\ depth' = [depth EXCEPT ![v] = [f \in Flag |-> 0]]
      /\ num' = [f \in Flag |-> num[f] - Slots(history[v], f)]
      /\ at[p] = "ready" /\ \A q \in Proc \ {p} : path'[q] = path[q]
  BY <1>1 DEF ExitAll, Recovering, Doing, Advance, TypeOK
<1>3. /\ history'[v] = <<>> /\ \A f \in Flag : depth'[v][f] = 0
      /\ \A q \in Proc \ {v} : history'[q] = history[q] /\ depth'[q] = depth[q]
  BY <1>2 DEF TypeOK
<1>4. PICK k : k = [f \in Flag \ {0} |-> Slots(history[v], f)] OBVIOUS
<1>5. k \in [Flag \ {0} -> Nat] BY <1>4, WeightType
<1>6. ASSUME NEW f \in Flag \ {0} PROVE Weight(v, f)' + k[f] <= Weight(v, f)
  <2>1. PICK n \in Nat, d \in Nat : n = Slots(history[v], f) /\ d = depth[v][f] BY WeightType
  <2>2. Weight(v, f) = IF d > n THEN d ELSE n BY <1>1, <2>1 DEF Weight, Recorded
  <2>3. Slots(<<>>, f) = 0 BY EmptySlots
  <2>4. Slots(history[v], f)' = 0 BY <1>3, <2>3
  <2>5. Recorded(v, f)' = 0 BY <1>1, <1>2, <2>4 DEF Recorded
  <2>6. Weight(v, f)' = 0 BY <1>3, <2>5 DEF Weight
  <2>7. k[f] = n BY <1>4, <2>1
  <2>8. QED BY <2>2, <2>6, <2>7
<1>7. ASSUME NEW q \in Proc \ {v}, NEW f \in Flag \ {0} PROVE Weight(q, f)' <= Weight(q, f)
  <2>1. CASE q = p
    <3>1. Weight(q, f)' = Weight(q, f) BY <1>2, <1>3, <2>1, RestWeight
    <3>2. QED BY <3>1, WeightType
  <2>2. CASE q # p
    <3>1. Weight(q, f)' = Weight(q, f) BY <1>2, <1>3, <2>2, SameWeight
    <3>2. QED BY <3>1, WeightType
  <2>3. QED BY <2>1, <2>2
<1>8. \A f \in Flag \ {0} : num'[f] = num[f] - k[f] BY <1>2, <1>4
<1>9. QED BY <1>5, <1>6, <1>7, <1>8, NumDrop

\* A step that counts nobody and takes nobody out of the counts.
LEMMA RestNum ==
    ASSUME TypeOK, TypeOK', NumInv, num' = num, history' = history,
           \A q \in Proc : \/ at'[q] = at[q] /\ path'[q] = path[q] /\ depth'[q] = depth[q]
                           \/ /\ at[q] \notin {"record", "unrecord"}
                              /\ at'[q] \notin {"record", "unrecord"}
                              /\ \A f \in Flag : depth'[q][f] <= depth[q][f]
    PROVE  NumInv'
<1>1. ASSUME NEW q \in Proc, NEW f \in Flag \ {0} PROVE Weight(q, f)' <= Weight(q, f)
  <2>1. PICK n \in Nat, d \in Nat : n = Slots(history[q], f) /\ d = depth[q][f] BY <1>1, WeightType
  <2>2. CASE at'[q] = at[q] /\ path'[q] = path[q] /\ depth'[q] = depth[q]
    <3>1. Weight(q, f)' = Weight(q, f) BY <1>1, <2>2, SameWeight
    <3>2. QED BY <1>1, <3>1, WeightType
  <2>3. CASE /\ at[q] \notin {"record", "unrecord"} /\ at'[q] \notin {"record", "unrecord"}
             /\ \A g \in Flag : depth'[q][g] <= depth[q][g]
    <3>1. PICK e \in Nat : e = depth'[q][f] BY <1>1 DEF TypeOK
    <3>2. e <= d BY <1>1, <2>1, <2>3, <3>1
    <3>3. Weight(q, f) = IF d > n THEN d ELSE n BY <2>1, <2>3 DEF Weight, Recorded
    <3>4. Weight(q, f)' = IF e > n THEN e ELSE n BY <2>1, <2>3, <3>1 DEF Weight, Recorded
    <3>5. QED BY <3>2, <3>3, <3>4
  <2>4. QED BY <1>1, <2>2, <2>3
<1>2. \A f \in Flag \ {0} : num'[f] >= num[f] BY DEF TypeOK
<1>3. QED BY <1>1, <1>2, NumKeeps

-----------------------------------------------------------------------------
(* Where a process is in its path. *)

\* Inside enter and exit the operation is still at the head of the path.
StageInv ==
    \A p \in Proc :
        /\ at[p] \in {"test", "sleep", "asleep", "woken", "admit", "record"}
              => path[p] # <<>> /\ Cur(p).op = "enter"
        /\ at[p] = "unrecord" => path[p] # <<>> /\ Cur(p).op = "exit"

\* A step of one process leaves the others where they are, or ends their calls.
LEMMA StageLocal ==
    ASSUME StageInv, NEW p \in Proc,
           \A q \in Proc \ {p} : \/ at'[q] \in {"ready", "nmi"}
                                 \/ /\ path'[q] = path[q]
                                    /\ at'[q] = at[q] \/ (at[q] = "asleep" /\ at'[q] = "woken"),
           \/ at'[p] \in {"ready", "nmi"}
           \/ path'[p] # <<>> /\ Head(path'[p]).op = "enter" /\ at'[p] # "unrecord"
           \/ path'[p] # <<>> /\ Head(path'[p]).op = "exit" /\ at'[p] = "unrecord"
    PROVE  StageInv'
BY DEF StageInv, Cur

\* StageInv is inductive.
LEMMA StageNext ==
    ASSUME TypeOK, StageInv, NEW p \in Proc, Call(p) \/ Step(p) \/ Nmi(p)
    PROVE  StageInv'
<1> USE DEF Goto, Advance, Doing, In, Running, Recovering, locks, nmiVars, ghosts
<1>1. CASE Call(p) \/ Use(p) \/ Nmi(p)
  <2>1. at'[p] \in {"ready", "nmi"} BY <1>1 DEF Call, Use, Nmi, TypeOK
  <2>2. \A q \in Proc \ {p} : path'[q] = path[q] /\ at'[q] = at[q]
    BY <1>1 DEF Call, Use, Nmi, TypeOK
  <2>3. QED BY <2>1, <2>2, StageLocal
<1>2. CASE EnterNode(p) \/ EnterRecord(p) \/ ExitRecord(p)
  <2>1. at'[p] = "ready" BY <1>2 DEF EnterNode, EnterRecord, ExitRecord, TypeOK
  <2>2. \A q \in Proc \ {p} : path'[q] = path[q] /\ at'[q] = at[q]
    BY <1>2 DEF EnterNode, EnterRecord, ExitRecord, TypeOK
  <2>3. QED BY <2>1, <2>2, StageLocal
<1>3. CASE EnterBegin(p) \/ EnterTest(p) \/ EnterSleep(p) \/ EnterWoken(p) \/ EnterAdmit(p)
  <2>1. path' = path /\ path[p] # <<>> /\ Cur(p).op = "enter"
    BY <1>3 DEF StageInv, EnterBegin, EnterTest, EnterSleep, EnterWoken, EnterAdmit
  <2>2. at'[p] # "unrecord" /\ \A q \in Proc \ {p} : at'[q] = at[q]
    BY <1>3 DEF EnterBegin, EnterTest, EnterSleep, EnterWoken, EnterAdmit, TypeOK
  <2>3. QED BY <2>1, <2>2, StageLocal DEF Cur
<1>4. CASE Exit(p)
  <2>1. /\ path' = path /\ path[p] # <<>> /\ Cur(p).op = "exit" /\ at'[p] = "unrecord"
        /\ \A q \in Proc \ {p} : at'[q] = at[q]
    BY <1>4 DEF Exit, TypeOK
  <2>2. QED BY <2>1, StageLocal DEF Cur
<1>5. CASE \/ AcquireRecoveryLock(p) \/ WaitCommit(p) \/ CountProcs(p) \/ CountOutOfBounds(p)
           \/ WaitGiant(p) \/ Repair(p) \/ ExitAll(p) \/ ReleaseRecoveryLock(p)
  <2>1. at' = at /\ at[p] = "ready"
    BY <1>5 DEF AcquireRecoveryLock, WaitCommit, CountProcs, CountOutOfBounds, WaitGiant, Repair,
                ExitAll, ReleaseRecoveryLock
  <2>2. \A q \in Proc \ {p} : path'[q] = path[q]
    BY <1>5 DEF AcquireRecoveryLock, WaitCommit, CountProcs, CountOutOfBounds, WaitGiant, Repair,
                ExitAll, ReleaseRecoveryLock, TypeOK
  <2>3. QED BY <2>1, <2>2, StageLocal
<1>6. CASE WakeWaiters(p)
  <2>1. /\ at'[p] = "ready"
        /\ \A q \in Proc \ {p} : /\ path'[q] = path[q]
                                 /\ at'[q] = at[q] \/ (at[q] = "asleep" /\ at'[q] = "woken")
    BY <1>6 DEF WakeWaiters, TypeOK
  <2>2. QED BY <2>1, StageLocal
<1>7. CASE Done(p)
  <2>1. PICK v \in Proc : v = Victim BY <1>7, VictimType DEF Done
  <2>2. at'[p] = "ready" /\ at' = [at EXCEPT ![v] = "ready"] BY <1>7, <2>1 DEF Done, TypeOK
  <2>3. \A q \in Proc \ {p, v} : path'[q] = path[q] BY <1>7, <2>1 DEF Done, TypeOK
  <2>4. \A q \in Proc \ {p} : at'[q] = "ready" \/ (path'[q] = path[q] /\ at'[q] = at[q])
    BY <2>2, <2>3 DEF TypeOK
  <2>5. QED BY <2>2, <2>4, StageLocal
<1>8. QED BY <1>1, <1>2, <1>3, <1>4, <1>5, <1>6, <1>7 DEF Step, Enter, Leave, Recover

-----------------------------------------------------------------------------
(* Where a process is, and what it has done, according to the ledgers G. *)

\* The objects that are used inside their section only.
Inner(G) == {f \in Flag : \A x \in G :
                x[1] # <<>> /\ Head(x[1]).op = "use" /\ Head(x[1]).flag = f => x[2].inside[f] >= 1}

InQueue(q) == \E i \in 1..Len(queue) : queue[i].pid = q

\* The NMI Queue: the recovery process may be the first victim; all other victims
\* wait, each with one memory error, inside the section of the object that was
\* hit if it is used only there.
QueueInv(G) ==
    /\ tracker = NoProc <=> queue = <<>>
    /\ tracker # NoProc => at[tracker] # "nmi"
    /\ \A f \in Flag : rlock[f] \in {NoProc, tracker}
    /\ \A i \in 1..Len(queue) :
          /\ queue[i].flag \in Broken
          /\ at[queue[i].pid] = "nmi" \/ (i = 1 /\ queue[i].pid = tracker)
          /\ \A j \in 1..Len(queue) : queue[i].pid = queue[j].pid => i = j
          /\ i > 1 /\ queue[i].flag \in Inner(G) => depth[queue[i].pid][queue[i].flag] >= 1

\* The ledger when the step that enter or exit is in is counted.
Now(p, l) == IF at[p] \in {"record", "unrecord"} THEN Book(l, Cur(p)) ELSE l

\* What the ledger says of the sections a process is inside.
Fits(p, l) == \A f \in Flag : Now(p, l).inside[f] <= depth[p][f]

\* What the ledger of the recovery process says of the others: since it counted
\* the processes inside f nobody but the victim is in there, except who was late;
\* since it waited for g everybody in there is late or in the queue.
TrackerOK(G, l) ==
    /\ l.locked = {f \in Flag : rlock[f] = tracker}
    /\ l.counted \subseteq l.locked /\ l.waited \subseteq l.locked
    /\ \A f \in (l.counted \cap Inner(G)) \ {0} : Holders(f) \ {Victim} \subseteq late[f]
    /\ \A g \in l.waited \ {0} : \A q \in Holders(g) : q \in late[g] \/ InQueue(q)
    /\ \A f \in l.object \cap Inner(G) : depth[Victim][f] >= 1

Kept(G, p) ==
    \E x \in G : /\ x[1] = path[p]
                 /\ Fits(p, x[2])
                 /\ p = tracker => TrackerOK(G, x[2])

PathInv(G) == \A p \in Proc : at[p] # "nmi" => Kept(G, p)

\* The entries of the queue.
LEMMA QueueType ==
    ASSUME TypeOK
    PROVE  /\ queue \in Seq(Entry) /\ Len(queue) \in Nat
           /\ \A i \in 1..Len(queue) : queue[i].pid \in Proc /\ queue[i].flag \in Flag
<1>1. queue \in Seq(Entry) BY DEF TypeOK
<1>2. Len(queue) \in Nat BY <1>1, LenProperties
<1>3. \A i \in 1..Len(queue) : queue[i] \in Entry BY ONLY <1>1, ElementOfSeq
<1>4. \A i \in 1..Len(queue) : queue[i].pid \in Proc /\ queue[i].flag \in Flag
  BY ONLY <1>3 DEF Entry
<1>5. QED BY <1>1, <1>2, <1>4

\* Before its next operation a process has a ledger that allows it.
LEMMA Turn ==
    ASSUME NEW G, Disciplined(G), TypeOK, PathInv(G),
           NEW p \in Proc, at[p] # "nmi", path[p] # <<>>
    PROVE  \E l \in Ledger :
              /\ <<path[p], l>> \in G /\ Allowed(l, Cur(p)) /\ Fits(p, l)
              /\ p = tracker => TrackerOK(G, l)
              /\ Cur(p).op # "node" => /\ <<Tail(path[p]), Book(l, Cur(p))>> \in G
                                       /\ Book(l, Cur(p)) \in Ledger
              /\ Cur(p).op = "use" /\ F(p) \in Inner(G) => l.inside[F(p)] >= 1
<1>1. PICK x \in G : x[1] = path[p] /\ Fits(p, x[2]) /\ (p = tracker => TrackerOK(G, x[2]))
  BY DEF PathInv, Kept
<1>2. PICK s \in Seq(Operation), l \in Ledger : x = <<s, l>> BY <1>1 DEF Disciplined
<1>3. s = path[p] /\ x[2] = l BY <1>1, <1>2
<1>4. PICK o : o = Cur(p) OBVIOUS
<1>5. /\ Allowed(l, o)
      /\ o.op # "node" => <<Tail(path[p]), Book(l, o)>> \in G
  BY <1>1, <1>2, <1>3, <1>4 DEF Disciplined, Cur
<1>6. o.op # "node" => Book(l, o) \in Ledger
  <2>1. \A y \in G : \E t \in Seq(Operation), m \in Ledger : y = <<t, m>> BY DEF Disciplined
  <2>2. ASSUME o.op # "node" PROVE Book(l, o) \in Ledger
    <3>1. PICK t, m : m \in Ledger /\ <<Tail(path[p]), Book(l, o)>> = <<t, m>> BY <1>5, <2>1, <2>2
    <3>2. QED BY <3>1
  <2>3. QED BY <2>2
<1>7. o.op = "use" /\ F(p) \in Inner(G) => l.inside[F(p)] >= 1
  BY <1>1, <1>2, <1>3, <1>4 DEF Inner, Cur, F
<1>8. QED BY <1>1, <1>2, <1>3, <1>4, <1>5, <1>6, <1>7

\* An access of an object that is used inside its section only is made inside.
LEMMA VictimInside ==
    ASSUME NEW G, Disciplined(G), TypeOK, PathInv(G), NEW p \in Proc, at[p] = "ready",
           path[p] # <<>>, Cur(p).op = "use", F(p) \in Inner(G)
    PROVE  depth[p][F(p)] >= 1
<1>1. PICK l \in Ledger : Fits(p, l) /\ l.inside[F(p)] >= 1 BY Turn
<1>2. PICK g \in Flag : g = F(p) BY CurType
<1>3. l.inside[g] <= depth[p][g] BY <1>1 DEF Fits, Now
<1>4. l.inside[g] \in Nat /\ depth[p][g] \in Nat BY DEF Ledger, TypeOK
<1>5. QED BY <1>1, <1>2, <1>3, <1>4

\* A step of one process leaves the others to their paths.
LEMMA PathLocal ==
    ASSUME NEW G, PathInv(G), NEW p \in Proc,
           \A q \in Proc \ {p} : at'[q] # "nmi" =>
               /\ at[q] # "nmi" /\ path'[q] = path[q] /\ depth'[q] = depth[q]
               /\ at'[q] = at[q] \/ (at[q] = "asleep" /\ at'[q] = "woken"),
           tracker' \in Proc \ {p} =>
               tracker' = tracker /\ \A l : TrackerOK(G, l) => TrackerOK(G, l)',
           at'[p] # "nmi" => Kept(G, p)'
    PROVE  PathInv(G)'
<1>1. ASSUME NEW q \in Proc \ {p}, at'[q] # "nmi" PROVE Kept(G, q)'
  <2>1. PICK x \in G : x[1] = path[q] /\ Fits(q, x[2]) /\ (q = tracker => TrackerOK(G, x[2]))
    BY <1>1 DEF PathInv, Kept
  <2>2. PICK l : l = x[2] OBVIOUS
  <2>3. Now(q, l)' = Now(q, l) BY <1>1 DEF Now, Cur
  <2>4. Fits(q, l)' BY <1>1, <2>1, <2>2, <2>3 DEF Fits
  <2>5. q = tracker' => TrackerOK(G, l)' BY <1>1, <2>1, <2>2
  <2>6. x[1] = path'[q] BY <1>1, <2>1
  <2>7. Kept(G, q)' BY <2>2, <2>4, <2>5, <2>6 DEF Kept
  <2>8. QED BY <2>7
<1>2. QED BY <1>1 DEF PathInv

\* Steps that none of the recovery process's conclusions is about.
LEMMA TrackerQuiet ==
    ASSUME NEW G, NEW l, tracker' = tracker, rlock' = rlock, late' = late, queue' = queue,
           depth' = depth
    PROVE  TrackerOK(G, l) => TrackerOK(G, l)'
BY DEF TrackerOK, Holders, Victim, InQueue

\* Who is counted while the recovery lock is taken is noted as late.
LEMMA TrackerAdmit ==
    ASSUME NEW G, NEW l, TypeOK, tracker \in Proc, queue # <<>>, NEW p \in Proc, EnterAdmit(p),
           TrackerOK(G, l)
    PROVE  TrackerOK(G, l)'
<1>1. PICK g \in Flag : g = F(p) BY CurType DEF EnterAdmit, In, Running
<1>2. PICK v \in Proc : v = Victim BY VictimType
<1>3. /\ tracker' = tracker /\ rlock' = rlock /\ queue' = queue
      /\ depth' = [depth EXCEPT ![p][g] = @ + 1]
      /\ late' = [late EXCEPT ![g] = IF rlock[g] # NoProc THEN @ \cup {p} ELSE @]
  BY <1>1 DEF EnterAdmit, nmiVars
<1>4. \A q \in Proc, f \in Flag : depth'[q][f] = IF q = p /\ f = g THEN depth[q][f] + 1 ELSE depth[q][f]
  BY <1>3 DEF TypeOK
<1>5. \A f \in Flag : rlock[f] = tracker =>
         late'[f] = IF f = g THEN late[f] \cup {p} ELSE late[f]
  BY <1>3, ProcAssumption DEF TypeOK
<1>6. ASSUME NEW f \in Flag, rlock[f] = tracker
      PROVE  \A q \in Holders(f)' : q \in Holders(f) \/ q \in late'[f]
  BY <1>4, <1>5, <1>6 DEF Holders, TypeOK
<1>7. Victim' = v /\ \A q : InQueue(q)' = InQueue(q) BY <1>2, <1>3 DEF Victim, InQueue
<1>8. l.locked = {f \in Flag : rlock'[f] = tracker'} BY <1>3 DEF TrackerOK
<1>9. ASSUME NEW f \in (l.counted \cap Inner(G)) \ {0} PROVE Holders(f)' \ {v} \subseteq late'[f]
  <2>1. f \in Flag /\ rlock[f] = tracker BY <1>9 DEF TrackerOK
  <2>2. Holders(f) \ {v} \subseteq late[f] BY <1>2, <1>9 DEF TrackerOK
  <2>3. QED BY <1>5, <1>6, <2>1, <2>2
<1>10. ASSUME NEW f \in l.waited \ {0}, NEW q \in Holders(f)' PROVE q \in late'[f] \/ InQueue(q)
  <2>1. f \in Flag /\ rlock[f] = tracker BY <1>10 DEF TrackerOK
  <2>2. q \in Holders(f) => q \in late[f] \/ InQueue(q) BY <1>10 DEF TrackerOK
  <2>3. QED BY <1>5, <1>6, <1>10, <2>1, <2>2
<1>11. ASSUME NEW f \in l.object \cap Inner(G) PROVE depth'[v][f] >= 1
  <2>1. f \in Flag /\ depth[v][f] \in Nat /\ depth[v][f] >= 1
    BY SMTT(60), <1>2, <1>11 DEF TrackerOK, Inner, TypeOK
  <2>2. QED BY <1>4, <2>1
<1>12. QED BY <1>7, <1>8, <1>9, <1>10, <1>11 DEF TrackerOK

\* Who leaves f is not counted any more; the victim does not leave its object.
LEMMA TrackerExit ==
    ASSUME NEW G, NEW l, TypeOK, queue # <<>>, NEW p \in Proc, Exit(p),
           p = Victim => F(p) \notin l.object, TrackerOK(G, l)
    PROVE  TrackerOK(G, l)'
<1>1. PICK g \in Flag : g = F(p) BY CurType DEF Exit, Doing, Running
<1>2. PICK v \in Proc : v = Victim BY VictimType
<1>3. /\ tracker' = tracker /\ rlock' = rlock /\ queue' = queue /\ late' = late
      /\ depth' = [depth EXCEPT ![p][g] = IF @ > 0 THEN @ - 1 ELSE @]
  BY <1>1 DEF Exit, nmiVars
<1>4. /\ \A q \in Proc, f \in Flag : depth'[q][f] > 0 => depth[q][f] > 0
      /\ \A q \in Proc, f \in Flag : q # p \/ f # g => depth'[q][f] = depth[q][f]
  BY <1>3 DEF TypeOK
<1>5. \A f \in Flag : Holders(f)' \subseteq Holders(f) BY <1>4 DEF Holders
<1>6. Victim' = v /\ \A q : InQueue(q)' = InQueue(q) BY <1>2, <1>3 DEF Victim, InQueue
<1>7. \A f \in l.locked : f \in Flag BY DEF TrackerOK
<1>8. l.locked = {f \in Flag : rlock'[f] = tracker'} BY <1>3 DEF TrackerOK
<1>9. ASSUME NEW f \in (l.counted \cap Inner(G)) \ {0} PROVE Holders(f)' \ {v} \subseteq late'[f]
  <2>1. f \in Flag BY <1>7, <1>9 DEF TrackerOK
  <2>2. Holders(f) \ {v} \subseteq late[f] BY <1>2, <1>9 DEF TrackerOK
  <2>3. QED BY <1>3, <1>5, <2>1, <2>2
<1>10. ASSUME NEW f \in l.waited \ {0}, NEW q \in Holders(f)' PROVE q \in late'[f] \/ InQueue(q)
  <2>1. f \in Flag BY <1>7, <1>10 DEF TrackerOK
  <2>2. q \in Holders(f) => q \in late[f] \/ InQueue(q) BY <1>10 DEF TrackerOK
  <2>3. QED BY <1>3, <1>5, <1>10, <2>1, <2>2
<1>11. ASSUME NEW f \in l.object \cap Inner(G) PROVE depth'[v][f] >= 1
  <2>1. f \in Flag /\ depth[v][f] >= 1 BY <1>2, <1>11 DEF TrackerOK, Inner
  <2>2. v # p \/ f # g BY <1>1, <1>2, <1>11
  <2>3. QED BY <1>4, <2>1, <2>2
<1>12. QED BY <1>3, <1>6, <1>8, <1>9, <1>10, <1>11 DEF TrackerOK

-----------------------------------------------------------------------------
(* What the handlers learn from a count. *)

\* Each process that is inside, and each process with the section in its history,
\* has a bar of its own.
LEMMA BarOf ==
    ASSUME TypeOK, NEW f \in Flag \ {0}, NEW q \in Proc,
           at[q] \notin {"record", "unrecord"} \/ q \in Holders(f),
           q \in Holders(f) \/ InHistory(q, f)
    PROVE  <<q, 1>> \in Bars(Weights(f))
<1>1. PICK n \in Nat, d \in Nat, w \in Nat :
         /\ n = Slots(history[q], f) /\ d = depth[q][f] /\ w = Weight(q, f) /\ d <= w
         /\ at[q] \notin {"record", "unrecord"} => n <= w
  BY WeightType
<1>2. w >= 1
  <2>1. CASE q \in Holders(f) BY <1>1, <2>1 DEF Holders
  <2>2. CASE q \notin Holders(f)
    <3>1. history[q] \in Seq(Flag) BY DEF TypeOK
    <3>2. PICK i \in 1..Len(history[q]) : history[q][i] = f BY <2>2 DEF InHistory
    <3>3. i \in Held(history[q], f) BY <3>2 DEF Held
    <3>4. IsFiniteSet(Held(history[q], f)) /\ n = Cardinality(Held(history[q], f))
      BY <1>1, <3>1, HeldFinite
    <3>5. n # 0 BY <3>3, <3>4, FS_EmptySet
    <3>6. QED BY <1>1, <2>2, <3>5
  <2>3. QED BY <2>1, <2>2
<1>3. DOMAIN Weights(f) = Proc /\ Weights(f)[q] = w BY <1>1 DEF Weights
<1>4. QED BY <1>2, <1>3 DEF Bars

\* A count of one or less, while the victim is inside: it is the only one.
LEMMA CountedAlone ==
    ASSUME TypeOK, NumInv, NEW f \in Flag \ {0}, num[f] <= 1, NEW v \in Proc, depth[v][f] >= 1
    PROVE  Holders(f) \subseteq {v}
<1> SUFFICES ASSUME NEW q \in Holders(f), q # v PROVE FALSE OBVIOUS
<1>1. q \in Proc BY DEF Holders
<1>2. v \in Holders(f)
  <2>1. depth[v][f] \in Nat BY DEF TypeOK
  <2>2. QED BY <2>1 DEF Holders
<1>3. PICK B : B = Bars(Weights(f)) OBVIOUS
<1>4. IsFiniteSet(B) /\ Cardinality(B) <= num[f] BY <1>3 DEF NumInv
<1>5. <<v, 1>> \in B /\ <<q, 1>> \in B BY <1>1, <1>2, <1>3, BarOf
<1>6. /\ IsFiniteSet({<<v, 1>>}) /\ Cardinality({<<v, 1>>}) = 1 BY FS_Singleton
<1>7. Cardinality({<<v, 1>>} \cup {<<q, 1>>}) = 2
  <2>1. PICK x, y : x = <<v, 1>> /\ y = <<q, 1>> OBVIOUS
  <2>2. y \notin {x} BY <2>1
  <2>3. Cardinality({x}) = 1 /\ IsFiniteSet({x}) BY <1>6, <2>1
  <2>4. Cardinality({x} \cup {y}) = Cardinality({x}) + 1 BY ONLY <2>2, <2>3, FS_AddElement
  <2>5. QED BY <2>1, <2>3, <2>4
<1>8. {<<v, 1>>} \cup {<<q, 1>>} \subseteq B BY <1>5
<1>9. 2 <= Cardinality(B) /\ Cardinality(B) \in Nat BY <1>4, <1>7, <1>8, FS_Subset, FS_CardinalityType
<1>10. num[f] \in Int BY DEF TypeOK
<1>11. QED BY <1>4, <1>9, <1>10

\* The busy-wait has seen as many victims in the queue as are counted: everybody
\* inside is one of them.
LEMMA Drained ==
    ASSUME TypeOK, NumInv, NEW g \in Flag \ {0}, num[g] - WaitingInQueue(g) = 0,
           \A i, j \in 1..Len(queue) : queue[i].pid = queue[j].pid => i = j,
           \A i \in 1..Len(queue) : at[queue[i].pid] \notin {"record", "unrecord"},
           NEW q \in Holders(g)
    PROVE  InQueue(q)
<1> SUFFICES ASSUME ~InQueue(q) PROVE FALSE OBVIOUS
<1> DEFINE I == {i \in 1..Len(queue) : InHistory(queue[i].pid, g)}
           J == I \cup {0}
           m == [i \in J |-> IF i = 0 THEN <<q, 1>> ELSE <<queue[i].pid, 1>>]
<1>1. q \in Proc BY DEF Holders
<1>2. queue \in Seq(Entry) /\ Len(queue) \in Nat /\ \A i \in 1..Len(queue) : queue[i].pid \in Proc
  BY QueueType
<1>3. PICK B : B = Bars(Weights(g)) OBVIOUS
<1>4. IsFiniteSet(B) /\ Cardinality(B) <= num[g] BY <1>3 DEF NumInv
<1>5. IsFiniteSet(I)
  <2>1. IsFiniteSet(1..Len(queue)) BY ONLY <1>2, FS_Interval
  <2>2. I \subseteq 1..Len(queue) OBVIOUS
  <2>3. QED BY ONLY <2>1, <2>2, FS_Subset
<1>6. Cardinality(J) = Cardinality(I) + 1 /\ Cardinality(I) \in Nat
  <2>1. 0 \notin I BY <1>2
  <2>2. QED BY <1>5, <2>1, FS_AddElement, FS_CardinalityType
<1>7. m \in [J -> B]
  <2> SUFFICES ASSUME NEW i \in J PROVE (IF i = 0 THEN <<q, 1>> ELSE <<queue[i].pid, 1>>) \in B OBVIOUS
  <2>1. CASE i = 0 BY <1>1, <1>3, <2>1, BarOf
  <2>2. CASE i # 0
    <3>1. i \in 1..Len(queue) /\ InHistory(queue[i].pid, g) BY <2>2
    <3>2. PICK r \in Proc : r = queue[i].pid BY <1>2, <3>1
    <3>3. at[r] \notin {"record", "unrecord"} BY <3>1, <3>2
    <3>4. <<r, 1>> \in B BY <1>3, <3>1, <3>2, <3>3, BarOf
    <3>5. QED BY <2>2, <3>2, <3>4
  <2>3. QED BY <2>1, <2>2
<1>8. \A i, j \in J : m[i] = m[j] => i = j
  <2> SUFFICES ASSUME NEW i \in J, NEW j \in J,
                      (IF i = 0 THEN <<q, 1>> ELSE <<queue[i].pid, 1>>)
                        = (IF j = 0 THEN <<q, 1>> ELSE <<queue[j].pid, 1>>)
               PROVE  i = j
    OBVIOUS
  <2>1. (IF i = 0 THEN q ELSE queue[i].pid) = (IF j = 0 THEN q ELSE queue[j].pid) OBVIOUS
  <2>2. \A k \in 1..Len(queue) : queue[k].pid # q BY DEF InQueue
  <2>3. QED BY <2>1, <2>2
<1>9. Cardinality(J) <= Cardinality(B)
  <2> HIDE DEF J, m
  <2>1. QED BY <1>4, <1>7, <1>8, Smaller
<1>10. WaitingInQueue(g) = Cardinality(I) BY DEF WaitingInQueue
<1>11. num[g] \in Int /\ Cardinality(B) \in Nat BY <1>4, FS_CardinalityType DEF TypeOK
<1> HIDE DEF I, J, m
<1>12. QED BY <1>4, <1>6, <1>9, <1>10, <1>11

-----------------------------------------------------------------------------
(* The NMI Queue. *)

\* A step that leaves the queue alone, and its victims where they are.
LEMMA QueueFrame ==
    ASSUME NEW G, TypeOK, QueueInv(G), queue' = queue, tracker' = tracker,
           tracker # NoProc => at'[tracker] # "nmi",
           \A f \in Flag : rlock'[f] \in {NoProc, tracker},
           \A q \in Proc : at[q] = "nmi" => at'[q] = "nmi",
           \A i \in 1..Len(queue) : i > 1 => depth'[queue[i].pid] = depth[queue[i].pid]
    PROVE  QueueInv(G)'
<1>1. \A i \in 1..Len(queue) : queue[i].pid \in Proc BY QueueType
<1>2. QED BY <1>1 DEF QueueInv, Inner

\* The first memory error of a recovery.
LEMMA QueueNmi ==
    ASSUME NEW G, Disciplined(G), TypeOK, QueueInv(G), PathInv(G), NEW p \in Proc, Nmi(p)
    PROVE  QueueInv(G)'
<1>1. at[p] = "ready" /\ path[p] # <<>> /\ Cur(p).op = "use" /\ F(p) \in Broken
  BY DEF Nmi, Doing, Running
<1>2. PICK g \in Flag : g = F(p) BY <1>1, CurType
<1>3. g \in Inner(G) => depth[p][g] >= 1 BY <1>1, <1>2, VictimInside
<1>4. PICK e \in Entry : e = [pid |-> p, flag |-> g, gen |-> gen[g]]
  BY DEF Entry, TypeOK
<1>5. /\ queue' = Append(queue, e) /\ rlock' = rlock /\ depth' = depth
      /\ tracker # p
  BY <1>2, <1>4 DEF Nmi, locks, ghosts
<1>6. /\ queue \in Seq(Entry) /\ Len(queue') = Len(queue) + 1 /\ Len(queue) \in Nat
      /\ \A i \in 1..Len(queue) : queue'[i] = queue[i]
      /\ queue'[Len(queue) + 1] = e
  <2>1. queue \in Seq(Entry) BY DEF TypeOK
  <2>2. QED BY <1>5, <2>1, AppendProperties
<1>7. e.pid = p /\ e.flag = g /\ g \in Broken BY <1>1, <1>2, <1>4
<1>8. queue' # <<>> BY <1>6
<1>9. Inner(G)' = Inner(G) BY DEF Inner
<1>10. CASE tracker = NoProc
  <2>1. tracker' = p /\ at' = at BY <1>10 DEF Nmi
  <2>2. Len(queue) = 0 BY <1>10 DEF QueueInv
  <2>3. \A i \in 1..Len(queue') : i = 1 /\ queue'[i] = e BY <1>6, <2>2
  <2>4. \A f \in Flag : rlock'[f] \in {NoProc, tracker'} BY <1>5, <1>10 DEF QueueInv
  <2>5. p # NoProc BY ProcAssumption
  <2>6. QED BY <1>1, <1>7, <1>8, <2>1, <2>3, <2>4, <2>5 DEF QueueInv
<1>11. CASE tracker # NoProc
  <2>1. /\ tracker' = tracker /\ at'[p] = "nmi" /\ \A q \in Proc \ {p} : at'[q] = at[q]
    BY <1>11 DEF Nmi, Goto, TypeOK
  <2>2. tracker \in Proc BY <1>11 DEF TypeOK
  <2>3. \A i \in 1..Len(queue) : queue[i].pid \in Proc /\ queue[i].pid # p
    <3>1. \A i \in 1..Len(queue) : queue[i].pid \in Proc BY QueueType
    <3>2. QED BY <1>1, <1>5, <3>1 DEF QueueInv
  <2>4. ASSUME NEW i \in 1..Len(queue')
        PROVE  /\ queue'[i].flag \in Broken
               /\ at'[queue'[i].pid] = "nmi" \/ (i = 1 /\ queue'[i].pid = tracker)
               /\ \A j \in 1..Len(queue') : queue'[i].pid = queue'[j].pid => i = j
               /\ i > 1 /\ queue'[i].flag \in Inner(G)
                     => depth'[queue'[i].pid][queue'[i].flag] >= 1
    <3>1. CASE i = Len(queue) + 1
      <4>1. queue'[i] = e BY <1>6, <3>1
      <4>2. \A j \in 1..Len(queue') : j # i => queue'[j].pid # p BY <1>6, <2>3, <3>1
      <4>3. QED BY <1>3, <1>5, <1>7, <2>1, <4>1, <4>2
    <3>2. CASE i # Len(queue) + 1
      <4>1. i \in 1..Len(queue) /\ queue'[i] = queue[i] BY <1>6, <3>2
      <4>2. queue[i].flag \in Broken /\ (i > 1 /\ queue[i].flag \in Inner(G)
                     => depth[queue[i].pid][queue[i].flag] >= 1)
        BY <4>1 DEF QueueInv
      <4>3. at[queue[i].pid] = "nmi" \/ (i = 1 /\ queue[i].pid = tracker) BY <4>1 DEF QueueInv
      <4>4. at'[queue[i].pid] = at[queue[i].pid] BY <2>1, <2>3, <4>1
      <4>5. ASSUME NEW j \in 1..Len(queue'), queue'[i].pid = queue'[j].pid PROVE i = j
        <5>1. CASE j = Len(queue) + 1 BY <1>6, <1>7, <2>3, <4>1, <4>5, <5>1
        <5>2. CASE j # Len(queue) + 1
          <6>1. j \in 1..Len(queue) /\ queue'[j] = queue[j] BY <1>6, <5>2
          <6>2. QED BY <4>1, <4>5, <6>1 DEF QueueInv
        <5>3. QED BY <5>1, <5>2
      <4>6. QED BY <1>5, <4>1, <4>2, <4>3, <4>4, <4>5
    <3>3. QED BY <3>1, <3>2
  <2>5. tracker' # NoProc /\ at'[tracker'] # "nmi" BY <1>5, <1>11, <2>1, <2>2 DEF QueueInv
  <2>6. \A f \in Flag : rlock'[f] \in {NoProc, tracker'} BY <1>5, <2>1 DEF QueueInv
  <2>7. QED BY <1>8, <1>9, <2>1, <2>4, <2>5, <2>6 DEF QueueInv
<1>12. QED BY <1>10, <1>11

\* The recovery process ends without recovery locks.
LEMMA DoneUnlocked ==
    ASSUME NEW G, Disciplined(G), TypeOK, QueueInv(G), PathInv(G), NEW p \in Proc, Done(p)
    PROVE  \A f \in Flag : rlock[f] = NoProc
<1>1. at[p] = "ready" /\ path[p] # <<>> /\ Cur(p).op = "rdone" /\ tracker = p
  BY DEF Done, Recovering, Doing, Running
<1>2. PICK l \in Ledger : Allowed(l, Cur(p)) /\ TrackerOK(G, l) BY <1>1, Turn
<1>3. {f \in Flag : rlock[f] = tracker} = {} BY <1>1, <1>2 DEF Allowed, TrackerOK
<1>4. QED BY <1>3 DEF QueueInv

\* The recovery process turns to the next victim.
LEMMA QueueDone ==
    ASSUME NEW G, Disciplined(G), TypeOK, QueueInv(G), PathInv(G), NEW p \in Proc, Done(p)
    PROVE  QueueInv(G)'
<1>1. \A f \in Flag : rlock'[f] = NoProc BY DoneUnlocked DEF Done, locks
<1>2. at[p] = "ready" /\ tracker = p /\ queue # <<>> /\ p # NoProc
  BY ProcAssumption DEF Done, Recovering, Doing
<1>3. PICK v \in Proc : v = Victim BY <1>2, VictimType
<1>4. /\ queue' = Tail(queue) /\ at'[p] = "ready"
      /\ \A q \in Proc \ {v} : at'[q] = at[q] /\ depth'[q] = depth[q]
  BY <1>2, <1>3 DEF Done, TypeOK
<1>5. /\ queue \in Seq(Entry) /\ queue' \in Seq(Entry) /\ Len(queue) \in Nat /\ Len(queue') = Len(queue) - 1
      /\ \A i \in 1..Len(queue') : queue'[i] = queue[i + 1]
      /\ queue[1].pid = v
  <2>1. queue \in Seq(Entry) BY DEF TypeOK
  <2>2. QED BY <1>2, <1>3, <1>4, <2>1, HeadTailProperties DEF Victim
<1>6. ASSUME NEW i \in 1..Len(queue')
      PROVE  /\ queue'[i].flag \in Broken
             /\ at'[queue'[i].pid] = "nmi"
             /\ \A j \in 1..Len(queue') : queue'[i].pid = queue'[j].pid => i = j
             /\ i > 1 /\ queue'[i].flag \in Inner(G)
                   => depth'[queue'[i].pid][queue'[i].flag] >= 1
  <2>1. i + 1 \in 1..Len(queue) /\ 1 \in 1..Len(queue) /\ i + 1 # 1 /\ i + 1 > 1 BY <1>5
  <2>2. PICK k \in 1..Len(queue) : k = i + 1 /\ k # 1 /\ k > 1 BY <2>1
  <2>3. /\ queue[k].flag \in Broken /\ queue[k].pid \in Proc
        /\ queue[k].flag \in Inner(G) => depth[queue[k].pid][queue[k].flag] >= 1
    BY <2>2, QueueType DEF QueueInv
  <2>4. at[queue[k].pid] = "nmi" BY <2>2 DEF QueueInv
  <2>5. queue[k].pid # v BY <1>5, <2>1, <2>2 DEF QueueInv
  <2>6. ASSUME NEW j \in 1..Len(queue'), queue'[i].pid = queue'[j].pid PROVE i = j
    <3>1. j + 1 \in 1..Len(queue) BY <1>5
    <3>2. queue[i + 1].pid = queue[j + 1].pid BY <1>5, <2>6
    <3>3. i + 1 = j + 1 BY <2>1, <3>1, <3>2 DEF QueueInv
    <3>4. QED BY <3>3
  <2>7. queue'[i] = queue[k] BY <1>5, <2>2
  <2>8. QED BY <1>4, <2>3, <2>4, <2>5, <2>6, <2>7
<1>7. tracker' = NoProc <=> queue' = <<>> BY <1>2, <1>4 DEF Done
<1>8. tracker' \in {NoProc, p} BY <1>2 DEF Done
<1>9. Inner(G)' = Inner(G) BY DEF Inner
<1>10. QED BY <1>1, <1>2, <1>4, <1>6, <1>7, <1>8, <1>9 DEF QueueInv

\* QueueInv is inductive.
LEMMA QueueNext ==
    ASSUME NEW G, Disciplined(G), TypeOK, QueueInv(G), PathInv(G),
           NEW p \in Proc, Call(p) \/ Step(p) \/ Nmi(p)
    PROVE  QueueInv(G)'
<1> USE DEF Goto, Advance, Doing, In, Running, Recovering, locks, nmiVars, ghosts
<1>1. \A i \in 1..Len(queue) : queue[i].pid \in Proc /\ (i > 1 => at[queue[i].pid] = "nmi")
  BY QueueType DEF QueueInv
<1>2. CASE Call(p) \/ Use(p) \/ Enter(p) \/ Leave(p)
  <2>1. /\ queue' = queue /\ tracker' = tracker /\ rlock' = rlock
    BY <1>2 DEF Call, Use, Enter, Leave, EnterNode, EnterBegin, EnterTest, EnterSleep, EnterWoken,
                EnterAdmit, EnterRecord, Exit, ExitRecord
  <2>2. /\ at[p] # "nmi" /\ at'[p] # "nmi" /\ \A q \in Proc \ {p} : at'[q] = at[q]
    BY <1>2 DEF Call, Use, Enter, Leave, EnterNode, EnterBegin, EnterTest, EnterSleep, EnterWoken,
                EnterAdmit, EnterRecord, Exit, ExitRecord, TypeOK
  <2>3. \A q \in Proc \ {p} : depth'[q] = depth[q]
    BY <1>2 DEF Call, Use, Enter, Leave, EnterNode, EnterBegin, EnterTest, EnterSleep, EnterWoken,
                EnterAdmit, EnterRecord, Exit, ExitRecord, TypeOK
  <2>4. \A i \in 1..Len(queue) : i > 1 => depth'[queue[i].pid] = depth[queue[i].pid]
    BY <1>1, <2>2, <2>3
  <2>5. tracker # NoProc => at'[tracker] # "nmi"
    <3>1. tracker # NoProc => tracker \in Proc /\ at[tracker] # "nmi" BY DEF TypeOK, QueueInv
    <3>2. QED BY <2>2, <3>1
  <2>6. \A f \in Flag : rlock'[f] \in {NoProc, tracker} BY <2>1 DEF QueueInv
  <2>7. QED BY <2>1, <2>2, <2>4, <2>5, <2>6, QueueFrame
<1>3. CASE \/ WaitCommit(p) \/ CountProcs(p) \/ CountOutOfBounds(p) \/ WaitGiant(p) \/ Repair(p)
           \/ WakeWaiters(p)
  <2>1. /\ queue' = queue /\ tracker' = tracker /\ rlock' = rlock /\ depth' = depth
        /\ at[p] = "ready" /\ tracker = p
    BY <1>3 DEF WaitCommit, CountProcs, CountOutOfBounds, WaitGiant, Repair, WakeWaiters
  <2>2. \A q \in Proc : at'[q] = at[q] \/ (at[q] = "asleep" /\ at'[q] = "woken")
    BY <1>3 DEF WaitCommit, CountProcs, CountOutOfBounds, WaitGiant, Repair, WakeWaiters
  <2>3. \A f \in Flag : rlock'[f] \in {NoProc, tracker} BY <2>1 DEF QueueInv
  <2>4. at'[tracker] # "nmi" /\ \A q \in Proc : at[q] = "nmi" => at'[q] = "nmi" BY <2>1, <2>2
  <2>5. QED BY <2>1, <2>3, <2>4, QueueFrame
<1>4. CASE AcquireRecoveryLock(p) \/ ReleaseRecoveryLock(p)
  <2>1. /\ queue' = queue /\ tracker' = tracker /\ depth' = depth /\ at' = at
        /\ at[p] = "ready" /\ tracker = p
        /\ \E f : rlock' = [rlock EXCEPT ![f] = p] \/ rlock' = [rlock EXCEPT ![f] = NoProc]
    BY <1>4 DEF AcquireRecoveryLock, ReleaseRecoveryLock
  <2>2. \A f \in Flag : rlock'[f] \in {NoProc, tracker} BY <2>1 DEF QueueInv, TypeOK
  <2>3. QED BY <2>1, <2>2, QueueFrame
<1>5. CASE ExitAll(p)
  <2>1. PICK v \in Proc : v = Victim BY <1>5, VictimType DEF ExitAll
  <2>2. /\ queue' = queue /\ tracker' = tracker /\ rlock' = rlock /\ at' = at /\ queue # <<>>
        /\ at[p] = "ready" /\ tracker = p
    BY <1>5 DEF ExitAll
  <2>3. \A q \in Proc \ {v} : depth'[q] = depth[q] BY <1>5, <2>1 DEF ExitAll, TypeOK
  <2>4. \A i \in 1..Len(queue) : i > 1 => queue[i].pid # v
    <3>1. queue[1].pid = v /\ 1 \in 1..Len(queue) BY <2>1, <2>2 DEF Victim, TypeOK
    <3>2. QED BY <3>1 DEF QueueInv
  <2>5. \A i \in 1..Len(queue) : i > 1 => depth'[queue[i].pid] = depth[queue[i].pid]
    BY <1>1, <2>3, <2>4
  <2>6. \A f \in Flag : rlock'[f] \in {NoProc, tracker} BY <2>2 DEF QueueInv
  <2>7. QED BY <2>2, <2>5, <2>6, QueueFrame
<1>6. CASE Nmi(p) BY <1>6, QueueNmi
<1>7. CASE Done(p) BY <1>7, QueueDone
<1>8. QED BY <1>2, <1>3, <1>4, <1>5, <1>6, <1>7 DEF Step, Recover

-----------------------------------------------------------------------------
(* The paths. *)

\* A process that is about to make the next step of an operation it is in.
LEMMA PathStay ==
    ASSUME NEW G, Disciplined(G), TypeOK, PathInv(G), NEW p \in Proc,
           at[p] \notin {"nmi", "record", "unrecord"}, at'[p] \notin {"nmi", "record", "unrecord"},
           path[p] # <<>>, path'[p] = path[p], depth'[p] = depth[p],
           tracker' = tracker, \A l : TrackerOK(G, l) => TrackerOK(G, l)'
    PROVE  Kept(G, p)'
<1>1. PICK l \in Ledger : /\ <<path[p], l>> \in G /\ Fits(p, l)
                          /\ p = tracker => TrackerOK(G, l)
  BY Turn
<1>2. Fits(p, l)' BY <1>1 DEF Fits, Now
<1>3. QED BY <1>1, <1>2 DEF Kept

\* A process that goes on to the next operation, after one that changes only what
\* the process is inside of.
LEMMA PathAdvance ==
    ASSUME NEW G, Disciplined(G), TypeOK, PathInv(G), NEW p \in Proc,
           \/ at[p] = "ready" /\ Cur(p).op \in {"use", "rcommit", "rnocount", "repair", "rwakeup"}
           \/ at[p] \in {"record", "unrecord"} /\ Cur(p).op \in {"enter", "exit"},
           at'[p] = "ready", path[p] # <<>>, path'[p] = Tail(path[p]), depth' = depth,
           tracker' = tracker, rlock' = rlock, late' = late, queue' = queue
    PROVE  Kept(G, p)'
<1>1. PICK l \in Ledger : /\ Fits(p, l) /\ (p = tracker => TrackerOK(G, l))
                          /\ Cur(p).op # "node" => <<Tail(path[p]), Book(l, Cur(p))>> \in G
  BY Turn
<1>2. PICK m : m = Book(l, Cur(p)) OBVIOUS
<1>3. /\ m.locked = l.locked /\ m.counted = l.counted /\ m.waited = l.waited
      /\ m.object = l.object
      /\ at[p] = "ready" => m.inside = l.inside
  BY <1>2 DEF Book
<1>4. Fits(p, m)' BY <1>1, <1>2, <1>3 DEF Fits, Now
<1>5. p = tracker => TrackerOK(G, m) BY <1>1, <1>3 DEF TrackerOK
<1>6. p = tracker' => TrackerOK(G, m)' BY <1>5, TrackerQuiet
<1>7. <<path'[p], m>> \in G BY <1>1, <1>2
<1>8. QED BY <1>4, <1>6, <1>7 DEF Kept

\* Steps that touch no more than the stage and the path of a process.
LEMMA PathQuiet ==
    ASSUME NEW G, Disciplined(G), TypeOK, StageInv, PathInv(G), NEW p \in Proc,
           \/ EnterTest(p) \/ EnterSleep(p) \/ EnterWoken(p) \/ EnterRecord(p) \/ ExitRecord(p)
           \/ Use(p) \/ WaitCommit(p) \/ CountOutOfBounds(p) \/ Repair(p) \/ WakeWaiters(p)
    PROVE  PathInv(G)'
<1> USE DEF Goto, Advance, Doing, In, Running, Recovering, locks, nmiVars, ghosts
<1>1. /\ tracker' = tracker /\ rlock' = rlock /\ late' = late /\ queue' = queue /\ depth' = depth
      /\ path[p] # <<>> /\ at[p] # "nmi"
  BY DEF EnterTest, EnterSleep, EnterWoken, EnterRecord, ExitRecord, Use, WaitCommit,
         CountOutOfBounds, Repair, WakeWaiters
<1>2. \A q \in Proc \ {p} : /\ path'[q] = path[q]
                            /\ at'[q] = at[q] \/ (at[q] = "asleep" /\ at'[q] = "woken")
  BY DEF EnterTest, EnterSleep, EnterWoken, EnterRecord, ExitRecord, Use, WaitCommit,
         CountOutOfBounds, Repair, WakeWaiters, TypeOK
<1>3. \A l : TrackerOK(G, l) => TrackerOK(G, l)' BY <1>1, TrackerQuiet
<1>4. Kept(G, p)'
  <2>1. CASE EnterTest(p) \/ EnterSleep(p) \/ EnterWoken(p)
    <3>1. /\ at[p] \notin {"nmi", "record", "unrecord"} /\ at'[p] \notin {"nmi", "record", "unrecord"}
          /\ path' = path
      BY <2>1 DEF EnterTest, EnterSleep, EnterWoken, TypeOK
    <3>2. QED BY <1>1, <1>3, <3>1, PathStay
  <2>2. CASE EnterRecord(p) \/ ExitRecord(p)
    <3>1. /\ at[p] \in {"record", "unrecord"} /\ at'[p] = "ready" /\ path'[p] = Tail(path[p])
      BY <2>2 DEF EnterRecord, ExitRecord, TypeOK
    <3>2. Cur(p).op \in {"enter", "exit"} BY <3>1 DEF StageInv
    <3>3. QED BY <1>1, <3>1, <3>2, PathAdvance
  <2>3. CASE /\ path' = path
             /\ WaitCommit(p) \/ CountOutOfBounds(p)
    <3>1. /\ at[p] \notin {"nmi", "record", "unrecord"} /\ at' = at
      BY <2>3 DEF WaitCommit, CountOutOfBounds
    <3>2. QED BY <1>1, <1>3, <2>3, <3>1, PathStay
  <2>4. CASE \/ Use(p) \/ Repair(p) \/ WakeWaiters(p)
             \/ (path'[p] = Tail(path[p]) /\ (WaitCommit(p) \/ CountOutOfBounds(p)))
    <3>1. /\ at[p] = "ready" /\ at'[p] = "ready"
          /\ Cur(p).op \in {"use", "rcommit", "rnocount", "repair", "rwakeup"}
      BY <2>4 DEF Use, WaitCommit, CountOutOfBounds, Repair, WakeWaiters, TypeOK
    <3>2. path'[p] = Tail(path[p])
      BY <2>4 DEF Use, Repair, WakeWaiters, TypeOK
    <3>3. QED BY <1>1, <3>1, <3>2, PathAdvance
  <2>5. WaitCommit(p) \/ CountOutOfBounds(p) => path' = path \/ path'[p] = Tail(path[p])
    BY DEF WaitCommit, CountOutOfBounds, TypeOK
  <2>6. QED BY <2>1, <2>2, <2>3, <2>4, <2>5
<1>5. QED BY <1>1, <1>2, <1>3, <1>4, PathLocal

\* enter_recovery_critical_section_nodes goes on as enter.
LEMMA PathNode ==
    ASSUME NEW G, Disciplined(G), TypeOK, PathInv(G), NEW p \in Proc, EnterNode(p)
    PROVE  PathInv(G)'
<1> USE DEF Doing, Running, locks, nmiVars, ghosts
<1>1. /\ tracker' = tracker /\ rlock' = rlock /\ late' = late /\ queue' = queue /\ depth' = depth
      /\ path[p] # <<>> /\ at' = at /\ at[p] = "ready" /\ Cur(p).op = "node"
      /\ \A q \in Proc \ {p} : path'[q] = path[q]
  BY DEF EnterNode, TypeOK
<1>2. \A l : TrackerOK(G, l) => TrackerOK(G, l)' BY <1>1, TrackerQuiet
<1>3. CASE path' = path
  <2>1. Kept(G, p)' BY <1>1, <1>2, <1>3, PathStay
  <2>2. QED BY <1>1, <1>2, <2>1, PathLocal
<1>4. CASE path'[p] = <<[Head(path[p]) EXCEPT !.op = "enter"]>> \o Tail(path[p])
  <2>1. PICK x \in G : x[1] = path[p] /\ Fits(p, x[2]) /\ (p = tracker => TrackerOK(G, x[2]))
    BY <1>1 DEF PathInv, Kept
  <2>2. PICK l : l = x[2] OBVIOUS
  <2>3. <<path'[p], l>> \in G BY <1>1, <1>4, <2>1, <2>2 DEF Disciplined, Cur
  <2>4. Fits(p, l)' BY <1>1, <2>1, <2>2 DEF Fits, Now
  <2>5. Kept(G, p)' BY <1>1, <1>2, <2>1, <2>2, <2>3, <2>4 DEF Kept
  <2>6. QED BY <1>1, <1>2, <2>5, PathLocal
<1>5. path' = path \/ path'[p] = <<[Head(path[p]) EXCEPT !.op = "enter"]>> \o Tail(path[p])
  BY DEF EnterNode, TypeOK
<1>6. QED BY <1>3, <1>4, <1>5

\* Nobody enters a section whose recovery lock it has.
LEMMA PathBegin ==
    ASSUME NEW G, Disciplined(G), TypeOK, QueueInv(G), PathInv(G), NEW p \in Proc, EnterBegin(p)
    PROVE  PathInv(G)' /\ depth' = depth /\ at'[p] = "test"
<1> USE DEF Doing, Running, Goto, locks, nmiVars, ghosts
<1>1. /\ tracker' = tracker /\ rlock' = rlock /\ late' = late /\ queue' = queue /\ path' = path
      /\ path[p] # <<>> /\ at[p] = "ready" /\ Cur(p).op = "enter" /\ F(p) \in Flag
      /\ \A q \in Proc \ {p} : at'[q] = at[q]
  BY CurType DEF EnterBegin, TypeOK
<1>2. PICK l \in Ledger : Allowed(l, Cur(p)) /\ (p = tracker => TrackerOK(G, l)) BY <1>1, Turn
<1>3. rlock[F(p)] # p
  <2> SUFFICES ASSUME rlock[F(p)] = p PROVE FALSE OBVIOUS
  <2>1. p = tracker BY <1>1, ProcAssumption DEF QueueInv
  <2>2. F(p) \in l.locked BY <1>1, <1>2, <2>1 DEF TrackerOK
  <2>3. QED BY <1>1, <1>2, <2>2 DEF Allowed, F
<1>4. depth' = depth /\ at'[p] = "test" BY <1>3 DEF EnterBegin, TypeOK
<1>5. \A k : TrackerOK(G, k) => TrackerOK(G, k)' BY <1>1, <1>4, TrackerQuiet
<1>6. Kept(G, p)' BY <1>1, <1>4, <1>5, PathStay
<1>7. PathInv(G)' BY <1>1, <1>4, <1>5, <1>6, PathLocal
<1>8. QED BY <1>4, <1>7

\* Who was counted is inside.
LEMMA PathAdmit ==
    ASSUME NEW G, Disciplined(G), TypeOK, StageInv, QueueInv(G), PathInv(G), NEW p \in Proc,
           EnterAdmit(p)
    PROVE  PathInv(G)'
<1> USE DEF In, Running, Goto, nmiVars
<1>1. /\ tracker' = tracker /\ path' = path /\ path[p] # <<>> /\ at[p] = "admit" /\ at'[p] = "record"
      /\ \A q \in Proc \ {p} : at'[q] = at[q] /\ depth'[q] = depth[q]
  BY DEF EnterAdmit, TypeOK
<1>2. PICK g \in Flag, o \in Operation : g = F(p) /\ o = Cur(p) /\ o.flag = g /\ o.op = "enter"
  BY <1>1, CurType DEF StageInv, F
<1>3. PICK l \in Ledger : /\ <<path[p], l>> \in G /\ Fits(p, l)
                          /\ p = tracker => TrackerOK(G, l)
  BY <1>1, Turn
<1>4. \A f \in Flag : depth'[p][f] = IF f = g THEN depth[p][f] + 1 ELSE depth[p][f]
  BY <1>2 DEF EnterAdmit, TypeOK
<1>5. Fits(p, l)'
  <2>1. \A f \in Flag : l.inside[f] <= depth[p][f] BY <1>1, <1>3 DEF Fits, Now
  <2>2. l.inside \in [Flag -> Nat] BY DEF Ledger
  <2>3. Now(p, l)' = Book(l, o) BY <1>1, <1>2 DEF Now, Cur
  <2>4. \A f \in Flag : Book(l, o).inside[f] = IF f = g THEN l.inside[f] + 1 ELSE l.inside[f]
    BY <1>2, <2>2 DEF Book
  <2>5. \A f \in Flag : depth[p][f] \in Nat /\ l.inside[f] \in Nat BY <2>2 DEF TypeOK
  <2>6. QED BY <1>4, <2>1, <2>3, <2>4, <2>5 DEF Fits
<1>6. tracker \in Proc => \A k : TrackerOK(G, k) => TrackerOK(G, k)'
  <2>1. tracker \in Proc => queue # <<>> BY ProcAssumption DEF QueueInv
  <2>2. QED BY <2>1, TrackerAdmit
<1>7. Kept(G, p)' BY <1>1, <1>3, <1>5, <1>6 DEF Kept
<1>8. QED BY <1>1, <1>6, <1>7, PathLocal

\* Who leaves was inside.
LEMMA PathExit ==
    ASSUME NEW G, Disciplined(G), TypeOK, QueueInv(G), PathInv(G), NEW p \in Proc, Exit(p)
    PROVE  PathInv(G)' /\ depth[p][F(p)] >= 1
<1> USE DEF Doing, Running, Goto, nmiVars
<1>1. /\ tracker' = tracker /\ path' = path /\ path[p] # <<>> /\ at[p] = "ready" /\ at'[p] = "unrecord"
      /\ \A q \in Proc \ {p} : at'[q] = at[q] /\ depth'[q] = depth[q]
  BY DEF Exit, TypeOK
<1>2. PICK g \in Flag, o \in Operation : g = F(p) /\ o = Cur(p) /\ o.flag = g /\ o.op = "exit"
  BY <1>1, CurType DEF Exit, F
<1>3. PICK l \in Ledger : /\ <<path[p], l>> \in G /\ Fits(p, l) /\ Allowed(l, o)
                          /\ p = tracker => TrackerOK(G, l)
  BY <1>1, <1>2, Turn
<1>4. /\ \A f \in Flag : l.inside[f] <= depth[p][f]
      /\ \A f \in Flag : depth[p][f] \in Nat /\ l.inside[f] \in Nat
      /\ l.inside \in [Flag -> Nat] /\ l.inside[g] >= 1 /\ g \notin l.object
  BY <1>1, <1>2, <1>3 DEF Fits, Now, Ledger, TypeOK, Allowed
<1>5. depth[p][F(p)] >= 1 BY <1>2, <1>4
<1>6. \A f \in Flag : depth'[p][f] = IF f = g THEN depth[p][f] - 1 ELSE depth[p][f]
  <2>1. depth' = [depth EXCEPT ![p][g] = IF @ > 0 THEN @ - 1 ELSE @] BY <1>2 DEF Exit
  <2>2. depth \in [Proc -> [Flag -> Nat]] BY DEF TypeOK
  <2>3. PICK d \in Nat : d = depth[p][g] /\ d >= 1 BY <1>2, <1>5, <2>2
  <2>4. depth'[p][g] = d - 1 BY <2>1, <2>2, <2>3
  <2>5. \A f \in Flag \ {g} : depth'[p][f] = depth[p][f] BY <2>1, <2>2
  <2>6. QED BY <2>3, <2>4, <2>5
<1>7. Fits(p, l)'
  <2>1. Now(p, l)' = Book(l, o) BY <1>1, <1>2 DEF Now, Cur
  <2>2. \A f \in Flag : Book(l, o).inside[f] = IF f = g THEN l.inside[f] - 1 ELSE l.inside[f]
    BY <1>2, <1>4 DEF Book
  <2>3. QED BY <1>4, <1>6, <2>1, <2>2 DEF Fits
<1>8. tracker \in Proc => queue # <<>> BY ProcAssumption DEF QueueInv
<1>9. p = tracker => TrackerOK(G, l)' BY <1>2, <1>3, <1>4, <1>8, TrackerExit
<1>10. tracker \in Proc \ {p} => \A k : TrackerOK(G, k) => TrackerOK(G, k)'
  <2> SUFFICES ASSUME tracker \in Proc \ {p}, NEW k, TrackerOK(G, k) PROVE TrackerOK(G, k)' OBVIOUS
  <2>1. queue # <<>> BY <1>8
  <2>2. p # Victim
    <3>1. queue[1].pid = Victim /\ 1 \in 1..Len(queue) BY <2>1 DEF Victim, TypeOK
    <3>2. at[queue[1].pid] = "nmi" \/ queue[1].pid = tracker BY <3>1 DEF QueueInv
    <3>3. QED BY <1>1, <3>1, <3>2
  <2>3. QED BY <2>1, <2>2, TrackerExit
<1>11. Kept(G, p)' BY <1>1, <1>3, <1>7, <1>9 DEF Kept
<1>12. PathInv(G)' BY <1>1, <1>10, <1>11, PathLocal
<1>13. QED BY <1>5, <1>12

\* A process starts a call.
LEMMA PathCall ==
    ASSUME NEW G, Disciplined(G), TypeOK, PathInv(G), NEW p \in Proc, Call(p)
    PROVE  PathInv(G)'
<1> USE DEF locks, ghosts
<1>1. PICK s \in Paths : path' = [path EXCEPT ![p] = s] BY DEF Call
<1>2. /\ tracker' = tracker /\ rlock' = rlock /\ late' = late /\ queue' = queue /\ depth' = depth
      /\ path[p] = <<>> /\ at' = at /\ at[p] = "ready" /\ path'[p] = s
      /\ \A q \in Proc \ {p} : path'[q] = path[q]
  BY <1>1 DEF Call, TypeOK
<1>3. \A l : TrackerOK(G, l) => TrackerOK(G, l)' BY <1>2, TrackerQuiet
<1>4. PICK x \in G : x[1] = path[p] /\ (p = tracker => TrackerOK(G, x[2]))
  BY <1>2 DEF PathInv, Kept
<1>5. x[2].locked = {} BY <1>2, <1>4 DEF Disciplined
<1>6. PICK l : l = Start({}) OBVIOUS
<1>7. <<s, l>> \in G BY <1>6 DEF Disciplined
<1>8. l.locked = {} /\ l.counted = {} /\ l.waited = {} /\ l.object = {} /\ l.inside = Outside
  BY <1>6 DEF Start
<1>9. p = tracker => TrackerOK(G, l) BY <1>4, <1>5, <1>8 DEF TrackerOK
<1>10. Fits(p, l)' BY <1>2, <1>8 DEF Fits, Now, Outside, TypeOK
<1>11. Kept(G, p)' BY <1>2, <1>3, <1>7, <1>9, <1>10 DEF Kept
<1>12. QED BY <1>2, <1>3, <1>11, PathLocal

\* The step of the recovery process in which it learns or does something.
LEMMA PathRecover ==
    ASSUME NEW G, Disciplined(G), TypeOK, TypeOK', NumInv, QueueInv(G), PathInv(G), NEW p \in Proc,
           \/ AcquireRecoveryLock(p) \/ CountProcs(p) \/ WaitGiant(p) \/ ExitAll(p)
           \/ ReleaseRecoveryLock(p)
    PROVE  PathInv(G)'
<1> USE DEF Advance, Doing, Running, Recovering, locks, nmiVars, ghosts
<1>1. /\ tracker' = tracker /\ queue' = queue /\ at' = at /\ at[p] = "ready" /\ tracker = p
      /\ path[p] # <<>> /\ queue # <<>> /\ p # NoProc
      /\ \A q \in Proc \ {p} : path'[q] = path[q]
  BY ProcAssumption
     DEF AcquireRecoveryLock, CountProcs, WaitGiant, ExitAll, ReleaseRecoveryLock, TypeOK
<1>2. PICK v \in Proc : v = Victim BY <1>1, VictimType
<1>3. PICK g \in Flag, o \in Operation : g = F(p) /\ o = Cur(p) /\ o.flag = g BY <1>1, CurType DEF F
<1>4. PICK l \in Ledger : /\ <<path[p], l>> \in G /\ Fits(p, l) /\ TrackerOK(G, l)
                          /\ o.op # "node" => /\ <<Tail(path[p]), Book(l, o)>> \in G
                                              /\ Book(l, o) \in Ledger
  BY <1>1, <1>3, Turn
<1>5. /\ \A f \in Flag : l.inside[f] <= depth[p][f]
      /\ l.locked = {f \in Flag : rlock[f] = p}
      /\ l.counted \subseteq l.locked /\ l.waited \subseteq l.locked
      /\ \A f \in (l.counted \cap Inner(G)) \ {0} : Holders(f) \ {v} \subseteq late[f]
      /\ \A f \in l.waited \ {0} : \A q \in Holders(f) : q \in late[f] \/ InQueue(q)
      /\ \A f \in l.object \cap Inner(G) : depth[v][f] >= 1
  BY <1>1, <1>2, <1>4 DEF TrackerOK, Fits, Now
<1>6. queue[1].pid = v /\ 1 \in 1..Len(queue) /\ Victim' = v
  <2>1. Victim' = v BY <1>1, <1>2 DEF Victim
  <2>2. Head(queue) = queue[1] /\ 1 \in 1..Len(queue) BY <1>1, QueueType
  <2>3. QED BY <1>2, <2>1, <2>2 DEF Victim
<1>7. \A q : InQueue(q)' = InQueue(q) BY <1>1 DEF InQueue
<1>8. ASSUME Kept(G, p)', \A q \in Proc \ {p} : at'[q] # "nmi" => depth'[q] = depth[q]
      PROVE  PathInv(G)'
  BY <1>1, <1>8, PathLocal
<1>9. PICK m : m = Book(l, o) OBVIOUS
<1>10. ASSUME path' = path, depth' = depth, rlock' = rlock, late' = late PROVE PathInv(G)'
  <2>1. \A k : TrackerOK(G, k) => TrackerOK(G, k)' BY <1>1, <1>10, TrackerQuiet
  <2>2. Kept(G, p)' BY <1>1, <1>10, <2>1, PathStay
  <2>3. QED BY <1>8, <1>10, <2>2
<1>11. ASSUME path'[p] = Tail(path[p]), o.op \in {"rlock", "rcount", "rwait", "runlock"},
              depth' = depth, TrackerOK(G, m)'
       PROVE  PathInv(G)'
  <2>1. <<path'[p], m>> \in G BY <1>4, <1>9, <1>11
  <2>2. m.inside = l.inside BY <1>9, <1>11 DEF Book
  <2>3. Fits(p, m)' BY <1>1, <1>5, <1>11, <2>2 DEF Fits, Now
  <2>4. Kept(G, p)' BY <1>11, <2>1, <2>3 DEF Kept
  <2>5. QED BY <1>8, <1>11, <2>4
<1>12. CASE AcquireRecoveryLock(p)
  <2>1. /\ o.op = "rlock" /\ path'[p] = Tail(path[p]) /\ depth' = depth /\ rlock[g] = NoProc
        /\ \A f \in Flag : rlock'[f] = IF f = g THEN p ELSE rlock[f]
        /\ \A f \in Flag : late'[f] = IF f = g THEN {} ELSE late[f]
    BY <1>3, <1>12 DEF AcquireRecoveryLock, TypeOK
  <2>2. /\ m.locked = l.locked \cup {g} /\ m.counted = l.counted /\ m.waited = l.waited
        /\ m.object = l.object
    BY <1>3, <1>9, <2>1 DEF Book
  <2>3. g \notin l.locked BY <1>1, <1>5, <2>1
  <2>4. m.locked = {f \in Flag : rlock'[f] = tracker'} BY <1>1, <1>5, <2>1, <2>2
  <2>5. \A f \in l.locked : f \in Flag /\ late'[f] = late[f] BY <1>5, <2>1, <2>3
  <2>6. \A f : Holders(f)' = Holders(f) BY <2>1 DEF Holders
  <2>7. \A f \in (m.counted \cap Inner(G)) \ {0} : Holders(f) \ {v} \subseteq late'[f]
    BY <1>5, <2>2, <2>5
  <2>8. \A f \in m.waited \ {0} : \A q \in Holders(f) : q \in late'[f] \/ InQueue(q)
    BY <1>5, <2>2, <2>5
  <2>9. TrackerOK(G, m)'
    BY <1>5, <1>6, <1>7, <2>1, <2>2, <2>4, <2>6, <2>7, <2>8 DEF TrackerOK, Inner
  <2>10. QED BY <1>11, <2>1, <2>9
<1>13. CASE CountProcs(p)
  <2>1. o.op = "rcount" /\ depth' = depth /\ rlock' = rlock /\ late' = late
    BY <1>3, <1>13 DEF CountProcs
  <2>2. path' = path \/ (path'[p] = Tail(path[p]) /\ num[g] <= 1)
    <3>1. num[g] \in Int BY DEF TypeOK
    <3>2. QED BY <1>3, <1>13, <3>1 DEF CountProcs, TypeOK
  <2>3. CASE path' = path BY <1>10, <2>1, <2>3
  <2>4. CASE path'[p] = Tail(path[p]) /\ num[g] <= 1
    <3>1. /\ m.locked = l.locked /\ m.waited = l.waited /\ m.object = l.object
          /\ m.counted = IF g \in l.locked \cap l.object THEN l.counted \cup {g} ELSE l.counted
      BY <1>3, <1>9, <2>1 DEF Book
    <3>2. g \in l.object \cap Inner(G) /\ g # 0 => Holders(g) \subseteq {v}
      BY <1>5, <2>4, CountedAlone
    <3>3. \A f \in (m.counted \cap Inner(G)) \ {0} : Holders(f) \ {v} \subseteq late[f]
      BY <1>5, <3>1, <3>2
    <3>4. TrackerOK(G, m) BY <1>1, <1>2, <1>5, <3>1, <3>3 DEF TrackerOK
    <3>5. TrackerOK(G, m)' BY <1>1, <2>1, <3>4, TrackerQuiet
    <3>6. QED BY <1>11, <2>1, <2>4, <3>5
  <2>5. QED BY <2>2, <2>3, <2>4
<1>14. CASE WaitGiant(p)
  <2>1. /\ o.op = "rwait" /\ depth' = depth /\ rlock' = rlock /\ late' = late
        /\ path'[p] = Tail(path[p]) /\ num[g] - WaitingInQueue(g) = 0
    BY <1>3, <1>14 DEF WaitGiant, TypeOK
  <2>2. /\ m.locked = l.locked /\ m.counted = l.counted /\ m.object = l.object
        /\ m.waited = IF g \in l.locked THEN l.waited \cup {g} ELSE l.waited
    BY <1>3, <1>9, <2>1 DEF Book
  <2>3. g # 0 => \A q \in Holders(g) : InQueue(q)
    <3>1. \A i \in 1..Len(queue) : at[queue[i].pid] \notin {"record", "unrecord"}
      BY <1>1 DEF QueueInv
    <3>2. \A i, j \in 1..Len(queue) : queue[i].pid = queue[j].pid => i = j BY DEF QueueInv
    <3>3. QED BY <2>1, <3>1, <3>2, Drained
  <2>4. \A f \in m.waited \ {0} : \A q \in Holders(f) : q \in late[f] \/ InQueue(q)
    BY <1>5, <2>2, <2>3
  <2>5. TrackerOK(G, m) BY <1>1, <1>2, <1>5, <2>2, <2>4 DEF TrackerOK
  <2>6. TrackerOK(G, m)' BY <1>1, <2>1, <2>5, TrackerQuiet
  <2>7. QED BY <1>11, <2>1, <2>6
<1>15. CASE ReleaseRecoveryLock(p)
  <2>1. /\ o.op = "runlock" /\ path'[p] = Tail(path[p]) /\ depth' = depth
        /\ \A f \in Flag : rlock'[f] = IF f = g THEN NoProc ELSE rlock[f]
        /\ \A f \in Flag : late'[f] = IF f = g THEN {} ELSE late[f]
    BY <1>3, <1>15 DEF ReleaseRecoveryLock, TypeOK
  <2>2. /\ m.locked = l.locked \ {g} /\ m.counted = l.counted \ {g} /\ m.waited = l.waited \ {g}
        /\ m.object = l.object
    BY <1>3, <1>9, <2>1 DEF Book
  <2>3. m.locked = {f \in Flag : rlock'[f] = tracker'} BY <1>1, <1>5, <2>1, <2>2
  <2>4. \A f \in l.locked \ {g} : f \in Flag /\ late'[f] = late[f] BY <1>5, <2>1
  <2>5. \A f : Holders(f)' = Holders(f) BY <2>1 DEF Holders
  <2>6. \A f \in (m.counted \cap Inner(G)) \ {0} : Holders(f) \ {v} \subseteq late'[f]
    BY <1>5, <2>2, <2>4
  <2>7. \A f \in m.waited \ {0} : \A q \in Holders(f) : q \in late'[f] \/ InQueue(q)
    BY <1>5, <2>2, <2>4
  <2>8. TrackerOK(G, m)'
    BY <1>5, <1>6, <1>7, <2>1, <2>2, <2>3, <2>5, <2>6, <2>7 DEF TrackerOK, Inner
  <2>9. QED BY <1>11, <2>1, <2>8
<1>16. CASE ExitAll(p)
  <2>1. /\ o.op = "rexit" /\ path'[p] = Tail(path[p]) /\ rlock' = rlock /\ late' = late
        /\ \A f \in Flag : depth'[v][f] = 0
        /\ \A q \in Proc \ {v} : depth'[q] = depth[q]
    BY <1>2, <1>3, <1>16 DEF ExitAll, TypeOK
  <2>2. /\ m.locked = l.locked /\ m.counted = l.counted /\ m.waited = l.waited /\ m.object = {}
        /\ m.inside = Outside
    BY <1>3, <1>9, <2>1 DEF Book
  <2>3. \A f \in l.locked : f \in Flag BY <1>5
  <2>4. \A f \in Flag : Holders(f)' \subseteq Holders(f) BY <2>1 DEF Holders
  <2>5. \A f \in (m.counted \cap Inner(G)) \ {0} : Holders(f)' \ {v} \subseteq late'[f]
    BY <1>5, <2>1, <2>2, <2>3, <2>4
  <2>6. \A f \in m.waited \ {0} : \A q \in Holders(f)' : q \in late'[f] \/ InQueue(q)
    BY <1>5, <2>1, <2>2, <2>3, <2>4
  <2>7. TrackerOK(G, m)'
    BY <1>1, <1>5, <1>6, <1>7, <2>1, <2>2, <2>5, <2>6 DEF TrackerOK, Inner
  <2>8. Fits(p, m)'
    <3>1. Now(p, m)' = m BY <1>1 DEF Now
    <3>2. \A f \in Flag : m.inside[f] = 0 /\ depth'[p][f] \in Nat BY <2>2 DEF Outside, TypeOK
    <3>3. QED BY <3>1, <3>2 DEF Fits
  <2>9. <<path'[p], m>> \in G BY <1>4, <1>9, <2>1
  <2>10. Kept(G, p)' BY <2>7, <2>8, <2>9 DEF Kept
  <2>11. v # p => at[v] = "nmi" BY <1>1, <1>6 DEF QueueInv
  <2>12. QED BY <1>1, <1>8, <2>1, <2>10, <2>11
<1>17. QED BY <1>12, <1>13, <1>14, <1>15, <1>16

\* A memory error starts a recovery, or stops the process that it hits.
LEMMA PathNmi ==
    ASSUME NEW G, Disciplined(G), TypeOK, QueueInv(G), PathInv(G), NEW p \in Proc, Nmi(p)
    PROVE  PathInv(G)'
<1> USE DEF Doing, Running, locks, ghosts
<1>1. /\ at[p] = "ready" /\ path[p] # <<>> /\ Cur(p).op = "use" /\ F(p) \in Broken
      /\ rlock' = rlock /\ late' = late /\ depth' = depth /\ p # NoProc /\ tracker # p
      /\ \A q \in Proc \ {p} : path'[q] = path[q] /\ at'[q] = at[q]
  BY ProcAssumption DEF Nmi, Goto, TypeOK
<1>2. PICK g \in Flag : g = F(p) BY <1>1, CurType
<1>3. PICK e \in Entry : e = [pid |-> p, flag |-> g, gen |-> gen[g]]
  BY DEF Entry, TypeOK
<1>4. queue \in Seq(Entry) /\ queue' = Append(queue, e) BY <1>2, <1>3 DEF Nmi, TypeOK
<1>5. CASE tracker = NoProc
  <2>1. PICK s \in Handlers[g] : path' = [path EXCEPT ![p] = s] BY <1>2, <1>5 DEF Nmi
  <2>2. tracker' = p /\ at' = at /\ path'[p] = s BY <1>5, <2>1 DEF Nmi, TypeOK
  <2>3. queue = <<>> BY <1>5 DEF QueueInv
  <2>4. Victim' = p BY <1>3, <1>4, <2>3 DEF Victim
  <2>5. g \in Inner(G) => depth[p][g] >= 1 BY <1>1, <1>2, VictimInside
  <2>6. PICK l : l = Start({g}) OBVIOUS
  <2>7. l.locked = {} /\ l.counted = {} /\ l.waited = {} /\ l.object = {g} /\ l.inside = Outside
    BY <2>6 DEF Start
  <2>8. <<path'[p], l>> \in G BY <1>1, <1>2, <2>2, <2>6 DEF Disciplined
  <2>9. Fits(p, l)' BY <1>1, <2>2, <2>7 DEF Fits, Now, Outside, TypeOK
  <2>10. \A f \in Flag : rlock'[f] # tracker' BY <1>1, <1>5, <2>2 DEF QueueInv
  <2>11. TrackerOK(G, l)' BY <1>1, <2>4, <2>5, <2>7, <2>10 DEF TrackerOK, Inner
  <2>12. Kept(G, p)' BY <2>8, <2>9, <2>11 DEF Kept
  <2>13. QED BY <1>1, <2>2, <2>12, PathLocal
<1>6. CASE tracker # NoProc
  <2>1. tracker' = tracker /\ at'[p] = "nmi" /\ path' = path BY <1>6 DEF Nmi, Goto, TypeOK
  <2>2. queue # <<>> /\ Len(queue) \in Nat BY <1>4, <1>6 DEF QueueInv
  <2>3. /\ Len(queue') = Len(queue) + 1 /\ \A i \in 1..Len(queue) : queue'[i] = queue[i]
    BY <1>4, AppendProperties
  <2>4. Victim' = Victim
    <3>1. Head(queue) = queue[1] /\ 1 \in 1..Len(queue) BY <1>4, <2>2
    <3>2. queue' \in Seq(Entry) /\ queue' # <<>> BY <1>4, AppendProperties
    <3>3. Head(queue') = queue'[1] BY <3>2
    <3>4. QED BY <2>3, <3>1, <3>3 DEF Victim
  <2>5. \A q : InQueue(q) => InQueue(q)'
    <3>1. \A i \in 1..Len(queue) : i \in 1..Len(queue') BY <2>2, <2>3
    <3>2. QED BY <2>3, <3>1 DEF InQueue
  <2>6. ASSUME NEW l, TrackerOK(G, l) PROVE TrackerOK(G, l)'
    <3>1. \A f : Holders(f)' = Holders(f) BY <1>1 DEF Holders
    <3>2. \A f \in l.waited \ {0} : \A q \in Holders(f)' : q \in late'[f] \/ InQueue(q)'
      BY <1>1, <2>5, <2>6, <3>1 DEF TrackerOK
    <3>3. \A f \in (l.counted \cap Inner(G)) \ {0} : Holders(f)' \ {Victim'} \subseteq late'[f]
      BY <1>1, <2>4, <2>6, <3>1 DEF TrackerOK
    <3>4. l.locked = {f \in Flag : rlock'[f] = tracker'} BY <1>1, <2>1, <2>6 DEF TrackerOK
    <3>5. QED BY <1>1, <2>4, <2>6, <3>2, <3>3, <3>4 DEF TrackerOK, Inner
  <2>7. QED BY <1>1, <2>1, <2>6, PathLocal
<1>7. QED BY <1>5, <1>6

\* The victim's call is over; the recovery process turns to the next victim, or
\* its own call is over too.
LEMMA PathDone ==
    ASSUME NEW G, Disciplined(G), TypeOK, TypeOK', QueueInv(G), PathInv(G), NEW p \in Proc, Done(p)
    PROVE  PathInv(G)'
<1>1. PICK v \in Proc : v = Victim BY VictimType DEF Done, Recovering
<1>2. /\ tracker = p /\ at[p] = "ready" /\ queue # <<>> /\ queue' = Tail(queue) /\ p # NoProc
      /\ rlock' = rlock /\ late' = late /\ at' = [at EXCEPT ![v] = "ready"]
      /\ depth' = [depth EXCEPT ![v] = [f \in Flag |-> 0]]
      /\ tracker' \in {NoProc, p}
  BY <1>1, ProcAssumption DEF Done, Recovering, Doing, locks
<1>3. /\ at'[p] = "ready" /\ at'[v] = "ready"
      /\ \A q \in Proc \ {v} : at'[q] = at[q] /\ depth'[q] = depth[q]
  BY <1>2 DEF TypeOK
<1>4. PICK s : path' = [path EXCEPT ![v] = <<>>, ![p] = s] BY <1>1 DEF Done
<1>5. /\ path'[p] = s /\ (v # p => path'[v] = <<>>)
      /\ \A q \in Proc \ {v, p} : path'[q] = path[q]
  BY <1>4 DEF TypeOK
<1>6. \A f \in Flag : rlock[f] = NoProc BY DoneUnlocked
<1>7. ASSUME NEW q \in Proc, NEW l, l.inside = Outside, at'[q] = "ready" PROVE Fits(q, l)'
  <2>1. Now(q, l)' = l BY <1>7 DEF Now
  <2>2. \A f \in Flag : l.inside[f] = 0 /\ depth'[q][f] \in Nat BY <1>7 DEF Outside, TypeOK
  <2>3. QED BY <2>1, <2>2 DEF Fits
<1>8. ASSUME NEW q \in Proc, path'[q] = <<>>, at'[q] = "ready", q # tracker' PROVE Kept(G, q)'
  <2>1. PICK l : l = Start({}) OBVIOUS
  <2>2. l.inside = Outside /\ <<<<>>, l>> \in G BY <2>1 DEF Start, Disciplined
  <2>3. Fits(q, l)' BY <1>7, <1>8, <2>2
  <2>4. QED BY <1>8, <2>2, <2>3 DEF Kept
<1>9. Kept(G, p)'
  <2>1. CASE Tail(queue) = <<>>
    <3>1. tracker' = NoProc /\ path'[p] = <<>> BY <2>1 DEF Done, TypeOK
    <3>2. QED BY <1>2, <1>3, <1>8, <3>1
  <2>2. CASE Tail(queue) # <<>>
    <3>1. /\ queue \in Seq(Entry) /\ queue' \in Seq(Entry) /\ queue' # <<>>
          /\ 2 \in 1..Len(queue) /\ 1 \in 1..Len(queue) /\ Head(queue') = queue[2] /\ Head(queue) = queue[1]
      <4>1. queue \in Seq(Entry) BY DEF TypeOK
      <4>2. /\ queue' \in Seq(Entry) /\ queue' # <<>> /\ Len(queue') = Len(queue) - 1
            /\ \A i \in 1..Len(queue') : queue'[i] = queue[i + 1]
        BY <1>2, <2>2, <4>1, HeadTailProperties
      <4>3. Len(queue') # 0 /\ Len(queue') \in Nat /\ Head(queue') = queue'[1] BY <4>2
      <4>4. 1 \in 1..Len(queue') BY <4>3
      <4>5. QED BY <1>2, <4>1, <4>2, <4>3, <4>4
    <3>2. PICK e \in Entry : e = queue[2] BY <3>1
    <3>3. PICK t \in NextHandler(e) : path' = [path EXCEPT ![v] = <<>>, ![p] = t]
      BY <1>1, <1>2, <2>2, <3>1, <3>2 DEF Done
    <3>4. tracker' = p /\ path'[p] = t BY <1>2, <2>2, <3>3 DEF Done, TypeOK
    <3>5. e.flag \in Broken /\ (e.flag \in Inner(G) => depth[e.pid][e.flag] >= 1)
      BY <3>1, <3>2 DEF QueueInv
    <3>6. e.pid # v /\ e.pid \in Proc
      <4>1. queue[1].pid = v BY <1>1, <3>1 DEF Victim
      <4>2. queue[1].pid # queue[2].pid BY <3>1 DEF QueueInv
      <4>3. QED BY <3>2, <4>1, <4>2 DEF Entry
    <3>7. PICK l : l = Start({e.flag}) OBVIOUS
    <3>8. /\ l.locked = {} /\ l.counted = {} /\ l.waited = {} /\ l.object = {e.flag}
          /\ l.inside = Outside
      BY <3>7 DEF Start
    <3>9. <<t, l>> \in G
      <4>1. CASE t \in Handlers[e.flag] BY <3>5, <3>7, <4>1 DEF Disciplined
      <4>2. CASE t = <<Finish(e.flag)>> BY <3>5, <3>7, <4>2 DEF Disciplined
      <4>3. QED BY <4>1, <4>2 DEF NextHandler, Finish
    <3>10. Victim' = e.pid BY <3>1, <3>2 DEF Victim
    <3>11. \A f \in Flag : rlock'[f] # tracker' BY <1>2, <1>6, <3>4
    <3>12. e.flag \in Inner(G) => depth'[e.pid][e.flag] >= 1 BY <1>3, <3>5, <3>6
    <3>13. TrackerOK(G, l)' BY <3>8, <3>10, <3>11, <3>12 DEF TrackerOK, Inner
    <3>14. Fits(p, l)' BY <1>3, <1>7, <3>8
    <3>15. QED BY <3>4, <3>9, <3>13, <3>14 DEF Kept
  <2>3. QED BY <2>1, <2>2
<1>10. ASSUME NEW q \in Proc \ {p}, at'[q] # "nmi" PROVE Kept(G, q)'
  <2>1. (q # tracker /\ q # tracker') \/ q = NoProc BY <1>2
  <2>2. q # NoProc BY ProcAssumption
  <2>3. CASE q = v BY <1>3, <1>5, <1>8, <2>1, <2>2, <2>3
  <2>4. CASE q # v
    <3>1. at'[q] = at[q] /\ path'[q] = path[q] /\ depth'[q] = depth[q] BY <1>3, <1>5, <2>4
    <3>2. PICK x \in G : x[1] = path[q] /\ Fits(q, x[2]) BY <1>10, <3>1 DEF PathInv, Kept
    <3>3. PICK l : l = x[2] OBVIOUS
    <3>4. Fits(q, l)' BY <3>1, <3>2, <3>3 DEF Fits, Now, Cur
    <3>5. QED BY <2>1, <2>2, <3>1, <3>2, <3>3, <3>4 DEF Kept
  <2>5. QED BY <2>3, <2>4
<1>11. QED BY <1>9, <1>10 DEF PathInv

\* PathInv is inductive.
LEMMA PathNext ==
    ASSUME NEW G, Disciplined(G), TypeOK, TypeOK', StageInv, NumInv, QueueInv(G), PathInv(G),
           NEW p \in Proc, Call(p) \/ Step(p) \/ Nmi(p)
    PROVE  PathInv(G)'
BY PathQuiet, PathNode, PathBegin, PathAdmit, PathExit, PathCall, PathRecover, PathNmi, PathDone
   DEF Step, Enter, Leave, Recover

\* NumInv is inductive.
LEMMA NumNext ==
    ASSUME NEW G, Disciplined(G), TypeOK, TypeOK', StageInv, NumInv, QueueInv(G), PathInv(G),
           NEW p \in Proc, Call(p) \/ Step(p) \/ Nmi(p)
    PROVE  NumInv'
<1> USE DEF Goto, Advance, Doing, In, Running, Recovering, locks, nmiVars, ghosts
<1>1. CASE Call(p) \/ Use(p) \/ Nmi(p) \/ EnterNode(p) \/ EnterTest(p) \/ EnterSleep(p) \/ EnterWoken(p)
  <2>1. /\ num' = num /\ history' = history /\ depth' = depth
        /\ at[p] \notin {"record", "unrecord"}
    BY <1>1 DEF Call, Use, Nmi, EnterNode, EnterTest, EnterSleep, EnterWoken
  <2>2. /\ at'[p] \notin {"record", "unrecord"}
        /\ \A q \in Proc \ {p} : at'[q] = at[q] /\ path'[q] = path[q]
    BY <1>1 DEF Call, Use, Nmi, EnterNode, EnterTest, EnterSleep, EnterWoken, TypeOK
  <2>3. \A f \in Flag : depth'[p][f] <= depth[p][f] BY <2>1 DEF TypeOK
  <2>4. QED BY <2>1, <2>2, <2>3, RestNum
<1>2. CASE EnterBegin(p)
  <2>1. depth' = depth /\ at'[p] = "test" BY <1>2, PathBegin
  <2>2. /\ num' = num /\ history' = history /\ at[p] \notin {"record", "unrecord"}
        /\ \A q \in Proc \ {p} : at'[q] = at[q] /\ path'[q] = path[q]
    BY <1>2 DEF EnterBegin, TypeOK
  <2>3. \A f \in Flag : depth'[p][f] <= depth[p][f] BY <2>1 DEF TypeOK
  <2>4. QED BY <2>1, <2>2, <2>3, RestNum
<1>3. CASE EnterAdmit(p) BY <1>3, AdmitNum
<1>4. CASE Exit(p) BY <1>4, PathExit, ExitNum
<1>5. CASE EnterRecord(p) \/ ExitRecord(p) BY <1>5, RecordNum
<1>6. CASE \/ AcquireRecoveryLock(p) \/ WaitCommit(p) \/ CountProcs(p) \/ CountOutOfBounds(p)
           \/ WaitGiant(p) \/ Repair(p) \/ ReleaseRecoveryLock(p) \/ WakeWaiters(p)
  <2>1. /\ num' = num /\ history' = history /\ depth' = depth /\ at[p] = "ready" /\ at'[p] = "ready"
    BY SMTT(60), <1>6 DEF AcquireRecoveryLock, WaitCommit, CountProcs, CountOutOfBounds, WaitGiant, Repair,
                ReleaseRecoveryLock, WakeWaiters, TypeOK
  <2>2. \A q \in Proc \ {p} : /\ path'[q] = path[q]
                              /\ at'[q] = at[q] \/ (at[q] = "asleep" /\ at'[q] = "woken")
    BY SMTT(60), <1>6 DEF AcquireRecoveryLock, WaitCommit, CountProcs, CountOutOfBounds, WaitGiant, Repair,
                ReleaseRecoveryLock, WakeWaiters, TypeOK
  <2>3. \A q \in Proc, f \in Flag : depth'[q][f] <= depth[q][f] BY SMTT(60), <2>1 DEF TypeOK
  <2>4. ASSUME NEW q \in Proc
        PROVE  \/ at'[q] = at[q] /\ path'[q] = path[q] /\ depth'[q] = depth[q]
               \/ /\ at[q] \notin {"record", "unrecord"} /\ at'[q] \notin {"record", "unrecord"}
                  /\ \A f \in Flag : depth'[q][f] <= depth[q][f]
    BY <2>1, <2>2, <2>3
  <2>5. QED BY <2>1, <2>4, RestNum
<1>7. CASE ExitAll(p)
  <2>1. queue # <<>> /\ at[p] = "ready" /\ tracker = p BY <1>7 DEF ExitAll
  <2>2. Victim \in Proc BY <2>1, VictimType
  <2>3. queue[1].pid = Victim /\ 1 \in 1..Len(queue) BY <2>1 DEF Victim, TypeOK
  <2>4. at[Victim] \notin {"record", "unrecord"} BY <2>1, <2>3 DEF QueueInv
  <2>5. QED BY <1>7, <2>2, <2>4, ExitAllNum
<1>8. CASE Done(p)
  <2>1. PICK v \in Proc : v = Victim BY <1>8, VictimType DEF Done
  <2>2. /\ num' = num /\ history' = history /\ at[p] = "ready" /\ tracker = p /\ queue # <<>>
        /\ at' = [at EXCEPT ![v] = "ready"] /\ depth' = [depth EXCEPT ![v] = [f \in Flag |-> 0]]
    BY <1>8, <2>1 DEF Done
  <2>3. queue[1].pid = v /\ 1 \in 1..Len(queue) BY SMTT(60), <2>1, <2>2 DEF Victim, TypeOK
  <2>4. at[v] \notin {"record", "unrecord"} BY <2>2, <2>3 DEF QueueInv
  <2>5. \A q \in Proc \ {p, v} : path'[q] = path[q] /\ at'[q] = at[q] /\ depth'[q] = depth[q]
    BY <1>8, <2>1, <2>2 DEF Done, TypeOK
  <2>6. \A q \in {p, v} : at[q] \notin {"record", "unrecord"} /\ at'[q] = "ready"
    BY <2>2, <2>4 DEF TypeOK
  <2>7. ASSUME NEW q \in Proc, NEW f \in Flag PROVE depth'[q][f] <= depth[q][f]
    <3>1. PICK d \in Nat : d = depth[q][f] BY DEF TypeOK
    <3>2. depth'[q][f] = IF q = v THEN 0 ELSE depth[q][f] BY <2>2 DEF TypeOK
    <3>3. QED BY <3>1, <3>2
  <2>8. ASSUME NEW q \in Proc
        PROVE  \/ at'[q] = at[q] /\ path'[q] = path[q] /\ depth'[q] = depth[q]
               \/ /\ at[q] \notin {"record", "unrecord"} /\ at'[q] \notin {"record", "unrecord"}
                  /\ \A f \in Flag : depth'[q][f] <= depth[q][f]
    BY <2>5, <2>6, <2>7
  <2>9. QED BY <2>2, <2>8, RestNum
<1>9. QED BY <1>1, <1>2, <1>3, <1>4, <1>5, <1>6, <1>7, <1>8 DEF Step, Enter, Leave, Recover

-----------------------------------------------------------------------------
\* The inductive invariant behind the theorems about disciplined paths.
DInv(G) == TypeOK /\ StageInv /\ NumInv /\ QueueInv(G) /\ PathInv(G)

\* DInv holds initially.
LEMMA DisciplineInit ==
    ASSUME NEW G, Disciplined(G), Init
    PROVE  DInv(G)
<1> USE DEF Init, InitLocks
<1>1. TypeOK BY InitType
<1>2. StageInv BY DEF StageInv
<1>3. NumInv
  <2> SUFFICES ASSUME NEW f \in Flag \ {0}
               PROVE  IsFiniteSet(Bars(Weights(f))) /\ Cardinality(Bars(Weights(f))) <= num[f]
    BY DEF NumInv
  <2>1. Slots(<<>>, f) = 0 BY EmptySlots
  <2>2. \A q \in Proc : Weight(q, f) = 0 BY <2>1 DEF Weight, Recorded
  <2>3. Bars(Weights(f)) = {}
    <3> SUFFICES ASSUME NEW x \in Bars(Weights(f)) PROVE FALSE OBVIOUS
    <3>1. DOMAIN Weights(f) = Proc /\ \A q \in Proc : Weights(f)[q] = 0 BY <2>2 DEF Weights
    <3>2. PICK q \in Proc, n \in Nat \ {0} : x = <<q, n>> /\ n <= 0 BY <3>1 DEF Bars
    <3>3. QED BY <3>2
  <2>4. IsFiniteSet({}) /\ Cardinality({}) = 0 BY FS_EmptySet
  <2>5. IsFiniteSet(Bars(Weights(f))) /\ Cardinality(Bars(Weights(f))) = 0 BY ONLY <2>3, <2>4
  <2>6. num[f] = 0 OBVIOUS
  <2>7. QED BY ONLY <2>5, <2>6
<1>4. QueueInv(G) BY DEF QueueInv
<1>5. PathInv(G)
  <2>1. PICK l : l = Start({}) OBVIOUS
  <2>2. <<<<>>, l>> \in G /\ l.inside = Outside BY <2>1 DEF Disciplined, Start
  <2>3. \A q \in Proc : q # tracker BY ProcAssumption
  <2>4. ASSUME NEW q \in Proc PROVE Kept(G, q)
    <3>1. Fits(q, l) BY <2>2 DEF Fits, Now, Outside
    <3>2. path[q] = <<>> OBVIOUS
    <3>3. QED BY <2>2, <2>3, <3>1, <3>2 DEF Kept
  <2>5. QED BY <2>4 DEF PathInv
<1>6. QED BY <1>1, <1>2, <1>3, <1>4, <1>5 DEF DInv

\* DInv is inductive.
LEMMA DisciplineNext ==
    ASSUME NEW G, Disciplined(G), DInv(G), [Next]_vars
    PROVE  DInv(G)'
<1>1. TypeOK' BY NextType DEF DInv
<1>2. CASE Next
  <2>1. PICK p \in Proc : Call(p) \/ Step(p) \/ Nmi(p) BY <1>2 DEF Next
  <2>2. StageInv' BY <2>1, StageNext DEF DInv
  <2>3. QueueInv(G)' BY <2>1, QueueNext DEF DInv
  <2>4. NumInv' BY <1>1, <2>1, NumNext DEF DInv
  <2>5. PathInv(G)' BY <1>1, <2>1, PathNext DEF DInv
  <2>6. QED BY <1>1, <2>2, <2>3, <2>4, <2>5 DEF DInv
<1>3. CASE UNCHANGED vars
  <2> USE <1>3 DEF vars
  <2>1. StageInv' BY DEF DInv, StageInv, Cur
  <2>2. QueueInv(G)' BY DEF DInv, QueueInv, Inner
  <2>3. NumInv'
    <3>1. \A q \in Proc : at'[q] = at[q] /\ path'[q] = path[q] /\ depth'[q] = depth[q] OBVIOUS
    <3>2. num' = num /\ history' = history OBVIOUS
    <3>3. QED BY <1>1, <3>1, <3>2, RestNum DEF DInv
  <2>4. PathInv(G)'
    <3>1. \A l : TrackerOK(G, l)' = TrackerOK(G, l)
      BY DEF TrackerOK, Holders, Victim, InQueue, Inner
    <3>2. \A q, l : Fits(q, l)' = Fits(q, l) BY DEF Fits, Now, Cur
    <3>3. \A q : Kept(G, q)' = Kept(G, q) BY <3>1, <3>2 DEF Kept
    <3>4. QED BY <3>3 DEF DInv, PathInv
  <2>5. QED BY <1>1, <2>1, <2>2, <2>3, <2>4 DEF DInv
<1>4. QED BY <1>2, <1>3

\* With disciplined paths the invariant always holds.
THEOREM Discipline ==
    ASSUME NEW G, Disciplined(G)
    PROVE  Spec => []DInv(G)
<1>1. Init => DInv(G) BY DisciplineInit
<1>2. DInv(G) /\ [Next]_vars => DInv(G)' BY DisciplineNext
<1>3. QED BY <1>1, <1>2, PTL DEF Spec

\* Kernel paths that leave only sections they have entered, and handlers that do not
\* enter a section whose recovery lock they have: then no recovery makes the count of
\* a section smaller than the number of processes inside, although exit decrements
\* it unconditionally and exit_rcs_after_recovery by a history that drops entries.
THEOREM NeverUndercounted ==
    ASSUME NEW G, Disciplined(G)
    PROVE  Spec => []NoUndercount
<1>1. DInv(G) => NoUndercount
  <2> SUFFICES ASSUME DInv(G), NEW f \in Flag \ {0} PROVE num[f] >= Cardinality(Visits(f))
    BY DEF NoUndercount
  <2>1. TypeOK /\ NumInv BY DEF DInv
  <2>2. Visits(f) \subseteq Bars(Weights(f))
    <3> SUFFICES ASSUME NEW x \in Visits(f) PROVE x \in Bars(Weights(f)) OBVIOUS
    <3>0. PICK q \in Proc : \E n \in 1..depth[q][f] : x = <<q, n>> BY DEF Visits
    <3>1. PICK n \in 1..depth[q][f] : x = <<q, n>> BY <3>0
    <3>2. PICK d \in Nat, w \in Nat : d = depth[q][f] /\ w = Weight(q, f) /\ d <= w
      BY <2>1, WeightType
    <3>3. n \in Nat \ {0} /\ n <= w BY <3>1, <3>2
    <3>4. DOMAIN Weights(f) = Proc /\ Weights(f)[q] = w BY <3>2 DEF Weights
    <3>5. QED BY <3>1, <3>3, <3>4 DEF Bars
  <2>3. IsFiniteSet(Bars(Weights(f))) /\ Cardinality(Bars(Weights(f))) <= num[f]
    BY <2>1 DEF NumInv
  <2>4. /\ Cardinality(Visits(f)) <= Cardinality(Bars(Weights(f))) /\ IsFiniteSet(Visits(f))
    BY <2>2, <2>3, FS_Subset
  <2>5. Cardinality(Visits(f)) \in Nat /\ Cardinality(Bars(Weights(f))) \in Nat
    BY <2>3, <2>4, FS_CardinalityType
  <2>6. num[f] \in Int BY <2>1 DEF TypeOK
  <2>7. QED BY <2>3, <2>4, <2>5, <2>6
<1>2. QED BY <1>1, Discipline, PTL

\* When the object is besides used inside its section only, and replaced after the
\* count: while a counted object is replaced, nobody but the victim and the one late
\* entrant is inside, whatever happened since the handler looked at the count.
THEOREM OnlyLateGetIn ==
    ASSUME NEW G, Disciplined(G), Judged(G)
    PROVE  Spec => []OnlyLateEntrants
<1>1. DInv(G) => OnlyLateEntrants
  <2> SUFFICES ASSUME DInv(G), NEW f \in Counted, Repairing(f)
               PROVE  Holders(f) \ {Victim} \subseteq late[f]
    BY DEF OnlyLateEntrants
  <2>1. f \in Flag \ {0} BY DEF Counted, Disciplined
  <2>2. f \in Inner(G) BY <2>1 DEF Inner, Judged
  <2>3. /\ tracker \in Proc /\ path[tracker] # <<>> /\ at[tracker] # "nmi"
        /\ Cur(tracker).op = "repair" /\ Cur(tracker).flag = f
    BY DEF Repairing, F, DInv, QueueInv, TypeOK
  <2>4. PICK x \in G : x[1] = path[tracker] /\ TrackerOK(G, x[2])
    BY <2>3 DEF DInv, PathInv, Kept
  <2>5. f \in x[2].counted BY <2>3, <2>4 DEF Judged, Cur
  <2>6. QED BY <2>1, <2>2, <2>4, <2>5 DEF TrackerOK
<1>2. QED BY <1>1, Discipline, PTL

\* When nodes are replaced only after the busy-wait for the giant section g: while
\* one is replaced, everybody inside g waits in the NMI Queue or was late.
THEOREM GiantStaysDrained ==
    ASSUME NEW G, Disciplined(G), NEW g \in Flag \ {0}, NEW node, Waits(G, g, node)
    PROVE  Spec => []GiantDrained(g, node)
<1>1. DInv(G) => GiantDrained(g, node)
  <2> SUFFICES ASSUME DInv(G), Repairing(node), NEW q \in Holders(g)
               PROVE  q \in late[g] \/ \E i \in 1..Len(queue) : queue[i].pid = q
    BY DEF GiantDrained
  <2>1. /\ tracker \in Proc /\ path[tracker] # <<>> /\ at[tracker] # "nmi"
        /\ Cur(tracker).op = "repair" /\ Cur(tracker).flag = node
    BY DEF Repairing, F, DInv, QueueInv, TypeOK
  <2>2. PICK x \in G : x[1] = path[tracker] /\ TrackerOK(G, x[2])
    BY <2>1 DEF DInv, PathInv, Kept
  <2>3. g \in x[2].waited BY <2>1, <2>2 DEF Waits, Cur
  <2>4. QED BY <2>2, <2>3 DEF TrackerOK, InQueue
<1>2. QED BY <1>1, Discipline, PTL
=============================================================================
