----------------------------- MODULE ProcProofs -----------------------------
(***************************************************************************)
(* Theorems about Proc, for every size of the process table: types, that   *)
(* neither a child's exit nor a kill is missed by a process in wait, and   *)
(* which processes can wait for each other's spinlocks in a circle.        *)
(***************************************************************************)
EXTENDS Proc, WellFoundedInduction, TLAPS

-----------------------------------------------------------------------------
(* The indices of the process table. *)

\* Slots of the process table are numbers; none is the null pointer.
LEMMA Indices ==
    /\ initproc \in Slot
    /\ None \notin Slot /\ Event \notin Slot /\ Event # None
    /\ None \in Index /\ 1 \in Index
    /\ Slot \subseteq Index
    /\ \A i \in Slot : i + 1 \in Index
<1> QED  BY SizeAssumption DEF Slot, Index, initproc, None, Event

\* A loop over the table has passed nothing at its start, one more slot after
\* each round, and all of them at its end.
LEMMA Passed ==
    \A q \in Slot :
        /\ ~(q < 1)
        /\ q < NPROC + 1
        /\ \A i \in Slot : q < i + 1 => q < i \/ q = i
<1> QED  BY SizeAssumption DEF Slot

-----------------------------------------------------------------------------
(* Type correctness. *)

\* Types at the start.
LEMMA TypeInit == Init => TypeOK
<1> SUFFICES ASSUME Init PROVE TypeOK
  OBVIOUS
<1>1. 2 \in Slot
  BY SizeAssumption DEF Slot
<1> QED  BY <1>1, Indices DEF Init, TypeOK, Label

\* No step of fork, exit, wait, kill or the scheduler leaves the types.
LEMMA TypeStep == TypeOK /\ [Next]_vars => TypeOK'
<1> SUFFICES ASSUME TypeOK, [Next]_vars PROVE TypeOK'
  OBVIOUS
<1> USE Indices DEF TypeOK, Label, Goto, Look, Locked, table, At
<1>1. ASSUME NEW p \in Slot, Schedule(p) PROVE TypeOK'
  <2>1. CASE pc[p] = "waiting"
    <3>1. /\ lock' = [lock EXCEPT ![p] = p]
          /\ kids' = [kids EXCEPT ![p] = FALSE]
          /\ other' = [other EXCEPT ![p] = 1]
          /\ pc' = [pc EXCEPT ![p] = "scan"]
      BY <1>1, <2>1 DEF Schedule
    <3>2. lock' \in [Slot -> Slot \cup {None}] /\ other' \in [Slot -> Index]
      BY <3>1
    <3>3. kids' \in [Slot -> BOOLEAN] /\ pc' \in [Slot -> Label]
      BY <3>1
    <3> QED  BY <1>1, <3>2, <3>3 DEF Schedule
  <2>2. CASE pc[p] = "asleep"
    BY <1>1, <2>2 DEF Schedule
  <2>3. CASE pc[p] \notin {"waiting", "asleep"}
    BY <1>1, <2>3 DEF Schedule
  <2> QED  BY <2>1, <2>2, <2>3
<1>2. ASSUME NEW p \in Slot, Inside(p) PROVE TypeOK'
  <2>1. CASE Fork(p)
    <3>2. lock' \in [Slot -> Slot \cup {None}] /\ other' \in [Slot -> Index]
      BY <2>1 DEF Fork
    <3>3. /\ parent' \in [Slot -> Slot \cup {None}]
          /\ state' \in [Slot -> {"UNUSED", "SLEEPING", "RUNNABLE", "RUNNING", "ZOMBIE"}]
          /\ pc' \in [Slot -> Label]
      <4>1. CASE parent' = [parent EXCEPT ![other[p]] = p]
        BY <2>1, <4>1 DEF Fork
      <4>2. CASE parent' = parent /\ state' = state
        BY <2>1, <4>2 DEF Fork
      <4> QED  BY <2>1, <4>1, <4>2 DEF Fork
    <3> QED  BY <2>1, <3>2, <3>3 DEF Fork
  <2>2. CASE ReadParent(p) \/ LockParent(p) \/ LockSelf(p)
    BY <2>2 DEF ReadParent, LockParent, LockSelf
  <2>3. CASE Reparent(p)
    BY <2>3 DEF Reparent
  <2>4. CASE Zombie(p)
    BY <2>4 DEF Zombie, Woken
  <2>5. CASE Gone(p) \/ ScanOther(p) \/ EndScan(p)
    BY <2>5 DEF Gone, ScanOther, EndScan
  <2>6. CASE ScanChild(p)
    <3>1. CASE state[other[p]] # "ZOMBIE"
      <4>1. /\ kids' = [kids EXCEPT ![p] = TRUE]
            /\ other' = [other EXCEPT ![p] = other[p] + 1]
            /\ UNCHANGED <<state, parent, chan, killed, pc, lock>>
        BY <2>6, <3>1 DEF ScanChild
      <4>2. kids' \in [Slot -> BOOLEAN] /\ other' \in [Slot -> Index]
        BY <2>6, <4>1 DEF ScanChild
      <4> QED  BY <2>6, <4>1, <4>2 DEF ScanChild
    <3>2. CASE UNCHANGED table /\ pc' = [pc EXCEPT ![p] = "user"]
      BY <2>6, <3>2 DEF ScanChild
    <3>3. CASE pc' = [pc EXCEPT ![other[p]] = "free", ![p] = "user"]
      BY <2>6, <3>3 DEF ScanChild
    <3> QED  BY <2>6, <3>1, <3>2, <3>3 DEF ScanChild
  <2>7. CASE Test(p) \/ Sleep(p) \/ Relock(p)
    BY <2>7 DEF Test, Sleep, Relock
  <2>8. CASE Wakeup(p)
    BY <2>8 DEF Wakeup, Woken
  <2> QED  BY <1>2, <2>1, <2>2, <2>3, <2>4, <2>5, <2>6, <2>7, <2>8 DEF Inside
<1>3. ASSUME NEW p \in Slot, Call(p) PROVE TypeOK'
  <2>1. CASE Yield(p)
    BY <2>1 DEF Yield
  <2>6. CASE Consume(p)
    BY <2>6 DEF Consume, Called
  <2>7. CASE Produce(p)
    BY <2>7 DEF Produce, Called
  <2>2. CASE AllocProc(p)
    BY <2>2 DEF AllocProc, Called
  <2>3. CASE Exit(p)
    BY <2>3 DEF Exit, Woken
  <2>4. CASE Wait(p)
    BY <2>4 DEF Wait, Called
  <2>5. CASE \E q \in Slot : Kill(p, q)
    BY <2>5 DEF Kill, Called
  <2> QED  BY <1>3, <2>1, <2>2, <2>3, <2>4, <2>5, <2>6, <2>7 DEF Call
<1>4. CASE UNCHANGED vars
  BY <1>4 DEF vars
<1> QED  BY <1>1, <1>2, <1>3, <1>4 DEF Next

\* Every field keeps its type; no search leaves the process table.
THEOREM TypeCorrect == Spec => []TypeOK
<1> QED  BY TypeInit, TypeStep, PTL DEF Spec

-----------------------------------------------------------------------------
(* The inductive invariant. *)

\* What a label says about the locks, and the states of slots nobody runs in.
LockOK(p) ==
    /\ pc[p] = "scan" => lock[p] = p
    /\ pc[p] = "fork" =>
          other[p] \in Slot /\ lock[other[p]] = p /\ state[other[p]] = "UNUSED"
    /\ pc[p] \in {"lockself", "reparent"} =>
          other[p] \in Slot /\ lock[other[p]] = p
    /\ pc[p] = "lockparent" => other[p] \in Slot
    /\ pc[p] \in {"parent", "lockparent", "lockself", "reparent", "gone"} =>
          p # initproc
    /\ state[p] = "UNUSED" => pc[p] = "free" /\ p # initproc
    /\ state[p] = "ZOMBIE" => pc[p] = "gone"
    /\ p # initproc /\ state[p] # "UNUSED" => parent[p] \in Slot

LockInv == \A p \in Slot : LockOK(p)

\* The copy that exit made of p->parent is right as long as that parent has
\* not given the process to init, and a zombie has no children.
ParentOK(p) ==
    /\ pc[p] \in {"lockparent", "lockself", "reparent"} =>
          other[p] = parent[p] \/ parent[p] = initproc
    /\ state[p] = "ZOMBIE" => \A q \in Slot : parent[q] # p
    /\ p # initproc /\ state[p] # "UNUSED" => state[parent[p]] # "UNUSED"

ParentInv == \A p \in Slot : ParentOK(p)

\* A search that has passed a child, under the lock of the process in wait,
\* leaves no zombie behind.
WaitOK(p) ==
    /\ pc[p] = "waiting" /\ state[p] = "SLEEPING" =>
          chan[p] = p /\ \A q \in Slot : parent[q] = p => state[q] # "ZOMBIE"
    /\ pc[p] = "scan" => \A q \in Slot :
          q < other[p] /\ parent[q] = p => state[q] # "ZOMBIE"

WaitInv == \A p \in Slot \ {initproc} : WaitOK(p)

IInv == TypeOK /\ LockInv /\ ParentInv /\ WaitInv

-----------------------------------------------------------------------------
\* Each label of exit, wait and fork goes with the locks that the code holds there.
LEMMA LockStep == TypeOK /\ LockInv /\ [Next]_vars => LockInv'
<1> SUFFICES ASSUME TypeOK, LockInv, [Next]_vars, NEW r \in Slot PROVE LockOK(r)'
  BY DEF LockInv
<1> USE Indices DEF TypeOK, At, Goto, Look, Locked, table, LockInv, LockOK
<1>1. ASSUME NEW p \in Slot, Schedule(p) PROVE LockOK(r)'
  BY <1>1 DEF Schedule
<1>2. ASSUME NEW p \in Slot, Inside(p) PROVE LockOK(r)'
  <2>1. CASE Fork(p)
    BY <2>1 DEF Fork
  <2>2. CASE ReadParent(p)
    BY <2>2 DEF ReadParent
  <2>3. CASE LockParent(p)
    BY <2>3 DEF LockParent
  <2>4. CASE LockSelf(p)
    BY <2>4 DEF LockSelf
  <2>5. CASE Reparent(p)
    BY <2>5 DEF Reparent, Children
  <2>6. CASE Zombie(p)
    BY <2>6 DEF Zombie, Woken, Children
  <2>7. CASE Gone(p)
    BY <2>7 DEF Gone
  <2>8. CASE ScanOther(p)
    BY <2>8 DEF ScanOther
  <2>9. CASE ScanChild(p)
    BY <2>9 DEF ScanChild
  <2>10. CASE EndScan(p)
    BY <2>10 DEF EndScan
  <2>11. CASE Test(p)
    BY <2>11 DEF Test
  <2>12. CASE Sleep(p)
    BY <2>12 DEF Sleep
  <2>13. CASE Relock(p)
    BY <2>13 DEF Relock
  <2>14. CASE Wakeup(p)
    BY <2>14 DEF Wakeup, Woken
  <2> QED  BY <1>2, <2>1, <2>2, <2>3, <2>4, <2>5, <2>6, <2>7, <2>8, <2>9, <2>10, <2>11, <2>12,
              <2>13, <2>14 DEF Inside
<1>3. ASSUME NEW p \in Slot, Call(p) PROVE LockOK(r)'
  <2>1. CASE Yield(p)
    BY <2>1 DEF Yield, Called
  <2>2. CASE AllocProc(p)
    BY <2>2 DEF AllocProc, Called
  <2>3. CASE Exit(p)
    BY <2>3 DEF Exit, Called, Woken
  <2>4. CASE Wait(p)
    BY <2>4 DEF Wait, Called
  <2>5. CASE Consume(p)
    BY <2>5 DEF Consume, Called
  <2>6. CASE Produce(p)
    BY <2>6 DEF Produce, Called
  <2>7. CASE \E q \in Slot : Kill(p, q)
    BY <2>7 DEF Kill, Called
  <2> QED  BY <1>3, <2>1, <2>2, <2>3, <2>4, <2>5, <2>6, <2>7 DEF Call
<1>4. CASE UNCHANGED vars
  BY <1>4 DEF vars
<1> QED  BY <1>1, <1>2, <1>3, <1>4 DEF Next

\* exit's copy of its parent stays right, or the process is init's child now.
LEMMA ParentStep == TypeOK /\ LockInv /\ ParentInv /\ [Next]_vars => ParentInv'
<1> SUFFICES ASSUME TypeOK, LockInv, ParentInv, [Next]_vars, NEW r \in Slot
             PROVE ParentOK(r)'
  BY DEF ParentInv
<1> USE Indices DEF TypeOK, At, Goto, Look, Locked, table, LockInv, LockOK,
                    ParentInv, ParentOK
<1>1. ASSUME NEW p \in Slot, Schedule(p) PROVE ParentOK(r)'
  BY <1>1 DEF Schedule
<1>2. ASSUME NEW p \in Slot, Inside(p) PROVE ParentOK(r)'
  <2>1. CASE Fork(p)
    BY <2>1 DEF Fork
  <2>2. CASE ReadParent(p)
    BY <2>2 DEF ReadParent
  <2>3. CASE LockParent(p)
    BY <2>3 DEF LockParent
  <2>4. CASE LockSelf(p)
    BY <2>4 DEF LockSelf
  <2>5. CASE Reparent(p)
    BY <2>5 DEF Reparent, Children
  <2>6. CASE Zombie(p)
    BY <2>6 DEF Zombie, Woken, Children
  <2>7. CASE Gone(p)
    BY <2>7 DEF Gone
  <2>8. CASE ScanOther(p)
    BY <2>8 DEF ScanOther
  <2>9. CASE ScanChild(p)
    BY <2>9 DEF ScanChild
  <2>10. CASE EndScan(p)
    BY <2>10 DEF EndScan
  <2>11. CASE Test(p)
    BY <2>11 DEF Test
  <2>12. CASE Sleep(p)
    BY <2>12 DEF Sleep
  <2>13. CASE Relock(p)
    BY <2>13 DEF Relock
  <2>14. CASE Wakeup(p)
    BY <2>14 DEF Wakeup, Woken
  <2> QED  BY <1>2, <2>1, <2>2, <2>3, <2>4, <2>5, <2>6, <2>7,
             <2>8, <2>9, <2>10, <2>11, <2>12, <2>13, <2>14 DEF Inside
<1>3. ASSUME NEW p \in Slot, Call(p) PROVE ParentOK(r)'
  <2>1. CASE Yield(p)
    BY <2>1 DEF Yield
  <2>2. CASE AllocProc(p)
    BY <2>2 DEF AllocProc
  <2>3. CASE Exit(p)
    BY <2>3 DEF Exit, Woken
  <2>4. CASE Wait(p)
    BY <2>4 DEF Wait
  <2>5. CASE Consume(p)
    BY <2>5 DEF Consume
  <2>6. CASE Produce(p)
    BY <2>6 DEF Produce
  <2>7. CASE \E q \in Slot : Kill(p, q)
    BY <2>7 DEF Kill
  <2> QED  BY <1>3, <2>1, <2>2, <2>3, <2>4, <2>5, <2>6, <2>7 DEF Call
<1>4. CASE UNCHANGED vars
  BY <1>4 DEF vars
<1> QED  BY <1>1, <1>2, <1>3, <1>4 DEF Next

\* A search of wait leaves no zombie behind it.
LEMMA WaitStep == TypeOK /\ LockInv /\ ParentInv /\ WaitInv /\ [Next]_vars => WaitInv'
<1> SUFFICES ASSUME TypeOK, LockInv, ParentInv, WaitInv, [Next]_vars, NEW r \in Slot \ {initproc}
             PROVE WaitOK(r)'
  BY DEF WaitInv
<1> USE Indices DEF TypeOK, At, Goto, Look, Locked, table, LockInv, LockOK,
                    ParentInv, ParentOK, WaitInv, WaitOK
<1>1. ASSUME NEW p \in Slot, Schedule(p) PROVE WaitOK(r)'
  <2>1. CASE p = r /\ pc[p] = "waiting"
    <3>1. pc'[r] = "scan" /\ other'[r] = 1
      BY <1>1, <2>1 DEF Schedule
    <3> QED  BY <3>1, Passed
  <2>2. CASE p # r \/ pc[p] # "waiting"
    BY <1>1, <2>2 DEF Schedule
  <2> QED  BY <2>1, <2>2
<1>2. ASSUME NEW p \in Slot, Inside(p) PROVE WaitOK(r)'
  <2>1. CASE Fork(p)
    BY <2>1 DEF Fork
  <2>2. CASE ReadParent(p)
    BY <2>2 DEF ReadParent
  <2>3. CASE LockParent(p)
    BY <2>3 DEF LockParent
  <2>4. CASE LockSelf(p)
    BY <2>4 DEF LockSelf
  <2>5. CASE Reparent(p)
    BY <2>5 DEF Reparent, Children
  <2>6. CASE Zombie(p)
    BY <2>6 DEF Zombie, Woken, Children
  <2>7. CASE Gone(p)
    BY <2>7 DEF Gone
  <2>8. CASE ScanOther(p)
    <3>1. CASE p = r
      <4>1. /\ pc' = pc /\ state' = state /\ parent' = parent
            /\ pc[r] = "scan" /\ other[r] \in Slot /\ parent[other[r]] # r
            /\ other'[r] = other[r] + 1
        BY <2>8, <3>1 DEF ScanOther
      <4> QED  BY <4>1, Passed
    <3>2. CASE p # r
      BY <2>8, <3>2 DEF ScanOther
    <3> QED  BY <3>1, <3>2
  <2>9. CASE ScanChild(p)
    <3>1. CASE p = r /\ state[other[p]] # "ZOMBIE"
      <4>1. /\ pc' = pc /\ state' = state /\ parent' = parent
            /\ pc[r] = "scan" /\ other[r] \in Slot
            /\ other'[r] = other[r] + 1
        BY <2>9, <3>1 DEF ScanChild
      <4> QED  BY <3>1, <4>1, Passed
    <3>2. CASE p = r /\ state[other[p]] = "ZOMBIE"
      BY <2>9, <3>2 DEF ScanChild
    <3>3. CASE p # r /\ state[other[p]] # "ZOMBIE"
      BY <2>9, <3>3 DEF ScanChild
    <3>4. CASE p # r /\ state[other[p]] = "ZOMBIE"
      BY <2>9, <3>4 DEF ScanChild
    <3> QED  BY <3>1, <3>2, <3>3, <3>4
  <2>10. CASE EndScan(p)
    <3>1. CASE p = r /\ pc'[p] = "waiting"
      <4>1. pc[r] = "scan" /\ other[r] = NPROC + 1
        BY <2>10, <3>1 DEF EndScan
      <4>2. \A q \in Slot : parent[q] = r => state[q] # "ZOMBIE"
        BY <4>1, Passed
      <4>3. /\ parent' = parent
            /\ state' = [state EXCEPT ![r] = "SLEEPING"]
            /\ chan' = [chan EXCEPT ![r] = r]
        BY <2>10, <3>1 DEF EndScan
      <4> QED  BY <3>1, <4>2, <4>3
    <3>2. CASE p = r /\ pc'[p] # "waiting"
      BY <2>10, <3>2 DEF EndScan
    <3>3. CASE p # r
      BY <2>10, <3>3 DEF EndScan
    <3> QED  BY <3>1, <3>2, <3>3
  <2>11. CASE Test(p)
    BY <2>11 DEF Test
  <2>12. CASE Sleep(p)
    BY <2>12 DEF Sleep
  <2>13. CASE Relock(p)
    BY <2>13 DEF Relock
  <2>14. CASE Wakeup(p)
    BY <2>14 DEF Wakeup, Woken
  <2> QED  BY <1>2, <2>1, <2>2, <2>3, <2>4, <2>5, <2>6, <2>7,
             <2>8, <2>9, <2>10, <2>11, <2>12, <2>13, <2>14 DEF Inside
<1>3. ASSUME NEW p \in Slot, Call(p) PROVE WaitOK(r)'
  <2>1. CASE Yield(p)
    BY <2>1 DEF Yield
  <2>2. CASE AllocProc(p)
    BY <2>2 DEF AllocProc
  <2>3. CASE Exit(p)
    BY <2>3 DEF Exit, Woken
  <2>4. CASE Wait(p)
    <3>1. CASE p = r
      <4>1. pc'[r] = "scan" /\ other'[r] = 1
        BY <2>4, <3>1 DEF Wait
      <4> QED  BY <4>1, Passed
    <3>2. CASE p # r
      BY <2>4, <3>2 DEF Wait
    <3> QED  BY <3>1, <3>2
  <2>5. CASE Consume(p)
    BY <2>5 DEF Consume
  <2>6. CASE Produce(p)
    BY <2>6 DEF Produce
  <2>7. CASE \E q \in Slot : Kill(p, q)
    BY <2>7 DEF Kill
  <2> QED  BY <1>3, <2>1, <2>2, <2>3, <2>4, <2>5, <2>6, <2>7 DEF Call
<1>4. CASE UNCHANGED vars
  BY <1>4 DEF vars
<1> QED  BY <1>1, <1>2, <1>3, <1>4 DEF Next

-----------------------------------------------------------------------------
(* The theorems. *)

\* The invariant at the start.
LEMMA InvInit == Init => IInv
<1> SUFFICES ASSUME Init PROVE IInv
  OBVIOUS
<1>1. TypeOK
  BY TypeInit
<1>2. LockInv /\ ParentInv
  BY Indices, SizeAssumption
     DEF Init, LockInv, LockOK, ParentInv, ParentOK, Slot, initproc, None
<1>3. WaitInv
  BY DEF Init, WaitInv, WaitOK
<1> QED  BY <1>1, <1>2, <1>3 DEF IInv

\* IInv holds in every reachable state: exit's copy of the parent, the locks
\* that exit and wait hold, and what a search of wait has left behind.
THEOREM Invariance == Spec => []IInv
<1>1. IInv /\ [Next]_vars => IInv'
  BY TypeStep, LockStep, ParentStep, WaitStep DEF IInv
<1> QED  BY InvInit, <1>1, PTL DEF Spec

\* No process but init sleeps in wait() over a child that has called exit():
\* the child holds the lock of its parent when it becomes a zombie, and wait()
\* holds that lock from its search to sleep().
THEOREM NoZombieMissed == Spec => []NoSleepOverZombie
<1>1. IInv => NoSleepOverZombie
  BY DEF IInv, WaitInv, WaitOK, NoSleepOverZombie, InWait, Zombies, Children
<1> QED  BY Invariance, <1>1, PTL

\* exit() leaves no process behind whose parent's slot is free or is given to
\* an unrelated process.
THEOREM ParentsInUse == Spec => []ParentInUse
<1>1. IInv => ParentInUse
  BY Indices DEF IInv, LockInv, LockOK, ParentInv, ParentOK, ParentInUse
<1> QED  BY Invariance, <1>1, PTL

\* kill() takes a process out of wait(), and wait() tests p->killed under the
\* lock that kill() needs: no killed process sleeps on there.
THEOREM KilledDoNotWait == Spec => []KilledLeavesWait
<1>1. Init => KilledLeavesWait
  BY DEF Init, KilledLeavesWait, InWait
<1>2. ASSUME TypeOK, KilledLeavesWait, [Next]_vars PROVE KilledLeavesWait'
  <2> SUFFICES ASSUME NEW r \in Slot, InWait(r)' PROVE ~killed'[r]
    BY DEF KilledLeavesWait
  <2> USE <1>2 DEF KilledLeavesWait, InWait, TypeOK, At, Goto, table
  <2>1. ASSUME NEW p \in Slot, Schedule(p) PROVE ~killed'[r]
    BY <2>1 DEF Schedule
  <2>2. ASSUME NEW p \in Slot, Inside(p) PROVE ~killed'[r]
    <3>1. CASE Fork(p) \/ ReadParent(p) \/ LockParent(p) \/ LockSelf(p) \/ Reparent(p)
      BY <3>1 DEF Fork, ReadParent, LockParent, LockSelf, Reparent
    <3>2. CASE Zombie(p) \/ Gone(p) \/ ScanOther(p)
      BY <3>2 DEF Zombie, Gone, ScanOther, Woken
    <3>3. CASE ScanChild(p)
      BY <3>3 DEF ScanChild
    <3>4. CASE EndScan(p)
      BY <3>4 DEF EndScan
    <3>5. CASE Test(p) \/ Sleep(p) \/ Relock(p) \/ Wakeup(p)
      BY <3>5 DEF Test, Sleep, Relock, Wakeup, Woken
    <3> QED  BY <2>2, <3>1, <3>2, <3>3, <3>4, <3>5 DEF Inside
  <2>3. ASSUME NEW p \in Slot, Call(p) PROVE ~killed'[r]
    <3>1. CASE \E q \in Slot : Kill(p, q)
      BY <3>1 DEF Kill
    <3>2. CASE Yield(p) \/ AllocProc(p) \/ Exit(p)
      BY <3>2 DEF Yield, AllocProc, Exit, Woken
    <3>3. CASE Wait(p) \/ Consume(p) \/ Produce(p)
      BY <3>3 DEF Wait, Consume, Produce
    <3> QED  BY <2>3, <3>1, <3>2, <3>3 DEF Call
  <2>4. CASE UNCHANGED vars
    BY <2>4 DEF vars
  <2> QED  BY <2>1, <2>2, <2>3, <2>4 DEF Next
<1> QED  BY <1>1, <1>2, TypeCorrect, PTL DEF Spec

-----------------------------------------------------------------------------
(* The event: no wakeup is missed. *)

\* The lock lk is held from the test of the event to sleep(), and during
\* wakeup(); whoever is about to sleep has seen no event.
EventOK(p) ==
    /\ pc[p] \in {"test", "tosleep", "wakeup"} => lk = p
    /\ pc[p] = "tosleep" => ~event
    /\ pc[p] = "wakeup" => other[p] # None
    /\ pc[p] = "asleep" /\ state[p] = "SLEEPING" => chan[p] = Event

EventInv == \A p \in Slot : EventOK(p)

\* A wakeup() that has not come to p's slot yet.
Awaits(p, q) == pc[q] = "wakeup" /\ other[q] <= p

\* NoMissedWakeup, for one process.
Expected(p) ==
    state[p] = "SLEEPING" /\ pc[p] = "asleep" /\ event =>
        \E q \in Slot : Awaits(p, q)

\* The order of the slots as wakeup() goes through them.
LEMMA Ahead ==
    /\ \A p \in Slot : 1 <= p
    /\ \A p, i \in Slot : i <= p => i = p \/ i + 1 <= p
    /\ \A p \in Slot, i \in Index \ Slot : i # None => ~(i <= p)
    /\ 1 # None /\ \A i \in Slot : i + 1 # None
<1> QED  BY SizeAssumption DEF Slot, Index, None

\* sleep() and wakeup() hold lk where they claim to.
LEMMA EventStep == TypeOK /\ LockInv /\ EventInv /\ [Next]_vars => EventInv'
<1> SUFFICES ASSUME TypeOK, LockInv, EventInv, [Next]_vars, NEW r \in Slot
             PROVE EventOK(r)'
  BY DEF EventInv
<1> USE Indices, Ahead DEF TypeOK, At, Goto, Look, Locked, table, LockInv, LockOK, EventInv, EventOK
<1>1. ASSUME NEW p \in Slot, Schedule(p) PROVE EventOK(r)'
  BY <1>1 DEF Schedule
<1>2. ASSUME NEW p \in Slot, Inside(p) PROVE EventOK(r)'
  <2>1. CASE Fork(p)
    BY <2>1 DEF Fork
  <2>2. CASE ReadParent(p)
    BY <2>2 DEF ReadParent
  <2>3. CASE LockParent(p)
    BY <2>3 DEF LockParent
  <2>4. CASE LockSelf(p)
    BY <2>4 DEF LockSelf
  <2>5. CASE Reparent(p)
    BY <2>5 DEF Reparent
  <2>6. CASE Zombie(p)
    BY <2>6 DEF Zombie, Woken
  <2>7. CASE Gone(p)
    BY <2>7 DEF Gone
  <2>8. CASE ScanOther(p)
    BY <2>8 DEF ScanOther
  <2>9. CASE ScanChild(p)
    BY <2>9 DEF ScanChild
  <2>10. CASE EndScan(p)
    BY <2>10 DEF EndScan
  <2>11. CASE Test(p)
    BY <2>11 DEF Test
  <2>12. CASE Sleep(p)
    BY <2>12 DEF Sleep
  <2>13. CASE Relock(p)
    BY <2>13 DEF Relock
  <2>14. CASE Wakeup(p)
    BY <2>14 DEF Wakeup, Woken
  <2> QED  BY <1>2, <2>1, <2>2, <2>3, <2>4, <2>5, <2>6, <2>7, <2>8,
              <2>9, <2>10, <2>11, <2>12, <2>13, <2>14 DEF Inside
<1>3. ASSUME NEW p \in Slot, Call(p) PROVE EventOK(r)'
  <2>1. CASE Yield(p)
    BY <2>1 DEF Yield
  <2>2. CASE AllocProc(p)
    BY <2>2 DEF AllocProc
  <2>3. CASE Exit(p)
    BY <2>3 DEF Exit, Woken
  <2>4. CASE Wait(p)
    BY <2>4 DEF Wait
  <2>5. CASE Consume(p)
    BY <2>5 DEF Consume
  <2>6. CASE Produce(p)
    BY <2>6 DEF Produce
  <2>7. CASE \E q \in Slot : Kill(p, q)
    BY <2>7 DEF Kill
  <2> QED  BY <1>3, <2>1, <2>2, <2>3, <2>4, <2>5, <2>6, <2>7 DEF Call
<1>4. CASE UNCHANGED vars
  BY <1>4 DEF vars
<1> QED  BY <1>1, <1>2, <1>3, <1>4 DEF Next

\* A sleeper is woken, or the wakeup() is still to come to it.
LEMMA ExpectedStep ==
    TypeOK /\ LockInv /\ EventInv /\ [Next]_vars /\ (\A p \in Slot : Expected(p))
        => (\A p \in Slot : Expected(p)')
<1> SUFFICES ASSUME TypeOK, LockInv, EventInv, [Next]_vars, NEW r \in Slot, Expected(r)
             PROVE Expected(r)'
  OBVIOUS
<1> USE Indices, Ahead DEF TypeOK, At, Goto, Look, Locked, table, LockInv, LockOK,
                    EventInv, EventOK, Expected, Awaits
<1>1. ASSUME NEW p \in Slot, Schedule(p) PROVE Expected(r)'
  BY <1>1 DEF Schedule
<1>2. ASSUME NEW p \in Slot, Inside(p) PROVE Expected(r)'
  <2>1. CASE Fork(p)
    BY <2>1 DEF Fork
  <2>2. CASE ReadParent(p)
    BY <2>2 DEF ReadParent
  <2>3. CASE LockParent(p)
    BY <2>3 DEF LockParent
  <2>4. CASE LockSelf(p)
    BY <2>4 DEF LockSelf
  <2>5. CASE Reparent(p)
    BY <2>5 DEF Reparent
  <2>6. CASE Zombie(p)
    BY <2>6 DEF Zombie, Woken
  <2>7. CASE Gone(p)
    BY <2>7 DEF Gone
  <2>8. CASE ScanOther(p)
    BY <2>8 DEF ScanOther
  <2>9. CASE ScanChild(p)
    BY <2>9 DEF ScanChild
  <2>10. CASE EndScan(p)
    BY <2>10 DEF EndScan
  <2>11. CASE Test(p)
    BY <2>11 DEF Test
  <2>12. CASE Sleep(p)
    BY <2>12 DEF Sleep
  <2>13. CASE Relock(p)
    BY <2>13 DEF Relock
  <2>14. CASE Wakeup(p)
    BY <2>14 DEF Wakeup, Woken
  <2> QED  BY <1>2, <2>1, <2>2, <2>3, <2>4, <2>5, <2>6, <2>7, <2>8,
              <2>9, <2>10, <2>11, <2>12, <2>13, <2>14 DEF Inside
<1>3. ASSUME NEW p \in Slot, Call(p) PROVE Expected(r)'
  <2>1. CASE Yield(p)
    BY <2>1 DEF Yield
  <2>2. CASE AllocProc(p)
    BY <2>2 DEF AllocProc
  <2>3. CASE Exit(p)
    BY <2>3 DEF Exit, Woken
  <2>4. CASE Wait(p)
    BY <2>4 DEF Wait
  <2>5. CASE Consume(p)
    BY <2>5 DEF Consume
  <2>6. CASE Produce(p)
    BY <2>6 DEF Produce
  <2>7. CASE \E q \in Slot : Kill(p, q)
    BY <2>7 DEF Kill
  <2> QED  BY <1>3, <2>1, <2>2, <2>3, <2>4, <2>5, <2>6, <2>7 DEF Call
<1>4. CASE UNCHANGED vars
  BY <1>4 DEF vars
<1> QED  BY <1>1, <1>2, <1>3, <1>4 DEF Next

\* A process that sleeps for an event is woken when it has happened: sleep()
\* acquires p->lock before it releases lk, and wakeup() is called with lk held.
THEOREM NoWakeupMissed == Spec => []NoMissedWakeup
<1> DEFINE Inv == \A p \in Slot : Expected(p)
<1>1. Init => EventInv /\ Inv
  BY Indices DEF Init, EventInv, EventOK, Expected
<1>2. IInv /\ EventInv /\ Inv /\ [Next]_vars => EventInv' /\ Inv'
  BY EventStep, ExpectedStep DEF IInv
<1>3. Inv => NoMissedWakeup
  BY DEF Expected, Awaits, NoMissedWakeup
<1> QED  BY <1>1, <1>2, <1>3, Invariance, PTL DEF Spec
-----------------------------------------------------------------------------
(* The spinlocks: nobody waits in a circle. *)

\* Who holds the lock of slot x: fork the child's, exit the one of the parent that
\* it has read and then its own, wait its own, and a zombie its own until the
\* scheduler has switched.
HolderOK(x) ==
    LET h == lock[x]
    IN  h # None =>
            \/ pc[h] \in {"fork", "lockself", "reparent"} /\ other[h] = x
            \/ h = x /\ pc[x] \in {"scan", "reparent", "gone"}

\* The lock of the event is held from the test to sleep(), and during wakeup().
EventHolderOK == lk # None => pc[lk] \in {"test", "tosleep", "wakeup"}

\* A free slot has no parent, and neither has init.
OrphanOK(p) == p = initproc \/ state[p] = "UNUSED" => parent[p] = None

HolderInv == EventHolderOK /\ \A x \in Slot : HolderOK(x) /\ OrphanOK(x)

\* The parents form a tree: every set of processes has one without children in it.
Tree == \A S \in SUBSET Slot : S # {} => \E p \in S : \A q \in S : parent[q] # p

\* The first of a set of slots is one of them.
LEMMA FirstIn == ASSUME NEW S \in SUBSET Slot, S # {} PROVE First(S) \in S
<1>1. S \subseteq Nat
  BY SizeAssumption DEF Slot
<1>2. PICK q \in S : \A r \in S : ~(<<r, q>> \in OpToRel(<, Nat))
  BY <1>1, WFMin, NatLessThanWellFounded, Zenon
<1>3. \A r \in S : ~(r < q)
  BY <1>1, <1>2, Zenon DEF OpToRel
<1>4. \A r \in S : q <= r
  BY <1>1, <1>3
<1> QED  BY <1>4 DEF First

\* Locks are held where exit, wait, fork and sleep() say so.
LEMMA HolderStep ==
    TypeOK /\ LockInv /\ ParentInv /\ EventInv /\ HolderInv /\ [Next]_vars => HolderInv'
<1> SUFFICES ASSUME TypeOK, LockInv, ParentInv, EventInv, HolderInv, [Next]_vars,
                    NEW x \in Slot
             PROVE (EventHolderOK /\ HolderOK(x) /\ OrphanOK(x))'
  BY Indices DEF HolderInv
<1> USE Indices DEF TypeOK, At, Goto, Look, Locked, table, LockInv, LockOK, EventInv,
                    EventOK, HolderInv, HolderOK, EventHolderOK, OrphanOK
<1>1. ASSUME NEW p \in Slot, Schedule(p) PROVE (EventHolderOK /\ HolderOK(x) /\ OrphanOK(x))'
  BY <1>1 DEF Schedule
<1>2. ASSUME NEW p \in Slot, Inside(p) PROVE (EventHolderOK /\ HolderOK(x) /\ OrphanOK(x))'
  <2>1. CASE Fork(p)
    BY <2>1 DEF Fork
  <2>2. CASE ReadParent(p)
    BY <2>2 DEF ReadParent
  <2>3. CASE LockParent(p)
    BY <2>3 DEF LockParent
  <2>4. CASE LockSelf(p)
    BY <2>4 DEF LockSelf
  <2>5. CASE Reparent(p)
    <3>1. First(Children(p)) \in Children(p)
      <4>1. Children(p) \in SUBSET Slot /\ Children(p) # {}
        BY ONLY <2>5 DEF Reparent, Children
      <4> QED  BY ONLY <4>1, FirstIn
    <3> QED  BY <2>5, <3>1 DEF Reparent, Children
  <2>6. CASE Zombie(p)
    BY <2>6 DEF Zombie, Woken, Children
  <2>7. CASE Gone(p)
    BY <2>7 DEF Gone
  <2>8. CASE ScanOther(p)
    BY <2>8 DEF ScanOther
  <2>9. CASE ScanChild(p)
    BY <2>9 DEF ScanChild
  <2>10. CASE EndScan(p)
    BY <2>10 DEF EndScan
  <2>11. CASE Test(p)
    BY <2>11 DEF Test
  <2>12. CASE Sleep(p)
    BY <2>12 DEF Sleep
  <2>13. CASE Relock(p)
    BY <2>13 DEF Relock
  <2>14. CASE Wakeup(p)
    BY <2>14 DEF Wakeup, Woken
  <2> QED  BY <1>2, <2>1, <2>2, <2>3, <2>4, <2>5, <2>6, <2>7, <2>8,
              <2>9, <2>10, <2>11, <2>12, <2>13, <2>14 DEF Inside
<1>3. ASSUME NEW p \in Slot, Call(p) PROVE (EventHolderOK /\ HolderOK(x) /\ OrphanOK(x))'
  <2>1. CASE Yield(p)
    BY <2>1 DEF Yield
  <2>2. CASE AllocProc(p)
    BY <2>2 DEF AllocProc
  <2>3. CASE Exit(p)
    BY <2>3 DEF Exit, Woken
  <2>4. CASE Wait(p)
    BY <2>4 DEF Wait
  <2>5. CASE Consume(p)
    BY <2>5 DEF Consume
  <2>6. CASE Produce(p)
    BY <2>6 DEF Produce
  <2>7. CASE \E q \in Slot : Kill(p, q)
    BY <2>7 DEF Kill
  <2> QED  BY <1>3, <2>1, <2>2, <2>3, <2>4, <2>5, <2>6, <2>7 DEF Call
<1>4. CASE UNCHANGED vars
  BY <1>4 DEF vars
<1> QED  BY <1>1, <1>2, <1>3, <1>4 DEF Next

\* A new process has no children, and init, to which the others are given, has no
\* parent: the parents stay a tree.
LEMMA TreeStep ==
    TypeOK /\ LockInv /\ ParentInv /\ HolderInv /\ Tree /\ [Next]_vars => Tree'
<1> SUFFICES ASSUME TypeOK, LockInv, ParentInv, HolderInv, Tree, [Next]_vars,
                    NEW S \in SUBSET Slot, S # {},
                    \A p \in S : \E q \in S : parent'[q] = p
             PROVE FALSE
  BY DEF Tree
<1>1. CASE parent' = parent
  BY <1>1 DEF Tree
<1>2. ASSUME NEW p \in Slot, NEW np \in Slot, state[np] = "UNUSED", state[p] # "UNUSED",
             parent' = [parent EXCEPT ![np] = p]
      PROVE FALSE
  <2>1. \A q \in Slot : parent[q] # np
    BY <1>2, Indices DEF ParentInv, ParentOK, HolderInv, OrphanOK
  <2>2. np \notin S
    BY <1>2, <2>1 DEF TypeOK
  <2> QED  BY <1>2, <2>2 DEF TypeOK, Tree
<1>3. ASSUME NEW np \in Slot, parent' = [parent EXCEPT ![np] = None] PROVE FALSE
  BY <1>3, Indices DEF TypeOK, Tree
<1>4. ASSUME NEW c \in Slot, c # initproc, parent' = [parent EXCEPT ![c] = initproc]
      PROVE FALSE
  <2> DEFINE T == S \ {initproc}
  <2>1. parent'[initproc] = None
    BY <1>4, Indices DEF TypeOK, HolderInv, OrphanOK
  <2>2. T # {}
    BY <2>1, Indices
  <2>3. \A p \in T : \E q \in T : parent[q] = p
    <3> SUFFICES ASSUME NEW p \in T PROVE \E q \in T : parent[q] = p
      OBVIOUS
    <3>1. PICK q \in S : parent'[q] = p
      OBVIOUS
    <3>2. q # c /\ q # initproc
      BY <1>4, <2>1, <3>1, Indices DEF TypeOK
    <3> QED  BY <1>4, <3>1, <3>2 DEF TypeOK
  <2> QED  BY <2>2, <2>3 DEF Tree
<1>5. ASSUME NEW p \in Slot, Fork(p) PROVE FALSE
  <2>1. other[p] \in Slot /\ state[other[p]] = "UNUSED"
    BY <1>5 DEF Fork, At, LockInv, LockOK
  <2> QED  BY <1>1, <1>2, <1>5, <2>1 DEF Fork, At
<1>6. ASSUME NEW p \in Slot, Reparent(p) PROVE FALSE
  <2>1. PICK c \in Slot : parent[c] = p /\ parent' = [parent EXCEPT ![c] = initproc]
    <3>1. First(Children(p)) \in Children(p)
      BY <1>6, FirstIn DEF Reparent, Children
    <3> QED  BY <1>6, <3>1 DEF Reparent, Children
  <2>2. c # initproc
    BY <2>1, Indices DEF HolderInv, OrphanOK
  <2> QED  BY <1>4, <2>1, <2>2
<1>7. ASSUME NEW p \in Slot, ScanChild(p) PROVE FALSE
  BY <1>1, <1>3, <1>7 DEF ScanChild, At, table
<1>8. ASSUME NEW p \in Slot, Inside(p) PROVE FALSE
  <2>1. CASE ReadParent(p) \/ LockParent(p) \/ LockSelf(p) \/ Zombie(p) \/ Gone(p)
             \/ ScanOther(p)
    BY <1>1, <2>1 DEF ReadParent, LockParent, LockSelf, Zombie, Gone, ScanOther, table
  <2>2. CASE EndScan(p) \/ Test(p) \/ Sleep(p) \/ Relock(p) \/ Wakeup(p)
    BY <1>1, <2>2 DEF EndScan, Test, Sleep, Relock, Wakeup, table
  <2> QED  BY <1>5, <1>6, <1>7, <1>8, <2>1, <2>2 DEF Inside
<1>9. ASSUME NEW p \in Slot, Call(p) PROVE FALSE
  BY <1>1, <1>9 DEF Call, Yield, AllocProc, Exit, Wait, Consume, Produce, Kill, table
<1>10. CASE UNCHANGED vars
  BY <1>1, <1>10 DEF vars
<1>11. ASSUME NEW p \in Slot, Schedule(p) PROVE FALSE
  BY <1>1, <1>11 DEF Schedule
<1> QED  BY <1>8, <1>9, <1>10, <1>11 DEF Next

\* What a process in a circle, whose members all have the parent they have locked,
\* waits for: at the end a process that holds a lock of the process table.
Holds(p) == pc[p] \in {"lockself", "reparent", "scan"}

\* The holder of a lock that somebody in such a circle waits for.
LEMMA HolderInCircle ==
    ASSUME TypeOK, HolderInv, NEW S \in SUBSET Slot, Circle(S),
           \A p \in S : ~GivenAway(p),
           NEW x \in Slot, lock[x] \in S
    PROVE  LET h == lock[x]
           IN  /\ Holds(h)
               /\ \/ pc[h] \in {"lockself", "reparent"} /\ parent[h] = x
                  \/ h = x /\ pc[h] \in {"scan", "reparent"}
<1> DEFINE h == lock[x]
<1>1. Blocker(h) # None /\ h # None
  BY Indices DEF Circle
<1>2. pc[h] \notin {"fork", "gone"}
  BY <1>1 DEF Blocker
<1>3. ~GivenAway(h)
  OBVIOUS
<1> QED  BY <1>1, <1>2, <1>3 DEF HolderInv, HolderOK, GivenAway, Holds

\* The locks that processes wait for, and whose they are.
LEMMA BlockerCases ==
    ASSUME TypeOK, LockInv, HolderInv, NEW p \in Slot, Blocker(p) \in Slot
    PROVE  \/ pc[p] = "relock" /\ Blocker(p) = lk
           \/ \E x \in Slot :
                 /\ Blocker(p) = lock[x]
                 /\ pc[p] = "lockself" => x = p
                 /\ pc[p] \in {"reparent", "scan"} => parent[x] = p
<1> USE Indices
<1>1. CASE pc[p] \in {"parent", "lockself", "tosleep"}
  BY <1>1 DEF Blocker
<1>2. CASE pc[p] = "lockparent"
  BY <1>2 DEF Blocker, LockInv, LockOK
<1>3. CASE pc[p] = "reparent"
  <2>1. Children(p) # {} /\ Blocker(p) = lock[First(Children(p))]
    BY <1>3 DEF Blocker
  <2>2. First(Children(p)) \in Children(p)
    BY <2>1, FirstIn DEF Children
  <2> QED  BY <1>3, <2>1, <2>2 DEF Children
<1>4. CASE pc[p] = "scan"
  <2>1. other[p] \in Children(p) /\ Blocker(p) = lock[other[p]]
    BY <1>4 DEF Blocker
  <2> QED  BY <1>4, <2>1 DEF Children
<1>5. CASE pc[p] = "wakeup"
  BY <1>5 DEF Blocker
<1>6. CASE pc[p] = "relock"
  BY <1>6 DEF Blocker
<1> QED  BY <1>1, <1>2, <1>3, <1>4, <1>5, <1>6 DEF Blocker

\* A circle without a process that was given away would be one of parents and
\* children: each member that holds a lock waits for a child or for a child's child.
LEMMA NoCircle == TypeOK /\ LockInv /\ HolderInv /\ Tree => NoCircularWait
<1> SUFFICES ASSUME TypeOK, LockInv, HolderInv, Tree, NEW S \in SUBSET Slot, Circle(S),
                    \A p \in S : ~GivenAway(p)
             PROVE FALSE
  BY DEF NoCircularWait
<1> DEFINE D == {p \in S : Holds(p)}
           M == {x \in Slot : \E h \in D : parent[h] = x}
           Grand == {x \in M : parent[x] \in D}
           U == D \cup Grand
<1>1. \A p \in S : Blocker(p) \in S
  BY DEF Circle
<1>2. ASSUME NEW p \in S, NEW x \in Slot, Blocker(p) = lock[x]
      PROVE  /\ lock[x] \in D
             /\ \/ pc[lock[x]] \in {"lockself", "reparent"} /\ parent[lock[x]] = x
                \/ lock[x] = x /\ pc[x] \in {"scan", "reparent"}
  <2>1. lock[x] \in S
    BY <1>1, <1>2
  <2> QED  BY <2>1, HolderInCircle
<1>3. D # {}
  <2>1. PICK p \in S : TRUE
    BY DEF Circle
  <2>2. CASE pc[p] # "relock"
    BY <1>1, <1>2, <2>2, BlockerCases
  <2>3. CASE pc[p] = "relock"
    <3>1. Blocker(p) \in S
      BY <1>1
    <3>2. lk \in S /\ lk # None
      BY <2>3, <3>1, Indices DEF Blocker
    <3>3. pc[lk] # "relock"
      BY <3>2 DEF HolderInv, EventHolderOK
    <3> QED  BY <1>1, <1>2, <3>2, <3>3, BlockerCases
  <2> QED  BY <2>2, <2>3
<1>4. \A p \in D : \E q \in U : parent[q] = p
  <2> SUFFICES ASSUME NEW p \in D PROVE \E q \in U : parent[q] = p
    OBVIOUS
  <2>0. p \in S /\ Holds(p)
    OBVIOUS
  <2>1. PICK x \in Slot : /\ Blocker(p) = lock[x]
                          /\ pc[p] = "lockself" => x = p
                          /\ pc[p] \in {"reparent", "scan"} => parent[x] = p
    <3>1. Blocker(p) \in Slot
      BY <1>1
    <3> QED  BY <2>0, <3>1, BlockerCases DEF Holds
  <2>2. /\ lock[x] \in D
        /\ \/ pc[lock[x]] \in {"lockself", "reparent"} /\ parent[lock[x]] = x
           \/ lock[x] = x /\ pc[x] \in {"scan", "reparent"}
    BY <1>2, <2>0, <2>1
  <2>3. CASE pc[p] = "lockself"
    BY <2>1, <2>2, <2>3
  <2>4. CASE pc[p] \in {"reparent", "scan"}
    <3>1. parent[x] = p
      BY <2>1, <2>4
    <3>2. CASE lock[x] = x
      BY <2>2, <3>1, <3>2
    <3>3. CASE parent[lock[x]] = x
      BY <2>2, <3>1, <3>3
    <3> QED  BY <2>2, <3>2, <3>3
  <2> QED  BY <2>0, <2>3, <2>4 DEF Holds
<1>5. \A p \in Grand : \E q \in U : parent[q] = p
  OBVIOUS
<1>6. U \in SUBSET Slot /\ U # {}
  BY <1>3
<1>7. PICK p \in U : \A q \in U : parent[q] # p
  <2> HIDE DEF U
  <2> QED  BY <1>6 DEF Tree
<1> QED  BY <1>4, <1>5, <1>7

\* Processes in exit(), wait(), sleep() and wakeup() do not wait for each other's
\* spinlocks in a circle, in a table of any size, unless one of them is in exit()
\* with the lock of a slot that was its parent's.
THEOREM NoCircles == Spec => []NoCircularWait
<1>1. Init => EventInv /\ HolderInv
  BY Indices DEF Init, EventInv, EventOK, HolderInv, HolderOK, EventHolderOK, OrphanOK,
                 initproc
<1>2. Init => Tree
  <2> SUFFICES ASSUME Init, NEW S \in SUBSET Slot, S # {},
                      \A p \in S : \E q \in S : parent[q] = p
               PROVE FALSE
    BY DEF Tree
  <2>1. \A q \in Slot : parent[q] = initproc => q = 2
    BY Indices DEF Init
  <2>2. \A q \in Slot : parent[q] \in Slot => parent[q] = initproc
    BY Indices DEF Init
  <2>3. initproc # 2
    BY DEF initproc
  <2> QED  BY <2>1, <2>2, <2>3
<1>3. IInv /\ EventInv /\ HolderInv /\ Tree /\ [Next]_vars => EventInv' /\ HolderInv' /\ Tree'
  BY EventStep, HolderStep, TreeStep DEF IInv
<1>4. IInv /\ HolderInv /\ Tree => NoCircularWait
  BY NoCircle DEF IInv
<1> QED  BY <1>1, <1>2, <1>3, <1>4, Invariance, PTL DEF Spec
=============================================================================
