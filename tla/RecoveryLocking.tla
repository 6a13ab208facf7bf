--------------------------- MODULE RecoveryLocking ---------------------------
(***************************************************************************)
(* The recovery-locking mechanism of Ev6 (kernel/recovery_locking.c).      *)
(*                                                                         *)
(* Every kernel path that touches a recoverable object brackets the access *)
(* with enter/exit_recovery_critical_section ("R.C.S.").  A recovery       *)
(* handler takes the object's recovery lock, looks at the number of        *)
(* processes inside, replaces the broken object, takes the victim out of   *)
(* all its sections and releases the lock.                                 *)
(*                                                                         *)
(* A process executes a path: a sequence of operations on sections.  The   *)
(* paths of the system calls and of the recovery handlers are parameters   *)
(* (module RcsPaths transcribes them from the callers).  An uncorrectable  *)
(* memory error (an NMI) may hit at any access of an object; the process   *)
(* it hits becomes the recovery process, or waits in the NMI Queue when    *)
(* there is one already (module NmiQueue has the queue in detail).         *)
(***************************************************************************)
EXTENDS Integers, Sequences, FiniteSets

CONSTANTS
    Proc,         \* process identifiers (pids, 1 is the first one)
    Flag,         \* recovery-locking flags, 0 included
    Paths,        \* what a process may execute: sequences of operations
    Handlers,     \* Handlers[f]: the paths of the handler of object f
    Broken,       \* the objects that memory errors hit
    HistorySize,  \* RCS_INFO_HISTORY_SIZE
    MaxNmi,       \* bound: the number of memory errors in a behaviour
    MaxCalls      \* bound: the number of paths started in a behaviour

NoProc == 0           \* no process (pid 0 is never allocated)
ICACHE_FORK == 2      \* exception code passed by fork()

OpName == {"enter", "node", "exit", "use",
           "rlock", "rcommit", "rcount", "rnocount", "rwait", "repair", "rexit",
           "runlock", "rwakeup", "rdone"}

\* An operation; exc is the exception argument: "0", "fork" or the own "pid".
Operation == [op : OpName, flag : Flag, exc : {"0", "fork", "pid"}]

ASSUME ProcAssumption == Proc \subseteq Nat \ {NoProc}
ASSUME FlagAssumption == Flag \subseteq Nat /\ 0 \in Flag
ASSUME PathAssumption ==
    /\ \A s \in Paths : s \in Seq(Operation)
    /\ \A f \in Flag : \A s \in Handlers[f] : s \in Seq(Operation)
ASSUME SizeAssumption == HistorySize \in Nat /\ MaxNmi \in Nat /\ MaxCalls \in Nat

VARIABLES
    num,        \* recovery_locks[f].num
    exception,  \* recovery_locks[f].exception: 0, ICACHE_FORK or a pid
    rlock,      \* holder of recovery_locks[f].lock, the recovery lock
    lk,         \* holder of recovery_locks[f].lk, the lock that guards num
    history,    \* rcs_infos[p].history_idx without its zero slots
    path,       \* what p still has to execute
    at,         \* where p is inside enter, exit or the NMI handler
    queue,      \* the NMI Queue: victims in order of arrival
    tracker,    \* the process that runs mlist_tracker, or NoProc
    gen,        \* how often object f was replaced
    halted,     \* TRUE after panic or Fail-Stop
    nmis,       \* number of memory errors so far
    calls,      \* number of paths started so far
    depth,      \* ghost: how often p is really inside f
    late        \* ghost: who entered f since its recovery lock was taken

vars == <<num, exception, rlock, lk, history, path, at, queue, tracker, gen,
          halted, nmis, calls, depth, late>>
locks == <<num, exception, rlock, lk>>
nmiVars == <<queue, tracker, gen, nmis, calls>>
ghosts == <<depth, late>>

Stage == {"ready",      \* about to execute the head of its path
          "test",       \* in enter, holds lk, about to look at the recovery lock
          "sleep",      \* saw it taken, about to call sleep()
          "asleep",     \* in sleep() on the recovery lock
          "woken",      \* runnable again, has to re-acquire lk
          "admit",      \* saw it free, about to increment num
          "record",     \* about to add the section to its history
          "unrecord",   \* left, about to delete the section from its history
          "nmi"}        \* in the NMI Queue, behind the recovery process

Entry == [pid : Proc, flag : Flag, gen : Nat]

TypeOK ==
    /\ num \in [Flag -> Int]
    /\ exception \in [Flag -> Nat]
    /\ rlock \in [Flag -> Proc \cup {NoProc}]
    /\ lk \in [Flag -> Proc \cup {NoProc}]
    /\ history \in [Proc -> Seq(Flag)]
    /\ \A p \in Proc : Len(history[p]) <= HistorySize   \* history_idx[]
    /\ path \in [Proc -> Seq(Operation)]
    /\ at \in [Proc -> Stage]
    /\ queue \in Seq(Entry)
    /\ tracker \in Proc \cup {NoProc}
    /\ gen \in [Flag -> Nat]
    /\ halted \in BOOLEAN
    /\ nmis \in Nat /\ calls \in Nat
    /\ depth \in [Proc -> [Flag -> Nat]]
    /\ late \in [Flag -> SUBSET Proc]

\* Everything but the calls that the processes are in.
InitLocks ==
    /\ num = [f \in Flag |-> 0]
    /\ exception = [f \in Flag |-> 0]
    /\ rlock = [f \in Flag |-> NoProc]
    /\ lk = [f \in Flag |-> NoProc]
    /\ history = [p \in Proc |-> <<>>]
    /\ at = [p \in Proc |-> "ready"]
    /\ queue = <<>>
    /\ tracker = NoProc
    /\ gen = [f \in Flag |-> 0]
    /\ halted = FALSE
    /\ nmis = 0 /\ calls = 0
    /\ depth = [p \in Proc |-> [f \in Flag |-> 0]]
    /\ late = [f \in Flag |-> {}]

Init == InitLocks /\ path = [p \in Proc |-> <<>>]

-----------------------------------------------------------------------------
(* The history of a process: history_idx holds its flags in front and zeros *)
(* behind, so it is a sequence of at most HistorySize flags.                *)

\* Mutant: no check for a free slot.
AddHistory_nobound(h, f) == Append(h, f)

\* add_rcs_history: the first zero slot; dropped when there is none.
AddHistory(h, f) == IF Len(h) < HistorySize THEN Append(h, f) ELSE h

Without(h, i) == SubSeq(h, 1, i - 1) \o SubSeq(h, i + 1, Len(h))

\* Mutant: the slot is not emptied.
DelHistory_keep(h, f) == h

\* del_rcs_history: the last slot with the flag is emptied and the slots
\* behind it move up.  Without such a slot a full history loses its last one:
\* the compaction loop runs to the end and the slot it stops at is zeroed.
DelHistory(h, f) ==
    LET slots == {i \in 1..Len(h) : h[i] = f}
    IN  IF slots # {}
        THEN Without(h, CHOOSE i \in slots : \A j \in slots : j <= i)
        ELSE IF Len(h) = HistorySize THEN SubSeq(h, 1, Len(h) - 1) ELSE h

\* How many slots hold f; the empty slots hold 0.
Slots(h, f) == IF f = 0 THEN HistorySize - Len(h)
                        ELSE Cardinality({i \in 1..Len(h) : h[i] = f})

InHistory(p, f) == \E i \in 1..Len(history[p]) : history[p][i] = f

-----------------------------------------------------------------------------
Cur(p) == Head(path[p])
F(p) == Cur(p).flag

\* The exception argument as the int the code passes.
Exc(p) == CASE Cur(p).exc = "0"    -> 0
            [] Cur(p).exc = "fork" -> ICACHE_FORK
            [] Cur(p).exc = "pid"  -> p

Running(p) == ~halted /\ path[p] # <<>>
Doing(p, o) == Running(p) /\ at[p] = "ready" /\ Cur(p).op = o
In(p, stage) == Running(p) /\ at[p] = stage

Advance(p) == path' = [path EXCEPT ![p] = Tail(@)]
Goto(p, stage) == at' = [at EXCEPT ![p] = stage]
Halt == halted' = TRUE

-----------------------------------------------------------------------------
(* A process of the kernel. *)

\* A process starts one of the paths (a system call, an interrupt handler).
Call(p) ==
    /\ ~halted /\ path[p] = <<>> /\ at[p] = "ready" /\ calls < MaxCalls
    /\ calls' = calls + 1
    /\ \E s \in Paths : path' = [path EXCEPT ![p] = s]
    /\ UNCHANGED <<locks, history, at, queue, tracker, gen, nmis, halted, ghosts>>

\* enter_recovery_critical_section_nodes: a node under recovery is not waited
\* for, the system stops; otherwise continue as in enter.
EnterNode(p) ==
    /\ Doing(p, "node")
    /\ IF rlock[F(p)] \notin {NoProc, p}
       THEN Halt /\ UNCHANGED path
       ELSE /\ path' = [path EXCEPT ![p] =
                          <<[Head(@) EXCEPT !.op = "enter"]>> \o Tail(@)]
            /\ UNCHANGED halted
    /\ UNCHANGED <<locks, history, at, nmiVars, ghosts>>

\* Mutant: lk is not acquired.
EnterBegin_nolk(p) ==
    /\ Doing(p, "enter")
    /\ lk' = [lk EXCEPT ![F(p)] = p]
    /\ Goto(p, "test")
    /\ UNCHANGED <<num, exception, rlock, history, path, nmiVars, halted, ghosts>>

\* enter_recovery_critical_section, up to acquire(&rlk->lk); the holder of
\* the recovery lock goes straight to the history.
EnterBegin(p) ==
    /\ Doing(p, "enter")
    /\ IF rlock[F(p)] = p
       THEN /\ Goto(p, "record")
            /\ depth' = [depth EXCEPT ![p][F(p)] = @ + 1]
            /\ UNCHANGED lk
       ELSE /\ lk[F(p)] = NoProc
            /\ lk' = [lk EXCEPT ![F(p)] = p]
            /\ Goto(p, "test")
            /\ UNCHANGED depth
    /\ UNCHANGED <<num, exception, rlock, history, path, nmiVars, halted, late>>

\* while(locking(&rlk->lock)): the recovery lock is read without holding it.
EnterTest(p) ==
    /\ In(p, "test")
    /\ IF rlock[F(p)] = NoProc
       THEN Goto(p, "admit") /\ UNCHANGED halted
       ELSE IF Exc(p) = ICACHE_FORK
            THEN Halt /\ UNCHANGED at
            ELSE Goto(p, "sleep") /\ UNCHANGED halted
    /\ UNCHANGED <<locks, history, path, nmiVars, ghosts>>

\* sleep(rlk, &rlk->lk): lk is released, the process sleeps.
EnterSleep(p) ==
    /\ In(p, "sleep")
    /\ lk' = [lk EXCEPT ![F(p)] = NoProc]
    /\ Goto(p, "asleep")
    /\ UNCHANGED <<num, exception, rlock, history, path, nmiVars, halted, ghosts>>

\* sleep() returns with lk re-acquired, and the loop tests again.
EnterWoken(p) ==
    /\ In(p, "woken") /\ lk[F(p)] = NoProc
    /\ lk' = [lk EXCEPT ![F(p)] = p]
    /\ Goto(p, "test")
    /\ UNCHANGED <<num, exception, rlock, history, path, nmiVars, halted, ghosts>>

\* num is incremented, the exception noted, lk released.
EnterAdmit(p) ==
    /\ In(p, "admit")
    /\ num' = [num EXCEPT ![F(p)] = @ + 1]
    /\ exception' = [exception EXCEPT ![F(p)] = IF Exc(p) # 0 THEN Exc(p) ELSE @]
    /\ lk' = [lk EXCEPT ![F(p)] = NoProc]
    /\ Goto(p, "record")
    /\ depth' = [depth EXCEPT ![p][F(p)] = @ + 1]
    /\ late' = [late EXCEPT ![F(p)] = IF rlock[F(p)] # NoProc THEN @ \cup {p} ELSE @]
    /\ UNCHANGED <<rlock, history, path, nmiVars, halted>>

EnterRecord(p) ==
    /\ In(p, "record")
    /\ history' = [history EXCEPT ![p] = AddHistory(@, F(p))]
    /\ Goto(p, "ready")
    /\ Advance(p)
    /\ UNCHANGED <<locks, nmiVars, halted, ghosts>>

\* exit_recovery_critical_section under lk: num is decremented even for a
\* process that did not increment it.
Exit(p) ==
    /\ Doing(p, "exit") /\ lk[F(p)] = NoProc
    /\ num' = [num EXCEPT ![F(p)] = @ - 1]
    /\ exception' = [exception EXCEPT ![F(p)] = IF @ = Exc(p) THEN 0 ELSE @]
    /\ Goto(p, "unrecord")
    /\ depth' = [depth EXCEPT ![p][F(p)] = IF @ > 0 THEN @ - 1 ELSE @]
    /\ UNCHANGED <<rlock, lk, history, path, nmiVars, halted, late>>

ExitRecord(p) ==
    /\ In(p, "unrecord")
    /\ history' = [history EXCEPT ![p] = DelHistory(@, F(p))]
    /\ Goto(p, "ready")
    /\ Advance(p)
    /\ UNCHANGED <<locks, nmiVars, halted, ghosts>>

\* An access of the object that meets no memory error.
Use(p) ==
    /\ Doing(p, "use")
    /\ Advance(p)
    /\ UNCHANGED <<locks, history, at, nmiVars, halted, ghosts>>

-----------------------------------------------------------------------------
(* Recovery. *)

\* The access of the object raises the NMI.  The first victim becomes the
\* recovery process and runs the object's handler in place of its call; the
\* others wait in the queue.
Nmi(p) ==
    /\ Doing(p, "use") /\ F(p) \in Broken /\ nmis < MaxNmi /\ tracker # p
    /\ nmis' = nmis + 1
    /\ queue' = Append(queue, [pid |-> p, flag |-> F(p), gen |-> gen[F(p)]])
    /\ IF tracker = NoProc
       THEN /\ tracker' = p
            /\ \E s \in Handlers[F(p)] : path' = [path EXCEPT ![p] = s]
            /\ UNCHANGED at
       ELSE Goto(p, "nmi") /\ UNCHANGED <<tracker, path>>
    /\ UNCHANGED <<locks, history, gen, calls, halted, ghosts>>

Victim == Head(queue).pid

\* An operation of a recovery handler: only the recovery process executes
\* them, on behalf of the victim at the head of the queue.
Recovering(p, o) == Doing(p, o) /\ tracker = p /\ queue # <<>>

\* acquire_recovery_lock: lk is not taken.
AcquireRecoveryLock(p) ==
    /\ Recovering(p, "rlock") /\ rlock[F(p)] = NoProc
    /\ rlock' = [rlock EXCEPT ![F(p)] = p]
    /\ late' = [late EXCEPT ![F(p)] = {}]
    /\ Advance(p)
    /\ UNCHANGED <<num, exception, lk, history, at, nmiVars, halted, depth>>

\* while(check_proc_in_log_commit(pid)): passes when no commit is noted or
\* when it is the victim's own; a negative count stops the system.
WaitCommit(p) ==
    /\ Recovering(p, "rcommit")
    /\ IF exception[F(p)] = Victim
       THEN /\ lk[F(p)] = NoProc
            /\ exception' = [exception EXCEPT ![F(p)] = 0]
            /\ Advance(p) /\ UNCHANGED halted
       ELSE IF num[F(p)] >= 0
            THEN exception[F(p)] = 0 /\ Advance(p) /\ UNCHANGED <<exception, halted>>
            ELSE Halt /\ UNCHANGED <<exception, path>>
    /\ UNCHANGED <<num, rlock, lk, history, at, nmiVars, ghosts>>

\* Mutant: one process too many is tolerated.
CountProcs_two(p) ==
    /\ Recovering(p, "rcount")
    /\ IF num[F(p)] > 2 THEN Halt /\ UNCHANGED path
                        ELSE Advance(p) /\ UNCHANGED halted
    /\ UNCHANGED <<locks, history, at, nmiVars, ghosts>>

\* check_and_count_procs_in_rcs(flag) > 1 is FAIL_STOP; num is read without lk.
CountProcs(p) ==
    /\ Recovering(p, "rcount")
    /\ IF num[F(p)] > 1 THEN Halt /\ UNCHANGED path
                        ELSE Advance(p) /\ UNCHANGED halted
    /\ UNCHANGED <<locks, history, at, nmiVars, ghosts>>

\* check_and_count_procs_in_rcs(RL_FLAG_FILE, b_fp) with a b_fp that is not
\* in the index: search_recovery_idx returns -1 and the count is whatever lies
\* in front of recovery_locks[].
CountOutOfBounds(p) ==
    /\ Recovering(p, "rnocount")
    /\ \/ Halt /\ UNCHANGED path
       \/ Advance(p) /\ UNCHANGED halted
    /\ UNCHANGED <<locks, history, at, nmiVars, ghosts>>

WaitingInQueue(f) == Cardinality({i \in 1..Len(queue) : InHistory(queue[i].pid, f)})

\* Mutant: the busy-wait tolerates one process that is not in the queue.
WaitGiant_early(p) ==
    /\ Recovering(p, "rwait")
    /\ num[F(p)] - WaitingInQueue(F(p)) <= 1
    /\ Advance(p)
    /\ UNCHANGED <<locks, history, at, nmiVars, halted, ghosts>>

\* check_and_wait_procs_in_rcs_file: busy-wait until everyone inside the
\* giant section is in the NMI Queue.
WaitGiant(p) ==
    /\ Recovering(p, "rwait")
    /\ num[F(p)] - WaitingInQueue(F(p)) = 0
    /\ Advance(p)
    /\ UNCHANGED <<locks, history, at, nmiVars, halted, ghosts>>

\* Internal Surgery: the broken object is replaced by a new one.
Repair(p) ==
    /\ Recovering(p, "repair")
    /\ gen' = [gen EXCEPT ![F(p)] = @ + 1]
    /\ Advance(p)
    /\ UNCHANGED <<locks, history, at, queue, tracker, nmis, calls, halted, ghosts>>

\* exit_rcs_after_recovery(pid): one decrement for every slot of the victim's
\* history; the empty slots decrement the count of flag 0.
ExitAll(p) ==
    /\ Recovering(p, "rexit")
    /\ \A i \in 1..Len(history[Victim]) : lk[history[Victim][i]] = NoProc
    /\ num' = [f \in Flag |-> num[f] - Slots(history[Victim], f)]
    /\ history' = [history EXCEPT ![Victim] = <<>>]
    /\ depth' = [depth EXCEPT ![Victim] = [f \in Flag |-> 0]]
    /\ Advance(p)
    /\ UNCHANGED <<exception, rlock, lk, at, nmiVars, halted, late>>

\* release_recovery_lock: release, then wakeup, both without lk.
ReleaseRecoveryLock(p) ==
    /\ Recovering(p, "runlock")
    /\ rlock' = [rlock EXCEPT ![F(p)] = NoProc]
    /\ late' = [late EXCEPT ![F(p)] = {}]
    /\ Advance(p)
    /\ UNCHANGED <<num, exception, lk, history, at, nmiVars, halted, depth>>

WakeWaiters(p) ==
    /\ Recovering(p, "rwakeup")
    /\ at' = [q \in Proc |-> IF at[q] = "asleep" /\ F(q) = F(p) THEN "woken" ELSE at[q]]
    /\ Advance(p)
    /\ UNCHANGED <<locks, history, nmiVars, halted, ghosts>>

\* Mutant: the tracker does not continue with the next victim.
NextHandler_none(e) == {<<>>}

\* The handler of the next victim; nothing is done for an object that was
\* replaced since the victim's access ("already recovered").
NextHandler(e) == IF e.gen = gen[e.flag]
                  THEN Handlers[e.flag]
                  ELSE {<<[op |-> "rdone", flag |-> e.flag, exc |-> "0"]>>}

\* recovery_success in mlist_tracker: the victim's call is over; the recovery
\* process turns to the next victim or, when the queue is empty, ends too.
Done(p) ==
    /\ Recovering(p, "rdone")
    /\ queue' = Tail(queue)
    /\ depth' = [depth EXCEPT ![Victim] = [f \in Flag |-> 0]]
    /\ at' = [at EXCEPT ![Victim] = "ready"]
    /\ IF Tail(queue) = <<>>
       THEN /\ tracker' = NoProc
            /\ path' = [path EXCEPT ![Victim] = <<>>, ![p] = <<>>]
       ELSE /\ UNCHANGED tracker
            /\ \E s \in NextHandler(Head(Tail(queue))) :
                  path' = [path EXCEPT ![Victim] = <<>>, ![p] = s]
    /\ UNCHANGED <<locks, history, gen, halted, nmis, calls, late>>

-----------------------------------------------------------------------------
Enter(p) == \/ EnterNode(p) \/ EnterBegin(p) \/ EnterTest(p) \/ EnterSleep(p)
            \/ EnterWoken(p) \/ EnterAdmit(p) \/ EnterRecord(p)

Leave(p) == Exit(p) \/ ExitRecord(p)

Recover(p) == \/ AcquireRecoveryLock(p) \/ WaitCommit(p) \/ CountProcs(p)
              \/ CountOutOfBounds(p) \/ WaitGiant(p) \/ Repair(p) \/ ExitAll(p)
              \/ ReleaseRecoveryLock(p) \/ WakeWaiters(p) \/ Done(p)

Step(p) == Enter(p) \/ Leave(p) \/ Use(p) \/ Recover(p)

Next == \E p \in Proc : Call(p) \/ Step(p) \/ Nmi(p)

\* A process that can take a step of its path takes one: every hart runs the
\* scheduler's round robin over the runnable processes, and the timer
\* interrupt takes the CPU back.  Nobody has to start a call, and no memory
\* error has to occur.  The spinlock lk is not fair; MaxCalls bounds how
\* often it can be taken by others, so that weak fairness is enough.
Fairness == \A p \in Proc : WF_vars(Step(p))

Spec == Init /\ [][Next]_vars
FairSpec == Spec /\ Fairness

-----------------------------------------------------------------------------
(* Properties. *)

\* Where a process holds lk: between its acquisition in enter and its release.
HoldsLk(p) == at[p] \in {"test", "sleep", "admit"}

\* lk serialises the inspection: whoever is between acquire(&rlk->lk) and
\* release(&rlk->lk) in enter_recovery_critical_section holds it.
LkInv == \A p \in Proc : HoldsLk(p) => path[p] # <<>> /\ lk[F(p)] = p

\* Who has passed the inspection of f but is not counted yet.
Admitted(f) == {p \in Proc : at[p] = "admit" /\ F(p) = f}

\* Who got into f, or is about to, while its recovery lock is taken.
LateInv ==
    \A f \in Flag :
        IF rlock[f] = NoProc THEN late[f] = {}
        ELSE \A p, q \in late[f] \cup Admitted(f) : p = q

\* The inductive invariant behind OneIntruder.
IInv == TypeOK /\ LkInv /\ LateInv

Holders(f) == {q \in Proc : depth[q][f] > 0}

\* The recovery process has seen the count of f and is replacing the object.
Repairing(f) == /\ ~halted /\ tracker # NoProc /\ queue # <<>>
                /\ path[tracker] # <<>>
                /\ Cur(tracker).op = "repair" /\ F(tracker) = f
                /\ rlock[f] = tracker

\* Processes inside f, each as often as it entered.
Visits(f) == UNION {{p} \X (1..depth[p][f]) : p \in Proc}

\* Once recovery_locks[f].lock is taken, at most one process still gets into
\* the section: the one that had looked at the lock before and holds lk.
\* Everybody else is caught by the while loop of enter_recovery_critical_section.
OneIntruder == \A f \in Flag : \A p, q \in late[f] : p = q

\* The count a handler reads is never smaller than the number of processes
\* that are really inside the section (each nested entry counted), whatever
\* recoveries took processes out of it: a handler is never told that it is
\* alone when a process has been inside since before.
NoUndercount == \A f \in Flag \ {0} : num[f] >= Cardinality(Visits(f))

\* The objects whose handlers count the processes inside.
Counted == {f \in Broken : \A s \in Handlers[f] : \E i \in DOMAIN s : s[i].op = "rcount"}

\* While a counted object is replaced, everybody else inside its section
\* entered after the recovery lock was taken: the Fail-Stop check of the
\* handlers ("processes are in Recovery-locking Critical Section already")
\* lets no older visitor through.
OnlyLateEntrants ==
    \A f \in Counted : Repairing(f) => Holders(f) \ {Victim} \subseteq late[f]

\* While a file is replaced (and with it the whole table), everybody inside
\* the giant section g is a victim in the NMI Queue or entered after g's
\* recovery lock was taken: the busy-wait of check_and_wait_procs_in_rcs_file
\* does not end too early.
GiantDrained(g, node) ==
    Repairing(node) =>
        \A p \in Holders(g) : p \in late[g] \/ \E i \in 1..Len(queue) : queue[i].pid = p

\* While the object is replaced nobody but the victim is inside its section.
SurgeryExclusion == \A f \in Broken : Repairing(f) => Holders(f) \subseteq {Victim}

\* Every recovery comes to an end: the queue empties or the system stops.
RecoveryCompletes == (queue # <<>>) ~> (queue = <<>> \/ halted)
=============================================================================
