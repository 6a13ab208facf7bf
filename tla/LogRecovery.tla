----------------------------- MODULE LogRecovery -----------------------------
(***************************************************************************)
(* Recovery of struct log after a memory error (recovery_handler_log.c):   *)
(* the log of module Log, in which an access of struct log may fail.  The  *)
(* handler rebuilds struct log from its replicas, gives up the victim's    *)
(* system call and commits when no call is left.  Conservative mode, one   *)
(* victim at a time; that the handler is alone is what module              *)
(* RecoveryLocking is about, here the section of the log is a guard.       *)
(***************************************************************************)
EXTENDS Log

CONSTANTS
    NoProc,
    HitPoints,  \* where the accesses that fail are
    MaxHit      \* bound: the number of memory errors in a behaviour

ASSUME NoProcAssumption == NoProc \notin Proc /\ MaxHit \in Nat

VARIABLES
    victim,     \* the process whose access failed, or NoProc
    locked,     \* the handler holds the recovery lock of the log
    hits        \* number of memory errors so far

recVars == <<victim, locked, hits>>
allVars == <<vars, recVars>>

RecInit == Init /\ victim = NoProc /\ locked = FALSE /\ hits = 0

-----------------------------------------------------------------------------
(* Accesses of struct log that fail. *)

Hit(p, point) ==
    /\ point \in HitPoints /\ hits < MaxHit /\ victim = NoProc
    /\ victim' = p
    /\ hits' = hits + 1
    /\ Goto(p, "hit")
    /\ UNCHANGED <<onDisk, buffers, header, committing, tail, written, boot, halted, bounds,
                   locked>>

\* begin_op looks at committing, lh.n and outstanding ...
HitBegin(p) == (At(p, "begin") \/ At(p, "woken")) /\ Hit(p, "begin") /\ UNCHANGED counts

\* ... and releases log->lock with both counters incremented.
HitBegun(p) ==
    /\ (At(p, "begin") \/ At(p, "woken")) /\ ~committing /\ ~NoSpace
    /\ outstanding' = outstanding + 1
    /\ dup_outstanding' = dup_outstanding + 1
    /\ Hit(p, "begun")

\* end_op acquires log->lock and decrements outstanding ...
HitEnd(p) == At(p, "op") /\ Hit(p, "end") /\ UNCHANGED counts

\* ... and looks at it again with both counters decremented.
HitEnded(p) ==
    /\ At(p, "op")
    /\ outstanding' = outstanding - 1
    /\ dup_outstanding' = dup_outstanding - 1
    /\ Hit(p, "ended")

\* commit() reads lh.n and lh.block[tail] ...
HitCommit(p) ==
    (\E l \in CommitPc \ {"erase"} : At(p, l)) /\ Hit(p, "commit") /\ UNCHANGED counts

\* ... and the second write_head reads lh.n after both headers were emptied.
HitErase(p) == At(p, "erase") /\ Hit(p, "erase") /\ UNCHANGED counts

\* The last part of end_op sets committing.
HitFinish(p) == At(p, "finish") /\ Hit(p, "finish") /\ UNCHANGED counts

\* In conservative mode a memory error in log_write, or anywhere in a call of
\* create, sys_write or (in begin_op) fileclose, is a Fail-Stop.
HitFailStop(p) ==
    /\ \E l \in {"begin", "woken", "op", "finish"} \cup CommitPc : At(p, l)
    /\ "write" \in HitPoints /\ hits < MaxHit /\ victim = NoProc
    /\ hits' = hits + 1
    /\ Halt
    /\ UNCHANGED <<onDisk, buffers, header, counts, committing, pc, tail, written, boot,
                   bounds, victim, locked>>

\* mlist_tracker finds that p's error is in an object, not the log, that was
\* recovered already: p's call fails and one call is taken out of the count.
AlreadyRecovered(p) ==
    /\ (At(p, "idle") \/ At(p, "op")) /\ "other" \in HitPoints /\ hits < MaxHit
    /\ victim = NoProc
    /\ hits' = hits + 1
    /\ outstanding' = IF outstanding > 0 THEN outstanding - 1 ELSE outstanding
    /\ Goto(p, "idle")
    /\ UNCHANGED <<onDisk, buffers, header, dup_outstanding, committing, tail, written, boot,
                   halted, bounds, victim, locked>>

-----------------------------------------------------------------------------
(* recovery_handler_log *)

\* acquire_recovery_lock(RL_FLAG_LOG)
LockLog(p) ==
    /\ At(p, "hit") /\ ~locked
    /\ locked' = TRUE
    /\ UNCHANGED <<vars, victim, hits>>

\* while(check_proc_in_log_commit(pid)), then the check of the count.
OthersCommit == \E q \in Proc \ {victim} : pc[q] \in CommitPc
OthersInside == \E q \in Proc \ {victim} : pc[q] \in WaitPc

\* Mutant: the handler waits for those inside, too.
CountLog_wait(p) == At(p, "hit") /\ locked /\ OthersInside /\ UNCHANGED allVars

CountLog(p) ==
    /\ At(p, "hit") /\ locked /\ ~OthersCommit /\ OthersInside
    /\ Halt
    /\ UNCHANGED <<onDisk, buffers, header, counts, committing, pc, tail, written, boot,
                   bounds, recVars>>

\* Mutant: the victim's call is not taken out of the count.
Remaining_keep(n) == n

\* outstanding after the interrupted call was given up; every victim was in
\* begin_op, end_op or log_write.
Remaining(n) == IF n > 0 THEN n - 1 ELSE n

\* The commit if nothing is left, otherwise the end of the handler.
AfterSurgery(p) ==
    /\ IF outstanding' = 0
       THEN /\ committing' = TRUE
            /\ Goto(p, "commit")
            /\ UNCHANGED <<victim, locked>>
       ELSE /\ committing' = FALSE
            /\ Goto(p, "idle")
            /\ victim' = NoProc
            /\ locked' = FALSE

Alone(p) == At(p, "hit") /\ locked /\ ~OthersCommit /\ ~OthersInside

\* Mutant: the logheader is not rebuilt.
Surgery_nolh(p) ==
    /\ Alone(p)
    /\ lh' = <<>> /\ dup_lhdr' = <<>>
    /\ outstanding' = Remaining(dup_outstanding)
    /\ dup_outstanding' = Remaining(dup_outstanding)
    /\ AfterSurgery(p)
    /\ UNCHANGED <<onDisk, buffers, tail, written, boot, halted, bounds, hits>>

\* Mutant: the replica of outstanding keeps counting the victim's call.
Surgery_nodup(p) ==
    /\ Alone(p)
    /\ lh' = dup_lhdr
    /\ outstanding' = Remaining(dup_outstanding)
    /\ AfterSurgery(p)
    /\ UNCHANGED <<onDisk, buffers, dup_lhdr, dup_outstanding, tail, written, boot, halted,
                   bounds, hits>>

\* Internal Surgery from the replicas, then the commit if nothing is left.
Surgery(p) ==
    /\ Alone(p)
    /\ lh' = dup_lhdr
    /\ outstanding' = Remaining(dup_outstanding)
    /\ dup_outstanding' = Remaining(dup_outstanding)
    /\ AfterSurgery(p)
    /\ UNCHANGED <<onDisk, buffers, dup_lhdr, tail, written, boot, halted, bounds, hits>>

\* The handler's commit is over: wakeup, release_recovery_lock, SYSCALL_FAIL.
EndRecovery(p) ==
    /\ Finish(p) /\ victim = p /\ locked
    /\ victim' = NoProc
    /\ locked' = FALSE
    /\ UNCHANGED hits

-----------------------------------------------------------------------------
\* Steps that enter the section of the log wait for the recovery lock.
Entering(p) ==
    /\ ~locked
    /\ \/ BeginOp(p) \/ EndOp(p) \/ EnterCommit(p) \/ Finish(p)
       \/ \E b \in Block, v \in Val : LogWrite(p, b, v)
    /\ UNCHANGED recVars

Inside(p) == CommitStep(p) /\ UNCHANGED recVars

RecCrash == Crash /\ victim' = NoProc /\ locked' = FALSE /\ UNCHANGED hits

Recovery(p) == LockLog(p) \/ CountLog(p) \/ Surgery(p) \/ EndRecovery(p)

Fail(p) == \/ HitBegin(p) \/ HitBegun(p) \/ HitEnd(p) \/ HitEnded(p) \/ HitCommit(p)
           \/ HitErase(p) \/ HitFinish(p) \/ HitFailStop(p) \/ AlreadyRecovered(p)

RecNext ==
    \/ \E p \in Proc : \/ Entering(p) \/ Inside(p) \/ Recovery(p) \/ Fail(p)
                       \/ Call(p) /\ UNCHANGED recVars
    \/ \E b \in Block : RecycleBuf(b) /\ UNCHANGED recVars
    \/ RecCrash
    \/ Boot /\ UNCHANGED recVars

\* As in module Log; a handler that can go on goes on.
RecFairness ==
    /\ WF_allVars(Boot /\ UNCHANGED recVars)
    /\ \A p \in Proc :
         WF_allVars((~locked /\ Step(p) /\ UNCHANGED recVars) \/ Inside(p) \/ Recovery(p))

RecSpec == RecInit /\ [][RecNext]_allVars /\ RecFairness

-----------------------------------------------------------------------------
\* outstanding is "how many FS sys calls are executing", also after the
\* struct log that counted them was lost.
OutstandingExact ==
    victim = NoProc /\ ~halted /\ boot = "up" =>
        outstanding = Cardinality({p \in Proc : pc[p] = "op"})

\* The replicas that the next recovery of struct log starts from agree with it.
ReplicasInSync ==
    victim = NoProc /\ ~halted => lh = dup_lhdr /\ outstanding = dup_outstanding

\* Every recovery of struct log comes to an end, or stops the system.
RecoveryEnds == (victim # NoProc) ~> (victim = NoProc \/ halted)
=============================================================================
