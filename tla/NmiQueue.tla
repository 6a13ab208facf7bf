------------------------------ MODULE NmiQueue ------------------------------
(***************************************************************************)
(* NMI shepherding: how processes that are hit by memory errors at the     *)
(* same time agree on one recovery process (kernel/nmi_handle.c) and how   *)
(* that process serves the others through the NMI Queue (the loop of       *)
(* mlist_tracker, ret_and_search_nmiqueue, cleanup_after_recovery in       *)
(* kernel/mlist_tracker.c).  The recovery handlers themselves are a choice *)
(* of After-Treatment status or Fail-Stop.                                 *)
(*                                                                         *)
(* Every access of the function pointers, of the queue pointer and of the  *)
(* process state is a step; what happens under nmi_queue_lock is one step. *)
(***************************************************************************)
EXTENDS Integers, FiniteSets

CONSTANTS
    Proc,       \* processes (pids)
    Addr,       \* broken addresses
    QueueSize,  \* NMI_QUEUE_SIZE
    MaxNmi      \* bound: the number of memory errors in a behaviour

NoProc == 0
NoAddr == 0

ASSUME ProcAssumption == Proc \subseteq Nat \ {NoProc}
ASSUME AddrAssumption == Addr \subseteq Nat \ {NoAddr}
ASSUME QueueAssumption == QueueSize \in Nat \ {0, 1}
ASSUME BoundAssumption == MaxNmi \in Nat

\* How a victim ends: the five SYSCALL codes are treated alike, and so are the
\* returns to where the victim was, in user space or in the kernel.
Status == {"syscall", "kill", "back"}
None == "none"

VARIABLES
    next,      \* mem_nmi_handle_next
    handler,   \* handler_for_mem_fault
    active,    \* nmi_queue != 0x0
    slots,     \* what nmi_queue points to
    qlock,     \* holder of nmi_queue_lock between steps
    state,     \* p->state, as far as NMIs are concerned
    pc,        \* where p is
    addr,      \* the address p passed to nmi_handle
    res,       \* res of mlist_tracker run by p
    term,      \* terminate_status of mlist_tracker, term_status of follow
    result,    \* ghost: what a handler decided for p's current error
    returned,  \* ghost: the status with which p left its last recovery
    kept,      \* ghost: the shift of a full queue kept its last entry
    halted,    \* panic or Fail-Stop
    nmis       \* number of memory errors so far

vars == <<next, handler, active, slots, qlock, state, pc, addr, res, term,
          result, returned, kept, halted, nmis>>

Slot == 0..QueueSize-1
Entry == [addr : Addr \cup {NoAddr}, pid : Proc \cup {NoProc}, res : Status \cup {None}]
EmptyEntry == [addr |-> NoAddr, pid |-> NoProc, res |-> None]

\* Where the process that owns the queue is, from its creation to its removal.
OwnerPc == {"mark", "rearm", "track", "recover", "report", "await", "shift",
            "cleanup", "clear"}
Pc == {"run", "dead", "check", "arm", "scan", "choose", "dispatch", "first", "queue",
       "follow", "wait", "poll", "take"} \cup OwnerPc

TypeOK ==
    /\ next \in {"first", "follow", "panic"}
    /\ handler \in {"tracker", "panic"}
    /\ active \in BOOLEAN
    /\ slots \in [Slot -> Entry]
    /\ qlock \in Proc \cup {NoProc}
    /\ state \in [Proc -> {"RUNNING", "RECOVERING"}]
    /\ pc \in [Proc -> Pc]
    /\ addr \in [Proc -> Addr \cup {NoAddr}]
    /\ res \in [Proc -> Status \cup {None}]
    /\ term \in [Proc -> Status \cup {None}]
    /\ result \in [Proc -> Status \cup {None}]
    /\ returned \in [Proc -> Status \cup {None}]
    /\ kept \in BOOLEAN
    /\ halted \in BOOLEAN
    /\ nmis \in Nat

Init ==
    /\ next = "first"
    /\ handler = "tracker"
    /\ active = FALSE
    /\ slots = [i \in Slot |-> EmptyEntry]
    /\ qlock = NoProc
    /\ state = [p \in Proc |-> "RUNNING"]
    /\ pc = [p \in Proc |-> "run"]
    /\ addr = [p \in Proc |-> NoAddr]
    /\ res = [p \in Proc |-> None]
    /\ term = [p \in Proc |-> None]
    /\ result = [p \in Proc |-> None]
    /\ returned = [p \in Proc |-> None]
    /\ kept = FALSE
    /\ halted = FALSE
    /\ nmis = 0

-----------------------------------------------------------------------------
At(p, l) == ~halted /\ pc[p] = l
Goto(p, l) == pc' = [pc EXCEPT ![p] = l]
Halt == halted' = TRUE
GoOn == UNCHANGED halted

tracking == <<res, term, result, kept>>
ghosts == <<addr, returned, nmis>>

-----------------------------------------------------------------------------
(* nmi_handle *)

\* A memory error hits p.
Nmi(p) ==
    /\ At(p, "run") /\ nmis < MaxNmi
    /\ nmis' = nmis + 1
    /\ \E a \in Addr : addr' = [addr EXCEPT ![p] = a]
    /\ result' = [result EXCEPT ![p] = None]
    /\ Goto(p, "check")
    /\ UNCHANGED <<next, handler, active, slots, qlock, state, res, term, returned, kept, halted>>

\* The pointer is tested ...
Check(p) ==
    /\ At(p, "check")
    /\ IF next = "panic" THEN Halt /\ UNCHANGED pc ELSE Goto(p, "arm") /\ GoOn
    /\ UNCHANGED <<next, handler, active, slots, qlock, state, tracking, ghosts>>

\* ... and then set to panic; a process that is RECOVERING is not recovered.
Arm(p) ==
    /\ At(p, "arm")
    /\ next' = "panic"
    /\ IF state[p] = "RECOVERING" THEN Halt /\ UNCHANGED pc ELSE Goto(p, "scan") /\ GoOn
    /\ UNCHANGED <<handler, active, slots, qlock, state, tracking, ghosts>>

\* Somebody is RECOVERING or there is a queue: follow.
Scan(p) ==
    /\ At(p, "scan")
    /\ next' = IF active \/ \E q \in Proc : state[q] = "RECOVERING" THEN "follow" ELSE next
    /\ Goto(p, "choose")
    /\ UNCHANGED <<handler, active, slots, qlock, state, tracking, ghosts, halted>>

Choose(p) ==
    /\ At(p, "choose")
    /\ next' = IF next # "follow" THEN "first" ELSE next
    /\ Goto(p, "dispatch")
    /\ UNCHANGED <<handler, active, slots, qlock, state, tracking, ghosts, halted>>

Dispatch(p) ==
    /\ At(p, "dispatch")
    /\ IF next = "panic" THEN Halt /\ UNCHANGED pc ELSE Goto(p, next) /\ GoOn
    /\ UNCHANGED <<next, handler, active, slots, qlock, state, tracking, ghosts>>

-----------------------------------------------------------------------------
(* mem_nmi_handle_first *)

First(p) ==
    /\ At(p, "first")
    /\ next' = "panic"
    /\ Goto(p, "queue")
    /\ UNCHANGED <<handler, active, slots, qlock, state, tracking, ghosts, halted>>

\* Mutant: the queue pointer is not tested under the lock.
MakeQueue_notest(p) ==
    /\ At(p, "queue") /\ qlock = NoProc
    /\ active' = TRUE
    /\ slots' = [[i \in Slot |-> EmptyEntry]
                   EXCEPT ![0] = [addr |-> addr[p], pid |-> p, res |-> None]]
    /\ Goto(p, "mark")
    /\ UNCHANGED <<next, handler, qlock, state, tracking, ghosts, halted>>

\* The queue is created on p's stack unless somebody was faster; acquire()
\* panics when p came here with nmi_queue_lock held.
MakeQueue(p) ==
    /\ At(p, "queue")
    /\ \/ /\ qlock = p
          /\ Halt
          /\ UNCHANGED <<active, slots, pc>>
       \/ /\ qlock = NoProc /\ active
          /\ Goto(p, "follow")
          /\ UNCHANGED <<active, slots, halted>>
       \/ /\ qlock = NoProc /\ ~active
          /\ active' = TRUE
          /\ slots' = [[i \in Slot |-> EmptyEntry]
                         EXCEPT ![0] = [addr |-> addr[p], pid |-> p, res |-> None]]
          /\ Goto(p, "mark")
          /\ GoOn
    /\ UNCHANGED <<next, handler, qlock, state, tracking, ghosts>>

Mark(p) ==
    /\ At(p, "mark")
    /\ state' = [state EXCEPT ![p] = "RECOVERING"]
    /\ Goto(p, "rearm")
    /\ UNCHANGED <<next, handler, active, slots, qlock, tracking, ghosts, halted>>

Rearm(p) ==
    /\ At(p, "rearm")
    /\ next' = "first"
    /\ Goto(p, "track")
    /\ UNCHANGED <<handler, active, slots, qlock, state, tracking, ghosts, halted>>

Track(p) ==
    /\ At(p, "track")
    /\ IF handler = "panic" THEN Halt /\ UNCHANGED pc ELSE Goto(p, "recover") /\ GoOn
    /\ term' = [term EXCEPT ![p] = None]
    /\ UNCHANGED <<next, handler, active, slots, qlock, state, res, result, kept, ghosts>>

-----------------------------------------------------------------------------
(* mlist_tracker *)

\* The object of the head entry is recovered, or the system stops.  The
\* status of the first one, p's own, is kept for the end.
Recover(p) ==
    /\ At(p, "recover")
    /\ handler' = "panic"
    /\ \/ \E s \in Status :
            /\ res' = [res EXCEPT ![p] = s]
            /\ result' = [q \in Proc |-> IF q = slots[0].pid THEN s ELSE result[q]]
            /\ term' = IF slots[0].pid = p THEN [term EXCEPT ![p] = s] ELSE term
            /\ Goto(p, "report") /\ GoOn
       \/ Halt /\ UNCHANGED <<res, result, term, pc>>
    /\ UNCHANGED <<next, active, slots, qlock, state, kept, ghosts>>

\* Mutant: the status is not put into the entry.
Report_nostatus(p) ==
    /\ At(p, "report") /\ qlock = NoProc
    /\ Goto(p, "await")
    /\ UNCHANGED <<next, handler, active, slots, qlock, state, tracking, ghosts, halted>>

\* ret_and_search_nmiqueue: the status is put into the head entry ...
Report(p) ==
    /\ At(p, "report") /\ qlock = NoProc
    /\ slots' = [slots EXCEPT ![0].res = res[p]]
    /\ Goto(p, "await")
    /\ UNCHANGED <<next, handler, active, qlock, state, tracking, ghosts, halted>>

\* ... another process fetches it and clears the entry ...
Await(p) ==
    /\ At(p, "await")
    /\ slots[0].pid # p => qlock = NoProc /\ slots[0].addr = NoAddr
    /\ Goto(p, "shift")
    /\ UNCHANGED <<next, handler, active, slots, qlock, state, tracking, ghosts, halted>>

\* The entries move up one slot, up to and including the first empty one; the
\* last slot is never cleared.
Empty(q) == {i \in Slot \ {0} : q[i].addr = NoAddr /\ q[i].pid = NoProc}
Shifted(q) ==
    [i \in Slot |-> IF i + 1 \in Slot /\ \A j \in Empty(q) : i + 1 <= j
                    THEN q[i + 1] ELSE q[i]]

\* ... and the next entry becomes the head.
Shift(p) ==
    /\ At(p, "shift") /\ qlock = NoProc
    /\ slots' = Shifted(slots)
    /\ kept' = (kept \/ Empty(slots) = {})
    /\ Goto(p, IF slots'[0].addr # NoAddr THEN "recover" ELSE "cleanup")
    /\ UNCHANGED <<next, handler, active, qlock, state, res, term, result, ghosts, halted>>

\* cleanup_after_recovery, without the queue pointer.
Cleanup(p) ==
    /\ At(p, "cleanup")
    /\ handler' = "tracker"
    /\ state' = [state EXCEPT ![p] = "RUNNING"]
    /\ Goto(p, "clear")
    /\ UNCHANGED <<next, active, slots, qlock, tracking, ghosts, halted>>

\* Mutant: nmi_queue keeps pointing to the stack that is left.
Clear_keep(p) ==
    /\ At(p, "clear") /\ qlock = NoProc
    /\ Goto(p, IF term[p] = "kill" THEN "dead" ELSE "run")
    /\ returned' = [returned EXCEPT ![p] = term[p]]
    /\ UNCHANGED <<next, handler, active, slots, qlock, state, tracking, addr, nmis, halted>>

\* nmi_queue = 0x0; then the recovery process leaves by its After-Treatment.
Clear(p) ==
    /\ At(p, "clear") /\ qlock = NoProc
    /\ active' = FALSE
    /\ slots' = [i \in Slot |-> EmptyEntry]
    /\ Goto(p, IF term[p] = "kill" THEN "dead" ELSE "run")
    /\ returned' = [returned EXCEPT ![p] = term[p]]
    /\ UNCHANGED <<next, handler, qlock, state, tracking, addr, nmis, halted>>

-----------------------------------------------------------------------------
(* mem_nmi_handle_follow *)

Free == {i \in Slot \ {0} : slots[i].addr = NoAddr}

\* p's error goes into the first free slot behind the head.  Without one the
\* system stops, unless the last slot has the same address: then p waits
\* without an entry.
Follow(p) ==
    /\ At(p, "follow") /\ qlock = NoProc
    /\ \/ /\ ~active
          /\ Goto(p, "first")
          /\ UNCHANGED <<slots, halted>>
       \/ /\ active /\ Free # {}
          /\ LET i == CHOOSE j \in Free : \A k \in Free : j <= k
             IN  slots' = [slots EXCEPT ![i] = [addr |-> addr[p], pid |-> p, res |-> None]]
          /\ Goto(p, "wait") /\ GoOn
       \/ /\ active /\ Free = {}
          /\ IF slots[QueueSize-1].addr = addr[p]
             THEN Goto(p, "wait") /\ GoOn
             ELSE Halt /\ UNCHANGED pc
          /\ UNCHANGED slots
    /\ UNCHANGED <<next, handler, active, qlock, state, tracking, ghosts>>

Wait(p) ==
    /\ At(p, "wait")
    /\ state' = [state EXCEPT ![p] = "RECOVERING"]
    /\ Goto(p, "poll")
    /\ UNCHANGED <<next, handler, active, slots, qlock, tracking, ghosts, halted>>

\* Mutant: the status is taken whoever it is for.
Poll_any(p) ==
    /\ At(p, "poll") /\ qlock = NoProc
    /\ \/ /\ ~active
          /\ qlock' = p
          /\ Goto(p, "first")
          /\ UNCHANGED term
       \/ /\ active /\ slots[0].res \in Status
          /\ term' = [term EXCEPT ![p] = slots[0].res]
          /\ Goto(p, "take")
          /\ UNCHANGED qlock
    /\ UNCHANGED <<next, handler, active, slots, state, res, result, kept, ghosts, halted>>

\* The polling loop.  When the queue is gone, mem_nmi_handle_first is called
\* with nmi_queue_lock held.
Poll(p) ==
    /\ At(p, "poll") /\ qlock = NoProc
    /\ \/ /\ ~active
          /\ qlock' = p
          /\ Goto(p, "first")
          /\ UNCHANGED term
       \/ /\ active /\ slots[0].pid = p /\ slots[0].res \in Status
          /\ term' = [term EXCEPT ![p] = slots[0].res]
          /\ Goto(p, "take")
          /\ UNCHANGED qlock
    /\ UNCHANGED <<next, handler, active, slots, state, res, result, kept, ghosts, halted>>

\* The entry is cleared and p leaves; only a system call's end restores
\* p->state (and exit() leaves for good).
Take(p) ==
    /\ At(p, "take") /\ qlock = NoProc
    /\ slots' = [slots EXCEPT ![0] = EmptyEntry]
    /\ Goto(p, IF term[p] = "kill" THEN "dead" ELSE "run")
    /\ state' = [state EXCEPT ![p] = IF term[p] \in {"syscall", "kill"} THEN "RUNNING" ELSE @]
    /\ returned' = [returned EXCEPT ![p] = term[p]]
    /\ UNCHANGED <<next, handler, active, qlock, tracking, addr, nmis, halted>>

\* The timer: yield() makes p RUNNABLE, the scheduler RUNNING again.
Yield(p) ==
    /\ At(p, "run") /\ state[p] = "RECOVERING"
    /\ state' = [state EXCEPT ![p] = "RUNNING"]
    /\ UNCHANGED <<next, handler, active, slots, qlock, pc, tracking, ghosts, halted>>

-----------------------------------------------------------------------------
Handle(p) == Check(p) \/ Arm(p) \/ Scan(p) \/ Choose(p) \/ Dispatch(p)
Lead(p) == First(p) \/ MakeQueue(p) \/ Mark(p) \/ Rearm(p) \/ Track(p)
Serve(p) == Recover(p) \/ Report(p) \/ Await(p) \/ Shift(p) \/ Cleanup(p) \/ Clear(p)
Attend(p) == Follow(p) \/ Wait(p) \/ Poll(p) \/ Take(p)
Step(p) == Handle(p) \/ Lead(p) \/ Serve(p) \/ Attend(p)

Next == \E p \in Proc : Nmi(p) \/ Step(p) \/ Yield(p)

\* A process in the NMI handler runs with interrupts off on its own hart, so
\* it takes its next step; the spinlocks are held for one step only.
Fairness == \A p \in Proc : WF_vars(Step(p))

Spec == Init /\ [][Next]_vars
FairSpec == Spec /\ Fairness

-----------------------------------------------------------------------------
(* Properties. *)

Owners == {p \in Proc : pc[p] \in OwnerPc}

\* At most one process at a time runs mlist_tracker or is about to, however
\* the function pointers were raced for: mem_nmi_handle_first looks at
\* nmi_queue under nmi_queue_lock.
SoleTracker == \A p, q \in Owners : p = q

\* The queue that nmi_queue points to lives on the stack of a process that is
\* still inside mem_nmi_handle_first: it is never left dangling.
QueueOwned == active <=> Owners # {}

\* Every victim leaves with the status that was computed for its own error, as
\* long as no shift of a full queue kept an entry that was served: then its
\* process, hit again, takes the status of the earlier error.
OwnResult ==
    [][\A p \in Proc : (Clear(p) \/ Take(p)) /\ ~kept => returned'[p] = result[p]]_vars

\* The tracker has reported to a process that has left with an earlier status:
\* the shift of a full queue kept its entry.
ServesTheAbsent ==
    \E p \in Owners : pc[p] = "await" /\ slots[0].pid \notin {NoProc, p}
                      /\ pc[slots[0].pid] \in {"run", "dead"}

\* Whoever is hit gets out of the NMI handler again, or the system stops; only
\* the shift of a full queue makes the tracker wait for nobody, for ever.
Recovered ==
    \A p \in Proc : (pc[p] = "check") ~>
        (pc[p] \in {"run", "dead"} \/ halted \/ ServesTheAbsent)
=============================================================================
