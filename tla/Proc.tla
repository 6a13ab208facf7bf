-------------------------------- MODULE Proc --------------------------------
(***************************************************************************)
(* The life of processes (kernel/proc.c): allocproc and fork, exit with    *)
(* reparent, wait, kill, sleep and wakeup, and the scheduler.              *)
(*                                                                         *)
(* Every slot of the process table has a spinlock.  What happens while the *)
(* locks that guard it are held is one step; each acquisition of another   *)
(* lock begins a new one.  Besides waiting for its children, a process may *)
(* wait for an event as pipes, the console and the disk make it wait: in a *)
(* loop around sleep(chan, lk), where lk guards what the loop tests.       *)
(*                                                                         *)
(* Slots 1.. are table entries; slot 1 is init, which does nothing but     *)
(* wait for its children.                                                  *)
(***************************************************************************)
EXTENDS Naturals, FiniteSets

CONSTANTS
    NPROC,     \* size of the process table
    MaxCalls   \* bound: the number of forks, waits (init's apart), uses of
               \* the event and kills in a behaviour

Slot == 1..NPROC
Index == 0..NPROC + 1  \* what the loops over the table run through
initproc == 1
None == 0
Event == NPROC + 1     \* the channel of the event

ASSUME SizeAssumption == NPROC \in Nat \ {0, 1} /\ MaxCalls \in Nat

VARIABLES
    state,     \* p->state
    parent,    \* p->parent
    chan,      \* p->chan: a slot (its own, in wait), Event, or None
    killed,    \* p->killed
    lock,      \* holder of p->lock
    lk,        \* holder of the lock that guards the event
    event,     \* TRUE when there is something to consume
    pc,        \* where a process is
    other,     \* original_parent in exit, the slot looked at in wait, wakeup
               \* and fork
    kids,      \* havekids in wait
    calls      \* number of calls so far

vars == <<state, parent, chan, killed, lock, lk, event, pc, other, kids, calls>>
table == <<state, parent, chan, killed>>

Label == {"free", "user", "fork",
          "exit", "parent", "lockparent", "lockself", "reparent", "gone",
          "wait", "scan", "waiting",
          "consume", "test", "tosleep", "asleep", "relock", "produce", "wakeup"}

TypeOK ==
    /\ state \in [Slot -> {"UNUSED", "SLEEPING", "RUNNABLE", "RUNNING", "ZOMBIE"}]
    /\ parent \in [Slot -> Slot \cup {None}]
    /\ chan \in [Slot -> Slot \cup {None, Event}]
    /\ killed \in [Slot -> BOOLEAN]
    /\ lock \in [Slot -> Slot \cup {None}]
    /\ lk \in Slot \cup {None}
    /\ event \in BOOLEAN
    /\ pc \in [Slot -> Label]
    /\ other \in [Slot -> Index]
    /\ kids \in [Slot -> BOOLEAN]
    /\ calls \in Nat

\* userinit, and one child of init (the shell).
Init ==
    /\ state = [p \in Slot |-> IF p <= 2 THEN "RUNNABLE" ELSE "UNUSED"]
    /\ parent = [p \in Slot |-> IF p = 2 THEN initproc ELSE None]
    /\ chan = [p \in Slot |-> None]
    /\ killed = [p \in Slot |-> FALSE]
    /\ lock = [p \in Slot |-> None]
    /\ lk = None
    /\ event = FALSE
    /\ pc = [p \in Slot |-> IF p <= 2 THEN "user" ELSE "free"]
    /\ other = [p \in Slot |-> None]
    /\ kids = [p \in Slot |-> FALSE]
    /\ calls = 0

-----------------------------------------------------------------------------
At(p, l) == state[p] = "RUNNING" /\ pc[p] = l
Goto(p, l) == pc' = [pc EXCEPT ![p] = l]
Look(p, x) == other' = [other EXCEPT ![p] = x]
Locked(s, q, p) == [s EXCEPT ![q] = p]

Called == calls < MaxCalls /\ calls' = calls + 1

\* The state of q after a wakeup on channel c.
Woken(s, q, c) ==
    IF s[q] = "SLEEPING" /\ chan[q] = c THEN [s EXCEPT ![q] = "RUNNABLE"] ELSE s

\* scheduler: switch to a runnable process.  It returns from sched() with its
\* lock held; in wait it goes on with it, elsewhere it releases it.
Schedule(p) ==
    /\ state[p] = "RUNNABLE" /\ lock[p] = None
    /\ state' = [state EXCEPT ![p] = "RUNNING"]
    /\ chan' = [chan EXCEPT ![p] = None]
    /\ \/ /\ pc[p] = "waiting"
          /\ lock' = Locked(lock, p, p)
          /\ kids' = [kids EXCEPT ![p] = FALSE]
          /\ Look(p, 1)
          /\ Goto(p, "scan")
       \/ /\ pc[p] = "asleep"
          /\ Goto(p, "relock")
          /\ UNCHANGED <<lock, other, kids>>
       \/ /\ pc[p] \notin {"waiting", "asleep"}
          /\ UNCHANGED <<lock, pc, other, kids>>
    /\ UNCHANGED <<parent, killed, lk, event, calls>>

\* yield, at a timer interrupt in user space
Yield(p) ==
    /\ At(p, "user") /\ lock[p] = None
    /\ state' = [state EXCEPT ![p] = "RUNNABLE"]
    /\ UNCHANGED <<parent, chan, killed, lock, lk, event, pc, other, kids, calls>>

-----------------------------------------------------------------------------
(* fork *)

\* allocproc: an unused slot, whose lock stays held.
AllocProc(p) ==
    /\ At(p, "user") /\ Called
    /\ \E np \in Slot : /\ state[np] = "UNUSED" /\ lock[np] = None
                        /\ lock' = Locked(lock, np, p)
                        /\ Look(p, np)
    /\ Goto(p, "fork")
    /\ UNCHANGED <<table, lk, event, kids>>

\* The rest of fork; uvmcopy may fail, then the slot is freed again.
Fork(p) ==
    /\ At(p, "fork")
    /\ LET np == other[p]
       IN  /\ \/ /\ parent' = [parent EXCEPT ![np] = p]
                 /\ state' = [state EXCEPT ![np] = "RUNNABLE"]
                 /\ pc' = [pc EXCEPT ![np] = "user", ![p] = "user"]
              \/ /\ Goto(p, "user")
                 /\ UNCHANGED <<parent, state>>
           /\ lock' = Locked(lock, np, None)
    /\ Look(p, None)
    /\ UNCHANGED <<chan, killed, lk, event, kids, calls>>

-----------------------------------------------------------------------------
(* exit *)

\* A process exits: by the system call, or in usertrap when it was killed.
\* It wakes init first.
Exit(p) ==
    /\ At(p, "user") /\ p # initproc /\ lock[initproc] = None
    /\ state' = Woken(state, initproc, initproc)
    /\ Goto(p, "parent")
    /\ UNCHANGED <<parent, chan, killed, lock, lk, event, other, kids, calls>>

\* Mutant: the own lock is kept while the parent's is acquired.
ReadParent_keep(p) ==
    /\ At(p, "parent") /\ lock[p] = None
    /\ Look(p, parent[p])
    /\ lock' = Locked(lock, p, p)
    /\ Goto(p, "lockparent")
    /\ UNCHANGED <<table, lk, event, kids, calls>>

\* A copy of p->parent, read under the own lock.
ReadParent(p) ==
    /\ At(p, "parent") /\ lock[p] = None
    /\ Look(p, parent[p])
    /\ Goto(p, "lockparent")
    /\ UNCHANGED <<table, lock, lk, event, kids, calls>>

LockParent(p) ==
    /\ At(p, "lockparent") /\ lock[other[p]] = None
    /\ lock' = Locked(lock, other[p], p)
    /\ Goto(p, "lockself")
    /\ UNCHANGED <<table, lk, event, other, kids, calls>>

LockSelf(p) ==
    /\ At(p, "lockself") /\ lock[p] = None
    /\ lock' = Locked(lock, p, p)
    /\ Goto(p, "reparent")
    /\ UNCHANGED <<table, lk, event, other, kids, calls>>

Children(p) == {q \in Slot : parent[q] = p}
First(S) == CHOOSE q \in S : \A r \in S : q <= r

\* reparent: the children, one after the other, under their locks.
Reparent(p) ==
    /\ At(p, "reparent") /\ Children(p) # {}
    /\ LET q == First(Children(p))
       IN  /\ lock[q] = None
           /\ parent' = [parent EXCEPT ![q] = initproc]
    /\ UNCHANGED <<state, chan, killed, lock, lk, event, pc, other, kids, calls>>

\* Mutant: the parent is not woken.
Zombie_nowakeup(p) ==
    /\ At(p, "reparent") /\ Children(p) = {}
    /\ state' = [state EXCEPT ![p] = "ZOMBIE"]
    /\ lock' = Locked(lock, other[p], None)
    /\ Look(p, None)
    /\ Goto(p, "gone")
    /\ UNCHANGED <<parent, chan, killed, lk, event, kids, calls>>

\* Mutant: children are left behind.
Zombie_orphans(p) ==
    /\ At(p, "reparent")
    /\ state' = [Woken(state, other[p], other[p]) EXCEPT ![p] = "ZOMBIE"]
    /\ lock' = Locked(lock, other[p], None)
    /\ Look(p, None)
    /\ Goto(p, "gone")
    /\ UNCHANGED <<parent, chan, killed, lk, event, kids, calls>>

\* Mutant: the parent's lock is not released.
Zombie_keeplock(p) ==
    /\ At(p, "reparent") /\ Children(p) = {}
    /\ state' = [Woken(state, other[p], other[p]) EXCEPT ![p] = "ZOMBIE"]
    /\ Look(p, None)
    /\ Goto(p, "gone")
    /\ UNCHANGED <<parent, chan, killed, lock, lk, event, kids, calls>>

\* The end of exit: wake the parent read before, become a zombie, release the
\* parent's lock; the own lock is held until the scheduler has switched.
Zombie(p) ==
    /\ At(p, "reparent") /\ Children(p) = {}
    /\ state' = [Woken(state, other[p], other[p]) EXCEPT ![p] = "ZOMBIE"]
    /\ lock' = Locked(lock, other[p], None)
    /\ Look(p, None)
    /\ Goto(p, "gone")
    /\ UNCHANGED <<parent, chan, killed, lk, event, kids, calls>>

\* sched and scheduler: off the CPU of the zombie, its lock released.
Gone(p) ==
    /\ state[p] = "ZOMBIE" /\ pc[p] = "gone" /\ lock[p] = p
    /\ lock' = Locked(lock, p, None)
    /\ UNCHANGED <<table, lk, event, pc, other, kids, calls>>

-----------------------------------------------------------------------------
(* wait *)

Wait(p) ==
    /\ At(p, "user") /\ lock[p] = None
    /\ IF p = initproc THEN Children(p) # {} /\ UNCHANGED calls ELSE Called
    /\ lock' = Locked(lock, p, p)
    /\ kids' = [kids EXCEPT ![p] = FALSE]
    /\ Look(p, 1)
    /\ Goto(p, "scan")
    /\ UNCHANGED <<table, lk, event>>

\* A slot that is not a child: the parent field is read without its lock.
ScanOther(p) ==
    /\ At(p, "scan") /\ other[p] \in Slot /\ parent[other[p]] # p
    /\ Look(p, other[p] + 1)
    /\ UNCHANGED <<table, lock, lk, event, pc, kids, calls>>

\* A child: looked at under its lock.  A zombie is freed (freeproc), and wait
\* returns, unless the status cannot be copied out.
ScanChild(p) ==
    /\ At(p, "scan") /\ other[p] \in Slot /\ parent[other[p]] = p
    /\ lock[other[p]] = None
    /\ LET np == other[p]
       IN  \/ /\ state[np] = "ZOMBIE"
              /\ state' = [state EXCEPT ![np] = "UNUSED"]
              /\ parent' = [parent EXCEPT ![np] = None]
              /\ chan' = [chan EXCEPT ![np] = None]
              /\ killed' = [killed EXCEPT ![np] = FALSE]
              /\ pc' = [pc EXCEPT ![np] = "free", ![p] = "user"]
              /\ lock' = Locked(lock, p, None)
              /\ Look(p, None)
              /\ UNCHANGED kids
           \/ /\ state[np] = "ZOMBIE" /\ p # initproc    \* copyout fails
              /\ Goto(p, "user")
              /\ lock' = Locked(lock, p, None)
              /\ Look(p, None)
              /\ UNCHANGED <<table, kids>>
           \/ /\ state[np] # "ZOMBIE"
              /\ kids' = [kids EXCEPT ![p] = TRUE]
              /\ Look(p, np + 1)
              /\ UNCHANGED <<table, pc, lock>>
    /\ UNCHANGED <<lk, event, calls>>

\* Mutant: a killed process goes to sleep.
EndScan_unkilled(p) ==
    /\ At(p, "scan") /\ other[p] = NPROC + 1
    /\ IF ~kids[p]
       THEN Goto(p, "user") /\ UNCHANGED <<state, chan>>
       ELSE /\ state' = [state EXCEPT ![p] = "SLEEPING"]
            /\ chan' = [chan EXCEPT ![p] = p]
            /\ Goto(p, "waiting")
    /\ lock' = Locked(lock, p, None)
    /\ Look(p, None)
    /\ UNCHANGED <<parent, killed, lk, event, kids, calls>>

\* Without children, or killed, wait returns; otherwise sleep(p, &p->lock),
\* where the scheduler releases the lock.
EndScan(p) ==
    /\ At(p, "scan") /\ other[p] = NPROC + 1
    /\ IF ~kids[p] \/ killed[p]
       THEN Goto(p, "user") /\ UNCHANGED <<state, chan>>
       ELSE /\ state' = [state EXCEPT ![p] = "SLEEPING"]
            /\ chan' = [chan EXCEPT ![p] = p]
            /\ Goto(p, "waiting")
    /\ lock' = Locked(lock, p, None)
    /\ Look(p, None)
    /\ UNCHANGED <<parent, killed, lk, event, kids, calls>>

-----------------------------------------------------------------------------
(* kill, sleep and wakeup *)

\* kill: of any process but init, whose end is a panic.
Kill(p, q) ==
    /\ At(p, "user") /\ Called
    /\ q # initproc /\ state[q] # "UNUSED" /\ lock[q] = None
    /\ killed' = [killed EXCEPT ![q] = TRUE]
    /\ state' = IF state[q] = "SLEEPING" THEN [state EXCEPT ![q] = "RUNNABLE"]
                                         ELSE state
    /\ UNCHANGED <<parent, chan, lock, lk, event, pc, other, kids>>

Consume(p) ==
    /\ At(p, "user") /\ p # initproc /\ Called /\ lk = None
    /\ lk' = p
    /\ Goto(p, "test")
    /\ UNCHANGED <<table, lock, event, other, kids>>

\* Mutant: lk is released before p->lock is acquired.
Test_unlock(p) ==
    /\ At(p, "test")
    /\ lk' = None
    /\ IF event \/ killed[p]
       THEN event' = FALSE /\ Goto(p, "user")
       ELSE Goto(p, "tosleep") /\ UNCHANGED event
    /\ UNCHANGED <<table, lock, other, kids, calls>>

\* The loop around sleep: there is something, or the process was killed, or it
\* calls sleep.
Test(p) ==
    /\ At(p, "test")
    /\ IF event \/ killed[p]
       THEN event' = FALSE /\ lk' = None /\ Goto(p, "user")
       ELSE Goto(p, "tosleep") /\ UNCHANGED <<event, lk>>
    /\ UNCHANGED <<table, lock, other, kids, calls>>

\* sleep: acquire p->lock, release lk, set chan and state, switch.
Sleep(p) ==
    /\ At(p, "tosleep") /\ lock[p] = None
    /\ lk' = IF lk = p THEN None ELSE lk
    /\ state' = [state EXCEPT ![p] = "SLEEPING"]
    /\ chan' = [chan EXCEPT ![p] = Event]
    /\ Goto(p, "asleep")
    /\ UNCHANGED <<parent, killed, lock, event, other, kids, calls>>

Relock(p) ==
    /\ At(p, "relock") /\ lk = None
    /\ lk' = p
    /\ Goto(p, "test")
    /\ UNCHANGED <<table, lock, event, other, kids, calls>>

Produce(p) ==
    /\ At(p, "user") /\ p # initproc /\ Called /\ lk = None
    /\ lk' = p
    /\ event' = TRUE
    /\ Look(p, 1)
    /\ Goto(p, "wakeup")
    /\ UNCHANGED <<table, lock, kids>>

\* wakeup: every slot under its lock; then lk is released.
Wakeup(p) ==
    /\ At(p, "wakeup")
    /\ IF other[p] \in Slot
       THEN /\ lock[other[p]] = None
            /\ state' = Woken(state, other[p], Event)
            /\ Look(p, other[p] + 1)
            /\ UNCHANGED <<lk, pc>>
       ELSE /\ lk' = None
            /\ Look(p, None)
            /\ Goto(p, "user")
            /\ UNCHANGED state
    /\ UNCHANGED <<parent, chan, killed, lock, event, kids, calls>>

-----------------------------------------------------------------------------
\* The steps of a process inside a call, which it takes without being asked.
Inside(p) ==
    \/ Fork(p) \/ ReadParent(p) \/ LockParent(p) \/ LockSelf(p) \/ Reparent(p)
    \/ Zombie(p) \/ Gone(p) \/ ScanOther(p) \/ ScanChild(p) \/ EndScan(p)
    \/ Test(p) \/ Sleep(p) \/ Relock(p) \/ Wakeup(p)

Call(p) ==
    \/ Yield(p) \/ AllocProc(p) \/ Exit(p) \/ Wait(p) \/ Consume(p) \/ Produce(p)
    \/ \E q \in Slot : Kill(p, q)

Next == \E p \in Slot : Schedule(p) \/ Inside(p) \/ Call(p)

Spec == Init /\ [][Next]_vars

\* The scheduler runs every process; calls that were begun go on; init waits
\* for its children for ever.
FairSpec ==
    /\ Spec
    /\ \A p \in Slot : WF_vars(Schedule(p) \/ Inside(p))
    /\ WF_vars(Wait(initproc))

-----------------------------------------------------------------------------
(* Properties. *)

Zombies(p) == {q \in Children(p) : state[q] = "ZOMBIE"}
InWait(p) == state[p] = "SLEEPING" /\ pc[p] = "waiting"

\* wait() holds p->lock the whole time to avoid lost wakeups from a child's
\* exit(): no process sleeps in wait over a child that has ended.  (init may,
\* over a child it was given: exit() wakes it before the children are passed
\* to it.)
NoSleepOverZombie == \A p \in Slot \ {initproc} : InWait(p) => Zombies(p) = {}

\* A process has a parent that was not freed and given to somebody else: exit
\* passes all children to init, also those that are about to exit.
ParentInUse ==
    \A p \in Slot \ {initproc} : state[p] # "UNUSED" =>
        parent[p] # None /\ state[parent[p]] # "UNUSED"

\* Nobody sleeps over an event unless a wakeup is under way (sleep holds
\* p->lock before it releases lk).
NoMissedWakeup ==
    \A p \in Slot :
        state[p] = "SLEEPING" /\ pc[p] = "asleep" /\ event =>
            \E q \in Slot : pc[q] = "wakeup" /\ other[q] <= p

\* The spinlock that p is about to acquire, as the process that holds it.
Blocker(p) ==
    IF state[p] # "RUNNING" THEN None
    ELSE CASE pc[p] \in {"parent", "lockself", "tosleep"} -> lock[p]
           [] pc[p] = "lockparent" -> lock[other[p]]
           [] pc[p] = "reparent" /\ Children(p) # {} -> lock[First(Children(p))]
           [] pc[p] = "scan" /\ other[p] \in Children(p) -> lock[other[p]]
           [] pc[p] = "wakeup" /\ other[p] \in Slot -> lock[other[p]]
           [] pc[p] = "relock" -> lk
           [] OTHER -> None

\* Processes that wait for each other's spinlocks.
Circle(S) == S # {} /\ \A p \in S : Blocker(p) \in S

\* p is in exit() and holds the lock of a slot that is not its parent's (any
\* more): the process was given to init after it had read p->parent.  The code
\* takes that for "a harmless spurious wakeup to a dead or wrong process"; but
\* when the slot has become a descendant of p, which exits too, p waits for that
\* descendant's ancestors, who wait for p.
GivenAway(p) == pc[p] \in {"lockself", "reparent"} /\ other[p] # parent[p]

\* Locks of the process table are acquired parent first: processes wait for each
\* other in a circle only if one of them is in exit() with the lock of a slot that
\* was its parent's.
NoCircularWait == \A S \in SUBSET Slot : Circle(S) => \E p \in S : GivenAway(p)

\* A killed process does not sleep on in wait.
KilledLeavesWait == \A p \in Slot : InWait(p) => ~killed[p]

Exiting == {p \in Slot : pc[p] \in {"parent", "lockparent", "lockself", "reparent"}}

\* Calls of exit() end, whoever else exits, waits, forks or is woken at the same
\* time: again and again nobody is in exit(), unless processes wait in a circle
\* (NoCircularWait says which).
ExitEnds == []<>(Exiting = {} \/ \E S \in SUBSET Slot : Circle(S))

=============================================================================
