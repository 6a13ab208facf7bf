-------------------------------- MODULE Kmem --------------------------------
(***************************************************************************)
(* The page allocator of Ev6 (kernel/kalloc.c), the list of its free pages *)
(* in the M-List (run_list in kernel/mlist.c), the transaction of kfree    *)
(* (kernel/trans.c) and the recovery handlers of struct kmem and struct    *)
(* run (kernel/recovery_handlers_MM.c).                                    *)
(*                                                                         *)
(* The free pages are chained twice: by their own first word, and by the   *)
(* M-List.  The handlers rebuild the chain from the M-List, take the new   *)
(* struct kmem from it, and put back the page of an interrupted kfree.     *)
(*                                                                         *)
(* A memory error hits a process at an access of struct kmem, of a struct  *)
(* run, or of an object of another kind.  It queues behind the recovery    *)
(* process (module NmiQueue has the queue in detail).  What the code does  *)
(* under kmem->lock without touching a page or struct kmem is one step.    *)
(***************************************************************************)
EXTENDS Naturals, Sequences, SequencesExt, FiniteSets

CONSTANTS
    Proc,         \* processes
    FreePages,    \* the free pages at the end of the boot, in their order
    UsedPages,    \* pages that are in use then
    HitWaiters,   \* TRUE: the first error may hit a process that spins
    HitAgain,     \* TRUE: errors may hit struct kmem and the runs again after
                  \* struct kmem was replaced
    MaxNmi,       \* bound: the number of memory errors in a behaviour
    MaxOps        \* bound: the number of calls in a behaviour

NoProc == 0
Null == 0         \* the null pointer
Static == 1       \* the address of _kmem
Junk == 2         \* the address in the header of a list; any other garbage

Page == ToSet(FreePages) \cup UsedPages
Home == Page \cup {Static}
Pointer == Page \cup {Null, Junk}

ASSUME ProcAssumption == Proc \subseteq Nat \ {NoProc}
ASSUME PageAssumption ==
    /\ FreePages \in Seq(Nat) /\ IsInjective(FreePages) /\ FreePages # <<>>
    /\ Page \subseteq Nat \ {Null, Static, Junk}
    /\ ToSet(FreePages) \cap UsedPages = {} /\ IsFiniteSet(UsedPages)
ASSUME BoundAssumption ==
    /\ HitWaiters \in BOOLEAN /\ HitAgain \in BOOLEAN
    /\ MaxNmi \in Nat /\ MaxOps \in Nat

VARIABLES
    freelist,   \* kmem->freelist
    next,       \* next[x]: the first word of page x as a struct run
    runs,       \* mlist.run_list: the registered pages, header left out
    kmem,       \* the pointer kmem
    lock,       \* holder of the spinlock in the struct kmem at an address
    log_run,    \* the page of the transaction in progress
    trans,      \* run_ntrans of a process
    pc,         \* where a process is in kalloc, kfree or a handler
    op,         \* the call it makes
    hand,       \* the page it frees or is about to return
    addr,       \* the lock it has begun to acquire
    queue,      \* the NMI Queue: victims and their broken addresses
    tracker,    \* the process that runs mlist_tracker, or NoProc
    stage,      \* where it is in the handler for the head of the queue
    recovery,   \* TRUE while the recovery lock of RL_FLAG_KMEM is taken
    recovered,  \* recovered_list: the addresses that were served
    used,       \* ghost: pages handed out
    bad,        \* ghost: addresses where an error was reported
    halted,     \* TRUE after panic, Fail-Stop or a trap of the kernel
    nmis, ops   \* counters for the bounds

vars == <<freelist, next, runs, kmem, lock, log_run, trans, pc, op, hand, addr,
          queue, tracker, stage, recovery, recovered, used, bad, halted, nmis, ops>>
lists == <<freelist, next, runs>>
procs == <<pc, op, hand, addr>>
nmiVars == <<queue, tracker, stage, recovery, recovered, bad, nmis>>

\* An entry of the NMI Queue; Null stands for an object of another kind.
Entry == [pid : Proc, addr : Home \cup {Null}]

TypeOK ==
    /\ freelist \in Pointer
    /\ next \in [Page -> Pointer]
    /\ runs \in Seq(Page)
    /\ kmem \in Home
    /\ lock \in [Home -> Proc \cup {NoProc}]
    /\ log_run \in Page \cup {Null}
    /\ trans \in [Proc -> Nat]
    /\ pc \in [Proc -> {"idle", "inside", "spin", "locked", "popped", "registered",
                        "linked", "nmi"}]
    /\ op \in [Proc -> {"kalloc", "kfree"}]
    /\ hand \in [Proc -> Page \cup {Null}]
    /\ addr \in [Proc -> Home]
    /\ queue \in Seq(Entry)
    /\ tracker \in Proc \cup {NoProc}
    /\ stage \in {"dispatch", "rollback", "endtrans", "taken", "leave"}
    /\ recovery \in BOOLEAN
    /\ recovered \subseteq Home
    /\ used \subseteq Page
    /\ bad \subseteq Home
    /\ halted \in BOOLEAN
    /\ nmis \in Nat /\ ops \in Nat

\* init_run_list stops at the page whose next is null: the last free page is
\* not registered.
Init ==
    /\ freelist = Head(FreePages)
    /\ next = [x \in Page |->
                 IF x \in UsedPages THEN Junk
                 ELSE LET i == CHOOSE j \in DOMAIN FreePages : FreePages[j] = x
                      IN  IF i = Len(FreePages) THEN Null ELSE FreePages[i + 1]]
    /\ runs = Front(FreePages)
    /\ kmem = Static
    /\ lock = [a \in Home |-> NoProc]
    /\ log_run = Null
    /\ trans = [p \in Proc |-> 0]
    /\ pc = [p \in Proc |-> "idle"]
    /\ op = [p \in Proc |-> "kalloc"]
    /\ hand = [p \in Proc |-> Null]
    /\ addr = [p \in Proc |-> Static]
    /\ queue = <<>>
    /\ tracker = NoProc
    /\ stage = "dispatch"
    /\ recovery = FALSE
    /\ recovered = {}
    /\ used = UsedPages
    /\ bad = {}
    /\ halted = FALSE
    /\ nmis = 0 /\ ops = 0

-----------------------------------------------------------------------------
At(p, l) == ~halted /\ pc[p] = l
Goto(p, l) == pc' = [pc EXCEPT ![p] = l]

\* register_memobj: in front of the list, unless it is there.
Registered(s, x) == IF x \in ToSet(s) THEN s ELSE <<x>> \o s

\* delete_memobj: the first node with the address.
Deleted(s, x) ==
    IF x \in ToSet(s) THEN RemoveAt(s, CHOOSE i \in DOMAIN s : s[i] = x) ELSE s

\* The address in the i-th node of the circular list; the header comes after
\* the last one.
NodeAddr(s, i) == IF i <= Len(s) THEN s[i] ELSE Junk

-----------------------------------------------------------------------------
(* kalloc and kfree. *)

\* Enter the section of RL_FLAG_KMEM, when nobody recovers.  kfree has filled
\* its page with junk before.
Call(p) ==
    /\ At(p, "idle") /\ ops < MaxOps /\ ~recovery
    /\ ops' = ops + 1
    /\ \/ /\ op' = [op EXCEPT ![p] = "kalloc"]
          /\ hand' = [hand EXCEPT ![p] = Null]
          /\ UNCHANGED used
       \/ \E x \in used :
            /\ op' = [op EXCEPT ![p] = "kfree"]
            /\ hand' = [hand EXCEPT ![p] = x]
            /\ used' = used \ {x}
    /\ Goto(p, "inside")
    /\ UNCHANGED <<lists, kmem, lock, log_run, trans, addr, nmiVars, halted>>

\* acquire(&kmem->lock): the pointer is read once, then the process spins.
Evaluate(p) ==
    /\ At(p, "inside")
    /\ addr' = [addr EXCEPT ![p] = kmem]
    /\ Goto(p, "spin")
    /\ UNCHANGED <<lists, kmem, lock, log_run, trans, op, hand, nmiVars, used,
                   halted, ops>>

Acquire(p) ==
    /\ At(p, "spin") /\ lock[addr[p]] = NoProc
    /\ lock' = [lock EXCEPT ![addr[p]] = p]
    /\ Goto(p, "locked")
    /\ UNCHANGED <<lists, kmem, log_run, trans, op, hand, addr, nmiVars, used,
                   halted, ops>>

\* kalloc: the first page of the free list, out of both lists.
Pop(p) ==
    /\ At(p, "locked") /\ op[p] = "kalloc"
    /\ IF freelist = Junk
       THEN halted' = TRUE /\ UNCHANGED <<lists, hand, pc>>
       ELSE /\ IF freelist = Null
               THEN UNCHANGED <<lists, hand>>
               ELSE /\ freelist' = next[freelist]
                    /\ runs' = Deleted(runs, freelist)
                    /\ hand' = [hand EXCEPT ![p] = freelist]
                    /\ UNCHANGED next
            /\ Goto(p, "popped")
            /\ UNCHANGED halted
    /\ UNCHANGED <<kmem, lock, log_run, trans, op, addr, nmiVars, used, ops>>

\* kfree: enter_trans_run and register_memobj
Register(p) ==
    /\ At(p, "locked") /\ op[p] = "kfree"
    /\ log_run' = hand[p]
    /\ trans' = [trans EXCEPT ![p] = @ + 1]
    /\ runs' = Registered(runs, hand[p])
    /\ Goto(p, "registered")
    /\ UNCHANGED <<freelist, next, kmem, lock, op, hand, addr, nmiVars, used,
                   halted, ops>>

\* kfree: link the page in and exit_trans_run
Link(p) ==
    /\ At(p, "registered")
    /\ next' = [next EXCEPT ![hand[p]] = freelist]
    /\ freelist' = hand[p]
    /\ trans' = [trans EXCEPT ![p] = @ - 1]
    /\ log_run' = Null
    /\ hand' = [hand EXCEPT ![p] = Null]
    /\ Goto(p, "linked")
    /\ UNCHANGED <<runs, kmem, lock, op, addr, nmiVars, used, halted, ops>>

\* release(&kmem->lock), which panics when kmem was replaced meanwhile; then
\* kalloc fills its page with junk and returns it.
Release(p) ==
    /\ At(p, "popped") \/ At(p, "linked")
    /\ IF lock[kmem] # p
       THEN halted' = TRUE /\ UNCHANGED <<next, lock, pc, hand, used>>
       ELSE /\ lock' = [lock EXCEPT ![kmem] = NoProc]
            /\ Goto(p, "idle")
            /\ IF hand[p] = Null
               THEN UNCHANGED <<next, hand, used>>
               ELSE /\ next' = [next EXCEPT ![hand[p]] = Junk]
                    /\ used' = used \cup {hand[p]}
                    /\ hand' = [hand EXCEPT ![p] = Null]
            /\ UNCHANGED halted
    /\ UNCHANGED <<freelist, runs, kmem, log_run, trans, op, addr, nmiVars, ops>>

-----------------------------------------------------------------------------
(* Memory errors. *)

\* What p accesses: struct kmem while it spins or holds the lock, the first
\* free page in kalloc, its own page in kfree, other objects elsewhere.  A
\* process that spins is the first to notice only if HitWaiters allows it.
Accessed(p) ==
    CASE pc[p] = "idle" -> {Null}
      [] pc[p] = "spin" -> IF HitWaiters \/ addr[p] \in bad THEN {addr[p]} ELSE {}
      [] pc[p] \in {"locked", "popped", "registered", "linked"}
             /\ (kmem = Static \/ HitAgain) ->
           {a \in Home : \/ a = kmem
                         \/ a = freelist /\ pc[p] = "locked" /\ op[p] = "kalloc"
                         \/ a = hand[p] /\ pc[p] = "registered"}
      [] OTHER -> {}

\* nmi_handle: the first victim becomes the recovery process.
Hit(p) ==
    /\ ~halted /\ nmis < MaxNmi
    /\ \E a \in Accessed(p) :
         /\ queue' = Append(queue, [pid |-> p, addr |-> a])
         /\ bad' = bad \cup ({a} \ {Null})
    /\ nmis' = nmis + 1
    /\ tracker' = IF tracker = NoProc THEN p ELSE tracker
    /\ Goto(p, "nmi")
    /\ UNCHANGED <<lists, kmem, lock, log_run, trans, op, hand, addr, stage,
                   recovery, recovered, used, halted, ops>>

Victim == Head(queue).pid
Broken == Head(queue).addr
Handling(s) == ~halted /\ queue # <<>> /\ stage = s

-----------------------------------------------------------------------------
(* The handlers, run by tracker. *)

\* Mutant: the free list begins with the page that becomes struct kmem.
KmemSurgery_early ==
    /\ Handling("dispatch") /\ Broken = kmem
    /\ recovery' = TRUE
    /\ IF runs = <<>>
       THEN halted' = TRUE /\ UNCHANGED <<lists, kmem, lock, stage>>
       ELSE /\ kmem' = Head(runs)
            /\ runs' = Deleted(runs, Head(runs))
            /\ freelist' = NodeAddr(runs, 1)
            /\ next' = [next EXCEPT ![Head(runs)] = Junk]
            /\ lock' = [lock EXCEPT ![Head(runs)] = NoProc]
            /\ stage' = IF trans[Victim] > 0 /\ Head(runs) # log_run
                        THEN "rollback" ELSE "leave"
            /\ UNCHANGED halted
    /\ UNCHANGED <<log_run, trans, procs, queue, tracker, recovered, used, bad,
                   nmis, ops>>

\* recovery_handler_kmem: the first registered page becomes the new struct
\* kmem, the second of the others the head of the free list; an empty list
\* gives a wild pointer.  The new lock is released again.
KmemSurgery ==
    /\ Handling("dispatch") /\ Broken = kmem
    /\ recovery' = TRUE
    /\ IF runs = <<>>
       THEN halted' = TRUE /\ UNCHANGED <<lists, kmem, lock, stage>>
       ELSE /\ kmem' = Head(runs)
            /\ runs' = Deleted(runs, Head(runs))
            /\ freelist' = NodeAddr(runs', 2)
            /\ next' = [next EXCEPT ![Head(runs)] = Junk]
            /\ lock' = [lock EXCEPT ![Head(runs)] = NoProc]
            /\ stage' = IF trans[Victim] > 0 /\ Head(runs) # log_run
                        THEN "rollback" ELSE "leave"
            /\ UNCHANGED halted
    /\ UNCHANGED <<log_run, trans, procs, queue, tracker, recovered, used, bad,
                   nmis, ops>>

\* check_and_handle_trans_run: put the logged page back.
Rollback ==
    /\ Handling("rollback") /\ lock[kmem] = NoProc
    /\ IF log_run = Null
       THEN halted' = TRUE /\ UNCHANGED <<lists, stage>>
       ELSE /\ next' = [next EXCEPT ![log_run] = freelist]
            /\ freelist' = log_run
            /\ runs' = Registered(runs, log_run)
            /\ stage' = "endtrans"
            /\ UNCHANGED halted
    /\ UNCHANGED <<kmem, lock, log_run, trans, procs, queue, tracker, recovery,
                   recovered, used, bad, nmis, ops>>

\* exit_trans_run, in the name of the recovery process
EndTrans ==
    /\ Handling("endtrans")
    /\ IF trans[tracker] < 1
       THEN halted' = TRUE /\ UNCHANGED <<trans, log_run, stage>>
       ELSE /\ trans' = [trans EXCEPT ![tracker] = @ - 1]
            /\ log_run' = Null
            /\ stage' = "leave"
            /\ UNCHANGED halted
    /\ UNCHANGED <<lists, kmem, lock, procs, queue, tracker, recovery, recovered,
                   used, bad, nmis, ops>>

\* Mutant: the free list starts behind the page that takes over.
RunSurgery_skip ==
    /\ Handling("dispatch") /\ Broken # kmem /\ Broken \in ToSet(runs)
    /\ recovery' = TRUE
    /\ runs' = Deleted(runs, Broken)
    /\ LET i == CHOOSE j \in DOMAIN runs : runs[j] = Broken
           r == IF i > 1 THEN runs[i - 1] ELSE NodeAddr(runs, 2)
           n == NodeAddr(runs, IF i > 1 THEN i + 1 ELSE 3)
       IN  IF r = Junk
           THEN halted' = TRUE /\ UNCHANGED <<freelist, next, lock, stage>>
           ELSE /\ next' = [next EXCEPT ![r] = n]
                /\ freelist' = Broken
                /\ lock' = IF lock[kmem] = tracker
                           THEN [lock EXCEPT ![kmem] = NoProc] ELSE lock
                /\ stage' = "leave"
                /\ UNCHANGED halted
    /\ UNCHANGED <<kmem, log_run, trans, procs, queue, tracker, recovered, used,
                   bad, nmis, ops>>

\* recovery_handler_run: the page in front of the broken one in the M-List, or
\* the first one left, becomes the head of the free list, followed by the next
\* one in the M-List.  kmem->lock is released if the recovery process holds it.
RunSurgery ==
    /\ Handling("dispatch") /\ Broken # kmem /\ Broken \in ToSet(runs)
    /\ recovery' = TRUE
    /\ runs' = Deleted(runs, Broken)
    /\ LET i == CHOOSE j \in DOMAIN runs : runs[j] = Broken
           r == IF i > 1 THEN runs[i - 1] ELSE NodeAddr(runs, 2)
           n == NodeAddr(runs, IF i > 1 THEN i + 1 ELSE 3)
       IN  IF r = Junk
           THEN halted' = TRUE /\ UNCHANGED <<freelist, next, lock, stage>>
           ELSE /\ next' = [next EXCEPT ![r] = n]
                /\ freelist' = r
                /\ lock' = IF lock[kmem] = tracker
                           THEN [lock EXCEPT ![kmem] = NoProc] ELSE lock
                /\ stage' = "leave"
                /\ UNCHANGED halted
    /\ UNCHANGED <<kmem, log_run, trans, procs, queue, tracker, recovered, used,
                   bad, nmis, ops>>

\* my_kalloc, called by the handler of another object: out of the free list ...
MyPop ==
    /\ Handling("dispatch") /\ Broken = Null /\ lock[kmem] = NoProc
    /\ IF freelist \in {Null, Junk}
       THEN halted' = TRUE /\ UNCHANGED <<freelist, hand, stage>>
       ELSE /\ freelist' = next[freelist]
            /\ hand' = [hand EXCEPT ![tracker] = freelist]
            /\ stage' = "taken"
            /\ UNCHANGED halted
    /\ UNCHANGED <<next, runs, kmem, lock, log_run, trans, pc, op, addr, queue,
                   tracker, recovery, recovered, used, bad, nmis, ops>>

\* ... and, after the lock was released, out of the M-List.
MyDelete ==
    /\ Handling("taken")
    /\ runs' = Deleted(runs, hand[tracker])
    /\ next' = [next EXCEPT ![hand[tracker]] = Junk]
    /\ used' = used \cup {hand[tracker]}
    /\ hand' = [hand EXCEPT ![tracker] = Null]
    /\ stage' = "leave"
    /\ UNCHANGED <<freelist, kmem, lock, log_run, trans, pc, op, addr, queue,
                   tracker, recovery, recovered, bad, halted, nmis, ops>>

\* The object was recovered already, or nothing is known of the address.
NotFound ==
    /\ Handling("dispatch")
    /\ Broken \notin ToSet(runs) \cup {kmem, Null}
    /\ IF Broken \in recovered
       THEN stage' = "leave" /\ UNCHANGED halted
       ELSE halted' = TRUE /\ UNCHANGED stage
    /\ UNCHANGED <<lists, kmem, lock, log_run, trans, procs, queue, tracker,
                   recovery, recovered, used, bad, nmis, ops>>

\* after_treatment: some callers of kalloc and kfree cannot go on.
FailStop ==
    /\ Handling("leave") /\ recovery
    /\ halted' = TRUE
    /\ UNCHANGED <<lists, kmem, lock, log_run, trans, procs, nmiVars, used, ops>>

\* The end of a victim: release_recovery_lock, check_all_locks, and the next
\* entry of the queue; the recovery process leaves after the last one.
Leave ==
    /\ Handling("leave")
    /\ recovery' = FALSE
    /\ recovered' = recovered \cup ({Broken} \ {Null})
    /\ lock' = IF lock[kmem] = Victim THEN [lock EXCEPT ![kmem] = NoProc] ELSE lock
    /\ queue' = Tail(queue)
    /\ stage' = "dispatch"
    /\ tracker' = IF Len(queue) = 1 THEN NoProc ELSE tracker
    /\ hand' = [hand EXCEPT ![Victim] = Null]
    /\ pc' = [p \in Proc |->
                IF (p = Victim /\ p # tracker) \/ (p = tracker /\ Len(queue) = 1)
                THEN "idle" ELSE pc[p]]
    /\ UNCHANGED <<lists, kmem, log_run, trans, op, addr, used, bad, halted, nmis,
                   ops>>

Tracker ==
    \/ KmemSurgery \/ Rollback \/ EndTrans \/ RunSurgery \/ MyPop \/ MyDelete
    \/ NotFound \/ FailStop \/ Leave

Next ==
    \/ \E p \in Proc : \/ Call(p) \/ Evaluate(p) \/ Acquire(p) \/ Pop(p)
                       \/ Register(p) \/ Link(p) \/ Release(p) \/ Hit(p)
    \/ Tracker

Spec == Init /\ [][Next]_vars

-----------------------------------------------------------------------------
(* Properties. *)

\* What the free list leads to: its pages, and Null or Junk at its end.
Reached ==
    LET R[n \in Nat] == IF n = 0 THEN {freelist}
                        ELSE R[n - 1] \cup {next[x] : x \in R[n - 1] \cap Page}
    IN  R[Cardinality(Page)]
FreeChain == Reached \cap Page

\* A page has one use: it is handed out, or struct kmem, or on the free list,
\* which has an end (kalloc returns a pointer that the kernel can use).
NoDoubleUse ==
    /\ FreeChain \cap (used \cup {kmem}) = {}
    /\ kmem \notin used
    /\ Reached \ Page # {}

\* The handlers take pages from the M-List: none of them is in use.
RunsUnused == ToSet(runs) \cap (used \cup {kmem}) = {}

\* Whoever searches the free list finds its pages in the M-List, in the same
\* order, but for the page that init_run_list left out.
Quiet == queue = <<>> /\ \A p \in Proc : pc[p] \in {"idle", "inside", "spin"}
FreeRegistered ==
    ~halted /\ Quiet =>
        /\ FreeChain \subseteq ToSet(runs) \cup {Last(FreePages)}
        /\ \A i \in DOMAIN runs : runs[i] \in FreeChain /\ next[runs[i]] \in Page =>
              \E j \in i + 1 .. Len(runs) + 1 :
                 next[runs[i]] = Append(runs, Last(FreePages))[j]
\* The two together: the M-List of free pages can be used to rebuild the free
\* list at any time.
RunListExact == TypeOK /\ RunsUnused /\ FreeRegistered
=============================================================================
