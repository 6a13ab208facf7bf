--------------------------- MODULE NmiQueueProofs ---------------------------
(* However many processes memory errors hit, and however they race for the *)
(* function pointers, one process at a time runs the recovery handlers.    *)
EXTENDS NmiQueue, TLAPS, WellFoundedInduction

\* mem_nmi_handle_follow's search for the first free slot finds one.
LEMMA LeastNumber ==
    ASSUME NEW S, S \subseteq Nat, S # {}
    PROVE  \E m \in S : \A k \in S : m <= k
<1>1. \E m \in S : \A k \in S : ~ (<<k, m>> \in OpToRel(<, Nat))
  BY WFMin, NatLessThanWellFounded
<1>2. PICK m \in S : \A k \in S : ~ (<<k, m>> \in OpToRel(<, Nat))
  BY <1>1
<1>3. \A k \in S : ~ (k < m)
  BY <1>2 DEF OpToRel
<1>4. QED BY <1>3

\* ret_and_search_nmiqueue's shift yields a queue of the same size.
LEMMA ShiftedType ==
    ASSUME NEW q \in [Slot -> Entry]
    PROVE  Shifted(q) \in [Slot -> Entry]
BY DEF Shifted, Empty, Slot

\* The entry that mem_nmi_handle_first fills the queue with.
LEMMA EmptyType == EmptyEntry \in Entry
BY DEF EmptyEntry, Entry

\* The state after boot.
LEMMA InitType == Init => TypeOK
<1> SUFFICES ASSUME Init PROVE TypeOK
  OBVIOUS
<1>1. slots \in [Slot -> Entry] BY EmptyType DEF Init
<1>2. QED BY <1>1 DEF Init, TypeOK, Pc

\* nmi_handle
LEMMA HandleType ==
    ASSUME TypeOK, NEW p \in Proc, Handle(p)
    PROVE  TypeOK'
<1>1. CASE Check(p) BY <1>1 DEF Check, TypeOK, Halt, GoOn, Goto, Pc, tracking, ghosts
<1>2. CASE Arm(p) BY <1>2 DEF Arm, TypeOK, Halt, GoOn, Goto, Pc, tracking, ghosts
<1>3. CASE Scan(p) BY <1>3 DEF Scan, TypeOK, Goto, Pc, tracking, ghosts
<1>4. CASE Choose(p) BY <1>4 DEF Choose, TypeOK, Goto, Pc, tracking, ghosts
<1>5. CASE Dispatch(p) BY <1>5 DEF Dispatch, TypeOK, Halt, GoOn, Goto, Pc, tracking, ghosts
<1>6. QED BY <1>1, <1>2, <1>3, <1>4, <1>5 DEF Handle

\* mem_nmi_handle_first
LEMMA LeadType ==
    ASSUME TypeOK, NEW p \in Proc, Lead(p)
    PROVE  TypeOK'
<1>1. CASE First(p) BY <1>1 DEF First, TypeOK, Goto, Pc, tracking, ghosts
<1>2. CASE MakeQueue(p)
  <2>1. [addr |-> addr[p], pid |-> p, res |-> None] \in Entry
    BY DEF TypeOK, Entry
  <2>2. slots' \in [Slot -> Entry]
    BY <1>2, <2>1, EmptyType DEF MakeQueue, TypeOK
  <2>3. active' \in BOOLEAN /\ halted' \in BOOLEAN /\ pc' \in [Proc -> Pc]
    BY <1>2 DEF MakeQueue, TypeOK, Halt, GoOn, Goto, Pc, OwnerPc
  <2>4. QED
    BY <1>2, <2>2, <2>3 DEF MakeQueue, TypeOK, tracking, ghosts
<1>3. CASE Mark(p) BY <1>3 DEF Mark, TypeOK, Goto, Pc, OwnerPc, tracking, ghosts
<1>4. CASE Rearm(p) BY <1>4 DEF Rearm, TypeOK, Goto, Pc, OwnerPc, tracking, ghosts
<1>5. CASE Track(p)
  BY <1>5 DEF Track, TypeOK, Halt, GoOn, Goto, Pc, OwnerPc, ghosts
<1>6. QED BY <1>1, <1>2, <1>3, <1>4, <1>5 DEF Lead

\* The head entry exists.
LEMMA HeadSlot == 0 \in Slot
BY QueueAssumption DEF Slot

\* mlist_tracker
LEMMA ServeType ==
    ASSUME TypeOK, NEW p \in Proc, Serve(p)
    PROVE  TypeOK'
<1>1. CASE Recover(p)
  <2>1. slots[0].pid \in Proc \cup {NoProc}
    BY HeadSlot DEF TypeOK, Entry
  <2>2. /\ res' \in [Proc -> Status \cup {None}]
        /\ result' \in [Proc -> Status \cup {None}]
        /\ term' \in [Proc -> Status \cup {None}]
    BY <1>1, <2>1 DEF Recover, TypeOK
  <2>3. halted' \in BOOLEAN /\ pc' \in [Proc -> Pc]
    BY <1>1 DEF Recover, TypeOK, Halt, GoOn, Goto, Pc, OwnerPc
  <2>4. QED
    BY <1>1, <2>2, <2>3 DEF Recover, TypeOK, ghosts
<1>2. CASE Report(p)
  <2>1. [slots[0] EXCEPT !.res = res[p]] \in Entry
    BY SMTT(60), HeadSlot DEF TypeOK, Entry
  <2>2. slots' \in [Slot -> Entry]
    BY <1>2, <2>1, HeadSlot DEF Report, TypeOK
  <2>3. QED
    BY <1>2, <2>2 DEF Report, TypeOK, Goto, Pc, OwnerPc, tracking, ghosts
<1>3. CASE Await(p) BY <1>3 DEF Await, TypeOK, Goto, Pc, OwnerPc, tracking, ghosts
<1>4. CASE Shift(p)
  BY <1>4, ShiftedType DEF Shift, TypeOK, Goto, Pc, OwnerPc, tracking, ghosts
<1>5. CASE Cleanup(p) BY <1>5 DEF Cleanup, TypeOK, Goto, Pc, OwnerPc, tracking, ghosts
<1>6. CASE Clear(p)
  BY <1>6, EmptyType DEF Clear, TypeOK, Goto, Pc, OwnerPc, tracking
<1>7. QED BY <1>1, <1>2, <1>3, <1>4, <1>5, <1>6 DEF Serve

\* mem_nmi_handle_follow
LEMMA AttendType ==
    ASSUME TypeOK, NEW p \in Proc, Attend(p)
    PROVE  TypeOK'
<1>1. CASE Follow(p)
  <2>1. [addr |-> addr[p], pid |-> p, res |-> None] \in Entry
    BY DEF TypeOK, Entry
  <2>2. slots' \in [Slot -> Entry]
    BY <1>1, <2>1 DEF Follow, TypeOK, Free
  <2>3. QED
    BY <1>1, <2>2 DEF Follow, TypeOK, Halt, GoOn, Goto, Pc, OwnerPc, tracking, ghosts
<1>2. CASE Wait(p) BY <1>2 DEF Wait, TypeOK, Goto, Pc, OwnerPc, tracking, ghosts
<1>3. CASE Poll(p) BY <1>3 DEF Poll, TypeOK, Goto, Pc, OwnerPc, ghosts
<1>4. CASE Take(p)
  BY <1>4, EmptyType, HeadSlot DEF Take, TypeOK, Goto, Pc, OwnerPc, tracking
<1>5. QED BY <1>1, <1>2, <1>3, <1>4 DEF Attend

\* Every step keeps the types.
LEMMA NextType == TypeOK /\ [Next]_vars => TypeOK'
<1> SUFFICES ASSUME TypeOK, [Next]_vars PROVE TypeOK'
  OBVIOUS
<1>1. CASE UNCHANGED vars BY <1>1 DEF vars, TypeOK
<1>2. ASSUME NEW p \in Proc, Nmi(p) PROVE TypeOK'
  BY <1>2 DEF Nmi, TypeOK, Goto, Pc
<1>3. ASSUME NEW p \in Proc, Yield(p) PROVE TypeOK'
  BY <1>3 DEF Yield, TypeOK, tracking, ghosts
<1>4. QED
  BY <1>1, <1>2, <1>3, HandleType, LeadType, ServeType, AttendType DEF Next, Step

\* Type correctness of NMI shepherding, for every number of processes and
\* every size of the queue.
THEOREM TypeCorrect == Spec => []TypeOK
BY InitType, NextType, PTL DEF Spec

-----------------------------------------------------------------------------
\* What a step does to the queue pointer and to who owns the queue.
OwnerStep(p) ==
    \/ UNCHANGED <<active, Owners>>
    \/ ~active /\ active' /\ Owners' = Owners \cup {p}     \* MakeQueue
    \/ p \in Owners /\ ~active' /\ Owners' = Owners \ {p}  \* Clear

\* Only mem_nmi_handle_first and cleanup_after_recovery change the owner.
LEMMA StepOwners ==
    ASSUME TypeOK, NEW p \in Proc, Nmi(p) \/ Step(p) \/ Yield(p)
    PROVE  OwnerStep(p)
<1>1. CASE Nmi(p) BY <1>1 DEF Nmi, At, Goto, OwnerStep, Owners, OwnerPc, TypeOK
<1>2. CASE Yield(p) BY <1>2 DEF Yield, OwnerStep, Owners
<1>3. CASE Handle(p)
  <2>1. UNCHANGED active
    BY <1>3 DEF Handle, Check, Arm, Scan, Choose, Dispatch
  <2>2. /\ pc[p] \notin OwnerPc
        /\ pc' = pc \/ \E l \in Pc \ OwnerPc : pc' = [pc EXCEPT ![p] = l]
    BY <1>3 DEF Handle, Check, Arm, Scan, Choose, Dispatch, At, Goto, Pc, OwnerPc, TypeOK
  <2>3. QED BY <2>1, <2>2 DEF OwnerStep, Owners, TypeOK
<1>4. CASE Lead(p)
  <2>1. CASE First(p) BY <2>1 DEF First, At, Goto, OwnerStep, Owners, OwnerPc, TypeOK
  <2>2. CASE MakeQueue(p)
    BY <2>2 DEF MakeQueue, At, Goto, Halt, GoOn, OwnerStep, Owners, OwnerPc, TypeOK
  <2>3. CASE Mark(p) \/ Rearm(p) \/ Track(p)
    <3>1. UNCHANGED active
      BY <2>3 DEF Mark, Rearm, Track
    <3>2. /\ pc[p] \in OwnerPc
          /\ pc' = pc \/ \E l \in OwnerPc : pc' = [pc EXCEPT ![p] = l]
      BY <2>3 DEF Mark, Rearm, Track, At, Goto, OwnerPc
    <3>3. QED BY <3>1, <3>2 DEF OwnerStep, Owners, TypeOK
  <2>4. QED BY <1>4, <2>1, <2>2, <2>3 DEF Lead
<1>5. CASE Serve(p)
  <2>1. CASE Clear(p)
    BY <2>1 DEF Clear, At, Goto, OwnerStep, Owners, OwnerPc, TypeOK
  <2>2. CASE Recover(p) \/ Report(p) \/ Await(p) \/ Shift(p) \/ Cleanup(p)
    <3>1. UNCHANGED active
      BY <2>2 DEF Recover, Report, Await, Shift, Cleanup
    <3>2. /\ pc[p] \in OwnerPc
          /\ pc' = pc \/ \E l \in OwnerPc : pc' = [pc EXCEPT ![p] = l]
      BY <2>2 DEF Recover, Report, Await, Shift, Cleanup, At, Goto, OwnerPc
    <3>3. QED BY <3>1, <3>2 DEF OwnerStep, Owners, TypeOK
  <2>3. QED BY <1>5, <2>1, <2>2 DEF Serve
<1>6. CASE Attend(p)
  <2>1. UNCHANGED active
    BY <1>6 DEF Attend, Follow, Wait, Poll, Take
  <2>2. /\ pc[p] \notin OwnerPc
        /\ pc' = pc \/ \E l \in Pc \ OwnerPc : pc' = [pc EXCEPT ![p] = l]
    BY <1>6 DEF Attend, Follow, Wait, Poll, Take, At, Goto, Pc, OwnerPc
  <2>3. QED BY <2>1, <2>2 DEF OwnerStep, Owners, TypeOK
<1>7. QED BY <1>1, <1>2, <1>3, <1>4, <1>5, <1>6 DEF Step

\* SoleTracker needs QueueOwned: whoever creates a queue has seen none.
LEMMA NextOwners ==
    TypeOK /\ SoleTracker /\ QueueOwned /\ [Next]_vars => (SoleTracker /\ QueueOwned)'
<1> SUFFICES ASSUME TypeOK, SoleTracker, QueueOwned, [Next]_vars
             PROVE  (SoleTracker /\ QueueOwned)'
  OBVIOUS
<1>1. CASE UNCHANGED vars
  BY <1>1 DEF vars, SoleTracker, QueueOwned, Owners
<1>2. ASSUME NEW p \in Proc, Nmi(p) \/ Step(p) \/ Yield(p)
      PROVE  (SoleTracker /\ QueueOwned)'
  <2>1. OwnerStep(p) BY <1>2, StepOwners
  <2>2. active \in BOOLEAN /\ active' \in BOOLEAN
    BY <1>2, NextType DEF TypeOK, Next
  <2>3. QED BY <2>1, <2>2 DEF OwnerStep, SoleTracker, QueueOwned
<1>3. QED BY <1>1, <1>2 DEF Next

\* One recovery process at a time: SoleTracker, together with the fact that
\* nmi_queue is valid exactly while its owner is inside mem_nmi_handle_first.
THEOREM OneRecoveryProcess == Spec => [](SoleTracker /\ QueueOwned)
<1>1. Init => SoleTracker /\ QueueOwned
  BY DEF Init, SoleTracker, QueueOwned, Owners, OwnerPc
<1>2. QED BY <1>1, NextOwners, TypeCorrect, PTL DEF Spec

-----------------------------------------------------------------------------
(* Who is in the queue, and with which status. *)

\* A process that passed an address to nmi_handle, until it leaves.
Hit(p) == pc[p] \notin {"run", "dead"}

\* A process that waits in mem_nmi_handle_follow.
Follower(p) == pc[p] \in {"wait", "poll", "take"}

\* An entry is used or empty; the entries of a queue nobody owns are empty.
EntryInv ==
    /\ \A p \in Proc : Hit(p) => addr[p] # NoAddr
    /\ \A i \in Slot : slots[i].addr = NoAddr <=> slots[i].pid = NoProc
    /\ ~active => \A i \in Slot : slots[i].pid = NoProc

\* One entry per process; behind the head they belong to processes that wait
\* and have no status yet.
QueueInv ==
    /\ \A i, j \in Slot : slots[i].pid = slots[j].pid /\ slots[i].pid # NoProc => i = j
    /\ \A i \in Slot \ {0} : slots[i].pid # NoProc =>
            slots[i].res = None /\ pc[slots[i].pid] \in {"wait", "poll"}

\* The head entry belongs to the recovery process p or to one that waits; its
\* status is the one computed for that process.
HeadInv ==
    LET h == slots[0]
    IN  \A p \in Owners :
            /\ h.pid \notin {NoProc, p} => Follower(h.pid)
            /\ h.pid # NoProc /\ h.res # None => h.res = result[h.pid] /\ pc[p] \in {"await", "shift"}
            /\ pc[p] = "report" => h.pid # NoProc /\ res[p] = result[h.pid] /\ res[p] # None
            /\ pc[p] = "recover" => h.pid # NoProc
            /\ pc[p] \in {"mark", "rearm", "track"} => h.pid = p
            /\ pc[p] = "shift" => h.pid \in {NoProc, p}

\* Whoever leaves next has the status computed for its error.
TermInv ==
    /\ \A p \in Owners :
            pc[p] \in {"mark", "rearm", "track"} \/ (pc[p] = "recover" /\ slots[0].pid = p)
            \/ term[p] = result[p]
    /\ \A p \in Proc : pc[p] = "take" =>
            slots[0].pid = p /\ slots[0].res # None /\ term[p] = result[p]

ServeInv == kept \/ (EntryInv /\ QueueInv /\ HeadInv /\ TermInv)

\* The data that the queue's entries and statuses are made of.
qdata == <<active, slots, res, term, result, kept, addr>>

\* Labels of nmi_handle and mem_nmi_handle_first, before a queue is seen.
Outside == {"check", "arm", "scan", "choose", "dispatch", "first", "queue", "follow"}

\* Steps of nmi_handle and of the function pointers: nobody in the queue moves.
LEMMA QuietServe ==
    ASSUME TypeOK, ServeInv, NEW p \in Proc, UNCHANGED qdata,
           \/ pc' = pc
           \/ pc[p] \in Outside /\ \E l \in Outside : pc' = [pc EXCEPT ![p] = l]
    PROVE  ServeInv'
<1> SUFFICES ASSUME ~kept PROVE ServeInv'
  BY DEF ServeInv, qdata
<1>1. Owners' = Owners /\ \A q \in Proc : pc'[q] # pc[q] => pc[q] \in Outside /\ pc'[q] \in Outside
  BY DEF Owners, OwnerPc, Outside, TypeOK
<1>2. \A i \in Slot : slots[i].pid \in Proc \cup {NoProc}
  BY DEF TypeOK, Entry
<1>3. EntryInv'
  BY <1>1 DEF ServeInv, EntryInv, Hit, qdata, Outside
<1>4. QueueInv'
  BY <1>1, <1>2 DEF ServeInv, QueueInv, qdata, Outside
<1>5. HeadInv'
  <2>1. \A q \in Owners : pc'[q] = pc[q] BY <1>1 DEF Owners, OwnerPc, Outside
  <2>2. QED BY <1>1, <1>2, <2>1, HeadSlot DEF ServeInv, HeadInv, Follower, qdata, Outside
<1>6. TermInv'
  <2>1. \A q \in Owners : pc'[q] = pc[q] BY <1>1 DEF Owners, OwnerPc, Outside
  <2>2. QED BY <1>1, <2>1 DEF ServeInv, TermInv, qdata, Outside
<1>7. QED BY <1>3, <1>4, <1>5, <1>6 DEF ServeInv

\* nmi_handle's own steps are such steps.
LEMMA HandleServe ==
    ASSUME TypeOK, ServeInv, NEW p \in Proc, Handle(p) \/ First(p) \/ Yield(p)
    PROVE  ServeInv'
<1>1. UNCHANGED qdata
  BY DEF Handle, Check, Arm, Scan, Choose, Dispatch, First, Yield, qdata, tracking, ghosts
<1>2. \/ pc' = pc
      \/ pc[p] \in Outside /\ \E l \in Outside : pc' = [pc EXCEPT ![p] = l]
  BY DEF Handle, Check, Arm, Scan, Choose, Dispatch, First, Yield, At, Goto, Outside, TypeOK
<1>3. QED BY <1>1, <1>2, QuietServe

\* A memory error: its victim has no entry, for it was outside.
LEMMA NmiServe ==
    ASSUME TypeOK, ServeInv, NEW p \in Proc, Nmi(p)
    PROVE  ServeInv'
<1> SUFFICES ASSUME ~kept PROVE ServeInv'
  BY DEF ServeInv, Nmi
<1>0. PICK a \in Addr : addr' = [addr EXCEPT ![p] = a]
  BY DEF Nmi
<1>1. /\ pc[p] = "run" /\ pc' = [pc EXCEPT ![p] = "check"]
      /\ result' = [result EXCEPT ![p] = None]
      /\ UNCHANGED <<active, slots, res, term, kept>>
  BY DEF Nmi, At, Goto
<1>2. \A i \in Slot : slots[i].pid \in Proc \cup {NoProc}
  BY DEF TypeOK, Entry
<1>3. Owners' = Owners /\ p \notin Owners
  BY <1>1 DEF Owners, OwnerPc, TypeOK
<1>4. EntryInv'
  BY <1>0, <1>1, AddrAssumption DEF ServeInv, EntryInv, Hit, TypeOK
<1>5. QueueInv'
  BY <1>1, <1>2 DEF ServeInv, QueueInv, TypeOK
<1>6. HeadInv'
  <2>1. \A q \in Owners : pc'[q] = pc[q] /\ slots[0].pid # p
    BY <1>1, <1>3, HeadSlot, ProcAssumption DEF ServeInv, HeadInv, Follower, TypeOK
  <2>2. \A q \in Proc : q # p => pc'[q] = pc[q] /\ result'[q] = result[q]
    BY <1>1 DEF TypeOK
  <2>3. QED BY <1>1, <1>2, <1>3, <2>1, <2>2, HeadSlot DEF ServeInv, HeadInv, Follower
<1>7. TermInv'
  <2>1. \A q \in Proc : q # p => pc'[q] = pc[q] /\ result'[q] = result[q]
    BY <1>1 DEF TypeOK
  <2>2. pc'[p] = "check" BY <1>1 DEF TypeOK
  <2>3. QED BY <1>1, <1>3, <2>1, <2>2 DEF ServeInv, TermInv, Owners
<1>8. QED BY <1>4, <1>5, <1>6, <1>7 DEF ServeInv

\* A queue is created: its only entry is its owner's.
LEMMA MakeQueueServe ==
    ASSUME TypeOK, QueueOwned, ServeInv, NEW p \in Proc, MakeQueue(p)
    PROVE  ServeInv'
<1>1. CASE qlock = p \/ active
  <2>1. UNCHANGED qdata
    BY <1>1, ProcAssumption DEF MakeQueue, qdata, tracking, ghosts, TypeOK
  <2>2. \/ pc' = pc
        \/ pc[p] \in Outside /\ \E l \in Outside : pc' = [pc EXCEPT ![p] = l]
    BY <1>1, ProcAssumption DEF MakeQueue, At, Goto, Outside
  <2>3. QED BY <2>1, <2>2, QuietServe
<1>2. CASE qlock # p /\ ~active
  <2> SUFFICES ASSUME ~kept PROVE ServeInv'
    BY DEF ServeInv, MakeQueue, tracking
  <2>1. /\ pc[p] = "queue" /\ pc' = [pc EXCEPT ![p] = "mark"]
        /\ active' = TRUE
        /\ slots' = [[i \in Slot |-> EmptyEntry]
                       EXCEPT ![0] = [addr |-> addr[p], pid |-> p, res |-> None]]
        /\ UNCHANGED <<res, term, result, kept, addr>>
    BY <1>2 DEF MakeQueue, At, Goto, tracking, ghosts
  <2>2. Owners = {} /\ Owners' = {p}
    BY <1>2, <2>1 DEF QueueOwned, Owners, OwnerPc, TypeOK
  <2>3. /\ slots'[0].pid = p /\ slots'[0].res = None /\ slots'[0].addr = addr[p]
        /\ \A i \in Slot \ {0} : slots'[i].pid = NoProc /\ slots'[i].addr = NoAddr
    BY <2>1, HeadSlot DEF EmptyEntry
  <2>4. addr[p] # NoAddr /\ p # NoProc
    BY <2>1, ProcAssumption DEF ServeInv, EntryInv, Hit
  <2>5. \A q \in Proc : q # p => pc'[q] = pc[q]
    BY <2>1 DEF TypeOK
  <2>6. EntryInv'
    BY <2>1, <2>3, <2>4, <2>5 DEF ServeInv, EntryInv, Hit
  <2>7. QueueInv'
    BY <2>3 DEF QueueInv
  <2>8. HeadInv'
    BY <2>1, <2>2, <2>3 DEF HeadInv, TypeOK
  <2>9. TermInv'
    <3>1. \A q \in Proc : pc[q] # "take"
      BY <1>2, HeadSlot, ProcAssumption DEF ServeInv, EntryInv, TermInv
    <3>2. pc'[p] = "mark" BY <2>1 DEF TypeOK
    <3>3. QED BY <2>2, <2>5, <3>1, <3>2 DEF TermInv
  <2>10. QED BY <2>6, <2>7, <2>8, <2>9 DEF ServeInv
<1>3. QED BY <1>1, <1>2

\* mem_nmi_handle_first up to the call of the handler.
LEMMA LeadServe ==
    ASSUME TypeOK, SoleTracker, ServeInv, NEW p \in Proc, Mark(p) \/ Rearm(p) \/ Track(p)
    PROVE  ServeInv'
<1> SUFFICES ASSUME ~kept PROVE ServeInv'
  BY DEF ServeInv, Mark, Rearm, Track, tracking
<1>1. /\ UNCHANGED <<active, slots, res, result, kept, addr>>
      /\ pc[p] \in {"mark", "rearm", "track"}
      /\ \A q \in Proc : q # p => term'[q] = term[q] /\ pc'[q] = pc[q]
      /\ pc'[p] \in {"rearm", "track", "recover"}
  BY DEF Mark, Rearm, Track, At, Goto, GoOn, Halt, tracking, ghosts, TypeOK
<1>2. p \in Owners /\ Owners' = Owners
  BY <1>1 DEF Owners, OwnerPc
<1>3. Owners = {p}
  BY <1>2 DEF SoleTracker
<1>4. slots[0].pid = p
  BY <1>1, <1>2 DEF ServeInv, HeadInv
<1>5. \A i \in Slot : slots[i].pid \in Proc \cup {NoProc}
  BY DEF TypeOK, Entry
<1>6. EntryInv'
  BY <1>1 DEF ServeInv, EntryInv, Hit
<1>7. QueueInv'
  BY <1>1, <1>4, <1>5, HeadSlot DEF ServeInv, QueueInv
<1>8. HeadInv'
  BY <1>1, <1>2, <1>3, <1>4, ProcAssumption DEF ServeInv, HeadInv
<1>9. TermInv'
  BY <1>1, <1>2, <1>3, <1>4 DEF ServeInv, TermInv
<1>10. QED BY <1>6, <1>7, <1>8, <1>9 DEF ServeInv

\* A handler has decided: for the process of the head entry.
LEMMA RecoverServe ==
    ASSUME TypeOK, SoleTracker, ServeInv, NEW p \in Proc, Recover(p)
    PROVE  ServeInv'
<1>1. CASE pc' = pc /\ UNCHANGED <<res, result, term>>
  BY <1>1, QuietServe DEF Recover, qdata, ghosts
<1>2. ASSUME NEW s \in Status,
             res' = [res EXCEPT ![p] = s],
             result' = [q \in Proc |-> IF q = slots[0].pid THEN s ELSE result[q]],
             term' = IF slots[0].pid = p THEN [term EXCEPT ![p] = s] ELSE term,
             pc' = [pc EXCEPT ![p] = "report"]
      PROVE  ServeInv'
  <2> SUFFICES ASSUME ~kept PROVE ServeInv'
    BY DEF ServeInv, Recover
  <2>1. pc[p] = "recover" /\ UNCHANGED <<active, slots, kept, addr>>
    BY DEF Recover, At, ghosts
  <2>2. p \in Owners /\ Owners' = Owners /\ Owners = {p}
    BY <1>2, <2>1 DEF Owners, OwnerPc, TypeOK, SoleTracker
  <2>3. slots[0].pid # NoProc /\ slots[0].pid \in Proc /\ slots[0].res = None
    BY <2>1, <2>2, HeadSlot DEF ServeInv, HeadInv, TypeOK, Entry
  <2>4. pc'[p] = "report" /\ \A q \in Proc : q # p => pc'[q] = pc[q]
    BY <1>2 DEF TypeOK
  <2>5. EntryInv'
    BY <2>1, <2>4 DEF ServeInv, EntryInv, Hit
  <2>6. QueueInv'
    <3>1. \A i \in Slot \ {0} : slots[i].pid # NoProc => slots[i].pid # p
      BY <2>1 DEF ServeInv, QueueInv
    <3>2. \A i \in Slot : slots[i].pid \in Proc \cup {NoProc}
      BY DEF TypeOK, Entry
    <3>3. QED BY <2>1, <2>4, <3>1, <3>2 DEF ServeInv, QueueInv
  <2>7. HeadInv'
    <3>1. result'[slots[0].pid] = s /\ res'[p] = s /\ s # None
      BY <1>2, <2>3 DEF TypeOK, Status, None
    <3>2. QED BY <2>1, <2>2, <2>3, <2>4, <3>1 DEF ServeInv, HeadInv, Follower
  <2>8. TermInv'
    <3>1. term'[p] = result'[p]
      BY <1>2, <2>1, <2>2 DEF ServeInv, TermInv, TypeOK
    <3>2. \A q \in Proc : pc[q] # "take"
      BY <2>3 DEF ServeInv, TermInv
    <3>3. QED BY <2>2, <2>4, <3>1, <3>2 DEF TermInv
  <2>9. QED BY <2>5, <2>6, <2>7, <2>8 DEF ServeInv
<1>3. QED BY <1>1, <1>2 DEF Recover, Goto

\* ret_and_search_nmiqueue reports the status to the process of the head entry.
LEMMA ReportServe ==
    ASSUME TypeOK, SoleTracker, ServeInv, NEW p \in Proc, Report(p)
    PROVE  ServeInv'
<1> SUFFICES ASSUME ~kept PROVE ServeInv'
  BY DEF ServeInv, Report, tracking
<1>1. /\ pc[p] = "report" /\ pc' = [pc EXCEPT ![p] = "await"]
      /\ slots' = [slots EXCEPT ![0].res = res[p]]
      /\ UNCHANGED <<active, res, term, result, kept, addr>>
  BY DEF Report, At, Goto, tracking, ghosts
<1>2. p \in Owners /\ Owners' = Owners /\ Owners = {p}
  BY <1>1 DEF Owners, OwnerPc, TypeOK, SoleTracker
<1>3. /\ slots'[0].pid = slots[0].pid /\ slots'[0].addr = slots[0].addr
      /\ slots'[0].res = res[p]
      /\ \A i \in Slot \ {0} : slots'[i] = slots[i]
  BY <1>1, HeadSlot DEF TypeOK, Entry
<1>4. pc'[p] = "await" /\ \A q \in Proc : q # p => pc'[q] = pc[q]
  BY <1>1 DEF TypeOK
<1>5. \A i \in Slot : slots[i].pid \in Proc \cup {NoProc} /\ slots'[i].pid = slots[i].pid
                      /\ slots'[i].addr = slots[i].addr
  BY <1>3 DEF TypeOK, Entry
<1>6. EntryInv'
  BY <1>1, <1>4, <1>5 DEF ServeInv, EntryInv, Hit
<1>7. QueueInv'
  <2>1. \A i \in Slot \ {0} : slots[i].pid # NoProc => slots[i].pid # p
    BY <1>1 DEF ServeInv, QueueInv
  <2>2. QED BY <1>3, <1>4, <1>5, <2>1 DEF ServeInv, QueueInv
<1>8. HeadInv'
  <2>1. res[p] = result[slots[0].pid] /\ res[p] # None
    BY <1>1, <1>2 DEF ServeInv, HeadInv
  <2>2. QED BY <1>1, <1>2, <1>3, <1>4, <1>5, <2>1, HeadSlot DEF ServeInv, HeadInv, Follower
<1>9. TermInv'
  <2>1. \A q \in Proc : pc[q] = "take" => FALSE
    BY <1>1, <1>2, HeadSlot, ProcAssumption DEF ServeInv, TermInv, HeadInv
  <2>2. QED BY <1>1, <1>2, <1>4, <2>1 DEF ServeInv, TermInv
<1>10. QED BY <1>6, <1>7, <1>8, <1>9 DEF ServeInv

\* Leaving the wait for the victim, and cleanup_after_recovery.
LEMMA AwaitServe ==
    ASSUME TypeOK, SoleTracker, ServeInv, NEW p \in Proc, Await(p) \/ Cleanup(p)
    PROVE  ServeInv'
<1> SUFFICES ASSUME ~kept PROVE ServeInv'
  BY DEF ServeInv, Await, Cleanup, tracking
<1>1. /\ UNCHANGED <<active, slots, res, term, result, kept, addr>>
      /\ \/ /\ pc[p] = "await" /\ pc' = [pc EXCEPT ![p] = "shift"]
            /\ slots[0].pid # p => slots[0].addr = NoAddr
         \/ pc[p] = "cleanup" /\ pc' = [pc EXCEPT ![p] = "clear"]
  BY DEF Await, Cleanup, At, Goto, tracking, ghosts
<1>2. p \in Owners /\ Owners' = Owners /\ Owners = {p}
  BY <1>1 DEF Owners, OwnerPc, TypeOK, SoleTracker
<1>3. /\ pc'[p] \in {"shift", "clear"} /\ \A q \in Proc : q # p => pc'[q] = pc[q]
      /\ pc'[p] = "shift" => pc[p] = "await" /\ slots[0].pid \in {NoProc, p}
      /\ pc'[p] = "clear" => pc[p] = "cleanup"
  BY <1>1, HeadSlot DEF TypeOK, ServeInv, EntryInv
<1>4. \A i \in Slot : slots[i].pid \in Proc \cup {NoProc}
  BY DEF TypeOK, Entry
<1>5. EntryInv'
  BY <1>1, <1>3 DEF ServeInv, EntryInv, Hit
<1>6. QueueInv'
  <2>1. \A i \in Slot \ {0} : slots[i].pid # NoProc => slots[i].pid # p
    BY <1>1 DEF ServeInv, QueueInv
  <2>2. QED BY <1>1, <1>3, <1>4, <2>1 DEF ServeInv, QueueInv
<1>7. HeadInv'
  BY <1>1, <1>2, <1>3, <1>4, HeadSlot DEF ServeInv, HeadInv, Follower
<1>8. TermInv'
  BY <1>1, <1>2, <1>3 DEF ServeInv, TermInv
<1>9. QED BY <1>5, <1>6, <1>7, <1>8 DEF ServeInv

\* The queue is given up: cleanup comes when there is no head entry, and
\* whoever takes a status has the head entry.
LEMMA ClearServe ==
    ASSUME TypeOK, SoleTracker, ServeInv, NEW p \in Proc, Clear(p)
    PROVE  ServeInv'
<1> SUFFICES ASSUME ~kept PROVE ServeInv'
  BY DEF ServeInv, Clear, tracking
<1>1. /\ pc[p] = "clear" /\ pc'[p] \in {"run", "dead"}
      /\ \A q \in Proc : q # p => pc'[q] = pc[q]
      /\ active' = FALSE /\ slots' = [i \in Slot |-> EmptyEntry]
      /\ UNCHANGED <<res, term, result, kept, addr>>
  BY DEF Clear, At, Goto, tracking, TypeOK
<1>2. p \in Owners /\ Owners = {p} /\ Owners' = {}
  BY <1>1 DEF Owners, OwnerPc, TypeOK, SoleTracker
<1>3. \A i \in Slot : slots'[i].pid = NoProc /\ slots'[i].addr = NoAddr
  BY <1>1 DEF EmptyEntry
<1>4. EntryInv'
  BY <1>1, <1>3 DEF ServeInv, EntryInv, Hit
<1>5. QueueInv' BY <1>3 DEF QueueInv
<1>6. HeadInv' BY <1>2 DEF HeadInv
<1>7. TermInv'
  <2>1. \A q \in Proc : pc[q] # "take"
    BY <1>1, <1>2, HeadSlot, ProcAssumption DEF ServeInv, TermInv, HeadInv
  <2>2. QED BY <1>1, <1>2, <2>1 DEF TermInv
<1>8. QED BY <1>4, <1>5, <1>6, <1>7 DEF ServeInv

\* The start of the wait in mem_nmi_handle_follow.
LEMMA WaitServe ==
    ASSUME TypeOK, ServeInv, NEW p \in Proc, Wait(p)
    PROVE  ServeInv'
<1> SUFFICES ASSUME ~kept PROVE ServeInv'
  BY DEF ServeInv, Wait, tracking
<1>1. /\ pc[p] = "wait" /\ pc'[p] = "poll"
      /\ \A q \in Proc : q # p => pc'[q] = pc[q]
      /\ UNCHANGED <<active, slots, res, term, result, kept, addr>>
  BY DEF Wait, At, Goto, tracking, ghosts, TypeOK
<1>2. Owners' = Owners /\ p \notin Owners
  BY <1>1 DEF Owners, OwnerPc
<1>3. \A i \in Slot : slots[i].pid \in Proc \cup {NoProc}
  BY DEF TypeOK, Entry
<1>4. \A q \in Owners : q \in Proc /\ pc'[q] = pc[q] BY <1>1, <1>2 DEF Owners
<1>5. EntryInv' BY <1>1 DEF ServeInv, EntryInv, Hit
<1>6. QueueInv' BY <1>1, <1>3 DEF ServeInv, QueueInv
<1>7. HeadInv'
  BY <1>1, <1>2, <1>3, <1>4, HeadSlot DEF ServeInv, HeadInv, Follower
<1>8. TermInv' BY <1>1, <1>2, <1>4 DEF ServeInv, TermInv
<1>9. QED BY <1>5, <1>6, <1>7, <1>8 DEF ServeInv

\* A victim finds its status in the head entry, or finds the queue gone.
LEMMA PollServe ==
    ASSUME TypeOK, QueueOwned, ServeInv, NEW p \in Proc, Poll(p)
    PROVE  ServeInv'
<1> SUFFICES ASSUME ~kept PROVE ServeInv'
  BY DEF ServeInv, Poll
<1>1. /\ pc[p] = "poll"
      /\ \A q \in Proc : q # p => pc'[q] = pc[q] /\ term'[q] = term[q]
      /\ UNCHANGED <<active, slots, res, result, kept, addr>>
      /\ \/ ~active /\ pc'[p] = "first"
         \/ /\ active /\ slots[0].pid = p /\ slots[0].res \in Status
            /\ term'[p] = slots[0].res /\ pc'[p] = "take"
  BY DEF Poll, At, Goto, ghosts, TypeOK
<1>2. Owners' = Owners /\ p \notin Owners
  BY <1>1 DEF Owners, OwnerPc
<1>3. \A i \in Slot : slots[i].pid \in Proc \cup {NoProc}
  BY DEF TypeOK, Entry
<1>4. \A q \in Owners : q \in Proc /\ pc'[q] = pc[q] /\ term'[q] = term[q]
  BY <1>1, <1>2 DEF Owners
<1>5. EntryInv' BY <1>1 DEF ServeInv, EntryInv, Hit
<1>6. CASE ~active
  <2>1. \A i \in Slot : slots[i].pid = NoProc BY <1>6 DEF ServeInv, EntryInv
  <2>2. QueueInv' BY <1>1, <2>1 DEF QueueInv
  <2>3. HeadInv' /\ TermInv'
    <3>1. Owners = {} BY <1>6 DEF QueueOwned
    <3>2. \A q \in Proc : pc[q] # "take"
      BY <2>1, HeadSlot, ProcAssumption DEF ServeInv, TermInv
    <3>3. QED BY <1>1, <1>2, <1>6, <3>1, <3>2 DEF HeadInv, TermInv
  <2>4. QED BY <1>5, <2>2, <2>3 DEF ServeInv
<1>7. CASE active
  <2>1. \A i \in Slot \ {0} : slots[i].pid # p
    BY <1>1, <1>7, HeadSlot, ProcAssumption DEF ServeInv, QueueInv
  <2>2. QueueInv' BY <1>1, <1>3, <2>1 DEF ServeInv, QueueInv
  <2>3. HeadInv'
    BY <1>1, <1>2, <1>3, <1>4, <1>7, HeadSlot DEF ServeInv, HeadInv, Follower
  <2>4. TermInv'
    <3>1. slots[0].res = result[p]
      <4>1. Owners # {} BY <1>7 DEF QueueOwned
      <4>2. QED BY <1>1, <1>7, <4>1, ProcAssumption DEF ServeInv, HeadInv, Status, None
    <3>2. slots[0].res # None BY <1>1, <1>7 DEF Status, None
    <3>3. QED BY <1>1, <1>2, <1>4, <1>7, <3>1, <3>2 DEF ServeInv, TermInv
  <2>5. QED BY <1>5, <2>2, <2>3, <2>4 DEF ServeInv
<1>8. QED BY <1>6, <1>7

\* A victim clears its entry and leaves; it had no other.
LEMMA TakeServe ==
    ASSUME TypeOK, ServeInv, NEW p \in Proc, Take(p)
    PROVE  ServeInv'
<1> SUFFICES ASSUME ~kept PROVE ServeInv'
  BY DEF ServeInv, Take, tracking
<1>1. /\ pc[p] = "take" /\ pc'[p] \in {"run", "dead"}
      /\ \A q \in Proc : q # p => pc'[q] = pc[q]
      /\ slots' = [slots EXCEPT ![0] = EmptyEntry]
      /\ UNCHANGED <<active, res, term, result, kept, addr>>
  BY DEF Take, At, Goto, tracking, TypeOK
<1>2. Owners' = Owners /\ p \notin Owners
  BY <1>1 DEF Owners, OwnerPc
<1>3. \A q \in Owners : q \in Proc /\ pc'[q] = pc[q] BY <1>1, <1>2 DEF Owners
<1>4. /\ slots'[0].pid = NoProc /\ slots'[0].addr = NoAddr
      /\ \A i \in Slot \ {0} : slots'[i] = slots[i]
  BY <1>1, HeadSlot DEF TypeOK, EmptyEntry
<1>5. \A i \in Slot : slots[i].pid \in Proc \cup {NoProc}
  BY DEF TypeOK, Entry
<1>6. slots[0].pid = p /\ slots[0].res # None /\ p # NoProc
  BY <1>1, ProcAssumption DEF ServeInv, TermInv
<1>7. EntryInv' BY <1>1, <1>4 DEF ServeInv, EntryInv, Hit
<1>8. QueueInv'
  <2>1. \A i \in Slot \ {0} : slots[i].pid # p
    BY <1>6, HeadSlot DEF ServeInv, QueueInv
  <2>2. QED BY <1>1, <1>4, <1>5, <2>1 DEF ServeInv, QueueInv
<1>9. \A q \in Owners : pc[q] \in {"await", "shift"}
  BY <1>6 DEF ServeInv, HeadInv
<1>10. HeadInv' BY <1>2, <1>3, <1>4, <1>9 DEF HeadInv
<1>11. TermInv'
  <2>1. \A q \in Proc : q # p => pc[q] # "take" BY <1>6 DEF ServeInv, TermInv
  <2>2. QED BY <1>1, <1>2, <1>3, <1>9, <2>1 DEF ServeInv, TermInv
<1>12. QED BY <1>7, <1>8, <1>10, <1>11 DEF ServeInv

\* A process that waits gets an entry of its own, unless the queue is full.
LEMMA FollowServe ==
    ASSUME TypeOK, QueueOwned, ServeInv, NEW p \in Proc, Follow(p)
    PROVE  ServeInv'
<1>1. CASE UNCHANGED slots /\ (pc' = pc \/ pc' = [pc EXCEPT ![p] = "first"])
  BY <1>1, QuietServe DEF Follow, At, Outside, qdata, tracking, ghosts
<1>2. CASE /\ UNCHANGED slots \/ Free # {}
           /\ pc' = [pc EXCEPT ![p] = "wait"]
           /\ Free # {} => \E i \in Free : slots' = [slots EXCEPT ![i] =
                                [addr |-> addr[p], pid |-> p, res |-> None]]
  <2> SUFFICES ASSUME ~kept PROVE ServeInv'
    BY DEF ServeInv, Follow, tracking
  <2>1. /\ pc[p] = "follow" /\ pc'[p] = "wait" /\ active
        /\ \A q \in Proc : q # p => pc'[q] = pc[q]
        /\ UNCHANGED <<active, res, term, result, kept, addr>>
    BY <1>2 DEF Follow, At, Goto, tracking, ghosts, TypeOK
  <2>2. Owners' = Owners /\ p \notin Owners
    BY <2>1 DEF Owners, OwnerPc
  <2>3. \A q \in Owners : q \in Proc /\ pc'[q] = pc[q] BY <2>1, <2>2 DEF Owners
  <2>4. \A i \in Slot : slots[i].pid \in Proc \cup {NoProc}
    BY DEF TypeOK, Entry
  <2>5. /\ slots'[0] = slots[0]
        /\ \A i \in Slot \ {0} :
             \/ slots'[i] = slots[i]
             \/ /\ slots'[i].pid = p /\ slots'[i].addr = addr[p] /\ slots'[i].res = None
                /\ \A j \in Slot : j # i => slots'[j] = slots[j]
    BY <1>2, HeadSlot DEF Free, TypeOK
  <2>6. \A i \in Slot \ {0} : slots[i].pid # p
    BY <2>1, ProcAssumption DEF ServeInv, QueueInv
  <2>7. Owners # {} => slots[0].pid # p
    BY <2>1, <2>2, ProcAssumption DEF ServeInv, HeadInv, Follower
  <2>8. addr[p] # NoAddr /\ p # NoProc
    BY <2>1, ProcAssumption DEF ServeInv, EntryInv, Hit
  <2>9. EntryInv' BY <2>1, <2>5, <2>8 DEF ServeInv, EntryInv, Hit
  <2>10. QueueInv'
    <3>1. \A i \in Slot : slots[i].pid # p BY <2>1, <2>6, <2>7 DEF QueueOwned
    <3>2. QED BY <2>1, <2>4, <2>5, <3>1 DEF ServeInv, QueueInv
  <2>11. HeadInv'
    BY <2>1, <2>2, <2>3, <2>4, <2>5, <2>7, HeadSlot DEF ServeInv, HeadInv, Follower
  <2>12. TermInv' BY <2>1, <2>2, <2>3, <2>5 DEF ServeInv, TermInv
  <2>13. QED BY <2>9, <2>10, <2>11, <2>12 DEF ServeInv
<1>3. CASE active /\ Free # {}
  <2>1. (CHOOSE j \in Free : \A k \in Free : j <= k) \in Free
    <3>1. Free \subseteq Nat BY DEF Free, Slot
    <3>2. PICK j \in Free : \A k \in Free : j <= k
      BY <1>3, <3>1, LeastNumber
    <3>3. QED BY <3>2
  <2>2. QED BY <1>2, <1>3, <2>1 DEF Follow, Goto
<1>4. CASE ~active \/ Free = {}
  BY <1>1, <1>2, <1>4 DEF Follow, Goto
<1>5. QED BY <1>3, <1>4

\* What the shift of a queue that is not full puts into slot i.
LEMMA ShiftedSlots ==
    ASSUME TypeOK, Empty(slots) # {}, NEW i \in Slot
    PROVE  \/ /\ i + 1 \in Slot /\ Shifted(slots)[i] = slots[i + 1]
              /\ \A j \in Empty(slots) : i + 1 <= j
           \/ i # 0 /\ Shifted(slots)[i] = slots[i] /\ \E j \in Empty(slots) : j <= i
<1>1. \A j \in Empty(slots) : j \in 1..QueueSize-1
  BY DEF Empty, Slot
<1>2. i \in 0..QueueSize-1 /\ QueueSize \in Nat
  BY QueueAssumption DEF Slot
<1>3. CASE i + 1 \in Slot /\ \A j \in Empty(slots) : i + 1 <= j
  BY <1>3 DEF Shifted
<1>4. CASE ~(i + 1 \in Slot /\ \A j \in Empty(slots) : i + 1 <= j)
  <2>1. Shifted(slots)[i] = slots[i] BY <1>4 DEF Shifted
  <2>2. PICK j \in Empty(slots) : ~(i + 1 \in Slot) \/ ~(i + 1 <= j)
    BY <1>4
  <2>3. j <= i /\ i # 0 BY <1>1, <1>2, <2>2 DEF Slot
  <2>4. QED BY <2>1, <2>3
<1>5. QED BY <1>3, <1>4

\* The next entry becomes the head; a queue that is not full loses none and
\* doubles none.
LEMMA ShiftServe ==
    ASSUME TypeOK, SoleTracker, ServeInv, NEW p \in Proc, Shift(p)
    PROVE  ServeInv'
<1> SUFFICES ASSUME ~kept, Empty(slots) # {} PROVE ServeInv'
  BY DEF ServeInv, Shift
<1>1. /\ pc[p] = "shift" /\ slots' = Shifted(slots)
      /\ pc'[p] = IF slots'[0].addr # NoAddr THEN "recover" ELSE "cleanup"
      /\ \A q \in Proc : q # p => pc'[q] = pc[q]
      /\ UNCHANGED <<active, res, term, result, addr>>
  BY DEF Shift, At, Goto, ghosts, TypeOK
<1>2. p \in Owners /\ Owners = {p} /\ Owners' = Owners
  BY <1>1 DEF Owners, OwnerPc, SoleTracker
<1>3. \A i \in Slot : \E k \in Slot \ {0} : slots'[i] = slots[k]
  BY <1>1, ShiftedSlots DEF Slot
<1>4. \A i \in Slot : slots[i].pid \in Proc \cup {NoProc}
  BY DEF TypeOK, Entry
<1>5. \A k \in Slot \ {0} : slots[k].pid # NoProc =>
          /\ slots[k].pid \in Proc \ {p} /\ slots[k].res = None
          /\ pc[slots[k].pid] \in {"wait", "poll"}
  BY <1>1, <1>4 DEF ServeInv, QueueInv
<1>6. EntryInv'
  BY <1>1, <1>3 DEF ServeInv, EntryInv, Hit
<1>7. QueueInv'
  <2>1. ASSUME NEW i \in Slot, NEW k \in Slot, slots'[i].pid # NoProc,
               slots'[i].pid = slots'[k].pid,
               i + 1 \in Slot, slots'[i] = slots[i + 1],
               \A j \in Empty(slots) : i + 1 <= j
        PROVE  i = k
    <3>1. CASE k + 1 \in Slot /\ slots'[k] = slots[k + 1]
      <4>1. i + 1 = k + 1
        BY <2>1, <3>1 DEF ServeInv, QueueInv
      <4>2. QED BY <4>1 DEF Slot
    <3>2. CASE slots'[k] = slots[k] /\ \E j \in Empty(slots) : j <= k
      <4>1. i + 1 = k
        BY <2>1, <3>2 DEF ServeInv, QueueInv
      <4>2. k \in Empty(slots)
        BY <2>1, <3>2, <4>1 DEF Empty, Slot
      <4>3. QED BY <2>1, <3>2, <4>1, <4>2 DEF Empty
    <3>3. QED BY <1>1, <3>1, <3>2, ShiftedSlots
  <2>2. ASSUME NEW i \in Slot, NEW k \in Slot, slots'[i].pid # NoProc,
               slots'[i].pid = slots'[k].pid
        PROVE  i = k
    <3>1. CASE \/ i + 1 \in Slot /\ slots'[i] = slots[i + 1] /\ \A j \in Empty(slots) : i + 1 <= j
               \/ k + 1 \in Slot /\ slots'[k] = slots[k + 1] /\ \A j \in Empty(slots) : k + 1 <= j
      BY <2>1, <2>2, <3>1
    <3>2. CASE slots'[i] = slots[i] /\ slots'[k] = slots[k]
      BY <2>2, <3>2 DEF ServeInv, QueueInv
    <3>3. QED BY <1>1, <3>1, <3>2, ShiftedSlots
  <2>3. ASSUME NEW i \in Slot \ {0}, slots'[i].pid # NoProc
        PROVE  slots'[i].res = None /\ pc'[slots'[i].pid] \in {"wait", "poll"}
    BY <1>1, <1>3, <1>5, <2>3
  <2>4. QED BY <2>2, <2>3 DEF QueueInv
<1>8. slots'[0].pid # NoProc =>
          /\ slots'[0].res = None /\ slots'[0].pid \in Proc \ {p}
          /\ pc'[slots'[0].pid] \in {"wait", "poll"}
  BY <1>1, <1>3, <1>5, HeadSlot
<1>9. HeadInv'
  <2>1. pc'[p] = "recover" => slots'[0].pid # NoProc
    BY <1>1, <1>6, HeadSlot DEF EntryInv
  <2>2. QED BY <1>1, <1>2, <1>8, <2>1 DEF HeadInv, Follower
<1>10. TermInv'
  <2>1. term[p] = result[p] BY <1>1, <1>2 DEF ServeInv, TermInv
  <2>2. \A q \in Proc : pc[q] # "take"
    BY <1>1, <1>2, ProcAssumption DEF ServeInv, HeadInv, TermInv
  <2>3. QED BY <1>1, <1>2, <2>1, <2>2 DEF TermInv
<1>11. QED BY <1>6, <1>7, <1>9, <1>10 DEF ServeInv

\* Every step keeps it.
LEMMA NextServe ==
    TypeOK /\ SoleTracker /\ QueueOwned /\ ServeInv /\ [Next]_vars => ServeInv'
<1> SUFFICES ASSUME TypeOK, SoleTracker, QueueOwned, ServeInv, [Next]_vars PROVE ServeInv'
  OBVIOUS
<1>1. CASE UNCHANGED vars
  BY <1>1 DEF vars, ServeInv, EntryInv, QueueInv, HeadInv, TermInv, Hit, Follower, Owners
<1>2. ASSUME NEW p \in Proc, Nmi(p) \/ Step(p) \/ Yield(p) PROVE ServeInv'
  BY <1>2, HandleServe, NmiServe, MakeQueueServe, LeadServe, RecoverServe, ReportServe,
     AwaitServe, ShiftServe, ClearServe, FollowServe, WaitServe, PollServe, TakeServe
     DEF Step, Handle, Lead, Serve, Attend
<1>3. QED BY <1>1, <1>2 DEF Next

\* The queue's entries, for every number of processes and every size of the
\* queue: until a shift finds it full, each process has one entry, behind the
\* head only processes that wait, and the status at the head is its process's.
THEOREM QueueCorrect == Spec => []ServeInv
<1>1. Init => ServeInv
  BY DEF Init, ServeInv, EntryInv, QueueInv, HeadInv, TermInv, Hit, Owners, OwnerPc, EmptyEntry
<1>2. QED BY <1>1, NextServe, TypeCorrect, OneRecoveryProcess, PTL DEF Spec

\* nmi_queue never dangles: what it points to is on the stack of a process that
\* is still in mem_nmi_handle_first.
THEOREM QueueNeverDangles == Spec => []QueueOwned
BY OneRecoveryProcess, PTL

\* Every victim leaves with the status of its own error, from the recovery
\* process (Clear) and from mem_nmi_handle_follow (Take), until a shift finds
\* the queue full.
THEOREM OwnStatus == Spec => OwnResult
<1>1. TypeOK /\ ServeInv =>
        (\A p \in Proc : (Clear(p) \/ Take(p)) /\ ~kept => returned'[p] = result[p])
  <2> SUFFICES ASSUME TypeOK, ServeInv, NEW p \in Proc, Clear(p) \/ Take(p), ~kept
               PROVE  returned'[p] = result[p]
    OBVIOUS
  <2>1. term[p] = result[p]
    BY DEF ServeInv, TermInv, Clear, Take, At, Owners, OwnerPc
  <2>2. QED BY <2>1 DEF Clear, Take, TypeOK
<1>2. QED BY <1>1, TypeCorrect, QueueCorrect, PTL DEF OwnResult
=============================================================================
