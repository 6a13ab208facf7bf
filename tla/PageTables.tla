----------------------------- MODULE PageTables -----------------------------
(***************************************************************************)
(* User page tables (kernel/vm.c, and their use in exec.c and proc.c),     *)
(* their duplicates (ptdup.c), their nodes in the M-List                   *)
(* (mlist_pagetable.c) and the recovery of a page table                    *)
(* (recovery_handler_pagetable.c, and cleanup_unused_procs in              *)
(* mlist_tracker.c).                                                       *)
(*                                                                         *)
(* Addresses and sizes are in pages.  A page table has W entries.  The     *)
(* duplicate of a process keeps a copy of its level-2 and level-1 tables;  *)
(* of the level-0 tables it keeps a list of runs of contiguous pages       *)
(* (PTDS) and a list of single entries (PTED).  The slots of both lists    *)
(* hold the values that the code leaves in them: 0x0505.. in a fresh page  *)
(* and in a deleted PTED, 0 in a deleted PTDS.                             *)
(*                                                                         *)
(* The state of memory is a record mm; what the functions of the kernel do *)
(* to it are operators on such records.  A loop over pages in uvmalloc and *)
(* uvmcopy takes a step for each page, since a memory error can cut it off *)
(* there.  In uvmunmap and freeproc every memory error is a Fail-Stop.     *)
(***************************************************************************)
EXTENDS Integers, SequencesExt, FiniteSetsExt

CONSTANTS
    NPROC,          \* the number of process slots
    W,              \* the number of entries of a page table
    NPAGE,          \* physical pages that the kernel has free after the boot
    Taken,          \* choices of the pages that other parts of the kernel have
    NSLOT,          \* bound: slots of a list of PTDSs or PTEDs that are looked at
    SbrkBy,         \* numbers of pages that sbrk is called with
    MaxSz,          \* bound: pages of a process
    MaxSeg,         \* bound: pages of a program's segment
    MaxOps,         \* bound: system calls in a behaviour
    MaxFault,       \* bound: memory errors in a behaviour
    Conservative    \* recovery_mode

ASSUME PageTablesAssumption ==
    /\ {NPROC, W, NPAGE, NSLOT, MaxSz, MaxSeg} \subseteq Nat \ {0}
    /\ W > 1 /\ MaxSz + 2 <= W * W * W
    /\ Taken \subseteq SUBSET (1..NPAGE) /\ SbrkBy \subseteq Nat \ {0}
    /\ {MaxOps, MaxFault} \subseteq Nat /\ Conservative \in BOOLEAN

Proc == 1..NPROC
initproc == 1
Page == 1..NPAGE
Null == 0
TRAMPOLINE == W * W * W - 1
TRAPFRAME == TRAMPOLINE - 1
Entry == 0..(W - 1)
PTDUP_SIZE == NPROC + 2
DupIdx == 0..(PTDUP_SIZE - 1)

\* PX(2, va), PX(1, va), PX(0, va)
PX2(va) == va \div (W * W)
PX1(va) == (va \div W) % W
PX0(va) == va % W

VARIABLES
    mm,             \* free list, page tables, M-List nodes, duplicates
    pr,             \* proc[]
    job,            \* the loop or call that a process is in
    ti,             \* trans_info_array: pid and pagetable_ntrans
    nextpid,
    halted,         \* panic or Fail-Stop
    ops, faults,    \* the numbers of system calls and memory errors so far
    bad             \* history: a table was rebuilt from duplicates that differ, exec's
                    \* table was taken for the one of its process, init's was
                    \* rebuilt, or a process that runs was freed
vars == <<mm, pr, job, ti, nextpid, halted, ops, faults, bad>>

-----------------------------------------------------------------------------
(* Page table entries, slots of the duplicates, and the free list *)

\* f: what the flags of an entry say; "U" is a user page, "K" one without PTE_U.
NoPte == [pg |-> Null, f |-> "none"]
Dir(pg) == [pg |-> pg, f |-> "dir"]
Leaf(pg, f) == [pg |-> pg, f |-> f]
EmptyTable == [i \in Entry |-> NoPte]
IsLeaf(pte) == pte.f \notin {"none", "dir"}

\* "five" is 0x0505050505050505, "zero" is 0; a PTDS has n pages from va and pg
\* on, upwards or downwards; a PTED has n = 1.
Slot(k, va, pg, n, up, f) == [k |-> k, va |-> va, pg |-> pg, n |-> n, up |-> up, f |-> f]
Five == Slot("five", 0, Null, 0, FALSE, "none")
Zero == Slot("zero", 0, Null, 0, FALSE, "none")
PTDS(va, pg, n, up) == Slot("ptds", va, pg, n, up, "U")
PTED(va, pg, f) == Slot("pted", va, pg, 1, TRUE, f)
\* What PTDS_delete makes of an entry that it truncates: its size is 0.
Husk(va) == Slot("ptds", va, Null, 0, FALSE, "U")

NoNode == [pid |-> 0, level |-> 0]
FreshList == [i \in 1..NSLOT |-> Five]
NoDup == [pt |-> Null, pages |-> <<>>, l2 |-> EmptyTable,
          l1 |-> [i \in Entry |-> [page |-> Null, t |-> EmptyTable]],
          ptds |-> FreshList, pted |-> FreshList]

\* kalloc takes the head of the free list (got), kfree puts a page there.
Kalloc(m) ==
    IF m.free = <<>> THEN [m EXCEPT !.got = Null]
                     ELSE [m EXCEPT !.got = Head(m.free), !.free = Tail(m.free)]
Kfree(m, pg) == [m EXCEPT !.free = <<pg>> \o @]
KfreeAll(m, pgs) == FoldLeft(Kfree, m, pgs)
Fail(m, why) == [m EXCEPT !.fail = why]
Ok(m) == m.fail = "none"
\* F after what led to m, if that went well.
Then(m, F(_)) == IF Ok(m) THEN F(m) ELSE m

From(a, n) == [i \in 1..n |-> a + i - 1]

-----------------------------------------------------------------------------
(* ptdup.c: the lists of PTDSs and PTEDs *)

\* The index of the duplicates of a page table, or -1.
IdxOf(m, pt) == LET S == {i \in DupIdx : m.dup[i].pt = pt} IN IF S = {} THEN -1 ELSE Min(S)

\* PTDS_PTED_add: the first slot that looks empty.
SlotAdd(list, e) ==
    LET S == {i \in DOMAIN list : list[i].k \in {"five", "zero"}}
    IN IF S = {} THEN list ELSE [list EXCEPT ![Min(S)] = e]
Full(list) == \A i \in DOMAIN list : list[i].k \notin {"five", "zero"}

\* A run that a rebuild of level-0 tables gets wrong: it goes on into the next
\* table, or it starts one (the table before takes it as its own).
Misplaced(e) == e.n > 1 /\ (PX0(e.va) + e.n > W \/ (PX0(e.va) = 0 /\ e.va > 0))

\* L0_ptes_add
L0_ptes_add(m, pt, e) ==
    LET d == IdxOf(m, pt) IN
    IF d < 0 THEN Fail(m, "panic")
    ELSE IF e.k = "ptds"
    THEN [m EXCEPT !.dup[d].ptds = SlotAdd(@, e),
                   !.off = IF Misplaced(e) THEN @ \cup {d} ELSE @,
                   !.fail = IF Full(m.dup[d].ptds) THEN "full" ELSE @]
    ELSE [m EXCEPT !.dup[d].pted = SlotAdd(@, e),
                   !.fail = IF Full(m.dup[d].pted) THEN "full" ELSE @]

\* PTDS_delete on slot i, for the pages from s up to e: an entry inside is
\* deleted; one that is cut at its front becomes a husk; one that is cut in its
\* middle leaves a husk and gets twice its size; one that is cut at its end
\* stays.  A slot with 0 looks like an entry from 0 up to the last address.
PTDS_delete_slot(list, i, s, e) ==
    LET x == list[i]
        inside == x.k = "ptds" /\ s <= x.va /\ x.va + x.n <= e
        front == x.k = "ptds" /\ s = x.va /\ e < x.va + x.n
        middle == x.k = "ptds" /\ x.va < s /\ e < x.va + x.n
    IN IF inside THEN [list EXCEPT ![i] = Zero]
       ELSE IF front \/ (x.k = "zero" /\ s = 0) THEN [list EXCEPT ![i] = Husk(e)]
       ELSE IF x.k = "zero" THEN SlotAdd(list, Husk(e))
       ELSE IF middle THEN SlotAdd([list EXCEPT ![i].n = 2 * @], Husk(e))
       ELSE list
PTDS_delete(list, s, e) ==
    FoldLeft(LAMBDA l, i : PTDS_delete_slot(l, i, s, e), list, From(1, Len(list)))

PTED_delete(list, s, e) ==
    [i \in DOMAIN list |->
       IF list[i].k = "pted" /\ s <= list[i].va /\ list[i].va < e THEN Five ELSE list[i]]

\* L0_ptes_delete: nothing is deleted from the duplicates with index 0.
L0_ptes_delete(m, pt, s, n) ==
    LET d == IdxOf(m, pt)
        e == s + n
        cut == \E x \in ToSet(m.dup[d].ptds) :
                  x.k = "ptds" /\ x.va < e /\ s < x.va + x.n /\ ~(s <= x.va /\ x.va + x.n <= e)
    IN IF d < 0 THEN m
       ELSE IF d = 0 THEN [m EXCEPT !.off = @ \cup {d}]
       ELSE [m EXCEPT !.dup[d].pted = PTED_delete(@, s, e),
                      !.dup[d].ptds = PTDS_delete(@, s, e),
                      !.off = IF cut THEN @ \cup {d} ELSE @]

\* L0_ptes_clear_user and PTDS_decompose_clear: of the first PTDS that starts at
\* va or below, the last two pages become PTEDs, the first of them without
\* PTE_U; a PTDS of more than two pages stays as it is.  Without a PTDS, PTE_U
\* of the first PTED for va or the page after it is cleared.
L0_ptes_clear_user(m, pt, va) ==
    LET d == IdxOf(m, pt)
        ps == m.dup[d].ptds
        es == m.dup[d].pted
        S == {i \in DOMAIN ps : ps[i].k # "five" /\ ps[i].va <= va}
        T == {i \in DOMAIN es : es[i].k = "pted" /\ es[i].va \in {va, va + 1}}
        x == ps[Min(S)]
        v == x.va + x.n - 2
        pg == x.pg + x.n - 2
        split == SlotAdd(SlotAdd(es, PTED(v, pg, "K")),
                         PTED(v + 1, IF x.up THEN pg + 1 ELSE pg - 1, "U"))
        Right(r) == [m EXCEPT !.off = IF r THEN @ ELSE @ \cup {d}]
    IN IF d < 0 THEN m
       ELSE IF S # {}
       THEN IF x.n < 2 THEN Right(FALSE)
            ELSE [Right(x.n = 2 /\ x.va = va) EXCEPT
                    !.dup[d].pted = split,
                    !.dup[d].ptds = IF x.n = 2 THEN PTDS_delete(ps, x.va, x.va + 2) ELSE ps]
       ELSE IF T = {} THEN Right(FALSE)
       ELSE [Right(es[Min(T)].va = va) EXCEPT
               !.dup[d].pted[Min(T)].f = IF @ = "U" THEN "K" ELSE @]

-----------------------------------------------------------------------------
(* vm.c and the rest of ptdup.c *)

L1Of(m, pt, va) == m.tab[pt][PX2(va)].pg
L0Of(m, pt, va) == IF L1Of(m, pt, va) = Null THEN Null ELSE m.tab[L1Of(m, pt, va)][PX1(va)].pg
PteOf(m, pt, va) == IF L0Of(m, pt, va) = Null THEN NoPte ELSE m.tab[L0Of(m, pt, va)][PX0(va)]

\* The tables that walk reads.
PathOf(m, pt, va) == {pt, L1Of(m, pt, va), L0Of(m, pt, va)} \ {Null}

\* walk: a missing level-1 table, with its duplicate (ptdup_create_l1).  pid is
\* the running process, under which the table is registered; it is 0 as long as
\* nextpid <= 2, and then there is neither a node nor a duplicate.
AddL1(m, pt, va, pid) ==
    LET m1 == Kalloc(m)
        m2 == Kalloc(m1)
        d == IdxOf(m, pt)
    IN IF m1.got = Null THEN Fail(m, "nomem")
       ELSE IF pid = 0 THEN [m1 EXCEPT !.tab[m1.got] = EmptyTable, !.tab[pt][PX2(va)] = Dir(m1.got)]
       ELSE IF d < 0 \/ m2.got = Null THEN Fail(m1, "panic")
       ELSE [m2 EXCEPT !.tab[m1.got] = EmptyTable, !.tab[pt][PX2(va)] = Dir(m1.got),
                       !.ml[m1.got] = [pid |-> pid, level |-> 1],
                       !.dup[d].l2[PX2(va)] = Dir(m1.got),
                       !.dup[d].l1[PX2(va)] = [page |-> m2.got, t |-> EmptyTable]]

\* Mutant: the duplicate of the level-1 table is not updated.
AddL0_noupdate(m, pt, va, pid) ==
    LET m1 == Kalloc(m) IN
    IF m1.got = Null THEN Fail(m, "nomem")
    ELSE [m1 EXCEPT !.tab[m1.got] = EmptyTable, !.tab[L1Of(m, pt, va)][PX1(va)] = Dir(m1.got),
                    !.ml[m1.got] = [pid |-> pid, level |-> 0]]

\* walk: a missing level-0 table; ptdup_update looks for the level-1 table in
\* the duplicate of the level-2 table.
AddL0(m, pt, va, pid) ==
    LET m1 == Kalloc(m)
        d == IdxOf(m, pt)
        l1 == L1Of(m, pt, va)
        S == {i \in Entry : m.dup[d].l2[i].pg = l1 /\ m.dup[d].l1[i].page # Null}
    IN IF m1.got = Null THEN Fail(m, "nomem")
       ELSE IF pid = 0 THEN [m1 EXCEPT !.tab[m1.got] = EmptyTable, !.tab[l1][PX1(va)] = Dir(m1.got)]
       ELSE IF d < 0 \/ S = {} THEN Fail(m1, "panic")
       ELSE [m1 EXCEPT !.tab[m1.got] = EmptyTable, !.tab[l1][PX1(va)] = Dir(m1.got),
                       !.ml[m1.got] = [pid |-> pid, level |-> 0],
                       !.dup[d].l1[Min(S)].t[PX1(va)] = Dir(m1.got)]

Walk(m, pt, va, pid) ==
    Then(IF L1Of(m, pt, va) = Null THEN AddL1(m, pt, va, pid) ELSE m,
         LAMBDA x : IF L0Of(x, pt, va) = Null THEN AddL0(x, pt, va, pid) ELSE x)

\* mappages for one page.
Mappage(m, pt, va, pte, pid) ==
    Then(Walk(m, pt, va, pid),
         LAMBDA x : IF PteOf(x, pt, va) # NoPte THEN Fail(x, "panic")
                    ELSE [x EXCEPT !.tab[L0Of(x, pt, va)][PX0(va)] = pte])

\* uvmclear: a page that the user cannot use.
Uvmclear(m, pt, va) ==
    L0_ptes_clear_user([m EXCEPT !.tab[L0Of(m, pt, va)][PX0(va)].f = "K"], pt, va)

\* uvmunmap of n pages from va on.
UnmapPage(m, pt, va, do_free) ==
    LET pte == PteOf(m, pt, va) IN
    IF ~Ok(m) \/ ~IsLeaf(pte) THEN Fail(m, "panic")
    ELSE LET m1 == IF do_free THEN Kfree(m, pte.pg) ELSE m
         IN [m1 EXCEPT !.tab[L0Of(m, pt, va)][PX0(va)] = NoPte]
Uvmunmap(m, pt, va, n, do_free) ==
    Then(FoldLeft(LAMBDA x, v : UnmapPage(x, pt, v, do_free), m, From(va, n)),
         LAMBDA x : L0_ptes_delete(x, pt, va, n))

\* freewalk of a table that has no lower tables any more.
FreeTable(m, t) ==
    IF ~Ok(m) \/ \E i \in Entry : IsLeaf(m.tab[t][i]) THEN Fail(m, "panic")
    ELSE [Kfree(m, t) EXCEPT !.tab[t] = EmptyTable, !.ml[t] = NoNode]
Children(m, t) == SelectSeq([i \in 1..W |-> m.tab[t][i - 1].pg], LAMBDA pg : pg # Null)
Freewalk(m, pt) ==
    LET L1(x, t) == FreeTable(FoldLeft(FreeTable, x, Children(m, t)), t)
    IN FreeTable(FoldLeft(L1, m, Children(m, pt)), pt)

\* ptdup_init: the first free index.
Ptdup_init(m, pt) ==
    LET d == IdxOf(m, Null)
        pgs == SubSeq(m.free, 1, 4)
    IN IF d < 0 \/ Len(m.free) < 4 THEN Fail(m, "panic")
       ELSE [m EXCEPT !.dup[d] = [NoDup EXCEPT !.pt = pt, !.pages = pgs],
                      !.free = SubSeq(@, 5, Len(@)), !.off = @ \ {d}]

\* ptdup_delete_all
Ptdup_delete_all(m, d) ==
    LET l1s == SelectSeq([i \in 1..W |-> m.dup[d].l1[i - 1].page], LAMBDA pg : pg # Null)
        p == m.dup[d].pages
        m1 == KfreeAll(m, l1s \o <<p[2], p[1], p[3], p[4]>>)
    IN [m1 EXCEPT !.dup[d] = NoDup, !.off = @ \ {d}]

\* proc_pagetable.  Without memory there is no trampoline to return through.
MapKernel(m, pt, va, pg, f, running) ==
    Then(Mappage(m, pt, va, Leaf(pg, f), running),
         LAMBDA x : L0_ptes_add(x, pt, PTED(va, pg, f)))
NewTable(m, pt, pid) ==
    [Ptdup_init(m, pt) EXCEPT !.tab[pt] = EmptyTable, !.ml[pt] = [pid |-> pid, level |-> 2]]
Proc_pagetable(m, tf, pid, running) ==
    LET pt == Kalloc(m).got
        new == Then(Then(NewTable(Kalloc(m), pt, pid),
                         LAMBDA x : MapKernel(x, pt, TRAMPOLINE, Null, "tramp", running)),
                    LAMBDA x : MapKernel(x, pt, TRAPFRAME, tf, "tf", running))
    IN IF pt = Null THEN Fail(m, "panic")
       ELSE [new EXCEPT !.got = pt, !.fail = IF @ = "nomem" THEN "panic" ELSE @]

\* proc_freepagetable and uvmfree: the tables of an empty process are not freed.
UnmapKernel(m, pt) == Uvmunmap(Uvmunmap(m, pt, TRAMPOLINE, 1, FALSE), pt, TRAPFRAME, 1, FALSE)
Uvmfree(m, pt, sz) ==
    IF sz > 0 THEN Then(Uvmunmap(m, pt, 0, sz, TRUE), LAMBDA x : Freewalk(x, pt)) ELSE m
Proc_freepagetable(m, pt, sz) ==
    LET d == IdxOf(m, pt) IN
    Then(Uvmfree(UnmapKernel(m, pt), pt, sz),
         LAMBDA x : IF d < 0 THEN x ELSE Ptdup_delete_all(x, d))

\* delete_ptb_mlist_all
Delete_ptb_mlist_all(m, pid) ==
    [m EXCEPT !.ml = [t \in Page |-> IF @[t].pid = pid THEN NoNode ELSE @[t]]]

-----------------------------------------------------------------------------
(* The loops of uvmalloc and uvmcopy *)

\* pt: the table that grows, from page start to end, now at a; np: the child of
\* fork; n, ent, up, bm: ptds_size, entry, order and bmem of the loop.
NoJob == [op |-> "none", np |-> 0, pt |-> Null, start |-> 0, a |-> 0, end |-> 0,
          n |-> 0, ent |-> NoPte, va |-> 0, up |-> FALSE, bm |-> Null]
Loop(op, np, pt, start, end) ==
    [NoJob EXCEPT !.op = op, !.np = np, !.pt = pt, !.start = start, !.a = start, !.end = end]

\* The bookkeeping for the new page pg: a page next to the one before makes the
\* run longer; any other ends it.  Then a run of one page is dropped, unless it
\* is the first page, and behind a longer run the new page is.
RunBreaks(j, pg) == ~(j.bm - pg = 1 \/ pg - j.bm = 1 \/ j.bm = Null)
RunDup(m, j, pg) ==
    LET m1 == L0_ptes_add(m, j.pt, IF j.n > 1 THEN PTDS(j.va, j.ent.pg, j.n, j.up)
                                              ELSE PTED(j.a, pg, "U"))
        lost == j.n > 1 \/ (j.n = 1 /\ j.a # j.start + 1)
        Note(x) == IF lost THEN [x EXCEPT !.off = @ \cup {IdxOf(m, j.pt)}] ELSE x
    IN IF ~RunBreaks(j, pg) THEN m
       ELSE Note(IF j.a = j.start + 1 THEN L0_ptes_add(m1, j.pt, PTED(j.start, j.bm, "U"))
                                      ELSE m1)
RunJob(j, pg) ==
    IF RunBreaks(j, pg)
    THEN [j EXCEPT !.a = @ + 1, !.n = 0, !.ent = NoPte, !.va = 0, !.up = FALSE, !.bm = pg]
    ELSE [j EXCEPT !.a = @ + 1, !.n = @ + 1, !.bm = pg,
                   !.ent = IF j.n = 0 THEN Leaf(pg, "U") ELSE @,
                   !.va = IF j.n = 0 THEN j.a ELSE @,
                   !.up = IF j.bm = Null THEN @ ELSE pg - j.bm = 1]

\* After the loop.
RunEnd(m, j) ==
    IF j.n > 1 THEN L0_ptes_add(m, j.pt, PTDS(j.va, j.ent.pg, j.n, j.up))
    ELSE IF j.ent # NoPte THEN L0_ptes_add(m, j.pt, PTED(j.va, j.ent.pg, "U"))
    ELSE m

\* uvmdealloc
Uvmdealloc(m, pt, old, new) == IF new < old THEN Uvmunmap(m, pt, new, old - new, TRUE) ELSE m

-----------------------------------------------------------------------------
(* System calls *)

NoProc == [st |-> "unused", pid |-> 0, pt |-> Null, sz |-> 0, tf |-> Null, parent |-> 0]
TiOf(pid) == CHOOSE i \in 0..NPROC : ti[i].pid = pid
Known(pid) == \E i \in 0..NPROC : ti[i].pid = pid
EnterTrans(pid) == ti' = [ti EXCEPT ![TiOf(pid)].n = @ + 1]
ExitTrans(pid) == ti' = [ti EXCEPT ![TiOf(pid)].n = @ - 1]

Runs(p) == ~halted /\ pr[p].st = "user"
At(p, S) == Runs(p) /\ job[p].op \in S
Settle(m) == mm' = m /\ halted' = (m.fail \in {"panic", "full"})
SetJob(p, j) == job' = [job EXCEPT ![p] = j]
StartCall(p) == At(p, {"none"}) /\ ops < MaxOps /\ ops' = ops + 1
\* init only forks and waits.
StartOther(p) == StartCall(p) /\ p # initproc

\* sbrk of k pages: uvmalloc begins.
Sbrk(p, k) ==
    /\ StartOther(p) /\ pr[p].sz + k <= MaxSz
    /\ SetJob(p, Loop("sbrk", 0, pr[p].pt, pr[p].sz, pr[p].sz + k))
    /\ EnterTrans(pr[p].pid)
    /\ UNCHANGED <<mm, pr, nextpid, halted, faults, bad>>

\* sbrk of -k pages.
SbrkDown(p, k) ==
    /\ StartOther(p) /\ k <= pr[p].sz
    /\ Settle(Uvmdealloc(mm, pr[p].pt, pr[p].sz, pr[p].sz - k))
    /\ pr' = [pr EXCEPT ![p].sz = @ - k]
    /\ UNCHANGED <<job, ti, nextpid, faults, bad>>

Clear(m) == [m EXCEPT !.fail = "none"]

\* What follows when uvmalloc fails: sbrk returns -1; exec frees the new page
\* table, of which it takes the size to be 0.
AllocFails(p, m) ==
    /\ Settle(Then(Uvmdealloc(Clear(m), job[p].pt, job[p].a, job[p].start),
                   LAMBDA x : IF job[p].op = "sbrk" THEN x
                              ELSE Proc_freepagetable(x, job[p].pt, 0)))
    /\ SetJob(p, NoJob) /\ ExitTrans(pr[p].pid)

\* kalloc and mappages; when mappages fails, the page is freed.
\* Mutant: it is freed twice.
Unmapped_twice(m, pg) == IF m.fail = "nomem" THEN Kfree(Kfree(m, pg), pg) ELSE m
Unmapped(m, pg) == IF m.fail = "nomem" THEN Kfree(m, pg) ELSE m
NewPage(m, j, pid, f) ==
    LET pg == Kalloc(m).got IN
    IF pg = Null THEN Fail(m, "nomem")
    ELSE Unmapped(Mappage(Kalloc(m), j.pt, j.a, Leaf(pg, f), pid), pg)

\* uvmalloc for one page.
AllocPage(p) ==
    /\ At(p, {"sbrk", "seg", "stack"}) /\ job[p].a < job[p].end
    /\ \E m \in {NewPage(mm, job[p], pr[p].pid, "U")} :
          LET pg == Kalloc(mm).got IN
          IF m.fail = "nomem" THEN AllocFails(p, m)
          ELSE /\ Settle(Then(m, LAMBDA x : RunDup(x, job[p], pg)))
               /\ SetJob(p, RunJob(job[p], pg)) /\ UNCHANGED ti
    /\ UNCHANGED <<pr, nextpid, ops, faults, bad>>

\* The end of uvmalloc: of sbrk; of a segment (exec goes on to load it); of the
\* stack (exec clears PTE_U of its first page).
AllocDone(p) ==
    /\ At(p, {"sbrk", "seg", "stack"}) /\ job[p].a = job[p].end
    /\ LET j == job[p]
           m == RunEnd(mm, j)
       IN \/ /\ j.op = "sbrk"
             /\ Settle(m) /\ SetJob(p, NoJob) /\ pr' = [pr EXCEPT ![p].sz = j.end]
          \/ /\ j.op = "seg"
             /\ Settle(m) /\ SetJob(p, [j EXCEPT !.op = "load"]) /\ UNCHANGED pr
          \/ /\ j.op = "stack"
             /\ Settle(Uvmclear(m, j.pt, j.start))
             /\ SetJob(p, [j EXCEPT !.op = "args"]) /\ UNCHANGED pr
    /\ ExitTrans(pr[p].pid)
    /\ UNCHANGED <<nextpid, ops, faults, bad>>

\* exec of a program with a segment of k pages, up to its uvmalloc.
Exec(p, k) ==
    /\ StartOther(p)
    /\ \E m \in {Proc_pagetable(mm, pr[p].tf, pr[p].pid, pr[p].pid)} :
         Settle(m) /\ SetJob(p, Loop("seg", 0, m.got, 0, k))
    /\ EnterTrans(pr[p].pid)
    /\ UNCHANGED <<pr, nextpid, faults, bad>>

\* loadseg, and the stack of two pages; a segment that cannot be read fails.
ExecLoad(p) ==
    /\ At(p, {"load"})
    /\ \/ /\ SetJob(p, Loop("stack", 0, job[p].pt, job[p].end, job[p].end + 2))
          /\ EnterTrans(pr[p].pid) /\ UNCHANGED <<mm, halted>>
       \/ /\ Settle(Proc_freepagetable(mm, job[p].pt, job[p].end))
          /\ SetJob(p, NoJob) /\ UNCHANGED ti
    /\ UNCHANGED <<pr, nextpid, ops, faults, bad>>

\* The arguments; then the process changes to the new image, or fails.
ExecArgs(p) ==
    /\ At(p, {"args"})
    /\ \/ /\ Settle(Proc_freepagetable(mm, pr[p].pt, pr[p].sz))
          /\ pr' = [pr EXCEPT ![p].pt = job[p].pt, ![p].sz = job[p].end]
       \/ /\ Settle(Proc_freepagetable(mm, job[p].pt, job[p].end))
          /\ UNCHANGED pr
    /\ SetJob(p, NoJob)
    /\ UNCHANGED <<ti, nextpid, ops, faults, bad>>

\* freeproc
Freeproc(m, c) ==
    LET m1 == IF pr[c].tf = Null THEN m ELSE Kfree(m, pr[c].tf)
    IN IF pr[c].pt = Null THEN m1
       ELSE Delete_ptb_mlist_all(Proc_freepagetable(m1, pr[c].pt, pr[c].sz), pr[c].pid)
Forget(T, pid) == [i \in DOMAIN T |-> IF T[i].pid = pid THEN [T[i] EXCEPT !.pid = 0] ELSE T[i]]

\* fork: allocproc, and uvmcopy begins.  The slot keeps its pid when kalloc of
\* the trapframe fails.
Fork(p) ==
    /\ StartCall(p)
    /\ nextpid' = nextpid + 1
    /\ LET c == Min({q \in Proc : pr[q].st = "unused"})
           tf == Kalloc(mm).got
           new == [NoProc EXCEPT !.pid = nextpid]
       IN /\ \E q \in Proc : pr[q].st = "unused"
          /\ \A q \in Proc : job[q].np # c
          /\ IF tf = Null
             THEN pr' = [pr EXCEPT ![c] = new] /\ UNCHANGED <<mm, job, ti, halted>>
             ELSE \E m \in {Proc_pagetable(Kalloc(mm), tf, nextpid, pr[p].pid)} :
                  /\ Settle(m)
                  /\ pr' = [pr EXCEPT ![c] = [new EXCEPT !.pt = m.got, !.tf = tf]]
                  /\ SetJob(p, Loop("fork", c, m.got, 0, pr[p].sz))
                  /\ EnterTrans(pr[p].pid)
    /\ UNCHANGED <<faults, bad>>

\* uvmcopy for one page, with the flags of the parent's entry; its duplicate
\* says that it is a user page.  When it fails for the first page, uvmunmap is
\* called with size 0 and panics.
CopyPage(p) ==
    /\ At(p, {"fork"}) /\ job[p].a < job[p].end
    /\ LET j == job[p]
           pte == PteOf(mm, pr[p].pt, j.a)
           pg == Kalloc(mm).got
           Undo(m) == IF j.a = 0 THEN Fail(m, "panic") ELSE Uvmunmap(Clear(m), j.pt, 0, j.a, TRUE)
           Note(m) == IF pte.f = "U" THEN m ELSE [m EXCEPT !.off = @ \cup {IdxOf(m, j.pt)}]
       IN \E m \in {IF IsLeaf(pte) THEN NewPage(mm, j, pr[p].pid, pte.f) ELSE Fail(mm, "panic")} :
          IF m.fail = "nomem"
          THEN /\ Settle(Then(Undo(m), LAMBDA x : Freeproc(x, j.np)))
               /\ pr' = [pr EXCEPT ![j.np] = NoProc]
               /\ SetJob(p, NoJob) /\ ExitTrans(pr[p].pid)
          ELSE /\ Settle(Then(m, LAMBDA x : Note(RunDup(x, j, pg))))
               /\ SetJob(p, RunJob(j, pg)) /\ UNCHANGED <<pr, ti>>
    /\ UNCHANGED <<nextpid, ops, faults, bad>>

\* The end of uvmcopy and of fork; the child gets an entry in trans_info_array.
CopyDone(p) ==
    /\ At(p, {"fork"}) /\ job[p].a = job[p].end
    /\ Settle(RunEnd(mm, job[p]))
    /\ pr' = [pr EXCEPT ![job[p].np] = [@ EXCEPT !.st = "user", !.sz = pr[p].sz, !.parent = p]]
    /\ LET i == Min({x \in 0..NPROC : ti[x].pid = 0})
       IN ti' = [ti EXCEPT ![TiOf(pr[p].pid)].n = @ - 1, ![i].pid = pr[job[p].np].pid]
    /\ SetJob(p, NoJob)
    /\ UNCHANGED <<nextpid, ops, faults, bad>>

\* exit; init must not.
Gone(f, p) == [q \in Proc |-> IF q = p THEN [f[q] EXCEPT !.st = "zombie"]
                              ELSE IF f[q].parent = p THEN [f[q] EXCEPT !.parent = initproc]
                              ELSE f[q]]
Exit(p) ==
    /\ StartOther(p)
    /\ pr' = Gone(pr, p)
    /\ UNCHANGED <<mm, job, ti, nextpid, halted, faults, bad>>

\* The tables that can be reached from pt.
Tables(m, pt) ==
    {pt} \cup {m.tab[pt][i].pg : i \in Entry}
         \cup {m.tab[l1][i].pg : l1 \in {m.tab[pt][j].pg : j \in Entry} \ {Null}, i \in Entry}

\* wait.  The error in a table that was not replaced strikes again: a
\* Fail-Stop, or the end of the waiting process, too.
Wait(p, c) ==
    /\ At(p, {"none"}) /\ pr[c].st = "zombie" /\ pr[c].parent = p
    /\ IF Tables(mm, pr[c].pt) \cap mm.dead # {}
       THEN \/ halted' = TRUE /\ UNCHANGED <<mm, pr, ti>>
            \/ /\ p # initproc
               /\ mm' = IF pr[c].tf = Null THEN mm ELSE Kfree(mm, pr[c].tf)
               /\ pr' = [Gone(pr, p) EXCEPT ![c].tf = Null, ![c].parent = initproc]
               /\ UNCHANGED <<ti, halted>>
       ELSE /\ Settle(Freeproc(mm, c))
            /\ pr' = [pr EXCEPT ![c] = NoProc]
            /\ ti' = Forget(ti, pr[c].pid)
    /\ UNCHANGED <<job, nextpid, ops, faults, bad>>

-----------------------------------------------------------------------------
(* recovery_handler_pagetable.c *)

\* reconst_from_PTDS and reconst_from_PTED: the level-0 table from the entries
\* of the lists that belong to the addresses from sva on; ok is FALSE when two
\* entries are for the same address.
PutEntry(r, i, pte) ==
    IF i >= W THEN r
    ELSE IF r.t[i] # NoPte THEN [r EXCEPT !.ok = FALSE]
    ELSE [r EXCEPT !.t[i] = pte]
\* Mutant: the order of the pages of a run is ignored.
PutRun_up(r, e) ==
    FoldLeft(LAMBDA x, k : PutEntry(x, PX0(e.va) + k, Leaf(e.pg + k, e.f)), r, From(0, e.n))
PutRun(r, e) ==
    FoldLeft(LAMBDA x, k : PutEntry(x, PX0(e.va) + k,
                                    Leaf(IF e.up THEN e.pg + k ELSE e.pg - k, e.f)),
             r, From(0, e.n))
FromPTDS(ps, sva) ==
    FoldLeft(PutRun, [t |-> EmptyTable, ok |-> TRUE],
             SelectSeq(ps, LAMBDA e : e.k = "ptds" /\ sva <= e.va /\ e.va <= sva + W))
Reconst(dp, sva) ==
    LET r == FromPTDS(dp.ptds, sva) IN
    IF ~r.ok THEN r
    ELSE FoldLeft(LAMBDA x, e : PutEntry(x, PX0(e.va), Leaf(e.pg, e.f)), r,
                  SelectSeq(dp.pted, LAMBDA e : e.k = "pted" /\ sva <= e.va /\ e.va < sva + W))

\* recovery_L2, recovery_L1 and recovery_L0 for process b, whose table t is
\* replaced by page m.got with the duplicates of index d.
recovery_L2(m, b, d, t) ==
    [m |-> [m EXCEPT !.tab[m.got] = m.dup[d].l2,
                     !.ml[m.got] = [pid |-> pr[b].pid, level |-> 2],
                     !.dup = [i \in DupIdx |-> IF i <= NPROC /\ @[i].pt = t
                                               THEN [@[i] EXCEPT !.pt = m.got] ELSE @[i]]],
     pt |-> m.got, ret |-> "fail"]

Unrecovered(m, b, ret) == [m |-> m, pt |-> pr[b].pt, ret |-> ret]

recovery_L1(m, b, d, t) ==
    LET S == {i \in Entry : m.dup[d].l2[i].pg = t}
        i == Min(S)
    IN IF S = {} THEN Unrecovered(m, b, IF Conservative THEN "stop" ELSE "kill")
       ELSE IF m.dup[d].l1[i].page = Null THEN Unrecovered(m, b, "kill")
       ELSE [m |-> [m EXCEPT !.tab[m.got] = m.dup[d].l1[i].t,
                             !.tab[pr[b].pt][i] = Dir(m.got), !.dup[d].l2[i] = Dir(m.got),
                             !.ml[m.got] = [pid |-> pr[b].pid, level |-> 1]],
             pt |-> pr[b].pt, ret |-> "fail"]

recovery_L0(m, b, d, t) ==
    LET S == {x \in Entry \X Entry : /\ m.dup[d].l1[x[1]].page # Null
                                     /\ m.dup[d].l1[x[1]].t[x[2]].pg = t}
        x == CHOOSE y \in S : \A z \in S : y[1] < z[1] \/ (y[1] = z[1] /\ y[2] <= z[2])
        r == Reconst(m.dup[d], (x[1] * W + x[2]) * W)
        l1 == m.tab[pr[b].pt][x[1]].pg
    IN IF S = {} THEN Unrecovered(m, b, "stop")
       ELSE IF ~r.ok THEN Unrecovered(m, b, "kill")
       ELSE [m |-> [m EXCEPT !.tab[m.got] = r.t, !.tab[l1][x[2]] = Dir(m.got),
                             !.dup[d].l1[x[1]].t[x[2]] = Dir(m.got),
                             !.ml[m.got] = [pid |-> pr[b].pid, level |-> 0]],
             pt |-> pr[b].pt, ret |-> "fail"]

\* mlist_tracker: the process under whose pid t is registered, and the index of
\* its duplicates (or those of t), the first that matches.
Owners(t) == {q \in Proc : mm.ml[t].pid # 0 /\ pr[q].pid = mm.ml[t].pid}
IdxFor(b, t) ==
    LET S == {i \in 0..NPROC : mm.dup[i].pt \in {pr[b].pt, t}}
    IN IF S = {} THEN NPROC + 1 ELSE Min(S)

Recover(b, t) ==
    LET d == IdxFor(b, t)
        m == Kalloc(mm)
    IN IF mm.dup[d].pt = Null THEN Unrecovered(mm, b, IF Conservative THEN "stop" ELSE "kill")
       ELSE IF m.got = Null THEN Unrecovered(mm, b, "stop")
       ELSE IF mm.ml[t].level = 2 THEN recovery_L2(m, b, d, t)
       ELSE IF mm.ml[t].level = 1 THEN recovery_L1(m, b, d, t)
       ELSE recovery_L0(m, b, d, t)

\* The tables that p touches next.
Touched(p) ==
    LET j == job[p]
        on(pt, S) == UNION {PathOf(mm, pt, va) : va \in S}
    IN IF ~Runs(p) THEN {}
       ELSE IF j.op = "none" THEN on(pr[p].pt, 0..(pr[p].sz - 1) \cup {TRAMPOLINE})
       ELSE IF j.op = "cleanup" \/ (j.a = j.end /\ j.op \notin {"load", "args"}) THEN {}
       ELSE IF j.op \in {"load", "args"} THEN on(j.pt, j.start..(j.end - 1))
       ELSE on(j.pt, {j.a}) \cup (IF j.op = "fork" THEN on(pr[p].pt, {j.a}) ELSE {})

\* cleanup_unused_procs: the duplicates that belong to no page table of a
\* process, and those of other page tables of the process that was hit.
DeleteDups(m, D) == FoldLeft(Ptdup_delete_all, m, SetToSeq(D))
Isolated(m, f) == {i \in 1..NPROC : m.dup[i].pt # Null /\ \A q \in Proc : f[q].pt # m.dup[i].pt}
OtherDups(m, f, p) ==
    {i \in 1..NPROC : /\ m.dup[i].pt \notin {Null, f[p].pt}
                      /\ m.ml[m.dup[i].pt].pid = f[p].pid}

\* The end of a recovery for p: it goes on, or is killed.
EndRecovery(p, f, kill) ==
    IF ~kill THEN f ELSE Gone(f, p)

\* A memory error in table t that p touches, and its handler.  The transaction
\* that is looked up is the one of the process under which t is registered; a
\* process in the middle of its fork has none, and what is read is undefined.
\* A slot with a pid in state UNUSED is taken for the one of a fork that was cut
\* off; when another process is still in that fork, the handler waits for it.
Hit(p, t) ==
    /\ faults < MaxFault
    /\ faults' = faults + 1
    /\ LET b == CHOOSE q \in Owners(t) : TRUE
           op == job[p].op
           level == mm.ml[t].level
           looping == op \in {"sbrk", "seg", "stack", "fork"}
           own == IF op = "fork" THEN {job[p].np} ELSE {}
           C == {q \in Proc : pr[q].st = "unused" /\ pr[q].pid # 0}
           empty == {q \in C : pr[q].pt = Null}
           waits == {q \in Proc : job[q].np \in C \ own /\ job[q].op = "fork"}
           Gave(m) == [m EXCEPT !.ml[t] = NoNode, !.dead = @ \cup {t}]
           Isolate(m, f) == IF empty # {} THEN DeleteDups(m, Isolated(m, f)) ELSE m
           Unfork(m, f) ==
               IF own = {} THEN m
               ELSE Proc_freepagetable(Kfree(m, pr[job[p].np].tf), f[job[p].np].pt, 0)
           Others(m, f) == DeleteDups(m, OtherDups(m, f, p))
       IN IF Owners(t) = {} \/ (looping /\ Conservative)
          THEN halted' = TRUE /\ UNCHANGED <<mm, pr, job, ti, bad>>
          ELSE \E r \in {Recover(b, t)}, kill \in BOOLEAN :
               IF r.ret = "stop"
               THEN halted' = TRUE /\ UNCHANGED <<mm, pr, job, ti, bad>>
               ELSE \E f \in {[pr EXCEPT ![b].pt = r.pt]} :
                    LET f1 == [q \in Proc |-> IF q \in own \cup empty THEN NoProc ELSE f[q]] IN
                    /\ Known(pr[b].pid) =>
                         kill = (\/ r.ret = "kill" \/ ti[TiOf(pr[b].pid)].n > 0
                                 \/ (level = 2 /\ op \in {"sbrk", "seg", "stack"}))
                    /\ mm' = Others(Unfork(Isolate(Gave(r.m), f), f), f1)
                    /\ halted' = (~Ok(mm') \/ (kill /\ p = initproc))
                    /\ bad' = (bad \/ (level = 0 /\ IdxFor(b, t) \in mm.off)
                                   \/ (level = 2 /\ t # pr[b].pt)
                                   \/ b = initproc)
                    /\ UNCHANGED ti
                    /\ IF waits = {}
                       THEN pr' = EndRecovery(p, f1, kill) /\ SetJob(p, NoJob)
                       ELSE /\ pr' = f1
                            /\ SetJob(p, [NoJob EXCEPT !.op = "cleanup",
                                                       !.n = IF kill THEN 1 ELSE 0,
                                                       !.np = job[CHOOSE q \in waits : TRUE].np])
    /\ UNCHANGED <<nextpid, ops>>

\* The handler has the lock of the process that another process forked, and
\* frees it, though it may run by now.
Cleanup(p) ==
    /\ At(p, {"cleanup"})
    /\ LET c == job[p].np IN
       /\ \A q \in Proc : job[q].np = c => job[q].op = "cleanup"
       /\ Settle(IF pr[c].st = "zombie" /\ Tables(mm, pr[c].pt) \cap mm.dead # {}
                 THEN Fail(mm, "panic") ELSE Freeproc(mm, c))
       /\ pr' = EndRecovery(p, [pr EXCEPT ![c] = NoProc], job[p].n = 1)
       /\ ti' = Forget(ti, pr[c].pid)
       /\ job' = [job EXCEPT ![p] = NoJob, ![c] = NoJob]
       /\ bad' = (bad \/ pr[c].st # "unused")
    /\ UNCHANGED <<nextpid, ops, faults>>

-----------------------------------------------------------------------------
ProcNext(p) ==
    \/ AllocPage(p) \/ AllocDone(p) \/ ExecLoad(p) \/ ExecArgs(p)
    \/ Fork(p) \/ CopyPage(p) \/ CopyDone(p) \/ Exit(p) \/ Cleanup(p)
    \/ \E k \in SbrkBy : Sbrk(p, k) \/ SbrkDown(p, k)
    \/ \E k \in 1..MaxSeg : Exec(p, k)
    \/ \E c \in Proc : Wait(p, c)
    \/ \E t \in Touched(p) \ mm.dead : Hit(p, t)

Next == \E p \in Proc : ProcNext(p)

-----------------------------------------------------------------------------
\* init after its exec: its level-1 and level-0 tables have neither duplicates
\* nor nodes.  Index 0 was the one of initcode and is free again.
Grow(m, pt, start, n) ==
    LET step(x, va) == LET pg == Kalloc(x.m).got IN
            [m |-> RunDup(NewPage(x.m, x.j, 0, "U"), x.j, pg), j |-> RunJob(x.j, pg)]
        x == FoldLeft(step, [m |-> m, j |-> Loop("sbrk", 0, pt, start, start + n)], From(start, n))
    IN RunEnd(x.m, x.j)

Booted(taken) ==
    LET pgs == SelectSeq([i \in 1..NPAGE |-> NPAGE + 1 - i], LAMBDA pg : pg \notin taken)
        m0 == [free |-> Tail(pgs), got |-> Null, fail |-> "none", off |-> {}, dead |-> {},
               tab |-> [t \in Page |-> EmptyTable], ml |-> [t \in Page |-> NoNode],
               dup |-> [i \in DupIdx |-> IF i = 0 THEN [NoDup EXCEPT !.pt = NPAGE + 1] ELSE NoDup]]
    IN Proc_pagetable(m0, Head(pgs), 1, 0)
InitImage(m) == [Uvmclear(Grow(Grow(m, m.got, 0, 1), m.got, 1, 2), m.got, 1)
                    EXCEPT !.dup[0] = NoDup, !.got = Null]

Init ==
    /\ \E taken \in Taken : \E m \in {Booted(taken)} :
         /\ mm = InitImage(m)
         /\ pr = [p \in Proc |->
                    IF p # initproc THEN NoProc
                    ELSE [st |-> "user", pid |-> 1, pt |-> m.got, sz |-> 3,
                          tf |-> PteOf(mm, m.got, TRAPFRAME).pg, parent |-> 0]]
    /\ job = [p \in Proc |-> NoJob]
    /\ ti = [i \in 0..NPROC |-> [pid |-> IF i = 0 THEN 1 ELSE 0, n |-> 0]]
    /\ nextpid = 2 /\ halted = FALSE /\ ops = 0 /\ faults = 0 /\ bad = FALSE

Spec == Init /\ [][Next]_vars

-----------------------------------------------------------------------------
SlotType == [k : {"five", "zero", "ptds", "pted"}, va : Nat, pg : Int, n : Nat, up : BOOLEAN,
             f : {"none", "U", "K", "tramp", "tf"}]
PteType == [pg : Page \cup {Null}, f : {"none", "dir", "U", "K", "tramp", "tf"}]
TableType == [Entry -> PteType]
TypeOK ==
    /\ ToSet(mm.free) \subseteq Page /\ mm.got \in Page \cup {Null}
    /\ mm.fail \in {"none", "nomem", "panic", "full"}
    /\ mm.off \subseteq DupIdx /\ mm.dead \subseteq Page
    /\ mm.tab \in [Page -> TableType]
    /\ mm.ml \in [Page -> [pid : Nat, level : 0..2]]
    /\ \A d \in DupIdx :
         /\ mm.dup[d].pt \in Page \cup {Null} /\ mm.dup[d].l2 \in TableType
         /\ mm.dup[d].l1 \in [Entry -> [page : Page \cup {Null}, t : TableType]]
         /\ ToSet(mm.dup[d].ptds) \cup ToSet(mm.dup[d].pted) \subseteq SlotType
    /\ pr \in [Proc -> [st : {"unused", "user", "zombie"}, pid : Nat, pt : Page \cup {Null},
                        sz : 0..(MaxSz + MaxSeg + 2), tf : Page \cup {Null},
                        parent : Proc \cup {0}]]
    /\ \A p \in Proc :
         job[p].op \in {"none", "sbrk", "seg", "load", "stack", "args", "fork", "cleanup"}
    /\ ti \in [0..NPROC -> [pid : Nat, n : Nat]]
    /\ nextpid \in Nat /\ halted \in BOOLEAN /\ bad \in BOOLEAN
    /\ ops \in 0..MaxOps /\ faults \in 0..MaxFault

Sound == ~halted /\ ~bad

\* The page tables in use: those of the processes, and those of exec.
Roots ==
    {<<"proc", p, 0, pr[p].pt>> : p \in {q \in Proc : pr[q].pt # Null}}
    \cup {<<"exec", p, 0, job[p].pt>> :
             p \in {q \in Proc : job[q].op \in {"seg", "load", "stack", "args"}}}
InUse == (UNION {Tables(mm, r[4]) : r \in Roots}) \ {Null}

\* The copies of the level-2 and level-1 tables are what the tables are, through
\* every call that fails half way and every recovery: a recovery of these levels
\* loses and invents nothing.  (init has no copies.)
Mirrored ==
    Sound => \A r \in Roots \ {<<"proc", initproc, 0, pr[initproc].pt>>} :
        LET d == IdxOf(mm, r[4]) IN
        d >= 0 =>
            /\ mm.dup[d].l2 = mm.tab[r[4]]
            /\ \A i \in Entry : mm.tab[r[4]][i].pg # Null =>
                   mm.dup[d].l1[i].t = mm.tab[mm.tab[r[4]][i].pg]

\* Types, and the copies of the upper levels.
TablesInv == TypeOK /\ Mirrored

\* A page is free, or has one use: a page table, an entry of one, a trapframe,
\* or duplicates.  No error path and no recovery frees a page that is still in
\* use, frees one twice, or maps a page that was freed.
NoDoubleUse ==
    Sound =>
        LET Refs == {<<"free", i, 0, mm.free[i]>> : i \in DOMAIN mm.free}
                    \cup Roots
                    \cup {x \in {<<"entry", t, i, mm.tab[t][i].pg>> : t \in InUse, i \in Entry} :
                              x[4] # Null /\ mm.tab[x[2]][x[3]].f # "tf"}
                    \cup {<<"tf", p, 0, pr[p].tf>> : p \in {q \in Proc : pr[q].tf # Null}}
                    \cup UNION {{<<"dup", d, i, mm.dup[d].pages[i]>> : i \in DOMAIN mm.dup[d].pages}
                                : d \in DupIdx}
                    \cup {x \in {<<"dupl1", d, i, mm.dup[d].l1[i].page>> :
                                     d \in DupIdx, i \in Entry} : x[4] # Null}
        IN /\ Cardinality(Refs) = Cardinality({x[4] : x \in Refs})
           /\ ToSet(mm.free) \cap mm.dead = {}

\* A recovery changes nobody's address space, unless the table was one of those
\* whose duplicates the code is known to keep wrongly.
RecoverySound ==
    [][faults' # faults /\ ~halted' /\ ~bad' =>
         \A p \in Proc : pr[p].st = "user" /\ pr'[p].st = "user" =>
             \A va \in 0..(pr[p].sz - 1) \cup {TRAPFRAME, TRAMPOLINE} :
                 PteOf(mm', pr'[p].pt, va) = PteOf(mm, pr[p].pt, va)]_vars
=============================================================================
