---------------------------- MODULE FsTreeProofs ----------------------------
(* The reference counts of the inode cache, for every number of processes, *)
(* inodes and cache entries: no call, no failure of a call half way and no *)
(* recovery of a struct inode loses a reference or counts one twice.  So   *)
(* the last reference that iput finds is its own, and the lock that it     *)
(* takes under the spinlock of the cache is free.  Then, from that: what   *)
(* an unlocked valid entry holds is what the disk has.                     *)
EXTENDS FsTree, FiniteSetTheorems, WellFoundedInduction, TLAPS

-----------------------------------------------------------------------------
(* The inductive invariant. *)

\* Slot or none.
SlotOr == Slot \cup {None}
PathRec == [abs : BOOLEAN, e : Seq(STRING)]
RW == {"read", "write"}
Parents == {"create", "mkdir", "mknod", "unlink"}

\* Where a call has an inode in ip, and in dp.
IpPc == {"open", "chdir", "link", "linked", "linkbad", "linkdir", "unlinkip", "unlinked", "exists",
         "created", "new", "read", "write", "chdone"}
DpPc == {"walk", "create", "unlink", "linkdir", "unlinkip", "unlinkbad", "created"}
\* The parts of iput.
PutPc == {"iput", "itrunc", "iinval", "irel"}
\* Where else a call can be.
CallPc == IpPc \cup DpPc \cup {"end", "exit", "exited"}
Pc == CallPc \cup PutPc \cup {"user", "begun", "drain", "dead"}

Call == {"", "openr", "openrw", "chdir", "link", "close", "exit"} \cup Parents \cup RW
Frame == [pc : Pc, call : Call, abs : BOOLEAN, e : Seq(STRING), par : BOOLEAN, ip : SlotOr,
          dp : SlotOr, put : SlotOr, then : CallPc \cup {""}, e2 : PathRec, n : Nat]

\* The inodes that a call has at l, which is where it is or comes to after iput.
Linking(x) == x.call = "link" /\ x.par
Ready(l, x) ==
    /\ l \in CallPc
    /\ IF l \in DpPc THEN x.dp \in Slot ELSE x.dp = None
    /\ IF l \in IpPc \/ (l = "walk" /\ Linking(x)) THEN x.ip \in Slot 
       ELSE x.ip = None \/ (l = "end" /\ x.call \in RW)
    /\ l = "walk" => x.e # <<>> /\ (x.par => x.call \in Parents \cup {"link"})
    /\ l \in {"link", "linkdir", "linkbad", "linked"} => x.call = "link"
    /\ l \in {"link", "open", "chdir"} => ~x.par
    /\ l = "linkdir" => x.par
    /\ l \in {"create", "created", "new", "unlink", "unlinkip", "unlinkbad", "unlinked"} =>
         x.call \in Parents
    /\ l = "chdir" \/ l = "chdone" => x.call = "chdir"
    /\ l \in {"exit", "exited"} => x.call = "exit" /\ ~x.par
    /\ l \in RW => x.call \in RW
    /\ x.call \in RW => l \in RW \cup {"end"}
    /\ x.call \in Parents => x.par
    /\ x.call = "chdir" => ~x.par

Moved == {"chdone", "exited"}
Fit(x) ==
    /\ x \in Frame
    /\ x.pc = "user" => x = Idle
    /\ x.pc \in CallPc => x.put = None /\ Ready(x.pc, x)
                     /\ (x.then \in Moved \/ x.pc \in Moved => x.pc = x.then)
    /\ x.pc \in PutPc => x.put \in Slot /\ Ready(x.then, x)
    /\ x.pc = "begun" =>
         /\ x.put = None /\ x.dp = None /\ x.then \notin Moved
         /\ IF x.call = "close" THEN x.ip \in Slot ELSE x.ip = None
         /\ x.par <=> x.call \in Parents
    /\ x.pc = "drain" =>
         /\ x.put \in Slot
         /\ x.ip = None \/ x.dp \in {None, x.put}
         /\ x.call \in RW => x.dp = None
         /\ x.then \notin Moved
    /\ x.pc = "dead" => x.ip = None /\ x.dp = None /\ x.put = None

Fields == {"inum", "ref", "valid", "lock", "d"}
GoodCache(c) == DOMAIN c = Slot /\ \A s \in Slot : DOMAIN c[s] = Fields

\* The inodes that a process can have locked between two steps.
Holds(x, s) ==
    LET l == IF x.pc \in PutPc THEN x.then ELSE x.pc
    IN \/ l \in {"unlinkip", "unlinkbad", "created"} /\ s = x.dp
       \/ l \in {"unlinked", "new"} /\ s = x.ip
       \/ x.pc \in {"itrunc", "iinval"} /\ s = x.put
LockInv == \A s \in Slot : ic[s].lock = None \/ (ic[s].lock \in Proc /\ Holds(t[ic[s].lock], s))

OneIn(c) == \A s, x \in Slot : c[s].ref > 0 /\ c[x].ref > 0 /\ c[s].inum = c[x].inum => s = x

Shape ==
    /\ GoodCache(ic) /\ leak \in [Slot -> Nat]
    /\ t \in [Proc -> Frame] /\ \A p \in Proc : Fit(t[p])
    /\ cwd \in [Proc -> SlotOr] /\ \A p \in Proc : cwd[p] # None \/ t[p].pc = "dead"
    /\ of \in [Proc -> [ip : SlotOr, wr : BOOLEAN, off : Nat]]
Inv == Sound => Shape /\ LockInv /\ RefsExact /\ OneIn(ic)

-----------------------------------------------------------------------------
(* Counts of processes. *)

Bit(b) == IF b THEN 1 ELSE 0

\* A count of processes changes by what one of them adds and takes away.
LEMMA CountStep ==
    ASSUME NEW P, NEW Q, NEW p \in Proc, \A q \in Proc : q # p => (P[q] <=> Q[q])
    PROVE  /\ Count(P) \in Nat /\ Count(Q) \in Nat
           /\ Count(Q) = Count(P) - Bit(P[p]) + Bit(Q[p])
<1> DEFINE A == {q \in Proc : P[q]}
           B == {q \in Proc : Q[q]}
<1>1. IsFiniteSet(A) /\ IsFiniteSet(B)
  <2>1. A \subseteq Proc /\ B \subseteq Proc OBVIOUS
  <2>2. QED BY <2>1, FS_Subset, FsTreeAssumption
<1>2. /\ Cardinality(A) \in Nat /\ Cardinality(B) \in Nat
      /\ Cardinality(A \ {p}) = IF p \in A THEN Cardinality(A) - 1 ELSE Cardinality(A)
      /\ Cardinality(B \ {p}) = IF p \in B THEN Cardinality(B) - 1 ELSE Cardinality(B)
  BY <1>1, FS_CardinalityType, FS_RemoveElement
<1>3. A \ {p} = B \ {p} OBVIOUS
<1>4. (p \in A <=> P[p]) /\ (p \in B <=> Q[p]) OBVIOUS
<1>5. Count(P) = Cardinality(A) /\ Count(Q) = Cardinality(B) BY DEF Count
<1>6. /\ Bit(P[p]) = IF p \in A THEN 1 ELSE 0
      /\ Bit(Q[p]) = IF p \in B THEN 1 ELSE 0
  BY <1>4 DEF Bit
<1> HIDE DEF A, B
<1>7. QED BY <1>2, <1>3, <1>5, <1>6

\* A count is at least what one process, or two of them, add to it.
LEMMA CountAtLeast ==
    ASSUME NEW P
    PROVE  /\ Count(P) \in Nat
           /\ \A p \in Proc : Count(P) >= Bit(P[p])
           /\ \A p, q \in Proc : p # q => Count(P) >= Bit(P[p]) + Bit(P[q])
           /\ Count(P) > 0 => \E p \in Proc : P[p]
<1> DEFINE A == {q \in Proc : P[q]}
<1>1. IsFiniteSet(A) /\ A \subseteq Proc
  <2>1. A \subseteq Proc OBVIOUS
  <2>2. QED BY <2>1, FS_Subset, FsTreeAssumption
<1>2. Count(P) = Cardinality(A) /\ Cardinality(A) \in Nat BY <1>1, FS_CardinalityType DEF Count
<1>3. \A p : IsFiniteSet(A \ {p}) /\ Cardinality(A \ {p}) \in Nat
             /\ Cardinality(A \ {p}) = IF p \in A THEN Cardinality(A) - 1 ELSE Cardinality(A)
  BY <1>1, FS_CardinalityType, FS_RemoveElement
<1>4. \A p, q : /\ Cardinality((A \ {p}) \ {q}) \in Nat
                /\ Cardinality((A \ {p}) \ {q}) = IF q \in A \ {p} THEN Cardinality(A \ {p}) - 1
                                                  ELSE Cardinality(A \ {p})
  BY <1>3, FS_CardinalityType, FS_RemoveElement
<1>5. \A p \in Proc : p \in A <=> P[p] OBVIOUS
<1>6. A = {} => Cardinality(A) = 0 BY FS_EmptySet
<1>7. A # {} => \E p \in Proc : P[p] OBVIOUS
<1>10. \A p \in Proc : Bit(P[p]) = IF p \in A THEN 1 ELSE 0 BY <1>5 DEF Bit
<1> HIDE DEF A
<1>8. ASSUME NEW p \in Proc PROVE Count(P) >= Bit(P[p])
  <2>1. /\ Cardinality(A \ {p}) = IF p \in A THEN Cardinality(A) - 1 ELSE Cardinality(A)
        /\ Cardinality(A \ {p}) \in Nat
    BY <1>3
  <2>2. Bit(P[p]) = IF p \in A THEN 1 ELSE 0 BY <1>10
  <2>3. QED BY <1>2, <2>1, <2>2
<1>9. ASSUME NEW p \in Proc, NEW q \in Proc, p # q PROVE Count(P) >= Bit(P[p]) + Bit(P[q])
  <2>1. q \in A \ {p} <=> q \in A BY <1>9
  <2>2. /\ Cardinality(A \ {p}) = IF p \in A THEN Cardinality(A) - 1 ELSE Cardinality(A)
        /\ Cardinality(A \ {p}) \in Nat
        /\ Cardinality((A \ {p}) \ {q}) = IF q \in A THEN Cardinality(A \ {p}) - 1
                                          ELSE Cardinality(A \ {p})
        /\ Cardinality((A \ {p}) \ {q}) \in Nat
    BY <1>3, <1>4, <2>1
  <2>3. Bit(P[p]) = (IF p \in A THEN 1 ELSE 0) /\ Bit(P[q]) = (IF q \in A THEN 1 ELSE 0) BY <1>10
  <2>4. QED BY <1>2, <2>2, <2>3
<1>11. QED BY <1>2, <1>6, <1>7, <1>8, <1>9

\* The references of a process whose call has the frame x, whose current
\* directory is c and whose open file is on o, to s.
Held(x, c, o, s) ==
    Bit(x.ip = s /\ x.call \notin RW) + Bit(x.dp = s) + Bit(x.put = s /\ x.pc # "drain")
    + Bit(c = s /\ x.then \notin Moved) + Bit(o = s)
Mine(p, s) == Held(t[p], cwd[p], of[p].ip, s)
Refs(s) ==
    Flight(s)
    + Count([p \in Proc |-> cwd[p] = s /\ t[p].then \notin {"chdone", "exited"}])
    + Count([p \in Proc |-> of[p].ip = s])
\* The others have the same references to s as before.
AloneAt(p, s) ==
    \A q \in Proc : q # p => t'[q] = t[q] /\ cwd'[q] = cwd[q] /\ (of'[q].ip = s <=> of[q].ip = s)

\* RefsExact says that all the references are counted.
Exact == \A s \in Slot : ic[s].ref = InitRefs(s) + leak[s] + Refs(s)
\* The property and the form of it that the proofs use are the same.
LEMMA ExactRefs == ASSUME leak \in [Slot -> Nat] PROVE RefsExact <=> Exact
<1>1. \A a, b, c, d, e \in Nat : a + b + c + d + e = a + b + (c + d + e) OBVIOUS
<1>2. \A x, y, z \in Nat : x + y + z \in Nat OBVIOUS
<1>3. SUFFICES ASSUME NEW s \in Slot
      PROVE  InitRefs(s) + leak[s] + Refs(s)
               = InitRefs(s) + leak[s] + Flight(s)
                 + Count([p \in Proc |-> cwd[p] = s /\ t[p].then \notin {"chdone", "exited"}])
                 + Count([p \in Proc |-> of[p].ip = s])
  BY DEF RefsExact, Exact
<1>4. Flight(s) \in Nat
  <2> DEFINE A == [p \in Proc |-> t[p].ip = s /\ t[p].call \notin {"read", "write"}]
             B == [p \in Proc |-> t[p].dp = s]
             C == [p \in Proc |-> t[p].put = s /\ t[p].pc # "drain"]
  <2>1. Flight(s) = Count(A) + Count(B) + Count(C) BY DEF Flight
  <2> HIDE DEF A, B, C
  <2>2. Count(A) \in Nat /\ Count(B) \in Nat /\ Count(C) \in Nat BY CountAtLeast
  <2>3. QED BY <1>2, <2>1, <2>2
<1>5. /\ Count([p \in Proc |-> cwd[p] = s /\ t[p].then \notin {"chdone", "exited"}]) \in Nat
      /\ Count([p \in Proc |-> of[p].ip = s]) \in Nat
  BY CountAtLeast
<1>6. InitRefs(s) \in Nat /\ leak[s] \in Nat BY DEF InitRefs
<1>7. QED BY <1>1, <1>4, <1>5, <1>6 DEF Refs

\* A step of one process changes the references by what it has more or less.
LEMMA RefsStep ==
    ASSUME NEW p \in Proc, NEW s \in Slot, AloneAt(p, s)
    PROVE  Refs(s) \in Nat /\ Refs(s)' \in Nat /\ Refs(s)' = Refs(s) - Mine(p, s) + Mine(p, s)'
<1> DEFINE A1 == [q \in Proc |-> t[q].ip = s /\ t[q].call \notin {"read", "write"}]
           A2 == [q \in Proc |-> t[q].dp = s]
           A3 == [q \in Proc |-> t[q].put = s /\ t[q].pc # "drain"]
           A4 == [q \in Proc |-> cwd[q] = s /\ t[q].then \notin {"chdone", "exited"}]
           A5 == [q \in Proc |-> of[q].ip = s]
           B1 == [q \in Proc |-> t'[q].ip = s /\ t'[q].call \notin {"read", "write"}]
           B2 == [q \in Proc |-> t'[q].dp = s]
           B3 == [q \in Proc |-> t'[q].put = s /\ t'[q].pc # "drain"]
           B4 == [q \in Proc |-> cwd'[q] = s /\ t'[q].then \notin {"chdone", "exited"}]
           B5 == [q \in Proc |-> of'[q].ip = s]
<1>1. /\ \A q \in Proc : q # p => (A1[q] <=> B1[q])
      /\ \A q \in Proc : q # p => (A2[q] <=> B2[q])
      /\ \A q \in Proc : q # p => (A3[q] <=> B3[q])
      /\ \A q \in Proc : q # p => (A4[q] <=> B4[q])
      /\ \A q \in Proc : q # p => (A5[q] <=> B5[q])
  BY DEF AloneAt
<1>2. /\ Refs(s) = Count(A1) + Count(A2) + Count(A3) + Count(A4) + Count(A5)
      /\ Refs(s)' = Count(B1) + Count(B2) + Count(B3) + Count(B4) + Count(B5)
  BY DEF Refs, Flight, Count
<1>3. /\ Mine(p, s) = Bit(A1[p]) + Bit(A2[p]) + Bit(A3[p]) + Bit(A4[p]) + Bit(A5[p])
      /\ Mine(p, s)' = Bit(B1[p]) + Bit(B2[p]) + Bit(B3[p]) + Bit(B4[p]) + Bit(B5[p])
  BY DEF Mine, Held, RW, Moved
<1> HIDE DEF A1, A2, A3, A4, A5, B1, B2, B3, B4, B5
<1>4. /\ Count(A1) \in Nat /\ Count(B1) \in Nat /\ Count(B1) = Count(A1) - Bit(A1[p]) + Bit(B1[p])
      /\ Count(A2) \in Nat /\ Count(B2) \in Nat /\ Count(B2) = Count(A2) - Bit(A2[p]) + Bit(B2[p])
      /\ Count(A3) \in Nat /\ Count(B3) \in Nat /\ Count(B3) = Count(A3) - Bit(A3[p]) + Bit(B3[p])
      /\ Count(A4) \in Nat /\ Count(B4) \in Nat /\ Count(B4) = Count(A4) - Bit(A4[p]) + Bit(B4[p])
      /\ Count(A5) \in Nat /\ Count(B5) \in Nat /\ Count(B5) = Count(A5) - Bit(A5[p]) + Bit(B5[p])
  BY <1>1, CountStep
<1>5. \A b : Bit(b) \in Nat BY DEF Bit
<1>6. QED BY <1>2, <1>3, <1>4, <1>5

\* One process has no more references than are counted, and two of them neither.
LEMMA RefsAtLeast ==
    ASSUME NEW s \in Slot
    PROVE  /\ Refs(s) \in Nat
           /\ \A p \in Proc : Mine(p, s) \in Nat /\ Refs(s) >= Mine(p, s)
           /\ \A p, q \in Proc : p # q => Refs(s) >= Mine(p, s) + Mine(q, s)
<1> DEFINE A1 == [q \in Proc |-> t[q].ip = s /\ t[q].call \notin {"read", "write"}]
           A2 == [q \in Proc |-> t[q].dp = s]
           A3 == [q \in Proc |-> t[q].put = s /\ t[q].pc # "drain"]
           A4 == [q \in Proc |-> cwd[q] = s /\ t[q].then \notin {"chdone", "exited"}]
           A5 == [q \in Proc |-> of[q].ip = s]
<1>2. Refs(s) = Count(A1) + Count(A2) + Count(A3) + Count(A4) + Count(A5)
  BY DEF Refs, Flight, Count
<1>3. \A p \in Proc : Mine(p, s) = Bit(A1[p]) + Bit(A2[p]) + Bit(A3[p]) + Bit(A4[p]) + Bit(A5[p])
  BY DEF Mine, Held, RW, Moved
<1> HIDE DEF A1, A2, A3, A4, A5
<1>4. \A b : Bit(b) \in Nat BY DEF Bit
<1>5. /\ Count(A1) \in Nat /\ Count(A2) \in Nat /\ Count(A3) \in Nat /\ Count(A4) \in Nat
      /\ Count(A5) \in Nat
  BY CountAtLeast
<1>6. ASSUME NEW p \in Proc PROVE Mine(p, s) \in Nat /\ Refs(s) >= Mine(p, s)
  <2>1. /\ Count(A1) >= Bit(A1[p]) /\ Count(A2) >= Bit(A2[p]) /\ Count(A3) >= Bit(A3[p])
        /\ Count(A4) >= Bit(A4[p]) /\ Count(A5) >= Bit(A5[p])
    BY CountAtLeast
  <2>2. QED BY <1>2, <1>3, <1>4, <1>5, <2>1
<1>7. ASSUME NEW p \in Proc, NEW q \in Proc, p # q PROVE Refs(s) >= Mine(p, s) + Mine(q, s)
  <2>1. /\ Count(A1) >= Bit(A1[p]) + Bit(A1[q]) /\ Count(A2) >= Bit(A2[p]) + Bit(A2[q])
        /\ Count(A3) >= Bit(A3[p]) + Bit(A3[q]) /\ Count(A4) >= Bit(A4[p]) + Bit(A4[q])
        /\ Count(A5) >= Bit(A5[p]) + Bit(A5[q])
    BY <1>7, CountAtLeast
  <2>2. QED BY <1>2, <1>3, <1>4, <1>5, <2>1
<1>8. Refs(s) \in Nat BY <1>2, <1>5
<1>9. QED BY <1>6, <1>7, <1>8

-----------------------------------------------------------------------------
(* The operations on the cache. *)

\* The entries as they were, except that the lock of s is l.
Turned(c, c2, s, l) ==
    /\ GoodCache(c2)
    /\ \A x \in Slot : /\ c2[x].ref = c[x].ref /\ c2[x].inum = c[x].inum
                       /\ c2[x].lock = IF x = s THEN l ELSE c[x].lock
\* One more reference to k.
Added(c, c2, k) ==
    /\ k \in Slot /\ GoodCache(c2)
    /\ \A x \in Slot : /\ c2[x].ref = c[x].ref + (IF x = k THEN 1 ELSE 0)
                       /\ c2[x].lock = c[x].lock
    /\ OneIn(c) => OneIn(c2)

\* ilock and iunlock change neither references nor inode numbers.
LEMMA LockTurns ==
    ASSUME NEW c, GoodCache(c), NEW s \in Slot, NEW p, NEW d
    PROVE  Turned(c, Lock(c, s, p, d), s, p)
<1> DEFINE c2 == Lock(c, s, p, d)
<1>1. DOMAIN c2 = Slot BY DEF GoodCache, Lock
<1>2. \A x \in Slot : x # s => c2[x] = c[x] BY DEF GoodCache, Lock
<1>3. c2[s] = [c[s] EXCEPT !.valid = TRUE, !.d = d, !.lock = p] BY DEF GoodCache, Lock
<1>4. DOMAIN c[s] = Fields BY DEF GoodCache
<1> HIDE DEF c2
<1>5. /\ DOMAIN c2[s] = Fields /\ c2[s].ref = c[s].ref /\ c2[s].inum = c[s].inum /\ c2[s].lock = p
  BY <1>3, <1>4 DEF Fields
<1>6. GoodCache(c2) BY <1>1, <1>2, <1>5 DEF GoodCache
<1>7. QED BY <1>2, <1>5, <1>6 DEF Turned, c2

\* iunlock leaves references and inode numbers alone.
LEMMA UnlockTurns ==
    ASSUME NEW c, GoodCache(c), NEW s \in Slot
    PROVE  Turned(c, Unlock(c, s), s, None)
<1> DEFINE c2 == Unlock(c, s)
<1>1. DOMAIN c2 = Slot BY DEF GoodCache, Unlock
<1>2. \A x \in Slot : x # s => c2[x] = c[x] BY DEF GoodCache, Unlock
<1>3. c2[s] = [c[s] EXCEPT !.lock = None] BY DEF GoodCache, Unlock
<1>4. DOMAIN c[s] = Fields BY DEF GoodCache
<1> HIDE DEF c2
<1>5. /\ DOMAIN c2[s] = Fields /\ c2[s].ref = c[s].ref /\ c2[s].inum = c[s].inum /\ c2[s].lock = None
  BY <1>3, <1>4 DEF Fields
<1>6. GoodCache(c2) BY <1>1, <1>2, <1>5 DEF GoodCache
<1>7. QED BY <1>2, <1>5, <1>6 DEF Turned, c2

\* So does a change of an entry that unlocks it.
LEMMA SetTurns ==
    ASSUME NEW c, GoodCache(c), NEW s \in Slot, NEW d
    PROVE  Turned(c, Set(c, s, d), s, None)
<1>1. Set(c, s, d) = Lock(c, s, None, d) BY DEF Set, Lock
<1>2. QED BY <1>1, LockTurns

\* A change of one entry.
LEMMA OneMore ==
    ASSUME NEW c, GoodCache(c), NEW c2, NEW k \in Slot, \A x \in Slot : c[x].ref \in Nat,
           DOMAIN c2 = Slot, \A x \in Slot : x # k => c2[x] = c[x],
           DOMAIN c2[k] = Fields, c2[k].ref = c[k].ref + 1, c2[k].lock = c[k].lock,
           \/ c2[k].inum = c[k].inum /\ c[k].ref > 0
           \/ \A x \in Slot : c[x].ref > 0 => c[x].inum # c2[k].inum
    PROVE  Added(c, c2, k)
<1>1. GoodCache(c2) BY DEF GoodCache
<1>2. ASSUME OneIn(c) PROVE OneIn(c2)
  <2> SUFFICES ASSUME NEW s \in Slot, NEW x \in Slot, c2[s].ref > 0, c2[x].ref > 0,
                      c2[s].inum = c2[x].inum
               PROVE  s = x
    BY DEF OneIn
  <2>1. CASE s = k
    <3>1. CASE x # k
      <4>1. c[x].ref > 0 /\ c[x].inum = c2[k].inum BY <2>1, <3>1
      <4>2. c2[k].inum = c[k].inum /\ c[k].ref > 0 BY <4>1
      <4>3. QED BY <1>2, <2>1, <4>1, <4>2 DEF OneIn
    <3>2. QED BY <2>1, <3>1
  <2>2. CASE s # k
    <3>1. CASE x = k
      <4>1. c[s].ref > 0 /\ c[s].inum = c2[k].inum BY <2>2, <3>1
      <4>2. c2[k].inum = c[k].inum /\ c[k].ref > 0 BY <4>1
      <4>3. QED BY <1>2, <3>1, <4>1, <4>2 DEF OneIn
    <3>2. CASE x # k BY <1>2, <2>2, <3>2 DEF OneIn
    <3>3. QED BY <3>1, <3>2
  <2>3. QED BY <2>1, <2>2
<1>3. ASSUME NEW x \in Slot
      PROVE  c2[x].ref = c[x].ref + (IF x = k THEN 1 ELSE 0) /\ c2[x].lock = c[x].lock
  OBVIOUS
<1>4. QED BY <1>1, <1>2, <1>3 DEF Added

\* idup.
LEMMA IdupAdds ==
    ASSUME NEW c, GoodCache(c), NEW s \in Slot, \A x \in Slot : c[x].ref \in Nat, c[s].ref > 0
    PROVE  Added(c, Idup(c, s), s)
<1> DEFINE c2 == Idup(c, s)
<1>1. DOMAIN c2 = Slot /\ \A x \in Slot : x # s => c2[x] = c[x] BY DEF GoodCache, Idup
<1>2. c2[s] = [c[s] EXCEPT !.ref = c[s].ref + 1] BY DEF GoodCache, Idup
<1>3. DOMAIN c[s] = Fields BY DEF GoodCache
<1> HIDE DEF c2
<1>4. DOMAIN c2[s] = Fields /\ c2[s].ref = c[s].ref + 1 /\ c2[s].lock = c[s].lock
      /\ c2[s].inum = c[s].inum
  BY <1>2, <1>3 DEF Fields
<1>5. Added(c, c2, s) BY <1>1, <1>4, OneMore
<1>6. QED BY <1>5 DEF c2

\* The least of a set of entries.
LEMMA LeastSlot == ASSUME NEW S, S \subseteq Nat, S # {} PROVE Min(S) \in S
<1>1. \E m \in S : \A k \in S : ~ (<<k, m>> \in OpToRel(<, Nat))
  BY WFMin, NatLessThanWellFounded
<1>2. PICK m \in S : \A k \in S : ~ (<<k, m>> \in OpToRel(<, Nat))
  BY <1>1
<1>3. \A k \in S : ~ (k < m) BY <1>2 DEF OpToRel
<1>4. \E y \in S : \A k \in S : y <= k BY <1>3
<1>5. QED BY <1>4 DEF Min

\* iget: a reference to the entry of the inode, the only one, or to a free entry.
LEMMA IgetAdds ==
    ASSUME NEW c, GoodCache(c), NEW i, \A x \in Slot : c[x].ref \in Nat, Iget(c, i).got # None
    PROVE  Added(c, Iget(c, i).c, Iget(c, i).got)
<1>1. CASE Cached(c, i) # {}
  <2>1. PICK s : s = Min(Cached(c, i)) OBVIOUS
  <2>2. s \in Slot /\ c[s].ref > 0
    <3>1. Cached(c, i) \subseteq Nat BY DEF Cached, Slot
    <3>2. s \in Cached(c, i) BY <1>1, <2>1, <3>1, LeastSlot
    <3>3. QED BY <3>2 DEF Cached
  <2>3. Iget(c, i).got = s /\ Iget(c, i).c = Idup(c, s) BY <1>1, <2>1 DEF Iget, Idup
  <2>4. QED BY <2>2, <2>3, IdupAdds
<1>2. CASE Cached(c, i) = {} /\ Empty(c) # {}
  <2>1. PICK s : s = Min(Empty(c)) OBVIOUS
  <2>2. s \in Slot /\ c[s].ref = 0
    <3>1. Empty(c) \subseteq Nat BY DEF Empty, Slot
    <3>2. s \in Empty(c) BY <1>2, <2>1, <3>1, LeastSlot
    <3>3. QED BY <3>2 DEF Empty
  <2> DEFINE c2 == [c EXCEPT ![s].inum = i, ![s].ref = 1, ![s].valid = FALSE]
  <2>3. Iget(c, i).got = s /\ Iget(c, i).c = c2 BY <1>2, <2>1 DEF Iget
  <2>4. DOMAIN c2 = Slot /\ \A x \in Slot : x # s => c2[x] = c[x] BY DEF GoodCache
  <2>5. c2[s] = [c[s] EXCEPT !.inum = i, !.ref = 1, !.valid = FALSE] BY <2>2 DEF GoodCache
  <2>6. DOMAIN c[s] = Fields BY <2>2 DEF GoodCache
  <2> HIDE DEF c2
  <2>7. DOMAIN c2[s] = Fields /\ c2[s].ref = c[s].ref + 1 /\ c2[s].lock = c[s].lock /\ c2[s].inum = i
    BY <2>2, <2>5, <2>6 DEF Fields
  <2>8. \A x \in Slot : c[x].ref > 0 => c[x].inum # i BY <1>2 DEF Cached
  <2>9. Added(c, c2, s) BY <2>2, <2>4, <2>7, <2>8, OneMore
  <2>10. QED BY <2>3, <2>9
<1>3. QED BY <1>1, <1>2 DEF Iget

-----------------------------------------------------------------------------
(* The frames of calls. *)

\* y is x at another place, with other inodes.
Moves(x, y, l, ip, dp, put, then) ==
    /\ y \in Frame /\ y.pc = l /\ y.ip = ip /\ y.dp = dp /\ y.put = put /\ y.then = then
    /\ y.call = x.call /\ y.par = x.par /\ y.e = x.e /\ y.abs = x.abs /\ y.e2 = x.e2

\* Goto moves a call and leaves its inodes.
LEMMA GotoMoves ==
    ASSUME NEW x \in Frame, NEW l \in Pc
    PROVE  Moves(x, Goto(x, l), l, x.ip, x.dp, x.put, x.then)
BY DEF Moves, Goto, Frame

\* PutThen hands s to iput.
LEMMA PutThenMoves ==
    ASSUME NEW x \in Frame, NEW l \in CallPc, NEW s \in SlotOr
    PROVE  Moves(x, PutThen(x, s, l), "iput", x.ip, x.dp, s, l)
<1> DEFINE a == [x EXCEPT !.pc = "iput"]
           b == [a EXCEPT !.put = s]
           y == [b EXCEPT !.then = l]
<1>1. PutThen(x, s, l) = y BY DEF PutThen, Frame
<1>2. Moves(x, a, "iput", x.ip, x.dp, x.put, x.then)
  <2>1. "iput" \in Pc BY DEF Pc, PutPc
  <2>2. QED BY <2>1, GotoMoves DEF Goto
<1> HIDE DEF a
<1>3. Moves(x, b, "iput", x.ip, x.dp, s, x.then) BY <1>2 DEF Moves, Frame
<1> HIDE DEF b
<1>4. Moves(x, y, "iput", x.ip, x.dp, s, l) BY <1>3 DEF Moves, Frame
<1>5. QED BY <1>1, <1>4

\* PutIp hands the inode in ip to iput.
LEMMA PutIpMoves ==
    ASSUME NEW x \in Frame, NEW l \in CallPc
    PROVE  Moves(x, PutIp(x, l), "iput", None, x.dp, x.ip, l)
<1> DEFINE a == [x EXCEPT !.ip = None]
<1>1. Moves(x, a, x.pc, None, x.dp, x.put, x.then) BY DEF Moves, Frame, SlotOr
<1>2. x.ip \in SlotOr BY DEF Frame
<1>3. PutIp(x, l) = PutThen(a, x.ip, l) BY DEF PutIp
<1> HIDE DEF a
<1>4. Moves(a, PutThen(a, x.ip, l), "iput", a.ip, a.dp, x.ip, l) BY <1>1, <1>2, PutThenMoves DEF Moves
<1>5. QED BY <1>1, <1>3, <1>4 DEF Moves

\* PutDp hands the inode in dp to iput.
LEMMA PutDpMoves ==
    ASSUME NEW x \in Frame, NEW l \in CallPc
    PROVE  Moves(x, PutDp(x, l), "iput", x.ip, None, x.dp, l)
<1> DEFINE a == [x EXCEPT !.dp = None]
<1>1. Moves(x, a, x.pc, x.ip, None, x.put, x.then) BY DEF Moves, Frame, SlotOr
<1>2. x.dp \in SlotOr BY DEF Frame
<1>3. PutDp(x, l) = PutThen(a, x.dp, l) BY DEF PutDp
<1> HIDE DEF a
<1>4. Moves(a, PutThen(a, x.dp, l), "iput", a.ip, a.dp, x.dp, l) BY <1>1, <1>2, PutThenMoves DEF Moves
<1>5. QED BY <1>1, <1>3, <1>4 DEF Moves

\* A call without iput to do, and one with it.
LEMMA FitCall ==
    ASSUME NEW y \in Frame, y.pc \in CallPc, y.put = None, Ready(y.pc, y),
           y.then \in Moved \/ y.pc \in Moved => y.pc = y.then
    PROVE  Fit(y)
BY DEF Fit, CallPc, IpPc, DpPc, Pc, PutPc

\* The same in iput: what the call needs behind it is there.
LEMMA FitPut ==
    ASSUME NEW y \in Frame, y.pc \in PutPc, y.put \in Slot, Ready(y.then, y)
    PROVE  Fit(y)
BY DEF Fit, CallPc, IpPc, DpPc, Pc, PutPc

\* A process in user space has and locks no inode.
LEMMA IdleFits == Idle \in Frame /\ Fit(Idle) /\ \A s \in Slot : ~Holds(Idle, s)
<1>1. Idle \in Frame
  <2> DEFINE e2 == [abs |-> TRUE, e |-> <<>>]
  <2>1. <<>> \in Seq(STRING) OBVIOUS
  <2>2. e2 \in PathRec BY <2>1 DEF PathRec
  <2>3. None \in SlotOr /\ 0 \in Nat /\ "user" \in Pc /\ "" \in Call /\ "" \in CallPc \cup {""}
    BY DEF SlotOr, Pc, Call
  <2>4. Idle = [pc |-> "user", call |-> "", abs |-> TRUE, e |-> <<>>, par |-> FALSE, ip |-> None,
                dp |-> None, put |-> None, then |-> "", e2 |-> e2, n |-> 0]
    BY DEF Idle
  <2> HIDE DEF e2
  <2>5. QED BY ONLY <2>1, <2>2, <2>3, <2>4 DEF Frame
<1>2. Fit(Idle) BY <1>1 DEF Fit, Idle, CallPc, IpPc, DpPc, Pc, PutPc
<1>3. \A s \in Slot : ~Holds(Idle, s) BY DEF Holds, Idle, PutPc
<1>4. QED BY <1>1, <1>2, <1>3

\* A slot is not None.
LEMMA SlotsDiffer == None \notin Slot /\ None \notin Proc /\ \A s \in Slot : s \in SlotOr /\ s # None
BY FsTreeAssumption DEF None, Slot, SlotOr

\* The end of a call leaves nothing behind.
LEMMA EndIdle ==
    ASSUME NEW x, Fit(x), x.pc = "end", NEW c, NEW o, NEW s \in Slot
    PROVE  Held(Idle, c, o, s) = Held(x, c, o, s) /\ ~Holds(x, s)
<1>1. x.put = None /\ Ready("end", x) /\ x.then \notin Moved
  BY DEF Fit, CallPc, Moved
<1>2. x.dp = None /\ (x.ip = None \/ x.call \in RW)
  BY <1>1 DEF Ready, DpPc, IpPc
<1>3. Bit(x.ip = s /\ x.call \notin RW) = 0 /\ Bit(x.dp = s) = 0 /\ Bit(x.put = s /\ x.pc # "drain") = 0
  BY <1>1, <1>2, SlotsDiffer DEF Bit
<1>4. Bit(Idle.ip = s /\ Idle.call \notin RW) = 0 /\ Bit(Idle.dp = s) = 0
      /\ Bit(Idle.put = s /\ Idle.pc # "drain") = 0
  BY SlotsDiffer DEF Bit, Idle
<1>5. Bit(c = s /\ x.then \notin Moved) = Bit(c = s /\ Idle.then \notin Moved)
  BY <1>1 DEF Idle, Moved
<1>6. Held(Idle, c, o, s) = Held(x, c, o, s) BY <1>3, <1>4, <1>5 DEF Held
<1>7. ~Holds(x, s) BY DEF Holds, PutPc
<1>8. QED BY <1>6, <1>7

-----------------------------------------------------------------------------
(* A step of one process. *)

After(p, y) == t' = [t EXCEPT ![p] = IF y.pc = "end" THEN Idle ELSE y]

\* The locks that a step leaves to p, whose frame becomes y.
LocksKept(p, y) ==
    \A s \in Slot : \/ ic'[s].lock = None
                    \/ ic'[s].lock = p /\ Holds(y, s)
                    \/ ic'[s].lock = ic[s].lock /\ ic[s].lock # p
\* The references follow what p has.
RefsKept(p, y) ==
    \A s \in Slot : ic'[s].ref = ic[s].ref - Mine(p, s) + Held(y, cwd'[p], of'[p].ip, s)

All == Shape /\ LockInv /\ Exact /\ OneIn(ic)

FileType == [Proc -> [ip : SlotOr, wr : BOOLEAN, off : Nat]]
Kept(p, y) ==
    /\ GoodCache(ic') /\ OneIn(ic') /\ leak' = leak
    /\ Fit(y) /\ After(p, y)
    /\ cwd' \in [Proc -> SlotOr] /\ (cwd'[p] # None \/ y.pc = "dead") 
    /\ of' \in FileType
    /\ \A q \in Proc : q # p => cwd'[q] = cwd[q] /\ of'[q].ip = of[q].ip
    /\ RefsKept(p, y) /\ LocksKept(p, y)

\* A step that keeps the references and the locks keeps the invariant.
LEMMA KeptAll == ASSUME All, NEW p \in Proc, NEW y, Kept(p, y) PROVE All'
<1> DEFINE z == IF y.pc = "end" THEN Idle ELSE y
<1>1. /\ Fit(z) /\ z \in Frame
      /\ \A s \in Slot : Held(z, cwd'[p], of'[p].ip, s) = Held(y, cwd'[p], of'[p].ip, s)
      /\ \A s \in Slot : Holds(y, s) => Holds(z, s)
      /\ z.pc = "dead" <=> y.pc = "dead"
  <2>1. Fit(y) BY DEF Kept
  <2>2. CASE y.pc = "end"
    <3>1. z = Idle BY <2>2
    <3>2. Idle.pc # "dead" BY DEF Idle
    <3>3. QED BY <2>1, <2>2, <3>1, <3>2, EndIdle, IdleFits
  <2>3. CASE y.pc # "end"
    <3>1. z = y BY <2>3
    <3>2. y \in Frame BY <2>1 DEF Fit
    <3>3. QED BY <2>1, <3>1, <3>2
  <2>4. QED BY <2>2, <2>3
<1>2. t' = [t EXCEPT ![p] = z] BY DEF Kept, After
<1> HIDE DEF z
<1>3. t \in [Proc -> Frame] BY DEF All, Shape
<1>4. t' \in [Proc -> Frame] /\ t'[p] = z /\ \A q \in Proc : q # p => t'[q] = t[q]
  BY <1>1, <1>2, <1>3
<1>5. Shape'
  <2>1. \A q \in Proc : Fit(t'[q]) BY <1>1, <1>4 DEF All, Shape
  <2>2. \A q \in Proc : cwd'[q] # None \/ t'[q].pc = "dead" BY <1>1, <1>4 DEF All, Shape, Kept
  <2>3. QED BY <1>4, <2>1, <2>2 DEF All, Shape, Kept, FileType
<1>6. LockInv'
  <2> SUFFICES ASSUME NEW s \in Slot
               PROVE  ic'[s].lock = None \/ (ic'[s].lock \in Proc /\ Holds(t'[ic'[s].lock], s))
    BY DEF LockInv
  <2>1. CASE ic'[s].lock = None BY <2>1
  <2>2. CASE ic'[s].lock = p /\ Holds(y, s) BY <1>1, <1>4, <2>2
  <2>3. CASE ic'[s].lock = ic[s].lock /\ ic[s].lock # p
    <3>1. ic[s].lock = None \/ (ic[s].lock \in Proc /\ Holds(t[ic[s].lock], s)) BY DEF All, LockInv
    <3>2. QED BY <1>4, <2>3, <3>1
  <2>4. QED BY <2>1, <2>2, <2>3 DEF Kept, LocksKept
<1>7. Exact'
  <2>1. \A s \in Slot : ic'[s].ref = InitRefs(s) + leak'[s] + Refs(s)'
    <3> TAKE s \in Slot
    <3>1. AloneAt(p, s) BY <1>4 DEF AloneAt, Kept
    <3>2. Refs(s) \in Nat /\ Refs(s)' \in Nat /\ Refs(s)' = Refs(s) - Mine(p, s) + Mine(p, s)'
      BY <3>1, RefsStep
    <3>3. ic[s].ref = InitRefs(s) + leak[s] + Refs(s) BY DEF All, Exact
    <3>4. Mine(p, s)' = Held(y, cwd'[p], of'[p].ip, s) BY <1>1, <1>4 DEF Mine
    <3>5. ic'[s].ref = ic[s].ref - Mine(p, s) + Mine(p, s)' /\ leak' = leak
      BY <3>4 DEF Kept, RefsKept
    <3>6. Mine(p, s) \in Nat BY RefsAtLeast
    <3>7. Mine(p, s)' \in Nat BY <3>4 DEF Held, Bit
    <3>8. leak[s] \in Nat /\ InitRefs(s) \in Nat BY DEF All, Shape, InitRefs
    <3>9. QED BY <3>2, <3>3, <3>5, <3>6, <3>7, <3>8
  <2>2. QED BY <2>1 DEF Exact
<1>8. OneIn(ic)' BY DEF Kept, OneIn
<1>9. QED BY <1>5, <1>6, <1>7, <1>8 DEF All

-----------------------------------------------------------------------------
(* What a step starts from. *)

\* The parts of the invariant for one process and each entry.
LEMMA Facts ==
    ASSUME All, NEW p \in Proc
    PROVE  /\ t[p] \in Frame /\ Fit(t[p]) /\ GoodCache(ic) /\ OneIn(ic)
           /\ \A s \in Slot : ic[s].ref \in Nat /\ ic[s].ref >= Mine(p, s) /\ Mine(p, s) \in Nat
           /\ cwd \in [Proc -> SlotOr] /\ cwd[p] \in SlotOr
           /\ of \in FileType /\ of[p].ip \in SlotOr
           /\ t[p].pc # "dead" => cwd[p] \in Slot
<1>1. ASSUME NEW s \in Slot
      PROVE  ic[s].ref \in Nat /\ ic[s].ref >= Mine(p, s) /\ Mine(p, s) \in Nat
  <2>1. ic[s].ref = InitRefs(s) + leak[s] + Refs(s) BY DEF All, Exact
  <2>2. InitRefs(s) \in Nat /\ leak[s] \in Nat BY DEF InitRefs, All, Shape
  <2>3. Refs(s) \in Nat /\ Mine(p, s) \in Nat /\ Refs(s) >= Mine(p, s) BY RefsAtLeast
  <2>4. QED BY <2>1, <2>2, <2>3
<1>2. t[p] \in Frame /\ Fit(t[p]) /\ GoodCache(ic) /\ OneIn(ic) BY DEF All, Shape
<1>3. cwd \in [Proc -> SlotOr] /\ of \in FileType BY DEF All, Shape, FileType
<1>4. cwd[p] \in SlotOr /\ of[p].ip \in SlotOr BY <1>3 DEF FileType
<1>5. t[p].pc # "dead" => cwd[p] \in Slot BY <1>4 DEF All, Shape, SlotOr
<1>6. QED BY <1>1, <1>2, <1>3, <1>4, <1>5

\* One more reference to k, or none if k is not an entry.
Sum(c, c2, k) ==
    /\ GoodCache(c2) /\ (OneIn(c) => OneIn(c2))
    /\ \A x \in Slot : c2[x].ref = c[x].ref + Bit(x = k)
CacheRefs(c) == \A x \in Slot : c[x].ref \in Nat

\* ilock and iunlock add no reference.
LEMMA SumTurned ==
    ASSUME NEW c, NEW c2, NEW s, NEW l, CacheRefs(c), Turned(c, c2, s, l)
    PROVE  Sum(c, c2, None) /\ CacheRefs(c2)
<1>1. GoodCache(c2) /\ (OneIn(c) => OneIn(c2)) BY DEF Turned, OneIn
<1>2. \A x \in Slot : c2[x].ref = c[x].ref + Bit(x = None) /\ c2[x].ref \in Nat
  BY SlotsDiffer DEF CacheRefs, Turned, Bit
<1>3. QED BY <1>1, <1>2 DEF Sum, CacheRefs

\* iget and idup add one.
LEMMA SumAdded ==
    ASSUME NEW c, NEW c2, NEW k, CacheRefs(c), Added(c, c2, k)
    PROVE  Sum(c, c2, k) /\ CacheRefs(c2)
BY DEF Sum, Added, Bit, CacheRefs

\* A step that leaves the cache alone adds none.
LEMMA SumSame == ASSUME CacheRefs(ic), GoodCache(ic), ic' = ic PROVE Sum(ic, ic', None)
<1>1. \A x \in Slot : ic[x].ref = ic[x].ref + Bit(x = None) BY SlotsDiffer DEF CacheRefs, Bit
<1>2. QED BY <1>1 DEF Sum

\* Two changes in a row, of which one adds nothing.
LEMMA SumTwo ==
    ASSUME NEW c, NEW c2, NEW c3, NEW j, NEW k, CacheRefs(c), Sum(c, c2, j), Sum(c2, c3, k),
           j = None \/ k = None
    PROVE  Sum(c, c3, IF j = None THEN k ELSE j)
<1>1. GoodCache(c3) /\ (OneIn(c) => OneIn(c3)) BY DEF Sum
<1>2. \A x \in Slot : c3[x].ref = c[x].ref + Bit(x = IF j = None THEN k ELSE j)
  BY SlotsDiffer DEF Sum, Bit, CacheRefs
<1>3. QED BY <1>1, <1>2 DEF Sum

\* A step that takes one more reference, to k, or none.
LEMMA KeptStep ==
    ASSUME All, NEW p \in Proc, NEW y, NEW k, Sum(ic, ic', k), Fit(y), After(p, y), leak' = leak,
           cwd' \in [Proc -> SlotOr], cwd'[p] # None \/ y.pc = "dead", of' \in FileType,
           \A q \in Proc : q # p => cwd'[q] = cwd[q] /\ of'[q].ip = of[q].ip,
           \A s \in Slot : Held(y, cwd'[p], of'[p].ip, s) = Mine(p, s) + Bit(s = k),
           \A s \in Slot : \/ ic'[s].lock = None
                           \/ ic'[s].lock = p /\ Holds(y, s)
                           \/ ic'[s].lock = ic[s].lock /\ (Holds(t[p], s) => Holds(y, s))
    PROVE  All'
<1>1. RefsKept(p, y)
  <2> SUFFICES ASSUME NEW s \in Slot
               PROVE ic'[s].ref = ic[s].ref - Mine(p, s) + Held(y, cwd'[p], of'[p].ip, s)
    BY DEF RefsKept
  <2>1. ic[s].ref \in Nat /\ Mine(p, s) \in Nat BY Facts
  <2>2. ic'[s].ref = ic[s].ref + Bit(s = k) BY DEF Sum
  <2>3. Bit(s = k) \in Nat BY DEF Bit
  <2>4. QED BY <2>1, <2>2, <2>3
<1>2. LocksKept(p, y)
  <2> SUFFICES ASSUME NEW s \in Slot
               PROVE \/ ic'[s].lock = None
                     \/ ic'[s].lock = p /\ Holds(y, s)
                     \/ ic'[s].lock = ic[s].lock /\ ic[s].lock # p
    BY DEF LocksKept
  <2>1. ic[s].lock = None \/ (ic[s].lock \in Proc /\ Holds(t[ic[s].lock], s)) BY DEF All, LockInv
  <2>2. QED BY <2>1
<1>3. GoodCache(ic') /\ OneIn(ic') BY DEF Sum, All
<1>4. Kept(p, y) BY <1>1, <1>2, <1>3 DEF Kept
<1>5. QED BY <1>4, KeptAll

\* The same for a step that changes neither current directory nor file.
LEMMA KeptPlain ==
    ASSUME All, NEW p \in Proc, NEW y, NEW k, Sum(ic, ic', k), Fit(y), After(p, y), leak' = leak,
           t[p].pc # "dead", cwd' = cwd, of' = of,
           \A s \in Slot : Held(y, cwd[p], of[p].ip, s) = Mine(p, s) + Bit(s = k),
           \A s \in Slot : \/ ic'[s].lock = None
                           \/ ic'[s].lock = p /\ Holds(y, s)
                           \/ ic'[s].lock = ic[s].lock /\ (Holds(t[p], s) => Holds(y, s))
    PROVE  All'
<1>1. cwd' \in [Proc -> SlotOr] /\ of' \in FileType /\ cwd'[p] # None BY Facts, SlotsDiffer
<1>2. \A q \in Proc : q # p => cwd'[q] = cwd[q] /\ of'[q].ip = of[q].ip OBVIOUS
<1>3. \A s \in Slot : Held(y, cwd'[p], of'[p].ip, s) = Mine(p, s) + Bit(s = k) OBVIOUS
<1>4. QED BY <1>1, <1>2, <1>3, KeptStep

-----------------------------------------------------------------------------
(* The starts of calls. *)

\* The frame of a call that starts has nothing, or the file that close took.
LEMMA BegunFits ==
    ASSUME NEW y \in Frame, y.pc = "begun", y.put = None, y.dp = None, y.then \notin Moved,
           IF y.call = "close" THEN y.ip \in Slot ELSE y.ip = None, y.par <=> y.call \in Parents
    PROVE  Fit(y) /\ \A s \in Slot : ~Holds(y, s)
<1>1. Fit(y) BY DEF Fit, CallPc, IpPc, DpPc, PutPc
<1>2. \A s \in Slot : ~Holds(y, s) BY DEF Holds, PutPc
<1>3. QED BY <1>1, <1>2

\* What the start of a system call leaves as it was.
LEMMA BeginFacts ==
    ASSUME All, NEW p \in Proc, NEW x, NEW op, Begin(p, x, op), x.pc = "user"
    PROVE  /\ t[p].pc = "user" /\ t[p] = Idle /\ After(p, [x EXCEPT !.pc = "begun"]) /\ ic' = ic /\ leak' = leak
           /\ cwd' = cwd /\ ~halted' /\ cwd[p] \in Slot
           /\ Sum(ic, ic', None) /\ \A s \in Slot : ~Holds(t[p], s)
<1>1. t[p].pc = "user" BY DEF Begin, At
<1>2. t[p] = Idle BY <1>1, Facts DEF Fit
<1>3. /\ t' = [t EXCEPT ![p] = [x EXCEPT !.pc = "begun"]] /\ ic' = ic /\ leak' = leak /\ cwd' = cwd
      /\ ~halted'
  BY DEF Begin, history, At
<1>4. [x EXCEPT !.pc = "begun"].pc # "end" OBVIOUS
<1>5. Sum(ic, ic', None) BY <1>3, Facts, SumSame DEF CacheRefs
<1>6. QED BY <1>1, <1>2, <1>3, <1>4, <1>5, Facts, IdleFits DEF After

\* The start of a call with a path: it has no inode yet.
LEMMA StartPathAll == ASSUME All, NEW p \in Proc, NEW c \in PathCalls, StartPath(p, c) PROVE All'
<1> DEFINE x == [Idle EXCEPT !.call = c.call, !.abs = c.a.abs, !.e = c.a.e, !.e2 = c.b,
                             !.par = c.call \in {"create", "mkdir", "mknod", "unlink"}]
           y == [x EXCEPT !.pc = "begun"]
<1>1. /\ c.call \in {"openr", "openrw", "create", "mkdir", "mknod", "chdir", "link", "unlink"}
      /\ c.a \in PathRec /\ c.b \in PathRec
  BY PathCallsAssumption DEF PathRec
<1>2. /\ y \in Frame /\ y.pc = "begun" /\ y.call = c.call /\ y.ip = None /\ y.dp = None
      /\ y.put = None /\ y.then = "" /\ (y.par <=> c.call \in Parents) /\ x.pc = "user"
  <2> DEFINE par == c.call \in {"create", "mkdir", "mknod", "unlink"}
             a1 == [Idle EXCEPT !.call = c.call]
             a2 == [a1 EXCEPT !.abs = c.a.abs]
             a3 == [a2 EXCEPT !.e = c.a.e]
             a4 == [a3 EXCEPT !.e2 = c.b]
             a5 == [a4 EXCEPT !.par = par]
             Has(z, l) == /\ z \in Frame /\ z.pc = l /\ z.ip = None /\ z.dp = None
                          /\ z.put = None /\ z.then = ""
  <2>1. c.a.abs \in BOOLEAN /\ c.a.e \in Seq(STRING) /\ c.call \in Call /\ par \in BOOLEAN
    <3>1. par \in BOOLEAN OBVIOUS
    <3>2. c.a.abs \in BOOLEAN /\ c.a.e \in Seq(STRING) BY <1>1 DEF PathRec
    <3>3. c.call \in Call BY <1>1 DEF Call, Parents
    <3>4. QED BY <3>1, <3>2, <3>3
  <2>2. Has(Idle, "user") BY IdleFits DEF Idle
  <2>3. Has(a1, "user") /\ a1.call = c.call BY <2>1, <2>2 DEF Frame
  <2> HIDE DEF a1
  <2>4. Has(a2, "user") /\ a2.call = c.call BY <2>1, <2>3 DEF Frame
  <2> HIDE DEF a2
  <2>5. Has(a3, "user") /\ a3.call = c.call BY <2>1, <2>4 DEF Frame
  <2> HIDE DEF a3
  <2>6. Has(a4, "user") /\ a4.call = c.call BY <1>1, <2>5 DEF Frame
  <2> HIDE DEF a4, par
  <2>7. Has(a5, "user") /\ a5.call = c.call /\ a5.par = par BY <2>1, <2>6 DEF Frame
  <2>8. x = a5 BY DEF a1, a2, a3, a4, par
  <2> HIDE DEF a5, x
  <2>9. "begun" \in Pc BY DEF Pc
  <2>10. Has(y, "begun") /\ y.call = c.call /\ y.par = par BY <2>7, <2>8, <2>9 DEF Frame
  <2>11. par <=> c.call \in Parents BY DEF par, Parents
  <2> HIDE DEF y
  <2>12. QED BY <2>7, <2>8, <2>10, <2>11
<1>3. Begin(p, x, 1) /\ of' = of BY DEF StartPath
<1> HIDE DEF x
<1>4. /\ t[p] = Idle /\ After(p, y) /\ ic' = ic /\ leak' = leak /\ cwd' = cwd
      /\ Sum(ic, ic', None) /\ \A s \in Slot : ~Holds(t[p], s)
  BY <1>2, <1>3, BeginFacts
<1> HIDE DEF y
<1>5. Fit(y) BY <1>1, <1>2, BegunFits DEF Moved
<1>6. \A s \in Slot : Held(y, cwd[p], of[p].ip, s) = Mine(p, s) + Bit(s = None)
  <2> TAKE s \in Slot
  <2>1. s # None BY SlotsDiffer
  <2>2. Held(y, cwd[p], of[p].ip, s) = Held(Idle, cwd[p], of[p].ip, s)
    BY <1>2, <2>1 DEF Held, Idle, Bit, Moved
  <2>3. Bit(s = None) = 0 /\ Mine(p, s) = Held(Idle, cwd[p], of[p].ip, s) BY <1>4, <2>1 DEF Mine, Bit
  <2>4. Mine(p, s) \in Nat BY Facts
  <2>5. QED BY <2>2, <2>3, <2>4
<1>7. t[p].pc # "dead" BY <1>2, <1>3, BeginFacts
<1>8. QED BY <1>3, <1>4, <1>5, <1>6, <1>7, KeptPlain

\* A call that has nothing, or what close and exit have, enters its section.
LEMMA StartAll ==
    ASSUME All, NEW p \in Proc, NEW x \in Frame, NEW op, Begin(p, x, op), x.pc = "user",
           x.dp = None, x.put = None, x.then \notin Moved, ~x.par, x.call \notin Parents,
           of' \in FileType, \A q \in Proc : q # p => of'[q].ip = of[q].ip,
           \/ x.call # "close" /\ x.ip = None /\ of'[p].ip = of[p].ip
           \/ x.call = "close" /\ x.ip \in Slot /\ of'[p].ip = None /\ of[p].ip = x.ip
    PROVE  All'
<1> DEFINE y == [x EXCEPT !.pc = "begun"]
<1>1. /\ y \in Frame /\ y.pc = "begun" /\ y.call = x.call /\ y.ip = x.ip /\ y.dp = None
      /\ y.put = None /\ y.then = x.then /\ y.par = x.par
  <2>1. "begun" \in Pc BY DEF Pc
  <2>2. QED BY <2>1 DEF Frame
<1>2. /\ t[p] = Idle /\ After(p, y) /\ ic' = ic /\ leak' = leak /\ cwd' = cwd
      /\ Sum(ic, ic', None) /\ (\A s \in Slot : ~Holds(t[p], s)) /\ cwd[p] \in Slot
  BY BeginFacts
<1> HIDE DEF y
<1>3. Fit(y) BY <1>1, BegunFits
<1>4. \A s \in Slot : Held(y, cwd[p], of'[p].ip, s) = Mine(p, s) + Bit(s = None)
  <2> TAKE s \in Slot
  <2>1. s # None BY SlotsDiffer
  <2>2. Mine(p, s) = Bit(cwd[p] = s) + Bit(of[p].ip = s)
    <3>1. t[p].ip = None /\ t[p].dp = None /\ t[p].put = None /\ t[p].then \notin Moved
      <4>1. Idle.ip = None /\ Idle.dp = None /\ Idle.put = None /\ Idle.then \notin Moved
        BY DEF Idle, Moved
      <4>2. QED BY ONLY <4>1, <1>2
    <3>2. QED BY <2>1, <3>1 DEF Mine, Held, Bit
  <2>3. Held(y, cwd[p], of'[p].ip, s)
          = Bit(x.ip = s /\ x.call \notin RW) + Bit(cwd[p] = s) + Bit(of'[p].ip = s)
    BY <1>1, <2>1 DEF Held, Bit
  <2>4. Bit(x.ip = s /\ x.call \notin RW) + Bit(of'[p].ip = s) = Bit(of[p].ip = s)
    BY <2>1 DEF Bit, RW
  <2>5. Bit(s = None) = 0 BY <2>1 DEF Bit
  <2>6. \A b : Bit(b) \in Nat BY DEF Bit
  <2>7. QED BY <2>2, <2>3, <2>4, <2>5, <2>6
<1>5. cwd' \in [Proc -> SlotOr] /\ cwd'[p] # None BY <1>2, Facts, SlotsDiffer
<1>6. QED BY <1>2, <1>3, <1>4, <1>5, KeptStep

\* The frame of a call that starts.
LEMMA CallFrame ==
    ASSUME NEW k \in Call
    PROVE  LET x == [Idle EXCEPT !.call = k]
           IN /\ x \in Frame /\ x.pc = "user" /\ x.dp = None /\ x.put = None /\ x.then = ""
              /\ ~x.par /\ x.call = k /\ x.ip = None
<1>1. /\ Idle \in Frame /\ Idle.pc = "user" /\ Idle.dp = None /\ Idle.put = None /\ Idle.then = ""
      /\ ~Idle.par /\ Idle.ip = None
  BY IdleFits DEF Idle
<1> HIDE DEF Idle
<1>2. QED BY <1>1 DEF Frame

\* The start of read: the file keeps its own reference.
LEMMA StartReadAll == ASSUME All, NEW p \in Proc, StartRead(p) PROVE All'
<1> DEFINE x == [Idle EXCEPT !.call = "read"]
<1>1. /\ x \in Frame /\ x.pc = "user" /\ x.dp = None /\ x.put = None /\ x.then = ""
      /\ ~x.par /\ x.call = "read" /\ x.ip = None
  <2>1. "read" \in Call BY DEF Call, RW
  <2>2. QED BY <2>1, CallFrame
<1>2. Begin(p, x, 0) /\ of' = of BY DEF StartRead
<1> HIDE DEF x
<1>3. x.then \notin Moved /\ x.call \notin Parents BY <1>1 DEF Moved, Parents
<1>4. QED BY <1>1, <1>2, <1>3, StartAll, Facts

\* The start of write.
LEMMA StartWriteAll == ASSUME All, NEW p \in Proc, NEW n \in WriteN, StartWrite(p, n) PROVE All'
<1> DEFINE a == [Idle EXCEPT !.call = "write"]
           x == [a EXCEPT !.n = n]
<1>1. /\ a \in Frame /\ a.pc = "user" /\ a.dp = None /\ a.put = None /\ a.then = ""
      /\ ~a.par /\ a.call = "write" /\ a.ip = None
  <2>1. "write" \in Call BY DEF Call, RW
  <2>2. QED BY <2>1, CallFrame
<1>2. Begin(p, x, 1) /\ of' = of BY DEF StartWrite
<1>3. n \in Nat BY FsTreeAssumption
<1> HIDE DEF a
<1>4. /\ x \in Frame /\ x.pc = "user" /\ x.dp = None /\ x.put = None /\ x.then = ""
      /\ ~x.par /\ x.call = "write" /\ x.ip = None
  BY <1>1, <1>3 DEF Frame
<1> HIDE DEF x
<1>5. x.then \notin Moved /\ x.call \notin Parents BY <1>4 DEF Moved, Parents
<1>6. QED BY <1>2, <1>4, <1>5, StartAll, Facts

\* close moves the reference of the file to the call.
LEMMA CloseAll == ASSUME All, NEW p \in Proc, Close(p) PROVE All'
<1> DEFINE a == [Idle EXCEPT !.call = "close"]
           x == [a EXCEPT !.ip = of[p].ip]
<1>1. /\ a \in Frame /\ a.pc = "user" /\ a.dp = None /\ a.put = None /\ a.then = ""
      /\ ~a.par /\ a.call = "close" /\ a.ip = None
  <2>1. "close" \in Call BY DEF Call
  <2>2. QED BY <2>1, CallFrame
<1>2. Begin(p, x, 1) /\ of' = [of EXCEPT ![p] = NoFile] /\ of[p].ip # None BY DEF Close
<1>3. of[p].ip \in Slot /\ of[p].ip \in SlotOr BY <1>2, Facts DEF SlotOr
<1> HIDE DEF a
<1>4. /\ x \in Frame /\ x.pc = "user" /\ x.dp = None /\ x.put = None /\ x.then = ""
      /\ ~x.par /\ x.call = "close" /\ x.ip = of[p].ip
  BY <1>1, <1>3 DEF Frame
<1> HIDE DEF x
<1>5. x.then \notin Moved /\ x.call \notin Parents BY <1>4 DEF Moved, Parents
<1>6. of' \in FileType /\ of'[p].ip = None /\ \A q \in Proc : q # p => of'[q].ip = of[q].ip
  <2>1. NoFile \in [ip : SlotOr, wr : BOOLEAN, off : Nat] /\ NoFile.ip = None BY DEF NoFile, SlotOr
  <2>2. QED BY <1>2, <2>1, Facts DEF FileType
<1>7. QED BY <1>2, <1>3, <1>4, <1>5, <1>6, StartAll

\* exit: the file and the current directory stay its own for now.
LEMMA ExitAll == ASSUME All, NEW p \in Proc, Exit(p) PROVE All'
<1> DEFINE x == [Idle EXCEPT !.call = "exit"]
           y == [x EXCEPT !.then = "exit"]
<1>1. /\ x \in Frame /\ x.pc = "user" /\ x.dp = None /\ x.put = None /\ x.then = ""
      /\ ~x.par /\ x.call = "exit" /\ x.ip = None
  <2>1. "exit" \in Call BY DEF Call
  <2>2. QED BY <2>1, CallFrame
<1>2. of' = of /\ (Begin(p, x, 0) \/ Begin(p, y, 1)) BY DEF Exit
<1> HIDE DEF x
<1>3. /\ y \in Frame /\ y.pc = "user" /\ y.dp = None /\ y.put = None /\ y.then = "exit"
      /\ ~y.par /\ y.call = "exit" /\ y.ip = None
  <2>1. "exit" \in CallPc BY DEF CallPc
  <2>2. QED BY <1>1, <2>1 DEF Frame
<1> HIDE DEF y
<1>4. x.then \notin Moved /\ x.call \notin Parents /\ y.then \notin Moved /\ y.call \notin Parents
  BY <1>1, <1>3 DEF Moved, Parents
<1>5. CASE Begin(p, x, 0) BY <1>1, <1>2, <1>4, <1>5, StartAll, Facts
<1>6. CASE Begin(p, y, 1) BY <1>2, <1>3, <1>4, <1>6, StartAll, Facts
<1>7. QED BY <1>2, <1>5, <1>6

-----------------------------------------------------------------------------
(* Entering the section of the cache. *)

\* The calls that look for the parent of the last name.
PathCall(x) ==
    /\ x.call \in Parents => x.par
    /\ x.call = "chdir" => ~x.par
    /\ x.par => x.call \in Parents \cup {"link"}
\* What a frame that looks up a path has.
PathFrame(x) ==
    /\ x \in Frame /\ x.put = None /\ x.dp = None /\ x.then \notin Moved /\ x.call \notin RW
    /\ PathCall(x)
    /\ IF Linking(x) THEN x.ip \in Slot ELSE x.ip = None

\* A frame that has got one more entry, without a lock.
Took(p, x, c, y, c2, k) ==
    /\ k \in Slot /\ Sum(c, c2, k) /\ \A s \in Slot : c2[s].lock = c[s].lock
    /\ Fit(y) /\ y.pc # "end"
    /\ \A o, w : \A s \in Slot : Held(y, o, w, s) = Held(x, o, w, s) + Bit(s = k)

\* Where namex goes when it is done or fails.
LEMMA NamexPlaces ==
    ASSUME NEW x, PathCall(x)
    PROVE  /\ AfterNamex(x) \in CallPc /\ NamexFails(x) \in CallPc
           /\ x.par => AfterNamex(x) \in {"create", "unlink", "linkdir"}
           /\ ~x.par => AfterNamex(x) \in {"open", "chdir", "link"}
           /\ AfterNamex(x) = "linkdir" => x.call = "link"
           /\ AfterNamex(x) \in {"create", "unlink"} => x.call \in Parents
           /\ AfterNamex(x) = "chdir" <=> (~x.par /\ x.call = "chdir")
           /\ AfterNamex(x) = "link" <=> (~x.par /\ x.call = "link")
           /\ NamexFails(x) = IF Linking(x) THEN "linkbad" ELSE "end"
<1>1. NamexFails(x) = IF Linking(x) THEN "linkbad" ELSE "end" BY DEF NamexFails, Linking
<1>2. NamexFails(x) \in CallPc BY <1>1 DEF CallPc, IpPc
<1>3. CASE x.par
  <2>1. x.call \in {"create", "mkdir", "mknod", "unlink", "link"} BY <1>3 DEF PathCall, Parents
  <2>2. AfterNamex(x) = IF x.call \in {"create", "mkdir", "mknod"} THEN "create"
                        ELSE IF x.call = "unlink" THEN "unlink" ELSE "linkdir"
    BY <1>3, <2>1 DEF AfterNamex
  <2>3. QED BY <1>1, <1>2, <1>3, <2>1, <2>2 DEF CallPc, IpPc, DpPc, Parents
<1>4. CASE ~x.par
  <2>1. AfterNamex(x) = IF x.call = "chdir" THEN "chdir" ELSE IF x.call = "link" THEN "link"
                        ELSE "open"
    BY <1>4 DEF AfterNamex
  <2>2. QED BY <1>1, <1>2, <1>4, <2>1 DEF CallPc, IpPc, DpPc, Parents
<1>5. QED BY <1>3, <1>4

\* The entry that namex starts from.
LEMMA NamexStart ==
    ASSUME NEW p \in Proc, NEW x, NEW c, GoodCache(c), CacheRefs(c),
           cwd[p] \in Slot, c[cwd[p]].ref > 0,
           NEW g, g = IF x.abs THEN Iget(c, ROOTINO) ELSE [got |-> cwd[p], c |-> Idup(c, cwd[p])],
           g.got # None
    PROVE  Added(c, g.c, g.got)
<1>1. CASE x.abs BY <1>1, IgetAdds DEF CacheRefs
<1>2. CASE ~x.abs
  <2>1. g.got = cwd[p] /\ g.c = Idup(c, cwd[p]) BY <1>2
  <2>2. QED BY <2>1, IdupAdds DEF CacheRefs
<1>3. QED BY <1>1, <1>2

\* namex takes one reference, to the root or to the current directory.
LEMMA NamexTakes ==
    ASSUME NEW p \in Proc, NEW x, PathFrame(x), x.pc # "drain", NEW c, GoodCache(c), CacheRefs(c),
           cwd[p] \in Slot, c[cwd[p]].ref > 0, Namex(p, x, c).ok
    PROVE  \E k : Took(p, x, c, Namex(p, x, c).x, Namex(p, x, c).c, k)
<1> DEFINE g == IF x.abs THEN Iget(c, ROOTINO) ELSE [got |-> cwd[p], c |-> Idup(c, cwd[p])]
           y == IF x.e # <<>> THEN [x EXCEPT !.pc = "walk", !.dp = g.got]
                ELSE IF x.par THEN PutThen(x, g.got, NamexFails(x)) ELSE Arrived(x, g.got)
<1>1. g.got # None /\ Namex(p, x, c).x = y /\ Namex(p, x, c).c = g.c BY DEF Namex
<1>2. Added(c, g.c, g.got) BY <1>1, NamexStart
<1>3. PICK k : k = g.got OBVIOUS
<1>4. /\ k \in Slot /\ k \in SlotOr /\ Sum(c, g.c, k)
      /\ \A s \in Slot : g.c[s].lock = c[s].lock
  BY <1>2, <1>3, SumAdded, SlotsDiffer DEF Added
<1>5. x \in Frame /\ PathCall(x) BY DEF PathFrame
<1>6. CASE x.e # <<>>
  <2> DEFINE a == [x EXCEPT !.pc = "walk"]
             b == [a EXCEPT !.dp = k]
  <2>1. y = b BY <1>3, <1>6
  <2>2. Moves(x, a, "walk", x.ip, x.dp, x.put, x.then)
    <3>1. "walk" \in Pc BY DEF Pc, CallPc, DpPc
    <3>2. QED BY <1>5, <3>1, GotoMoves DEF Goto
  <2> HIDE DEF a
  <2>3. Moves(x, b, "walk", x.ip, k, x.put, x.then) BY <1>4, <2>2 DEF Moves, Frame
  <2> HIDE DEF b, y
  <2>4. Ready("walk", b)
    BY <1>4, <1>6, <2>3 DEF Moves, Ready, PathFrame, PathCall, Linking, CallPc, IpPc, DpPc, RW, Parents
  <2>5. Fit(b)
    <3>1. "walk" \in CallPc BY DEF CallPc, DpPc
    <3>2. QED BY <2>3, <2>4, <3>1, FitCall DEF Moves, PathFrame, PathCall, Moved
  <2>6. ASSUME NEW o, NEW w, NEW s \in Slot PROVE Held(b, o, w, s) = Held(x, o, w, s) + Bit(s = k)
    BY <2>3, SlotsDiffer DEF Held, Bit, Moves, PathFrame, PathCall
  <2>7. b.pc # "end" BY <2>3 DEF Moves
  <2>8. QED BY <1>1, <1>4, <2>1, <2>5, <2>6, <2>7 DEF Took
<1>7. CASE x.e = <<>> /\ x.par
  <2>1. y = PutThen(x, k, NamexFails(x)) BY <1>3, <1>7
  <2> HIDE DEF y
  <2>2. Moves(x, y, "iput", x.ip, x.dp, k, NamexFails(x))
    BY <1>4, <1>5, <2>1, PutThenMoves, NamexPlaces
  <2>3. Ready(NamexFails(x), y)
    BY <2>2, <1>7, NamexPlaces
       DEF Moves, Ready, PathFrame, PathCall, Linking, CallPc, IpPc, DpPc, RW, Parents
  <2>4. Fit(y) BY <1>4, <2>2, <2>3, FitPut DEF Moves, PutPc
  <2>5. ASSUME NEW o, NEW w, NEW s \in Slot PROVE Held(y, o, w, s) = Held(x, o, w, s) + Bit(s = k)
    <3>1. y.then \notin Moved BY <1>5, <2>2, NamexPlaces DEF Moves, Moved
    <3>2. QED BY <2>2, <3>1, SlotsDiffer DEF Held, Bit, Moves, PathFrame, PathCall
  <2>6. y.pc # "end" BY <2>2 DEF Moves
  <2>7. QED BY <1>1, <1>4, <2>4, <2>5, <2>6 DEF Took
<1>8. CASE x.e = <<>> /\ ~x.par
  <2> DEFINE l == AfterNamex(x)
             a == [x EXCEPT !.pc = l]
             b == [a EXCEPT !.ip = k]
  <2>1. y = b BY <1>3, <1>8 DEF Arrived
  <2>2. l \in {"open", "chdir", "link"} /\ (l = "chdir" <=> x.call = "chdir")
        /\ (l = "link" <=> x.call = "link")
    BY <1>5, <1>8, NamexPlaces
  <2> HIDE DEF l
  <2>3. l \in CallPc /\ l \in Pc BY <2>2 DEF Pc, CallPc, IpPc
  <2>4. Moves(x, a, l, x.ip, x.dp, x.put, x.then) BY <1>5, <2>3, GotoMoves DEF Goto
  <2> HIDE DEF a
  <2>5. Moves(x, b, l, k, x.dp, x.put, x.then) BY <1>4, <2>4 DEF Moves, Frame
  <2> HIDE DEF b, y
  <2>6. Ready(l, b)
    BY <1>4, <1>8, <2>2, <2>3, <2>5 DEF Moves, Ready, PathFrame, PathCall, Linking, IpPc, DpPc, RW, Parents
  <2>7. Fit(b) BY <2>2, <2>3, <2>5, <2>6, FitCall DEF Moves, PathFrame, PathCall, Moved
  <2>8. ASSUME NEW o, NEW w, NEW s \in Slot PROVE Held(b, o, w, s) = Held(x, o, w, s) + Bit(s = k)
    <3>1. x.ip = None BY <1>8 DEF PathFrame, PathCall, Linking
    <3>2. b.pc # "drain" BY <2>2, <2>5 DEF Moves
    <3>3. QED BY <2>5, <3>1, <3>2, SlotsDiffer DEF Held, Bit, Moves, PathFrame, PathCall
  <2>9. b.pc # "end" BY <2>2, <2>5 DEF Moves
  <2>10. QED BY <1>1, <1>4, <2>1, <2>7, <2>8, <2>9 DEF Took
<1>9. QED BY <1>6, <1>7, <1>8

-----------------------------------------------------------------------------
(* Moves of a call. *)

\* The frame y has what x has, and one more reference, to k.
Gets(x, y, k) ==
    Fit(y) /\ \A o, w : \A s \in Slot : Held(y, o, w, s) = Held(x, o, w, s) + Bit(s = k)
\* The same with what p has.
Even(p, y, k) ==
    Fit(y) /\ \A s \in Slot : Held(y, cwd[p], of[p].ip, s) = Mine(p, s) + Bit(s = k)

\* Gets, for the frame of a process.
LEMMA GetsEven == ASSUME NEW p, NEW y, NEW k, Gets(t[p], y, k) PROVE Even(p, y, k)
BY DEF Gets, Even, Mine

\* A reference that a call has goes to iput.
LEMMA PutIpGets ==
    ASSUME NEW x \in Frame, x.put = None, x.ip \in Slot, x.then \notin Moved, x.pc # "drain",
           x.call \notin RW, NEW l \in CallPc, l \notin Moved, Ready(l, PutIp(x, l))
    PROVE  /\ Gets(x, PutIp(x, l), None)
           /\ Moves(x, PutIp(x, l), "iput", None, x.dp, x.ip, l)
<1> DEFINE y == PutIp(x, l)
<1>1. Moves(x, y, "iput", None, x.dp, x.ip, l) BY PutIpMoves
<1> HIDE DEF y
<1>2. Ready(l, y) BY DEF y
<1>3. Fit(y) BY <1>1, <1>2, FitPut DEF Moves, PutPc
<1>4. ASSUME NEW o, NEW w, NEW s \in Slot PROVE Held(y, o, w, s) = Held(x, o, w, s) + Bit(s = None)
  BY <1>1, SlotsDiffer DEF Held, Bit, Moves
<1>5. QED BY <1>1, <1>3, <1>4 DEF Gets, y

\* The same for the inode in dp.
LEMMA PutDpGets ==
    ASSUME NEW x \in Frame, x.put = None, x.dp \in Slot, x.then \notin Moved, x.pc # "drain",
           NEW l \in CallPc, l \notin Moved, Ready(l, PutDp(x, l))
    PROVE  /\ Gets(x, PutDp(x, l), None)
           /\ Moves(x, PutDp(x, l), "iput", x.ip, None, x.dp, l)
<1> DEFINE y == PutDp(x, l)
<1>1. Moves(x, y, "iput", x.ip, None, x.dp, l) BY PutDpMoves
<1> HIDE DEF y
<1>2. Ready(l, y) BY DEF y
<1>3. Fit(y) BY <1>1, <1>2, FitPut DEF Moves, PutPc
<1>4. ASSUME NEW o, NEW w, NEW s \in Slot PROVE Held(y, o, w, s) = Held(x, o, w, s) + Bit(s = None)
  BY <1>1, SlotsDiffer DEF Held, Bit, Moves
<1>5. QED BY <1>1, <1>3, <1>4 DEF Gets, y

\* What a call that is not in iput has.
LEMMA CallFacts ==
    ASSUME All, NEW p \in Proc, t[p].pc \in CallPc, t[p].pc \notin Moved
    PROVE  /\ t[p].put = None /\ t[p].then \notin Moved /\ Ready(t[p].pc, t[p])
           /\ t[p].pc \notin {"drain", "dead"} /\ t[p] \in Frame
           /\ \A s \in Slot : Holds(t[p], s) =>
                 \/ t[p].pc \in {"unlinkip", "unlinkbad", "created"} /\ s = t[p].dp
                 \/ t[p].pc \in {"unlinked", "new"} /\ s = t[p].ip
<1>1. Fit(t[p]) /\ t[p] \in Frame BY Facts
<1>2. t[p].pc \notin PutPc \cup {"drain", "dead"} BY DEF CallPc, IpPc, DpPc, PutPc
<1>3. QED BY <1>1, <1>2 DEF Fit, Holds, Moved, PutPc

\* A call ends, and gives back the one inode that it has.
LEMMA EndIp ==
    ASSUME All, NEW p \in Proc,
           t[p].pc \in {"open", "chdir", "link", "linked", "linkbad", "exists", "unlinked", "new"}
    PROVE  /\ t[p].ip \in Slot /\ t[p].dp = None /\ Even(p, PutIp(t[p], "end"), None)
           /\ t[p].call \notin RW /\ PutIp(t[p], "end").pc = "iput"
           /\ \A s \in Slot : Holds(t[p], s) => s = t[p].ip
<1>1. t[p].pc \in CallPc /\ t[p].pc \notin Moved BY DEF CallPc, IpPc, Moved
<1>2. /\ t[p].put = None /\ t[p].then \notin Moved /\ Ready(t[p].pc, t[p]) /\ t[p].pc # "drain"
      /\ t[p] \in Frame
      /\ \A s \in Slot : Holds(t[p], s) => s = t[p].ip
  BY <1>1, CallFacts
<1>3. t[p].ip \in Slot /\ t[p].dp = None /\ t[p].call \notin RW
  BY <1>2 DEF Ready, IpPc, DpPc, RW
<1>4. Moves(t[p], PutIp(t[p], "end"), "iput", None, t[p].dp, t[p].ip, "end")
  BY <1>2, PutIpMoves DEF CallPc
<1>5. Ready("end", PutIp(t[p], "end"))
  BY <1>2, <1>3, <1>4 DEF Ready, Moves, CallPc, IpPc, DpPc, RW, Linking
<1>6. Gets(t[p], PutIp(t[p], "end"), None)
  BY <1>2, <1>3, <1>5, PutIpGets DEF CallPc, Moved
<1>7. QED BY <1>2, <1>3, <1>4, <1>6, GetsEven DEF Moves

\* A step that leaves the lock of s, and has the same inodes.
LEMMA TurnKeeps ==
    ASSUME All, NEW p \in Proc, NEW y, NEW s \in Slot, Turned(ic, ic', s, None),
           Even(p, y, None), After(p, y), leak' = leak, t[p].pc # "dead", cwd' = cwd,
           of' \in FileType, \A q \in Proc : of'[q].ip = of[q].ip,
           \A x \in Slot : Holds(t[p], x) => Holds(y, x) \/ x = s
    PROVE  All'
<1>1. Sum(ic, ic', None) BY Facts, SumTurned DEF CacheRefs
<1>2. cwd' \in [Proc -> SlotOr] /\ cwd'[p] # None BY Facts, SlotsDiffer
<1>3. \A x \in Slot : Held(y, cwd'[p], of'[p].ip, x) = Mine(p, x) + Bit(x = None) BY DEF Even
<1>4. \A x \in Slot : \/ ic'[x].lock = None
                      \/ ic'[x].lock = ic[x].lock /\ (Holds(t[p], x) => Holds(y, x))
  BY DEF Turned
<1>5. QED BY <1>1, <1>2, <1>3, <1>4, KeptStep DEF Even

\* A step that changes no entry, and has the same inodes.
LEMMA StillKeeps ==
    ASSUME All, NEW p \in Proc, NEW y, ic' = ic, Even(p, y, None), After(p, y), leak' = leak,
           t[p].pc # "dead", cwd' = cwd, of' = of, \A x \in Slot : Holds(t[p], x) => Holds(y, x)
    PROVE  All'
<1>1. Sum(ic, ic', None) BY Facts, SumSame DEF CacheRefs
<1>2. QED BY <1>1, KeptPlain DEF Even

-----------------------------------------------------------------------------
(* Entering the section, and exit. *)

\* The current directory has a reference.
LEMMA CwdHeld ==
    ASSUME All, NEW p \in Proc, t[p].pc # "dead", t[p].then \notin Moved
    PROVE  cwd[p] \in Slot /\ ic[cwd[p]].ref > 0
<1>1. cwd[p] \in Slot BY Facts
<1>2. PICK s \in Slot : s = cwd[p] BY <1>1
<1>3. Bit(cwd[p] = s /\ t[p].then \notin Moved) = 1 BY <1>2 DEF Bit
<1>4. \A b : Bit(b) \in Nat BY DEF Bit
<1>5. Mine(p, s) >= 1 BY <1>3, <1>4 DEF Mine, Held
<1>6. ic[s].ref \in Nat /\ ic[s].ref >= Mine(p, s) /\ Mine(p, s) \in Nat BY Facts
<1>7. QED BY <1>1, <1>2, <1>5, <1>6

\* A call that has just taken one more entry.
LEMMA TookAll ==
    ASSUME All, NEW p \in Proc, NEW y, NEW k, Took(p, t[p], ic, y, ic', k), After(p, y),
           leak' = leak, cwd' = cwd, of' = of, t[p].pc # "dead",
           \A x \in Slot : Holds(t[p], x) => Holds(y, x)
    PROVE  All'
<1>1. Sum(ic, ic', k) /\ Fit(y) BY DEF Took
<1>2. \A s \in Slot : Held(y, cwd[p], of[p].ip, s) = Mine(p, s) + Bit(s = k) BY DEF Took, Mine
<1>3. \A s \in Slot : ic'[s].lock = ic[s].lock BY DEF Took
<1>4. QED BY <1>1, <1>2, <1>3, KeptPlain

\* A call with a path enters the section and starts to walk.
LEMMA EnterPathAll == ASSUME All, NEW p \in Proc, EnterPath(p), ~halted' PROVE All'
<1> DEFINE x == t[p]
           r == Namex(p, x, ic)
<1>1. /\ x.pc = "begun" /\ HasPath(x) /\ ic' = r.c /\ r.ok /\ t' = [t EXCEPT ![p] = r.x]
      /\ leak' = leak /\ cwd' = cwd /\ of' = of
  BY DEF EnterPath, At, history
<1>2. Fit(x) /\ GoodCache(ic) /\ CacheRefs(ic) BY Facts DEF CacheRefs
<1>3. PathFrame(x)
  <2>1. x.call \notin RW \cup {"close", "exit"} BY <1>1 DEF HasPath, RW
  <2>2. /\ x \in Frame /\ x.put = None /\ x.dp = None /\ x.then \notin Moved /\ x.ip = None
        /\ x.par <=> x.call \in Parents
    BY <1>1, <1>2, <2>1 DEF Fit
  <2>3. QED BY <2>1, <2>2 DEF PathFrame, PathCall, Linking, Parents
<1>4. cwd[p] \in Slot /\ ic[cwd[p]].ref > 0 BY <1>1, <1>3, CwdHeld DEF PathFrame, PathCall
<1>5. PICK k : Took(p, x, ic, r.x, r.c, k) BY <1>1, <1>2, <1>3, <1>4, NamexTakes
<1>6. After(p, r.x) BY <1>1, <1>5 DEF After, Took
<1>7. \A s \in Slot : ~Holds(x, s) BY <1>1 DEF Holds, PutPc
<1> HIDE DEF r
<1>8. QED BY <1>1, <1>5, <1>6, <1>7, TookAll

\* read and write enter it with the inode of their file.
LEMMA EnterFileAll == ASSUME All, NEW p \in Proc, EnterFile(p), ~halted' PROVE All'
<1> DEFINE x == t[p]
           a == [x EXCEPT !.pc = x.call]
           y == [a EXCEPT !.ip = of[p].ip]
<1>1. /\ x.pc = "begun" /\ x.call \in RW /\ ic' = ic /\ t' = [t EXCEPT ![p] = [x EXCEPT !.pc = x.call, !.ip = of[p].ip]]
      /\ of[p].ip # None /\ leak' = leak /\ cwd' = cwd /\ of' = of
  <2>1. t' = [t EXCEPT ![p].pc = t[p].call, ![p].ip = of[p].ip] BY DEF EnterFile
  <2>2. t' = [t EXCEPT ![p] = [x EXCEPT !.pc = x.call, !.ip = of[p].ip]] BY <2>1 DEF All, Shape
  <2>3. QED BY <2>2 DEF EnterFile, At, RW, history
<1>2. Fit(x) /\ x \in Frame /\ of[p].ip \in Slot BY <1>1, Facts DEF SlotOr
<1>3. /\ x.put = None /\ x.dp = None /\ x.then \notin Moved /\ x.ip = None
      /\ x.par <=> x.call \in Parents
  BY <1>1, <1>2 DEF Fit, RW
<1>4. Moves(x, a, x.call, None, None, None, x.then)
  <2>1. x.call \in Pc BY <1>1 DEF RW, Pc, CallPc, IpPc
  <2>2. QED BY <1>2, <1>3, <2>1, GotoMoves DEF Goto
<1>5. t' = [t EXCEPT ![p] = y] BY <1>1
<1> HIDE DEF a
<1>6. Moves(x, y, x.call, of[p].ip, None, None, x.then)
  BY <1>2, <1>4, SlotsDiffer DEF Moves, Frame
<1> HIDE DEF y
<1>7. Fit(y)
  <2>1. Ready(y.pc, y)
    BY <1>1, <1>2, <1>3, <1>6 DEF Moves, Ready, Linking, CallPc, IpPc, DpPc, RW, Parents
  <2>2. y.pc \in CallPc BY <1>1, <1>6 DEF Moves, CallPc, IpPc, RW
  <2>3. QED BY <1>1, <1>3, <1>6, <2>1, <2>2, FitCall DEF Moves, Moved, RW
<1>8. Gets(x, y, None)
  <2>1. ASSUME NEW o, NEW w, NEW s \in Slot PROVE Held(y, o, w, s) = Held(x, o, w, s) + Bit(s = None)
    BY <1>1, <1>3, <1>6, SlotsDiffer DEF Held, Bit, Moves, RW
  <2>2. QED BY <1>7, <2>1 DEF Gets
<1>9. After(p, y) BY <1>1, <1>5, <1>6 DEF After, Moves, RW
<1>10. \A s \in Slot : ~Holds(x, s) BY <1>1 DEF Holds, PutPc
<1>11. QED BY <1>1, <1>8, <1>9, <1>10, GetsEven, StillKeeps

\* What a call has when it enters its section.
LEMMA BegunFacts ==
    ASSUME All, NEW p \in Proc, t[p].pc = "begun"
    PROVE  /\ t[p] \in Frame /\ t[p].put = None /\ t[p].dp = None /\ t[p].then \notin Moved
           /\ IF t[p].call = "close" THEN t[p].ip \in Slot ELSE t[p].ip = None
           /\ t[p].par <=> t[p].call \in Parents
           /\ \A s \in Slot : ~Holds(t[p], s)
<1>1. Fit(t[p]) /\ t[p] \in Frame BY Facts
<1>2. \A s \in Slot : ~Holds(t[p], s) BY DEF Holds, PutPc
<1>3. QED BY <1>1, <1>2 DEF Fit

\* A process without locks gives a reference that it has to iput, the one of its
\* file or of its current directory.
LEMMA PutKeeps ==
    ASSUME All, NEW p \in Proc, NEW s \in Slot, NEW l \in CallPc, t[p].put = None,
           t[p].pc # "dead", Ready(l, PutThen(t[p], s, l)), After(p, PutThen(t[p], s, l)),
           Sum(ic, ic', None), \A x \in Slot : ic'[x].lock \in {None, ic[x].lock},
           leak' = leak, cwd' = cwd, of' \in FileType, t[p].then \notin Moved,
           \A q \in Proc : q # p => of'[q].ip = of[q].ip, \A x \in Slot : ~Holds(t[p], x),
           \/ of[p].ip = s /\ of'[p].ip = None /\ l \notin Moved
           \/ cwd[p] = s /\ of'[p].ip = of[p].ip /\ l \in Moved
    PROVE  All'
<1> DEFINE y == PutThen(t[p], s, l)
<1>1. t[p] \in Frame /\ s \in SlotOr /\ cwd[p] # None /\ cwd \in [Proc -> SlotOr]
  BY Facts, SlotsDiffer
<1>2. Moves(t[p], y, "iput", t[p].ip, t[p].dp, s, l) BY <1>1, PutThenMoves
<1> HIDE DEF y
<1>3. Ready(l, y) /\ After(p, y) BY DEF y
<1>4. Fit(y) BY <1>2, <1>3, FitPut DEF Moves, PutPc
<1>5. \A x \in Slot : Held(y, cwd'[p], of'[p].ip, x) = Mine(p, x) + Bit(x = None)
  <2> TAKE x \in Slot
  <2>1. x # None BY SlotsDiffer
  <2>2. Held(y, cwd'[p], of'[p].ip, x)
          = Bit(t[p].ip = x /\ t[p].call \notin RW) + Bit(t[p].dp = x) + Bit(s = x)
            + Bit(cwd[p] = x /\ l \notin Moved) + Bit(of'[p].ip = x)
    <3>1. Bit(y.put = x /\ y.pc # "drain") = Bit(s = x) BY <1>2 DEF Moves, Bit
    <3>2. QED BY <1>2, <3>1 DEF Held, Moves
  <2>3. Mine(p, x) = Bit(t[p].ip = x /\ t[p].call \notin RW) + Bit(t[p].dp = x) + 0
                     + Bit(cwd[p] = x) + Bit(of[p].ip = x)
    <3>1. Bit(t[p].put = x /\ t[p].pc # "drain") = 0 BY <2>1 DEF Bit
    <3>2. Bit(cwd[p] = x /\ t[p].then \notin Moved) = Bit(cwd[p] = x) BY DEF Bit
    <3>3. QED BY <3>1, <3>2 DEF Mine, Held
  <2>4. Bit(s = x) + Bit(cwd[p] = x /\ l \notin Moved) + Bit(of'[p].ip = x)
          = Bit(cwd[p] = x) + Bit(of[p].ip = x)
    BY <2>1 DEF Bit
  <2>5. Bit(x = None) = 0 BY <2>1 DEF Bit
  <2>6. \A b : Bit(b) \in Nat BY DEF Bit
  <2> DEFINE A == Bit(t[p].ip = x /\ t[p].call \notin RW)
             B == Bit(t[p].dp = x)
             C == Bit(s = x)
             D == Bit(cwd[p] = x /\ l \notin Moved)
             E == Bit(of'[p].ip = x)
             F == Bit(cwd[p] = x)
             G == Bit(of[p].ip = x)
  <2>7. A \in Nat /\ B \in Nat /\ C \in Nat /\ D \in Nat /\ E \in Nat /\ F \in Nat /\ G \in Nat
    BY <2>6
  <2> HIDE DEF A, B, C, D, E, F, G
  <2>8. /\ Held(y, cwd'[p], of'[p].ip, x) = A + B + C + D + E
        /\ Mine(p, x) = A + B + 0 + F + G
        /\ C + D + E = F + G
    BY <2>2, <2>3, <2>4 DEF A, B, C, D, E, F, G
  <2>9. QED BY <2>5, <2>7, <2>8
<1>6. \A x \in Slot : \/ ic'[x].lock = None
                      \/ ic'[x].lock = ic[x].lock /\ (Holds(t[p], x) => Holds(y, x))
  OBVIOUS
<1>7. QED BY <1>1, <1>3, <1>4, <1>5, <1>6, KeptStep

\* close and exit enter it to put an inode: the closed file's, or the current directory.
LEMMA EnterPutAll == ASSUME All, NEW p \in Proc, EnterPut(p) PROVE All'
<1> DEFINE x == t[p]
<1>1. x.pc = "begun" /\ ic' = ic /\ leak' = leak /\ cwd' = cwd BY DEF EnterPut, At, history
<1>2. /\ x \in Frame /\ x.put = None /\ x.dp = None /\ x.then \notin Moved /\ x.pc # "dead"
      /\ IF x.call = "close" THEN x.ip \in Slot ELSE x.ip = None
      /\ x.par <=> x.call \in Parents
      /\ \A s \in Slot : ~Holds(x, s)
  BY <1>1, BegunFacts
<1>3. Sum(ic, ic', None) /\ \A s \in Slot : ic'[s].lock \in {None, ic[s].lock}
  BY <1>1, Facts, SumSame DEF CacheRefs
<1>4. CASE x.call = "close" /\ t' = [t EXCEPT ![p] = PutIp(x, "end")] /\ of' = of
  <2>1. Moves(x, PutIp(x, "end"), "iput", None, x.dp, x.ip, "end") BY <1>2, PutIpMoves DEF CallPc
  <2>2. Ready("end", PutIp(x, "end"))
    BY <1>2, <1>4, <2>1 DEF Moves, Ready, CallPc, IpPc, DpPc, RW, Parents
  <2>3. Gets(x, PutIp(x, "end"), None)
    BY <1>1, <1>2, <1>4, <2>2, PutIpGets DEF CallPc, RW, Moved
  <2>4. After(p, PutIp(x, "end")) BY <1>4, <2>1 DEF After, Moves
  <2>5. QED BY <1>1, <1>2, <1>4, <2>3, <2>4, GetsEven, StillKeeps
<1>5. CASE /\ x.call = "exit" /\ of[p].ip = None /\ of' = of
           /\ t' = [t EXCEPT ![p].pc = "exit", ![p].then = "exit"]
  <2> DEFINE a == [x EXCEPT !.pc = "exit"]
             y == [a EXCEPT !.then = "exit"]
  <2>1. t' = [t EXCEPT ![p] = y] BY <1>5 DEF All, Shape
  <2>2. Moves(x, a, "exit", None, None, None, x.then)
    <3>1. "exit" \in Pc BY DEF Pc, CallPc
    <3>2. QED BY <1>2, <1>5, <3>1, GotoMoves DEF Goto
  <2> HIDE DEF a
  <2>3. Moves(x, y, "exit", None, None, None, "exit")
    <3>1. "exit" \in CallPc BY DEF CallPc
    <3>2. QED BY <2>2, <3>1 DEF Moves, Frame
  <2> HIDE DEF y
  <2>4. Ready("exit", y)
    BY <1>2, <1>5, <2>3 DEF Moves, Ready, CallPc, IpPc, DpPc, RW, Parents
  <2>5. Fit(y) BY <2>3, <2>4, FitCall DEF Moves, CallPc, Moved
  <2>6. ASSUME NEW o, NEW w, NEW s \in Slot PROVE Held(y, o, w, s) = Held(x, o, w, s) + Bit(s = None)
    BY <1>1, <1>2, <1>5, <2>3, SlotsDiffer DEF Held, Bit, Moves, Moved
  <2>7. Gets(x, y, None) BY <2>5, <2>6 DEF Gets
  <2>8. After(p, y) BY <2>1, <2>3 DEF After, Moves
  <2>9. QED BY <1>1, <1>2, <1>5, <2>7, <2>8, GetsEven, StillKeeps
<1>6. CASE /\ x.call = "exit" /\ of[p].ip # None /\ of' = [of EXCEPT ![p] = NoFile]
           /\ t' = [t EXCEPT ![p] = PutThen(x, of[p].ip, "exit")]
  <2>1. of[p].ip \in Slot /\ of \in FileType BY <1>6, Facts DEF SlotOr
  <2>2. of' \in FileType /\ of'[p].ip = None /\ \A q \in Proc : q # p => of'[q].ip = of[q].ip
    <3>1. NoFile \in [ip : SlotOr, wr : BOOLEAN, off : Nat] /\ NoFile.ip = None BY DEF NoFile, SlotOr
    <3>2. QED BY <1>6, <2>1, <3>1 DEF FileType
  <2>3. "exit" \in CallPc \ Moved BY DEF CallPc, Moved
  <2>4. Moves(x, PutThen(x, of[p].ip, "exit"), "iput", x.ip, x.dp, of[p].ip, "exit")
    BY <1>2, <2>1, <2>3, PutThenMoves, SlotsDiffer
  <2>5. Ready("exit", PutThen(x, of[p].ip, "exit"))
    BY <1>2, <1>6, <2>4 DEF Moves, Ready, CallPc, IpPc, DpPc, RW, Parents
  <2>6. After(p, PutThen(x, of[p].ip, "exit")) BY <1>6, <2>4 DEF After, Moves
  <2>7. QED BY <1>1, <1>2, <1>3, <2>1, <2>2, <2>3, <2>5, <2>6, PutKeeps
<1>7. CASE /\ x.call = "exit" /\ of' = of
           /\ t' = [t EXCEPT ![p] = PutThen(x, cwd[p], "exited")]
  <2>1. cwd[p] \in Slot /\ of \in FileType BY <1>2, Facts
  <2>2. "exited" \in CallPc /\ "exited" \in Moved BY DEF CallPc, Moved
  <2>3. Moves(x, PutThen(x, cwd[p], "exited"), "iput", x.ip, x.dp, cwd[p], "exited")
    BY <1>2, <2>1, <2>2, PutThenMoves, SlotsDiffer
  <2>4. Ready("exited", PutThen(x, cwd[p], "exited"))
    BY <1>2, <1>7, <2>3 DEF Moves, Ready, CallPc, IpPc, DpPc, RW, Parents
  <2>5. After(p, PutThen(x, cwd[p], "exited")) BY <1>7, <2>3 DEF After, Moves
  <2>6. QED BY <1>1, <1>2, <1>7, <1>3, <2>1, <2>2, <2>4, <2>5, PutKeeps
<1>8. \/ x.call = "close" /\ t' = [t EXCEPT ![p] = PutIp(x, "end")] /\ of' = of
      \/ /\ x.call = "exit" /\ of[p].ip = None /\ of' = of
         /\ t' = [t EXCEPT ![p].pc = "exit", ![p].then = "exit"]
      \/ /\ x.call = "exit" /\ of[p].ip # None /\ of' = [of EXCEPT ![p] = NoFile]
         /\ t' = [t EXCEPT ![p] = PutThen(x, of[p].ip, "exit")]
      \/ x.call = "exit" /\ of' = of /\ t' = [t EXCEPT ![p] = PutThen(x, cwd[p], "exited")]
  BY DEF EnterPut
<1>9. QED BY <1>4, <1>5, <1>6, <1>7, <1>8

\* exit waits for the section again, for its second operation.
LEMMA ExitCwdAll == ASSUME All, NEW p \in Proc, ExitCwd(p) PROVE All'
<1> DEFINE x == t[p]
           y == [x EXCEPT !.pc = "begun"]
<1>1. /\ x.pc = "exit" /\ ic' = ic /\ leak' = leak /\ cwd' = cwd /\ of' = of
      /\ t' = [t EXCEPT ![p] = y]
  BY DEF ExitCwd, At, history, All, Shape
<1>2. /\ x.put = None /\ x.then \notin Moved /\ Ready("exit", x) /\ x \in Frame
      /\ \A s \in Slot : ~Holds(x, s)
  <2>1. x.pc \in CallPc /\ x.pc \notin Moved BY <1>1 DEF CallPc, Moved
  <2>2. QED BY <1>1, <2>1, CallFacts
<1>3. x.ip = None /\ x.dp = None /\ x.call = "exit" /\ ~x.par
  BY <1>2 DEF Ready, IpPc, DpPc, RW
<1>4. Moves(x, y, "begun", None, None, None, x.then)
  <2>1. "begun" \in Pc BY DEF Pc
  <2>2. QED BY <1>2, <1>3, <2>1, GotoMoves DEF Goto
<1> HIDE DEF y
<1>5. Fit(y) BY <1>2, <1>3, <1>4, BegunFits DEF Moves, Parents
<1>6. ASSUME NEW o, NEW w, NEW s \in Slot PROVE Held(y, o, w, s) = Held(x, o, w, s) + Bit(s = None)
  BY <1>1, <1>2, <1>3, <1>4, SlotsDiffer DEF Held, Bit, Moves
<1>7. Gets(x, y, None) BY <1>5, <1>6 DEF Gets
<1>8. After(p, y) BY <1>1, <1>4 DEF After, Moves
<1>9. QED BY <1>1, <1>2, <1>7, <1>8, GetsEven, StillKeeps

\* exit ends without its current directory, whose reference is gone by then.
LEMMA ExitDoneAll == ASSUME All, NEW p \in Proc, ExitDone(p) PROVE All'
<1> DEFINE x == t[p]
           y == Goto(x, "dead")
<1>1. /\ x.pc = "exited" /\ ic' = ic /\ leak' = leak /\ of' = of /\ After(p, y)
      /\ cwd' = [cwd EXCEPT ![p] = None]
  BY DEF ExitDone, At, history, Go, After
<1>2. Fit(x) /\ x \in Frame /\ cwd \in [Proc -> SlotOr] /\ of \in FileType BY Facts
<1>3. x.put = None /\ Ready("exited", x) BY <1>1, <1>2 DEF Fit, CallPc
<1>4. x.ip = None /\ x.dp = None BY <1>3 DEF Ready, IpPc, DpPc
<1>5. Moves(x, y, "dead", None, None, None, x.then)
  <2>1. "dead" \in Pc BY DEF Pc
  <2>2. QED BY <1>2, <1>3, <1>4, <2>1, GotoMoves
<1> HIDE DEF y
<1>6. Fit(y) BY <1>5 DEF Fit, Moves, CallPc, IpPc, DpPc, PutPc
<1>7. cwd' \in [Proc -> SlotOr] /\ cwd'[p] = None /\ \A q \in Proc : q # p => cwd'[q] = cwd[q]
  BY <1>1, <1>2 DEF SlotOr
<1>8. x.then = "exited" BY <1>1, <1>2 DEF Fit, CallPc, Moved
<1>9. \A s \in Slot : Held(y, cwd'[p], of'[p].ip, s) = Mine(p, s) + Bit(s = None)
  <2> TAKE s \in Slot
  <2>1. s # None BY SlotsDiffer
  <2>2. x.then \in Moved /\ y.then \in Moved BY <1>5, <1>8 DEF Moved, Moves
  <2>3. QED BY <1>1, <1>3, <1>4, <1>5, <1>7, <2>1, <2>2 DEF Held, Mine, Bit, Moves
<1>10. \A s \in Slot : ~Holds(x, s) BY <1>1 DEF Holds, PutPc
<1>11. Sum(ic, ic', None) BY <1>1, Facts, SumSame DEF CacheRefs
<1>12. QED BY <1>1, <1>2, <1>5, <1>6, <1>7, <1>9, <1>10, <1>11, KeptStep DEF Moves

-----------------------------------------------------------------------------
(* iput. *)

\* What a call has in iput.
LEMMA PutFacts ==
    ASSUME All, NEW p \in Proc, t[p].pc \in PutPc
    PROVE  /\ t[p] \in Frame /\ Fit(t[p]) /\ t[p].put \in Slot /\ Ready(t[p].then, t[p])
           /\ t[p].then \in CallPc /\ cwd[p] # None /\ t[p].pc # "dead"
<1>1. t[p] \in Frame /\ Fit(t[p]) BY Facts
<1>2. t[p].pc # "dead" BY DEF PutPc
<1>3. cwd[p] # None BY <1>2, Facts, SlotsDiffer
<1>4. QED BY <1>1, <1>2, <1>3 DEF Fit, Ready

\* The call goes on to another part of iput.
LEMMA PutOn ==
    ASSUME All, NEW p \in Proc, t[p].pc \in PutPc, NEW l \in PutPc
    PROVE  /\ Gets(t[p], Goto(t[p], l), None)
           /\ Moves(t[p], Goto(t[p], l), l, t[p].ip, t[p].dp, t[p].put, t[p].then)
<1> DEFINE y == Goto(t[p], l)
<1>1. Moves(t[p], y, l, t[p].ip, t[p].dp, t[p].put, t[p].then)
  BY PutFacts, GotoMoves DEF Pc
<1> HIDE DEF y
<1>2. Ready(y.then, y) BY <1>1, PutFacts DEF Ready, Moves, Linking
<1>3. Fit(y) BY <1>1, <1>2, PutFacts, FitPut DEF Moves
<1>4. y.pc # "drain" /\ t[p].pc # "drain" BY <1>1 DEF Moves, PutPc
<1>5. ASSUME NEW o, NEW w, NEW s \in Slot
      PROVE  Held(y, o, w, s) = Held(t[p], o, w, s) + Bit(s = None)
  BY <1>1, <1>4, SlotsDiffer DEF Held, Bit, Moves
<1>6. QED BY <1>1, <1>3, <1>5 DEF Gets, y

\* The reference is dropped, and the call goes on behind iput.
LEMMA DropAll ==
    ASSUME All, NEW p \in Proc, t[p].pc \in {"iput", "irel"},
           ic' = [ic EXCEPT ![t[p].put].ref = @ - 1],
           After(p, [t[p] EXCEPT !.pc = t[p].then, !.put = None]),
           leak' = leak, cwd' = cwd, of' = of
    PROVE  All'
<1> DEFINE x == t[p]
           k == x.put
           a == [x EXCEPT !.pc = x.then]
           y == [a EXCEPT !.put = None]
<1>1. x \in Frame /\ k \in Slot /\ Ready(x.then, x) /\ x.then \in CallPc /\ x.pc # "drain"
  BY PutFacts DEF PutPc
<1>2. After(p, y) /\ x.pc \in PutPc BY DEF PutPc
<1>3. Moves(x, a, x.then, x.ip, x.dp, x.put, x.then) BY <1>1, GotoMoves DEF Goto, Pc
<1> HIDE DEF a
<1>4. Moves(x, y, x.then, x.ip, x.dp, None, x.then) BY <1>3 DEF Moves, Frame, SlotOr
<1> HIDE DEF y
<1>5. Ready(y.pc, y) BY <1>1, <1>4 DEF Ready, Moves, Linking
<1>6. Fit(y) BY <1>1, <1>4, <1>5, FitCall DEF Moves
<1>7. y.pc # "drain" BY <1>1, <1>4 DEF Moves, CallPc, IpPc, DpPc
<1>8. /\ \A s \in Slot : ic'[s].ref = ic[s].ref - Bit(s = k) /\ ic'[s].lock = ic[s].lock
                         /\ ic'[s].inum = ic[s].inum
      /\ GoodCache(ic')
  <2>1. GoodCache(ic) /\ \A s \in Slot : ic[s].ref \in Nat BY Facts
  <2>2. DOMAIN ic' = Slot /\ \A s \in Slot : s # k => ic'[s] = ic[s] BY <2>1 DEF GoodCache
  <2>3. ic'[k] = [ic[k] EXCEPT !.ref = ic[k].ref - 1] BY <1>1, <2>1 DEF GoodCache
  <2>4. DOMAIN ic[k] = Fields BY <1>1, <2>1 DEF GoodCache
  <2>5. /\ DOMAIN ic'[k] = Fields /\ ic'[k].ref = ic[k].ref - 1 /\ ic'[k].lock = ic[k].lock
        /\ ic'[k].inum = ic[k].inum
    BY <2>3, <2>4 DEF Fields
  <2>6. QED BY <2>1, <2>2, <2>5 DEF GoodCache, Bit
<1>9. OneIn(ic')
  <2>1. \A s \in Slot : ic'[s].ref > 0 => ic[s].ref > 0 BY <1>8, Facts DEF Bit
  <2>2. OneIn(ic) BY Facts
  <2>3. \A s \in Slot : ic'[s].inum = ic[s].inum BY <1>8
  <2>4. QED BY <2>1, <2>2, <2>3 DEF OneIn
<1>10. RefsKept(p, y)
  <2> SUFFICES ASSUME NEW s \in Slot
               PROVE  ic'[s].ref = ic[s].ref - Mine(p, s) + Held(y, cwd[p], of[p].ip, s)
    BY DEF RefsKept
  <2>1. ic[s].ref \in Nat /\ Mine(p, s) \in Nat BY Facts
  <2>2. Mine(p, s) = Held(y, cwd[p], of[p].ip, s) + Bit(s = k)
    BY <1>1, <1>4, <1>7, SlotsDiffer DEF Mine, Held, Bit, Moves
  <2>3. Bit(s = k) \in Nat /\ Held(y, cwd[p], of[p].ip, s) \in Nat BY DEF Bit, Held
  <2>4. QED BY <1>8, <2>1, <2>2, <2>3
<1>11. LocksKept(p, y)
  <2> SUFFICES ASSUME NEW s \in Slot
               PROVE \/ ic'[s].lock = p /\ Holds(y, s)
                     \/ ic'[s].lock = ic[s].lock /\ ic[s].lock # p
                     \/ ic'[s].lock = None
    BY DEF LocksKept
  <2>1. ic[s].lock = None \/ (ic[s].lock \in Proc /\ Holds(t[ic[s].lock], s)) BY DEF All, LockInv
  <2>2. Holds(x, s) => Holds(y, s)
    BY <1>1, <1>2, <1>4 DEF Holds, Moves, PutPc, CallPc, IpPc, DpPc
  <2>3. QED BY <1>8, <2>1, <2>2
<1>12. cwd' \in [Proc -> SlotOr] /\ cwd'[p] # None /\ of' \in FileType BY <1>2, PutFacts, Facts
<1>13. Kept(p, y) BY <1>2, <1>6, <1>8, <1>9, <1>10, <1>11, <1>12 DEF Kept
<1>14. QED BY <1>13, KeptAll

\* iput with other references left: one less.
LEMMA IputDropAll == ASSUME All, NEW p \in Proc, IputDrop(p) PROVE All'
BY DropAll DEF IputDrop, At, Go, After, history

\* iput: the last use takes the lock, any other drops a reference.
LEMMA IputAll == ASSUME All, NEW p \in Proc, Iput(p), ~halted' PROVE All'
<1> DEFINE x == t[p]
           k == x.put
           y == Goto(x, "itrunc")
<1>1. x.pc = "iput" /\ leak' = leak /\ cwd' = cwd /\ of' = of BY DEF Iput, At, Halt, history
<1>2. CASE LastUse(k)
  <2>1. ic' = [ic EXCEPT ![k].lock = p] /\ After(p, y) BY <1>2 DEF Iput, Halt, Go, After
  <2>2. k \in Slot /\ x.pc \in PutPc /\ x.pc # "dead" BY <1>1, PutFacts DEF PutPc
  <2>3. Gets(x, y, None) /\ Moves(x, y, "itrunc", x.ip, x.dp, x.put, x.then)
    BY <2>2, PutOn DEF PutPc
  <2> HIDE DEF y
  <2>4. Turned(ic, ic', k, p)
    <3>1. GoodCache(ic) BY Facts
    <3>2. DOMAIN ic' = Slot /\ \A s \in Slot : s # k => ic'[s] = ic[s] BY <2>1, <3>1 DEF GoodCache
    <3>3. ic'[k] = [ic[k] EXCEPT !.lock = p] BY <2>1, <2>2, <3>1 DEF GoodCache
    <3>4. DOMAIN ic[k] = Fields BY <2>2, <3>1 DEF GoodCache
    <3>5. /\ DOMAIN ic'[k] = Fields /\ ic'[k].ref = ic[k].ref /\ ic'[k].lock = p
          /\ ic'[k].inum = ic[k].inum
      BY <3>3, <3>4 DEF Fields
    <3>6. GoodCache(ic') BY <3>1, <3>2, <3>5 DEF GoodCache
    <3>7. QED BY <3>2, <3>5, <3>6 DEF Turned
  <2>5. Sum(ic, ic', None) BY <2>4, Facts, SumTurned DEF CacheRefs
  <2>6. ASSUME NEW s \in Slot
        PROVE  \/ ic'[s].lock = p /\ Holds(y, s)
               \/ ic'[s].lock = ic[s].lock /\ (Holds(x, s) => Holds(y, s))
    <3>1. Holds(y, k) BY <2>3 DEF Holds, Moves, PutPc
    <3>2. Holds(x, s) => Holds(y, s) BY <1>1, <2>3 DEF Holds, Moves, PutPc
    <3>3. QED BY <2>4, <3>1, <3>2 DEF Turned
  <2>7. Even(p, y, None) BY <2>3, GetsEven
  <2>8. Fit(y) /\ \A s \in Slot : Held(y, cwd[p], of[p].ip, s) = Mine(p, s) + Bit(s = None)
    BY <2>7 DEF Even
  <2>9. \A s \in Slot : \/ ic'[s].lock = None
                        \/ ic'[s].lock = p /\ Holds(y, s)
                        \/ ic'[s].lock = ic[s].lock /\ (Holds(t[p], s) => Holds(y, s))
    BY <2>6
  <2>10. /\ After(p, y) /\ leak' = leak /\ cwd' = cwd /\ of' = of /\ t[p].pc # "dead"
         /\ Sum(ic, ic', None) /\ Fit(y)
         /\ \A s \in Slot : Held(y, cwd[p], of[p].ip, s) = Mine(p, s) + Bit(s = None)
    BY <1>1, <2>1, <2>2, <2>5, <2>8
  <2> HIDE DEF x, k
  <2>11. QED BY <2>9, <2>10, KeptPlain
<1>3. CASE ~LastUse(k)
  <2>1. ic' = [ic EXCEPT ![k].ref = @ - 1] BY <1>3 DEF Iput
  <2>2. After(p, [x EXCEPT !.pc = x.then, !.put = None]) BY <1>3 DEF Iput, Go, After
  <2>3. QED BY <1>1, <2>1, <2>2, DropAll
<1>4. QED BY <1>2, <1>3

\* itrunc keeps the lock that iput took.
LEMMA IputTruncAll == ASSUME All, NEW p \in Proc, IputTrunc(p) PROVE All'
<1> DEFINE x == t[p]
           k == x.put
           y == Goto(x, "iinval")
<1>1. /\ x.pc = "itrunc" /\ leak' = leak /\ cwd' = cwd /\ of' = of
      /\ ic' = [ic EXCEPT ![k].d = FreeDinode] /\ After(p, y)
  BY DEF IputTrunc, At, Go, After, history
<1>2. k \in Slot /\ x.pc \in PutPc /\ x.pc # "dead" BY <1>1, PutFacts DEF PutPc
<1>3. Gets(x, y, None) /\ Moves(x, y, "iinval", x.ip, x.dp, x.put, x.then)
  BY <1>2, PutOn DEF PutPc
<1> HIDE DEF y
<1>4. Turned(ic, ic', k, ic[k].lock)
  <2>1. GoodCache(ic) BY Facts
  <2>2. DOMAIN ic' = Slot /\ \A s \in Slot : s # k => ic'[s] = ic[s] BY <1>1, <2>1 DEF GoodCache
  <2>3. ic'[k] = [ic[k] EXCEPT !.d = FreeDinode] BY <1>1, <1>2, <2>1 DEF GoodCache
  <2>4. DOMAIN ic[k] = Fields BY <1>2, <2>1 DEF GoodCache
  <2>5. /\ DOMAIN ic'[k] = Fields /\ ic'[k].ref = ic[k].ref /\ ic'[k].lock = ic[k].lock
        /\ ic'[k].inum = ic[k].inum
    BY <2>3, <2>4 DEF Fields
  <2>6. GoodCache(ic') BY <2>1, <2>2, <2>5 DEF GoodCache
  <2>7. QED BY <2>2, <2>5, <2>6 DEF Turned
<1>5. Sum(ic, ic', None) BY <1>4, Facts, SumTurned DEF CacheRefs
<1>6. ASSUME NEW s \in Slot PROVE ic'[s].lock = ic[s].lock /\ (Holds(x, s) => Holds(y, s))
  <2>1. Holds(x, s) => Holds(y, s) BY <1>1, <1>3 DEF Holds, Moves, PutPc
  <2>2. QED BY <1>4, <2>1 DEF Turned
<1>7. Even(p, y, None) BY <1>3, GetsEven
<1>8. Fit(y) /\ \A s \in Slot : Held(y, cwd[p], of[p].ip, s) = Mine(p, s) + Bit(s = None)
  BY <1>7 DEF Even
<1>9. QED BY <1>1, <1>2, <1>5, <1>6, <1>8, KeptPlain

\* iput makes the entry invalid and unlocks it.
LEMMA IputInvalAll == ASSUME All, NEW p \in Proc, IputInval(p) PROVE All'
<1> DEFINE x == t[p]
           k == x.put
           c == Unlock(ic, k)
           y == Goto(x, "irel")
<1>1. /\ x.pc = "iinval" /\ leak' = leak /\ cwd' = cwd /\ of' = of
      /\ ic' = [c EXCEPT ![k].valid = FALSE] /\ After(p, y)
  BY DEF IputInval, At, Go, After, history
<1>2. k \in Slot /\ x.pc \in PutPc /\ x.pc # "dead" BY <1>1, PutFacts DEF PutPc
<1>3. Gets(x, y, None) /\ Moves(x, y, "irel", x.ip, x.dp, x.put, x.then)
  BY <1>2, PutOn DEF PutPc
<1> HIDE DEF y
<1>4. Turned(ic, c, k, None) BY <1>2, Facts, UnlockTurns
<1> HIDE DEF c
<1>5. Turned(ic, ic', k, None)
  <2>1. GoodCache(c) BY <1>4 DEF Turned
  <2>2. DOMAIN ic' = Slot /\ \A s \in Slot : s # k => ic'[s] = c[s] BY <1>1, <2>1 DEF GoodCache
  <2>3. ic'[k] = [c[k] EXCEPT !.valid = FALSE] BY <1>1, <1>2, <2>1 DEF GoodCache
  <2>4. DOMAIN c[k] = Fields BY <1>2, <2>1 DEF GoodCache
  <2>5. /\ DOMAIN ic'[k] = Fields /\ ic'[k].ref = c[k].ref /\ ic'[k].lock = c[k].lock
        /\ ic'[k].inum = c[k].inum
    BY <2>3, <2>4 DEF Fields
  <2>6. GoodCache(ic') BY <2>1, <2>2, <2>5 DEF GoodCache
  <2>7. QED BY <1>4, <2>2, <2>5, <2>6 DEF Turned
<1>6. \A s \in Slot : Holds(x, s) => Holds(y, s) \/ s = k
  BY <1>1, <1>3 DEF Holds, Moves, PutPc
<1>7. QED BY <1>1, <1>2, <1>3, <1>5, <1>6, Facts, GetsEven, TurnKeeps

-----------------------------------------------------------------------------
(* open, chdir. *)

\* iunlock after any step that adds no reference.
LEMMA TurnUnlock ==
    ASSUME NEW c, NEW c2, NEW s \in Slot, NEW l, Turned(c, c2, s, l)
    PROVE  Turned(c, Unlock(c2, s), s, None)
<1>1. Turned(c2, Unlock(c2, s), s, None) BY UnlockTurns DEF Turned
<1>2. QED BY <1>1 DEF Turned

\* The end of open: the file gets the reference, or iput does.
LEMMA OpenedAll ==
    ASSUME All, NEW p \in Proc, t[p].pc \in {"open", "exists", "new"}, NEW c, NEW l,
           Turned(ic, c, t[p].ip, l), NEW wr \in BOOLEAN, Opened(p, c, wr),
           leak' = leak, cwd' = cwd
    PROVE  All'
<1> DEFINE x == t[p]
           y == PutIp(x, "end")
<1>1. /\ x.ip \in Slot /\ x.dp = None /\ Even(p, y, None) /\ x.call \notin RW /\ y.pc = "iput"
      /\ \A s \in Slot : Holds(x, s) => s = x.ip
  BY EndIp
<1>2. x.pc \in CallPc /\ x.pc \notin Moved /\ x.pc # "dead" BY DEF CallPc, IpPc, Moved
<1>3. x.put = None /\ x.then \notin Moved BY <1>2, CallFacts
<1>4. Turned(ic, Unlock(c, x.ip), x.ip, None) BY <1>1, TurnUnlock
<1>5. ic' = Unlock(c, x.ip) BY DEF Opened
<1>6. CASE of[p] # NoFile
  <2>1. Go(p, y) /\ of' = of BY <1>6 DEF Opened
  <2>2. After(p, y) BY <2>1 DEF Go, After
  <2>3. of' \in FileType /\ \A q \in Proc : of'[q].ip = of[q].ip BY <2>1, Facts
  <2> HIDE DEF y
  <2>4. QED BY <1>1, <1>2, <1>4, <1>5, <2>2, <2>3, TurnKeeps
<1>7. CASE of[p] = NoFile
  <2>1. /\ Go(p, Goto(x, "end"))
        /\ of' = [of EXCEPT ![p] = [ip |-> x.ip, wr |-> wr, off |-> 0]]
    BY <1>7 DEF Opened
  <2>2. After(p, Idle)
    <3>1. Goto(x, "end").pc = "end"
      <4>1. x \in Frame /\ "end" \in Pc BY Facts DEF Pc, CallPc
      <4>2. QED BY <4>1, GotoMoves DEF Moves
    <3>2. Idle.pc # "end" BY DEF Idle
    <3>3. QED BY <2>1, <3>1, <3>2 DEF Go, After
  <2>3. /\ of' \in FileType /\ of'[p].ip = x.ip /\ of[p].ip = None
        /\ \A q \in Proc : q # p => of'[q].ip = of[q].ip
    <3>1. NoFile.ip = None BY DEF NoFile
    <3>2. x.ip \in SlotOr BY <1>1, SlotsDiffer
    <3>3. QED BY <1>7, <2>1, <3>1, <3>2, Facts DEF FileType
  <2>4. \A s \in Slot : Held(Idle, cwd[p], of'[p].ip, s) = Mine(p, s) + Bit(s = None)
    <3> TAKE s \in Slot
    <3>1. s # None BY SlotsDiffer
    <3>2. Idle.ip = None /\ Idle.dp = None /\ Idle.put = None /\ Idle.then \notin Moved
      BY DEF Idle, Moved
    <3> HIDE DEF Idle
    <3>3. QED BY <1>1, <1>3, <2>3, <3>1, <3>2 DEF Held, Mine, Bit
  <2>5. Sum(ic, ic', None) BY <1>4, <1>5, Facts, SumTurned DEF CacheRefs
  <2>6. \A s \in Slot : \/ ic'[s].lock = None
                        \/ ic'[s].lock = ic[s].lock /\ (Holds(x, s) => Holds(Idle, s))
    BY <1>1, <1>4, <1>5 DEF Turned
  <2>7. cwd' \in [Proc -> SlotOr] /\ cwd'[p] # None BY <1>2, Facts, SlotsDiffer
  <2>8. QED BY <2>2, <2>3, <2>4, <2>5, <2>6, <2>7, IdleFits, KeptStep
<1>8. QED BY <1>6, <1>7

\* The call gives back the inode that it has, unlocked, and ends.
LEMMA EndIpAll ==
    ASSUME All, NEW p \in Proc,
           t[p].pc \in {"open", "chdir", "link", "linkbad", "exists", "unlinked", "new"},
           Go(p, PutIp(t[p], "end")), Turned(ic, ic', t[p].ip, None),
           leak' = leak, cwd' = cwd, of' = of
    PROVE  All'
<1> DEFINE x == t[p]
           y == PutIp(x, "end")
<1>1. /\ x.ip \in Slot /\ Even(p, y, None) /\ y.pc = "iput"
      /\ \A s \in Slot : Holds(x, s) => s = x.ip
  BY EndIp
<1>2. After(p, y) BY DEF Go, After
<1>3. of' \in FileType /\ x.pc # "dead" BY Facts
<1> HIDE DEF y
<1>4. QED BY <1>1, <1>2, <1>3, TurnKeeps

\* Where a call has an inode in ip.
LEMMA IpCached ==
    ASSUME All, NEW p \in Proc, t[p].pc \in IpPc
    PROVE  t[p].ip \in Slot /\ GoodCache(ic) /\ t[p] \in Frame
<1>1. t[p].pc \in CallPc BY DEF CallPc
<1>2. QED BY <1>1, Facts DEF Fit, Ready

\* open of what exists.
LEMMA OpenAll == ASSUME All, NEW p \in Proc, Open(p), ~halted' PROVE All'
<1> DEFINE x == t[p]
           d == Loaded(x.ip)
<1>1. x.pc = "open" /\ leak' = leak /\ cwd' = cwd BY DEF Open, At, Halt, history
<1>2. x.ip \in Slot /\ GoodCache(ic) BY <1>1, IpCached DEF IpPc
<1>3. \/ Go(p, PutIp(x, "end")) /\ ic' = Set(ic, x.ip, d) /\ of' = of
      \/ Opened(p, Lock(ic, x.ip, p, d), x.call = "openrw")
  BY DEF Open, Halt
<1> HIDE DEF d
<1>4. CASE Go(p, PutIp(x, "end")) /\ ic' = Set(ic, x.ip, d) /\ of' = of
  BY <1>1, <1>2, <1>4, SetTurns, EndIpAll
<1>5. CASE Opened(p, Lock(ic, x.ip, p, d), x.call = "openrw")
  <2>1. Turned(ic, Lock(ic, x.ip, p, d), x.ip, p) BY <1>2, LockTurns
  <2>2. (x.call = "openrw") \in BOOLEAN OBVIOUS
  <2>3. QED BY <1>1, <1>5, <2>1, <2>2, OpenedAll
<1>6. QED BY <1>3, <1>4, <1>5

\* create finds the name: open takes over the inode of a file, iput any other.
LEMMA ExistsAll == ASSUME All, NEW p \in Proc, Exists(p), ~halted' PROVE All'
<1> DEFINE x == t[p]
           d == Loaded(x.ip)
<1>1. x.pc = "exists" /\ leak' = leak /\ cwd' = cwd BY DEF Exists, At, Halt, history
<1>2. x.ip \in Slot /\ GoodCache(ic) BY <1>1, IpCached DEF IpPc
<1>3. \/ Go(p, PutIp(x, "end")) /\ ic' = Set(ic, x.ip, d) /\ of' = of
      \/ Opened(p, Lock(ic, x.ip, p, d), TRUE)
  BY DEF Exists, Halt
<1> HIDE DEF d
<1>4. CASE Go(p, PutIp(x, "end")) /\ ic' = Set(ic, x.ip, d) /\ of' = of
  BY <1>1, <1>2, <1>4, SetTurns, EndIpAll
<1>5. CASE Opened(p, Lock(ic, x.ip, p, d), TRUE)
  <2>1. Turned(ic, Lock(ic, x.ip, p, d), x.ip, p) BY <1>2, LockTurns
  <2>2. QED BY <1>1, <1>5, <2>1, OpenedAll
<1>6. QED BY <1>3, <1>4, <1>5

\* open takes over the new inode, mkdir and mknod put it.
LEMMA CreateDoneAll == ASSUME All, NEW p \in Proc, CreateDone(p) PROVE All'
<1> DEFINE x == t[p]
<1>1. x.pc = "new" /\ leak' = leak /\ cwd' = cwd BY DEF CreateDone, At, history
<1>2. x.ip \in Slot /\ GoodCache(ic) BY <1>1, IpCached DEF IpPc
<1>3. \/ Go(p, PutIp(x, "end")) /\ ic' = Unlock(ic, x.ip) /\ of' = of
      \/ Opened(p, ic, TRUE)
  BY DEF CreateDone
<1>4. CASE Go(p, PutIp(x, "end")) /\ ic' = Unlock(ic, x.ip) /\ of' = of
  BY <1>1, <1>2, <1>4, UnlockTurns, EndIpAll
<1>5. CASE Opened(p, ic, TRUE)
  <2>1. Turned(ic, ic, x.ip, ic[x.ip].lock) BY <1>2 DEF Turned
  <2>2. QED BY <1>1, <1>5, <2>1, OpenedAll
<1>6. QED BY <1>3, <1>4, <1>5

\* link takes its count of links back and puts the inode.
LEMMA LinkBadAll == ASSUME All, NEW p \in Proc, LinkBad(p), ~halted' PROVE All'
<1>1. /\ t[p].pc = "linkbad" /\ leak' = leak /\ cwd' = cwd /\ of' = of
      /\ ic' = Set(ic, t[p].ip, Nlink(Loaded(t[p].ip), -1)) /\ Go(p, PutIp(t[p], "end"))
  BY DEF LinkBad, At, Halt, history
<1>2. t[p].ip \in Slot /\ GoodCache(ic) BY <1>1, IpCached DEF IpPc
<1>3. QED BY <1>1, <1>2, SetTurns, EndIpAll

\* unlink puts the inode whose entry it removed.
LEMMA UnlinkDoneAll == ASSUME All, NEW p \in Proc, UnlinkDone(p) PROVE All'
<1>1. /\ t[p].pc = "unlinked" /\ leak' = leak /\ cwd' = cwd /\ of' = of
      /\ ic' = Set(ic, t[p].ip, Nlink(ic[t[p].ip].d, -1)) /\ Go(p, PutIp(t[p], "end"))
  BY DEF UnlinkDone, At, history
<1>2. t[p].ip \in Slot /\ GoodCache(ic) BY <1>1, IpCached DEF IpPc
<1>3. QED BY <1>1, <1>2, SetTurns, EndIpAll

\* link puts the inode that it linked.
LEMMA LinkDoneAll == ASSUME All, NEW p \in Proc, LinkDone(p) PROVE All'
<1> DEFINE x == t[p]
           y == PutIp(x, "end")
<1>1. /\ x.pc = "linked" /\ leak' = leak /\ cwd' = cwd /\ of' = of /\ ic' = ic /\ After(p, y)
  BY DEF LinkDone, At, history, Go, After
<1>2. Even(p, y, None) BY <1>1, EndIp
<1>3. \A s \in Slot : ~Holds(x, s) BY <1>1 DEF Holds, PutPc
<1> HIDE DEF y
<1>4. QED BY <1>1, <1>2, <1>3, StillKeeps

\* chdir puts the old current directory, or what is no directory.
LEMMA ChdirAll == ASSUME All, NEW p \in Proc, Chdir(p), ~halted' PROVE All'
<1> DEFINE x == t[p]
           d == Loaded(x.ip)
           y == PutThen(x, cwd[p], "chdone")
<1>1. x.pc = "chdir" /\ leak' = leak /\ cwd' = cwd /\ of' = of BY DEF Chdir, At, Halt, history
<1>2. x.ip \in Slot /\ GoodCache(ic) BY <1>1, IpCached DEF IpPc
<1>3. ic' = Set(ic, x.ip, d) /\ (Go(p, PutIp(x, "end")) \/ Go(p, y)) BY DEF Chdir, Halt
<1> HIDE DEF d
<1>4. Turned(ic, ic', x.ip, None) BY <1>2, <1>3, SetTurns
<1>5. CASE Go(p, PutIp(x, "end")) BY <1>1, <1>4, <1>5, EndIpAll
<1>6. CASE Go(p, y)
  <2>1. x.pc \in CallPc /\ x.pc \notin Moved BY <1>1 DEF CallPc, IpPc, Moved
  <2>2. /\ x.put = None /\ x.then \notin Moved /\ Ready("chdir", x) /\ x.pc # "dead"
        /\ x \in Frame /\ \A s \in Slot : ~Holds(x, s)
    BY <1>1, <2>1, CallFacts
  <2>3. cwd[p] \in Slot /\ cwd[p] \in SlotOr /\ of' \in FileType BY <1>1, <2>2, Facts
  <2>4. "chdone" \in CallPc /\ "chdone" \in Moved BY DEF CallPc, IpPc, Moved
  <2>5. Moves(x, y, "iput", x.ip, x.dp, cwd[p], "chdone") BY <2>2, <2>3, <2>4, PutThenMoves
  <2>6. After(p, y) BY <1>6 DEF Go, After
  <2>7. Ready("chdone", y)
    BY <2>2, <2>5 DEF Moves, Ready, CallPc, IpPc, DpPc, RW, Parents
  <2>8. Sum(ic, ic', None) BY <1>4, Facts, SumTurned DEF CacheRefs
  <2>10. \A s \in Slot : ic'[s].lock \in {None, ic[s].lock} BY <1>4 DEF Turned
  <2>9. QED BY <1>1, <2>2, <2>3, <2>4, <2>6, <2>7, <2>8, <2>10, PutKeeps
<1>7. QED BY <1>3, <1>5, <1>6

\* chdir then makes its own reference that of the current directory.
LEMMA ChdirDoneAll == ASSUME All, NEW p \in Proc, ChdirDone(p) PROVE All'
<1> DEFINE x == t[p]
<1>1. /\ x.pc = "chdone" /\ ic' = ic /\ leak' = leak /\ of' = of
      /\ t' = [t EXCEPT ![p] = Idle] /\ cwd' = [cwd EXCEPT ![p] = x.ip]
  BY DEF ChdirDone, At, history
<1>2. Fit(x) /\ cwd \in [Proc -> SlotOr] /\ of \in FileType BY Facts
<1>3. x.put = None /\ Ready("chdone", x) /\ x.then = "chdone"
  BY <1>1, <1>2 DEF Fit, CallPc, IpPc, Moved
<1>4. x.ip \in Slot /\ x.dp = None /\ x.call \notin RW BY <1>3 DEF Ready, IpPc, DpPc, RW
<1>5. After(p, Idle) BY <1>1 DEF After, Idle
<1>6. /\ cwd' \in [Proc -> SlotOr] /\ cwd'[p] = x.ip /\ x.ip # None
      /\ \A q \in Proc : q # p => cwd'[q] = cwd[q]
  BY <1>1, <1>2, <1>4, SlotsDiffer
<1>7. \A s \in Slot : Held(Idle, cwd'[p], of'[p].ip, s) = Mine(p, s) + Bit(s = None)
  <2> TAKE s \in Slot
  <2>1. s # None BY SlotsDiffer
  <2>2. Idle.ip = None /\ Idle.dp = None /\ Idle.put = None /\ Idle.then \notin Moved
    BY DEF Idle, Moved
  <2>3. x.then \in Moved BY <1>3 DEF Moved
  <2> HIDE DEF Idle
  <2>4. QED BY <1>1, <1>3, <1>4, <1>6, <2>1, <2>2, <2>3 DEF Held, Mine, Bit
<1>8. \A s \in Slot : ~Holds(x, s) BY <1>1 DEF Holds, PutPc
<1>9. Sum(ic, ic', None) BY <1>1, Facts, SumSame DEF CacheRefs
<1>10. QED BY <1>1, <1>2, <1>5, <1>6, <1>7, <1>8, <1>9, IdleFits, KeptStep

-----------------------------------------------------------------------------
(* read, write. *)

\* A read or write ends, with another offset in its file.
LEMMA RwEnds ==
    ASSUME All, NEW p \in Proc, t[p].pc \in RW, Turned(ic, ic', t[p].ip, None), After(p, Idle),
           of' = of \/ \E n \in Nat : of' = [of EXCEPT ![p].off = n], leak' = leak, cwd' = cwd
    PROVE  All'
<1> DEFINE x == t[p]
<1>1. x.pc \in CallPc /\ x.pc \notin Moved /\ x.pc # "dead" BY DEF RW, CallPc, IpPc, Moved
<1>2. x.put = None /\ x.then \notin Moved /\ Ready(x.pc, x) /\ \A s \in Slot : ~Holds(x, s)
  BY <1>1, CallFacts DEF RW
<1>3. x.ip \in Slot /\ x.dp = None /\ x.call \in RW BY <1>2 DEF Ready, RW, IpPc, DpPc
<1>4. \A s \in Slot : Held(Idle, cwd[p], of[p].ip, s) = Mine(p, s) + Bit(s = None)
  <2> TAKE s \in Slot
  <2>1. s # None BY SlotsDiffer
  <2>2. Idle.ip = None /\ Idle.dp = None /\ Idle.put = None /\ Idle.then \notin Moved
    BY DEF Idle, Moved
  <2> HIDE DEF Idle
  <2>3. QED BY <1>2, <1>3, <2>1, <2>2 DEF Held, Mine, Bit
<1>5. of' \in FileType /\ \A q \in Proc : of'[q].ip = of[q].ip
  <2>1. of \in FileType BY Facts
  <2>2. ASSUME NEW n \in Nat, of' = [of EXCEPT ![p].off = n]
        PROVE  of' \in FileType /\ \A q \in Proc : of'[q].ip = of[q].ip
    BY <2>1, <2>2 DEF FileType
  <2>3. QED BY <2>1, <2>2
<1>6. Even(p, Idle, None) BY <1>4, IdleFits DEF Even
<1>7. QED BY <1>1, <1>2, <1>3, <1>5, <1>6, TurnKeeps

\* read keeps its reference to the file.
LEMMA ReadAll == ASSUME All, NEW p \in Proc, Read(p), ~halted' PROVE All'
<1> DEFINE x == t[p]
           d == Loaded(x.ip)
           off == of[p].off
           n == IF off < d.size THEN off + 1 ELSE off
<1>1. /\ x.pc = "read" /\ ic' = Set(ic, x.ip, d) /\ of' = [of EXCEPT ![p].off = n]
      /\ t' = [t EXCEPT ![p] = Idle] /\ leak' = leak /\ cwd' = cwd
  BY DEF Read, At, Halt, history
<1> HIDE DEF d
<1>2. x.ip \in Slot /\ GoodCache(ic) BY <1>1, IpCached DEF IpPc
<1>3. Turned(ic, ic', x.ip, None) BY <1>1, <1>2, SetTurns
<1>4. n \in Nat
  <2>1. off \in Nat BY Facts DEF FileType
  <2>2. QED BY <2>1
<1>5. After(p, Idle) BY <1>1 DEF After, Idle
<1> HIDE DEF n
<1>6. QED BY <1>1, <1>3, <1>4, <1>5, RwEnds DEF RW

\* So does write.
LEMMA WriteAll == ASSUME All, NEW p \in Proc, Write(p), ~halted' PROVE All'
<1> DEFINE x == t[p]
           d == Loaded(x.ip)
           n == of[p].off + x.n
<1>1. x.pc = "write" /\ leak' = leak /\ cwd' = cwd BY DEF Write, At, Halt, history
<1>2. x.ip \in Slot /\ GoodCache(ic) /\ x \in Frame BY <1>1, IpCached DEF IpPc
<1>3. n \in Nat
  <2>1. of[p].off \in Nat /\ x.n \in Nat BY <1>2, Facts DEF FileType, Frame
  <2>2. QED BY <2>1
<1>4. Go(p, Goto(x, "end")) => After(p, Idle)
  <2>1. Goto(x, "end").pc = "end"
    <3>1. "end" \in Pc BY DEF Pc, CallPc
    <3>2. QED BY <1>2, <3>1, GotoMoves DEF Moves
  <2>2. Idle.pc # "end" BY DEF Idle
  <2>3. QED BY <2>1, <2>2 DEF Go, After
<1>5. CASE TooFar(d, of[p].off, x.n)
  <2>1. ic' = Set(ic, x.ip, d) /\ Go(p, Goto(x, "end")) /\ of' = of
    BY <1>5 DEF Write, Halt, TooLong
  <2>2. Turned(ic, ic', x.ip, None) BY <1>2, <2>1, SetTurns
  <2>3. QED BY <1>1, <1>4, <2>1, <2>2, RwEnds DEF RW
<1>6. CASE ~TooFar(d, of[p].off, x.n)
  <2>1. /\ \E e : ic' = Set(ic, x.ip, e)
        /\ Go(p, Goto(x, "end")) /\ of' = [of EXCEPT ![p].off = n]
    BY <1>6 DEF Write, Halt, TooLong, WriteChunk
  <2>2. Turned(ic, ic', x.ip, None) BY <1>2, <2>1, SetTurns
  <2> HIDE DEF n
  <2>3. QED BY <1>1, <1>3, <1>4, <2>1, <2>2, RwEnds DEF RW
<1>7. QED BY <1>5, <1>6

-----------------------------------------------------------------------------
(* unlink. *)

\* An entry of the cache is taken while s is locked or has been unlocked.
LEMMA TakeTurned ==
    ASSUME All, NEW p \in Proc, NEW s \in Slot, NEW l, NEW c, Turned(ic, c, s, l), NEW i,
           Iget(c, i).got # None
    PROVE  /\ Iget(c, i).got \in Slot /\ Sum(ic, Iget(c, i).c, Iget(c, i).got)
           /\ \A x \in Slot : Iget(c, i).c[x].lock = IF x = s THEN l ELSE ic[x].lock
           /\ GoodCache(Iget(c, i).c)
<1> DEFINE g == Iget(c, i)
<1>1. CacheRefs(ic) BY Facts DEF CacheRefs
<1>2. Sum(ic, c, None) /\ CacheRefs(c) BY <1>1, SumTurned
<1>3. GoodCache(c) BY DEF Turned
<1>4. Added(c, g.c, g.got) BY <1>2, <1>3, IgetAdds DEF CacheRefs
<1>5. Sum(c, g.c, g.got) BY <1>2, <1>4, SumAdded
<1> HIDE DEF g
<1>6. Sum(ic, g.c, g.got)
  <2>1. Sum(ic, g.c, IF None = None THEN g.got ELSE None) BY <1>1, <1>2, <1>5, SumTwo
  <2>2. QED BY <2>1
<1>7. QED BY <1>4, <1>6 DEF Added, Turned, g

\* A call gives back the directory that it has, unlocked, and ends.
LEMMA EndDpAll ==
    ASSUME All, NEW p \in Proc, t[p].pc \in {"unlink", "unlinkbad"},
           Go(p, PutDp(t[p], "end")), Turned(ic, ic', t[p].dp, None),
           leak' = leak, cwd' = cwd, of' = of
    PROVE  All'
<1> DEFINE x == t[p]
           y == PutDp(x, "end")
<1>1. x.pc \in CallPc /\ x.pc \notin Moved BY DEF CallPc, DpPc, Moved
<1>2. /\ x.put = None /\ x.then \notin Moved /\ Ready(x.pc, x) /\ x.pc \notin {"drain", "dead"}
      /\ x \in Frame /\ \A s \in Slot : Holds(x, s) => s = x.dp
  BY <1>1, CallFacts
<1>3. x.dp \in Slot /\ x.ip = None /\ x.call \notin RW BY <1>2 DEF Ready, IpPc, DpPc, RW
<1>4. Moves(x, y, "iput", x.ip, None, x.dp, "end") BY <1>2, PutDpMoves DEF CallPc
<1> HIDE DEF y
<1>5. Ready("end", y)
  BY <1>2, <1>3, <1>4 DEF Ready, Moves, CallPc, IpPc, DpPc, RW, Linking
<1>6. Gets(x, y, None)
  <2>1. "end" \in CallPc /\ "end" \notin Moved BY DEF CallPc, Moved
  <2>2. QED BY <1>2, <1>3, <1>5, <2>1, PutDpGets DEF y
<1>7. After(p, y) BY DEF Go, After, y
<1>8. of' \in FileType BY Facts
<1>9. QED BY <1>2, <1>3, <1>6, <1>7, <1>8, GetsEven, TurnKeeps

\* unlink of . or of a directory in use puts both inodes.
LEMMA UnlinkBadAll == ASSUME All, NEW p \in Proc, UnlinkBad(p) PROVE All'
<1>1. /\ t[p].pc = "unlinkbad" /\ leak' = leak /\ cwd' = cwd /\ of' = of
      /\ ic' = Unlock(ic, t[p].dp) /\ Go(p, PutDp(t[p], "end"))
  BY DEF UnlinkBad, At, history
<1>2. t[p].dp \in Slot /\ GoodCache(ic)
  <2>1. t[p].pc \in CallPc /\ t[p].pc \notin Moved BY <1>1 DEF CallPc, DpPc, Moved
  <2>2. QED BY <1>1, <2>1, CallFacts, Facts DEF Ready, DpPc
<1>3. QED BY <1>1, <1>2, UnlockTurns, EndDpAll

\* What a call has that has a directory, and perhaps an inode.
LEMMA DpFacts ==
    ASSUME All, NEW p \in Proc, t[p].pc \in DpPc
    PROVE  /\ t[p] \in Frame /\ t[p].put = None /\ t[p].then \notin Moved /\ t[p].dp \in Slot
           /\ t[p].call \notin RW /\ t[p].pc \notin {"drain", "dead"} /\ Ready(t[p].pc, t[p])
           /\ GoodCache(ic)
           /\ \A s \in Slot : Holds(t[p], s) =>
                 t[p].pc \in {"unlinkip", "unlinkbad", "created"} /\ s = t[p].dp
<1>1. t[p].pc \in CallPc /\ t[p].pc \notin Moved BY DEF CallPc, DpPc, Moved
<1>2. /\ t[p].put = None /\ t[p].then \notin Moved /\ Ready(t[p].pc, t[p])
      /\ t[p].pc \notin {"drain", "dead"} /\ t[p] \in Frame
      /\ \A s \in Slot : Holds(t[p], s) =>
            t[p].pc \in {"unlinkip", "unlinkbad", "created"} /\ s = t[p].dp
  BY <1>1, CallFacts DEF DpPc
<1>3. t[p].dp \in Slot /\ t[p].call \notin RW BY <1>2 DEF Ready, DpPc, RW
<1>4. QED BY <1>2, <1>3, Facts

\* A call with a locked directory takes another inode.
LEMMA TakeNext ==
    ASSUME All, NEW p \in Proc, t[p].pc \in {"unlink", "create"}, NEW l \in {"unlinkip", "created"},
           NEW c, Turned(ic, c, t[p].dp, p), NEW i, Iget(c, i).got # None, ic' = Iget(c, i).c,
           Go(p, [t[p] EXCEPT !.pc = l, !.ip = Iget(c, i).got]),
           leak' = leak, cwd' = cwd, of' = of
    PROVE  All'
<1> DEFINE x == t[p]
           k == Iget(c, i).got
           a == [x EXCEPT !.pc = l]
           y == [a EXCEPT !.ip = k]
<1>1. /\ x \in Frame /\ x.put = None /\ x.then \notin Moved /\ x.dp \in Slot
      /\ x.call \notin RW /\ x.pc \notin {"drain", "dead"} /\ Ready(x.pc, x)
      /\ \A s \in Slot : ~Holds(x, s)
  BY DpFacts DEF DpPc
<1>2. /\ k \in Slot /\ Sum(ic, ic', k)
      /\ \A s \in Slot : ic'[s].lock = IF s = x.dp THEN p ELSE ic[s].lock
  BY <1>1, TakeTurned
<1>3. Go(p, y) OBVIOUS
<1> HIDE DEF k
<1>4. x.ip = None BY <1>1 DEF Ready, IpPc, RW
<1>5. Moves(x, a, l, None, x.dp, None, x.then)
  <2>1. l \in Pc BY DEF Pc, CallPc, DpPc
  <2>2. QED BY <1>1, <1>4, <2>1, GotoMoves DEF Goto
<1> HIDE DEF a
<1>6. Moves(x, y, l, k, x.dp, None, x.then) BY <1>2, <1>5, SlotsDiffer DEF Moves, Frame
<1> HIDE DEF y
<1>7. Ready(l, y)
  BY <1>1, <1>2, <1>6 DEF Ready, Moves, CallPc, IpPc, DpPc, RW, Linking, Parents
<1>8. Fit(y) BY <1>1, <1>6, <1>7, FitCall DEF Moves, CallPc, DpPc, Moved
<1>9. ASSUME NEW o, NEW w, NEW s \in Slot PROVE Held(y, o, w, s) = Held(x, o, w, s) + Bit(s = k)
  BY <1>1, <1>2, <1>4, <1>6, SlotsDiffer DEF Held, Bit, Moves
<1>10. Even(p, y, k) BY <1>8, <1>9, GetsEven DEF Gets
<1>11. \A s \in Slot : \/ ic'[s].lock = p /\ Holds(y, s)
                       \/ ic'[s].lock = ic[s].lock /\ (Holds(x, s) => Holds(y, s))
  <2>1. Holds(y, x.dp) BY <1>6 DEF Holds, Moves, PutPc
  <2>2. QED BY <1>1, <1>2, <2>1
<1>12. After(p, y) BY <1>3 DEF Go, After
<1>13. QED BY <1>1, <1>2, <1>10, <1>11, <1>12, KeptPlain DEF Even

\* unlink gets the inode of the entry while it has the directory locked.
LEMMA UnlinkAll == ASSUME All, NEW p \in Proc, Unlink(p), ~halted' PROVE All'
<1> DEFINE x == t[p]
           d == Loaded(x.dp)
           name == Head(x.e)
           i == InumOf(fs, d, name)
           c == Lock(ic, x.dp, p, d)
<1>1. x.pc = "unlink" /\ leak' = leak /\ cwd' = cwd /\ of' = of BY DEF Unlink, At, Halt, history
<1>2. x.dp \in Slot /\ GoodCache(ic) BY <1>1, DpFacts DEF DpPc
<1>3. \/ Go(p, PutDp(x, "end")) /\ ic' = Set(ic, x.dp, d)
      \/ /\ Iget(c, i).got # None /\ ic' = Iget(c, i).c
         /\ Go(p, [x EXCEPT !.pc = "unlinkip", !.ip = Iget(c, i).got])
  BY DEF Unlink, Halt
<1> HIDE DEF d, i
<1>4. CASE Go(p, PutDp(x, "end")) /\ ic' = Set(ic, x.dp, d)
  BY <1>1, <1>2, <1>4, SetTurns, EndDpAll
<1>5. CASE /\ Iget(c, i).got # None /\ ic' = Iget(c, i).c
           /\ Go(p, [x EXCEPT !.pc = "unlinkip", !.ip = Iget(c, i).got])
  <2>1. Turned(ic, c, x.dp, p) BY <1>2, LockTurns
  <2> HIDE DEF c
  <2>2. QED BY <1>1, <1>5, <2>1, TakeNext
<1>6. QED BY <1>3, <1>4, <1>5

\* The inode is locked, the directory changed and given back; the call keeps the
\* inode locked.
LEMMA KeepIp ==
    ASSUME All, NEW p \in Proc, t[p].pc \in {"unlinkip", "created"}, NEW l \in {"unlinked", "new"},
           NEW d, NEW e, ic' = Set(Lock(ic, t[p].ip, p, d), t[p].dp, e), Go(p, PutDp(t[p], l)),
           leak' = leak, cwd' = cwd, of' = of
    PROVE  All'
<1> DEFINE x == t[p]
           y == PutDp(x, l)
           c == Lock(ic, x.ip, p, d)
<1>1. /\ x \in Frame /\ x.put = None /\ x.then \notin Moved /\ x.dp \in Slot /\ GoodCache(ic)
      /\ x.call \notin RW /\ x.pc \notin {"drain", "dead"} /\ Ready(x.pc, x)
      /\ \A s \in Slot : Holds(x, s) => s = x.dp
  BY DpFacts DEF DpPc
<1>2. x.ip \in Slot BY <1>1 DEF Ready, IpPc
<1>3. l \in CallPc /\ l \notin Moved BY DEF CallPc, IpPc, Moved
<1>4. Moves(x, y, "iput", x.ip, None, x.dp, l) BY <1>1, <1>3, PutDpMoves
<1> HIDE DEF y
<1>5. Ready(l, y)
  BY <1>1, <1>2, <1>3, <1>4 DEF Ready, Moves, IpPc, DpPc, RW, Linking
<1>6. Even(p, y, None)
  <2>1. Gets(x, y, None) BY <1>1, <1>3, <1>5, PutDpGets DEF y
  <2>2. QED BY <2>1, GetsEven
<1>7. After(p, y) BY DEF Go, After, y
<1>8. Turned(ic, c, x.ip, p) BY <1>1, <1>2, LockTurns
<1>9. Turned(c, ic', x.dp, None) BY <1>1, <1>8, SetTurns DEF Turned
<1> HIDE DEF c
<1>10. Sum(ic, ic', None)
  <2>1. CacheRefs(ic) BY Facts DEF CacheRefs
  <2>2. Sum(ic, c, None) /\ CacheRefs(c) BY <1>8, <2>1, SumTurned
  <2>3. Sum(c, ic', None) BY <1>9, <2>2, SumTurned
  <2>4. Sum(ic, ic', IF None = None THEN None ELSE None) BY <2>1, <2>2, <2>3, SumTwo
  <2>5. QED BY <2>4
<1>11. \A s \in Slot : \/ ic'[s].lock = None
                       \/ ic'[s].lock = p /\ Holds(y, s)
                       \/ ic'[s].lock = ic[s].lock /\ (Holds(x, s) => Holds(y, s))
  <2>1. Holds(y, x.ip) BY <1>4 DEF Holds, Moves, PutPc
  <2>2. QED BY <1>1, <1>8, <1>9, <2>1 DEF Turned
<1>12. QED BY <1>1, <1>6, <1>7, <1>10, <1>11, KeptPlain DEF Even

\* unlink puts the directory and keeps the inode locked.
LEMMA UnlinkIpAll == ASSUME All, NEW p \in Proc, UnlinkIp(p), ~halted' PROVE All'
<1> DEFINE x == t[p]
           y == PutIp(x, "unlinkbad")
           d == Loaded(x.ip)
<1>1. x.pc = "unlinkip" /\ leak' = leak /\ cwd' = cwd /\ of' = of
  BY DEF UnlinkIp, At, Halt, history
<1>2. /\ x \in Frame /\ x.put = None /\ x.then \notin Moved /\ x.dp \in Slot /\ GoodCache(ic)
      /\ x.call \notin RW /\ x.pc \notin {"drain", "dead"} /\ Ready(x.pc, x)
      /\ \A s \in Slot : Holds(x, s) => s = x.dp
  BY <1>1, DpFacts DEF DpPc
<1>3. x.ip \in Slot BY <1>1, <1>2 DEF Ready, IpPc
<1>4. \/ ic' = Set(ic, x.ip, d) /\ Go(p, y)
      \/ \E e : ic' = Set(Lock(ic, x.ip, p, d), x.dp, e) /\ Go(p, PutDp(x, "unlinked"))
  BY DEF UnlinkIp, Halt
<1> HIDE DEF d
<1>5. CASE ic' = Set(ic, x.ip, d) /\ Go(p, y)
  <2>1. "unlinkbad" \in CallPc /\ "unlinkbad" \notin Moved BY DEF CallPc, DpPc, Moved
  <2>2. Moves(x, y, "iput", None, x.dp, x.ip, "unlinkbad") BY <1>2, <2>1, PutIpMoves
  <2> HIDE DEF y
  <2>3. Ready("unlinkbad", y)
    BY <1>1, <1>2, <2>1, <2>2 DEF Ready, Moves, IpPc, DpPc, RW, Linking
  <2>4. Even(p, y, None)
    <3>1. Gets(x, y, None) BY <1>2, <1>3, <2>1, <2>3, PutIpGets DEF y
    <3>2. QED BY <3>1, GetsEven
  <2>5. After(p, y) BY <1>5 DEF Go, After, y
  <2>6. Turned(ic, ic', x.ip, None) BY <1>2, <1>3, <1>5, SetTurns
  <2>7. \A s \in Slot : Holds(x, s) => Holds(y, s)
    BY <1>2, <2>2 DEF Holds, Moves, PutPc
  <2>8. of' \in FileType BY <1>1, Facts
  <2>9. QED BY <1>1, <1>2, <1>3, <2>4, <2>5, <2>6, <2>7, <2>8, TurnKeeps
<1>6. ASSUME NEW e, ic' = Set(Lock(ic, x.ip, p, d), x.dp, e), Go(p, PutDp(x, "unlinked"))
      PROVE  All'
  BY <1>1, <1>6, KeepIp
<1>7. QED BY <1>4, <1>5, <1>6

\* create puts the directory and keeps the new inode locked.
LEMMA CreatedAll == ASSUME All, NEW p \in Proc, Created(p), ~halted' PROVE All'
<1>1. /\ t[p].pc = "created" /\ leak' = leak /\ cwd' = cwd /\ of' = of
      /\ \E d, e : ic' = Set(Lock(ic, t[p].ip, p, d), t[p].dp, e)
      /\ Go(p, PutDp(t[p], "new"))
  BY DEF Created, At, Halt, history
<1>2. QED BY <1>1, KeepIp

\* link adds the entry, and puts the directory.
LEMMA LinkDirAll == ASSUME All, NEW p \in Proc, LinkDir(p), ~halted' PROVE All'
<1> DEFINE x == t[p]
<1>1. /\ x.pc = "linkdir" /\ leak' = leak /\ cwd' = cwd /\ of' = of
      /\ \E d : ic' = Set(ic, x.dp, d)
      /\ \E l \in {"linkbad", "linked"} : Go(p, PutDp(x, l))
  BY DEF LinkDir, At, Halt, history
<1>2. /\ x \in Frame /\ x.put = None /\ x.then \notin Moved /\ x.dp \in Slot /\ GoodCache(ic)
      /\ x.call \notin RW /\ x.pc \notin {"drain", "dead"} /\ Ready(x.pc, x)
      /\ \A s \in Slot : ~Holds(x, s)
  BY <1>1, DpFacts DEF DpPc
<1>3. x.ip \in Slot /\ x.call = "link" BY <1>1, <1>2 DEF Ready, IpPc
<1>4. PICK l \in {"linkbad", "linked"} : Go(p, PutDp(x, l)) BY <1>1
<1> DEFINE y == PutDp(x, l)
<1>5. l \in CallPc /\ l \notin Moved BY DEF CallPc, IpPc, Moved
<1>6. Moves(x, y, "iput", x.ip, None, x.dp, l) BY <1>2, <1>5, PutDpMoves
<1> HIDE DEF y
<1>7. Ready(l, y)
  BY <1>2, <1>3, <1>5, <1>6 DEF Ready, Moves, IpPc, DpPc, RW, Linking
<1>8. Even(p, y, None)
  <2>1. Gets(x, y, None) BY <1>2, <1>5, <1>7, PutDpGets DEF y
  <2>2. QED BY <2>1, GetsEven
<1>9. After(p, y) BY <1>4 DEF Go, After, y
<1>10. Turned(ic, ic', x.dp, None) BY <1>1, <1>2, SetTurns
<1>11. of' \in FileType BY <1>1, Facts
<1>12. QED BY <1>1, <1>2, <1>8, <1>9, <1>10, <1>11, TurnKeeps

-----------------------------------------------------------------------------
(* create, link. *)

\* create looks up the name; it gets what is there, or a new inode.
LEMMA CreateAll == ASSUME All, NEW p \in Proc, Create(p), ~halted' PROVE All'
<1> DEFINE x == t[p]
           d == Loaded(x.dp)
           c == Lock(ic, x.dp, p, d)
           i == InumOf(fs, d, Head(x.e))
           S == {j \in Inum : fs.di[j].type = "none"}
           m == Min(S)
           k == Iget(c, i).got
<1>1. x.pc = "create" /\ leak' = leak /\ cwd' = cwd /\ of' = of BY DEF Create, At, Halt, history
<1>2. /\ x \in Frame /\ x.put = None /\ x.then \notin Moved /\ x.dp \in Slot /\ GoodCache(ic)
      /\ x.call \notin RW /\ x.pc \notin {"drain", "dead"} /\ Ready(x.pc, x)
      /\ \A s \in Slot : ~Holds(x, s)
  BY <1>1, DpFacts DEF DpPc
<1>3. x.ip = None BY <1>1, <1>2 DEF Ready, IpPc, RW
<1>4. \/ /\ k # None /\ ic' = Unlock(Iget(c, i).c, x.dp)
         /\ Go(p, PutDp([x EXCEPT !.ip = k], "exists"))
      \/ /\ Iget(c, m).got # None /\ ic' = Iget(c, m).c
         /\ Go(p, [x EXCEPT !.pc = "created", !.ip = Iget(c, m).got])
  BY DEF Create, Halt
<1>5. Turned(ic, c, x.dp, p) BY <1>2, LockTurns
<1> HIDE DEF d, c, i, m
<1>6. CASE /\ k # None /\ ic' = Unlock(Iget(c, i).c, x.dp)
           /\ Go(p, PutDp([x EXCEPT !.ip = k], "exists"))
  <2> DEFINE a == [x EXCEPT !.ip = k]
             y == PutDp(a, "exists")
             h == Iget(c, i).c
  <2>1. /\ k \in Slot /\ Sum(ic, h, k) /\ GoodCache(h)
        /\ \A s \in Slot : h[s].lock = IF s = x.dp THEN p ELSE ic[s].lock
    BY <1>2, <1>5, <1>6, TakeTurned
  <2>2. ic' = Unlock(h, x.dp) /\ Go(p, y) BY <1>6
  <2> HIDE DEF k, h
  <2>3. Moves(x, a, x.pc, k, x.dp, None, x.then)
    BY <1>2, <2>1, SlotsDiffer DEF Moves, Frame
  <2>4. ASSUME NEW o, NEW w, NEW s \in Slot PROVE Held(a, o, w, s) = Held(x, o, w, s) + Bit(s = k)
    BY <1>2, <1>3, <2>1, <2>3, SlotsDiffer DEF Held, Bit, Moves
  <2> HIDE DEF a
  <2>5. "exists" \in CallPc /\ "exists" \notin Moved BY DEF CallPc, IpPc, Moved
  <2>6. a \in Frame /\ a.dp \in Slot /\ a.put = None /\ a.then \notin Moved /\ a.pc # "drain"
    BY <1>2, <2>3 DEF Moves
  <2>7. Moves(a, y, "iput", a.ip, None, a.dp, "exists") BY <2>5, <2>6, PutDpMoves
  <2> HIDE DEF y
  <2>8. Ready("exists", y)
    BY <1>1, <1>2, <2>1, <2>3, <2>5, <2>7 DEF Ready, Moves, IpPc, DpPc, RW, Linking, Parents
  <2>9. Gets(a, y, None) BY <2>5, <2>6, <2>8, PutDpGets DEF y
  <2>10. Even(p, y, k)
    <3>1. Fit(y) BY <2>9 DEF Gets
    <3>2. ASSUME NEW s \in Slot PROVE Held(y, cwd[p], of[p].ip, s) = Mine(p, s) + Bit(s = k)
      <4>1. Held(y, cwd[p], of[p].ip, s) = Held(a, cwd[p], of[p].ip, s) + Bit(s = None)
        BY <2>9 DEF Gets
      <4>2. Held(a, cwd[p], of[p].ip, s) = Mine(p, s) + Bit(s = k) BY <2>4 DEF Mine
      <4>3. Bit(s = None) = 0 /\ Bit(s = k) \in Nat BY SlotsDiffer DEF Bit
      <4>4. Mine(p, s) \in Nat BY Facts
      <4>5. QED BY <4>1, <4>2, <4>3, <4>4
    <3>3. QED BY <3>1, <3>2 DEF Even
  <2>11. Turned(h, ic', x.dp, None) BY <1>2, <2>1, <2>2, UnlockTurns
  <2>12. Sum(ic, ic', k)
    <3>1. CacheRefs(ic) BY Facts DEF CacheRefs
    <3>2. CacheRefs(h) BY <2>1, <3>1 DEF Sum, CacheRefs, Bit
    <3>3. Sum(h, ic', None) BY <2>11, <3>2, SumTurned
    <3>4. Sum(ic, ic', IF k = None THEN None ELSE k) BY <2>1, <3>1, <3>3, SumTwo
    <3>5. QED BY <2>1, <3>4, SlotsDiffer
  <2>13. \A s \in Slot : \/ ic'[s].lock = None
                         \/ ic'[s].lock = ic[s].lock /\ (Holds(x, s) => Holds(y, s))
    BY <1>2, <2>1, <2>11 DEF Turned
  <2>14. After(p, y) BY <2>2 DEF Go, After
  <2>15. QED BY <1>1, <1>2, <2>10, <2>12, <2>13, <2>14, KeptPlain DEF Even
<1>7. CASE /\ Iget(c, m).got # None /\ ic' = Iget(c, m).c
           /\ Go(p, [x EXCEPT !.pc = "created", !.ip = Iget(c, m).got])
  BY <1>1, <1>5, <1>7, TakeNext
<1>8. QED BY <1>4, <1>6, <1>7

\* link raises nlink and walks to the second path.
LEMMA LinkAll == ASSUME All, NEW p \in Proc, Link(p), ~halted' PROVE All'
<1> DEFINE x == t[p]
           d == Loaded(x.ip)
           n == Nlink(d, 1)
           c == Set(ic, x.ip, n)
           a1 == [x EXCEPT !.abs = x.e2.abs]
           a2 == [a1 EXCEPT !.e = x.e2.e]
           a == [a2 EXCEPT !.par = TRUE]
           r == Namex(p, a, c)
<1>1. x.pc = "link" /\ leak' = leak /\ cwd' = cwd /\ of' = of BY DEF Link, At, Halt, history
<1>2. x.ip \in Slot /\ GoodCache(ic) /\ x \in Frame BY <1>1, IpCached DEF IpPc
<1>3. /\ x.put = None /\ x.then \notin Moved /\ Ready("link", x) /\ x.pc # "dead"
      /\ \A s \in Slot : ~Holds(x, s)
  <2>1. x.pc \in CallPc /\ x.pc \notin Moved BY <1>1 DEF CallPc, IpPc, Moved
  <2>2. QED BY <1>1, <2>1, CallFacts
<1>4. x.dp = None /\ x.call = "link" BY <1>3 DEF Ready, DpPc
<1>5. a = [x EXCEPT !.abs = x.e2.abs, !.e = x.e2.e, !.par = TRUE] OBVIOUS
<1>6. \/ Go(p, PutIp(x, "end")) /\ ic' = Set(ic, x.ip, d)
      \/ r.ok /\ ic' = r.c /\ Go(p, r.x)
  BY <1>5 DEF Link, Halt
<1> HIDE DEF d
<1>7. CASE Go(p, PutIp(x, "end")) /\ ic' = Set(ic, x.ip, d)
  BY <1>1, <1>2, <1>7, SetTurns, EndIpAll
<1>8. CASE r.ok /\ ic' = r.c /\ Go(p, r.x)
  <2> HIDE DEF n
  <2>1. Turned(ic, c, x.ip, None) BY <1>2, SetTurns
  <2> HIDE DEF c
  <2>2. CacheRefs(ic) BY Facts DEF CacheRefs
  <2>3. Sum(ic, c, None) /\ CacheRefs(c) /\ GoodCache(c)
    <3>1. Sum(ic, c, None) /\ CacheRefs(c) BY <2>1, <2>2, SumTurned
    <3>2. QED BY <2>1, <3>1 DEF Turned
  <2> DEFINE Same(z) == /\ z \in Frame /\ z.pc = "link" /\ z.ip = x.ip /\ z.dp = None
                        /\ z.put = None /\ z.then = x.then /\ z.call = "link"
  <2>4. x.e2 \in PathRec BY <1>2 DEF Frame
  <2>5. Same(a1) BY <1>1, <1>2, <1>3, <1>4, <2>4 DEF Frame, PathRec
  <2> HIDE DEF a1
  <2>6. Same(a2) BY <2>4, <2>5 DEF Frame, PathRec
  <2> HIDE DEF a2
  <2>7. Same(a) /\ a.par BY <2>6 DEF Frame
  <2> HIDE DEF a
  <2>8. PathFrame(a) BY <1>2, <1>3, <2>7 DEF PathFrame, PathCall, Linking, RW, Parents
  <2>9. cwd[p] \in Slot /\ c[cwd[p]].ref > 0
    <3>1. cwd[p] \in Slot /\ ic[cwd[p]].ref > 0 BY <1>3, CwdHeld
    <3>2. QED BY <2>1, <3>1 DEF Turned
  <2>10. PICK k : Took(p, a, c, r.x, r.c, k) BY <1>8, <2>3, <2>7, <2>8, <2>9, NamexTakes
  <2> DEFINE y == r.x
  <2>11. Fit(y) /\ Go(p, y) /\ k \in Slot BY <1>8, <2>10 DEF Took
  <2>12. \A s \in Slot : Held(y, cwd[p], of[p].ip, s) = Mine(p, s) + Bit(s = k)
    <3> TAKE s \in Slot
    <3>1. Held(y, cwd[p], of[p].ip, s) = Held(a, cwd[p], of[p].ip, s) + Bit(s = k)
      BY <2>10 DEF Took
    <3>2. Held(a, cwd[p], of[p].ip, s) = Mine(p, s)
      BY <1>1, <1>3, <1>4, <2>7 DEF Held, Mine
    <3>3. QED BY <3>1, <3>2
  <2>13. Sum(ic, ic', k)
    <3>1. Sum(c, ic', k) BY <1>8, <2>10 DEF Took
    <3>2. Sum(ic, ic', IF None = None THEN k ELSE None) BY <2>2, <2>3, <3>1, SumTwo
    <3>3. QED BY <3>2
  <2>14. \A s \in Slot : \/ ic'[s].lock = None
                         \/ ic'[s].lock = ic[s].lock /\ (Holds(x, s) => Holds(y, s))
    BY <1>3, <1>8, <2>1, <2>10 DEF Turned, Took
  <2>15. After(p, y) BY <2>11 DEF Go, After
  <2> HIDE DEF y
  <2>16. QED BY <1>1, <1>3, <2>11, <2>12, <2>13, <2>14, <2>15, KeptPlain
<1>9. QED BY <1>6, <1>7, <1>8

-----------------------------------------------------------------------------
(* One element of namex. *)

\* The call goes on with the directory that it has looked at.
LEMMA WalkOn ==
    ASSUME All, NEW p \in Proc, t[p].pc = "walk", NEW y, Even(p, y, None), y.pc # "end",
           Go(p, y), Turned(ic, ic', t[p].dp, None), leak' = leak, cwd' = cwd, of' = of
    PROVE  All'
<1>1. t[p].dp \in Slot /\ t[p].pc # "dead" /\ \A s \in Slot : ~Holds(t[p], s)
  BY DpFacts DEF DpPc
<1>2. After(p, y) BY DEF Go, After
<1>3. of' \in FileType BY Facts
<1>4. QED BY <1>1, <1>2, <1>3, TurnKeeps

\* The call goes on with one more entry.
LEMMA WalkTakes ==
    ASSUME All, NEW p \in Proc, t[p].pc = "walk", NEW c, Turned(ic, c, t[p].dp, None), NEW i,
           NEW k, k = Iget(c, i).got, k # None, ic' = Iget(c, i).c,
           NEW y, Even(p, y, k), After(p, y), leak' = leak, cwd' = cwd, of' = of
    PROVE  All'
<1>1. t[p].dp \in Slot /\ t[p].pc # "dead" /\ \A s \in Slot : ~Holds(t[p], s)
  BY DpFacts DEF DpPc
<1>2. /\ Sum(ic, ic', k)
      /\ \A s \in Slot : ic'[s].lock = IF s = t[p].dp THEN None ELSE ic[s].lock
  BY <1>1, TakeTurned
<1>3. After(p, y) OBVIOUS
<1>4. \A s \in Slot : \/ ic'[s].lock = None
                      \/ ic'[s].lock = ic[s].lock /\ (Holds(t[p], s) => Holds(y, s))
  BY <1>1, <1>2
<1>5. QED BY <1>1, <1>2, <1>3, <1>4, KeptPlain DEF Even

\* An element of namex: the next inode is had before the last is put.
LEMMA WalkAll == ASSUME All, NEW p \in Proc, Walk(p), ~halted' PROVE All'
<1> DEFINE x == t[p]
           d == Loaded(x.dp)
           c == Set(ic, x.dp, d)
           i == InumOf(fs, d, Head(x.e))
           k == Iget(c, i).got
           a == [x EXCEPT !.e = Tail(@)]
<1>1. x.pc = "walk" /\ leak' = leak /\ cwd' = cwd /\ of' = of BY DEF Walk, At, Halt, history
<1>2. /\ x \in Frame /\ x.put = None /\ x.then \notin Moved /\ x.dp \in Slot /\ GoodCache(ic)
      /\ x.call \notin RW /\ x.pc \notin {"drain", "dead"} /\ Ready("walk", x)
      /\ \A s \in Slot : ~Holds(x, s)
  BY <1>1, DpFacts DEF DpPc
<1>3. /\ x.e # <<>> /\ PathCall(x)
      /\ IF Linking(x) THEN x.ip \in Slot ELSE x.ip = None
  BY <1>2 DEF Ready, PathCall, IpPc, RW
<1>4. \/ ic' = c /\ x.par /\ Go(p, Arrived(x, x.dp))
      \/ ic' = c /\ Go(p, PutDp(x, NamexFails(x)))
      \/ /\ k # None /\ ic' = Iget(c, i).c /\ ~(x.par /\ Len(x.e) = 1)
         /\ Go(p, IF a.e = <<>> THEN PutDp([a EXCEPT !.ip = k], AfterNamex(x))
                  ELSE [PutThen(a, x.dp, "walk") EXCEPT !.dp = k])
  BY DEF Walk, Halt
<1>5. Turned(ic, c, x.dp, None) BY <1>2, SetTurns
<1> HIDE DEF d, c, i
<1>6. CASE ic' = c /\ x.par /\ Go(p, Arrived(x, x.dp))
  <2> DEFINE l == AfterNamex(x)
             b == [x EXCEPT !.pc = l]
             y == [b EXCEPT !.dp = x.dp]
  <2>1. Go(p, y) BY <1>6 DEF Arrived
  <2>2. /\ l \in {"create", "unlink", "linkdir"}
        /\ l = "linkdir" => x.call = "link"
        /\ l \in {"create", "unlink"} => x.call \in Parents
    BY <1>3, <1>6, NamexPlaces
  <2> HIDE DEF l
  <2>3. Moves(x, b, l, x.ip, x.dp, None, x.then)
    <3>1. l \in Pc BY <2>2 DEF Pc, CallPc, DpPc
    <3>2. QED BY <1>2, <3>1, GotoMoves DEF Goto
  <2> HIDE DEF b
  <2>4. Moves(x, y, l, x.ip, x.dp, None, x.then) BY <1>2, <2>3 DEF Moves, Frame
  <2> HIDE DEF y
  <2>5. Ready(l, y)
    BY <1>2, <1>3, <1>6, <2>2, <2>4
       DEF Ready, Moves, CallPc, IpPc, DpPc, RW, Linking, Parents, PathCall
  <2>6. Fit(y) BY <1>2, <2>2, <2>4, <2>5, FitCall DEF Moves, CallPc, DpPc, Moved
  <2>7. ASSUME NEW o, NEW w, NEW s \in Slot PROVE Held(y, o, w, s) = Held(x, o, w, s) + Bit(s = None)
    BY <1>2, <2>2, <2>4, SlotsDiffer DEF Held, Bit, Moves
  <2>8. Even(p, y, None) BY <2>6, <2>7, GetsEven DEF Gets
  <2>9. y.pc # "end" BY <2>2, <2>4 DEF Moves
  <2>10. QED BY <1>1, <1>5, <1>6, <2>1, <2>8, <2>9, WalkOn
<1>7. CASE ic' = c /\ Go(p, PutDp(x, NamexFails(x)))
  <2> DEFINE l == NamexFails(x)
             y == PutDp(x, l)
  <2>1. l = IF Linking(x) THEN "linkbad" ELSE "end" BY <1>3, NamexPlaces
  <2> HIDE DEF l
  <2>2. l \in CallPc /\ l \notin Moved BY <2>1 DEF CallPc, IpPc, Moved
  <2>3. Moves(x, y, "iput", x.ip, None, x.dp, l) BY <1>2, <2>2, PutDpMoves
  <2>4. Go(p, y) BY <1>7 DEF l
  <2> HIDE DEF y
  <2>5. Ready(l, y)
    BY <1>2, <1>3, <2>1, <2>2, <2>3 DEF Ready, Moves, CallPc, IpPc, DpPc, RW, Linking
  <2>6. Even(p, y, None)
    <3>1. Gets(x, y, None) BY <1>2, <2>2, <2>5, PutDpGets DEF y
    <3>2. QED BY <3>1, GetsEven
  <2>7. y.pc # "end" BY <2>3 DEF Moves
  <2>8. QED BY <1>1, <1>5, <1>7, <2>4, <2>6, <2>7, WalkOn
<1>8. CASE /\ k # None /\ ic' = Iget(c, i).c /\ ~(x.par /\ Len(x.e) = 1)
           /\ Go(p, IF a.e = <<>> THEN PutDp([a EXCEPT !.ip = k], AfterNamex(x))
                    ELSE [PutThen(a, x.dp, "walk") EXCEPT !.dp = k])
  <2>1. k \in Slot /\ k \in SlotOr BY <1>2, <1>5, <1>8, TakeTurned, SlotsDiffer
  <2>2. x.e \in Seq(STRING) /\ Tail(x.e) \in Seq(STRING) /\ (Tail(x.e) = <<>> => Len(x.e) = 1)
    <3>1. x.e \in Seq(STRING) BY <1>2 DEF Frame
    <3>2. x.e # <<>> BY <1>3
    <3> DEFINE e == x.e
    <3> HIDE DEF e, x
    <3>3. e \in Seq(STRING) /\ e # <<>> BY <3>1, <3>2 DEF e
    <3>4. Tail(e) \in Seq(STRING) BY ONLY <3>3
    <3>5. Len(e) \in Nat /\ Len(Tail(e)) = Len(e) - 1 BY ONLY <3>3
    <3>6. ASSUME Tail(e) = <<>> PROVE Len(e) = 1
      <4>1. Len(Tail(e)) = 0
        <5>1. Len(<<>>) = 0 OBVIOUS
        <5>2. QED BY ONLY <3>6, <5>1, Zenon
      <4>2. QED BY ONLY <3>5, <4>1
    <3>7. QED BY <3>1, <3>4, <3>6 DEF e
  <2> DEFINE Same(z, ip, dp, put, then, l) ==
                 /\ z \in Frame /\ z.pc = l /\ z.ip = ip /\ z.dp = dp /\ z.put = put
                 /\ z.then = then /\ z.call = x.call /\ z.par = x.par /\ z.e = Tail(x.e)
  <2>3. Same(a, x.ip, x.dp, None, x.then, "walk") BY <1>1, <1>2, <2>2 DEF Frame
  <2> HIDE DEF a
  <2>4. CASE a.e = <<>>
    <3> DEFINE b == [a EXCEPT !.ip = k]
               l == AfterNamex(x)
               y == PutDp(b, l)
    <3>1. Go(p, y) BY <1>8, <2>4
    <3>2. ~x.par /\ x.ip = None BY <1>3, <1>8, <2>2, <2>3, <2>4 DEF Linking
    <3>3. l \in {"open", "chdir", "link"} /\ (l = "chdir" <=> x.call = "chdir")
          /\ (l = "link" <=> x.call = "link")
      BY <1>3, <3>2, NamexPlaces
    <3> HIDE DEF k, l
    <3>4. Same(b, k, x.dp, None, x.then, "walk") BY <2>1, <2>3 DEF Frame
    <3> HIDE DEF b
    <3>5. ASSUME NEW o, NEW w, NEW s \in Slot PROVE Held(b, o, w, s) = Held(x, o, w, s) + Bit(s = k)
      BY <1>1, <1>2, <2>1, <3>2, <3>4, SlotsDiffer DEF Held, Bit
    <3>6. l \in CallPc /\ l \notin Moved BY <3>3 DEF CallPc, IpPc, Moved
    <3>7. Moves(b, y, "iput", k, None, x.dp, l) BY <3>4, <3>6, PutDpMoves
    <3> HIDE DEF y
    <3>8. Ready(l, y)
      BY <1>2, <1>3, <2>1, <3>2, <3>3, <3>4, <3>6, <3>7
         DEF Ready, Moves, IpPc, DpPc, RW, Linking, Parents, PathCall
    <3>9. Gets(b, y, None) BY <1>2, <3>4, <3>6, <3>8, PutDpGets DEF y
    <3>10. Even(p, y, k)
      <4>1. Fit(y) BY <3>9 DEF Gets
      <4>2. ASSUME NEW s \in Slot PROVE Held(y, cwd[p], of[p].ip, s) = Mine(p, s) + Bit(s = k)
        <5>1. Held(y, cwd[p], of[p].ip, s) = Held(b, cwd[p], of[p].ip, s) + Bit(s = None)
          BY <3>9 DEF Gets
        <5>2. Held(b, cwd[p], of[p].ip, s) = Mine(p, s) + Bit(s = k) BY <3>5 DEF Mine
        <5>3. Bit(s = None) = 0 /\ Bit(s = k) \in Nat BY SlotsDiffer DEF Bit
        <5>4. Mine(p, s) \in Nat BY Facts
        <5>5. QED BY <5>1, <5>2, <5>3, <5>4
      <4>3. QED BY <4>1, <4>2 DEF Even
    <3>11. k = Iget(c, i).got /\ k # None /\ ic' = Iget(c, i).c BY <1>8 DEF k
    <3>12. After(p, y) BY <3>1 DEF Go, After
    <3>13. QED BY <1>1, <1>5, <3>10, <3>11, <3>12, WalkTakes
  <2>5. CASE a.e # <<>>
    <3> DEFINE b == PutThen(a, x.dp, "walk")
               y == [b EXCEPT !.dp = k]
    <3>1. Go(p, y) BY <1>8, <2>5
    <3> HIDE DEF k
    <3>2. "walk" \in CallPc /\ x.dp \in SlotOr BY <1>2, SlotsDiffer DEF CallPc, DpPc
    <3>3. Moves(a, b, "iput", x.ip, x.dp, x.dp, "walk") BY <2>3, <3>2, PutThenMoves
    <3> HIDE DEF b
    <3>4. Same(y, x.ip, k, x.dp, "walk", "iput") BY <2>1, <2>3, <3>3 DEF Moves, Frame
    <3>5. a.e = Tail(x.e) BY <2>3
    <3> HIDE DEF y
    <3>6. Ready("walk", y)
      BY <1>2, <1>3, <2>1, <2>5, <3>2, <3>4, <3>5
         DEF Ready, IpPc, DpPc, RW, Linking, Parents, PathCall
    <3>7. Fit(y) BY <1>2, <3>4, <3>6, FitPut DEF PutPc
    <3>8. ASSUME NEW o, NEW w, NEW s \in Slot PROVE Held(y, o, w, s) = Held(x, o, w, s) + Bit(s = k)
      <4>1. "walk" \notin Moved /\ s # None BY SlotsDiffer DEF Moved
      <4>2. QED BY <1>1, <1>2, <2>1, <3>4, <4>1 DEF Held, Bit
    <3>9. Even(p, y, k) BY <3>7, <3>8, GetsEven DEF Gets
    <3>10. k = Iget(c, i).got /\ k # None /\ ic' = Iget(c, i).c BY <1>8 DEF k
    <3>11. After(p, y) BY <3>1 DEF Go, After
    <3>12. QED BY <1>1, <1>5, <3>9, <3>10, <3>11, WalkTakes
  <2>6. QED BY <2>4, <2>5
<1>9. QED BY <1>4, <1>6, <1>7, <1>8

-----------------------------------------------------------------------------
(* Memory errors. *)

\* The entries that a process touches.
LEMMA TouchedSlots ==
    ASSUME All, NEW p \in Proc, NEW s \in Touched(p), ~(t[p].pc = "begun" /\ ~t[p].abs)
    PROVE  /\ s \in Slot
           /\ t[p].pc \notin {"user", "dead", "drain", "chdone", "exit", "exited"}
<1> DEFINE x == t[p]
<1>1. ASSUME NEW i PROVE Scanned(i) \subseteq Slot
  <2>1. CASE Cached(ic, i) = {} BY <2>1 DEF Scanned
  <2>2. CASE Cached(ic, i) # {}
    <3>1. PICK m : m = Min(Cached(ic, i)) OBVIOUS
    <3>2. m \in Slot
      <4>1. Cached(ic, i) \subseteq Nat BY DEF Cached, Slot
      <4>2. m \in Cached(ic, i) BY <2>2, <3>1, <4>1, LeastSlot
      <4>3. QED BY <4>2 DEF Cached
    <3>3. Scanned(i) = 1..m BY <2>2, <3>1 DEF Scanned
    <3>4. QED BY <3>2, <3>3, FsTreeAssumption DEF Slot
  <2>3. QED BY <2>1, <2>2
<1>2. x.ip \in SlotOr /\ x.dp \in SlotOr /\ x.put \in SlotOr BY Facts DEF Frame
<1>3. CASE x.pc = "begun"
  <2>1. s \in Scanned(ROOTINO) BY <1>3 DEF Touched
  <2>2. QED BY <1>1, <1>3, <2>1
<1>4. CASE x.pc # "begun"
  <2>1. x.pc \notin {"user", "dead", "drain", "chdone", "exit", "exited"} BY <1>4 DEF Touched
  <2>2. s \in {x.ip, x.dp, x.put} \ {None} \/ \E i : s \in Scanned(i)
    BY <1>4, <2>1 DEF Touched
  <2>3. QED BY <1>1, <1>2, <2>1, <2>2 DEF SlotOr
<1>5. QED BY <1>3, <1>4

\* The frame of a call that a memory error in slot s stops.
Stopped(b, s) == [b EXCEPT !.pc = "drain", !.put = s]

\* A call that a memory error stops, with one more reference or as it was.
LEMMA DrainEven ==
    ASSUME All, NEW p \in Proc, NEW b \in Frame, b.put = None, b.then \notin Moved,
           NEW s \in Slot, b.ip = None \/ b.dp \in {None, s}, b.call \in RW => b.dp = None,
           NEW k,
           \A z \in Slot : Held(b, cwd[p], of[p].ip, z) = Mine(p, z) + Bit(z = k),
           NEW y, y = Stopped(b, s)
    PROVE  y.pc = "drain" /\ Even(p, y, k)
<1> DEFINE a == Goto(b, "drain")
<1>1. "drain" \in Pc BY DEF Pc
<1>2. Moves(b, a, "drain", b.ip, b.dp, None, b.then) BY <1>1, GotoMoves
<1>3. y = [a EXCEPT !.put = s] BY DEF Goto, Stopped
<1> HIDE DEF a
<1>4. s \in SlotOr BY SlotsDiffer
<1>5. Moves(b, y, "drain", b.ip, b.dp, s, b.then) BY <1>2, <1>3, <1>4 DEF Moves, Frame
<1>6. Fit(y) BY <1>5 DEF Moves, Fit, CallPc, IpPc, DpPc, PutPc
<1>7. ASSUME NEW z \in Slot
      PROVE  Held(y, cwd[p], of[p].ip, z) = Held(b, cwd[p], of[p].ip, z)
  BY <1>5, SlotsDiffer DEF Held, Bit, Moves
<1>8. QED BY <1>5, <1>6, <1>7 DEF Even, Moves

\* Where a memory error stops a call: it has at most one inode, and holds no lock
\* but the one of the inode that mkdir and mknod have made.
LEMMA HitFacts ==
    ASSUME All, NEW p \in Proc, NEW s \in Touched(p), ~FailStop(p, s)
    PROVE  /\ s \in Slot /\ t[p] \in Frame /\ GoodCache(ic)
           /\ t[p].pc \notin PutPc \cup {"user", "dead", "drain", "chdone", "exit", "exited"}
           /\ t[p].put = None /\ t[p].then \notin Moved
           /\ t[p].ip = None \/ t[p].dp = None
           /\ t[p].call \in RW => t[p].dp = None
           /\ t[p].pc = "walk" => t[p].dp \in Slot /\ t[p].ip = None /\ t[p].call = "chdir"
           /\ \A z \in Slot : Holds(t[p], z) => t[p].pc = "new" /\ z = s
           /\ t[p].pc = "new" => Holds(t[p], s)
<1> DEFINE x == t[p]
<1>1. /\ x.call \in {"chdir", "read", "write"} \/ (x.call \in {"mkdir", "mknod"} /\ x.pc = "new")
      /\ x.pc \notin PutPc /\ ~(x.pc = "begun" /\ ~x.abs)
  BY DEF FailStop, PutPc, LastUnlock
<1>2. /\ s \in Slot
      /\ x.pc \notin {"user", "dead", "drain", "chdone", "exit", "exited"}
  BY <1>1, TouchedSlots
<1>3. x \in Frame /\ GoodCache(ic) BY Facts
<1>4. CASE x.pc = "begun"
  <2>1. /\ x.put = None /\ x.dp = None /\ x.then \notin Moved /\ \A z \in Slot : ~Holds(x, z)
    BY <1>4, BegunFacts
  <2>2. QED BY <1>1, <1>2, <1>3, <1>4, <2>1
<1>5. CASE x.pc # "begun"
  <2>1. x.pc \in CallPc /\ x.pc \notin Moved BY <1>1, <1>2, <1>3, <1>5 DEF Frame, Pc, Moved
  <2>2. /\ x.put = None /\ x.then \notin Moved /\ Ready(x.pc, x)
        /\ \A z \in Slot : Holds(x, z) =>
              \/ x.pc \in {"unlinkip", "unlinkbad", "created"}
              \/ x.pc \in {"unlinked", "new"} /\ z = x.ip
    BY <2>1, CallFacts
  <2>3. CASE x.pc = "new"
    <3>1. x.ip \in Slot /\ x.dp = None /\ x.call \notin RW
      BY <2>2, <2>3 DEF Ready, IpPc, DpPc, Parents, RW
    <3>2. s \in {x.ip, x.dp, x.put} \ {None} BY <1>2, <2>3 DEF Touched
    <3>3. s = x.ip BY <2>2, <3>1, <3>2
    <3>4. Holds(x, s) BY <2>3, <3>3 DEF Holds, PutPc
    <3>5. QED BY <1>1, <1>2, <1>3, <2>2, <2>3, <3>1, <3>3, <3>4
  <2>4. CASE x.pc # "new"
    <3>1. x.call \in {"chdir", "read", "write"} BY <1>1, <2>4
    <3>2. /\ x.pc \notin {"create", "created", "new", "unlink", "unlinkip", "unlinkbad", "unlinked"}
          /\ x.pc # "linkdir"
      BY <2>2, <3>1 DEF Ready, Parents
    <3>3. \A z \in Slot : ~Holds(x, z) BY <2>2, <3>2
    <3>4. x.ip = None \/ x.dp = None
      BY <2>2, <3>1, <3>2 DEF Ready, IpPc, DpPc, RW, Linking
    <3>5. x.call \in RW => x.dp = None BY <2>2 DEF Ready, DpPc, RW
    <3>6. x.pc = "walk" => x.dp \in Slot /\ x.ip = None /\ x.call = "chdir"
      BY <2>2, <3>1 DEF Ready, DpPc, IpPc, RW, Linking
    <3>7. QED BY <1>1, <1>2, <1>3, <2>2, <2>4, <3>3, <3>4, <3>5, <3>6
  <2>5. QED BY <2>3, <2>4
<1>6. QED BY <1>4, <1>5

\* A memory error: the call keeps its inodes, less the lock that it gives back.
LEMMA HitAll == ASSUME All, NEW p \in Proc, NEW s \in Touched(p), Hit(p, s) PROVE All'
<1> DEFINE x == t[p]
           y == [x EXCEPT !.pc = "drain", !.put = s]
<1>1. ~FailStop(p, s) BY DEF Hit
<1>2. /\ t' = [t EXCEPT ![p] = y]
      /\ \/ ic' = ic /\ x.pc # "new"
         \/ x.pc = "walk" /\ \E d : ic' = Set(ic, x.dp, d)
         \/ x.pc = "new" /\ ic' = Unlock(ic, s)
      /\ leak' = leak /\ cwd' = cwd /\ of' = of
  BY DEF Hit, Drain, history
<1>3. /\ s \in Slot /\ x \in Frame /\ GoodCache(ic) /\ x.pc # "dead"
      /\ x.put = None /\ x.then \notin Moved
      /\ x.ip = None \/ x.dp = None
      /\ x.call \in RW => x.dp = None
      /\ x.pc = "walk" => x.dp \in Slot
      /\ \A z \in Slot : Holds(x, z) => x.pc = "new" /\ z = s
  BY <1>1, HitFacts
<1>4. y.pc = "drain" /\ Even(p, y, None)
  <2>1. \A z \in Slot : Held(x, cwd[p], of[p].ip, z) = Mine(p, z) + Bit(z = None)
    BY Facts, SlotsDiffer DEF Mine, Bit
  <2> HIDE DEF x
  <2>2. y = Stopped(x, s) BY DEF Stopped
  <2> HIDE DEF y
  <2>3. QED BY <1>3, <2>1, <2>2, DrainEven
<1> HIDE DEF y
<1>5. After(p, y) BY <1>2, <1>4 DEF After
<1>6. CASE ic' = ic /\ x.pc # "new" BY <1>2, <1>3, <1>4, <1>5, <1>6, StillKeeps
<1>7. of' \in FileType BY <1>2, Facts
<1>8. ASSUME NEW d, x.pc = "walk", ic' = Set(ic, x.dp, d) PROVE All'
  <2>1. Turned(ic, ic', x.dp, None) BY <1>3, <1>8, SetTurns
  <2>2. QED BY <1>2, <1>3, <1>4, <1>5, <1>7, <1>8, <2>1, TurnKeeps
<1>9. CASE x.pc = "new" /\ ic' = Unlock(ic, s)
  <2>1. Turned(ic, ic', s, None) BY <1>3, <1>9, UnlockTurns
  <2>2. QED BY <1>2, <1>3, <1>4, <1>5, <1>7, <2>1, TurnKeeps
<1>10. QED BY <1>2, <1>6, <1>8, <1>9

\* A process that stands at a directory touches it.
LEMMA AtTouched ==
    ASSUME NEW p \in Proc, NEW s \in Slot,
           (t[p].pc = "walk" /\ s = t[p].dp) \/ (t[p].pc = "write" /\ s = t[p].ip)
    PROVE  s \in Touched(p)
BY SlotsDiffer DEF Touched

\* The next inode is had when the directory is hit.
LEMMA HitLookedAll == ASSUME All, NEW p \in Proc, HitLooked(p) PROVE All'
<1> DEFINE x == t[p]
           d == Loaded(x.dp)
           c == Set(ic, x.dp, d)
           i == InumOf(fs, d, Head(x.e))
           k == Iget(c, i).got
           b == [x EXCEPT !.ip = k]
           y == [b EXCEPT !.pc = "drain", !.put = x.dp]
<1>1. /\ x.pc = "walk" /\ k # None /\ ic' = Iget(c, i).c /\ t' = [t EXCEPT ![p] = y]
      /\ leak' = leak /\ cwd' = cwd /\ of' = of /\ ~FailStop(p, x.dp)
  BY DEF HitLooked, Drain, At, history
<1>2. x.dp \in Slot BY <1>1, DpFacts DEF DpPc
<1>3. x.dp \in Touched(p) BY <1>1, <1>2, AtTouched
<1>4. /\ x \in Frame /\ GoodCache(ic) /\ x.put = None /\ x.then \notin Moved
      /\ x.ip = None /\ x.call = "chdir"
  BY <1>1, <1>3, HitFacts
<1>5. Turned(ic, c, x.dp, None) BY <1>2, <1>4, SetTurns
<1> HIDE DEF c, d, i
<1>6. k \in Slot /\ k \in SlotOr BY <1>1, <1>2, <1>5, TakeTurned, SlotsDiffer
<1> HIDE DEF k
<1>7. /\ b \in Frame /\ b.put = None /\ b.then = x.then /\ b.ip = k /\ b.dp = x.dp
      /\ b.call = x.call /\ b.pc = x.pc
  BY <1>4, <1>6 DEF Frame
<1> HIDE DEF b
<1>8. \A z \in Slot : Held(b, cwd[p], of[p].ip, z) = Mine(p, z) + Bit(z = k)
  BY <1>1, <1>4, <1>7, SlotsDiffer DEF Held, Mine, Bit, RW
<1>9. b.call \notin RW BY <1>4, <1>7 DEF RW
<1>10. y.pc = "drain" /\ Even(p, y, k)
  <2>1. y = Stopped(b, x.dp) BY DEF Stopped
  <2> HIDE DEF y
  <2>2. QED BY <1>2, <1>4, <1>7, <1>8, <1>9, <2>1, DrainEven
<1> HIDE DEF y
<1>11. After(p, y) BY <1>1, <1>10 DEF After
<1>12. k = Iget(c, i).got BY DEF k
<1>13. QED BY <1>1, <1>5, <1>10, <1>11, <1>12, WalkTakes

\* The file has been written when its inode is hit.
LEMMA HitWrittenAll == ASSUME All, NEW p \in Proc, HitWritten(p) PROVE All'
<1> DEFINE x == t[p]
           y == [x EXCEPT !.pc = "drain", !.put = x.ip]
           n == of[p].off + x.n
<1>1. /\ x.pc = "write" /\ t' = [t EXCEPT ![p] = y] /\ ~FailStop(p, x.ip)
      /\ \E e : ic' = Set(ic, x.ip, e)
      /\ of' = [of EXCEPT ![p].off = n]
      /\ leak' = leak /\ cwd' = cwd
  BY DEF HitWritten, WriteChunk, Drain, At, history
<1>2. x.ip \in Slot BY <1>1, IpCached DEF IpPc
<1>3. x.ip \in Touched(p) BY <1>1, <1>2, AtTouched
<1>4. /\ x \in Frame /\ GoodCache(ic) /\ x.put = None /\ x.then \notin Moved
      /\ x.ip = None \/ x.dp = None
      /\ x.call \in RW => x.dp = None
      /\ \A z \in Slot : ~Holds(x, z)
  BY <1>1, <1>3, HitFacts
<1>5. y.pc = "drain" /\ Even(p, y, None)
  <2>1. \A z \in Slot : Held(x, cwd[p], of[p].ip, z) = Mine(p, z) + Bit(z = None)
    BY Facts, SlotsDiffer DEF Mine, Bit
  <2> HIDE DEF x
  <2>2. y = Stopped(x, x.ip) BY DEF Stopped
  <2> HIDE DEF y
  <2>3. QED BY <1>2, <1>4, <2>1, <2>2, DrainEven
<1> HIDE DEF y
<1>6. After(p, y) BY <1>1, <1>5 DEF After
<1>7. n \in Nat
  <2>1. of[p].off \in Nat /\ x.n \in Nat BY <1>4, Facts DEF FileType, Frame
  <2>2. QED BY <2>1
<1> HIDE DEF n
<1>8. of' \in FileType /\ \A q \in Proc : of'[q].ip = of[q].ip
  BY <1>1, <1>7, Facts DEF FileType
<1>9. Turned(ic, ic', x.ip, None) BY <1>1, <1>2, <1>4, SetTurns
<1>10. QED BY <1>1, <1>2, <1>4, <1>5, <1>6, <1>8, <1>9, TurnKeeps

\* No process has a reference after a step: none is counted.
LEMMA NoRefs == ASSUME NEW s \in Slot, \A q \in Proc : Mine(q, s)' = 0 PROVE Refs(s)' = 0
<1> DEFINE A1 == [q \in Proc |-> t'[q].ip = s /\ t'[q].call \notin {"read", "write"}]
           A2 == [q \in Proc |-> t'[q].dp = s]
           A3 == [q \in Proc |-> t'[q].put = s /\ t'[q].pc # "drain"]
           A4 == [q \in Proc |-> cwd'[q] = s /\ t'[q].then \notin {"chdone", "exited"}]
           A5 == [q \in Proc |-> of'[q].ip = s]
<1>1. Refs(s)' = Count(A1) + Count(A2) + Count(A3) + Count(A4) + Count(A5)
  BY DEF Refs, Flight, Count
<1>2. \A q \in Proc : Mine(q, s)' = Bit(A1[q]) + Bit(A2[q]) + Bit(A3[q]) + Bit(A4[q]) + Bit(A5[q])
  BY DEF Mine, Held, RW, Moved
<1> HIDE DEF A1, A2, A3, A4, A5
<1>3. \A b : Bit(b) \in Nat /\ (b => Bit(b) = 1) BY DEF Bit
<1>4. ASSUME NEW q \in Proc PROVE ~A1[q] /\ ~A2[q] /\ ~A3[q] /\ ~A4[q] /\ ~A5[q]
  <2>1. Bit(A1[q]) + Bit(A2[q]) + Bit(A3[q]) + Bit(A4[q]) + Bit(A5[q]) = 0 BY <1>2
  <2>2. /\ Bit(A1[q]) = 0 /\ Bit(A2[q]) = 0 /\ Bit(A3[q]) = 0 /\ Bit(A4[q]) = 0 /\ Bit(A5[q]) = 0
    BY <1>3, <2>1
  <2>3. QED BY <2>2 DEF Bit
<1>5. /\ Count(A1) \in Nat /\ Count(A2) \in Nat /\ Count(A3) \in Nat /\ Count(A4) \in Nat
      /\ Count(A5) \in Nat
  BY CountAtLeast
<1>6. /\ ~(Count(A1) > 0) /\ ~(Count(A2) > 0) /\ ~(Count(A3) > 0) /\ ~(Count(A4) > 0)
      /\ ~(Count(A5) > 0)
  BY <1>4, CountAtLeast
<1>7. /\ Count(A1) = 0 /\ Count(A2) = 0 /\ Count(A3) = 0 /\ Count(A4) = 0 /\ Count(A5) = 0
  BY <1>5, <1>6
<1>8. QED BY <1>1, <1>7

\* The new cache: the entry that was hit has no reference, and what the call had
\* of other entries is left there.
LEMMA ReplaceEntryAll == ASSUME All, NEW p \in Proc, Replace(p), ~odd' PROVE All'
<1> DEFINE x == t[p]
           s == x.put
           held == IF x.call \in {"read", "write"} THEN {} ELSE {x.ip, x.dp} \ {None, s}
<1>1. /\ x.pc = "drain" /\ OthersLeft(p) /\ ic' = [ic EXCEPT ![s] = FreeInode]
      /\ of' = [q \in Proc |-> IF of[q].ip = s THEN NoFile ELSE of[q]]
      /\ leak' = [z \in Slot |-> IF z = s THEN 0 ELSE IF z \in held THEN leak[z] + 1 ELSE leak[z]]
      /\ t' = [t EXCEPT ![p] = Idle] /\ cwd' = cwd
  BY DEF Replace, At
<1>2. /\ ~(InitRefs(s) > 0)
      /\ \A q \in Proc : /\ cwd[q] # s /\ t[q].pc # "chdone"
                         /\ ~(t[q].pc = "begun" /\ t[q].call = "close")
  BY DEF Replace
<1>3. /\ t \in [Proc -> Frame] /\ of \in FileType /\ cwd \in [Proc -> SlotOr]
      /\ leak \in [Slot -> Nat] /\ \A q \in Proc : Fit(t[q])
  BY DEF All, Shape, FileType
<1>4. /\ s \in Slot /\ x.then \notin Moved /\ x \in Frame
      /\ x.ip = None \/ x.dp \in {None, s}
      /\ x.call \in RW => x.dp = None
  BY <1>1, <1>3 DEF Fit
<1>5. InitRefs(s) = 0 BY <1>2 DEF InitRefs
<1>6. t'[p] = Idle /\ \A q \in Proc : q # p => t'[q] = t[q] BY <1>1, <1>3
<1>7. /\ Idle.ip = None /\ Idle.dp = None /\ Idle.put = None /\ Idle.then \notin Moved
      /\ Idle.pc = "user"
  BY DEF Idle, Moved
<1> HIDE DEF Idle
<1>8. \A q \in Proc : of'[q].ip = IF of[q].ip = s THEN None ELSE of[q].ip
  <2>1. NoFile.ip = None BY DEF NoFile
  <2>2. QED BY <1>1, <2>1
<1>9. of' \in FileType
  <2>1. NoFile \in [ip : SlotOr, wr : BOOLEAN, off : Nat] BY DEF NoFile, SlotOr
  <2>2. QED BY <1>1, <1>3, <2>1 DEF FileType
<1>10. /\ DOMAIN ic' = Slot /\ ic'[s] = FreeInode /\ \A z \in Slot : z # s => ic'[z] = ic[z]
       /\ GoodCache(ic) /\ OneIn(ic) /\ CacheRefs(ic)
  <2>1. GoodCache(ic) /\ OneIn(ic) /\ CacheRefs(ic) BY Facts DEF CacheRefs
  <2>2. QED BY <1>1, <1>4, <2>1 DEF GoodCache
<1>11. DOMAIN FreeInode = Fields /\ FreeInode.ref = 0 /\ FreeInode.lock = None
  BY DEF FreeInode, Fields
<1>12. \A z \in Slot : ic[z].lock = None
  <2> SUFFICES ASSUME NEW z \in Slot, ic[z].lock # None PROVE FALSE
    OBVIOUS
  <2>1. PICK q \in Proc : q = ic[z].lock /\ Holds(t[q], z) BY DEF All, LockInv
  <2>2. t[q].pc \in {"drain", "user", "dead", "begun", "chdone", "exit"}
    BY <1>1 DEF OthersLeft
  <2>3. QED BY <2>1, <2>2 DEF Holds, PutPc
<1>13. LockInv' BY <1>10, <1>11, <1>12 DEF LockInv
<1>14. OneIn(ic)'
  <2>1. \A z \in Slot : ic'[z].ref > 0 => z # s /\ ic'[z] = ic[z] BY <1>10, <1>11
  <2>2. QED BY <1>10, <2>1 DEF OneIn
<1>15. leak' \in [Slot -> Nat]
  <2>1. \A z \in Slot : (IF z = s THEN 0 ELSE IF z \in held THEN leak[z] + 1 ELSE leak[z]) \in Nat
    BY <1>3
  <2> HIDE DEF held
  <2>2. QED BY <1>1, <2>1
<1>16. Shape'
  <2>1. GoodCache(ic') BY <1>10, <1>11 DEF GoodCache
  <2>2. t' \in [Proc -> Frame] BY <1>1, <1>3, IdleFits
  <2>3. \A q \in Proc : Fit(t'[q]) BY <1>3, <1>6, IdleFits
  <2>4. \A q \in Proc : cwd'[q] # None \/ t'[q].pc = "dead"
    <3>1. \A q \in Proc : cwd[q] # None \/ t[q].pc = "dead" BY DEF All, Shape
    <3>2. cwd[p] # None BY <1>1, <3>1
    <3>3. QED BY <1>1, <1>6, <3>1, <3>2
  <2>5. QED BY <1>1, <1>3, <1>9, <1>15, <2>1, <2>2, <2>3, <2>4 DEF Shape, FileType
<1>17. Exact'
  <2> SUFFICES ASSUME NEW z \in Slot PROVE ic'[z].ref = InitRefs(z) + leak'[z] + Refs(z)'
    BY DEF Exact
  <2>1. CASE z = s
    <3>1. ASSUME NEW q \in Proc PROVE Mine(q, z)' = 0
      <4>1. /\ t'[q].ip = None /\ t'[q].dp = None /\ t'[q].put = None
            /\ cwd'[q] # z /\ of'[q].ip # z /\ z # None
        <5>1. CASE q = p BY <1>1, <1>2, <1>6, <1>7, <1>8, <2>1, <5>1, SlotsDiffer
        <5>2. CASE q # p
          <6>1. t[q].pc \in {"user", "dead", "begun", "exit"} BY <1>1, <1>2, <5>2 DEF OthersLeft
          <6>2. t[q].ip = None /\ t[q].dp = None /\ t[q].put = None
            <7>1. CASE t[q].pc = "user" BY <1>3, <1>7, <7>1 DEF Fit
            <7>2. CASE t[q].pc = "dead" BY <1>3, <7>2 DEF Fit
            <7>3. CASE t[q].pc = "begun" BY <1>2, <1>3, <7>3 DEF Fit
            <7>4. CASE t[q].pc = "exit"
              <8>1. t[q].put = None /\ Ready("exit", t[q]) BY <1>3, <7>4 DEF Fit, CallPc
              <8>2. QED BY <8>1 DEF Ready, IpPc, DpPc
            <7>5. QED BY <6>1, <7>1, <7>2, <7>3, <7>4
          <6>3. QED BY <1>1, <1>2, <1>6, <1>8, <2>1, <5>2, <6>2, SlotsDiffer
        <5>3. QED BY <5>1, <5>2
      <4>2. Mine(q, z)' = Held(t'[q], cwd'[q], of'[q].ip, z) BY DEF Mine
      <4>3. QED BY <4>1, <4>2 DEF Held, Bit
    <3>2. Refs(z)' = 0 BY <3>1, NoRefs
    <3>3. leak'[z] = 0 BY <1>1, <2>1
    <3>4. QED BY <1>5, <1>10, <1>11, <2>1, <3>2, <3>3
  <2>2. CASE z # s
    <3>1. AloneAt(p, z) BY <1>1, <1>6, <1>8, <2>2, SlotsDiffer DEF AloneAt
    <3>2. Refs(z) \in Nat /\ Refs(z)' \in Nat /\ Refs(z)' = Refs(z) - Mine(p, z) + Mine(p, z)'
      BY <3>1, RefsStep
    <3>3. ic'[z].ref = InitRefs(z) + leak[z] + Refs(z) BY <1>10, <2>2 DEF All, Exact
    <3>4. Mine(p, z)' = Bit(cwd[p] = z) + Bit(of[p].ip = z)
      <4>1. Mine(p, z)' = Held(Idle, cwd[p], of'[p].ip, z) BY <1>1, <1>6 DEF Mine
      <4>2. Bit(of'[p].ip = z) = Bit(of[p].ip = z) BY <1>8, <2>2, SlotsDiffer DEF Bit
      <4>3. Held(Idle, cwd[p], of'[p].ip, z) = Bit(cwd[p] = z) + Bit(of'[p].ip = z)
        BY <1>7, SlotsDiffer DEF Held, Bit
      <4>4. QED BY <4>1, <4>2, <4>3
    <3>5. Mine(p, z) = Bit(x.ip = z /\ x.call \notin RW) + Bit(x.dp = z)
                       + (Bit(cwd[p] = z) + Bit(of[p].ip = z))
      BY <1>1, <1>4, <2>2, SlotsDiffer DEF Mine, Held, Bit
    <3>6. leak'[z] = leak[z] + (Bit(x.ip = z /\ x.call \notin RW) + Bit(x.dp = z))
      <4>1. leak'[z] = IF z \in held THEN leak[z] + 1 ELSE leak[z] BY <1>1, <2>2
      <4>2. leak[z] \in Nat BY <1>3
      <4>3. CASE x.call \in RW
        <5>1. z \notin held BY <4>3 DEF RW
        <5>2. Bit(x.ip = z /\ x.call \notin RW) = 0 /\ Bit(x.dp = z) = 0
          BY <1>4, <4>3, SlotsDiffer DEF Bit, RW
        <5>3. QED BY <4>1, <4>2, <5>1, <5>2
      <4>4. CASE x.call \notin RW
        <5>1. z \in held <=> (x.ip = z \/ x.dp = z) BY <2>2, <4>4, SlotsDiffer DEF RW
        <5>2. Bit(x.ip = z /\ x.call \notin RW) + Bit(x.dp = z) = IF z \in held THEN 1 ELSE 0
          BY <1>4, <2>2, <4>4, <5>1, SlotsDiffer DEF Bit
        <5> HIDE DEF held
        <5>3. QED BY <4>1, <4>2, <5>2
      <4>5. QED BY <4>3, <4>4
    <3> DEFINE A == Bit(x.ip = z /\ x.call \notin RW) + Bit(x.dp = z)
               B == Bit(cwd[p] = z) + Bit(of[p].ip = z)
    <3>7. A \in Nat /\ B \in Nat /\ InitRefs(z) \in Nat /\ leak[z] \in Nat
      BY <1>3 DEF Bit, InitRefs
    <3>8. /\ Mine(p, z)' = B /\ Mine(p, z) = A + B /\ leak'[z] = leak[z] + A
      BY <3>4, <3>5, <3>6
    <3> HIDE DEF A, B
    <3>9. QED BY <3>2, <3>3, <3>7, <3>8
  <2>3. QED BY <2>1, <2>2
<1>18. QED BY <1>13, <1>14, <1>16, <1>17 DEF All

-----------------------------------------------------------------------------
(* The next-state relation. *)

\* A step that ends well starts well: nothing is done after a panic, and odd is
\* never taken back.
LEMMA StepSound == ASSUME NEW p \in Proc, Step(p), ~odd' PROVE ~halted /\ ~odd
<1>1. CASE EnterPath(p) BY <1>1 DEF EnterPath, At, Halt, history
<1>2. CASE EnterFile(p) BY <1>2 DEF EnterFile, At, Halt, history
<1>3. CASE EnterPut(p) BY <1>3 DEF EnterPut, At, Halt, history
<1>4. CASE ExitCwd(p) BY <1>4 DEF ExitCwd, At, Halt, history
<1>5. CASE ExitDone(p) BY <1>5 DEF ExitDone, At, Halt, history
<1>6. CASE Walk(p) BY <1>6 DEF Walk, At, Halt, history
<1>7. CASE Iput(p) BY <1>7 DEF Iput, At, Halt, history
<1>8. CASE IputTrunc(p) BY <1>8 DEF IputTrunc, At, Halt, history
<1>9. CASE IputInval(p) BY <1>9 DEF IputInval, At, Halt, history
<1>10. CASE IputDrop(p) BY <1>10 DEF IputDrop, At, Halt, history
<1>11. CASE Open(p) BY <1>11 DEF Open, At, Halt, history
<1>12. CASE Chdir(p) BY <1>12 DEF Chdir, At, Halt, history
<1>13. CASE ChdirDone(p) BY <1>13 DEF ChdirDone, At, Halt, history
<1>14. CASE Link(p) BY <1>14 DEF Link, At, Halt, history
<1>15. CASE LinkDir(p) BY <1>15 DEF LinkDir, At, Halt, history
<1>16. CASE LinkDone(p) BY <1>16 DEF LinkDone, At, Halt, history
<1>17. CASE LinkBad(p) BY <1>17 DEF LinkBad, At, Halt, history
<1>18. CASE Unlink(p) BY <1>18 DEF Unlink, At, Halt, history
<1>19. CASE UnlinkIp(p) BY <1>19 DEF UnlinkIp, At, Halt, history
<1>20. CASE UnlinkBad(p) BY <1>20 DEF UnlinkBad, At, Halt, history
<1>21. CASE UnlinkDone(p) BY <1>21 DEF UnlinkDone, At, Halt, history
<1>22. CASE Create(p) BY <1>22 DEF Create, At, Halt, history
<1>23. CASE Exists(p) BY <1>23 DEF Exists, At, Halt, history
<1>24. CASE Created(p) BY <1>24 DEF Created, At, Halt, history
<1>25. CASE CreateDone(p) BY <1>25 DEF CreateDone, At, Halt, history
<1>26. CASE Read(p) BY <1>26 DEF Read, At, Halt, history
<1>27. CASE Write(p) BY <1>27 DEF Write, At, Halt, history
<1>28. CASE Replace(p) BY <1>28 DEF Replace, At, Halt, history
<1>29. QED BY <1>1, <1>2, <1>3, <1>4, <1>5, <1>6, <1>7, <1>8, <1>9, <1>10, <1>11, <1>12, <1>13,
       <1>14, <1>15, <1>16, <1>17, <1>18, <1>19, <1>20, <1>21, <1>22, <1>23, <1>24, <1>25, <1>26,
       <1>27, <1>28 DEF Step

\* A panic, and what the code gets wrong, are for good.
LEMMA NextSound == ASSUME Next, ~odd' PROVE ~halted /\ ~odd
<1>1. PICK p \in Proc :
        \/ Step(p)
        \/ \E c \in PathCalls : StartPath(p, c)
        \/ StartRead(p) \/ (\E n \in WriteN : StartWrite(p, n)) \/ Close(p) \/ Exit(p)
        \/ \E s \in Touched(p) : Hit(p, s) \/ HitFails(p, s)
        \/ HitLooked(p) \/ HitWritten(p) \/ DrainFails(p)
  BY DEF Next
<1>2. CASE Step(p) BY <1>2, StepSound
<1>3. CASE \E c \in PathCalls : StartPath(p, c) BY <1>3 DEF StartPath, Begin, At, history
<1>4. CASE StartRead(p) \/ (\E n \in WriteN : StartWrite(p, n)) \/ Close(p) \/ Exit(p)
  BY <1>4 DEF StartRead, StartWrite, Close, Exit, Begin, At, history
<1>5. CASE \E s \in Touched(p) : Hit(p, s) \/ HitFails(p, s)
  BY <1>5 DEF Hit, HitFails, MayHit, Drain, history
<1>6. CASE HitLooked(p) \/ HitWritten(p) BY <1>6 DEF HitLooked, HitWritten, MayHit, Drain, history
<1>7. CASE DrainFails(p) BY <1>7 DEF DrainFails, At, Halt, history
<1>8. QED BY <1>1, <1>2, <1>3, <1>4, <1>5, <1>6, <1>7

\* Every step of a process.
LEMMA StepAll == ASSUME All, NEW p \in Proc, Step(p), ~halted', ~odd' PROVE All'
<1>1. CASE EnterPath(p) BY <1>1, EnterPathAll
<1>2. CASE EnterFile(p) BY <1>2, EnterFileAll
<1>3. CASE EnterPut(p) BY <1>3, EnterPutAll
<1>4. CASE ExitCwd(p) BY <1>4, ExitCwdAll
<1>5. CASE ExitDone(p) BY <1>5, ExitDoneAll
<1>6. CASE Walk(p) BY <1>6, WalkAll
<1>7. CASE Iput(p) BY <1>7, IputAll
<1>8. CASE IputTrunc(p) BY <1>8, IputTruncAll
<1>9. CASE IputInval(p) BY <1>9, IputInvalAll
<1>10. CASE IputDrop(p) BY <1>10, IputDropAll
<1>11. CASE Open(p) BY <1>11, OpenAll
<1>12. CASE Chdir(p) BY <1>12, ChdirAll
<1>13. CASE ChdirDone(p) BY <1>13, ChdirDoneAll
<1>14. CASE Link(p) BY <1>14, LinkAll
<1>15. CASE LinkDir(p) BY <1>15, LinkDirAll
<1>16. CASE LinkDone(p) BY <1>16, LinkDoneAll
<1>17. CASE LinkBad(p) BY <1>17, LinkBadAll
<1>18. CASE Unlink(p) BY <1>18, UnlinkAll
<1>19. CASE UnlinkIp(p) BY <1>19, UnlinkIpAll
<1>20. CASE UnlinkBad(p) BY <1>20, UnlinkBadAll
<1>21. CASE UnlinkDone(p) BY <1>21, UnlinkDoneAll
<1>22. CASE Create(p) BY <1>22, CreateAll
<1>23. CASE Exists(p) BY <1>23, ExistsAll
<1>24. CASE Created(p) BY <1>24, CreatedAll
<1>25. CASE CreateDone(p) BY <1>25, CreateDoneAll
<1>26. CASE Read(p) BY <1>26, ReadAll
<1>27. CASE Write(p) BY <1>27, WriteAll
<1>28. CASE Replace(p) BY <1>28, ReplaceEntryAll
<1>29. QED BY <1>1, <1>2, <1>3, <1>4, <1>5, <1>6, <1>7, <1>8, <1>9, <1>10, <1>11, <1>12, <1>13,
       <1>14, <1>15, <1>16, <1>17, <1>18, <1>19, <1>20, <1>21, <1>22, <1>23, <1>24, <1>25, <1>26,
       <1>27, <1>28 DEF Step

\* Every step.
LEMMA NextAll == ASSUME All, Next, ~halted', ~odd' PROVE All'
<1>1. PICK p \in Proc :
        \/ Step(p)
        \/ \E c \in PathCalls : StartPath(p, c)
        \/ StartRead(p) \/ (\E n \in WriteN : StartWrite(p, n)) \/ Close(p) \/ Exit(p)
        \/ \E s \in Touched(p) : Hit(p, s) \/ HitFails(p, s)
        \/ HitLooked(p) \/ HitWritten(p) \/ DrainFails(p)
  BY DEF Next
<1>2. CASE Step(p) BY <1>2, StepAll
<1>3. CASE \E c \in PathCalls : StartPath(p, c) BY <1>3, StartPathAll
<1>4. CASE StartRead(p) BY <1>4, StartReadAll
<1>5. CASE \E n \in WriteN : StartWrite(p, n) BY <1>5, StartWriteAll
<1>6. CASE Close(p) BY <1>6, CloseAll
<1>7. CASE Exit(p) BY <1>7, ExitAll
<1>8. CASE \E s \in Touched(p) : Hit(p, s) \/ HitFails(p, s) BY <1>8, HitAll DEF HitFails
<1>9. CASE HitLooked(p) \/ HitWritten(p) BY <1>9, HitLookedAll, HitWrittenAll
<1>10. CASE DrainFails(p) BY <1>10 DEF DrainFails, Halt
<1>11. QED BY <1>1, <1>2, <1>3, <1>4, <1>5, <1>6, <1>7, <1>8, <1>9, <1>10

\* Inv in terms of All.
LEMMA ShapeExact == Shape => (RefsExact <=> Exact)
BY ExactRefs DEF Shape

\* The invariant as the theorems state it and as the proofs use it.
LEMMA InvAll == Inv <=> (Sound => All)
BY ShapeExact DEF Inv, All

\* Inv is inductive.
LEMMA InvStep == Inv /\ [Next]_vars => Inv'
<1> SUFFICES ASSUME Sound => All, [Next]_vars PROVE Inv'
  BY InvAll
<1>1. SUFFICES ASSUME Sound' PROVE All'
  <2>1. (Shape => (RefsExact <=> Exact))' BY ShapeExact, PTL
  <2>2. QED BY <2>1 DEF Inv, All
<1>2. CASE Next
  <2>1. ~halted' /\ ~odd' BY <1>1 DEF Sound
  <2>2. Sound BY <1>2, <2>1, NextSound DEF Sound
  <2>3. QED BY <1>2, <2>1, <2>2, NextAll
<1>3. CASE UNCHANGED vars
  <2>1. Sound BY <1>1, <1>3 DEF Sound, vars
  <2>2. ic' = ic /\ t' = t /\ cwd' = cwd /\ of' = of /\ leak' = leak BY <1>3 DEF vars
  <2>3. All BY <2>1
  <2>4. Shape' BY <2>2, <2>3 DEF All, Shape
  <2>5. LockInv' /\ OneIn(ic)' BY <2>2, <2>3 DEF All, LockInv, OneIn
  <2>6. Exact' BY <2>2, <2>3 DEF All, Exact, Refs, Flight
  <2>7. QED BY <2>4, <2>5, <2>6 DEF All
<1>4. QED BY <1>2, <1>3

-----------------------------------------------------------------------------
(* What follows from the invariant. *)

\* A process has a reference to an inode that it has locked, and another one when
\* it is in iput for it.
LEMMA HoldsRef ==
    ASSUME All, NEW q \in Proc, NEW s \in Slot, Holds(t[q], s)
    PROVE  /\ Mine(q, s) >= 1
           /\ t[q].pc = "iput" /\ t[q].put = s => Mine(q, s) >= 2
<1> DEFINE x == t[q]
           l == IF x.pc \in PutPc THEN x.then ELSE x.pc
           A1 == Bit(x.ip = s /\ x.call \notin RW)
           A2 == Bit(x.dp = s)
           A3 == Bit(x.put = s /\ x.pc # "drain")
           A4 == Bit(cwd[q] = s /\ x.then \notin Moved)
           A5 == Bit(of[q].ip = s)
<1>1. Mine(q, s) = A1 + A2 + A3 + A4 + A5 BY DEF Mine, Held
<1>2. A1 \in Nat /\ A2 \in Nat /\ A3 \in Nat /\ A4 \in Nat /\ A5 \in Nat BY DEF Bit
<1>3. x.put = s /\ x.pc \in PutPc => A3 = 1 BY DEF Bit, PutPc
<1>4. \/ l \in {"unlinkip", "unlinkbad", "created"} /\ s = x.dp
      \/ l \in {"unlinked", "new"} /\ s = x.ip
      \/ x.pc \in {"itrunc", "iinval"} /\ s = x.put
  BY DEF Holds
<1>5. CASE l \in {"unlinkip", "unlinkbad", "created"} /\ s = x.dp
  <2>1. A2 = 1 BY <1>5 DEF Bit
  <2> HIDE DEF A1, A2, A3, A4, A5, l
  <2>2. x.pc = "iput" => x.pc \in PutPc BY DEF PutPc
  <2>3. QED BY <1>1, <1>2, <1>3, <2>1, <2>2
<1>6. CASE l \in {"unlinked", "new"} /\ s = x.ip
  <2>1. Fit(x) BY Facts
  <2>2. Ready(l, x)
    <3>1. CASE x.pc \in PutPc BY <2>1, <3>1 DEF Fit
    <3>2. CASE x.pc \notin PutPc
      <4>1. x.pc \in CallPc BY <1>6, <3>2 DEF CallPc, IpPc
      <4>2. QED BY <2>1, <3>2, <4>1 DEF Fit
    <3>3. QED BY <3>1, <3>2
  <2>3. x.call \notin RW BY <1>6, <2>2 DEF Ready, RW, Parents
  <2>4. A1 = 1 BY <1>6, <2>3 DEF Bit
  <2> HIDE DEF A1, A2, A3, A4, A5, l
  <2>5. x.pc = "iput" => x.pc \in PutPc BY DEF PutPc
  <2>6. QED BY <1>1, <1>2, <1>3, <2>4, <2>5
<1>7. CASE x.pc \in {"itrunc", "iinval"} /\ s = x.put
  <2>1. A3 = 1 BY <1>3, <1>7 DEF PutPc
  <2>2. x.pc # "iput" BY <1>7
  <2> HIDE DEF A1, A2, A3, A4, A5
  <2>3. QED BY <1>1, <1>2, <2>1, <2>2
<1>8. QED BY <1>4, <1>5, <1>6, <1>7

\* What the invariant says of the last put.
LEMMA InvFree == Inv => IputFree
<1> SUFFICES ASSUME All, NEW p \in Proc, t[p].pc = "iput", LastUse(t[p].put) PROVE Free(t[p].put)
  BY InvAll DEF IputFree
<1>1. PICK s \in Slot : s = t[p].put BY PutFacts DEF PutPc
<1>2. SUFFICES ASSUME ic[s].lock # None PROVE FALSE
  BY <1>1 DEF Free
<1>3. PICK q \in Proc : Holds(t[q], s) BY <1>2 DEF All, LockInv
<1>4. ic[s].ref = 1 BY <1>1 DEF LastUse
<1>5. ic[s].ref = InitRefs(s) + leak[s] + Refs(s) /\ InitRefs(s) \in Nat /\ leak[s] \in Nat
  BY DEF All, Exact, Shape, InitRefs
<1>6. /\ Refs(s) \in Nat /\ Mine(p, s) \in Nat /\ Refs(s) >= Mine(p, s)
      /\ Mine(q, s) \in Nat /\ (q # p => Refs(s) >= Mine(q, s) + Mine(p, s))
  BY RefsAtLeast
<1>7. Refs(s) <= 1 BY <1>4, <1>5, <1>6
<1>8. Mine(p, s) >= 1
  <2>1. Bit(t[p].put = s /\ t[p].pc # "drain") = 1 BY <1>1 DEF Bit
  <2>2. \A b : Bit(b) \in Nat BY DEF Bit
  <2>3. QED BY <2>1, <2>2 DEF Mine, Held
<1>9. CASE q = p
  <2>1. Mine(p, s) >= 2 BY <1>1, <1>3, <1>9, HoldsRef
  <2>2. QED BY <1>6, <1>7, <2>1
<1>10. CASE q # p
  <2>1. Mine(q, s) >= 1 BY <1>3, HoldsRef
  <2>2. QED BY <1>6, <1>7, <1>8, <1>10, <2>1
<1>11. QED BY <1>9, <1>10

-----------------------------------------------------------------------------
(* The start. *)

\* The numbers of the inodes in the cache at the start.
Others(x) == (Range(x.cwd) \cup Range(x.open)) \ {ROOTINO, CONSOLE, None}
StartNums(x) == <<ROOTINO, CONSOLE>> \o SetToSeq(Others(x))

\* The sequence of a finite set has each element once.
LEMMA SeqOfSet ==
    ASSUME NEW S, IsFiniteSet(S)
    PROVE  LET q == SetToSeq(S)
           IN /\ Cardinality(S) \in Nat /\ q \in [1..Cardinality(S) -> S]
              /\ \A i, j \in 1..Cardinality(S) : q[i] = q[j] => i = j
              /\ \A y \in S : \E i \in 1..Cardinality(S) : q[i] = y
<1> DEFINE n == Cardinality(S)
           q == SetToSeq(S)
<1>1. n \in Nat /\ ExistsBijection(1..n, S) BY FS_CardinalityType
<1>2. PICK f \in [1..n -> S] : \A i, j \in 1..n : f[i] = f[j] => i = j
  BY <1>1 DEF ExistsBijection, Bijection, Injection, IsInjective
<1>3. IsInjective(f) BY <1>2 DEF IsInjective
<1>4. q \in [1..n -> S] /\ IsInjective(q)
  <2>1. \E g \in [1..n -> S] : IsInjective(g) BY <1>3
  <2>2. QED BY <2>1 DEF SetToSeq
<1>5. \A i, j \in 1..n : q[i] = q[j] => i = j BY <1>4 DEF IsInjective
<1> HIDE DEF q
<1>6. q \in Injection(1..n, S) BY <1>4, <1>5 DEF Injection
<1>7. IsFiniteSet(1..n) /\ Cardinality(1..n) = n BY <1>1, FS_Interval
<1>8. q \in Surjection(1..n, S) BY <1>6, <1>7, FS_Injection
<1>9. \A y \in S : \E i \in 1..n : q[i] = y BY <1>8 DEF Surjection
<1>10. QED BY <1>1, <1>4, <1>5, <1>9 DEF q

\* The numbers are different, they fill the first entries, and every process has
\* its inodes among them.
LEMMA NumsFacts ==
    ASSUME NEW x \in Starts, NEW nums, nums = StartNums(x)
    PROVE  /\ DOMAIN nums \subseteq Slot /\ {1, 2} \subseteq DOMAIN nums
           /\ \A i, j \in DOMAIN nums : nums[i] = nums[j] => i = j
           /\ \A i \in DOMAIN nums : nums[i] # None
           /\ \A p \in Proc : /\ x.cwd[p] # None
                              /\ \E i \in DOMAIN nums : nums[i] = x.cwd[p]
                              /\ x.open[p] # None => \E i \in DOMAIN nums : nums[i] = x.open[p]
<1> DEFINE S == Others(x)
           n == Cardinality(S)
           q == SetToSeq(S)
<1>1. /\ x.cwd \in [Proc -> 1..NINUM] /\ x.open \in [Proc -> 0..NINUM] /\ 2 + n <= NINODE
  BY StartsAssumption DEF Others, ROOTINO, CONSOLE, None
<1>2. IsFiniteSet(S)
  <2>1. S \subseteq 0..NINUM BY <1>1, FsTreeAssumption DEF Others, Range
  <2>2. IsFiniteSet(0..NINUM) BY FsTreeAssumption, FS_Interval
  <2>3. QED BY <2>1, <2>2, FS_Subset
<1>3. /\ n \in Nat /\ q \in [1..n -> S]
      /\ \A i, j \in 1..n : q[i] = q[j] => i = j
      /\ \A y \in S : \E i \in 1..n : q[i] = y
  BY <1>2, SeqOfSet
<1>4. \A y \in S : y # 0 /\ y # 1 /\ y # 2 BY DEF Others, ROOTINO, CONSOLE, None
<1>5. \A p \in Proc : x.cwd[p] \in Range(x.cwd) /\ x.open[p] \in Range(x.open) BY <1>1 DEF Range
<1>6. \A y : y \in Range(x.cwd) \cup Range(x.open) => y \in S \/ y \in {0, 1, 2}
  BY DEF Others, ROOTINO, CONSOLE, None
<1>7. nums = <<1, 2>> \o q BY DEF StartNums, ROOTINO, CONSOLE
<1> HIDE DEF q, n, S
<1>8. /\ DOMAIN nums = 1..(2 + n) /\ nums[1] = 1 /\ nums[2] = 2
      /\ \A i \in 1..n : nums[i + 2] = q[i]
      /\ \A i \in 3..(2 + n) : nums[i] = q[i - 2]
  <2>1. q \in Seq(S) /\ Len(q) = n BY <1>3
  <2>2. <<1, 2>> \in Seq(Nat) /\ Len(<<1, 2>>) = 2 OBVIOUS
  <2>3. Len(nums) = 2 + n /\ DOMAIN nums = 1..(2 + n) BY <1>3, <1>7, <2>1, <2>2
  <2>4. nums[1] = 1 /\ nums[2] = 2 BY <1>3, <1>7, <2>1, <2>2
  <2>5. \A i \in 1..n : nums[i + 2] = q[i] BY <1>3, <1>7, <2>1, <2>2
  <2>6. \A i \in 3..(2 + n) : nums[i] = q[i - 2]
    <3> TAKE i \in 3..(2 + n)
    <3>1. i - 2 \in 1..n /\ (i - 2) + 2 = i BY <1>3
    <3>2. QED BY <2>5, <3>1
  <2>7. QED BY <2>3, <2>4, <2>5, <2>6
<1>9. \A i \in 1..(2 + n) : i = 1 \/ i = 2 \/ (i \in 3..(2 + n) /\ i - 2 \in 1..n) BY <1>3
<1>10. \A i \in 3..(2 + n) : nums[i] \in S BY <1>3, <1>8, <1>9
<1>11. DOMAIN nums \subseteq Slot /\ {1, 2} \subseteq DOMAIN nums
  BY <1>1, <1>3, <1>8, FsTreeAssumption DEF Slot
<1>12. ASSUME NEW i \in DOMAIN nums, NEW j \in DOMAIN nums, nums[i] = nums[j] PROVE i = j
  <2>1. CASE i \in {1, 2} BY <1>4, <1>8, <1>9, <1>10, <1>12, <2>1
  <2>2. CASE j \in {1, 2} BY <1>4, <1>8, <1>9, <1>10, <1>12, <2>2
  <2>3. CASE i \notin {1, 2} /\ j \notin {1, 2}
    <3>1. i \in 3..(2 + n) /\ j \in 3..(2 + n) /\ i - 2 \in 1..n /\ j - 2 \in 1..n
      BY <1>8, <1>9, <2>3
    <3>2. i - 2 = j - 2 BY <1>3, <1>8, <1>12, <3>1
    <3>3. QED BY <3>1, <3>2
  <2>4. QED BY <2>1, <2>2, <2>3
<1>13. ASSUME NEW i \in DOMAIN nums PROVE nums[i] # None
  BY <1>4, <1>8, <1>9, <1>10 DEF None
<1>14. ASSUME NEW y, y \in S \/ y \in {1, 2} PROVE \E i \in DOMAIN nums : nums[i] = y
  <2>1. CASE y \in {1, 2} BY <1>8, <1>11, <2>1
  <2>2. CASE y \in S
    <3>1. PICK i \in 1..n : q[i] = y BY <1>3, <2>2
    <3>2. i + 2 \in 1..(2 + n) /\ nums[i + 2] = y BY <1>3, <1>8, <3>1
    <3>3. QED BY <1>8, <3>2
  <2>3. QED BY <1>14, <2>1, <2>2
<1>15. ASSUME NEW p \in Proc
       PROVE  /\ x.cwd[p] # None
              /\ \E i \in DOMAIN nums : nums[i] = x.cwd[p]
              /\ x.open[p] # None => \E i \in DOMAIN nums : nums[i] = x.open[p]
  <2>1. x.cwd[p] # 0 BY <1>1, FsTreeAssumption
  <2>2. x.cwd[p] \in S \/ x.cwd[p] \in {1, 2} BY <1>5, <1>6, <2>1
  <2>3. x.open[p] # 0 => x.open[p] \in S \/ x.open[p] \in {1, 2} BY <1>5, <1>6
  <2>4. QED BY <1>14, <2>1, <2>2, <2>3 DEF None
<1>16. QED BY <1>11, <1>12, <1>13, <1>15

\* The entry of an inode at the start, and the processes that have the entry s.
StartSlot(x, i) ==
    IF i = None THEN None ELSE CHOOSE s \in DOMAIN StartNums(x) : StartNums(x)[s] = i
StartUsers(x, f, s) == Cardinality({p \in Proc : f[p] = StartNums(x)[s]})

\* The start: init and the processes have the entries of StartNums.
LEMMA InitAll == Init => All
<1> SUFFICES ASSUME Init PROVE All OBVIOUS
<1>1. PICK x \in Starts :
        /\ ic = [s \in Slot |->
                   IF s \notin DOMAIN StartNums(x) THEN FreeInode
                   ELSE [inum |-> StartNums(x)[s],
                         ref |-> InitRefs(s) + StartUsers(x, x.cwd, s) + StartUsers(x, x.open, s),
                         valid |-> TRUE, lock |-> None, d |-> fs.di[StartNums(x)[s]]]]
        /\ cwd = [p \in Proc |-> StartSlot(x, x.cwd[p])]
        /\ of = [p \in Proc |-> [NoFile EXCEPT !.ip = StartSlot(x, x.open[p]),
                                               !.wr = x.open[p] # None]]
        /\ t = [p \in Proc |-> Idle]
        /\ leak = [s \in Slot |-> 0]
  BY DEF Init, StartNums, Others, StartSlot, StartUsers
<1>2. PICK nums : nums = StartNums(x) OBVIOUS
<1>3. /\ DOMAIN nums \subseteq Slot /\ {1, 2} \subseteq DOMAIN nums
      /\ \A i, j \in DOMAIN nums : nums[i] = nums[j] => i = j
      /\ \A i \in DOMAIN nums : nums[i] # None
      /\ \A p \in Proc : /\ x.cwd[p] # None
                         /\ \E i \in DOMAIN nums : nums[i] = x.cwd[p]
                         /\ x.open[p] # None => \E i \in DOMAIN nums : nums[i] = x.open[p]
  BY <1>2, NumsFacts
<1>4. ASSUME NEW i, \E s \in DOMAIN nums : nums[s] = i, i # None
      PROVE  /\ StartSlot(x, i) \in DOMAIN nums /\ StartSlot(x, i) \in Slot
             /\ \A s \in Slot : StartSlot(x, i) = s <=> s \in DOMAIN nums /\ i = nums[s]
  <2>1. StartSlot(x, i) = CHOOSE s \in DOMAIN nums : nums[s] = i BY <1>2, <1>4 DEF StartSlot
  <2>2. StartSlot(x, i) \in DOMAIN nums /\ nums[StartSlot(x, i)] = i BY <1>4, <2>1
  <2>3. QED BY <1>3, <2>2
<1>5. ASSUME NEW p \in Proc
      PROVE  /\ cwd[p] \in Slot
             /\ \A s \in Slot : cwd[p] = s <=> s \in DOMAIN nums /\ x.cwd[p] = nums[s]
             /\ of[p].ip \in SlotOr /\ of[p] \in [ip : SlotOr, wr : BOOLEAN, off : Nat]
             /\ \A s \in Slot : of[p].ip = s <=> s \in DOMAIN nums /\ x.open[p] = nums[s]
  <2>1. cwd[p] = StartSlot(x, x.cwd[p]) BY <1>1
  <2>2. /\ cwd[p] \in Slot
        /\ \A s \in Slot : cwd[p] = s <=> s \in DOMAIN nums /\ x.cwd[p] = nums[s]
    BY <1>3, <1>4, <2>1
  <2>3. StartSlot(x, x.open[p]) \in SlotOr
    <3>1. CASE x.open[p] = None BY <3>1 DEF StartSlot, SlotOr
    <3>2. CASE x.open[p] # None BY <1>3, <1>4, <3>2 DEF SlotOr
    <3>3. QED BY <3>1, <3>2
  <2>4. (x.open[p] # None) \in BOOLEAN OBVIOUS
  <2>5. /\ of[p].ip = StartSlot(x, x.open[p]) /\ of[p].wr = (x.open[p] # None)
        /\ of[p].off = 0 /\ of[p] = [ip |-> of[p].ip, wr |-> of[p].wr, off |-> of[p].off]
    <3>1. of[p] = [NoFile EXCEPT !.ip = StartSlot(x, x.open[p]), !.wr = x.open[p] # None] BY <1>1
    <3>2. QED BY <3>1 DEF NoFile
  <2>6. of[p].wr \in BOOLEAN BY <2>4, <2>5
  <2>7. of[p] \in [ip : SlotOr, wr : BOOLEAN, off : Nat]
    <3>1. PICK a, b, o : a = of[p].ip /\ b = of[p].wr /\ o = of[p].off OBVIOUS
    <3>2. a \in SlotOr /\ b \in BOOLEAN /\ o \in Nat BY <2>3, <2>5, <2>6, <3>1
    <3>3. [ip |-> a, wr |-> b, off |-> o] \in [ip : SlotOr, wr : BOOLEAN, off : Nat]
      BY ONLY <3>2
    <3>4. of[p] = [ip |-> a, wr |-> b, off |-> o] BY <2>5, <3>1
    <3>5. QED BY ONLY <3>3, <3>4
  <2>8. \A s \in Slot : of[p].ip = s <=> s \in DOMAIN nums /\ x.open[p] = nums[s]
    <3>1. CASE x.open[p] = None
      <4>1. of[p].ip = None BY <2>5, <3>1 DEF StartSlot
      <4>2. QED BY <1>3, <3>1, <4>1, SlotsDiffer
    <3>2. CASE x.open[p] # None BY <1>3, <1>4, <2>5, <3>2
    <3>3. QED BY <3>1, <3>2
  <2>9. QED BY <2>2, <2>3, <2>5, <2>7, <2>8
<1>6. /\ Idle.ip = None /\ Idle.dp = None /\ Idle.put = None /\ Idle.then \notin {"chdone", "exited"}
      /\ Idle \in Frame /\ Fit(Idle)
  BY IdleFits DEF Idle
<1> HIDE DEF Idle
<1>7. \A p \in Proc : t[p] = Idle BY <1>1
<1>8. ASSUME NEW s \in Slot
      PROVE  /\ DOMAIN ic[s] = Fields /\ ic[s].lock = None
             /\ s \notin DOMAIN nums => ic[s].ref = 0
             /\ s \in DOMAIN nums =>
                  /\ ic[s].inum = nums[s]
                  /\ ic[s].ref = InitRefs(s) + StartUsers(x, x.cwd, s) + StartUsers(x, x.open, s)
  <2>1. CASE s \notin DOMAIN nums
    <3>1. ic[s] = FreeInode BY <1>1, <1>2, <2>1
    <3>2. QED BY <2>1, <3>1 DEF FreeInode, Fields
  <2>2. CASE s \in DOMAIN nums
    <3>1. ic[s] = [inum |-> nums[s],
                   ref |-> InitRefs(s) + StartUsers(x, x.cwd, s) + StartUsers(x, x.open, s),
                   valid |-> TRUE, lock |-> None, d |-> fs.di[nums[s]]]
      BY <1>1, <1>2, <2>2
    <3>2. QED BY <2>2, <3>1 DEF Fields
  <2>3. QED BY <2>1, <2>2
<1>9. GoodCache(ic) BY <1>1, <1>8 DEF GoodCache
<1>10. Shape
  <2>1. t \in [Proc -> Frame] /\ \A p \in Proc : Fit(t[p]) BY <1>1, <1>6
  <2>2. cwd \in [Proc -> SlotOr] /\ \A p \in Proc : cwd[p] # None
    <3>1. \A p \in Proc : cwd[p] \in SlotOr /\ cwd[p] # None BY <1>5, SlotsDiffer
    <3>2. DOMAIN cwd = Proc /\ cwd = [p \in Proc |-> cwd[p]] BY <1>1
    <3>3. QED BY <3>1, <3>2
  <2>3. of \in [Proc -> [ip : SlotOr, wr : BOOLEAN, off : Nat]]
    <3>1. of = [p \in Proc |-> of[p]] BY <1>1
    <3>2. QED BY <1>5, <3>1
  <2>4. leak \in [Slot -> Nat] BY <1>1
  <2>5. QED BY <1>9, <2>1, <2>2, <2>3, <2>4 DEF Shape
<1>11. LockInv BY <1>8 DEF LockInv
<1>12. OneIn(ic) BY <1>3, <1>8 DEF OneIn
<1>13. Exact
  <2> SUFFICES ASSUME NEW s \in Slot PROVE ic[s].ref = InitRefs(s) + leak[s] + Refs(s)
    BY DEF Exact
  <2> DEFINE A1 == [q \in Proc |-> t[q].ip = s /\ t[q].call \notin {"read", "write"}]
             A2 == [q \in Proc |-> t[q].dp = s]
             A3 == [q \in Proc |-> t[q].put = s /\ t[q].pc # "drain"]
             A4 == [q \in Proc |-> cwd[q] = s /\ t[q].then \notin {"chdone", "exited"}]
             A5 == [q \in Proc |-> of[q].ip = s]
  <2>1. Refs(s) = Count(A1) + Count(A2) + Count(A3) + Count(A4) + Count(A5)
    BY DEF Refs, Flight, Count
  <2>2. \A q \in Proc : ~A1[q] /\ ~A2[q] /\ ~A3[q] BY <1>6, <1>7, SlotsDiffer
  <2>3. \A q \in Proc : /\ A4[q] <=> (s \in DOMAIN nums /\ x.cwd[q] = nums[s])
                        /\ A5[q] <=> (s \in DOMAIN nums /\ x.open[q] = nums[s])
    BY <1>5, <1>6, <1>7
  <2> HIDE DEF A1, A2, A3, A4, A5
  <2>4. /\ Count(A1) \in Nat /\ Count(A2) \in Nat /\ Count(A3) \in Nat /\ Count(A4) \in Nat
        /\ Count(A5) \in Nat
        /\ ~(Count(A1) > 0) /\ ~(Count(A2) > 0) /\ ~(Count(A3) > 0)
    BY <2>2, CountAtLeast
  <2>5. Count(A1) = 0 /\ Count(A2) = 0 /\ Count(A3) = 0 BY <2>4
  <2>6. leak[s] = 0 /\ InitRefs(s) \in Nat BY <1>1 DEF InitRefs
  <2>7. CASE s \in DOMAIN nums
    <3>1. {p \in Proc : A4[p]} = {p \in Proc : x.cwd[p] = nums[s]} BY <2>3, <2>7
    <3>2. {p \in Proc : A5[p]} = {p \in Proc : x.open[p] = nums[s]} BY <2>3, <2>7
    <3>3. Count(A4) = StartUsers(x, x.cwd, s) /\ Count(A5) = StartUsers(x, x.open, s)
      BY <1>2, <3>1, <3>2 DEF Count, StartUsers
    <3>4. ic[s].ref = InitRefs(s) + Count(A4) + Count(A5) BY <1>8, <2>7, <3>3
    <3>5. QED BY <2>1, <2>4, <2>5, <2>6, <3>4
  <2>8. CASE s \notin DOMAIN nums
    <3>1. \A q \in Proc : ~A4[q] /\ ~A5[q] BY <2>3, <2>8
    <3>2. ~(Count(A4) > 0) /\ ~(Count(A5) > 0) BY <3>1, CountAtLeast
    <3>3. Count(A4) = 0 /\ Count(A5) = 0 BY <2>4, <3>2
    <3>4. InitRefs(s) = 0 BY <1>3, <2>8 DEF InitRefs
    <3>5. ic[s].ref = 0 BY <1>8, <2>8
    <3>6. QED BY <2>1, <2>5, <2>6, <3>3, <3>4, <3>5
  <2>9. QED BY <2>7, <2>8
<1>14. QED BY <1>10, <1>11, <1>12, <1>13 DEF All

-----------------------------------------------------------------------------
(* What entries hold: the second invariant. *)

\* An inode on the disk, and the disk.
DinodeFields == {"type", "nlink", "size", "addrs"}
DiskOK(f) ==
    /\ DOMAIN f = {"di", "used", "blk"} /\ DOMAIN f.di = Inum
    /\ \A i \in Inum : DOMAIN f.di[i] = DinodeFields
\* The entry e has what the disk f says.
Matches(f, e) == e.inum \in Inum => e.d = f.di[e.inum] /\ e.d.type # "none"
\* iput has freed the inode of s, whose number can be given out again.
Dying(s) == \E p \in Proc : t[p].pc = "iinval" /\ t[p].put = s
\* The call holds the inode that it puts after iput too.
Later(x) ==
    \/ x.then \in {"unlinkip", "unlinkbad", "created"} /\ x.put = x.dp
    \/ x.then \in {"unlinked", "new"} /\ x.put = x.ip
\* The disk has its inodes; an entry in use that was loaded is a copy of its inode,
\* unless iput has freed that; what a call holds has been loaded and is locked by it;
\* and iput frees no inode that its caller goes on to use.
DataInv ==
    /\ DiskOK(fs)
    /\ \A s \in Slot : ic[s].ref > 0 /\ ic[s].valid => Dying(s) \/ Matches(fs, ic[s])
    /\ \A p \in Proc, s \in Slot : Holds(t[p], s) => ic[s].lock = p /\ ic[s].valid
    /\ \A p \in Proc : t[p].pc \in {"itrunc", "iinval"} => ~Later(t[p])

\* An entry in use stays as it is, and one that is not holds nothing.
Stays(c, c2, s) ==
    /\ c[s].ref > 0 => /\ c2[s].inum = c[s].inum /\ c2[s].valid = c[s].valid
                       /\ c2[s].d = c[s].d /\ c2[s].lock = c[s].lock
    /\ ~(c[s].ref > 0) => ~(c2[s].ref > 0 /\ c2[s].valid)
\* c2 is c but for what the entry k holds.
Upto(c, c2, k) ==
    /\ GoodCache(c2)
    /\ \A x \in Slot : c2[x].ref = c[x].ref /\ c2[x].inum = c[x].inum
    /\ \A x \in Slot : x # k => c2[x].valid = c[x].valid /\ c2[x].d = c[x].d
                              /\ c2[x].lock = c[x].lock

\* A step of p that changes what the entries in K hold, and their inodes, and
\* besides them only inodes that are free.
LEMMA DataStep ==
    ASSUME All, DataInv, NEW p \in Proc, NEW y, After(p, y), NEW K \in SUBSET Slot, DiskOK(fs'),
           \A j \in Inum : \/ fs'.di[j] = fs.di[j] \/ fs.di[j].type = "none"
                           \/ \E k \in K : ic[k].ref > 0 /\ ic[k].inum = j,
           \A s \in Slot \ K : Stays(ic, ic', s),
           t[p].pc = "iinval" => t[p].put \in K,
           \A s \in K : ic'[s].ref > 0 /\ ic'[s].valid =>
                          Matches(fs', ic'[s]) \/ (y.pc = "iinval" /\ y.put = s),
           \A s \in K : ic[s].lock = None \/ ic[s].lock = p,
           \A s \in Slot : Holds(y, s) => ic'[s].lock = p /\ ic'[s].valid,
           y.pc \in {"itrunc", "iinval"} => ~Later(y)
    PROVE  DataInv'
<1>1. /\ \A q \in Proc : q # p => t'[q] = t[q]
      /\ y.pc # "end" => t'[p] = y
      /\ \A s \in Slot : Holds(t'[p], s) => Holds(y, s)
  <2>1. t \in [Proc -> Frame] BY DEF All, Shape
  <2>2. t'[p] = IF y.pc = "end" THEN Idle ELSE y BY <2>1 DEF After
  <2>3. \A q \in Proc : q # p => t'[q] = t[q] BY <2>1 DEF After
  <2>4. QED BY <2>2, <2>3, IdleFits
<1>2. ASSUME NEW s \in Slot, ic'[s].ref > 0, ic'[s].valid
      PROVE  (\E q \in Proc : t'[q].pc = "iinval" /\ t'[q].put = s) \/ Matches(fs', ic'[s])
  <2>1. CASE s \in K BY <1>1, <1>2, <2>1
  <2>2. CASE s \notin K
    <3>1. /\ ic[s].ref > 0 /\ ic[s].valid
          /\ ic'[s].inum = ic[s].inum /\ ic'[s].d = ic[s].d
      BY <1>2, <2>2 DEF Stays
    <3>2. CASE Dying(s)
      <4>1. PICK q \in Proc : t[q].pc = "iinval" /\ t[q].put = s BY <3>2 DEF Dying
      <4>2. q # p BY <2>2, <4>1
      <4>3. QED BY <1>1, <4>1, <4>2
    <3>3. CASE Matches(fs, ic[s])
      <4>1. SUFFICES ASSUME ic[s].inum \in Inum
                     PROVE  ic[s].d = fs'.di[ic[s].inum] /\ ic[s].d.type # "none"
        BY <3>1 DEF Matches
      <4>2. ic[s].d = fs.di[ic[s].inum] /\ ic[s].d.type # "none" BY <3>3, <4>1 DEF Matches
      <4>3. ~ \E k \in K : ic[k].ref > 0 /\ ic[k].inum = ic[s].inum
        BY <2>2, <3>1 DEF All, OneIn
      <4>4. QED BY <4>1, <4>2, <4>3
    <3>4. QED BY <3>1, <3>2, <3>3 DEF DataInv
  <2>3. QED BY <2>1, <2>2
<1>3. ASSUME NEW q \in Proc, NEW s \in Slot, Holds(t'[q], s)
      PROVE  ic'[s].lock = q /\ ic'[s].valid
  <2>1. CASE q = p BY <1>1, <1>3, <2>1
  <2>2. CASE q # p
    <3>1. Holds(t[q], s) BY <1>1, <1>3, <2>2
    <3>2. ic[s].lock = q /\ ic[s].valid BY <3>1 DEF DataInv
    <3>3. ic[s].ref > 0
      <4>1. Mine(q, s) >= 1 BY <3>1, HoldsRef
      <4>2. ic[s].ref \in Nat /\ ic[s].ref >= Mine(q, s) /\ Mine(q, s) \in Nat BY Facts
      <4>3. QED BY <4>1, <4>2
    <3>4. s \notin K BY <2>2, <3>2, SlotsDiffer
    <3>5. QED BY <3>2, <3>3, <3>4 DEF Stays
  <2>3. QED BY <2>1, <2>2
<1>4. ASSUME NEW q \in Proc, t'[q].pc \in {"itrunc", "iinval"} PROVE ~Later(t'[q])
  <2>1. CASE q = p
    <3>1. Idle.pc \notin {"itrunc", "iinval"} BY DEF Idle
    <3>2. t'[p] = y \/ t'[p] = Idle
      <4>1. t \in [Proc -> Frame] BY DEF All, Shape
      <4>2. QED BY <4>1 DEF After
    <3>3. QED BY <1>4, <2>1, <3>1, <3>2
  <2>2. CASE q # p BY <1>1, <1>4, <2>2 DEF DataInv
  <2>3. QED BY <2>1, <2>2
<1>5. QED BY <1>2, <1>3, <1>4 DEF DataInv, Dying, Later

\* A step that changes neither what an entry in use holds nor the disk.
LEMMA DataQuiet ==
    ASSUME All, DataInv, NEW p \in Proc, NEW y, After(p, y), fs' = fs,
           \A s \in Slot : Stays(ic, ic', s), t[p].pc # "iinval",
           \A s \in Slot : Holds(y, s) => Holds(t[p], s), y.pc \notin {"itrunc", "iinval"}
    PROVE  DataInv'
<1>1. ASSUME NEW s \in Slot, Holds(y, s) PROVE ic'[s].lock = p /\ ic'[s].valid
  <2>1. Holds(t[p], s) BY <1>1
  <2>2. ic[s].lock = p /\ ic[s].valid BY <2>1 DEF DataInv
  <2>3. ic[s].ref > 0
    <3>1. Mine(p, s) >= 1 BY <2>1, HoldsRef
    <3>2. ic[s].ref \in Nat /\ ic[s].ref >= Mine(p, s) /\ Mine(p, s) \in Nat BY Facts
    <3>3. QED BY <3>1, <3>2
  <2>4. QED BY <2>2, <2>3 DEF Stays
<1>2. PICK K : K = {} OBVIOUS
<1>3. K \in SUBSET Slot /\ \A s : s \notin K BY <1>2
<1>4. DiskOK(fs') BY DEF DataInv
<1>5. QED BY <1>1, <1>3, <1>4, DataStep

\* A process that has locked an entry has a reference to it.
LEMMA LockedFacts ==
    ASSUME All, DataInv, NEW p \in Proc, NEW s \in Slot, Holds(t[p], s)
    PROVE  ic[s].lock = p /\ ic[s].valid /\ ic[s].ref > 0
<1>1. Mine(p, s) >= 1 BY HoldsRef
<1>2. ic[s].ref \in Nat /\ ic[s].ref >= Mine(p, s) /\ Mine(p, s) \in Nat BY Facts
<1>3. ic[s].lock = p /\ ic[s].valid BY DEF DataInv
<1>4. QED BY <1>1, <1>2, <1>3

\* What ilock finds, when it does not panic.
LEMMA LoadedFits ==
    ASSUME All, DataInv, NEW s \in Slot, Free(s), ~NoType(s), ic[s].inum \in Inum
    PROVE  /\ ic[s].ref > 0 /\ Loaded(s) = fs.di[ic[s].inum] /\ Loaded(s).type # "none"
           /\ DOMAIN Loaded(s) = DinodeFields
<1>0. ic[s].ref > 0
  <2>1. ic[s].ref = InitRefs(s) + leak[s] + Refs(s) BY DEF All, Exact
  <2>2. InitRefs(s) \in Nat /\ leak[s] \in Nat BY DEF InitRefs, All, Shape
  <2>3. Refs(s) \in Nat BY RefsAtLeast
  <2>4. ~(ic[s].ref < 1) BY DEF NoType
  <2>5. QED BY <2>1, <2>2, <2>3, <2>4
<1>1. CASE ~ic[s].valid
  <2>1. Loaded(s) = fs.di[ic[s].inum] BY <1>1 DEF Loaded, Inum, None
  <2>2. QED BY <1>0, <1>1, <2>1 DEF NoType, DataInv, DiskOK
<1>2. CASE ic[s].valid
  <2>1. ~Dying(s)
    <3> SUFFICES ASSUME NEW p \in Proc, t[p].pc = "iinval", t[p].put = s PROVE FALSE BY DEF Dying
    <3>1. Holds(t[p], s) BY DEF Holds
    <3>2. QED BY <3>1, SlotsDiffer DEF DataInv, Free
  <2>2. Matches(fs, ic[s]) BY <1>0, <1>2, <2>1 DEF DataInv
  <2>3. Loaded(s) = ic[s].d BY <1>2 DEF Loaded
  <2>4. QED BY <1>0, <2>2, <2>3 DEF Matches, DataInv, DiskOK
<1>3. QED BY <1>1, <1>2

-----------------------------------------------------------------------------
(* The operations on the cache, and what entries hold. *)

\* ilock, with the inode d in memory.
LEMMA LockHolds ==
    ASSUME NEW c, GoodCache(c), NEW s \in Slot, NEW p, NEW d
    PROVE  /\ Upto(c, Lock(c, s, p, d), s)
           /\ Lock(c, s, p, d)[s].valid /\ Lock(c, s, p, d)[s].d = d /\ Lock(c, s, p, d)[s].lock = p
<1> DEFINE c2 == Lock(c, s, p, d)
<1>1. DOMAIN c2 = Slot BY DEF GoodCache, Lock
<1>2. \A x \in Slot : x # s => c2[x] = c[x] BY DEF GoodCache, Lock
<1>3. c2[s] = [c[s] EXCEPT !.valid = TRUE, !.d = d, !.lock = p] BY DEF GoodCache, Lock
<1>4. DOMAIN c[s] = Fields BY DEF GoodCache
<1> HIDE DEF c2
<1>5. /\ DOMAIN c2[s] = Fields /\ c2[s].ref = c[s].ref /\ c2[s].inum = c[s].inum /\ c2[s].lock = p
      /\ c2[s].valid /\ c2[s].d = d
  BY <1>3, <1>4 DEF Fields
<1>6. GoodCache(c2) BY <1>1, <1>2, <1>5 DEF GoodCache
<1>7. QED BY <1>2, <1>5, <1>6 DEF Upto, c2

\* iunlock.
LEMMA UnlockHolds ==
    ASSUME NEW c, GoodCache(c), NEW s \in Slot
    PROVE  /\ Upto(c, Unlock(c, s), s)
           /\ Unlock(c, s)[s].valid = c[s].valid /\ Unlock(c, s)[s].d = c[s].d
           /\ Unlock(c, s)[s].lock = None
<1> DEFINE c2 == Unlock(c, s)
<1>1. DOMAIN c2 = Slot BY DEF GoodCache, Unlock
<1>2. \A x \in Slot : x # s => c2[x] = c[x] BY DEF GoodCache, Unlock
<1>3. c2[s] = [c[s] EXCEPT !.lock = None] BY DEF GoodCache, Unlock
<1>4. DOMAIN c[s] = Fields BY DEF GoodCache
<1> HIDE DEF c2
<1>5. /\ DOMAIN c2[s] = Fields /\ c2[s].ref = c[s].ref /\ c2[s].inum = c[s].inum
      /\ c2[s].lock = None /\ c2[s].valid = c[s].valid /\ c2[s].d = c[s].d
  BY <1>3, <1>4 DEF Fields
<1>6. GoodCache(c2) BY <1>1, <1>2, <1>5 DEF GoodCache
<1>7. QED BY <1>2, <1>5, <1>6 DEF Upto, c2

\* Both, with a change in between.
LEMMA SetHolds ==
    ASSUME NEW c, GoodCache(c), NEW s \in Slot, NEW d
    PROVE  /\ Upto(c, Set(c, s, d), s)
           /\ Set(c, s, d)[s].valid /\ Set(c, s, d)[s].d = d /\ Set(c, s, d)[s].lock = None
<1>1. Set(c, s, d) = Lock(c, s, None, d) BY DEF Set, Lock
<1>2. QED BY <1>1, LockHolds

\* More references, and what entries in use hold is the same.
Grown(c, c2) ==
    /\ GoodCache(c2)
    /\ \A x \in Slot : Stays(c, c2, x) /\ (c[x].ref > 0 => c2[x].ref > 0)

\* idup.
LEMMA IdupHolds ==
    ASSUME NEW c, GoodCache(c), NEW s \in Slot, c[s].ref \in Nat, c[s].ref > 0
    PROVE  Grown(c, Idup(c, s))
<1> DEFINE c2 == Idup(c, s)
<1>1. DOMAIN c2 = Slot /\ \A x \in Slot : x # s => c2[x] = c[x] BY DEF GoodCache, Idup
<1>2. c2[s] = [c[s] EXCEPT !.ref = c[s].ref + 1] BY DEF GoodCache, Idup
<1>3. DOMAIN c[s] = Fields BY DEF GoodCache
<1> HIDE DEF c2
<1>4. /\ DOMAIN c2[s] = Fields /\ c2[s].ref = c[s].ref + 1 /\ c2[s].lock = c[s].lock
      /\ c2[s].inum = c[s].inum /\ c2[s].valid = c[s].valid /\ c2[s].d = c[s].d
  BY <1>2, <1>3 DEF Fields
<1>5. GoodCache(c2) BY <1>1, <1>4 DEF GoodCache
<1>6. \A x \in Slot : Stays(c, c2, x) /\ (c[x].ref > 0 => c2[x].ref > 0) BY <1>1, <1>4 DEF Stays
<1>7. QED BY <1>5, <1>6 DEF Grown, c2

\* iget: a new entry is not valid.
LEMMA IgetHolds ==
    ASSUME NEW c, GoodCache(c), NEW i, \A x \in Slot : c[x].ref \in Nat, Iget(c, i).got # None
    PROVE  Grown(c, Iget(c, i).c)
<1>1. CASE Cached(c, i) # {}
  <2>1. PICK s : s = Min(Cached(c, i)) OBVIOUS
  <2>2. s \in Slot /\ c[s].ref > 0
    <3>1. Cached(c, i) \subseteq Nat BY DEF Cached, Slot
    <3>2. s \in Cached(c, i) BY <1>1, <2>1, <3>1, LeastSlot
    <3>3. QED BY <3>2 DEF Cached
  <2>3. Iget(c, i).got = s /\ Iget(c, i).c = Idup(c, s) BY <1>1, <2>1 DEF Iget, Idup
  <2>4. QED BY <2>2, <2>3, IdupHolds
<1>2. CASE Cached(c, i) = {}
  <2>1. PICK s : s = Min(Empty(c)) OBVIOUS
  <2>2. Empty(c) # {} BY <1>2 DEF Iget
  <2>3. s \in Slot /\ c[s].ref = 0
    <3>1. Empty(c) \subseteq Nat BY DEF Empty, Slot
    <3>2. s \in Empty(c) BY <2>1, <2>2, <3>1, LeastSlot
    <3>3. QED BY <3>2 DEF Empty
  <2> DEFINE c2 == [c EXCEPT ![s].inum = i, ![s].ref = 1, ![s].valid = FALSE]
  <2>4. Iget(c, i).c = c2 BY <1>2, <2>1, <2>2 DEF Iget
  <2>5. DOMAIN c2 = Slot /\ \A x \in Slot : x # s => c2[x] = c[x] BY DEF GoodCache
  <2>6. c2[s] = [c[s] EXCEPT !.inum = i, !.ref = 1, !.valid = FALSE] BY <2>3 DEF GoodCache
  <2>7. DOMAIN c[s] = Fields BY <2>3 DEF GoodCache
  <2> HIDE DEF c2
  <2>8. DOMAIN c2[s] = Fields /\ c2[s].ref = 1 /\ c2[s].valid = FALSE BY <2>6, <2>7 DEF Fields
  <2>9. GoodCache(c2) BY <2>5, <2>8 DEF GoodCache
  <2>10. \A x \in Slot : Stays(c, c2, x) /\ (c[x].ref > 0 => c2[x].ref > 0)
    BY <2>3, <2>5, <2>8 DEF Stays
  <2>11. QED BY <2>4, <2>9, <2>10 DEF Grown
<1>3. QED BY <1>1, <1>2

\* The start of namex.
LEMMA NamexHolds ==
    ASSUME NEW p \in Proc, NEW x, NEW c, GoodCache(c), CacheRefs(c), cwd[p] \in Slot,
           c[cwd[p]].ref > 0, Namex(p, x, c).ok
    PROVE  Grown(c, Namex(p, x, c).c)
<1> DEFINE g == IF x.abs THEN Iget(c, ROOTINO) ELSE [got |-> cwd[p], c |-> Idup(c, cwd[p])]
<1>1. g.got # None /\ Namex(p, x, c).c = g.c BY DEF Namex
<1>2. CASE x.abs BY <1>1, <1>2, IgetHolds DEF CacheRefs
<1>3. CASE ~x.abs
  <2>1. g.c = Idup(c, cwd[p]) BY <1>3
  <2>2. QED BY <1>1, <2>1, IdupHolds DEF CacheRefs
<1>4. QED BY <1>2, <1>3

-----------------------------------------------------------------------------
(* writei and dirlink, and the inodes on the disk. *)

\* A working copy has the inodes of the disk.
WorkOK(w) ==
    /\ DOMAIN w = {"fs", "d", "a", "ok"} /\ DOMAIN w.fs = {"di", "used", "blk"}
    /\ DOMAIN w.fs.di = Inum
\* The same inodes on the disk, and the inode in memory has the same type.
SameInodes(w, w2) ==
    /\ WorkOK(w2) /\ w2.fs.di = w.fs.di /\ DOMAIN w2.d = DOMAIN w.d
    /\ "type" \in DOMAIN w.d => w2.d.type = w.d.type

\* SameInodes, from one to the next.
LEMMA SameOn ==
    ASSUME NEW w, NEW w2, NEW w3, SameInodes(w, w2), SameInodes(w2, w3)
    PROVE  SameInodes(w, w3)
BY DEF SameInodes

\* A change of the other parts.
LEMMA SameIf ==
    ASSUME NEW w, NEW w2, WorkOK(w), DOMAIN w2 = DOMAIN w, DOMAIN w2.fs = DOMAIN w.fs,
           w2.fs.di = w.fs.di, w2.d = w.d
    PROVE  SameInodes(w, w2)
BY DEF SameInodes, WorkOK

\* balloc changes the bitmap and the block.
LEMMA BallocSame == ASSUME NEW w, WorkOK(w) PROVE SameInodes(w, Balloc(w))
<1> DEFINE S == Block \ w.fs.used
           b == Min(S)
<1>1. CASE S = {}
  <2> DEFINE z == [w EXCEPT !.ok = FALSE]
  <2>1. Balloc(w) = z BY <1>1 DEF Balloc
  <2>2. DOMAIN z = DOMAIN w /\ z.fs = w.fs /\ z.d = w.d BY DEF WorkOK
  <2>3. QED BY <2>1, <2>2, SameIf
<1>2. CASE S # {}
  <2> DEFINE z == [w EXCEPT !.a = b, !.fs.used = @ \cup {b},
                            !.fs.blk[b] = [i \in 0..(UNITS - 1) |-> Zero]]
  <2>1. Balloc(w) = z BY <1>2 DEF Balloc
  <2> HIDE DEF b
  <2>2. DOMAIN z = DOMAIN w /\ DOMAIN z.fs = DOMAIN w.fs /\ z.fs.di = w.fs.di /\ z.d = w.d
    BY DEF WorkOK
  <2>3. QED BY <2>1, <2>2, SameIf
<1>3. QED BY <1>1, <1>2

\* bmap of a direct block, and of the indirect one.
LEMMA BmapAddrSame == ASSUME NEW w, WorkOK(w), NEW i PROVE SameInodes(w, BmapAddr(w, i))
<1>1. CASE w.d.addrs[i] # None
  <2> DEFINE z == [w EXCEPT !.a = w.d.addrs[i]]
  <2>1. BmapAddr(w, i) = z BY <1>1 DEF BmapAddr
  <2>2. DOMAIN z = DOMAIN w /\ z.fs = w.fs /\ z.d = w.d BY DEF WorkOK
  <2>3. QED BY <2>1, <2>2, SameIf
<1>2. CASE ~(w.d.addrs[i] # None)
  <2> DEFINE x == Balloc(w)
             z == [x EXCEPT !.d.addrs[i] = x.a]
  <2>1. BmapAddr(w, i) = IF x.ok THEN z ELSE x BY <1>2 DEF BmapAddr, Then
  <2>2. SameInodes(w, x) BY BallocSame
  <2> HIDE DEF x
  <2>3. SameInodes(x, z)
    <3>1. /\ DOMAIN z = DOMAIN x /\ z.fs = x.fs
          /\ z.d = [x.d EXCEPT !.addrs[i] = x.a]
      BY <2>2 DEF SameInodes, WorkOK
    <3> HIDE DEF z
    <3>2. DOMAIN z.d = DOMAIN x.d /\ ("type" \in DOMAIN x.d => z.d.type = x.d.type) BY <3>1
    <3>3. QED BY <2>2, <3>1, <3>2 DEF SameInodes, WorkOK
  <2> HIDE DEF z
  <2>4. QED BY <2>1, <2>2, <2>3, SameOn
<1>3. QED BY <1>1, <1>2

\* bmap of a block that the indirect block lists.
LEMMA BmapIndirectSame ==
    ASSUME NEW w, WorkOK(w), NEW b, NEW i
    PROVE  SameInodes(w, BmapIndirect(w, b, i))
<1>1. CASE w.fs.blk[b][i] # Zero
  <2> DEFINE z == [w EXCEPT !.a = w.fs.blk[b][i].v]
  <2>1. BmapIndirect(w, b, i) = z BY <1>1 DEF BmapIndirect
  <2>2. DOMAIN z = DOMAIN w /\ z.fs = w.fs /\ z.d = w.d BY DEF WorkOK
  <2>3. QED BY <2>1, <2>2, SameIf
<1>2. CASE ~(w.fs.blk[b][i] # Zero)
  <2> DEFINE x == Balloc(w)
             z == [x EXCEPT !.fs.blk[b][i] = Ptr(x.a)]
  <2>1. BmapIndirect(w, b, i) = IF x.ok THEN z ELSE x BY <1>2 DEF BmapIndirect, Then
  <2>2. SameInodes(w, x) BY BallocSame
  <2> HIDE DEF x
  <2>3. SameInodes(x, z)
    <3>1. DOMAIN z = DOMAIN x /\ DOMAIN z.fs = DOMAIN x.fs /\ z.fs.di = x.fs.di /\ z.d = x.d
      BY <2>2 DEF SameInodes, WorkOK
    <3>2. QED BY <2>2, <3>1, SameIf DEF SameInodes
  <2> HIDE DEF z
  <2>4. QED BY <2>1, <2>2, <2>3, SameOn
<1>3. QED BY <1>1, <1>2

\* bmap.
LEMMA BmapSame == ASSUME NEW w, WorkOK(w), NEW bn PROVE SameInodes(w, Bmap(w, bn))
<1> DEFINE x == BmapAddr(w, NDIRECT)
           z == BmapIndirect(x, x.a, bn - NDIRECT)
<1>1. Bmap(w, bn) = IF bn < NDIRECT THEN BmapAddr(w, bn) ELSE IF x.ok THEN z ELSE x
  BY DEF Bmap, Then
<1>2. SameInodes(w, BmapAddr(w, bn)) /\ SameInodes(w, x) BY BmapAddrSame
<1>3. WorkOK(x) BY <1>2 DEF SameInodes
<1> HIDE DEF x
<1>4. SameInodes(x, z) BY <1>3, BmapIndirectSame
<1> HIDE DEF z
<1>5. QED BY <1>1, <1>2, <1>4, SameOn

\* A unit is written.
LEMMA WriteUnitSame ==
    ASSUME NEW w, WorkOK(w), NEW off, NEW u
    PROVE  SameInodes(w, WriteUnit(w, off, u))
<1> DEFINE y == Bmap(w, off \div UNITS)
           z == [y EXCEPT !.fs.blk[y.a][off % UNITS] = u]
<1>1. WriteUnit(w, off, u) = IF w.ok THEN IF y.ok THEN z ELSE y ELSE w BY DEF WriteUnit, Then
<1>2. SameInodes(w, y) /\ SameInodes(w, w) BY BmapSame DEF SameInodes
<1> HIDE DEF y
<1>3. SameInodes(y, z)
  <2>1. DOMAIN z = DOMAIN y /\ DOMAIN z.fs = DOMAIN y.fs /\ z.fs.di = y.fs.di /\ z.d = y.d
    BY <1>2 DEF SameInodes, WorkOK
  <2>2. QED BY <1>2, <2>1, SameIf DEF SameInodes
<1> HIDE DEF z
<1>4. QED BY <1>1, <1>2, <1>3, SameOn

\* The least number of a set.
LEMMA LeastNat == ASSUME NEW S, S \subseteq Nat, S # {} PROVE \E m \in S : \A k \in S : m <= k
<1>1. \E m \in S : \A k \in S : ~ (<<k, m>> \in OpToRel(<, Nat)) BY WFMin, NatLessThanWellFounded
<1>2. PICK m \in S : \A k \in S : ~ (<<k, m>> \in OpToRel(<, Nat)) BY <1>1
<1>3. \A k \in S : ~ (k < m) BY <1>2 DEF OpToRel
<1>4. QED BY <1>3

\* Induction over the natural numbers, for a set.
LEMMA EveryNat == ASSUME NEW S \in SUBSET Nat, 0 \in S, \A n \in S : n + 1 \in S PROVE S = Nat
<1>1. SUFFICES ASSUME Nat \ S # {} PROVE FALSE OBVIOUS
<1>2. PICK n \in Nat \ S : \A m \in Nat \ S : n <= m BY <1>1, LeastNat
<1>3. n - 1 \in S BY <1>2
<1>4. QED BY <1>2, <1>3

\* FoldLeft takes the largest index that is left: there is one.
LEMMA MaxIn == ASSUME NEW n \in Nat, NEW s \in SUBSET (1..n), s # {} PROVE Max(s) \in s
<1> DEFINE U == {m \in Nat : \A k \in s : k <= m}
<1>1. U \subseteq Nat /\ n \in U OBVIOUS
<1>2. PICK m \in U : \A k \in U : m <= k
  <2> HIDE DEF U
  <2>1. QED BY <1>1, LeastNat
<1>3. ASSUME m \notin s PROVE FALSE
  <2>1. \A k \in s : k \in Nat /\ k >= 1 /\ k <= m /\ k # m BY <1>2, <1>3
  <2>2. PICK k \in s : TRUE OBVIOUS
  <2>3. m \in Nat /\ m >= 1 BY <2>1, <1>2, <2>2
  <2>4. m - 1 \in U BY <2>1, <2>3
  <2>5. QED BY <2>4, <2>3, <1>2
<1>4. \E x \in s : \A k \in s : k <= x BY <1>2, <1>3
<1>5. QED BY <1>4 DEF Max

\* The i-th unit of us is written.
WriteNth(w, off, us, i) == WriteUnit(w, off + i - 1, us[i])
\* g has what is written by the units with the numbers in s, for the s in D.
Writes(g, D, w, off, us) ==
    \A s \in D : g[s] = IF s = {} THEN w ELSE WriteNth(g[s \ {Max(s)}], off, us, Max(s))

\* The loop of writei: there is such a g.
LEMMA WritesExist ==
    ASSUME NEW n \in Nat, NEW w, NEW off, NEW us
    PROVE  \E g : Writes(g, SUBSET (1..n), w, off, us)
<1> DEFINE S == 1..n
           D(k) == {s \in SUBSET S : Cardinality(s) <= k}
           E(k) == \E g : Writes(g, D(k), w, off, us)
           N == {k \in Nat : E(k)}
<1>0. IsFiniteSet(S) BY FS_Interval
<1>1. \A s \in SUBSET S : /\ IsFiniteSet(s) /\ Cardinality(s) \in Nat
                          /\ Cardinality(s) = 0 <=> s = {}
                          /\ s # {} => Max(s) \in s /\ Cardinality(s \ {Max(s)}) = Cardinality(s) - 1
  BY <1>0, MaxIn, FS_Subset, FS_CardinalityType, FS_RemoveElement, FS_EmptySet
<1>2. 0 \in N
  <2>1. \A s \in D(0) : s = {}
    <3> SUFFICES ASSUME NEW s \in SUBSET S, Cardinality(s) <= 0 PROVE s = {} OBVIOUS
    <3>0. Cardinality(s) \in Nat BY <1>1
    <3>1. Cardinality(s) = 0 BY <3>0
    <3>2. QED BY <3>1, <1>1
  <2>2. Writes([s \in D(0) |-> w], D(0), w, off, us) BY <2>1 DEF Writes
  <2>3. E(0) BY <2>2
  <2>4. QED BY <2>3
<1>3. ASSUME NEW k \in N PROVE k + 1 \in N
  <2>1. k \in Nat /\ E(k) BY <1>3
  <2>2. PICK h : Writes(h, D(k), w, off, us) BY <2>1
  <2> DEFINE g == [s \in D(k + 1) |->
                     IF s = {} THEN w ELSE WriteNth(h[s \ {Max(s)}], off, us, Max(s))]
  <2>3. \A s \in D(k + 1) : s # {} => s \ {Max(s)} \in D(k) /\ s \ {Max(s)} \in D(k + 1)
    <3> SUFFICES ASSUME NEW s \in SUBSET S, Cardinality(s) <= k + 1, s # {}
                 PROVE  /\ s \ {Max(s)} \in SUBSET S /\ Cardinality(s \ {Max(s)}) <= k
                        /\ Cardinality(s \ {Max(s)}) <= k + 1
      OBVIOUS
    <3>1. Cardinality(s \ {Max(s)}) = Cardinality(s) - 1 /\ Cardinality(s) \in Nat BY <1>1
    <3>2. PICK m : m = Max(s) OBVIOUS
    <3>3. PICK r : r = s \ {m} OBVIOUS
    <3>4. r \in SUBSET S BY <3>3
    <3>5. Cardinality(r) = Cardinality(s) - 1 BY <3>1, <3>2, <3>3
    <3>6. Cardinality(r) <= k /\ Cardinality(r) <= k + 1 BY <2>1, <3>1, <3>5
    <3>7. QED BY <3>2, <3>3, <3>4, <3>6
  <2>4. \A s \in D(k) : s \in D(k + 1)
    <3> SUFFICES ASSUME NEW s \in SUBSET S, Cardinality(s) <= k PROVE Cardinality(s) <= k + 1
      OBVIOUS
    <3>1. Cardinality(s) \in Nat BY <1>1
    <3>2. QED BY <2>1, <3>1
  <2>5. \A s \in D(k) : g[s] = h[s] BY <2>2, <2>4 DEF Writes
  <2>6. Writes(g, D(k + 1), w, off, us)
    <3>1. \A s \in D(k + 1) : s # {} => g[s \ {Max(s)}] = h[s \ {Max(s)}] BY <2>3, <2>5
    <3>2. QED BY <3>1 DEF Writes
  <2> HIDE DEF g, D
  <2>7. E(k + 1) BY <2>6
  <2>8. QED BY <2>1, <2>7
<1>4. Cardinality(S) \in N
  <2>1. N \subseteq Nat OBVIOUS
  <2> HIDE DEF N
  <2>2. N = Nat BY <1>2, <1>3, <2>1, EveryNat
  <2>3. QED BY <1>1, <2>2
<1>5. D(Cardinality(S)) = SUBSET S BY <1>0, FS_Subset, FS_CardinalityType
<1> HIDE DEF D
<1>6. QED BY <1>4, <1>5

\* The loop changes no inode on the disk.
LEMMA WritesSame ==
    ASSUME NEW n \in Nat, NEW w, WorkOK(w), NEW off, NEW us, NEW g,
           Writes(g, SUBSET (1..n), w, off, us)
    PROVE  SameInodes(w, g[1..n])
<1> DEFINE S == 1..n
           N == {k \in Nat : \A s \in SUBSET S : Cardinality(s) = k => SameInodes(w, g[s])}
<1>0. IsFiniteSet(S) BY FS_Interval
<1>1. \A s \in SUBSET S : /\ Cardinality(s) \in Nat
                          /\ Cardinality(s) = 0 <=> s = {}
                          /\ s # {} => Max(s) \in s /\ Cardinality(s \ {Max(s)}) = Cardinality(s) - 1
  BY <1>0, MaxIn, FS_Subset, FS_CardinalityType, FS_RemoveElement, FS_EmptySet
<1>2. 0 \in N
  <2>1. g[{}] = w BY DEF Writes
  <2>2. SameInodes(w, w) BY DEF SameInodes
  <2>3. QED BY <1>1, <2>1, <2>2
<1>3. ASSUME NEW k \in N PROVE k + 1 \in N
  <2>1. k \in Nat OBVIOUS
  <2>2. ASSUME NEW s \in SUBSET S, Cardinality(s) = k + 1 PROVE SameInodes(w, g[s])
    <3>0. Cardinality(s) # 0 BY <2>1, <2>2
    <3>1. s # {} BY <1>1, <3>0
    <3>2. s \ {Max(s)} \in SUBSET S /\ Cardinality(s \ {Max(s)}) = k
      <4>1. PICK r : r = s \ {Max(s)} OBVIOUS
      <4>2. Cardinality(r) = Cardinality(s) - 1 BY <1>1, <3>1, <4>1
      <4>3. Cardinality(r) = k BY <2>1, <2>2, <4>2
      <4>4. r \in SUBSET S BY <4>1
      <4>5. QED BY <4>1, <4>3, <4>4
    <3>3. PICK v : v = g[s \ {Max(s)}] OBVIOUS
    <3>4. SameInodes(w, v) BY <3>2, <3>3
    <3>5. g[s] = WriteUnit(v, off + Max(s) - 1, us[Max(s)]) BY <3>1, <3>3 DEF Writes, WriteNth
    <3>6. SameInodes(v, g[s]) BY <3>4, <3>5, WriteUnitSame DEF SameInodes
    <3>7. QED BY <3>4, <3>6, SameOn
  <2>3. k + 1 \in Nat BY <2>1
  <2>4. QED BY <2>2, <2>3
<1>4. Cardinality(S) \in N
  <2>1. N \subseteq Nat OBVIOUS
  <2> HIDE DEF N
  <2>2. N = Nat BY <1>2, <1>3, <2>1, EveryNat
  <2>3. QED BY <1>1, <2>2
<1>5. QED BY <1>4

\* writei of the units us, up to its iupdate.
Written(w, off, us) ==
    FoldLeft(LAMBDA x, i : WriteUnit(x, off + i - 1, us[i]), w, [i \in 1..Len(us) |-> i])
\* They change no inode on the disk.
LEMMA WrittenSame ==
    ASSUME NEW w, WorkOK(w), NEW off, NEW us, Len(us) \in Nat
    PROVE  SameInodes(w, Written(w, off, us))
<1> DEFINE S == 1..Len(us)
           Eq(g) == g = [s \in SUBSET S |->
                           IF s = {} THEN w
                           ELSE WriteUnit(g[s \ {Max(s)}],
                                          off + [i \in 1..Len(us) |-> i][Max(s)] - 1,
                                          us[[i \in 1..Len(us) |-> i][Max(s)]])]
<1>1. Written(w, off, us) = (CHOOSE g : Eq(g))[S]
  BY Zenon DEF Written, FoldLeft, MapThenFoldSet
<1>2. \A s \in SUBSET S : s # {} => [i \in 1..Len(us) |-> i][Max(s)] = Max(s)
  <2> SUFFICES ASSUME NEW s \in SUBSET S, s # {} PROVE [i \in 1..Len(us) |-> i][Max(s)] = Max(s)
    OBVIOUS
  <2>1. Max(s) \in S BY MaxIn
  <2>2. QED BY <2>1
<1>3. PICK h : Writes(h, SUBSET S, w, off, us) BY WritesExist
<1> DEFINE g == [s \in SUBSET S |-> h[s]]
<1>4. Eq(g)
  <2>1. \A s \in SUBSET S : h[s] = IF s = {} THEN w
                                   ELSE WriteUnit(g[s \ {Max(s)}],
                                          off + [i \in 1..Len(us) |-> i][Max(s)] - 1,
                                          us[[i \in 1..Len(us) |-> i][Max(s)]])
    <3> SUFFICES ASSUME NEW s \in SUBSET S
                 PROVE  h[s] = IF s = {} THEN w
                               ELSE WriteUnit(g[s \ {Max(s)}],
                                          off + [i \in 1..Len(us) |-> i][Max(s)] - 1,
                                          us[[i \in 1..Len(us) |-> i][Max(s)]])
      OBVIOUS
    <3>1. CASE s = {} BY <1>3, <3>1 DEF Writes
    <3>2. CASE s # {}
      <4>1. h[s] = WriteUnit(h[s \ {Max(s)}], off + Max(s) - 1, us[Max(s)])
        BY <1>3, <3>2 DEF Writes, WriteNth
      <4>2. g[s \ {Max(s)}] = h[s \ {Max(s)}] OBVIOUS
      <4>3. PICK m : m = Max(s) OBVIOUS
      <4>4. [i \in 1..Len(us) |-> i][m] = m BY <1>2, <3>2, <4>3
      <4> HIDE DEF g
      <4>5. QED BY Zenon, <3>2, <4>1, <4>2, <4>3, <4>4
    <3>3. QED BY <3>1, <3>2
  <2>2. QED BY Zenon, <2>1
<1>5. PICK f : f = CHOOSE k : Eq(k) OBVIOUS
<1>6. Eq(f) BY ZenonT(60), <1>4, <1>5
<1>7. Writes(f, SUBSET S, w, off, us)
  <2> SUFFICES ASSUME NEW s \in SUBSET S
               PROVE  f[s] = IF s = {} THEN w ELSE WriteNth(f[s \ {Max(s)}], off, us, Max(s))
    BY DEF Writes
  <2>1. CASE s = {} BY <1>6, <2>1
  <2>2. CASE s # {}
    <3>1. PICK m : m = Max(s) OBVIOUS
    <3>2. [i \in 1..Len(us) |-> i][m] = m BY <1>2, <2>2, <3>1
    <3>3. PICK e : e = f[s \ {m}] OBVIOUS
    <3>4. f[s] = WriteUnit(e, off + [i \in 1..Len(us) |-> i][m] - 1, us[[i \in 1..Len(us) |-> i][m]])
      BY ZenonT(30), <1>6, <2>2, <3>1, <3>3
    <3>5. QED BY <2>2, <3>1, <3>2, <3>3, <3>4 DEF WriteNth
  <2>3. QED BY <2>1, <2>2
<1>8. QED BY <1>1, <1>5, <1>7, WritesSame

\* The inodes of a disk.
TreeOK(f) == DOMAIN f = {"di", "used", "blk"} /\ DOMAIN f.di = Inum

\* iupdate.
LEMMA IupdateDisk ==
    ASSUME NEW f, TreeOK(f), NEW i, NEW d
    PROVE  /\ TreeOK(Iupdate(f, i, d))
           /\ \A j \in Inum : Iupdate(f, i, d).di[j] = IF j = i THEN d ELSE f.di[j]
<1> DEFINE g == Iupdate(f, i, d)
<1>1. g = [f EXCEPT !.di[i] = d] BY DEF Iupdate
<1>2. DOMAIN g = {"di", "used", "blk"} /\ g.di = [f.di EXCEPT ![i] = d] BY <1>1 DEF TreeOK
<1> HIDE DEF g
<1>3. DOMAIN g.di = Inum /\ \A j \in Inum : g.di[j] = IF j = i THEN d ELSE f.di[j]
  BY <1>2 DEF TreeOK
<1>4. QED BY <1>2, <1>3 DEF TreeOK, g

\* Only the inode inum changed on the disk, to what it is in memory.
Wrote(w, w2, inum) ==
    /\ WorkOK(w2) /\ DOMAIN w2.d = DOMAIN w.d
    /\ "type" \in DOMAIN w.d => w2.d.type = w.d.type
    /\ \A j \in Inum : w2.fs.di[j] = w.fs.di[j] \/ (j = inum /\ w2.fs.di[j] = w2.d)
    /\ w2.ok /\ inum \in Inum => w2.fs.di[inum] = w2.d

\* A write that fails.
LEMMA FailWrote ==
    ASSUME NEW w, WorkOK(w), NEW inum
    PROVE  Wrote(w, [w EXCEPT !.ok = FALSE], inum)
<1> DEFINE z == [w EXCEPT !.ok = FALSE]
<1>1. DOMAIN z = DOMAIN w /\ z.fs = w.fs /\ z.d = w.d /\ z.ok = FALSE BY DEF WorkOK
<1> HIDE DEF z
<1>2. Wrote(w, z, inum) BY <1>1 DEF Wrote, WorkOK
<1>3. QED BY <1>2 DEF z

\* The end of writei.
LEMMA ExtendWrote ==
    ASSUME NEW w, WorkOK(w), NEW inum, NEW end
    PROVE  Wrote(w, Extend(w, inum, end), inum)
<1> DEFINE d == [w.d EXCEPT !.size = IF end > w.d.size THEN end ELSE w.d.size]
           z == Extend(w, inum, end)
           f == Iupdate(w.fs, inum, d)
<1>1. z = [w EXCEPT !.d = d, !.fs = f] BY DEF Extend
<1>2. DOMAIN d = DOMAIN w.d /\ ("type" \in DOMAIN w.d => d.type = w.d.type) OBVIOUS
<1> HIDE DEF d
<1>3. TreeOK(f) /\ \A j \in Inum : f.di[j] = IF j = inum THEN d ELSE w.fs.di[j]
  BY IupdateDisk DEF WorkOK, TreeOK
<1> HIDE DEF f, z
<1>4. DOMAIN z = {"fs", "d", "a", "ok"} /\ z.fs = f /\ z.d = d BY <1>1 DEF WorkOK
<1>5. WorkOK(z) BY <1>3, <1>4 DEF WorkOK, TreeOK
<1>6. Wrote(w, z, inum) BY <1>2, <1>3, <1>4, <1>5 DEF Wrote
<1>7. QED BY <1>6 DEF z

\* writei.
LEMMA WriteiWrote ==
    ASSUME NEW w, WorkOK(w), NEW inum, NEW off, NEW us, Len(us) \in Nat
    PROVE  Wrote(w, Writei(w, inum, off, us), inum)
<1> DEFINE x == Written(w, off, us)
           z == Extend(x, inum, off + Len(us))
<1>1. Writei(w, inum, off, us) = IF TooFar(w.d, off, Len(us)) THEN [w EXCEPT !.ok = FALSE]
                                 ELSE IF x.ok THEN z ELSE x
  BY Zenon DEF Writei, Then, Written
<1>2. SameInodes(w, x) BY WrittenSame
<1> HIDE DEF x
<1>3. WorkOK(x) BY <1>2 DEF SameInodes
<1>4. Wrote(x, z, inum) BY <1>3, ExtendWrote
<1> HIDE DEF z
<1>5. Wrote(w, z, inum) BY <1>2, <1>4 DEF SameInodes, Wrote
<1>6. Wrote(w, [w EXCEPT !.ok = FALSE], inum) BY FailWrote
<1>7. ~x.ok => Wrote(w, x, inum) BY <1>2 DEF SameInodes, Wrote
<1>8. QED BY <1>1, <1>5, <1>6, <1>7

\* dirlink.
LEMMA DirlinkWrote ==
    ASSUME NEW w, WorkOK(w), NEW inum, NEW name, NEW target
    PROVE  /\ w.ok => Wrote(w, Dirlink(w, inum, name, target), inum)
           /\ ~w.ok => Dirlink(w, inum, name, target) = w
<1> DEFINE us == <<Dirent(name, target)>>
           z == Writei(w, inum, FreeEntry(w.fs, w.d), us)
<1>1. Dirlink(w, inum, name, target) =
        IF w.ok THEN IF Found(w.fs, w.d, name) THEN [w EXCEPT !.ok = FALSE] ELSE z ELSE w
  BY DEF Dirlink, Then
<1>2. Len(us) \in Nat OBVIOUS
<1>3. Wrote(w, z, inum)
  <2> HIDE DEF us
  <2>1. QED BY <1>2, WriteiWrote
<1>4. Wrote(w, [w EXCEPT !.ok = FALSE], inum) BY FailWrote
<1> HIDE DEF z
<1>5. QED BY <1>1, <1>3, <1>4

\* A new working copy.
LEMMA WorkFresh ==
    ASSUME NEW f, TreeOK(f), NEW d
    PROVE  /\ WorkOK(Work(f, d)) /\ Work(f, d).fs = f /\ Work(f, d).d = d /\ Work(f, d).ok
BY DEF Work, WorkOK, TreeOK

\* What create makes of the disk f and of the directory dd, which is d in memory:
\* the disk has both inodes as they are in memory, with their types.
Made(f, dd, d, inum, w) ==
    /\ TreeOK(w.fs)
    /\ \A j \in Inum : j \notin {dd, inum} => w.fs.di[j] = f.di[j]
    /\ dd \in Inum => w.fs.di[dd] = w.d
    /\ DOMAIN d = DinodeFields => DOMAIN w.d = DinodeFields /\ w.d.type = d.type
    /\ inum \in Inum /\ inum # dd => DOMAIN w.fs.di[inum] = DinodeFields
                                     /\ w.fs.di[inum].type = f.di[inum].type

\* The entry of create in the directory.
LEMMA EntryMade ==
    ASSUME NEW f, TreeOK(f), NEW g, TreeOK(g), NEW dd, NEW d, NEW e, NEW inum, NEW name,
           \A j \in Inum : j \notin {dd, inum} => g.di[j] = f.di[j],
           DOMAIN d = DinodeFields => DOMAIN e = DinodeFields /\ e.type = d.type,
           inum \in Inum /\ inum # dd => DOMAIN g.di[inum] = DinodeFields
                                         /\ g.di[inum].type = f.di[inum].type,
           Dirlink(Work(g, e), dd, name, inum).ok
    PROVE  Made(f, dd, d, inum, Dirlink(Work(g, e), dd, name, inum))
<1> DEFINE v == Work(g, e)
           w == Dirlink(v, dd, name, inum)
<1>1. WorkOK(v) /\ v.fs = g /\ v.d = e /\ v.ok BY WorkFresh
<1> HIDE DEF v
<1>2. Wrote(v, w, dd) BY <1>1, DirlinkWrote
<1>3. w.ok BY DEF v
<1> HIDE DEF w
<1>4. Made(f, dd, d, inum, w) BY <1>1, <1>2, <1>3 DEF Made, Wrote, WorkOK, TreeOK, DinodeFields
<1>5. QED BY <1>4 DEF w, v

\* create.
LEMMA MakeMade ==
    ASSUME NEW f, DiskOK(f), NEW dd, NEW d, NEW inum, NEW name, Make(f, dd, d, inum, name).ok
    PROVE  Made(f, dd, d, inum, Make(f, dd, d, inum, name))
<1> DEFINE n == [f.di[inum] EXCEPT !.nlink = 1]
           g == Iupdate(f, inum, n)
           w == Work(g, n)
           e == [d EXCEPT !.nlink = d.nlink + 1]
           x == Dirlink(Dirlink(w, inum, ".", inum), inum, "..", dd)
           h == Iupdate(x.fs, dd, e)
           y == Dirlink(Work(h, e), dd, name, inum)
           z == Dirlink(Work(w.fs, d), dd, name, inum)
<1>0. TreeOK(f) BY DEF DiskOK, TreeOK
<1>1. Make(f, dd, d, inum, name) = IF n.type = "dir" THEN IF x.ok THEN y ELSE x ELSE z
  BY DEF Make, Then, Dots, Nlink
<1>2. inum \in Inum => DOMAIN n = DinodeFields /\ n.type = f.di[inum].type
  BY DEF DiskOK, DinodeFields
<1> HIDE DEF n
<1>3. TreeOK(g) /\ \A j \in Inum : g.di[j] = IF j = inum THEN n ELSE f.di[j] BY <1>0, IupdateDisk
<1> HIDE DEF g
<1>4. WorkOK(w) /\ w.fs = g /\ w.d = n /\ w.ok BY <1>3, WorkFresh
<1> HIDE DEF w
<1>5. CASE ~(n.type = "dir")
  <2>1. z.ok /\ Make(f, dd, d, inum, name) = z BY <1>1, <1>5
  <2>2. inum \in Inum /\ inum # dd => DOMAIN g.di[inum] = DinodeFields
                                      /\ g.di[inum].type = f.di[inum].type
    BY <1>2, <1>3
  <2>3. Dirlink(Work(g, d), dd, name, inum).ok /\ z = Dirlink(Work(g, d), dd, name, inum)
    BY <1>4, <2>1
  <2> HIDE DEF z
  <2>4. Made(f, dd, d, inum, z) BY <1>0, <1>3, <2>2, <2>3, EntryMade
  <2>5. QED BY <2>1, <2>4
<1>6. CASE n.type = "dir"
  <2>1. x.ok /\ y.ok /\ Make(f, dd, d, inum, name) = y BY <1>1, <1>6
  <2> DEFINE u == Dirlink(w, inum, ".", inum)
  <2>2. Wrote(w, u, inum) BY <1>4, DirlinkWrote
  <2>3. WorkOK(u) BY <2>2 DEF Wrote
  <2>4. (u.ok => Wrote(u, x, inum)) /\ (~u.ok => x = u)
    <3> HIDE DEF u, x
    <3>1. x = Dirlink(u, inum, "..", dd) BY DEF x, u
    <3>2. QED BY <2>3, <3>1, DirlinkWrote
  <2> HIDE DEF u, x
  <2>5. Wrote(u, x, inum) BY <2>1, <2>4
  <2>6. TreeOK(x.fs) BY <2>5 DEF Wrote, WorkOK, TreeOK
  <2>7. \A j \in Inum : j # inum => x.fs.di[j] = f.di[j]
    BY <1>3, <1>4, <2>2, <2>5 DEF Wrote
  <2>8. inum \in Inum => DOMAIN x.fs.di[inum] = DinodeFields /\ x.fs.di[inum].type = f.di[inum].type
    BY <1>2, <1>4, <2>1, <2>2, <2>5 DEF Wrote, DinodeFields
  <2>9. DOMAIN d = DinodeFields => DOMAIN e = DinodeFields /\ e.type = d.type BY DEF DinodeFields
  <2> HIDE DEF e
  <2>10. TreeOK(h) /\ \A j \in Inum : h.di[j] = IF j = dd THEN e ELSE x.fs.di[j]
    BY <2>6, IupdateDisk
  <2> HIDE DEF h
  <2>11. \A j \in Inum : j \notin {dd, inum} => h.di[j] = f.di[j] BY <2>7, <2>10
  <2>12. inum \in Inum /\ inum # dd => DOMAIN h.di[inum] = DinodeFields
                                       /\ h.di[inum].type = f.di[inum].type
    BY <2>8, <2>10
  <2>13. Made(f, dd, d, inum, y) BY <1>0, <2>1, <2>9, <2>10, <2>11, <2>12, EntryMade
  <2>14. QED BY <2>1, <2>13
<1>7. QED BY <1>5, <1>6

-----------------------------------------------------------------------------
(* Steps that change what one entry holds. *)

\* The entry s has the inode d and the lock l; entries in use are the same
\* otherwise.
Chg(c, c2, s, d, l) ==
    /\ GoodCache(c2)
    /\ \A x \in Slot : (x # s => Stays(c, c2, x)) /\ (c[x].ref > 0 => c2[x].ref > 0)
    /\ c2[s].inum = c[s].inum /\ c2[s].valid /\ c2[s].d = d /\ c2[s].lock = l

\* A change of nothing but what one entry holds.
LEMMA UptoChg ==
    ASSUME NEW c, NEW c2, NEW s \in Slot, Upto(c, c2, s), c2[s].valid
    PROVE  Chg(c, c2, s, c2[s].d, c2[s].lock)
BY DEF Upto, Chg, Stays

\* ilock, and ilock with iunlock.
LEMMA ChgLock ==
    ASSUME NEW c, GoodCache(c), NEW s \in Slot, NEW p, NEW d
    PROVE  Chg(c, Lock(c, s, p, d), s, d, p) /\ Chg(c, Set(c, s, d), s, d, None)
<1>1. Chg(c, Lock(c, s, p, d), s, d, p)
  <2> DEFINE c2 == Lock(c, s, p, d)
  <2>1. Upto(c, c2, s) /\ c2[s].valid /\ c2[s].d = d /\ c2[s].lock = p BY LockHolds
  <2> HIDE DEF c2
  <2>2. Chg(c, c2, s, d, p) BY <2>1, UptoChg
  <2>3. QED BY <2>2 DEF c2
<1>2. Chg(c, Set(c, s, d), s, d, None)
  <2> DEFINE c2 == Set(c, s, d)
  <2>1. Upto(c, c2, s) /\ c2[s].valid /\ c2[s].d = d /\ c2[s].lock = None BY SetHolds
  <2> HIDE DEF c2
  <2>2. Chg(c, c2, s, d, None) BY <2>1, UptoChg
  <2>3. QED BY <2>2 DEF c2
<1>3. QED BY <1>1, <1>2

\* iunlock of an entry that is valid.
LEMMA ChgUnlock ==
    ASSUME NEW c, GoodCache(c), NEW s \in Slot, c[s].valid
    PROVE  Chg(c, Unlock(c, s), s, c[s].d, None)
<1> DEFINE c2 == Unlock(c, s)
<1>1. Upto(c, c2, s) /\ c2[s].valid /\ c2[s].d = c[s].d /\ c2[s].lock = None BY UnlockHolds
<1> HIDE DEF c2
<1>2. Chg(c, c2, s, c[s].d, None) BY <1>1, UptoChg
<1>3. QED BY <1>2 DEF c2

\* Then more references.
LEMMA ChgGrown ==
    ASSUME NEW c, NEW c2, NEW c3, NEW s \in Slot, NEW d, NEW l, c[s].ref > 0, Chg(c, c2, s, d, l),
           Grown(c2, c3)
    PROVE  Chg(c, c3, s, d, l)
<1>1. c2[s].ref > 0 BY DEF Chg
<1>2. Stays(c2, c3, s) BY DEF Grown
<1>3. c3[s].inum = c[s].inum /\ c3[s].valid /\ c3[s].d = d /\ c3[s].lock = l
  BY <1>1, <1>2 DEF Chg, Stays
<1>4. ASSUME NEW x \in Slot, x # s PROVE Stays(c, c3, x)
  <2>1. Stays(c, c2, x) /\ Stays(c2, c3, x) /\ (c[x].ref > 0 => c2[x].ref > 0)
    BY <1>4 DEF Chg, Grown
  <2>2. CASE c[x].ref > 0 BY <2>1, <2>2 DEF Stays
  <2>3. CASE ~(c[x].ref > 0)
    <3>1. CASE c2[x].ref > 0 BY <2>1, <2>3, <3>1 DEF Stays
    <3>2. CASE ~(c2[x].ref > 0) BY <2>1, <2>3, <3>2 DEF Stays
    <3>3. QED BY <3>1, <3>2
  <2>4. QED BY <2>2, <2>3
<1>5. \A x \in Slot : c[x].ref > 0 => c3[x].ref > 0 BY DEF Chg, Grown
<1>6. QED BY <1>3, <1>4, <1>5 DEF Chg, Grown

\* Then iunlock.
LEMMA ChgUnlockAfter ==
    ASSUME NEW c, NEW c2, NEW s \in Slot, NEW d, NEW l, Chg(c, c2, s, d, l)
    PROVE  Chg(c, Unlock(c2, s), s, d, None)
<1> DEFINE c3 == Unlock(c2, s)
<1>1. Upto(c2, c3, s) /\ c3[s].valid = c2[s].valid /\ c3[s].d = c2[s].d /\ c3[s].lock = None
  BY UnlockHolds DEF Chg
<1> HIDE DEF c3
<1>2. \A x \in Slot : x # s => Stays(c, c3, x) BY <1>1 DEF Upto, Chg, Stays
<1>3. \A x \in Slot : c[x].ref > 0 => c3[x].ref > 0 BY <1>1 DEF Upto, Chg
<1>4. Chg(c, c3, s, d, None) BY <1>1, <1>2, <1>3 DEF Upto, Chg
<1>5. QED BY <1>4 DEF c3

\* A step of p that leaves s with the inode that the disk has, and changes no
\* other inode but a free one.
LEMMA DataChange ==
    ASSUME All, DataInv, NEW p \in Proc, NEW y, After(p, y), NEW s \in Slot, NEW d, NEW l,
           Chg(ic, ic', s, d, l), ic[s].ref > 0, ic[s].lock = None \/ ic[s].lock = p, DiskOK(fs'),
           \A j \in Inum : fs'.di[j] = fs.di[j] \/ fs.di[j].type = "none" \/ j = ic[s].inum,
           ic[s].inum \in Inum => d = fs'.di[ic[s].inum] /\ d.type # "none",
           t[p].pc # "iinval", y.pc \notin {"itrunc", "iinval"},
           \A x \in Slot : Holds(y, x) => (x = s /\ l = p) \/ (x # s /\ Holds(t[p], x))
    PROVE  DataInv'
<1> DEFINE K == {s}
<1>1. K \in SUBSET Slot /\ \A x : x \in K <=> x = s OBVIOUS
<1> HIDE DEF K
<1>2. ASSUME NEW x \in Slot, Holds(y, x) PROVE ic'[x].lock = p /\ ic'[x].valid
  <2>1. CASE x = s /\ l = p BY <2>1 DEF Chg
  <2>2. CASE x # s /\ Holds(t[p], x)
    <3>1. ic[x].lock = p /\ ic[x].valid /\ ic[x].ref > 0 BY <2>2, LockedFacts
    <3>2. QED BY <2>2, <3>1 DEF Chg, Stays
  <2>3. QED BY <1>2, <2>1, <2>2
<1>3. Matches(fs', ic'[s]) BY DEF Matches, Chg
<1>4. \A x \in Slot \ K : Stays(ic, ic', x) BY <1>1 DEF Chg
<1>5. \A j \in Inum : \/ fs'.di[j] = fs.di[j] \/ fs.di[j].type = "none"
                      \/ \E k \in K : ic[k].ref > 0 /\ ic[k].inum = j
  BY <1>1
<1>6. \A x \in K : ic'[x].ref > 0 /\ ic'[x].valid =>
                     Matches(fs', ic'[x]) \/ (y.pc = "iinval" /\ y.put = x)
  BY <1>1, <1>3
<1>7. \A x \in K : ic[x].lock = None \/ ic[x].lock = p BY <1>1
<1>8. /\ t[p].pc = "iinval" => t[p].put \in K
      /\ y.pc \in {"itrunc", "iinval"} => ~Later(y)
  OBVIOUS
<1>9. All /\ DataInv /\ After(p, y) /\ DiskOK(fs') OBVIOUS
<1>10. K \in SUBSET Slot BY <1>1
<1>11. \A x \in Slot : Holds(y, x) => ic'[x].lock = p /\ ic'[x].valid BY <1>2
<1>12. QED
  BY ONLY <1>4, <1>5, <1>6, <1>7, <1>8, <1>9, <1>10, <1>11, p \in Proc, DataStep

\* The same for a step that leaves the disk alone: the inode is what ilock found.
LEMMA DataLoaded ==
    ASSUME All, DataInv, NEW p \in Proc, NEW y, After(p, y), NEW s \in Slot, NEW l,
           Chg(ic, ic', s, Loaded(s), l), Free(s), ~NoType(s), fs' = fs,
           t[p].pc # "iinval", y.pc \notin {"itrunc", "iinval"},
           \A x \in Slot : Holds(y, x) => (x = s /\ l = p) \/ (x # s /\ Holds(t[p], x))
    PROVE  DataInv'
<1>1. DiskOK(fs') /\ ic[s].lock = None BY DEF DataInv, Free
<1>2. ic[s].ref > 0
  <2>1. PICK k : k = ic[s].ref OBVIOUS
  <2>2. k \in Nat BY <2>1, Facts
  <2>3. ~(k < 1) BY <2>1 DEF NoType
  <2>4. QED BY <2>1, <2>2, <2>3
<1>3. ic[s].inum \in Inum => Loaded(s) = fs'.di[ic[s].inum] /\ Loaded(s).type # "none"
  BY LoadedFits
<1>4. \A j \in Inum : fs'.di[j] = fs.di[j] OBVIOUS
<1> DEFINE d == Loaded(s)
<1> HIDE DEF d
<1>5. Chg(ic, ic', s, d, l) /\ (ic[s].inum \in Inum => d = fs'.di[ic[s].inum] /\ d.type # "none")
  BY <1>3 DEF d
<1>6. QED BY <1>1, <1>2, <1>4, <1>5, DataChange

\* What a process has locked is what the disk has, until iput frees it.
LEMMA LockedMatches ==
    ASSUME All, DataInv, NEW p \in Proc, NEW s \in Slot, Holds(t[p], s), t[p].pc # "iinval"
    PROVE  /\ ic[s].lock = p /\ ic[s].valid /\ ic[s].ref > 0 /\ Matches(fs, ic[s])
           /\ ic[s].inum \in Inum => DOMAIN ic[s].d = DinodeFields
<1>1. ic[s].lock = p /\ ic[s].valid /\ ic[s].ref > 0 BY LockedFacts
<1>2. ~Dying(s)
  <2> SUFFICES ASSUME NEW q \in Proc, t[q].pc = "iinval", t[q].put = s PROVE FALSE BY DEF Dying
  <2>1. Holds(t[q], s) BY DEF Holds
  <2>2. ic[s].lock = q BY <2>1 DEF DataInv
  <2>3. QED BY <1>1, <2>2
<1>3. Matches(fs, ic[s]) BY <1>1, <1>2 DEF DataInv
<1>4. QED BY <1>1, <1>3 DEF Matches, DataInv, DiskOK

\* What a call in iput holds for what comes after it.
LEMMA MovesHold ==
    ASSUME NEW x, NEW y, NEW ip, NEW dp, NEW put, NEW l, Moves(x, y, "iput", ip, dp, put, l)
    PROVE  /\ y.pc = "iput"
           /\ \A s \in Slot : Holds(y, s) => \/ l \in {"unlinkip", "unlinkbad", "created"} /\ s = dp
                                             \/ l \in {"unlinked", "new"} /\ s = ip
BY DEF Moves, Holds, PutPc

\* The places after iput at which a call holds no inode.
Loose == CallPc \ {"unlinkip", "unlinkbad", "created", "unlinked", "new"}
\* A call in iput that goes on to one of them.
LEMMA PutsLoose ==
    ASSUME NEW x \in Frame, NEW l \in Loose, NEW y, y \in {PutIp(x, l), PutDp(x, l)} \/
           \E s \in SlotOr : y = PutThen(x, s, l)
    PROVE  y.pc = "iput" /\ \A s \in Slot : ~Holds(y, s)
<1>1. l \in CallPc BY DEF Loose
<1>2. \E ip, dp, put : Moves(x, y, "iput", ip, dp, put, l)
  BY <1>1, PutIpMoves, PutDpMoves, PutThenMoves
<1>3. QED BY <1>2, MovesHold DEF Loose

\* Go in terms of the proofs.
LEMMA GoAfter == ASSUME NEW p, NEW y, Go(p, y) PROVE After(p, y)
BY DEF Go, After

-----------------------------------------------------------------------------
(* Steps that change no inode. *)

\* Where a call can hold inodes.
Firm == PutPc \cup {"unlinkip", "unlinkbad", "created", "unlinked", "new"}
\* Elsewhere it holds none.
LEMMA FreeHands == ASSUME NEW y, y.pc \notin Firm PROVE \A s \in Slot : ~Holds(y, s)
BY DEF Firm, Holds, PutPc

\* A step that leaves the cache and the disk alone.
LEMMA SameQuiet ==
    ASSUME All, DataInv, NEW p \in Proc, NEW y, After(p, y), fs' = fs, ic' = ic,
           t[p].pc # "iinval", \A s \in Slot : Holds(y, s) => Holds(t[p], s),
           y.pc \notin {"itrunc", "iinval"}
    PROVE  DataInv'
<1>1. \A s \in Slot : Stays(ic, ic', s) BY DEF Stays
<1>2. QED BY <1>1, DataQuiet

\* The same, to where the call holds nothing.
LEMMA FreeQuiet ==
    ASSUME All, DataInv, NEW p \in Proc, NEW y, After(p, y), fs' = fs, ic' = ic,
           t[p].pc # "iinval", y.pc \notin Firm
    PROVE  DataInv'
<1>1. y.pc \notin {"itrunc", "iinval"} BY DEF Firm, PutPc
<1>2. QED BY <1>1, FreeHands, SameQuiet

\* The start of a call.
LEMMA BeginData ==
    ASSUME All, DataInv, NEW p \in Proc, NEW x, NEW op, Begin(p, x, op), x.pc = "user",
           "pc" \in DOMAIN x
    PROVE  DataInv'
<1> DEFINE y == [x EXCEPT !.pc = "begun"]
<1>1. t[p].pc = "user" /\ After(p, y) /\ ic' = ic BY BeginFacts
<1>2. fs' = fs BY DEF Begin
<1>3. y.pc = "begun" OBVIOUS
<1> HIDE DEF y
<1>4. y.pc \notin Firm BY <1>3 DEF Firm, PutPc
<1>5. QED BY <1>1, <1>2, <1>4, FreeQuiet

\* The starts of the calls with a path.
LEMMA StartPathData ==
    ASSUME All, DataInv, NEW p \in Proc, NEW c \in PathCalls, StartPath(p, c) PROVE DataInv'
<1> DEFINE x == [Idle EXCEPT !.call = c.call, !.abs = c.a.abs, !.e = c.a.e, !.e2 = c.b,
                             !.par = c.call \in {"create", "mkdir", "mknod", "unlink"}]
<1>1. x.pc = "user" /\ "pc" \in DOMAIN x BY DEF Idle
<1>2. Begin(p, x, 1) BY DEF StartPath
<1> HIDE DEF x
<1>3. QED BY <1>1, <1>2, BeginData

\* The starts of the calls that have no path.
LEMMA StartData ==
    ASSUME All, DataInv, NEW p \in Proc,
           StartRead(p) \/ (\E n \in WriteN : StartWrite(p, n)) \/ Close(p) \/ Exit(p)
    PROVE  DataInv'
<1>1. CASE StartRead(p)
  <2> DEFINE x == [Idle EXCEPT !.call = "read"]
  <2>1. x.pc = "user" /\ "pc" \in DOMAIN x BY DEF Idle
  <2>2. Begin(p, x, 0) BY <1>1 DEF StartRead
  <2> HIDE DEF x
  <2>3. QED BY <2>1, <2>2, BeginData
<1>2. ASSUME NEW n \in WriteN, StartWrite(p, n) PROVE DataInv'
  <2> DEFINE x == [Idle EXCEPT !.call = "write", !.n = n]
  <2>1. x.pc = "user" /\ "pc" \in DOMAIN x BY DEF Idle
  <2>2. Begin(p, x, 1) BY <1>2 DEF StartWrite
  <2> HIDE DEF x
  <2>3. QED BY <2>1, <2>2, BeginData
<1>3. CASE Close(p)
  <2> DEFINE x == [Idle EXCEPT !.call = "close", !.ip = of[p].ip]
  <2>1. x.pc = "user" /\ "pc" \in DOMAIN x BY DEF Idle
  <2>2. Begin(p, x, 1) BY <1>3 DEF Close
  <2> HIDE DEF x
  <2>3. QED BY <2>1, <2>2, BeginData
<1>4. CASE Exit(p)
  <2> DEFINE x == [Idle EXCEPT !.call = "exit"]
             y == [Idle EXCEPT !.call = "exit", !.then = "exit"]
  <2>1. /\ x.pc = "user" /\ "pc" \in DOMAIN x
        /\ y.pc = "user" /\ "pc" \in DOMAIN y
    BY DEF Idle
  <2>2. Begin(p, x, 0) \/ Begin(p, y, 1) BY <1>4 DEF Exit
  <2> HIDE DEF x, y
  <2>3. QED BY <2>1, <2>2, BeginData
<1>5. QED BY <1>1, <1>2, <1>3, <1>4

\* namex locks nothing.
LEMMA NamexLoose ==
    ASSUME NEW p \in Proc, NEW x, PathFrame(x), NEW c, GoodCache(c), CacheRefs(c), cwd[p] \in Slot,
           c[cwd[p]].ref > 0, Namex(p, x, c).ok
    PROVE  LET y == Namex(p, x, c).x
           IN (\A s \in Slot : ~Holds(y, s)) /\ y.pc \notin {"itrunc", "iinval"}
<1> DEFINE h == IF x.abs THEN Iget(c, ROOTINO) ELSE [got |-> cwd[p], c |-> Idup(c, cwd[p])]
<1>7. h.got # None BY DEF Namex
<1>8. Added(c, h.c, h.got) BY <1>7, NamexStart
<1>9. PICK g : g = h OBVIOUS
<1> DEFINE y == IF x.e # <<>> THEN [x EXCEPT !.pc = "walk", !.dp = g.got]
                ELSE IF x.par THEN PutThen(x, g.got, NamexFails(x)) ELSE Arrived(x, g.got)
<1>10. g.got \in SlotOr BY <1>8, <1>9 DEF Added, SlotOr
<1>11. Namex(p, x, c).x = y BY <1>7, <1>9 DEF Namex
<1> HIDE DEF h
<1>2. x \in Frame /\ PathCall(x) BY DEF PathFrame
<1>3. CASE x.e # <<>>
  <2>1. y = [x EXCEPT !.pc = "walk", !.dp = g.got] BY <1>3
  <2>2. y.pc = "walk" BY <1>2, <2>1 DEF Frame
  <2>3. y.pc \notin Firm /\ y.pc \notin {"itrunc", "iinval"} BY <2>2 DEF Firm, PutPc
  <2> HIDE DEF y
  <2>4. QED BY <1>11, <2>3, FreeHands
<1>4. CASE x.e = <<>> /\ x.par
  <2>1. y = PutThen(x, g.got, NamexFails(x)) BY <1>4
  <2>2. NamexFails(x) \in Loose BY <1>2, NamexPlaces DEF Loose, CallPc, IpPc
  <2> HIDE DEF y
  <2>3. y.pc = "iput" /\ \A s \in Slot : ~Holds(y, s) BY <1>2, <1>10, <2>1, <2>2, PutsLoose
  <2>4. QED BY <1>11, <2>3
<1>5. CASE x.e = <<>> /\ ~x.par
  <2>1. y = [x EXCEPT !.pc = AfterNamex(x), !.ip = g.got] BY <1>5 DEF Arrived
  <2>2. y.pc = AfterNamex(x) BY <1>2, <2>1 DEF Frame
  <2>3. y.pc \in {"open", "chdir", "link"} BY <1>2, <1>5, <2>2, NamexPlaces
  <2>4. y.pc \notin Firm /\ y.pc \notin {"itrunc", "iinval"} BY <2>3 DEF Firm, PutPc
  <2> HIDE DEF y
  <2>5. QED BY <1>11, <2>4, FreeHands
<1>6. QED BY <1>3, <1>4, <1>5

-----------------------------------------------------------------------------
(* Entering the section, exit, and ends of calls. *)

\* A call that enters the section for a path takes an entry.
LEMMA EnterPathData ==
    ASSUME All, DataInv, NEW p \in Proc, EnterPath(p), ~halted' PROVE DataInv'
<1> DEFINE x == t[p]
           r == Namex(p, x, ic)
<1>1. /\ x.pc = "begun" /\ HasPath(x) /\ ic' = r.c /\ r.ok /\ t' = [t EXCEPT ![p] = r.x]
      /\ fs' = fs
  BY DEF EnterPath, At
<1>2. Fit(x) /\ GoodCache(ic) /\ CacheRefs(ic) BY Facts DEF CacheRefs
<1>3. PathFrame(x)
  <2>1. x.call \notin RW \cup {"close", "exit"} BY <1>1 DEF HasPath, RW
  <2>2. /\ x \in Frame /\ x.put = None /\ x.dp = None /\ x.then \notin Moved /\ x.ip = None
        /\ x.par <=> x.call \in Parents
    BY <1>1, <1>2, <2>1 DEF Fit
  <2>3. QED BY <2>1, <2>2 DEF PathFrame, PathCall, Linking, Parents
<1>4. cwd[p] \in Slot /\ ic[cwd[p]].ref > 0 BY <1>1, <1>3, CwdHeld DEF PathFrame, PathCall
<1>5. PICK k : Took(p, x, ic, r.x, r.c, k) BY <1>1, <1>2, <1>3, <1>4, NamexTakes
<1>6. After(p, r.x) BY <1>1, <1>5 DEF After, Took
<1>7. Grown(ic, ic') BY <1>1, <1>2, <1>4, NamexHolds
<1>8. (\A s \in Slot : ~Holds(r.x, s)) /\ r.x.pc \notin {"itrunc", "iinval"} 
  BY <1>1, <1>2, <1>3, <1>4, NamexLoose
<1> HIDE DEF r
<1>9. QED BY <1>1, <1>6, <1>7, <1>8, DataQuiet DEF Grown

\* The other steps of calls that only move on.
LEMMA MoveData ==
    ASSUME All, DataInv, NEW p \in Proc, ~halted',
           EnterFile(p) \/ EnterPut(p) \/ ExitCwd(p) \/ ExitDone(p) \/ ChdirDone(p) \/ LinkDone(p)
    PROVE  DataInv'
<1> DEFINE x == t[p]
<1>1. t \in [Proc -> Frame] /\ x \in Frame /\ of[p].ip \in SlotOr /\ cwd[p] \in SlotOr
  BY Facts DEF All, Shape
<1>2. CASE EnterFile(p)
  <2> DEFINE y == [x EXCEPT !.pc = x.call, !.ip = of[p].ip]
  <2>1. /\ x.pc = "begun" /\ x.call \in RW /\ t' = [t EXCEPT ![p] = y] /\ ic' = ic /\ fs' = fs
    BY <1>1, <1>2 DEF EnterFile, At, RW
  <2>2. y.pc = x.call BY <1>1 DEF Frame
  <2> HIDE DEF y
  <2>3. After(p, y) /\ y.pc \notin Firm BY <2>1, <2>2 DEF After, RW, Firm, PutPc
  <2>4. QED BY <2>1, <2>3, FreeQuiet
<1>3. CASE EnterPut(p)
  <2>1. x.pc = "begun" /\ ic' = ic /\ fs' = fs BY <1>3 DEF EnterPut, At
  <2>2. CASE t' = [t EXCEPT ![p].pc = "exit", ![p].then = "exit"]
    <3> DEFINE y == [x EXCEPT !.pc = "exit", !.then = "exit"]
    <3>1. t' = [t EXCEPT ![p] = y] /\ y.pc = "exit" BY <1>1, <2>2 DEF Frame
    <3> HIDE DEF y
    <3>2. After(p, y) /\ y.pc \notin Firm BY <3>1 DEF After, Firm, PutPc
    <3>3. QED BY <2>1, <3>2, FreeQuiet
  <2>3. CASE \E y : /\ t' = [t EXCEPT ![p] = y]
                    /\ \E l \in Loose : y = PutIp(x, l) \/ \E s \in SlotOr : y = PutThen(x, s, l)
    <3>4. PICK y : /\ t' = [t EXCEPT ![p] = y]
                   /\ \E l \in Loose : y = PutIp(x, l) \/ \E s \in SlotOr : y = PutThen(x, s, l)
      BY <2>3
    <3>1. PICK l \in Loose : /\ t' = [t EXCEPT ![p] = y]
                             /\ y = PutIp(x, l) \/ \E s \in SlotOr : y = PutThen(x, s, l)
      BY <3>4
    <3>2. y.pc = "iput" /\ \A s \in Slot : ~Holds(y, s) BY <1>1, <3>1, PutsLoose
    <3>3. After(p, y) BY <3>1, <3>2 DEF After
    <3>5. QED BY <2>1, <3>2, <3>3, SameQuiet
  <2>4. {"end", "exit", "exited"} \subseteq Loose BY DEF Loose, CallPc
  <2>5. \/ t' = [t EXCEPT ![p] = PutIp(x, "end")]
        \/ t' = [t EXCEPT ![p].pc = "exit", ![p].then = "exit"]
        \/ t' = [t EXCEPT ![p] = PutThen(x, of[p].ip, "exit")]
        \/ t' = [t EXCEPT ![p] = PutThen(x, cwd[p], "exited")]
    BY <1>3 DEF EnterPut
  <2>6. QED BY <1>1, <2>2, <2>3, <2>4, <2>5
<1>4. CASE ExitCwd(p)
  <2> DEFINE y == [x EXCEPT !.pc = "begun"]
  <2>1. /\ x.pc = "exit" /\ ic' = ic /\ fs' = fs /\ t' = [t EXCEPT ![p] = y] /\ y.pc = "begun"
    BY <1>1, <1>4 DEF ExitCwd, At, Frame
  <2> HIDE DEF y
  <2>2. After(p, y) /\ y.pc \notin Firm BY <2>1 DEF After, Firm, PutPc
  <2>3. QED BY <2>1, <2>2, FreeQuiet
<1>5. CASE ExitDone(p)
  <2> DEFINE y == Goto(x, "dead")
  <2>1. x.pc = "exited" /\ ic' = ic /\ fs' = fs /\ After(p, y) /\ y.pc = "dead"
    BY <1>1, <1>5 DEF ExitDone, At, Frame, Goto, Go, After
  <2> HIDE DEF y
  <2>2. y.pc \notin Firm BY <2>1 DEF Firm, PutPc
  <2>3. QED BY <2>1, <2>2, FreeQuiet
<1>6. CASE ChdirDone(p)
  <2>1. Idle.pc = "user" BY DEF Idle
  <2>2. x.pc = "chdone" /\ ic' = ic /\ fs' = fs /\ t' = [t EXCEPT ![p] = Idle]
    BY <1>6 DEF ChdirDone, At
  <2>3. After(p, Idle) /\ Idle.pc \notin Firm BY <2>1, <2>2 DEF After, Firm, PutPc
  <2>4. QED BY <2>2, <2>3, FreeQuiet
<1>7. CASE LinkDone(p)
  <2> DEFINE y == PutIp(x, "end")
  <2>1. x.pc = "linked" /\ ic' = ic /\ fs' = fs /\ After(p, y)
    BY <1>7 DEF LinkDone, At, Go, After
  <2>2. "end" \in Loose BY DEF Loose, CallPc
  <2>3. y.pc = "iput" /\ \A s \in Slot : ~Holds(y, s) BY <1>1, <2>2, PutsLoose
  <2> HIDE DEF y
  <2>4. QED BY <2>1, <2>3, SameQuiet
<1>8. QED BY <1>2, <1>3, <1>4, <1>5, <1>6, <1>7

-----------------------------------------------------------------------------
(* iput, and what entries hold. *)

\* The end of iput: one reference less.
LEMMA DropData ==
    ASSUME All, DataInv, NEW p \in Proc, t[p].pc \in {"iput", "irel"},
           ic' = [ic EXCEPT ![t[p].put].ref = @ - 1],
           After(p, [t[p] EXCEPT !.pc = t[p].then, !.put = None]), fs' = fs
    PROVE  DataInv'
<1> DEFINE x == t[p]
           k == x.put
           y == [x EXCEPT !.pc = x.then, !.put = None]
<1>1. x \in Frame /\ k \in Slot /\ x.then \in CallPc BY PutFacts DEF PutPc
<1>2. /\ y.pc = x.then /\ y.then = x.then /\ y.ip = x.ip /\ y.dp = x.dp /\ y.put = None
  BY <1>1 DEF Frame
<1>3. After(p, y) OBVIOUS
<1> HIDE DEF y
<1>4. \A s \in Slot : Holds(y, s) => Holds(x, s)
  BY <1>1, <1>2, SlotsDiffer DEF Holds, PutPc, CallPc, IpPc, DpPc
<1>5. y.pc \notin {"itrunc", "iinval"} BY <1>1, <1>2 DEF CallPc, IpPc, DpPc
<1>6. ASSUME NEW s \in Slot PROVE Stays(ic, ic', s)
  <2>1. GoodCache(ic) /\ ic[s].ref \in Nat BY Facts
  <2>2. CASE s # k
    <3>1. ic'[s] = ic[s] BY <2>1, <2>2 DEF GoodCache
    <3>2. QED BY <3>1 DEF Stays
  <2>3. CASE s = k
    <3>1. ic'[s] = [ic[s] EXCEPT !.ref = ic[s].ref - 1] BY <2>1, <2>3 DEF GoodCache
    <3>2. DOMAIN ic[s] = Fields BY <2>1 DEF GoodCache
    <3>3. PICK r : r = ic[s].ref OBVIOUS
    <3>4. /\ ic'[s].ref = r - 1 /\ ic'[s].lock = ic[s].lock
          /\ ic'[s].inum = ic[s].inum /\ ic'[s].valid = ic[s].valid /\ ic'[s].d = ic[s].d
      BY <3>1, <3>2, <3>3 DEF Fields
    <3>5. ~(r > 0) => ~(r - 1 > 0) BY <2>1, <3>3
    <3>6. QED BY <3>3, <3>4, <3>5 DEF Stays
  <2>4. QED BY <2>2, <2>3
<1>7. QED BY <1>3, <1>4, <1>5, <1>6, DataQuiet

\* A call that finds the last reference to an inode does not hold it otherwise.
LEMMA LastAlone ==
    ASSUME All, NEW p \in Proc, t[p].pc = "iput", LastUse(t[p].put)
    PROVE  ~Holds(t[p], t[p].put) /\ ~Later(t[p])
<1>1. PICK s \in Slot : s = t[p].put BY PutFacts DEF PutPc
<1>2. ic[s].ref = 1 BY <1>1 DEF LastUse
<1>3. ic[s].ref \in Nat /\ ic[s].ref >= Mine(p, s) /\ Mine(p, s) \in Nat BY Facts
<1>4. ~Holds(t[p], s)
  <2> SUFFICES ASSUME Holds(t[p], s) PROVE FALSE OBVIOUS
  <2>1. Mine(p, s) >= 2 BY <1>1, HoldsRef
  <2>2. QED BY <1>2, <1>3, <2>1
<1>5. ~Later(t[p]) BY <1>1, <1>4 DEF Later, Holds, PutPc
<1>6. QED BY <1>1, <1>4, <1>5

\* iput: the last use locks the inode that nobody else has.
LEMMA IputData == ASSUME All, DataInv, NEW p \in Proc, Iput(p), ~halted' PROVE DataInv'
<1> DEFINE x == t[p]
           k == x.put
           y == Goto(x, "itrunc")
<1>1. x.pc = "iput" /\ fs' = fs BY DEF Iput, At, Halt
<1>2. CASE LastUse(k)
  <2>1. ic' = [ic EXCEPT ![k].lock = p] /\ After(p, y) /\ Free(k)
    BY <1>2 DEF Iput, Halt, Go, After
  <2>2. k \in Slot /\ x \in Frame BY <1>1, PutFacts DEF PutPc
  <2>3. /\ y.pc = "itrunc" /\ y.then = x.then /\ y.ip = x.ip /\ y.dp = x.dp /\ y.put = k
    BY <2>2 DEF Frame, Goto
  <2> HIDE DEF y
  <2>4. ~Holds(x, k) /\ ~Later(x) BY <1>1, <1>2, LastAlone
  <2>5. ~Later(y) BY <2>3, <2>4 DEF Later
  <2>6. \A s \in Slot : Holds(y, s) => s = k \/ Holds(x, s)
    BY <1>1, <2>3 DEF Holds, PutPc
  <2>7. /\ \A s \in Slot : s # k => ic'[s] = ic[s]
        /\ ic'[k].lock = p /\ ic'[k].inum = ic[k].inum /\ ic'[k].valid = ic[k].valid
        /\ ic'[k].d = ic[k].d
    <3>1. GoodCache(ic) BY Facts
    <3>2. \A s \in Slot : s # k => ic'[s] = ic[s] BY <2>1, <3>1 DEF GoodCache
    <3>3. ic'[k] = [ic[k] EXCEPT !.lock = p] BY <2>1, <2>2, <3>1 DEF GoodCache
    <3>4. DOMAIN ic[k] = Fields BY <2>2, <3>1 DEF GoodCache
    <3>5. QED BY <3>2, <3>3, <3>4 DEF Fields
  <2>8. ic[k].ref > 0 /\ ic[k].valid
    <3>1. 1 > 0 OBVIOUS
    <3>2. QED BY <1>2, <3>1 DEF LastUse
  <2>9. Matches(fs, ic[k])
    <3>1. ~Dying(k)
      <4> SUFFICES ASSUME NEW q \in Proc, t[q].pc = "iinval", t[q].put = k PROVE FALSE BY DEF Dying
      <4>1. Holds(t[q], k) BY DEF Holds
      <4>2. ic[k].lock = q BY <2>2, <4>1 DEF DataInv
      <4>3. QED BY <2>1, <4>2, SlotsDiffer DEF Free
    <3>2. QED BY <2>2, <2>8, <3>1 DEF DataInv
  <2>10. Matches(fs', ic'[k]) BY <1>1, <2>7, <2>9 DEF Matches
  <2>11. \A s \in Slot : Holds(y, s) => ic'[s].lock = p /\ ic'[s].valid
    <3> SUFFICES ASSUME NEW s \in Slot, Holds(y, s) PROVE ic'[s].lock = p /\ ic'[s].valid
      OBVIOUS
    <3>1. CASE s = k BY <2>7, <2>8, <3>1
    <3>2. CASE s # k BY <2>6, <2>7, <3>2 DEF DataInv
    <3>3. QED BY <3>1, <3>2
  <2> DEFINE K == {k}
  <2>12. K \in SUBSET Slot /\ \A s : s \in K <=> s = k BY <2>2
  <2> HIDE DEF K, k
  <2>13. \A s \in Slot \ K : Stays(ic, ic', s) BY <2>7, <2>12 DEF Stays
  <2>14. DiskOK(fs') BY <1>1 DEF DataInv
  <2>15. \A j \in Inum : fs'.di[j] = fs.di[j] BY <1>1
  <2>16. \A s \in K : /\ ic'[s].ref > 0 /\ ic'[s].valid =>
                            Matches(fs', ic'[s]) \/ (y.pc = "iinval" /\ y.put = s)
                      /\ ic[s].lock = None \/ ic[s].lock = p
    BY <2>1, <2>10, <2>12 DEF Free
  <2> HIDE DEF x
  <2>17. t[p].pc # "iinval" BY <1>1 DEF x
  <2>18. After(p, y) BY <2>1
  <2>19. \A j \in Inum : \/ fs'.di[j] = fs.di[j] \/ fs.di[j].type = "none"
                         \/ \E s \in K : ic[s].ref > 0 /\ ic[s].inum = j
    BY <2>15
  <2>20. K \in SUBSET Slot BY <2>12
  <2>21. /\ \A s \in K : ic'[s].ref > 0 /\ ic'[s].valid =>
                            Matches(fs', ic'[s]) \/ (y.pc = "iinval" /\ y.put = s)
         /\ \A s \in K : ic[s].lock = None \/ ic[s].lock = p
         /\ t[p].pc = "iinval" => t[p].put \in K
         /\ y.pc \in {"itrunc", "iinval"} => ~Later(y)
    BY <2>5, <2>16, <2>17
  <2>22. /\ DiskOK(fs') /\ \A s \in Slot \ K : Stays(ic, ic', s)
         /\ \A s \in Slot : Holds(y, s) => ic'[s].lock = p /\ ic'[s].valid
    BY <2>11, <2>13, <2>14
  <2>23. All /\ DataInv OBVIOUS
  <2>24. QED BY ONLY <2>18, <2>19, <2>20, <2>21, <2>22, <2>23, p \in Proc, DataStep
<1>3. CASE ~LastUse(k)
  <2>1. ic' = [ic EXCEPT ![k].ref = @ - 1] BY <1>3 DEF Iput
  <2>2. After(p, [x EXCEPT !.pc = x.then, !.put = None]) BY <1>3 DEF Iput, Go, After
  <2>3. QED BY <1>1, <2>1, <2>2, DropData
<1>4. QED BY <1>2, <1>3

\* The end of iput for an inode that was freed.
LEMMA IputDropData == ASSUME All, DataInv, NEW p \in Proc, IputDrop(p) PROVE DataInv'
BY DropData DEF IputDrop, At, Go, After

\* itrunc frees the inode, on the disk and in memory.
LEMMA IputTruncData == ASSUME All, DataInv, NEW p \in Proc, IputTrunc(p) PROVE DataInv'
<1> DEFINE x == t[p]
           k == x.put
           y == Goto(x, "iinval")
           f == Itrunc(fs, ic[k].d)
           n == ic[k].inum
<1>1. /\ x.pc = "itrunc" /\ fs' = Iupdate(f, n, FreeDinode)
      /\ ic' = [ic EXCEPT ![k].d = FreeDinode] /\ After(p, y)
  BY DEF IputTrunc, At, Go, After
<1>2. k \in Slot /\ x \in Frame BY <1>1, PutFacts DEF PutPc
<1>3. /\ y.pc = "iinval" /\ y.then = x.then /\ y.ip = x.ip /\ y.dp = x.dp /\ y.put = k
  BY <1>2 DEF Frame, Goto
<1> HIDE DEF y
<1>4. ~Later(y)
  <2>1. ~Later(x) BY <1>1 DEF DataInv
  <2>2. QED BY <1>3, <2>1 DEF Later
<1>5. \A s \in Slot : Holds(y, s) => Holds(x, s) BY <1>1, <1>3 DEF Holds, PutPc
<1>6. Holds(x, k) BY <1>1 DEF Holds
<1>7. ic[k].lock = p /\ ic[k].valid /\ ic[k].ref > 0 BY <1>2, <1>6, LockedFacts
<1>8. /\ \A s \in Slot : s # k => ic'[s] = ic[s]
      /\ ic'[k].lock = ic[k].lock /\ ic'[k].valid = ic[k].valid
  <2>1. GoodCache(ic) BY Facts
  <2>2. \A s \in Slot : s # k => ic'[s] = ic[s] BY <1>1, <2>1 DEF GoodCache
  <2>3. ic'[k] = [ic[k] EXCEPT !.d = FreeDinode] BY <1>1, <1>2, <2>1 DEF GoodCache
  <2>4. DOMAIN ic[k] = Fields BY <1>2, <2>1 DEF GoodCache
  <2>5. QED BY <2>2, <2>3, <2>4 DEF Fields
<1>9. \A s \in Slot : Holds(y, s) => ic'[s].lock = p /\ ic'[s].valid
  <2> SUFFICES ASSUME NEW s \in Slot, Holds(y, s) PROVE ic'[s].lock = p /\ ic'[s].valid
    OBVIOUS
  <2>1. ic[s].lock = p /\ ic[s].valid BY <1>5, LockedFacts
  <2>2. CASE s = k BY <1>8, <2>1, <2>2
  <2>3. CASE s # k BY <1>8, <2>1, <2>3
  <2>4. QED BY <2>2, <2>3
<1>10. TreeOK(f) /\ f.di = fs.di BY DEF DataInv, DiskOK, TreeOK, Itrunc
<1> HIDE DEF f
<1>11. TreeOK(fs') /\ \A j \in Inum : fs'.di[j] = IF j = n THEN FreeDinode ELSE fs.di[j]
  BY <1>1, <1>10, IupdateDisk
<1>12. DiskOK(fs')
  <2>1. DOMAIN FreeDinode = DinodeFields BY DEF FreeDinode, DinodeFields
  <2>2. QED BY <1>11, <2>1 DEF DiskOK, TreeOK, DataInv
<1> DEFINE K == {k}
<1>13. K \in SUBSET Slot /\ \A s : s \in K <=> s = k BY <1>2
<1> HIDE DEF K
<1>14. \A j \in Inum : \/ fs'.di[j] = fs.di[j] \/ fs.di[j].type = "none"
                       \/ \E s \in K : ic[s].ref > 0 /\ ic[s].inum = j
  BY <1>7, <1>11, <1>13
<1> HIDE DEF k, n
<1>15. \A s \in Slot \ K : Stays(ic, ic', s) BY <1>8, <1>13 DEF Stays
<1>16. \A s \in K : ic'[s].ref > 0 /\ ic'[s].valid =>
                      Matches(fs', ic'[s]) \/ (y.pc = "iinval" /\ y.put = s)
  BY <1>3, <1>13
<1>17. \A s \in K : ic[s].lock = None \/ ic[s].lock = p BY <1>7, <1>13
<1> HIDE DEF x
<1>18. t[p].pc # "iinval" BY <1>1 DEF x
<1>19. /\ t[p].pc = "iinval" => t[p].put \in K
       /\ y.pc \in {"itrunc", "iinval"} => ~Later(y)
  BY <1>4, <1>18
<1>20. All /\ DataInv /\ After(p, y) /\ K \in SUBSET Slot BY <1>1, <1>13
<1>21. QED
  BY ONLY <1>9, <1>12, <1>14, <1>15, <1>16, <1>17, <1>19, <1>20, p \in Proc, DataStep

\* The entry is not valid before the lock is released.
LEMMA IputInvalData == ASSUME All, DataInv, NEW p \in Proc, IputInval(p) PROVE DataInv'
<1> DEFINE x == t[p]
           k == x.put
           c == Unlock(ic, k)
           y == Goto(x, "irel")
<1>1. /\ x.pc = "iinval" /\ fs' = fs /\ ic' = [c EXCEPT ![k].valid = FALSE] /\ After(p, y)
  BY DEF IputInval, At, Go, After
<1>2. k \in Slot /\ x \in Frame /\ GoodCache(ic) BY <1>1, PutFacts, Facts DEF PutPc
<1>3. /\ y.pc = "irel" /\ y.then = x.then /\ y.ip = x.ip /\ y.dp = x.dp /\ y.put = k
  BY <1>2 DEF Frame, Goto
<1> HIDE DEF y
<1>4. \A s \in Slot : Holds(y, s) => Holds(x, s) /\ s # k
  <2>1. ~Later(x) BY <1>1 DEF DataInv
  <2>2. QED BY <1>1, <1>3, <2>1 DEF Holds, PutPc, Later
<1>5. ic[k].lock = p
  <2>1. Holds(x, k) BY <1>1 DEF Holds
  <2>2. QED BY <1>2, <2>1 DEF DataInv
<1>6. Upto(ic, c, k) BY <1>2, UnlockHolds
<1> HIDE DEF c
<1>7. (\A s \in Slot : s # k => ic'[s] = c[s]) /\ ic'[k].valid = FALSE
  <2>1. GoodCache(c) BY <1>6 DEF Upto
  <2>2. \A s \in Slot : s # k => ic'[s] = c[s] BY <1>1, <2>1 DEF GoodCache
  <2>3. ic'[k] = [c[k] EXCEPT !.valid = FALSE] BY <1>1, <1>2, <2>1 DEF GoodCache
  <2>4. DOMAIN c[k] = Fields BY <1>2, <2>1 DEF GoodCache
  <2>5. QED BY <2>2, <2>3, <2>4 DEF Fields
<1> DEFINE K == {k}
<1>8. K \in SUBSET Slot /\ \A s : s \in K <=> s = k BY <1>2
<1> HIDE DEF K, k
<1>9. \A s \in Slot \ K : Stays(ic, ic', s) BY <1>6, <1>7, <1>8 DEF Stays, Upto
<1>10. \A s \in Slot : Holds(y, s) => ic'[s].lock = p /\ ic'[s].valid
  <2> SUFFICES ASSUME NEW s \in Slot, Holds(y, s) PROVE ic'[s].lock = p /\ ic'[s].valid
    OBVIOUS
  <2>1. s # k /\ ic[s].lock = p /\ ic[s].valid BY <1>4, LockedFacts
  <2>2. QED BY <1>6, <1>7, <2>1 DEF Upto
<1>11. DiskOK(fs') BY <1>1 DEF DataInv
<1>12. \A j \in Inum : fs'.di[j] = fs.di[j] BY <1>1
<1>13. \A s \in K : /\ ic'[s].ref > 0 /\ ic'[s].valid =>
                          Matches(fs', ic'[s]) \/ (y.pc = "iinval" /\ y.put = s)
                    /\ ic[s].lock = None \/ ic[s].lock = p
  BY <1>5, <1>7, <1>8
<1>14. t[p].put \in K BY <1>8 DEF k
<1>15. y.pc \notin {"itrunc", "iinval"} BY <1>3
<1> HIDE DEF x
<1>16. After(p, y) BY <1>1
<1>17. \A j \in Inum : \/ fs'.di[j] = fs.di[j] \/ fs.di[j].type = "none"
                       \/ \E s \in K : ic[s].ref > 0 /\ ic[s].inum = j
  BY <1>12
<1>18. K \in SUBSET Slot BY <1>8
<1>19. QED BY <1>9, <1>10, <1>11, <1>13, <1>14, <1>15, <1>16, <1>17, <1>18, DataStep

-----------------------------------------------------------------------------
(* Calls that have one inode, and what entries hold. *)

\* The frame y holds no inode, and does not free one.
Lets(y) == (\A s \in Slot : ~Holds(y, s)) /\ y.pc \notin {"itrunc", "iinval"}
\* A frame outside of iput, and one at its start.
LEMMA LetsGo ==
    ASSUME NEW x \in Frame
    PROVE  /\ \A l \in Loose : Lets(PutIp(x, l)) /\ Lets(PutDp(x, l))
           /\ \A s \in SlotOr, l \in Loose : Lets(PutThen(x, s, l))
           /\ Lets(Goto(x, "end")) /\ Lets(Idle)
<1>1. ASSUME NEW l \in Loose PROVE Lets(PutIp(x, l)) /\ Lets(PutDp(x, l))
  <2>1. ASSUME NEW y, y \in {PutIp(x, l), PutDp(x, l)} PROVE Lets(y)
    <3>1. y.pc = "iput" /\ \A s \in Slot : ~Holds(y, s) BY <2>1, PutsLoose
    <3>2. QED BY <3>1 DEF Lets
  <2>2. QED BY <2>1
<1>2. ASSUME NEW s \in SlotOr, NEW l \in Loose PROVE Lets(PutThen(x, s, l))
  <2>1. ASSUME NEW y, y = PutThen(x, s, l) PROVE Lets(y)
    <3>1. y.pc = "iput" /\ \A q \in Slot : ~Holds(y, q) BY <2>1, PutsLoose
    <3>2. QED BY <3>1 DEF Lets
  <2>2. QED BY <2>1
<1>3. Lets(Goto(x, "end"))
  <2> DEFINE y == Goto(x, "end")
  <2>1. "end" \in Pc BY DEF Pc, CallPc
  <2>2. y.pc = "end" BY <2>1, GotoMoves DEF Moves
  <2> HIDE DEF y
  <2>3. y.pc \notin Firm /\ y.pc \notin {"itrunc", "iinval"} BY <2>2 DEF Firm, PutPc
  <2>4. Lets(y) BY <2>3, FreeHands DEF Lets
  <2>5. QED BY <2>4 DEF y
<1>4. Lets(Idle)
  <2>1. Idle.pc = "user" BY DEF Idle
  <2>2. QED BY <2>1, IdleFits DEF Lets
<1>5. QED BY <1>1, <1>2, <1>3, <1>4

\* A step locks an inode as ilock finds it, and lets go of it.
LEMMA LoadsLets ==
    ASSUME All, DataInv, NEW p \in Proc, NEW y, After(p, y), Lets(y), NEW s \in Slot,
           ic' = Set(ic, s, Loaded(s)) \/ \E q : ic' = Unlock(Lock(ic, s, q, Loaded(s)), s),
           Free(s), ~NoType(s), fs' = fs, t[p].pc # "iinval"
    PROVE  DataInv'
<1> DEFINE d == Loaded(s)
<1>1. GoodCache(ic) BY Facts
<1>2. Chg(ic, ic', s, d, None)
  <2> HIDE DEF d
  <2>1. CASE ic' = Set(ic, s, d) BY <1>1, <2>1, ChgLock
  <2>2. ASSUME NEW q, ic' = Unlock(Lock(ic, s, q, d), s) PROVE Chg(ic, ic', s, d, None)
    <3>1. Chg(ic, Lock(ic, s, q, d), s, d, q) BY <1>1, ChgLock
    <3>2. QED BY <2>2, <3>1, ChgUnlockAfter
  <2>3. QED BY <2>1, <2>2 DEF d
<1>3. y.pc \notin {"itrunc", "iinval"} /\ \A x \in Slot : ~Holds(y, x) BY DEF Lets
<1>4. QED BY <1>2, <1>3, DataLoaded

\* open with a locked inode unlocks it.
LEMMA OpenedLets ==
    ASSUME NEW p, t[p] \in Frame, NEW c, NEW wr, Opened(p, c, wr)
    PROVE  ic' = Unlock(c, t[p].ip) /\ \E y : After(p, y) /\ Lets(y)
<1>1. ic' = Unlock(c, t[p].ip) /\ (Go(p, PutIp(t[p], "end")) \/ Go(p, Goto(t[p], "end")))
  BY DEF Opened
<1>2. "end" \in Loose BY DEF Loose, CallPc
<1>3. Lets(PutIp(t[p], "end")) /\ Lets(Goto(t[p], "end")) BY <1>2, LetsGo
<1>4. QED BY <1>1, <1>3, GoAfter

\* open, chdir, and create of a name that is there.
LEMMA OpenData ==
    ASSUME All, DataInv, NEW p \in Proc, Open(p) \/ Exists(p) \/ Chdir(p), ~halted'
    PROVE  DataInv'
<1> DEFINE x == t[p]
           d == Loaded(x.ip)
<1>1. /\ x.pc \in {"open", "exists", "chdir"} /\ Free(x.ip) /\ ~NoType(x.ip) /\ fs' = fs
  BY DEF Open, Exists, Chdir, At, Halt
<1>2. x.ip \in Slot /\ x \in Frame BY <1>1, IpCached DEF IpPc
<1>3. \/ /\ Go(p, PutIp(x, "end")) \/ Go(p, PutThen(x, cwd[p], "chdone"))
         /\ ic' = Set(ic, x.ip, d)
      \/ \E wr : Opened(p, Lock(ic, x.ip, p, d), wr)
  BY DEF Open, Exists, Chdir, Halt
<1>4. "end" \in Loose /\ "chdone" \in Loose BY DEF Loose, CallPc, IpPc
<1>5. cwd[p] \in SlotOr BY Facts
<1>6. Lets(PutIp(x, "end")) /\ Lets(PutThen(x, cwd[p], "chdone")) BY <1>2, <1>4, <1>5, LetsGo
<1>7. \/ ic' = Set(ic, x.ip, d) /\ \E y : After(p, y) /\ Lets(y)
      \/ ic' = Unlock(Lock(ic, x.ip, p, d), x.ip) /\ \E y : After(p, y) /\ Lets(y)
  <2> HIDE DEF d
  <2>1. QED BY <1>2, <1>3, <1>6, GoAfter, OpenedLets
<1>8. QED BY <1>1, <1>2, <1>7, LoadsLets

\* read.
LEMMA ReadData == ASSUME All, DataInv, NEW p \in Proc, Read(p), ~halted' PROVE DataInv'
<1> DEFINE x == t[p]
<1>1. /\ x.pc = "read" /\ Free(x.ip) /\ ~NoType(x.ip) /\ fs' = fs
      /\ ic' = Set(ic, x.ip, Loaded(x.ip)) /\ t' = [t EXCEPT ![p] = Idle]
  BY DEF Read, At, Halt
<1>2. x.ip \in Slot /\ x \in Frame BY <1>1, IpCached DEF IpPc
<1>3. After(p, Idle) BY <1>1 DEF After
<1>4. Lets(Idle) BY <1>2, LetsGo
<1>5. QED BY <1>1, <1>2, <1>3, <1>4, LoadsLets

\* The end of a call that has locked s.
LEMMA UnlockLets ==
    ASSUME All, DataInv, NEW p \in Proc, NEW s \in Slot, Holds(t[p], s), ic' = Unlock(ic, s),
           NEW y, After(p, y), Lets(y), fs' = fs, t[p].pc # "iinval"
    PROVE  DataInv'
<1> DEFINE d == ic[s].d
<1>1. GoodCache(ic) BY Facts
<1>2. ic[s].lock = p /\ ic[s].valid /\ ic[s].ref > 0 /\ Matches(fs, ic[s]) BY LockedMatches
<1>3. ic[s].inum \in Inum => d = fs'.di[ic[s].inum] /\ d.type # "none" BY <1>2 DEF Matches
<1>4. Chg(ic, ic', s, d, None) BY <1>1, <1>2, ChgUnlock
<1> HIDE DEF d
<1>5. DiskOK(fs') /\ \A j \in Inum : fs'.di[j] = fs.di[j] BY DEF DataInv
<1>6. y.pc \notin {"itrunc", "iinval"} /\ \A x \in Slot : ~Holds(y, x) BY DEF Lets
<1>7. QED BY <1>2, <1>3, <1>4, <1>5, <1>6, DataChange

\* The end of create, and of unlink of a directory in use.
LEMMA HolderData ==
    ASSUME All, DataInv, NEW p \in Proc, CreateDone(p) \/ UnlinkBad(p)
    PROVE  DataInv'
<1> DEFINE x == t[p]
<1>1. "end" \in Loose BY DEF Loose, CallPc
<1>2. CASE CreateDone(p)
  <2>1. x.pc = "new" /\ fs' = fs BY <1>2 DEF CreateDone, At
  <2>2. x.ip \in Slot /\ x \in Frame BY <2>1, IpCached DEF IpPc
  <2>3. (Go(p, PutIp(x, "end")) /\ ic' = Unlock(ic, x.ip)) \/ Opened(p, ic, TRUE)
    BY <1>2 DEF CreateDone
  <2>4. Lets(PutIp(x, "end")) BY <1>1, <2>2, LetsGo
  <2>5. ic' = Unlock(ic, x.ip) /\ \E y : After(p, y) /\ Lets(y)
    BY <2>2, <2>3, <2>4, GoAfter, OpenedLets
  <2>6. Holds(x, x.ip) BY <2>1 DEF Holds, PutPc
  <2>7. QED BY <2>1, <2>2, <2>5, <2>6, UnlockLets
<1>3. CASE UnlinkBad(p)
  <2> DEFINE y == PutDp(x, "end")
  <2>1. x.pc = "unlinkbad" /\ fs' = fs /\ ic' = Unlock(ic, x.dp) /\ After(p, y)
    BY <1>3, GoAfter DEF UnlinkBad, At
  <2>2. x.dp \in Slot /\ x \in Frame BY <2>1, DpFacts DEF DpPc
  <2>3. Lets(y) BY <1>1, <2>2, LetsGo
  <2>4. Holds(x, x.dp) BY <2>1 DEF Holds, PutPc
  <2> HIDE DEF y
  <2>5. QED BY <2>1, <2>2, <2>3, <2>4, UnlockLets
<1>4. QED BY <1>2, <1>3

-----------------------------------------------------------------------------
(* Calls that look into a directory, and what entries hold. *)

\* A frame at a place where a call holds nothing.
LEMMA LetsFree == ASSUME NEW y, y.pc \notin Firm PROVE Lets(y)
<1>1. y.pc \notin {"itrunc", "iinval"} BY DEF Firm, PutPc
<1>2. QED BY <1>1, FreeHands DEF Lets

\* A step that leaves s, unlocked, as ilock found it.
LEMMA LoadedLets ==
    ASSUME All, DataInv, NEW p \in Proc, NEW y, After(p, y), Lets(y), NEW s \in Slot,
           Chg(ic, ic', s, Loaded(s), None), Free(s), ~NoType(s), fs' = fs, t[p].pc # "iinval"
    PROVE  DataInv'
<1>1. y.pc \notin {"itrunc", "iinval"} /\ \A x \in Slot : ~Holds(y, x) BY DEF Lets
<1>2. QED BY <1>1, DataLoaded

\* ilock finds an entry that has references.
LEMMA LoadedRef == ASSUME All, NEW s \in Slot, ~NoType(s) PROVE ic[s].ref > 0
<1>1. PICK k : k = ic[s].ref OBVIOUS
<1>2. k \in Nat
  <2>1. ic[s].ref = InitRefs(s) + leak[s] + Refs(s) BY DEF All, Exact
  <2>2. InitRefs(s) \in Nat /\ leak[s] \in Nat BY DEF InitRefs, All, Shape
  <2>3. Refs(s) \in Nat BY RefsAtLeast
  <2>4. QED BY <1>1, <2>1, <2>2, <2>3
<1>3. ~(k < 1) BY <1>1 DEF NoType
<1>4. QED BY <1>1, <1>2, <1>3

\* The next entry is taken after the directory s was changed.
LEMMA TakenChg ==
    ASSUME All, NEW s \in Slot, ic[s].ref > 0, NEW c, NEW d, NEW l, Chg(ic, c, s, d, l),
           CacheRefs(c), NEW i, Iget(c, i).got # None
    PROVE  Chg(ic, Iget(c, i).c, s, d, l)
<1>1. GoodCache(c) BY DEF Chg
<1>2. Grown(c, Iget(c, i).c) BY <1>1, IgetHolds DEF CacheRefs
<1>3. QED BY <1>2, ChgGrown

\* ilock and iunlock leave the references.
LEMMA TurnedRefs ==
    ASSUME All, NEW p \in Proc, NEW s \in Slot, NEW d
    PROVE  CacheRefs(Lock(ic, s, p, d)) /\ CacheRefs(Set(ic, s, d))
<1>1. GoodCache(ic) /\ CacheRefs(ic) BY Facts DEF CacheRefs
<1>2. Turned(ic, Lock(ic, s, p, d), s, p) /\ Turned(ic, Set(ic, s, d), s, None)
  BY <1>1, LockTurns, SetTurns
<1>3. QED BY <1>1, <1>2, SumTurned

\* namex.
LEMMA WalkData == ASSUME All, DataInv, NEW p \in Proc, Walk(p), ~halted' PROVE DataInv'
<1> DEFINE x == t[p]
           d == Loaded(x.dp)
           c == Set(ic, x.dp, d)
           i == InumOf(fs, d, Head(x.e))
           k == Iget(c, i).got
           a == [x EXCEPT !.e = Tail(@)]
<1>1. x.pc = "walk" /\ fs' = fs /\ Free(x.dp) /\ ~NoType(x.dp) BY DEF Walk, At, Halt
<1>2. /\ x \in Frame /\ x.put = None /\ x.dp \in Slot /\ GoodCache(ic) /\ Ready("walk", x)
      /\ x.call \notin RW
  BY <1>1, DpFacts DEF DpPc
<1>3. /\ x.e # <<>> /\ PathCall(x)
      /\ IF Linking(x) THEN x.ip \in Slot ELSE x.ip = None
  BY <1>2 DEF Ready, PathCall, IpPc, RW
<1>4. \/ ic' = c /\ x.par /\ Go(p, Arrived(x, x.dp))
      \/ ic' = c /\ Go(p, PutDp(x, NamexFails(x)))
      \/ /\ k # None /\ ic' = Iget(c, i).c /\ ~(x.par /\ Len(x.e) = 1)
         /\ Go(p, IF a.e = <<>> THEN PutDp([a EXCEPT !.ip = k], AfterNamex(x))
                  ELSE [PutThen(a, x.dp, "walk") EXCEPT !.dp = k])
  BY DEF Walk, Halt
<1>5. Chg(ic, c, x.dp, d, None) BY <1>2, ChgLock
<1>6. ic[x.dp].ref > 0 /\ CacheRefs(c)
  <2> HIDE DEF d
  <2>1. QED BY <1>1, <1>2, LoadedRef, TurnedRefs
<1>7. CASE ic' = c /\ x.par /\ Go(p, Arrived(x, x.dp))
  <2> DEFINE y == [x EXCEPT !.pc = AfterNamex(x), !.dp = x.dp]
  <2>1. After(p, y) BY <1>7, GoAfter DEF Arrived
  <2>2. y.pc = AfterNamex(x) BY <1>2 DEF Frame
  <2>3. AfterNamex(x) \in {"create", "unlink", "linkdir"} BY <1>3, <1>7, NamexPlaces
  <2> HIDE DEF y
  <2>4. y.pc \notin Firm BY <2>2, <2>3 DEF Firm, PutPc
  <2>5. Lets(y) BY <2>4, LetsFree
  <2>6. Chg(ic, ic', x.dp, d, None) BY <1>5, <1>7
  <2>7. QED BY <1>1, <1>2, <2>1, <2>5, <2>6, LoadedLets
<1>8. CASE ic' = c /\ Go(p, PutDp(x, NamexFails(x)))
  <2> DEFINE y == PutDp(x, NamexFails(x))
  <2>1. After(p, y) BY <1>8, GoAfter
  <2>2. NamexFails(x) \in Loose BY <1>3, NamexPlaces DEF Loose, CallPc, IpPc
  <2>3. Lets(y) BY <1>2, <2>2, LetsGo
  <2>4. Chg(ic, ic', x.dp, d, None) BY <1>5, <1>8
  <2> HIDE DEF y
  <2>5. QED BY <1>1, <1>2, <2>1, <2>3, <2>4, LoadedLets
<1>9. CASE /\ k # None /\ ic' = Iget(c, i).c /\ ~(x.par /\ Len(x.e) = 1)
           /\ Go(p, IF a.e = <<>> THEN PutDp([a EXCEPT !.ip = k], AfterNamex(x))
                    ELSE [PutThen(a, x.dp, "walk") EXCEPT !.dp = k])
  <2> HIDE DEF i
  <2>1. Chg(ic, ic', x.dp, d, None)
    <3> HIDE DEF c, d
    <3>1. QED BY <1>2, <1>5, <1>6, <1>9, TakenChg
  <2>2. k \in Slot /\ k \in SlotOr
    <3>1. Turned(ic, c, x.dp, None) BY <1>2, SetTurns
    <3> HIDE DEF c
    <3>2. QED BY <1>2, <1>9, <3>1, TakeTurned, SlotsDiffer
  <2>3. x.e \in Seq(STRING) /\ Tail(x.e) \in Seq(STRING) /\ (Tail(x.e) = <<>> => Len(x.e) = 1)
    <3>1. x.e \in Seq(STRING) BY <1>2 DEF Frame
    <3>2. x.e # <<>> BY <1>3
    <3> DEFINE e == x.e
    <3> HIDE DEF e, x
    <3>3. e \in Seq(STRING) /\ e # <<>> BY <3>1, <3>2 DEF e
    <3>4. Tail(e) \in Seq(STRING) BY ONLY <3>3
    <3>5. Len(e) \in Nat /\ Len(Tail(e)) = Len(e) - 1 BY ONLY <3>3
    <3>6. ASSUME Tail(e) = <<>> PROVE Len(e) = 1
      <4>1. Len(Tail(e)) = 0
        <5>1. Len(<<>>) = 0 OBVIOUS
        <5>2. QED BY ONLY <3>6, <5>1, Zenon
      <4>2. QED BY ONLY <3>5, <4>1
    <3>7. QED BY <3>1, <3>4, <3>6 DEF e
  <2>4. a \in Frame /\ a.e = Tail(x.e) BY <1>2, <2>3 DEF Frame
  <2>5. x.dp \in SlotOr BY <1>2, SlotsDiffer
  <2> HIDE DEF k
  <2>6. CASE a.e = <<>>
    <3> DEFINE b == [a EXCEPT !.ip = k]
               y == PutDp(b, AfterNamex(x))
    <3>1. After(p, y) BY <1>9, <2>6, GoAfter
    <3>2. b \in Frame BY <2>2, <2>4 DEF Frame
    <3>3. ~x.par BY <1>9, <2>3, <2>4, <2>6
    <3>4. AfterNamex(x) \in {"open", "chdir", "link"} BY <1>3, <3>3, NamexPlaces DEF Linking
    <3>5. AfterNamex(x) \in Loose BY <3>4 DEF Loose, CallPc, IpPc
    <3> HIDE DEF b
    <3>6. Lets(y) BY <3>2, <3>5, LetsGo
    <3> HIDE DEF y
    <3>7. QED BY <1>1, <1>2, <2>1, <3>1, <3>6, LoadedLets
  <2>7. CASE a.e # <<>>
    <3> DEFINE b == PutThen(a, x.dp, "walk")
               y == [b EXCEPT !.dp = k]
    <3>1. After(p, y) BY <1>9, <2>7, GoAfter
    <3> HIDE DEF a
    <3>2. Moves(a, b, "iput", a.ip, a.dp, x.dp, "walk") BY <2>4, <2>5, PutThenMoves DEF CallPc, DpPc
    <3> HIDE DEF b
    <3>3. y.pc = "iput" /\ y.then = "walk" BY <3>2 DEF Moves, Frame
    <3> HIDE DEF y
    <3>4. Lets(y) BY <3>3 DEF Lets, Holds, PutPc
    <3>5. QED BY <1>1, <1>2, <2>1, <3>1, <3>4, LoadedLets
  <2>8. QED BY <2>6, <2>7
<1>10. QED BY <1>4, <1>7, <1>8, <1>9

-----------------------------------------------------------------------------
(* Memory errors, and calls that keep a directory locked. *)

\* A memory error.
LEMMA HitData == ASSUME All, DataInv, NEW p \in Proc, NEW s \in Touched(p), Hit(p, s) PROVE DataInv'
<1> DEFINE x == t[p]
           y == [x EXCEPT !.pc = "drain", !.put = s]
           d == Loaded(x.dp)
<1>1. ~FailStop(p, s) BY DEF Hit
<1>2. /\ t' = [t EXCEPT ![p] = y] /\ fs' = fs
      /\ \/ ic' = ic
         \/ x.pc = "walk" /\ s # x.dp /\ ic' = Set(ic, x.dp, d)
         \/ x.pc = "new" /\ ic' = Unlock(ic, s)
  BY DEF Hit, Drain, history
<1>3. /\ s \in Slot /\ x \in Frame /\ GoodCache(ic) /\ x.pc # "iinval" /\ x.put = None
      /\ x.pc = "walk" => x.dp \in Slot /\ x.ip = None
      /\ x.pc = "new" => Holds(x, s)
  BY <1>1, HitFacts DEF PutPc
<1>4. y.pc = "drain"
  <2>1. s \in SlotOr BY <1>3, SlotsDiffer
  <2>2. QED BY <1>3, <2>1 DEF Frame
<1> HIDE DEF y
<1>5. After(p, y) /\ y.pc \notin Firm BY <1>2, <1>4 DEF After, Firm, PutPc
<1>6. Lets(y) BY <1>5, LetsFree
<1>7. CASE ic' = ic BY <1>2, <1>3, <1>5, <1>7, FreeQuiet
<1>8. CASE x.pc = "walk" /\ s # x.dp /\ ic' = Set(ic, x.dp, d)
  <2>1. Free(x.dp) /\ d.type = "dir"
    <3>1. s \in {x.ip, x.dp, x.put} \ {None} \/ (Free(x.dp) /\ d.type = "dir")
      BY <1>8 DEF Touched
    <3>2. QED BY <1>3, <1>8, <3>1
  <2>2. ~NoType(x.dp)
    <3>1. Mine(p, x.dp) >= 1
      <4>1. Bit(x.dp = x.dp) = 1 BY DEF Bit
      <4>2. \A b : Bit(b) \in Nat BY DEF Bit
      <4>3. QED BY <4>1, <4>2 DEF Mine, Held
    <3>2. PICK r : r = ic[x.dp].ref OBVIOUS
    <3>3. r \in Nat /\ r >= Mine(p, x.dp) /\ Mine(p, x.dp) \in Nat BY <1>3, <1>8, <3>2, Facts
    <3>4. ~(r < 1) BY <3>1, <3>3
    <3>5. QED BY <2>1, <3>2, <3>4 DEF NoType, Loaded
  <2>3. QED BY <1>2, <1>3, <1>5, <1>6, <1>8, <2>1, <2>2, LoadsLets
<1>9. CASE x.pc = "new" /\ ic' = Unlock(ic, s) BY <1>2, <1>3, <1>5, <1>6, <1>9, UnlockLets
<1>10. QED BY <1>2, <1>7, <1>8, <1>9

\* A memory error after the next inode was found.
LEMMA HitLookedData == ASSUME All, DataInv, NEW p \in Proc, HitLooked(p) PROVE DataInv'
<1> DEFINE x == t[p]
           d == Loaded(x.dp)
           c == Set(ic, x.dp, d)
           i == InumOf(fs, d, Head(x.e))
           k == Iget(c, i).got
           b == [x EXCEPT !.ip = k]
           y == [b EXCEPT !.pc = "drain", !.put = x.dp]
<1>1. /\ x.pc = "walk" /\ k # None /\ ic' = Iget(c, i).c /\ t' = [t EXCEPT ![p] = y]
      /\ fs' = fs /\ Free(x.dp) /\ ~NoType(x.dp)
  BY DEF HitLooked, Drain, At, history
<1>2. x \in Frame /\ x.dp \in Slot /\ GoodCache(ic) BY <1>1, DpFacts DEF DpPc
<1>3. Chg(ic, c, x.dp, d, None) /\ Turned(ic, c, x.dp, None) BY <1>2, ChgLock, SetTurns
<1>4. ic[x.dp].ref > 0 /\ CacheRefs(c)
  <2> HIDE DEF d
  <2>1. QED BY <1>1, <1>2, LoadedRef, TurnedRefs
<1> HIDE DEF c, i
<1>5. k \in Slot /\ k \in SlotOr BY <1>1, <1>2, <1>3, TakeTurned, SlotsDiffer
<1>6. Chg(ic, ic', x.dp, d, None)
  <2> HIDE DEF d
  <2>1. QED BY <1>1, <1>2, <1>3, <1>4, TakenChg
<1> HIDE DEF k
<1>7. b \in Frame BY <1>2, <1>5 DEF Frame
<1> HIDE DEF b
<1>8. y.pc = "drain"
  <2>1. x.dp \in SlotOr BY <1>2, SlotsDiffer
  <2>2. QED BY <1>7, <2>1 DEF Frame
<1> HIDE DEF y
<1>9. After(p, y) /\ y.pc \notin Firm BY <1>1, <1>8 DEF After, Firm, PutPc
<1>10. Lets(y) BY <1>9, LetsFree
<1>11. QED BY <1>1, <1>2, <1>6, <1>9, <1>10, LoadedLets

\* The directory stays locked, and the call has one more inode.
LEMMA TakeData ==
    ASSUME All, DataInv, NEW p \in Proc, t[p].pc \in {"unlink", "create"},
           NEW l \in {"unlinkip", "created"}, NEW c, Chg(ic, c, t[p].dp, Loaded(t[p].dp), p),
           CacheRefs(c), NEW i, Iget(c, i).got # None, ic' = Iget(c, i).c,
           Go(p, [t[p] EXCEPT !.pc = l, !.ip = Iget(c, i).got]),
           Free(t[p].dp), ~NoType(t[p].dp), DiskOK(fs'),
           \A j \in Inum : \/ fs'.di[j] = fs.di[j]
                           \/ fs.di[j].type = "none"
    PROVE  DataInv'
<1> DEFINE x == t[p]
           d == Loaded(x.dp)
           y == [x EXCEPT !.pc = l, !.ip = Iget(c, i).got]
<1>1. x \in Frame /\ x.dp \in Slot BY DpFacts DEF DpPc
<1>2. ic[x.dp].ref > 0 BY <1>1, LoadedRef
<1>3. Chg(ic, ic', x.dp, d, p)
  <2> HIDE DEF d
  <2>1. QED BY <1>1, <1>2, TakenChg DEF d
<1>4. After(p, y) BY GoAfter
<1>5. y.pc = l /\ y.dp = x.dp BY <1>1 DEF Frame
<1> HIDE DEF y
<1>6. \A s \in Slot : Holds(y, s) => s = x.dp BY <1>5 DEF Holds, PutPc
<1>7. y.pc \notin {"itrunc", "iinval"} BY <1>5
<1>8. ic[x.dp].lock = None BY DEF Free
<1>9. ic[x.dp].inum \in Inum => d = fs'.di[ic[x.dp].inum] /\ d.type # "none"
  <2> SUFFICES ASSUME ic[x.dp].inum \in Inum
               PROVE  d = fs'.di[ic[x.dp].inum] /\ d.type # "none"
    OBVIOUS
  <2>1. d = fs.di[ic[x.dp].inum] /\ d.type # "none" BY <1>1, LoadedFits
  <2>2. QED BY <2>1
<1>10. x.pc # "iinval" OBVIOUS
<1> HIDE DEF x, d
<1>11. x = t[p] BY DEF x
<1>12. QED BY <1>1, <1>2, <1>3, <1>4, <1>6, <1>7, <1>8, <1>9, <1>10, <1>11, DataChange

\* unlink.
LEMMA UnlinkData == ASSUME All, DataInv, NEW p \in Proc, Unlink(p), ~halted' PROVE DataInv'
<1> DEFINE x == t[p]
           d == Loaded(x.dp)
           i == InumOf(fs, d, Head(x.e))
           c == Lock(ic, x.dp, p, d)
<1>1. x.pc = "unlink" /\ fs' = fs /\ Free(x.dp) /\ ~NoType(x.dp) BY DEF Unlink, At, Halt
<1>2. x.dp \in Slot /\ GoodCache(ic) /\ x \in Frame BY <1>1, DpFacts DEF DpPc
<1>3. \/ Go(p, PutDp(x, "end")) /\ ic' = Set(ic, x.dp, d)
      \/ /\ Iget(c, i).got # None /\ ic' = Iget(c, i).c
         /\ Go(p, [x EXCEPT !.pc = "unlinkip", !.ip = Iget(c, i).got])
  BY DEF Unlink, Halt
<1> HIDE DEF i
<1>4. CASE Go(p, PutDp(x, "end")) /\ ic' = Set(ic, x.dp, d)
  <2> DEFINE y == PutDp(x, "end")
  <2>1. "end" \in Loose BY DEF Loose, CallPc
  <2>2. Lets(y) /\ After(p, y) BY <1>2, <1>4, <2>1, LetsGo, GoAfter
  <2> HIDE DEF y
  <2>3. QED BY <1>1, <1>2, <1>4, <2>2, LoadsLets
<1>5. CASE /\ Iget(c, i).got # None /\ ic' = Iget(c, i).c
           /\ Go(p, [x EXCEPT !.pc = "unlinkip", !.ip = Iget(c, i).got])
  <2>1. Chg(ic, c, x.dp, d, p) BY <1>2, ChgLock
  <2>2. CacheRefs(c) BY <1>2, TurnedRefs
  <2>3. DiskOK(fs') /\ \A j \in Inum : fs'.di[j] = fs.di[j] BY <1>1 DEF DataInv
  <2> HIDE DEF c
  <2>4. QED BY <1>1, <1>5, <2>1, <2>2, <2>3, TakeData
<1>6. QED BY <1>3, <1>4, <1>5

-----------------------------------------------------------------------------
(* Calls that change inodes. *)

\* iupdate of an inode that has its fields.
LEMMA DiskWrite ==
    ASSUME NEW f, DiskOK(f), NEW i, NEW d, i \in Inum => DOMAIN d = DinodeFields
    PROVE  /\ DiskOK(Iupdate(f, i, d))
           /\ \A j \in Inum : Iupdate(f, i, d).di[j] = IF j = i THEN d ELSE f.di[j]
<1>1. TreeOK(f) BY DEF DiskOK, TreeOK
<1> DEFINE g == Iupdate(f, i, d)
<1>2. TreeOK(g) /\ \A j \in Inum : g.di[j] = IF j = i THEN d ELSE f.di[j] BY <1>1, IupdateDisk
<1> HIDE DEF g
<1>3. QED BY <1>2 DEF DiskOK, TreeOK, g

\* A step of p that writes the inode of s, as it is in memory then.
LEMMA WrittenData ==
    ASSUME All, DataInv, NEW p \in Proc, NEW y, After(p, y), Lets(y), NEW s \in Slot, NEW d,
           Chg(ic, ic', s, d, None), ic[s].ref > 0, ic[s].lock = None \/ ic[s].lock = p,
           DiskOK(fs'),
           \A j \in Inum : fs'.di[j] = IF j = ic[s].inum THEN d ELSE fs.di[j],
           ic[s].inum \in Inum => d.type # "none", t[p].pc # "iinval"
    PROVE  DataInv'
<1>1. y.pc \notin {"itrunc", "iinval"} /\ \A x \in Slot : ~Holds(y, x) BY DEF Lets
<1>2. ic[s].inum \in Inum => d = fs'.di[ic[s].inum] /\ d.type # "none" OBVIOUS
<1>3. \A j \in Inum : fs'.di[j] = fs.di[j] \/ fs.di[j].type = "none" \/ j = ic[s].inum OBVIOUS
<1>4. QED BY <1>1, <1>2, <1>3, DataChange

\* The same with another count of links.
LEMMA NlinkData ==
    ASSUME All, DataInv, NEW p \in Proc, NEW y, After(p, y), Lets(y), NEW s \in Slot, NEW d, NEW k,
           Chg(ic, ic', s, Nlink(d, k), None), ic[s].ref > 0, ic[s].lock = None \/ ic[s].lock = p,
           fs' = Iupdate(fs, ic[s].inum, Nlink(d, k)), t[p].pc # "iinval",
           ic[s].inum \in Inum => DOMAIN d = DinodeFields /\ d.type # "none"
    PROVE  DataInv'
<1> DEFINE n == Nlink(d, k)
<1>1. ic[s].inum \in Inum => DOMAIN n = DinodeFields /\ n.type # "none"
  BY DEF Nlink, DinodeFields
<1> HIDE DEF n
<1>2. DiskOK(fs) /\ fs' = Iupdate(fs, ic[s].inum, n) BY DEF DataInv, n
<1>3. /\ DiskOK(fs')
      /\ \A j \in Inum : fs'.di[j] = IF j = ic[s].inum THEN n ELSE fs.di[j]
  BY <1>1, <1>2, DiskWrite
<1>4. Chg(ic, ic', s, n, None) BY DEF n
<1>5. QED BY <1>1, <1>3, <1>4, WrittenData

\* The count of links is taken back, or lowered.
LEMMA LowerData ==
    ASSUME All, DataInv, NEW p \in Proc, LinkBad(p) \/ UnlinkDone(p), ~halted' PROVE DataInv'
<1> DEFINE x == t[p]
           y == PutIp(x, "end")
<1>1. x.pc \in {"linkbad", "unlinked"} /\ After(p, y)
  BY GoAfter DEF LinkBad, UnlinkDone, At, Halt
<1>2. x.ip \in Slot /\ x \in Frame /\ GoodCache(ic) BY <1>1, IpCached DEF IpPc
<1>3. "end" \in Loose BY DEF Loose, CallPc
<1>4. Lets(y) BY <1>2, <1>3, LetsGo
<1> HIDE DEF y
<1>5. CASE LinkBad(p)
  <2> DEFINE d == Loaded(x.ip)
             n == Nlink(d, -1)
  <2>1. /\ Free(x.ip) /\ ~NoType(x.ip) /\ ic' = Set(ic, x.ip, n)
        /\ fs' = Iupdate(fs, ic[x.ip].inum, n)
    BY <1>5 DEF LinkBad, Halt
  <2>2. Chg(ic, ic', x.ip, n, None)
    <3> HIDE DEF n
    <3>1. QED BY <1>2, <2>1, ChgLock
  <2>3. ic[x.ip].ref > 0 /\ ic[x.ip].lock = None BY <1>2, <2>1, LoadedRef DEF Free
  <2>4. ic[x.ip].inum \in Inum => DOMAIN d = DinodeFields /\ d.type # "none"
    BY <1>2, <2>1, LoadedFits
  <2> HIDE DEF d
  <2>5. QED BY <1>1, <1>2, <1>4, <2>1, <2>2, <2>3, <2>4, NlinkData
<1>6. CASE UnlinkDone(p)
  <2> DEFINE d == ic[x.ip].d
             n == Nlink(d, -1)
  <2>1. ic' = Set(ic, x.ip, n) /\ fs' = Iupdate(fs, ic[x.ip].inum, n) /\ x.pc = "unlinked"
    BY <1>6 DEF UnlinkDone, At
  <2>2. Chg(ic, ic', x.ip, n, None)
    <3> HIDE DEF n
    <3>1. QED BY <1>2, <2>1, ChgLock
  <2>3. Holds(x, x.ip) BY <2>1 DEF Holds, PutPc
  <2>4. /\ ic[x.ip].ref > 0 /\ ic[x.ip].lock = p
        /\ ic[x.ip].inum \in Inum => DOMAIN d = DinodeFields /\ d.type # "none"
    BY <1>1, <1>2, <2>3, LockedMatches DEF Matches
  <2> HIDE DEF d
  <2>5. QED BY <1>1, <1>2, <1>4, <2>1, <2>2, <2>4, NlinkData
<1>7. QED BY <1>5, <1>6

\* writei into s.
LEMMA WroteData ==
    ASSUME All, DataInv, NEW p \in Proc, NEW y, After(p, y), Lets(y), NEW s \in Slot, Free(s),
           ~NoType(s), NEW w, Wrote(Work(fs, Loaded(s)), w, ic[s].inum), w.ok,
           fs' = w.fs, ic' = Set(ic, s, w.d), t[p].pc # "iinval"
    PROVE  DataInv'
<1> DEFINE d == Loaded(s)
           v == Work(fs, d)
           e == w.d
<1>1. DiskOK(fs) /\ TreeOK(fs) BY DEF DataInv, DiskOK, TreeOK
<1>2. v.fs = fs /\ v.d = d BY <1>1, WorkFresh
<1>3. Wrote(v, w, ic[s].inum) OBVIOUS
<1>4. ic[s].inum \in Inum => DOMAIN d = DinodeFields /\ d.type # "none" BY LoadedFits
<1> HIDE DEF v, d
<1>5. /\ \A j \in Inum : fs'.di[j] = IF j = ic[s].inum THEN e ELSE fs.di[j]
      /\ ic[s].inum \in Inum => DOMAIN e = DinodeFields /\ e.type # "none"
      /\ TreeOK(fs')
  BY <1>2, <1>3, <1>4 DEF Wrote, DinodeFields, WorkOK, TreeOK
<1>6. DiskOK(fs') BY <1>1, <1>5 DEF DiskOK, TreeOK
<1>7. GoodCache(ic) /\ ic[s].ref > 0 /\ ic[s].lock = None BY Facts, LoadedRef DEF Free
<1>8. Chg(ic, ic', s, e, None)
  <2> HIDE DEF e
  <2>1. ic' = Set(ic, s, e) BY DEF e
  <2>2. QED BY <1>7, <2>1, ChgLock
<1> HIDE DEF e
<1>9. QED BY <1>5, <1>6, <1>7, <1>8, WrittenData

\* dirlink in link, and a name that is there.
LEMMA LinkDirData == ASSUME All, DataInv, NEW p \in Proc, LinkDir(p), ~halted' PROVE DataInv'
<1> DEFINE x == t[p]
           d == Loaded(x.dp)
           v == Work(fs, d)
           w == Dirlink(v, ic[x.dp].inum, Head(x.e), ic[x.ip].inum)
<1>1. x.pc = "linkdir" /\ Free(x.dp) /\ ~NoType(x.dp) BY DEF LinkDir, At, Halt
<1>2. x.dp \in Slot /\ GoodCache(ic) /\ x \in Frame BY <1>1, DpFacts DEF DpPc
<1>3. \/ fs' = fs /\ ic' = Set(ic, x.dp, d) /\ Go(p, PutDp(x, "linkbad"))
      \/ w.ok /\ fs' = w.fs /\ ic' = Set(ic, x.dp, w.d) /\ Go(p, PutDp(x, "linked"))
  BY DEF LinkDir, Halt
<1>4. {"linkbad", "linked"} \subseteq Loose BY DEF Loose, CallPc, IpPc
<1>5. /\ Go(p, PutDp(x, "linkbad")) => \E y : After(p, y) /\ Lets(y)
      /\ Go(p, PutDp(x, "linked")) => \E y : After(p, y) /\ Lets(y)
  BY <1>2, <1>4, LetsGo, GoAfter
<1>6. CASE fs' = fs /\ ic' = Set(ic, x.dp, d) /\ Go(p, PutDp(x, "linkbad"))
  <2> HIDE DEF w, v
  <2>1. QED BY <1>1, <1>2, <1>5, <1>6, LoadsLets
<1>7. CASE w.ok /\ fs' = w.fs /\ ic' = Set(ic, x.dp, w.d) /\ Go(p, PutDp(x, "linked"))
  <2>1. TreeOK(fs) BY DEF DataInv, DiskOK, TreeOK
  <2>2. WorkOK(v) /\ v.ok BY <2>1, WorkFresh
  <2>3. Wrote(v, w, ic[x.dp].inum)
    <3> HIDE DEF v
    <3>1. QED BY <2>2, DirlinkWrote
  <2> HIDE DEF w
  <2>4. QED BY <1>1, <1>2, <1>5, <1>7, <2>3, WroteData
<1>8. QED BY <1>3, <1>6, <1>7

\* A chunk of filewrite, whatever comes after it.
LEMMA ChunkData ==
    ASSUME All, DataInv, NEW p \in Proc, t[p].pc = "write", Free(t[p].ip), ~NoType(t[p].ip),
           WriteChunk(p), NEW y, After(p, y), Lets(y)
    PROVE  DataInv'
<1> DEFINE x == t[p]
           d == Loaded(x.ip)
           v == Work(fs, d)
           inum == ic[x.ip].inum
           us == [i \in 1..x.n |-> Data(inum)]
           w == Writei(v, inum, of[p].off, us)
<1>1. x.ip \in Slot /\ GoodCache(ic) /\ x \in Frame BY IpCached DEF IpPc
<1>2. w.ok /\ fs' = w.fs /\ ic' = Set(ic, x.ip, w.d) BY DEF WriteChunk, Chunk
<1>3. TreeOK(fs) BY DEF DataInv, DiskOK, TreeOK
<1>4. WorkOK(v) /\ v.ok BY <1>3, WorkFresh
<1>5. Len(us) \in Nat
  <2>1. x.n \in Nat BY <1>1 DEF Frame
  <2>2. QED BY <2>1
<1>6. Wrote(v, w, inum)
  <2> HIDE DEF v, us, inum
  <2>1. QED BY <1>4, <1>5, WriteiWrote
<1> HIDE DEF w
<1>7. QED BY <1>1, <1>2, <1>6, WroteData

\* filewrite.
LEMMA WriteData == ASSUME All, DataInv, NEW p \in Proc, Write(p), ~halted' PROVE DataInv'
<1> DEFINE x == t[p]
           y == Goto(x, "end")
           d == Loaded(x.ip)
<1>1. x.pc = "write" /\ Free(x.ip) /\ ~NoType(x.ip) /\ After(p, y)
  BY GoAfter DEF Write, At, Halt
<1>2. x.ip \in Slot /\ GoodCache(ic) /\ x \in Frame BY <1>1, IpCached DEF IpPc
<1>3. (fs' = fs /\ ic' = Set(ic, x.ip, d)) \/ WriteChunk(p) BY DEF Write, Halt
<1>4. Lets(y) BY <1>2, LetsGo
<1> HIDE DEF y
<1>5. CASE fs' = fs /\ ic' = Set(ic, x.ip, d) BY <1>1, <1>2, <1>4, <1>5, LoadsLets
<1>6. CASE WriteChunk(p) BY <1>1, <1>4, <1>6, ChunkData
<1>7. QED BY <1>3, <1>5, <1>6

\* A memory error after the file was written.
LEMMA HitWrittenData == ASSUME All, DataInv, NEW p \in Proc, HitWritten(p) PROVE DataInv'
<1> DEFINE x == t[p]
           y == [x EXCEPT !.pc = "drain", !.put = x.ip]
<1>1. /\ x.pc = "write" /\ Free(x.ip) /\ ~NoType(x.ip) /\ WriteChunk(p)
      /\ t' = [t EXCEPT ![p] = y]
  BY DEF HitWritten, Drain, At
<1>2. y.pc = "drain"
  <2>1. x \in Frame /\ x.ip \in SlotOr BY Facts DEF Frame
  <2>2. QED BY <2>1 DEF Frame
<1> HIDE DEF y
<1>3. After(p, y) /\ y.pc \notin Firm BY <1>1, <1>2 DEF After, Firm, PutPc
<1>4. Lets(y) BY <1>3, LetsFree
<1>5. QED BY <1>1, <1>3, <1>4, ChunkData

\* link counts first, and looks up the directory.
LEMMA LinkData == ASSUME All, DataInv, NEW p \in Proc, Link(p), ~halted' PROVE DataInv'
<1> DEFINE x == t[p]
           d == Loaded(x.ip)
           n == Nlink(d, 1)
           c == Set(ic, x.ip, n)
           a1 == [x EXCEPT !.abs = x.e2.abs]
           a2 == [a1 EXCEPT !.e = x.e2.e]
           a == [a2 EXCEPT !.par = TRUE]
           r == Namex(p, a, c)
<1>1. x.pc = "link" /\ Free(x.ip) /\ ~NoType(x.ip) BY DEF Link, At, Halt
<1>2. x.ip \in Slot /\ GoodCache(ic) /\ x \in Frame BY <1>1, IpCached DEF IpPc
<1>3. x.put = None /\ x.then \notin Moved /\ Ready("link", x) /\ x.pc # "dead"
  <2>1. x.pc \in CallPc /\ x.pc \notin Moved BY <1>1 DEF CallPc, IpPc, Moved
  <2>2. QED BY <1>1, <2>1, CallFacts
<1>4. x.dp = None /\ x.call = "link" BY <1>3 DEF Ready, DpPc
<1>5. a = [x EXCEPT !.abs = x.e2.abs, !.e = x.e2.e, !.par = TRUE] OBVIOUS
<1>6. \/ Go(p, PutIp(x, "end")) /\ ic' = Set(ic, x.ip, d) /\ fs' = fs
      \/ r.ok /\ ic' = r.c /\ Go(p, r.x) /\ fs' = Iupdate(fs, ic[x.ip].inum, n)
  BY <1>5 DEF Link, Halt
<1>7. CASE Go(p, PutIp(x, "end")) /\ ic' = Set(ic, x.ip, d) /\ fs' = fs
  <2>1. "end" \in Loose BY DEF Loose, CallPc
  <2>2. \E y : After(p, y) /\ Lets(y) BY <1>2, <1>7, <2>1, LetsGo, GoAfter
  <2> HIDE DEF r, n, c, a
  <2>3. QED BY <1>1, <1>2, <1>7, <2>2, LoadsLets
<1>8. CASE r.ok /\ ic' = r.c /\ Go(p, r.x) /\ fs' = Iupdate(fs, ic[x.ip].inum, n)
  <2>1. ic[x.ip].inum \in Inum => DOMAIN d = DinodeFields /\ d.type # "none"
    BY <1>1, <1>2, LoadedFits
  <2>2. ic[x.ip].ref > 0 /\ ic[x.ip].lock = None BY <1>1, <1>2, LoadedRef DEF Free
  <2> HIDE DEF n
  <2>3. Turned(ic, c, x.ip, None) /\ Chg(ic, c, x.ip, n, None) /\ CacheRefs(c) /\ GoodCache(c)
    <3>1. Turned(ic, c, x.ip, None) /\ Chg(ic, c, x.ip, n, None) BY <1>2, SetTurns, ChgLock
    <3>2. CacheRefs(c) BY <1>2, TurnedRefs
    <3>3. QED BY <3>1, <3>2 DEF Chg
  <2> HIDE DEF c
  <2> DEFINE Linked(z) == /\ z \in Frame /\ z.pc = "link" /\ z.ip = x.ip /\ z.dp = None
                          /\ z.put = None /\ z.then = x.then /\ z.call = "link"
  <2>4. x.e2 \in PathRec BY <1>2 DEF Frame
  <2>5. Linked(a1) BY <1>1, <1>2, <1>3, <1>4, <2>4 DEF Frame, PathRec
  <2> HIDE DEF a1
  <2>6. Linked(a2) BY <2>4, <2>5 DEF Frame, PathRec
  <2> HIDE DEF a2
  <2>7. Linked(a) /\ a.par BY <2>6 DEF Frame
  <2> HIDE DEF a
  <2>8. PathFrame(a) BY <1>2, <1>3, <2>7 DEF PathFrame, PathCall, Linking, RW, Parents
  <2>9. cwd[p] \in Slot /\ c[cwd[p]].ref > 0
    <3>1. cwd[p] \in Slot /\ ic[cwd[p]].ref > 0 BY <1>3, CwdHeld
    <3>2. QED BY <2>3, <3>1 DEF Turned
  <2>10. Grown(c, r.c) BY <1>8, <2>3, <2>9, NamexHolds
  <2>11. Lets(r.x) BY <1>8, <2>3, <2>8, <2>9, NamexLoose DEF Lets
  <2>12. After(p, r.x) BY <1>8, GoAfter
  <2> HIDE DEF r, d
  <2>13. Chg(ic, ic', x.ip, n, None) BY <1>2, <1>8, <2>2, <2>3, <2>10, ChgGrown
  <2>14. Chg(ic, ic', x.ip, Nlink(d, 1), None) /\ fs' = Iupdate(fs, ic[x.ip].inum, Nlink(d, 1))
    BY <1>8, <2>13 DEF n
  <2>15. QED BY <1>1, <1>2, <2>1, <2>2, <2>11, <2>12, <2>14, NlinkData
<1>9. QED BY <1>6, <1>7, <1>8

\* create of a name that is there, or of a new inode.
LEMMA CreateData == ASSUME All, DataInv, NEW p \in Proc, Create(p), ~halted' PROVE DataInv'
<1> DEFINE x == t[p]
           d == Loaded(x.dp)
           c == Lock(ic, x.dp, p, d)
           i == InumOf(fs, d, Head(x.e))
           S == {j \in Inum : fs.di[j].type = "none"}
           m == Min(S)
           k == Iget(c, i).got
           n == [FreeDinode EXCEPT !.type = TypeFor(x.call)]
<1>1. x.pc = "create" /\ Free(x.dp) /\ ~NoType(x.dp) BY DEF Create, At, Halt
<1>2. x.dp \in Slot /\ GoodCache(ic) /\ x \in Frame BY <1>1, DpFacts DEF DpPc
<1>3. \/ /\ k # None /\ ic' = Unlock(Iget(c, i).c, x.dp) /\ fs' = fs
         /\ Go(p, PutDp([x EXCEPT !.ip = k], "exists"))
      \/ /\ Iget(c, m).got # None /\ ic' = Iget(c, m).c /\ S # {} /\ fs' = Iupdate(fs, m, n)
         /\ Go(p, [x EXCEPT !.pc = "created", !.ip = Iget(c, m).got])
  BY DEF Create, Halt
<1>4. Turned(ic, c, x.dp, p) BY <1>2, LockTurns
<1>5. Chg(ic, c, x.dp, d, p) BY <1>2, ChgLock
<1>6. ic[x.dp].ref > 0 /\ CacheRefs(c)
  <2> HIDE DEF d
  <2>1. QED BY <1>1, <1>2, LoadedRef, TurnedRefs
<1> HIDE DEF c, i, n
<1>7. CASE /\ k # None /\ ic' = Unlock(Iget(c, i).c, x.dp) /\ fs' = fs
           /\ Go(p, PutDp([x EXCEPT !.ip = k], "exists"))
  <2> DEFINE a == [x EXCEPT !.ip = k]
             h == Iget(c, i).c
  <2>1. k \in Slot BY <1>2, <1>4, <1>7, TakeTurned
  <2>2. Chg(ic, h, x.dp, d, p)
    <3> HIDE DEF d
    <3>1. QED BY <1>2, <1>5, <1>6, <1>7, TakenChg
  <2>3. Chg(ic, ic', x.dp, d, None)
    <3> HIDE DEF h, d
    <3>1. ic' = Unlock(h, x.dp) BY <1>7 DEF h
    <3>2. QED BY <1>2, <2>2, <3>1, ChgUnlockAfter
  <2>4. a \in Frame BY <1>2, <2>1, SlotsDiffer DEF Frame
  <2>5. "exists" \in Loose BY DEF Loose, CallPc, IpPc
  <2>6. Go(p, PutDp(a, "exists")) BY <1>7
  <2> HIDE DEF a
  <2>7. After(p, PutDp(a, "exists")) /\ Lets(PutDp(a, "exists"))
    BY <2>4, <2>5, <2>6, LetsGo, GoAfter
  <2>8. QED BY <1>1, <1>2, <1>7, <2>3, <2>7, LoadedLets
<1>8. CASE /\ Iget(c, m).got # None /\ ic' = Iget(c, m).c /\ S # {} /\ fs' = Iupdate(fs, m, n)
           /\ Go(p, [x EXCEPT !.pc = "created", !.ip = Iget(c, m).got])
  <2>1. m \in S
    <3>1. S \subseteq Nat BY DEF Inum
    <3> HIDE DEF S
    <3>2. QED BY <1>8, <3>1, LeastSlot
  <2>2. DOMAIN n = DinodeFields BY DEF n, FreeDinode, DinodeFields
  <2>3. fs.di[m].type = "none" BY <2>1
  <2> HIDE DEF S, m
  <2>4. /\ DiskOK(fs')
        /\ \A j \in Inum : fs'.di[j] = IF j = m THEN n ELSE fs.di[j]
    BY <1>8, <2>2, DiskWrite DEF DataInv
  <2>5. \A j \in Inum : \/ fs'.di[j] = fs.di[j]
                        \/ fs.di[j].type = "none"
    BY <2>3, <2>4
  <2>6. QED BY <1>1, <1>5, <1>6, <1>8, <2>4, <2>5, TakeData
<1>9. QED BY <1>3, <1>7, <1>8

-----------------------------------------------------------------------------
(* Calls that have a directory and an inode locked. *)

\* What unlink and create have when they lock the second inode.
LEMMA BothFacts ==
    ASSUME All, DataInv, NEW p \in Proc, t[p].pc \in {"unlinkip", "created"},
           Free(t[p].ip), ~NoType(t[p].ip)
    PROVE  /\ t[p] \in Frame /\ t[p].ip \in Slot /\ t[p].dp \in Slot /\ t[p].ip # t[p].dp
           /\ GoodCache(ic) /\ Holds(t[p], t[p].dp) /\ \A s \in Slot : Holds(t[p], s) => s = t[p].dp
           /\ ic[t[p].ip].ref > 0 /\ ic[t[p].dp].ref > 0
           /\ ic[t[p].ip].inum # ic[t[p].dp].inum
<1> DEFINE x == t[p]
<1>1. /\ x \in Frame /\ x.dp \in Slot /\ GoodCache(ic) /\ Ready(x.pc, x)
      /\ \A s \in Slot : Holds(x, s) => s = x.dp
  BY DpFacts DEF DpPc
<1>2. x.ip \in Slot BY <1>1 DEF Ready, IpPc
<1>3. Holds(x, x.dp) BY DEF Holds, PutPc
<1>4. ic[x.dp].lock = p /\ ic[x.dp].ref > 0 BY <1>1, <1>3, LockedFacts
<1>5. x.ip # x.dp BY <1>4, SlotsDiffer DEF Free
<1>6. ic[x.ip].ref > 0 BY <1>2, LoadedRef
<1>7. ic[x.ip].inum # ic[x.dp].inum BY <1>1, <1>2, <1>4, <1>5, <1>6 DEF All, OneIn
<1>8. QED BY <1>1, <1>2, <1>3, <1>4, <1>5, <1>6, <1>7

\* The inode is locked, and what it is; the directory is changed and put.
LEMMA BothData ==
    ASSUME All, DataInv, NEW p \in Proc, t[p].pc \in {"unlinkip", "created"},
           NEW l \in {"unlinked", "new"}, Go(p, PutDp(t[p], l)), Free(t[p].ip), ~NoType(t[p].ip),
           NEW d, NEW e, ic' = Set(Lock(ic, t[p].ip, p, d), t[p].dp, e), DiskOK(fs'),
           \A j \in Inum : j \notin {ic[t[p].ip].inum, ic[t[p].dp].inum} => fs'.di[j] = fs.di[j],
           ic[t[p].ip].inum \in Inum => fs'.di[ic[t[p].ip].inum] = d /\ d.type # "none",
           ic[t[p].dp].inum \in Inum => fs'.di[ic[t[p].dp].inum] = e /\ e.type # "none"
    PROVE  DataInv'
<1> DEFINE x == t[p]
           y == PutDp(x, l)
           c == Lock(ic, x.ip, p, d)
<1>1. /\ x \in Frame /\ x.ip \in Slot /\ x.dp \in Slot /\ x.ip # x.dp
      /\ GoodCache(ic) /\ Holds(x, x.dp) /\ ic[x.ip].ref > 0 /\ ic[x.dp].ref > 0
  BY BothFacts
<1>2. After(p, y) BY GoAfter
<1>3. Moves(x, y, "iput", x.ip, None, x.dp, l)
  <2>1. l \in CallPc BY DEF CallPc, IpPc
  <2>2. QED BY <1>1, <2>1, PutDpMoves
<1> HIDE DEF y
<1>4. y.pc = "iput" /\ \A s \in Slot : Holds(y, s) => s = x.ip BY <1>3 DEF Moves, Holds, PutPc
<1>5. Upto(ic, c, x.ip) /\ c[x.ip].valid /\ c[x.ip].d = d /\ c[x.ip].lock = p BY <1>1, LockHolds
<1>6. ic' = Set(c, x.dp, e) OBVIOUS
<1> HIDE DEF c
<1>7. Upto(c, ic', x.dp) /\ ic'[x.dp].valid /\ ic'[x.dp].d = e
  <2>1. GoodCache(c) BY <1>5 DEF Upto
  <2>2. QED BY <1>1, <1>6, <2>1, SetHolds
<1>8. /\ ic'[x.ip].valid /\ ic'[x.ip].d = d /\ ic'[x.ip].lock = p
      /\ ic'[x.ip].inum = ic[x.ip].inum /\ ic'[x.dp].inum = ic[x.dp].inum
  <2>1. ic'[x.ip].valid = c[x.ip].valid /\ ic'[x.ip].d = c[x.ip].d /\ ic'[x.ip].lock = c[x.ip].lock
    BY <1>1, <1>7 DEF Upto
  <2>2. \A s \in Slot : ic'[s].inum = c[s].inum /\ c[s].inum = ic[s].inum BY <1>5, <1>7 DEF Upto
  <2>3. QED BY <1>1, <1>5, <2>1, <2>2
<1>9. Matches(fs', ic'[x.ip]) /\ Matches(fs', ic'[x.dp]) BY <1>7, <1>8 DEF Matches
<1>10. PICK K : K = {x.ip, x.dp} OBVIOUS
<1>11. K \in SUBSET Slot BY <1>1, <1>10
<1>12. \A s \in Slot \ K : Stays(ic, ic', s) BY <1>5, <1>7, <1>10 DEF Upto, Stays
<1>13. ic[x.dp].lock = p /\ ic[x.ip].lock = None BY <1>1, LockedFacts DEF Free
<1>14. \A s \in K : ic[s].lock = None \/ ic[s].lock = p BY <1>10, <1>13
<1>15. \A s \in K : Matches(fs', ic'[s]) BY <1>9, <1>10
<1>16. \A s \in Slot : Holds(y, s) => ic'[s].lock = p /\ ic'[s].valid BY <1>4, <1>8
<1>17. \A j \in Inum : \/ fs'.di[j] = fs.di[j] \/ fs.di[j].type = "none"
                       \/ \E s \in K : ic[s].ref > 0 /\ ic[s].inum = j
  BY <1>1, <1>10
<1>18. t[p].pc # "iinval" /\ y.pc \notin {"itrunc", "iinval"} BY <1>4
<1> HIDE DEF x
<1>19. \A s \in K : ic'[s].ref > 0 /\ ic'[s].valid =>
                      Matches(fs', ic'[s]) \/ (y.pc = "iinval" /\ y.put = s)
  BY <1>15
<1>20. /\ t[p].pc = "iinval" => t[p].put \in K
       /\ y.pc \in {"itrunc", "iinval"} => ~Later(y)
  BY <1>18
<1>21. All /\ DataInv /\ DiskOK(fs') /\ After(p, y) BY <1>2
<1>22. QED
  BY ONLY <1>11, <1>12, <1>14, <1>16, <1>17, <1>19, <1>20, <1>21, p \in Proc, DataStep

\* unlink of the entry, or of a directory in use.
LEMMA UnlinkIpData == ASSUME All, DataInv, NEW p \in Proc, UnlinkIp(p), ~halted' PROVE DataInv'
<1> DEFINE x == t[p]
           d == Loaded(x.ip)
           dd == ic[x.dp].d
           inum == ic[x.dp].inum
           off == Min(Offsets(fs, dd, Head(x.e)))
           v == Work(fs, dd)
           w == Writei(v, inum, off, <<Zero>>)
           dn == IF d.type = "dir" THEN Nlink(w.d, -1) ELSE w.d
<1>1. x.pc = "unlinkip" /\ Free(x.ip) /\ ~NoType(x.ip) BY DEF UnlinkIp, At, Halt
<1>2. /\ x \in Frame /\ x.ip \in Slot /\ x.dp \in Slot /\ x.ip # x.dp
      /\ GoodCache(ic) /\ Holds(x, x.dp) /\ \A s \in Slot : Holds(x, s) => s = x.dp
      /\ ic[x.ip].ref > 0 /\ ic[x.ip].inum # inum
  BY <1>1, BothFacts
<1>3. \/ fs' = fs /\ ic' = Set(ic, x.ip, d) /\ Go(p, PutIp(x, "unlinkbad"))
      \/ /\ fs' = Iupdate(w.fs, inum, dn) /\ ic' = Set(Lock(ic, x.ip, p, d), x.dp, dn)
         /\ Go(p, PutDp(x, "unlinked"))
  BY Zenon DEF UnlinkIp, Halt
<1>4. CASE fs' = fs /\ ic' = Set(ic, x.ip, d) /\ Go(p, PutIp(x, "unlinkbad"))
  <2> DEFINE y == PutIp(x, "unlinkbad")
  <2>1. After(p, y) BY <1>4, GoAfter
  <2>2. Moves(x, y, "iput", None, x.dp, x.ip, "unlinkbad")
    <3>1. "unlinkbad" \in CallPc BY DEF CallPc, DpPc
    <3>2. QED BY <1>2, <3>1, PutIpMoves
  <2> HIDE DEF y
  <2>3. y.pc = "iput" /\ \A s \in Slot : Holds(y, s) => s = x.dp BY <2>2 DEF Moves, Holds, PutPc
  <2>4. \A s \in Slot : Holds(y, s) => s # x.ip /\ Holds(x, s) BY <1>2, <2>3
  <2>5. Chg(ic, ic', x.ip, d, None)
    <3> HIDE DEF d
    <3>1. QED BY <1>2, <1>4, ChgLock
  <2>6. QED BY <1>1, <1>2, <1>4, <2>1, <2>3, <2>4, <2>5, DataLoaded
<1>5. CASE /\ fs' = Iupdate(w.fs, inum, dn) /\ ic' = Set(Lock(ic, x.ip, p, d), x.dp, dn)
           /\ Go(p, PutDp(x, "unlinked"))
  <2>1. TreeOK(fs) /\ DiskOK(fs) BY DEF DataInv, DiskOK, TreeOK
  <2>2. WorkOK(v) /\ v.fs = fs /\ v.d = dd BY <2>1, WorkFresh
  <2>3. Wrote(v, w, inum)
    <3> HIDE DEF v, inum, off
    <3>1. Len(<<Zero>>) \in Nat OBVIOUS
    <3>2. QED BY <2>2, <3>1, WriteiWrote
  <2>4. inum \in Inum => DOMAIN dd = DinodeFields /\ dd.type # "none"
    BY <1>1, <1>2, LockedMatches DEF Matches
  <2>5. ic[x.ip].inum \in Inum => fs.di[ic[x.ip].inum] = d /\ d.type # "none"
    BY <1>1, <1>2, LoadedFits
  <2> HIDE DEF w, v, dd, d
  <2>6. /\ TreeOK(w.fs) /\ \A j \in Inum : j # inum => w.fs.di[j] = fs.di[j]
        /\ inum \in Inum => DOMAIN w.d = DinodeFields /\ w.d.type # "none"
    BY <2>2, <2>3, <2>4 DEF Wrote, WorkOK, TreeOK, DinodeFields
  <2>7. inum \in Inum => DOMAIN dn = DinodeFields /\ dn.type # "none"
    BY <2>6 DEF Nlink, DinodeFields
  <2> HIDE DEF dn
  <2>8. TreeOK(fs') /\ \A j \in Inum : fs'.di[j] = IF j = inum THEN dn ELSE w.fs.di[j]
    BY <1>5, <2>6, IupdateDisk
  <2>9. DiskOK(fs') BY <2>1, <2>6, <2>7, <2>8 DEF DiskOK, TreeOK
  <2>10. ic[x.ip].inum \in Inum => fs'.di[ic[x.ip].inum] = d /\ d.type # "none"
    BY <1>2, <2>5, <2>6, <2>8
  <2>11. inum \in Inum => fs'.di[inum] = dn /\ dn.type # "none" BY <2>7, <2>8
  <2>12. \A j \in Inum : j \notin {ic[x.ip].inum, inum} => fs'.di[j] = fs.di[j] BY <2>6, <2>8
  <2>13. QED BY <1>1, <1>5, <2>9, <2>10, <2>11, <2>12, BothData
<1>6. QED BY <1>3, <1>4, <1>5

\* The new inode of create, in its directory.
LEMMA CreatedData == ASSUME All, DataInv, NEW p \in Proc, Created(p), ~halted' PROVE DataInv'
<1> DEFINE x == t[p]
           inum == ic[x.ip].inum
           dd == ic[x.dp].inum
           d == ic[x.dp].d
           w == Make(fs, dd, d, inum, Head(x.e))
           n == w.fs.di[inum]
           e == w.d
<1>1. /\ x.pc = "created" /\ Free(x.ip) /\ ~NoType(x.ip) /\ w.ok /\ fs' = w.fs
      /\ ic' = Set(Lock(ic, x.ip, p, n), x.dp, e) /\ Go(p, PutDp(x, "new"))
  BY DEF Created, At, Halt
<1>2. /\ x \in Frame /\ x.ip \in Slot /\ x.dp \in Slot /\ Holds(x, x.dp) /\ inum # dd
  BY <1>1, BothFacts
<1>3. DiskOK(fs) BY DEF DataInv
<1>4. Made(fs, dd, d, inum, w)
  <2> HIDE DEF dd, d, inum
  <2>1. QED BY <1>1, <1>3, MakeMade
<1>5. dd \in Inum => DOMAIN d = DinodeFields /\ d.type # "none"
  BY <1>1, <1>2, LockedMatches DEF Matches
<1>6. inum \in Inum => fs.di[inum].type # "none"
  <2>1. inum \in Inum => Loaded(x.ip) = fs.di[inum] /\ Loaded(x.ip).type # "none"
    BY <1>1, <1>2, LoadedFits
  <2>2. QED BY <2>1
<1> HIDE DEF w, d, dd, inum
<1>7. TreeOK(fs') /\ \A j \in Inum : j \notin {inum, dd} => fs'.di[j] = fs.di[j]
  BY <1>1, <1>4 DEF Made
<1>8. /\ inum \in Inum => fs'.di[inum] = n /\ n.type # "none" /\ DOMAIN n = DinodeFields
      /\ dd \in Inum => fs'.di[dd] = e /\ e.type # "none" /\ DOMAIN e = DinodeFields
  BY <1>1, <1>2, <1>4, <1>5, <1>6 DEF Made
<1>9. DiskOK(fs') BY <1>3, <1>7, <1>8 DEF DiskOK, TreeOK
<1> HIDE DEF n, e
<1>10. QED BY <1>1, <1>7, <1>8, <1>9, BothData DEF inum, dd

-----------------------------------------------------------------------------
(* All steps, and the start. *)

\* The new cache: the entry that was hit holds nothing.
LEMMA ReplaceData == ASSUME All, DataInv, NEW p \in Proc, Replace(p) PROVE DataInv'
<1> DEFINE s == t[p].put
           y == Idle
           K == {s}
<1>1. /\ t[p].pc = "drain" /\ OthersLeft(p) /\ ic' = [ic EXCEPT ![s] = FreeInode]
      /\ t' = [t EXCEPT ![p] = Idle] /\ fs' = fs
  BY DEF Replace, At
<1>2. s \in Slot
  <2>1. Fit(t[p]) BY DEF All, Shape
  <2>2. QED BY <1>1, <2>1 DEF Fit
<1>3. /\ y.pc = "user" /\ \A z \in Slot : ~Holds(y, z)
  BY IdleFits DEF Idle
<1>4. After(p, y) BY <1>1 DEF After
<1>5. \A z \in Slot : ic[z].lock = None
  <2> SUFFICES ASSUME NEW z \in Slot, ic[z].lock # None PROVE FALSE
    OBVIOUS
  <2>1. PICK q \in Proc : q = ic[z].lock /\ Holds(t[q], z) BY DEF All, LockInv
  <2>2. t[q].pc \in {"drain", "user", "dead", "begun", "chdone", "exit"}
    BY <1>1 DEF OthersLeft
  <2>3. QED BY <2>1, <2>2 DEF Holds, PutPc
<1>6. ic'[s].ref = 0 /\ \A z \in Slot : z # s => ic'[z] = ic[z]
  <2>1. GoodCache(ic) BY Facts
  <2>2. ic'[s] = FreeInode /\ \A z \in Slot : z # s => ic'[z] = ic[z]
    BY <1>1, <1>2, <2>1 DEF GoodCache
  <2>3. QED BY <2>2 DEF FreeInode
<1>7. \A z \in Slot \ K : Stays(ic, ic', z) BY <1>6 DEF Stays
<1>8. /\ \A z \in K : ic'[z].ref > 0 /\ ic'[z].valid =>
           Matches(fs', ic'[z]) \/ (y.pc = "iinval" /\ y.put = z)
      /\ \A z \in K : ic[z].lock = None \/ ic[z].lock = p
      /\ \A z \in Slot : Holds(y, z) => ic'[z].lock = p /\ ic'[z].valid
  <2>1. ~(ic'[s].ref > 0) BY <1>6
  <2>2. \A z \in K : ~(ic'[z].ref > 0) BY <2>1
  <2>3. QED BY <1>2, <1>3, <1>5, <2>2
<1>9. t[p].pc = "iinval" => t[p].put \in K OBVIOUS
<1>10. y.pc \in {"itrunc", "iinval"} => ~Later(y) BY <1>3
<1>11. DiskOK(fs') /\ \A j \in Inum : \/ fs'.di[j] = fs.di[j] \/ fs.di[j].type = "none"
                                      \/ \E k \in K : ic[k].ref > 0 /\ ic[k].inum = j
  BY <1>1 DEF DataInv
<1>12. K \in SUBSET Slot BY <1>2
<1>13. All /\ DataInv OBVIOUS
<1> HIDE DEF y, K, s
<1>14. QED BY ONLY <1>4, <1>7, <1>8, <1>9, <1>10, <1>11, <1>12, <1>13, p \in Proc, DataStep DEF s

\* The steps of a process in a call.
LEMMA StepData == ASSUME All, DataInv, NEW p \in Proc, Step(p), ~halted' PROVE DataInv'
<1>1. CASE EnterPath(p) BY <1>1, EnterPathData
<1>2. CASE \/ EnterFile(p) \/ EnterPut(p) \/ ExitCwd(p) \/ ExitDone(p)
           \/ ChdirDone(p) \/ LinkDone(p)
  BY <1>2, MoveData
<1>3. CASE Walk(p) BY <1>3, WalkData
<1>4. CASE Iput(p) BY <1>4, IputData
<1>5. CASE IputTrunc(p) BY <1>5, IputTruncData
<1>6. CASE IputInval(p) BY <1>6, IputInvalData
<1>7. CASE IputDrop(p) BY <1>7, IputDropData
<1>8. CASE Open(p) \/ Exists(p) \/ Chdir(p) BY <1>8, OpenData
<1>9. CASE Link(p) BY <1>9, LinkData
<1>10. CASE LinkDir(p) BY <1>10, LinkDirData
<1>11. CASE LinkBad(p) \/ UnlinkDone(p) BY <1>11, LowerData
<1>12. CASE Unlink(p) BY <1>12, UnlinkData
<1>13. CASE UnlinkIp(p) BY <1>13, UnlinkIpData
<1>14. CASE CreateDone(p) \/ UnlinkBad(p) BY <1>14, HolderData
<1>15. CASE Create(p) BY <1>15, CreateData
<1>16. CASE Created(p) BY <1>16, CreatedData
<1>17. CASE Read(p) BY <1>17, ReadData
<1>18. CASE Write(p) BY <1>18, WriteData
<1>19. CASE Replace(p) BY <1>19, ReplaceData
<1>20. QED BY <1>1, <1>2, <1>3, <1>4, <1>5, <1>6, <1>7, <1>8, <1>9, <1>10, <1>11, <1>12, <1>13,
       <1>14, <1>15, <1>16, <1>17, <1>18, <1>19 DEF Step

\* Every step.
LEMMA NextData == ASSUME All, DataInv, Next, ~halted' PROVE DataInv'
<1>1. PICK p \in Proc :
        \/ Step(p)
        \/ \E c \in PathCalls : StartPath(p, c)
        \/ StartRead(p) \/ (\E n \in WriteN : StartWrite(p, n)) \/ Close(p) \/ Exit(p)
        \/ \E s \in Touched(p) : Hit(p, s) \/ HitFails(p, s)
        \/ HitLooked(p) \/ HitWritten(p) \/ DrainFails(p)
  BY DEF Next
<1>2. CASE Step(p) BY <1>2, StepData
<1>3. CASE \E c \in PathCalls : StartPath(p, c) BY <1>3, StartPathData
<1>4. CASE StartRead(p) \/ (\E n \in WriteN : StartWrite(p, n)) \/ Close(p) \/ Exit(p)
  BY <1>4, StartData
<1>5. CASE \E s \in Touched(p) : Hit(p, s) \/ HitFails(p, s) BY <1>5, HitData DEF HitFails
<1>6. CASE HitLooked(p) \/ HitWritten(p) BY <1>6, HitLookedData, HitWrittenData
<1>7. CASE DrainFails(p) BY <1>7 DEF DrainFails, Halt
<1>8. QED BY <1>1, <1>2, <1>3, <1>4, <1>5, <1>6, <1>7

\* The numbers of the entries at the start are those that are in use.
LEMMA NumsOf ==
    ASSUME NEW x \in Starts, NEW s \in DOMAIN StartNums(x)
    PROVE  StartNums(x)[s] \in {ROOTINO, CONSOLE} \cup Range(x.cwd) \cup Range(x.open)
<1> DEFINE S == Others(x)
           n == Cardinality(S)
           q == SetToSeq(S)
<1>1. x.cwd \in [Proc -> 1..NINUM] /\ x.open \in [Proc -> 0..NINUM] BY StartsAssumption
<1>2. IsFiniteSet(S)
  <2>1. S \subseteq 0..NINUM BY <1>1, FsTreeAssumption DEF Others, Range
  <2>2. IsFiniteSet(0..NINUM) BY FsTreeAssumption, FS_Interval
  <2>3. QED BY <2>1, <2>2, FS_Subset
<1>3. n \in Nat /\ q \in [1..n -> S] BY <1>2, SeqOfSet
<1>4. S \subseteq Range(x.cwd) \cup Range(x.open) BY DEF Others
<1>5. StartNums(x) = <<ROOTINO, CONSOLE>> \o q BY DEF StartNums
<1> HIDE DEF q, n, S
<1>6. \A i \in DOMAIN (<<ROOTINO, CONSOLE>> \o q) :
        (<<ROOTINO, CONSOLE>> \o q)[i] \in {ROOTINO, CONSOLE} \cup S
  <2>1. q \in Seq(S) /\ Len(q) = n BY <1>3
  <2>2. <<ROOTINO, CONSOLE>> \in Seq(Nat) /\ Len(<<ROOTINO, CONSOLE>>) = 2
    BY DEF ROOTINO, CONSOLE
  <2>3. QED BY <1>3, <2>1, <2>2
<1>7. QED BY <1>4, <1>5, <1>6

\* The start: every entry in use is a copy of its inode.
LEMMA InitData == Init => DataInv
<1> SUFFICES ASSUME Init PROVE DataInv OBVIOUS
<1>1. PICK x \in Starts :
        /\ fs = StartTree(x)
        /\ ic = [s \in Slot |->
                   IF s \notin DOMAIN StartNums(x) THEN FreeInode
                   ELSE [inum |-> StartNums(x)[s],
                         ref |-> InitRefs(s) + StartUsers(x, x.cwd, s) + StartUsers(x, x.open, s),
                         valid |-> TRUE, lock |-> None, d |-> fs.di[StartNums(x)[s]]]]
        /\ t = [p \in Proc |-> Idle]
  BY DEF Init, StartNums, Others, StartSlot, StartUsers
<1>2. \A p \in Proc : t[p] = Idle BY <1>1
<1>3. /\ Idle.pc = "user" /\ \A s \in Slot : ~Holds(Idle, s)
  BY IdleFits DEF Idle
<1>4. DiskOK(fs) BY <1>1, TreesAssumption DEF DiskOK, DinodeFields
<1>5. PICK nums : nums = StartNums(x) OBVIOUS
<1>6. ASSUME NEW s \in DOMAIN nums, nums[s] \in Inum PROVE fs.di[nums[s]].type # "none"
  <2>1. nums[s] \in ({ROOTINO, CONSOLE} \cup Range(x.cwd) \cup Range(x.open)) \cap Inum
    BY <1>5, <1>6, NumsOf
  <2>2. QED BY <1>1, <2>1, TreesAssumption
<1>7. ASSUME NEW s \in Slot, ic[s].ref > 0 PROVE Matches(fs, ic[s])
  <2>1. s \in DOMAIN nums
    <3> SUFFICES ASSUME s \notin DOMAIN nums PROVE FALSE OBVIOUS
    <3>1. ic[s] = FreeInode BY <1>1, <1>5
    <3>2. ic[s].ref = 0 BY <3>1 DEF FreeInode
    <3>3. QED BY <1>7, <3>2
  <2>2. ic[s].inum = nums[s] /\ ic[s].d = fs.di[nums[s]]
    <3>1. ic[s] = [inum |-> nums[s],
                   ref |-> InitRefs(s) + StartUsers(x, x.cwd, s) + StartUsers(x, x.open, s),
                   valid |-> TRUE, lock |-> None, d |-> fs.di[nums[s]]]
      BY <1>1, <1>5, <2>1
    <3>2. QED BY <3>1
  <2>3. QED BY <1>6, <2>1, <2>2 DEF Matches
<1>8. QED BY <1>2, <1>3, <1>4, <1>7 DEF DataInv

\* The second invariant, while the first holds.
DataInvariant == Sound => DataInv
\* It is inductive.
LEMMA DataInvStep == Inv /\ DataInvariant /\ [Next]_vars => DataInvariant'
<1> SUFFICES ASSUME Sound => All, Sound => DataInv, [Next]_vars, Sound' PROVE DataInv'
  BY InvAll DEF DataInvariant
<1>1. CASE Next
  <2>1. ~halted' BY DEF Sound
  <2>2. Sound BY <1>1, NextSound DEF Sound
  <2>3. QED BY <1>1, <2>1, <2>2, NextData
<1>2. CASE UNCHANGED vars
  <2>1. Sound BY <1>2 DEF Sound, vars
  <2>2. ic' = ic /\ t' = t /\ fs' = fs BY <1>2 DEF vars
  <2>3. DataInv BY <2>1
  <2>4. QED BY <2>2, <2>3 DEF DataInv, Dying, Later, Matches, DiskOK, Holds
<1>3. QED BY <1>1, <1>2

\* The entries that no process has locked are what the disk has.
EntriesMatch ==
    \A s \in Slot :
        /\ ic[s].ref > 0 /\ ic[s].inum \in Inum /\ ic[s].valid /\ Free(s)
        => ic[s].d = fs.di[ic[s].inum]

-----------------------------------------------------------------------------
(* The theorems. *)

\* The inductive invariant of the cache, until a panic, a Fail-Stop or what the
\* code is known to get wrong.
THEOREM CacheInvariant == Spec => []Inv
<1>1. Init => Inv BY InitAll, InvAll
<1>2. Inv /\ [Next]_vars => Inv' BY InvStep
<1>3. QED BY <1>1, <1>2, PTL DEF Spec

\* The count of references of an inode in the cache is what the processes have,
\* through every path of every call (namex, iput, create, link, unlink, chdir,
\* exit) and the recovery of a struct inode.
THEOREM ReferencesExact == Spec => [](Sound => RefsExact)
<1>1. Inv => (Sound => RefsExact) BY DEF Inv
<1>2. QED BY <1>1, CacheInvariant, PTL

\* The entries with references of one inode number.
OneEntry == \A s \in Slot : ic[s].ref > 0 => Cached(ic, ic[s].inum) = {s}
\* An inode has one entry in the cache: iget does not make a second one while
\* another process still has the first, and a number that ialloc gives out again
\* shares the entry with a call that is still in iput for it.
THEOREM InodeHasOneEntry == Spec => [](Sound => OneEntry)
<1>1. Inv => (Sound => OneEntry)
  <2> SUFFICES ASSUME OneIn(ic), NEW s \in Slot, ic[s].ref > 0 PROVE Cached(ic, ic[s].inum) = {s}
    BY DEF Inv, OneEntry
  <2>1. QED BY DEF OneIn, Cached
<1>2. QED BY <1>1, CacheInvariant, PTL

\* The comment in iput: a process that finds the last reference to an inode
\* without links takes its lock, under the spinlock of the cache, without waiting.
THEOREM LastPutIsFree == Spec => []IputFree
<1>1. Inv => IputFree BY InvFree
<1>2. QED BY <1>1, CacheInvariant, PTL

\* What an unlocked valid entry of the cache holds is the inode on the disk: every
\* change of a copy is written by iupdate before iunlock, and an entry that is
\* given to another inode, or that iput has freed, is loaded again before it is used.
THEOREM EntriesMatchDisk == Spec => [](Sound => EntriesMatch)
<1>1. Init => DataInvariant BY InitData DEF DataInvariant
<1>2. Inv /\ DataInvariant => (Sound => EntriesMatch)
  <2> SUFFICES ASSUME All, DataInv, NEW s \in Slot,
                      ic[s].ref > 0, ic[s].inum \in Inum, ic[s].valid, Free(s)
               PROVE  ic[s].d = fs.di[ic[s].inum]
    BY InvAll DEF DataInvariant, EntriesMatch
  <2>1. ~Dying(s)
    <3> SUFFICES ASSUME NEW q \in Proc, t[q].pc = "iinval", t[q].put = s PROVE FALSE
      BY DEF Dying
    <3>1. Holds(t[q], s) BY DEF Holds
    <3>2. ic[s].lock = q BY <3>1 DEF DataInv
    <3>3. QED BY <3>2, SlotsDiffer DEF Free
  <2>2. Matches(fs, ic[s]) BY <2>1 DEF DataInv
  <2>3. QED BY <2>2 DEF Matches
<1>3. QED BY <1>1, <1>2, DataInvStep, CacheInvariant, PTL DEF Spec

=============================================================================
