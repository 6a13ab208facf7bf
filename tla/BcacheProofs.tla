---------------------------- MODULE BcacheProofs ----------------------------
(* The buffer cache, its driver and the recovery of a buffer, for every    *)
(* number of processes, buffers, descriptors and memory errors: no two     *)
(* processes have one block locked, no completion is missed, and no        *)
(* descriptor is lost or given out twice; and, up to the first error, the  *)
(* reference counts of the buffers are exact and whoever reads a block     *)
(* reads its last version.                                                 *)
EXTENDS Bcache, FiniteSetTheorems, TLAPS

-----------------------------------------------------------------------------
(* Sequences. *)

\* The least number of a set: bget's and alloc3_desc's searches find one.
LEMMA LeastNumber ==
    ASSUME NEW S, S \subseteq Nat, S # {}
    PROVE  \E m \in S : \A k \in S : m <= k
<1>1. \E m \in S : \A k \in S : ~ (<<k, m>> \in OpToRel(<, Nat))
  BY WFMin, NatLessThanWellFounded
<1>2. PICK m \in S : \A k \in S : ~ (<<k, m>> \in OpToRel(<, Nat))
  BY <1>1
<1>3. \A k \in S : ~ (k < m)
  BY <1>2 DEF OpToRel
<1>4. QED BY <1>3

\* An element taken out of a ring or of the list.
LEMMA RemoveAtIndex ==
    ASSUME NEW S, NEW s \in Seq(S), NEW i \in 1..Len(s)
    PROVE  /\ RemoveAt(s, i) \in Seq(S)
           /\ Len(RemoveAt(s, i)) = Len(s) - 1
           /\ \A j \in 1..(Len(s) - 1) :
                 RemoveAt(s, i)[j] = IF j < i THEN s[j] ELSE s[j + 1]
<1>1. /\ SubSeq(s, 1, i-1) \in Seq(S) /\ Len(SubSeq(s, 1, i-1)) = i - 1
      /\ \A j \in 1..(i - 1) : SubSeq(s, 1, i-1)[j] = s[j]
  OBVIOUS
<1>2. /\ SubSeq(s, i+1, Len(s)) \in Seq(S) /\ Len(SubSeq(s, i+1, Len(s))) = Len(s) - i
      /\ \A j \in 1..(Len(s) - i) : SubSeq(s, i+1, Len(s))[j] = s[i + j]
  OBVIOUS
<1> DEFINE a == SubSeq(s, 1, i-1)
           b == SubSeq(s, i+1, Len(s))
<1> HIDE DEF a, b
<1>3. a \in Seq(S) /\ b \in Seq(S) /\ Len(a) = i - 1 /\ Len(b) = Len(s) - i
  BY <1>1, <1>2 DEF a, b
<1>4. a \o b \in Seq(S) /\ Len(a \o b) = Len(s) - 1
  BY <1>3
<1>5. \A j \in 1..(Len(s) - 1) : j < i => (a \o b)[j] = a[j]
  BY <1>3
<1>6. \A j \in 1..(Len(s) - 1) : ~(j < i) => (a \o b)[j] = b[j - (i - 1)] /\ j - (i - 1) \in 1..(Len(s) - i)
                                              /\ i + (j - (i - 1)) = j + 1
  BY <1>3
<1>7. /\ \A j \in 1..(i - 1) : a[j] = s[j]
      /\ \A j \in 1..(Len(s) - i) : b[j] = s[i + j]
  BY <1>1, <1>2 DEF a, b
<1>8. \A j \in 1..(Len(s) - 1) : (a \o b)[j] = IF j < i THEN s[j] ELSE s[j + 1]
  <2> TAKE j \in 1..(Len(s) - 1)
  <2>1. CASE j < i
    <3>1. j \in 1..(i - 1) BY <2>1
    <3>2. QED BY <1>5, <1>7, <2>1, <3>1
  <2>2. CASE ~(j < i)
    <3> DEFINE k == j - (i - 1)
    <3>1. (a \o b)[j] = b[k] /\ k \in 1..(Len(s) - i) /\ i + k = j + 1 BY <1>6, <2>2
    <3> HIDE DEF k
    <3>2. b[k] = s[i + k] BY <1>7, <3>1
    <3>3. QED BY <2>2, <3>1, <3>2
  <2>3. QED BY <2>1, <2>2
<1>9. QED BY <1>4, <1>8 DEF RemoveAt, a, b

\* The other elements stay.
LEMMA RemoveAtRange ==
    ASSUME NEW S, NEW s \in Seq(S), NEW i \in 1..Len(s)
    PROVE  /\ Range(s) = Range(RemoveAt(s, i)) \cup {s[i]}
           /\ IsInjective(s) => IsInjective(RemoveAt(s, i))
                                /\ Range(RemoveAt(s, i)) = Range(s) \ {s[i]}
<1> DEFINE r == RemoveAt(s, i)
<1>1. /\ r \in Seq(S) /\ Len(r) = Len(s) - 1 /\ DOMAIN r = 1..(Len(s) - 1)
      /\ DOMAIN s = 1..Len(s)
      /\ \A j \in 1..(Len(s) - 1) : r[j] = IF j < i THEN s[j] ELSE s[j + 1]
  BY RemoveAtIndex
<1> HIDE DEF r
<1>2. \A k \in 1..Len(s) : k = i \/ \E j \in 1..(Len(s) - 1) : r[j] = s[k]
  <2> TAKE k \in 1..Len(s)
  <2>1. CASE k < i
    <3>1. k \in 1..(Len(s) - 1) /\ r[k] = s[k] BY <1>1, <2>1
    <3>2. QED BY <3>1
  <2>2. CASE k > i
    <3>1. k - 1 \in 1..(Len(s) - 1) /\ r[k - 1] = s[k] BY <1>1, <2>2
    <3>2. QED BY <3>1
  <2>3. QED BY <2>1, <2>2
<1>3. \A j \in 1..(Len(s) - 1) : \E k \in 1..Len(s) : k # i /\ r[j] = s[k]
                                   /\ k = IF j < i THEN j ELSE j + 1
  <2> TAKE j \in 1..(Len(s) - 1)
  <2>1. CASE j < i
    <3>1. j \in 1..Len(s) /\ r[j] = s[j] BY <1>1, <2>1
    <3>2. QED BY <2>1, <3>1
  <2>2. CASE ~(j < i)
    <3>1. j + 1 \in 1..Len(s) /\ r[j] = s[j + 1] /\ j + 1 # i BY <1>1, <2>2
    <3>2. QED BY <2>2, <3>1
  <2>3. QED BY <2>1, <2>2
<1>4. Range(s) = Range(r) \cup {s[i]}
  <2>1. ASSUME NEW x \in Range(s) PROVE x \in Range(r) \cup {s[i]}
    <3>1. PICK k \in 1..Len(s) : x = s[k] BY <1>1 DEF Range
    <3>2. CASE k = i BY <3>1, <3>2
    <3>3. CASE k # i
      <4>1. PICK j \in 1..(Len(s) - 1) : r[j] = s[k] BY <1>2, <3>3
      <4>2. j \in DOMAIN r BY <1>1
      <4>3. QED BY <3>1, <4>1, <4>2 DEF Range
    <3>4. QED BY <3>2, <3>3
  <2>2. ASSUME NEW x \in Range(r) PROVE x \in Range(s)
    <3>1. PICK j \in 1..(Len(s) - 1) : x = r[j] BY <1>1 DEF Range
    <3>2. PICK k \in 1..Len(s) : r[j] = s[k] BY <1>3
    <3>3. k \in DOMAIN s BY <1>1
    <3>4. QED BY <3>1, <3>2, <3>3 DEF Range
  <2>3. s[i] \in Range(s) BY <1>1 DEF Range
  <2>4. QED BY <2>1, <2>2, <2>3
<1>5. ASSUME IsInjective(s) PROVE IsInjective(r) /\ Range(r) = Range(s) \ {s[i]}
  <2>1. s[i] \notin Range(r)
    <3> SUFFICES ASSUME s[i] \in Range(r) PROVE FALSE OBVIOUS
    <3>1. PICK j \in 1..(Len(s) - 1) : s[i] = r[j] BY <1>1 DEF Range
    <3>2. PICK k \in 1..Len(s) : k # i /\ r[j] = s[k] BY <1>3
    <3>3. i \in DOMAIN s /\ k \in DOMAIN s /\ s[i] = s[k] BY <1>1, <3>1, <3>2
    <3>4. QED BY <1>5, <3>2, <3>3 DEF IsInjective
  <2>2. IsInjective(r)
    <3> SUFFICES ASSUME NEW a \in 1..(Len(s) - 1), NEW b \in 1..(Len(s) - 1), r[a] = r[b]
                 PROVE  a = b
      BY <1>1 DEF IsInjective
    <3>1. PICK k \in 1..Len(s) : r[a] = s[k] /\ k # i /\ k = IF a < i THEN a ELSE a + 1 BY <1>3
    <3>2. PICK m \in 1..Len(s) : r[b] = s[m] /\ m # i /\ m = IF b < i THEN b ELSE b + 1 BY <1>3
    <3>3. k = m BY <1>1, <1>5, <3>1, <3>2 DEF IsInjective
    <3>4. QED BY <3>1, <3>2, <3>3
  <2>3. QED BY <1>4, <2>1, <2>2
<1>6. QED BY <1>4, <1>5 DEF r

\* A new element at the end.
LEMMA AppendRange ==
    ASSUME NEW S, NEW s \in Seq(S), NEW x \in S
    PROVE  /\ Append(s, x) \in Seq(S) /\ Len(Append(s, x)) = Len(s) + 1
           /\ Range(Append(s, x)) = Range(s) \cup {x}
           /\ IsInjective(s) /\ x \notin Range(s) => IsInjective(Append(s, x))
<1> DEFINE r == Append(s, x)
<1>1. /\ r \in Seq(S) /\ Len(r) = Len(s) + 1 /\ DOMAIN r = 1..(Len(s) + 1) /\ DOMAIN s = 1..Len(s)
      /\ r[Len(s) + 1] = x /\ \A j \in 1..Len(s) : r[j] = s[j]
      /\ Len(s) \in Nat
  OBVIOUS
<1> HIDE DEF r
<1>2. 1..(Len(s) + 1) = 1..Len(s) \cup {Len(s) + 1} BY <1>1
<1>3. Range(r) = Range(s) \cup {x} BY <1>1, <1>2 DEF Range
<1>4. IsInjective(s) /\ x \notin Range(s) => IsInjective(r)
  BY <1>1, <1>2 DEF Range, IsInjective
<1>5. QED BY <1>1, <1>3, <1>4 DEF r

\* A new element at the front.
LEMMA PrependRange ==
    ASSUME NEW S, NEW s \in Seq(S), NEW x \in S
    PROVE  /\ <<x>> \o s \in Seq(S) /\ Len(<<x>> \o s) = Len(s) + 1
           /\ Range(<<x>> \o s) = Range(s) \cup {x}
           /\ IsInjective(s) /\ x \notin Range(s) => IsInjective(<<x>> \o s)
<1> DEFINE r == <<x>> \o s
<1>1. /\ r \in Seq(S) /\ Len(r) = Len(s) + 1 /\ DOMAIN r = 1..(Len(s) + 1) /\ DOMAIN s = 1..Len(s)
      /\ r[1] = x /\ \A j \in 2..(Len(s) + 1) : r[j] = s[j - 1]
      /\ Len(s) \in Nat
  OBVIOUS
<1> HIDE DEF r
<1>2. /\ 1..(Len(s) + 1) = 2..(Len(s) + 1) \cup {1}
      /\ \A j \in 1..Len(s) : j + 1 \in 2..(Len(s) + 1) /\ r[j + 1] = s[j]
      /\ \A j \in 2..(Len(s) + 1) : j - 1 \in 1..Len(s)
  BY <1>1
<1>3. Range(r) = Range(s) \cup {x}
  <2>1. ASSUME NEW y \in Range(r) PROVE y \in Range(s) \cup {x}
    <3>1. PICK j \in 1..(Len(s) + 1) : y = r[j] BY <1>1, <2>1 DEF Range
    <3>2. CASE j = 1 BY <1>1, <3>1, <3>2
    <3>3. CASE j # 1
      <4>1. j - 1 \in DOMAIN s /\ y = s[j - 1] BY <1>1, <1>2, <3>1, <3>3
      <4>2. QED BY <4>1 DEF Range
    <3>4. QED BY <3>2, <3>3
  <2>2. ASSUME NEW y \in Range(s) PROVE y \in Range(r)
    <3>1. PICK j \in 1..Len(s) : y = s[j] BY <1>1, <2>2 DEF Range
    <3>2. j + 1 \in DOMAIN r /\ r[j + 1] = y BY <1>1, <1>2, <3>1
    <3>3. QED BY <3>2 DEF Range
  <2>3. x \in Range(r) BY <1>1, <1>2 DEF Range
  <2>4. QED BY <2>1, <2>2, <2>3
<1>4. ASSUME IsInjective(s), x \notin Range(s) PROVE IsInjective(r)
  <2> SUFFICES ASSUME NEW a \in 1..(Len(s) + 1), NEW b \in 1..(Len(s) + 1), r[a] = r[b]
               PROVE  a = b
    BY <1>1 DEF IsInjective
  <2> HIDE DEF r
  <2>0. \A j \in 2..(Len(s) + 1) : r[j] # x
    <3>1. \A j \in 1..Len(s) : s[j] # x BY <1>1, <1>4 DEF Range
    <3>2. QED BY <1>1, <1>2, <3>1
  <2>1. CASE a = 1 \/ b = 1 BY <1>1, <1>2, <2>0, <2>1
  <2>2. CASE a # 1 /\ b # 1
    <3>1. a - 1 \in 1..Len(s) /\ b - 1 \in 1..Len(s) /\ s[a - 1] = s[b - 1]
      BY <1>1, <1>2, <2>2
    <3>2. a - 1 = b - 1 BY <1>1, <1>4, <3>1 DEF IsInjective
    <3>3. QED BY <3>2
  <2>3. QED BY <2>1, <2>2
<1>5. QED BY <1>1, <1>3, <1>4 DEF r

-----------------------------------------------------------------------------
(* The inductive invariant. *)

Buf == [block : Block \cup {NoBlock}, valid : BOOLEAN, disk : BOOLEAN,
        owner : Proc \cup {NoProc}, refcnt : Int, data : Val]

Types ==
    /\ list \in Seq(Node) /\ IsInjective(list)
    /\ buf \in [Node -> Buf] /\ ondisk \in [Block -> Val]
    /\ free \subseteq Desc /\ info \in [Desc -> Node \cup {NoNode}]
    /\ avail \in Seq(Desc) /\ used \in Seq(Desc)
    /\ pc \in [Proc -> Pc] /\ want \in [Proc -> Block \cup {NoBlock}]
    /\ cur \in [Proc -> Node \cup {NoNode}] /\ idx \in [Proc -> Seq(Desc)]
    /\ faults \in 0..MaxFault /\ unheard \subseteq Proc /\ leaked \subseteq Desc

\* The process whose handler has taken a node out of the list, if any.
Surgeon == {p \in Proc : pc[p] = "insert"}

\* The nodes that have been in the list are 1..Top.
Top == NBUF + faults - (IF Surgeon = {} THEN 0 ELSE 1)

\* One handler works on the list at a time; the list lacks a node only then;
\* the nodes of my_kalloc come one by one, and are new.
ListInv ==
    /\ \A p, q \in Surgeon : p = q
    /\ Surgeon # {} => faults > 0
    /\ Len(list) = NBUF - (IF Surgeon = {} THEN 0 ELSE 1)
    /\ \A n \in Range(list) : n <= Top
    /\ \A p \in Proc : cur[p] # NoNode => cur[p] <= Top
    /\ \A d \in Desc : info[d] # NoNode => info[d] <= Top
    /\ \A n \in Node : n > Top => buf[n].block = NoBlock /\ buf[n].refcnt = 0

\* What the place of a process says of its buffer and its descriptors.
PlaceOK(p) ==
    /\ pc[p] = "idle" <=> cur[p] = NoNode
    /\ pc[p] \in InSection => cur[p] \in Range(list)
    /\ pc[p] \in {"insert", "solve"} => cur[p] \notin Range(list)
    /\ pc[p] \in Locked => buf[cur[p]].owner = p
    /\ pc[p] \in InFlight => idx[p] # <<>>
    /\ idx[p] # <<>> => /\ Len(idx[p]) = 3
                        /\ pc[p] \in InFlight \cup {"insert", "solve"}
PlaceInv == \A p \in Proc : PlaceOK(p)

\* Each descriptor is free, a request's or leaked, and only one of these.
DescInv ==
    /\ \A d \in Desc : d \in free \/ d \in leaked \/ \E p \in Proc : d \in Range(idx[p])
    /\ free \cap leaked = {}
    /\ \A p \in Proc : Range(idx[p]) \cap (free \cup leaked) = {}
    /\ \A p, q \in Proc : p # q => Range(idx[p]) \cap Range(idx[q]) = {}

\* The requests that the device or the used ring has.
Pending == Range(avail) \cup Range(used)

\* A request belongs to a process that waits for it, with its buffer locked, or
\* to a node that is out of the list; while the device or the used ring has it,
\* its descriptors are not freed.
RequestInv ==
    /\ IsInjective(avail) /\ Range(avail) \cap Range(used) = {}
    /\ \A p \in Proc : pc[p] \in InFlight =>
          info[idx[p][1]] = cur[p] /\ (idx[p][1] \in Pending => B(p).disk)
    /\ \A d \in Desc : info[d] # NoNode =>
          \/ info[d] \notin Range(list)
          \/ \E p \in Proc : pc[p] \in InFlight /\ idx[p][1] = d /\ cur[p] = info[d]
    /\ \A d \in Pending :
          d \in leaked \/ \E p \in Proc : idx[p] # <<>> /\ idx[p][1] = d
    /\ \A d \in Pending : info[d] # NoNode
    /\ \A d \in Desc : info[d] # NoNode => buf[info[d]].block # NoBlock

\* Who was woken and heard it has its request finished; who was not woken has
\* it pending.
HeardInv ==
    /\ \A p \in Proc : pc[p] = "woken" /\ p \notin unheard => ~B(p).disk
    /\ \A p \in Proc \ Recovering :
          pc[p] = "iowait" => idx[p][1] \in Pending \/ p \in unheard

\* A block has one node; a node's users are counted, unless bunpin took one of
\* their references, and so it is not recycled under them.
BlockInv ==
    /\ \A m, n \in Range(list) :
          buf[m].block = buf[n].block /\ buf[m].block # NoBlock => m = n
    /\ \A p \in Proc : pc[p] \in InSection \cup {"enter"} =>
          want[p] \in Block /\ B(p).block # NoBlock
    /\ ~unbalanced => \A n \in Range(list) : buf[n].refcnt >= Cardinality(Users(n))
    /\ ~unbalanced => \A p \in Proc :
          pc[p] \in InSection \cup {"enter"} /\ cur[p] \in Range(list) => B(p).block = want[p]

Inv == Types /\ ListInv /\ PlaceInv /\ DescInv /\ RequestInv /\ HeardInv /\ BlockInv

-----------------------------------------------------------------------------
(* Facts used in every step. *)

\* A process is not NoProc, a node not NoNode.
LEMMA NamesDiffer ==
    /\ \A p \in Proc : p # NoProc
    /\ \A n \in Node : n # NoNode
    /\ \A b \in Block : b # NoBlock
    /\ NBUF \in Nat /\ NBUF > 0 /\ NUM \in Nat /\ MaxFault \in Nat
    /\ Node \subseteq Int
  BY BcacheAssumption DEF Node

\* The users of a node can be counted.
LEMMA UsersFinite ==
    ASSUME NEW n
    PROVE  IsFiniteSet(Users(n)) /\ Cardinality(Users(n)) \in Nat
<1>1. IsFiniteSet(Proc) BY BcacheAssumption
<1>2. Users(n) \subseteq Proc BY DEF Users
<1>3. IsFiniteSet(Users(n)) BY <1>1, <1>2, FS_Subset
<1>4. QED BY <1>3, FS_CardinalityType

\* A process past bget has a node, and only it is behind the node's lock.
LEMMA PlaceFacts ==
    ASSUME Types, PlaceInv
    PROVE  /\ \A p \in Proc : pc[p] # "idle" => cur[p] \in Node
           /\ \A p \in Proc : pc[p] \in Locked => cur[p] \in Node
           /\ \A p, q \in Proc : pc[p] \in Locked /\ pc[q] \in Locked /\ cur[p] = cur[q] => p = q
<1>1. \A p \in Proc : pc[p] # "idle" => cur[p] \in Node
  BY DEF Types, PlaceInv, PlaceOK
<1>2. \A p \in Proc : pc[p] \in Locked => cur[p] \in Node
  BY <1>1 DEF Locked, InFlight
<1>3. \A p, q \in Proc : pc[p] \in Locked /\ pc[q] \in Locked /\ cur[p] = cur[q] => p = q
  BY DEF PlaceInv, PlaceOK
<1>4. QED BY <1>1, <1>2, <1>3

\* A request's first descriptor is one of its chain.
LEMMA FirstOfChain ==
    ASSUME Types, PlaceInv, NEW p \in Proc, idx[p] # <<>>
    PROVE  idx[p][1] \in Desc /\ idx[p][1] \in Range(idx[p])
<1>1. idx[p] \in Seq(Desc) /\ Len(idx[p]) = 3 BY DEF Types, PlaceInv, PlaceOK
<1>2. 1 \in DOMAIN idx[p] BY <1>1
<1>3. QED BY <1>1, <1>2 DEF Range

\* The initial state: binit has linked every buffer, the disk is idle.
LEMMA InitInv == Init => Inv
<1> SUFFICES ASSUME Init PROVE Inv OBVIOUS
<1> USE DEF Init
<1>1. Surgeon = {} BY DEF Surgeon
<1>2. /\ list \in Seq(Node) /\ Len(list) = NBUF /\ DOMAIN list = 1..NBUF
      /\ \A i \in 1..NBUF : list[i] = NBUF + 1 - i /\ list[i] \in Node
  <2>1. NBUF \in Nat /\ MaxFault \in Nat BY BcacheAssumption
  <2>2. \A i \in 1..NBUF : NBUF + 1 - i \in Node BY <2>1 DEF Node
  <2>3. QED BY <2>1, <2>2
<1>3. Types
  <2>1. IsInjective(list) BY <1>2, BcacheAssumption DEF IsInjective
  <2>2. buf \in [Node -> Buf] BY DEF Fresh, Buf, Val
  <2>3. ondisk \in [Block -> Val] BY DEF Val
  <2>4. free \subseteq Desc /\ info \in [Desc -> Node \cup {NoNode}] OBVIOUS
  <2>5. avail \in Seq(Desc) /\ used \in Seq(Desc) OBVIOUS
  <2>6. pc \in [Proc -> Pc] BY DEF Pc
  <2>7. idx \in [Proc -> Seq(Desc)] OBVIOUS
  <2>8. faults \in 0..MaxFault BY BcacheAssumption
  <2>9. QED BY <1>2, <2>1, <2>2, <2>3, <2>4, <2>5, <2>6, <2>7, <2>8 DEF Types
<1>4. ListInv
  <2>1. Top = NBUF BY <1>1, BcacheAssumption DEF Top
  <2>2. \A n \in Range(list) : n <= NBUF BY <1>2, BcacheAssumption DEF Range
  <2>3. Len(list) = NBUF - (IF Surgeon = {} THEN 0 ELSE 1) BY <1>1, <1>2, BcacheAssumption
  <2>4. QED BY <1>1, <2>1, <2>2, <2>3 DEF ListInv, Fresh
<1>5. PlaceInv BY DEF PlaceInv, PlaceOK, InSection, Locked, InFlight
<1>6. DescInv BY DEF DescInv, Range
<1>7. RequestInv BY DEF RequestInv, Pending, InFlight, Range, IsInjective
<1>8. HeardInv BY DEF HeardInv
<1>9. BlockInv
  <2>1. \A n \in Range(list) : n \in Node BY <1>2 DEF Range
  <2>2. \A n \in Node : buf[n].block = NoBlock /\ buf[n].refcnt = 0 BY DEF Fresh
  <2>3. ~unbalanced => \A n \in Range(list) : buf[n].refcnt >= Cardinality(Users(n))
    <3>1. \A n \in Node : Users(n) = {} BY NamesDiffer DEF Users
    <3>2. \A n \in Node : Cardinality(Users(n)) = 0 BY <3>1, FS_EmptySet
    <3>3. \A n \in Node : buf[n].refcnt >= Cardinality(Users(n)) BY <2>2, <3>2
    <3>4. QED BY <2>1, <3>3
  <2>4. QED BY <2>1, <2>2, <2>3 DEF BlockInv, InSection, Locked, InFlight
<1>10. QED BY <1>3, <1>4, <1>5, <1>6, <1>7, <1>8, <1>9 DEF Inv

-----------------------------------------------------------------------------
(* The steps that leave the list and the disk's requests alone. *)

\* How such a step may move a process: not into or out of a request or a
\* handler, and behind a buffer's lock only with the lock.
PlaceKept(q) ==
    /\ pc[q] \in InFlight \cup {"insert", "solve"}
          \/ pc'[q] \in InFlight \cup {"insert", "solve"} => pc'[q] = pc[q]
    /\ pc'[q] = "idle" <=> pc[q] = "idle"
    /\ pc'[q] = "enter" => pc[q] = "enter"
    /\ pc'[q] \in InSection => pc[q] \in InSection \/ (pc[q] = "enter" /\ cur[q] \in Range(list))
    /\ pc'[q] \in Locked => buf'[cur[q]].owner = q

\* Locks, reference counts and contents of buffers change, their blocks do not.
LEMMA QuietStep ==
    ASSUME Inv,
           UNCHANGED <<list, ondisk, free, info, avail, used, want, cur, idx, faults, unheard, leaked>>,
           buf' \in [Node -> Buf], pc' \in [Proc -> Pc],
           \A n \in Node : /\ buf'[n].block = buf[n].block /\ buf'[n].disk = buf[n].disk
                           /\ n > Top => buf'[n].refcnt = buf[n].refcnt,
           \A q \in Proc : PlaceKept(q),
           ~unbalanced' => /\ ~unbalanced
                           /\ \A n \in Range(list) : buf'[n].refcnt >= Cardinality(Users(n))
    PROVE  Inv'
<1> USE NamesDiffer
<1>1. Types' BY DEF Inv, Types
<1>2. Surgeon' = Surgeon BY DEF Surgeon, PlaceKept, InFlight
<1>3. Top' = Top BY <1>2 DEF Top
<1>4. ListInv' BY <1>2, <1>3 DEF Inv, ListInv
<1>5. \A q \in Proc : /\ pc'[q] \in InFlight <=> pc[q] \in InFlight
                      /\ pc'[q] \in InFlight => pc'[q] = pc[q]
                      /\ pc'[q] \in {"insert", "solve"} <=> pc[q] \in {"insert", "solve"}
                      /\ pc'[q] \in InSection => cur[q] \in Range(list)
                      /\ pc'[q] \in InSection \cup {"enter"} => pc[q] \in InSection \cup {"enter"}
  BY DEF PlaceKept, Inv, PlaceInv, PlaceOK
<1>6. PlaceInv'
  <2> SUFFICES ASSUME NEW q \in Proc PROVE PlaceOK(q)' BY DEF PlaceInv
  <2>1. PlaceOK(q) BY DEF Inv, PlaceInv
  <2>2. QED BY <1>5, <2>1 DEF PlaceOK, PlaceKept
<1>7. DescInv' BY DEF Inv, DescInv
<1>8. \A q \in Proc : pc[q] \in InFlight => cur[q] \in Node
  BY PlaceFacts DEF Inv, Locked
<1>9. RequestInv'
  <2>1. Pending' = Pending BY DEF Pending
  <2>2. \A q \in Proc : pc'[q] \in InFlight =>
          info'[idx'[q][1]] = cur'[q] /\ (idx'[q][1] \in Pending' => B(q)'.disk)
    BY <1>5, <1>8, <2>1 DEF Inv, RequestInv, B
  <2>3. \A d \in Desc : info'[d] # NoNode =>
          \/ info'[d] \notin Range(list')
          \/ \E p \in Proc : pc'[p] \in InFlight /\ idx'[p][1] = d /\ cur'[p] = info'[d]
    BY <1>5 DEF Inv, RequestInv
  <2>4. \A d \in Desc : info'[d] # NoNode => buf'[info'[d]].block # NoBlock
    <3>1. \A d \in Desc : info[d] # NoNode => info[d] \in Node BY DEF Inv, Types
    <3>2. QED BY <3>1 DEF Inv, RequestInv
  <2>5. QED BY <2>1, <2>2, <2>3, <2>4 DEF Inv, RequestInv
<1>10. HeardInv'
  <2>1. Pending' = Pending BY DEF Pending
  <2>2. \A q \in Proc : pc'[q] = "woken" => B(q)'.disk = B(q).disk /\ pc[q] = "woken"
    BY <1>5, <1>8 DEF B, InFlight
  <2>3. \A q \in Proc : pc'[q] = "iowait" => pc[q] = "iowait" BY <1>5 DEF InFlight
  <2>4. QED BY <2>1, <2>2, <2>3 DEF Inv, HeardInv
<1>11. BlockInv'
  <2>1. \A n \in Range(list) : n \in Node BY DEF Range, Inv, Types
  <2>2. \A q \in Proc : pc[q] \in InSection \cup {"enter"} => B(q)'.block = B(q).block
    <3>1. \A q \in Proc : pc[q] \in InSection \cup {"enter"} => cur[q] \in Node
      BY PlaceFacts DEF Inv, InSection, Locked, InFlight
    <3>2. QED BY <3>1 DEF B
  <2>3. \A n : Users(n)' = Users(n) BY DEF Users
  <2>4. \A m, n \in Range(list') :
          buf'[m].block = buf'[n].block /\ buf'[m].block # NoBlock => m = n
    BY <2>1 DEF Inv, BlockInv
  <2>5. \A p \in Proc : pc'[p] \in InSection \cup {"enter"} =>
          want'[p] \in Block /\ B(p)'.block # NoBlock
    BY <1>5, <2>2 DEF Inv, BlockInv
  <2>6. ~unbalanced' => \A n \in Range(list') : buf'[n].refcnt >= Cardinality(Users(n)')
    BY <2>3
  <2>7. ~unbalanced' => \A p \in Proc :
          pc'[p] \in InSection \cup {"enter"} /\ cur'[p] \in Range(list') => B(p)'.block = want'[p]
    BY <1>5, <2>2 DEF Inv, BlockInv
  <2>8. QED BY <2>4, <2>5, <2>6, <2>7 DEF BlockInv
<1>12. QED BY <1>1, <1>4, <1>6, <1>7, <1>9, <1>10, <1>11 DEF Inv

\* A step that leaves the buffers and the places alone.
LEMMA IdleStep ==
    ASSUME Inv,
           UNCHANGED <<list, buf, ondisk, free, info, avail, used, pc, want, cur, idx, faults,
                       unheard, leaked, unbalanced>>
    PROVE  Inv'
<1>1. \A q \in Proc : PlaceKept(q) BY DEF PlaceKept, Inv, PlaceInv, PlaceOK
<1>2. buf' \in [Node -> Buf] /\ pc' \in [Proc -> Pc] BY DEF Inv, Types
<1>3. ~unbalanced' => /\ ~unbalanced
                      /\ \A n \in Range(list) : buf'[n].refcnt >= Cardinality(Users(n))
  BY DEF Inv, BlockInv
<1>4. QED BY <1>1, <1>2, <1>3, QuietStep

\* The section of a recycled buffer is entered, or the kernel panics.
LEMMA EnterNodeInv == ASSUME Inv, NEW p \in Proc, EnterNode(p) PROVE Inv'
<1> USE DEF EnterNode, At, Goto, Halt, cache, disk, descs, rings, log, bounds, history
<1>1. \A q \in Proc : pc'[q] = pc[q] \/ (q = p /\ pc[p] = "enter" /\ pc'[p] = "lock" /\ cur[p] \in Range(list))
  BY DEF Inv, Types
<1>2. \A q \in Proc : PlaceKept(q)
  <2> TAKE q \in Proc
  <2>1. CASE pc'[q] = pc[q] BY <2>1 DEF PlaceKept, Inv, PlaceInv, PlaceOK
  <2>2. CASE pc'[q] # pc[q] BY <1>1, <2>2 DEF PlaceKept, InSection, Locked, InFlight
  <2>3. QED BY <2>1, <2>2
<1>3. buf' \in [Node -> Buf] /\ pc' \in [Proc -> Pc] BY DEF Inv, Types, Pc, InSection
<1>4. ~unbalanced' => /\ ~unbalanced
                      /\ \A n \in Range(list) : buf'[n].refcnt >= Cardinality(Users(n))
  BY DEF Inv, BlockInv
<1>5. QED BY <1>2, <1>3, <1>4, QuietStep

\* acquiresleep gives the lock only when nobody has it.
LEMMA AcquireSleepInv == ASSUME Inv, NEW p \in Proc, AcquireSleep(p) PROVE Inv'
<1> USE DEF AcquireSleep, At, Goto, disk, descs, rings, log, bounds, history
<1>1. cur[p] \in Node BY PlaceFacts DEF Inv
<1>2. /\ pc[p] = "lock" /\ pc'[p] \in {"lockwait", "hold", "rw"}
      /\ \A q \in Proc : q # p => pc'[q] = pc[q]
      /\ pc'[p] # "lockwait" => B(p).owner = NoProc
  BY DEF Inv, Types
<1>3. /\ buf' \in [Node -> Buf]
      /\ \A n \in Node : /\ buf'[n].block = buf[n].block /\ buf'[n].disk = buf[n].disk
                         /\ buf'[n].refcnt = buf[n].refcnt
                         /\ n # cur[p] => buf'[n].owner = buf[n].owner
      /\ pc'[p] # "lockwait" => buf'[cur[p]].owner = p
  <2>1. buf \in [Node -> Buf] BY DEF Inv, Types
  <2>2. CASE B(p).owner # NoProc
    BY <1>2, <2>1, <2>2
  <2>3. CASE B(p).owner = NoProc
    <3>1. buf' = [buf EXCEPT ![cur[p]].owner = p] BY <2>3
    <3>2. QED BY <1>1, <2>1, <3>1 DEF Buf
  <2>4. QED BY <2>2, <2>3
<1>4. pc' \in [Proc -> Pc]
  BY DEF Inv, Types, Pc, InSection, Locked, InFlight
<1>5. \A q \in Proc : PlaceKept(q)
  <2> TAKE q \in Proc
  <2>1. CASE q = p BY <1>2, <1>3, <2>1 DEF PlaceKept, InSection, Locked, InFlight
  <2>2. CASE q # p
    <3>1. pc[q] \in Locked => buf'[cur[q]].owner = q
      <4>1. pc[q] \in Locked => cur[q] \in Node /\ buf[cur[q]].owner = q
        BY PlaceFacts DEF Inv, PlaceInv, PlaceOK
      <4>2. QED BY <1>2, <1>3, <4>1, NamesDiffer DEF B
    <3>2. QED BY <1>2, <2>2, <3>1 DEF PlaceKept
  <2>3. QED BY <2>1, <2>2
<1>6. \A n \in Range(list) : n \in Node BY DEF Range, Inv, Types
<1>7. ~unbalanced' => /\ ~unbalanced
                      /\ \A n \in Range(list) : buf'[n].refcnt >= Cardinality(Users(n))
  BY <1>3, <1>6 DEF Inv, BlockInv
<1>8. QED BY <1>3, <1>4, <1>5, <1>7, QuietStep

\* A process that stays where it is, its buffer's lock untouched.
LEMMA StayKept ==
    ASSUME Inv, NEW q \in Proc, pc'[q] = pc[q],
           pc[q] \in Locked => buf'[cur[q]].owner = buf[cur[q]].owner
    PROVE  PlaceKept(q)
  BY DEF PlaceKept, Inv, PlaceInv, PlaceOK

\* The polling loop changes only what the interrupt handler looks at.
LEMMA PollInv == ASSUME Inv, NEW p \in Proc, Poll(p) PROVE Inv'
  BY IdleStep DEF Poll, cache, descs, rings, procs, log, bounds, history

\* commit begins.
LEMMA StartCommitInv == ASSUME Inv, NEW p \in Proc, StartCommit(p) PROVE Inv'
  BY IdleStep DEF StartCommit, cache, disk, descs, rings, bounds, history

\* commit ends.
LEMMA EndCommitInv == ASSUME Inv, NEW p \in Proc, EndCommit(p) PROVE Inv'
  BY IdleStep DEF EndCommit, cache, disk, descs, rings, bounds, history

\* bwrite goes to the disk with the buffer still locked.
LEMMA BwriteInv == ASSUME Inv, NEW p \in Proc, Bwrite(p) PROVE Inv'
<1> USE DEF Bwrite, At, Goto, cache, disk, descs, rings, log, bounds, history
<1>1. pc[p] = "hold" /\ pc'[p] = "rw" /\ \A q \in Proc : q # p => pc'[q] = pc[q]
  BY DEF Inv, Types
<1>2. buf' \in [Node -> Buf] /\ pc' \in [Proc -> Pc]
  BY DEF Inv, Types, Pc, InSection, Locked
<1>3. PlaceKept(p)
  BY <1>1 DEF PlaceKept, Inv, PlaceInv, PlaceOK, InSection, Locked, InFlight
<1>4. \A q \in Proc : PlaceKept(q) BY <1>1, <1>3, StayKept
<1>5. ~unbalanced' => /\ ~unbalanced
                      /\ \A n \in Range(list) : buf'[n].refcnt >= Cardinality(Users(n))
  BY DEF Inv, BlockInv
<1>6. QED BY <1>2, <1>4, <1>5, QuietStep

\* Who does not find three descriptors sleeps or spins, with its buffer locked.
LEMMA VirtioWaitInv ==
    ASSUME Inv, NEW p \in Proc, VirtioStart(p), ~(Cardinality(free) >= 3) PROVE Inv'
<1> USE DEF VirtioStart, At, WakeAndGoto, DescSleepers, descs, log, bounds, history
<1>1. /\ pc[p] = "rw" /\ pc'[p] \in {"rw", "descwait"}
      /\ \A q \in Proc : q # p => pc'[q] = pc[q] \/ (pc[q] = "descwait" /\ pc'[q] = "rw")
  <2>1. CASE p \in Recovering BY <2>1
  <2>2. CASE p \notin Recovering BY <2>2
  <2>3. QED BY <2>1, <2>2
<1>2. buf' \in [Node -> Buf] BY DEF Inv, Types
<1>3. pc' \in [Proc -> Pc]
  <2>1. \A q \in Proc : pc'[q] \in Pc
    BY <1>1 DEF Inv, Types, Pc, InSection, Locked
  <2>2. pc' = [q \in Proc |-> pc'[q]]
    <3>1. CASE p \in Recovering BY <3>1
    <3>2. CASE p \notin Recovering BY <3>2
    <3>3. QED BY <3>1, <3>2
  <2>3. QED BY <2>1, <2>2
<1>4. \A q \in Proc : PlaceKept(q)
  <2> TAKE q \in Proc
  <2>1. CASE pc'[q] = pc[q] BY <2>1, StayKept
  <2>2. CASE pc'[q] # pc[q]
    <3>1. pc[q] \in {"rw", "descwait"} /\ pc'[q] \in {"rw", "descwait"} BY <1>1, <2>2
    <3>2. QED BY <3>1 DEF PlaceKept, Inv, PlaceInv, PlaceOK, InSection, Locked, InFlight
  <2>3. QED BY <2>1, <2>2
<1>5. ~unbalanced' => /\ ~unbalanced
                      /\ \A n \in Range(list) : buf'[n].refcnt >= Cardinality(Users(n))
  BY DEF Inv, BlockInv
<1>6. QED BY <1>2, <1>3, <1>4, <1>5, QuietStep

\* log_write changes the contents and adds a reference.
LEMMA LogWriteInv == ASSUME Inv, NEW p \in Proc, LogWrite(p) PROVE Inv'
<1> USE DEF LogWrite, At, Goto, disk, descs, rings, bounds
<1>1. cur[p] \in Node /\ cur[p] <= Top BY PlaceFacts, NamesDiffer DEF Inv, ListInv
<1>2. pc[p] = "hold" /\ pc'[p] = "brelse" /\ \A q \in Proc : q # p => pc'[q] = pc[q]
  BY DEF Inv, Types
<1>3. PICK k \in {0, 1} :
        buf' = [buf EXCEPT ![cur[p]].data = 1 - @, ![cur[p]].refcnt = @ + k]
  OBVIOUS
<1>4. /\ buf' \in [Node -> Buf]
      /\ \A n \in Node : /\ buf'[n].block = buf[n].block /\ buf'[n].disk = buf[n].disk
                         /\ buf'[n].refcnt >= buf[n].refcnt
                         /\ n # cur[p] => buf'[n] = buf[n]
                         /\ buf'[n].owner = buf[n].owner
  <2>1. buf \in [Node -> Buf] BY DEF Inv, Types
  <2> DEFINE r == buf[cur[p]]
             t == [block |-> r.block, valid |-> r.valid, disk |-> r.disk, owner |-> r.owner,
                   refcnt |-> r.refcnt + k, data |-> 1 - r.data]
  <2>2. buf' = [buf EXCEPT ![cur[p]] = buf'[cur[p]]] /\ buf'[cur[p]] = t
    <3> DEFINE n == cur[p]
    <3>1. n \in Node BY <1>1
    <3>2. buf' = [buf EXCEPT ![n].data = 1 - @, ![n].refcnt = @ + k] BY <1>3
    <3> HIDE DEF n
    <3>3. buf' = [buf EXCEPT ![n] = buf'[n]] BY ONLY <2>1, <3>1, <3>2 DEF Buf
    <3>4. buf'[n] = [block |-> buf[n].block, valid |-> buf[n].valid, disk |-> buf[n].disk,
                     owner |-> buf[n].owner, refcnt |-> buf[n].refcnt + k,
                     data |-> 1 - buf[n].data]
      BY ONLY <2>1, <3>1, <3>2 DEF Buf
    <3>5. QED BY <3>3, <3>4 DEF n
  <2>3. /\ r \in Buf /\ r.refcnt \in Int /\ r.data \in {0, 1} /\ k \in Int
        /\ r.block \in Block \cup {NoBlock} /\ r.valid \in BOOLEAN /\ r.disk \in BOOLEAN
        /\ r.owner \in Proc \cup {NoProc}
    BY <1>1, <2>1 DEF Buf, Val
  <2> HIDE DEF r
  <2>4. 1 - r.data \in Val /\ r.refcnt + k \in Int /\ r.refcnt + k >= r.refcnt
    BY <1>3, <2>3 DEF Val
  <2>5. t \in Buf BY <2>3, <2>4 DEF Buf
  <2>6. t.block = r.block /\ t.disk = r.disk /\ t.owner = r.owner /\ t.refcnt >= r.refcnt
    BY <2>4
  <2> HIDE DEF t
  <2>7. buf' \in [Node -> Buf] /\ \A n \in Node : n # cur[p] => buf'[n] = buf[n]
    BY <1>1, <2>1, <2>2, <2>5
  <2>8. \A n \in Node : buf[n].refcnt \in Int BY <2>1 DEF Buf
  <2>9. QED BY SMTT(60), <1>1, <2>2, <2>6, <2>7, <2>8 DEF r
<1>5. pc' \in [Proc -> Pc]
  BY DEF Inv, Types, Pc, InSection, Locked
<1>6. PlaceKept(p)
  BY <1>1, <1>2, <1>4 DEF PlaceKept, Inv, PlaceInv, PlaceOK, InSection, Locked, InFlight
<1>7. \A q \in Proc : PlaceKept(q)
  BY <1>2, <1>4, <1>6, StayKept, PlaceFacts DEF Inv
<1>8. \A n \in Range(list) : n \in Node BY DEF Range, Inv, Types
<1>9. ~unbalanced' => /\ ~unbalanced
                      /\ \A n \in Range(list) : buf'[n].refcnt >= Cardinality(Users(n))
  <2>1. \A n \in Node : buf[n].refcnt \in Int /\ buf'[n].refcnt \in Int BY <1>4 DEF Inv, Types, Buf
  <2>2. QED BY <1>4, <1>8, <2>1, UsersFinite DEF Inv, BlockInv
<1>10. \A n \in Node : n > Top => buf'[n].refcnt = buf[n].refcnt
  <2>1. Top \in Int BY NamesDiffer DEF Top, Inv, Types
  <2>2. QED BY <1>1, <1>4, <2>1, NamesDiffer
<1>11. QED BY <1>4, <1>5, <1>7, <1>9, <1>10, QuietStep

\* bunpin drops a reference; when it was a user's, unbalanced says so.
LEMMA BunpinInv == ASSUME Inv, NEW p \in Proc, Bunpin(p) PROVE Inv'
<1> USE DEF Bunpin, At, Goto, disk, descs, rings, log, bounds
<1> DEFINE n == cur[p]
<1>1. n \in Node /\ n <= Top BY PlaceFacts, NamesDiffer DEF Inv, ListInv
<1>2. pc[p] = "written" /\ pc'[p] = "brelse" /\ \A q \in Proc : q # p => pc'[q] = pc[q]
  BY DEF Inv, Types
<1>3. buf \in [Node -> Buf] /\ buf' = [buf EXCEPT ![n].refcnt = @ - 1]
  BY DEF Inv, Types
<1> HIDE DEF n
<1>4. /\ buf' \in [Node -> Buf]
      /\ \A m \in Node : /\ buf'[m].block = buf[m].block /\ buf'[m].disk = buf[m].disk
                         /\ m # n => buf'[m] = buf[m]
                         /\ buf'[m].owner = buf[m].owner
      /\ buf'[n].refcnt = buf[n].refcnt - 1 /\ buf[n].refcnt \in Int
  BY ONLY <1>1, <1>3 DEF Buf
<1>5. pc' \in [Proc -> Pc]
  BY DEF Inv, Types, Pc, InSection, Locked
<1>6. PlaceKept(p)
  BY <1>1, <1>2, <1>4 DEF PlaceKept, Inv, PlaceInv, PlaceOK, InSection, Locked, InFlight, n
<1>7. \A q \in Proc : PlaceKept(q)
  BY <1>2, <1>4, <1>6, StayKept, PlaceFacts DEF Inv
<1>8. \A m \in Range(list) : m \in Node BY DEF Range, Inv, Types
<1>9. ASSUME ~unbalanced' PROVE ~unbalanced /\ \A m \in Range(list) : buf'[m].refcnt >= Cardinality(Users(m))
  <2>1. ~unbalanced /\ ~(buf[n].refcnt <= Cardinality(Users(n))) BY <1>9 DEF B, n
  <2>2. buf'[n].refcnt >= Cardinality(Users(n)) BY <1>4, <2>1, UsersFinite
  <2>3. QED BY <1>4, <1>8, <2>1, <2>2 DEF Inv, BlockInv
<1>10. \A m \in Node : m > Top => buf'[m].refcnt = buf[m].refcnt
  <2>1. Top \in Int BY NamesDiffer DEF Top, Inv, Types
  <2>2. QED BY <1>1, <1>4, <2>1, NamesDiffer
<1>11. QED BY <1>4, <1>5, <1>7, <1>9, <1>10, QuietStep

\* releasesleep gives the lock back before the process leaves brelse's section.
LEMMA ReleaseSleepInv == ASSUME Inv, NEW p \in Proc, ReleaseSleep(p) PROVE Inv'
<1> USE DEF ReleaseSleep, At, WakeAndGoto, disk, descs, rings, log, bounds, history
<1> DEFINE n == cur[p]
<1>1. n \in Node BY PlaceFacts, NamesDiffer DEF Inv
<1>2. /\ pc[p] \in Locked \ InFlight /\ pc'[p] = "unref"
      /\ \A q \in Proc : q # p => pc'[q] = pc[q] \/ (pc[q] = "lockwait" /\ pc'[q] = "lock")
  BY DEF Locked, InFlight
<1>3. buf \in [Node -> Buf] /\ buf' = [buf EXCEPT ![n].owner = NoProc]
  BY DEF Inv, Types
<1> HIDE DEF n
<1>4. /\ buf' \in [Node -> Buf]
      /\ \A m \in Node : /\ buf'[m].block = buf[m].block /\ buf'[m].disk = buf[m].disk
                         /\ buf'[m].refcnt = buf[m].refcnt
                         /\ m # n => buf'[m] = buf[m]
  BY ONLY <1>1, <1>3 DEF Buf
<1>5. pc' \in [Proc -> Pc]
  BY <1>2 DEF Inv, Types, Pc, InSection
<1>6. PlaceKept(p)
  BY <1>2 DEF PlaceKept, InSection, Locked, InFlight
<1>7. \A q \in Proc : PlaceKept(q)
  <2> TAKE q \in Proc
  <2>1. CASE q # p /\ pc'[q] = pc[q]
    <3>1. pc[q] \in Locked => cur[q] \in Node /\ cur[q] # n
      BY <1>2, <2>1, PlaceFacts DEF Inv, n
    <3>2. QED BY <1>4, <2>1, <3>1, StayKept
  <2>2. CASE q # p /\ pc'[q] # pc[q]
    <3>1. pc[q] = "lockwait" /\ pc'[q] = "lock" BY <1>2, <2>2
    <3>2. QED BY <3>1 DEF PlaceKept, InSection, Locked, InFlight
  <2>3. QED BY <1>6, <2>1, <2>2
<1>8. \A m \in Range(list) : m \in Node BY DEF Range, Inv, Types
<1>9. ~unbalanced' => /\ ~unbalanced
                      /\ \A m \in Range(list) : buf'[m].refcnt >= Cardinality(Users(m))
  BY <1>4, <1>8 DEF Inv, BlockInv
<1>10. QED BY <1>4, <1>5, <1>7, <1>9, QuietStep

-----------------------------------------------------------------------------
(* bget *)

\* The searches through the list find an index of what they look for.
LEMMA SearchFinds ==
    ASSUME NEW k \in Nat, NEW S, S \subseteq 1..k, S # {}
    PROVE  Min(S) \in S /\ Max(S) \in S
<1>1. Min(S) \in S
  <2>1. \E m \in S : \A y \in S : m <= y
    <3>1. S \subseteq Nat OBVIOUS
    <3>2. QED BY <3>1, LeastNumber
  <2>2. QED BY <2>1 DEF Min
<1>2. Max(S) \in S
  <2> DEFINE T == {k - x : x \in S}
  <2>1. T \subseteq Nat /\ T # {}
    <3>1. \A x \in S : x \in 1..k OBVIOUS
    <3>2. \A x \in S : k - x \in Nat BY <3>1
    <3>3. QED BY <3>2
  <2>2. PICK t \in T : \A y \in T : t <= y BY <2>1, LeastNumber
  <2>3. PICK m \in S : t = k - m BY <2>2
  <2>4. \A y \in S : m >= y
    <3> TAKE y \in S
    <3>1. k - m <= k - y BY <2>2, <2>3
    <3>2. QED BY <3>1
  <2>5. QED BY <2>4 DEF Max
<1>3. QED BY <1>1, <1>2

\* What bget gives: a node of the list, the block's or one that nobody uses.
LEMMA BgetNode ==
    ASSUME Inv, NEW p \in Proc, NEW b \in Block, Bget(p, b), halted' = halted
    PROVE  \E n \in Range(list) :
             /\ cur' = [cur EXCEPT ![p] = n]
             /\ \/ /\ buf[n].block = b
                   /\ buf' = [buf EXCEPT ![n].refcnt = @ + 1]
                   /\ pc' = [pc EXCEPT ![p] = "lock"]
                \/ /\ buf[n].refcnt = 0 /\ \A m \in Range(list) : buf[m].block # b
                   /\ buf' = [buf EXCEPT ![n].block = b, ![n].valid = FALSE, ![n].refcnt = 1]
                   /\ pc' = [pc EXCEPT ![p] = "enter"]
<1>1. list \in Seq(Node) /\ Len(list) \in Nat /\ DOMAIN list = 1..Len(list) BY DEF Inv, Types
<1>2. CASE Cached(b) # {}
  <2> DEFINE i == Min(Cached(b))
  <2>1. i \in Cached(b)
    <3>1. Cached(b) \subseteq 1..Len(list) BY <1>1 DEF Cached
    <3>2. QED BY <1>1, <1>2, <3>1, SearchFinds
  <2>2. list[i] \in Range(list) /\ buf[list[i]].block = b
    <3>1. i \in DOMAIN list /\ buf[list[i]].block = b BY <2>1 DEF Cached
    <3>2. QED BY <3>1 DEF Range
  <2>3. /\ cur' = [cur EXCEPT ![p] = list[i]]
        /\ buf' = [buf EXCEPT ![list[i]].refcnt = @ + 1]
        /\ pc' = [pc EXCEPT ![p] = "lock"]
    BY <1>2 DEF Bget, Goto
  <2> HIDE DEF i
  <2>4. QED BY <2>2, <2>3
<1>3. CASE Cached(b) = {} /\ Unused # {}
  <2> DEFINE i == Max(Unused)
  <2>1. i \in Unused
    <3>1. Unused \subseteq 1..Len(list) BY <1>1 DEF Unused
    <3>2. QED BY <1>1, <1>3, <3>1, SearchFinds
  <2>2. list[i] \in Range(list) /\ buf[list[i]].refcnt = 0
    <3>1. i \in DOMAIN list /\ buf[list[i]].refcnt = 0 BY <2>1 DEF Unused
    <3>2. QED BY <3>1 DEF Range
  <2>3. /\ cur' = [cur EXCEPT ![p] = list[i]]
        /\ buf' = [buf EXCEPT ![list[i]].block = b, ![list[i]].valid = FALSE, ![list[i]].refcnt = 1]
        /\ pc' = [pc EXCEPT ![p] = "enter"]
    BY <1>3 DEF Bget, Goto
  <2>4. \A m \in Range(list) : buf[m].block # b BY <1>3 DEF Cached, Range
  <2> HIDE DEF i
  <2>5. QED BY <2>2, <2>3, <2>4
<1>4. QED BY <1>2, <1>3 DEF Bget, Halt, At

\* One more user is at most one more reference.
LEMMA OneMore ==
    ASSUME NEW S, IsFiniteSet(S), NEW x
    PROVE  Cardinality(S \cup {x}) <= Cardinality(S) + 1 /\ Cardinality(S) \in Nat
<1>1. Cardinality(S) \in Nat BY FS_CardinalityType
<1>2. CASE x \in S
  <2>1. S \cup {x} = S BY <1>2
  <2>2. QED BY <1>1, <2>1
<1>3. CASE x \notin S
  <2>1. Cardinality(S \cup {x}) = Cardinality(S) + 1 BY <1>3, FS_AddElement, Zenon
  <2>2. QED BY <1>1, <2>1
<1>4. QED BY <1>2, <1>3

\* bget's panic changes nothing that matters.
LEMMA BgetPanicInv ==
    ASSUME Inv, NEW p \in Proc, NEW b \in Block, Bget(p, b), UNCHANGED <<buf, cur, pc>>
    PROVE  Inv'
<1> USE DEF Bget, disk, descs, rings, log, history
<1>1. pc[p] = "idle" BY DEF At
<1>2. /\ want' \in [Proc -> Block \cup {NoBlock}]
      /\ \A q \in Proc : pc[q] \in InSection \cup {"enter"} => want'[q] = want[q]
  BY <1>1 DEF Inv, Types, InSection, Locked, InFlight
<1>3. UNCHANGED <<list, ondisk, free, info, avail, used, idx, faults, unheard, leaked, unbalanced>>
  OBVIOUS
<1> USE DEF Inv
<1>4. Types' BY <1>2, <1>3 DEF Types
<1>5. Surgeon' = Surgeon /\ Top' = Top BY <1>3 DEF Surgeon, Top
<1>6. ListInv' BY <1>3, <1>5 DEF ListInv
<1>7. PlaceInv' BY <1>3 DEF PlaceInv, PlaceOK
<1>8. DescInv' BY <1>3 DEF DescInv
<1>9. RequestInv' BY <1>3 DEF RequestInv, Pending, B
<1>10. HeardInv' BY <1>3 DEF HeardInv, Pending, B
<1>11. BlockInv' BY SMTT(60), <1>2, <1>3 DEF BlockInv, B, Users
<1>12. QED BY <1>4, <1>6, <1>7, <1>8, <1>9, <1>10, <1>11

\* bget makes no second buffer for a block, and takes no buffer from its users.
LEMMA BgetInv == ASSUME Inv, NEW p \in Proc, NEW b \in Block, Bget(p, b) PROVE Inv'
<1>1. CASE UNCHANGED <<buf, cur, pc>> BY <1>1, BgetPanicInv
<1>2. CASE halted' = halted
  <2>1. PICK n \in Range(list) :
             /\ cur' = [cur EXCEPT ![p] = n]
             /\ \/ /\ buf[n].block = b
                   /\ buf' = [buf EXCEPT ![n].refcnt = @ + 1]
                   /\ pc' = [pc EXCEPT ![p] = "lock"]
                \/ /\ buf[n].refcnt = 0 /\ \A m \in Range(list) : buf[m].block # b
                   /\ buf' = [buf EXCEPT ![n].block = b, ![n].valid = FALSE, ![n].refcnt = 1]
                   /\ pc' = [pc EXCEPT ![p] = "enter"]
    BY <1>2, BgetNode
  <2>2. /\ pc[p] = "idle"
        /\ UNCHANGED <<list, ondisk, free, info, avail, used, idx, faults, unheard, leaked, unbalanced>>
        /\ want' = [want EXCEPT ![p] = b]
    BY DEF Bget, At, disk, descs, rings, log, history
  <2>3. /\ list \in Seq(Node) /\ buf \in [Node -> Buf] /\ pc \in [Proc -> Pc]
        /\ cur \in [Proc -> Node \cup {NoNode}] /\ want \in [Proc -> Block \cup {NoBlock}]
    BY DEF Inv, Types
  <2>4. \A m \in Range(list) : m \in Node BY <2>3 DEF Range
  <2>5. n \in Node BY <2>4
  <2>6. /\ pc' \in [Proc -> Pc] /\ pc'[p] \in {"lock", "enter"} /\ \A q \in Proc : q # p => pc'[q] = pc[q]
        /\ cur' \in [Proc -> Node \cup {NoNode}] /\ cur'[p] = n /\ \A q \in Proc : q # p => cur'[q] = cur[q]
        /\ want' \in [Proc -> Block \cup {NoBlock}] /\ want'[p] = b /\ \A q \in Proc : q # p => want'[q] = want[q]
    BY <2>1, <2>2, <2>3, <2>5 DEF Pc, InSection
  <2>8. /\ buf' \in [Node -> Buf]
        /\ \A m \in Node : buf'[m].disk = buf[m].disk /\ buf'[m].owner = buf[m].owner
        /\ \A m \in Node : m # n => buf'[m] = buf[m]
        /\ buf'[n].block = b
        /\ \/ buf[n].block = b /\ buf'[n].refcnt = buf[n].refcnt + 1
           \/ /\ buf[n].refcnt = 0 /\ buf'[n].refcnt = 1 /\ \A m \in Range(list) : buf[m].block # b
    <3>1. CASE buf[n].block = b /\ buf' = [buf EXCEPT ![n].refcnt = @ + 1]
      <4>0. buf[n].refcnt \in Int BY <2>3, <2>5 DEF Buf
      <4> PICK c \in Int : c = buf[n].refcnt + 1 BY <4>0
      <4>1. buf' = [buf EXCEPT ![n].refcnt = c] BY <3>1
      <4>2. /\ buf' \in [Node -> Buf]
            /\ \A m \in Node : buf'[m].disk = buf[m].disk /\ buf'[m].owner = buf[m].owner
            /\ \A m \in Node : m # n => buf'[m] = buf[m]
            /\ buf'[n].block = buf[n].block /\ buf'[n].refcnt = c
        BY ZenonT(60), <2>3, <2>5, <4>1 DEF Buf
      <4>3. QED BY <3>1, <4>2
    <3>2. CASE /\ buf[n].refcnt = 0 /\ \A m \in Range(list) : buf[m].block # b
               /\ buf' = [buf EXCEPT ![n].block = b, ![n].valid = FALSE, ![n].refcnt = 1]
      <4>1. buf' = [buf EXCEPT ![n] = buf'[n]] BY ONLY <2>3, <2>5, <3>2 DEF Buf
      <4>2. buf'[n] = [block |-> b, valid |-> FALSE, disk |-> buf[n].disk,
                       owner |-> buf[n].owner, refcnt |-> 1, data |-> buf[n].data]
        BY ONLY SMTT(60), <2>3, <2>5, <3>2 DEF Buf
      <4>3. buf'[n] \in Buf BY <2>3, <2>5, <4>2 DEF Buf
      <4>4. buf' \in [Node -> Buf] /\ \A m \in Node : m # n => buf'[m] = buf[m]
        BY ONLY <2>3, <2>5, <4>1, <4>3
      <4>5. QED BY <3>2, <4>2, <4>4
    <3>3. QED BY <2>1, <3>1, <3>2
  <2>20. \A m \in Node : buf[m].block # NoBlock => buf'[m].block # NoBlock
    BY <2>8, NamesDiffer
  <2>9. cur[p] = NoNode /\ idx[p] = <<>>
    BY <2>2 DEF Inv, PlaceInv, PlaceOK, InFlight
  <2> USE NamesDiffer
  <2>10. Types' BY <2>2, <2>6, <2>8 DEF Inv, Types
  <2>11. Surgeon' = Surgeon /\ Top' = Top
    <3>1. Surgeon' = Surgeon BY <2>2, <2>6 DEF Surgeon
    <3>2. QED BY <2>2, <3>1 DEF Top
  <2>12. ListInv'
    <3>1. n <= Top /\ Top \in Int
      <4>1. Top \in Int BY NamesDiffer DEF Inv, Top, Types
      <4>2. QED BY <4>1 DEF Inv, ListInv
    <3>2. \A q \in Proc : cur'[q] # NoNode => cur'[q] <= Top BY <2>6, <3>1 DEF Inv, ListInv
    <3>3. \A m \in Node : m > Top => buf'[m] = buf[m] BY <2>5, <2>8, <3>1
    <3>4. QED BY <2>2, <2>11, <3>2, <3>3 DEF Inv, ListInv
  <2>13. PlaceInv'
    <3> SUFFICES ASSUME NEW q \in Proc PROVE PlaceOK(q)' BY DEF PlaceInv
    <3>1. PlaceOK(q) BY DEF Inv, PlaceInv
    <3>2. CASE q = p
      BY <2>2, <2>5, <2>6, <2>9, <3>2 DEF PlaceOK, InSection, Locked, InFlight
    <3>3. CASE q # p
      <4>1. pc[q] \in Locked => cur[q] \in Node BY PlaceFacts DEF Inv
      <4>2. pc[q] \in Locked => buf'[cur[q]].owner = buf[cur[q]].owner BY <2>8, <4>1
      <4>3. pc'[q] = pc[q] /\ cur'[q] = cur[q] BY <2>6, <3>3
      <4>4. QED BY <2>2, <3>1, <4>2, <4>3 DEF PlaceOK
    <3>4. QED BY <3>2, <3>3
  <2>14. DescInv' BY <2>2 DEF Inv, DescInv
  <2>15. \A q \in Proc : /\ pc'[q] \in InFlight <=> pc[q] \in InFlight
                         /\ pc'[q] \in InFlight => pc'[q] = pc[q] /\ cur'[q] = cur[q] /\ cur[q] \in Node
    BY <2>2, <2>6, PlaceFacts DEF Inv, InFlight
  <2>16. RequestInv'
    <3>1. Pending' = Pending BY <2>2 DEF Pending
    <3>2. \A q \in Proc : pc'[q] \in InFlight =>
            info'[idx'[q][1]] = cur'[q] /\ (idx'[q][1] \in Pending' => B(q)'.disk)
      BY ZenonT(60), <2>2, <2>8, <2>15, <3>1 DEF Inv, RequestInv, B
    <3>3. \A d \in Desc : info'[d] # NoNode =>
          \/ info'[d] \notin Range(list')
          \/ \E q \in Proc : pc'[q] \in InFlight /\ idx'[q][1] = d /\ cur'[q] = info'[d]
      BY <2>2, <2>15 DEF Inv, RequestInv
    <3>4. \A d \in Desc : info'[d] # NoNode => buf'[info'[d]].block # NoBlock
      <4>1. \A d \in Desc : info[d] # NoNode => info[d] \in Node BY DEF Inv, Types
      <4>2. QED BY <2>2, <2>20, <4>1 DEF Inv, RequestInv
    <3>5. QED BY <2>2, <3>1, <3>2, <3>3, <3>4 DEF Inv, RequestInv
  <2>17. HeardInv'
    <3>1. Pending' = Pending BY <2>2 DEF Pending
    <3>2. \A q \in Proc : pc'[q] = "woken" => B(q)'.disk = B(q).disk /\ pc[q] = "woken"
      BY <2>8, <2>15 DEF B, InFlight
    <3>3. \A q \in Proc : pc'[q] = "iowait" => pc[q] = "iowait" BY <2>15 DEF InFlight
    <3>4. QED BY <2>2, <3>1, <3>2, <3>3 DEF Inv, HeardInv
  <2>18. BlockInv'
    <3>1. \A m, k \in Range(list') :
            buf'[m].block = buf'[k].block /\ buf'[m].block # NoBlock => m = k
      <4> SUFFICES ASSUME NEW m \in Range(list), NEW k \in Range(list),
                          buf'[m].block = buf'[k].block, buf'[m].block # NoBlock, m # k
                   PROVE  FALSE
        BY <2>2
      <4>1. m \in Node /\ k \in Node BY <2>4
      <4>2. buf[m].block # buf[k].block \/ buf[m].block = NoBlock BY DEF Inv, BlockInv
      <4>3. CASE m # n /\ k # n BY <2>8, <4>1, <4>2, <4>3
      <4>4. CASE m = n BY <2>8, <4>1, <4>2, <4>4
      <4>5. CASE k = n BY <2>8, <4>1, <4>2, <4>5
      <4>6. QED BY <4>3, <4>4, <4>5
    <3>2. \A q \in Proc : q # p /\ pc[q] \in InSection \cup {"enter"} => cur[q] \in Node
      BY PlaceFacts DEF Inv, InSection, Locked, InFlight
    <3>3. \A q \in Proc : pc'[q] \in InSection \cup {"enter"} =>
            want'[q] \in Block /\ B(q)'.block # NoBlock
      <4> TAKE q \in Proc
      <4>1. CASE q = p BY <2>6, <2>8, <4>1 DEF B
      <4>2. CASE q # p
        <5>1. pc'[q] = pc[q] /\ cur'[q] = cur[q] /\ want'[q] = want[q] BY <2>6, <4>2
        <5>2. QED BY <2>20, <3>2, <4>2, <5>1 DEF Inv, BlockInv, B
      <4>3. QED BY <4>1, <4>2
    <3>4. /\ Users(n)' = Users(n) \cup {p}
          /\ \A m \in Node : m # n => Users(m)' = Users(m)
      BY <2>5, <2>6, <2>9 DEF Users
    <3>5. Cardinality(Users(n)') <= Cardinality(Users(n)) + 1 /\ Cardinality(Users(n)) \in Nat
          /\ Cardinality(Users(n)') \in Nat
      <4>1. IsFiniteSet(Users(n)) BY UsersFinite
      <4>2. IsFiniteSet(Users(n) \cup {p}) BY <4>1, FS_AddElement
      <4>3. QED BY <3>4, <4>1, <4>2, OneMore, FS_CardinalityType
    <3>6. ASSUME ~unbalanced PROVE buf'[n].refcnt >= Cardinality(Users(n)')
      <4>1. buf[n].refcnt >= Cardinality(Users(n)) /\ buf[n].refcnt \in Int
        BY <2>3, <2>5, <3>6 DEF Inv, BlockInv, Buf
      <4>2. QED BY <2>8, <3>5, <4>1
    <3>7. ~unbalanced' => \A m \in Range(list') : buf'[m].refcnt >= Cardinality(Users(m)')
      BY <2>2, <2>4, <2>8, <3>4, <3>6 DEF Inv, BlockInv
    <3>8. ASSUME ~unbalanced, NEW q \in Proc, pc'[q] \in InSection \cup {"enter"}, cur'[q] \in Range(list)
          PROVE  B(q)'.block = want'[q]
      <4>1. CASE q = p BY <2>6, <2>8, <4>1 DEF B
      <4>2. CASE q # p /\ cur[q] # n
        <5>1. pc'[q] = pc[q] /\ cur'[q] = cur[q] /\ want'[q] = want[q] BY <2>6, <4>2
        <5>2. buf'[cur[q]] = buf[cur[q]] BY <2>4, <2>8, <3>8, <4>2, <5>1
        <5>3. QED BY <3>8, <5>1, <5>2 DEF B, Inv, BlockInv
      <4>3. CASE q # p /\ cur[q] = n
        <5>1. Users(n) # {} BY <4>3 DEF Users
        <5>2. Cardinality(Users(n)) # 0 BY <5>1, UsersFinite, FS_EmptySet
        <5>3. buf[n].refcnt >= Cardinality(Users(n)) BY <3>8 DEF Inv, BlockInv
        <5>4. buf[n].refcnt # 0 BY <3>5, <5>2, <5>3
        <5>5. buf[n].block = want[q] BY <2>6, <3>8, <4>3 DEF B, Inv, BlockInv
        <5>6. QED BY <2>6, <2>8, <4>3, <5>4, <5>5 DEF B
      <4>4. QED BY <4>1, <4>2, <4>3
    <3>9. QED BY <2>2, <3>1, <3>3, <3>7, <3>8 DEF BlockInv
  <2>19. QED BY <2>10, <2>12, <2>13, <2>14, <2>16, <2>17, <2>18 DEF Inv
<1>3. QED BY <1>1, <1>2 DEF Bget, At

-----------------------------------------------------------------------------
(* virtio_disk_rw *)

\* alloc3_desc: three free descriptors are three different ones.
LEMMA ThreeLowest ==
    ASSUME Types, Cardinality(free) >= 3
    PROVE  /\ Lowest(0) \in free /\ Lowest(1) \in free /\ Lowest(2) \in free
           /\ Lowest(0) # Lowest(1) /\ Lowest(0) # Lowest(2) /\ Lowest(1) # Lowest(2)
<1> DEFINE Below(i) == {j \in free : j < i}
<1>1. free \subseteq Nat /\ IsFiniteSet(free) /\ Cardinality(free) \in Nat
  <2>1. free \subseteq 0..(NUM - 1) /\ NUM - 1 \in Int BY BcacheAssumption DEF Types, Desc
  <2>2. IsFiniteSet(0..(NUM - 1)) BY <2>1, FS_Interval
  <2>3. IsFiniteSet(free) BY <2>1, <2>2, FS_Subset
  <2>4. QED BY <2>1, <2>3, FS_CardinalityType
<1>2. PICK a \in free : \A k \in free : a <= k
  <2>1. free # {} BY <1>1, FS_EmptySet
  <2>2. QED BY <1>1, <2>1, LeastNumber
<1>3. IsFiniteSet(free \ {a}) /\ Cardinality(free \ {a}) = Cardinality(free) - 1
  BY <1>1, FS_RemoveElement
<1>4. PICK b \in free \ {a} : \A k \in free \ {a} : b <= k
  <2>1. free \ {a} # {} BY <1>1, <1>3, FS_EmptySet
  <2>2. free \ {a} \subseteq Nat BY <1>1
  <2>3. QED BY <2>1, <2>2, LeastNumber
<1>5. Cardinality((free \ {a}) \ {b}) = Cardinality(free) - 2 /\ IsFiniteSet((free \ {a}) \ {b})
  <2>1. Cardinality((free \ {a}) \ {b}) = Cardinality(free \ {a}) - 1 /\ IsFiniteSet((free \ {a}) \ {b})
    BY <1>3, FS_RemoveElement
  <2>2. QED BY <1>1, <1>3, <2>1
<1>6. PICK c \in (free \ {a}) \ {b} : \A k \in (free \ {a}) \ {b} : c <= k
  <2>1. (free \ {a}) \ {b} # {} BY <1>1, <1>5, FS_EmptySet
  <2>2. (free \ {a}) \ {b} \subseteq Nat BY <1>1
  <2>3. QED BY <2>1, <2>2, LeastNumber
<1>7. Below(a) = {} /\ Below(b) = {a} /\ Below(c) = {a, b} /\ a # b
  <2>1. a \in Nat /\ b \in Nat /\ c \in Nat BY <1>1
  <2>2. a < b /\ b < c /\ a < c BY <1>1, <1>2, <1>4, <1>6
  <2>7. \A j \in free :
          /\ ~(j < a) /\ j \in Nat
          /\ (j < b <=> j = a)
          /\ (j < c <=> j = a \/ j = b)
    <3> TAKE j \in free
    <3>1. j \in Nat /\ a <= j BY <1>1, <1>2
    <3>2. j = a \/ b <= j BY <1>4
    <3>3. j = a \/ j = b \/ c <= j BY <1>6
    <3>4. ~(j < a) BY <2>1, <3>1
    <3>5. j < b => j = a BY <2>1, <3>1, <3>2
    <3>6. j < c => j = a \/ j = b BY <2>1, <3>1, <3>3
    <3>7. QED BY <2>2, <3>1, <3>4, <3>5, <3>6
  <2>3. Below(a) = {} BY <2>7
  <2>4. Below(b) = {a} BY <2>7
  <2>5. Below(c) = {a, b} BY <2>7
  <2>6. QED BY <2>1, <2>2, <2>3, <2>4, <2>5
<1>8. Cardinality(Below(a)) = 0 /\ Cardinality(Below(b)) = 1 /\ Cardinality(Below(c)) = 2
  <2>1. Cardinality({}) = 0 /\ Cardinality({a}) = 1 /\ IsFiniteSet({a}) BY FS_EmptySet, FS_Singleton
  <2>2. {a} \cup {b} = {a, b} OBVIOUS
  <2>3. Cardinality({a} \cup {b}) = Cardinality({a}) + 1
    <3>1. b \notin {a} BY <1>7
    <3>2. QED BY <2>1, <3>1, FS_AddElement, Zenon
  <2>4. QED BY <1>7, <2>1, <2>2, <2>3
<1> HIDE DEF Below
<1>9. \A k : Lowest(k) = CHOOSE i \in free : Cardinality(Below(i)) = k BY DEF Lowest, Below
<1>10. Lowest(0) \in free /\ Cardinality(Below(Lowest(0))) = 0 BY <1>8, <1>9
<1>11. Lowest(1) \in free /\ Cardinality(Below(Lowest(1))) = 1 BY <1>8, <1>9
<1>12. Lowest(2) \in free /\ Cardinality(Below(Lowest(2))) = 2 BY <1>6, <1>8, <1>9
<1>13. QED BY <1>10, <1>11, <1>12

\* The first descriptors of requests are different, in use, and not leaked.
LEMMA FirstsDiffer ==
    ASSUME Types, PlaceInv, DescInv, NEW p \in Proc, idx[p] # <<>>
    PROVE  /\ idx[p][1] \in Desc /\ idx[p][1] \notin free /\ idx[p][1] \notin leaked
           /\ \A q \in Proc : q # p => idx[p][1] \notin Range(idx[q])
           /\ \A q \in Proc : q # p /\ idx[q] # <<>> => idx[q][1] # idx[p][1]
<1>1. idx[p][1] \in Desc /\ idx[p][1] \in Range(idx[p]) BY FirstOfChain
<1>2. \A q \in Proc : idx[q] # <<>> => idx[q][1] \in Range(idx[q]) BY FirstOfChain
<1>3. idx[p][1] \notin free /\ idx[p][1] \notin leaked BY <1>1 DEF DescInv
<1>4. \A q \in Proc : q # p => Range(idx[p]) \cap Range(idx[q]) = {} BY DEF DescInv
<1>5. \A q \in Proc : q # p => idx[p][1] \notin Range(idx[q]) BY <1>1, <1>4
<1>6. QED BY <1>1, <1>2, <1>3, <1>5

\* What the device or the used ring has is not free.
LEMMA PendingHeld ==
    ASSUME Inv, NEW d \in Pending
    PROVE  d \in Desc /\ d \notin free
<1>1. d \in Desc BY DEF Pending, Range, Inv, Types
<1>2. CASE d \in leaked BY <1>1, <1>2 DEF Inv, DescInv
<1>3. CASE \E p \in Proc : idx[p] # <<>> /\ idx[p][1] = d
  BY <1>1, <1>3, FirstsDiffer DEF Inv
<1>4. QED BY <1>2, <1>3 DEF Inv, RequestInv

\* A chain of three descriptors.
LEMMA ChainOfThree ==
    ASSUME NEW S, NEW a \in S, NEW b \in S, NEW c \in S
    PROVE  /\ <<a, b, c>> \in Seq(S) /\ Len(<<a, b, c>>) = 3 /\ <<a, b, c>>[1] = a
           /\ <<a, b, c>> # <<>> /\ Range(<<a, b, c>>) = {a, b, c}
<1> DEFINE s == <<a, b, c>>
<1>1. s \in Seq(S) /\ Len(s) = 3 /\ s[1] = a /\ s[2] = b /\ s[3] = c /\ s # <<>> OBVIOUS
<1>2. DOMAIN s = {1, 2, 3} BY <1>1
<1> HIDE DEF s
<1>3. Range(s) = {a, b, c} BY <1>1, <1>2 DEF Range
<1>4. QED BY <1>1, <1>3 DEF s

\* A request is handed to the device with its buffer locked.
LEMMA VirtioRequestInv ==
    ASSUME Inv, NEW p \in Proc, VirtioStart(p), Cardinality(free) >= 3 PROVE Inv'
<1> USE NamesDiffer
<1> DEFINE n == cur[p]
           d == <<Lowest(0), Lowest(1), Lowest(2)>>
           d1 == Lowest(0)
<1>1. pc[p] = "rw" /\ n \in Node BY PlaceFacts DEF VirtioStart, At, Inv
<1>2. /\ free' = free \ Range(d) /\ idx' = [idx EXCEPT ![p] = d]
      /\ info' = [info EXCEPT ![d[1]] = n]
      /\ buf' = [buf EXCEPT ![n].disk = TRUE]
      /\ avail' = Append(avail, d[1])
      /\ pc' = [pc EXCEPT ![p] = "iowait"]
      /\ UNCHANGED <<list, ondisk, used, want, cur, faults, unheard, leaked, unbalanced>>
  BY DEF VirtioStart, Goto, log, bounds, history
<1>3. /\ Lowest(0) \in free /\ Lowest(1) \in free /\ Lowest(2) \in free
      /\ free \subseteq Desc
  BY ThreeLowest DEF Inv, Types
<1>4. /\ d \in Seq(Desc) /\ Len(d) = 3 /\ d[1] = d1 /\ d # <<>> /\ Range(d) \subseteq free
      /\ d1 \in Range(d) /\ d1 \in Desc
  <2>1. /\ d \in Seq(Desc) /\ Len(d) = 3 /\ d[1] = d1 /\ d # <<>>
        /\ Range(d) = {Lowest(0), Lowest(1), Lowest(2)}
    BY <1>3, ChainOfThree
  <2>2. QED BY <1>3, <2>1
<1> HIDE DEF d, d1, n
<1>5. /\ buf \in [Node -> Buf] /\ info \in [Desc -> Node \cup {NoNode}] /\ avail \in Seq(Desc)
      /\ pc \in [Proc -> Pc] /\ idx \in [Proc -> Seq(Desc)]
  BY DEF Inv, Types
<1>6. /\ buf' \in [Node -> Buf] /\ buf'[n].disk = TRUE
      /\ \A m \in Node : m # n => buf'[m] = buf[m]
      /\ \A m \in Node : buf'[m].block = buf[m].block /\ buf'[m].owner = buf[m].owner
                         /\ buf'[m].refcnt = buf[m].refcnt
  <2>1. buf' = [buf EXCEPT ![n].disk = TRUE] BY <1>2
  <2>2. QED BY ONLY <1>1, <1>5, <2>1 DEF Buf
<1>7. /\ pc' \in [Proc -> Pc] /\ pc'[p] = "iowait" /\ \A q \in Proc : q # p => pc'[q] = pc[q]
      /\ idx' \in [Proc -> Seq(Desc)] /\ idx'[p] = d /\ \A q \in Proc : q # p => idx'[q] = idx[q]
      /\ info' \in [Desc -> Node \cup {NoNode}] /\ info'[d1] = n
      /\ \A e \in Desc : e # d1 => info'[e] = info[e]
  BY <1>1, <1>2, <1>4, <1>5 DEF Pc, InSection, Locked, InFlight
<1>8. idx[p] = <<>> /\ cur'[p] = n /\ cur[p] = n
  BY <1>1, <1>2 DEF Inv, PlaceInv, PlaceOK, InFlight, n
<1>9. d1 \notin Pending /\ d1 \in free BY <1>4, PendingHeld
<1>10. /\ avail' \in Seq(Desc) /\ Range(avail') = Range(avail) \cup {d1} /\ IsInjective(avail')
       /\ Pending' = Pending \cup {d1}
  <2>1. d1 \notin Range(avail) /\ IsInjective(avail) BY <1>9 DEF Pending, Inv, RequestInv
  <2>2. avail' \in Seq(Desc) /\ Range(avail') = Range(avail) \cup {d1} /\ IsInjective(avail')
    BY <1>2, <1>4, <1>5, <2>1, AppendRange
  <2>3. QED BY <1>2, <2>2 DEF Pending
<1>11. Types' BY <1>2, <1>4, <1>6, <1>7, <1>10 DEF Inv, Types
<1>12. Surgeon' = Surgeon /\ Top' = Top
  <2>1. Surgeon' = Surgeon BY <1>1, <1>7 DEF Surgeon
  <2>2. QED BY <1>2, <2>1 DEF Top
<1>13. ListInv'
  <2>1. n <= Top BY <1>1, <1>8 DEF Inv, ListInv
  <2>2. \A e \in Desc : info'[e] # NoNode => info'[e] <= Top BY <1>7, <2>1 DEF Inv, ListInv
  <2>3. QED BY <1>2, <1>6, <1>12, <2>2 DEF Inv, ListInv
<1>14. PlaceInv'
  <2> SUFFICES ASSUME NEW q \in Proc PROVE PlaceOK(q)' BY DEF PlaceInv
  <2>1. PlaceOK(q) BY DEF Inv, PlaceInv
  <2>2. pc[q] \in Locked => buf'[cur[q]].owner = buf[cur[q]].owner
    BY <1>6, PlaceFacts DEF Inv
  <2>3. CASE q = p
    BY <1>1, <1>2, <1>4, <1>7, <2>1, <2>2, <2>3 DEF PlaceOK, InSection, Locked, InFlight
  <2>4. CASE q # p
    <3>1. pc'[q] = pc[q] /\ cur'[q] = cur[q] /\ idx'[q] = idx[q] /\ list' = list BY <1>2, <1>7, <2>4
    <3>2. QED BY <2>1, <2>2, <3>1 DEF PlaceOK
  <2>5. QED BY <2>3, <2>4
<1>15. DescInv'
  <2>1. Range(idx[p]) = {} BY <1>8 DEF Range
  <2>2. \A e \in Desc : e \in free' \/ e \in leaked' \/ \E q \in Proc : e \in Range(idx'[q])
    <3> TAKE e \in Desc
    <3>1. CASE e \in Range(d) BY <1>7, <3>1
    <3>2. CASE e \notin Range(d)
      <4>1. CASE e \in free \/ e \in leaked BY <1>2, <3>2, <4>1
      <4>2. CASE \E q \in Proc : e \in Range(idx[q])
        <5>1. PICK q \in Proc : e \in Range(idx[q]) BY <4>2
        <5>2. q # p BY <2>1, <5>1
        <5>3. QED BY <1>7, <5>1, <5>2
      <4>3. QED BY <4>1, <4>2 DEF Inv, DescInv
    <3>3. QED BY <3>1, <3>2
  <2>3. free' \cap leaked' = {} BY <1>2 DEF Inv, DescInv
  <2>4. \A q \in Proc : Range(idx'[q]) \cap (free' \cup leaked') = {}
    <3> TAKE q \in Proc
    <3>1. CASE q = p BY <1>2, <1>4, <1>7, <3>1 DEF Inv, DescInv
    <3>2. CASE q # p
      <4>1. idx'[q] = idx[q] BY <1>7, <3>2
      <4>2. Range(idx[q]) \cap (free \cup leaked) = {} BY DEF Inv, DescInv
      <4>3. QED BY <1>2, <4>1, <4>2
    <3>3. QED BY <3>1, <3>2
  <2>5. \A q \in Proc : Range(idx[q]) \cap Range(d) = {} BY <1>4 DEF Inv, DescInv
  <2>6. \A q, r \in Proc : q # r => Range(idx'[q]) \cap Range(idx'[r]) = {}
    BY <1>7, <2>5 DEF Inv, DescInv
  <2>7. QED BY <2>2, <2>3, <2>4, <2>6 DEF DescInv
<1>16. \A q \in Proc : q # p /\ idx[q] # <<>> => idx[q][1] # d1 /\ idx[q][1] \in Desc
  BY <1>9, FirstsDiffer DEF Inv
<1>17. \A q \in Proc : q # p /\ pc[q] \in InFlight =>
         cur[q] \in Node /\ cur[q] # n /\ idx[q] # <<>>
  <2>1. \A q \in Proc : pc[q] \in InFlight => pc[q] \in Locked /\ idx[q] # <<>>
    BY DEF Locked, Inv, PlaceInv, PlaceOK
  <2>2. pc[p] \in Locked BY <1>1 DEF Locked
  <2>3. QED BY <1>8, <2>1, <2>2, PlaceFacts DEF Inv
<1>18. RequestInv'
  <2>1. Range(avail') \cap Range(used') = {}
    BY <1>2, <1>9, <1>10 DEF Inv, RequestInv, Pending
  <2>2. \A q \in Proc : pc'[q] \in InFlight =>
          info'[idx'[q][1]] = cur'[q] /\ (idx'[q][1] \in Pending' => B(q)'.disk)
    <3> SUFFICES ASSUME NEW q \in Proc, pc'[q] \in InFlight
                 PROVE  info'[idx'[q][1]] = cur'[q] /\ (idx'[q][1] \in Pending' => B(q)'.disk)
      OBVIOUS
    <3>1. CASE q = p BY <1>4, <1>6, <1>7, <1>8, <3>1 DEF B
    <3>2. CASE q # p
      <4>1. pc'[q] = pc[q] /\ cur'[q] = cur[q] /\ idx'[q] = idx[q] BY <1>2, <1>7, <3>2
      <4>2. buf'[cur[q]] = buf[cur[q]] BY <1>6, <1>17, <3>2, <4>1
      <4>3. idx[q][1] # d1 /\ idx[q][1] \in Desc BY <1>16, <1>17, <3>2, <4>1
      <4>4. info[idx[q][1]] = cur[q] /\ (idx[q][1] \in Pending => B(q).disk)
        BY <4>1 DEF Inv, RequestInv
      <4>5. QED BY <1>7, <1>10, <4>1, <4>2, <4>3, <4>4 DEF B
    <3>3. QED BY <3>1, <3>2
  <2>3. \A e \in Desc : info'[e] # NoNode =>
          \/ info'[e] \notin Range(list')
          \/ \E q \in Proc : pc'[q] \in InFlight /\ idx'[q][1] = e /\ cur'[q] = info'[e]
    <3> TAKE e \in Desc
    <3>1. CASE e = d1 BY <1>4, <1>7, <1>8, <3>1 DEF InFlight
    <3>2. CASE e # d1
      <4>1. info'[e] = info[e] BY <1>7, <3>2
      <4>2. \A q \in Proc : pc[q] \in InFlight => q # p BY <1>1 DEF InFlight
      <4>3. QED BY <1>2, <1>7, <4>1, <4>2 DEF Inv, RequestInv
    <3>3. QED BY <3>1, <3>2
  <2>4. \A e \in Pending' : e \in leaked' \/ \E q \in Proc : idx'[q] # <<>> /\ idx'[q][1] = e
    <3> TAKE e \in Pending'
    <3>1. CASE e = d1 BY <1>4, <1>7, <3>1
    <3>2. CASE e # d1
      <4>1. e \in Pending BY <1>10, <3>2
      <4>2. QED BY <1>2, <1>7, <1>8, <4>1 DEF Inv, RequestInv
    <3>3. QED BY <3>1, <3>2
  <2>5. \A e \in Pending' : info'[e] # NoNode
    <3>1. \A e \in Pending : e \in Desc BY PendingHeld
    <3>2. QED BY <1>1, <1>7, <1>10, <3>1 DEF Inv, RequestInv
  <2>6. \A e \in Desc : info'[e] # NoNode => buf'[info'[e]].block # NoBlock
    <3> TAKE e \in Desc
    <3>1. CASE e = d1
      <4>1. buf[n].block # NoBlock
        BY <1>1, <1>8 DEF Inv, BlockInv, B, InSection, Locked
      <4>2. QED BY <1>1, <1>6, <1>7, <3>1, <4>1
    <3>2. CASE e # d1
      <4>1. info'[e] = info[e] /\ (info[e] # NoNode => info[e] \in Node) BY <1>5, <1>7, <3>2
      <4>2. QED BY <1>6, <4>1 DEF Inv, RequestInv
    <3>3. QED BY <3>1, <3>2
  <2>7. QED BY <1>10, <2>1, <2>2, <2>3, <2>4, <2>5, <2>6 DEF RequestInv
<1>19. HeardInv'
  <2>1. \A q \in Proc : pc'[q] = "woken" /\ q \notin unheard' => ~B(q)'.disk
    <3> SUFFICES ASSUME NEW q \in Proc, pc'[q] = "woken", q \notin unheard' PROVE ~B(q)'.disk
      OBVIOUS
    <3>1. q # p /\ pc[q] = "woken" /\ pc[q] \in InFlight /\ q \notin unheard
      BY <1>2, <1>7 DEF InFlight
    <3>2. ~B(q).disk BY <3>1 DEF Inv, HeardInv
    <3>3. buf'[cur[q]] = buf[cur[q]] /\ cur'[q] = cur[q] BY <1>2, <1>6, <1>17, <3>1
    <3>4. QED BY <3>2, <3>3 DEF B
  <2>2. \A q \in Proc \ Recovering : pc'[q] = "iowait" => idx'[q][1] \in Pending' \/ q \in unheard'
    <3> TAKE q \in Proc \ Recovering
    <3>1. CASE q = p BY <1>4, <1>7, <1>10, <3>1
    <3>2. CASE q # p BY <1>2, <1>7, <1>10, <3>2 DEF Inv, HeardInv
    <3>3. QED BY <3>1, <3>2
  <2>3. QED BY <2>1, <2>2 DEF HeardInv
<1>20. BlockInv'
  <2>1. \A m \in Range(list) : m \in Node BY DEF Range, Inv, Types
  <2>2. \A m : Users(m)' = Users(m) BY <1>2 DEF Users
  <2>3. \A q \in Proc : pc'[q] \in InSection \cup {"enter"} =>
          /\ pc[q] \in InSection \cup {"enter"}
          /\ B(q)'.block = B(q).block
    <3>1. \A q \in Proc : pc'[q] \in InSection \cup {"enter"} => pc[q] \in InSection \cup {"enter"}
      BY <1>1, <1>7 DEF InSection, Locked
    <3>2. \A q \in Proc : pc[q] \in InSection \cup {"enter"} => cur[q] \in Node
      BY PlaceFacts DEF Inv, InSection, Locked, InFlight
    <3>3. QED BY <1>2, <1>6, <3>1, <3>2 DEF B
  <2>4. \A m, k \in Range(list') :
          buf'[m].block = buf'[k].block /\ buf'[m].block # NoBlock => m = k
    BY <1>2, <1>6, <2>1 DEF Inv, BlockInv
  <2>5. ~unbalanced' => \A m \in Range(list') : buf'[m].refcnt >= Cardinality(Users(m)')
    BY <1>2, <1>6, <2>1, <2>2 DEF Inv, BlockInv
  <2>6. QED BY <1>2, <2>3, <2>4, <2>5 DEF Inv, BlockInv
<1>21. QED BY <1>11, <1>13, <1>14, <1>15, <1>18, <1>19, <1>20 DEF Inv

-----------------------------------------------------------------------------
(* The device and the interrupt *)

\* What a ring looks like without the request that the device has finished.
LEMMA TakenFromRing ==
    ASSUME NEW S, NEW s \in Seq(S), NEW i \in DOMAIN s, IsInjective(s)
    PROVE  /\ RemoveAt(s, i) \in Seq(S) /\ IsInjective(RemoveAt(s, i))
           /\ Range(RemoveAt(s, i)) = Range(s) \ {s[i]} /\ s[i] \in Range(s)
<1>1. i \in 1..Len(s) OBVIOUS
<1>2. s[i] \in Range(s) BY DEF Range
<1>3. QED BY <1>1, <1>2, RemoveAtIndex, RemoveAtRange

\* The device's request has its node, and moves to the used ring.
LEMMA DeviceStep ==
    ASSUME Inv, NEW i, Device(i)
    PROVE  /\ ondisk' \in [Block -> Val] /\ buf' \in [Node -> Buf]
           /\ \A m \in Node : /\ buf'[m].block = buf[m].block /\ buf'[m].owner = buf[m].owner
                              /\ buf'[m].refcnt = buf[m].refcnt /\ buf'[m].disk = buf[m].disk
           /\ avail' \in Seq(Desc) /\ used' \in Seq(Desc) /\ IsInjective(avail')
           /\ Range(avail') \cap Range(used') = {} /\ Pending' = Pending
<1> DEFINE d == avail[i]
           n == info[d]
           p == CHOOSE q \in Proc : idx[q] # <<>> /\ idx[q][1] = d
<1> USE NamesDiffer
<1>1. i \in DOMAIN avail /\ avail \in Seq(Desc) /\ used \in Seq(Desc) /\ IsInjective(avail)
      /\ Range(avail) \cap Range(used) = {}
  BY DEF Device, Inv, Types, RequestInv
<1>2. avail' = RemoveAt(avail, i) /\ used' = Append(used, d)
  BY DEF Device
<1>3. /\ avail' \in Seq(Desc) /\ IsInjective(avail') /\ Range(avail') = Range(avail) \ {d}
      /\ d \in Range(avail)
  BY <1>1, <1>2, TakenFromRing
<1>4. d \in Desc /\ d \in Pending BY <1>1, <1>3 DEF Pending, Range
<1>5. used' \in Seq(Desc) /\ Range(used') = Range(used) \cup {d} BY <1>1, <1>2, <1>4, AppendRange
<1>6. n \in Node /\ buf[n].block \in Block
  <2>1. n # NoNode /\ buf[n].block # NoBlock BY <1>4 DEF Inv, RequestInv
  <2>2. n \in Node BY <1>4, <2>1 DEF Inv, Types
  <2>3. QED BY <2>1, <2>2 DEF Inv, Types, Buf
<1>7. \/ ondisk' = [ondisk EXCEPT ![buf[n].block] = buf[n].data] /\ buf' = buf
      \/ buf' = [buf EXCEPT ![n].data = ondisk[buf[n].block]] /\ ondisk' = ondisk
  BY DEF Device
<1>8. ondisk \in [Block -> Val] /\ buf \in [Node -> Buf] BY DEF Inv, Types
<1> HIDE DEF d, n
<1>9. buf[n].data \in Val /\ ondisk[buf[n].block] \in Val BY <1>6, <1>8 DEF Buf
<1>10. ondisk' \in [Block -> Val] BY ONLY <1>6, <1>7, <1>8, <1>9
<1>11. buf' \in [Node -> Buf]
       /\ \A m \in Node : /\ buf'[m].block = buf[m].block /\ buf'[m].owner = buf[m].owner
                          /\ buf'[m].refcnt = buf[m].refcnt /\ buf'[m].disk = buf[m].disk
  <2>1. CASE buf' = buf BY <1>8, <2>1
  <2>2. CASE buf' = [buf EXCEPT ![n].data = ondisk[buf[n].block]]
    <3> DEFINE v == ondisk[buf[n].block]
    <3>1. buf' = [buf EXCEPT ![n].data = v] /\ v \in Val BY <1>9, <2>2
    <3> HIDE DEF v
    <3>2. QED BY ONLY <1>6, <1>8, <3>1 DEF Buf
  <2>3. QED BY <1>7, <2>1, <2>2
<1>12. QED BY <1>1, <1>3, <1>5, <1>10, <1>11 DEF Pending

\* The device changes contents only, and keeps the request pending.
LEMMA DeviceInv == ASSUME Inv, NEW i, Device(i) PROVE Inv'
<1> USE DeviceStep
<1>1. UNCHANGED <<list, free, info, pc, want, cur, idx, faults, unheard, leaked, unbalanced>>
  BY DEF Device, descs, procs, bounds, history
<1>2. Types' BY <1>1 DEF Inv, Types
<1>3. Surgeon' = Surgeon /\ Top' = Top BY <1>1 DEF Surgeon, Top
<1>4. ListInv' BY <1>1, <1>3 DEF Inv, ListInv
<1>5. \A q \in Proc : pc[q] # "idle" => cur[q] \in Node BY PlaceFacts DEF Inv
<1>6. PlaceInv'
  <2> SUFFICES ASSUME NEW q \in Proc PROVE PlaceOK(q)' BY DEF PlaceInv
  <2>1. PlaceOK(q) BY DEF Inv, PlaceInv
  <2>2. pc[q] \in Locked => buf'[cur[q]].owner = buf[cur[q]].owner
    BY <1>5 DEF Locked, InFlight
  <2>3. QED BY <1>1, <2>1, <2>2 DEF PlaceOK
<1>7. DescInv' BY <1>1 DEF Inv, DescInv
<1>8. RequestInv'
  <2>1. \A q \in Proc : pc'[q] \in InFlight =>
          info'[idx'[q][1]] = cur'[q] /\ (idx'[q][1] \in Pending' => B(q)'.disk)
    BY <1>1, <1>5 DEF Inv, RequestInv, B, InFlight
  <2>2. \A e \in Desc : info'[e] # NoNode => buf'[info'[e]].block # NoBlock
    <3>1. \A e \in Desc : info[e] # NoNode => info[e] \in Node BY DEF Inv, Types
    <3>2. QED BY <1>1, <3>1 DEF Inv, RequestInv
  <2>3. QED BY <1>1, <2>1, <2>2 DEF Inv, RequestInv
<1>9. HeardInv'
  <2>1. \A q \in Proc : pc[q] = "woken" => B(q)'.disk = B(q).disk BY <1>1, <1>5 DEF B
  <2>2. QED BY <1>1, <2>1 DEF Inv, HeardInv
<1>10. BlockInv'
  <2>1. \A m \in Range(list) : m \in Node BY DEF Range, Inv, Types
  <2>2. \A q \in Proc : pc[q] \in InSection \cup {"enter"} => B(q)'.block = B(q).block
    BY <1>1, <1>5 DEF B, InSection, Locked, InFlight
  <2>3. \A m : Users(m)' = Users(m) BY <1>1 DEF Users
  <2>4. \A m, k \in Range(list') :
          buf'[m].block = buf'[k].block /\ buf'[m].block # NoBlock => m = k
    BY <1>1, <2>1 DEF Inv, BlockInv
  <2>5. ~unbalanced' => \A m \in Range(list') : buf'[m].refcnt >= Cardinality(Users(m)')
    BY <1>1, <2>1, <2>3 DEF Inv, BlockInv
  <2>6. QED BY <1>1, <2>2, <2>4, <2>5 DEF Inv, BlockInv
<1>11. QED BY <1>2, <1>4, <1>6, <1>7, <1>8, <1>9, <1>10 DEF Inv

\* A request of a process that waits is the only one with its node.
LEMMA OneRequest ==
    ASSUME Inv, NEW p \in Proc, pc[p] \in InFlight, NEW d \in Desc, info[d] = cur[p]
    PROVE  d = idx[p][1]
<1>1. pc[p] \in Locked /\ pc[p] \in InSection BY DEF Locked, InSection
<1>2. cur[p] \in Range(list) /\ cur[p] \in Node
  BY <1>1, PlaceFacts DEF Inv, PlaceInv, PlaceOK
<1>3. PICK q \in Proc : pc[q] \in InFlight /\ idx[q][1] = d /\ cur[q] = info[d]
  BY <1>2, NamesDiffer DEF Inv, RequestInv
<1>4. q = p BY <1>1, <1>3, PlaceFacts DEF Inv, Locked
<1>5. QED BY <1>3, <1>4

\* Processes move between the places of a wait for the disk: who wakes up for
\* good has its request finished, who goes on waiting has it pending or was
\* not told.
LEMMA WaitStep ==
    ASSUME Inv,
           UNCHANGED <<list, ondisk, free, info, avail, want, cur, idx, faults, leaked, unbalanced>>,
           buf' \in [Node -> Buf], pc' \in [Proc -> Pc], used' \in Seq(Desc), unheard' \subseteq Proc,
           \A n \in Node : /\ buf'[n].block = buf[n].block /\ buf'[n].owner = buf[n].owner
                           /\ buf'[n].refcnt = buf[n].refcnt,
           \A q \in Proc : pc'[q] = pc[q] \/ {pc[q], pc'[q]} = InFlight,
           Range(used') \subseteq Range(used),
           \A q \in Proc : pc[q] \in InFlight /\ idx[q][1] \in Pending' => B(q)'.disk,
           HeardInv'
    PROVE  Inv'
<1>1. Types' BY DEF Inv, Types
<1>2. \A q \in Proc : /\ \A S \in {InFlight, InSection, Locked} : pc'[q] \in S <=> pc[q] \in S
                      /\ pc[q] \notin InFlight => pc'[q] = pc[q]
                      /\ pc'[q] \notin InFlight => pc'[q] = pc[q]
  <2> TAKE q \in Proc
  <2>1. CASE pc'[q] = pc[q] BY <2>1
  <2>2. CASE {pc[q], pc'[q]} = InFlight
    BY <2>2 DEF InFlight, InSection, Locked
  <2>3. QED BY <2>1, <2>2
<1>3. Surgeon' = Surgeon /\ Top' = Top
  <2>1. Surgeon' = Surgeon BY <1>2 DEF Surgeon, InFlight
  <2>2. QED BY <2>1 DEF Top
<1>4. ListInv' BY <1>3 DEF Inv, ListInv
<1>5. \A q \in Proc : pc[q] # "idle" => cur[q] \in Node BY PlaceFacts DEF Inv
<1>6. PlaceInv'
  <2> SUFFICES ASSUME NEW q \in Proc PROVE PlaceOK(q)' BY DEF PlaceInv
  <2>1. PlaceOK(q) BY DEF Inv, PlaceInv
  <2>2. pc[q] \in Locked => buf'[cur[q]].owner = buf[cur[q]].owner
    BY <1>5 DEF Locked, InFlight
  <2>3. pc'[q] \in {"insert", "solve", "idle"} <=> pc[q] \in {"insert", "solve", "idle"}
    BY <1>2 DEF InFlight
  <2>4. pc'[q] = "idle" <=> pc[q] = "idle" BY <1>2 DEF InFlight
  <2>5. QED BY <1>2, <2>1, <2>2, <2>3, <2>4 DEF PlaceOK
<1>7. DescInv' BY DEF Inv, DescInv
<1>8. RequestInv'
  <2>1. Pending' \subseteq Pending BY DEF Pending
  <2>2. \A q \in Proc : pc'[q] \in InFlight =>
          info'[idx'[q][1]] = cur'[q] /\ (idx'[q][1] \in Pending' => B(q)'.disk)
    BY <1>2 DEF Inv, RequestInv
  <2>3. \A e \in Desc : info'[e] # NoNode => buf'[info'[e]].block # NoBlock
    <3>1. \A e \in Desc : info[e] # NoNode => info[e] \in Node BY DEF Inv, Types
    <3>2. QED BY <3>1 DEF Inv, RequestInv
  <2>4. \A d \in Desc : info'[d] # NoNode =>
          \/ info'[d] \notin Range(list')
          \/ \E p \in Proc : pc'[p] \in InFlight /\ idx'[p][1] = d /\ cur'[p] = info'[d]
    BY <1>2 DEF Inv, RequestInv
  <2>5. QED BY <2>1, <2>2, <2>3, <2>4 DEF Inv, RequestInv
<1>9. BlockInv'
  <2>1. \A m \in Range(list) : m \in Node BY DEF Range, Inv, Types
  <2>2. \A q \in Proc : pc'[q] \in InSection \cup {"enter"} =>
          /\ pc[q] \in InSection \cup {"enter"}
          /\ B(q)'.block = B(q).block
    <3>1. \A q \in Proc : pc'[q] \in InSection \cup {"enter"} => pc[q] \in InSection \cup {"enter"}
      BY <1>2 DEF InFlight
    <3>2. QED BY <1>5, <3>1 DEF B, InSection, Locked, InFlight
  <2>3. \A m : Users(m)' = Users(m) BY DEF Users
  <2>4. \A m, k \in Range(list') :
          buf'[m].block = buf'[k].block /\ buf'[m].block # NoBlock => m = k
    BY <2>1 DEF Inv, BlockInv
  <2>5. ~unbalanced' => \A m \in Range(list') : buf'[m].refcnt >= Cardinality(Users(m)')
    BY <2>1, <2>3 DEF Inv, BlockInv
  <2>6. QED BY <2>2, <2>4, <2>5 DEF Inv, BlockInv
<1>10. QED BY <1>1, <1>4, <1>6, <1>7, <1>8, <1>9 DEF Inv

\* The interrupt handler clears b->disk of what is finished, and only of that.
LEMMA VirtioIntrInv == ASSUME Inv, VirtioIntr PROVE Inv'
<1> DEFINE S == Waiters(Range(used)) \ Recovering
           N == {info[d] : d \in Range(used)}
<1>1. /\ UNCHANGED <<list, ondisk, free, info, avail, want, cur, idx, faults, leaked, unbalanced>>
      /\ used' = <<>>
      /\ buf' = [n \in Node |-> [buf[n] EXCEPT !.disk = @ /\ n \notin N]]
      /\ \/ unheard' = unheard \cup S /\ pc' = pc
         \/ unheard' = unheard /\ pc' = [q \in Proc |-> IF q \in S THEN "woken" ELSE pc[q]]
  BY DEF VirtioIntr, descs, bounds
<1>2. /\ buf \in [Node -> Buf] /\ pc \in [Proc -> Pc] /\ S \subseteq Proc
      /\ \A q \in S : pc[q] = "iowait" /\ idx[q][1] \in Range(used) /\ q \notin Recovering
      /\ \A q \in Proc \ Recovering : pc[q] = "iowait" /\ idx[q][1] \in Range(used) => q \in S
  BY DEF Inv, Types, Waiters
<1>3. \A q \in Proc : pc[q] \in InFlight =>
         cur[q] \in Node /\ idx[q][1] \in Desc /\ info[idx[q][1]] = cur[q]
  <2> SUFFICES ASSUME NEW q \in Proc, pc[q] \in InFlight
               PROVE  cur[q] \in Node /\ idx[q][1] \in Desc /\ info[idx[q][1]] = cur[q]
    OBVIOUS
  <2>1. cur[q] \in Node BY PlaceFacts DEF Inv, Locked
  <2>2. idx[q] # <<>> BY DEF Inv, PlaceInv, PlaceOK
  <2>3. idx[q][1] \in Desc BY <2>2, FirstOfChain DEF Inv
  <2>4. QED BY <2>1, <2>3 DEF Inv, RequestInv
<1>4. \A q \in Proc : pc[q] \in InFlight => (cur[q] \in N <=> idx[q][1] \in Range(used))
  <2> SUFFICES ASSUME NEW q \in Proc, pc[q] \in InFlight
               PROVE  cur[q] \in N <=> idx[q][1] \in Range(used)
    OBVIOUS
  <2>1. \A d \in Range(used) : d \in Desc BY DEF Inv, Types, Range
  <2>2. QED BY <1>3, <2>1, OneRequest
<1> HIDE DEF S, N
<1>5. /\ buf' \in [Node -> Buf]
      /\ \A n \in Node : /\ buf'[n].block = buf[n].block /\ buf'[n].owner = buf[n].owner
                         /\ buf'[n].refcnt = buf[n].refcnt
                         /\ buf'[n].disk = (buf[n].disk /\ n \notin N)
  <2>1. ASSUME NEW n \in Node
        PROVE  /\ buf'[n] \in Buf
               /\ buf'[n].block = buf[n].block /\ buf'[n].owner = buf[n].owner
               /\ buf'[n].refcnt = buf[n].refcnt
               /\ buf'[n].disk = (buf[n].disk /\ n \notin N)
    <3>1. PICK v \in BOOLEAN : v = (buf[n].disk /\ n \notin N) OBVIOUS
    <3>2. buf[n] \in Buf /\ buf'[n] = [buf[n] EXCEPT !.disk = v] BY <1>1, <1>2, <3>1
    <3>3. /\ buf'[n] \in Buf /\ buf'[n].block = buf[n].block /\ buf'[n].owner = buf[n].owner
          /\ buf'[n].refcnt = buf[n].refcnt /\ buf'[n].disk = v
      BY ONLY <3>2 DEF Buf
    <3>4. QED BY <3>1, <3>3
  <2>2. buf' = [n \in Node |-> buf'[n]] BY <1>1
  <2>3. QED BY <2>1, <2>2
<1>6. pc' \in [Proc -> Pc] /\ \A q \in Proc : pc'[q] = pc[q] \/ (q \in S /\ pc'[q] = "woken")
  BY <1>1, <1>2 DEF Pc, InSection, Locked, InFlight
<1>7. \A q \in Proc : pc'[q] = pc[q] \/ {pc[q], pc'[q]} = InFlight
  BY <1>2, <1>6 DEF InFlight
<1>8. used' \in Seq(Desc) /\ unheard' \subseteq Proc /\ Range(used') = {} /\ Pending' = Range(avail)
  BY <1>1, <1>2 DEF Inv, Types, Range, Pending
<1>9. \A q \in Proc : pc[q] \in InFlight /\ idx[q][1] \in Pending' => B(q)'.disk
  <2> SUFFICES ASSUME NEW q \in Proc, pc[q] \in InFlight, idx[q][1] \in Range(avail)
               PROVE  B(q)'.disk
    BY <1>8
  <2>1. B(q).disk BY DEF Inv, RequestInv, Pending
  <2>2. cur[q] \notin N BY <1>4 DEF Inv, RequestInv
  <2>3. QED BY <1>1, <1>3, <1>5, <2>1, <2>2 DEF B
<1>10. HeardInv'
  <2>1. \A q \in Proc : pc'[q] = "woken" /\ q \notin unheard' => ~B(q)'.disk
    <3> SUFFICES ASSUME NEW q \in Proc, pc'[q] = "woken", q \notin unheard' PROVE ~B(q)'.disk
      OBVIOUS
    <3>1. CASE q \in S
      <4>1. pc[q] \in InFlight /\ cur[q] \in N BY <1>2, <1>4, <3>1 DEF InFlight
      <4>2. cur'[q] = cur[q] /\ cur[q] \in Node BY <1>1, <1>3, <4>1
      <4>3. ~buf'[cur[q]].disk BY <1>5, <4>1, <4>2
      <4>4. QED BY <4>2, <4>3 DEF B
    <3>2. CASE q \notin S
      <4>1. pc[q] = "woken" /\ q \notin unheard BY <1>1, <1>6, <3>2
      <4>2. cur[q] \in Node /\ ~B(q).disk BY <1>3, <4>1 DEF InFlight, Inv, HeardInv
      <4>3. QED BY <1>1, <1>5, <4>2 DEF B
    <3>3. QED BY <3>1, <3>2
  <2>2. \A q \in Proc \ Recovering : pc'[q] = "iowait" => idx'[q][1] \in Pending' \/ q \in unheard'
    <3> SUFFICES ASSUME NEW q \in Proc \ Recovering, pc'[q] = "iowait", q \notin unheard'
                 PROVE  idx[q][1] \in Range(avail)
      BY <1>1, <1>8
    <3>1. q \notin S
      BY <1>1, <1>2
    <3>2. pc[q] = "iowait" /\ q \notin unheard BY <1>1, <1>6, <3>1
    <3>3. idx[q][1] \in Pending BY <3>2 DEF Inv, HeardInv
    <3>4. idx[q][1] \notin Range(used) BY <1>2, <3>1, <3>2
    <3>5. QED BY <3>3, <3>4 DEF Pending
  <2>3. QED BY <2>1, <2>2 DEF HeardInv
<1>11. Range(used') \subseteq Range(used) BY <1>8
<1>12. QED BY <1>1, <1>5, <1>6, <1>7, <1>8, <1>9, <1>10, <1>11, WaitStep

\* Who finds b->disk still set waits again: it was not told.
LEMMA VirtioAgainInv ==
    ASSUME Inv, NEW p \in Proc, VirtioDone(p), B(p).disk PROVE Inv'
<1>1. /\ pc[p] = "woken" /\ pc' = [pc EXCEPT ![p] = "iowait"]
      /\ UNCHANGED <<list, buf, ondisk, free, info, avail, used, want, cur, idx, faults,
                     unheard, leaked, unbalanced>>
  BY DEF VirtioDone, At, Goto, descs, rings, log, bounds, history
<1>2. /\ pc' \in [Proc -> Pc] /\ pc'[p] = "iowait" /\ \A q \in Proc : q # p => pc'[q] = pc[q]
      /\ buf' \in [Node -> Buf] /\ used' \in Seq(Desc) /\ unheard' \subseteq Proc
  BY <1>1 DEF Inv, Types, Pc, InSection, Locked, InFlight
<1>3. \A q \in Proc : pc'[q] = pc[q] \/ {pc[q], pc'[q]} = InFlight
  BY <1>1, <1>2 DEF InFlight
<1>4. \A q \in Proc : pc[q] \in InFlight /\ idx[q][1] \in Pending' => B(q)'.disk
  BY <1>1 DEF Inv, RequestInv, Pending, B
<1>5. HeardInv'
  <2>1. p \in unheard BY <1>1 DEF Inv, HeardInv
  <2>2. \A q \in Proc : pc'[q] = "woken" => pc[q] = "woken" BY <1>2
  <2>3. QED BY <1>1, <1>2, <2>1, <2>2 DEF Inv, HeardInv, B, Pending
<1>6. Range(used') \subseteq Range(used) BY <1>1
<1>7. QED BY <1>1, <1>2, <1>3, <1>4, <1>5, <1>6, WaitStep

\* A finished request's descriptors are freed when neither the device nor the
\* used ring has it.
LEMMA VirtioFreeInv ==
    ASSUME Inv, NEW p \in Proc, VirtioDone(p), ~B(p).disk PROVE Inv'
<1> USE NamesDiffer
<1> DEFINE n == cur[p]
           d == idx[p][1]
<1>1. pc[p] \in InFlight /\ pc[p] \in Locked /\ n \in Node /\ idx[p] # <<>> /\ d \in Desc
  <2>1. pc[p] \in InFlight BY DEF VirtioDone, At, InFlight
  <2>2. pc[p] \in Locked BY <2>1 DEF Locked
  <2>3. n \in Node BY <2>2, PlaceFacts DEF Inv
  <2>4. idx[p] # <<>> BY <2>1 DEF Inv, PlaceInv, PlaceOK
  <2>5. d \in Desc BY <2>4, FirstOfChain DEF Inv
  <2>6. QED BY <2>1, <2>2, <2>3, <2>4, <2>5
<1>2. /\ free' = free \cup Range(idx[p]) /\ info' = [info EXCEPT ![d] = NoNode]
      /\ idx' = [idx EXCEPT ![p] = <<>>]
      /\ buf' = [buf EXCEPT ![n].valid = @ \/ ~rw[p]]
      /\ pc' = [q \in Proc |-> IF q = p THEN IF rw[p] THEN "written" ELSE "hold"
                               ELSE IF q \in DescSleepers THEN "rw" ELSE pc[q]]
      /\ UNCHANGED <<list, ondisk, avail, used, want, cur, faults, unheard, leaked, unbalanced>>
  BY DEF VirtioDone, Chain, WakeAndGoto, rings, log, bounds, history
<1>3. d \notin Pending
  BY <1>1 DEF Inv, RequestInv
<1>4. /\ buf \in [Node -> Buf] /\ info \in [Desc -> Node \cup {NoNode}]
      /\ pc \in [Proc -> Pc] /\ idx \in [Proc -> Seq(Desc)] /\ free \subseteq Desc
  BY DEF Inv, Types
<1>5. /\ buf' \in [Node -> Buf]
      /\ \A m \in Node : /\ buf'[m].block = buf[m].block /\ buf'[m].owner = buf[m].owner
                         /\ buf'[m].refcnt = buf[m].refcnt /\ buf'[m].disk = buf[m].disk
  <2>1. PICK v \in BOOLEAN : v = (buf[n].valid \/ ~rw[p]) OBVIOUS
  <2>2. buf' = [buf EXCEPT ![n].valid = v] BY <1>2, <2>1
  <2> HIDE DEF n
  <2>3. QED BY ONLY <1>1, <1>4, <2>2 DEF Buf
<1>6. /\ pc' \in [Proc -> Pc] /\ pc'[p] \in {"written", "hold"}
      /\ \A q \in Proc : q # p => pc'[q] = pc[q] \/ (pc[q] = "descwait" /\ pc'[q] = "rw")
      /\ idx' \in [Proc -> Seq(Desc)] /\ idx'[p] = <<>> /\ \A q \in Proc : q # p => idx'[q] = idx[q]
      /\ info' \in [Desc -> Node \cup {NoNode}] /\ info'[d] = NoNode
      /\ \A e \in Desc : e # d => info'[e] = info[e]
      /\ free' \subseteq Desc
  <2>1. pc' \in [Proc -> Pc]
        /\ \A q \in Proc : q # p => pc'[q] = pc[q] \/ (pc[q] = "descwait" /\ pc'[q] = "rw")
    BY <1>2, <1>4 DEF Pc, InSection, Locked, DescSleepers
  <2>2. pc'[p] \in {"written", "hold"} BY <1>2
  <2>3. Range(idx[p]) \subseteq Desc BY <1>4 DEF Range
  <2>4. QED BY <1>1, <1>2, <1>4, <2>1, <2>2, <2>3
<1>7. \A q \in Proc : /\ pc'[q] \in InFlight <=> pc[q] \in InFlight /\ q # p
                      /\ pc'[q] \in InFlight => pc'[q] = pc[q]
                      /\ pc'[q] \in InSection <=> pc[q] \in InSection
                      /\ pc'[q] \in Locked <=> pc[q] \in Locked
                      /\ \A l \in {"idle", "enter", "insert", "solve"} : pc'[q] = l <=> pc[q] = l
  BY <1>1, <1>6 DEF InFlight, InSection, Locked
<1> HIDE DEF d, n
<1>8. Types' BY <1>2, <1>5, <1>6 DEF Inv, Types
<1>9. Surgeon' = Surgeon /\ Top' = Top
  <2>1. Surgeon' = Surgeon BY <1>7 DEF Surgeon
  <2>2. QED BY <1>2, <2>1 DEF Top
<1>10. ListInv'
  <2>1. \A e \in Desc : info'[e] # NoNode => info'[e] = info[e] BY <1>6
  <2>2. QED BY <1>2, <1>5, <1>9, <2>1 DEF Inv, ListInv
<1>11. \A q \in Proc : pc[q] # "idle" => cur[q] \in Node BY PlaceFacts DEF Inv
<1>12. PlaceInv'
  <2> SUFFICES ASSUME NEW q \in Proc PROVE PlaceOK(q)' BY DEF PlaceInv
  <2>1. PlaceOK(q) BY DEF Inv, PlaceInv
  <2>2. pc[q] \in Locked => buf'[cur[q]].owner = buf[cur[q]].owner
    BY <1>5, <1>11 DEF Locked, InFlight
  <2>3. pc'[q] \in {"insert", "solve"} <=> pc[q] \in {"insert", "solve"} BY <1>7
  <2>4. idx'[q] # <<>> => q # p /\ idx'[q] = idx[q] BY <1>6
  <2>5. q # p => idx'[q] = idx[q] BY <1>6
  <2>6. QED BY <1>2, <1>7, <2>1, <2>2, <2>3, <2>4, <2>5 DEF PlaceOK
<1>13. DescInv'
  <2>1. Range(idx'[p]) = {} BY <1>6 DEF Range
  <2>2. \A e \in Desc : e \in free' \/ e \in leaked' \/ \E q \in Proc : e \in Range(idx'[q])
    <3> TAKE e \in Desc
    <3>1. CASE e \in free \/ e \in leaked BY <1>2, <3>1
    <3>2. CASE \E q \in Proc : e \in Range(idx[q]) BY <1>2, <1>6, <3>2
    <3>3. QED BY <3>1, <3>2 DEF Inv, DescInv
  <2>3. free' \cap leaked' = {} BY <1>2 DEF Inv, DescInv
  <2>4. \A q \in Proc : Range(idx'[q]) \cap (free' \cup leaked') = {}
    <3> TAKE q \in Proc
    <3>1. CASE q = p BY <2>1, <3>1
    <3>2. CASE q # p
      <4>1. idx'[q] = idx[q] BY <1>6, <3>2
      <4>2. Range(idx[q]) \cap (free \cup leaked) = {} /\ Range(idx[q]) \cap Range(idx[p]) = {}
        BY <3>2 DEF Inv, DescInv
      <4>3. QED BY <1>2, <4>1, <4>2
    <3>3. QED BY <3>1, <3>2
  <2>5. \A q, r \in Proc : q # r => Range(idx'[q]) \cap Range(idx'[r]) = {}
    BY <1>6, <2>1 DEF Inv, DescInv
  <2>6. QED BY <2>2, <2>3, <2>4, <2>5 DEF DescInv
<1>14. \A q \in Proc : q # p /\ idx[q] # <<>> => idx[q][1] # d /\ idx[q][1] \in Desc
  BY <1>1, FirstsDiffer DEF Inv, d
<1>15. \A q \in Proc : pc[q] \in InFlight => idx[q] # <<>> BY DEF Inv, PlaceInv, PlaceOK
<1>16. Pending' = Pending BY <1>2 DEF Pending
<1>17. RequestInv'
  <2>1. \A q \in Proc : pc'[q] \in InFlight =>
          info'[idx'[q][1]] = cur'[q] /\ (idx'[q][1] \in Pending' => B(q)'.disk)
    <3> SUFFICES ASSUME NEW q \in Proc, pc'[q] \in InFlight
                 PROVE  info'[idx'[q][1]] = cur'[q] /\ (idx'[q][1] \in Pending' => B(q)'.disk)
      OBVIOUS
    <3>1. q # p /\ pc[q] \in InFlight /\ idx'[q] = idx[q] /\ cur'[q] = cur[q] BY <1>2, <1>6, <1>7
    <3>2. idx[q][1] # d /\ idx[q][1] \in Desc BY <1>14, <1>15, <3>1
    <3>3. cur[q] \in Node BY <1>11, <3>1 DEF InFlight
    <3>4. info[idx[q][1]] = cur[q] /\ (idx[q][1] \in Pending => B(q).disk)
      BY <3>1 DEF Inv, RequestInv
    <3>5. QED BY <1>5, <1>6, <1>16, <3>1, <3>2, <3>3, <3>4 DEF B
  <2>2. \A e \in Desc : info'[e] # NoNode =>
          \/ info'[e] \notin Range(list')
          \/ \E q \in Proc : pc'[q] \in InFlight /\ idx'[q][1] = e /\ cur'[q] = info'[e]
    <3> SUFFICES ASSUME NEW e \in Desc, info'[e] # NoNode, info'[e] \in Range(list)
                 PROVE  \E q \in Proc : pc'[q] \in InFlight /\ idx'[q][1] = e /\ cur'[q] = info'[e]
      BY <1>2
    <3>1. e # d /\ info'[e] = info[e] BY <1>6
    <3>2. PICK q \in Proc : pc[q] \in InFlight /\ idx[q][1] = e /\ cur[q] = info[e]
      BY <3>1 DEF Inv, RequestInv
    <3>3. q # p BY <3>1, <3>2 DEF d
    <3>4. QED BY <1>2, <1>6, <1>7, <3>1, <3>2, <3>3
  <2>3. \A e \in Pending' : e \in leaked' \/ \E q \in Proc : idx'[q] # <<>> /\ idx'[q][1] = e
    <3> TAKE e \in Pending'
    <3>1. e \in Pending /\ e # d BY <1>3, <1>16 DEF d
    <3>2. CASE e \in leaked BY <1>2, <3>2
    <3>3. CASE \E q \in Proc : idx[q] # <<>> /\ idx[q][1] = e
      <4>1. PICK q \in Proc : idx[q] # <<>> /\ idx[q][1] = e BY <3>3
      <4>2. q # p BY <3>1, <4>1 DEF d
      <4>3. QED BY <1>6, <4>1, <4>2
    <3>4. QED BY <3>1, <3>2, <3>3 DEF Inv, RequestInv
  <2>4. \A e \in Pending' : info'[e] # NoNode
    <3>1. \A e \in Pending : e \in Desc /\ e # d BY <1>3, PendingHeld DEF d
    <3>2. QED BY <1>6, <1>16, <3>1 DEF Inv, RequestInv
  <2>5. \A e \in Desc : info'[e] # NoNode => buf'[info'[e]].block # NoBlock
    <3> SUFFICES ASSUME NEW e \in Desc, info'[e] # NoNode PROVE buf'[info'[e]].block # NoBlock
      OBVIOUS
    <3>1. info'[e] = info[e] /\ info[e] \in Node BY <1>4, <1>6
    <3>2. QED BY <1>5, <3>1 DEF Inv, RequestInv
  <2>6. QED BY <1>2, <2>1, <2>2, <2>3, <2>4, <2>5 DEF Inv, RequestInv
<1>18. HeardInv'
  <2>1. \A q \in Proc : pc'[q] = "woken" /\ q \notin unheard' => ~B(q)'.disk
    <3> SUFFICES ASSUME NEW q \in Proc, pc'[q] = "woken", q \notin unheard' PROVE ~B(q)'.disk
      OBVIOUS
    <3>1. pc[q] = "woken" /\ cur'[q] = cur[q] /\ cur[q] \in Node BY <1>2, <1>7, <1>11 DEF InFlight
    <3>2. QED BY <1>2, <1>5, <3>1 DEF Inv, HeardInv, B
  <2>2. \A q \in Proc \ Recovering : pc'[q] = "iowait" => idx'[q][1] \in Pending' \/ q \in unheard'
    <3> SUFFICES ASSUME NEW q \in Proc \ Recovering, pc'[q] = "iowait"
                 PROVE  idx'[q][1] \in Pending' \/ q \in unheard'
      OBVIOUS
    <3>1. pc[q] = "iowait" /\ q # p /\ idx'[q] = idx[q] BY <1>6, <1>7 DEF InFlight
    <3>2. QED BY <1>2, <1>16, <3>1 DEF Inv, HeardInv
  <2>3. QED BY <2>1, <2>2 DEF HeardInv
<1>19. BlockInv'
  <2>1. \A m \in Range(list) : m \in Node BY DEF Range, Inv, Types
  <2>2. \A q \in Proc : pc'[q] \in InSection \cup {"enter"} =>
          /\ pc[q] \in InSection \cup {"enter"}
          /\ B(q)'.block = B(q).block
    <3>1. \A q \in Proc : pc'[q] \in InSection \cup {"enter"} => pc[q] \in InSection \cup {"enter"}
      BY <1>7
    <3>2. QED BY <1>2, <1>5, <1>11, <3>1 DEF B, InSection, Locked, InFlight
  <2>3. \A m : Users(m)' = Users(m) BY <1>2 DEF Users
  <2>4. \A m, k \in Range(list') :
          buf'[m].block = buf'[k].block /\ buf'[m].block # NoBlock => m = k
    BY <1>2, <1>5, <2>1 DEF Inv, BlockInv
  <2>5. ~unbalanced' => \A m \in Range(list') : buf'[m].refcnt >= Cardinality(Users(m)')
    BY <1>2, <1>5, <2>1, <2>3 DEF Inv, BlockInv
  <2>6. QED BY <1>2, <2>2, <2>4, <2>5 DEF Inv, BlockInv
<1>20. QED BY <1>8, <1>10, <1>12, <1>13, <1>17, <1>18, <1>19 DEF Inv

-----------------------------------------------------------------------------
(* brelse *)

\* A node taken out of the list.
LEMMA UnlinkedFacts ==
    ASSUME Types, NEW n \in Range(list)
    PROVE  /\ Unlinked(n) \in Seq(Node) /\ IsInjective(Unlinked(n))
           /\ Range(Unlinked(n)) = Range(list) \ {n} /\ Len(Unlinked(n)) = Len(list) - 1
<1> DEFINE i == CHOOSE j \in DOMAIN list : list[j] = n
<1>1. i \in DOMAIN list /\ list[i] = n BY DEF Range
<1>2. Unlinked(n) = RemoveAt(list, i) BY DEF Unlinked
<1> HIDE DEF i
<1>3. list \in Seq(Node) /\ IsInjective(list) /\ i \in 1..Len(list) BY <1>1 DEF Types
<1>4. QED BY <1>1, <1>2, <1>3, RemoveAtIndex, RemoveAtRange

\* A node moved to the front.
LEMMA MoveToFrontFacts ==
    ASSUME Types, NEW n \in Range(list)
    PROVE  /\ MoveToFront(n) \in Seq(Node) /\ IsInjective(MoveToFront(n))
           /\ Range(MoveToFront(n)) = Range(list) /\ Len(MoveToFront(n)) = Len(list)
<1> DEFINE u == Unlinked(n)
<1>1. /\ u \in Seq(Node) /\ IsInjective(u) /\ Range(u) = Range(list) \ {n} /\ Len(u) = Len(list) - 1
      /\ Len(list) \in Nat /\ n \in Node
  <2>1. Len(list) \in Nat /\ n \in Node BY DEF Types, Range
  <2>2. QED BY <2>1, UnlinkedFacts
<1>2. MoveToFront(n) = <<n>> \o u BY DEF MoveToFront
<1> HIDE DEF u
<1>3. /\ <<n>> \o u \in Seq(Node) /\ Len(<<n>> \o u) = Len(u) + 1
      /\ Range(<<n>> \o u) = Range(u) \cup {n} /\ IsInjective(<<n>> \o u)
  BY <1>1, PrependRange
<1>4. Range(u) \cup {n} = Range(list) BY <1>1
<1>5. Len(u) + 1 = Len(list) BY <1>1
<1>6. QED BY <1>2, <1>3, <1>4, <1>5

\* brelse drops its own reference only, and leaves every node in the list.
LEMMA BrelseInv == ASSUME Inv, NEW p \in Proc, Brelse(p) PROVE Inv'
<1> USE NamesDiffer
<1>0. PICK n : n = cur[p] OBVIOUS
<1>1. pc[p] = "unref" /\ n \in Node /\ n \in Range(list) /\ idx[p] = <<>>
  <2>1. pc[p] = "unref" BY DEF Brelse, At
  <2>2. n \in Node BY <1>0, <2>1, PlaceFacts DEF Inv
  <2>3. QED BY <1>0, <2>1, <2>2 DEF Inv, PlaceInv, PlaceOK, InSection, InFlight
<1>2. /\ buf' = [buf EXCEPT ![n].refcnt = @ - 1]
      /\ list' \in {MoveToFront(n), list}
      /\ cur' = [cur EXCEPT ![p] = NoNode] /\ want' = [want EXCEPT ![p] = NoBlock]
      /\ pc' = [pc EXCEPT ![p] = "idle"]
      /\ UNCHANGED <<ondisk, free, info, avail, used, idx, faults, unheard, leaked, unbalanced>>
  BY <1>0 DEF Brelse, Goto, disk, descs, rings, log, bounds, history
<1>3. /\ list' \in Seq(Node) /\ IsInjective(list') /\ Range(list') = Range(list)
      /\ Len(list') = Len(list)
  BY <1>1, <1>2, MoveToFrontFacts DEF Inv, Types
<1>4. /\ buf \in [Node -> Buf] /\ pc \in [Proc -> Pc] /\ cur \in [Proc -> Node \cup {NoNode}]
      /\ want \in [Proc -> Block \cup {NoBlock}]
  BY DEF Inv, Types
<1>5. /\ buf' \in [Node -> Buf]
      /\ \A m \in Node : /\ buf'[m].block = buf[m].block /\ buf'[m].owner = buf[m].owner
                         /\ buf'[m].disk = buf[m].disk
                         /\ m # n => buf'[m] = buf[m]
      /\ buf'[n].refcnt = buf[n].refcnt - 1 /\ buf[n].refcnt \in Int
  <2>1. buf[n].refcnt \in Int BY <1>1, <1>4 DEF Buf
  <2>2. PICK c \in Int : c = buf[n].refcnt - 1 BY <2>1
  <2>3. buf' = [buf EXCEPT ![n].refcnt = c] BY <1>2, <2>2
  <2>4. /\ buf' \in [Node -> Buf] /\ buf'[n].refcnt = c
        /\ \A m \in Node : /\ buf'[m].block = buf[m].block /\ buf'[m].owner = buf[m].owner
                           /\ buf'[m].disk = buf[m].disk
                           /\ m # n => buf'[m] = buf[m]
    BY ONLY <1>1, <1>4, <2>3 DEF Buf
  <2>5. QED BY <2>1, <2>2, <2>4
<1>6. /\ pc' \in [Proc -> Pc] /\ pc'[p] = "idle" /\ \A q \in Proc : q # p => pc'[q] = pc[q]
      /\ cur' \in [Proc -> Node \cup {NoNode}] /\ cur'[p] = NoNode
      /\ \A q \in Proc : q # p => cur'[q] = cur[q]
      /\ want' \in [Proc -> Block \cup {NoBlock}] /\ \A q \in Proc : q # p => want'[q] = want[q]
  BY <1>2, <1>4 DEF Pc
<1>7. Types' BY <1>2, <1>3, <1>5, <1>6 DEF Inv, Types
<1>8. Surgeon' = Surgeon /\ Top' = Top
  <2>1. Surgeon' = Surgeon BY <1>1, <1>6 DEF Surgeon
  <2>2. QED BY <1>2, <2>1 DEF Top
<1>9. ListInv'
  <2>1. Top \in Int BY NamesDiffer DEF Inv, Types, Top
  <2>2. n <= Top BY <1>1 DEF Inv, ListInv
  <2>3. \A m \in Node : m > Top => buf'[m] = buf[m] BY <1>1, <1>5, <2>1, <2>2
  <2>4. \A q \in Proc : cur'[q] # NoNode => cur'[q] <= Top BY <1>6 DEF Inv, ListInv
  <2>5. QED BY <1>2, <1>3, <1>8, <2>3, <2>4 DEF Inv, ListInv
<1>10. \A q \in Proc : pc[q] # "idle" => cur[q] \in Node BY PlaceFacts DEF Inv
<1>11. PlaceInv'
  <2> SUFFICES ASSUME NEW q \in Proc PROVE PlaceOK(q)' BY DEF PlaceInv
  <2>1. PlaceOK(q) BY DEF Inv, PlaceInv
  <2>2. CASE q = p
    BY <1>1, <1>2, <1>6, <2>2 DEF PlaceOK, InSection, Locked, InFlight
  <2>3. CASE q # p
    <3>1. pc'[q] = pc[q] /\ cur'[q] = cur[q] /\ idx'[q] = idx[q] BY <1>2, <1>6, <2>3
    <3>2. pc[q] \in Locked => buf'[cur[q]].owner = buf[cur[q]].owner
      BY <1>5, <1>10 DEF Locked, InFlight
    <3>3. QED BY <1>3, <2>1, <3>1, <3>2 DEF PlaceOK
  <2>4. QED BY <2>2, <2>3
<1>12. DescInv' BY <1>2 DEF Inv, DescInv
<1>13. Pending' = Pending BY <1>2 DEF Pending
<1>14. \A q \in Proc : /\ pc'[q] \in InFlight <=> pc[q] \in InFlight
                       /\ pc'[q] \in InFlight => q # p /\ pc'[q] = pc[q] /\ cur'[q] = cur[q]
                                                 /\ cur[q] \in Node
  BY <1>1, <1>6, <1>10 DEF InFlight
<1>15. RequestInv'
  <2>1. \A q \in Proc : pc'[q] \in InFlight =>
          info'[idx'[q][1]] = cur'[q] /\ (idx'[q][1] \in Pending' => B(q)'.disk)
    BY <1>2, <1>5, <1>13, <1>14 DEF Inv, RequestInv, B
  <2>2. \A e \in Desc : info'[e] # NoNode =>
          \/ info'[e] \notin Range(list')
          \/ \E q \in Proc : pc'[q] \in InFlight /\ idx'[q][1] = e /\ cur'[q] = info'[e]
    BY <1>2, <1>3, <1>14 DEF Inv, RequestInv
  <2>3. \A e \in Desc : info'[e] # NoNode => buf'[info'[e]].block # NoBlock
    <3>1. \A e \in Desc : info[e] # NoNode => info[e] \in Node BY DEF Inv, Types
    <3>2. QED BY <1>2, <1>5, <3>1 DEF Inv, RequestInv
  <2>4. QED BY <1>2, <1>13, <2>1, <2>2, <2>3 DEF Inv, RequestInv
<1>16. HeardInv'
  <2>1. \A q \in Proc : pc'[q] = "woken" => pc[q] = "woken" /\ B(q)'.disk = B(q).disk
    BY <1>5, <1>14 DEF B, InFlight
  <2>2. \A q \in Proc : pc'[q] = "iowait" => pc[q] = "iowait" BY <1>14 DEF InFlight
  <2>3. QED BY <1>2, <1>13, <2>1, <2>2 DEF Inv, HeardInv
<1>17. BlockInv'
  <2>1. \A m \in Range(list) : m \in Node BY <1>4 DEF Range, Inv, Types
  <2>2. \A q \in Proc : pc'[q] \in InSection \cup {"enter"} =>
          /\ pc[q] \in InSection \cup {"enter"} /\ cur'[q] = cur[q] /\ want'[q] = want[q]
          /\ B(q)'.block = B(q).block
    <3> SUFFICES ASSUME NEW q \in Proc, pc'[q] \in InSection \cup {"enter"}
                 PROVE  /\ pc[q] \in InSection \cup {"enter"} /\ cur'[q] = cur[q] /\ want'[q] = want[q]
                        /\ B(q)'.block = B(q).block
      OBVIOUS
    <3>1. q # p BY <1>6 DEF InSection, Locked, InFlight
    <3>2. pc[q] \in InSection \cup {"enter"} /\ cur'[q] = cur[q] /\ want'[q] = want[q] BY <1>6, <3>1
    <3>3. cur[q] \in Node BY <1>10, <3>2 DEF InSection, Locked, InFlight
    <3>4. QED BY <1>5, <3>2, <3>3 DEF B
  <2>3. Users(n)' = Users(n) \ {p} /\ p \in Users(n) /\ \A m \in Node : m # n => Users(m)' = Users(m)
    BY <1>0, <1>1, <1>6 DEF Users
  <2>4. Cardinality(Users(n)') = Cardinality(Users(n)) - 1 /\ Cardinality(Users(n)) \in Nat
    <3>1. IsFiniteSet(Users(n)) /\ Cardinality(Users(n)) \in Nat BY UsersFinite
    <3>2. Cardinality(Users(n) \ {p}) = Cardinality(Users(n)) - 1
      BY <2>3, <3>1, FS_RemoveElement
    <3>3. QED BY <2>3, <3>1, <3>2
  <2>5. \A m, k \in Range(list') :
          buf'[m].block = buf'[k].block /\ buf'[m].block # NoBlock => m = k
    BY <1>3, <1>5, <2>1 DEF Inv, BlockInv
  <2>6. ASSUME ~unbalanced, NEW m \in Range(list) PROVE buf'[m].refcnt >= Cardinality(Users(m)')
    <3>1. buf[m].refcnt >= Cardinality(Users(m)) BY <2>6 DEF Inv, BlockInv
    <3>2. CASE m = n
      <4>1. Cardinality(Users(m)') = Cardinality(Users(n)) - 1 BY <2>4, <3>2
      <4>2. buf'[m].refcnt = buf[n].refcnt - 1 BY <1>5, <3>2
      <4>3. QED BY <1>5, <2>4, <3>1, <3>2, <4>1, <4>2
    <3>3. CASE m # n BY <1>5, <2>1, <2>3, <3>1, <3>3
    <3>4. QED BY <3>2, <3>3
  <2>7. QED BY SMTT(60), <1>2, <1>3, <2>2, <2>5, <2>6 DEF Inv, BlockInv
<1>18. QED BY <1>7, <1>9, <1>11, <1>12, <1>15, <1>16, <1>17 DEF Inv

-----------------------------------------------------------------------------
(* recovery_handler_buf *)

\* check_and_count_procs_in_rcs: when the victim is the only one it counts,
\* nobody else is in the section of the broken node.
LEMMA OnlyVictim ==
    ASSUME NEW n, ~(Cardinality(InRcs(n)) > 1), NEW p \in InRcs(n), NEW q \in InRcs(n)
    PROVE  p = q
<1> SUFFICES ASSUME p # q PROVE FALSE OBVIOUS
<1>1. IsFiniteSet(InRcs(n)) /\ Cardinality(InRcs(n)) \in Nat
  <2>1. InRcs(n) \subseteq Proc /\ IsFiniteSet(Proc) BY BcacheAssumption DEF InRcs
  <2>2. IsFiniteSet(InRcs(n)) BY <2>1, FS_Subset
  <2>3. QED BY <2>2, FS_CardinalityType
<1>2. IsFiniteSet({p}) /\ Cardinality({p}) = 1 BY FS_Singleton
<1>3. Cardinality({p} \cup {q}) = Cardinality({p}) + 1
  <2>1. q \notin {p} OBVIOUS
  <2>2. QED BY <1>2, <2>1, FS_AddElement, Zenon
<1>4. {p} \cup {q} \in SUBSET InRcs(n) OBVIOUS
<1>5. Cardinality({p} \cup {q}) <= Cardinality(InRcs(n)) BY <1>1, <1>4, FS_Subset
<1>6. QED BY <1>1, <1>2, <1>3, <1>5

\* The handler takes the broken node out of the list, or the system stops.
LEMMA StartRecoveryInv ==
    ASSUME Inv, NEW p \in Proc, NEW n \in Range(list), StartRecovery(p, n),
           \/ cur[p] = n /\ pc[p] \in {"lock", "rw", "woken", "hold"}
           \/ pc[p] = "idle" /\ Users(n) = {}
    PROVE  Inv'
<1> USE NamesDiffer
<1>1. /\ faults' = faults + 1 /\ faults < MaxFault /\ Surgeon = {}
      /\ UNCHANGED <<buf, ondisk, free, info, avail, used, want, idx, unheard, leaked, unbalanced>>
  BY DEF StartRecovery, MayEnterBcache, Surgeon, disk, descs, rings
<1>2. faults \in Nat /\ faults' \in 0..MaxFault /\ Top = NBUF + faults /\ Top \in Int
  BY <1>1 DEF Inv, Types, Top
<1>3. n \in Node /\ n <= Top BY DEF Inv, Types, ListInv, Range
<1>4. Pending' = Pending BY <1>1 DEF Pending
<1>5. CASE UNCHANGED <<list, pc, cur>>
  <2>1. Types' BY <1>1, <1>2, <1>5 DEF Inv, Types
  <2>2. Surgeon' = {} BY <1>1, <1>5 DEF Surgeon
  <2>3. Top' = Top + 1 BY <1>1, <1>2, <2>2 DEF Top
  <2>4. ListInv'
    <3>1. Len(list') = NBUF - (IF Surgeon' = {} THEN 0 ELSE 1)
      BY <1>1, <1>5, <2>2 DEF Inv, ListInv
    <3>2. \A x \in Int : x <= Top => x <= Top' BY <1>2, <2>3
    <3>3. \A x \in Int : x > Top' => x > Top BY <1>2, <2>3
    <3>4. \A m \in Range(list') : m <= Top'
      <4>3. \A m \in Range(list) : m \in Node BY DEF Inv, Types, Range
      <4>1. \A m \in Range(list) : m \in Int BY <4>3
      <4>2. QED BY <1>5, <3>2, <4>1 DEF Inv, ListInv
    <3>5. \A q \in Proc : cur'[q] # NoNode => cur'[q] <= Top' BY <1>5, <3>2 DEF Inv, ListInv, Types
    <3>6. \A d \in Desc : info'[d] # NoNode => info'[d] <= Top'
      BY <1>1, <3>2 DEF Inv, ListInv, Types
    <3>7. \A m \in Node : m > Top' => buf'[m].block = NoBlock /\ buf'[m].refcnt = 0
      BY <1>1, <3>3 DEF Inv, ListInv
    <3>8. QED BY <2>2, <3>1, <3>4, <3>5, <3>6, <3>7 DEF ListInv
  <2>5. PlaceInv' BY <1>1, <1>5 DEF Inv, PlaceInv, PlaceOK
  <2>6. DescInv' BY <1>1 DEF Inv, DescInv
  <2>7. RequestInv' BY <1>1, <1>4, <1>5 DEF Inv, RequestInv, B
  <2>8. HeardInv' BY <1>1, <1>4, <1>5 DEF Inv, HeardInv, B
  <2>9. BlockInv' BY <1>1, <1>5 DEF Inv, BlockInv, B, Users
  <2>10. QED BY <2>1, <2>4, <2>5, <2>6, <2>7, <2>8, <2>9 DEF Inv
<1>6. CASE /\ ~(Cardinality(InRcs(n)) > 1)
           /\ list' = Unlinked(n) /\ cur' = [cur EXCEPT ![p] = n] /\ pc' = [pc EXCEPT ![p] = "insert"]
  <2>1. /\ list' \in Seq(Node) /\ IsInjective(list') /\ Range(list') = Range(list) \ {n}
        /\ Len(list') = Len(list) - 1
    BY <1>6, UnlinkedFacts DEF Inv
  <2>2. /\ pc' \in [Proc -> Pc] /\ pc'[p] = "insert" /\ \A q \in Proc : q # p => pc'[q] = pc[q]
        /\ cur' \in [Proc -> Node \cup {NoNode}] /\ cur'[p] = n
        /\ \A q \in Proc : q # p => cur'[q] = cur[q]
    BY <1>3, <1>6 DEF Inv, Types, Pc
  <2>3. \A q \in Proc : q # p /\ pc[q] \in InSection => cur[q] # n
    <3> SUFFICES ASSUME NEW q \in Proc, q # p, pc[q] \in InSection, cur[q] = n PROVE FALSE
      OBVIOUS
    <3>1. Users(n) # {} BY DEF Users
    <3>2. p \in InRcs(n) /\ q \in InRcs(n) BY <3>1 DEF InRcs, InSection, Locked, InFlight
    <3>3. QED BY <1>6, <3>2, OnlyVictim
  <2>4. Types' BY <1>1, <1>2, <2>1, <2>2 DEF Inv, Types
  <2>5. Surgeon' = {p} BY <1>1, <2>2 DEF Surgeon
  <2>6. Top' = Top BY <1>1, <1>2, <2>5 DEF Top
  <2>7. ListInv'
    <3>1. Len(list') = NBUF - (IF Surgeon' = {} THEN 0 ELSE 1)
      <4>1. Len(list) = NBUF BY <1>1 DEF Inv, ListInv
      <4>2. QED BY <2>1, <2>5, <4>1
    <3>2. \A q \in Proc : cur'[q] # NoNode => cur'[q] <= Top BY <1>3, <2>2 DEF Inv, ListInv
    <3>3. faults' > 0 BY <1>1, <1>2
    <3>4. QED BY <1>1, <2>1, <2>5, <2>6, <3>1, <3>2, <3>3 DEF Inv, ListInv
  <2>8. PlaceInv'
    <3> SUFFICES ASSUME NEW q \in Proc PROVE PlaceOK(q)' BY DEF PlaceInv
    <3>1. PlaceOK(q) BY DEF Inv, PlaceInv
    <3>2. CASE q = p
      <4>1. pc'[q] = "insert" /\ cur'[q] = n /\ idx'[q] = idx[q] BY <1>1, <2>2, <3>2
      <4>2. QED BY <1>3, <2>1, <3>1, <4>1 DEF PlaceOK, InSection, Locked, InFlight
    <3>3. CASE q # p
      <4>1. pc'[q] = pc[q] /\ cur'[q] = cur[q] /\ idx'[q] = idx[q] BY <1>1, <2>2, <3>3
      <4>2. QED BY <1>1, <2>1, <2>3, <3>1, <3>3, <4>1 DEF PlaceOK
    <3>4. QED BY <3>2, <3>3
  <2>9. DescInv' BY <1>1 DEF Inv, DescInv
  <2>10. \A q \in Proc : /\ pc'[q] \in InFlight => q # p /\ pc'[q] = pc[q] /\ cur'[q] = cur[q]
                         /\ pc[q] \in InFlight /\ q # p => pc'[q] \in InFlight /\ cur'[q] = cur[q]
    BY <2>2 DEF InFlight
  <2>11. RequestInv'
    <3>1. \A q \in Proc : pc'[q] \in InFlight =>
          info'[idx'[q][1]] = cur'[q] /\ (idx'[q][1] \in Pending' => B(q)'.disk)
      BY <1>1, <1>4, <2>10 DEF Inv, RequestInv, B
    <3>2. \A e \in Desc : info'[e] # NoNode =>
          \/ info'[e] \notin Range(list')
          \/ \E q \in Proc : pc'[q] \in InFlight /\ idx'[q][1] = e /\ cur'[q] = info'[e]
      <4> SUFFICES ASSUME NEW e \in Desc, info[e] # NoNode, info[e] \in Range(list), info[e] # n
                   PROVE  \E q \in Proc : pc'[q] \in InFlight /\ idx'[q][1] = e /\ cur'[q] = info'[e]
        BY <1>1, <2>1
      <4>1. PICK q \in Proc : pc[q] \in InFlight /\ idx[q][1] = e /\ cur[q] = info[e]
        BY DEF Inv, RequestInv
      <4>2. q # p
        BY <4>1 DEF InFlight
      <4>3. QED BY <1>1, <2>10, <4>1, <4>2
    <3>3. QED BY <1>1, <1>4, <3>1, <3>2 DEF Inv, RequestInv
  <2>12. HeardInv'
    <3>1. \A q \in Proc : /\ pc'[q] = "woken" => pc[q] = "woken" /\ B(q)'.disk = B(q).disk
                          /\ pc'[q] = "iowait" => pc[q] = "iowait"
      BY <1>1, <2>10 DEF B, InFlight
    <3>2. QED BY <1>1, <1>4, <3>1 DEF Inv, HeardInv
  <2>13. BlockInv'
    <3>1. \A q \in Proc : pc'[q] \in InSection \cup {"enter"} =>
            /\ pc[q] \in InSection \cup {"enter"} /\ cur'[q] = cur[q] /\ B(q)' = B(q)
      BY <1>1, <2>2 DEF B, InSection, Locked, InFlight
    <3>2. \A m \in Node : m # n => Users(m)' = Users(m)
      <4> SUFFICES ASSUME NEW m \in Node, m # n PROVE \A q \in Proc : cur'[q] = m <=> cur[q] = m
        BY DEF Users
      <4>1. \A q \in Proc : q # p => cur'[q] = cur[q] BY <2>2
      <4>2. cur[p] = m => m = NoNode
        BY DEF Inv, PlaceInv, PlaceOK
      <4>3. QED BY <2>2, <4>1, <4>2
    <3>4. \A m \in Range(list) : m \in Node BY DEF Inv, Types, Range
    <3>3. QED BY <1>1, <2>1, <3>1, <3>2, <3>4 DEF Inv, BlockInv
  <2>14. QED BY <2>4, <2>7, <2>8, <2>9, <2>11, <2>12, <2>13 DEF Inv
<1>7. QED BY <1>5, <1>6 DEF StartRecovery, Goto

\* A memory error in a buffer that its only user has, or in an unused one.
LEMMA HitInv == ASSUME Inv, NEW p \in Proc, Hit(p) PROVE Inv'
<1>1. /\ pc[p] \in {"lock", "rw", "woken", "hold"} /\ cur[p] \in Range(list)
      /\ StartRecovery(p, cur[p])
  BY DEF Hit, At
<1>2. QED BY <1>1, StartRecoveryInv

\* The scan of bget meets a broken buffer.
LEMMA ScanHitInv == ASSUME Inv, NEW p \in Proc, NEW i, ScanHit(p, i) PROVE Inv'
<1>1. /\ pc[p] = "idle" /\ i \in DOMAIN list /\ Users(list[i]) = {} /\ StartRecovery(p, list[i])
  BY DEF ScanHit, At, Unused
<1>2. list[i] \in Range(list) BY <1>1 DEF Range
<1>3. QED BY <1>1, <1>2, StartRecoveryInv

\* The new node is one that nobody has seen.
LEMMA InsertNewInv == ASSUME Inv, NEW p \in Proc, InsertNew(p) PROVE Inv'
<1> USE NamesDiffer
<1> DEFINE new == NBUF + faults
<1>1. /\ pc[p] = "insert"
      /\ list' = Append(list, new)
      /\ buf' = [n \in Node |-> IF buf[n].owner = p THEN [buf[n] EXCEPT !.owner = NoProc] ELSE buf[n]]
      /\ UNCHANGED <<ondisk, free, info, avail, used, want, cur, idx, faults, unheard, leaked, unbalanced>>
  BY DEF InsertNew, At, disk, descs, rings, log, bounds, history
<1>2. /\ pc' \in [Proc -> Pc] /\ pc'[p] = "solve"
      /\ \A q \in Proc : q # p => pc'[q] = pc[q] \/ (pc[q] = "lockwait" /\ pc'[q] = "lock")
  BY DEF InsertNew, WakeAndGoto, Inv, Types, Pc, InSection
<1>3. Surgeon = {p} /\ faults > 0 /\ faults \in Nat /\ faults <= MaxFault
  BY <1>1 DEF Surgeon, Inv, ListInv, Types
<1>4. Top = NBUF + faults - 1 /\ new \in Node /\ new > Top /\ Top \in Int
  <2>1. Top = NBUF + faults - 1 BY <1>3 DEF Top
  <2>2. new \in Node BY <1>3 DEF Node
  <2>3. QED BY <1>3, <2>1, <2>2
<1>5. Surgeon' = {}
  <2>1. \A q \in Proc : pc'[q] = "insert" => q # p /\ pc[q] = "insert" BY <1>2
  <2>2. QED BY <1>3, <2>1 DEF Surgeon
<1>6. Top' = new /\ new = Top + 1 BY <1>1, <1>3, <1>4, <1>5 DEF Top
<1>7. /\ list \in Seq(Node) /\ IsInjective(list) /\ buf \in [Node -> Buf]
      /\ \A m \in Range(list) : m \in Node /\ m <= Top
  BY DEF Inv, Types, ListInv, Range
<1> HIDE DEF new
<1>8. new \notin Range(list) /\ \A q \in Proc : cur[q] # new
  <2>1. new \notin Range(list) BY <1>4, <1>7
  <2>2. \A q \in Proc : cur[q] = new => cur[q] <= Top BY <1>4 DEF Inv, ListInv
  <2>3. QED BY <1>4, <2>1, <2>2
<1>9. /\ list' \in Seq(Node) /\ IsInjective(list') /\ Range(list') = Range(list) \cup {new}
      /\ Len(list') = Len(list) + 1
  BY <1>1, <1>4, <1>7, <1>8, AppendRange
<1>10. /\ buf' \in [Node -> Buf]
       /\ \A n \in Node : /\ buf'[n].block = buf[n].block /\ buf'[n].disk = buf[n].disk
                          /\ buf'[n].refcnt = buf[n].refcnt
                          /\ buf[n].owner # p => buf'[n] = buf[n]
  <2>1. ASSUME NEW n \in Node
        PROVE  /\ buf'[n] \in Buf
               /\ buf'[n].block = buf[n].block /\ buf'[n].disk = buf[n].disk
               /\ buf'[n].refcnt = buf[n].refcnt
               /\ buf[n].owner # p => buf'[n] = buf[n]
    <3>1. CASE buf[n].owner = p
      <4>1. buf[n] \in Buf /\ buf'[n] = [buf[n] EXCEPT !.owner = NoProc] BY <1>1, <1>7, <3>1
      <4>2. /\ buf'[n] \in Buf /\ buf'[n].block = buf[n].block /\ buf'[n].disk = buf[n].disk
            /\ buf'[n].refcnt = buf[n].refcnt
        BY ONLY <4>1 DEF Buf
      <4>3. QED BY <3>1, <4>2
    <3>2. CASE buf[n].owner # p BY <1>1, <1>7, <3>2
    <3>3. QED BY <3>1, <3>2
  <2>2. buf' = [n \in Node |-> buf'[n]] BY <1>1
  <2>3. QED BY <2>1, <2>2
<1>11. \A q \in Proc : pc[q] # "idle" => cur[q] \in Node BY PlaceFacts DEF Inv
<1>12. \A q \in Proc : /\ \A S \in {InFlight, InSection, Locked, InSection \cup {"enter"}} :
                            pc'[q] \in S <=> pc[q] \in S
                       /\ pc[q] \in InFlight => pc'[q] = pc[q]
                       /\ pc'[q] \in InFlight => pc'[q] = pc[q]
                       /\ pc'[q] \in {"insert", "solve"} <=> pc[q] \in {"insert", "solve"}
                       /\ pc'[q] = "idle" <=> pc[q] = "idle"
  BY <1>1, <1>2 DEF InFlight, InSection, Locked
<1>13. Types' BY <1>1, <1>2, <1>9, <1>10 DEF Inv, Types
<1>14. ListInv'
  <2>1. Len(list') = NBUF
    <3>1. Len(list) = NBUF - 1 BY <1>3 DEF Inv, ListInv
    <3>2. QED BY <1>9, <3>1
  <2>2. \A x \in Int : x <= Top => x <= Top' BY <1>4, <1>6
  <2>3. \A x \in Int : x > Top' => x > Top BY <1>4, <1>6
  <2>4. \A m \in Range(list') : m <= Top'
    <3>1. \A m \in Range(list) : m <= Top' BY <1>7, <2>2
    <3>2. new <= Top' BY <1>4, <1>6
    <3>3. QED BY <1>9, <3>1, <3>2
  <2>5. \A q \in Proc : cur'[q] # NoNode => cur'[q] <= Top' BY <1>1, <2>2 DEF Inv, ListInv, Types
  <2>6. \A d \in Desc : info'[d] # NoNode => info'[d] <= Top'
    BY <1>1, <2>2 DEF Inv, ListInv, Types
  <2>7. \A m \in Node : m > Top' => buf'[m].block = NoBlock /\ buf'[m].refcnt = 0
    BY <1>10, <2>3 DEF Inv, ListInv
  <2>8. QED BY <1>5, <2>1, <2>4, <2>5, <2>6, <2>7 DEF ListInv
<1>15. PlaceInv'
  <2> SUFFICES ASSUME NEW q \in Proc PROVE PlaceOK(q)' BY DEF PlaceInv
  <2>1. PlaceOK(q) BY DEF Inv, PlaceInv
  <2>2. pc[q] \in Locked => buf'[cur[q]].owner = q
    <3> SUFFICES ASSUME pc[q] \in Locked PROVE buf'[cur[q]].owner = q OBVIOUS
    <3>1. q # p /\ buf[cur[q]].owner = q /\ cur[q] \in Node
      BY <1>1, <1>11, <2>1 DEF PlaceOK, Locked, InFlight
    <3>2. QED BY <1>10, <3>1
  <2>3. cur'[q] = cur[q] /\ idx'[q] = idx[q] /\ cur[q] # new BY <1>1, <1>8
  <2>4. cur[q] \in Range(list') <=> cur[q] \in Range(list) BY <1>9, <2>3
  <2>5. QED BY <1>12, <2>1, <2>2, <2>3, <2>4 DEF PlaceOK
<1>16. DescInv' BY <1>1 DEF Inv, DescInv
<1>17. Pending' = Pending BY <1>1 DEF Pending
<1>18. RequestInv'
  <2>1. \A q \in Proc : pc'[q] \in InFlight =>
          info'[idx'[q][1]] = cur'[q] /\ (idx'[q][1] \in Pending' => B(q)'.disk)
    BY <1>1, <1>10, <1>11, <1>12, <1>17 DEF Inv, RequestInv, B, InFlight
  <2>2. \A e \in Desc : info'[e] # NoNode =>
          \/ info'[e] \notin Range(list')
          \/ \E q \in Proc : pc'[q] \in InFlight /\ idx'[q][1] = e /\ cur'[q] = info'[e]
    <3> SUFFICES ASSUME NEW e \in Desc, info[e] # NoNode, info[e] \in Range(list')
                 PROVE  \E q \in Proc : pc'[q] \in InFlight /\ idx'[q][1] = e /\ cur'[q] = info'[e]
      BY <1>1
    <3>1. info[e] <= Top /\ info[e] \in Node BY DEF Inv, Types, ListInv
    <3>2. info[e] # new BY <1>4, <3>1
    <3>3. info[e] \in Range(list) BY <1>9, <3>2
    <3>4. QED BY <1>1, <1>12, <3>3 DEF Inv, RequestInv
  <2>3. \A e \in Desc : info'[e] # NoNode => buf'[info'[e]].block # NoBlock
    <3>1. \A e \in Desc : info[e] # NoNode => info[e] \in Node BY DEF Inv, Types
    <3>2. QED BY <1>1, <1>10, <3>1 DEF Inv, RequestInv
  <2>4. QED BY <1>1, <1>17, <2>1, <2>2, <2>3 DEF Inv, RequestInv
<1>19. HeardInv'
  <2>1. \A q \in Proc : /\ pc'[q] = "woken" => pc[q] = "woken" /\ B(q)'.disk = B(q).disk
                        /\ pc'[q] = "iowait" => pc[q] = "iowait"
    BY <1>1, <1>10, <1>11, <1>12 DEF B, InFlight
  <2>2. QED BY <1>1, <1>17, <2>1 DEF Inv, HeardInv
<1>20. BlockInv'
  <2>1. \A q \in Proc : pc'[q] \in InSection \cup {"enter"} =>
          /\ pc[q] \in InSection \cup {"enter"} /\ cur[q] # new
          /\ B(q)'.block = B(q).block
    BY <1>1, <1>8, <1>10, <1>11, <1>12 DEF B, InSection, Locked, InFlight
  <2>2. \A m : Users(m)' = Users(m) BY <1>1 DEF Users
  <2>3. buf[new].block = NoBlock /\ buf[new].refcnt = 0 BY <1>4 DEF Inv, ListInv
  <2>4. \A m, k \in Range(list') :
          buf'[m].block = buf'[k].block /\ buf'[m].block # NoBlock => m = k
    BY <1>4, <1>7, <1>9, <1>10, <2>3 DEF Inv, BlockInv
  <2>5. Users(new) = {} BY <1>8 DEF Users
  <2>6. ASSUME ~unbalanced, NEW m \in Range(list') PROVE buf'[m].refcnt >= Cardinality(Users(m)')
    <3>1. CASE m = new
      <4>1. Cardinality(Users(m)') = 0 BY <2>2, <2>5, <3>1, FS_EmptySet
      <4>2. QED BY <1>4, <1>10, <2>3, <3>1, <4>1
    <3>2. CASE m # new
      <4>1. m \in Range(list) BY <1>9, <3>2
      <4>2. QED BY <1>7, <1>10, <2>2, <2>6, <4>1 DEF Inv, BlockInv
    <3>3. QED BY <3>1, <3>2
  <2>7. \A q \in Proc : cur[q] \in Range(list') => cur[q] = new \/ cur[q] \in Range(list) BY <1>9
  <2>8. QED BY <1>1, <2>1, <2>4, <2>6, <2>7 DEF Inv, BlockInv
<1>21. QED BY <1>13, <1>14, <1>15, <1>16, <1>18, <1>19, <1>20 DEF Inv

\* The end of the handler: it drops its node, its descriptors are leaked, and
\* whom it wakes has not been told.
LEMMA SolveInv == ASSUME Inv, NEW p \in Proc, Solve(p) PROVE Inv'
<1> USE NamesDiffer
<1>1. PICK D \in {{}, Range(used)} :
        /\ used' = IF D = {} THEN used ELSE <<>>
        /\ unheard' = unheard \cup Waiters(D)
        /\ pc' = [q \in Proc |-> IF q = p THEN "idle"
                                 ELSE IF q \in Waiters(D) \ Recovering THEN "woken" ELSE pc[q]]
  BY DEF Solve, WakeAndGoto
<1>2. /\ pc[p] = "solve"
      /\ leaked' = leaked \cup Range(idx[p]) /\ idx' = [idx EXCEPT ![p] = <<>>]
      /\ cur' = [cur EXCEPT ![p] = NoNode] /\ want' = [want EXCEPT ![p] = NoBlock]
      /\ UNCHANGED <<list, buf, ondisk, free, info, avail, faults, unbalanced>>
  BY DEF Solve, At, cache, descs, bounds
<1>3. /\ pc \in [Proc -> Pc] /\ cur \in [Proc -> Node \cup {NoNode}] /\ idx \in [Proc -> Seq(Desc)]
      /\ want \in [Proc -> Block \cup {NoBlock}] /\ used \in Seq(Desc)
  BY DEF Inv, Types
<1>4. /\ pc' \in [Proc -> Pc] /\ pc'[p] = "idle"
      /\ \A q \in Proc : q # p => pc'[q] = pc[q] \/ (pc[q] = "iowait" /\ pc'[q] = "woken" /\ q \in unheard')
      /\ cur' \in [Proc -> Node \cup {NoNode}] /\ cur'[p] = NoNode
      /\ \A q \in Proc : q # p => cur'[q] = cur[q]
      /\ idx' \in [Proc -> Seq(Desc)] /\ idx'[p] = <<>> /\ \A q \in Proc : q # p => idx'[q] = idx[q]
      /\ want' \in [Proc -> Block \cup {NoBlock}] /\ \A q \in Proc : q # p => want'[q] = want[q]
  <2>1. /\ pc' \in [Proc -> Pc] /\ pc'[p] = "idle"
        /\ \A q \in Proc : q # p => pc'[q] = pc[q]
                            \/ (pc[q] = "iowait" /\ pc'[q] = "woken" /\ q \in unheard')
    BY <1>1, <1>3 DEF Pc, InSection, Locked, InFlight, Waiters
  <2>2. QED BY <1>2, <1>3, <2>1
<1>5. \A q \in Proc :
         /\ q # p => /\ \A S \in {InFlight, InSection, Locked, InSection \cup {"enter"}} :
                            pc'[q] \in S <=> pc[q] \in S
                     /\ \A l \in {"idle", "enter", "insert", "solve"} : pc'[q] = l <=> pc[q] = l
         /\ \A S \in {InFlight, InSection, Locked, InSection \cup {"enter"}} : pc[p] \notin S /\ pc'[p] \notin S
  BY <1>2, <1>4 DEF InFlight, InSection, Locked
<1>6. /\ used' \in Seq(Desc) /\ Range(used') \subseteq Range(used) /\ Pending' \subseteq Pending
      /\ Range(used') = Range(used) \/ (used' = <<>> /\ D = Range(used))
  <2>1. used' = used \/ (used' = <<>> /\ D = Range(used)) BY <1>1
  <2>2. Range(<<>>) = {} BY DEF Range
  <2>3. CASE used' = used BY <1>2, <1>3, <2>3 DEF Pending
  <2>4. CASE used' = <<>> /\ D = Range(used)
    <3>1. Range(used') = {} BY <2>2, <2>4
    <3>2. used' \in Seq(Desc) BY <2>4
    <3>3. QED BY <1>2, <2>4, <3>1, <3>2 DEF Pending
  <2>5. QED BY <2>1, <2>3, <2>4
<1>7. unheard \subseteq unheard' /\ unheard' \subseteq Proc BY <1>1 DEF Waiters, Inv, Types
<1>8. leaked' \subseteq Desc /\ leaked \subseteq leaked'
  BY <1>2, <1>3 DEF Inv, Types, Range
<1>9. Types' BY <1>2, <1>4, <1>6, <1>7, <1>8 DEF Inv, Types
<1>10. Surgeon' = Surgeon /\ Top' = Top
  <2>1. Surgeon' = Surgeon BY <1>2, <1>4, <1>5 DEF Surgeon
  <2>2. QED BY <1>2, <2>1 DEF Top
<1>11. ListInv'
  <2>1. \A q \in Proc : cur'[q] # NoNode => cur'[q] <= Top BY <1>4 DEF Inv, ListInv
  <2>2. QED BY <1>2, <1>10, <2>1 DEF Inv, ListInv
<1>12. PlaceInv'
  <2> SUFFICES ASSUME NEW q \in Proc PROVE PlaceOK(q)' BY DEF PlaceInv
  <2>1. PlaceOK(q) BY DEF Inv, PlaceInv
  <2>2. CASE q = p
    BY <1>4, <1>5, <2>2 DEF PlaceOK
  <2>3. CASE q # p
    <3>1. cur'[q] = cur[q] /\ idx'[q] = idx[q] BY <1>4, <2>3
    <3>2. pc'[q] \in {"insert", "solve"} <=> pc[q] \in {"insert", "solve"} BY <1>5, <2>3
    <3>3. QED BY <1>2, <1>5, <2>1, <2>3, <3>1, <3>2 DEF PlaceOK
  <2>4. QED BY <2>2, <2>3
<1>13. DescInv'
  <2>1. Range(idx'[p]) = {} BY <1>4 DEF Range
  <2>2. \A e \in Desc : e \in free' \/ e \in leaked' \/ \E q \in Proc : e \in Range(idx'[q])
    <3> TAKE e \in Desc
    <3>1. CASE e \in free \/ e \in leaked BY <1>2, <3>1
    <3>2. CASE \E q \in Proc : e \in Range(idx[q])
      <4>1. PICK q \in Proc : e \in Range(idx[q]) BY <3>2
      <4>2. CASE q = p BY <1>2, <4>1, <4>2
      <4>3. CASE q # p BY <1>4, <4>1, <4>3
      <4>4. QED BY <4>2, <4>3
    <3>3. QED BY <3>1, <3>2 DEF Inv, DescInv
  <2>3. free' \cap leaked' = {} BY <1>2 DEF Inv, DescInv
  <2>4. \A q \in Proc : Range(idx'[q]) \cap (free' \cup leaked') = {}
    <3> TAKE q \in Proc
    <3>1. CASE q = p BY <2>1, <3>1
    <3>2. CASE q # p
      <4>1. idx'[q] = idx[q] BY <1>4, <3>2
      <4>2. Range(idx[q]) \cap (free \cup leaked) = {} /\ Range(idx[q]) \cap Range(idx[p]) = {}
        BY <3>2 DEF Inv, DescInv
      <4>3. QED BY <1>2, <4>1, <4>2
    <3>3. QED BY <3>1, <3>2
  <2>5. \A q, r \in Proc : q # r => Range(idx'[q]) \cap Range(idx'[r]) = {}
    BY <1>4, <2>1 DEF Inv, DescInv
  <2>6. QED BY <2>2, <2>3, <2>4, <2>5 DEF DescInv
<1>14. \A q \in Proc : pc'[q] \in InFlight => q # p /\ pc[q] \in InFlight /\ cur[q] \in Node
  BY <1>5, PlaceFacts DEF Inv, Locked
<1>15. RequestInv'
  <2>1. \A q \in Proc : pc'[q] \in InFlight =>
          info'[idx'[q][1]] = cur'[q] /\ (idx'[q][1] \in Pending' => B(q)'.disk)
    BY <1>2, <1>4, <1>6, <1>14 DEF Inv, RequestInv, B
  <2>2. \A e \in Desc : info'[e] # NoNode =>
          \/ info'[e] \notin Range(list')
          \/ \E q \in Proc : pc'[q] \in InFlight /\ idx'[q][1] = e /\ cur'[q] = info'[e]
    <3> SUFFICES ASSUME NEW e \in Desc, info[e] # NoNode, info[e] \in Range(list)
                 PROVE  \E q \in Proc : pc'[q] \in InFlight /\ idx'[q][1] = e /\ cur'[q] = info'[e]
      BY <1>2
    <3>1. PICK q \in Proc : pc[q] \in InFlight /\ idx[q][1] = e /\ cur[q] = info[e]
      BY DEF Inv, RequestInv
    <3>2. q # p /\ pc'[q] \in InFlight BY <1>5, <3>1
    <3>3. QED BY <1>2, <1>4, <3>1, <3>2
  <2>3. \A e \in Pending' : e \in leaked' \/ \E q \in Proc : idx'[q] # <<>> /\ idx'[q][1] = e
    <3> SUFFICES ASSUME NEW e \in Pending', e \notin leaked'
                 PROVE  \E q \in Proc : idx'[q] # <<>> /\ idx'[q][1] = e
      OBVIOUS
    <3>1. e \in Pending /\ e \notin leaked /\ e \notin Range(idx[p]) BY <1>2, <1>6
    <3>2. PICK q \in Proc : idx[q] # <<>> /\ idx[q][1] = e BY <3>1 DEF Inv, RequestInv
    <3>3. q # p BY <3>1, <3>2, FirstOfChain DEF Inv
    <3>4. QED BY <1>4, <3>2, <3>3
  <2>4. Range(avail') \cap Range(used') = {} BY <1>2, <1>6 DEF Inv, RequestInv
  <2>5. QED BY <1>2, <1>6, <2>1, <2>2, <2>3, <2>4 DEF Inv, RequestInv
<1>16. HeardInv'
  <2>1. \A q \in Proc : pc'[q] = "woken" /\ q \notin unheard' => ~B(q)'.disk
    <3> SUFFICES ASSUME NEW q \in Proc, pc'[q] = "woken", q \notin unheard' PROVE ~B(q)'.disk
      OBVIOUS
    <3>1. q # p /\ pc[q] = "woken" /\ q \notin unheard BY <1>4, <1>7
    <3>2. QED BY <1>2, <1>4, <3>1 DEF Inv, HeardInv, B
  <2>2. \A q \in Proc \ Recovering : pc'[q] = "iowait" => idx'[q][1] \in Pending' \/ q \in unheard'
    <3> SUFFICES ASSUME NEW q \in Proc \ Recovering, pc'[q] = "iowait", q \notin unheard'
                 PROVE  idx'[q][1] \in Pending'
      OBVIOUS
    <3>1. q # p /\ pc[q] = "iowait" /\ q \notin unheard /\ idx'[q] = idx[q] BY <1>4, <1>7
    <3>2. idx[q][1] \in Pending BY <3>1 DEF Inv, HeardInv
    <3>3. CASE Range(used') = Range(used) BY <1>2, <3>1, <3>2, <3>3 DEF Pending
    <3>4. CASE D = Range(used)
      <4>1. q \notin Waiters(D) BY <1>1
      <4>2. idx[q][1] \notin Range(used) BY <3>1, <3>4, <4>1 DEF Waiters
      <4>3. QED BY <1>2, <3>1, <3>2, <4>2 DEF Pending
    <3>5. QED BY <1>6, <3>3, <3>4
  <2>3. QED BY <2>1, <2>2 DEF HeardInv
<1>17. BlockInv'
  <2>1. \A q \in Proc : pc'[q] \in InSection \cup {"enter"} =>
          /\ pc[q] \in InSection \cup {"enter"} /\ cur'[q] = cur[q] /\ want'[q] = want[q]
          /\ B(q)' = B(q)
    BY <1>2, <1>4, <1>5 DEF B
  <2>2. \A m \in Range(list) : m \in Node BY DEF Inv, Types, Range
  <2>3. \A m \in Range(list) : Users(m)' = Users(m)
    <3> SUFFICES ASSUME NEW m \in Range(list) PROVE \A q \in Proc : cur'[q] = m <=> cur[q] = m
      BY DEF Users
    <3>1. cur[p] # m BY <1>2 DEF Inv, PlaceInv, PlaceOK
    <3>2. QED BY <1>4, <2>2, <3>1
  <2>4. QED BY <1>2, <2>1, <2>3 DEF Inv, BlockInv
<1>18. QED BY <1>9, <1>11, <1>12, <1>13, <1>15, <1>16, <1>17 DEF Inv

-----------------------------------------------------------------------------
(* The theorems. *)

\* Every step keeps the invariant.
LEMMA NextInv == Inv /\ [Next]_vars => Inv'
<1> SUFFICES ASSUME Inv, [Next]_vars PROVE Inv' OBVIOUS
<1>1. ASSUME NEW p \in Proc, ProcNext(p) PROVE Inv'
  <2>1. ASSUME NEW b \in Block, Bget(p, b) PROVE Inv' BY <2>1, BgetInv
  <2>2. CASE EnterNode(p) BY <2>2, EnterNodeInv
  <2>3. CASE AcquireSleep(p) BY <2>3, AcquireSleepInv
  <2>4. CASE VirtioStart(p) BY <2>4, VirtioWaitInv, VirtioRequestInv
  <2>5. CASE Poll(p) BY <2>5, PollInv
  <2>6. CASE VirtioDone(p) BY <2>6, VirtioAgainInv, VirtioFreeInv
  <2>7. CASE LogWrite(p) BY <2>7, LogWriteInv
  <2>8. CASE StartCommit(p) BY <2>8, StartCommitInv
  <2>9. CASE Bwrite(p) BY <2>9, BwriteInv
  <2>10. CASE Bunpin(p) BY <2>10, BunpinInv
  <2>11. CASE ReleaseSleep(p) BY <2>11, ReleaseSleepInv
  <2>12. CASE Brelse(p) BY <2>12, BrelseInv
  <2>13. CASE EndCommit(p) BY <2>13, EndCommitInv
  <2>14. CASE InsertNew(p) BY <2>14, InsertNewInv
  <2>15. CASE Solve(p) BY <2>15, SolveInv
  <2>16. QED BY <1>1, <2>1, <2>2, <2>3, <2>4, <2>5, <2>6, <2>7, <2>8, <2>9, <2>10, <2>11,
                <2>12, <2>13, <2>14, <2>15 DEF ProcNext
<1>2. ASSUME NEW p \in Proc, Hit(p) PROVE Inv' BY <1>2, HitInv
<1>3. ASSUME NEW p \in Proc, NEW i, ScanHit(p, i) PROVE Inv' BY <1>3, ScanHitInv
<1>4. ASSUME NEW i, Device(i) PROVE Inv' BY <1>4, DeviceInv
<1>5. CASE VirtioIntr BY <1>5, VirtioIntrInv
<1>6. CASE UNCHANGED vars
  BY <1>6, IdleStep DEF vars, cache, disk, descs, rings, procs, log, bounds, history
<1>7. QED BY <1>1, <1>2, <1>3, <1>4, <1>5, <1>6 DEF Next

\* The buffer cache and its driver for every number of processes, buffers,
\* descriptors and memory errors: the list of bio.c, the places of the
\* processes, the descriptors and requests of virtio_disk.c and the reference
\* counts fit together in every reachable state.
THEOREM CacheCorrect == Spec => []Inv
<1>1. Init => Inv BY InitInv
<1>2. Inv /\ [Next]_vars => Inv' BY NextInv
<1>3. QED BY <1>1, <1>2, PTL DEF Spec

\* bget, brelse and the recovery of a buffer never let two processes have one
\* block locked, in one buffer or in two.
THEOREM LockedAlone == Spec => []ExclusiveUse
<1>1. Inv => ExclusiveUse
  <2> SUFFICES ASSUME Inv, ~unbalanced, NEW p \in Proc, NEW q \in Proc, Using(p), Using(q)
               PROVE  B(p).block = want[p] /\ (p # q => want[p] # want[q])
    BY DEF ExclusiveUse
  <2>1. /\ cur[p] \in Range(list) /\ pc[p] \in Locked /\ pc[p] \in InSection
        /\ cur[q] \in Range(list) /\ pc[q] \in Locked /\ pc[q] \in InSection
    BY DEF Using, InSection
  <2>2. /\ B(p).block = want[p] /\ B(q).block = want[q] /\ B(p).block # NoBlock
    BY <2>1 DEF Inv, BlockInv
  <2>3. ASSUME p # q, want[p] = want[q] PROVE FALSE
    <3>1. cur[p] = cur[q] BY <2>1, <2>2, <2>3 DEF Inv, BlockInv, B
    <3>2. QED BY <2>1, <2>3, <3>1, PlaceFacts DEF Inv
  <2>4. QED BY <2>2, <2>3
<1>2. QED BY <1>1, CacheCorrect, PTL

\* virtio_disk_intr and the recovery handler tell every sleeper whose request
\* is finished, except those that a polling process or a drained ring hid.
THEOREM CompletionHeard == Spec => []NoMissedCompletion
<1>1. Inv => NoMissedCompletion
  <2> SUFFICES ASSUME Inv, NEW p \in Proc \ Recovering, pc[p] = "iowait",
                      ~(\E i \in DOMAIN avail : avail[i] = idx[p][1])
               PROVE  idx[p][1] \in Range(used) \/ p \in unheard
    BY DEF NoMissedCompletion
  <2>1. idx[p][1] \notin Range(avail) BY DEF Range
  <2>2. QED BY <2>1 DEF Inv, HeardInv, Pending
<1>2. QED BY <1>1, CacheCorrect, PTL

\* alloc3_desc, free_chain and the cut-off calls of recovered processes never
\* lose a descriptor or give it to two requests.
THEOREM NoDescriptorLost == Spec => []DescriptorsOwned
<1>1. Inv => DescriptorsOwned
  <2> SUFFICES ASSUME Inv PROVE DescriptorsOwned OBVIOUS
  <2> DEFINE held == UNION {Range(idx[p]) : p \in Proc}
  <2>1. \A e : e \in held <=> \E p \in Proc : e \in Range(idx[p]) OBVIOUS
  <2>2. \A p \in Proc : Range(idx[p]) \subseteq Desc BY DEF Inv, Types, Range
  <2> HIDE DEF held
  <2>3. held \subseteq Desc /\ free \subseteq Desc /\ leaked \subseteq Desc
    BY <2>1, <2>2 DEF Inv, Types
  <2>4. free \cup held \cup leaked = Desc BY <2>1, <2>3 DEF Inv, DescInv
  <2>5. free \cap (held \cup leaked) = {} /\ held \cap leaked = {}
    BY <2>1 DEF Inv, DescInv
  <2>6. \A p, q \in Proc : p # q => Range(idx[p]) \cap Range(idx[q]) = {} BY DEF Inv, DescInv
  <2>7. QED BY <2>4, <2>5, <2>6 DEF DescriptorsOwned, held
<1>2. QED BY <1>1, CacheCorrect, PTL

-----------------------------------------------------------------------------
(* Before the first memory error. *)

Modes == {"none", "read", "op", "install"}

CleanTypes ==
    /\ mode \in [Proc -> Modes] /\ rw \in [Proc -> BOOLEAN] /\ tail \in [Proc -> Nat]
    /\ lh \in Seq(Block) /\ IsInjective(lh) /\ committing \in BOOLEAN
    /\ truth \in [Block -> Val]
    /\ unbalanced = FALSE /\ leaked = {} /\ astray = {}

\* Nobody is in a handler; only the installer writes, and from its write to
\* its brelse.
CallOK(p) ==
    /\ pc[p] \notin {"insert", "solve"}
    /\ mode[p] = "none" => pc[p] = "idle"
    /\ rw[p] => mode[p] = "install" /\ pc[p] \notin {"idle", "enter", "lock", "lockwait", "hold"}
    /\ pc[p] = "written" => rw[p]
CallInv == \A p \in Proc : CallOK(p)

\* One process commits, nobody is inside a transaction meanwhile, and it has
\* the buffer of the block that its loop has come to.
Installs(p) ==
    /\ committing /\ \A q \in Proc : mode[q] # "op"
    /\ \A q \in Proc : mode[q] = "install" => q = p
    /\ tail[p] \in 1..(Len(lh) + 1)
    /\ pc[p] # "idle" => tail[p] <= Len(lh) /\ want[p] = lh[tail[p]]
CommitInv == \A p \in Proc : mode[p] = "install" => Installs(p)

\* The block b has been passed by the loop of the installer p.
Passed(p, b) == \E k \in 1..(tail[p] - 1) : k <= Len(lh) /\ lh[k] = b
\* The log has a reference to the buffer of b.
Pin(b) == /\ b \in Range(lh)
          /\ \A p \in Proc : mode[p] = "install" =>
                ~Passed(p, b) /\ ~(want[p] = b /\ pc[p] \in {"brelse", "unref"})
\* p has written its block home.
Home(p) ==
    \/ pc[p] \in {"written", "brelse", "unref"}
    \/ pc[p] \in InFlight /\ rw[p] /\ idx[p][1] \notin Range(avail)
\* The block on the disk may be older than the last change of it.
Dirty(b) == /\ b \in Range(lh)
            /\ \A p \in Proc : mode[p] = "install" => ~Passed(p, b) /\ ~(want[p] = b /\ Home(p))

Pins(n) == IF Pin(buf[n].block) THEN 1 ELSE 0
\* A reference for each user and one for the log; a block of the log is cached.
PinInv ==
    /\ \A n \in Range(list) : buf[n].refcnt = Cardinality(Users(n)) + Pins(n)
    /\ \A b \in Block : Pin(b) => \E n \in Range(list) : buf[n].block = b /\ buf[n].valid

\* Where a process reads the disk.
Reading(p) == pc[p] \in {"rw", "descwait"} \cup InFlight /\ ~rw[p]
\* Where a process has the block from the disk.
Read(p) == pc[p] \in {"hold", "written", "brelse"} \/ (pc[p] \in Locked /\ rw[p])

\* A valid buffer has the last change of its block, and so has the disk, unless
\* the log has it; a request that is finished has brought it.
DataInv ==
    /\ \A n \in Range(list) : buf[n].valid =>
          buf[n].block \in Block /\ buf[n].data = truth[buf[n].block]
    /\ \A b \in Block : ~Dirty(b) => ondisk[b] = truth[b]
    /\ \A p \in Proc : Read(p) => B(p).valid
    /\ \A p \in Proc : Reading(p) => ~B(p).valid
    /\ \A p \in Proc : pc[p] \in InFlight /\ ~rw[p] /\ idx[p][1] \notin Range(avail) =>
          B(p).data = truth[want[p]]

Clean == CleanTypes /\ CallInv /\ CommitInv /\ PinInv /\ DataInv
CleanInv == faults = 0 => Clean

-----------------------------------------------------------------------------
(* Facts about states before the first error. *)

\* A process in the section of a node has a node of the list, with the block
\* that it asked for.
LEMMA CleanFacts ==
    ASSUME Inv, Clean
    PROVE  /\ \A n \in Range(list) : n \in Node
           /\ \A q \in Proc : pc[q] \in InSection =>
                 /\ cur[q] \in Range(list) /\ cur[q] \in Node
                 /\ want[q] \in Block /\ B(q).block = want[q]
           /\ \A q \in Proc : pc[q] # "idle" => cur[q] \in Node
           /\ \A q \in Proc : Read(q) => pc[q] \in Locked
           /\ \A q \in Proc : Reading(q) => pc[q] \in Locked
           /\ Locked \subseteq InSection
<1>1. \A n \in Range(list) : n \in Node BY DEF Range, Inv, Types
<1>2. \A q \in Proc : pc[q] \in InSection => cur[q] \in Range(list)
  BY DEF Inv, PlaceInv, PlaceOK
<1>3. \A q \in Proc : pc[q] \in InSection => want[q] \in Block /\ B(q).block = want[q]
  BY <1>2 DEF Inv, BlockInv, Clean, CleanTypes
<1>4. \A q \in Proc : Read(q) => pc[q] \in Locked BY DEF Read, Locked
<1>5. \A q \in Proc : Reading(q) => pc[q] \in Locked BY DEF Reading, Locked
<1>6. \A q \in Proc : pc[q] # "idle" => cur[q] \in Node BY PlaceFacts DEF Inv
<1>7. QED BY <1>1, <1>2, <1>3, <1>4, <1>5, <1>6 DEF InSection

\* The log's references are the same when nobody unpins.
LEMMA PinSame ==
    ASSUME UNCHANGED <<lh, mode, tail, want>>,
           \A q \in Proc : mode[q] = "install" =>
              (pc'[q] \in {"brelse", "unref"} <=> pc[q] \in {"brelse", "unref"})
    PROVE  \A b : Pin(b)' <=> Pin(b)
<1> SUFFICES ASSUME NEW b PROVE Pin(b)' <=> Pin(b) OBVIOUS
<1>1. \A q \in Proc : Passed(q, b)' <=> Passed(q, b) BY DEF Passed
<1>2. QED BY <1>1 DEF Pin

\* Reference counts stay exact when neither they nor the users change.
LEMMA PinKept ==
    ASSUME PinInv, Range(list') = Range(list), cur' = cur,
           \A n \in Range(list) : /\ buf'[n].refcnt = buf[n].refcnt
                                  /\ buf'[n].block = buf[n].block
                                  /\ buf[n].valid => buf'[n].valid,
           \A b : Pin(b)' <=> Pin(b)
    PROVE  PinInv'
<1>1. \A n \in Range(list) : Users(n)' = Users(n) BY DEF Users
<1>2. \A n \in Range(list) : Pins(n)' = Pins(n)
  <2> TAKE n \in Range(list)
  <2> PICK b : b = buf[n].block OBVIOUS
  <2>1. buf'[n].block = b OBVIOUS
  <2>2. Pin(b)' <=> Pin(b) OBVIOUS
  <2>3. QED BY <2>1, <2>2 DEF Pins, Pin, Passed
<1>3. QED BY <1>1, <1>2 DEF PinInv

\* Contents stay exact in a step that moves processes only.
LEMMA DataKept ==
    ASSUME Inv, Clean, UNCHANGED <<truth, ondisk>>, Range(list') = Range(list),
           \A n \in Range(list) : /\ buf'[n].valid = buf[n].valid
                                  /\ buf'[n].block = buf[n].block
                                  /\ buf'[n].data = buf[n].data,
           \A b \in Block : Dirty(b) => Dirty(b)',
           \A q \in Proc : /\ Read(q)' => cur'[q] = cur[q] /\ cur[q] \in Range(list)
                                          /\ (Read(q) \/ B(q).valid)
                           /\ Reading(q)' => cur'[q] = cur[q] /\ cur[q] \in Range(list)
                                             /\ (Reading(q) \/ ~B(q).valid)
                           /\ pc'[q] \in InFlight /\ ~rw'[q] /\ idx'[q][1] \notin Range(avail') =>
                                 /\ pc[q] \in InFlight /\ ~rw[q] /\ idx[q][1] \notin Range(avail)
                                 /\ cur'[q] = cur[q] /\ want'[q] = want[q] /\ cur[q] \in Range(list)
    PROVE  DataInv'
<1> USE DEF Clean
<1>1. \A n \in Range(list') : buf'[n].valid =>
          buf'[n].block \in Block /\ buf'[n].data = truth'[buf'[n].block]
  BY DEF DataInv
<1>2. \A b \in Block : ~Dirty(b)' => ondisk'[b] = truth'[b] BY DEF DataInv
<1>3. \A q \in Proc : Read(q)' => B(q)'.valid BY DEF DataInv, B
<1>4. \A q \in Proc : Reading(q)' => ~B(q)'.valid BY DEF DataInv, B
<1>5. \A q \in Proc : pc'[q] \in InFlight /\ ~rw'[q] /\ idx'[q][1] \notin Range(avail') =>
          B(q)'.data = truth'[want'[q]]
  <2> SUFFICES ASSUME NEW q \in Proc,
                      pc'[q] \in InFlight /\ ~rw'[q] /\ idx'[q][1] \notin Range(avail')
               PROVE  B(q)'.data = truth'[want'[q]]
    OBVIOUS
  <2>1. B(q).data = truth[want[q]] BY DEF DataInv
  <2>2. B(q)'.data = B(q).data BY DEF B
  <2>3. QED BY <2>1, <2>2
<1>6. QED BY <1>1, <1>2, <1>3, <1>4, <1>5 DEF DataInv

\* What the log may have changed in the cache only, when nobody installs more.
LEMMA DirtySame ==
    ASSUME UNCHANGED <<lh, mode, tail, want>>,
           \A q \in Proc : mode[q] = "install" => (Home(q)' => Home(q))
    PROVE  \A b : Dirty(b) => Dirty(b)'
<1> SUFFICES ASSUME NEW b, Dirty(b) PROVE Dirty(b)' OBVIOUS
<1>1. \A q \in Proc : Passed(q, b)' <=> Passed(q, b) BY DEF Passed
<1>2. QED BY <1>1 DEF Dirty

\* A block that is dirty is pinned.
LEMMA DirtyPinned == \A b : Dirty(b) => Pin(b)
  BY DEF Dirty, Pin, Home

-----------------------------------------------------------------------------
(* The steps of bget and acquiresleep. *)

\* Initially the log is empty and no buffer is valid.
LEMMA InitClean == Init => Clean
<1> SUFFICES ASSUME Init PROVE Clean OBVIOUS
<1>6. \A n \in Range(list) : n \in Node BY InitInv DEF Inv, Types, Range
<1> USE DEF Init
<1>1. CleanTypes
  <2>1. truth \in [Block -> Val] BY DEF Val
  <2>2. IsInjective(lh) BY DEF IsInjective
  <2>3. lh \in Seq(Block) OBVIOUS
  <2>4. tail \in [Proc -> Nat] /\ mode \in [Proc -> Modes] /\ rw \in [Proc -> BOOLEAN] BY DEF Modes
  <2>5. QED BY <2>1, <2>2, <2>3, <2>4 DEF CleanTypes
<1>2. CallInv BY DEF CallInv, CallOK
<1>3. CommitInv BY DEF CommitInv
<1>4. Range(lh) = {} BY DEF Range
<1>5. \A b : ~Pin(b) /\ ~Dirty(b) BY <1>4 DEF Pin, Dirty
<1>7. PinInv
  <2>1. \A n \in Node : Users(n) = {} BY NamesDiffer DEF Users
  <2>2. \A n \in Node : Cardinality(Users(n)) = 0 BY <2>1, FS_EmptySet
  <2>3. \A n \in Node : buf[n].refcnt = 0 BY DEF Fresh
  <2>4. \A n \in Node : Pins(n) = 0 BY <1>5 DEF Pins
  <2>5. QED BY <1>5, <1>6, <2>2, <2>3, <2>4 DEF PinInv
<1>8. DataInv BY <1>5, <1>6 DEF DataInv, Read, Reading, InFlight, Locked, Fresh
<1>9. QED BY <1>1, <1>2, <1>3, <1>7, <1>8 DEF Clean

-----------------------------------------------------------------------------
(* Steps that move processes and change neither counts nor contents. *)

\* Such a move of q; acquiresleep looks at the contents of the buffer.
Moved(q) ==
    \/ pc'[q] = pc[q]
    \/ pc[q] = "enter" /\ pc'[q] = "lock"
    \/ pc[q] \in {"lock", "lockwait"} /\ pc'[q] \in {"lock", "lockwait"}
    \/ pc[q] = "lock" /\ pc'[q] = "hold" /\ B(q).valid
    \/ pc[q] = "lock" /\ pc'[q] = "rw" /\ ~B(q).valid
    \/ pc[q] \in {"rw", "descwait"} /\ pc'[q] \in {"rw", "descwait"}
    \/ pc[q] \in InFlight /\ pc'[q] \in InFlight
    \/ pc[q] = "brelse" /\ pc'[q] = "unref"
    \/ pc[q] = "hold" /\ mode[q] = "read" /\ pc'[q] = "unref"

\* Counts and contents stay exact.
LEMMA MovesClean ==
    ASSUME Inv, Clean,
           UNCHANGED <<list, lh, committing, mode, tail, want, cur, rw, truth, ondisk, idx,
                       avail, unbalanced, leaked, astray>>,
           \A n \in Node : /\ buf'[n].block = buf[n].block /\ buf'[n].data = buf[n].data
                           /\ buf'[n].refcnt = buf[n].refcnt /\ buf'[n].valid = buf[n].valid,
           \A q \in Proc : Moved(q)
    PROVE  Clean'
<1>1. \A n \in Range(list) :
          /\ buf'[n].block = buf[n].block /\ buf'[n].data = buf[n].data
          /\ buf'[n].refcnt = buf[n].refcnt /\ buf'[n].valid = buf[n].valid
  BY CleanFacts
<1>2. CleanTypes' BY DEF Clean, CleanTypes
<1>3. CallInv'
  <2> SUFFICES ASSUME NEW q \in Proc PROVE CallOK(q)' BY DEF CallInv
  <2>1. CallOK(q) BY DEF Clean, CallInv
  <2>2. QED BY <2>1 DEF CallOK, Moved, InFlight
<1>4. CommitInv' 
  <2>1. \A q \in Proc : pc'[q] # "idle" => pc[q] # "idle" BY DEF Moved, InFlight
  <2>2. QED BY <2>1 DEF Clean, CommitInv, Installs
<1>5. \A b : Pin(b)' <=> Pin(b)
  <2>1. \A q \in Proc : mode[q] = "install" =>
          (pc'[q] \in {"brelse", "unref"} <=> pc[q] \in {"brelse", "unref"})
    BY DEF Moved, InFlight
  <2>2. QED BY <2>1, PinSame
<1>6. PinInv' BY <1>1, <1>5, PinKept DEF Clean
<1>7. \A q \in Proc : rw[q] => pc[q] \notin {"lock", "lockwait", "hold"}
  BY DEF Clean, CallInv, CallOK
<1>8. \A q \in Proc :
          /\ mode[q] = "install" => (Home(q)' => Home(q))
          /\ Read(q)' => (Read(q) \/ (pc[q] = "lock" /\ B(q).valid))
          /\ Reading(q)' => (Reading(q) \/ (pc[q] = "lock" /\ ~B(q).valid))
          /\ pc'[q] \in InFlight => pc[q] \in InFlight
  <2> TAKE q \in Proc
  <2>1. Moved(q) OBVIOUS
  <2>2. mode[q] = "install" => (Home(q)' => Home(q))
    BY <2>1, <1>7 DEF Home, Moved, InFlight, Locked
  <2>3. Read(q)' => (Read(q) \/ (pc[q] = "lock" /\ B(q).valid))
    BY <2>1, <1>7 DEF Read, Moved, InFlight, Locked
  <2>4. Reading(q)' => (Reading(q) \/ (pc[q] = "lock" /\ ~B(q).valid))
    BY <2>1, <1>7 DEF Reading, Moved, InFlight
  <2>5. pc'[q] \in InFlight => pc[q] \in InFlight
    BY <2>1 DEF Moved, InFlight
  <2>6. QED BY <2>2, <2>3, <2>4, <2>5
<1>9. \A b : Dirty(b) => Dirty(b)' BY <1>8, DirtySame
<1>10. \A q \in Proc : pc[q] \in InFlight \cup {"lock"} => pc[q] \in InSection
  BY DEF Locked, InSection
<1>11. \A q \in Proc :
          /\ Read(q) \/ Reading(q) => cur[q] \in Range(list)
          /\ pc[q] \in InFlight \cup {"lock"} => cur[q] \in Range(list)
  BY <1>10, CleanFacts
<1>12. DataInv' BY <1>1, <1>8, <1>9, <1>11, DataKept
<1>13. QED BY <1>2, <1>3, <1>4, <1>6, <1>12 DEF Clean

\* The section of a recycled buffer is entered, or the kernel panics.
LEMMA EnterNodeClean == ASSUME Inv, Clean, NEW p \in Proc, EnterNode(p) PROVE Clean'
<1> USE DEF EnterNode, At, Goto, Halt, cache, disk, descs, rings, log, bounds, history
<1>1. \A q \in Proc : pc'[q] = pc[q] \/ (pc[q] = "enter" /\ pc'[q] = "lock")
  BY DEF Inv, Types
<1>2. \A q \in Proc : Moved(q) BY <1>1 DEF Moved
<1>3. QED BY <1>2, MovesClean

\* acquiresleep: bread goes on with a valid buffer, or to read it.
LEMMA AcquireSleepClean == ASSUME Inv, Clean, NEW p \in Proc, AcquireSleep(p) PROVE Clean'
<1> USE DEF AcquireSleep, At, Goto, disk, descs, rings, log, bounds, history
<1>1. cur[p] \in Node BY CleanFacts
<1>2. \A q \in Proc : \/ pc'[q] = pc[q]
                      \/ pc[q] = "lock" /\ pc'[q] = "lockwait"
                      \/ pc[q] = "lock" /\ pc'[q] = "hold" /\ B(q).valid
                      \/ pc[q] = "lock" /\ pc'[q] = "rw" /\ ~B(q).valid
  BY DEF Inv, Types
<1>3. \A n \in Node : /\ buf'[n].block = buf[n].block /\ buf'[n].data = buf[n].data
                      /\ buf'[n].refcnt = buf[n].refcnt /\ buf'[n].valid = buf[n].valid
  <2>1. buf \in [Node -> Buf] BY DEF Inv, Types
  <2>2. buf' = buf \/ buf' = [buf EXCEPT ![cur[p]].owner = p] OBVIOUS
  <2>3. QED BY <1>1, <2>1, <2>2 DEF Buf
<1>4. \A q \in Proc : Moved(q) BY <1>2 DEF Moved
<1>5. UNCHANGED <<list, lh, committing, mode, tail, want, cur, rw, truth, ondisk, idx,
                  avail, unbalanced, leaked, astray>>
  OBVIOUS
<1>6. QED BY <1>3, <1>4, <1>5, MovesClean

\* brelse's releasesleep: a reader gives its buffer back as it was.
LEMMA ReleaseSleepClean == ASSUME Inv, Clean, NEW p \in Proc, ReleaseSleep(p) PROVE Clean'
<1> USE DEF ReleaseSleep, At, WakeAndGoto, disk, descs, rings, log, bounds, history
<1>1. cur[p] \in Node BY CleanFacts
<1>2. \A q \in Proc : \/ pc'[q] = pc[q]
                      \/ pc[q] = "lockwait" /\ pc'[q] = "lock"
                      \/ pc[q] = "brelse" /\ pc'[q] = "unref"
                      \/ pc[q] = "hold" /\ mode[q] = "read" /\ pc'[q] = "unref"
  BY DEF Inv, Types
<1>3. \A n \in Node : /\ buf'[n].block = buf[n].block /\ buf'[n].data = buf[n].data
                      /\ buf'[n].refcnt = buf[n].refcnt /\ buf'[n].valid = buf[n].valid
  <2>1. buf \in [Node -> Buf] BY DEF Inv, Types
  <2>2. buf' = [buf EXCEPT ![cur[p]].owner = NoProc] OBVIOUS
  <2>3. QED BY <1>1, <2>1, <2>2 DEF Buf
<1>4. \A q \in Proc : Moved(q) BY <1>2 DEF Moved
<1>5. UNCHANGED <<list, lh, committing, mode, tail, want, cur, rw, truth, ondisk, idx,
                  avail, unbalanced, leaked, astray>>
  OBVIOUS
<1>6. QED BY <1>3, <1>4, <1>5, MovesClean

\* The polling loop touches continue_polling only.
LEMMA PollClean == ASSUME Inv, Clean, NEW p \in Proc, Poll(p) PROVE Clean'
<1>1. UNCHANGED <<buf, pc, list, lh, committing, mode, tail, want, cur, rw, truth, ondisk, idx,
                  avail, unbalanced, leaked, astray>>
  BY DEF Poll, cache, descs, rings, procs, log, bounds, history
<1>2. \A q \in Proc : Moved(q) BY <1>1 DEF Moved
<1>3. QED BY <1>1, <1>2, MovesClean

\* A process waits for descriptors, and may have woken others that do.
LEMMA VirtioWaitClean ==
    ASSUME Inv, Clean, NEW p \in Proc, VirtioStart(p), ~(Cardinality(free) >= 3)
    PROVE  Clean'
<1> USE DEF VirtioStart, At, WakeAndGoto, DescSleepers, descs, log, bounds, history
<1>1. UNCHANGED <<buf, list, lh, committing, mode, tail, want, cur, rw, truth, ondisk, idx,
                  avail, unbalanced, leaked, astray>>
  OBVIOUS
<1>2. \A q \in Proc : \/ pc'[q] = pc[q]
                      \/ pc[q] \in {"rw", "descwait"} /\ pc'[q] \in {"rw", "descwait"}
  BY DEF Inv, Types
<1>3. \A q \in Proc : Moved(q) BY <1>2 DEF Moved
<1>4. QED BY <1>1, <1>3, MovesClean

\* virtio_disk_intr clears b->disk of the finished requests, and wakes.
LEMMA VirtioIntrClean == ASSUME Inv, Clean, VirtioIntr PROVE Clean'
<1>1. UNCHANGED <<list, lh, committing, mode, tail, want, cur, rw, truth, ondisk, idx,
                  avail, unbalanced, leaked, astray>>
  BY DEF VirtioIntr, descs, log, bounds
<1>2. \A n \in Node : /\ buf'[n].block = buf[n].block /\ buf'[n].data = buf[n].data
                      /\ buf'[n].refcnt = buf[n].refcnt /\ buf'[n].valid = buf[n].valid
  <2>1. buf \in [Node -> Buf] BY DEF Inv, Types
  <2>2. buf' = [n \in Node |-> [buf[n] EXCEPT !.disk =
                   @ /\ n \notin {info[d] : d \in Range(used)}]]
    BY DEF VirtioIntr
  <2>3. QED BY <2>1, <2>2 DEF Buf
<1>3. \A q \in Proc : \/ pc'[q] = pc[q]
                      \/ pc[q] = "iowait" /\ pc'[q] = "woken"
  BY DEF VirtioIntr, Waiters, Inv, Types
<1>4. \A q \in Proc : Moved(q) BY <1>3 DEF Moved, InFlight
<1>5. QED BY <1>1, <1>2, <1>4, MovesClean

\* Who was woken for nothing waits again.
LEMMA VirtioAgainClean ==
    ASSUME Inv, Clean, NEW p \in Proc, VirtioDone(p), B(p).disk
    PROVE  Clean'
<1>1. UNCHANGED <<buf, list, lh, committing, mode, tail, want, cur, rw, truth, ondisk, idx,
                  avail, unbalanced, leaked, astray>>
  BY DEF VirtioDone, descs, rings, log, bounds, history
<1>2. \A q \in Proc : \/ pc'[q] = pc[q]
                      \/ pc[q] \in InFlight /\ pc'[q] \in InFlight
  BY DEF VirtioDone, At, Goto, InFlight, Inv, Types
<1>3. \A q \in Proc : Moved(q) BY <1>2 DEF Moved
<1>4. QED BY <1>1, <1>3, MovesClean

-----------------------------------------------------------------------------
(* The steps of the log. *)

\* bwrite: the installer writes the block that it holds.
LEMMA BwriteClean == ASSUME Inv, Clean, NEW p \in Proc, Bwrite(p) PROVE Clean'
<1> USE DEF Bwrite, At, Goto, cache, disk, descs, rings, log, bounds, history
<1>1. UNCHANGED <<buf, list, lh, committing, mode, tail, want, cur, truth, ondisk, idx,
                  avail, unbalanced, leaked, astray>>
  OBVIOUS
<1>2. /\ pc[p] = "hold" /\ mode[p] = "install" /\ pc'[p] = "rw" /\ rw'[p] = TRUE
      /\ rw' \in [Proc -> BOOLEAN]
      /\ \A q \in Proc : q # p => pc'[q] = pc[q] /\ rw'[q] = rw[q]
  BY DEF Inv, Types, Clean, CleanTypes
<1> HIDE DEF Bwrite
<1>3. CleanTypes' BY <1>1, <1>2 DEF Clean, CleanTypes
<1>4. CallInv' BY <1>1, <1>2 DEF Clean, CallInv, CallOK
<1>5. CommitInv' BY <1>1, <1>2 DEF Clean, CommitInv, Installs
<1>6. \A b : Pin(b)' <=> Pin(b)
  <2>1. \A q \in Proc : pc'[q] \in {"brelse", "unref"} <=> pc[q] \in {"brelse", "unref"}
    BY <1>2
  <2>2. QED BY <1>1, <2>1, PinSame
<1>7. PinInv' BY <1>1, <1>6, PinKept DEF Clean
<1>8. \A q \in Proc :
          /\ Home(q)' => Home(q)
          /\ Read(q)' => Read(q)
          /\ Reading(q)' => Reading(q)
          /\ pc'[q] \in InFlight => pc[q] \in InFlight /\ rw'[q] = rw[q]
  <2> TAKE q \in Proc
  <2>1. CASE q = p BY <1>2, <2>1 DEF Home, Read, Reading, InFlight, Locked
  <2>2. CASE q # p BY <1>1, <1>2, <2>2 DEF Home, Read, Reading
  <2>3. QED BY <2>1, <2>2
<1>9. \A b : Dirty(b) => Dirty(b)' BY <1>1, <1>8, DirtySame
<1>10. \A q \in Proc : Read(q) \/ Reading(q) \/ pc[q] \in InFlight => cur[q] \in Range(list)
  BY CleanFacts DEF Locked
<1>11. DataInv' BY <1>1, <1>8, <1>9, <1>10, DataKept
<1>12. QED BY <1>3, <1>4, <1>5, <1>7, <1>11 DEF Clean

\* commit starts when nobody is inside a transaction, from the first block.
LEMMA StartCommitClean == ASSUME Inv, Clean, NEW p \in Proc, StartCommit(p) PROVE Clean'
<1> USE DEF StartCommit, At, cache, disk, descs, rings, bounds, history
<1>1. UNCHANGED <<buf, pc, list, lh, rw, want, cur, truth, ondisk, idx,
                  avail, unbalanced, leaked, astray>>
  OBVIOUS
<1>2. /\ pc[p] = "idle" /\ mode[p] = "none" /\ ~committing /\ committing' = TRUE
      /\ \A q \in Proc : mode[q] # "op"
      /\ mode' \in [Proc -> Modes] /\ mode'[p] = "install"
      /\ tail' \in [Proc -> Nat] /\ tail'[p] = 1
      /\ \A q \in Proc : q # p => mode'[q] = mode[q] /\ tail'[q] = tail[q]
  BY DEF Clean, CleanTypes, Modes
<1>3. \A q \in Proc : mode[q] # "install" BY <1>2 DEF Clean, CommitInv, Installs
<1> HIDE DEF StartCommit
<1>4. CleanTypes' BY <1>1, <1>2 DEF Clean, CleanTypes
<1>5. CallInv'
  <2> SUFFICES ASSUME NEW q \in Proc PROVE CallOK(q)' BY DEF CallInv
  <2>1. CallOK(q) BY DEF Clean, CallInv
  <2>2. CASE q = p BY <1>1, <1>2, <2>1, <2>2 DEF CallOK
  <2>3. CASE q # p BY <1>1, <1>2, <2>1, <2>3 DEF CallOK
  <2>4. QED BY <2>2, <2>3
<1>6. CommitInv'
  <2>1. Len(lh) \in Nat BY DEF Clean, CleanTypes
  <2>2. tail'[p] \in 1..(Len(lh') + 1) BY <1>1, <1>2, <2>1
  <2>3. \A q \in Proc : mode'[q] # "op" /\ (mode'[q] = "install" => q = p) BY <1>2, <1>3
  <2>4. QED BY <1>1, <1>2, <2>2, <2>3 DEF CommitInv, Installs
<1>7. \A b : (Pin(b)' <=> b \in Range(lh)) /\ (Pin(b) <=> b \in Range(lh))
             /\ (Dirty(b)' <=> b \in Range(lh)) /\ (Dirty(b) <=> b \in Range(lh))
  <2> SUFFICES ASSUME NEW b
               PROVE  (Pin(b)' <=> b \in Range(lh)) /\ (Pin(b) <=> b \in Range(lh))
                      /\ (Dirty(b)' <=> b \in Range(lh)) /\ (Dirty(b) <=> b \in Range(lh))
    OBVIOUS
  <2>1. (Pin(b) <=> b \in Range(lh)) /\ (Dirty(b) <=> b \in Range(lh))
    BY <1>3 DEF Pin, Dirty
  <2>2. \A q \in Proc : mode'[q] = "install" => ~Passed(q, b)' /\ ~Home(q)' /\ pc'[q] = "idle"
    BY <1>1, <1>2, <1>3 DEF Passed, Home, InFlight
  <2>3. (Pin(b)' <=> b \in Range(lh)) /\ (Dirty(b)' <=> b \in Range(lh))
    BY <1>1, <2>2 DEF Pin, Dirty
  <2>4. QED BY <2>1, <2>3
<1>8. PinInv' BY <1>1, <1>7, PinKept DEF Clean
<1>9. \A q \in Proc : (Read(q)' => Read(q)) /\ (Reading(q)' => Reading(q))
  BY <1>1 DEF Read, Reading
<1>10. \A q \in Proc : Read(q) \/ Reading(q) \/ pc[q] \in InFlight => cur[q] \in Range(list)
  BY CleanFacts DEF Locked
<1>11. \A b : Dirty(b) => Dirty(b)' BY <1>7
<1>12. DataInv' BY <1>1, <1>9, <1>10, <1>11, DataKept
<1>13. QED BY <1>4, <1>5, <1>6, <1>8, <1>12 DEF Clean

\* The commit ends when each block of the log is written home and unpinned.
LEMMA EndCommitClean == ASSUME Inv, Clean, NEW p \in Proc, EndCommit(p) PROVE Clean'
<1> USE DEF EndCommit, At, cache, disk, descs, rings, bounds, history
<1>1. UNCHANGED <<buf, pc, list, rw, want, cur, truth, ondisk, idx, avail, unbalanced, leaked, astray>>
  OBVIOUS
<1>2. /\ pc[p] = "idle" /\ mode[p] = "install" /\ tail[p] > Len(lh) /\ lh' = <<>>
      /\ committing' = FALSE
      /\ mode' \in [Proc -> Modes] /\ mode'[p] = "none"
      /\ tail' \in [Proc -> Nat]
      /\ \A q \in Proc : q # p => mode'[q] = mode[q]
  BY DEF Clean, CleanTypes, Modes
<1>3. \A q \in Proc : mode[q] = "install" => q = p BY <1>2 DEF Clean, CommitInv, Installs
<1> HIDE DEF EndCommit
<1>4. CleanTypes'
  <2>1. lh' \in Seq(Block) /\ IsInjective(lh') BY <1>2 DEF IsInjective
  <2>2. QED BY <1>1, <1>2, <2>1 DEF Clean, CleanTypes
<1>5. CallInv'
  <2> SUFFICES ASSUME NEW q \in Proc PROVE CallOK(q)' BY DEF CallInv
  <2>1. CallOK(q) BY DEF Clean, CallInv
  <2>2. CASE q = p BY <1>1, <1>2, <2>1, <2>2 DEF CallOK
  <2>3. CASE q # p BY <1>1, <1>2, <2>1, <2>3 DEF CallOK
  <2>4. QED BY <2>2, <2>3
<1>6. CommitInv'
  <2>1. \A q \in Proc : mode'[q] # "install" BY <1>2, <1>3
  <2>2. QED BY <2>1 DEF CommitInv
<1>7. \A b : ~Pin(b)' /\ ~Pin(b)
  <2> SUFFICES ASSUME NEW b PROVE ~Pin(b)' /\ ~Pin(b) OBVIOUS
  <2>1. ~Pin(b)'
    <3>1. Range(lh') = {} BY <1>2 DEF Range
    <3>2. QED BY <3>1 DEF Pin
  <2>2. ~Pin(b)
    <3>1. SUFFICES ASSUME b \in Range(lh) PROVE Passed(p, b) BY <1>2 DEF Pin
    <3>2. lh \in Seq(Block) /\ tail[p] \in Nat BY DEF Clean, CleanTypes
    <3>3. PICK k \in 1..Len(lh) : lh[k] = b BY <3>1, <3>2 DEF Range
    <3>4. k \in 1..(tail[p] - 1) BY <1>2, <3>2, <3>3
    <3>5. QED BY <3>3, <3>4 DEF Passed
  <2>3. QED BY <2>1, <2>2
<1>14. \A b : ~Dirty(b) BY <1>7, DirtyPinned
<1>8. PinInv' BY <1>1, <1>7, PinKept DEF Clean
<1>9. \A q \in Proc : (Read(q)' => Read(q)) /\ (Reading(q)' => Reading(q))
  BY <1>1 DEF Read, Reading
<1>10. \A q \in Proc : Read(q) \/ Reading(q) \/ pc[q] \in InFlight => cur[q] \in Range(list)
  BY CleanFacts DEF Locked
<1>12. DataInv' BY <1>1, <1>9, <1>10, <1>14, DataKept
<1>13. QED BY <1>4, <1>5, <1>6, <1>8, <1>12 DEF Clean

\* Where two processes have nodes of the list, equal blocks are equal nodes.
LEMMA BlockNode ==
    ASSUME Inv, Clean, NEW m \in Range(list), NEW n \in Range(list),
           buf[m].block = buf[n].block, buf[n].block # NoBlock
    PROVE  m = n
  BY DEF Inv, BlockInv

\* log_write changes the block in its locked buffer, and pins the buffer the
\* first time; no commit is under way.
LEMMA LogWriteClean == ASSUME Inv, Clean, NEW p \in Proc, LogWrite(p) PROVE Clean'
<1>0. PICK n \in Node : n = cur[p] BY CleanFacts DEF LogWrite, At
<1>1. PICK b \in Block : b = want[p] /\ buf[n].block = b /\ n \in Range(list)
  BY <1>0, CleanFacts DEF LogWrite, At, InSection, Locked, B
<1>2. /\ pc[p] = "hold" /\ mode[p] = "op" /\ pc' = [pc EXCEPT ![p] = "brelse"]
      /\ UNCHANGED <<list, mode, rw, tail, want, cur, ondisk, idx, avail, committing,
                     unbalanced, leaked>>
  BY DEF LogWrite, At, Goto, disk, descs, rings, bounds
<1>3. PICK k \in {0, 1} : k = IF b \notin Range(lh) THEN 1 ELSE 0 OBVIOUS
<1>4. /\ buf' = [buf EXCEPT ![n].data = 1 - @, ![n].refcnt = @ + k]
      /\ truth' = [truth EXCEPT ![b] = 1 - buf[n].data]
      /\ lh' = IF b \notin Range(lh) THEN Append(lh, b) ELSE lh
  BY <1>0, <1>1, <1>3 DEF LogWrite, B
<1>5. /\ buf \in [Node -> Buf] /\ pc \in [Proc -> Pc] /\ truth \in [Block -> Val]
      /\ lh \in Seq(Block) /\ IsInjective(lh)
  BY DEF Inv, Types, Clean, CleanTypes
<1>6. /\ buf[n].data \in Val /\ buf[n].refcnt \in Int /\ 1 - buf[n].data \in Val
  <2>1. buf[n].data \in {0, 1} /\ buf[n].refcnt \in Int BY <1>5 DEF Buf, Val
  <2>2. QED BY <2>1 DEF Val
<1>7. PICK v \in Val : v = 1 - buf[n].data BY <1>6
<1>8. PICK c \in Int : c = buf[n].refcnt + k BY <1>6
<1>9. /\ buf'[n].data = v /\ buf'[n].refcnt = c /\ buf'[n].block = b
      /\ buf'[n].valid = buf[n].valid
      /\ \A m \in Node : m # n => buf'[m] = buf[m]
  <2>1. buf' = [buf EXCEPT ![n].data = v, ![n].refcnt = c] BY <1>4, <1>7, <1>8
  <2>2. QED BY ONLY <1>1, <1>5, <2>1 DEF Buf
<1>10. /\ truth' \in [Block -> Val] /\ truth'[b] = v
       /\ \A e \in Block : e # b => truth'[e] = truth[e]
  BY <1>4, <1>5, <1>7
<1>11. /\ pc'[p] = "brelse" /\ \A q \in Proc : q # p => pc'[q] = pc[q]
  BY <1>2, <1>5
<1>12. lh' \in Seq(Block) /\ IsInjective(lh') /\ Range(lh') = Range(lh) \cup {b}
  <2>1. CASE b \in Range(lh) BY <1>4, <1>5, <2>1
  <2>2. CASE b \notin Range(lh) BY <1>4, <1>5, <2>2, AppendRange
  <2>3. QED BY <2>1, <2>2
<1>13. \A q \in Proc : mode[q] # "install"
  BY <1>2 DEF Clean, CommitInv, Installs
<1>14. \A e : (Pin(e) <=> e \in Range(lh)) /\ (Dirty(e) <=> e \in Range(lh))
  BY <1>13 DEF Pin, Dirty
<1>15. \A e : (Pin(e)' <=> e \in Range(lh')) /\ (Dirty(e)' <=> e \in Range(lh'))
  BY <1>2, <1>13 DEF Pin, Dirty
<1>16. CleanTypes'
  <2>1. astray = {} BY DEF Clean, CleanTypes
  <2>2. b \in Range(lh) => buf[n].refcnt = Cardinality(Users(n)) + 1
    BY <1>1, <1>14 DEF Clean, PinInv, Pins
  <2>3. Cardinality(Users(n)) \in Nat BY UsersFinite
  <2>4. b \in Range(lh) => ~(buf[n].refcnt <= Cardinality(Users(n))) BY <2>2, <2>3
  <2>5. astray' = IF b \notin Range(lh) THEN astray \ {b}
                  ELSE IF buf[n].refcnt <= Cardinality(Users(n)) THEN astray \cup {b}
                  ELSE astray
    BY <1>0, <1>1 DEF LogWrite, B
  <2>6. astray' = {} BY ONLY <2>1, <2>4, <2>5
  <2>7. QED BY <1>2, <1>10, <1>12, <2>6 DEF Clean, CleanTypes
<1>17. CallInv'
  <2> SUFFICES ASSUME NEW q \in Proc PROVE CallOK(q)' BY DEF CallInv
  <2>1. CallOK(q) BY DEF Clean, CallInv
  <2>2. CASE q = p BY <1>2, <1>11, <2>1, <2>2 DEF CallOK
  <2>3. CASE q # p BY <1>2, <1>11, <2>1, <2>3 DEF CallOK
  <2>4. QED BY <2>2, <2>3
<1>18. CommitInv' BY <1>2, <1>13 DEF CommitInv
<1>19. \A m \in Range(list) : m \in Node /\ (m # n => buf[m].block # b)
  BY <1>1, BlockNode, CleanFacts, NamesDiffer
<1>20. B(p).valid /\ buf[n].valid
  BY <1>0, <1>2 DEF Clean, DataInv, Read, B
<1>21. PinInv'
  <2>1. \A m \in Range(list) : Users(m)' = Users(m) BY <1>2 DEF Users
  <2>2. \A m \in Range(list) : m # n =>
          buf'[m].refcnt = Cardinality(Users(m)) + (IF buf'[m].block \in Range(lh') THEN 1 ELSE 0)
    <3> TAKE m \in Range(list)
    <3>1. buf[m].refcnt = Cardinality(Users(m)) + (IF buf[m].block \in Range(lh) THEN 1 ELSE 0)
      BY <1>14 DEF Clean, PinInv, Pins
    <3>2. m # n => buf'[m] = buf[m] /\ (buf[m].block \in Range(lh') <=> buf[m].block \in Range(lh))
      BY <1>9, <1>12, <1>19
    <3>3. QED BY <3>1, <3>2
  <2>3. buf'[n].refcnt = Cardinality(Users(n)) + (IF buf'[n].block \in Range(lh') THEN 1 ELSE 0)
    <3>1. buf[n].refcnt = Cardinality(Users(n)) + (IF b \in Range(lh) THEN 1 ELSE 0)
      BY <1>1, <1>14 DEF Clean, PinInv, Pins
    <3>2. Cardinality(Users(n)) \in Nat BY UsersFinite
    <3>3. buf'[n].refcnt = Cardinality(Users(n)) + 1
      BY <1>3, <1>8, <1>9, <3>1, <3>2
    <3>4. QED BY <1>9, <1>12, <3>3
  <2>4. \A m \in Range(list) : Pins(m)' = IF buf'[m].block \in Range(lh') THEN 1 ELSE 0
    BY <1>15 DEF Pins
  <2>5. \A m \in Range(list') : buf'[m].refcnt = Cardinality(Users(m)') + Pins(m)'
    BY <1>2, <2>1, <2>2, <2>3, <2>4
  <2>6. \A e \in Block : Pin(e)' => \E m \in Range(list') : buf'[m].block = e /\ buf'[m].valid
    <3> SUFFICES ASSUME NEW e \in Block, Pin(e)'
                 PROVE  \E m \in Range(list) : buf'[m].block = e /\ buf'[m].valid
      BY <1>2
    <3>1. CASE e = b BY <1>1, <1>9, <1>20, <3>1
    <3>2. CASE e # b
      <4>1. Pin(e) BY <1>12, <1>14, <1>15, <3>2
      <4>2. PICK m \in Range(list) : buf[m].block = e /\ buf[m].valid
        BY <4>1 DEF Clean, PinInv
      <4>3. QED BY <1>1, <1>9, <1>19, <3>2, <4>2
    <3>3. QED BY <3>1, <3>2
  <2>7. QED BY <2>5, <2>6 DEF PinInv
<1>22. \A q \in Proc : q # p /\ pc[q] \in Locked =>
          cur[q] \in Range(list) /\ cur[q] # n /\ want[q] \in Block /\ want[q] # b
  <2>1. \A q \in Proc : q # p /\ pc[q] \in Locked => cur[q] # n
    BY <1>0, <1>2, PlaceFacts DEF Inv, Locked
  <2>2. QED BY <1>19, <2>1, CleanFacts DEF B
<1>23. DataInv'
  <2>1. \A m \in Range(list') : buf'[m].valid =>
          buf'[m].block \in Block /\ buf'[m].data = truth'[buf'[m].block]
    <3> SUFFICES ASSUME NEW m \in Range(list), buf'[m].valid
                 PROVE  buf'[m].block \in Block /\ buf'[m].data = truth'[buf'[m].block]
      BY <1>2
    <3>1. CASE m = n BY <1>9, <1>10, <3>1
    <3>2. CASE m # n
      <4>1. buf'[m] = buf[m] /\ buf[m].block # b BY <1>9, <1>19, <3>2
      <4>2. buf[m].block \in Block /\ buf[m].data = truth[buf[m].block]
        BY <4>1 DEF Clean, DataInv
      <4>3. QED BY <1>10, <4>1, <4>2
    <3>3. QED BY <3>1, <3>2
  <2>2. \A e \in Block : ~Dirty(e)' => ondisk'[e] = truth'[e]
    BY <1>2, <1>10, <1>12, <1>14, <1>15 DEF Clean, DataInv
  <2>3. \A q \in Proc : Read(q)' => B(q)'.valid
    <3> SUFFICES ASSUME NEW q \in Proc, Read(q)' PROVE B(q)'.valid OBVIOUS
    <3>1. CASE q = p BY <1>0, <1>2, <1>9, <1>20, <3>1 DEF B
    <3>2. CASE q # p
      <4>1. Read(q) BY <1>2, <1>11, <3>2 DEF Read
      <4>2. B(q).valid /\ pc[q] \in Locked BY <4>1, CleanFacts DEF Clean, DataInv
      <4>3. buf'[cur[q]] = buf[cur[q]] BY <1>9, <1>19, <1>22, <3>2, <4>2
      <4>4. QED BY <1>2, <4>2, <4>3 DEF B
    <3>3. QED BY <3>1, <3>2
  <2>4. \A q \in Proc : Reading(q)' => ~B(q)'.valid
    <3> SUFFICES ASSUME NEW q \in Proc, Reading(q)' PROVE ~B(q)'.valid OBVIOUS
    <3>1. CASE q = p BY <1>11, <3>1 DEF Reading, InFlight
    <3>2. CASE q # p
      <4>1. Reading(q) BY <1>2, <1>11, <3>2 DEF Reading
      <4>2. ~B(q).valid /\ pc[q] \in Locked BY <4>1, CleanFacts DEF Clean, DataInv
      <4>3. buf'[cur[q]] = buf[cur[q]] BY <1>9, <1>19, <1>22, <3>2, <4>2
      <4>4. QED BY <1>2, <4>2, <4>3 DEF B
    <3>3. QED BY <3>1, <3>2
  <2>5. \A q \in Proc : pc'[q] \in InFlight /\ ~rw'[q] /\ idx'[q][1] \notin Range(avail') =>
          B(q)'.data = truth'[want'[q]]
    <3> SUFFICES ASSUME NEW q \in Proc,
                        pc'[q] \in InFlight /\ ~rw'[q] /\ idx'[q][1] \notin Range(avail')
                 PROVE  B(q)'.data = truth'[want'[q]]
      OBVIOUS
    <3>1. q # p BY <1>11 DEF InFlight
    <3>2. pc[q] \in InFlight /\ ~rw[q] /\ idx[q][1] \notin Range(avail) BY <1>2, <1>11, <3>1
    <3>3. B(q).data = truth[want[q]] BY <3>2 DEF Clean, DataInv
    <3>4. buf'[cur[q]] = buf[cur[q]] /\ want[q] \in Block /\ want[q] # b
      BY <1>9, <1>19, <1>22, <3>1, <3>2 DEF Locked
    <3>5. QED BY <1>2, <1>10, <3>3, <3>4 DEF B
  <2>6. QED BY <2>1, <2>2, <2>3, <2>4, <2>5 DEF DataInv
<1>24. QED BY <1>16, <1>17, <1>18, <1>21, <1>23 DEF Clean

\* bunpin takes back the log's own reference: the block is written home.
LEMMA BunpinClean == ASSUME Inv, Clean, NEW p \in Proc, Bunpin(p) PROVE Clean'
<1>0. PICK n \in Node : n = cur[p] BY CleanFacts DEF Bunpin, At
<1>1. PICK b \in Block : b = want[p] /\ buf[n].block = b /\ n \in Range(list)
  BY <1>0, CleanFacts DEF Bunpin, At, InSection, Locked, B
<1>2. /\ pc[p] = "written" /\ pc' = [pc EXCEPT ![p] = "brelse"]
      /\ UNCHANGED <<list, mode, rw, tail, want, cur, ondisk, idx, avail, lh, committing,
                     truth, leaked, astray>>
      /\ unbalanced' = (unbalanced \/ buf[n].refcnt <= Cardinality(Users(n)))
      /\ buf' = [buf EXCEPT ![n].refcnt = @ - 1]
  BY <1>0 DEF Bunpin, At, Goto, disk, descs, rings, log, bounds, B
<1>3. /\ buf \in [Node -> Buf] /\ pc \in [Proc -> Pc] /\ lh \in Seq(Block) /\ IsInjective(lh)
      /\ unbalanced = FALSE
  BY DEF Inv, Types, Clean, CleanTypes
<1>4. /\ buf[n].refcnt \in Int BY <1>3 DEF Buf
<1>5. PICK c \in Int : c = buf[n].refcnt - 1 BY <1>4
<1>6. /\ buf'[n].refcnt = c
      /\ \A m \in Node : /\ m # n => buf'[m] = buf[m]
                         /\ buf'[m].block = buf[m].block /\ buf'[m].valid = buf[m].valid
                         /\ buf'[m].data = buf[m].data
  <2>1. buf' = [buf EXCEPT ![n].refcnt = c] BY <1>2, <1>5
  <2>2. QED BY ONLY <1>3, <2>1 DEF Buf
<1>7. /\ pc'[p] = "brelse" /\ \A q \in Proc : q # p => pc'[q] = pc[q]
  BY <1>2, <1>3
<1>8. /\ mode[p] = "install" /\ rw[p] /\ tail[p] \in 1..Len(lh) /\ b = lh[tail[p]]
      /\ \A q \in Proc : mode[q] = "install" => q = p
  BY <1>1, <1>2, <1>3 DEF Clean, CallInv, CallOK, CommitInv, Installs
<1>9. Pin(b) /\ ~Pin(b)'
  <2>1. b \in Range(lh) BY <1>3, <1>8 DEF Range
  <2>2. ~Passed(p, b)
    <3> SUFFICES ASSUME NEW k \in 1..(tail[p] - 1), k <= Len(lh), lh[k] = b PROVE FALSE
      BY DEF Passed
    <3>1. k \in DOMAIN lh /\ tail[p] \in DOMAIN lh /\ k # tail[p] BY <1>3, <1>8
    <3>2. QED BY <1>3, <1>8, <3>1 DEF IsInjective
  <2>3. Pin(b) BY <1>2, <1>8, <2>1, <2>2 DEF Pin
  <2>4. ~Pin(b)' BY <1>1, <1>2, <1>7, <1>8 DEF Pin
  <2>5. QED BY <2>3, <2>4
<1>10. \A e : e # b => (Pin(e)' <=> Pin(e))
  <2> SUFFICES ASSUME NEW e, e # b PROVE Pin(e)' <=> Pin(e) OBVIOUS
  <2>1. \A q \in Proc : Passed(q, e)' <=> Passed(q, e) BY <1>2 DEF Passed
  <2>2. \A q \in Proc : mode[q] = "install" => want[q] # e BY <1>1, <1>8
  <2>3. QED BY <1>2, <2>1, <2>2 DEF Pin
<1>11. \A m \in Range(list) : m \in Node /\ (m # n => buf[m].block # b)
  BY <1>1, BlockNode, CleanFacts, NamesDiffer
<1>12. buf[n].refcnt = Cardinality(Users(n)) + 1 /\ Cardinality(Users(n)) \in Nat
  <2>1. Pins(n) = 1 BY <1>1, <1>9 DEF Pins
  <2>2. QED BY <1>1, <2>1, UsersFinite DEF Clean, PinInv
<1>13. unbalanced' = FALSE
  <2>1. ~(buf[n].refcnt <= Cardinality(Users(n))) BY <1>12
  <2>2. QED BY <1>2, <1>3, <2>1, Zenon
<1>14. CleanTypes' BY <1>2, <1>13 DEF Clean, CleanTypes
<1>15. CallInv'
  <2> SUFFICES ASSUME NEW q \in Proc PROVE CallOK(q)' BY DEF CallInv
  <2>1. CallOK(q) BY DEF Clean, CallInv
  <2>2. CASE q = p BY <1>2, <1>7, <2>1, <2>2 DEF CallOK
  <2>3. CASE q # p BY <1>2, <1>7, <2>1, <2>3 DEF CallOK
  <2>4. QED BY <2>2, <2>3
<1>16. CommitInv'
  <2>1. \A q \in Proc : pc'[q] # "idle" => pc[q] # "idle" BY <1>2, <1>7
  <2>2. QED BY <1>2, <2>1 DEF Clean, CommitInv, Installs
<1>17. PinInv'
  <2>1. \A m \in Range(list) : Users(m)' = Users(m) BY <1>2 DEF Users
  <2>2. \A m \in Range(list) : m # n => buf'[m].refcnt = Cardinality(Users(m)) + Pins(m)'
    <3> SUFFICES ASSUME NEW m \in Range(list), m # n
                 PROVE  buf'[m].refcnt = Cardinality(Users(m)) + Pins(m)'
      OBVIOUS
    <3>1. PICK e : e = buf[m].block OBVIOUS
    <3>2. buf'[m] = buf[m] /\ e # b BY <1>6, <1>11, <3>1
    <3>3. Pin(e)' <=> Pin(e) BY <1>10, <3>2
    <3>4. Pins(m)' = IF Pin(e)' THEN 1 ELSE 0 BY <3>1, <3>2 DEF Pins, Pin, Passed
    <3>5. Pins(m) = IF Pin(e) THEN 1 ELSE 0 BY <3>1 DEF Pins
    <3>6. buf[m].refcnt = Cardinality(Users(m)) + Pins(m) BY DEF Clean, PinInv
    <3>7. QED BY <3>2, <3>3, <3>4, <3>5, <3>6
  <2>3. buf'[n].refcnt = Cardinality(Users(n)) + Pins(n)'
    <3>1. Pins(n)' = 0 BY <1>1, <1>6, <1>9 DEF Pins, Pin, Passed
    <3>2. QED BY <1>5, <1>6, <1>12, <3>1
  <2>4. \A m \in Range(list') : buf'[m].refcnt = Cardinality(Users(m)') + Pins(m)'
    BY <1>2, <2>1, <2>2, <2>3
  <2>5. \A e \in Block : Pin(e)' => \E m \in Range(list') : buf'[m].block = e /\ buf'[m].valid
    BY <1>2, <1>6, <1>9, <1>10, <1>11 DEF Clean, PinInv
  <2>6. QED BY <2>4, <2>5 DEF PinInv
<1>18. \A q \in Proc :
          /\ Home(q)' => Home(q)
          /\ Read(q)' => Read(q)
          /\ Reading(q)' => Reading(q)
          /\ pc'[q] \in InFlight => pc[q] \in InFlight
  <2> TAKE q \in Proc
  <2>1. CASE q = p BY <1>2, <1>7, <2>1 DEF Home, Read, Reading, InFlight, Locked
  <2>2. CASE q # p BY <1>2, <1>7, <2>2 DEF Home, Read, Reading
  <2>3. QED BY <2>1, <2>2
<1>19. \A e : Dirty(e) => Dirty(e)' BY <1>2, <1>18, DirtySame
<1>20. \A q \in Proc : Read(q) \/ Reading(q) \/ pc[q] \in InFlight => cur[q] \in Range(list)
  BY CleanFacts DEF Locked
<1>21. DataInv' BY <1>2, <1>6, <1>11, <1>18, <1>19, <1>20, DataKept
<1>22. QED BY <1>14, <1>15, <1>16, <1>17, <1>21 DEF Clean

\* brelse drops the reference of its process; the installer goes on to the next
\* block.
LEMMA BrelseClean == ASSUME Inv, Clean, NEW p \in Proc, Brelse(p) PROVE Clean'
<1>0. PICK n \in Node : n = cur[p] BY CleanFacts DEF Brelse, At
<1>1. PICK b \in Block : b = want[p] /\ buf[n].block = b /\ n \in Range(list)
  BY <1>0, CleanFacts DEF Brelse, At, InSection, B
<1>2. /\ pc[p] = "unref" /\ pc' = [pc EXCEPT ![p] = "idle"]
      /\ buf' = [buf EXCEPT ![n].refcnt = @ - 1] /\ list' \in {MoveToFront(n), list}
      /\ cur' = [cur EXCEPT ![p] = NoNode] /\ want' = [want EXCEPT ![p] = NoBlock]
      /\ rw' = [rw EXCEPT ![p] = FALSE]
      /\ \/ mode[p] = "install" /\ tail' = [tail EXCEPT ![p] = @ + 1] /\ mode' = mode
         \/ mode[p] # "install" /\ mode' = [mode EXCEPT ![p] = "none"] /\ tail' = tail
      /\ UNCHANGED <<ondisk, idx, avail, lh, committing, truth, unbalanced, leaked, astray>>
  BY <1>0 DEF Brelse, At, Goto, disk, descs, rings, log, bounds, history
<1>3. /\ buf \in [Node -> Buf] /\ pc \in [Proc -> Pc] /\ lh \in Seq(Block)
      /\ cur \in [Proc -> Node \cup {NoNode}] /\ want \in [Proc -> Block \cup {NoBlock}]
      /\ mode \in [Proc -> Modes] /\ rw \in [Proc -> BOOLEAN] /\ tail \in [Proc -> Nat]
  BY DEF Inv, Types, Clean, CleanTypes
<1>4. buf[n].refcnt \in Int BY <1>3 DEF Buf
<1>5. PICK c \in Int : c = buf[n].refcnt - 1 BY <1>4
<1>6. /\ buf'[n].refcnt = c
      /\ \A m \in Node : /\ m # n => buf'[m] = buf[m]
                         /\ buf'[m].block = buf[m].block /\ buf'[m].valid = buf[m].valid
                         /\ buf'[m].data = buf[m].data
  <2>1. buf' = [buf EXCEPT ![n].refcnt = c] BY <1>2, <1>5
  <2>2. QED BY ONLY <1>3, <2>1 DEF Buf
<1>7. Range(list') = Range(list) BY <1>1, <1>2, MoveToFrontFacts DEF Inv
<1>8. PICK t \in Nat : t = tail[p] BY <1>3
<1>9. /\ mode' \in [Proc -> Modes] /\ tail' \in [Proc -> Nat]
      /\ rw' \in [Proc -> BOOLEAN] /\ rw'[p] = FALSE
      /\ \A q \in Proc : q # p => mode'[q] = mode[q] /\ tail'[q] = tail[q] /\ rw'[q] = rw[q]
      /\ mode[p] = "install" => mode'[p] = "install" /\ tail'[p] = t + 1
      /\ mode[p] # "install" => mode'[p] = "none"
  <2>1. rw' \in [Proc -> BOOLEAN] /\ rw'[p] = FALSE /\ \A q \in Proc : q # p => rw'[q] = rw[q]
    BY <1>2, <1>3
  <2>2. CASE mode[p] = "install" /\ tail' = [tail EXCEPT ![p] = @ + 1] /\ mode' = mode
    <3>1. tail' = [tail EXCEPT ![p] = t + 1] /\ t + 1 \in Nat BY <1>8, <2>2
    <3>2. tail' \in [Proc -> Nat] /\ tail'[p] = t + 1 /\ \A q \in Proc : q # p => tail'[q] = tail[q]
      BY ONLY <1>3, <3>1
    <3>3. QED BY <1>3, <2>1, <2>2, <3>2
  <2>3. CASE mode[p] # "install" /\ mode' = [mode EXCEPT ![p] = "none"] /\ tail' = tail
    BY <1>3, <2>1, <2>3 DEF Modes
  <2>4. QED BY <1>2, <2>2, <2>3
<1>10. /\ pc'[p] = "idle" /\ \A q \in Proc : q # p => pc'[q] = pc[q]
       /\ cur'[p] = NoNode /\ \A q \in Proc : q # p => cur'[q] = cur[q]
       /\ \A q \in Proc : q # p => want'[q] = want[q]
  BY <1>2, <1>3
<1>11. mode[p] = "install" =>
          /\ t \in 1..Len(lh) /\ b = lh[t] /\ Len(lh) \in Nat
          /\ \A q \in Proc : mode[q] = "install" => q = p
  BY <1>1, <1>2, <1>3, <1>8 DEF Clean, CommitInv, Installs
<1>12. CleanTypes' BY <1>2, <1>9 DEF Clean, CleanTypes
<1>13. CallInv'
  <2> SUFFICES ASSUME NEW q \in Proc PROVE CallOK(q)' BY DEF CallInv
  <2>1. CallOK(q) BY DEF Clean, CallInv
  <2>2. CASE q = p BY <1>9, <1>10, <2>1, <2>2 DEF CallOK
  <2>3. CASE q # p BY <1>9, <1>10, <2>1, <2>3 DEF CallOK
  <2>4. QED BY <2>2, <2>3
<1>14. CommitInv'
  <2> SUFFICES ASSUME NEW q \in Proc, mode'[q] = "install" PROVE Installs(q)' BY DEF CommitInv
  <2>1. mode[q] = "install" /\ \A r \in Proc : mode'[r] = "op" => mode[r] = "op" BY <1>9
  <2>2. Installs(q) BY <2>1 DEF Clean, CommitInv
  <2>3. \A r \in Proc : mode'[r] = "install" => r = q BY <1>9, <2>1, <2>2 DEF Installs
  <2>4. CASE q = p
    <3>1. tail'[q] = t + 1 /\ t + 1 \in 1..(Len(lh) + 1) BY <1>9, <1>11, <2>1, <2>4
    <3>2. QED BY <1>2, <1>10, <2>1, <2>2, <2>3, <2>4, <3>1 DEF Installs
  <2>5. CASE q # p BY <1>2, <1>9, <1>10, <2>1, <2>2, <2>3, <2>5 DEF Installs
  <2>6. QED BY <2>4, <2>5
\* Behind its brelse the installer has passed the block that it had.
<1>15. ASSUME NEW e, mode[p] = "install" PROVE Passed(p, e)' <=> (Passed(p, e) \/ e = b)
  <2>1. tail'[p] = t + 1 /\ tail[p] = t /\ t \in 1..Len(lh) /\ lh' = lh /\ lh[t] = b
    BY <1>2, <1>8, <1>9, <1>11, <1>15
  <2>2. 1..((t + 1) - 1) = 1..(t - 1) \cup {t} /\ t <= Len(lh) BY <1>11, <2>1
  <2>3. QED BY <2>1, <2>2 DEF Passed
<1>16. \A e \in Block : (Pin(e)' <=> Pin(e)) /\ (Dirty(e)' <=> Dirty(e))
  <2> SUFFICES ASSUME NEW e \in Block PROVE (Pin(e)' <=> Pin(e)) /\ (Dirty(e)' <=> Dirty(e))
    OBVIOUS
  <2>1. CASE mode[p] = "install"
    <3>1. \A q \in Proc : (mode[q] = "install" <=> q = p) /\ (mode'[q] = "install" <=> q = p)
      BY <1>9, <1>11, <2>1
    <3>2. Pin(e) <=> e \in Range(lh) /\ ~Passed(p, e) /\ e # b
      BY <1>1, <1>2, <3>1 DEF Pin
    <3>3. Dirty(e) <=> e \in Range(lh) /\ ~Passed(p, e) /\ e # b
      BY <1>1, <1>2, <3>1 DEF Dirty, Home
    <3>4. ~Home(p)' BY <1>10 DEF Home, InFlight
    <3>5. Pin(e)' <=> e \in Range(lh) /\ ~Passed(p, e)'
      BY <1>2, <1>10, <3>1 DEF Pin
    <3>6. Dirty(e)' <=> e \in Range(lh) /\ ~Passed(p, e)'
      BY <1>2, <3>1, <3>4 DEF Dirty
    <3>7. Passed(p, e)' <=> (Passed(p, e) \/ e = b) BY <1>15, <2>1
    <3>8. QED BY <3>2, <3>3, <3>5, <3>6, <3>7
  <2>2. CASE mode[p] # "install"
    <3>1. \A q \in Proc : /\ mode'[q] = "install" <=> mode[q] = "install"
                          /\ mode[q] = "install" => q # p
      BY <1>9, <2>2
    <3>2. \A q \in Proc : q # p => /\ Passed(q, e)' <=> Passed(q, e)
                                   /\ Home(q)' <=> Home(q)
      BY <1>2, <1>9, <1>10 DEF Passed, Home
    <3>3. Pin(e)' <=> Pin(e) BY <1>2, <1>10, <3>1, <3>2 DEF Pin
    <3>4. Dirty(e)' <=> Dirty(e) BY <1>2, <1>10, <3>1, <3>2 DEF Dirty
    <3>5. QED BY <3>3, <3>4
  <2>3. QED BY <2>1, <2>2
<1>17. \A m \in Range(list) : m \in Node BY CleanFacts
<1>18. ~Pin(NoBlock) /\ ~Pin(NoBlock)'
  <2>1. Range(lh) \subseteq Block BY <1>3 DEF Range
  <2>2. QED BY <1>2, <2>1, NamesDiffer DEF Pin
<1>19. \A m \in Range(list) : Pins(m)' = Pins(m)
  <2> TAKE m \in Range(list)
  <2>1. PICK e : e = buf[m].block /\ e \in Block \cup {NoBlock} BY <1>3, <1>17 DEF Buf
  <2>2. buf'[m].block = e BY <1>6, <1>17, <2>1
  <2>3. Pin(e)' <=> Pin(e) BY <1>16, <1>18, <2>1
  <2>4. Pins(m)' = IF Pin(e)' THEN 1 ELSE 0 BY <2>2 DEF Pins, Pin, Passed
  <2>5. Pins(m) = IF Pin(e) THEN 1 ELSE 0 BY <2>1 DEF Pins
  <2>6. QED BY <2>3, <2>4, <2>5
<1>20. PinInv'
  <2>1. /\ Users(n)' = Users(n) \ {p} /\ p \in Users(n)
        /\ \A m \in Node : m # n => Users(m)' = Users(m)
    BY <1>0, <1>3, <1>10, NamesDiffer DEF Users
  <2>2. Cardinality(Users(n)') = Cardinality(Users(n)) - 1 /\ Cardinality(Users(n)) \in Nat
    BY <2>1, UsersFinite, FS_RemoveElement
  <2>3. buf[n].refcnt = Cardinality(Users(n)) + Pins(n) /\ Pins(n) \in {0, 1}
    BY <1>1 DEF Clean, PinInv, Pins
  <2>4. PICK k \in {0, 1} : k = Pins(n) BY <2>3
  <2>5. buf'[n].refcnt = Cardinality(Users(n)') + Pins(n)'
    <3>1. Pins(n)' = k BY <1>1, <1>19, <2>4
    <3>2. buf'[n].refcnt = Cardinality(Users(n)) - 1 + k BY <1>5, <1>6, <2>2, <2>3, <2>4
    <3>3. QED BY <2>2, <3>1, <3>2
  <2>6. \A m \in Range(list) : m # n => buf'[m].refcnt = Cardinality(Users(m)') + Pins(m)'
    BY <1>6, <1>17, <1>19, <2>1 DEF Clean, PinInv
  <2>7. \A m \in Range(list') : buf'[m].refcnt = Cardinality(Users(m)') + Pins(m)'
    BY <1>7, <2>5, <2>6
  <2>8. \A e \in Block : Pin(e)' => \E m \in Range(list') : buf'[m].block = e /\ buf'[m].valid
    BY <1>6, <1>7, <1>16, <1>17 DEF Clean, PinInv
  <2>9. QED BY <2>7, <2>8 DEF PinInv
<1>21. \A q \in Proc :
          /\ Read(q)' => Read(q) /\ cur'[q] = cur[q]
          /\ Reading(q)' => Reading(q) /\ cur'[q] = cur[q]
          /\ pc'[q] \in InFlight => /\ pc[q] \in InFlight /\ rw'[q] = rw[q]
                                    /\ cur'[q] = cur[q] /\ want'[q] = want[q]
  <2> TAKE q \in Proc
  <2>1. CASE q = p BY <1>10, <2>1 DEF Read, Reading, InFlight, Locked
  <2>2. CASE q # p BY <1>9, <1>10, <2>2 DEF Read, Reading
  <2>3. QED BY <2>1, <2>2
<1>22. \A q \in Proc : Read(q) \/ Reading(q) \/ pc[q] \in InFlight => cur[q] \in Range(list)
  BY CleanFacts DEF Locked
<1>23. DataInv' BY <1>2, <1>6, <1>7, <1>16, <1>17, <1>21, <1>22, DataKept
<1>24. QED BY <1>12, <1>13, <1>14, <1>20, <1>23 DEF Clean

-----------------------------------------------------------------------------
(* bget. *)

\* What bget changes of the call and of the pins: nothing, whatever it gives.
LEMMA BgetCalls ==
    ASSUME Inv, Clean, NEW p \in Proc, NEW b \in Block, Bget(p, b),
           pc' \in [Proc -> Pc], pc'[p] \in {"idle", "lock", "enter"},
           \A q \in Proc : q # p => pc'[q] = pc[q]
    PROVE  /\ CleanTypes' /\ CallInv' /\ CommitInv'
           /\ \A e : Pin(e)' <=> Pin(e)
           /\ \A e : Dirty(e)' <=> Dirty(e)
<1>1. /\ pc[p] = "idle" /\ Wants(p, b) /\ StartCall(p) /\ want' = [want EXCEPT ![p] = b]
      /\ UNCHANGED <<list, ondisk, idx, avail, rw, tail, lh, committing, truth,
                     unbalanced, leaked, astray>>
  BY DEF Bget, At, disk, descs, rings, log, history
<1>2. /\ mode \in [Proc -> Modes] /\ want \in [Proc -> Block \cup {NoBlock}]
      /\ lh \in Seq(Block) /\ tail \in [Proc -> Nat]
  BY DEF Inv, Types, Clean, CleanTypes
<1>3. /\ want'[p] = b /\ \A q \in Proc : q # p => want'[q] = want[q]
  BY <1>1, <1>2
<1>4. /\ mode' \in [Proc -> Modes] /\ mode'[p] # "none"
      /\ \A q \in Proc : q # p => mode'[q] = mode[q]
      /\ \A q \in Proc : mode'[q] = "install" <=> mode[q] = "install"
      /\ \A q \in Proc : mode'[q] = "op" => mode[q] = "op" \/ ~committing
      /\ mode[p] = "install" => mode' = mode
  <2>1. CASE mode[p] = "none"
    <3>1. PICK m \in {"read"} \cup (IF committing THEN {} ELSE {"op"}) :
             mode' = [mode EXCEPT ![p] = m]
      BY <1>1, <2>1 DEF StartCall
    <3>2. m \in {"read", "op"} /\ (m = "op" => ~committing) BY <3>1
    <3>3. QED BY <1>2, <2>1, <3>1, <3>2 DEF Modes
  <2>2. CASE mode[p] # "none"
    <3>1. mode' = mode BY <1>1, <2>2 DEF StartCall
    <3>2. QED BY <1>2, <2>2, <3>1
  <2>3. QED BY <2>1, <2>2
<1>5. CleanTypes' BY <1>1, <1>4 DEF Clean, CleanTypes
<1>6. ~rw[p] BY <1>1 DEF Clean, CallInv, CallOK
<1>7. CallInv'
  <2> SUFFICES ASSUME NEW q \in Proc PROVE CallOK(q)' BY DEF CallInv
  <2>1. CallOK(q) BY DEF Clean, CallInv
  <2>2. CASE q = p BY <1>1, <1>4, <1>6, <2>2 DEF CallOK
  <2>3. CASE q # p BY <1>1, <1>4, <2>1, <2>3 DEF CallOK
  <2>4. QED BY <2>2, <2>3
<1>8. CommitInv'
  <2> SUFFICES ASSUME NEW q \in Proc, mode'[q] = "install" PROVE Installs(q)' BY DEF CommitInv
  <2>1. mode[q] = "install" /\ Installs(q) BY <1>4 DEF Clean, CommitInv
  <2>2. \A r \in Proc : mode'[r] # "op" /\ (mode'[r] = "install" => r = q)
    BY <1>4, <2>1 DEF Installs
  <2>3. CASE q = p
    <3>1. tail[p] <= Len(lh) /\ b = lh[tail[p]] BY <1>1, <2>1, <2>3 DEF Wants
    <3>2. QED BY <1>1, <1>3, <2>1, <2>2, <2>3, <3>1 DEF Installs
  <2>4. CASE q # p BY <1>1, <1>3, <2>1, <2>2, <2>4 DEF Installs
  <2>5. QED BY <2>3, <2>4
<1>9. \A e : (Pin(e)' <=> Pin(e)) /\ (Dirty(e)' <=> Dirty(e))
  <2> SUFFICES ASSUME NEW e PROVE (Pin(e)' <=> Pin(e)) /\ (Dirty(e)' <=> Dirty(e)) OBVIOUS
  <2>1. \A q \in Proc : Passed(q, e)' <=> Passed(q, e) BY <1>1 DEF Passed
  <2>2. \A q \in Proc : want'[q] = e /\ pc'[q] \in {"brelse", "unref"}
                    <=> want[q] = e /\ pc[q] \in {"brelse", "unref"}
    BY <1>1, <1>3
  <2>3. \A q \in Proc : (want[q] = e /\ Home(q))' <=> want[q] = e /\ Home(q)
    <3> TAKE q \in Proc
    <3>1. CASE q = p BY <1>1, <3>1 DEF Home, InFlight
    <3>2. CASE q # p BY <1>1, <1>3, <3>2 DEF Home
    <3>3. QED BY <3>1, <3>2
  <2>4. Pin(e)' <=> Pin(e) BY <1>1, <1>4, <2>1, <2>2 DEF Pin
  <2>5. Dirty(e)' <=> Dirty(e) BY <1>1, <1>4, <2>1, <2>3 DEF Dirty
  <2>6. QED BY <2>4, <2>5
<1>10. QED BY <1>5, <1>7, <1>8, <1>9

\* What bget gives has no contents yet, or those of the block.
LEMMA BgetReads ==
    ASSUME Inv, Clean, NEW p \in Proc, UNCHANGED <<rw, idx, avail>>, pc[p] = "idle",
           pc'[p] \in {"idle", "lock", "enter"},
           \A q \in Proc : q # p =>
              pc'[q] = pc[q] /\ cur'[q] = cur[q] /\ want'[q] = want[q]
    PROVE  /\ \A q \in Proc : Read(q)' => q # p /\ Read(q) /\ cur'[q] = cur[q]
           /\ \A q \in Proc : Reading(q)' => q # p /\ Reading(q) /\ cur'[q] = cur[q]
           /\ \A q \in Proc : pc'[q] \in InFlight =>
                 q # p /\ pc[q] \in InFlight /\ cur'[q] = cur[q] /\ want'[q] = want[q]
<1> SUFFICES ASSUME NEW q \in Proc
             PROVE  /\ Read(q)' => q # p /\ Read(q) /\ cur'[q] = cur[q]
                    /\ Reading(q)' => q # p /\ Reading(q) /\ cur'[q] = cur[q]
                    /\ pc'[q] \in InFlight =>
                          q # p /\ pc[q] \in InFlight /\ cur'[q] = cur[q] /\ want'[q] = want[q]
  OBVIOUS
<1>1. CASE q = p BY <1>1 DEF Read, Reading, InFlight, Locked
<1>2. CASE q # p BY <1>2 DEF Read, Reading
<1>3. QED BY <1>1, <1>2

\* bget counts its process in the block's buffer, or takes one that neither a
\* process nor the log refers to.
LEMMA BgetClean == ASSUME Inv, Clean, NEW p \in Proc, NEW b \in Block, Bget(p, b) PROVE Clean'
<1>1. /\ pc[p] = "idle" /\ want' = [want EXCEPT ![p] = b]
      /\ UNCHANGED <<list, ondisk, idx, avail, rw, truth>>
  BY DEF Bget, At, disk, descs, rings, log, history
<1>2. /\ buf \in [Node -> Buf] /\ pc \in [Proc -> Pc] /\ want \in [Proc -> Block \cup {NoBlock}]
      /\ cur \in [Proc -> Node \cup {NoNode}]
  BY DEF Inv, Types
<1>3. \A q \in Proc : q # p => want'[q] = want[q] BY <1>1, <1>2
<1>4. \A m \in Range(list) : m \in Node BY CleanFacts
<1>5. \A q \in Proc : Read(q) \/ Reading(q) \/ pc[q] \in InFlight => cur[q] \in Range(list)
  BY CleanFacts DEF Locked
<1>6. CASE UNCHANGED <<buf, cur, pc>>
  <2>1. /\ pc' \in [Proc -> Pc] /\ pc'[p] \in {"idle", "lock", "enter"}
        /\ \A q \in Proc : q # p => pc'[q] = pc[q] /\ cur'[q] = cur[q]
    BY <1>1, <1>2, <1>6
  <2>2. /\ CleanTypes' /\ CallInv' /\ CommitInv'
        /\ \A e : Pin(e)' <=> Pin(e)
        /\ \A e : Dirty(e)' <=> Dirty(e)
    BY <2>1, BgetCalls
  <2>3. PinInv' BY <1>1, <1>6, <2>2, PinKept DEF Clean
  <2>4. /\ \A q \in Proc : Read(q)' => q # p /\ Read(q) /\ cur'[q] = cur[q]
        /\ \A q \in Proc : Reading(q)' => q # p /\ Reading(q) /\ cur'[q] = cur[q]
        /\ \A q \in Proc : pc'[q] \in InFlight =>
              q # p /\ pc[q] \in InFlight /\ cur'[q] = cur[q] /\ want'[q] = want[q]
    BY <1>1, <1>3, <2>1, BgetReads
  <2>5. DataInv' BY <1>1, <1>5, <1>6, <2>2, <2>4, DataKept
  <2>6. QED BY <2>2, <2>3, <2>5 DEF Clean
<1>7. CASE halted' = halted
  <2>1. PICK n \in Range(list) :
             /\ cur' = [cur EXCEPT ![p] = n]
             /\ \/ /\ buf[n].block = b
                   /\ buf' = [buf EXCEPT ![n].refcnt = @ + 1]
                   /\ pc' = [pc EXCEPT ![p] = "lock"]
                \/ /\ buf[n].refcnt = 0 /\ \A m \in Range(list) : buf[m].block # b
                   /\ buf' = [buf EXCEPT ![n].block = b, ![n].valid = FALSE, ![n].refcnt = 1]
                   /\ pc' = [pc EXCEPT ![p] = "enter"]
    BY <1>7, BgetNode
  <2>2. n \in Node BY <1>4
  <2>3. /\ pc' \in [Proc -> Pc] /\ pc'[p] \in {"lock", "enter"}
        /\ \A q \in Proc : q # p => pc'[q] = pc[q] /\ cur'[q] = cur[q]
        /\ cur'[p] = n
    BY <1>2, <2>1, <2>2 DEF Pc, InSection
  <2>4. /\ CleanTypes' /\ CallInv' /\ CommitInv'
        /\ \A e : Pin(e)' <=> Pin(e)
        /\ \A e : Dirty(e)' <=> Dirty(e)
    BY <2>3, BgetCalls
  <2>5. /\ \A q \in Proc : Read(q)' => q # p /\ Read(q) /\ cur'[q] = cur[q]
        /\ \A q \in Proc : Reading(q)' => q # p /\ Reading(q) /\ cur'[q] = cur[q]
        /\ \A q \in Proc : pc'[q] \in InFlight =>
              q # p /\ pc[q] \in InFlight /\ cur'[q] = cur[q] /\ want'[q] = want[q]
    BY <1>1, <1>3, <2>3, BgetReads
  <2>6. cur[p] = NoNode BY <1>1 DEF Inv, PlaceInv, PlaceOK
  <2>7. /\ Users(n)' = Users(n) \cup {p} /\ p \notin Users(n)
        /\ \A m \in Node : m # n => Users(m)' = Users(m)
    BY <2>2, <2>3, <2>6, NamesDiffer DEF Users
  <2>8. Cardinality(Users(n)') = Cardinality(Users(n)) + 1 /\ Cardinality(Users(n)) \in Nat
    <3>1. IsFiniteSet(Users(n)) /\ Cardinality(Users(n)) \in Nat BY UsersFinite
    <3>2. Cardinality(Users(n) \cup {p}) = Cardinality(Users(n)) + 1
      BY <2>7, <3>1, FS_AddElement, Zenon
    <3>3. QED BY <2>7, <3>1, <3>2
  <2>9. buf[n].refcnt = Cardinality(Users(n)) + Pins(n) /\ buf[n].refcnt \in Int
        /\ Pins(n) \in {0, 1}
    BY <1>2, <2>2 DEF Clean, PinInv, Buf, Pins
  <2>10. CASE /\ buf[n].block = b
              /\ buf' = [buf EXCEPT ![n].refcnt = @ + 1]
    <3>1. PICK c \in Int : c = buf[n].refcnt + 1 BY <2>9
    <3>2. /\ buf'[n].refcnt = c
          /\ \A m \in Node : /\ m # n => buf'[m] = buf[m]
                             /\ buf'[m].block = buf[m].block /\ buf'[m].valid = buf[m].valid
                             /\ buf'[m].data = buf[m].data
      <4>1. buf' = [buf EXCEPT ![n].refcnt = c] BY <2>10, <3>1
      <4>2. QED BY ONLY <1>2, <2>2, <4>1 DEF Buf
    <3>3. \A m \in Range(list) : Pins(m)' = Pins(m)
      <4> TAKE m \in Range(list)
      <4>1. PICK e : e = buf[m].block OBVIOUS
      <4>2. buf'[m].block = e BY <1>4, <3>2, <4>1
      <4>3. Pin(e)' <=> Pin(e) BY <2>4
      <4>4. Pins(m)' = IF Pin(e)' THEN 1 ELSE 0 BY <4>2 DEF Pins, Pin, Passed
      <4>5. Pins(m) = IF Pin(e) THEN 1 ELSE 0 BY <4>1 DEF Pins
      <4>6. QED BY <4>3, <4>4, <4>5
    <3>4. buf'[n].refcnt = Cardinality(Users(n)') + Pins(n)'
      <4>1. PICK k \in {0, 1} : k = Pins(n) BY <2>9
      <4>2. Pins(n)' = k BY <3>3, <4>1
      <4>3. buf'[n].refcnt = Cardinality(Users(n)) + 1 + k BY <2>8, <2>9, <3>1, <3>2, <4>1
      <4>4. QED BY <2>8, <4>2, <4>3
    <3>5. \A m \in Range(list) : m # n => buf'[m].refcnt = Cardinality(Users(m)') + Pins(m)'
      BY <1>4, <2>7, <3>2, <3>3 DEF Clean, PinInv
    <3>6. PinInv'
      <4>1. \A m \in Range(list') : buf'[m].refcnt = Cardinality(Users(m)') + Pins(m)'
        BY <1>1, <3>4, <3>5
      <4>2. \A e \in Block : Pin(e)' => \E m \in Range(list') : buf'[m].block = e /\ buf'[m].valid
        BY <1>1, <1>4, <2>4, <3>2 DEF Clean, PinInv
      <4>3. QED BY <4>1, <4>2 DEF PinInv
    <3>7. DataInv' BY <1>1, <1>4, <1>5, <2>4, <2>5, <3>2, DataKept
    <3>8. QED BY <2>4, <3>6, <3>7 DEF Clean
  <2>11. CASE /\ buf[n].refcnt = 0 /\ \A m \in Range(list) : buf[m].block # b
              /\ buf' = [buf EXCEPT ![n].block = b, ![n].valid = FALSE, ![n].refcnt = 1]
    <3>1. /\ buf'[n].refcnt = 1 /\ buf'[n].block = b /\ buf'[n].valid = FALSE
          /\ \A m \in Node : m # n => buf'[m] = buf[m]
      BY ONLY <1>2, <2>2, <2>11 DEF Buf
    <3>2. Cardinality(Users(n)) = 0 /\ Pins(n) = 0
      <4>1. PICK k \in {0, 1} : k = Pins(n) BY <2>9
      <4>2. Cardinality(Users(n)) = 0 /\ k = 0 BY <2>8, <2>9, <2>11, <4>1
      <4>3. QED BY <4>1, <4>2
    <3>3. Users(n) = {} /\ \A q \in Proc : cur[q] # n
      <4>1. Users(n) = {} BY <3>2, UsersFinite, FS_EmptySet
      <4>2. QED BY <4>1 DEF Users
    <3>4. ~Pin(b) BY <2>11 DEF Clean, PinInv
    <3>5. ~Pin(buf[n].block) BY <3>2 DEF Pins
    <3>6. \A m \in Range(list) : m # n => Pins(m)' = Pins(m)
      <4> SUFFICES ASSUME NEW m \in Range(list), m # n PROVE Pins(m)' = Pins(m) OBVIOUS
      <4>1. PICK e : e = buf[m].block OBVIOUS
      <4>2. buf'[m].block = e BY <1>4, <3>1, <4>1
      <4>3. Pin(e)' <=> Pin(e) BY <2>4
      <4>4. Pins(m)' = IF Pin(e)' THEN 1 ELSE 0 BY <4>2 DEF Pins, Pin, Passed
      <4>5. Pins(m) = IF Pin(e) THEN 1 ELSE 0 BY <4>1 DEF Pins
      <4>6. QED BY <4>3, <4>4, <4>5
    <3>7. buf'[n].refcnt = Cardinality(Users(n)') + Pins(n)'
      <4>1. ~Pin(b)' BY <2>4, <3>4
      <4>2. Pins(n)' = 0 BY <3>1, <4>1 DEF Pins, Pin, Passed
      <4>3. QED BY <2>8, <3>1, <3>2, <4>2
    <3>8. \A m \in Range(list) : m # n => buf'[m].refcnt = Cardinality(Users(m)') + Pins(m)'
      BY <1>4, <2>7, <3>1, <3>6 DEF Clean, PinInv
    <3>9. \A e \in Block : Pin(e)' => \E m \in Range(list') : buf'[m].block = e /\ buf'[m].valid
      <4> SUFFICES ASSUME NEW e \in Block, Pin(e)'
                   PROVE  \E m \in Range(list) : buf'[m].block = e /\ buf'[m].valid
        BY <1>1
      <4>1. Pin(e) BY <2>4
      <4>2. PICK m \in Range(list) : buf[m].block = e /\ buf[m].valid
        BY <4>1 DEF Clean, PinInv
      <4>3. m # n BY <3>5, <4>1, <4>2
      <4>4. QED BY <1>4, <3>1, <4>2, <4>3
    <3>10. PinInv' BY <1>1, <3>7, <3>8, <3>9 DEF PinInv
    <3>11. DataInv'
      <4>1. \A m \in Range(list') : buf'[m].valid =>
               buf'[m].block \in Block /\ buf'[m].data = truth'[buf'[m].block]
        <5> SUFFICES ASSUME NEW m \in Range(list), buf'[m].valid
                     PROVE  buf'[m].block \in Block /\ buf'[m].data = truth[buf'[m].block]
          BY <1>1
        <5>1. m # n /\ buf'[m] = buf[m] BY <1>4, <3>1
        <5>2. QED BY <5>1 DEF Clean, DataInv
      <4>2. \A e \in Block : ~Dirty(e)' => ondisk'[e] = truth'[e]
        BY <1>1, <2>4 DEF Clean, DataInv
      <4>3. \A q \in Proc : Read(q)' => B(q)'.valid
        <5> SUFFICES ASSUME NEW q \in Proc, Read(q)' PROVE B(q)'.valid OBVIOUS
        <5>1. Read(q) /\ cur'[q] = cur[q] /\ cur[q] # n /\ cur[q] \in Node
          BY <1>4, <1>5, <2>5, <3>3
        <5>2. QED BY <3>1, <5>1 DEF B, Clean, DataInv
      <4>4. \A q \in Proc : Reading(q)' => ~B(q)'.valid
        <5> SUFFICES ASSUME NEW q \in Proc, Reading(q)' PROVE ~B(q)'.valid OBVIOUS
        <5>1. Reading(q) /\ cur'[q] = cur[q] /\ cur[q] # n /\ cur[q] \in Node
          BY <1>4, <1>5, <2>5, <3>3
        <5>2. QED BY <3>1, <5>1 DEF B, Clean, DataInv
      <4>5. \A q \in Proc : pc'[q] \in InFlight /\ ~rw'[q] /\ idx'[q][1] \notin Range(avail') =>
               B(q)'.data = truth'[want'[q]]
        <5> SUFFICES ASSUME NEW q \in Proc,
                            pc'[q] \in InFlight /\ ~rw'[q] /\ idx'[q][1] \notin Range(avail')
                     PROVE  B(q)'.data = truth'[want'[q]]
          OBVIOUS
        <5>1. pc[q] \in InFlight /\ cur'[q] = cur[q] /\ want'[q] = want[q] /\ cur[q] # n
              /\ cur[q] \in Node
          BY <1>4, <1>5, <2>5, <3>3
        <5>2. B(q).data = truth[want[q]] BY <1>1, <5>1 DEF Clean, DataInv
        <5>3. QED BY <1>1, <3>1, <5>1, <5>2 DEF B
      <4>6. QED BY <4>1, <4>2, <4>3, <4>4, <4>5 DEF DataInv
    <3>12. QED BY <2>4, <3>10, <3>11 DEF Clean
  <2>12. QED BY <2>1, <2>10, <2>11
<1>8. QED BY <1>6, <1>7 DEF Bget, At

-----------------------------------------------------------------------------
(* The disk. *)

\* A request goes to the device; nothing is read or written yet.
LEMMA VirtioRequestClean ==
    ASSUME Inv, Clean, NEW p \in Proc, VirtioStart(p), Cardinality(free) >= 3
    PROVE  Clean'
<1>0. PICK d : d = <<Lowest(0), Lowest(1), Lowest(2)>> OBVIOUS
<1>1. /\ pc[p] = "rw" /\ pc' = [pc EXCEPT ![p] = "iowait"]
      /\ idx' = [idx EXCEPT ![p] = d] /\ avail' = Append(avail, d[1])
      /\ buf' = [buf EXCEPT ![cur[p]].disk = TRUE]
      /\ UNCHANGED <<list, lh, committing, mode, tail, want, cur, rw, truth, ondisk,
                     unbalanced, leaked, astray>>
  BY <1>0 DEF VirtioStart, At, Goto, log, bounds, history
<1>2. d[1] \in Desc /\ avail \in Seq(Desc)
  <2>1. Lowest(0) \in free BY ThreeLowest DEF Inv
  <2>2. QED BY <1>0, <2>1 DEF Inv, Types
<1>3. Range(avail') = Range(avail) \cup {d[1]} BY <1>1, <1>2, AppendRange
<1>4. /\ pc'[p] = "iowait" /\ \A q \in Proc : q # p => pc'[q] = pc[q] /\ idx'[q] = idx[q]
      /\ idx'[p] = d
  BY <1>1 DEF Inv, Types
<1>5. \A n \in Node : /\ buf'[n].block = buf[n].block /\ buf'[n].data = buf[n].data
                      /\ buf'[n].refcnt = buf[n].refcnt /\ buf'[n].valid = buf[n].valid
  <2>1. buf \in [Node -> Buf] BY DEF Inv, Types
  <2>2. cur[p] \in Node BY <1>1, CleanFacts
  <2>3. QED BY <1>1, <2>1, <2>2 DEF Buf
<1>6. CleanTypes' BY <1>1 DEF Clean, CleanTypes
<1>7. CallInv'
  <2> SUFFICES ASSUME NEW q \in Proc PROVE CallOK(q)' BY DEF CallInv
  <2>1. CallOK(q) BY DEF Clean, CallInv
  <2>2. CASE q = p BY <1>1, <1>4, <2>1, <2>2 DEF CallOK
  <2>3. CASE q # p BY <1>1, <1>4, <2>1, <2>3 DEF CallOK
  <2>4. QED BY <2>2, <2>3
<1>8. CommitInv'
  <2>1. \A q \in Proc : pc'[q] # "idle" => pc[q] # "idle" BY <1>1, <1>4
  <2>2. QED BY <1>1, <2>1 DEF Clean, CommitInv, Installs
<1>9. \A e : Pin(e)' <=> Pin(e)
  <2>1. \A q \in Proc : pc'[q] \in {"brelse", "unref"} <=> pc[q] \in {"brelse", "unref"}
    BY <1>1, <1>4
  <2>2. QED BY <1>1, <2>1, PinSame
<1>10. PinInv' BY <1>1, <1>5, <1>9, CleanFacts, PinKept DEF Clean
<1>11. \A q \in Proc :
          /\ Home(q)' => Home(q)
          /\ Read(q)' => Read(q)
          /\ Reading(q)' => Reading(q)
          /\ pc'[q] \in InFlight /\ idx'[q][1] \notin Range(avail') =>
                pc[q] \in InFlight /\ idx[q][1] \notin Range(avail)
  <2> TAKE q \in Proc
  <2>1. CASE q = p BY <1>1, <1>3, <1>4, <2>1 DEF Home, Read, Reading, InFlight, Locked
  <2>2. CASE q # p BY <1>1, <1>3, <1>4, <2>2 DEF Home, Read, Reading
  <2>3. QED BY <2>1, <2>2
<1>12. \A e : Dirty(e) => Dirty(e)' BY <1>1, <1>11, DirtySame
<1>13. \A q \in Proc : Read(q) \/ Reading(q) \/ pc[q] \in InFlight => cur[q] \in Range(list)
  BY CleanFacts DEF Locked
<1>14. DataInv' BY <1>1, <1>5, <1>11, <1>12, <1>13, CleanFacts, DataKept
<1>15. QED BY <1>6, <1>7, <1>8, <1>10, <1>14 DEF Clean

\* A finished read makes its buffer valid, with the last change of the block.
LEMMA VirtioFreeClean ==
    ASSUME Inv, Clean, NEW p \in Proc, VirtioDone(p), ~B(p).disk
    PROVE  Clean'
<1>0. PICK n \in Node : n = cur[p] BY CleanFacts DEF VirtioDone, At
<1>1. /\ pc[p] \in InFlight /\ idx' = [idx EXCEPT ![p] = <<>>]
      /\ buf' = [buf EXCEPT ![n].valid = @ \/ ~rw[p]]
      /\ pc' = [q \in Proc |-> IF q = p THEN (IF rw[p] THEN "written" ELSE "hold")
                               ELSE IF q \in DescSleepers THEN "rw" ELSE pc[q]]
      /\ UNCHANGED <<list, lh, committing, mode, tail, want, cur, rw, truth, ondisk, avail,
                     unbalanced, leaked, astray>>
  BY <1>0 DEF VirtioDone, At, WakeAndGoto, InFlight, rings, log, bounds, history
<1>2. PICK b \in Block : b = want[p] /\ buf[n].block = b /\ n \in Range(list)
  BY <1>0, <1>1, CleanFacts DEF InSection, Locked, B
<1>3. buf \in [Node -> Buf] /\ pc \in [Proc -> Pc] /\ idx \in [Proc -> Seq(Desc)] /\ rw[p] \in BOOLEAN
  BY DEF Inv, Types, Clean, CleanTypes
<1>4. /\ pc'[p] = (IF rw[p] THEN "written" ELSE "hold")
      /\ \A q \in Proc : q # p => /\ pc'[q] = pc[q] \/ (pc[q] = "descwait" /\ pc'[q] = "rw")
                                  /\ idx'[q] = idx[q]
  BY <1>1, <1>3 DEF DescSleepers
<1>5. idx[p][1] \notin Range(avail)
  BY <1>1 DEF Inv, RequestInv, Pending
<1>6. /\ \A m \in Node : /\ m # n => buf'[m] = buf[m]
                         /\ buf'[m].block = buf[m].block /\ buf'[m].data = buf[m].data
                         /\ buf'[m].refcnt = buf[m].refcnt
                         /\ buf[m].valid => buf'[m].valid
      /\ buf'[n].valid
  <2>1. buf[n].valid \in BOOLEAN BY <1>3 DEF Buf
  <2>2. PICK v \in BOOLEAN : v = (buf[n].valid \/ ~rw[p]) OBVIOUS
  <2>3. buf' = [buf EXCEPT ![n].valid = v] BY <1>1, <2>2
  <2>4. rw[p] => buf[n].valid
    BY <1>0, <1>1 DEF Clean, DataInv, Read, Locked, B
  <2>5. v = TRUE BY <1>3, <2>1, <2>2, <2>4
  <2>6. QED BY ONLY <1>3, <2>3, <2>5 DEF Buf
<1>7. CleanTypes' BY <1>1 DEF Clean, CleanTypes
<1>8. CallInv'
  <2> SUFFICES ASSUME NEW q \in Proc PROVE CallOK(q)' BY DEF CallInv
  <2>1. CallOK(q) BY DEF Clean, CallInv
  <2>2. CASE q = p BY <1>1, <1>4, <2>1, <2>2 DEF CallOK, InFlight
  <2>3. CASE q # p BY <1>1, <1>4, <2>1, <2>3 DEF CallOK
  <2>4. QED BY <2>2, <2>3
<1>9. CommitInv'
  <2>1. \A q \in Proc : pc'[q] # "idle" => pc[q] # "idle" BY <1>1, <1>4 DEF InFlight
  <2>2. QED BY <1>1, <2>1 DEF Clean, CommitInv, Installs
<1>10. \A e : Pin(e)' <=> Pin(e)
  <2>1. \A q \in Proc : pc'[q] \in {"brelse", "unref"} <=> pc[q] \in {"brelse", "unref"}
    BY <1>1, <1>4 DEF InFlight
  <2>2. QED BY <1>1, <2>1, PinSame
<1>11. PinInv' BY <1>1, <1>6, <1>10, CleanFacts, PinKept DEF Clean
<1>12. \A q \in Proc :
          /\ Home(q)' => Home(q)
          /\ Read(q)' => Read(q) \/ q = p
          /\ Reading(q)' => Reading(q) /\ q # p
          /\ pc'[q] \in InFlight => pc[q] \in InFlight /\ q # p /\ idx'[q] = idx[q]
  <2> TAKE q \in Proc
  <2>1. CASE q = p BY <1>1, <1>4, <1>5, <2>1 DEF Home, Read, Reading, InFlight, Locked
  <2>2. CASE q # p BY <1>1, <1>4, <2>2 DEF Home, Read, Reading, InFlight, Locked
  <2>3. QED BY <2>1, <2>2
<1>13. \A e : Dirty(e) => Dirty(e)' BY <1>1, <1>12, DirtySame
<1>14. \A q \in Proc : Read(q) \/ Reading(q) \/ pc[q] \in InFlight =>
          cur[q] \in Range(list) /\ cur[q] \in Node /\ pc[q] \in Locked
  BY CleanFacts DEF Locked
<1>15. \A q \in Proc : q # p /\ pc[q] \in Locked => cur[q] # n
  BY <1>0, <1>1, PlaceFacts DEF Inv, Locked
<1>16. DataInv'
  <2>1. \A m \in Range(list') : buf'[m].valid =>
           buf'[m].block \in Block /\ buf'[m].data = truth'[buf'[m].block]
    <3> SUFFICES ASSUME NEW m \in Range(list), buf'[m].valid
                 PROVE  buf'[m].block \in Block /\ buf'[m].data = truth[buf'[m].block]
      BY <1>1
    <3>1. CASE buf[m].valid BY <1>6, <3>1, CleanFacts DEF Clean, DataInv
    <3>2. CASE ~buf[m].valid
      <4>1. m = n BY <1>6, <3>2, CleanFacts
      <4>2. ~rw[p]
        BY <1>0, <1>1, <3>2, <4>1 DEF Clean, DataInv, Read, Locked, B
      <4>3. buf[n].data = truth[b] BY <1>0, <1>1, <1>2, <1>5, <4>2 DEF Clean, DataInv, B
      <4>4. QED BY <1>2, <1>6, <4>1, <4>3
    <3>3. QED BY <3>1, <3>2
  <2>2. \A e \in Block : ~Dirty(e)' => ondisk'[e] = truth'[e]
    BY <1>1, <1>13 DEF Clean, DataInv
  <2>3. \A q \in Proc : Read(q)' => B(q)'.valid
    BY <1>0, <1>1, <1>6, <1>12, <1>14 DEF B, Clean, DataInv
  <2>4. \A q \in Proc : Reading(q)' => ~B(q)'.valid
    BY <1>1, <1>6, <1>12, <1>14, <1>15 DEF B, Clean, DataInv
  <2>5. \A q \in Proc : pc'[q] \in InFlight /\ ~rw'[q] /\ idx'[q][1] \notin Range(avail') =>
           B(q)'.data = truth'[want'[q]]
    <3> SUFFICES ASSUME NEW q \in Proc,
                        pc'[q] \in InFlight /\ ~rw'[q] /\ idx'[q][1] \notin Range(avail')
                 PROVE  B(q)'.data = truth'[want'[q]]
      OBVIOUS
    <3>1. pc[q] \in InFlight /\ ~rw[q] /\ idx[q][1] \notin Range(avail) BY <1>1, <1>12
    <3>2. B(q).data = truth[want[q]] BY <3>1 DEF Clean, DataInv
    <3>3. QED BY <1>1, <1>6, <1>14, <3>1, <3>2 DEF B
  <2>6. QED BY <2>1, <2>2, <2>3, <2>4, <2>5 DEF DataInv
<1>17. QED BY <1>7, <1>8, <1>9, <1>11, <1>16 DEF Clean

\* Before the first error a request of the device is a process's that waits.
LEMMA DeviceOwner ==
    ASSUME Inv, Clean, NEW i \in DOMAIN avail,
           NEW p, p = CHOOSE q \in Proc : idx[q] # <<>> /\ idx[q][1] = avail[i]
    PROVE  /\ p \in Proc /\ pc[p] \in InFlight /\ idx[p] # <<>> /\ idx[p][1] = avail[i]
           /\ info[avail[i]] = cur[p]
           /\ \A q \in Proc : q # p /\ idx[q] # <<>> => idx[q][1] # avail[i]
<1>1. avail[i] \in Pending BY DEF Pending, Range
<1>2. \E q \in Proc : idx[q] # <<>> /\ idx[q][1] = avail[i]
  BY <1>1 DEF Inv, RequestInv, Clean, CleanTypes
<1>3. p \in Proc /\ idx[p] # <<>> /\ idx[p][1] = avail[i] BY <1>2
<1>4. pc[p] \in InFlight
  BY <1>3 DEF Inv, PlaceInv, PlaceOK, Clean, CallInv, CallOK
<1>5. info[avail[i]] = cur[p] BY <1>3, <1>4 DEF Inv, RequestInv
<1>6. QED BY <1>3, <1>4, <1>5, FirstsDiffer DEF Inv

\* The device writes a valid buffer home, or reads a block that is not dirty.
LEMMA DeviceClean == ASSUME Inv, Clean, NEW i, Device(i) PROVE Clean'
<1>0. PICK p : p = CHOOSE q \in Proc : idx[q] # <<>> /\ idx[q][1] = avail[i] OBVIOUS
<1>1. i \in DOMAIN avail BY DEF Device
<1>2. /\ p \in Proc /\ pc[p] \in InFlight /\ idx[p] # <<>> /\ idx[p][1] = avail[i]
      /\ info[avail[i]] = cur[p]
      /\ \A q \in Proc : q # p /\ idx[q] # <<>> => idx[q][1] # avail[i]
  BY <1>0, <1>1, DeviceOwner
<1>3. PICK n \in Node : n = cur[p] BY <1>2, CleanFacts DEF InFlight
<1>4. PICK b \in Block : b = want[p] /\ buf[n].block = b /\ n \in Range(list)
  BY <1>2, <1>3, CleanFacts DEF InSection, Locked, B
<1>5. /\ avail' = RemoveAt(avail, i)
      /\ IF rw[p] THEN ondisk' = [ondisk EXCEPT ![b] = buf[n].data] /\ buf' = buf
         ELSE buf' = [buf EXCEPT ![n].data = ondisk[b]] /\ ondisk' = ondisk
      /\ UNCHANGED <<list, pc, lh, committing, mode, tail, want, cur, rw, idx, truth,
                     unbalanced, leaked, astray>>
  <2>1. /\ avail' = RemoveAt(avail, i)
        /\ UNCHANGED <<list, pc, lh, committing, mode, tail, want, cur, rw, idx, truth,
                       unbalanced, leaked, astray>>
    BY DEF Device, procs, log, bounds, history
  <2>2. LET d == avail[i]
            m == info[d]
            r == CHOOSE q \in Proc : idx[q] # <<>> /\ idx[q][1] = d
        IN IF rw[r] THEN ondisk' = [ondisk EXCEPT ![buf[m].block] = buf[m].data] /\ buf' = buf
           ELSE buf' = [buf EXCEPT ![m].data = ondisk[buf[m].block]] /\ ondisk' = ondisk
    BY DEF Device
  <2>3. IF rw[p] THEN ondisk' = [ondisk EXCEPT ![buf[n].block] = buf[n].data] /\ buf' = buf
        ELSE buf' = [buf EXCEPT ![n].data = ondisk[buf[n].block]] /\ ondisk' = ondisk
    BY ONLY <1>0, <1>2, <1>3, <2>2
  <2>4. QED BY ONLY <1>4, <2>1, <2>3
<1>6. Range(avail') = Range(avail) \ {avail[i]}
  BY <1>1, <1>5, TakenFromRing DEF Inv, Types, RequestInv
<1>7. buf \in [Node -> Buf] /\ ondisk \in [Block -> Val] /\ truth \in [Block -> Val]
      /\ rw[p] \in BOOLEAN
  BY <1>2 DEF Inv, Types, Clean, CleanTypes
<1>8. /\ \A m \in Node : /\ m # n => buf'[m] = buf[m]
                         /\ buf'[m].block = buf[m].block /\ buf'[m].valid = buf[m].valid
                         /\ buf'[m].refcnt = buf[m].refcnt
      /\ rw[p] => buf' = buf
      /\ ~rw[p] => buf'[n].data = ondisk[b]
  <2>1. CASE rw[p] BY <1>5, <2>1
  <2>2. CASE ~rw[p]
    <3>1. PICK v : v = ondisk[b] OBVIOUS
    <3>2. buf' = [buf EXCEPT ![n].data = v] BY <1>5, <2>2, <3>1
    <3>3. /\ \A m \in Node : /\ m # n => buf'[m] = buf[m]
                             /\ buf'[m].block = buf[m].block /\ buf'[m].valid = buf[m].valid
                             /\ buf'[m].refcnt = buf[m].refcnt
          /\ buf'[n].data = v
      BY ONLY <1>7, <3>2 DEF Buf
    <3>4. QED BY <2>2, <3>1, <3>3
  <2>3. QED BY <2>1, <2>2
<1>9. CleanTypes' BY <1>5 DEF Clean, CleanTypes
<1>10. CallInv' BY <1>5 DEF Clean, CallInv, CallOK
<1>11. CommitInv' BY <1>5 DEF Clean, CommitInv, Installs
<1>12. \A e : Pin(e)' <=> Pin(e) BY <1>5, PinSame
<1>13. PinInv' BY <1>5, <1>8, <1>12, CleanFacts, PinKept DEF Clean
<1>14. \A q \in Proc : pc[q] \in InFlight /\ q # p =>
          (idx'[q][1] \in Range(avail') <=> idx[q][1] \in Range(avail))
  BY <1>2, <1>5, <1>6 DEF Inv, PlaceInv, PlaceOK
<1>15. \A q \in Proc : /\ (q # p \/ ~rw[q]) /\ Home(q)' => Home(q)
                       /\ Read(q)' <=> Read(q)
                       /\ Reading(q)' <=> Reading(q)
  BY <1>5, <1>14 DEF Home, Read, Reading
<1>16. \A e : e # b \/ ~rw[p] => (Dirty(e) => Dirty(e)')
  <2> SUFFICES ASSUME NEW e, e # b \/ ~rw[p], Dirty(e) PROVE Dirty(e)' OBVIOUS
  <2>1. \A q \in Proc : Passed(q, e)' <=> Passed(q, e) BY <1>5 DEF Passed
  <2>2. \A q \in Proc : mode[q] = "install" => ~(want[q] = e /\ Home(q)') 
    <3> SUFFICES ASSUME NEW q \in Proc, mode[q] = "install", want[q] = e, Home(q)' PROVE FALSE
      OBVIOUS
    <3>1. q # p \/ ~rw[q] BY <1>4
    <3>2. Home(q) BY <1>15, <3>1
    <3>3. QED BY <3>2 DEF Dirty
  <2>3. QED BY <1>5, <2>1, <2>2 DEF Dirty
<1>17. \A q \in Proc : Read(q) \/ Reading(q) \/ pc[q] \in InFlight =>
          cur[q] \in Range(list) /\ cur[q] \in Node /\ pc[q] \in Locked
  BY CleanFacts DEF Locked
<1>18. \A q \in Proc : q # p /\ pc[q] \in Locked => cur[q] # n
  BY <1>2, <1>3, PlaceFacts DEF Inv, Locked
<1>19. rw[p] => buf[n].data = truth[b]
  <2>1. rw[p] => buf[n].valid BY <1>2, <1>3 DEF Clean, DataInv, Read, Locked, B
  <2>2. QED BY <1>4, <2>1 DEF Clean, DataInv
<1>20. ~rw[p] => ~buf[n].valid /\ ondisk[b] = truth[b]
  <2> SUFFICES ASSUME ~rw[p] PROVE ~buf[n].valid /\ ondisk[b] = truth[b] OBVIOUS
  <2>1. ~buf[n].valid BY <1>2, <1>3 DEF Clean, DataInv, Reading, B
  <2>2. \A m \in Range(list) : buf[m].block = b => m = n BY <1>4, BlockNode, NamesDiffer
  <2>3. ~Pin(b) BY <2>1, <2>2 DEF Clean, PinInv
  <2>4. ~Dirty(b) BY <2>3, DirtyPinned
  <2>5. QED BY <2>1, <2>4 DEF Clean, DataInv
<1>21. DataInv'
  <2>1. \A m \in Range(list') : buf'[m].valid =>
           buf'[m].block \in Block /\ buf'[m].data = truth'[buf'[m].block]
    <3> SUFFICES ASSUME NEW m \in Range(list), buf'[m].valid
                 PROVE  buf'[m].block \in Block /\ buf'[m].data = truth[buf'[m].block]
      BY <1>5
    <3>1. m \in Node /\ buf[m].valid BY <1>8, CleanFacts
    <3>2. buf'[m] = buf[m] BY <1>8, <1>20, <3>1
    <3>3. QED BY <3>1, <3>2 DEF Clean, DataInv
  <2>2. \A e \in Block : ~Dirty(e)' => ondisk'[e] = truth'[e]
    <3> SUFFICES ASSUME NEW e \in Block, ~Dirty(e)' PROVE ondisk'[e] = truth[e] BY <1>5
    <3>1. CASE e = b /\ rw[p]
      <4>1. ondisk' = [ondisk EXCEPT ![b] = buf[n].data] BY <1>5, <3>1
      <4>2. QED BY <1>7, <1>19, <3>1, <4>1
    <3>2. CASE e # b \/ ~rw[p]
      <4>1. ondisk'[e] = ondisk[e] BY <1>5, <1>7, <3>2
      <4>2. ~Dirty(e) BY <1>16, <3>2
      <4>3. QED BY <4>1, <4>2 DEF Clean, DataInv
    <3>3. QED BY <3>1, <3>2
  <2>3. \A q \in Proc : Read(q)' => B(q)'.valid
    BY <1>5, <1>8, <1>15, <1>17 DEF B, Clean, DataInv
  <2>4. \A q \in Proc : Reading(q)' => ~B(q)'.valid
    BY <1>5, <1>8, <1>15, <1>17 DEF B, Clean, DataInv
  <2>5. \A q \in Proc : pc'[q] \in InFlight /\ ~rw'[q] /\ idx'[q][1] \notin Range(avail') =>
           B(q)'.data = truth'[want'[q]]
    <3> SUFFICES ASSUME NEW q \in Proc,
                        pc[q] \in InFlight /\ ~rw[q] /\ idx'[q][1] \notin Range(avail')
                 PROVE  buf'[cur[q]].data = truth[want[q]]
      BY <1>5 DEF B
    <3>1. CASE q = p BY <1>3, <1>4, <1>8, <1>20, <3>1
    <3>2. CASE q # p
      <4>1. B(q).data = truth[want[q]] BY <1>14, <3>2 DEF Clean, DataInv
      <4>2. buf'[cur[q]] = buf[cur[q]] BY <1>8, <1>17, <1>18, <3>2
      <4>3. QED BY <4>1, <4>2 DEF B
    <3>3. QED BY <3>1, <3>2
  <2>6. QED BY <2>1, <2>2, <2>3, <2>4, <2>5 DEF DataInv
<1>22. QED BY <1>9, <1>10, <1>11, <1>13, <1>21 DEF Clean

\* Before the first error every step keeps the cache clean: bget, the disk,
\* log_write, the installer, bunpin and brelse.
LEMMA NextClean == ASSUME Inv, CleanInv, [Next]_vars PROVE CleanInv'
<1> SUFFICES ASSUME faults' = 0 PROVE Clean' BY DEF CleanInv
<1>1. ASSUME NEW p \in Proc, NEW n, StartRecovery(p, n) PROVE FALSE
  <2>1. faults' = faults + 1 /\ faults \in Nat BY <1>1 DEF StartRecovery, Inv, Types
  <2>2. QED BY <2>1
<1>2. \A p \in Proc : ~Hit(p) BY <1>1 DEF Hit
<1>3. \A p \in Proc, i \in 1..NBUF : ~ScanHit(p, i) BY <1>1 DEF ScanHit
<1>4. faults = 0
  <2>1. ASSUME NEW p \in Proc, ProcNext(p) PROVE faults' = faults
    <3>1. ASSUME NEW b \in Block, Bget(p, b) PROVE faults' = faults BY <3>1 DEF Bget
    <3>2. CASE EnterNode(p) \/ AcquireSleep(p) \/ VirtioStart(p) \/ Poll(p) \/ VirtioDone(p)
      BY <3>2 DEF EnterNode, AcquireSleep, VirtioStart, Poll, VirtioDone, bounds
    <3>3. CASE LogWrite(p) \/ StartCommit(p) \/ Bwrite(p) \/ Bunpin(p) \/ ReleaseSleep(p)
      BY <3>3 DEF LogWrite, StartCommit, Bwrite, Bunpin, ReleaseSleep, bounds
    <3>4. CASE Brelse(p) \/ EndCommit(p) \/ InsertNew(p) \/ Solve(p)
      BY <3>4 DEF Brelse, EndCommit, InsertNew, Solve, bounds
    <3>5. QED BY <2>1, <3>1, <3>2, <3>3, <3>4 DEF ProcNext
  <2>2. ASSUME NEW i, Device(i) PROVE faults' = faults BY <2>2 DEF Device, bounds
  <2>3. CASE VirtioIntr BY <2>3 DEF VirtioIntr, bounds
  <2>4. CASE UNCHANGED vars BY <2>4 DEF vars, bounds
  <2>5. QED BY <1>2, <1>3, <2>1, <2>2, <2>3, <2>4 DEF Next
<1>5. Clean BY <1>4 DEF CleanInv
<1>6. ASSUME NEW p \in Proc, ProcNext(p) PROVE Clean'
  <2>1. ASSUME NEW b \in Block, Bget(p, b) PROVE Clean' BY <2>1, <1>5, BgetClean
  <2>2. CASE EnterNode(p) BY <2>2, <1>5, EnterNodeClean
  <2>3. CASE AcquireSleep(p) BY <2>3, <1>5, AcquireSleepClean
  <2>4. CASE VirtioStart(p) BY <2>4, <1>5, VirtioWaitClean, VirtioRequestClean
  <2>5. CASE Poll(p) BY <2>5, <1>5, PollClean
  <2>6. CASE VirtioDone(p) BY <2>6, <1>5, VirtioAgainClean, VirtioFreeClean
  <2>7. CASE LogWrite(p) BY <2>7, <1>5, LogWriteClean
  <2>8. CASE StartCommit(p) BY <2>8, <1>5, StartCommitClean
  <2>9. CASE Bwrite(p) BY <2>9, <1>5, BwriteClean
  <2>10. CASE Bunpin(p) BY <2>10, <1>5, BunpinClean
  <2>11. CASE ReleaseSleep(p) BY <2>11, <1>5, ReleaseSleepClean
  <2>12. CASE Brelse(p) BY <2>12, <1>5, BrelseClean
  <2>13. CASE EndCommit(p) BY <2>13, <1>5, EndCommitClean
  <2>14. ~InsertNew(p) /\ ~Solve(p)
    BY <1>5 DEF InsertNew, Solve, At, Clean, CallInv, CallOK
  <2>15. QED BY <1>6, <2>1, <2>2, <2>3, <2>4, <2>5, <2>6, <2>7, <2>8, <2>9, <2>10, <2>11,
                <2>12, <2>13, <2>14 DEF ProcNext
<1>7. ASSUME NEW i, Device(i) PROVE Clean' BY <1>5, <1>7, DeviceClean
<1>8. CASE VirtioIntr BY <1>5, <1>8, VirtioIntrClean
<1>9. CASE UNCHANGED vars
  <2>1. UNCHANGED <<buf, pc, list, lh, committing, mode, tail, want, cur, rw, truth, ondisk, idx,
                    avail, unbalanced, leaked, astray>>
    BY <1>9 DEF vars, cache, disk, descs, rings, procs, log, bounds, history
  <2>2. \A q \in Proc : Moved(q) BY <2>1 DEF Moved
  <2>3. QED BY <1>5, <2>1, <2>2, MovesClean
<1>10. QED BY <1>2, <1>3, <1>6, <1>7, <1>8, <1>9 DEF Next


-----------------------------------------------------------------------------
(* The types, and the loop of the handler over the log header. *)

\* Induction over the natural numbers, for a set.
LEMMA AllNumbers == ASSUME NEW S \in SUBSET Nat, 0 \in S, \A n \in S : n + 1 \in S PROVE S = Nat
<1>1. SUFFICES ASSUME Nat \ S # {} PROVE FALSE OBVIOUS
<1>2. PICK n \in Nat \ S : \A m \in Nat \ S : n <= m BY <1>1, LeastNumber
<1>3. n - 1 \in S BY <1>2
<1>4. QED BY <1>2, <1>3

\* The equation of a fold of F over the subsets in D.
FoldEq(g, S, D, c, base, F) ==
    \A s \in D : g[s] = IF s = {} THEN base ELSE F[<<c[s], g[s \ {c[s]}]>>]

\* g folds F over S, whose elements c chooses.
IsFold(g, S, c, base, F) ==
    g = [s \in SUBSET S |-> IF s = {} THEN base ELSE F[<<c[s], g[s \ {c[s]}]>>]]

\* A fold over a finite set exists, and has the type that its step keeps.
LEMMA FoldExists ==
    ASSUME NEW S, IsFiniteSet(S), NEW T, NEW base \in T,
           NEW c, \A s \in SUBSET S : s # {} => c[s] \in s,
           NEW F, \A x \in S, v \in T : F[<<x, v>>] \in T
    PROVE  \E g : IsFold(g, S, c, base, F) /\ g \in [SUBSET S -> T]
<1> DEFINE D(n) == {s \in SUBSET S : Cardinality(s) <= n}
           E(n) == \E g \in [D(n) -> T] : FoldEq(g, S, D(n), c, base, F)
           N == {n \in Nat : E(n)}
<1>1. \A s \in SUBSET S : /\ IsFiniteSet(s) /\ Cardinality(s) \in Nat
                          /\ Cardinality(s) = 0 <=> s = {}
                          /\ s # {} => Cardinality(s \ {c[s]}) = Cardinality(s) - 1
  BY FS_Subset, FS_CardinalityType, FS_RemoveElement, FS_EmptySet
<1>2. 0 \in N
  <2>1. \A s \in D(0) : s = {}
    <3> SUFFICES ASSUME NEW s \in SUBSET S, Cardinality(s) <= 0 PROVE s = {} OBVIOUS
    <3>0. Cardinality(s) \in Nat BY <1>1
    <3>1. Cardinality(s) = 0 BY <3>0
    <3>2. QED BY <3>1, <1>1
  <2>2. [s \in D(0) |-> base] \in [D(0) -> T] OBVIOUS
  <2>3. FoldEq([s \in D(0) |-> base], S, D(0), c, base, F) BY <2>1 DEF FoldEq
  <2>4. E(0) BY <2>2, <2>3
  <2>5. QED BY <2>4
<1>3. ASSUME NEW n \in N PROVE n + 1 \in N
  <2>1. n \in Nat /\ E(n) BY <1>3
  <2>2. PICK h \in [D(n) -> T] : FoldEq(h, S, D(n), c, base, F) BY <2>1
  <2> DEFINE g == [s \in D(n + 1) |-> IF s = {} THEN base ELSE F[<<c[s], h[s \ {c[s]}]>>]]
  <2>3. \A s \in D(n + 1) : s # {} => s \ {c[s]} \in D(n) /\ s \ {c[s]} \in D(n + 1)
                                      /\ c[s] \in S
    <3> SUFFICES ASSUME NEW s \in SUBSET S, Cardinality(s) <= n + 1, s # {}
                 PROVE  /\ s \ {c[s]} \in SUBSET S /\ Cardinality(s \ {c[s]}) <= n
                        /\ Cardinality(s \ {c[s]}) <= n + 1 /\ c[s] \in S
      OBVIOUS
    <3>1. c[s] \in s OBVIOUS
    <3>2. Cardinality(s \ {c[s]}) = Cardinality(s) - 1 /\ Cardinality(s) \in Nat BY <1>1
    <3>3. QED BY <2>1, <3>1, <3>2
  <2>4. \A s \in D(n) : s \in D(n + 1)
    <3> SUFFICES ASSUME NEW s \in SUBSET S, Cardinality(s) <= n PROVE Cardinality(s) <= n + 1
      OBVIOUS
    <3>1. Cardinality(s) \in Nat BY <1>1
    <3>2. QED BY <2>1, <3>1
  <2>5. \A s \in D(n) : g[s] = h[s] BY <2>2, <2>4 DEF FoldEq
  <2>6. \A s \in D(n + 1) : g[s] \in T BY <2>3, <2>2
  <2>7. FoldEq(g, S, D(n + 1), c, base, F)
    <3>1. \A s \in D(n + 1) : s # {} => g[s \ {c[s]}] = h[s \ {c[s]}] BY <2>3, <2>5
    <3>2. QED BY <3>1 DEF FoldEq
  <2>8. g \in [D(n + 1) -> T] BY <2>6
  <2> HIDE DEF g, D
  <2>9. E(n + 1) BY <2>7, <2>8
  <2>10. QED BY <2>1, <2>9
<1>4. Cardinality(S) \in N
  <2>1. N \subseteq Nat OBVIOUS
  <2> HIDE DEF N
  <2>2. N = Nat BY <1>2, <1>3, <2>1, AllNumbers
  <2>3. QED BY <2>2, FS_CardinalityType
<1>5. D(Cardinality(S)) = SUBSET S BY FS_Subset, FS_CardinalityType
<1>6. PICK g \in [SUBSET S -> T] : FoldEq(g, S, SUBSET S, c, base, F)
  <2> HIDE DEF D
  <2>1. QED BY ZenonT(60), <1>4, <1>5
<1>7. g = [s \in SUBSET S |-> IF s = {} THEN base ELSE F[<<c[s], g[s \ {c[s]}]>>]]
  BY <1>6 DEF FoldEq
<1>8. QED BY <1>7 DEF IsFold

\* What a fold starts with and every step of it keeps holds at its end.
LEMMA FoldStays ==
    ASSUME NEW S, IsFiniteSet(S), NEW T,
           NEW c, \A s \in SUBSET S : s # {} => c[s] \in s,
           NEW g, g[{}] \in T,
           \A s \in SUBSET S : s # {} /\ g[s \ {c[s]}] \in T => g[s] \in T
    PROVE  g[S] \in T
<1> DEFINE N == {n \in Nat : \A s \in SUBSET S : Cardinality(s) = n => g[s] \in T}
<1>1. \A s \in SUBSET S : /\ IsFiniteSet(s) /\ Cardinality(s) \in Nat
                          /\ Cardinality(s) = 0 <=> s = {}
                          /\ s # {} => Cardinality(s \ {c[s]}) = Cardinality(s) - 1
  BY FS_Subset, FS_CardinalityType, FS_RemoveElement, FS_EmptySet
<1>3. 0 \in N BY <1>1
<1>4. ASSUME NEW n \in N PROVE n + 1 \in N
  <2>1. n \in Nat OBVIOUS
  <2>2. ASSUME NEW s \in SUBSET S, Cardinality(s) = n + 1 PROVE g[s] \in T
    <3>0. Cardinality(s) # 0 BY <2>1, <2>2
    <3>1. s # {} BY <1>1, <3>0
    <3>2. c[s] \in s BY <3>1
    <3>3. c[s] \in S /\ s \ {c[s]} \in SUBSET S BY <3>2
    <3>4. Cardinality(s \ {c[s]}) = Cardinality(s) - 1 BY <1>1, <3>1
    <3>5. Cardinality(s \ {c[s]}) = n BY <2>1, <2>2, <3>4
    <3>6. g[s \ {c[s]}] \in T BY <3>3, <3>5
    <3>7. QED BY <3>1, <3>6
  <2>3. n + 1 \in Nat BY <2>1
  <2>4. QED BY <2>2, <2>3
<1>5. Cardinality(S) \in N
  <2>1. N \subseteq Nat OBVIOUS
  <2> HIDE DEF N
  <2>2. N = Nat BY <1>3, <1>4, <2>1, AllNumbers
  <2>3. QED BY <2>2, FS_CardinalityType
<1>6. QED BY <1>5

\* FoldLeft takes the largest index that is left: there is one.
LEMMA MaxIn == ASSUME NEW n \in Nat, NEW s \in SUBSET (1..n), s # {} PROVE Max(s) \in s
<1> DEFINE U == {m \in Nat : \A k \in s : k <= m}
<1>1. U \subseteq Nat /\ n \in U OBVIOUS
<1>2. PICK m \in U : \A k \in U : m <= k
  <2> HIDE DEF U
  <2>1. QED BY <1>1, LeastNumber
<1>3. ASSUME m \notin s PROVE FALSE
  <2>1. \A k \in s : k \in Nat /\ k >= 1 /\ k <= m /\ k # m BY <1>2, <1>3
  <2>2. PICK k \in s : TRUE OBVIOUS
  <2>3. m \in Nat /\ m >= 1 BY <2>1, <1>2, <2>2
  <2>4. m - 1 \in U BY <2>1, <2>3
  <2>5. QED BY <2>4, <2>3, <1>2
<1>4. \E x \in s : \A k \in s : k <= x BY <1>2, <1>3
<1>5. QED BY <1>4 DEF Max

\* The handler's loop over the log header evicts blocks and adds none.
LEMMA EvictType == ASSUME NEW h \in Seq(Block) PROVE Evict(h) \in Seq(Block)
<1> DEFINE S == 1..Len(h)
           T == Seq(Block)
           first == buf[list[1]].block
           step(g, i) == IF i <= Len(g) /\ g[i] # first THEN RemoveAt(g, i) ELSE g
           F == [x \in S \X T |-> step(x[2], x[1])]
           c == [s \in SUBSET S |-> Max(s)]
           Eq(g) == g = [s \in SUBSET S |->
                           IF s = {} THEN h ELSE step(g[s \ {Max(s)}], [i \in 1..Len(h) |-> i][Max(s)])]
<1>1. Evict(h) = (CHOOSE g : Eq(g))[S]
  BY Zenon DEF Evict, FoldLeft, MapThenFoldSet
<1>2. IsFiniteSet(S) /\ Len(h) \in Nat BY FS_Interval
<1>3. \A s \in SUBSET S : s # {} => Max(s) \in s /\ c[s] = Max(s) BY <1>2, MaxIn
<1>4. \A x \in S, v \in T : F[<<x, v>>] = step(v, x) /\ step(v, x) \in T BY RemoveAtIndex
<1>5. PICK g : IsFold(g, S, c, h, F) /\ g \in [SUBSET S -> T]
  <2> HIDE DEF S, T, F, c
  <2>1. h \in T BY DEF T
  <2>2. \A x \in S, v \in T : F[<<x, v>>] \in T
    <3> HIDE DEF step
    <3>1. QED BY <1>4
  <2>3. \A s \in SUBSET S : s # {} => c[s] \in s BY <1>3
  <2>4. IsFiniteSet(S) BY <1>2
  <2>5. QED BY ONLY <2>1, <2>2, <2>3, <2>4, FoldExists
<1>6. Eq(g)
  <2>1. \A s \in SUBSET S : s # {} => 
           F[<<c[s], g[s \ {c[s]}]>>] = step(g[s \ {Max(s)}], [i \in 1..Len(h) |-> i][Max(s)])
    <3> SUFFICES ASSUME NEW s \in SUBSET S, s # {} 
         PROVE F[<<c[s], g[s \ {c[s]}]>>] = step(g[s \ {Max(s)}], [i \in 1..Len(h) |-> i][Max(s)])
      OBVIOUS
    <3>1. Max(s) \in s /\ c[s] = Max(s) BY <1>3
    <3>2. [i \in 1..Len(h) |-> i][Max(s)] = Max(s) /\ Max(s) \in S BY <3>1
    <3>3. g[s \ {Max(s)}] \in T BY <1>5
    <3> HIDE DEF S, T, F, c, step
    <3>4. QED BY <1>4, <3>1, <3>2, <3>3
  <2> HIDE DEF S, T, F, c, step
  <2>2. QED BY <1>5, <2>1 DEF IsFold
<1>7. PICK f : f = CHOOSE k : Eq(k) OBVIOUS
<1>8. Eq(f) BY ZenonT(60), <1>6, <1>7
<1>9. f[{}] \in T BY <1>8
<1>10. \A s \in SUBSET S : s # {} /\ f[s \ {c[s]}] \in T => f[s] \in T
  <2> SUFFICES ASSUME NEW s \in SUBSET S, s # {}, f[s \ {c[s]}] \in T PROVE f[s] \in T OBVIOUS
  <2>1. Max(s) \in s /\ c[s] = Max(s) BY <1>3
  <2>2. [i \in 1..Len(h) |-> i][Max(s)] = Max(s) /\ Max(s) \in S BY <2>1
  <2>3. f[s] = step(f[s \ {Max(s)}], Max(s)) BY <1>8, <2>2
  <2> HIDE DEF S, T, F, c, step
  <2>4. QED BY <1>4, <2>1, <2>2, <2>3
<1>11. f[S] \in T
  <2> HIDE DEF S, T, F, c, step
  <2>1. \A s \in SUBSET S : s # {} => c[s] \in s BY <1>3
  <2>2. IsFiniteSet(S) BY <1>2
  <2>3. QED BY ONLY <1>9, <1>10, <2>1, <2>2, FoldStays
<1>12. QED BY <1>1, <1>7, <1>11
\* The rest of the types.
RestTypes ==
    /\ spinner \in Recovering \cup {NoProc} /\ continue_polling \in BOOLEAN
    /\ mode \in [Proc -> Modes] /\ rw \in [Proc -> BOOLEAN] /\ tail \in [Proc -> Nat]
    /\ lh \in Seq(Block) /\ committing \in BOOLEAN /\ halted \in BOOLEAN
    /\ ops \in 0..MaxOps /\ truth \in [Block -> Val]
    /\ crossed \in BOOLEAN /\ unbalanced \in BOOLEAN /\ astray \subseteq Block

\* Only the first descriptor of a request has a buffer in disk.info[], and so
\* the rings of avail and used, that have first descriptors, are never full.
QueueInv ==
    /\ IsInjective(used)
    /\ \E d \in Desc : info[d] = NoNode
    /\ \A d \in free : info[d] = NoNode
    /\ \A p \in Proc : \A k \in 2..Len(idx[p]) : info[idx[p][k]] = NoNode

Rest == RestTypes /\ QueueInv

\* A step that gives no descriptor away keeps the rings.
LEMMA QueueKept == ASSUME QueueInv, UNCHANGED <<info, free, idx, used>> PROVE QueueInv'
  BY DEF QueueInv

\* Initially no request is under way.
LEMMA InitRest == Init => Rest
<1> SUFFICES ASSUME Init PROVE Rest OBVIOUS
<1> USE DEF Init
<1>1. RestTypes
  <2>1. MaxOps \in Nat BY BcacheAssumption
  <2>2. truth \in [Block -> Val] BY DEF Val
  <2>3. lh \in Seq(Block) /\ 0 \in 0..MaxOps BY <2>1
  <2>4. mode \in [Proc -> Modes] /\ rw \in [Proc -> BOOLEAN] /\ tail \in [Proc -> Nat] BY DEF Modes
  <2>5. QED BY <2>2, <2>3, <2>4 DEF RestTypes
<1>2. QueueInv
  <2>1. 0 \in Desc BY BcacheAssumption DEF Desc
  <2>2. IsInjective(used) BY DEF IsInjective
  <2>3. \A p \in Proc : 2..Len(idx[p]) = {} OBVIOUS
  <2>4. QED BY <2>1, <2>2, <2>3 DEF QueueInv
<1>3. QED BY <1>1, <1>2 DEF Rest

\* bget and the places of a process before its buffer is locked.
LEMMA BgetRest == ASSUME Inv, Rest, NEW p \in Proc, NEW b \in Block, Bget(p, b) PROVE Rest'
<1>1. UNCHANGED <<info, free, idx, used, spinner, continue_polling, rw, tail, lh, committing,
                  truth, crossed, unbalanced, astray>>
  BY DEF Bget, disk, descs, log, history, rings
<1>2. halted' \in BOOLEAN BY DEF Bget, Halt, Rest, RestTypes
<1>3. mode' \in [Proc -> Modes] /\ ops' \in 0..MaxOps
  <2>1. MaxOps \in Nat BY BcacheAssumption
  <2>2. Wants(p, b) /\ StartCall(p) BY DEF Bget
  <2>3. CASE mode[p] = "none"
    <3>1. ops < MaxOps /\ ops' = ops + 1 BY <2>2, <2>3 DEF Wants, StartCall
    <3>2. PICK m \in Modes : mode' = [mode EXCEPT ![p] = m]
      BY <2>2, <2>3 DEF StartCall, Modes
    <3>3. QED BY <2>1, <3>1, <3>2 DEF Rest, RestTypes
  <2>4. CASE mode[p] # "none" BY <2>2, <2>4 DEF StartCall, Rest, RestTypes
  <2>5. QED BY <2>3, <2>4
<1>4. QED BY <1>1, <1>2, <1>3, QueueKept DEF Rest, RestTypes

\* The steps that neither take nor give back descriptors.
LEMMA QuietRest ==
    ASSUME Inv, Rest, NEW p \in Proc,
           \/ EnterNode(p) \/ AcquireSleep(p) \/ Poll(p) \/ StartCommit(p) \/ Bwrite(p)
           \/ Bunpin(p) \/ ReleaseSleep(p) \/ Brelse(p) \/ EndCommit(p) \/ InsertNew(p)
    PROVE  Rest'
<1>1. UNCHANGED <<info, free, idx, used>>
  <2>1. CASE EnterNode(p) \/ AcquireSleep(p) \/ Poll(p) \/ StartCommit(p) \/ Bwrite(p)
    BY <2>1 DEF EnterNode, AcquireSleep, Poll, StartCommit, Bwrite, disk, descs, rings, procs
  <2>2. CASE Bunpin(p) \/ ReleaseSleep(p) \/ Brelse(p) \/ EndCommit(p) \/ InsertNew(p)
    BY <2>2 DEF Bunpin, ReleaseSleep, Brelse, EndCommit, InsertNew, disk, descs, rings
  <2>3. QED BY <2>1, <2>2
<1>2. RestTypes'
  <2> USE DEF Rest, RestTypes, disk, descs, rings, procs, log, bounds, history
  <2>1. CASE EnterNode(p) BY <2>1 DEF EnterNode, Halt
  <2>2. CASE AcquireSleep(p) BY <2>2 DEF AcquireSleep
  <2>3. CASE Poll(p) BY <2>3 DEF Poll
  <2>4. CASE StartCommit(p) BY <2>4 DEF StartCommit, Modes
  <2>5. CASE Bwrite(p) BY <2>5 DEF Bwrite
  <2>6. CASE Bunpin(p) BY <2>6 DEF Bunpin
  <2>7. CASE ReleaseSleep(p) BY <2>7 DEF ReleaseSleep
  <2>8. CASE Brelse(p)
    <3>1. mode' \in [Proc -> Modes] BY <2>8 DEF Brelse, Modes
    <3>2. tail' \in [Proc -> Nat] BY <2>8 DEF Brelse
    <3>3. QED BY <2>8, <3>1, <3>2 DEF Brelse
  <2>9. CASE EndCommit(p)
    <3>1. lh' \in Seq(Block) BY <2>9 DEF EndCommit
    <3>2. QED BY <2>9, <3>1 DEF EndCommit, Modes
  <2>10. CASE InsertNew(p) BY <2>10 DEF InsertNew
  <2>11. QED BY <2>1, <2>2, <2>3, <2>4, <2>5, <2>6, <2>7, <2>8, <2>9, <2>10
<1>3. QED BY <1>1, <1>2, QueueKept DEF Rest

\* log_write logs a block.
LEMMA LogWriteRest == ASSUME Inv, Rest, NEW p \in Proc, LogWrite(p) PROVE Rest'
<1>1. UNCHANGED <<info, free, idx, used, spinner, continue_polling, mode, rw, tail, committing,
                  halted, ops, crossed, unbalanced>>
  BY DEF LogWrite, disk, descs, bounds, rings
<1>2. cur[p] \in Node /\ pc[p] \in InSection
  BY PlaceFacts DEF LogWrite, At, Inv, InSection, Locked
<1>3. PICK n \in Node : n = cur[p] BY <1>2
<1>4. buf[n].block \in Block /\ 1 - buf[n].data \in Val
  <2>1. buf[n] \in Buf BY DEF Inv, Types
  <2>2. buf[n].block # NoBlock BY <1>2, <1>3 DEF Inv, BlockInv, B
  <2>3. QED BY <2>1, <2>2 DEF Buf, Val
<1>5. PICK v \in Val : v = 1 - buf[n].data BY <1>4
<1>6. PICK b \in Block : b = buf[n].block BY <1>4
<1>7. truth' = [truth EXCEPT ![b] = v] /\ lh' \in {lh, Append(lh, b)}
  BY <1>3, <1>5, <1>6 DEF LogWrite, B
<1>8. truth' \in [Block -> Val] BY <1>7 DEF Rest, RestTypes
<1>9. lh' \in Seq(Block)
  <2>1. lh \in Seq(Block) BY DEF Rest, RestTypes
  <2>2. Append(lh, b) \in Seq(Block) BY <2>1, AppendRange
  <2>3. QED BY <1>7, <2>1, <2>2
<1>10. astray' \subseteq Block
  <2>1. astray' \in {astray \ {b}, astray \cup {b}, astray} BY <1>3, <1>6 DEF LogWrite, B
  <2>2. astray \subseteq Block BY DEF Rest, RestTypes
  <2>3. QED BY ONLY <2>1, <2>2
<1>11. RestTypes' BY <1>1, <1>8, <1>9, <1>10 DEF Rest, RestTypes
<1>12. QED BY <1>1, <1>11, QueueKept DEF Rest

\* A request takes three free descriptors, one of them first.
LEMMA VirtioStartRest == ASSUME Inv, Rest, NEW p \in Proc, VirtioStart(p) PROVE Rest'
<1>1. UNCHANGED <<used, mode, rw, tail, lh, committing, halted, ops, truth, crossed, unbalanced, astray>>
  BY DEF VirtioStart, log, bounds, history
<1>2. spinner' \in Recovering \cup {NoProc} /\ continue_polling' \in BOOLEAN
  BY DEF VirtioStart, Rest, RestTypes
<1>3. RestTypes' BY <1>1, <1>2 DEF Rest, RestTypes
<1>4. CASE Cardinality(free) >= 3
  <2>1. PICK d : d = <<Lowest(0), Lowest(1), Lowest(2)>> OBVIOUS
  <2>2. /\ free' = free \ Range(d) /\ idx' = [idx EXCEPT ![p] = d]
        /\ info' = [info EXCEPT ![d[1]] = cur[p]]
    BY <1>4, <2>1 DEF VirtioStart
  <2>3. /\ d[1] \in free /\ d[2] \in free /\ d[3] \in free /\ d[1] # d[2] /\ d[1] # d[3]
        /\ Len(d) = 3
    BY <1>4, <2>1, ThreeLowest DEF Inv
  <2>4. /\ free \subseteq Desc /\ info \in [Desc -> Node \cup {NoNode}]
        /\ idx \in [Proc -> Seq(Desc)]
    BY DEF Inv, Types
  <2>5. \A e \in Desc : e # d[1] => info'[e] = info[e] BY <2>2, <2>4
  <2>6. d[1] \in Range(d) /\ d[2] \in Desc /\ info[d[2]] = NoNode
    <3>1. 1 \in DOMAIN d BY <2>1
    <3>2. QED BY <2>3, <2>4, <3>1 DEF Range, Rest, QueueInv
  <2>7. \A e \in free' : info'[e] = NoNode
    BY <2>2, <2>4, <2>5, <2>6 DEF Rest, QueueInv
  <2>8. \A q \in Proc : \A k \in 2..Len(idx'[q]) : info'[idx'[q][k]] = NoNode
    <3> SUFFICES ASSUME NEW q \in Proc, NEW k \in 2..Len(idx'[q])
                 PROVE  info'[idx'[q][k]] = NoNode
      OBVIOUS
    <3>1. CASE q = p
      <4>1. idx'[q] = d BY <3>1, <2>2, <2>4
      <4>2. k \in {2, 3} BY <4>1, <2>3
      <4>3. d[k] \in free /\ d[k] # d[1] BY <4>2, <2>3
      <4>4. QED BY <4>1, <4>3, <2>4, <2>5 DEF Rest, QueueInv
    <3>2. CASE q # p
      <4>1. idx'[q] = idx[q] BY <3>2, <2>2, <2>4
      <4>2. k \in DOMAIN idx[q] /\ idx[q][k] \in Desc BY <4>1, <2>4
      <4>3. idx[q][k] \in Range(idx[q]) BY <4>2 DEF Range
      <4>4. idx[q][k] # d[1] BY <4>3, <2>3 DEF Inv, DescInv
      <4>5. QED BY <4>1, <4>2, <4>4, <2>5 DEF Rest, QueueInv
    <3>3. QED BY <3>1, <3>2
  <2>9. \E e \in Desc : info'[e] = NoNode BY <2>3, <2>5, <2>6
  <2>10. QueueInv' BY <1>1, <2>7, <2>8, <2>9 DEF Rest, QueueInv
  <2>11. QED BY <1>3, <2>10 DEF Rest
<1>5. CASE ~(Cardinality(free) >= 3)
  <2>1. UNCHANGED <<info, free, idx, used>> BY <1>5 DEF VirtioStart, descs
  <2>2. QED BY <1>3, <2>1, QueueKept DEF Rest
<1>6. QED BY <1>4, <1>5

\* A finished request gives its descriptors back, none of them first any more.
LEMMA VirtioDoneRest == ASSUME Inv, Rest, NEW p \in Proc, VirtioDone(p) PROVE Rest'
<1>1. UNCHANGED <<used, spinner, mode, rw, tail, lh, committing, halted, ops, truth, crossed,
                  unbalanced, astray>>
  BY DEF VirtioDone, log, bounds, history, rings
<1>2. continue_polling' \in BOOLEAN BY DEF VirtioDone, Rest, RestTypes
<1>3. RestTypes' BY <1>1, <1>2 DEF Rest, RestTypes
<1>4. CASE B(p).disk
  <2>1. UNCHANGED <<info, free, idx, used>> BY <1>1, <1>4 DEF VirtioDone, descs
  <2>2. QED BY <1>3, <2>1, QueueKept DEF Rest
<1>5. CASE ~B(p).disk
  <2>1. pc[p] \in InFlight BY DEF VirtioDone, At, InFlight
  <2>2. PICK d \in Desc : d = idx[p][1]
    BY <2>1, FirstOfChain DEF Inv, PlaceInv, PlaceOK
  <2>3. /\ free' = free \cup Range(idx[p]) /\ info' = [info EXCEPT ![d] = NoNode]
        /\ idx' = [idx EXCEPT ![p] = <<>>]
    BY <1>5, <2>2 DEF VirtioDone, Chain
  <2>4. /\ free \subseteq Desc /\ info \in [Desc -> Node \cup {NoNode}]
        /\ idx \in [Proc -> Seq(Desc)]
    BY DEF Inv, Types
  <2>5. \A e \in Desc : info'[e] = IF e = d THEN NoNode ELSE info[e] BY <2>3, <2>4
  <2>6. \A q \in Proc : \A k \in 2..Len(idx[q]) : idx[q][k] \in Desc /\ info[idx[q][k]] = NoNode
    <3>1. \A q \in Proc : \A k \in 2..Len(idx[q]) : k \in DOMAIN idx[q] BY <2>4
    <3>2. QED BY <3>1, <2>4 DEF Rest, QueueInv
  <2>7. \A e \in Range(idx[p]) : e \in Desc /\ info'[e] = NoNode
    <3> SUFFICES ASSUME NEW k \in DOMAIN idx[p]
                 PROVE  idx[p][k] \in Desc /\ info'[idx[p][k]] = NoNode
      BY DEF Range
    <3>1. idx[p][k] \in Desc BY <2>4
    <3>2. k = 1 \/ k \in 2..Len(idx[p]) BY <2>4
    <3>3. QED BY <3>1, <3>2, <2>2, <2>5, <2>6
  <2>8. \A e \in free' : info'[e] = NoNode
    BY <2>3, <2>4, <2>5, <2>7 DEF Rest, QueueInv
  <2>9. \A q \in Proc : \A k \in 2..Len(idx'[q]) : info'[idx'[q][k]] = NoNode
    <3> SUFFICES ASSUME NEW q \in Proc, NEW k \in 2..Len(idx'[q])
                 PROVE  info'[idx'[q][k]] = NoNode
      OBVIOUS
    <3>1. q # p
      <4>1. SUFFICES ASSUME q = p PROVE FALSE OBVIOUS
      <4>2. idx'[q] = <<>> BY <4>1, <2>3, <2>4
      <4>3. QED BY <4>2
    <3>2. idx'[q] = idx[q] BY <3>1, <2>3, <2>4
    <3>3. QED BY <3>2, <2>5, <2>6
  <2>10. QueueInv' BY <1>1, <2>2, <2>5, <2>8, <2>9 DEF Rest, QueueInv
  <2>11. QED BY <1>3, <2>10 DEF Rest
<1>6. QED BY <1>4, <1>5

\* The device moves a request to the used ring, that does not have it yet.
LEMMA DeviceRest == ASSUME Inv, Rest, NEW i, Device(i) PROVE Rest'
<1>1. UNCHANGED <<info, free, idx, spinner, continue_polling, mode, rw, tail, lh, committing,
                  halted, ops, truth, crossed, unbalanced, astray>>
  BY DEF Device, descs, procs, log, bounds, history
<1>2. i \in DOMAIN avail /\ used' = Append(used, avail[i]) BY DEF Device
<1>3. avail \in Seq(Desc) /\ used \in Seq(Desc) BY DEF Inv, Types
<1>4. avail[i] \in Desc /\ avail[i] \notin Range(used)
  <2>1. avail[i] \in Desc /\ avail[i] \in Range(avail) BY <1>2, <1>3 DEF Range
  <2>2. QED BY <2>1 DEF Inv, RequestInv
<1>5. IsInjective(used') BY <1>2, <1>3, <1>4, AppendRange DEF Rest, QueueInv
<1>6. QED BY <1>1, <1>5 DEF Rest, RestTypes, QueueInv

\* The interrupt handler takes everything off the used ring.
LEMMA VirtioIntrRest == ASSUME Inv, Rest, VirtioIntr PROVE Rest'
<1>1. UNCHANGED <<info, free, idx, spinner, continue_polling, mode, rw, tail, lh, committing,
                  halted, ops, truth, crossed, unbalanced, astray>> /\ used' = <<>>
  BY DEF VirtioIntr, descs, log, bounds
<1>2. IsInjective(used') BY <1>1 DEF IsInjective
<1>3. QED BY <1>1, <1>2 DEF Rest, RestTypes, QueueInv

\* The handler takes the broken buffer's block back to what the disk has.
LEMMA StartRecoveryRest ==
    ASSUME Inv, Rest, NEW p \in Proc, NEW n \in Node, StartRecovery(p, n)
    PROVE  Rest'
<1>1. UNCHANGED <<info, free, idx, used, spinner, continue_polling, mode, rw, tail, lh,
                  committing, ops, crossed, unbalanced, astray>>
  BY DEF StartRecovery, disk, descs, log, rings
<1>2. halted' \in BOOLEAN BY DEF StartRecovery, Halt, Rest, RestTypes
<1>3. truth' \in [Block -> Val]
  <2>1. truth \in [Block -> Val] /\ ondisk \in [Block -> Val] /\ buf[n] \in Buf
    BY DEF Rest, RestTypes, Inv, Types
  <2>2. CASE buf[n].block = NoBlock BY <2>1, <2>2 DEF StartRecovery
  <2>3. CASE buf[n].block # NoBlock
    <3>1. PICK b \in Block : b = buf[n].block BY <2>1, <2>3 DEF Buf
    <3>2. truth' \in {truth, [truth EXCEPT ![b] = ondisk[b]]} BY <2>3, <3>1 DEF StartRecovery
    <3>3. QED BY <2>1, <3>2
  <2>4. QED BY <2>2, <2>3
<1>4. QED BY <1>1, <1>2, <1>3, QueueKept DEF Rest, RestTypes

\* The end of the handler evicts blocks from the log header and may drain the
\* used ring.
LEMMA SolveRest == ASSUME Inv, Rest, NEW p \in Proc, Solve(p) PROVE Rest'
<1>1. UNCHANGED <<info, free, spinner, continue_polling, rw, tail, halted, ops, truth, unbalanced, astray>>
  BY DEF Solve, descs, bounds
<1>2. /\ lh' = Evict(lh) /\ committing' = FALSE /\ crossed' = (crossed \/ committing)
      /\ mode' = [mode EXCEPT ![p] = "none"] /\ idx' = [idx EXCEPT ![p] = <<>>]
      /\ used' \in {used, <<>>}
  BY DEF Solve
<1>3. lh' \in Seq(Block) BY <1>2, EvictType DEF Rest, RestTypes
<1>4. RestTypes' BY <1>1, <1>2, <1>3 DEF Rest, RestTypes, Modes
<1>5. IsInjective(used')
  <2>1. CASE used' = used BY <2>1 DEF Rest, QueueInv
  <2>2. CASE used' = <<>> BY <2>2 DEF IsInjective
  <2>3. QED BY <1>2, <2>1, <2>2
<1>6. \A q \in Proc : \A k \in 2..Len(idx'[q]) : info'[idx'[q][k]] = NoNode
  <2> SUFFICES ASSUME NEW q \in Proc, NEW k \in 2..Len(idx'[q])
               PROVE  info'[idx'[q][k]] = NoNode
    OBVIOUS
  <2>1. idx \in [Proc -> Seq(Desc)] BY DEF Inv, Types
  <2>2. q # p
    <3>1. SUFFICES ASSUME q = p PROVE FALSE OBVIOUS
    <3>2. idx'[q] = <<>> BY <3>1, <1>2, <2>1
    <3>3. QED BY <3>2
  <2>3. idx'[q] = idx[q] BY <1>2, <2>1, <2>2
  <2>4. QED BY <1>1, <2>3 DEF Rest, QueueInv
<1>7. QueueInv' BY <1>1, <1>5, <1>6 DEF Rest, QueueInv
<1>8. QED BY <1>4, <1>7 DEF Rest

\* Every step keeps the types and the rings.
LEMMA NextRest == ASSUME Inv, Rest, [Next]_vars PROVE Rest'
<1>1. ASSUME NEW p \in Proc, ProcNext(p) PROVE Rest'
  <2>1. ASSUME NEW b \in Block, Bget(p, b) PROVE Rest' BY <2>1, BgetRest
  <2>2. CASE VirtioStart(p) BY <2>2, VirtioStartRest
  <2>3. CASE VirtioDone(p) BY <2>3, VirtioDoneRest
  <2>4. CASE LogWrite(p) BY <2>4, LogWriteRest
  <2>5. CASE Solve(p) BY <2>5, SolveRest
  <2>6. QED BY <1>1, <2>1, <2>2, <2>3, <2>4, <2>5, QuietRest DEF ProcNext
<1>2. \A i \in DOMAIN list : list[i] \in Node BY DEF Inv, Types
<1>3. ASSUME NEW p \in Proc, Hit(p) PROVE Rest'
  <2>1. cur[p] \in Node BY <1>2, <1>3 DEF Hit, Range
  <2>2. QED BY <1>3, <2>1, StartRecoveryRest DEF Hit
<1>4. ASSUME NEW p \in Proc, NEW i, ScanHit(p, i) PROVE Rest'
  <2>1. list[i] \in Node BY <1>2, <1>4 DEF ScanHit, Unused
  <2>2. QED BY <1>4, <2>1, StartRecoveryRest DEF ScanHit
<1>5. ASSUME NEW i, Device(i) PROVE Rest' BY <1>5, DeviceRest
<1>6. CASE VirtioIntr BY <1>6, VirtioIntrRest
<1>7. CASE UNCHANGED vars
  <2>1. UNCHANGED <<info, free, idx, used, spinner, continue_polling, mode, rw, tail, lh,
                    committing, halted, ops, truth, crossed, unbalanced, astray>>
    BY <1>7 DEF vars, disk, descs, procs, log, bounds, history, rings
  <2>2. QED BY <2>1, QueueKept DEF Rest, RestTypes
<1>8. QED BY <1>1, <1>3, <1>4, <1>5, <1>6, <1>7 DEF Next

\* The rings have a place for every request: they are the first descriptors of
\* requests, and not every descriptor is first.
LEMMA RingsHavePlace == ASSUME Inv, Rest PROVE Len(avail) + Len(used) < NUM
<1>1. avail \in Seq(Desc) /\ used \in Seq(Desc) /\ IsInjective(avail) /\ IsInjective(used)
      /\ Range(avail) \cap Range(used) = {}
  BY DEF Inv, Types, RequestInv, Rest, QueueInv
<1>2. PICK e \in Desc : info[e] = NoNode BY DEF Rest, QueueInv
<1>3. Range(avail) \subseteq Desc /\ Range(used) \subseteq Desc BY <1>1 DEF Range
<1>4. e \notin Range(avail) /\ e \notin Range(used) BY <1>2 DEF Inv, RequestInv, Pending
<1>5. IsFiniteSet(Desc) /\ Cardinality(Desc) = NUM
  <2>1. NUM \in Nat \ {0} BY BcacheAssumption
  <2>2. QED BY <2>1, FS_Interval DEF Desc
<1>6. ASSUME NEW s \in Seq(Desc), IsInjective(s)
      PROVE  IsFiniteSet(Range(s)) /\ Cardinality(Range(s)) = Len(s)
  <2>1. DOMAIN s = 1..Len(s) /\ Len(s) \in Nat BY <1>6
  <2>2. s \in Bijection(1..Len(s), Range(s))
    <3>1. s \in [1..Len(s) -> Range(s)] BY <2>1 DEF Range
    <3>2. \A i, j \in 1..Len(s) : s[i] = s[j] => i = j BY <1>6, <2>1 DEF IsInjective
    <3>3. \A x \in Range(s) : \E i \in 1..Len(s) : s[i] = x BY <2>1 DEF Range
    <3>4. QED BY <3>1, <3>2, <3>3 DEF Bijection, Injection, Surjection, IsInjective
  <2>3. IsFiniteSet(1..Len(s)) /\ Cardinality(1..Len(s)) = Len(s) BY <2>1, FS_Interval
  <2>4. QED BY <2>2, <2>3, FS_Bijection DEF ExistsBijection
<1>7. PICK A, U : A = Range(avail) /\ U = Range(used) OBVIOUS
<1>8. /\ IsFiniteSet(A) /\ Cardinality(A) = Len(avail)
      /\ IsFiniteSet(U) /\ Cardinality(U) = Len(used)
  BY <1>1, <1>6, <1>7
<1>9. IsFiniteSet(A \cup U) /\ Cardinality(A \cup U) = Len(avail) + Len(used)
  <2>1. A \cap U = {} BY <1>1, <1>7
  <2>2. Cardinality(A \cap U) = 0 BY <2>1, FS_EmptySet
  <2>3. Cardinality(A \cup U) = Cardinality(A) + Cardinality(U) - Cardinality(A \cap U)
        /\ IsFiniteSet(A \cup U)
    BY <1>8, FS_Union
  <2>4. QED BY <1>8, <2>2, <2>3, FS_CardinalityType
<1>10. A \cup U \subseteq Desc \ {e} BY <1>3, <1>4, <1>7
<1>11. Cardinality(A \cup U) <= Cardinality(Desc \ {e})
       /\ Cardinality(Desc \ {e}) = NUM - 1
  BY <1>5, <1>10, FS_Subset, FS_RemoveElement
<1>12. QED BY <1>1, <1>9, <1>11, BcacheAssumption

AllInv == Inv /\ CleanInv /\ Rest

\* The cache fits together always, and is clean until the first error.
LEMMA AllCorrect == Spec => []AllInv
<1>1. Init => AllInv BY InitInv, InitClean, InitRest DEF AllInv, CleanInv
<1>2. AllInv /\ [Next]_vars => AllInv' BY NextInv, NextClean, NextRest DEF AllInv
<1>3. QED BY <1>1, <1>2, PTL DEF Spec

\* The reference count of bio.c before the first error: a buffer has one
\* reference for each process between bget and brelse, and one for the log
\* from log_write to the bunpin of install_trans.
THEOREM ReferencesCounted == Spec => []RefcntExact
<1>1. AllInv => RefcntExact
  <2> SUFFICES ASSUME Inv, Clean, NEW i \in DOMAIN list
               PROVE
               LET n == list[i]
                   pinned == buf[n].block \in Range(lh)
                   unpinned == \E p \in Proc : mode[p] = "install" /\
                       \/ \E k \in 1..(tail[p] - 1) : k <= Len(lh) /\ lh[k] = buf[n].block
                       \/ cur[p] = n /\ pc[p] \in {"brelse", "unref"}
               IN buf[n].refcnt = Cardinality(Users(n))
                                  + (IF pinned /\ ~unpinned THEN 1 ELSE 0)
    BY DEF RefcntExact, AllInv, CleanInv
  <2>1. PICK n \in Range(list) : n = list[i] BY DEF Range
  <2>2. buf[n].refcnt = Cardinality(Users(n)) + Pins(n) BY DEF Clean, PinInv
  <2> DEFINE unpinned == \E p \in Proc : mode[p] = "install" /\
                 \/ \E k \in 1..(tail[p] - 1) : k <= Len(lh) /\ lh[k] = buf[n].block
                 \/ cur[p] = n /\ pc[p] \in {"brelse", "unref"}
  <2>3. Pin(buf[n].block) <=> buf[n].block \in Range(lh) /\ ~unpinned
    <3>1. CASE buf[n].block \notin Range(lh) BY <3>1 DEF Pin
    <3>2. CASE buf[n].block \in Range(lh)
      <4>1. buf[n].block \in Block BY <3>2 DEF Clean, CleanTypes, Range
      <4>2. buf[n].block # NoBlock BY <4>1, BcacheAssumption
      <4>3. \A q \in Proc : pc[q] \in {"brelse", "unref"} =>
               (want[q] = buf[n].block <=> cur[q] = n)
        <5>1. SUFFICES ASSUME NEW q \in Proc, pc[q] \in {"brelse", "unref"}
                       PROVE want[q] = buf[n].block <=> cur[q] = n
          OBVIOUS
        <5>2. cur[q] \in Range(list) /\ buf[cur[q]].block = want[q]
          BY <5>1, CleanFacts DEF InSection, Locked, B
        <5>3. QED BY <5>2, <4>2, BlockNode
      <4>4. QED BY <3>2, <4>3 DEF Pin, Passed
    <3>3. QED BY <3>1, <3>2
  <2> HIDE DEF unpinned
  <2>4. buf[n].refcnt = Cardinality(Users(n))
                        + (IF buf[n].block \in Range(lh) /\ ~unpinned THEN 1 ELSE 0)
    BY ONLY <2>2, <2>3 DEF Pins
  <2>5. QED BY <2>1, <2>4 DEF unpinned
<1>2. QED BY <1>1, AllCorrect, PTL

\* bread before the first error: who has a buffer sees the last change of its
\* block, be it in the log, installed, or evicted and read again; and log_write
\* pins every buffer whose change the log has to take.
THEOREM ReadsLastChange == Spec => [](faults = 0 => CoherentRead /\ astray = {})
<1>1. AllInv => (faults = 0 => CoherentRead /\ astray = {})
  <2>0. CleanInv => (faults = 0 => astray = {}) BY DEF CleanInv, Clean, CleanTypes
  <2> SUFFICES ASSUME Inv, Clean, NEW p \in Proc, Using(p), pc[p] \in {"hold", "written"}
               PROVE  B(p).data = truth[want[p]]
    BY <2>0 DEF AllInv, CleanInv, CoherentRead
  <2>1. pc[p] \in InSection BY DEF InSection, Locked
  <2>2. cur[p] \in Range(list) /\ B(p).block = want[p] BY <2>1, CleanFacts
  <2>3. B(p).valid BY DEF Clean, DataInv, Read
  <2>4. QED BY <2>2, <2>3 DEF Clean, DataInv, B
<1>2. QED BY <1>1, AllCorrect, PTL

\* The types of the cache, the driver and the log header: the list never has a
\* node twice nor more nodes than bcache.buf[], the rings of the device hold
\* every request, and the handler's evictions leave a log header.
LEMMA TypesCorrect == Spec => []TypeOK
<1>1. AllInv => TypeOK
  <2> SUFFICES ASSUME Inv, Rest PROVE TypeOK BY DEF AllInv
  <2>1. Len(avail) + Len(used) < NUM BY RingsHavePlace
  <2>2. Len(list) <= NBUF BY BcacheAssumption DEF Inv, ListInv
  <2>3. QED BY <2>1, <2>2 DEF TypeOK, Inv, Types, Rest, RestTypes, Modes, Buf
<1>2. QED BY <1>1, AllCorrect, PTL

\* What bio.c counts and virtio_disk.c hands out is exact in every reachable
\* state: types, descriptors and reference counts.
THEOREM CacheExact == Spec => []CacheInv
<1>1. TypeOK /\ DescriptorsOwned /\ RefcntExact => CacheInv BY DEF CacheInv
<1>2. QED BY <1>1, TypesCorrect, NoDescriptorLost, ReferencesCounted, PTL
=============================================================================
