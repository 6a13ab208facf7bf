------------------------------ MODULE KmemProofs ------------------------------
(* The page allocator gives every page one use, and the M-List of the free    *)
(* pages is exact, up to and after the first repair of struct kmem, when the  *)
(* first error in struct kmem or in a free page is one that the holder of     *)
(* kmem->lock meets (~HitWaiters), and the rebuilt lists are not hit again    *)
(* (~HitAgain).  How many pages and processes there are, and how many errors  *)
(* hit, in which order they are served, does not matter.                      *)
EXTENDS Kmem, TLAPS, WellFoundedInduction, FiniteSetTheorems

-----------------------------------------------------------------------------
(* Sequences: the two lists of the free pages. *)

\* x is before y in t.
Before(t, x, y) == \E a, b \in DOMAIN t : t[a] = x /\ t[b] = y /\ a < b

\* The elements of a sequence by their places.
LEMMA SeqFacts ==
    ASSUME NEW S, NEW s \in Seq(S)
    PROVE  /\ DOMAIN s = 1..Len(s) /\ Len(s) \in Nat
           /\ ToSet(s) \subseteq S
           /\ \A x : x \in ToSet(s) <=> \E i \in 1..Len(s) : s[i] = x
           /\ s = <<>> <=> Len(s) = 0
           /\ s # <<>> => s[1] \in ToSet(s) /\ 1 \in 1..Len(s) /\ Head(s) = s[1]
           /\ IsInjective(s) <=> \A a, b \in 1..Len(s) : s[a] = s[b] => a = b
BY DEF ToSet, IsInjective

\* What is left behind the head.
LEMMA TailFacts ==
    ASSUME NEW S, NEW s \in Seq(S), s # <<>>
    PROVE  /\ Tail(s) \in Seq(S) /\ Len(Tail(s)) = Len(s) - 1
           /\ \A i \in 1..(Len(s) - 1) : Tail(s)[i] = s[i + 1]
           /\ ToSet(s) = {s[1]} \cup ToSet(Tail(s))
           /\ IsInjective(s) => IsInjective(Tail(s)) /\ ToSet(Tail(s)) = ToSet(s) \ {s[1]}
<1>1. /\ Tail(s) \in Seq(S) /\ Len(Tail(s)) = Len(s) - 1 /\ Len(s) \in Nat
      /\ \A i \in 1..(Len(s) - 1) : Tail(s)[i] = s[i + 1]
  OBVIOUS
<1> DEFINE t == Tail(s)
<1>2. /\ t \in Seq(S) /\ Len(t) = Len(s) - 1 /\ Len(s) \in Nat \ {0}
      /\ \A i \in 1..(Len(s) - 1) : t[i] = s[i + 1]
  BY <1>1
<1> HIDE DEF t
<1>3. \A x : x \in ToSet(s) <=> x = s[1] \/ x \in ToSet(t)
  <2> TAKE x
  <2>1. ASSUME x \in ToSet(s) PROVE x = s[1] \/ x \in ToSet(t)
    <3>1. PICK i \in 1..Len(s) : s[i] = x BY <2>1, SeqFacts
    <3>2. CASE i = 1 BY <3>1, <3>2
    <3>3. CASE i # 1
      <4>1. i - 1 \in 1..Len(t) /\ t[i - 1] = s[i] BY <1>2, <3>3
      <4>2. QED BY <3>1, <4>1, <1>2, SeqFacts
    <3>4. QED BY <3>2, <3>3
  <2>2. ASSUME x \in ToSet(t) PROVE x \in ToSet(s)
    <3>1. PICK i \in 1..Len(t) : t[i] = x BY <2>2, <1>2, SeqFacts
    <3>2. i + 1 \in 1..Len(s) /\ s[i + 1] = x BY <3>1, <1>2
    <3>3. QED BY <3>2, SeqFacts
  <2>3. s[1] \in ToSet(s) BY SeqFacts
  <2>4. QED BY <2>1, <2>2, <2>3
<1>4. ASSUME IsInjective(s) PROVE IsInjective(t) /\ s[1] \notin ToSet(t)
  <2>1. \A a, b \in 1..Len(s) : s[a] = s[b] => a = b BY <1>4, SeqFacts
  <2>2. \A a, b \in 1..Len(t) : t[a] = t[b] => a = b
    <3> TAKE a, b \in 1..Len(t)
    <3>1. a + 1 \in 1..Len(s) /\ b + 1 \in 1..Len(s) /\ t[a] = s[a + 1] /\ t[b] = s[b + 1]
      BY <1>2
    <3>2. s[a + 1] = s[b + 1] => a + 1 = b + 1 BY <2>1, <3>1
    <3>3. QED BY <3>1, <3>2
  <2>3. \A a \in 1..Len(t) : t[a] # s[1]
    <3> TAKE a \in 1..Len(t)
    <3>1. a + 1 \in 1..Len(s) /\ 1 \in 1..Len(s) /\ t[a] = s[a + 1] BY <1>2
    <3>2. s[a + 1] = s[1] => a + 1 = 1 BY <2>1, <3>1
    <3>3. QED BY <3>1, <3>2
  <2>4. QED BY SMTT(60), <2>2, <2>3, <1>2, SeqFacts
<1>5. QED BY <1>1, <1>3, <1>4 DEF t

\* A page put in front.
LEMMA ConsFacts ==
    ASSUME NEW S, NEW s \in Seq(S), NEW x \in S
    PROVE  /\ <<x>> \o s \in Seq(S) /\ Len(<<x>> \o s) = Len(s) + 1
           /\ (<<x>> \o s)[1] = x
           /\ \A i \in 1..Len(s) : (<<x>> \o s)[i + 1] = s[i]
           /\ ToSet(<<x>> \o s) = {x} \cup ToSet(s)
           /\ IsInjective(s) /\ x \notin ToSet(s) => IsInjective(<<x>> \o s)
           /\ Tail(<<x>> \o s) = s /\ <<x>> \o s # <<>>
<1> DEFINE t == <<x>> \o s
<1>1. /\ t \in Seq(S) /\ Len(t) = Len(s) + 1 /\ Len(s) \in Nat
      /\ t[1] = x
      /\ \A i \in 1..Len(s) : t[i + 1] = s[i]
  OBVIOUS
<1> HIDE DEF t
<1>2. t # <<>> BY <1>1
<1>3. Tail(t) = s
  <2> DEFINE u == Tail(t)
  <2>1. /\ u \in Seq(S) /\ Len(u) = Len(s)
        /\ \A i \in 1..Len(s) : u[i] = t[i + 1]
    <3>1. /\ Tail(t) \in Seq(S) /\ Len(Tail(t)) = Len(t) - 1
          /\ \A i \in 1..(Len(t) - 1) : Tail(t)[i] = t[i + 1]
      BY <1>1, <1>2, TailFacts
    <3>2. Len(t) - 1 = Len(s) BY <1>1
    <3>3. QED BY <3>1, <3>2
  <2> HIDE DEF u
  <2>2. \A i \in 1..Len(s) : u[i] = s[i] BY <1>1, <2>1
  <2>3. u = s BY <2>1, <2>2
  <2>4. QED BY <2>3 DEF u
<1>4. ToSet(t) = {x} \cup ToSet(s) BY <1>1, <1>2, <1>3, TailFacts
<1>5. ASSUME IsInjective(s), x \notin ToSet(s) PROVE IsInjective(t)
  <2>1. \A a, b \in 1..Len(s) : s[a] = s[b] => a = b BY <1>5, SeqFacts
  <2>2. \A a \in 1..Len(t) : a = 1 \/ (a - 1 \in 1..Len(s) /\ t[a] = s[a - 1])
    <3> TAKE a \in 1..Len(t)
    <3>1. CASE a # 1
      <4>1. a - 1 \in 1..Len(s) /\ (a - 1) + 1 = a BY <1>1, <3>1
      <4>2. QED BY <1>1, <4>1
    <3>2. QED BY <3>1
  <2>3. \A a \in 1..Len(s) : s[a] # x BY <1>5, SeqFacts
  <2>4. \A a, b \in 1..Len(t) : t[a] = t[b] => a = b
    <3> TAKE a, b \in 1..Len(t)
    <3>1. CASE a = 1 /\ b = 1 BY <3>1
    <3>2. CASE a = 1 /\ b # 1 BY <3>2, <2>2, <2>3, <1>1
    <3>3. CASE a # 1 /\ b = 1 BY <3>3, <2>2, <2>3, <1>1
    <3>4. CASE a # 1 /\ b # 1
      <4>1. /\ a - 1 \in 1..Len(s) /\ t[a] = s[a - 1]
            /\ b - 1 \in 1..Len(s) /\ t[b] = s[b - 1]
        BY <3>4, <2>2
      <4>2. s[a - 1] = s[b - 1] => a - 1 = b - 1 BY <2>1, <4>1
      <4>3. QED BY <4>1, <4>2
    <3>5. QED BY <3>1, <3>2, <3>3, <3>4
  <2>5. QED BY <2>4, <1>1, SeqFacts
<1>6. QED BY <1>1, <1>2, <1>3, <1>4, <1>5 DEF t

\* A victim put behind the others.
LEMMA AppendFacts ==
    ASSUME NEW S, NEW s \in Seq(S), NEW x \in S
    PROVE  /\ Append(s, x) \in Seq(S) /\ Len(Append(s, x)) = Len(s) + 1
           /\ \A i \in 1..Len(s) : Append(s, x)[i] = s[i]
           /\ Append(s, x)[Len(s) + 1] = x
           /\ Append(s, x) # <<>>
           /\ Head(Append(s, x)) = IF s = <<>> THEN x ELSE Head(s)
OBVIOUS

\* A node taken out of the M-List.
LEMMA RemoveAtIndex ==
    ASSUME NEW S, NEW s \in Seq(S), NEW i \in 1..Len(s)
    PROVE  /\ RemoveAt(s, i) \in Seq(S)
           /\ Len(RemoveAt(s, i)) = Len(s) - 1
           /\ \A j \in 1..(Len(s) - 1) :
                 RemoveAt(s, i)[j] = IF j < i THEN s[j] ELSE s[j + 1]
<1>1. /\ SubSeq(s, 1, i-1) \in Seq(S) /\ Len(SubSeq(s, 1, i-1)) = i - 1
      /\ \A j \in 1..(i - 1) : SubSeq(s, 1, i-1)[j] = s[j]
  OBVIOUS
<1>2. /\ SubSeq(s, i+1, Len(s)) \in Seq(S) /\ Len(SubSeq(s, i+1, Len(s))) = Len(s) - i
      /\ \A j \in 1..(Len(s) - i) : SubSeq(s, i+1, Len(s))[j] = s[i + j]
  OBVIOUS
<1> DEFINE a == SubSeq(s, 1, i-1)
           b == SubSeq(s, i+1, Len(s))
<1> HIDE DEF a, b
<1>3. a \in Seq(S) /\ b \in Seq(S) /\ Len(a) = i - 1 /\ Len(b) = Len(s) - i
  BY <1>1, <1>2 DEF a, b
<1>4. a \o b \in Seq(S) /\ Len(a \o b) = Len(s) - 1
  BY <1>3
<1>5. \A j \in 1..(Len(s) - 1) : j < i => (a \o b)[j] = a[j]
  BY <1>3
<1>6. \A j \in 1..(Len(s) - 1) : ~(j < i) => (a \o b)[j] = b[j - (i - 1)] /\ j - (i - 1) \in 1..(Len(s) - i)
                                              /\ i + (j - (i - 1)) = j + 1
  BY <1>3
<1>7. /\ \A j \in 1..(i - 1) : a[j] = s[j]
      /\ \A j \in 1..(Len(s) - i) : b[j] = s[i + j]
  BY <1>1, <1>2 DEF a, b
<1>8. \A j \in 1..(Len(s) - 1) : (a \o b)[j] = IF j < i THEN s[j] ELSE s[j + 1]
  <2> TAKE j \in 1..(Len(s) - 1)
  <2>1. CASE j < i
    <3>1. j \in 1..(i - 1) BY <2>1
    <3>2. QED BY <1>5, <1>7, <2>1, <3>1
  <2>2. CASE ~(j < i)
    <3> DEFINE k == j - (i - 1)
    <3>1. (a \o b)[j] = b[k] /\ k \in 1..(Len(s) - i) /\ i + k = j + 1 BY <1>6, <2>2
    <3> HIDE DEF k
    <3>2. b[k] = s[i + k] BY <1>7, <3>1
    <3>3. QED BY <2>2, <3>1, <3>2
  <2>3. QED BY <2>1, <2>2
<1>9. QED BY <1>4, <1>8 DEF RemoveAt, a, b

\* A node leaves the M-List, the others stay in their order.
LEMMA DeletedFacts ==
    ASSUME NEW S, NEW s \in Seq(S), IsInjective(s), NEW x
    PROVE  /\ Deleted(s, x) \in Seq(S) /\ IsInjective(Deleted(s, x))
           /\ ToSet(Deleted(s, x)) = ToSet(s) \ {x}
           /\ \A y, z : Before(s, y, z) /\ y # x /\ z # x => Before(Deleted(s, x), y, z)
           /\ s # <<>> /\ s[1] = x => Deleted(s, x) = Tail(s)
           /\ s # <<>> /\ s[1] # x => Deleted(s, x) # <<>> /\ Deleted(s, x)[1] = s[1]
<1>1. CASE x \notin ToSet(s)
  <2>1. Deleted(s, x) = s BY <1>1 DEF Deleted
  <2>2. s # <<>> => s[1] # x BY <1>1, SeqFacts
  <2>3. QED BY <1>1, <2>1, <2>2
<1>2. CASE x \in ToSet(s)
  <2> DEFINE i == CHOOSE j \in DOMAIN s : s[j] = x
             t == RemoveAt(s, i)
  <2>1. i \in 1..Len(s) /\ s[i] = x /\ Len(s) \in Nat BY <1>2, SeqFacts
  <2>2. Deleted(s, x) = t BY <1>2 DEF Deleted
  <2> HIDE DEF i
  <2>3. /\ t \in Seq(S) /\ Len(t) = Len(s) - 1
        /\ \A j \in 1..(Len(s) - 1) : t[j] = IF j < i THEN s[j] ELSE s[j + 1]
    BY <2>1, RemoveAtIndex
  <2> HIDE DEF t
  <2>4. \A a, b \in 1..Len(s) : s[a] = s[b] => a = b BY SeqFacts
  \* the place of an element in t
  <2> DEFINE to(a) == IF a < i THEN a ELSE a - 1
             from(a) == IF a < i THEN a ELSE a + 1
  <2>5. \A a \in 1..Len(s) : a # i => to(a) \in 1..Len(t) /\ t[to(a)] = s[a]
    <3> TAKE a \in 1..Len(s)
    <3>1. CASE a < i BY <3>1, <2>1, <2>3
    <3>2. CASE a > i
      <4>1. a - 1 \in 1..(Len(s) - 1) /\ ~ (a - 1 < i) /\ (a - 1) + 1 = a BY <3>2, <2>1
      <4>2. QED BY <3>2, <4>1, <2>1, <2>3
    <3>3. QED BY <3>1, <3>2, <2>1
  <2>6. \A a \in 1..Len(t) : from(a) \in 1..Len(s) /\ from(a) # i /\ t[a] = s[from(a)]
    BY <2>1, <2>3
  <2>7. \A a, b \in 1..Len(s) : a # i /\ b # i /\ a < b => to(a) < to(b) BY <2>1
  <2>8. \A a, b \in 1..Len(t) : from(a) = from(b) => a = b BY <2>1, <2>3
  <2>9. \A a, b \in 1..Len(t) : t[a] = t[b] => a = b BY <2>4, <2>6, <2>8
  <2> HIDE DEF to, from
  <2>10. IsInjective(t) BY <2>9, <2>3, SeqFacts
  <2>11. \A y : y \in ToSet(t) <=> y \in ToSet(s) /\ y # x
    <3> TAKE y
    <3>1. ASSUME y \in ToSet(t) PROVE y \in ToSet(s) /\ y # x
      <4>1. PICK a \in 1..Len(t) : t[a] = y BY <3>1, <2>3, SeqFacts
      <4>2. QED BY <4>1, <2>6, <2>1, <2>4, SeqFacts
    <3>2. ASSUME y \in ToSet(s), y # x PROVE y \in ToSet(t)
      <4>1. PICK a \in 1..Len(s) : s[a] = y BY <3>2, SeqFacts
      <4>2. a # i BY <4>1, <3>2, <2>1
      <4>3. QED BY <4>1, <4>2, <2>5, <2>3, SeqFacts
    <3>3. QED BY <3>1, <3>2
  <2>12. ASSUME NEW y, NEW z, Before(s, y, z), y # x, z # x PROVE Before(t, y, z)
    <3>1. PICK a \in 1..Len(s), b \in 1..Len(s) : s[a] = y /\ s[b] = z /\ a < b
      BY <2>12, SeqFacts DEF Before
    <3>2. a # i /\ b # i BY <3>1, <2>12, <2>1
    <3>3. /\ to(a) \in 1..Len(t) /\ t[to(a)] = y
          /\ to(b) \in 1..Len(t) /\ t[to(b)] = z /\ to(a) < to(b)
      BY <3>1, <3>2, <2>5, <2>7
    <3>4. DOMAIN t = 1..Len(t) BY <2>3, SeqFacts
    <3>5. QED BY <3>3, <3>4 DEF Before
  <2>13. ASSUME s # <<>>, s[1] = x PROVE t = Tail(s)
    <3>1. i = 1 BY <2>13, <2>1, <2>4, SeqFacts
    <3>2. /\ Tail(s) \in Seq(S) /\ Len(Tail(s)) = Len(s) - 1
          /\ \A j \in 1..(Len(s) - 1) : Tail(s)[j] = s[j + 1]
      BY <2>13, TailFacts
    <3>3. \A j \in 1..(Len(s) - 1) : t[j] = s[j + 1] BY <2>3, <3>1
    <3> DEFINE u == Tail(s)
    <3>4. u \in Seq(S) /\ Len(u) = Len(t) /\ \A j \in 1..Len(t) : u[j] = t[j]
      BY <2>3, <3>2, <3>3
    <3> HIDE DEF u
    <3>5. u = t BY <2>3, <3>4
    <3>6. QED BY <3>5 DEF u
  <2>14. ASSUME s # <<>>, s[1] # x PROVE t # <<>> /\ t[1] = s[1]
    <3>1. i > 1 BY <2>14, <2>1
    <3>2. 1 \in 1..(Len(s) - 1) BY <3>1, <2>1
    <3>3. QED BY <3>1, <3>2, <2>3
  <2>15. QED BY <2>2, <2>3, <2>10, <2>11, <2>12, <2>13, <2>14
<1>3. QED BY <1>1, <1>2

\* Order and membership.
LEMMA BeforeIn ==
    ASSUME NEW S, NEW s \in Seq(S), NEW x, NEW y, Before(s, x, y)
    PROVE  x \in ToSet(s) /\ y \in ToSet(s)
BY SeqFacts DEF Before

\* The order is strict.
LEMMA BeforeStrict ==
    ASSUME NEW S, NEW s \in Seq(S), IsInjective(s), NEW x, NEW y, Before(s, x, y)
    PROVE  x # y /\ ~Before(s, y, x) /\ y # s[1]
<1>1. \A a, b \in 1..Len(s) : s[a] = s[b] => a = b BY SeqFacts
<1>2. PICK a \in 1..Len(s), b \in 1..Len(s) : s[a] = x /\ s[b] = y /\ a < b
  BY SeqFacts DEF Before
<1>3. 1 \in 1..Len(s) BY <1>2, SeqFacts
<1>4. x # y /\ y # s[1] BY <1>1, <1>2, <1>3, SeqFacts
<1>5. ASSUME Before(s, y, x) PROVE FALSE
  <2>1. PICK c \in 1..Len(s), d \in 1..Len(s) : s[c] = y /\ s[d] = x /\ c < d
    BY <1>5, SeqFacts DEF Before
  <2>2. c = b /\ d = a BY <1>1, <1>2, <2>1
  <2>3. QED BY <1>2, <2>1, <2>2, SeqFacts
<1>6. QED BY <1>4, <1>5

\* The first one is before the others, whose order is that of the tail.
LEMMA BeforeTail ==
    ASSUME NEW S, NEW s \in Seq(S), s # <<>>
    PROVE  /\ \A y \in ToSet(Tail(s)) : Before(s, s[1], y)
           /\ \A x, y : Before(Tail(s), x, y) => Before(s, x, y)
           /\ \A x, y : Before(s, x, y) /\ x # s[1] => y \in ToSet(Tail(s)) /\ Before(Tail(s), x, y)
<1> DEFINE t == Tail(s)
<1>1. /\ t \in Seq(S) /\ Len(t) = Len(s) - 1 /\ Len(s) \in Nat \ {0}
      /\ \A i \in 1..Len(t) : t[i] = s[i + 1]
      /\ DOMAIN t = 1..Len(t) /\ DOMAIN s = 1..Len(s)
  BY TailFacts, SeqFacts
<1> HIDE DEF t
<1>2. ASSUME NEW y \in ToSet(t) PROVE Before(s, s[1], y)
  <2>1. PICK i \in 1..Len(t) : t[i] = y BY <1>2, <1>1, SeqFacts
  <2>2. i + 1 \in 1..Len(s) /\ 1 \in 1..Len(s) /\ 1 < i + 1 /\ s[i + 1] = y BY <1>1, <2>1
  <2>3. QED BY <2>2, <1>1 DEF Before
<1>3. ASSUME NEW x, NEW y, Before(t, x, y) PROVE Before(s, x, y)
  <2>1. PICK a \in 1..Len(t), b \in 1..Len(t) : t[a] = x /\ t[b] = y /\ a < b
    BY <1>3, <1>1 DEF Before
  <2>2. /\ a + 1 \in 1..Len(s) /\ b + 1 \in 1..Len(s) /\ a + 1 < b + 1
        /\ s[a + 1] = x /\ s[b + 1] = y
    BY <1>1, <2>1
  <2>3. QED BY <2>2, <1>1 DEF Before
<1>4. ASSUME NEW x, NEW y, Before(s, x, y), x # s[1] PROVE y \in ToSet(t) /\ Before(t, x, y)
  <2>1. PICK a \in 1..Len(s), b \in 1..Len(s) : s[a] = x /\ s[b] = y /\ a < b
    BY <1>4, <1>1 DEF Before
  <2>2. /\ a - 1 \in 1..Len(t) /\ b - 1 \in 1..Len(t) /\ a - 1 < b - 1
        /\ (a - 1) + 1 = a /\ (b - 1) + 1 = b
    BY <1>1, <1>4, <2>1
  <2>3. t[a - 1] = x /\ t[b - 1] = y BY <1>1, <2>1, <2>2
  <2>4. Before(t, x, y) BY <2>2, <2>3, <1>1 DEF Before
  <2>5. QED BY <2>4, <1>1, BeforeIn
<1>5. QED BY <1>2, <1>3, <1>4 DEF t

\* Any two elements are in an order.
LEMMA BeforeTotal ==
    ASSUME NEW S, NEW s \in Seq(S), NEW x \in ToSet(s), NEW y \in ToSet(s), x # y
    PROVE  Before(s, x, y) \/ Before(s, y, x)
<1>1. PICK a \in 1..Len(s) : s[a] = x BY SeqFacts
<1>2. PICK b \in 1..Len(s) : s[b] = y BY SeqFacts
<1>3. a < b \/ b < a BY <1>1, <1>2, SeqFacts
<1>4. QED BY <1>1, <1>2, <1>3, SeqFacts DEF Before

-----------------------------------------------------------------------------
(* The free list as a sequence, and the M-List beside it. *)

Nowhere == {Null, Junk}

\* From f on, each page of s leads to the next one, the last one nowhere.
IsChain(f, nx, s) ==
    /\ s \in Seq(Page) /\ IsInjective(s)
    /\ s = <<>> => f \in Nowhere
    /\ s # <<>> => f = s[1]
    /\ \A i \in 1..Len(s) : IF i = Len(s) THEN nx[s[i]] \in Nowhere ELSE nx[s[i]] = s[i + 1]

\* The pages of s are in r in the order of s, but for one that no other follows.
Sorted(r, s) ==
    /\ \A x \in ToSet(s) \ ToSet(r) : \A y \in ToSet(s) : ~Before(s, x, y)
    /\ \A x, y \in ToSet(r) : Before(s, x, y) => Before(r, x, y)

\* r is s, or s without its last page.
Follows(r, s) == ToSet(r) \subseteq ToSet(s) /\ Sorted(r, s)

\* The head leads to the rest of the list.
LEMMA ChainTail ==
    ASSUME NEW f, NEW nx, NEW s, IsChain(f, nx, s), s # <<>>
    PROVE  IsChain(nx[f], nx, Tail(s))
<1>1. s \in Seq(Page) /\ IsInjective(s) /\ f = s[1] BY DEF IsChain
<1> DEFINE t == Tail(s)
<1>2. /\ t \in Seq(Page) /\ Len(t) = Len(s) - 1 /\ IsInjective(t)
      /\ \A i \in 1..(Len(s) - 1) : t[i] = s[i + 1]
      /\ Len(s) \in Nat \ {0}
  BY <1>1, TailFacts, SeqFacts
<1> HIDE DEF t
<1>3. IF 1 = Len(s) THEN nx[s[1]] \in Nowhere ELSE nx[s[1]] = s[2] BY <1>2 DEF IsChain
<1>4. t = <<>> => nx[f] \in Nowhere BY <1>1, <1>2, <1>3
<1>5. t # <<>> => nx[f] = t[1] BY <1>1, <1>2, <1>3
<1>6. \A i \in 1..Len(t) : IF i = Len(t) THEN nx[t[i]] \in Nowhere ELSE nx[t[i]] = t[i + 1]
  <2> TAKE i \in 1..Len(t)
  <2>1. i + 1 \in 1..Len(s) /\ t[i] = s[i + 1] /\ (i + 1 = Len(s) <=> i = Len(t)) BY <1>2
  <2>2. IF i + 1 = Len(s) THEN nx[s[i + 1]] \in Nowhere ELSE nx[s[i + 1]] = s[(i + 1) + 1]
    BY <2>1 DEF IsChain
  <2>3. i # Len(t) => t[i + 1] = s[(i + 1) + 1] BY <1>2
  <2>4. QED BY <2>1, <2>2, <2>3
<1>7. QED BY <1>2, <1>4, <1>5, <1>6 DEF IsChain, t

\* A page that is not in the list may be written.
LEMMA ChainOff ==
    ASSUME NEW f, NEW nx \in [Page -> Pointer], NEW s, IsChain(f, nx, s),
           NEW x, x \notin ToSet(s), NEW v
    PROVE  IsChain(f, [nx EXCEPT ![x] = v], s)
<1>1. s \in Seq(Page) BY DEF IsChain
<1>2. \A i \in 1..Len(s) : s[i] \in Page /\ s[i] # x BY <1>1, SeqFacts
<1>3. \A i \in 1..Len(s) : [nx EXCEPT ![x] = v][s[i]] = nx[s[i]] BY <1>2
<1>4. QED BY <1>3 DEF IsChain

\* A page is linked in at the head.
LEMMA ChainCons ==
    ASSUME NEW f, NEW nx \in [Page -> Pointer], NEW s, IsChain(f, nx, s),
           NEW x \in Page, x \notin ToSet(s)
    PROVE  IsChain(x, [nx EXCEPT ![x] = f], <<x>> \o s)
<1> DEFINE ny == [nx EXCEPT ![x] = f]
           t == <<x>> \o s
<1>1. s \in Seq(Page) /\ IsInjective(s) BY DEF IsChain
<1>2. /\ t \in Seq(Page) /\ Len(t) = Len(s) + 1 /\ t[1] = x /\ IsInjective(t) /\ t # <<>>
      /\ \A i \in 1..Len(s) : t[i + 1] = s[i]
  BY <1>1, ConsFacts
<1>3. IsChain(f, ny, s) BY ChainOff
<1>4. ny[x] = f BY DEF Pointer
<1> HIDE DEF ny, t
<1>5. \A i \in 1..Len(t) : IF i = Len(t) THEN ny[t[i]] \in Nowhere ELSE ny[t[i]] = t[i + 1]
  <2> TAKE i \in 1..Len(t)
  <2>1. CASE i = 1
    <3>1. CASE s = <<>> BY <2>1, <3>1, <1>2, <1>3, <1>4 DEF IsChain
    <3>2. CASE s # <<>>
      <4>1. 1 \in 1..Len(s) /\ 1 # Len(t) /\ t[1 + 1] = s[1] BY <3>2, <1>1, <1>2, SeqFacts
      <4>2. f = s[1] BY <3>2 DEF IsChain
      <4>3. QED BY <2>1, <4>1, <4>2, <1>2, <1>4
    <3>3. QED BY <3>1, <3>2
  <2>2. CASE i # 1
    <3>1. PICK j \in 1..Len(s) : j + 1 = i
      <4>1. i - 1 \in 1..Len(s) BY <2>2, <1>1, <1>2
      <4>2. (i - 1) + 1 = i OBVIOUS
      <4>3. QED BY <4>1, <4>2
    <3>2. t[i] = s[j] /\ (j = Len(s) <=> i = Len(t)) BY <3>1, <1>1, <1>2
    <3>3. j # Len(s) => j + 1 \in 1..Len(s) /\ t[i + 1] = s[j + 1] BY <3>1, <1>1, <1>2
    <3>4. IF j = Len(s) THEN ny[s[j]] \in Nowhere ELSE ny[s[j]] = s[j + 1]
      BY <1>3 DEF IsChain
    <3>5. QED BY <3>2, <3>3, <3>4
  <2>3. QED BY <2>1, <2>2
<1>6. QED BY <1>2, <1>5 DEF IsChain, ny, t

\* The order without the first free page.
LEMMA SortedTail ==
    ASSUME NEW r \in Seq(Page), NEW s \in Seq(Page), s # <<>>, Sorted(r, s)
    PROVE  Sorted(r, Tail(s))
<1>1. /\ ToSet(Tail(s)) \subseteq ToSet(s)
      /\ \A x, y : Before(Tail(s), x, y) => Before(s, x, y)
  BY TailFacts, BeforeTail
<1>2. QED BY <1>1 DEF Sorted

\* The order when a page that is not free leaves the M-List.
LEMMA SortedDeleted ==
    ASSUME NEW r \in Seq(Page), NEW s \in Seq(Page), IsInjective(r), Sorted(r, s),
           NEW x, x \notin ToSet(s)
    PROVE  Sorted(Deleted(r, x), s)
<1>1. /\ ToSet(Deleted(r, x)) = ToSet(r) \ {x}
      /\ \A y, z : Before(r, y, z) /\ y # x /\ z # x => Before(Deleted(r, x), y, z)
  BY DeletedFacts
<1>2. QED BY <1>1 DEF Sorted

\* The order when a page that is not free is registered ...
LEMMA SortedRegister ==
    ASSUME NEW r \in Seq(Page), NEW s \in Seq(Page), Sorted(r, s),
           NEW x \in Page, x \notin ToSet(s)
    PROVE  Sorted(<<x>> \o r, s)
<1> DEFINE t == <<x>> \o r
<1>1. /\ t \in Seq(Page) /\ t # <<>> /\ Tail(t) = r /\ ToSet(t) = {x} \cup ToSet(r)
  BY ConsFacts
<1>2. \A y, z : Before(r, y, z) => Before(t, y, z) BY <1>1, BeforeTail
<1>3. \A y, z : Before(s, y, z) => y # x /\ z # x BY BeforeIn
<1>4. QED BY <1>1, <1>2, <1>3 DEF Sorted

\* ... and when it is linked in.
LEMMA SortedLink ==
    ASSUME NEW r \in Seq(Page), NEW s \in Seq(Page), IsInjective(r), Sorted(r, s),
           NEW x \in Page, x \notin ToSet(s), r # <<>>, r[1] = x, IsInjective(s)
    PROVE  Sorted(r, <<x>> \o s)
<1> DEFINE t == <<x>> \o s
<1>1. /\ t \in Seq(Page) /\ t # <<>> /\ Tail(t) = s /\ ToSet(t) = {x} \cup ToSet(s) /\ t[1] = x
      /\ IsInjective(t)
  BY ConsFacts
<1> HIDE DEF t
<1>2. x \in ToSet(r) BY SeqFacts
<1>3. \A y, z : Before(t, y, z) /\ y # x => Before(s, y, z) /\ z \in ToSet(s)
  BY <1>1, BeforeTail
<1>4. \A y, z : Before(t, y, z) => z # x BY <1>1, BeforeStrict
<1>5. \A z \in ToSet(r) \ {x} : Before(r, x, z)
  BY BeforeTail, TailFacts
<1>6. ASSUME NEW y \in ToSet(t) \ ToSet(r), NEW z \in ToSet(t), Before(t, y, z) PROVE FALSE
  BY <1>1, <1>2, <1>3, <1>6 DEF Sorted
<1>7. ASSUME NEW y \in ToSet(r), NEW z \in ToSet(r), Before(t, y, z) PROVE Before(r, y, z)
  <2>1. CASE y = x BY <2>1, <1>4, <1>5, <1>7
  <2>2. CASE y # x BY <2>2, <1>3, <1>7 DEF Sorted
  <2>3. QED BY <2>1, <2>2
<1>8. QED BY <1>6, <1>7 DEF Sorted, t

\* The two lists have the same head, and go on alike.
LEMMA FollowsTail ==
    ASSUME NEW r \in Seq(Page), NEW s \in Seq(Page), IsInjective(r), IsInjective(s),
           Follows(r, s), r # <<>>
    PROVE  s # <<>> /\ s[1] = r[1] /\ Follows(Tail(r), Tail(s))
<1>1. r[1] \in ToSet(r) /\ r[1] \in ToSet(s) BY SeqFacts DEF Follows
<1>2. s # <<>> BY <1>1, SeqFacts
<1>3. s[1] \in ToSet(s) BY <1>2, SeqFacts
<1>4. s[1] = r[1]
  <2>1. SUFFICES ASSUME s[1] # r[1] PROVE FALSE OBVIOUS
  <2>2. Before(s, s[1], r[1])
    <3>1. r[1] \in ToSet(Tail(s)) BY <1>1, <1>2, <2>1, TailFacts
    <3>2. QED BY <1>2, <3>1, BeforeTail
  <2>3. s[1] \in ToSet(r) BY <1>1, <1>3, <2>2 DEF Follows, Sorted
  <2>4. Before(r, s[1], r[1]) BY <1>1, <2>2, <2>3 DEF Follows, Sorted
  <2>5. QED BY <2>4, BeforeStrict
<1>5. /\ ToSet(Tail(r)) = ToSet(r) \ {r[1]} /\ ToSet(Tail(s)) = ToSet(s) \ {s[1]}
  BY <1>2, TailFacts
<1>6. \A x, y : Before(Tail(s), x, y) => Before(s, x, y) BY <1>2, BeforeTail
<1>7. \A x, y : Before(r, x, y) /\ x # r[1] => Before(Tail(r), x, y) BY BeforeTail
<1>8. QED BY <1>2, <1>4, <1>5, <1>6, <1>7 DEF Follows, Sorted

\* NodeAddr by places.
LEMMA NodeFacts ==
    ASSUME NEW r \in Seq(Page), NEW i \in Nat
    PROVE  /\ i <= Len(r) => NodeAddr(r, i) = r[i]
           /\ i > Len(r) => NodeAddr(r, i) = Junk
BY DEF NodeAddr

\* recovery_handler_kmem: what the second of the remaining pages leads to is
\* the free list from there on.
LEMMA SecondOn ==
    ASSUME NEW f, NEW nx, NEW r \in Seq(Page), NEW s,
           IsInjective(r), IsChain(f, nx, s), Follows(r, s)
    PROVE  \E t : /\ IsChain(NodeAddr(r, 2), nx, t) /\ ToSet(t) \subseteq ToSet(s)
                  /\ Sorted(r, t)
<1>1. s \in Seq(Page) /\ IsInjective(s) BY DEF IsChain
<1>2. Len(r) \in Nat BY SeqFacts
<1>3. CASE Len(r) >= 2
  <2>1. r # <<>> BY <1>2, <1>3
  <2>2. s # <<>> /\ s[1] = r[1] /\ Follows(Tail(r), Tail(s)) BY <1>1, <2>1, FollowsTail
  <2> DEFINE r1 == Tail(r)
             s1 == Tail(s)
  <2>3. /\ r1 \in Seq(Page) /\ IsInjective(r1) /\ Len(r1) = Len(r) - 1 /\ r1[1] = r[2]
        /\ s1 \in Seq(Page) /\ IsInjective(s1) /\ ToSet(s1) \subseteq ToSet(s)
    <3>1. 1 \in 1..(Len(r) - 1) BY <1>2, <1>3
    <3>2. QED BY <1>1, <2>1, <2>2, <3>1, TailFacts
  <2>4. Follows(r1, s1) BY <2>2
  <2>5. Sorted(r, s1) BY <1>1, <2>2, SortedTail DEF Follows
  <2>6. IsChain(nx[f], nx, s1) BY <2>2, ChainTail
  <2> HIDE DEF r1, s1
  <2>7. r1 # <<>> BY <1>2, <1>3, <2>3
  <2>8. s1 # <<>> /\ s1[1] = r1[1] BY <2>3, <2>4, <2>7, FollowsTail
  <2>9. NodeAddr(r, 2) = r[2] BY <1>3, NodeFacts
  <2>10. nx[f] = NodeAddr(r, 2) BY <2>3, <2>6, <2>8, <2>9 DEF IsChain
  <2>11. QED BY <2>3, <2>5, <2>6, <2>10
<1>4. CASE ~ (Len(r) >= 2)
  <2>1. NodeAddr(r, 2) = Junk BY <1>2, <1>4, NodeFacts
  <2>2. /\ <<>> \in Seq(Page) /\ IsInjective(<<>>) /\ ToSet(<<>>) = {} /\ Len(<<>>) = 0
        /\ \A x, y : ~Before(<<>>, x, y)
    BY DEF IsInjective, ToSet, Before
  <2>3. IsChain(Junk, nx, <<>>) BY <2>2 DEF IsChain, Nowhere
  <2>4. Sorted(r, <<>>) BY <2>2 DEF Sorted
  <2>5. QED BY <2>1, <2>2, <2>3, <2>4
<1>5. QED BY <1>3, <1>4

\* Page x leads to v.
Relinked(nx, x, v) == [nx EXCEPT ![x] = v]

\* The pages of r lead to those of s.
Led(f, nx, r, s) ==
    /\ nx \in [Page -> Pointer] /\ r \in Seq(Page) /\ r # <<>>
    /\ IsInjective(r) /\ IsChain(f, nx, s) /\ Follows(r, s)

\* The first page of r, linked to the second, leads to all of r and to nothing
\* that s did not have.
LedOn(nx, r, s) ==
    \E t : /\ IsChain(r[1], Relinked(nx, r[1], NodeAddr(r, 2)), t)
           /\ ToSet(t) \subseteq ToSet(s) /\ ToSet(r) \subseteq ToSet(t)
           /\ Sorted(r, t)

\* recovery_handler_run: the first remaining page, linked to the second, leads
\* to the rest of the free list.
LEMMA FirstOn == ASSUME NEW f, NEW nx, NEW r, NEW s, Led(f, nx, r, s) PROVE LedOn(nx, r, s)
<1> USE DEF Led
<1>a. SUFFICES \E t : /\ IsChain(r[1], Relinked(nx, r[1], NodeAddr(r, 2)), t)
                       /\ ToSet(t) \subseteq ToSet(s) /\ ToSet(r) \subseteq ToSet(t)
                       /\ Sorted(r, t)
  BY DEF LedOn
<1>0. PICK ny : ny = Relinked(nx, r[1], NodeAddr(r, 2)) OBVIOUS
<1>1. s \in Seq(Page) /\ IsInjective(s) BY DEF IsChain
<1>2. Len(r) \in Nat \ {0} BY SeqFacts
<1>3. s # <<>> /\ s[1] = r[1] /\ Follows(Tail(r), Tail(s)) BY <1>1, FollowsTail
<1>4. f = r[1] BY <1>3 DEF IsChain
<1>5. r[1] \in Page BY <1>2
<1>6. CASE Len(r) >= 2
  <2> DEFINE r1 == Tail(r)
             s1 == Tail(s)
  <2>1. /\ r1 \in Seq(Page) /\ IsInjective(r1) /\ Len(r1) = Len(r) - 1 /\ r1[1] = r[2]
        /\ s1 \in Seq(Page) /\ IsInjective(s1)
    <3>1. 1 \in 1..(Len(r) - 1) BY <1>2, <1>6
    <3>2. QED BY <1>1, <1>3, <3>1, TailFacts
  <2>2. Follows(r1, s1) BY <1>3
  <2>3. IsChain(nx[f], nx, s1) BY <1>3, ChainTail
  <2> HIDE DEF r1, s1
  <2>4. r1 # <<>> BY <1>2, <1>6, <2>1
  <2>5. s1 # <<>> /\ s1[1] = r1[1] BY <2>1, <2>2, <2>4, FollowsTail
  <2>6. NodeAddr(r, 2) = r[2] BY <1>6, NodeFacts
  <2>7. nx[f] = NodeAddr(r, 2) BY <2>1, <2>3, <2>5, <2>6 DEF IsChain
  <2>8. nx = ny BY <1>0, <1>4, <2>7 DEF Relinked
  <2>9. IsChain(r[1], nx, s) BY <1>4
  <2>10. QED BY <1>0, <2>8, <2>9 DEF Follows
<1>7. CASE ~ (Len(r) >= 2)
  <2>1. Len(r) = 1
    <3>1. \A n \in Nat \ {0} : ~ (n >= 2) => n = 1 OBVIOUS
    <3>2. QED BY <1>2, <1>7, <3>1
  <2>2. NodeAddr(r, 2) = Junk BY <2>1, NodeFacts
  <2> DEFINE t == <<r[1]>>
  <2>3. t \in Seq(Page) /\ Len(t) = 1 /\ t[1] = r[1] /\ t # <<>> BY <1>5
  <2>4. ny[r[1]] = Junk BY <1>0, <1>5, <2>2 DEF Relinked
  <2> HIDE DEF t
  <2>5. DOMAIN t = {1} BY <2>3
  <2>6. IsInjective(t) BY <2>5 DEF IsInjective
  <2>7. ToSet(t) = {r[1]} BY <2>3, <2>5 DEF ToSet
  <2>8. \A x, y : ~Before(t, x, y) BY <2>5 DEF Before
  <2>9. ToSet(r) = {r[1]}
    <3>1. 1..Len(r) = {1} BY <2>1
    <3>2. QED BY <3>1, SeqFacts
  <2>10. IsChain(r[1], ny, t) BY <2>3, <2>4, <2>6 DEF IsChain, Nowhere
  <2>11. Sorted(r, t) BY <2>8 DEF Sorted
  <2>12. ToSet(t) \subseteq ToSet(s) BY <1>1, <1>3, <2>7, SeqFacts
  <2>13. QED BY <1>0, <2>7, <2>9, <2>10, <2>11, <2>12
<1>8. QED BY <1>6, <1>7

-----------------------------------------------------------------------------
(* The inductive invariant.  s is the free list as a sequence. *)

LastPage == FreePages[Len(FreePages)]

\* A page is handed out, in the free list, struct kmem, or in the hand of one
\* process; an interrupted kfree may have given struct kmem its own page.
OneUse(s) ==
    /\ ToSet(s) \cap (used \cup {kmem}) = {} /\ kmem \notin used
    /\ IsInjective(runs) /\ ToSet(runs) \cap (used \cup {kmem}) = {}
    /\ \A p \in Proc : hand[p] # Null =>
          /\ hand[p] \notin used \cup ToSet(s)
          /\ hand[p] = kmem => pc[p] = "nmi"
          /\ \A q \in Proc : hand[q] = hand[p] => q = p
Uses(s) == IsChain(freelist, next, s) /\ OneUse(s)

\* The free list is in the M-List, in its order, but for the last page.  While
\* struct kmem is the first one, nothing else is there but a page in a hand.
InOrder(s) ==
    /\ \A x \in ToSet(s) \ ToSet(runs) : x = LastPage
    /\ Sorted(runs, s)
    /\ kmem = Static => \A x \in ToSet(runs) : x \in ToSet(s) \/ \E p \in Proc : hand[p] = x

Critical == {"locked", "popped", "registered", "linked"}
\* Who is inside has the lock of struct kmem; the lock of a struct kmem that
\* was replaced is never released.
LockInv ==
    /\ \A p \in Proc : pc[p] \in Critical => addr[p] = kmem /\ lock[kmem] = p
    /\ \A p \in Proc : lock[kmem] = p =>
          pc[p] \in Critical \/ (pc[p] = "nmi" /\ kmem = Static)
    /\ \A a \in Home \ {kmem, Static} : lock[a] = NoProc
    /\ kmem # Static => lock[Static] # NoProc
    /\ \A p \in Proc : addr[p] \in {kmem, Static}
    /\ queue # <<>> /\ Victim # tracker => lock[kmem] # tracker

\* The page of a kfree that has the lock, registered and not yet linked in.
Pending(p) ==
    /\ hand[p] # Null /\ lock[kmem] = p
    /\ runs # <<>> /\ runs[1] = hand[p]
\* The tracker's page of my_kalloc, out of one list and not yet of the other.
Taken(p) == p = tracker /\ stage = "taken"

\* A page is in a hand from the call of kfree, or from the pop of kalloc; it is
\* in the M-List only when it is registered, or taken by my_kalloc.
HandInv ==
    /\ \A p \in Proc : pc[p] \in {"idle", "linked"} => hand[p] = Null
    /\ \A p \in Proc : pc[p] \in {"inside", "spin", "locked"} =>
          (op[p] = "kalloc" <=> hand[p] = Null)
    /\ \A p \in Proc : pc[p] = "registered" => Pending(p) /\ trans[p] > 0
    /\ \A p \in Proc : hand[p] \in ToSet(runs) =>
          pc[p] \in {"registered", "nmi"} /\ (Taken(p) \/ Pending(p))
    /\ \A p \in Proc : Taken(p) => hand[p] \notin {Null, kmem}
    /\ queue # <<>> /\ Victim # tracker => hand[tracker] = Null \/ stage = "taken"
    /\ queue # <<>> /\ stage # "dispatch" => ~Pending(Victim)

\* A victim waits in the queue, or runs the handlers; it is the first one in
\* the queue unless that was served.
QueueInv ==
    /\ queue = <<>> <=> tracker = NoProc
    /\ queue = <<>> => stage = "dispatch"
    /\ queue # <<>> => pc[tracker] = "nmi"
    /\ \A i \in 1..Len(queue) :
          pc[queue[i].pid] = "nmi" /\ (queue[i].pid = tracker => i = 1)
    /\ \A i, j \in 1..Len(queue) : queue[i].pid = queue[j].pid => i = j

\* A page without use that no handler will look at again.
Lost(s, x) ==
    /\ x \notin used \cup ToSet(s) \cup ToSet(runs) \cup {kmem}
    /\ \A p \in Proc : hand[p] = x => stage = "leave" /\ queue # <<>> /\ p = Victim

\* The entries of the queue that no handler has begun with.
Waiting == {i \in 1..Len(queue) : i > 1 \/ stage = "dispatch"}
\* An error in the first struct kmem was reported by who holds its lock; so is
\* one in a page: the first of the free list or the one of an unfinished kfree.
FirstHit(i) ==
    LET p == queue[i].pid
        a == queue[i].addr
    IN  /\ kmem = Static /\ lock[Static] = p
        /\ a \in Page => \/ a = freelist /\ hand[p] = Null
                         \/ a = hand[p] /\ Pending(p)
HitInv ==
    /\ \A i \in Waiting : queue[i].addr \in Page => FirstHit(i)
    /\ kmem = Static /\ Static \in bad => \E i \in Waiting :
          /\ queue[i].addr = Static /\ FirstHit(i)
          /\ \A j \in 1..(i - 1) : queue[j].addr # Static
    /\ \A i \in 1..Len(queue) : queue[i].addr # Null => queue[i].addr \in bad
    /\ kmem # Static => kmem \notin bad

\* While struct kmem is the first one, a page that was hit waits for its
\* handler or is lost; the handler of struct kmem begins a roll-back only.
ErrorInv(s) ==
    /\ kmem = Static =>
          /\ \A x \in bad \cap Page : (\E i \in Waiting : queue[i].addr = x) \/ Lost(s, x)
          /\ \A x \in recovered \cap Page : Lost(s, x)
          /\ Static \notin recovered
          /\ queue # <<>> /\ stage # "dispatch" /\ Broken \in Page => Lost(s, Broken)
    /\ stage = "rollback" => kmem # Static
\* The page of the transaction that the handler may put back.
TransInv(s) ==
    log_run # Null /\ (kmem = Static \/ stage = "rollback") =>
        Lost(s, log_run) \/ \E p \in Proc : Pending(p) /\ hand[p] = log_run

Live(s) ==
    /\ InOrder(s) /\ LockInv /\ HandInv /\ QueueInv /\ HitInv /\ ErrorInv(s)
    /\ TransInv(s)
Inv == TypeOK /\ \E s \in Seq(Page) : Uses(s) /\ (~halted => Live(s))

\* The types of the pages.
LEMMA PageFacts ==
    /\ Page \subseteq Nat /\ Null \notin Page /\ Static \notin Page /\ Junk \notin Page
    /\ Home = Page \cup {Static} /\ Pointer = Page \cup {Null, Junk}
    /\ NoProc \notin Proc
    /\ Nowhere \cap Page = {}
    /\ Null # Static /\ Null # Junk /\ Static # Junk
BY PageAssumption, ProcAssumption DEF Home, Pointer, Nowhere, Null, Static, Junk, NoProc

\* The head of the queue.
LEMMA QueueFacts ==
    ASSUME TypeOK, QueueInv
    PROVE  /\ Len(queue) \in Nat
           /\ \A i \in 1..Len(queue) : queue[i] \in Entry /\ queue[i].pid \in Proc
                                       /\ queue[i].addr \in Home \cup {Null}
           /\ queue # <<>> => /\ 1 \in 1..Len(queue) /\ Victim = queue[1].pid
                              /\ Broken = queue[1].addr
                              /\ Victim \in Proc /\ pc[Victim] = "nmi"
                              /\ tracker \in Proc /\ pc[tracker] = "nmi"
                              /\ Broken \in Home \cup {Null}
<1>1. queue \in Seq(Entry) BY DEF TypeOK
<1>2. \A e \in Entry : e.pid \in Proc /\ e.addr \in Home \cup {Null} BY DEF Entry
<1>3. Len(queue) \in Nat /\ \A i \in 1..Len(queue) : queue[i] \in Entry BY <1>1
<1>4. queue # <<>> => 1 \in 1..Len(queue) /\ Head(queue) = queue[1] BY <1>1
<1>5. queue # <<>> => tracker \in Proc BY DEF TypeOK, QueueInv
<1>6. QED BY <1>2, <1>3, <1>4, <1>5 DEF Victim, Broken, QueueInv

\* An error met by a holder of the lock is in the queue only while that holder
\* has the lock and waits.
LEMMA Calm ==
    ASSUME TypeOK, LockInv, QueueInv, HitInv, NEW s, ErrorInv(s),
           \/ kmem # Static \/ lock[kmem] = NoProc \/ \E p \in Proc : pc[p] \in Critical
    PROVE  /\ \A i \in Waiting : queue[i].addr \notin Page /\ ~FirstHit(i)
           /\ kmem = Static => /\ Static \notin bad
                               /\ \A x \in bad \cap Page : Lost(s, x)
<1>1. ASSUME NEW i \in Waiting, FirstHit(i) PROVE FALSE
  <2>1. i \in 1..Len(queue) BY DEF Waiting
  <2>2. queue[i].pid \in Proc /\ pc[queue[i].pid] = "nmi" BY <2>1, QueueFacts DEF QueueInv
  <2>3. kmem = Static /\ lock[kmem] = queue[i].pid BY <1>1 DEF FirstHit
  <2>4. lock[kmem] # NoProc BY <2>2, <2>3, PageFacts
  <2>5. PICK p \in Proc : pc[p] \in Critical BY <2>3, <2>4
  <2>6. lock[kmem] = p BY <2>5 DEF LockInv
  <2>7. QED BY <2>2, <2>3, <2>5, <2>6 DEF Critical
<1>2. QED BY <1>1 DEF HitInv, ErrorInv

-----------------------------------------------------------------------------
(* What a step leaves alone. *)

\* A victim goes on waiting.
LEMMA QueueKept ==
    ASSUME TypeOK, QueueInv, UNCHANGED <<queue, tracker>>,
           queue = <<>> => stage' = stage,
           \A q \in Proc : pc[q] = "nmi" => pc'[q] = "nmi"
    PROVE  QueueInv'
<1>1. \A i \in 1..Len(queue) : queue[i].pid \in Proc BY QueueFacts
<1>2. queue # <<>> => tracker \in Proc BY QueueFacts
<1>3. QED BY <1>1, <1>2 DEF QueueInv

\* An error that waits for its handler goes on to.
LEMMA HitKept ==
    ASSUME HitInv, UNCHANGED <<queue, bad, kmem>>,
           stage' = "dispatch" <=> stage = "dispatch",
           \A i \in Waiting : FirstHit(i) => FirstHit(i)'
    PROVE  HitInv'
<1>1. Waiting' = Waiting BY DEF Waiting
<1>2. \A i \in Waiting' : FirstHit(i) => FirstHit(i)' BY <1>1
<1>3. QED BY <1>1, <1>2 DEF HitInv

\* So do the pages that were lost.
LEMMA ErrorKept ==
    ASSUME NEW s, NEW t, ErrorInv(s), UNCHANGED <<queue, bad, kmem, recovered>>,
           stage' = "dispatch" <=> stage = "dispatch",
           stage' = "rollback" => stage = "rollback",
           \A x \in Page : Lost(s, x) => Lost(t, x)'
    PROVE  ErrorInv(t)'
<1>1. Waiting' = Waiting /\ Broken' = Broken BY DEF Waiting, Broken
<1>2. QED BY <1>1 DEF ErrorInv

\* The page of the transaction stays what it is.
LEMMA TransKept ==
    ASSUME NEW s, NEW t, TypeOK, TransInv(s), UNCHANGED <<log_run, kmem>>,
           stage' = "rollback" => stage = "rollback",
           \A x \in Page : Lost(s, x) => Lost(t, x)',
           \A q \in Proc : Pending(q) => Pending(q)' /\ hand'[q] = hand[q]
    PROVE  TransInv(t)'
<1>1. log_run # Null => log_run \in Page BY DEF TypeOK
<1>2. ASSUME log_run # Null, kmem = Static \/ stage = "rollback"
      PROVE  Lost(t, log_run)' \/ \E q \in Proc : Pending(q)' /\ hand'[q] = log_run
  <2>1. CASE Lost(s, log_run) BY <1>1, <1>2, <2>1
  <2>2. CASE \E q \in Proc : Pending(q) /\ hand[q] = log_run BY <2>2
  <2>3. QED BY <1>2, <2>1, <2>2 DEF TransInv
<1>3. QED BY <1>2 DEF TransInv

-----------------------------------------------------------------------------
(* kalloc and kfree keep the invariant. *)

\* Nobody but the process itself is changed, and nothing of the lists.
LEMMA CallInv ==
    ASSUME TypeOK, NEW s, Uses(s), Live(s), NEW p \in Proc, Call(p)
    PROVE  TypeOK' /\ Uses(s)' /\ Live(s)'
<1> USE PageFacts
<1>1. /\ pc[p] = "idle" /\ pc' = [pc EXCEPT ![p] = "inside"]
      /\ \/ /\ op' = [op EXCEPT ![p] = "kalloc"]
            /\ hand' = [hand EXCEPT ![p] = Null] /\ used' = used
         \/ \E x \in used : /\ op' = [op EXCEPT ![p] = "kfree"]
                            /\ hand' = [hand EXCEPT ![p] = x] /\ used' = used \ {x}
  BY DEF Call, At, Goto
<1>2. UNCHANGED <<freelist, next, runs, kmem, lock, log_run, trans, addr, queue, tracker,
                  stage, recovery, recovered, bad, nmis, halted>>
  BY DEF Call, lists, nmiVars
<1>3. ops' = ops + 1 BY DEF Call
<1> HIDE DEF Call
<1>4. \A q \in Proc : q # p => pc'[q] = pc[q] /\ op'[q] = op[q] /\ hand'[q] = hand[q]
  BY <1>1 DEF TypeOK
<1>5. /\ pc'[p] = "inside" /\ hand[p] = Null
      /\ \/ op'[p] = "kalloc" /\ hand'[p] = Null /\ used' = used
         \/ \E x \in used : op'[p] = "kfree" /\ hand'[p] = x /\ used' = used \ {x}
  BY <1>1 DEF TypeOK, Live, HandInv
<1>6. TypeOK'
  <2>1. used' \subseteq Page BY <1>1 DEF TypeOK
  <2>2. op' \in [Proc -> {"kalloc", "kfree"}] BY <1>1 DEF TypeOK
  <2>3. hand' \in [Proc -> Page \cup {Null}] BY ZenonT(60), <1>1 DEF TypeOK
  <2>4. pc' \in [Proc -> {"idle", "inside", "spin", "locked", "popped", "registered",
                         "linked", "nmi"}]
    BY <1>1 DEF TypeOK
  <2>5. QED BY <2>1, <2>2, <2>3, <2>4, <1>2, <1>3 DEF TypeOK
<1>7. /\ hand'[p] # Null => /\ hand'[p] \in used /\ hand'[p] \notin used' /\ op'[p] = "kfree"
      /\ hand'[p] = Null => op'[p] = "kalloc"
      /\ used' \subseteq used /\ used \subseteq Page
      /\ \A q \in Proc : hand[q] # Null => hand[q] \notin used
  BY <1>5 DEF TypeOK, Uses, OneUse
<1>8. OneUse(s)'
  <2>1. /\ (ToSet(s) \cap (used \cup {kmem}) = {} /\ kmem \notin used)'
        /\ (IsInjective(runs) /\ ToSet(runs) \cap (used \cup {kmem}) = {})'
    BY <1>2, <1>7 DEF Uses, OneUse
  <2>2. \A q \in Proc : hand'[q] # Null =>
          /\ hand'[q] \notin used' \cup ToSet(s)
          /\ hand'[q] = kmem => pc'[q] = "nmi"
          /\ \A r \in Proc : hand'[r] = hand'[q] => r = q
    <3> TAKE q \in Proc
    <3>1. CASE q = p
      <4>1. hand'[p] # Null => hand'[p] \notin ToSet(s) /\ hand'[p] # kmem
        BY <1>7 DEF Uses, OneUse
      <4>2. hand'[p] # Null => \A r \in Proc : r # p => hand'[r] # hand'[p] BY <1>4, <1>7
      <4>3. QED BY <3>1, <4>1, <4>2, <1>7
    <3>2. CASE q # p
      <4>1. hand'[q] = hand[q] /\ pc'[q] = pc[q] BY <1>4, <3>2
      <4>2. hand[q] # Null => hand'[p] # hand[q] BY <1>7
      <4>3. QED BY <4>1, <4>2, <1>4, <1>5, <1>7 DEF Uses, OneUse
    <3>3. QED BY <3>1, <3>2
  <2>3. QED BY <2>1, <2>2, <1>2 DEF OneUse
<1>9. Uses(s)' BY <1>2, <1>8 DEF Uses
<1>10. InOrder(s)'
  <2>1. \A x \in ToSet(runs) : (\E q \in Proc : hand[q] = x) => \E q \in Proc : hand'[q] = x
    <3>1. \A x \in ToSet(runs) : x \in Page BY SeqFacts DEF TypeOK
    <3>2. QED BY <3>1, <1>4, <1>5
  <2>2. QED BY <2>1, <1>2 DEF Live, InOrder
<1>11. UNCHANGED <<Victim, Broken>> BY <1>2 DEF Victim, Broken
<1>12. LockInv'
  <2>1. \A q \in Proc : /\ pc'[q] \in Critical => pc[q] \in Critical
                        /\ pc[q] \in Critical => pc'[q] \in Critical
                        /\ pc[q] = "nmi" => pc'[q] = "nmi"
    BY <1>1, <1>4, <1>5 DEF Critical
  <2>2. QED BY <1>2, <1>11, <2>1 DEF Live, LockInv
<1>13. \A q \in Proc : Pending(q)' <=> Pending(q)
  <2>1. \A q \in Proc : lock[kmem] = q => q # p
    BY <1>1 DEF Live, LockInv, Critical
  <2>2. QED BY <1>2, <1>4, <2>1 DEF Pending
<1>14. \A q \in Proc : pc[q] = "nmi" => q # p BY <1>1
<1>15. \A q \in Proc : Taken(q)' <=> Taken(q) BY <1>2 DEF Taken
<1>16. ASSUME Taken(p) PROVE FALSE
  BY <1>5, <1>16 DEF Live, HandInv
<1>17. HandInv'
  <2>1. \A q \in Proc : hand'[q] \in ToSet(runs) => q # p
    <3>1. \A x \in ToSet(runs) : x \notin used /\ x # Null
      BY SeqFacts DEF Uses, OneUse, TypeOK
    <3>2. QED BY <3>1, <1>7
  <2>2. QED BY <1>2, <1>4, <1>5, <1>7, <1>11, <1>13, <1>14, <1>15, <1>16, <2>1, QueueFacts DEF Live, HandInv
<1>18. QueueInv' BY <1>2, <1>4, <1>14, QueueKept DEF Live
<1>19. HitInv'
  <2>1. \A i \in Waiting : queue[i].pid \in Proc /\ queue[i].pid # p
    BY <1>14, QueueFacts DEF Waiting, Live, QueueInv
  <2>2. \A i \in Waiting : FirstHit(i) => FirstHit(i)' BY <2>1, <1>2, <1>4, <1>13 DEF FirstHit
  <2>3. QED BY <2>2, <1>2, HitKept DEF Live
<1>20. \A x \in Page : Lost(s, x) => Lost(s, x)'
  BY <1>2, <1>4, <1>7, <1>11 DEF Lost
<1>21. ErrorInv(s)' BY <1>2, <1>20, ErrorKept DEF Live
<1>22. TransInv(s)'
  <2>1. \A q \in Proc : Pending(q) => hand'[q] = hand[q]
    BY <1>4, <1>5 DEF Pending
  <2>2. QED BY <1>2, <1>13, <1>20, <2>1, TransKept DEF Live
<1>23. QED BY <1>6, <1>9, <1>10, <1>12, <1>17, <1>18, <1>19, <1>21, <1>22 DEF Live

\* acquire reads the pointer.
LEMMA EvaluateInv ==
    ASSUME TypeOK, NEW s, Uses(s), Live(s), NEW p \in Proc, Evaluate(p)
    PROVE  TypeOK' /\ Uses(s)' /\ Live(s)'
<1> USE PageFacts
<1>1. /\ pc[p] = "inside" /\ pc' = [pc EXCEPT ![p] = "spin"]
      /\ addr' = [addr EXCEPT ![p] = kmem]
  BY DEF Evaluate, At, Goto
<1>2. UNCHANGED <<freelist, next, runs, kmem, lock, log_run, trans, op, hand, queue, tracker,
                  stage, recovery, recovered, used, bad, nmis, halted, ops>>
  BY DEF Evaluate, lists, nmiVars
<1> HIDE DEF Evaluate
<1>3. /\ \A q \in Proc : q # p => pc'[q] = pc[q] /\ addr'[q] = addr[q]
      /\ pc'[p] = "spin" /\ addr'[p] = kmem
  BY <1>1 DEF TypeOK
<1>4. TypeOK'
  <2>1. pc' \in [Proc -> {"idle", "inside", "spin", "locked", "popped", "registered",
                         "linked", "nmi"}]
    BY <1>1 DEF TypeOK
  <2>2. addr' \in [Proc -> Home] BY <1>1 DEF TypeOK
  <2>3. QED BY <2>1, <2>2, <1>2 DEF TypeOK
<1>5. UNCHANGED <<Victim, Broken>> BY <1>2 DEF Victim, Broken
<1>6. \A q \in Proc : /\ pc[q] = "nmi" <=> pc'[q] = "nmi"
                      /\ pc[q] \in Critical <=> pc'[q] \in Critical
                      /\ pc'[q] \in Critical => q # p
  BY <1>1, <1>3 DEF Critical
<1>7. Uses(s)' BY <1>2, <1>6 DEF Uses, OneUse
<1>8. InOrder(s)' BY <1>2 DEF Live, InOrder
<1>9. LockInv' BY <1>2, <1>3, <1>5, <1>6 DEF Live, LockInv
<1>10. \A q \in Proc : /\ Pending(q)' <=> Pending(q)
                       /\ Taken(q)' <=> Taken(q)
  BY <1>2 DEF Pending, Taken
<1>11. HandInv' BY <1>1, <1>2, <1>3, <1>5, <1>10, QueueFacts DEF Live, HandInv
<1>12. QueueInv' BY <1>2, <1>6, QueueKept DEF Live
<1>13. HitInv'
  <2>1. \A i \in Waiting : queue[i].pid \in Proc BY QueueFacts DEF Waiting, Live
  <2>2. \A i \in Waiting : FirstHit(i) => FirstHit(i)' BY <2>1, <1>2, <1>10 DEF FirstHit
  <2>3. QED BY <2>2, <1>2, HitKept DEF Live
<1>14. \A x \in Page : Lost(s, x) => Lost(s, x)' BY <1>2, <1>5 DEF Lost
<1>15. ErrorInv(s)' BY <1>2, <1>14, ErrorKept DEF Live
<1>16. TransInv(s)' BY <1>2, <1>10, <1>14, TransKept DEF Live
<1>17. QED BY <1>4, <1>7, <1>8, <1>9, <1>11, <1>12, <1>13, <1>15, <1>16 DEF Live

\* Nobody has the lock of a struct kmem that was replaced: who gets a lock has
\* the one of struct kmem.
LEMMA AcquireInv ==
    ASSUME TypeOK, NEW s, Uses(s), Live(s), NEW p \in Proc, Acquire(p)
    PROVE  TypeOK' /\ Uses(s)' /\ Live(s)'
<1> USE PageFacts
<1>1. /\ pc[p] = "spin" /\ pc' = [pc EXCEPT ![p] = "locked"]
      /\ lock[addr[p]] = NoProc /\ lock' = [lock EXCEPT ![addr[p]] = p]
  BY DEF Acquire, At, Goto
<1>2. UNCHANGED <<freelist, next, runs, kmem, log_run, trans, op, hand, addr, queue, tracker,
                  stage, recovery, recovered, used, bad, nmis, halted, ops>>
  BY DEF Acquire, lists, nmiVars
<1> HIDE DEF Acquire
<1>3. addr[p] = kmem /\ lock[kmem] = NoProc /\ kmem \in Home
  BY <1>1 DEF Live, LockInv, TypeOK
<1>4. /\ \A q \in Proc : q # p => pc'[q] = pc[q]
      /\ pc'[p] = "locked"
      /\ \A a \in Home : a # kmem => lock'[a] = lock[a]
      /\ lock'[kmem] = p
  BY <1>1, <1>3 DEF TypeOK
<1>5. TypeOK'
  <2>1. pc' \in [Proc -> {"idle", "inside", "spin", "locked", "popped", "registered",
                         "linked", "nmi"}]
    BY <1>1 DEF TypeOK
  <2>2. lock' \in [Home -> Proc \cup {NoProc}] BY <1>1 DEF TypeOK
  <2>3. QED BY <2>1, <2>2, <1>2 DEF TypeOK
<1>6. UNCHANGED <<Victim, Broken>> BY <1>2 DEF Victim, Broken
<1>7. \A q \in Proc : /\ pc[q] = "nmi" <=> pc'[q] = "nmi"
                      /\ pc[q] \notin Critical
                      /\ pc'[q] \in Critical <=> q = p
  BY <1>1, <1>3, <1>4 DEF Critical, Live, LockInv
<1>8. Uses(s)' BY <1>2, <1>7 DEF Uses, OneUse
<1>9. InOrder(s)' BY <1>2 DEF Live, InOrder
<1>10. LockInv'
  <2>1. Static \in Home OBVIOUS
  <2>2. queue # <<>> => tracker # p BY <1>1, QueueFacts DEF Live
  <2>3. QED BY <1>2, <1>3, <1>4, <1>6, <1>7, <2>1, <2>2 DEF Live, LockInv
<1>11. \A q \in Proc : ~Pending(q) BY <1>3 DEF Pending
<1>12. \A x \in ToSet(runs) : x \in Page BY SeqFacts DEF TypeOK
<1>13. \A q \in Proc : hand[q] \in ToSet(runs) => Taken(q) /\ q # p
  BY <1>1, <1>11 DEF Live, HandInv
<1>14. \A q \in Proc : Taken(q)' <=> Taken(q) BY <1>2 DEF Taken
<1>15. queue # <<>> /\ stage # "dispatch" => ~Pending(Victim)'
  <2>1. hand[Victim] \in ToSet(runs) /\ queue # <<>> => Taken(Victim)
    BY <1>13, QueueFacts DEF Live
  <2>2. queue # <<>> => Victim # p BY <1>1, QueueFacts DEF Live
  <2>3. QED BY <1>2, <1>4, <1>6, <2>2 DEF Pending
<1>16. HandInv'
  <2>1. \A q \in Proc : pc'[q] # "registered"
    BY <1>3, <1>4, <1>7 DEF Critical
  <2>2. \A q \in Proc : pc'[q] \in {"inside", "spin", "locked"} => pc[q] \in {"inside", "spin", "locked"}
    BY <1>1, <1>4
  <2>3. QED
    BY <1>2, <1>4, <1>6, <1>7, <1>13, <1>14, <1>15, <2>1, <2>2, QueueFacts DEF Live, HandInv
<1>17. QueueInv' BY <1>2, <1>7, QueueKept DEF Live
<1>18. HitInv'
  <2>1. \A i \in Waiting : ~FirstHit(i) BY <1>3, Calm DEF Live
  <2>2. QED BY <2>1, <1>2, HitKept DEF Live
<1>19. \A x \in Page : Lost(s, x) => Lost(s, x)' BY <1>2, <1>6 DEF Lost
<1>20. ErrorInv(s)' BY <1>2, <1>19, ErrorKept DEF Live
<1>21. TransInv(s)' BY <1>2, <1>11, <1>19, TransKept DEF Live
<1>22. QED
  BY <1>5, <1>8, <1>9, <1>10, <1>16, <1>17, <1>18, <1>20, <1>21 DEF Live

\* What the holder of the lock does meets no error that waits.
LEMMA Alone ==
    ASSUME TypeOK, NEW s, Live(s), NEW p \in Proc, pc[p] \in Critical
    PROVE  /\ addr[p] = kmem /\ lock[kmem] = p
           /\ \A q \in Proc : pc[q] \in Critical => q = p
           /\ \A i \in Waiting : ~FirstHit(i)
           /\ queue # <<>> => p # Victim /\ p # tracker
           /\ \A q \in Proc : Pending(q) => q = p
           /\ \A q \in Proc : hand[q] \in ToSet(runs) => (Taken(q) /\ q # p) \/ q = p
<1>1. /\ addr[p] = kmem /\ lock[kmem] = p
      /\ \A q \in Proc : pc[q] \in Critical => q = p
  BY DEF Live, LockInv
<1>2. \A i \in Waiting : ~FirstHit(i) BY Calm DEF Live
<1>3. queue # <<>> => p # Victim /\ p # tracker BY QueueFacts DEF Live, Critical
<1>4. \A q \in Proc : Pending(q) => q = p BY <1>1 DEF Pending
<1>5. \A q \in Proc : hand[q] \in ToSet(runs) => (Taken(q) /\ q # p) \/ q = p
  BY <1>4 DEF Live, HandInv
<1>6. QED BY <1>1, <1>2, <1>3, <1>4, <1>5

\* The first free page leaves both lists.
LEMMA PopInv ==
    ASSUME TypeOK, NEW s, Uses(s), Live(s), NEW p \in Proc, Pop(p)
    PROVE  TypeOK' /\ \E t : Uses(t)' /\ (~halted' => Live(t)')
<1> USE PageFacts
<1>1. pc[p] = "locked" /\ op[p] = "kalloc" BY DEF Pop, At
<1>2. UNCHANGED <<kmem, lock, log_run, trans, op, addr, queue, tracker,
                  stage, recovery, recovered, used, bad, nmis, ops>>
  BY DEF Pop, nmiVars
<1>3. hand[p] = Null BY <1>1 DEF Live, HandInv
<1>4. pc[p] \in Critical BY <1>1 DEF Critical
<1>5. UNCHANGED <<Victim, Broken>> BY <1>2 DEF Victim, Broken
<1>6. CASE freelist = Junk
  <2>1. halted' = TRUE /\ UNCHANGED <<freelist, next, runs, hand, pc>>
    BY <1>6 DEF Pop, lists
  <2>2. TypeOK' BY <2>1, <1>2 DEF TypeOK
  <2>3. Uses(s)' BY <2>1, <1>2 DEF Uses, OneUse
  <2>4. QED BY <2>1, <2>2, <2>3
<1>7. CASE freelist = Null
  <2>1. pc' = [pc EXCEPT ![p] = "popped"] /\ UNCHANGED <<freelist, next, runs, hand, halted>>
    BY <1>7 DEF Pop, lists, Goto, Junk, Null
  <2> HIDE DEF Pop
  <2>2. /\ \A q \in Proc : q # p => pc'[q] = pc[q]
        /\ pc'[p] = "popped"
    BY <2>1 DEF TypeOK
  <2>3. TypeOK'
    <3>1. pc' \in [Proc -> {"idle", "inside", "spin", "locked", "popped", "registered",
                           "linked", "nmi"}]
      BY <2>1 DEF TypeOK
    <3>2. QED BY <3>1, <2>1, <1>2 DEF TypeOK
  <2>4. \A q \in Proc : /\ pc[q] = "nmi" <=> pc'[q] = "nmi"
                        /\ pc[q] \in Critical <=> pc'[q] \in Critical
    BY <1>1, <2>2 DEF Critical
  <2>5. Uses(s)' BY <1>2, <2>1, <2>4 DEF Uses, OneUse
  <2>6. InOrder(s)' BY <1>2, <2>1 DEF Live, InOrder
  <2>7. LockInv' BY <1>2, <1>5, <2>1, <2>4 DEF Live, LockInv
  <2>8. \A q \in Proc : /\ Pending(q)' <=> Pending(q)
                        /\ Taken(q)' <=> Taken(q)
    BY <1>2, <2>1 DEF Pending, Taken
  <2>9. HandInv'
    <3>1. \A x \in ToSet(runs) : x \in Page BY SeqFacts DEF TypeOK
    <3>2. QED BY <1>1, <1>2, <1>3, <1>5, <2>1, <2>2, <2>8, <3>1, QueueFacts DEF Live, HandInv
  <2>10. QueueInv' BY <1>2, <2>4, QueueKept DEF Live
  <2>11. HitInv' BY <1>2, <1>4, Alone, HitKept DEF Live
  <2>12. \A x \in Page : Lost(s, x) => Lost(s, x)' BY <1>2, <1>5, <2>1 DEF Lost
  <2>13. ErrorInv(s)' BY <1>2, <2>12, ErrorKept DEF Live
  <2>14. TransInv(s)' BY <1>2, <2>1, <2>8, <2>12, TransKept DEF Live
  <2>15. QED BY <2>3, <2>5, <2>6, <2>7, <2>9, <2>10, <2>11, <2>13, <2>14 DEF Live
<1>8. CASE freelist \notin {Null, Junk}
  <2>1. /\ freelist' = next[freelist] /\ runs' = Deleted(runs, freelist)
        /\ hand' = [hand EXCEPT ![p] = freelist] /\ next' = next
        /\ pc' = [pc EXCEPT ![p] = "popped"] /\ halted' = halted
    BY <1>8 DEF Pop, Goto
  <2> HIDE DEF Pop
  <2>2. freelist \in Page BY <1>8 DEF TypeOK
  <2> DEFINE t == Tail(s)
  <2>3. /\ s \in Seq(Page) /\ IsInjective(s) /\ s # <<>> /\ s[1] = freelist
        /\ IsChain(next[freelist], next, t)
    <3>1. s \in Seq(Page) /\ IsInjective(s) BY DEF Uses, IsChain
    <3>2. IsChain(freelist, next, s) BY DEF Uses
    <3>3. s # <<>> BY <2>2, <3>2 DEF IsChain
    <3>4. s[1] = freelist BY <3>2, <3>3 DEF IsChain
    <3>5. QED BY <3>1, <3>2, <3>3, <3>4, ChainTail
  <2>4. /\ t \in Seq(Page) /\ ToSet(t) = ToSet(s) \ {freelist} /\ freelist \in ToSet(s)
    BY <2>3, TailFacts, SeqFacts
  <2>5. /\ runs' \in Seq(Page) /\ IsInjective(runs') /\ ToSet(runs') = ToSet(runs) \ {freelist}
    BY <2>1, DeletedFacts DEF TypeOK, Uses, OneUse
  <2>6. Sorted(runs', t)
    <3>1. runs \in Seq(Page) /\ IsInjective(runs) /\ Sorted(runs, s)
      BY DEF TypeOK, Uses, OneUse, Live, InOrder
    <3>2. Sorted(runs, t) BY <3>1, <2>3, SortedTail
    <3>3. freelist \notin ToSet(t) BY <2>4
    <3> HIDE DEF t
    <3>4. Sorted(Deleted(runs, freelist), t) BY <3>1, <3>2, <3>3, <2>4, SortedDeleted
    <3>5. QED BY <3>4, <2>1
  <2> HIDE DEF t
  <2>7. /\ \A q \in Proc : q # p => pc'[q] = pc[q] /\ hand'[q] = hand[q]
        /\ pc'[p] = "popped" /\ hand'[p] = freelist
    BY <2>1 DEF TypeOK
  <2>8. TypeOK'
    <3>1. pc' \in [Proc -> {"idle", "inside", "spin", "locked", "popped", "registered",
                           "linked", "nmi"}]
      BY <2>1 DEF TypeOK
    <3>2. hand' \in [Proc -> Page \cup {Null}] BY <2>1, <2>2 DEF TypeOK
    <3>3. freelist' \in Pointer BY <2>1, <2>2 DEF TypeOK
    <3>4. QED BY <3>1, <3>2, <3>3, <2>1, <2>5, <1>2 DEF TypeOK
  <2>9. \A q \in Proc : /\ pc[q] = "nmi" <=> pc'[q] = "nmi"
                        /\ pc[q] \in Critical <=> pc'[q] \in Critical
    BY <1>1, <2>7 DEF Critical
  <2>10. /\ freelist \notin used /\ freelist # kmem
         /\ \A q \in Proc : hand[q] # freelist
    BY <2>2, <2>4 DEF Uses, OneUse
  <2>11. OneUse(t)'
    <3>1. ToSet(t) \subseteq ToSet(s) /\ ToSet(runs') \subseteq ToSet(runs) BY <2>4, <2>5
    <3>2. /\ (ToSet(t) \cap (used \cup {kmem}) = {} /\ kmem \notin used)'
          /\ (IsInjective(runs) /\ ToSet(runs) \cap (used \cup {kmem}) = {})'
      BY <1>2, <2>5, <3>1 DEF Uses, OneUse
    <3>3. \A q \in Proc : hand'[q] # Null =>
            /\ hand'[q] \notin used' \cup ToSet(t)
            /\ hand'[q] = kmem => pc'[q] = "nmi"
            /\ \A r \in Proc : hand'[r] = hand'[q] => r = q
      BY <1>2, <2>4, <2>7, <2>10 DEF Uses, OneUse
    <3>4. QED BY <3>2, <3>3, <1>2 DEF OneUse
  <2>12. Uses(t)' BY <2>1, <2>3, <2>11 DEF Uses
  <2>13. InOrder(t)'
    <3>1. \A x \in ToSet(t) \ ToSet(runs') : x = LastPage
      BY <2>4, <2>5 DEF Live, InOrder
    <3>2. ASSUME kmem = Static, NEW x \in ToSet(runs')
          PROVE  x \in ToSet(t) \/ \E q \in Proc : hand'[q] = x
      <4>1. x \in ToSet(runs) /\ x # freelist BY <2>5
      <4>2. CASE x \in ToSet(s) BY <2>4, <4>1, <4>2
      <4>3. CASE \E q \in Proc : hand[q] = x
        <5>1. PICK q \in Proc : hand[q] = x BY <4>3
        <5>2. x # Null BY <4>1, SeqFacts DEF TypeOK
        <5>3. q # p BY <5>1, <5>2, <1>3
        <5>4. QED BY <5>1, <5>3, <2>7
      <4>4. QED BY <3>2, <4>1, <4>2, <4>3 DEF Live, InOrder
    <3>3. QED BY <3>1, <3>2, <2>6, <1>2 DEF InOrder
  <2>14. LockInv' BY <1>2, <1>5, <2>9 DEF Live, LockInv
  <2>15. \A q \in Proc : ~Pending(q)
    BY <1>3, <1>4, Alone DEF Pending
  <2>16. \A q \in Proc : Taken(q)' <=> Taken(q) BY <1>2 DEF Taken
  <2>17. \A q \in Proc : hand'[q] \in ToSet(runs') => q # p /\ hand[q] \in ToSet(runs) /\ Taken(q)
    <3>1. \A q \in Proc : hand'[q] \in ToSet(runs') => q # p BY <2>5, <2>7
    <3>2. QED BY <3>1, <2>5, <2>7, <1>4, Alone
  <2>18. queue # <<>> /\ stage # "dispatch" => ~Pending(Victim)'
    <3>1. lock[kmem] = p BY <1>4, Alone
    <3>2. queue # <<>> => p # Victim BY <1>4, Alone
    <3>3. QED BY <3>1, <3>2, <1>2, <1>5 DEF Pending
  <2>19. HandInv'
    <3>1. \A q \in Proc : pc'[q] # "registered"
      <4>1. \A q \in Proc : pc[q] \in Critical => q = p BY <1>4, Alone
      <4>2. QED BY <2>7, <4>1 DEF Critical
    <3>2. queue # <<>> => p # tracker BY <1>4, Alone
    <3>3. \A q \in Proc : Taken(q) => q # p BY <1>3 DEF Live, HandInv
    <3>4. QED
      BY <1>2, <1>5, <2>7, <2>9, <2>16, <2>17, <2>18, <3>1, <3>2, <3>3, QueueFacts
      DEF Live, HandInv
  <2>20. QueueInv' BY <1>2, <2>9, QueueKept DEF Live
  <2>21. HitInv' BY <1>2, <1>4, Alone, HitKept DEF Live
  <2>22. \A x \in Page : Lost(s, x) => Lost(t, x)'
    BY <1>2, <1>5, <2>4, <2>5, <2>7 DEF Lost
  <2>23. ErrorInv(t)' BY <1>2, <2>22, ErrorKept DEF Live
  <2>24. TransInv(t)' BY <1>2, <2>15, <2>22, TransKept DEF Live
  <2>25. Live(t)'
    BY <2>13, <2>14, <2>19, <2>20, <2>21, <2>23, <2>24 DEF Live
  <2>26. QED BY <2>8, <2>12, <2>25
<1>9. QED BY <1>6, <1>7, <1>8

\* The page of a kfree comes into the M-List, and into the log.
LEMMA RegisterInv ==
    ASSUME TypeOK, NEW s, Uses(s), Live(s), NEW p \in Proc, Register(p)
    PROVE  TypeOK' /\ Uses(s)' /\ Live(s)'
<1> USE PageFacts
<1>1. /\ pc[p] = "locked" /\ op[p] = "kfree" /\ pc' = [pc EXCEPT ![p] = "registered"]
      /\ log_run' = hand[p] /\ trans' = [trans EXCEPT ![p] = @ + 1]
      /\ runs' = Registered(runs, hand[p])
  BY DEF Register, At, Goto
<1>2. UNCHANGED <<freelist, next, kmem, lock, op, hand, addr, queue, tracker,
                  stage, recovery, recovered, used, bad, nmis, halted, ops>>
  BY DEF Register, nmiVars
<1> HIDE DEF Register
<1>3. UNCHANGED <<Victim, Broken>> BY <1>2 DEF Victim, Broken
<1>4. pc[p] \in Critical BY <1>1 DEF Critical
<1> DEFINE h == hand[p]
<1>5. h # Null /\ h \in Page BY <1>1 DEF Live, HandInv, TypeOK
<1>6. h \notin ToSet(runs) BY <1>1 DEF Live, HandInv
<1>7. h \notin used /\ h \notin ToSet(s) /\ h # kmem /\ \A q \in Proc : hand[q] = h => q = p
  BY <1>1, <1>5 DEF Uses, OneUse
<1>8. s \in Seq(Page) /\ IsInjective(s) /\ runs \in Seq(Page) /\ IsInjective(runs)
  BY DEF Uses, IsChain, TypeOK, OneUse
<1>9. runs' = <<h>> \o runs BY <1>1, <1>6 DEF Registered
<1> HIDE DEF h
<1>10. /\ runs' \in Seq(Page) /\ IsInjective(runs') /\ ToSet(runs') = {h} \cup ToSet(runs)
       /\ runs' # <<>> /\ runs'[1] = h
  <2>1. /\ <<h>> \o runs \in Seq(Page) /\ IsInjective(<<h>> \o runs)
        /\ ToSet(<<h>> \o runs) = {h} \cup ToSet(runs)
        /\ <<h>> \o runs # <<>> /\ (<<h>> \o runs)[1] = h
    BY <1>5, <1>6, <1>8, ConsFacts
  <2>2. QED BY <2>1, <1>9
<1>11. Sorted(runs', s)
  <2>1. Sorted(<<h>> \o runs, s) BY <1>5, <1>7, <1>8, SortedRegister DEF Live, InOrder
  <2>2. QED BY <2>1, <1>9
<1>12. /\ \A q \in Proc : q # p => pc'[q] = pc[q] /\ trans'[q] = trans[q]
       /\ pc'[p] = "registered" /\ trans'[p] > 0
       /\ trans' \in [Proc -> Nat]
  <2>1. PICK n \in Nat : n = trans[p] BY DEF TypeOK
  <2>2. trans' = [trans EXCEPT ![p] = n + 1] BY <1>1, <2>1
  <2>3. n + 1 \in Nat /\ n + 1 > 0 OBVIOUS
  <2>4. trans \in [Proc -> Nat] BY DEF TypeOK
  <2>5. \A q \in Proc : q # p => trans'[q] = trans[q] BY <2>2, <2>4
  <2>6. trans'[p] = n + 1 BY <2>2, <2>4
  <2>7. trans' \in [Proc -> Nat] BY <2>2, <2>3, <2>4
  <2>8. QED BY <1>1, <2>3, <2>5, <2>6, <2>7 DEF TypeOK
<1>13. TypeOK'
  <2>1. pc' \in [Proc -> {"idle", "inside", "spin", "locked", "popped", "registered",
                         "linked", "nmi"}]
    BY <1>1 DEF TypeOK
  <2>2. log_run' \in Page \cup {Null} BY <1>1 DEF TypeOK
  <2>3. QED BY <2>1, <2>2, <1>2, <1>10, <1>12 DEF TypeOK
<1>14. \A q \in Proc : /\ pc[q] = "nmi" <=> pc'[q] = "nmi"
                       /\ pc[q] \in Critical <=> pc'[q] \in Critical
  BY <1>1, <1>12 DEF Critical
<1>15. Uses(s)'
  <2>1. OneUse(s)' BY <1>2, <1>7, <1>10, <1>14 DEF Uses, OneUse
  <2>2. QED BY <2>1, <1>2 DEF Uses
<1>16. InOrder(s)'
  <2>1. hand'[p] = h BY <1>2 DEF h
  <2>2. \A x \in ToSet(s) \ ToSet(runs') : x = LastPage BY <1>10 DEF Live, InOrder
  <2>3. kmem = Static => \A x \in ToSet(runs') : x \in ToSet(s) \/ \E q \in Proc : hand'[q] = x
    BY <1>2, <1>10, <2>1 DEF Live, InOrder
  <2>4. QED BY <1>2, <1>11, <2>2, <2>3 DEF InOrder
<1>17. LockInv' BY <1>2, <1>3, <1>14 DEF Live, LockInv
<1>18. \A q \in Proc : Taken(q)' <=> Taken(q) BY <1>2 DEF Taken
<1>19. lock[kmem] = p /\ (queue # <<>> => p # Victim /\ p # tracker) BY <1>4, Alone
<1>20. Pending(p)' BY <1>2, <1>5, <1>10, <1>19 DEF Pending, h
<1>21. \A q \in Proc : Pending(q) => FALSE
  <2>1. \A q \in Proc : Pending(q) => q = p BY <1>4, Alone
  <2>2. ASSUME Pending(p) PROVE FALSE
    <3>1. runs[1] = h /\ runs # <<>> BY <2>2 DEF Pending, h
    <3>2. QED BY <3>1, <1>6, <1>8, SeqFacts
  <2>3. QED BY <2>1, <2>2
<1>22. HandInv'
  <2>1. \A q \in Proc : hand[q] \in ToSet(runs') => q = p \/ (pc[q] = "nmi" /\ Taken(q))
    <3>1. \A q \in Proc : hand[q] = h => q = p BY <1>7
    <3>2. \A q \in Proc : hand[q] \in ToSet(runs) /\ q # p => Taken(q) BY <1>4, Alone
    <3>3. \A q \in Proc : Taken(q) => pc[q] = "nmi" BY QueueFacts DEF Taken, Live, QueueInv
    <3>4. QED BY <3>1, <3>2, <3>3, <1>10
  <2>2. \A q \in Proc : pc'[q] = "registered" => q = p
    <3>1. \A q \in Proc : pc[q] \in Critical => q = p BY <1>4, Alone
    <3>2. QED BY <1>12, <3>1 DEF Critical
  <2>3. queue # <<>> /\ stage # "dispatch" => ~Pending(Victim)'
    BY <1>2, <1>3, <1>19 DEF Pending
  <2>4. QED
    BY <1>1, <1>2, <1>3, <1>12, <1>18, <1>19, <1>20, <2>1, <2>2, <2>3, QueueFacts DEF Live, HandInv
<1>23. QueueInv' BY <1>2, <1>14, QueueKept DEF Live
<1>24. HitInv' BY <1>2, <1>4, Alone, HitKept DEF Live
<1>25. \A x \in Page : Lost(s, x) => Lost(s, x)'
  <2>1. ASSUME NEW x \in Page, Lost(s, x) PROVE x # h
    BY <2>1, <1>19 DEF Lost, h
  <2>2. QED BY <2>1, <1>2, <1>3, <1>10 DEF Lost
<1>26. ErrorInv(s)' BY <1>2, <1>25, ErrorKept DEF Live
<1>27. TransInv(s)' BY <1>1, <1>2, <1>20 DEF TransInv
<1>28. QED
  BY <1>13, <1>15, <1>16, <1>17, <1>22, <1>23, <1>24, <1>26, <1>27 DEF Live

\* The registered page is linked in, the transaction ends.
LEMMA LinkInv ==
    ASSUME TypeOK, NEW s, Uses(s), Live(s), NEW p \in Proc, Link(p)
    PROVE  TypeOK' /\ \E t : Uses(t)' /\ Live(t)'
<1> USE PageFacts
<1>1. /\ pc[p] = "registered" /\ pc' = [pc EXCEPT ![p] = "linked"]
      /\ next' = [next EXCEPT ![hand[p]] = freelist] /\ freelist' = hand[p]
      /\ trans' = [trans EXCEPT ![p] = @ - 1] /\ log_run' = Null
      /\ hand' = [hand EXCEPT ![p] = Null]
  BY DEF Link, At, Goto
<1>2. UNCHANGED <<runs, kmem, lock, op, addr, queue, tracker,
                  stage, recovery, recovered, used, bad, nmis, halted, ops>>
  BY DEF Link, nmiVars
<1> HIDE DEF Link
<1>3. UNCHANGED <<Victim, Broken>> BY <1>2 DEF Victim, Broken
<1>4. pc[p] \in Critical BY <1>1 DEF Critical
<1>5. Pending(p) /\ trans[p] > 0 BY <1>1 DEF Live, HandInv
<1>0. PICK h : h = hand[p] OBVIOUS
<1> DEFINE t == <<h>> \o s
<1>6. h # Null /\ h \in Page /\ runs # <<>> /\ runs[1] = h
  BY <1>0, <1>5 DEF Pending, TypeOK
<1>7. h \notin used /\ h \notin ToSet(s) /\ h # kmem /\ \A q \in Proc : hand[q] = h => q = p
  BY <1>0, <1>1, <1>6 DEF Uses, OneUse
<1>8. /\ s \in Seq(Page) /\ IsInjective(s) /\ runs \in Seq(Page) /\ IsInjective(runs)
      /\ IsChain(freelist, next, s) /\ next \in [Page -> Pointer]
  BY DEF Uses, IsChain, TypeOK, OneUse
<1>9. h \in ToSet(runs) BY <1>6, <1>8, SeqFacts
<1>10. freelist' = h /\ next' = [next EXCEPT ![h] = freelist] BY <1>0, <1>1
<1>11. t \in Seq(Page) /\ ToSet(t) = {h} \cup ToSet(s) BY <1>6, <1>8, ConsFacts
<1>12. IsChain(freelist', next', t)
  <2>1. IsChain(h, [next EXCEPT ![h] = freelist], t) BY <1>6, <1>7, <1>8, ChainCons
  <2>2. QED BY <2>1, <1>10
<1>13. Sorted(runs, t)
  BY <1>6, <1>7, <1>8, SortedLink DEF Live, InOrder
<1> HIDE DEF t
<1>14. /\ \A q \in Proc : q # p => pc'[q] = pc[q] /\ trans'[q] = trans[q] /\ hand'[q] = hand[q]
       /\ pc'[p] = "linked" /\ hand'[p] = Null
       /\ trans' \in [Proc -> Nat]
  <2>1. PICK n \in Nat : n = trans[p] BY DEF TypeOK
  <2>2. trans' = [trans EXCEPT ![p] = n - 1] BY <1>1, <2>1
  <2>3. n - 1 \in Nat BY <1>5, <2>1
  <2>4. trans \in [Proc -> Nat] BY DEF TypeOK
  <2>5. \A q \in Proc : q # p => trans'[q] = trans[q] BY <2>2, <2>4
  <2>6. trans' \in [Proc -> Nat] BY <2>2, <2>3, <2>4
  <2>7. QED BY <1>1, <2>5, <2>6 DEF TypeOK
<1>15. TypeOK'
  <2>1. pc' \in [Proc -> {"idle", "inside", "spin", "locked", "popped", "registered",
                         "linked", "nmi"}]
    BY <1>1 DEF TypeOK
  <2>2. hand' \in [Proc -> Page \cup {Null}] BY <1>1 DEF TypeOK
  <2>3. next' \in [Page -> Pointer] BY <1>1 DEF TypeOK
  <2>4. freelist' \in Pointer BY <1>6, <1>10
  <2>5. log_run' \in Page \cup {Null} BY <1>1
  <2>6. QED BY <2>1, <2>2, <2>3, <2>4, <2>5, <1>2, <1>14 DEF TypeOK
<1>16. \A q \in Proc : /\ pc[q] = "nmi" <=> pc'[q] = "nmi"
                       /\ pc[q] \in Critical <=> pc'[q] \in Critical
  BY <1>1, <1>14 DEF Critical
<1>17. Uses(t)'
  <2>1. OneUse(t)' BY <1>2, <1>7, <1>11, <1>14, <1>16 DEF Uses, OneUse
  <2>2. QED BY <2>1, <1>12 DEF Uses
<1>18. InOrder(t)'
  <2>1. \A x \in ToSet(t) \ ToSet(runs) : x = LastPage BY <1>9, <1>11 DEF Live, InOrder
  <2>2. ASSUME kmem = Static, NEW x \in ToSet(runs)
        PROVE  x \in ToSet(t) \/ \E q \in Proc : hand'[q] = x
    <3>1. CASE x = h BY <1>11, <3>1
    <3>2. CASE x # h
      <4>1. x \in ToSet(s) \/ \E q \in Proc : hand[q] = x BY <2>2 DEF Live, InOrder
      <4>2. \A q \in Proc : hand[q] = x => hand'[q] = x BY <1>0, <1>14, <3>2
      <4>3. QED BY <4>1, <4>2, <1>11
    <3>3. QED BY <3>1, <3>2
  <2>3. QED BY <2>1, <2>2, <1>2, <1>13 DEF InOrder
<1>19. LockInv' BY <1>2, <1>3, <1>16 DEF Live, LockInv
<1>20. \A q \in Proc : Taken(q)' <=> Taken(q) BY <1>2 DEF Taken
<1>21. lock[kmem] = p /\ (queue # <<>> => p # Victim /\ p # tracker) BY <1>4, Alone
<1>22. HandInv'
  <2>1. \A q \in Proc : hand'[q] \in ToSet(runs) => q # p /\ pc[q] = "nmi" /\ Taken(q)
    <3>1. Null \notin ToSet(runs) BY <1>8, SeqFacts
    <3>2. \A q \in Proc : hand'[q] \in ToSet(runs) => q # p BY <1>14, <3>1
    <3>3. \A q \in Proc : hand[q] \in ToSet(runs) /\ q # p => Taken(q) BY <1>4, Alone
    <3>4. \A q \in Proc : Taken(q) => pc[q] = "nmi" BY QueueFacts DEF Taken, Live, QueueInv
    <3>5. QED BY <3>2, <3>3, <3>4, <1>14
  <2>2. \A q \in Proc : pc'[q] # "registered"
    <3>1. \A q \in Proc : pc[q] \in Critical => q = p BY <1>4, Alone
    <3>2. QED BY <1>14, <3>1 DEF Critical
  <2>3. queue # <<>> /\ stage # "dispatch" => ~Pending(Victim)'
    BY <1>2, <1>3, <1>21 DEF Pending
  <2>4. \A q \in Proc : Taken(q) => q # p
    BY <1>1, QueueFacts DEF Taken, Live, QueueInv
  <2>5. QED
    BY <1>1, <1>2, <1>3, <1>14, <1>20, <1>21, <2>1, <2>2, <2>3, <2>4, QueueFacts
    DEF Live, HandInv
<1>23. QueueInv' BY <1>2, <1>16, QueueKept DEF Live
<1>24. HitInv' BY <1>2, <1>4, Alone, HitKept DEF Live
<1>25. \A x \in Page : Lost(s, x) => Lost(t, x)'
  <2>1. ASSUME NEW x \in Page, Lost(s, x) PROVE x # h
    BY <2>1, <1>9 DEF Lost
  <2>2. QED BY <2>1, <1>2, <1>3, <1>11, <1>14 DEF Lost
<1>26. ErrorInv(t)' BY <1>2, <1>25, ErrorKept DEF Live
<1>27. TransInv(t)' BY <1>1 DEF TransInv
<1>28. Live(t)'
  BY <1>18, <1>19, <1>22, <1>23, <1>24, <1>26, <1>27 DEF Live
<1>29. QED BY <1>15, <1>17, <1>28

\* The lock is released; a page that kalloc returns is in use from now on.
LEMMA ReleaseInv ==
    ASSUME TypeOK, NEW s, Uses(s), Live(s), NEW p \in Proc, Release(p)
    PROVE  TypeOK' /\ Uses(s)' /\ Live(s)'
<1> USE PageFacts
<1>1. pc[p] \in {"popped", "linked"} BY DEF Release, At
<1>2. pc[p] \in Critical BY <1>1 DEF Critical
<1>3. lock[kmem] = p /\ (queue # <<>> => p # Victim /\ p # tracker) /\ kmem \in Home
  BY <1>2, Alone DEF TypeOK
<1>4. /\ lock' = [lock EXCEPT ![kmem] = NoProc] /\ pc' = [pc EXCEPT ![p] = "idle"]
      /\ IF hand[p] = Null
         THEN UNCHANGED <<next, hand, used>>
         ELSE /\ next' = [next EXCEPT ![hand[p]] = Junk]
              /\ used' = used \cup {hand[p]}
              /\ hand' = [hand EXCEPT ![p] = Null]
  BY <1>3 DEF Release, Goto
<1>5. UNCHANGED <<freelist, runs, kmem, log_run, trans, op, addr, queue, tracker,
                  stage, recovery, recovered, bad, nmis, halted, ops>>
  BY <1>3 DEF Release, nmiVars
<1> HIDE DEF Release
<1>6. UNCHANGED <<Victim, Broken>> BY <1>5 DEF Victim, Broken
<1>7. /\ \A q \in Proc : q # p => pc'[q] = pc[q] /\ hand'[q] = hand[q]
      /\ pc'[p] = "idle" /\ hand'[p] = Null
      /\ lock'[kmem] = NoProc /\ \A a \in Home : a # kmem => lock'[a] = lock[a]
      /\ used' = used \cup ({hand[p]} \ {Null})
  BY <1>3, <1>4 DEF TypeOK
<1>8. /\ s \in Seq(Page) /\ runs \in Seq(Page) /\ Null \notin ToSet(s) /\ Null \notin ToSet(runs)
  BY SeqFacts DEF Uses, IsChain, TypeOK
<1>9. hand[p] \notin ToSet(s) /\ hand[p] # kmem /\ hand[p] \notin ToSet(runs)
  <2>1. hand[p] \notin ToSet(runs) BY <1>1 DEF Live, HandInv
  <2>2. hand[p] # Null => hand[p] \notin ToSet(s) /\ hand[p] # kmem
    BY <1>1 DEF Uses, OneUse
  <2>3. QED BY <2>1, <2>2, <1>3, <1>8
<1>10. TypeOK'
  <2>1. pc' \in [Proc -> {"idle", "inside", "spin", "locked", "popped", "registered",
                         "linked", "nmi"}]
    BY <1>4 DEF TypeOK
  <2>2. hand' \in [Proc -> Page \cup {Null}] BY <1>4 DEF TypeOK
  <2>3. next' \in [Page -> Pointer] BY <1>4 DEF TypeOK
  <2>4. lock' \in [Home -> Proc \cup {NoProc}] BY <1>4 DEF TypeOK
  <2>5. used' \subseteq Page
    <3>1. hand[p] \in Page \cup {Null} /\ used \subseteq Page BY DEF TypeOK
    <3>2. QED BY <3>1, <1>7
  <2>6. QED BY <2>1, <2>2, <2>3, <2>4, <2>5, <1>5 DEF TypeOK
<1>11. \A q \in Proc : pc[q] = "nmi" <=> pc'[q] = "nmi" BY <1>1, <1>7
<1>12. \A q \in Proc : pc'[q] \notin Critical
  <2>1. \A q \in Proc : pc[q] \in Critical => q = p BY <1>2, Alone
  <2>2. QED BY <2>1, <1>7 DEF Critical
<1>13. IsChain(freelist', next', s)
  <2>1. IsChain(freelist, next, s) BY DEF Uses
  <2>2. CASE hand[p] = Null BY <2>1, <2>2, <1>4, <1>5
  <2>3. CASE hand[p] # Null
    <3>1. next' = [next EXCEPT ![hand[p]] = Junk] BY <2>3, <1>4
    <3>2. next \in [Page -> Pointer] BY DEF TypeOK
    <3>3. IsChain(freelist, [next EXCEPT ![hand[p]] = Junk], s) BY ONLY <2>1, <3>2, <1>9, ChainOff
    <3>4. QED BY <3>1, <3>3, <1>5
  <2>4. QED BY <2>2, <2>3
<1>14. OneUse(s)'
  <2>1. /\ (ToSet(s) \cap (used \cup {kmem}) = {} /\ kmem \notin used)'
        /\ (IsInjective(runs) /\ ToSet(runs) \cap (used \cup {kmem}) = {})'
    BY <1>5, <1>7, <1>9 DEF Uses, OneUse
  <2>2. \A q \in Proc : hand'[q] # Null =>
          /\ hand'[q] \notin used' \cup ToSet(s)
          /\ hand'[q] = kmem => pc'[q] = "nmi"
          /\ \A r \in Proc : hand'[r] = hand'[q] => r = q
    BY <1>7, <1>11 DEF Uses, OneUse
  <2>3. QED BY <2>1, <2>2, <1>5 DEF OneUse
<1>15. InOrder(s)'
  <2>1. \A x \in ToSet(runs) : (\E q \in Proc : hand[q] = x) => \E q \in Proc : hand'[q] = x
    BY <1>7, <1>9
  <2>2. QED BY <2>1, <1>5 DEF Live, InOrder
<1>16. LockInv'
  <2>1. \A q \in Proc : lock'[kmem] # q BY <1>7
  <2>2. Static \in Home OBVIOUS
  <2>3. queue # <<>> => tracker \in Proc BY QueueFacts DEF Live
  <2>4. QED BY <1>5, <1>6, <1>7, <1>12, <2>1, <2>2, <2>3 DEF Live, LockInv
<1>17. \A q \in Proc : Taken(q)' <=> Taken(q) BY <1>5 DEF Taken
<1>18. \A q \in Proc : ~Pending(q)
  <2>1. \A q \in Proc : Pending(q) => q = p BY <1>2, Alone
  <2>2. ASSUME Pending(p) PROVE FALSE
    <3>1. runs # <<>> /\ runs[1] = hand[p] BY <2>2 DEF Pending
    <3>2. QED BY <3>1, <1>8, <1>9, SeqFacts
  <2>3. QED BY <2>1, <2>2
<1>19. HandInv'
  <2>1. \A q \in Proc : hand'[q] \in ToSet(runs) => q # p /\ pc[q] = "nmi" /\ Taken(q)
    <3>1. \A q \in Proc : hand'[q] \in ToSet(runs) => q # p BY <1>7, <1>8
    <3>2. \A q \in Proc : hand[q] \in ToSet(runs) /\ q # p => Taken(q) BY <1>2, Alone
    <3>3. \A q \in Proc : Taken(q) => pc[q] = "nmi" BY QueueFacts DEF Taken, Live, QueueInv
    <3>4. QED BY <3>1, <3>2, <3>3, <1>7
  <2>2. \A q \in Proc : pc'[q] # "registered" BY <1>12 DEF Critical
  <2>3. queue # <<>> => ~Pending(Victim)'
    <3>1. queue # <<>> => Victim \in Proc BY QueueFacts DEF Live
    <3>2. QED BY <3>1, <1>5, <1>6, <1>7 DEF Pending
  <2>4. \A q \in Proc : Taken(q) => q # p
    BY <1>1, QueueFacts DEF Taken, Live, QueueInv
  <2>5. QED
    BY <1>1, <1>3, <1>5, <1>6, <1>7, <1>17, <2>1, <2>2, <2>3, <2>4, QueueFacts
    DEF Live, HandInv
<1>20. QueueInv' BY <1>5, <1>11, QueueKept DEF Live
<1>21. HitInv' BY <1>2, <1>5, Alone, HitKept DEF Live
<1>22. \A x \in Page : Lost(s, x) => Lost(s, x)'
  <2>1. ASSUME NEW x \in Page, Lost(s, x) PROVE x # hand[p]
    BY <2>1, <1>3 DEF Lost
  <2>2. QED BY <2>1, <1>5, <1>6, <1>7 DEF Lost
<1>23. ErrorInv(s)' BY <1>5, <1>22, ErrorKept DEF Live
<1>24. TransInv(s)' BY <1>5, <1>18, <1>22, TransKept DEF Live
<1>25. Uses(s)' BY <1>13, <1>14 DEF Uses
<1>26. QED
  BY <1>10, <1>15, <1>16, <1>19, <1>20, <1>21, <1>23, <1>24, <1>25 DEF Live

\* A memory error: a process that idles meets one elsewhere, one that spins an
\* error in struct kmem that was reported, the holder of the lock one in struct
\* kmem or in a page.
LEMMA ErrorHits ==
    ASSUME ~HitWaiters, ~HitAgain,
           TypeOK, NEW s, Uses(s), Live(s), NEW p \in Proc, Hit(p)
    PROVE  TypeOK' /\ Uses(s)' /\ Live(s)'
<1> USE PageFacts
<1>1. PICK a \in Accessed(p) : /\ queue' = Append(queue, [pid |-> p, addr |-> a])
                               /\ bad' = bad \cup ({a} \ {Null})
  BY DEF Hit
<1>2. /\ nmis' = nmis + 1 /\ tracker' = (IF tracker = NoProc THEN p ELSE tracker)
      /\ pc' = [pc EXCEPT ![p] = "nmi"]
      /\ UNCHANGED <<freelist, next, runs, kmem, lock, log_run, trans, op, hand, addr, stage,
                     recovery, recovered, used, halted, ops>>
  BY DEF Hit, Goto, lists
<1> HIDE DEF Hit
<1>3. \/ pc[p] = "idle" /\ a = Null
      \/ pc[p] = "spin" /\ a = addr[p] /\ addr[p] \in bad
      \/ /\ kmem = Static /\ pc[p] \in Critical
         /\ \/ a = Static
            \/ pc[p] = "locked" /\ op[p] = "kalloc" /\ a = freelist /\ freelist \in Page
            \/ pc[p] = "registered" /\ a = hand[p]
  <2>1. CASE pc[p] = "idle" BY <1>1, <2>1 DEF Accessed
  <2>2. CASE pc[p] = "spin" BY <1>1, <2>2 DEF Accessed
  <2>3. CASE pc[p] \notin {"idle", "spin"}
    <3>1. pc[p] \in Critical /\ kmem = Static
      <4>1. ~(pc[p] \in Critical /\ kmem = Static) => Accessed(p) = {}
        BY <2>3 DEF Accessed, Critical
      <4>2. QED BY <4>1, <1>1
    <3> DEFINE S == {b \in Home : \/ b = kmem
                                  \/ b = freelist /\ pc[p] = "locked" /\ op[p] = "kalloc"
                                  \/ b = hand[p] /\ pc[p] = "registered"}
               T == IF HitWaiters \/ addr[p] \in bad THEN {addr[p]} ELSE {}
    <3>2. Accessed(p) = S
      <4>1. Accessed(p) = CASE pc[p] = "idle" -> {Null}
                            [] pc[p] = "spin" -> T
                            [] pc[p] \in {"locked", "popped", "registered", "linked"}
                                 /\ (kmem = Static \/ HitAgain) -> S
                            [] OTHER -> {}
        BY DEF Accessed
      <4> HIDE DEF S, T
      <4>2. QED BY <2>3, <3>1, <4>1 DEF Critical
    <3>3. a \in Home /\ freelist # Static BY <1>1, <3>2 DEF TypeOK
    <3>4. QED BY <1>1, <3>1, <3>2, <3>3
  <2>4. QED BY <2>1, <2>2, <2>3
<1>4. pc[p] = "spin" => a = Static /\ Static \in bad
  BY <1>3 DEF Live, LockInv, HitInv, Critical
<1>5. /\ pc[p] \in Critical => addr[p] = kmem /\ lock[kmem] = p
      /\ pc[p] # "nmi"
  BY <1>3 DEF Live, LockInv, Critical
<1>6. a \in Page =>
        /\ kmem = Static /\ lock[Static] = p
        /\ \/ a = freelist /\ hand[p] = Null
           \/ a = hand[p] /\ Pending(p)
  <2>1. ASSUME a \in Page
        PROVE  /\ kmem = Static /\ pc[p] \in Critical
               /\ \/ pc[p] = "locked" /\ op[p] = "kalloc" /\ a = freelist
                  \/ pc[p] = "registered" /\ a = hand[p]
    BY <1>3, <1>4, <2>1
  <2>2. pc[p] = "locked" /\ op[p] = "kalloc" => hand[p] = Null BY DEF Live, HandInv
  <2>3. pc[p] = "registered" => Pending(p) BY DEF Live, HandInv
  <2>4. QED BY <2>1, <2>2, <2>3, <1>5
<1>7. a \in Home \cup {Null}
  <2>1. hand[p] \in Page \cup {Null} BY DEF TypeOK
  <2>2. QED BY <2>1, <1>3, <1>4
<1> DEFINE e == [pid |-> p, addr |-> a]
           n == Len(queue) + 1
<1>8. e \in Entry /\ e.pid = p /\ e.addr = a BY <1>7 DEF Entry
<1> HIDE DEF e
<1>9. /\ Len(queue) \in Nat /\ Len(queue') = n /\ queue' \in Seq(Entry)
      /\ \A i \in 1..Len(queue) : queue'[i] = queue[i]
      /\ queue'[n] = e /\ queue' # <<>>
      /\ 1..n = 1..Len(queue) \cup {n} /\ n \notin 1..Len(queue) /\ n \in Nat
      /\ queue = <<>> => Victim' = p /\ n = 1 /\ Len(queue) = 0
      /\ queue # <<>> => Victim' = Victim /\ Broken' = Broken /\ n > 1
  <2>1. queue \in Seq(Entry) /\ queue' = Append(queue, e) BY <1>1 DEF TypeOK, e
  <2>2. /\ Len(queue) \in Nat /\ Len(queue') = n /\ queue' \in Seq(Entry)
        /\ \A i \in 1..Len(queue) : queue'[i] = queue[i]
        /\ queue'[n] = e /\ queue' # <<>>
        /\ Head(queue') = IF queue = <<>> THEN e ELSE Head(queue)
    BY <2>1, <1>8, AppendFacts
  <2>3. queue = <<>> => Len(queue) = 0 BY <2>1
  <2>4. queue # <<>> => Len(queue) > 0 BY <2>1
  <2>5. QED BY <2>2, <2>3, <2>4, <1>8 DEF Victim, Broken
<1> DEFINE m == n
<1>10. PICK k : k = n OBVIOUS
<1> HIDE DEF n, m
<1>11. \A i \in 1..Len(queue) : i \in Nat /\ i # k /\ i < k
  BY <1>9, <1>10 DEF n
<1>12. /\ \A q \in Proc : q # p => pc'[q] = pc[q]
       /\ pc'[p] = "nmi"
       /\ \A q \in Proc : pc'[q] \in Critical => pc[q] \in Critical /\ q # p
       /\ \A q \in Proc : pc[q] = "nmi" => pc'[q] = "nmi" /\ q # p
  BY <1>2, <1>5 DEF TypeOK, Critical
<1>13. /\ tracker = NoProc <=> queue = <<>>
       /\ queue = <<>> => tracker' = p /\ stage = "dispatch"
       /\ queue # <<>> => tracker' = tracker /\ tracker # p /\ tracker \in Proc
  BY <1>2, <1>5, QueueFacts DEF Live, QueueInv
<1>14. TypeOK'
  <2>1. pc' \in [Proc -> {"idle", "inside", "spin", "locked", "popped", "registered",
                         "linked", "nmi"}]
    BY <1>2 DEF TypeOK
  <2>2. bad' \subseteq Home BY <1>1, <1>7 DEF TypeOK
  <2>3. tracker' \in Proc \cup {NoProc} BY <1>2 DEF TypeOK
  <2>4. QED BY <2>1, <2>2, <2>3, <1>2, <1>9 DEF TypeOK
<1>15. Uses(s)' BY <1>2, <1>12 DEF Uses, OneUse
<1>16. InOrder(s)' BY <1>2 DEF Live, InOrder
<1>17. LockInv'
  <2>1. lock[kmem] = p => kmem = Static
    BY <1>3, <1>5 DEF Live, LockInv, Critical
  <2>2. \A q \in Proc : lock[kmem] = q => pc'[q] \in Critical \/ (pc'[q] = "nmi" /\ kmem = Static)
    BY <1>12, <2>1 DEF Live, LockInv
  <2>3. queue' # <<>> /\ Victim' # tracker' => lock[kmem] # tracker'
    BY <1>9, <1>13 DEF Live, LockInv
  <2>4. QED BY <1>2, <1>12, <2>2, <2>3 DEF Live, LockInv
<1>18. \A q \in Proc : /\ Pending(q)' <=> Pending(q)
                       /\ Taken(q)' <=> Taken(q)
  BY <1>2, <1>13 DEF Pending, Taken
<1>19. HandInv'
  <2>1. queue' # <<>> /\ Victim' # tracker' => hand[tracker'] = Null \/ stage = "taken"
    BY <1>9, <1>13 DEF Live, HandInv
  <2>2. stage # "dispatch" => ~Pending(Victim)'
    <3>1. stage # "dispatch" => queue # <<>> /\ Victim \in Proc BY <1>13, QueueFacts DEF Live
    <3>2. stage # "dispatch" => Victim' = Victim BY <3>1, <1>9
    <3>3. QED BY <1>2, <3>1, <3>2 DEF Live, HandInv, Pending
  <2>3. \A q \in Proc : hand[q] \in ToSet(runs) => pc'[q] \in {"registered", "nmi"}
    BY <1>12 DEF Live, HandInv
  <2>4. QED BY <1>2, <1>12, <1>18, <2>1, <2>2, <2>3 DEF Live, HandInv
<1>20. QueueInv'
  <2>1. \A i \in 1..Len(queue) : /\ queue[i].pid \in Proc /\ pc[queue[i].pid] = "nmi"
                                 /\ queue[i].pid = tracker => i = 1
    BY QueueFacts DEF Live, QueueInv
  <2>2. \A i \in 1..k : i \in 1..Len(queue) \/ i = k BY <1>9, <1>10
  <2>3. Len(queue') = k /\ queue'[k].pid = p BY <1>8, <1>9, <1>10
  <2>4. \A i \in 1..k : pc'[queue'[i].pid] = "nmi" /\ (queue'[i].pid = tracker' => i = 1)
    <3> TAKE i \in 1..k
    <3>1. CASE i \in 1..Len(queue)
      <4>1. queue # <<>> BY <3>1, <1>9
      <4>2. QED BY <3>1, <4>1, <2>1, <1>9, <1>12, <1>13
    <3>2. CASE i = k BY <3>2, <2>3, <1>9, <1>10, <1>12, <1>13
    <3>3. QED BY <3>1, <3>2, <2>2
  <2>5. \A i, j \in 1..k : queue'[i].pid = queue'[j].pid => i = j
    <3> TAKE i, j \in 1..k
    <3>1. CASE i \in 1..Len(queue) /\ j \in 1..Len(queue)
      BY <3>1, <1>9 DEF Live, QueueInv
    <3>2. CASE i = k /\ j \in 1..Len(queue) BY <3>2, <2>1, <2>3, <1>9, <1>12
    <3>3. CASE j = k /\ i \in 1..Len(queue) BY <3>3, <2>1, <2>3, <1>9, <1>12
    <3>4. QED BY <3>1, <3>2, <3>3, <2>2
  <2>6. pc'[tracker'] = "nmi" /\ tracker' # NoProc BY <1>12, <1>13, QueueFacts DEF Live
  <2>7. QED BY <1>9, <2>3, <2>4, <2>5, <2>6 DEF QueueInv
<1>21. Waiting' = Waiting \cup {k} /\ k \in Nat /\ Waiting \subseteq 1..Len(queue)
  <2>1. Waiting' = {i \in 1..Len(queue') : i > 1 \/ stage' = "dispatch"} BY DEF Waiting
  <2>2. 1..Len(queue') = 1..Len(queue) \cup {k} BY <1>9, <1>10
  <2>3. k > 1 \/ stage' = "dispatch" BY <1>2, <1>9, <1>10, <1>13
  <2>4. QED BY <2>1, <2>2, <2>3, <1>2, <1>9, <1>10 DEF Waiting
<1>22. \A i \in Waiting : FirstHit(i) => FirstHit(i)'
  <2>1. \A i \in Waiting : queue[i].pid \in Proc /\ queue'[i] = queue[i]
    BY <1>9, <1>21, QueueFacts DEF Live
  <2>2. QED BY <1>2, <1>18, <2>1 DEF FirstHit
<1>23. queue'[k].pid = p /\ queue'[k].addr = a BY <1>8, <1>9, <1>10
<1>24. HitInv'
  <2>1. \A i \in Waiting' : queue'[i].addr \in Page => FirstHit(i)'
    <3> TAKE i \in Waiting'
    <3>1. CASE i \in Waiting
      BY <3>1, <1>9, <1>21, <1>22 DEF Live, HitInv
    <3>2. CASE i = k
      <4>1. a \in Page => FirstHit(k)' BY <1>2, <1>6, <1>18, <1>23 DEF FirstHit
      <4>2. QED BY <3>2, <4>1, <1>23
    <3>3. QED BY <3>1, <3>2, <1>21
  <2>2. ASSUME kmem = Static, Static \in bad'
        PROVE  \E i \in Waiting' : /\ queue'[i].addr = Static /\ FirstHit(i)'
                                   /\ \A j \in 1..(i - 1) : queue'[j].addr # Static
    <3>1. CASE Static \in bad
      <4>1. PICK i \in Waiting : /\ queue[i].addr = Static /\ FirstHit(i)
                                 /\ \A j \in 1..(i - 1) : queue[j].addr # Static
        BY <2>2, <3>1 DEF Live, HitInv
      <4>2. \A j \in 1..(i - 1) : j \in 1..Len(queue)
        <5>1. i \in 1..Len(queue) BY <1>21
        <5>2. QED BY <5>1, <1>9
      <4>3. \A j \in 1..(i - 1) : queue'[j].addr # Static BY <4>1, <4>2, <1>9
      <4>4. i \in Waiting' /\ queue'[i].addr = Static BY <4>1, <1>9, <1>21
      <4>5. QED BY <4>1, <4>3, <4>4, <1>22
    <3>2. CASE Static \notin bad
      <4>1. a = Static BY <2>2, <3>2, <1>1
      <4>2. pc[p] \in Critical BY <4>1, <3>2, <1>3, <1>4
      <4>3. FirstHit(k)' BY <1>2, <1>5, <1>23, <4>1, <4>2, <2>2 DEF FirstHit
      <4>4. \A j \in 1..(k - 1) : j \in 1..Len(queue) BY <1>9, <1>10 DEF n
      <4>5. \A j \in 1..Len(queue) : queue[j].addr # Static
        BY <3>2 DEF Live, HitInv
      <4>6. \A j \in 1..(k - 1) : queue'[j].addr # Static BY <4>4, <4>5, <1>9
      <4>7. QED BY <4>1, <4>3, <4>6, <1>21, <1>23
    <3>3. QED BY <3>1, <3>2
  <2>3. \A i \in 1..Len(queue') : queue'[i].addr # Null => queue'[i].addr \in bad'
    <3> TAKE i \in 1..Len(queue')
    <3>1. CASE i \in 1..Len(queue) BY <3>1, <1>1, <1>9 DEF Live, HitInv
    <3>2. CASE i = k BY <3>2, <1>1, <1>23
    <3>3. QED BY <3>1, <3>2, <1>9, <1>10
  <2>4. kmem # Static => kmem \notin bad'
    <3>1. kmem # Static => a \in {Null, Static} BY <1>3, <1>4
    <3>2. kmem \in Home BY DEF TypeOK
    <3>3. QED BY <3>1, <3>2, <1>1 DEF Live, HitInv
  <2>5. QED BY <2>1, <2>2, <2>3, <2>4, <1>2 DEF HitInv
<1>25. \A x \in Page : Lost(s, x) => Lost(s, x)' BY <1>2, <1>9 DEF Lost
<1>26. ErrorInv(s)'
  <2>1. ASSUME kmem = Static, NEW x \in bad' \cap Page
        PROVE  (\E i \in Waiting' : queue'[i].addr = x) \/ Lost(s, x)'
    <3>1. CASE x = a BY <3>1, <1>21, <1>23
    <3>2. CASE x # a
      <4>1. x \in bad BY <3>2, <1>1
      <4>2. CASE \E i \in Waiting : queue[i].addr = x BY <4>2, <1>9, <1>21
      <4>3. QED BY <2>1, <4>1, <4>2, <1>25 DEF Live, ErrorInv
    <3>3. QED BY <3>1, <3>2
  <2>2. ASSUME kmem = Static, stage # "dispatch", Broken' \in Page PROVE Lost(s, Broken)'
    <3>1. queue # <<>> /\ Broken' = Broken BY <2>2, <1>9, <1>13
    <3>2. Lost(s, Broken) BY <2>2, <3>1 DEF Live, ErrorInv
    <3>3. PICK b \in Page : b = Broken BY <2>2, <3>1
    <3>4. Lost(s, b)' BY <3>2, <3>3, <1>25
    <3>5. QED BY <3>1, <3>3, <3>4 DEF Lost
  <2>3. \A x \in recovered \cap Page : kmem = Static => Lost(s, x)'
    BY <1>25 DEF Live, ErrorInv
  <2>4. QED BY <2>1, <2>2, <2>3, <1>2 DEF Live, ErrorInv
<1>27. TransInv(s)' BY <1>2, <1>18, <1>25, TransKept DEF Live
<1>28. QED
  BY <1>14, <1>15, <1>16, <1>17, <1>19, <1>20, <1>24, <1>26, <1>27 DEF Live

-----------------------------------------------------------------------------
(* The recovery handlers keep the invariant. *)

\* The recovery process runs them for the head of the queue.
LEMMA Handler ==
    ASSUME TypeOK, NEW s, Live(s), NEW st, Handling(st)
    PROVE  /\ stage = st /\ queue # <<>> /\ ~halted
           /\ Victim \in Proc /\ pc[Victim] = "nmi" /\ tracker \in Proc /\ pc[tracker] = "nmi"
           /\ Victim = queue[1].pid /\ Broken = queue[1].addr /\ 1 \in 1..Len(queue)
           /\ Broken \in Home \cup {Null}
           /\ \A q \in Proc : pc[q] \in Critical => q # tracker /\ q # Victim
BY QueueFacts DEF Handling, Live, Critical

\* The first handler for an entry begins when nothing waits for it.
LEMMA CalmBegins ==
    ASSUME TypeOK, NEW s, Live(s), kmem # Static \/ lock[kmem] = NoProc,
           UNCHANGED <<queue, bad, kmem>>, stage = "dispatch", stage' # "dispatch"
    PROVE  HitInv'
<1>1. /\ \A i \in Waiting : queue[i].addr \notin Page
      /\ kmem = Static => Static \notin bad
  BY Calm DEF Live
<1>2. Waiting' \subseteq Waiting BY DEF Waiting
<1>3. QED BY <1>1, <1>2 DEF Live, HitInv

\* The page of an interrupted kfree comes back.
LEMMA RollbackInv ==
    ASSUME TypeOK, NEW s, Uses(s), Live(s), Rollback
    PROVE  TypeOK' /\ \E t : Uses(t)' /\ (~halted' => Live(t)')
<1> USE PageFacts
<1>1. Handling("rollback") /\ lock[kmem] = NoProc BY DEF Rollback
<1>2. UNCHANGED <<kmem, lock, log_run, trans, pc, op, hand, addr, queue, tracker, recovery,
                  recovered, used, bad, nmis, ops>>
  BY DEF Rollback, procs
<1>3. /\ stage = "rollback" /\ queue # <<>> /\ kmem # Static /\ kmem \in Home
      /\ Victim \in Proc /\ tracker \in Proc
  BY <1>1, Handler DEF Live, ErrorInv, TypeOK
<1>4. UNCHANGED <<Victim, Broken>> BY <1>2 DEF Victim, Broken
<1>5. CASE log_run = Null
  <2>1. halted' = TRUE /\ UNCHANGED <<freelist, next, runs, stage>>
    BY <1>5 DEF Rollback, lists
  <2>2. TypeOK' BY <2>1, <1>2 DEF TypeOK
  <2>3. Uses(s)' BY <2>1, <1>2 DEF Uses, OneUse
  <2>4. QED BY <2>1, <2>2, <2>3
<1>6. CASE log_run # Null
  <2>1. /\ next' = [next EXCEPT ![log_run] = freelist] /\ freelist' = log_run
        /\ runs' = Registered(runs, log_run) /\ stage' = "endtrans" /\ halted' = halted
    BY <1>6 DEF Rollback
  <2> HIDE DEF Rollback
  <2>2. \A q \in Proc : ~Pending(q) BY <1>1 DEF Pending
  <2>3. Lost(s, log_run) BY <1>3, <1>6, <2>2 DEF Live, TransInv
  <2>4. PICK h \in Page : h = log_run BY <1>6 DEF TypeOK
  <2>5. /\ h \notin used /\ h \notin ToSet(s) /\ h \notin ToSet(runs) /\ h # kmem
        /\ \A q \in Proc : hand[q] # h
    BY <1>3, <2>3, <2>4 DEF Lost
  <2>6. /\ s \in Seq(Page) /\ IsInjective(s) /\ runs \in Seq(Page) /\ IsInjective(runs)
        /\ IsChain(freelist, next, s) /\ next \in [Page -> Pointer] /\ Sorted(runs, s)
    BY DEF Uses, IsChain, TypeOK, OneUse, Live, InOrder
  <2>7. runs' = <<h>> \o runs /\ freelist' = h /\ next' = [next EXCEPT ![h] = freelist]
    BY <2>1, <2>4, <2>5 DEF Registered
  <2>8. /\ runs' \in Seq(Page) /\ IsInjective(runs') /\ ToSet(runs') = {h} \cup ToSet(runs)
        /\ runs' # <<>> /\ runs'[1] = h
    <3>1. /\ <<h>> \o runs \in Seq(Page) /\ IsInjective(<<h>> \o runs)
          /\ ToSet(<<h>> \o runs) = {h} \cup ToSet(runs)
          /\ <<h>> \o runs # <<>> /\ (<<h>> \o runs)[1] = h
      BY <2>5, <2>6, ConsFacts
    <3>2. QED BY <3>1, <2>7
  <2> DEFINE t == <<h>> \o s
  <2>9. t \in Seq(Page) /\ ToSet(t) = {h} \cup ToSet(s) BY <2>6, ConsFacts
  <2>10. IsChain(freelist', next', t)
    <3>1. IsChain(h, [next EXCEPT ![h] = freelist], t) BY <2>5, <2>6, ChainCons
    <3>2. QED BY <3>1, <2>7
  <2>11. Sorted(runs', t)
    <3>1. Sorted(<<h>> \o runs, s) BY <2>5, <2>6, SortedRegister
    <3>2. Sorted(runs', s) BY <3>1, <2>7
    <3>3. QED BY <3>2, <2>5, <2>6, <2>8, SortedLink
  <2> HIDE DEF t
  <2>12. TypeOK'
    <3>1. next' \in [Page -> Pointer] BY <2>1 DEF TypeOK
    <3>2. freelist' \in Pointer BY <2>7
    <3>3. QED BY <3>1, <3>2, <2>1, <2>8, <1>2 DEF TypeOK
  <2>13. Uses(t)'
    <3>1. OneUse(t)' BY <1>2, <2>5, <2>8, <2>9 DEF Uses, OneUse
    <3>2. QED BY <3>1, <2>10 DEF Uses
  <2>14. InOrder(t)'
    <3>1. \A x \in ToSet(t) \ ToSet(runs') : x = LastPage BY <2>8, <2>9 DEF Live, InOrder
    <3>2. QED BY <3>1, <2>11, <1>2, <1>3 DEF InOrder
  <2>15. LockInv' BY <1>2, <1>4 DEF Live, LockInv
  <2>16. \A q \in Proc : hand[q] \notin ToSet(runs')
    <3>1. \A q \in Proc : ~Taken(q) BY <1>3 DEF Taken
    <3>2. \A q \in Proc : hand[q] \notin ToSet(runs) BY <2>2, <3>1 DEF Live, HandInv
    <3>3. QED BY <3>2, <2>5, <2>8
  <2>17. \A q \in Proc : ~Taken(q)' /\ ~Pending(q)'
    BY <1>1, <1>2, <2>1 DEF Taken, Pending
  <2>18. HandInv'
    <3>1. \A q \in Proc : pc[q] # "registered" BY <2>2 DEF Live, HandInv
    <3>2. ~Pending(Victim)' BY <1>1, <1>2, <1>3, <1>4 DEF Pending
    <3>3. QED BY <1>2, <1>3, <1>4, <2>1, <2>16, <2>17, <3>1, <3>2 DEF Live, HandInv
  <2>19. QueueInv' BY <1>2, <1>3, QueueKept DEF Live
  <2>20. HitInv'
    <3>1. \A i \in Waiting : ~FirstHit(i) BY <1>3, Calm DEF Live
    <3>2. QED BY <3>1, <1>2, <1>3, <2>1, HitKept DEF Live
  <2>21. ErrorInv(t)' BY <1>2, <1>3, <2>1 DEF ErrorInv
  <2>22. TransInv(t)' BY <1>2, <1>3, <2>1 DEF TransInv
  <2>23. Live(t)' BY <2>14, <2>15, <2>18, <2>19, <2>20, <2>21, <2>22 DEF Live
  <2>24. QED BY <2>12, <2>13, <2>23
<1>7. QED BY <1>5, <1>6

\* The transaction of the recovery process ends.
LEMMA EndTransInv ==
    ASSUME TypeOK, NEW s, Uses(s), Live(s), EndTrans
    PROVE  TypeOK' /\ Uses(s)' /\ (~halted' => Live(s)')
<1> USE PageFacts
<1>1. Handling("endtrans") BY DEF EndTrans
<1>2. UNCHANGED <<freelist, next, runs, kmem, lock, pc, op, hand, addr, queue, tracker, recovery,
                  recovered, used, bad, nmis, ops>>
  BY DEF EndTrans, procs, lists
<1>3. /\ stage = "endtrans" /\ queue # <<>> /\ Victim \in Proc /\ tracker \in Proc
      /\ pc[tracker] = "nmi"
  BY <1>1, Handler
<1>4. UNCHANGED <<Victim, Broken>> BY <1>2 DEF Victim, Broken
<1>5. Uses(s)' BY <1>2 DEF Uses, OneUse
<1>6. CASE trans[tracker] < 1
  <2>1. halted' = TRUE /\ UNCHANGED <<trans, log_run, stage>> BY <1>6 DEF EndTrans
  <2>2. TypeOK' BY <2>1, <1>2 DEF TypeOK
  <2>3. QED BY <2>1, <2>2, <1>5
<1>7. CASE ~(trans[tracker] < 1)
  <2>1. /\ trans' = [trans EXCEPT ![tracker] = @ - 1] /\ log_run' = Null /\ stage' = "leave"
        /\ halted' = halted
    BY <1>7 DEF EndTrans
  <2> HIDE DEF EndTrans
  <2>2. /\ trans' \in [Proc -> Nat]
        /\ \A q \in Proc : q # tracker => trans'[q] = trans[q]
    <3>1. PICK n \in Nat : n = trans[tracker] BY <1>3 DEF TypeOK
    <3>2. trans' = [trans EXCEPT ![tracker] = n - 1] BY <2>1, <3>1
    <3>3. n - 1 \in Nat BY <1>7, <3>1
    <3>4. trans \in [Proc -> Nat] BY DEF TypeOK
    <3>5. QED BY <3>2, <3>3, <3>4
  <2>3. TypeOK' BY <2>1, <2>2, <1>2 DEF TypeOK
  <2>4. InOrder(s)' BY <1>2 DEF Live, InOrder
  <2>5. LockInv' BY <1>2, <1>4 DEF Live, LockInv
  <2>6. \A q \in Proc : Pending(q)' <=> Pending(q) BY <1>2 DEF Pending
  <2>7. \A q \in Proc : ~Taken(q) /\ ~Taken(q)' BY <1>3, <2>1 DEF Taken
  <2>8. ~Pending(Victim)'
    <3>1. ~Pending(Victim) BY <1>3 DEF Live, HandInv
    <3>2. QED BY <3>1, <1>2, <1>4 DEF Pending
  <2>9. HandInv' BY <1>2, <1>3, <1>4, <2>1, <2>2, <2>6, <2>7, <2>8 DEF Live, HandInv
  <2>10. QueueInv' BY <1>2, <1>3, QueueKept DEF Live
  <2>11. HitInv'
    <3>1. \A i \in Waiting : queue[i].pid \in Proc BY QueueFacts DEF Waiting, Live
    <3>2. \A i \in Waiting : FirstHit(i) => FirstHit(i)' BY <3>1, <1>2, <2>6 DEF FirstHit
    <3>3. QED BY <3>2, <1>2, <1>3, <2>1, HitKept DEF Live
  <2>12. \A x \in Page : Lost(s, x) => Lost(s, x)' BY <1>2, <1>3, <1>4 DEF Lost
  <2>13. ErrorInv(s)' BY <1>2, <1>3, <2>1, <2>12, ErrorKept DEF Live
  <2>14. TransInv(s)' BY <2>1 DEF TransInv
  <2>15. QED
    BY <2>3, <2>4, <2>5, <2>9, <2>10, <2>11, <2>13, <2>14, <1>5 DEF Live
<1>8. QED BY <1>6, <1>7

\* my_kalloc takes the first free page out of the free list.
LEMMA MyPopInv ==
    ASSUME TypeOK, NEW s, Uses(s), Live(s), MyPop
    PROVE  TypeOK' /\ \E t : Uses(t)' /\ (~halted' => Live(t)')
<1> USE PageFacts
<1>1. Handling("dispatch") /\ lock[kmem] = NoProc /\ Broken = Null BY DEF MyPop
<1>2. UNCHANGED <<next, runs, kmem, lock, log_run, trans, pc, op, addr, queue, tracker,
                  recovery, recovered, used, bad, nmis, ops>>
  BY DEF MyPop
<1>3. /\ stage = "dispatch" /\ queue # <<>> /\ kmem \in Home
      /\ Victim \in Proc /\ tracker \in Proc /\ pc[tracker] = "nmi"
  BY <1>1, Handler DEF TypeOK
<1>4. UNCHANGED <<Victim, Broken>> BY <1>2 DEF Victim, Broken
<1>5. CASE freelist \in {Null, Junk}
  <2>1. halted' = TRUE /\ UNCHANGED <<freelist, hand, stage>> BY <1>5 DEF MyPop
  <2>2. TypeOK' BY <2>1, <1>2 DEF TypeOK
  <2>3. Uses(s)' BY <2>1, <1>2 DEF Uses, OneUse
  <2>4. QED BY <2>1, <2>2, <2>3
<1>6. CASE freelist \notin {Null, Junk}
  <2>1. /\ freelist' = next[freelist] /\ hand' = [hand EXCEPT ![tracker] = freelist]
        /\ stage' = "taken" /\ halted' = halted
    BY <1>6 DEF MyPop
  <2> HIDE DEF MyPop
  <2>2. freelist \in Page BY <1>6 DEF TypeOK
  <2> DEFINE t == Tail(s)
  <2>3. /\ s \in Seq(Page) /\ IsInjective(s) /\ s # <<>> /\ s[1] = freelist
        /\ IsChain(next[freelist], next, t)
    <3>1. s \in Seq(Page) /\ IsInjective(s) BY DEF Uses, IsChain
    <3>2. IsChain(freelist, next, s) BY DEF Uses
    <3>3. s # <<>> BY <2>2, <3>2 DEF IsChain
    <3>4. s[1] = freelist BY <3>2, <3>3 DEF IsChain
    <3>5. QED BY <3>1, <3>2, <3>3, <3>4, ChainTail
  <2>4. /\ t \in Seq(Page) /\ ToSet(t) = ToSet(s) \ {freelist} /\ freelist \in ToSet(s)
    BY <2>3, TailFacts, SeqFacts
  <2>5. Sorted(runs, t)
    BY <2>3, SortedTail DEF TypeOK, Live, InOrder
  <2> HIDE DEF t
  <2>6. /\ \A q \in Proc : q # tracker => hand'[q] = hand[q]
        /\ hand'[tracker] = freelist
    BY <1>3, <2>1 DEF TypeOK
  <2>7. TypeOK'
    <3>1. hand' \in [Proc -> Page \cup {Null}] BY <2>1, <2>2 DEF TypeOK
    <3>2. freelist' \in Pointer BY <2>1, <2>2 DEF TypeOK
    <3>3. QED BY <3>1, <3>2, <2>1, <1>2 DEF TypeOK
  <2>8. /\ freelist \notin used /\ freelist # kmem
        /\ \A q \in Proc : hand[q] # freelist
    BY <2>2, <2>4 DEF Uses, OneUse
  <2>9. Uses(t)'
    <3>1. OneUse(t)' BY <1>2, <1>3, <2>4, <2>6, <2>8 DEF Uses, OneUse
    <3>2. QED BY <3>1, <1>2, <2>1, <2>3 DEF Uses
  <2>10. \A q \in Proc : hand[q] \notin ToSet(runs) /\ ~Pending(q) /\ ~Pending(q)'
    BY <1>1, <1>2, <1>3 DEF Live, HandInv, Pending, Taken
  <2>11. InOrder(t)'
    <3>1. freelist \in ToSet(runs) => hand'[tracker] = freelist BY <2>6
    <3>2. \A x \in ToSet(t) \ ToSet(runs) : x = LastPage BY <2>4 DEF Live, InOrder
    <3>3. kmem = Static => \A x \in ToSet(runs) : x \in ToSet(t) \/ \E q \in Proc : hand'[q] = x
      BY <1>3, <2>4, <2>6, <2>10 DEF Live, InOrder
    <3>4. QED BY <1>2, <2>5, <3>2, <3>3 DEF InOrder
  <2>12. LockInv' BY <1>2, <1>4 DEF Live, LockInv
  <2>13. \A q \in Proc : Taken(q)' <=> q = tracker BY <1>2, <2>1 DEF Taken
  <2>14. HandInv'
    <3>1. \A q \in Proc : pc[q] # "registered" BY <2>10 DEF Live, HandInv
    <3>2. ~Pending(Victim)' BY <1>1, <1>2, <1>3, <1>4 DEF Pending
    <3>3. \A q \in Proc : hand'[q] \in ToSet(runs) => q = tracker BY <2>6, <2>10
    <3>4. freelist # Null /\ freelist # kmem BY <1>6, <2>8
    <3>5. QED
      BY <1>2, <1>3, <1>4, <2>1, <2>6, <2>10, <2>13, <3>1, <3>2, <3>3, <3>4 DEF Live, HandInv
  <2>15. QueueInv' BY <1>2, <1>3, QueueKept DEF Live
  <2>16. HitInv' BY <1>1, <1>2, <1>3, <2>1, CalmBegins
  <2>17. \A x \in Page : Lost(s, x) => Lost(t, x)'
    BY <1>2, <1>3, <1>4, <2>4, <2>6 DEF Lost
  <2>18. ErrorInv(t)'
    <3>1. kmem = Static => Static \notin bad /\ \A x \in bad \cap Page : Lost(s, x)
      BY <1>1, Calm DEF Live
    <3>2. kmem = Static => \A x \in recovered \cap Page : Lost(s, x)
      BY DEF Live, ErrorInv
    <3>3. kmem = Static => Static \notin recovered BY DEF Live, ErrorInv
    <3>4. Broken' \notin Page BY <1>1, <1>4
    <3>5. QED BY <1>2, <2>1, <2>17, <3>1, <3>2, <3>3, <3>4 DEF ErrorInv
  <2>19. TransInv(t)' BY <1>2, <2>1, <2>10, <2>17, TransKept DEF Live
  <2>20. Live(t)' BY <2>11, <2>12, <2>14, <2>15, <2>16, <2>18, <2>19 DEF Live
  <2>21. QED BY <2>7, <2>9, <2>20
<1>7. QED BY <1>5, <1>6

\* my_kalloc takes the page out of the M-List too; the handler has it.
LEMMA MyDeleteInv ==
    ASSUME TypeOK, NEW s, Uses(s), Live(s), MyDelete
    PROVE  TypeOK' /\ Uses(s)' /\ Live(s)'
<1> USE PageFacts
<1>1. Handling("taken") BY DEF MyDelete
<1>2. UNCHANGED <<freelist, kmem, lock, log_run, trans, pc, op, addr, queue,
                  tracker, recovery, recovered, bad, halted, nmis, ops>>
  BY DEF MyDelete
<1>3. /\ stage = "taken" /\ queue # <<>> /\ kmem \in Home
      /\ Victim \in Proc /\ tracker \in Proc /\ pc[tracker] = "nmi" /\ Victim = queue[1].pid
  BY <1>1, Handler DEF TypeOK
<1>4. UNCHANGED <<Victim, Broken>> BY <1>2 DEF Victim, Broken
<1>5. PICK h : h = hand[tracker] OBVIOUS
<1>6. /\ runs' = Deleted(runs, h) /\ next' = [next EXCEPT ![h] = Junk]
      /\ used' = used \cup {h} /\ hand' = [hand EXCEPT ![tracker] = Null] /\ stage' = "leave"
  BY <1>5 DEF MyDelete
<1> HIDE DEF MyDelete
<1>7. Taken(tracker) BY <1>3 DEF Taken
<1>8. h # Null /\ h # kmem /\ h \in Page BY <1>3, <1>5, <1>7 DEF Live, HandInv, TypeOK
<1>9. h \notin ToSet(s) /\ \A q \in Proc : hand[q] = h => q = tracker
  BY <1>3, <1>5, <1>8 DEF Uses, OneUse
<1>10. /\ s \in Seq(Page) /\ IsInjective(s) /\ runs \in Seq(Page) /\ IsInjective(runs)
       /\ IsChain(freelist, next, s) /\ next \in [Page -> Pointer] /\ Sorted(runs, s)
  BY DEF Uses, IsChain, TypeOK, OneUse, Live, InOrder
<1>11. /\ runs' \in Seq(Page) /\ IsInjective(runs') /\ ToSet(runs') = ToSet(runs) \ {h}
       /\ runs # <<>> /\ runs[1] # h => runs' # <<>> /\ runs'[1] = runs[1]
  BY <1>6, <1>10, DeletedFacts
<1>12. Sorted(runs', s)
  <2>1. Sorted(Deleted(runs, h), s) BY <1>9, <1>10, SortedDeleted
  <2>2. QED BY <2>1, <1>6
<1>13. IsChain(freelist', next', s)
  <2>1. IsChain(freelist, [next EXCEPT ![h] = Junk], s) BY <1>9, <1>10, ChainOff
  <2>2. QED BY <2>1, <1>2, <1>6
<1>14. /\ \A q \in Proc : q # tracker => hand'[q] = hand[q]
       /\ hand'[tracker] = Null
  BY <1>3, <1>6 DEF TypeOK
<1>15. TypeOK'
  <2>1. next' \in [Page -> Pointer] BY <1>6 DEF TypeOK
  <2>2. hand' \in [Proc -> Page \cup {Null}] BY <1>6 DEF TypeOK
  <2>3. used' \subseteq Page BY <1>6, <1>8 DEF TypeOK
  <2>4. QED BY <2>1, <2>2, <2>3, <1>2, <1>6, <1>11 DEF TypeOK
<1>16. Uses(s)'
  <2>1. OneUse(s)' BY <1>2, <1>6, <1>8, <1>9, <1>11, <1>14 DEF Uses, OneUse
  <2>2. QED BY <2>1, <1>13 DEF Uses
<1>17. InOrder(s)'
  <2>1. \A x \in ToSet(s) \ ToSet(runs') : x = LastPage BY <1>9, <1>11 DEF Live, InOrder
  <2>2. ASSUME kmem = Static, NEW x \in ToSet(runs')
        PROVE  x \in ToSet(s) \/ \E q \in Proc : hand'[q] = x
    <3>1. x \in ToSet(runs) /\ x # h BY <1>11
    <3>2. x \in ToSet(s) \/ \E q \in Proc : hand[q] = x BY <2>2, <3>1 DEF Live, InOrder
    <3>3. \A q \in Proc : hand[q] = x => hand'[q] = x BY <3>1, <1>5, <1>14
    <3>4. QED BY <3>2, <3>3
  <2>3. QED BY <2>1, <2>2, <1>2, <1>12 DEF InOrder
<1>18. LockInv' BY <1>2, <1>4 DEF Live, LockInv
<1>19. \A q \in Proc : ~Taken(q)' BY <1>6 DEF Taken
<1>20. \A q \in Proc : Pending(q) /\ q # tracker => Pending(q)'
  <2>1. \A q \in Proc : hand[q] = h => q = tracker BY <1>9
  <2>2. QED BY <2>1, <1>2, <1>11, <1>14 DEF Pending
<1>21. \A q \in Proc : hand'[q] \in ToSet(runs') => q # tracker /\ hand[q] \in ToSet(runs) /\ Pending(q)
  <2>1. Null \notin ToSet(runs') BY <1>11, SeqFacts
  <2>2. \A q \in Proc : Taken(q) => q = tracker BY DEF Taken
  <2>3. QED BY <2>1, <2>2, <1>11, <1>14 DEF Live, HandInv
<1>22. ~Pending(Victim)'
  <2>1. ASSUME Pending(Victim)' PROVE FALSE
    <3>1. hand'[Victim] \in ToSet(runs') BY <2>1, <1>4, <1>11, SeqFacts DEF Pending
    <3>2. Pending(Victim) BY <3>1, <1>3, <1>21
    <3>3. QED BY <3>2, <1>3 DEF Live, HandInv
  <2>2. QED BY <2>1
<1>23. HandInv'
  <2>1. \A q \in Proc : pc[q] = "registered" => q # tracker BY <1>3
  <2>2. QED
    BY <1>2, <1>3, <1>4, <1>6, <1>14, <1>19, <1>20, <1>21, <1>22, <2>1 DEF Live, HandInv
<1>24. QueueInv' BY <1>2, <1>3, QueueKept DEF Live
<1>25. HitInv'
  <2>1. \A i \in Waiting : queue[i].pid \in Proc /\ queue[i].pid # tracker
    BY <1>3, QueueFacts DEF Waiting, Live, QueueInv
  <2>2. \A i \in Waiting : FirstHit(i) => FirstHit(i)'
    BY <2>1, <1>2, <1>14, <1>20 DEF FirstHit
  <2>3. QED BY <2>2, <1>2, <1>3, <1>6, HitKept DEF Live
<1>26. \A x \in Page : Lost(s, x) => Lost(s, x)'
  <2>1. \A x \in Page : Lost(s, x) => x # h BY <1>3, <1>5 DEF Lost
  <2>2. QED BY <2>1, <1>2, <1>3, <1>4, <1>6, <1>11, <1>14 DEF Lost
<1>27. ErrorInv(s)' BY <1>2, <1>3, <1>6, <1>26, ErrorKept DEF Live
<1>28. TransInv(s)'
  <2>1. \A q \in Proc : Pending(q) /\ hand[q] = log_run =>
          (Pending(q)' /\ hand'[q] = log_run) \/ q = tracker
    BY <1>14, <1>20
  <2>2. ~Pending(tracker)
    <3>1. ASSUME Pending(tracker) PROVE FALSE
      <4>1. Victim = tracker BY <3>1, <1>3 DEF Live, LockInv, Pending
      <4>2. QED BY <3>1, <4>1, <1>3 DEF Live, HandInv
    <3>2. QED BY <3>1
  <2>3. \A q \in Proc : Pending(q) => Pending(q)' /\ hand'[q] = hand[q]
    BY <2>2, <1>14, <1>20
  <2>4. QED BY <2>3, <1>2, <1>6, <1>26, TransKept DEF Live
<1>29. QED
  BY <1>15, <1>16, <1>17, <1>18, <1>23, <1>24, <1>25, <1>27, <1>28 DEF Live

\* Nothing is known of an address: only struct kmem that was replaced comes to
\* that.
LEMMA NotFoundInv ==
    ASSUME TypeOK, NEW s, Uses(s), Live(s), NotFound
    PROVE  TypeOK' /\ Uses(s)' /\ (~halted' => Live(s)')
<1> USE PageFacts
<1>1. Handling("dispatch") /\ Broken \notin ToSet(runs) \cup {kmem, Null} BY DEF NotFound
<1>2. UNCHANGED <<freelist, next, runs, kmem, lock, log_run, trans, pc, op, hand, addr, queue,
                  tracker, recovery, recovered, used, bad, nmis, ops>>
  BY DEF NotFound, procs, lists
<1>3. /\ stage = "dispatch" /\ queue # <<>> /\ Victim \in Proc /\ tracker \in Proc
      /\ pc[Victim] = "nmi" /\ Victim = queue[1].pid /\ Broken = queue[1].addr
      /\ 1 \in 1..Len(queue) /\ Broken \in Home
  BY <1>1, Handler
<1>4. UNCHANGED <<Victim, Broken>> BY <1>2 DEF Victim, Broken
<1>5. Uses(s)' BY <1>2 DEF Uses, OneUse
<1>6. CASE Broken \notin recovered
  <2>1. halted' = TRUE /\ UNCHANGED stage BY <1>6 DEF NotFound
  <2>2. TypeOK' BY <2>1, <1>2 DEF TypeOK
  <2>3. QED BY <2>1, <2>2, <1>5
<1>7. CASE Broken \in recovered
  <2>1. stage' = "leave" /\ halted' = halted BY <1>7 DEF NotFound
  <2> HIDE DEF NotFound
  <2>2. TypeOK' BY <2>1, <1>2 DEF TypeOK
  <2>3. kmem # Static
    <3>1. SUFFICES ASSUME kmem = Static PROVE FALSE OBVIOUS
    <3>2. Broken \in Page BY <1>1, <1>3, <3>1
    <3>3. Lost(s, Broken) BY <1>7, <3>1, <3>2 DEF Live, ErrorInv
    <3>4. FirstHit(1) BY <1>3, <3>2 DEF Live, HitInv, Waiting
    <3>5. CASE Broken = freelist
      <4>1. s \in Seq(Page) BY DEF Uses, IsChain
      <4>2. s # <<>> /\ s[1] = freelist BY <3>2, <3>5 DEF Uses, IsChain
      <4>3. QED BY <4>1, <4>2, <3>3, <3>5, SeqFacts DEF Lost
    <3>6. CASE Broken # freelist
      <4>1. Broken = hand[Victim] /\ Pending(Victim) BY <1>3, <3>2, <3>4, <3>6 DEF FirstHit
      <4>2. Broken \in ToSet(runs) BY <4>1, SeqFacts DEF Pending, TypeOK
      <4>3. QED BY <4>2, <1>1
    <3>7. QED BY <3>5, <3>6
  <2>4. InOrder(s)' BY <1>2 DEF Live, InOrder
  <2>5. LockInv' BY <1>2, <1>4 DEF Live, LockInv
  <2>6. \A q \in Proc : Pending(q)' <=> Pending(q) BY <1>2 DEF Pending
  <2>7. \A q \in Proc : ~Taken(q) /\ ~Taken(q)' BY <1>3, <2>1 DEF Taken
  <2>8. ~Pending(Victim)'
    <3>1. lock[kmem] # Victim BY <1>3, <2>3 DEF Live, LockInv, Critical
    <3>2. QED BY <3>1, <1>2, <1>4 DEF Pending
  <2>9. HandInv' BY <1>2, <1>3, <1>4, <2>1, <2>6, <2>7, <2>8 DEF Live, HandInv
  <2>10. QueueInv' BY <1>2, <1>3, QueueKept DEF Live
  <2>11. HitInv' BY <1>2, <1>3, <2>1, <2>3, CalmBegins
  <2>12. ErrorInv(s)' BY <1>2, <2>1, <2>3 DEF ErrorInv
  <2>13. TransInv(s)' BY <1>2, <2>1, <2>3 DEF TransInv
  <2>14. QED
    BY <2>2, <2>4, <2>5, <2>9, <2>10, <2>11, <2>12, <2>13, <1>5 DEF Live
<1>8. QED BY <1>6, <1>7

\* Fail-Stop
LEMMA FailStopInv ==
    ASSUME TypeOK, NEW s, Uses(s), FailStop
    PROVE  TypeOK' /\ Uses(s)' /\ halted'
<1>1. /\ halted' = TRUE
      /\ UNCHANGED <<freelist, next, runs, kmem, lock, log_run, trans, pc, op, hand, addr, queue,
                     tracker, stage, recovery, recovered, used, bad, nmis, ops>>
  BY DEF FailStop, procs, lists, nmiVars
<1>2. QED BY <1>1 DEF TypeOK, Uses, OneUse

\* The next victim's turn.
LEMMA LeaveInv ==
    ASSUME TypeOK, NEW s, Uses(s), Live(s), Leave
    PROVE  TypeOK' /\ Uses(s)' /\ Live(s)'
<1> USE PageFacts
<1>1. Handling("leave") BY DEF Leave
<1>2. PICK v \in Proc : v = Victim BY <1>1, Handler
<1>3. PICK c \in Proc : c = tracker BY <1>1, Handler
<1>4. /\ recovered' = recovered \cup ({Broken} \ {Null})
      /\ lock' = (IF lock[kmem] = v THEN [lock EXCEPT ![kmem] = NoProc] ELSE lock)
      /\ queue' = Tail(queue) /\ stage' = "dispatch" /\ recovery' = FALSE
      /\ tracker' = (IF Len(queue) = 1 THEN NoProc ELSE c)
      /\ hand' = [hand EXCEPT ![v] = Null]
      /\ pc' = [p \in Proc |-> IF (p = v /\ p # c) \/ (p = c /\ Len(queue) = 1)
                               THEN "idle" ELSE pc[p]]
      /\ UNCHANGED <<freelist, next, runs, kmem, log_run, trans, op, addr, used, bad, halted, nmis,
                     ops>>
  BY <1>2, <1>3 DEF Leave, lists
<1> HIDE DEF Leave
<1>5. /\ stage = "leave" /\ queue # <<>> /\ kmem \in Home /\ pc[v] = "nmi" /\ pc[c] = "nmi"
      /\ v = queue[1].pid /\ Broken = queue[1].addr /\ Broken \in Home \cup {Null}
      /\ 1 \in 1..Len(queue)
  BY <1>1, <1>2, <1>3, Handler DEF TypeOK
<1>6. /\ queue' \in Seq(Entry) /\ Len(queue') = Len(queue) - 1 /\ Len(queue) \in Nat \ {0}
      /\ \A i \in 1..(Len(queue) - 1) : queue'[i] = queue[i + 1]
  BY <1>4, <1>5, TailFacts, SeqFacts DEF TypeOK
<1>7. \A i \in 1..Len(queue') : /\ i + 1 \in 1..Len(queue) /\ i + 1 > 1
                                /\ queue'[i] = queue[i + 1]
  BY <1>6
<1>8. \A i \in 1..Len(queue) : i # 1 => i - 1 \in 1..Len(queue') /\ queue'[i - 1] = queue[i]
  <2> TAKE i \in 1..Len(queue)
  <2>1. ASSUME i # 1 PROVE i - 1 \in 1..Len(queue') /\ (i - 1) + 1 = i BY <2>1, <1>6
  <2>2. QED BY <2>1, <1>7
<1>9. \A i \in 1..Len(queue') : /\ queue'[i].pid \in Proc /\ queue'[i].pid # v /\ queue'[i].pid # c
                                /\ pc[queue'[i].pid] = "nmi"
  <2> TAKE i \in 1..Len(queue')
  <2>1. i + 1 \in 1..Len(queue) /\ i + 1 # 1 /\ queue'[i] = queue[i + 1] BY <1>7
  <2>2. queue[i + 1].pid \in Proc /\ pc[queue[i + 1].pid] = "nmi"
    BY <2>1, QueueFacts DEF Live, QueueInv
  <2>3. queue[i + 1].pid # c BY <2>1, <1>3 DEF Live, QueueInv
  <2>4. queue[i + 1].pid # v BY <2>1, <1>5 DEF Live, QueueInv
  <2>5. QED BY <2>1, <2>2, <2>3, <2>4
<1>10. /\ \A p \in Proc : p # v /\ p # c => pc'[p] = pc[p]
       /\ \A p \in Proc : p # v => hand'[p] = hand[p]
       /\ hand'[v] = Null
       /\ pc'[v] \in {"idle", "nmi"} /\ pc'[c] \in {"idle", "nmi"}
       /\ Len(queue) # 1 => pc'[c] = "nmi"
  BY <1>2, <1>3, <1>4, <1>5 DEF TypeOK
<1>11. /\ \A a \in Home : lock'[a] = (IF a = kmem /\ lock[a] = v THEN NoProc ELSE lock[a])
       /\ lock' \in [Home -> Proc \cup {NoProc}]
  BY <1>4, <1>5 DEF TypeOK
<1>12. TypeOK'
  <2>1. pc' \in [Proc -> {"idle", "inside", "spin", "locked", "popped", "registered",
                         "linked", "nmi"}]
    BY <1>4 DEF TypeOK
  <2>2. hand' \in [Proc -> Page \cup {Null}] BY <1>4 DEF TypeOK
  <2>3. recovered' \subseteq Home BY <1>4, <1>5 DEF TypeOK
  <2>4. tracker' \in Proc \cup {NoProc} BY <1>4
  <2>5. QED BY <2>1, <2>2, <2>3, <2>4, <1>4, <1>6, <1>11 DEF TypeOK
<1>13. ~Pending(v) BY <1>2, <1>5 DEF Live, HandInv
<1>14. /\ \A p \in Proc : ~Taken(p)
       /\ \A p \in Proc : hand[p] \in ToSet(runs) => p # v /\ Pending(p)
  BY <1>5, <1>13 DEF Taken, Live, HandInv
<1>15. \A p \in Proc : p # v => (Pending(p)' <=> Pending(p))
  <2>1. \A p \in Proc : p # v => (lock'[kmem] = p <=> lock[kmem] = p) BY <1>5, <1>11
  <2>2. QED BY <2>1, <1>4, <1>10 DEF Pending
<1>16. Uses(s)'
  <2>1. OneUse(s)'
    <3>1. \A q \in Proc : hand'[q] # Null =>
            /\ hand'[q] \notin used \cup ToSet(s)
            /\ hand'[q] = kmem => pc'[q] = "nmi"
            /\ \A r \in Proc : hand'[r] = hand'[q] => r = q
      <4> TAKE q \in Proc
      <4>1. SUFFICES ASSUME hand'[q] # Null
                     PROVE  /\ hand'[q] \notin used \cup ToSet(s)
                            /\ hand'[q] = kmem => pc'[q] = "nmi"
                            /\ \A r \in Proc : hand'[r] = hand'[q] => r = q
        OBVIOUS
      <4>2. q # v /\ hand'[q] = hand[q] BY <4>1, <1>10
      <4>3. q # c
        <5>1. v # c => hand[c] = Null BY <1>2, <1>3, <1>5 DEF Live, HandInv
        <5>2. QED BY <5>1, <4>1, <4>2
      <4>4. pc'[q] = pc[q] BY <4>2, <4>3, <1>10
      <4>5. \A r \in Proc : hand'[r] = hand'[q] => hand[r] = hand[q] BY <4>1, <4>2, <1>10
      <4>6. QED BY <4>1, <4>2, <4>4, <4>5 DEF Uses, OneUse
    <3>2. QED BY <3>1, <1>4 DEF Uses, OneUse
  <2>2. QED BY <2>1, <1>4 DEF Uses
<1>17. InOrder(s)'
  <2>1. ASSUME kmem = Static, NEW x \in ToSet(runs)
        PROVE  x \in ToSet(s) \/ \E q \in Proc : hand'[q] = x
    <3>1. x \in ToSet(s) \/ \E q \in Proc : hand[q] = x BY <2>1 DEF Live, InOrder
    <3>2. \A q \in Proc : hand[q] = x => hand'[q] = x BY <1>10, <1>14
    <3>3. QED BY <3>1, <3>2
  <2>2. QED BY <2>1, <1>4 DEF Live, InOrder
<1>18. Len(queue) = 1 <=> queue' = <<>>
  <2>1. queue' = <<>> <=> Len(queue') = 0 BY <1>6
  <2>2. QED BY <2>1, <1>6
<1>19. LockInv'
  <2>1. \A q \in Proc : pc'[q] \in Critical => pc[q] \in Critical /\ q # v /\ q # c
    BY <1>5, <1>10 DEF Critical
  <2>2. \A q \in Proc : lock'[kmem] = q => lock[kmem] = q /\ q # v BY <1>5, <1>11
  <2>3. v # c => lock[kmem] # c BY <1>2, <1>3, <1>5 DEF Live, LockInv
  <2>4. \A q \in Proc : lock'[kmem] = q => pc'[q] = pc[q]
    BY <2>2, <2>3, <1>10
  <2>5. tracker' = c => lock'[kmem] # c BY <2>2, <2>3
  <2>6. queue' # <<>> => lock'[kmem] # tracker' BY <2>5, <1>4, <1>18
  <2>7. Static \in Home OBVIOUS
  <2>8. \A q \in Proc : pc'[q] \in Critical => addr[q] = kmem /\ lock'[kmem] = q
    BY <2>1, <1>5, <1>11 DEF Live, LockInv
  <2>9. /\ \A q \in Proc : lock'[kmem] = q => pc'[q] \in Critical \/ (pc'[q] = "nmi" /\ kmem = Static)
        /\ \A a \in Home \ {kmem, Static} : lock'[a] = NoProc
        /\ kmem # Static => lock'[Static] # NoProc
    BY <2>2, <2>4, <2>7, <1>11 DEF Live, LockInv
  <2>10. QED BY <2>6, <2>8, <2>9, <1>4 DEF Live, LockInv
<1>20. HandInv'
  <2>1. \A q \in Proc : pc'[q] \in {"idle", "linked"} => hand'[q] = Null
    <3> TAKE q \in Proc
    <3>1. CASE q = v BY <3>1, <1>10
    <3>2. CASE q # v /\ q = c
      <4>1. hand[c] = Null BY <3>2, <1>2, <1>3, <1>5 DEF Live, HandInv
      <4>2. QED BY <4>1, <3>2, <1>10
    <3>3. CASE q # v /\ q # c BY <3>3, <1>10 DEF Live, HandInv
    <3>4. QED BY <3>1, <3>2, <3>3
  <2>2. \A q \in Proc : pc'[q] \in {"inside", "spin", "locked", "registered"} =>
           q # v /\ q # c /\ pc'[q] = pc[q] /\ hand'[q] = hand[q]
    BY <1>10
  <2>3. \A q \in Proc : hand'[q] \in ToSet(runs) => pc'[q] \in {"registered", "nmi"} /\ Pending(q)'
    <3> TAKE q \in Proc
    <3>1. SUFFICES ASSUME hand'[q] \in ToSet(runs)
                   PROVE  pc'[q] \in {"registered", "nmi"} /\ Pending(q)'
      OBVIOUS
    <3>2. Null \notin ToSet(runs) BY SeqFacts DEF TypeOK
    <3>3. q # v /\ hand'[q] = hand[q] BY <3>1, <3>2, <1>10
    <3>4. Pending(q)' /\ pc[q] \in {"registered", "nmi"}
      BY <3>1, <3>3, <1>14, <1>15 DEF Live, HandInv
    <3>5. q # c
      <4>1. v # c => lock[kmem] # c BY <1>2, <1>3, <1>5 DEF Live, LockInv
      <4>2. Pending(q) BY <3>1, <3>3, <1>14
      <4>3. QED BY <4>1, <4>2, <3>3 DEF Pending
    <3>6. QED BY <3>3, <3>4, <3>5, <1>10
  <2>4. \A q \in Proc : ~Taken(q)' BY <1>4 DEF Taken
  <2>5. tracker' = c => hand'[c] = Null
    <3>1. v # c => hand[c] = Null BY <1>2, <1>3, <1>5 DEF Live, HandInv
    <3>2. QED BY <3>1, <1>10
  <2>6. queue' # <<>> => hand'[tracker'] = Null BY <2>5, <1>4, <1>18
  <2>7. \A q \in Proc : pc'[q] \in {"inside", "spin", "locked"} => (op[q] = "kalloc" <=> hand'[q] = Null)
    BY <2>2 DEF Live, HandInv
  <2>8. \A q \in Proc : pc'[q] = "registered" => Pending(q)' /\ trans[q] > 0
    BY <2>2, <1>15 DEF Live, HandInv
  <2>9. QED BY <2>1, <2>3, <2>4, <2>6, <2>7, <2>8, <1>4 DEF HandInv
<1>21. QueueInv'
  <2>1. \A i \in 1..Len(queue') : pc'[queue'[i].pid] = "nmi" /\ queue'[i].pid # tracker'
    <3>1. \A i \in 1..Len(queue') : pc'[queue'[i].pid] = "nmi" BY <1>9, <1>10
    <3>2. QED BY <3>1, <1>4, <1>9
  <2>2. \A i, j \in 1..Len(queue') : queue'[i].pid = queue'[j].pid => i = j
    <3> TAKE i, j \in 1..Len(queue')
    <3>1. /\ i + 1 \in 1..Len(queue) /\ queue'[i] = queue[i + 1]
          /\ j + 1 \in 1..Len(queue) /\ queue'[j] = queue[j + 1]
      BY <1>7
    <3>2. queue[i + 1].pid = queue[j + 1].pid => i + 1 = j + 1 BY <3>1 DEF Live, QueueInv
    <3>3. QED BY <3>1, <3>2
  <2>3. queue' = <<>> <=> tracker' = NoProc BY <1>4, <1>18
  <2>4. queue' # <<>> => pc'[tracker'] = "nmi" BY <1>4, <1>10, <1>18
  <2>5. QED BY <2>1, <2>2, <2>3, <2>4, <1>4 DEF QueueInv
<1>22. /\ Waiting' = 1..Len(queue')
       /\ \A i \in Waiting : i \in 1..Len(queue) /\ i # 1
       /\ \A i \in 1..Len(queue') : i + 1 \in Waiting
  BY <1>4, <1>5, <1>7 DEF Waiting
<1>23. \A i \in 1..Len(queue') : FirstHit(i + 1) => FirstHit(i)'
  <2> TAKE i \in 1..Len(queue')
  <2>1. SUFFICES ASSUME FirstHit(i + 1) PROVE FirstHit(i)' OBVIOUS
  <2>2. PICK e : e = queue[i + 1] OBVIOUS
  <2>3. e.pid \in Proc /\ e.pid # v /\ queue'[i] = e BY <2>2, <1>7, <1>9
  <2>4. /\ kmem = Static /\ lock[Static] = e.pid
        /\ e.addr \in Page => \/ e.addr = freelist /\ hand[e.pid] = Null
                              \/ e.addr = hand[e.pid] /\ Pending(e.pid)
    BY <2>1, <2>2 DEF FirstHit
  <2>5. lock'[Static] = e.pid BY <2>3, <2>4, <1>11
  <2>6. /\ kmem' = Static /\ lock'[Static] = e.pid
        /\ e.addr \in Page => \/ e.addr = freelist' /\ hand'[e.pid] = Null
                              \/ e.addr = hand'[e.pid] /\ Pending(e.pid)'
    BY <2>3, <2>4, <2>5, <1>4, <1>10, <1>15
  <2>7. QED BY <2>3, <2>6 DEF FirstHit
<1>24. HitInv'
  <2>1. \A i \in Waiting' : queue'[i].addr \in Page => FirstHit(i)'
    BY <1>7, <1>22, <1>23 DEF Live, HitInv
  <2>2. ASSUME kmem = Static, Static \in bad
        PROVE  \E i \in Waiting' : /\ queue'[i].addr = Static /\ FirstHit(i)'
                                   /\ \A j \in 1..(i - 1) : queue'[j].addr # Static
    <3>1. PICK i \in Waiting : /\ queue[i].addr = Static /\ FirstHit(i)
                               /\ \A j \in 1..(i - 1) : queue[j].addr # Static
      BY <2>2 DEF Live, HitInv
    <3>2. PICK k \in 1..Len(queue') : k + 1 = i
      <4>1. i - 1 \in 1..Len(queue') BY <3>1, <1>8, <1>22
      <4>2. (i - 1) + 1 = i BY <1>22
      <4>3. QED BY <4>1, <4>2
    <3>3. queue'[k].addr = Static /\ FirstHit(k)' BY <3>1, <3>2, <1>7, <1>23
    <3>4. \A j \in 1..(k - 1) : queue'[j].addr # Static
      <4> TAKE j \in 1..(k - 1)
      <4>1. j \in 1..Len(queue') /\ j + 1 \in 1..(i - 1) BY <3>2, <1>6
      <4>2. QED BY <4>1, <3>1, <1>7
    <3>5. QED BY <3>2, <3>3, <3>4, <1>22
  <2>3. \A i \in 1..Len(queue') : queue'[i].addr # Null => queue'[i].addr \in bad
    BY <1>7 DEF Live, HitInv
  <2>4. QED BY <2>1, <2>2, <2>3, <1>4 DEF Live, HitInv
<1>25. \A x \in Page : Lost(s, x) => Lost(s, x)' /\ \A q \in Proc : hand'[q] # x
  <2> TAKE x \in Page
  <2>1. SUFFICES ASSUME Lost(s, x) PROVE Lost(s, x)' /\ \A q \in Proc : hand'[q] # x OBVIOUS
  <2>2. \A q \in Proc : hand'[q] # x BY <2>1, <1>2, <1>10 DEF Lost
  <2>3. QED BY <2>1, <2>2, <1>4 DEF Lost
<1>26. ErrorInv(s)'
  <2>1. ASSUME kmem = Static, NEW x \in bad \cap Page
        PROVE  (\E i \in Waiting' : queue'[i].addr = x) \/ Lost(s, x)'
    <3>1. CASE Lost(s, x) BY <3>1, <1>25
    <3>2. CASE \E i \in Waiting : queue[i].addr = x BY <3>2, <1>8, <1>22
    <3>3. QED BY <2>1, <3>1, <3>2 DEF Live, ErrorInv
  <2>2. ASSUME kmem = Static, NEW x \in recovered' \cap Page PROVE Lost(s, x)'
    <3>1. Lost(s, x) BY <2>2, <1>4, <1>5 DEF Live, ErrorInv
    <3>2. QED BY <3>1, <1>25
  <2>3. ASSUME kmem = Static PROVE Static \notin recovered'
    <3>1. Static \notin recovered BY <2>3 DEF Live, ErrorInv
    <3>2. ASSUME Broken = Static PROVE FALSE
      <4>1. Static \in bad BY <3>2, <1>5 DEF Live, HitInv
      <4>2. PICK i \in Waiting : \A j \in 1..(i - 1) : queue[j].addr # Static
        BY <2>3, <4>1 DEF Live, HitInv
      <4>3. 1 \in 1..(i - 1) BY <1>22
      <4>4. QED BY <4>2, <4>3, <3>2, <1>5
    <3>3. QED BY <3>1, <3>2, <1>4
  <2>4. QED BY <2>1, <2>2, <2>3, <1>4 DEF ErrorInv
<1>27. TransInv(s)'
  <2>1. \A q \in Proc : Pending(q) => Pending(q)' /\ hand'[q] = hand[q] BY <1>10, <1>13, <1>15
  <2>2. QED BY <2>1, <1>4, <1>25, TransKept DEF Live
<1>28. QED
  BY <1>12, <1>16, <1>17, <1>19, <1>20, <1>21, <1>24, <1>26, <1>27 DEF Live

\* Nobody but the victim is at work when the handler of struct kmem, or of a
\* page, begins with the head of the queue.
LEMMA SurgeryBegins ==
    ASSUME TypeOK, NEW s, Uses(s), Live(s), Handling("dispatch"), FirstHit(1)
    PROVE  /\ kmem = Static /\ lock[kmem] = Victim
           /\ \A q \in Proc : pc[q] \notin Critical
           /\ \A q \in Proc : hand[q] \in ToSet(runs) => q = Victim /\ Pending(q)
           /\ \A q \in Proc : Pending(q) => q = Victim
           /\ \A i \in Waiting : i # 1 => queue[i].addr \notin Page
           /\ \A q \in Proc : ~Taken(q)
<1>1. /\ stage = "dispatch" /\ queue # <<>> /\ Victim \in Proc /\ pc[Victim] = "nmi"
      /\ Victim = queue[1].pid /\ 1 \in 1..Len(queue)
  BY Handler
<1>2. kmem = Static /\ lock[kmem] = Victim BY <1>1 DEF FirstHit
<1>3. \A q \in Proc : pc[q] \notin Critical BY <1>1, <1>2 DEF Live, LockInv, Critical
<1>4. \A q \in Proc : ~Taken(q) BY <1>1 DEF Taken
<1>5. \A q \in Proc : Pending(q) => q = Victim BY <1>2 DEF Pending
<1>6. \A q \in Proc : hand[q] \in ToSet(runs) => q = Victim /\ Pending(q)
  BY <1>4, <1>5 DEF Live, HandInv
<1>7. ASSUME NEW i \in Waiting, i # 1, queue[i].addr \in Page PROVE FALSE
  <2>1. FirstHit(i) BY <1>7 DEF Live, HitInv
  <2>2. queue[i].pid = queue[1].pid BY <2>1, <1>1, <1>2 DEF FirstHit
  <2>3. i \in 1..Len(queue) BY DEF Waiting
  <2>4. QED BY <2>2, <2>3, <1>1, <1>7 DEF Live, QueueInv
<1>8. QED BY <1>2, <1>3, <1>4, <1>5, <1>6, <1>7

\* Behind its first page the M-List follows the free list.
LEMMA RunsFollow ==
    ASSUME TypeOK, NEW s, Uses(s), Live(s), Handling("dispatch"), FirstHit(1), runs # <<>>
    PROVE  \E f, t : /\ IsChain(f, next, t) /\ ToSet(t) \subseteq ToSet(s)
                     /\ runs[1] \notin ToSet(t) /\ Follows(Tail(runs), t)
<1> USE PageFacts
<1>1. /\ kmem = Static
      /\ \A q \in Proc : hand[q] \in ToSet(runs) => q = Victim /\ Pending(q)
      /\ Victim \in Proc
  BY SurgeryBegins, Handler
<1>2. /\ s \in Seq(Page) /\ IsInjective(s) /\ runs \in Seq(Page) /\ IsInjective(runs)
      /\ IsChain(freelist, next, s) /\ Sorted(runs, s)
  BY DEF Uses, IsChain, TypeOK, OneUse, Live, InOrder
<1>3. ToSet(Tail(runs)) = ToSet(runs) \ {runs[1]} /\ runs[1] \in ToSet(runs)
  BY <1>2, TailFacts, SeqFacts
<1>4. \A x \in ToSet(runs) : x \in ToSet(s) \/ (Pending(Victim) /\ hand[Victim] = x)
  BY <1>1 DEF Live, InOrder
<1>5. CASE Pending(Victim)
  <2>1. runs[1] = hand[Victim] /\ hand[Victim] # Null BY <1>5 DEF Pending
  <2>2. runs[1] \notin ToSet(s) BY <2>1, <1>1 DEF Uses, OneUse
  <2>3. ToSet(Tail(runs)) \subseteq ToSet(s) BY <2>1, <1>3, <1>4
  <2>4. Sorted(Tail(runs), s)
    <3>1. PICK x : x = runs[1] OBVIOUS
    <3>2. Deleted(runs, x) = Tail(runs) BY <3>1, <1>2, DeletedFacts
    <3>3. Sorted(Deleted(runs, x), s) BY <3>1, <2>2, <1>2, SortedDeleted
    <3>4. QED BY <3>2, <3>3
  <2>5. QED BY <2>2, <2>3, <2>4, <1>2 DEF Follows
<1>6. CASE ~Pending(Victim)
  <2>1. Follows(runs, s) BY <1>2, <1>4, <1>6 DEF Follows
  <2>2. s # <<>> /\ s[1] = runs[1] /\ Follows(Tail(runs), Tail(s)) BY <2>1, <1>2, FollowsTail
  <2>3. IsChain(next[freelist], next, Tail(s)) BY <2>2, <1>2, ChainTail
  <2>4. ToSet(Tail(s)) = ToSet(s) \ {s[1]} BY <2>2, <1>2, TailFacts
  <2>5. QED BY <2>2, <2>3, <2>4
<1>7. QED BY <1>5, <1>6

\* recovery_handler_kmem
LEMMA KmemSurgeryInv ==
    ASSUME TypeOK, NEW s, Uses(s), Live(s), KmemSurgery
    PROVE  TypeOK' /\ \E t : Uses(t)' /\ (~halted' => Live(t)')
<1> USE PageFacts
<1>1. Handling("dispatch") /\ Broken = kmem BY DEF KmemSurgery
<1>2. UNCHANGED <<log_run, trans, pc, op, hand, addr, queue, tracker, recovered, used, bad, nmis,
                  ops>>
  BY DEF KmemSurgery, procs
<1>3. /\ stage = "dispatch" /\ queue # <<>> /\ Victim \in Proc /\ tracker \in Proc
      /\ pc[Victim] = "nmi" /\ pc[tracker] = "nmi" /\ Victim = queue[1].pid
      /\ Broken = queue[1].addr /\ 1 \in 1..Len(queue)
  BY <1>1, Handler
<1>4. UNCHANGED <<Victim, Broken>> BY <1>2 DEF Victim, Broken
<1>5. recovery' = TRUE BY DEF KmemSurgery
<1>6. CASE runs = <<>>
  <2>1. halted' = TRUE /\ UNCHANGED <<freelist, next, runs, kmem, lock, stage>>
    BY <1>6 DEF KmemSurgery, lists
  <2>2. TypeOK' BY <2>1, <1>2, <1>5 DEF TypeOK
  <2>3. Uses(s)' BY <2>1, <1>2 DEF Uses, OneUse
  <2>4. QED BY <2>1, <2>2, <2>3
<1>7. CASE runs # <<>>
  <2>1. kmem = Static /\ FirstHit(1)
    <3>1. kmem \in bad
      <4>1. kmem # Null BY DEF TypeOK
      <4>2. QED BY <4>1, <1>1, <1>3 DEF Live, HitInv
    <3>2. kmem = Static BY <3>1 DEF Live, HitInv
    <3>3. PICK i \in Waiting : FirstHit(i) /\ \A j \in 1..(i - 1) : queue[j].addr # Static
      BY <3>1, <3>2 DEF Live, HitInv
    <3>4. i \in 1..Len(queue) /\ Len(queue) \in Nat BY QueueFacts DEF Live, Waiting
    <3>5. i = 1
      <4>1. i # 1 => 1 \in 1..(i - 1) BY <3>4
      <4>2. QED BY <4>1, <3>2, <3>3, <1>1, <1>3
    <3>6. QED BY <3>2, <3>3, <3>5
  <2>2. /\ lock[kmem] = Victim
        /\ \A q \in Proc : pc[q] \notin Critical
        /\ \A q \in Proc : hand[q] \in ToSet(runs) => q = Victim /\ Pending(q)
        /\ \A i \in Waiting : i # 1 => queue[i].addr \notin Page
    BY <2>1, <1>1, SurgeryBegins
  <2>3. runs \in Seq(Page) /\ IsInjective(runs) /\ next \in [Page -> Pointer]
    BY DEF TypeOK, Uses, OneUse
  <2>4. PICK h \in Page : h = runs[1] BY <1>7, <2>3, SeqFacts
  <2>5. /\ kmem' = h /\ runs' = Deleted(runs, h) /\ freelist' = NodeAddr(runs', 2)
        /\ next' = [next EXCEPT ![h] = Junk] /\ lock' = [lock EXCEPT ![h] = NoProc]
        /\ stage' = (IF trans[Victim] > 0 /\ h # log_run THEN "rollback" ELSE "leave")
        /\ halted' = halted
    BY <1>7, <2>3, <2>4, SeqFacts DEF KmemSurgery
  <2> HIDE DEF KmemSurgery
  <2>6. Deleted(runs, h) = Tail(runs) BY <1>7, <2>3, <2>4, DeletedFacts
  <2>7. PICK f, u : /\ IsChain(f, next, u) /\ ToSet(u) \subseteq ToSet(s)
                    /\ h \notin ToSet(u) /\ Follows(Tail(runs), u)
    BY <1>1, <1>7, <2>1, <2>4, RunsFollow
  <2>8. /\ Tail(runs) \in Seq(Page) /\ IsInjective(Tail(runs))
        /\ ToSet(Tail(runs)) = ToSet(runs) \ {h} /\ h \in ToSet(runs)
    BY <1>7, <2>3, <2>4, TailFacts, SeqFacts
  <2>9. PICK t : /\ IsChain(NodeAddr(Tail(runs), 2), next, t) /\ ToSet(t) \subseteq ToSet(u)
                 /\ Sorted(Tail(runs), t)
    <3>1. PICK r : r = Tail(runs) OBVIOUS
    <3>2. r \in Seq(Page) /\ IsInjective(r) /\ Follows(r, u) BY <2>7, <2>8, <3>1
    <3>3. IsChain(f, next, u) BY <2>7
    <3>4. \E t : /\ IsChain(NodeAddr(r, 2), next, t) /\ ToSet(t) \subseteq ToSet(u)
                 /\ Sorted(r, t)
      BY ONLY <3>2, <3>3, SecondOn
    <3>5. QED BY <3>1, <3>4
  <2>10. runs' = Tail(runs) BY <2>5, <2>6
  <2>11. IsChain(freelist', next', t)
    <3>1. h \notin ToSet(t) BY <2>7, <2>9
    <3>2. IsChain(NodeAddr(Tail(runs), 2), [next EXCEPT ![h] = Junk], t)
      BY <3>1, <2>3, <2>9, ChainOff
    <3>3. QED BY <3>2, <2>5, <2>10
  <2>12. /\ h \notin used /\ kmem' \notin used
         /\ \A q \in Proc : hand[q] = h => q = Victim
    BY <2>2, <2>5, <2>8 DEF Uses, OneUse
  <2>13. TypeOK'
    <3>1. runs' \in Seq(Page) BY <2>8, <2>10
    <3>2. freelist' \in Pointer
      <4>1. t = <<>> => freelist' \in Nowhere BY <2>11 DEF IsChain
      <4>2. t # <<>> => freelist' \in Page BY <2>11, SeqFacts DEF IsChain
      <4>3. QED BY <4>1, <4>2 DEF Nowhere
    <3>3. kmem' \in Home BY <2>5
    <3>4. next' \in [Page -> Pointer] BY <2>3, <2>5
    <3>5. lock' \in [Home -> Proc \cup {NoProc}] BY <2>5 DEF TypeOK
    <3>6. stage' \in {"dispatch", "rollback", "endtrans", "taken", "leave"} BY <2>5
    <3>7. QED BY <3>1, <3>2, <3>3, <3>4, <3>5, <3>6, <2>5, <1>2, <1>5 DEF TypeOK
  <2>14. Uses(t)'
    <3>1. ToSet(t) \subseteq ToSet(s) /\ h \notin ToSet(t) BY <2>7, <2>9
    <3>2. ToSet(runs') = ToSet(runs) \ {h} /\ IsInjective(runs') BY <2>8, <2>10
    <3>3. \A q \in Proc : hand[q] = h => pc[q] = "nmi" BY <2>12, <1>3
    <3>4. /\ (ToSet(t) \cap (used \cup {kmem}) = {} /\ kmem \notin used)'
          /\ (IsInjective(runs) /\ ToSet(runs) \cap (used \cup {kmem}) = {})'
      BY <1>2, <2>5, <2>12, <3>1, <3>2 DEF Uses, OneUse
    <3>5. \A q \in Proc : hand'[q] # Null =>
            /\ hand'[q] \notin used' \cup ToSet(t)
            /\ hand'[q] = kmem' => pc'[q] = "nmi"
            /\ \A r \in Proc : hand'[r] = hand'[q] => r = q
      BY <1>2, <2>5, <3>1, <3>3 DEF Uses, OneUse
    <3>6. OneUse(t)' BY <3>4, <3>5 DEF OneUse
    <3>7. QED BY <3>6, <2>11 DEF Uses
  <2>15. InOrder(t)'
    <3>1. \A x \in ToSet(t) \ ToSet(runs') : x = LastPage
      BY <2>7, <2>8, <2>9, <2>10 DEF Live, InOrder
    <3>2. Sorted(runs', t) BY <2>9, <2>10
    <3>3. kmem' # Static BY <2>5
    <3>4. QED BY <3>1, <3>2, <3>3 DEF InOrder
  <2>16. /\ lock'[h] = NoProc
         /\ \A a \in Home : a # h => lock'[a] = lock[a]
    BY <2>5 DEF TypeOK
  <2>17. LockInv'
    <3>1. Static \in Home /\ Static # h OBVIOUS
    <3>2. lock'[Static] = Victim BY <2>1, <2>2, <2>16, <3>1
    <3>3. QED BY <1>2, <1>3, <2>1, <2>2, <2>5, <2>16, <3>1, <3>2 DEF Live, LockInv
  <2>18. HandInv'
    <3>1. \A q \in Proc : hand[q] \notin ToSet(runs')
      <4>1. \A q \in Proc : hand[q] \in ToSet(runs) => hand[q] = h
        BY <2>2, <2>4 DEF Pending
      <4>2. QED BY <4>1, <2>8, <2>10
    <3>2. \A q \in Proc : ~Taken(q)' BY <2>5 DEF Taken
    <3>3. ~Pending(Victim)' BY <1>3, <1>4, <2>5, <2>16 DEF Pending
    <3>4. \A q \in Proc : pc[q] # "registered" BY <2>2 DEF Critical
    <3>5. Victim # tracker => hand[tracker] = Null BY <1>3 DEF Live, HandInv
    <3>6. QED BY <1>2, <1>4, <3>1, <3>2, <3>3, <3>4, <3>5 DEF Live, HandInv
  <2>19. QueueInv' BY <1>2, <1>3, QueueKept DEF Live
  <2>20. \A x \in bad \cap Page : Lost(s, x)
    <3> TAKE x \in bad \cap Page
    <3>1. ASSUME NEW i \in Waiting, queue[i].addr = x PROVE FALSE
      <4>1. i # 1 BY <3>1, <1>1, <1>3, <2>1
      <4>2. QED BY <3>1, <4>1, <2>2
    <3>2. QED BY <3>1, <2>1 DEF Live, ErrorInv
  <2>21. HitInv'
    <3>1. Waiting' \subseteq Waiting /\ 1 \notin Waiting'
      BY <1>2, <2>5 DEF Waiting
    <3>2. \A i \in Waiting' : queue'[i].addr \notin Page
      BY <1>2, <2>2, <3>1
    <3>3. h \notin bad BY <2>8, <2>20 DEF Lost
    <3>4. QED BY <1>2, <2>5, <3>2, <3>3 DEF Live, HitInv
  <2>22. ErrorInv(t)' BY <2>5 DEF ErrorInv
  <2>23. TransInv(t)'
    <3>1. ASSUME log_run # Null, stage' = "rollback" PROVE Lost(t, log_run)'
      <4>1. h # log_run BY <3>1, <2>5
      <4>2. ASSUME NEW q \in Proc, Pending(q), hand[q] = log_run PROVE FALSE
        BY <4>1, <4>2, <2>4 DEF Pending
      <4>3. Lost(s, log_run) BY <3>1, <4>2, <2>1 DEF Live, TransInv
      <4>4. PICK x : x = log_run OBVIOUS
      <4>5. ToSet(t) \subseteq ToSet(s) BY <2>7, <2>9
      <4>6. x \notin used' \cup ToSet(t) \cup ToSet(runs') \cup {kmem'}
        BY <4>1, <4>3, <4>4, <4>5, <1>2, <2>5, <2>8, <2>10 DEF Lost
      <4>7. \A q \in Proc : hand'[q] # x BY <4>3, <4>4, <1>2, <1>3 DEF Lost
      <4>8. QED BY <4>4, <4>6, <4>7, <1>2 DEF Lost
    <3>2. QED BY <3>1, <1>2, <2>5 DEF TransInv
  <2>24. Live(t)' BY <2>15, <2>17, <2>18, <2>19, <2>21, <2>22, <2>23 DEF Live
  <2>25. QED BY <2>13, <2>14, <2>24
<1>8. QED BY <1>6, <1>7

\* recovery_handler_run
LEMMA RunSurgeryInv ==
    ASSUME TypeOK, NEW s, Uses(s), Live(s), RunSurgery
    PROVE  TypeOK' /\ \E t : Uses(t)' /\ (~halted' => Live(t)')
<1> USE PageFacts
<1>1. Handling("dispatch") /\ Broken # kmem /\ Broken \in ToSet(runs) BY DEF RunSurgery
<1>2. UNCHANGED <<kmem, log_run, trans, pc, op, hand, addr, queue, tracker, recovered, used, bad,
                  nmis, ops>>
  BY DEF RunSurgery, procs
<1>3. /\ stage = "dispatch" /\ queue # <<>> /\ Victim \in Proc /\ tracker \in Proc
      /\ pc[Victim] = "nmi" /\ pc[tracker] = "nmi" /\ Victim = queue[1].pid
      /\ Broken = queue[1].addr /\ 1 \in 1..Len(queue)
  BY <1>1, Handler
<1>4. UNCHANGED <<Victim, Broken>> BY <1>2 DEF Victim, Broken
<1>5. runs \in Seq(Page) /\ IsInjective(runs) /\ next \in [Page -> Pointer] /\ runs # <<>>
  BY <1>1, SeqFacts DEF TypeOK, Uses, OneUse
<1>6. Broken \in Page BY <1>1, <1>5, SeqFacts
<1>7. FirstHit(1) BY <1>3, <1>6 DEF Live, HitInv, Waiting
<1>8. /\ kmem = Static /\ lock[kmem] = Victim
      /\ \A q \in Proc : pc[q] \notin Critical
      /\ \A q \in Proc : hand[q] \in ToSet(runs) => q = Victim /\ Pending(q)
      /\ \A q \in Proc : Pending(q) => q = Victim
      /\ \A i \in Waiting : i # 1 => queue[i].addr \notin Page
  BY <1>1, <1>7, SurgeryBegins
<1>9. PICK h \in Page : h = Broken BY <1>6
<1>10. runs[1] = h
  <2>1. CASE h = hand[Victim] /\ Pending(Victim) BY <2>1 DEF Pending
  <2>2. CASE ~(h = hand[Victim] /\ Pending(Victim))
    <3>1. h = freelist /\ hand[Victim] = Null BY <2>2, <1>3, <1>6, <1>7, <1>9 DEF FirstHit
    <3>2. ~Pending(Victim) BY <3>1 DEF Pending
    <3>3. ToSet(runs) \subseteq ToSet(s) BY <3>2, <1>8 DEF Live, InOrder
    <3>4. s \in Seq(Page) /\ IsInjective(s) /\ Sorted(runs, s)
      BY DEF Uses, IsChain, Live, InOrder
    <3>5. s # <<>> /\ s[1] = runs[1] BY <3>3, <3>4, <1>5, FollowsTail DEF Follows
    <3>6. QED BY <3>1, <3>5 DEF Uses, IsChain
  <2>3. QED BY <2>1, <2>2
<1>11. \A j \in DOMAIN runs : runs[j] = h <=> j = 1 BY <1>5, <1>10, SeqFacts
<1>12. (CHOOSE j \in DOMAIN runs : runs[j] = Broken) = 1
  <2>1. 1 \in DOMAIN runs BY <1>5, SeqFacts
  <2>2. QED BY <2>1, <1>9, <1>11
<1>13. Deleted(runs, h) = Tail(runs) BY <1>5, <1>10, DeletedFacts
<1>14. PICK r : r = Tail(runs) OBVIOUS
<1>15. /\ r \in Seq(Page) /\ IsInjective(r) /\ ToSet(r) = ToSet(runs) \ {h} /\ h \in ToSet(runs)
       /\ Len(r) = Len(runs) - 1 /\ \A i \in 1..(Len(runs) - 1) : r[i] = runs[i + 1]
       /\ Len(runs) \in Nat \ {0}
  BY <1>5, <1>10, <1>14, TailFacts, SeqFacts
<1>16. NodeAddr(runs, 2) = NodeAddr(r, 1) /\ NodeAddr(runs, 3) = NodeAddr(r, 2)
  BY <1>15 DEF NodeAddr
<1>17. /\ runs' = r /\ recovery' = TRUE
       /\ IF NodeAddr(r, 1) = Junk
          THEN halted' = TRUE /\ UNCHANGED <<freelist, next, lock, stage>>
          ELSE /\ next' = [next EXCEPT ![NodeAddr(r, 1)] = NodeAddr(r, 2)]
               /\ freelist' = NodeAddr(r, 1)
               /\ lock' = (IF lock[kmem] = tracker THEN [lock EXCEPT ![kmem] = NoProc] ELSE lock)
               /\ stage' = "leave"
               /\ UNCHANGED halted
  <2>1. /\ runs' = Deleted(runs, Broken) /\ recovery' = TRUE
        /\ LET i == CHOOSE j \in DOMAIN runs : runs[j] = Broken
               x == IF i > 1 THEN runs[i - 1] ELSE NodeAddr(runs, 2)
               n == NodeAddr(runs, IF i > 1 THEN i + 1 ELSE 3)
           IN  IF x = Junk
               THEN halted' = TRUE /\ UNCHANGED <<freelist, next, lock, stage>>
               ELSE /\ next' = [next EXCEPT ![x] = n]
                    /\ freelist' = x
                    /\ lock' = IF lock[kmem] = tracker
                               THEN [lock EXCEPT ![kmem] = NoProc] ELSE lock
                    /\ stage' = "leave"
                    /\ UNCHANGED halted
    BY DEF RunSurgery
  <2>2. runs' = r BY <2>1, <1>9, <1>13, <1>14
  <2>3. ~(1 > 1) OBVIOUS
  <2>4. /\ IF NodeAddr(runs, 2) = Junk
           THEN halted' = TRUE /\ UNCHANGED <<freelist, next, lock, stage>>
           ELSE /\ next' = [next EXCEPT ![NodeAddr(runs, 2)] = NodeAddr(runs, 3)]
                /\ freelist' = NodeAddr(runs, 2)
                /\ lock' = (IF lock[kmem] = tracker THEN [lock EXCEPT ![kmem] = NoProc] ELSE lock)
                /\ stage' = "leave"
                /\ UNCHANGED halted
    BY ONLY <2>1, <2>3, <1>12
  <2>5. QED BY ONLY <2>1, <2>2, <2>4, <1>16
<1> HIDE DEF RunSurgery
<1>18. /\ h \notin used /\ h # kmem
       /\ \A q \in Proc : hand[q] = h => q = Victim
  BY <1>8, <1>15 DEF Uses, OneUse
<1>19. CASE r = <<>>
  <2>1. NodeAddr(r, 1) = Junk BY SMTT(60), <1>15, <1>19, SeqFacts DEF NodeAddr
  <2>2. halted' = TRUE /\ UNCHANGED <<freelist, next, lock, stage>> BY <2>1, <1>17
  <2>3. TypeOK' BY <2>2, <1>2, <1>15, <1>17 DEF TypeOK
  <2>4. Uses(s)' BY <2>2, <1>2, <1>15, <1>17 DEF Uses, OneUse
  <2>5. QED BY <2>2, <2>3, <2>4
<1>20. CASE r # <<>>
  <2>1. NodeAddr(r, 1) = r[1] /\ r[1] \in Page BY <1>15, <1>20, SeqFacts DEF NodeAddr
  <2>2. /\ next' = [next EXCEPT ![r[1]] = NodeAddr(r, 2)] /\ freelist' = r[1]
        /\ lock' = (IF lock[kmem] = tracker THEN [lock EXCEPT ![kmem] = NoProc] ELSE lock)
        /\ stage' = "leave" /\ halted' = halted
    BY <2>1, <1>17
  <2>3. PICK f, u : /\ IsChain(f, next, u) /\ ToSet(u) \subseteq ToSet(s)
                    /\ h \notin ToSet(u) /\ Follows(r, u)
    BY <1>1, <1>5, <1>7, <1>10, <1>14, RunsFollow
  <2>4. PICK t : /\ IsChain(r[1], next', t)
                 /\ ToSet(t) \subseteq ToSet(u) /\ ToSet(r) \subseteq ToSet(t) /\ Sorted(r, t)
    <3>1. Led(f, next, r, u) BY <1>5, <1>15, <1>20, <2>3 DEF Led
    <3>2. LedOn(next, r, u) BY ONLY <3>1, FirstOn
    <3>3. next' = Relinked(next, r[1], NodeAddr(r, 2)) BY <2>2 DEF Relinked
    <3>4. QED BY <3>2, <3>3 DEF LedOn
  <2>5. IsChain(freelist', next', t) BY <2>2, <2>4
  <2>6. /\ ToSet(t) \subseteq ToSet(s) /\ h \notin ToSet(t)
    BY <2>3, <2>4
  <2>7. NodeAddr(r, 2) \in Pointer BY <1>15 DEF NodeAddr
  <2>8. TypeOK'
    <3>1. next' \in [Page -> Pointer] BY <2>1, <2>2, <2>7, <1>5
    <3>2. lock' \in [Home -> Proc \cup {NoProc}] BY <2>2 DEF TypeOK
    <3>3. QED BY <3>1, <3>2, <2>1, <2>2, <1>2, <1>15, <1>17 DEF TypeOK
  <2>9. Uses(t)'
    <3>1. OneUse(t)' BY <1>2, <1>15, <1>17, <2>6 DEF Uses, OneUse
    <3>2. QED BY <3>1, <2>5 DEF Uses
  <2>10. InOrder(t)'
    <3>1. \A x \in ToSet(t) \ ToSet(runs') : x = LastPage
      BY <1>15, <1>17, <2>6 DEF Live, InOrder
    <3>2. Sorted(runs', t) /\ ToSet(runs') \subseteq ToSet(t) BY <2>4, <1>17
    <3>3. QED BY <3>1, <3>2 DEF InOrder
  <2>11. LockInv'
    <3>1. Static \in Home OBVIOUS
    <3>2. /\ lock'[kmem] \in {NoProc, Victim}
          /\ Victim # tracker => lock'[kmem] = lock[kmem]
          /\ \A a \in Home : a # kmem => lock'[a] = lock[a]
      BY <1>8, <2>2, <3>1 DEF TypeOK
    <3>3. \A q \in Proc : lock'[kmem] = q => lock[kmem] = q BY <1>8, <3>2
    <3>4. tracker \in Proc /\ lock'[kmem] # tracker
      BY <1>3, <1>8, <3>1, <2>2 DEF TypeOK
    <3>5. QED BY <1>2, <1>4, <1>8, <3>2, <3>3, <3>4 DEF Live, LockInv
  <2>12. \A q \in Proc : hand[q] \notin ToSet(runs')
    <3>1. \A q \in Proc : hand[q] \in ToSet(runs) => hand[q] = h
      BY <1>8, <1>10 DEF Pending
    <3>2. QED BY <3>1, <1>15, <1>17
  <2>13. HandInv'
    <3>1. \A q \in Proc : ~Taken(q)' BY <2>2 DEF Taken
    <3>2. ~Pending(Victim)'
      <4>1. r[1] \in ToSet(r) BY <1>15, <1>20, SeqFacts
      <4>2. QED BY <4>1, <2>12, <1>2, <1>3, <1>4, <1>17 DEF Pending
    <3>3. \A q \in Proc : pc[q] # "registered" BY <1>8 DEF Critical
    <3>4. Victim # tracker => hand[tracker] = Null BY <1>3 DEF Live, HandInv
    <3>5. QED BY <1>2, <1>4, <2>12, <3>1, <3>2, <3>3, <3>4 DEF Live, HandInv
  <2>14. QueueInv' BY <1>2, <1>3, QueueKept DEF Live
  <2>15. Static \notin bad
    <3>1. SUFFICES ASSUME Static \in bad PROVE FALSE OBVIOUS
    <3>2. PICK i \in Waiting : queue[i].addr = Static /\ FirstHit(i)
      BY <3>1, <1>8 DEF Live, HitInv
    <3>3. queue[i].pid = queue[1].pid BY <3>2, <1>3, <1>8 DEF FirstHit
    <3>4. i = 1 BY <3>3, <1>3 DEF Live, QueueInv, Waiting
    <3>5. QED BY <3>2, <3>4, <1>3, <1>6
  <2>16. Waiting' \subseteq Waiting /\ 1 \notin Waiting' BY <1>2, <2>2 DEF Waiting
  <2>17. HitInv'
    <3>1. \A i \in Waiting' : queue'[i].addr \notin Page BY <1>2, <1>8, <2>16
    <3>2. QED BY <1>2, <1>8, <2>15, <3>1 DEF Live, HitInv
  <2>18. \A x \in Page : Lost(s, x) \/ x = h => Lost(t, x)'
    <3> TAKE x \in Page
    <3>1. CASE x = h
      <4>1. x \notin used' \cup ToSet(t) \cup ToSet(runs') \cup {kmem'}
        BY <3>1, <1>2, <1>15, <1>17, <1>18, <2>6
      <4>2. \A q \in Proc : hand'[q] = x => stage' = "leave" /\ queue' # <<>> /\ q = Victim'
        BY <3>1, <1>2, <1>3, <1>4, <1>18, <2>2
      <4>3. QED BY <4>1, <4>2 DEF Lost
    <3>2. CASE Lost(s, x)
      <4>1. x \notin used' \cup ToSet(t) \cup ToSet(runs') \cup {kmem'}
        BY <3>2, <1>2, <1>15, <1>17, <2>6 DEF Lost
      <4>2. \A q \in Proc : hand'[q] # x BY <3>2, <1>2, <1>3 DEF Lost
      <4>3. QED BY <4>1, <4>2 DEF Lost
    <3>3. QED BY <3>1, <3>2
  <2>19. ErrorInv(t)'
    <3>1. ASSUME NEW x \in bad \cap Page PROVE Lost(t, x)'
      <4>1. CASE Lost(s, x) BY <4>1, <2>18
      <4>2. CASE \E i \in Waiting : queue[i].addr = x
        <5>1. PICK i \in Waiting : queue[i].addr = x BY <4>2
        <5>2. i = 1 BY <5>1, <1>8
        <5>3. QED BY <5>1, <5>2, <1>3, <1>9, <2>18
      <4>3. QED BY <4>1, <4>2, <1>8 DEF Live, ErrorInv
    <3>2. \A x \in recovered \cap Page : Lost(t, x)' BY <1>8, <2>18 DEF Live, ErrorInv
    <3>3. Lost(t, Broken)'
      <4>1. Lost(t, h)' BY <2>18
      <4>2. QED BY <4>1, <1>4, <1>9 DEF Lost
    <3>4. Static \notin recovered BY <1>8 DEF Live, ErrorInv
    <3>5. QED BY <1>2, <2>2, <3>1, <3>2, <3>3, <3>4 DEF ErrorInv
  <2>20. TransInv(t)'
    <3>1. ASSUME log_run # Null PROVE Lost(t, log_run)'
      <4>1. PICK x \in Page : x = log_run BY <3>1 DEF TypeOK
      <4>2. Lost(s, x) \/ \E q \in Proc : Pending(q) /\ hand[q] = x
        BY <3>1, <4>1, <1>8 DEF Live, TransInv
      <4>3. \A q \in Proc : Pending(q) => hand[q] = h BY <1>10 DEF Pending
      <4>4. Lost(t, x)' BY <4>2, <4>3, <2>18
      <4>5. QED BY <4>1, <4>4, <1>2 DEF Lost
    <3>2. QED BY <3>1, <1>2 DEF TransInv
  <2>21. Live(t)' BY <2>10, <2>11, <2>13, <2>14, <2>17, <2>19, <2>20 DEF Live
  <2>22. QED BY <2>8, <2>9, <2>21
<1>21. QED BY <1>19, <1>20

-----------------------------------------------------------------------------
(* The inductive invariant of the specification. *)

\* init_run_list registers all free pages but the last, in their order.
LEMMA FrontFollows ==
    ASSUME NEW s \in Seq(Page), IsInjective(s), s # <<>>
    PROVE  /\ Front(s) \in Seq(Page) /\ IsInjective(Front(s)) /\ Sorted(Front(s), s)
           /\ ToSet(Front(s)) \subseteq ToSet(s)
           /\ \A x \in ToSet(s) \ ToSet(Front(s)) : x = s[Len(s)]
<1> DEFINE r == Front(s)
           n == Len(s)
<1>1. n \in Nat \ {0} BY SeqFacts
<1>2. r \in Seq(Page) /\ Len(r) = n - 1 /\ \A i \in 1..(n - 1) : r[i] = s[i]
  <2>1. \A k \in 1..Len(s) : /\ SubSeq(s, 1, k - 1) \in Seq(Page)
                              /\ Len(SubSeq(s, 1, k - 1)) = k - 1
                              /\ \A i \in 1..(k - 1) : SubSeq(s, 1, k - 1)[i] = s[i]
    OBVIOUS
  <2>2. n \in 1..Len(s) BY <1>1
  <2>3. QED BY <2>1, <2>2 DEF Front
<1>3. n = Len(s) OBVIOUS
<1> HIDE DEF r, n
<1>4. \A a, b \in 1..n : s[a] = s[b] => a = b BY <1>3, SeqFacts
<1>5. IsInjective(r)
  <2>1. \A a, b \in 1..Len(r) : r[a] = r[b] => a = b BY <1>1, <1>2, <1>4
  <2>2. QED BY <2>1, <1>2, SeqFacts
<1>6. \A i \in 1..(n - 1) : s[i] \in ToSet(r) BY <1>1, <1>2, SeqFacts
<1>7. \A x \in ToSet(r) : x \in ToSet(s)
  <2> TAKE x \in ToSet(r)
  <2>1. PICK i \in 1..Len(r) : r[i] = x BY <1>2, SeqFacts
  <2>2. i \in 1..n /\ s[i] = x BY <2>1, <1>1, <1>2
  <2>3. QED BY <2>2, <1>3, SeqFacts
<1>8. \A x \in ToSet(s) \ ToSet(r) : x = s[n]
  <2> TAKE x \in ToSet(s) \ ToSet(r)
  <2>1. PICK i \in 1..n : s[i] = x BY <1>3, SeqFacts
  <2>2. i \notin 1..(n - 1) BY <2>1, <1>6
  <2>3. i = n BY <2>1, <2>2, <1>1
  <2>4. QED BY <2>1, <2>3
<1>9. ASSUME NEW x \in ToSet(s) \ ToSet(r), NEW y \in ToSet(s), Before(s, x, y) PROVE FALSE
  <2>1. PICK a \in 1..n, b \in 1..n : s[a] = x /\ s[b] = y /\ a < b
    BY <1>3, <1>9, SeqFacts DEF Before
  <2>2. a \in 1..(n - 1) BY <2>1, <1>1
  <2>3. QED BY <2>1, <2>2, <1>6
<1>10. ASSUME NEW x \in ToSet(r), NEW y \in ToSet(r), Before(s, x, y) PROVE Before(r, x, y)
  <2>1. PICK a \in 1..n, b \in 1..n : s[a] = x /\ s[b] = y /\ a < b
    BY <1>3, <1>10, SeqFacts DEF Before
  <2>2. PICK c \in 1..Len(r) : r[c] = y BY <1>2, SeqFacts
  <2>3. c \in 1..n /\ c \in 1..(n - 1) /\ s[c] = y BY <2>2, <1>1, <1>2
  <2>4. c = b BY <2>1, <2>3, <1>4
  <2>5. a \in 1..Len(r) /\ r[a] = x /\ b \in 1..Len(r) /\ r[b] = y
    BY <2>1, <2>2, <2>3, <2>4, <1>1, <1>2
  <2>6. DOMAIN r = 1..Len(r) BY <1>2, SeqFacts
  <2>7. QED BY <2>1, <2>5, <2>6 DEF Before
<1>11. QED BY <1>2, <1>3, <1>5, <1>7, <1>8, <1>9, <1>10 DEF Sorted, r

\* The lists at the end of the boot.
LEMMA InitInv == Init => Inv
<1> SUFFICES ASSUME Init PROVE Inv OBVIOUS
<1> USE PageFacts
<1>1. PICK s \in Seq(Page) : s = FreePages
  <2>1. FreePages \in Seq(Nat) /\ DOMAIN FreePages = 1..Len(FreePages) BY PageAssumption
  <2>2. \A i \in 1..Len(FreePages) : FreePages[i] \in Page BY <2>1 DEF Page, ToSet
  <2>3. FreePages \in Seq(Page) BY <2>1, <2>2
  <2>4. QED BY <2>3
<1>2. /\ IsInjective(s) /\ s # <<>> /\ ToSet(s) \cap UsedPages = {}
      /\ Page = ToSet(s) \cup UsedPages
  BY <1>1, PageAssumption DEF Page
<1>3. Len(s) \in Nat \ {0} /\ DOMAIN s = 1..Len(s) /\ Head(s) = s[1] /\ s[1] \in Page
      /\ \A a, b \in 1..Len(s) : s[a] = s[b] => a = b
  BY <1>2, SeqFacts
<1>4. /\ runs \in Seq(Page) /\ IsInjective(runs) /\ Sorted(runs, s)
      /\ ToSet(runs) \subseteq ToSet(s) /\ \A x \in ToSet(s) \ ToSet(runs) : x = LastPage
  <2>1. runs = Front(s) BY <1>1 DEF Init
  <2>2. QED BY <2>1, <1>1, <1>2, FrontFollows DEF LastPage
<1>5. /\ next \in [Page -> Pointer]
      /\ \A i \in 1..Len(s) : next[s[i]] = IF i = Len(s) THEN Null ELSE s[i + 1]
  <2> DEFINE at(x) == CHOOSE j \in DOMAIN s : s[j] = x
             to(x) == IF x \in UsedPages THEN Junk
                      ELSE IF at(x) = Len(s) THEN Null ELSE s[at(x) + 1]
  <2>1. next = [x \in Page |-> to(x)] BY <1>1 DEF Init
  <2>2. \A i \in 1..Len(s) : at(s[i]) = i BY <1>3
  <2> HIDE DEF at
  <2>3. \A i \in 1..Len(s) : s[i] \in ToSet(s) BY <1>3, SeqFacts
  <2>4. \A i \in 1..Len(s) : i # Len(s) => i + 1 \in 1..Len(s)
    <3>1. \A n \in Nat : \A i \in 1..n : i # n => i + 1 \in 1..n OBVIOUS
    <3>2. Len(s) \in Nat BY <1>3
    <3>3. QED BY <3>1, <3>2
  <2>5. \A i \in 1..Len(s) : to(s[i]) = IF i = Len(s) THEN Null ELSE s[i + 1]
    BY <2>2, <2>3, <1>2
  <2>6. \A x \in Page : to(x) \in Pointer
    <3> TAKE x \in Page
    <3>1. CASE x \in UsedPages BY <3>1
    <3>2. CASE x \notin UsedPages
      <4>1. PICK i \in 1..Len(s) : s[i] = x BY <3>2, <1>2, SeqFacts
      <4>2. i # Len(s) => s[i + 1] \in Page BY <2>4
      <4>3. QED BY <4>1, <4>2, <2>5
    <3>3. QED BY <3>1, <3>2
  <2> HIDE DEF to
  <2>7. \A i \in 1..Len(s) : s[i] \in Page BY <1>2, <2>3
  <2>8. \A x \in Page : next[x] = to(x) BY <2>1
  <2>9. QED BY <2>1, <2>5, <2>6, <2>7, <2>8
<1>6. freelist = s[1] BY <1>1, <1>3 DEF Init
<1>7. IsChain(freelist, next, s) BY <1>2, <1>5, <1>6 DEF IsChain, Nowhere
<1>8. TypeOK
  <2>1. UsedPages \subseteq Page BY <1>2
  <2>2. freelist \in Pointer BY <1>3, <1>6
  <2>3. <<>> \in Seq(Entry) OBVIOUS
  <2>4. lock \in [Home -> Proc \cup {NoProc}] BY DEF Init
  <2>5. trans \in [Proc -> Nat] BY DEF Init
  <2>6. /\ pc \in [Proc -> {"idle", "inside", "spin", "locked", "popped", "registered",
                            "linked", "nmi"}]
        /\ op \in [Proc -> {"kalloc", "kfree"}]
        /\ hand \in [Proc -> Page \cup {Null}]
        /\ addr \in [Proc -> Home]
    BY DEF Init
  <2>7. QED BY <2>1, <2>2, <2>3, <2>4, <2>5, <2>6, <1>4, <1>5 DEF Init, TypeOK
<1>9. /\ kmem = Static /\ used = UsedPages /\ queue = <<>> /\ tracker = NoProc
      /\ stage = "dispatch" /\ recovered = {} /\ bad = {} /\ log_run = Null
      /\ \A p \in Proc : pc[p] = "idle" /\ hand[p] = Null /\ addr[p] = Static
      /\ \A a \in Home : lock[a] = NoProc
  BY DEF Init
<1>10. Uses(s)
  <2>1. ToSet(s) \cap (used \cup {kmem}) = {} /\ kmem \notin used BY <1>2, <1>9
  <2>2. QED BY <1>4, <1>7, <1>9, <2>1 DEF Uses, OneUse
<1>11. InOrder(s) BY <1>4 DEF InOrder
<1>12. LockInv BY <1>9 DEF LockInv, Critical
<1>13. \A p \in Proc : ~Pending(p) /\ ~Taken(p) BY <1>9 DEF Pending, Taken
<1>14. HandInv
  <2>1. \A p \in Proc : hand[p] \notin ToSet(runs) BY <1>4, <1>9, SeqFacts
  <2>2. \A p \in Proc : op[p] = "kalloc" BY DEF Init
  <2>3. QED BY <1>9, <1>13, <2>1, <2>2 DEF HandInv
<1>15. 1..Len(queue) = {} BY <1>9
<1>16. QueueInv BY <1>9, <1>15 DEF QueueInv
<1>17. HitInv BY <1>9, <1>15 DEF HitInv, Waiting
<1>18. ErrorInv(s) /\ TransInv(s) BY <1>9 DEF ErrorInv, TransInv
<1>19. Live(s) BY <1>11, <1>12, <1>14, <1>16, <1>17, <1>18 DEF Live
<1>20. QED BY <1>8, <1>10, <1>19 DEF Inv

\* Every step keeps it.
LEMMA NextInv ==
    ASSUME ~HitWaiters, ~HitAgain, Inv, [Next]_vars
    PROVE  Inv'
<1>1. TypeOK BY DEF Inv
<1>2. PICK s \in Seq(Page) : Uses(s) /\ (~halted => Live(s)) BY DEF Inv
<1>3. SUFFICES TypeOK' /\ \E t : Uses(t)' /\ (~halted' => Live(t)')
  <2>1. \A t : Uses(t)' => t \in Seq(Page) BY DEF Uses, IsChain
  <2>2. QED BY <1>3, <2>1 DEF Inv
<1>4. CASE UNCHANGED vars
  <2>1. UNCHANGED <<freelist, next, runs, kmem, lock, log_run, trans, pc, op, hand, addr,
                    queue, tracker, stage, recovery, recovered, used, bad, halted, nmis, ops>>
    BY <1>4 DEF vars
  <2>2. TypeOK' BY <1>1, <2>1 DEF TypeOK
  <2>3. Uses(s)' BY <1>2, <2>1 DEF Uses, OneUse
  <2>4. \A q \in Proc : (Pending(q)' <=> Pending(q)) /\ (Taken(q)' <=> Taken(q))
    BY <2>1 DEF Pending, Taken
  <2>5. Victim' = Victim /\ Broken' = Broken /\ Waiting' = Waiting
    BY <2>1 DEF Victim, Broken, Waiting
  <2>6. \A x : Lost(s, x)' <=> Lost(s, x) BY <2>1, <2>5 DEF Lost
  <2>7. ASSUME Live(s) PROVE Live(s)'
    <3>1. InOrder(s)' BY <2>1, <2>7 DEF Live, InOrder
    <3>2. LockInv' BY <2>1, <2>5, <2>7 DEF Live, LockInv
    <3>3. HandInv'
      <4>1. Pending(Victim)' <=> Pending(Victim) BY <2>1, <2>5 DEF Pending
      <4>2. QED BY <2>1, <2>4, <2>5, <2>7, <4>1 DEF Live, HandInv
    <3>4. QueueInv' BY <2>1, <2>7 DEF Live, QueueInv
    <3>5. HitInv'
      <4>1. \A i \in Waiting : FirstHit(i) => FirstHit(i)'
        <5> TAKE i \in Waiting
        <5>1. queue[i].pid \in Proc
          BY <1>1, <2>7, QueueFacts DEF Live, Waiting
        <5>2. QED BY <5>1, <2>1, <2>4 DEF FirstHit
      <4>2. QED BY <4>1, <2>1, <2>7, HitKept DEF Live
    <3>6. ErrorInv(s)' BY <2>1, <2>6, <2>7, ErrorKept DEF Live
    <3>7. TransInv(s)' BY <1>1, <2>1, <2>4, <2>6, <2>7, TransKept DEF Live
    <3>8. QED BY <3>1, <3>2, <3>3, <3>4, <3>5, <3>6, <3>7 DEF Live
  <2>8. QED BY <1>2, <2>1, <2>2, <2>3, <2>7
<1>5. CASE Next
  <2> DEFINE Goal == TypeOK' /\ \E t : Uses(t)' /\ (~halted' => Live(t)')
  <2>1. ASSUME NEW p \in Proc, Call(p) PROVE Goal
    <3>1. Live(s) BY <1>2, <2>1 DEF Call, At
    <3>2. QED BY <1>1, <1>2, <2>1, <3>1, CallInv
  <2>2. ASSUME NEW p \in Proc, Evaluate(p) PROVE Goal
    <3>1. Live(s) BY <1>2, <2>2 DEF Evaluate, At
    <3>2. QED BY <1>1, <1>2, <2>2, <3>1, EvaluateInv
  <2>3. ASSUME NEW p \in Proc, Acquire(p) PROVE Goal
    <3>1. Live(s) BY <1>2, <2>3 DEF Acquire, At
    <3>2. QED BY <1>1, <1>2, <2>3, <3>1, AcquireInv
  <2>4. ASSUME NEW p \in Proc, Pop(p) PROVE Goal
    <3>1. Live(s) BY <1>2, <2>4 DEF Pop, At
    <3>2. QED BY <1>1, <1>2, <2>4, <3>1, PopInv
  <2>5. ASSUME NEW p \in Proc, Register(p) PROVE Goal
    <3>1. Live(s) BY <1>2, <2>5 DEF Register, At
    <3>2. QED BY <1>1, <1>2, <2>5, <3>1, RegisterInv
  <2>6. ASSUME NEW p \in Proc, Link(p) PROVE Goal
    <3>1. Live(s) BY <1>2, <2>6 DEF Link, At
    <3>2. QED BY <1>1, <1>2, <2>6, <3>1, LinkInv
  <2>7. ASSUME NEW p \in Proc, Release(p) PROVE Goal
    <3>1. Live(s) BY <1>2, <2>7 DEF Release, At
    <3>2. QED BY <1>1, <1>2, <2>7, <3>1, ReleaseInv
  <2>8. ASSUME NEW p \in Proc, Hit(p) PROVE Goal
    <3>1. Live(s) BY <1>2, <2>8 DEF Hit
    <3>2. QED BY <1>1, <1>2, <2>8, <3>1, ErrorHits
  <2>9. ASSUME KmemSurgery PROVE Goal
    <3>1. Live(s) BY <1>2, <2>9 DEF KmemSurgery, Handling
    <3>2. QED BY <1>1, <1>2, <2>9, <3>1, KmemSurgeryInv
  <2>10. ASSUME Rollback PROVE Goal
    <3>1. Live(s) BY <1>2, <2>10 DEF Rollback, Handling
    <3>2. QED BY <1>1, <1>2, <2>10, <3>1, RollbackInv
  <2>11. ASSUME EndTrans PROVE Goal
    <3>1. Live(s) BY <1>2, <2>11 DEF EndTrans, Handling
    <3>2. QED BY <1>1, <1>2, <2>11, <3>1, EndTransInv
  <2>12. ASSUME RunSurgery PROVE Goal
    <3>1. Live(s) BY <1>2, <2>12 DEF RunSurgery, Handling
    <3>2. QED BY <1>1, <1>2, <2>12, <3>1, RunSurgeryInv
  <2>13. ASSUME MyPop PROVE Goal
    <3>1. Live(s) BY <1>2, <2>13 DEF MyPop, Handling
    <3>2. QED BY <1>1, <1>2, <2>13, <3>1, MyPopInv
  <2>14. ASSUME MyDelete PROVE Goal
    <3>1. Live(s) BY <1>2, <2>14 DEF MyDelete, Handling
    <3>2. QED BY <1>1, <1>2, <2>14, <3>1, MyDeleteInv
  <2>15. ASSUME NotFound PROVE Goal
    <3>1. Live(s) BY <1>2, <2>15 DEF NotFound, Handling
    <3>2. QED BY <1>1, <1>2, <2>15, <3>1, NotFoundInv
  <2>16. ASSUME FailStop PROVE Goal
    <3>1. Live(s) BY <1>2, <2>16 DEF FailStop, Handling
    <3>2. QED BY <1>1, <1>2, <2>16, <3>1, FailStopInv
  <2>17. ASSUME Leave PROVE Goal
    <3>1. Live(s) BY <1>2, <2>17 DEF Leave, Handling
    <3>2. QED BY <1>1, <1>2, <2>17, <3>1, LeaveInv
  <2> HIDE DEF Goal
  <2>18. ASSUME NEW p \in Proc, \/ Call(p) \/ Evaluate(p) \/ Acquire(p) \/ Pop(p)
                              \/ Register(p) \/ Link(p) \/ Release(p) \/ Hit(p)
         PROVE  Goal
    BY <2>18, <2>1, <2>2, <2>3, <2>4, <2>5, <2>6, <2>7, <2>8
  <2>19. ASSUME Tracker PROVE Goal
    BY <2>19, <2>9, <2>10, <2>11, <2>12, <2>13, <2>14, <2>15, <2>16, <2>17 DEF Tracker
  <2>20. Goal BY <1>5, <2>18, <2>19 DEF Next
  <2>21. QED BY <2>20 DEF Goal
<1>6. QED BY <1>4, <1>5
-----------------------------------------------------------------------------
(* What follows from it. *)

\* Any set of natural numbers has a least one.
LEMMA LeastNumber ==
    ASSUME NEW S, S \subseteq Nat, S # {}
    PROVE  \E m \in S : \A k \in S : m <= k
<1>1. \E m \in S : \A k \in S : ~ (<<k, m>> \in OpToRel(<, Nat))
  BY WFMin, NatLessThanWellFounded
<1>2. PICK m \in S : \A k \in S : ~ (<<k, m>> \in OpToRel(<, Nat))
  BY <1>1
<1>3. \A k \in S : ~ (k < m)
  BY <1>2 DEF OpToRel
<1>4. QED BY <1>3

\* A list of different pages has at most as many as there are.
LEMMA ListFits ==
    ASSUME NEW s \in Seq(Page), IsInjective(s)
    PROVE  Cardinality(Page) \in Nat /\ Len(s) <= Cardinality(Page)
<1>1. IsFiniteSet(ToSet(FreePages))
  <2>1. FreePages \in Seq(Nat) /\ Len(FreePages) \in Nat /\ DOMAIN FreePages = 1..Len(FreePages)
    BY PageAssumption
  <2>2. IsFiniteSet(1..Len(FreePages)) BY <2>1, FS_Interval
  <2>3. FreePages \in [1..Len(FreePages) -> ToSet(FreePages)] BY <2>1 DEF ToSet
  <2>4. \A x \in ToSet(FreePages) : \E i \in 1..Len(FreePages) : FreePages[i] = x
    BY <2>1 DEF ToSet
  <2>5. FreePages \in Surjection(1..Len(FreePages), ToSet(FreePages))
    BY <2>3, <2>4 DEF Surjection
  <2>6. QED BY <2>2, <2>5, FS_Surjection
<1>2. IsFiniteSet(Page) BY <1>1, PageAssumption, FS_Union DEF Page
<1>3. Cardinality(Page) \in Nat BY <1>2, FS_CardinalityType
<1>4. PICK n \in Nat : n = Len(s) BY SeqFacts
<1>5. s \in [1..n -> Page] BY <1>4
<1>6. s \in Injection(1..n, Page) BY <1>5 DEF Injection
<1>7. Cardinality(1..n) <= Cardinality(Page) BY <1>2, <1>6, FS_Injection
<1>8. Cardinality(1..n) = n
  <2>1. n \in Int /\ 1 \in Int /\ (n < 1 => n = 0) /\ n - 1 + 1 = n OBVIOUS
  <2>2. Cardinality(1..n) = IF 1 > n THEN 0 ELSE n - 1 + 1 BY <2>1, FS_Interval
  <2>3. QED BY <2>1, <2>2
<1>9. QED BY <1>3, <1>4, <1>7, <1>8

\* The pages that n steps from f may reach.
Steps(f, nx, R) ==
    R = [n \in Nat |-> IF n = 0 THEN {f} ELSE R[n - 1] \cup {nx[x] : x \in R[n - 1] \cap Page}]

\* The end of the free list.
LEMMA ChainEnds ==
    ASSUME NEW f, NEW nx, NEW s, IsChain(f, nx, s)
    PROVE  \E c : /\ DOMAIN c = 1..(Len(s) + 1) /\ c[1] = f /\ c[Len(s) + 1] \in Nowhere
                  /\ \A i \in 1..Len(s) : c[i] = s[i] /\ c[i] \in Page /\ nx[c[i]] = c[i + 1]
<1>1. s \in Seq(Page) /\ Len(s) \in Nat BY DEF IsChain
<1>2. PICK e : e \in Nowhere /\ (s = <<>> => e = f) /\ (s # <<>> => e = nx[s[Len(s)]])
  <2>1. CASE s = <<>> BY <2>1 DEF IsChain
  <2>2. CASE s # <<>>
    <3>1. Len(s) \in 1..Len(s) BY <1>1, <2>2
    <3>2. nx[s[Len(s)]] \in Nowhere BY <3>1 DEF IsChain
    <3>3. QED BY <2>2, <3>2
  <2>3. QED BY <2>1, <2>2
<1> DEFINE c == [i \in 1..(Len(s) + 1) |-> IF i = Len(s) + 1 THEN e ELSE s[i]]
<1>3. DOMAIN c = 1..(Len(s) + 1) /\ c[Len(s) + 1] = e BY <1>1
<1>4. \A i \in 1..Len(s) : c[i] = s[i] /\ c[i] \in Page BY <1>1
<1>5. \A i \in 1..Len(s) : i # Len(s) => c[i + 1] = s[i + 1] BY <1>1
<1> HIDE DEF c
<1>6. \A i \in 1..Len(s) : nx[s[i]] = c[i + 1]
  <2> TAKE i \in 1..Len(s)
  <2>1. IF i = Len(s) THEN nx[s[i]] \in Nowhere ELSE nx[s[i]] = s[i + 1] BY DEF IsChain
  <2>2. s # <<>> BY <1>1
  <2>3. QED BY <2>1, <2>2, <1>2, <1>3, <1>5
<1>7. c[1] = f
  <2>1. CASE s = <<>> BY <2>1, <1>2, <1>3
  <2>2. CASE s # <<>>
    <3>1. 1 \in 1..Len(s) BY <1>1, <2>2
    <3>2. QED BY <2>2, <3>1, <1>4 DEF IsChain
  <2>3. QED BY <2>1, <2>2
<1>8. QED BY <1>2, <1>3, <1>4, <1>6, <1>7

\* Following the free list reaches its pages and its end.
LEMMA ReachedPages ==
    ASSUME NEW s, IsChain(freelist, next, s)
    PROVE  \E e \in Nowhere : Reached = ToSet(s) \cup {e}
<1> DEFINE k == Len(s)
           f == freelist
           nx == next
<1>1. s \in Seq(Page) /\ IsInjective(s) /\ k \in Nat BY DEF IsChain
<1>2. Cardinality(Page) \in Nat /\ k <= Cardinality(Page) BY <1>1, ListFits
<1>3. PICK c : /\ c[1] = f /\ c[k + 1] \in Nowhere
               /\ \A i \in 1..k : c[i] = s[i] /\ c[i] \in Page /\ nx[c[i]] = c[i + 1]
  BY ChainEnds
<1>4. c[k + 1] \notin Page BY <1>3, PageFacts
<1> DEFINE W == [n \in Nat |-> {c[i] : i \in {j \in 1..(k + 1) : j <= n + 1}}]
<1>5. Steps(f, nx, W)
  <2>1. W[0] = {f}
    <3>1. {j \in 1..(k + 1) : j <= 0 + 1} = {1} BY <1>1
    <3>2. QED BY <3>1, <1>3
  <2>2. \A n \in Nat \ {0} : W[n] = W[n - 1] \cup {nx[x] : x \in W[n - 1] \cap Page}
    <3> TAKE n \in Nat \ {0}
    <3>1. n - 1 \in Nat /\ (n - 1) + 1 = n OBVIOUS
    <3>2. /\ W[n] = {c[i] : i \in {j \in 1..(k + 1) : j <= n + 1}}
          /\ W[n - 1] = {c[i] : i \in {j \in 1..(k + 1) : j <= n}}
      BY <3>1
    <3> HIDE DEF W, k, f, nx
    <3>3. ASSUME NEW y \in W[n] PROVE y \in W[n - 1] \cup {nx[x] : x \in W[n - 1] \cap Page}
      <4>1. PICK i \in 1..(k + 1) : i <= n + 1 /\ c[i] = y BY <3>2, <3>3
      <4>2. CASE i <= n BY <4>1, <4>2, <3>2
      <4>3. CASE ~ (i <= n)
        <5>1. i - 1 \in 1..k /\ i - 1 \in 1..(k + 1) /\ i - 1 <= n /\ (i - 1) + 1 = i
          BY <4>1, <4>3, <1>1
        <5>2. c[i - 1] \in W[n - 1] BY <5>1, <3>2
        <5>3. c[i - 1] \in Page /\ nx[c[i - 1]] = y BY <5>1, <4>1, <1>3
        <5>4. QED BY <5>2, <5>3
      <4>4. QED BY <4>2, <4>3
    <3>4. ASSUME NEW y \in W[n - 1] PROVE y \in W[n]
      <4>1. PICK i \in 1..(k + 1) : i <= n /\ c[i] = y BY <3>2, <3>4
      <4>2. i <= n + 1 BY <4>1, <1>1
      <4>3. QED BY <4>1, <4>2, <3>2
    <3>5. ASSUME NEW x \in W[n - 1] \cap Page PROVE nx[x] \in W[n]
      <4>1. PICK i \in 1..(k + 1) : i <= n /\ c[i] = x BY <3>2, <3>5
      <4>2. i # k + 1 BY <4>1, <3>5, <1>4
      <4>3. i \in 1..k /\ i + 1 \in 1..(k + 1) /\ i + 1 <= n + 1 BY <4>1, <4>2, <1>1
      <4>4. nx[x] = c[i + 1] BY <4>1, <4>3, <1>3
      <4>5. QED BY <4>3, <4>4, <3>2
    <3>6. QED BY <3>3, <3>4, <3>5
  <2>3. W = [n \in Nat |-> W[n]] OBVIOUS
  <2> HIDE DEF W, f, nx
  <2>4. \A n \in Nat : W[n] = IF n = 0 THEN {f}
                              ELSE W[n - 1] \cup {nx[x] : x \in W[n - 1] \cap Page}
    BY <2>1, <2>2
  <2>5. QED BY <2>3, <2>4 DEF Steps
<1>6. W[Cardinality(Page)] = ToSet(s) \cup {c[k + 1]}
  <2>1. W[Cardinality(Page)] = {c[i] : i \in {j \in 1..(k + 1) : j <= Cardinality(Page) + 1}}
    BY <1>2
  <2>2. {j \in 1..(k + 1) : j <= Cardinality(Page) + 1} = 1..(k + 1) BY <1>1, <1>2
  <2> HIDE DEF W
  <2>3. W[Cardinality(Page)] = {c[i] : i \in 1..(k + 1)} BY <2>1, <2>2
  <2>4. k = Len(s) OBVIOUS
  <2> HIDE DEF k
  <2>5. ASSUME NEW y \in W[Cardinality(Page)] PROVE y \in ToSet(s) \cup {c[k + 1]}
    <3>1. PICK i \in 1..(k + 1) : c[i] = y BY <2>3, <2>5
    <3>2. CASE i = k + 1 BY <3>1, <3>2
    <3>3. CASE i # k + 1
      <4>1. i \in 1..k BY <3>1, <3>3, <1>1
      <4>2. y = s[i] BY <3>1, <4>1, <1>3
      <4>3. QED BY <4>1, <4>2, <2>4, <1>1, SeqFacts
    <3>4. QED BY <3>2, <3>3
  <2>6. ASSUME NEW y \in ToSet(s) PROVE y \in W[Cardinality(Page)]
    <3>1. PICK i \in 1..k : s[i] = y BY <2>4, <2>6, <1>1, SeqFacts
    <3>2. i \in 1..(k + 1) /\ c[i] = y BY <3>1, <1>1, <1>3
    <3>3. QED BY <3>2, <2>3
  <2>7. c[k + 1] \in W[Cardinality(Page)]
    <3>1. k + 1 \in 1..(k + 1) BY <1>1
    <3>2. QED BY <3>1, <2>3
  <2>8. QED BY <2>5, <2>6, <2>7
<1> HIDE DEF W
\* the recursive function of the definition is W
<1> DEFINE R == CHOOSE r : Steps(f, nx, r)
<1>7. Steps(f, nx, R) BY <1>5
<1> HIDE DEF R
<1>8. R[Cardinality(Page)] = W[Cardinality(Page)]
  <2> DEFINE Diff == {n \in Nat : R[n] # W[n]}
  <2>1. ASSUME Diff # {} PROVE FALSE
    <3>1. Diff \subseteq Nat OBVIOUS
    <3>2. PICK m \in Diff : \A j \in Diff : m <= j BY <2>1, <3>1, LeastNumber
    <3>3. /\ \A n \in Nat : R[n] = IF n = 0 THEN {f}
                                   ELSE R[n - 1] \cup {nx[x] : x \in R[n - 1] \cap Page}
          /\ \A n \in Nat : W[n] = IF n = 0 THEN {f}
                                   ELSE W[n - 1] \cup {nx[x] : x \in W[n - 1] \cap Page}
      BY <1>5, <1>7 DEF Steps
    <3>4. m # 0 BY <3>2, <3>3
    <3>5. m - 1 \in Nat /\ ~ (m <= m - 1) BY <3>2, <3>4
    <3>6. R[m - 1] = W[m - 1] BY <3>2, <3>5
    <3>7. R[m] = W[m] BY <3>2, <3>3, <3>4, <3>6
    <3>8. QED BY <3>2, <3>7
  <2>2. QED BY <2>1, <1>2
<1>9. Reached = R[Cardinality(Page)] BY DEF Reached, R, Steps
<1>10. QED BY <1>3, <1>6, <1>8, <1>9

\* NoDoubleUse
LEMMA InvNoDoubleUse == Inv => NoDoubleUse
<1> SUFFICES ASSUME Inv PROVE NoDoubleUse OBVIOUS
<1>1. PICK s \in Seq(Page) : Uses(s) BY DEF Inv
<1>2. PICK e \in Nowhere : Reached = ToSet(s) \cup {e} BY <1>1, ReachedPages DEF Uses
<1>3. e \notin Page BY PageFacts
<1>4. FreeChain = ToSet(s) BY <1>1, <1>2, <1>3, SeqFacts DEF FreeChain
<1>5. QED BY <1>1, <1>2, <1>3, <1>4 DEF NoDoubleUse, Uses, OneUse

\* The page that follows a registered page in the free list is the next one in
\* the M-List, or the last one of all.
LEMMA NextRegistered ==
    ASSUME TypeOK, NEW s \in Seq(Page), Uses(s), InOrder(s),
           NEW i \in DOMAIN runs, runs[i] \in ToSet(s), next[runs[i]] \in Page
    PROVE  \E j \in i + 1 .. Len(runs) + 1 : next[runs[i]] = Append(runs, LastPage)[j]
<1>1. /\ runs \in Seq(Page) /\ IsInjective(runs) /\ i \in 1..Len(runs) /\ Len(runs) \in Nat
      /\ \A a, b \in 1..Len(runs) : runs[a] = runs[b] => a = b
      /\ DOMAIN runs = 1..Len(runs)
  BY SeqFacts DEF TypeOK, Uses, OneUse
<1>2. /\ IsInjective(s) /\ Len(s) \in Nat /\ DOMAIN s = 1..Len(s) BY SeqFacts DEF Uses, IsChain
<1>3. PICK a \in 1..Len(s) : s[a] = runs[i] BY SeqFacts
<1>4. next[s[a]] \notin Nowhere BY <1>3, PageFacts
<1>5. a # Len(s) /\ next[s[a]] = s[a + 1] BY <1>4 DEF Uses, IsChain
<1>6. a + 1 \in 1..Len(s) /\ a < a + 1
  <2>1. \A n \in Nat : \A x \in 1..n : x # n => x + 1 \in 1..n /\ x < x + 1 OBVIOUS
  <2>2. QED BY <2>1, <1>2, <1>5
<1>7. PICK y : y = s[a + 1] OBVIOUS
<1>8. y \in ToSet(s) /\ next[runs[i]] = y BY <1>3, <1>5, <1>6, <1>7, SeqFacts
<1>9. LastPage \in Page
  <2>1. FreePages \in Seq(Nat) /\ Len(FreePages) \in 1..Len(FreePages) BY PageAssumption
  <2>2. QED BY <2>1 DEF LastPage, Page, ToSet
<1>10. CASE y \notin ToSet(runs)
  <2>1. y = LastPage BY <1>8, <1>10 DEF InOrder
  <2>2. Len(runs) + 1 \in i + 1 .. Len(runs) + 1 BY <1>1
  <2>3. Append(runs, LastPage)[Len(runs) + 1] = LastPage BY <1>1, <1>9, AppendFacts
  <2>4. QED BY <1>8, <2>1, <2>2, <2>3
<1>11. CASE y \in ToSet(runs)
  <2>1. Before(s, runs[i], y) BY <1>2, <1>3, <1>6, <1>7 DEF Before
  <2>2. runs[i] \in ToSet(runs) BY <1>1, SeqFacts
  <2>3. Before(runs, runs[i], y) BY <1>11, <2>1, <2>2 DEF InOrder, Sorted
  <2>4. PICK b \in 1..Len(runs), d \in 1..Len(runs) : runs[b] = runs[i] /\ runs[d] = y /\ b < d
    BY <1>1, <2>3 DEF Before
  <2>5. b = i BY <1>1, <2>4
  <2>6. d \in i + 1 .. Len(runs) + 1 BY <1>1, <2>4, <2>5
  <2>7. Append(runs, LastPage)[d] = runs[d] BY <1>1, <1>9, AppendFacts
  <2>8. QED BY <1>8, <2>4, <2>6, <2>7
<1>12. QED BY <1>10, <1>11

\* RunListExact
LEMMA InvRunListExact == Inv => RunListExact
<1> SUFFICES ASSUME Inv PROVE RunListExact OBVIOUS
<1>1. TypeOK BY DEF Inv
<1>2. PICK s \in Seq(Page) : Uses(s) /\ (~halted => Live(s)) BY DEF Inv
<1>3. RunsUnused BY <1>2 DEF RunsUnused, Uses, OneUse
<1>4. PICK e \in Nowhere : Reached = ToSet(s) \cup {e} BY <1>2, ReachedPages DEF Uses
<1>5. FreeChain = ToSet(s) BY <1>2, <1>4, PageFacts, SeqFacts DEF FreeChain
<1>6. Last(FreePages) = LastPage BY DEF Last, LastPage
<1>7. ASSUME ~halted, Quiet PROVE /\ FreeChain \subseteq ToSet(runs) \cup {Last(FreePages)}
                                 /\ \A i \in DOMAIN runs : runs[i] \in FreeChain /\ next[runs[i]] \in Page =>
                                      \E j \in i + 1 .. Len(runs) + 1 :
                                         next[runs[i]] = Append(runs, Last(FreePages))[j]
  <2>1. InOrder(s) BY <1>2, <1>7 DEF Live
  <2>2. ToSet(s) \subseteq ToSet(runs) \cup {LastPage} BY <2>1 DEF InOrder
  <2>3. \A i \in DOMAIN runs : runs[i] \in ToSet(s) /\ next[runs[i]] \in Page =>
          \E j \in i + 1 .. Len(runs) + 1 : next[runs[i]] = Append(runs, LastPage)[j]
    BY <1>1, <1>2, <2>1, NextRegistered
  <2>4. QED BY ONLY <2>2, <2>3, <1>5, <1>6
<1>8. FreeRegistered BY <1>7 DEF FreeRegistered
<1>9. QED BY <1>1, <1>3, <1>8 DEF RunListExact

\* A page has one use: kalloc never returns a page that is in use, that is
\* struct kmem, or that stays on the free list, and the free list that the
\* handlers rebuild has an end.  The first error in struct kmem or in a free
\* page is met by the holder of the lock, and the rebuilt lists are not hit.
THEOREM PagesUsedOnce ==
    ASSUME ~HitWaiters, ~HitAgain
    PROVE  Spec => []NoDoubleUse
<1>1. Init => Inv BY InitInv
<1>2. Inv /\ [Next]_vars => Inv' BY NextInv
<1>3. Inv => NoDoubleUse BY InvNoDoubleUse
<1>4. QED BY <1>1, <1>2, <1>3, PTL DEF Spec

\* The handlers find no page in the M-List that is in use, and, while nobody
\* works on the free list, every free page but the one that init_run_list left
\* out, in the order of the free list: before and after the first struct kmem
\* was replaced, under the same two conditions.
THEOREM RunListStaysExact ==
    ASSUME ~HitWaiters, ~HitAgain
    PROVE  Spec => []RunListExact
<1>1. Init => Inv BY InitInv
<1>2. Inv /\ [Next]_vars => Inv' BY NextInv
<1>3. Inv => RunListExact BY InvRunListExact
<1>4. QED BY <1>1, <1>2, <1>3, PTL DEF Spec
=============================================================================
