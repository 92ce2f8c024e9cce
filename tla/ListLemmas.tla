----------------------------- MODULE ListLemmas -----------------------------
(* Lists without repetitions: what taking out and putting in an element do. *)
(* Induction over the numbers; lists of lists, one after another.           *)
EXTENDS Integers, Sequences, SequencesExt, SequenceTheorems, WellFoundedInduction, TLAPS

\* RemoveAt drops the element at its position and closes the gap.
LEMMA RemoveAtIs ==
  ASSUME NEW S, NEW s \in Seq(S), NEW p \in 1..Len(s)
  PROVE  /\ RemoveAt(s, p) \in Seq(S)
         /\ Len(RemoveAt(s, p)) = Len(s) - 1
         /\ \A j \in 1..(Len(s) - 1) :
              RemoveAt(s, p)[j] = IF j < p THEN s[j] ELSE s[j + 1]
<1> DEFINE a == SubSeq(s, 1, p - 1)
           b == SubSeq(s, p + 1, Len(s))
<1>1. /\ a \in Seq(S) /\ Len(a) = p - 1
      /\ \A i \in 1..(p - 1) : a[i] = s[i]
  <2>1. \A i \in 1..(p - 1) : s[i] \in S
    BY ElementOfSeq
  <2> QED BY <2>1, SubSeqProperties, LenProperties
<1>2. /\ b \in Seq(S) /\ Len(b) = Len(s) - p
      /\ \A i \in 1..(Len(s) - p) : b[i] = s[p + i]
  <2>1. \A i \in (p + 1)..Len(s) : s[i] \in S
    BY ElementOfSeq, LenProperties
  <2> QED BY <2>1, SubSeqProperties, LenProperties
<1>3. RemoveAt(s, p) = a \o b
  BY DEF RemoveAt
<1> HIDE DEF a, b
<1>4. Len(s) \in Nat
  BY LenProperties
<1>5. /\ a \o b \in Seq(S)
      /\ Len(a \o b) = Len(a) + Len(b)
      /\ \A i \in 1..(Len(a) + Len(b)) :
           (a \o b)[i] = IF i <= Len(a) THEN a[i] ELSE b[i - Len(a)]
  BY <1>1, <1>2, ConcatProperties
<1>6. ASSUME NEW j \in 1..(Len(s) - 1)
      PROVE  (a \o b)[j] = IF j < p THEN s[j] ELSE s[j + 1]
  <2>1. CASE j < p
    BY <2>1, <1>1, <1>2, <1>4, <1>5
  <2>2. CASE ~(j < p)
    <3>1. j - (p - 1) \in 1..(Len(s) - p) /\ p + (j - (p - 1)) = j + 1
      BY <2>2, <1>4
    <3>2. b[j - (p - 1)] = s[j + 1]
      BY <3>1, <1>2
    <3> QED BY <3>2, <2>2, <1>1, <1>2, <1>4, <1>5
  <2> QED BY <2>1, <2>2
<1>7. Len(a \o b) = Len(s) - 1
  BY <1>1, <1>2, <1>4, <1>5
<1> QED BY <1>3, <1>5, <1>6, <1>7

\* Tail removes the head of a non-empty list without repetitions.
LEMMA TailIs ==
  ASSUME NEW S, NEW s \in Seq(S), s # <<>>, IsInjective(s)
  PROVE  /\ Head(s) \in S
         /\ Contains(s, Head(s))
         /\ Tail(s) \in Seq(S)
         /\ IsInjective(Tail(s))
         /\ \A m : Contains(Tail(s), m) <=> Contains(s, m) /\ m # Head(s)
         /\ Len(Tail(s)) = Len(s) - 1
<1>1. /\ Head(s) \in S
      /\ Tail(s) \in Seq(S)
      /\ Len(Tail(s)) = Len(s) - 1
      /\ \A i \in 1..(Len(s) - 1) : Tail(s)[i] = s[i + 1]
      /\ Len(s) \in Nat \ {0}
      /\ DOMAIN s = 1..Len(s)
      /\ DOMAIN Tail(s) = 1..(Len(s) - 1)
      /\ Head(s) = s[1]
  BY HeadTailProperties, LenProperties, EmptySeq
<1> DEFINE t == Tail(s)  h == Head(s)
<1> HIDE DEF t, h
<1>2. Contains(s, h)
  BY <1>1 DEF Contains, h
<1>3. IsInjective(t)
  BY <1>1 DEF IsInjective, t
<1>4. ASSUME NEW m, Contains(t, m) PROVE Contains(s, m) /\ m # h
  BY <1>1, <1>4 DEF Contains, IsInjective, t, h
<1>5. ASSUME NEW m, Contains(s, m), m # h PROVE Contains(t, m)
  <2>1. PICK i \in 1..Len(s) : s[i] = m
    BY <1>5 DEF Contains
  <2>2. (i - 1) \in 1..(Len(s) - 1) /\ (i - 1) + 1 = i
    BY <1>1, <2>1, <1>5 DEF h
  <2>3. t[i - 1] = m
    BY <2>1, <2>2, <1>1 DEF t
  <2> QED BY <2>2, <2>3, <1>1 DEF Contains, t
<1> QED BY <1>1, <1>2, <1>3, <1>4, <1>5 DEF t, h

\* Append and Cons add one node.
LEMMA AppendIs ==
  ASSUME NEW S, NEW s \in Seq(S), NEW n \in S, IsInjective(s), ~Contains(s, n)
  PROVE  /\ Append(s, n) \in Seq(S)
         /\ IsInjective(Append(s, n))
         /\ \A m : Contains(Append(s, n), m) <=> Contains(s, m) \/ m = n
         /\ Len(Append(s, n)) = Len(s) + 1
<1> DEFINE u == Append(s, n)
<1>1. /\ u \in Seq(S)
      /\ Len(u) = Len(s) + 1
      /\ \A i \in 1..Len(s) : u[i] = s[i]
      /\ u[Len(s) + 1] = n
      /\ Len(s) \in Nat
      /\ DOMAIN s = 1..Len(s)
      /\ DOMAIN u = 1..(Len(s) + 1)
  BY AppendProperties, LenProperties
<1> HIDE DEF u
<1>2. IsInjective(u)
  BY <1>1 DEF IsInjective, Contains
<1>3. ASSUME NEW m PROVE Contains(u, m) <=> Contains(s, m) \/ m = n
  BY <1>1 DEF Contains
<1> QED BY <1>1, <1>2, <1>3 DEF u

\* Append adds what it appends, repeated or not.
LEMMA AppendContains ==
  ASSUME NEW S, NEW s \in Seq(S), NEW n \in S
  PROVE  \A m : Contains(Append(s, n), m) <=> Contains(s, m) \/ m = n
<1> DEFINE u == Append(s, n)
<1>1. /\ Len(u) = Len(s) + 1 /\ u[Len(s) + 1] = n /\ Len(s) \in Nat
      /\ \A i \in 1..Len(s) : u[i] = s[i]
  BY AppendProperties, LenProperties
<1> HIDE DEF u
<1>2. \A m : Contains(u, m) <=> Contains(s, m) \/ m = n
  BY <1>1 DEF Contains
<1> QED BY <1>2 DEF u

\* Cons adds one node at the front.
LEMMA ConsIs ==
  ASSUME NEW S, NEW s \in Seq(S), NEW n \in S, IsInjective(s), ~Contains(s, n)
  PROVE  /\ Cons(n, s) \in Seq(S)
         /\ IsInjective(Cons(n, s))
         /\ \A m : Contains(Cons(n, s), m) <=> Contains(s, m) \/ m = n
         /\ Len(Cons(n, s)) = Len(s) + 1
<1> DEFINE u == Cons(n, s)
<1>1. /\ u \in Seq(S)
      /\ Len(u) = Len(s) + 1
      /\ u[1] = n
      /\ \A i \in 2..(Len(s) + 1) : u[i] = s[i - 1]
      /\ Len(s) \in Nat
      /\ DOMAIN s = 1..Len(s)
      /\ DOMAIN u = 1..(Len(s) + 1)
  BY ConcatProperties, LenProperties DEF Cons
<1> HIDE DEF u
<1>2. IsInjective(u)
  <2>1. ASSUME NEW i \in 2..(Len(s) + 1) PROVE u[i] # n
    <3>1. i - 1 \in 1..Len(s)
      BY <1>1
    <3> QED BY <3>1, <1>1 DEF Contains
  <2>2. ASSUME NEW i \in 2..(Len(s) + 1), NEW j \in 2..(Len(s) + 1), u[i] = u[j]
        PROVE  i = j
    <3>1. i - 1 \in 1..Len(s) /\ j - 1 \in 1..Len(s) /\ s[i - 1] = s[j - 1]
      BY <1>1, <2>2
    <3>2. i - 1 = j - 1
      BY <3>1, <1>1 DEF IsInjective
    <3> QED BY <3>2
  <2>3. \A i \in 1..(Len(s) + 1) : i = 1 \/ i \in 2..(Len(s) + 1)
    BY <1>1
  <2> QED BY <1>1, <2>1, <2>2, <2>3 DEF IsInjective
<1>3. ASSUME NEW m, Contains(u, m) PROVE Contains(s, m) \/ m = n
  BY <1>1, <1>3 DEF Contains
<1>4. ASSUME NEW m, Contains(s, m) \/ m = n PROVE Contains(u, m)
  <2>1. CASE m = n
    BY <1>1, <2>1 DEF Contains
  <2>2. CASE Contains(s, m)
    <3>1. PICK i \in 1..Len(s) : s[i] = m
      BY <2>2 DEF Contains
    <3>2. i + 1 \in 2..(Len(s) + 1) /\ (i + 1) - 1 = i
      BY <3>1, <1>1
    <3>3. u[i + 1] = m
      BY <3>1, <3>2, <1>1
    <3> QED BY <3>2, <3>3, <1>1 DEF Contains
  <2> QED BY <1>4, <2>1, <2>2
<1> QED BY <1>1, <1>2, <1>3, <1>4 DEF u

----------------------------------------------------------------------------
(* Concatenation.                                                          *)

\* Three lists, one after another.
Grouped(a, b, c) == (a \o b) \o c = a \o (b \o c)

LEMMA Groups ==
  ASSUME NEW S, NEW a \in Seq(S), NEW b \in Seq(S), NEW c \in Seq(S)
  PROVE  Grouped(a, b, c)
BY ConcatAssociative DEF Grouped

\* What is in two lists joined is in one of them.
LEMMA ConcatContains ==
  ASSUME NEW S, NEW s \in Seq(S), NEW t \in Seq(S)
  PROVE  \A x : Contains(s \o t, x) <=> Contains(s, x) \/ Contains(t, x)
<1> DEFINE u == s \o t
<1>1. /\ Len(u) = Len(s) + Len(t) /\ Len(s) \in Nat /\ Len(t) \in Nat
      /\ \A i \in 1..(Len(s) + Len(t)) : u[i] = IF i <= Len(s) THEN s[i] ELSE t[i - Len(s)]
  BY ConcatProperties, LenProperties
<1> HIDE DEF u
<1>2. ASSUME NEW x, Contains(u, x) PROVE Contains(s, x) \/ Contains(t, x)
  <2>1. PICK i \in 1..(Len(s) + Len(t)) : u[i] = x
    BY <1>1, <1>2 DEF Contains
  <2>2. CASE i <= Len(s)
    BY <2>1, <2>2, <1>1 DEF Contains
  <2>3. CASE ~(i <= Len(s))
    <3>1. i - Len(s) \in 1..Len(t) /\ t[i - Len(s)] = x
      BY <2>1, <2>3, <1>1
    <3> QED BY <3>1 DEF Contains
  <2> QED BY <2>2, <2>3
<1>3. ASSUME NEW x, Contains(s, x) PROVE Contains(u, x)
  <2>1. PICK i \in 1..Len(s) : s[i] = x
    BY <1>3 DEF Contains
  <2>2. i \in 1..(Len(s) + Len(t)) /\ u[i] = x
    BY <2>1, <1>1
  <2> QED BY <2>2, <1>1 DEF Contains
<1>4. ASSUME NEW x, Contains(t, x) PROVE Contains(u, x)
  <2>1. PICK i \in 1..Len(t) : t[i] = x
    BY <1>4 DEF Contains
  <2>2. i + Len(s) \in 1..(Len(s) + Len(t)) /\ ~(i + Len(s) <= Len(s)) /\ (i + Len(s)) - Len(s) = i
    BY <2>1, <1>1
  <2>3. u[i + Len(s)] = x
    BY <2>1, <2>2, <1>1
  <2> QED BY <2>2, <2>3, <1>1 DEF Contains
<1> QED BY <1>2, <1>3, <1>4 DEF u

\* Two lists joined repeat nothing when neither does and they share nothing.
LEMMA ConcatInjective ==
  ASSUME NEW S, NEW s \in Seq(S), NEW t \in Seq(S)
  PROVE  IsInjective(s \o t) <=> /\ IsInjective(s) /\ IsInjective(t)
                                 /\ \A x : ~(Contains(s, x) /\ Contains(t, x))
<1> DEFINE u == s \o t  m == Len(s)  n == Len(t)
<1>1. /\ Len(u) = m + n /\ m \in Nat /\ n \in Nat
      /\ \A i \in 1..(m + n) : u[i] = IF i <= m THEN s[i] ELSE t[i - m]
      /\ DOMAIN s = 1..m /\ DOMAIN t = 1..n /\ DOMAIN u = 1..(m + n)
  BY ConcatProperties, LenProperties
<1>2. /\ \A x : Contains(s, x) <=> \E i \in 1..m : s[i] = x
      /\ \A x : Contains(t, x) <=> \E i \in 1..n : t[i] = x
  BY DEF Contains
<1> HIDE DEF u, m, n
<1>3. /\ \A i \in 1..m : i \in 1..(m + n) /\ u[i] = s[i]
      /\ \A i \in 1..n : i + m \in 1..(m + n) /\ u[i + m] = t[i]
  <2>1. ASSUME NEW i \in 1..n PROVE i + m \in 1..(m + n) /\ u[i + m] = t[i]
    <3>1. i + m \in 1..(m + n) /\ ~(i + m <= m) /\ (i + m) - m = i
      BY <1>1
    <3> QED BY <3>1, <1>1
  <2> QED BY <2>1, <1>1
<1>4. ASSUME IsInjective(u)
      PROVE  /\ IsInjective(s) /\ IsInjective(t)
             /\ \A x : ~(Contains(s, x) /\ Contains(t, x))
  <2>1. IsInjective(s)
    BY <1>1, <1>3, <1>4 DEF IsInjective
  <2>2. ASSUME NEW i \in 1..n, NEW j \in 1..n, t[i] = t[j] PROVE i = j
    <3>1. i + m = j + m
      BY <2>2, <1>1, <1>3, <1>4 DEF IsInjective
    <3> QED BY <3>1, <1>1
  <2>3. ASSUME NEW i \in 1..m, NEW j \in 1..n, s[i] = t[j] PROVE FALSE
    <3>1. i = j + m
      BY <2>3, <1>1, <1>3, <1>4 DEF IsInjective
    <3> QED BY <3>1, <1>1
  <2> QED BY <2>1, <2>2, <2>3, <1>1, <1>2 DEF IsInjective
<1>5. ASSUME IsInjective(s), IsInjective(t), \A x : ~(Contains(s, x) /\ Contains(t, x))
      PROVE  IsInjective(u)
  <2> SUFFICES ASSUME NEW i \in 1..(m + n), NEW j \in 1..(m + n), u[i] = u[j] PROVE i = j
    BY <1>1 DEF IsInjective
  <2>1. CASE i <= m /\ j <= m
    <3>1. i \in 1..m /\ j \in 1..m /\ s[i] = s[j]
      BY <2>1, <1>1
    <3> QED BY <3>1, <1>1, <1>5 DEF IsInjective
  <2>2. CASE ~(i <= m) /\ ~(j <= m)
    <3>1. i - m \in 1..n /\ j - m \in 1..n /\ t[i - m] = t[j - m]
      BY <2>2, <1>1
    <3>2. i - m = j - m
      BY <3>1, <1>1, <1>5 DEF IsInjective
    <3> QED BY <3>2, <1>1
  <2>3. CASE i <= m /\ ~(j <= m)
    <3>1. i \in 1..m /\ j - m \in 1..n /\ s[i] = t[j - m]
      BY <2>3, <1>1
    <3> QED BY <3>1, <1>2, <1>5
  <2>4. CASE ~(i <= m) /\ j <= m
    <3>1. j \in 1..m /\ i - m \in 1..n /\ s[j] = t[i - m]
      BY <2>4, <1>1
    <3> QED BY <3>1, <1>2, <1>5
  <2> QED BY <2>1, <2>2, <2>3, <2>4
<1> QED BY <1>4, <1>5 DEF u

\* Joining with nothing, with one element and with a list taken apart.
LEMMA ConcatPieces ==
  ASSUME NEW S, NEW s \in Seq(S), NEW t \in Seq(S)
  PROVE  /\ s \o <<>> = s
         /\ \A x \in S : s \o <<x>> = Append(s, x)
         /\ \A x \in S : s \o Append(t, x) = Append(s \o t, x)
         /\ t # <<>> => (s \o <<Head(t)>>) \o Tail(t) = s \o t
<1>1. s \o <<>> = s
  BY ConcatEmptySeq
<1>2. ASSUME NEW x \in S PROVE s \o <<x>> = Append(s, x)
  BY <1>2, AppendIsConcat
<1>3. ASSUME NEW x \in S PROVE s \o Append(t, x) = Append(s \o t, x)
  <2>1. Append(t, x) = t \o <<x>> /\ Append(s \o t, x) = (s \o t) \o <<x>>
    BY AppendIsConcat, ConcatProperties
  <2>2. <<x>> \in Seq(S)
    OBVIOUS
  <2>3. Grouped(s, t, <<x>>)
    BY <2>2, Groups, Zenon
  <2> QED BY <2>1, <2>3 DEF Grouped
<1>4. ASSUME t # <<>> PROVE (s \o <<Head(t)>>) \o Tail(t) = s \o t
  <2>1. t = <<Head(t)>> \o Tail(t)
    <3> DEFINE h == <<Head(t)>>  u == Tail(t)
    <3>1. /\ Head(t) = t[1] /\ Head(t) \in S /\ u \in Seq(S) /\ Len(u) = Len(t) - 1
          /\ \A i \in 1..(Len(t) - 1) : u[i] = t[i + 1]
          /\ Len(t) \in Nat \ {0}
      BY <1>4, HeadTailProperties, LenProperties, EmptySeq
    <3>2. h \in Seq(S) /\ Len(h) = 1 /\ h[1] = t[1]
      BY <3>1
    <3> HIDE DEF h, u
    <3>3. /\ h \o u \in Seq(S) /\ Len(h \o u) = Len(t)
          /\ \A i \in 1..Len(t) : (h \o u)[i] = IF i <= 1 THEN h[i] ELSE u[i - 1]
      <4>1. /\ h \o u \in Seq(S) /\ Len(h \o u) = Len(h) + Len(u)
            /\ \A i \in 1..(Len(h) + Len(u)) :
                 (h \o u)[i] = IF i <= Len(h) THEN h[i] ELSE u[i - Len(h)]
        BY <3>1, <3>2, ConcatProperties
      <4>2. Len(h) + Len(u) = Len(t)
        BY <3>1, <3>2
      <4> QED BY <4>1, <4>2, <3>2
    <3>4. \A i \in 1..Len(t) : (h \o u)[i] = t[i]
      <4> SUFFICES ASSUME NEW i \in 1..Len(t) PROVE (h \o u)[i] = t[i]
        OBVIOUS
      <4>1. CASE i <= 1
        BY <4>1, <3>1, <3>2, <3>3
      <4>2. CASE ~(i <= 1)
        <5>1. i - 1 \in 1..(Len(t) - 1) /\ (i - 1) + 1 = i
          BY <4>2, <3>1
        <5> QED BY <5>1, <4>2, <3>1, <3>3
      <4> QED BY <4>1, <4>2
    <3>5. h \o u = t
      BY <3>3, <3>4, SeqEqual
    <3> QED BY <3>5 DEF h, u
  <2>2. <<Head(t)>> \in Seq(S) /\ Tail(t) \in Seq(S)
    BY <1>4, HeadTailProperties
  <2>3. Grouped(s, <<Head(t)>>, Tail(t))
    BY <2>2, Groups, Zenon
  <2> QED BY <2>1, <2>3 DEF Grouped
<1> QED BY <1>1, <1>2, <1>3, <1>4

----------------------------------------------------------------------------
(* Induction, for sets of numbers.                                         *)

Less == {x \in Nat \X Nat : x[1] < x[2]}

\* There is no infinite descent in Nat.
LEMMA LessWellFounded == IsWellFoundedOn(Less, Nat)
BY NatLessThanWellFounded DEF OpToRel, Less

\* A set of numbers that holds 0, and each next number, holds all.
LEMMA Induction ==
  ASSUME NEW T, 0 \in T, \A n \in Nat : n \in T => n + 1 \in T
  PROVE  Nat \subseteq T
<1> DEFINE U == Nat \ T
<1> SUFFICES ASSUME U # {} PROVE FALSE
  OBVIOUS
<1>1. PICK x \in U : \A y \in U : <<y, x>> \notin Less
  <2> HIDE DEF U
  <2>1. U \subseteq Nat
    BY DEF U
  <2> QED BY <2>1, LessWellFounded, WFMin
<1>2. x # 0 /\ x - 1 \in Nat /\ x - 1 < x
  OBVIOUS
<1>3. <<x - 1, x>> \in Less
  BY <1>2 DEF Less
<1>4. x - 1 \in T
  BY <1>1, <1>2, <1>3
<1>5. (x - 1) + 1 = x
  BY <1>2
<1> QED BY <1>2, <1>4, <1>5

\* A set of numbers has a least.
LEMMA LeastIs ==
  ASSUME NEW I, I \subseteq Nat, I # {}
  PROVE  Min(I) \in I /\ \A j \in I : Min(I) <= j
<1>1. PICK x \in I : \A y \in I : <<y, x>> \notin Less
  BY LessWellFounded, WFMin
<1>2. \A y \in I : x <= y
  <2> SUFFICES ASSUME NEW y \in I, y < x PROVE FALSE
    OBVIOUS
  <2>1. <<y, x>> \in Less
    BY DEF Less
  <2> QED BY <1>1, <2>1
<1> QED BY <1>2 DEF Min

\* A function on 0..n each of whose values follows from the one before.
StepsBy(V, n, a, step, f) ==
  f \in [0..n -> V] /\ f[0] = a /\ \A i \in 1..n : f[i] = step[i][f[i - 1]]

\* There is one,
LEMMA Recursion ==
  ASSUME NEW V, NEW n \in Nat, NEW a \in V, NEW step \in [1..n -> [V -> V]]
  PROVE  \E f : StepsBy(V, n, a, step, f)
<1> DEFINE Steps(m, f) ==
             f \in [0..m -> V] /\ f[0] = a /\ \A i \in 1..m : f[i] = step[i][f[i - 1]]
           T == {m \in Nat : m <= n => \E f : Steps(m, f)}
<1>1. \E f : Steps(0, f)
  <2>1. PICK f : f = [i \in 0..0 |-> a]
    OBVIOUS
  <2>2. Steps(0, f)
    BY <2>1
  <2> HIDE DEF Steps
  <2> QED BY <2>2
<1>2. ASSUME NEW m \in Nat, NEW f, Steps(m, f), m + 1 <= n PROVE \E g : Steps(m + 1, g)
  <2>1. PICK g : g = [i \in 0..(m + 1) |-> IF i = m + 1 THEN step[m + 1][f[m]] ELSE f[i]]
    OBVIOUS
  <2>2. \A i \in 0..m : g[i] = f[i] /\ f[i] \in V
    BY <1>2, <2>1
  <2>3. g[m + 1] = step[m + 1][f[m]] /\ g[m + 1] \in V
    <3>1. m + 1 \in 1..n /\ m \in 0..m /\ m + 1 \in 0..(m + 1)
      BY <1>2
    <3>2. g[m + 1] = step[m + 1][f[m]]
      BY <2>1, <3>1
    <3>3. step[m + 1] \in [V -> V] /\ f[m] \in V
      BY <2>2, <3>1
    <3> QED BY <3>2, <3>3
  <2>4. g \in [0..(m + 1) -> V]
    <3>1. \A i \in 0..(m + 1) : i \in 0..m \/ i = m + 1
      OBVIOUS
    <3>2. \A i \in 0..(m + 1) : g[i] \in V
      BY <2>2, <2>3, <3>1
    <3> QED BY <2>1, <3>2
  <2>5. g[0] = a
    BY <1>2, <2>2
  <2>6. ASSUME NEW i \in 1..(m + 1) PROVE g[i] = step[i][g[i - 1]]
    <3>1. CASE i = m + 1
      <4>1. g[m] = f[m] /\ i - 1 = m
        BY <2>2, <3>1
      <4> QED BY <2>3, <3>1, <4>1
    <3>2. CASE i \in 1..m
      <4>1. i - 1 \in 0..m /\ i \in 0..m
        BY <3>2
      <4> QED BY <1>2, <2>2, <3>2, <4>1
    <3> QED BY <3>1, <3>2
  <2>7. Steps(m + 1, g)
    BY <2>4, <2>5, <2>6
  <2> HIDE DEF Steps
  <2> QED BY <2>7
<1> HIDE DEF Steps
<1>3. 0 \in T
  BY <1>1
<1>4. \A m \in Nat : m \in T => m + 1 \in T
  BY <1>2
<1>5. n \in T
  <2> HIDE DEF T
  <2> QED BY <1>3, <1>4, Induction
<1> QED BY <1>5 DEF Steps, StepsBy

SameSteps(n, f, g) == f[0] = g[0] /\ \A i \in 1..n : f[i - 1] = g[i - 1] => f[i] = g[i]
SameUpTo(n, f, g) == \A i \in 0..n : f[i] = g[i]

\* and functions that follow the same steps are the same.
LEMMA Agreement ==
  ASSUME NEW n \in Nat, NEW f, NEW g, SameSteps(n, f, g)
  PROVE  SameUpTo(n, f, g)
<1> USE DEF SameSteps, SameUpTo
<1> DEFINE T == {i \in Nat : i <= n => f[i] = g[i]}
<1>1. 0 \in T
  OBVIOUS
<1>2. ASSUME NEW i \in Nat, i \in T PROVE i + 1 \in T
  <2> SUFFICES ASSUME i + 1 <= n PROVE f[i + 1] = g[i + 1]
    OBVIOUS
  <2>1. i + 1 \in 1..n /\ (i + 1) - 1 = i /\ i <= n
    OBVIOUS
  <2>2. f[i] = g[i]
    BY <1>2, <2>1
  <2> QED BY <2>1, <2>2
<1>3. Nat \subseteq T
  <2> HIDE DEF T
  <2> QED BY <1>1, <1>2, Induction
<1> QED BY <1>3

----------------------------------------------------------------------------
(* What FlattenSeq computes.                                               *)

\* The function FlattenSeq defines: its values are the joins of the first i lists.
Joins(s, f) ==
  f = [i \in 1..Len(s) |-> IF i = 1 THEN s[i] ELSE f[i - 1] \o s[i]]

\* There is one such function,
LEMMA JoinsExist ==
  ASSUME NEW S, NEW s \in Seq(Seq(S))
  PROVE  \E f : Joins(s, f)
<1> DEFINE J(n, f) == f = [i \in 1..n |-> IF i = 1 THEN s[i] ELSE f[i - 1] \o s[i]]
           T == {n \in Nat : \E f : J(n, f)}
<1>1. 0 \in T
  <2>1. PICK f : f = [i \in 1..0 |-> {}]
    OBVIOUS
  <2>2. J(0, f)
    BY <2>1
  <2> QED BY <2>2
<1>2. ASSUME NEW n \in Nat, n \in T PROVE n + 1 \in T
  <2>1. PICK f : J(n, f)
    BY <1>2
  <2>2. /\ DOMAIN f = 1..n
        /\ \A i \in 1..n : f[i] = IF i = 1 THEN s[i] ELSE f[i - 1] \o s[i]
    BY <2>1
  <2>3. PICK g : g = [i \in 1..(n + 1) |->
                        IF i = n + 1 THEN IF i = 1 THEN s[i] ELSE f[i - 1] \o s[i] ELSE f[i]]
    OBVIOUS
  <2>4. ASSUME NEW i \in 1..(n + 1)
        PROVE  g[i] = IF i = 1 THEN s[i] ELSE g[i - 1] \o s[i]
    <3>1. i # 1 => i - 1 \in 1..n /\ g[i - 1] = f[i - 1]
      BY <2>3
    <3>2. CASE i = n + 1
      <4>1. g[i] = IF i = 1 THEN s[i] ELSE f[i - 1] \o s[i]
        BY <2>3, <3>2
      <4> QED BY <3>1, <4>1
    <3>3. CASE i \in 1..n
      <4>1. g[i] = f[i]
        BY <2>3, <3>3
      <4> QED BY <2>2, <3>1, <3>3, <4>1
    <3> QED BY <3>2, <3>3
  <2>5. g = [i \in 1..(n + 1) |-> IF i = 1 THEN s[i] ELSE g[i - 1] \o s[i]]
    <3>1. g = [i \in 1..(n + 1) |-> g[i]]
      BY <2>3
    <3> QED BY <2>4, <3>1
  <2>6. J(n + 1, g)
    BY <2>5
  <2> HIDE DEF J
  <2> QED BY <2>6
<1>3. Len(s) \in T
  <2> HIDE DEF T
  <2> QED BY <1>1, <1>2, Induction, LenProperties
<1> QED BY <1>3 DEF Joins

\* and its first values depend on the first lists only.
LEMMA JoinsAgree ==
  ASSUME NEW s, NEW t, NEW f, NEW g, Joins(s, f), Joins(t, g),
         Len(s) \in Nat, Len(t) \in Nat, Len(s) <= Len(t),
         \A i \in 1..Len(s) : s[i] = t[i]
  PROVE  \A i \in 1..Len(s) : f[i] = g[i]
<1>1. Len(s) \in Nat /\ Len(t) \in Nat
  OBVIOUS
<1>2. /\ \A i \in 1..Len(s) : f[i] = IF i = 1 THEN s[i] ELSE f[i - 1] \o s[i]
      /\ \A i \in 1..Len(t) : g[i] = IF i = 1 THEN t[i] ELSE g[i - 1] \o t[i]
  BY DEF Joins
<1> DEFINE T == {n \in Nat : n \in 1..Len(s) => f[n] = g[n]}
<1>3. 0 \in T
  OBVIOUS
<1>4. ASSUME NEW n \in Nat, n \in T PROVE n + 1 \in T
  <2> SUFFICES ASSUME n + 1 \in 1..Len(s) PROVE f[n + 1] = g[n + 1]
    OBVIOUS
  <2>1. n + 1 \in 1..Len(t) /\ s[n + 1] = t[n + 1]
    BY <1>1
  <2>2. CASE n = 0
    BY <1>2, <2>1, <2>2
  <2>3. CASE n # 0
    <3>1. n \in 1..Len(s) /\ (n + 1) - 1 = n /\ n + 1 # 1
      BY <1>1, <2>3
    <3>2. f[n] = g[n]
      BY <1>4, <3>1
    <3> QED BY <1>2, <2>1, <3>1, <3>2
  <2> QED BY <2>2, <2>3
<1>5. Nat \subseteq T
  <2> HIDE DEF T
  <2> QED BY <1>3, <1>4, Induction
<1> QED BY <1>1, <1>5

\* The joins are lists, and the last one is what FlattenSeq returns.
LEMMA FlattenIs ==
  ASSUME NEW S, NEW s \in Seq(Seq(S)), NEW f, Joins(s, f)
  PROVE  /\ \A i \in 1..Len(s) : f[i] \in Seq(S)
         /\ FlattenSeq(s) = IF Len(s) = 0 THEN <<>> ELSE f[Len(s)]
<1>1. Len(s) \in Nat
  BY LenProperties
<1>2. \A i \in 1..Len(s) : f[i] = IF i = 1 THEN s[i] ELSE f[i - 1] \o s[i]
  BY DEF Joins
<1> DEFINE T == {n \in Nat : n \in 1..Len(s) => f[n] \in Seq(S)}
<1>3. 0 \in T
  OBVIOUS
<1>4. ASSUME NEW n \in Nat, n \in T PROVE n + 1 \in T
  <2> SUFFICES ASSUME n + 1 \in 1..Len(s) PROVE f[n + 1] \in Seq(S)
    OBVIOUS
  <2>1. s[n + 1] \in Seq(S)
    BY ElementOfSeq
  <2>2. CASE n = 0
    BY <1>2, <2>1, <2>2
  <2>3. CASE n # 0
    <3>1. n \in 1..Len(s) /\ (n + 1) - 1 = n /\ n + 1 # 1
      BY <1>1, <2>3
    <3>2. f[n + 1] = f[n] \o s[n + 1]
      BY <1>2, <3>1
    <3> QED BY <1>4, <2>1, <3>1, <3>2, ConcatProperties
  <2> QED BY <2>2, <2>3
<1>5. Nat \subseteq T
  <2> HIDE DEF T
  <2> QED BY <1>3, <1>4, Induction
<1>6. CASE Len(s) = 0
  <2>1. s = <<>>
    BY <1>6, EmptySeq
  <2> QED BY <1>5, <1>6, <2>1 DEF FlattenSeq
<1>7. CASE Len(s) # 0
  <2> DEFINE g == CHOOSE h : Joins(s, h)
  <2>1. Joins(s, g)
    OBVIOUS
  <2>2. FlattenSeq(s) = g[Len(s)]
    BY <1>7 DEF FlattenSeq, Joins
  <2> HIDE DEF g
  <2>3. f[Len(s)] = g[Len(s)]
    BY <1>1, <1>7, <2>1, JoinsAgree
  <2> QED BY <1>1, <1>5, <1>7, <2>2, <2>3
<1> QED BY <1>6, <1>7

\* A list appended comes last.
LEMMA FlattenAppend ==
  ASSUME NEW S, NEW s \in Seq(Seq(S)), NEW x \in Seq(S)
  PROVE  /\ FlattenSeq(s) \in Seq(S)
         /\ FlattenSeq(Append(s, x)) = FlattenSeq(s) \o x
<1> DEFINE t == Append(s, x)  n == Len(s)
<1>1. /\ t \in Seq(Seq(S)) /\ Len(t) = n + 1 /\ n \in Nat
      /\ t[n + 1] = x
      /\ \A i \in 1..n : t[i] = s[i]
  BY AppendProperties, LenProperties
<1>2. PICK f : Joins(s, f)
  BY JoinsExist
<1> HIDE DEF t
<1>3. PICK g : Joins(t, g)
  BY <1>1, JoinsExist
<1>4. /\ \A i \in 1..n : f[i] \in Seq(S)
      /\ FlattenSeq(s) = IF n = 0 THEN <<>> ELSE f[n]
  BY <1>2, FlattenIs
<1>5. FlattenSeq(t) = IF Len(t) = 0 THEN <<>> ELSE g[Len(t)]
  BY <1>1, <1>3, FlattenIs
<1>6. \A i \in 1..n : f[i] = g[i]
  <2>1. Len(s) <= Len(t) /\ \A i \in 1..Len(s) : s[i] = t[i]
    BY <1>1
  <2> HIDE DEF n
  <2>2. Len(s) \in Nat /\ Len(t) \in Nat
    BY <1>1 DEF n
  <2>3. \A i \in 1..Len(s) : f[i] = g[i]
    BY <1>2, <1>3, <2>1, <2>2, JoinsAgree
  <2> QED BY <2>3 DEF n
<1>7. g[n + 1] = IF n + 1 = 1 THEN x ELSE g[n] \o x
  <2>1. n + 1 \in 1..Len(t) /\ (n + 1) - 1 = n
    BY <1>1
  <2> QED BY <1>1, <1>3, <2>1 DEF Joins
<1>8. CASE n = 0
  <2>1. FlattenSeq(t) = x /\ FlattenSeq(s) = <<>>
    BY <1>1, <1>4, <1>5, <1>7, <1>8
  <2> QED BY <2>1, ConcatEmptySeq, EmptySeq DEF t
<1>9. CASE n # 0
  <2>1. n \in 1..n
    BY <1>1, <1>9
  <2>2. FlattenSeq(s) = f[n] /\ f[n] = g[n] /\ f[n] \in Seq(S)
    BY <1>4, <1>6, <1>9, <2>1
  <2>3. FlattenSeq(t) = g[n] \o x
    BY <1>1, <1>5, <1>7, <1>9
  <2> QED BY <2>2, <2>3 DEF t
<1> QED BY <1>8, <1>9

\* The first list comes first.
LEMMA FlattenFirst ==
  ASSUME NEW S, NEW s \in Seq(Seq(S)), s # <<>>
  PROVE  FlattenSeq(s) = Head(s) \o FlattenSeq(Tail(s))
<1> DEFINE t == Tail(s)  n == Len(t)
<1>1. /\ t \in Seq(Seq(S)) /\ Len(s) = n + 1 /\ n \in Nat
      /\ Head(s) = s[1] /\ s[1] \in Seq(S)
      /\ \A i \in 1..n : t[i] = s[i + 1] /\ t[i] \in Seq(S)
  <2>1. /\ Head(s) \in Seq(S)
        /\ t \in Seq(Seq(S)) /\ Len(t) = Len(s) - 1
        /\ \A i \in 1..Len(t) : t[i] = s[i + 1]
    BY HeadTailProperties
  <2>2. Head(s) = s[1]
    OBVIOUS
  <2>3. \A i \in 1..Len(t) : t[i] \in Seq(S)
    <3> HIDE DEF t
    <3> QED BY <2>1, ElementOfSeq
  <2>4. Len(s) \in Nat \ {0}
    BY EmptySeq
  <2> HIDE DEF t
  <2> QED BY <2>1, <2>2, <2>3, <2>4
<1>2. PICK g : Joins(s, g)
  BY JoinsExist
<1> HIDE DEF t
<1>3. PICK f : Joins(t, f)
  BY <1>1, JoinsExist
<1>4. /\ \A i \in 1..n : f[i] \in Seq(S)
      /\ FlattenSeq(t) = IF n = 0 THEN <<>> ELSE f[n]
  BY <1>1, <1>3, FlattenIs
<1>5. FlattenSeq(s) = g[n + 1]
  <2>1. FlattenSeq(s) = IF Len(s) = 0 THEN <<>> ELSE g[Len(s)]
    BY <1>2, FlattenIs
  <2> QED BY <1>1, <2>1
<1>6. /\ \A i \in 1..(n + 1) : g[i] = IF i = 1 THEN s[i] ELSE g[i - 1] \o s[i]
      /\ \A i \in 1..n : f[i] = IF i = 1 THEN t[i] ELSE f[i - 1] \o t[i]
  BY <1>1, <1>2, <1>3 DEF Joins
<1> DEFINE FirstIs(i) == i \in 1..n => g[i + 1] = s[1] \o f[i]
           T == {i \in Nat : FirstIs(i)}
<1>7. 0 \in T
  OBVIOUS
<1>8. ASSUME NEW i \in Nat, FirstIs(i) PROVE FirstIs(i + 1)
  <2> SUFFICES ASSUME i + 1 \in 1..n PROVE g[(i + 1) + 1] = s[1] \o f[i + 1]
    OBVIOUS
  <2>1. /\ (i + 1) + 1 \in 1..(n + 1) /\ (i + 1) + 1 # 1 /\ ((i + 1) + 1) - 1 = i + 1
        /\ t[i + 1] = s[(i + 1) + 1] /\ t[i + 1] \in Seq(S)
    BY <1>1
  <2>2. g[(i + 1) + 1] = g[i + 1] \o t[i + 1]
    BY <1>6, <2>1
  <2>3. CASE i = 0
    <3>1. g[1] = s[1] /\ f[1] = t[1] /\ i + 1 = 1
      BY <1>1, <1>6, <2>3
    <3> QED BY <2>2, <3>1
  <2>4. CASE i # 0
    <3>1. i \in 1..n /\ (i + 1) - 1 = i /\ i + 1 # 1
      BY <1>1, <2>4
    <3>2. g[i + 1] = s[1] \o f[i]
      BY <1>8, <3>1
    <3>3. f[i + 1] = f[i] \o t[i + 1]
      BY <1>6, <3>1
    <3>4. f[i] \in Seq(S) /\ s[1] \in Seq(S) /\ t[i + 1] \in Seq(S)
      BY <1>1, <1>4, <2>1, <3>1
    <3>5. (s[1] \o f[i]) \o t[i + 1] = s[1] \o (f[i] \o t[i + 1])
      <4> HIDE DEF T, FirstIs, n
      <4>1. PICK a \in Seq(S), b \in Seq(S), c \in Seq(S) : a = s[1] /\ b = f[i] /\ c = t[i + 1]
        BY <3>4
      <4>2. Grouped(a, b, c)
        BY Groups, Zenon
      <4> QED BY <4>1, <4>2 DEF Grouped
    <3> QED BY <2>2, <3>2, <3>3, <3>5
  <2> QED BY <2>3, <2>4
<1>9. \A i \in Nat : FirstIs(i)
  <2>1. \A i \in Nat : i \in T => i + 1 \in T
    <3> HIDE DEF FirstIs
    <3> QED BY <1>8
  <2>2. Nat \subseteq T
    <3> HIDE DEF T
    <3> QED BY <1>7, <2>1, Induction
  <2> HIDE DEF FirstIs
  <2> QED BY <2>2
<1>10. CASE n = 0
  <2>1. g[n + 1] = s[1]
    BY <1>6, <1>10
  <2>2. s[1] \o <<>> = s[1]
    BY <1>1, ConcatEmptySeq
  <2> QED BY <1>1, <1>4, <1>5, <1>10, <2>1, <2>2 DEF t
<1>11. CASE n # 0
  <2>1. n \in 1..n
    BY <1>1, <1>11
  <2>2. g[n + 1] = s[1] \o f[n]
    <3>1. FirstIs(n)
      <4> HIDE DEF FirstIs
      <4> QED BY <1>1, <1>9
    <3> QED BY <2>1, <3>1
  <2> QED BY <1>1, <1>4, <1>5, <1>11, <2>2 DEF t
<1> QED BY <1>10, <1>11

\* No list, or one.
LEMMA FlattenShort ==
  ASSUME NEW S, NEW x \in Seq(S)
  PROVE  FlattenSeq(<<>>) = <<>> /\ FlattenSeq(<<x>>) = x
<1>1. FlattenSeq(<<>>) = <<>>
  BY DEF FlattenSeq
<1>2. FlattenSeq(Append(<<>>, x)) = <<>> \o x
  <2>1. <<>> \in Seq(Seq(S))
    BY EmptySeq, Zenon
  <2>2. FlattenSeq(Append(<<>>, x)) = FlattenSeq(<<>>) \o x
    BY <2>1, FlattenAppend, Zenon
  <2> QED BY <1>1, <2>2, Zenon
<1>3. Append(<<>>, x) = <<x>>
  OBVIOUS
<1> QED BY <1>1, <1>2, <1>3, ConcatEmptySeq
----------------------------------------------------------------------------
(* Lists of bytes.                                                         *)

\* What is left of u after x, which u begins with, and v are together y.
CutsAt(S, u, v, x, y) ==
  /\ SubSeq(u, 1, Len(x)) = x
  /\ SubSeq(u, Len(x) + 1, Len(u)) \in Seq(S)
  /\ Len(SubSeq(u, Len(x) + 1, Len(u))) = Len(u) - Len(x)
  /\ SubSeq(u, Len(x) + 1, Len(u)) \o v = y

\* Two lists that are together what two others are.
LEMMA Cut ==
  ASSUME NEW S, NEW u \in Seq(S), NEW v \in Seq(S), NEW x \in Seq(S), NEW y \in Seq(S),
         u \o v = x \o y, Len(x) <= Len(u)
  PROVE  CutsAt(S, u, v, x, y)
<1> DEFINE m == Len(x)  n == Len(u)  p == SubSeq(u, 1, m)  w == SubSeq(u, m + 1, n)
<1>1. m \in Nat /\ n \in Nat /\ m <= n /\ \A i \in 1..n : u[i] \in S
  BY LenProperties, ElementOfSeq
<1>2. /\ p \in Seq(S) /\ Len(p) = m
      /\ \A i \in 1..m : p[i] = u[i]
  <2>1. 1 \in Int /\ m \in Int /\ \A i \in 1..m : u[i] \in S
    BY <1>1
  <2> HIDE DEF m, n
  <2>2. /\ p \in Seq(S) /\ Len(p) = IF 1 <= m THEN m - 1 + 1 ELSE 0
        /\ \A i \in 1..(m - 1 + 1) : p[i] = u[1 + i - 1]
    BY <2>1, SubSeqProperties
  <2> HIDE DEF p
  <2> QED BY <1>1, <2>2
<1>3. w \in Seq(S) /\ Len(w) = n - m
  <2>1. m + 1 \in Int /\ n \in Int /\ \A i \in (m + 1)..n : u[i] \in S
    BY <1>1
  <2> HIDE DEF m, n
  <2>2. w \in Seq(S) /\ Len(w) = IF m + 1 <= n THEN n - (m + 1) + 1 ELSE 0
    BY <2>1, SubSeqProperties
  <2> HIDE DEF w
  <2> QED BY <1>1, <2>2
<1>4. p \o w = u
  <2>1. 1 \in 1..Len(u)+1 /\ m \in (1-1)..Len(u) /\ n \in m..Len(u)
    BY <1>1
  <2>2. SubSeq(u, 1, m) \o SubSeq(u, m + 1, n) = SubSeq(u, 1, n)
    <3> HIDE DEF m, n
    <3> QED BY <2>1, ConcatAdjacentSubSeq
  <2>3. SubSeq(u, 1, n) = u
    BY SubSeqFull
  <2> QED BY <2>2, <2>3
<1> HIDE DEF p, w
<1>5. p = x
  <2>1. ASSUME NEW i \in 1..m PROVE p[i] = x[i]
    <3>1. i \in 1..(Len(u) + Len(v)) /\ i <= Len(u) /\ i \in 1..(Len(x) + Len(y)) /\ i <= Len(x)
      BY <1>1, LenProperties
    <3>2. (u \o v)[i] = u[i]
      BY <3>1, ConcatProperties
    <3>3. (x \o y)[i] = x[i]
      BY <3>1, ConcatProperties
    <3> QED BY <1>2, <3>2, <3>3
  <2>2. Len(p) = Len(x)
    BY <1>2
  <2> HIDE DEF m
  <2>3. \A i \in 1..Len(p) : p[i] = x[i]
    BY <1>2, <2>1
  <2> QED BY <1>2, <2>2, <2>3, SeqEqual
<1>6. w \o v = y
  <2>1. u \o v = x \o (w \o v)
    <3> HIDE DEF m, n
    <3>1. Grouped(x, w, v)
      BY <1>3, Groups, Zenon
    <3> QED BY <1>4, <1>5, <3>1 DEF Grouped
  <2>2. w \o v \in Seq(S)
    BY <1>3, ConcatProperties
  <2> HIDE DEF m, n
  <2>3. PICK t \in Seq(S) : t = w \o v
    BY <2>2
  <2>4. x \o y = x \o t
    BY <2>1, <2>3
  <2>5. y = t
    BY <2>4, ConcatSimplifications
  <2> QED BY <2>3, <2>5
<1> QED BY <1>3, <1>5, <1>6 DEF p, w, CutsAt

\* Four lists, one after another.
Regrouped(S, a, b, c, d) ==
  /\ ((a \o b) \o c) \o d = a \o (b \o (c \o d))
  /\ c \o d \in Seq(S) /\ b \o (c \o d) \in Seq(S) /\ a \o (b \o (c \o d)) \in Seq(S)

LEMMA Regroup ==
  ASSUME NEW S, NEW a \in Seq(S), NEW b \in Seq(S), NEW c \in Seq(S), NEW d \in Seq(S)
  PROVE  Regrouped(S, a, b, c, d)
<1>1. PICK cd \in Seq(S) : cd = c \o d
  BY ConcatProperties
<1>2. PICK bcd \in Seq(S) : bcd = b \o cd
  BY ConcatProperties
<1>3. PICK ab \in Seq(S) : ab = a \o b
  BY ConcatProperties
<1>4. Grouped(ab, c, d)
  BY Groups, Zenon
<1>5. Grouped(a, b, cd)
  BY Groups, Zenon
<1>6. a \o bcd \in Seq(S)
  BY ConcatProperties
<1> QED BY <1>1, <1>2, <1>3, <1>4, <1>5, <1>6 DEF Regrouped, Grouped

\* Two lists of the same length at the head of the same bytes.
LEMMA SameHeads ==
  ASSUME NEW S, NEW u \in Seq(S), NEW v \in Seq(S), NEW x \in Seq(S), NEW y \in Seq(S),
         u \o v = x \o y, Len(x) = Len(u)
  PROVE  u = x /\ v = y
<1>1. Len(x) <= Len(u) /\ Len(u) \in Nat
  BY LenProperties
<1>2. CutsAt(S, u, v, x, y)
  BY <1>1, Cut
<1>3. u = x
  BY <1>2, SubSeqFull DEF CutsAt
<1>4. PICK w \in Seq(S) : w = SubSeq(u, Len(x) + 1, Len(u)) /\ Len(w) = Len(u) - Len(x)
  BY <1>2 DEF CutsAt
<1>5. w = <<>>
  <2>1. Len(u) - Len(x) = 0
    BY <1>1
  <2> QED BY <1>4, <2>1, EmptySeq
<1>6. w \o v = v
  BY <1>5, ConcatEmptySeq
<1> QED BY <1>2, <1>3, <1>4, <1>6 DEF CutsAt
============================================================================
