----------------------------- MODULE DataLemmas -----------------------------
(***************************************************************************)
(* What the proofs need to know of numbers, of functions that are defined  *)
(* by recursion, and of sequences that are cut and put together.  The      *)
(* library's induction theorems take an operator; here the operator is a   *)
(* set or a function, and the induction is a least element.                *)
(***************************************************************************)
EXTENDS Integers, Sequences, FiniteSetTheorems, SequenceTheorems, WellFoundedInduction,
        NaturalsInduction, TLAPS

\* A nonempty set of numbers has a least one.
LEMMA LeastOf ==
  ASSUME NEW S \in SUBSET Nat, S # {}
  PROVE  \E m \in S : \A n \in S : m <= n
<1>1. IsWellFoundedOn(OpToRel(<, Nat), Nat)
  BY NatLessThanWellFounded
<1>2. PICK m \in S : \A n \in S : ~(<<n, m>> \in OpToRel(<, Nat))
  BY <1>1, WFMin
<1>3. ASSUME NEW n \in S PROVE m <= n
  <2>1. m \in Nat /\ n \in Nat
    OBVIOUS
  <2>2. ~(n < m)
    BY <1>2, <2>1 DEF OpToRel
  <2> QED
    BY <2>1, <2>2
<1> QED
  BY <1>3

\* A set that holds 0 and what follows each of its members holds every number.
LEMMA Inductive ==
  ASSUME NEW H, 0 \in H, \A n \in Nat : n \in H => n + 1 \in H
  PROVE  Nat \subseteq H
<1> DEFINE M == Nat \ H
<1> SUFFICES ASSUME M # {} PROVE FALSE
  OBVIOUS
<1>1. PICK m \in M : \A n \in M : m <= n
  BY LeastOf
<1>2. m # 0 /\ m - 1 \in Nat
  OBVIOUS
<1>3. m - 1 \in H
  BY <1>1, <1>2
<1> QED
  BY <1>2, <1>3

\* A bounded set of numbers has a greatest one.
LEMMA GreatestOf ==
  ASSUME NEW b \in Nat, NEW S \in SUBSET (0..b), S # {}
  PROVE  \E m \in S : \A n \in S : n <= m
<1> DEFINE T == {n \in 0..b : b - n \in S}
<1>1. PICK s \in S : TRUE
  OBVIOUS
<1>2. b - s \in T
  OBVIOUS
<1>3. PICK t \in T : \A n \in T : t <= n
  <2>1. \A n \in T : n \in Nat
    OBVIOUS
  <2>2. T # {}
    BY <1>2
  <2> HIDE DEF T
  <2>3. T \in SUBSET Nat
    BY <2>1
  <2> QED
    BY <2>2, <2>3, LeastOf
<1>4. \A n \in S : b - n \in T
  OBVIOUS
<1>5. ASSUME NEW n \in S PROVE n <= b - t
  BY <1>3, <1>4
<1> QED
  BY <1>3, <1>5

(***************************************************************************)
(* A function applied again and again.                                     *)
(***************************************************************************)
LEMMA Iterates ==
  ASSUME NEW S, NEW F \in [S -> S], NEW k \in S
  PROVE  \E g \in [Nat -> S] : g = [n \in Nat |-> IF n = 0 THEN k ELSE F[g[n - 1]]]
<1> DEFINE Start(n, f) == f \in [0..n -> S] /\ f[0] = k /\ \A m \in 0..(n - 1) : f[m + 1] = F[f[m]]
           H == {n \in Nat : \E f : Start(n, f)}
<1>1. 0 \in H
  <2>1. Start(0, [m \in 0..0 |-> k])
    OBVIOUS
  <2> QED
    BY <2>1
<1>2. ASSUME NEW n \in Nat, n \in H PROVE n + 1 \in H
  <2>1. PICK f : Start(n, f)
    BY <1>2
  <2>2. Start(n + 1, [m \in 0..(n + 1) |-> IF m = n + 1 THEN F[f[n]] ELSE f[m]])
    BY <2>1
  <2>3. n + 1 \in Nat
    OBVIOUS
  <2> QED
    BY <2>2, <2>3
<1>3. Nat \subseteq H
  <2> HIDE DEF H
  <2> QED
    BY <1>1, <1>2, Inductive
<1> DEFINE f(n) == CHOOSE h : Start(n, h)
<1>4. ASSUME NEW n \in Nat PROVE Start(n, f(n))
  BY <1>3
<1> HIDE DEF f
<1>5. ASSUME NEW n \in Nat PROVE f(n + 1)[n] = f(n)[n]
  <2> DEFINE E == {m \in Nat : m <= n => f(n + 1)[m] = f(n)[m]}
  <2>1. 0 \in E
    BY <1>4
  <2>2. ASSUME NEW m \in Nat, m \in E PROVE m + 1 \in E
    <3>1. CASE m + 1 <= n
      <4>1. f(n + 1)[m + 1] = F[f(n + 1)[m]]
        <5>1. Start(n + 1, f(n + 1)) /\ m \in 0..((n + 1) - 1)
          BY <1>4, <3>1
        <5> QED
          BY <5>1
      <4>2. f(n)[m + 1] = F[f(n)[m]]
        <5>1. Start(n, f(n)) /\ m \in 0..(n - 1)
          BY <1>4, <3>1
        <5> QED
          BY <5>1
      <4> QED
        BY <2>2, <3>1, <4>1, <4>2
    <3> QED
      BY <3>1
  <2>3. Nat \subseteq E
    <3> HIDE DEF E
    <3> QED
      BY <2>1, <2>2, Inductive
  <2> QED
    BY <2>3
<1> DEFINE g == [n \in Nat |-> f(n)[n]]
<1>6. g \in [Nat -> S]
  BY <1>4
<1>7. ASSUME NEW n \in Nat PROVE g[n] = IF n = 0 THEN k ELSE F[g[n - 1]]
  <2>1. CASE n = 0
    BY <1>4, <2>1
  <2>2. CASE n # 0
    <3>1. n - 1 \in Nat
      BY <2>2
    <3>2. f(n)[n] = F[f(n)[n - 1]]
      BY <1>4, <3>1
    <3>3. f(n)[n - 1] = f(n - 1)[n - 1]
      BY <1>5, <3>1
    <3> QED
      BY <2>2, <3>1, <3>2, <3>3
  <2> QED
    BY <2>1, <2>2
<1> HIDE DEF g
<1>8. g = [n \in Nat |-> IF n = 0 THEN k ELSE F[g[n - 1]]]
  BY <1>6, <1>7
<1> QED
  BY <1>6, <1>8

\* A walk of n steps, each of them F.
IsWalk(w, S, F, k, n) ==
  w \in [0..n -> S] /\ \A i \in 0..n : w[i] = IF i = 0 THEN k ELSE F[w[i - 1]]

LEMMA Walks ==
  ASSUME NEW S, NEW F \in [S -> S], NEW k \in S, NEW n \in Nat
  PROVE  \E w : IsWalk(w, S, F, k, n)
<1>1. PICK g \in [Nat -> S] : g = [i \in Nat |-> IF i = 0 THEN k ELSE F[g[i - 1]]]
  BY Iterates
<1> DEFINE w == [i \in 0..n |-> g[i]]
<1>2. w \in [0..n -> S]
  BY <1>1
<1>3. ASSUME NEW i \in 0..n PROVE w[i] = IF i = 0 THEN k ELSE F[w[i - 1]]
  <2>1. g[i] = IF i = 0 THEN k ELSE F[g[i - 1]]
    BY <1>1
  <2>2. i # 0 => i - 1 \in 0..n
    BY <1>3
  <2> QED
    BY <2>1, <2>2
<1> HIDE DEF w
<1> QED
  BY <1>2, <1>3 DEF IsWalk

\* A walk whose equation is known stays where its steps lead.
LEMMA WalkStays ==
  ASSUME NEW S, NEW n \in Nat, NEW w, w[0] \in S,
         \A i \in 0..n : i # n /\ w[i] \in S => w[i + 1] \in S
  PROVE  \A i \in 0..n : w[i] \in S
<1> DEFINE H == {i \in Nat : i <= n => w[i] \in S}
<1>1. 0 \in H
  OBVIOUS
<1>2. ASSUME NEW i \in Nat, i \in H PROVE i + 1 \in H
  <2>1. CASE i + 1 <= n
    <3>1. i \in 0..n /\ i # n /\ w[i] \in S
      BY <1>2, <2>1
    <3> QED
      BY <3>1
  <2> QED
    BY <2>1
<1>3. Nat \subseteq H
  <2> HIDE DEF H
  <2> QED
    BY <1>1, <1>2, Inductive
<1> QED
  BY <1>3

\* A function that is made step by step, the i-th step being G[i].
IsMade(w, S, G, k, n) ==
  w \in [0..n -> S] /\ w[0] = k /\ \A i \in 1..n : w[i] = G[i][w[i - 1]]

LEMMA Makes ==
  ASSUME NEW S, NEW n \in Nat, NEW G \in [1..n -> [S -> S]], NEW k \in S
  PROVE  \E w : IsMade(w, S, G, k, n)
<1> DEFINE T == Nat \X S
           F == [p \in T |-> <<p[1] + 1, IF p[1] + 1 \in 1..n THEN G[p[1] + 1][p[2]] ELSE p[2]>>]
<1>1. F \in [T -> T]
  <2>1. ASSUME NEW i \in Nat, NEW s \in S
        PROVE  (IF i + 1 \in 1..n THEN G[i + 1][s] ELSE s) \in S
    OBVIOUS
  <2> QED
    BY <2>1
<1>2. <<0, k>> \in T
  OBVIOUS
<1> HIDE DEF F
<1>3. PICK g : IsWalk(g, T, F, <<0, k>>, n)
  <2> HIDE DEF T
  <2> QED
    BY <1>1, <1>2, Walks
<1>4. g \in [0..n -> T] /\ g[0] = <<0, k>> /\ \A i \in 1..n : g[i] = F[g[i - 1]]
  BY <1>3 DEF IsWalk
<1> DEFINE H == {i \in Nat : i <= n => g[i][1] = i}
<1>5. 0 \in H
  BY <1>4
<1>6. ASSUME NEW i \in Nat, i \in H PROVE i + 1 \in H
  <2>1. CASE i + 1 <= n
    <3>1. i + 1 \in 1..n /\ i \in 0..n /\ (i + 1) - 1 = i
      BY <2>1
    <3>2. g[i + 1] = F[g[i]] /\ g[i] \in T
      BY <1>4, <3>1
    <3>3. F[g[i]][1] = g[i][1] + 1
      BY <3>2 DEF F
    <3> QED
      BY <1>6, <3>1, <3>2, <3>3
  <2> QED
    BY <2>1
<1>7. Nat \subseteq H
  <2> HIDE DEF H
  <2> QED
    BY <1>5, <1>6, Inductive
<1> DEFINE w == [i \in 0..n |-> g[i][2]]
<1>8. w \in [0..n -> S] /\ w[0] = k
  BY <1>4
<1>9. ASSUME NEW i \in 1..n PROVE w[i] = G[i][w[i - 1]]
  <2>1. i - 1 \in 0..n /\ i \in 0..n /\ (i - 1) + 1 = i
    OBVIOUS
  <2>2. g[i] = F[g[i - 1]] /\ g[i - 1] \in T
    BY <1>4, <2>1
  <2>3. g[i - 1][1] = i - 1
    BY <1>7, <2>1
  <2>4. F[g[i - 1]][2] = G[i][g[i - 1][2]]
    <3>1. \A p \in T : p[1] = i - 1 => F[p][2] = G[i][p[2]]
      BY <2>1 DEF F
    <3> QED
      BY <2>2, <2>3, <3>1
  <2> QED
    BY <2>1, <2>2, <2>4
<1> HIDE DEF w
<1> QED
  BY <1>8, <1>9 DEF IsMade

(***************************************************************************)
(* Sequences that are cut and put together.                                *)
(***************************************************************************)
LEMMA CutOut ==
  ASSUME NEW S, NEW s \in Seq(S), NEW i \in 0..Len(s), NEW j \in i..Len(s)
  PROVE  /\ SubSeq(s, 1, i) \in Seq(S) /\ Len(SubSeq(s, 1, i)) = i
         /\ SubSeq(s, j + 1, Len(s)) \in Seq(S) /\ Len(SubSeq(s, j + 1, Len(s))) = Len(s) - j
<1>1. Len(s) \in Nat /\ \A k \in 1..Len(s) : s[k] \in S
  BY LenProperties, ElementOfSeq
<1>2. \A k \in 1..i : s[k] \in S
  BY <1>1
<1>3. \A k \in (j + 1)..Len(s) : s[k] \in S
  BY <1>1
<1>4. i \in Int /\ j + 1 \in Int /\ 1 \in Int /\ Len(s) \in Int
  BY <1>1
<1>5. SubSeq(s, 1, i) \in Seq(S) /\ Len(SubSeq(s, 1, i)) = IF 1 <= i THEN i - 1 + 1 ELSE 0
  BY <1>2, <1>4, SubSeqProperties
<1>6. /\ SubSeq(s, j + 1, Len(s)) \in Seq(S)
      /\ Len(SubSeq(s, j + 1, Len(s))) = IF j + 1 <= Len(s) THEN Len(s) - (j + 1) + 1 ELSE 0
  BY <1>3, <1>4, SubSeqProperties
<1> QED
  BY <1>1, <1>5, <1>6

LEMMA Prefixed ==
  ASSUME NEW S, NEW a \in Seq(S), a # <<>>, NEW b \in Seq(S)
  PROVE  /\ a \o b \in Seq(S) /\ Len(a \o b) = Len(a) + Len(b) /\ a \o b # <<>>
         /\ \A i \in 1..Len(a) : (a \o b)[i] = a[i]
         /\ Head(a \o b) = Head(a)
<1>1. Len(a) \in Nat /\ Len(a) > 0 /\ Len(b) \in Nat
  BY LenProperties, EmptySeq
<1>2. a \o b \in Seq(S) /\ Len(a \o b) = Len(a) + Len(b)
  BY ConcatProperties
<1>3. \A i \in 1..Len(a) : (a \o b)[i] = a[i]
  BY <1>1, ConcatProperties
<1>4. a \o b # <<>>
  <2>1. Len(a \o b) > 0
    BY <1>1, <1>2
  <2> QED
    BY <2>1, EmptySeq
<1>5. Head(a \o b) = (a \o b)[1] /\ Head(a) = a[1]
  BY <1>2, <1>4
<1>6. 1 \in 1..Len(a)
  BY <1>1
<1> QED
  BY <1>2, <1>3, <1>4, <1>5, <1>6

LEMMA Cuts ==
  ASSUME NEW S, NEW a \in Seq(S), NEW b \in Seq(S), NEW n \in 1..Len(a)
  PROVE  /\ SubSeq(a \o b, 1, n) = SubSeq(a, 1, n)
         /\ SubSeq(a \o b, n + 1, Len(a \o b)) = SubSeq(a, n + 1, Len(a)) \o b
<1>1. Len(a) \in Nat /\ Len(b) \in Nat
  BY LenProperties
<1> DEFINE c == a \o b
<1>2. /\ c \in Seq(S) /\ Len(c) = Len(a) + Len(b)
      /\ \A i \in 1..Len(c) : c[i] = IF i <= Len(a) THEN a[i] ELSE b[i - Len(a)]
  BY <1>1, ConcatProperties
<1> HIDE DEF c
<1> DEFINE head == SubSeq(a, 1, n)
           tail == SubSeq(a, n + 1, Len(a))
           cut  == SubSeq(c, n + 1, Len(c))
           part == SubSeq(c, 1, n)
<1>3. /\ head \in Seq(S) /\ Len(head) = n /\ \A i \in 1..n : head[i] = a[i]
      /\ tail \in Seq(S) /\ Len(tail) = Len(a) - n /\ \A i \in 1..(Len(a) - n) : tail[i] = a[n + i]
  <2>1. n \in 0..Len(a) /\ n \in n..Len(a)
    BY <1>1
  <2>2. head \in Seq(S) /\ Len(head) = n /\ tail \in Seq(S) /\ Len(tail) = Len(a) - n
    BY <2>1, CutOut
  <2>3. \A i \in 1..n : head[i] = a[i]
    BY <1>1
  <2>4. \A i \in 1..(Len(a) - n) : tail[i] = a[n + i]
    BY <1>1
  <2> QED
    BY <2>2, <2>3, <2>4
<1>4. /\ part \in Seq(S) /\ Len(part) = n /\ \A i \in 1..n : part[i] = c[i]
      /\ cut \in Seq(S) /\ Len(cut) = Len(c) - n /\ \A i \in 1..(Len(c) - n) : cut[i] = c[n + i]
  <2>1. n \in 0..Len(c) /\ n \in n..Len(c) /\ Len(c) \in Nat
    BY <1>1, <1>2
  <2>2. part \in Seq(S) /\ Len(part) = n /\ cut \in Seq(S) /\ Len(cut) = Len(c) - n
    BY <1>2, <2>1, CutOut
  <2>3. \A i \in 1..n : part[i] = c[i]
    BY <1>2, <2>1
  <2>4. \A i \in 1..(Len(c) - n) : cut[i] = c[n + i]
    BY <1>2, <2>1
  <2> QED
    BY <2>2, <2>3, <2>4
<1> HIDE DEF head, tail, cut, part
<1>5. part = head
  <2>1. \A i \in 1..n : part[i] = head[i]
    BY <1>1, <1>2, <1>3, <1>4
  <2> QED
    BY <1>3, <1>4, <2>1, SeqEqual
<1> DEFINE d == tail \o b
<1>6. /\ d \in Seq(S) /\ Len(d) = Len(tail) + Len(b)
      /\ \A i \in 1..Len(d) : d[i] = IF i <= Len(tail) THEN tail[i] ELSE b[i - Len(tail)]
  <2>1. d \in Seq(S) /\ Len(d) = Len(tail) + Len(b)
    BY <1>3, ConcatProperties
  <2>2. \A i \in 1..(Len(tail) + Len(b)) : d[i] = IF i <= Len(tail) THEN tail[i] ELSE b[i - Len(tail)]
    BY <1>3, ConcatProperties
  <2> QED
    BY <2>1, <2>2
<1> HIDE DEF d
<1>7. cut = d
  <2>1. Len(cut) = Len(d)
    BY <1>1, <1>2, <1>3, <1>4, <1>6
  <2>2. ASSUME NEW i \in 1..Len(d) PROVE cut[i] = d[i]
    <3>1. /\ cut[i] = c[n + i] /\ n + i \in 1..Len(c)
          /\ i \in 1..Len(d) /\ Len(d) = Len(a) - n + Len(b)
      BY <1>1, <1>2, <1>3, <1>4, <1>6, <2>2
    <3>2. CASE i <= Len(a) - n
      <4>1. c[n + i] = a[n + i]
        BY <1>1, <1>2, <3>1, <3>2
      <4>2. d[i] = tail[i]
        BY <1>3, <1>6, <2>2, <3>2
      <4>3. tail[i] = a[n + i]
        BY <1>1, <1>3, <2>2, <3>2
      <4> QED
        BY <3>1, <4>1, <4>2, <4>3
    <3>3. CASE ~(i <= Len(a) - n)
      <4>1. c[n + i] = b[n + i - Len(a)]
        BY <1>1, <1>2, <3>1, <3>3
      <4>2. d[i] = b[i - (Len(a) - n)]
        BY <1>3, <1>6, <2>2, <3>3
      <4>3. n + i - Len(a) = i - (Len(a) - n)
        BY <1>1
      <4> QED
        BY <3>1, <4>1, <4>2, <4>3
    <3> QED
      BY <3>2, <3>3
  <2> QED
    BY <1>4, <1>6, <2>1, <2>2, SeqEqual
<1> QED
  BY <1>5, <1>7 DEF c, head, part, cut, d, tail
\* A set that holds the empty sequence, and each of its sequences with one element more,
\* holds every sequence.
LEMMA Appending ==
  ASSUME NEW S, NEW H, <<>> \in H, \A s \in Seq(S), e \in S : s \in H => Append(s, e) \in H
  PROVE  Seq(S) \subseteq H
<1> DEFINE L == {n \in Nat : \A s \in Seq(S) : Len(s) = n => s \in H}
<1>1. 0 \in L
  BY EmptySeq
<1>2. ASSUME NEW n \in Nat, n \in L PROVE n + 1 \in L
  <2>1. ASSUME NEW s \in Seq(S), Len(s) = n + 1 PROVE s \in H
    <3> DEFINE f == SubSeq(s, 1, n)
    <3>1. n \in 0..Len(s) /\ n \in n..Len(s) /\ n + 1 \in 1..Len(s)
      BY <2>1
    <3>2. f \in Seq(S) /\ Len(f) = n
      BY <3>1, CutOut
    <3>3. \A i \in 1..n : f[i] = s[i]
      BY <2>1
    <3> HIDE DEF f
    <3>4. s[n + 1] \in S
      BY <3>1, ElementOfSeq
    <3> DEFINE a == Append(f, s[n + 1])
    <3>5. a \in Seq(S) /\ Len(a) = n + 1 /\ \A i \in 1..(n + 1) : a[i] = IF i = n + 1 THEN s[n + 1] ELSE f[i]
      BY <3>2, <3>4, AppendProperties
    <3>6. \A i \in 1..(n + 1) : a[i] = s[i]
      BY <3>3, <3>5
    <3>7. a \in H
      BY <1>2, <3>2, <3>4
    <3> HIDE DEF a
    <3>8. a = s
      BY <2>1, <3>5, <3>6, SeqEqual
    <3> QED
      BY <3>7, <3>8
  <2> QED
    BY <2>1
<1>3. Nat \subseteq L
  <2> HIDE DEF L
  <2> QED
    BY <1>1, <1>2, Inductive
<1> QED
  BY <1>3, LenProperties

\* What is put together, element by element.
LEMMA Concatenated ==
  ASSUME NEW S, NEW a \in Seq(S), NEW b \in Seq(S)
  PROVE  /\ a \o b \in Seq(S) /\ Len(a \o b) = Len(a) + Len(b)
         /\ \A i \in 1..(Len(a) + Len(b)) : (a \o b)[i] = IF i <= Len(a) THEN a[i] ELSE b[i - Len(a)]
BY ConcatProperties

\* The elements of a sequence after the i-th and up to the j-th make way for others.
Exchanged(s, i, m, j) == SubSeq(s, 1, i) \o m \o SubSeq(s, j + 1, Len(s))

\* ... element by element.
Laid(e, s, i, m, j) ==
  \A k \in 1..(i + Len(m) + (Len(s) - j)) :
     e[k] = IF k <= i THEN s[k]
            ELSE IF k <= i + Len(m) THEN m[k - i] ELSE s[j + (k - (i + Len(m)))]

LEMMA Exchange ==
  ASSUME NEW S, NEW s \in Seq(S), NEW i \in 0..Len(s), NEW j \in i..Len(s), NEW m \in Seq(S)
  PROVE  /\ Exchanged(s, i, m, j) \in Seq(S)
         /\ Len(Exchanged(s, i, m, j)) = i + Len(m) + (Len(s) - j)
         /\ Laid(Exchanged(s, i, m, j), s, i, m, j)
<1> DEFINE a == SubSeq(s, 1, i)
           c == SubSeq(s, j + 1, Len(s))
           d == a \o m
           e == d \o c
<1>1. Len(s) \in Nat /\ Len(m) \in Nat
  BY LenProperties
<1>2. a \in Seq(S) /\ Len(a) = i /\ c \in Seq(S) /\ Len(c) = Len(s) - j
  BY CutOut
<1>3. \A k \in 1..i : a[k] = s[k]
  BY <1>1
<1>4. \A k \in 1..(Len(s) - j) : c[k] = s[j + k]
  BY <1>1
<1> HIDE DEF a, c
<1>5. /\ d \in Seq(S) /\ Len(d) = i + Len(m)
      /\ \A k \in 1..(i + Len(m)) : d[k] = IF k <= i THEN a[k] ELSE m[k - i]
  BY <1>2, Concatenated
<1> HIDE DEF d
<1>6. /\ e \in Seq(S) /\ Len(e) = Len(d) + Len(c)
      /\ \A k \in 1..(Len(d) + Len(c)) : e[k] = IF k <= Len(d) THEN d[k] ELSE c[k - Len(d)]
  <2>1. d \in Seq(S) /\ c \in Seq(S)
    BY <1>2, <1>5
  <2> QED
    BY <2>1, Concatenated
<1> HIDE DEF e
<1>7. Len(e) = i + Len(m) + (Len(s) - j)
  BY <1>1, <1>2, <1>5, <1>6
<1>8. ASSUME NEW k \in 1..(i + Len(m) + (Len(s) - j))
      PROVE  e[k] = IF k <= i THEN s[k]
                    ELSE IF k <= i + Len(m) THEN m[k - i] ELSE s[j + (k - (i + Len(m)))]
  <2>1. k \in 1..(Len(d) + Len(c)) /\ k \in Nat /\ k >= 1
    BY <1>1, <1>2, <1>5
  <2>2. CASE k <= i + Len(m)
    <3>1. e[k] = d[k] /\ k \in 1..(i + Len(m))
      BY <1>5, <1>6, <2>1, <2>2
    <3>2. k <= i => k \in 1..i
      BY <2>1
    <3>3. d[k] = IF k <= i THEN a[k] ELSE m[k - i]
      BY <1>5, <3>1
    <3> QED
      BY <1>3, <2>2, <3>1, <3>2, <3>3
  <2>3. CASE ~(k <= i + Len(m))
    <3>1. e[k] = c[k - (i + Len(m))]
      BY <1>5, <1>6, <2>1, <2>3
    <3>2. k - (i + Len(m)) \in 1..(Len(s) - j) /\ ~(k <= i)
      BY <1>1, <2>1, <2>3
    <3> QED
      BY <1>4, <2>3, <3>1, <3>2
  <2> QED
    BY <2>2, <2>3
<1> QED
  BY <1>6, <1>7, <1>8 DEF e, d, c, a, Exchanged, Laid
=============================================================================
