---------------------------- MODULE EditorProofs ----------------------------
(***************************************************************************)
(* The two editors, for any text, keys, windows and files: a buffer not    *)
(* marked modified is what is on disk, the cursor is in the window, a      *)
(* document prints what was saved in it, and what a key does to the lines  *)
(* is what TextBuffer lets it do to the one text that they are.            *)
(***************************************************************************)
EXTENDS Programs, DataLemmas

(***************************************************************************)
(* Texts and their lines.                                                  *)
(***************************************************************************)
Break == Text!LF
LinesOf(S) == Seq(Seq(S)) \ {<<>>}

LEMMA LinesAre ==
  ASSUME NEW S, NEW lines \in LinesOf(S)
  PROVE  /\ Len(lines) \in Nat \ {0} /\ lines \in Seq(Seq(S))
         /\ \A i \in 1..Len(lines) : lines[i] \in Seq(S)
<1>1. lines \in Seq(Seq(S)) /\ lines # <<>>
  BY DEF LinesOf
<1>2. Len(lines) \in Nat /\ Len(lines) # 0
  BY <1>1, EmptySeq, LenProperties
<1> QED
  BY <1>1, <1>2, ElementOfSeq

LEMMA OneLine == ASSUME NEW S, NEW l \in Seq(S) PROVE <<l>> \in LinesOf(S) /\ Len(<<l>>) = 1
BY DEF LinesOf

LEMMA OneMoreLine ==
  ASSUME NEW S, NEW lines \in Seq(Seq(S)), NEW l \in Seq(S)
  PROVE  /\ Append(lines, l) \in LinesOf(S) /\ Len(Append(lines, l)) = Len(lines) + 1
         /\ Append(lines, l)[Len(lines) + 1] = l
         /\ \A i \in 1..Len(lines) : Append(lines, l)[i] = lines[i]
BY AppendProperties DEF LinesOf

\* The last line with one character more.
LEMMA ScannedType ==
  ASSUME NEW S, NEW lines \in LinesOf(S), NEW c \in S
  PROVE  Text!Scanned(lines, c) \in LinesOf(S)
<1>1. /\ Len(lines) \in Nat \ {0} /\ lines \in Seq(Seq(S))
      /\ \A i \in 1..Len(lines) : lines[i] \in Seq(S)
  BY LinesAre
<1>2. CASE c = Text!LF
  <2>1. <<>> \in Seq(S)
    BY EmptySeq
  <2> QED
    BY <1>1, <1>2, <2>1, OneMoreLine DEF Text!Scanned
<1>3. CASE c # Text!LF
  <2> DEFINE l == Append(lines[Len(lines)], c)
             n == [lines EXCEPT ![Len(lines)] = l]
  <2>1. l \in Seq(S)
    <3>1. lines[Len(lines)] \in Seq(S)
      BY <1>1
    <3> QED
      BY <3>1, AppendProperties
  <2>2. Text!Scanned(lines, c) = n
    BY <1>3 DEF Text!Scanned
  <2> HIDE DEF l
  <2>3. n \in Seq(Seq(S)) /\ Len(n) = Len(lines)
    BY <1>1, <2>1, ExceptSeq
  <2>4. n # <<>>
    BY <1>1, <2>3, EmptySeq
  <2> QED
    BY <2>2, <2>3, <2>4 DEF LinesOf
<1> QED
  BY <1>2, <1>3

\* The lines up to each character of a text.
IsSplit(w, S, t) ==
  /\ w \in [0..Len(t) -> LinesOf(S)] /\ w[0] = <<<<>>>>
  /\ \A i \in 1..Len(t) : w[i] = Text!Scanned(w[i - 1], t[i])

LEMMA SplitOf ==
  ASSUME NEW S, NEW t \in Seq(S)
  PROVE  \E w : IsSplit(w, S, t) /\ Text!Split(t) = w[Len(t)]
<1> DEFINE n == Len(t)
           P == LinesOf(S)
           G == [i \in 1..n |-> [l \in P |-> Text!Scanned(l, t[i])]]
           Is(f) == f = [i \in 0..n |-> IF i = 0 THEN <<<<>>>> ELSE Text!Scanned(f[i - 1], t[i])]
           u == CHOOSE f : Is(f)
<1>1. n \in Nat /\ \A i \in 1..n : t[i] \in S
  BY LenProperties, ElementOfSeq
<1>2. G \in [1..n -> [P -> P]]
  <2>1. ASSUME NEW i \in 1..n, NEW l \in P PROVE Text!Scanned(l, t[i]) \in P
    BY <1>1, ScannedType
  <2> HIDE DEF P
  <2> QED
    BY <2>1
<1>3. <<<<>>>> \in P
  BY OneLine, EmptySeq
<1>4. PICK w : IsMade(w, P, G, <<<<>>>>, n)
  <2> HIDE DEF P, G, n
  <2> QED
    BY <1>1, <1>2, <1>3, Makes
<1>5. w \in [0..n -> P] /\ w[0] = <<<<>>>> /\ \A i \in 1..n : w[i] = G[i][w[i - 1]]
  BY <1>4 DEF IsMade
<1>6. ASSUME NEW i \in 1..n PROVE w[i] = Text!Scanned(w[i - 1], t[i])
  <2>1. i - 1 \in 0..n /\ w[i - 1] \in P
    BY <1>1, <1>5
  <2> HIDE DEF P
  <2> QED
    BY <1>5, <2>1
<1>7. Is(w)
  <2>1. ASSUME NEW i \in 0..n
        PROVE  w[i] = IF i = 0 THEN <<<<>>>> ELSE Text!Scanned(w[i - 1], t[i])
    <3>1. i # 0 => i \in 1..n
      BY <1>1
    <3> HIDE DEF P, G, n
    <3> QED
      BY <1>5, <1>6, <3>1
  <2> HIDE DEF P
  <2> QED
    BY <1>5, <2>1
<1>8. Is(u)
  BY <1>7
<1>9. Text!Split(t) = u[n]
  BY DEF Text!Split
<1> HIDE DEF u
<1>10. DOMAIN u = 0..n /\ u[0] = <<<<>>>> /\ \A i \in 1..n : u[i] = Text!Scanned(u[i - 1], t[i])
  BY <1>1, <1>8
<1>11. ASSUME NEW i \in 0..n PROVE u[i] \in P
  <2>1. ASSUME NEW k \in 0..n, k # n /\ u[k] \in P PROVE u[k + 1] \in P
    <3>1. k + 1 \in 1..n /\ (k + 1) - 1 = k
      BY <1>1, <2>1
    <3> QED
      BY <1>1, <1>10, <2>1, <3>1, ScannedType
  <2> HIDE DEF P
  <2> QED
    BY <1>1, <1>3, <1>10, <2>1, WalkStays
<1>12. u \in [0..n -> P]
  <2>1. u = [i \in 0..n |-> u[i]]
    BY <1>8
  <2> HIDE DEF P
  <2> QED
    BY <1>11, <2>1
<1> QED
  BY <1>9, <1>10, <1>12 DEF IsSplit

LEMMA SplitType ==
  ASSUME NEW S, NEW t \in Seq(S)
  PROVE  Text!Split(t) \in LinesOf(S)
<1>1. PICK w : IsSplit(w, S, t) /\ Text!Split(t) = w[Len(t)]
  BY SplitOf
<1>2. Len(t) \in 0..Len(t)
  BY LenProperties
<1> QED
  BY <1>1, <1>2 DEF IsSplit

LEMMA SplitNothing == Text!Split(<<>>) = <<<<>>>>
<1>1. <<>> \in Seq({}) /\ Len(<<>>) = 0
  BY EmptySeq
<1>2. PICK w : IsSplit(w, {}, <<>>) /\ Text!Split(<<>>) = w[0]
  BY <1>1, SplitOf
<1> QED
  BY <1>2 DEF IsSplit

LEMMA SplitMore ==
  ASSUME NEW S, NEW t \in Seq(S), NEW c \in S
  PROVE  Text!Split(Append(t, c)) = Text!Scanned(Text!Split(t), c)
<1> DEFINE m == Append(t, c)
           n == Len(t)
<1>1. /\ m \in Seq(S) /\ Len(m) = n + 1 /\ n \in Nat
      /\ m[n + 1] = c /\ \A i \in 1..n : m[i] = t[i]
  BY AppendProperties, LenProperties
<1> HIDE DEF m
<1>2. PICK w : IsSplit(w, S, t) /\ Text!Split(t) = w[n]
  BY SplitOf
<1>3. PICK v : IsSplit(v, S, m) /\ Text!Split(m) = v[n + 1]
  BY <1>1, SplitOf
<1>4. w[0] = <<<<>>>> /\ \A i \in 1..n : w[i] = Text!Scanned(w[i - 1], t[i])
  BY <1>2 DEF IsSplit
<1>5. v[0] = <<<<>>>> /\ \A i \in 1..(n + 1) : v[i] = Text!Scanned(v[i - 1], m[i])
  BY <1>1, <1>3 DEF IsSplit
<1> DEFINE H == {i \in Nat : i <= n => v[i] = w[i]}
<1>6. 0 \in H
  BY <1>4, <1>5
<1>7. ASSUME NEW i \in Nat, i \in H PROVE i + 1 \in H
  <2>1. CASE i + 1 <= n
    <3>1. i + 1 \in 1..n /\ i + 1 \in 1..(n + 1) /\ (i + 1) - 1 = i /\ i <= n
      BY <1>1, <2>1
    <3>2. v[i + 1] = Text!Scanned(v[i], m[i + 1]) /\ w[i + 1] = Text!Scanned(w[i], t[i + 1])
      BY <1>4, <1>5, <3>1
    <3> QED
      BY <1>1, <1>7, <3>1, <3>2
  <2> QED
    BY <2>1
<1>8. Nat \subseteq H
  <2> HIDE DEF H
  <2> QED
    BY <1>6, <1>7, Inductive
<1>9. v[n] = w[n]
  BY <1>1, <1>8
<1>10. v[n + 1] = Text!Scanned(v[n], m[n + 1])
  BY <1>1, <1>5
<1> QED
  BY <1>1, <1>2, <1>3, <1>9, <1>10 DEF m

\* A line that goes on is the last one.
LEMMA SplitGoesOn ==
  ASSUME NEW S, NEW lines \in Seq(Seq(S)), NEW l \in Seq(S), NEW c \in S, c # Break
  PROVE  Text!Scanned(Append(lines, l), c) = Append(lines, Append(l, c))
<1> DEFINE a == Append(lines, l)
           n == Append(l, c)
           b == Append(lines, n)
           s == [a EXCEPT ![Len(a)] = n]
<1>1. n \in Seq(S) /\ Len(lines) \in Nat
  BY AppendProperties, LenProperties
<1>2. /\ a \in Seq(Seq(S)) /\ Len(a) = Len(lines) + 1 /\ a[Len(lines) + 1] = l
      /\ \A i \in 1..Len(lines) : a[i] = lines[i]
  BY AppendProperties
<1>3. Text!Scanned(a, c) = s
  BY <1>2 DEF Text!Scanned, Break
<1> HIDE DEF n
<1>4. /\ b \in Seq(Seq(S)) /\ Len(b) = Len(lines) + 1 /\ b[Len(lines) + 1] = n
      /\ \A i \in 1..Len(lines) : b[i] = lines[i]
  BY <1>1, AppendProperties
<1> HIDE DEF a, b
<1>5. s \in Seq(Seq(S)) /\ Len(s) = Len(a)
  <2>1. Len(a) \in 1..Len(a)
    BY <1>1, <1>2
  <2> QED
    BY <1>1, <1>2, <2>1, ExceptSeq
<1>6. ASSUME NEW i \in 1..Len(b) PROVE s[i] = b[i]
  <2>1. DOMAIN a = 1..Len(a)
    BY <1>2
  <2>2. s[i] = IF i = Len(a) THEN n ELSE a[i]
    BY <1>2, <1>4, <2>1
  <2>3. i # Len(a) => i \in 1..Len(lines)
    BY <1>1, <1>2, <1>4
  <2> QED
    BY <1>2, <1>4, <2>2, <2>3
<1> HIDE DEF s
<1>7. s = b
  BY <1>2, <1>4, <1>5, <1>6, SeqEqual
<1> QED
  BY <1>3, <1>7 DEF a, b, n

\* What follows a line break is a line, up to the next one.
LEMMA SplitLastLine ==
  ASSUME NEW S, Break \in S, NEW t \in Seq(S)
  PROVE  \A l \in Seq(S \ {Break}) :
            Text!Split(Append(t, Break) \o l) = Append(Text!Split(t), l)
<1> DEFINE A == S \ {Break}
           b == Append(t, Break)
           H == {l \in Seq(A) : Text!Split(b \o l) = Append(Text!Split(t), l)}
<1>1. b \in Seq(S) /\ Text!Split(t) \in Seq(Seq(S))
  <2>1. Text!Split(t) \in LinesOf(S)
    BY SplitType
  <2> QED
    BY <2>1, AppendProperties DEF LinesOf
<1>2. <<>> \in H
  <2>1. b \o <<>> = b
    BY <1>1
  <2>2. Text!Split(b) = Append(Text!Split(t), <<>>)
    <3>1. Text!Split(b) = Text!Scanned(Text!Split(t), Break)
      BY SplitMore
    <3> QED
      BY <3>1 DEF Text!Scanned, Break
  <2> QED
    BY <2>1, <2>2, EmptySeq
<1>3. ASSUME NEW l \in Seq(A), NEW c \in A, l \in H PROVE Append(l, c) \in H
  <2>1. l \in Seq(S) /\ c \in S /\ c # Break /\ Append(l, c) \in Seq(A)
    BY AppendProperties
  <2>2. b \o Append(l, c) = Append(b \o l, c)
    <3> HIDE DEF b
    <3> QED
      BY <1>1, <2>1
  <2>3. b \o l \in Seq(S)
    BY <1>1, <2>1, ConcatProperties
  <2>4. Text!Split(Append(b \o l, c)) = Text!Scanned(Text!Split(b \o l), c)
    <3> HIDE DEF b
    <3> QED
      BY <2>1, <2>3, SplitMore
  <2>5. Text!Split(b \o l) = Append(Text!Split(t), l)
    BY <1>3
  <2>6. Text!Scanned(Append(Text!Split(t), l), c) = Append(Text!Split(t), Append(l, c))
    BY <1>1, <2>1, SplitGoesOn
  <2> QED
    BY <2>1, <2>2, <2>4, <2>5, <2>6
<1>4. Seq(A) \subseteq H
  <2> HIDE DEF H, A
  <2> QED
    BY <1>2, <1>3, Appending
<1> QED
  BY <1>4

LEMMA SplitLine ==
  ASSUME NEW S, Break \notin S
  PROVE  \A l \in Seq(S) : Text!Split(l) = <<l>>
<1> DEFINE H == {l \in Seq(S) : Text!Split(l) = <<l>>}
<1>1. <<>> \in H
  BY SplitNothing, EmptySeq
<1>2. ASSUME NEW l \in Seq(S), NEW c \in S, l \in H PROVE Append(l, c) \in H
  <2>1. <<l>> = Append(<<>>, l) /\ <<Append(l, c)>> = Append(<<>>, Append(l, c))
    OBVIOUS
  <2>2. Text!Split(Append(l, c)) = Text!Scanned(Text!Split(l), c)
    BY SplitMore
  <2>3. Text!Scanned(Append(<<>>, l), c) = Append(<<>>, Append(l, c))
    <3> DEFINE none == <<>>
    <3>1. none \in Seq(Seq(S)) /\ c # Break
      BY EmptySeq
    <3> HIDE DEF none
    <3>2. Text!Scanned(Append(none, l), c) = Append(none, Append(l, c))
      BY <3>1, SplitGoesOn
    <3> QED
      BY <3>2 DEF none
  <2>4. Append(l, c) \in Seq(S)
    BY AppendProperties
  <2> QED
    BY <1>2, <2>1, <2>2, <2>3, <2>4
<1>3. Seq(S) \subseteq H
  <2> HIDE DEF H
  <2> QED
    BY <1>1, <1>2, Appending
<1> QED
  BY <1>3

\* The text of the lines up to each one.
IsJoin(w, S, lines) ==
  /\ \A i \in 1..Len(lines) : w[i] \in Seq(S)
  /\ w[1] = lines[1]
  /\ \A i \in 2..Len(lines) : w[i] = w[i - 1] \o <<Break>> \o lines[i]

LEMMA WithLine ==
  ASSUME NEW S, Break \in S, NEW t \in Seq(S), NEW l \in Seq(S)
  PROVE  /\ t \o <<Break>> \o l \in Seq(S) /\ Append(t, Break) \in Seq(S)
         /\ t \o <<Break>> \o l = Append(t, Break) \o l
         /\ Len(t \o <<Break>> \o l) = Len(t) + 1 + Len(l)
<1> DEFINE a == Append(t, Break)
<1>1. a = t \o <<Break>>
  BY AppendIsConcat
<1>2. a \in Seq(S) /\ Len(a) = Len(t) + 1
  BY AppendProperties
<1>3. Len(t) \in Nat /\ Len(l) \in Nat
  BY LenProperties
<1> HIDE DEF a
<1>4. a \o l \in Seq(S) /\ Len(a \o l) = Len(t) + 1 + Len(l)
  BY <1>2, ConcatProperties
<1> QED
  BY <1>1, <1>2, <1>4 DEF a

LEMMA JoinOf ==
  ASSUME NEW S, Break \in S, NEW lines \in LinesOf(S)
  PROVE  \E w : IsJoin(w, S, lines) /\ Text!Join(lines) = w[Len(lines)]
<1> DEFINE n == Len(lines)
           P == Seq(S)
           G == [i \in 1..(n - 1) |-> [t \in P |-> t \o <<Break>> \o lines[i + 1]]]
           Is(f) == f = [i \in 1..n |-> IF i = 1 THEN lines[1] ELSE f[i - 1] \o <<Break>> \o lines[i]]
           u == CHOOSE f : Is(f)
<1>1. n \in Nat \ {0} /\ \A i \in 1..n : lines[i] \in P
  BY LinesAre
<1>2. G \in [1..(n - 1) -> [P -> P]] /\ lines[1] \in P /\ n - 1 \in Nat
  <2>1. ASSUME NEW i \in 1..(n - 1), NEW t \in P PROVE t \o <<Break>> \o lines[i + 1] \in P
    <3>1. lines[i + 1] \in P
      BY <1>1
    <3> QED
      BY <3>1, WithLine
  <2>2. lines[1] \in P /\ n - 1 \in Nat
    BY <1>1
  <2> HIDE DEF P, n
  <2> QED
    BY <2>1, <2>2
<1>3. PICK w : IsMade(w, P, G, lines[1], n - 1)
  <2> HIDE DEF P, G, n
  <2> QED
    BY <1>2, Makes
<1>4. w \in [0..(n - 1) -> P] /\ w[0] = lines[1] /\ \A i \in 1..(n - 1) : w[i] = G[i][w[i - 1]]
  BY <1>3 DEF IsMade
<1> DEFINE f == [i \in 1..n |-> w[i - 1]]
<1>5. ASSUME NEW i \in 1..n
      PROVE  f[i] = IF i = 1 THEN lines[1] ELSE f[i - 1] \o <<Break>> \o lines[i]
  <2>1. CASE i = 1
    BY <1>4, <2>1
  <2>2. CASE i # 1
    <3>1. /\ i - 1 \in 1..(n - 1) /\ i - 1 \in 1..n /\ (i - 1) - 1 \in 0..(n - 1)
          /\ (i - 1) + 1 = i
      BY <1>1, <2>2
    <3>2. f[i] = w[i - 1] /\ f[i - 1] = w[(i - 1) - 1] /\ w[(i - 1) - 1] \in P
      BY <1>4, <3>1
    <3>3. w[i - 1] = G[i - 1][w[(i - 1) - 1]]
      BY <1>4, <3>1
    <3> HIDE DEF P, f, n
    <3>4. \A t \in P : G[i - 1][t] = t \o <<Break>> \o lines[i]
      BY <3>1
    <3> QED
      BY <2>2, <3>2, <3>3, <3>4
  <2> QED
    BY <2>1, <2>2
<1>6. Is(f)
  <2>1. DOMAIN f = 1..n /\ f = [i \in 1..n |-> f[i]]
    OBVIOUS
  <2> HIDE DEF f, n
  <2> QED
    BY <1>5, <2>1
<1>7. Is(u)
  <2> HIDE DEF f, n
  <2> QED
    BY <1>6
<1>8. Text!Join(lines) = u[n]
  BY DEF Text!Join, Break
<1> HIDE DEF u, f
<1>9. u[1] = lines[1] /\ \A i \in 2..n : u[i] = u[i - 1] \o <<Break>> \o lines[i]
  <2>1. \A i \in 1..n : u[i] = IF i = 1 THEN lines[1] ELSE u[i - 1] \o <<Break>> \o lines[i]
    <3> HIDE DEF n
    <3> QED
      BY <1>7
  <2>2. 1 \in 1..n /\ \A i \in 2..n : i \in 1..n /\ i # 1
    BY <1>1
  <2>3. u[1] = lines[1]
    BY <2>1, <2>2
  <2>4. ASSUME NEW i \in 2..n PROVE u[i] = u[i - 1] \o <<Break>> \o lines[i]
    <3>1. i \in 1..n /\ i # 1
      BY <2>2
    <3> HIDE DEF n
    <3> QED
      BY <2>1, <3>1
  <2> QED
    BY <2>3, <2>4
<1> DEFINE v == [k \in 0..(n - 1) |-> u[k + 1]]
<1>10. v[0] = lines[1] /\ \A k \in 0..(n - 1) : v[k] = u[k + 1]
  BY <1>1, <1>9
<1> HIDE DEF v
<1>11. \A k \in 0..(n - 1) : v[k] \in P
  <2>1. ASSUME NEW k \in 0..(n - 1), k # n - 1 /\ v[k] \in P PROVE v[k + 1] \in P
    <3>1. k + 1 \in 0..(n - 1) /\ (k + 1) + 1 \in 2..n /\ ((k + 1) + 1) - 1 = k + 1 /\ (k + 1) + 1 \in 1..n
      BY <1>1, <2>1
    <3>2. v[k + 1] = v[k] \o <<Break>> \o lines[(k + 1) + 1] /\ lines[(k + 1) + 1] \in P
      BY <1>1, <1>9, <1>10, <3>1
    <3> QED
      BY <2>1, <3>2, WithLine
  <2>2. v[0] \in P
    BY <1>2, <1>10
  <2> HIDE DEF P, n
  <2> QED
    BY <1>2, <2>1, <2>2, WalkStays
<1>12. ASSUME NEW i \in 1..n PROVE u[i] \in P
  <2>1. i - 1 \in 0..(n - 1) /\ (i - 1) + 1 = i
    BY <1>1
  <2> QED
    BY <1>10, <1>11, <2>1
<1> QED
  BY <1>8, <1>9, <1>12 DEF IsJoin

LEMMA JoinType ==
  ASSUME NEW S, Break \in S, NEW lines \in LinesOf(S)
  PROVE  Text!Join(lines) \in Seq(S)
<1>1. PICK w : IsJoin(w, S, lines) /\ Text!Join(lines) = w[Len(lines)]
  BY JoinOf
<1>2. Len(lines) \in 1..Len(lines)
  BY LinesAre
<1> QED
  BY <1>1, <1>2 DEF IsJoin

LEMMA JoinOne ==
  ASSUME NEW S, Break \in S, NEW l \in Seq(S)
  PROVE  Text!Join(<<l>>) = l
<1>1. <<l>> \in LinesOf(S) /\ Len(<<l>>) = 1
  BY OneLine
<1>2. PICK w : IsJoin(w, S, <<l>>) /\ Text!Join(<<l>>) = w[1]
  BY <1>1, JoinOf
<1> QED
  BY <1>2 DEF IsJoin

LEMMA JoinMore ==
  ASSUME NEW S, Break \in S, NEW lines \in LinesOf(S), NEW l \in Seq(S)
  PROVE  Text!Join(Append(lines, l)) = Text!Join(lines) \o <<Break>> \o l
<1> DEFINE m == Append(lines, l)
           n == Len(lines)
<1>1. n \in Nat \ {0} /\ lines \in Seq(Seq(S))
  BY LinesAre
<1>2. /\ m \in LinesOf(S) /\ Len(m) = n + 1 /\ m[n + 1] = l
      /\ \A i \in 1..n : m[i] = lines[i]
  BY <1>1, OneMoreLine
<1> HIDE DEF m
<1>3. PICK w : IsJoin(w, S, lines) /\ Text!Join(lines) = w[n]
  BY JoinOf
<1>4. PICK v : IsJoin(v, S, m) /\ Text!Join(m) = v[n + 1]
  BY <1>2, JoinOf
<1>5. w[1] = lines[1] /\ \A i \in 2..n : w[i] = w[i - 1] \o <<Break>> \o lines[i]
  BY <1>3 DEF IsJoin
<1>6. v[1] = m[1] /\ \A i \in 2..(n + 1) : v[i] = v[i - 1] \o <<Break>> \o m[i]
  BY <1>2, <1>4 DEF IsJoin
<1> DEFINE H == {i \in Nat : i + 1 <= n => v[i + 1] = w[i + 1]}
<1>7. 0 \in H
  <2>1. v[1] = w[1]
    BY <1>1, <1>2, <1>5, <1>6
  <2> QED
    BY <2>1
<1>8. ASSUME NEW i \in Nat, i \in H PROVE i + 1 \in H
  <2> DEFINE k == i + 1
  <2>1. CASE k + 1 <= n
    <3>1. k + 1 \in 2..n /\ k + 1 \in 2..(n + 1) /\ (k + 1) - 1 = k /\ k <= n /\ k + 1 \in 1..n
      BY <1>1, <2>1
    <3>2. v[k] = w[k]
      BY <1>8, <3>1
    <3> HIDE DEF k
    <3>3. v[k + 1] = w[k + 1]
      BY <1>2, <1>5, <1>6, <3>1, <3>2
    <3> QED
      BY <3>3 DEF k
  <2>2. CASE ~(k + 1 <= n)
    BY <2>2
  <2> QED
    BY <2>1, <2>2
<1>9. Nat \subseteq H
  <2> HIDE DEF H
  <2> QED
    BY <1>7, <1>8, Inductive
<1>10. v[n] = w[n]
  <2>1. n - 1 \in Nat /\ (n - 1) + 1 = n
    BY <1>1
  <2>2. n - 1 \in H
    BY <1>9, <2>1
  <2> QED
    BY <1>1, <2>1, <2>2
<1>11. v[n + 1] = v[n] \o <<Break>> \o m[n + 1]
  <2>1. n + 1 \in 2..(n + 1) /\ (n + 1) - 1 = n
    BY <1>1
  <2> QED
    BY <1>6, <2>1
<1> QED
  BY <1>2, <1>3, <1>4, <1>10, <1>11 DEF m

\* Lines without a break in them are the lines of their text.
LEMMA SplitJoin ==
  ASSUME NEW S, Break \notin S, NEW lines \in LinesOf(S)
  PROVE  Text!Split(Text!Join(lines)) = lines
<1> DEFINE B == S \cup {Break}
           H == {x \in Seq(Seq(S)) : x # <<>> => Text!Split(Text!Join(x)) = x}
<1>0. \A l \in Seq(S) : l \in Seq(B)
  OBVIOUS
<1>1. <<>> \in H
  BY EmptySeq
<1>2. ASSUME NEW x \in Seq(Seq(S)), NEW l \in Seq(S), x \in H PROVE Append(x, l) \in H
  <2>1. Append(x, l) \in Seq(Seq(S))
    BY AppendProperties
  <2>2. CASE x = <<>>
    <3>1. Append(x, l) = <<l>>
      BY <2>2
    <3>2. Text!Join(<<l>>) = l
      BY <1>0, JoinOne
    <3>3. Text!Split(l) = <<l>>
      BY SplitLine
    <3> QED
      BY <2>1, <3>1, <3>2, <3>3
  <2>3. CASE x # <<>>
    <3>1. x \in LinesOf(B)
      <4>1. x \in Seq(Seq(B))
        BY <1>0
      <4> QED
        BY <2>3, <4>1 DEF LinesOf
    <3> DEFINE t == Text!Join(x)
    <3>2. t \in Seq(B)
      BY <3>1, JoinType
    <3>3. l \in Seq(B) /\ l \in Seq(B \ {Break})
      <4>1. B \ {Break} = S
        OBVIOUS
      <4> QED
        BY <1>0, <4>1
    <3>4. Text!Join(Append(x, l)) = Append(t, Break) \o l
      <4>1. Text!Join(Append(x, l)) = t \o <<Break>> \o l
        BY <1>0, <3>1, JoinMore
      <4> HIDE DEF t
      <4> QED
        BY <3>2, <3>3, <4>1, WithLine
    <3>5. Text!Split(Append(t, Break) \o l) = Append(Text!Split(t), l)
      <4> HIDE DEF t
      <4>1. Break \in B
        OBVIOUS
      <4> HIDE DEF B
      <4> QED
        BY <3>2, <3>3, <4>1, SplitLastLine
    <3>6. Text!Split(t) = x
      BY <1>2, <2>3
    <3> QED
      BY <2>1, <3>4, <3>5, <3>6
  <2> QED
    BY <2>2, <2>3
<1>3. Seq(Seq(S)) \subseteq H
  <2> HIDE DEF H
  <2> QED
    BY <1>1, <1>2, Appending
<1> QED
  BY <1>3 DEF LinesOf

\* A text is split into lines that have no break in them.
LEMMA SplitInked ==
  ASSUME NEW S, NEW t \in Seq(S)
  PROVE  Text!Split(t) \in LinesOf(S \ {Break})
<1> DEFINE A == S \ {Break}
           H == {x \in Seq(S) : Text!Split(x) \in LinesOf(A)}
<1>1. <<>> \in H
  BY SplitNothing, OneLine, EmptySeq
<1>2. ASSUME NEW x \in Seq(S), NEW c \in S, x \in H PROVE Append(x, c) \in H
  <2>1. Text!Split(Append(x, c)) = Text!Scanned(Text!Split(x), c)
    BY SplitMore
  <2> DEFINE y == Text!Split(x)
  <2>2. y \in LinesOf(A)
    BY <1>2
  <2>3. Text!Scanned(y, c) \in LinesOf(A)
    <3> HIDE DEF y, H
    <3>1. CASE c \in A
      <4> HIDE DEF A
      <4> QED
        BY <2>2, <3>1, ScannedType
    <3>2. CASE c = Break
      <4> HIDE DEF A
      <4>1. y \in Seq(Seq(A)) /\ <<>> \in Seq(A)
        BY <2>2, EmptySeq DEF LinesOf
      <4>2. Text!Scanned(y, c) = Append(y, <<>>)
        BY <3>2 DEF Text!Scanned, Break
      <4> QED
        BY <4>1, <4>2, OneMoreLine
    <3> QED
      BY <3>1, <3>2
  <2>4. Append(x, c) \in Seq(S)
    BY AppendProperties
  <2> QED
    BY <2>1, <2>3, <2>4
<1>3. Seq(S) \subseteq H
  <2> HIDE DEF H
  <2> QED
    BY <1>1, <1>2, Appending
<1> QED
  BY <1>3

(***************************************************************************)
(* What the editors' operators do to a line, and to the lines.             *)
(***************************************************************************)
LEMMA InsertIs ==
  ASSUME NEW S, NEW s \in Seq(S), NEW i \in 0..Len(s), NEW c \in S
  PROVE  /\ Text!InsertAt(s, i + 1, c) = Exchanged(s, i, <<c>>, i)
         /\ Edit!InsertAt(s, i + 1, c) = Exchanged(s, i, <<c>>, i)
<1>1. (i + 1) - 1 = i
  BY LenProperties
<1> QED
  BY <1>1 DEF Text!InsertAt, Edit!InsertAt, Exchanged

LEMMA RemoveIs ==
  ASSUME NEW S, NEW s \in Seq(S), NEW i \in 1..Len(s)
  PROVE  /\ Text!RemoveAt(s, i) = Exchanged(s, i - 1, <<>>, i)
         /\ Edit!RemoveAt(s, i) = Exchanged(s, i - 1, <<>>, i)
<1> DEFINE a == SubSeq(s, 1, i - 1)
<1>1. a \in Seq(S)
  <2>1. i - 1 \in 0..Len(s)
    BY LenProperties
  <2> QED
    BY <2>1, CutOut
<1> HIDE DEF a
<1>2. a \o <<>> = a
  BY <1>1
<1> QED
  BY <1>2 DEF Text!RemoveAt, Edit!RemoveAt, Exchanged, a

LEMMA SpliceIs ==
  ASSUME NEW S, NEW s \in Seq(S), NEW i \in 1..Len(s), NEW n \in Nat, NEW new
  PROVE  Text!Spliced(s, i, n, new) = Exchanged(s, i - 1, new, (i - 1) + n)
<1>1. ((i - 1) + n) + 1 = i + n
  BY LenProperties
<1> QED
  BY <1>1 DEF Text!Spliced, Exchanged

\* One element for another.
LEMMA ReplaceIs ==
  ASSUME NEW S, NEW s \in Seq(S), NEW i \in 1..Len(s), NEW e \in S
  PROVE  [s EXCEPT ![i] = e] = Exchanged(s, i - 1, <<e>>, i)
<1> DEFINE r == [s EXCEPT ![i] = e]
           x == Exchanged(s, i - 1, <<e>>, i)
<1>1. Len(s) \in Nat /\ <<e>> \in Seq(S) /\ Len(<<e>>) = 1 /\ <<e>>[1] = e
  BY LenProperties
<1>2. r \in Seq(S) /\ Len(r) = Len(s) /\ \A k \in 1..Len(s) : r[k] = IF k = i THEN e ELSE s[k]
  BY ExceptSeq
<1>3. i - 1 \in 0..Len(s) /\ i \in (i - 1)..Len(s)
  BY <1>1
<1>4. /\ x \in Seq(S) /\ Len(x) = (i - 1) + 1 + (Len(s) - i)
      /\ \A k \in 1..((i - 1) + 1 + (Len(s) - i)) : x[k] =
           IF k <= i - 1 THEN s[k]
           ELSE IF k <= (i - 1) + 1 THEN <<e>>[k - (i - 1)] ELSE s[i + (k - ((i - 1) + 1))]
  <2> DEFINE m == <<e>>
             h == i - 1
  <2>1. m \in Seq(S) /\ Len(m) = 1 /\ h \in 0..Len(s) /\ i \in h..Len(s)
    BY <1>1, <1>3
  <2> HIDE DEF m, h
  <2>2. /\ Exchanged(s, h, m, i) \in Seq(S)
        /\ Len(Exchanged(s, h, m, i)) = h + Len(m) + (Len(s) - i)
        /\ Laid(Exchanged(s, h, m, i), s, h, m, i)
    BY <2>1, Exchange
  <2> QED
    BY <2>1, <2>2 DEF m, h, Laid
<1> HIDE DEF r, x
<1>5. Len(x) = Len(s)
  BY <1>1, <1>4
<1>6. ASSUME NEW k \in 1..Len(s) PROVE r[k] = x[k]
  <2>1. /\ k \in 1..((i - 1) + 1 + (Len(s) - i)) /\ (i - 1) + 1 = i /\ i + (k - i) = k
        /\ (k <= i - 1 <=> k < i) /\ i - (i - 1) = 1
    BY <1>1
  <2>2. CASE k < i
    BY <1>2, <1>4, <2>1, <2>2
  <2>3. CASE k = i
    BY <1>1, <1>2, <1>4, <2>1, <2>3
  <2>4. CASE k > i
    BY <1>1, <1>2, <1>4, <2>1, <2>4
  <2> QED
    BY <2>2, <2>3, <2>4
<1>7. r = x
  BY <1>2, <1>4, <1>5, <1>6, SeqEqual
<1> QED
  BY <1>7 DEF r, x

(***************************************************************************)
(* The terminal editor: its cursor is in its lines.                        *)
(***************************************************************************)
Inked == Characters \ {Break}
BufferOf == [lines : LinesOf(Inked), cx : Nat, cy : Nat, rowOff : Nat, colOff : Nat,
             modified : BOOLEAN]
\* The buffers whose cursor is at a place of one of their lines.
Places == {b \in BufferOf : b.cy \in 1..Len(b.lines) /\ b.cx \in 0..Len(b.lines[b.cy])}

LEMMA PlaceFacts ==
  ASSUME NEW b \in Places
  PROVE  /\ b \in BufferOf /\ b.lines \in LinesOf(Inked) /\ b.lines \in Seq(Seq(Inked))
         /\ Len(b.lines) \in Nat \ {0} /\ b.cy \in 1..Len(b.lines) /\ b.cx \in Nat
         /\ b.cx \in 0..Len(b.lines[b.cy]) /\ b.lines[b.cy] \in Seq(Inked)
         /\ \A i \in 1..Len(b.lines) : b.lines[i] \in Seq(Inked) /\ Len(b.lines[i]) \in Nat
<1>1. /\ b \in BufferOf /\ b.cy \in 1..Len(b.lines) /\ b.cx \in 0..Len(b.lines[b.cy])
  BY DEF Places
<1>2. b.lines \in LinesOf(Inked) /\ b.cx \in Nat
  BY <1>1 DEF BufferOf
<1> DEFINE lines == b.lines
<1> HIDE DEF lines
<1>3. lines \in LinesOf(Inked)
  BY <1>2 DEF lines
<1>4. /\ Len(lines) \in Nat \ {0} /\ lines \in Seq(Seq(Inked))
      /\ \A i \in 1..Len(lines) : lines[i] \in Seq(Inked)
  BY <1>3, LinesAre
<1>5. \A i \in 1..Len(lines) : Len(lines[i]) \in Nat
  BY <1>4, LenProperties
<1> QED
  BY <1>1, <1>2, <1>4, <1>5 DEF lines

LEMMA EditedPlace ==
  ASSUME NEW b \in BufferOf, NEW lines \in LinesOf(Inked), NEW cy \in 1..Len(lines),
         NEW cx \in 0..Len(lines[cy])
  PROVE  /\ Text!Edited(b, lines, cx, cy) \in Places
         /\ Text!Edited(b, lines, cx, cy).lines = lines
         /\ Text!Edited(b, lines, cx, cy).cx = cx
         /\ Text!Edited(b, lines, cx, cy).cy = cy
         /\ Text!Edited(b, lines, cx, cy).modified
<1> DEFINE e == Text!Edited(b, lines, cx, cy)
<1>1. cy \in Nat /\ cx \in Nat
  BY LinesAre
<1>2. e \in BufferOf
  BY <1>1 DEF Text!Edited, BufferOf
<1>3. e.lines = lines /\ e.cx = cx /\ e.cy = cy /\ e.modified
  BY DEF Text!Edited, BufferOf
<1> HIDE DEF e
<1>4. e \in Places
  BY <1>2, <1>3 DEF Places
<1> QED
  BY <1>3, <1>4 DEF e

LEMMA MovedPlace ==
  ASSUME NEW b \in BufferOf, NEW cy \in 1..Len(b.lines), NEW cx \in 0..Len(b.lines[cy])
  PROVE  /\ Text!Moved(b, cx, cy) \in Places
         /\ Text!Moved(b, cx, cy).lines = b.lines
         /\ Text!Moved(b, cx, cy).cx = cx
         /\ Text!Moved(b, cx, cy).cy = cy
         /\ Text!Moved(b, cx, cy).modified = b.modified
<1> DEFINE e == Text!Moved(b, cx, cy)
<1>1. cy \in Nat /\ cx \in Nat
  <2>1. b.lines \in LinesOf(Inked)
    BY DEF BufferOf
  <2> QED
    BY <2>1, LinesAre
<1>2. e \in BufferOf
  BY <1>1 DEF Text!Moved, BufferOf
<1>3. e.lines = b.lines /\ e.cx = cx /\ e.cy = cy /\ e.modified = b.modified
  BY DEF Text!Moved, BufferOf
<1> HIDE DEF e
<1>4. e \in Places
  BY <1>2, <1>3 DEF Places
<1> QED
  BY <1>3, <1>4 DEF e

LEMMA LineReplaced ==
  ASSUME NEW lines \in LinesOf(Inked), NEW i \in 1..Len(lines), NEW l \in Seq(Inked)
  PROVE  /\ [lines EXCEPT ![i] = l] \in LinesOf(Inked)
         /\ Len([lines EXCEPT ![i] = l]) = Len(lines)
         /\ [lines EXCEPT ![i] = l][i] = l
<1>1. lines \in Seq(Seq(Inked)) /\ Len(lines) \in Nat \ {0}
  BY LinesAre
<1>2. /\ [lines EXCEPT ![i] = l] \in Seq(Seq(Inked)) /\ Len([lines EXCEPT ![i] = l]) = Len(lines)
      /\ [lines EXCEPT ![i] = l][i] = l
  BY <1>1, ExceptSeq
<1> QED
  BY <1>1, <1>2, EmptySeq DEF LinesOf

LEMMA LinesExchanged ==
  ASSUME NEW S, NEW lines \in LinesOf(S), NEW i \in 0..Len(lines), NEW j \in i..Len(lines),
         NEW m \in Seq(Seq(S)), i + Len(m) + (Len(lines) - j) > 0
  PROVE  /\ Exchanged(lines, i, m, j) \in LinesOf(S)
         /\ Len(Exchanged(lines, i, m, j)) = i + Len(m) + (Len(lines) - j)
         /\ Laid(Exchanged(lines, i, m, j), lines, i, m, j)
<1>1. lines \in Seq(Seq(S))
  BY LinesAre
<1>2. /\ Exchanged(lines, i, m, j) \in Seq(Seq(S))
      /\ Len(Exchanged(lines, i, m, j)) = i + Len(m) + (Len(lines) - j)
      /\ Laid(Exchanged(lines, i, m, j), lines, i, m, j)
  BY <1>1, Exchange
<1>3. Exchanged(lines, i, m, j) # <<>>
  BY <1>2, EmptySeq
<1> QED
  BY <1>2, <1>3 DEF LinesOf

LEMMA CharInserted ==
  ASSUME NEW S, NEW l \in Seq(S), NEW i \in 0..Len(l), NEW c \in S
  PROVE  Exchanged(l, i, <<c>>, i) \in Seq(S) /\ Len(Exchanged(l, i, <<c>>, i)) = Len(l) + 1
<1>1. <<c>> \in Seq(S) /\ Len(<<c>>) = 1 /\ Len(l) \in Nat /\ i \in i..Len(l)
  BY LenProperties
<1> DEFINE m == <<c>>
<1> HIDE DEF m
<1>2. Exchanged(l, i, m, i) \in Seq(S) /\ Len(Exchanged(l, i, m, i)) = i + Len(m) + (Len(l) - i)
  BY <1>1, Exchange DEF m
<1> QED
  BY <1>1, <1>2 DEF m

LEMMA CharRemoved ==
  ASSUME NEW S, NEW l \in Seq(S), NEW i \in 1..Len(l)
  PROVE  /\ Exchanged(l, i - 1, <<>>, i) \in Seq(S)
         /\ Len(Exchanged(l, i - 1, <<>>, i)) = Len(l) - 1
<1> DEFINE m == <<>>
           h == i - 1
<1>1. m \in Seq(S) /\ Len(m) = 0 /\ Len(l) \in Nat /\ h \in 0..Len(l) /\ i \in h..Len(l)
  BY LenProperties, EmptySeq
<1> HIDE DEF m, h
<1>2. Exchanged(l, h, m, i) \in Seq(S) /\ Len(Exchanged(l, h, m, i)) = h + Len(m) + (Len(l) - i)
  BY <1>1, Exchange
<1>3. h = i - 1
  BY DEF h
<1> QED
  BY <1>1, <1>2, <1>3 DEF m

\* Lines after the i-th and up to the j-th make way for m, and the cursor is in m.
LEMMA SplicePlace ==
  ASSUME NEW b \in Places, NEW i \in 0..Len(b.lines), NEW j \in i..Len(b.lines),
         NEW m \in LinesOf(Inked), NEW r \in 1..Len(m), NEW cx \in 0..Len(m[r])
  PROVE  /\ Text!Edited(b, Exchanged(b.lines, i, m, j), cx, i + r) \in Places
         /\ Text!Edited(b, Exchanged(b.lines, i, m, j), cx, i + r).lines = Exchanged(b.lines, i, m, j)
         /\ Text!Edited(b, Exchanged(b.lines, i, m, j), cx, i + r).cx = cx
         /\ Text!Edited(b, Exchanged(b.lines, i, m, j), cx, i + r).cy = i + r
         /\ Text!Edited(b, Exchanged(b.lines, i, m, j), cx, i + r).modified
         /\ Len(Exchanged(b.lines, i, m, j)) = i + Len(m) + (Len(b.lines) - j)
         /\ Exchanged(b.lines, i, m, j)[i + r] = m[r]
<1> DEFINE lines == b.lines
           x == Exchanged(lines, i, m, j)
<1>1. lines \in LinesOf(Inked) /\ Len(lines) \in Nat \ {0} /\ b \in BufferOf
  BY PlaceFacts
<1>2. m \in Seq(Seq(Inked)) /\ Len(m) \in Nat \ {0}
  BY LinesAre
<1> HIDE DEF lines
<1>3. i \in 0..Len(lines) /\ j \in i..Len(lines)
  BY DEF lines
<1>4. i + Len(m) + (Len(lines) - j) > 0
  BY <1>1, <1>2, <1>3
<1>5. /\ x \in LinesOf(Inked) /\ Len(x) = i + Len(m) + (Len(lines) - j)
      /\ Laid(x, lines, i, m, j)
  BY <1>1, <1>2, <1>3, <1>4, LinesExchanged
<1> HIDE DEF x
<1>6. i + r \in 1..(i + Len(m) + (Len(lines) - j)) /\ ~(i + r <= i) /\ i + r <= i + Len(m)
      /\ (i + r) - i = r
  BY <1>1, <1>2, <1>3
<1>7. x[i + r] = m[r]
  BY <1>5, <1>6 DEF Laid
<1>8. i + r \in 1..Len(x) /\ cx \in 0..Len(x[i + r])
  BY <1>5, <1>6, <1>7
<1>9. /\ Text!Edited(b, x, cx, i + r) \in Places
      /\ Text!Edited(b, x, cx, i + r).lines = x
      /\ Text!Edited(b, x, cx, i + r).cx = cx
      /\ Text!Edited(b, x, cx, i + r).cy = i + r
      /\ Text!Edited(b, x, cx, i + r).modified
  <2> DEFINE k == i + r
  <2> HIDE DEF k
  <2>1. k \in 1..Len(x) /\ cx \in 0..Len(x[k])
    BY <1>8 DEF k
  <2> QED
    BY <1>1, <1>5, <2>1, EditedPlace DEF k
<1> QED
  BY <1>5, <1>7, <1>9 DEF x, lines

LEMMA LineIs == ASSUME NEW b PROVE Text!Line(b) = b.lines[b.cy] /\ Text!CurLen(b) = Len(b.lines[b.cy])
BY DEF Text!Line, Text!CurLen

\* What each key does, as such an exchange.
LEMMA InsertCharIs ==
  ASSUME NEW b \in Places, NEW c \in Inked
  PROVE  Text!InsertChar(b, c) =
           Text!Edited(b, Exchanged(b.lines, b.cy - 1, <<Exchanged(b.lines[b.cy], b.cx, <<c>>, b.cx)>>, b.cy),
                       b.cx + 1, (b.cy - 1) + 1)
<1> DEFINE lines == b.lines
           l == lines[b.cy]
           n == Exchanged(l, b.cx, <<c>>, b.cx)
<1>1. /\ lines \in Seq(Seq(Inked)) /\ b.cy \in 1..Len(lines) /\ b.cx \in 0..Len(l)
      /\ l \in Seq(Inked) /\ Len(lines) \in Nat
  BY PlaceFacts
<1>2. n \in Seq(Inked) /\ Text!InsertAt(l, b.cx + 1, c) = n
  BY <1>1, CharInserted, InsertIs
<1>3. (b.cy - 1) + 1 = b.cy
  BY <1>1
<1>4. Text!InsertChar(b, c) = Text!Edited(b, [lines EXCEPT ![b.cy] = n], b.cx + 1, b.cy)
  BY <1>2 DEF Text!InsertChar
<1> HIDE DEF n, lines
<1>5. [lines EXCEPT ![b.cy] = n] = Exchanged(lines, b.cy - 1, <<n>>, b.cy)
  BY <1>1, <1>2, ReplaceIs
<1> QED
  BY <1>3, <1>4, <1>5 DEF n, lines

LEMMA CharRemovedIs ==
  ASSUME NEW b \in Places, NEW i \in 1..Len(b.lines[b.cy]), NEW cx
  PROVE  Text!Edited(b, [b.lines EXCEPT ![b.cy] = Text!RemoveAt(@, i)], cx, b.cy) =
           Text!Edited(b, Exchanged(b.lines, b.cy - 1, <<Exchanged(b.lines[b.cy], i - 1, <<>>, i)>>, b.cy),
                       cx, (b.cy - 1) + 1)
<1> DEFINE lines == b.lines
           l == lines[b.cy]
           n == Exchanged(l, i - 1, <<>>, i)
<1>1. /\ lines \in Seq(Seq(Inked)) /\ b.cy \in 1..Len(lines)
      /\ l \in Seq(Inked) /\ Len(lines) \in Nat
  BY PlaceFacts
<1>2. n \in Seq(Inked) /\ Text!RemoveAt(l, i) = n
  BY <1>1, CharRemoved, RemoveIs
<1>3. (b.cy - 1) + 1 = b.cy
  BY <1>1
<1>4. [lines EXCEPT ![b.cy] = Text!RemoveAt(@, i)] = [lines EXCEPT ![b.cy] = n]
  BY <1>2
<1> HIDE DEF n, lines
<1>5. [lines EXCEPT ![b.cy] = n] = Exchanged(lines, b.cy - 1, <<n>>, b.cy)
  BY <1>1, <1>2, ReplaceIs
<1> QED
  BY <1>3, <1>4, <1>5 DEF n, lines

LEMMA InsertNewlineIs ==
  ASSUME NEW b \in Places
  PROVE  Text!InsertNewline(b) =
           Text!Edited(b, Exchanged(b.lines, b.cy - 1,
                                    <<SubSeq(b.lines[b.cy], 1, b.cx),
                                      SubSeq(b.lines[b.cy], b.cx + 1, Len(b.lines[b.cy]))>>, b.cy),
                       0, (b.cy - 1) + 2)
<1> DEFINE lines == b.lines
           l == lines[b.cy]
           m == <<SubSeq(l, 1, b.cx), SubSeq(l, b.cx + 1, Len(l))>>
<1>1. lines \in Seq(Seq(Inked)) /\ b.cy \in 1..Len(lines) /\ Len(lines) \in Nat
  BY PlaceFacts
<1>2. Text!InsertNewline(b) = Text!Edited(b, Text!Spliced(lines, b.cy, 1, m), 0, b.cy + 1)
  BY DEF Text!InsertNewline, Text!Line, Text!CurLen
<1> HIDE DEF m, lines
<1>3. (b.cy - 1) + 1 = b.cy /\ (b.cy - 1) + 2 = b.cy + 1
  BY <1>1
<1>4. Text!Spliced(lines, b.cy, 1, m) = Exchanged(lines, b.cy - 1, m, (b.cy - 1) + 1)
  BY <1>1, SpliceIs
<1> QED
  BY <1>2, <1>3, <1>4 DEF m, lines

LEMMA JoinedIs ==
  ASSUME NEW b \in Places, NEW i \in 1..(Len(b.lines) - 1), NEW cx
  PROVE  Text!Edited(b, Text!Joined(b, i), cx, i) =
           Text!Edited(b, Exchanged(b.lines, i - 1, <<b.lines[i] \o b.lines[i + 1]>>, (i - 1) + 2),
                       cx, (i - 1) + 1)
<1> DEFINE lines == b.lines
           m == <<lines[i] \o lines[i + 1]>>
<1>1. lines \in Seq(Seq(Inked)) /\ Len(lines) \in Nat
  BY PlaceFacts
<1>2. Text!Joined(b, i) = Text!Spliced(lines, i, 2, m)
  BY DEF Text!Joined
<1> HIDE DEF m, lines
<1>3. (i - 1) + 1 = i /\ i \in 1..Len(lines)
  BY <1>1 DEF lines
<1>4. Text!Spliced(lines, i, 2, m) = Exchanged(lines, i - 1, m, (i - 1) + 2)
  BY <1>1, <1>3, SpliceIs
<1> QED
  BY <1>2, <1>3, <1>4 DEF m, lines

\* b is where a was, or elsewhere in the same lines.
Elsewhere(a, b) == b \in Places /\ b.lines = a.lines /\ b.modified = a.modified

LEMMA TextLesser ==
  ASSUME NEW i \in Nat, NEW n \in Nat
  PROVE  /\ Text!Min({i, n}) = IF i <= n THEN i ELSE n
         /\ Edit!Min({i, n}) = IF i <= n THEN i ELSE n
BY DEF Text!Min, Edit!Min

LEMMA ToLineMoves ==
  ASSUME NEW b \in Places, NEW cy \in 1..Len(b.lines)
  PROVE  Elsewhere(b, Text!ToLine(b, cy)) /\ Text!ToLine(b, cy).cy = cy
<1> DEFINE cx == Text!Min({b.cx, Len(b.lines[cy])})
<1>1. b \in BufferOf /\ b.cx \in Nat /\ Len(b.lines[cy]) \in Nat
  BY PlaceFacts
<1>2. cx \in 0..Len(b.lines[cy])
  BY <1>1, TextLesser
<1> HIDE DEF cx
<1>3. Text!ToLine(b, cy) = Text!Moved(b, cx, cy)
  BY DEF Text!ToLine, cx
<1>4. /\ Text!Moved(b, cx, cy) \in Places /\ Text!Moved(b, cx, cy).lines = b.lines
      /\ Text!Moved(b, cx, cy).cy = cy /\ Text!Moved(b, cx, cy).modified = b.modified
  BY <1>1, <1>2, MovedPlace
<1> QED
  BY <1>3, <1>4 DEF Elsewhere

LEMMA UpDownMove ==
  ASSUME NEW b \in Places
  PROVE  Elsewhere(b, Text!MoveUp(b)) /\ Elsewhere(b, Text!MoveDown(b))
<1>1. Elsewhere(b, b)
  BY DEF Elsewhere
<1>2. Len(b.lines) \in Nat /\ b.cy \in 1..Len(b.lines)
  BY PlaceFacts
<1>3. ~(b.cy > 1) => Text!MoveUp(b) = b
  BY DEF Text!MoveUp
<1>4. ~(b.cy < Len(b.lines)) => Text!MoveDown(b) = b
  BY DEF Text!MoveDown, Text!LastLine
<1>5. Elsewhere(b, Text!MoveUp(b))
  <2>1. CASE b.cy > 1
    <3>1. b.cy - 1 \in 1..Len(b.lines)
      BY <1>2, <2>1
    <3> QED
      BY <2>1, <3>1, ToLineMoves DEF Text!MoveUp
  <2> QED
    BY <1>1, <1>3, <2>1
<1>6. Elsewhere(b, Text!MoveDown(b))
  <2>1. CASE b.cy < Len(b.lines)
    <3>1. b.cy + 1 \in 1..Len(b.lines)
      BY <1>2, <2>1
    <3> QED
      BY <2>1, <3>1, ToLineMoves DEF Text!MoveDown, Text!LastLine
  <2> QED
    BY <1>1, <1>4, <2>1
<1> QED
  BY <1>5, <1>6

LEMMA LeftRightMove ==
  ASSUME NEW b \in Places
  PROVE  Elsewhere(b, Text!MoveLeft(b)) /\ Elsewhere(b, Text!MoveRight(b))
<1>1. Elsewhere(b, b) /\ b \in BufferOf
  BY PlaceFacts DEF Elsewhere
<1>2. /\ Len(b.lines) \in Nat /\ b.cy \in 1..Len(b.lines) /\ b.cx \in 0..Len(b.lines[b.cy])
      /\ \A i \in 1..Len(b.lines) : Len(b.lines[i]) \in Nat
  BY PlaceFacts
<1>3. ASSUME NEW cy \in 1..Len(b.lines), NEW cx \in 0..Len(b.lines[cy])
      PROVE  Elsewhere(b, Text!Moved(b, cx, cy))
  BY <1>1, MovedPlace DEF Elsewhere
<1>4. Elsewhere(b, Text!MoveLeft(b))
  <2>1. CASE b.cx > 0
    <3>1. b.cx - 1 \in 0..Len(b.lines[b.cy])
      BY <1>2, <2>1
    <3> QED
      BY <1>2, <1>3, <2>1, <3>1 DEF Text!MoveLeft
  <2>2. CASE ~(b.cx > 0) /\ b.cy > 1
    <3>1. b.cy - 1 \in 1..Len(b.lines)
      BY <1>2, <2>2
    <3>2. Len(b.lines[b.cy - 1]) \in 0..Len(b.lines[b.cy - 1])
      BY <1>2, <3>1
    <3> QED
      BY <1>3, <2>2, <3>1, <3>2 DEF Text!MoveLeft
  <2>3. CASE ~(b.cx > 0) /\ ~(b.cy > 1)
    BY <1>1, <2>3 DEF Text!MoveLeft
  <2> QED
    BY <2>1, <2>2, <2>3
<1>5. Elsewhere(b, Text!MoveRight(b))
  <2>1. CASE b.cx < Text!CurLen(b)
    <3>1. b.cx + 1 \in 0..Len(b.lines[b.cy])
      BY <1>2, <2>1, LineIs
    <3> QED
      BY <1>2, <1>3, <2>1, <3>1 DEF Text!MoveRight
  <2>2. CASE ~(b.cx < Text!CurLen(b)) /\ b.cy < Text!LastLine(b)
    <3>1. b.cy + 1 \in 1..Len(b.lines)
      BY <1>2, <2>2 DEF Text!LastLine
    <3>2. 0 \in 0..Len(b.lines[b.cy + 1])
      BY <1>2, <3>1
    <3> QED
      BY <1>3, <2>2, <3>1, <3>2 DEF Text!MoveRight
  <2>3. CASE ~(b.cx < Text!CurLen(b)) /\ ~(b.cy < Text!LastLine(b))
    BY <1>1, <2>3 DEF Text!MoveRight
  <2> QED
    BY <2>1, <2>2, <2>3
<1> QED
  BY <1>4, <1>5

\* A page is so many lines.
IsPaged(w, b, up) ==
  /\ w \in [0..TextRows -> Places] /\ w[0] = b
  /\ \A n \in 1..TextRows : w[n] = IF up THEN Text!MoveUp(w[n - 1]) ELSE Text!MoveDown(w[n - 1])

LEMMA PagedIs ==
  ASSUME NEW b \in Places, NEW up \in BOOLEAN
  PROVE  \E w : IsPaged(w, b, up) /\ Text!Paged(b, up) = w[TextRows]
<1> DEFINE Move(x) == IF up THEN Text!MoveUp(x) ELSE Text!MoveDown(x)
           F == [x \in Places |-> Move(x)]
           Is(f) == f = [n \in 0..TextRows |-> IF n = 0 THEN b ELSE Move(f[n - 1])]
           u == CHOOSE f : Is(f)
<1>1. TextRows \in Nat
  BY ProgramsAssumption
<1>2. F \in [Places -> Places]
  <2>1. ASSUME NEW x \in Places PROVE Move(x) \in Places
    BY UpDownMove DEF Elsewhere
  <2> HIDE DEF Move
  <2> QED
    BY <2>1
<1>3. PICK w : IsWalk(w, Places, F, b, TextRows)
  <2> HIDE DEF F
  <2> QED
    BY <1>1, <1>2, Walks
<1>4. /\ w \in [0..TextRows -> Places]
      /\ \A i \in 0..TextRows : w[i] = IF i = 0 THEN b ELSE F[w[i - 1]]
  BY <1>3 DEF IsWalk
<1> HIDE DEF Move
<1>5. ASSUME NEW i \in 0..TextRows PROVE w[i] = IF i = 0 THEN b ELSE Move(w[i - 1])
  <2>1. CASE i = 0
    BY <1>4, <2>1
  <2>2. CASE i # 0
    <3>1. i - 1 \in 0..TextRows
      BY <1>1, <2>2
    <3>2. w[i - 1] \in Places
      BY <1>4, <3>1
    <3> QED
      BY <1>4, <2>2, <3>2
  <2> QED
    BY <2>1, <2>2
<1> HIDE DEF F
<1>6. Is(w)
  BY <1>4, <1>5
<1>7. Is(u)
  BY <1>6
<1>8. Text!Paged(b, up) = u[TextRows]
  BY DEF Text!Paged, Move
<1> HIDE DEF u
<1>9. DOMAIN u = 0..TextRows /\ u[0] = b /\ \A n \in 1..TextRows : u[n] = Move(u[n - 1])
  BY <1>1, <1>7
<1>10. \A n \in 0..TextRows : u[n] \in Places
  <2>1. ASSUME NEW n \in 0..TextRows, n # TextRows /\ u[n] \in Places PROVE u[n + 1] \in Places
    <3>1. n + 1 \in 1..TextRows /\ (n + 1) - 1 = n
      BY <1>1, <2>1
    <3> QED
      BY <1>9, <2>1, <3>1, UpDownMove DEF Move, Elsewhere
  <2>2. u[0] \in Places
    BY <1>9
  <2> QED
    BY <1>1, <2>1, <2>2, WalkStays
<1>11. u \in [0..TextRows -> Places]
  <2>1. u = [n \in 0..TextRows |-> u[n]]
    BY <1>7
  <2> QED
    BY <1>10, <2>1
<1> QED
  BY <1>8, <1>9, <1>11 DEF IsPaged, Move

LEMMA PagedMoves ==
  ASSUME NEW b \in Places, NEW up \in BOOLEAN
  PROVE  Elsewhere(b, Text!Paged(b, up))
<1>1. PICK w : IsPaged(w, b, up) /\ Text!Paged(b, up) = w[TextRows]
  BY PagedIs
<1>2. TextRows \in Nat
  BY ProgramsAssumption
<1> DEFINE E == {x \in Places : x.lines = b.lines /\ x.modified = b.modified}
<1>3. w[0] \in E
  BY <1>1 DEF IsPaged
<1>4. ASSUME NEW n \in 0..TextRows, n # TextRows /\ w[n] \in E PROVE w[n + 1] \in E
  <2>1. n + 1 \in 1..TextRows /\ (n + 1) - 1 = n
    BY <1>2, <1>4
  <2>2. w[n + 1] = IF up THEN Text!MoveUp(w[n]) ELSE Text!MoveDown(w[n])
    BY <1>1, <2>1 DEF IsPaged
  <2>3. Elsewhere(w[n], w[n + 1])
    BY <1>4, <2>2, UpDownMove
  <2> QED
    BY <1>4, <2>3 DEF Elsewhere
<1>5. \A n \in 0..TextRows : w[n] \in E
  <2> HIDE DEF E
  <2> QED
    BY <1>2, <1>3, <1>4, WalkStays
<1>6. w[TextRows] \in E
  BY <1>2, <1>5
<1> QED
  BY <1>1, <1>6 DEF Elsewhere

\* b is what editing a in place of its lines makes of it: still a buffer, and changed.
Edits(a, b) == b \in Places /\ b.modified

LEMMA OneLineFor ==
  ASSUME NEW b \in Places, NEW i \in 0..Len(b.lines), NEW j \in i..Len(b.lines),
         NEW l \in Seq(Inked), NEW cx \in 0..Len(l)
  PROVE  Edits(b, Text!Edited(b, Exchanged(b.lines, i, <<l>>, j), cx, i + 1))
<1> DEFINE m == <<l>>
<1>1. m \in LinesOf(Inked) /\ Len(m) = 1 /\ m[1] = l
  BY OneLine
<1> HIDE DEF m
<1>2. 1 \in 1..Len(m) /\ cx \in 0..Len(m[1])
  BY <1>1
<1>3. /\ Text!Edited(b, Exchanged(b.lines, i, m, j), cx, i + 1) \in Places
      /\ Text!Edited(b, Exchanged(b.lines, i, m, j), cx, i + 1).modified
  BY <1>1, <1>2, SplicePlace
<1> QED
  BY <1>3 DEF m, Edits

LEMMA InsertCharPlace ==
  ASSUME NEW b \in Places, NEW c \in Inked
  PROVE  Edits(b, Text!InsertChar(b, c))
<1> DEFINE l == b.lines[b.cy]
           n == Exchanged(l, b.cx, <<c>>, b.cx)
           i == b.cy - 1
           x == b.cx + 1
<1>1. /\ b.cy \in 1..Len(b.lines) /\ b.cx \in 0..Len(l) /\ l \in Seq(Inked)
      /\ Len(b.lines) \in Nat /\ Len(l) \in Nat
  BY PlaceFacts, LenProperties
<1>2. n \in Seq(Inked) /\ Len(n) = Len(l) + 1
  BY <1>1, CharInserted
<1> HIDE DEF n
<1>3. i \in 0..Len(b.lines) /\ b.cy \in i..Len(b.lines) /\ x \in 0..Len(n)
  BY <1>1, <1>2
<1> HIDE DEF i, x
<1>4. Edits(b, Text!Edited(b, Exchanged(b.lines, i, <<n>>, b.cy), x, i + 1))
  BY <1>2, <1>3, OneLineFor
<1> QED
  BY <1>4, InsertCharIs DEF i, n, x

LEMMA CharRemovedPlace ==
  ASSUME NEW b \in Places, NEW k \in 1..Len(b.lines[b.cy]),
         NEW cx \in 0..(Len(b.lines[b.cy]) - 1)
  PROVE  Edits(b, Text!Edited(b, [b.lines EXCEPT ![b.cy] = Text!RemoveAt(@, k)], cx, b.cy))
<1> DEFINE l == b.lines[b.cy]
           n == Exchanged(l, k - 1, <<>>, k)
           i == b.cy - 1
<1>1. /\ b.cy \in 1..Len(b.lines) /\ b.cx \in 0..Len(l) /\ l \in Seq(Inked)
      /\ Len(b.lines) \in Nat /\ Len(l) \in Nat
  BY PlaceFacts, LenProperties
<1>2. n \in Seq(Inked) /\ Len(n) = Len(l) - 1
  BY <1>1, CharRemoved
<1>3. Text!Edited(b, [b.lines EXCEPT ![b.cy] = Text!RemoveAt(@, k)], cx, b.cy) =
        Text!Edited(b, Exchanged(b.lines, i, <<n>>, b.cy), cx, i + 1)
  BY CharRemovedIs
<1> HIDE DEF n
<1>4. i \in 0..Len(b.lines) /\ b.cy \in i..Len(b.lines) /\ cx \in 0..Len(n)
  BY <1>1, <1>2
<1> HIDE DEF i
<1>5. Edits(b, Text!Edited(b, Exchanged(b.lines, i, <<n>>, b.cy), cx, i + 1))
  BY <1>2, <1>4, OneLineFor
<1> QED
  BY <1>3, <1>5

LEMMA InsertNewlinePlace ==
  ASSUME NEW b \in Places
  PROVE  Edits(b, Text!InsertNewline(b))
<1> DEFINE l == b.lines[b.cy]
           m == <<SubSeq(l, 1, b.cx), SubSeq(l, b.cx + 1, Len(l))>>
           i == b.cy - 1
<1>1. /\ b.cy \in 1..Len(b.lines) /\ b.cx \in 0..Len(l) /\ l \in Seq(Inked)
      /\ Len(b.lines) \in Nat /\ Len(l) \in Nat
  BY PlaceFacts, LenProperties
<1>2. SubSeq(l, 1, b.cx) \in Seq(Inked) /\ SubSeq(l, b.cx + 1, Len(l)) \in Seq(Inked)
  <2>1. b.cx \in b.cx..Len(l)
    BY <1>1
  <2> HIDE DEF l
  <2> QED
    BY <1>1, <2>1, CutOut
<1>3. m \in LinesOf(Inked) /\ Len(m) = 2
  <2> DEFINE u == SubSeq(l, 1, b.cx)
             v == SubSeq(l, b.cx + 1, Len(l))
  <2>1. u \in Seq(Inked) /\ v \in Seq(Inked)
    BY <1>2
  <2> HIDE DEF u, v
  <2>2. <<u, v>> \in Seq(Seq(Inked)) /\ <<u, v>> # <<>> /\ Len(<<u, v>>) = 2
    BY <2>1
  <2> QED
    BY <2>2 DEF LinesOf, u, v
<1>4. Text!InsertNewline(b) = Text!Edited(b, Exchanged(b.lines, i, m, b.cy), 0, i + 2)
  BY InsertNewlineIs
<1> HIDE DEF m
<1>5. i \in 0..Len(b.lines) /\ b.cy \in i..Len(b.lines) /\ 2 \in 1..Len(m)
  BY <1>1, <1>3
<1>6. 0 \in 0..Len(m[2])
  <2>1. m[2] \in Seq(Inked)
    BY <1>3, <1>5, LinesAre
  <2> QED
    BY <2>1, LenProperties
<1> HIDE DEF i
<1>7. /\ Text!Edited(b, Exchanged(b.lines, i, m, b.cy), 0, i + 2) \in Places
      /\ Text!Edited(b, Exchanged(b.lines, i, m, b.cy), 0, i + 2).modified
  BY <1>3, <1>5, <1>6, SplicePlace
<1> QED
  BY <1>4, <1>7 DEF Edits

LEMMA JoinedPlace ==
  ASSUME NEW b \in Places, NEW k \in 1..(Len(b.lines) - 1),
         NEW cx \in 0..Len(b.lines[k])
  PROVE  Edits(b, Text!Edited(b, Text!Joined(b, k), cx, k))
<1> DEFINE p == b.lines[k]
           q == b.lines[k + 1]
           n == p \o q
           i == k - 1
           j == (k - 1) + 2
<1>1. Len(b.lines) \in Nat
  BY PlaceFacts
<1>2. k \in 1..Len(b.lines) /\ k + 1 \in 1..Len(b.lines)
  BY <1>1
<1>3. p \in Seq(Inked) /\ q \in Seq(Inked) /\ Len(p) \in Nat /\ Len(q) \in Nat
  BY <1>2, PlaceFacts
<1> HIDE DEF p, q
<1>4. n \in Seq(Inked) /\ Len(n) = Len(p) + Len(q)
  BY <1>3, ConcatProperties
<1> HIDE DEF n
<1>5. i \in 0..Len(b.lines) /\ j \in i..Len(b.lines) /\ cx \in 0..Len(n)
  BY <1>1, <1>3, <1>4 DEF p
<1> HIDE DEF i, j
<1>6. Edits(b, Text!Edited(b, Exchanged(b.lines, i, <<n>>, j), cx, i + 1))
  BY <1>4, <1>5, OneLineFor
<1> QED
  BY <1>6, JoinedIs DEF n, p, q, i, j

LEMMA CutLinePlace ==
  ASSUME NEW b \in Places
  PROVE  Edits(b, Text!CutLine(b))
<1> DEFINE lines == b.lines
<1>1. /\ Len(lines) \in Nat \ {0} /\ b.cy \in 1..Len(lines) /\ b \in BufferOf
      /\ lines \in Seq(Seq(Inked)) /\ lines \in LinesOf(Inked)
  BY PlaceFacts
<1>2. CASE Len(lines) = 1
  <2>1. <<<<>>>> \in LinesOf(Inked) /\ Len(<<<<>>>>) = 1
    BY OneLine, EmptySeq
  <2>2. 1 \in 1..Len(<<<<>>>>) /\ 0 \in 0..Len(<<<<>>>>[1])
    BY EmptySeq
  <2>3. Text!Edited(b, <<<<>>>>, 0, 1) \in Places /\ Text!Edited(b, <<<<>>>>, 0, 1).modified
    BY <1>1, <2>1, <2>2, EditedPlace
  <2> QED
    BY <1>2, <2>3 DEF Edits, Text!CutLine, Text!LastLine
<1>3. CASE Len(lines) # 1
  <2> DEFINE n == Text!RemoveAt(lines, b.cy)
             y == Text!Min({b.cy, Len(lines) - 1})
  <2>1. n \in Seq(Seq(Inked)) /\ Len(n) = Len(lines) - 1
    <3> HIDE DEF lines
    <3> QED
      BY <1>1, CharRemoved, RemoveIs
  <2>2. y \in 1..(Len(lines) - 1)
    <3>1. Len(lines) \in Nat /\ Len(lines) >= 2
      <4>1. Len(lines) \in Nat \ {0} /\ Len(lines) # 1
        BY <1>1, <1>3
      <4>2. \A k \in Nat \ {0} : k # 1 => k >= 2
        OBVIOUS
      <4> QED
        BY <4>1, <4>2
    <3>2. b.cy \in Nat /\ b.cy >= 1
      BY <1>1, <3>1
    <3>3. Len(lines) - 1 \in Nat /\ Len(lines) - 1 >= 1
      BY <3>1
    <3>4. y = IF b.cy <= Len(lines) - 1 THEN b.cy ELSE Len(lines) - 1
      BY <3>2, <3>3, TextLesser
    <3> QED
      BY <3>2, <3>3, <3>4
  <2>3. Text!CutLine(b) = Text!Edited(b, n, 0, y)
    BY <1>3 DEF Text!CutLine, Text!LastLine
  <2> HIDE DEF n, y
  <2>4. n # <<>>
    <3>1. Len(n) # 0
      BY <1>1, <1>3, <2>1
    <3> QED
      BY <3>1, EmptySeq
  <2>5. n \in LinesOf(Inked) /\ y \in 1..Len(n)
    BY <2>1, <2>2, <2>4 DEF LinesOf
  <2>6. 0 \in 0..Len(n[y])
    BY <2>5, LinesAre, LenProperties
  <2> QED
    BY <1>1, <2>3, <2>5, <2>6, EditedPlace DEF Edits
<1> QED
  BY <1>2, <1>3

LEMMA LettersInked == Letters \subseteq Inked
BY ProgramsAssumption DEF Inked, Characters, Break, Text!LF

BufferKeys == {"Left", "Right", "Up", "Down", "Home", "End", "PageUp", "PageDown", "Enter",
               "Backspace", "Delete", "^K"}

\* What a key is applied as, no letter being the name of one.
LEMMA ApplyIs ==
  ASSUME NEW b, NEW key
  PROVE  /\ key = "Left" => Text!Apply(b, key) = Text!MoveLeft(b)
         /\ key = "Right" => Text!Apply(b, key) = Text!MoveRight(b)
         /\ key = "Up" => Text!Apply(b, key) = Text!MoveUp(b)
         /\ key = "Down" => Text!Apply(b, key) = Text!MoveDown(b)
         /\ key = "Home" => Text!Apply(b, key) = Text!Moved(b, 0, b.cy)
         /\ key = "End" => Text!Apply(b, key) = Text!Moved(b, Text!CurLen(b), b.cy)
         /\ key = "PageUp" => Text!Apply(b, key) = Text!Paged(b, TRUE)
         /\ key = "PageDown" => Text!Apply(b, key) = Text!Paged(b, FALSE)
         /\ key = "Enter" => Text!Apply(b, key) = Text!InsertNewline(b)
         /\ key = "Backspace" => Text!Apply(b, key) = Text!Backspace(b)
         /\ key = "Delete" => Text!Apply(b, key) = Text!Delete(b)
         /\ key = "^K" => Text!Apply(b, key) = Text!CutLine(b)
         /\ key \in Letters => Text!Apply(b, key) = Text!InsertChar(b, key)
         /\ key \notin BufferKeys \cup Letters => Text!Apply(b, key) = b
<1>0. Letters \cap KeyNames = {}
  BY ProgramsAssumption
<1>1. ASSUME key = "Left" PROVE Text!Apply(b, key) = Text!MoveLeft(b)
  <2>1. "Left" \notin Letters
    BY <1>0 DEF KeyNames
  <2> QED
    BY <1>1, <2>1 DEF Text!Apply
<1>2. ASSUME key = "Right" PROVE Text!Apply(b, key) = Text!MoveRight(b)
  <2>1. "Right" \notin Letters
    BY <1>0 DEF KeyNames
  <2> QED
    BY <1>2, <2>1 DEF Text!Apply
<1>3. ASSUME key = "Up" PROVE Text!Apply(b, key) = Text!MoveUp(b)
  <2>1. "Up" \notin Letters
    BY <1>0 DEF KeyNames
  <2> QED
    BY <1>3, <2>1 DEF Text!Apply
<1>4. ASSUME key = "Down" PROVE Text!Apply(b, key) = Text!MoveDown(b)
  <2>1. "Down" \notin Letters
    BY <1>0 DEF KeyNames
  <2> QED
    BY <1>4, <2>1 DEF Text!Apply
<1>5. ASSUME key = "Home" PROVE Text!Apply(b, key) = Text!Moved(b, 0, b.cy)
  <2>1. "Home" \notin Letters
    BY <1>0 DEF KeyNames
  <2> QED
    BY <1>5, <2>1 DEF Text!Apply
<1>6. ASSUME key = "End" PROVE Text!Apply(b, key) = Text!Moved(b, Text!CurLen(b), b.cy)
  <2>1. "End" \notin Letters
    BY <1>0 DEF KeyNames
  <2> QED
    BY <1>6, <2>1 DEF Text!Apply
<1>7. ASSUME key = "PageUp" PROVE Text!Apply(b, key) = Text!Paged(b, TRUE)
  <2>1. "PageUp" \notin Letters
    BY <1>0 DEF KeyNames
  <2> QED
    BY <1>7, <2>1 DEF Text!Apply
<1>8. ASSUME key = "PageDown" PROVE Text!Apply(b, key) = Text!Paged(b, FALSE)
  <2>1. "PageDown" \notin Letters
    BY <1>0 DEF KeyNames
  <2> QED
    BY <1>8, <2>1 DEF Text!Apply
<1>9. ASSUME key = "Enter" PROVE Text!Apply(b, key) = Text!InsertNewline(b)
  <2>1. "Enter" \notin Letters
    BY <1>0 DEF KeyNames
  <2> QED
    BY <1>9, <2>1 DEF Text!Apply
<1>10. ASSUME key = "Backspace" PROVE Text!Apply(b, key) = Text!Backspace(b)
  <2>1. "Backspace" \notin Letters
    BY <1>0 DEF KeyNames
  <2> QED
    BY <1>10, <2>1 DEF Text!Apply
<1>11. ASSUME key = "Delete" PROVE Text!Apply(b, key) = Text!Delete(b)
  <2>1. "Delete" \notin Letters
    BY <1>0 DEF KeyNames
  <2> QED
    BY <1>11, <2>1 DEF Text!Apply
<1>12. ASSUME key = "^K" PROVE Text!Apply(b, key) = Text!CutLine(b)
  <2>1. "^K" \notin Letters
    BY <1>0 DEF KeyNames
  <2> QED
    BY <1>12, <2>1 DEF Text!Apply
<1>13. key \in Letters => Text!Apply(b, key) = Text!InsertChar(b, key)
  BY <1>0 DEF Text!Apply, KeyNames
<1>14. key \notin BufferKeys \cup Letters => Text!Apply(b, key) = b
  BY DEF Text!Apply, BufferKeys
<1> QED
  BY <1>1, <1>2, <1>3, <1>4, <1>5, <1>6, <1>7, <1>8, <1>9, <1>10, <1>11, <1>12, <1>13,
     <1>14

\* A key leaves the lines and the mark alone, or changes the lines and sets the mark.
LEMMA ApplyPlace ==
  ASSUME NEW b \in Places, NEW key
  PROVE  LET a == Text!Apply(b, key) IN Elsewhere(b, a) \/ Edits(b, a)
<1>1. /\ b \in BufferOf /\ Len(b.lines) \in Nat /\ b.cy \in 1..Len(b.lines)
      /\ b.cx \in 0..Len(b.lines[b.cy]) /\ Len(b.lines[b.cy]) \in Nat
      /\ \A i \in 1..Len(b.lines) : Len(b.lines[i]) \in Nat
  BY PlaceFacts
<1>2. Elsewhere(b, b)
  BY DEF Elsewhere
<1>3. Elsewhere(b, Text!Moved(b, 0, b.cy)) /\ Elsewhere(b, Text!Moved(b, Text!CurLen(b), b.cy))
  <2>1. 0 \in 0..Len(b.lines[b.cy]) /\ Text!CurLen(b) \in 0..Len(b.lines[b.cy])
    BY <1>1, LineIs
  <2> QED
    BY <1>1, <2>1, MovedPlace DEF Elsewhere
<1>4. Elsewhere(b, Text!Backspace(b)) \/ Edits(b, Text!Backspace(b))
  <2>1. CASE b.cx > 0
    <3>1. b.cx \in 1..Len(b.lines[b.cy]) /\ b.cx - 1 \in 0..(Len(b.lines[b.cy]) - 1)
      BY <1>1, <2>1
    <3> QED
      BY <2>1, <3>1, CharRemovedPlace DEF Text!Backspace
  <2>2. CASE ~(b.cx > 0) /\ b.cy > 1
    <3>1. b.cy - 1 \in 1..(Len(b.lines) - 1) /\ b.cy - 1 \in 1..Len(b.lines)
      BY <1>1, <2>2
    <3>2. Len(b.lines[b.cy - 1]) \in 0..Len(b.lines[b.cy - 1])
      BY <1>1, <3>1
    <3> QED
      BY <2>2, <3>1, <3>2, JoinedPlace DEF Text!Backspace
  <2>3. CASE ~(b.cx > 0) /\ ~(b.cy > 1)
    BY <1>2, <2>3 DEF Text!Backspace
  <2> QED
    BY <2>1, <2>2, <2>3
<1>5. Elsewhere(b, Text!Delete(b)) \/ Edits(b, Text!Delete(b))
  <2>1. CASE b.cx < Text!CurLen(b)
    <3>1. b.cx + 1 \in 1..Len(b.lines[b.cy]) /\ b.cx \in 0..(Len(b.lines[b.cy]) - 1)
      BY <1>1, <2>1, LineIs
    <3> QED
      BY <2>1, <3>1, CharRemovedPlace DEF Text!Delete
  <2>2. CASE ~(b.cx < Text!CurLen(b)) /\ b.cy < Text!LastLine(b)
    <3>1. b.cy \in 1..(Len(b.lines) - 1)
      BY <1>1, <2>2 DEF Text!LastLine
    <3> QED
      BY <1>1, <2>2, <3>1, JoinedPlace DEF Text!Delete
  <2>3. CASE ~(b.cx < Text!CurLen(b)) /\ ~(b.cy < Text!LastLine(b))
    BY <1>2, <2>3 DEF Text!Delete
  <2> QED
    BY <2>1, <2>2, <2>3
<1>6. \A c \in Letters : Edits(b, Text!InsertChar(b, c))
  BY LettersInked, InsertCharPlace
<1>7. /\ Elsewhere(b, Text!MoveLeft(b)) /\ Elsewhere(b, Text!MoveRight(b))
      /\ Elsewhere(b, Text!MoveUp(b)) /\ Elsewhere(b, Text!MoveDown(b))
      /\ Elsewhere(b, Text!Paged(b, TRUE)) /\ Elsewhere(b, Text!Paged(b, FALSE))
      /\ Edits(b, Text!InsertNewline(b)) /\ Edits(b, Text!CutLine(b))
  BY LeftRightMove, UpDownMove, PagedMoves, InsertNewlinePlace, CutLinePlace
<1> DEFINE a == Text!Apply(b, key)
<1>8. CASE key \in Letters
  BY <1>6, <1>8, ApplyIs
<1>9. CASE key \notin BufferKeys \cup Letters
  BY <1>2, <1>9, ApplyIs
<1>10. CASE key \in BufferKeys
  BY <1>3, <1>4, <1>5, <1>7, <1>10, ApplyIs DEF BufferKeys
<1> QED
  BY <1>8, <1>9, <1>10

(***************************************************************************)
(* Documents: what is saved is what is read.                               *)
(***************************************************************************)
DocOf == {f \in [kind : {"object"}, capacity : Tiers, header : Nat, prefix : Nat,
                 window : Seq(Characters)] :
            f.prefix = f.header /\ Len(f.window) = f.capacity - Text!Prefix}
\* What may be on disk, and what an editor may keep of it.
Readable(f) == /\ f.kind = "plain" => f.text \in Seq(Characters)
               /\ f.kind = "object" => f \in DocOf
Kept_(o)    == o = Text!None \/ (IsWasm = TRUE /\ (o = Text!Blank \/ o \in DocOf))
\* What an editor shows of f.
ContentOf(f) == Text!LoadEditable(f, IsWasm).content

LEMMA TierFacts == ASSUME NEW n \in Tiers PROVE n \in Nat /\ n >= 4 /\ n - 4 \in Nat
BY DocumentsAssumption

LEMMA OnDiskReadable == \A f \in OnDisk : Readable(f)
BY DocumentsAssumption DEF Readable, DocOf, Text!Prefix

\* A window holds the text, and what pads it.
LEMMA FilledWith ==
  ASSUME NEW t \in Seq(Characters), NEW n \in Nat, Len(t) <= n
  PROVE  /\ Text!Filled(t, n) \in Seq(Characters) /\ Len(Text!Filled(t, n)) = n
         /\ SubSeq(Text!Filled(t, n), 1, Len(t)) = t
<1> DEFINE k == n - Len(t)
           p == [i \in 1..k |-> Text!Pad]
           w == t \o p
<1>1. Len(t) \in Nat /\ k \in Nat
  BY LenProperties
<1>2. Text!Pad \in Characters
  BY DEF Text!Pad, Characters
<1> HIDE DEF k
<1>3. p \in Seq(Characters) /\ Len(p) = k
  BY <1>1, <1>2
<1> HIDE DEF p
<1>4. /\ w \in Seq(Characters) /\ Len(w) = Len(t) + k
      /\ \A i \in 1..(Len(t) + k) : w[i] = IF i <= Len(t) THEN t[i] ELSE p[i - Len(t)]
  BY <1>3, Concatenated
<1>5. Text!Filled(t, n) = w
  BY DEF Text!Filled, w, p, k
<1> HIDE DEF w
<1> DEFINE s == SubSeq(w, 1, Len(t))
<1>6. Len(t) \in 0..Len(w) /\ Len(t) \in Len(t)..Len(w)
  BY <1>1, <1>4
<1>7. s \in Seq(Characters) /\ Len(s) = Len(t)
  BY <1>4, <1>6, CutOut
<1>8. \A i \in 1..Len(t) : s[i] = w[i]
  BY <1>4, <1>6
<1>9. \A i \in 1..Len(t) : w[i] = t[i]
  BY <1>1, <1>4
<1> HIDE DEF s
<1>10. s = t
  BY <1>7, <1>8, <1>9, SeqEqual
<1>11. Len(w) = n
  BY <1>1, <1>4 DEF k
<1> QED
  BY <1>4, <1>5, <1>10, <1>11 DEF s

LEMMA MintIs == ASSUME NEW n \in Tiers PROVE Text!Mint(n) \in DocOf /\ Text!Mint(n).capacity = n
<1> DEFINE w == Text!Filled(<<>>, n - Text!Prefix)
<1>1. n - Text!Prefix \in Nat /\ <<>> \in Seq(Characters) /\ Len(<<>>) = 0
  BY TierFacts, EmptySeq DEF Text!Prefix
<1>2. Len(<<>>) <= n - Text!Prefix
  BY <1>1
<1>3. w \in Seq(Characters) /\ Len(w) = n - Text!Prefix
  BY <1>1, <1>2, FilledWith
<1> HIDE DEF w
<1>4. Text!Mint(n) = [kind |-> "object", capacity |-> n, header |-> 0, prefix |-> 0, window |-> w]
  BY DEF Text!Mint, w
<1> QED
  BY <1>3, <1>4 DEF DocOf

\* In place the text is what is read and what is printed.
LEMMA WrittenIs ==
  ASSUME NEW f \in DocOf, NEW t \in Seq(Characters), Len(t) + Text!Prefix <= f.capacity
  PROVE  /\ Text!WriteInPlace(f, t) \in DocOf /\ Text!Verify(Text!WriteInPlace(f, t))
         /\ Text!Read(Text!WriteInPlace(f, t)) = t
<1> DEFINE n == f.capacity - Text!Prefix
           w == Text!Filled(t, n)
           d == Text!WriteInPlace(f, t)
<1>1. f.capacity \in Tiers /\ f.kind = "object"
  BY DEF DocOf
<1>2. n \in Nat /\ Len(t) \in Nat /\ Len(t) <= n
  BY <1>1, TierFacts, LenProperties DEF Text!Prefix
<1> HIDE DEF n
<1>3. w \in Seq(Characters) /\ Len(w) = n /\ SubSeq(w, 1, Len(t)) = t
  BY <1>2, FilledWith
<1> HIDE DEF w
<1>4. d = [f EXCEPT !.prefix = Len(t), !.header = Len(t), !.window = w]
  BY DEF Text!WriteInPlace, w, n
<1>5. d \in [kind : {"object"}, capacity : Tiers, header : Nat, prefix : Nat, window : Seq(Characters)]
  BY <1>2, <1>3, <1>4 DEF DocOf
<1>6. /\ d.prefix = Len(t) /\ d.header = Len(t) /\ d.window = w /\ d.capacity = f.capacity
      /\ d.kind = "object"
  BY <1>1, <1>4 DEF DocOf
<1> HIDE DEF d
<1>7. d \in DocOf
  BY <1>3, <1>5, <1>6 DEF DocOf, n
<1> QED
  BY <1>3, <1>6, <1>7 DEF Text!Verify, Text!Read, d

LEMMA FitsLeast ==
  ASSUME NEW n \in Nat, Text!Fits(n) # {}
  PROVE  Text!ForLen(n) \in Tiers /\ n <= Text!ForLen(n)
<1> DEFINE F == Text!Fits(n)
<1>1. F \in SUBSET Nat /\ F # {} /\ \A m \in F : m \in Tiers /\ n <= m
  BY TierFacts DEF Text!Fits
<1> HIDE DEF F
<1>2. \E m \in F : \A k \in F : m <= k
  BY <1>1, LeastOf
<1>3. Text!Min(F) \in F
  BY <1>2 DEF Text!Min
<1> QED
  BY <1>1, <1>3 DEF Text!ForLen, F

LEMMA MaxTier == Text!Max(Tiers) \in Tiers
<1>1. \E m \in Tiers : \A n \in Tiers : m >= n
  BY DocumentsAssumption, TierFacts
<1> QED
  BY <1>1 DEF Text!Max

\* What may become of a file: all of it is written, none, or a beginning.
LEMMA OutcomeIs ==
  ASSUME NEW f, NEW new, Readable(f), Readable(new), NEW r \in Text!Outcomes(f, new)
  PROVE  Readable(r.file) /\ r.ok \in BOOLEAN /\ (r.ok => r.file = new)
<1>1. CASE r = [ok |-> TRUE, file |-> new] \/ r = [ok |-> FALSE, file |-> f]
  <2>1. (r.file = new /\ r.ok = TRUE) \/ (r.file = f /\ r.ok = FALSE)
    BY <1>1
  <2> QED
    BY <2>1
<1>2. CASE \E g \in Text!Cut(new) : r = [ok |-> FALSE, file |-> g]
  <2>1. PICK g \in Text!Cut(new) : r = [ok |-> FALSE, file |-> g]
    BY <1>2
  <2>2. \E t \in Seq(Characters) : g = Text!Plain(t)
    <3>1. CASE new.kind = "plain"
      <4>1. new.text \in Seq(Characters)
        BY <3>1 DEF Readable
      <4>2. PICK n \in 0..(Len(new.text) - 1) : g = Text!Plain(SubSeq(new.text, 1, n))
        BY <3>1, <2>1 DEF Text!Cut
      <4>3. n \in 0..Len(new.text) /\ n \in n..Len(new.text)
        BY <4>1, LenProperties
      <4>4. SubSeq(new.text, 1, n) \in Seq(Characters)
        BY <4>1, <4>3, CutOut
      <4> QED
        BY <4>2, <4>4
    <3>2. CASE new.kind # "plain"
      BY <3>2, <2>1, EmptySeq DEF Text!Cut
    <3> QED
      BY <3>1, <3>2
  <2>3. Readable(g)
    BY <2>2 DEF Text!Plain, Readable
  <2> QED
    BY <2>1, <2>3
<1> QED
  BY <1>1, <1>2 DEF Text!Outcomes

LEMMA PlainContent ==
  ASSUME NEW t \in Seq(Characters)
  PROVE  Readable(Text!Plain(t)) /\ ContentOf(Text!Plain(t)) = t
<1>1. Text!Plain(t).kind = "plain" /\ Text!Plain(t).text = t
  BY DEF Text!Plain
<1>2. Readable(Text!Plain(t))
  BY <1>1 DEF Readable
<1>3. ~Text!Verify(Text!Plain(t))
  BY <1>1 DEF Text!Verify
<1> QED
  BY <1>1, <1>2, <1>3 DEF ContentOf, Text!LoadEditable

LEMMA DocContent ==
  ASSUME NEW f \in DocOf, IsWasm = TRUE, Text!Verify(f)
  PROVE  Readable(f) /\ ContentOf(f) = Text!Read(f)
<1>1. f.kind = "object"
  BY DEF DocOf
<1> QED
  BY <1>1 DEF ContentOf, Text!LoadEditable, Readable

\* What is made of a document, or why none is.
LEMMA SaveIs ==
  ASSUME NEW f \in DocOf, NEW t \in Seq(Characters)
  PROVE  \/ Text!Save(f, t) = Text!None
         \/ /\ Text!Save(f, t) \in DocOf /\ Text!Verify(Text!Save(f, t))
            /\ Text!Read(Text!Save(f, t)) = t
<1> DEFINE n == Len(t) + Text!Prefix
<1>1. n \in Nat
  BY LenProperties DEF Text!Prefix
<1>2. CASE n <= f.capacity
  BY <1>2, WrittenIs DEF Text!Save
<1>3. CASE ~(n <= f.capacity) /\ Text!Fits(n) # {}
  <2> DEFINE m == Text!Mint(Text!ForLen(n))
  <2>1. m \in DocOf /\ n <= m.capacity
    <3> HIDE DEF n
    <3> QED
      BY <1>1, <1>3, FitsLeast, MintIs
  <2>2. Text!Save(f, t) = Text!WriteInPlace(m, t)
    BY <1>3 DEF Text!Save, Text!Repack
  <2> HIDE DEF m
  <2> QED
    BY <2>1, <2>2, WrittenIs
<1>4. CASE ~(n <= f.capacity) /\ Text!Fits(n) = {}
  BY <1>4 DEF Text!Save
<1> QED
  BY <1>2, <1>3, <1>4

\* A save that is said to have worked is what the file opens as.
LEMMA SavedIs ==
  ASSUME NEW f, NEW o, NEW t \in Seq(Characters), Readable(f), Kept_(o),
         NEW r \in Text!SaveEditable(f, o, t)
  PROVE  /\ Readable(r.file) /\ Kept_(r.object)
         /\ r.ok \in BOOLEAN /\ (r.ok => ContentOf(r.file) = t)
<1>1. CASE o = Text!None
  <2>1. PICK x \in Text!Outcomes(f, Text!Plain(t)) :
            r = [ok |-> x.ok, file |-> x.file, object |-> Text!None]
    BY <1>1 DEF Text!SaveEditable
  <2>2. Readable(Text!Plain(t)) /\ ContentOf(Text!Plain(t)) = t
    BY PlainContent
  <2>3. Readable(x.file) /\ x.ok \in BOOLEAN /\ (x.ok => x.file = Text!Plain(t))
    BY <2>2, OutcomeIs
  <2>4. r.ok = x.ok /\ r.file = x.file /\ r.object = Text!None
    BY <2>1
  <2> QED
    BY <2>2, <2>3, <2>4 DEF Kept_
<1>2. CASE o # Text!None
  <2> DEFINE n == Len(t) + Text!Prefix
             blank == Text!Mint(IF Text!Fits(n) = {} THEN Text!Max(Tiers) ELSE Text!ForLen(n))
             base == IF Text!Verify(o) THEN o ELSE blank
             made == Text!Save(base, t)
  <2>1. IsWasm = TRUE /\ (o = Text!Blank \/ o \in DocOf)
    BY <1>2 DEF Kept_
  <2>2. n \in Nat
    BY LenProperties DEF Text!Prefix
  <2>3. blank \in DocOf
    <3> HIDE DEF n
    <3> QED
      BY <2>2, FitsLeast, MaxTier, MintIs
  <2>4. base \in DocOf
    <3>1. ~Text!Verify(Text!Blank)
      BY DEF Text!Verify, Text!Blank
    <3> HIDE DEF blank
    <3> QED
      BY <2>1, <2>3, <3>1
  <2>5. r \in IF made = Text!None
              THEN {[ok |-> FALSE, file |-> f, object |-> base]}
              ELSE {[ok |-> x.ok, file |-> x.file, object |-> made] : x \in Text!Outcomes(f, made)}
    BY <1>2 DEF Text!SaveEditable
  <2> HIDE DEF base
  <2>6. CASE made = Text!None
    <3>1. r = [ok |-> FALSE, file |-> f, object |-> base]
      BY <2>5, <2>6
    <3>2. r.ok = FALSE /\ r.file = f /\ r.object = base
      BY <3>1
    <3> QED
      BY <2>1, <2>4, <3>2 DEF Kept_
  <2>7. CASE made # Text!None
    <3>1. made \in DocOf /\ Text!Verify(made) /\ Text!Read(made) = t
      BY <2>4, <2>7, SaveIs
    <3> HIDE DEF made
    <3>2. PICK x \in Text!Outcomes(f, made) : r = [ok |-> x.ok, file |-> x.file, object |-> made]
      BY <2>5, <2>7
    <3>3. Readable(made) /\ ContentOf(made) = t
      BY <2>1, <3>1, DocContent
    <3>4. Readable(x.file) /\ x.ok \in BOOLEAN /\ (x.ok => x.file = made)
      BY <3>3, OutcomeIs
    <3>5. r.ok = x.ok /\ r.file = x.file /\ r.object = made
      BY <3>2
    <3> QED
      BY <2>1, <3>1, <3>3, <3>4, <3>5 DEF Kept_
  <2> QED
    BY <2>6, <2>7
<1> QED
  BY <1>1, <1>2

\* What is opened has a text, and is kept as it is.
LEMMA LoadedIs ==
  ASSUME NEW f, Readable(f)
  PROVE  ContentOf(f) \in Seq(Characters) /\ Kept_(Text!LoadEditable(f, IsWasm).object)
<1> DEFINE d == Text!LoadEditable(f, IsWasm)
<1>0. IsWasm \in BOOLEAN
  BY DocumentsAssumption
<1>1. CASE f.kind = "missing"
  <2>1. ~Text!Verify(f)
    BY <1>1 DEF Text!Verify
  <2>2. d = [content |-> <<>>, object |-> IF IsWasm THEN Text!Blank ELSE Text!None]
    BY <1>1, <2>1 DEF Text!LoadEditable
  <2>3. d.content = <<>> /\ (d.object = Text!None \/ (IsWasm = TRUE /\ d.object = Text!Blank))
    BY <1>0, <2>2
  <2> HIDE DEF d
  <2> QED
    BY <2>3, EmptySeq DEF Kept_, ContentOf, d
<1>2. CASE f.kind = "plain"
  <2>1. ~Text!Verify(f)
    BY <1>2 DEF Text!Verify
  <2> QED
    BY <1>2, <2>1 DEF Text!LoadEditable, Kept_, ContentOf, Readable
<1>3. CASE IsWasm /\ Text!Verify(f)
  <2>1. f.kind = "object" /\ f \in DocOf /\ f.header + Text!Prefix <= f.capacity
    BY <1>3 DEF Text!Verify, Readable
  <2>2. d = [content |-> Text!Read(f), object |-> f]
    BY <1>3, <2>1 DEF Text!LoadEditable
  <2>3. f.window \in Seq(Characters) /\ f.header \in 0..Len(f.window) /\ f.header \in f.header..Len(f.window)
    <3>1. f.window \in Seq(Characters) /\ f.header \in Nat /\ Len(f.window) = f.capacity - 4 /\ f.capacity \in Tiers
      BY <2>1 DEF DocOf, Text!Prefix
    <3>2. f.capacity \in Nat /\ f.header + 4 <= f.capacity
      BY <2>1, <3>1, TierFacts DEF Text!Prefix
    <3> QED
      BY <3>1, <3>2
  <2>4. Text!Read(f) \in Seq(Characters)
    BY <2>3, CutOut DEF Text!Read
  <2>5. d.content = Text!Read(f) /\ d.object = f
    BY <2>2
  <2>6. IsWasm = TRUE
    BY <1>0, <1>3
  <2> HIDE DEF d
  <2> QED
    BY <2>1, <2>4, <2>5, <2>6 DEF Kept_, ContentOf, d
<1>4. CASE f.kind # "missing" /\ f.kind # "plain" /\ ~(IsWasm /\ Text!Verify(f))
  <2>1. d = [content |-> Text!Garbage, object |-> Text!None]
    BY <1>4 DEF Text!LoadEditable
  <2>2. Text!Garbage \in Seq(Characters)
    BY DEF Text!Garbage, Characters
  <2> QED
    BY <2>1, <2>2 DEF Kept_, ContentOf
<1> QED
  BY <1>1, <1>2, <1>3, <1>4

\* A buffer is shown where its cursor is.
Windowed(b) == /\ b.cy - 1 \in b.rowOff..(b.rowOff + TextRows - 1)
               /\ b.cx \in b.colOff..(b.colOff + Cols - 1)

NanoHolds == /\ buf \in Places /\ Windowed(buf)
             /\ Readable(text) /\ Kept_(object)
             /\ buf.modified \/ told = "failed" \/ Text!FromText(ContentOf(text)) = buf.lines

LEMMA InkedFacts == Break \notin Inked /\ Break \in Characters /\ Inked \subseteq Characters
                    /\ Characters = Inked \cup {Break}
BY DEF Inked, Characters, Break, Text!LF

LEMMA InkedLines == ASSUME NEW lines \in LinesOf(Inked) PROVE lines \in LinesOf(Characters)
<1>1. \A l \in Seq(Inked) : l \in Seq(Characters)
  BY InkedFacts
<1>2. lines \in Seq(Seq(Characters))
  BY <1>1 DEF LinesOf
<1> QED
  BY <1>2 DEF LinesOf

LEMMA FromTextType ==
  ASSUME NEW t \in Seq(Characters)
  PROVE  Text!FromText(t) \in LinesOf(Inked)
<1> DEFINE p == Text!Split(t)
<1>1. p \in LinesOf(Inked)
  BY SplitInked DEF Inked
<1> HIDE DEF p
<1>2. CASE Len(p) > 1 /\ p[Len(p)] = <<>>
  <2> DEFINE s == SubSeq(p, 1, Len(p) - 1)
  <2>1. Len(p) \in Nat \ {0} /\ p \in Seq(Seq(Inked))
    BY <1>1, LinesAre
  <2>2. s \in Seq(Seq(Inked)) /\ Len(s) = Len(p) - 1
    <3>1. Len(p) - 1 \in 0..Len(p) /\ Len(p) - 1 \in (Len(p) - 1)..Len(p)
      BY <2>1
    <3> QED
      BY <2>1, <3>1, CutOut
  <2>3. s # <<>>
    <3>1. Len(s) # 0
      BY <1>2, <2>1, <2>2
    <3> QED
      BY <3>1, EmptySeq
  <2>4. Text!FromText(t) = s
    BY <1>2 DEF Text!FromText, p
  <2> HIDE DEF s
  <2> QED
    BY <2>2, <2>3, <2>4 DEF LinesOf
<1>3. CASE ~(Len(p) > 1 /\ p[Len(p)] = <<>>)
  BY <1>1, <1>3 DEF Text!FromText, p
<1> QED
  BY <1>2, <1>3

\* What nano writes it reads back.
LEMMA WritesItsLines ==
  ASSUME NEW lines \in LinesOf(Inked)
  PROVE  Text!ToText(lines) \in Seq(Characters) /\ Text!FromText(Text!ToText(lines)) = lines
<1> DEFINE t == Text!Join(lines)
           a == Append(lines, <<>>)
<1>1. t \in Seq(Characters)
  BY InkedLines, InkedFacts, JoinType
<1>2. Text!Split(t) = lines
  BY InkedFacts, SplitJoin
<1> HIDE DEF t
<1>3. Text!ToText(lines) = Append(t, Break) /\ Append(t, Break) \in Seq(Characters)
  BY <1>1, InkedFacts, AppendProperties DEF t, Text!ToText, Break
<1>4. Text!Split(Append(t, Break)) = a
  <2>1. Text!Split(Append(t, Break)) = Text!Scanned(lines, Break)
    BY <1>1, <1>2, InkedFacts, SplitMore
  <2> QED
    BY <2>1 DEF Text!Scanned, Break
<1>5. lines \in Seq(Seq(Inked)) /\ Len(lines) \in Nat \ {0} /\ <<>> \in Seq(Inked)
  BY LinesAre, EmptySeq
<1>6. /\ a \in Seq(Seq(Inked)) /\ Len(a) = Len(lines) + 1 /\ a[Len(lines) + 1] = <<>>
      /\ \A i \in 1..Len(lines) : a[i] = lines[i]
  BY <1>5, AppendProperties
<1> HIDE DEF a
<1> DEFINE s == SubSeq(a, 1, Len(a) - 1)
<1>7. s = lines
  <2>1. Len(a) - 1 = Len(lines) /\ Len(lines) \in 0..Len(a) /\ Len(lines) \in Len(lines)..Len(a)
    BY <1>5, <1>6
  <2>2. s \in Seq(Seq(Inked)) /\ Len(s) = Len(lines)
    BY <1>6, <2>1, CutOut
  <2>3. \A i \in 1..Len(lines) : s[i] = a[i]
    BY <1>6, <2>1
  <2> HIDE DEF s
  <2> QED
    BY <1>5, <1>6, <2>2, <2>3, SeqEqual
<1>8. Len(a) > 1 /\ a[Len(a)] = <<>>
  BY <1>5, <1>6
<1> QED
  BY <1>3, <1>4, <1>7, <1>8 DEF Text!FromText

LEMMA ScrollShows ==
  ASSUME NEW b \in Places
  PROVE  /\ Text!Scroll(b) \in Places /\ Windowed(Text!Scroll(b))
         /\ Text!Scroll(b).lines = b.lines /\ Text!Scroll(b).modified = b.modified
         /\ Text!Scroll(b).cx = b.cx /\ Text!Scroll(b).cy = b.cy
<1> DEFINE s == Text!Scroll(b)
           row == b.cy - 1
           x == IF row < b.rowOff THEN row
                ELSE IF row >= b.rowOff + TextRows THEN row + 1 - TextRows ELSE b.rowOff
           y == IF b.cx < b.colOff THEN b.cx
                ELSE IF b.cx >= b.colOff + Cols THEN b.cx + 1 - Cols ELSE b.colOff
<1>1. /\ b \in BufferOf /\ b.cy \in Nat /\ b.cy >= 1 /\ b.cx \in Nat /\ b.rowOff \in Nat /\ b.colOff \in Nat
      /\ TextRows \in Nat \ {0} /\ Cols \in Nat \ {0}
  BY PlaceFacts, ProgramsAssumption DEF BufferOf
<1>2. x \in Nat /\ row \in x..(x + TextRows - 1)
  BY <1>1
<1>3. y \in Nat /\ b.cx \in y..(y + Cols - 1)
  BY <1>1
<1>4. s = [b EXCEPT !.rowOff = x, !.colOff = y]
  BY DEF Text!Scroll
<1> HIDE DEF x, y
<1>5. s \in BufferOf
  BY <1>1, <1>2, <1>3, <1>4 DEF BufferOf
<1>6. /\ s.lines = b.lines /\ s.modified = b.modified /\ s.cx = b.cx /\ s.cy = b.cy
      /\ s.rowOff = x /\ s.colOff = y
  BY <1>1, <1>4 DEF BufferOf
<1> HIDE DEF s
<1>7. s \in Places /\ Windowed(s)
  BY <1>2, <1>3, <1>5, <1>6 DEF Places, Windowed
<1> QED
  BY <1>6, <1>7 DEF s

LEMMA NanoBegins == Text!NanoInit => NanoHolds
<1> SUFFICES ASSUME Text!NanoInit PROVE NanoHolds
  OBVIOUS
<1> DEFINE d == Text!LoadEditable(text, IsWasm)
<1>1. /\ text \in OnDisk /\ object = d.object
      /\ buf = [lines |-> Text!FromText(d.content), cx |-> 0, cy |-> 1,
                rowOff |-> 0, colOff |-> 0, modified |-> FALSE]
  BY DEF Text!NanoInit
<1>2. Readable(text) /\ d.content \in Seq(Characters) /\ Kept_(d.object) /\ d.content = ContentOf(text)
  BY <1>1, OnDiskReadable, LoadedIs DEF ContentOf
<1> HIDE DEF d
<1> DEFINE lines == Text!FromText(d.content)
<1>3. lines \in LinesOf(Inked)
  BY <1>2, FromTextType
<1> HIDE DEF lines
<1>4. /\ buf.lines = lines /\ buf.cx = 0 /\ buf.cy = 1 /\ buf.rowOff = 0 /\ buf.colOff = 0
      /\ buf.modified = FALSE /\ buf \in BufferOf
  BY <1>1, <1>3 DEF lines, BufferOf
<1>5. 1 \in 1..Len(lines) /\ 0 \in 0..Len(lines[1])
  BY <1>3, LinesAre, LenProperties
<1>6. Windowed(buf)
  BY <1>4, ProgramsAssumption DEF Windowed
<1> QED
  BY <1>1, <1>2, <1>4, <1>5, <1>6 DEF NanoHolds, Places, lines

LEMMA NanoStep == NanoHolds /\ Text!NanoNext => NanoHolds'
<1> SUFFICES ASSUME NanoHolds, Text!NanoNext PROVE NanoHolds'
  OBVIOUS
<1>0. buf \in Places /\ Windowed(buf) /\ Readable(text) /\ Kept_(object)
  BY DEF NanoHolds
<1>1. ASSUME UNCHANGED <<buf, object, text, told>> PROVE NanoHolds'
  BY <1>1 DEF NanoHolds, Windowed, ContentOf, Readable, Kept_
<1>2. ASSUME NEW next, Text!SaveTo(next) PROVE NanoHolds'
  <2>1. PICK o \in Text!SaveEditable(text, object, Text!ToText(buf.lines)) :
           /\ text' = o.file /\ object' = o.object
           /\ told' = IF o.ok THEN "written" ELSE "failed"
           /\ buf' = [buf EXCEPT !.modified = @ /\ ~o.ok]
    BY <1>2 DEF Text!SaveTo
  <2>2. buf.lines \in LinesOf(Inked) /\ buf \in BufferOf
    BY <1>0, PlaceFacts
  <2> DEFINE t == Text!ToText(buf.lines)
  <2>3. t \in Seq(Characters) /\ Text!FromText(t) = buf.lines
    BY <2>2, WritesItsLines
  <2> HIDE DEF t
  <2>4. /\ Readable(o.file) /\ Kept_(o.object)
        /\ o.ok \in BOOLEAN /\ (o.ok => ContentOf(o.file) = t)
    BY <1>0, <2>1, <2>3, SavedIs DEF t
  <2>5. buf' \in BufferOf
    BY <2>1, <2>2, <2>4 DEF BufferOf
  <2>6. /\ buf'.lines = buf.lines /\ buf'.cx = buf.cx /\ buf'.cy = buf.cy
        /\ buf'.rowOff = buf.rowOff /\ buf'.colOff = buf.colOff
    BY <2>1, <2>2 DEF BufferOf
  <2>7. buf' \in Places /\ Windowed(buf')
    BY <1>0, <2>5, <2>6 DEF Places, Windowed
  <2>8. Readable(text)' /\ Kept_(object)'
    BY <2>1, <2>4 DEF Readable, Kept_
  <2>9. told' = "failed" \/ Text!FromText(ContentOf(text'))  = buf'.lines
    BY <2>1, <2>3, <2>4, <2>6
  <2> QED
    BY <2>7, <2>8, <2>9 DEF NanoHolds, Windowed, ContentOf
<1>3. ASSUME NEW bytes, Text!Key(bytes) PROVE NanoHolds'
  <2> DEFINE key == Text!ReadKey(bytes)
  <2>1. \/ Text!SaveTo("edit")
        \/ UNCHANGED <<buf, object, text, told>>
        \/ buf' = Text!Scroll(Text!Apply(buf, key)) /\ UNCHANGED <<object, text, told>>
    BY <1>3 DEF Text!Key, Text!Stay
  <2>2. CASE buf' = Text!Scroll(Text!Apply(buf, key)) /\ UNCHANGED <<object, text, told>>
    <3> DEFINE a == Text!Apply(buf, key)
    <3>1. Elsewhere(buf, a) \/ Edits(buf, a)
      BY <1>0, ApplyPlace
    <3> HIDE DEF a
    <3>2. a \in Places /\ ((a.lines = buf.lines /\ a.modified = buf.modified) \/ a.modified)
      BY <3>1 DEF Elsewhere, Edits
    <3>3. /\ buf' \in Places /\ Windowed(buf')
          /\ buf'.lines = a.lines /\ buf'.modified = a.modified
      BY <2>2, <3>2, ScrollShows DEF a
    <3> QED
      BY <1>0, <2>2, <3>2, <3>3 DEF NanoHolds, Windowed, ContentOf, Readable, Kept_
  <2> QED
    BY <1>1, <1>2, <2>1, <2>2
<1>4. ASSUME NEW bytes, Text!Answer(bytes) PROVE NanoHolds'
  BY <1>1, <1>2, <1>4 DEF Text!Answer, Text!Stay
<1>5. CASE Text!InputClosed
  BY <1>1, <1>5 DEF Text!InputClosed, Text!Stay
<1> QED
  BY <1>3, <1>4, <1>5 DEF Text!NanoNext

LEMMA NanoKeeps ==
  ASSUME NanoHolds
  PROVE  Text!CursorShown /\ Text!CleanIsOnDisk /\ Text!PrintsWhatItShows
<1>1. buf \in Places /\ Windowed(buf) /\ Readable(text)
  BY DEF NanoHolds
<1>2. Text!CursorShown
  <2>1. /\ buf.lines \in Seq(Seq(Inked)) /\ buf.cy \in 1..Len(buf.lines)
        /\ buf.cx \in 0..Len(buf.lines[buf.cy])
    BY <1>1, PlaceFacts
  <2>2. buf.cy \in DOMAIN buf.lines
    BY <2>1
  <2> QED
    BY <1>1, <2>1, <2>2, LineIs DEF Text!CursorShown, Windowed
<1>3. Text!PrintsWhatItShows
  BY <1>1 DEF Readable, DocOf, Text!PrintsWhatItShows, Text!Printed, Text!Read
<1> QED
  BY <1>2, <1>3 DEF NanoHolds, Text!CleanIsOnDisk, ContentOf

(***************************************************************************)
(* The graphical editor.                                                   *)
(***************************************************************************)
Shown == Inked \ {"?"}

\* What is displayed of a line up to each character.
IsDisplay(w, l) ==
  /\ w \in [0..Len(l) -> Seq(Shown)] /\ w[0] = <<>>
  /\ \A i \in 1..Len(l) : w[i] = IF l[i] \in Edit!Unprintable THEN w[i - 1] ELSE Append(w[i - 1], l[i])

LEMMA DisplayOf ==
  ASSUME NEW l \in Seq(Inked)
  PROVE  \E w : IsDisplay(w, l) /\ Edit!Displayed(l) = w[Len(l)]
<1> DEFINE n == Len(l)
           P == Seq(Shown)
           Put(i, s) == IF l[i] \in Edit!Unprintable THEN s ELSE Append(s, l[i])
           G == [i \in 1..n |-> [s \in P |-> Put(i, s)]]
           Is(f) == f = [i \in 0..n |-> IF i = 0 THEN <<>>
                                        ELSE IF l[i] \in Edit!Unprintable THEN f[i - 1]
                                        ELSE Append(f[i - 1], l[i])]
           u == CHOOSE f : Is(f)
<1>1. n \in Nat /\ \A i \in 1..n : l[i] \in Inked
  BY LenProperties, ElementOfSeq
<1>2. ASSUME NEW i \in 1..n, NEW s \in P PROVE Put(i, s) \in P
  <2>1. l[i] \in Edit!Unprintable \/ l[i] \in Shown
    BY <1>1 DEF Shown, Edit!Unprintable
  <2> QED
    BY <2>1, AppendProperties
<1>3. G \in [1..n -> [P -> P]]
  <2> HIDE DEF P, Put
  <2> QED
    BY <1>2
<1>4. <<>> \in P
  BY EmptySeq
<1>5. PICK w : IsMade(w, P, G, <<>>, n)
  <2> HIDE DEF P, G, n
  <2> QED
    BY <1>1, <1>3, <1>4, Makes
<1>6. w \in [0..n -> P] /\ w[0] = <<>> /\ \A i \in 1..n : w[i] = G[i][w[i - 1]]
  BY <1>5 DEF IsMade
<1>7. ASSUME NEW i \in 1..n PROVE w[i] = Put(i, w[i - 1])
  <2>1. i - 1 \in 0..n /\ w[i - 1] \in P
    BY <1>1, <1>6
  <2> HIDE DEF P, Put
  <2> QED
    BY <1>6, <2>1
<1>8. Is(w)
  <2>1. ASSUME NEW i \in 0..n
        PROVE  w[i] = IF i = 0 THEN <<>> ELSE Put(i, w[i - 1])
    <3>1. i # 0 => i \in 1..n
      BY <1>1
    <3> HIDE DEF P, G, n, Put
    <3> QED
      BY <1>6, <1>7, <3>1
  <2> HIDE DEF P
  <2> QED
    BY <1>6, <2>1
<1>9. Is(u)
  BY <1>8
<1>10. Edit!Displayed(l) = u[n]
  BY DEF Edit!Displayed
<1> HIDE DEF u
<1>11. DOMAIN u = 0..n /\ u[0] = <<>> /\ \A i \in 1..n : u[i] = Put(i, u[i - 1])
  <2>1. u = [i \in 0..n |-> IF i = 0 THEN <<>> ELSE Put(i, u[i - 1])]
    BY <1>9
  <2> HIDE DEF Put
  <2>2. 0 \in 0..n /\ \A i \in 1..n : i \in 0..n /\ i # 0
    BY <1>1
  <2> HIDE DEF n
  <2> QED
    BY <2>1, <2>2
<1>12. ASSUME NEW i \in 0..n PROVE u[i] \in P
  <2>1. ASSUME NEW k \in 0..n, k # n /\ u[k] \in P PROVE u[k + 1] \in P
    <3>1. k + 1 \in 1..n /\ (k + 1) - 1 = k
      BY <1>1, <2>1
    <3>2. u[k + 1] = Put(k + 1, u[k])
      BY <1>11, <3>1
    <3> HIDE DEF P, Put
    <3> QED
      BY <1>2, <2>1, <3>1, <3>2
  <2> HIDE DEF P, Put
  <2> QED
    BY <1>1, <1>4, <1>11, <2>1, WalkStays
<1>13. u \in [0..n -> P]
  <2>1. u = [i \in 0..n |-> u[i]]
    BY <1>9
  <2> HIDE DEF P
  <2> QED
    BY <1>12, <2>1
<1> QED
  BY <1>10, <1>11, <1>13 DEF IsDisplay

LEMMA DisplayType ==
  ASSUME NEW l \in Seq(Inked)
  PROVE  Edit!Displayed(l) \in Seq(Shown)
<1>1. PICK w : IsDisplay(w, l) /\ Edit!Displayed(l) = w[Len(l)]
  BY DisplayOf
<1>2. Len(l) \in 0..Len(l)
  BY LenProperties
<1> QED
  BY <1>1, <1>2 DEF IsDisplay

\* A printable line is displayed as it is.
LEMMA DisplaySame ==
  ASSUME NEW l \in Seq(Shown)
  PROVE  Edit!Displayed(l) = l
<1> DEFINE n == Len(l)
<1>0. l \in Seq(Inked)
  BY DEF Shown
<1>1. PICK w : IsDisplay(w, l) /\ Edit!Displayed(l) = w[n]
  BY <1>0, DisplayOf
<1>2. n \in Nat /\ \A i \in 1..n : l[i] \in Shown
  BY LenProperties, ElementOfSeq
<1>3. \A i \in 1..n : l[i] \notin Edit!Unprintable
  BY <1>2 DEF Shown, Edit!Unprintable
<1>4. w[0] = <<>> /\ \A i \in 1..n : w[i] = Append(w[i - 1], l[i])
  BY <1>1, <1>3 DEF IsDisplay
<1> DEFINE H == {i \in Nat : i <= n => w[i] = SubSeq(l, 1, i)}
<1>5. 0 \in H
  <2>1. SubSeq(l, 1, 0) = <<>>
    OBVIOUS
  <2> QED
    BY <1>4, <2>1
<1>6. ASSUME NEW i \in Nat, i \in H PROVE i + 1 \in H
  <2>1. CASE i + 1 <= n
    <3>1. i + 1 \in 1..n /\ (i + 1) - 1 = i /\ i <= n
      BY <1>2, <2>1
    <3>2. w[i + 1] = Append(SubSeq(l, 1, i), l[i + 1])
      BY <1>4, <1>6, <3>1
    <3>3. SubSeq(l, 1, i + 1) = Append(SubSeq(l, 1, i), l[i + 1])
      <4> DEFINE a == SubSeq(l, 1, i)
                 b == SubSeq(l, 1, i + 1)
                 c == Append(a, l[i + 1])
      <4>1. i \in 0..Len(l) /\ i + 1 \in 0..Len(l)
        BY <1>2, <2>1
      <4>2. a \in Seq(Shown) /\ Len(a) = i /\ b \in Seq(Shown) /\ Len(b) = i + 1
        <5>1. Len(l) \in i..Len(l) /\ Len(l) \in (i + 1)..Len(l)
          BY <1>2, <2>1
        <5> QED
          BY <4>1, <5>1, CutOut
      <4>3. \A k \in 1..i : a[k] = l[k]
        BY <1>2, <4>1
      <4>4. \A k \in 1..(i + 1) : b[k] = l[k]
        BY <1>2, <4>1
      <4> HIDE DEF a, b
      <4>5. /\ c \in Seq(Shown) /\ Len(c) = i + 1 /\ c[i + 1] = l[i + 1]
            /\ \A k \in 1..i : c[k] = a[k]
        BY <1>2, <3>1, <4>2, AppendProperties
      <4> HIDE DEF c
      <4>6. ASSUME NEW k \in 1..(i + 1) PROVE b[k] = c[k]
        <5>1. k \in 1..i \/ k = i + 1
          OBVIOUS
        <5> QED
          BY <4>3, <4>4, <4>5, <5>1
      <4>7. b = c
        BY <4>2, <4>5, <4>6, SeqEqual
      <4> QED
        BY <4>7 DEF a, b, c
    <3> QED
      BY <3>2, <3>3
  <2> QED
    BY <2>1
<1>7. Nat \subseteq H
  <2> HIDE DEF H
  <2> QED
    BY <1>5, <1>6, Inductive
<1>8. w[n] = SubSeq(l, 1, n)
  BY <1>2, <1>7
<1>9. SubSeq(l, 1, n) = l
  OBVIOUS
<1> QED
  BY <1>1, <1>8, <1>9

(***************************************************************************)
(* The two editors' documents are the same.                                *)
(***************************************************************************)
LEMMA SameSplit == ASSUME NEW t PROVE Edit!Split(t) = Text!Split(t)
BY DEF Edit!Split, Text!Split, Edit!Scanned, Text!Scanned, Edit!LF, Text!LF

LEMMA SameJoin == ASSUME NEW t PROVE Edit!Join(t) = Text!Join(t)
BY DEF Edit!Join, Text!Join, Edit!LF, Text!LF

LEMMA SameLoad == ASSUME NEW f, NEW w PROVE Edit!LoadEditable(f, w) = Text!LoadEditable(f, w)
BY DEF Edit!LoadEditable, Text!LoadEditable, Edit!Blank, Text!Blank, Edit!None, Text!None,
       Edit!Verify, Text!Verify, Edit!Prefix, Text!Prefix, Edit!Read, Text!Read,
       Edit!Garbage, Text!Garbage

LEMMA SameSave ==
  ASSUME NEW f, NEW o, NEW t
  PROVE  Edit!SaveEditable(f, o, t) = Text!SaveEditable(f, o, t)
<1>1. /\ Edit!None = Text!None /\ Edit!Prefix = Text!Prefix
      /\ \A x : Edit!Plain(x) = Text!Plain(x)
  BY DEF Edit!None, Text!None, Edit!Prefix, Text!Prefix, Edit!Plain, Text!Plain
<1>2. \A x, y : Edit!Outcomes(x, y) = Text!Outcomes(x, y)
  BY DEF Edit!Outcomes, Text!Outcomes, Edit!Cut, Text!Cut, Edit!Plain, Text!Plain
<1>3. \A x, y : Edit!Save(x, y) = Text!Save(x, y)
  BY DEF Edit!Save, Text!Save, Edit!Prefix, Text!Prefix, Edit!WriteInPlace, Text!WriteInPlace,
         Edit!Filled, Text!Filled, Edit!Pad, Text!Pad, Edit!Fits, Text!Fits, Edit!Repack,
         Text!Repack, Edit!Mint, Text!Mint, Edit!ForLen, Text!ForLen, Edit!Min, Text!Min,
         Edit!None, Text!None
<1>4. \A x : /\ Edit!Mint(x) = Text!Mint(x) /\ Edit!ForLen(x) = Text!ForLen(x)
             /\ Edit!Fits(x) = Text!Fits(x) /\ Edit!Verify(x) = Text!Verify(x)
  BY DEF Edit!Prefix, Text!Prefix, Edit!Filled, Text!Filled, Edit!Pad, Text!Pad, Edit!Fits,
         Text!Fits, Edit!Mint, Text!Mint, Edit!ForLen, Text!ForLen, Edit!Min, Text!Min,
         Edit!Verify, Text!Verify
<1>5. Edit!Max(Tiers) = Text!Max(Tiers)
  BY DEF Edit!Max, Text!Max
<1> QED
  BY <1>1, <1>2, <1>3, <1>4, <1>5 DEF Edit!SaveEditable, Text!SaveEditable

LEMMA ToLinesType ==
  ASSUME NEW t \in Seq(Characters)
  PROVE  Edit!ToLines(t) \in LinesOf(Shown)
<1> DEFINE p == Edit!Split(t)
           n == Len(p)
           r == [i \in 1..n |-> Edit!Displayed(p[i])]
<1>1. p \in LinesOf(Inked)
  BY SameSplit, SplitInked DEF Inked
<1> HIDE DEF p
<1>2. n \in Nat \ {0} /\ \A i \in 1..n : p[i] \in Seq(Inked)
  BY <1>1, LinesAre
<1>3. DOMAIN p = 1..n
  BY <1>1, LinesAre
<1>4. Edit!ToLines(t) = r
  BY <1>3 DEF Edit!ToLines, p
<1> HIDE DEF n
<1>5. \A i \in 1..n : Edit!Displayed(p[i]) \in Seq(Shown)
  BY <1>2, DisplayType
<1>6. r \in Seq(Seq(Shown)) /\ Len(r) = n
  BY <1>2, <1>5
<1> HIDE DEF r
<1>7. r # <<>>
  BY <1>2, <1>6, EmptySeq
<1> QED
  BY <1>4, <1>6, <1>7 DEF LinesOf

\* The editor reads back what it writes.
LEMMA ReadsBack ==
  ASSUME NEW lines \in LinesOf(Shown)
  PROVE  Edit!Join(lines) \in Seq(Characters) /\ Edit!ToLines(Edit!Join(lines)) = lines
<1>1. \A l \in Seq(Shown) : l \in Seq(Inked)
  BY DEF Shown
<1>2. lines \in LinesOf(Inked) /\ lines \in Seq(Seq(Shown)) /\ Len(lines) \in Nat
  BY <1>1, LinesAre DEF LinesOf
<1>3. Text!Join(lines) \in Seq(Characters)
  BY <1>2, InkedLines, InkedFacts, JoinType
<1>4. Edit!Split(Edit!Join(lines)) = lines
  BY <1>2, InkedFacts, SplitJoin, SameSplit, SameJoin
<1>5. Edit!ToLines(Edit!Join(lines)) = [i \in DOMAIN lines |-> Edit!Displayed(lines[i])]
  BY <1>4 DEF Edit!ToLines
<1>6. \A i \in 1..Len(lines) : Edit!Displayed(lines[i]) = lines[i]
  BY LinesAre, DisplaySame
<1>7. DOMAIN lines = 1..Len(lines) /\ lines = [i \in DOMAIN lines |-> lines[i]]
  BY <1>2
<1> QED
  BY <1>3, <1>5, <1>6, <1>7, SameJoin

(***************************************************************************)
(* Where lines are in the text they are.                                   *)
(***************************************************************************)
LEMMA Associative ==
  ASSUME NEW S, NEW a \in Seq(S), NEW b \in Seq(S), NEW c \in Seq(S)
  PROVE  (a \o b) \o c = a \o (b \o c) /\ a \o b \o c \in Seq(S)
<1>1. a \o b \in Seq(S) /\ b \o c \in Seq(S)
  BY ConcatProperties
<1>2. (a \o b) \o c \in Seq(S)
  BY <1>1, ConcatProperties
<1>3. (a \o b) \o c = a \o (b \o c)
  OBVIOUS
<1> QED
  BY <1>2, <1>3

LEMMA AppendFar ==
  ASSUME NEW S, NEW a \in Seq(S), NEW b \in Seq(S), NEW e \in S
  PROVE  a \o Append(b, e) = Append(a \o b, e)
OBVIOUS

LEMMA JoinConcat ==
  ASSUME NEW S, Break \in S, NEW a \in LinesOf(S)
  PROVE  \A b \in LinesOf(S) :
            a \o b \in LinesOf(S) /\ Text!Join(a \o b) = Text!Join(a) \o <<Break>> \o Text!Join(b)
<1> DEFINE H == {b \in Seq(Seq(S)) :
                   b # <<>> => Text!Join(a \o b) = Text!Join(a) \o <<Break>> \o Text!Join(b)}
<1>0. a \in Seq(Seq(S)) /\ Text!Join(a) \in Seq(S) /\ <<Break>> \in Seq(S) /\ a # <<>>
  BY LinesAre, JoinType DEF LinesOf
<1>1. \A b \in Seq(Seq(S)) : a \o b \in LinesOf(S)
  BY <1>0, Prefixed DEF LinesOf
<1>2. <<>> \in H
  BY EmptySeq
<1>3. ASSUME NEW b \in Seq(Seq(S)), NEW l \in Seq(S), b \in H PROVE Append(b, l) \in H
  <2>1. Append(b, l) \in LinesOf(S)
    BY OneMoreLine
  <2>2. CASE b = <<>>
    <3>1. a \o Append(b, l) = Append(a, l) /\ Append(b, l) = <<l>>
      BY <1>0, <2>2
    <3>2. Text!Join(Append(a, l)) = Text!Join(a) \o <<Break>> \o l
      BY JoinMore
    <3>3. Text!Join(<<l>>) = l
      BY JoinOne
    <3> QED
      BY <2>1, <3>1, <3>2, <3>3 DEF LinesOf
  <2>3. CASE b # <<>>
    <3> DEFINE x == Text!Join(a) \o <<Break>>
               y == Text!Join(b)
               z == <<Break>> \o l
    <3>1. b \in LinesOf(S)
      BY <2>3 DEF LinesOf
    <3>2. y \in Seq(S) /\ x \in Seq(S) /\ z \in Seq(S)
      BY <1>0, <3>1, JoinType, ConcatProperties
    <3>3. Text!Join(a \o b) = x \o y
      BY <1>3, <2>3
    <3>4. a \o Append(b, l) = Append(a \o b, l)
      BY <1>0, AppendFar
    <3>5. a \o b \in LinesOf(S)
      BY <1>1
    <3>6. Text!Join(Append(a \o b, l)) = Text!Join(a \o b) \o <<Break>> \o l
      BY <3>5, JoinMore
    <3>7. Text!Join(Append(b, l)) = y \o <<Break>> \o l
      BY <3>1, JoinMore
    <3>8. (x \o y) \o <<Break>> \o l = x \o (y \o <<Break>> \o l)
      <4>1. x \o y \in Seq(S) /\ y \o <<Break>> \in Seq(S)
        BY <1>0, <3>2, ConcatProperties
      <4> HIDE DEF x, y
      <4>2. (x \o y) \o <<Break>> = x \o (y \o <<Break>>)
        <5> DEFINE br == <<Break>>
        <5>1. br \in Seq(S)
          BY <1>0
        <5> HIDE DEF br
        <5>2. (x \o y) \o br = x \o (y \o br)
          BY <3>2, <5>1, Associative
        <5> QED
          BY <5>2 DEF br
      <4>3. (x \o (y \o <<Break>>)) \o l = x \o ((y \o <<Break>>) \o l)
        BY <3>2, <4>1, Associative
      <4> QED
        BY <4>2, <4>3
    <3>9. Text!Join(a \o Append(b, l)) = x \o Text!Join(Append(b, l))
      BY <3>3, <3>4, <3>6, <3>7, <3>8
    <3> QED
      BY <2>1, <3>9 DEF LinesOf
  <2> QED
    BY <2>2, <2>3
<1>4. Seq(Seq(S)) \subseteq H
  <2> HIDE DEF H
  <2> QED
    BY <1>2, <1>3, Appending
<1>5. ASSUME NEW b \in LinesOf(S)
      PROVE  Text!Join(a \o b) = Text!Join(a) \o <<Break>> \o Text!Join(b)
  <2>1. b \in Seq(Seq(S)) /\ b # <<>>
    BY DEF LinesOf
  <2>2. b \in H
    BY <1>4, <2>1
  <2> QED
    BY <2>1, <2>2
<1> QED
  BY <1>1, <1>5 DEF LinesOf

\* The text before line i + 1, and after line j.
Pre(lines, i)  == IF i = 0 THEN <<>> ELSE Text!Join(SubSeq(lines, 1, i)) \o <<Break>>
Rear(lines, j) == IF j = Len(lines) THEN <<>>
                  ELSE <<Break>> \o Text!Join(SubSeq(lines, j + 1, Len(lines)))

LEMMA PrePost ==
  ASSUME NEW S, Break \in S, NEW lines \in LinesOf(S), NEW i \in 0..Len(lines)
  PROVE  /\ Pre(lines, i) \in Seq(S) /\ Rear(lines, i) \in Seq(S)
         /\ i # 0 => /\ SubSeq(lines, 1, i) \in LinesOf(S)
                     /\ Text!Join(SubSeq(lines, 1, i)) \in Seq(S)
         /\ i # Len(lines) => /\ SubSeq(lines, i + 1, Len(lines)) \in LinesOf(S)
                              /\ Text!Join(SubSeq(lines, i + 1, Len(lines))) \in Seq(S)
<1> DEFINE a == SubSeq(lines, 1, i)
           b == SubSeq(lines, i + 1, Len(lines))
<1>1. lines \in Seq(Seq(S)) /\ Len(lines) \in Nat \ {0} /\ i \in i..Len(lines)
  BY LinesAre
<1>2. a \in Seq(Seq(S)) /\ Len(a) = i /\ b \in Seq(Seq(S)) /\ Len(b) = Len(lines) - i
  BY <1>1, CutOut
<1> HIDE DEF a, b
<1>3. i # 0 => a \in LinesOf(S)
  BY <1>2, EmptySeq DEF LinesOf
<1>4. i # Len(lines) => b \in LinesOf(S)
  <2>1. i # Len(lines) => Len(b) # 0
    BY <1>1, <1>2
  <2> QED
    BY <1>2, <2>1, EmptySeq DEF LinesOf
<1>5. <<Break>> \in Seq(S) /\ <<>> \in Seq(S)
  OBVIOUS
<1>6. /\ i # 0 => Text!Join(a) \in Seq(S) /\ Text!Join(a) \o <<Break>> \in Seq(S)
      /\ i # Len(lines) => Text!Join(b) \in Seq(S) /\ <<Break>> \o Text!Join(b) \in Seq(S)
  BY <1>3, <1>4, <1>5, JoinType, ConcatProperties
<1> QED
  BY <1>3, <1>4, <1>5, <1>6 DEF Pre, Rear, a, b

LEMMA JoinExchanged ==
  ASSUME NEW S, Break \in S, NEW lines \in LinesOf(S), NEW i \in 0..Len(lines),
         NEW j \in i..Len(lines), NEW m \in LinesOf(S)
  PROVE  /\ Exchanged(lines, i, m, j) \in LinesOf(S)
         /\ Text!Join(Exchanged(lines, i, m, j)) = Pre(lines, i) \o Text!Join(m) \o Rear(lines, j)
<1> DEFINE a == SubSeq(lines, 1, i)
           b == SubSeq(lines, j + 1, Len(lines))
           am == a \o m
<1>0. lines \in Seq(Seq(S)) /\ Len(lines) \in Nat \ {0} /\ m \in Seq(Seq(S)) /\ m # <<>>
  BY LinesAre DEF LinesOf
<1>1. /\ j \in 0..Len(lines) /\ a \in Seq(Seq(S)) /\ Len(a) = i
      /\ b \in Seq(Seq(S)) /\ Len(b) = Len(lines) - j
  BY <1>0, CutOut
<1>2. Text!Join(m) \in Seq(S)
  BY JoinType
<1>3. am \in LinesOf(S) /\ Text!Join(am) = Pre(lines, i) \o Text!Join(m)
  <2>1. CASE i = 0
    <3>1. a = <<>>
      BY <1>1, <2>1, EmptySeq
    <3> HIDE DEF a
    <3>2. am = m
      BY <1>0, <3>1
    <3>3. <<>> \o Text!Join(m) = Text!Join(m)
      BY <1>2
    <3> QED
      BY <2>1, <3>2, <3>3 DEF Pre
  <2>2. CASE i # 0
    <3>1. a \in LinesOf(S)
      BY <2>2, PrePost
    <3> HIDE DEF a
    <3> QED
      BY <2>2, <3>1, JoinConcat DEF Pre, a
  <2> QED
    BY <2>1, <2>2
<1>4. am \o b \in LinesOf(S) /\ Text!Join(am \o b) = Text!Join(am) \o Rear(lines, j)
  <2>0. am \in Seq(Seq(S)) /\ Text!Join(am) \in Seq(S)
    BY <1>3, JoinType DEF LinesOf
  <2>1. CASE j = Len(lines)
    <3>1. b = <<>>
      BY <1>0, <1>1, <2>1, EmptySeq
    <3> HIDE DEF b, am
    <3>2. am \o b = am /\ Text!Join(am) \o <<>> = Text!Join(am)
      BY <2>0, <3>1
    <3> QED
      BY <1>3, <2>1, <3>2 DEF Rear
  <2>2. CASE j # Len(lines)
    <3>1. b \in LinesOf(S) /\ Text!Join(b) \in Seq(S)
      BY <1>1, <2>2, PrePost
    <3> HIDE DEF b, am
    <3>2. am \o b \in LinesOf(S) /\ Text!Join(am \o b) = Text!Join(am) \o <<Break>> \o Text!Join(b)
      BY <1>3, <3>1, JoinConcat
    <3>3. (Text!Join(am) \o <<Break>>) \o Text!Join(b) = Text!Join(am) \o (<<Break>> \o Text!Join(b))
      BY <2>0, <3>1, Associative
    <3> QED
      BY <2>2, <3>2, <3>3 DEF Rear, b
  <2> QED
    BY <2>1, <2>2
<1> QED
  BY <1>3, <1>4 DEF Exchanged, a, b

\* The place of a row and a column in the text.
PlaceAt(lines, r, c) == Len(Text!Join(SubSeq(lines, 1, r))) - Len(lines[r]) + c

\* What is put together is taken apart.
LEMMA Halves ==
  ASSUME NEW S, NEW u \in Seq(S), NEW v \in Seq(S)
  PROVE  SubSeq(u \o v, 1, Len(u)) = u /\ SubSeq(u \o v, Len(u) + 1, Len(u \o v)) = v
<1> DEFINE t == u \o v
           a == SubSeq(t, 1, Len(u))
           b == SubSeq(t, Len(u) + 1, Len(t))
<1>1. /\ Len(u) \in Nat /\ Len(v) \in Nat /\ t \in Seq(S) /\ Len(t) = Len(u) + Len(v)
      /\ \A i \in 1..(Len(u) + Len(v)) : t[i] = IF i <= Len(u) THEN u[i] ELSE v[i - Len(u)]
  BY LenProperties, Concatenated
<1> HIDE DEF t
<1>2. Len(u) \in 0..Len(t) /\ Len(t) \in Len(u)..Len(t) /\ Len(u) \in Len(u)..Len(t)
  BY <1>1
<1>3. a \in Seq(S) /\ Len(a) = Len(u) /\ b \in Seq(S) /\ Len(b) = Len(t) - Len(u)
  BY <1>1, <1>2, CutOut
<1>4. \A i \in 1..Len(u) : a[i] = t[i]
  BY <1>1, <1>2
<1>5. \A i \in 1..Len(v) : b[i] = t[Len(u) + i]
  BY <1>1, <1>2
<1> HIDE DEF a, b
<1>6. a = u
  <2>1. \A i \in 1..Len(u) : a[i] = u[i]
    BY <1>1, <1>4
  <2> QED
    BY <1>3, <2>1, SeqEqual
<1>7. b = v
  <2>1. Len(b) = Len(v)
    BY <1>1, <1>3
  <2>2. ASSUME NEW i \in 1..Len(v) PROVE b[i] = v[i]
    <3>1. /\ Len(u) + i \in 1..(Len(u) + Len(v)) /\ ~(Len(u) + i <= Len(u))
          /\ (Len(u) + i) - Len(u) = i
      BY <1>1
    <3> QED
      BY <1>1, <1>5, <3>1
  <2> QED
    BY <1>3, <2>1, <2>2, SeqEqual
<1> QED
  BY <1>6, <1>7 DEF a, b, t

LEMMA TwoHalves ==
  ASSUME NEW S, NEW l \in Seq(S), NEW i \in 0..Len(l)
  PROVE  l = SubSeq(l, 1, i) \o SubSeq(l, i + 1, Len(l))
<1> DEFINE a == SubSeq(l, 1, i)
           b == SubSeq(l, i + 1, Len(l))
           c == a \o b
<1>1. Len(l) \in Nat /\ i \in i..Len(l)
  BY LenProperties
<1>2. a \in Seq(S) /\ Len(a) = i /\ b \in Seq(S) /\ Len(b) = Len(l) - i
  BY <1>1, CutOut
<1>3. \A k \in 1..i : a[k] = l[k]
  BY <1>1
<1>4. \A k \in 1..(Len(l) - i) : b[k] = l[i + k]
  BY <1>1
<1> HIDE DEF a, b
<1>5. /\ c \in Seq(S) /\ Len(c) = Len(a) + Len(b)
      /\ \A k \in 1..(Len(a) + Len(b)) : c[k] = IF k <= Len(a) THEN a[k] ELSE b[k - Len(a)]
  BY <1>2, Concatenated
<1> HIDE DEF c
<1>6. Len(c) = Len(l)
  BY <1>1, <1>2, <1>5
<1>7. ASSUME NEW k \in 1..Len(l) PROVE c[k] = l[k]
  <2>1. k \in 1..(Len(a) + Len(b)) /\ Len(a) = i
    BY <1>1, <1>2
  <2>2. CASE k <= i
    BY <1>1, <1>3, <1>5, <2>1, <2>2
  <2>3. CASE ~(k <= i)
    <3>1. k - i \in 1..(Len(l) - i) /\ i + (k - i) = k
      BY <1>1, <2>3
    <3> QED
      BY <1>4, <1>5, <2>1, <2>3, <3>1
  <2> QED
    BY <2>2, <2>3
<1> QED
  BY <1>5, <1>6, <1>7, SeqEqual DEF c, a, b

\* One text after another, where it is not to be taken apart.
Then(a, b) == a \o b

LEMMA ThenType ==
  ASSUME NEW S, NEW a \in Seq(S), NEW b \in Seq(S)
  PROVE  Then(a, b) \in Seq(S) /\ Len(Then(a, b)) = Len(a) + Len(b)
BY ConcatProperties DEF Then

LEMMA ThenAssociates ==
  ASSUME NEW S, NEW a \in Seq(S), NEW b \in Seq(S), NEW c \in Seq(S)
  PROVE  Then(Then(a, b), c) = Then(a, Then(b, c))
BY DEF Then

LEMMA Regrouped ==
  ASSUME NEW S, NEW p \in Seq(S), NEW x \in Seq(S), NEW y \in Seq(S), NEW q \in Seq(S)
  PROVE  Then(Then(p, Then(x, y)), q) = Then(Then(p, x), Then(y, q))
BY ThenAssociates, ThenType

LEMMA RegroupedAround ==
  ASSUME NEW S, NEW p \in Seq(S), NEW x \in Seq(S), NEW m \in Seq(S), NEW y \in Seq(S),
         NEW q \in Seq(S)
  PROVE  Then(Then(p, Then(Then(x, m), y)), q) = Then(Then(Then(p, x), m), Then(y, q))
<1>1. Then(x, m) \in Seq(S)
  BY ThenType
<1>2. Then(Then(p, Then(Then(x, m), y)), q) = Then(Then(p, Then(x, m)), Then(y, q))
  BY <1>1, Regrouped
<1>3. Then(p, Then(x, m)) = Then(Then(p, x), m)
  BY ThenAssociates
<1> QED
  BY <1>2, <1>3

LEMMA ThenHalves ==
  ASSUME NEW S, NEW u \in Seq(S), NEW v \in Seq(S)
  PROVE  /\ SubSeq(Then(u, v), 1, Len(u)) = u
         /\ SubSeq(Then(u, v), Len(u) + 1, Len(Then(u, v))) = v
BY Halves DEF Then

\* An exchange inside a part is one in the whole.
LEMMA Inside ==
  ASSUME NEW S, NEW p \in Seq(S), NEW l \in Seq(S), NEW q \in Seq(S), NEW m \in Seq(S),
         NEW i \in 0..Len(l), NEW j \in i..Len(l)
  PROVE  Then(Then(p, Exchanged(l, i, m, j)), q) =
           Exchanged(Then(Then(p, l), q), Len(p) + i, m, Len(p) + j)
<1> DEFINE x == SubSeq(l, 1, i)
           y == SubSeq(l, j + 1, Len(l))
           x2 == SubSeq(l, i + 1, Len(l))
           y2 == SubSeq(l, 1, j)
           t == Then(Then(p, l), q)
<1>1. Len(l) \in Nat /\ Len(p) \in Nat /\ j \in 0..Len(l) /\ i \in i..Len(l) /\ j \in j..Len(l)
  BY LenProperties
<1>2. /\ x \in Seq(S) /\ Len(x) = i /\ x2 \in Seq(S)
      /\ y \in Seq(S) /\ y2 \in Seq(S) /\ Len(y2) = j
  BY <1>1, CutOut
<1>3. l = Then(x, x2) /\ l = Then(y2, y)
  BY <1>1, TwoHalves DEF Then
<1>4. Exchanged(l, i, m, j) = Then(Then(x, m), y)
  BY DEF Exchanged, Then
<1> HIDE DEF x, y, x2, y2
<1>5. /\ Then(p, x) \in Seq(S) /\ Then(x2, q) \in Seq(S)
      /\ Then(p, y2) \in Seq(S) /\ Then(y, q) \in Seq(S)
      /\ Len(Then(p, x)) = Len(p) + i /\ Len(Then(p, y2)) = Len(p) + j
  BY <1>2, ThenType
<1>6. t = Then(Then(p, x), Then(x2, q)) /\ t = Then(Then(p, y2), Then(y, q))
  <2>1. Then(Then(p, Then(x, x2)), q) = Then(Then(p, x), Then(x2, q))
    BY <1>2, Regrouped
  <2>2. Then(Then(p, Then(y2, y)), q) = Then(Then(p, y2), Then(y, q))
    BY <1>2, Regrouped
  <2> QED
    BY <1>3, <2>1, <2>2
<1> HIDE DEF t
<1>7. SubSeq(t, 1, Len(p) + i) = Then(p, x)
  BY <1>5, <1>6, ThenHalves
<1>8. SubSeq(t, (Len(p) + j) + 1, Len(t)) = Then(y, q)
  <2> DEFINE u == Then(p, y2)
             v == Then(y, q)
  <2>1. u \in Seq(S) /\ v \in Seq(S) /\ t = Then(u, v) /\ Len(u) = Len(p) + j
    BY <1>5, <1>6
  <2> HIDE DEF u, v
  <2>2. SubSeq(Then(u, v), Len(u) + 1, Len(Then(u, v))) = v
    BY <2>1, ThenHalves
  <2> QED
    BY <2>1, <2>2 DEF v
<1>9. Exchanged(t, Len(p) + i, m, Len(p) + j) = Then(Then(Then(p, x), m), Then(y, q))
  BY <1>7, <1>8 DEF Exchanged, Then
<1> QED
  BY <1>2, <1>4, <1>9, RegroupedAround DEF t

\* The lines with some of them put back.
LEMMA PutBack ==
  ASSUME NEW S, NEW s \in Seq(S), NEW i \in 0..Len(s), NEW j \in i..Len(s)
  PROVE  /\ Exchanged(s, i, SubSeq(s, i + 1, j), j) = s
         /\ SubSeq(s, i + 1, j) \in Seq(S) /\ Len(SubSeq(s, i + 1, j)) = j - i
<1> DEFINE m == SubSeq(s, i + 1, j)
           e == Exchanged(s, i, m, j)
<1>1. Len(s) \in Nat
  BY LenProperties
<1>2. \A k \in 1..Len(s) : s[k] \in S
  BY ElementOfSeq
<1>3. Len(m) = j - i /\ \A k \in 1..(j - i) : m[k] = s[i + k]
  BY <1>1
<1>4. m \in Seq(S)
  <2>1. \A k \in (i + 1)..j : s[k] \in S
    BY <1>1, <1>2
  <2> QED
    BY <1>1, <2>1
<1> HIDE DEF m
<1>5. /\ e \in Seq(S) /\ Len(e) = i + Len(m) + (Len(s) - j) /\ Laid(e, s, i, m, j)
  BY <1>4, Exchange
<1> HIDE DEF e
<1>6. Len(e) = Len(s)
  BY <1>1, <1>3, <1>5
<1>7. ASSUME NEW k \in 1..Len(s) PROVE e[k] = s[k]
  <2>1. /\ k \in 1..(i + Len(m) + (Len(s) - j)) /\ i + Len(m) = j
    BY <1>1, <1>3
  <2>2. e[k] = IF k <= i THEN s[k] ELSE IF k <= j THEN m[k - i] ELSE s[j + (k - j)]
    BY <1>5, <2>1 DEF Laid
  <2>3. k > i /\ k <= j => k - i \in 1..(j - i) /\ i + (k - i) = k
    BY <1>1
  <2>4. j + (k - j) = k
    BY <1>1
  <2> QED
    BY <1>1, <1>3, <2>2, <2>3, <2>4
<1> QED
  BY <1>3, <1>4, <1>5, <1>6, <1>7, SeqEqual DEF e, m

LEMMA TextAround ==
  ASSUME NEW S, Break \in S, NEW lines \in LinesOf(S), NEW i \in 0..Len(lines),
         NEW j \in i..Len(lines), j > i
  PROVE  /\ SubSeq(lines, i + 1, j) \in LinesOf(S)
         /\ Text!Join(lines) = Pre(lines, i) \o Text!Join(SubSeq(lines, i + 1, j)) \o Rear(lines, j)
<1>1. lines \in Seq(Seq(S)) /\ Len(lines) \in Nat
  BY LinesAre
<1> DEFINE m == SubSeq(lines, i + 1, j)
<1>2. Exchanged(lines, i, m, j) = lines /\ m \in Seq(Seq(S)) /\ Len(m) = j - i
  BY <1>1, PutBack
<1> HIDE DEF m
<1>3. m \in LinesOf(S)
  <2>1. Len(m) # 0
    BY <1>1, <1>2
  <2> QED
    BY <1>2, <2>1, EmptySeq DEF LinesOf
<1>4. Text!Join(Exchanged(lines, i, m, j)) = Pre(lines, i) \o Text!Join(m) \o Rear(lines, j)
  BY <1>3, JoinExchanged
<1> QED
  BY <1>2, <1>3, <1>4 DEF m

\* An exchange of lines is one of text, where the text of the new ones is.
LEMMA TextExchanged ==
  ASSUME NEW S, Break \in S, NEW lines \in LinesOf(S), NEW i \in 0..Len(lines),
         NEW j \in i..Len(lines), j > i, NEW m \in LinesOf(S), NEW x \in Seq(S),
         NEW a \in 0..Len(Text!Join(SubSeq(lines, i + 1, j))),
         NEW b \in a..Len(Text!Join(SubSeq(lines, i + 1, j))),
         Text!Join(m) = Exchanged(Text!Join(SubSeq(lines, i + 1, j)), a, x, b)
  PROVE  Text!Join(Exchanged(lines, i, m, j)) =
           Exchanged(Text!Join(lines), Len(Pre(lines, i)) + a, x, Len(Pre(lines, i)) + b)
<1> DEFINE l == Text!Join(SubSeq(lines, i + 1, j))
           p == Pre(lines, i)
           q == Rear(lines, j)
<1>1. l \in Seq(S)
  BY TextAround, JoinType
<1>2. j \in 0..Len(lines)
  BY LinesAre
<1>3. p \in Seq(S) /\ q \in Seq(S)
  BY <1>2, PrePost
<1>4. Text!Join(lines) = p \o l \o q
  BY TextAround
<1>5. Text!Join(Exchanged(lines, i, m, j)) = p \o Exchanged(l, a, x, b) \o q
  BY JoinExchanged
<1> HIDE DEF l, p, q
<1>6. a \in 0..Len(l) /\ b \in a..Len(l)
  BY DEF l
<1> DEFINE e == Exchanged(l, a, x, b)
<1>7. Then(Then(p, e), q) = Exchanged(Then(Then(p, l), q), Len(p) + a, x, Len(p) + b)
  BY <1>1, <1>3, <1>6, Inside
<1>8. Text!Join(Exchanged(lines, i, m, j)) = Then(Then(p, e), q)
  BY <1>5 DEF Then
<1>9. Text!Join(lines) = Then(Then(p, l), q)
  BY <1>4 DEF Then
<1> QED
  BY <1>7, <1>8, <1>9 DEF p

\* The place in the new lines.
LEMMA OffExchanged ==
  ASSUME NEW S, Break \in S, NEW lines \in LinesOf(S), NEW i \in 0..Len(lines),
         NEW j \in i..Len(lines), NEW m \in LinesOf(S), NEW r \in 1..Len(m),
         NEW k, k = i + r
  PROVE  /\ Exchanged(lines, i, m, j)[k] = m[r]
         /\ Text!Join(SubSeq(Exchanged(lines, i, m, j), 1, k)) =
              Then(Pre(lines, i), Text!Join(SubSeq(m, 1, r)))
<1> DEFINE e == Exchanged(lines, i, m, j)
           n == SubSeq(m, 1, r)
           h == SubSeq(e, 1, i + r)
           f == Exchanged(lines, i, n, Len(lines))
<1>1. /\ lines \in Seq(Seq(S)) /\ Len(lines) \in Nat \ {0}
      /\ m \in Seq(Seq(S)) /\ Len(m) \in Nat \ {0}
  BY LinesAre
<1>2. n \in Seq(Seq(S)) /\ Len(n) = r /\ \A g \in 1..r : n[g] = m[g]
  <2>1. r \in 0..Len(m) /\ Len(m) \in r..Len(m)
    BY <1>1
  <2> QED
    BY <1>1, <2>1, CutOut
<1> HIDE DEF n
<1>3. n \in LinesOf(S)
  <2>1. Len(n) # 0
    BY <1>2
  <2> QED
    BY <1>2, <2>1, EmptySeq DEF LinesOf
<1>4. e \in Seq(Seq(S)) /\ Len(e) = i + Len(m) + (Len(lines) - j) /\ Laid(e, lines, i, m, j)
  BY <1>1, Exchange
<1>5. f \in Seq(Seq(S)) /\ Len(f) = i + Len(n) + (Len(lines) - Len(lines)) /\ Laid(f, lines, i, n, Len(lines))
  <2>1. Len(lines) \in i..Len(lines)
    BY <1>1
  <2> QED
    BY <1>1, <1>2, <2>1, Exchange
<1> HIDE DEF e, f
<1>6. i + r \in 0..Len(e) /\ Len(e) \in (i + r)..Len(e)
  BY <1>1, <1>4
<1>7. h \in Seq(Seq(S)) /\ Len(h) = i + r
  BY <1>4, <1>6, CutOut
<1>8. \A g \in 1..(i + r) : h[g] = e[g]
  BY <1>4, <1>6
<1> HIDE DEF h
<1>9. Len(f) = i + r
  BY <1>1, <1>2, <1>5
<1>10. ASSUME NEW g \in 1..(i + r) PROVE h[g] = f[g] /\ (g = i + r => e[g] = m[r])
  <2>1. g \in 1..(i + Len(m) + (Len(lines) - j)) /\ g \in 1..(i + Len(n) + (Len(lines) - Len(lines)))
    BY <1>1, <1>2
  <2>2. e[g] = IF g <= i THEN lines[g] ELSE m[g - i]
    <3>1. g <= i + Len(m)
      BY <1>1
    <3> QED
      BY <1>4, <2>1, <3>1 DEF Laid
  <2>3. f[g] = IF g <= i THEN lines[g] ELSE n[g - i]
    <3>1. g <= i + Len(n)
      BY <1>1, <1>2
    <3> QED
      BY <1>5, <2>1, <3>1 DEF Laid
  <2>4. ~(g <= i) => g - i \in 1..r
    BY <1>1
  <2>5. g = i + r => ~(g <= i) /\ g - i = r
    BY <1>1
  <2> QED
    BY <1>2, <1>8, <2>2, <2>3, <2>4, <2>5
<1>11. h = f
  BY <1>5, <1>7, <1>9, <1>10, SeqEqual
<1>12. Text!Join(f) = Pre(lines, i) \o Text!Join(n)
  <2> DEFINE p == Pre(lines, i)
             t == Text!Join(n)
  <2>1. p \in Seq(S) /\ t \in Seq(S)
    BY <1>3, PrePost, JoinType
  <2>2. Len(lines) \in i..Len(lines)
    BY <1>1
  <2>3. Text!Join(f) = p \o t \o Rear(lines, Len(lines))
    BY <1>3, <2>2, JoinExchanged DEF f
  <2> HIDE DEF p, t
  <2>4. (p \o t) \o <<>> = p \o t
    BY <2>1, ConcatProperties
  <2> QED
    BY <2>3, <2>4 DEF Rear, p, t
<1>13. i + r \in 1..(i + r)
  BY <1>1
<1>14. e[i + r] = m[r]
  BY <1>10, <1>13
<1> QED
  BY <1>11, <1>12, <1>14 DEF h, e, n, Then

(***************************************************************************)
(* Breaks are where lines end.                                             *)
(***************************************************************************)
\* Where line r ends, and that line r + 1 starts after a break.
SpanEnd(lines, r) == Len(Text!Join(SubSeq(lines, 1, r)))
Edge(lines, r)  == IF r = 0 THEN 0 ELSE SpanEnd(lines, r) + 1

LEMMA PreLen ==
  ASSUME NEW S, Break \in S, NEW lines \in LinesOf(S), NEW i \in 0..Len(lines)
  PROVE  /\ Len(Pre(lines, i)) = Edge(lines, i) /\ Edge(lines, i) \in Nat
         /\ (i # 0 => SpanEnd(lines, i) \in Nat)
<1>1. i # 0 => Text!Join(SubSeq(lines, 1, i)) \in Seq(S)
  BY PrePost
<1>2. CASE i = 0
  BY <1>2, EmptySeq DEF Pre, Edge
<1>3. CASE i # 0
  <2> DEFINE t == Text!Join(SubSeq(lines, 1, i))
             br == <<Break>>
  <2>1. t \in Seq(S) /\ br \in Seq(S) /\ Len(br) = 1
    BY <1>1, <1>3
  <2>2. Pre(lines, i) = Then(t, br)
    BY <1>3 DEF Pre, Then
  <2> HIDE DEF t, br
  <2>3. Len(Then(t, br)) = Len(t) + 1 /\ Len(t) \in Nat
    BY <2>1, ThenType, LenProperties
  <2> QED
    BY <1>3, <2>2, <2>3 DEF Edge, SpanEnd, t
<1> QED
  BY <1>2, <1>3

\* From one line to a later one.
LEMMA EndFrom ==
  ASSUME NEW S, Break \in S, NEW lines \in LinesOf(S), NEW i \in 0..Len(lines),
         NEW j \in i..Len(lines), j > i
  PROVE  /\ SpanEnd(lines, j) = Edge(lines, i) + Len(Text!Join(SubSeq(lines, i + 1, j)))
         /\ Len(Text!Join(SubSeq(lines, i + 1, j))) \in Nat
<1> DEFINE m == SubSeq(lines, i + 1, j)
           q == j - i
<1>1. lines \in Seq(Seq(S)) /\ Len(lines) \in Nat
  BY LinesAre
<1>2. m \in LinesOf(S)
  BY TextAround
<1>3. m \in Seq(Seq(S)) /\ Len(m) = q /\ Exchanged(lines, i, m, j) = lines
  BY <1>1, PutBack
<1> HIDE DEF m
<1>4. q \in 1..Len(m) /\ i + q = j
  BY <1>1, <1>3
<1>5. SubSeq(m, 1, q) = m
  BY <1>3
<1> HIDE DEF q
<1>6. Text!Join(SubSeq(Exchanged(lines, i, m, j), 1, j)) =
        Then(Pre(lines, i), Text!Join(SubSeq(m, 1, q)))
  BY <1>2, <1>4, OffExchanged
<1>7. Text!Join(SubSeq(lines, 1, j)) = Then(Pre(lines, i), Text!Join(m))
  BY <1>3, <1>5, <1>6
<1>8. Pre(lines, i) \in Seq(S) /\ Text!Join(m) \in Seq(S)
  BY <1>2, PrePost, JoinType
<1>9. Len(Then(Pre(lines, i), Text!Join(m))) = Len(Pre(lines, i)) + Len(Text!Join(m))
  BY <1>8, ThenType
<1>10. Len(Pre(lines, i)) = Edge(lines, i)
  BY PreLen
<1>11. Len(Text!Join(m)) \in Nat
  BY <1>8, LenProperties
<1> QED
  BY <1>7, <1>9, <1>10, <1>11 DEF m, SpanEnd

LEMMA OneCut ==
  ASSUME NEW S, NEW s \in Seq(S), NEW i \in 1..Len(s)
  PROVE  SubSeq(s, i, i) = <<s[i]>>
<1> DEFINE a == SubSeq(s, i, i)
           b == <<s[i]>>
<1>1. Len(s) \in Nat /\ s[i] \in S
  BY LenProperties, ElementOfSeq
<1>2. a \in Seq(S) /\ Len(a) = 1 /\ a[1] = s[i]
  <2>1. i - 1 \in 0..Len(s) /\ i \in (i - 1)..Len(s) /\ (i - 1) + 1 = i /\ i - (i - 1) = 1
    BY <1>1
  <2>2. a \in Seq(S) /\ Len(a) = 1
    BY <2>1, PutBack
  <2>3. a[1] = s[i]
    BY <1>1
  <2> QED
    BY <2>2, <2>3
<1>3. b \in Seq(S) /\ Len(b) = 1 /\ b[1] = s[i]
  BY <1>1
<1> HIDE DEF a, b
<1>4. a = b
  BY <1>2, <1>3, SeqEqual
<1> QED
  BY <1>4 DEF a, b

LEMMA PlaceIs ==
  ASSUME NEW S, Break \in S, NEW lines \in LinesOf(S), NEW r \in 1..Len(lines),
         NEW c \in 0..Len(lines[r])
  PROVE  /\ PlaceAt(lines, r, c) = Edge(lines, r - 1) + c
         /\ SpanEnd(lines, r) = Edge(lines, r - 1) + Len(lines[r])
         /\ Edge(lines, r - 1) \in Nat /\ Len(lines[r]) \in Nat /\ SpanEnd(lines, r) \in Nat
<1> DEFINE i == r - 1
<1>1. lines \in Seq(Seq(S)) /\ Len(lines) \in Nat /\ lines[r] \in Seq(S) /\ Len(lines[r]) \in Nat
  BY LinesAre, LenProperties
<1>2. i \in 0..Len(lines) /\ r \in i..Len(lines) /\ r > i /\ i + 1 = r
  BY <1>1
<1> HIDE DEF i
<1>3. SpanEnd(lines, r) = Edge(lines, i) + Len(Text!Join(SubSeq(lines, i + 1, r)))
  BY <1>2, EndFrom
<1>4. SubSeq(lines, i + 1, r) = <<lines[r]>>
  BY <1>1, <1>2, OneCut
<1>5. Text!Join(<<lines[r]>>) = lines[r]
  BY <1>1, JoinOne
<1>6. SpanEnd(lines, r) = Edge(lines, i) + Len(lines[r])
  BY <1>3, <1>4, <1>5
<1>7. Edge(lines, i) \in Nat
  BY <1>2, PreLen
<1>8. PlaceAt(lines, r, c) = SpanEnd(lines, r) - Len(lines[r]) + c
  BY DEF PlaceAt, SpanEnd
<1>9. PlaceAt(lines, r, c) = Edge(lines, i) + c /\ SpanEnd(lines, r) \in Nat
  BY <1>1, <1>6, <1>7, <1>8
<1> QED
  BY <1>1, <1>6, <1>7, <1>9 DEF i

LEMMA EndsGrow ==
  ASSUME NEW S, Break \in S, NEW lines \in LinesOf(S), NEW i \in 1..Len(lines),
         NEW j \in 1..Len(lines), i < j
  PROVE  SpanEnd(lines, i) + 1 <= SpanEnd(lines, j)
<1>1. Len(lines) \in Nat
  BY LinesAre
<1>2. i \in 0..Len(lines) /\ j \in i..Len(lines) /\ j > i /\ i # 0
  BY <1>1
<1>3. /\ SpanEnd(lines, j) = Edge(lines, i) + Len(Text!Join(SubSeq(lines, i + 1, j)))
      /\ Len(Text!Join(SubSeq(lines, i + 1, j))) \in Nat
  BY <1>2, EndFrom
<1>4. Edge(lines, i) = SpanEnd(lines, i) + 1 /\ SpanEnd(lines, i) \in Nat
  BY <1>2, PreLen DEF Edge
<1> QED
  BY <1>3, <1>4

LEMMA WholeText ==
  ASSUME NEW S, Break \in S, NEW lines \in LinesOf(S)
  PROVE  SpanEnd(lines, Len(lines)) = Len(Text!Join(lines))
<1>1. lines \in Seq(Seq(S))
  BY LinesAre
<1>2. SubSeq(lines, 1, Len(lines)) = lines
  BY <1>1
<1> QED
  BY <1>2 DEF SpanEnd

\* Every break ends a line that is not the last one.
Spots(x) == \A k \in 1..Len(Text!Join(x)) :
              Text!Join(x)[k] = Break => \E r \in 1..(Len(x) - 1) : k = SpanEnd(x, r) + 1

LEMMA BreaksEndLines ==
  ASSUME NEW S, Break \notin S, NEW lines \in LinesOf(S)
  PROVE  Spots(lines)
<1> DEFINE C == S \cup {Break}
           H == {x \in Seq(Seq(S)) : x # <<>> => Spots(x)}
<1>0. /\ \A l \in Seq(S) : l \in Seq(C)
      /\ \A x \in Seq(Seq(S)) : x \in Seq(Seq(C))
      /\ Break \in C
  <2>1. \A l \in Seq(S) : l \in Seq(C)
    OBVIOUS
  <2> HIDE DEF C
  <2>2. \A x \in Seq(Seq(S)) : x \in Seq(Seq(C))
    BY <2>1
  <2> QED
    BY <2>1, <2>2 DEF C
<1> HIDE DEF C
<1>1. <<>> \in H
  BY EmptySeq
<1>2. ASSUME NEW x \in Seq(Seq(S)), NEW l \in Seq(S), x \in H PROVE Append(x, l) \in H
  <2> DEFINE y == Append(x, l)
  <2>0. y \in Seq(Seq(S)) /\ Len(y) = Len(x) + 1 /\ Len(x) \in Nat /\ \A r \in 1..Len(x) : y[r] = x[r]
    BY AppendProperties, LenProperties
  <2>00. \A k \in 1..Len(l) : l[k] # Break
    BY ElementOfSeq
  <2>1. CASE x = <<>>
    <3>1. y = <<l>>
      BY <2>1
    <3>2. Text!Join(<<l>>) = l
      BY <1>0, JoinOne
    <3>3. Spots(y)
      <4> HIDE DEF y
      <4> QED
        BY <2>00, <3>1, <3>2 DEF Spots
    <3> QED
      BY <2>0, <3>3
  <2>2. CASE x # <<>>
    <3> DEFINE t == Text!Join(x)
               br == <<Break>>
               u == t \o br
               v == u \o l
    <3>1. x \in LinesOf(C) /\ Spots(x)
      BY <1>0, <1>2, <2>2 DEF LinesOf
    <3>2. t \in Seq(C) /\ br \in Seq(C) /\ Len(br) = 1 /\ br[1] = Break /\ l \in Seq(C) /\ Len(t) \in Nat
      BY <1>0, <3>1, JoinType, LenProperties
    <3>3. Text!Join(y) = v
      BY <1>0, <3>1, JoinMore
    <3> HIDE DEF t, br
    <3>4. /\ u \in Seq(C) /\ Len(u) = Len(t) + 1
          /\ \A k \in 1..(Len(t) + 1) : u[k] = IF k <= Len(t) THEN t[k] ELSE br[k - Len(t)]
      BY <3>2, Concatenated
    <3> HIDE DEF u
    <3>5. /\ Len(v) = Len(u) + Len(l) /\ Len(l) \in Nat
          /\ \A k \in 1..(Len(u) + Len(l)) : v[k] = IF k <= Len(u) THEN u[k] ELSE l[k - Len(u)]
      BY <3>2, <3>4, Concatenated, LenProperties
    <3> HIDE DEF v
    <3>6. ASSUME NEW r \in 1..Len(x) PROVE SpanEnd(y, r) = SpanEnd(x, r)
      <4>1. SubSeq(y, 1, r) = SubSeq(x, 1, r)
        <5> DEFINE a == SubSeq(y, 1, r)
                   b == SubSeq(x, 1, r)
        <5>1. r \in 0..Len(y) /\ r \in 0..Len(x) /\ Len(x) \in r..Len(x) /\ Len(y) \in r..Len(y)
          BY <2>0
        <5> HIDE DEF y
        <5>2. a \in Seq(Seq(S)) /\ b \in Seq(Seq(S)) /\ Len(a) = r /\ Len(b) = r
          BY <2>0, <5>1, CutOut
        <5>3. \A k \in 1..r : a[k] = y[k] /\ b[k] = x[k]
          BY <2>0, <5>1
        <5>4. \A k \in 1..r : y[k] = x[k]
          BY <2>0
        <5> HIDE DEF a, b
        <5>5. a = b
          BY <5>2, <5>3, <5>4, SeqEqual
        <5> QED
          BY <5>5 DEF a, b
      <4> QED
        BY <4>1 DEF SpanEnd
    <3>7. ASSUME NEW k \in 1..Len(v), v[k] = Break
          PROVE  \E r \in 1..Len(x) : k = SpanEnd(y, r) + 1
      <4>1. CASE k <= Len(t)
        <5>1. k \in 1..Len(t) /\ t[k] = Break
          BY <3>2, <3>4, <3>5, <3>7, <4>1
        <5>2. PICK r \in 1..(Len(x) - 1) : k = SpanEnd(x, r) + 1
          BY <3>1, <5>1 DEF Spots, t
        <5>3. r \in 1..Len(x)
          BY <2>0
        <5> QED
          BY <3>6, <5>2, <5>3
      <4>2. CASE k = Len(t) + 1
        <5>1. Len(x) \in 1..Len(x)
          BY <1>0, <3>1, LinesAre
        <5>2. SpanEnd(x, Len(x)) = Len(t)
          BY <1>0, <3>1, WholeText DEF t
        <5> QED
          BY <3>6, <4>2, <5>1, <5>2
      <4>3. CASE k > Len(t) + 1
        <5>1. k - Len(u) \in 1..Len(l) /\ ~(k <= Len(u)) /\ k \in 1..(Len(u) + Len(l))
          BY <3>2, <3>4, <3>5, <4>3
        <5>2. v[k] = l[k - Len(u)]
          BY <3>5, <5>1
        <5> QED
          BY <2>00, <3>7, <5>1, <5>2
      <4> QED
        BY <3>2, <3>4, <3>5, <4>1, <4>2, <4>3
    <3>8. Spots(y)
      <4>1. Len(y) - 1 = Len(x)
        BY <2>0
      <4> HIDE DEF y
      <4> QED
        BY <3>3, <3>7, <4>1 DEF Spots
    <3> HIDE DEF y
    <3> QED
      BY <2>0, <3>8 DEF y
  <2> QED
    BY <2>1, <2>2
<1>3. Seq(Seq(S)) \subseteq H
  <2> HIDE DEF H
  <2> QED
    BY <1>1, <1>2, Appending
<1> QED
  BY <1>3 DEF LinesOf

\* How many breaks there are between two places of a text.
Spanned(t, i, j) == Cardinality({k \in (i + 1)..j : t[k] = Break})

LEMMA Widened ==
  ASSUME NEW S, NEW lines \in LinesOf(S)
  PROVE  lines \in LinesOf(S \cup {Break}) /\ Break \in S \cup {Break}
<1> DEFINE C == S \cup {Break}
<1>1. \A l \in Seq(S) : l \in Seq(C)
  OBVIOUS
<1>2. Break \in C
  OBVIOUS
<1> HIDE DEF C
<1>3. lines \in Seq(Seq(C))
  BY <1>1 DEF LinesOf
<1> QED
  BY <1>2, <1>3 DEF LinesOf, C

LEMMA PlaceInText ==
  ASSUME NEW S, Break \in S, NEW lines \in LinesOf(S), NEW r \in 1..Len(lines),
         NEW c \in 0..Len(lines[r])
  PROVE  /\ PlaceAt(lines, r, c) \in Nat /\ PlaceAt(lines, r, c) <= SpanEnd(lines, r)
         /\ Edge(lines, r - 1) <= PlaceAt(lines, r, c)
         /\ SpanEnd(lines, r) \in Nat /\ SpanEnd(lines, r) <= Len(Text!Join(lines))
         /\ Len(Text!Join(lines)) \in Nat
<1>1. /\ PlaceAt(lines, r, c) = Edge(lines, r - 1) + c
      /\ SpanEnd(lines, r) = Edge(lines, r - 1) + Len(lines[r])
      /\ Edge(lines, r - 1) \in Nat /\ Len(lines[r]) \in Nat
  BY PlaceIs
<1>2. Len(lines) \in Nat \ {0} /\ Len(Text!Join(lines)) \in Nat
  BY LinesAre, JoinType, LenProperties
<1>3. SpanEnd(lines, Len(lines)) = Len(Text!Join(lines))
  BY WholeText
<1>4. SpanEnd(lines, r) \in Nat /\ SpanEnd(lines, r) <= Len(Text!Join(lines))
  <2>1. CASE r = Len(lines)
    BY <1>1, <1>2, <1>3, <2>1
  <2>2. CASE r # Len(lines)
    <3>1. Len(lines) \in 1..Len(lines) /\ r < Len(lines)
      BY <1>2, <2>2
    <3>2. SpanEnd(lines, r) + 1 <= SpanEnd(lines, Len(lines))
      BY <3>1, EndsGrow
    <3> QED
      BY <1>1, <1>2, <1>3, <3>2
  <2> QED
    BY <2>1, <2>2
<1> QED
  BY <1>1, <1>2, <1>4

\* Between two places there are no more breaks than rows.
LEMMA SpanBound ==
  ASSUME NEW S, Break \notin S, NEW lines \in LinesOf(S),
         NEW r \in 1..Len(lines), NEW c \in 0..Len(lines[r]),
         NEW q \in 1..Len(lines), NEW d \in 0..Len(lines[q])
  PROVE  LET n == Spanned(Text!Join(lines), PlaceAt(lines, r, c), PlaceAt(lines, q, d))
         IN  n \in Nat /\ (q <= r => n = 0) /\ (r <= q => n <= q - r)
<1> DEFINE t == Text!Join(lines)
           a == PlaceAt(lines, r, c)
           b == PlaceAt(lines, q, d)
           K == {k \in (a + 1)..b : t[k] = Break}
           E == {SpanEnd(lines, e) + 1 : e \in r..(q - 1)}
           C == S \cup {Break}
<1>1. lines \in LinesOf(C) /\ Break \in C
  BY Widened
<1> HIDE DEF C
<1>2. Len(lines) \in Nat /\ r \in Nat /\ q \in Nat /\ r >= 1 /\ q >= 1
  BY LinesAre
<1>3. /\ a \in Nat /\ b \in Nat /\ Len(t) \in Nat /\ b <= Len(t)
      /\ b <= SpanEnd(lines, q) /\ SpanEnd(lines, q) \in Nat
      /\ Edge(lines, r - 1) <= a
  BY <1>1, PlaceInText
<1> HIDE DEF a, b
<1>4. K \subseteq E
  <2> SUFFICES ASSUME NEW k \in (a + 1)..b, t[k] = Break PROVE k \in E
    OBVIOUS
  <2>1. k \in 1..Len(t)
    BY <1>3
  <2>2. PICK e \in 1..(Len(lines) - 1) : k = SpanEnd(lines, e) + 1
    BY <2>1, BreaksEndLines DEF Spots
  <2>3. e \in 1..Len(lines) /\ e \in 0..Len(lines) /\ e # 0
    BY <1>2
  <2>4. SpanEnd(lines, e) \in Nat
    BY <1>1, <2>3, PreLen
  <2>5. e >= r
    <3>1. CASE e < r
      <4>1. r - 1 \in 1..Len(lines) /\ r - 1 # 0
        BY <1>2, <2>3, <3>1
      <4>2. SpanEnd(lines, e) <= SpanEnd(lines, r - 1) /\ SpanEnd(lines, r - 1) \in Nat
        <5>1. r - 1 \in 0..Len(lines)
          BY <4>1
        <5>2. SpanEnd(lines, r - 1) \in Nat
          BY <1>1, <4>1, <5>1, PreLen
        <5>3. CASE e = r - 1
          BY <5>2, <5>3
        <5>4. CASE e # r - 1
          <6>1. e < r - 1
            BY <1>2, <2>3, <3>1, <5>4
          <6>2. SpanEnd(lines, e) + 1 <= SpanEnd(lines, r - 1)
            BY <1>1, <2>3, <4>1, <6>1, EndsGrow
          <6> QED
            BY <2>4, <5>2, <6>2
        <5> QED
          BY <5>3, <5>4
      <4>3. Edge(lines, r - 1) = SpanEnd(lines, r - 1) + 1
        BY <4>1 DEF Edge
      <4> QED
        BY <1>3, <2>2, <2>4, <4>2, <4>3
    <3> QED
      BY <1>2, <2>3, <3>1
  <2>6. e < q
    <3>1. CASE e = q
      BY <1>3, <2>2, <2>4, <3>1
    <3>2. CASE e > q
      <4>1. SpanEnd(lines, q) + 1 <= SpanEnd(lines, e)
        BY <1>1, <2>3, <3>2, EndsGrow
      <4> QED
        BY <1>3, <2>2, <2>4, <4>1
    <3> QED
      BY <1>2, <2>3, <3>1, <3>2
  <2> QED
    BY <1>2, <2>2, <2>3, <2>5, <2>6
<1>5. /\ IsFiniteSet(r..(q - 1))
      /\ Cardinality(r..(q - 1)) = IF r > q - 1 THEN 0 ELSE (q - 1) - r + 1
  <2>1. r \in Int /\ q - 1 \in Int
    BY <1>2
  <2> QED
    BY <2>1, FS_Interval
<1>6. IsFiniteSet(E) /\ Cardinality(E) <= Cardinality(r..(q - 1))
  <2> DEFINE D == r..(q - 1)
             f == [e \in D |-> SpanEnd(lines, e) + 1]
  <2>1. f \in Surjection(D, E)
    <3>1. f \in [D -> E] /\ \A x \in E : \E e \in D : f[e] = x
      <4> HIDE DEF D
      <4> QED
        BY DEF D
    <3> HIDE DEF f, D, E
    <3> QED
      BY <3>1 DEF Surjection
  <2> HIDE DEF f, E
  <2> QED
    BY <1>5, <2>1, FS_Surjection
<1>7. IsFiniteSet(K) /\ Cardinality(K) <= Cardinality(E)
  BY <1>4, <1>6, FS_Subset
<1>8. Cardinality(K) \in Nat /\ Cardinality(E) \in Nat
  BY <1>6, <1>7, FS_CardinalityType
<1> DEFINE n == Spanned(t, a, b)
<1>9. n = Cardinality(K)
  BY DEF Spanned
<1> HIDE DEF n, K, E, t
<1>10. n \in Nat /\ (q <= r => n = 0) /\ (r <= q => n <= q - r)
  BY <1>2, <1>5, <1>6, <1>7, <1>8, <1>9
<1> QED
  BY <1>10 DEF n, a, b, t

\* Where a line ends there is a break.
LEMMA BreakThere ==
  ASSUME NEW S, Break \in S, NEW lines \in LinesOf(S), NEW r \in 1..(Len(lines) - 1)
  PROVE  /\ SpanEnd(lines, r) + 1 \in 1..Len(Text!Join(lines))
         /\ Text!Join(lines)[SpanEnd(lines, r) + 1] = Break
         /\ Edge(lines, r) = SpanEnd(lines, r) + 1
<1> DEFINE t == Text!Join(SubSeq(lines, 1, r))
           br == <<Break>>
           n == Len(lines)
           rest == Text!Join(SubSeq(lines, r + 1, n))
<1>1. n \in Nat /\ r \in Nat /\ r >= 1 /\ r < n /\ r \in 0..n /\ n \in r..n /\ n > r /\ r # 0
  BY LinesAre
<1>2. Text!Join(lines) = Pre(lines, r) \o rest \o Rear(lines, n)
  BY <1>1, TextAround
<1>3. Pre(lines, r) = t \o br /\ Rear(lines, n) = <<>>
  BY <1>1 DEF Pre, Rear
<1>4. t \in Seq(S) /\ rest \in Seq(S)
  BY <1>1, PrePost
<1>5. br \in Seq(S) /\ Len(br) = 1 /\ br[1] = Break
  OBVIOUS
<1>6. SpanEnd(lines, r) = Len(t)
  BY DEF SpanEnd
<1> HIDE DEF t, rest, br, n
<1> DEFINE u == Then(t, br)
           v == Then(u, rest)
<1>7. Text!Join(lines) = v
  <2>1. u \in Seq(S)
    BY <1>4, <1>5, ThenType
  <2>2. v \in Seq(S)
    BY <1>4, <2>1, ThenType
  <2>3. v \o <<>> = v
    BY <2>2
  <2> QED
    BY <1>2, <1>3, <2>3 DEF Then
<1>8. /\ u \in Seq(S) /\ Len(u) = Len(t) + 1 /\ Len(t) \in Nat
      /\ u[Len(t) + 1] = Break
  <2>1. /\ t \o br \in Seq(S) /\ Len(t \o br) = Len(t) + Len(br) /\ Len(t) \in Nat
        /\ \A i \in 1..(Len(t) + Len(br)) : (t \o br)[i] = IF i <= Len(t) THEN t[i] ELSE br[i - Len(t)]
    BY <1>4, <1>5, Concatenated, LenProperties
  <2> DEFINE w == t \o br
  <2> HIDE DEF w
  <2>2. /\ w \in Seq(S) /\ Len(w) = Len(t) + 1 /\ Len(t) \in Nat
        /\ \A i \in 1..(Len(t) + 1) : w[i] = IF i <= Len(t) THEN t[i] ELSE br[i - Len(t)]
    BY <1>5, <2>1 DEF w
  <2>3. Len(t) + 1 \in 1..(Len(t) + 1) /\ ~(Len(t) + 1 <= Len(t)) /\ (Len(t) + 1) - Len(t) = 1
    BY <2>2
  <2>4. w[Len(t) + 1] = Break
    BY <1>5, <2>2, <2>3
  <2> QED
    BY <2>2, <2>4 DEF Then, w
<1> HIDE DEF u
<1>9. Len(v) = Len(u) + Len(rest) /\ Len(rest) \in Nat /\ v[Len(u)] = u[Len(u)]
  <2> DEFINE w == u \o rest
  <2>1. /\ Len(w) = Len(u) + Len(rest) /\ Len(rest) \in Nat
        /\ \A i \in 1..(Len(u) + Len(rest)) : w[i] = IF i <= Len(u) THEN u[i] ELSE rest[i - Len(u)]
    BY <1>4, <1>8, Concatenated, LenProperties
  <2> HIDE DEF w
  <2>2. Len(u) \in 1..(Len(u) + Len(rest)) /\ Len(u) <= Len(u)
    BY <1>8, <2>1
  <2>3. w[Len(u)] = u[Len(u)]
    BY <2>1, <2>2
  <2> QED
    BY <2>1, <2>3 DEF w, Then
<1> HIDE DEF v
<1> QED
  BY <1>1, <1>6, <1>7, <1>8, <1>9 DEF Edge

(***************************************************************************)
(* What is done to the lines is done to the text.                          *)
(***************************************************************************)
LEMMA PlaceExchanged ==
  ASSUME NEW S, Break \in S, NEW lines \in LinesOf(S), NEW i \in 0..Len(lines),
         NEW j \in i..Len(lines), NEW m \in LinesOf(S), NEW r \in 1..Len(m),
         NEW k, k = i + r, NEW c \in 0..Len(m[r])
  PROVE  PlaceAt(Exchanged(lines, i, m, j), k, c) = Edge(lines, i) + PlaceAt(m, r, c)
<1> DEFINE e == Exchanged(lines, i, m, j)
<1>1. e[k] = m[r] /\ Text!Join(SubSeq(e, 1, k)) = Then(Pre(lines, i), Text!Join(SubSeq(m, 1, r)))
  BY OffExchanged
<1> HIDE DEF e
<1>2. /\ SpanEnd(m, r) = Edge(m, r - 1) + Len(m[r])
      /\ Edge(m, r - 1) \in Nat /\ Len(m[r]) \in Nat /\ SpanEnd(m, r) \in Nat
  BY PlaceIs
<1>3. Len(Pre(lines, i)) = Edge(lines, i) /\ Edge(lines, i) \in Nat
  BY PreLen
<1>4. Pre(lines, i) \in Seq(S) /\ Text!Join(SubSeq(m, 1, r)) \in Seq(S)
  <2>1. r \in 0..Len(m) /\ r # 0
    BY LinesAre
  <2> QED
    BY <2>1, PrePost
<1>5. SpanEnd(e, k) = Edge(lines, i) + SpanEnd(m, r)
  BY <1>1, <1>3, <1>4, ThenType DEF SpanEnd
<1>6. PlaceAt(e, k, c) = SpanEnd(e, k) - Len(e[k]) + c
  BY DEF PlaceAt, SpanEnd
<1>7. PlaceAt(m, r, c) = Edge(m, r - 1) + c
  BY PlaceIs
<1>8. PlaceAt(e, k, c) = Edge(lines, i) + PlaceAt(m, r, c)
  <2>1. PlaceAt(e, k, c) = (Edge(lines, i) + SpanEnd(m, r)) - Len(m[r]) + c
    BY <1>1, <1>5, <1>6
  <2>2. c \in Nat
    BY <1>2
  <2> DEFINE x == Edge(lines, i)
             y == Edge(m, r - 1)
             n == Len(m[r])
  <2>3. x \in Nat /\ y \in Nat /\ n \in Nat
    BY <1>2, <1>3
  <2>4. PlaceAt(e, k, c) = (x + (y + n)) - n + c /\ PlaceAt(m, r, c) = y + c
    BY <1>2, <1>7, <2>1
  <2> HIDE DEF x, y, n
  <2>5. PlaceAt(e, k, c) = x + PlaceAt(m, r, c)
    BY <2>2, <2>3, <2>4
  <2> QED
    BY <2>5 DEF x
<1> QED
  BY <1>8 DEF e

LEMMA EdgeFirst == ASSUME NEW m PROVE Edge(m, 1 - 1) = 0
BY DEF Edge

\* A line put for some.
LEMMA LineFor ==
  ASSUME NEW S, Break \in S, NEW lines \in LinesOf(S), NEW i \in 0..Len(lines),
         NEW j \in i..Len(lines), NEW l \in Seq(S), NEW k, k = i + 1, NEW c \in 0..Len(l)
  PROVE  PlaceAt(Exchanged(lines, i, <<l>>, j), k, c) = Edge(lines, i) + c
<1> DEFINE m == <<l>>
<1>1. m \in LinesOf(S) /\ Len(m) = 1 /\ m[1] = l
  BY OneLine
<1> HIDE DEF m
<1>2. 1 \in 1..Len(m) /\ c \in 0..Len(m[1])
  BY <1>1
<1>3. PlaceAt(Exchanged(lines, i, m, j), k, c) = Edge(lines, i) + PlaceAt(m, 1, c)
  BY <1>1, <1>2, PlaceExchanged
<1>4. PlaceAt(m, 1, c) = Edge(m, 1 - 1) + c
  BY <1>1, <1>2, PlaceIs
<1>5. PlaceAt(m, 1, c) = c
  BY <1>2, <1>4, EdgeFirst
<1> QED
  BY <1>3, <1>5 DEF m

\* Text exchanged in a line.
LEMMA InLine ==
  ASSUME NEW S, Break \in S, NEW lines \in LinesOf(S), NEW r \in 1..Len(lines),
         NEW a \in 0..Len(lines[r]), NEW b \in a..Len(lines[r]), NEW x \in Seq(S),
         NEW m \in LinesOf(S), Text!Join(m) = Exchanged(lines[r], a, x, b)
  PROVE  Text!Join(Exchanged(lines, r - 1, m, r)) =
           Exchanged(Text!Join(lines), Edge(lines, r - 1) + a, x, Edge(lines, r - 1) + b)
<1> DEFINE i == r - 1
<1>1. lines \in Seq(Seq(S)) /\ Len(lines) \in Nat /\ lines[r] \in Seq(S)
  BY LinesAre
<1>2. i \in 0..Len(lines) /\ r \in i..Len(lines) /\ r > i /\ i + 1 = r
  BY <1>1
<1> HIDE DEF i
<1>3. SubSeq(lines, i + 1, r) = <<lines[r]>>
  BY <1>1, <1>2, OneCut
<1>4. Text!Join(SubSeq(lines, i + 1, r)) = lines[r]
  BY <1>1, <1>3, JoinOne
<1>5. /\ a \in 0..Len(Text!Join(SubSeq(lines, i + 1, r)))
      /\ b \in a..Len(Text!Join(SubSeq(lines, i + 1, r)))
      /\ Text!Join(m) = Exchanged(Text!Join(SubSeq(lines, i + 1, r)), a, x, b)
  BY <1>4
<1>6. Text!Join(Exchanged(lines, i, m, r)) =
        Exchanged(Text!Join(lines), Len(Pre(lines, i)) + a, x, Len(Pre(lines, i)) + b)
  BY <1>2, <1>5, TextExchanged
<1> QED
  BY <1>2, <1>6, PreLen DEF i

\* A character typed into a line.
LEMMA TypedInto ==
  ASSUME NEW S, Break \in S, NEW lines \in LinesOf(S), NEW r \in 1..Len(lines),
         NEW c \in 0..Len(lines[r]), NEW ch \in S, NEW o, o = PlaceAt(lines, r, c),
         NEW e, e = Exchanged(lines, r - 1, <<Exchanged(lines[r], c, <<ch>>, c)>>, r)
  PROVE  /\ Text!Join(e) = Exchanged(Text!Join(lines), o, <<ch>>, o)
         /\ PlaceAt(e, r, c + 1) = o + 1
<1> DEFINE l == lines[r]
           x == <<ch>>
           n == Exchanged(l, c, x, c)
           m == <<n>>
           i == r - 1
<1>1. /\ l \in Seq(S) /\ Len(l) \in Nat /\ Len(lines) \in Nat /\ x \in Seq(S)
      /\ c \in c..Len(l) /\ c \in Nat
  BY LinesAre, LenProperties
<1>2. n \in Seq(S) /\ Len(n) = Len(l) + 1
  BY <1>1, CharInserted
<1>3. o = Edge(lines, i) + c /\ Edge(lines, i) \in Nat
  BY PlaceIs
<1>4. i \in 0..Len(lines) /\ r \in i..Len(lines) /\ r = i + 1
  BY <1>1
<1> HIDE DEF n, x
<1>5. m \in LinesOf(S) /\ Text!Join(m) = n
  BY <1>2, OneLine, JoinOne
<1>6. c + 1 \in 0..Len(n)
  BY <1>1, <1>2
<1>7. PlaceAt(Exchanged(lines, i, <<n>>, r), r, c + 1) = Edge(lines, i) + (c + 1)
  <2> HIDE DEF i
  <2> QED
    BY <1>2, <1>4, <1>6, LineFor
<1> HIDE DEF m
<1>8. Text!Join(m) = Exchanged(lines[r], c, x, c)
  BY <1>5 DEF n
<1>9. Text!Join(Exchanged(lines, r - 1, m, r)) =
        Exchanged(Text!Join(lines), Edge(lines, r - 1) + c, x, Edge(lines, r - 1) + c)
  BY <1>1, <1>5, <1>8, InLine
<1>10. e = Exchanged(lines, i, m, r)
  BY DEF m, n, x
<1>11. Edge(lines, i) + (c + 1) = o + 1
  BY <1>1, <1>3
<1> QED
  BY <1>3, <1>7, <1>9, <1>10, <1>11 DEF m, x

\* A line broken in two.
LEMMA TwoLines ==
  ASSUME NEW S, Break \in S, NEW x \in Seq(S), NEW y \in Seq(S)
  PROVE  /\ <<x, y>> \in LinesOf(S) /\ Text!Join(<<x, y>>) = x \o <<Break>> \o y
         /\ Len(<<x, y>>) = 2 /\ Edge(<<x, y>>, 1) = Len(x) + 1
<1> DEFINE m == <<x, y>>
           a == <<x>>
<1>1. a \in LinesOf(S) /\ Text!Join(a) = x /\ Len(a) = 1
  BY OneLine, JoinOne
<1>2. m = Append(a, y)
  OBVIOUS
<1>3. m[1] = x /\ Len(m) = 2
  OBVIOUS
<1> HIDE DEF a, m
<1>4. m \in LinesOf(S)
  BY <1>1, <1>2, OneMoreLine DEF LinesOf
<1>5. Text!Join(m) = x \o <<Break>> \o y
  BY <1>1, <1>2, JoinMore
<1>6. 1 \in 1..Len(m) /\ 0 \in 0..Len(m[1])
  BY <1>3, LenProperties
<1>7. SpanEnd(m, 1) = Edge(m, 1 - 1) + Len(m[1]) /\ Len(m[1]) \in Nat
  BY <1>4, <1>6, PlaceIs
<1>8. SpanEnd(m, 1) = Len(x)
  BY <1>3, <1>7, EdgeFirst
<1>9. Edge(m, 1) = Len(x) + 1
  BY <1>8 DEF Edge
<1> QED
  BY <1>3, <1>4, <1>5, <1>9 DEF m

LEMMA SecondFor ==
  ASSUME NEW S, Break \in S, NEW lines \in LinesOf(S), NEW i \in 0..Len(lines),
         NEW j \in i..Len(lines), NEW m \in LinesOf(S), Len(m) = 2,
         NEW k, k = i + 2
  PROVE  PlaceAt(Exchanged(lines, i, m, j), k, 0) = Edge(lines, i) + Edge(m, 1)
<1>1. 2 \in 1..Len(m) /\ 0 \in 0..Len(m[2])
  <2>1. 2 \in 1..Len(m)
    OBVIOUS
  <2> QED
    BY <2>1, LinesAre, LenProperties
<1>2. PlaceAt(Exchanged(lines, i, m, j), k, 0) = Edge(lines, i) + PlaceAt(m, 2, 0)
  BY <1>1, PlaceExchanged
<1>3. PlaceAt(m, 2, 0) = Edge(m, 2 - 1) + 0 /\ Edge(m, 2 - 1) \in Nat
  BY <1>1, PlaceIs
<1>4. PlaceAt(m, 2, 0) = Edge(m, 1)
  BY <1>3
<1> QED
  BY <1>2, <1>4

Broken(l, c) == <<SubSeq(l, 1, c), SubSeq(l, c + 1, Len(l))>>

LEMMA BrokenAt ==
  ASSUME NEW S, Break \in S, NEW lines \in LinesOf(S), NEW r \in 1..Len(lines),
         NEW c \in 0..Len(lines[r]), NEW o, o = PlaceAt(lines, r, c),
         NEW e, e = Exchanged(lines, r - 1, Broken(lines[r], c), r)
  PROVE  /\ Text!Join(e) = Exchanged(Text!Join(lines), o, <<Break>>, o)
         /\ PlaceAt(e, r + 1, 0) = o + 1
<1> DEFINE l == lines[r]
           x == SubSeq(l, 1, c)
           y == SubSeq(l, c + 1, Len(l))
           m == <<x, y>>
           br == <<Break>>
           i == r - 1
<1>1. /\ l \in Seq(S) /\ Len(l) \in Nat /\ Len(lines) \in Nat /\ br \in Seq(S)
      /\ c \in c..Len(l) /\ c \in Nat
  BY LinesAre, LenProperties
<1>2. x \in Seq(S) /\ y \in Seq(S) /\ Len(x) = c /\ Len(y) = Len(l) - c
  BY <1>1, CutOut
<1>3. o = Edge(lines, i) + c /\ Edge(lines, i) \in Nat
  BY PlaceIs
<1>4. i \in 0..Len(lines) /\ r \in i..Len(lines) /\ r + 1 = i + 2
  BY <1>1
<1>5. x \o br \o y = Exchanged(l, c, br, c)
  BY DEF Exchanged
<1> HIDE DEF x, y
<1>6. m \in LinesOf(S) /\ Text!Join(m) = x \o br \o y /\ Len(m) = 2 /\ Edge(m, 1) = c + 1
  BY <1>2, TwoLines
<1> HIDE DEF m, br
<1>7. Text!Join(m) = Exchanged(lines[r], c, br, c)
  BY <1>5, <1>6
<1>8. Text!Join(Exchanged(lines, r - 1, m, r)) =
        Exchanged(Text!Join(lines), Edge(lines, r - 1) + c, br, Edge(lines, r - 1) + c)
  BY <1>1, <1>6, <1>7, InLine
<1>9. PlaceAt(Exchanged(lines, i, m, r), r + 1, 0) = Edge(lines, i) + (c + 1)
  <2> HIDE DEF i
  <2> QED
    BY <1>4, <1>6, SecondFor
<1>11. e = Exchanged(lines, i, m, r)
  BY DEF m, x, y, Broken
<1>12. Edge(lines, i) + (c + 1) = o + 1
  BY <1>1, <1>3
<1> QED
  BY <1>3, <1>6, <1>8, <1>9, <1>11, <1>12 DEF br

\* A character removed from a line.
LEMMA RemovedFrom ==
  ASSUME NEW S, Break \in S, NEW lines \in LinesOf(S), NEW r \in 1..Len(lines),
         NEW k \in 1..Len(lines[r]), NEW c \in 0..(Len(lines[r]) - 1),
         NEW e, e = Exchanged(lines, r - 1, <<Exchanged(lines[r], k - 1, <<>>, k)>>, r)
  PROVE  /\ Text!Join(e) = Exchanged(Text!Join(lines), PlaceAt(lines, r, k - 1), <<>>,
                                     PlaceAt(lines, r, k))
         /\ PlaceAt(e, r, c) = PlaceAt(lines, r, c)
         /\ PlaceAt(lines, r, k) = PlaceAt(lines, r, k - 1) + 1
<1> DEFINE l == lines[r]
           h == k - 1
           x == <<>>
           n == Exchanged(l, h, x, k)
           m == <<n>>
           i == r - 1
<1>1. /\ l \in Seq(S) /\ Len(l) \in Nat /\ Len(lines) \in Nat /\ x \in Seq(S)
      /\ h \in 0..Len(l) /\ k \in h..Len(l) /\ h \in Nat /\ k \in 0..Len(l) /\ c \in 0..Len(l)
      /\ k = h + 1 /\ c \in Nat
  BY LinesAre, LenProperties, EmptySeq
<1>2. n \in Seq(S) /\ Len(n) = Len(l) - 1
  BY <1>1, CharRemoved
<1>3. /\ PlaceAt(lines, r, h) = Edge(lines, i) + h /\ PlaceAt(lines, r, k) = Edge(lines, i) + k
      /\ PlaceAt(lines, r, c) = Edge(lines, i) + c /\ Edge(lines, i) \in Nat
  <2> HIDE DEF h
  <2> QED
    BY <1>1, PlaceIs
<1>4. i \in 0..Len(lines) /\ r \in i..Len(lines) /\ r = i + 1
  BY <1>1
<1> HIDE DEF n, x, h
<1>5. m \in LinesOf(S) /\ Text!Join(m) = n
  BY <1>2, OneLine, JoinOne
<1>6. c \in 0..Len(n)
  BY <1>1, <1>2
<1>7. PlaceAt(Exchanged(lines, i, <<n>>, r), r, c) = Edge(lines, i) + c
  <2> HIDE DEF i
  <2> QED
    BY <1>2, <1>4, <1>6, LineFor
<1> HIDE DEF m
<1>8. Text!Join(m) = Exchanged(lines[r], h, x, k)
  BY <1>5 DEF n
<1>9. Text!Join(Exchanged(lines, r - 1, m, r)) =
        Exchanged(Text!Join(lines), Edge(lines, r - 1) + h, x, Edge(lines, r - 1) + k)
  BY <1>1, <1>5, <1>8, InLine
<1>10. e = Exchanged(lines, i, m, r)
  BY DEF m, n, x, h
<1>11. PlaceAt(lines, r, k) = PlaceAt(lines, r, h) + 1
  BY <1>1, <1>3
<1> QED
  BY <1>3, <1>7, <1>9, <1>10, <1>11 DEF m, x, h

\* Two lines next to each other are their text with a break between them.
LEMMA TwoOf ==
  ASSUME NEW S, Break \in S, NEW lines \in LinesOf(S), NEW k \in 1..(Len(lines) - 1)
  PROVE  /\ SubSeq(lines, k, k + 1) = <<lines[k], lines[k + 1]>>
         /\ lines[k] \in Seq(S) /\ lines[k + 1] \in Seq(S)
         /\ Text!Join(SubSeq(lines, k, k + 1)) = Then(Then(lines[k], <<Break>>), lines[k + 1])
<1> DEFINE a == SubSeq(lines, k, k + 1)
           b == <<lines[k], lines[k + 1]>>
<1>1. /\ lines \in Seq(Seq(S)) /\ Len(lines) \in Nat /\ k \in 1..Len(lines) /\ k + 1 \in 1..Len(lines)
      /\ lines[k] \in Seq(S) /\ lines[k + 1] \in Seq(S)
  BY LinesAre
<1>2. a \in Seq(Seq(S)) /\ Len(a) = 2 /\ a[1] = lines[k] /\ a[2] = lines[k + 1]
  <2> DEFINE h == k - 1
             j == k + 1
  <2>1. h \in 0..Len(lines) /\ j \in h..Len(lines) /\ h + 1 = k /\ j - h = 2
    BY <1>1
  <2> HIDE DEF h, j
  <2>2. SubSeq(lines, h + 1, j) \in Seq(Seq(S)) /\ Len(SubSeq(lines, h + 1, j)) = j - h
    BY <1>1, <2>1, PutBack
  <2>3. a \in Seq(Seq(S)) /\ Len(a) = 2
    BY <2>1, <2>2 DEF j
  <2>4. a[1] = lines[k] /\ a[2] = lines[k + 1]
    BY <1>1
  <2> QED
    BY <2>3, <2>4
<1>3. b \in Seq(Seq(S)) /\ Len(b) = 2 /\ b[1] = lines[k] /\ b[2] = lines[k + 1]
  BY <1>1
<1> HIDE DEF a, b
<1>4. a = b
  <2>1. \A g \in 1..2 : a[g] = b[g]
    <3>1. \A g \in 1..2 : g = 1 \/ g = 2
      OBVIOUS
    <3> QED
      BY <1>2, <1>3, <3>1
  <2> QED
    BY <1>2, <1>3, <2>1, SeqEqual
<1>5. Text!Join(b) = lines[k] \o <<Break>> \o lines[k + 1]
  <2> DEFINE x == lines[k]
             y == lines[k + 1]
  <2>1. x \in Seq(S) /\ y \in Seq(S)
    BY <1>1
  <2> HIDE DEF x, y
  <2>2. Text!Join(<<x, y>>) = x \o <<Break>> \o y
    BY <2>1, TwoLines
  <2> QED
    BY <2>2 DEF b, x, y
<1>6. Text!Join(b) = Then(Then(lines[k], <<Break>>), lines[k + 1])
  BY <1>5 DEF Then
<1> QED
  BY <1>1, <1>4, <1>6 DEF a, b

\* A text without its break, and without what is before or after it.
LEMMA BreakGone ==
  ASSUME NEW S, Break \in S, NEW p \in Seq(S), NEW q \in Seq(S),
         NEW t, t = Then(Then(p, <<Break>>), q)
  PROVE  /\ Exchanged(t, Len(p), <<>>, Len(p) + 1) = Then(p, q)
         /\ Exchanged(t, 0, <<>>, Len(p) + 1) = q
         /\ Exchanged(t, Len(p), <<>>, Len(t)) = p
         /\ t \in Seq(S) /\ Len(p) \in 0..Len(t) /\ Len(p) + 1 \in 0..Len(t)
         /\ Len(p) + 1 \in Len(p)..Len(t) /\ Len(t) \in Nat /\ Len(p) \in Nat /\ Len(q) \in Nat
<1> DEFINE br == <<Break>>
           pb == Then(p, br)
           bq == Then(br, q)
<1>1. br \in Seq(S) /\ Len(br) = 1
  OBVIOUS
<1>2. t = Then(Then(p, br), q)
  OBVIOUS
<1> HIDE DEF br
<1>3. pb \in Seq(S) /\ Len(pb) = Len(p) + 1 /\ bq \in Seq(S)
  BY <1>1, ThenType
<1>4. t = Then(pb, q) /\ t = Then(p, bq)
  BY <1>1, <1>2, ThenAssociates
<1> HIDE DEF pb, bq
<1>5. SubSeq(t, 1, Len(p)) = p
  BY <1>3, <1>4, ThenHalves
<1>6. SubSeq(t, (Len(p) + 1) + 1, Len(t)) = q
  <2>1. SubSeq(Then(pb, q), Len(pb) + 1, Len(Then(pb, q))) = q
    BY <1>3, ThenHalves
  <2> QED
    BY <1>3, <1>4, <2>1
<1>7. t \in Seq(S) /\ Len(t) = Len(p) + 1 + Len(q) /\ Len(p) \in Nat /\ Len(q) \in Nat
  BY <1>3, <1>4, ThenType, LenProperties
<1>8. SubSeq(t, 1, 0) = <<>> /\ SubSeq(t, Len(t) + 1, Len(t)) = <<>>
  BY <1>7
<1>9. p \o <<>> = p /\ <<>> \o <<>> \o q = q /\ p \o <<>> \o <<>> = p
  OBVIOUS
<1>10. Exchanged(t, Len(p), <<>>, Len(p) + 1) = Then(p, q)
  BY <1>5, <1>6, <1>9 DEF Exchanged, Then
<1>11. Exchanged(t, 0, <<>>, Len(p) + 1) = q
  BY <1>6, <1>8, <1>9 DEF Exchanged
<1>12. Exchanged(t, Len(p), <<>>, Len(t)) = p
  BY <1>5, <1>8, <1>9 DEF Exchanged
<1>13. /\ Len(p) \in 0..Len(t) /\ Len(p) + 1 \in 0..Len(t)
       /\ Len(p) + 1 \in Len(p)..Len(t) /\ Len(t) \in Nat
  <2> DEFINE a == Len(p)
             b == Len(q)
             c == Len(t)
  <2>1. a \in Nat /\ b \in Nat /\ c = a + 1 + b
    BY <1>7
  <2> HIDE DEF a, b, c
  <2>2. a \in 0..c /\ a + 1 \in 0..c /\ a + 1 \in a..c /\ c \in Nat
    BY <2>1
  <2> QED
    BY <2>2 DEF a, c
<1> QED
  BY <1>7, <1>10, <1>11, <1>12, <1>13

\* Two lines joined.
LEMMA JoinedAt ==
  ASSUME NEW S, Break \in S, NEW lines \in LinesOf(S), NEW k \in 1..(Len(lines) - 1),
         NEW c \in 0..Len(lines[k]),
         NEW e, e = Exchanged(lines, k - 1, <<lines[k] \o lines[k + 1]>>, k + 1)
  PROVE  /\ Text!Join(e) = Exchanged(Text!Join(lines), SpanEnd(lines, k), <<>>, SpanEnd(lines, k) + 1)
         /\ PlaceAt(e, k, c) = PlaceAt(lines, k, c)
<1> DEFINE p == lines[k]
           q == lines[k + 1]
           l == Then(p, q)
           m == <<l>>
           x == <<>>
           i == k - 1
           j == k + 1
           t == Then(Then(p, <<Break>>), q)
<1>1. Len(lines) \in Nat /\ k \in 1..Len(lines) /\ p \in Seq(S) /\ q \in Seq(S)
  BY LinesAre
<1>2. Text!Join(SubSeq(lines, k, k + 1)) = t
  BY TwoOf
<1> HIDE DEF p, q
<1>3. /\ Exchanged(t, Len(p), x, Len(p) + 1) = l
      /\ t \in Seq(S) /\ Len(p) \in 0..Len(t) /\ Len(p) + 1 \in 0..Len(t)
      /\ Len(p) + 1 \in Len(p)..Len(t) /\ Len(t) \in Nat /\ Len(p) \in Nat /\ Len(q) \in Nat
  BY <1>1, BreakGone
<1>4. l \in Seq(S) /\ Len(l) = Len(p) + Len(q)
  BY <1>1, ThenType
<1> HIDE DEF l, t
<1>5. m \in LinesOf(S) /\ Text!Join(m) = l
  BY <1>4, OneLine, JoinOne
<1> HIDE DEF m, i, j
<1>6. i \in 0..Len(lines) /\ j \in i..Len(lines) /\ j > i /\ i + 1 = k /\ j = k + 1
  BY <1>1 DEF i, j
<1> DEFINE a == Len(p)
           b == Len(p) + 1
<1>7. /\ a \in 0..Len(Text!Join(SubSeq(lines, i + 1, j)))
      /\ b \in a..Len(Text!Join(SubSeq(lines, i + 1, j)))
      /\ Text!Join(m) = Exchanged(Text!Join(SubSeq(lines, i + 1, j)), a, x, b)
      /\ x \in Seq(S)
  BY <1>2, <1>3, <1>5, <1>6, EmptySeq
<1> HIDE DEF a, b, x
<1>8. Text!Join(Exchanged(lines, i, m, j)) =
        Exchanged(Text!Join(lines), Len(Pre(lines, i)) + a, x, Len(Pre(lines, i)) + b)
  BY <1>5, <1>6, <1>7, TextExchanged
<1>9. /\ Len(Pre(lines, i)) = Edge(lines, i) /\ Edge(lines, i) \in Nat
      /\ SpanEnd(lines, k) = Edge(lines, i) + Len(p)
      /\ PlaceAt(lines, k, c) = Edge(lines, i) + c
  BY <1>1, <1>6, PreLen, PlaceIs DEF i, p
<1>10. Edge(lines, i) + a = SpanEnd(lines, k) /\ Edge(lines, i) + b = SpanEnd(lines, k) + 1
  BY <1>3, <1>9 DEF a, b
<1>11. e = Exchanged(lines, i, m, j)
  BY DEF i, m, j, l, p, q, Then
<1>12. PlaceAt(Exchanged(lines, i, <<l>>, j), k, c) = Edge(lines, i) + c
  <2>1. c \in 0..Len(l) /\ k = i + 1
    BY <1>1, <1>3, <1>4, <1>6 DEF p
  <2> QED
    BY <1>4, <1>6, <2>1, LineFor
<1> QED
  BY <1>8, <1>9, <1>10, <1>11, <1>12 DEF m, x

\* A line cut, with the break after it.
LEMMA CutBefore ==
  ASSUME NEW S, Break \in S, NEW lines \in LinesOf(S), NEW r \in 1..(Len(lines) - 1),
         NEW e, e = Exchanged(lines, r - 1, <<>>, r)
  PROVE  /\ Text!Join(e) = Exchanged(Text!Join(lines), Edge(lines, r - 1), <<>>, SpanEnd(lines, r) + 1)
         /\ PlaceAt(e, r, 0) = Edge(lines, r - 1)
<1> DEFINE p == lines[r]
           q == lines[r + 1]
           m == <<q>>
           x == <<>>
           i == r - 1
           j == r + 1
           t == Then(Then(p, <<Break>>), q)
<1>1. /\ Len(lines) \in Nat /\ r \in 1..Len(lines) /\ p \in Seq(S) /\ q \in Seq(S)
      /\ lines \in Seq(Seq(S))
  BY LinesAre
<1>2. Text!Join(SubSeq(lines, r, r + 1)) = t
  BY TwoOf
<1> HIDE DEF p, q
<1>3. /\ Exchanged(t, 0, x, Len(p) + 1) = q
      /\ t \in Seq(S) /\ Len(p) \in 0..Len(t) /\ Len(p) + 1 \in 0..Len(t)
      /\ Len(p) + 1 \in Len(p)..Len(t) /\ Len(t) \in Nat /\ Len(p) \in Nat /\ Len(q) \in Nat
  <2>1. p \in Seq(S) /\ q \in Seq(S) /\ t = Then(Then(p, <<Break>>), q)
    BY <1>1
  <2> HIDE DEF t, x
  <2>2. /\ Exchanged(t, 0, <<>>, Len(p) + 1) = q
        /\ t \in Seq(S) /\ Len(p) \in 0..Len(t) /\ Len(p) + 1 \in 0..Len(t)
        /\ Len(p) + 1 \in Len(p)..Len(t) /\ Len(t) \in Nat /\ Len(p) \in Nat /\ Len(q) \in Nat
    BY <2>1, BreakGone
  <2> QED
    BY <2>2 DEF x
<1> HIDE DEF t
<1>5. m \in LinesOf(S) /\ Text!Join(m) = q
  BY <1>1, OneLine, JoinOne
<1> HIDE DEF m, i, j
<1>6. i \in 0..Len(lines) /\ j \in i..Len(lines) /\ j > i /\ i + 1 = r /\ j = r + 1
  BY <1>1 DEF i, j
<1> DEFINE a == 0
           b == Len(p) + 1
<1>7. /\ a \in 0..Len(Text!Join(SubSeq(lines, i + 1, j)))
      /\ b \in a..Len(Text!Join(SubSeq(lines, i + 1, j)))
      /\ Text!Join(m) = Exchanged(Text!Join(SubSeq(lines, i + 1, j)), a, x, b)
      /\ x \in Seq(S)
  BY <1>2, <1>3, <1>5, <1>6, EmptySeq
<1> HIDE DEF a, b, x
<1>8. Text!Join(Exchanged(lines, i, m, j)) =
        Exchanged(Text!Join(lines), Len(Pre(lines, i)) + a, x, Len(Pre(lines, i)) + b)
  BY <1>5, <1>6, <1>7, TextExchanged
<1>9. /\ Len(Pre(lines, i)) = Edge(lines, i) /\ Edge(lines, i) \in Nat
      /\ SpanEnd(lines, r) = Edge(lines, i) + Len(p)
  <2>1. 0 \in 0..Len(lines[r])
    BY <1>3 DEF p
  <2> QED
    BY <1>1, <1>6, <2>1, PreLen, PlaceIs DEF i, p
<1>10. Edge(lines, i) + a = Edge(lines, i) /\ Edge(lines, i) + b = SpanEnd(lines, r) + 1
  BY <1>3, <1>9 DEF a, b
\* The line after it is put for both.
<1>11. e = Exchanged(lines, i, m, j)
  <2> DEFINE before == SubSeq(lines, 1, i)
             after == SubSeq(lines, j + 1, Len(lines))
             rest == SubSeq(lines, r + 1, Len(lines))
  <2>1. e = before \o <<>> \o rest
    BY DEF Exchanged, i
  <2>2. Exchanged(lines, i, m, j) = before \o m \o after
    BY DEF Exchanged
  <2>3. before \in Seq(Seq(S)) /\ after \in Seq(Seq(S)) /\ Len(after) = Len(lines) - j
    BY <1>1, <1>6, CutOut
  <2>4. rest \in Seq(Seq(S)) /\ Len(rest) = Len(lines) - r
    <3>1. r \in 0..Len(lines) /\ r \in r..Len(lines)
      BY <1>1
    <3> QED
      BY <1>1, <3>1, CutOut
  <2>5. m \in Seq(Seq(S)) /\ Len(m) = 1 /\ m[1] = lines[r + 1]
    BY <1>1, OneLine, LinesAre DEF m, q
  <2>6. rest = m \o after
    <3> DEFINE z == m \o after
    <3>1. \A g \in 1..(Len(lines) - r) : rest[g] = lines[r + g]
      BY <1>1
    <3>2. \A g \in 1..(Len(lines) - j) : after[g] = lines[j + g]
      BY <1>1, <1>6
    <3> HIDE DEF rest, after
    <3>3. /\ z \in Seq(Seq(S)) /\ Len(z) = Len(m) + Len(after)
          /\ \A g \in 1..(Len(m) + Len(after)) : z[g] = IF g <= Len(m) THEN m[g] ELSE after[g - Len(m)]
      BY <2>3, <2>5, Concatenated
    <3> HIDE DEF z
    <3>4. Len(z) = Len(rest)
      BY <1>1, <1>6, <2>3, <2>4, <2>5, <3>3
    <3>5. ASSUME NEW g \in 1..Len(rest) PROVE rest[g] = z[g]
      <4>1. g \in 1..(Len(m) + Len(after)) /\ rest[g] = lines[r + g]
        BY <1>1, <1>6, <2>3, <2>4, <2>5, <3>1
      <4>2. CASE g = 1
        BY <2>5, <3>3, <4>1, <4>2
      <4>3. CASE g # 1
        <5>0. Len(rest) \in Nat /\ Len(rest) = Len(lines) - r /\ r \in Nat /\ Len(m) = 1
          BY <1>1, <2>4, <2>5
        <5>1. g \in Nat /\ g >= 2 /\ g <= Len(lines) - r
          BY <4>3, <5>0
        <5>2. g - 1 \in 1..(Len(lines) - j) /\ j + (g - 1) = r + g
          BY <1>1, <1>6, <5>0, <5>1
        <5>3. ~(g <= Len(m)) /\ g - Len(m) = g - 1
          BY <5>0, <5>1
        <5> QED
          BY <3>2, <3>3, <4>1, <5>2, <5>3
      <4> QED
        BY <4>2, <4>3
    <3>6. rest = z
      BY <2>4, <3>3, <3>4, <3>5, SeqEqual
    <3> QED
      BY <3>6 DEF z
  <2> HIDE DEF before, after, rest
  <2>7. before \o <<>> = before
    BY <2>3
  <2>8. before \o (m \o after) = (before \o m) \o after
    <3>1. Then(before, Then(m, after)) = Then(Then(before, m), after)
      BY <2>3, <2>5, ThenAssociates
    <3> QED
      BY <3>1 DEF Then
  <2> QED
    BY <2>1, <2>2, <2>6, <2>7, <2>8
<1>12. PlaceAt(Exchanged(lines, i, <<q>>, j), r, 0) = Edge(lines, i) + 0
  <2>1. 0 \in 0..Len(q) /\ r = i + 1
    BY <1>3, <1>6
  <2> QED
    BY <1>1, <1>6, <2>1, LineFor
<1>13. Edge(lines, i) + 0 = Edge(lines, i)
  BY <1>9
<1> QED
  BY <1>8, <1>9, <1>10, <1>11, <1>12, <1>13 DEF m, x, i

\* The last line cut, with the break before it.
LEMMA CutLast ==
  ASSUME NEW S, Break \in S, NEW lines \in LinesOf(S), NEW r \in 1..Len(lines), r = Len(lines),
         NEW k \in 1..(Len(lines) - 1), r = k + 1,
         NEW e, e = Exchanged(lines, r - 1, <<>>, r)
  PROVE  /\ Text!Join(e) = Exchanged(Text!Join(lines), SpanEnd(lines, k), <<>>, Len(Text!Join(lines)))
         /\ PlaceAt(e, k, 0) = Edge(lines, k - 1)
<1> DEFINE n == SubSeq(lines, 1, k)
           t == Text!Join(n)
           u == lines[r]
           w == Text!Join(lines)
<1>1. lines \in Seq(Seq(S)) /\ Len(lines) \in Nat /\ u \in Seq(S) /\ k \in 1..Len(lines)
  <2>1. lines \in Seq(Seq(S)) /\ Len(lines) \in Nat /\ \A g \in 1..Len(lines) : lines[g] \in Seq(S)
    BY LinesAre
  <2>2. k \in 1..Len(lines)
    BY <2>1
  <2> QED
    BY <2>1, <2>2
<1>2. k \in 0..Len(lines) /\ r \in k..Len(lines) /\ k # 0 /\ r > k /\ r \in 0..Len(lines)
  BY <1>1
<1>3. n \in LinesOf(S) /\ t \in Seq(S)
  BY <1>2, PrePost
<1>4. n \in Seq(Seq(S)) /\ Len(n) = k /\ \A g \in 1..k : n[g] = lines[g]
  <2>1. Len(lines) \in k..Len(lines)
    BY <1>2
  <2>2. n \in Seq(Seq(S)) /\ Len(n) = k
    BY <1>1, <1>2, <2>1, CutOut
  <2>3. \A g \in 1..k : n[g] = lines[g]
    BY <1>1, <1>2
  <2> QED
    BY <2>2, <2>3
<1>5. e = n
  <2>1. e = n \o <<>> \o SubSeq(lines, r + 1, Len(lines))
    <3>1. r - 1 = k
      BY <1>1
    <3> QED
      BY <3>1 DEF Exchanged
  <2>2. SubSeq(lines, r + 1, Len(lines)) = <<>>
    BY <1>1
  <2> HIDE DEF n
  <2>3. n \o <<>> = n
    BY <1>4
  <2> QED
    BY <2>1, <2>2, <2>3
<1>6. w = Then(Then(t, <<Break>>), u)
  <2>1. lines = Append(n, u)
    <3> DEFINE a == Append(n, u)
    <3> HIDE DEF n
    <3>1. a \in Seq(Seq(S)) /\ Len(a) = k + 1 /\ a[k + 1] = u /\ \A g \in 1..k : a[g] = n[g]
      BY <1>1, <1>4, AppendProperties
    <3> HIDE DEF a
    <3>2. \A g \in 1..Len(lines) : a[g] = lines[g]
      <4>1. \A g \in 1..Len(lines) : g \in 1..k \/ g = k + 1
        BY <1>1
      <4> QED
        BY <1>4, <3>1, <4>1
    <3>3. a = lines
      BY <1>1, <3>1, <3>2, SeqEqual
    <3> QED
      BY <3>3 DEF a
  <2> HIDE DEF n
  <2>2. Text!Join(Append(n, u)) = t \o <<Break>> \o u
    BY <1>1, <1>3, JoinMore
  <2> QED
    BY <2>1, <2>2 DEF Then
<1> HIDE DEF t, u, w
<1>7. Exchanged(w, Len(t), <<>>, Len(w)) = t
  BY <1>1, <1>3, <1>6, BreakGone
<1>8. 0 \in 0..Len(n[k]) /\ k \in 1..Len(n)
  <2>1. k \in 1..Len(n)
    BY <1>1, <1>4
  <2> HIDE DEF n
  <2> QED
    BY <1>3, <2>1, LinesAre, LenProperties
<1>9. PlaceAt(n, k, 0) = Edge(n, k - 1) + 0 /\ Edge(n, k - 1) \in Nat
  BY <1>3, <1>8, PlaceIs
<1>10. Edge(n, k - 1) = Edge(lines, k - 1)
  <2>1. SubSeq(n, 1, k - 1) = SubSeq(lines, 1, k - 1)
    BY <1>1
  <2> QED
    BY <2>1 DEF Edge, SpanEnd
<1>11. SpanEnd(lines, k) = Len(t)
  BY DEF SpanEnd, t
<1>12. PlaceAt(n, k, 0) = Edge(lines, k - 1)
  BY <1>9, <1>10
<1> QED
  BY <1>5, <1>7, <1>11, <1>12 DEF t, w

(***************************************************************************)
(* What TextBuffer lets become of the text t and the place o in it.        *)
(***************************************************************************)
Begins_(t, i) == i = 0 \/ t[i] = Break
CutsOut(t, o, u, p) ==
  \E i \in 0..o, j \in o..Len(t) :
    /\ u = Exchanged(t, i, <<>>, j)
    /\ \/ /\ Begins_(t, i) /\ Spanned(t, i, o) = 0
          /\ \/ Spanned(t, i, j) = 1 /\ t[j] = Break
             \/ Spanned(t, i, j) = 0 /\ j = Len(t)
       \/ i < o /\ t[i + 1] = Break /\ Spanned(t, i, j) = 1 /\ j = Len(t)
    /\ p \in 0..Len(u) /\ Begins_(u, p)
Becomes(t, o, u, p, chars, page) ==
  \/ u = t /\ p = o
  \/ \E c \in chars \cup {Break} : u = Exchanged(t, o, <<c>>, o) /\ p = o + 1
  \/ o > 0 /\ u = Exchanged(t, o - 1, <<>>, o) /\ p = o - 1
  \/ o < Len(t) /\ u = Exchanged(t, o, <<>>, o + 1) /\ p = o
  \/ p \in {o - 1, o + 1} /\ u = t
  \/ p \in 0..Len(t) /\ u = t /\ Spanned(t, o, p) <= page /\ Spanned(t, p, o) <= page
  \/ CutsOut(t, o, u, p)
\* ... of lines, a row and a column.
Turns_(x, r, c, y, q, d, chars, page) ==
  Becomes(Text!Join(x), PlaceAt(x, r, c), Text!Join(y), PlaceAt(y, q, d), chars, page)

LEMMA TypeTurns ==
  ASSUME NEW S, NEW lines \in LinesOf(S), NEW r \in 1..Len(lines),
         NEW c \in 0..Len(lines[r]), NEW chars, NEW page, NEW ch \in chars, ch \in S,
         NEW e, e = Exchanged(lines, r - 1, <<Exchanged(lines[r], c, <<ch>>, c)>>, r)
  PROVE  Turns_(lines, r, c, e, r, c + 1, chars, page)
<1> DEFINE o == PlaceAt(lines, r, c)
           C == S \cup {Break}
<1>1. lines \in LinesOf(C) /\ Break \in C /\ ch \in C
  BY Widened
<1> HIDE DEF C, o
<1>2. o = PlaceAt(lines, r, c)
  BY DEF o
<1>3. /\ Text!Join(e) = Exchanged(Text!Join(lines), o, <<ch>>, o)
      /\ PlaceAt(e, r, c + 1) = o + 1
  BY <1>1, <1>2, TypedInto
<1> QED
  BY <1>2, <1>3 DEF Turns_, Becomes

LEMMA NewlineTurns ==
  ASSUME NEW S, NEW lines \in LinesOf(S), NEW r \in 1..Len(lines),
         NEW c \in 0..Len(lines[r]), NEW chars, NEW page,
         NEW e, e = Exchanged(lines, r - 1, Broken(lines[r], c), r)
  PROVE  Turns_(lines, r, c, e, r + 1, 0, chars, page)
<1> DEFINE o == PlaceAt(lines, r, c)
           C == S \cup {Break}
<1>1. lines \in LinesOf(C) /\ Break \in C
  BY Widened
<1> HIDE DEF C, o
<1>2. o = PlaceAt(lines, r, c)
  BY DEF o
<1>3. /\ Text!Join(e) = Exchanged(Text!Join(lines), o, <<Break>>, o)
      /\ PlaceAt(e, r + 1, 0) = o + 1
  BY <1>1, <1>2, BrokenAt
<1> QED
  BY <1>2, <1>3 DEF Turns_, Becomes

\* Where a place is, one to the left and one to the right of it.
LEMMA Beside ==
  ASSUME NEW S, Break \in S, NEW lines \in LinesOf(S), NEW r \in 1..Len(lines),
         NEW c \in 1..Len(lines[r])
  PROVE  /\ PlaceAt(lines, r, c - 1) \in Nat /\ PlaceAt(lines, r, c) = PlaceAt(lines, r, c - 1) + 1
         /\ PlaceAt(lines, r, c) <= Len(Text!Join(lines)) /\ Len(Text!Join(lines)) \in Nat
<1> DEFINE b == c - 1
<1>1. Len(lines[r]) \in Nat /\ Len(Text!Join(lines)) \in Nat
  BY LinesAre, JoinType, LenProperties
<1>2. b \in 0..Len(lines[r]) /\ c \in 0..Len(lines[r]) /\ c = b + 1
  BY <1>1
<1> HIDE DEF b
<1>3. /\ PlaceAt(lines, r, c) = Edge(lines, r - 1) + c
      /\ PlaceAt(lines, r, b) = Edge(lines, r - 1) + b
      /\ Edge(lines, r - 1) \in Nat
  BY <1>2, PlaceIs
<1>4. PlaceAt(lines, r, c) <= SpanEnd(lines, r) /\ SpanEnd(lines, r) \in Nat
      /\ SpanEnd(lines, r) <= Len(Text!Join(lines))
  BY <1>2, PlaceInText
<1>5. PlaceAt(lines, r, c) <= Len(Text!Join(lines))
  BY <1>1, <1>2, <1>3, <1>4
<1>6. PlaceAt(lines, r, b) \in Nat /\ PlaceAt(lines, r, c) = PlaceAt(lines, r, b) + 1
  BY <1>2, <1>3
<1> QED
  BY <1>1, <1>5, <1>6 DEF b

LEMMA RubTurns ==
  ASSUME NEW S, NEW lines \in LinesOf(S), NEW r \in 1..Len(lines),
         NEW c \in 1..Len(lines[r]), NEW chars, NEW page,
         NEW e, e = Exchanged(lines, r - 1, <<Exchanged(lines[r], c - 1, <<>>, c)>>, r)
  PROVE  Turns_(lines, r, c, e, r, c - 1, chars, page)
<1> DEFINE o == PlaceAt(lines, r, c)
           d == c - 1
           p == PlaceAt(lines, r, d)
           C == S \cup {Break}
<1>1. lines \in LinesOf(C) /\ Break \in C
  BY Widened
<1> HIDE DEF C
<1>2. Len(lines[r]) \in Nat
  BY LinesAre, LenProperties
<1>3. d \in 0..(Len(lines[r]) - 1)
  BY <1>2
<1>4. /\ Text!Join(e) = Exchanged(Text!Join(lines), p, <<>>, o)
      /\ PlaceAt(e, r, d) = p
  BY <1>1, <1>3, RemovedFrom
<1>5. p \in Nat /\ o = p + 1
  BY <1>1, Beside
<1> HIDE DEF o, p, d
<1>6. o > 0 /\ p = o - 1
  BY <1>5
<1>7. Becomes(Text!Join(lines), o, Text!Join(e), PlaceAt(e, r, d), chars, page)
  BY <1>4, <1>6 DEF Becomes
<1> QED
  BY <1>7 DEF Turns_, o, d

LEMMA ZapTurns ==
  ASSUME NEW S, NEW lines \in LinesOf(S), NEW r \in 1..Len(lines),
         NEW c \in 0..(Len(lines[r]) - 1), NEW chars, NEW page,
         NEW k, k = c + 1,
         NEW e, e = Exchanged(lines, r - 1, <<Exchanged(lines[r], k - 1, <<>>, k)>>, r)
  PROVE  Turns_(lines, r, c, e, r, c, chars, page)
<1> DEFINE o == PlaceAt(lines, r, c)
           p == PlaceAt(lines, r, k)
           C == S \cup {Break}
<1>1. lines \in LinesOf(C) /\ Break \in C
  BY Widened
<1> HIDE DEF C
<1>2. Len(lines[r]) \in Nat
  BY LinesAre, LenProperties
<1>3. k \in 1..Len(lines[r]) /\ k - 1 = c
  BY <1>2
<1>4. /\ Text!Join(e) = Exchanged(Text!Join(lines), PlaceAt(lines, r, k - 1), <<>>, p)
      /\ PlaceAt(e, r, c) = o
  <2> HIDE DEF o, p
  <2>1. /\ Text!Join(e) = Exchanged(Text!Join(lines), PlaceAt(lines, r, k - 1), <<>>, PlaceAt(lines, r, k))
        /\ PlaceAt(e, r, c) = PlaceAt(lines, r, c)
        /\ PlaceAt(lines, r, k) = PlaceAt(lines, r, k - 1) + 1
    BY <1>1, <1>3, RemovedFrom
  <2> QED
    BY <2>1 DEF o, p
<1>5. o \in Nat /\ p = o + 1 /\ p <= Len(Text!Join(lines)) /\ Len(Text!Join(lines)) \in Nat
  BY <1>1, <1>3, Beside
<1>6. Text!Join(e) = Exchanged(Text!Join(lines), o, <<>>, p)
  BY <1>3, <1>4
<1> HIDE DEF o, p
<1>7. o < Len(Text!Join(lines))
  BY <1>5
<1>8. Becomes(Text!Join(lines), o, Text!Join(e), PlaceAt(e, r, c), chars, page)
  BY <1>4, <1>5, <1>6, <1>7 DEF Becomes
<1> QED
  BY <1>8 DEF Turns_, o

\* The end of a line and the start of the next one.
LEMMA AcrossBreak ==
  ASSUME NEW S, Break \in S, NEW lines \in LinesOf(S), NEW k \in 1..(Len(lines) - 1)
  PROVE  /\ PlaceAt(lines, k, Len(lines[k])) = SpanEnd(lines, k)
         /\ PlaceAt(lines, k + 1, 0) = SpanEnd(lines, k) + 1
         /\ SpanEnd(lines, k) \in Nat /\ SpanEnd(lines, k) < Len(Text!Join(lines))
         /\ Len(Text!Join(lines)) \in Nat
<1> DEFINE h == k + 1
<1>1. /\ Len(lines) \in Nat /\ k \in 1..Len(lines) /\ h \in 1..Len(lines) /\ h - 1 = k
      /\ Len(Text!Join(lines)) \in Nat /\ \A i \in 1..Len(lines) : Len(lines[i]) \in Nat
  BY LinesAre, JoinType, LenProperties
<1> HIDE DEF h
<1>2. 0 \in 0..Len(lines[h]) /\ Len(lines[k]) \in 0..Len(lines[k])
  BY <1>1
<1>3. PlaceAt(lines, h, 0) = Edge(lines, h - 1) + 0 /\ Edge(lines, h - 1) \in Nat
  BY <1>1, <1>2, PlaceIs
<1>4. /\ PlaceAt(lines, k, Len(lines[k])) = Edge(lines, k - 1) + Len(lines[k])
      /\ SpanEnd(lines, k) = Edge(lines, k - 1) + Len(lines[k]) /\ SpanEnd(lines, k) \in Nat
  BY <1>1, <1>2, PlaceIs
<1>5. SpanEnd(lines, k) + 1 \in 1..Len(Text!Join(lines)) /\ Edge(lines, k) = SpanEnd(lines, k) + 1
  BY BreakThere
<1>6. SpanEnd(lines, k) < Len(Text!Join(lines))
  BY <1>1, <1>4, <1>5
<1>7. PlaceAt(lines, h, 0) = SpanEnd(lines, k) + 1
  BY <1>1, <1>3, <1>4, <1>5
<1>8. PlaceAt(lines, k, Len(lines[k])) = SpanEnd(lines, k)
  BY <1>4
<1> QED
  BY <1>1, <1>4, <1>6, <1>7, <1>8 DEF h

\* From the start of a line the one above is joined to it, and from its end the next.
LEMMA JoinTurns ==
  ASSUME NEW S, NEW lines \in LinesOf(S), NEW k \in 1..(Len(lines) - 1), NEW chars, NEW page,
         NEW e, e = Exchanged(lines, k - 1, <<lines[k] \o lines[k + 1]>>, k + 1)
  PROVE  /\ Turns_(lines, k + 1, 0, e, k, Len(lines[k]), chars, page)
         /\ Turns_(lines, k, Len(lines[k]), e, k, Len(lines[k]), chars, page)
<1> DEFINE C == S \cup {Break}
           c == Len(lines[k])
           t == Text!Join(lines)
           o == SpanEnd(lines, k)
<1>1. lines \in LinesOf(C) /\ Break \in C
  BY Widened
<1> HIDE DEF C
<1>2. Len(lines) \in Nat /\ k \in 1..Len(lines) /\ c \in 0..Len(lines[k])
  <2>1. Len(lines) \in Nat
    BY LinesAre
  <2>2. k \in 1..Len(lines)
    BY <2>1
  <2> QED
    BY <2>1, <2>2, LinesAre, LenProperties
<1> HIDE DEF c
<1>3. /\ Text!Join(e) = Exchanged(t, o, <<>>, o + 1)
      /\ PlaceAt(e, k, c) = PlaceAt(lines, k, c)
  BY <1>1, <1>2, JoinedAt
<1>4. /\ PlaceAt(lines, k, c) = o /\ PlaceAt(lines, k + 1, 0) = o + 1
      /\ o \in Nat /\ o < Len(t)
  BY <1>1, AcrossBreak DEF c
<1> HIDE DEF o, t
<1> DEFINE h == o + 1
<1>5. h > 0 /\ h - 1 = o
  BY <1>4
<1>6. Text!Join(e) = Exchanged(t, h - 1, <<>>, h) /\ PlaceAt(e, k, c) = h - 1
  BY <1>3, <1>4, <1>5
<1>7. Becomes(t, o, Text!Join(e), PlaceAt(e, k, c), chars, page)
  BY <1>3, <1>4 DEF Becomes
<1> HIDE DEF h
<1>8. Becomes(t, h, Text!Join(e), PlaceAt(e, k, c), chars, page)
  BY <1>5, <1>6 DEF Becomes
<1> QED
  BY <1>4, <1>7, <1>8 DEF Turns_, h, c, t

\* A character to the left or to the right, in a line or to the next one.
LEMMA SideTurns ==
  ASSUME NEW S, NEW lines \in LinesOf(S), NEW r \in 1..Len(lines),
         NEW c \in 1..Len(lines[r]), NEW chars, NEW page
  PROVE  /\ Turns_(lines, r, c, lines, r, c - 1, chars, page)
         /\ Turns_(lines, r, c - 1, lines, r, c, chars, page)
<1> DEFINE C == S \cup {Break}
           o == PlaceAt(lines, r, c)
           d == c - 1
           p == PlaceAt(lines, r, d)
<1>1. lines \in LinesOf(C) /\ Break \in C
  BY Widened
<1> HIDE DEF C
<1>2. p \in Nat /\ o = p + 1
  BY <1>1, Beside
<1> HIDE DEF o, p
<1>3. p = o - 1
  BY <1>2
<1>4. /\ Becomes(Text!Join(lines), o, Text!Join(lines), p, chars, page)
      /\ Becomes(Text!Join(lines), p, Text!Join(lines), o, chars, page)
  BY <1>2, <1>3 DEF Becomes
<1> QED
  BY <1>4 DEF Turns_, o, p, d

LEMMA AcrossTurns ==
  ASSUME NEW S, NEW lines \in LinesOf(S), NEW k \in 1..(Len(lines) - 1), NEW chars, NEW page
  PROVE  /\ Turns_(lines, k + 1, 0, lines, k, Len(lines[k]), chars, page)
         /\ Turns_(lines, k, Len(lines[k]), lines, k + 1, 0, chars, page)
<1> DEFINE C == S \cup {Break}
           o == PlaceAt(lines, k + 1, 0)
           p == PlaceAt(lines, k, Len(lines[k]))
<1>1. lines \in LinesOf(C) /\ Break \in C
  BY Widened
<1> HIDE DEF C
<1>2. p \in Nat /\ o = p + 1
  BY <1>1, AcrossBreak
<1> HIDE DEF o, p
<1>3. p = o - 1
  BY <1>2
<1>4. /\ Becomes(Text!Join(lines), o, Text!Join(lines), p, chars, page)
      /\ Becomes(Text!Join(lines), p, Text!Join(lines), o, chars, page)
  BY <1>2, <1>3 DEF Becomes
<1> QED
  BY <1>4 DEF Turns_, o, p

\* To any place so many rows away.
LEMMA JumpTurns ==
  ASSUME NEW S, Break \notin S, NEW lines \in LinesOf(S), NEW r \in 1..Len(lines),
         NEW c \in 0..Len(lines[r]), NEW q \in 1..Len(lines), NEW d \in 0..Len(lines[q]),
         NEW chars, NEW page \in Nat, q <= r + page, r <= q + page
  PROVE  Turns_(lines, r, c, lines, q, d, chars, page)
<1> DEFINE C == S \cup {Break}
           t == Text!Join(lines)
           o == PlaceAt(lines, r, c)
           p == PlaceAt(lines, q, d)
           m == Spanned(t, o, p)
           n == Spanned(t, p, o)
<1>1. lines \in LinesOf(C) /\ Break \in C
  BY Widened
<1> HIDE DEF C
<1>2. p \in Nat /\ p <= SpanEnd(lines, q) /\ SpanEnd(lines, q) \in Nat /\ SpanEnd(lines, q) <= Len(t)
      /\ Len(t) \in Nat
  BY <1>1, PlaceInText
<1>3. m \in Nat /\ (q <= r => m = 0) /\ (r <= q => m <= q - r)
  BY SpanBound
<1>4. n \in Nat /\ (r <= q => n = 0) /\ (q <= r => n <= r - q)
  BY SpanBound
<1>5. Len(lines) \in Nat /\ r \in Nat /\ q \in Nat
  BY LinesAre
<1> HIDE DEF m, n, o, p, t
<1>6. p \in 0..Len(t)
  BY <1>2
<1>7. m <= page /\ n <= page
  BY <1>3, <1>4, <1>5
<1>8. Becomes(t, o, t, p, chars, page)
  BY <1>6, <1>7 DEF Becomes, m, n
<1> QED
  BY <1>8 DEF Turns_, o, p, t

LEMMA SomeBreak ==
  ASSUME NEW t, NEW i \in Nat, NEW j \in Nat, NEW k \in (i + 1)..j, t[k] = Break,
         Spanned(t, i, j) \in Nat, Spanned(t, i, j) <= 1
  PROVE  Spanned(t, i, j) = 1
<1> DEFINE B == {b \in (i + 1)..j : t[b] = Break}
<1>1. IsFiniteSet((i + 1)..j)
  BY FS_Interval
<1>2. IsFiniteSet(B)
  BY <1>1, FS_Subset
<1>3. k \in B
  OBVIOUS
<1> HIDE DEF B
<1>4. Cardinality(B) # 0
  BY <1>2, <1>3, FS_EmptySet
<1> QED
  BY <1>4 DEF Spanned, B

\* What is before a cut stays.
LEMMA BeforeCut ==
  ASSUME NEW S, NEW t \in Seq(S), NEW i \in 0..Len(t), NEW j \in i..Len(t),
         NEW u, u = Exchanged(t, i, <<>>, j)
  PROVE  /\ Len(u) \in Nat /\ i <= Len(u)
         /\ \A k \in 1..i : u[k] = t[k]
<1> DEFINE m == <<>>
<1>1. m \in Seq(S) /\ Len(m) = 0 /\ Len(t) \in Nat
  BY EmptySeq, LenProperties
<1> HIDE DEF m
<1>2. /\ Len(Exchanged(t, i, m, j)) = i + Len(m) + (Len(t) - j)
      /\ Laid(Exchanged(t, i, m, j), t, i, m, j)
  BY <1>1, Exchange
<1>3. u = Exchanged(t, i, m, j)
  BY DEF m
<1>4. Len(u) = i + (Len(t) - j) /\ \A k \in 1..(i + (Len(t) - j)) : k <= i => u[k] = t[k]
  BY <1>1, <1>2, <1>3 DEF Laid
<1>5. \A k \in 1..i : k \in 1..(i + (Len(t) - j)) /\ k <= i
  BY <1>1
<1> QED
  BY <1>1, <1>4, <1>5

\* Where a row starts.
LEMMA RowStart ==
  ASSUME NEW S, Break \in S, NEW lines \in LinesOf(S), NEW r \in 1..Len(lines)
  PROVE  /\ PlaceAt(lines, r, 0) = Edge(lines, r - 1) /\ Edge(lines, r - 1) \in Nat
         /\ Edge(lines, r - 1) <= SpanEnd(lines, r) /\ SpanEnd(lines, r) \in Nat
         /\ SpanEnd(lines, r) <= Len(Text!Join(lines))
         /\ Begins_(Text!Join(lines), Edge(lines, r - 1))
         /\ PlaceAt(lines, r, Len(lines[r])) = SpanEnd(lines, r)
         /\ Edge(lines, r - 1) # 0 => Text!Join(lines)[Edge(lines, r - 1)] = Break
<1> DEFINE t == Text!Join(lines)
<1>1. Len(lines[r]) \in Nat /\ 0 \in 0..Len(lines[r]) /\ Len(lines[r]) \in 0..Len(lines[r])
  BY LinesAre, LenProperties
<1>2. PlaceAt(lines, r, 0) = Edge(lines, r - 1) + 0 /\ Edge(lines, r - 1) \in Nat
      /\ SpanEnd(lines, r) = Edge(lines, r - 1) + Len(lines[r])
      /\ PlaceAt(lines, r, Len(lines[r])) = Edge(lines, r - 1) + Len(lines[r])
  BY <1>1, PlaceIs
<1>3. /\ Edge(lines, r - 1) <= PlaceAt(lines, r, 0) /\ PlaceAt(lines, r, 0) <= SpanEnd(lines, r)
      /\ SpanEnd(lines, r) \in Nat /\ SpanEnd(lines, r) <= Len(t)
  BY <1>1, PlaceInText
<1>4. Edge(lines, r - 1) # 0 => t[Edge(lines, r - 1)] = Break
  <2>1. CASE r = 1
    <3>1. r - 1 = 0
      BY <2>1
    <3> QED
      BY <3>1 DEF Edge
  <2>2. CASE r # 1
    <3> DEFINE k == r - 1
    <3>1. Len(lines) \in Nat /\ k \in 1..(Len(lines) - 1)
      BY <2>2, LinesAre
    <3> HIDE DEF k
    <3>2. t[SpanEnd(lines, k) + 1] = Break /\ Edge(lines, k) = SpanEnd(lines, k) + 1
      BY <3>1, BreakThere
    <3>3. t[Edge(lines, k)] = Break
      BY <3>2
    <3> QED
      BY <3>3 DEF k
  <2> QED
    BY <2>1, <2>2
<1>5. Begins_(t, Edge(lines, r - 1))
  BY <1>4 DEF Begins_
<1>6. PlaceAt(lines, r, 0) = Edge(lines, r - 1) /\ PlaceAt(lines, r, Len(lines[r])) = SpanEnd(lines, r)
  BY <1>2
<1>7. Edge(lines, r - 1) <= SpanEnd(lines, r)
  BY <1>1, <1>2
<1> QED
  BY <1>2, <1>3, <1>4, <1>5, <1>6, <1>7

\* A line that is cut, when there is one after it.
LEMMA CutTurns ==
  ASSUME NEW S, Break \notin S, NEW lines \in LinesOf(S), NEW r \in 1..(Len(lines) - 1),
         NEW c \in 0..Len(lines[r]), NEW chars, NEW page,
         NEW e, e = Exchanged(lines, r - 1, <<>>, r)
  PROVE  Turns_(lines, r, c, e, r, 0, chars, page)
<1> DEFINE C == S \cup {Break}
           t == Text!Join(lines)
           u == Text!Join(e)
           o == PlaceAt(lines, r, c)
           i == Edge(lines, r - 1)
           j == SpanEnd(lines, r) + 1
<1>1. lines \in LinesOf(C) /\ Break \in C
  BY Widened
<1> HIDE DEF C
<1>2. /\ Len(lines) \in Nat /\ r \in 1..Len(lines) /\ r + 1 \in 1..Len(lines) /\ t \in Seq(C)
      /\ Len(t) \in Nat
  <2>1. Len(lines) \in Nat /\ t \in Seq(C)
    BY <1>1, LinesAre, JoinType
  <2>2. r \in 1..Len(lines) /\ r + 1 \in 1..Len(lines)
    BY <2>1
  <2> QED
    BY <2>1, <2>2, LenProperties
<1>3. u = Exchanged(t, i, <<>>, j) /\ PlaceAt(e, r, 0) = i
  BY <1>1, CutBefore
<1>4. j \in 1..Len(t) /\ t[j] = Break /\ Edge(lines, r) = j
  BY <1>1, BreakThere
<1>5. /\ PlaceAt(lines, r, 0) = i /\ i \in Nat /\ i <= SpanEnd(lines, r) /\ SpanEnd(lines, r) \in Nat
      /\ Begins_(t, i) /\ (i # 0 => t[i] = Break)
  BY <1>1, <1>2, RowStart
<1>6. PlaceAt(lines, r + 1, 0) = j
  BY <1>1, AcrossBreak
<1>7. o \in Nat /\ o <= SpanEnd(lines, r) /\ i <= o
  BY <1>1, <1>2, PlaceInText
<1>8. i \in 0..o /\ j \in o..Len(t) /\ i \in 0..Len(t) /\ j \in i..Len(t) /\ j \in (i + 1)..j /\ j \in Nat
  BY <1>2, <1>4, <1>5, <1>7
<1>9. 0 \in 0..Len(lines[r]) /\ 0 \in 0..Len(lines[r + 1])
  BY <1>2, LinesAre, LenProperties
<1>10. Spanned(t, i, o) = 0
  <2>1. Spanned(t, PlaceAt(lines, r, 0), o) = 0
    <3> DEFINE z == Spanned(t, PlaceAt(lines, r, 0), o)
    <3>1. r <= r
      BY <1>2
    <3>2. z \in Nat /\ (r <= r => z = 0)
      BY <1>2, <1>9, SpanBound
    <3> HIDE DEF z
    <3> QED
      BY <3>1, <3>2 DEF z
  <2> QED
    BY <1>5, <2>1
<1>11. Spanned(t, i, j) = 1
  <2> DEFINE z == Spanned(t, PlaceAt(lines, r, 0), PlaceAt(lines, r + 1, 0))
             q == r + 1
  <2>0. q \in 1..Len(lines) /\ 0 \in 0..Len(lines[q])
    BY <1>2, <1>9
  <2>1. z \in Nat /\ (r <= q => z <= q - r)
    <3> HIDE DEF q
    <3>1. Spanned(t, PlaceAt(lines, r, 0), PlaceAt(lines, q, 0)) \in Nat
          /\ (r <= q => Spanned(t, PlaceAt(lines, r, 0), PlaceAt(lines, q, 0)) <= q - r)
      BY <1>2, <1>9, <2>0, SpanBound
    <3> QED
      BY <3>1 DEF q
  <2>2. r <= q /\ q - r = 1
    BY <1>2
  <2>3. z = Spanned(t, i, j)
    BY <1>5, <1>6
  <2> HIDE DEF z, q, t, i, j
  <2>4. Spanned(t, i, j) \in Nat /\ Spanned(t, i, j) <= 1
    BY <2>1, <2>2, <2>3
  <2> QED
    BY <1>4, <1>5, <1>8, <2>4, SomeBreak
<1> HIDE DEF t, o, i, j
<1>12. Len(u) \in Nat /\ i <= Len(u) /\ \A k \in 1..i : u[k] = t[k]
  BY <1>2, <1>3, <1>8, BeforeCut
<1> HIDE DEF u
<1>13. i \in 0..Len(u) /\ Begins_(u, i)
  <2>1. i # 0 => i \in 1..i
    BY <1>5
  <2> QED
    BY <1>5, <1>12, <2>1 DEF Begins_
<1>14. CutsOut(t, o, u, i)
  BY <1>3, <1>4, <1>5, <1>8, <1>10, <1>11, <1>13 DEF CutsOut
<1>15. Becomes(t, o, u, PlaceAt(e, r, 0), chars, page)
  BY <1>3, <1>14 DEF Becomes
<1> QED
  BY <1>15 DEF Turns_, t, o, u

\* The last line, with the break before it.
LEMMA LastCutTurns ==
  ASSUME NEW S, Break \notin S, NEW lines \in LinesOf(S), NEW r \in 1..Len(lines), r = Len(lines),
         NEW k \in 1..(Len(lines) - 1), r = k + 1,
         NEW c \in 0..Len(lines[r]), NEW chars, NEW page,
         NEW e, e = Exchanged(lines, r - 1, <<>>, r)
  PROVE  Turns_(lines, r, c, e, k, 0, chars, page)
<1> DEFINE C == S \cup {Break}
           t == Text!Join(lines)
           u == Text!Join(e)
           o == PlaceAt(lines, r, c)
           i == SpanEnd(lines, k)
           j == Len(t)
           p == Edge(lines, k - 1)
<1>1. lines \in LinesOf(C) /\ Break \in C
  BY Widened
<1> HIDE DEF C
<1>2. Len(lines) \in Nat /\ k \in 1..Len(lines) /\ t \in Seq(C) /\ Len(t) \in Nat
  <2>1. Len(lines) \in Nat /\ t \in Seq(C)
    BY <1>1, LinesAre, JoinType
  <2>2. k \in 1..Len(lines)
    BY <2>1
  <2> QED
    BY <2>1, <2>2, LenProperties
<1>3. u = Exchanged(t, i, <<>>, j) /\ PlaceAt(e, k, 0) = p
  BY <1>1, CutLast
<1>4. i + 1 \in 1..Len(t) /\ t[i + 1] = Break /\ Edge(lines, k) = i + 1
  BY <1>1, BreakThere
<1>5. p \in Nat /\ p <= i /\ i \in Nat /\ i <= Len(t) /\ (p # 0 => t[p] = Break)
      /\ PlaceAt(lines, k, Len(lines[k])) = i
  BY <1>1, <1>2, RowStart
<1>6. o \in Nat /\ o <= SpanEnd(lines, r) /\ Edge(lines, r - 1) <= o /\ SpanEnd(lines, r) \in Nat
      /\ SpanEnd(lines, r) <= Len(t)
  BY <1>1, PlaceInText
<1>7. r - 1 = k
  BY <1>2
<1>8. PlaceAt(lines, r, Len(lines[r])) = j
  <2>1. PlaceAt(lines, r, Len(lines[r])) = SpanEnd(lines, r)
    BY <1>1, RowStart
  <2>2. SpanEnd(lines, Len(lines)) = Len(t)
    BY <1>1, WholeText
  <2> QED
    BY <2>1, <2>2
<1>9. /\ i \in 0..o /\ j \in o..Len(t) /\ i \in 0..Len(t) /\ j \in i..Len(t) /\ i + 1 \in (i + 1)..j
      /\ j \in Nat /\ i < o
  <2>1. i + 1 <= o
    BY <1>4, <1>6, <1>7
  <2> QED
    BY <1>2, <1>4, <1>5, <1>6, <2>1
<1>10. Len(lines[k]) \in 0..Len(lines[k]) /\ Len(lines[r]) \in 0..Len(lines[r])
  BY <1>2, LinesAre, LenProperties
<1>11. Spanned(t, i, j) = 1
  <2> DEFINE z == Spanned(t, PlaceAt(lines, k, Len(lines[k])), PlaceAt(lines, r, Len(lines[r])))
  <2>1. z \in Nat /\ (k <= r => z <= r - k)
    BY <1>2, <1>10, SpanBound
  <2>2. k <= r /\ r - k = 1
    BY <1>2
  <2>3. z = Spanned(t, i, j)
    BY <1>5, <1>8
  <2> HIDE DEF z, t, i, j
  <2>4. Spanned(t, i, j) \in Nat /\ Spanned(t, i, j) <= 1
    BY <2>1, <2>2, <2>3
  <2> QED
    BY <1>4, <1>5, <1>9, <2>4, SomeBreak
<1> HIDE DEF t, o, i, p
<1>12. Len(u) \in Nat /\ i <= Len(u) /\ \A g \in 1..i : u[g] = t[g]
  <2> HIDE DEF u, j
  <2> QED
    BY <1>2, <1>3, <1>9, BeforeCut
<1> HIDE DEF u
<1>13. p \in 0..Len(u) /\ Begins_(u, p)
  <2>1. p # 0 => p \in 1..i
    BY <1>5
  <2> QED
    BY <1>5, <1>12, <2>1 DEF Begins_
<1>14. CutsOut(t, o, u, p)
  BY <1>3, <1>4, <1>9, <1>11, <1>13 DEF CutsOut, j
<1>15. Becomes(t, o, u, PlaceAt(e, k, 0), chars, page)
  BY <1>3, <1>14 DEF Becomes
<1> QED
  BY <1>15 DEF Turns_, t, o, u

\* The only line.
LEMMA OnlyCutTurns ==
  ASSUME NEW S, Break \notin S, NEW lines \in LinesOf(S), Len(lines) = 1,
         NEW c \in 0..Len(lines[1]), NEW chars, NEW page
  PROVE  Turns_(lines, 1, c, <<<<>>>>, 1, 0, chars, page)
<1> DEFINE C == S \cup {Break}
           e == <<<<>>>>
           t == Text!Join(lines)
           u == Text!Join(e)
           o == PlaceAt(lines, 1, c)
           j == Len(t)
<1>1. lines \in LinesOf(C) /\ Break \in C
  BY Widened
<1> HIDE DEF C
<1>2. 1 \in 1..Len(lines) /\ t \in Seq(C) /\ Len(t) \in Nat
  BY <1>1, JoinType, LenProperties
<1>3. <<>> \in Seq(C) /\ Len(<<>>) = 0
  BY EmptySeq
<1>4. e \in LinesOf(C) /\ u = <<>> /\ 1 \in 1..Len(e) /\ e[1] = <<>>
  <2> DEFINE l == <<>>
             x == <<l>>
  <2>1. l \in Seq(C)
    BY <1>3
  <2> HIDE DEF l
  <2>2. x \in LinesOf(C) /\ Len(x) = 1
    BY <2>1, OneLine
  <2>3. Text!Join(x) = l
    BY <1>1, <2>1, JoinOne
  <2>4. x[1] = l
    OBVIOUS
  <2> HIDE DEF x
  <2> QED
    BY <2>2, <2>3, <2>4 DEF x, l
<1>5. Edge(lines, 1 - 1) = 0 /\ Edge(e, 1 - 1) = 0
  BY EdgeFirst
<1>6. PlaceAt(e, 1, 0) = 0
  <2>1. 0 \in 0..Len(e[1])
    BY <1>3, <1>4
  <2> HIDE DEF e
  <2>2. PlaceAt(e, 1, 0) = Edge(e, 1 - 1) + 0
    BY <1>1, <1>4, <2>1, PlaceIs
  <2> QED
    BY <1>5, <2>2
<1>7. /\ PlaceAt(lines, 1, 0) = 0 /\ PlaceAt(lines, 1, Len(lines[1])) = SpanEnd(lines, 1)
      /\ Begins_(t, 0)
  BY <1>1, <1>2, <1>5, RowStart
<1>8. SpanEnd(lines, 1) = j
  <2>1. SpanEnd(lines, Len(lines)) = Len(t)
    BY <1>1, WholeText
  <2> QED
    BY <2>1
<1>9. o \in Nat /\ o <= SpanEnd(lines, 1)
  BY <1>1, <1>2, PlaceInText
<1>10. 0 \in 0..Len(lines[1]) /\ Len(lines[1]) \in 0..Len(lines[1])
  BY <1>2, LinesAre, LenProperties
<1>11. Spanned(t, 0, o) = 0 /\ Spanned(t, 0, j) = 0
  <2> DEFINE y == Spanned(t, PlaceAt(lines, 1, 0), o)
             z == Spanned(t, PlaceAt(lines, 1, 0), PlaceAt(lines, 1, Len(lines[1])))
  <2>1. y \in Nat /\ (1 <= 1 => y = 0)
    BY <1>2, <1>10, SpanBound
  <2>2. z \in Nat /\ (1 <= 1 => z = 0)
    BY <1>2, <1>10, SpanBound
  <2>3. y = 0 /\ z = 0
    <3> HIDE DEF y, z
    <3> QED
      BY <2>1, <2>2
  <2> QED
    BY <1>7, <1>8, <2>3
<1>12. u = Exchanged(t, 0, <<>>, j)
  <2> HIDE DEF t, u
  <2>1. SubSeq(t, 1, 0) = <<>> /\ SubSeq(t, j + 1, Len(t)) = <<>>
    BY <1>2
  <2>2. Exchanged(t, 0, <<>>, j) = <<>> \o <<>> \o <<>>
    BY <2>1 DEF Exchanged
  <2>3. <<>> \o <<>> \o <<>> = <<>>
    OBVIOUS
  <2> QED
    BY <1>4, <2>2, <2>3
<1> HIDE DEF t, o
<1>13. 0 \in 0..o /\ j \in o..Len(t) /\ 0 \in 0..Len(u)
  BY <1>2, <1>3, <1>4, <1>8, <1>9
<1> HIDE DEF u
<1>14. Begins_(u, 0)
  BY DEF Begins_
<1>15. CutsOut(t, o, u, 0)
  BY <1>7, <1>11, <1>12, <1>13, <1>14 DEF CutsOut
<1>16. Becomes(t, o, u, PlaceAt(e, 1, 0), chars, page)
  BY <1>6, <1>15 DEF Becomes
<1> QED
  BY <1>16 DEF Turns_, t, o, u

LEMMA EditedFields ==
  ASSUME NEW b \in BufferOf, NEW lines, NEW cx, NEW cy
  PROVE  /\ Text!Edited(b, lines, cx, cy).lines = lines /\ Text!Edited(b, lines, cx, cy).cx = cx
         /\ Text!Edited(b, lines, cx, cy).cy = cy
         /\ Text!Moved(b, cx, cy).lines = b.lines /\ Text!Moved(b, cx, cy).cx = cx
         /\ Text!Moved(b, cx, cy).cy = cy
BY DEF Text!Edited, Text!Moved, BufferOf

\* From the buffer b to the buffer a.
NanoTurns(b, a, chars) == Turns_(b.lines, b.cy, b.cx, a.lines, a.cy, a.cx, chars, TextRows)

LEMMA InkedNoBreak == Break \notin Inked
BY InkedFacts

LEMMA NoTurn == ASSUME NEW b, NEW chars PROVE NanoTurns(b, b, chars)
BY DEF NanoTurns, Turns_, Becomes

LEMMA InsertCharTurns ==
  ASSUME NEW b \in Places, NEW chars, NEW c \in chars, c \in Inked
  PROVE  NanoTurns(b, Text!InsertChar(b, c), chars)
<1> DEFINE l == b.lines[b.cy]
           e == Exchanged(b.lines, b.cy - 1, <<Exchanged(l, b.cx, <<c>>, b.cx)>>, b.cy)
<1>1. /\ b \in BufferOf /\ b.lines \in LinesOf(Inked) /\ b.cy \in 1..Len(b.lines)
      /\ b.cx \in 0..Len(l) /\ Len(b.lines) \in Nat
  BY PlaceFacts
<1>2. Text!InsertChar(b, c) = Text!Edited(b, e, b.cx + 1, (b.cy - 1) + 1)
  BY InsertCharIs
<1>3. (b.cy - 1) + 1 = b.cy
  BY <1>1
<1>4. Turns_(b.lines, b.cy, b.cx, e, b.cy, b.cx + 1, chars, TextRows)
  <2>1. e = Exchanged(b.lines, b.cy - 1, <<Exchanged(b.lines[b.cy], b.cx, <<c>>, b.cx)>>, b.cy)
    OBVIOUS
  <2> DEFINE lines == b.lines
             r == b.cy
             x == b.cx
  <2>2. /\ lines \in LinesOf(Inked) /\ r \in 1..Len(lines) /\ x \in 0..Len(lines[r])
        /\ e = Exchanged(lines, r - 1, <<Exchanged(lines[r], x, <<c>>, x)>>, r)
    BY <1>1
  <2> HIDE DEF e, lines, r, x
  <2>3. Turns_(lines, r, x, e, r, x + 1, chars, TextRows)
    BY <2>2, TypeTurns
  <2> QED
    BY <2>3 DEF lines, r, x
<1> HIDE DEF e
<1> QED
  BY <1>1, <1>2, <1>3, <1>4, EditedFields DEF NanoTurns

LEMMA InsertNewlineTurns ==
  ASSUME NEW b \in Places, NEW chars
  PROVE  NanoTurns(b, Text!InsertNewline(b), chars)
<1> DEFINE lines == b.lines
           r == b.cy
           x == b.cx
           e == Exchanged(lines, r - 1, Broken(lines[r], x), r)
<1>1. /\ b \in BufferOf /\ lines \in LinesOf(Inked) /\ r \in 1..Len(lines)
      /\ x \in 0..Len(lines[r]) /\ Len(lines) \in Nat
  BY PlaceFacts
<1>2. Text!InsertNewline(b) = Text!Edited(b, e, 0, (r - 1) + 2)
  BY InsertNewlineIs DEF Broken
<1>3. e = Exchanged(lines, r - 1, Broken(lines[r], x), r)
  OBVIOUS
<1> HIDE DEF lines, r, x, e
<1>4. (r - 1) + 2 = r + 1
  BY <1>1
<1>5. Turns_(lines, r, x, e, r + 1, 0, chars, TextRows)
  BY <1>1, <1>3, NewlineTurns
<1> QED
  BY <1>1, <1>2, <1>4, <1>5, EditedFields DEF NanoTurns, lines, r, x

\* A character before the cursor, or after it, goes.
LEMMA CharGone ==
  ASSUME NEW b \in Places, NEW chars, NEW k \in 1..Len(b.lines[b.cy]), NEW cx,
         \/ k = b.cx /\ cx = k - 1
         \/ k = b.cx + 1 /\ cx = b.cx
  PROVE  NanoTurns(b, Text!Edited(b, [b.lines EXCEPT ![b.cy] = Text!RemoveAt(@, k)], cx, b.cy), chars)
<1> DEFINE lines == b.lines
           r == b.cy
           x == b.cx
           e == Exchanged(lines, r - 1, <<Exchanged(lines[r], k - 1, <<>>, k)>>, r)
<1>1. /\ b \in BufferOf /\ lines \in LinesOf(Inked) /\ r \in 1..Len(lines)
      /\ x \in 0..Len(lines[r]) /\ Len(lines) \in Nat /\ Len(lines[r]) \in Nat
  BY PlaceFacts, LenProperties
<1>2. Text!Edited(b, [lines EXCEPT ![r] = Text!RemoveAt(@, k)], cx, r) =
        Text!Edited(b, e, cx, (r - 1) + 1)
  BY CharRemovedIs
<1>3. e = Exchanged(lines, r - 1, <<Exchanged(lines[r], k - 1, <<>>, k)>>, r)
  OBVIOUS
<1>4. k \in 1..Len(lines[r]) /\ ((k = x /\ cx = k - 1) \/ (k = x + 1 /\ cx = x))
  OBVIOUS
<1> HIDE DEF lines, r, x, e
<1>5. (r - 1) + 1 = r
  BY <1>1
<1>6. Turns_(lines, r, x, e, r, cx, chars, TextRows)
  <2>1. CASE k = x /\ cx = k - 1
    <3>1. x \in 1..Len(lines[r]) /\ e = Exchanged(lines, r - 1, <<Exchanged(lines[r], x - 1, <<>>, x)>>, r)
      BY <1>3, <1>4, <2>1
    <3>2. Turns_(lines, r, x, e, r, x - 1, chars, TextRows)
      BY <1>1, <3>1, RubTurns
    <3> QED
      BY <2>1, <3>2
  <2>2. CASE k = x + 1 /\ cx = x
    <3>1. x \in 0..(Len(lines[r]) - 1) /\ k = x + 1
      BY <1>1, <1>4, <2>2
    <3>2. Turns_(lines, r, x, e, r, x, chars, TextRows)
      BY <1>1, <1>3, <3>1, ZapTurns
    <3> QED
      BY <2>2, <3>2
  <2> QED
    BY <1>4, <2>1, <2>2
<1> QED
  BY <1>1, <1>2, <1>5, <1>6, EditedFields DEF NanoTurns, lines, r, x

LEMMA JoinedTurns ==
  ASSUME NEW b \in Places, NEW chars, NEW k \in 1..(Len(b.lines) - 1),
         NEW cx, cx = Len(b.lines[k]),
         (b.cy = k + 1 /\ b.cx = 0) \/ (b.cy = k /\ b.cx = cx)
  PROVE  NanoTurns(b, Text!Edited(b, Text!Joined(b, k), cx, k), chars)
<1> DEFINE lines == b.lines
           e == Exchanged(lines, k - 1, <<lines[k] \o lines[k + 1]>>, k + 1)
<1>1. b \in BufferOf /\ lines \in LinesOf(Inked) /\ Len(lines) \in Nat
  BY PlaceFacts
<1>2. Text!Edited(b, Text!Joined(b, k), cx, k) =
        Text!Edited(b, Exchanged(lines, k - 1, <<lines[k] \o lines[k + 1]>>, (k - 1) + 2), cx, (k - 1) + 1)
  BY JoinedIs
<1>3. (k - 1) + 2 = k + 1 /\ (k - 1) + 1 = k
  BY <1>1
<1>4. Text!Edited(b, Text!Joined(b, k), cx, k) = Text!Edited(b, e, cx, k)
  BY <1>2, <1>3
<1>5. e = Exchanged(lines, k - 1, <<lines[k] \o lines[k + 1]>>, k + 1) /\ k \in 1..(Len(lines) - 1)
      /\ cx = Len(lines[k])
  OBVIOUS
<1> HIDE DEF lines, e
<1>6. /\ Turns_(lines, k + 1, 0, e, k, Len(lines[k]), chars, TextRows)
      /\ Turns_(lines, k, Len(lines[k]), e, k, Len(lines[k]), chars, TextRows)
  BY <1>1, <1>5, JoinTurns
<1>7. Turns_(lines, b.cy, b.cx, e, k, cx, chars, TextRows)
  BY <1>5, <1>6
<1> QED
  BY <1>1, <1>4, <1>7, EditedFields DEF NanoTurns, lines

LEMMA BackspaceTurns ==
  ASSUME NEW b \in Places, NEW chars
  PROVE  NanoTurns(b, Text!Backspace(b), chars)
<1>1. /\ Len(b.lines) \in Nat /\ b.cy \in 1..Len(b.lines) /\ b.cx \in 0..Len(b.lines[b.cy])
      /\ Len(b.lines[b.cy]) \in Nat
  BY PlaceFacts, LenProperties
<1>2. CASE b.cx > 0
  <2>1. b.cx \in 1..Len(b.lines[b.cy])
    BY <1>1, <1>2
  <2> QED
    BY <1>2, <2>1, CharGone DEF Text!Backspace
<1>3. CASE ~(b.cx > 0) /\ b.cy > 1
  <2> DEFINE k == b.cy - 1
  <2>1. k \in 1..(Len(b.lines) - 1) /\ b.cy = k + 1 /\ b.cx = 0
    BY <1>1, <1>3
  <2>2. Text!Backspace(b) = Text!Edited(b, Text!Joined(b, k), Len(b.lines[k]), k)
    BY <1>3 DEF Text!Backspace
  <2> HIDE DEF k
  <2> QED
    BY <2>1, <2>2, JoinedTurns
<1>4. CASE ~(b.cx > 0) /\ ~(b.cy > 1)
  BY <1>4, NoTurn DEF Text!Backspace
<1> QED
  BY <1>2, <1>3, <1>4

LEMMA DeleteTurns ==
  ASSUME NEW b \in Places, NEW chars
  PROVE  NanoTurns(b, Text!Delete(b), chars)
<1>1. /\ Len(b.lines) \in Nat /\ b.cy \in 1..Len(b.lines) /\ b.cx \in 0..Len(b.lines[b.cy])
      /\ Len(b.lines[b.cy]) \in Nat
  BY PlaceFacts, LenProperties
<1>2. CASE b.cx < Text!CurLen(b)
  <2>1. b.cx + 1 \in 1..Len(b.lines[b.cy])
    BY <1>1, <1>2, LineIs
  <2> QED
    BY <1>2, <2>1, CharGone DEF Text!Delete
<1>3. CASE ~(b.cx < Text!CurLen(b)) /\ b.cy < Text!LastLine(b)
  <2>1. b.cy \in 1..(Len(b.lines) - 1) /\ b.cx = Len(b.lines[b.cy])
    BY <1>1, <1>3, LineIs DEF Text!LastLine
  <2>2. Text!Delete(b) = Text!Edited(b, Text!Joined(b, b.cy), b.cx, b.cy)
    BY <1>3 DEF Text!Delete
  <2> QED
    BY <2>1, <2>2, JoinedTurns
<1>4. CASE ~(b.cx < Text!CurLen(b)) /\ ~(b.cy < Text!LastLine(b))
  BY <1>4, NoTurn DEF Text!Delete
<1> QED
  BY <1>2, <1>3, <1>4

LEMMA CutLineTurns ==
  ASSUME NEW b \in Places, NEW chars
  PROVE  NanoTurns(b, Text!CutLine(b), chars)
<1> DEFINE lines == b.lines
           r == b.cy
           x == b.cx
<1>1. /\ b \in BufferOf /\ lines \in LinesOf(Inked) /\ r \in 1..Len(lines)
      /\ x \in 0..Len(lines[r]) /\ Len(lines) \in Nat \ {0} /\ lines \in Seq(Seq(Inked))
  BY PlaceFacts
<1>2. CASE Len(lines) = 1
  <2>1. Text!CutLine(b) = Text!Edited(b, <<<<>>>>, 0, 1)
    BY <1>2 DEF Text!CutLine, Text!LastLine
  <2>2. r = 1
    BY <1>1, <1>2
  <2> HIDE DEF lines, r, x
  <2>3. Turns_(lines, 1, x, <<<<>>>>, 1, 0, chars, TextRows)
    BY <1>1, <1>2, <2>2, InkedNoBreak, OnlyCutTurns
  <2> QED
    BY <1>1, <2>1, <2>2, <2>3, EditedFields DEF NanoTurns, lines, r, x
<1>3. CASE Len(lines) # 1
  <2> DEFINE e == Exchanged(lines, r - 1, <<>>, r)
             y == Text!Min({r, Len(lines) - 1})
             k == Len(lines) - 1
  <2>1. Text!CutLine(b) = Text!Edited(b, e, 0, y)
    <3>1. Text!RemoveAt(lines, r) = e
      <4> HIDE DEF lines, r
      <4> QED
        BY <1>1, RemoveIs
    <3> HIDE DEF e
    <3> QED
      BY <1>3, <3>1 DEF Text!CutLine, Text!LastLine
  <2> HIDE DEF lines, r, x
  <2>2. k \in Nat /\ k >= 1 /\ r \in Nat /\ Len(lines) = k + 1
    <3>1. \A n \in Nat \ {0} : n # 1 => n - 1 \in Nat /\ n - 1 >= 1 /\ n = (n - 1) + 1
      OBVIOUS
    <3>2. k \in Nat /\ k >= 1 /\ Len(lines) = k + 1
      BY <1>1, <1>3, <3>1
    <3> QED
      BY <1>1, <3>2
  <2>3. y = IF r <= k THEN r ELSE k
    BY <2>2, TextLesser
  <2>4. e = Exchanged(lines, r - 1, <<>>, r)
    OBVIOUS
  <2> HIDE DEF e, y, k
  <2>5. CASE r <= k
    <3>1. r \in 1..(Len(lines) - 1)
      BY <1>1, <2>2, <2>5
    <3>2. Turns_(lines, r, x, e, r, 0, chars, TextRows)
      BY <1>1, <2>4, <3>1, InkedNoBreak, CutTurns
    <3> QED
      BY <1>1, <2>1, <2>3, <2>5, <3>2, EditedFields DEF NanoTurns, lines, r, x
  <2>6. CASE ~(r <= k)
    <3>1. r = Len(lines) /\ k \in 1..(Len(lines) - 1) /\ r = k + 1
      BY <1>1, <2>2, <2>6
    <3>2. Turns_(lines, r, x, e, k, 0, chars, TextRows)
      BY <1>1, <2>4, <3>1, InkedNoBreak, LastCutTurns
    <3> QED
      BY <1>1, <2>1, <2>3, <2>6, <3>2, EditedFields DEF NanoTurns, lines, r, x
  <2> QED
    BY <2>5, <2>6
<1> QED
  BY <1>2, <1>3

\* To a place in the same lines so many rows away.
LEMMA MovedTurns ==
  ASSUME NEW b \in Places, NEW a \in Places, a.lines = b.lines, NEW chars,
         a.cy <= b.cy + TextRows, b.cy <= a.cy + TextRows
  PROVE  NanoTurns(b, a, chars)
<1> DEFINE lines == b.lines
           r == b.cy
           c == b.cx
           q == a.cy
           d == a.cx
<1>1. lines \in LinesOf(Inked) /\ r \in 1..Len(lines) /\ c \in 0..Len(lines[r])
  BY PlaceFacts
<1>2. q \in 1..Len(lines) /\ d \in 0..Len(lines[q])
  BY PlaceFacts
<1>3. q <= r + TextRows /\ r <= q + TextRows /\ TextRows \in Nat
  BY ProgramsAssumption
<1> HIDE DEF lines, r, c, q, d
<1>4. Turns_(lines, r, c, lines, q, d, chars, TextRows)
  BY <1>1, <1>2, <1>3, InkedNoBreak, JumpTurns
<1> QED
  BY <1>4 DEF NanoTurns, lines, r, c, q, d

LEMMA UpDownRows ==
  ASSUME NEW b \in Places
  PROVE  /\ Text!MoveUp(b) \in Places /\ Text!MoveUp(b).lines = b.lines
         /\ Text!MoveUp(b).cy <= b.cy /\ b.cy <= Text!MoveUp(b).cy + 1
         /\ Text!MoveDown(b) \in Places /\ Text!MoveDown(b).lines = b.lines
         /\ b.cy <= Text!MoveDown(b).cy /\ Text!MoveDown(b).cy <= b.cy + 1
<1>1. /\ Len(b.lines) \in Nat /\ b.cy \in 1..Len(b.lines)
      /\ Elsewhere(b, Text!MoveUp(b)) /\ Elsewhere(b, Text!MoveDown(b))
  BY PlaceFacts, UpDownMove
<1>2. Text!MoveUp(b).cy <= b.cy /\ b.cy <= Text!MoveUp(b).cy + 1
  <2>1. CASE b.cy > 1
    <3>1. b.cy - 1 \in 1..Len(b.lines)
      BY <1>1, <2>1
    <3>2. Text!MoveUp(b).cy = b.cy - 1
      BY <2>1, <3>1, ToLineMoves DEF Text!MoveUp
    <3> QED
      BY <1>1, <3>2
  <2>2. CASE ~(b.cy > 1)
    BY <1>1, <2>2 DEF Text!MoveUp
  <2> QED
    BY <2>1, <2>2
<1>3. b.cy <= Text!MoveDown(b).cy /\ Text!MoveDown(b).cy <= b.cy + 1
  <2>1. CASE b.cy < Text!LastLine(b)
    <3>1. b.cy + 1 \in 1..Len(b.lines)
      BY <1>1, <2>1 DEF Text!LastLine
    <3>2. Text!MoveDown(b).cy = b.cy + 1
      BY <2>1, <3>1, ToLineMoves DEF Text!MoveDown
    <3> QED
      BY <1>1, <3>2
  <2>2. CASE ~(b.cy < Text!LastLine(b))
    BY <1>1, <2>2 DEF Text!MoveDown
  <2> QED
    BY <2>1, <2>2
<1> QED
  BY <1>1, <1>2, <1>3 DEF Elsewhere

LEMMA PagedTurns ==
  ASSUME NEW b \in Places, NEW up \in BOOLEAN, NEW chars
  PROVE  NanoTurns(b, Text!Paged(b, up), chars)
<1>1. PICK w : IsPaged(w, b, up) /\ Text!Paged(b, up) = w[TextRows]
  BY PagedIs
<1>2. TextRows \in Nat
  BY ProgramsAssumption
<1> DEFINE H == {n \in Nat : n <= TextRows =>
                   /\ w[n] \in Places /\ w[n].lines = b.lines
                   /\ w[n].cy <= b.cy + n /\ b.cy <= w[n].cy + n}
<1>3. b.cy \in Nat
  BY PlaceFacts
<1>4. 0 \in H
  BY <1>1, <1>3 DEF IsPaged
<1>5. ASSUME NEW n \in Nat, n \in H PROVE n + 1 \in H
  <2>1. CASE n + 1 <= TextRows
    <3>1. n + 1 \in 1..TextRows /\ (n + 1) - 1 = n /\ n <= TextRows
      BY <1>2, <2>1
    <3>2. w[n + 1] = IF up THEN Text!MoveUp(w[n]) ELSE Text!MoveDown(w[n])
      BY <1>1, <3>1 DEF IsPaged
    <3>3. w[n] \in Places /\ w[n].lines = b.lines /\ w[n].cy <= b.cy + n /\ b.cy <= w[n].cy + n
      BY <1>5, <3>1
    <3>4. /\ w[n + 1] \in Places /\ w[n + 1].lines = b.lines
          /\ w[n + 1].cy <= w[n].cy + 1 /\ w[n].cy <= w[n + 1].cy + 1
      <4>1. w[n].cy \in Nat
        BY <3>3, PlaceFacts
      <4>2. CASE up
        <5>1. /\ w[n + 1] \in Places /\ w[n + 1].lines = w[n].lines
              /\ w[n + 1].cy <= w[n].cy /\ w[n].cy <= w[n + 1].cy + 1
          BY <3>2, <3>3, <4>2, UpDownRows
        <5>2. w[n + 1].cy \in Nat
          BY <5>1, PlaceFacts
        <5> QED
          BY <3>3, <4>1, <5>1, <5>2
      <4>3. CASE ~up
        <5>1. /\ w[n + 1] \in Places /\ w[n + 1].lines = w[n].lines
              /\ w[n + 1].cy <= w[n].cy + 1 /\ w[n].cy <= w[n + 1].cy
          BY <3>2, <3>3, <4>3, UpDownRows
        <5>2. w[n + 1].cy \in Nat
          BY <5>1, PlaceFacts
        <5> QED
          BY <3>3, <4>1, <5>1, <5>2
      <4> QED
        BY <4>2, <4>3
    <3>5. w[n].cy \in Nat /\ w[n + 1].cy \in Nat
      BY <3>3, <3>4, PlaceFacts
    <3>6. w[n + 1].cy <= b.cy + (n + 1) /\ b.cy <= w[n + 1].cy + (n + 1)
      BY <1>3, <3>3, <3>4, <3>5
    <3> QED
      BY <3>4, <3>6
  <2>2. CASE ~(n + 1 <= TextRows)
    BY <2>2
  <2> QED
    BY <2>1, <2>2
<1>6. Nat \subseteq H
  <2> HIDE DEF H
  <2> QED
    BY <1>4, <1>5, Inductive
<1>7. /\ w[TextRows] \in Places /\ w[TextRows].lines = b.lines
      /\ w[TextRows].cy <= b.cy + TextRows /\ b.cy <= w[TextRows].cy + TextRows
  BY <1>2, <1>6
<1> QED
  BY <1>1, <1>7, MovedTurns

LEMMA UpDownTurns ==
  ASSUME NEW b \in Places, NEW chars
  PROVE  NanoTurns(b, Text!MoveUp(b), chars) /\ NanoTurns(b, Text!MoveDown(b), chars)
<1>1. TextRows \in Nat /\ TextRows >= 1 /\ b.cy \in Nat
  BY ProgramsAssumption, PlaceFacts
<1>2. NanoTurns(b, Text!MoveUp(b), chars)
  <2> DEFINE a == Text!MoveUp(b)
  <2>1. a \in Places /\ a.lines = b.lines /\ a.cy <= b.cy /\ b.cy <= a.cy + 1
    BY UpDownRows
  <2> HIDE DEF a
  <2>2. a.cy \in Nat
    BY <2>1, PlaceFacts
  <2>3. a.cy <= b.cy + TextRows /\ b.cy <= a.cy + TextRows
    BY <1>1, <2>1, <2>2
  <2>4. NanoTurns(b, a, chars)
    BY <2>1, <2>3, MovedTurns
  <2> QED
    BY <2>4 DEF a
<1>3. NanoTurns(b, Text!MoveDown(b), chars)
  <2> DEFINE a == Text!MoveDown(b)
  <2>1. a \in Places /\ a.lines = b.lines /\ b.cy <= a.cy /\ a.cy <= b.cy + 1
    BY UpDownRows
  <2> HIDE DEF a
  <2>2. a.cy \in Nat
    BY <2>1, PlaceFacts
  <2>3. a.cy <= b.cy + TextRows /\ b.cy <= a.cy + TextRows
    BY <1>1, <2>1, <2>2
  <2>4. NanoTurns(b, a, chars)
    BY <2>1, <2>3, MovedTurns
  <2> QED
    BY <2>4 DEF a
<1> QED
  BY <1>2, <1>3

LEMMA InRowTurns ==
  ASSUME NEW b \in Places, NEW cx \in 0..Len(b.lines[b.cy]), NEW chars
  PROVE  NanoTurns(b, Text!Moved(b, cx, b.cy), chars)
<1> DEFINE a == Text!Moved(b, cx, b.cy)
<1>1. b \in BufferOf /\ b.cy \in 1..Len(b.lines) /\ Len(b.lines) \in Nat /\ TextRows \in Nat
  BY PlaceFacts, ProgramsAssumption
<1>2. a \in Places /\ a.lines = b.lines /\ a.cy = b.cy
  BY <1>1, MovedPlace
<1> HIDE DEF a
<1>3. a.cy <= b.cy + TextRows /\ b.cy <= a.cy + TextRows
  BY <1>1, <1>2
<1>4. NanoTurns(b, a, chars)
  BY <1>2, <1>3, MovedTurns
<1> QED
  BY <1>4 DEF a

LEMMA LeftRightTurns ==
  ASSUME NEW b \in Places, NEW chars
  PROVE  NanoTurns(b, Text!MoveLeft(b), chars) /\ NanoTurns(b, Text!MoveRight(b), chars)
<1> DEFINE lines == b.lines
           r == b.cy
           c == b.cx
<1>1. /\ b \in BufferOf /\ lines \in LinesOf(Inked) /\ Len(lines) \in Nat /\ r \in 1..Len(lines)
      /\ c \in 0..Len(lines[r]) /\ Len(lines[r]) \in Nat
  BY PlaceFacts, LenProperties
<1>2. ASSUME NEW cx, NEW cy, Turns_(lines, r, c, lines, cy, cx, chars, TextRows)
      PROVE  NanoTurns(b, Text!Moved(b, cx, cy), chars)
  BY <1>1, <1>2, EditedFields DEF NanoTurns
<1>3. NanoTurns(b, Text!MoveLeft(b), chars)
  <2>1. CASE b.cx > 0
    <3>1. c \in 1..Len(lines[r])
      BY <1>1, <2>1
    <3>2. Text!MoveLeft(b) = Text!Moved(b, c - 1, r)
      BY <2>1 DEF Text!MoveLeft
    <3> HIDE DEF lines, r, c
    <3>3. Turns_(lines, r, c, lines, r, c - 1, chars, TextRows)
      BY <1>1, <3>1, SideTurns
    <3> QED
      BY <1>2, <3>2, <3>3
  <2>2. CASE ~(b.cx > 0) /\ b.cy > 1
    <3> DEFINE k == r - 1
    <3>1. k \in 1..(Len(lines) - 1) /\ r = k + 1 /\ c = 0
      BY <1>1, <2>2
    <3>2. Text!MoveLeft(b) = Text!Moved(b, Len(lines[k]), k)
      BY <2>2 DEF Text!MoveLeft
    <3> HIDE DEF lines, r, c, k
    <3>3. Turns_(lines, k + 1, 0, lines, k, Len(lines[k]), chars, TextRows)
      BY <1>1, <3>1, AcrossTurns
    <3>4. Turns_(lines, r, c, lines, k, Len(lines[k]), chars, TextRows)
      BY <3>1, <3>3
    <3> QED
      BY <1>2, <3>2, <3>4
  <2>3. CASE ~(b.cx > 0) /\ ~(b.cy > 1)
    BY <2>3, NoTurn DEF Text!MoveLeft
  <2> QED
    BY <2>1, <2>2, <2>3
<1>4. NanoTurns(b, Text!MoveRight(b), chars)
  <2>1. CASE b.cx < Text!CurLen(b)
    <3> DEFINE k == c + 1
    <3>1. k \in 1..Len(lines[r]) /\ k - 1 = c
      BY <1>1, <2>1, LineIs
    <3>2. Text!MoveRight(b) = Text!Moved(b, k, r)
      BY <2>1 DEF Text!MoveRight
    <3> HIDE DEF lines, r, c, k
    <3>3. Turns_(lines, r, k - 1, lines, r, k, chars, TextRows)
      BY <1>1, <3>1, SideTurns
    <3>4. Turns_(lines, r, c, lines, r, k, chars, TextRows)
      BY <3>1, <3>3
    <3> QED
      BY <1>2, <3>2, <3>4
  <2>2. CASE ~(b.cx < Text!CurLen(b)) /\ b.cy < Text!LastLine(b)
    <3>1. r \in 1..(Len(lines) - 1) /\ c = Len(lines[r])
      BY <1>1, <2>2, LineIs DEF Text!LastLine
    <3>2. Text!MoveRight(b) = Text!Moved(b, 0, r + 1)
      BY <2>2 DEF Text!MoveRight
    <3> HIDE DEF lines, r, c
    <3>3. Turns_(lines, r, Len(lines[r]), lines, r + 1, 0, chars, TextRows)
      BY <1>1, <3>1, AcrossTurns
    <3>4. Turns_(lines, r, c, lines, r + 1, 0, chars, TextRows)
      BY <3>1, <3>3
    <3> QED
      BY <1>2, <3>2, <3>4
  <2>3. CASE ~(b.cx < Text!CurLen(b)) /\ ~(b.cy < Text!LastLine(b))
    BY <2>3, NoTurn DEF Text!MoveRight
  <2> QED
    BY <2>1, <2>2, <2>3
<1> QED
  BY <1>3, <1>4

LEMMA ApplyTurns ==
  ASSUME NEW b \in Places, NEW key, NEW chars, Letters \subseteq chars
  PROVE  NanoTurns(b, Text!Apply(b, key), chars)
<1>1. /\ Len(b.lines[b.cy]) \in Nat /\ 0 \in 0..Len(b.lines[b.cy])
      /\ Text!CurLen(b) \in 0..Len(b.lines[b.cy])
  BY PlaceFacts, LenProperties, LineIs
<1>2. /\ NanoTurns(b, Text!Moved(b, 0, b.cy), chars)
      /\ NanoTurns(b, Text!Moved(b, Text!CurLen(b), b.cy), chars)
  BY <1>1, InRowTurns
<1>3. /\ NanoTurns(b, Text!MoveLeft(b), chars) /\ NanoTurns(b, Text!MoveRight(b), chars)
      /\ NanoTurns(b, Text!MoveUp(b), chars) /\ NanoTurns(b, Text!MoveDown(b), chars)
      /\ NanoTurns(b, Text!Paged(b, TRUE), chars) /\ NanoTurns(b, Text!Paged(b, FALSE), chars)
      /\ NanoTurns(b, Text!InsertNewline(b), chars) /\ NanoTurns(b, Text!CutLine(b), chars)
      /\ NanoTurns(b, Text!Backspace(b), chars) /\ NanoTurns(b, Text!Delete(b), chars)
      /\ NanoTurns(b, b, chars)
  BY LeftRightTurns, UpDownTurns, PagedTurns, InsertNewlineTurns, CutLineTurns, BackspaceTurns,
     DeleteTurns, NoTurn
<1>4. CASE key \in Letters
  <2>1. NanoTurns(b, Text!InsertChar(b, key), chars)
    BY <1>4, LettersInked, InsertCharTurns
  <2> QED
    BY <1>4, <2>1, ApplyIs
<1>5. CASE key \notin BufferKeys \cup Letters
  BY <1>3, <1>5, ApplyIs
<1>6. CASE key \in BufferKeys
  BY <1>2, <1>3, <1>6, ApplyIs DEF BufferKeys
<1> QED
  BY <1>4, <1>5, <1>6

TextChars == Letters \cup Text!Range(Text!Garbage)

\* What TextBuffer lets become of them, said with its operators.
LEMMA SaysNano ==
  ASSUME NanoTurns(buf, buf', TextChars), NEW S, Text!Join(buf.lines) \in Seq(S),
         PlaceAt(buf.lines, buf.cy, buf.cx) \in 0..Len(Text!Join(buf.lines))
  PROVE  Text!EditsText
<1> DEFINE t == Text!Join(buf.lines)
           o == PlaceAt(buf.lines, buf.cy, buf.cx)
           u == Text!Join(buf'.lines)
           p == PlaceAt(buf'.lines, buf'.cy, buf'.cx)
<1>1. Text!Offset = o /\ Text!Offset' = p
  BY DEF Text!Offset, Text!CurLen, Text!Line, PlaceAt
<1>2. Becomes(t, o, u, p, TextChars, TextRows)
  BY DEF NanoTurns, Turns_
<1>3. (Text!Join(buf.lines))' = u
  OBVIOUS
<1>4. ASSUME NEW i, NEW j PROVE Text!B!Breaks(i, j) = Spanned(t, i, j)
  BY DEF Text!B!Breaks, Spanned, Break, Text!B!Cardinality, Cardinality
<1>5. ASSUME NEW x, NEW i PROVE Text!B!Starts(x, i) <=> Begins_(x, i)
  BY DEF Text!B!Starts, Begins_, Break
<1>6. t \in Seq(S) /\ o \in 0..Len(t) /\ Len(t) \in Nat
  BY LenProperties
<1>7. ASSUME NEW i \in 0..Len(t), NEW j \in i..Len(t), u = Exchanged(t, i, <<>>, j)
      PROVE  Text!B!Without(i, j)
  <2> DEFINE a == SubSeq(t, 1, i)
             c == SubSeq(t, j + 1, Len(t))
  <2>1. a \in Seq(S)
    <3> HIDE DEF t
    <3> QED
      BY <1>6, CutOut
  <2>2. u = a \o <<>> \o c
    BY <1>7 DEF Exchanged
  <2>3. a \o <<>> = a
    <3> HIDE DEF a
    <3> QED
      BY <2>1
  <2>4. u = a \o c
    BY <2>2, <2>3
  <2> QED
    BY <1>3, <2>4 DEF Text!B!Without
<1>8. ASSUME u = t /\ p = o PROVE Text!EditsText
  BY <1>1, <1>3, <1>8 DEF Text!EditsText, Text!B!EditStep
<1>9. ASSUME Text!B!Next PROVE Text!EditsText
  BY <1>9 DEF Text!EditsText, Text!B!EditStep
<1>10. ASSUME NEW ch \in TextChars \cup {Break}, u = Exchanged(t, o, <<ch>>, o) /\ p = o + 1
       PROVE  Text!B!Next
  <2>1. Text!B!Type(ch)
    BY <1>1, <1>3, <1>10 DEF Text!B!Type, Exchanged
  <2> QED
    BY <2>1 DEF Text!B!Next, TextChars, Break
<1>11. ASSUME o > 0, u = Exchanged(t, o - 1, <<>>, o), p = o - 1 PROVE Text!B!Next
  <2>1. o - 1 \in 0..Len(t) /\ o \in (o - 1)..Len(t)
    <3> HIDE DEF o, t
    <3> QED
      BY <1>6, <1>11
  <2>2. Text!B!Without(o - 1, o)
    <3> DEFINE i == o - 1
    <3>1. i \in 0..Len(t) /\ o \in i..Len(t) /\ u = Exchanged(t, i, <<>>, o)
      BY <1>11, <2>1
    <3> HIDE DEF i, o, u, t
    <3>2. Text!B!Without(i, o)
      BY <1>7, <3>1
    <3> QED
      BY <3>2 DEF i
  <2>3. Text!B!Rub
    BY <1>1, <1>11, <2>2 DEF Text!B!Rub
  <2> QED
    BY <2>3 DEF Text!B!Next
<1>12. ASSUME o < Len(t), u = Exchanged(t, o, <<>>, o + 1), p = o PROVE Text!B!Next
  <2> DEFINE j == o + 1
  <2>1. j \in o..Len(t) /\ u = Exchanged(t, o, <<>>, j)
    <3> HIDE DEF o, t, u
    <3> QED
      BY <1>6, <1>12
  <2>2. Text!B!Without(o, o + 1)
    <3> HIDE DEF j, o, u, t
    <3>2. Text!B!Without(o, j)
      BY <1>6, <1>7, <2>1
    <3> QED
      BY <3>2 DEF j
  <2>3. Text!B!Zap
    BY <1>1, <1>12, <2>2 DEF Text!B!Zap
  <2> QED
    BY <2>3 DEF Text!B!Next
<1>13. ASSUME p \in {o - 1, o + 1}, u = t PROVE Text!B!Next
  <2>1. Text!B!Step
    BY <1>1, <1>3, <1>13 DEF Text!B!Step
  <2> QED
    BY <2>1 DEF Text!B!Next
<1>14. ASSUME p \in 0..Len(t), u = t, Spanned(t, o, p) <= TextRows, Spanned(t, p, o) <= TextRows
       PROVE  Text!B!Next
  <2>1. Text!B!Breaks(Text!Offset, Text!Offset') = Spanned(t, o, p)
    BY <1>1, <1>4
  <2>2. Text!B!Breaks(Text!Offset', Text!Offset) = Spanned(t, p, o)
    BY <1>1, <1>4
  <2>3. Text!B!Jump
    BY <1>1, <1>3, <1>14, <2>1, <2>2 DEF Text!B!Jump
  <2> QED
    BY <2>3 DEF Text!B!Next
<1>15. ASSUME CutsOut(t, o, u, p) PROVE Text!B!Next
  <2> HIDE DEF t, o, u, p
  <2>1. PICK i \in 0..o, j \in o..Len(t) :
          /\ u = Exchanged(t, i, <<>>, j)
          /\ \/ /\ Begins_(t, i) /\ Spanned(t, i, o) = 0
                /\ \/ Spanned(t, i, j) = 1 /\ t[j] = Break
                   \/ Spanned(t, i, j) = 0 /\ j = Len(t)
             \/ i < o /\ t[i + 1] = Break /\ Spanned(t, i, j) = 1 /\ j = Len(t)
          /\ p \in 0..Len(u) /\ Begins_(u, p)
    BY <1>15 DEF CutsOut
  <2>2. i \in 0..Len(t) /\ j \in i..Len(t)
    BY <1>6
  <2>3. Text!B!Without(i, j)
    BY <1>7, <2>1, <2>2
  <2>4. /\ Text!B!Breaks(i, Text!Offset) = Spanned(t, i, o)
        /\ Text!B!Breaks(i, j) = Spanned(t, i, j)
    BY <1>1, <1>4
  <2>5. (Text!B!Starts(t, i) <=> Begins_(t, i)) /\ (Text!B!Starts(u, p) <=> Begins_(u, p))
    BY <1>5
  <2>6. Text!B!Cut
    BY <1>1, <1>3, <2>1, <2>3, <2>4, <2>5 DEF Text!B!Cut, t, Break
  <2> QED
    BY <2>6 DEF Text!B!Next
<1> QED
  BY <1>2, <1>8, <1>9, <1>10, <1>11, <1>12, <1>13, <1>14, <1>15 DEF Becomes

LEMMA NanoEdits == NanoHolds /\ Text!NanoNext => Text!EditsText
<1> SUFFICES ASSUME NanoHolds, Text!NanoNext PROVE Text!EditsText
  OBVIOUS
<1>1. buf \in Places
  BY DEF NanoHolds
<1>2. /\ buf.lines \in LinesOf(Characters) /\ buf.cy \in 1..Len(buf.lines)
      /\ buf.cx \in 0..Len(buf.lines[buf.cy]) /\ Break \in Characters
  BY <1>1, PlaceFacts, InkedLines, InkedFacts
<1> DEFINE o == PlaceAt(buf.lines, buf.cy, buf.cx)
<1>3. Text!Join(buf.lines) \in Seq(Characters) /\ o \in 0..Len(Text!Join(buf.lines))
  <2> DEFINE lines == buf.lines
             r == buf.cy
             c == buf.cx
  <2>1. lines \in LinesOf(Characters) /\ r \in 1..Len(lines) /\ c \in 0..Len(lines[r])
    BY <1>2
  <2> HIDE DEF lines, r, c
  <2>2. /\ PlaceAt(lines, r, c) \in Nat /\ PlaceAt(lines, r, c) <= SpanEnd(lines, r)
        /\ SpanEnd(lines, r) \in Nat /\ SpanEnd(lines, r) <= Len(Text!Join(lines))
        /\ Len(Text!Join(lines)) \in Nat /\ Text!Join(lines) \in Seq(Characters)
    BY <1>2, <2>1, PlaceInText, JoinType
  <2>3. PlaceAt(lines, r, c) \in 0..Len(Text!Join(lines))
    BY <2>2
  <2> QED
    BY <2>2, <2>3 DEF lines, r, c
<1> HIDE DEF o
<1>4. SUFFICES NanoTurns(buf, buf', TextChars)
  BY <1>3, SaysNano DEF o
<1>5. ASSUME buf'.lines = buf.lines, buf'.cx = buf.cx, buf'.cy = buf.cy
      PROVE  NanoTurns(buf, buf', TextChars)
  BY <1>5 DEF NanoTurns, Turns_, Becomes
<1>6. ASSUME UNCHANGED buf PROVE NanoTurns(buf, buf', TextChars)
  BY <1>5, <1>6
<1>7. ASSUME NEW next, Text!SaveTo(next) PROVE NanoTurns(buf, buf', TextChars)
  <2>1. PICK o_ \in Text!SaveEditable(text, object, Text!ToText(buf.lines)) :
           buf' = [buf EXCEPT !.modified = @ /\ ~o_.ok]
    BY <1>7 DEF Text!SaveTo
  <2>2. buf \in BufferOf
    BY <1>1, PlaceFacts
  <2>3. buf'.lines = buf.lines /\ buf'.cx = buf.cx /\ buf'.cy = buf.cy
    BY <2>1, <2>2 DEF BufferOf
  <2> QED
    BY <1>5, <2>3
<1>8. ASSUME NEW bytes, Text!Key(bytes) PROVE NanoTurns(buf, buf', TextChars)
  <2> DEFINE key == Text!ReadKey(bytes)
  <2>1. \/ Text!SaveTo("edit")
        \/ UNCHANGED buf
        \/ buf' = Text!Scroll(Text!Apply(buf, key))
    BY <1>8 DEF Text!Key, Text!Stay
  <2>2. CASE buf' = Text!Scroll(Text!Apply(buf, key))
    <3> DEFINE a == Text!Apply(buf, key)
    <3>1. Elsewhere(buf, a) \/ Edits(buf, a)
      BY <1>1, ApplyPlace
    <3>2. Letters \subseteq TextChars
      BY DEF TextChars
    <3>3. NanoTurns(buf, a, TextChars)
      BY <1>1, <3>2, ApplyTurns
    <3> HIDE DEF a
    <3>4. a \in Places
      BY <3>1 DEF Elsewhere, Edits
    <3>5. buf'.lines = a.lines /\ buf'.cx = a.cx /\ buf'.cy = a.cy
      BY <2>2, <3>4, ScrollShows DEF a
    <3> QED
      BY <3>3, <3>5 DEF NanoTurns
  <2> QED
    BY <1>6, <1>7, <2>1, <2>2
<1>9. ASSUME NEW bytes, Text!Answer(bytes) PROVE NanoTurns(buf, buf', TextChars)
  BY <1>6, <1>7, <1>9 DEF Text!Answer, Text!Stay
<1>10. CASE Text!InputClosed
  BY <1>6, <1>10 DEF Text!InputClosed, Text!Stay
<1> QED
  BY <1>8, <1>9, <1>10 DEF Text!NanoNext

(***************************************************************************)
(* The graphical editor: its caret is in its lines.                        *)
(***************************************************************************)
EdOf == [lines : LinesOf(Shown), row : Nat, col : Nat, scroll : Nat, modified : BOOLEAN]
EdPlaces == {e \in EdOf : e.row \in 1..Len(e.lines) /\ e.col \in 0..Len(e.lines[e.row])}
EdWindowed(e) == e.row - 1 \in e.scroll..(e.scroll + EdRows - 1)

EditorHolds ==
  /\ ed \in EdPlaces /\ drawn \in BOOLEAN /\ (drawn => EdWindowed(ed))
  /\ Readable(text) /\ Kept_(object)
  /\ ed.modified \/ told = "failed" \/ Edit!ToLines(ContentOf(text)) = ed.lines

\* What a key may make of the buffer.
Fair(x) ==
  /\ x \in EdPlaces
  /\ x.modified = TRUE \/ (x.lines = ed.lines /\ x.modified = ed.modified)
  /\ Turns_(ed.lines, ed.row, ed.col, x.lines, x.row, x.col, Letters, 1)

LEMMA ShownFacts == Break \notin Shown /\ Shown \subseteq Inked /\ Letters \subseteq Shown
<1>1. "?" \notin Letters
  BY ProgramsAssumption
<1> QED
  BY <1>1, InkedFacts, LettersInked DEF Shown

LEMMA EdFacts ==
  ASSUME NEW e \in EdPlaces
  PROVE  /\ e \in EdOf /\ e.lines \in LinesOf(Shown) /\ e.lines \in Seq(Seq(Shown))
         /\ Len(e.lines) \in Nat \ {0} /\ e.row \in 1..Len(e.lines) /\ e.col \in Nat
         /\ e.col \in 0..Len(e.lines[e.row]) /\ e.modified \in BOOLEAN
         /\ \A i \in 1..Len(e.lines) : e.lines[i] \in Seq(Shown) /\ Len(e.lines[i]) \in Nat
<1>1. e \in EdOf /\ e.row \in 1..Len(e.lines) /\ e.col \in 0..Len(e.lines[e.row])
  BY DEF EdPlaces
<1>2. e.lines \in LinesOf(Shown) /\ e.col \in Nat /\ e.modified \in BOOLEAN
  BY <1>1 DEF EdOf
<1> DEFINE lines == e.lines
<1> HIDE DEF lines
<1>3. lines \in LinesOf(Shown)
  BY <1>2 DEF lines
<1>4. /\ Len(lines) \in Nat \ {0} /\ lines \in Seq(Seq(Shown))
      /\ \A i \in 1..Len(lines) : lines[i] \in Seq(Shown)
  BY <1>3, LinesAre
<1>5. \A i \in 1..Len(lines) : Len(lines[i]) \in Nat
  BY <1>4, LenProperties
<1> QED
  BY <1>1, <1>2, <1>4, <1>5 DEF lines

LEMMA ChangedFair ==
  ASSUME ed \in EdPlaces, NEW lines \in LinesOf(Shown), NEW row \in 1..Len(lines),
         NEW col \in 0..Len(lines[row]),
         Turns_(ed.lines, ed.row, ed.col, lines, row, col, Letters, 1)
  PROVE  Fair(Edit!Changed(lines, row, col))
<1> DEFINE x == Edit!Changed(lines, row, col)
<1>1. row \in Nat /\ col \in Nat /\ ed \in EdOf
  BY LinesAre, EdFacts
<1>2. x \in EdOf
  BY <1>1 DEF Edit!Changed, EdOf
<1>3. x.lines = lines /\ x.row = row /\ x.col = col /\ x.modified = TRUE
  BY <1>1 DEF Edit!Changed, EdOf
<1> HIDE DEF x
<1>4. x \in EdPlaces
  BY <1>2, <1>3 DEF EdPlaces
<1>5. Fair(x)
  BY <1>3, <1>4 DEF Fair
<1> QED
  BY <1>5 DEF x

LEMMA AtFair ==
  ASSUME ed \in EdPlaces, NEW row \in 1..Len(ed.lines), NEW col \in 0..Len(ed.lines[row]),
         Turns_(ed.lines, ed.row, ed.col, ed.lines, row, col, Letters, 1)
  PROVE  Fair(Edit!At(row, col))
<1> DEFINE x == Edit!At(row, col)
<1>1. row \in Nat /\ col \in Nat /\ ed \in EdOf
  BY LinesAre, EdFacts
<1>2. x \in EdOf
  BY <1>1 DEF Edit!At, EdOf
<1>3. x.lines = ed.lines /\ x.row = row /\ x.col = col /\ x.modified = ed.modified
  BY <1>1 DEF Edit!At, EdOf
<1> HIDE DEF x
<1>4. x \in EdPlaces
  BY <1>2, <1>3 DEF EdPlaces
<1>5. Fair(x)
  BY <1>3, <1>4 DEF Fair
<1> QED
  BY <1>5 DEF x

LEMMA SameFair == ASSUME ed \in EdPlaces PROVE Fair(ed)
BY DEF Fair, Turns_, Becomes

\* A line for some lines.
LEMMA LineFits ==
  ASSUME NEW S, NEW lines \in LinesOf(S), NEW i \in 0..Len(lines), NEW j \in i..Len(lines),
         NEW l \in Seq(S), NEW k, k = i + 1, NEW e, e = Exchanged(lines, i, <<l>>, j)
  PROVE  e \in LinesOf(S) /\ k \in 1..Len(e) /\ e[k] = l
<1> DEFINE m == <<l>>
<1>1. m \in Seq(Seq(S)) /\ Len(m) = 1 /\ m[1] = l /\ Len(lines) \in Nat
  BY LinesAre
<1>2. e = Exchanged(lines, i, m, j)
  OBVIOUS
<1> HIDE DEF m
<1>3. i + Len(m) + (Len(lines) - j) > 0
  BY <1>1
<1>4. /\ e \in LinesOf(S) /\ Len(e) = i + Len(m) + (Len(lines) - j)
      /\ Laid(e, lines, i, m, j)
  BY <1>1, <1>2, <1>3, LinesExchanged
<1>5. k \in 1..(i + Len(m) + (Len(lines) - j)) /\ ~(k <= i) /\ k <= i + Len(m) /\ k - i = 1
  BY <1>1
<1>6. e[k] = m[1]
  BY <1>4, <1>5 DEF Laid
<1> QED
  BY <1>1, <1>4, <1>5, <1>6

\* Two lines for one.
LEMMA BreakFits ==
  ASSUME NEW S, NEW lines \in LinesOf(S), NEW r \in 1..Len(lines), NEW c \in 0..Len(lines[r]),
         NEW e, e = Exchanged(lines, r - 1, Broken(lines[r], c), r)
  PROVE  e \in LinesOf(S) /\ r + 1 \in 1..Len(e) /\ 0 \in 0..Len(e[r + 1])
<1> DEFINE l == lines[r]
           x == SubSeq(l, 1, c)
           y == SubSeq(l, c + 1, Len(l))
           m == Broken(l, c)
           i == r - 1
<1>1. Len(lines) \in Nat /\ l \in Seq(S) /\ Len(l) \in Nat
  BY LinesAre, LenProperties
<1>2. x \in Seq(S) /\ y \in Seq(S)
  <2>1. c \in 0..Len(l) /\ c \in c..Len(l)
    BY <1>1
  <2> HIDE DEF l
  <2> QED
    BY <1>1, <2>1, CutOut
<1> HIDE DEF x, y
<1>3. m = <<x, y>>
  BY DEF Broken, x, y
<1> HIDE DEF m
<1>4. m \in Seq(Seq(S)) /\ Len(m) = 2 /\ m[2] = y
  BY <1>2, <1>3
<1>5. i \in 0..Len(lines) /\ r \in i..Len(lines) /\ i + Len(m) + (Len(lines) - r) > 0
  BY <1>1, <1>4
<1>6. e = Exchanged(lines, i, m, r)
  BY DEF m
<1>7. /\ e \in LinesOf(S) /\ Len(e) = i + Len(m) + (Len(lines) - r)
  BY <1>4, <1>5, <1>6, LinesExchanged
<1>8. r + 1 \in 1..Len(e)
  BY <1>1, <1>4, <1>7
<1>9. e[r + 1] \in Seq(S)
  BY <1>7, <1>8, LinesAre
<1> QED
  BY <1>7, <1>8, <1>9, LenProperties

\* The line of the caret with another put for it.
LEMMA LineChanged ==
  ASSUME ed \in EdPlaces, NEW l \in Seq(Shown), NEW col \in 0..Len(l),
         NEW e, e = Exchanged(ed.lines, ed.row - 1, <<l>>, ed.row),
         Turns_(ed.lines, ed.row, ed.col, e, ed.row, col, Letters, 1)
  PROVE  Fair(Edit!Changed(Edit!InLine(l), ed.row, col))
<1> DEFINE lines == ed.lines
           r == ed.row
           i == r - 1
<1>1. lines \in LinesOf(Shown) /\ lines \in Seq(Seq(Shown)) /\ Len(lines) \in Nat /\ r \in 1..Len(lines)
  BY EdFacts
<1>2. Edit!InLine(l) = [lines EXCEPT ![r] = l]
  BY DEF Edit!InLine
<1>3. e = Exchanged(lines, i, <<l>>, r)
  OBVIOUS
<1> HIDE DEF lines
<1>4. i \in 0..Len(lines) /\ r \in i..Len(lines) /\ r = i + 1
  BY <1>1
<1>5. Edit!InLine(l) = e
  <2>1. [lines EXCEPT ![r] = l] = Exchanged(lines, r - 1, <<l>>, r)
    <3> HIDE DEF r
    <3> QED
      BY <1>1, ReplaceIs
  <2> QED
    BY <1>2, <1>3, <2>1
<1> HIDE DEF i
<1>6. e \in LinesOf(Shown) /\ r \in 1..Len(e) /\ e[r] = l
  <2> HIDE DEF r
  <2> DEFINE m == <<l>>
  <2>1. lines \in LinesOf(Shown) /\ i \in 0..Len(lines) /\ r \in i..Len(lines) /\ r = i + 1
    BY <1>1, <1>4
  <2>2. e = Exchanged(lines, i, <<l>>, r)
    BY <1>3
  <2>3. e \in LinesOf(Shown)
    BY <2>1, <2>2, LineFits
  <2>4. r \in 1..Len(e)
    BY <2>1, <2>2, LineFits
  <2>5. e[r] = l
    BY <2>1, <2>2, LineFits
  <2> QED
    BY <2>3, <2>4, <2>5
<1>7. Fair(Edit!Changed(e, ed.row, col))
  BY <1>6, ChangedFair
<1> QED
  BY <1>5, <1>7

LEMMA InsertFair ==
  ASSUME ed \in EdPlaces, NEW c \in Letters
  PROVE  Fair(Edit!Insert(c))
<1> DEFINE lines == ed.lines
           r == ed.row
           x == ed.col
           l == Exchanged(lines[r], x, <<c>>, x)
           e == Exchanged(lines, r - 1, <<l>>, r)
<1>1. /\ lines \in LinesOf(Shown) /\ r \in 1..Len(lines) /\ x \in 0..Len(lines[r]) /\ c \in Shown
      /\ lines[r] \in Seq(Shown) /\ Len(lines[r]) \in Nat /\ x \in Nat /\ x <= Len(lines[r])
  <2>1. x \in 0..Len(lines[r]) /\ Len(lines[r]) \in Nat
    BY EdFacts
  <2>2. x \in Nat /\ x <= Len(lines[r])
    BY <2>1
  <2> QED
    BY <2>1, <2>2, EdFacts, ShownFacts
<1>2. Edit!Min({x, Len(lines[r])}) = x
  <2> HIDE DEF x, lines, r
  <2> QED
    BY <1>1, TextLesser
<1>3. Edit!InsertAt(lines[r], x + 1, c) = l
  <2> HIDE DEF x, lines, r
  <2> QED
    BY <1>1, InsertIs
<1>4. Edit!Insert(c) = Edit!Changed(Edit!InLine(l), r, x + 1)
  BY <1>2, <1>3 DEF Edit!Insert, Edit!Line
<1>5. l \in Seq(Shown) /\ Len(l) = Len(lines[r]) + 1
  <2> HIDE DEF x, lines, r
  <2> QED
    BY <1>1, CharInserted
<1>6. x + 1 \in 0..Len(l)
  BY <1>1, <1>5
<1>7. e = Exchanged(lines, r - 1, <<Exchanged(lines[r], x, <<c>>, x)>>, r)
  OBVIOUS
<1>8. e = Exchanged(ed.lines, ed.row - 1, <<l>>, ed.row)
  OBVIOUS
<1> HIDE DEF l, e
<1>9. Turns_(lines, r, x, e, r, x + 1, Letters, 1)
  <2> HIDE DEF x, lines, r
  <2> QED
    BY <1>1, <1>7, TypeTurns
<1>10. Fair(Edit!Changed(Edit!InLine(l), ed.row, x + 1))
  <2> DEFINE col == x + 1
  <2>1. col \in 0..Len(l) /\ Turns_(ed.lines, ed.row, ed.col, e, ed.row, col, Letters, 1)
    BY <1>6, <1>9
  <2> HIDE DEF col
  <2>2. Fair(Edit!Changed(Edit!InLine(l), ed.row, col))
    BY <1>5, <1>8, <2>1, LineChanged
  <2> QED
    BY <2>2 DEF col
<1> QED
  BY <1>4, <1>10

\* A character before the caret, or after it, goes.
LEMMA RemovedFair ==
  ASSUME ed \in EdPlaces, NEW k \in 1..Len(ed.lines[ed.row]), NEW col,
         \/ k = ed.col /\ col = k - 1
         \/ k = ed.col + 1 /\ col = ed.col
  PROVE  Fair(Edit!Changed(Edit!InLine(Edit!RemoveAt(Edit!Line, k)), ed.row, col))
<1> DEFINE lines == ed.lines
           r == ed.row
           x == ed.col
           l == Exchanged(lines[r], k - 1, <<>>, k)
           e == Exchanged(lines, r - 1, <<l>>, r)
<1>1. /\ lines \in LinesOf(Shown) /\ r \in 1..Len(lines) /\ x \in 0..Len(lines[r])
      /\ lines[r] \in Seq(Shown) /\ Len(lines[r]) \in Nat /\ k \in 1..Len(lines[r])
      /\ ((k = x /\ col = k - 1) \/ (k = x + 1 /\ col = x))
  BY EdFacts
<1>2. Edit!RemoveAt(Edit!Line, k) = l
  <2>1. Edit!RemoveAt(lines[r], k) = l
    <3> HIDE DEF lines, r
    <3> QED
      BY <1>1, RemoveIs
  <2> QED
    BY <2>1 DEF Edit!Line
<1>3. l \in Seq(Shown) /\ Len(l) = Len(lines[r]) - 1
  <2> HIDE DEF lines, r
  <2> QED
    BY <1>1, CharRemoved
<1>4. e = Exchanged(lines, r - 1, <<Exchanged(lines[r], k - 1, <<>>, k)>>, r)
  OBVIOUS
<1>5. e = Exchanged(ed.lines, ed.row - 1, <<l>>, ed.row)
  OBVIOUS
<1> HIDE DEF l, e
<1>6. Turns_(lines, r, x, e, r, col, Letters, 1) /\ col \in 0..Len(l)
  <2> HIDE DEF lines, r, x
  <2>1. CASE k = x /\ col = k - 1
    <3>1. x \in 1..Len(lines[r]) /\ e = Exchanged(lines, r - 1, <<Exchanged(lines[r], x - 1, <<>>, x)>>, r)
      BY <1>1, <1>4, <2>1
    <3>2. Turns_(lines, r, x, e, r, x - 1, Letters, 1)
      BY <1>1, <3>1, RubTurns
    <3>3. col \in 0..Len(l)
      BY <1>1, <1>3, <2>1
    <3> QED
      BY <2>1, <3>2, <3>3
  <2>2. CASE k = x + 1 /\ col = x
    <3>1. x \in 0..(Len(lines[r]) - 1) /\ k = x + 1
      BY <1>1, <2>2
    <3>2. Turns_(lines, r, x, e, r, x, Letters, 1)
      BY <1>1, <1>4, <3>1, ZapTurns
    <3>3. col \in 0..Len(l)
      BY <1>1, <1>3, <2>2
    <3> QED
      BY <2>2, <3>2, <3>3
  <2> QED
    BY <1>1, <2>1, <2>2
<1>7. Fair(Edit!Changed(Edit!InLine(l), ed.row, col))
  BY <1>3, <1>5, <1>6, LineChanged
<1> QED
  BY <1>2, <1>7

LEMMA NewlineFair == ASSUME ed \in EdPlaces PROVE Fair(Edit!Newline)
<1> DEFINE lines == ed.lines
           r == ed.row
           x == ed.col
           m == Broken(lines[r], x)
           e == Exchanged(lines, r - 1, m, r)
<1>1. /\ lines \in LinesOf(Shown) /\ r \in 1..Len(lines) /\ x \in 0..Len(lines[r])
      /\ Len(lines[r]) \in Nat /\ x \in Nat /\ x <= Len(lines[r])
      /\ lines \in Seq(Seq(Shown)) /\ Len(lines) \in Nat
  <2>1. x \in 0..Len(lines[r]) /\ Len(lines[r]) \in Nat
    BY EdFacts
  <2>2. x \in Nat /\ x <= Len(lines[r])
    BY <2>1
  <2> QED
    BY <2>1, <2>2, EdFacts
<1>2. Edit!Min({x, Len(lines[r])}) = x
  <2> HIDE DEF x, lines, r
  <2> QED
    BY <1>1, TextLesser
<1>3. Edit!Newline = Edit!Changed(Edit!Replaced(r, 1, m), r + 1, 0)
  BY <1>2 DEF Edit!Newline, Edit!Line, Broken
<1>4. Edit!Replaced(r, 1, m) = Text!Spliced(lines, r, 1, m)
  BY DEF Edit!Replaced, Edit!LastRow, Text!Spliced
<1> HIDE DEF m
<1>5. Text!Spliced(lines, r, 1, m) = e
  <2>1. Text!Spliced(lines, r, 1, m) = Exchanged(lines, r - 1, m, (r - 1) + 1)
    <3> HIDE DEF lines, r
    <3> QED
      BY <1>1, SpliceIs
  <2>2. (r - 1) + 1 = r
    BY <1>1
  <2> HIDE DEF lines, r
  <2> QED
    BY <2>1, <2>2
<1>6. e = Exchanged(lines, r - 1, Broken(lines[r], x), r)
  BY DEF m
<1> HIDE DEF e
<1>7. /\ e \in LinesOf(Shown) /\ r + 1 \in 1..Len(e) /\ 0 \in 0..Len(e[r + 1])
      /\ Turns_(lines, r, x, e, r + 1, 0, Letters, 1)
  <2> HIDE DEF lines, r, x
  <2>1. e \in LinesOf(Shown) /\ r + 1 \in 1..Len(e) /\ 0 \in 0..Len(e[r + 1])
    BY <1>1, <1>6, BreakFits
  <2>2. Turns_(lines, r, x, e, r + 1, 0, Letters, 1)
    BY <1>1, <1>6, NewlineTurns
  <2> QED
    BY <2>1, <2>2
<1>8. Fair(Edit!Changed(e, r + 1, 0))
  <2> DEFINE k == r + 1
  <2>1. /\ k \in 1..Len(e) /\ 0 \in 0..Len(e[k])
        /\ Turns_(ed.lines, ed.row, ed.col, e, k, 0, Letters, 1)
    BY <1>7
  <2> HIDE DEF k
  <2>2. Fair(Edit!Changed(e, k, 0))
    BY <1>7, <2>1, ChangedFair
  <2> QED
    BY <2>2 DEF k
<1> QED
  BY <1>3, <1>4, <1>5, <1>8

\* Two lines joined.
LEMMA JoinFair ==
  ASSUME ed \in EdPlaces, NEW k \in 1..(Len(ed.lines) - 1), NEW col, col = Len(ed.lines[k]),
         (ed.row = k + 1 /\ ed.col = 0) \/ (ed.row = k /\ ed.col = col)
  PROVE  Fair(Edit!Changed(Edit!Replaced(k, 2, <<ed.lines[k] \o ed.lines[k + 1]>>), k, col))
<1> DEFINE lines == ed.lines
           p == lines[k]
           q == lines[k + 1]
           l == p \o q
           e == Exchanged(lines, k - 1, <<l>>, k + 1)
           i == k - 1
           j == k + 1
<1>1. /\ lines \in LinesOf(Shown) /\ lines \in Seq(Seq(Shown)) /\ Len(lines) \in Nat
      /\ k \in 1..(Len(lines) - 1)
  BY EdFacts
<1>2. k \in 1..Len(lines) /\ j \in 1..Len(lines) /\ i \in 0..Len(lines) /\ j \in i..Len(lines)
      /\ k = i + 1 /\ i + 2 = j
  BY <1>1
<1>3. p \in Seq(Shown) /\ q \in Seq(Shown)
  BY <1>1, <1>2, LinesAre
<1>4. l \in Seq(Shown) /\ Len(l) = Len(p) + Len(q) /\ Len(p) \in Nat /\ Len(q) \in Nat
  <2> HIDE DEF p, q
  <2> QED
    BY <1>3, ConcatProperties, LenProperties
<1>5. col \in 0..Len(l)
  <2>1. col = Len(p)
    OBVIOUS
  <2>2. \A a, b, c \in Nat : c = a + b => a \in 0..c
    OBVIOUS
  <2>3. l \in Seq(Shown)
    BY <1>4
  <2> HIDE DEF p, q, l
  <2>4. Len(l) \in Nat
    BY <2>3, LenProperties
  <2> QED
    BY <1>4, <2>1, <2>2, <2>4
<1>6. Edit!Replaced(k, 2, <<l>>) = e
  <2> DEFINE m == <<l>>
  <2>1. Edit!Replaced(k, 2, m) = Text!Spliced(lines, k, 2, m)
    BY DEF Edit!Replaced, Edit!LastRow, Text!Spliced
  <2>2. Text!Spliced(lines, k, 2, m) = Exchanged(lines, k - 1, m, (k - 1) + 2)
    <3> HIDE DEF lines, m
    <3> QED
      BY <1>1, <1>2, SpliceIs
  <2> QED
    BY <1>2, <2>1, <2>2
<1>7. e = Exchanged(lines, k - 1, <<lines[k] \o lines[k + 1]>>, k + 1)
  OBVIOUS
<1>8. e = Exchanged(lines, i, <<l>>, j)
  OBVIOUS
<1> HIDE DEF e, l, i, j
<1>9. e \in LinesOf(Shown) /\ k \in 1..Len(e) /\ e[k] = l
  <2> HIDE DEF lines, p, q
  <2>1. e \in LinesOf(Shown)
    BY <1>1, <1>2, <1>4, <1>8, LineFits
  <2>2. k \in 1..Len(e)
    BY <1>1, <1>2, <1>4, <1>8, LineFits
  <2>3. e[k] = l
    <3>1. /\ lines \in LinesOf(Shown) /\ i \in 0..Len(lines) /\ j \in i..Len(lines)
          /\ l \in Seq(Shown) /\ k = i + 1
      BY <1>1, <1>2, <1>4
    <3> HIDE DEF lines
    <3>2. e \in LinesOf(Shown) /\ k \in 1..Len(e) /\ e[k] = l
      BY <3>1, <1>8, LineFits
    <3> QED
      BY <3>2
  <2> QED
    BY <2>1, <2>2, <2>3
<1>10. /\ Turns_(lines, k + 1, 0, e, k, Len(lines[k]), Letters, 1)
       /\ Turns_(lines, k, Len(lines[k]), e, k, Len(lines[k]), Letters, 1)
  <2> HIDE DEF lines, p, q
  <2> QED
    BY <1>1, <1>7, JoinTurns
<1>11. Turns_(ed.lines, ed.row, ed.col, e, k, col, Letters, 1)
  BY <1>10
<1>12. Fair(Edit!Changed(e, k, col))
  BY <1>5, <1>9, <1>11, ChangedFair
<1> QED
  BY <1>6, <1>12 DEF l

LEMMA BackspaceFair == ASSUME ed \in EdPlaces PROVE Fair(Edit!Backspace)
<1>1. /\ Len(ed.lines) \in Nat /\ ed.row \in 1..Len(ed.lines) /\ ed.col \in 0..Len(ed.lines[ed.row])
      /\ Len(ed.lines[ed.row]) \in Nat /\ ed.lines \in LinesOf(Shown)
  BY EdFacts
<1>2. CASE ed.col > 0
  <2>1. ed.col \in 1..Len(ed.lines[ed.row])
    BY <1>1, <1>2
  <2>2. Edit!Backspace = Edit!Changed(Edit!InLine(Edit!RemoveAt(Edit!Line, ed.col)), ed.row, ed.col - 1)
    BY <1>2 DEF Edit!Backspace
  <2> QED
    BY <2>1, <2>2, RemovedFair
<1>3. CASE ~(ed.col > 0) /\ ed.row > 1
  <2> DEFINE k == ed.row - 1
             col == Len(ed.lines[k])
  <2>1. k \in 1..(Len(ed.lines) - 1) /\ ed.row = k + 1 /\ ed.col = 0
    BY <1>1, <1>3
  <2>2. Edit!Backspace =
          Edit!Changed(Edit!Replaced(k, 2, <<ed.lines[k] \o ed.lines[ed.row]>>), k, col)
    BY <1>3 DEF Edit!Backspace, Edit!Line
  <2> HIDE DEF k
  <2>3. Edit!Backspace =
          Edit!Changed(Edit!Replaced(k, 2, <<ed.lines[k] \o ed.lines[k + 1]>>), k, col)
    BY <2>1, <2>2
  <2>4. col = Len(ed.lines[k])
    OBVIOUS
  <2> HIDE DEF col
  <2> QED
    BY <2>1, <2>3, <2>4, JoinFair
<1>4. CASE ~(ed.col > 0) /\ ~(ed.row > 1)
  <2>1. Edit!Backspace = Edit!Changed(ed.lines, ed.row, ed.col)
    BY <1>4 DEF Edit!Backspace
  <2>2. Turns_(ed.lines, ed.row, ed.col, ed.lines, ed.row, ed.col, Letters, 1)
    BY DEF Turns_, Becomes
  <2> QED
    BY <1>1, <2>1, <2>2, ChangedFair
<1> QED
  BY <1>2, <1>3, <1>4

LEMMA DeleteFair == ASSUME ed \in EdPlaces PROVE Fair(Edit!DeleteForward)
<1>1. /\ Len(ed.lines) \in Nat /\ ed.row \in 1..Len(ed.lines) /\ ed.col \in 0..Len(ed.lines[ed.row])
      /\ Len(ed.lines[ed.row]) \in Nat
  BY EdFacts
<1>2. CASE ed.col < Len(Edit!Line)
  <2>1. ed.col + 1 \in 1..Len(ed.lines[ed.row])
    BY <1>1, <1>2 DEF Edit!Line
  <2>2. Edit!DeleteForward =
          Edit!Changed(Edit!InLine(Edit!RemoveAt(Edit!Line, ed.col + 1)), ed.row, ed.col)
    BY <1>2 DEF Edit!DeleteForward
  <2> QED
    BY <2>1, <2>2, RemovedFair
<1>3. CASE ~(ed.col < Len(Edit!Line)) /\ ed.row < Edit!LastRow
  <2> DEFINE k == ed.row
             col == ed.col
  <2>1. k \in 1..(Len(ed.lines) - 1) /\ col = Len(ed.lines[k])
    BY <1>1, <1>3 DEF Edit!Line, Edit!LastRow
  <2>2. Edit!DeleteForward =
          Edit!Changed(Edit!Replaced(k, 2, <<ed.lines[k] \o ed.lines[k + 1]>>), k, col)
    BY <1>3 DEF Edit!DeleteForward, Edit!Line
  <2>3. ed.row = k /\ ed.col = col
    OBVIOUS
  <2> HIDE DEF k, col
  <2> QED
    BY <2>1, <2>2, <2>3, JoinFair
<1>4. CASE ~(ed.col < Len(Edit!Line)) /\ ~(ed.row < Edit!LastRow)
  BY <1>4, SameFair DEF Edit!DeleteForward
<1> QED
  BY <1>2, <1>3, <1>4

\* To a row next to the caret's, or in it.
LEMMA RowFair ==
  ASSUME ed \in EdPlaces, NEW row \in 1..Len(ed.lines), NEW col \in 0..Len(ed.lines[row]),
         row <= ed.row + 1, ed.row <= row + 1
  PROVE  Fair(Edit!At(row, col))
<1> DEFINE lines == ed.lines
           r == ed.row
           c == ed.col
<1>1. /\ lines \in LinesOf(Shown) /\ r \in 1..Len(lines) /\ c \in 0..Len(lines[r])
      /\ row \in 1..Len(lines) /\ col \in 0..Len(lines[row]) /\ row <= r + 1 /\ r <= row + 1
  BY EdFacts
<1> HIDE DEF lines, r, c
<1>2. 1 \in Nat
  OBVIOUS
<1> DEFINE one == 1
<1> HIDE DEF one
<1>3. one \in Nat /\ row <= r + one /\ r <= row + one
  BY <1>1 DEF one
<1>4. Turns_(lines, r, c, lines, row, col, Letters, one)
  BY <1>1, <1>3, ShownFacts, JumpTurns
<1> QED
  BY <1>4, AtFair DEF lines, r, c, one

LEMMA ToRowFair ==
  ASSUME ed \in EdPlaces, NEW row \in 1..Len(ed.lines), row <= ed.row + 1, ed.row <= row + 1
  PROVE  Fair(Edit!ToRow(row))
<1> DEFINE col == Edit!Min({ed.col, Len(ed.lines[row])})
<1>1. ed.col \in Nat /\ Len(ed.lines[row]) \in Nat
  BY EdFacts
<1>2. col \in 0..Len(ed.lines[row])
  <2> DEFINE x == ed.col
             n == Len(ed.lines[row])
  <2>1. x \in Nat /\ n \in Nat
    BY <1>1
  <2> HIDE DEF x, n
  <2>2. Edit!Min({x, n}) = IF x <= n THEN x ELSE n
    BY <2>1, TextLesser
  <2>3. Edit!Min({x, n}) \in 0..n
    BY <2>1, <2>2
  <2> QED
    BY <2>3 DEF x, n
<1> HIDE DEF col
<1>3. Fair(Edit!At(row, col))
  BY <1>2, RowFair
<1> QED
  BY <1>3 DEF Edit!ToRow, col

LEMMA SideFair ==
  ASSUME ed \in EdPlaces
  PROVE  /\ (ed.col > 0 => Fair(Edit!At(ed.row, ed.col - 1)))
         /\ (ed.col = 0 /\ ed.row > 1 => Fair(Edit!At(ed.row - 1, Len(ed.lines[ed.row - 1]))))
         /\ (ed.col < Len(ed.lines[ed.row]) => Fair(Edit!At(ed.row, ed.col + 1)))
         /\ (ed.row < Len(ed.lines) => Fair(Edit!At(ed.row + 1, 0)))
<1>1. /\ Len(ed.lines) \in Nat /\ ed.row \in 1..Len(ed.lines) /\ ed.col \in 0..Len(ed.lines[ed.row])
      /\ Len(ed.lines[ed.row]) \in Nat
      /\ \A i \in 1..Len(ed.lines) : Len(ed.lines[i]) \in Nat
  BY EdFacts
<1>2. ed.row <= ed.row + 1
  BY <1>1
<1>3. ASSUME ed.col > 0 PROVE Fair(Edit!At(ed.row, ed.col - 1))
  <2>1. ed.col - 1 \in 0..Len(ed.lines[ed.row])
    BY <1>1, <1>3
  <2> QED
    BY <1>1, <1>2, <2>1, RowFair
<1>4. ASSUME ed.row > 1 PROVE Fair(Edit!At(ed.row - 1, Len(ed.lines[ed.row - 1])))
  <2> DEFINE k == ed.row - 1
  <2>1. k \in 1..Len(ed.lines) /\ k <= ed.row + 1 /\ ed.row <= k + 1
    BY <1>1, <1>4
  <2> HIDE DEF k
  <2>2. Len(ed.lines[k]) \in 0..Len(ed.lines[k])
    BY <1>1, <2>1
  <2>3. Fair(Edit!At(k, Len(ed.lines[k])))
    BY <2>1, <2>2, RowFair
  <2> QED
    BY <2>3 DEF k
<1>5. ASSUME ed.col < Len(ed.lines[ed.row]) PROVE Fair(Edit!At(ed.row, ed.col + 1))
  <2>1. ed.col + 1 \in 0..Len(ed.lines[ed.row])
    BY <1>1, <1>5
  <2> QED
    BY <1>1, <1>2, <2>1, RowFair
<1>6. ASSUME ed.row < Len(ed.lines) PROVE Fair(Edit!At(ed.row + 1, 0))
  <2> DEFINE k == ed.row + 1
  <2>1. k \in 1..Len(ed.lines) /\ k <= ed.row + 1 /\ ed.row <= k + 1
    BY <1>1, <1>6
  <2> HIDE DEF k
  <2>2. 0 \in 0..Len(ed.lines[k])
    BY <1>1, <2>1
  <2>3. Fair(Edit!At(k, 0))
    BY <2>1, <2>2, RowFair
  <2> QED
    BY <2>3 DEF k
<1> QED
  BY <1>3, <1>4, <1>5, <1>6

LEMMA MoveFair == ASSUME ed \in EdPlaces, NEW key PROVE Fair(Edit!MoveCursor(key))
<1>1. /\ Len(ed.lines) \in Nat /\ ed.row \in 1..Len(ed.lines) /\ ed.col \in 0..Len(ed.lines[ed.row])
      /\ Len(ed.lines[ed.row]) \in Nat /\ ed.col \in Nat
  BY EdFacts
<1> DEFINE left == key = "Left" /\ ed.col > 0
           back == key = "Left" /\ ed.col = 0 /\ ed.row > 1
           right == key = "Right" /\ ed.col < Len(Edit!Line)
           on == key = "Right" /\ ed.col = Len(Edit!Line) /\ ed.row < Edit!LastRow
           up == key = "Up" /\ ed.row > 1
           down == key = "Down" /\ ed.row < Edit!LastRow
<1>2. ~(ed.col > 0 /\ ed.col = 0) /\ ~(ed.col < Len(Edit!Line) /\ ed.col = Len(Edit!Line))
  BY <1>1 DEF Edit!Line
<1>3. /\ left => ~back /\ ~right /\ ~on /\ ~up /\ ~down
      /\ back => ~left /\ ~right /\ ~on /\ ~up /\ ~down
      /\ right => ~left /\ ~back /\ ~on /\ ~up /\ ~down
      /\ on => ~left /\ ~back /\ ~right /\ ~up /\ ~down
      /\ up => ~left /\ ~back /\ ~right /\ ~on /\ ~down
      /\ down => ~left /\ ~back /\ ~right /\ ~on /\ ~up
  BY <1>2
<1>4. CASE left
  <2>1. Edit!MoveCursor(key) = Edit!At(ed.row, ed.col - 1)
    BY <1>3, <1>4 DEF Edit!MoveCursor
  <2> QED
    BY <1>4, <2>1, SideFair
<1>5. CASE back
  <2>1. Edit!MoveCursor(key) = Edit!At(ed.row - 1, Len(ed.lines[ed.row - 1]))
    BY <1>3, <1>5 DEF Edit!MoveCursor
  <2> QED
    BY <1>5, <2>1, SideFair
<1>6. CASE right
  <2>1. Edit!MoveCursor(key) = Edit!At(ed.row, ed.col + 1)
    BY <1>3, <1>6 DEF Edit!MoveCursor
  <2> QED
    BY <1>6, <2>1, SideFair DEF Edit!Line
<1>7. CASE on
  <2>1. Edit!MoveCursor(key) = Edit!At(ed.row + 1, 0)
    BY <1>3, <1>7 DEF Edit!MoveCursor
  <2> QED
    BY <1>7, <2>1, SideFair DEF Edit!LastRow
<1>8. CASE up
  <2> DEFINE k == ed.row - 1
  <2>1. Edit!MoveCursor(key) = Edit!ToRow(k)
    BY <1>3, <1>8 DEF Edit!MoveCursor
  <2>2. k \in 1..Len(ed.lines) /\ k <= ed.row + 1 /\ ed.row <= k + 1
    BY <1>1, <1>8
  <2> HIDE DEF k
  <2> QED
    BY <2>1, <2>2, ToRowFair
<1>9. CASE down
  <2> DEFINE k == ed.row + 1
  <2>1. Edit!MoveCursor(key) = Edit!ToRow(k)
    BY <1>3, <1>9 DEF Edit!MoveCursor
  <2>2. k \in 1..Len(ed.lines) /\ k <= ed.row + 1 /\ ed.row <= k + 1
    BY <1>1, <1>9 DEF Edit!LastRow
  <2> HIDE DEF k
  <2> QED
    BY <2>1, <2>2, ToRowFair
<1>10. CASE ~left /\ ~back /\ ~right /\ ~on /\ ~up /\ ~down
  BY <1>10, SameFair DEF Edit!MoveCursor
<1> QED
  BY <1>4, <1>5, <1>6, <1>7, <1>8, <1>9, <1>10

EditKeys == {"Enter", "Backspace", "Delete", "Home", "End"}

LEMMA KeyFair == ASSUME ed \in EdPlaces, NEW key PROVE Fair(Edit!KeyDown(key))
<1>0. Letters \cap KeyNames = {}
  BY ProgramsAssumption
<1>1. /\ Len(ed.lines) \in Nat /\ ed.row \in 1..Len(ed.lines) /\ ed.row <= ed.row + 1
      /\ 0 \in 0..Len(ed.lines[ed.row]) /\ Len(ed.lines[ed.row]) \in 0..Len(ed.lines[ed.row])
  BY EdFacts
<1>2. CASE key = "Enter"
  <2>1. "Enter" \notin Letters
    BY <1>0 DEF KeyNames
  <2> QED
    BY <1>2, <2>1, NewlineFair DEF Edit!KeyDown
<1>3. CASE key = "Backspace"
  <2>1. "Backspace" \notin Letters
    BY <1>0 DEF KeyNames
  <2> QED
    BY <1>3, <2>1, BackspaceFair DEF Edit!KeyDown
<1>4. CASE key = "Delete"
  <2>1. "Delete" \notin Letters
    BY <1>0 DEF KeyNames
  <2> QED
    BY <1>4, <2>1, DeleteFair DEF Edit!KeyDown
<1>5. CASE key = "Home"
  <2>1. "Home" \notin Letters
    BY <1>0 DEF KeyNames
  <2>2. Edit!KeyDown(key) = Edit!At(ed.row, 0)
    BY <1>5, <2>1 DEF Edit!KeyDown
  <2> QED
    BY <1>1, <2>2, RowFair
<1>6. CASE key = "End"
  <2>1. "End" \notin Letters
    BY <1>0 DEF KeyNames
  <2>2. Edit!KeyDown(key) = Edit!At(ed.row, Len(ed.lines[ed.row]))
    BY <1>6, <2>1 DEF Edit!KeyDown, Edit!Line
  <2> QED
    BY <1>1, <2>2, RowFair
<1>7. CASE key \in Letters
  <2>1. Edit!KeyDown(key) = Edit!Insert(key)
    BY <1>0, <1>7 DEF Edit!KeyDown, KeyNames
  <2> QED
    BY <1>7, <2>1, InsertFair
<1>8. CASE key \notin EditKeys \cup Letters
  <2>1. Edit!KeyDown(key) = Edit!MoveCursor(key)
    BY <1>8 DEF Edit!KeyDown, EditKeys
  <2> QED
    BY <2>1, MoveFair
<1> QED
  BY <1>2, <1>3, <1>4, <1>5, <1>6, <1>7, <1>8 DEF EditKeys

LEMMA EditorBegins == Edit!EdInit => EditorHolds
<1> SUFFICES ASSUME Edit!EdInit PROVE EditorHolds
  OBVIOUS
<1> DEFINE d == Edit!LoadEditable(text, IsWasm)
           lines == Edit!ToLines(d.content)
<1>1. /\ text \in OnDisk /\ object = d.object /\ told = "" /\ drawn = TRUE
      /\ ed = [lines |-> lines, row |-> 1, col |-> 0, scroll |-> 0, modified |-> FALSE]
  BY DEF Edit!EdInit
<1>2. Readable(text)
  BY <1>1, OnDiskReadable
<1>3. d = Text!LoadEditable(text, IsWasm)
  BY SameLoad
<1>4. ContentOf(text) \in Seq(Characters) /\ Kept_(object) /\ d.content = ContentOf(text)
  BY <1>1, <1>2, <1>3, LoadedIs DEF ContentOf
<1>5. lines \in LinesOf(Shown) /\ lines = Edit!ToLines(ContentOf(text))
  BY <1>4, ToLinesType
<1> HIDE DEF d, lines
<1>6. /\ ed.lines = lines /\ ed.row = 1 /\ ed.col = 0 /\ ed.scroll = 0 /\ ed.modified = FALSE
      /\ ed \in EdOf
  BY <1>1, <1>5 DEF EdOf
<1>7. 1 \in 1..Len(lines) /\ 0 \in 0..Len(lines[1])
  BY <1>5, LinesAre, LenProperties
<1>8. EdWindowed(ed)
  BY <1>6, ProgramsAssumption DEF EdWindowed
<1> QED
  BY <1>1, <1>2, <1>4, <1>5, <1>6, <1>7, <1>8 DEF EditorHolds, EdPlaces

LEMMA SavedFair ==
  ASSUME EditorHolds, Edit!Save_
  PROVE  /\ EditorHolds'
         /\ ed'.lines = ed.lines /\ ed'.row = ed.row /\ ed'.col = ed.col
<1>1. PICK o \in Edit!SaveEditable(text, object, Edit!Join(ed.lines)) :
         /\ text' = o.file /\ object' = o.object
         /\ ed' = [ed EXCEPT !.modified = @ /\ ~o.ok]
         /\ told' = IF o.ok THEN "written" ELSE "failed"
  BY DEF Edit!Save_
<1>2. ed \in EdPlaces /\ Readable(text) /\ Kept_(object)
  BY DEF EditorHolds
<1>3. ed \in EdOf /\ ed.lines \in LinesOf(Shown) /\ ed.modified \in BOOLEAN
  BY <1>2, EdFacts
<1> DEFINE t == Edit!Join(ed.lines)
<1>4. t \in Seq(Characters) /\ Edit!ToLines(t) = ed.lines
  BY <1>3, ReadsBack
<1>5. o \in Text!SaveEditable(text, object, t)
  BY <1>1, SameSave
<1> HIDE DEF t
<1>6. /\ Readable(o.file) /\ Kept_(o.object)
      /\ o.ok \in BOOLEAN /\ (o.ok => ContentOf(o.file) = t)
  BY <1>2, <1>4, <1>5, SavedIs
<1>7. ed' \in EdOf
  BY <1>1, <1>3, <1>6 DEF EdOf
<1>8. /\ ed'.lines = ed.lines /\ ed'.row = ed.row /\ ed'.col = ed.col
  BY <1>1, <1>3 DEF EdOf
<1>9. ed' \in EdPlaces
  BY <1>2, <1>7, <1>8 DEF EdPlaces
<1>10. Readable(text)' /\ Kept_(object)'
  BY <1>1, <1>6 DEF Readable, Kept_
<1>11. told' = "failed" \/ Edit!ToLines(ContentOf(text')) = ed'.lines
  BY <1>1, <1>4, <1>6, <1>8
<1>12. drawn' = FALSE
  BY DEF Edit!Save_
<1> QED
  BY <1>8, <1>9, <1>10, <1>11, <1>12 DEF EditorHolds, ContentOf

LEMMA DrawnFair ==
  ASSUME EditorHolds, Edit!Draw
  PROVE  /\ EditorHolds'
         /\ ed'.lines = ed.lines /\ ed'.row = ed.row /\ ed'.col = ed.col
<1>1. ed \in EdPlaces /\ Readable(text) /\ Kept_(object)
  BY DEF EditorHolds
<1>2. ed \in EdOf /\ ed.row \in 1..Len(ed.lines) /\ Len(ed.lines) \in Nat
  BY <1>1, EdFacts
<1> DEFINE row == ed.row - 1
           s == IF row < ed.scroll THEN row
                ELSE IF row >= ed.scroll + EdRows THEN row + 1 - EdRows ELSE ed.scroll
<1>3. ed' = [ed EXCEPT !.scroll = s] /\ drawn' = TRUE /\ UNCHANGED <<object, text, told>>
  BY DEF Edit!Draw
<1>4. ed.scroll \in Nat /\ EdRows \in Nat \ {0} /\ row \in Nat
  BY <1>2, ProgramsAssumption DEF EdOf
<1>5. s \in Nat /\ row \in s..(s + EdRows - 1)
  BY <1>4
<1> HIDE DEF s
<1>6. ed' \in EdOf
  BY <1>2, <1>3, <1>5 DEF EdOf
<1>7. /\ ed'.lines = ed.lines /\ ed'.row = ed.row /\ ed'.col = ed.col
      /\ ed'.modified = ed.modified /\ ed'.scroll = s
  BY <1>2, <1>3 DEF EdOf
<1>8. ed' \in EdPlaces
  BY <1>1, <1>6, <1>7 DEF EdPlaces
<1>9. EdWindowed(ed')
  BY <1>5, <1>7 DEF EdWindowed
<1> QED
  BY <1>1, <1>3, <1>7, <1>8, <1>9 DEF EditorHolds, ContentOf, Readable, Kept_, EdWindowed

LEMMA EditorStep == EditorHolds /\ Edit!EdNext => EditorHolds'
<1> SUFFICES ASSUME EditorHolds, Edit!EdNext PROVE EditorHolds'
  OBVIOUS
<1>1. ASSUME NEW key, Edit!Event(key) PROVE EditorHolds'
  <2>1. /\ ed \in EdPlaces /\ Readable(text) /\ Kept_(object)
        /\ ed.modified \/ told = "failed" \/ Edit!ToLines(ContentOf(text)) = ed.lines
    BY DEF EditorHolds
  <2>2. ed' = Edit!KeyDown(key) /\ drawn' = FALSE /\ UNCHANGED <<object, text, told>>
    BY <1>1 DEF Edit!Event
  <2>3. Fair(ed')
    BY <2>1, <2>2, KeyFair
  <2>4. ed' \in EdPlaces /\ (ed'.modified = TRUE \/ (ed'.lines = ed.lines /\ ed'.modified = ed.modified))
    BY <2>3 DEF Fair
  <2>5. ed'.modified \/ told = "failed" \/ Edit!ToLines(ContentOf(text)) = ed'.lines
    BY <2>1, <2>4
  <2> QED
    BY <2>1, <2>2, <2>4, <2>5 DEF EditorHolds, ContentOf, Readable, Kept_
<1> QED
  BY <1>1, SavedFair, DrawnFair DEF Edit!EdNext

LEMMA EditorKeeps == ASSUME EditorHolds PROVE Edit!CaretShown /\ Edit!CleanIsOnDisk
<1>1. ed \in EdPlaces /\ (drawn => EdWindowed(ed))
  BY DEF EditorHolds
<1>2. /\ ed.lines \in LinesOf(Shown) /\ ed.row \in 1..Len(ed.lines)
      /\ ed.col \in 0..Len(ed.lines[ed.row])
  BY <1>1, EdFacts
<1>3. ed.row \in DOMAIN ed.lines
  BY <1>2, LinesAre
<1>4. Edit!CaretShown
  BY <1>1, <1>2, <1>3 DEF Edit!CaretShown, EdWindowed, Edit!Line
<1> QED
  BY <1>4, SameLoad DEF EditorHolds, Edit!CleanIsOnDisk, ContentOf

\* What TextBuffer lets become of them, said with its operators.
LEMMA SaysEditor ==
  ASSUME Turns_(ed.lines, ed.row, ed.col, ed'.lines, ed'.row, ed'.col, Letters, 1),
         NEW S, Text!Join(ed.lines) \in Seq(S),
         PlaceAt(ed.lines, ed.row, ed.col) \in 0..Len(Text!Join(ed.lines))
  PROVE  Edit!EditsText
<1> DEFINE t == Text!Join(ed.lines)
           o == PlaceAt(ed.lines, ed.row, ed.col)
           u == Text!Join(ed'.lines)
           p == PlaceAt(ed'.lines, ed'.row, ed'.col)
<1>1. Edit!Offset = o /\ Edit!Offset' = p
  BY SameJoin DEF Edit!Offset, Edit!Line, PlaceAt
<1>0. Edit!Join(ed.lines) = t /\ (Edit!Join(ed.lines))' = u /\ Edit!LF = Break
  BY SameJoin DEF Edit!LF, Text!LF, Break
<1>2. Becomes(t, o, u, p, Letters, 1)
  BY DEF Turns_
<1>3. (Edit!Join(ed.lines))' = u
  BY <1>0
<1>4. ASSUME NEW i, NEW j PROVE Edit!B!Breaks(i, j) = Spanned(t, i, j)
  BY <1>0 DEF Edit!B!Breaks, Spanned, Break, Edit!B!Cardinality, Cardinality
<1>5. ASSUME NEW x, NEW i PROVE Edit!B!Starts(x, i) <=> Begins_(x, i)
  BY <1>0 DEF Edit!B!Starts, Begins_, Break
<1>6. t \in Seq(S) /\ o \in 0..Len(t) /\ Len(t) \in Nat
  BY LenProperties
<1>7. ASSUME NEW i \in 0..Len(t), NEW j \in i..Len(t), u = Exchanged(t, i, <<>>, j)
      PROVE  Edit!B!Without(i, j)
  <2> DEFINE a == SubSeq(t, 1, i)
             c == SubSeq(t, j + 1, Len(t))
  <2>1. a \in Seq(S)
    <3> HIDE DEF t
    <3> QED
      BY <1>6, CutOut
  <2>2. u = a \o <<>> \o c
    BY <1>7 DEF Exchanged
  <2>3. a \o <<>> = a
    <3> HIDE DEF a
    <3> QED
      BY <2>1
  <2>4. u = a \o c
    BY <2>2, <2>3
  <2> QED
    BY <1>0, <2>4 DEF Edit!B!Without
<1>8. ASSUME u = t /\ p = o PROVE Edit!EditsText
  BY <1>0, <1>1, <1>8 DEF Edit!EditsText, Edit!B!EditStep
<1>9. ASSUME Edit!B!Next PROVE Edit!EditsText
  BY <1>9 DEF Edit!EditsText, Edit!B!EditStep
<1>10. ASSUME NEW ch \in Letters \cup {Break}, u = Exchanged(t, o, <<ch>>, o) /\ p = o + 1
       PROVE  Edit!B!Next
  <2>1. Edit!B!Type(ch)
    BY <1>0, <1>1, <1>10 DEF Edit!B!Type, Exchanged
  <2> QED
    BY <1>0, <2>1 DEF Edit!B!Next
<1>11. ASSUME o > 0, u = Exchanged(t, o - 1, <<>>, o), p = o - 1 PROVE Edit!B!Next
  <2>1. o - 1 \in 0..Len(t) /\ o \in (o - 1)..Len(t)
    <3> HIDE DEF o, t
    <3> QED
      BY <1>6, <1>11
  <2>2. Edit!B!Without(o - 1, o)
    <3> DEFINE i == o - 1
    <3>1. i \in 0..Len(t) /\ o \in i..Len(t) /\ u = Exchanged(t, i, <<>>, o)
      BY <1>11, <2>1
    <3> HIDE DEF i, o, u, t
    <3>2. Edit!B!Without(i, o)
      BY <1>7, <3>1
    <3> QED
      BY <3>2 DEF i
  <2>3. Edit!B!Rub
    BY <1>0, <1>1, <1>11, <2>2 DEF Edit!B!Rub
  <2> QED
    BY <2>3 DEF Edit!B!Next
<1>12. ASSUME o < Len(t), u = Exchanged(t, o, <<>>, o + 1), p = o PROVE Edit!B!Next
  <2> DEFINE j == o + 1
  <2>1. j \in o..Len(t) /\ u = Exchanged(t, o, <<>>, j)
    <3> HIDE DEF o, t, u
    <3> QED
      BY <1>6, <1>12
  <2>2. Edit!B!Without(o, o + 1)
    <3> HIDE DEF j, o, u, t
    <3>2. Edit!B!Without(o, j)
      BY <1>6, <1>7, <2>1
    <3> QED
      BY <3>2 DEF j
  <2>3. Edit!B!Zap
    BY <1>0, <1>1, <1>12, <2>2 DEF Edit!B!Zap
  <2> QED
    BY <2>3 DEF Edit!B!Next
<1>13. ASSUME p \in {o - 1, o + 1}, u = t PROVE Edit!B!Next
  <2>1. Edit!B!Step
    BY <1>0, <1>1, <1>13 DEF Edit!B!Step
  <2> QED
    BY <2>1 DEF Edit!B!Next
<1>14. ASSUME p \in 0..Len(t), u = t, Spanned(t, o, p) <= 1, Spanned(t, p, o) <= 1
       PROVE  Edit!B!Next
  <2>1. Edit!B!Breaks(Edit!Offset, Edit!Offset') = Spanned(t, o, p)
    BY <1>1, <1>4
  <2>2. Edit!B!Breaks(Edit!Offset', Edit!Offset) = Spanned(t, p, o)
    BY <1>1, <1>4
  <2>3. Edit!B!Jump
    BY <1>0, <1>1, <1>14, <2>1, <2>2 DEF Edit!B!Jump
  <2> QED
    BY <2>3 DEF Edit!B!Next
<1>15. ASSUME CutsOut(t, o, u, p) PROVE Edit!B!Next
  <2> HIDE DEF t, o, u, p
  <2>1. PICK i \in 0..o, j \in o..Len(t) :
          /\ u = Exchanged(t, i, <<>>, j)
          /\ \/ /\ Begins_(t, i) /\ Spanned(t, i, o) = 0
                /\ \/ Spanned(t, i, j) = 1 /\ t[j] = Break
                   \/ Spanned(t, i, j) = 0 /\ j = Len(t)
             \/ i < o /\ t[i + 1] = Break /\ Spanned(t, i, j) = 1 /\ j = Len(t)
          /\ p \in 0..Len(u) /\ Begins_(u, p)
    BY <1>15 DEF CutsOut
  <2>2. i \in 0..Len(t) /\ j \in i..Len(t)
    BY <1>6
  <2>3. Edit!B!Without(i, j)
    BY <1>7, <2>1, <2>2
  <2>4. /\ Edit!B!Breaks(i, Edit!Offset) = Spanned(t, i, o)
        /\ Edit!B!Breaks(i, j) = Spanned(t, i, j)
    BY <1>1, <1>4
  <2>5. (Edit!B!Starts(t, i) <=> Begins_(t, i)) /\ (Edit!B!Starts(u, p) <=> Begins_(u, p))
    BY <1>5
  <2>6. Edit!B!Cut
    BY <1>0, <1>1, <2>1, <2>3, <2>4, <2>5 DEF Edit!B!Cut
  <2> QED
    BY <2>6 DEF Edit!B!Next
<1> QED
  BY <1>2, <1>8, <1>9, <1>10, <1>11, <1>12, <1>13, <1>14, <1>15 DEF Becomes

LEMMA EditorEdits == EditorHolds /\ Edit!EdNext => Edit!EditsText
<1> SUFFICES ASSUME EditorHolds, Edit!EdNext PROVE Edit!EditsText
  OBVIOUS
<1>1. ed \in EdPlaces
  BY DEF EditorHolds
<1>2. /\ ed.lines \in LinesOf(Characters) /\ ed.row \in 1..Len(ed.lines)
      /\ ed.col \in 0..Len(ed.lines[ed.row]) /\ Break \in Characters
  <2>1. \A l \in Seq(Shown) : l \in Seq(Inked)
    BY DEF Shown
  <2>2. ed.lines \in LinesOf(Inked)
    BY <1>1, <2>1, EdFacts DEF LinesOf
  <2> QED
    BY <1>1, <2>2, EdFacts, InkedLines, InkedFacts
<1>3. /\ Text!Join(ed.lines) \in Seq(Characters)
      /\ PlaceAt(ed.lines, ed.row, ed.col) \in 0..Len(Text!Join(ed.lines))
  <2> DEFINE lines == ed.lines
             r == ed.row
             c == ed.col
  <2>1. lines \in LinesOf(Characters) /\ r \in 1..Len(lines) /\ c \in 0..Len(lines[r])
    BY <1>2
  <2> HIDE DEF lines, r, c
  <2>2. /\ PlaceAt(lines, r, c) \in Nat /\ PlaceAt(lines, r, c) <= SpanEnd(lines, r)
        /\ SpanEnd(lines, r) \in Nat /\ SpanEnd(lines, r) <= Len(Text!Join(lines))
        /\ Len(Text!Join(lines)) \in Nat /\ Text!Join(lines) \in Seq(Characters)
    BY <1>2, <2>1, PlaceInText, JoinType
  <2>3. PlaceAt(lines, r, c) \in 0..Len(Text!Join(lines))
    BY <2>2
  <2> QED
    BY <2>2, <2>3 DEF lines, r, c
<1>4. SUFFICES Turns_(ed.lines, ed.row, ed.col, ed'.lines, ed'.row, ed'.col, Letters, 1)
  BY <1>3, SaysEditor
<1>5. ASSUME ed'.lines = ed.lines, ed'.row = ed.row, ed'.col = ed.col
      PROVE  Turns_(ed.lines, ed.row, ed.col, ed'.lines, ed'.row, ed'.col, Letters, 1)
  BY <1>5 DEF Turns_, Becomes
<1>6. ASSUME NEW key, Edit!Event(key)
      PROVE  Turns_(ed.lines, ed.row, ed.col, ed'.lines, ed'.row, ed'.col, Letters, 1)
  <2>1. ed' = Edit!KeyDown(key)
    BY <1>6 DEF Edit!Event
  <2> QED
    BY <1>1, <2>1, KeyFair DEF Fair
<1> QED
  BY <1>5, <1>6, SavedFair, DrawnFair DEF Edit!EdNext
=============================================================================
