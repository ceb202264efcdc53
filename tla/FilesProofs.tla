---------------------------- MODULE FilesProofs ----------------------------
(***************************************************************************)
(* Theorems about Files, for any paths, mounts, descriptors and bounds.    *)
(***************************************************************************)
EXTENDS Files, FiniteSetTheorems, SequenceTheorems, FunctionTheorems,
        WellFoundedInduction, NaturalsInduction, TLAPS

Bits == {0, 1}
Names == STRING
Queue(q) == \E S : q \in Seq(S)
Classes == {"file", "dir", "link"}

\* What a file may hold.
Sized(b) == b \in Seq(Bits)

KeyRec(k) == k = Key(k.store, k.class, k.path) /\ k.class \in Classes /\ k.path \in Seq(Names)

\* What its key says it is.
Proper(k, value) == /\ KeyRec(k) /\ (k.class = "file" => Sized(value))
                   /\ (k.class = "link" => value.path \in Seq(Names))

Kept(t) == /\ t = [k \in DOMAIN t |-> t[k]] /\ IsFiniteSet(DOMAIN t)
           /\ \A k \in DOMAIN t : Proper(k, t[k])

\* Puts and deletes that keep it so.
Fine(w) == w.put \in BOOLEAN /\ (w.put => Proper(w.key, w.value))
Writes(ws) == Queue(ws) /\ \A i \in 1..Len(ws) : Fine(ws[i])
----------------------------------------------------------------------------
(* Numbers.                                                                *)

LEMMA LeastOf ==
  ASSUME NEW S \in SUBSET Nat, S # {}
  PROVE  \E m \in S : \A n \in S : m <= n
<1>1. IsWellFoundedOn(OpToRel(<, Nat), Nat)
  BY NatLessThanWellFounded
<1>2. PICK m \in S : \A n \in S : ~(<<n, m>> \in OpToRel(<, Nat))
  BY <1>1, WFMin
<1>3. ASSUME NEW n \in S PROVE m <= n
  <2>1. m \in Nat /\ n \in Nat
    OBVIOUS
  <2>2. ~(n < m)
    BY <1>2, <2>1 DEF OpToRel
  <2> QED BY <2>1, <2>2
<1> QED BY <1>3

LEMMA GreatestOf ==
  ASSUME NEW n \in Nat, NEW S \in SUBSET 0..n, S # {}
  PROVE  /\ \E m \in S : \A i \in S : i <= m
         /\ Max(S) \in S /\ \A i \in S : i <= Max(S)
<1> DEFINE D == {k \in 0..n : n - k \in S}
<1>1. D \in SUBSET Nat /\ D # {}
  <2>1. PICK i \in S : TRUE
    OBVIOUS
  <2>2. n - i \in 0..n /\ n - (n - i) = i
    OBVIOUS
  <2>3. n - i \in D
    BY <2>2
  <2>4. D # {}
    BY <2>3
  <2>5. \A k \in D : k \in Nat
    OBVIOUS
  <2> HIDE DEF D
  <2> QED BY <2>4, <2>5
<1>2. PICK k \in D : \A l \in D : k <= l
  <2> HIDE DEF D
  <2> QED BY <1>1, LeastOf
<1>3. ASSUME NEW i \in S PROVE n - k >= i
  <2>1. n - i \in D /\ n - i \in Nat /\ k \in Nat
    OBVIOUS
  <2>2. k <= n - i
    BY <1>2, <2>1
  <2> QED BY <2>1, <2>2
<1>4. n - k \in S
  OBVIOUS
<1> HIDE DEF D
<1>5. PICK m \in S : \A i \in S : m >= i
  BY <1>3, <1>4
<1>6. Max(S) \in S /\ \A i \in S : Max(S) >= i
  BY <1>5 DEF Max
<1>7. \A i \in S : i \in Int
  OBVIOUS
<1> QED BY <1>6, <1>7
----------------------------------------------------------------------------
(* What a list of writes leaves.                                           *)

\* The last write to the key of the i-th.
LastTo(ws, i) == i \in 1..Len(ws) /\ \A j \in 1..Len(ws) : ws[j].key = ws[i].key => j <= i

LEMMA LastWrite ==
  ASSUME NEW ws, Queue(ws), NEW i \in 1..Len(ws)
  PROVE  /\ \E j : LastTo(ws, j) /\ ws[j].key = ws[i].key
         /\ LastTo(ws, i) => Max({j \in DOMAIN ws : ws[j].key = ws[i].key}) = i
<1> DEFINE S == {j \in DOMAIN ws : ws[j].key = ws[i].key}
<1>1. Len(ws) \in Nat
  BY DEF Queue
<1>2. S = {j \in 1..Len(ws) : ws[j].key = ws[i].key}
  BY DEF Queue
<1>3. S \in SUBSET 0..Len(ws) /\ i \in S
  BY <1>1, <1>2
<1>4. Max(S) \in S /\ \A j \in S : j <= Max(S)
  <2> HIDE DEF S
  <2> QED BY <1>1, <1>3, GreatestOf
<1>5. LastTo(ws, Max(S)) /\ ws[Max(S)].key = ws[i].key
  BY <1>2, <1>4 DEF LastTo
<1>6. ASSUME LastTo(ws, i) PROVE Max(S) = i
  <2>1. i <= Max(S) /\ Max(S) <= i
    BY <1>2, <1>3, <1>4, <1>6 DEF LastTo
  <2>2. Max(S) \in Int /\ i \in Int
    BY <1>1, <1>3, <1>4
  <2> QED BY <2>1, <2>2
<1> QED BY <1>5, <1>6

\* A key nobody writes stays, and of the others the last write counts.
LEMMA AfterFacts ==
  ASSUME NEW t, NEW ws, Queue(ws), \A i \in 1..Len(ws) : ws[i].put \in BOOLEAN
  PROVE  /\ After(t, ws) = [k \in DOMAIN After(t, ws) |-> After(t, ws)[k]]
         /\ \A k : (\A i \in 1..Len(ws) : ws[i].key # k) =>
              /\ (k \in DOMAIN After(t, ws) <=> k \in DOMAIN t)
              /\ (k \in DOMAIN t => After(t, ws)[k] = t[k])
         /\ \A i : LastTo(ws, i) =>
              /\ (ws[i].key \in DOMAIN After(t, ws) <=> ws[i].put)
              /\ (ws[i].put => After(t, ws)[ws[i].key] = ws[i].value)
<1> DEFINE touched == {ws[i].key : i \in DOMAIN ws}
           final   == [k \in touched |-> ws[Max({i \in DOMAIN ws : ws[i].key = k})]]
           a == After(t, ws)
<1>1. DOMAIN ws = 1..Len(ws)
  BY DEF Queue
<1>2. a = [k \in (DOMAIN t \ touched) \cup {j \in touched : final[j].put} |->
             IF k \in touched THEN final[k].value ELSE t[k]]
  BY DEF After
<1>3. ASSUME NEW i, LastTo(ws, i) PROVE ws[i].key \in touched /\ final[ws[i].key] = ws[i]
  <2>1. i \in 1..Len(ws) /\ ws[i].key \in touched
    BY <1>1, <1>3 DEF LastTo
  <2>2. Max({j \in DOMAIN ws : ws[j].key = ws[i].key}) = i
    BY <1>3, <2>1, LastWrite
  <2> QED BY <2>1, <2>2
<1>4. \A k : (\A i \in 1..Len(ws) : ws[i].key # k) => k \notin touched
  BY <1>1
<1> HIDE DEF touched, final, a
<1>5. a = [k \in DOMAIN a |-> a[k]]
  BY <1>2
<1>6. ASSUME NEW k, \A i \in 1..Len(ws) : ws[i].key # k
      PROVE  (k \in DOMAIN a <=> k \in DOMAIN t) /\ (k \in DOMAIN t => a[k] = t[k])
  BY <1>2, <1>4, <1>6
<1>7. ASSUME NEW i, LastTo(ws, i)
      PROVE  (ws[i].key \in DOMAIN a <=> ws[i].put) /\ (ws[i].put => a[ws[i].key] = ws[i].value)
  <2>1. ws[i].put \in BOOLEAN
    BY <1>7 DEF LastTo
  <2>2. ws[i].key \in DOMAIN a <=> final[ws[i].key].put
    BY <1>2, <1>3, <1>7
  <2>3. ws[i].key \in DOMAIN a => a[ws[i].key] = final[ws[i].key].value
    BY <1>2, <1>3, <1>7
  <2> QED BY <1>3, <1>7, <2>1, <2>2, <2>3
<1> QED BY <1>5, <1>6, <1>7 DEF a

\* What is there afterwards was there, or has been put.
LEMMA AfterFrom ==
  ASSUME NEW t, NEW ws, Queue(ws), \A i \in 1..Len(ws) : ws[i].put \in BOOLEAN,
         NEW k \in DOMAIN After(t, ws)
  PROVE  \/ k \in DOMAIN t /\ After(t, ws)[k] = t[k] /\ \A i \in 1..Len(ws) : ws[i].key # k
         \/ \E i : LastTo(ws, i) /\ ws[i].key = k /\ ws[i].put /\ After(t, ws)[k] = ws[i].value
<1>1. CASE \A i \in 1..Len(ws) : ws[i].key # k
  BY <1>1, AfterFacts
<1>2. CASE \E i \in 1..Len(ws) : ws[i].key = k
  <2>1. PICK i \in 1..Len(ws) : ws[i].key = k
    BY <1>2
  <2>2. PICK j : LastTo(ws, j) /\ ws[j].key = k
    BY <2>1, LastWrite
  <2> QED BY <2>2, AfterFacts
<1> QED BY <1>1, <1>2

LEMMA AfterKept ==
  ASSUME NEW t, Kept(t), NEW ws, Writes(ws)
  PROVE  Kept(After(t, ws))
<1> DEFINE a == After(t, ws)
           touched == {ws[i].key : i \in 1..Len(ws)}
<1>1. Queue(ws) /\ \A i \in 1..Len(ws) : Fine(ws[i]) /\ ws[i].put \in BOOLEAN
  BY DEF Writes, Fine
<1>2. a = [k \in DOMAIN a |-> a[k]]
  BY <1>1, AfterFacts
<1>3. IsFiniteSet(touched)
  <2> DEFINE f == [i \in 1..Len(ws) |-> ws[i].key]
  <2>1. PICK n \in Nat : n = Len(ws)
    BY <1>1 DEF Queue
  <2>2. f \in [1..n -> touched] /\ \A k \in touched : \E i \in 1..n : f[i] = k
    BY <2>1
  <2>3. f \in Surjection(1..n, touched)
    <3> HIDE DEF f, touched
    <3> QED BY <2>2, Fun_IsSurj
  <2>4. ExistsSurjection(1..n, touched)
    BY <2>3, Fun_ExistsSurj
  <2> QED BY <2>4, FS_NatSurjection
<1>4. ASSUME NEW k \in DOMAIN a
      PROVE  Proper(k, a[k]) /\ k \in DOMAIN t \cup touched
  <2>1. CASE k \in DOMAIN t /\ a[k] = t[k]
    BY <2>1 DEF Kept
  <2>2. CASE \E i : LastTo(ws, i) /\ ws[i].key = k /\ ws[i].put /\ a[k] = ws[i].value
    <3>1. PICK i : LastTo(ws, i) /\ ws[i].key = k /\ ws[i].put /\ a[k] = ws[i].value
      BY <2>2
    <3>2. i \in 1..Len(ws) /\ Fine(ws[i])
      BY <1>1, <3>1 DEF LastTo
    <3> QED BY <3>1, <3>2 DEF Fine
  <2> QED BY <1>1, <2>1, <2>2, AfterFrom
<1>5. IsFiniteSet(DOMAIN a)
  <2> HIDE DEF a, touched
  <2>1. IsFiniteSet(DOMAIN t \cup touched)
    BY <1>3, FS_Union DEF Kept
  <2>2. DOMAIN a \in SUBSET (DOMAIN t \cup touched)
    BY <1>4
  <2> QED BY <2>1, <2>2, FS_Subset
<1> HIDE DEF a
<1> QED BY <1>2, <1>4, <1>5 DEF Kept, a

\* u is t with v stored under k.
Stored(u, t, k, v) ==
  /\ k \in DOMAIN u /\ u[k] = v
  /\ \A j : j # k => /\ (j \in DOMAIN u <=> j \in DOMAIN t)
                    /\ (j \in DOMAIN t => u[j] = t[j])

LEMMA PutsTo ==
  ASSUME NEW t, NEW k, NEW v, Kept(t), Proper(k, v), NEW u, u = After(t, <<Put(k, v)>>)
  PROVE  Kept(u) /\ Stored(u, t, k, v)
<1>1. PICK w : w = Put(k, v)
  OBVIOUS
<1>2. w.key = k /\ w.put = TRUE /\ w.value = v
  BY <1>1 DEF Put
<1>3. PICK ws : ws = <<w>>
  OBVIOUS
<1>4. ws \in Seq({w}) /\ Len(ws) = 1 /\ ws[1] = w
  BY <1>3
<1>5. Queue(ws) /\ \A i \in 1..Len(ws) : ws[i] = w /\ ws[i].put \in BOOLEAN
  <2>1. PICK S : S = {w}
    OBVIOUS
  <2>2. ws \in Seq(S)
    BY <1>4, <2>1
  <2>3. Queue(ws)
    BY <2>2 DEF Queue
  <2>4. \A i \in 1..Len(ws) : ws[i] = w
    BY <1>4
  <2>5. w.put \in BOOLEAN
    BY <1>2
  <2> QED BY <2>3, <2>4, <2>5
<1>6. Writes(ws)
  BY <1>2, <1>5 DEF Writes, Fine
<1>7. LastTo(ws, 1) /\ ws[1].key = k
  BY <1>2, <1>4 DEF LastTo
<1>8. Kept(After(t, ws))
  BY <1>6, AfterKept
<1>9. k \in DOMAIN After(t, ws) /\ After(t, ws)[k] = v
  BY <1>2, <1>4, <1>5, <1>7, AfterFacts
<1>10. ASSUME NEW j, j # k
       PROVE  /\ (j \in DOMAIN After(t, ws) <=> j \in DOMAIN t)
              /\ (j \in DOMAIN t => After(t, ws)[j] = t[j])
  <2>1. \A i \in 1..Len(ws) : ws[i].key # j
    BY <1>2, <1>5, <1>10
  <2> QED BY <1>5, <2>1, AfterFacts
<1>11. u = After(t, ws)
  BY <1>1, <1>3
<1>12. k \in DOMAIN u /\ u[k] = v
  BY <1>9, <1>11
<1>13. \A j : j # k => /\ (j \in DOMAIN u <=> j \in DOMAIN t)
                      /\ (j \in DOMAIN t => u[j] = t[j])
  BY <1>10, <1>11
<1> QED BY <1>8, <1>11, <1>12, <1>13 DEF Stored

LEMMA PutsOne ==
  ASSUME NEW t, Kept(t), NEW k, NEW v, Proper(k, v)
  PROVE  Kept(After(t, <<Put(k, v)>>))
<1>1. PICK u : u = After(t, <<Put(k, v)>>)
  OBVIOUS
<1>2. Kept(u)
  BY <1>1, PutsTo
<1> QED BY <1>1, <1>2

LEMMA DelsOne ==
  ASSUME NEW t, Kept(t), NEW k
  PROVE  /\ Kept(After(t, <<Del(k)>>)) /\ k \notin DOMAIN After(t, <<Del(k)>>)
         /\ \A j : j # k => /\ (j \in DOMAIN After(t, <<Del(k)>>) <=> j \in DOMAIN t)
                           /\ (j \in DOMAIN t => After(t, <<Del(k)>>)[j] = t[j])
<1>1. PICK w : w = Del(k)
  OBVIOUS
<1>2. w.key = k /\ w.put = FALSE
  BY <1>1 DEF Del
<1>3. PICK ws : ws = <<w>>
  OBVIOUS
<1>4. ws \in Seq({w}) /\ Len(ws) = 1 /\ ws[1] = w
  BY <1>3
<1>5. Queue(ws) /\ \A i \in 1..Len(ws) : ws[i] = w /\ ws[i].put \in BOOLEAN
  <2>1. PICK S : S = {w}
    OBVIOUS
  <2>2. ws \in Seq(S)
    BY <1>4, <2>1
  <2>3. Queue(ws)
    BY <2>2 DEF Queue
  <2>4. \A i \in 1..Len(ws) : ws[i] = w
    BY <1>4
  <2>5. w.put \in BOOLEAN
    BY <1>2
  <2> QED BY <2>3, <2>4, <2>5
<1>6. Writes(ws)
  BY <1>2, <1>5 DEF Writes, Fine
<1>7. LastTo(ws, 1) /\ ws[1].key = k
  BY <1>2, <1>4 DEF LastTo
<1>8. Kept(After(t, ws))
  BY <1>6, AfterKept
<1>9. k \notin DOMAIN After(t, ws)
  BY <1>2, <1>4, <1>5, <1>7, AfterFacts
<1>10. ASSUME NEW j, j # k
       PROVE  /\ (j \in DOMAIN After(t, ws) <=> j \in DOMAIN t)
              /\ (j \in DOMAIN t => After(t, ws)[j] = t[j])
  <2>1. \A i \in 1..Len(ws) : ws[i].key # j
    BY <1>2, <1>5, <1>10
  <2> QED BY <1>5, <2>1, AfterFacts
<1> QED BY <1>1, <1>3, <1>8, <1>9, <1>10
----------------------------------------------------------------------------
(* Following links.                                                        *)

\* The links a path is followed over; there is such a function.
Hops(t, p, at) == at = [n \in 0..(MaxHops - 1) |-> IF n = 0 THEN p ELSE Hop(t, at[n - 1])]

LEMMA HopsExist ==
  ASSUME NEW t, NEW p
  PROVE  \E at : Hops(t, p, at)
<1> DEFINE H(m, f) == f = [n \in 0..m |-> IF n = 0 THEN p ELSE Hop(t, f[n - 1])]
           S == {m \in 0..(MaxHops - 1) : \E f : H(m, f)}
<1>1. MaxHops \in Nat \ {0}
  BY VfsAssumption
<1>2. 0 \in S
  <2>1. PICK f : f = [n \in 0..0 |-> p]
    OBVIOUS
  <2>2. H(0, f)
    BY <2>1
  <2> QED BY <1>1, <2>2
<1>3. PICK m \in S : \A i \in S : i <= m
  <2>1. S \in SUBSET 0..(MaxHops - 1)
    OBVIOUS
  <2>2. MaxHops - 1 \in Nat /\ S # {}
    <3> HIDE DEF S
    <3> QED BY <1>1, <1>2
  <2> HIDE DEF S
  <2> QED BY <2>1, <2>2, GreatestOf
<1>4. PICK f : H(m, f)
  BY <1>3
<1>5. m \in 0..(MaxHops - 1)
  BY <1>3
<1>6. CASE m = MaxHops - 1
  BY <1>4, <1>6 DEF Hops
<1>7. CASE m # MaxHops - 1
  <2>1. PICK g : g = [n \in 0..(m + 1) |-> IF n = 0 THEN p ELSE Hop(t, f[n - 1])]
    OBVIOUS
  <2>2. \A n \in 0..m : g[n] = f[n]
    BY <1>4, <1>5, <2>1
  <2>3. ASSUME NEW n \in 0..(m + 1)
        PROVE  g[n] = IF n = 0 THEN p ELSE Hop(t, g[n - 1])
    <3>1. n # 0 => n - 1 \in 0..m
      BY <1>5
    <3> QED BY <2>1, <2>2, <3>1
  <2>4. H(m + 1, g)
    BY <2>1, <2>3
  <2>5. m + 1 \in S /\ ~(m + 1 <= m)
    BY <1>1, <1>5, <1>7, <2>4
  <2> HIDE DEF S, H
  <2> QED BY <1>3, <2>5
<1> QED BY <1>6, <1>7

LEMMA FollowedBy ==
  ASSUME NEW t, NEW p
  PROVE  \E at : Hops(t, p, at) /\ Followed(t, p) = IF IsLink(t, p) THEN at[MaxHops - 1] ELSE p
<1>1. PICK at : at = CHOOSE f : Hops(t, p, f)
  OBVIOUS
<1>2. Hops(t, p, at)
  BY <1>1, HopsExist
<1>3. Followed(t, p) = IF IsLink(t, p) THEN at[MaxHops - 1] ELSE p
  BY <1>1 DEF Followed, Hops
<1> QED BY <1>2, <1>3

\* Where a path leads is a path.
LEMMA FollowedPath ==
  ASSUME NEW t, Kept(t), NEW p \in Seq(Names)
  PROVE  Followed(t, p) \in Seq(Names)
<1>1. PICK at : Hops(t, p, at) /\ Followed(t, p) = IF IsLink(t, p) THEN at[MaxHops - 1] ELSE p
  BY FollowedBy
<1>2. MaxHops \in Nat \ {0}
  BY VfsAssumption
<1>3. ASSUME NEW q \in Seq(Names) PROVE Hop(t, q) \in Seq(Names)
  <2>1. CASE ~IsLink(t, q)
    BY <2>1 DEF Hop
  <2>2. CASE IsLink(t, q)
    <3>1. PICK to : to = t[LinkKey(q)]
      OBVIOUS
    <3>2. to.path \in Seq(Names)
      BY <2>2, <3>1 DEF IsLink, Kept, Proper, LinkKey, Key
    <3>3. Front(q) \in Seq(Names)
      <4>1. Len(q) - 1 \in Int /\ \A i \in 1..(Len(q) - 1) : q[i] \in Names
        OBVIOUS
      <4> QED BY <4>1, SubSeqProperties DEF Front
    <3>4. Front(q) \o to.path \in Seq(Names)
      BY <3>2, <3>3, ConcatProperties
    <3> QED BY <2>2, <3>1, <3>2, <3>4 DEF Hop
  <2> QED BY <2>1, <2>2
<1> DEFINE S == {n \in 0..(MaxHops - 1) : at[n] \notin Seq(Names)}
<1>4. S = {}
  <2> SUFFICES ASSUME S # {} PROVE FALSE
    OBVIOUS
  <2>1. PICK n \in S : \A i \in S : n <= i
    <3>1. S \in SUBSET Nat
      BY <1>2
    <3> HIDE DEF S
    <3> QED BY <3>1, LeastOf
  <2>2. n \in 0..(MaxHops - 1) /\ at[n] = IF n = 0 THEN p ELSE Hop(t, at[n - 1])
    BY <1>1, <2>1 DEF Hops
  <2>3. CASE n = 0
    BY <2>1, <2>2, <2>3
  <2>4. CASE n # 0
    <3>1. n - 1 \in 0..(MaxHops - 1) /\ ~(n <= n - 1)
      BY <1>2, <2>2, <2>4
    <3>2. at[n - 1] \in Seq(Names)
      BY <2>1, <3>1
    <3> QED BY <1>3, <2>1, <2>2, <2>4, <3>2
  <2> QED BY <2>3, <2>4
<1>5. at[MaxHops - 1] \in Seq(Names)
  BY <1>2, <1>4
<1> QED BY <1>1, <1>5
----------------------------------------------------------------------------
(* Making directories, and booting.                                        *)

\* Only directory keys are put.
DirsOnly(ws) == Queue(ws) /\ \A i \in 1..Len(ws) : \E q \in Seq(Names) : ws[i] = Put(DirKey(q), <<>>)

SameFiles(t, u) == \A k : k.class = "file" => /\ (k \in DOMAIN t <=> k \in DOMAIN u)
                                             /\ (k \in DOMAIN t => u[k] = t[k])

LEMMA DirsKept ==
  ASSUME NEW t, Kept(t), NEW ws, DirsOnly(ws)
  PROVE  Kept(After(t, ws)) /\ SameFiles(t, After(t, ws))
<1>1. ASSUME NEW i \in 1..Len(ws)
      PROVE  Fine(ws[i]) /\ ws[i].put \in BOOLEAN /\ ws[i].key.class # "file"
  <2>1. PICK q \in Seq(Names) : ws[i] = Put(DirKey(q), <<>>)
    BY DEF DirsOnly
  <2>2. ws[i].put = TRUE /\ ws[i].key = DirKey(q)
    BY <2>1 DEF Put
  <2>3. DirKey(q).class = "dir" /\ KeyRec(DirKey(q))
    BY DEF DirKey, Key, KeyRec, Classes
  <2> QED BY <2>2, <2>3 DEF Fine, Proper
<1>2. Queue(ws) /\ Writes(ws)
  BY <1>1 DEF DirsOnly, Writes
<1>3. ASSUME NEW k, k.class = "file"
      PROVE  /\ (k \in DOMAIN t <=> k \in DOMAIN After(t, ws))
             /\ (k \in DOMAIN t => After(t, ws)[k] = t[k])
  <2>1. \A i \in 1..Len(ws) : ws[i].key # k
    BY <1>1, <1>3
  <2> QED BY <1>1, <1>2, <2>1, AfterFacts
<1> QED BY <1>2, <1>3, AfterKept DEF SameFiles

Makes(t, p, m, f) == f = [n \in 0..m |-> IF n = 0 THEN <<>> ELSE MakeNext(t, p, n, f[n - 1])]

LEMMA MakesExist ==
  ASSUME NEW t, NEW p, NEW top \in Nat
  PROVE  \E f : Makes(t, p, top, f)
<1> DEFINE S == {m \in 0..top : \E f : Makes(t, p, m, f)}
<1>1. 0 \in S
  <2>1. PICK f : f = [n \in 0..0 |-> <<>>]
    OBVIOUS
  <2>2. Makes(t, p, 0, f)
    BY <2>1 DEF Makes
  <2> QED BY <2>2
<1>2. PICK m \in S : \A i \in S : i <= m
  <2>1. S \in SUBSET 0..top /\ S # {}
    BY <1>1
  <2> HIDE DEF S
  <2> QED BY <2>1, GreatestOf
<1>3. PICK f : Makes(t, p, m, f)
  BY <1>2
<1>4. m \in 0..top
  BY <1>2
<1>5. CASE m = top
  BY <1>3, <1>5
<1>6. CASE m # top
  <2>1. PICK g : g = [n \in 0..(m + 1) |-> IF n = 0 THEN <<>> ELSE MakeNext(t, p, n, f[n - 1])]
    OBVIOUS
  <2>2. \A n \in 0..m : g[n] = f[n]
    BY <1>3, <1>4, <2>1 DEF Makes
  <2>3. ASSUME NEW n \in 0..(m + 1)
        PROVE  g[n] = IF n = 0 THEN <<>> ELSE MakeNext(t, p, n, g[n - 1])
    <3>1. n # 0 => n - 1 \in 0..m
      BY <1>4
    <3> QED BY <2>1, <2>2, <3>1
  <2>4. Makes(t, p, m + 1, g)
    BY <2>1, <2>3 DEF Makes
  <2>5. m + 1 \in S /\ ~(m + 1 <= m)
    BY <1>4, <1>6, <2>4
  <2> HIDE DEF S
  <2> QED BY <1>2, <2>5
<1> QED BY <1>5, <1>6

LEMMA MakesDirs ==
  ASSUME NEW t, NEW p \in Seq(Names)
  PROVE  DirsOnly(MakeDirs(t, p))
<1>1. Len(p) \in Nat /\ \A i \in 1..Len(p) : p[i] \in Names
  OBVIOUS
<1>2. PICK f : f = CHOOSE g : g = [n \in 0..Len(p) |-> IF n = 0 THEN <<>> ELSE MakeNext(t, p, n, g[n - 1])]
  OBVIOUS
<1>3. Makes(t, p, Len(p), f)
  BY <1>1, <1>2, MakesExist DEF Makes
<1>4. MakeDirs(t, p) = f[Len(p)]
  BY <1>2 DEF MakeDirs
<1> DEFINE S == {n \in 0..Len(p) : ~DirsOnly(f[n])}
<1>5. S = {}
  <2> SUFFICES ASSUME S # {} PROVE FALSE
    OBVIOUS
  <2>1. PICK n \in S : \A i \in S : n <= i
    <3>1. S \in SUBSET Nat
      BY <1>1
    <3> HIDE DEF S
    <3> QED BY <3>1, LeastOf
  <2>2. n \in 0..Len(p) /\ f[n] = IF n = 0 THEN <<>> ELSE MakeNext(t, p, n, f[n - 1])
    BY <1>3, <2>1 DEF Makes
  <2>3. CASE n = 0
    <3>1. DirsOnly(<<>>)
      BY DEF DirsOnly, Queue
    <3> QED BY <2>1, <2>2, <2>3, <3>1
  <2>4. CASE n # 0
    <3>1. n - 1 \in 0..Len(p) /\ ~(n <= n - 1)
      BY <1>1, <2>2, <2>4
    <3>2. PICK ws : ws = f[n - 1]
      OBVIOUS
    <3>3. DirsOnly(ws)
      BY <2>1, <3>1, <3>2
    <3>4. PICK q : q = SubSeq(p, 1, n)
      OBVIOUS
    <3>5. q \in Seq(Names)
      BY <1>1, <2>2, <3>4, SubSeqProperties
    <3>6. f[n] = ws \/ f[n] = Append(ws, Put(DirKey(q), <<>>))
      BY <2>2, <2>4, <3>2, <3>4 DEF MakeNext
    <3>7. DirsOnly(Append(ws, Put(DirKey(q), <<>>)))
      <4>1. PICK w : w = Put(DirKey(q), <<>>)
        OBVIOUS
      <4>2. PICK T : ws \in Seq(T)
        BY <3>3 DEF DirsOnly, Queue
      <4> DEFINE U == T \cup {w}
      <4>3. ws \in Seq(U) /\ w \in U
        BY <4>2
      <4> HIDE DEF U
      <4>4. PICK z : z = Append(ws, w)
        OBVIOUS
      <4>5. /\ z \in Seq(U) /\ Len(z) = Len(ws) + 1 /\ z[Len(ws) + 1] = w
            /\ \A i \in 1..Len(ws) : z[i] = ws[i]
        BY <4>3, <4>4
      <4>6. \A i \in 1..Len(z) : \E r \in Seq(Names) : z[i] = Put(DirKey(r), <<>>)
        BY <3>3, <3>5, <4>1, <4>3, <4>5 DEF DirsOnly
      <4> QED BY <4>1, <4>4, <4>5, <4>6 DEF DirsOnly, Queue
    <3> QED BY <2>1, <3>3, <3>6, <3>7
  <2> QED BY <2>3, <2>4
<1>6. DirsOnly(f[Len(p)])
  BY <1>1, <1>5
<1> QED BY <1>4, <1>6

Boots(t, m, f) ==
  f = [n \in 0..m |-> IF n = 0 THEN t ELSE After(f[n - 1], MakeDirs(f[n - 1], BootDirs[n]))]

LEMMA BootsExist ==
  ASSUME NEW t, NEW top \in Nat
  PROVE  \E f : Boots(t, top, f)
<1> DEFINE S == {m \in 0..top : \E f : Boots(t, m, f)}
<1>1. 0 \in S
  <2>1. PICK f : f = [n \in 0..0 |-> t]
    OBVIOUS
  <2>2. Boots(t, 0, f)
    BY <2>1 DEF Boots
  <2> QED BY <2>2
<1>2. PICK m \in S : \A i \in S : i <= m
  <2>1. S \in SUBSET 0..top /\ S # {}
    BY <1>1
  <2> HIDE DEF S
  <2> QED BY <2>1, GreatestOf
<1>3. PICK f : Boots(t, m, f)
  BY <1>2
<1>4. m \in 0..top
  BY <1>2
<1>5. CASE m = top
  BY <1>3, <1>5
<1>6. CASE m # top
  <2>1. PICK g : g = [n \in 0..(m + 1) |->
                        IF n = 0 THEN t ELSE After(f[n - 1], MakeDirs(f[n - 1], BootDirs[n]))]
    OBVIOUS
  <2>2. \A n \in 0..m : g[n] = f[n]
    BY <1>3, <1>4, <2>1 DEF Boots
  <2>3. ASSUME NEW n \in 0..(m + 1)
        PROVE  g[n] = IF n = 0 THEN t ELSE After(g[n - 1], MakeDirs(g[n - 1], BootDirs[n]))
    <3>1. n # 0 => n - 1 \in 0..m
      BY <1>4
    <3> QED BY <2>1, <2>2, <3>1
  <2>4. Boots(t, m + 1, g)
    BY <2>1, <2>3 DEF Boots
  <2>5. m + 1 \in S /\ ~(m + 1 <= m)
    BY <1>4, <1>6, <2>4
  <2> HIDE DEF S
  <2> QED BY <1>2, <2>5
<1> QED BY <1>5, <1>6

\* A boot makes directories; it touches no file.
LEMMA BootKeeps ==
  ASSUME NEW t, Kept(t)
  PROVE  Kept(Boot(t)) /\ SameFiles(t, Boot(t))
<1>1. Len(BootDirs) \in Nat /\ \A n \in 1..Len(BootDirs) : BootDirs[n] \in Seq(Names)
  BY FilesAssumption, VfsAssumption DEF Names
<1>2. PICK f : f = CHOOSE g : Boots(t, Len(BootDirs), g)
  OBVIOUS
<1>3. Boots(t, Len(BootDirs), f)
  BY <1>1, <1>2, BootsExist
<1>4. Boot(t) = f[Len(BootDirs)]
  BY <1>2 DEF Boot, Boots
<1> DEFINE Good(u) == Kept(u) /\ SameFiles(t, u)
           S == {n \in 0..Len(BootDirs) : ~Good(f[n])}
<1>5. S = {}
  <2> SUFFICES ASSUME S # {} PROVE FALSE
    OBVIOUS
  <2>1. PICK n \in S : \A i \in S : n <= i
    <3>1. S \in SUBSET Nat
      BY <1>1
    <3> HIDE DEF S
    <3> QED BY <3>1, LeastOf
  <2>2. n \in 0..Len(BootDirs) /\ ~Good(f[n])
        /\ f[n] = IF n = 0 THEN t ELSE After(f[n - 1], MakeDirs(f[n - 1], BootDirs[n]))
    BY <1>3, <2>1 DEF Boots
  <2>3. CASE n = 0
    BY <2>2, <2>3 DEF SameFiles
  <2>4. CASE n # 0
    <3>1. n - 1 \in 0..Len(BootDirs) /\ ~(n <= n - 1) /\ n \in 1..Len(BootDirs)
      BY <1>1, <2>2, <2>4
    <3>2. PICK u : u = f[n - 1]
      OBVIOUS
    <3>3. Good(u)
      BY <2>1, <3>1, <3>2
    <3>4. PICK ws : ws = MakeDirs(u, BootDirs[n])
      OBVIOUS
    <3>5. DirsOnly(ws)
      BY <1>1, <3>1, <3>4, MakesDirs
    <3>6. Kept(After(u, ws)) /\ SameFiles(u, After(u, ws))
      BY <3>3, <3>5, DirsKept
    <3>7. SameFiles(t, After(u, ws))
      BY <3>3, <3>6 DEF SameFiles
    <3>8. f[n] = After(u, ws)
      BY <2>2, <2>4, <3>2, <3>4
    <3> QED BY <2>2, <3>6, <3>7, <3>8
  <2> QED BY <2>3, <2>4
<1>6. Good(f[Len(BootDirs)])
  BY <1>1, <1>5
<1> QED BY <1>4, <1>6

\* What a reload finds of kept keys.
LEMMA DurableKept ==
  ASSUME NEW t, Kept(t)
  PROVE  /\ Kept(Durable(t))
         /\ \A k : /\ (k \in DOMAIN Durable(t) <=> k \in DOMAIN t /\ k.store # "tmpfs")
                  /\ (k \in DOMAIN Durable(t) => Durable(t)[k] = t[k])
<1> DEFINE d == Durable(t)
           S == {k \in DOMAIN t : k.store # "tmpfs"}
<1>1. d = [k \in S |-> t[k]]
  BY DEF Durable, Restrict
<1>2. IsFiniteSet(S)
  <2>1. IsFiniteSet(DOMAIN t) /\ S \in SUBSET DOMAIN t
    BY DEF Kept
  <2> HIDE DEF S
  <2> QED BY <2>1, FS_Subset
<1>3. \A k : k \in S <=> k \in DOMAIN t /\ k.store # "tmpfs"
  OBVIOUS
<1> HIDE DEF d, S
<1>4. DOMAIN d = S /\ d = [k \in DOMAIN d |-> d[k]] /\ \A k \in S : d[k] = t[k]
  BY <1>1
<1>5. \A k \in S : Proper(k, d[k])
  BY <1>3, <1>4 DEF Kept
<1> QED BY <1>2, <1>3, <1>4, <1>5 DEF Kept, d
----------------------------------------------------------------------------
(* What calls write.                                                       *)

LEMMA MaxTwo ==
  ASSUME NEW a \in Nat, NEW b \in Nat
  PROVE  Max({a, b}) = IF a >= b THEN a ELSE b
<1> DEFINE S == {a, b}
<1>1. S \in SUBSET 0..(a + b) /\ S # {} /\ a + b \in Nat
  OBVIOUS
<1>2. Max(S) \in S /\ \A i \in S : i <= Max(S)
  <2> HIDE DEF S
  <2> QED BY <1>1, GreatestOf
<1> QED BY <1>2

LEMMA ResizedFits ==
  ASSUME NEW b \in Seq(Bits), NEW n \in Nat
  PROVE  /\ Resized(b, n) \in Seq(Bits) /\ Len(Resized(b, n)) = n
         /\ \A i \in 1..n : Resized(b, n)[i] = IF i <= Len(b) THEN b[i] ELSE 0
<1>1. PICK r : r = Resized(b, n)
  OBVIOUS
<1>2. r = [i \in 1..n |-> IF i <= Len(b) THEN b[i] ELSE 0]
  BY <1>1 DEF Resized
<1>3. ASSUME NEW i \in 1..n PROVE (IF i <= Len(b) THEN b[i] ELSE 0) \in Bits
  <2>1. i <= Len(b) => i \in 1..Len(b)
    OBVIOUS
  <2>2. i <= Len(b) => b[i] \in Bits
    BY <2>1
  <2> QED BY <2>2 DEF Bits
<1>4. r \in [1..n -> Bits]
  BY <1>2, <1>3
<1>5. r \in Seq(Bits) /\ Len(r) = n
  BY <1>4
<1> QED BY <1>1, <1>2, <1>5

\* A byte written goes where it should; what was there before it stays.
LEMMA OverwrittenFits ==
  ASSUME NEW b \in Seq(Bits), NEW at \in Nat
  PROVE  LET o == Overwritten(b, at)
         IN  /\ o \in Seq(Bits) /\ Len(o) = IF Len(b) >= at + 1 THEN Len(b) ELSE at + 1
             /\ \A i \in 1..Len(b) : i # at + 1 => o[i] = b[i]
<1>1. Len(b) \in Nat /\ at + 1 \in Nat
  OBVIOUS
<1>2. PICK n : n = Max({Len(b), at + 1})
  OBVIOUS
<1>3. n = IF Len(b) >= at + 1 THEN Len(b) ELSE at + 1
  BY <1>1, <1>2, MaxTwo
<1>4. n \in Nat
  BY <1>1, <1>3
<1>5. PICK r : r = Resized(b, n)
  OBVIOUS
<1>6. /\ r \in Seq(Bits) /\ Len(r) = n
      /\ \A i \in 1..n : r[i] = IF i <= Len(b) THEN b[i] ELSE 0
  BY <1>4, <1>5, ResizedFits
<1>7. PICK o : o = Overwritten(b, at)
  OBVIOUS
<1>8. o = [i \in 1..n |-> IF i = at + 1 THEN 1 ELSE r[i]]
  <2>1. DOMAIN r = 1..n
    BY <1>6
  <2> QED BY <1>2, <1>5, <1>7, <2>1 DEF Overwritten
<1>9. o \in [1..n -> Bits]
  <2>1. \A i \in 1..n : r[i] \in Bits
    BY <1>6
  <2> QED BY <1>8, <2>1 DEF Bits
<1>10. o \in Seq(Bits) /\ Len(o) = n
  BY <1>4, <1>9
<1>11. \A i \in 1..Len(b) : i # at + 1 => o[i] = b[i]
  <2>1. \A i \in 1..Len(b) : i \in 1..n
    BY <1>1, <1>3
  <2> QED BY <1>6, <1>8, <2>1
<1> QED BY <1>3, <1>7, <1>10, <1>11

\* What a path holds may be held.
LEMMA HeldSized ==
  ASSUME Kept(tree), NEW p
  PROVE  Sized(Held(p)) /\ (IsFile(tree, p) => Sized(Bytes(tree, p)))
<1>1. MaxFileSize \in Nat
  BY FilesAssumption
<1>2. Sized(<<>>)
  BY <1>1 DEF Sized
<1>3. ASSUME IsFile(tree, p) PROVE Sized(Bytes(tree, p))
  <2>1. PICK k : k = FileKey(Followed(tree, p))
    OBVIOUS
  <2>2. k \in DOMAIN tree /\ k.class = "file" /\ Bytes(tree, p) = tree[k]
    BY <1>3, <2>1 DEF IsFile, Bytes, FileKey, Key
  <2> QED BY <2>2 DEF Kept, Proper
<1> QED BY <1>2, <1>3 DEF Held

LEMMA KeysProper ==
  ASSUME NEW p \in Seq(Names)
  PROVE  /\ \A b : Sized(b) => Proper(FileKey(p), b)
         /\ \A b : Proper(DirKey(p), b)
         /\ \A to : to.path \in Seq(Names) => Proper(LinkKey(p), to)
<1>1. \A class \in Classes : KeyRec(Key(StoreOf(p), class, p)) /\ Key(StoreOf(p), class, p).class = class
  BY DEF Key, KeyRec
<1>2. "file" \in Classes /\ "dir" \in Classes /\ "link" \in Classes
  BY DEF Classes
<1> QED BY <1>1, <1>2 DEF FileKey, DirKey, LinkKey, Proper

LEMMA FileWritten ==
  ASSUME Kept(tree), NEW p \in Seq(Names), NEW b, Sized(b)
  PROVE  Kept(After(tree, WriteFile(tree, p, b)))
<1>1. PICK q : q = Followed(tree, p)
  OBVIOUS
<1>2. q \in Seq(Names)
  BY <1>1, FollowedPath
<1>3. Proper(FileKey(q), b)
  BY <1>2, KeysProper
<1> QED BY <1>1, <1>3, PutsOne DEF WriteFile
----------------------------------------------------------------------------
(* Paths.                                                                  *)

LEMMA PrefixFacts ==
  ASSUME NEW s \in Seq(Names), NEW t \in Seq(Names)
  PROVE  /\ IsPrefix(s, t) <=> Len(s) <= Len(t) /\ \A i \in 1..Len(s) : s[i] = t[i]
         /\ IsStrictPrefix(s, t) <=> IsPrefix(s, t) /\ Len(s) < Len(t)
<1>1. Len(s) \in Nat /\ Len(t) \in Nat
  OBVIOUS
<1>2. SubSeq(s, 1, Len(s)) = s
  BY SubSeqFull
<1>3. ASSUME Len(s) <= Len(t)
      PROVE  SubSeq(t, 1, Len(s)) = s <=> \A i \in 1..Len(s) : s[i] = t[i]
  <2>1. PICK u : u = SubSeq(t, 1, Len(s))
    OBVIOUS
  <2>2. \A i \in 1..Len(s) : t[i] \in Names
    BY <1>1, <1>3
  <2>3. 1 \in Int /\ Len(s) \in Int
    BY <1>1
  <2>4. u \in Seq(Names) /\ Len(u) = IF 1 <= Len(s) THEN Len(s) - 1 + 1 ELSE 0
    BY <2>1, <2>2, <2>3, SubSeqProperties
  <2>5. \A i \in 1..(Len(s) - 1 + 1) : SubSeq(t, 1, Len(s))[i] = t[1 + i - 1]
    BY <2>2, <2>3, SubSeqProperties
  <2>6. ASSUME NEW i \in 1..Len(s) PROVE u[i] = t[i]
    <3>1. i \in 1..(Len(s) - 1 + 1) /\ 1 + i - 1 = i
      BY <1>1
    <3> QED BY <2>1, <2>5, <3>1
  <2>7. Len(u) = Len(s)
    BY <1>1, <2>4
  <2>8. (\A i \in 1..Len(s) : s[i] = t[i]) => u = s
    BY <2>4, <2>6, <2>7, SeqEqual
  <2>9. u = s => \A i \in 1..Len(s) : s[i] = t[i]
    BY <2>6
  <2> QED BY <2>1, <2>8, <2>9
<1>4. IsPrefix(s, t) <=> Len(s) <= Len(t) /\ \A i \in 1..Len(s) : s[i] = t[i]
  BY <1>2, <1>3 DEF IsPrefix
<1>5. ASSUME IsPrefix(s, t), s # t PROVE Len(s) < Len(t)
  <2>1. Len(s) # Len(t)
    BY <1>4, <1>5, SeqEqual
  <2> QED BY <1>1, <1>4, <1>5, <2>1
<1> QED BY <1>1, <1>4, <1>5 DEF IsStrictPrefix

\* What is left of a path below another one, put below a third.
Onto(p, from, to) == to \o SubSeq(p, Len(from) + 1, Len(p))

LEMMA OntoFacts ==
  ASSUME NEW p \in Seq(Names), NEW from \in Seq(Names), NEW to \in Seq(Names), Len(from) <= Len(p)
  PROVE  /\ Onto(p, from, to) \in Seq(Names) /\ Len(Onto(p, from, to)) = Len(to) + Len(p) - Len(from)
         /\ IsPrefix(to, Onto(p, from, to))
         /\ \A i \in 1..(Len(p) - Len(from)) : Onto(p, from, to)[Len(to) + i] = p[Len(from) + i]
         /\ Len(from) < Len(p) => IsStrictPrefix(to, Onto(p, from, to))
<1>1. Len(p) \in Nat /\ Len(from) \in Nat /\ Len(to) \in Nat
  OBVIOUS
<1>2. PICK m : m = Len(from) + 1
  OBVIOUS
<1>3. PICK n : n = Len(p)
  OBVIOUS
<1>4. PICK r : r = SubSeq(p, m, n)
  OBVIOUS
<1>5. m \in Int /\ n \in Int /\ \A i \in m..n : p[i] \in Names
  BY <1>1, <1>2, <1>3
<1>6. /\ r \in Seq(Names) /\ Len(r) = IF m <= n THEN n - m + 1 ELSE 0
      /\ \A i \in 1..(n - m + 1) : r[i] = p[m + i - 1]
  BY <1>4, <1>5, SubSeqProperties
<1>7. Len(r) = Len(p) - Len(from)
  BY <1>1, <1>2, <1>3, <1>6
<1>8. PICK o : o = Onto(p, from, to)
  OBVIOUS
<1>9. o = to \o r
  BY <1>2, <1>3, <1>4, <1>8 DEF Onto
<1>10. /\ o \in Seq(Names) /\ Len(o) = Len(to) + Len(r)
       /\ \A i \in 1..(Len(to) + Len(r)) : o[i] = IF i <= Len(to) THEN to[i] ELSE r[i - Len(to)]
  BY <1>6, <1>9, ConcatProperties
<1>11. ASSUME NEW i \in 1..Len(to) PROVE to[i] = o[i]
  <2>1. i \in 1..(Len(to) + Len(r)) /\ i <= Len(to)
    BY <1>1, <1>7
  <2> QED BY <1>10, <2>1
<1>12. IsPrefix(to, o)
  BY <1>1, <1>7, <1>10, <1>11, PrefixFacts
<1>13. ASSUME NEW i \in 1..(Len(p) - Len(from)) PROVE o[Len(to) + i] = p[Len(from) + i]
  <2>1. Len(to) + i \in 1..(Len(to) + Len(r)) /\ ~(Len(to) + i <= Len(to)) /\ Len(to) + i - Len(to) = i
    BY <1>1, <1>7
  <2>2. o[Len(to) + i] = r[i]
    BY <1>10, <2>1
  <2>3. i \in 1..(n - m + 1) /\ m + i - 1 = Len(from) + i
    BY <1>1, <1>2, <1>3
  <2> QED BY <1>6, <2>2, <2>3
<1>14. Len(from) < Len(p) => IsStrictPrefix(to, o)
  BY <1>1, <1>7, <1>10, <1>12, PrefixFacts
<1> QED BY <1>7, <1>8, <1>10, <1>12, <1>13, <1>14

\* A path below another is moved to one place, and no other path to the same.
LEMMA OntoOnce ==
  ASSUME NEW p \in Seq(Names), NEW q \in Seq(Names), NEW from \in Seq(Names), NEW to \in Seq(Names),
         IsPrefix(from, p), IsPrefix(from, q), Onto(p, from, to) = Onto(q, from, to)
  PROVE  p = q
<1>1. Len(p) \in Nat /\ Len(q) \in Nat /\ Len(from) \in Nat /\ Len(to) \in Nat
  OBVIOUS
<1>2. /\ Len(from) <= Len(p) /\ \A i \in 1..Len(from) : from[i] = p[i]
      /\ Len(from) <= Len(q) /\ \A i \in 1..Len(from) : from[i] = q[i]
  BY PrefixFacts
<1>3. PICK a : a = Onto(p, from, to)
  OBVIOUS
<1>4. /\ Len(a) = Len(to) + Len(p) - Len(from)
      /\ \A i \in 1..(Len(p) - Len(from)) : a[Len(to) + i] = p[Len(from) + i]
  <2>1. /\ Len(Onto(p, from, to)) = Len(to) + Len(p) - Len(from)
        /\ \A i \in 1..(Len(p) - Len(from)) : Onto(p, from, to)[Len(to) + i] = p[Len(from) + i]
    BY <1>2, OntoFacts
  <2> QED BY <1>3, <2>1
<1>5. /\ Len(a) = Len(to) + Len(q) - Len(from)
      /\ \A i \in 1..(Len(q) - Len(from)) : a[Len(to) + i] = q[Len(from) + i]
  <2>1. /\ Len(Onto(q, from, to)) = Len(to) + Len(q) - Len(from)
        /\ \A i \in 1..(Len(q) - Len(from)) : Onto(q, from, to)[Len(to) + i] = q[Len(from) + i]
    BY <1>2, OntoFacts
  <2> QED BY <1>3, <2>1
<1>6. Len(p) = Len(q)
  BY <1>1, <1>4, <1>5
<1>7. ASSUME NEW i \in 1..Len(p) PROVE p[i] = q[i]
  <2>1. CASE i <= Len(from)
    <3>1. i \in 1..Len(from)
      BY <1>1, <2>1
    <3> QED BY <1>2, <3>1
  <2>2. CASE ~(i <= Len(from))
    <3>1. PICK j : j = i - Len(from)
      OBVIOUS
    <3>2. j \in 1..(Len(p) - Len(from)) /\ j \in 1..(Len(q) - Len(from)) /\ Len(from) + j = i
      BY <1>1, <1>6, <2>2, <3>1
    <3> QED BY <1>4, <1>5, <3>2
  <2> QED BY <2>1, <2>2
<1> QED BY <1>6, <1>7, SeqEqual

LEMMA MovedFacts ==
  ASSUME NEW k, KeyRec(k), NEW from \in Seq(Names), NEW to \in Seq(Names), IsPrefix(from, k.path)
  PROVE  LET new == Moved(k, from, to)
         IN  /\ KeyRec(new) /\ new.class = k.class /\ new.store = StoreOf(to)
             /\ new.path = Onto(k.path, from, to) /\ IsPrefix(to, new.path)
             /\ IsStrictPrefix(from, k.path) => IsStrictPrefix(to, new.path)
<1>1. PICK q : q = Onto(k.path, from, to)
  OBVIOUS
<1>2. k.path \in Seq(Names) /\ Len(from) <= Len(k.path)
  BY PrefixFacts DEF KeyRec
<1>3. q \in Seq(Names) /\ IsPrefix(to, q) /\ (Len(from) < Len(k.path) => IsStrictPrefix(to, q))
  BY <1>1, <1>2, OntoFacts
<1>4. IsStrictPrefix(from, k.path) => Len(from) < Len(k.path)
  BY <1>2, PrefixFacts
<1>5. Moved(k, from, to) = Key(StoreOf(to), k.class, q)
  BY <1>1 DEF Moved, Onto
<1>6. k.class \in Classes
  BY DEF KeyRec
<1>7. PICK new : new = Moved(k, from, to)
  OBVIOUS
<1>8. new.store = StoreOf(to) /\ new.class = k.class /\ new.path = q
  BY <1>5, <1>7 DEF Key
<1>9. KeyRec(new)
  BY <1>3, <1>5, <1>6, <1>7, <1>8 DEF KeyRec
<1> QED BY <1>1, <1>3, <1>4, <1>7, <1>8, <1>9

LEMMA MovedOnce ==
  ASSUME NEW k, NEW l, KeyRec(k), KeyRec(l), k.store = l.store,
         NEW from \in Seq(Names), NEW to \in Seq(Names), IsPrefix(from, k.path), IsPrefix(from, l.path),
         Moved(k, from, to) = Moved(l, from, to)
  PROVE  k = l
<1>1. PICK new : new = Moved(k, from, to)
  OBVIOUS
<1>2. new.class = k.class /\ new.path = Onto(k.path, from, to)
  BY <1>1, MovedFacts
<1>3. new.class = l.class /\ new.path = Onto(l.path, from, to)
  BY <1>1, MovedFacts
<1>4. k.path = l.path
  BY <1>2, <1>3, OntoOnce DEF KeyRec
<1>5. k = Key(k.store, k.class, k.path) /\ l = Key(l.store, l.class, l.path)
  BY DEF KeyRec
<1> QED BY <1>2, <1>3, <1>4, <1>5
----------------------------------------------------------------------------
(* What a rename writes.                                                   *)

\* A finite set, in some order.
LEMMA Listed ==
  ASSUME NEW S, IsFiniteSet(S), NEW f \in SetToSeqs(S)
  PROVE  f \in Seq(S) /\ \A k \in S : \E i \in 1..Len(f) : f[i] = k
<1>1. PICK n : n = Cardinality(S)
  OBVIOUS
<1>2. n \in Nat
  BY <1>1, FS_CardinalityType
<1>3. f \in [1..n -> S] /\ \A i, j \in 1..n : i # j => f[i] # f[j]
  BY <1>1 DEF SetToSeqs
<1>4. f \in Injection(1..n, S)
  BY <1>3, Fun_IsInj
<1>5. Cardinality(1..n) = n
  <2>1. Cardinality(1..n) = IF 1 > n THEN 0 ELSE n - 1 + 1
    BY <1>2, FS_Interval
  <2> QED BY <1>2, <2>1
<1>6. f \in Surjection(1..n, S)
  BY <1>1, <1>4, <1>5, FS_Injection
<1>7. \A k \in S : \E i \in 1..n : f[i] = k
  BY <1>6 DEF Surjection
<1>8. f \in Seq(S) /\ Len(f) = n
  BY <1>2, <1>3
<1> QED BY <1>7, <1>8

LEMMA BelowFinite ==
  ASSUME NEW t, Kept(t), NEW from, NEW classes
  PROVE  IsFiniteSet(Below(t, from, classes)) /\ Below(t, from, classes) \subseteq DOMAIN t
<1>1. Below(t, from, classes) \in SUBSET DOMAIN t
  BY DEF Below
<1> QED BY <1>1, FS_Subset DEF Kept

LEMMA KeysListed ==
  ASSUME NEW t, Kept(t), NEW from, NEW keys \in TreeKeys(t, from)
  PROVE  /\ keys \in Seq(Below(t, from, Tree))
         /\ from # <<>> => \A k \in Below(t, from, Tree) : \E i \in 1..Len(keys) : keys[i] = k
<1> DEFINE B == Below(t, from, Tree)
           F == Below(t, from, {"file"})
           D == Below(t, from, {"dir"})
<1>1. B = F \cup D
  BY DEF Below, Tree
<1>2. IsFiniteSet(F) /\ IsFiniteSet(D)
  BY BelowFinite
<1>3. \/ keys = <<>> /\ from = <<>>
      \/ from # <<>> /\ \E f \in SetToSeqs(F), d \in SetToSeqs(D) : keys = f \o d
  <2>1. CASE from = <<>>
    BY <2>1 DEF TreeKeys
  <2>2. CASE from # <<>>
    <3>1. keys \in {f \o d : f \in SetToSeqs(F), d \in SetToSeqs(D)}
      BY <2>2 DEF TreeKeys
    <3> HIDE DEF F, D
    <3> QED BY <2>2, <3>1
  <2> QED BY <2>1, <2>2
<1> HIDE DEF B, F, D
<1>4. CASE keys = <<>> /\ from = <<>>
  <2>1. keys \in Seq(B)
    BY <1>4
  <2> QED BY <1>4, <2>1 DEF B
<1>5. CASE from # <<>> /\ \E f \in SetToSeqs(F), d \in SetToSeqs(D) : keys = f \o d
  <2>1. PICK f \in SetToSeqs(F), d \in SetToSeqs(D) : keys = f \o d
    BY <1>5
  <2>2. f \in Seq(F) /\ \A k \in F : \E i \in 1..Len(f) : f[i] = k
    BY <1>2, Listed
  <2>3. d \in Seq(D) /\ \A k \in D : \E i \in 1..Len(d) : d[i] = k
    BY <1>2, Listed
  <2>4. f \in Seq(B) /\ d \in Seq(B)
    <3>1. F \subseteq B /\ D \subseteq B
      BY <1>1
    <3> QED BY <2>2, <2>3, <3>1, SeqMonotonic
  <2>5. /\ keys \in Seq(B) /\ Len(keys) = Len(f) + Len(d)
        /\ \A i \in 1..(Len(f) + Len(d)) : keys[i] = IF i <= Len(f) THEN f[i] ELSE d[i - Len(f)]
    BY <2>1, <2>4, ConcatProperties
  <2>6. Len(f) \in Nat /\ Len(d) \in Nat
    BY <2>4
  <2>7. ASSUME NEW k \in B PROVE \E i \in 1..Len(keys) : keys[i] = k
    <3>1. CASE k \in F
      <4>1. PICK i \in 1..Len(f) : f[i] = k
        BY <2>2, <3>1
      <4>2. i \in 1..(Len(f) + Len(d)) /\ i <= Len(f)
        BY <2>6
      <4> QED BY <2>5, <4>1, <4>2
    <3>2. CASE k \in D
      <4>1. PICK i \in 1..Len(d) : d[i] = k
        BY <2>3, <3>2
      <4>2. PICK j : j = Len(f) + i
        OBVIOUS
      <4>3. j \in 1..(Len(f) + Len(d)) /\ ~(j <= Len(f)) /\ j - Len(f) = i
        BY <2>6, <4>2
      <4> QED BY <2>5, <4>1, <4>3
    <3> QED BY <1>1, <3>1, <3>2
  <2> QED BY <2>5, <2>7 DEF B
<1> QED BY <1>3, <1>4, <1>5

\* One key after the other: put at its new place, then deleted.
LEMMA MoveTreeFacts ==
  ASSUME NEW t, NEW from, NEW to, NEW keys, Queue(keys)
  PROVE  LET ws == MoveTree(t, keys, from, to)  n == Len(keys)
         IN  /\ Queue(ws) /\ Len(ws) = 2 * n + 2
             /\ \A i \in 1..n : /\ ws[2 * i - 1] = Put(Moved(keys[i], from, to), t[keys[i]])
                               /\ ws[2 * i] = Del(keys[i])
             /\ ws[2 * n + 1] = Del(DirKey(from)) /\ ws[2 * n + 2] = Put(DirKey(to), <<>>)
<1>1. PICK n : n = Len(keys)
  OBVIOUS
<1>2. n \in Nat
  BY <1>1 DEF Queue
<1>3. PICK m : m = MoveKeys(t, keys, from, to)
  OBVIOUS
<1> DEFINE w(i) == MoveKey(t, keys[(i + 1) \div 2], from, to)[IF i % 2 = 1 THEN 1 ELSE 2]
<1>4. m = [i \in 1..(2 * n) |-> w(i)]
  BY <1>1, <1>3 DEF MoveKeys
<1>5. PICK a : a = Del(DirKey(from))
  OBVIOUS
<1>6. PICK b : b = Put(DirKey(to), <<>>)
  OBVIOUS
<1>7. PICK S : S = {m[i] : i \in 1..(2 * n)} \cup {a, b}
  OBVIOUS
<1>8. m \in Seq(S) /\ Len(m) = 2 * n
  <2> HIDE DEF w
  <2>1. m \in [1..(2 * n) -> S] /\ 2 * n \in Nat
    BY <1>2, <1>4, <1>7
  <2> QED BY <2>1
<1>9. PICK e : e = <<a, b>>
  OBVIOUS
<1>10. e \in Seq(S) /\ Len(e) = 2 /\ e[1] = a /\ e[2] = b
  BY <1>7, <1>9
<1>11. PICK ws : ws = MoveTree(t, keys, from, to)
  OBVIOUS
<1>12. ws = m \o e
  BY <1>3, <1>5, <1>6, <1>9, <1>11 DEF MoveTree
<1>13. /\ ws \in Seq(S) /\ Len(ws) = 2 * n + 2
       /\ \A i \in 1..(2 * n + 2) : ws[i] = IF i <= 2 * n THEN m[i] ELSE e[i - 2 * n]
  <2>1. PICK l : l = Len(m)
    OBVIOUS
  <2>2. PICK g : g = Len(e)
    OBVIOUS
  <2>3. /\ m \o e \in Seq(S) /\ Len(m \o e) = Len(m) + Len(e)
        /\ \A i \in 1..(Len(m) + Len(e)) :
             (m \o e)[i] = IF i <= Len(m) THEN m[i] ELSE e[i - Len(m)]
    BY <1>8, <1>10, ConcatProperties
  <2>4. /\ ws \in Seq(S) /\ Len(ws) = l + g
        /\ \A i \in 1..(l + g) : ws[i] = IF i <= l THEN m[i] ELSE e[i - l]
    BY <1>12, <2>1, <2>2, <2>3
  <2>5. l = 2 * n /\ g = 2
    BY <1>8, <1>10, <2>1, <2>2
  <2> QED BY <2>4, <2>5
<1>14. ASSUME NEW i \in 1..n
       PROVE  /\ ws[2 * i - 1] = Put(Moved(keys[i], from, to), t[keys[i]])
              /\ ws[2 * i] = Del(keys[i])
  <2>1. /\ 2 * i - 1 \in 1..(2 * n) /\ 2 * i \in 1..(2 * n)
        /\ 2 * i - 1 \in 1..(2 * n + 2) /\ 2 * i \in 1..(2 * n + 2)
        /\ 2 * i - 1 <= 2 * n /\ 2 * i <= 2 * n
    BY <1>2
  <2>2. ws[2 * i - 1] = w(2 * i - 1) /\ ws[2 * i] = w(2 * i)
    <3> HIDE DEF w
    <3> QED BY <1>4, <1>13, <2>1
  <2>3. (2 * i - 1 + 1) \div 2 = i /\ (2 * i + 1) \div 2 = i
    BY <1>2
  <2>4. (2 * i - 1) % 2 = 1 /\ (2 * i) % 2 # 1
    BY <1>2
  <2>5. PICK k : k = keys[i]
    OBVIOUS
  <2>6. w(2 * i - 1) = MoveKey(t, k, from, to)[1] /\ w(2 * i) = MoveKey(t, k, from, to)[2]
    BY <2>3, <2>4, <2>5
  <2>7. MoveKey(t, k, from, to)[1] = Put(Moved(k, from, to), t[k]) /\ MoveKey(t, k, from, to)[2] = Del(k)
    BY DEF MoveKey
  <2> QED BY <2>2, <2>5, <2>6, <2>7
<1>15. ws[2 * n + 1] = a /\ ws[2 * n + 2] = b
  <2>1. PICK x : x = 2 * n + 1
    OBVIOUS
  <2>2. PICK y : y = 2 * n + 2
    OBVIOUS
  <2>3. /\ x \in 1..(2 * n + 2) /\ ~(x <= 2 * n) /\ x - 2 * n = 1
        /\ y \in 1..(2 * n + 2) /\ ~(y <= 2 * n) /\ y - 2 * n = 2
    BY <1>2, <2>1, <2>2
  <2>4. ws[x] = e[x - 2 * n] /\ ws[y] = e[y - 2 * n]
    BY <1>13, <2>3
  <2> QED BY <1>10, <2>1, <2>2, <2>3, <2>4
<1>16. Queue(ws)
  BY <1>13 DEF Queue
<1> QED BY <1>1, <1>5, <1>6, <1>11, <1>13, <1>14, <1>15, <1>16

\* Every place is one of these.
LEMMA Places ==
  ASSUME NEW n \in Nat, NEW j \in 1..(2 * n + 2)
  PROVE  j = 2 * n + 1 \/ j = 2 * n + 2 \/ \E i \in 1..n : j = 2 * i - 1 \/ j = 2 * i
<1>1. PICK i : i = (j + 1) \div 2
  OBVIOUS
<1>2. i \in Int /\ (j = 2 * i - 1 \/ j = 2 * i)
  BY <1>1
<1> QED BY <1>2

Puts(w, k, v) == w.put = TRUE /\ w.key = k /\ w.value = v
Dels(w, k)    == w.put = FALSE /\ w.key = k

LEMMA PutsDels ==
  ASSUME NEW k, NEW v
  PROVE  Puts(Put(k, v), k, v) /\ Dels(Del(k), k)
BY DEF Put, Del, Puts, Dels

LEMMA BelowFacts ==
  ASSUME NEW t, Kept(t), NEW from \in Seq(Names), NEW k \in Below(t, from, Tree)
  PROVE  /\ k \in DOMAIN t /\ KeyRec(k) /\ Proper(k, t[k]) /\ k.store = StoreOf(from) /\ k.class \in Tree
         /\ IsStrictPrefix(from, k.path) /\ IsPrefix(from, k.path)
<1>1. k \in DOMAIN t /\ k.store = StoreOf(from) /\ k.class \in Tree /\ IsStrictPrefix(from, k.path)
  BY DEF Below
<1>2. Proper(k, t[k])
  BY <1>1 DEF Kept
<1> QED BY <1>1, <1>2 DEF Proper, IsStrictPrefix

\* Where nothing is, there is no key, at the path or below it.
LEMMA Vacant ==
  ASSUME NEW t, NEW q, ~Exists(t, q)
  PROVE  /\ FileKey(q) \notin DOMAIN t /\ DirKey(q) \notin DOMAIN t /\ LinkKey(q) \notin DOMAIN t
         /\ Below(t, q, Tree) = {}
<1>1. ~IsLink(t, q) /\ ~IsFile(t, q) /\ ~IsDir(t, q)
  BY DEF Exists
<1>2. Followed(t, q) = q
  <2>1. PICK at : Hops(t, q, at) /\ Followed(t, q) = IF IsLink(t, q) THEN at[MaxHops - 1] ELSE q
    BY FollowedBy
  <2> QED BY <1>1, <2>1
<1>3. Resolves(t, q)
  BY <1>1, <1>2 DEF Resolves
<1>4. FileKey(q) \notin DOMAIN t
  BY <1>1, <1>2, <1>3 DEF IsFile
<1>5. DirKey(q) \notin DOMAIN t /\ Below(t, q, {"file", "dir"}) = {}
  BY <1>1, <1>2, <1>3 DEF IsDir
<1>6. LinkKey(q) \notin DOMAIN t
  BY <1>1 DEF IsLink
<1> QED BY <1>4, <1>5, <1>6 DEF Tree

\* Every write of the rename of a directory.
LEMMA TreeWrites ==
  ASSUME NEW t, Kept(t), NEW from \in Seq(Names), NEW to \in Seq(Names),
         NEW keys \in TreeKeys(t, from)
  PROVE  LET ws == MoveTree(t, keys, from, to)  n == Len(keys)  B == Below(t, from, Tree)
         IN  /\ Queue(ws) /\ n \in Nat /\ Len(ws) = 2 * n + 2
             /\ \A i \in 1..n : /\ keys[i] \in B
                               /\ Puts(ws[2 * i - 1], Moved(keys[i], from, to), t[keys[i]])
                               /\ Dels(ws[2 * i], keys[i])
             /\ Dels(ws[2 * n + 1], DirKey(from)) /\ Puts(ws[2 * n + 2], DirKey(to), <<>>)
             /\ \A j \in 1..Len(ws) :
                  \/ \E i \in 1..n : j = 2 * i - 1 /\ Puts(ws[j], Moved(keys[i], from, to), t[keys[i]])
                  \/ \E i \in 1..n : j = 2 * i /\ Dels(ws[j], keys[i])
                  \/ Dels(ws[j], DirKey(from))
                  \/ Puts(ws[j], DirKey(to), <<>>)
<1>1. keys \in Seq(Below(t, from, Tree))
  BY KeysListed
<1>2. Queue(keys)
  BY <1>1 DEF Queue
<1>3. PICK ws : ws = MoveTree(t, keys, from, to)
  OBVIOUS
<1>4. PICK n : n = Len(keys)
  OBVIOUS
<1>5. n \in Nat /\ \A i \in 1..n : keys[i] \in Below(t, from, Tree)
  BY <1>1, <1>4
<1>6. /\ Queue(ws) /\ Len(ws) = 2 * n + 2
      /\ \A i \in 1..n : /\ ws[2 * i - 1] = Put(Moved(keys[i], from, to), t[keys[i]])
                        /\ ws[2 * i] = Del(keys[i])
      /\ ws[2 * n + 1] = Del(DirKey(from)) /\ ws[2 * n + 2] = Put(DirKey(to), <<>>)
  BY <1>2, <1>3, <1>4, MoveTreeFacts, SMTT(30)
<1>7. \A i \in 1..n : /\ Puts(ws[2 * i - 1], Moved(keys[i], from, to), t[keys[i]])
                     /\ Dels(ws[2 * i], keys[i])
  BY <1>6, PutsDels
<1>8. Dels(ws[2 * n + 1], DirKey(from)) /\ Puts(ws[2 * n + 2], DirKey(to), <<>>)
  BY <1>6, PutsDels
<1>9. ASSUME NEW j \in 1..Len(ws)
      PROVE  \/ \E i \in 1..n : j = 2 * i - 1 /\ Puts(ws[j], Moved(keys[i], from, to), t[keys[i]])
             \/ \E i \in 1..n : j = 2 * i /\ Dels(ws[j], keys[i])
             \/ Dels(ws[j], DirKey(from))
             \/ Puts(ws[j], DirKey(to), <<>>)
  <2>1. j \in 1..(2 * n + 2)
    BY <1>6
  <2>2. j = 2 * n + 1 \/ j = 2 * n + 2 \/ \E i \in 1..n : j = 2 * i - 1 \/ j = 2 * i
    BY <1>5, <2>1, Places
  <2> QED BY <1>7, <1>8, <2>2
<1> QED BY <1>3, <1>4, <1>5, <1>6, <1>7, <1>8, <1>9

\* Writes no content is lost by, wherever they stop: what they put was in some file, but
\* not there, and what they delete they have put elsewhere in the same store.
Safe(t, ws) ==
  /\ Writes(ws)
  /\ \A i \in 1..Len(ws) : ws[i].put /\ ws[i].key.class = "file" =>
       /\ ws[i].key \notin DOMAIN t
       /\ ws[i].value \in Contents(t)
       /\ \A j \in 1..Len(ws) : ws[j].put /\ ws[j].key = ws[i].key => ws[j].value = ws[i].value
  /\ \A i \in 1..Len(ws) : ~ws[i].put /\ ws[i].key.class = "file" =>
       /\ ws[i].key \in DOMAIN t
       /\ \E j \in 1..Len(ws) : /\ j < i /\ ws[j].put /\ ws[j].key.class = "file"
                                /\ ws[j].key.store = ws[i].key.store
                                /\ ws[j].value = t[ws[i].key]

LEMMA InContents ==
  ASSUME NEW t, NEW v
  PROVE  v \in Contents(t) <=> \E k \in DOMAIN t : k.class = "file" /\ t[k] = v
BY DEF Contents

LEMMA SafeKeeps ==
  ASSUME NEW t, Kept(t), NEW ws, Safe(t, ws)
  PROVE  /\ Kept(After(t, ws)) /\ Contents(Durable(t)) \subseteq Contents(Durable(After(t, ws)))
         /\ Contents(After(t, ws)) \subseteq Contents(t)
<1>1. PICK a : a = After(t, ws)
  OBVIOUS
<1>2. Kept(a)
  BY <1>1, AfterKept DEF Safe
<1>3. Queue(ws) /\ \A i \in 1..Len(ws) : ws[i].put \in BOOLEAN
  BY DEF Safe, Writes, Fine
<1>4. ASSUME NEW v \in Contents(Durable(t)) PROVE v \in Contents(Durable(a))
  <2>1. PICK k \in DOMAIN Durable(t) : k.class = "file" /\ Durable(t)[k] = v
    BY <1>4, InContents
  <2>2. k \in DOMAIN t /\ k.store # "tmpfs" /\ t[k] = v
    BY <2>1, DurableKept
  <2>3. SUFFICES ASSUME NEW l \in DOMAIN a, l.class = "file", l.store # "tmpfs", a[l] = v
                 PROVE  v \in Contents(Durable(a))
    <3>1. CASE \A i \in 1..Len(ws) : ws[i].key # k
      <4>1. k \in DOMAIN a /\ a[k] = t[k]
        BY <1>1, <1>3, <2>2, <3>1, AfterFacts
      <4> QED BY <2>1, <2>2, <4>1
    <3>2. CASE \E i \in 1..Len(ws) : ws[i].key = k
      <4>1. PICK i \in 1..Len(ws) : LastTo(ws, i) /\ ws[i].key = k
        <5>1. PICK h \in 1..Len(ws) : ws[h].key = k
          BY <3>2
        <5>2. PICK i : LastTo(ws, i) /\ ws[i].key = ws[h].key
          BY <1>3, LastWrite
        <5> QED BY <5>1, <5>2 DEF LastTo
      <4>2. ~ws[i].put
        BY <2>1, <2>2, <4>1 DEF Safe
      <4>3. PICK j \in 1..Len(ws) : /\ ws[j].put /\ ws[j].key.class = "file"
                                     /\ ws[j].key.store = k.store /\ ws[j].value = t[k]
        BY <2>1, <4>1, <4>2 DEF Safe
      <4>4. PICK m \in 1..Len(ws) : LastTo(ws, m) /\ ws[m].key = ws[j].key
        <5>1. PICK m : LastTo(ws, m) /\ ws[m].key = ws[j].key
          BY <1>3, LastWrite
        <5> QED BY <5>1 DEF LastTo
      <4>5. ws[j].key \notin DOMAIN t
        BY <4>3 DEF Safe
      <4>6. ws[m].put
        BY <4>3, <4>4, <4>5 DEF Safe
      <4>7. ws[m].value = ws[j].value
        BY <4>3, <4>4, <4>6 DEF Safe
      <4>8. PICK l : l = ws[m].key
        OBVIOUS
      <4>9. l \in DOMAIN a /\ a[l] = ws[m].value
        BY <1>1, <1>3, <4>4, <4>6, <4>8, AfterFacts
      <4> QED BY <2>2, <4>3, <4>4, <4>7, <4>8, <4>9
    <3> QED BY <3>1, <3>2
  <2>4. l \in DOMAIN Durable(a) /\ Durable(a)[l] = v
    BY <1>2, <2>3, DurableKept
  <2> QED BY <2>3, <2>4, InContents
<1>5. ASSUME NEW v \in Contents(a) PROVE v \in Contents(t)
  <2>1. PICK k \in DOMAIN a : k.class = "file" /\ a[k] = v
    BY <1>5, InContents
  <2>2. CASE k \in DOMAIN t /\ a[k] = t[k]
    BY <2>1, <2>2, InContents
  <2>3. CASE \E i : LastTo(ws, i) /\ ws[i].key = k /\ ws[i].put /\ a[k] = ws[i].value
    <3>1. PICK i : LastTo(ws, i) /\ ws[i].key = k /\ ws[i].put /\ a[k] = ws[i].value
      BY <2>3
    <3>2. i \in 1..Len(ws)
      BY <3>1 DEF LastTo
    <3> QED BY <2>1, <3>1, <3>2 DEF Safe
  <2> QED BY <1>1, <1>3, <2>1, <2>2, <2>3, AfterFrom
<1> QED BY <1>1, <1>2, <1>4, <1>5

LEMMA SafePrefix ==
  ASSUME NEW t, NEW ws, Safe(t, ws), NEW n \in 0..Len(ws)
  PROVE  Safe(t, SubSeq(ws, 1, n))
<1>1. PICK S : ws \in Seq(S)
  BY DEF Safe, Writes, Queue
<1>2. Len(ws) \in Nat /\ n \in Int /\ 1 \in Int /\ \A i \in 1..n : ws[i] \in S /\ i \in 1..Len(ws)
  BY <1>1
<1>3. PICK us : us = SubSeq(ws, 1, n)
  OBVIOUS
<1>4. us \in Seq(S) /\ Len(us) = IF 1 <= n THEN n - 1 + 1 ELSE 0
  BY <1>2, <1>3, SubSeqProperties
<1>5. Len(us) = n
  BY <1>2, <1>4
<1>6. ASSUME NEW i \in 1..n PROVE us[i] = ws[i]
  <2>1. \A j \in 1..(n - 1 + 1) : SubSeq(ws, 1, n)[j] = ws[1 + j - 1]
    BY <1>2, SubSeqProperties
  <2>2. i \in 1..(n - 1 + 1) /\ 1 + i - 1 = i
    BY <1>2
  <2> QED BY <1>3, <2>1, <2>2
<1>7. Writes(us)
  <2>1. Queue(us)
    BY <1>4 DEF Queue
  <2> QED BY <1>2, <1>5, <1>6, <2>1 DEF Safe, Writes
<1>8. ASSUME NEW i \in 1..n, us[i].put, us[i].key.class = "file"
      PROVE  /\ us[i].key \notin DOMAIN t /\ us[i].value \in Contents(t)
             /\ \A j \in 1..n : us[j].put /\ us[j].key = us[i].key => us[j].value = us[i].value
  BY <1>2, <1>6, <1>8 DEF Safe
<1>9. ASSUME NEW i \in 1..n, ~us[i].put, us[i].key.class = "file"
      PROVE  /\ us[i].key \in DOMAIN t
             /\ \E j \in 1..n : /\ j < i /\ us[j].put /\ us[j].key.class = "file"
                                /\ us[j].key.store = us[i].key.store /\ us[j].value = t[us[i].key]
  <2>1. i \in 1..Len(ws) /\ us[i] = ws[i]
    BY <1>2, <1>6
  <2>2. ws[i].key \in DOMAIN t
    BY <1>9, <2>1 DEF Safe
  <2>3. PICK j \in 1..Len(ws) : /\ j < i /\ ws[j].put /\ ws[j].key.class = "file"
                                 /\ ws[j].key.store = ws[i].key.store /\ ws[j].value = t[ws[i].key]
    BY <1>9, <2>1 DEF Safe
  <2>4. j \in 1..n
    BY <1>2, <2>3
  <2> QED BY <1>6, <2>1, <2>2, <2>3, <2>4
<1> QED BY <1>3, <1>5, <1>7, <1>8, <1>9 DEF Safe

LEMMA DirsSafe ==
  ASSUME NEW t, NEW ws, DirsOnly(ws)
  PROVE  Safe(t, ws)
<1>1. ASSUME NEW i \in 1..Len(ws) PROVE Fine(ws[i]) /\ ws[i].key.class # "file"
  <2>1. PICK q \in Seq(Names) : ws[i] = Put(DirKey(q), <<>>)
    BY DEF DirsOnly
  <2>2. ws[i].put = TRUE /\ ws[i].key = DirKey(q)
    BY <2>1 DEF Put
  <2>3. DirKey(q).class = "dir" /\ Proper(DirKey(q), ws[i].value)
    BY KeysProper DEF DirKey, Key
  <2> QED BY <2>2, <2>3 DEF Fine
<1>2. Writes(ws)
  BY <1>1 DEF DirsOnly, Writes
<1> QED BY <1>1, <1>2 DEF Safe

LEMMA MovedVacant ==
  ASSUME NEW t, Kept(t), NEW from \in Seq(Names), NEW to \in Seq(Names), ~Exists(t, to),
         NEW k \in Below(t, from, Tree)
  PROVE  Moved(k, from, to) \notin DOMAIN t /\ Proper(Moved(k, from, to), t[k])
<1>1. PICK new : new = Moved(k, from, to)
  OBVIOUS
<1>2. KeyRec(k) /\ Proper(k, t[k]) /\ k.class \in Tree /\ IsStrictPrefix(from, k.path) /\ IsPrefix(from, k.path)
  BY BelowFacts
<1>3. KeyRec(new) /\ new.class = k.class /\ new.store = StoreOf(to) /\ IsStrictPrefix(to, new.path)
  BY <1>1, <1>2, MovedFacts
<1>4. new \in DOMAIN t => new \in Below(t, to, Tree)
  BY <1>2, <1>3 DEF Below
<1>5. new \notin DOMAIN t
  BY <1>4, Vacant
<1>6. Proper(new, t[k])
  BY <1>2, <1>3 DEF Proper
<1> QED BY <1>1, <1>5, <1>6

LEMMA MoveTreeSafe ==
  ASSUME NEW t, Kept(t), NEW from \in Seq(Names), NEW to \in Seq(Names),
         NEW keys \in TreeKeys(t, from), StoreOf(from) = StoreOf(to), ~Exists(t, to)
  PROVE  Safe(t, MoveTree(t, keys, from, to))
<1>1. PICK ws : ws = MoveTree(t, keys, from, to)
  OBVIOUS
<1>2. PICK n : n = Len(keys)
  OBVIOUS
<1>3. /\ Queue(ws) /\ n \in Nat /\ Len(ws) = 2 * n + 2
      /\ \A i \in 1..n : /\ keys[i] \in Below(t, from, Tree)
                        /\ Puts(ws[2 * i - 1], Moved(keys[i], from, to), t[keys[i]])
                        /\ Dels(ws[2 * i], keys[i])
      /\ \A j \in 1..Len(ws) :
           \/ \E i \in 1..n : j = 2 * i - 1 /\ Puts(ws[j], Moved(keys[i], from, to), t[keys[i]])
           \/ \E i \in 1..n : j = 2 * i /\ Dels(ws[j], keys[i])
           \/ Dels(ws[j], DirKey(from))
           \/ Puts(ws[j], DirKey(to), <<>>)
  BY <1>1, <1>2, TreeWrites
<1>4. DirKey(from).class # "file" /\ DirKey(to).class # "file" /\ Proper(DirKey(to), <<>>)
  BY KeysProper DEF DirKey, Key
<1>5. ASSUME NEW i \in 1..n
      PROVE  /\ Moved(keys[i], from, to) \notin DOMAIN t /\ Proper(Moved(keys[i], from, to), t[keys[i]])
             /\ keys[i] \in DOMAIN t /\ Moved(keys[i], from, to).class = keys[i].class
             /\ Moved(keys[i], from, to).store = keys[i].store
             /\ KeyRec(keys[i]) /\ keys[i].store = StoreOf(from) /\ IsPrefix(from, keys[i].path)
  <2>1. PICK k \in Below(t, from, Tree) : k = keys[i]
    BY <1>3
  <2>2. k \in DOMAIN t /\ KeyRec(k) /\ k.store = StoreOf(from) /\ IsPrefix(from, k.path)
    BY BelowFacts
  <2>3. Moved(k, from, to) \notin DOMAIN t /\ Proper(Moved(k, from, to), t[k])
    BY MovedVacant
  <2>4. Moved(k, from, to).class = k.class /\ Moved(k, from, to).store = k.store
    BY <2>2, MovedFacts
  <2> QED BY <2>1, <2>2, <2>3, <2>4
<1>6. ASSUME NEW j \in 1..Len(ws) PROVE Fine(ws[j])
  <2>1. CASE \E i \in 1..n : Puts(ws[j], Moved(keys[i], from, to), t[keys[i]])
    BY <1>5, <2>1 DEF Puts, Fine
  <2>2. CASE ws[j].put = FALSE
    BY <2>2 DEF Fine
  <2>3. CASE Puts(ws[j], DirKey(to), <<>>)
    BY <1>4, <2>3 DEF Puts, Fine
  <2> QED BY <1>3, <2>1, <2>2, <2>3 DEF Dels
<1>7. Writes(ws)
  BY <1>3, <1>6 DEF Writes
<1>8. ASSUME NEW j \in 1..Len(ws), ws[j].put, ws[j].key.class = "file"
      PROVE  \E i \in 1..n : Puts(ws[j], Moved(keys[i], from, to), t[keys[i]])
  BY <1>3, <1>4, <1>8 DEF Puts, Dels
<1>9. ASSUME NEW j \in 1..Len(ws), ws[j].put, ws[j].key.class = "file"
      PROVE  /\ ws[j].key \notin DOMAIN t /\ ws[j].value \in Contents(t)
             /\ \A l \in 1..Len(ws) : ws[l].put /\ ws[l].key = ws[j].key => ws[l].value = ws[j].value
  <2>1. PICK i \in 1..n : Puts(ws[j], Moved(keys[i], from, to), t[keys[i]])
    BY <1>8, <1>9
  <2>2. ws[j].key \notin DOMAIN t
    BY <1>5, <2>1 DEF Puts
  <2>4. ws[j].value \in Contents(t)
    <3>1. keys[i] \in DOMAIN t /\ keys[i].class = "file" /\ ws[j].value = t[keys[i]]
      BY <1>5, <1>9, <2>1 DEF Puts
    <3> QED BY <3>1, InContents
  <2>3. ASSUME NEW l \in 1..Len(ws), ws[l].put, ws[l].key = ws[j].key
        PROVE  ws[l].value = ws[j].value
    <3>1. PICK m \in 1..n : Puts(ws[l], Moved(keys[m], from, to), t[keys[m]])
      BY <1>8, <1>9, <2>3
    <3>2. Moved(keys[m], from, to) = Moved(keys[i], from, to)
      BY <2>1, <2>3, <3>1 DEF Puts
    <3>3. keys[m] = keys[i]
      BY <1>5, <3>2, MovedOnce
    <3> QED BY <2>1, <3>1, <3>3 DEF Puts
  <2> QED BY <2>2, <2>3, <2>4
<1>10. ASSUME NEW j \in 1..Len(ws), ~ws[j].put, ws[j].key.class = "file"
       PROVE  /\ ws[j].key \in DOMAIN t
              /\ \E l \in 1..Len(ws) : /\ l < j /\ ws[l].put /\ ws[l].key.class = "file"
                                       /\ ws[l].key.store = ws[j].key.store
                                       /\ ws[l].value = t[ws[j].key]
  <2>1. PICK i \in 1..n : j = 2 * i /\ Dels(ws[j], keys[i])
    BY <1>3, <1>4, <1>10 DEF Puts, Dels
  <2>2. ws[j].key = keys[i]
    BY <2>1 DEF Dels
  <2>3. PICK l : l = 2 * i - 1
    OBVIOUS
  <2>4. l \in 1..Len(ws) /\ l < j
    BY <1>3, <2>1, <2>3
  <2>5. Puts(ws[l], Moved(keys[i], from, to), t[keys[i]])
    BY <1>3, <2>3
  <2>6. ws[l].put /\ ws[l].key = Moved(keys[i], from, to) /\ ws[l].value = t[keys[i]]
    BY <2>5 DEF Puts
  <2> QED BY <1>5, <1>10, <2>2, <2>4, <2>6
<1> QED BY <1>1, <1>7, <1>9, <1>10 DEF Safe

LEMMA MoveOneSafe ==
  ASSUME NEW t, Kept(t), NEW class \in {"file", "link"}, NEW from \in Seq(Names), NEW to \in Seq(Names),
         Key(StoreOf(from), class, from) \in DOMAIN t, StoreOf(from) = StoreOf(to), ~Exists(t, to)
  PROVE  Safe(t, MoveOne(t, class, from, to))
<1>1. PICK k : k = Key(StoreOf(from), class, from)
  OBVIOUS
<1>2. PICK l : l = Key(StoreOf(to), class, to)
  OBVIOUS
<1>3. Moved(k, from, to) = l
  <2>1. k.class = class /\ k.path = from
    BY <1>1 DEF Key
  <2>2. Len(from) \in Int /\ Len(from) + 1 \in Int /\ Len(from) < Len(from) + 1
    OBVIOUS
  <2>3. SubSeq(from, Len(from) + 1, Len(from)) = <<>>
    BY <2>2, SubSeqEmpty
  <2>4. to \o <<>> = to
    BY ConcatEmptySeq
  <2> QED BY <1>2, <2>1, <2>3, <2>4 DEF Moved
<1>4. /\ k.class = class /\ l.class = class /\ k.store = l.store /\ k \in DOMAIN t /\ Proper(k, t[k])
  BY <1>1, <1>2 DEF Key, Kept
<1>5. l \notin DOMAIN t
  BY <1>2, Vacant DEF FileKey, LinkKey
<1>6. Proper(l, t[k])
  <2>1. KeyRec(l)
    BY <1>2 DEF KeyRec, Key, Classes
  <2> QED BY <1>4, <2>1 DEF Proper
<1>7. PICK a : a = Put(l, t[k])
  OBVIOUS
<1>8. PICK b : b = Del(k)
  OBVIOUS
<1>9. a.put = TRUE /\ a.key = l /\ a.value = t[k] /\ b.put = FALSE /\ b.key = k
  BY <1>7, <1>8 DEF Put, Del
<1>10. PICK S : S = {a, b}
  OBVIOUS
<1>11. PICK ws : ws = <<a, b>>
  OBVIOUS
<1>12. ws \in Seq(S) /\ Len(ws) = 2 /\ ws[1] = a /\ ws[2] = b
  BY <1>10, <1>11
<1>13. ASSUME NEW i \in 1..Len(ws)
       PROVE  (i = 1 /\ ws[i] = a) \/ (i = 2 /\ ws[i] = b)
  <2>1. i \in 1..2
    BY <1>12
  <2>2. CASE i = 1
    BY <1>12, <2>2
  <2>3. CASE i = 2
    BY <1>12, <2>3
  <2> QED BY <2>1, <2>2, <2>3
<1>14. Fine(a) /\ Fine(b)
  BY <1>6, <1>9 DEF Fine
<1>15. Writes(ws)
  <2>1. Queue(ws)
    BY <1>12 DEF Queue
  <2> QED BY <1>13, <1>14, <2>1 DEF Writes
<1>16. \A i \in 1..Len(ws) : ws[i].put => ws[i] = a
  BY <1>9, <1>13
<1>17. \A i \in 1..Len(ws) : ~ws[i].put => i = 2 /\ ws[i] = b
  BY <1>9, <1>13
<1>18. Safe(t, ws)
  <2>1. 1 \in 1..Len(ws) /\ 1 < 2
    BY <1>12
  <2>2. l.class = "file" => t[k] \in Contents(t)
    BY <1>4, InContents
  <2> QED BY <1>4, <1>5, <1>9, <1>12, <1>15, <1>16, <1>17, <2>1, <2>2 DEF Safe
<1> QED BY <1>1, <1>3, <1>7, <1>8, <1>11, <1>18 DEF MoveOne, MoveKey

LEMMA RenameSafe ==
  ASSUME Kept(tree), NEW p \in Path, NEW q \in Path, NEW ws \in Renames(p, q)
  PROVE  Safe(tree, ws)
<1>1. p \in Seq(Names) /\ q \in Seq(Names)
  BY VfsAssumption DEF Names
<1>2. StoreOf(p) = StoreOf(q) /\ ~Exists(tree, q)
  BY DEF Renames
<1>3. CASE IsLink(tree, p)
  <2>1. ws = MoveOne(tree, "link", p, q)
    BY <1>3 DEF Renames
  <2>2. Key(StoreOf(p), "link", p) \in DOMAIN tree
    BY <1>3 DEF IsLink, LinkKey
  <2> QED BY <1>1, <1>2, <2>1, <2>2, MoveOneSafe
<1>4. CASE ~IsLink(tree, p) /\ IsFile(tree, p)
  <2>1. ws = MoveOne(tree, "file", p, q)
    BY <1>4 DEF Renames
  <2>2. PICK at : Followed(tree, p) = IF IsLink(tree, p) THEN at[MaxHops - 1] ELSE p
    BY FollowedBy
  <2>3. Key(StoreOf(p), "file", p) \in DOMAIN tree
    BY <1>4, <2>2 DEF IsFile, FileKey
  <2> QED BY <1>1, <1>2, <2>1, <2>3, MoveOneSafe
<1>5. CASE ~IsLink(tree, p) /\ ~IsFile(tree, p)
  <2>1. ws \in {MoveTree(tree, keys, p, q) : keys \in TreeKeys(tree, p)}
    BY <1>5 DEF Renames
  <2>2. PICK keys \in TreeKeys(tree, p) : ws = MoveTree(tree, keys, p, q)
    BY <2>1
  <2> QED BY <1>1, <1>2, <2>2, MoveTreeSafe
<1> QED BY <1>3, <1>4, <1>5

\* The page again, after some of such writes.
LEMMA RestartedKeeps ==
  ASSUME Kept(tree), NEW ws, Safe(tree, ws), NEW n \in 0..Len(ws)
  PROVE  /\ Kept(Restarted(ws, n)) /\ Contents(Durable(tree)) \subseteq Contents(Restarted(ws, n))
         /\ Contents(Restarted(ws, n)) \subseteq Contents(tree)
<1>1. PICK us : us = SubSeq(ws, 1, n)
  OBVIOUS
<1>2. Safe(tree, us)
  BY <1>1, SafePrefix
<1>3. PICK d : d = Durable(After(tree, us))
  OBVIOUS
<1>4. /\ Kept(After(tree, us)) /\ Contents(Durable(tree)) \subseteq Contents(d)
      /\ Contents(After(tree, us)) \subseteq Contents(tree)
  BY <1>2, <1>3, SafeKeeps
<1>5. Kept(d)
  BY <1>3, <1>4, DurableKept
<1>6. Restarted(ws, n) = Boot(d)
  BY <1>1, <1>3 DEF Restarted
<1>7. Kept(Boot(d)) /\ SameFiles(d, Boot(d))
  BY <1>5, BootKeeps
<1>8. ASSUME NEW v \in Contents(d) PROVE v \in Contents(Boot(d))
  <2>1. PICK k \in DOMAIN d : k.class = "file" /\ d[k] = v
    BY <1>8, InContents
  <2>2. k \in DOMAIN Boot(d) /\ Boot(d)[k] = v
    BY <1>7, <2>1 DEF SameFiles
  <2> QED BY <2>1, <2>2, InContents
<1>9. ASSUME NEW v \in Contents(Boot(d)) PROVE v \in Contents(tree)
  <2>1. PICK k \in DOMAIN Boot(d) : k.class = "file" /\ Boot(d)[k] = v
    BY <1>9, InContents
  <2>2. k \in DOMAIN d /\ d[k] = v
    BY <1>7, <2>1 DEF SameFiles
  <2>3. k \in DOMAIN After(tree, us) /\ After(tree, us)[k] = v
    BY <1>3, <1>4, <2>2, DurableKept
  <2>4. v \in Contents(After(tree, us))
    BY <2>1, <2>3, InContents
  <2> QED BY <1>4, <2>4
<1> QED BY <1>4, <1>6, <1>7, <1>8, <1>9
----------------------------------------------------------------------------
(***************************************************************************)
(* The invariant: what every key says it is, and what descriptors say.     *)
(***************************************************************************)
Descs == [path: Seq(Names), offset: Nat, rights: SUBSET {"read", "write"}, append: BOOLEAN]

FilesInv == Kept(tree) /\ fds \in [DOMAIN fds -> Descs]

LEMMA MinTwo ==
  ASSUME NEW a \in Nat, NEW b \in Nat
  PROVE  Min({a, b}) \in Nat
<1> DEFINE S == {a, b}
<1>1. S \in SUBSET Nat /\ S # {}
  OBVIOUS
<1>2. PICK m \in S : \A n \in S : m <= n
  <2> HIDE DEF S
  <2> QED BY <1>1, LeastOf
<1>3. Min(S) \in S
  <2> HIDE DEF S
  <2> QED BY <1>2 DEF Min
<1> QED BY <1>1, <1>3

LEMMA Described ==
  ASSUME NEW p \in Seq(Names), NEW n \in Nat, NEW rights \in SUBSET {"read", "write"}, NEW append \in BOOLEAN
  PROVE  Descriptor(p, n, rights, append) \in Descs
BY DEF Descriptor, Descs

LEMMA Installed ==
  ASSUME fds \in [DOMAIN fds -> Descs], NEW f, NEW d \in Descs, Install(f, d)
  PROVE  fds' \in [DOMAIN fds' -> Descs]
<1>1. fds' = [g \in DOMAIN fds \cup {f} |-> IF g = f THEN d ELSE fds[g]]
  BY DEF Install
<1>2. \A g \in DOMAIN fds \cup {f} : (IF g = f THEN d ELSE fds[g]) \in Descs
  OBVIOUS
<1> QED BY <1>1, <1>2

LEMMA RedescribedFacts ==
  ASSUME NEW d \in Descs
  PROVE  /\ \A n \in Nat : [d EXCEPT !.offset = n] \in Descs
         /\ \A append \in BOOLEAN : [d EXCEPT !.append = append] \in Descs
         /\ \A rights \in SUBSET d.rights : [d EXCEPT !.rights = rights] \in Descs
BY DEF Descs

LEMMA Redescribed ==
  ASSUME fds \in [DOMAIN fds -> Descs], NEW f \in DOMAIN fds,
         \/ \E n \in Nat : fds' = [fds EXCEPT ![f].offset = n]
         \/ \E append \in BOOLEAN : fds' = [fds EXCEPT ![f].append = append]
         \/ \E rights \in SUBSET fds[f].rights : fds' = [fds EXCEPT ![f].rights = rights]
  PROVE  fds' \in [DOMAIN fds' -> Descs]
<1>1. PICK d \in Descs : d = fds[f]
  OBVIOUS
<1>2. SUFFICES ASSUME NEW e \in Descs, fds' = [fds EXCEPT ![f] = e]
               PROVE  fds' \in [DOMAIN fds' -> Descs]
  <2>1. CASE \E n \in Nat : fds' = [fds EXCEPT ![f].offset = n]
    <3>1. PICK n \in Nat : fds' = [fds EXCEPT ![f].offset = n]
      BY <2>1
    <3>2. PICK e : e = [d EXCEPT !.offset = n]
      OBVIOUS
    <3>3. e \in Descs
      BY <3>2, RedescribedFacts
    <3>4. fds' = [fds EXCEPT ![f] = e]
      BY <1>1, <3>1, <3>2
    <3> QED BY <3>3, <3>4
  <2>2. CASE \E append \in BOOLEAN : fds' = [fds EXCEPT ![f].append = append]
    <3>1. PICK append \in BOOLEAN : fds' = [fds EXCEPT ![f].append = append]
      BY <2>2
    <3>2. PICK e : e = [d EXCEPT !.append = append]
      OBVIOUS
    <3>3. e \in Descs
      BY <3>2, RedescribedFacts
    <3>4. fds' = [fds EXCEPT ![f] = e]
      BY <1>1, <3>1, <3>2
    <3> QED BY <3>3, <3>4
  <2>3. CASE \E rights \in SUBSET fds[f].rights : fds' = [fds EXCEPT ![f].rights = rights]
    <3>1. PICK rights \in SUBSET d.rights : fds' = [fds EXCEPT ![f].rights = rights]
      BY <1>1, <2>3
    <3>2. PICK e : e = [d EXCEPT !.rights = rights]
      OBVIOUS
    <3>3. e \in Descs
      BY <3>2, RedescribedFacts
    <3>4. fds' = [fds EXCEPT ![f] = e]
      BY <1>1, <3>1, <3>2
    <3> QED BY <3>3, <3>4
  <2> QED BY <2>1, <2>2, <2>3
<1> QED BY <1>2

\* Bytes as they are after a write, and how many: no more than there were, or than fit.
LEMMA WrittenSized ==
  ASSUME NEW b, Sized(b), NEW at \in Nat
  PROVE  /\ Sized(Overwritten(b, at)) /\ Sized(Resized(b, at))
         /\ Fits(at + 1) => Len(Overwritten(b, at)) <= MaxFileSize \/ Len(Overwritten(b, at)) = Len(b)
         /\ Fits(at) => Len(Resized(b, at)) <= MaxFileSize
<1>1. b \in Seq(Bits) /\ Len(b) \in Nat /\ MaxFileSize \in Nat
  BY FilesAssumption DEF Sized
<1>2. PICK o : o = Overwritten(b, at)
  OBVIOUS
<1>3. o \in Seq(Bits) /\ Len(o) = IF Len(b) >= at + 1 THEN Len(b) ELSE at + 1
  BY <1>1, <1>2, OverwrittenFits
<1>4. Resized(b, at) \in Seq(Bits) /\ Len(Resized(b, at)) = at
  BY <1>1, ResizedFits
<1>5. Fits(at + 1) => Len(o) <= MaxFileSize \/ Len(o) = Len(b)
  BY <1>1, <1>3 DEF Fits
<1>6. Fits(at) => Len(Resized(b, at)) <= MaxFileSize
  BY <1>4 DEF Fits
<1> QED BY <1>2, <1>3, <1>4, <1>5, <1>6 DEF Sized

LEMMA FdCallKeeps ==
  ASSUME FilesInv, FdCall
  PROVE  FilesInv'
<1>1. PICK f \in DOMAIN fds :
        \/ FdClose(f)
        \/ FdWrite(f)
        \/ \E n \in 0..MaxFileSize : FdPwrite(f, n) \/ FdFilestatSetSize(f, n) \/ FdSeek(f, n)
        \/ \E len \in 1..MaxFileSize : FdRead(f, len)
        \/ \E append \in BOOLEAN : FdFdstatSetFlags(f, append)
        \/ \E rights \in Rights : FdFdstatSetRights(f, rights)
  BY DEF FdCall
<1>2. Kept(tree) /\ fds \in [DOMAIN fds -> Descs] /\ MaxFileSize \in Nat
  BY FilesAssumption DEF FilesInv
<1>3. PICK d \in Descs : d = fds[f]
  BY <1>2
<1>4. /\ d.path \in Seq(Names) /\ d.offset \in Nat
      /\ d.rights \in SUBSET {"read", "write"} /\ d.append \in BOOLEAN
  BY DEF Descs
<1>5. PICK b : b = Held(d.path)
  OBVIOUS
<1>6. Sized(b) /\ Len(b) \in Nat
  <2>1. Sized(b)
    BY <1>2, <1>5, HeldSized
  <2> QED BY <2>1 DEF Sized
<1>7. ASSUME NEW c, Sized(c), tree' = After(tree, WriteFile(tree, d.path, c))
      PROVE  Kept(tree')
  BY <1>2, <1>4, <1>7, FileWritten
<1>8. SUFFICES Kept(tree') /\ fds' \in [DOMAIN fds' -> Descs]
  BY DEF FilesInv
<1>9. CASE FdClose(f)
  <2>1. tree' = tree /\ fds' = [g \in DOMAIN fds \ {f} |-> fds[g]]
    BY <1>9 DEF FdClose, Restrict
  <2> QED BY <1>2, <2>1
<1>10. CASE FdWrite(f)
  <2>1. PICK from : from = WriteFrom(d)
    OBVIOUS
  <2>2. from \in Nat
    BY <1>4, <1>5, <1>6, <2>1 DEF WriteFrom
  <2>3. /\ Fits(from + 1) /\ tree' = After(tree, WriteFile(tree, d.path, Overwritten(b, from)))
        /\ fds' = [fds EXCEPT ![f].offset = from + 1]
    BY <1>3, <1>5, <1>10, <2>1 DEF FdWrite, Issue
  <2>4. Kept(tree')
    BY <1>6, <1>7, <2>2, <2>3, WrittenSized
  <2>5. from + 1 \in Nat
    BY <2>2
  <2>6. fds' \in [DOMAIN fds' -> Descs]
    BY <1>2, <2>3, <2>5, Redescribed
  <2> QED BY <2>4, <2>6
<1>11. ASSUME NEW n \in 0..MaxFileSize, FdPwrite(f, n)
       PROVE  Kept(tree') /\ fds' \in [DOMAIN fds' -> Descs]
  <2>1. Fits(n + 1) /\ tree' = After(tree, WriteFile(tree, d.path, Overwritten(b, n))) /\ fds' = fds
    BY <1>3, <1>5, <1>11 DEF FdPwrite, Issue
  <2>2. n \in Nat
    BY <1>2
  <2>3. Kept(tree')
    BY <1>6, <1>7, <2>1, <2>2, WrittenSized
  <2> QED BY <1>2, <2>1, <2>3
<1>12. ASSUME NEW n \in 0..MaxFileSize, FdFilestatSetSize(f, n)
       PROVE  Kept(tree') /\ fds' \in [DOMAIN fds' -> Descs]
  <2>1. Fits(n) /\ tree' = After(tree, WriteFile(tree, d.path, Resized(b, n))) /\ fds' = fds
    BY <1>3, <1>5, <1>12 DEF FdFilestatSetSize, Issue
  <2>2. n \in Nat
    BY <1>2
  <2>3. Kept(tree')
    BY <1>6, <1>7, <2>1, <2>2, WrittenSized
  <2> QED BY <1>2, <2>1, <2>3
<1>13. ASSUME NEW n \in 0..MaxFileSize, FdSeek(f, n)
       PROVE  Kept(tree') /\ fds' \in [DOMAIN fds' -> Descs]
  <2>1. tree' = tree /\ fds' = [fds EXCEPT ![f].offset = n] /\ n \in Nat
    BY <1>2, <1>13 DEF FdSeek
  <2>2. fds' \in [DOMAIN fds' -> Descs]
    BY <1>2, <2>1, Redescribed
  <2> QED BY <1>2, <2>1, <2>2
<1>14. ASSUME NEW len \in 1..MaxFileSize, FdRead(f, len)
       PROVE  Kept(tree') /\ fds' \in [DOMAIN fds' -> Descs]
  <2>1. PICK m : m = Min({d.offset + len, Len(b)})
    OBVIOUS
  <2>2. d.offset + len \in Nat
    BY <1>2, <1>4
  <2>3. m \in Nat
    BY <1>6, <2>1, <2>2, MinTwo
  <2>4. tree' = tree /\ fds' = [fds EXCEPT ![f].offset = m]
    BY <1>3, <1>5, <1>14, <2>1 DEF FdRead
  <2>5. fds' \in [DOMAIN fds' -> Descs]
    BY <1>2, <2>3, <2>4, Redescribed
  <2> QED BY <1>2, <2>4, <2>5
<1>15. ASSUME NEW append \in BOOLEAN, FdFdstatSetFlags(f, append)
       PROVE  Kept(tree') /\ fds' \in [DOMAIN fds' -> Descs]
  <2>1. tree' = tree /\ fds' = [fds EXCEPT ![f].append = append]
    BY <1>15 DEF FdFdstatSetFlags
  <2>2. fds' \in [DOMAIN fds' -> Descs]
    BY <1>2, <2>1, Redescribed
  <2> QED BY <1>2, <2>1, <2>2
<1>16. ASSUME NEW rights \in Rights, FdFdstatSetRights(f, rights)
       PROVE  Kept(tree') /\ fds' \in [DOMAIN fds' -> Descs]
  <2>1. tree' = tree /\ fds' = [fds EXCEPT ![f].rights = rights] /\ rights \in SUBSET fds[f].rights
    BY <1>16 DEF FdFdstatSetRights
  <2>2. fds' \in [DOMAIN fds' -> Descs]
    BY <1>2, <2>1, Redescribed
  <2> QED BY <1>2, <2>1, <2>2
<1> QED BY <1>1, <1>9, <1>10, <1>11, <1>12, <1>13, <1>14, <1>15, <1>16

LEMMA OpenKeeps ==
  ASSUME FilesInv, Open
  PROVE  FilesInv'
<1>1. PICK f \in Fd, p \in Opened :
        \/ \E rights \in Rights, append \in BOOLEAN :
             OpenExisting(f, p, rights, append) \/ OpenEmpty(f, p, rights, append)
        \/ \E mode \in {"<", ">", ">>"} : Redirect(f, p, mode)
  BY DEF Open
<1>2. Kept(tree) /\ fds \in [DOMAIN fds -> Descs] /\ 0 \in Nat
  BY DEF FilesInv
<1>3. p \in Seq(Names)
  BY FilesAssumption, VfsAssumption DEF Names
<1>4. Sized(<<>>)
  BY FilesAssumption DEF Sized
<1>5. tree' = tree \/ tree' = After(tree, WriteFile(tree, p, <<>>)) => Kept(tree')
  BY <1>2, <1>3, <1>4, FileWritten
<1>6. SUFFICES Kept(tree') /\ fds' \in [DOMAIN fds' -> Descs]
  BY DEF FilesInv
<1>7. ASSUME NEW rights \in Rights, NEW append \in BOOLEAN,
             OpenExisting(f, p, rights, append) \/ OpenEmpty(f, p, rights, append)
      PROVE  Kept(tree') /\ fds' \in [DOMAIN fds' -> Descs]
  <2>1. Install(f, Descriptor(p, 0, rights, append))
    BY <1>7 DEF OpenExisting, OpenEmpty
  <2>2. rights \in SUBSET {"read", "write"}
    BY DEF Rights
  <2>3. fds' \in [DOMAIN fds' -> Descs]
    BY <1>2, <1>3, <2>1, <2>2, Described, Installed
  <2>4. tree' = tree \/ tree' = After(tree, WriteFile(tree, p, <<>>))
    BY <1>7 DEF OpenExisting, OpenEmpty, Issue
  <2> QED BY <1>5, <2>3, <2>4
<1>8. ASSUME NEW mode \in {"<", ">", ">>"}, Redirect(f, p, mode)
      PROVE  Kept(tree') /\ fds' \in [DOMAIN fds' -> Descs]
  <2>1. PICK n : n = IF mode = ">>" /\ IsFile(tree, p) THEN Len(Bytes(tree, p)) ELSE 0
    OBVIOUS
  <2>2. n \in Nat
    <3>1. IsFile(tree, p) => Sized(Bytes(tree, p))
      BY <1>2, HeldSized
    <3>2. IsFile(tree, p) => Len(Bytes(tree, p)) \in Nat
      BY <3>1 DEF Sized
    <3> QED BY <2>1, <3>2
  <2>3. PICK rights \in SUBSET {"read", "write"} : rights = IF mode = "<" THEN {"read"} ELSE {"read", "write"}
    OBVIOUS
  <2>4. Install(f, Descriptor(p, n, rights, FALSE))
    BY <1>8, <2>1, <2>3 DEF Redirect
  <2>5. fds' \in [DOMAIN fds' -> Descs]
    <3>1. Descriptor(p, n, rights, FALSE) \in Descs
      BY <1>3, <2>2, Described
    <3> QED BY <1>2, <2>4, <3>1, Installed
  <2>6. tree' = tree \/ tree' = After(tree, WriteFile(tree, p, <<>>))
    BY <1>8 DEF Redirect, Issue
  <2> QED BY <1>5, <2>5, <2>6
<1> QED BY <1>1, <1>7, <1>8

LEMMA NoneOpen ==
  ASSUME fds' = <<>>
  PROVE  fds' \in [DOMAIN fds' -> Descs]
<1>1. \A g \in DOMAIN fds' : FALSE
  OBVIOUS
<1>2. fds' = [g \in DOMAIN fds' |-> fds'[g]]
  OBVIOUS
<1> QED BY <1>1, <1>2

LEMMA ReloadAmidKeeps ==
  ASSUME FilesInv, NEW ws, Safe(tree, ws), ReloadAmid(ws)
  PROVE  FilesInv' /\ Contents(Durable(tree)) \subseteq Contents(tree') /\ Contents(tree') \subseteq Contents(tree)
<1>1. PICK n \in 1..(Len(ws) - 1) : tree' = Restarted(ws, n)
  BY DEF ReloadAmid
<1>2. Len(ws) \in Nat
  BY DEF Safe, Writes, Queue
<1>3. n \in 0..Len(ws)
  BY <1>2
<1>4. Kept(tree') /\ Contents(Durable(tree)) \subseteq Contents(tree') /\ Contents(tree') \subseteq Contents(tree)
  BY <1>1, <1>3, RestartedKeeps DEF FilesInv
<1>5. fds' \in [DOMAIN fds' -> Descs]
  BY NoneOpen DEF ReloadAmid
<1> QED BY <1>4, <1>5 DEF FilesInv

LEMMA ReloadKeeps ==
  ASSUME FilesInv, Reload
  PROVE  FilesInv' /\ Contents(Durable(tree)) \subseteq Contents(tree') /\ Contents(tree') \subseteq Contents(tree)
<1>1. PICK ws : ws = <<>>
  OBVIOUS
<1>2. DirsOnly(ws) /\ 0 \in 0..Len(ws)
  <2>1. ws \in Seq({}) /\ Len(ws) = 0
    BY <1>1
  <2> QED BY <2>1 DEF DirsOnly, Queue
<1>3. Safe(tree, ws)
  BY <1>2, DirsSafe
<1>4. tree' = Restarted(ws, 0)
  BY <1>1 DEF Reload
<1>5. Kept(tree') /\ Contents(Durable(tree)) \subseteq Contents(tree') /\ Contents(tree') \subseteq Contents(tree)
  BY <1>2, <1>3, <1>4, RestartedKeeps DEF FilesInv
<1>6. fds' \in [DOMAIN fds' -> Descs]
  BY NoneOpen DEF Reload
<1> QED BY <1>5, <1>6 DEF FilesInv

LEMMA PathCallKeeps ==
  ASSUME FilesInv, PathCall
  PROVE  FilesInv'
<1>1. PICK p \in Path :
        \/ PathCreateDirectory(p) \/ PathRemoveDirectory(p) \/ PathUnlinkFile(p)
        \/ (\E w \in HostFiles : w[1] = p /\ FsWrite(p, w[2]))
        \/ FsDelete(p) \/ FsMkdirp(p)
        \/ ReloadAmid(MakeDirs(tree, p))
        \/ \E q \in Path : PathRename(p, q) \/ \E ws \in Renames(p, q) : ReloadAmid(ws)
  BY DEF PathCall
<1>2. Kept(tree) /\ p \in Seq(Names)
  BY VfsAssumption DEF FilesInv, Names
<1>3. ASSUME fds' = fds, Kept(tree') PROVE FilesInv'
  BY <1>3 DEF FilesInv
<1>4. CASE PathCreateDirectory(p)
  <2>1. tree' = After(tree, <<Put(DirKey(p), <<>>)>>) /\ fds' = fds
    BY <1>4 DEF PathCreateDirectory, Issue, MakeDir
  <2>2. Kept(After(tree, <<Put(DirKey(p), <<>>)>>))
    BY <1>2, KeysProper, PutsOne
  <2> QED BY <1>3, <2>1, <2>2
<1>5. CASE PathRemoveDirectory(p)
  <2>1. tree' = After(tree, <<Del(DirKey(p))>>) /\ fds' = fds
    BY <1>5 DEF PathRemoveDirectory, Issue, RemoveDir
  <2> QED BY <1>2, <1>3, <2>1, DelsOne
<1>6. CASE PathUnlinkFile(p) \/ FsDelete(p)
  <2>1. PICK k : tree' = After(tree, <<Del(k)>>) /\ fds' = fds
    BY <1>6 DEF PathUnlinkFile, FsDelete, Issue, Deletes
  <2> QED BY <1>2, <1>3, <2>1, DelsOne
<1>7. CASE \E w \in HostFiles : w[1] = p /\ FsWrite(p, w[2])
  <2>0. PICK n \in Nat : FsWrite(p, n)
    BY <1>7, FilesAssumption
  <2>1. PICK b : b = [i \in 1..n |-> 1]
    OBVIOUS
  <2>2. tree' = After(tree, WriteFile(tree, p, b)) /\ fds' = fds
    BY <2>0, <2>1 DEF FsWrite, Issue
  <2>3. Sized(b)
    <3>1. b \in [1..n -> Bits]
      BY <2>1 DEF Bits
    <3> QED BY <3>1 DEF Sized
  <2> QED BY <1>2, <1>3, <2>2, <2>3, FileWritten
<1>8. CASE FsMkdirp(p)
  <2>1. PICK ws : ws = MakeDirs(tree, p)
    OBVIOUS
  <2>2. tree' = After(tree, ws) /\ fds' = fds
    BY <1>8, <2>1 DEF FsMkdirp, Issue
  <2>3. DirsOnly(ws)
    BY <1>2, <2>1, MakesDirs
  <2> QED BY <1>2, <1>3, <2>2, <2>3, DirsKept
<1>9. CASE ReloadAmid(MakeDirs(tree, p))
  <2>1. Safe(tree, MakeDirs(tree, p))
    BY <1>2, MakesDirs, DirsSafe
  <2> QED BY <1>9, <2>1, ReloadAmidKeeps
<1>10. CASE \E q \in Path : PathRename(p, q) \/ \E ws \in Renames(p, q) : ReloadAmid(ws)
  <2>1. PICK q \in Path : PathRename(p, q) \/ \E ws \in Renames(p, q) : ReloadAmid(ws)
    BY <1>10
  <2>2. CASE PathRename(p, q)
    <3>1. PICK ws \in Renames(p, q) : tree' = After(tree, ws)
      BY <2>2 DEF PathRename, Issue
    <3>2. fds' = fds
      BY <2>2 DEF PathRename
    <3>3. Safe(tree, ws)
      BY <1>2, RenameSafe
    <3> QED BY <1>2, <1>3, <3>1, <3>2, <3>3, SafeKeeps
  <2>3. CASE \E ws \in Renames(p, q) : ReloadAmid(ws)
    <3>1. PICK ws \in Renames(p, q) : ReloadAmid(ws)
      BY <2>3
    <3>2. Safe(tree, ws)
      BY <1>2, RenameSafe
    <3> QED BY <3>1, <3>2, ReloadAmidKeeps
  <2> QED BY <2>1, <2>2, <2>3
<1> QED BY <1>1, <1>4, <1>5, <1>6, <1>7, <1>8, <1>9, <1>10

LEMMA LinkCallKeeps ==
  ASSUME FilesInv, LinkCall
  PROVE  FilesInv'
<1>1. PICK p \in Linked : \/ \E target \in Target : PathSymlink(target, p)
                          \/ \E q \in Path : PathLink(q, p)
  BY DEF LinkCall
<1>2. Kept(tree) /\ p \in Seq(Names)
  BY FilesAssumption, VfsAssumption DEF FilesInv, Names
<1>3. ASSUME fds' = fds, Kept(tree') PROVE FilesInv'
  BY <1>3 DEF FilesInv
<1>4. ASSUME NEW target \in Target, PathSymlink(target, p) PROVE FilesInv'
  <2>1. tree' = After(tree, <<Put(LinkKey(p), target)>>) /\ fds' = fds
    BY <1>4 DEF PathSymlink, Issue
  <2>2. target.path \in Seq(Names)
    BY FilesAssumption DEF Names
  <2>3. Proper(LinkKey(p), target)
    BY <1>2, <2>2, KeysProper
  <2> QED BY <1>2, <1>3, <2>1, <2>3, PutsOne
<1>5. ASSUME NEW q \in Path, PathLink(q, p) PROVE FilesInv'
  <2>1. PICK b : b = Bytes(tree, q)
    OBVIOUS
  <2>2. tree' = After(tree, WriteFile(tree, p, b)) /\ fds' = fds /\ IsFile(tree, q)
    BY <1>5, <2>1 DEF PathLink, Issue
  <2>3. Sized(b)
    BY <1>2, <2>1, <2>2, HeldSized
  <2> QED BY <1>2, <1>3, <2>2, <2>3, FileWritten
<1> QED BY <1>1, <1>4, <1>5

LEMMA FilesInvariant == Spec => []FilesInv
<1>1. Init => FilesInv
  <2>1. SUFFICES ASSUME Init PROVE FilesInv
    OBVIOUS
  <2>2. PICK t : t = <<>>
    OBVIOUS
  <2>3. DOMAIN t = {}
    BY <2>2
  <2>4. Kept(t)
    <3>1. IsFiniteSet(DOMAIN t)
      BY <2>3, FS_EmptySet
    <3>2. t = [k \in DOMAIN t |-> t[k]]
      BY <2>2
    <3> QED BY <2>3, <3>1, <3>2 DEF Kept
  <2>5. Kept(tree)
    BY <2>1, <2>2, <2>4, BootKeeps DEF Init
  <2>6. fds = t
    BY <2>1, <2>2 DEF Init
  <2>7. fds \in [DOMAIN fds -> Descs]
    <3>1. t = [g \in DOMAIN t |-> t[g]]
      BY <2>2
    <3> QED BY <2>3, <2>6, <3>1
  <2> QED BY <2>5, <2>7 DEF FilesInv
<1>2. FilesInv /\ [Next]_vars => FilesInv'
  <2>1. SUFFICES ASSUME FilesInv, [Next]_vars PROVE FilesInv'
    OBVIOUS
  <2>2. CASE UNCHANGED vars
    BY <2>1, <2>2 DEF FilesInv, vars
  <2> QED
    BY <2>1, <2>2, FdCallKeeps, OpenKeeps, PathCallKeeps, LinkCallKeeps, ReloadKeeps DEF Next
<1> QED BY <1>1, <1>2, PTL DEF Spec

\* What is too long in u is as long as something in t.
NoLonger(t, u) ==
  \A b \in Contents(u) : Len(b) > MaxFileSize => \E old \in Contents(t) : Len(old) = Len(b)

\* A list of one write.
Single(ws, w) == Queue(ws) /\ \A i \in 1..Len(ws) : ws[i] = w

LEMMA SingleIs ==
  ASSUME NEW w, NEW ws, ws = <<w>>
  PROVE  Single(ws, w)
<1>1. PICK S : S = {w}
  OBVIOUS
<1>2. w \in S /\ ws \in Seq(S) /\ Len(ws) = 1 /\ ws[1] = w
  BY <1>1
<1>3. Queue(ws)
  BY <1>2 DEF Queue
<1>4. \A i \in 1..Len(ws) : ws[i] = w
  BY <1>2
<1> QED BY <1>3, <1>4 DEF Single

LEMMA OneWritten ==
  ASSUME NEW t, NEW w, NEW key, NEW v, Puts(w, key, v) \/ Dels(w, key),
         NEW ws, Single(ws, w), NEW k \in DOMAIN After(t, ws)
  PROVE  \/ k \in DOMAIN t /\ After(t, ws)[k] = t[k]
         \/ Puts(w, key, v) /\ k = key /\ After(t, ws)[k] = v
<1>1. Queue(ws) /\ \A i \in 1..Len(ws) : ws[i] = w
  BY DEF Single
<1>2. \A i \in 1..Len(ws) : ws[i].put \in BOOLEAN
  BY <1>1 DEF Puts, Dels
<1>3. \/ k \in DOMAIN t /\ After(t, ws)[k] = t[k]
      \/ \E i : LastTo(ws, i) /\ ws[i].key = k /\ ws[i].put /\ After(t, ws)[k] = ws[i].value
  BY <1>1, <1>2, AfterFrom
<1>4. ASSUME NEW i, LastTo(ws, i), ws[i].key = k, ws[i].put, After(t, ws)[k] = ws[i].value
      PROVE  Puts(w, key, v) /\ k = key /\ After(t, ws)[k] = v
  <2>1. ws[i] = w
    BY <1>1, <1>4 DEF LastTo
  <2> QED BY <1>4, <2>1 DEF Puts, Dels
<1> QED BY <1>3, <1>4

LEMMA SubsetNoLonger == ASSUME NEW t, NEW u, Contents(u) \subseteq Contents(t) PROVE NoLonger(t, u)
BY DEF NoLonger

\* A file written, of a length there was or that fits.
LEMMA FileNoLonger ==
  ASSUME NEW p, NEW b, Len(b) > MaxFileSize => \E old \in Contents(tree) : Len(old) = Len(b),
         tree' = After(tree, WriteFile(tree, p, b))
  PROVE  NoLonger(tree, tree')
<1>0. PICK key : key = FileKey(Followed(tree, p))
  OBVIOUS
<1>1. PICK w : w = Put(key, b)
  OBVIOUS
<1>2. PICK ws : ws = <<w>>
  OBVIOUS
<1>3. Single(ws, w) /\ Puts(w, key, b) /\ tree' = After(tree, ws)
  BY <1>0, <1>1, <1>2, SingleIs, PutsDels DEF WriteFile
<1>4. SUFFICES ASSUME NEW c \in Contents(tree'), Len(c) > MaxFileSize
               PROVE  \E old \in Contents(tree) : Len(old) = Len(c)
  BY DEF NoLonger
<1>5. PICK k \in DOMAIN After(tree, ws) : k.class = "file" /\ After(tree, ws)[k] = c
  BY <1>3, <1>4, InContents
<1>6. (k \in DOMAIN tree /\ After(tree, ws)[k] = tree[k]) \/ After(tree, ws)[k] = b
  BY <1>3, OneWritten
<1>7. CASE k \in DOMAIN tree /\ After(tree, ws)[k] = tree[k]
  BY <1>5, <1>7, InContents
<1>8. CASE c = b
  BY <1>4, <1>8
<1> QED BY <1>5, <1>6, <1>7, <1>8

\* One key put that is no file's, or deleted.
LEMMA KeyNoLonger ==
  ASSUME NEW w, NEW key, NEW v, Dels(w, key) \/ (Puts(w, key, v) /\ key.class # "file"),
         tree' = After(tree, <<w>>)
  PROVE  NoLonger(tree, tree')
<1>1. PICK ws : ws = <<w>>
  OBVIOUS
<1>2. Single(ws, w) /\ tree' = After(tree, ws)
  BY <1>1, SingleIs
<1>3. ASSUME NEW c \in Contents(After(tree, ws)) PROVE c \in Contents(tree)
  <2>1. PICK k \in DOMAIN After(tree, ws) : k.class = "file" /\ After(tree, ws)[k] = c
    BY <1>3, InContents
  <2>2. (k \in DOMAIN tree /\ After(tree, ws)[k] = tree[k]) \/ (Puts(w, key, v) /\ k = key)
    BY <1>2, OneWritten
  <2>3. k \in DOMAIN tree /\ After(tree, ws)[k] = tree[k]
    BY <2>1, <2>2 DEF Puts, Dels
  <2> QED BY <2>1, <2>3, InContents
<1> QED BY <1>2, <1>3, SubsetNoLonger

\* What a guest's descriptor writes.
LEMMA FdNoLonger ==
  ASSUME FilesInv, FdCall
  PROVE  NoLonger(tree, tree')
<1>1. PICK f \in DOMAIN fds :
        \/ FdWrite(f)
        \/ \E n \in 0..MaxFileSize : FdPwrite(f, n) \/ FdFilestatSetSize(f, n)
        \/ UNCHANGED tree
  BY DEF FdCall, FdClose, FdSeek, FdRead, FdFdstatSetFlags, FdFdstatSetRights
<1>2. Kept(tree) /\ MaxFileSize \in Nat /\ fds[f] \in Descs
  BY FilesAssumption DEF FilesInv
<1>3. PICK d \in Descs : d = fds[f]
  BY <1>2
<1>4. PICK b : b = Held(d.path)
  OBVIOUS
<1>5. Sized(b) /\ Len(b) \in Nat /\ (Len(b) > MaxFileSize => b \in Contents(tree))
  <2>1. Sized(b) /\ Len(b) \in Nat
    BY <1>2, <1>4, HeldSized DEF Sized
  <2>2. IsFile(tree, d.path) => b \in Contents(tree)
    <3>1. SUFFICES ASSUME IsFile(tree, d.path) PROVE b \in Contents(tree)
      OBVIOUS
    <3>2. PICK k : k = FileKey(Followed(tree, d.path))
      OBVIOUS
    <3>3. k \in DOMAIN tree /\ k.class = "file" /\ b = tree[k]
      BY <1>4, <3>1, <3>2 DEF Held, IsFile, Bytes, FileKey, Key
    <3> QED BY <3>3, InContents
  <2>3. ~IsFile(tree, d.path) => Len(b) = 0
    BY <1>4 DEF Held
  <2> QED BY <1>2, <2>1, <2>2, <2>3
<1>6. ASSUME NEW at \in Nat, Fits(at + 1), tree' = After(tree, WriteFile(tree, d.path, Overwritten(b, at)))
      PROVE  NoLonger(tree, tree')
  <2>1. PICK o : o = Overwritten(b, at)
    OBVIOUS
  <2>2. Sized(o) /\ (Len(o) <= MaxFileSize \/ Len(o) = Len(b))
    BY <1>5, <1>6, <2>1, WrittenSized
  <2>3. Len(o) \in Nat
    BY <2>2 DEF Sized
  <2>4. Len(o) > MaxFileSize => \E old \in Contents(tree) : Len(old) = Len(o)
    BY <1>2, <1>5, <2>2, <2>3
  <2> QED BY <1>6, <2>1, <2>4, FileNoLonger
<1>7. CASE FdWrite(f)
  <2>1. PICK from : from = WriteFrom(d)
    OBVIOUS
  <2>2. from \in Nat
    BY <1>4, <1>5, <2>1 DEF WriteFrom, Descs
  <2>3. Fits(from + 1) /\ tree' = After(tree, WriteFile(tree, d.path, Overwritten(b, from)))
    BY <1>3, <1>4, <1>7, <2>1 DEF FdWrite, Issue
  <2> QED BY <1>6, <2>2, <2>3
<1>8. ASSUME NEW n \in 0..MaxFileSize, FdPwrite(f, n) PROVE NoLonger(tree, tree')
  <2>1. Fits(n + 1) /\ tree' = After(tree, WriteFile(tree, d.path, Overwritten(b, n))) /\ n \in Nat
    BY <1>2, <1>3, <1>4, <1>8 DEF FdPwrite, Issue
  <2> QED BY <1>6, <2>1
<1>9. ASSUME NEW n \in 0..MaxFileSize, FdFilestatSetSize(f, n) PROVE NoLonger(tree, tree')
  <2>1. Fits(n) /\ tree' = After(tree, WriteFile(tree, d.path, Resized(b, n))) /\ n \in Nat
    BY <1>2, <1>3, <1>4, <1>9 DEF FdFilestatSetSize, Issue
  <2>2. PICK o : o = Resized(b, n)
    OBVIOUS
  <2>3. Sized(o) /\ Len(o) <= MaxFileSize
    BY <1>5, <2>1, <2>2, WrittenSized
  <2>4. ~(Len(o) > MaxFileSize)
    BY <1>2, <2>3 DEF Sized
  <2> QED BY <2>1, <2>2, <2>4, FileNoLonger
<1>10. CASE UNCHANGED tree
  BY <1>10, SubsetNoLonger
<1> QED BY <1>1, <1>7, <1>8, <1>9, <1>10

LEMMA EmptyNoLonger ==
  ASSUME NEW p, tree' = After(tree, WriteFile(tree, p, <<>>))
  PROVE  NoLonger(tree, tree')
<1>1. ~(Len(<<>>) > MaxFileSize)
  BY FilesAssumption
<1> QED BY <1>1, FileNoLonger

LEMMA PathNoLonger ==
  ASSUME FilesInv, PathCall, last'.op # "host"
  PROVE  NoLonger(tree, tree')
<1>1. PICK p \in Path :
        \/ PathCreateDirectory(p) \/ PathRemoveDirectory(p) \/ PathUnlinkFile(p)
        \/ (\E w \in HostFiles : w[1] = p /\ FsWrite(p, w[2]))
        \/ FsDelete(p) \/ FsMkdirp(p)
        \/ ReloadAmid(MakeDirs(tree, p))
        \/ \E q \in Path : PathRename(p, q) \/ \E ws \in Renames(p, q) : ReloadAmid(ws)
  BY DEF PathCall
<1>2. Kept(tree) /\ p \in Seq(Names)
  BY VfsAssumption DEF FilesInv, Names
<1>3. ~\E w \in HostFiles : w[1] = p /\ FsWrite(p, w[2])
  <2>1. SUFFICES ASSUME NEW n, FsWrite(p, n) PROVE FALSE
    OBVIOUS
  <2>2. last' = Did("host", p, <<>>)
    BY <2>1 DEF FsWrite, Call
  <2>3. last'.op = "host"
    BY <2>2 DEF Did
  <2> QED BY <2>3
<1>4. CASE PathCreateDirectory(p)
  <2>1. PICK w : w = Put(DirKey(p), <<>>)
    OBVIOUS
  <2>2. tree' = After(tree, <<w>>)
    BY <1>4, <2>1 DEF PathCreateDirectory, Issue, MakeDir
  <2>3. Puts(w, DirKey(p), <<>>) /\ DirKey(p).class # "file"
    BY <2>1, PutsDels DEF DirKey, Key
  <2> QED BY <2>2, <2>3, KeyNoLonger
<1>5. CASE PathRemoveDirectory(p) \/ PathUnlinkFile(p) \/ FsDelete(p)
  <2>1. PICK k : tree' = After(tree, <<Del(k)>>)
    BY <1>5 DEF PathRemoveDirectory, PathUnlinkFile, FsDelete, Issue, Deletes, RemoveDir
  <2>2. PICK w : w = Del(k)
    OBVIOUS
  <2>3. Dels(w, k) /\ tree' = After(tree, <<w>>)
    BY <2>1, <2>2, PutsDels
  <2> QED BY <2>3, KeyNoLonger
<1>6. ASSUME NEW ws, Safe(tree, ws), tree' = After(tree, ws) PROVE NoLonger(tree, tree')
  <2>1. Contents(tree') \subseteq Contents(tree)
    BY <1>2, <1>6, SafeKeeps
  <2> QED BY <2>1, SubsetNoLonger
<1>7. ASSUME NEW ws, Safe(tree, ws), ReloadAmid(ws) PROVE NoLonger(tree, tree')
  <2>1. Contents(tree') \subseteq Contents(tree)
    BY <1>7, ReloadAmidKeeps
  <2> QED BY <2>1, SubsetNoLonger
<1>8. Safe(tree, MakeDirs(tree, p))
  BY <1>2, MakesDirs, DirsSafe
<1>9. CASE FsMkdirp(p)
  BY <1>6, <1>8, <1>9 DEF FsMkdirp, Issue
<1>10. CASE ReloadAmid(MakeDirs(tree, p))
  BY <1>7, <1>8, <1>10
<1>11. CASE \E q \in Path : PathRename(p, q) \/ \E ws \in Renames(p, q) : ReloadAmid(ws)
  <2>1. PICK q \in Path : PathRename(p, q) \/ \E ws \in Renames(p, q) : ReloadAmid(ws)
    BY <1>11
  <2>2. PICK ws \in Renames(p, q) : tree' = After(tree, ws) \/ ReloadAmid(ws)
    BY <2>1 DEF PathRename, Issue
  <2>3. Safe(tree, ws)
    BY <1>2, RenameSafe
  <2> QED BY <1>6, <1>7, <2>2, <2>3
<1> QED BY <1>1, <1>3, <1>4, <1>5, <1>9, <1>10, <1>11

LEMMA LinkNoLonger ==
  ASSUME FilesInv, LinkCall
  PROVE  NoLonger(tree, tree')
<1>1. PICK p \in Linked : \/ \E target \in Target : PathSymlink(target, p)
                          \/ \E q \in Path : PathLink(q, p)
  BY DEF LinkCall
<1>2. ASSUME NEW target \in Target, PathSymlink(target, p) PROVE NoLonger(tree, tree')
  <2>1. PICK w : w = Put(LinkKey(p), target)
    OBVIOUS
  <2>2. tree' = After(tree, <<w>>)
    BY <1>2, <2>1 DEF PathSymlink, Issue
  <2>3. Puts(w, LinkKey(p), target) /\ LinkKey(p).class # "file"
    BY <2>1, PutsDels DEF LinkKey, Key
  <2> QED BY <2>2, <2>3, KeyNoLonger
<1>3. ASSUME NEW q \in Path, PathLink(q, p) PROVE NoLonger(tree, tree')
  <2>1. PICK b : b = Bytes(tree, q)
    OBVIOUS
  <2>2. tree' = After(tree, WriteFile(tree, p, b)) /\ IsFile(tree, q)
    BY <1>3, <2>1 DEF PathLink, Issue
  <2>3. PICK k : k = FileKey(Followed(tree, q))
    OBVIOUS
  <2>4. k \in DOMAIN tree /\ k.class = "file" /\ b = tree[k]
    BY <2>1, <2>2, <2>3 DEF IsFile, Bytes, FileKey, Key
  <2>5. b \in Contents(tree)
    BY <2>4, InContents
  <2> QED BY <2>2, <2>5, FileNoLonger
<1> QED BY <1>1, <1>2, <1>3

\* No call of a guest makes a file longer than MAX_FILE_SIZE, wherever it writes: what is
\* longer after it, and after a copy, a rename or a reload, is as long as something was
\* before.  Only the host's own writes lengthen files beyond it (FilesBounded).
THEOREM NoFileTooLong == Spec => FilesBounded
<1> DEFINE Bound == last'.op # "host" =>
                      \A bytes \in Contents(tree') :
                        Len(bytes) > MaxFileSize => \E old \in Contents(tree) : Len(old) = Len(bytes)
<1>1. FilesInv /\ [Next]_vars => [Bound]_vars
  <2>1. SUFFICES ASSUME FilesInv, Next, last'.op # "host" PROVE NoLonger(tree, tree')
    BY DEF NoLonger
  <2>2. CASE Reload
    <3>1. Contents(tree') \subseteq Contents(tree)
      BY <2>1, <2>2, ReloadKeeps
    <3> QED BY <3>1, SubsetNoLonger
  <2>3. CASE Open
    <3>1. UNCHANGED tree \/ \E p : tree' = After(tree, WriteFile(tree, p, <<>>))
      BY <2>3 DEF Open, OpenExisting, OpenEmpty, Redirect, Issue
    <3>2. UNCHANGED tree => NoLonger(tree, tree')
      BY SubsetNoLonger
    <3> QED BY <3>1, <3>2, EmptyNoLonger
  <2> QED BY <2>1, <2>2, <2>3, FdNoLonger, PathNoLonger, LinkNoLonger DEF Next
<1> QED BY <1>1, FilesInvariant, PTL DEF Spec, FilesBounded

\* A reload, between two calls or between two writes of one, finds every content
\* that was on a disk (ReloadKeepsFiles).
THEOREM ReloadsKeep == Spec => ReloadKeepsFiles
<1> DEFINE Kind == last'.op = "reload" => Contents(Durable(tree)) \subseteq Contents(tree')
<1>1. FilesInv /\ [Next]_vars => [Kind]_vars
  <2>1. SUFFICES ASSUME FilesInv, Next, last'.op = "reload"
                 PROVE  Contents(Durable(tree)) \subseteq Contents(tree')
    OBVIOUS
  <2>2. CASE Reload
    BY <2>1, <2>2, ReloadKeeps
  <2>3. ASSUME NEW ws, Safe(tree, ws), ReloadAmid(ws)
        PROVE  Contents(Durable(tree)) \subseteq Contents(tree')
    BY <2>1, <2>3, ReloadAmidKeeps
  <2>4. ASSUME NEW op \in {"other", "append", "rmdir", "rename", "host"}, NEW p, NEW q, last' = Did(op, p, q)
        PROVE  FALSE
    BY <2>1, <2>4 DEF Did
  <2>5. last' # Other
    BY <2>1 DEF Other
  <2>6. ~FdCall
    BY <2>4, <2>5 DEF FdCall, FdClose, FdWrite, FdPwrite, FdFilestatSetSize, FdSeek, FdRead,
                      FdFdstatSetFlags, FdFdstatSetRights, Call
  <2>7. ~Open
    BY <2>5 DEF Open, OpenExisting, OpenEmpty, Redirect, Call
  <2>8. ~LinkCall
    BY <2>5 DEF LinkCall, PathSymlink, PathLink, Call
  <2>9. CASE PathCall
    <3>1. PICK p \in Path :
            \/ ReloadAmid(MakeDirs(tree, p))
            \/ \E q \in Path : \E ws \in Renames(p, q) : ReloadAmid(ws)
      BY <2>4, <2>5, <2>9 DEF PathCall, PathCreateDirectory, PathRemoveDirectory, PathUnlinkFile,
                              FsWrite, FsDelete, FsMkdirp, PathRename, Call
    <3>2. CASE ReloadAmid(MakeDirs(tree, p))
      <4>1. p \in Seq(Names)
        BY VfsAssumption DEF Names
      <4>2. Safe(tree, MakeDirs(tree, p))
        BY <4>1, MakesDirs, DirsSafe
      <4> QED BY <2>3, <3>2, <4>2
    <3>3. CASE \E q \in Path : \E ws \in Renames(p, q) : ReloadAmid(ws)
      BY <2>1, <2>3, <3>3, RenameSafe DEF FilesInv
    <3> QED BY <3>1, <3>2, <3>3
  <2> QED BY <2>1, <2>2, <2>6, <2>7, <2>8, <2>9 DEF Next
<1> QED BY <1>1, FilesInvariant, PTL DEF Spec, ReloadKeepsFiles
----------------------------------------------------------------------------
(* Which call was made.                                                    *)

LEMMA Appending ==
  ASSUME Next, last'.op = "append"
  PROVE  \E f \in DOMAIN fds : FdWrite(f) /\ fds[f].append /\ last'.at = fds[f].path
<1>1. ASSUME NEW op \in {"other", "reload", "rmdir", "rename", "host"}, NEW p, NEW q, last' = Did(op, p, q)
      PROVE  FALSE
  BY <1>1 DEF Did
<1>2. last' # Other
  BY DEF Other
<1>3. ~Open /\ ~LinkCall
  BY <1>2 DEF Open, OpenExisting, OpenEmpty, Redirect, LinkCall, PathSymlink, PathLink, Call
<1>4. ~Reload
  BY <1>1 DEF Reload, Call
<1>5. ~PathCall
  BY <1>1, <1>2 DEF PathCall, PathCreateDirectory, PathRemoveDirectory, PathUnlinkFile,
                    FsWrite, FsDelete, FsMkdirp, PathRename, ReloadAmid, Call
<1>6. PICK f \in DOMAIN fds : FdWrite(f)
  BY <1>2, <1>3, <1>4, <1>5 DEF Next, FdCall, FdClose, FdPwrite, FdFilestatSetSize, FdSeek, FdRead,
                    FdFdstatSetFlags, FdFdstatSetRights, Call
<1>7. last' = Did(IF fds[f].append THEN "append" ELSE "other", fds[f].path, <<>>)
  BY <1>6 DEF FdWrite, Call
<1>8. fds[f].append
  BY <1>1, <1>7
<1>9. last' = Did("append", fds[f].path, <<>>)
  BY <1>7, <1>8
<1>10. last'.at = fds[f].path
  BY <1>9 DEF Did
<1> QED BY <1>6, <1>8, <1>10

LEMMA Removing ==
  ASSUME Next, last'.op = "rmdir"
  PROVE  \E p \in Path : PathRemoveDirectory(p) /\ last'.at = p
<1>1. ASSUME NEW op \in {"other", "reload", "append", "rename", "host"}, NEW p, NEW q, last' = Did(op, p, q)
      PROVE  FALSE
  BY <1>1 DEF Did
<1>2. last' # Other
  BY DEF Other
<1>3. ~Open /\ ~LinkCall
  BY <1>2 DEF Open, OpenExisting, OpenEmpty, Redirect, LinkCall, PathSymlink, PathLink, Call
<1>4. ~Reload
  BY <1>1 DEF Reload, Call
<1>5. ~FdCall
  BY <1>1, <1>2 DEF FdCall, FdClose, FdWrite, FdPwrite, FdFilestatSetSize, FdSeek, FdRead,
                    FdFdstatSetFlags, FdFdstatSetRights, Call
<1>6. PICK p \in Path : PathRemoveDirectory(p)
  BY <1>1, <1>2, <1>3, <1>4, <1>5 DEF Next, PathCall, PathCreateDirectory, PathUnlinkFile,
                    FsWrite, FsDelete, FsMkdirp, PathRename, ReloadAmid, Call
<1>7. last'.at = p
  BY <1>6 DEF PathRemoveDirectory, Call, Did
<1> QED BY <1>6, <1>7

LEMMA Renaming ==
  ASSUME Next, last'.op = "rename"
  PROVE  \E p \in Path, q \in Path : /\ PathRename(p, q) /\ ~IsLink(tree, p) /\ ~IsFile(tree, p)
                                     /\ last'.at = p /\ last'.to = q
<1>1. ASSUME NEW op \in {"other", "reload", "append", "rmdir", "host"}, NEW p, NEW q, last' = Did(op, p, q)
      PROVE  FALSE
  BY <1>1 DEF Did
<1>2. last' # Other
  BY DEF Other
<1>3. ~Open /\ ~LinkCall
  BY <1>2 DEF Open, OpenExisting, OpenEmpty, Redirect, LinkCall, PathSymlink, PathLink, Call
<1>4. ~Reload
  BY <1>1 DEF Reload, Call
<1>5. ~FdCall
  BY <1>1, <1>2 DEF FdCall, FdClose, FdWrite, FdPwrite, FdFilestatSetSize, FdSeek, FdRead,
                    FdFdstatSetFlags, FdFdstatSetRights, Call
<1>6. PICK p \in Path, q \in Path : PathRename(p, q)
  BY <1>1, <1>2, <1>3, <1>4, <1>5 DEF Next, PathCall, PathCreateDirectory, PathUnlinkFile,
                    PathRemoveDirectory, FsWrite, FsDelete, FsMkdirp, ReloadAmid, Call
<1>7. last' = Did(IF IsLink(tree, p) \/ IsFile(tree, p) THEN "other" ELSE "rename", p, q)
  BY <1>6 DEF PathRename, Call
<1>8. ~IsLink(tree, p) /\ ~IsFile(tree, p)
  BY <1>1, <1>7
<1>9. last'.at = p /\ last'.to = q
  BY <1>7 DEF Did
<1> QED BY <1>6, <1>8, <1>9
----------------------------------------------------------------------------
(* Appending.                                                              *)

SameLinks(t, u) == \A k : k.class = "link" => /\ (k \in DOMAIN t <=> k \in DOMAIN u)
                                             /\ (k \in DOMAIN t => u[k] = t[k])

\* The same links lead to the same place.
LEMMA FollowedSame ==
  ASSUME NEW t, NEW u, SameLinks(t, u), NEW p
  PROVE  Followed(u, p) = Followed(t, p) /\ (IsLink(u, p) <=> IsLink(t, p))
<1>1. ASSUME NEW q PROVE (IsLink(u, q) <=> IsLink(t, q)) /\ Hop(u, q) = Hop(t, q)
  <2>1. LinkKey(q).class = "link"
    BY DEF LinkKey, Key
  <2>2. IsLink(u, q) <=> IsLink(t, q)
    BY <2>1 DEF SameLinks, IsLink
  <2>3. IsLink(t, q) => u[LinkKey(q)] = t[LinkKey(q)]
    BY <2>1 DEF SameLinks, IsLink
  <2> QED BY <2>2, <2>3 DEF Hop
<1>2. PICK a : Hops(t, p, a) /\ Followed(t, p) = IF IsLink(t, p) THEN a[MaxHops - 1] ELSE p
  BY FollowedBy
<1>3. PICK b : Hops(u, p, b) /\ Followed(u, p) = IF IsLink(u, p) THEN b[MaxHops - 1] ELSE p
  BY FollowedBy
<1>4. MaxHops \in Nat \ {0}
  BY VfsAssumption
<1> DEFINE S == {n \in 0..(MaxHops - 1) : a[n] # b[n]}
<1>5. S = {}
  <2> SUFFICES ASSUME S # {} PROVE FALSE
    OBVIOUS
  <2>1. PICK n \in S : \A i \in S : n <= i
    <3>1. S \in SUBSET Nat
      BY <1>4
    <3> HIDE DEF S
    <3> QED BY <3>1, LeastOf
  <2>2. /\ n \in 0..(MaxHops - 1) /\ a[n] # b[n]
        /\ a[n] = IF n = 0 THEN p ELSE Hop(t, a[n - 1])
        /\ b[n] = IF n = 0 THEN p ELSE Hop(u, b[n - 1])
    BY <1>2, <1>3, <2>1 DEF Hops
  <2>3. n # 0
    BY <2>2
  <2>4. n - 1 \in 0..(MaxHops - 1) /\ ~(n <= n - 1)
    BY <1>4, <2>2, <2>3
  <2>5. a[n - 1] = b[n - 1]
    BY <2>1, <2>4
  <2> QED BY <1>1, <2>2, <2>3, <2>5
<1>6. a[MaxHops - 1] = b[MaxHops - 1]
  BY <1>4, <1>5
<1> QED BY <1>1, <1>2, <1>3, <1>6

LEMMA AppendsAfter ==
  ASSUME NEW b \in Seq(Bits)
  PROVE  IsStrictPrefix(b, Overwritten(b, Len(b)))
<1>1. PICK n : n = Len(b)
  OBVIOUS
<1>2. PICK o : o = Overwritten(b, n)
  OBVIOUS
<1>3. n \in Nat
  BY <1>1
<1>4. /\ o \in Seq(Bits) /\ Len(o) = IF Len(b) >= n + 1 THEN Len(b) ELSE n + 1
      /\ \A i \in 1..Len(b) : i # n + 1 => o[i] = b[i]
  BY <1>2, <1>3, OverwrittenFits
<1>5. Len(o) = n + 1 /\ \A i \in 1..n : o[i] = b[i]
  BY <1>1, <1>3, <1>4
<1>6. SubSeq(b, 1, n) = b
  BY <1>1, SubSeqFull
<1>7. SubSeq(o, 1, n) = b
  <2>1. PICK s : s = SubSeq(o, 1, n)
    OBVIOUS
  <2>2. 1 \in Int /\ n \in Int /\ \A i \in 1..n : o[i] \in Bits
    BY <1>3, <1>4, <1>5
  <2>3. s \in Seq(Bits) /\ Len(s) = IF 1 <= n THEN n - 1 + 1 ELSE 0
    BY <2>1, <2>2, SubSeqProperties
  <2>4. \A i \in 1..(n - 1 + 1) : SubSeq(o, 1, n)[i] = o[1 + i - 1]
    BY <2>2, SubSeqProperties
  <2>5. ASSUME NEW i \in 1..n PROVE s[i] = b[i]
    <3>1. i \in 1..(n - 1 + 1) /\ 1 + i - 1 = i
      BY <1>3
    <3> QED BY <1>5, <2>1, <2>4, <3>1
  <2>6. Len(s) = n
    BY <1>3, <2>3
  <2> QED BY <1>1, <2>1, <2>3, <2>5, <2>6, SeqEqual
<1>8. n <= n + 1 /\ n # n + 1
  BY <1>3
<1>9. IsPrefix(b, o)
  BY <1>1, <1>5, <1>6, <1>7, <1>8 DEF IsPrefix
<1>10. b # o
  BY <1>1, <1>5, <1>8
<1> QED BY <1>1, <1>2, <1>9, <1>10 DEF IsStrictPrefix

\* What is written through a descriptor that appends comes after all the file
\* held when it is written, whatever the cursor says (AppendKeeps).
THEOREM AppendsKeep == Spec => AppendKeeps
<1> DEFINE Kind == last'.op = "append" => IsStrictPrefix(Held(last'.at), Bytes(tree', last'.at))
<1>1. FilesInv /\ [Next]_vars => [Kind]_vars
  <2>1. SUFFICES ASSUME FilesInv, Next, last'.op = "append"
                 PROVE  IsStrictPrefix(Held(last'.at), Bytes(tree', last'.at))
    OBVIOUS
  <2>2. PICK f \in DOMAIN fds : FdWrite(f) /\ fds[f].append /\ last'.at = fds[f].path
    BY <2>1, Appending
  <2>3. PICK p \in Seq(Names) : p = fds[f].path
    BY <2>1, <2>2 DEF FilesInv, Descs
  <2>4. PICK b : b = Held(p)
    OBVIOUS
  <2>5. Kept(tree) /\ Sized(b) /\ b \in Seq(Bits) /\ Len(b) \in Nat
    <3>1. Kept(tree) /\ Sized(b)
      BY <2>1, <2>4, HeldSized DEF FilesInv
    <3> QED BY <3>1 DEF Sized
  <2>6. PICK o : o = Overwritten(b, Len(b))
    OBVIOUS
  <2>7. PICK k : k = FileKey(Followed(tree, p))
    OBVIOUS
  <2>8. Fits(Len(b) + 1) /\ tree' = After(tree, <<Put(k, o)>>)
    BY <2>2, <2>3, <2>4, <2>6, <2>7 DEF FdWrite, Issue, WriteFile, WriteFrom
  <2>9. Sized(o)
    BY <2>5, <2>6, <2>8, WrittenSized
  <2>10. Proper(k, o)
    <3>1. Followed(tree, p) \in Seq(Names)
      BY <2>5, FollowedPath
    <3> QED BY <2>7, <2>9, <3>1, KeysProper
  <2>11. tree'[k] = o /\ \A j : j # k => /\ (j \in DOMAIN tree' <=> j \in DOMAIN tree)
                                        /\ (j \in DOMAIN tree => tree'[j] = tree[j])
    <3>1. PICK t : t = tree
      OBVIOUS
    <3>2. Kept(t)
      BY <2>5, <3>1
    <3>3. PICK a : a = After(t, <<Put(k, o)>>)
      OBVIOUS
    <3>4. Stored(a, t, k, o)
      BY <2>10, <3>2, <3>3, PutsTo
    <3>5. a = tree'
      BY <2>8, <3>1, <3>3
    <3>6. Stored(tree', tree, k, o)
      BY <3>1, <3>4, <3>5
    <3> QED BY <3>6 DEF Stored
  <2>12. SameLinks(tree, tree')
    <3>1. k.class = "file"
      BY <2>7 DEF FileKey, Key
    <3> QED BY <2>11, <3>1 DEF SameLinks
  <2>13. PICK u : u = tree'
    OBVIOUS
  <2>14. Followed(u, p) = Followed(tree, p)
    BY <2>12, <2>13, FollowedSame
  <2>15. Bytes(u, p) = o
    BY <2>7, <2>11, <2>13, <2>14 DEF Bytes
  <2>16. IsStrictPrefix(b, o)
    BY <2>5, <2>6, AppendsAfter
  <2> QED BY <2>2, <2>3, <2>4, <2>13, <2>15, <2>16
<1> QED BY <1>1, FilesInvariant, PTL DEF Spec, AppendKeeps
----------------------------------------------------------------------------
(* Removing a directory.                                                   *)

\* An empty directory has nothing below it, in any store.
LEMMA EmptyDirectory ==
  ASSUME NEW t, Kept(t), NEW p \in Seq(Names), Entries(t, p) = {}
  PROVE  Below(t, p, Tree) = {} /\ \A m \in DOMAIN Mount : ~IsStrictPrefix(p, m)
<1>1. ASSUME NEW k \in Below(t, p, Tree) PROVE FALSE
  <2>1. k.path[Len(p) + 1] \in Entries(t, p)
    BY DEF Entries, Tree
  <2> QED BY <2>1
<1>2. ASSUME NEW m \in DOMAIN Mount, IsStrictPrefix(p, m) PROVE FALSE
  <2>1. m \in Seq(Names) /\ Len(m) \in Nat /\ Len(p) \in Nat
    BY VfsAssumption DEF Names
  <2>2. Len(p) < Len(m) /\ IsPrefix(p, m)
    BY <1>2, <2>1, PrefixFacts
  <2>3. Len(p) \in 0..(Len(m) - 1)
    BY <2>1, <2>2
  <2>4. PICK o \in DOMAIN Mount : Len(o) = Len(p) + 1 /\ Front(o) = SubSeq(m, 1, Len(p))
    BY <2>3, MountAssumption
  <2>5. SubSeq(m, 1, Len(p)) = p
    BY <2>2, SubSeqFull DEF IsPrefix
  <2>6. o # <<>>
    BY <2>1, <2>4
  <2>7. Last(o) \in Entries(t, p)
    BY <2>4, <2>5, <2>6 DEF Entries
  <2> QED BY <2>7
<1> QED BY <1>1, <1>2

\* What rmdir() removes has nothing below it afterwards (NoOrphans).
THEOREM NothingOrphaned == Spec => NoOrphans
<1> DEFINE Kind == last'.op = "rmdir" /\ ~IsLink(tree, last'.at) =>
                     /\ Below(tree', last'.at, Tree) = {}
                     /\ \A m \in DOMAIN Mount : ~IsStrictPrefix(last'.at, m)
<1>1. FilesInv /\ [Next]_vars => [Kind]_vars
  <2>1. SUFFICES ASSUME FilesInv, Next, last'.op = "rmdir", ~IsLink(tree, last'.at)
                 PROVE  /\ Below(tree', last'.at, Tree) = {}
                        /\ \A m \in DOMAIN Mount : ~IsStrictPrefix(last'.at, m)
    OBVIOUS
  <2>2. PICK p \in Path : PathRemoveDirectory(p) /\ last'.at = p
    BY <2>1, Removing
  <2>3. p \in Seq(Names) /\ Kept(tree)
    BY <2>1, VfsAssumption DEF Names, FilesInv
  <2>4. Followed(tree, p) = p
    <3>1. PICK at : Followed(tree, p) = IF IsLink(tree, p) THEN at[MaxHops - 1] ELSE p
      BY FollowedBy
    <3> QED BY <2>1, <2>2, <3>1
  <2>5. Entries(tree, p) = {}
    BY <2>2, <2>4 DEF PathRemoveDirectory
  <2>6. Below(tree, p, Tree) = {} /\ \A m \in DOMAIN Mount : ~IsStrictPrefix(p, m)
    BY <2>3, <2>5, EmptyDirectory
  <2>7. PICK d : d = DirKey(p)
    OBVIOUS
  <2>8. tree' = After(tree, <<Del(d)>>)
    BY <2>2, <2>7 DEF PathRemoveDirectory, Issue, RemoveDir
  <2>9. ASSUME NEW k \in DOMAIN tree' PROVE k \in DOMAIN tree
    BY <2>3, <2>8, DelsOne
  <2>10. PICK u : u = tree'
    OBVIOUS
  <2>11. Below(u, p, Tree) = {}
    BY <2>6, <2>9, <2>10 DEF Below
  <2> QED BY <2>2, <2>6, <2>10, <2>11
<1> QED BY <1>1, FilesInvariant, PTL DEF Spec, NoOrphans
----------------------------------------------------------------------------
(* Moving a directory.                                                     *)

LEMMA PrefixTrans ==
  ASSUME NEW a \in Seq(Names), NEW b \in Seq(Names), NEW c \in Seq(Names), IsPrefix(a, b), IsPrefix(b, c)
  PROVE  /\ IsPrefix(a, c)
         /\ IsStrictPrefix(a, b) \/ IsStrictPrefix(b, c) => IsStrictPrefix(a, c)
<1>1. Len(a) \in Nat /\ Len(b) \in Nat /\ Len(c) \in Nat
  OBVIOUS
<1>2. Len(a) <= Len(b) /\ \A i \in 1..Len(a) : a[i] = b[i]
  BY PrefixFacts
<1>3. Len(b) <= Len(c) /\ \A i \in 1..Len(b) : b[i] = c[i]
  BY PrefixFacts
<1>4. \A i \in 1..Len(a) : i \in 1..Len(b)
  BY <1>1, <1>2
<1>5. Len(a) <= Len(c) /\ \A i \in 1..Len(a) : a[i] = c[i]
  BY <1>1, <1>2, <1>3, <1>4
<1>6. IsPrefix(a, c)
  BY <1>5, PrefixFacts
<1>7. IsStrictPrefix(a, b) => Len(a) < Len(b)
  BY PrefixFacts
<1>8. IsStrictPrefix(b, c) => Len(b) < Len(c)
  BY PrefixFacts
<1>9. IsStrictPrefix(a, b) \/ IsStrictPrefix(b, c) => Len(a) < Len(c)
  BY <1>1, <1>2, <1>3, <1>7, <1>8
<1> QED BY <1>6, <1>9, PrefixFacts

\* The mount point a path belongs to.
Longest(m, p) == /\ m \in DOMAIN Mount /\ IsPrefix(m, p)
                 /\ \A n \in DOMAIN Mount : IsPrefix(n, p) => Len(n) <= Len(m)

LEMMA LongestExists ==
  ASSUME NEW p \in Seq(Names)
  PROVE  \E m : Longest(m, p)
<1> DEFINE S == {Len(m) : m \in {n \in DOMAIN Mount : IsPrefix(n, p)}}
<1>1. \A m \in DOMAIN Mount : m \in Seq(Names)
  BY VfsAssumption DEF Names
<1>2. Len(p) \in Nat /\ \A m \in DOMAIN Mount : Len(m) \in Nat
  BY <1>1
<1>3. \A m \in DOMAIN Mount : IsPrefix(m, p) => Len(m) <= Len(p)
  BY DEF IsPrefix
<1>4. S \in SUBSET 0..Len(p)
  BY <1>2, <1>3
<1>5. S # {}
  <2>1. PICK root : root = <<>>
    OBVIOUS
  <2>2. root \in Seq(Names) /\ Len(root) = 0 /\ root \in DOMAIN Mount
    BY <2>1, VfsAssumption
  <2>3. Len(root) <= Len(p) /\ \A i \in 1..Len(root) : root[i] = p[i]
    BY <1>2, <2>2
  <2>4. IsPrefix(root, p)
    BY <2>2, <2>3, PrefixFacts
  <2> QED BY <2>2, <2>4
<1>6. PICK l \in S : \A i \in S : i <= l
  <2> HIDE DEF S
  <2> QED BY <1>2, <1>4, <1>5, GreatestOf
<1>7. PICK m \in DOMAIN Mount : IsPrefix(m, p) /\ Len(m) = l
  BY <1>6
<1>8. \A n \in DOMAIN Mount : IsPrefix(n, p) => Len(n) \in S
  OBVIOUS
<1> HIDE DEF S
<1> QED BY <1>6, <1>7, <1>8 DEF Longest

LEMMA StoreIs ==
  ASSUME NEW p \in Seq(Names), NEW m, Longest(m, p)
  PROVE  StoreOf(p) = Mount[m]
<1>1. PICK o : o = CHOOSE n \in DOMAIN Mount :
                     /\ IsPrefix(n, p)
                     /\ \A l \in DOMAIN Mount : IsPrefix(l, p) => Len(l) <= Len(n)
  OBVIOUS
<1>2. Longest(o, p)
  BY <1>1 DEF Longest
<1>3. m \in Seq(Names) /\ o \in Seq(Names)
  BY <1>2, VfsAssumption DEF Names, Longest
<1>4. Len(m) <= Len(o) /\ Len(o) <= Len(m) /\ IsPrefix(m, p) /\ IsPrefix(o, p)
  BY <1>2 DEF Longest
<1>5. Len(m) = Len(o)
  <2>1. Len(m) \in Nat /\ Len(o) \in Nat
    BY <1>3
  <2> QED BY <1>4, <2>1
<1>6. (\A i \in 1..Len(m) : m[i] = p[i]) /\ \A i \in 1..Len(o) : o[i] = p[i]
  BY <1>3, <1>4, PrefixFacts
<1>7. m = o
  <2>1. \A i \in 1..Len(m) : m[i] = o[i]
    BY <1>5, <1>6
  <2> QED BY <1>3, <1>5, <2>1, SeqEqual
<1>8. Resolve(p) = Mount[o]
  BY <1>1 DEF Resolve
<1> QED BY <1>7, <1>8 DEF StoreOf, Resolved

\* Below a path that no mount point is below, paths belong to its store.
LEMMA StoreBelow ==
  ASSUME NEW q \in Seq(Names), NEW r \in Seq(Names), IsPrefix(q, r),
         \A m \in DOMAIN Mount : ~IsStrictPrefix(q, m)
  PROVE  StoreOf(r) = StoreOf(q)
<1>1. ASSUME NEW m \in DOMAIN Mount PROVE IsPrefix(m, r) <=> IsPrefix(m, q)
  <2>1. m \in Seq(Names)
    BY VfsAssumption DEF Names
  <2>2. IsPrefix(m, q) => IsPrefix(m, r)
    BY <2>1, PrefixTrans
  <2>3. ASSUME IsPrefix(m, r) PROVE IsPrefix(m, q)
    <3>1. Len(m) \in Nat /\ Len(q) \in Nat
      BY <2>1
    <3>2. \A i \in 1..Len(m) : m[i] = r[i]
      BY <2>1, <2>3, PrefixFacts
    <3>3. \A i \in 1..Len(q) : q[i] = r[i]
      BY PrefixFacts
    <3>4. CASE Len(m) <= Len(q)
      <4>1. \A i \in 1..Len(m) : i \in 1..Len(q)
        BY <3>1, <3>4
      <4>2. \A i \in 1..Len(m) : m[i] = q[i]
        BY <3>2, <3>3, <4>1
      <4> QED BY <2>1, <3>4, <4>2, PrefixFacts
    <3>5. CASE ~(Len(m) <= Len(q))
      <4>1. Len(q) < Len(m) /\ Len(q) <= Len(m) /\ \A i \in 1..Len(q) : i \in 1..Len(m)
        BY <3>1, <3>5
      <4>2. \A i \in 1..Len(q) : q[i] = m[i]
        BY <3>2, <3>3, <4>1
      <4>3. IsStrictPrefix(q, m)
        BY <2>1, <4>1, <4>2, PrefixFacts
      <4> QED BY <4>3
    <3> QED BY <3>4, <3>5
  <2> QED BY <2>2, <2>3
<1>2. PICK m : Longest(m, q)
  BY LongestExists
<1>3. Longest(m, r)
  BY <1>1, <1>2 DEF Longest
<1> QED BY <1>2, <1>3, StoreIs

\* A directory is not moved to above itself: there is something there.
LEMMA NotAbove ==
  ASSUME NEW t, Kept(t), NEW p \in Seq(Names), NEW q \in Seq(Names), StoreOf(p) = StoreOf(q),
         ~Exists(t, q), IsDir(t, p), ~IsLink(t, p), \A m \in DOMAIN Mount : ~IsStrictPrefix(q, m)
  PROVE  ~IsStrictPrefix(q, p)
<1> SUFFICES ASSUME IsStrictPrefix(q, p) PROVE FALSE
  OBVIOUS
<1>1. Followed(t, p) = p
  <2>1. PICK at : Followed(t, p) = IF IsLink(t, p) THEN at[MaxHops - 1] ELSE p
    BY FollowedBy
  <2> QED BY <2>1
<1>2. p \in DOMAIN Mount \/ DirKey(p) \in DOMAIN t \/ Below(t, p, Tree) # {}
  BY <1>1 DEF IsDir, Tree
<1>3. Below(t, q, Tree) = {}
  BY Vacant
<1>4. CASE DirKey(p) \in DOMAIN t
  <2>1. PICK k : k = DirKey(p)
    OBVIOUS
  <2>2. k.store = StoreOf(q) /\ k.class \in Tree /\ k.path = p
    BY <2>1 DEF DirKey, Key, Tree
  <2>3. k \in Below(t, q, Tree)
    BY <1>4, <2>1, <2>2 DEF Below
  <2> QED BY <1>3, <2>3
<1>5. CASE Below(t, p, Tree) # {}
  <2>1. PICK k \in Below(t, p, Tree) : TRUE
    BY <1>5
  <2>2. /\ k \in DOMAIN t /\ KeyRec(k) /\ k.store = StoreOf(p) /\ k.class \in Tree
        /\ IsPrefix(p, k.path)
    BY BelowFacts
  <2>3. IsStrictPrefix(q, k.path)
    BY <2>2, PrefixTrans DEF KeyRec, IsStrictPrefix
  <2>4. k \in Below(t, q, Tree)
    BY <2>2, <2>3 DEF Below
  <2> QED BY <1>3, <2>4
<1> QED BY <1>2, <1>4, <1>5

LEMMA TreeMoved ==
  ASSUME NEW t, Kept(t), NEW p \in Seq(Names), NEW q \in Seq(Names), p # <<>>, StoreOf(p) = StoreOf(q),
         ~Exists(t, q), IsDir(t, p), ~IsLink(t, p), \A m \in DOMAIN Mount : ~IsStrictPrefix(q, m),
         NEW keys \in TreeKeys(t, p), NEW u, u = After(t, MoveTree(t, keys, p, q))
  PROVE  /\ \A k \in Below(t, p, Tree) :
              LET new == Moved(k, p, q)
              IN  new \in DOMAIN u /\ u[new] = t[k] /\ new.store = StoreOf(new.path)
         /\ \A k \in Below(u, p, Tree) : IsPrefix(q, k.path)
         /\ \A k \in DOMAIN t : ~IsPrefix(p, k.path) => k \in DOMAIN u /\ u[k] = t[k]
<1>1. PICK ws : ws = MoveTree(t, keys, p, q)
  OBVIOUS
<1>2. PICK n : n = Len(keys)
  OBVIOUS
<1>3. /\ Queue(ws) /\ n \in Nat /\ Len(ws) = 2 * n + 2
      /\ \A i \in 1..n : /\ keys[i] \in Below(t, p, Tree)
                        /\ Puts(ws[2 * i - 1], Moved(keys[i], p, q), t[keys[i]])
                        /\ Dels(ws[2 * i], keys[i])
      /\ \A j \in 1..Len(ws) :
           \/ \E i \in 1..n : j = 2 * i - 1 /\ Puts(ws[j], Moved(keys[i], p, q), t[keys[i]])
           \/ \E i \in 1..n : j = 2 * i /\ Dels(ws[j], keys[i])
           \/ Dels(ws[j], DirKey(p))
           \/ Puts(ws[j], DirKey(q), <<>>)
  BY <1>1, <1>2, TreeWrites
<1>4. \A j \in 1..Len(ws) : ws[j].put \in BOOLEAN
  BY <1>3 DEF Puts, Dels
<1>5. u = After(t, ws)
  BY <1>1
<1>6. ~IsStrictPrefix(q, p)
  BY NotAbove
<1>7. DirKey(p).path = p /\ DirKey(q).path = q /\ DirKey(q) \notin DOMAIN t
  BY Vacant DEF DirKey, Key
<1>8. \A k \in Below(t, p, Tree) : \E i \in 1..n : keys[i] = k
  BY <1>2, KeysListed
<1>9. ASSUME NEW k \in Below(t, p, Tree)
      PROVE  /\ Moved(k, p, q) \notin DOMAIN t /\ Moved(k, p, q).path \in Seq(Names)
             /\ IsStrictPrefix(q, Moved(k, p, q).path) /\ IsPrefix(q, Moved(k, p, q).path)
             /\ Moved(k, p, q).store = StoreOf(q)
             /\ k \in DOMAIN t /\ KeyRec(k) /\ k.store = StoreOf(p) /\ IsPrefix(p, k.path)
  <2>1. /\ k \in DOMAIN t /\ KeyRec(k) /\ k.store = StoreOf(p)
        /\ IsStrictPrefix(p, k.path) /\ IsPrefix(p, k.path)
    BY BelowFacts
  <2>2. /\ KeyRec(Moved(k, p, q)) /\ Moved(k, p, q).store = StoreOf(q)
        /\ IsPrefix(q, Moved(k, p, q).path) /\ IsStrictPrefix(q, Moved(k, p, q).path)
    BY <2>1, MovedFacts
  <2>3. Moved(k, p, q) \notin DOMAIN t
    BY MovedVacant
  <2> QED BY <2>1, <2>2, <2>3 DEF KeyRec
<1>10. ASSUME NEW k \in Below(t, p, Tree), NEW new, new = Moved(k, p, q)
       PROVE  new \in DOMAIN u /\ u[new] = t[k] /\ new.store = StoreOf(new.path)
  <2>1. PICK i \in 1..n : keys[i] = k
    BY <1>8
  <2>2. PICK x : x = 2 * i - 1
    OBVIOUS
  <2>3. x \in 1..Len(ws)
    BY <1>3, <2>2
  <2>4. ws[x].key = new
    BY <1>3, <1>10, <2>1, <2>2 DEF Puts
  <2>5. PICK j : LastTo(ws, j) /\ ws[j].key = new
    BY <1>3, <2>3, <2>4, LastWrite
  <2>6. j \in 1..Len(ws)
    BY <2>5 DEF LastTo
  <2>7. ~Dels(ws[j], DirKey(p))
    BY <1>6, <1>7, <1>9, <1>10, <2>5 DEF Dels
  <2>8. ~Puts(ws[j], DirKey(q), <<>>)
    BY <1>7, <1>9, <1>10, <2>5 DEF Puts, IsStrictPrefix
  <2>9. ASSUME NEW l \in 1..n PROVE ~Dels(ws[j], keys[l])
    BY <1>3, <1>9, <1>10, <2>5 DEF Dels
  <2>10. PICK l \in 1..n : Puts(ws[j], Moved(keys[l], p, q), t[keys[l]])
    BY <1>3, <2>6, <2>7, <2>8, <2>9
  <2>11. PICK h \in Below(t, p, Tree) : h = keys[l]
    BY <1>3
  <2>12. Moved(h, p, q) = Moved(k, p, q)
    BY <1>10, <2>5, <2>10, <2>11 DEF Puts
  <2>13. h = k
    BY <1>9, <2>12, MovedOnce
  <2>14. ws[j].put /\ ws[j].value = t[k]
    BY <2>10, <2>11, <2>13 DEF Puts
  <2>15. new \in DOMAIN u /\ u[new] = t[k]
    <3>1. /\ ws[j].key \in DOMAIN After(t, ws) <=> ws[j].put
          /\ ws[j].put => After(t, ws)[ws[j].key] = ws[j].value
      <4>1. Queue(ws)
        BY <1>3
      <4> QED BY <1>4, <2>5, <4>1, AfterFacts
    <3> QED BY <1>5, <2>5, <2>14, <3>1
  <2>16. new.store = StoreOf(new.path)
    BY <1>9, <1>10, StoreBelow
  <2> QED BY <2>15, <2>16
<1>11. ASSUME NEW k \in Below(u, p, Tree) PROVE IsPrefix(q, k.path)
  <2>1. /\ k \in DOMAIN u /\ k.store = StoreOf(p) /\ k.class \in Tree /\ IsStrictPrefix(p, k.path)
    BY DEF Below
  <2>2. CASE k \in DOMAIN t /\ \A i \in 1..Len(ws) : ws[i].key # k
    <3>1. k \in Below(t, p, Tree)
      BY <2>1, <2>2 DEF Below
    <3>2. PICK i \in 1..n : keys[i] = k
      BY <1>8, <3>1
    <3>3. PICK x : x = 2 * i
      OBVIOUS
    <3>4. x \in 1..Len(ws)
      BY <1>3, <3>3
    <3>5. ws[x].key = k
      BY <1>3, <3>2, <3>3 DEF Dels
    <3> QED BY <2>2, <3>4, <3>5
  <2>3. CASE \E i \in 1..Len(ws) : ws[i].key = k /\ ws[i].put
    <3>1. PICK j \in 1..Len(ws) : ws[j].key = k /\ ws[j].put
      BY <2>3
    <3>2. CASE \E i \in 1..n : Puts(ws[j], Moved(keys[i], p, q), t[keys[i]])
      BY <1>3, <1>9, <3>1, <3>2 DEF Puts
    <3>3. CASE Puts(ws[j], DirKey(q), <<>>)
      <4>1. k.path = q
        BY <1>7, <3>1, <3>3 DEF Puts
      <4>2. IsPrefix(q, q)
        BY PrefixFacts
      <4> QED BY <4>1, <4>2
    <3> QED BY <1>3, <3>1, <3>2, <3>3 DEF Dels
  <2>4. \/ k \in DOMAIN t /\ \A i \in 1..Len(ws) : ws[i].key # k
        \/ \E i : LastTo(ws, i) /\ ws[i].key = k /\ ws[i].put
    <3>1. k \in DOMAIN After(t, ws)
      BY <1>5, <2>1
    <3>2. Queue(ws)
      BY <1>3
    <3>3. \A i \in 1..Len(ws) : ws[i].put \in BOOLEAN
      BY <1>4
    <3> QED BY <3>1, <3>2, <3>3, AfterFrom, SMTT(30)
  <2>5. CASE \E i : LastTo(ws, i) /\ ws[i].key = k /\ ws[i].put
    <3>1. \E i \in 1..Len(ws) : ws[i].key = k /\ ws[i].put
      BY <2>5 DEF LastTo
    <3> QED BY <2>3, <3>1
  <2> QED BY <2>2, <2>4, <2>5
<1>12. ASSUME NEW k \in DOMAIN t, ~IsPrefix(p, k.path) PROVE k \in DOMAIN u /\ u[k] = t[k]
  <2>1. IsPrefix(p, p)
    BY PrefixFacts
  <2>2. ASSUME NEW j \in 1..Len(ws) PROVE ws[j].key # k
    <3>1. CASE \E i \in 1..n : Puts(ws[j], Moved(keys[i], p, q), t[keys[i]])
      BY <1>3, <1>9, <3>1 DEF Puts
    <3>2. CASE \E i \in 1..n : Dels(ws[j], keys[i])
      BY <1>3, <1>9, <1>12, <3>2 DEF Dels
    <3>3. CASE Dels(ws[j], DirKey(p))
      BY <1>7, <1>12, <2>1, <3>3 DEF Dels
    <3>4. CASE Puts(ws[j], DirKey(q), <<>>)
      BY <1>7, <3>4 DEF Puts
    <3> QED BY <1>3, <3>1, <3>2, <3>3, <3>4
  <2> QED BY <1>3, <1>4, <1>5, <2>2, AfterFacts
<1> QED BY <1>10, <1>11, <1>12

\* The rename of a directory takes everything under it along, to where it is then
\* looked for, leaves nothing of it behind and touches nothing else (RenameMovesTree).
THEOREM TreesMoveWhole == Spec => RenameMovesTree
<1> DEFINE All(from, to) ==
             /\ \A k \in Below(tree, from, Tree) :
                  LET new == Moved(k, from, to)
                  IN  new \in DOMAIN tree' /\ tree'[new] = tree[k] /\ new.store = StoreOf(new.path)
             /\ \A k \in Below(tree', from, Tree) : IsPrefix(to, k.path)
             /\ \A k \in DOMAIN tree : ~IsPrefix(from, k.path) => k \in DOMAIN tree' /\ tree'[k] = tree[k]
           Kind == /\ last'.op = "rename" /\ last'.at # <<>>
                   /\ \A m \in DOMAIN Mount : ~IsStrictPrefix(last'.to, m)
                   => All(last'.at, last'.to)
<1>1. FilesInv /\ [Next]_vars => [Kind]_vars
  <2>1. SUFFICES ASSUME FilesInv, Next, last'.op = "rename", last'.at # <<>>,
                        \A m \in DOMAIN Mount : ~IsStrictPrefix(last'.to, m)
                 PROVE  All(last'.at, last'.to)
    OBVIOUS
  <2>2. PICK p \in Path, q \in Path : /\ PathRename(p, q) /\ ~IsLink(tree, p) /\ ~IsFile(tree, p)
                                      /\ last'.at = p /\ last'.to = q
    BY <2>1, Renaming
  <2>3. p \in Seq(Names) /\ q \in Seq(Names) /\ Kept(tree)
    BY <2>1, VfsAssumption DEF Names, FilesInv
  <2>4. PICK ws \in Renames(p, q) : tree' = After(tree, ws)
    BY <2>2 DEF PathRename, Issue
  <2>5. StoreOf(p) = StoreOf(q) /\ ~Exists(tree, q) /\ IsDir(tree, p)
    BY <2>2, <2>4 DEF Renames
  <2>6. ws \in {MoveTree(tree, keys, p, q) : keys \in TreeKeys(tree, p)}
    BY <2>2, <2>4 DEF Renames
  <2>7. PICK keys \in TreeKeys(tree, p) : ws = MoveTree(tree, keys, p, q)
    BY <2>6
  <2>8. PICK u : u = tree'
    OBVIOUS
  <2>9. u = After(tree, MoveTree(tree, keys, p, q))
    BY <2>4, <2>7, <2>8
  <2>10. p # <<>> /\ \A m \in DOMAIN Mount : ~IsStrictPrefix(q, m)
    BY <2>1, <2>2
  <2>11. /\ \A k \in Below(tree, p, Tree) :
              LET new == Moved(k, p, q)
              IN  new \in DOMAIN u /\ u[new] = tree[k] /\ new.store = StoreOf(new.path)
         /\ \A k \in Below(u, p, Tree) : IsPrefix(q, k.path)
         /\ \A k \in DOMAIN tree : ~IsPrefix(p, k.path) => k \in DOMAIN u /\ u[k] = tree[k]
    BY <2>2, <2>3, <2>5, <2>9, <2>10, TreeMoved
  <2> QED BY <2>2, <2>8, <2>11
<1> QED BY <1>1, FilesInvariant, PTL DEF Spec, RenameMovesTree
=============================================================================
