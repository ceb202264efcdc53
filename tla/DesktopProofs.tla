--------------------------- MODULE DesktopProofs ---------------------------
(***************************************************************************)
(* Theorems about the desktop, for any apps, sessions, processes and       *)
(* windows, and about the programs on it: the monitor and the file manager *)
(* act on what they show, a guest gets its replies whole, the folders that *)
(* the kernel makes up are told of alike, and the editors (EditorProofs).  *)
(***************************************************************************)
EXTENDS EditorProofs, FunctionTheorems

Ids == Nat
Queue(q) == \E S : q \in Seq(S)
States == {"normal", "minimized", "maximized"}
WinRec(w) == w \in [owner: {w.owner}, geom: {w.geom}, prev: {w.prev}, state: States]

\* Windows: the terminal's, and that of each process with a surface.
Framed(ws) == /\ ws = [id \in DOMAIN ws |-> ws[id]] /\ DOMAIN ws \subseteq Ids
              /\ \A id \in DOMAIN ws : WinRec(ws[id]) /\ ws[id].owner = id - 1

\* The order z holds every window of D once.
Orders(z, D) == /\ z \in Seq(Ids)
                /\ \A i, j \in 1..Len(z) : z[i] = z[j] => i = j
                /\ \A i \in 1..Len(z) : z[i] \in D
                /\ \A id \in D : \E i \in 1..Len(z) : z[i] = id
OnTop(a, z) == a # 0 => Len(z) > 0 /\ a = z[Len(z)]

\* Each surface is behind the window of its process.
Behind(sf, D, r) ==
  /\ sf = [p \in DOMAIN sf |-> sf[p]]
  /\ \A p \in DOMAIN sf : /\ p \in Nat /\ p # 0 /\ WinOf(p) \in D
                          /\ sf[p] \in [win: {WinOf(p)}, dirty: BOOLEAN]
                          /\ (sf[p].dirty => r)

\* Pids are handed out in order.
Listed(pr) == \E n \in Nat : /\ DOMAIN pr = 1..n /\ pr = [p \in 1..n |-> pr[p]]
                             /\ \A p \in 1..n : pr[p] \in {"live", "dead"}
Alive(pr, p) == p \in DOMAIN pr /\ pr[p] = "live"

Exits(q, i, p) == i \in 1..Len(q) /\ q[i].type = "exit" /\ q[i].pid = p
Shows(q, i, p) == i \in 1..Len(q) /\ q[i].type = "surface" /\ q[i].pid = p
\* Nobody's end is told twice, nor before it; and a surface is shown before it.
Told(q, pr, D) ==
  /\ \A p, i, j : Exits(q, i, p) /\ Exits(q, j, p) => i = j
  /\ \A p, i : Exits(q, i, p) => p \in DOMAIN pr /\ ~Alive(pr, p)
  /\ \A p, i, j : Shows(q, i, p) /\ Shows(q, j, p) => i = j
  /\ \A p, i : Shows(q, i, p) => /\ p \in DOMAIN pr /\ WinOf(p) \notin D
                                 /\ q[i].win = WinOf(p)
                                 /\ (Alive(pr, p) \/ \E j : Exits(q, j, p) /\ i < j)

\* A process with a window is alive, or its end is on its way.
Owned(q, pr, D) ==
  \A id \in D \ {1} : /\ id - 1 \in DOMAIN pr
                      /\ (Alive(pr, id - 1) \/ \E i : Exits(q, i, id - 1))

\* A closed one is dead, or its kill is on its way.
Kills(q, i, p) == i \in 1..Len(q) /\ q[i].type = "kill" /\ q[i] = [type |-> "kill", pid |-> p]
Closing(q, pr, closed) ==
  \A p \in closed : p \in DOMAIN pr /\ (pr[p] = "dead" \/ \E i : Kills(q, i, p))

\* The last write on its way is of the windows as they are, g.
Writes(q, i) == i \in 1..Len(q) /\ q[i].type = "write"
Kept(due, q, f, g) ==
  \/ due
  \/ (\E i : Writes(q, i) /\ q[i].apps = g /\ \A j : Writes(q, j) => j <= i)
  \/ ((\A i : ~Writes(q, i)) /\ f = g)

DeskInv ==
  /\ Queue(inbox) /\ Queue(outbox) /\ raf \in BOOLEAN /\ timer \in BOOLEAN /\ missed \in BOOLEAN
  /\ Framed(wins) /\ 1 \in DOMAIN wins
  /\ Orders(zorder, DOMAIN wins) /\ OnTop(active, zorder)
  /\ Behind(surfaces, DOMAIN wins, raf) /\ Listed(procs)
  /\ Told(inbox, procs, DOMAIN wins) /\ Owned(inbox, procs, DOMAIN wins)
  /\ Closing(outbox, procs, shut)
  /\ Kept(timer \/ missed, outbox, file, Tagged(DOMAIN wins))
----------------------------------------------------------------------------
(* Numbers, queues and orders.                                             *)

\* A nonempty set of the numbers up to n has a greatest one.
LEMMA TopOf ==
  ASSUME NEW n \in Nat, NEW S \in SUBSET 1..n, S # {}
  PROVE  Max(S) \in S /\ \A i \in S : i <= Max(S)
<1> DEFINE D == {k \in 0..n : n - k \in S}
<1>1. D \in SUBSET Nat /\ D # {}
  <2>1. PICK i \in S : TRUE
    OBVIOUS
  <2>2. n - i \in 0..n /\ n - (n - i) = i
    OBVIOUS
  <2>3. n - i \in D
    BY <2>2
  <2>4. D # {}
    BY <2>3
  <2>5. \A k \in D : k \in Nat
    OBVIOUS
  <2> HIDE DEF D
  <2> QED BY <2>4, <2>5
<1>2. IsWellFoundedOn(OpToRel(<, Nat), Nat)
  BY NatLessThanWellFounded
<1>3. PICK k \in D : \A l \in D : ~(<<l, k>> \in OpToRel(<, Nat))
  BY <1>1, <1>2, WFMin
<1>4. ASSUME NEW i \in S PROVE n - k >= i
  <2>1. n - i \in D /\ n - i \in Nat /\ k \in Nat
    OBVIOUS
  <2>2. ~(n - i < k)
    BY <1>3, <2>1 DEF OpToRel
  <2> QED BY <2>1, <2>2
<1>5. n - k \in S
  OBVIOUS
<1> HIDE DEF D
<1>6. PICK m \in S : \A i \in S : m >= i
  BY <1>4, <1>5
<1>7. Max(S) \in S /\ \A i \in S : Max(S) >= i
  BY <1>6 DEF Max
<1> QED BY <1>7

LEMMA Appended ==
  ASSUME NEW q, Queue(q), NEW m
  PROVE  /\ Queue(Append(q, m)) /\ Len(q) \in Nat /\ Len(Append(q, m)) = Len(q) + 1
         /\ Append(q, m)[Len(q) + 1] = m
         /\ \A i \in 1..Len(q) : Append(q, m)[i] = q[i]
<1>1. PICK S : q \in Seq(S)
  BY DEF Queue
<1> DEFINE T == S \cup {m}
<1>2. q \in Seq(T) /\ m \in T
  BY <1>1
<1> HIDE DEF T
<1>3. Append(q, m) \in Seq(T)
  BY <1>2
<1> QED BY <1>2, <1>3 DEF Queue

LEMMA Rest ==
  ASSUME NEW q, Queue(q), q # <<>>
  PROVE  /\ Queue(Tail(q)) /\ Len(q) \in Nat \ {0} /\ Len(Tail(q)) = Len(q) - 1
         /\ Head(q) = q[1]
         /\ \A i \in 1..Len(q) - 1 : Tail(q)[i] = q[i + 1]
BY DEF Queue

LEMMA RemoveAtFacts ==
  ASSUME NEW S, NEW s \in Seq(S), NEW k \in 1..Len(s)
  PROVE  /\ RemoveAt(s, k) \in Seq(S) /\ Len(RemoveAt(s, k)) = Len(s) - 1
         /\ \A i \in 1..Len(s) - 1 : RemoveAt(s, k)[i] = IF i < k THEN s[i] ELSE s[i + 1]
<1> DEFINE a == SubSeq(s, 1, k - 1)
           z == SubSeq(s, k + 1, Len(s))
<1>1. /\ a \in Seq(S) /\ Len(a) = k - 1
      /\ \A i \in 1..k - 1 : a[i] = s[i]
  OBVIOUS
<1>2. /\ z \in Seq(S) /\ Len(z) = Len(s) - k
      /\ \A i \in 1..Len(s) - k : z[i] = s[i + k]
  OBVIOUS
<1>3. RemoveAt(s, k) = a \o z
  BY DEF RemoveAt
<1> HIDE DEF a, z
<1> DEFINE r == a \o z
<1>4. /\ r \in Seq(S) /\ Len(r) = Len(a) + Len(z)
      /\ \A i \in 1..Len(a) + Len(z) : r[i] = IF i <= Len(a) THEN a[i] ELSE z[i - Len(a)]
  <2>1. a \in Seq(S) /\ z \in Seq(S)
    BY <1>1, <1>2
  <2> QED BY <2>1, ConcatProperties
<1> HIDE DEF r
<1>5. ASSUME NEW i \in 1..Len(s) - 1 PROVE r[i] = IF i < k THEN s[i] ELSE s[i + 1]
  <2>1. r[i] = IF i <= k - 1 THEN a[i] ELSE z[i - (k - 1)]
    BY <1>1, <1>2, <1>4
  <2>2. CASE i < k
    BY <1>1, <2>1, <2>2
  <2>3. CASE ~(i < k)
    <3>1. i - (k - 1) \in 1..Len(s) - k /\ (i - (k - 1)) + k = i + 1
      BY <2>3
    <3> QED BY <1>2, <2>1, <2>3, <3>1
  <2> QED BY <2>2, <2>3
<1> QED BY <1>1, <1>2, <1>3, <1>4, <1>5 DEF r

\* A window is taken out of the order; the top stays where it is, unless it is that one.
LEMMA Dropped ==
  ASSUME NEW z, NEW D, Orders(z, D), NEW id \in D
  PROVE  /\ Orders(Without1(z, id), D \ {id})
         /\ \A a : a # id /\ OnTop(a, z) => OnTop(a, Without1(z, id))
<1>1. PICK k \in 1..Len(z) : z[k] = id
  BY DEF Orders
<1>2. \A i \in 1..Len(z) : z[i] = id => i = k
  BY <1>1 DEF Orders
<1>3. z \in Seq(Ids) /\ Len(z) \in Nat
  BY DEF Orders
<1>4. (CHOOSE i \in DOMAIN z : z[i] = id) = k
  BY <1>1, <1>2, <1>3
<1>5. Without1(z, id) = RemoveAt(z, k)
  <2>1. ~(\A i \in DOMAIN z : z[i] # id)
    BY <1>1, <1>3
  <2> QED BY <1>4, <2>1, Zenon DEF Without1
<1>6. PICK y : y = RemoveAt(z, k)
  OBVIOUS
<1>7. /\ y \in Seq(Ids) /\ Len(y) = Len(z) - 1
      /\ \A i \in 1..Len(z) - 1 : y[i] = IF i < k THEN z[i] ELSE z[i + 1]
  BY <1>3, <1>6, RemoveAtFacts
<1>8. \A i, j \in 1..Len(y) : y[i] = y[j] => i = j
  <2> SUFFICES ASSUME NEW i \in 1..Len(y), NEW j \in 1..Len(y), y[i] = y[j] PROVE i = j
    OBVIOUS
  <2> DEFINE u(h) == IF h < k THEN h ELSE h + 1
  <2>1. \A h \in 1..Len(y) : u(h) \in 1..Len(z) /\ y[h] = z[u(h)]
    BY <1>1, <1>3, <1>7
  <2>2. u(i) = u(j)
    BY <2>1 DEF Orders
  <2>3. i \in Int /\ j \in Int
    BY <1>3, <1>7
  <2> QED BY <1>1, <2>2, <2>3
<1>9. \A i \in 1..Len(y) : y[i] \in D \ {id}
  <2> TAKE i \in 1..Len(y)
  <2>1. CASE i < k
    BY <1>1, <1>2, <1>3, <1>7, <2>1 DEF Orders
  <2>2. CASE ~(i < k)
    <3>1. i + 1 \in 1..Len(z) /\ i + 1 # k /\ y[i] = z[i + 1]
      BY <1>3, <1>7, <2>2
    <3> QED BY <1>2, <3>1 DEF Orders
  <2> QED BY <2>1, <2>2
<1>10. \A w \in D \ {id} : \E i \in 1..Len(y) : y[i] = w
  <2> SUFFICES ASSUME NEW w \in D \ {id} PROVE \E i \in 1..Len(y) : y[i] = w
    OBVIOUS
  <2>1. PICK i \in 1..Len(z) : z[i] = w
    BY DEF Orders
  <2>2. i # k
    BY <1>1, <2>1
  <2>3. CASE i < k
    <3>1. i \in 1..Len(y)
      BY <1>1, <1>3, <1>7, <2>1, <2>3
    <3> QED BY <1>7, <2>1, <2>3, <3>1
  <2>4. CASE i > k
    <3> DEFINE h == i - 1
    <3>1. h \in 1..Len(y) /\ ~(h < k) /\ h + 1 = i
      BY <1>3, <1>7, <2>4
    <3>2. y[h] = w
      BY <1>7, <2>1, <3>1
    <3> QED BY <3>1, <3>2
  <2> QED BY <1>3, <2>2, <2>3, <2>4
<1>11. ASSUME NEW a, a # id, OnTop(a, z) PROVE OnTop(a, y)
  <2>1. CASE a # 0
    <3>1. Len(z) > 0 /\ a = z[Len(z)] /\ k # Len(z)
      BY <1>1, <1>11, <2>1 DEF OnTop
    <3>2. k \in Int /\ 1 <= k /\ k < Len(z) /\ Len(z) \in Nat /\ Len(y) = Len(z) - 1
      BY <1>1, <1>3, <1>7, <3>1
    <3>3. Len(y) > 0 /\ Len(y) \in 1..Len(z) - 1 /\ ~(Len(y) < k) /\ Len(y) + 1 = Len(z)
      BY <3>2
    <3> QED BY <1>7, <3>1, <3>3 DEF OnTop
  <2> QED BY <2>1 DEF OnTop
<1>12. Orders(y, D \ {id})
  BY <1>7, <1>8, <1>9, <1>10 DEF Orders
<1> QED BY <1>5, <1>6, <1>11, <1>12

\* A new window goes on top.
LEMMA Pushed ==
  ASSUME NEW z, NEW D, Orders(z, D), NEW id \in Ids \ D
  PROVE  Orders(Append(z, id), D \cup {id}) /\ OnTop(id, Append(z, id))
<1>1. z \in Seq(Ids) /\ Len(z) \in Nat
  BY DEF Orders
<1>2. PICK y : y = Append(z, id)
  OBVIOUS
<1>3. /\ y \in Seq(Ids) /\ Len(y) = Len(z) + 1 /\ y[Len(z) + 1] = id
      /\ \A i \in 1..Len(z) : y[i] = z[i]
  BY <1>1, <1>2
<1>4. \A i \in 1..Len(z) : z[i] # id
  BY DEF Orders
<1>5. \A i, j \in 1..Len(y) : y[i] = y[j] => i = j
  BY <1>1, <1>3, <1>4 DEF Orders
<1>6. \A i \in 1..Len(y) : y[i] \in D \cup {id}
  <2> TAKE i \in 1..Len(y)
  <2>1. i \in 1..Len(z) \/ i = Len(z) + 1
    BY <1>1, <1>3
  <2> QED BY <1>3, <2>1 DEF Orders
<1>7. \A w \in D \cup {id} : \E i \in 1..Len(y) : y[i] = w
  BY <1>1, <1>3 DEF Orders
<1> QED BY <1>1, <1>2, <1>3, <1>5, <1>6, <1>7 DEF Orders, OnTop

\* focus() brings a window to the top of the same order.
LEMMA ToppedUp ==
  ASSUME NEW z, NEW D, Orders(z, D), NEW id \in D
  PROVE  Orders(ToTop(z, id), D) /\ OnTop(id, ToTop(z, id))
<1>1. Orders(Without1(z, id), D \ {id})
  BY Dropped
<1>2. id \in Ids \ (D \ {id}) /\ (D \ {id}) \cup {id} = D
  BY DEF Orders
<1> QED BY <1>1, <1>2, Pushed DEF ToTop
----------------------------------------------------------------------------
(* Windows and surfaces.                                                   *)

LEMMA Fields ==
  ASSUME NEW w, WinRec(w), NEW x
  PROVE  /\ x \in States => /\ WinRec([w EXCEPT !.state = x])
                            /\ [w EXCEPT !.state = x].owner = w.owner
                            /\ [w EXCEPT !.state = x].geom = w.geom
         /\ WinRec([w EXCEPT !.geom = x]) /\ [w EXCEPT !.geom = x].owner = w.owner
         /\ WinRec([w EXCEPT !.prev = x]) /\ [w EXCEPT !.prev = x].owner = w.owner
BY DEF WinRec

\* One window changes, but not its owner.
LEMMA FramedChanged ==
  ASSUME NEW ws, Framed(ws), NEW id \in DOMAIN ws, NEW w, WinRec(w), w.owner = id - 1
  PROVE  Framed([ws EXCEPT ![id] = w]) /\ DOMAIN [ws EXCEPT ![id] = w] = DOMAIN ws
BY DEF Framed

LEMMA FramedRaised ==
  ASSUME NEW ws, Framed(ws), NEW id \in DOMAIN ws
  PROVE  /\ Framed(Raised(ws, id)) /\ DOMAIN Raised(ws, id) = DOMAIN ws
         /\ \A k \in DOMAIN ws : Raised(ws, id)[k].geom = ws[k].geom
<1>1. PICK x : x = IF ws[id].state = "minimized" THEN "normal" ELSE ws[id].state
  OBVIOUS
<1>2. WinRec(ws[id]) /\ ws[id].owner = id - 1 /\ x \in States
  BY <1>1 DEF Framed, WinRec, States
<1>3. PICK w : w = [ws[id] EXCEPT !.state = x]
  OBVIOUS
<1>4. WinRec(w) /\ w.owner = id - 1 /\ w.geom = ws[id].geom
  BY <1>2, <1>3, Fields
<1>5. Raised(ws, id) = [ws EXCEPT ![id] = w]
  BY <1>1, <1>3 DEF Raised
<1>6. Framed([ws EXCEPT ![id] = w]) /\ DOMAIN [ws EXCEPT ![id] = w] = DOMAIN ws
  BY <1>4, FramedChanged
<1>7. \A k \in DOMAIN ws : [ws EXCEPT ![id] = w][k].geom = ws[k].geom
  BY <1>4 DEF Framed
<1> QED BY <1>5, <1>6, <1>7

LEMMA FramedWith ==
  ASSUME NEW ws, Framed(ws), NEW id \in Ids, NEW w, WinRec(w), w.owner = id - 1
  PROVE  /\ Framed(With(ws, id, w)) /\ DOMAIN With(ws, id, w) = DOMAIN ws \cup {id}
BY DEF Framed, With

LEMMA FramedWithout ==
  ASSUME NEW ws, Framed(ws), NEW xs
  PROVE  /\ Framed(Without(ws, xs)) /\ DOMAIN Without(ws, xs) = DOMAIN ws \ xs
BY DEF Framed, Without

\* The window of a process closes, and its surface goes with it.
LEMMA Closed ==
  ASSUME Framed(wins), Orders(zorder, DOMAIN wins), OnTop(active, zorder),
         Behind(surfaces, DOMAIN wins, raf), NEW id \in DOMAIN wins \ {1}, Close(id)
  PROVE  /\ DOMAIN wins' = DOMAIN wins \ {id}
         /\ Framed(wins') /\ Orders(zorder', DOMAIN wins \ {id}) /\ OnTop(active', zorder')
         /\ Behind(surfaces', DOMAIN wins \ {id}, raf)
<1> DEFINE D == DOMAIN wins
           left == Without1(zorder, id)
           shown == Displayed(wins, left)
           top == left[Max(shown)]
<1>1. /\ wins' = Without(wins, {id}) /\ surfaces' = Without(surfaces, {wins[id].owner})
      /\ \/ active # id /\ zorder' = left /\ active' = active
         \/ active = id /\ shown = {} /\ zorder' = left /\ active' = 0
         \/ shown # {} /\ zorder' = ToTop(left, top) /\ active' = top
  BY DEF Close
<1>2. Framed(wins') /\ DOMAIN wins' = D \ {id}
  BY <1>1, FramedWithout
<1>3. /\ Orders(left, D \ {id})
      /\ \A a : a # id /\ OnTop(a, zorder) => OnTop(a, left)
  BY Dropped
<1>4. ASSUME shown # {} PROVE top \in D \ {id}
  <2>1. left \in Seq(Ids) /\ Len(left) \in Nat
    BY <1>3 DEF Orders
  <2>2. shown \in SUBSET (1..Len(left))
    BY <2>1 DEF Displayed
  <2> HIDE DEF shown, left
  <2>3. Max(shown) \in 1..Len(left)
    BY <1>4, <2>1, <2>2, TopOf
  <2> QED BY <1>3, <2>3 DEF Orders
<1>5. Orders(zorder', D \ {id}) /\ OnTop(active', zorder')
  <2> HIDE DEF D, left, shown, top
  <2>1. CASE active # id /\ zorder' = left /\ active' = active
    BY <1>3, <2>1
  <2>2. CASE active = id /\ shown = {} /\ zorder' = left /\ active' = 0
    BY <1>3, <2>2 DEF OnTop
  <2>3. CASE shown # {} /\ zorder' = ToTop(left, top) /\ active' = top
    BY <1>3, <1>4, <2>3, ToppedUp
  <2> QED BY <1>1, <2>1, <2>2, <2>3
<1>6. Behind(surfaces', D \ {id}, raf)
  <2>1. wins[id].owner = id - 1 /\ id \in Nat
    BY DEF Framed, Ids
  <2>2. surfaces' = [p \in DOMAIN surfaces \ {id - 1} |-> surfaces[p]]
    BY <1>1, <2>1 DEF Without
  <2>3. PICK sf : sf = surfaces'
    OBVIOUS
  <2>4. /\ DOMAIN sf = DOMAIN surfaces \ {id - 1}
        /\ \A p \in DOMAIN sf : p \in DOMAIN surfaces /\ p # id - 1 /\ sf[p] = surfaces[p]
        /\ sf = [p \in DOMAIN sf |-> sf[p]]
    BY <2>2, <2>3
  <2>5. \A p \in DOMAIN sf : p \in Nat /\ WinOf(p) # id
    BY <2>1, <2>4 DEF Behind, WinOf
  <2> QED BY <2>3, <2>4, <2>5 DEF Behind
<1> QED BY <1>2, <1>3, <1>5, <1>6
----------------------------------------------------------------------------
(* What the messages on their way promise.                                 *)

LEMMA KeptAppend ==
  ASSUME NEW due, NEW q, Queue(q), NEW f, NEW g, Kept(due, q, f, g), NEW m
  PROVE  m.type # "write" => Kept(due, Append(q, m), f, g)
<1> DEFINE a == Append(q, m)
<1>1. /\ Len(q) \in Nat /\ Len(a) = Len(q) + 1 /\ a[Len(q) + 1] = m
      /\ \A i \in 1..Len(q) : a[i] = q[i]
  BY Appended
<1> HIDE DEF a
<1>2. ASSUME m.type # "write" PROVE \A i : Writes(a, i) <=> Writes(q, i)
  BY <1>1, <1>2 DEF Writes
<1>3. m.type # "write" => Kept(due, a, f, g)
  <2> SUFFICES ASSUME m.type # "write", ~due PROVE Kept(due, a, f, g)
    BY DEF Kept
  <2>1. CASE \E i : Writes(q, i) /\ q[i].apps = g /\ \A j : Writes(q, j) => j <= i
    <3>1. PICK i : Writes(q, i) /\ q[i].apps = g /\ \A j : Writes(q, j) => j <= i
      BY <2>1
    <3>2. a[i] = q[i]
      BY <1>1, <3>1 DEF Writes
    <3> QED BY <1>2, <3>1, <3>2 DEF Kept
  <2>2. CASE (\A i : ~Writes(q, i)) /\ f = g
    BY <1>2, <2>2 DEF Kept
  <2> QED BY <2>1, <2>2 DEF Kept
<1> QED BY <1>3 DEF a

LEMMA KeptWrite ==
  ASSUME NEW q, Queue(q), NEW m, m.type = "write"
  PROVE  \A due, f : Kept(due, Append(q, m), f, m.apps)
<1> DEFINE a == Append(q, m)
<1>1. /\ Len(q) \in Nat /\ Len(a) = Len(q) + 1 /\ a[Len(q) + 1] = m
  BY Appended
<1> HIDE DEF a
<1>2. Writes(a, Len(q) + 1) /\ a[Len(q) + 1].apps = m.apps
  BY <1>1 DEF Writes
<1>3. \A j : Writes(a, j) => j <= Len(q) + 1
  BY <1>1 DEF Writes
<1> QED BY <1>2, <1>3 DEF Kept, a

\* The kernel worker takes the first call, and writes what a write says.
LEMMA KeptTail ==
  ASSUME NEW due, NEW q, Queue(q), q # <<>>, NEW f, NEW g, Kept(due, q, f, g)
  PROVE  /\ q[1].type # "write" => Kept(due, Tail(q), f, g)
         /\ q[1].type = "write" => Kept(due, Tail(q), q[1].apps, g)
<1> DEFINE a == Tail(q)
<1>1. /\ Len(q) \in Nat \ {0} /\ Len(a) = Len(q) - 1
      /\ \A i \in 1..Len(q) - 1 : a[i] = q[i + 1]
  BY Rest
<1> HIDE DEF a
<1>2. \A i : Writes(a, i) => i \in Nat /\ Writes(q, i + 1)
  BY <1>1 DEF Writes
<1>3. ASSUME NEW i, Writes(q, i), i # 1, q[i].apps = g, \A j : Writes(q, j) => j <= i, NEW h
      PROVE  Kept(due, a, h, g)
  <2> DEFINE k == i - 1
  <2>1. k \in 1..Len(a) /\ a[k] = q[i] /\ k + 1 = i
    BY <1>1, <1>3 DEF Writes
  <2>2. Writes(a, k) /\ a[k].apps = g
    BY <1>3, <2>1 DEF Writes
  <2>3. \A j : Writes(a, j) => j <= k
    <3> SUFFICES ASSUME NEW j, Writes(a, j) PROVE j <= k
      OBVIOUS
    <3>1. j \in Nat /\ j + 1 <= i
      BY <1>2, <1>3
    <3> QED BY <2>1, <3>1
  <2> HIDE DEF k
  <2> QED BY <2>2, <2>3 DEF Kept
<1>4. CASE \E i : Writes(q, i) /\ q[i].apps = g /\ \A j : Writes(q, j) => j <= i
  <2>1. PICK i : Writes(q, i) /\ q[i].apps = g /\ \A j : Writes(q, j) => j <= i
    BY <1>4
  <2>2. CASE i = 1
    <3>1. \A j : ~Writes(a, j)
      <4> SUFFICES ASSUME NEW j, Writes(a, j) PROVE FALSE
        OBVIOUS
      <4>1. j \in 1..Len(a) /\ Len(a) \in Nat
        BY <1>1 DEF Writes
      <4>2. Writes(q, j + 1)
        BY <1>2
      <4>3. j + 1 <= 1
        BY <2>1, <2>2, <4>2
      <4> QED BY <4>1, <4>3
    <3> QED BY <2>1, <2>2, <3>1 DEF Kept, Writes, a
  <2>3. CASE i # 1
    BY <1>3, <2>1, <2>3 DEF a
  <2> QED BY <2>2, <2>3
<1>5. CASE (\A i : ~Writes(q, i)) /\ f = g
  <2>1. \A i : ~Writes(a, i)
    BY <1>2, <1>5
  <2>2. q[1].type # "write"
    BY <1>1, <1>5 DEF Writes
  <2> QED BY <1>5, <2>1, <2>2 DEF Kept, a
<1>6. CASE due
  BY <1>6 DEF Kept
<1> QED BY <1>4, <1>5, <1>6 DEF Kept

LEMMA ClosingAppend ==
  ASSUME NEW q, Queue(q), NEW pr, NEW closed, Closing(q, pr, closed), NEW m
  PROVE  /\ Closing(Append(q, m), pr, closed)
         /\ \A p \in DOMAIN pr : m = [type |-> "kill", pid |-> p] =>
                                   Closing(Append(q, m), pr, closed \cup {p})
<1> DEFINE a == Append(q, m)
<1>1. /\ Len(q) \in Nat /\ Len(a) = Len(q) + 1 /\ a[Len(q) + 1] = m
      /\ \A i \in 1..Len(q) : a[i] = q[i]
  BY Appended
<1> HIDE DEF a
<1>2. \A i, p : Kills(q, i, p) => Kills(a, i, p)
  BY <1>1 DEF Kills
<1>3. Closing(a, pr, closed)
  BY <1>2 DEF Closing
<1>4. ASSUME NEW p \in DOMAIN pr, m = [type |-> "kill", pid |-> p]
      PROVE  Closing(a, pr, closed \cup {p})
  <2>1. Kills(a, Len(q) + 1, p)
    BY <1>1, <1>4 DEF Kills
  <2> QED BY <1>3, <2>1 DEF Closing
<1> QED BY <1>3, <1>4 DEF a

LEMMA ClosingTail ==
  ASSUME NEW q, Queue(q), q # <<>>, NEW pr, NEW closed, Closing(q, pr, closed),
         q[1].type = "kill" /\ q[1].pid \in DOMAIN pr => pr[q[1].pid] = "dead"
  PROVE  Closing(Tail(q), pr, closed)
<1> DEFINE a == Tail(q)
<1>1. /\ Len(q) \in Nat \ {0} /\ Len(a) = Len(q) - 1
      /\ \A i \in 1..Len(q) - 1 : a[i] = q[i + 1]
  BY Rest
<1> HIDE DEF a
<1> SUFFICES ASSUME NEW p \in closed
             PROVE  p \in DOMAIN pr /\ (pr[p] = "dead" \/ \E i : Kills(a, i, p))
  BY DEF Closing, a
<1>2. CASE \E i : Kills(q, i, p)
  <2>1. PICK i : Kills(q, i, p)
    BY <1>2
  <2>2. CASE i = 1
    BY <2>1, <2>2 DEF Kills, Closing
  <2>3. CASE i # 1
    <3> DEFINE k == i - 1
    <3>1. k \in 1..Len(a) /\ a[k] = q[i]
      BY <1>1, <2>1, <2>3 DEF Kills
    <3>2. Kills(a, k, p)
      BY <2>1, <3>1 DEF Kills
    <3> QED BY <3>2 DEF Closing
  <2> QED BY <2>2, <2>3
<1> QED BY <1>2 DEF Closing

\* A message that neither ends a process nor shows its surface tells nothing of either.
LEMMA ToldOther ==
  ASSUME NEW q, Queue(q), NEW pr, NEW D, Told(q, pr, D), Owned(q, pr, D), NEW m,
         m.type \notin {"exit", "surface"}
  PROVE  Told(Append(q, m), pr, D) /\ Owned(Append(q, m), pr, D)
<1> DEFINE a == Append(q, m)
<1>1. /\ Len(q) \in Nat /\ Len(a) = Len(q) + 1 /\ a[Len(q) + 1] = m
      /\ \A i \in 1..Len(q) : a[i] = q[i]
  BY Appended
<1> HIDE DEF a
<1>2. \A i, p : Exits(a, i, p) <=> Exits(q, i, p)
  BY <1>1 DEF Exits
<1>3. \A i, p : Shows(a, i, p) <=> Shows(q, i, p)
  BY <1>1 DEF Shows
<1>4. \A i, p : Shows(q, i, p) => a[i] = q[i]
  BY <1>1 DEF Shows
<1>5. Told(a, pr, D)
  BY <1>2, <1>3, <1>4 DEF Told
<1>6. Owned(a, pr, D)
  BY <1>2 DEF Owned
<1> QED BY <1>5, <1>6 DEF a

\* The first message leaves: what the others say.
LEMMA RestSays ==
  ASSUME NEW q, Queue(q), q # <<>>
  PROVE  /\ \A i, p : Exits(Tail(q), i, p) => i \in Nat /\ i > 0 /\ Exits(q, i + 1, p)
         /\ \A i, p : Shows(Tail(q), i, p) => /\ i \in Nat /\ i > 0 /\ Shows(q, i + 1, p)
                                              /\ Tail(q)[i] = q[i + 1]
         /\ \A i, p : Exits(q, i, p) /\ i # 1 => i - 1 \in Nat /\ Exits(Tail(q), i - 1, p)
         /\ \A i, p : Exits(q, i, p) => i \in Nat
<1> DEFINE a == Tail(q)
<1>1. /\ Len(q) \in Nat \ {0} /\ Len(a) = Len(q) - 1
      /\ \A i \in 1..Len(q) - 1 : a[i] = q[i + 1]
  BY Rest
<1> HIDE DEF a
<1>2. \A i, p : Exits(a, i, p) => i \in Nat /\ i > 0 /\ Exits(q, i + 1, p)
  BY <1>1 DEF Exits
<1>3. \A i, p : Shows(a, i, p) => i \in Nat /\ i > 0 /\ Shows(q, i + 1, p) /\ a[i] = q[i + 1]
  BY <1>1 DEF Shows
<1>4. ASSUME NEW i, NEW p, Exits(q, i, p), i # 1 PROVE i - 1 \in Nat /\ Exits(a, i - 1, p)
  <2> DEFINE k == i - 1
  <2>1. k \in 1..Len(a) /\ a[k] = q[i] /\ k \in Nat
    BY <1>1, <1>4 DEF Exits
  <2>2. Exits(a, k, p)
    BY <1>4, <2>1 DEF Exits
  <2> QED BY <2>1, <2>2
<1>5. \A i, p : Exits(q, i, p) => i \in Nat
  BY <1>1 DEF Exits
<1> QED BY <1>2, <1>3, <1>4, <1>5 DEF a

\* Whatever it was, what is told stays told once, and of a surface before the end.
LEMMA ToldTail ==
  ASSUME NEW q, Queue(q), q # <<>>, NEW pr, NEW D, Told(q, pr, D)
  PROVE  /\ Told(Tail(q), pr, D)
         /\ \A i, j, p : Shows(Tail(q), i, p) => ~Shows(q, 1, p)
         /\ \A i, j, p : Exits(q, 1, p) => ~Exits(Tail(q), i, p) /\ ~Shows(Tail(q), j, p)
<1> DEFINE a == Tail(q)
<1>1. /\ \A i, p : Exits(a, i, p) => i \in Nat /\ i > 0 /\ Exits(q, i + 1, p)
      /\ \A i, p : Shows(a, i, p) => i \in Nat /\ i > 0 /\ Shows(q, i + 1, p) /\ a[i] = q[i + 1]
      /\ \A i, p : Exits(q, i, p) /\ i # 1 => i - 1 \in Nat /\ Exits(a, i - 1, p)
      /\ \A i, p : Exits(q, i, p) => i \in Nat
  BY RestSays
<1> HIDE DEF a
<1>2. ASSUME NEW p, NEW i, NEW j, Exits(a, i, p), Exits(a, j, p) PROVE i = j
  <2>1. i \in Nat /\ j \in Nat /\ i + 1 = j + 1
    BY <1>1, <1>2 DEF Told
  <2> QED BY <2>1
<1>3. ASSUME NEW p, NEW i, NEW j, Shows(a, i, p), Shows(a, j, p) PROVE i = j
  <2>1. i \in Nat /\ j \in Nat /\ i + 1 = j + 1
    BY <1>1, <1>3 DEF Told
  <2> QED BY <2>1
<1>4. ASSUME NEW p, NEW i, Shows(a, i, p)
      PROVE  /\ p \in DOMAIN pr /\ WinOf(p) \notin D /\ a[i].win = WinOf(p)
             /\ (Alive(pr, p) \/ \E j : Exits(a, j, p) /\ i < j)
             /\ ~Shows(q, 1, p) /\ ~Exits(q, 1, p)
  <2>1. i \in Nat /\ i > 0 /\ Shows(q, i + 1, p) /\ a[i] = q[i + 1]
    BY <1>1, <1>4
  <2>2. p \in DOMAIN pr /\ WinOf(p) \notin D /\ a[i].win = WinOf(p)
    BY <2>1 DEF Told
  <2>3. ASSUME ~Alive(pr, p) PROVE (\E j : Exits(a, j, p) /\ i < j) /\ ~Exits(q, 1, p)
    <3>1. PICK j : Exits(q, j, p) /\ i + 1 < j
      BY <2>1, <2>3 DEF Told
    <3>2. j # 1 /\ j - 1 \in Nat /\ Exits(a, j - 1, p) /\ i < j - 1 /\ j \in Nat
      BY <1>1, <2>1, <3>1
    <3>3. ~Exits(q, 1, p)
      BY <3>1, <3>2 DEF Told
    <3> QED BY <3>2, <3>3
  <2>4. Alive(pr, p) => ~Exits(q, 1, p)
    BY DEF Told
  <2>5. ~Shows(q, 1, p)
    <3>1. Shows(q, 1, p) => i + 1 = 1
      BY <2>1 DEF Told
    <3> QED BY <2>1, <3>1
  <2> QED BY <2>2, <2>3, <2>4, <2>5
<1>5. ASSUME NEW p, NEW i, Exits(q, 1, p) PROVE ~Exits(a, i, p)
  <2>1. Exits(a, i, p) => i \in Nat /\ i > 0 /\ i + 1 = 1
    BY <1>1, <1>5 DEF Told
  <2> QED BY <2>1
<1>6. \A p, i : Exits(a, i, p) => p \in DOMAIN pr /\ ~Alive(pr, p)
  BY <1>1 DEF Told
<1>7. Told(a, pr, D)
  BY <1>2, <1>3, <1>4, <1>6 DEF Told
<1> QED BY <1>4, <1>5, <1>7 DEF a

LEMMA OwnedTail ==
  ASSUME NEW q, Queue(q), q # <<>>, NEW pr, NEW D, Owned(q, pr, D),
         NEW E \in SUBSET D, \A id \in E : ~Exits(q, 1, id - 1)
  PROVE  Owned(Tail(q), pr, E)
<1> DEFINE a == Tail(q)
<1>1. \A i, p : Exits(q, i, p) /\ i # 1 => Exits(a, i - 1, p)
  BY RestSays
<1> HIDE DEF a
<1>2. ASSUME NEW id \in E \ {1}
      PROVE  /\ id - 1 \in DOMAIN pr
             /\ (Alive(pr, id - 1) \/ \E i : Exits(a, i, id - 1))
  <2>1. id \in D \ {1}
    OBVIOUS
  <2>2. CASE \E i : Exits(q, i, id - 1)
    <3>1. PICK i : Exits(q, i, id - 1)
      BY <2>2
    <3>2. i # 1
      BY <3>1
    <3> QED BY <1>1, <2>1, <3>1, <3>2 DEF Owned
  <2> QED BY <2>1, <2>2 DEF Owned
<1> QED BY <1>2 DEF Owned, a

\* A process ends, in the kernel worker.
EndOf(p) == [type |-> "exit", pid |-> p]
Ended(pr, p) == [pr EXCEPT ![p] = "dead"]
LEMMA Dies ==
  ASSUME NEW q, Queue(q), NEW pr, Listed(pr), NEW D, Told(q, pr, D), Owned(q, pr, D),
         NEW p, Alive(pr, p)
  PROVE  /\ Listed(Ended(pr, p)) /\ Ended(pr, p)[p] = "dead"
         /\ Told(Append(q, EndOf(p)), Ended(pr, p), D)
         /\ Owned(Append(q, EndOf(p)), Ended(pr, p), D)
         /\ \A ob, closed : Closing(ob, pr, closed) => Closing(ob, Ended(pr, p), closed)
<1> SUFFICES ASSUME NEW m, m.type = "exit" /\ m.pid = p, NEW ps, ps = [pr EXCEPT ![p] = "dead"]
             PROVE  /\ Listed(ps) /\ ps[p] = "dead" /\ Told(Append(q, m), ps, D)
                    /\ Owned(Append(q, m), ps, D)
                    /\ \A ob, closed : Closing(ob, pr, closed) => Closing(ob, ps, closed)
  <2>1. PICK m, ps : m = EndOf(p) /\ ps = Ended(pr, p)
    OBVIOUS
  <2>2. m.type = "exit" /\ m.pid = p /\ ps = [pr EXCEPT ![p] = "dead"]
    BY <2>1 DEF EndOf, Ended
  <2> QED BY <2>1, <2>2
<1> DEFINE a == Append(q, m)
<1>1. /\ Len(q) \in Nat /\ Len(a) = Len(q) + 1 /\ a[Len(q) + 1] = m
      /\ \A i \in 1..Len(q) : a[i] = q[i]
  BY Appended
<1> HIDE DEF a
<1>2. /\ DOMAIN ps = DOMAIN pr /\ ps[p] = "dead" /\ p \in DOMAIN pr
      /\ \A r \in DOMAIN pr : r # p => ps[r] = pr[r]
  BY DEF Alive, Listed
<1>3. Listed(ps)
  <2>1. PICK n \in Nat : /\ DOMAIN pr = 1..n /\ pr = [r \in 1..n |-> pr[r]]
                         /\ \A r \in 1..n : pr[r] \in {"live", "dead"}
    BY DEF Listed
  <2>2. ps = [r \in 1..n |-> ps[r]] /\ \A r \in 1..n : ps[r] \in {"live", "dead"}
    BY <1>2, <2>1
  <2> QED BY <1>2, <2>1, <2>2 DEF Listed
<1>4. \A r : Alive(ps, r) <=> Alive(pr, r) /\ r # p
  BY <1>2 DEF Alive
<1>5. \A i, r : Exits(a, i, r) <=> Exits(q, i, r) \/ (i = Len(q) + 1 /\ r = p)
  BY <1>1 DEF Exits
<1>6. \A i, r : Shows(a, i, r) <=> Shows(q, i, r)
  BY <1>1 DEF Shows
<1>7. \A i : ~Exits(q, i, p)
  BY DEF Told
<1>8. \A i, r : Shows(q, i, r) => a[i] = q[i] /\ i < Len(q) + 1
  BY <1>1 DEF Shows
<1>9. Told(a, ps, D)
  <2>1. \A r, i, j : Exits(a, i, r) /\ Exits(a, j, r) => i = j
    BY <1>5, <1>7 DEF Told
  <2>2. ASSUME NEW r, NEW i, Exits(a, i, r) PROVE r \in DOMAIN ps /\ ~Alive(ps, r)
    <3>1. CASE r = p
      BY <1>2, <1>4, <3>1
    <3>2. CASE r # p
      <4>1. Exits(q, i, r)
        BY <1>5, <2>2, <3>2
      <4> QED BY <1>2, <1>4, <4>1 DEF Told
    <3> QED BY <3>1, <3>2
  <2>3. \A r, i, j : Shows(a, i, r) /\ Shows(a, j, r) => i = j
    BY <1>6 DEF Told
  <2>4. ASSUME NEW r, NEW i, Shows(a, i, r)
        PROVE  /\ r \in DOMAIN ps /\ WinOf(r) \notin D /\ a[i].win = WinOf(r)
               /\ (Alive(ps, r) \/ \E j : Exits(a, j, r) /\ i < j)
    <3>1. r \in DOMAIN ps /\ WinOf(r) \notin D /\ a[i].win = WinOf(r)
      BY <1>2, <1>6, <1>8, <2>4 DEF Told
    <3>2. CASE r = p
      BY <1>5, <1>6, <1>8, <2>4, <3>1, <3>2
    <3>3. CASE r # p
      BY <1>4, <1>5, <1>6, <2>4, <3>1, <3>3 DEF Told
    <3> QED BY <3>2, <3>3
  <2> QED BY <2>1, <2>2, <2>3, <2>4 DEF Told
<1>10. Owned(a, ps, D)
  <2> SUFFICES ASSUME NEW id \in D \ {1}
               PROVE  /\ id - 1 \in DOMAIN ps
                      /\ (Alive(ps, id - 1) \/ \E i : Exits(a, i, id - 1))
    BY DEF Owned
  <2>1. PICK r : r = id - 1
    OBVIOUS
  <2>2. r \in DOMAIN pr /\ (Alive(pr, r) \/ \E i : Exits(q, i, r))
    BY <2>1 DEF Owned
  <2>3. CASE r = p
    BY <1>2, <1>5, <2>1, <2>3
  <2>4. CASE r # p
    BY <1>2, <1>4, <1>5, <2>1, <2>2, <2>4
  <2> QED BY <2>3, <2>4
<1>11. \A ob, closed : Closing(ob, pr, closed) => Closing(ob, ps, closed)
  BY <1>2 DEF Closing
<1> QED BY <1>2, <1>3, <1>9, <1>10, <1>11 DEF a

\* A live process shows its surface.
LEMMA ShowsUp ==
  ASSUME NEW q, Queue(q), NEW pr, NEW D, Told(q, pr, D), Owned(q, pr, D),
         NEW p, Alive(pr, p), WinOf(p) \notin D, \A i : ~Shows(q, i, p),
         NEW m, m.type = "surface" /\ m.pid = p /\ m.win = WinOf(p)
  PROVE  Told(Append(q, m), pr, D) /\ Owned(Append(q, m), pr, D)
<1> DEFINE a == Append(q, m)
<1>1. /\ Len(q) \in Nat /\ Len(a) = Len(q) + 1 /\ a[Len(q) + 1] = m
      /\ \A i \in 1..Len(q) : a[i] = q[i]
  BY Appended
<1> HIDE DEF a
<1>2. \A i, r : Exits(a, i, r) <=> Exits(q, i, r)
  BY <1>1 DEF Exits
<1>3. \A i, r : Shows(a, i, r) <=> Shows(q, i, r) \/ (i = Len(q) + 1 /\ r = p)
  BY <1>1 DEF Shows
<1>4. \A i, r : Shows(q, i, r) => a[i] = q[i]
  BY <1>1 DEF Shows
<1>5. \A r, i, j : Shows(a, i, r) /\ Shows(a, j, r) => i = j
  BY <1>3 DEF Told
<1>6. \A r, i : Shows(a, i, r) => /\ r \in DOMAIN pr /\ WinOf(r) \notin D /\ a[i].win = WinOf(r)
                                  /\ (Alive(pr, r) \/ \E j : Exits(a, j, r) /\ i < j)
  BY <1>1, <1>2, <1>3, <1>4 DEF Told, Alive
<1>7. Told(a, pr, D)
  BY <1>2, <1>5, <1>6 DEF Told
<1>8. Owned(a, pr, D)
  BY <1>2 DEF Owned
<1> QED BY <1>7, <1>8 DEF a

\* A process is started.
LEMMA Born ==
  ASSUME NEW q, NEW pr, Listed(pr), NEW D, Told(q, pr, D), Owned(q, pr, D),
         NEW ob, NEW closed, Closing(ob, pr, closed),
         NEW ps, ps = With(pr, Cardinality(DOMAIN pr) + 1, "live")
  PROVE  Listed(ps) /\ Told(q, ps, D) /\ Owned(q, ps, D) /\ Closing(ob, ps, closed)
<1>1. PICK n \in Nat : /\ DOMAIN pr = 1..n /\ pr = [r \in 1..n |-> pr[r]]
                       /\ \A r \in 1..n : pr[r] \in {"live", "dead"}
  BY DEF Listed
<1>2. Cardinality(DOMAIN pr) = n
  <2>1. Cardinality(1..n) = IF 1 > n THEN 0 ELSE n - 1 + 1
    BY FS_Interval
  <2> QED BY <1>1, <2>1
<1>3. ps = [r \in DOMAIN pr \cup {n + 1} |-> IF r = n + 1 THEN "live" ELSE pr[r]]
  BY <1>2 DEF With
<1>4. DOMAIN pr \cup {n + 1} = 1..n + 1
  <2>1. DOMAIN pr = 1..n
    BY <1>1
  <2>2. 1..n \cup {n + 1} = 1..n + 1
    OBVIOUS
  <2> QED BY <2>1, <2>2
<1>5. /\ DOMAIN ps = 1..n + 1 /\ ps = [r \in 1..n + 1 |-> ps[r]]
      /\ \A r \in DOMAIN pr : r \in DOMAIN ps /\ ps[r] = pr[r]
      /\ \A r \in 1..n + 1 : ps[r] \in {"live", "dead"}
  <2>1. PICK d : d = 1..n + 1
    OBVIOUS
  <2>2. DOMAIN ps = d /\ ps = [r \in d |-> ps[r]]
    BY <1>3, <1>4, <2>1
  <2>3. \A r \in d : ps[r] = IF r = n + 1 THEN "live" ELSE pr[r]
    BY <1>3, <1>4, <2>1
  <2>4. \A r \in DOMAIN pr : r \in d /\ r # n + 1 /\ pr[r] \in {"live", "dead"}
    BY <1>1, <1>4, <2>1
  <2>5. \A r \in d : r = n + 1 \/ r \in DOMAIN pr
    BY <1>4, <2>1
  <2>6. \A r \in d : ps[r] \in {"live", "dead"}
    BY <2>3, <2>4, <2>5
  <2> QED BY <2>1, <2>2, <2>3, <2>4, <2>6
<1>6. Listed(ps)
  <2>1. PICK m : m = n + 1
    OBVIOUS
  <2>2. m \in Nat /\ DOMAIN ps = 1..m
    BY <1>5, <2>1
  <2>3. ps = [r \in 1..m |-> ps[r]] /\ \A r \in 1..m : ps[r] \in {"live", "dead"}
    BY <1>5, <2>1
  <2> QED BY <2>2, <2>3 DEF Listed
<1>7. \A r \in DOMAIN pr : r \in DOMAIN ps /\ (Alive(ps, r) <=> Alive(pr, r))
  BY <1>5 DEF Alive
<1>8. Told(q, ps, D)
  BY <1>7 DEF Told
<1>9. Owned(q, ps, D)
  BY <1>7 DEF Owned
<1>10. Closing(ob, ps, closed)
  BY <1>5 DEF Closing
<1> QED BY <1>6, <1>8, <1>9, <1>10
----------------------------------------------------------------------------
(* The user's steps.                                                       *)

\* Whatever changes a window leaves a save to come, or a change that was missed.
LEMMA Due ==
  ASSUME Changed, timer \in BOOLEAN, missed \in BOOLEAN
  PROVE  timer' \in BOOLEAN /\ missed' \in BOOLEAN /\ (timer' \/ missed')
BY DEF Changed

LEMMA Touched ==
  ASSUME DeskInv, Changed, Framed(wins'), DOMAIN wins' = DOMAIN wins,
         Orders(zorder', DOMAIN wins), OnTop(active', zorder'),
         UNCHANGED <<surfaces, raf, outbox, inbox, procs, file, shut>>
  PROVE  DeskInv'
<1>1. timer' \in BOOLEAN /\ missed' \in BOOLEAN /\ (timer' \/ missed')
  BY Due DEF DeskInv
<1>2. Kept(timer' \/ missed', outbox', file', Tagged(DOMAIN wins)')
  BY <1>1 DEF Kept
<1>3. DOMAIN (wins') = DOMAIN wins
  OBVIOUS
<1> QED BY <1>1, <1>2, <1>3 DEF DeskInv

LEMMA FocusKeeps ==
  ASSUME DeskInv, NEW id, FocusWindow(id)
  PROVE  DeskInv'
<1>1. /\ id \in DOMAIN wins /\ wins' = Raised(wins, id) /\ zorder' = ToTop(zorder, id)
      /\ active' = id /\ Changed /\ UNCHANGED <<surfaces, raf, outbox, inbox, procs, file, shut>>
  BY DEF FocusWindow, kernelVars
<1>2. Framed(wins') /\ DOMAIN wins' = DOMAIN wins
  BY <1>1, FramedRaised DEF DeskInv
<1>3. Orders(zorder', DOMAIN wins) /\ OnTop(active', zorder')
  BY <1>1, ToppedUp DEF DeskInv
<1> QED BY <1>1, <1>2, <1>3, Touched

LEMMA MinimizeKeeps ==
  ASSUME DeskInv, NEW id, Minimize(id)
  PROVE  DeskInv'
<1>1. /\ id \in DOMAIN wins /\ wins' = [wins EXCEPT ![id].state = "minimized"]
      /\ zorder' = zorder /\ active' = active
      /\ Changed /\ UNCHANGED <<surfaces, raf, outbox, inbox, procs, file, shut>>
  BY DEF Minimize, kernelVars
<1>2. PICK w : w = [wins[id] EXCEPT !.state = "minimized"]
  OBVIOUS
<1>3. WinRec(wins[id]) /\ wins[id].owner = id - 1 /\ "minimized" \in States
  BY <1>1 DEF DeskInv, Framed, States
<1>4. WinRec(w) /\ w.owner = id - 1
  BY <1>2, <1>3, Fields
<1>5. wins' = [wins EXCEPT ![id] = w]
  BY <1>1, <1>2
<1>6. Framed([wins EXCEPT ![id] = w]) /\ DOMAIN [wins EXCEPT ![id] = w] = DOMAIN wins
  <2>1. Framed(wins) /\ id \in DOMAIN wins
    BY <1>1 DEF DeskInv
  <2> QED BY <1>4, <2>1, FramedChanged
<1>7. Framed(wins') /\ DOMAIN wins' = DOMAIN wins
  BY <1>5, <1>6
<1> QED BY <1>1, <1>7, Touched DEF DeskInv

LEMMA MaximizeKeeps ==
  ASSUME DeskInv, NEW id, ToggleMaximize(id)
  PROVE  DeskInv'
<1>1. PICK w : w = IF wins[id].state = "maximized"
                   THEN [wins[id] EXCEPT !.geom = wins[id].prev, !.state = "normal"]
                   ELSE [wins[id] EXCEPT !.prev = wins[id].geom, !.state = "maximized",
                                         !.geom = "full"]
  OBVIOUS
<1>2. /\ id \in DOMAIN wins /\ wins' = [wins EXCEPT ![id] = w]
      /\ zorder' = zorder /\ active' = active
      /\ Changed /\ UNCHANGED <<surfaces, raf, outbox, inbox, procs, file, shut>>
  BY <1>1 DEF ToggleMaximize, kernelVars
<1>3. WinRec(wins[id]) /\ wins[id].owner = id - 1
  BY <1>2 DEF DeskInv, Framed
<1>4. WinRec(w) /\ w.owner = id - 1
  BY <1>1, <1>3 DEF WinRec, States
<1>5. Framed(wins') /\ DOMAIN wins' = DOMAIN wins
  BY <1>2, <1>4, FramedChanged DEF DeskInv
<1> QED BY <1>2, <1>5, Touched DEF DeskInv

LEMMA DragKeeps ==
  ASSUME DeskInv, NEW id, Drag(id)
  PROVE  DeskInv'
<1>1. /\ id \in DOMAIN wins /\ wins' = [Raised(wins, id) EXCEPT ![id].geom = "moved"]
      /\ zorder' = ToTop(zorder, id)
      /\ active' = id /\ Changed /\ UNCHANGED <<surfaces, raf, outbox, inbox, procs, file, shut>>
  BY DEF Drag, kernelVars
<1>2. PICK ws : ws = Raised(wins, id)
  OBVIOUS
<1>3. Framed(ws) /\ DOMAIN ws = DOMAIN wins
  BY <1>1, <1>2, FramedRaised DEF DeskInv
<1>4. PICK w : w = [ws[id] EXCEPT !.geom = "moved"]
  OBVIOUS
<1>5. WinRec(ws[id]) /\ ws[id].owner = id - 1
  BY <1>1, <1>3 DEF Framed
<1>6. WinRec(w) /\ w.owner = id - 1
  BY <1>4, <1>5, Fields
<1>7. wins' = [ws EXCEPT ![id] = w]
  BY <1>1, <1>2, <1>4
<1>8. Framed(wins') /\ DOMAIN wins' = DOMAIN wins
  <2>1. Framed([ws EXCEPT ![id] = w]) /\ DOMAIN [ws EXCEPT ![id] = w] = DOMAIN ws
    <3>1. id \in DOMAIN ws
      BY <1>1, <1>3
    <3> QED BY <1>3, <1>6, <3>1, FramedChanged
  <2> QED BY <1>3, <1>7, <2>1
<1>9. Orders(zorder', DOMAIN wins) /\ OnTop(active', zorder')
  BY <1>1, ToppedUp DEF DeskInv
<1> QED BY <1>1, <1>8, <1>9, Touched

LEMMA UserCloseKeeps ==
  ASSUME DeskInv, NEW id, UserClose(id)
  PROVE  DeskInv'
<1>1. /\ id \in DOMAIN wins \ {1} /\ Close(id) /\ Changed
      /\ shut' = shut \cup {wins[id].owner}
      /\ outbox' = Append(outbox, [type |-> "kill", pid |-> wins[id].owner])
      /\ UNCHANGED <<raf, inbox, procs, file>>
  BY DEF UserClose, kernelVars, Terminal
<1>2. /\ DOMAIN wins' = DOMAIN wins \ {id}
      /\ Framed(wins') /\ Orders(zorder', DOMAIN wins \ {id}) /\ OnTop(active', zorder')
      /\ Behind(surfaces', DOMAIN wins \ {id}, raf)
  BY <1>1, Closed DEF DeskInv
<1>3. timer' \in BOOLEAN /\ missed' \in BOOLEAN /\ (timer' \/ missed')
  BY <1>1, Due DEF DeskInv
<1>4. Kept(timer' \/ missed', outbox', file', Tagged(DOMAIN wins)')
  BY <1>3 DEF Kept
<1>5. PICK p : p = wins[id].owner
  OBVIOUS
<1>6. p \in DOMAIN procs
  BY <1>1, <1>5 DEF DeskInv, Framed, Owned
<1>7. Queue(outbox') /\ Closing(outbox', procs, shut')
  BY <1>1, <1>5, <1>6, Appended, ClosingAppend DEF DeskInv
<1>8. Told(inbox, procs, DOMAIN wins \ {id}) /\ Owned(inbox, procs, DOMAIN wins \ {id})
  BY DEF DeskInv, Told, Owned
<1>9. 1 \in DOMAIN wins \ {id}
  BY <1>1 DEF DeskInv
<1>10. /\ Queue(inbox') /\ raf' \in BOOLEAN /\ Listed(procs')
       /\ Behind(surfaces', DOMAIN wins \ {id}, raf')
       /\ Told(inbox', procs', DOMAIN wins \ {id}) /\ Owned(inbox', procs', DOMAIN wins \ {id})
       /\ Closing(outbox', procs', shut')
  BY <1>1, <1>2, <1>7, <1>8 DEF DeskInv
<1> QED BY <1>2, <1>3, <1>4, <1>7, <1>9, <1>10 DEF DeskInv
----------------------------------------------------------------------------
(* The main thread's steps.                                                *)

\* Nothing happens to a window, and what is posted is no write.
LEMMA MainStep ==
  ASSUME DeskInv, UNCHANGED <<winVars, timer, missed, winApp, procs, file, shut>>,
         Queue(inbox'), Told(inbox', procs, DOMAIN wins), Owned(inbox', procs, DOMAIN wins),
         outbox' = outbox \/ \E m : m.type # "write" /\ outbox' = Append(outbox, m),
         raf' \in BOOLEAN, Behind(surfaces', DOMAIN wins, raf')
  PROVE  DeskInv'
<1>1. UNCHANGED <<wins, zorder, active>> /\ Tagged(DOMAIN wins)' = Tagged(DOMAIN wins)
  BY DEF winVars, Tagged
<1>2. PICK due : due = (timer \/ missed)
  OBVIOUS
<1>3. Kept(due, outbox, file, Tagged(DOMAIN wins)) /\ Queue(outbox) /\ Closing(outbox, procs, shut)
  BY <1>2 DEF DeskInv
<1>4. /\ Queue(outbox') /\ Closing(outbox', procs, shut)
      /\ Kept(due, outbox', file, Tagged(DOMAIN wins))
  <2>1. CASE outbox' = outbox
    BY <1>3, <2>1
  <2>2. CASE \E m : m.type # "write" /\ outbox' = Append(outbox, m)
    <3>1. PICK m : m.type # "write" /\ outbox' = Append(outbox, m)
      BY <2>2
    <3> QED BY <1>3, <3>1, Appended, ClosingAppend, KeptAppend
  <2> QED BY <2>1, <2>2
<1>5. Kept(timer' \/ missed', outbox', file', Tagged(DOMAIN wins)')
  BY <1>1, <1>2, <1>4
<1> QED BY <1>1, <1>4, <1>5 DEF DeskInv

LEMMA LauncherKeeps ==
  ASSUME DeskInv, NEW app, LauncherClick(app)
  PROVE  DeskInv'
<1>1. /\ UNCHANGED <<winVars, timer, missed, winApp, procs, file, shut, inbox, surfaces, raf>>
      /\ outbox' = Append(outbox, Spawn(app, FALSE)) /\ Spawn(app, FALSE).type # "write"
  BY DEF LauncherClick, sessionVars, kernelVars, Spawn
<1> QED BY <1>1, MainStep DEF DeskInv

LEMMA RestoreKeeps ==
  ASSUME DeskInv, StartRestore
  PROVE  DeskInv'
<1>1. PICK m : m = [type |-> "read"]
  OBVIOUS
<1>2. /\ UNCHANGED <<winVars, timer, missed, winApp, procs, file, shut, inbox, surfaces, raf>>
      /\ outbox' = Append(outbox, m) /\ m.type # "write"
  BY <1>1 DEF StartRestore, Unopened, Unhurried, kernelVars
<1> QED BY <1>2, MainStep DEF DeskInv

\* launch() posts a spawn, or nothing.
LEMMA LaunchPosts ==
  ASSUME NEW left, LaunchNext(left)
  PROVE  outbox' = outbox \/ \E m : m.type # "write" /\ outbox' = Append(outbox, m)
<1>1. CASE outbox' = Append(outbox, Spawn(Head(left).app, TRUE))
  <2>1. PICK m : m = Spawn(Head(left).app, TRUE)
    OBVIOUS
  <2>2. m.type # "write"
    BY <2>1 DEF Spawn
  <2> QED BY <1>1, <2>1, <2>2
<1> QED BY <1>1 DEF LaunchNext

\* A message that is not of an end or of a surface is taken from the queue.
LEMMA Taken ==
  ASSUME DeskInv, NEW type, Received(type)
  PROVE  /\ inbox # <<>> /\ inbox[1].type = type /\ Head(inbox) = inbox[1]
         /\ inbox' = Tail(inbox) /\ Queue(inbox') /\ Len(inbox) \in Nat \ {0}
         /\ Told(inbox', procs, DOMAIN wins)
         /\ type # "exit" => Owned(inbox', procs, DOMAIN wins)
<1>1. inbox # <<>> /\ Head(inbox).type = type /\ inbox' = Tail(inbox)
  BY DEF Received
<1>2. /\ Queue(inbox') /\ Len(inbox) \in Nat \ {0} /\ Head(inbox) = inbox[1]
      /\ Told(inbox', procs, DOMAIN wins)
  BY <1>1, Rest, ToldTail DEF DeskInv
<1>3. ASSUME type # "exit" PROVE Owned(inbox', procs, DOMAIN wins)
  <2>1. \A id \in DOMAIN wins : ~Exits(inbox, 1, id - 1)
    BY <1>1, <1>2, <1>3 DEF Exits
  <2> QED BY <1>1, <2>1, OwnedTail DEF DeskInv
<1> QED BY <1>1, <1>2, <1>3

LEMMA SessionReadKeeps ==
  ASSUME DeskInv, SessionRead
  PROVE  DeskInv'
<1>1. /\ UNCHANGED <<winVars, timer, missed, winApp, procs, file, shut, surfaces, raf>>
      /\ LaunchNext(Head(inbox).apps) /\ Received("session")
  BY DEF SessionRead, Unopened, Unhurried, kernelVars
<1>2. outbox' = outbox \/ \E m : m.type # "write" /\ outbox' = Append(outbox, m)
  BY <1>1, LaunchPosts
<1>3. Queue(inbox') /\ Told(inbox', procs, DOMAIN wins) /\ Owned(inbox', procs, DOMAIN wins)
  BY <1>1, Taken
<1> QED BY <1>1, <1>2, <1>3, MainStep DEF DeskInv

LEMMA SpawnedKeeps ==
  ASSUME DeskInv, Spawned
  PROVE  DeskInv'
<1>1. /\ UNCHANGED <<winVars, timer, missed, winApp, procs, file, shut, surfaces, raf>>
      /\ (LaunchNext(todo) \/ outbox' = outbox) /\ Received("spawned")
  BY DEF Spawned, Unopened, Unhurried, kernelVars
<1>2. outbox' = outbox \/ \E m : m.type # "write" /\ outbox' = Append(outbox, m)
  BY <1>1, LaunchPosts
<1>3. Queue(inbox') /\ Told(inbox', procs, DOMAIN wins) /\ Owned(inbox', procs, DOMAIN wins)
  BY <1>1, Taken
<1> QED BY <1>1, <1>2, <1>3, MainStep DEF DeskInv

LEMMA SpawnFailedKeeps ==
  ASSUME DeskInv, SpawnFailed
  PROVE  DeskInv'
<1>1. /\ UNCHANGED <<winVars, timer, missed, winApp, procs, file, shut, surfaces, raf, outbox>>
      /\ Received("failed")
  BY DEF SpawnFailed, Unopened, Unhurried, kernelVars, sessionVars
<1>2. Queue(inbox') /\ Told(inbox', procs, DOMAIN wins) /\ Owned(inbox', procs, DOMAIN wins)
  BY <1>1, Taken
<1> QED BY <1>1, <1>2, MainStep DEF DeskInv

LEMMA PresentedKeeps ==
  ASSUME DeskInv, Presented
  PROVE  DeskInv'
<1>1. /\ UNCHANGED <<winVars, timer, missed, winApp, procs, file, shut, outbox>>
      /\ Received("present")
      /\ \/ UNCHANGED <<surfaces, raf>>
         \/ \E p \in DOMAIN surfaces :
               surfaces' = [surfaces EXCEPT ![p].dirty = TRUE] /\ raf' = TRUE
  BY DEF Presented, Unhurried, kernelVars, sessionVars
<1>2. Queue(inbox') /\ Told(inbox', procs, DOMAIN wins) /\ Owned(inbox', procs, DOMAIN wins)
  BY <1>1, Taken
<1>3. raf' \in BOOLEAN /\ Behind(surfaces', DOMAIN wins, raf')
  <2>1. ASSUME NEW p \in DOMAIN surfaces,
               surfaces' = [surfaces EXCEPT ![p].dirty = TRUE], raf' = TRUE
        PROVE  raf' \in BOOLEAN /\ Behind(surfaces', DOMAIN wins, raf')
    BY <2>1 DEF DeskInv, Behind
  <2> QED BY <1>1, <2>1 DEF DeskInv
<1> QED BY <1>1, <1>2, <1>3, MainStep

LEMMA BlitKeeps ==
  ASSUME DeskInv, Blit
  PROVE  DeskInv'
<1>1. /\ UNCHANGED <<winVars, timer, missed, winApp, procs, file, shut, outbox, inbox>>
      /\ raf' = FALSE
      /\ surfaces' = [p \in DOMAIN surfaces |-> [surfaces[p] EXCEPT !.dirty = FALSE]]
  BY DEF Blit, Unhurried, kernelVars, sessionVars
<1>2. raf' \in BOOLEAN /\ Behind(surfaces', DOMAIN wins, raf')
  BY <1>1 DEF DeskInv, Behind
<1> QED BY <1>1, <1>2, MainStep DEF DeskInv

\* The surface of a process opens a window, its first.
LEMMA SurfaceKeeps ==
  ASSUME DeskInv, SurfaceCreated
  PROVE  DeskInv'
<1>1. PICK p, id : p = Head(inbox).pid /\ id = Head(inbox).win
  OBVIOUS
<1>2. PICK w : w = [Window(p) EXCEPT !.geom = At(geomOf, At(appOf, p, "none"), @)]
  OBVIOUS
<1>3. /\ Received("surface") /\ wins' = With(wins, id, w)
      /\ zorder' = Append(zorder, id) /\ active' = id
      /\ surfaces' = With(surfaces, p, [win |-> id, dirty |-> FALSE])
      /\ Changed /\ UNCHANGED <<raf, outbox, procs, file, shut>>
  BY <1>1, <1>2 DEF SurfaceCreated, kernelVars
<1>4. /\ inbox # <<>> /\ inbox[1].type = "surface" /\ Head(inbox) = inbox[1]
      /\ inbox' = Tail(inbox) /\ Queue(inbox') /\ Len(inbox) \in Nat \ {0}
      /\ Owned(inbox', procs, DOMAIN wins)
  BY <1>3, Taken
<1>5. Shows(inbox, 1, p)
  BY <1>1, <1>4 DEF Shows
<1>6. /\ p \in DOMAIN procs /\ WinOf(p) \notin DOMAIN wins /\ id = WinOf(p)
      /\ (Alive(procs, p) \/ \E j : Exits(inbox, j, p) /\ 1 < j)
  BY <1>1, <1>4, <1>5 DEF DeskInv, Told
<1>7. p \in Nat \ {0} /\ id \in Nat /\ id = p + 1
  BY <1>6 DEF DeskInv, Listed, WinOf
<1> DEFINE D == DOMAIN wins \cup {id}
<1>8. Framed(wins') /\ DOMAIN wins' = D
  <2>1. WinRec(w) /\ w.owner = id - 1
    BY <1>2, <1>7 DEF Window, WinRec, States
  <2>2. Framed(wins) /\ id \in Ids
    BY <1>7 DEF DeskInv, Ids
  <2>3. Framed(With(wins, id, w)) /\ DOMAIN With(wins, id, w) = D
    BY <2>1, <2>2, FramedWith
  <2> QED BY <1>3, <2>3
<1>9. Orders(zorder', D) /\ OnTop(active', zorder')
  <2>1. Orders(zorder, DOMAIN wins) /\ id \in Ids \ DOMAIN wins
    BY <1>6, <1>7 DEF DeskInv, Ids
  <2>2. Orders(Append(zorder, id), D) /\ OnTop(id, Append(zorder, id))
    BY <2>1, Pushed
  <2> QED BY <1>3, <2>2
<1>10. Behind(surfaces', D, raf)
  <2>1. PICK sf : sf = surfaces'
    OBVIOUS
  <2>2. /\ sf = [q \in DOMAIN sf |-> sf[q]] /\ DOMAIN sf = DOMAIN surfaces \cup {p}
        /\ sf[p] = [win |-> id, dirty |-> FALSE]
        /\ \A q \in DOMAIN surfaces : q # p => sf[q] = surfaces[q]
    BY <1>3, <2>1 DEF With
  <2>3. Behind(surfaces, DOMAIN wins, raf)
    BY DEF DeskInv
  <2>4. sf[p] \in [win: {WinOf(p)}, dirty: BOOLEAN] /\ ~sf[p].dirty
    BY <1>6, <2>2
  <2>5. ASSUME NEW q \in DOMAIN sf
        PROVE  /\ q \in Nat /\ q # 0 /\ WinOf(q) \in D
               /\ sf[q] \in [win: {WinOf(q)}, dirty: BOOLEAN]
               /\ (sf[q].dirty => raf)
    <3>1. CASE q = p
      BY <1>6, <1>7, <2>4, <3>1
    <3>2. CASE q # p
      BY <2>2, <2>3, <3>2 DEF Behind
    <3> QED BY <3>1, <3>2
  <2> QED BY <2>1, <2>2, <2>5 DEF Behind
<1>11. Told(inbox', procs, D) /\ Owned(inbox', procs, D)
  <2>1. PICK q : q = inbox'
    OBVIOUS
  <2>2. /\ Told(q, procs, DOMAIN wins)
        /\ \A i, r : Shows(q, i, r) => ~Shows(inbox, 1, r)
    BY <1>4, <2>1, ToldTail DEF DeskInv
  <2>3. \A i, r : Shows(q, i, r) => WinOf(r) \notin D
    <3> SUFFICES ASSUME NEW i, NEW r, Shows(q, i, r) PROVE WinOf(r) \notin D
      OBVIOUS
    <3>1. r \in DOMAIN procs /\ WinOf(r) \notin DOMAIN wins /\ r # p
      BY <1>5, <2>2 DEF Told
    <3>2. r \in Nat /\ WinOf(r) # id
      BY <1>7, <3>1 DEF DeskInv, Listed, WinOf
    <3> QED BY <3>1, <3>2
  <2>4. Told(q, procs, D)
    BY <2>2, <2>3 DEF Told
  <2>5. Alive(procs, p) \/ \E j : Exits(q, j, p)
    <3>1. ASSUME NEW j, Exits(inbox, j, p), 1 < j PROVE Exits(q, j - 1, p)
      <4>1. j # 1
        BY <3>1 DEF Exits
      <4> QED BY <1>4, <2>1, <3>1, <4>1, RestSays DEF DeskInv
    <3> QED BY <1>6, <3>1
  <2>6. Owned(q, procs, D)
    BY <1>4, <1>6, <1>7, <2>1, <2>5 DEF Owned
  <2> QED BY <2>1, <2>4, <2>6
<1>12. timer' \in BOOLEAN /\ missed' \in BOOLEAN /\ (timer' \/ missed')
  BY <1>3, Due DEF DeskInv
<1>13. Kept(timer' \/ missed', outbox', file', Tagged(DOMAIN wins)')
  BY <1>12 DEF Kept
<1> HIDE DEF D
<1>14. /\ Queue(inbox') /\ Queue(outbox') /\ raf' \in BOOLEAN /\ Listed(procs')
       /\ Behind(surfaces', D, raf') /\ Told(inbox', procs', D) /\ Owned(inbox', procs', D)
       /\ Closing(outbox', procs', shut')
  BY <1>3, <1>4, <1>10, <1>11 DEF DeskInv
<1>15. 1 \in D
  BY DEF DeskInv, D
<1> QED BY <1>8, <1>9, <1>12, <1>13, <1>14, <1>15 DEF DeskInv

\* The exit of a process closes its window, if it still has one.
LEMMA ExitedKeeps ==
  ASSUME DeskInv, Exited
  PROVE  DeskInv'
<1>1. PICK p : p = Head(inbox).pid
  OBVIOUS
<1>2. PICK ids : ids = {id \in DOMAIN wins : wins[id].owner = p}
  OBVIOUS
<1>3. Received("exit") /\ UNCHANGED <<raf, winApp, procs, file, shut>>
  BY DEF Exited, sessionVars, kernelVars
<1>4. \/ ids = {} /\ UNCHANGED <<winVars, surfaces, timer, missed, outbox>>
      \/ /\ ids # {} /\ (\E id \in ids : Close(id)) /\ Changed
         /\ outbox' = Append(outbox, [type |-> "kill", pid |-> p])
  BY <1>1, <1>2 DEF Exited
<1>5. /\ inbox # <<>> /\ inbox[1].type = "exit" /\ Head(inbox) = inbox[1]
      /\ inbox' = Tail(inbox) /\ Queue(inbox') /\ Len(inbox) \in Nat \ {0}
      /\ Told(inbox', procs, DOMAIN wins)
  BY <1>3, Taken
<1>6. Exits(inbox, 1, p) /\ \A r : Exits(inbox, 1, r) => r = p
  BY <1>1, <1>5 DEF Exits
<1>7. p \in DOMAIN procs /\ p \in Nat \ {0}
  <2>1. p \in DOMAIN procs
    BY <1>6 DEF DeskInv, Told
  <2> QED BY <2>1 DEF DeskInv, Listed
<1>8. ASSUME NEW id \in DOMAIN wins
      PROVE  wins[id].owner = id - 1 /\ id \in Nat
  BY DEF DeskInv, Framed, Ids
<1>9. ASSUME NEW E \in SUBSET DOMAIN wins, \A id \in E : id \notin ids
      PROVE  Owned(inbox', procs, E)
  <2>1. \A id \in E : ~Exits(inbox, 1, id - 1)
    BY <1>2, <1>6, <1>8, <1>9
  <2> QED BY <1>5, <2>1, OwnedTail DEF DeskInv
<1>10. CASE ids = {} /\ UNCHANGED <<winVars, surfaces, timer, missed, outbox>>
  <2>1. Owned(inbox', procs, DOMAIN wins)
    BY <1>9, <1>10
  <2> QED BY <1>3, <1>5, <1>10, <2>1, MainStep DEF DeskInv
<1>11. CASE /\ ids # {} /\ (\E id \in ids : Close(id)) /\ Changed
            /\ outbox' = Append(outbox, [type |-> "kill", pid |-> p])
  <2>1. PICK id \in ids : Close(id)
    BY <1>11
  <2>2. id \in DOMAIN wins /\ id = p + 1
    BY <1>2, <1>7, <1>8
  <2> DEFINE D == DOMAIN wins \ {id}
  <2>3. id \in DOMAIN wins \ {1}
    BY <1>7, <2>2
  <2>4. /\ DOMAIN wins' = D /\ Framed(wins') /\ Orders(zorder', D) /\ OnTop(active', zorder')
        /\ Behind(surfaces', D, raf)
    BY <2>1, <2>3, Closed DEF DeskInv
  <2>5. Owned(inbox', procs, D)
    <3>1. \A k \in D : k \notin ids
      BY <1>2, <1>7, <1>8, <2>2
    <3> QED BY <1>9, <3>1
  <2>6. Told(inbox', procs, D)
    BY <1>5 DEF Told
  <2>7. timer' \in BOOLEAN /\ missed' \in BOOLEAN /\ (timer' \/ missed')
    BY <1>11, Due DEF DeskInv
  <2>8. Kept(timer' \/ missed', outbox', file', Tagged(DOMAIN wins)')
    BY <2>7 DEF Kept
  <2>9. Queue(outbox') /\ Closing(outbox', procs, shut)
    BY <1>11, Appended, ClosingAppend DEF DeskInv
  <2>10. 1 \in D
    BY <2>3 DEF DeskInv
  <2> HIDE DEF D
  <2>11. /\ Queue(inbox') /\ raf' \in BOOLEAN /\ Listed(procs') /\ Behind(surfaces', D, raf')
         /\ Told(inbox', procs', D) /\ Owned(inbox', procs', D) /\ Closing(outbox', procs', shut')
    BY <1>3, <1>5, <2>4, <2>5, <2>6, <2>9 DEF DeskInv
  <2> QED BY <2>4, <2>7, <2>8, <2>9, <2>10, <2>11 DEF DeskInv
<1> QED BY <1>4, <1>10, <1>11

LEMMA SaveKeeps ==
  ASSUME DeskInv, Save
  PROVE  DeskInv'
<1>1. PICK m : m = [type |-> "write", apps |-> Tagged(DOMAIN wins)]
  OBVIOUS
<1>2. /\ timer' = FALSE /\ missed' = FALSE /\ outbox' = Append(outbox, m)
      /\ winApp' = Without(winApp, DOMAIN winApp \ DOMAIN wins)
      /\ UNCHANGED <<wins, zorder, active, surfaces, raf, inbox, procs, file, shut>>
  BY <1>1 DEF Save, winVars, kernelVars
<1>3. m.type = "write" /\ m.apps = Tagged(DOMAIN wins)
  BY <1>1
<1>4. Tagged(DOMAIN wins)' = Tagged(DOMAIN wins)
  <2>1. PICK wa : wa = winApp'
    OBVIOUS
  <2>2. /\ DOMAIN wins \cap DOMAIN wa = DOMAIN wins \cap DOMAIN winApp
        /\ \A id \in DOMAIN wins \cap DOMAIN winApp : wa[id] = winApp[id]
    BY <1>2, <2>1 DEF Without
  <2>3. Tagged(DOMAIN wins)' = {[app |-> wa[id], geom |-> wins[id].geom] :
                                  id \in DOMAIN wins \cap DOMAIN wa}
    BY <1>2, <2>1 DEF Tagged
  <2>4. {[app |-> wa[id], geom |-> wins[id].geom] : id \in DOMAIN wins \cap DOMAIN wa}
          = {[app |-> winApp[id], geom |-> wins[id].geom] : id \in DOMAIN wins \cap DOMAIN winApp}
    BY <2>2
  <2> QED BY <2>3, <2>4 DEF Tagged
<1>5. Kept(timer' \/ missed', outbox', file', Tagged(DOMAIN wins)')
  BY <1>2, <1>3, <1>4, KeptWrite DEF DeskInv
<1>6. Queue(outbox') /\ Closing(outbox', procs, shut)
  BY <1>2, Appended, ClosingAppend DEF DeskInv
<1>7. timer' \in BOOLEAN /\ missed' \in BOOLEAN
  BY <1>2
<1> QED BY <1>2, <1>5, <1>6, <1>7 DEF DeskInv
----------------------------------------------------------------------------
(* The kernel worker's steps, and the processes'.                          *)

LEMMA KernelStep ==
  ASSUME DeskInv, MainSide, Queue(inbox'), Queue(outbox'), Listed(procs'),
         Told(inbox', procs', DOMAIN wins), Owned(inbox', procs', DOMAIN wins),
         Closing(outbox', procs', shut), NEW due, due = (timer \/ missed),
         Kept(due, outbox', file', Tagged(DOMAIN wins))
  PROVE  DeskInv'
<1>1. UNCHANGED <<wins, zorder, active, surfaces, raf, timer, missed, shut, winApp>>
  BY DEF MainSide, winVars, sessionVars, Unhurried
<1>2. Tagged(DOMAIN wins)' = Tagged(DOMAIN wins)
  BY <1>1 DEF Tagged
<1>3. Kept(timer' \/ missed', outbox', file', Tagged(DOMAIN wins)')
  BY <1>1, <1>2
<1> QED BY <1>1, <1>3 DEF DeskInv

LEMMA ProcessKeeps ==
  ASSUME DeskInv, NEW p, Process(p)
  PROVE  DeskInv'
<1>1. Alive(procs, p)
  BY DEF Process, At, Alive
<1>2. MainSide /\ UNCHANGED <<outbox, file>>
  BY DEF Process
<1>3. PICK due : due = (timer \/ missed)
  OBVIOUS
<1>4. /\ Queue(inbox) /\ Queue(outbox) /\ Listed(procs) /\ Told(inbox, procs, DOMAIN wins)
      /\ Owned(inbox, procs, DOMAIN wins) /\ Closing(outbox, procs, shut)
      /\ Kept(due, outbox, file, Tagged(DOMAIN wins))
  BY <1>3 DEF DeskInv
<1>5. ASSUME WinOf(p) \notin DOMAIN wins, procs' = procs,
             \A i \in DOMAIN inbox : inbox[i].type \in {"surface", "present"} => inbox[i].pid # p,
             inbox' = Append(inbox, [type |-> "surface", pid |-> p, win |-> WinOf(p)])
      PROVE  DeskInv'
  <2>1. PICK m : m = [type |-> "surface", pid |-> p, win |-> WinOf(p)]
    OBVIOUS
  <2>2. DOMAIN inbox = 1..Len(inbox)
    BY <1>4 DEF Queue
  <2>3. \A i : ~Shows(inbox, i, p)
    BY <1>5, <2>2 DEF Shows
  <2>4. Told(Append(inbox, m), procs, DOMAIN wins) /\ Owned(Append(inbox, m), procs, DOMAIN wins)
    <3>1. m.type = "surface" /\ m.pid = p /\ m.win = WinOf(p)
      BY <2>1
    <3> QED BY <1>1, <1>4, <1>5, <2>3, <3>1, ShowsUp
  <2>5. Queue(inbox')
    BY <1>4, <1>5, Appended
  <2> QED BY <1>2, <1>3, <1>4, <1>5, <2>1, <2>4, <2>5, KernelStep
<1>6. ASSUME procs' = procs, inbox' = Append(inbox, [type |-> "present", pid |-> p])
      PROVE  DeskInv'
  <2>1. PICK m : m = [type |-> "present", pid |-> p]
    OBVIOUS
  <2>2. m.type \notin {"exit", "surface"}
    BY <2>1
  <2>3. Told(Append(inbox, m), procs, DOMAIN wins) /\ Owned(Append(inbox, m), procs, DOMAIN wins)
    BY <1>4, <2>2, ToldOther
  <2>4. Queue(inbox')
    BY <1>4, <1>6, Appended
  <2> QED BY <1>2, <1>3, <1>4, <1>6, <2>1, <2>3, <2>4, KernelStep
<1>7. ASSUME procs' = [procs EXCEPT ![p] = "dead"],
             inbox' = Append(inbox, [type |-> "exit", pid |-> p])
      PROVE  DeskInv'
  <2>1. inbox' = Append(inbox, EndOf(p)) /\ procs' = Ended(procs, p)
    BY <1>7 DEF EndOf, Ended
  <2>2. /\ Listed(Ended(procs, p)) /\ Told(Append(inbox, EndOf(p)), Ended(procs, p), DOMAIN wins)
        /\ Owned(Append(inbox, EndOf(p)), Ended(procs, p), DOMAIN wins)
        /\ Closing(outbox, Ended(procs, p), shut)
    BY <1>1, <1>4, Dies
  <2>3. Queue(inbox')
    BY <1>4, <1>7, Appended
  <2> QED BY <1>2, <1>3, <1>4, <2>1, <2>2, <2>3, KernelStep
<1> QED BY <1>5, <1>6, <1>7 DEF Process, Post

LEMMA KernelTurnKeeps ==
  ASSUME DeskInv, KernelTurn
  PROVE  DeskInv'
<1>1. PICK call : call = Head(outbox)
  OBVIOUS
<1>2. outbox # <<>> /\ outbox' = Tail(outbox) /\ MainSide
  BY DEF KernelTurn
<1>3. PICK due : due = (timer \/ missed)
  OBVIOUS
<1>4. /\ Queue(inbox) /\ Queue(outbox) /\ Listed(procs) /\ Told(inbox, procs, DOMAIN wins)
      /\ Owned(inbox, procs, DOMAIN wins) /\ Closing(outbox, procs, shut)
      /\ Kept(due, outbox, file, Tagged(DOMAIN wins))
  BY <1>3 DEF DeskInv
<1>5. call = outbox[1] /\ Queue(outbox')
  BY <1>1, <1>2, <1>4, Rest
<1>6. /\ call.type # "write" => Kept(due, outbox', file, Tagged(DOMAIN wins))
      /\ call.type = "write" => Kept(due, outbox', call.apps, Tagged(DOMAIN wins))
  BY <1>2, <1>4, <1>5, KeptTail
<1>7. ASSUME NEW ps, Closing(outbox, ps, shut),
             call.type = "kill" /\ call.pid \in DOMAIN ps => ps[call.pid] = "dead"
      PROVE  Closing(outbox', ps, shut)
  BY <1>2, <1>4, <1>5, <1>7, ClosingTail
\* A message that is neither an end nor a surface is posted.
<1>8. ASSUME NEW m, m.type \notin {"exit", "surface"}, inbox' = Append(inbox, m),
             NEW ps, Told(inbox, ps, DOMAIN wins), Owned(inbox, ps, DOMAIN wins)
      PROVE  Queue(inbox') /\ Told(inbox', ps, DOMAIN wins) /\ Owned(inbox', ps, DOMAIN wins)
  BY <1>4, <1>8, Appended, ToldOther
<1>9. ASSUME call.type = "read",
             inbox' = Append(inbox, [type |-> "session", apps |-> SetToSeq(file)]),
             UNCHANGED <<procs, file>>
      PROVE  DeskInv'
  <2>1. PICK m : m = [type |-> "session", apps |-> SetToSeq(file)]
    OBVIOUS
  <2>2. m.type \notin {"exit", "surface"}
    BY <2>1
  <2>3. Queue(inbox') /\ Told(inbox', procs, DOMAIN wins) /\ Owned(inbox', procs, DOMAIN wins)
    BY <1>4, <1>8, <1>9, <2>1, <2>2
  <2>4. Closing(outbox', procs, shut) /\ Kept(due, outbox', file', Tagged(DOMAIN wins))
    BY <1>4, <1>6, <1>7, <1>9
  <2> QED BY <1>2, <1>3, <1>4, <1>5, <1>9, <2>3, <2>4, KernelStep
<1>10. ASSUME call.type = "write", file' = call.apps, UNCHANGED <<procs, inbox>>
       PROVE  DeskInv'
  <2>1. Closing(outbox', procs, shut) /\ Kept(due, outbox', file', Tagged(DOMAIN wins))
    BY <1>4, <1>6, <1>7, <1>10
  <2> QED BY <1>2, <1>3, <1>4, <1>5, <1>10, <2>1, KernelStep
<1>11. ASSUME call.type = "spawn", procs' = With(procs, Opened + 1, "live"), file' = file,
              inbox' = Append(inbox, [type |-> "spawned", pid |-> Opened + 1, app |-> call.app,
                                      restore |-> call.restore])
       PROVE  DeskInv'
  <2>1. PICK m : m = [type |-> "spawned", pid |-> Opened + 1, app |-> call.app,
                      restore |-> call.restore]
    OBVIOUS
  <2>2. PICK ps : ps = With(procs, Cardinality(DOMAIN procs) + 1, "live")
    OBVIOUS
  <2>3. m.type \notin {"exit", "surface"} /\ ps = procs'
    BY <1>11, <2>1, <2>2 DEF Opened
  <2>4. /\ Listed(ps) /\ Told(inbox, ps, DOMAIN wins) /\ Owned(inbox, ps, DOMAIN wins)
        /\ Closing(outbox, ps, shut)
    BY <1>4, <2>2, Born
  <2>5. Queue(inbox') /\ Told(inbox', ps, DOMAIN wins) /\ Owned(inbox', ps, DOMAIN wins)
    BY <1>8, <1>11, <2>1, <2>3, <2>4
  <2>6. Closing(outbox', ps, shut) /\ Kept(due, outbox', file', Tagged(DOMAIN wins))
    BY <1>6, <1>7, <1>11, <2>4
  <2> QED BY <1>2, <1>3, <1>5, <2>3, <2>4, <2>5, <2>6, KernelStep
<1>12. ASSUME call.type = "spawn", UNCHANGED <<procs, file>>,
              inbox' = Append(inbox, [type |-> "failed", app |-> call.app,
                                      restore |-> call.restore])
       PROVE  DeskInv'
  <2>1. PICK m : m = [type |-> "failed", app |-> call.app, restore |-> call.restore]
    OBVIOUS
  <2>2. m.type \notin {"exit", "surface"}
    BY <2>1
  <2>3. Queue(inbox') /\ Told(inbox', procs, DOMAIN wins) /\ Owned(inbox', procs, DOMAIN wins)
    BY <1>4, <1>8, <1>12, <2>1, <2>2
  <2>4. Closing(outbox', procs, shut) /\ Kept(due, outbox', file', Tagged(DOMAIN wins))
    BY <1>4, <1>6, <1>7, <1>12
  <2> QED BY <1>2, <1>3, <1>4, <1>5, <1>12, <2>3, <2>4, KernelStep
<1>13. ASSUME call.type = "kill", At(procs, call.pid, "dead") = "dead",
              UNCHANGED <<procs, inbox, file>>
       PROVE  DeskInv'
  <2>1. call.pid \in DOMAIN procs => procs[call.pid] = "dead"
    BY <1>13 DEF At
  <2>2. Closing(outbox', procs, shut) /\ Kept(due, outbox', file', Tagged(DOMAIN wins))
    BY <1>4, <1>6, <1>7, <1>13, <2>1
  <2> QED BY <1>2, <1>3, <1>4, <1>5, <1>13, <2>2, KernelStep
<1>14. ASSUME call.type = "kill", At(procs, call.pid, "dead") # "dead", file' = file,
              procs' = [procs EXCEPT ![call.pid] = "dead"],
              inbox' = Append(inbox, [type |-> "exit", pid |-> call.pid])
       PROVE  DeskInv'
  <2>1. PICK p : p = call.pid
    OBVIOUS
  <2>2. inbox' = Append(inbox, EndOf(p)) /\ procs' = Ended(procs, p)
    BY <1>14, <2>1 DEF EndOf, Ended
  <2>3. Alive(procs, p)
    <3>1. p \in DOMAIN procs /\ procs[p] # "dead"
      BY <1>14, <2>1 DEF At
    <3> QED BY <1>4, <3>1 DEF Listed, Alive
  <2>4. /\ Listed(Ended(procs, p)) /\ Told(Append(inbox, EndOf(p)), Ended(procs, p), DOMAIN wins)
        /\ Owned(Append(inbox, EndOf(p)), Ended(procs, p), DOMAIN wins)
        /\ Closing(outbox, Ended(procs, p), shut) /\ Ended(procs, p)[p] = "dead"
    BY <1>4, <2>3, Dies
  <2>5. Queue(inbox')
    BY <1>4, <1>14, Appended
  <2>6. Closing(outbox', Ended(procs, p), shut)
    BY <1>7, <2>1, <2>4
  <2>7. Kept(due, outbox', file', Tagged(DOMAIN wins))
    BY <1>6, <1>14
  <2> QED BY <1>2, <1>3, <1>5, <2>2, <2>4, <2>5, <2>6, <2>7, KernelStep
<1> QED
  BY <1>1, <1>9, <1>10, <1>11, <1>12, <1>13, <1>14 DEF KernelTurn, Post, kernelVars
----------------------------------------------------------------------------
(* The invariant, and what it says of the desktop.                         *)

LEMMA DeskBegins ==
  ASSUME DeskInit
  PROVE  DeskInv
<1>1. wins = [id \in {1} |-> Window(0)] /\ zorder = <<1>> /\ active = 1
  BY DEF DeskInit, Terminal
<1>2. /\ surfaces = <<>> /\ raf = FALSE /\ timer = TRUE /\ missed = FALSE /\ outbox = <<>>
      /\ inbox = <<>> /\ procs = <<>> /\ shut = {}
  BY DEF DeskInit
<1>3. Framed(wins) /\ DOMAIN wins = {1}
  BY <1>1 DEF Framed, Window, WinRec, States, Ids
<1>4. Orders(zorder, {1}) /\ OnTop(active, zorder)
  BY <1>1 DEF Orders, OnTop, Ids
<1>5. Queue(inbox) /\ Queue(outbox) /\ Len(inbox) = 0
  BY <1>2 DEF Queue
<1>6. Behind(surfaces, {1}, raf)
  BY <1>2 DEF Behind
<1>7. Listed(procs)
  <2>1. 0 \in Nat /\ 1..0 = {}
    OBVIOUS
  <2>2. DOMAIN procs = 1..0 /\ procs = [p \in 1..0 |-> procs[p]]
    BY <1>2
  <2> QED BY <2>1, <2>2 DEF Listed
<1>8. Told(inbox, procs, {1}) /\ Owned(inbox, procs, {1}) /\ Closing(outbox, procs, shut)
  BY <1>2, <1>5 DEF Told, Owned, Closing, Exits, Shows
<1>9. Kept(timer \/ missed, outbox, file, Tagged(DOMAIN wins))
  BY <1>2 DEF Kept
<1> QED BY <1>2, <1>3, <1>4, <1>5, <1>6, <1>7, <1>8, <1>9 DEF DeskInv

LEMMA DeskGoesOn ==
  ASSUME DeskInv, [DeskNext]_desktopVars
  PROVE  DeskInv'
<1>1. ASSUME UNCHANGED desktopVars PROVE DeskInv'
  <2>1. /\ UNCHANGED <<wins, zorder, active, surfaces, raf, winApp, timer, missed, outbox, inbox,
                       procs, file, shut>>
    BY <1>1 DEF desktopVars
  <2>2. Tagged(DOMAIN wins)' = Tagged(DOMAIN wins)
    BY <2>1 DEF Tagged
  <2> QED BY <2>1, <2>2 DEF DeskInv
<1>2. ASSUME NEW id \in 1..MaxWin,
             \/ FocusWindow(id) \/ Minimize(id) \/ ToggleMaximize(id) \/ Drag(id) \/ UserClose(id)
      PROVE  DeskInv'
  BY <1>2, FocusKeeps, MinimizeKeeps, MaximizeKeeps, DragKeeps, UserCloseKeeps
<1>3. ASSUME NEW app \in Apps, LauncherClick(app) PROVE DeskInv'
  BY <1>3, LauncherKeeps
<1>4. ASSUME \/ StartRestore \/ SessionRead \/ Spawned \/ SpawnFailed \/ SurfaceCreated
             \/ Presented \/ Exited \/ Blit \/ Save \/ KernelTurn
      PROVE  DeskInv'
  BY <1>4, RestoreKeeps, SessionReadKeeps, SpawnedKeeps, SpawnFailedKeeps, SurfaceKeeps,
     PresentedKeeps, ExitedKeeps, BlitKeeps, SaveKeeps, KernelTurnKeeps
<1>5. ASSUME NEW pid \in 1..MaxPid, Process(pid) PROVE DeskInv'
  BY <1>5, ProcessKeeps
<1> QED BY <1>1, <1>2, <1>3, <1>4, <1>5 DEF DeskNext

LEMMA OrderCounts ==
  ASSUME NEW z, NEW D, Orders(z, D)
  PROVE  ToSet(z) = D /\ Len(z) = Cardinality(D)
<1>1. z \in Seq(Ids) /\ Len(z) \in Nat /\ DOMAIN z = 1..Len(z)
  BY DEF Orders
<1>2. ToSet(z) = D
  BY <1>1 DEF Orders, ToSet
<1>3. z \in Bijection(1..Len(z), D)
  <2>1. z \in [1..Len(z) -> D]
    <3>1. z = [i \in 1..Len(z) |-> z[i]]
      BY <1>1
    <3> QED BY <3>1 DEF Orders
  <2>2. \A i, j \in 1..Len(z) : z[i] = z[j] => i = j
    BY DEF Orders
  <2>3. \A d \in D : \E i \in 1..Len(z) : z[i] = d
    BY DEF Orders
  <2> QED BY <2>1, <2>2, <2>3, Fun_IsBij
<1>4. ExistsBijection(1..Len(z), D)
  BY <1>3, Fun_ExistsBij
<1>5. Cardinality(D) = Len(z)
  <2>1. PICK n \in Nat : n = Len(z)
    BY <1>1
  <2>2. ExistsBijection(1..n, D)
    BY <1>4, <2>1
  <2> QED BY <2>1, <2>2, FS_CountingElements
<1> QED BY <1>2, <1>5

LEMMA DeskFollows ==
  ASSUME DeskInv
  PROVE  WindowsFollow /\ SessionSaved
<1>1. ActiveOnTop
  <2>1. ToSet(zorder) = DOMAIN wins /\ Len(zorder) = Cardinality(DOMAIN wins)
    BY OrderCounts DEF DeskInv
  <2>2. ASSUME active # 0 PROVE active \in DOMAIN wins /\ active = Last(zorder)
    <3>1. zorder \in Seq(Ids) /\ Len(zorder) > 0 /\ active = zorder[Len(zorder)]
      BY <2>2 DEF DeskInv, Orders, OnTop
    <3>2. Len(zorder) \in 1..Len(zorder)
      BY <3>1
    <3>3. active \in DOMAIN wins
      BY <3>1, <3>2 DEF DeskInv, Orders
    <3> QED BY <3>1, <3>3 DEF Last
  <2> QED BY <2>1, <2>2 DEF ActiveOnTop
<1>2. Queue(inbox) /\ Queue(outbox) /\ DOMAIN inbox = 1..Len(inbox) /\ DOMAIN outbox = 1..Len(outbox)
  BY DEF DeskInv, Queue
<1>3. NoOrphanWindow
  <2> SUFFICES ASSUME NEW id \in DOMAIN wins, wins[id].owner # 0
               PROVE  \/ At(procs, wins[id].owner, "dead") = "live"
                      \/ ExitPending(wins[id].owner)
    BY DEF NoOrphanWindow
  <2>1. PICK p : p = id - 1
    OBVIOUS
  <2>2. wins[id].owner = p /\ id # 1
    BY <2>1 DEF DeskInv, Framed
  <2>3. Alive(procs, p) \/ \E i : Exits(inbox, i, p)
    BY <2>1, <2>2 DEF DeskInv, Owned
  <2>4. ASSUME Alive(procs, p) PROVE At(procs, p, "dead") = "live"
    BY <2>4 DEF At, Alive
  <2>5. ASSUME NEW i, Exits(inbox, i, p) PROVE ExitPending(p)
    BY <1>2, <2>5 DEF Exits, ExitPending
  <2> QED BY <2>2, <2>3, <2>4, <2>5
<1>4. ClosedIsKilled
  <2> SUFFICES ASSUME NEW p \in shut
               PROVE  \/ At(procs, p, "dead") = "dead"
                      \/ \E i \in DOMAIN outbox : outbox[i] = [type |-> "kill", pid |-> p]
    BY DEF ClosedIsKilled
  <2>1. p \in DOMAIN procs /\ (procs[p] = "dead" \/ \E i : Kills(outbox, i, p))
    BY DEF DeskInv, Closing
  <2>2. ASSUME NEW i, Kills(outbox, i, p)
        PROVE  \E k \in DOMAIN outbox : outbox[k] = [type |-> "kill", pid |-> p]
    BY <1>2, <2>2 DEF Kills
  <2>3. ASSUME procs[p] = "dead" PROVE At(procs, p, "dead") = "dead"
    BY <2>3 DEF At
  <2> QED BY <2>1, <2>2, <2>3
<1>5. FramesComing
  BY DEF DeskInv, Behind, FramesComing
<1>6. SessionSaved
  <2>1. CASE \E i : Writes(outbox, i)
    BY <1>2, <2>1 DEF SessionSaved, Writing, Writes
  <2>2. CASE \A i : ~Writes(outbox, i)
    BY <2>2 DEF DeskInv, Kept, SessionSaved
  <2> QED BY <2>1, <2>2
<1> QED BY <1>1, <1>3, <1>4, <1>5, <1>6 DEF WindowsFollow

LEMMA DeskAlways == DeskSpec => []DeskInv
<1>1. DeskInit => DeskInv
  BY DeskBegins
<1>2. DeskInv /\ [DeskNext]_desktopVars => DeskInv'
  BY DeskGoesOn
<1> QED BY <1>1, <1>2, PTL DEF DeskSpec

\* The windows follow their processes and the user: the active one is on top of an order
\* that holds each once; a window's process is alive or its exit is on its way; a closed
\* window's process is dead or its kill is on its way; a frame to be copied has an
\* animation frame coming and a window to go to (windows.ts, index.ts).
THEOREM WindowsKept == DeskSpec => []WindowsFollow
<1>1. DeskInv => WindowsFollow
  BY DeskFollows
<1> QED BY <1>1, DeskAlways, PTL

\* Once nothing is due, missed or on its way, the saved session is the tagged windows
\* that are open, where they are (session.ts).
THEOREM SessionKept == DeskSpec => []SessionSaved
<1>1. DeskInv => SessionSaved
  BY DeskFollows
<1> QED BY <1>1, DeskAlways, PTL

(***************************************************************************)
(* The system monitor.                                                     *)
(***************************************************************************)
\* The rows of a listing are its pids in order.
Ranked(list) ==
  /\ Len(list) \in Nat /\ DOMAIN list = 1..Len(list)
  /\ \A i \in DOMAIN list :
       /\ list[i].pid \in Nat \ {0}
       /\ Cardinality({q \in Monitor!PidsOf(list) : q <= list[i].pid}) = i
\* Whoever the frame does not show started after all whom it shows.
Later(S) == \A q \in S \ Monitor!PidsOf(painted), p \in Monitor!PidsOf(painted) : p < q

\* A row is selected, and it is the process that was aimed at, if that is listed and the
\* rows the gesture went by are those of the frame.
MonAims == /\ IsFiniteSet(DOMAIN table)
           /\ born \in Nat
           /\ \A p \in DOMAIN table \cup Monitor!PidsOf(painted) : p \in Nat \ {0} /\ p <= born
           /\ Later(DOMAIN table) /\ Later(Monitor!PidsOf(running))
           /\ Ranked(running) /\ Ranked(painted)
           /\ sel \in DOMAIN running
           /\ batch = 0 => steady /\ running[sel].pid = aim
           /\ steady /\ aim \in Monitor!PidsOf(running) => running[sel].pid = aim
           /\ Monitor!PidsOf(painted) = Monitor!PidsOf(running) => steady
           /\ Monitor!HitsItsAim

LEMMA Counts == ASSUME NEW S PROVE Monitor!Cardinality(S) = Cardinality(S)
BY DEF Monitor!Cardinality, Cardinality

LEMMA ListingRows ==
  ASSUME IsFiniteSet(DOMAIN table), DOMAIN table # {}
  PROVE  /\ Len(Monitor!Listing) \in Nat \ {0}
         /\ DOMAIN Monitor!Listing = 1..Len(Monitor!Listing)
<1> DEFINE n == Cardinality(DOMAIN table)
           L == Monitor!Listing
<1>1. n \in Nat /\ n # 0
  BY FS_CardinalityType, FS_EmptySet
<1>2. DOMAIN L = 1..n
  BY Counts DEF Monitor!Listing
<1>3. Len(L) = n
  BY <1>1, Counts DEF Monitor!Listing
<1> QED
  BY <1>1, <1>2, <1>3

\* A listing has every process of the table, each at its rank.
LEMMA ListingRanks ==
  ASSUME IsFiniteSet(DOMAIN table), DOMAIN table # {}, DOMAIN table \subseteq Nat \ {0}
  PROVE  Ranked(Monitor!Listing) /\ Monitor!PidsOf(Monitor!Listing) = DOMAIN table
<1> DEFINE D == DOMAIN table
           n == Cardinality(D)
           L == Monitor!Listing
           Upto(p) == {q \in D : q <= p}
           f == [p \in D |-> Cardinality(Upto(p))]
<1>1. n \in Nat /\ IsFiniteSet(1..n) /\ Cardinality(1..n) = n
  BY FS_CardinalityType, FS_Interval
<1>2. ASSUME NEW p \in D PROVE IsFiniteSet(Upto(p)) /\ Cardinality(Upto(p)) \in 1..n
  <2>1. Upto(p) \in SUBSET D /\ Upto(p) # {}
    OBVIOUS
  <2>2. IsFiniteSet(Upto(p)) /\ Cardinality(Upto(p)) <= n
    BY <2>1, FS_Subset
  <2>3. Cardinality(Upto(p)) \in Nat /\ Cardinality(Upto(p)) # 0
    BY <2>1, <2>2, FS_CardinalityType, FS_EmptySet
  <2> QED
    BY <1>1, <2>2, <2>3
<1>3. ASSUME NEW p \in D, NEW q \in D, p < q PROVE Cardinality(Upto(p)) # Cardinality(Upto(q))
  <2>1. Upto(p) \in SUBSET Upto(q)
    BY <1>3
  <2>2. q \in Upto(q) /\ q \notin Upto(p)
    BY <1>3
  <2> QED
    BY <1>2, <2>1, <2>2, FS_Subset
<1>4. f \in [D -> 1..n]
  BY <1>2
<1>5. \A p, q \in D : f[p] = f[q] => p = q
  <2> SUFFICES ASSUME NEW p \in D, NEW q \in D, p # q PROVE f[p] # f[q]
    OBVIOUS
  <2>1. p < q \/ q < p
    OBVIOUS
  <2> QED
    BY <1>3, <2>1
<1>6. f \in Injection(D, 1..n)
  BY <1>4, <1>5 DEF Injection, IsInjective
<1>7. f \in Surjection(D, 1..n)
  <2> HIDE DEF f, n
  <2>1. Cardinality(D) = Cardinality(1..n)
    BY <1>1 DEF n
  <2> QED
    BY <1>1, <1>6, <2>1, FS_Injection
<1>8. \A i \in 1..n : \E p \in D : Cardinality(Upto(p)) = i
  <2>1. \A i \in 1..n : \E p \in D : f[p] = i
    BY <1>7 DEF Surjection
  <2> QED
    BY <2>1
<1>9. /\ Len(L) = n /\ DOMAIN L = 1..n
      /\ \A i \in 1..n : L[i].pid = CHOOSE p \in D : Monitor!Cardinality(Upto(p)) = i
  <2> DEFINE Ith(i) == CHOOSE p \in D : Monitor!Cardinality(Upto(p)) = i
  <2>1. L = [i \in 1..Monitor!Cardinality(D) |-> [pid |-> Ith(i), pri |-> table[Ith(i)].pri]]
    BY DEF Monitor!Listing
  <2>2. Monitor!Cardinality(D) = n
    BY Counts
  <2>3. \A i \in 1..n : L[i].pid = Ith(i)
    <3> HIDE DEF Ith, L, n
    <3> QED
      BY <2>1, <2>2
  <2>4. Len(L) = n /\ DOMAIN L = 1..n
    <3> HIDE DEF Ith, L, n
    <3> QED
      BY <1>1, <2>1, <2>2
  <2> QED
    BY <2>3, <2>4
<1>10. ASSUME NEW i \in 1..n PROVE L[i].pid \in D /\ Cardinality(Upto(L[i].pid)) = i
  <2>1. \E p \in D : Monitor!Cardinality(Upto(p)) = i
    BY <1>8, Counts
  <2>2. L[i].pid \in D /\ Monitor!Cardinality(Upto(L[i].pid)) = i
    BY <1>9, <2>1
  <2> QED
    BY <2>2, Counts
<1>11. ASSUME NEW p \in D PROVE p \in Monitor!PidsOf(L)
  <2>1. PICK i \in 1..n : f[p] = i
    BY <1>4
  <2>2. f[L[i].pid] = i /\ L[i].pid \in D
    BY <1>10
  <2>3. L[i].pid = p
    BY <1>5, <2>1, <2>2
  <2> QED
    BY <1>9, <2>3 DEF Monitor!PidsOf
<1>12. Monitor!PidsOf(L) = D
  <2> HIDE DEF L, D, n, Upto
  <2>1. \A i \in 1..n : L[i].pid \in D
    BY <1>10
  <2>2. Monitor!PidsOf(L) = {L[i].pid : i \in 1..n}
    BY <1>9 DEF Monitor!PidsOf
  <2> QED
    BY <1>11, <2>1, <2>2
<1> QED
  BY <1>1, <1>9, <1>10, <1>12 DEF Ranked

\* A process with the same processes before it is at the same row.
LEMMA SamePlace ==
  ASSUME NEW l, NEW m, Ranked(l), Ranked(m), NEW i \in DOMAIN l, NEW j \in DOMAIN m,
         l[i].pid = m[j].pid,
         \A q : q <= l[i].pid => (q \in Monitor!PidsOf(l) <=> q \in Monitor!PidsOf(m))
  PROVE  i = j
<1> DEFINE A == {q \in Monitor!PidsOf(l) : q <= l[i].pid}
           B == {q \in Monitor!PidsOf(m) : q <= m[j].pid}
<1>1. A = B
  OBVIOUS
<1>2. Cardinality(A) = i /\ Cardinality(B) = j
  BY DEF Ranked
<1> QED
  BY <1>1, <1>2

\* If none up to it has gone, the process that the frame shows in a row is in that row.
LEMMA ShownThere ==
  ASSUME MonAims, NEW row \in DOMAIN painted,
         \A p \in Monitor!PidsOf(painted) \ Monitor!PidsOf(running) : p > painted[row].pid
  PROVE  row \in DOMAIN running /\ running[row].pid = painted[row].pid
<1> DEFINE a == painted[row].pid
<1>1. a \in Nat /\ a \in Monitor!PidsOf(painted)
  BY DEF MonAims, Ranked, Monitor!PidsOf
<1>2. a \in Monitor!PidsOf(running)
  BY <1>1
<1>3. PICK j \in DOMAIN running : running[j].pid = a
  BY <1>2 DEF Monitor!PidsOf
<1>4. \A q \in Monitor!PidsOf(running) : q \in Nat
  BY DEF MonAims, Ranked, Monitor!PidsOf
<1>5. \A q \in Monitor!PidsOf(painted) : q \in Nat
  BY DEF MonAims
<1>6. \A q : q <= a => (q \in Monitor!PidsOf(painted) <=> q \in Monitor!PidsOf(running))
  <2>1. ASSUME NEW q \in Monitor!PidsOf(painted), q <= a PROVE q \in Monitor!PidsOf(running)
    BY <1>1, <1>5, <2>1
  <2>2. ASSUME NEW q \in Monitor!PidsOf(running), q <= a PROVE q \in Monitor!PidsOf(painted)
    BY <1>1, <1>4, <2>2 DEF MonAims, Later
  <2> QED
    BY <2>1, <2>2
<1>7. Ranked(running) /\ Ranked(painted)
  BY DEF MonAims
<1>8. row = j
  BY <1>3, <1>6, <1>7, SamePlace
<1> QED
  BY <1>3, <1>8

\* With the processes of the frame, the listing has its rows.
LEMMA SameRows ==
  ASSUME MonAims, Monitor!PidsOf(painted) = Monitor!PidsOf(running)
  PROVE  /\ DOMAIN painted = DOMAIN running
         /\ \A i \in DOMAIN running : painted[i].pid = running[i].pid
<1>1. ASSUME NEW i \in DOMAIN painted
      PROVE  i \in DOMAIN running /\ running[i].pid = painted[i].pid
  BY ShownThere
<1>2. ASSUME NEW j \in DOMAIN running PROVE j \in DOMAIN painted
  <2>1. running[j].pid \in Monitor!PidsOf(painted)
    BY DEF Monitor!PidsOf
  <2>2. PICK i \in DOMAIN painted : painted[i].pid = running[j].pid
    BY <2>1 DEF Monitor!PidsOf
  <2>3. i \in DOMAIN running /\ running[i].pid = painted[i].pid
    BY <1>1
  <2>4. Ranked(running)
    BY DEF MonAims
  <2>5. i = j
    BY <2>2, <2>3, <2>4, SamePlace
  <2> QED
    BY <2>5
<1> QED
  BY <1>1, <1>2

\* The lesser of a row and the number of rows.
LEMMA LesserOf ==
  ASSUME NEW i \in Nat, NEW n \in Nat
  PROVE  Monitor!Min({i, n}) = IF i <= n THEN i ELSE n
BY DEF Monitor!Min

\* Whatever the fresh listing, the selection stays in it, at its process if it is there.
LEMMA PinnedRow ==
  ASSUME NEW L, Len(L) \in Nat \ {0}, DOMAIN L = 1..Len(L), MonAims
  PROVE  /\ Monitor!Pinned(L) \in DOMAIN L
         /\ running[sel].pid \in Monitor!PidsOf(L) => L[Monitor!Pinned(L)].pid = running[sel].pid
<1>1. Monitor!SelectedPid = running[sel].pid
  BY DEF MonAims, Monitor!SelectedPid
<1>2. CASE running[sel].pid \in Monitor!PidsOf(L)
  <2>1. \E i \in DOMAIN L : L[i].pid = running[sel].pid
    BY <1>2 DEF Monitor!PidsOf
  <2>2. /\ Monitor!RowOf(L, running[sel].pid) \in DOMAIN L
        /\ L[Monitor!RowOf(L, running[sel].pid)].pid = running[sel].pid
    BY <2>1 DEF Monitor!RowOf
  <2> QED
    BY <1>1, <1>2, <2>2 DEF Monitor!Pinned
<1>3. CASE running[sel].pid \notin Monitor!PidsOf(L)
  <2>1. sel \in Nat /\ sel >= 1
    BY DEF MonAims, Ranked
  <2> QED
    BY <1>1, <1>3, <2>1, LesserOf DEF Monitor!Pinned
<1> QED
  BY <1>2, <1>3

LEMMA MonInit == Monitor!SysMonInit => MonAims
<1> SUFFICES ASSUME Monitor!SysMonInit PROVE MonAims
  OBVIOUS
<1>1. IsFiniteSet(DOMAIN table) /\ DOMAIN table # {}
  <2>1. DOMAIN table = 1..3
    BY DEF Monitor!SysMonInit, Monitor!Me
  <2>2. IsFiniteSet(1..3)
    <3>1. 1 \in Int /\ 3 \in Int
      OBVIOUS
    <3> QED
      BY <3>1, FS_Interval
  <2>3. 1 \in 1..3
    OBVIOUS
  <2> QED
    BY <2>1, <2>2, <2>3
<1>2. Len(running) \in Nat \ {0} /\ DOMAIN running = 1..Len(running)
  BY <1>1, ListingRows DEF Monitor!SysMonInit
<1>3. Monitor!FirstKillable(running) \in DOMAIN running
  <2> DEFINE other == {i \in DOMAIN running : running[i].pid # 1}
  <2>1. CASE other = {}
    BY <1>2, <2>1 DEF Monitor!FirstKillable
  <2>2. CASE other # {}
    <3>1. other \in SUBSET Nat
      BY <1>2
    <3>2. \E m \in other : \A k \in other : m <= k
      BY <2>2, <3>1, LeastOf
    <3>3. Monitor!Min(other) \in other
      BY <3>2 DEF Monitor!Min
    <3> QED
      BY <2>2, <3>3 DEF Monitor!FirstKillable
  <2> QED
    BY <2>1, <2>2
<1>4. sel \in DOMAIN running /\ running[sel].pid = aim /\ steady /\ last.kind = "none"
  BY <1>3 DEF Monitor!SysMonInit, Monitor!None
<1>5. DOMAIN table = 1..3 /\ born = 3
  BY DEF Monitor!SysMonInit, Monitor!Me
<1>6. Ranked(running) /\ Monitor!PidsOf(running) = DOMAIN table /\ painted = running
  <2>1. running = Monitor!Listing /\ painted = running
    BY DEF Monitor!SysMonInit
  <2> QED
    BY <1>1, <1>5, <2>1, ListingRanks
<1>7. Later(DOMAIN table) /\ Later(Monitor!PidsOf(running))
  BY <1>6 DEF Later
<1> QED
  BY <1>1, <1>4, <1>5, <1>6, <1>7 DEF MonAims, Monitor!HitsItsAim

\* Of the variables but the table, the selection and the aim, a batch keeps these.
LEMMA MonKeeps ==
  ASSUME MonAims, UNCHANGED <<running, painted>>, born' \in Nat, IsFiniteSet(DOMAIN table'),
         \A p \in DOMAIN table' \cup Monitor!PidsOf(painted) : p \in Nat \ {0} /\ p <= born',
         Later(DOMAIN table'), sel' \in DOMAIN running,
         batch' = 0 => steady' /\ running[sel'].pid = aim',
         steady' /\ aim' \in Monitor!PidsOf(running) => running[sel'].pid = aim',
         Monitor!PidsOf(painted) = Monitor!PidsOf(running) => steady',
         Monitor!HitsItsAim'
  PROVE  MonAims'
<1>1. /\ Ranked(running) /\ Ranked(painted) /\ Later(Monitor!PidsOf(running))
  BY DEF MonAims
<1>2. /\ running' = running /\ painted' = painted
  OBVIOUS
<1>3. Ranked(running)' /\ Ranked(painted)'
  BY <1>1, <1>2
<1>4. Monitor!PidsOf(running)' = Monitor!PidsOf(running) /\ Monitor!PidsOf(painted)' = Monitor!PidsOf(painted)
  BY <1>2 DEF Monitor!PidsOf
<1>5. Later(DOMAIN table)' /\ Later(Monitor!PidsOf(running))'
  BY <1>1, <1>4 DEF Later
<1> QED
  BY <1>2, <1>3, <1>4, <1>5 DEF MonAims

\* Whatever starts, ends or is killed, a refresh keeps the selection on what was aimed at.
LEMMA MonStep == MonAims /\ Monitor!SysMonNext => MonAims'
<1> SUFFICES ASSUME MonAims, Monitor!SysMonNext PROVE MonAims'
  OBVIOUS
<1> DEFINE L == Monitor!Listing
<1>0. /\ IsFiniteSet(DOMAIN table) /\ Len(running) \in Nat /\ DOMAIN running = 1..Len(running)
      /\ sel \in Nat /\ sel \in DOMAIN running /\ born \in Nat
      /\ (batch = 0 => steady /\ running[sel].pid = aim)
      /\ (steady /\ aim \in Monitor!PidsOf(running) => running[sel].pid = aim)
      /\ Monitor!HitsItsAim
  BY DEF MonAims, Ranked
<1>a. /\ \A p \in DOMAIN table \cup Monitor!PidsOf(painted) : p \in Nat \ {0} /\ p <= born
      /\ Later(DOMAIN table)
  BY DEF MonAims
<1>1. ASSUME Monitor!Alive
      PROVE  /\ Len(L) \in Nat \ {0} /\ DOMAIN L = 1..Len(L) /\ Ranked(L)
             /\ Monitor!PidsOf(L) = DOMAIN table
  BY <1>0, <1>a, <1>1, ListingRows, ListingRanks DEF Monitor!Alive
<1>2. CASE Monitor!BeginBatch
  <2>1. /\ batch = 0 /\ Monitor!Alive /\ running' = L /\ sel' = Monitor!Pinned(L)
        /\ batch' = 1 /\ UNCHANGED <<table, born, painted, aim, steady>> /\ last'.kind = "none"
    BY <1>2 DEF Monitor!BeginBatch, Monitor!None
  <2>2. /\ sel' \in DOMAIN L
        /\ running[sel].pid \in Monitor!PidsOf(L) => L[sel'].pid = running[sel].pid
    BY <1>1, <2>1, PinnedRow
  <2>3. /\ Monitor!PidsOf(running)' = DOMAIN table /\ Monitor!PidsOf(painted)' = Monitor!PidsOf(painted)
        /\ Ranked(running)' /\ Ranked(painted)'
    <3>1. Ranked(painted)
      BY DEF MonAims
    <3>2. Ranked(running)' /\ Ranked(painted)'
      BY <1>1, <2>1, <3>1
    <3>3. /\ Monitor!PidsOf(running)' = Monitor!PidsOf(L)
          /\ Monitor!PidsOf(painted)' = Monitor!PidsOf(painted)
      BY <2>1 DEF Monitor!PidsOf
    <3> QED
      BY <1>1, <2>1, <3>2, <3>3
  <2>4. Later(DOMAIN table)' /\ Later(Monitor!PidsOf(running))'
    BY <1>a, <2>1, <2>3 DEF Later
  <2>5. Monitor!HitsItsAim'
    BY <1>0, <2>1 DEF Monitor!HitsItsAim
  <2>6. steady' /\ aim' \in Monitor!PidsOf(running)' => running'[sel'].pid = aim'
    BY <1>0, <1>1, <2>1, <2>2, <2>3
  <2> QED
    BY <1>0, <1>a, <2>1, <2>2, <2>3, <2>4, <2>5, <2>6 DEF MonAims
<1>3. ASSUME NEW row \in 1..MonRows, Monitor!Point(row) PROVE MonAims'
  <2>1. /\ sel' = IF row \in DOMAIN running THEN row ELSE sel
        /\ aim' = IF row \in DOMAIN painted THEN painted[row].pid ELSE 0
        /\ steady' = \A p \in Monitor!PidsOf(painted) \ Monitor!PidsOf(running) : p > aim'
        /\ batch' = batch + 1 /\ batch \in 1..MonBatch
        /\ UNCHANGED <<table, born, running, painted>> /\ last'.kind = "none"
    BY <1>3 DEF Monitor!Point, Monitor!InBatch, Monitor!Event, Monitor!None
  <2>2. ASSUME steady', aim' \in Monitor!PidsOf(running) PROVE running[sel'].pid = aim'
    <3>1. CASE row \in DOMAIN painted
      BY <2>1, <2>2, <3>1, ShownThere
    <3>2. CASE row \notin DOMAIN painted
      <4>1. aim' = 0
        BY <2>1, <3>2
      <4>2. 0 \notin Monitor!PidsOf(running)
        BY DEF MonAims, Ranked, Monitor!PidsOf
      <4> QED
        BY <2>2, <4>1, <4>2
    <3> QED
      BY <3>1, <3>2
  <2>3. Later(DOMAIN table') /\ Monitor!HitsItsAim'
    BY <1>0, <1>a, <2>1 DEF Monitor!HitsItsAim
  <2>4. sel' \in DOMAIN running /\ batch' # 0
    BY <1>0, <2>1
  <2>5. Monitor!PidsOf(painted) = Monitor!PidsOf(running) => steady'
    BY <2>1
  <2> QED
    BY <1>0, <1>a, <2>1, <2>2, <2>3, <2>4, <2>5, MonKeeps
<1>4. ASSUME NEW d \in {1, -1}, Monitor!Arrow(d) PROVE MonAims'
  <2>1. /\ sel' = IF sel + d \in DOMAIN running THEN sel + d ELSE sel
        /\ aim' = Monitor!Beside(d)
        /\ steady' = (Monitor!PidsOf(painted) = Monitor!PidsOf(running))
        /\ batch' = batch + 1 /\ batch \in 1..MonBatch
        /\ UNCHANGED <<table, born, running, painted>> /\ last'.kind = "none"
    BY <1>4 DEF Monitor!Arrow, Monitor!InBatch, Monitor!Event, Monitor!None
  <2>2. Later(DOMAIN table') /\ Monitor!HitsItsAim'
    BY <1>0, <1>a, <2>1 DEF Monitor!HitsItsAim
  <2>3. sel' \in DOMAIN running /\ batch' # 0
    BY <1>0, <2>1
  <2>4. ASSUME steady', aim' \in Monitor!PidsOf(running) PROVE running[sel'].pid = aim'
    <3>1. CASE aim \notin Monitor!PidsOf(painted)
      <4>1. aim' = 0
        BY <2>1, <3>1 DEF Monitor!Beside
      <4>2. 0 \notin Monitor!PidsOf(running)
        BY DEF MonAims, Ranked, Monitor!PidsOf
      <4> QED
        BY <2>4, <4>1, <4>2
    <3>2. CASE aim \in Monitor!PidsOf(painted)
      <4>1. Monitor!PidsOf(painted) = Monitor!PidsOf(running)
        BY <2>1, <2>4
      <4>2. running[sel].pid = aim
        BY <1>0, <3>2, <4>1 DEF MonAims
      <4>3. /\ DOMAIN painted = DOMAIN running
            /\ \A i \in DOMAIN running : painted[i].pid = running[i].pid
        BY <4>1, SameRows
      <4>4. \A i, j \in DOMAIN running : running[i].pid = running[j].pid => i = j
        BY SamePlace DEF MonAims
      <4>5. Monitor!RowOf(painted, aim) = sel
        BY <1>0, <4>2, <4>3, <4>4 DEF Monitor!RowOf
      <4>6. aim' = IF sel + d \in DOMAIN painted THEN painted[sel + d].pid ELSE aim
        BY <2>1, <3>2, <4>5 DEF Monitor!Beside
      <4> QED
        BY <2>1, <4>2, <4>3, <4>6
    <3> QED
      BY <3>1, <3>2
  <2>5. Monitor!PidsOf(painted) = Monitor!PidsOf(running) => steady'
    BY <2>1
  <2> QED
    BY <1>0, <1>a, <2>1, <2>2, <2>3, <2>4, <2>5, MonKeeps
<1>5. CASE Monitor!KeyDown \/ Monitor!KeyUp
  BY <1>4, <1>5 DEF Monitor!KeyDown, Monitor!KeyUp
<1>6. ASSUME NEW kind \in {"kill", "term", "renice"}, Monitor!Act(kind) PROVE MonAims'
  <2>1. /\ batch' = batch + 1 /\ batch \in 1..MonBatch
        /\ UNCHANGED <<born, running, painted, sel, aim, steady>>
    BY <1>6 DEF Monitor!Act, Monitor!Event, Monitor!InBatch
  <2>2. Monitor!SelectedPid = running[sel].pid
    BY <1>0 DEF Monitor!SelectedPid
  <2>3. DOMAIN table' \subseteq DOMAIN table /\ Monitor!HitsItsAim'
    <3>1. CASE Monitor!SelectedPid \in {0, 1}
      BY <1>0, <1>6, <3>1 DEF Monitor!Act, Monitor!HitsItsAim, Monitor!None
    <3>2. CASE Monitor!SelectedPid \notin {0, 1}
      <4>1. table' \in Monitor!Struck(kind, Monitor!SelectedPid)
        BY <1>6, <3>2 DEF Monitor!Act
      <4>2. DOMAIN table' \subseteq DOMAIN table
        BY <4>1 DEF Monitor!Struck
      <4>3. /\ last'.pid = Monitor!SelectedPid /\ last'.aim = aim
            /\ last'.sure = (steady /\ aim \in Monitor!PidsOf(running))
        BY <1>6, <3>2 DEF Monitor!Act
      <4>4. last'.sure => last'.pid = last'.aim
        BY <1>0, <2>2, <4>3
      <4> QED
        BY <1>0, <3>2, <4>2, <4>3, <4>4 DEF Monitor!HitsItsAim
    <3> QED
      BY <3>1, <3>2
  <2>4. IsFiniteSet(DOMAIN table') /\ Later(DOMAIN table')
    BY <1>0, <1>a, <2>3, FS_Subset DEF Later
  <2>5. batch' # 0 /\ (Monitor!PidsOf(painted) = Monitor!PidsOf(running) => steady')
    BY <2>1 DEF MonAims
  <2> QED
    BY <1>0, <1>a, <2>1, <2>3, <2>4, <2>5, MonKeeps
<1>7. CASE Monitor!EndBatch
  <2>1. /\ Monitor!Alive /\ running' = L /\ sel' = Monitor!Pinned(L) /\ aim' = L[sel'].pid
        /\ painted' = L /\ steady' = TRUE /\ UNCHANGED <<table, born>> /\ last'.kind = "none"
    BY <1>7 DEF Monitor!EndBatch, Monitor!None
  <2>2. sel' \in DOMAIN L
    BY <1>1, <2>1, PinnedRow
  <2>3. Monitor!PidsOf(running)' = DOMAIN table /\ Monitor!PidsOf(painted)' = DOMAIN table
    BY <1>1, <2>1 DEF Monitor!PidsOf
  <2>4. Ranked(running)' /\ Ranked(painted)'
    BY <1>1, <2>1 DEF Ranked, Monitor!PidsOf
  <2>5. Later(DOMAIN table)' /\ Later(Monitor!PidsOf(running))'
    BY <2>1, <2>3 DEF Later
  <2>6. Monitor!HitsItsAim'
    BY <1>0, <2>1 DEF Monitor!HitsItsAim
  <2> QED
    BY <1>0, <1>a, <2>1, <2>2, <2>3, <2>4, <2>5, <2>6 DEF MonAims
<1>8. ASSUME Monitor!Elsewhere, IsFiniteSet(DOMAIN table'), born' \in Nat, Later(DOMAIN table'),
             \A p \in DOMAIN table' \cup Monitor!PidsOf(painted) : p \in Nat \ {0} /\ p <= born'
      PROVE  MonAims'
  <2>1. UNCHANGED <<running, painted, sel, batch, aim, steady>> /\ last'.kind = "none"
    BY <1>8 DEF Monitor!Elsewhere, Monitor!None
  <2>2. Monitor!HitsItsAim'
    BY <1>0, <2>1 DEF Monitor!HitsItsAim
  <2>3. Monitor!PidsOf(painted) = Monitor!PidsOf(running) => steady'
    BY <2>1 DEF MonAims
  <2> QED
    BY <1>0, <1>8, <2>1, <2>2, <2>3, MonKeeps
<1>9. CASE Monitor!Starts
  <2>1. DOMAIN table' = DOMAIN table \cup {born'} /\ born' = born + 1 /\ Monitor!Elsewhere
    BY <1>9 DEF Monitor!Starts
  <2>2. IsFiniteSet(DOMAIN table')
    BY <1>0, <2>1, FS_AddElement
  <2>3. /\ born' \in Nat
        /\ \A p \in DOMAIN table' \cup Monitor!PidsOf(painted) : p \in Nat \ {0} /\ p <= born'
    BY <1>0, <1>a, <2>1
  <2>4. Later(DOMAIN table')
    BY <1>0, <1>a, <2>1 DEF Later
  <2> QED
    BY <1>8, <2>1, <2>2, <2>3, <2>4
<1>10. ASSUME NEW p, Monitor!Exits(p) \/ Monitor!Reaped(p) PROVE MonAims'
  <2>1. DOMAIN table' \subseteq DOMAIN table /\ Monitor!Elsewhere /\ born' = born
    BY <1>10 DEF Monitor!Exits, Monitor!Reaped
  <2>2. IsFiniteSet(DOMAIN table')
    BY <1>0, <2>1, FS_Subset
  <2>3. Later(DOMAIN table')
    BY <1>a, <2>1 DEF Later
  <2> QED
    BY <1>0, <1>a, <1>8, <2>1, <2>2, <2>3
<1> QED
  BY <1>2, <1>3, <1>5, <1>6, <1>7, <1>9, <1>10 DEF Monitor!SysMonNext

(***************************************************************************)
(* The file manager.                                                       *)
(***************************************************************************)
ShownRow(y) == Manager!RowAt(cwd, entries, scroll + y)

\* Until the first event of a batch the frame shows the rows as they are, and the
\* selection is in it.
FrameIsCurrent ==
  /\ sel \in scroll..(scroll + FmRows - 1)
  /\ frame.lit = sel - scroll
  /\ \A y \in 0..(FmRows - 1) : frame.rows[y] = ShownRow(y)

ManagerShows == /\ sel \in Nat /\ scroll \in Nat /\ batch \in Nat
                /\ batch \in {0, 1} => FrameIsCurrent
                /\ Manager!OpensWhatIsShown

LEMMA FmBegins == Manager!FmInit => ManagerShows
<1> SUFFICES ASSUME Manager!FmInit PROVE ManagerShows
  OBVIOUS
<1>1. /\ cwd = <<>> /\ sel = 0 /\ scroll = 0 /\ batch = 0 /\ frame.lit = 0
      /\ frame.rows = [i \in 0..(FmRows - 1) |-> Manager!RowAt(<<>>, entries, i)]
      /\ acted.first = FALSE
  BY DEF Manager!FmInit
<1>2. ASSUME NEW y \in 0..(FmRows - 1) PROVE frame.rows[y] = ShownRow(y)
  <2>1. 0 + y = y
    OBVIOUS
  <2> QED
    BY <1>1, <2>1 DEF ShownRow
<1>3. FmRows \in Nat \ {0}
  BY ProgramsAssumption
<1> QED
  BY <1>1, <1>2, <1>3 DEF ManagerShows, FrameIsCurrent, Manager!OpensWhatIsShown

\* A second event of a batch may find other rows than are shown; the first does not.
LEMMA FmStep == ManagerShows /\ Manager!FmNext => ManagerShows'
<1> SUFFICES ASSUME ManagerShows, Manager!FmNext PROVE ManagerShows'
  OBVIOUS
<1>0. /\ sel \in Nat /\ scroll \in Nat /\ batch \in Nat /\ FmRows \in Nat \ {0}
      /\ (batch = 1 => FrameIsCurrent) /\ (acted.first => acted.row = acted.shown)
  BY ProgramsAssumption DEF ManagerShows, Manager!OpensWhatIsShown
\* What leaves the batch, the rows and the frame alone.
<1>1. ASSUME UNCHANGED <<cwd, entries, sel, scroll, frame, acted>>,
             batch' = batch \/ (batch = 0 /\ batch' = 1)
      PROVE  ManagerShows'
  BY <1>1 DEF ManagerShows, FrameIsCurrent, ShownRow, Manager!OpensWhatIsShown
<1>2. ASSUME Manager!Event, sel' \in Nat, scroll' \in Nat, Manager!OpensWhatIsShown'
      PROVE  ManagerShows'
  BY <1>0, <1>2 DEF Manager!Event, ManagerShows
<1>3. ASSUME Manager!Event, sel' \in Nat, scroll' \in Nat, UNCHANGED acted
      PROVE  ManagerShows'
  BY <1>0, <1>2, <1>3 DEF Manager!OpensWhatIsShown
<1>4. ASSUME NEW dir, Manager!Go(dir) PROVE sel' \in Nat /\ scroll' \in Nat
  BY <1>4 DEF Manager!Go
<1>5. ASSUME NEW row \in Nat, NEW shown, Manager!Event, Manager!Activate(row, shown),
             batch = 1 => shown = Manager!RowAt(cwd, entries, row)
      PROVE  ManagerShows'
  <2> DEFINE it == Manager!RowAt(cwd, entries, row)
  <2>1. acted' = [row |-> it, shown |-> shown, first |-> batch = 1]
    BY <1>5 DEF Manager!Activate
  <2>2. acted'.row = it /\ acted'.shown = shown /\ acted'.first = (batch = 1)
    BY <2>1
  <2>3. acted'.first => acted'.row = acted'.shown
    BY <1>5, <2>2
  <2>4. sel' \in Nat /\ scroll' \in Nat
    <3>1. \/ \E dir : Manager!Go(dir)
          \/ sel' = row /\ UNCHANGED scroll
          \/ Manager!LaunchFile(Manager!PathTo(cwd, it.name)) /\ sel' = row
      BY <1>5 DEF Manager!Activate
    <3> QED
      BY <1>0, <1>4, <1>5, <3>1 DEF Manager!LaunchFile
  <2> QED
    BY <1>2, <1>5, <2>3, <2>4 DEF Manager!OpensWhatIsShown
<1>6. CASE Manager!BeginBatch
  BY <1>1, <1>6 DEF Manager!BeginBatch, Manager!Stay
<1>7. CASE Manager!ClickUp \/ Manager!ClickCrumb \/ Manager!Backspace
  BY <1>3, <1>4, <1>7 DEF Manager!ClickUp, Manager!ClickCrumb, Manager!Backspace
<1>8. CASE Manager!KeyDown \/ Manager!KeyUp
  <2>1. sel' \in Nat /\ UNCHANGED <<scroll, acted>> /\ Manager!Event
    BY <1>0, <1>8 DEF Manager!KeyDown, Manager!KeyUp
  <2> QED
    BY <1>0, <1>3, <2>1
<1>9. CASE Manager!Enter
  <2> DEFINE shown == IF frame.lit \in 0..(FmRows - 1) THEN frame.rows[frame.lit] ELSE Manager!NoRow
  <2>1. Manager!Event /\ Manager!Activate(sel, shown)
    BY <1>9 DEF Manager!Enter
  <2>2. ASSUME batch = 1 PROVE shown = Manager!RowAt(cwd, entries, sel)
    <3>1. FrameIsCurrent
      BY <1>0, <2>2
    <3>2. frame.lit \in 0..(FmRows - 1) /\ scroll + frame.lit = sel
      BY <1>0, <3>1 DEF FrameIsCurrent
    <3> QED
      BY <3>1, <3>2 DEF FrameIsCurrent, ShownRow
  <2> HIDE DEF shown
  <2> QED
    BY <1>0, <1>5, <2>1, <2>2
<1>10. ASSUME NEW y \in 0..(FmRows - 1), Manager!Hover(y) PROVE ManagerShows'
  <2>1. sel' \in Nat /\ UNCHANGED <<scroll, acted>> /\ Manager!Event
    BY <1>0, <1>10 DEF Manager!Hover
  <2> QED
    BY <1>0, <1>3, <2>1
<1>11. ASSUME NEW y \in 0..(FmRows - 1), Manager!Press(y) PROVE ManagerShows'
  <2>1. CASE scroll + y < Manager!Rows
    <3>1. Manager!Event /\ Manager!Activate(scroll + y, frame.rows[y]) /\ scroll + y \in Nat
      BY <1>0, <1>11, <2>1 DEF Manager!Press
    <3>2. batch = 1 => frame.rows[y] = Manager!RowAt(cwd, entries, scroll + y)
      BY <1>0 DEF FrameIsCurrent, ShownRow
    <3> QED
      BY <1>5, <3>1, <3>2
  <2>2. CASE ~(scroll + y < Manager!Rows)
    BY <1>0, <1>3, <1>11, <2>2 DEF Manager!Press, Manager!Stay
  <2> QED
    BY <2>1, <2>2
<1>12. CASE Manager!EndBatch
  <2>1. /\ batch' = 0 /\ scroll' = Manager!Scrolled /\ UNCHANGED <<cwd, entries, sel, acted>>
        /\ frame'.lit = sel - scroll'
        /\ frame'.rows = [y \in 0..(FmRows - 1) |-> Manager!RowAt(cwd, entries, scroll' + y)]
    BY <1>12 DEF Manager!EndBatch
  <2>2. scroll' \in Nat /\ sel \in scroll'..(scroll' + FmRows - 1)
    BY <1>0, <2>1 DEF Manager!Scrolled
  <2>3. ASSUME NEW y \in 0..(FmRows - 1) PROVE frame'.rows[y] = ShownRow(y)'
    BY <2>1 DEF ShownRow
  <2> QED
    BY <1>0, <2>1, <2>2, <2>3 DEF ManagerShows, FrameIsCurrent, Manager!OpensWhatIsShown
<1>13. CASE Manager!Later
  BY <1>1, <1>13 DEF Manager!Later
<1>14. CASE Manager!Others
  BY <1>1, <1>14 DEF Manager!Others, Manager!Stay
<1> QED
  BY <1>6, <1>7, <1>8, <1>9, <1>10, <1>11, <1>12, <1>13, <1>14 DEF Manager!FmNext

(***************************************************************************)
(* A guest and what it gets of a reply.                                    *)
(***************************************************************************)
\* A region is no longer than the limit and written no further than its end, and whole
\* records of input are queued.
GuestHolds ==
  /\ region \in 0..Guest!MaxShmSize /\ written \in 0..region
  /\ \E k \in Nat : queued = k * Guest!Event
  /\ Guest!RepliesWhole

\* What is on its way to the guest has a length.
GuestCounts == chan \in Guest!Chan /\ signals \in Nat

LEMMA Sizes ==
  /\ Guest!RingCap \in Nat \ {0} /\ Guest!ShmBuf = Guest!RingCap
  /\ Guest!MaxShmSize \in Nat /\ Guest!Header \in Nat /\ Guest!DefaultBuf \in Nat
  /\ Guest!MaxShmSize + Guest!Header <= Guest!RingCap
  /\ Guest!RingCap - 9 \in Nat /\ Guest!DefaultBuf <= Guest!RingCap
  /\ Guest!RecvBuf \in Nat /\ Guest!NetBuf \in Nat /\ Guest!ProcBuf \in Nat
  /\ Guest!RecvBuf <= Guest!RingCap /\ Guest!NetBuf <= Guest!RingCap /\ Guest!ProcBuf <= Guest!RingCap
BY DEF Guest!RingCap, Guest!ShmBuf, Guest!MaxShmSize, Guest!Header, Guest!DefaultBuf,
       Guest!RecvBuf, Guest!NetBuf, Guest!ProcBuf

\* A buffer that is no longer than the ring takes all or nothing, and all if it fits.
LEMMA GivenWhole ==
  ASSUME NEW op \in {"none", "recv", "shm", "fetch", "signals", "input"},
         NEW b \in {Guest!DefaultBuf, Guest!RecvBuf, Guest!ShmBuf, Guest!NetBuf}, NEW real \in Nat,
         got' = Guest!Was(op, b, Guest!Given(real, b))
  PROVE  got'.op = op /\ Guest!WholeIfItFits'
<1> DEFINE r == Guest!Given(real, b)
<1>1. r.real = real /\ r.given \in {0, real}
  BY DEF Guest!Given
<1>2. Guest!Header + real <= b => r.given = real /\ ~r.stuck
  <2> SUFFICES ASSUME Guest!Header + real <= b PROVE r.given = real /\ ~r.stuck
    OBVIOUS
  <2>1. b \in Nat /\ b <= Guest!RingCap
    BY Sizes
  <2>2. ~(Guest!Header + real > Guest!RingCap)
    BY <2>1, Sizes
  <2> QED
    BY <2>2 DEF Guest!Given
<1>3. got'.op = op /\ got'.buf = b /\ got'.size = real /\ got'.answer = r
  BY <1>1 DEF Guest!Was
<1> HIDE DEF r
<1> QED
  BY <1>1, <1>2, <1>3 DEF Guest!WholeIfItFits, Guest!Arrives

LEMMA GivenThere ==
  ASSUME NEW real \in Nat, NEW b \in Nat, Guest!Header + real <= b, b <= Guest!RingCap
  PROVE  Guest!Given(real, b) = [real |-> real, given |-> real, stuck |-> FALSE]
BY DEF Guest!Given, Guest!Header, Guest!RingCap

LEMMA ClippedTo ==
  ASSUME region \in Nat, NEW off \in Nat, NEW len \in Nat
  PROVE  /\ Guest!Clipped(off, len) \in 0..region
         /\ off < region => off + Guest!Clipped(off, len) <= region
BY DEF Guest!Clipped, Guest!Lesser

LEMMA Whole == ASSUME NEW k \in Nat PROVE (k * 12) % 12 = 0
OBVIOUS

\* As many entries as fit by their product fit by the quotient.
LEMMA ProductOf == ASSUME NEW n \in Nat, NEW e \in Nat PROVE n * e \in Nat
OBVIOUS

LEMMA QuotientOf ==
  ASSUME NEW n \in Nat, NEW e \in Nat \ {0}, NEW a \in Nat, n * e <= a
  PROVE  n <= a \div e /\ a \div e \in Nat
<1> DEFINE q == a \div e
<1>1. q \in Nat /\ e * q <= a /\ a < e * q + e
  OBVIOUS
<1> HIDE DEF q
<1>2. n * e < (q + 1) * e
  BY <1>1
<1>3. n < q + 1
  BY <1>1, <1>2
<1> QED
  BY <1>1, <1>3 DEF q

\* A channel stays one, whatever is sent, taken or closed.
LEMMA GuestCountsBegin == Guest!GuestInit => GuestCounts
<1> SUFFICES ASSUME Guest!GuestInit PROVE GuestCounts
  OBVIOUS
<1>1. chan = Guest!Connected(Guest!NewChan) /\ signals = 0
  BY DEF Guest!GuestInit
<1>2. Guest!NewChan \in Guest!Chan
  BY DEF Guest!NewChan, Guest!Chan, Guest!End
<1>3. Guest!Connected(Guest!NewChan) \in Guest!Chan
  BY <1>2 DEF Guest!Connected, Guest!Chan, Guest!End
<1> QED
  BY <1>1, <1>3 DEF GuestCounts

LEMMA GuestCountsStep == GuestCounts /\ Guest!GuestNext => GuestCounts'
<1> SUFFICES ASSUME GuestCounts, Guest!GuestNext PROVE GuestCounts'
  OBVIOUS
<1>1. chan \in Guest!Chan /\ signals \in Nat /\ MaxSignals \in Nat
  BY ProgramsAssumption DEF GuestCounts
<1>2. ASSUME NEW n \in Msg, Guest!ChanSend(n) PROVE GuestCounts'
  <2>1. chan' = Guest!Sent(chan, 0, n) /\ signals' = signals
    BY <1>2 DEF Guest!ChanSend
  <2>2. Guest!Sent(chan, 0, n) \in Guest!Chan
    <3> DEFINE m == Append(chan.inbox[1], n)
    <3>1. chan.inbox[1] \in Seq(Msg)
      BY <1>1 DEF Guest!Chan, Guest!End
    <3>2. m \in Seq(Msg)
      BY <1>2, <3>1
    <3> DEFINE w == [chan.inbox EXCEPT ![1] = m]
    <3>3. Guest!Sent(chan, 0, n) = [chan EXCEPT !.inbox = w]
      BY <1>1 DEF Guest!Sent, Guest!Chan
    <3> HIDE DEF m
    <3>4. w \in [Guest!End -> Seq(Msg)]
      BY <1>1, <3>2 DEF Guest!Chan, Guest!End
    <3> HIDE DEF w
    <3> QED
      BY <1>1, <3>3, <3>4 DEF Guest!Chan
  <2> QED
    BY <1>1, <2>1, <2>2 DEF GuestCounts
<1>3. CASE Guest!SenderCloses
  <2>1. chan' = Guest!Closed(chan, 0) /\ signals' = signals
    BY <1>3 DEF Guest!SenderCloses
  <2>2. [chan EXCEPT !.open[0] = FALSE] \in Guest!Chan
    BY <1>1 DEF Guest!Chan, Guest!End
  <2>3. Guest!NoChan \in Guest!Chan
    BY DEF Guest!NoChan, Guest!Chan, Guest!End
  <2>4. Guest!Closed(chan, 0) \in Guest!Chan
    BY <2>2, <2>3 DEF Guest!Closed
  <2> QED
    BY <1>1, <2>1, <2>4 DEF GuestCounts
<1>4. CASE Guest!ChanRecv
  <2>1. /\ signals' = signals
        /\ chan' = chan \/ (chan.inbox[1] # <<>> /\ chan' = Guest!Received(chan, 1))
    BY <1>4 DEF Guest!ChanRecv
  <2>2. ASSUME chan.inbox[1] # <<>> PROVE Guest!Received(chan, 1) \in Guest!Chan
    <3> DEFINE m == Tail(chan.inbox[1])
    <3>1. chan.inbox[1] \in Seq(Msg)
      BY <1>1 DEF Guest!Chan, Guest!End
    <3>2. m \in Seq(Msg)
      BY <2>2, <3>1
    <3> DEFINE w == [chan.inbox EXCEPT ![1] = m]
    <3>3. Guest!Received(chan, 1) = [chan EXCEPT !.inbox = w]
      BY <1>1 DEF Guest!Received, Guest!Chan
    <3> HIDE DEF m
    <3>4. w \in [Guest!End -> Seq(Msg)]
      BY <1>1, <3>2 DEF Guest!Chan, Guest!End
    <3> HIDE DEF w
    <3> QED
      BY <1>1, <3>3, <3>4 DEF Guest!Chan
  <2> QED
    BY <1>1, <2>1, <2>2 DEF GuestCounts
<1>5. ASSUME NEW n \in {1, MaxSignals}, Guest!Kill(n) PROVE GuestCounts'
  BY <1>1, <1>5 DEF Guest!Kill, GuestCounts
<1>6. CASE Guest!SigWait
  BY <1>1, <1>6 DEF Guest!SigWait, GuestCounts
<1>7. ASSUME UNCHANGED <<chan, signals>> PROVE GuestCounts'
  BY <1>1, <1>7 DEF GuestCounts
<1>8. ASSUME NEW n, \/ Guest!ShmCreate(n) \/ Guest!Fetch(n) \/ Guest!Deliver(n)
                   \/ Guest!ProcList(n) \/ Guest!WinReadInput
                   \/ (\E off : Guest!ShmRead(off, n) \/ Guest!ShmWrite(off, n))
      PROVE  GuestCounts'
  BY <1>7, <1>8 DEF Guest!ShmCreate, Guest!Fetch, Guest!Deliver, Guest!ProcList,
     Guest!WinReadInput, Guest!ShmRead, Guest!ShmWrite
<1> QED
  BY <1>2, <1>3, <1>4, <1>5, <1>6, <1>8 DEF Guest!GuestNext

LEMMA GuestBegins == Guest!GuestInit => GuestHolds
<1> SUFFICES ASSUME Guest!GuestInit PROVE GuestHolds
  OBVIOUS
<1>1. region = 0 /\ written = 0 /\ queued = 0 /\ got = Guest!Was("none", 0, Guest!Nothing)
  BY DEF Guest!GuestInit
<1>2. got.op = "none" /\ got.answer.given = 0 /\ got.buf = 0 /\ got.size = 0
  BY <1>1 DEF Guest!Was, Guest!Nothing
<1>3. queued = 0 * Guest!Event
  BY <1>1 DEF Guest!Event
<1>4. Guest!RepliesWhole
  BY <1>1, <1>2, Sizes DEF Guest!RepliesWhole, Guest!WholeIfItFits, Guest!RegionsReadWhole,
                    Guest!EventsWhole, Guest!Event, Guest!Header
<1> QED
  BY <1>1, <1>3, <1>4, Sizes DEF GuestHolds

\* What the last call got, by its kind.
LEMMA GuestGot ==
  ASSUME GuestHolds,
         region' \in 0..Guest!MaxShmSize, written' \in 0..region',
         \E k \in Nat : queued' = k * Guest!Event,
         \/ got' = got
         \/ /\ Guest!WholeIfItFits'
            /\ \/ got'.op \notin {"shm", "input"}
               \/ got'.op = "shm" /\ Guest!Arrives'
               \/ got'.op = "input" /\ Guest!Arrives' /\ got'.answer.real % Guest!Event = 0
  PROVE  GuestHolds'
<1>1. written' <= Guest!RingCap - Guest!Header /\ written' <= Guest!ShmBuf - Guest!Header
  BY Sizes
<1>2. queued' % Guest!Event = 0
  BY Whole DEF Guest!Event
<1>3. Guest!WholeIfItFits'
  BY DEF GuestHolds, Guest!RepliesWhole, Guest!WholeIfItFits, Guest!Arrives
<1>4. (got.op = "shm" => Guest!Arrives) /\ (got.op = "input" => Guest!Arrives /\ got.answer.real % Guest!Event = 0)
  BY DEF GuestHolds, Guest!RepliesWhole, Guest!RegionsReadWhole, Guest!EventsWhole
<1>5. (got'.op = "shm" => Guest!Arrives') /\ (got'.op = "input" => Guest!Arrives' /\ got'.answer.real % Guest!Event = 0)
  BY <1>4 DEF Guest!Arrives
<1>6. Guest!RepliesWhole'
  BY <1>1, <1>2, <1>3, <1>5 DEF Guest!RepliesWhole, Guest!RegionsReadWhole, Guest!EventsWhole
<1> QED
  BY <1>6 DEF GuestHolds

\* Every call leaves what it got whole.
LEMMA GuestStep == GuestCounts /\ GuestHolds /\ Guest!GuestNext => GuestHolds'
<1> SUFFICES ASSUME GuestCounts, GuestHolds, Guest!GuestNext PROVE GuestHolds'
  OBVIOUS
<1>1. /\ region \in 0..Guest!MaxShmSize /\ written \in 0..region /\ region \in Nat
      /\ \E k \in Nat : queued = k * Guest!Event
  BY Sizes DEF GuestHolds
<1>2. ASSUME NEW n, Guest!ChanSend(n) PROVE GuestHolds'
  BY <1>1, <1>2, GuestGot DEF Guest!ChanSend, Guest!memVars
<1>3. CASE Guest!SenderCloses
  BY <1>1, <1>3, GuestGot DEF Guest!SenderCloses, Guest!memVars
<1>4. CASE Guest!ChanRecv
  <2>1. region' = region /\ written' = written /\ queued' = queued
    BY <1>4 DEF Guest!ChanRecv, Guest!memVars
  <2>2. ASSUME NEW n \in Nat, got' = Guest!Was("recv", Guest!RecvBuf, Guest!Given(n, Guest!RecvBuf))
        PROVE  got'.op = "recv" /\ Guest!WholeIfItFits'
    BY <2>2, GivenWhole
  <2>3. ASSUME got' = Guest!Was("recv", Guest!RecvBuf, Guest!Nothing)
        PROVE  got'.op = "recv" /\ Guest!WholeIfItFits'
    BY <2>3 DEF Guest!Was, Guest!Nothing, Guest!WholeIfItFits, Guest!Arrives
  <2>4. got'.op = "recv" /\ Guest!WholeIfItFits'
    <3> DEFINE box == chan.inbox[1]
    <3>1. \/ /\ box # <<>>
             /\ got' = Guest!Was("recv", Guest!RecvBuf, Guest!Given(Head(box), Guest!RecvBuf))
          \/ got' = Guest!Was("recv", Guest!RecvBuf, Guest!Nothing)
      BY <1>4 DEF Guest!ChanRecv
    <3>2. box \in Seq(Msg)
      BY DEF GuestCounts, Guest!Chan, Guest!End
    <3> HIDE DEF box
    <3>3. box # <<>> => Head(box) \in Nat
      BY <3>2, ProgramsAssumption
    <3> QED
      BY <2>2, <2>3, <3>1, <3>3
  <2> QED
    BY <1>1, <2>1, <2>4, GuestGot
<1>5. ASSUME NEW n \in {1, Guest!RingCap}, Guest!ShmCreate(n) PROVE GuestHolds'
  <2>1. /\ region = 0 /\ region' = Guest!Lesser(n, Guest!MaxShmSize)
        /\ written' = written /\ queued' = queued /\ got' = got
    BY <1>5 DEF Guest!ShmCreate
  <2>2. region' \in 0..Guest!MaxShmSize /\ written' \in 0..region'
    BY <1>1, <1>5, <2>1, Sizes DEF Guest!Lesser
  <2> QED
    BY <1>1, <2>1, <2>2, GuestGot
<1>6. ASSUME NEW off \in {0, 1}, Guest!ShmRead(off, Guest!RingCap) PROVE GuestHolds'
  <2> DEFINE real == Guest!Clipped(off, Guest!RingCap)
  <2>1. /\ region' = region /\ written' = written /\ queued' = queued
        /\ got' = Guest!Was("shm", Guest!ShmBuf, Guest!Given(real, Guest!ShmBuf))
    BY <1>6 DEF Guest!ShmRead, Guest!memVars
  <2>2. real \in 0..region
    BY <1>1, ClippedTo, Sizes
  <2> HIDE DEF real
  <2>3. real \in Nat /\ Guest!ShmBuf \in Nat /\ Guest!Header + real <= Guest!ShmBuf /\ Guest!ShmBuf <= Guest!RingCap
    BY <1>1, <2>2, Sizes
  <2>4. Guest!Given(real, Guest!ShmBuf) = [real |-> real, given |-> real, stuck |-> FALSE]
    BY <2>3, GivenThere
  <2>5. got'.op = "shm" /\ Guest!Arrives' /\ Guest!WholeIfItFits'
    <3>1. got'.op = "shm" /\ Guest!WholeIfItFits'
      BY <2>1, <2>3, GivenWhole
    <3> QED
      BY <2>1, <2>4, <3>1 DEF Guest!Was, Guest!Arrives
  <2> QED
    BY <1>1, <2>1, <2>5, GuestGot
<1>7. ASSUME NEW off \in {0, 1}, NEW n \in {1, Guest!RingCap - 9}, Guest!ShmWrite(off, n) PROVE GuestHolds'
  <2> DEFINE real == Guest!Clipped(off, n)
  <2>1. /\ region' = region /\ queued' = queued /\ got' = got
        /\ written' = Guest!Greater(written, off + real) /\ off < region
    BY <1>7 DEF Guest!ShmWrite
  <2>2. real \in 0..region /\ off + real <= region
    <3>1. off \in Nat /\ n \in Nat
      BY Sizes
    <3> QED
      BY <1>1, <2>1, <3>1, ClippedTo
  <2> HIDE DEF real
  <2>3. written' \in 0..region'
    BY <1>1, <2>1, <2>2 DEF Guest!Greater
  <2> QED
    BY <1>1, <2>1, <2>3, GuestGot
<1>8. ASSUME NEW n \in Bodies, Guest!Fetch(n) PROVE GuestHolds'
  <2>1. region' = region /\ written' = written /\ queued' = queued
    BY <1>8 DEF Guest!Fetch, Guest!memVars
  <2>2. got'.op = "fetch" /\ Guest!WholeIfItFits'
    <3>1. Guest!Lesser(n, Guest!MaxNetBytes) \in Nat
      BY ProgramsAssumption DEF Guest!Lesser, Guest!MaxNetBytes
    <3> QED
      BY <1>8, <3>1, GivenWhole DEF Guest!Fetch
  <2> QED
    BY <1>1, <2>1, <2>2, GuestGot
<1>9. ASSUME NEW n, Guest!Kill(n) PROVE GuestHolds'
  BY <1>1, <1>9, GuestGot DEF Guest!Kill, Guest!memVars
<1>10. CASE Guest!SigWait
  <2>1. region' = region /\ written' = written /\ queued' = queued
    BY <1>10 DEF Guest!SigWait, Guest!memVars
  <2>2. got'.op = "signals" /\ Guest!WholeIfItFits'
    BY <1>10, GivenWhole DEF Guest!SigWait, GuestCounts
  <2> QED
    BY <1>1, <2>1, <2>2, GuestGot
<1>11. ASSUME NEW n \in {1, Guest!MaxEvents, 2 * Guest!MaxEvents + 1}, Guest!Deliver(n) PROVE GuestHolds'
  <2>1. region' = region /\ written' = written /\ got' = got /\ queued' = n * Guest!Event /\ n \in Nat
    BY <1>11 DEF Guest!Deliver, Guest!memVars, Guest!MaxEvents
  <2> QED
    BY <1>1, <2>1, GuestGot
<1>12. CASE Guest!WinReadInput
  <2> DEFINE drained == Guest!Lesser(queued, Guest!MaxEvents * Guest!Event)
  <2>1. /\ region' = region /\ written' = written /\ queued' = queued - drained
        /\ got' = Guest!Was("input", Guest!DefaultBuf, Guest!Given(drained, Guest!DefaultBuf))
    BY <1>12 DEF Guest!WinReadInput, Guest!memVars
  <2>2. PICK k \in Nat : queued = k * 12
    BY <1>1 DEF Guest!Event
  <2>3. PICK j \in 0..20 : drained = j * 12 /\ j <= k
    <3>1. CASE k <= 20
      <4>1. drained = k * 12
        BY <2>2, <3>1 DEF Guest!Lesser, Guest!MaxEvents, Guest!Event
      <4> QED
        BY <3>1, <4>1
    <3>2. CASE ~(k <= 20)
      <4>1. drained = 20 * 12
        BY <2>2, <3>2 DEF Guest!Lesser, Guest!MaxEvents, Guest!Event
      <4> QED
        BY <3>2, <4>1
    <3> QED
      BY <3>1, <3>2
  <2> HIDE DEF drained
  <2>4. drained \in Nat /\ Guest!DefaultBuf \in Nat /\ Guest!Header + drained <= Guest!DefaultBuf
        /\ Guest!DefaultBuf <= Guest!RingCap
    BY <2>3, Sizes DEF Guest!Header, Guest!DefaultBuf
  <2>5. Guest!Given(drained, Guest!DefaultBuf) = [real |-> drained, given |-> drained, stuck |-> FALSE]
    BY <2>4, GivenThere
  <2>6. drained % 12 = 0
    BY <2>3, Whole
  <2>7. got'.op = "input" /\ Guest!Arrives' /\ got'.answer.real % Guest!Event = 0 /\ Guest!WholeIfItFits'
    <3>1. got'.op = "input" /\ Guest!WholeIfItFits'
      BY <2>1, <2>4, GivenWhole
    <3> QED
      BY <2>1, <2>5, <2>6, <3>1 DEF Guest!Was, Guest!Arrives, Guest!Event
  <2>8. \E i \in Nat : queued' = i * Guest!Event
    <3>1. k - j \in Nat /\ queued' = (k - j) * 12
      BY <2>1, <2>2, <2>3
    <3> QED
      BY <3>1 DEF Guest!Event
  <2> QED
    BY <1>1, <2>1, <2>7, <2>8, GuestGot
<1>13. ASSUME NEW t \in Tables, Guest!ProcList(t) PROVE GuestHolds'
  <2> DEFINE size == t.count * t.entry
             fit == Guest!ProcBuf - Guest!Header
             some == [real |-> t.count, stuck |-> FALSE, given |-> Guest!Lesser(t.count, fit \div t.entry)]
             ans == IF Guest!Header + size > Guest!RingCap
                    THEN [real |-> t.count, given |-> 0, stuck |-> TRUE] ELSE some
  <2>1. /\ region' = region /\ written' = written /\ queued' = queued
        /\ got' = [op |-> "procs", buf |-> Guest!ProcBuf, size |-> size, answer |-> ans]
    BY <1>13 DEF Guest!ProcList, Guest!memVars
  <2>2. ASSUME Guest!Header + size <= Guest!ProcBuf PROVE Guest!Arrives'
    <3>1. t.count \in Nat /\ t.entry \in Nat \ {0}
      BY ProgramsAssumption
    <3>2. size \in Nat /\ fit \in Nat /\ size <= fit
      BY <2>2, <3>1, ProductOf DEF Guest!ProcBuf, Guest!Header
    <3>3. t.count <= fit \div t.entry /\ fit \div t.entry \in Nat
      BY <3>1, <3>2, QuotientOf
    <3>4. Guest!Lesser(t.count, fit \div t.entry) = t.count
      <4> HIDE DEF size, fit
      <4> QED
        BY <3>1, <3>3 DEF Guest!Lesser
    <3>5. ~(Guest!Header + size > Guest!RingCap)
      BY <2>2, <3>2, Sizes
    <3>6. ans = some /\ ~some.stuck /\ some.given = t.count /\ some.real = t.count
      <4> HIDE DEF size, fit
      <4> QED
        BY <3>4, <3>5
    <3> HIDE DEF ans, some
    <3> QED
      BY <2>1, <3>6 DEF Guest!Arrives
  <2> HIDE DEF ans, size
  <2>3. got'.op = "procs" /\ Guest!WholeIfItFits'
    BY <2>1, <2>2 DEF Guest!WholeIfItFits
  <2> QED
    BY <1>1, <2>1, <2>3, GuestGot
<1> QED
  BY <1>2, <1>3, <1>4, <1>5, <1>6, <1>7, <1>8, <1>9, <1>10, <1>11, <1>12, <1>13 DEF Guest!GuestNext

(***************************************************************************)
(* The entries of a sequence that are in a set, in their order.            *)
(***************************************************************************)
\* k is picked from the first n of s, in order.
Picked(k, s, n) ==
  \E f : /\ f \in [1..Len(k) -> 1..n]
         /\ \A i, j \in 1..Len(k) : i < j => f[i] < f[j]
         /\ \A i \in 1..Len(k) : k[i] = s[f[i]]
\* ... and all of them that are in S.
AllOf(k, s, n, S) ==
  /\ Picked(k, s, n)
  /\ \A i \in 1..n : s[i] \in S => \E j \in 1..Len(k) : k[j] = s[i]

IsKept(w, s, V, S) ==
  /\ w \in [0..Len(s) -> Seq(V \cap S)] /\ w[0] = <<>>
  /\ \A i \in 1..Len(s) : w[i] = IF s[i] \in S THEN Append(w[i - 1], s[i]) ELSE w[i - 1]

LEMMA KeptOf ==
  ASSUME NEW V, NEW S, NEW s \in Seq(V)
  PROVE  \E w : IsKept(w, s, V, S) /\ Trees!Kept(s, S) = w[Len(s)]
<1> DEFINE n == Len(s)
           P == Seq(V \cap S)
           Put(i, x) == IF s[i] \in S THEN Append(x, s[i]) ELSE x
           G == [i \in 1..n |-> [x \in P |-> Put(i, x)]]
           Is(f) == f = [i \in 0..n |-> IF i = 0 THEN <<>>
                                        ELSE IF s[i] \in S THEN Append(f[i - 1], s[i])
                                        ELSE f[i - 1]]
           u == CHOOSE f : Is(f)
<1>1. n \in Nat /\ \A i \in 1..n : s[i] \in V
  BY LenProperties, ElementOfSeq
<1>2. ASSUME NEW i \in 1..n, NEW x \in P PROVE Put(i, x) \in P
  <2>1. s[i] \in S => s[i] \in V \cap S
    BY <1>1
  <2> QED
    BY <2>1, AppendProperties
<1>3. G \in [1..n -> [P -> P]]
  <2> HIDE DEF P, Put
  <2> QED
    BY <1>2
<1>4. <<>> \in P
  BY EmptySeq
<1>5. PICK w : IsMade(w, P, G, <<>>, n)
  <2> HIDE DEF P, G, n
  <2> QED
    BY <1>1, <1>3, <1>4, Makes
<1>6. w \in [0..n -> P] /\ w[0] = <<>> /\ \A i \in 1..n : w[i] = G[i][w[i - 1]]
  BY <1>5 DEF IsMade
<1>7. ASSUME NEW i \in 1..n PROVE w[i] = Put(i, w[i - 1])
  <2>0. i - 1 \in 0..n
    BY <1>1
  <2> HIDE DEF P, Put
  <2>1. w[i - 1] \in P
    BY <1>6, <2>0
  <2> QED
    BY <1>6, <2>1
<1>8. Is(w)
  <2>1. ASSUME NEW i \in 0..n
        PROVE  w[i] = IF i = 0 THEN <<>> ELSE Put(i, w[i - 1])
    <3>1. i # 0 => i \in 1..n
      BY <1>1
    <3> HIDE DEF P, G, n, Put
    <3> QED
      BY <1>6, <1>7, <3>1
  <2> HIDE DEF P
  <2> QED
    BY <1>6, <2>1
<1>9. Is(u)
  BY <1>8
<1>10. Trees!Kept(s, S) = u[n]
  BY DEF Trees!Kept
<1> HIDE DEF u
<1>11. DOMAIN u = 0..n /\ u[0] = <<>> /\ \A i \in 1..n : u[i] = Put(i, u[i - 1])
  <2>1. u = [i \in 0..n |-> IF i = 0 THEN <<>> ELSE Put(i, u[i - 1])]
    BY <1>9
  <2> HIDE DEF Put
  <2>2. 0 \in 0..n /\ \A i \in 1..n : i \in 0..n /\ i # 0
    BY <1>1
  <2> HIDE DEF n
  <2> QED
    BY <2>1, <2>2
<1>12. ASSUME NEW i \in 0..n PROVE u[i] \in P
  <2>1. ASSUME NEW k \in 0..n, k # n /\ u[k] \in P PROVE u[k + 1] \in P
    <3>1. k + 1 \in 1..n /\ (k + 1) - 1 = k
      BY <1>1, <2>1
    <3>2. u[k + 1] = Put(k + 1, u[k])
      BY <1>11, <3>1
    <3> HIDE DEF P, Put
    <3> QED
      BY <1>2, <2>1, <3>1, <3>2
  <2> HIDE DEF P, Put
  <2> QED
    BY <1>1, <1>4, <1>11, <2>1, WalkStays
<1>13. u \in [0..n -> P]
  <2>1. u = [i \in 0..n |-> u[i]]
    BY <1>9
  <2> HIDE DEF P
  <2> QED
    BY <1>12, <2>1
<1> QED
  BY <1>10, <1>11, <1>13 DEF IsKept

LEMMA PickedMore ==
  ASSUME NEW V, NEW k \in Seq(V), NEW s, NEW n \in Nat, NEW S, AllOf(k, s, n, S)
  PROVE  /\ s[n + 1] \notin S => AllOf(k, s, n + 1, S)
         /\ s[n + 1] \in V => AllOf(Append(k, s[n + 1]), s, n + 1, S)
<1>1. PICK f : /\ f \in [1..Len(k) -> 1..n]
               /\ \A i, j \in 1..Len(k) : i < j => f[i] < f[j]
               /\ \A i \in 1..Len(k) : k[i] = s[f[i]]
  BY DEF AllOf, Picked
<1>2. \A i \in 1..n : s[i] \in S => \E j \in 1..Len(k) : k[j] = s[i]
  BY DEF AllOf
<1>3. Len(k) \in Nat
  BY LenProperties
<1>4. \A i \in 1..(n + 1) : i \in 1..n \/ i = n + 1
  OBVIOUS
<1>5. ASSUME s[n + 1] \notin S PROVE AllOf(k, s, n + 1, S)
  <2>1. f \in [1..Len(k) -> 1..(n + 1)]
    BY <1>1
  <2>2. Picked(k, s, n + 1)
    BY <1>1, <2>1 DEF Picked
  <2> QED
    BY <1>2, <1>4, <1>5, <2>2 DEF AllOf
<1>6. ASSUME s[n + 1] \in V PROVE AllOf(Append(k, s[n + 1]), s, n + 1, S)
  <2> DEFINE m == Len(k)
             h == Append(k, s[n + 1])
             g == [i \in 1..(m + 1) |-> IF i = m + 1 THEN n + 1 ELSE f[i]]
  <2>1. /\ Len(h) = m + 1 /\ h[m + 1] = s[n + 1]
        /\ \A i \in 1..m : h[i] = k[i]
    BY <1>6, AppendProperties
  <2> HIDE DEF h
  <2>2. \A i \in 1..(m + 1) : i = m + 1 \/ (i # m + 1 /\ i \in 1..m)
    BY <1>3
  <2>3. /\ g[m + 1] = n + 1 /\ \A i \in 1..m : g[i] = f[i] /\ f[i] \in 1..n
    <3>1. m + 1 \in 1..(m + 1) /\ \A i \in 1..m : i \in 1..(m + 1) /\ i # m + 1
      BY <1>3
    <3> HIDE DEF m
    <3> QED
      BY <1>1, <3>1 DEF m
  <2>4. DOMAIN g = 1..(m + 1) /\ g = [i \in 1..(m + 1) |-> g[i]]
    OBVIOUS
  <2> HIDE DEF g
  <2>5. ASSUME NEW i \in 1..(m + 1) PROVE g[i] \in 1..(n + 1)
    <3>1. n + 1 \in 1..(n + 1) /\ \A x \in 1..n : x \in 1..(n + 1)
      OBVIOUS
    <3> HIDE DEF m
    <3> QED
      BY <2>2, <2>3, <3>1
  <2>6. ASSUME NEW i \in 1..(m + 1), NEW j \in 1..(m + 1), i < j PROVE g[i] < g[j]
    <3>1. i \in 1..m
      BY <1>3, <2>6
    <3>2. g[i] = f[i] /\ f[i] \in 1..n
      BY <2>3, <3>1
    <3>3. CASE j = m + 1
      BY <2>3, <3>2, <3>3
    <3>4. CASE j \in 1..m
      BY <1>1, <2>3, <2>6, <3>1, <3>2, <3>4
    <3> QED
      BY <2>2, <3>3, <3>4
  <2>7. ASSUME NEW i \in 1..(m + 1) PROVE h[i] = s[g[i]]
    <3> HIDE DEF m
    <3> QED
      BY <1>1, <2>1, <2>2, <2>3 DEF m
  <2>8. g \in [1..(m + 1) -> 1..(n + 1)]
    <3> HIDE DEF m
    <3> QED
      BY <2>4, <2>5
  <2>9. Picked(h, s, n + 1)
    <3> HIDE DEF m
    <3> QED
      BY <2>1, <2>6, <2>7, <2>8 DEF Picked
  <2>10. ASSUME NEW i \in 1..(n + 1), s[i] \in S PROVE \E j \in 1..Len(h) : h[j] = s[i]
    <3>1. m + 1 \in 1..(m + 1) /\ \A j \in 1..m : j \in 1..(m + 1)
      BY <1>3
    <3>2. CASE i = n + 1
      BY <2>1, <3>1, <3>2
    <3>3. CASE i \in 1..n
      <4>1. PICK j \in 1..m : k[j] = s[i]
        BY <1>2, <2>10, <3>3
      <4> HIDE DEF m
      <4> QED
        BY <2>1, <3>1, <4>1
    <3> QED
      BY <1>4, <3>2, <3>3
  <2> QED
    BY <2>9, <2>10 DEF AllOf, h
<1> QED
  BY <1>5, <1>6

LEMMA KeptIs ==
  ASSUME NEW V, NEW S, NEW s \in Seq(V)
  PROVE  Trees!Kept(s, S) \in Seq(V \cap S) /\ AllOf(Trees!Kept(s, S), s, Len(s), S)
<1> DEFINE n == Len(s)
<1>1. PICK w : IsKept(w, s, V, S) /\ Trees!Kept(s, S) = w[n]
  BY KeptOf
<1>2. n \in Nat /\ \A i \in 1..n : s[i] \in V
  BY LenProperties, ElementOfSeq
<1>3. /\ w[0] = <<>> /\ \A i \in 0..n : w[i] \in Seq(V \cap S)
      /\ \A i \in 1..n : w[i] = IF s[i] \in S THEN Append(w[i - 1], s[i]) ELSE w[i - 1]
  BY <1>1 DEF IsKept
<1> HIDE DEF n
<1> DEFINE H == {i \in Nat : i <= n => AllOf(w[i], s, i, S)}
<1>4. 0 \in H
  <2> DEFINE e == <<>>
  <2>1. Len(e) = 0
    OBVIOUS
  <2> HIDE DEF e
  <2> DEFINE f == [i \in 1..0 |-> 0]
  <2>2. f \in [1..Len(e) -> 1..0] /\ 1..Len(e) = {}
    BY <2>1
  <2> HIDE DEF f
  <2>3. AllOf(e, s, 0, S)
    BY <2>2 DEF AllOf, Picked
  <2> QED
    BY <1>3, <2>3 DEF e
<1>5. ASSUME NEW i \in Nat, i \in H PROVE i + 1 \in H
  <2>1. CASE i + 1 <= n
    <3>1. i + 1 \in 1..n /\ (i + 1) - 1 = i /\ i <= n /\ i \in 0..n
      BY <1>2, <2>1
    <3>2. AllOf(w[i], s, i, S) /\ w[i] \in Seq(V \cap S) /\ s[i + 1] \in V
      BY <1>2, <1>3, <1>5, <3>1
    <3>3. w[i + 1] = IF s[i + 1] \in S THEN Append(w[i], s[i + 1]) ELSE w[i]
      BY <1>3, <3>1
    <3> DEFINE T == V \cap S
    <3>4. s[i + 1] \in S => s[i + 1] \in T
      BY <3>2
    <3> HIDE DEF T
    <3>5. w[i] \in Seq(T)
      BY <3>2 DEF T
    <3>6. AllOf(w[i + 1], s, i + 1, S)
      BY <3>2, <3>3, <3>4, <3>5, PickedMore
    <3> QED
      BY <3>6
  <2> QED
    BY <2>1
<1>6. Nat \subseteq H
  <2> HIDE DEF H
  <2> QED
    BY <1>4, <1>5, Inductive
<1>7. AllOf(w[n], s, n, S) /\ w[n] \in Seq(V \cap S)
  BY <1>2, <1>3, <1>6
<1> QED
  BY <1>1, <1>7 DEF n

\* What is picked is there once, and comes no later the less is picked.
LEMMA PickedOnce ==
  ASSUME NEW k, Len(k) \in Nat, NEW s, NEW n \in Nat, Picked(k, s, n),
         \A i, j \in 1..n : s[i] = s[j] => i = j
  PROVE  \A i, j \in 1..Len(k) : k[i] = k[j] => i = j
<1>1. PICK f : /\ f \in [1..Len(k) -> 1..n]
               /\ \A i, j \in 1..Len(k) : i < j => f[i] < f[j]
               /\ \A i \in 1..Len(k) : k[i] = s[f[i]]
  BY DEF Picked
<1>2. ASSUME NEW i \in 1..Len(k), NEW j \in 1..Len(k), k[i] = k[j] PROVE i = j
  <2>1. f[i] = f[j] /\ f[i] \in 1..n
    BY <1>1, <1>2
  <2>2. ~(i < j) /\ ~(j < i)
    BY <1>1, <2>1
  <2> QED
    BY <2>2
<1> QED
  BY <1>2

LEMMA PickedEarlier ==
  ASSUME NEW k, Len(k) \in Nat, NEW m, Len(m) \in Nat, NEW s, NEW n \in Nat,
         Picked(k, s, n), Picked(m, s, n), \A i, j \in 1..n : s[i] = s[j] => i = j,
         \A i \in 1..Len(k) : \E j \in 1..Len(m) : k[i] = m[j]
  PROVE  \A i \in 1..Len(k), j \in 1..Len(m) : k[i] = m[j] => i <= j
<1>1. PICK f : /\ f \in [1..Len(k) -> 1..n]
               /\ \A i, j \in 1..Len(k) : i < j => f[i] < f[j]
               /\ \A i \in 1..Len(k) : k[i] = s[f[i]]
  BY DEF Picked
<1>2. PICK g : /\ g \in [1..Len(m) -> 1..n]
               /\ \A i, j \in 1..Len(m) : i < j => g[i] < g[j]
               /\ \A i \in 1..Len(m) : m[i] = s[g[i]]
  BY DEF Picked
<1>3. ASSUME NEW i \in 1..Len(k), NEW j \in 1..Len(m), k[i] = m[j] PROVE f[i] = g[j]
  <2>1. f[i] \in 1..n /\ g[j] \in 1..n /\ s[f[i]] = s[g[j]]
    BY <1>1, <1>2, <1>3
  <2> QED
    BY <2>1
<1> DEFINE H == {i \in Nat : i \in 1..Len(k) => \A j \in 1..Len(m) : k[i] = m[j] => i <= j}
<1>4. 0 \in H
  OBVIOUS
<1>5. ASSUME NEW i \in Nat, i \in H PROVE i + 1 \in H
  <2>1. ASSUME i + 1 \in 1..Len(k), NEW j \in 1..Len(m), k[i + 1] = m[j] PROVE i + 1 <= j
    <3>1. CASE i = 0
      BY <3>1
    <3>2. CASE i # 0
      <4>1. i \in 1..Len(k) /\ i < i + 1
        BY <2>1, <3>2
      <4>2. PICK l \in 1..Len(m) : k[i] = m[l]
        BY <4>1
      <4>3. i <= l
        BY <1>5, <4>1, <4>2
      <4>4. f[i] = g[l] /\ f[i + 1] = g[j] /\ f[i] < f[i + 1]
        BY <1>1, <1>3, <2>1, <4>1, <4>2
      <4>5. ~(j < l) /\ j # l
        <5>1. g[l] \in 1..n /\ g[j] \in 1..n /\ g[l] < g[j]
          BY <1>2, <4>4
        <5>2. j < l => g[j] < g[l]
          BY <1>2
        <5> QED
          BY <5>1, <5>2
      <4> QED
        BY <4>3, <4>5
    <3> QED
      BY <3>1, <3>2
  <2> QED
    BY <2>1
<1>6. Nat \subseteq H
  <2> HIDE DEF H
  <2> QED
    BY <1>4, <1>5, Inductive
<1>7. \A i \in 1..Len(k) : i \in H
  BY <1>6
<1> QED
  BY <1>7

(***************************************************************************)
(* What a folder lists is picked from a list that never changes.           *)
(***************************************************************************)
Called == Trees!Range(TreeNames) \cup
          {"self", "mounts", "version", "status", "stat", "cmdline", "null", "zero", "full",
           "random", "urandom", "tty"}
Entries == [name : Trees!AllNames, dir : BOOLEAN]
Numbers == [p \in 1..TreePids |-> p]
\* What there may be in each folder.
ProcMay == [i \in 1..(TreePids + 3) |-> IF i <= TreePids THEN Trees!Entry(PidName[i], TRUE)
                                        ELSE Trees!Entry(Trees!Globals[i - TreePids], FALSE)]
May(path) == CASE path = <<"proc">>      -> ProcMay
               [] path = <<"proc", "2">> -> Trees!Named(Trees!PerPid)
               [] path = <<"dev">>       -> Trees!Named(Trees!Nodes)
               [] path = <<"d">>         -> Trees!Named(TreeNames)

Distinct(s) == \A i, j \in 1..Len(s) : s[i] = s[j] => i = j
ListsSome(path) ==
  /\ Trees!Readdir(path) \in Seq(Entries)
  /\ Picked(Trees!Readdir(path), May(path), Len(May(path)))

LEMMA TreeFacts ==
  /\ TreePids \in Nat \ {0} /\ Buffers \subseteq Nat
  /\ \A p, q \in 1..TreePids : PidName[p] = PidName[q] => p = q
  /\ \A p \in 1..TreePids :
       PidName[p] \notin {"self", "mounts", "version", "status", "stat", "cmdline",
                         "null", "zero", "full", "random", "urandom", "tty"}
  /\ TreeNames \in Seq(Called) /\ Len(TreeNames) \in Nat /\ Distinct(TreeNames)
<1>1. DOMAIN TreeNames = 1..Len(TreeNames) /\ Len(TreeNames) \in Nat
  BY TreesAssumption
<1>2. TreeNames \in Seq(Called)
  BY TreesAssumption DEF Called
<1> QED
  BY <1>1, <1>2, TreesAssumption DEF Distinct, Trees!IsInjective

LEMMA FewNames ==
  /\ Trees!Globals \in Seq(Called) /\ Len(Trees!Globals) = 3 /\ Distinct(Trees!Globals)
  /\ Trees!PerPid \in Seq(Called) /\ Len(Trees!PerPid) = 3 /\ Distinct(Trees!PerPid)
  /\ Trees!Nodes \in Seq(Called) /\ Len(Trees!Nodes) = 6 /\ Distinct(Trees!Nodes)
<1>1. /\ Len(Trees!Globals) = 3 /\ Trees!Globals[1] = "self"
      /\ Trees!Globals[2] = "mounts" /\ Trees!Globals[3] = "version"
  BY DEF Trees!Globals
<1>2. /\ Len(Trees!PerPid) = 3 /\ Trees!PerPid[1] = "status"
      /\ Trees!PerPid[2] = "stat" /\ Trees!PerPid[3] = "cmdline"
  BY DEF Trees!PerPid
<1>3. /\ Len(Trees!Nodes) = 6
      /\ Trees!Nodes[1] = "null" /\ Trees!Nodes[2] = "zero" /\ Trees!Nodes[3] = "full"
      /\ Trees!Nodes[4] = "random" /\ Trees!Nodes[5] = "urandom" /\ Trees!Nodes[6] = "tty"
  BY DEF Trees!Nodes
<1>4. /\ Trees!Globals \in Seq({"self", "mounts", "version"})
      /\ Trees!PerPid \in Seq({"status", "stat", "cmdline"})
      /\ Trees!Nodes \in Seq({"null", "zero", "full", "random", "urandom", "tty"})
  BY DEF Trees!Globals, Trees!PerPid, Trees!Nodes
<1>5. /\ Trees!Globals \in Seq(Called) /\ Trees!PerPid \in Seq(Called) /\ Trees!Nodes \in Seq(Called)
  BY <1>4 DEF Called
<1>6. (\A i \in 1..3 : i = 1 \/ i = 2 \/ i = 3)
      /\ \A i \in 1..6 : i = 1 \/ i = 2 \/ i = 3 \/ i = 4 \/ i = 5 \/ i = 6
  OBVIOUS
<1>7. Distinct(Trees!Globals) /\ Distinct(Trees!PerPid)
  BY <1>1, <1>2, <1>6 DEF Distinct
<1>8. Distinct(Trees!Nodes)
  BY <1>3, <1>6 DEF Distinct
<1> QED
  BY <1>1, <1>2, <1>3, <1>5, <1>7, <1>8

\* All the names there are.
LEMMA NamesOf ==
  /\ \A i \in 1..3 : Trees!Globals[i] \in Trees!AllNames
  /\ \A i \in 1..3 : Trees!PerPid[i] \in Trees!AllNames
  /\ \A i \in 1..6 : Trees!Nodes[i] \in Trees!AllNames
  /\ \A i \in 1..Len(TreeNames) : TreeNames[i] \in Trees!AllNames
  /\ \A p \in 1..TreePids : PidName[p] \in Trees!AllNames
<1> DEFINE a == Trees!Globals
           b == Trees!PerPid
           c == Trees!Nodes
           d == TreeNames
           e == a \o b
           f == e \o c
           g == f \o d
<1>1. /\ a \in Seq(Called) /\ Len(a) = 3 /\ b \in Seq(Called) /\ Len(b) = 3
      /\ c \in Seq(Called) /\ Len(c) = 6 /\ d \in Seq(Called) /\ Len(d) \in Nat
  BY FewNames, TreeFacts
<1>2. Trees!AllNames = Trees!Range(g) \cup {PidName[p] : p \in 1..TreePids}
  BY DEF Trees!AllNames
<1> HIDE DEF a, b, c, d, e, f, g
<1>3. /\ e \in Seq(Called) /\ Len(e) = 6
      /\ \A i \in 1..6 : e[i] = IF i <= 3 THEN a[i] ELSE b[i - 3]
  <2>1. /\ a \o b \in Seq(Called) /\ Len(a \o b) = Len(a) + Len(b)
        /\ \A i \in 1..(Len(a) + Len(b)) : (a \o b)[i] = IF i <= Len(a) THEN a[i] ELSE b[i - Len(a)]
    BY <1>1, Concatenated
  <2> QED
    BY <1>1, <2>1 DEF e
<1>4. /\ f \in Seq(Called) /\ Len(f) = 12
      /\ \A i \in 1..12 : f[i] = IF i <= 6 THEN e[i] ELSE c[i - 6]
  <2>1. /\ e \o c \in Seq(Called) /\ Len(e \o c) = Len(e) + Len(c)
        /\ \A i \in 1..(Len(e) + Len(c)) : (e \o c)[i] = IF i <= Len(e) THEN e[i] ELSE c[i - Len(e)]
    BY <1>1, <1>3, Concatenated
  <2> QED
    BY <1>1, <1>3, <2>1 DEF f
<1>5. /\ g \in Seq(Called) /\ Len(g) = 12 + Len(d)
      /\ \A i \in 1..(12 + Len(d)) : g[i] = IF i <= 12 THEN f[i] ELSE d[i - 12]
  <2>1. /\ f \o d \in Seq(Called) /\ Len(f \o d) = Len(f) + Len(d)
        /\ \A i \in 1..(Len(f) + Len(d)) : (f \o d)[i] = IF i <= Len(f) THEN f[i] ELSE d[i - Len(f)]
    BY <1>1, <1>4, Concatenated
  <2> QED
    BY <1>1, <1>4, <2>1 DEF g
<1>6. \A i \in 1..(12 + Len(d)) : g[i] \in Trees!AllNames
  <2>1. DOMAIN g = 1..(12 + Len(d))
    BY <1>5
  <2> QED
    BY <1>2, <2>1 DEF Trees!Range
<1>7. ASSUME NEW i \in 1..3 PROVE a[i] \in Trees!AllNames
  <2>1. i \in 1..6 /\ i \in 1..12 /\ i \in 1..(12 + Len(d)) /\ i <= 3 /\ i <= 6 /\ i <= 12
    BY <1>1
  <2> QED
    BY <1>3, <1>4, <1>5, <1>6, <2>1
<1>8. ASSUME NEW i \in 1..3 PROVE b[i] \in Trees!AllNames
  <2> DEFINE k == i + 3
  <2>1. /\ k \in 1..6 /\ k \in 1..12 /\ k \in 1..(12 + Len(d)) /\ ~(k <= 3) /\ k <= 6 /\ k <= 12
        /\ k - 3 = i
    BY <1>1
  <2> HIDE DEF k
  <2> QED
    BY <1>3, <1>4, <1>5, <1>6, <2>1
<1>9. ASSUME NEW i \in 1..6 PROVE c[i] \in Trees!AllNames
  <2> DEFINE k == i + 6
  <2>1. /\ k \in 1..12 /\ k \in 1..(12 + Len(d)) /\ ~(k <= 6) /\ k <= 12 /\ k - 6 = i
    BY <1>1
  <2> HIDE DEF k
  <2> QED
    BY <1>4, <1>5, <1>6, <2>1
<1>10. ASSUME NEW i \in 1..Len(d) PROVE d[i] \in Trees!AllNames
  <2> DEFINE k == i + 12
  <2>1. k \in 1..(12 + Len(d)) /\ ~(k <= 12) /\ k - 12 = i
    BY <1>1
  <2> HIDE DEF k
  <2> QED
    BY <1>5, <1>6, <2>1
<1> QED
  BY <1>2, <1>7, <1>8, <1>9, <1>10 DEF a, b, c, d

LEMMA NamedIs ==
  ASSUME NEW s \in Seq(Called), \A i \in 1..Len(s) : s[i] \in Trees!AllNames
  PROVE  /\ Trees!Named(s) \in Seq(Entries) /\ Len(Trees!Named(s)) = Len(s)
         /\ \A i \in 1..Len(s) : Trees!Named(s)[i] = Trees!Entry(s[i], FALSE)
<1>1. Len(s) \in Nat /\ DOMAIN s = 1..Len(s)
  OBVIOUS
<1> DEFINE n == Len(s)
           e == [i \in 1..n |-> Trees!Entry(s[i], FALSE)]
<1>2. Trees!Named(s) = e
  BY <1>1 DEF Trees!Named
<1>3. ASSUME NEW i \in 1..n PROVE Trees!Entry(s[i], FALSE) \in Entries
  <2>1. s[i] \in Trees!AllNames /\ FALSE \in BOOLEAN
    OBVIOUS
  <2> QED
    BY <2>1 DEF Entries, Trees!Entry
<1>5. n \in Nat
  BY <1>1
<1> HIDE DEF n
<1>4. e \in [1..n -> Entries] /\ \A i \in 1..n : e[i] = Trees!Entry(s[i], FALSE)
  BY <1>3
<1> HIDE DEF e
<1>6. e \in Seq(Entries) /\ Len(e) = n
  BY <1>4, <1>5
<1> QED
  BY <1>2, <1>4, <1>6 DEF n

LEMMA EntryIs ==
  ASSUME NEW n, NEW d
  PROVE  Trees!Entry(n, d).name = n /\ Trees!Entry(n, d).dir = d
BY DEF Trees!Entry

LEMMA NamedDistinct ==
  ASSUME NEW s \in Seq(Called), Distinct(s)
  PROVE  Distinct(Trees!Named(s)) /\ Len(Trees!Named(s)) = Len(s)
<1>1. Len(s) \in Nat /\ DOMAIN s = 1..Len(s)
  OBVIOUS
<1> DEFINE n == Len(s)
           e == [i \in 1..n |-> Trees!Entry(s[i], FALSE)]
<1>2. Trees!Named(s) = e
  BY <1>1 DEF Trees!Named
<1>5. n \in Nat
  BY <1>1
<1> HIDE DEF n
<1>6. Len(e) = n /\ \A i \in 1..n : e[i] = Trees!Entry(s[i], FALSE)
  BY <1>5
<1> HIDE DEF e
<1>3. ASSUME NEW i \in 1..n PROVE e[i].name = s[i]
  <2>1. e[i] = Trees!Entry(s[i], FALSE)
    BY <1>6
  <2> QED
    BY <2>1 DEF Trees!Entry
<1>4. Distinct(e)
  BY <1>3, <1>6 DEF Distinct, n
<1> QED
  BY <1>2, <1>4, <1>6 DEF n

LEMMA PickedSame ==
  ASSUME NEW s, Len(s) \in Nat
  PROVE  Picked(s, s, Len(s))
<1> DEFINE n == Len(s)
           f == [i \in 1..n |-> i]
<1>1. f \in [1..n -> 1..n] /\ \A i \in 1..n : f[i] = i
  OBVIOUS
<1> HIDE DEF f
<1> QED
  BY <1>1 DEF Picked

LEMMA PickedNone ==
  ASSUME NEW s, NEW n \in Nat
  PROVE  Picked(<<>>, s, n)
<1> DEFINE e == <<>>
<1>1. Len(e) = 0
  OBVIOUS
<1> HIDE DEF e
<1> DEFINE f == [i \in 1..0 |-> 0]
<1>2. f \in [1..Len(e) -> 1..n] /\ 1..Len(e) = {}
  BY <1>1
<1> HIDE DEF f
<1>3. Picked(e, s, n)
  BY <1>2 DEF Picked
<1> QED
  BY <1>3 DEF e

Running == Trees!Kept(Numbers, Trees!Pids)

LEMMA NumbersAre ==
  /\ Numbers \in Seq(1..TreePids) /\ Len(Numbers) = TreePids
  /\ \A p \in 1..TreePids : Numbers[p] = p
<1> DEFINE n == TreePids
<1>1. n \in Nat
  BY TreeFacts
<1>2. Numbers = [p \in 1..n |-> p]
  BY DEF Numbers
<1> HIDE DEF n
<1> QED
  BY <1>1, <1>2 DEF n

LEMMA RunningAre ==
  /\ Running \in Seq((1..TreePids) \cap Trees!Pids) /\ Len(Running) \in Nat
  /\ AllOf(Running, Numbers, TreePids, Trees!Pids)
<1> DEFINE V == 1..TreePids
           S == Trees!Pids
<1>1. Numbers \in Seq(V) /\ Len(Numbers) = TreePids
  BY NumbersAre
<1> HIDE DEF V, S
<1>2. Trees!Kept(Numbers, S) \in Seq(V \cap S) /\ AllOf(Trees!Kept(Numbers, S), Numbers, Len(Numbers), S)
  BY <1>1, KeptIs
<1>3. Len(Trees!Kept(Numbers, S)) \in Nat
  BY <1>2, LenProperties
<1> QED
  BY <1>1, <1>2, <1>3 DEF Running, V, S

\* What /proc lists.
ProcDirs == [i \in DOMAIN Running |-> Trees!Entry(PidName[Running[i]], TRUE)]
LEMMA ProcDirsAre ==
  /\ ProcDirs \in Seq(Entries) /\ Len(ProcDirs) = Len(Running)
  /\ \A i \in 1..Len(Running) : /\ ProcDirs[i] = Trees!Entry(PidName[Running[i]], TRUE)
                                /\ Running[i] \in 1..TreePids /\ Running[i] \in Trees!Pids
<1> DEFINE n == Len(Running)
<1>1. n \in Nat /\ DOMAIN Running = 1..n
  BY RunningAre
<1>2. \A i \in 1..n : Running[i] \in 1..TreePids /\ Running[i] \in Trees!Pids
  BY RunningAre, ElementOfSeq
<1> HIDE DEF n
<1>3. ProcDirs = [i \in 1..n |-> Trees!Entry(PidName[Running[i]], TRUE)]
  BY <1>1 DEF ProcDirs
<1>4. ASSUME NEW i \in 1..n PROVE Trees!Entry(PidName[Running[i]], TRUE) \in Entries
  BY <1>2, NamesOf DEF Entries, Trees!Entry
<1>5. ProcDirs \in [1..n -> Entries]
  BY <1>3, <1>4
<1>6. ProcDirs \in Seq(Entries) /\ Len(ProcDirs) = n
  BY <1>1, <1>5
<1>7. \A i \in 1..n : ProcDirs[i] = Trees!Entry(PidName[Running[i]], TRUE)
  BY <1>3
<1> QED
  BY <1>2, <1>6, <1>7 DEF n

LEMMA ProcListIs ==
  /\ Trees!Readdir(<<"proc">>) \in Seq(Entries)
  /\ Len(Trees!Readdir(<<"proc">>)) = Len(Running) + 3
  /\ \A i \in 1..(Len(Running) + 3) :
       Trees!Readdir(<<"proc">>)[i] = IF i <= Len(Running) THEN Trees!Entry(PidName[Running[i]], TRUE)
                                      ELSE Trees!Entry(Trees!Globals[i - Len(Running)], FALSE)
<1> DEFINE p == <<"proc">>
           a == ProcDirs
           b == Trees!Named(Trees!Globals)
           R == Trees!Readdir(p)
<1>1. Len(p) = 1 /\ p[1] = "proc"
  OBVIOUS
<1> HIDE DEF p
<1>2. R = a \o b
  BY <1>1 DEF Trees!Readdir, Trees!ProcReaddir, Running, Numbers, ProcDirs
<1>3. a \in Seq(Entries) /\ Len(a) = Len(Running) /\ Len(Running) \in Nat
      /\ \A i \in 1..Len(Running) : a[i] = Trees!Entry(PidName[Running[i]], TRUE)
  BY ProcDirsAre, RunningAre
<1>4. /\ b \in Seq(Entries) /\ Len(b) = 3
      /\ \A i \in 1..3 : b[i] = Trees!Entry(Trees!Globals[i], FALSE)
  BY FewNames, NamesOf, NamedIs
<1> HIDE DEF a, b, R
<1>5. /\ a \o b \in Seq(Entries) /\ Len(a \o b) = Len(a) + Len(b)
      /\ \A i \in 1..(Len(a) + Len(b)) : (a \o b)[i] = IF i <= Len(a) THEN a[i] ELSE b[i - Len(a)]
  BY <1>3, <1>4, Concatenated
<1>6. ASSUME NEW i \in 1..(Len(Running) + 3)
      PROVE  R[i] = IF i <= Len(Running) THEN Trees!Entry(PidName[Running[i]], TRUE)
                    ELSE Trees!Entry(Trees!Globals[i - Len(Running)], FALSE)
  <2>1. R[i] = IF i <= Len(Running) THEN a[i] ELSE b[i - Len(Running)]
    BY <1>2, <1>3, <1>4, <1>5
  <2>2. CASE i <= Len(Running)
    <3>1. i \in 1..Len(Running)
      BY <1>3, <2>2
    <3> QED
      BY <1>3, <2>1, <2>2, <3>1
  <2>3. CASE ~(i <= Len(Running))
    <3>1. i - Len(Running) \in 1..3
      BY <1>3, <2>3
    <3> QED
      BY <1>4, <2>1, <2>3, <3>1
  <2> QED
    BY <2>2, <2>3
<1> QED
  BY <1>2, <1>3, <1>4, <1>5, <1>6 DEF R, p

LEMMA ProcMayIs ==
  /\ Len(ProcMay) = TreePids + 3 /\ Distinct(ProcMay)
  /\ \A i \in 1..(TreePids + 3) :
       ProcMay[i] = IF i <= TreePids THEN Trees!Entry(PidName[i], TRUE)
                    ELSE Trees!Entry(Trees!Globals[i - TreePids], FALSE)
<1>0. TreePids \in Nat
  BY TreeFacts
<1> DEFINE n == TreePids + 3
<1>1. n \in Nat
  BY <1>0
<1>2. ProcMay = [i \in 1..n |-> IF i <= TreePids THEN Trees!Entry(PidName[i], TRUE)
                                ELSE Trees!Entry(Trees!Globals[i - TreePids], FALSE)]
  BY DEF ProcMay
<1> HIDE DEF n
<1>3. Len(ProcMay) = n /\ \A i \in 1..n :
         ProcMay[i] = IF i <= TreePids THEN Trees!Entry(PidName[i], TRUE)
                      ELSE Trees!Entry(Trees!Globals[i - TreePids], FALSE)
  BY <1>1, <1>2
<1>4. ASSUME NEW i \in 1..n, NEW j \in 1..n, ProcMay[i] = ProcMay[j] PROVE i = j
  <2>1. CASE i <= TreePids
    <3>1. ProcMay[i].dir = TRUE /\ ProcMay[i].name = PidName[i] /\ i \in 1..TreePids
      BY <1>0, <1>1, <1>3, <2>1 DEF Trees!Entry
    <3>2. j <= TreePids
      <4>1. ~(j <= TreePids) => ProcMay[j].dir = FALSE
        BY <1>3 DEF Trees!Entry
      <4> QED
        BY <1>4, <3>1, <4>1
    <3>3. ProcMay[j].name = PidName[j] /\ j \in 1..TreePids
      BY <1>0, <1>1, <1>3, <3>2 DEF Trees!Entry
    <3> QED
      BY <1>4, <3>1, <3>3, TreeFacts
  <2>2. CASE ~(i <= TreePids)
    <3> DEFINE x == i - TreePids
               y == j - TreePids
    <3>1. ProcMay[i].dir = FALSE /\ ProcMay[i].name = Trees!Globals[x]
      BY <1>3, <2>2 DEF Trees!Entry
    <3>2. ~(j <= TreePids)
      <4>1. j <= TreePids => ProcMay[j].dir = TRUE
        BY <1>3 DEF Trees!Entry
      <4> QED
        BY <1>4, <3>1, <4>1
    <3>3. ProcMay[j].name = Trees!Globals[y]
      BY <1>3, <3>2 DEF Trees!Entry
    <3>4. x \in 1..3 /\ y \in 1..3
      BY <1>0, <2>2, <3>2 DEF n
    <3>5. Trees!Globals[x] = Trees!Globals[y]
      BY <1>4, <3>1, <3>3
    <3>6. x = y
      <4> HIDE DEF x, y
      <4> QED
        BY <3>4, <3>5, FewNames DEF Distinct
    <3> QED
      BY <1>0, <1>1, <3>6
  <2> QED
    BY <2>1, <2>2
<1> QED
  BY <1>3, <1>4 DEF Distinct, n

LEMMA ProcPicked == Picked(Trees!Readdir(<<"proc">>), ProcMay, TreePids + 3)
<1> DEFINE R == Trees!Readdir(<<"proc">>)
           r == Len(Running)
           t == TreePids
<1>1. /\ Len(R) = r + 3 /\ r \in Nat /\ t \in Nat
      /\ \A i \in 1..(r + 3) : R[i] = IF i <= r THEN Trees!Entry(PidName[Running[i]], TRUE)
                                      ELSE Trees!Entry(Trees!Globals[i - r], FALSE)
  BY ProcListIs, RunningAre, TreeFacts
<1>2. /\ \A i \in 1..r : Running[i] \in 1..t
      /\ AllOf(Running, Numbers, t, Trees!Pids)
      /\ \A p \in 1..t : Numbers[p] = p
  BY ProcDirsAre, RunningAre, NumbersAre
<1>3. \A i \in 1..(t + 3) : ProcMay[i] = IF i <= t THEN Trees!Entry(PidName[i], TRUE)
                                         ELSE Trees!Entry(Trees!Globals[i - t], FALSE)
  BY ProcMayIs
<1> HIDE DEF R, t
<1>4. PICK f : /\ f \in [1..r -> 1..t]
               /\ \A i, j \in 1..r : i < j => f[i] < f[j]
               /\ \A i \in 1..r : Running[i] = Numbers[f[i]]
  BY <1>2 DEF AllOf, Picked
<1>5. \A i \in 1..r : f[i] \in 1..t /\ Running[i] = f[i]
  BY <1>2, <1>4
<1> HIDE DEF r
<1> DEFINE g == [i \in 1..(r + 3) |-> IF i <= r THEN f[i] ELSE t + (i - r)]
<1>6. ASSUME NEW i \in 1..(r + 3)
      PROVE  /\ g[i] = IF i <= r THEN f[i] ELSE t + (i - r)
             /\ g[i] \in 1..(t + 3)
             /\ R[i] = ProcMay[g[i]]
  <2>1. g[i] = IF i <= r THEN f[i] ELSE t + (i - r)
    OBVIOUS
  <2> HIDE DEF g
  <2>2. CASE i <= r
    <3>1. i \in 1..r /\ g[i] = f[i] /\ f[i] \in 1..t /\ Running[i] = f[i]
      BY <1>1, <1>5, <2>1, <2>2
    <3>2. g[i] \in 1..(t + 3) /\ g[i] <= t
      BY <1>1, <3>1
    <3>3. R[i] = Trees!Entry(PidName[f[i]], TRUE)
      BY <1>1, <2>2, <3>1
    <3>4. ProcMay[g[i]] = Trees!Entry(PidName[g[i]], TRUE)
      BY <1>3, <3>2
    <3> QED
      BY <2>1, <3>1, <3>2, <3>3, <3>4
  <2>3. CASE ~(i <= r)
    <3> DEFINE k == i - r
    <3>1. k \in 1..3 /\ g[i] = t + k
      BY <1>1, <2>1, <2>3
    <3>2. R[i] = Trees!Entry(Trees!Globals[k], FALSE)
      BY <1>1, <2>3
    <3> HIDE DEF k
    <3>3. g[i] \in 1..(t + 3) /\ ~(g[i] <= t) /\ g[i] - t = k
      BY <1>1, <3>1
    <3>4. ProcMay[g[i]] = Trees!Entry(Trees!Globals[g[i] - t], FALSE)
      BY <1>3, <3>3
    <3> QED
      BY <2>1, <3>2, <3>3, <3>4
  <2> QED
    BY <2>2, <2>3
<1>7. g = [i \in 1..(r + 3) |-> g[i]]
  OBVIOUS
<1> HIDE DEF g
<1>8. ASSUME NEW i \in 1..(r + 3), NEW j \in 1..(r + 3), i < j PROVE g[i] < g[j]
  <2>1. CASE j <= r
    <3>1. i \in 1..r /\ j \in 1..r /\ i <= r
      BY <1>1, <1>8, <2>1
    <3>2. f[i] < f[j]
      BY <1>4, <1>8, <3>1
    <3> QED
      BY <1>6, <2>1, <3>1, <3>2
  <2>2. CASE ~(j <= r) /\ i <= r
    <3>1. i \in 1..r /\ f[i] \in 1..t
      BY <1>1, <1>5, <2>2
    <3>2. g[i] = f[i] /\ g[j] = t + (j - r) /\ j - r \in 1..3
      BY <1>1, <1>6, <2>2
    <3> QED
      BY <1>1, <3>1, <3>2
  <2>3. CASE ~(j <= r) /\ ~(i <= r)
    <3>1. g[i] = t + (i - r) /\ g[j] = t + (j - r)
      BY <1>6, <2>3
    <3> QED
      BY <1>1, <1>8, <3>1
  <2> QED
    BY <2>1, <2>2, <2>3
<1>9. g \in [1..Len(R) -> 1..(t + 3)]
  BY <1>1, <1>6, <1>7
<1>10. Picked(R, ProcMay, t + 3)
  BY <1>1, <1>6, <1>8, <1>9 DEF Picked
<1> QED
  BY <1>10 DEF R, t

LEMMA PlainPicked ==
  /\ Trees!Readdir(<<"d">>) \in Seq(Entries)
  /\ Picked(Trees!Readdir(<<"d">>), Trees!Named(TreeNames), Len(TreeNames))
<1> DEFINE p == <<"d">>
           n == Len(TreeNames)
           k == Trees!Kept(TreeNames, files)
           R == Trees!Readdir(p)
<1>1. p[1] = "d"
  OBVIOUS
<1> HIDE DEF p
<1>2. R = Trees!Named(k)
  BY <1>1 DEF Trees!Readdir
<1>3. k \in Seq(Called \cap files) /\ AllOf(k, TreeNames, n, files)
  BY KeptIs, TreeFacts
<1>4. n \in Nat /\ \A i \in 1..n : TreeNames[i] \in Trees!AllNames
  BY TreeFacts, NamesOf
<1>5. PICK f : /\ f \in [1..Len(k) -> 1..n]
               /\ \A i, j \in 1..Len(k) : i < j => f[i] < f[j]
               /\ \A i \in 1..Len(k) : k[i] = TreeNames[f[i]]
  BY <1>3 DEF AllOf, Picked
<1> HIDE DEF n
<1>6. k \in Seq(Called) /\ Len(k) \in Nat
  <2> HIDE DEF k
  <2>1. Len(k) \in Nat
    BY <1>3, LenProperties
  <2> QED
    BY <1>3, <2>1
<1> HIDE DEF k
<1>7. \A i \in 1..Len(k) : f[i] \in 1..n /\ k[i] \in Trees!AllNames
  BY <1>4, <1>5
<1>8. /\ Trees!Named(k) \in Seq(Entries) /\ Len(Trees!Named(k)) = Len(k)
      /\ \A i \in 1..Len(k) : Trees!Named(k)[i] = Trees!Entry(k[i], FALSE)
  BY <1>6, <1>7, NamedIs
<1>9. \A i \in 1..n : Trees!Named(TreeNames)[i] = Trees!Entry(TreeNames[i], FALSE)
  BY <1>4, TreeFacts, NamedIs DEF n
<1>10. \A i \in 1..Len(k) : Trees!Named(k)[i] = Trees!Named(TreeNames)[f[i]]
  BY <1>5, <1>7, <1>8, <1>9
<1>11. Picked(Trees!Named(k), Trees!Named(TreeNames), n)
  BY <1>5, <1>8, <1>10 DEF Picked
<1> QED
  BY <1>2, <1>8, <1>11 DEF R, n, p

LEMMA MayIs ==
  /\ May(<<"proc">>) = ProcMay /\ May(<<"proc", "2">>) = Trees!Named(Trees!PerPid)
  /\ May(<<"dev">>) = Trees!Named(Trees!Nodes) /\ May(<<"d">>) = Trees!Named(TreeNames)
<1> DEFINE a == <<"proc">>
           b == <<"proc", "2">>
           c == <<"dev">>
           d == <<"d">>
<1>1. /\ a # b /\ a # c /\ a # d /\ b # c /\ b # d /\ c # d
  OBVIOUS
<1> HIDE DEF a, b, c, d
<1>2. \A x : May(x) = CASE x = a -> ProcMay [] x = b -> Trees!Named(Trees!PerPid)
                        [] x = c -> Trees!Named(Trees!Nodes) [] x = d -> Trees!Named(TreeNames)
  BY DEF May, a, b, c, d
<1>3. /\ May(a) = ProcMay /\ May(b) = Trees!Named(Trees!PerPid)
      /\ May(c) = Trees!Named(Trees!Nodes) /\ May(d) = Trees!Named(TreeNames)
  BY <1>1, <1>2
<1> QED
  BY <1>3 DEF a, b, c, d

FoldersList ==
  \A path \in Trees!Folders : ListsSome(path)

LEMMA Mays ==
  ASSUME NEW path \in Trees!Folders
  PROVE  Len(May(path)) \in Nat /\ Distinct(May(path))
<1>1. path \in {<<"proc">>, <<"proc", "2">>, <<"dev">>, <<"d">>}
  BY DEF Trees!Folders, Trees!Directory
<1>2. Len(ProcMay) \in Nat /\ Distinct(ProcMay)
  BY ProcMayIs, TreeFacts
<1>3. Len(Trees!Named(Trees!PerPid)) \in Nat /\ Distinct(Trees!Named(Trees!PerPid))
  BY NamedDistinct, FewNames
<1>4. Len(Trees!Named(Trees!Nodes)) \in Nat /\ Distinct(Trees!Named(Trees!Nodes))
  BY NamedDistinct, FewNames
<1>5. Len(Trees!Named(TreeNames)) \in Nat /\ Distinct(Trees!Named(TreeNames))
  BY NamedDistinct, TreeFacts
<1> QED
  BY <1>1, <1>2, <1>3, <1>4, <1>5, MayIs

LEMMA FoldersNow == FoldersList
<1>1. ListsSome(<<"proc">>)
  BY ProcListIs, ProcPicked, ProcMayIs, MayIs DEF ListsSome
<1>2. ListsSome(<<"d">>)
  <2>1. Len(Trees!Named(TreeNames)) = Len(TreeNames)
    BY NamedDistinct, TreeFacts
  <2> QED
    BY <2>1, PlainPicked, MayIs DEF ListsSome
<1>3. ListsSome(<<"dev">>)
  <2> DEFINE p == <<"dev">>
             s == Trees!Named(Trees!Nodes)
  <2>1. Len(p) = 1 /\ p[1] = "dev" /\ May(p) = s
    BY MayIs
  <2> HIDE DEF p
  <2>2. Trees!Readdir(p) = s
    BY <2>1 DEF Trees!Readdir, Trees!DevReaddir
  <2>3. s \in Seq(Entries) /\ Len(s) = 6
    BY FewNames, NamesOf, NamedIs
  <2> HIDE DEF s
  <2>4. Picked(s, s, Len(s))
    <3>1. Len(s) \in Nat
      BY <2>3
    <3> QED
      BY <3>1, PickedSame
  <2>5. ListsSome(p)
    BY <2>1, <2>2, <2>3, <2>4 DEF ListsSome
  <2> QED
    BY <2>5 DEF p
<1>4. ListsSome(<<"proc", "2">>)
  <2> DEFINE p == <<"proc", "2">>
             s == Trees!Named(Trees!PerPid)
             e == <<>>
  <2>1. Len(p) = 2 /\ p[1] = "proc" /\ May(p) = s
    BY MayIs
  <2> HIDE DEF p
  <2>2. Trees!Readdir(p) = s \/ Trees!Readdir(p) = e
    BY <2>1 DEF Trees!Readdir, Trees!ProcReaddir, Trees!Nobody
  <2>3. s \in Seq(Entries) /\ Len(s) = 3
    BY FewNames, NamesOf, NamedIs
  <2>4. e \in Seq(Entries)
    BY EmptySeq
  <2> HIDE DEF s
  <2>5. Picked(s, s, Len(s))
    <3>1. Len(s) \in Nat
      BY <2>3
    <3> QED
      BY <3>1, PickedSame
  <2>6. Picked(e, s, Len(s))
    BY <2>3, PickedNone
  <2> HIDE DEF e
  <2>7. ListsSome(p)
    BY <2>1, <2>2, <2>3, <2>4, <2>5, <2>6 DEF ListsSome
  <2> QED
    BY <2>7 DEF p
<1> QED
  BY <1>1, <1>2, <1>3, <1>4 DEF FoldersList, Trees!Folders, Trees!Directory

LEMMA FoldersNext == FoldersList'
BY FoldersNow, PTL

LEMMA LargestOf ==
  /\ Trees!Largest \in Nat
  /\ \A n \in Trees!AllNames : Bytes[n] \in Nat /\ 24 + Bytes[n] <= Trees!Largest
<1> DEFINE S == {Trees!DirentSize(Trees!Entry(n, FALSE)) : n \in Trees!AllNames}
<1>1. Trees!Largest = Trees!Max(S)
  BY DEF Trees!Largest
<1>2. PICK l \in Trees!AllNames : \A n \in Trees!AllNames : Bytes[n] <= Bytes[l]
  BY TreesAssumption
<1>3. \A n \in Trees!AllNames : Bytes[n] \in Nat
  BY TreesAssumption
<1>4. \A n : Trees!DirentSize(Trees!Entry(n, FALSE)) = 24 + Bytes[n]
  BY DEF Trees!DirentSize, Trees!Entry
<1>5. \A x : x \in S <=> \E n \in Trees!AllNames : x = 24 + Bytes[n]
  BY <1>4
<1> HIDE DEF S
<1>6. 24 + Bytes[l] \in S /\ \A x \in S : 24 + Bytes[l] >= x
  BY <1>2, <1>3, <1>5
<1>7. Trees!Max(S) \in S /\ \A x \in S : Trees!Max(S) >= x
  BY <1>6 DEF Trees!Max
<1>8. Trees!Max(S) \in Nat
  BY <1>3, <1>5, <1>7
<1>9. ASSUME NEW n \in Trees!AllNames PROVE 24 + Bytes[n] <= Trees!Max(S)
  <2>1. 24 + Bytes[n] \in S /\ Bytes[n] \in Nat
    BY <1>3, <1>5
  <2> QED
    BY <1>7, <1>8, <2>1
<1> QED
  BY <1>1, <1>3, <1>8, <1>9

LEMMA LargestIs ==
  ASSUME NEW e \in Entries
  PROVE  Trees!DirentSize(e) \in Nat /\ Trees!DirentSize(e) <= Trees!Largest
<1>1. e.name \in Trees!AllNames
  BY DEF Entries
<1>2. Trees!DirentSize(e) = 24 + Bytes[e.name]
  BY DEF Trees!DirentSize
<1> QED
  BY <1>1, <1>2, LargestOf

\* What is left of a listing.
LEMMA RestOf ==
  ASSUME NEW S, NEW R \in Seq(S), NEW c \in Nat, NEW q, q = SubSeq(R, c + 1, Len(R))
  PROVE  /\ q \in Seq(S) /\ Len(q) \in Nat /\ Len(R) \in Nat
         /\ \A i \in 1..Len(q) : c + i \in 1..Len(R) /\ q[i] = R[c + i]
         /\ \A i \in 1..Len(R) : i > c => i - c \in 1..Len(q)
<1>1. Len(R) \in Nat
  BY LenProperties
<1>2. CASE c <= Len(R)
  <2>1. c \in 0..Len(R) /\ c \in c..Len(R)
    BY <1>1, <1>2
  <2>2. q \in Seq(S) /\ Len(q) = Len(R) - c
    BY <2>1, CutOut
  <2>3. \A i \in 1..(Len(R) - c) : q[i] = R[c + i]
    BY <1>1, <1>2
  <2> QED
    BY <1>1, <1>2, <2>2, <2>3
<1>3. CASE ~(c <= Len(R))
  <2>1. Len(q) = 0 /\ q = <<>>
    BY <1>1, <1>3
  <2> QED
    BY <1>1, <1>3, <2>1
<1> QED
  BY <1>2, <1>3

\* A buffer takes a beginning of it, and something if it holds the longest entry.
LEMMA ChunkIs ==
  ASSUME NEW R \in Seq(Entries), NEW c \in Nat, NEW b \in Buffers,
         NEW q, q = SubSeq(R, c + 1, Len(R))
  PROVE  \E fit \in 0..Len(q) :
           /\ Trees!Chunk(R, c, b).entries = SubSeq(q, 1, fit)
           /\ Trees!Chunk(R, c, b).next = c + fit
           /\ b >= Trees!Largest /\ Len(q) > 0 => fit > 0
<1> DEFINE n == Len(q)
           Put(i, x) == x + Trees!DirentSize(q[i])
           G == [i \in 1..n |-> [x \in Nat |-> Put(i, x)]]
           Is(f) == f = [i \in 0..n |-> IF i = 0 THEN 0 ELSE f[i - 1] + Trees!DirentSize(q[i])]
           u == CHOOSE f : Is(f)
           F == {k \in 0..n : u[k] <= b}
           fit == Trees!Max(F)
<1>1. n \in Nat /\ q \in Seq(Entries) /\ \A i \in 1..n : q[i] \in Entries
  BY RestOf, ElementOfSeq
<1>2. ASSUME NEW i \in 1..n, NEW x \in Nat PROVE Put(i, x) \in Nat
  <2>1. Trees!DirentSize(q[i]) \in Nat
    BY <1>1, LargestIs
  <2> QED
    BY <2>1
<1>3. G \in [1..n -> [Nat -> Nat]]
  <2> HIDE DEF Put
  <2> QED
    BY <1>2
<1>5. PICK w : IsMade(w, Nat, G, 0, n)
  <2> HIDE DEF G, n
  <2> QED
    BY <1>1, <1>3, Makes
<1>6. w \in [0..n -> Nat] /\ w[0] = 0 /\ \A i \in 1..n : w[i] = G[i][w[i - 1]]
  BY <1>5 DEF IsMade
<1>7. ASSUME NEW i \in 1..n PROVE w[i] = Put(i, w[i - 1])
  <2>0. i - 1 \in 0..n
    BY <1>1
  <2> HIDE DEF Put
  <2>1. w[i - 1] \in Nat
    BY <1>6, <2>0
  <2> QED
    BY <1>6, <2>1
<1>8. Is(w)
  <2>1. ASSUME NEW i \in 0..n
        PROVE  w[i] = IF i = 0 THEN 0 ELSE Put(i, w[i - 1])
    <3>1. i # 0 => i \in 1..n
      BY <1>1
    <3> HIDE DEF G, n, Put
    <3> QED
      BY <1>6, <1>7, <3>1
  <2> QED
    BY <1>6, <2>1
<1>9. Is(u)
  BY <1>8
<1>10. Trees!Chunk(R, c, b) = [entries |-> SubSeq(q, 1, fit), next |-> c + fit]
  BY DEF Trees!Chunk
<1> HIDE DEF u
<1>11. u[0] = 0 /\ (n > 0 => u[1] = 0 + Trees!DirentSize(q[1]))
  <2>1. u = [i \in 0..n |-> IF i = 0 THEN 0 ELSE Put(i, u[i - 1])]
    BY <1>9
  <2> HIDE DEF Put
  <2>2. 0 \in 0..n /\ (n > 0 => 1 \in 0..n) /\ 1 # 0 /\ 1 - 1 = 0
    BY <1>1
  <2> HIDE DEF n
  <2>3. u[0] = 0 /\ (n > 0 => u[1] = Put(1, u[0]))
    BY <2>1, <2>2
  <2> QED
    BY <2>3 DEF Put
<1>12. b \in Nat
  BY TreeFacts
<1>13. 0 \in F
  BY <1>1, <1>11, <1>12
<1>14. fit \in F /\ \A k \in F : fit >= k
  <2>1. F \in SUBSET (0..n) /\ F # {}
    BY <1>13
  <2> HIDE DEF F, n
  <2>2. \E m \in F : \A k \in F : k <= m
    BY <1>1, <2>1, GreatestOf
  <2>3. \A m \in F : m \in Nat
    BY <1>1, <2>1
  <2>4. \E m \in F : \A k \in F : m >= k
    BY <2>2, <2>3
  <2> QED
    BY <2>4 DEF Trees!Max
<1>15. ASSUME b >= Trees!Largest, n > 0 PROVE fit > 0
  <2>1. 1 \in 1..n /\ 1 \in 0..n
    BY <1>1, <1>15
  <2>2. q[1] \in Entries
    BY <1>1, <2>1
  <2>3. Trees!DirentSize(q[1]) \in Nat /\ Trees!DirentSize(q[1]) <= Trees!Largest
    BY <2>2, LargestIs
  <2>4. u[1] = Trees!DirentSize(q[1])
    BY <1>11, <1>15, <2>3
  <2>7. Trees!Largest \in Nat
    BY LargestOf
  <2>5. 1 \in F
    BY <1>12, <1>15, <2>1, <2>3, <2>4, <2>7
  <2> HIDE DEF F, n
  <2>6. fit >= 1 /\ fit \in Nat
    BY <1>14, <2>5 DEF F
  <2> QED
    BY <2>6
<1> HIDE DEF fit
<1>16. fit \in 0..n
  BY <1>14
<1> QED
  BY <1>10, <1>15, <1>16

(***************************************************************************)
(* A guest's listing of a folder.                                          *)
(***************************************************************************)
Elems(s) == {s[i] : i \in 1..Len(s)}
ListOf == [at : Trees!Folders, buf : Buffers, cookie : Nat, got : Seq(Entries), ended : BOOLEAN,
           lasting : SUBSET Entries, added : BOOLEAN, removed : BOOLEAN]

\* What is after the cookie was not given yet, unless something came, and what has been
\* there throughout is after it or was given, unless something went.
ListFair(l, R) ==
  /\ l.lasting \subseteq Elems(R)
  /\ ~l.added => /\ Distinct(l.got)
                 /\ \A i \in 1..Len(R) : i > l.cookie => R[i] \notin Elems(l.got)
  /\ ~l.removed => \A i \in 1..Len(R) : i <= l.cookie /\ R[i] \in l.lasting => R[i] \in Elems(l.got)
  /\ l.ended /\ l.buf >= Trees!Largest /\ ~l.removed => l.lasting \subseteq Elems(l.got)

ListHolds == \/ listing = Trees!Closed
             \/ listing \in ListOf /\ ListFair(listing, Trees!Readdir(listing.at))

LEMMA ElemsAre ==
  ASSUME NEW S, NEW s \in Seq(S)
  PROVE  Trees!Range(s) = Elems(s) /\ Elems(s) \subseteq S /\ Len(s) \in Nat
         /\ (Trees!IsInjective(s) <=> Distinct(s))
<1>1. DOMAIN s = 1..Len(s) /\ Len(s) \in Nat /\ \A i \in 1..Len(s) : s[i] \in S
  BY LenProperties, ElementOfSeq
<1> QED
  BY <1>1 DEF Trees!Range, Elems, Trees!IsInjective, Distinct

Once(s, n)    == \A i, j \in 1..n : s[i] = s[j] => i = j
Within(k, m)  == \A i \in 1..Len(k) : \E j \in 1..Len(m) : k[i] = m[j]
Earlier(k, m) == \A i \in 1..Len(k), j \in 1..Len(m) : k[i] = m[j] => i <= j
LEMMA WithinIsEarlier ==
  ASSUME NEW k, Len(k) \in Nat, NEW m, Len(m) \in Nat, NEW s, NEW n \in Nat,
         Picked(k, s, n), Picked(m, s, n), Once(s, n), Within(k, m)
  PROVE  Earlier(k, m)
BY PickedEarlier DEF Once, Within, Earlier

\* The folder changes.
LEMMA ListedStill ==
  ASSUME NEW l \in ListOf, NEW R \in Seq(Entries), NEW Q \in Seq(Entries), ListFair(l, R),
         NEW A, NEW n \in Nat, Picked(R, A, n), Picked(Q, A, n), \A i, j \in 1..n : A[i] = A[j] => i = j,
         NEW m, m = [l EXCEPT !.lasting = @ \cap Elems(Q),
                              !.added   = @ \/ Elems(Q) \ Elems(R) # {},
                              !.removed = @ \/ Elems(R) \ Elems(Q) # {}]
  PROVE  m \in ListOf /\ ListFair(m, Q)
<1>0. /\ l.lasting \in SUBSET Entries /\ l.added \in BOOLEAN /\ l.removed \in BOOLEAN
      /\ l.cookie \in Nat
  BY DEF ListOf
<1> DEFINE La == l.lasting \cap Elems(Q)
           Ad == l.added \/ Elems(Q) \ Elems(R) # {}
           Re == l.removed \/ Elems(R) \ Elems(Q) # {}
<1>1. La \in SUBSET Entries /\ Ad \in BOOLEAN /\ Re \in BOOLEAN
  BY <1>0
<1>2. m = [l EXCEPT !.lasting = La, !.added = Ad, !.removed = Re]
  OBVIOUS
<1>3. Ad => l.added \/ ~(Elems(Q) \subseteq Elems(R))
  OBVIOUS
<1>4. (~Ad => ~l.added /\ Elems(Q) \subseteq Elems(R)) /\ (~Re => ~l.removed /\ Elems(R) \subseteq Elems(Q))
  BY <1>0
<1>5. La \subseteq l.lasting /\ La \subseteq Elems(Q)
  OBVIOUS
<1> HIDE DEF La, Ad, Re
<1>6. m \in ListOf
  BY <1>1, <1>2 DEF ListOf
<1>7. /\ m.at = l.at /\ m.buf = l.buf /\ m.cookie = l.cookie /\ m.got = l.got /\ m.ended = l.ended
      /\ m.lasting = La /\ m.added = Ad /\ m.removed = Re
  BY <1>2 DEF ListOf
<1> HIDE DEF ListOf
<1>8. Len(R) \in Nat /\ Len(Q) \in Nat
  BY LenProperties
<1>9. ASSUME ~Ad, NEW i \in 1..Len(Q), i > l.cookie PROVE Q[i] \notin Elems(l.got)
  <2>1. \A x \in 1..Len(Q) : \E y \in 1..Len(R) : Q[x] = R[y]
    BY <1>4, <1>9 DEF Elems
  <2>2. \A x \in 1..Len(Q), y \in 1..Len(R) : Q[x] = R[y] => x <= y
    <3>1. Picked(Q, A, n) /\ Picked(R, A, n) /\ Once(A, n) /\ Within(Q, R)
      BY <2>1 DEF Once, Within
    <3>2. Earlier(Q, R)
      BY <1>8, <3>1, WithinIsEarlier
    <3> QED
      BY <3>2 DEF Earlier
  <2>3. PICK y \in 1..Len(R) : Q[i] = R[y]
    BY <2>1
  <2>4. y > l.cookie
    BY <1>0, <1>8, <1>9, <2>2, <2>3
  <2>5. R[y] \notin Elems(l.got)
    BY <1>4, <1>9, <2>4 DEF ListFair
  <2> QED
    BY <2>3, <2>5
<1>10. ASSUME ~Re, NEW i \in 1..Len(Q), i <= l.cookie, Q[i] \in La PROVE Q[i] \in Elems(l.got)
  <2>1. \A x \in 1..Len(R) : \E y \in 1..Len(Q) : R[x] = Q[y]
    BY <1>4, <1>10 DEF Elems
  <2>2. \A x \in 1..Len(R), y \in 1..Len(Q) : R[x] = Q[y] => x <= y
    <3>1. Picked(Q, A, n) /\ Picked(R, A, n) /\ Once(A, n) /\ Within(R, Q)
      BY <2>1 DEF Once, Within
    <3>2. Earlier(R, Q)
      BY <1>8, <3>1, WithinIsEarlier
    <3> QED
      BY <3>2 DEF Earlier
  <2>3. Q[i] \in Elems(R) /\ Q[i] \in l.lasting
    BY <1>5, <1>10 DEF ListFair
  <2>4. PICK x \in 1..Len(R) : R[x] = Q[i]
    BY <2>3 DEF Elems
  <2>5. x <= i
    BY <2>2, <2>4
  <2>6. x <= l.cookie
    BY <1>0, <1>8, <1>10, <2>5
  <2>7. R[x] \in Elems(l.got)
    BY <1>4, <1>10, <2>3, <2>4, <2>6 DEF ListFair
  <2> QED
    BY <2>4, <2>7
<1>11. ListFair(m, Q)
  <2>1. m.lasting \subseteq Elems(Q)
    BY <1>5, <1>7
  <2>2. ~m.added => /\ Distinct(m.got)
                    /\ \A i \in 1..Len(Q) : i > m.cookie => Q[i] \notin Elems(m.got)
    BY <1>4, <1>7, <1>9 DEF ListFair
  <2>3. ~m.removed => \A i \in 1..Len(Q) : i <= m.cookie /\ Q[i] \in m.lasting => Q[i] \in Elems(m.got)
    BY <1>7, <1>10
  <2>4. m.ended /\ m.buf >= Trees!Largest /\ ~m.removed => m.lasting \subseteq Elems(m.got)
    BY <1>4, <1>5, <1>7 DEF ListFair
  <2> QED
    BY <2>1, <2>2, <2>3, <2>4 DEF ListFair
<1> QED
  BY <1>6, <1>11

\* The guest asks for more.
LEMMA ListedMore ==
  ASSUME NEW l \in ListOf, NEW R \in Seq(Entries), ListFair(l, R), Distinct(R), ~l.ended,
         NEW ch, ch = Trees!Chunk(R, l.cookie, l.buf),
         NEW m, m = [l EXCEPT !.got = @ \o ch.entries, !.cookie = ch.next,
                              !.ended = ch.entries = <<>>]
  PROVE  m \in ListOf /\ ListFair(m, R)
<1> DEFINE c == l.cookie
           q == SubSeq(R, c + 1, Len(R))
<1>0. c \in Nat /\ l.buf \in Buffers /\ l.got \in Seq(Entries) /\ l.ended \in BOOLEAN
  BY DEF ListOf
<1>1. /\ q \in Seq(Entries) /\ Len(q) \in Nat /\ Len(R) \in Nat
      /\ \A i \in 1..Len(q) : c + i \in 1..Len(R) /\ q[i] = R[c + i]
      /\ \A i \in 1..Len(R) : i > c => i - c \in 1..Len(q)
  <2> HIDE DEF c
  <2> QED
    BY <1>0, RestOf
<1>2. PICK fit \in 0..Len(q) :
         /\ ch.entries = SubSeq(q, 1, fit)
         /\ ch.next = c + fit
         /\ l.buf >= Trees!Largest /\ Len(q) > 0 => fit > 0
  <2> HIDE DEF c
  <2> DEFINE b == l.buf
  <2>1. b \in Buffers /\ ch = Trees!Chunk(R, c, b)
    BY <1>0 DEF c
  <2> HIDE DEF b
  <2>2. \E fit \in 0..Len(q) :
           /\ Trees!Chunk(R, c, b).entries = SubSeq(q, 1, fit)
           /\ Trees!Chunk(R, c, b).next = c + fit
           /\ b >= Trees!Largest /\ Len(q) > 0 => fit > 0
    BY <1>0, <2>1, ChunkIs
  <2> QED
    BY <2>1, <2>2 DEF b
<1> HIDE DEF q
<1> DEFINE x == SubSeq(q, 1, fit)
           g == l.got \o x
           e == x = <<>>
<1>3. x \in Seq(Entries) /\ Len(x) = fit /\ \A i \in 1..fit : x[i] = q[i]
  <2>1. fit \in fit..Len(q)
    BY <1>1
  <2>2. x \in Seq(Entries) /\ Len(x) = fit
    BY <1>1, <2>1, CutOut
  <2>3. \A i \in 1..fit : x[i] = q[i]
    BY <1>1
  <2> QED
    BY <2>2, <2>3
<1>4. ASSUME NEW i \in 1..fit PROVE c + i \in 1..Len(R) /\ x[i] = R[c + i]
  <2>1. i \in 1..Len(q)
    BY <1>1
  <2> HIDE DEF x, c
  <2> QED
    BY <1>1, <1>3, <2>1
<1>5. m = [l EXCEPT !.got = g, !.cookie = c + fit, !.ended = e]
  BY <1>2
<1> HIDE DEF x
<1> DEFINE z == Len(l.got)
<1>6. /\ g \in Seq(Entries) /\ Len(g) = z + fit /\ z \in Nat
      /\ \A i \in 1..(z + fit) : g[i] = IF i <= z THEN l.got[i] ELSE x[i - z]
  <2>1. /\ g \in Seq(Entries) /\ Len(g) = Len(l.got) + Len(x)
        /\ \A i \in 1..(Len(l.got) + Len(x)) : g[i] = IF i <= Len(l.got) THEN l.got[i] ELSE x[i - Len(l.got)]
    BY <1>0, <1>3, Concatenated
  <2> QED
    BY <1>0, <1>3, <2>1, LenProperties
<1>7. c + fit \in Nat /\ e \in BOOLEAN
  BY <1>0, <1>1
<1> HIDE DEF g, e
<1>8. m \in ListOf
  BY <1>5, <1>6, <1>7 DEF ListOf
<1>9. /\ m.buf = l.buf /\ m.lasting = l.lasting /\ m.added = l.added /\ m.removed = l.removed
      /\ m.cookie = c + fit /\ m.got = g /\ m.ended = e
  BY <1>5 DEF ListOf
<1>10. Elems(g) = Elems(l.got) \cup Elems(x)
  <2>1. ASSUME NEW i \in 1..(z + fit) PROVE g[i] \in Elems(l.got) \cup Elems(x)
    <3>1. CASE i <= z
      <4>1. i \in 1..z
        BY <1>6, <3>1
      <4> QED
        BY <1>6, <3>1, <4>1 DEF Elems
    <3>2. CASE ~(i <= z)
      <4>1. i - z \in 1..fit
        BY <1>1, <1>6, <3>2
      <4>2. x[i - z] \in Elems(x)
        BY <1>3, <4>1 DEF Elems
      <4> QED
        BY <1>6, <3>2, <4>2
    <3> QED
      BY <3>1, <3>2
  <2>2. ASSUME NEW i \in 1..z PROVE l.got[i] \in Elems(g)
    <3>1. i \in 1..(z + fit) /\ i <= z
      BY <1>1, <1>6
    <3> QED
      BY <1>6, <3>1 DEF Elems
  <2>3. ASSUME NEW i \in 1..fit PROVE x[i] \in Elems(g)
    <3> DEFINE k == i + z
    <3>1. k \in 1..(z + fit) /\ ~(k <= z) /\ k - z = i
      BY <1>1, <1>6
    <3> HIDE DEF k
    <3> QED
      BY <1>6, <3>1 DEF Elems
  <2> QED
    BY <1>3, <1>6, <2>1, <2>2, <2>3 DEF Elems
<1>11. \A i \in 1..Len(R) : R[i] \in Elems(x) <=> i > c /\ i <= c + fit
  <2>1. ASSUME NEW i \in 1..Len(R), i > c, i <= c + fit PROVE R[i] \in Elems(x)
    <3> DEFINE k == i - c
    <3>1. k \in 1..fit /\ c + k = i
      BY <1>0, <1>1, <2>1
    <3> HIDE DEF k, c
    <3>2. x[k] = R[i]
      BY <1>4, <3>1
    <3> QED
      BY <1>3, <3>1, <3>2 DEF Elems
  <2>2. ASSUME NEW i \in 1..Len(R), R[i] \in Elems(x) PROVE i > c /\ i <= c + fit
    <3>1. PICK k \in 1..fit : x[k] = R[i]
      BY <1>3, <2>2 DEF Elems
    <3>2. c + k \in 1..Len(R) /\ R[c + k] = R[i]
      BY <1>4, <3>1
    <3>3. c + k = i
      BY <3>2 DEF Distinct
    <3> QED
      BY <1>0, <1>1, <3>3
  <2> QED
    BY <2>1, <2>2
<1>12. ASSUME ~l.added PROVE /\ Distinct(g)
                            /\ \A i \in 1..Len(R) : i > c + fit => R[i] \notin Elems(g)
  <2>0. Distinct(l.got) /\ \A i \in 1..Len(R) : i > c => R[i] \notin Elems(l.got)
    BY <1>12 DEF ListFair
  <2>1. ASSUME NEW i \in 1..fit PROVE x[i] \notin Elems(l.got)
    <3>1. c + i \in 1..Len(R) /\ x[i] = R[c + i] /\ c + i > c
      BY <1>0, <1>4
    <3> QED
      BY <2>0, <3>1
  <2>2. ASSUME NEW i \in 1..(z + fit), NEW j \in 1..(z + fit), g[i] = g[j], i <= z PROVE i = j
    <3>1. i \in 1..z /\ g[i] = l.got[i]
      BY <1>6, <2>2
    <3>2. CASE j <= z
      <4>1. j \in 1..z /\ g[j] = l.got[j]
        BY <1>6, <3>2
      <4> QED
        BY <2>0, <2>2, <3>1, <4>1 DEF Distinct
    <3>3. CASE ~(j <= z)
      <4>1. j - z \in 1..fit
        BY <1>1, <1>6, <3>3
      <4>2. g[j] = x[j - z] /\ x[j - z] \notin Elems(l.got)
        BY <1>6, <2>1, <3>3, <4>1
      <4>3. g[i] \in Elems(l.got)
        BY <3>1 DEF Elems
      <4> QED
        BY <2>2, <4>2, <4>3
    <3> QED
      BY <3>2, <3>3
  <2>3. ASSUME NEW i \in 1..(z + fit), NEW j \in 1..(z + fit), g[i] = g[j], ~(i <= z), ~(j <= z) PROVE i = j
    <3>1. i - z \in 1..fit
      BY <1>1, <1>6, <2>3
    <3>2. j - z \in 1..fit
      BY <1>1, <1>6, <2>3
    <3>3. PICK a \in 1..fit, b \in 1..fit : a = i - z /\ b = j - z
      BY <3>1, <3>2
    <3>4. x[a] = x[b]
      BY <1>6, <2>3, <3>3
    <3>5. c + a \in 1..Len(R) /\ c + b \in 1..Len(R) /\ R[c + a] = R[c + b]
      BY <1>4, <3>4
    <3>6. c + a = c + b
      BY <3>5 DEF Distinct
    <3>7. a = b
      BY <1>0, <3>6
    <3> QED
      BY <1>1, <1>6, <3>3, <3>7
  <2>4. Distinct(g)
    BY <1>6, <2>2, <2>3 DEF Distinct
  <2>5. ASSUME NEW i \in 1..Len(R), i > c + fit PROVE R[i] \notin Elems(g)
    <3>1. i > c /\ ~(i <= c + fit)
      BY <1>0, <1>1, <2>5
    <3> QED
      BY <1>10, <1>11, <2>0, <3>1
  <2> QED
    BY <2>4, <2>5
<1>13. ASSUME ~l.removed, NEW i \in 1..Len(R), i <= c + fit, R[i] \in l.lasting PROVE R[i] \in Elems(g)
  <2>1. CASE i <= c
    BY <1>10, <1>13, <2>1 DEF ListFair
  <2>2. CASE i > c
    BY <1>10, <1>11, <1>13, <2>2
  <2> QED
    BY <1>0, <1>1, <2>1, <2>2
<1>14. ASSUME e, l.buf >= Trees!Largest, ~l.removed PROVE l.lasting \subseteq Elems(g)
  <2>1. fit = 0
    BY <1>3, <1>14 DEF e
  <2>2. Len(q) = 0
    BY <1>1, <1>2, <1>14, <2>1
  <2>3. \A i \in 1..Len(R) : i <= c + fit
    BY <1>0, <1>1, <2>1, <2>2
  <2>4. \A i \in 1..Len(R) : R[i] \in l.lasting => R[i] \in Elems(g)
    BY <1>13, <1>14, <2>3
  <2>5. l.lasting \subseteq Elems(R)
    BY DEF ListFair
  <2> QED
    BY <2>4, <2>5 DEF Elems
<1>15. ListFair(m, R)
  <2>1. m.lasting \subseteq Elems(R)
    BY <1>9 DEF ListFair
  <2> QED
    BY <1>9, <1>12, <1>13, <1>14, <2>1 DEF ListFair
<1> QED
  BY <1>8, <1>15

LEMMA FoldersSame ==
  ASSUME UNCHANGED <<running, files>>, NEW path
  PROVE  Trees!Readdir(path)' = Trees!Readdir(path)
BY DEF Trees!Readdir, Trees!ProcReaddir, Trees!DevReaddir, Trees!Pids, Trees!PidOf

LEMMA OfFolder ==
  ASSUME NEW path \in Trees!Folders
  PROVE  /\ Trees!Readdir(path) \in Seq(Entries)
         /\ Distinct(Trees!Readdir(path))
         /\ Trees!Range(Trees!Readdir(path)) = Elems(Trees!Readdir(path))
<1> DEFINE R == Trees!Readdir(path)
           A == May(path)
<1>1. R \in Seq(Entries) /\ Picked(R, A, Len(A))
  BY FoldersNow DEF FoldersList, ListsSome
<1>2. Len(A) \in Nat /\ Distinct(A)
  BY Mays
<1> HIDE DEF R, A
<1>3. Len(R) \in Nat
  BY <1>1, LenProperties
<1>4. Distinct(R)
  BY <1>1, <1>2, <1>3, PickedOnce DEF Distinct
<1>5. Trees!Range(R) = Elems(R)
  BY <1>1, ElemsAre
<1> QED
  BY <1>1, <1>4, <1>5 DEF R

LEMMA OpenedIs ==
  ASSUME NEW path \in Trees!Folders, NEW b \in Buffers
  PROVE  Trees!Opened(path, b) \in ListOf /\ ListFair(Trees!Opened(path, b), Trees!Readdir(path))
<1> DEFINE R == Trees!Readdir(path)
           m == Trees!Opened(path, b)
           e == <<>>
<1>1. R \in Seq(Entries) /\ Trees!Range(R) = Elems(R)
  BY OfFolder
<1>2. m = [at |-> path, buf |-> b, cookie |-> 0, got |-> e, ended |-> FALSE,
           lasting |-> Elems(R), added |-> FALSE, removed |-> FALSE]
  BY <1>1 DEF Trees!Opened
<1>3. e \in Seq(Entries) /\ Len(e) = 0
  BY EmptySeq
<1> HIDE DEF R, m, e
<1>4. Elems(R) \subseteq Entries /\ Len(R) \in Nat
  BY <1>1, ElemsAre
<1>5. m \in ListOf
  BY <1>2, <1>3, <1>4 DEF ListOf
<1>6. Elems(e) = {}
  BY <1>3 DEF Elems
<1>7. Distinct(e)
  BY <1>3 DEF Distinct
<1>8. ListFair(m, R)
  <2>1. /\ m.cookie = 0 /\ m.got = e /\ m.ended = FALSE /\ m.lasting = Elems(R)
    BY <1>2
  <2> QED
    BY <1>4, <1>6, <1>7, <2>1 DEF ListFair
<1> QED
  BY <1>5, <1>8 DEF R, m

LEMMA WatchedHolds == ListHolds /\ Trees!Watched => ListHolds'
<1> SUFFICES ASSUME ListHolds, Trees!Watched PROVE ListHolds'
  OBVIOUS
<1>1. CASE listing = Trees!Closed
  <2>1. listing' = Trees!Closed
    BY <1>1 DEF Trees!Watched
  <2> QED
    BY <2>1 DEF ListHolds, Trees!Closed
<1>2. CASE listing # Trees!Closed
  <2>1. listing \in ListOf /\ ListFair(listing, Trees!Readdir(listing.at))
    BY <1>2 DEF ListHolds
  <2>2. PICK at : /\ at = listing.at
                  /\ listing' = [listing EXCEPT
                       !.lasting = @ \cap Trees!Range(Trees!Readdir(at)'),
                       !.added   = @ \/ Trees!Range(Trees!Readdir(at)') \ Trees!Range(Trees!Readdir(at)) # {},
                       !.removed = @ \/ Trees!Range(Trees!Readdir(at)) \ Trees!Range(Trees!Readdir(at)') # {}]
    BY <1>2 DEF Trees!Watched
  <2>3. at \in Trees!Folders
    BY <2>1, <2>2 DEF ListOf
  <2> DEFINE R == Trees!Readdir(at)
             Q == Trees!Readdir(at)'
             A == May(at)
             n == Len(A)
  <2>4. R \in Seq(Entries) /\ Picked(R, A, n)
    BY <2>3, FoldersNow DEF FoldersList, ListsSome
  <2>5. Q \in Seq(Entries) /\ Picked(Q, A, n)
    BY <2>3, FoldersNext DEF FoldersList, ListsSome
  <2>6. n \in Nat /\ \A i, j \in 1..n : A[i] = A[j] => i = j
    BY <2>3, Mays DEF Distinct
  <2>7. ListFair(listing, R)
    BY <2>1, <2>2
  <2>8. listing' = [listing EXCEPT
                       !.lasting = @ \cap Trees!Range(Q),
                       !.added   = @ \/ Trees!Range(Q) \ Trees!Range(R) # {},
                       !.removed = @ \/ Trees!Range(R) \ Trees!Range(Q) # {}]
    BY <2>2
  <2> HIDE DEF R, Q, A, n
  <2>9. Trees!Range(R) = Elems(R) /\ Trees!Range(Q) = Elems(Q)
    BY <2>4, <2>5, ElemsAre
  <2>10. listing' = [listing EXCEPT !.lasting = @ \cap Elems(Q),
                                   !.added   = @ \/ Elems(Q) \ Elems(R) # {},
                                   !.removed = @ \/ Elems(R) \ Elems(Q) # {}]
    BY <2>8, <2>9
  <2>11. listing' \in ListOf /\ ListFair(listing', Q)
    BY <2>1, <2>4, <2>5, <2>6, <2>7, <2>10, ListedStill
  <2>12. listing'.at = at
    BY <2>1, <2>2, <2>10 DEF ListOf
  <2>13. ListFair(listing', Trees!Readdir(listing.at)')
    BY <2>11, <2>12 DEF Q
  <2> QED
    BY <2>11, <2>13 DEF ListHolds, ListFair, ListOf
<1> QED
  BY <1>1, <1>2

LEMMA OpenHolds ==
  ASSUME ListHolds, NEW path \in Trees!Folders, NEW b \in Buffers, Trees!OpenDir(path, b)
  PROVE  ListHolds'
<1>1. listing' = Trees!Opened(path, b) /\ UNCHANGED <<running, files>>
  BY DEF Trees!OpenDir
<1>2. listing' \in ListOf /\ ListFair(listing', Trees!Readdir(path))
  BY <1>1, OpenedIs
<1>3. listing'.at = path
  BY <1>1 DEF Trees!Opened
<1>4. Trees!Readdir(path)' = Trees!Readdir(path)
  BY <1>1, FoldersSame
<1>5. ListFair(listing', Trees!Readdir(listing.at)')
  BY <1>2, <1>3, <1>4
<1> QED
  BY <1>2, <1>5 DEF ListHolds, ListFair, ListOf

LEMMA ReadHolds == ListHolds /\ Trees!FdReaddir => ListHolds'
<1> SUFFICES ASSUME ListHolds, Trees!FdReaddir PROVE ListHolds'
  OBVIOUS
<1>1. listing \in ListOf /\ ListFair(listing, Trees!Readdir(listing.at)) /\ ~listing.ended
      /\ UNCHANGED <<running, files>>
  BY DEF ListHolds, Trees!FdReaddir
<1>2. PICK at : at = listing.at
  OBVIOUS
<1>3. at \in Trees!Folders
  BY <1>1, <1>2 DEF ListOf
<1> DEFINE R == Trees!Readdir(at)
           ch == Trees!Chunk(R, listing.cookie, listing.buf)
<1>4. listing' = [listing EXCEPT !.got = @ \o ch.entries, !.cookie = ch.next,
                                 !.ended = ch.entries = <<>>]
  BY <1>2 DEF Trees!FdReaddir
<1>5. R \in Seq(Entries) /\ Distinct(R)
  BY <1>3, OfFolder
<1>6. ListFair(listing, R)
  BY <1>1, <1>2
<1>7. Trees!Readdir(at)' = R
  BY <1>1, FoldersSame
<1> HIDE DEF R
<1>8. listing' \in ListOf /\ ListFair(listing', R)
  <2>1. ch = Trees!Chunk(R, listing.cookie, listing.buf)
    OBVIOUS
  <2> HIDE DEF ch
  <2> QED
    BY <1>1, <1>4, <1>5, <1>6, <2>1, ListedMore
<1>9. listing'.at = at
  BY <1>1, <1>2, <1>4 DEF ListOf
<1>10. ListFair(listing', Trees!Readdir(listing.at)')
  BY <1>7, <1>8, <1>9
<1> QED
  BY <1>8, <1>10 DEF ListHolds, ListFair, ListOf

LEMMA TreesStep == ListHolds /\ Trees!TreesNext => ListHolds'
<1> SUFFICES ASSUME ListHolds, Trees!TreesNext PROVE ListHolds'
  OBVIOUS
<1>1. CASE Trees!Watched
  BY <1>1, WatchedHolds
<1>2. CASE Trees!FdReaddir
  BY <1>2, ReadHolds
<1>3. CASE Trees!CloseDir
  BY <1>3 DEF Trees!CloseDir, ListHolds, Trees!Closed
<1>4. CASE \E path \in Trees!Folders, b \in Buffers : Trees!OpenDir(path, b)
  BY <1>4, OpenHolds
<1> QED
  BY <1>1, <1>2, <1>3, <1>4
  DEF Trees!TreesNext, Trees!Spawn, Trees!KSpawn, Trees!SpawnEmulator, Trees!Exit, Trees!KillRoot,
      Trees!Collect, Trees!SetPriority, Trees!Create, Trees!Unlink

LEMMA TreesBegins == Trees!TreesInit => ListHolds
BY DEF Trees!TreesInit, ListHolds

LEMMA TreesKeep == ListHolds => Trees!ListedWhole
<1> SUFFICES ASSUME ListHolds, listing # Trees!Closed PROVE Trees!ListedWhole
  BY DEF Trees!ListedWhole
<1>1. listing \in ListOf /\ ListFair(listing, Trees!Readdir(listing.at))
  BY DEF ListHolds
<1>2. listing.got \in Seq(Entries)
  BY <1>1 DEF ListOf
<1>3. Trees!Range(listing.got) = Elems(listing.got)
      /\ (Trees!IsInjective(listing.got) <=> Distinct(listing.got))
  BY <1>2, ElemsAre
<1> QED
  BY <1>1, <1>3 DEF ListFair, Trees!ListedWhole

(***************************************************************************)
(* The ready queues.                                                       *)
(***************************************************************************)
\* No empty queue is kept, and nobody is in one twice.
Sound(q, n) == \A l \in DOMAIN q : q[l] \in Seq(1..n) /\ q[l] # <<>> /\ Distinct(q[l])

LEMMA OneMore ==
  ASSUME NEW V, NEW s \in Seq(V), Distinct(s), NEW p \in V, p \notin Trees!Range(s)
  PROVE  /\ Append(s, p) \in Seq(V) /\ Append(s, p) # <<>> /\ Distinct(Append(s, p))
         /\ Trees!Range(Append(s, p)) = Trees!Range(s) \cup {p}
<1> DEFINE n == Len(s)
           t == Append(s, p)
           e == <<>>
<1>1. /\ t \in Seq(V) /\ Len(t) = n + 1 /\ n \in Nat /\ t[n + 1] = p
      /\ \A i \in 1..n : t[i] = s[i]
  BY AppendProperties, LenProperties
<1>2. Len(e) = 0
  OBVIOUS
<1> HIDE DEF t, e
<1>3. t # e
  BY <1>1, <1>2
<1>4. Trees!Range(s) = Elems(s) /\ Trees!Range(t) = Elems(t)
  BY <1>1, ElemsAre
<1>5. \A i \in 1..n : s[i] # p
  BY <1>4 DEF Elems
<1> HIDE DEF n
<1>6. \A i \in 1..(n + 1) : i \in 1..n \/ i = n + 1
  BY <1>1
<1>7. Distinct(t)
  <2>1. ASSUME NEW i \in 1..(n + 1), NEW j \in 1..(n + 1), t[i] = t[j] PROVE i = j
    <3>1. CASE i \in 1..n /\ j \in 1..n
      BY <1>1, <2>1, <3>1 DEF Distinct, n
    <3>2. CASE i = n + 1 \/ j = n + 1
      BY <1>1, <1>5, <1>6, <2>1, <3>2
    <3> QED
      BY <1>6, <3>1, <3>2
  <2> QED
    BY <1>1, <2>1 DEF Distinct
<1>8. Elems(t) = Elems(s) \cup {p}
  <2>1. \A i \in 1..n : i \in 1..(n + 1)
    BY <1>1
  <2>2. n + 1 \in 1..(n + 1)
    BY <1>1
  <2> QED
    BY <1>1, <1>6, <2>1, <2>2 DEF Elems, n
<1> QED
  BY <1>1, <1>3, <1>4, <1>7, <1>8 DEF t, e

LEMMA JustOne ==
  ASSUME NEW V, NEW p \in V
  PROVE  <<p>> \in Seq(V) /\ <<p>> # <<>> /\ Distinct(<<p>>) /\ Trees!Range(<<p>>) = {p}
<1> DEFINE t == <<p>>
           e == <<>>
<1>1. t \in Seq(V) /\ Len(t) = 1 /\ t[1] = p /\ Len(e) = 0
  OBVIOUS
<1> HIDE DEF t, e
<1>2. Trees!Range(t) = Elems(t)
  BY <1>1, ElemsAre
<1>3. \A i \in 1..1 : i = 1
  OBVIOUS
<1> QED
  BY <1>1, <1>2, <1>3 DEF Elems, Distinct, t, e

LEMMA EnqueueIs ==
  ASSUME NEW n \in Nat, NEW q, Sound(q, n), NEW p \in 1..n, NEW pri, Trees!Queued(q, p) = {}
  PROVE  /\ Sound(Trees!Enqueue(q, p, pri), n)
         /\ Trees!Queued(Trees!Enqueue(q, p, pri), p) = {pri}
         /\ \A r : r # p => Trees!Queued(Trees!Enqueue(q, p, pri), r) = Trees!Queued(q, r)
<1> DEFINE D == DOMAIN q
           w == Trees!Enqueue(q, p, pri)
           V == 1..n
<1>1. /\ DOMAIN w = D \cup {pri}
      /\ \A l \in D \cup {pri} : w[l] = IF l # pri THEN q[l] ELSE IF l \in D THEN Append(q[l], p)
                                        ELSE <<p>>
  BY DEF Trees!Enqueue
<1>2. \A l \in D : q[l] \in Seq(V) /\ q[l] # <<>> /\ Distinct(q[l]) /\ p \notin Trees!Range(q[l])
  BY DEF Sound, Trees!Queued
<1> HIDE DEF w, D, V
<1>4. ASSUME NEW l \in DOMAIN w, l # pri
      PROVE  l \in D /\ w[l] = q[l]
  BY <1>1, <1>4
<1>5. /\ w[pri] \in Seq(V) /\ w[pri] # <<>> /\ Distinct(w[pri])
      /\ Trees!Range(w[pri]) = (IF pri \in D THEN Trees!Range(q[pri]) ELSE {}) \cup {p}
  <2>0. p \in V
    BY DEF V
  <2>1. CASE pri \in D
    <3> DEFINE s == q[pri]
    <3>1. s \in Seq(V) /\ Distinct(s) /\ p \notin Trees!Range(s) /\ w[pri] = Append(s, p)
      BY <1>1, <1>2, <2>1
    <3> HIDE DEF s
    <3>2. /\ Append(s, p) \in Seq(V) /\ Append(s, p) # <<>> /\ Distinct(Append(s, p))
          /\ Trees!Range(Append(s, p)) = Trees!Range(s) \cup {p}
      BY <2>0, <3>1, OneMore
    <3> QED
      BY <2>1, <3>1, <3>2 DEF s
  <2>2. CASE pri \notin D
    <3>1. w[pri] = <<p>>
      BY <1>1, <2>2
    <3>2. <<p>> \in Seq(V) /\ <<p>> # <<>> /\ Distinct(<<p>>) /\ Trees!Range(<<p>>) = {p}
      BY <2>0, JustOne
    <3> QED
      BY <2>2, <3>1, <3>2
  <2> QED
    BY <2>1, <2>2
<1>6. Sound(w, n)
  BY <1>2, <1>4, <1>5 DEF Sound, V
<1>7. Trees!Queued(w, p) = {pri}
  BY <1>1, <1>2, <1>4, <1>5 DEF Trees!Queued
<1>8. ASSUME NEW r, r # p PROVE Trees!Queued(w, r) = Trees!Queued(q, r)
  BY <1>1, <1>4, <1>5, <1>8 DEF Trees!Queued, D
<1> QED
  BY <1>6, <1>7, <1>8 DEF w

\* Everybody else stays.
LEMMA KeptButOne ==
  ASSUME NEW V, NEW s \in Seq(V), Distinct(s), NEW p,
         NEW k, k = Trees!Kept(s, Trees!Range(s) \ {p})
  PROVE  k \in Seq(V) /\ Distinct(k) /\ Trees!Range(k) = Trees!Range(s) \ {p}
<1> DEFINE S == Trees!Range(s) \ {p}
           n == Len(s)
<1>1. k \in Seq(V \cap S) /\ AllOf(k, s, n, S)
  <2>1. k = Trees!Kept(s, S)
    OBVIOUS
  <2> HIDE DEF S
  <2> QED
    BY <2>1, KeptIs
<1>2. n \in Nat /\ Len(k) \in Nat
  BY <1>1, LenProperties
<1>3. \A i \in 1..Len(k) : k[i] \in V \cap S
  BY <1>1, ElementOfSeq
<1>4. Distinct(k)
  BY <1>1, <1>2, PickedOnce DEF AllOf, Distinct
<1>5. k \in Seq(V)
  BY <1>1
<1>6. Trees!Range(k) = Elems(k) /\ Trees!Range(s) = Elems(s)
  BY <1>5, ElemsAre
<1>7. Elems(k) \subseteq S
  BY <1>3 DEF Elems
<1>8. S \subseteq Elems(k)
  <2>1. ASSUME NEW x \in S PROVE x \in Elems(k)
    <3>1. PICK i \in 1..n : x = s[i]
      BY <1>6 DEF Elems
    <3>2. PICK j \in 1..Len(k) : k[j] = s[i]
      BY <1>1, <2>1, <3>1 DEF AllOf
    <3> QED
      BY <3>1, <3>2 DEF Elems
  <2> QED
    BY <2>1
<1> QED
  BY <1>4, <1>5, <1>6, <1>7, <1>8

Others(q, p) == Trees!NonEmpty([l \in DOMAIN q |-> Trees!Kept(q[l], Trees!Range(q[l]) \ {p})])

LEMMA NobodyIn == Trees!Range(<<>>) = {}
<1> DEFINE e == <<>>
<1>1. e \in Seq({}) /\ Len(e) = 0
  BY EmptySeq
<1> HIDE DEF e
<1>2. Trees!Range(e) = Elems(e)
  BY <1>1, ElemsAre
<1> QED
  BY <1>1, <1>2 DEF Elems, e

LEMMA OthersAre ==
  ASSUME NEW n \in Nat, NEW q, Sound(q, n), NEW p
  PROVE  /\ Sound(Others(q, p), n) /\ Trees!Queued(Others(q, p), p) = {}
         /\ \A r : r # p => Trees!Queued(Others(q, p), r) = Trees!Queued(q, r)
<1> DEFINE D == DOMAIN q
           k == [l \in D |-> Trees!Kept(q[l], Trees!Range(q[l]) \ {p})]
           E == {l \in D : k[l] # <<>>}
           w == Others(q, p)
           V == 1..n
<1>1. w = [l \in E |-> k[l]]
  BY DEF Others, Trees!NonEmpty, Trees!Restrict
<1>2. ASSUME NEW l \in D
      PROVE  k[l] \in Seq(V) /\ Distinct(k[l]) /\ Trees!Range(k[l]) = Trees!Range(q[l]) \ {p}
  <2> DEFINE s == q[l]
             x == k[l]
  <2>1. s \in Seq(V) /\ Distinct(s) /\ x = Trees!Kept(s, Trees!Range(s) \ {p})
    BY DEF Sound
  <2> HIDE DEF s, x, V
  <2>2. x \in Seq(V) /\ Distinct(x) /\ Trees!Range(x) = Trees!Range(s) \ {p}
    BY <2>1, KeptButOne
  <2> QED
    BY <2>2 DEF s, x
<1>3. DOMAIN w = E /\ \A l \in E : w[l] = k[l] /\ l \in D /\ k[l] # <<>>
  BY <1>1
<1>4. \A l \in D : l \notin E => Trees!Range(k[l]) = {}
  BY NobodyIn
<1> HIDE DEF w, k, E, V
<1>5. Sound(w, n)
  BY <1>2, <1>3 DEF Sound, V
<1>6. \A r : Trees!Queued(w, r) = {l \in E : r \in Trees!Range(k[l])}
  BY <1>3 DEF Trees!Queued
<1>7. \A r : Trees!Queued(q, r) = {l \in D : r \in Trees!Range(q[l])}
  BY DEF Trees!Queued
<1>8. Trees!Queued(w, p) = {}
  BY <1>2, <1>3, <1>6
<1>9. ASSUME NEW r, r # p PROVE Trees!Queued(w, r) = Trees!Queued(q, r)
  <2>1. \A l \in E : l \in D
    BY <1>3
  <2>2. \A l \in D : r \in Trees!Range(k[l]) <=> r \in Trees!Range(q[l])
    BY <1>2, <1>9
  <2> QED
    BY <1>4, <1>6, <1>7, <2>1, <2>2
<1> QED
  BY <1>5, <1>8, <1>9 DEF w

(***************************************************************************)
(* The process table and the queues.                                       *)
(***************************************************************************)
LifeStates == {"new", "ready", "running", "blocked", "zombie"}
Levels     == Priorities \cup {Trees!User, Trees!Init_}
Row        == [state : LifeStates, pri : Levels, kind : {"init", "root", "child", "native"}]

TableHolds ==
  /\ nextPid \in Nat /\ nextPid > 0 /\ nextPid <= TreePids + 1
  /\ running \in [Trees!Pids -> Row] /\ Trees!Pids \subseteq 1..(nextPid - 1)
  /\ Sound(ready, nextPid - 1)
  /\ \A p \in Trees!Pids : Trees!Queued(ready, p) = IF running[p].kind = "root" THEN {running[p].pri} ELSE {}
  /\ \A p : \A l, m \in Trees!Queued(ready, p) : l = m

LEMMA QueuedBelow ==
  ASSUME NEW n \in Nat, NEW q, Sound(q, n), NEW p, p \notin 1..n
  PROVE  Trees!Queued(q, p) = {}
<1>1. ASSUME NEW l \in DOMAIN q PROVE p \notin Trees!Range(q[l])
  <2> DEFINE s == q[l]
             V == 1..n
  <2>1. s \in Seq(V)
    BY DEF Sound
  <2> HIDE DEF s
  <2>2. Trees!Range(s) = Elems(s) /\ Elems(s) \subseteq V
    BY <2>1, ElemsAre
  <2> QED
    BY <2>2 DEF s
<1> QED
  BY <1>1 DEF Trees!Queued

\* The queues stay as they are, and nobody's kind or priority changes.
LEMMA TableStill ==
  ASSUME TableHolds, ready' = ready, nextPid' = nextPid,
         running' \in [Trees!Pids' -> Row], Trees!Pids' \subseteq Trees!Pids,
         \A p \in Trees!Pids' : running'[p].kind = running[p].kind /\ running'[p].pri = running[p].pri
  PROVE  TableHolds'
<1>1. \A p : Trees!Queued(ready, p)' = Trees!Queued(ready, p)
  BY DEF Trees!Queued
<1>2. Sound(ready, nextPid - 1)'
  BY DEF TableHolds, Sound, Distinct
<1>3. \A p \in Trees!Pids' : Trees!Queued(ready, p)' = IF running'[p].kind = "root" THEN {running'[p].pri} ELSE {}
  BY <1>1 DEF TableHolds
<1>4. \A p : \A l, m \in Trees!Queued(ready, p)' : l = m
  BY <1>1 DEF TableHolds
<1> QED
  BY <1>2, <1>3, <1>4 DEF TableHolds


LEMMA RowBorn ==
  ASSUME TableHolds, NEW kind \in {"root", "child", "native"}, NEW state \in LifeStates,
         Trees!Spawned(kind, state),
         ready' = IF kind = "root" THEN Trees!Enqueue(ready, nextPid, Trees!User) ELSE ready
  PROVE  TableHolds'
<1> DEFINE n == nextPid
           r == Trees!Process(state, Trees!User, kind)
<1>1. /\ n \in Nat /\ n > 0 /\ n <= TreePids + 1 /\ n <= TreePids /\ nextPid' = n + 1
      /\ TreePids \in Nat
  BY TreeFacts DEF TableHolds, Trees!Spawned
<1>2. r \in Row /\ r.kind = kind /\ r.pri = Trees!User
  BY DEF Trees!Process, Row, Levels
<1>3. /\ running \in [Trees!Pids -> Row] /\ Trees!Pids \subseteq 1..(n - 1)
  BY DEF TableHolds
<1>4. running' = [p \in Trees!Pids \cup {n} |-> IF p = n THEN r ELSE running[p]]
  BY DEF Trees!Spawned
<1> HIDE DEF r
<1>5. Trees!Pids' = Trees!Pids \cup {n}
  BY <1>4 DEF Trees!Pids
<1>6. running' \in [Trees!Pids' -> Row]
  BY <1>2, <1>3, <1>4, <1>5
<1>7. \A p \in Trees!Pids : running'[p] = running[p]
  BY <1>1, <1>3, <1>4
<1>8. n \in 1..n /\ n - 1 \in Nat /\ (\A p \in 1..(n - 1) : p \in 1..n /\ p # n) /\ n = (n + 1) - 1
  BY <1>1
<1>9. Sound(ready, n - 1)
  BY DEF TableHolds
<1>10. Sound(ready, n)
  <2>1. ASSUME NEW l \in DOMAIN ready PROVE ready[l] \in Seq(1..n)
    <3>1. ready[l] \in Seq(1..(n - 1))
      BY <1>9 DEF Sound
    <3>2. 1..(n - 1) \subseteq 1..n
      BY <1>8
    <3> DEFINE V == 1..(n - 1)
               W == 1..n
               s == ready[l]
    <3>3. s \in Seq(V) /\ V \subseteq W
      BY <3>1, <3>2
    <3> HIDE DEF V, W, s
    <3>4. s \in Seq(W)
      BY <3>3
    <3> QED
      BY <3>4 DEF W, s
  <2> QED
    BY <1>9, <2>1 DEF Sound
<1>11. Trees!Queued(ready, n) = {}
  BY <1>1, <1>8, <1>9, QueuedBelow
<1>12. \A p \in Trees!Pids : Trees!Queued(ready, p) = IF running[p].kind = "root" THEN {running[p].pri} ELSE {}
  BY DEF TableHolds
<1>13. \A p : \A l, m \in Trees!Queued(ready, p) : l = m
  BY DEF TableHolds
<1>14. /\ Sound(ready', n)
       /\ Trees!Queued(ready', n) = IF kind = "root" THEN {Trees!User} ELSE {}
       /\ \A p : p # n => Trees!Queued(ready', p) = Trees!Queued(ready, p)
  <2>1. CASE kind = "root"
    <3>1. ready' = Trees!Enqueue(ready, n, Trees!User) /\ n \in Nat
      BY <1>1, <2>1
    <3> QED
      BY <1>8, <1>10, <1>11, <2>1, <3>1, EnqueueIs
  <2>2. CASE kind # "root"
    BY <1>10, <1>11, <2>2
  <2> QED
    BY <2>1, <2>2
<1>15. \A p : Trees!Queued(ready, p)' = Trees!Queued(ready', p)
  BY DEF Trees!Queued
<1>16. Sound(ready, nextPid - 1)'
  BY <1>1, <1>8, <1>14 DEF Sound, Distinct
<1>17. ASSUME NEW p \in Trees!Pids'
       PROVE  Trees!Queued(ready, p)' = IF running'[p].kind = "root" THEN {running'[p].pri} ELSE {}
  <2>1. CASE p = n
    BY <1>2, <1>4, <1>14, <1>15, <2>1
  <2>2. CASE p # n
    <3>1. p \in Trees!Pids
      BY <1>5, <2>2
    <3> QED
      BY <1>7, <1>12, <1>14, <1>15, <2>2, <3>1
  <2> QED
    BY <2>1, <2>2
<1>18. ASSUME NEW p, NEW l \in Trees!Queued(ready, p)', NEW m \in Trees!Queued(ready, p)' PROVE l = m
  <2>1. CASE p = n
    BY <1>14, <1>15, <1>18, <2>1
  <2>2. CASE p # n
    BY <1>13, <1>14, <1>15, <1>18, <2>2
  <2> QED
    BY <2>1, <2>2
<1>19. nextPid' \in Nat /\ nextPid' > 0 /\ nextPid' <= TreePids + 1
  BY <1>1
<1>20. Trees!Pids' \subseteq 1..(nextPid' - 1)
  BY <1>1, <1>3, <1>5, <1>8
<1> QED
  BY <1>6, <1>16, <1>17, <1>18, <1>19, <1>20 DEF TableHolds

LEMMA Reniced ==
  ASSUME TableHolds, NEW p \in Trees!Pids, NEW pri \in Priorities, Trees!SetPriority(p, pri)
  PROVE  TableHolds'
<1> DEFINE n == nextPid - 1
           w == Others(ready, p)
<1>1. /\ running' = [running EXCEPT ![p].pri = pri] /\ nextPid' = nextPid
      /\ ready' = IF Trees!Queued(ready, p) = {} THEN w ELSE Trees!Enqueue(w, p, pri)
  BY DEF Trees!SetPriority, Trees!Reprioritize, Others
<1>2. /\ running \in [Trees!Pids -> Row] /\ Trees!Pids \subseteq 1..n
      /\ Sound(ready, n) /\ nextPid \in Nat /\ nextPid > 0
      /\ \A r : \A l, m \in Trees!Queued(ready, r) : l = m
  BY DEF TableHolds
<1>3. n \in Nat /\ p \in 1..n
  BY <1>2
<1> DEFINE row == [running[p] EXCEPT !.pri = pri]
<1>4. row \in Row /\ row.kind = running[p].kind /\ row.pri = pri
  <2>1. running[p] \in Row
    BY <1>2
  <2> QED
    BY <2>1 DEF Row, Levels
<1>5. running' = [running EXCEPT ![p] = row]
  BY <1>1
<1> HIDE DEF row
<1>6. /\ Trees!Pids' = Trees!Pids /\ running' \in [Trees!Pids' -> Row] /\ running'[p] = row
      /\ \A r \in Trees!Pids : r # p => running'[r] = running[r]
  BY <1>2, <1>4, <1>5 DEF Trees!Pids
<1>7. /\ Sound(w, n) /\ Trees!Queued(w, p) = {}
      /\ \A r : r # p => Trees!Queued(w, r) = Trees!Queued(ready, r)
  <2> HIDE DEF n
  <2> QED
    BY <1>2, <1>3, OthersAre
<1>8. \A r \in Trees!Pids : Trees!Queued(ready, r) = IF running[r].kind = "root" THEN {running[r].pri} ELSE {}
  BY DEF TableHolds
<1> HIDE DEF w, n
<1>9. /\ Sound(ready', n)
      /\ Trees!Queued(ready', p) = IF running[p].kind = "root" THEN {pri} ELSE {}
      /\ \A r : r # p => Trees!Queued(ready', r) = Trees!Queued(ready, r)
  <2>1. CASE running[p].kind # "root"
    <3>1. ready' = w
      BY <1>1, <1>8, <2>1
    <3> QED
      BY <1>7, <2>1, <3>1
  <2>2. CASE running[p].kind = "root"
    <3>1. ready' = Trees!Enqueue(w, p, pri)
      BY <1>1, <1>8, <2>2
    <3>2. /\ Sound(ready', n) /\ Trees!Queued(ready', p) = {pri}
          /\ \A r : r # p => Trees!Queued(ready', r) = Trees!Queued(w, r)
      BY <1>3, <1>7, <3>1, EnqueueIs
    <3> QED
      BY <1>7, <2>2, <3>2
  <2> QED
    BY <2>1, <2>2
<1>10. \A r : Trees!Queued(ready, r)' = Trees!Queued(ready', r)
  BY DEF Trees!Queued
<1>11. Sound(ready, nextPid - 1)'
  BY <1>1, <1>9 DEF Sound, Distinct, n
<1>12. ASSUME NEW r \in Trees!Pids'
       PROVE  Trees!Queued(ready, r)' = IF running'[r].kind = "root" THEN {running'[r].pri} ELSE {}
  BY <1>4, <1>6, <1>8, <1>9, <1>10
<1>13. ASSUME NEW r, NEW l \in Trees!Queued(ready, r)', NEW m \in Trees!Queued(ready, r)' PROVE l = m
  <2>1. CASE r = p
    BY <1>9, <1>10, <1>13, <2>1
  <2>2. CASE r # p
    BY <1>2, <1>9, <1>10, <1>13, <2>2
  <2> QED
    BY <2>1, <2>2
<1>14. nextPid' \in Nat /\ nextPid' > 0 /\ nextPid' <= TreePids + 1 /\ Trees!Pids' \subseteq 1..(nextPid' - 1)
  BY <1>1, <1>6 DEF TableHolds
<1> QED
  BY <1>6, <1>11, <1>12, <1>13, <1>14 DEF TableHolds

LEMMA Gone ==
  ASSUME TableHolds, NEW p, running' = Trees!Restrict(running, Trees!Pids \ {p}),
         UNCHANGED <<nextPid, ready>>
  PROVE  TableHolds'
<1>1. running \in [Trees!Pids -> Row]
  BY DEF TableHolds
<1>2. running' = [r \in Trees!Pids \ {p} |-> running[r]]
  BY DEF Trees!Restrict
<1>3. Trees!Pids' = Trees!Pids \ {p}
  BY <1>2 DEF Trees!Pids
<1>4. running' \in [Trees!Pids' -> Row] /\ \A r \in Trees!Pids' : running'[r] = running[r]
  BY <1>1, <1>2, <1>3
<1> QED
  BY <1>3, <1>4, TableStill

LEMMA RowExits ==
  ASSUME TableHolds, NEW p \in Trees!Pids, Trees!Exit(p)
  PROVE  TableHolds'
<1> DEFINE row == [running[p] EXCEPT !.state = "zombie"]
<1>1. running \in [Trees!Pids -> Row]
  BY DEF TableHolds
<1>2. running' = [running EXCEPT ![p] = row]
  BY DEF Trees!Exit
<1>3. row \in Row /\ row.kind = running[p].kind /\ row.pri = running[p].pri
  <2>1. running[p] \in Row
    BY <1>1
  <2> QED
    BY <2>1 DEF Row, LifeStates
<1> HIDE DEF row
<1>4. Trees!Pids' = Trees!Pids /\ running' \in [Trees!Pids' -> Row]
      /\ \A r \in Trees!Pids' : running'[r].kind = running[r].kind /\ running'[r].pri = running[r].pri
  BY <1>1, <1>2, <1>3 DEF Trees!Pids
<1>5. ready' = ready /\ nextPid' = nextPid
  BY DEF Trees!Exit
<1> QED
  BY <1>4, <1>5, TableStill

LEMMA TableStep == TableHolds /\ Trees!TreesNext => TableHolds'
<1> SUFFICES ASSUME TableHolds, Trees!TreesNext PROVE TableHolds'
  OBVIOUS
<1>1. CASE Trees!Spawn
  BY <1>1, RowBorn DEF Trees!Spawn, LifeStates
<1>2. CASE Trees!KSpawn
  BY <1>2, RowBorn DEF Trees!KSpawn, LifeStates
<1>3. CASE Trees!SpawnEmulator
  BY <1>3, RowBorn DEF Trees!SpawnEmulator, LifeStates
<1>4. ASSUME NEW p \in Trees!Pids, Trees!Exit(p) \/ Trees!KillRoot(p) \/ Trees!Collect(p) PROVE TableHolds'
  BY <1>4, RowExits, Gone DEF Trees!KillRoot, Trees!Collect
<1>5. ASSUME NEW p \in Trees!Pids, NEW pri \in Priorities, Trees!SetPriority(p, pri) PROVE TableHolds'
  BY <1>5, Reniced
<1>6. ASSUME UNCHANGED <<running, nextPid, ready>> PROVE TableHolds'
  <2>1. /\ running' = running /\ nextPid' = nextPid /\ ready' = ready /\ Trees!Pids' = Trees!Pids
    BY <1>6 DEF Trees!Pids
  <2> QED
    BY <2>1, TableStill DEF TableHolds
<1>7. ASSUME Trees!FdReaddir \/ Trees!CloseDir \/ (\E m \in Trees!Range(TreeNames) : Trees!Create(m) \/ Trees!Unlink(m))
             \/ (\E path \in Trees!Folders, b \in Buffers : Trees!OpenDir(path, b))
      PROVE  UNCHANGED <<running, nextPid, ready>>
  BY <1>7 DEF Trees!FdReaddir, Trees!CloseDir, Trees!Create, Trees!Unlink, Trees!OpenDir
<1> QED
  BY <1>1, <1>2, <1>3, <1>4, <1>5, <1>6, <1>7 DEF Trees!TreesNext

LEMMA TableBegins == Trees!TreesInit => TableHolds
<1> SUFFICES ASSUME Trees!TreesInit PROVE TableHolds
  OBVIOUS
<1> DEFINE r == Trees!Process("running", Trees!Init_, "init")
           q == Trees!Enqueue(<<>>, 1, Trees!Init_)
           t == 10
<1>1. running = [p \in {1} |-> r] /\ nextPid = 2 /\ ready = Trees!PickNext(q)
  BY DEF Trees!TreesInit
<1>2. r \in Row /\ r.kind = "init"
  BY DEF Trees!Process, Row, LifeStates, Levels
<1>3. DOMAIN q = {t} /\ q[t] = <<1>> /\ q = [l \in {t} |-> q[l]]
  <2> DEFINE e == <<>>
  <2>1. DOMAIN e = {}
    OBVIOUS
  <2> HIDE DEF e
  <2>2. q = [l \in DOMAIN e \cup {t} |-> IF l # t THEN e[l] ELSE IF l \in DOMAIN e THEN Append(e[l], 1) ELSE <<1>>]
    BY DEF Trees!Enqueue, Trees!Init_, e
  <2> HIDE DEF q, t
  <2> QED
    BY <2>1, <2>2
<1> HIDE DEF q, r
<1>4. Trees!Max(DOMAIN q) = t
  <2>1. \A x \in {t} : x = t
    OBVIOUS
  <2> QED
    BY <1>3, <2>1 DEF Trees!Max
<1>5. DOMAIN ready = {}
  <2> DEFINE k == [q EXCEPT ![t] = Tail(@)]
             e == <<>>
  <2>1. Tail(<<1>>) = e
    OBVIOUS
  <2>2. DOMAIN k = {t} /\ k[t] = Tail(q[t])
    BY <1>3
  <2>3. ready = Trees!NonEmpty(k)
    BY <1>1, <1>4 DEF Trees!PickNext
  <2> HIDE DEF k
  <2>4. DOMAIN ready = {l \in DOMAIN k : k[l] # e}
    BY <2>3 DEF Trees!NonEmpty, Trees!Restrict
  <2> HIDE DEF e
  <2> QED
    BY <1>3, <2>1, <2>2, <2>4
<1>6. \A p : Trees!Queued(ready, p) = {}
  BY <1>5 DEF Trees!Queued
<1>7. Trees!Pids = {1} /\ running \in [Trees!Pids -> Row] /\ running[1] = r
  BY <1>1, <1>2 DEF Trees!Pids
<1>8. Sound(ready, nextPid - 1)
  BY <1>5 DEF Sound
<1>9. nextPid \in Nat /\ nextPid > 0 /\ nextPid <= TreePids + 1 /\ Trees!Pids \subseteq 1..(nextPid - 1)
  BY <1>1, <1>7, TreeFacts
<1> QED
  BY <1>2, <1>6, <1>7, <1>8, <1>9 DEF TableHolds

\* Nobody is in two queues.
LEMMA AtMostOne == ASSUME NEW S, \A l, m \in S : l = m PROVE Trees!Cardinality(S) <= 1
<1>1. Trees!Cardinality(S) = Cardinality(S)
  BY DEF Trees!Cardinality, Cardinality
<1>2. S = {} \/ \E x : S = {x}
  OBVIOUS
<1>3. Cardinality(S) = 0 \/ Cardinality(S) = 1
  BY <1>2, FS_EmptySet, FS_Singleton
<1> QED
  BY <1>1, <1>3

LEMMA TableKeeps == TableHolds => Trees!QueuedAtPriority
<1> SUFFICES ASSUME TableHolds PROVE Trees!QueuedAtPriority
  OBVIOUS
<1>1. \A p : Trees!Cardinality(Trees!Queued(ready, p)) <= 1
  BY AtMostOne DEF TableHolds
<1>2. ASSUME NEW l \in DOMAIN ready PROVE ready[l] # <<>> /\ Trees!IsInjective(ready[l])
  <2> DEFINE s == ready[l]
             V == 1..(nextPid - 1)
  <2>1. s \in Seq(V) /\ s # <<>> /\ Distinct(s)
    BY DEF TableHolds, Sound
  <2> HIDE DEF s, V
  <2>2. Trees!IsInjective(s)
    BY <2>1, ElemsAre
  <2> QED
    BY <2>1, <2>2 DEF s
<1> QED
  BY <1>1, <1>2 DEF TableHolds, Trees!QueuedAtPriority

(***************************************************************************)
(* What is listed, what there is, what is a directory and what can be read.*)
(***************************************************************************)
Agrees(path) ==
  /\ Trees!Exists(path) <=> Trees!IsDir(path) \/ Trees!Readable(path) # {}
  /\ ~(Trees!IsDir(path) /\ Trees!Readable(path) # {})
  /\ Trees!IsDir(path) <=> Trees!Readdir(path) # Trees!Nobody
  /\ \A e \in Trees!Range(Trees!Readdir(path)) :
       /\ Trees!Exists(Append(path, e.name))
       /\ e.dir <=> Trees!IsDir(Append(path, e.name))
  /\ Len(path) = 3 => Trees!ProcRead(path) \subseteq {Trees!ProcList[p] : p \in Trees!PidOf(path[2])}
  /\ path[1] = "dev" => (Trees!ClassifyWrite(path) = "not a device" <=> Trees!Readable(path) = {})

LEMMA LongerByOne ==
  /\ \A a, x : LET l == Append(<<a>>, x) IN Len(l) = 2 /\ l[1] = a /\ l[2] = x
  /\ \A a, b, x : LET l == Append(<<a, b>>, x) IN Len(l) = 3 /\ l[1] = a /\ l[2] = b /\ l[3] = x
OBVIOUS

LEMMA RangesAre ==
  /\ Trees!Range(Trees!Globals) = {"self", "mounts", "version"}
  /\ Trees!Range(Trees!PerPid) = {"status", "stat", "cmdline"}
  /\ Trees!Range(Trees!Nodes) = {"null", "zero", "full", "random", "urandom", "tty"}
<1>1. /\ Len(Trees!Globals) = 3 /\ Trees!Globals[1] = "self"
      /\ Trees!Globals[2] = "mounts" /\ Trees!Globals[3] = "version"
  BY DEF Trees!Globals
<1>2. /\ Len(Trees!PerPid) = 3 /\ Trees!PerPid[1] = "status"
      /\ Trees!PerPid[2] = "stat" /\ Trees!PerPid[3] = "cmdline"
  BY DEF Trees!PerPid
<1>3. /\ Len(Trees!Nodes) = 6
      /\ Trees!Nodes[1] = "null" /\ Trees!Nodes[2] = "zero" /\ Trees!Nodes[3] = "full"
      /\ Trees!Nodes[4] = "random" /\ Trees!Nodes[5] = "urandom" /\ Trees!Nodes[6] = "tty"
  BY DEF Trees!Nodes
<1>4. 1..3 = {1, 2, 3} /\ 1..6 = {1, 2, 3, 4, 5, 6}
  OBVIOUS
<1>5. /\ Trees!Range(Trees!Globals) = Elems(Trees!Globals)
      /\ Trees!Range(Trees!PerPid) = Elems(Trees!PerPid)
      /\ Trees!Range(Trees!Nodes) = Elems(Trees!Nodes)
  BY FewNames, ElemsAre
<1>6. Elems(Trees!Globals) = {"self", "mounts", "version"}
  BY <1>1, <1>4 DEF Elems
<1>7. Elems(Trees!PerPid) = {"status", "stat", "cmdline"}
  BY <1>2, <1>4 DEF Elems
<1>8. Elems(Trees!Nodes) = {"null", "zero", "full", "random", "urandom", "tty"}
  BY <1>3, <1>4 DEF Elems
<1> QED
  BY <1>5, <1>6, <1>7, <1>8

IsLeast(m, S) == m \in S /\ S \subseteq Nat /\ \A x \in S : m <= x
LEMMA MinIs == ASSUME NEW S, NEW m, IsLeast(m, S) PROVE Trees!Min(S) = m
<1>1. m \in S /\ \A y \in S : m <= y
  BY DEF IsLeast
<1>2. \A x \in S : (\A y \in S : x <= y) => x = m
  BY DEF IsLeast
<1> QED
  BY <1>1, <1>2 DEF Trees!Min

LEMMA Decodes == ASSUME NEW s \in LifeStates PROVE Trees!Decoded(Trees!Encoded(s)) = s
<1> DEFINE M == {i \in DOMAIN Trees!States : Trees!States[i] = s} \cup {5}
           S == Trees!States
<1>1. S[1] = "new" /\ S[2] = "ready" /\ S[3] = "running" /\ S[4] = "blocked" /\ DOMAIN S = {1, 2, 3, 4}
  BY DEF Trees!States
<1>2. Trees!Encoded(s) = Trees!Min(M) - 1
  BY DEF Trees!Encoded
<1>3. \A c : Trees!Decoded(c) = IF c < 4 THEN S[c + 1] ELSE "zombie"
  BY DEF Trees!Decoded
<1>4. M \subseteq Nat /\ 5 \in M
  BY <1>1
<1>5. ASSUME NEW m \in {1, 2, 3, 4}, S[m] = s PROVE Trees!Min(M) = m
  <2>1. m \in M
    BY <1>1, <1>5
  <2>2. M = {m, 5}
    BY <1>1, <1>5
  <2> HIDE DEF M
  <2>3. \A x \in M : m <= x
    BY <2>2
  <2>4. IsLeast(m, M)
    BY <1>4, <2>1, <2>3 DEF IsLeast
  <2> QED
    BY <2>4, MinIs
<1>6. ASSUME s = "zombie" PROVE Trees!Min(M) = 5
  <2>1. M = {5}
    BY <1>1, <1>6
  <2> HIDE DEF M
  <2>2. \A x \in M : 5 <= x
    BY <2>1
  <2>3. IsLeast(5, M)
    BY <1>4, <2>2 DEF IsLeast
  <2> QED
    BY <2>3, MinIs
<1> HIDE DEF M, S
<1>7. \A m \in {1, 2, 3, 4} : S[m] = s => Trees!Decoded(Trees!Encoded(s)) = s
  <2>1. ASSUME NEW m \in {1, 2, 3, 4}, S[m] = s PROVE Trees!Decoded(Trees!Encoded(s)) = s
    <3>1. Trees!Encoded(s) = m - 1
      BY <1>2, <1>5, <2>1
    <3>2. m - 1 < 4 /\ (m - 1) + 1 = m
      OBVIOUS
    <3> QED
      BY <1>3, <2>1, <3>1, <3>2
  <2> QED
    BY <2>1
<1>8. s = "zombie" => Trees!Decoded(Trees!Encoded(s)) = s
  BY <1>2, <1>3, <1>6
<1>9. s = "new" \/ s = "ready" \/ s = "running" \/ s = "blocked" \/ s = "zombie"
  BY DEF LifeStates
<1> QED
  BY <1>1, <1>7, <1>8, <1>9

LEMMA Pidless ==
  ASSUME TableHolds
  PROVE  /\ Trees!Pids \subseteq 1..TreePids
         /\ \A n \in {"self", "mounts", "version", "status", "stat", "cmdline",
                      "null", "zero", "full", "random", "urandom", "tty"} : Trees!PidOf(n) = {}
<1>1. Trees!Pids \subseteq 1..TreePids
  BY TreeFacts DEF TableHolds
<1> QED
  BY <1>1, TreeFacts DEF Trees!PidOf

LEMMA ProcRoot == ASSUME TableHolds PROVE Agrees(<<"proc">>)
<1> DEFINE p == <<"proc">>
           R == Trees!Readdir(p)
           r == Len(Running)
<1>1. Len(p) = 1 /\ p[1] = "proc"
  OBVIOUS
<1>2. \A x : Len(Append(p, x)) = 2 /\ Append(p, x)[1] = "proc" /\ Append(p, x)[2] = x
  BY LongerByOne
<1>3. /\ R \in Seq(Entries) /\ Len(R) = r + 3 /\ r \in Nat
      /\ \A i \in 1..(r + 3) : R[i] = IF i <= r THEN Trees!Entry(PidName[Running[i]], TRUE)
                                      ELSE Trees!Entry(Trees!Globals[i - r], FALSE)
  BY ProcListIs, RunningAre
<1>4. \A i \in 1..r : Running[i] \in Trees!Pids
  BY ProcDirsAre
<1>5. Trees!Range(R) = Elems(R)
  <2> HIDE DEF R
  <2> QED
    BY <1>3, ElemsAre
<1> DEFINE e == <<>>
<1>6. Len(e) = 0
  OBVIOUS
<1>7. Trees!Nobody = e
  BY DEF Trees!Nobody
<1> HIDE DEF p, R, r, e
<1>8. Trees!Exists(p) /\ Trees!IsDir(p) /\ Trees!Readable(p) = {}
  BY <1>1 DEF Trees!Exists, Trees!ProcExists, Trees!IsDir, Trees!ProcIsDir, Trees!Readable, Trees!ProcRead
<1>9. R # Trees!Nobody
  BY <1>3, <1>6, <1>7
<1>10. ASSUME NEW i \in 1..(r + 3)
       PROVE  Trees!Exists(Append(p, R[i].name)) /\ (R[i].dir <=> Trees!IsDir(Append(p, R[i].name)))
  <2>1. CASE i <= r
    <3>1. i \in 1..r
      BY <1>3, <2>1
    <3>2. R[i].name = PidName[Running[i]] /\ R[i].dir = TRUE
      BY <1>3, <2>1 DEF Trees!Entry
    <3>3. Trees!PidOf(R[i].name) # {}
      BY <1>4, <3>1, <3>2 DEF Trees!PidOf
    <3> QED
      BY <1>2, <3>2, <3>3 DEF Trees!Exists, Trees!ProcExists, Trees!IsDir, Trees!ProcIsDir
  <2>2. CASE ~(i <= r)
    <3>1. i - r \in 1..3
      BY <1>3, <2>2
    <3>2. R[i].name = Trees!Globals[i - r] /\ R[i].dir = FALSE
      BY <1>3, <2>2 DEF Trees!Entry
    <3>3. Trees!Globals[i - r] \in {"self", "mounts", "version"}
      <4>1. Trees!Range(Trees!Globals) = Elems(Trees!Globals) /\ Len(Trees!Globals) = 3
        BY FewNames, ElemsAre
      <4> QED
        BY <3>1, <4>1, RangesAre DEF Elems
    <3>4. Trees!PidOf(R[i].name) = {} /\ R[i].name \in Trees!Range(Trees!Globals)
      BY <3>2, <3>3, Pidless, RangesAre
    <3> QED
      BY <1>2, <3>2, <3>4 DEF Trees!Exists, Trees!ProcExists, Trees!IsDir, Trees!ProcIsDir
  <2> QED
    BY <2>1, <2>2
<1>11. \A x \in Trees!Range(R) : Trees!Exists(Append(p, x.name)) /\ (x.dir <=> Trees!IsDir(Append(p, x.name)))
  BY <1>3, <1>5, <1>10 DEF Elems
<1>12. Agrees(p)
  BY <1>1, <1>8, <1>9, <1>11 DEF Agrees, R
<1> QED
  BY <1>12 DEF p

\* A folder of files only.
LEMMA FilesIn ==
  ASSUME NEW s \in Seq(Called), \A i \in 1..Len(s) : s[i] \in Trees!AllNames, NEW x \in Trees!Range(Trees!Named(s))
  PROVE  x.dir = FALSE /\ x.name \in Trees!Range(s)
<1>1. /\ Trees!Named(s) \in Seq(Entries) /\ Len(Trees!Named(s)) = Len(s)
      /\ \A i \in 1..Len(s) : Trees!Named(s)[i] = Trees!Entry(s[i], FALSE)
  BY NamedIs
<1>2. Trees!Range(Trees!Named(s)) = Elems(Trees!Named(s)) /\ Trees!Range(s) = Elems(s)
  BY <1>1, ElemsAre
<1>3. PICK i \in 1..Len(s) : x = Trees!Entry(s[i], FALSE)
  BY <1>1, <1>2 DEF Elems
<1> QED
  BY <1>2, <1>3 DEF Elems, Trees!Entry

LEMMA ProcName == ASSUME TableHolds, NEW n PROVE Agrees(<<"proc", n>>)
<1> DEFINE p == <<"proc", n>>
           s == Trees!Named(Trees!PerPid)
           e == <<>>
<1>1. Len(p) = 2 /\ p[1] = "proc" /\ p[2] = n
  OBVIOUS
<1>2. \A x : /\ Len(Append(p, x)) = 3 /\ Append(p, x)[1] = "proc" /\ Append(p, x)[2] = n
             /\ Append(p, x)[3] = x
  BY LongerByOne
<1>3. Len(s) = 3 /\ Len(e) = 0 /\ Trees!Nobody = e
  BY FewNames, NamedDistinct DEF Trees!Nobody
<1>4. \A x \in Trees!Range(s) : x.dir = FALSE /\ x.name \in Trees!Range(Trees!PerPid)
  BY FewNames, NamesOf, FilesIn
<1>5. Trees!Range(e) = {}
  BY NobodyIn
<1> HIDE DEF p, s, e
<1>6. Trees!Exists(p) <=> n \in Trees!Range(Trees!Globals) \/ Trees!PidOf(n) # {}
  BY <1>1 DEF Trees!Exists, Trees!ProcExists
<1>7. Trees!IsDir(p) <=> Trees!PidOf(n) # {}
  BY <1>1 DEF Trees!IsDir, Trees!ProcIsDir
<1>8. Trees!Readable(p) # {} <=> n \in Trees!Range(Trees!Globals)
  <2>1. Trees!Readable(p) = Trees!ProcRead(p)
    BY <1>1 DEF Trees!Readable
  <2>2. n \in Trees!Range(Trees!Globals) => Trees!ProcRead(p) = {[of |-> n]}
    BY <1>1 DEF Trees!ProcRead
  <2>3. n \notin Trees!Range(Trees!Globals) => Trees!ProcRead(p) = {}
    BY <1>1 DEF Trees!ProcRead
  <2> QED
    BY <2>1, <2>2, <2>3
<1>9. ~(n \in Trees!Range(Trees!Globals) /\ Trees!PidOf(n) # {})
  BY Pidless, RangesAre
<1>10. Trees!Readdir(p) = IF Trees!PidOf(n) # {} THEN s ELSE e
  BY <1>1, <1>3 DEF Trees!Readdir, Trees!ProcReaddir, s
<1>11. Trees!Readdir(p) # Trees!Nobody <=> Trees!PidOf(n) # {}
  BY <1>3, <1>10
<1>12. ASSUME NEW x \in Trees!Range(Trees!Readdir(p))
       PROVE  Trees!Exists(Append(p, x.name)) /\ (x.dir <=> Trees!IsDir(Append(p, x.name)))
  <2>1. Trees!PidOf(n) # {} /\ x.dir = FALSE /\ x.name \in Trees!Range(Trees!PerPid)
    BY <1>4, <1>5, <1>10, <1>12
  <2> QED
    BY <1>2, <2>1 DEF Trees!Exists, Trees!ProcExists, Trees!IsDir, Trees!ProcIsDir
<1>13. Agrees(p)
  BY <1>1, <1>6, <1>7, <1>8, <1>9, <1>11, <1>12 DEF Agrees
<1> QED
  BY <1>13 DEF p

LEMMA ProcFile == ASSUME TableHolds, NEW n, NEW f PROVE Agrees(<<"proc", n, f>>)
<1> DEFINE p == <<"proc", n, f>>
           e == <<>>
<1>1. Len(p) = 3 /\ p[1] = "proc" /\ p[2] = n /\ p[3] = f
  OBVIOUS
<1>2. Trees!Nobody = e
  BY DEF Trees!Nobody
<1>3. Trees!Range(e) = {}
  BY NobodyIn
<1> HIDE DEF p, e
<1>4. Trees!Exists(p) <=> Trees!PidOf(n) # {} /\ f \in Trees!Range(Trees!PerPid)
  BY <1>1 DEF Trees!Exists, Trees!ProcExists
<1>5. ~Trees!IsDir(p)
  BY <1>1 DEF Trees!IsDir, Trees!ProcIsDir
<1>6. Trees!ProcRead(p) = IF f \in Trees!Range(Trees!PerPid)
                          THEN {[state |-> running[q].state, pri |-> running[q].pri] : q \in Trees!PidOf(n)}
                          ELSE {}
  BY <1>1 DEF Trees!ProcRead
<1>7. Trees!Readable(p) = Trees!ProcRead(p)
  BY <1>1 DEF Trees!Readable
<1>8. Trees!Readdir(p) = e
  BY <1>1, <1>2 DEF Trees!Readdir, Trees!ProcReaddir
<1>9. ASSUME NEW q \in Trees!PidOf(n)
      PROVE  Trees!ProcList[q] = [state |-> running[q].state, pri |-> running[q].pri]
  <2>1. q \in Trees!Pids
    BY DEF Trees!PidOf
  <2>2. running[q].state \in LifeStates
    BY <2>1 DEF TableHolds, Row
  <2>3. Trees!Decoded(Trees!Encoded(running[q].state)) = running[q].state
    BY <2>2, Decodes
  <2> QED
    BY <2>1, <2>3 DEF Trees!ProcList
<1>10. Trees!ProcRead(p) \subseteq {Trees!ProcList[q] : q \in Trees!PidOf(p[2])}
  BY <1>1, <1>6, <1>9
<1>11. p[1] # "dev" /\ Trees!Readdir(p) = Trees!Nobody
  BY <1>1, <1>2, <1>8
<1>12. \A x \in Trees!Range(Trees!Readdir(p)) : FALSE
  BY <1>3, <1>8
<1>13. Trees!Readable(p) # {} <=> Trees!PidOf(n) # {} /\ f \in Trees!Range(Trees!PerPid)
  BY <1>6, <1>7
<1>14. Agrees(p)
  BY <1>4, <1>5, <1>10, <1>11, <1>12, <1>13 DEF Agrees
<1> QED
  BY <1>14 DEF p

LEMMA DevRoot == Agrees(<<"dev">>)
<1> DEFINE p == <<"dev">>
           s == Trees!Named(Trees!Nodes)
           e == <<>>
<1>1. Len(p) = 1 /\ p[1] = "dev"
  OBVIOUS
<1>2. \A x : Len(Append(p, x)) = 2 /\ Append(p, x)[1] = "dev" /\ Append(p, x)[2] = x
  BY LongerByOne
<1>3. Len(s) = 6 /\ Len(e) = 0 /\ Trees!Nobody = e
  BY FewNames, NamedDistinct DEF Trees!Nobody
<1>4. \A x \in Trees!Range(s) : x.dir = FALSE /\ x.name \in Trees!Range(Trees!Nodes)
  BY FewNames, NamesOf, FilesIn
<1> HIDE DEF p, s, e
<1>5. Trees!Exists(p) /\ Trees!IsDir(p) /\ Trees!Readable(p) = {}
  BY <1>1 DEF Trees!Exists, Trees!DevExists, Trees!IsDir, Trees!DevIsDir, Trees!Readable, Trees!DevRead
<1>6. Trees!Readdir(p) = s
  BY <1>1 DEF Trees!Readdir, Trees!DevReaddir, s
<1>7. s # Trees!Nobody
  BY <1>3
<1>8. ASSUME NEW x \in Trees!Range(s)
      PROVE  Trees!Exists(Append(p, x.name)) /\ (x.dir <=> Trees!IsDir(Append(p, x.name)))
  <2>1. x.dir = FALSE /\ x.name \in Trees!Range(Trees!Nodes)
    BY <1>4
  <2> QED
    BY <1>2, <2>1 DEF Trees!Exists, Trees!DevExists, Trees!IsDir, Trees!DevIsDir
<1>9. Trees!ClassifyWrite(p) = "not a device"
  BY <1>1 DEF Trees!ClassifyWrite
<1>10. Len(p) # 3 /\ p[1] = "dev" /\ Trees!Readdir(p) # Trees!Nobody
  BY <1>1, <1>6, <1>7
<1>11. \A x \in Trees!Range(Trees!Readdir(p)) :
         Trees!Exists(Append(p, x.name)) /\ (x.dir <=> Trees!IsDir(Append(p, x.name)))
  BY <1>6, <1>8
<1>12. Agrees(p)
  BY <1>5, <1>9, <1>10, <1>11 DEF Agrees
<1> QED
  BY <1>12 DEF p

LEMMA DevName == ASSUME NEW n PROVE Agrees(<<"dev", n>>)
<1> DEFINE p == <<"dev", n>>
           e == <<>>
<1>1. Len(p) = 2 /\ p[1] = "dev" /\ p[2] = n
  OBVIOUS
<1>2. Trees!Nobody = e
  BY DEF Trees!Nobody
<1>3. Trees!Range(e) = {}
  BY NobodyIn
<1> HIDE DEF p, e
<1>4. Trees!Exists(p) <=> n \in {"null", "zero", "full", "random", "urandom", "tty"}
  BY <1>1, RangesAre DEF Trees!Exists, Trees!DevExists
<1>5. ~Trees!IsDir(p)
  BY <1>1 DEF Trees!IsDir, Trees!DevIsDir
<1>6. Trees!Readable(p) # {} <=> n \in {"null", "zero", "full", "random", "urandom", "tty"}
  BY <1>1 DEF Trees!Readable, Trees!DevRead
<1>7. Trees!Readdir(p) = e
  BY <1>1, <1>2 DEF Trees!Readdir, Trees!DevReaddir
<1>8. Trees!ClassifyWrite(p) = "not a device" <=> n \notin {"null", "zero", "full", "random", "urandom", "tty"}
  BY <1>1, RangesAre DEF Trees!ClassifyWrite
<1>9. Len(p) # 3 /\ p[1] = "dev" /\ Trees!Readdir(p) = Trees!Nobody
  BY <1>1, <1>2, <1>7
<1>10. \A x \in Trees!Range(Trees!Readdir(p)) : FALSE
  BY <1>3, <1>7
<1>11. Trees!Exists(p) <=> Trees!IsDir(p) \/ Trees!Readable(p) # {}
  BY <1>4, <1>5, <1>6
<1>12. Trees!ClassifyWrite(p) = "not a device" <=> Trees!Readable(p) = {}
  BY <1>6, <1>8
<1>13. Agrees(p)
  BY <1>5, <1>9, <1>10, <1>11, <1>12 DEF Agrees
<1> QED
  BY <1>13 DEF p

LEMMA TreesTell == TableHolds => Trees!TreesAgree
<1> SUFFICES ASSUME TableHolds PROVE Trees!TreesAgree
  OBVIOUS
<1>1. ASSUME NEW path \in Trees!TreePaths PROVE Agrees(path)
  <2>1. \/ path = <<"proc">> \/ path = <<"dev">>
        \/ \E n : path = <<"proc", n>> \/ path = <<"dev", n>>
        \/ \E n, f : path = <<"proc", n, f>>
    BY DEF Trees!TreePaths
  <2> QED
    BY <2>1, ProcRoot, ProcName, ProcFile, DevRoot, DevName
<1> QED
  BY <1>1 DEF Trees!TreesAgree, Agrees

(***************************************************************************)
(* One program at a time: what it keeps true is true while it runs.        *)
(***************************************************************************)
ProgramsHold ==
  /\ which = "nano" => NanoHolds
  /\ which = "editor" => EditorHolds
  /\ which = "sysmon" => MonAims
  /\ which = "files" => ManagerShows
  /\ which = "guest" => GuestHolds /\ GuestCounts
  /\ which = "trees" => ListHolds /\ TableHolds

\* Every program starts with what it keeps true.
LEMMA ProgramsBegin == ProgramsInit => ProgramsHold
BY NanoBegins, EditorBegins, MonInit, FmBegins, GuestBegins, GuestCountsBegin, TreesBegins, TableBegins DEF ProgramsInit, ProgramsHold

\* A step is one of the program that runs, and leaves which one that is.
LEMMA ProgramsGoOn == ProgramsHold /\ [ProgramsNext]_programVars => ProgramsHold'
<1> SUFFICES ASSUME ProgramsHold, [ProgramsNext]_programVars PROVE ProgramsHold'
  OBVIOUS
<1>1. UNCHANGED which
  BY DEF ProgramsNext, programVars
<1>2. ASSUME which = "nano" PROVE NanoHolds'
  <2>1. NanoHolds
    BY <1>2 DEF ProgramsHold
  <2>2. Text!NanoNext \/ UNCHANGED <<nanoVars, textVars>>
    BY <1>2 DEF ProgramsNext, programVars
  <2>3. ASSUME UNCHANGED <<nanoVars, textVars>> PROVE NanoHolds'
    BY <2>1, <2>3 DEF NanoHolds, Windowed, ContentOf, Readable, Kept_, nanoVars, textVars
  <2> QED
    BY <2>1, <2>2, <2>3, NanoStep
<1>3. ASSUME which = "editor" PROVE EditorHolds'
  <2>1. EditorHolds
    BY <1>3 DEF ProgramsHold
  <2>2. Edit!EdNext \/ UNCHANGED <<edVars, textVars>>
    BY <1>3 DEF ProgramsNext, programVars
  <2>3. ASSUME UNCHANGED <<edVars, textVars>> PROVE EditorHolds'
    BY <2>1, <2>3 DEF EditorHolds, EdWindowed, ContentOf, Readable, Kept_, edVars, textVars
  <2> QED
    BY <2>1, <2>2, <2>3, EditorStep
<1>4. ASSUME which = "sysmon" PROVE MonAims'
  <2>1. MonAims
    BY <1>4 DEF ProgramsHold
  <2>2. Monitor!SysMonNext \/ UNCHANGED <<monVars, rowVars, running>>
    BY <1>4 DEF ProgramsNext, programVars
  <2>3. ASSUME UNCHANGED <<monVars, rowVars, running>> PROVE MonAims'
    <3>1. UNCHANGED <<table, born, painted, aim, steady, last, sel, batch, running>>
      BY <2>3 DEF monVars, rowVars
    <3>2. Monitor!HitsItsAim'
      BY <2>1, <3>1 DEF MonAims, Monitor!HitsItsAim
    <3>3. /\ IsFiniteSet(DOMAIN table) /\ born \in Nat /\ Later(DOMAIN table) /\ sel \in DOMAIN running
          /\ \A p \in DOMAIN table \cup Monitor!PidsOf(painted) : p \in Nat \ {0} /\ p <= born
          /\ (batch = 0 => steady /\ running[sel].pid = aim)
          /\ (steady /\ aim \in Monitor!PidsOf(running) => running[sel].pid = aim)
          /\ (Monitor!PidsOf(painted) = Monitor!PidsOf(running) => steady)
      BY <2>1 DEF MonAims
    <3> QED
      BY <2>1, <3>1, <3>2, <3>3, MonKeeps
  <2> QED
    BY <2>1, <2>2, <2>3, MonStep
<1>5. ASSUME which = "files" PROVE ManagerShows'
  <2>1. ManagerShows
    BY <1>5 DEF ProgramsHold
  <2>2. Manager!FmNext \/ UNCHANGED <<filesVars, rowVars>>
    BY <1>5 DEF ProgramsNext, programVars
  <2>3. ASSUME UNCHANGED <<filesVars, rowVars>> PROVE ManagerShows'
    BY <2>1, <2>3 DEF ManagerShows, FrameIsCurrent, ShownRow, Manager!OpensWhatIsShown, filesVars,
                    rowVars
  <2> QED
    BY <2>1, <2>2, <2>3, FmStep
<1>6. ASSUME which = "guest" PROVE GuestHolds' /\ GuestCounts'
  <2>1. GuestHolds /\ GuestCounts
    BY <1>6 DEF ProgramsHold
  <2>2. Guest!GuestNext \/ UNCHANGED guestVars
    BY <1>6 DEF ProgramsNext, programVars
  <2>3. CASE UNCHANGED guestVars
    <3>1. /\ region' = region /\ written' = written /\ queued' = queued /\ got' = got
          /\ chan' = chan /\ signals' = signals
      BY <2>3 DEF guestVars
    <3> QED
      BY <2>1, <3>1, GuestGot DEF GuestHolds, GuestCounts
  <2> QED
    BY <2>1, <2>2, <2>3, GuestStep, GuestCountsStep
<1>7. ASSUME which = "trees" PROVE ListHolds' /\ TableHolds'
  <2>1. ListHolds /\ TableHolds
    BY <1>7 DEF ProgramsHold
  <2>2. Trees!TreesNext \/ UNCHANGED <<treeVars, running>>
    BY <1>7 DEF ProgramsNext, programVars
  <2>3. CASE UNCHANGED <<treeVars, running>>
    <3>1. UNCHANGED <<running, files>> /\ UNCHANGED listing
      BY <2>3 DEF treeVars
    <3>2. PICK at : at = listing.at
      OBVIOUS
    <3>3. Trees!Readdir(at)' = Trees!Readdir(at)
      BY <3>1, FoldersSame
    <3>4. Trees!Readdir(listing.at)' = Trees!Readdir(listing.at)
      BY <3>1, <3>2, <3>3
    <3>5. ListHolds'
      BY <2>1, <3>1, <3>4 DEF ListHolds, ListFair, Trees!Closed
    <3>6. /\ running' = running /\ nextPid' = nextPid /\ ready' = ready /\ Trees!Pids' = Trees!Pids
      BY <2>3 DEF treeVars, Trees!Pids
    <3>7. TableHolds'
      BY <2>1, <3>6, TableStill DEF TableHolds
    <3> QED
      BY <3>5, <3>7
  <2> QED
    BY <2>1, <2>2, <2>3, TreesStep, TableStep
<1> QED
  BY <1>1, <1>2, <1>3, <1>4, <1>5, <1>6, <1>7 DEF ProgramsHold

LEMMA ProgramsAlways == ProgramsSpec => []ProgramsHold
<1> QED
  BY ProgramsBegin, ProgramsGoOn, PTL DEF ProgramsSpec

\* What each keeps true says what the runs check of it.
LEMMA ProgramsKeep == ProgramsHold => ActsOnWhatIsShown /\ CleanIsOnDisk /\ RepliesWhole /\ ViewsAgree
<1> SUFFICES ASSUME ProgramsHold PROVE ActsOnWhatIsShown /\ CleanIsOnDisk /\ RepliesWhole /\ ViewsAgree
  OBVIOUS
<1>1. MonAims => Monitor!HitsItsAim
  BY DEF MonAims
<1>2. ManagerShows => Manager!OpensWhatIsShown
  BY DEF ManagerShows
<1>3. GuestHolds => Guest!RepliesWhole
  BY DEF GuestHolds
<1> QED
  BY <1>1, <1>2, <1>3, NanoKeeps, EditorKeeps, TreesKeep, TableKeeps, TreesTell
  DEF ProgramsHold, ActsOnWhatIsShown, CleanIsOnDisk, RepliesWhole, ViewsAgree

\* A row is looked at in one frame and acted on in the next, after a refresh or a change of
\* folder.  The monitor (refresh, act) hits the process that the frame on the screen shows as
\* selected, or in the row the user went to, while it is listed and those listed above it
\* are; the file manager (activate) opens the row that was drawn; the caret an editor draws
\* is where its cursor is (keep_cursor_visible, scroll).
THEOREM ActsAsShown == ProgramsSpec => []ActsOnWhatIsShown
BY ProgramsAlways, ProgramsKeep, PTL

\* nano and the editor clear the mark of a modified text only when what they hold is what
\* the file opens as, and a document prints what the editors show (save, save_editable,
\* write_in_place, repack).
THEOREM CleanStays == ProgramsSpec => []CleanIsOnDisk
BY ProgramsAlways, ProgramsKeep, PTL

\* A reply that fits the buffer of its call (call, chan_recv, net_request, proc_list) gets
\* through whole, and every one of shm_read and win_read_input does fit; of one that does
\* not nothing is given, but for the process table's first entries.  The entries that stay
\* in a folder while it is listed (fd_readdir) are all given, once.
THEOREM RepliesArriveWhole == ProgramsSpec => []RepliesWhole
BY ProgramsAlways, ProgramsKeep, PTL

\* exists, is_dir, readdir and read, each with its own parser, tell of one tree; the queues of
\* the scheduler hold whom the host spawned, once, at the priority the process table shows.
THEOREM TreesViewsAgree == ProgramsSpec => []ViewsAgree
BY ProgramsAlways, ProgramsKeep, PTL

\* A step of a composed program is one of the editor's, if the editor runs.
LEMMA ProgramsEdit ==
  ProgramsHold /\ [ProgramsNext]_programVars =>
    [/\ which = "nano" => Text!EditsText
     /\ which = "editor" => Edit!EditsText]_programVars
<1> SUFFICES ASSUME ProgramsHold, ProgramsNext, which = "nano" \/ which = "editor"
             PROVE  /\ which = "nano" => Text!EditsText
                    /\ which = "editor" => Edit!EditsText
  OBVIOUS
<1>1. CASE which = "nano"
  BY <1>1, NanoEdits DEF ProgramsHold, ProgramsNext
<1>2. CASE which = "editor"
  BY <1>2, EditorEdits DEF ProgramsHold, ProgramsNext
<1> QED
  BY <1>1, <1>2

\* Each key's handler of nano and of the editor (insert, newline, backspace, move_cursor, ...)
\* changes lines, row and column as TextBuffer changes a text and a place in it.
THEOREM EditorsEditText == ProgramsSpec => EditsText
<1> QED
  BY ProgramsAlways, ProgramsEdit, PTL DEF ProgramsSpec, EditsText
=============================================================================
