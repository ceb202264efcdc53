--------------------------- MODULE SessionProofs ---------------------------
(***************************************************************************)
(* Proofs about the parts of Session, for any keys, windows, processes,    *)
(* chunks, polls and lines: what Metrics counts, what Terminal shows, what *)
(* the line editor makes of the chunks its input arrives in, and what a    *)
(* pipeline of the shell leaves behind.                                    *)
(***************************************************************************)
EXTENDS Session, DataLemmas

(***************************************************************************)
(* What becomes of every key.                                              *)
(***************************************************************************)

\* Of the keys k in p: all of them, and those the kernel has, or has not, taken.
Unresolved(p, k)  == {id \in DOMAIN p : p[id].key = k}
NotTaken(p, k)    == {id \in DOMAIN p : p[id].key = k /\ ~p[id].delivered}
Taken(p, k)       == {id \in DOMAIN p : p[id].key = k /\ p[id].delivered}

Sample == [source: Windows \cup {Terminal}, key: Keys, delivered: BOOLEAN, late: BOOLEAN]

MetricsType ==
  /\ nextId \in Nat \ {0}
  /\ DOMAIN pending \subseteq 1..nextId - 1
  /\ \A id \in DOMAIN pending : pending[id] \in Sample
  /\ generated \in [Keys -> Nat] /\ delivered \in [Keys -> Nat] /\ rendered \in [Keys -> Nat]
  /\ dropped \in [Keys -> Nat] /\ missed \in [Keys -> Nat]

\* The counts of a key, each against those pending.
Counted ==
  \A k \in Keys :
    /\ generated[k] = rendered[k] + dropped[k] + missed[k] + Cardinality(Unresolved(pending, k))
    /\ delivered[k] + Cardinality(NotTaken(pending, k)) <= generated[k]
    /\ rendered[k] + Cardinality(Taken(pending, k)) <= delivered[k]

MetricsInv == MetricsType /\ Counted

LEMMA PendingFinite ==
  ASSUME MetricsType, NEW k \in Keys
  PROVE  /\ IsFiniteSet(DOMAIN pending)
         /\ IsFiniteSet(Unresolved(pending, k)) /\ Cardinality(Unresolved(pending, k)) \in Nat
         /\ IsFiniteSet(NotTaken(pending, k)) /\ Cardinality(NotTaken(pending, k)) \in Nat
         /\ IsFiniteSet(Taken(pending, k)) /\ Cardinality(Taken(pending, k)) \in Nat
<1>1. IsFiniteSet(1..nextId - 1)
  BY FS_Interval DEF MetricsType
<1>2. IsFiniteSet(DOMAIN pending)
  BY <1>1, FS_Subset DEF MetricsType
<1>3. /\ Unresolved(pending, k) \in SUBSET DOMAIN pending
      /\ NotTaken(pending, k) \in SUBSET DOMAIN pending
      /\ Taken(pending, k) \in SUBSET DOMAIN pending
  BY DEF Unresolved, NotTaken, Taken
<1> QED
  BY <1>2, <1>3, FS_Subset, FS_CardinalityType

\* Counting some of the pending keys as something.
LEMMA PlusAdds ==
  ASSUME MetricsType, NEW ids \in SUBSET DOMAIN pending, NEW f \in [Keys -> Nat]
  PROVE  /\ Plus(f, ids) \in [Keys -> Nat]
         /\ \A k \in Keys : /\ Plus(f, ids)[k] = f[k] + Cardinality(Of(ids, k))
                            /\ Cardinality(Of(ids, k)) \in Nat /\ IsFiniteSet(Of(ids, k))
<1>1. ASSUME NEW k \in Keys PROVE IsFiniteSet(Of(ids, k)) /\ Cardinality(Of(ids, k)) \in Nat
  <2>1. Of(ids, k) \in SUBSET DOMAIN pending
    BY DEF Of
  <2> QED
    BY <2>1, PendingFinite, FS_Subset, FS_CardinalityType
<1> QED
  BY <1>1 DEF Plus

\* Settling some of the pending keys.
LEMMA ForgetCounts ==
  ASSUME MetricsType, NEW ids \in SUBSET DOMAIN pending, Forget(ids), NEW k \in Keys
  PROVE  LET n == Cardinality(Of(ids, k))
             u == Cardinality(Of(Undelivered(ids), k))
         IN  /\ n \in Nat /\ u \in Nat /\ u <= n
             /\ Cardinality(Unresolved(pending', k)) = Cardinality(Unresolved(pending, k)) - n
             /\ Cardinality(NotTaken(pending', k)) = Cardinality(NotTaken(pending, k)) - u
             /\ Cardinality(Taken(pending', k)) = Cardinality(Taken(pending, k)) - (n - u)
<1> DEFINE here == Of(ids, k)
           un   == Of(Undelivered(ids), k)
           tk   == here \ un
<1>0. /\ here = {id \in ids : pending[id].key = k}
      /\ un = {id \in ids : ~pending[id].delivered /\ pending[id].key = k}
      /\ tk = {id \in ids : pending[id].delivered /\ pending[id].key = k}
  BY DEF Of, Undelivered
<1>1. /\ DOMAIN pending' = DOMAIN pending \ ids
      /\ \A id \in DOMAIN pending \ ids : pending'[id] = pending[id]
  BY DEF Forget
<1>2. /\ Unresolved(pending', k) = Unresolved(pending, k) \ here
      /\ Unresolved(pending, k) \cap here = here
  BY <1>0, <1>1 DEF Unresolved
<1>3. /\ NotTaken(pending', k) = NotTaken(pending, k) \ un
      /\ NotTaken(pending, k) \cap un = un
  BY <1>0, <1>1 DEF NotTaken
<1>4. /\ Taken(pending', k) = Taken(pending, k) \ tk
      /\ Taken(pending, k) \cap tk = tk
  BY <1>0, <1>1 DEF Taken
<1>5. /\ IsFiniteSet(here) /\ Cardinality(here) \in Nat
      /\ un \in SUBSET here /\ here \cap un = un
  <2>1. here \in SUBSET DOMAIN pending /\ un \in SUBSET here /\ here \cap un = un
    BY <1>0
  <2> QED
    BY <2>1, PendingFinite, FS_Subset, FS_CardinalityType
<1>6. /\ IsFiniteSet(un) /\ Cardinality(un) \in Nat /\ Cardinality(un) <= Cardinality(here)
      /\ Cardinality(tk) = Cardinality(here) - Cardinality(un)
  <2>1. IsFiniteSet(un) /\ Cardinality(un) <= Cardinality(here)
    BY <1>5, FS_Subset
  <2>2. Cardinality(un) \in Nat
    BY <2>1, FS_CardinalityType
  <2>3. Cardinality(here \ un) = Cardinality(here) - Cardinality(here \cap un)
    BY <1>5, FS_Difference
  <2> QED
    BY <1>5, <2>1, <2>2, <2>3
<1> HIDE DEF here, un, tk
<1>7. Cardinality(Unresolved(pending', k)) = Cardinality(Unresolved(pending, k)) - Cardinality(here)
  BY <1>2, PendingFinite, FS_Difference
<1>8. Cardinality(NotTaken(pending', k)) = Cardinality(NotTaken(pending, k)) - Cardinality(un)
  BY <1>3, PendingFinite, FS_Difference
<1>9. Cardinality(Taken(pending', k)) = Cardinality(Taken(pending, k)) - Cardinality(tk)
  BY <1>4, PendingFinite, FS_Difference
<1> QED
  BY <1>5, <1>6, <1>7, <1>8, <1>9 DEF here, un

LEMMA ForgetType ==
  ASSUME MetricsType, NEW ids, Forget(ids), UNCHANGED nextId
  PROVE  /\ DOMAIN pending' \subseteq 1..nextId' - 1
         /\ \A id \in DOMAIN pending' : pending'[id] \in Sample
<1>1. /\ DOMAIN pending' = DOMAIN pending \ ids
      /\ \A id \in DOMAIN pending \ ids : pending'[id] = pending[id]
  BY DEF Forget
<1> QED
  BY <1>1 DEF MetricsType

LEMMA MetricsStart == MetricsInit => MetricsInv
<1> SUFFICES ASSUME MetricsInit PROVE MetricsInv
  OBVIOUS
<1>1. pending = <<>> /\ DOMAIN pending = {}
  BY DEF MetricsInit
<1>2. MetricsType
  BY <1>1 DEF MetricsInit, MetricsType, Zero
<1>3. \A k \in Keys : /\ Unresolved(pending, k) = {} /\ NotTaken(pending, k) = {}
                      /\ Taken(pending, k) = {}
  BY <1>1 DEF Unresolved, NotTaken, Taken
<1>4. Counted
  <2> SUFFICES ASSUME NEW k \in Keys
               PROVE  /\ generated[k] = rendered[k] + dropped[k] + missed[k] + Cardinality(Unresolved(pending, k))
                      /\ delivered[k] + Cardinality(NotTaken(pending, k)) <= generated[k]
                      /\ rendered[k] + Cardinality(Taken(pending, k)) <= delivered[k]
    BY DEF Counted
  <2>1. /\ generated[k] = 0 /\ rendered[k] = 0 /\ dropped[k] = 0 /\ missed[k] = 0 /\ delivered[k] = 0
    BY DEF MetricsInit, Zero
  <2>2. /\ Cardinality(Unresolved(pending, k)) = 0 /\ Cardinality(NotTaken(pending, k)) = 0
        /\ Cardinality(Taken(pending, k)) = 0
    BY <1>3, FS_EmptySet
  <2> QED
    BY <2>1, <2>2
<1> QED
  BY <1>2, <1>4 DEF MetricsInv

LEMMA BeginStep ==
  ASSUME MetricsInv, NEW source \in Windows \cup {Terminal}, NEW key \in Keys, NEW done \in BOOLEAN, Begin(source, key, done)
  PROVE  MetricsInv'
<1>0. MetricsType /\ Counted
  BY DEF MetricsInv
<1>1. /\ nextId' = nextId + 1 /\ nextId \in Nat \ {0} /\ nextId \notin DOMAIN pending
      /\ DOMAIN pending' = DOMAIN pending \cup {nextId}
      /\ pending'[nextId].key = key /\ pending'[nextId].delivered = done /\ pending'[nextId] \in Sample
      /\ \A id \in DOMAIN pending : pending'[id] = pending[id]
  <2>1. /\ nextId' = nextId + 1 /\ nextId \in Nat \ {0} /\ nextId \notin DOMAIN pending
    BY <1>0 DEF Begin, MetricsType
  <2>2. /\ DOMAIN pending' = DOMAIN pending \cup {nextId}
        /\ pending'[nextId] = [source |-> source, key |-> key, delivered |-> done, late |-> FALSE]
        /\ \A id \in DOMAIN pending : id # nextId => pending'[id] = pending[id]
    BY DEF Begin
  <2> QED
    BY <2>1, <2>2 DEF Sample
<1>2. /\ generated' = [generated EXCEPT ![key] = @ + 1]
      /\ delivered' = IF done THEN [delivered EXCEPT ![key] = @ + 1] ELSE delivered
      /\ UNCHANGED <<rendered, dropped, missed>>
  BY DEF Begin
<1>3. MetricsType'
  <2>1. DOMAIN pending' \subseteq 1..nextId' - 1
    BY <1>0, <1>1 DEF MetricsType
  <2>2. \A id \in DOMAIN pending' : pending'[id] \in Sample
    BY <1>0, <1>1 DEF MetricsType
  <2>3. /\ generated' \in [Keys -> Nat] /\ delivered' \in [Keys -> Nat] /\ rendered' \in [Keys -> Nat]
        /\ dropped' \in [Keys -> Nat] /\ missed' \in [Keys -> Nat]
    BY <1>0, <1>2 DEF MetricsType
  <2> QED
    BY <1>1, <2>1, <2>2, <2>3 DEF MetricsType
<1>4. ASSUME NEW k \in Keys
      PROVE  /\ generated'[k] = rendered'[k] + dropped'[k] + missed'[k] + Cardinality(Unresolved(pending', k))
             /\ delivered'[k] + Cardinality(NotTaken(pending', k)) <= generated'[k]
             /\ rendered'[k] + Cardinality(Taken(pending', k)) <= delivered'[k]
  <2>0. /\ generated[k] \in Nat /\ delivered[k] \in Nat /\ rendered[k] \in Nat
        /\ dropped[k] \in Nat /\ missed[k] \in Nat
        /\ rendered'[k] = rendered[k] /\ dropped'[k] = dropped[k] /\ missed'[k] = missed[k]
        /\ Cardinality(Unresolved(pending, k)) \in Nat /\ IsFiniteSet(Unresolved(pending, k))
        /\ Cardinality(NotTaken(pending, k)) \in Nat /\ IsFiniteSet(NotTaken(pending, k))
        /\ Cardinality(Taken(pending, k)) \in Nat /\ IsFiniteSet(Taken(pending, k))
    BY <1>0, <1>2, PendingFinite DEF MetricsType
  <2>1. CASE k # key
    <3>1. /\ Unresolved(pending', k) = Unresolved(pending, k) /\ NotTaken(pending', k) = NotTaken(pending, k)
          /\ Taken(pending', k) = Taken(pending, k)
      BY <1>1, <2>1 DEF Unresolved, NotTaken, Taken
    <3>2. generated'[k] = generated[k] /\ delivered'[k] = delivered[k]
      BY <1>0, <1>2, <2>1 DEF MetricsType
    <3> QED
      BY <1>0, <2>0, <3>1, <3>2 DEF Counted
  <2>2. CASE k = key /\ done
    <3>1. /\ Unresolved(pending', k) = Unresolved(pending, k) \cup {nextId} /\ nextId \notin Unresolved(pending, k)
          /\ NotTaken(pending', k) = NotTaken(pending, k)
          /\ Taken(pending', k) = Taken(pending, k) \cup {nextId} /\ nextId \notin Taken(pending, k)
      BY <1>1, <2>2 DEF Unresolved, NotTaken, Taken
    <3>2. generated'[k] = generated[k] + 1 /\ delivered'[k] = delivered[k] + 1
      BY <1>0, <1>2, <2>2 DEF MetricsType
    <3>3. /\ Cardinality(Unresolved(pending', k)) = Cardinality(Unresolved(pending, k)) + 1
          /\ Cardinality(Taken(pending', k)) = Cardinality(Taken(pending, k)) + 1
      BY <2>0, <3>1, FS_AddElement
    <3> QED
      BY <1>0, <2>0, <3>1, <3>2, <3>3 DEF Counted
  <2>3. CASE k = key /\ ~done
    <3>1. /\ Unresolved(pending', k) = Unresolved(pending, k) \cup {nextId} /\ nextId \notin Unresolved(pending, k)
          /\ NotTaken(pending', k) = NotTaken(pending, k) \cup {nextId} /\ nextId \notin NotTaken(pending, k)
          /\ Taken(pending', k) = Taken(pending, k)
      BY <1>1, <2>3 DEF Unresolved, NotTaken, Taken
    <3>2. generated'[k] = generated[k] + 1 /\ delivered'[k] = delivered[k]
      BY <1>0, <1>2, <2>3 DEF MetricsType
    <3>3. /\ Cardinality(Unresolved(pending', k)) = Cardinality(Unresolved(pending, k)) + 1
          /\ Cardinality(NotTaken(pending', k)) = Cardinality(NotTaken(pending, k)) + 1
      BY <2>0, <3>1, FS_AddElement
    <3> QED
      BY <1>0, <2>0, <3>1, <3>2, <3>3 DEF Counted
  <2> QED
    BY <2>1, <2>2, <2>3
<1> QED
  BY <1>3, <1>4 DEF MetricsInv, Counted

\* A key is settled as rendered, dropped or missed: counted there, and as delivered
\* if it was shown and the kernel had not answered.
LEMMA ForgetStep ==
  ASSUME MetricsInv, NEW ids \in SUBSET DOMAIN pending, Forget(ids), UNCHANGED <<nextId, generated>>,
         \/ /\ rendered' = Plus(rendered, ids) /\ delivered' = Plus(delivered, Undelivered(ids))
            /\ UNCHANGED <<dropped, missed>>
         \/ dropped' = Plus(dropped, ids) /\ UNCHANGED <<rendered, delivered, missed>>
         \/ missed' = Plus(missed, ids) /\ UNCHANGED <<rendered, delivered, dropped>>
  PROVE  MetricsInv'
<1>0. MetricsType /\ Counted /\ Undelivered(ids) \in SUBSET DOMAIN pending
  BY DEF MetricsInv, Undelivered
<1>1. MetricsType'
  <2>1. /\ generated' \in [Keys -> Nat] /\ delivered' \in [Keys -> Nat] /\ rendered' \in [Keys -> Nat]
        /\ dropped' \in [Keys -> Nat] /\ missed' \in [Keys -> Nat]
    <3>1. \A f \in [Keys -> Nat] : /\ Plus(f, ids) \in [Keys -> Nat]
                                   /\ Plus(f, Undelivered(ids)) \in [Keys -> Nat]
      BY <1>0, PlusAdds
    <3>2. /\ generated \in [Keys -> Nat] /\ delivered \in [Keys -> Nat] /\ rendered \in [Keys -> Nat]
          /\ dropped \in [Keys -> Nat] /\ missed \in [Keys -> Nat]
      BY <1>0 DEF MetricsType
    <3> QED
      BY <3>1, <3>2
  <2> QED
    BY <1>0, <2>1, ForgetType DEF MetricsType
<1>2. ASSUME NEW k \in Keys
      PROVE  /\ generated'[k] = rendered'[k] + dropped'[k] + missed'[k] + Cardinality(Unresolved(pending', k))
             /\ delivered'[k] + Cardinality(NotTaken(pending', k)) <= generated'[k]
             /\ rendered'[k] + Cardinality(Taken(pending', k)) <= delivered'[k]
  <2> DEFINE n == Cardinality(Of(ids, k))
             u == Cardinality(Of(Undelivered(ids), k))
  <2>1. /\ n \in Nat /\ u \in Nat /\ u <= n
        /\ Cardinality(Unresolved(pending', k)) = Cardinality(Unresolved(pending, k)) - n
        /\ Cardinality(NotTaken(pending', k)) = Cardinality(NotTaken(pending, k)) - u
        /\ Cardinality(Taken(pending', k)) = Cardinality(Taken(pending, k)) - (n - u)
    BY <1>0, ForgetCounts
  <2>2. /\ generated[k] \in Nat /\ delivered[k] \in Nat /\ rendered[k] \in Nat
        /\ dropped[k] \in Nat /\ missed[k] \in Nat /\ generated'[k] = generated[k]
        /\ Cardinality(Unresolved(pending, k)) \in Nat /\ Cardinality(NotTaken(pending, k)) \in Nat
        /\ Cardinality(Taken(pending, k)) \in Nat
    BY <1>0, PendingFinite DEF MetricsType
  <2>3. /\ generated[k] = rendered[k] + dropped[k] + missed[k] + Cardinality(Unresolved(pending, k))
        /\ delivered[k] + Cardinality(NotTaken(pending, k)) <= generated[k]
        /\ rendered[k] + Cardinality(Taken(pending, k)) <= delivered[k]
    BY <1>0 DEF Counted
  <2>4. \/ /\ rendered'[k] = rendered[k] + n /\ delivered'[k] = delivered[k] + u
           /\ dropped'[k] = dropped[k] /\ missed'[k] = missed[k]
        \/ /\ dropped'[k] = dropped[k] + n
           /\ rendered'[k] = rendered[k] /\ delivered'[k] = delivered[k] /\ missed'[k] = missed[k]
        \/ /\ missed'[k] = missed[k] + n
           /\ rendered'[k] = rendered[k] /\ delivered'[k] = delivered[k] /\ dropped'[k] = dropped[k]
    BY <1>0, PlusAdds DEF MetricsType
  <2> HIDE DEF n, u
  <2> QED
    BY <2>1, <2>2, <2>3, <2>4
<1> QED
  BY <1>1, <1>2 DEF MetricsInv, Counted

\* The kernel takes a key that is still pending, or answers for one that is not.
LEMMA AcceptStep ==
  ASSUME MetricsInv, NEW call \in asked, Answered(call, TRUE)
  PROVE  MetricsInv'
<1> DEFINE ids == {call.id} \cap DOMAIN pending
<1>0. MetricsType /\ Counted /\ Undelivered(ids) \in SUBSET DOMAIN pending
  BY DEF MetricsInv, Undelivered
<1>1. /\ DOMAIN pending' = DOMAIN pending
      /\ \A id \in DOMAIN pending : /\ pending'[id].key = pending[id].key
                                   /\ pending'[id].delivered = (pending[id].delivered \/ id \in ids)
                                   /\ pending'[id] \in Sample
      /\ delivered' = Plus(delivered, Undelivered(ids))
      /\ UNCHANGED <<nextId, generated, missed, dropped, rendered>>
  <2>1. /\ pending' = [id \in DOMAIN pending |-> [pending[id] EXCEPT !.delivered = @ \/ id \in ids]]
        /\ delivered' = Plus(delivered, Undelivered(ids))
        /\ UNCHANGED <<nextId, generated, missed, dropped, rendered>>
    BY DEF Answered, Settled
  <2>2. \A id \in DOMAIN pending :
          /\ pending[id] \in Sample
          /\ pending'[id] = [pending[id] EXCEPT !.delivered = pending[id].delivered \/ id \in ids]
    BY <1>0, <2>1 DEF MetricsType
  <2> HIDE DEF ids
  <2>3. ASSUME NEW id \in DOMAIN pending
        PROVE  /\ pending'[id].key = pending[id].key
               /\ pending'[id].delivered = (pending[id].delivered \/ id \in ids)
               /\ pending'[id] \in Sample
    <3> DEFINE d == pending[id].delivered \/ id \in ids
    <3>1. d \in BOOLEAN
      OBVIOUS
    <3>2. pending[id] \in Sample /\ pending'[id] = [pending[id] EXCEPT !.delivered = d]
      BY <2>2
    <3> HIDE DEF d
    <3>3. pending'[id].key = pending[id].key /\ pending'[id].delivered = d /\ pending'[id] \in Sample
      BY <3>1, <3>2 DEF Sample
    <3> QED
      BY <3>3 DEF d
  <2> QED
    BY <2>1, <2>3
<1> HIDE DEF ids
<1>2. MetricsType'
  <2>1. delivered' \in [Keys -> Nat]
    BY <1>0, <1>1, PlusAdds DEF MetricsType
  <2>2. \A id \in DOMAIN pending' : pending'[id] \in Sample
    BY <1>0, <1>1 DEF MetricsType
  <2> QED
    BY <1>0, <1>1, <2>1, <2>2 DEF MetricsType
<1>3. ASSUME NEW k \in Keys
      PROVE  /\ generated'[k] = rendered'[k] + dropped'[k] + missed'[k] + Cardinality(Unresolved(pending', k))
             /\ delivered'[k] + Cardinality(NotTaken(pending', k)) <= generated'[k]
             /\ rendered'[k] + Cardinality(Taken(pending', k)) <= delivered'[k]
  <2> DEFINE un == Of(Undelivered(ids), k)
  <2>1. un = {id \in ids : ~pending[id].delivered /\ pending[id].key = k}
    BY DEF Of, Undelivered
  <2>2. /\ Unresolved(pending', k) = Unresolved(pending, k)
        /\ NotTaken(pending', k) = NotTaken(pending, k) \ un /\ NotTaken(pending, k) \cap un = un
        /\ Taken(pending', k) = Taken(pending, k) \cup un /\ Taken(pending, k) \cap un = {}
    <3>0. ids \subseteq DOMAIN pending
      BY DEF ids
    <3>1. Unresolved(pending', k) = Unresolved(pending, k)
      BY <1>1 DEF Unresolved
    <3>2. NotTaken(pending', k) = NotTaken(pending, k) \ un
      BY <1>1, <2>1 DEF NotTaken
    <3>3. Taken(pending', k) = Taken(pending, k) \cup un
      BY <1>1, <2>1, <3>0 DEF Taken
    <3>4. NotTaken(pending, k) \cap un = un /\ Taken(pending, k) \cap un = {}
      BY <2>1, <3>0 DEF NotTaken, Taken
    <3> QED
      BY <3>1, <3>2, <3>3, <3>4
  <2>3. delivered'[k] = delivered[k] + Cardinality(un) /\ Cardinality(un) \in Nat /\ IsFiniteSet(un)
    <3>1. delivered \in [Keys -> Nat]
      BY <1>0 DEF MetricsType
    <3> QED
      BY <1>0, <1>1, <3>1, PlusAdds
  <2> HIDE DEF un
  <2>4. /\ IsFiniteSet(NotTaken(pending, k)) /\ Cardinality(NotTaken(pending, k)) \in Nat
        /\ IsFiniteSet(Taken(pending, k)) /\ Cardinality(Taken(pending, k)) \in Nat
        /\ Cardinality(Unresolved(pending, k)) \in Nat
    BY <1>0, PendingFinite
  <2>5. Cardinality(NotTaken(pending', k)) = Cardinality(NotTaken(pending, k)) - Cardinality(un)
    BY <2>2, <2>4, FS_Difference
  <2>6. Cardinality(Taken(pending', k)) = Cardinality(Taken(pending, k)) + Cardinality(un)
    <3>1. Cardinality(Taken(pending, k) \cup un)
            = Cardinality(Taken(pending, k)) + Cardinality(un) - Cardinality(Taken(pending, k) \cap un)
      BY <2>3, <2>4, FS_Union
    <3> QED
      <4>1. Cardinality(Taken(pending, k) \cap un) = 0
        BY <2>2, FS_EmptySet
      <4>2. Taken(pending', k) = Taken(pending, k) \cup un
        BY <2>2
      <4> QED
        BY <2>3, <2>4, <3>1, <4>1, <4>2
  <2>7. /\ generated[k] \in Nat /\ delivered[k] \in Nat /\ rendered[k] \in Nat
        /\ dropped[k] \in Nat /\ missed[k] \in Nat
    BY <1>0 DEF MetricsType
  <2>8. /\ generated[k] = rendered[k] + dropped[k] + missed[k] + Cardinality(Unresolved(pending, k))
        /\ delivered[k] + Cardinality(NotTaken(pending, k)) <= generated[k]
        /\ rendered[k] + Cardinality(Taken(pending, k)) <= delivered[k]
    BY <1>0 DEF Counted
  <2>9. /\ generated'[k] = generated[k] /\ rendered'[k] = rendered[k] /\ dropped'[k] = dropped[k]
        /\ missed'[k] = missed[k] /\ Cardinality(Unresolved(pending', k)) = Cardinality(Unresolved(pending, k))
    BY <1>1, <2>2
  <2> QED
    BY <2>3, <2>4, <2>5, <2>6, <2>7, <2>8, <2>9
<1> QED
  BY <1>2, <1>3 DEF MetricsInv, Counted

LEMMA MetricsStep == MetricsInv /\ [MetricsNext]_metricsVars => MetricsInv'
<1> SUFFICES ASSUME MetricsInv, [MetricsNext]_metricsVars PROVE MetricsInv'
  OBVIOUS
<1>0. MetricsType /\ Counted
  BY DEF MetricsInv
<1>1. CASE UNCHANGED <<nextId, pending, countVars>>
  BY <1>0, <1>1 DEF countVars, MetricsInv, MetricsType, Counted, Unresolved, NotTaken, Taken
<1>2. ASSUME NEW key \in Keys, TerminalKey(key) PROVE MetricsInv'
  <2>1. PICK r \in BOOLEAN : Begin(Terminal, key, ~r)
    BY <1>2 DEF TerminalKey
  <2>2. (~r) \in BOOLEAN
    OBVIOUS
  <2> QED
    BY <2>1, <2>2, Terminal \in Windows \cup {Terminal}, BeginStep
<1>3. ASSUME NEW key \in Keys, NEW win \in Windows, CanvasKey(win, key) PROVE MetricsInv'
  BY <1>3, BeginStep, FALSE \in BOOLEAN DEF CanvasKey
<1>4. ASSUME NEW call \in asked, NEW accepted \in BOOLEAN, Answered(call, accepted) PROVE MetricsInv'
  <2>1. CASE accepted
    BY <1>4, <2>1, AcceptStep
  <2>2. CASE ~accepted
    <3> DEFINE ids == {call.id} \cap DOMAIN pending
    <3>1. /\ Forget(ids) /\ dropped' = Plus(dropped, ids)
          /\ UNCHANGED <<delivered, rendered, nextId, generated, missed>>
      BY <1>4, <2>2 DEF Answered, Settled
    <3>2. ids \in SUBSET DOMAIN pending
      OBVIOUS
    <3> HIDE DEF ids
    <3> QED
      BY <3>1, <3>2, ForgetStep
  <2> QED
    BY <2>1, <2>2
<1>5. ASSUME NEW ids \in SUBSET DOMAIN pending, Shown(ids) PROVE MetricsInv'
  BY <1>5, ForgetStep DEF Shown, Settled
<1>6. ASSUME NEW win \in Windows, MarkCanvasRendered(win) PROVE MetricsInv'
  <2>1. From(win) \in SUBSET DOMAIN pending
    BY DEF From
  <2> QED
    BY <1>5, <1>6, <2>1 DEF MarkCanvasRendered
<1>7. CASE MarkTerminalEcho
  <2> DEFINE S == From(Terminal)
  <2>1. S # {} /\ S \subseteq DOMAIN pending /\ DOMAIN pending \subseteq Nat /\ Shown({Min(S)})
    BY <1>0, <1>7 DEF MarkTerminalEcho, From, MetricsType
  <2>2. Min(S) \in S
    <3>1. \E m \in S : \A n \in S : m <= n
      BY <2>1, LeastOf
    <3> QED
      BY <3>1 DEF Min
  <2> QED
    BY <1>5, <2>1, <2>2
<1>8. CASE Reset
  <2>1. /\ pending' = <<>> /\ DOMAIN pending' = {} /\ nextId' = 1
        /\ generated' = Zero /\ delivered' = Zero /\ rendered' = Zero /\ dropped' = Zero /\ missed' = Zero
    BY <1>8 DEF Reset
  <2>2. MetricsType'
    BY <2>1 DEF MetricsType, Zero
  <2>3. ASSUME NEW k \in Keys
        PROVE  /\ generated'[k] = rendered'[k] + dropped'[k] + missed'[k] + Cardinality(Unresolved(pending', k))
               /\ delivered'[k] + Cardinality(NotTaken(pending', k)) <= generated'[k]
               /\ rendered'[k] + Cardinality(Taken(pending', k)) <= delivered'[k]
    <3>1. /\ generated'[k] = 0 /\ rendered'[k] = 0 /\ dropped'[k] = 0 /\ missed'[k] = 0 /\ delivered'[k] = 0
      BY <2>1 DEF Zero
    <3>2. /\ Unresolved(pending', k) = {} /\ NotTaken(pending', k) = {} /\ Taken(pending', k) = {}
      BY <2>1 DEF Unresolved, NotTaken, Taken
    <3> QED
      BY <3>1, <3>2, FS_EmptySet
  <2> QED
    BY <2>2, <2>3 DEF MetricsInv, Counted
<1>9. CASE Lateness
  <2>1. PICK n \in DOMAIN pending :
          /\ pending' = [id \in DOMAIN pending |-> [pending[id] EXCEPT !.late = @ \/ id <= n]]
          /\ UNCHANGED <<nextId, countVars, asked, typed>>
    BY <1>9 DEF Lateness
  <2>2. /\ DOMAIN pending' = DOMAIN pending
        /\ \A id \in DOMAIN pending : /\ pending'[id].key = pending[id].key
                                     /\ pending'[id].delivered = pending[id].delivered
                                     /\ pending'[id] \in Sample
    <3> SUFFICES ASSUME NEW id \in DOMAIN pending
                 PROVE  /\ pending'[id].key = pending[id].key /\ pending'[id].delivered = pending[id].delivered
                        /\ pending'[id] \in Sample
      BY <2>1
    <3> DEFINE l == pending[id].late \/ id <= n
    <3>1. l \in BOOLEAN
      OBVIOUS
    <3>2. pending[id] \in Sample /\ pending'[id] = [pending[id] EXCEPT !.late = l]
      BY <1>0, <2>1 DEF MetricsType
    <3> HIDE DEF l
    <3> QED
      BY <3>1, <3>2 DEF Sample
  <2>3. MetricsType'
    BY <1>0, <2>1, <2>2 DEF MetricsType, countVars
  <2>4. \A k \in Keys : /\ Unresolved(pending', k) = Unresolved(pending, k)
                        /\ NotTaken(pending', k) = NotTaken(pending, k)
                        /\ Taken(pending', k) = Taken(pending, k)
    BY <2>2 DEF Unresolved, NotTaken, Taken
  <2>5. Counted'
    BY <1>0, <2>1, <2>4 DEF Counted, countVars
  <2> QED
    BY <2>3, <2>5 DEF MetricsInv
<1>10. CASE Snapshot
  <2> DEFINE late == {id \in DOMAIN pending : pending[id].late}
  <2>1. /\ Forget(late) /\ missed' = Plus(missed, late)
        /\ UNCHANGED <<nextId, generated, delivered, rendered, dropped>>
    BY <1>10 DEF Snapshot
  <2>2. late \in SUBSET DOMAIN pending
    OBVIOUS
  <2> HIDE DEF late
  <2> QED
    BY <2>1, <2>2, ForgetStep
<1> QED
  BY <1>1, <1>2, <1>3, <1>4, <1>6, <1>7, <1>8, <1>9, <1>10 DEF MetricsNext, metricsVars

\* Every key is pending or counted once, as rendered, dropped or missed, and the delivery
\* rate stays a rate, however answers, frames, echoes, snapshots and resets are mixed.
THEOREM KeysCounted == MetricsSpec => []CountsAddUp
<1>1. MetricsInv => CountsAddUp
  <2> SUFFICES ASSUME MetricsInv, NEW k \in Keys
               PROVE  /\ generated[k] = rendered[k] + dropped[k] + missed[k] + Cardinality(Of(DOMAIN pending, k))
                      /\ delivered[k] + Cardinality(Of(Undelivered(DOMAIN pending), k)) <= generated[k]
                      /\ rendered[k] <= delivered[k]
    BY DEF CountsAddUp, Conserved, RatesBounded
  <2>1. /\ Of(DOMAIN pending, k) = Unresolved(pending, k)
        /\ Of(Undelivered(DOMAIN pending), k) = NotTaken(pending, k)
    BY DEF Of, Undelivered, Unresolved, NotTaken
  <2>2. /\ rendered[k] \in Nat /\ delivered[k] \in Nat /\ Cardinality(Taken(pending, k)) \in Nat
    BY PendingFinite DEF MetricsInv, MetricsType
  <2> QED
    BY <2>1, <2>2 DEF MetricsInv, Counted
<1> QED
  BY <1>1, MetricsStart, MetricsStep, PTL DEF MetricsSpec

----------------------------------------------------------------------------
(* The terminal: who gets what is typed.                                   *)

Cmd == [cmd: {"listProcs", "spawnByPath"}, poll: Polls]
       \cup [cmd: {"bindTerminal"}, poll: Polls, pid: Pid]
       \cup [cmd: {"kill"}, pid: Pid]
Message == [type: {"termMode"}, raw: BOOLEAN]
           \cup [type: {"reply"}, poll: Polls, result: (SUBSET Pid) \cup (0..MaxPid)]
Poll == [at: {"idle", "listing", "spawning", "binding"}, pid: 0..MaxPid]
RuntimeStates == {"running", "returned", "exited"}
Standing == {"none", "ready", "running", "returned", "exited", "gone"}

TermType ==
  /\ st \in [Pid -> Standing] /\ sh \in SUBSET Pid
  /\ fg \in Seq(Pid) /\ terminalRaw \in BOOLEAN /\ rawMode \in BOOLEAN
  /\ toKernel \in Seq(Cmd) /\ toMain \in Seq(Message)
  /\ currentShell \in Pid /\ poll \in [Polls -> Poll]

\* Pids are handed out in order, and everyone who is named has one.
InOrder == \E n \in 0..MaxPid : \A p \in Pid : st[p] # "none" <=> p <= n
Named == /\ \A p \in sh : st[p] # "none"
         /\ \A i \in 1..Len(fg) : st[fg[i]] # "none"
         /\ currentShell \in sh

\* The stack holds nobody twice.
Stacked == \A i, j \in 1..Len(fg) : fg[i] = fg[j] => i = j

\* A poll has at most one command or reply under way: the one it waits for.
Asks(tk, t, i)    == i \in 1..Len(tk) /\ tk[i].cmd # "kill" /\ tk[i].poll = t
Answers(tm, t, i) == i \in 1..Len(tm) /\ tm[i].type = "reply" /\ tm[i].poll = t
Fits(c, e) == \/ (e.at = "listing" /\ c.cmd = "listProcs")
              \/ (e.at = "spawning" /\ c.cmd = "spawnByPath")
              \/ (e.at = "binding" /\ c.cmd = "bindTerminal" /\ c.pid = e.pid)
Awaited(tk, tm, e, s, t) ==
  /\ \A i, j : Asks(tk, t, i) /\ Asks(tk, t, j) => i = j
  /\ \A i, j : Answers(tm, t, i) /\ Answers(tm, t, j) => i = j
  /\ \A i, j : ~(Asks(tk, t, i) /\ Answers(tm, t, j))
  /\ \A i : Asks(tk, t, i) => Fits(tk[i], e)
  /\ \A i : Answers(tm, t, i) => /\ e.at # "idle"
                                 /\ (e.at = "spawning" => tm[i].result \in s \cup {Nobody})
  /\ (e.at = "binding" => e.pid \in s)
Polled == \A t \in Polls : Awaited(toKernel, toMain, poll[t], sh, t)

\* Once the messages q have arrived, the window's mode is v.
ModeIs(q, r, v) ==
  \/ \E m \in 1..Len(q) : /\ q[m].type = "termMode" /\ q[m].raw = v
                          /\ \A j \in m + 1..Len(q) : q[j].type # "termMode"
  \/ ((\A j \in 1..Len(q) : q[j].type # "termMode") /\ r = v)

\* Once they have arrived, the terminal's shell is b.
Binds(m, pl) == m.type = "reply" /\ pl[m.poll].at = "binding"
ShellIs(q, pl, cs, b) ==
  \/ \E m \in 1..Len(q) : /\ Binds(q[m], pl) /\ pl[q[m].poll].pid = b
                          /\ \A j \in m + 1..Len(q) : ~Binds(q[j], pl)
  \/ ((\A j \in 1..Len(q) : ~Binds(q[j], pl)) /\ cs = b)

\* The worker bound that shell last: as long as it runs it is at the bottom of the stack.
Bottom == \A b \in Pid : ShellIs(toMain, poll, currentShell, b) /\ Runtime(b) => Len(fg) >= 1 /\ fg[1] = b

TermInv == /\ TermType /\ InOrder /\ Named /\ Stacked /\ Polled
           /\ ModeIs(toMain, rawMode, terminalRaw) /\ CookedAtShell /\ StackLive /\ Bottom
----------------------------------------------------------------------------
(* What a message does to each of these.                                   *)

\* A new message at the end decides the mode, if it is about the mode.
LEMMA ModeAppend ==
  ASSUME NEW S, NEW q \in Seq(S), NEW m \in S, NEW r, NEW v, ModeIs(q, r, v)
  PROVE  /\ (m.type = "termMode" => ModeIs(Append(q, m), r, m.raw))
         /\ (m.type # "termMode" => ModeIs(Append(q, m), r, v))
<1> DEFINE a == Append(q, m)
<1>1. /\ Len(a) = Len(q) + 1 /\ a[Len(q) + 1] = m /\ Len(q) \in Nat
      /\ \A i \in 1..Len(q) : a[i] = q[i]
  OBVIOUS
<1> HIDE DEF a
<1>2. m.type = "termMode" => ModeIs(a, r, m.raw)
  BY <1>1 DEF ModeIs
<1>3. ASSUME m.type # "termMode" PROVE ModeIs(a, r, v)
  <2>1. CASE \E k \in 1..Len(q) : /\ q[k].type = "termMode" /\ q[k].raw = v
                                  /\ \A j \in k + 1..Len(q) : q[j].type # "termMode"
    <3>1. PICK k \in 1..Len(q) : /\ q[k].type = "termMode" /\ q[k].raw = v
                                 /\ \A j \in k + 1..Len(q) : q[j].type # "termMode"
      BY <2>1
    <3>2. k \in 1..Len(a) /\ a[k].type = "termMode" /\ a[k].raw = v
      BY <1>1, <3>1
    <3>3. \A j \in k + 1..Len(a) : a[j].type # "termMode"
      BY <1>1, <1>3, <3>1
    <3> QED BY <3>2, <3>3 DEF ModeIs
  <2>2. CASE (\A j \in 1..Len(q) : q[j].type # "termMode") /\ r = v
    <3>1. \A j \in 1..Len(a) : a[j].type # "termMode"
      BY <1>1, <1>3, <2>2
    <3> QED BY <2>2, <3>1 DEF ModeIs
  <2> QED BY <2>1, <2>2 DEF ModeIs
<1> QED BY <1>2, <1>3 DEF a

\* The first message's arrival changes nothing about what all of them come to.
LEMMA ModeTail ==
  ASSUME NEW S, NEW q \in Seq(S), q # <<>>, NEW r, NEW v, ModeIs(q, r, v)
  PROVE  /\ (q[1].type = "termMode" => ModeIs(Tail(q), q[1].raw, v))
         /\ (q[1].type # "termMode" => ModeIs(Tail(q), r, v))
<1> DEFINE a == Tail(q)
<1>1. /\ Len(a) = Len(q) - 1 /\ Len(q) \in Nat \ {0} /\ Len(a) \in Nat
      /\ \A i \in 1..Len(a) : a[i] = q[i + 1]
  OBVIOUS
<1> HIDE DEF a
<1>2. CASE \E k \in 1..Len(q) : /\ q[k].type = "termMode" /\ q[k].raw = v
                                /\ \A j \in k + 1..Len(q) : q[j].type # "termMode"
  <2>1. PICK k \in 1..Len(q) : /\ q[k].type = "termMode" /\ q[k].raw = v
                               /\ \A j \in k + 1..Len(q) : q[j].type # "termMode"
    BY <1>2
  <2>2. CASE k = 1
    <3>1. \A j \in 1..Len(a) : a[j].type # "termMode"
      BY <1>1, <2>1, <2>2
    <3> QED BY <2>1, <2>2, <3>1 DEF ModeIs, a
  <2>3. CASE k # 1
    <3> DEFINE l == k - 1
    <3>1. l \in 1..Len(a) /\ a[l].type = "termMode" /\ a[l].raw = v
      BY <1>1, <2>1, <2>3
    <3>2. ASSUME NEW j \in l + 1..Len(a) PROVE a[j].type # "termMode"
      <4>1. j \in 1..Len(a) /\ j + 1 \in k + 1..Len(q)
        BY <1>1, <3>1
      <4> QED BY <1>1, <2>1, <4>1
    <3> HIDE DEF l
    <3> QED BY <3>1, <3>2 DEF ModeIs, a
  <2> QED BY <2>2, <2>3
<1>3. CASE (\A j \in 1..Len(q) : q[j].type # "termMode") /\ r = v
  <2>1. \A j \in 1..Len(a) : a[j].type # "termMode"
    BY <1>1, <1>3
  <2>2. q[1].type # "termMode"
    BY <1>1, <1>3
  <2> QED BY <1>3, <2>1, <2>2 DEF ModeIs, a
<1> QED BY <1>2, <1>3 DEF ModeIs

\* Whoever the shell is after one more message was that before it, unless the
\* message binds another.
LEMMA ShellAppend ==
  ASSUME NEW S, NEW q \in Seq(S), NEW m \in S, NEW pl, NEW cs, NEW b,
         ShellIs(Append(q, m), pl, cs, b)
  PROVE  /\ (Binds(m, pl) => b = pl[m.poll].pid)
         /\ (~Binds(m, pl) => ShellIs(q, pl, cs, b))
<1> DEFINE a == Append(q, m)
<1>1. /\ Len(a) = Len(q) + 1 /\ a[Len(q) + 1] = m /\ Len(q) \in Nat
      /\ \A i \in 1..Len(q) : a[i] = q[i]
  OBVIOUS
<1>2. ShellIs(a, pl, cs, b)
  OBVIOUS
<1> HIDE DEF a
<1>3. CASE \E k \in 1..Len(a) : /\ Binds(a[k], pl) /\ pl[a[k].poll].pid = b
                                /\ \A j \in k + 1..Len(a) : ~Binds(a[j], pl)
  <2>1. PICK k \in 1..Len(a) : /\ Binds(a[k], pl) /\ pl[a[k].poll].pid = b
                               /\ \A j \in k + 1..Len(a) : ~Binds(a[j], pl)
    BY <1>3
  <2>2. CASE k = Len(q) + 1
    BY <1>1, <2>1, <2>2
  <2>3. CASE k # Len(q) + 1
    <3>1. k \in 1..Len(q) /\ Binds(q[k], pl) /\ pl[q[k].poll].pid = b
      BY <1>1, <2>1, <2>3
    <3>2. \A j \in k + 1..Len(q) : ~Binds(q[j], pl)
      BY <1>1, <2>1
    <3>3. ~Binds(m, pl)
      BY <1>1, <2>1, <2>3
    <3> QED BY <3>1, <3>2, <3>3 DEF ShellIs
  <2> QED BY <2>2, <2>3
<1>4. CASE (\A j \in 1..Len(a) : ~Binds(a[j], pl)) /\ cs = b
  <2>1. \A j \in 1..Len(q) : ~Binds(q[j], pl)
    BY <1>1, <1>4
  <2>2. ~Binds(m, pl)
    BY <1>1, <1>4
  <2> QED BY <1>4, <2>1, <2>2 DEF ShellIs
<1> QED BY <1>2, <1>3, <1>4 DEF ShellIs

\* Whoever it is after the first message has arrived was it before.
LEMMA ShellTail ==
  ASSUME NEW S, NEW q \in Seq(S), q # <<>>, NEW pl, NEW cs, NEW b
  PROVE  /\ (~Binds(q[1], pl) /\ ShellIs(Tail(q), pl, cs, b) => ShellIs(q, pl, cs, b))
         /\ (Binds(q[1], pl) /\ ShellIs(Tail(q), pl, pl[q[1].poll].pid, b) => ShellIs(q, pl, cs, b))
<1> DEFINE a == Tail(q)
<1>1. /\ Len(a) = Len(q) - 1 /\ Len(q) \in Nat \ {0} /\ Len(a) \in Nat
      /\ \A i \in 1..Len(a) : a[i] = q[i + 1]
  OBVIOUS
<1> HIDE DEF a
<1>2. ASSUME NEW k \in 1..Len(a), Binds(a[k], pl) /\ pl[a[k].poll].pid = b
                                /\ \A j \in k + 1..Len(a) : ~Binds(a[j], pl)
      PROVE  ShellIs(q, pl, cs, b)
  <2> DEFINE l == k + 1
  <2>1. l \in 1..Len(q) /\ Binds(q[l], pl) /\ pl[q[l].poll].pid = b
    BY <1>1, <1>2
  <2>2. ASSUME NEW j \in l + 1..Len(q) PROVE ~Binds(q[j], pl)
    <3> DEFINE h == j - 1
    <3>1. h \in k + 1..Len(a) /\ h \in 1..Len(a) /\ h + 1 = j
      BY <1>1, <1>2
    <3> HIDE DEF h
    <3> QED BY <1>1, <1>2, <3>1
  <2> HIDE DEF l
  <2> QED BY <2>1, <2>2 DEF ShellIs
<1>3. ASSUME \A j \in 1..Len(a) : ~Binds(a[j], pl) PROVE \A j \in 2..Len(q) : ~Binds(q[j], pl)
  <2> TAKE j \in 2..Len(q)
  <2> DEFINE h == j - 1
  <2>1. h \in 1..Len(a) /\ h + 1 = j
    BY <1>1
  <2> HIDE DEF h
  <2> QED BY <1>1, <1>3, <2>1
<1>4. ASSUME ~Binds(q[1], pl), ShellIs(a, pl, cs, b) PROVE ShellIs(q, pl, cs, b)
  <2>1. CASE (\A j \in 1..Len(a) : ~Binds(a[j], pl)) /\ cs = b
    <3>1. \A j \in 1..Len(q) : ~Binds(q[j], pl)
      BY <1>1, <1>3, <1>4, <2>1
    <3> QED BY <2>1, <3>1 DEF ShellIs
  <2> QED BY <1>2, <1>4, <2>1 DEF ShellIs
<1>5. ASSUME Binds(q[1], pl), ShellIs(a, pl, pl[q[1].poll].pid, b) PROVE ShellIs(q, pl, cs, b)
  <2>1. CASE (\A j \in 1..Len(a) : ~Binds(a[j], pl)) /\ pl[q[1].poll].pid = b
    <3>1. 1 \in 1..Len(q) /\ \A j \in 1 + 1..Len(q) : ~Binds(q[j], pl)
      BY <1>1, <1>3, <2>1
    <3> QED BY <1>5, <2>1, <3>1 DEF ShellIs
  <2> QED BY <1>2, <1>5, <2>1 DEF ShellIs
<1> QED BY <1>4, <1>5 DEF a

\* A poll that no message is for may move without changing the shell.
LEMMA ShellElsewhere ==
  ASSUME NEW S, NEW q \in Seq(S), NEW pl, NEW pm, NEW cs, NEW b,
         \A i \in 1..Len(q) : q[i].type = "reply" => pm[q[i].poll] = pl[q[i].poll],
         ShellIs(q, pm, cs, b)
  PROVE  ShellIs(q, pl, cs, b)
<1>1. \A i \in 1..Len(q) : Binds(q[i], pm) <=> Binds(q[i], pl)
  BY DEF Binds
<1>2. \A i \in 1..Len(q) : Binds(q[i], pm) => pm[q[i].poll].pid = pl[q[i].poll].pid
  BY DEF Binds
<1>3. CASE \E k \in 1..Len(q) : /\ Binds(q[k], pm) /\ pm[q[k].poll].pid = b
                                /\ \A j \in k + 1..Len(q) : ~Binds(q[j], pm)
  <2>1. PICK k \in 1..Len(q) : /\ Binds(q[k], pm) /\ pm[q[k].poll].pid = b
                               /\ \A j \in k + 1..Len(q) : ~Binds(q[j], pm)
    BY <1>3
  <2>2. Binds(q[k], pl) /\ pl[q[k].poll].pid = b
    BY <1>1, <1>2, <2>1
  <2>3. \A j \in k + 1..Len(q) : ~Binds(q[j], pl)
    BY <1>1, <2>1
  <2> QED BY <2>2, <2>3 DEF ShellIs
<1>4. CASE (\A j \in 1..Len(q) : ~Binds(q[j], pm)) /\ cs = b
  BY <1>1, <1>4 DEF ShellIs
<1> QED BY <1>3, <1>4 DEF ShellIs

\* The shell the window will watch is a shell.
LEMMA ShellIsShell ==
  ASSUME TermType, Named, Polled, NEW b, ShellIs(toMain, poll, currentShell, b)
  PROVE  b \in sh
<1>1. CASE \E k \in 1..Len(toMain) : Binds(toMain[k], poll) /\ poll[toMain[k].poll].pid = b
  <2>1. PICK k \in 1..Len(toMain) : Binds(toMain[k], poll) /\ poll[toMain[k].poll].pid = b
    BY <1>1
  <2>2. toMain[k].poll \in Polls
    <3>1. toMain[k] \in Message
      BY DEF TermType
    <3> QED BY <2>1, <3>1 DEF Message, Binds
  <2> QED BY <2>1, <2>2 DEF Polled, Awaited, Binds
<1>2. CASE currentShell = b
  BY <1>2 DEF Named
<1> QED BY <1>1, <1>2 DEF ShellIs
----------------------------------------------------------------------------
(* What a command or a message does to what the polls wait for.            *)

\* A message about the mode answers nobody.
LEMMA AwaitedMode ==
  ASSUME NEW S, NEW tm \in Seq(S), NEW m \in S, m.type = "termMode",
         NEW tk, NEW e, NEW s, NEW t, Awaited(tk, tm, e, s, t)
  PROVE  Awaited(tk, Append(tm, m), e, s, t)
<1>1. \A i : Answers(Append(tm, m), t, i) => Answers(tm, t, i) /\ Append(tm, m)[i] = tm[i]
  BY DEF Answers
<1> QED BY <1>1 DEF Awaited

LEMMA AwaitedModeTail ==
  ASSUME NEW S, NEW tm \in Seq(S), tm # <<>>, tm[1].type = "termMode",
         NEW tk, NEW e, NEW s, NEW t, Awaited(tk, tm, e, s, t)
  PROVE  Awaited(tk, Tail(tm), e, s, t)
<1>1. \A i : Answers(Tail(tm), t, i) => /\ i \in Nat /\ Answers(tm, t, i + 1)
                                        /\ Tail(tm)[i] = tm[i + 1]
  BY DEF Answers
<1>2. \A i, j : Answers(Tail(tm), t, i) /\ Answers(Tail(tm), t, j) => i = j
  <2> SUFFICES ASSUME NEW i, NEW j, Answers(Tail(tm), t, i), Answers(Tail(tm), t, j) PROVE i = j
    OBVIOUS
  <2>1. i \in Nat /\ j \in Nat /\ Answers(tm, t, i + 1) /\ Answers(tm, t, j + 1)
    BY <1>1
  <2>2. i + 1 = j + 1
    BY <2>1 DEF Awaited
  <2> QED BY <2>1, <2>2
<1> QED BY <1>1, <1>2 DEF Awaited

\* New shells only make more answers possible.
LEMMA AwaitedMore ==
  ASSUME NEW tk, NEW tm, NEW e, NEW s, NEW u, s \subseteq u, NEW t, Awaited(tk, tm, e, s, t)
  PROVE  Awaited(tk, tm, e, u, t)
BY DEF Awaited

\* The worker answers a command.
LEMMA AwaitedAnswer ==
  ASSUME NEW C, NEW tk \in Seq(C), tk # <<>>, tk[1].cmd # "kill",
         NEW S, NEW tm \in Seq(S), NEW m \in S, m.type = "reply", m.poll = tk[1].poll,
         NEW e, NEW s, NEW t, Awaited(tk, tm, e, s, t),
         e.at = "spawning" /\ t = m.poll => m.result \in s \cup {Nobody}
  PROVE  Awaited(Tail(tk), Append(tm, m), e, s, t)
<1>1. /\ \A i : Asks(Tail(tk), t, i) => /\ i \in Nat /\ i > 0 /\ Asks(tk, t, i + 1)
                                        /\ Tail(tk)[i] = tk[i + 1]
      /\ t = m.poll => Asks(tk, t, 1)
  BY DEF Asks
<1>2. \A i : Answers(Append(tm, m), t, i) =>
               \/ (Answers(tm, t, i) /\ Append(tm, m)[i] = tm[i])
               \/ (t = m.poll /\ i = Len(tm) + 1 /\ Append(tm, m)[i] = m)
  BY DEF Answers
<1>3. CASE t = m.poll
  <2>1. \A i : ~Asks(Tail(tk), t, i)
    BY <1>1, <1>3 DEF Awaited
  <2>2. \A i : Answers(Append(tm, m), t, i) => i = Len(tm) + 1 /\ Append(tm, m)[i] = m
    BY <1>1, <1>2, <1>3 DEF Awaited
  <2>3. e.at # "idle"
    BY <1>1, <1>3 DEF Awaited, Fits
  <2> QED BY <1>3, <2>1, <2>2, <2>3 DEF Awaited
<1>4. CASE t # m.poll
  <2>1. \A i, j : Asks(Tail(tk), t, i) /\ Asks(Tail(tk), t, j) => i = j
    <3> SUFFICES ASSUME NEW i, NEW j, Asks(Tail(tk), t, i), Asks(Tail(tk), t, j) PROVE i = j
      OBVIOUS
    <3>1. i \in Nat /\ j \in Nat /\ Asks(tk, t, i + 1) /\ Asks(tk, t, j + 1)
      BY <1>1
    <3>2. i + 1 = j + 1
      BY <3>1 DEF Awaited
    <3> QED BY <3>1, <3>2
  <2>2. \A i : Asks(Tail(tk), t, i) => Fits(Tail(tk)[i], e)
    BY <1>1 DEF Awaited
  <2> QED BY <1>1, <1>2, <1>4, <2>1, <2>2 DEF Awaited
<1> QED BY <1>3, <1>4

\* A kill is answered to nobody.
LEMMA AwaitedKill ==
  ASSUME NEW C, NEW tk \in Seq(C), tk # <<>>, tk[1].cmd = "kill",
         NEW tm, NEW e, NEW s, NEW t, Awaited(tk, tm, e, s, t)
  PROVE  Awaited(Tail(tk), tm, e, s, t)
<1>1. \A i : Asks(Tail(tk), t, i) => /\ i \in Nat /\ Asks(tk, t, i + 1)
                                     /\ Tail(tk)[i] = tk[i + 1]
  BY DEF Asks
<1>2. \A i, j : Asks(Tail(tk), t, i) /\ Asks(Tail(tk), t, j) => i = j
  <2> SUFFICES ASSUME NEW i, NEW j, Asks(Tail(tk), t, i), Asks(Tail(tk), t, j) PROVE i = j
    OBVIOUS
  <2>1. i \in Nat /\ j \in Nat /\ Asks(tk, t, i + 1) /\ Asks(tk, t, j + 1)
    BY <1>1
  <2>2. i + 1 = j + 1
    BY <2>1 DEF Awaited
  <2> QED BY <2>1, <2>2
<1> QED BY <1>1, <1>2 DEF Awaited

LEMMA AwaitedClose ==
  ASSUME NEW C, NEW tk \in Seq(C), NEW c \in C, c.cmd = "kill",
         NEW tm, NEW e, NEW s, NEW t, Awaited(tk, tm, e, s, t)
  PROVE  Awaited(Append(tk, c), tm, e, s, t)
<1>1. \A i : Asks(Append(tk, c), t, i) => Asks(tk, t, i) /\ Append(tk, c)[i] = tk[i]
  BY DEF Asks
<1> QED BY <1>1 DEF Awaited

\* A poll that nothing is under way for asks.
LEMMA AwaitedCall ==
  ASSUME NEW C, NEW tk \in Seq(C), NEW c \in C, c.cmd # "kill",
         NEW tm, NEW e, NEW s, NEW t,
         \A i : ~Answers(tm, t, i), \A i : ~Asks(tk, t, i),
         c.poll = t, Fits(c, e), e.at = "binding" => e.pid \in s
  PROVE  Awaited(Append(tk, c), tm, e, s, t)
<1>1. \A i : Asks(Append(tk, c), t, i) => i = Len(tk) + 1 /\ Append(tk, c)[i] = c
  BY DEF Asks
<1> QED BY <1>1 DEF Awaited

LEMMA AwaitedOther ==
  ASSUME NEW C, NEW tk \in Seq(C), NEW c \in C, c.cmd # "kill",
         NEW tm, NEW e, NEW s, NEW t, Awaited(tk, tm, e, s, t), c.poll # t
  PROVE  Awaited(Append(tk, c), tm, e, s, t)
<1>1. \A i : Asks(Append(tk, c), t, i) => Asks(tk, t, i) /\ Append(tk, c)[i] = tk[i]
  BY DEF Asks
<1> QED BY <1>1 DEF Awaited

\* A reply arrives: nothing is under way any more for its poll.
LEMMA AwaitedReply ==
  ASSUME NEW S, NEW tm \in Seq(S), tm # <<>>, tm[1].type = "reply",
         NEW tk, NEW e, NEW s, NEW t, Awaited(tk, tm, e, s, t)
  PROVE  /\ tm[1].poll = t => /\ \A i : ~Answers(Tail(tm), t, i)
                              /\ \A i : ~Asks(tk, t, i)
                              /\ e.at # "idle"
                              /\ (e.at = "spawning" => tm[1].result \in s \cup {Nobody})
         /\ tm[1].poll # t => Awaited(tk, Tail(tm), e, s, t)
<1>1. /\ \A i : Answers(Tail(tm), t, i) => /\ i \in Nat /\ i > 0 /\ Answers(tm, t, i + 1)
                                           /\ Tail(tm)[i] = tm[i + 1]
      /\ tm[1].poll = t => Answers(tm, t, 1)
  BY DEF Answers
<1>2. ASSUME tm[1].poll = t PROVE \A i : ~Answers(Tail(tm), t, i)
  <2> SUFFICES ASSUME NEW i, Answers(Tail(tm), t, i) PROVE FALSE
    OBVIOUS
  <2>1. i \in Nat /\ i > 0 /\ i + 1 = 1
    BY <1>1, <1>2 DEF Awaited
  <2> QED BY <2>1
<1>3. tm[1].poll = t => /\ \A i : ~Asks(tk, t, i)
                        /\ e.at # "idle"
                        /\ (e.at = "spawning" => tm[1].result \in s \cup {Nobody})
  BY <1>1 DEF Awaited
<1>4. ASSUME tm[1].poll # t PROVE Awaited(tk, Tail(tm), e, s, t)
  <2>1. \A i, j : Answers(Tail(tm), t, i) /\ Answers(Tail(tm), t, j) => i = j
    <3> SUFFICES ASSUME NEW i, NEW j, Answers(Tail(tm), t, i), Answers(Tail(tm), t, j)
                 PROVE  i = j
      OBVIOUS
    <3>1. i \in Nat /\ j \in Nat /\ Answers(tm, t, i + 1) /\ Answers(tm, t, j + 1)
      BY <1>1
    <3>2. i + 1 = j + 1
      BY <3>1 DEF Awaited
    <3> QED BY <3>1, <3>2
  <2> QED BY <1>1, <2>1 DEF Awaited
<1> QED BY <1>2, <1>3, <1>4
----------------------------------------------------------------------------
(* The kernel worker's steps.                                              *)

\* setTerminalRaw posts at most a message about the mode, before what comes next.
LEMMA RawSet ==
  ASSUME TermType, ModeIs(toMain, rawMode, terminalRaw),
         NEW mode \in BOOLEAN, NEW msgs, SetTerminalRaw(mode, msgs)
  PROVE  /\ terminalRaw' = mode
         /\ \E q \in Seq(Message) :
              /\ toMain' = q \o msgs /\ ModeIs(q, rawMode, mode)
              /\ \A pl, cs, b : ShellIs(q, pl, cs, b) => ShellIs(toMain, pl, cs, b)
              /\ \A tk, e, s, t : Awaited(tk, toMain, e, s, t) => Awaited(tk, q, e, s, t)
<1>1. toMain \in Seq(Message) /\ terminalRaw \in BOOLEAN
  BY DEF TermType
<1>2. terminalRaw' = mode
  BY DEF SetTerminalRaw
<1>3. CASE mode = terminalRaw
  <2>1. toMain' = (toMain \o <<>>) \o msgs
    BY <1>3 DEF SetTerminalRaw
  <2>2. toMain \o <<>> = toMain
    BY <1>1
  <2>3. toMain' = toMain \o msgs
    BY <2>1, <2>2
  <2> QED BY <1>1, <1>2, <1>3, <2>3
<1>4. CASE mode # terminalRaw
  <2> DEFINE m == [type |-> "termMode", raw |-> mode]
             q == Append(toMain, m)
  <2>1. m \in Message
    BY DEF Message
  <2>2. toMain' = (toMain \o <<m>>) \o msgs
    BY <1>4 DEF SetTerminalRaw
  <2>3. toMain \o <<m>> = q
    BY <1>1, <2>1
  <2>4. m.type = "termMode" /\ m.raw = mode
    OBVIOUS
  <2> HIDE DEF m
  <2>5. q \in Seq(Message)
    BY <1>1, <2>1
  <2>6. ModeIs(q, rawMode, mode)
    BY <1>1, <2>1, <2>4, ModeAppend
  <2>7. ~\E pl : Binds(m, pl)
    BY <2>4 DEF Binds
  <2>8. \A pl, cs, b : ShellIs(q, pl, cs, b) => ShellIs(toMain, pl, cs, b)
    BY <1>1, <2>1, <2>7, ShellAppend
  <2>9. \A tk, e, s, t : Awaited(tk, toMain, e, s, t) => Awaited(tk, q, e, s, t)
    BY <1>1, <2>1, <2>4, AwaitedMode
  <2>10. toMain' = q \o msgs
    BY <2>2, <2>3
  <2> HIDE DEF q
  <2> QED BY <1>2, <2>5, <2>6, <2>8, <2>9, <2>10
<1> QED BY <1>3, <1>4

\* The next pid is one nobody has had.
LEMMA Allot ==
  ASSUME TermType, InOrder
  PROVE  /\ NextPid \in 1..MaxPid + 1
         /\ \A p \in Pid : st[p] # "none" <=> p < NextPid
<1> USE TerminalAssumption
<1>1. PICK n \in 0..MaxPid : \A p \in Pid : st[p] # "none" <=> p <= n
  BY DEF InOrder
<1>2. {p \in Pid : st[p] # "none"} = 1..n
  BY <1>1 DEF Pid
<1>3. Cardinality(1..n) = n
  <2>1. 1 \in Int /\ n \in Int /\ (1 > n => n = 0)
    BY <1>1
  <2>2. Cardinality(1..n) = IF 1 > n THEN 0 ELSE n - 1 + 1
    BY <2>1, FS_Interval
  <2> QED BY <1>1, <2>2
<1>4. NextPid = n + 1
  BY <1>2, <1>3 DEF NextPid
<1> HIDE DEF NextPid
<1>5. \A p \in Pid : p <= n <=> p < n + 1
  BY <1>1 DEF Pid
<1> QED BY <1>1, <1>4, <1>5

LEMMA AllotFree ==
  ASSUME TermType, InOrder, NEW spare \in Nat, PidsLeft > spare
  PROVE  NextPid \in Pid /\ st[NextPid] = "none"
<1> USE TerminalAssumption
<1>1. NextPid \in Pid
  BY Allot DEF PidsLeft, Pid
<1> QED BY <1>1, Allot DEF Pid

\* Pids stay in order.
LEMMA InOrderNew ==
  ASSUME TermType, InOrder, NextPid \in Pid, NEW x \in Standing \ {"none"},
         st' = [st EXCEPT ![NextPid] = x]
  PROVE  InOrder'
<1> USE TerminalAssumption
<1>1. PICK n : n = NextPid /\ n \in Pid
  OBVIOUS
<1>2. \A p \in Pid : st[p] # "none" <=> p < n
  BY <1>1, Allot
<1>3. \A p \in Pid : st'[p] # "none" <=> p <= n
  BY <1>1, <1>2 DEF Pid, TermType
<1>4. n \in 0..MaxPid
  BY <1>1 DEF Pid
<1> QED BY <1>3, <1>4 DEF InOrder

LEMMA InOrderKept ==
  ASSUME TermType, InOrder, NEW p \in Pid, st[p] # "none", NEW x \in Standing \ {"none"},
         st' = [st EXCEPT ![p] = x]
  PROVE  InOrder'
<1>1. PICK n \in 0..MaxPid : \A q \in Pid : st[q] # "none" <=> q <= n
  BY DEF InOrder
<1>2. \A q \in Pid : st'[q] # "none" <=> q <= n
  BY <1>1 DEF TermType
<1> QED BY <1>2 DEF InOrder

\* A process ends its last call, or its _start returns.
LEMMA Quiet ==
  ASSUME TermInv, NEW p \in Pid, st[p] = "running", NEW x \in {"returned", "exited"},
         st' = [st EXCEPT ![p] = x],
         UNCHANGED <<sh, kworkerVars, toKernel, toMain, mainVars>>
  PROVE  TermInv'
<1> USE DEF TermInv
<1>1. /\ sh' = sh /\ fg' = fg /\ terminalRaw' = terminalRaw /\ toKernel' = toKernel
      /\ toMain' = toMain /\ rawMode' = rawMode /\ currentShell' = currentShell /\ poll' = poll
  BY DEF kworkerVars, mainVars
<1>2. x \in Standing \ {"none"}
  BY DEF Standing
<1>3. \A q \in Pid : st'[q] = IF q = p THEN x ELSE st[q]
  BY DEF TermType
<1>4. TermType'
  BY <1>1, <1>2 DEF TermType
<1>5. InOrder'
  BY <1>2, InOrderKept
<1>6. \A q \in Pid : st[q] # "none" => st'[q] # "none"
  BY <1>2, <1>3
<1>7. Named'
  BY <1>1, <1>6 DEF Named, TermType
<1>8. Stacked' /\ CookedAtShell' /\ Polled' /\ ModeIs(toMain, rawMode, terminalRaw)'
  BY <1>1 DEF Stacked, CookedAtShell, Polled, Foreground
<1>9. \A q \in Pid : Runtime(q)' <=> Runtime(q)
  BY <1>3 DEF Runtime
<1>10. StackLive'
  BY <1>1, <1>9 DEF StackLive, TermType
<1>11. Bottom'
  BY <1>1, <1>9 DEF Bottom
<1> QED BY <1>1, <1>4, <1>5, <1>7, <1>8, <1>10, <1>11

\* The program in front toggles the mode.
LEMMA Toggles ==
  ASSUME TermInv, NEW p \in Pid, NEW mode \in BOOLEAN, TtySetRaw(p, mode)
  PROVE  TermInv'
<1> USE DEF TermInv
<1>1. /\ st' = st /\ sh' = sh /\ fg' = fg /\ toKernel' = toKernel
      /\ rawMode' = rawMode /\ currentShell' = currentShell /\ poll' = poll
      /\ SetTerminalRaw(mode, <<>>) /\ p \notin sh /\ p = Foreground
  BY DEF TtySetRaw, procVars, mainVars
<1>2. /\ terminalRaw' = mode
      /\ \E q \in Seq(Message) :
           /\ toMain' = q \o <<>> /\ ModeIs(q, rawMode, mode)
           /\ \A pl, cs, b : ShellIs(q, pl, cs, b) => ShellIs(toMain, pl, cs, b)
           /\ \A tk, e, s, t : Awaited(tk, toMain, e, s, t) => Awaited(tk, q, e, s, t)
  BY <1>1, RawSet
<1>3. PICK q \in Seq(Message) :
           /\ toMain' = q \o <<>> /\ ModeIs(q, rawMode, mode)
           /\ \A pl, cs, b : ShellIs(q, pl, cs, b) => ShellIs(toMain, pl, cs, b)
           /\ \A tk, e, s, t : Awaited(tk, toMain, e, s, t) => Awaited(tk, q, e, s, t)
  BY <1>2
<1>4. toMain' = q
  BY <1>3
<1>5. TermType'
  BY <1>1, <1>2, <1>4 DEF TermType
<1>6. InOrder' /\ Named' /\ Stacked' /\ StackLive'
  BY <1>1 DEF InOrder, Named, Stacked, StackLive, Runtime
<1>7. Polled'
  BY <1>1, <1>3, <1>4 DEF Polled
<1>8. ModeIs(toMain, rawMode, terminalRaw)'
  BY <1>1, <1>2, <1>3, <1>4
<1>9. CookedAtShell'
  <2>1. Foreground' = p /\ p # Nobody
    BY <1>1 DEF Foreground, Pid, Nobody
  <2> QED BY <1>1, <2>1 DEF CookedAtShell
<1>10. Bottom'
  BY <1>1, <1>3, <1>4 DEF Bottom, Runtime
<1> QED BY <1>5, <1>6, <1>7, <1>8, <1>9, <1>10

\* A child is started, and then it is in front; or it fails, and is nothing.
LEMMA Started ==
  ASSUME TermInv, NEW started \in BOOLEAN, PidsLeft > Spare, Child(started)
  PROVE  TermInv'
<1> USE DEF TermInv
<1>1. PICK n : n = NextPid /\ n \in Pid /\ st[n] = "none"
  BY TerminalAssumption, AllotFree
<1>2. /\ sh' = sh /\ terminalRaw' = terminalRaw /\ toKernel' = toKernel
      /\ toMain' = toMain /\ rawMode' = rawMode /\ currentShell' = currentShell /\ poll' = poll
      /\ st' = [st EXCEPT ![n] = IF started THEN "running" ELSE "gone"]
      /\ fg' = IF started THEN Append(fg, n) ELSE fg
  BY <1>1 DEF Child, mainVars
<1>3. \A q \in Pid : st'[q] = IF q = n THEN (IF started THEN "running" ELSE "gone") ELSE st[q]
  BY <1>2 DEF TermType
<1>4. TermType'
  <2>1. st' \in [Pid -> Standing]
    BY <1>1, <1>2 DEF TermType, Standing
  <2>2. fg' \in Seq(Pid)
    BY <1>1, <1>2 DEF TermType
  <2> QED BY <1>2, <2>1, <2>2 DEF TermType
<1>5. InOrder'
  <2> DEFINE x == IF started THEN "running" ELSE "gone"
  <2>1. x \in Standing \ {"none"} /\ st' = [st EXCEPT ![NextPid] = x] /\ NextPid \in Pid
    BY <1>1, <1>2 DEF Standing
  <2> HIDE DEF x
  <2> QED BY <2>1, InOrderNew
<1>6. n \notin sh /\ \A i \in 1..Len(fg) : fg[i] # n
  BY <1>1 DEF Named
<1>7. /\ \A q \in Pid : st[q] # "none" => st'[q] # "none"
      /\ \A q \in Pid \ {n} : Runtime(q)' <=> Runtime(q)
      /\ started => st'[n] = "running"
  BY <1>1, <1>3 DEF Runtime
<1>8. \A i \in 1..Len(fg) : fg[i] \in Pid
  BY DEF TermType
<1> DEFINE Placed == /\ Named' /\ Stacked' /\ CookedAtShell' /\ StackLive'
                     /\ (Len(fg) >= 1 => Len(fg') >= 1 /\ fg'[1] = fg[1])
<1>9. ASSUME started PROVE Placed
  <2>1. /\ Len(fg') = Len(fg) + 1 /\ fg'[Len(fg) + 1] = n /\ Len(fg) \in Nat
        /\ \A i \in 1..Len(fg) : fg'[i] = fg[i]
    BY <1>1, <1>2, <1>9 DEF TermType
  <2>2. Named'
    <3>1. \A i \in 1..Len(fg') : st'[fg'[i]] # "none"
      BY <1>7, <1>8, <1>9, <2>1 DEF Named
    <3> QED BY <1>2, <1>7, <3>1 DEF Named, TermType
  <2>3. Stacked'
    BY <1>6, <2>1 DEF Stacked
  <2>4. CookedAtShell'
    <3>1. fg' # <<>>
      BY <2>1
    <3>2. Foreground' = n
      BY <2>1, <3>1 DEF Foreground
    <3> QED BY <1>1, <1>2, <1>6, <3>2 DEF CookedAtShell, Pid, Nobody
  <2>5. StackLive'
    <3> SUFFICES ASSUME NEW i \in 1..Len(fg')
                 PROVE  st'[fg'[i]] \in RuntimeStates \/ (i = 1 /\ fg'[i] \in sh)
      <4>1. DOMAIN fg' = 1..Len(fg')
        BY <1>4 DEF TermType
      <4> QED BY <1>2, <4>1 DEF StackLive, Runtime, RuntimeStates
    <3>1. CASE i = Len(fg) + 1
      BY <1>7, <1>9, <2>1, <3>1 DEF RuntimeStates
    <3>2. CASE i \in 1..Len(fg)
      <4>1. fg'[i] = fg[i] /\ fg[i] \in Pid \ {n}
        BY <1>6, <1>8, <2>1, <3>2
      <4>2. Runtime(fg[i]) \/ (i = 1 /\ fg[i] \in sh)
        BY <3>2 DEF StackLive, TermType
      <4>3. PICK q \in Pid \ {n} : q = fg[i]
        BY <4>1
      <4> QED BY <1>3, <4>1, <4>2, <4>3 DEF Runtime, RuntimeStates
    <3> QED BY <2>1, <3>1, <3>2
  <2>6. Len(fg) >= 1 => Len(fg') >= 1 /\ fg'[1] = fg[1]
    BY <2>1
  <2> QED BY <2>2, <2>3, <2>4, <2>5, <2>6
<1>10. ASSUME ~started PROVE Placed
  <2>1. fg' = fg
    BY <1>2, <1>10
  <2>2. Named' /\ Stacked' /\ CookedAtShell'
    BY <1>2, <1>7, <1>8, <2>1 DEF Named, Stacked, CookedAtShell, Foreground, TermType
  <2>3. StackLive'
    <3>1. \A i \in 1..Len(fg) : st'[fg[i]] = st[fg[i]]
      BY <1>3, <1>6, <1>8
    <3> QED BY <1>2, <2>1, <3>1 DEF Runtime, StackLive, TermType
  <2> QED BY <2>1, <2>2, <2>3
<1>11. Polled' /\ ModeIs(toMain, rawMode, terminalRaw)'
  BY <1>2 DEF Polled
<1>12. Bottom'
  <2> SUFFICES ASSUME NEW b \in Pid, ShellIs(toMain, poll, currentShell, b), Runtime(b)'
               PROVE  Len(fg') >= 1 /\ fg'[1] = b
    BY <1>2 DEF Bottom
  <2>1. b \in Pid \ {n}
    BY <1>6, ShellIsShell
  <2>2. Len(fg) >= 1 /\ fg[1] = b
    BY <1>7, <2>1 DEF Bottom
  <2> QED BY <1>9, <1>10, <2>2
<1> QED BY <1>4, <1>5, <1>9, <1>10, <1>11, <1>12

\* Taking one element out of a sequence.
LEMMA RemoveAtFacts ==
  ASSUME NEW S, NEW s \in Seq(S), NEW k \in 1..Len(s)
  PROVE  /\ RemoveAt(s, k) \in Seq(S) /\ Len(RemoveAt(s, k)) = Len(s) - 1
         /\ \A i \in 1..Len(s) - 1 : RemoveAt(s, k)[i] = IF i < k THEN s[i] ELSE s[i + 1]
<1> DEFINE a == SubSeq(s, 1, k - 1)
           z == SubSeq(s, k + 1, Len(s))
<1>1. /\ a \in Seq(S) /\ Len(a) = k - 1
      /\ \A i \in 1..k - 1 : a[i] = s[i]
  OBVIOUS
<1>2. /\ z \in Seq(S) /\ Len(z) = Len(s) - k
      /\ \A i \in 1..Len(s) - k : z[i] = s[i + k]
  OBVIOUS
<1>3. RemoveAt(s, k) = a \o z
  BY DEF RemoveAt
<1> HIDE DEF a, z
<1> DEFINE r == a \o z
<1>4. /\ r \in Seq(S) /\ Len(r) = Len(a) + Len(z)
      /\ \A i \in 1..Len(a) + Len(z) : r[i] = IF i <= Len(a) THEN a[i] ELSE z[i - Len(a)]
  <2>1. a \in Seq(S) /\ z \in Seq(S)
    BY <1>1, <1>2
  <2> QED BY <2>1, ConcatProperties
<1> HIDE DEF r
<1>5. ASSUME NEW i \in 1..Len(s) - 1 PROVE r[i] = IF i < k THEN s[i] ELSE s[i + 1]
  <2>1. r[i] = IF i <= k - 1 THEN a[i] ELSE z[i - (k - 1)]
    BY <1>1, <1>2, <1>4
  <2>2. CASE i < k
    BY <1>1, <2>1, <2>2
  <2>3. CASE ~(i < k)
    <3>1. PICK x : x = i - (k - 1)
      OBVIOUS
    <3>2. x \in 1..Len(s) - k /\ x + k = i + 1
      BY <2>3, <3>1
    <3>3. r[i] = z[x]
      BY <2>1, <2>3, <3>1
    <3>4. z[x] = s[i + 1]
      BY <1>2, <3>2
    <3> QED BY <2>3, <3>3, <3>4
  <2> QED BY <2>2, <2>3
<1> QED BY <1>1, <1>2, <1>3, <1>4, <1>5 DEF r

\* Where a process stands on the stack.
LEMMA Place ==
  ASSUME TermType, Stacked, NEW p \in Pid
  PROVE  \/ At(p) = 0 /\ \A i \in 1..Len(fg) : fg[i] # p
         \/ At(p) \in 1..Len(fg) /\ fg[At(p)] = p
<1>1. DOMAIN fg = 1..Len(fg)
  BY DEF TermType
<1>2. CASE \A i \in 1..Len(fg) : fg[i] # p
  BY <1>1, <1>2 DEF At
<1>3. CASE \E i \in 1..Len(fg) : fg[i] = p
  <2>1. PICK i \in 1..Len(fg) : fg[i] = p
    BY <1>3
  <2>2. \A j \in i + 1..Len(fg) : fg[j] # p
    BY <2>1 DEF Stacked, TermType
  <2> QED BY <1>1, <2>1, <2>2 DEF At
<1> QED BY <1>2, <1>3

\* The worker is told that a process has ended: it leaves the stack, its mode with it.
LEMMA Ended ==
  ASSUME TermInv, NEW p \in Pid, Runtime(p), OnProcExit(p),
         toKernel' \in Seq(Cmd),
         \A t \in Polls : Awaited(toKernel', toMain, poll[t], sh, t)
  PROVE  TermInv'
<1> USE DEF TermInv
<1> DEFINE mode == terminalRaw /\ p # Foreground
<1>1. /\ sh' = sh /\ rawMode' = rawMode /\ currentShell' = currentShell /\ poll' = poll
      /\ st' = [st EXCEPT ![p] = "gone"]
      /\ fg' = IF At(p) = 0 THEN fg ELSE RemoveAt(fg, At(p))
      /\ SetTerminalRaw(mode, <<>>)
  BY DEF OnProcExit, PopForeground, mainVars
<1>2. mode \in BOOLEAN
  BY DEF TermType
<1> HIDE DEF mode
<1>3. /\ terminalRaw' = mode
      /\ \E q \in Seq(Message) :
           /\ toMain' = q \o <<>> /\ ModeIs(q, rawMode, mode)
           /\ \A pl, cs, b : ShellIs(q, pl, cs, b) => ShellIs(toMain, pl, cs, b)
           /\ \A tk, e, s, t : Awaited(tk, toMain, e, s, t) => Awaited(tk, q, e, s, t)
  BY <1>1, <1>2, RawSet
<1>4. PICK q \in Seq(Message) :
           /\ toMain' = q \o <<>> /\ ModeIs(q, rawMode, mode)
           /\ \A pl, cs, b : ShellIs(q, pl, cs, b) => ShellIs(toMain, pl, cs, b)
           /\ \A tk, e, s, t : Awaited(tk, toMain, e, s, t) => Awaited(tk, q, e, s, t)
  BY <1>3
<1>5. toMain' = q
  BY <1>4
<1>6. /\ fg' \in Seq(Pid)
      /\ \A i \in 1..Len(fg') : /\ fg'[i] # p
                                /\ \/ i \in 1..Len(fg) /\ fg'[i] = fg[i]
                                   \/ i + 1 \in 1..Len(fg) /\ fg'[i] = fg[i + 1]
      /\ \A i, j \in 1..Len(fg') : fg'[i] = fg'[j] => i = j
      /\ Len(fg) >= 1 /\ fg[1] # p => Len(fg') >= 1 /\ fg'[1] = fg[1]
      /\ p # Foreground => Foreground' = Foreground
  <2>1. fg \in Seq(Pid) /\ Len(fg) \in Nat
    BY DEF TermType
  <2>2. CASE At(p) = 0 /\ \A i \in 1..Len(fg) : fg[i] # p
    <3>1. fg' = fg
      BY <1>1, <2>2
    <3> QED BY <2>1, <2>2, <3>1 DEF Stacked, Foreground
  <2>3. CASE At(p) \in 1..Len(fg) /\ fg[At(p)] = p
    <3>1. PICK k \in 1..Len(fg) : k = At(p) /\ fg[k] = p
      BY <2>3
    <3>2. fg' = RemoveAt(fg, k)
      BY <1>1, <3>1
    <3>3. /\ fg' \in Seq(Pid) /\ Len(fg') = Len(fg) - 1
          /\ \A i \in 1..Len(fg) - 1 : fg'[i] = IF i < k THEN fg[i] ELSE fg[i + 1]
      BY <2>1, <3>2, RemoveAtFacts
    <3>4. \A i \in 1..Len(fg) : i # k => fg[i] # p
      BY <3>1 DEF Stacked
    <3>5. \A i \in 1..Len(fg') : /\ fg'[i] # p
                                 /\ \/ i \in 1..Len(fg) /\ fg'[i] = fg[i]
                                    \/ i + 1 \in 1..Len(fg) /\ fg'[i] = fg[i + 1]
      <4> TAKE i \in 1..Len(fg')
      <4>1. CASE i < k
        BY <2>1, <3>1, <3>3, <3>4, <4>1
      <4>2. CASE ~(i < k)
        <5>1. i + 1 \in 1..Len(fg) /\ i + 1 # k
          BY <2>1, <3>3, <4>2
        <5> QED BY <3>3, <3>4, <4>2, <5>1
      <4> QED BY <4>1, <4>2
    <3>6. \A i, j \in 1..Len(fg') : fg'[i] = fg'[j] => i = j
      <4> SUFFICES ASSUME NEW i \in 1..Len(fg'), NEW j \in 1..Len(fg'), fg'[i] = fg'[j]
                   PROVE  i = j
        OBVIOUS
      <4> DEFINE u(h) == IF h < k THEN h ELSE h + 1
      <4>1. u(i) \in 1..Len(fg) /\ u(j) \in 1..Len(fg) /\ fg[u(i)] = fg[u(j)]
        BY <2>1, <3>3
      <4>2. u(i) = u(j)
        BY <4>1 DEF Stacked
      <4> QED BY <4>2
    <3>7. ASSUME fg[1] # p PROVE Len(fg') >= 1 /\ fg'[1] = fg[1]
      <4>1. k # 1
        BY <3>1, <3>7
      <4>2. 1 \in 1..Len(fg) - 1 /\ 1 < k
        BY <2>1, <3>1, <4>1
      <4> QED BY <3>3, <4>2
    <3>8. ASSUME p # Foreground PROVE Foreground' = Foreground
      <4>1. Foreground = fg[Len(fg)] /\ k # Len(fg)
        BY <2>1, <3>1, <3>8 DEF Foreground
      <4>2. Len(fg') \in 1..Len(fg) - 1 /\ Len(fg') + 1 = Len(fg) /\ ~(Len(fg') < k)
        BY <2>1, <3>3, <4>1
      <4>3. fg'[Len(fg')] = fg[Len(fg)] /\ fg' # <<>>
        BY <3>3, <4>2
      <4> QED BY <4>1, <4>3 DEF Foreground
    <3> QED BY <3>3, <3>5, <3>6, <3>7, <3>8
  <2> QED BY <2>2, <2>3, Place
<1>7. \A r \in Pid : st'[r] = IF r = p THEN "gone" ELSE st[r]
  BY <1>1 DEF TermType
<1>8. TermType'
  <2>1. st' \in [Pid -> Standing]
    BY <1>1 DEF TermType, Standing
  <2> QED BY <1>1, <1>2, <1>3, <1>5, <1>6, <2>1 DEF TermType
<1>9. InOrder'
  <2>1. st[p] # "none" /\ "gone" \in Standing \ {"none"}
    BY DEF Runtime, Standing
  <2> QED BY <1>1, <2>1, InOrderKept
<1>10. \A r \in Pid : st[r] # "none" => st'[r] # "none"
  BY <1>7
<1>11. \A i \in 1..Len(fg) : fg[i] \in Pid
  BY DEF TermType
<1>12. Named'
  <2>1. \A i \in 1..Len(fg') : st'[fg'[i]] # "none"
    BY <1>6, <1>10, <1>11 DEF Named
  <2>2. \A r \in sh : st'[r] # "none"
    BY <1>10 DEF Named, TermType
  <2>3. sh' = sh /\ currentShell' = currentShell
    BY <1>1
  <2>4. currentShell \in sh
    BY DEF Named
  <2> QED BY <2>1, <2>2, <2>3, <2>4 DEF Named
<1>13. Stacked'
  BY <1>6 DEF Stacked
<1>14. Polled'
  BY <1>1, <1>4, <1>5 DEF Polled
<1>15. ModeIs(toMain, rawMode, terminalRaw)'
  BY <1>1, <1>3, <1>4, <1>5
<1>16. CookedAtShell'
  BY <1>1, <1>3, <1>6 DEF CookedAtShell, mode
<1>17. StackLive'
  <2> SUFFICES ASSUME NEW i \in 1..Len(fg')
               PROVE  st'[fg'[i]] \in RuntimeStates \/ (i = 1 /\ fg'[i] \in sh)
    <3>1. DOMAIN fg' = 1..Len(fg')
      BY <1>6
    <3> QED BY <1>1, <3>1 DEF StackLive, Runtime, RuntimeStates
  <2>1. fg'[i] # p /\ (fg'[i] = fg[i] \/ fg'[i] = fg[i + 1])
    BY <1>6
  <2>2. \A j \in 1..Len(fg) : Runtime(fg[j]) \/ (j = 1 /\ fg[j] \in sh)
    BY DEF StackLive, TermType
  <2>3. i \in Nat /\ i > 0
    BY <1>6
  <2>4. /\ Runtime(fg'[i]) \/ (i = 1 /\ fg'[i] \in sh)
        /\ fg'[i] \in Pid
    BY <1>6, <1>11, <2>2, <2>3
  <2>5. PICK r \in Pid : r = fg'[i]
    BY <2>4
  <2> QED BY <1>7, <2>1, <2>4, <2>5 DEF Runtime, RuntimeStates
<1>18. Bottom'
  <2> SUFFICES ASSUME NEW b \in Pid, ShellIs(toMain', poll, currentShell, b), Runtime(b)'
               PROVE  Len(fg') >= 1 /\ fg'[1] = b
    BY <1>1 DEF Bottom
  <2>1. b # p /\ Runtime(b)
    BY <1>7 DEF Runtime
  <2>2. ShellIs(toMain, poll, currentShell, b)
    BY <1>4, <1>5
  <2>3. Len(fg) >= 1 /\ fg[1] = b
    BY <2>1, <2>2 DEF Bottom
  <2> QED BY <1>6, <2>1, <2>3
<1> QED BY <1>8, <1>9, <1>12, <1>13, <1>14, <1>15, <1>16, <1>17, <1>18

\* The worker takes a command and answers it.
LEMMA TakenAndAnswered ==
  ASSUME TermType, Polled, toKernel # <<>>, NEW c, c = toKernel[1], c.cmd # "kill",
         NEW q \in Seq(Message),
         \A tk, e, s, t : Awaited(tk, toMain, e, s, t) => Awaited(tk, q, e, s, t),
         NEW r \in (SUBSET Pid) \cup (0..MaxPid), NEW u, sh \subseteq u,
         poll[c.poll].at = "spawning" => r \in u \cup {Nobody}
  PROVE  /\ c.poll \in Polls /\ Fits(c, poll[c.poll]) /\ Reply(c.poll, r) \in Message
         /\ \A t \in Polls :
              Awaited(Tail(toKernel), Append(q, Reply(c.poll, r)), poll[t], u, t)
<1>1. toKernel \in Seq(Cmd) /\ c \in Cmd
  BY DEF TermType
<1>2. c.poll \in Polls
  BY <1>1 DEF Cmd
<1> DEFINE R == (SUBSET Pid) \cup (0..MaxPid)
<1>3. PICK m : m = Reply(c.poll, r) /\ m \in Message
  <2>1. r \in R
    OBVIOUS
  <2> HIDE DEF R
  <2>2. Reply(c.poll, r) \in [type: {"reply"}, poll: Polls, result: R]
    BY <1>2, <2>1 DEF Reply
  <2>3. [type: {"reply"}, poll: Polls, result: R] \subseteq Message
    BY DEF Message, R
  <2> QED BY <2>2, <2>3
<1>4. m.type = "reply" /\ m.poll = c.poll /\ m.result = r
  BY <1>3 DEF Reply
<1>5. Fits(c, poll[c.poll])
  <2>1. Asks(toKernel, c.poll, 1)
    BY <1>1 DEF Asks
  <2> QED BY <1>2, <2>1 DEF Polled, Awaited
<1>6. ASSUME NEW t \in Polls PROVE Awaited(Tail(toKernel), Append(q, m), poll[t], u, t)
  <2>1. Awaited(toKernel, q, poll[t], u, t)
    BY AwaitedMore DEF Polled
  <2>2. poll[t].at = "spawning" /\ t = m.poll => m.result \in u \cup {Nobody}
    BY <1>4
  <2> QED BY <1>1, <1>3, <1>4, <2>1, <2>2, AwaitedAnswer
<1> QED BY <1>2, <1>3, <1>5, <1>6

LEMMA ListsProcs ==
  ASSUME TermInv, KernelReceive, toKernel[1].cmd = "listProcs"
  PROVE  TermInv'
<1> USE DEF TermInv
<1>1. PICK c : c = toKernel[1] /\ c.cmd = "listProcs"
  OBVIOUS
<1>2. /\ toKernel # <<>> /\ toKernel' = Tail(toKernel) /\ Head(toKernel) = c
      /\ rawMode' = rawMode /\ currentShell' = currentShell /\ poll' = poll
  BY <1>1 DEF KernelReceive, mainVars
<1>3. /\ toMain' = Append(toMain, Reply(c.poll, Listed))
      /\ st' = st /\ sh' = sh /\ fg' = fg /\ terminalRaw' = terminalRaw
  BY <1>1, <1>2 DEF KernelReceive, Command, Say, procVars, kworkerVars
<1>4. Listed \in (SUBSET Pid) \cup (0..MaxPid)
  BY DEF Listed
<1>5. toMain \in Seq(Message) /\ toKernel \in Seq(Cmd)
  BY DEF TermType
<1>6. PICK r \in (SUBSET Pid) \cup (0..MaxPid) : r = Listed
  BY <1>4
<1>7. c.poll \in Polls /\ Fits(c, poll[c.poll])
  <2>1. c \in Cmd /\ Asks(toKernel, c.poll, 1)
    BY <1>1, <1>2, <1>5 DEF Asks
  <2>2. c.poll \in Polls
    BY <1>1, <2>1 DEF Cmd
  <2> QED BY <1>1, <2>1, <2>2 DEF Polled, Awaited
<1>8. poll[c.poll].at = "listing"
  BY <1>1, <1>7 DEF Fits
<1>9. /\ Reply(c.poll, r) \in Message
      /\ \A t \in Polls : Awaited(Tail(toKernel), Append(toMain, Reply(c.poll, r)), poll[t], sh, t)
  <2>1. toMain \in Seq(Message) /\ c.cmd # "kill" /\ ~(poll[c.poll].at = "spawning")
    BY <1>1, <1>5, <1>8
  <2> QED BY <1>1, <1>2, <2>1, TakenAndAnswered
<1>10. PICK m \in Message : m = Reply(c.poll, r)
  BY <1>9
<1>11. m.type = "reply" /\ m.poll = c.poll /\ toMain' = Append(toMain, m)
  BY <1>3, <1>6, <1>10 DEF Reply
<1>12. TermType'
  <2>1. toKernel' \in Seq(Cmd) /\ toMain' \in Seq(Message)
    BY <1>2, <1>5, <1>10, <1>11
  <2> QED BY <1>2, <1>3, <2>1 DEF TermType
<1>13. InOrder' /\ Named' /\ Stacked' /\ CookedAtShell' /\ StackLive'
  BY <1>2, <1>3 DEF InOrder, Named, Stacked, CookedAtShell, StackLive, Foreground, Runtime
<1>14. Polled'
  BY <1>2, <1>3, <1>6, <1>9 DEF Polled
<1>15. ModeIs(toMain, rawMode, terminalRaw)'
  BY <1>2, <1>3, <1>5, <1>10, <1>11, ModeAppend
<1>16. Bottom'
  <2>1. ~Binds(m, poll)
    BY <1>8, <1>11 DEF Binds
  <2>2. \A b : ShellIs(toMain', poll, currentShell, b) => ShellIs(toMain, poll, currentShell, b)
    BY <1>5, <1>10, <1>11, <2>1, ShellAppend
  <2> QED BY <1>2, <1>3, <2>2 DEF Bottom, Runtime
<1> QED BY <1>12, <1>13, <1>14, <1>15, <1>16

LEMMA SpawnsByPath ==
  ASSUME TermInv, KernelReceive, toKernel[1].cmd = "spawnByPath"
  PROVE  TermInv'
<1> USE DEF TermInv
<1>1. PICK c : c = toKernel[1] /\ c.cmd = "spawnByPath"
  OBVIOUS
<1>2. /\ toKernel # <<>> /\ toKernel' = Tail(toKernel) /\ Head(toKernel) = c
      /\ rawMode' = rawMode /\ currentShell' = currentShell /\ poll' = poll
  BY <1>1 DEF KernelReceive, mainVars
<1>3. SpawnByPath(c.poll)
  BY <1>1, <1>2 DEF KernelReceive, Command
<1>4. PICK n : n = NextPid /\ n \in Pid /\ st[n] = "none"
  BY <1>3, AllotFree DEF SpawnByPath
<1>5. PICK ok \in BOOLEAN :
        /\ st' = [st EXCEPT ![n] = IF ok THEN "running" ELSE "ready"]
        /\ sh' = sh \cup {n}
        /\ toMain' = Append(toMain, Reply(c.poll, IF ok THEN n ELSE Nobody))
  BY <1>3, <1>4 DEF SpawnByPath, Say
<1>6. fg' = fg /\ terminalRaw' = terminalRaw
  BY <1>3 DEF SpawnByPath, kworkerVars
<1>7. PICK r : r = IF ok THEN n ELSE Nobody
  OBVIOUS
<1>8. r \in (SUBSET Pid) \cup (0..MaxPid) /\ r \in (sh \cup {n}) \cup {Nobody}
  BY <1>4, <1>7, TerminalAssumption DEF Pid, Nobody
<1>9. toMain \in Seq(Message) /\ toKernel \in Seq(Cmd)
  BY DEF TermType
<1>10. /\ c.poll \in Polls /\ Fits(c, poll[c.poll]) /\ Reply(c.poll, r) \in Message
       /\ \A t \in Polls :
            Awaited(Tail(toKernel), Append(toMain, Reply(c.poll, r)), poll[t], sh \cup {n}, t)
  <2>1. c.cmd # "kill" /\ sh \subseteq sh \cup {n}
    BY <1>1
  <2> QED BY <1>1, <1>2, <1>8, <1>9, <2>1, TakenAndAnswered
<1>11. poll[c.poll].at = "spawning"
  BY <1>1, <1>10 DEF Fits
<1>12. PICK m \in Message : m = Reply(c.poll, r)
  BY <1>10
<1>13. m.type = "reply" /\ m.poll = c.poll /\ toMain' = Append(toMain, m)
  BY <1>5, <1>7, <1>12 DEF Reply
<1>14. \A p \in Pid : st'[p] = IF p = n THEN (IF ok THEN "running" ELSE "ready") ELSE st[p]
  BY <1>5 DEF TermType
<1>15. TermType'
  <2>1. toKernel' \in Seq(Cmd) /\ toMain' \in Seq(Message)
    BY <1>2, <1>9, <1>12, <1>13
  <2>2. st' \in [Pid -> Standing] /\ sh' \in SUBSET Pid
    BY <1>4, <1>5 DEF TermType, Standing
  <2> QED BY <1>2, <1>6, <2>1, <2>2 DEF TermType
<1>16. InOrder'
  <2> DEFINE x == IF ok THEN "running" ELSE "ready"
  <2>1. x \in Standing \ {"none"} /\ st' = [st EXCEPT ![NextPid] = x] /\ NextPid \in Pid
    BY <1>4, <1>5 DEF Standing
  <2> HIDE DEF x
  <2> QED BY <2>1, InOrderNew
<1>17. /\ \A p \in Pid : st[p] # "none" => st'[p] # "none"
       /\ n \notin sh /\ \A i \in 1..Len(fg) : fg[i] # n /\ fg[i] \in Pid
  BY <1>4, <1>14 DEF Named, TermType
<1>18. Named'
  <2>1. st'[n] # "none"
    BY <1>4, <1>14
  <2> QED BY <1>2, <1>5, <1>6, <1>17, <2>1 DEF Named, TermType
<1>19. Stacked'
  BY <1>6 DEF Stacked
<1>20. CookedAtShell'
  <2>1. Foreground # n
    BY <1>4, <1>17 DEF Foreground, TermType, Nobody, Pid
  <2> QED BY <1>5, <1>6, <2>1 DEF CookedAtShell, Foreground
<1>21. StackLive'
  <2>1. \A i \in 1..Len(fg) : st'[fg[i]] = st[fg[i]]
    BY <1>14, <1>17
  <2>2. DOMAIN fg = 1..Len(fg)
    BY DEF TermType
  <2>3. \A i \in 1..Len(fg) : st'[fg[i]] \in RuntimeStates \/ (i = 1 /\ fg[i] \in sh)
    BY <2>1, <2>2 DEF StackLive, Runtime, RuntimeStates
  <2> QED BY <1>5, <1>6, <2>2, <2>3 DEF StackLive, Runtime, RuntimeStates
<1>22. Polled'
  BY <1>2, <1>5, <1>7, <1>10 DEF Polled
<1>23. ModeIs(toMain, rawMode, terminalRaw)'
  BY <1>2, <1>6, <1>9, <1>12, <1>13, ModeAppend
<1>24. Bottom'
  <2> SUFFICES ASSUME NEW b \in Pid, ShellIs(toMain', poll, currentShell, b), Runtime(b)'
               PROVE  Len(fg) >= 1 /\ fg[1] = b
    BY <1>2, <1>6 DEF Bottom
  <2>1. ~Binds(m, poll)
    BY <1>11, <1>13 DEF Binds
  <2>2. ShellIs(toMain, poll, currentShell, b)
    BY <1>9, <1>12, <1>13, <2>1, ShellAppend
  <2>3. b # n
    BY <1>17, <2>2, ShellIsShell
  <2>4. Runtime(b)
    BY <1>14, <2>3 DEF Runtime
  <2> QED BY <2>2, <2>4 DEF Bottom
<1> QED BY <1>15, <1>16, <1>18, <1>19, <1>20, <1>21, <1>22, <1>23, <1>24

LEMMA BindsTerminal ==
  ASSUME TermInv, KernelReceive, toKernel[1].cmd = "bindTerminal"
  PROVE  TermInv'
<1> USE DEF TermInv
<1>1. PICK c : c = toKernel[1] /\ c.cmd = "bindTerminal"
  OBVIOUS
<1>2. /\ toKernel # <<>> /\ toKernel' = Tail(toKernel) /\ Head(toKernel) = c
      /\ rawMode' = rawMode /\ currentShell' = currentShell /\ poll' = poll
  BY <1>1 DEF KernelReceive, mainVars
<1>3. BindTerminal(c.poll, c.pid)
  BY <1>1, <1>2 DEF KernelReceive, Command
<1>4. /\ fg' = <<c.pid>> /\ st' = st /\ sh' = sh
      /\ SetTerminalRaw(FALSE, <<Reply(c.poll, Nobody)>>)
  BY <1>3 DEF BindTerminal, procVars
<1>5. toMain \in Seq(Message) /\ toKernel \in Seq(Cmd)
  BY DEF TermType
<1>6. /\ terminalRaw' = FALSE
      /\ \E q \in Seq(Message) :
           /\ toMain' = q \o <<Reply(c.poll, Nobody)>> /\ ModeIs(q, rawMode, FALSE)
           /\ \A pl, cs, b : ShellIs(q, pl, cs, b) => ShellIs(toMain, pl, cs, b)
           /\ \A tk, e, s, t : Awaited(tk, toMain, e, s, t) => Awaited(tk, q, e, s, t)
  BY <1>4, RawSet
<1>7. PICK q \in Seq(Message) :
           /\ toMain' = q \o <<Reply(c.poll, Nobody)>> /\ ModeIs(q, rawMode, FALSE)
           /\ \A pl, cs, b : ShellIs(q, pl, cs, b) => ShellIs(toMain, pl, cs, b)
           /\ \A tk, e, s, t : Awaited(tk, toMain, e, s, t) => Awaited(tk, q, e, s, t)
  BY <1>6
<1>8. PICK r : r = Nobody /\ r \in (SUBSET Pid) \cup (0..MaxPid)
  BY TerminalAssumption DEF Nobody
<1>9. /\ c.poll \in Polls /\ Fits(c, poll[c.poll]) /\ Reply(c.poll, r) \in Message
      /\ \A t \in Polls :
            Awaited(Tail(toKernel), Append(q, Reply(c.poll, r)), poll[t], sh, t)
  <2>1. c.cmd # "kill" /\ sh \subseteq sh /\ r \in sh \cup {Nobody}
    BY <1>1, <1>8
  <2> QED BY <1>1, <1>2, <1>7, <1>8, <2>1, TakenAndAnswered
<1>10. /\ poll[c.poll].at = "binding" /\ poll[c.poll].pid = c.pid
       /\ c.pid \in sh
  <2>1. poll[c.poll].at = "binding" /\ poll[c.poll].pid = c.pid
    BY <1>1, <1>9 DEF Fits
  <2> QED BY <1>9, <2>1 DEF Polled, Awaited
<1>11. PICK p : p = c.pid /\ p \in Pid /\ p \in sh
  BY <1>10 DEF TermType
<1>12. PICK m \in Message : m = Reply(c.poll, r)
  BY <1>9
<1>13. m.type = "reply" /\ m.poll = c.poll
  BY <1>12 DEF Reply
<1>14. toMain' = Append(q, m)
  <2>1. toMain' = q \o <<m>>
    BY <1>7, <1>8, <1>12
  <2> QED BY <1>12, <2>1
<1>15. fg' = <<p>> /\ fg' \in Seq(Pid) /\ Len(fg') = 1 /\ fg'[1] = p /\ 1..Len(fg') = {1}
  BY <1>4, <1>11
<1>16. TermType'
  <2>1. toKernel' \in Seq(Cmd) /\ toMain' \in Seq(Message)
    BY <1>2, <1>5, <1>12, <1>14
  <2> QED BY <1>2, <1>4, <1>6, <1>15, <2>1 DEF TermType
<1>17. InOrder' /\ Stacked'
  BY <1>4, <1>15 DEF InOrder, Stacked
<1>18. Named'
  BY <1>2, <1>4, <1>11, <1>15 DEF Named
<1>19. CookedAtShell' /\ StackLive'
  BY <1>4, <1>6, <1>11, <1>15 DEF CookedAtShell, StackLive
<1>20. Polled'
  BY <1>2, <1>4, <1>9, <1>12, <1>14 DEF Polled
<1>21. ModeIs(toMain, rawMode, terminalRaw)'
  BY <1>2, <1>6, <1>7, <1>12, <1>13, <1>14, ModeAppend
<1>22. Bottom'
  <2>1. Binds(m, poll)
    BY <1>10, <1>13 DEF Binds
  <2>2. poll[m.poll].pid = p
    BY <1>10, <1>11, <1>13
  <2>3. ASSUME NEW b, ShellIs(Append(q, m), poll, currentShell, b) PROVE b = p
    BY <1>7, <1>12, <2>1, <2>2, <2>3, ShellAppend
  <2> QED BY <1>2, <1>14, <1>15, <2>3 DEF Bottom
<1> QED BY <1>16, <1>17, <1>18, <1>19, <1>20, <1>21, <1>22

LEMMA Receives ==
  ASSUME TermInv, KernelReceive
  PROVE  TermInv'
<1> USE DEF TermInv
<1>1. toKernel \in Seq(Cmd) /\ toKernel # <<>>
  BY DEF TermType, KernelReceive
<1>2. PICK c \in Cmd : c = toKernel[1] /\ c = Head(toKernel)
  BY <1>1
<1>3. toKernel' = Tail(toKernel) /\ toKernel' \in Seq(Cmd)
  BY <1>1 DEF KernelReceive
<1>4. CASE c.cmd = "kill"
  <2>1. c.pid \in Pid
    BY <1>4 DEF Cmd
  <2>2. \A t \in Polls : Awaited(toKernel', toMain, poll[t], sh, t)
    BY <1>1, <1>2, <1>3, <1>4, AwaitedKill DEF Polled
  <2>3. CASE Runtime(c.pid)
    <3>1. OnProcExit(c.pid)
      BY <1>2, <1>4, <2>3 DEF KernelReceive, Command
    <3> QED BY <1>3, <2>1, <2>2, <2>3, <3>1, Ended
  <2>4. CASE ~Runtime(c.pid)
    <3>1. UNCHANGED <<procVars, kworkerVars, toMain>> /\ UNCHANGED mainVars
      BY <1>2, <1>4, <2>4 DEF KernelReceive, Command
    <3>2. /\ st' = st /\ sh' = sh /\ fg' = fg /\ terminalRaw' = terminalRaw
          /\ toMain' = toMain /\ rawMode' = rawMode /\ currentShell' = currentShell /\ poll' = poll
      BY <3>1 DEF procVars, kworkerVars, mainVars
    <3>3. TermType' /\ InOrder' /\ Named' /\ Stacked'
      BY <1>3, <3>2 DEF TermType, InOrder, Named, Stacked
    <3>4. Polled'
      BY <2>2, <3>2 DEF Polled
    <3>5. ModeIs(toMain, rawMode, terminalRaw)' /\ CookedAtShell' /\ StackLive' /\ Bottom'
      BY <3>2 DEF CookedAtShell, StackLive, Bottom, Foreground, Runtime
    <3> QED BY <3>3, <3>4, <3>5
  <2> QED BY <2>3, <2>4
<1>5. CASE c.cmd # "kill"
  BY <1>2, <1>5, ListsProcs, SpawnsByPath, BindsTerminal DEF Cmd
<1> QED BY <1>4, <1>5
----------------------------------------------------------------------------
(* The window's thread.                                                    *)

LEMMA ModeArrives ==
  ASSUME TermInv, MainReceive, toMain[1].type = "termMode"
  PROVE  TermInv'
<1> USE DEF TermInv
<1>1. toMain \in Seq(Message) /\ toMain # <<>>
  BY DEF TermType, MainReceive
<1>2. PICK m \in Message : m = toMain[1] /\ m = Head(toMain)
  BY <1>1
<1>3. toMain' = Tail(toMain) /\ toMain' \in Seq(Message)
  BY <1>1 DEF MainReceive
<1>4. /\ st' = st /\ sh' = sh /\ fg' = fg /\ terminalRaw' = terminalRaw
      /\ toKernel' = toKernel /\ poll' = poll /\ currentShell' = currentShell
      /\ rawMode' = m.raw
  BY <1>2 DEF MainReceive, procVars, kworkerVars
<1>5. m.raw \in BOOLEAN
  BY <1>2 DEF Message
<1>6. TermType' /\ InOrder' /\ Named' /\ Stacked'
  BY <1>3, <1>4, <1>5 DEF TermType, InOrder, Named, Stacked
<1>7. CookedAtShell' /\ StackLive'
  BY <1>4 DEF CookedAtShell, StackLive, Foreground, Runtime
<1>8. Polled'
  BY <1>1, <1>3, <1>4, AwaitedModeTail DEF Polled
<1>9. ModeIs(toMain, rawMode, terminalRaw)'
  BY <1>1, <1>2, <1>3, <1>4, ModeTail
<1>10. Bottom'
  <2>1. ~Binds(toMain[1], poll)
    BY DEF Binds
  <2>2. \A b : ShellIs(Tail(toMain), poll, currentShell, b) => ShellIs(toMain, poll, currentShell, b)
    BY <1>1, <2>1, ShellTail
  <2> QED BY <1>3, <1>4, <2>2 DEF Bottom, Runtime
<1> QED BY <1>6, <1>7, <1>8, <1>9, <1>10

\* A reply resumes its poll, which is then done or asks for the next thing.
LEMMA Moves ==
  ASSUME TermInv, toMain # <<>>, toMain[1].type = "reply",
         NEW t0, t0 = toMain[1].poll, NEW e \in Poll,
         poll' = [poll EXCEPT ![t0] = e], toMain' = Tail(toMain),
         UNCHANGED <<procVars, kworkerVars, rawMode>>,
         currentShell' = IF poll[t0].at = "binding" THEN poll[t0].pid ELSE currentShell,
         e.at = "binding" => e.pid \in sh,
         \/ toKernel' = toKernel /\ e.at = "idle"
         \/ \E c \in Cmd : /\ toKernel' = Append(toKernel, c)
                           /\ c.cmd # "kill" /\ c.poll = t0 /\ Fits(c, e)
  PROVE  TermInv'
<1> USE DEF TermInv
<1>1. toMain \in Seq(Message) /\ toKernel \in Seq(Cmd)
  BY DEF TermType
<1>2. t0 \in Polls
  <2>1. toMain[1] \in Message
    BY <1>1
  <2> QED BY <2>1 DEF Message
<1>3. /\ st' = st /\ sh' = sh /\ fg' = fg /\ terminalRaw' = terminalRaw /\ rawMode' = rawMode
  BY DEF procVars, kworkerVars
<1>4. \A t \in Polls : poll'[t] = IF t = t0 THEN e ELSE poll[t]
  BY DEF TermType
<1>5. currentShell' \in sh
  BY <1>2 DEF Named, Polled, Awaited
<1>6. toKernel' \in Seq(Cmd) /\ toMain' \in Seq(Message)
  <2>1. toMain' \in Seq(Message)
    BY <1>1
  <2>2. \A c \in Cmd : Append(toKernel, c) \in Seq(Cmd)
    BY <1>1
  <2> QED BY <1>1, <2>1, <2>2
<1>7. TermType'
  <2>1. poll' \in [Polls -> Poll]
    BY DEF TermType
  <2>2. currentShell' \in Pid
    BY <1>5 DEF TermType
  <2> QED BY <1>3, <1>6, <2>1, <2>2 DEF TermType
<1>8. InOrder' /\ Stacked' /\ CookedAtShell' /\ StackLive'
  BY <1>3 DEF InOrder, Stacked, CookedAtShell, StackLive, Foreground, Runtime
<1>9. Named'
  BY <1>3, <1>5 DEF Named
<1>10. (\A i : ~Answers(Tail(toMain), t0, i)) /\ (\A i : ~Asks(toKernel, t0, i))
  BY <1>1, <1>2, AwaitedReply DEF Polled
<1>11. Polled'
  <2> SUFFICES ASSUME NEW t \in Polls PROVE Awaited(toKernel', toMain', poll'[t], sh, t)
    BY <1>3 DEF Polled
  <2>1. Awaited(toKernel, toMain, poll[t], sh, t)
    BY DEF Polled
  <2>2. CASE t = t0
    <3>1. poll'[t] = e
      BY <1>4, <2>2
    <3>2. CASE toKernel' = toKernel /\ e.at = "idle"
      BY <1>10, <2>2, <3>1, <3>2 DEF Awaited
    <3>3. CASE \E c \in Cmd : /\ toKernel' = Append(toKernel, c)
                              /\ c.cmd # "kill" /\ c.poll = t0 /\ Fits(c, e)
      BY <1>1, <1>10, <2>2, <3>1, <3>3, AwaitedCall
    <3> QED BY <3>2, <3>3
  <2>3. CASE t # t0
    <3>1. poll'[t] = poll[t]
      BY <1>4, <2>3
    <3>2. Awaited(toKernel, Tail(toMain), poll[t], sh, t)
      BY <1>1, <2>1, <2>3, AwaitedReply
    <3>3. CASE toKernel' = toKernel
      BY <3>1, <3>2, <3>3
    <3>4. CASE \E c \in Cmd : /\ toKernel' = Append(toKernel, c)
                              /\ c.cmd # "kill" /\ c.poll = t0 /\ Fits(c, e)
      BY <1>1, <2>3, <3>1, <3>2, <3>4, AwaitedOther
    <3> QED BY <3>3, <3>4
  <2> QED BY <2>2, <2>3
<1>12. ModeIs(toMain, rawMode, terminalRaw)'
  BY <1>1, <1>3, ModeTail
<1>13. Bottom'
  <2> SUFFICES ASSUME NEW b \in Pid, ShellIs(Tail(toMain), poll', currentShell', b), Runtime(b)
               PROVE  Len(fg) >= 1 /\ fg[1] = b
    BY <1>3 DEF Bottom, Runtime
  <2>1. Tail(toMain) \in Seq(Message)
    BY <1>1
  <2>2. \A i \in 1..Len(Tail(toMain)) : Tail(toMain)[i].type = "reply" =>
           poll'[Tail(toMain)[i].poll] = poll[Tail(toMain)[i].poll]
    <3> TAKE i \in 1..Len(Tail(toMain))
    <3>1. PICK m \in Message : m = Tail(toMain)[i]
      BY <2>1
    <3>2. m.type = "reply" => m.poll \in Polls
      BY <3>1 DEF Message
    <3>3. m.type = "reply" => m.poll # t0
      BY <1>10, <3>1 DEF Answers
    <3> QED BY <1>4, <3>1, <3>2, <3>3
  <2>3. ShellIs(Tail(toMain), poll, currentShell', b)
    <3>1. PICK pm : pm = poll'
      OBVIOUS
    <3>2. PICK cs : cs = currentShell'
      OBVIOUS
    <3> QED BY <2>1, <2>2, <3>1, <3>2, ShellElsewhere
  <2>4. ShellIs(toMain, poll, currentShell, b)
    <3>1. CASE poll[t0].at = "binding"
      BY <1>1, <2>3, <3>1, ShellTail DEF Binds
    <3>2. CASE poll[t0].at # "binding"
      BY <1>1, <2>3, <3>2, ShellTail DEF Binds
    <3> QED BY <3>1, <3>2
  <2> QED BY <2>4 DEF Bottom
<1> QED BY <1>7, <1>8, <1>9, <1>11, <1>12, <1>13

LEMMA ReplyArrives ==
  ASSUME TermInv, MainReceive, toMain[1].type = "reply"
  PROVE  TermInv'
<1> USE DEF TermInv
<1>1. toMain \in Seq(Message) /\ toMain # <<>> /\ toMain' = Tail(toMain)
  BY DEF TermType, MainReceive
<1>2. PICK m \in Message : m = toMain[1] /\ m = Head(toMain)
  BY <1>1
<1>3. PICK t0 : t0 = m.poll
  OBVIOUS
<1>4. t0 \in Polls
  BY <1>2, <1>3 DEF Message
<1>5. /\ Resume(t0, m.result)
      /\ UNCHANGED <<procVars, kworkerVars, rawMode>>
  BY <1>2, <1>3 DEF MainReceive
<1>6. /\ poll[t0].at # "idle"
      /\ poll[t0].at = "spawning" => m.result \in sh \cup {Nobody}
  BY <1>1, <1>2, <1>3, <1>4, AwaitedReply DEF Polled
<1>7. poll[t0].at \in {"listing", "spawning", "binding"}
  BY <1>4, <1>6 DEF TermType, Poll
<1> USE DEF Goto, Call
<1> DEFINE idle == [at |-> "idle", pid |-> Nobody]
<1>8. idle \in Poll /\ idle.at = "idle"
  BY TerminalAssumption DEF Poll, Nobody
<1>9. CASE poll[t0].at = "listing"
  <2>1. Listing(t0, m.result) /\ currentShell' = currentShell
    BY <1>5, <1>9 DEF Resume
  <2>2. CASE currentShell \in m.result
    <3>1. poll' = [poll EXCEPT ![t0] = idle] /\ toKernel' = toKernel
      BY <2>1, <2>2 DEF Listing
    <3> HIDE DEF idle
    <3> QED BY <1>1, <1>2, <1>3, <1>5, <1>8, <1>9, <2>1, <3>1, Moves
  <2>3. CASE currentShell \notin m.result
    <3> DEFINE e == [at |-> "spawning", pid |-> Nobody]
               c == [cmd |-> "spawnByPath", poll |-> t0]
    <3>1. poll' = [poll EXCEPT ![t0] = e] /\ toKernel' = Append(toKernel, c)
      BY <2>1, <2>3 DEF Listing
    <3>2. e \in Poll /\ e.at = "spawning"
      BY TerminalAssumption DEF Poll, Nobody
    <3>3. c \in Cmd /\ c.cmd = "spawnByPath" /\ c.poll = t0
      BY <1>4 DEF Cmd
    <3>4. Fits(c, e)
      BY <3>2, <3>3 DEF Fits
    <3> HIDE DEF e, c
    <3> QED BY <1>1, <1>2, <1>3, <1>5, <1>9, <2>1, <3>1, <3>2, <3>3, <3>4, Moves
  <2> QED BY <2>2, <2>3
<1>10. CASE poll[t0].at = "spawning"
  <2>1. Spawning(t0, m.result) /\ currentShell' = currentShell
    BY <1>5, <1>10 DEF Resume
  <2>2. CASE m.result = Nobody
    <3>1. poll' = [poll EXCEPT ![t0] = idle] /\ toKernel' = toKernel
      BY <2>1, <2>2 DEF Spawning
    <3> HIDE DEF idle
    <3> QED BY <1>1, <1>2, <1>3, <1>5, <1>8, <1>10, <2>1, <3>1, Moves
  <2>3. CASE m.result # Nobody
    <3>1. PICK p : p = m.result /\ p \in sh /\ p \in Pid /\ p \in 0..MaxPid
      <4>1. m.result \in sh
        BY <1>6, <1>10, <2>3
      <4>2. m.result \in Pid
        BY <4>1 DEF TermType
      <4>3. \A p \in Pid : p \in 0..MaxPid
        BY TerminalAssumption DEF Pid
      <4> QED BY <4>1, <4>2, <4>3
    <3> DEFINE e == [at |-> "binding", pid |-> p]
               c == [cmd |-> "bindTerminal", poll |-> t0, pid |-> p]
    <3>2. poll' = [poll EXCEPT ![t0] = e] /\ toKernel' = Append(toKernel, c)
      BY <2>1, <2>3, <3>1 DEF Spawning
    <3>3. e \in Poll /\ e.at = "binding" /\ e.pid = p
      BY <3>1 DEF Poll
    <3>4. c \in Cmd /\ c.cmd = "bindTerminal" /\ c.poll = t0 /\ c.pid = p
      BY <1>4, <3>1 DEF Cmd
    <3>5. Fits(c, e)
      BY <3>3, <3>4 DEF Fits
    <3> HIDE DEF e, c
    <3> QED BY <1>1, <1>2, <1>3, <1>5, <1>10, <2>1, <3>1, <3>2, <3>3, <3>4, <3>5, Moves
  <2> QED BY <2>2, <2>3
<1>11. CASE poll[t0].at = "binding"
  <2>1. /\ currentShell' = poll[t0].pid /\ toKernel' = toKernel
        /\ poll' = [poll EXCEPT ![t0] = idle]
    BY <1>5, <1>11 DEF Resume, SetShell
  <2> HIDE DEF idle
  <2> QED BY <1>1, <1>2, <1>3, <1>5, <1>8, <1>11, <2>1, Moves
<1> QED BY <1>7, <1>9, <1>10, <1>11

LEMMA Ticks ==
  ASSUME TermInv, NEW t0 \in Polls, WatchTick(t0)
  PROVE  TermInv'
<1> USE DEF TermInv
<1> DEFINE e == [at |-> "listing", pid |-> Nobody]
           c == [cmd |-> "listProcs", poll |-> t0]
<1>1. /\ st' = st /\ sh' = sh /\ fg' = fg /\ terminalRaw' = terminalRaw /\ rawMode' = rawMode
      /\ toMain' = toMain /\ currentShell' = currentShell
      /\ poll[t0] = Idle /\ poll' = [poll EXCEPT ![t0] = e] /\ toKernel' = Append(toKernel, c)
  BY DEF WatchTick, procVars, kworkerVars, Goto, Call
<1>2. e \in Poll /\ e.at = "listing"
  BY TerminalAssumption DEF Poll, Nobody
<1>3. c \in Cmd /\ c.cmd = "listProcs" /\ c.poll = t0
  BY DEF Cmd
<1>4. Fits(c, e)
  BY <1>2, <1>3 DEF Fits
<1> HIDE DEF e, c
<1>5. toMain \in Seq(Message) /\ toKernel \in Seq(Cmd)
  BY DEF TermType
<1>6. \A t \in Polls : poll'[t] = IF t = t0 THEN e ELSE poll[t]
  BY <1>1 DEF TermType
<1>7. TermType'
  <2>1. poll' \in [Polls -> Poll]
    BY <1>1, <1>2 DEF TermType
  <2>2. toKernel' \in Seq(Cmd)
    BY <1>1, <1>3, <1>5
  <2> QED BY <1>1, <2>1, <2>2 DEF TermType
<1>8. InOrder' /\ Named' /\ Stacked' /\ CookedAtShell' /\ StackLive'
  BY <1>1 DEF InOrder, Named, Stacked, CookedAtShell, StackLive, Foreground, Runtime
<1>9. (\A i : ~Answers(toMain, t0, i)) /\ (\A i : ~Asks(toKernel, t0, i))
  <2>1. Awaited(toKernel, toMain, poll[t0], sh, t0) /\ poll[t0].at = "idle"
    BY <1>1 DEF Polled, Idle
  <2> QED BY <2>1 DEF Awaited, Fits
<1>10. Polled'
  <2> SUFFICES ASSUME NEW t \in Polls PROVE Awaited(toKernel', toMain, poll'[t], sh, t)
    BY <1>1 DEF Polled
  <2>1. Awaited(toKernel, toMain, poll[t], sh, t)
    BY DEF Polled
  <2>2. CASE t = t0
    <3>1. poll'[t] = e
      BY <1>6, <2>2
    <3>2. Awaited(Append(toKernel, c), toMain, e, sh, t)
      BY <1>2, <1>3, <1>4, <1>5, <1>9, <2>2, AwaitedCall
    <3> QED BY <1>1, <3>1, <3>2
  <2>3. CASE t # t0
    <3>1. poll'[t] = poll[t]
      BY <1>6, <2>3
    <3>2. Awaited(Append(toKernel, c), toMain, poll[t], sh, t)
      BY <1>3, <1>5, <2>1, <2>3, AwaitedOther
    <3> QED BY <1>1, <3>1, <3>2
  <2> QED BY <2>2, <2>3
<1>11. ModeIs(toMain, rawMode, terminalRaw)'
  BY <1>1
<1>12. Bottom'
  <2> SUFFICES ASSUME NEW b \in Pid, ShellIs(toMain, poll', currentShell, b), Runtime(b)
               PROVE  Len(fg) >= 1 /\ fg[1] = b
    BY <1>1 DEF Bottom, Runtime
  <2>1. \A i \in 1..Len(toMain) : toMain[i].type = "reply" =>
           poll'[toMain[i].poll] = poll[toMain[i].poll]
    <3> TAKE i \in 1..Len(toMain)
    <3>1. PICK m \in Message : m = toMain[i]
      BY <1>5
    <3>2. m.type = "reply" => m.poll \in Polls
      BY <3>1 DEF Message
    <3>3. m.type = "reply" => m.poll # t0
      BY <1>9, <3>1 DEF Answers
    <3> QED BY <1>6, <3>1, <3>2, <3>3
  <2>2. ShellIs(toMain, poll, currentShell, b)
    <3>1. PICK pm : pm = poll'
      OBVIOUS
    <3> QED BY <1>5, <2>1, <3>1, ShellElsewhere
  <2> QED BY <2>2 DEF Bottom
<1> QED BY <1>7, <1>8, <1>10, <1>11, <1>12

LEMMA Closes ==
  ASSUME TermInv, CloseWindow
  PROVE  TermInv'
<1> USE DEF TermInv
<1>1. PICK c : c = [cmd |-> "kill", pid |-> currentShell]
  OBVIOUS
<1>2. /\ st' = st /\ sh' = sh /\ fg' = fg /\ terminalRaw' = terminalRaw /\ rawMode' = rawMode
      /\ toMain' = toMain /\ currentShell' = currentShell /\ poll' = poll
      /\ toKernel' = Append(toKernel, c)
  BY <1>1 DEF CloseWindow, procVars, kworkerVars, Call
<1>3. c \in Cmd /\ c.cmd = "kill" /\ toKernel \in Seq(Cmd)
  BY <1>1 DEF Cmd, TermType
<1>4. toKernel' \in Seq(Cmd)
  BY <1>2, <1>3
<1>5. TermType' /\ InOrder' /\ Named' /\ Stacked'
  BY <1>2, <1>4 DEF TermType, InOrder, Named, Stacked
<1>6. CookedAtShell' /\ StackLive' /\ Bottom' /\ ModeIs(toMain, rawMode, terminalRaw)'
  BY <1>2 DEF CookedAtShell, StackLive, Bottom, Foreground, Runtime
<1>7. Polled'
  BY <1>2, <1>3, AwaitedClose DEF Polled
<1> QED BY <1>5, <1>6, <1>7
----------------------------------------------------------------------------
LEMMA TermInitially == TermInit => TermInv
<1> SUFFICES ASSUME TermInit PROVE TermInv
  OBVIOUS
<1> USE TerminalAssumption DEF TermInit
<1>1. 1 \in Pid /\ Idle \in Poll /\ Idle.at = "idle"
  BY DEF Pid, Idle, Poll, Nobody
<1>2. \A p \in Pid : st[p] = IF p = 1 THEN "running" ELSE "none"
  OBVIOUS
<1>3. fg \in Seq(Pid) /\ Len(fg) = 1 /\ fg[1] = 1 /\ DOMAIN fg = {1} /\ 1..Len(fg) = {1}
  BY <1>1
<1>4. toKernel \in Seq(Cmd) /\ toMain \in Seq(Message) /\ 1..Len(toKernel) = {} /\ 1..Len(toMain) = {}
  OBVIOUS
<1>5. TermType
  <2>1. st \in [Pid -> Standing]
    BY DEF Standing
  <2>2. poll \in [Polls -> Poll]
    BY <1>1
  <2>3. sh \in SUBSET Pid
    BY <1>1
  <2> QED BY <1>1, <1>3, <1>4, <2>1, <2>2, <2>3 DEF TermType
<1>6. InOrder
  <2>1. \A p \in Pid : st[p] # "none" <=> p <= 1
    BY <1>2 DEF Pid
  <2> QED BY <2>1 DEF InOrder
<1>7. Named /\ Stacked /\ CookedAtShell /\ StackLive
  BY <1>1, <1>2, <1>3 DEF Named, Stacked, CookedAtShell, StackLive, Runtime
<1>8. Polled
  <2> SUFFICES ASSUME NEW t \in Polls PROVE Awaited(toKernel, toMain, poll[t], sh, t)
    BY DEF Polled
  <2>1. poll[t].at = "idle"
    BY <1>1
  <2>2. (\A i : ~Asks(toKernel, t, i)) /\ (\A i : ~Answers(toMain, t, i))
    BY <1>4 DEF Asks, Answers
  <2> QED BY <2>1, <2>2 DEF Awaited
<1>9. ModeIs(toMain, rawMode, terminalRaw)
  BY <1>4 DEF ModeIs
<1>10. Bottom
  BY <1>3, <1>4 DEF Bottom, ShellIs
<1> QED BY <1>5, <1>6, <1>7, <1>8, <1>9, <1>10 DEF TermInv

LEMMA TermSteps == TermInv /\ [TermNext]_termVars => TermInv'
<1> SUFFICES ASSUME TermInv, [TermNext]_termVars PROVE TermInv'
  OBVIOUS
<1>1. ASSUME NEW p \in Pid, RingExit(p) PROVE TermInv'
  BY <1>1, Quiet DEF RingExit
<1>2. ASSUME NEW p \in Pid, Return(p) PROVE TermInv'
  BY <1>2, Quiet DEF Return
<1>3. ASSUME NEW p \in Pid, ShellSpawn(p) PROVE TermInv'
  <2>1. PICK started \in BOOLEAN : Child(started)
    BY <1>3 DEF ShellSpawn
  <2> QED BY <1>3, <2>1, Started DEF ShellSpawn
<1>4. ASSUME NEW p \in Pid, NEW mode \in BOOLEAN, TtySetRaw(p, mode) PROVE TermInv'
  BY <1>4, Toggles
<1>5. CASE FilesLaunch
  <2>1. Child(TRUE) /\ PidsLeft > Spare
    BY <1>5 DEF FilesLaunch
  <2> QED BY <2>1, Started
<1>6. ASSUME NEW p \in Pid, Runtime(p), OnProcExit(p), UNCHANGED toKernel PROVE TermInv'
  <2>1. /\ toKernel' \in Seq(Cmd)
        /\ \A t \in Polls : Awaited(toKernel', toMain, poll[t], sh, t)
    BY <1>6 DEF TermInv, TermType, Polled
  <2> QED BY <1>6, <2>1, Ended
<1>7. ASSUME NEW p \in Pid, ExitMessage(p) PROVE TermInv'
  BY <1>6, <1>7 DEF ExitMessage, Runtime
<1>8. ASSUME NEW p \in Pid, Killed(p) PROVE TermInv'
  BY <1>6, <1>8 DEF Killed
<1>9. CASE KernelReceive
  BY <1>9, Receives
<1>10. CASE MainReceive
  <2>1. toMain[1] \in Message
    BY <1>10 DEF TermInv, TermType, MainReceive
  <2> QED BY <1>10, <2>1, ModeArrives, ReplyArrives DEF Message
<1>11. ASSUME NEW t \in Polls, WatchTick(t) PROVE TermInv'
  BY <1>11, Ticks
<1>12. CASE CloseWindow
  BY <1>12, Closes
<1>13. CASE UNCHANGED termVars
  <2>1. /\ st' = st /\ sh' = sh /\ fg' = fg /\ terminalRaw' = terminalRaw /\ rawMode' = rawMode
        /\ toKernel' = toKernel /\ toMain' = toMain /\ currentShell' = currentShell /\ poll' = poll
    BY <1>13 DEF termVars, procVars, kworkerVars, mainVars
  <2> QED BY <2>1 DEF TermInv, TermType, InOrder, Named, Stacked, Polled, CookedAtShell,
                      StackLive, Bottom, Foreground, Runtime
<1> QED BY <1>1, <1>2, <1>3, <1>4, <1>5, <1>7, <1>8, <1>9, <1>10, <1>11, <1>12, <1>13
        DEF TermNext, GuestStep

\* What the window will make of the messages on their way is what ModeFollows says.
LEMMA LastMode ==
  ASSUME TermType, ModeIs(toMain, rawMode, terminalRaw)
  PROVE  ModeFollows
<1> DEFINE modes == {i \in DOMAIN toMain : toMain[i].type = "termMode"}
<1>1. DOMAIN toMain = 1..Len(toMain) /\ Len(toMain) \in Nat
  BY DEF TermType
<1>2. CASE (\A j \in 1..Len(toMain) : toMain[j].type # "termMode") /\ rawMode = terminalRaw
  BY <1>1, <1>2 DEF ModeFollows
<1>3. CASE \E m \in 1..Len(toMain) :
             /\ toMain[m].type = "termMode" /\ toMain[m].raw = terminalRaw
             /\ \A j \in m + 1..Len(toMain) : toMain[j].type # "termMode"
  <2>1. PICK m \in 1..Len(toMain) :
             /\ toMain[m].type = "termMode" /\ toMain[m].raw = terminalRaw
             /\ \A j \in m + 1..Len(toMain) : toMain[j].type # "termMode"
    BY <1>3
  <2>2. m \in modes
    BY <1>1, <2>1
  <2>3. \A j \in modes : j <= m
    BY <1>1, <2>1
  <2>4. \A j \in modes : j \in Int
    BY <1>1
  <2> HIDE DEF modes
  <2>5. Max(modes) = m
    <3>1. \A y \in modes : m >= y
      BY <2>3, <2>4
    <3>2. Max(modes) \in modes /\ \A y \in modes : Max(modes) >= y
      BY <2>2, <3>1 DEF Max
    <3>3. PICK x : x = Max(modes)
      OBVIOUS
    <3>4. x \in Int /\ m \in Int /\ x >= m /\ m >= x
      BY <2>2, <2>4, <3>1, <3>2, <3>3
    <3> QED BY <3>3, <3>4
  <2>6. modes # {}
    BY <2>2
  <2>7. terminalRaw = IF modes = {} THEN rawMode ELSE toMain[Max(modes)].raw
    BY <2>1, <2>5, <2>6
  <2> QED BY <2>7 DEF ModeFollows, modes
<1> QED BY <1>2, <1>3 DEF ModeIs

LEMMA TermInvFollows == TermInv => TerminalFollows
<1> SUFFICES ASSUME TermInv PROVE TerminalFollows
  OBVIOUS
<1>1. ModeFollows
  BY LastMode DEF TermInv
<1>2. WatchesBound
  <2> SUFFICES ASSUME AtRest, st[currentShell] = "running"
               PROVE  fg # <<>> /\ fg[1] = currentShell
    BY DEF WatchesBound
  <2>1. 1..Len(toMain) = {}
    BY DEF AtRest
  <2>2. ShellIs(toMain, poll, currentShell, currentShell)
    BY <2>1 DEF ShellIs
  <2>3. Len(fg) >= 1 /\ fg[1] = currentShell
    BY <2>2 DEF TermInv, Bottom, Runtime, TermType
  <2>4. fg # <<>>
    BY <2>3
  <2> QED BY <2>3, <2>4
<1> QED BY <1>1, <1>2 DEF TermInv, TerminalFollows

\* However exits, their messages, jobs, new shells and the toggles of the mode come
\* (kernel-worker.ts: setTerminalRaw, onProcExit, handleSpawnRequest; terminal.ts:
\* attachTerminal, shellWatch): the window's discipline is the worker's once its
\* messages are in, the shell's prompt is never left raw, nobody torn down stays
\* on the stack, and at rest the keys go to the shell the window watches.
THEOREM KeysReach == TermSpec => []TerminalFollows
<1>1. TermInit => TermInv
  BY TermInitially
<1>2. TermInv /\ [TermNext]_termVars => TermInv'
  BY TermSteps
<1>3. TermInv => TerminalFollows
  BY TermInvFollows
<1> QED BY <1>1, <1>2, <1>3, PTL DEF TermSpec

(***************************************************************************)
(* The line editor.                                                        *)
(***************************************************************************)
Chars == (UNION Keyboards) \cup Printable \cup {Line!Blank}
Text  == Seq(Chars)
EditorOf == [line: Text, cursor: Nat, history: Seq(Text), hidx: Nat, draft: Text, pending: Text]

\* An editor as it is between two characters: its cursor is in the line, and the
\* line of the history that is shown is that one.
Sound(e) == /\ e \in EditorOf
            /\ e.cursor <= Len(e.line) /\ e.hidx <= Len(e.history)
            /\ e.hidx > 0 => e.line = e.history[e.hidx]

LEMMA WithoutType ==
  ASSUME NEW S, NEW s \in Seq(S), NEW i \in 0..Len(s), NEW j \in i..Len(s)
  PROVE  Line!Without(s, i, j) \in Seq(S) /\ Len(Line!Without(s, i, j)) = Len(s) - (j - i)
<1>1. Len(s) \in Nat
  BY LenProperties
<1> DEFINE a == SubSeq(s, 1, i)
           b == SubSeq(s, j + 1, Len(s))
<1>2. a \in Seq(S) /\ Len(a) = i /\ b \in Seq(S) /\ Len(b) = Len(s) - j
  BY CutOut
<1>3. Line!Without(s, i, j) = a \o b
  BY DEF Line!Without
<1> HIDE DEF a, b
<1>4. a \o b \in Seq(S) /\ Len(a \o b) = Len(a) + Len(b)
  BY <1>2, ConcatProperties
<1>5. Len(a) + Len(b) = Len(s) - (j - i)
  BY <1>1, <1>2
<1> QED
  BY <1>3, <1>4, <1>5

LEMMA EmptySound ==
  ASSUME NEW h \in Seq(Text)
  PROVE  Sound(Line!Empty(h)) /\ Line!Empty(h).pending = <<>>
<1>1. <<>> \in Text /\ Len(<<>>) = 0 /\ Len(h) \in Nat
  BY EmptySeq, LenProperties DEF Text
<1> QED
  BY <1>1 DEF Sound, EditorOf, Line!Empty

LEMMA RedrawIs ==
  ASSUME NEW e \in EditorOf, NEW line \in Text, NEW c \in Nat
  PROVE  LET f == Line!Redraw(e, line, c)
         IN  /\ f \in EditorOf /\ f.line = line /\ f.cursor = c
             /\ f.history = e.history /\ f.hidx = e.hidx
             /\ f.draft = e.draft /\ f.pending = e.pending
BY DEF EditorOf, Line!Redraw

LEMMA LeaveIs ==
  ASSUME NEW e \in EditorOf
  PROVE  /\ Line!LeaveHistory(e) \in EditorOf
         /\ Line!LeaveHistory(e).history = e.history /\ Line!LeaveHistory(e).hidx = 0
         /\ Line!LeaveHistory(e).pending = e.pending
<1>1. <<>> \in Text
  BY EmptySeq DEF Text
<1>2. CASE e.hidx = 0
  BY <1>2 DEF Line!LeaveHistory
<1>3. CASE e.hidx # 0
  BY <1>1, <1>3 DEF Line!LeaveHistory, EditorOf
<1> QED
  BY <1>2, <1>3

LEMMA LeaveSound ==
  ASSUME NEW e, Sound(e), NEW line \in Text, NEW c \in 0..Len(line)
  PROVE  LET f == Line!Redraw(Line!LeaveHistory(e), line, c)
         IN  /\ Sound(f) /\ f.pending = e.pending /\ f.hidx = 0 /\ f.history = e.history
             /\ f.line = line /\ f.cursor = c
<1>1. e \in EditorOf /\ Len(line) \in Nat
  BY LenProperties DEF Text, Sound
<1>2. Len(e.history) \in Nat
  BY <1>1, LenProperties DEF EditorOf
<1> DEFINE d == Line!LeaveHistory(e)
<1>3. d \in EditorOf /\ d.history = e.history /\ d.hidx = 0 /\ d.pending = e.pending
  BY <1>1, LeaveIs
<1> HIDE DEF d
<1> DEFINE f == Line!Redraw(d, line, c)
<1>4. /\ f \in EditorOf /\ f.line = line /\ f.cursor = c /\ f.history = d.history
      /\ f.hidx = d.hidx /\ f.pending = d.pending
  BY <1>1, <1>3, RedrawIs
<1> HIDE DEF f
<1>5. Sound(f)
  BY <1>1, <1>2, <1>3, <1>4 DEF Sound
<1> QED
  BY <1>3, <1>4, <1>5 DEF d, f

LEMMA MoveSound ==
  ASSUME NEW e, Sound(e), NEW c \in 0..Len(e.line)
  PROVE  Sound(Line!Redraw(e, e.line, c)) /\ Line!Redraw(e, e.line, c).pending = e.pending
<1>1. e \in EditorOf /\ c \in Nat
  BY LenProperties DEF Sound, EditorOf, Text
<1> DEFINE f == Line!Redraw(e, e.line, c)
<1>2. /\ f \in EditorOf /\ f.line = e.line /\ f.cursor = c /\ f.history = e.history
      /\ f.hidx = e.hidx /\ f.pending = e.pending
  <2>1. e.line \in Text
    BY <1>1 DEF EditorOf
  <2> QED
    BY <1>1, <2>1, RedrawIs
<1> HIDE DEF f
<1>3. Sound(f)
  BY <1>2 DEF Sound
<1> QED
  BY <1>2, <1>3 DEF f

LEMMA InsertSound ==
  ASSUME NEW e, Sound(e), NEW text \in Text
  PROVE  Sound(Line!InsertText(e, text)) /\ Line!InsertText(e, text).pending = e.pending
<1>1. e.line \in Seq(Chars) /\ e.cursor \in 0..Len(e.line) /\ Len(e.line) \in Nat /\ Len(text) \in Nat
  BY LenProperties DEF Sound, EditorOf, Text
<1> DEFINE a == SubSeq(e.line, 1, e.cursor)
           b == SubSeq(e.line, e.cursor + 1, Len(e.line))
<1>2. a \in Seq(Chars) /\ Len(a) = e.cursor /\ b \in Seq(Chars) /\ Len(b) = Len(e.line) - e.cursor
  BY <1>1, CutOut
<1> HIDE DEF a, b
<1> text \in Seq(Chars)
  BY DEF Text
<1>3. a \o text \o b \in Text /\ Len(a \o text \o b) = Len(e.line) + Len(text)
  <2>1. a \o text \in Seq(Chars) /\ Len(a \o text) = Len(a) + Len(text)
    BY <1>2, ConcatProperties
  <2> DEFINE d == a \o text
  <2> HIDE DEF d
  <2>2. d \in Seq(Chars) /\ Len(d) = Len(a) + Len(text)
    BY <2>1 DEF d
  <2>3. d \o b \in Seq(Chars) /\ Len(d \o b) = Len(d) + Len(b)
    BY <1>2, <2>2, ConcatProperties
  <2>4. Len(d) + Len(b) = Len(e.line) + Len(text)
    <3>1. \A p, q, r \in Int : (q + r) + (p - q) = p + r
      OBVIOUS
    <3>2. Len(d) + Len(b) = (e.cursor + Len(text)) + (Len(e.line) - e.cursor)
      BY <1>2, <2>2
    <3>3. Len(e.line) \in Int /\ e.cursor \in Int /\ Len(text) \in Int
      BY <1>1
    <3> QED
      BY <3>1, <3>2, <3>3
  <2> QED
    BY <2>3, <2>4 DEF Text, d
<1>4. e.cursor + Len(text) \in 0..Len(a \o text \o b)
  BY <1>1, <1>3
<1> QED
  BY <1>3, <1>4, LeaveSound DEF Line!InsertText, a, b

LEMMA DeletePreviousSound ==
  ASSUME NEW e, Sound(e)
  PROVE  Sound(Line!DeletePrevious(e)) /\ Line!DeletePrevious(e).pending = e.pending
<1>1. e.line \in Seq(Chars) /\ e.cursor \in 0..Len(e.line) /\ Len(e.line) \in Nat
  BY LenProperties DEF Sound, EditorOf, Text
<1>2. CASE e.cursor = 0
  BY <1>2 DEF Line!DeletePrevious
<1>3. CASE e.cursor # 0
  <2>1. /\ Line!Without(e.line, e.cursor - 1, e.cursor) \in Seq(Chars)
        /\ Len(Line!Without(e.line, e.cursor - 1, e.cursor)) = Len(e.line) - 1
    <3>1. e.cursor - 1 \in 0..Len(e.line) /\ e.cursor \in (e.cursor - 1)..Len(e.line)
      BY <1>1, <1>3
    <3>2. e.cursor - (e.cursor - 1) = 1
      BY <1>1
    <3> QED
      BY <1>1, <3>1, <3>2, WithoutType
  <2>2. e.cursor - 1 \in 0..Len(Line!Without(e.line, e.cursor - 1, e.cursor))
    BY <1>1, <1>3, <2>1
  <2> QED
    BY <1>3, <2>1, <2>2, LeaveSound DEF Line!DeletePrevious, Text
<1> QED
  BY <1>2, <1>3

LEMMA DeleteAtCursorSound ==
  ASSUME NEW e, Sound(e)
  PROVE  Sound(Line!DeleteAtCursor(e)) /\ Line!DeleteAtCursor(e).pending = e.pending
<1>1. e.line \in Seq(Chars) /\ e.cursor \in 0..Len(e.line) /\ Len(e.line) \in Nat
  BY LenProperties DEF Sound, EditorOf, Text
<1>2. CASE e.cursor >= Len(e.line)
  BY <1>2 DEF Line!DeleteAtCursor
<1>3. CASE ~(e.cursor >= Len(e.line))
  <2>1. /\ Line!Without(e.line, e.cursor, e.cursor + 1) \in Seq(Chars)
        /\ Len(Line!Without(e.line, e.cursor, e.cursor + 1)) = Len(e.line) - 1
    <3>1. e.cursor \in 0..Len(e.line) /\ e.cursor + 1 \in e.cursor..Len(e.line)
      BY <1>1, <1>3
    <3>2. (e.cursor + 1) - e.cursor = 1
      BY <1>1
    <3> QED
      BY <1>1, <3>1, <3>2, WithoutType
  <2>2. e.cursor \in 0..Len(Line!Without(e.line, e.cursor, e.cursor + 1))
    BY <1>1, <1>3, <2>1
  <2> QED
    BY <1>3, <2>1, <2>2, LeaveSound DEF Line!DeleteAtCursor, Text
<1> QED
  BY <1>2, <1>3

LEMMA LineMax ==
  ASSUME NEW b \in Nat, NEW S \in SUBSET (0..b), S # {}
  PROVE  Line!Max(S) \in S /\ \A n \in S : n <= Line!Max(S)
<1>1. \E x \in S : \A y \in S : x >= y
  <2>1. PICK x \in S : \A y \in S : y <= x
    BY GreatestOf
  <2>2. \A y \in S : x >= y
    BY <2>1
  <2> QED
    BY <2>2
<1>2. Line!Max(S) \in S /\ \A y \in S : Line!Max(S) >= y
  BY <1>1 DEF Line!Max
<1> QED
  BY <1>2

LEMMA WordStartIn ==
  ASSUME NEW e, Sound(e)
  PROVE  Line!WordStart(e) \in 0..e.cursor
<1>1. e.cursor \in Nat
  BY DEF Sound, EditorOf
<1> DEFINE blank(i) == e.line[i] = Line!Blank
           A == {0} \cup {i \in 1..e.cursor : ~blank(i)}
           word == Line!Max(A)
           B == {0} \cup {i \in 1..word : blank(i)}
<1>2. word \in 0..e.cursor
  <2>1. A \in SUBSET (0..e.cursor) /\ A # {}
    BY <1>1
  <2> HIDE DEF A
  <2> QED
    BY <1>1, <2>1, LineMax
<1> HIDE DEF A, word
<1>3. Line!Max(B) \in 0..e.cursor
  <2>1. B \in SUBSET (0..e.cursor) /\ B # {}
    BY <1>1, <1>2
  <2> HIDE DEF B
  <2> QED
    BY <1>1, <2>1, LineMax
<1> QED
  BY <1>3 DEF Line!WordStart, A, word

LEMMA DeleteWordSound ==
  ASSUME NEW e, Sound(e)
  PROVE  Sound(Line!DeleteWord(e)) /\ Line!DeleteWord(e).pending = e.pending
<1>1. e.line \in Seq(Chars) /\ e.cursor \in 0..Len(e.line) /\ Len(e.line) \in Nat
  BY LenProperties DEF Sound, EditorOf, Text
<1> DEFINE w == Line!WordStart(e)
<1>2. w \in 0..e.cursor
  BY WordStartIn
<1> HIDE DEF w
<1>3. /\ Line!Without(e.line, w, e.cursor) \in Seq(Chars)
      /\ Len(Line!Without(e.line, w, e.cursor)) = Len(e.line) - (e.cursor - w)
  <2>1. w \in 0..Len(e.line) /\ e.cursor \in w..Len(e.line)
    BY <1>1, <1>2
  <2> QED
    BY <1>1, <2>1, WithoutType
<1>4. w \in 0..Len(Line!Without(e.line, w, e.cursor))
  BY <1>1, <1>2, <1>3
<1> QED
  BY <1>3, <1>4, LeaveSound DEF Line!DeleteWord, Text, w

LEMMA RecallSound ==
  ASSUME NEW e \in EditorOf, NEW i \in 1..Len(e.history)
  PROVE  LET f == Line!Recall(e, i)
         IN  /\ Sound(f) /\ f.pending = e.pending /\ f.history = e.history
             /\ f.hidx = i /\ f.draft = e.draft /\ f.line = e.history[i]
<1>1. e.history \in Seq(Text) /\ Len(e.history) \in Nat
  BY LenProperties DEF EditorOf
<1> DEFINE shown == e.history[i]
<1>2. shown \in Text
  BY <1>1, ElementOfSeq
<1>3. Len(shown) \in Nat
  BY <1>2, LenProperties DEF Text
<1> DEFINE d == Line!Redraw(e, shown, Len(shown))
           f == Line!Recall(e, i)
<1>4. f = [d EXCEPT !.hidx = i]
  BY DEF Line!Recall
<1> HIDE DEF shown
<1>5. /\ d \in EditorOf /\ d.line = shown /\ d.cursor = Len(shown)
      /\ d.history = e.history /\ d.draft = e.draft /\ d.pending = e.pending
  BY <1>2, <1>3, RedrawIs
<1> HIDE DEF d, f
<1>6. /\ f \in EditorOf /\ f.line = shown /\ f.cursor = Len(shown) /\ f.hidx = i
      /\ f.history = e.history /\ f.draft = e.draft /\ f.pending = e.pending
  BY <1>1, <1>4, <1>5 DEF EditorOf
<1>7. Sound(f)
  <2>1. f.line = f.history[f.hidx]
    BY <1>6 DEF shown
  <2> QED
    BY <1>1, <1>3, <1>6, <2>1 DEF Sound
<1> QED
  BY <1>6, <1>7 DEF shown, f

LEMMA LineMinMax ==
  ASSUME NEW a \in Nat, NEW b \in Nat
  PROVE  /\ Line!Max({a, b}) = IF a >= b THEN a ELSE b
         /\ Line!Min({a, b}) = IF a <= b THEN a ELSE b
<1>1. \E x \in {a, b} : \A y \in {a, b} : x >= y
  OBVIOUS
<1>2. \E x \in {a, b} : \A y \in {a, b} : x <= y
  OBVIOUS
<1>3. Line!Max({a, b}) \in {a, b} /\ \A y \in {a, b} : Line!Max({a, b}) >= y
  BY <1>1 DEF Line!Max
<1>4. Line!Min({a, b}) \in {a, b} /\ \A y \in {a, b} : Line!Min({a, b}) <= y
  BY <1>2 DEF Line!Min
<1> QED
  BY <1>3, <1>4

LEMMA HistoryUpSound ==
  ASSUME NEW e, Sound(e)
  PROVE  /\ Sound(Line!HistoryUp(e)) /\ Line!HistoryUp(e).pending = e.pending
         /\ Line!HistoryUp(e).history = e.history
         /\ e.history # <<>> =>
              /\ Line!HistoryUp(e).hidx = IF e.hidx = 0 THEN Len(e.history)
                                          ELSE IF e.hidx = 1 THEN 1 ELSE e.hidx - 1
              /\ Line!HistoryUp(e).draft = IF e.hidx = 0 THEN e.line ELSE e.draft
<1>1. e \in EditorOf /\ e.hidx \in 0..Len(e.history) /\ Len(e.history) \in Nat
  BY LenProperties DEF Sound, EditorOf
<1>2. CASE e.history = <<>>
  BY <1>2 DEF Line!HistoryUp
<1>3. CASE e.history # <<>>
  <2>1. Len(e.history) > 0
    BY <1>1, <1>3, EmptySeq DEF EditorOf
  <2>2. CASE e.hidx = 0
    <3> DEFINE d == [e EXCEPT !.draft = e.line]
    <3>1. d \in EditorOf /\ d.history = e.history /\ d.draft = e.line /\ d.pending = e.pending
      BY <1>1 DEF EditorOf
    <3> HIDE DEF d
    <3>2. Len(e.history) \in 1..Len(d.history)
      BY <1>1, <2>1, <3>1
    <3> QED
      BY <1>3, <2>2, <3>1, <3>2, RecallSound DEF Line!HistoryUp, d
  <2>3. CASE e.hidx # 0
    <3>1. Line!Max({1, e.hidx - 1}) = (IF e.hidx = 1 THEN 1 ELSE e.hidx - 1)
      BY <1>1, <2>3, LineMinMax
    <3>2. Line!Max({1, e.hidx - 1}) \in 1..Len(e.history)
      BY <1>1, <2>1, <2>3, <3>1
    <3> QED
      BY <1>1, <1>3, <2>3, <3>1, <3>2, RecallSound DEF Line!HistoryUp
  <2> QED
    BY <2>2, <2>3
<1> QED
  BY <1>2, <1>3

LEMMA HistoryDownSound ==
  ASSUME NEW e, Sound(e)
  PROVE  /\ Sound(Line!HistoryDown(e)) /\ Line!HistoryDown(e).pending = e.pending
         /\ Line!HistoryDown(e).history = e.history
         /\ e.hidx # 0 /\ e.hidx < Len(e.history) =>
              Line!HistoryDown(e).hidx = e.hidx + 1 /\ Line!HistoryDown(e).draft = e.draft
         /\ e.hidx # 0 /\ e.hidx = Len(e.history) =>
              Line!HistoryDown(e).hidx = 0 /\ Line!HistoryDown(e).line = e.draft
<1>1. e \in EditorOf /\ e.hidx \in 0..Len(e.history) /\ Len(e.history) \in Nat
  BY LenProperties DEF Sound, EditorOf
<1>2. CASE e.hidx = 0
  BY <1>2 DEF Line!HistoryDown
<1>3. CASE e.hidx # 0 /\ e.hidx < Len(e.history)
  <2>1. e.hidx + 1 \in 1..Len(e.history)
    BY <1>1, <1>3
  <2> QED
    BY <1>1, <1>3, <2>1, RecallSound DEF Line!HistoryDown
<1>4. CASE e.hidx # 0 /\ e.hidx = Len(e.history)
  <2> DEFINE d == Line!Redraw(e, e.draft, Len(e.draft))
             f == Line!HistoryDown(e)
  <2>1. f = [d EXCEPT !.hidx = 0, !.draft = <<>>]
    BY <1>1, <1>4 DEF Line!HistoryDown
  <2>2. <<>> \in Text /\ e.draft \in Text /\ Len(e.draft) \in Nat
    BY <1>1, EmptySeq, LenProperties DEF EditorOf, Text
  <2>3. /\ d \in EditorOf /\ d.line = e.draft /\ d.cursor = Len(e.draft)
        /\ d.history = e.history /\ d.pending = e.pending
    BY <1>1, <2>2, RedrawIs
  <2> HIDE DEF d, f
  <2>4. /\ f \in EditorOf /\ f.line = e.draft /\ f.cursor = Len(e.draft) /\ f.hidx = 0
        /\ f.history = e.history /\ f.pending = e.pending
    BY <2>1, <2>2, <2>3 DEF EditorOf
  <2>5. Sound(f)
    BY <1>1, <2>2, <2>4 DEF Sound
  <2> QED
    BY <1>4, <2>4, <2>5 DEF f
<1> QED
  BY <1>1, <1>2, <1>3, <1>4

LEMMA SubmitSound ==
  ASSUME NEW e, Sound(e)
  PROVE  Sound(Line!SubmitLine(e)) /\ Line!SubmitLine(e).pending = <<>>
<1> DEFINE h == IF e.line = <<>> \/ (e.history # <<>> /\ Line!Last(e.history) = e.line)
                THEN e.history ELSE Append(e.history, e.line)
<1>1. e.history \in Seq(Text) /\ e.line \in Text
  BY DEF Sound, EditorOf
<1>2. h \in Seq(Text)
  BY <1>1, AppendProperties
<1> HIDE DEF h
<1> QED
  BY <1>2, EmptySound DEF Line!SubmitLine, h

LEMMA ClearSound ==
  ASSUME NEW e, Sound(e)
  PROVE  Sound(Line!ClearLine(e)) /\ Line!ClearLine(e).pending = e.pending
<1> DEFINE d == [e EXCEPT !.hidx = 0, !.draft = <<>>]
           f == Line!Redraw(d, <<>>, 0)
<1>1. e \in EditorOf /\ Len(e.history) \in Nat
  BY LenProperties DEF Sound, EditorOf
<1>2. <<>> \in Text /\ Len(<<>>) = 0
  BY EmptySeq DEF Text
<1>3. d \in EditorOf /\ d.history = e.history /\ d.hidx = 0 /\ d.pending = e.pending
  BY <1>1, <1>2 DEF EditorOf
<1> HIDE DEF d
<1>4. /\ f \in EditorOf /\ f.line = <<>> /\ f.cursor = 0 /\ f.history = d.history
      /\ f.hidx = d.hidx /\ f.pending = d.pending
  BY <1>2, <1>3, RedrawIs
<1> HIDE DEF f
<1>5. Sound(f)
  BY <1>1, <1>2, <1>3, <1>4 DEF Sound
<1> QED
  BY <1>3, <1>4, <1>5 DEF Line!ClearLine, d, f

LEMMA CursorMoves ==
  ASSUME NEW e, Sound(e)
  PROVE  /\ Sound(Line!Home(e)) /\ Line!Home(e).pending = e.pending
         /\ Sound(Line!End(e)) /\ Line!End(e).pending = e.pending
         /\ Sound(Line!Right(e)) /\ Line!Right(e).pending = e.pending
         /\ Sound(Line!Left(e)) /\ Line!Left(e).pending = e.pending
<1>1. e.cursor \in 0..Len(e.line) /\ Len(e.line) \in Nat
  BY LenProperties DEF Sound, EditorOf, Text
<1>2. 0 \in 0..Len(e.line) /\ Len(e.line) \in 0..Len(e.line)
  BY <1>1
<1>3. Line!Min({e.cursor + 1, Len(e.line)}) \in 0..Len(e.line)
  <2>1. e.cursor + 1 \in Nat
    BY <1>1
  <2>2. Line!Min({e.cursor + 1, Len(e.line)}) =
          IF e.cursor + 1 <= Len(e.line) THEN e.cursor + 1 ELSE Len(e.line)
    BY <1>1, <2>1, LineMinMax
  <2> QED
    BY <1>1, <2>2
<1>4. Line!Max({e.cursor, 1}) - 1 \in 0..Len(e.line)
  BY <1>1, LineMinMax
<1> QED
  BY <1>2, <1>3, <1>4, MoveSound DEF Line!Home, Line!End, Line!Right, Line!Left

LEMMA SequenceSound ==
  ASSUME NEW e, Sound(e), NEW s
  PROVE  Sound(Line!EscapeSequence(e, s)) /\ Line!EscapeSequence(e, s).pending = e.pending
BY CursorMoves, HistoryUpSound, HistoryDownSound, DeleteAtCursorSound DEF Line!EscapeSequence

LEMMA ControlSound ==
  ASSUME NEW e, Sound(e), e.pending = <<>>, NEW ch
  PROVE  Sound(Line!Control(e, ch)) /\ Line!Control(e, ch).pending = <<>>
<1>1. Line!Blank \in Chars /\ Printable \subseteq Chars
  BY DEF Chars
<1>2. <<Line!Blank, Line!Blank, Line!Blank, Line!Blank>> \in Text
  BY <1>1 DEF Text
<1>3. ch \in Printable => <<ch>> \in Text
  BY <1>1 DEF Text
<1> QED
  BY <1>2, <1>3, CursorMoves, SubmitSound, ClearSound, DeletePreviousSound, DeleteAtCursorSound,
     DeleteWordSound, InsertSound DEF Line!Control

(***************************************************************************)
(* One turn of the loop.                                                   *)
(***************************************************************************)
Out == Seq(Seq(Chars \cup {"LF"}))
Ready(e) == Sound(e) /\ e.pending = <<>>
\* The turns of the loop that can be reached: a sequence is left open at the end only.
TurnOf == {k \in [ed: EditorOf, lines: Out, rest: Text] :
             Sound(k.ed) /\ (k.ed.pending = <<>> \/ k.rest = <<>>)}

LEMMA SendsType ==
  ASSUME NEW e, Sound(e), NEW ch
  PROVE  Line!Sends(e, ch) \in Out
<1>1. e.line \in Seq(Chars \cup {"LF"})
  BY DEF Sound, EditorOf, Text
<1>2. Append(e.line, "LF") \in Seq(Chars \cup {"LF"}) /\ <<"LF">> \in Seq(Chars \cup {"LF"})
  BY <1>1, AppendProperties
<1>3. <<>> \in Out /\ <<<<"LF">>>> \in Out /\ <<Append(e.line, "LF")>> \in Out
  BY <1>2 DEF Out
<1> QED
  BY <1>3 DEF Line!Sends

Ends(cs) == {i \in 3..Len(cs) : cs[i] \in Line!Final}
Kept(e, cs) == [ed |-> [e EXCEPT !.pending = cs], lines |-> <<>>, rest |-> <<>>]
Waits(cs) == Head(cs) = "ESC" /\ (Len(cs) = 1 \/ (cs[2] \in {"[", "O"} /\ Ends(cs) = {}))
Takes(cs) == IF Head(cs) # "ESC" THEN 1 ELSE IF cs[2] \notin {"[", "O"} THEN 2 ELSE Line!Min(Ends(cs))
MadeOf(e, cs) == IF Head(cs) # "ESC" THEN Line!Control(e, Head(cs))
                ELSE IF cs[2] \notin {"[", "O"} THEN e
                ELSE Line!EscapeSequence(e, SubSeq(cs, 1, Line!Min(Ends(cs))))

LEMMA LeastEnd ==
  ASSUME NEW cs \in Text, Ends(cs) # {}
  PROVE  Line!Min(Ends(cs)) \in Ends(cs) /\ \A n \in Ends(cs) : Line!Min(Ends(cs)) <= n
<1>1. Ends(cs) \in SUBSET Nat
  BY DEF Ends
<1>2. \E x \in Ends(cs) : \A y \in Ends(cs) : x <= y
  BY <1>1, LeastOf
<1> QED
  BY <1>2 DEF Line!Min

\* A turn waits for the rest of a sequence, or it takes one or more characters.
LEMMA OneKeyIs ==
  ASSUME NEW e, NEW cs \in Text, cs # <<>>
  PROVE  /\ Waits(cs) => Line!OneKey(e, cs) = Kept(e, cs)
         /\ ~Waits(cs) =>
              /\ Takes(cs) \in 1..Len(cs)
              /\ Line!OneKey(e, cs) =
                   [ed |-> MadeOf(e, cs),
                    lines |-> IF Head(cs) # "ESC" THEN Line!Sends(e, Head(cs)) ELSE <<>>,
                    rest |-> SubSeq(cs, Takes(cs) + 1, Len(cs))]
<1>1. Len(cs) \in Nat /\ Len(cs) > 0
  BY LenProperties, EmptySeq DEF Text
<1>2. CASE Head(cs) # "ESC"
  BY <1>1, <1>2 DEF Waits, Takes, MadeOf, Line!OneKey
<1>3. CASE Head(cs) = "ESC" /\ Len(cs) = 1
  BY <1>3 DEF Waits, Kept, Line!OneKey
<1>4. CASE Head(cs) = "ESC" /\ Len(cs) # 1 /\ cs[2] \notin {"[", "O"}
  <2>1. ~Waits(cs) /\ Takes(cs) = 2
    BY <1>4 DEF Waits, Takes
  <2>2. Line!OneKey(e, cs) = [ed |-> e, lines |-> <<>>, rest |-> SubSeq(cs, 2 + 1, Len(cs))]
    BY <1>4 DEF Line!OneKey
  <2>3. MadeOf(e, cs) = e
    BY <1>4 DEF MadeOf
  <2>4. 2 \in 1..Len(cs)
    BY <1>1, <1>4
  <2>5. (IF Head(cs) # "ESC" THEN Line!Sends(e, Head(cs)) ELSE <<>>) = <<>>
    BY <1>4
  <2> QED
    BY <2>1, <2>2, <2>3, <2>4, <2>5
<1>5. CASE Head(cs) = "ESC" /\ Len(cs) # 1 /\ cs[2] \in {"[", "O"} /\ Ends(cs) = {}
  BY <1>5 DEF Waits, Kept, Line!OneKey, Ends
<1>6. CASE Head(cs) = "ESC" /\ Len(cs) # 1 /\ cs[2] \in {"[", "O"} /\ Ends(cs) # {}
  <2>1. Line!Min(Ends(cs)) \in 1..Len(cs)
    BY <1>1, <1>6, LeastEnd DEF Ends
  <2>2. ~Waits(cs) /\ Takes(cs) = Line!Min(Ends(cs))
    BY <1>6 DEF Waits, Takes
  <2>3. Line!OneKey(e, cs) =
          [ed |-> MadeOf(e, cs), lines |-> <<>>, rest |-> SubSeq(cs, Takes(cs) + 1, Len(cs))]
    BY <1>6, <2>2 DEF MadeOf, Line!OneKey, Ends
  <2> QED
    BY <1>6, <2>1, <2>2, <2>3
<1> QED
  BY <1>2, <1>3, <1>4, <1>5, <1>6

LEMMA MakesReady ==
  ASSUME NEW e, Ready(e), NEW cs
  PROVE  Ready(MadeOf(e, cs))
BY ControlSound, SequenceSound DEF Ready, MadeOf

LEMMA OneKeyType ==
  ASSUME NEW e, Ready(e), NEW cs \in Text, cs # <<>>
  PROVE  /\ Line!OneKey(e, cs) \in TurnOf
         /\ Len(Line!OneKey(e, cs).rest) < Len(cs)
<1>1. Len(cs) \in Nat /\ Len(cs) > 0 /\ <<>> \in Text /\ Len(<<>>) = 0 /\ <<>> \in Out
  BY LenProperties, EmptySeq DEF Text, Out
<1>2. CASE Waits(cs)
  <2> DEFINE d == [e EXCEPT !.pending = cs]
  <2>1. e \in EditorOf
    BY DEF Ready, Sound
  <2>2. /\ d \in EditorOf /\ d.line = e.line /\ d.cursor = e.cursor /\ d.history = e.history
        /\ d.hidx = e.hidx
    BY <2>1 DEF EditorOf
  <2>3. Line!OneKey(e, cs) = [ed |-> d, lines |-> <<>>, rest |-> <<>>]
    BY <1>2, OneKeyIs DEF Kept
  <2> HIDE DEF d
  <2>4. Sound(d)
    BY <2>2 DEF Sound, Ready
  <2> QED
    BY <1>1, <2>2, <2>3, <2>4 DEF TurnOf
<1>3. CASE ~Waits(cs)
  <2> DEFINE f == MadeOf(e, cs)
             l == IF Head(cs) # "ESC" THEN Line!Sends(e, Head(cs)) ELSE <<>>
             n == Takes(cs)
             r == SubSeq(cs, n + 1, Len(cs))
  <2>1. Line!OneKey(e, cs) = [ed |-> f, lines |-> l, rest |-> r] /\ n \in 1..Len(cs)
    BY <1>3, OneKeyIs
  <2>2. f \in EditorOf /\ Sound(f) /\ f.pending = <<>>
    BY MakesReady DEF Ready, Sound
  <2>3. l \in Out
    BY <1>1, SendsType DEF Ready
  <2>4. r \in Text /\ Len(r) < Len(cs)
    <3> HIDE DEF n
    <3>1. n \in n..Len(cs) /\ n \in 0..Len(cs)
      BY <2>1, <1>1
    <3>2. r \in Seq(Chars) /\ Len(r) = Len(cs) - n
      BY <3>1, CutOut DEF Text
    <3> QED
      BY <1>1, <2>1, <3>2 DEF Text
  <2> HIDE DEF f, l, n, r
  <2> QED
    BY <2>1, <2>2, <2>3, <2>4 DEF TurnOf
<1> QED
  BY <1>2, <1>3

(***************************************************************************)
(* The loop: Turn applied until no character is left.                      *)
(***************************************************************************)
LEMMA TurnType ==
  ASSUME NEW k \in TurnOf
  PROVE  /\ Line!Turn(k) \in TurnOf
         /\ k.rest = <<>> => Line!Turn(k) = k
         /\ k.rest # <<>> => Len(Line!Turn(k).rest) < Len(k.rest)
<1>1. CASE k.rest = <<>>
  BY <1>1 DEF Line!Turn
<1>2. CASE k.rest # <<>>
  <2> DEFINE o == Line!OneKey(k.ed, k.rest)
  <2>1. Ready(k.ed) /\ k.rest \in Text /\ k.lines \in Out
    BY <1>2 DEF TurnOf, Ready
  <2>2. o \in TurnOf /\ Len(o.rest) < Len(k.rest)
    BY <1>2, <2>1, OneKeyType
  <2>3. Line!Turn(k) = [ed |-> o.ed, lines |-> k.lines \o o.lines, rest |-> o.rest]
    BY <1>2 DEF Line!Turn
  <2> HIDE DEF o
  <2>4. k.lines \o o.lines \in Out
    BY <2>1, <2>2, ConcatProperties DEF TurnOf, Out
  <2> QED
    BY <1>2, <2>2, <2>3, <2>4 DEF TurnOf
<1> QED
  BY <1>1, <1>2

LEMMA TurnsAre ==
  ASSUME NEW k \in TurnOf
  PROVE  /\ Line!Turns(k) \in [Nat -> TurnOf]
         /\ Line!Turns(k)[0] = k
         /\ \A n \in Nat : Line!Turns(k)[n + 1] = Line!Turn(Line!Turns(k)[n])
<1> DEFINE F == [j \in TurnOf |-> Line!Turn(j)]
<1>1. F \in [TurnOf -> TurnOf]
  BY TurnType
<1>2. PICK g \in [Nat -> TurnOf] : g = [n \in Nat |-> IF n = 0 THEN k ELSE F[g[n - 1]]]
  <2> HIDE DEF F
  <2> QED
    BY <1>1, Iterates
<1>3. ASSUME NEW n \in Nat, n # 0 PROVE F[g[n - 1]] = Line!Turn(g[n - 1])
  <2>1. n - 1 \in Nat
    BY <1>3
  <2>2. g[n - 1] \in TurnOf
    BY <1>2, <2>1
  <2> QED
    BY <2>2
<1>4. g = [n \in Nat |-> IF n = 0 THEN k ELSE Line!Turn(g[n - 1])]
  <2>1. \A n \in Nat : g[n] = IF n = 0 THEN k ELSE Line!Turn(g[n - 1])
    BY <1>2, <1>3
  <2> QED
    BY <1>2, <2>1
<1>5. Line!Turns(k) = [n \in Nat |-> IF n = 0 THEN k ELSE Line!Turn(Line!Turns(k)[n - 1])]
  BY <1>4 DEF Line!Turns
<1> DEFINE t == Line!Turns(k)
<1> HIDE DEF t
<1>6. t = [n \in Nat |-> IF n = 0 THEN k ELSE Line!Turn(t[n - 1])]
  BY <1>5 DEF t
<1>7. t[0] = k /\ \A n \in Nat : t[n + 1] = Line!Turn(t[n])
  <2>1. ASSUME NEW n \in Nat PROVE t[n + 1] = Line!Turn(t[n])
    <3>1. n + 1 \in Nat /\ n + 1 # 0 /\ (n + 1) - 1 = n
      OBVIOUS
    <3> QED
      BY <1>6, <3>1
  <2> QED
    BY <1>6, <2>1
<1>8. \A n \in Nat : t[n] \in TurnOf
  <2> DEFINE H == {n \in Nat : t[n] \in TurnOf}
  <2>1. 0 \in H /\ \A n \in Nat : n \in H => n + 1 \in H
    BY <1>7, TurnType
  <2>2. Nat \subseteq H
    <3> HIDE DEF H
    <3> QED
      BY <2>1, Inductive
  <2> QED
    BY <2>2
<1>9. t \in [Nat -> TurnOf]
  BY <1>6, <1>8
<1> QED
  BY <1>7, <1>9 DEF t

\* After as many turns as there were characters none is left, and nothing more happens.
LEMMA TurnsEnd ==
  ASSUME NEW k \in TurnOf
  PROVE  /\ Line!Turns(k)[Len(k.rest)].rest = <<>>
         /\ \A n \in Nat : n >= Len(k.rest) => Line!Turns(k)[n] = Line!Turns(k)[Len(k.rest)]
<1> DEFINE t == Line!Turns(k)
           L == Len(k.rest)
<1>1. t \in [Nat -> TurnOf] /\ t[0] = k /\ \A n \in Nat : t[n + 1] = Line!Turn(t[n])
  BY TurnsAre
<1>2. L \in Nat
  BY LenProperties DEF TurnOf, Text
<1> HIDE DEF t
<1>3. \A n \in Nat : Len(t[n].rest) \in Nat /\ (t[n].rest = <<>> <=> Len(t[n].rest) = 0)
  <2> TAKE n \in Nat
  <2>1. t[n].rest \in Text
    BY <1>1 DEF TurnOf
  <2> QED
    BY <2>1, LenProperties, EmptySeq DEF Text
<1> DEFINE H == {n \in Nat : n <= L => Len(t[n].rest) <= L - n}
<1>4. 0 \in H
  BY <1>1, <1>2
<1>5. ASSUME NEW n \in Nat, n \in H PROVE n + 1 \in H
  <2>1. t[n] \in TurnOf /\ t[n + 1] = Line!Turn(t[n])
    BY <1>1
  <2>2. \/ t[n].rest = <<>> /\ t[n + 1] = t[n]
        \/ Len(t[n + 1].rest) < Len(t[n].rest)
    BY <2>1, TurnType
  <2>3. n + 1 \in Nat
    OBVIOUS
  <2>4. Len(t[n].rest) \in Nat /\ Len(t[n + 1].rest) \in Nat
    BY <1>3, <2>3
  <2>5. ASSUME n + 1 <= L PROVE Len(t[n + 1].rest) <= L - (n + 1)
    <3>1. Len(t[n].rest) <= L - n
      BY <1>2, <1>5, <2>5
    <3>2. CASE t[n].rest = <<>> /\ t[n + 1] = t[n]
      <4>1. Len(t[n + 1].rest) = 0
        BY <1>3, <3>2
      <4> QED
        BY <1>2, <2>5, <4>1
    <3>3. CASE Len(t[n + 1].rest) < Len(t[n].rest)
      BY <1>2, <2>4, <3>1, <3>3
    <3> QED
      BY <2>2, <3>2, <3>3
  <2> QED
    BY <2>3, <2>5
<1>6. Nat \subseteq H
  <2> HIDE DEF H
  <2> QED
    BY <1>4, <1>5, Inductive
<1>7. t[L].rest = <<>>
  <2>1. L \in H
    BY <1>2, <1>6
  <2>2. Len(t[L].rest) <= L - L
    BY <1>2, <2>1
  <2> HIDE DEF L
  <2>3. Len(t[L].rest) = 0
    BY <1>2, <1>3, <2>2
  <2> QED
    BY <1>2, <1>3, <2>3
<1> HIDE DEF L
<1> DEFINE E == {n \in Nat : n >= L => t[n] = t[L]}
<1>8. 0 \in E
  BY <1>2
<1>9. ASSUME NEW n \in Nat, n \in E PROVE n + 1 \in E
  <2>1. CASE n >= L
    <3>1. t[n] = t[L] /\ t[n].rest = <<>> /\ t[n] \in TurnOf /\ t[n + 1] = Line!Turn(t[n])
      BY <1>1, <1>7, <1>9, <2>1
    <3>2. t[n + 1] = t[n]
      BY <3>1, TurnType
    <3> QED
      BY <3>1, <3>2
  <2>2. CASE n + 1 = L
    BY <2>2
  <2>3. CASE n + 1 < L
    BY <1>2, <2>3
  <2> QED
    BY <1>2, <2>1, <2>2, <2>3
<1>10. Nat \subseteq E
  <2> HIDE DEF E
  <2> QED
    BY <1>8, <1>9, Inductive
<1> QED
  BY <1>7, <1>10 DEF t, L

\* What was sent so far makes no difference to the line.
LEMMA TurnSame ==
  ASSUME NEW j, NEW k, j.ed = k.ed, j.rest = k.rest
  PROVE  Line!Turn(j).ed = Line!Turn(k).ed /\ Line!Turn(j).rest = Line!Turn(k).rest
<1>1. CASE k.rest = <<>>
  BY <1>1 DEF Line!Turn
<1>2. CASE k.rest # <<>>
  BY <1>2 DEF Line!Turn
<1> QED
  BY <1>1, <1>2

LEMMA TurnsShift ==
  ASSUME NEW k \in TurnOf, NEW j \in TurnOf,
         j.ed = Line!Turn(k).ed, j.rest = Line!Turn(k).rest
  PROVE  \A n \in Nat : /\ Line!Turns(j)[n].ed = Line!Turns(k)[n + 1].ed
                        /\ Line!Turns(j)[n].rest = Line!Turns(k)[n + 1].rest
<1> DEFINE s == Line!Turns(j)
           t == Line!Turns(k)
<1>1. /\ s[0] = j /\ \A n \in Nat : s[n + 1] = Line!Turn(s[n])
      /\ t[0] = k /\ \A n \in Nat : t[n + 1] = Line!Turn(t[n])
  BY TurnsAre
<1> HIDE DEF s, t
<1> DEFINE H == {n \in Nat : s[n].ed = t[n + 1].ed /\ s[n].rest = t[n + 1].rest}
<1>2. 0 \in H
  <2>1. t[0 + 1] = Line!Turn(k)
    BY <1>1
  <2> QED
    BY <1>1, <2>1
<1>3. ASSUME NEW n \in Nat, n \in H PROVE n + 1 \in H
  <2>1. n + 1 \in Nat /\ s[n + 1] = Line!Turn(s[n]) /\ t[(n + 1) + 1] = Line!Turn(t[n + 1])
    BY <1>1
  <2>2. s[n].ed = t[n + 1].ed /\ s[n].rest = t[n + 1].rest
    BY <1>3
  <2>3. /\ Line!Turn(s[n]).ed = Line!Turn(t[n + 1]).ed
        /\ Line!Turn(s[n]).rest = Line!Turn(t[n + 1]).rest
    BY <2>2, TurnSame
  <2> QED
    BY <2>1, <2>3
<1>4. Nat \subseteq H
  <2> HIDE DEF H
  <2> QED
    BY <1>2, <1>3, Inductive
<1> QED
  BY <1>4 DEF s, t

Start(e, cs) == [ed |-> e, lines |-> <<>>, rest |-> cs]

LEMMA StartType ==
  ASSUME NEW e, Sound(e), NEW cs \in Text, e.pending = <<>> \/ cs = <<>>
  PROVE  Start(e, cs) \in TurnOf
<1>1. <<>> \in Out
  BY EmptySeq DEF Out
<1> QED
  BY <1>1 DEF Start, TurnOf, Sound

LEMMA LoopSound ==
  ASSUME NEW e, Sound(e), NEW cs \in Text, e.pending = <<>> \/ cs = <<>>
  PROVE  Sound(Line!Loop(e, cs).ed)
<1>1. Start(e, cs) \in TurnOf
  BY StartType
<1>2. Line!Turns(Start(e, cs)) \in [Nat -> TurnOf] /\ Len(cs) \in Nat
  BY <1>1, TurnsAre, LenProperties DEF Text
<1>3. Line!Loop(e, cs) \in TurnOf
  BY <1>2 DEF Line!Loop, Start
<1> QED
  BY <1>3 DEF TurnOf

LEMMA LoopEnd ==
  ASSUME NEW e, Sound(e)
  PROVE  Line!Loop(e, <<>>).ed = e
<1>1. <<>> \in Text /\ Len(<<>>) = 0
  BY EmptySeq DEF Text
<1>2. Start(e, <<>>) \in TurnOf
  BY <1>1, StartType
<1>3. Line!Turns(Start(e, <<>>))[0] = Start(e, <<>>)
  BY <1>2, TurnsAre
<1>4. Line!Loop(e, <<>>) = Start(e, <<>>)
  BY <1>1, <1>3 DEF Line!Loop, Start
<1> QED
  BY <1>4 DEF Start

LEMMA LoopStep ==
  ASSUME NEW e, Ready(e), NEW cs \in Text, cs # <<>>
  PROVE  Line!Loop(e, cs).ed = Line!Loop(Line!OneKey(e, cs).ed, Line!OneKey(e, cs).rest).ed
<1> DEFINE k == Start(e, cs)
           o == Line!OneKey(e, cs)
           j == Start(o.ed, o.rest)
<1>1. k \in TurnOf /\ k.ed = e /\ k.rest = cs
  BY StartType DEF Ready, Start
<1>2. o \in TurnOf /\ Len(o.rest) < Len(cs)
  BY OneKeyType
<1>3. Len(o.rest) \in Nat /\ Len(cs) \in Nat
  BY <1>2, LenProperties DEF TurnOf, Text
<1>4. j \in TurnOf /\ j.ed = o.ed /\ j.rest = o.rest
  <2>1. Sound(o.ed) /\ o.rest \in Text /\ (o.ed.pending = <<>> \/ o.rest = <<>>)
    BY <1>2 DEF TurnOf
  <2> HIDE DEF o
  <2>2. j \in TurnOf
    BY <2>1, StartType
  <2> QED
    BY <2>2 DEF Start
<1>5. Line!Turn(k).ed = o.ed /\ Line!Turn(k).rest = o.rest
  BY <1>1 DEF Line!Turn
<1>6. Line!Loop(e, cs) = Line!Turns(k)[Len(cs)] /\ Line!Loop(o.ed, o.rest) = Line!Turns(j)[Len(o.rest)]
  BY DEF Line!Loop, Start
<1> HIDE DEF k, o, j
<1> DEFINE n == Len(o.rest)
<1>7. /\ Line!Turns(j)[n].ed = Line!Turns(k)[n + 1].ed
      /\ Line!Turns(j)[n].rest = Line!Turns(k)[n + 1].rest
  BY <1>1, <1>3, <1>4, <1>5, TurnsShift
<1>8. Line!Turns(j)[n].rest = <<>>
  BY <1>4, TurnsEnd
<1>9. Line!Turns(k)[Len(cs)] = Line!Turns(k)[n + 1]
  <2> DEFINE t == Line!Turns(k)
             E == {m \in Nat : m >= n + 1 => t[m] = t[n + 1]}
  <2>1. t \in [Nat -> TurnOf] /\ \A m \in Nat : t[m + 1] = Line!Turn(t[m])
    BY <1>1, TurnsAre
  <2>2. t[n + 1].rest = <<>>
    BY <1>7, <1>8
  <2> HIDE DEF t
  <2>3. 0 \in E
    BY <1>3
  <2>4. ASSUME NEW m \in Nat, m \in E PROVE m + 1 \in E
    <3>1. CASE m >= n + 1
      <4>1. t[m] = t[n + 1] /\ t[m].rest = <<>> /\ t[m] \in TurnOf /\ t[m + 1] = Line!Turn(t[m])
        BY <2>1, <2>2, <2>4, <3>1
      <4>2. t[m + 1] = t[m]
        BY <4>1, TurnType
      <4> QED
        BY <4>1, <4>2
    <3>2. CASE m < n + 1
      <4>1. m = n \/ m + 1 < n + 1
        BY <1>3, <3>2
      <4> QED
        BY <1>3, <4>1
    <3> QED
      BY <1>3, <3>1, <3>2
  <2>5. Nat \subseteq E
    <3> HIDE DEF E
    <3> QED
      BY <2>3, <2>4, Inductive
  <2>6. Len(cs) \in E /\ Len(cs) >= n + 1
    BY <1>2, <1>3, <2>5
  <2>7. t[Len(cs)] = t[n + 1]
    BY <2>6
  <2> QED
    BY <2>7 DEF t
<1>10. Line!Turns(k)[Len(cs)].ed = Line!Turns(j)[n].ed
  BY <1>7, <1>9
<1> QED
  BY <1>6, <1>10 DEF o

(***************************************************************************)
(* Characters that come later.                                             *)
(***************************************************************************)

\* A turn that does not wait does the same whatever follows.
LEMMA OneKeyExtends ==
  ASSUME NEW e, Ready(e), NEW cs \in Text, cs # <<>>, NEW ds \in Text, ~Waits(cs)
  PROVE  /\ Line!OneKey(e, cs \o ds).ed = Line!OneKey(e, cs).ed
         /\ Line!OneKey(e, cs \o ds).rest = Line!OneKey(e, cs).rest \o ds
         /\ Line!OneKey(e, cs).ed.pending = <<>>
<1> DEFINE bs == cs \o ds
           n == Takes(cs)
<1>1. /\ cs \in Seq(Chars) /\ ds \in Seq(Chars) /\ Len(cs) \in Nat /\ Len(ds) \in Nat /\ Len(cs) > 0
  BY LenProperties, EmptySeq DEF Text
<1>2. /\ bs \in Text /\ bs # <<>> /\ Len(bs) = Len(cs) + Len(ds)
      /\ \A i \in 1..Len(cs) : bs[i] = cs[i]
      /\ Head(bs) = Head(cs)
  BY <1>1, Prefixed DEF Text
<1>3. n \in 1..Len(cs)
  BY OneKeyIs
<1>4. /\ SubSeq(bs, 1, n) = SubSeq(cs, 1, n)
      /\ SubSeq(bs, n + 1, Len(bs)) = SubSeq(cs, n + 1, Len(cs)) \o ds
  BY <1>1, <1>3, Cuts
<1> HIDE DEF bs
<1>5. ~Waits(bs) /\ Takes(bs) = n /\ MadeOf(e, bs) = MadeOf(e, cs)
  <2>1. CASE Head(cs) # "ESC"
    BY <1>2, <2>1 DEF Waits, Takes, MadeOf
  <2>2. CASE Head(cs) = "ESC"
    <3>1. Len(cs) # 1 /\ Len(bs) # 1 /\ bs[2] = cs[2]
      <4>1. Len(cs) # 1
        BY <2>2 DEF Waits
      <4>2. Len(cs) >= 2
        <5>1. \A k \in Nat : k > 0 /\ k # 1 => k >= 2
          OBVIOUS
        <5>2. Len(cs) \in Nat /\ Len(cs) > 0
          BY <1>1
        <5> QED
          BY <4>1, <5>1, <5>2
      <4>3. 2 \in 1..Len(cs)
        BY <1>1, <4>2
      <4>4. Len(bs) # 1
        BY <1>1, <1>2, <4>2
      <4> QED
        BY <1>2, <4>1, <4>3, <4>4
    <3>2. CASE cs[2] \notin {"[", "O"}
      BY <1>2, <2>2, <3>1, <3>2 DEF Waits, Takes, MadeOf
    <3>3. CASE cs[2] \in {"[", "O"}
      <4>1. Ends(cs) # {}
        BY <2>2, <3>3 DEF Waits
      <4>2. n = Line!Min(Ends(cs)) /\ n \in Ends(cs) /\ \A m \in Ends(cs) : n <= m
        BY <2>2, <3>3, <4>1, LeastEnd DEF Takes
      <4>3. n \in Ends(bs)
        BY <1>1, <1>2, <1>3, <4>2 DEF Ends
      <4>4. ASSUME NEW m \in Ends(bs) PROVE n <= m
        <5>1. CASE m <= Len(cs)
          <6>1. m \in Ends(cs)
            BY <1>1, <1>2, <4>4, <5>1 DEF Ends
          <6> QED
            BY <4>2, <6>1
        <5>2. CASE m > Len(cs)
          <6>1. m \in Nat
            BY <4>4 DEF Ends
          <6> QED
            BY <1>1, <1>3, <5>2, <6>1
        <5>3. m \in Nat
          BY <4>4 DEF Ends
        <5> QED
          BY <1>1, <5>1, <5>2, <5>3
      <4>5. Line!Min(Ends(bs)) = n
        <5>1. Line!Min(Ends(bs)) \in Ends(bs) /\ \A m \in Ends(bs) : Line!Min(Ends(bs)) <= m
          BY <1>2, <4>3, LeastEnd
        <5>2. Line!Min(Ends(bs)) <= n /\ n <= Line!Min(Ends(bs))
          BY <4>3, <4>4, <5>1
        <5>3. Line!Min(Ends(bs)) \in Nat /\ n \in Nat
          BY <1>3, <5>1 DEF Ends
        <5> QED
          BY <5>2, <5>3
      <4>6. ~Waits(bs) /\ Takes(bs) = n
        BY <1>2, <2>2, <3>1, <3>3, <4>3, <4>5 DEF Waits, Takes
      <4>7. MadeOf(e, bs) = MadeOf(e, cs)
        BY <1>2, <1>4, <2>2, <3>1, <3>3, <4>2, <4>5 DEF MadeOf
      <4> QED
        BY <4>6, <4>7
    <3> QED
      BY <3>2, <3>3
  <2> QED
    BY <2>1, <2>2
<1> HIDE DEF n
<1>6. /\ Line!OneKey(e, cs).ed = MadeOf(e, cs)
      /\ Line!OneKey(e, cs).rest = SubSeq(cs, n + 1, Len(cs))
  BY OneKeyIs DEF n
<1>7. /\ Line!OneKey(e, bs).ed = MadeOf(e, bs)
      /\ Line!OneKey(e, bs).rest = SubSeq(bs, n + 1, Len(bs))
  <2> DEFINE r == SubSeq(bs, Takes(bs) + 1, Len(bs))
             l == IF Head(bs) # "ESC" THEN Line!Sends(e, Head(bs)) ELSE <<>>
  <2>1. Line!OneKey(e, bs) = [ed |-> MadeOf(e, bs), lines |-> l, rest |-> r]
    BY <1>2, <1>5, OneKeyIs
  <2>2. r = SubSeq(bs, n + 1, Len(bs))
    BY <1>5
  <2> HIDE DEF r, l
  <2>3. Line!OneKey(e, bs).ed = MadeOf(e, bs)
    BY <2>1
  <2>4. Line!OneKey(e, bs).rest = r
    BY <2>1
  <2> QED
    BY <2>2, <2>3, <2>4
<1>8. MadeOf(e, cs).pending = <<>>
  BY MakesReady DEF Ready
<1> QED
  BY <1>4, <1>5, <1>6, <1>7, <1>8 DEF bs

LEMMA BegunReady ==
  ASSUME NEW e, Sound(e)
  PROVE  Ready(Line!Begun(e)) /\ (e.pending = <<>> => Line!Begun(e) = e)
<1>1. e \in EditorOf /\ <<>> \in Text
  BY EmptySeq DEF Sound, Text
<1> DEFINE d == Line!Begun(e)
<1>2. /\ d \in EditorOf /\ d.line = e.line /\ d.cursor = e.cursor /\ d.history = e.history
      /\ d.hidx = e.hidx /\ d.draft = e.draft /\ d.pending = <<>>
  BY <1>1 DEF EditorOf, Line!Begun
<1> HIDE DEF d
<1>3. Ready(d)
  BY <1>2 DEF Sound, Ready
<1>4. e.pending = <<>> => d = e
  BY <1>1, <1>2 DEF EditorOf
<1> QED
  BY <1>3, <1>4 DEF d

\* What the loop makes of characters in two parts is what it makes of them in one.
LEMMA LoopJoin ==
  ASSUME NEW e, Ready(e), NEW cs \in Text, NEW ds \in Text
  PROVE  LET f == Line!Loop(e, cs).ed
         IN  Line!Loop(Line!Begun(f), f.pending \o ds).ed = Line!Loop(e, cs \o ds).ed
<1> DEFINE Joins(d, bs) ==
             LET f == Line!Loop(d, bs).ed
             IN  Line!Loop(Line!Begun(f), f.pending \o ds).ed = Line!Loop(d, bs \o ds).ed
           H == {n \in Nat : \A d, bs : Ready(d) /\ bs \in Text /\ Len(bs) <= n => Joins(d, bs)}
<1>0. ds \in Seq(Chars) /\ <<>> \o ds = ds /\ <<>> \in Text
  BY EmptySeq DEF Text
<1>1. ASSUME NEW d, Ready(d) PROVE Joins(d, <<>>)
  <2>1. Line!Loop(d, <<>>).ed = d /\ Line!Begun(d) = d /\ d.pending = <<>>
    BY <1>1, LoopEnd, BegunReady DEF Ready
  <2> QED
    BY <1>0, <2>1
<1>2. 0 \in H
  <2>1. ASSUME NEW d, NEW bs, Ready(d), bs \in Text, Len(bs) <= 0 PROVE Joins(d, bs)
    <3>1. bs = <<>>
      BY <2>1, LenProperties, EmptySeq DEF Text
    <3> HIDE DEF Joins
    <3> QED
      BY <1>1, <2>1, <3>1
  <2> QED
    BY <2>1
<1>3. ASSUME NEW n \in Nat, n \in H PROVE n + 1 \in H
  <2>1. ASSUME NEW d, NEW bs, Ready(d), bs \in Text, Len(bs) <= n + 1 PROVE Joins(d, bs)
    <3>1. CASE bs = <<>>
      <4> HIDE DEF Joins
      <4> QED
        BY <1>1, <2>1, <3>1
    <3>2. CASE bs # <<>> /\ Waits(bs)
      <4>1. Line!OneKey(d, bs) = Kept(d, bs)
        BY <2>1, <3>2, OneKeyIs
      <4> DEFINE o == Line!OneKey(d, bs)
                 f == [d EXCEPT !.pending = bs]
      <4>2. o.ed = f /\ o.rest = <<>>
        BY <4>1 DEF Kept
      <4>3. Sound(f)
        <5>1. o \in TurnOf
          BY <2>1, <3>2, OneKeyType
        <5> QED
          BY <4>2, <5>1 DEF TurnOf
      <4>4. Line!Loop(d, bs).ed = f
        <5>1. Line!Loop(d, bs).ed = Line!Loop(o.ed, o.rest).ed
          BY <2>1, <3>2, LoopStep
        <5>2. Line!Loop(f, <<>>).ed = f
          BY <4>3, LoopEnd
        <5> HIDE DEF o, f
        <5> QED
          BY <4>2, <5>1, <5>2
      <4>5. f.pending = bs /\ Line!Begun(f) = d
        <5>1. d \in EditorOf /\ d.pending = <<>>
          BY <2>1 DEF Ready, Sound
        <5>2. f.pending = bs
          BY <5>1 DEF EditorOf
        <5>3. /\ f \in EditorOf /\ f.line = d.line /\ f.cursor = d.cursor /\ f.history = d.history
              /\ f.hidx = d.hidx /\ f.draft = d.draft
          BY <2>1, <5>1 DEF EditorOf
        <5> HIDE DEF f
        <5> DEFINE g == Line!Begun(f)
        <5>4. /\ g \in EditorOf /\ g.line = d.line /\ g.cursor = d.cursor /\ g.history = d.history
              /\ g.hidx = d.hidx /\ g.draft = d.draft /\ g.pending = d.pending
          BY <1>0, <5>1, <5>3 DEF Line!Begun, EditorOf
        <5> HIDE DEF g
        <5>5. g = d
          BY <5>1, <5>4 DEF EditorOf
        <5> QED
          BY <5>2, <5>5 DEF g
      <4> HIDE DEF o, f
      <4> QED
        BY <4>4, <4>5
    <3>3. CASE bs # <<>> /\ ~Waits(bs)
      <4> DEFINE o == Line!OneKey(d, bs)
                 p == Line!OneKey(d, bs \o ds)
      <4>1. p.ed = o.ed /\ p.rest = o.rest \o ds /\ o.ed.pending = <<>>
        BY <2>1, <3>3, OneKeyExtends
      <4>2. o \in TurnOf /\ Len(o.rest) < Len(bs)
        BY <2>1, <3>3, OneKeyType
      <4>3. bs \o ds \in Text /\ bs \o ds # <<>>
        BY <1>0, <2>1, <3>3, Prefixed DEF Text
      <4>4. Line!Loop(d, bs).ed = Line!Loop(o.ed, o.rest).ed
        BY <2>1, <3>3, LoopStep
      <4>5. Line!Loop(d, bs \o ds).ed = Line!Loop(p.ed, p.rest).ed
        BY <2>1, <4>3, LoopStep
      <4> HIDE DEF o, p
      <4>6. Joins(o.ed, o.rest)
        <5>1. Ready(o.ed) /\ o.rest \in Text
          BY <4>1, <4>2 DEF TurnOf, Ready
        <5>2. Len(o.rest) <= n
          <6>1. Len(o.rest) \in Nat /\ Len(bs) \in Nat
            BY <2>1, <5>1, LenProperties DEF Text
          <6> QED
            BY <2>1, <4>2, <6>1
        <5> HIDE DEF Joins
        <5> QED
          BY <1>3, <5>1, <5>2
      <4> QED
        BY <4>1, <4>4, <4>5, <4>6
    <3> QED
      BY <3>1, <3>2, <3>3
  <2> HIDE DEF Joins
  <2> QED
    BY <2>1
<1>4. Nat \subseteq H
  <2> HIDE DEF H
  <2> QED
    BY <1>2, <1>3, Inductive
<1>5. Joins(e, cs)
  <2>1. Len(cs) \in Nat
    BY LenProperties DEF Text
  <2>2. Len(cs) \in H /\ Len(cs) <= Len(cs)
    BY <1>4, <2>1
  <2> HIDE DEF Joins
  <2> QED
    BY <2>2
<1> QED
  BY <1>5

(***************************************************************************)
(* The history.                                                            *)
(***************************************************************************)
Editors == {e \in EditorOf : Sound(e)}

WalkUp(e, n) == LET up[i \in 0..n] == IF i = 0 THEN e ELSE Line!HistoryUp(up[i - 1]) IN up
WalkDown(e, n) == LET down[i \in 0..n] == IF i = 0 THEN e ELSE Line!HistoryDown(down[i - 1]) IN down

LEMMA WalkUpIs ==
  ASSUME NEW e, Sound(e), NEW n \in Nat
  PROVE  /\ WalkUp(e, n)[0] = e
         /\ \A i \in 0..n : i # n => WalkUp(e, n)[i + 1] = Line!HistoryUp(WalkUp(e, n)[i])
         /\ \A i \in 0..n : Sound(WalkUp(e, n)[i])
<1> DEFINE F == [f \in Editors |-> Line!HistoryUp(f)]
           u == WalkUp(e, n)
<1>1. F \in [Editors -> Editors] /\ e \in Editors
  BY HistoryUpSound DEF Editors, Sound
<1>2. PICK g : IsWalk(g, Editors, F, e, n)
  <2> HIDE DEF F
  <2> QED
    BY <1>1, Walks
<1>3. ASSUME NEW i \in 0..n PROVE g[i] = IF i = 0 THEN e ELSE Line!HistoryUp(g[i - 1])
  <2>1. i # 0 => i - 1 \in 0..n
    BY <1>3
  <2> QED
    BY <1>2, <2>1 DEF IsWalk
<1>4. g = [i \in 0..n |-> IF i = 0 THEN e ELSE Line!HistoryUp(g[i - 1])]
  BY <1>2, <1>3 DEF IsWalk
<1>5. u = [i \in 0..n |-> IF i = 0 THEN e ELSE Line!HistoryUp(u[i - 1])]
  BY <1>4 DEF WalkUp
<1> HIDE DEF u
<1>6. u[0] = e
  BY <1>5
<1>7. ASSUME NEW i \in 0..n, i # n PROVE u[i + 1] = Line!HistoryUp(u[i])
  <2>1. i + 1 \in 0..n /\ i + 1 # 0 /\ (i + 1) - 1 = i
    BY <1>7
  <2> QED
    BY <1>5, <2>1
<1>8. \A i \in 0..n : u[i] \in Editors
  <2>1. \A i \in 0..n : i # n /\ u[i] \in Editors => u[i + 1] \in Editors
    <3>1. ASSUME NEW i \in 0..n, i # n, u[i] \in Editors PROVE u[i + 1] \in Editors
      <4>1. Sound(u[i]) /\ u[i + 1] = Line!HistoryUp(u[i])
        BY <1>7, <3>1 DEF Editors
      <4>2. Sound(Line!HistoryUp(u[i]))
        BY <4>1, HistoryUpSound
      <4> QED
        BY <4>1, <4>2 DEF Editors, Sound
    <3> QED
      BY <3>1
  <2> QED
    BY <1>1, <1>6, <2>1, WalkStays
<1> QED
  BY <1>6, <1>7, <1>8 DEF u, Editors

LEMMA WalkDownIs ==
  ASSUME NEW e, Sound(e), NEW n \in Nat
  PROVE  /\ WalkDown(e, n)[0] = e
         /\ \A i \in 0..n : i # n => WalkDown(e, n)[i + 1] = Line!HistoryDown(WalkDown(e, n)[i])
         /\ \A i \in 0..n : Sound(WalkDown(e, n)[i])
<1> DEFINE F == [f \in Editors |-> Line!HistoryDown(f)]
           u == WalkDown(e, n)
<1>1. F \in [Editors -> Editors] /\ e \in Editors
  BY HistoryDownSound DEF Editors, Sound
<1>2. PICK g : IsWalk(g, Editors, F, e, n)
  <2> HIDE DEF F
  <2> QED
    BY <1>1, Walks
<1>3. ASSUME NEW i \in 0..n PROVE g[i] = IF i = 0 THEN e ELSE Line!HistoryDown(g[i - 1])
  <2>1. i # 0 => i - 1 \in 0..n
    BY <1>3
  <2> QED
    BY <1>2, <2>1 DEF IsWalk
<1>4. g = [i \in 0..n |-> IF i = 0 THEN e ELSE Line!HistoryDown(g[i - 1])]
  BY <1>2, <1>3 DEF IsWalk
<1>5. u = [i \in 0..n |-> IF i = 0 THEN e ELSE Line!HistoryDown(u[i - 1])]
  BY <1>4 DEF WalkDown
<1> HIDE DEF u
<1>6. u[0] = e
  BY <1>5
<1>7. ASSUME NEW i \in 0..n, i # n PROVE u[i + 1] = Line!HistoryDown(u[i])
  <2>1. i + 1 \in 0..n /\ i + 1 # 0 /\ (i + 1) - 1 = i
    BY <1>7
  <2> QED
    BY <1>5, <2>1
<1>8. \A i \in 0..n : u[i] \in Editors
  <2>1. \A i \in 0..n : i # n /\ u[i] \in Editors => u[i + 1] \in Editors
    <3>1. ASSUME NEW i \in 0..n, i # n, u[i] \in Editors PROVE u[i + 1] \in Editors
      <4>1. Sound(u[i]) /\ u[i + 1] = Line!HistoryDown(u[i])
        BY <1>7, <3>1 DEF Editors
      <4>2. Sound(Line!HistoryDown(u[i]))
        BY <4>1, HistoryDownSound
      <4> QED
        BY <4>1, <4>2 DEF Editors, Sound
    <3> QED
      BY <3>1
  <2> QED
    BY <1>1, <1>6, <2>1, WalkStays
<1> QED
  BY <1>6, <1>7, <1>8 DEF u, Editors

\* The steps up go to the oldest line of the history and stay there; the line that
\* was being typed is the draft all along.
LEMMA UpKeepsDraft ==
  ASSUME NEW e, Sound(e), e.hidx = 0, e.history # <<>>, NEW n \in Nat
  PROVE  \A i \in 1..n :
           /\ WalkUp(e, n)[i].hidx = (IF i <= Len(e.history) THEN Len(e.history) - i + 1 ELSE 1)
           /\ WalkUp(e, n)[i].draft = e.line /\ WalkUp(e, n)[i].history = e.history
<1> DEFINE u == WalkUp(e, n)
           L == Len(e.history)
           Here(i) == /\ u[i].hidx = (IF i <= L THEN L - i + 1 ELSE 1)
                    /\ u[i].draft = e.line /\ u[i].history = e.history
           H == {i \in Nat : 1 <= i /\ i <= n => Here(i)}
<1>1. L \in Nat /\ L > 0
  BY LenProperties, EmptySeq DEF Sound, EditorOf
<1>2. /\ u[0] = e
      /\ \A i \in 0..n : i # n => u[i + 1] = Line!HistoryUp(u[i])
      /\ \A i \in 0..n : Sound(u[i])
  BY WalkUpIs
<1> HIDE DEF u, L
<1>3. 0 \in H
  OBVIOUS
<1>4. ASSUME NEW i \in Nat, i \in H PROVE i + 1 \in H
  <2>1. ASSUME i + 1 <= n PROVE Here(i + 1)
    <3>1. i \in 0..n /\ i # n /\ u[i + 1] = Line!HistoryUp(u[i]) /\ Sound(u[i])
      BY <1>2, <2>1
    <3>2. CASE i = 0
      <4>1. u[i] = e
        BY <1>2, <3>2
      <4>2. /\ u[i + 1].hidx = L /\ u[i + 1].draft = e.line /\ u[i + 1].history = e.history
        BY <3>1, <4>1, HistoryUpSound DEF L
      <4> QED
        BY <1>1, <3>2, <4>2
    <3>3. CASE i # 0
      <4>1. Here(i)
        BY <1>4, <2>1, <3>3
      <4>2. u[i].hidx # 0
        BY <1>1, <4>1
      <4>3. /\ u[i + 1].hidx = (IF u[i].hidx = 1 THEN 1 ELSE u[i].hidx - 1)
            /\ u[i + 1].draft = u[i].draft /\ u[i + 1].history = u[i].history
        BY <3>1, <4>1, <4>2, HistoryUpSound
      <4>4. (IF u[i].hidx = 1 THEN 1 ELSE u[i].hidx - 1) = (IF i + 1 <= L THEN L - (i + 1) + 1 ELSE 1)
        BY <1>1, <4>1
      <4> QED
        BY <4>1, <4>3, <4>4
    <3> QED
      BY <3>2, <3>3
  <2> HIDE DEF Here
  <2> QED
    BY <2>1
<1>5. Nat \subseteq H
  <2> HIDE DEF H
  <2> QED
    BY <1>3, <1>4, Inductive
<1>6. \A i \in 1..n : Here(i)
  <2> HIDE DEF Here
  <2> QED
    BY <1>5
<1> QED
  BY <1>6 DEF u, L

\* The steps down from line h of the history come to the draft after the last line.
LEMMA DownToDraft ==
  ASSUME NEW e, Sound(e), e.hidx # 0, NEW n \in Nat, Len(e.history) - e.hidx + 1 <= n
  PROVE  \E i \in 0..n : WalkDown(e, n)[i].line = e.draft /\ WalkDown(e, n)[i].hidx = 0
<1> DEFINE u == WalkDown(e, n)
           L == Len(e.history)
           h == e.hidx
           Here(i) == u[i].hidx = h + i /\ u[i].draft = e.draft /\ u[i].history = e.history
           H == {i \in Nat : i <= L - h => Here(i)}
<1>1. L \in Nat /\ h \in 1..L
  BY LenProperties DEF Sound, EditorOf
<1>2. /\ u[0] = e
      /\ \A i \in 0..n : i # n => u[i + 1] = Line!HistoryDown(u[i])
      /\ \A i \in 0..n : Sound(u[i])
  BY WalkDownIs
<1>3. L - h + 1 <= n
  OBVIOUS
<1> HIDE DEF u
<1>4. 0 \in H
  BY <1>1, <1>2
<1> HIDE DEF L, h
<1>5. ASSUME NEW i \in Nat, i \in H PROVE i + 1 \in H
  <2>1. ASSUME i + 1 <= L - h PROVE Here(i + 1)
    <3>1. Here(i)
      BY <1>1, <1>5, <2>1
    <3>2. i \in 0..n /\ i # n
      BY <1>1, <1>3, <2>1
    <3>3. u[i + 1] = Line!HistoryDown(u[i]) /\ Sound(u[i])
      BY <1>2, <3>2
    <3>4. u[i].hidx # 0 /\ u[i].hidx < Len(u[i].history)
      BY <1>1, <2>1, <3>1 DEF L
    <3>5. /\ u[i + 1].hidx = u[i].hidx + 1 /\ u[i + 1].draft = u[i].draft
          /\ u[i + 1].history = u[i].history
      BY <3>3, <3>4, HistoryDownSound
    <3> QED
      BY <1>1, <3>1, <3>5
  <2> HIDE DEF Here
  <2> QED
    BY <2>1
<1>6. Nat \subseteq H
  <2> HIDE DEF H
  <2> QED
    BY <1>4, <1>5, Inductive
<1> DEFINE m == L - h
<1>7. m \in Nat /\ m \in 0..n /\ m # n /\ m + 1 \in 0..n
  BY <1>1, <1>3
<1>8. Here(m)
  BY <1>6, <1>7
<1>9. u[m + 1] = Line!HistoryDown(u[m]) /\ Sound(u[m])
  BY <1>2, <1>7
<1>10. u[m].hidx # 0 /\ u[m].hidx = Len(u[m].history)
  BY <1>1, <1>8 DEF L
<1>11. u[m + 1].hidx = 0 /\ u[m + 1].line = u[m].draft
  BY <1>9, <1>10, HistoryDownSound
<1> HIDE DEF m
<1>12. u[m + 1].line = e.draft /\ u[m + 1].hidx = 0
  BY <1>8, <1>11
<1> QED
  BY <1>7, <1>12 DEF u

LEMMA DraftComesBack ==
  ASSUME NEW e, Sound(e), e.hidx = 0, NEW n \in 1..(Len(e.history) + 1)
  PROVE  \E i \in 0..n : /\ WalkDown(WalkUp(e, n)[n], n)[i].line = e.line
                         /\ WalkDown(WalkUp(e, n)[n], n)[i].hidx = 0
<1> DEFINE t == WalkUp(e, n)[n]
<1>1. Len(e.history) \in Nat
  BY LenProperties DEF Sound, EditorOf
<1>2. n \in Nat /\ n \in 0..n /\ 0 \in 0..n /\ n \in 1..n
  BY <1>1
<1>3. Sound(t)
  BY <1>2, WalkUpIs
<1>4. CASE e.history = <<>>
  <2>1. n = 1
    BY <1>4, EmptySeq
  <2>2. WalkUp(e, n)[0 + 1] = Line!HistoryUp(WalkUp(e, n)[0]) /\ WalkUp(e, n)[0] = e
    BY <1>2, <2>1, WalkUpIs
  <2>3. t = e
    BY <1>4, <2>1, <2>2 DEF Line!HistoryUp
  <2> HIDE DEF t
  <2>4. WalkDown(t, n)[0] = t
    BY <1>2, <1>3, WalkDownIs
  <2>5. WalkDown(t, n)[0].line = e.line /\ WalkDown(t, n)[0].hidx = 0
    BY <2>3, <2>4
  <2> QED
    BY <1>2, <2>5 DEF t
<1>5. CASE e.history # <<>>
  <2>1. /\ t.hidx = (IF n <= Len(e.history) THEN Len(e.history) - n + 1 ELSE 1)
        /\ t.draft = e.line /\ t.history = e.history
    BY <1>2, <1>5, UpKeepsDraft
  <2> HIDE DEF t
  <2>2. t.hidx # 0 /\ Len(t.history) - t.hidx + 1 <= n
    BY <1>1, <1>2, <2>1
  <2>3. \E i \in 0..n : WalkDown(t, n)[i].line = t.draft /\ WalkDown(t, n)[i].hidx = 0
    BY <1>2, <1>3, <2>2, DownToDraft
  <2> QED
    BY <2>1, <2>3 DEF t
<1> QED
  BY <1>4, <1>5

(***************************************************************************)
(* The line editor at work.                                                *)
(***************************************************************************)
\* The editor is that of the characters typed since the reset, in one chunk.
Edited == /\ raw \in BOOLEAN /\ keys \in Keyboards
          /\ Sound(ed) /\ Ready(base) /\ since \in Text
          /\ raw \/ ed = Line!Loop(base, since).ed

LEMMA CookedIs ==
  ASSUME NEW e, Sound(e), NEW ds \in Text
  PROVE  /\ Sound(Line!CookedInput(e, ds).ed)
         /\ e.pending = <<>> => Line!CookedInput(e, ds) = Line!Loop(e, ds)
<1>1. Ready(Line!Begun(e)) /\ e.pending \in Text /\ (e.pending = <<>> => Line!Begun(e) = e)
  BY BegunReady DEF Sound, EditorOf
<1>2. e.pending \o ds \in Text
  BY <1>1, ConcatProperties DEF Text
<1>3. Sound(Line!CookedInput(e, ds).ed)
  BY <1>1, <1>2, LoopSound DEF Ready, Line!CookedInput
<1>4. <<>> \o ds = ds
  BY DEF Text
<1> QED
  BY <1>1, <1>3, <1>4 DEF Line!CookedInput

LEMMA DataEdits ==
  ASSUME Edited, NEW data \in Line!Chunks, Line!OnData(data)
  PROVE  Edited'
<1>1. data \in Text
  <2>1. PICK n \in 1..MaxChunk : data \in [1..n -> keys]
    BY DEF Line!Chunks
  <2>2. n \in Nat
    BY <2>1, SessionAssumption
  <2>3. keys \subseteq Chars
    BY DEF Edited, Chars
  <2> QED
    BY <2>1, <2>2, <2>3 DEF Text
<1>2. raw' = raw /\ keys' = keys /\ base' = base /\ since' = since \o data
  BY DEF Line!OnData
<1>3. since \o data \in Text
  BY <1>1, ConcatProperties DEF Edited, Text
<1>4. CASE raw
  BY <1>2, <1>3, <1>4 DEF Edited, Line!OnData
<1>5. CASE ~raw
  <2>1. ed' = Line!CookedInput(ed, data).ed
    BY <1>5 DEF Line!OnData
  <2>2. ed = Line!Loop(base, since).ed
    BY <1>5 DEF Edited
  <2>3. Line!Loop(Line!Begun(ed), ed.pending \o data).ed = Line!Loop(base, since \o data).ed
    BY <1>1, <2>2, LoopJoin DEF Edited
  <2>4. ed' = Line!Loop(base, since \o data).ed
    BY <2>1, <2>3 DEF Line!CookedInput
  <2>5. Sound(ed')
    BY <1>1, <2>1, CookedIs DEF Edited
  <2> QED
    BY <1>2, <1>3, <2>4, <2>5 DEF Edited
<1> QED
  BY <1>4, <1>5 DEF Edited

LEMMA ResetEdits ==
  ASSUME Edited, NEW mode \in BOOLEAN, Line!Reset(mode)
  PROVE  Edited'
<1>1. /\ ed' = Line!Empty(ed.history) /\ base' = ed' /\ since' = <<>> /\ raw' = mode /\ keys' = keys
  BY DEF Line!Reset
<1>2. Ready(ed')
  BY <1>1, EmptySound DEF Edited, Sound, EditorOf, Ready
<1>3. Line!Loop(base', since').ed = ed'
  BY <1>1, <1>2, LoopEnd DEF Ready
<1>4. <<>> \in Text
  BY EmptySeq DEF Text
<1> QED
  BY <1>1, <1>2, <1>3, <1>4 DEF Edited, Ready

LineEdited == which = "line" => Edited

LEMMA LineEditedInit == Init => LineEdited
<1> SUFFICES ASSUME Line!EditorInit PROVE Edited
  BY DEF Init, LineEdited, LineOff, ShOff
<1>1. keys \in Keyboards /\ ed = Line!Empty(<<>>) /\ base = ed /\ since = <<>> /\ raw = FALSE
  BY DEF Line!EditorInit
<1>2. <<>> \in Seq(Text) /\ <<>> \in Text
  BY EmptySeq DEF Text
<1>3. Ready(ed)
  BY <1>1, <1>2, EmptySound DEF Ready
<1>4. Line!Loop(base, since).ed = ed
  BY <1>1, <1>3, LoopEnd DEF Ready
<1> QED
  BY <1>1, <1>2, <1>3, <1>4 DEF Edited, Ready

LEMMA LineEditedStep == LineEdited /\ [Next]_vars => LineEdited'
<1> SUFFICES ASSUME LineEdited, [Next]_vars, which' = "line" PROVE Edited'
  BY DEF LineEdited
<1>1. CASE which = "line" /\ Line!EditorNext
  <2>1. Edited
    BY <1>1 DEF LineEdited
  <2>2. CASE \E data \in Line!Chunks : Line!OnData(data)
    BY <2>1, <2>2, DataEdits
  <2>3. CASE Line!OnTermMode
    BY <2>1, <2>3, ResetEdits DEF Line!OnTermMode
  <2>4. CASE Line!SetShell
    <3>1. raw \in BOOLEAN
      BY <2>1 DEF Edited
    <3> QED
      BY <2>1, <2>4, <3>1, ResetEdits DEF Line!SetShell
  <2> QED
    BY <1>1, <2>2, <2>3, <2>4 DEF Line!EditorNext
<1>2. CASE which # "line" /\ Next
  BY <1>2 DEF Next
<1>3. CASE UNCHANGED vars
  BY <1>3 DEF LineEdited, Edited, vars, lineVars
<1>4. CASE which = "line" /\ Next /\ ~Line!EditorNext
  BY <1>4 DEF Next
<1> QED
  BY <1>1, <1>2, <1>3, <1>4

\* A line is edited as if what was typed had come in one chunk.
THEOREM TypingIsOneChunk == Spec => []ChunkingInvisible
<1>1. LineEdited => ChunkingInvisible
  <2> SUFFICES ASSUME Edited PROVE Line!ChunkingInvisible
    BY DEF LineEdited, ChunkingInvisible
  <2>1. Line!CookedInput(base, since) = Line!Loop(base, since)
    BY CookedIs DEF Edited, Ready
  <2> QED
    BY <2>1 DEF Edited, Line!ChunkingInvisible
<1> QED
  BY <1>1, LineEditedInit, LineEditedStep, PTL DEF Spec

\* A walk through the history gives back the line that was being typed.
THEOREM HistoryReturns == Spec => []HistoryKeepsDraft
<1>1. LineEdited => HistoryKeepsDraft
  <2> SUFFICES ASSUME Sound(ed) PROVE Line!HistoryKeepsDraft
    BY DEF LineEdited, HistoryKeepsDraft, Edited
  <2>1. Line!ShowsHistory
    <3>1. ed.cursor \in 0..Len(ed.line)
      BY LenProperties DEF Sound, EditorOf, Text
    <3> QED
      BY <3>1 DEF Sound, Line!ShowsHistory
  <2>2. Line!DraftReturns
    <3> SUFFICES ASSUME ed.hidx = 0, NEW n \in 1..(Len(ed.history) + 1)
                 PROVE  \E i \in 0..n : /\ WalkDown(WalkUp(ed, n)[n], n)[i].line = ed.line
                                        /\ WalkDown(WalkUp(ed, n)[n], n)[i].hidx = 0
      BY DEF Line!DraftReturns, WalkUp, WalkDown
    <3> QED
      BY DraftComesBack
  <2> QED
    BY <2>1, <2>2 DEF Line!HistoryKeepsDraft
<1> QED
  BY <1>1, LineEditedInit, LineEditedStep, PTL DEF Spec

(***************************************************************************)
(* The shell's pipelines: while a line runs, the counts of each pipe are   *)
(* the ends the shell holds and those of the stages that run.              *)
(***************************************************************************)
One(b) == IF b THEN 1 ELSE 0
Strung(q) == Len(q) \in Nat /\ q = [i \in 1..Len(q) |-> q[i]]
EndsFrom(a, b) == {<<i, e>> : i \in a..b, e \in {"r", "w"}}
Awake(pr, i) == i \in DOMAIN pr /\ pr[i].st \in {"read", "write"}
ReadsOf(pr, i) == Awake(pr, i + 1) /\ pr[i + 1].in = i
WritesOf(pr, i) == Awake(pr, i) /\ pr[i].out = i

\* A pipe nobody has an end of is gone.
Proper(ps) ==
  \A i \in DOMAIN ps : /\ DOMAIN ps[i] = {"buf", "readers", "writers"}
                       /\ ps[i].readers \in Nat /\ ps[i].writers \in Nat
                       /\ ps[i].readers = 0 /\ ps[i].writers = 0 => ps[i] = Sh!NoPipe

\* A pipe's ends are the shell's and those of the stages before and behind it.
CountedEnds(ps, h, pr) ==
  \A i \in DOMAIN ps : /\ ps[i].readers = One(<<i, "r">> \in h) + One(ReadsOf(pr, i))
                       /\ ps[i].writers = One(<<i, "w">> \in h) + One(WritesOf(pr, i))

Wired(ps, pr) ==
  \A j \in DOMAIN pr : /\ DOMAIN pr[j] = {"prog", "in", "out", "st", "code"}
                       /\ pr[j].in \in {0, j - 1} /\ pr[j].out \in {0, j}
                       /\ pr[j].in <= Len(ps) /\ pr[j].out <= Len(ps)
                       /\ pr[j].st \in {"read", "write", "dead", "reaped", "none"}

Over(pr, n) == \A j \in 1..n : j \in DOMAIN pr => pr[j].st \in {"reaped", "none"}

\* Where the shell is in a line.
Stands ==
  /\ phase = "pipe"  => at <= Len(stages) /\ Len(pipes) = at - 1 /\ held = EndsFrom(1, at - 1) /\ Len(procs) = 0
  /\ phase = "spawn" => at <= Len(stages) + 1 /\ Len(pipes) = Len(stages) - 1
                        /\ held = EndsFrom(1, Len(stages) - 1) /\ Len(procs) = at - 1
  /\ phase = "close" => at <= Len(stages) /\ Len(pipes) = Len(stages) - 1
                        /\ held = EndsFrom(at, Len(stages) - 1) /\ Len(procs) = Len(stages)
  /\ phase = "wait"  => at <= Len(stages) /\ Len(procs) = Len(stages) /\ held = {} /\ Over(procs, at - 1)
  /\ phase \in {"prompt", "gone"} => held = {} /\ Over(procs, Len(procs))

\* With where the shell is, what each step of it and of the stages preserves.
PipelineHolds ==
  /\ phase \in {"prompt", "pipe", "spawn", "close", "wait", "gone"}
  /\ Len(stages) \in Nat /\ at \in Nat \ {0}
  /\ Strung(pipes) /\ Strung(procs)
  /\ Proper(pipes) /\ CountedEnds(pipes, held, procs) /\ Wired(pipes, procs) /\ Stands

LEMMA StrungIs ==
  ASSUME NEW n \in Nat, NEW q, q = [i \in 1..n |-> q[i]]
  PROVE  Strung(q) /\ Len(q) = n /\ DOMAIN q = 1..n
<1>1. Len([i \in 1..n |-> q[i]]) = n
  OBVIOUS
<1> QED
  BY <1>1 DEF Strung

LEMMA StrungAppend ==
  ASSUME NEW q, Strung(q), NEW x
  PROVE  LET a == Append(q, x)
         IN  /\ Strung(a) /\ Len(a) = Len(q) + 1 /\ a[Len(q) + 1] = x
             /\ \A i \in 1..Len(q) : a[i] = q[i]
<1> DEFINE S == {q[i] : i \in 1..Len(q)} \cup {x}
           a == Append(q, x)
<1>1. q \in Seq(S)
  <2>1. \A i \in 1..Len(q) : q[i] \in S
    OBVIOUS
  <2> HIDE DEF S
  <2>2. [i \in 1..Len(q) |-> q[i]] \in [1..Len(q) -> S]
    BY <2>1
  <2> QED
    BY <2>2 DEF Strung
<1> HIDE DEF S
<1>2. a \in Seq(S \cup {x}) /\ Len(a) = Len(q) + 1 /\ a[Len(q) + 1] = x
      /\ \A i \in 1..Len(q) : a[i] = q[i]
  <2>1. q \in Seq(S \cup {x}) /\ x \in S \cup {x}
    BY <1>1
  <2> QED
    BY <2>1, AppendProperties
<1> HIDE DEF a
<1>3. Strung(a)
  <2>1. a = [i \in 1..Len(a) |-> a[i]] /\ Len(a) \in Nat
    BY <1>2
  <2> QED
    BY <2>1 DEF Strung
<1> QED
  BY <1>2, <1>3 DEF a

LEMMA StrungExcept ==
  ASSUME NEW q, Strung(q), NEW k, NEW x
  PROVE  LET a == [q EXCEPT ![k] = x]
         IN  /\ Strung(a) /\ Len(a) = Len(q) /\ DOMAIN a = DOMAIN q
             /\ k \in DOMAIN q => a[k] = x
             /\ \A i \in DOMAIN q : i # k => a[i] = q[i]
<1> DEFINE a == [q EXCEPT ![k] = x]
<1>1. Len(q) \in Nat /\ DOMAIN q = 1..Len(q)
  BY DEF Strung
<1>2. a = [i \in 1..Len(q) |-> a[i]]
  BY <1>1
<1>3. /\ k \in DOMAIN q => a[k] = x
      /\ \A i \in DOMAIN q : i # k => a[i] = q[i]
  OBVIOUS
<1> HIDE DEF a
<1> QED
  BY <1>1, <1>2, <1>3, StrungIs DEF a

\* Ends that are there are taken, of the one pipe.
LEMMA TakenIs ==
  ASSUME NEW ps, Strung(ps), Proper(ps), NEW i \in DOMAIN ps \cup {0},
         NEW r \in {0, 1}, NEW w \in {0, 1},
         i # 0 => ps[i].readers >= r /\ ps[i].writers >= w
  PROVE  LET q == Sh!Taken(ps, i, r, w)
         IN  /\ Strung(q) /\ Len(q) = Len(ps) /\ DOMAIN q = DOMAIN ps /\ Proper(q)
             /\ \A k \in DOMAIN ps : /\ q[k].readers = IF k = i THEN ps[k].readers - r ELSE ps[k].readers
                                     /\ q[k].writers = IF k = i THEN ps[k].writers - w ELSE ps[k].writers
<1> DEFINE q == Sh!Taken(ps, i, r, w)
<1>0. 0 \notin DOMAIN ps
  BY DEF Strung
<1>1. CASE i = 0
  <2>1. q = ps
    BY <1>1 DEF Sh!Taken
  <2> QED
    BY <1>0, <1>1, <2>1
<1>2. CASE i # 0
  <2> DEFINE p == Sh!CloseEnds(ps[i], r, w)
             left == [ps[i] EXCEPT !.readers = Sh!SaturatingSub(@, r), !.writers = Sh!SaturatingSub(@, w)]
  <2>0. i \in DOMAIN ps
    BY <1>2
  <2>1. q = [ps EXCEPT ![i] = p]
    BY <1>2 DEF Sh!Taken
  <2>2. /\ DOMAIN ps[i] = {"buf", "readers", "writers"}
        /\ ps[i].readers \in Nat /\ ps[i].writers \in Nat
    BY <2>0 DEF Proper
  <2>3. /\ DOMAIN left = {"buf", "readers", "writers"}
        /\ left.readers = ps[i].readers - r /\ left.writers = ps[i].writers - w
        /\ left.readers \in Nat /\ left.writers \in Nat
    BY <1>2, <2>2 DEF Sh!SaturatingSub
  <2>4. p = IF left.readers = 0 /\ left.writers = 0 THEN Sh!NoPipe ELSE left
    BY DEF Sh!CloseEnds
  <2> HIDE DEF left
  <2>5. /\ DOMAIN p = {"buf", "readers", "writers"}
        /\ p.readers = ps[i].readers - r /\ p.writers = ps[i].writers - w
        /\ p.readers \in Nat /\ p.writers \in Nat
        /\ p.readers = 0 /\ p.writers = 0 => p = Sh!NoPipe
    <3>1. CASE left.readers = 0 /\ left.writers = 0
      BY <2>3, <2>4, <3>1 DEF Sh!NoPipe
    <3>2. CASE ~(left.readers = 0 /\ left.writers = 0)
      BY <2>3, <2>4, <3>2
    <3> QED
      BY <3>1, <3>2
  <2> HIDE DEF p
  <2>6. /\ Strung(q) /\ Len(q) = Len(ps) /\ DOMAIN q = DOMAIN ps /\ q[i] = p
        /\ \A k \in DOMAIN ps : k # i => q[k] = ps[k]
    BY <2>0, <2>1, StrungExcept
  <2> HIDE DEF q
  <2>7. Proper(q)
    BY <2>5, <2>6 DEF Proper
  <2> QED
    BY <2>5, <2>6, <2>7 DEF q
<1> QED
  BY <1>1, <1>2

\* Ends are added to a pipe that somebody has an end of.
LEMMA GivenIs ==
  ASSUME NEW ps, Strung(ps), Proper(ps), NEW i \in DOMAIN ps \cup {0},
         NEW r \in {0, 1}, NEW w \in {0, 1},
         i # 0 => ps[i].readers > 0 \/ ps[i].writers > 0
  PROVE  LET q == Sh!Given(ps, i, r, w)
         IN  /\ Strung(q) /\ Len(q) = Len(ps) /\ DOMAIN q = DOMAIN ps /\ Proper(q)
             /\ \A k \in DOMAIN ps : /\ q[k].readers = IF k = i THEN ps[k].readers + r ELSE ps[k].readers
                                     /\ q[k].writers = IF k = i THEN ps[k].writers + w ELSE ps[k].writers
<1> DEFINE q == Sh!Given(ps, i, r, w)
<1>0. 0 \notin DOMAIN ps
  BY DEF Strung
<1>1. CASE i = 0
  <2>1. q = ps
    BY <1>1 DEF Sh!Given
  <2> QED
    BY <1>0, <1>1, <2>1
<1>2. CASE i # 0
  <2> DEFINE p == Sh!AddEnds(ps[i], r, w)
  <2>0. i \in DOMAIN ps
    BY <1>2
  <2>1. q = [ps EXCEPT ![i] = p]
    BY <1>2 DEF Sh!Given
  <2>2. /\ DOMAIN ps[i] = {"buf", "readers", "writers"}
        /\ ps[i].readers \in Nat /\ ps[i].writers \in Nat
    BY <2>0 DEF Proper
  <2>3. ps[i] # Sh!NoPipe
    BY <1>2, <2>2 DEF Sh!NoPipe
  <2>4. p = [ps[i] EXCEPT !.readers = @ + r, !.writers = @ + w]
    BY <2>3 DEF Sh!AddEnds, Sh!Exists
  <2>5. /\ DOMAIN p = {"buf", "readers", "writers"}
        /\ p.readers = ps[i].readers + r /\ p.writers = ps[i].writers + w
        /\ p.readers \in Nat /\ p.writers \in Nat
        /\ ~(p.readers = 0 /\ p.writers = 0)
    BY <1>2, <2>2, <2>4
  <2> HIDE DEF p
  <2>6. /\ Strung(q) /\ Len(q) = Len(ps) /\ DOMAIN q = DOMAIN ps /\ q[i] = p
        /\ \A k \in DOMAIN ps : k # i => q[k] = ps[k]
    BY <2>0, <2>1, StrungExcept
  <2> HIDE DEF q
  <2>7. Proper(q)
    BY <2>5, <2>6 DEF Proper
  <2> QED
    BY <2>5, <2>6, <2>7 DEF q
<1> QED
  BY <1>1, <1>2

\* Stage i of pr is what it is in old, but for its state and its code.
Moved(old, pr, i, to) ==
  /\ Strung(pr) /\ Len(pr) = Len(old) /\ \A j \in DOMAIN old : j # i => pr[j] = old[j]
  /\ DOMAIN pr[i] = DOMAIN old[i] /\ pr[i].in = old[i].in /\ pr[i].out = old[i].out
  /\ pr[i].st = to

LEMMA MovedIs ==
  ASSUME NEW old, Strung(old), NEW i \in DOMAIN old, DOMAIN old[i] = {"prog", "in", "out", "st", "code"},
         NEW to, NEW code
  PROVE  /\ Moved(old, [old EXCEPT ![i].st = to], i, to)
         /\ Moved(old, [old EXCEPT ![i].st = to, ![i].code = code], i, to)
<1>1. ASSUME NEW x, DOMAIN x = DOMAIN old[i], x.in = old[i].in, x.out = old[i].out, x.st = to
      PROVE  Moved(old, [old EXCEPT ![i] = x], i, to)
  BY <1>1, StrungExcept DEF Moved
<1>2. [old EXCEPT ![i].st = to] = [old EXCEPT ![i] = [old[i] EXCEPT !.st = to]]
  OBVIOUS
<1>3. [old EXCEPT ![i].st = to, ![i].code = code]
        = [old EXCEPT ![i] = [old[i] EXCEPT !.st = to, !.code = code]]
  OBVIOUS
<1>4. Moved(old, [old EXCEPT ![i] = [old[i] EXCEPT !.st = to]], i, to)
  <2> DEFINE x == [old[i] EXCEPT !.st = to]
  <2>1. DOMAIN x = DOMAIN old[i] /\ x.in = old[i].in /\ x.out = old[i].out /\ x.st = to
    OBVIOUS
  <2> HIDE DEF x
  <2>2. Moved(old, [old EXCEPT ![i] = x], i, to)
    BY <1>1, <2>1
  <2> QED
    BY <2>2 DEF x
<1>5. Moved(old, [old EXCEPT ![i] = [old[i] EXCEPT !.st = to, !.code = code]], i, to)
  <2> DEFINE x == [old[i] EXCEPT !.st = to, !.code = code]
  <2>1. DOMAIN x = DOMAIN old[i] /\ x.in = old[i].in /\ x.out = old[i].out /\ x.st = to
    OBVIOUS
  <2> HIDE DEF x
  <2>2. Moved(old, [old EXCEPT ![i] = x], i, to)
    BY <1>1, <2>1
  <2> QED
    BY <2>2 DEF x
<1> QED
  BY <1>2, <1>3, <1>4, <1>5

\* Whose ends a stage's move changes.
LEMMA MovedEnds ==
  ASSUME NEW ps, Strung(ps), NEW old, Strung(old), Wired(ps, old), NEW i \in DOMAIN old,
         NEW pr, NEW to \in {"read", "write", "dead", "reaped", "none"}, Moved(old, pr, i, to)
  PROVE  /\ DOMAIN pr = DOMAIN old /\ Wired(ps, pr)
         /\ \A k : k + 1 # i => ReadsOf(pr, k) = ReadsOf(old, k)
         /\ \A k : k # i => WritesOf(pr, k) = WritesOf(old, k)
         /\ \A k : k + 1 = i => (ReadsOf(pr, k) <=> to \in {"read", "write"} /\ old[i].in = k)
         /\ WritesOf(pr, i) <=> to \in {"read", "write"} /\ old[i].out = i
<1>1. DOMAIN pr = DOMAIN old
  BY DEF Moved, Strung
<1>2. Wired(ps, pr)
  BY <1>1 DEF Wired, Moved
<1> QED
  BY <1>1, <1>2 DEF Moved, ReadsOf, WritesOf, Awake

\* A stage that ends leaves its ends, and no more.
LEMMA Leaves ==
  ASSUME NEW ps, Strung(ps), Proper(ps), Strung(procs), Wired(ps, procs), CountedEnds(ps, held, procs),
         NEW i \in DOMAIN procs, Awake(procs, i), NEW pr, Moved(procs, pr, i, "dead")
  PROVE  LET q == Sh!EndsLeft(ps, i)
         IN  Strung(q) /\ Len(q) = Len(ps) /\ Proper(q) /\ CountedEnds(q, held, pr) /\ Wired(q, pr)
<1> DEFINE in  == procs[i].in
           out == procs[i].out
           mid == Sh!Taken(ps, in, 1, 0)
           q   == Sh!Taken(mid, out, 0, 1)
<1>1. /\ i \in Nat /\ DOMAIN ps = 1..Len(ps) /\ Len(ps) \in Nat
      /\ in \in {0, i - 1} /\ out \in {0, i} /\ in <= Len(ps) /\ out <= Len(ps) /\ i >= 1
  BY DEF Strung, Wired
<1>2. in \in DOMAIN ps \cup {0} /\ out \in DOMAIN ps \cup {0}
  BY <1>1
<1>3. in # 0 => ReadsOf(procs, in)
  BY <1>1 DEF ReadsOf
<1>4. out # 0 => WritesOf(procs, out)
  BY <1>1 DEF WritesOf
<1>5. in # 0 => ps[in].readers >= 1 /\ ps[in].writers >= 0
  <2> SUFFICES ASSUME in # 0 PROVE ps[in].readers >= 1 /\ ps[in].writers >= 0
    OBVIOUS
  <2>1. in \in DOMAIN ps /\ ps[in].readers = One(<<in, "r">> \in held) + 1
    BY <1>2, <1>3 DEF CountedEnds, One
  <2>2. ps[in].writers \in Nat
    BY <2>1 DEF Proper
  <2> QED
    BY <2>1, <2>2 DEF One
<1>6. out # 0 => ps[out].writers >= 1 /\ ps[out].readers >= 0
  <2> SUFFICES ASSUME out # 0 PROVE ps[out].writers >= 1 /\ ps[out].readers >= 0
    OBVIOUS
  <2>1. out \in DOMAIN ps /\ ps[out].writers = One(<<out, "w">> \in held) + 1
    BY <1>2, <1>4 DEF CountedEnds, One
  <2>2. ps[out].readers \in Nat
    BY <2>1 DEF Proper
  <2> QED
    BY <2>1, <2>2 DEF One
<1> HIDE DEF in, out
<1>7. /\ Strung(mid) /\ Len(mid) = Len(ps) /\ DOMAIN mid = DOMAIN ps /\ Proper(mid)
      /\ \A k \in DOMAIN ps : /\ mid[k].readers = IF k = in THEN ps[k].readers - 1 ELSE ps[k].readers
                              /\ mid[k].writers = IF k = in THEN ps[k].writers - 0 ELSE ps[k].writers
  BY <1>2, <1>5, TakenIs
<1> HIDE DEF mid
<1>8. out # 0 => mid[out].writers >= 1 /\ mid[out].readers >= 0
  <2> SUFFICES ASSUME out # 0 PROVE mid[out].writers >= 1 /\ mid[out].readers >= 0
    OBVIOUS
  <2>1. out \in DOMAIN ps
    BY <1>2
  <2>2. mid[out].writers \in Nat /\ mid[out].readers \in Nat /\ ps[out].writers \in Nat
    BY <1>7, <2>1 DEF Proper
  <2> QED
    BY <1>6, <1>7, <2>1, <2>2
<1>9. /\ Strung(q) /\ Len(q) = Len(mid) /\ DOMAIN q = DOMAIN mid /\ Proper(q)
      /\ \A k \in DOMAIN mid : /\ q[k].readers = IF k = out THEN mid[k].readers - 0 ELSE mid[k].readers
                               /\ q[k].writers = IF k = out THEN mid[k].writers - 1 ELSE mid[k].writers
  <2>1. out \in DOMAIN mid \cup {0}
    BY <1>2, <1>7
  <2> QED
    BY <1>7, <1>8, <2>1, TakenIs
<1> HIDE DEF q
<1>10. q = Sh!EndsLeft(ps, i)
  BY DEF q, mid, in, out, Sh!EndsLeft
<1>11. Wired(ps, pr) /\ DOMAIN pr = DOMAIN procs
  BY MovedEnds
<1>12. Wired(q, pr)
  BY <1>7, <1>9, <1>11 DEF Wired
<1>13. ASSUME NEW k \in DOMAIN ps
       PROVE  /\ One(ReadsOf(pr, k)) = IF k = in THEN One(ReadsOf(procs, k)) - 1 ELSE One(ReadsOf(procs, k))
              /\ One(WritesOf(pr, k)) = IF k = out THEN One(WritesOf(procs, k)) - 1 ELSE One(WritesOf(procs, k))
  <2>0. k \in Nat /\ k >= 1
    BY <1>1
  <2>1. "dead" \notin {"read", "write"}
    OBVIOUS
  <2>2. One(ReadsOf(pr, k)) = IF k = in THEN One(ReadsOf(procs, k)) - 1 ELSE One(ReadsOf(procs, k))
    <3>1. CASE k + 1 = i
      <4>1. ~ReadsOf(pr, k)
        BY <2>1, <3>1, MovedEnds
      <4>2. ReadsOf(procs, k) <=> k = in
        BY <2>0, <3>1 DEF ReadsOf, in
      <4> QED
        BY <4>1, <4>2 DEF One
    <3>2. CASE k + 1 # i
      <4>1. ReadsOf(pr, k) = ReadsOf(procs, k)
        BY <3>2, MovedEnds
      <4>2. k # in
        BY <1>1, <2>0, <3>2 DEF in
      <4> QED
        BY <4>1, <4>2
    <3> QED
      BY <3>1, <3>2
  <2>3. One(WritesOf(pr, k)) = IF k = out THEN One(WritesOf(procs, k)) - 1 ELSE One(WritesOf(procs, k))
    <3>1. CASE k = i
      <4>1. ~WritesOf(pr, k)
        BY <2>1, <3>1, MovedEnds
      <4>2. WritesOf(procs, k) <=> k = out
        BY <2>0, <3>1 DEF WritesOf, out
      <4> QED
        BY <4>1, <4>2 DEF One
    <3>2. CASE k # i
      <4>1. WritesOf(pr, k) = WritesOf(procs, k)
        BY <3>2, MovedEnds
      <4>2. k # out
        BY <1>1, <2>0, <3>2 DEF out
      <4> QED
        BY <4>1, <4>2
    <3> QED
      BY <3>1, <3>2
  <2> QED
    BY <2>2, <2>3
<1>14. CountedEnds(q, held, pr)
  <2> SUFFICES ASSUME NEW k \in DOMAIN q
               PROVE  /\ q[k].readers = One(<<k, "r">> \in held) + One(ReadsOf(pr, k))
                      /\ q[k].writers = One(<<k, "w">> \in held) + One(WritesOf(pr, k))
    BY DEF CountedEnds
  <2>1. k \in DOMAIN ps
    BY <1>7, <1>9
  <2>2. /\ ps[k].readers = One(<<k, "r">> \in held) + One(ReadsOf(procs, k))
        /\ ps[k].writers = One(<<k, "w">> \in held) + One(WritesOf(procs, k))
    BY <2>1 DEF CountedEnds
  <2>3. \A b \in BOOLEAN : One(b) \in Nat
    BY DEF One
  <2>4. ps[k].readers \in Nat /\ ps[k].writers \in Nat /\ mid[k].readers \in Nat /\ mid[k].writers \in Nat
    BY <1>7, <2>1 DEF Proper
  <2>5. /\ q[k].readers = IF k = in THEN ps[k].readers - 1 ELSE ps[k].readers
        /\ q[k].writers = IF k = out THEN ps[k].writers - 1 ELSE ps[k].writers
    BY <1>7, <1>9, <2>1, <2>4
  <2>6. One(<<k, "r">> \in held) \in Nat /\ One(<<k, "w">> \in held) \in Nat
        /\ One(ReadsOf(procs, k)) \in Nat /\ One(WritesOf(procs, k)) \in Nat
    BY DEF One
  <2> QED
    BY <1>13, <2>1, <2>2, <2>5, <2>6
<1> QED
  BY <1>7, <1>9, <1>10, <1>12, <1>14

\* One that goes on keeps its ends.
LEMMA StaysCounted ==
  ASSUME NEW ps, Strung(ps), NEW h, NEW old, Strung(old), Wired(ps, old), CountedEnds(ps, h, old),
         NEW i \in DOMAIN old, Awake(old, i), NEW pr, NEW to \in {"read", "write"}, Moved(old, pr, i, to)
  PROVE  CountedEnds(ps, h, pr) /\ Wired(ps, pr)
<1>1. \A k : ReadsOf(pr, k) <=> ReadsOf(old, k)
  <2> SUFFICES ASSUME NEW k PROVE ReadsOf(pr, k) <=> ReadsOf(old, k)
    OBVIOUS
  <2>1. CASE k + 1 = i
    <3>1. ReadsOf(pr, k) <=> old[i].in = k
      BY <2>1, MovedEnds
    <3> QED
      BY <2>1, <3>1 DEF ReadsOf
  <2>2. CASE k + 1 # i
    BY <2>2, MovedEnds
  <2> QED
    BY <2>1, <2>2
<1>2. \A k : WritesOf(pr, k) <=> WritesOf(old, k)
  <2> SUFFICES ASSUME NEW k PROVE WritesOf(pr, k) <=> WritesOf(old, k)
    OBVIOUS
  <2>1. CASE k = i
    <3>1. WritesOf(pr, i) <=> old[i].out = i
      BY MovedEnds
    <3> QED
      BY <2>1, <3>1 DEF WritesOf
  <2>2. CASE k # i
    BY <2>2, MovedEnds
  <2> QED
    BY <2>1, <2>2
<1>3. CountedEnds(ps, h, pr)
  BY <1>1, <1>2 DEF CountedEnds, One
<1> QED
  BY <1>3, MovedEnds

SameEnds(x, y) == DOMAIN x = DOMAIN y /\ x.readers = y.readers /\ x.writers = y.writers
Put(q, ps, k, x) == q = [ps EXCEPT ![k] = x]

\* What is in a pipe that a stage has an end of makes no difference.
LEMMA PipeTouched ==
  ASSUME NEW ps, Strung(ps), Proper(ps), NEW h, NEW pr, CountedEnds(ps, h, pr), Wired(ps, pr),
         NEW k \in DOMAIN ps, ReadsOf(pr, k) \/ WritesOf(pr, k),
         NEW x, SameEnds(x, ps[k]), NEW q, Put(q, ps, k, x)
  PROVE  /\ Strung(q) /\ Len(q) = Len(ps) /\ Proper(q)
         /\ CountedEnds(q, h, pr) /\ Wired(q, pr)
<1>1. /\ Strung(q) /\ Len(q) = Len(ps) /\ DOMAIN q = DOMAIN ps /\ q[k] = x
      /\ \A j \in DOMAIN ps : j # k => q[j] = ps[j]
  <2>0. Len(ps) \in Nat /\ ps = [i \in 1..Len(ps) |-> ps[i]]
    BY DEF Strung
  <2>1. Strung(q) /\ Len(q) = Len(ps)
    <3>1. q = [i \in 1..Len(ps) |-> q[i]]
      BY <2>0 DEF Put
    <3> QED
      BY <2>0, <3>1, StrungIs
  <2>2. DOMAIN q = DOMAIN ps /\ q[k] = x /\ \A j \in DOMAIN ps : j # k => q[j] = ps[j]
    BY DEF Put
  <2> QED
    BY <2>1, <2>2
<1>2. ~(x.readers = 0 /\ x.writers = 0)
  <2>1. /\ ps[k].readers = One(<<k, "r">> \in h) + One(ReadsOf(pr, k))
        /\ ps[k].writers = One(<<k, "w">> \in h) + One(WritesOf(pr, k))
    BY DEF CountedEnds
  <2> QED
    BY <2>1 DEF One, SameEnds
<1>3. Proper(q)
  BY <1>1, <1>2 DEF Proper, SameEnds
<1>4. CountedEnds(q, h, pr)
  BY <1>1 DEF CountedEnds, SameEnds
<1>5. Wired(q, pr)
  BY <1>1 DEF Wired
<1> QED
  BY <1>1, <1>3, <1>4, <1>5

LEMMA StandsStill ==
  ASSUME PipelineHolds, NEW i \in DOMAIN procs, Awake(procs, i), NEW to,
         Moved(procs, procs', i, to), Len(pipes') = Len(pipes), Sh!Elsewhere
  PROVE  Stands'
<1>1. DOMAIN procs' = DOMAIN procs /\ Len(procs') = Len(procs)
  BY DEF Moved, Strung, PipelineHolds
<1>2. \A n : Over(procs, n) => Over(procs', n)
  <2> SUFFICES ASSUME NEW n, Over(procs, n), NEW j \in 1..n, j \in DOMAIN procs'
               PROVE  procs'[j].st \in {"reaped", "none"}
    BY DEF Over
  <2>1. procs[j].st \in {"reaped", "none"}
    BY <1>1 DEF Over
  <2>2. j # i
    BY <2>1 DEF Awake
  <2> QED
    BY <1>1, <2>1, <2>2 DEF Moved
<1>3. UNCHANGED <<phase, stages, at, held>>
  BY DEF Sh!Elsewhere
<1> HIDE DEF Over
<1>4. Over(procs, at - 1) => Over(procs', at' - 1)
  BY <1>2, <1>3
<1>5. Over(procs, Len(procs)) => Over(procs', Len(procs'))
  BY <1>1, <1>2
<1> QED
  BY <1>1, <1>3, <1>4, <1>5 DEF Stands, PipelineHolds

LEMMA StageStep ==
  ASSUME PipelineHolds, NEW i \in DOMAIN procs, Awake(procs, i), NEW to,
         Moved(procs, procs', i, to), Sh!Elsewhere,
         Strung(pipes'), Len(pipes') = Len(pipes), Proper(pipes'),
         CountedEnds(pipes', held, procs'), Wired(pipes', procs')
  PROVE  PipelineHolds'
<1>1. Stands'
  BY StandsStill
<1>2. Strung(procs')
  BY DEF Moved
<1>3. UNCHANGED <<phase, stages, at, held>>
  BY DEF Sh!Elsewhere
<1> QED
  BY <1>1, <1>2, <1>3 DEF PipelineHolds

LEMMA EndKeeps ==
  ASSUME PipelineHolds, NEW i \in DOMAIN procs, Awake(procs, i), NEW code,
         procs' = Sh!Ended(i, code), NEW ps, pipes' = Sh!EndsLeft(ps, i),
         Strung(ps), Len(ps) = Len(pipes), Proper(ps), CountedEnds(ps, held, procs), Wired(ps, procs),
         Sh!Elsewhere
  PROVE  PipelineHolds'
<1>1. Strung(procs) /\ DOMAIN procs[i] = {"prog", "in", "out", "st", "code"}
  BY DEF PipelineHolds, Wired
<1>2. Moved(procs, procs', i, "dead")
  BY <1>1, MovedIs DEF Sh!Ended
<1>3. /\ Strung(pipes') /\ Len(pipes') = Len(ps) /\ Proper(pipes')
      /\ CountedEnds(pipes', held, procs') /\ Wired(pipes', procs')
  BY <1>1, <1>2, Leaves
<1> QED
  BY <1>2, <1>3, StageStep

LEMMA GoOnKeeps ==
  ASSUME PipelineHolds, NEW i \in DOMAIN procs, Awake(procs, i), NEW to \in {"read", "write"},
         procs' = [procs EXCEPT ![i].st = to],
         Strung(pipes'), Len(pipes') = Len(pipes), Proper(pipes'), CountedEnds(pipes', held, procs),
         Wired(pipes', procs), Sh!Elsewhere
  PROVE  PipelineHolds'
<1>1. Strung(procs) /\ DOMAIN procs[i] = {"prog", "in", "out", "st", "code"}
  BY DEF PipelineHolds, Wired
<1>2. Moved(procs, procs', i, to)
  BY <1>1, MovedIs
<1>3. CountedEnds(pipes', held, procs') /\ Wired(pipes', procs')
  BY <1>1, <1>2, StaysCounted
<1> QED
  BY <1>2, <1>3, StageStep

LEMMA ReadsKeep == ASSUME PipelineHolds, NEW i, Sh!Reads(i) PROVE PipelineHolds'
<1> DEFINE in == procs[i].in
<1>1. i \in DOMAIN procs /\ Awake(procs, i) /\ Sh!Elsewhere
  BY DEF Sh!Reads, Sh!Running, Awake
<1>2. /\ Strung(pipes) /\ Proper(pipes) /\ CountedEnds(pipes, held, procs) /\ Wired(pipes, procs)
      /\ Strung(procs)
  BY DEF PipelineHolds
<1>3. CASE procs' = [procs EXCEPT ![i].st = "write"] /\ UNCHANGED pipes
  BY <1>1, <1>2, <1>3, GoOnKeeps
<1>4. CASE /\ in # 0 /\ pipes' = [pipes EXCEPT ![in] = Sh!Drain(@, 1)]
           /\ procs' = [procs EXCEPT ![i].st = "write"]
  <2>1. in \in DOMAIN pipes /\ ReadsOf(procs, in)
    <3>1. i \in Nat /\ in = i - 1 /\ in <= Len(pipes) /\ i >= 1 /\ DOMAIN pipes = 1..Len(pipes)
          /\ Len(pipes) \in Nat
      BY <1>1, <1>2, <1>4 DEF Wired, Strung
    <3>2. in \in DOMAIN pipes /\ in + 1 = i
      BY <1>4, <3>1
    <3> QED
      BY <1>1, <3>2 DEF ReadsOf
  <2> DEFINE x == Sh!Drain(pipes[in], 1)
  <2>2. SameEnds(x, pipes[in])
    BY <1>2, <2>1 DEF Sh!Drain, Proper, SameEnds
  <2>3. pipes' = [pipes EXCEPT ![in] = x]
    BY <1>4
  <2> HIDE DEF x, in
  <2>4. /\ Strung(pipes') /\ Len(pipes') = Len(pipes) /\ Proper(pipes')
        /\ CountedEnds(pipes', held, procs) /\ Wired(pipes', procs)
    <3> DEFINE q == pipes'
    <3>1. Put(q, pipes, in, x)
      BY <2>3 DEF Put
    <3> HIDE DEF q
    <3>2. /\ Strung(q) /\ Len(q) = Len(pipes) /\ Proper(q)
          /\ CountedEnds(q, held, procs) /\ Wired(q, procs)
      BY <1>2, <2>1, <2>2, <3>1, PipeTouched
    <3> QED
      BY <3>2 DEF q
  <2> QED
    BY <1>1, <1>4, <2>4, GoOnKeeps
<1>5. CASE procs' = Sh!Ended(i, 0) /\ pipes' = Sh!EndsLeft(pipes, i)
  BY <1>1, <1>2, <1>5, EndKeeps
<1> QED
  BY <1>3, <1>4, <1>5 DEF Sh!Reads

LEMMA WritesKeep == ASSUME PipelineHolds, NEW i, Sh!Writes(i) PROVE PipelineHolds'
<1> DEFINE out == procs[i].out
           filled == IF out = 0 THEN pipes ELSE [pipes EXCEPT ![out] = Sh!Fill(@, <<"y">>)]
<1>1. i \in DOMAIN procs /\ Awake(procs, i) /\ Sh!Elsewhere
  BY DEF Sh!Writes, Sh!Running, Awake
<1>2. /\ Strung(pipes) /\ Proper(pipes) /\ CountedEnds(pipes, held, procs) /\ Wired(pipes, procs)
      /\ Strung(procs)
  BY DEF PipelineHolds
<1>3. CASE procs' = Sh!Ended(i, 1) /\ pipes' = Sh!EndsLeft(pipes, i)
  BY <1>1, <1>2, <1>3, EndKeeps
<1>4. /\ Strung(filled) /\ Len(filled) = Len(pipes) /\ Proper(filled)
      /\ CountedEnds(filled, held, procs) /\ Wired(filled, procs)
  <2>1. CASE out = 0
    BY <1>2, <2>1
  <2>2. CASE out # 0
    <3>1. out \in DOMAIN pipes /\ WritesOf(procs, out)
      <4>1. i \in Nat /\ out = i /\ out <= Len(pipes) /\ i >= 1 /\ DOMAIN pipes = 1..Len(pipes)
            /\ Len(pipes) \in Nat
        BY <1>1, <1>2, <2>2 DEF Wired, Strung
      <4> QED
        BY <1>1, <4>1 DEF WritesOf
    <3> DEFINE x == Sh!Fill(pipes[out], <<"y">>)
    <3>2. SameEnds(x, pipes[out])
      BY <1>2, <3>1 DEF Sh!Fill, Proper, SameEnds
    <3>3. Put(filled, pipes, out, x)
      BY <2>2 DEF Put
    <3> HIDE DEF x, out, filled
    <3> QED
      BY <1>2, <3>1, <3>2, <3>3, PipeTouched
  <2> QED
    BY <2>1, <2>2
<1> HIDE DEF filled
<1>5. CASE procs' = Sh!Ended(i, 0) /\ pipes' = Sh!EndsLeft(filled, i)
  BY <1>1, <1>4, <1>5, EndKeeps
<1>6. CASE procs' = [procs EXCEPT ![i].st = "read"] /\ pipes' = filled
  BY <1>1, <1>4, <1>6, GoOnKeeps
<1> QED
  BY <1>3, <1>5, <1>6 DEF Sh!Writes, filled

LEMMA TypesKeep == ASSUME PipelineHolds, NEW i, Sh!TypesTo(i) PROVE PipelineHolds'
<1>1. /\ i \in DOMAIN procs /\ Awake(procs, i) /\ Sh!Elsewhere
      /\ procs' = [procs EXCEPT ![i].st = "write"] /\ UNCHANGED pipes
  BY DEF Sh!TypesTo, Sh!AtTerminal, Sh!Running, Awake
<1>2. /\ Strung(pipes) /\ Proper(pipes) /\ CountedEnds(pipes, held, procs) /\ Wired(pipes, procs)
      /\ Strung(procs)
  BY DEF PipelineHolds
<1> QED
  BY <1>1, <1>2, GoOnKeeps

LEMMA KilledKeeps == ASSUME PipelineHolds, NEW i, Sh!Killed(i) PROVE PipelineHolds'
<1>1. i \in DOMAIN procs /\ Awake(procs, i) /\ Sh!Elsewhere
  BY DEF Sh!Killed, Sh!Running, Awake
<1>2. /\ Strung(pipes) /\ Proper(pipes) /\ CountedEnds(pipes, held, procs) /\ Wired(pipes, procs)
  BY DEF PipelineHolds
<1>3. procs' = Sh!Ended(i, 137) /\ pipes' = Sh!EndsLeft(pipes, i)
  BY DEF Sh!Killed
<1> QED
  BY <1>1, <1>2, <1>3, EndKeeps

\* A pipe is made: the shell has both its ends.
LEMMA MakePipeKeeps == ASSUME PipelineHolds, Sh!MakePipe PROVE PipelineHolds'
<1>0. /\ Len(stages) \in Nat /\ at \in Nat \ {0} /\ at <= Len(stages)
      /\ Strung(pipes) /\ Len(pipes) = at - 1 /\ DOMAIN pipes = 1..(at - 1)
      /\ held = EndsFrom(1, at - 1) /\ Strung(procs) /\ Len(procs) = 0 /\ DOMAIN procs = {}
      /\ Proper(pipes) /\ CountedEnds(pipes, held, procs) /\ Wired(pipes, procs)
  BY DEF PipelineHolds, Stands, Strung, Sh!MakePipe
<1>1. UNCHANGED <<stages, procs>>
  BY DEF Sh!MakePipe
<1>2. CASE at < Len(stages)
  <2> DEFINE q == pipes'
             h == held'
  <2>1. /\ q = Append(pipes, Sh!NewPipe) /\ h = held \cup {<<at, "r">>, <<at, "w">>}
        /\ at' = at + 1 /\ phase' = "pipe"
    BY <1>2 DEF Sh!MakePipe
  <2> HIDE DEF q, h
  <2>2. /\ Strung(q) /\ Len(q) = at /\ q[at] = Sh!NewPipe
        /\ \A i \in 1..(at - 1) : q[i] = pipes[i]
    <3>1. at = Len(pipes) + 1
      BY <1>0
    <3> QED
      BY <1>0, <2>1, <3>1, StrungAppend
  <2>3. DOMAIN q = 1..at
    BY <2>2 DEF Strung
  <2>4. h = EndsFrom(1, at)
    <3>1. 1..at = (1..(at - 1)) \cup {at}
      BY <1>0
    <3> QED
      BY <1>0, <2>1, <3>1 DEF EndsFrom
  <2>5. Proper(q)
    <3>1. /\ DOMAIN Sh!NewPipe = {"buf", "readers", "writers"}
          /\ Sh!NewPipe.readers = 1 /\ Sh!NewPipe.writers = 1
      BY DEF Sh!NewPipe
    <3>2. \A i \in 1..at : i \in 1..(at - 1) \/ i = at
      BY <1>0
    <3> QED
      BY <1>0, <2>2, <2>3, <3>1, <3>2 DEF Proper
  <2>6. CountedEnds(q, h, procs)
    <3> SUFFICES ASSUME NEW i \in 1..at
                 PROVE  /\ q[i].readers = One(<<i, "r">> \in h) + One(ReadsOf(procs, i))
                        /\ q[i].writers = One(<<i, "w">> \in h) + One(WritesOf(procs, i))
      BY <2>3 DEF CountedEnds
    <3>1. ~ReadsOf(procs, i) /\ ~WritesOf(procs, i)
      BY <1>0 DEF ReadsOf, WritesOf, Awake
    <3>2. <<i, "r">> \in h /\ <<i, "w">> \in h
      BY <2>4 DEF EndsFrom
    <3>3. CASE i = at
      BY <2>2, <3>1, <3>2, <3>3 DEF One, Sh!NewPipe
    <3>4. CASE i # at
      <4>1. i \in 1..(at - 1)
        BY <1>0, <3>4
      <4>2. <<i, "r">> \in held /\ <<i, "w">> \in held
        BY <1>0, <4>1 DEF EndsFrom
      <4> QED
        BY <1>0, <2>2, <3>1, <3>2, <4>1, <4>2 DEF CountedEnds, One
    <3> QED
      BY <3>3, <3>4
  <2>7. Wired(q, procs)
    BY <1>0 DEF Wired
  <2>8. Stands'
    BY <1>0, <1>1, <1>2, <2>1, <2>2, <2>4 DEF Stands, q, h
  <2> QED
    BY <1>0, <1>1, <2>1, <2>2, <2>5, <2>6, <2>7, <2>8 DEF PipelineHolds, q, h
<1>3. CASE ~(at < Len(stages))
  <2>1. phase' = "spawn" /\ at' = 1 /\ UNCHANGED <<pipes, held>>
    BY <1>3 DEF Sh!MakePipe
  <2>2. at = Len(stages)
    BY <1>0, <1>3
  <2>3. Stands'
    BY <1>0, <1>1, <2>1, <2>2 DEF Stands
  <2> QED
    BY <1>0, <1>1, <2>1, <2>3 DEF PipelineHolds
<1> QED
  BY <1>2, <1>3

\* A stage that is started gets an end of the pipe before it and one of its own.
LEMMA Joins ==
  ASSUME NEW ps, Strung(ps), Proper(ps), Strung(procs), Wired(ps, procs), CountedEnds(ps, held, procs),
         held = EndsFrom(1, Len(ps)), NEW i \in Nat \ {0}, Len(procs) = i - 1, NEW x,
         DOMAIN x = {"prog", "in", "out", "st", "code"}, x.in \in {0, i - 1}, x.out \in {0, i},
         x.in <= Len(ps), x.out <= Len(ps), x.st = "read"
  PROVE  LET q  == Sh!Given(Sh!Given(ps, x.in, 1, 0), x.out, 0, 1)
             pr == Append(procs, x)
         IN  Strung(q) /\ Len(q) = Len(ps) /\ Proper(q) /\ CountedEnds(q, held, pr) /\ Wired(q, pr)
<1> DEFINE in  == x.in
           out == x.out
           mid == Sh!Given(ps, in, 1, 0)
           q   == Sh!Given(mid, out, 0, 1)
           pr  == Append(procs, x)
<1>1. /\ i \in Nat /\ DOMAIN ps = 1..Len(ps) /\ Len(ps) \in Nat /\ i >= 1
      /\ DOMAIN procs = 1..(i - 1) /\ Len(procs) = i - 1
      /\ in \in {0, i - 1} /\ out \in {0, i} /\ in <= Len(ps) /\ out <= Len(ps)
  BY DEF Strung
<1>2. in \in DOMAIN ps \cup {0} /\ out \in DOMAIN ps \cup {0}
  BY <1>1
<1>3. /\ Strung(pr) /\ Len(pr) = i /\ DOMAIN pr = 1..i /\ pr[i] = x
      /\ \A j \in DOMAIN procs : pr[j] = procs[j]
  <2>1. Strung(pr) /\ Len(pr) = i /\ pr[i] = x /\ \A j \in 1..Len(procs) : pr[j] = procs[j]
    BY <1>1, StrungAppend
  <2> QED
    BY <1>1, <2>1 DEF Strung
<1> HIDE DEF pr, in, out
<1>4. \A k \in DOMAIN ps : /\ <<k, "r">> \in held /\ <<k, "w">> \in held
                           /\ ps[k].readers > 0 /\ ps[k].writers > 0
                           /\ ps[k].readers \in Nat /\ ps[k].writers \in Nat
  <2> SUFFICES ASSUME NEW k \in DOMAIN ps
               PROVE  /\ <<k, "r">> \in held /\ <<k, "w">> \in held
                      /\ ps[k].readers > 0 /\ ps[k].writers > 0
                      /\ ps[k].readers \in Nat /\ ps[k].writers \in Nat
    OBVIOUS
  <2>1. <<k, "r">> \in held /\ <<k, "w">> \in held
    BY <1>1 DEF EndsFrom
  <2>2. ps[k].readers = 1 + One(ReadsOf(procs, k)) /\ ps[k].writers = 1 + One(WritesOf(procs, k))
    BY <2>1 DEF CountedEnds, One
  <2> QED
    BY <2>1, <2>2 DEF One
<1>5. /\ Strung(mid) /\ Len(mid) = Len(ps) /\ DOMAIN mid = DOMAIN ps /\ Proper(mid)
      /\ \A k \in DOMAIN ps : /\ mid[k].readers = IF k = in THEN ps[k].readers + 1 ELSE ps[k].readers
                              /\ mid[k].writers = IF k = in THEN ps[k].writers + 0 ELSE ps[k].writers
  <2>1. in # 0 => ps[in].readers > 0 \/ ps[in].writers > 0
    BY <1>2, <1>4
  <2> QED
    BY <1>2, <2>1, GivenIs
<1> HIDE DEF mid
<1>6. /\ Strung(q) /\ Len(q) = Len(mid) /\ DOMAIN q = DOMAIN mid /\ Proper(q)
      /\ \A k \in DOMAIN mid : /\ q[k].readers = IF k = out THEN mid[k].readers + 0 ELSE mid[k].readers
                               /\ q[k].writers = IF k = out THEN mid[k].writers + 1 ELSE mid[k].writers
  <2>1. out # 0 => mid[out].readers > 0 \/ mid[out].writers > 0
    <3> SUFFICES ASSUME out # 0 PROVE mid[out].writers > 0
      OBVIOUS
    <3>1. out \in DOMAIN ps
      BY <1>2
    <3>2. ps[out].writers \in Nat /\ ps[out].writers > 0
      BY <1>4, <3>1
    <3>3. mid[out].writers = IF out = in THEN ps[out].writers + 0 ELSE ps[out].writers
      BY <1>5, <3>1
    <3> QED
      BY <3>2, <3>3
  <2>2. out \in DOMAIN mid \cup {0}
    BY <1>2, <1>5
  <2> QED
    BY <1>5, <2>1, <2>2, GivenIs
<1> HIDE DEF q
<1>7. Wired(q, pr)
  <2> SUFFICES ASSUME NEW j \in 1..i
               PROVE  /\ DOMAIN pr[j] = {"prog", "in", "out", "st", "code"}
                      /\ pr[j].in \in {0, j - 1} /\ pr[j].out \in {0, j}
                      /\ pr[j].in <= Len(q) /\ pr[j].out <= Len(q)
                      /\ pr[j].st \in {"read", "write", "dead", "reaped", "none"}
    BY <1>3 DEF Wired
  <2>1. CASE j = i
    BY <1>1, <1>3, <1>5, <1>6, <2>1 DEF in, out
  <2>2. CASE j # i
    <3>1. j \in DOMAIN procs
      BY <1>1, <2>2
    <3> QED
      BY <1>3, <1>5, <1>6, <3>1 DEF Wired
  <2> QED
    BY <2>1, <2>2
<1>8. ASSUME NEW k \in DOMAIN ps
      PROVE  /\ One(ReadsOf(pr, k)) = IF k = in THEN One(ReadsOf(procs, k)) + 1 ELSE One(ReadsOf(procs, k))
             /\ One(WritesOf(pr, k)) = IF k = out THEN One(WritesOf(procs, k)) + 1 ELSE One(WritesOf(procs, k))
  <2>0. k \in Nat /\ k >= 1
    BY <1>1
  <2>1. One(ReadsOf(pr, k)) = IF k = in THEN One(ReadsOf(procs, k)) + 1 ELSE One(ReadsOf(procs, k))
    <3>1. CASE k + 1 = i
      <4>1. ~ReadsOf(procs, k)
        BY <1>1, <3>1 DEF ReadsOf, Awake
      <4>2. ReadsOf(pr, k) <=> k = in
        BY <1>1, <1>3, <2>0, <3>1 DEF ReadsOf, Awake, in
      <4> QED
        BY <4>1, <4>2 DEF One
    <3>2. CASE k + 1 # i
      <4>1. ReadsOf(pr, k) <=> ReadsOf(procs, k)
        <5>1. k + 1 \in 1..i <=> k + 1 \in 1..(i - 1)
          BY <1>1, <2>0, <3>2
        <5> QED
          BY <1>1, <1>3, <5>1 DEF ReadsOf, Awake
      <4>2. k # in
        BY <1>1, <2>0, <3>2
      <4> QED
        BY <4>1, <4>2 DEF One
    <3> QED
      BY <3>1, <3>2
  <2>2. One(WritesOf(pr, k)) = IF k = out THEN One(WritesOf(procs, k)) + 1 ELSE One(WritesOf(procs, k))
    <3>1. CASE k = i
      <4>1. ~WritesOf(procs, k)
        BY <1>1, <3>1 DEF WritesOf, Awake
      <4>2. WritesOf(pr, k) <=> k = out
        BY <1>1, <1>3, <2>0, <3>1 DEF WritesOf, Awake, out
      <4> QED
        BY <4>1, <4>2 DEF One
    <3>2. CASE k # i
      <4>1. WritesOf(pr, k) <=> WritesOf(procs, k)
        <5>1. k \in 1..i <=> k \in 1..(i - 1)
          BY <1>1, <2>0, <3>2
        <5> QED
          BY <1>1, <1>3, <5>1 DEF WritesOf, Awake
      <4>2. k # out
        BY <1>1, <2>0, <3>2
      <4> QED
        BY <4>1, <4>2 DEF One
    <3> QED
      BY <3>1, <3>2
  <2> QED
    BY <2>1, <2>2
<1>9. CountedEnds(q, held, pr)
  <2> SUFFICES ASSUME NEW k \in DOMAIN q
               PROVE  /\ q[k].readers = One(<<k, "r">> \in held) + One(ReadsOf(pr, k))
                      /\ q[k].writers = One(<<k, "w">> \in held) + One(WritesOf(pr, k))
    BY DEF CountedEnds
  <2>1. k \in DOMAIN ps
    BY <1>5, <1>6
  <2>2. /\ ps[k].readers = One(<<k, "r">> \in held) + One(ReadsOf(procs, k))
        /\ ps[k].writers = One(<<k, "w">> \in held) + One(WritesOf(procs, k))
    BY <2>1 DEF CountedEnds
  <2>3. /\ q[k].readers = IF k = in THEN ps[k].readers + 1 ELSE ps[k].readers
        /\ q[k].writers = IF k = out THEN ps[k].writers + 1 ELSE ps[k].writers
    <3>1. ps[k].readers \in Nat /\ ps[k].writers \in Nat
      BY <1>4, <2>1
    <3>2. /\ mid[k].readers = IF k = in THEN ps[k].readers + 1 ELSE ps[k].readers
          /\ mid[k].writers = IF k = in THEN ps[k].writers + 0 ELSE ps[k].writers
      BY <1>5, <2>1
    <3>3. /\ q[k].readers = IF k = out THEN mid[k].readers + 0 ELSE mid[k].readers
          /\ q[k].writers = IF k = out THEN mid[k].writers + 1 ELSE mid[k].writers
      BY <1>5, <1>6, <2>1
    <3>4. mid[k].readers \in Nat /\ mid[k].writers = ps[k].writers
      BY <3>1, <3>2
    <3> QED
      BY <3>1, <3>2, <3>3, <3>4
  <2>4. One(<<k, "r">> \in held) \in Nat /\ One(<<k, "w">> \in held) \in Nat
        /\ One(ReadsOf(procs, k)) \in Nat /\ One(WritesOf(procs, k)) \in Nat
    BY DEF One
  <2> QED
    BY <1>8, <2>1, <2>2, <2>3, <2>4
<1>10. q = Sh!Given(Sh!Given(ps, x.in, 1, 0), x.out, 0, 1)
  BY DEF q, mid, in, out
<1> QED
  BY <1>5, <1>6, <1>7, <1>9, <1>10 DEF pr

\* So does one that is not found, which gets none.
LEMMA Missing ==
  ASSUME Strung(procs), Wired(pipes, procs), CountedEnds(pipes, held, procs), Strung(pipes)
  PROVE  LET pr == Append(procs, Sh!NotSpawned)
         IN  Strung(pr) /\ Len(pr) = Len(procs) + 1 /\ CountedEnds(pipes, held, pr) /\ Wired(pipes, pr)
<1> DEFINE x  == Sh!NotSpawned
           pr == Append(procs, x)
<1>0. Len(procs) \in Nat /\ DOMAIN procs = 1..Len(procs) /\ Len(pipes) \in Nat /\ DOMAIN pipes = 1..Len(pipes)
  BY DEF Strung
<1>1. /\ DOMAIN x = {"prog", "in", "out", "st", "code"} /\ x.in = 0 /\ x.out = 0 /\ x.st = "none"
  BY DEF Sh!NotSpawned
<1> HIDE DEF x
<1>2. /\ Strung(pr) /\ Len(pr) = Len(procs) + 1 /\ pr[Len(procs) + 1] = x
      /\ \A j \in 1..Len(procs) : pr[j] = procs[j]
  BY StrungAppend
<1> HIDE DEF pr
<1>3. DOMAIN pr = 1..(Len(procs) + 1)
  BY <1>2 DEF Strung
<1>4. \A j : /\ j \in DOMAIN procs => j \in DOMAIN pr /\ pr[j] = procs[j]
             /\ j \in DOMAIN pr /\ j \notin DOMAIN procs => pr[j] = x
  BY <1>0, <1>2, <1>3
<1>5. \A j : Awake(pr, j) <=> Awake(procs, j)
  BY <1>1, <1>4 DEF Awake
<1>6. \A k : (ReadsOf(pr, k) <=> ReadsOf(procs, k)) /\ (WritesOf(pr, k) <=> WritesOf(procs, k))
  BY <1>4, <1>5 DEF ReadsOf, WritesOf, Awake
<1>7. CountedEnds(pipes, held, pr)
  BY <1>6 DEF CountedEnds, One
<1>8. Wired(pipes, pr)
  <2> SUFFICES ASSUME NEW j \in DOMAIN pr
               PROVE  /\ DOMAIN pr[j] = {"prog", "in", "out", "st", "code"}
                      /\ pr[j].in \in {0, j - 1} /\ pr[j].out \in {0, j}
                      /\ pr[j].in <= Len(pipes) /\ pr[j].out <= Len(pipes)
                      /\ pr[j].st \in {"read", "write", "dead", "reaped", "none"}
    BY DEF Wired
  <2>1. CASE j \in DOMAIN procs
    BY <1>4, <2>1 DEF Wired
  <2>2. CASE j \notin DOMAIN procs
    BY <1>0, <1>1, <1>4, <2>2
  <2> QED
    BY <2>1, <2>2
<1> QED
  BY <1>2, <1>7, <1>8 DEF pr, x

LEMMA SpawnKeeps == ASSUME PipelineHolds, Sh!Spawn PROVE PipelineHolds'
<1>0. /\ Len(stages) \in Nat /\ at \in Nat \ {0} /\ at <= Len(stages) + 1
      /\ Strung(pipes) /\ Len(pipes) = Len(stages) - 1 /\ Len(pipes) \in Nat
      /\ held = EndsFrom(1, Len(pipes)) /\ Strung(procs) /\ Len(procs) = at - 1
      /\ Proper(pipes) /\ CountedEnds(pipes, held, procs) /\ Wired(pipes, procs)
  BY DEF PipelineHolds, Stands, Strung, Sh!Spawn
<1>1. UNCHANGED <<stages, held>>
  BY DEF Sh!Spawn
<1>2. CASE at > Len(stages)
  <2>1. phase' = "close" /\ at' = 1 /\ UNCHANGED <<pipes, procs>>
    BY <1>2 DEF Sh!Spawn
  <2>2. Len(procs) = Len(stages) /\ 1 <= Len(stages)
    BY <1>0, <1>2
  <2>3. Stands'
    BY <1>0, <1>1, <2>1, <2>2 DEF Stands
  <2> QED
    BY <1>0, <1>1, <2>1, <2>3 DEF PipelineHolds
<1>3. CASE ~(at > Len(stages))
  <2>1. at' = at + 1 /\ phase' = "spawn"
    BY <1>3 DEF Sh!Spawn
  <2>2. /\ Strung(pipes') /\ Len(pipes') = Len(pipes) /\ Proper(pipes')
        /\ Strung(procs') /\ Len(procs') = at
        /\ CountedEnds(pipes', held, procs') /\ Wired(pipes', procs')
    <3>1. CASE procs' = Append(procs, Sh!NotSpawned) /\ UNCHANGED pipes
      <4>1. Strung(procs') /\ Len(procs') = Len(procs) + 1
            /\ CountedEnds(pipes, held, procs') /\ Wired(pipes, procs')
        BY <1>0, <3>1, Missing
      <4> QED
        BY <1>0, <3>1, <4>1
    <3> DEFINE x(p) == [prog |-> p, in |-> Sh!StdinOf(at), out |-> Sh!StdoutOf(at), st |-> "read", code |-> 0]
    <3>2. ASSUME NEW p, procs' = Append(procs, x(p)),
                 pipes' = Sh!Given(Sh!Given(pipes, Sh!StdinOf(at), 1, 0), Sh!StdoutOf(at), 0, 1)
          PROVE  /\ Strung(pipes') /\ Len(pipes') = Len(pipes) /\ Proper(pipes')
                 /\ Strung(procs') /\ Len(procs') = at
                 /\ CountedEnds(pipes', held, procs') /\ Wired(pipes', procs')
      <4> DEFINE y == x(p)
      <4>1. /\ DOMAIN y = {"prog", "in", "out", "st", "code"} /\ y.st = "read"
            /\ y.in = Sh!StdinOf(at) /\ y.out = Sh!StdoutOf(at)
        OBVIOUS
      <4>2. /\ y.in \in {0, at - 1} /\ y.out \in {0, at}
            /\ y.in <= Len(pipes) /\ y.out <= Len(pipes)
        <5>1. Sh!StdinOf(at) \in {0, at - 1} /\ Sh!StdinOf(at) <= Len(pipes)
          BY <1>0, <1>3 DEF Sh!StdinOf
        <5>2. Sh!StdoutOf(at) \in {0, at} /\ Sh!StdoutOf(at) <= Len(pipes)
          BY <1>0, <1>3 DEF Sh!StdoutOf
        <5> QED
          BY <4>1, <5>1, <5>2
      <4>3. procs' = Append(procs, y) /\ pipes' = Sh!Given(Sh!Given(pipes, y.in, 1, 0), y.out, 0, 1)
        BY <3>2, <4>1
      <4> HIDE DEF y
      <4>4. /\ Strung(pipes') /\ Len(pipes') = Len(pipes) /\ Proper(pipes')
            /\ CountedEnds(pipes', held, procs') /\ Wired(pipes', procs')
        BY <1>0, <4>1, <4>2, <4>3, Joins
      <4>5. Strung(procs') /\ Len(procs') = at
        BY <1>0, <4>3, StrungAppend
      <4> QED
        BY <4>4, <4>5
    <3> HIDE DEF x
    <3>3. \/ procs' = Append(procs, Sh!NotSpawned) /\ UNCHANGED pipes
          \/ \E p : /\ procs' = Append(procs, x(p))
                    /\ pipes' = Sh!Given(Sh!Given(pipes, Sh!StdinOf(at), 1, 0), Sh!StdoutOf(at), 0, 1)
      BY <1>3 DEF Sh!Spawn, x
    <3> QED
      BY <3>1, <3>2, <3>3
  <2>3. Stands'
    BY <1>0, <1>1, <1>3, <2>1, <2>2 DEF Stands
  <2> QED
    BY <1>0, <1>1, <2>1, <2>2, <2>3 DEF PipelineHolds
<1> QED
  BY <1>2, <1>3

\* The shell closes both its ends of a pipe.
LEMMA CloseKeeps == ASSUME PipelineHolds, Sh!Close PROVE PipelineHolds'
<1>0. /\ Len(stages) \in Nat /\ at \in Nat \ {0} /\ at <= Len(stages)
      /\ Strung(pipes) /\ Len(pipes) = Len(stages) - 1 /\ Len(pipes) \in Nat
      /\ DOMAIN pipes = 1..Len(pipes) /\ held = EndsFrom(at, Len(pipes))
      /\ Strung(procs) /\ Len(procs) = Len(stages)
      /\ Proper(pipes) /\ CountedEnds(pipes, held, procs) /\ Wired(pipes, procs)
  BY DEF PipelineHolds, Stands, Strung, Sh!Close
<1>1. UNCHANGED <<stages, procs>>
  BY DEF Sh!Close
<1>2. CASE at < Len(stages)
  <2> DEFINE q == pipes'
             h == held'
  <2>1. /\ q = Sh!Taken(pipes, at, 1, 1) /\ h = held \ {<<at, "r">>, <<at, "w">>}
        /\ at' = at + 1 /\ phase' = "close"
    BY <1>2 DEF Sh!Close
  <2> HIDE DEF q, h
  <2>2. at \in DOMAIN pipes /\ at # 0
    BY <1>0, <1>2
  <2>3. \A k \in DOMAIN pipes : /\ <<k, "r">> \in held <=> k >= at
                               /\ <<k, "w">> \in held <=> k >= at
    BY <1>0 DEF EndsFrom
  <2>4. h = EndsFrom(at + 1, Len(pipes))
    <3>1. (at..Len(pipes)) \ {at} = (at + 1)..Len(pipes)
      BY <1>0
    <3> QED
      BY <1>0, <2>1, <3>1 DEF EndsFrom
  <2>5. /\ <<at, "r">> \notin h /\ <<at, "w">> \notin h
        /\ \A k : k # at => /\ (<<k, "r">> \in h) = (<<k, "r">> \in held)
                           /\ (<<k, "w">> \in h) = (<<k, "w">> \in held)
    BY <2>1
  <2>6. pipes[at].readers >= 1 /\ pipes[at].writers >= 1
    <3>0. <<at, "r">> \in held /\ <<at, "w">> \in held
      BY <1>0, <2>2, <2>3
    <3>1. /\ pipes[at].readers = 1 + One(ReadsOf(procs, at))
          /\ pipes[at].writers = 1 + One(WritesOf(procs, at))
      BY <1>0, <2>2, <3>0 DEF CountedEnds, One
    <3> QED
      BY <3>1 DEF One
  <2>7. /\ Strung(q) /\ Len(q) = Len(pipes) /\ DOMAIN q = DOMAIN pipes /\ Proper(q)
        /\ \A k \in DOMAIN pipes :
             /\ q[k].readers = IF k = at THEN pipes[k].readers - 1 ELSE pipes[k].readers
             /\ q[k].writers = IF k = at THEN pipes[k].writers - 1 ELSE pipes[k].writers
    BY <1>0, <2>1, <2>2, <2>6, TakenIs
  <2>8. CountedEnds(q, h, procs)
    <3> SUFFICES ASSUME NEW k \in DOMAIN pipes
                 PROVE  /\ q[k].readers = One(<<k, "r">> \in h) + One(ReadsOf(procs, k))
                        /\ q[k].writers = One(<<k, "w">> \in h) + One(WritesOf(procs, k))
      BY <2>7 DEF CountedEnds
    <3>1. /\ pipes[k].readers = One(<<k, "r">> \in held) + One(ReadsOf(procs, k))
          /\ pipes[k].writers = One(<<k, "w">> \in held) + One(WritesOf(procs, k))
      BY <1>0 DEF CountedEnds
    <3>2. One(ReadsOf(procs, k)) \in Nat /\ One(WritesOf(procs, k)) \in Nat
      BY DEF One
    <3>3. /\ q[k].readers = IF k = at THEN pipes[k].readers - 1 ELSE pipes[k].readers
          /\ q[k].writers = IF k = at THEN pipes[k].writers - 1 ELSE pipes[k].writers
      BY <2>7
    <3>4. CASE k = at
      <4>1. /\ One(<<k, "r">> \in held) = 1 /\ One(<<k, "w">> \in held) = 1
            /\ One(<<k, "r">> \in h) = 0 /\ One(<<k, "w">> \in h) = 0
        <5>1. <<k, "r">> \in held /\ <<k, "w">> \in held
          BY <1>0, <2>2, <2>3, <3>4
        <5>2. <<k, "r">> \notin h /\ <<k, "w">> \notin h
          BY <2>5, <3>4
        <5> QED
          BY <5>1, <5>2 DEF One
      <4> QED
        BY <3>1, <3>2, <3>3, <3>4, <4>1
    <3>5. CASE k # at
      <4>1. (<<k, "r">> \in h <=> <<k, "r">> \in held) /\ (<<k, "w">> \in h <=> <<k, "w">> \in held)
        <5>1. <<k, "r">> \in h <=> <<k, "r">> \in held
          BY <2>5, <3>5
        <5>2. <<k, "w">> \in h <=> <<k, "w">> \in held
          BY <2>5, <3>5
        <5> QED
          BY <5>1, <5>2
      <4> QED
        BY <3>1, <3>3, <3>5, <4>1 DEF One
    <3> QED
      BY <3>4, <3>5
  <2>9. Wired(q, procs)
    BY <1>0, <2>7 DEF Wired
  <2>10. Stands'
    BY <1>0, <1>1, <1>2, <2>1, <2>4, <2>7 DEF Stands, q, h
  <2> QED
    BY <1>0, <1>1, <2>1, <2>7, <2>8, <2>9, <2>10 DEF PipelineHolds, q, h
<1>3. CASE ~(at < Len(stages))
  <2>1. phase' = "wait" /\ at' = 1 /\ UNCHANGED <<pipes, held>>
    BY <1>3 DEF Sh!Close
  <2>2. held = {}
    <3>1. at..Len(pipes) = {}
      BY <1>0, <1>3
    <3> QED
      BY <1>0, <3>1 DEF EndsFrom
  <2>3. Stands'
    BY <1>0, <1>1, <2>1, <2>2 DEF Stands, Over
  <2> QED
    BY <1>0, <1>1, <2>1, <2>3 DEF PipelineHolds
<1> QED
  BY <1>2, <1>3

LEMMA WaitKeeps == ASSUME PipelineHolds, Sh!Wait PROVE PipelineHolds'
<1>0. /\ Len(stages) \in Nat /\ at \in Nat \ {0} /\ at <= Len(stages)
      /\ Strung(pipes) /\ held = {} /\ Strung(procs) /\ Len(procs) = Len(stages)
      /\ DOMAIN procs = 1..Len(procs) /\ at \in DOMAIN procs /\ Over(procs, at - 1)
      /\ Proper(pipes) /\ CountedEnds(pipes, held, procs) /\ Wired(pipes, procs)
      /\ procs[at].st \in {"dead", "none"}
  BY DEF PipelineHolds, Stands, Strung, Sh!Wait
<1>1. UNCHANGED <<stages, held, pipes>>
  BY DEF Sh!Wait
<1> DEFINE to == IF procs[at].st = "dead" THEN "reaped" ELSE procs[at].st
<1>2. to \in {"reaped", "none"}
  BY <1>0
<1>3. Moved(procs, procs', at, to)
  <2>1. procs' = [procs EXCEPT ![at].st = to]
    BY DEF Sh!Wait
  <2>2. DOMAIN procs[at] = {"prog", "in", "out", "st", "code"}
    BY <1>0 DEF Wired
  <2> HIDE DEF to
  <2> QED
    BY <1>0, <2>1, <2>2, MovedIs
<1> HIDE DEF to
<1>4. DOMAIN procs' = DOMAIN procs /\ Len(procs') = Len(procs) /\ Strung(procs')
  BY <1>0, <1>3 DEF Moved, Strung
<1>5. Over(procs', at)
  <2> SUFFICES ASSUME NEW j \in 1..at, j \in DOMAIN procs' PROVE procs'[j].st \in {"reaped", "none"}
    BY DEF Over
  <2>1. CASE j = at
    BY <1>2, <1>3, <2>1 DEF Moved
  <2>2. CASE j # at
    <3>1. j \in 1..(at - 1)
      BY <1>0, <2>2
    <3> QED
      BY <1>0, <1>3, <1>4, <2>2, <3>1 DEF Over, Moved
  <2> QED
    BY <2>1, <2>2
<1>6. \A j : Awake(procs', j) <=> Awake(procs, j)
  <2> SUFFICES ASSUME NEW j PROVE Awake(procs', j) <=> Awake(procs, j)
    OBVIOUS
  <2>1. CASE j = at
    BY <1>0, <1>2, <1>3, <2>1 DEF Awake, Moved
  <2>2. CASE j # at
    BY <1>3, <1>4, <2>2 DEF Awake, Moved
  <2> QED
    BY <2>1, <2>2
<1>7. \A k : (ReadsOf(procs', k) <=> ReadsOf(procs, k)) /\ (WritesOf(procs', k) <=> WritesOf(procs, k))
  <2>1. \A j \in DOMAIN procs : procs'[j].in = procs[j].in /\ procs'[j].out = procs[j].out
    BY <1>3 DEF Moved
  <2> QED
    BY <1>6, <2>1 DEF ReadsOf, WritesOf, Awake
<1>8. CountedEnds(pipes, held, procs')
  BY <1>0, <1>7 DEF CountedEnds, One
<1>9. Wired(pipes, procs')
  <2>1. to \in {"read", "write", "dead", "reaped", "none"}
    BY <1>2
  <2> QED
    BY <1>0, <1>3, <2>1, MovedEnds
<1>10. Stands' /\ phase' \in {"prompt", "wait"} /\ at' \in Nat \ {0}
  <2>1. CASE at = Len(stages)
    <3>1. phase' = "prompt" /\ at' = 1
      BY <2>1 DEF Sh!Wait
    <3>2. Over(procs', Len(procs'))
      BY <1>0, <1>4, <1>5, <2>1
    <3> QED
      BY <1>0, <1>1, <3>1, <3>2 DEF Stands
  <2>2. CASE at # Len(stages)
    <3>1. phase' = "wait" /\ at' = at + 1
      BY <2>2 DEF Sh!Wait
    <3>2. Over(procs', at' - 1)
      <4>1. at' - 1 = at
        BY <1>0, <3>1
      <4> QED
        BY <1>5, <4>1
    <3>3. at' <= Len(stages')
      <4>1. stages' = stages
        BY <1>1
      <4>2. at + 1 <= Len(stages)
        <5>1. at \in Nat /\ Len(stages) \in Nat /\ at <= Len(stages)
          BY <1>0
        <5> HIDE DEF Sh!Wait
        <5> QED
          BY <2>2, <5>1
      <4> QED
        BY <3>1, <4>1, <4>2
    <3> QED
      BY <1>0, <1>1, <1>4, <3>1, <3>2, <3>3 DEF Stands
  <2> QED
    BY <2>1, <2>2
<1> QED
  BY <1>0, <1>1, <1>4, <1>8, <1>9, <1>10 DEF PipelineHolds

\* Between lines, and at the start of one, there is nothing to keep.
LEMMA PromptKeeps ==
  ASSUME PipelineHolds, phase = "prompt", phase' \in {"prompt", "gone"},
         UNCHANGED <<stages, at, pipes, held, procs>>
  PROVE  PipelineHolds'
<1>1. Stands'
  BY DEF PipelineHolds, Stands
<1> QED
  BY <1>1 DEF PipelineHolds

LEMMA RunKeeps == ASSUME PipelineHolds, NEW line \in Lines, Sh!Run(line) PROVE PipelineHolds'
<1> DEFINE parsed == [i \in DOMAIN line |-> Sh!ParseStage(line[i])]
<1>0. phase = "prompt"
  BY DEF Sh!Run, Sh!Typed
<1>1. CASE \E i \in DOMAIN parsed : parsed[i].argv = <<>>
  <2>1. UNCHANGED <<phase, stages, at, pipes, held, procs>>
    BY <1>1 DEF Sh!Run, Sh!Answered
  <2> QED
    BY <1>0, <2>1, PromptKeeps
<1>2. CASE ~\E i \in DOMAIN parsed : parsed[i].argv = <<>>
  <2>1. /\ phase' = "pipe" /\ stages' = parsed /\ at' = 1
        /\ pipes' = <<>> /\ held' = {} /\ procs' = <<>>
    BY <1>2 DEF Sh!Run
  <2>2. Len(parsed) \in Nat /\ 1 <= Len(parsed)
    <3> DEFINE n == Len(line)
    <3>0. n \in Nat \ {0} /\ DOMAIN line = 1..n
      BY SessionAssumption
    <3> HIDE DEF n
    <3>1. parsed = [i \in 1..n |-> parsed[i]]
      BY <3>0
    <3> HIDE DEF parsed
    <3>2. Len(parsed) = n
      BY <3>0, <3>1, StrungIs
    <3> QED
      BY <3>0, <3>2
  <2> HIDE DEF parsed
  <2>3. Strung(<<>>) /\ Len(<<>>) = 0 /\ DOMAIN <<>> = {}
    BY DEF Strung
  <2>4. Proper(<<>>) /\ CountedEnds(<<>>, {}, <<>>) /\ Wired(<<>>, <<>>)
    BY <2>3 DEF Proper, CountedEnds, Wired
  <2>5. EndsFrom(1, 0) = {}
    BY DEF EndsFrom
  <2>6. Stands'
    BY <2>1, <2>2, <2>3, <2>5 DEF Stands
  <2> QED
    BY <2>1, <2>2, <2>3, <2>4, <2>6 DEF PipelineHolds
<1> QED
  BY <1>1, <1>2

LEMMA PipelineInitially == Sh!ShellInit => PipelineHolds
<1> SUFFICES ASSUME Sh!ShellInit PROVE PipelineHolds
  OBVIOUS
<1>1. Len(<<>>) = 0 /\ DOMAIN <<>> = {} /\ Strung(<<>>)
  BY DEF Strung
<1>2. /\ phase = "prompt" /\ stages = <<>> /\ at = 1 /\ pipes = <<>> /\ held = {} /\ procs = <<>>
  BY DEF Sh!ShellInit
<1>3. Proper(<<>>) /\ CountedEnds(<<>>, {}, <<>>) /\ Wired(<<>>, <<>>) /\ Over(<<>>, Len(<<>>))
  BY <1>1 DEF Proper, CountedEnds, Wired, Over
<1>4. Stands
  BY <1>2, <1>3 DEF Stands
<1> QED
  BY <1>1, <1>2, <1>3, <1>4 DEF PipelineHolds

LEMMA ShellStepKeeps == ASSUME PipelineHolds, Sh!ShellNext PROVE PipelineHolds'
<1>1. CASE Sh!Exit
  BY <1>1, PromptKeeps DEF Sh!Exit, Sh!Typed
<1>2. CASE Sh!Cd
  BY <1>2, PromptKeeps DEF Sh!Cd, Sh!Typed, Sh!Answered
<1>3. CASE Sh!BuiltinKill
  BY <1>3, PromptKeeps DEF Sh!BuiltinKill, Sh!Typed, Sh!Answered
<1>4. ASSUME NEW line \in Lines, Sh!Run(line) PROVE PipelineHolds'
  BY <1>4, RunKeeps
<1>5. CASE Sh!MakePipe
  BY <1>5, MakePipeKeeps
<1>6. CASE Sh!Spawn
  BY <1>6, SpawnKeeps
<1>7. CASE Sh!Close
  BY <1>7, CloseKeeps
<1>8. CASE Sh!Wait
  BY <1>8, WaitKeeps
<1>9. ASSUME NEW i \in DOMAIN procs, Sh!Reads(i) \/ Sh!TypesTo(i) \/ Sh!Writes(i) \/ Sh!Killed(i)
      PROVE  PipelineHolds'
  BY <1>9, ReadsKeep, TypesKeep, WritesKeep, KilledKeeps
<1> QED
  BY <1>1, <1>2, <1>3, <1>4, <1>5, <1>6, <1>7, <1>8, <1>9 DEF Sh!ShellNext

LEMMA NoEndsNoPipe == PipelineHolds => Sh!NothingLeft
<1> SUFFICES ASSUME PipelineHolds, phase = "prompt"
             PROVE  /\ held = {} /\ \A i \in DOMAIN pipes : ~Sh!Exists(pipes[i])
                    /\ \A i \in DOMAIN procs : procs[i].st \in {"reaped", "none"}
  BY DEF Sh!NothingLeft
<1>1. /\ held = {} /\ Strung(procs) /\ Over(procs, Len(procs)) /\ Proper(pipes)
      /\ CountedEnds(pipes, held, procs)
  BY DEF PipelineHolds, Stands
<1>2. \A i \in DOMAIN procs : procs[i].st \in {"reaped", "none"}
  BY <1>1 DEF Over, Strung
<1>3. ASSUME NEW i \in DOMAIN pipes PROVE ~Sh!Exists(pipes[i])
  <2>1. ~ReadsOf(procs, i) /\ ~WritesOf(procs, i)
    BY <1>2 DEF ReadsOf, WritesOf, Awake
  <2>2. pipes[i].readers = 0 /\ pipes[i].writers = 0
    BY <1>1, <2>1 DEF CountedEnds, One
  <2> QED
    BY <1>1, <2>2 DEF Proper, Sh!Exists
<1> QED
  BY <1>1, <1>2, <1>3

\* Only the last wait of a line comes back to the prompt.
LEMMA LastWaitEnds == Sh!ShellNext => Sh!StatusIsLast
<1> SUFFICES ASSUME Sh!ShellNext, phase = "wait", phase' = "prompt"
             PROVE  status' = procs[Len(stages)].code
  BY DEF Sh!StatusIsLast
<1>1. Sh!Wait
  <2>1. ~Sh!Exit /\ ~Sh!Cd /\ ~Sh!BuiltinKill /\ ~\E line \in Lines : Sh!Run(line)
    BY DEF Sh!Exit, Sh!Cd, Sh!BuiltinKill, Sh!Run, Sh!Typed
  <2>2. ~Sh!MakePipe /\ ~Sh!Spawn /\ ~Sh!Close
    BY DEF Sh!MakePipe, Sh!Spawn, Sh!Close
  <2>3. ~\E i \in DOMAIN procs : Sh!Reads(i) \/ Sh!TypesTo(i) \/ Sh!Writes(i) \/ Sh!Killed(i)
    BY DEF Sh!Reads, Sh!TypesTo, Sh!Writes, Sh!Killed, Sh!Elsewhere
  <2> QED
    BY <2>1, <2>2, <2>3 DEF Sh!ShellNext
<1>2. at = Len(stages)
  BY <1>1 DEF Sh!Wait
<1> QED
  BY <1>1, <1>2 DEF Sh!Wait

ShellHolds == which = "shell" => PipelineHolds

\* At the prompt no end of a pipe and no process of a line is left, whichever stage was
\* not found, ended early or was killed, and $? is the last stage's code
\* (crates/sh/src/main.rs: run_pipeline).
THEOREM LinesLeaveNothing ==
  Spec => /\ [](which = "shell" => Sh!NothingLeft)
          /\ [][which = "shell" => Sh!StatusIsLast]_vars
<1>1. Init => ShellHolds
  <2> SUFFICES ASSUME Init, which = "shell" PROVE PipelineHolds
    BY DEF ShellHolds
  <2>1. Sh!ShellInit
    BY DEF Init
  <2> QED
    BY <2>1, PipelineInitially
<1>2. ShellHolds /\ [Next]_vars => ShellHolds'
  <2> SUFFICES ASSUME ShellHolds, [Next]_vars, which' = "shell" PROVE PipelineHolds'
    BY DEF ShellHolds
  <2>1. CASE which = "shell" /\ Sh!ShellNext
    BY <2>1, ShellStepKeeps DEF ShellHolds
  <2>2. CASE UNCHANGED vars
    <3>1. which = "shell" /\ UNCHANGED <<phase, stages, at, pipes, held, procs>>
      BY <2>2 DEF vars, shVars
    <3>2. PipelineHolds
      BY <3>1 DEF ShellHolds
    <3> QED
      BY <3>1, <3>2 DEF PipelineHolds, Stands
  <2> QED
    BY <2>1, <2>2 DEF Next
<1>3. ShellHolds => (which = "shell" => Sh!NothingLeft)
  BY NoEndsNoPipe DEF ShellHolds
<1>4. [Next]_vars => [which = "shell" => Sh!StatusIsLast]_vars
  <2> SUFFICES ASSUME Next, which = "shell" PROVE Sh!StatusIsLast
    OBVIOUS
  <2>1. Sh!ShellNext
    BY DEF Next
  <2> QED
    BY <2>1, LastWaitEnds
<1> QED
  BY <1>1, <1>2, <1>3, <1>4, PTL DEF Spec
=============================================================================
