------------------------ MODULE CoordinationBusProofs ------------------------
(***************************************************************************)
(* TLAPS proofs about CoordinationBus, for every set of agents, ids, keys  *)
(* and envelopes and every limit:                                          *)
(*   - type correctness and per-agent ordered delivery;                    *)
(*   - delivery implements OrderedMailboxes;                               *)
(*   - no id is accepted twice within the dedupe window;                   *)
(*   - every delivery is pending, consumed or counted as dropped;          *)
(*   - the shared context implements VersionedStore;                       *)
(*   - the counters and indexes the paged queries read agree with a scan.  *)
(* Each has its inductive invariant, stated before the lemmas that keep it.*)
(***************************************************************************)
EXTENDS CoordinationBus, SequenceTheorems, FiniteSetTheorems,
        WellFoundedInduction, TLAPS

-----------------------------------------------------------------------------
(* Induction over the naturals, in the form of a set: the library states it *)
(* for an operator parameter, which the provers cannot instantiate.         *)

\* A set of naturals that contains 0 and is closed under successor is Nat.
LEMMA SetInduction ==
  ASSUME NEW S, 0 \in S, \A n \in Nat : n \in S => n + 1 \in S
  PROVE  \A n \in Nat : n \in S
<1> DEFINE T == {n \in Nat : n \notin S}
           R == OpToRel(<, Nat)
<1>1. SUFFICES ASSUME T # {} PROVE FALSE
  OBVIOUS
<1>2. IsWellFoundedOn(R, Nat)
  BY NatLessThanWellFounded
<1>3. \A x, y \in Nat : x < y => <<x, y>> \in R
  BY DEF OpToRel
<1>4. T \subseteq Nat
  OBVIOUS
<1> HIDE DEF R
<1>5. PICK x \in T : \A y \in T : ~(<<y, x>> \in R)
  <2> HIDE DEF T
  <2> QED BY <1>1, <1>2, <1>4, WFMin
<1>6. x \in Nat /\ x # 0
  OBVIOUS
<1>7. x - 1 \in Nat /\ x - 1 < x /\ (x - 1) + 1 = x
  BY <1>6
<1>8. x - 1 \in T
  BY <1>6, <1>7
<1> QED BY <1>3, <1>5, <1>6, <1>7, <1>8

\* The least element of a non-empty set of naturals is one of its elements.
LEMMA MinInSet ==
  ASSUME NEW T, T \subseteq Nat, T # {}
  PROVE  Min(T) \in T /\ \A y \in T : Min(T) <= y
<1> DEFINE R == OpToRel(<, Nat)
<1>1. IsWellFoundedOn(R, Nat)
  BY NatLessThanWellFounded
<1>2. \A x, y \in Nat : x < y => <<x, y>> \in R
  BY DEF OpToRel
<1> HIDE DEF R
<1>3. \E x \in T : \A y \in T : ~(<<y, x>> \in R)
  BY <1>1, WFMin
<1>4. PICK x \in T : \A y \in T : ~(<<y, x>> \in R)
  BY <1>3
<1>5. ASSUME NEW y \in T PROVE x <= y
  <2>1. x \in Nat /\ y \in Nat /\ ~(y < x)
    BY <1>2, <1>4
  <2> QED BY <2>1
<1> QED BY <1>4, <1>5 DEF Min

\* f lists the values of iterating the functions g[1], ..., g[n] from d.
IsIteration(f, S, d, n, g) ==
  f \in [0..n -> S] /\ f[0] = d /\ \A i \in 1..n : f[i] = g[i][f[i - 1]]

\* Iterating a function from an element of S stays in S: the recursive
\* function of the iteration exists and has its defining equation.
LEMMA Iteration ==
  ASSUME NEW S, NEW d \in S, NEW n \in Nat, NEW g \in [1..n -> [S -> S]]
  PROVE  \E f : IsIteration(f, S, d, n, g)
<1> DEFINE Good(m, f) == f[0] = d /\ \A i \in 1..m : f[i] = g[i][f[i - 1]]
           Exists(m) == \E f \in [0..m -> S] : Good(m, f)
           T == {m \in Nat : m <= n => Exists(m)}
<1>1. 0 \in T
  <2>1. Good(0, [i \in 0..0 |-> d]) /\ [i \in 0..0 |-> d] \in [0..0 -> S]
    OBVIOUS
  <2> QED BY <2>1
<1>2. \A m \in Nat : m \in T => m + 1 \in T
  <2> HIDE DEF Exists
  <2> SUFFICES ASSUME NEW m \in Nat, Exists(m), m + 1 <= n
               PROVE  Exists(m + 1)
    OBVIOUS
  <2> USE DEF Exists
  <2>1. PICK f \in [0..m -> S] : Good(m, f)
    OBVIOUS
  <2> DEFINE h == [i \in 0..(m + 1) |-> IF i <= m THEN f[i] ELSE g[m + 1][f[m]]]
  <2>2. h \in [0..(m + 1) -> S]
    <3>1. f[m] \in S /\ m + 1 \in 1..n
      OBVIOUS
    <3>2. g[m + 1] \in [S -> S]
      BY <3>1
    <3>3. g[m + 1][f[m]] \in S
      BY <3>1, <3>2
    <3>4. \A i \in 0..(m + 1) : i <= m => i \in 0..m
      OBVIOUS
    <3> QED BY <3>3, <3>4
  <2>3. Good(m + 1, h)
    <3>1. h[0] = d
      BY <2>1
    <3>2. ASSUME NEW i \in 1..(m + 1) PROVE h[i] = g[i][h[i - 1]]
      <4>1. CASE i <= m
        BY <2>1, <4>1
      <4>2. CASE i = m + 1
        BY <4>2
      <4> QED BY <4>1, <4>2
    <3> QED BY <3>1, <3>2
  <2> QED BY <2>2, <2>3
<1> HIDE DEF T
<1>3. n \in T
  BY <1>1, <1>2, SetInduction
<1> QED BY <1>3 DEF T, IsIteration

-----------------------------------------------------------------------------
(* RemoveFirst of the community modules *)

\* The elements of a sequence are the values at its positions.
LEMMA ToSetMember ==
  ASSUME NEW S, NEW s \in Seq(S), NEW x
  PROVE  x \in ToSet(s) <=> \E i \in 1..Len(s) : x = s[i]
<1>1. DOMAIN s = 1..Len(s)
  OBVIOUS
<1> QED BY <1>1 DEF ToSet

\* No element occurs twice.
Distinct(s) == \A i, j \in 1..Len(s) : s[i] = s[j] => i = j

\* Removing a position shifts what follows it down by one.
LEMMA RemoveAtProperties ==
  ASSUME NEW S, NEW s \in Seq(S), NEW k \in 1..Len(s)
  PROVE  /\ RemoveAt(s, k) \in Seq(S)
         /\ Len(RemoveAt(s, k)) = Len(s) - 1
         /\ \A j \in 1..(Len(s) - 1) :
               RemoveAt(s, k)[j] = IF j < k THEN s[j] ELSE s[j + 1]
<1> DEFINE left == SubSeq(s, 1, k - 1)
           right == SubSeq(s, k + 1, Len(s))
<1>0. Len(s) \in Nat /\ k \in Nat
  OBVIOUS
<1>1. /\ left \in Seq(S) /\ Len(left) = k - 1
      /\ \A j \in 1..(k - 1) : left[j] = s[j]
  OBVIOUS
<1>2. /\ right \in Seq(S) /\ Len(right) = Len(s) - k
      /\ \A j \in 1..(Len(s) - k) : right[j] = s[k + j]
  OBVIOUS
<1>3. \A l, r \in Seq(S) :
         /\ l \o r \in Seq(S) /\ Len(l \o r) = Len(l) + Len(r)
         /\ \A j \in 1..(Len(l) + Len(r)) :
               (l \o r)[j] = IF j <= Len(l) THEN l[j] ELSE r[j - Len(l)]
  BY ConcatProperties
<1> DEFINE t == RemoveAt(s, k)
<1>4. t = left \o right
  BY DEF RemoveAt
<1> HIDE DEF left, right, t
<1>5. /\ t \in Seq(S) /\ Len(t) = Len(s) - 1
      /\ \A j \in 1..(Len(s) - 1) :
            t[j] = IF j <= k - 1 THEN left[j] ELSE right[j - (k - 1)]
  <2>1. /\ t \in Seq(S) /\ Len(t) = Len(left) + Len(right)
        /\ \A j \in 1..(Len(left) + Len(right)) :
              t[j] = IF j <= Len(left) THEN left[j] ELSE right[j - Len(left)]
    BY <1>1, <1>2, <1>3, <1>4
  <2>2. Len(left) = k - 1 /\ Len(left) + Len(right) = Len(s) - 1
    BY <1>0, <1>1, <1>2
  <2> QED BY <2>1, <2>2
<1>6. ASSUME NEW j \in 1..(Len(s) - 1)
      PROVE  t[j] = IF j < k THEN s[j] ELSE s[j + 1]
  <2>1. CASE j <= k - 1
    BY <1>0, <1>1, <1>5, <2>1, SMTT(40)
  <2>2. CASE j > k - 1
    <3>1. j - (k - 1) \in 1..(Len(s) - k) /\ k + (j - (k - 1)) = j + 1
      BY <1>0, <2>2
    <3> QED BY <1>0, <1>2, <1>5, <2>2, <3>1
  <2> QED BY <1>0, <2>1, <2>2
<1> QED BY <1>5, <1>6 DEF t

\* RemoveFirst removes the position of the first occurrence, if there is one.
LEMMA RemoveFirstCases ==
  ASSUME NEW S, NEW s \in Seq(S), NEW e
  PROVE  \/ /\ \A i \in 1..Len(s) : s[i] # e
            /\ RemoveFirst(s, e) = s
         \/ \E k \in 1..Len(s) : s[k] = e /\ RemoveFirst(s, e) = RemoveAt(s, k)
<1> DEFINE I == {i \in 1..Len(s) : s[i] = e}
<1>1. CASE I = {}
  BY <1>1 DEF RemoveFirst
<1>2. CASE I # {}
  <2>1. Min(I) \in I
    <3>1. I \subseteq Nat
      OBVIOUS
    <3> HIDE DEF I
    <3> QED BY <1>2, <3>1, MinInSet
  <2>2. RemoveFirst(s, e) = RemoveAt(s, Min(I))
    BY <1>2 DEF RemoveFirst, SelectInSeq
  <2> QED BY <2>1, <2>2
<1> QED BY <1>1, <1>2

LEMMA RemoveFirstType ==
  ASSUME NEW S, NEW s \in Seq(S), NEW e
  PROVE  RemoveFirst(s, e) \in Seq(S)
BY RemoveFirstCases, RemoveAtProperties

\* In a sequence without repetition, RemoveFirst removes exactly e.
LEMMA RemoveFirstDistinct ==
  ASSUME NEW S, NEW s \in Seq(S), NEW e, Distinct(s)
  PROVE  /\ Distinct(RemoveFirst(s, e))
         /\ ToSet(RemoveFirst(s, e)) = ToSet(s) \ {e}
<1>1. CASE /\ \A i \in 1..Len(s) : s[i] # e
           /\ RemoveFirst(s, e) = s
  BY <1>1 DEF ToSet
<1>2. ASSUME NEW k \in 1..Len(s), s[k] = e, RemoveFirst(s, e) = RemoveAt(s, k)
      PROVE  /\ Distinct(RemoveFirst(s, e))
             /\ ToSet(RemoveFirst(s, e)) = ToSet(s) \ {e}
  <2> DEFINE r == RemoveAt(s, k)
  <2>1. /\ r \in Seq(S) /\ Len(r) = Len(s) - 1
        /\ \A j \in 1..(Len(s) - 1) : r[j] = IF j < k THEN s[j] ELSE s[j + 1]
    BY RemoveAtProperties
  <2> HIDE DEF r
  <2>2. Distinct(r)
    BY <2>1 DEF Distinct
  <2>3. ASSUME NEW x \in ToSet(r) PROVE x \in ToSet(s) \ {e}
    <3>1. PICK j \in 1..(Len(s) - 1) : x = r[j]
      BY <2>1 DEF ToSet
    <3>2. x = IF j < k THEN s[j] ELSE s[j + 1]
      BY <2>1, <3>1
    <3>3. x # e
      BY <1>2, <3>2 DEF Distinct
    <3> QED BY <3>2, <3>3 DEF ToSet
  <2>4. ASSUME NEW x \in ToSet(s), x # e PROVE x \in ToSet(r)
    <3>1. PICK i \in 1..Len(s) : x = s[i]
      BY DEF ToSet
    <3>2. i # k
      BY <1>2, <2>4, <3>1
    <3>3. CASE i < k
      <4>1. i \in 1..Len(r) /\ r[i] = x
        BY <2>1, <3>1, <3>3
      <4> QED BY <2>1, <4>1, ToSetMember
    <3>4. CASE i > k
      <4>1. (i - 1) \in 1..Len(r) /\ r[i - 1] = x
        BY <2>1, <3>1, <3>4
      <4> QED BY <2>1, <4>1, ToSetMember
    <3> QED BY <3>2, <3>3, <3>4
  <2> QED BY <1>2, <2>2, <2>3, <2>4 DEF r
<1> QED BY <1>1, <1>2, RemoveFirstCases

\* Appending a new element keeps a sequence free of repetition.
LEMMA AppendDistinct ==
  ASSUME NEW S, NEW s \in Seq(S), NEW e \in S, Distinct(s), e \notin ToSet(s)
  PROVE  /\ Distinct(Append(s, e))
         /\ ToSet(Append(s, e)) = ToSet(s) \cup {e}
<1>1. /\ Append(s, e) \in Seq(S) /\ Len(Append(s, e)) = Len(s) + 1
      /\ \A i \in 1..Len(s) : Append(s, e)[i] = s[i]
      /\ Append(s, e)[Len(s) + 1] = e
  BY AppendProperties
<1>2. \A i \in 1..Len(s) : s[i] # e
  BY DEF ToSet
<1>3. Distinct(Append(s, e))
  BY <1>1, <1>2 DEF Distinct
<1>4. ToSet(Append(s, e)) = ToSet(s) \cup {e}
  <2> DEFINE t == Append(s, e)
  <2>1. \A i \in 1..Len(t) : i \in 1..Len(s) \/ i = Len(s) + 1
    BY <1>1
  <2> QED BY <1>1, <2>1 DEF ToSet
<1> QED BY <1>3, <1>4

\* The tail of a sequence without repetition lacks exactly its head.
LEMMA TailDistinct ==
  ASSUME NEW S, NEW s \in Seq(S), s # <<>>, Distinct(s)
  PROVE  /\ Distinct(Tail(s))
         /\ ToSet(Tail(s)) = ToSet(s) \ {Head(s)}
<1>1. /\ Tail(s) \in Seq(S) /\ Len(Tail(s)) = Len(s) - 1 /\ Head(s) = s[1]
      /\ \A i \in 1..(Len(s) - 1) : Tail(s)[i] = s[i + 1]
      /\ Len(s) \in Nat \ {0}
  OBVIOUS
<1>2. Distinct(Tail(s))
  BY <1>1 DEF Distinct
<1>3. ASSUME NEW x \in ToSet(Tail(s)) PROVE x \in ToSet(s) \ {Head(s)}
  <2>1. PICK i \in 1..(Len(s) - 1) : x = s[i + 1]
    BY <1>1 DEF ToSet
  <2>2. i + 1 \in 1..Len(s) /\ 1 \in 1..Len(s) /\ i + 1 # 1
    BY <1>1
  <2> QED BY <1>1, <2>1, <2>2 DEF ToSet, Distinct
<1>4. ASSUME NEW x \in ToSet(s), x # Head(s) PROVE x \in ToSet(Tail(s))
  <2>1. PICK i \in 1..Len(s) : x = s[i]
    BY DEF ToSet
  <2>2. i - 1 \in 1..Len(Tail(s)) /\ Tail(s)[i - 1] = x
    BY <1>1, <1>4, <2>1
  <2> QED BY <1>1, <2>2, ToSetMember
<1> QED BY <1>2, <1>3, <1>4

-----------------------------------------------------------------------------
(* Types of the operators *)

LEMMA LimitsPositive ==
  /\ max_inbox_messages_per_agent \in Nat \ {0}
  /\ max_dead_letters \in Nat \ {0}
  /\ max_context_entries \in Nat \ {0}
  /\ max_seen_message_ids \in Nat \ {0}
BY BusAssumption DEF max_inbox_messages_per_agent, max_dead_letters,
     max_context_entries, max_seen_message_ids, AtLeastOne

\* A normalised correlation is a key of the indexes, or None.
LEMMA CorrType ==
  ASSUME NEW e \in EnvelopeType
  PROVE  Corr(e) \in Correlations \cup {None}
BY DEF Corr

LEMMA BuryType ==
  ASSUME NEW d \in DeadType, NEW e \in EnvelopeType, NEW reason \in Reasons
  PROVE  Bury(d, e, reason) \in DeadType
<1> DEFINE full   == Len(d.letters) >= max_dead_letters
           oldest == Corr(Head(d.letters).envelope)
           kept   == IF full THEN Tail(d.letters) ELSE d.letters
           index  == IF full /\ oldest # None /\ d.by_correlation[oldest] # <<>>
                     THEN [d.by_correlation EXCEPT ![oldest] = Tail(@)]
                     ELSE d.by_correlation
           letter == [envelope |-> e, reason |-> reason]
<1>1. /\ d.letters \in Seq(DeadLetterType)
      /\ d.by_correlation \in [Correlations -> Seq(DeadLetterType)]
      /\ d.total \in Nat /\ d.evictions \in Nat
  BY DEF DeadType
<1>2. letter \in DeadLetterType
  BY DEF DeadLetterType
<1>3. kept \in Seq(DeadLetterType)
  <2>1. CASE full
    <3>1. d.letters # <<>>
      BY <1>1, <2>1, LimitsPositive
    <3> QED BY <1>1, <2>1, <3>1
  <2>2. CASE ~full
    BY <1>1, <2>2
  <2> QED BY <2>1, <2>2
<1>4. index \in [Correlations -> Seq(DeadLetterType)]
  <2>1. CASE full /\ oldest # None /\ d.by_correlation[oldest] # <<>>
    <3>1. d.letters # <<>>
      BY <1>1, <2>1, LimitsPositive
    <3>2. Head(d.letters) \in DeadLetterType
      BY <1>1, <3>1
    <3>3. Head(d.letters).envelope \in EnvelopeType
      BY <3>2 DEF DeadLetterType
    <3>4. oldest \in Correlations
      BY <2>1, <3>3, CorrType
    <3>5. Tail(d.by_correlation[oldest]) \in Seq(DeadLetterType)
      BY <1>1, <2>1, <3>4
    <3> HIDE DEF oldest
    <3> QED BY <1>1, <2>1, <3>4, <3>5
  <2>2. CASE ~(full /\ oldest # None /\ d.by_correlation[oldest] # <<>>)
    BY <1>1, <2>2
  <2> QED BY <2>1, <2>2
<1> DEFINE result == IF Corr(e) = None THEN index
                     ELSE [index EXCEPT ![Corr(e)] = Append(@, letter)]
<1>5. Bury(d, e, reason) =
        [letters |-> Append(kept, letter), by_correlation |-> result,
         total |-> d.total + 1,
         evictions |-> IF full THEN d.evictions + 1 ELSE d.evictions]
  BY DEF Bury
<1> HIDE DEF index, kept, letter, full
<1>6. result \in [Correlations -> Seq(DeadLetterType)]
  <2>1. CASE Corr(e) # None
    <3>1. Corr(e) \in Correlations
      BY <2>1, CorrType
    <3>2. Append(index[Corr(e)], letter) \in Seq(DeadLetterType)
      BY <1>2, <1>4, <3>1
    <3> QED BY <1>4, <2>1, <3>1, <3>2
  <2>2. CASE Corr(e) = None
    BY <1>4, <2>2
  <2> QED BY <2>1, <2>2
<1>7. Append(kept, letter) \in Seq(DeadLetterType)
  BY <1>2, <1>3
<1> HIDE DEF result
<1> QED BY <1>1, <1>5, <1>6, <1>7 DEF DeadType

\* What each burial keeps, burying all keeps.
LEMMA BuryAllKeeps ==
  ASSUME NEW S, NEW d \in S, NEW dropped \in Seq(EnvelopeType),
         \A x \in S, e \in EnvelopeType : Bury(x, e, "overflow") \in S
  PROVE  BuryAll(d, dropped) \in S
<1> PICK size : size = Len(dropped)
  OBVIOUS
<1> PICK step : step = [i \in 1..size |->
                           [x \in S |-> Bury(x, dropped[i], "overflow")]]
  OBVIOUS
<1>1. size \in Nat /\ \A i \in 1..size : dropped[i] \in EnvelopeType
  OBVIOUS
<1>2. \A x \in S, i \in 1..size :
         Bury(x, dropped[i], "overflow") \in S
  BY <1>1
<1>3. step \in [1..size -> [S -> S]]
  BY <1>2
<1>4. \A i \in 1..size, x \in S :
         step[i][x] = Bury(x, dropped[i], "overflow")
  OBVIOUS
<1>5. PICK f : IsIteration(f, S, d, size, step)
  BY <1>1, <1>3, Iteration
<1> USE DEF IsIteration
<1> DEFINE After(fn) == [i \in 0..size |->
                          IF i = 0 THEN d
                          ELSE Bury(fn[i - 1], dropped[i], "overflow")]
<1> HIDE DEF After
<1>6. f = After(f)
  <2>1. ASSUME NEW i \in 0..size PROVE f[i] = After(f)[i]
    <3>1. CASE i = 0
      BY <1>5, <3>1 DEF After
    <3>2. CASE i # 0
      <4>1. i \in 1..size /\ i - 1 \in 0..size
        BY <1>1, <3>2
      <4>2. f[i - 1] \in S
        BY <1>5, <4>1
      <4> QED BY <1>4, <1>5, <3>2, <4>1, <4>2 DEF After
    <3> QED BY <3>1, <3>2
  <2> QED BY <1>5, <2>1 DEF After
<1> DEFINE after == CHOOSE fn : fn = After(fn)
<1>7. after = After(after)
  BY <1>6
<1> HIDE DEF after
<1> DEFINE T == {i \in Nat : i <= size => after[i] \in S}
<1>8. 0 \in T
  BY <1>1, <1>7 DEF After
<1>9. ASSUME NEW i \in Nat, i \in T PROVE i + 1 \in T
  <2> SUFFICES ASSUME i + 1 <= size PROVE after[i + 1] \in S
    OBVIOUS
  <2>1. i + 1 \in 1..size /\ i + 1 \in 0..size /\ i + 1 # 0 /\ (i + 1) - 1 = i
    BY <1>1
  <2>2. after[i + 1] = Bury(after[i], dropped[i + 1], "overflow")
    <3>1. after[i + 1] = IF i + 1 = 0 THEN d
                         ELSE Bury(after[(i + 1) - 1], dropped[i + 1], "overflow")
      BY <1>7, <2>1 DEF After
    <3> QED BY <2>1, <3>1, Zenon
  <2>3. after[i] \in S
    BY <1>1, <1>9, <2>1
  <2> QED BY <1>2, <2>1, <2>2, <2>3
<1> HIDE DEF T
<1>10. size \in T
  BY <1>1, <1>8, <1>9, SetInduction
<1>11. after[size] \in S
  BY <1>1, <1>10 DEF T
<1>12. BuryAll(d, dropped) = after[size]
  BY DEF BuryAll, after, After
<1> QED BY <1>11, <1>12

LEMMA CountsType1 ==
  ASSUME NEW counts \in CountsType, NEW e \in EnvelopeType
  PROVE  Increment(counts, e) \in CountsType /\ Decrement(counts, e) \in CountsType
<1>1. CASE Corr(e) = None
  BY <1>1 DEF Increment, Decrement
<1>2. CASE Corr(e) # None
  <2>1. Corr(e) \in Correlations
    BY <1>2, CorrType
  <2>2. counts[Corr(e)] \in Nat
    BY <2>1 DEF CountsType
  <2>3. (IF counts[Corr(e)] <= 1 THEN 0 ELSE counts[Corr(e)] - 1) \in Nat
    BY <2>2
  <2> QED BY <1>2, <2>1, <2>2, <2>3 DEF Increment, Decrement, CountsType
<1> QED BY <1>1, <1>2

\* The counters after each of the entries drained.
LEMMA DrainUnfolds ==
  ASSUME NEW a, inboxes[a] \in Seq(EntryType), correlation_counts[a] \in CountsType,
         NEW n \in 0..Len(inboxes[a])
  PROVE  \E left : /\ left[0] = correlation_counts[a] /\ DrainCounts(a, n) = left[n]
                   /\ \A i \in 0..n : left[i] \in CountsType
                   /\ \A i \in 0..(n - 1) :
                         left[i + 1] = Decrement(left[i], inboxes[a][i + 1].envelope)
<1> PICK queue : queue = inboxes[a]
  OBVIOUS
<1> PICK step : step = [i \in 1..n |->
                   [x \in CountsType |-> Decrement(x, queue[i].envelope)]]
  OBVIOUS
<1>1. n \in Nat /\ \A i \in 1..n : queue[i].envelope \in EnvelopeType
  <2>1. n \in Nat /\ Len(queue) \in Nat /\ queue \in Seq(EntryType)
    OBVIOUS
  <2>2. \A i \in 1..n : queue[i] \in EntryType
    BY <2>1
  <2> QED BY <2>1, <2>2 DEF EntryType
<1>2. \A x \in CountsType, i \in 1..n :
         Decrement(x, queue[i].envelope) \in CountsType
  BY <1>1, CountsType1
<1>3. step \in [1..n -> [CountsType -> CountsType]]
  BY <1>2
<1>4. \A i \in 1..n, x \in CountsType :
         step[i][x] = Decrement(x, queue[i].envelope)
  OBVIOUS
<1>5. PICK f : IsIteration(f, CountsType, correlation_counts[a], n, step)
  BY <1>1, <1>3, Iteration
<1> DEFINE Left(fn) == [i \in 0..n |->
                          IF i = 0 THEN correlation_counts[a]
                          ELSE Decrement(fn[i - 1], inboxes[a][i].envelope)]
           left == CHOOSE fn : fn = Left(fn)
<1> HIDE DEF Left
<1> USE DEF IsIteration
<1>6. f = Left(f)
  <2>1. ASSUME NEW i \in 0..n PROVE f[i] = Left(f)[i]
    <3>1. CASE i = 0
      BY <1>5, <3>1 DEF Left
    <3>2. CASE i # 0
      <4>1. i \in 1..n /\ i - 1 \in 0..n
        BY <1>1, <3>2
      <4>2. f[i - 1] \in CountsType
        BY <1>5, <4>1
      <4> QED BY <1>4, <1>5, <3>2, <4>1, <4>2 DEF Left
    <3> QED BY <3>1, <3>2
  <2> QED BY <1>5, <2>1 DEF Left
<1>7. left = Left(left)
  BY <1>6
<1> HIDE DEF left
<1> DEFINE T == {i \in Nat : i <= n => left[i] \in CountsType}
<1>8. 0 \in T
  BY <1>1, <1>7 DEF Left
<1>9. ASSUME NEW i \in 0..(n - 1)
      PROVE  left[i + 1] = Decrement(left[i], queue[i + 1].envelope)
  <2>1. i + 1 \in 0..n /\ i + 1 # 0 /\ (i + 1) - 1 = i
    BY <1>1
  <2>2. left[i + 1] = IF i + 1 = 0 THEN correlation_counts[a]
                      ELSE Decrement(left[(i + 1) - 1], inboxes[a][i + 1].envelope)
    BY <1>7, <2>1 DEF Left
  <2> QED BY <2>1, <2>2, Zenon
<1>10. ASSUME NEW i \in Nat, i \in T PROVE i + 1 \in T
  <2> SUFFICES ASSUME i + 1 <= n PROVE left[i + 1] \in CountsType
    OBVIOUS
  <2>1. i \in 0..(n - 1) /\ i + 1 \in 1..n /\ left[i] \in CountsType
    BY <1>1, <1>10
  <2> QED BY <1>2, <1>9, <2>1
<1> HIDE DEF T
<1>11. \A i \in 0..n : left[i] \in CountsType
  <2>1. \A i \in Nat : i \in T
    BY <1>8, <1>10, SetInduction
  <2> QED BY <1>1, <2>1 DEF T
<1>12. left[0] = correlation_counts[a]
  BY <1>1, <1>7 DEF Left
<1>13. DrainCounts(a, n) = left[n]
  BY DEF DrainCounts, left, Left
<1> QED BY <1>9, <1>11, <1>12, <1>13

LEMMA DrainCountsType ==
  ASSUME NEW a, inboxes[a] \in Seq(EntryType), correlation_counts[a] \in CountsType,
         NEW n \in 0..Len(inboxes[a])
  PROVE  DrainCounts(a, n) \in CountsType
BY DrainUnfolds

LEMMA RememberType ==
  ASSUME NEW s \in SeenType, NEW id \in Ids
  PROVE  Remember(s, id) \in SeenType
BY DEF SeenType, Remember

-----------------------------------------------------------------------------
(* Types of the context operators *)

LEMMA UnindexType ==
  ASSUME NEW index \in IndexType, NEW corr \in Correlations \cup {None}, NEW k
  PROVE  Unindex(index, corr, k) \in IndexType
<1>1. CASE corr = None
  BY <1>1 DEF Unindex
<1>2. CASE corr # None
  <2>1. RemoveFirst(index[corr], k) \in Seq(Keys)
    BY <1>2, RemoveFirstType DEF IndexType
  <2> QED BY <1>2, <2>1 DEF Unindex, IndexType
<1> QED BY <1>1, <1>2

LEMMA AddToIndexType ==
  ASSUME NEW index \in IndexType, NEW corr \in Correlations \cup {None},
         NEW k \in Keys
  PROVE  Index(index, corr, k) \in IndexType
BY DEF Index, IndexType

LEMMA EvictOldestType ==
  ASSUME NEW c, ContextTyped(c), c.order # <<>>
  PROVE  ContextTyped(EvictOldest(c))
<1> DEFINE k == Head(c.order)
           r == EvictOldest(c)
<1>1. /\ k \in Keys
      /\ c.order \in Seq(Keys) /\ c.delegates \in Seq(Keys)
      /\ c.by_correlation \in IndexType
      /\ c.delegates_by_correlation \in IndexType
      /\ c.correlation_of \in [Keys -> Correlations \cup {None}]
      /\ c.evictions \in Nat
  BY DEF ContextTyped, ContextFields
<1>2. /\ r.entries = Restrict(c.entries, DOMAIN c.entries \ {k})
      /\ r.order = Tail(c.order)
      /\ r.correlation_of = [c.correlation_of EXCEPT ![k] = None]
      /\ r.by_correlation =
             Unindex(c.by_correlation, c.correlation_of[k], k)
      /\ r.delegates = IF k \in DelegateKeys THEN RemoveFirst(c.delegates, k)
                       ELSE c.delegates
      /\ r.delegates_by_correlation =
             IF k \in DelegateKeys
             THEN Unindex(c.delegates_by_correlation, c.correlation_of[k], k)
             ELSE c.delegates_by_correlation
      /\ r.evictions = c.evictions + 1
  BY DEF EvictOldest
<1> HIDE DEF k, r
<1>3. DOMAIN r.entries \subseteq Keys
      /\ r.entries \in [DOMAIN r.entries -> ContextEntryType]
  BY <1>2 DEF ContextTyped, Restrict
<1>4. r.order \in Seq(Keys)
  BY <1>1, <1>2
<1>5. r.correlation_of \in [Keys -> Correlations \cup {None}]
  BY <1>1, <1>2
<1>6. c.correlation_of[k] \in Correlations \cup {None}
  BY <1>1
<1>7. r.by_correlation \in IndexType /\ r.delegates_by_correlation \in IndexType
  BY <1>1, <1>2, <1>6, UnindexType
<1>8. r.delegates \in Seq(Keys)
  BY <1>1, <1>2, RemoveFirstType
<1>9. r.evictions \in Nat
  BY <1>1, <1>2
<1>10. ContextTyped(r)
  BY <1>3, <1>4, <1>5, <1>7, <1>8, <1>9 DEF ContextTyped, ContextFields
<1> QED BY <1>10 DEF r

LEMMA WriteEntryType ==
  ASSUME NEW c, ContextTyped(c), NEW e \in EnvelopeType, e.key \in Keys
  PROVE  ContextTyped(WriteEntry(c, e))
<1> DEFINE k == e.key
           old == c.correlation_of[k]
           entry == [version |-> Version(c, k) + 1, last_message_id |-> e.id]
           r == WriteEntry(c, e)
<1>1. /\ k \in Keys /\ e.id \in Ids
      /\ c.order \in Seq(Keys) /\ c.delegates \in Seq(Keys)
      /\ c.by_correlation \in IndexType
      /\ c.delegates_by_correlation \in IndexType
      /\ c.correlation_of \in [Keys -> Correlations \cup {None}]
      /\ c.evictions \in Nat
      /\ Corr(e) \in Correlations \cup {None}
  BY CorrType DEF ContextTyped, ContextFields, EnvelopeType
<1>2. /\ r.entries = [x \in DOMAIN c.entries \cup {k} |->
                        IF x = k THEN entry ELSE c.entries[x]]
      /\ r.order = Append(IF k \in DOMAIN c.entries THEN RemoveFirst(c.order, k)
                          ELSE c.order, k)
      /\ r.correlation_of = [c.correlation_of EXCEPT ![k] = Corr(e)]
      /\ r.by_correlation = Index(Unindex(c.by_correlation, old, k), Corr(e), k)
      /\ r.delegates = IF k \in DelegateKeys
                       THEN Append(RemoveFirst(c.delegates, k), k)
                       ELSE c.delegates
      /\ r.delegates_by_correlation =
             IF k \in DelegateKeys
             THEN Index(Unindex(c.delegates_by_correlation, old, k), Corr(e), k)
             ELSE c.delegates_by_correlation
      /\ r.evictions = c.evictions
  BY DEF WriteEntry
<1>3. entry \in ContextEntryType
  <2>1. Version(c, k) \in Nat
    BY DEF ContextTyped, ContextEntryType, Version
  <2> HIDE DEF k
  <2> QED BY <1>1, <2>1 DEF ContextEntryType
<1>4. old \in Correlations \cup {None}
  BY <1>1
<1> HIDE DEF k, r, entry, old
<1>5. DOMAIN r.entries \subseteq Keys
      /\ r.entries \in [DOMAIN r.entries -> ContextEntryType]
  BY <1>1, <1>2, <1>3 DEF ContextTyped
<1>6. RemoveFirst(c.order, k) \in Seq(Keys) /\ RemoveFirst(c.delegates, k) \in Seq(Keys)
  BY <1>1, RemoveFirstType
<1>7. r.order \in Seq(Keys) /\ r.delegates \in Seq(Keys)
  BY <1>1, <1>2, <1>6
<1>8. r.correlation_of \in [Keys -> Correlations \cup {None}]
  BY <1>1, <1>2
<1>9. r.by_correlation \in IndexType /\ r.delegates_by_correlation \in IndexType
  <2>1. /\ Unindex(c.by_correlation, old, k) \in IndexType
        /\ Unindex(c.delegates_by_correlation, old, k) \in IndexType
    BY <1>1, <1>4, UnindexType
  <2>2. /\ Index(Unindex(c.by_correlation, old, k), Corr(e), k) \in IndexType
        /\ Index(Unindex(c.delegates_by_correlation, old, k), Corr(e), k)
               \in IndexType
    BY <1>1, <2>1, AddToIndexType
  <2> QED BY <1>1, <1>2, <2>2
<1>10. ContextTyped(r)
  BY <1>1, <1>2, <1>5, <1>7, <1>8, <1>9 DEF ContextTyped, ContextFields
<1> QED BY <1>10 DEF r

LEMMA ApplyPatchType ==
  ASSUME NEW c, ContextTyped(c), NEW e \in EnvelopeType, e.key \in Keys
  PROVE  ContextTyped(ApplyPatch(c, e))
BY EvictOldestType, WriteEntryType DEF ApplyPatch, NeedsEviction

-----------------------------------------------------------------------------
(* Type correctness *)

LEMMA InitTypeOK == Init => TypeOK
<1> SUFFICES ASSUME Init PROVE TypeOK
  OBVIOUS
<1>1. /\ DOMAIN inboxes \subseteq Agents
      /\ inboxes \in [DOMAIN inboxes -> Seq(EntryType)]
      /\ correlation_counts \in [DOMAIN inboxes -> CountsType]
  BY DEF Init
<1>2. dead \in DeadType
  BY DEF Init, NoDeadLetters, DeadType
<1>3. ContextTyped(ctx)
  BY DEF Init, EmptyContext, ContextTyped, ContextFields, IndexType
<1>4. seen \in SeenType /\ stats \in StatsType
  BY DEF Init, SeenType, StatsType
<1> QED BY <1>1, <1>2, <1>3, <1>4 DEF Init, TypeOK

\* What every envelope that passed validation and dedupe leaves typed.
LEMMA AcceptType ==
  ASSUME TypeOK, NEW e \in EnvelopeType, Accept(e)
  PROVE  /\ seen' \in SeenType
         /\ accepted_at' \in [Ids -> Nat]
         /\ last_received' \in [Agents -> Nat]
         /\ consumed' \in Nat
<1>1. e.id \in Ids
  BY DEF EnvelopeType
<1>2. seen \in SeenType /\ accepted_at \in [Ids -> Nat]
  BY DEF TypeOK
<1>3. seen' \in SeenType
  BY <1>1, <1>2, RememberType DEF Accept
<1>4. seen.evictions + Len(seen.order) + 1 \in Nat
  BY <1>2 DEF SeenType
<1>5. accepted_at' \in [Ids -> Nat]
  BY <1>2, <1>4 DEF Accept
<1> QED BY <1>3, <1>5 DEF Accept, TypeOK

\* A sequenced publish also leaves the clock and the context typed.
LEMMA SequencedType ==
  ASSUME TypeOK, NEW e \in Envelopes, Sequenced(e)
  PROVE  next_sequence' \in Nat /\ ContextTyped(ctx)'
<1>1. e \in EnvelopeType /\ (e.payload = "ContextPatch" <=> e.key # None)
  BY BusAssumption
<1>2. e.payload = "ContextPatch" => e.key \in Keys
  BY <1>1 DEF EnvelopeType
<1>3. ContextTyped(ctx) /\ next_sequence \in Nat
  BY DEF TypeOK
<1>4. next_sequence' \in Nat
  BY <1>3 DEF Sequenced
<1>5. CASE e.payload = "ContextPatch"
  <2>1. ctx' = ApplyPatch(ctx, e)
    BY <1>5 DEF Sequenced
  <2>2. ContextTyped(ApplyPatch(ctx, e))
    BY <1>1, <1>2, <1>3, <1>5, ApplyPatchType
  <2>3. ContextTyped(ctx')
    BY <2>1, <2>2
  <2> QED BY <1>4, <2>3 DEF ContextTyped, ContextFields
<1>6. CASE e.payload # "ContextPatch"
  <2>1. ctx' = ctx
    BY <1>6 DEF Sequenced
  <2> QED BY <1>3, <1>4, <2>1 DEF ContextTyped, ContextFields
<1> QED BY <1>5, <1>6

\* An entry taken from an inbox carries an envelope.
LEMMA InboxHead ==
  ASSUME TypeOK, NEW a \in DOMAIN inboxes, Occupied(a)
  PROVE  /\ inboxes[a] \in Seq(EntryType) /\ inboxes[a] # <<>>
         /\ Head(inboxes[a]) \in EntryType
         /\ Head(inboxes[a]).envelope \in EnvelopeType
<1>1. inboxes[a] \in Seq(EntryType)
  BY DEF TypeOK
<1>2. inboxes[a] # <<>>
  BY <1>1, LimitsPositive DEF Occupied
<1>3. Head(inboxes[a]) \in EntryType
  BY <1>1, <1>2
<1> QED BY <1>1, <1>2, <1>3 DEF EntryType

LEMMA PushType ==
  ASSUME TypeOK, NEW a \in DOMAIN inboxes, NEW entry \in EntryType
  PROVE  PushInbox(a, entry) \in Seq(EntryType) /\ PushCounts(a, entry) \in CountsType
<1>1. /\ inboxes[a] \in Seq(EntryType) /\ correlation_counts[a] \in CountsType
      /\ entry.envelope \in EnvelopeType
  BY DEF TypeOK, EntryType
<1>2. CASE Occupied(a)
  <2>1. Tail(inboxes[a]) \in Seq(EntryType)
    BY <1>2, InboxHead
  <2>2. Decrement(correlation_counts[a], Head(inboxes[a]).envelope) \in CountsType
    BY <1>1, <1>2, InboxHead, CountsType1
  <2> QED BY <1>1, <1>2, <2>1, <2>2, CountsType1 DEF PushInbox, PushCounts
<1>3. CASE ~Occupied(a)
  BY <1>1, <1>3, CountsType1 DEF PushInbox, PushCounts
<1> QED BY <1>2, <1>3

\* What each burial keeps, a delivery keeps.
LEMMA Overflowed ==
  ASSUME TypeOK, NEW e, NEW targets \in SUBSET DOMAIN inboxes, Deliver(e, targets),
         NEW S, dead \in S, \A x \in S, m \in EnvelopeType : Bury(x, m, "overflow") \in S
  PROVE  dead' \in S
<1> DEFINE full == {a \in targets : Occupied(a)}
<1>1. PICK order \in SetToSeqs(full) :
         dead' = BuryAll(dead, [i \in 1..Len(order) |->
                                   Head(inboxes[order[i]]).envelope])
  BY DEF Deliver
<1>2. Cardinality(full) \in Nat
  <2>1. IsFiniteSet(full)
    BY BusAssumption, FS_Subset DEF TypeOK
  <2> QED BY <2>1, FS_CardinalityType
<1>3. order \in [1..Cardinality(full) -> full]
  BY <1>1 DEF SetToSeqs
<1>4. Len(order) \in Nat /\ \A i \in 1..Len(order) : order[i] \in full
  <2> HIDE DEF full
  <2>1. order \in Seq(full)
    BY <1>2, <1>3
  <2> QED BY <2>1
<1>5. \A i \in 1..Len(order) : Head(inboxes[order[i]]).envelope \in EnvelopeType
  BY <1>4, InboxHead
<1> DEFINE dropped == [i \in 1..Len(order) |-> Head(inboxes[order[i]]).envelope]
<1>6. dropped \in Seq(EnvelopeType)
  BY <1>4, <1>5
<1> HIDE DEF dropped
<1>7. BuryAll(dead, dropped) \in S
  BY <1>6, BuryAllKeeps
<1> QED BY <1>1, <1>7 DEF dropped

LEMMA DeliverType ==
  ASSUME TypeOK, NEW e \in EnvelopeType, NEW targets \in SUBSET DOMAIN inboxes,
         Deliver(e, targets)
  PROVE  /\ DOMAIN inboxes' \subseteq Agents
         /\ inboxes' \in [DOMAIN inboxes' -> Seq(EntryType)]
         /\ correlation_counts' \in [DOMAIN inboxes' -> CountsType]
         /\ dead' \in DeadType
         /\ stats' \in StatsType
<1> DEFINE entry == [sequence |-> next_sequence + 1, envelope |-> e]
           full  == {a \in targets : Occupied(a)}
<1>1. entry \in EntryType
  BY DEF TypeOK, EntryType
<1>2. /\ DOMAIN inboxes \subseteq Agents
      /\ inboxes \in [DOMAIN inboxes -> Seq(EntryType)]
      /\ correlation_counts \in [DOMAIN inboxes -> CountsType]
      /\ dead \in DeadType /\ stats \in StatsType
  BY DEF TypeOK
<1>3. inboxes' = [a \in DOMAIN inboxes |->
                    IF a \in targets THEN PushInbox(a, entry) ELSE inboxes[a]]
      /\ correlation_counts' =
            [a \in DOMAIN inboxes |-> IF a \in targets THEN PushCounts(a, entry)
                                     ELSE correlation_counts[a]]
  BY DEF Deliver
<1>5. stats' = Tally(Cardinality(targets), Cardinality(full))
  BY DEF Deliver
<1> HIDE DEF entry
<1>6. \A a \in DOMAIN inboxes : PushInbox(a, entry) \in Seq(EntryType)
                               /\ PushCounts(a, entry) \in CountsType
  BY <1>1, PushType
<1>7. /\ inboxes' \in [DOMAIN inboxes -> Seq(EntryType)]
      /\ DOMAIN inboxes' = DOMAIN inboxes
      /\ correlation_counts' \in [DOMAIN inboxes -> CountsType]
  BY <1>2, <1>3, <1>6
<1>8. Cardinality(targets) \in Nat /\ Cardinality(full) \in Nat
  <2>1. IsFiniteSet(targets) /\ IsFiniteSet(full)
    BY <1>2, BusAssumption, FS_Subset
  <2> QED BY <2>1, FS_CardinalityType
<1>9. stats' \in StatsType
  BY <1>2, <1>5, <1>8 DEF Tally, StatsType
<1>10. dead' \in DeadType
  BY <1>2, Overflowed, BuryType DEF Reasons
<1> QED BY <1>2, <1>7, <1>9, <1>10

\* One step per action, each from the types of the operators it is built of.
LEMMA NextTypeOK == TypeOK /\ [Next]_vars => TypeOK'
<1> SUFFICES ASSUME TypeOK, [Next]_vars PROVE TypeOK'
  OBVIOUS
<1>1. /\ next_sequence \in Nat
      /\ DOMAIN inboxes \subseteq Agents
      /\ inboxes \in [DOMAIN inboxes -> Seq(EntryType)]
      /\ correlation_counts \in [DOMAIN inboxes -> CountsType]
      /\ dead \in DeadType /\ stats \in StatsType
      /\ last_received \in [Agents -> Nat] /\ consumed \in Nat
  BY DEF TypeOK
<1>2. ASSUME NEW e \in Envelopes
      PROVE  /\ e \in EnvelopeType
             /\ \A reason \in Reasons : Bury(dead, e, reason) \in DeadType
  BY <1>1, BuryType, BusAssumption
<1>3. [stats EXCEPT !.publish_attempts_total = @ + 1] \in StatsType
  <2>1. stats \in StatsType
    BY <1>1
  <2> QED BY ONLY <2>1 DEF StatsType
<1>4. ASSUME NEW a \in Agents, RegisterAgent(a) PROVE TypeOK'
  <2>1. [c \in Correlations |-> 0] \in CountsType
    BY DEF CountsType
  <2>2. /\ DOMAIN inboxes' = DOMAIN inboxes \cup {a}
        /\ inboxes' \in [DOMAIN inboxes' -> Seq(EntryType)]
    BY <1>1, <1>4 DEF RegisterAgent
  <2>3. correlation_counts' \in [DOMAIN inboxes' -> CountsType]
    BY <1>1, <1>4, <2>1, <2>2 DEF RegisterAgent
  <2> QED BY <1>1, <1>4, <2>2, <2>3
          DEF RegisterAgent, TypeOK, history, ContextTyped, ContextFields
<1>5. ASSUME NEW a \in Agents, UnregisterAgent(a) PROVE TypeOK'
  <2>1. /\ DOMAIN inboxes' = DOMAIN inboxes \ {a}
        /\ inboxes' \in [DOMAIN inboxes' -> Seq(EntryType)]
        /\ correlation_counts' \in [DOMAIN inboxes' -> CountsType]
    BY <1>1, <1>5 DEF UnregisterAgent, Restrict
  <2>2. consumed' \in Nat
    <3>1. inboxes[a] \in Seq(EntryType)
      BY <1>1, <1>5 DEF UnregisterAgent
    <3> QED BY <1>1, <1>5, <3>1 DEF UnregisterAgent
  <2> QED BY <1>1, <1>5, <2>1, <2>2
          DEF UnregisterAgent, TypeOK, ContextTyped, ContextFields
<1>6. ASSUME NEW a \in Agents, NEW max \in 0..max_inbox_messages_per_agent,
             DrainForAgent(a, max)
      PROVE  TypeOK'
  <2> DEFINE pending == Len(inboxes[a])
             n == IF max = 0 \/ max > pending THEN pending ELSE max
  <2>1. a \in DOMAIN inboxes /\ inboxes[a] \in Seq(EntryType)
        /\ correlation_counts[a] \in CountsType
    BY <1>1, <1>6 DEF DrainForAgent
  <2>2. max \in Nat /\ pending \in Nat /\ n \in 0..pending
    BY <2>1, LimitsPositive
  <2>3. /\ inboxes' = [inboxes EXCEPT ![a] = SubSeq(@, n + 1, pending)]
        /\ correlation_counts' =
               [correlation_counts EXCEPT ![a] = DrainCounts(a, n)]
        /\ last_received' = IF n = 0 THEN last_received
                            ELSE [last_received EXCEPT
                                     ![a] = inboxes[a][n].sequence]
        /\ consumed' = consumed + n
        /\ UNCHANGED <<next_sequence, seen, dead, ctx, stats, accepted_at>>
    BY <1>6 DEF DrainForAgent
  <2> HIDE DEF n
  <2>4. SubSeq(inboxes[a], n + 1, pending) \in Seq(EntryType)
    BY <2>1, <2>2
  <2>5. DrainCounts(a, n) \in CountsType
    BY <2>1, <2>2, DrainCountsType
  <2>6. n # 0 => inboxes[a][n].sequence \in Nat
    <3> SUFFICES ASSUME n # 0 PROVE inboxes[a][n].sequence \in Nat
      OBVIOUS
    <3>1. n \in 1..pending
      BY <2>2
    <3>2. inboxes[a][n] \in EntryType
      BY <2>1, <3>1
    <3> QED BY <3>2 DEF EntryType
  <2>7. /\ DOMAIN inboxes' = DOMAIN inboxes
        /\ inboxes' \in [DOMAIN inboxes -> Seq(EntryType)]
        /\ correlation_counts' \in [DOMAIN inboxes -> CountsType]
    BY <1>1, <2>3, <2>4, <2>5
  <2>8. last_received' \in [Agents -> Nat] /\ consumed' \in Nat
    BY <1>1, <2>2, <2>3, <2>6
  <2> QED BY <1>1, <2>3, <2>7, <2>8 DEF TypeOK, ContextTyped, ContextFields
<1>7. ASSUME NEW e \in Envelopes, PublishInvalid(e) PROVE TypeOK'
  <2>1. dead' \in DeadType
    BY <1>2, <1>7 DEF PublishInvalid, Reasons
  <2> QED BY <1>7, <2>1
          DEF PublishInvalid, TypeOK, mail, history, ContextTyped, ContextFields
<1>8. ASSUME NEW e \in Envelopes, PublishDuplicate(e) PROVE TypeOK'
  <2>1. dead' \in DeadType /\ stats' \in StatsType
    BY <1>2, <1>3, <1>8 DEF PublishDuplicate, Reasons
  <2> QED BY <1>8, <2>1
          DEF PublishDuplicate, TypeOK, mail, history, ContextTyped, ContextFields
<1>9. ASSUME NEW e \in Envelopes, PublishConflict(e) PROVE TypeOK'
  <2>1. dead' \in DeadType /\ stats' \in StatsType
    BY <1>2, <1>3, <1>9 DEF PublishConflict, Reasons
  <2>2. Accept(e) /\ UNCHANGED <<mail, ctx>>
    BY <1>9 DEF PublishConflict
  <2>3. /\ seen' \in SeenType /\ accepted_at' \in [Ids -> Nat]
        /\ last_received' \in [Agents -> Nat] /\ consumed' \in Nat
    BY <1>2, <2>2, AcceptType
  <2> QED BY <2>1, <2>2, <2>3 DEF TypeOK, mail, ContextTyped, ContextFields
<1>10. ASSUME NEW e \in Envelopes, Sequenced(e)
       PROVE  /\ next_sequence' \in Nat /\ ContextTyped(ctx)'
              /\ seen' \in SeenType /\ accepted_at' \in [Ids -> Nat]
              /\ last_received' \in [Agents -> Nat] /\ consumed' \in Nat
  <2>1. Accept(e)
    BY <1>10 DEF Sequenced
  <2> QED BY <1>2, <1>10, <2>1, AcceptType, SequencedType
<1>11. ASSUME NEW e \in Envelopes, PublishUnknownTarget(e) PROVE TypeOK'
  <2>1. dead' \in DeadType /\ stats' \in StatsType
    BY <1>2, <1>3, <1>11 DEF PublishUnknownTarget, Reasons
  <2>2. Sequenced(e) /\ UNCHANGED <<inboxes, correlation_counts>>
    BY <1>11 DEF PublishUnknownTarget
  <2> QED BY <1>1, <1>10, <2>1, <2>2 DEF TypeOK
<1>12. ASSUME NEW e \in Envelopes, Sequenced(e),
              NEW targets \in SUBSET DOMAIN inboxes, Deliver(e, targets)
       PROVE  TypeOK'
  <2>1. /\ DOMAIN inboxes' \subseteq Agents
        /\ inboxes' \in [DOMAIN inboxes' -> Seq(EntryType)]
        /\ correlation_counts' \in [DOMAIN inboxes' -> CountsType]
        /\ dead' \in DeadType
        /\ stats' \in StatsType
    BY <1>2, <1>12, DeliverType
  <2> QED BY <1>10, <1>12, <2>1 DEF TypeOK
<1>13. ASSUME NEW e \in Envelopes, PublishDirect(e) PROVE TypeOK'
  BY <1>12, <1>13 DEF PublishDirect
<1>14. ASSUME NEW e \in Envelopes, PublishBroadcast(e) PROVE TypeOK'
  BY <1>12, <1>14 DEF PublishBroadcast
<1>15. CASE UNCHANGED vars
  BY <1>15 DEF vars, mail, history, TypeOK, ContextTyped, ContextFields
<1> QED
  BY <1>4, <1>5, <1>6, <1>7, <1>8, <1>9, <1>11, <1>13, <1>14, <1>15
  DEF Next, Publish

\* Whatever agents call in whatever order, every structure of the bus keeps
\* its shape: an inbox and its counters exist for the same agents, every index
\* holds keys, every counter is a natural number.
THEOREM TypeCorrect == Spec => []TypeOK
<1>1. Init => TypeOK
  BY InitTypeOK
<1>2. TypeOK /\ [Next]_vars => TypeOK'
  BY NextTypeOK
<1> QED BY <1>1, <1>2, PTL DEF Spec

-----------------------------------------------------------------------------
(* Ordered delivery *)

LEMMA Numbered ==
  ASSUME NEW s \in Seq(EntryType)
  PROVE  \A i \in 1..Len(s) : s[i].sequence \in Nat
<1>1. \A i \in 1..Len(s) : s[i] \in EntryType
  OBVIOUS
<1> QED BY <1>1 DEF EntryType

LEMMA OrderedTail ==
  ASSUME NEW s \in Seq(EntryType), s # <<>>, NEW low \in Nat, NEW high \in Nat,
         Ordered(s, low, high)
  PROVE  Ordered(Tail(s), low, high)
<1>1. /\ Len(s) \in Nat /\ Len(Tail(s)) = Len(s) - 1
      /\ \A i \in 1..Len(Tail(s)) : Tail(s)[i] = s[i + 1]
  OBVIOUS
<1> SUFFICES ASSUME NEW i \in 1..Len(Tail(s))
             PROVE  /\ low < Tail(s)[i].sequence
                    /\ Tail(s)[i].sequence <= high
                    /\ \A j \in 1..(i - 1) :
                           Tail(s)[j].sequence < Tail(s)[i].sequence
  BY DEF Ordered
<1>2. i + 1 \in 1..Len(s) /\ Tail(s)[i] = s[i + 1]
  BY <1>1
<1>3. ASSUME NEW j \in 1..(i - 1)
      PROVE  Tail(s)[j].sequence < Tail(s)[i].sequence
  <2>1. j + 1 \in 1..((i + 1) - 1) /\ Tail(s)[j] = s[j + 1]
    BY <1>1
  <2> QED BY <1>2, <2>1 DEF Ordered
<1> QED BY <1>2, <1>3 DEF Ordered

LEMMA OrderedAppend ==
  ASSUME NEW s \in Seq(EntryType), NEW low \in Nat, NEW high \in Nat,
         low <= high, Ordered(s, low, high),
         NEW entry \in EntryType, entry.sequence = high + 1
  PROVE  Ordered(Append(s, entry), low, high + 1)
<1> DEFINE r == Append(s, entry)
<1>1. /\ Len(s) \in Nat /\ Len(r) = Len(s) + 1
      /\ \A i \in 1..Len(s) : r[i] = s[i]
      /\ r[Len(s) + 1] = entry
  OBVIOUS
<1>2. \A i \in 1..Len(s) : s[i].sequence \in Nat
  BY Numbered
<1> HIDE DEF r
<1> SUFFICES ASSUME NEW i \in 1..Len(r)
             PROVE  /\ low < r[i].sequence
                    /\ r[i].sequence <= high + 1
                    /\ \A j \in 1..(i - 1) : r[j].sequence < r[i].sequence
  BY DEF Ordered, r
<1>3. CASE i \in 1..Len(s)
  <2>1. /\ low < s[i].sequence /\ s[i].sequence <= high
        /\ \A j \in 1..(i - 1) : s[j].sequence < s[i].sequence
    BY <1>3 DEF Ordered
  <2>2. r[i] = s[i] /\ \A j \in 1..(i - 1) : r[j] = s[j]
    BY <1>1, <1>3
  <2>3. s[i].sequence \in Nat
    BY <1>2, <1>3
  <2>4. s[i].sequence <= high + 1
    BY <2>1, <2>3
  <2> QED BY <2>1, <2>2, <2>4
<1>4. CASE i = Len(s) + 1
  <2>1. \A j \in 1..(i - 1) : r[j] = s[j] /\ s[j].sequence <= high
    BY <1>1, <1>4 DEF Ordered
  <2>2. \A j \in 1..(i - 1) : s[j].sequence \in Nat
    BY <1>1, <1>2, <1>4
  <2> QED BY <1>1, <1>4, <2>1, <2>2
<1> QED BY <1>1, <1>3, <1>4

\* What is left after the first n entries is newer than the last of them.
LEMMA OrderedSuffix ==
  ASSUME NEW s \in Seq(EntryType), NEW low \in Nat, NEW high \in Nat,
         Ordered(s, low, high), NEW n \in 1..Len(s)
  PROVE  Ordered(SubSeq(s, n + 1, Len(s)), s[n].sequence, high)
<1> DEFINE r == SubSeq(s, n + 1, Len(s))
<1>1. /\ Len(s) \in Nat /\ n \in Nat /\ Len(r) = Len(s) - n
      /\ \A i \in 1..Len(r) : r[i] = s[i + n]
  OBVIOUS
<1> HIDE DEF r
<1> SUFFICES ASSUME NEW i \in 1..Len(r)
             PROVE  /\ s[n].sequence < r[i].sequence
                    /\ r[i].sequence <= high
                    /\ \A j \in 1..(i - 1) : r[j].sequence < r[i].sequence
  BY DEF Ordered, r
<1>2. i + n \in 1..Len(s) /\ r[i] = s[i + n] /\ n \in 1..((i + n) - 1)
  BY <1>1
<1>3. /\ s[i + n].sequence <= high
      /\ \A j \in 1..((i + n) - 1) : s[j].sequence < s[i + n].sequence
  BY <1>2 DEF Ordered
<1>4. ASSUME NEW j \in 1..(i - 1) PROVE r[j].sequence < r[i].sequence
  <2>1. j + n \in 1..((i + n) - 1) /\ r[j] = s[j + n]
    BY <1>1
  <2> QED BY <1>2, <1>3, <2>1
<1> QED BY <1>2, <1>3, <1>4

LEMMA OrderedRaise ==
  ASSUME NEW s \in Seq(EntryType), NEW low \in Nat, NEW high \in Nat,
         Ordered(s, low, high)
  PROVE  Ordered(s, low, high + 1)
<1>1. \A i \in 1..Len(s) : s[i].sequence \in Nat
  BY Numbered
<1> QED BY <1>1 DEF Ordered

\* Inductive: an inbox that is empty, or not there yet, still starts after
\* what its agent received, because nothing received is above the clock.
DeliveryInv ==
  /\ TypeOK
  /\ OrderedDelivery
  /\ \A a \in Agents : last_received[a] <= next_sequence
  /\ \A a \in DOMAIN inboxes : Len(inboxes[a]) <= max_inbox_messages_per_agent

LEMMA PushOrdered ==
  ASSUME DeliveryInv, NEW a \in DOMAIN inboxes, NEW entry \in EntryType,
         entry.sequence = next_sequence + 1
  PROVE  /\ Ordered(PushInbox(a, entry), last_received[a], next_sequence + 1)
         /\ Len(PushInbox(a, entry)) <= max_inbox_messages_per_agent
<1> DEFINE kept == IF Occupied(a) THEN Tail(inboxes[a]) ELSE inboxes[a]
<1>1. /\ inboxes[a] \in Seq(EntryType) /\ a \in Agents
      /\ last_received[a] \in Nat /\ next_sequence \in Nat
      /\ last_received[a] <= next_sequence
      /\ Ordered(inboxes[a], last_received[a], next_sequence)
      /\ Len(inboxes[a]) <= max_inbox_messages_per_agent
      /\ max_inbox_messages_per_agent \in Nat \ {0}
  BY LimitsPositive DEF DeliveryInv, TypeOK, OrderedDelivery
<1>2. /\ kept \in Seq(EntryType)
      /\ Ordered(kept, last_received[a], next_sequence)
      /\ Len(kept) < max_inbox_messages_per_agent
  <2>1. CASE Occupied(a)
    <3>1. inboxes[a] # <<>>
      BY <1>1, <2>1 DEF Occupied
    <3>2. Tail(inboxes[a]) \in Seq(EntryType)
          /\ Len(Tail(inboxes[a])) = Len(inboxes[a]) - 1
      BY <1>1, <3>1
    <3> QED BY <1>1, <2>1, <3>1, <3>2, OrderedTail
  <2>2. CASE ~Occupied(a)
    BY <1>1, <2>2 DEF Occupied
  <2> QED BY <2>1, <2>2
<1> HIDE DEF kept
<1>3. Ordered(Append(kept, entry), last_received[a], next_sequence + 1)
  BY <1>1, <1>2, OrderedAppend
<1>4. Len(Append(kept, entry)) <= max_inbox_messages_per_agent
  BY <1>1, <1>2
<1> QED BY <1>3, <1>4 DEF PushInbox, kept

\* A delivery numbers its targets' entries past everything there is.
LEMMA DeliverOrdered ==
  ASSUME DeliveryInv, NEW e \in Envelopes, Sequenced(e),
         NEW targets \in SUBSET DOMAIN inboxes, Deliver(e, targets), TypeOK'
  PROVE  DeliveryInv'
<1> DEFINE entry == [sequence |-> next_sequence + 1, envelope |-> e]
<1>1. /\ entry \in EntryType /\ entry.sequence = next_sequence + 1
      /\ next_sequence \in Nat
  BY BusAssumption DEF DeliveryInv, TypeOK, EntryType
<1>2. /\ inboxes' = [a \in DOMAIN inboxes |->
                       IF a \in targets THEN PushInbox(a, entry) ELSE inboxes[a]]
      /\ next_sequence' = next_sequence + 1
      /\ last_received' = last_received
  BY DEF Deliver, Sequenced, Accept
<1> HIDE DEF entry
<1>3. DOMAIN inboxes' = DOMAIN inboxes
  BY <1>2
<1>4. ASSUME NEW a \in DOMAIN inboxes
      PROVE  /\ Ordered(inboxes'[a], last_received[a], next_sequence + 1)
             /\ Len(inboxes'[a]) <= max_inbox_messages_per_agent
  <2>1. CASE a \in targets
    BY <1>1, <1>2, <2>1, PushOrdered
  <2>2. CASE a \notin targets
    <3>1. /\ inboxes[a] \in Seq(EntryType) /\ last_received[a] \in Nat
          /\ Ordered(inboxes[a], last_received[a], next_sequence)
          /\ Len(inboxes[a]) <= max_inbox_messages_per_agent
      BY DEF DeliveryInv, TypeOK, OrderedDelivery
    <3>2. Ordered(inboxes[a], last_received[a], next_sequence + 1)
      BY <1>1, <3>1, OrderedRaise
    <3> QED BY <1>2, <2>2, <3>1, <3>2
  <2> QED BY <2>1, <2>2
<1>5. \A a \in Agents : last_received[a] <= next_sequence + 1
  BY <1>1 DEF DeliveryInv, TypeOK
<1>6. OrderedDelivery'
  BY <1>2, <1>3, <1>4 DEF OrderedDelivery
<1> QED BY <1>2, <1>3, <1>4, <1>5, <1>6 DEF DeliveryInv

\* Steps that leave mailboxes, clock and receipts alone.
LEMMA DeliveryStutter ==
  ASSUME DeliveryInv, TypeOK', UNCHANGED <<mail, last_received>>
  PROVE  DeliveryInv'
BY DEF DeliveryInv, OrderedDelivery, Ordered, mail

LEMMA NextDelivery == DeliveryInv /\ [Next]_vars => DeliveryInv'
<1> SUFFICES ASSUME DeliveryInv, [Next]_vars PROVE DeliveryInv'
  OBVIOUS
<1>1. TypeOK /\ TypeOK'
  BY NextTypeOK DEF DeliveryInv
<1>2. /\ DOMAIN inboxes \subseteq Agents /\ next_sequence \in Nat
      /\ last_received \in [Agents -> Nat]
      /\ max_inbox_messages_per_agent \in Nat \ {0}
      /\ \A a \in Agents : last_received[a] <= next_sequence
  BY <1>1, LimitsPositive DEF TypeOK, DeliveryInv
<1>3. ASSUME NEW a \in DOMAIN inboxes
      PROVE  /\ inboxes[a] \in Seq(EntryType)
             /\ Ordered(inboxes[a], last_received[a], next_sequence)
             /\ Len(inboxes[a]) <= max_inbox_messages_per_agent
  BY DEF DeliveryInv, TypeOK, OrderedDelivery
<1>4. ASSUME NEW a \in Agents, RegisterAgent(a) PROVE DeliveryInv'
  <2>1. /\ DOMAIN inboxes' = DOMAIN inboxes \cup {a}
        /\ \A x \in DOMAIN inboxes : inboxes'[x] = inboxes[x]
        /\ a \notin DOMAIN inboxes => inboxes'[a] = <<>>
        /\ UNCHANGED <<next_sequence, last_received>>
    BY <1>4 DEF RegisterAgent, history
  <2>2. \A low, high : Ordered(<<>>, low, high)
    BY DEF Ordered
  <2>3. OrderedDelivery'
    BY <1>3, <2>1, <2>2 DEF OrderedDelivery
  <2>4. \A x \in DOMAIN inboxes' :
            Len(inboxes'[x]) <= max_inbox_messages_per_agent
    BY <1>2, <1>3, <2>1
  <2> QED BY <1>1, <1>2, <2>1, <2>3, <2>4 DEF DeliveryInv
<1>5. ASSUME NEW a \in Agents, UnregisterAgent(a) PROVE DeliveryInv'
  <2>1. /\ DOMAIN inboxes' = DOMAIN inboxes \ {a}
        /\ \A x \in DOMAIN inboxes' : inboxes'[x] = inboxes[x]
        /\ UNCHANGED <<next_sequence, last_received>>
    BY <1>5 DEF UnregisterAgent, Restrict
  <2>2. OrderedDelivery'
    BY <1>3, <2>1 DEF OrderedDelivery
  <2> QED BY <1>1, <1>2, <1>3, <2>1, <2>2 DEF DeliveryInv
<1>6. ASSUME NEW a \in Agents, NEW max \in 0..max_inbox_messages_per_agent,
             DrainForAgent(a, max)
      PROVE  DeliveryInv'
  <2> DEFINE pending == Len(inboxes[a])
             n == IF max = 0 \/ max > pending THEN pending ELSE max
  <2>1. /\ a \in DOMAIN inboxes
        /\ inboxes' = [inboxes EXCEPT ![a] = SubSeq(@, n + 1, pending)]
        /\ last_received' = IF n = 0 THEN last_received
                            ELSE [last_received EXCEPT
                                     ![a] = inboxes[a][n].sequence]
        /\ next_sequence' = next_sequence
    BY <1>6 DEF DrainForAgent
  <2>2. inboxes[a] \in Seq(EntryType) /\ last_received[a] \in Nat /\ a \in Agents
        /\ Ordered(inboxes[a], last_received[a], next_sequence)
    BY <1>2, <1>3, <2>1
  <2>3. max \in Nat /\ pending \in Nat /\ n \in 0..pending
    BY <1>2, <2>2
  <2> HIDE DEF n
  <2>4. /\ DOMAIN inboxes' = DOMAIN inboxes
        /\ inboxes'[a] = SubSeq(inboxes[a], n + 1, pending)
        /\ \A x \in DOMAIN inboxes \ {a} : inboxes'[x] = inboxes[x]
    BY <2>1
  <2>5. \A x \in Agents \ {a} : last_received'[x] = last_received[x]
    BY <1>2, <2>1
  <2>6. /\ Ordered(inboxes'[a], last_received'[a], next_sequence)
        /\ last_received'[a] <= next_sequence
    <3>1. CASE n = 0
      <4>1. inboxes'[a] = inboxes[a]
        BY <2>2, <2>4, <3>1
      <4> QED BY <1>2, <2>1, <2>2, <3>1, <4>1
    <3>2. CASE n # 0
      <4>1. n \in 1..pending
        BY <2>3, <3>2
      <4>2. last_received'[a] = inboxes[a][n].sequence
        BY <1>2, <2>1, <2>2, <3>2
      <4>3. inboxes[a][n].sequence <= next_sequence
        BY <2>2, <4>1 DEF Ordered
      <4> QED BY <1>2, <2>2, <2>4, <4>1, <4>2, <4>3, OrderedSuffix
    <3> QED BY <3>1, <3>2
  <2>7. Len(inboxes'[a]) <= max_inbox_messages_per_agent
    <3>1. Len(SubSeq(inboxes[a], n + 1, pending)) = pending - n
      BY <2>2, <2>3
    <3> QED BY <1>2, <1>3, <2>1, <2>3, <2>4, <3>1
  <2>8. OrderedDelivery'
    BY <1>2, <1>3, <2>1, <2>4, <2>5, <2>6 DEF OrderedDelivery
  <2>9. \A x \in Agents : last_received'[x] <= next_sequence'
    BY <1>2, <2>1, <2>5, <2>6
  <2>10. \A x \in DOMAIN inboxes' :
            Len(inboxes'[x]) <= max_inbox_messages_per_agent
    BY <1>3, <2>4, <2>7
  <2> QED BY <1>1, <2>8, <2>9, <2>10 DEF DeliveryInv
<1>7. ASSUME NEW e \in Envelopes, PublishInvalid(e) PROVE DeliveryInv'
  BY <1>1, <1>7, DeliveryStutter DEF PublishInvalid, mail, history
<1>8. ASSUME NEW e \in Envelopes, PublishDuplicate(e) PROVE DeliveryInv'
  BY <1>1, <1>8, DeliveryStutter DEF PublishDuplicate, mail, history
<1>9. ASSUME NEW e \in Envelopes, PublishConflict(e) PROVE DeliveryInv'
  BY <1>1, <1>9, DeliveryStutter DEF PublishConflict, Accept, mail
<1>10. ASSUME NEW e \in Envelopes, PublishUnknownTarget(e) PROVE DeliveryInv'
  <2>1. /\ next_sequence' = next_sequence + 1
        /\ UNCHANGED <<inboxes, last_received>>
    BY <1>10 DEF PublishUnknownTarget, Sequenced, Accept
  <2>2. \A a \in DOMAIN inboxes :
            Ordered(inboxes[a], last_received[a], next_sequence + 1)
    BY <1>2, <1>3, OrderedRaise
  <2>3. OrderedDelivery'
    BY <2>1, <2>2 DEF OrderedDelivery
  <2> QED BY <1>1, <1>2, <1>3, <2>1, <2>3 DEF DeliveryInv
<1>11. ASSUME NEW e \in Envelopes, PublishDirect(e) PROVE DeliveryInv'
  BY <1>1, <1>11, DeliverOrdered DEF PublishDirect
<1>12. ASSUME NEW e \in Envelopes, PublishBroadcast(e) PROVE DeliveryInv'
  BY <1>1, <1>12, DeliverOrdered DEF PublishBroadcast
<1>13. CASE UNCHANGED vars
  BY <1>1, <1>13, DeliveryStutter DEF vars, mail, history
<1> QED
  BY <1>4, <1>5, <1>6, <1>7, <1>8, <1>9, <1>10, <1>11, <1>12, <1>13
  DEF Next, Publish

LEMMA InitDelivery == Init => DeliveryInv
BY InitTypeOK DEF Init, DeliveryInv, OrderedDelivery

\* Per-agent ordered delivery: an agent name receives sequence numbers in
\* increasing order for ever, through overflows, partial drains, unregistering
\* and registering again (push_inbox_entry_locked, drain_for_agent).
THEOREM OrderedDeliveryHolds == Spec => []OrderedDelivery
<1>1. Init => DeliveryInv
  BY InitDelivery
<1>2. DeliveryInv /\ [Next]_vars => DeliveryInv'
  BY NextDelivery
<1>3. DeliveryInv => OrderedDelivery
  BY DEF DeliveryInv
<1> QED BY <1>1, <1>2, <1>3, PTL DEF Spec

-----------------------------------------------------------------------------
(* Delivery implements OrderedMailboxes *)

LEMMA NumbersType ==
  ASSUME NEW s \in Seq(EntryType)
  PROVE  Numbers(s) \in Seq(Nat) /\ Len(Numbers(s)) = Len(s)
<1>1. Len(s) \in Nat /\ \A i \in 1..Len(s) : s[i].sequence \in Nat
  BY Numbered
<1> QED BY <1>1 DEF Numbers

LEMMA NumbersSuffix ==
  ASSUME NEW s \in Seq(EntryType), NEW n \in 0..Len(s)
  PROVE  Numbers(SubSeq(s, n + 1, Len(s))) = SubSeq(Numbers(s), n + 1, Len(s))
<1> DEFINE r == SubSeq(s, n + 1, Len(s))
           t == SubSeq(Numbers(s), n + 1, Len(s))
<1>1. /\ Len(s) \in Nat /\ n \in Nat
      /\ Numbers(s) \in Seq(Nat) /\ Len(Numbers(s)) = Len(s)
  BY NumbersType
<1>2. /\ r \in Seq(EntryType) /\ Len(r) = Len(s) - n
      /\ \A i \in 1..Len(r) : r[i] = s[i + n] /\ i + n \in 1..Len(s)
  BY <1>1
<1>3. /\ t \in Seq(Nat) /\ Len(t) = Len(s) - n
      /\ \A i \in 1..Len(t) : t[i] = Numbers(s)[i + n]
  BY <1>1, SMTT(40)
<1> HIDE DEF r, t
<1>4. Numbers(r) \in Seq(Nat) /\ Len(Numbers(r)) = Len(r)
  BY <1>2, NumbersType
<1>5. \A i \in 1..Len(t) : Numbers(r)[i] = t[i]
  BY <1>1, <1>2, <1>3 DEF Numbers
<1>6. Numbers(r) = t
  <2>1. Len(Numbers(r)) = Len(t)
    BY <1>2, <1>3, <1>4
  <2> QED BY <1>3, <1>4, <1>5, <2>1, SeqEqual
<1> QED BY <1>6 DEF r, t

LEMMA NumbersAppend ==
  ASSUME NEW s \in Seq(EntryType), NEW entry \in EntryType
  PROVE  Numbers(Append(s, entry)) = Append(Numbers(s), entry.sequence)
<1> DEFINE r == Append(s, entry)
           t == Append(Numbers(s), entry.sequence)
<1>1. /\ Len(s) \in Nat /\ entry.sequence \in Nat
      /\ Numbers(s) \in Seq(Nat) /\ Len(Numbers(s)) = Len(s)
  <2>1. entry.sequence \in Nat
    BY DEF EntryType
  <2> QED BY <2>1, NumbersType
<1>2. /\ r \in Seq(EntryType) /\ Len(r) = Len(s) + 1
      /\ \A i \in 1..Len(s) : r[i] = s[i]
      /\ r[Len(s) + 1] = entry
  BY <1>1
<1>3. /\ t \in Seq(Nat) /\ Len(t) = Len(s) + 1
      /\ \A i \in 1..Len(s) : t[i] = Numbers(s)[i]
      /\ t[Len(s) + 1] = entry.sequence
  BY <1>1
<1> HIDE DEF r, t
<1>4. Numbers(r) \in Seq(Nat) /\ Len(Numbers(r)) = Len(r)
  BY <1>2, NumbersType
<1>5. ASSUME NEW i \in 1..Len(t) PROVE Numbers(r)[i] = t[i]
  <2>1. Numbers(r)[i] = r[i].sequence
    BY <1>2, <1>3 DEF Numbers
  <2>2. CASE i \in 1..Len(s)
    BY <1>2, <1>3, <2>1, <2>2 DEF Numbers
  <2>3. CASE i = Len(s) + 1
    BY <1>2, <1>3, <2>1, <2>3
  <2> QED BY <1>1, <1>3, <2>2, <2>3
<1>6. Numbers(r) = t
  <2>1. Len(Numbers(r)) = Len(t)
    BY <1>2, <1>3, <1>4
  <2> QED BY <1>3, <1>4, <1>5, <2>1, SeqEqual
<1> QED BY <1>6 DEF r, t

\* Dropping the oldest entry of a full inbox before the push is keeping the
\* newest Capacity numbers after it.
LEMMA PushNewest ==
  ASSUME DeliveryInv, NEW a \in DOMAIN inboxes, NEW entry \in EntryType
  PROVE  Numbers(PushInbox(a, entry)) =
             Mailboxes!Newest(Append(Numbers(inboxes[a]), entry.sequence))
<1> DEFINE s == inboxes[a]
           t == Append(Numbers(s), entry.sequence)
           capacity == max_inbox_messages_per_agent
<1>1. /\ s \in Seq(EntryType) /\ Len(s) <= capacity
      /\ capacity \in Nat \ {0} /\ entry.sequence \in Nat
  BY LimitsPositive DEF DeliveryInv, TypeOK, EntryType
<1>2. Numbers(s) \in Seq(Nat) /\ Len(Numbers(s)) = Len(s) /\ Len(s) \in Nat
  BY <1>1, NumbersType
<1>3. t \in Seq(Nat) /\ Len(t) = Len(s) + 1
  BY <1>1, <1>2
<1>4. CASE Len(s) >= capacity
  <2>1. PushInbox(a, entry) = Append(Tail(s), entry)
    BY <1>4 DEF PushInbox, Occupied
  <2>2. s # <<>> /\ Tail(s) = SubSeq(s, 2, Len(s)) /\ Tail(s) \in Seq(EntryType)
    BY <1>1, <1>4
  <2>3. Numbers(Tail(s)) = SubSeq(Numbers(s), 2, Len(s))
    <3>1. 1 \in 0..Len(s)
      BY <1>1, <1>2, <1>4
    <3>2. Numbers(SubSeq(s, 1 + 1, Len(s))) = SubSeq(Numbers(s), 1 + 1, Len(s))
      <4> HIDE DEF s
      <4> QED BY <1>1, <3>1, NumbersSuffix
    <3>3. 1 + 1 = 2
      OBVIOUS
    <3> QED BY <2>2, <3>2, <3>3, Zenon
  <2>4. Numbers(PushInbox(a, entry)) =
            Append(SubSeq(Numbers(s), 2, Len(s)), entry.sequence)
    BY <2>1, <2>2, <2>3, NumbersAppend
  <2>5. Mailboxes!Newest(t) = SubSeq(t, 2, Len(s) + 1)
    <3>1. Len(s) = capacity
      BY <1>1, <1>2, <1>4
    <3> QED BY <1>1, <1>3, <3>1 DEF Mailboxes!Newest
  <2>6. SubSeq(t, 2, Len(s) + 1) =
            Append(SubSeq(Numbers(s), 2, Len(s)), entry.sequence)
    BY <1>1, <1>2, <1>4, SMTT(40)
  <2> QED BY <2>4, <2>5, <2>6
<1>5. CASE Len(s) < capacity
  <2>1. PushInbox(a, entry) = Append(s, entry)
    BY <1>1, <1>2, <1>5 DEF PushInbox, Occupied
  <2>2. Mailboxes!Newest(t) = t
    BY <1>1, <1>2, <1>3, <1>5 DEF Mailboxes!Newest
  <2> QED BY <1>1, <2>1, <2>2, NumbersAppend
<1> QED BY <1>1, <1>2, <1>4, <1>5

LEMMA DeliverSends ==
  ASSUME DeliveryInv, NEW e \in Envelopes, Sequenced(e),
         NEW targets \in SUBSET DOMAIN inboxes, Deliver(e, targets)
  PROVE  Mailboxes!Send(targets)
<1> DEFINE entry == [sequence |-> next_sequence + 1, envelope |-> e]
           boxes == [a \in DOMAIN inboxes |-> Numbers(inboxes[a])]
<1>1. entry \in EntryType /\ entry.sequence = next_sequence + 1
  BY BusAssumption DEF DeliveryInv, TypeOK, EntryType
<1>2. /\ inboxes' = [a \in DOMAIN inboxes |->
                       IF a \in targets THEN PushInbox(a, entry) ELSE inboxes[a]]
      /\ next_sequence' = next_sequence + 1
      /\ last_received' = last_received
  BY DEF Deliver, Sequenced, Accept
<1> HIDE DEF entry
<1>3. \A a \in DOMAIN inboxes :
         Numbers(PushInbox(a, entry)) =
             Mailboxes!Newest(Append(boxes[a], next_sequence + 1))
  BY <1>1, PushNewest
<1>4. boxes' = [a \in DOMAIN inboxes |-> Numbers(inboxes'[a])]
  BY <1>2
<1>5. boxes' = [a \in DOMAIN boxes |->
                  IF a \in targets
                  THEN Mailboxes!Newest(Append(boxes[a], next_sequence'))
                  ELSE boxes[a]]
  BY <1>2, <1>3, <1>4
<1> QED BY <1>2, <1>5 DEF Mailboxes!Send

\* A step that leaves the mailboxes alone is a stutter of the abstract ones.
LEMMA MailboxesStutter ==
  ASSUME UNCHANGED <<mail, last_received>>
  PROVE  UNCHANGED Mailboxes!vars
BY DEF mail, Mailboxes!vars

LEMMA NextMailboxes ==
  ASSUME DeliveryInv, [Next]_vars
  PROVE  [Mailboxes!Next]_(Mailboxes!vars)
<1> DEFINE boxes == [a \in DOMAIN inboxes |-> Numbers(inboxes[a])]
<1>1. DOMAIN inboxes \subseteq Agents /\ next_sequence \in Nat
      /\ last_received \in [Agents -> Nat]
  BY DEF DeliveryInv, TypeOK
<1>2. \A a \in DOMAIN inboxes : inboxes[a] \in Seq(EntryType)
  BY DEF DeliveryInv, TypeOK
<1>3. ASSUME NEW a \in Agents, RegisterAgent(a) PROVE Mailboxes!Open(a)
  <2>1. /\ inboxes' = [x \in DOMAIN inboxes \cup {a} |->
                          IF x \in DOMAIN inboxes THEN inboxes[x] ELSE <<>>]
        /\ UNCHANGED <<next_sequence, last_received>>
    BY <1>3 DEF RegisterAgent, history
  <2>2. Numbers(<<>>) = <<>>
    BY DEF Numbers
  <2>3. boxes' = [x \in DOMAIN inboxes \cup {a} |->
                     IF x \in DOMAIN inboxes THEN Numbers(inboxes[x]) ELSE <<>>]
    BY <2>1, <2>2
  <2>4. boxes' = [x \in DOMAIN boxes \cup {a} |->
                     IF x \in DOMAIN boxes THEN boxes[x] ELSE <<>>]
    BY <2>3
  <2> QED BY <2>1, <2>4 DEF Mailboxes!Open
<1>4. ASSUME NEW a \in Agents, UnregisterAgent(a) PROVE Mailboxes!Close(a)
  <2>1. /\ inboxes' = [x \in DOMAIN inboxes \ {a} |-> inboxes[x]]
        /\ UNCHANGED <<next_sequence, last_received>>
    BY <1>4 DEF UnregisterAgent, Restrict
  <2>2. boxes' = [x \in DOMAIN boxes \ {a} |-> boxes[x]]
    BY <2>1
  <2> QED BY <2>1, <2>2 DEF Mailboxes!Close
<1>5. ASSUME NEW a \in Agents, NEW max \in 0..max_inbox_messages_per_agent,
             DrainForAgent(a, max)
      PROVE  \/ UNCHANGED Mailboxes!vars
             \/ \E n \in 1..Len(boxes[a]) : a \in DOMAIN boxes /\ Mailboxes!Take(a, n)
  <2> DEFINE pending == Len(inboxes[a])
             n == IF max = 0 \/ max > pending THEN pending ELSE max
  <2>1. /\ a \in DOMAIN inboxes
        /\ inboxes' = [inboxes EXCEPT ![a] = SubSeq(@, n + 1, pending)]
        /\ last_received' = IF n = 0 THEN last_received
                            ELSE [last_received EXCEPT
                                     ![a] = inboxes[a][n].sequence]
        /\ next_sequence' = next_sequence
    BY <1>5 DEF DrainForAgent
  <2>2. inboxes[a] \in Seq(EntryType) /\ max \in Nat
    BY <1>2, <2>1, LimitsPositive
  <2>3. pending \in Nat /\ n \in 0..pending
    BY <2>2
  <2>4. boxes[a] = Numbers(inboxes[a]) /\ Len(boxes[a]) = pending
        /\ Numbers(SubSeq(inboxes[a], n + 1, pending)) =
               SubSeq(Numbers(inboxes[a]), n + 1, pending)
    <3> HIDE DEF n
    <3> QED BY <2>1, <2>2, <2>3, NumbersType, NumbersSuffix
  <2> HIDE DEF n
  <2>5. boxes' = [boxes EXCEPT ![a] = SubSeq(@, n + 1, pending)]
    <3>1. boxes' = [x \in DOMAIN inboxes |-> Numbers(inboxes'[x])]
      BY <2>1
    <3>2. \A x \in DOMAIN inboxes :
             Numbers(inboxes'[x]) =
                 IF x = a THEN SubSeq(boxes[a], n + 1, pending) ELSE boxes[x]
      BY <2>1, <2>4
    <3> QED BY <2>1, <3>1, <3>2
  <2>6. CASE n = 0
    <3>1. inboxes' = inboxes
      <4>1. SubSeq(inboxes[a], 1, pending) = inboxes[a]
        BY <2>2
      <4>2. SubSeq(inboxes[a], n + 1, pending) = inboxes[a]
        BY <2>6, <4>1
      <4>3. inboxes \in [DOMAIN inboxes -> Seq(EntryType)]
        BY DEF DeliveryInv, TypeOK
      <4> QED BY <2>1, <4>2, <4>3
    <3> QED BY <2>1, <2>6, <3>1 DEF Mailboxes!vars
  <2>7. CASE n # 0
    <3>1. n \in 1..pending
      BY <2>3, <2>7
    <3>2. boxes[a][n] = inboxes[a][n].sequence
      BY <2>4, <3>1 DEF Numbers
    <3>3. last_received' = [last_received EXCEPT ![a] = boxes[a][n]]
      BY <2>1, <2>7, <3>2
    <3>4. boxes' = [boxes EXCEPT ![a] = SubSeq(@, n + 1, Len(@))]
      BY <2>4, <2>5
    <3> HIDE DEF boxes
    <3>5. a \in DOMAIN boxes
      BY <2>1 DEF boxes
    <3>6. n \in 1..Len(boxes[a])
      BY <2>4, <3>1
    <3>7. Mailboxes!Take(a, n)
      BY <2>1, <3>3, <3>4, <3>6 DEF Mailboxes!Take, boxes
    <3> QED BY <3>5, <3>6, <3>7
  <2> QED BY <2>6, <2>7
<1>6. ASSUME NEW e \in Envelopes, PublishInvalid(e) PROVE UNCHANGED Mailboxes!vars
  BY <1>6, MailboxesStutter DEF PublishInvalid, mail, history
<1>7. ASSUME NEW e \in Envelopes, PublishDuplicate(e)
      PROVE  UNCHANGED Mailboxes!vars
  BY <1>7, MailboxesStutter DEF PublishDuplicate, mail, history
<1>8. ASSUME NEW e \in Envelopes, PublishConflict(e)
      PROVE  UNCHANGED Mailboxes!vars
  BY <1>8, MailboxesStutter DEF PublishConflict, Accept, mail
<1>9. ASSUME NEW e \in Envelopes, PublishUnknownTarget(e)
      PROVE  Mailboxes!Send({})
  <2>1. next_sequence' = next_sequence + 1 /\ UNCHANGED <<inboxes, last_received>>
    BY <1>9 DEF PublishUnknownTarget, Sequenced, Accept
  <2>2. boxes' = [a \in DOMAIN boxes |-> boxes[a]]
    BY <2>1
  <2> QED BY <2>1, <2>2 DEF Mailboxes!Send
<1>10. ASSUME NEW e \in Envelopes, PublishDirect(e)
       PROVE  \E targets \in SUBSET DOMAIN boxes : Mailboxes!Send(targets)
  <2>1. /\ Sequenced(e) /\ Deliver(e, {e.to})
        /\ {e.to} \in SUBSET DOMAIN inboxes
    BY <1>10 DEF PublishDirect
  <2> QED BY <2>1, DeliverSends
<1>11. ASSUME NEW e \in Envelopes, PublishBroadcast(e)
       PROVE  \E targets \in SUBSET DOMAIN boxes : Mailboxes!Send(targets)
  <2>1. Sequenced(e) /\ Deliver(e, DOMAIN inboxes)
    BY <1>11 DEF PublishBroadcast
  <2> QED BY <2>1, DeliverSends
<1>12. CASE UNCHANGED vars
  BY <1>12, MailboxesStutter DEF vars, mail, history
<1> QED
  BY <1>3, <1>4, <1>5, <1>6, <1>7, <1>8, <1>9, <1>10, <1>11, <1>12
  DEF Next, Publish, Mailboxes!Next

LEMMA InitMailboxes == Init => Mailboxes!Init
BY DEF Init, Mailboxes!Init

\* Delivery implements OrderedMailboxes for every capacity and every set of
\* agents: one clock, FIFO mailboxes that keep the newest messages, losses
\* only of the oldest ones (publish, push_inbox_entry_locked, drain_for_agent).
THEOREM MailboxesImplemented == Spec => ImplementsMailboxes
<1>1. Init => DeliveryInv
  BY InitDelivery
<1>2. DeliveryInv /\ [Next]_vars => DeliveryInv'
  BY NextDelivery
<1>3. Init => Mailboxes!Init
  BY InitMailboxes
<1>4. DeliveryInv /\ [Next]_vars => [Mailboxes!Next]_(Mailboxes!vars)
  BY NextMailboxes
<1> QED BY <1>1, <1>2, <1>3, <1>4, PTL DEF Spec, ImplementsMailboxes, Mailboxes!Spec

-----------------------------------------------------------------------------
(* The dedupe window *)

\* A sequence without repetition is as long as it has elements.
LEMMA DistinctCardinality ==
  ASSUME NEW S, NEW s \in Seq(S), Distinct(s)
  PROVE  IsFiniteSet(ToSet(s)) /\ Cardinality(ToSet(s)) = Len(s)
<1>1. Len(s) \in Nat /\ \A i \in 1..Len(s) : s[i] \in ToSet(s)
  BY ToSetMember
<1> DEFINE f == [i \in 1..Len(s) |-> s[i]]
<1>2. f \in Bijection(1..Len(s), ToSet(s))
  <2>1. f \in [1..Len(s) -> ToSet(s)]
    BY <1>1
  <2>2. \A i, j \in 1..Len(s) : f[i] = f[j] => i = j
    BY DEF Distinct
  <2>3. \A x \in ToSet(s) : \E i \in 1..Len(s) : f[i] = x
    BY ToSetMember
  <2> HIDE DEF f
  <2> QED BY <2>1, <2>2, <2>3 DEF Bijection, Injection, Surjection, IsInjective
<1>3. ExistsBijection(1..Len(s), ToSet(s))
  BY <1>2 DEF ExistsBijection
<1>4. IsFiniteSet(1..Len(s)) /\ Cardinality(1..Len(s)) = Len(s)
  <2>1. 1 \in Int /\ Len(s) \in Int /\ (IF 1 > Len(s) THEN 0 ELSE Len(s) - 1 + 1) = Len(s)
    BY <1>1
  <2> QED BY <2>1, FS_Interval
<1> QED BY <1>3, <1>4, FS_Bijection

\* The window lists the last ids accepted, the newest last, with the ordinals of
\* their acceptances; it is full once it has forgotten one.
WindowInv ==
  /\ Distinct(seen.order)
  /\ ToSet(seen.order) = seen.ids
  /\ Len(seen.order) <= max_seen_message_ids
  /\ seen.evictions # 0 => Len(seen.order) = max_seen_message_ids
  /\ \A i \in 1..Len(seen.order) : accepted_at[seen.order[i]] = seen.evictions + i
  /\ \A id \in Ids \ seen.ids : accepted_at[id] <= seen.evictions

LEMMA AcceptWindow ==
  ASSUME TypeOK, WindowInv, NEW e \in EnvelopeType, Accept(e)
  PROVE  /\ WindowInv'
         /\ \A i \in Ids :
               accepted_at[i] # 0 /\ accepted_at'[i] # accepted_at[i]
                   => accepted_at'[i] - accepted_at[i] >= max_seen_message_ids + 1
<1>1. PICK order, evictions, id, n, max :
          /\ order = seen.order /\ evictions = seen.evictions /\ id = e.id
          /\ n = Len(order) /\ max = max_seen_message_ids
  OBVIOUS
<1>2. /\ order \in Seq(Ids) /\ evictions \in Nat /\ id \in Ids /\ n \in Nat
      /\ max \in Nat \ {0} /\ seen.ids \subseteq Ids /\ accepted_at \in [Ids -> Nat]
      /\ Distinct(order) /\ ToSet(order) = seen.ids /\ id \notin seen.ids
      /\ n <= max
  BY <1>1, LimitsPositive DEF WindowInv, TypeOK, SeenType, EnvelopeType, Accept
<1>3. Cardinality(seen.ids) = n
  BY <1>1, <1>2, DistinctCardinality
<1>4. accepted_at' = [accepted_at EXCEPT ![id] = evictions + n + 1]
  BY <1>1 DEF Accept
<1>5. ASSUME NEW i \in Ids, accepted_at[i] # 0, accepted_at'[i] # accepted_at[i]
      PROVE  accepted_at'[i] - accepted_at[i] >= max + 1
  <2>1. i = id /\ accepted_at'[i] = evictions + n + 1
    BY <1>2, <1>4, <1>5
  <2>2. accepted_at[i] <= evictions /\ accepted_at[i] \in Nat
    BY <1>1, <1>2, <2>1 DEF WindowInv
  <2>3. n = max
    BY <1>1, <1>2, <1>5, <2>2 DEF WindowInv
  <2> QED BY <1>2, <2>1, <2>2, <2>3
<1>6. seen' = Remember(seen, id)
  BY <1>1 DEF Accept
<1>7. CASE n < max
  <2>1. /\ seen'.ids = seen.ids \cup {id} /\ seen'.order = Append(order, id)
        /\ seen'.evictions = evictions
    BY <1>1, <1>2, <1>3, <1>6, <1>7 DEF Remember
  <2>2. evictions = 0
    BY <1>1, <1>2, <1>7 DEF WindowInv
  <2>3. /\ Append(order, id) \in Seq(Ids) /\ Len(Append(order, id)) = n + 1
        /\ \A i \in 1..n : Append(order, id)[i] = order[i]
        /\ Append(order, id)[n + 1] = id
    BY <1>1, <1>2, AppendProperties
  <2>4. Distinct(Append(order, id)) /\ ToSet(Append(order, id)) = seen.ids \cup {id}
    BY <1>2, AppendDistinct
  <2>5. ASSUME NEW i \in 1..(n + 1)
        PROVE  accepted_at'[Append(order, id)[i]] = evictions + i
    <3>1. CASE i = n + 1
      BY <1>2, <1>4, <2>3, <3>1
    <3>2. CASE i # n + 1
      <4>1. i \in 1..n
        BY <1>2, <3>2
      <4>2. order[i] \in ToSet(order) /\ accepted_at[order[i]] = evictions + i
        BY <1>1, <1>2, <4>1, ToSetMember DEF WindowInv
      <4>3. order[i] # id
        BY <1>2, <4>2
      <4> QED BY <1>2, <1>4, <2>3, <4>1, <4>2, <4>3
    <3> QED BY <3>1, <3>2
  <2>6. \A k \in Ids \ (seen.ids \cup {id}) : accepted_at'[k] <= evictions
    BY <1>1, <1>2, <1>4 DEF WindowInv
  <2>7. max_seen_message_ids' = max_seen_message_ids
    BY DEF max_seen_message_ids
  <2>8. WindowInv'
    BY <1>1, <1>2, <1>7, <2>1, <2>2, <2>3, <2>4, <2>5, <2>6, <2>7 DEF WindowInv
  <2> QED BY <1>1, <1>5, <2>8
<1>8. CASE n = max
  <2>0. order # <<>>
    BY <1>1, <1>2, <1>8
  <2>1. /\ seen'.ids = (seen.ids \ {Head(order)}) \cup {id}
        /\ seen'.order = Append(Tail(order), id)
        /\ seen'.evictions = evictions + 1
    BY <1>1, <1>2, <1>3, <1>6, <1>8, <2>0 DEF Remember
  <2>2. /\ Tail(order) \in Seq(Ids) /\ Len(Tail(order)) = n - 1 /\ Head(order) = order[1]
        /\ \A i \in 1..(n - 1) : Tail(order)[i] = order[i + 1]
    BY <1>1, <1>2, <2>0
  <2>3. Distinct(Tail(order)) /\ ToSet(Tail(order)) = seen.ids \ {Head(order)}
    BY <1>2, <2>0, TailDistinct
  <2>4. /\ Append(Tail(order), id) \in Seq(Ids) /\ Len(Append(Tail(order), id)) = n
        /\ \A i \in 1..(n - 1) : Append(Tail(order), id)[i] = order[i + 1]
        /\ Append(Tail(order), id)[n] = id
    BY <1>2, <2>2, AppendProperties
  <2>5. /\ Distinct(Append(Tail(order), id))
        /\ ToSet(Append(Tail(order), id)) = (seen.ids \ {Head(order)}) \cup {id}
    <3>1. id \notin ToSet(Tail(order))
      BY <1>2, <2>3
    <3>2. PICK t : t = Tail(order)
      OBVIOUS
    <3>3. Distinct(Append(t, id)) /\ ToSet(Append(t, id)) = ToSet(t) \cup {id}
      <4>1. t \in Seq(Ids) /\ Distinct(t) /\ id \notin ToSet(t) /\ id \in Ids
        BY <1>2, <2>2, <2>3, <3>1, <3>2
      <4> QED BY ONLY <4>1, AppendDistinct
    <3> QED BY <2>3, <3>2, <3>3
  <2>6. ASSUME NEW i \in 1..n
        PROVE  accepted_at'[Append(Tail(order), id)[i]] = evictions + 1 + i
    <3>1. CASE i = n
      BY <1>2, <1>4, <2>4, <3>1
    <3>2. CASE i # n
      <4>1. i \in 1..(n - 1) /\ i + 1 \in 1..n
        BY <1>2, <3>2
      <4>2. /\ order[i + 1] \in ToSet(order)
            /\ accepted_at[order[i + 1]] = evictions + (i + 1)
        BY <1>1, <1>2, <4>1, ToSetMember DEF WindowInv
      <4>3. order[i + 1] # id
        BY <1>2, <4>2
      <4> QED BY <1>2, <1>4, <2>4, <4>1, <4>2, <4>3
    <3> QED BY <3>1, <3>2
  <2>7. ASSUME NEW k \in Ids \ ((seen.ids \ {Head(order)}) \cup {id})
        PROVE  accepted_at'[k] <= evictions + 1
    <3>1. k # id /\ accepted_at'[k] = accepted_at[k]
      BY <1>2, <1>4
    <3>2. CASE k = Head(order)
      <4>1. 1 \in 1..n
        BY <1>2, <1>8
      <4>2. accepted_at[order[1]] = evictions + 1
        BY <1>1, <4>1 DEF WindowInv
      <4> QED BY <1>2, <2>2, <3>1, <3>2, <4>2
    <3>3. CASE k # Head(order)
      BY <1>1, <1>2, <3>1, <3>3 DEF WindowInv
    <3> QED BY <3>2, <3>3
  <2>8. max_seen_message_ids' = max_seen_message_ids
    BY DEF max_seen_message_ids
  <2>9. WindowInv'
    <3>1. Len(seen'.order) = n /\ seen'.evictions = evictions + 1 /\ n <= max
      BY <1>2, <2>1, <2>4
    <3>2. \A i \in 1..Len(seen'.order) :
              accepted_at'[seen'.order[i]] = seen'.evictions + i
      BY <2>1, <2>6, <3>1
    <3>3. \A k \in Ids \ seen'.ids : accepted_at'[k] <= seen'.evictions
      BY <2>1, <2>7
    <3>4. Distinct(seen'.order) /\ ToSet(seen'.order) = seen'.ids
      BY <2>1, <2>5
    <3> QED BY <1>1, <1>8, <2>8, <3>1, <3>2, <3>3, <3>4 DEF WindowInv
  <2> QED BY <1>1, <1>5, <2>9
<1> QED BY <1>2, <1>7, <1>8

LEMMA NextWindow ==
  ASSUME TypeOK, WindowInv, [Next]_vars
  PROVE  /\ WindowInv'
         /\ \A i \in Ids :
               accepted_at[i] # 0 /\ accepted_at'[i] # accepted_at[i]
                   => accepted_at'[i] - accepted_at[i] >= max_seen_message_ids + 1
<1>1. ASSUME NEW e \in Envelopes, Accept(e)
      PROVE  /\ WindowInv'
             /\ \A i \in Ids :
                   accepted_at[i] # 0 /\ accepted_at'[i] # accepted_at[i]
                       => accepted_at'[i] - accepted_at[i] >= max_seen_message_ids + 1
  <2>1. e \in EnvelopeType
    BY BusAssumption
  <2> QED BY <1>1, <2>1, AcceptWindow
<1>2. CASE UNCHANGED <<seen, accepted_at>>
  BY <1>2 DEF WindowInv
<1>3. (\E e \in Envelopes : Accept(e)) \/ UNCHANGED <<seen, accepted_at>>
  BY DEF Next, Publish, RegisterAgent, UnregisterAgent, DrainForAgent, PublishInvalid,
     PublishDuplicate, PublishConflict, PublishUnknownTarget, PublishDirect, PublishBroadcast,
     Sequenced, vars, history
<1> QED BY <1>1, <1>2, <1>3

\* For every size of the window and any order of calls, an id is accepted again
\* only after as many acceptances of other ids as the window holds (publish).
THEOREM NoReacceptance == Spec => NoReacceptanceInWindow
<1>1. Init => WindowInv
  <2> SUFFICES ASSUME Init PROVE WindowInv
    OBVIOUS
  <2>1. seen.order = <<>> /\ seen.ids = {} /\ seen.evictions = 0
        /\ \A i \in Ids : accepted_at[i] = 0
    BY DEF Init
  <2>2. Len(seen.order) = 0 /\ ToSet(seen.order) = {}
    BY <2>1 DEF ToSet
  <2> QED BY <2>1, <2>2, LimitsPositive DEF WindowInv, Distinct
<1>2. TypeOK /\ WindowInv /\ [Next]_vars => WindowInv'
  BY NextWindow
<1>3. TypeOK /\ WindowInv /\ [Next]_vars
         => [\A i \in Ids :
                accepted_at[i] # 0 /\ accepted_at'[i] # accepted_at[i]
                    => accepted_at'[i] - accepted_at[i] >= max_seen_message_ids + 1]_vars
  BY NextWindow
<1> QED BY <1>1, <1>2, <1>3, TypeCorrect, PTL DEF Spec, NoReacceptanceInWindow

-----------------------------------------------------------------------------
(* Sums over functions with a finite domain *)

\* g sums f over every subset of D, as SumFunction does for all of it.
Sums(f, D, g) ==
  \A s \in SUBSET D :
      g[s] = IF s = {} THEN 0 ELSE f[CHOOSE x \in s : TRUE] + g[s \ {CHOOSE x \in s : TRUE}]

\* A finite set without an element is smaller by one.
LEMMA OneLess ==
  ASSUME NEW s, IsFiniteSet(s), NEW x \in s
  PROVE  /\ IsFiniteSet(s \ {x}) /\ Cardinality(s) \in Nat /\ Cardinality(s \ {x}) \in Nat
         /\ Cardinality(s) = Cardinality(s \ {x}) + 1
<1>1. Cardinality(s) \in Nat /\ Cardinality(s) # 0
  BY FS_CardinalityType, FS_EmptySet
<1>2. IsFiniteSet(s \ {x}) /\ Cardinality(s \ {x}) = Cardinality(s) - 1
  BY FS_RemoveElement
<1> QED BY <1>1, <1>2

LEMMA SumsExist ==
  ASSUME NEW f, IsFiniteSet(DOMAIN f)
  PROVE  \E g : Sums(f, DOMAIN f, g) /\ SumFunction(f) = g[DOMAIN f]
<1> PICK D : D = DOMAIN f
  OBVIOUS
<1> DEFINE Next1(g, s) == IF s = {} THEN 0
                          ELSE f[CHOOSE x \in s : TRUE] + g[s \ {CHOOSE x \in s : TRUE}]
           UpTo(n) == \E g : \A s \in SUBSET D : Cardinality(s) <= n => g[s] = Next1(g, s)
           T == {n \in Nat : UpTo(n)}
<1>0. \A s \in SUBSET D : IsFiniteSet(s) /\ Cardinality(s) \in Nat /\ Cardinality(s) <= Cardinality(D)
  BY FS_Subset, FS_CardinalityType
<1>1. 0 \in T
  <2> DEFINE g == [s \in SUBSET D |-> 0]
  <2>1. ASSUME NEW s \in SUBSET D, Cardinality(s) <= 0 PROVE g[s] = Next1(g, s)
    <3>1. s = {}
      BY <1>0, <2>1, FS_EmptySet
    <3> QED BY <3>1
  <2> HIDE DEF g, Next1
  <2> QED BY <2>1
<1>2. \A n \in Nat : n \in T => n + 1 \in T
  <2> HIDE DEF UpTo
  <2> SUFFICES ASSUME NEW n \in Nat, UpTo(n) PROVE UpTo(n + 1)
    OBVIOUS
  <2> USE DEF UpTo
  <2>1. PICK g : \A s \in SUBSET D : Cardinality(s) <= n => g[s] = Next1(g, s)
    OBVIOUS
  <2> DEFINE h == [s \in SUBSET D |-> Next1(g, s)]
  <2>2. ASSUME NEW s \in SUBSET D, Cardinality(s) <= n PROVE h[s] = g[s]
    BY <2>1, <2>2
  <2>3. ASSUME NEW s \in SUBSET D, Cardinality(s) <= n + 1 PROVE h[s] = Next1(h, s)
    <3>1. CASE s = {}
      BY <3>1
    <3>2. CASE s # {}
      <4>1. PICK x : x = CHOOSE y \in s : TRUE
        OBVIOUS
      <4>2. x \in s
        BY <3>2, <4>1
      <4>3. s \ {x} \in SUBSET D /\ Cardinality(s \ {x}) <= n
        <5>1. Cardinality(s) = Cardinality(s \ {x}) + 1 /\ Cardinality(s \ {x}) \in Nat
          BY <1>0, <4>2, OneLess
        <5> QED BY <2>3, <5>1
      <4>4. h[s \ {x}] = g[s \ {x}]
        BY <2>2, <4>3
      <4>5. h[s] = f[x] + g[s \ {x}]
        BY <3>2, <4>1
      <4>6. Next1(h, s) = f[x] + h[s \ {x}]
        BY <3>2, <4>1
      <4> QED BY <4>4, <4>5, <4>6
    <3> QED BY <3>1, <3>2
  <2> HIDE DEF h, Next1
  <2> QED BY <2>3
<1> HIDE DEF T
<1>3. \A n \in Nat : n \in T
  BY <1>1, <1>2, SetInduction
<1>4. UpTo(Cardinality(D))
  BY <1>0, <1>3, ZenonT(40) DEF T
<1>5. \E g : \A s \in SUBSET D : g[s] = Next1(g, s)
  BY <1>0, <1>4
<1>6. \E g : g = [s \in SUBSET D |-> Next1(g, s)]
  <2>1. PICK g : \A s \in SUBSET D : g[s] = Next1(g, s)
    BY <1>5
  <2> DEFINE h == [s \in SUBSET D |-> g[s]]
  <2>2. \A s \in SUBSET D : Next1(h, s) = Next1(g, s)
    OBVIOUS
  <2>3. h = [s \in SUBSET D |-> Next1(h, s)]
    <3> HIDE DEF Next1
    <3> QED BY <2>1, <2>2
  <2> HIDE DEF h
  <2> QED BY <2>3, ZenonT(40)
<1> DEFINE g0 == CHOOSE g : g = [s \in SUBSET D |-> Next1(g, s)]
<1>7. g0 = [s \in SUBSET D |-> Next1(g0, s)]
  <2> HIDE DEF Next1
  <2> QED BY <1>6
<1>8. SumFunction(f) = g0[D]
  BY DEF SumFunction, SumFunctionOnSet, FoldFunctionOnSet, MapThenFoldSet
<1> HIDE DEF g0
<1>9. Sums(f, D, g0)
  BY <1>7 DEF Sums
<1> QED BY <1>8, <1>9

\* What a sum over s is does not depend on what is outside s.
LEMMA SumsAgree ==
  ASSUME NEW f1, NEW D1, NEW g1, Sums(f1, D1, g1),
         NEW f2, NEW D2, NEW g2, Sums(f2, D2, g2),
         NEW D, D \subseteq D1, D \subseteq D2, IsFiniteSet(D),
         \A x \in D : f1[x] = f2[x]
  PROVE  g1[D] = g2[D]
<1> DEFINE T == {n \in Nat : \A s \in SUBSET D : Cardinality(s) = n => g1[s] = g2[s]}
<1>0. \A s \in SUBSET D : IsFiniteSet(s) /\ Cardinality(s) \in Nat
  BY FS_Subset, FS_CardinalityType
<1>1. 0 \in T
  <2>1. \A s \in SUBSET D : Cardinality(s) = 0 => s = {}
    BY <1>0, FS_EmptySet
  <2>2. g1[{}] = 0 /\ g2[{}] = 0
    BY DEF Sums
  <2> QED BY <2>1, <2>2
<1>2. \A n \in Nat : n \in T => n + 1 \in T
  <2> SUFFICES ASSUME NEW n \in Nat, n \in T, NEW s \in SUBSET D, Cardinality(s) = n + 1
               PROVE  g1[s] = g2[s]
    OBVIOUS
  <2>1. s # {}
    BY FS_EmptySet
  <2>2. PICK x : x = CHOOSE y \in s : TRUE
    OBVIOUS
  <2>3. x \in s
    BY <2>1, <2>2
  <2>4. Cardinality(s \ {x}) = n
    <3>1. Cardinality(s) = Cardinality(s \ {x}) + 1 /\ Cardinality(s \ {x}) \in Nat
      BY <1>0, <2>3, OneLess
    <3> QED BY <3>1
  <2>5. g1[s \ {x}] = g2[s \ {x}]
    BY <2>4
  <2>6. g1[s] = f1[x] + g1[s \ {x}] /\ g2[s] = f2[x] + g2[s \ {x}]
    BY <2>1, <2>2, ZenonT(40) DEF Sums
  <2> QED BY <2>3, <2>5, <2>6
<1> HIDE DEF T
<1>3. \A n \in Nat : n \in T
  BY <1>1, <1>2, SetInduction
<1> QED BY <1>0, <1>3 DEF T

\* A sum is a natural number, whichever summand is taken first.
LEMMA SumsSplit ==
  ASSUME NEW D, IsFiniteSet(D), NEW f, \A x \in D : f[x] \in Nat, NEW g, Sums(f, D, g)
  PROVE  \A s \in SUBSET D : g[s] \in Nat /\ \A x \in s : g[s] = f[x] + g[s \ {x}]
<1> DEFINE Splits(s) == g[s] \in Nat /\ \A x \in s : g[s] = f[x] + g[s \ {x}]
           T == {n \in Nat : \A s \in SUBSET D : Cardinality(s) <= n => Splits(s)}
<1>0. \A s \in SUBSET D : IsFiniteSet(s) /\ Cardinality(s) \in Nat
  BY FS_Subset, FS_CardinalityType
<1>1. 0 \in T
  <2>1. \A s \in SUBSET D : Cardinality(s) <= 0 => s = {}
    BY <1>0, FS_EmptySet
  <2>2. g[{}] = 0
    BY DEF Sums
  <2>3. Splits({})
    BY <2>2
  <2> HIDE DEF Splits
  <2> QED BY <2>1, <2>3
<1>2. \A n \in Nat : n \in T => n + 1 \in T
  <2> HIDE DEF Splits
  <2> SUFFICES ASSUME NEW n \in Nat, n \in T, NEW s \in SUBSET D, Cardinality(s) <= n + 1
               PROVE  Splits(s)
    OBVIOUS
  <2> USE DEF Splits
  <2>0. ASSUME NEW t \in SUBSET D, Cardinality(t) <= n PROVE Splits(t)
    BY <2>0
  <2>1. CASE s = {}
    BY <2>0, <2>1, FS_EmptySet
  <2>2. CASE s # {}
    <3>1. PICK y : y = CHOOSE z \in s : TRUE
      OBVIOUS
    <3>2. y \in s /\ g[s] = f[y] + g[s \ {y}]
      BY <2>2, <3>1 DEF Sums
    <3>3. ASSUME NEW x \in s
          PROVE  s \ {x} \in SUBSET D /\ Cardinality(s \ {x}) <= n
      <4>1. Cardinality(s) = Cardinality(s \ {x}) + 1 /\ Cardinality(s \ {x}) \in Nat
        BY <1>0, <3>3, OneLess
      <4> QED BY <4>1
    <3>4. ASSUME NEW x \in s PROVE Splits(s \ {x})
      BY <2>0, <3>3
    <3>5. g[s] \in Nat
      BY <3>2, <3>4
    <3>6. ASSUME NEW x \in s, x # y PROVE g[s] = f[x] + g[s \ {x}]
      <4>1. g[s \ {y}] = f[x] + g[(s \ {y}) \ {x}]
        BY <3>2, <3>4, <3>6
      <4>2. g[s \ {x}] = f[y] + g[(s \ {x}) \ {y}]
        BY <3>2, <3>4, <3>6
      <4>3. (s \ {y}) \ {x} = (s \ {x}) \ {y}
        OBVIOUS
      <4>4. s \ {x} \in SUBSET D /\ y \in s \ {x} /\ Splits(s \ {x})
        BY <3>2, <3>4, <3>6
      <4>5. (s \ {x}) \ {y} \in SUBSET D /\ Cardinality((s \ {x}) \ {y}) <= n
        <5>1. /\ Cardinality(s \ {x}) = Cardinality((s \ {x}) \ {y}) + 1
              /\ Cardinality((s \ {x}) \ {y}) \in Nat
          BY <1>0, <4>4, OneLess
        <5>2. Cardinality(s \ {x}) <= n /\ Cardinality(s \ {x}) \in Nat
          BY <1>0, <3>3
        <5> QED BY <5>1, <5>2
      <4>6. g[(s \ {x}) \ {y}] \in Nat /\ f[x] \in Nat /\ f[y] \in Nat
        BY <2>0, <3>2, <4>5
      <4>7. PICK a, b, c : a = f[x] /\ b = f[y] /\ c = g[(s \ {x}) \ {y}]
        OBVIOUS
      <4>8. a \in Nat /\ b \in Nat /\ c \in Nat
        BY <4>6, <4>7
      <4>9. g[s] = b + (a + c)
        BY <3>2, <4>1, <4>3, <4>7
      <4>10. g[s \ {x}] = b + c
        BY <4>2, <4>7
      <4>11. b + (a + c) = a + (b + c)
        BY <4>8
      <4> QED BY <4>7, <4>9, <4>10, <4>11
    <3> QED BY <3>2, <3>5, <3>6
  <2> QED BY <2>1, <2>2
<1> HIDE DEF T
<1>3. \A n \in Nat : n \in T
  BY <1>1, <1>2, SetInduction
<1>4. \A s \in SUBSET D : Splits(s)
  BY <1>0, <1>3 DEF T
<1> QED BY <1>4

LEMMA SumAdd ==
  ASSUME NEW f, IsFiniteSet(DOMAIN f), \A x \in DOMAIN f : f[x] \in Nat, NEW a \in DOMAIN f,
         NEW h, DOMAIN h = DOMAIN f \ {a}, \A x \in DOMAIN h : h[x] = f[x]
  PROVE  /\ SumFunction(f) \in Nat /\ SumFunction(h) \in Nat
         /\ SumFunction(f) = f[a] + SumFunction(h)
<1>1. PICK D, E : D = DOMAIN f /\ E = DOMAIN h
  OBVIOUS
<1>2. IsFiniteSet(D) /\ IsFiniteSet(E) /\ E = D \ {a}
  BY <1>1, FS_RemoveElement
<1>3. PICK g : Sums(f, D, g) /\ SumFunction(f) = g[D]
  BY <1>1, SumsExist
<1>4. PICK k : Sums(h, E, k) /\ SumFunction(h) = k[E]
  BY <1>1, <1>2, SumsExist
<1>5. g[E] = k[E]
  BY <1>1, <1>2, <1>3, <1>4, SumsAgree
<1>6. \A s \in SUBSET D : g[s] \in Nat /\ \A x \in s : g[s] = f[x] + g[s \ {x}]
  <2>1. IsFiniteSet(D) /\ Sums(f, D, g) /\ \A x \in D : f[x] \in Nat
    BY <1>1, <1>2, <1>3
  <2> QED BY ONLY <2>1, SumsSplit
<1>7. g[D] \in Nat /\ g[E] \in Nat /\ g[D] = f[a] + g[E]
  BY <1>1, <1>2, <1>6
<1> QED BY <1>3, <1>4, <1>5, <1>7

LEMMA SumNatural ==
  ASSUME NEW f, IsFiniteSet(DOMAIN f), \A x \in DOMAIN f : f[x] \in Nat
  PROVE  SumFunction(f) \in Nat /\ (DOMAIN f = {} => SumFunction(f) = 0)
<1>1. PICK D : D = DOMAIN f
  OBVIOUS
<1>2. PICK g : Sums(f, D, g) /\ SumFunction(f) = g[D]
  BY <1>1, SumsExist
<1>3. \A s \in SUBSET D : g[s] \in Nat
  BY <1>1, <1>2, SumsSplit
<1>4. D = {} => g[D] = 0
  BY <1>2 DEF Sums
<1> QED BY <1>1, <1>2, <1>3, <1>4

\* One more at each place of S is the size of S more.
LEMMA SumMore ==
  ASSUME NEW f, IsFiniteSet(DOMAIN f), \A x \in DOMAIN f : f[x] \in Nat,
         NEW S \in SUBSET DOMAIN f, NEW h, DOMAIN h = DOMAIN f,
         \A x \in DOMAIN f : h[x] = IF x \in S THEN f[x] + 1 ELSE f[x]
  PROVE  /\ SumFunction(f) \in Nat /\ Cardinality(S) \in Nat
         /\ SumFunction(h) = SumFunction(f) + Cardinality(S)
<1>1. PICK D : D = DOMAIN f
  OBVIOUS
<1>2. PICK g : Sums(f, D, g) /\ SumFunction(f) = g[D]
  BY <1>1, SumsExist
<1>3. PICK k : Sums(h, D, k) /\ SumFunction(h) = k[D]
  BY <1>1, SumsExist
<1>4. \A s \in SUBSET D : g[s] \in Nat /\ \A x \in s : g[s] = f[x] + g[s \ {x}]
  BY <1>1, <1>2, SumsSplit
<1>5. \A s \in SUBSET D : k[s] \in Nat /\ \A x \in s : k[s] = h[x] + k[s \ {x}]
  <2>1. \A x \in D : h[x] \in Nat
    BY <1>1
  <2> QED BY <1>1, <1>3, <2>1, SumsSplit
<1> DEFINE More(s) == k[s] = g[s] + Cardinality(s \cap S)
           T == {n \in Nat : \A s \in SUBSET D : Cardinality(s) = n => More(s)}
<1>6. \A s \in SUBSET D : /\ IsFiniteSet(s) /\ Cardinality(s) \in Nat
                          /\ IsFiniteSet(s \cap S) /\ Cardinality(s \cap S) \in Nat
  BY <1>1, FS_Subset, FS_CardinalityType, FS_Intersection
<1>7. 0 \in T
  <2>1. \A s \in SUBSET D : Cardinality(s) = 0 => s = {}
    BY <1>6, FS_EmptySet
  <2>2. g[{}] = 0 /\ k[{}] = 0 /\ Cardinality({} \cap S) = 0
    BY <1>2, <1>3, FS_EmptySet DEF Sums
  <2>3. More({})
    BY <2>2
  <2> HIDE DEF More
  <2> QED BY <2>1, <2>3
<1>8. \A n \in Nat : n \in T => n + 1 \in T
  <2> HIDE DEF More
  <2> SUFFICES ASSUME NEW n \in Nat, n \in T, NEW s \in SUBSET D, Cardinality(s) = n + 1
               PROVE  More(s)
    OBVIOUS
  <2>1. s # {}
    BY FS_EmptySet
  <2>2. PICK x : x \in s
    BY <2>1
  <2>3. PICK t : t = s \ {x}
    OBVIOUS
  <2>4. t \in SUBSET D /\ Cardinality(t) = n
    <3>1. Cardinality(s) = Cardinality(t) + 1 /\ Cardinality(t) \in Nat
      BY <1>6, <2>2, <2>3, OneLess
    <3> QED BY <2>3, <3>1
  <2>5. More(t)
    BY <2>4
  <2>6. k[t] = g[t] + Cardinality(t \cap S)
    BY <2>5 DEF More
  <2>7. /\ g[t] \in Nat /\ g[s] = f[x] + g[t] /\ f[x] \in Nat /\ k[s] = h[x] + k[t]
        /\ Cardinality(t \cap S) \in Nat
    BY <1>1, <1>4, <1>5, <1>6, <2>2, <2>3, <2>4
  <2>8. CASE x \in S
    <3>1. x \in s \cap S /\ (s \cap S) \ {x} = t \cap S
      BY <2>2, <2>3, <2>8
    <3>2. Cardinality(s \cap S) = Cardinality(t \cap S) + 1
      BY <1>6, <3>1, OneLess
    <3>3. h[x] = f[x] + 1
      BY <1>1, <2>2, <2>8
    <3>4. PICK a, b, c : a = f[x] /\ b = g[t] /\ c = Cardinality(t \cap S)
      OBVIOUS
    <3>5. a \in Nat /\ b \in Nat /\ c \in Nat
      BY <2>7, <3>4
    <3>6. k[s] = (a + 1) + (b + c) /\ g[s] = a + b /\ Cardinality(s \cap S) = c + 1
      BY <2>6, <2>7, <3>2, <3>3, <3>4
    <3>7. (a + 1) + (b + c) = (a + b) + (c + 1)
      BY <3>5
    <3> QED BY <3>6, <3>7 DEF More
  <2>9. CASE x \notin S
    <3>1. s \cap S = t \cap S
      BY <2>2, <2>3, <2>9
    <3>2. h[x] = f[x]
      BY <1>1, <2>2, <2>9
    <3>3. PICK a, b, c : a = f[x] /\ b = g[t] /\ c = Cardinality(t \cap S)
      OBVIOUS
    <3>4. a \in Nat /\ b \in Nat /\ c \in Nat
      BY <2>7, <3>3
    <3>5. k[s] = a + (b + c) /\ g[s] = a + b /\ Cardinality(s \cap S) = c
      BY <2>6, <2>7, <3>1, <3>2, <3>3
    <3>6. a + (b + c) = (a + b) + c
      BY <3>4
    <3> QED BY <3>5, <3>6 DEF More
  <2> QED BY <2>8, <2>9
<1> HIDE DEF T
<1>9. \A n \in Nat : n \in T
  BY <1>7, <1>8, SetInduction
<1>10. More(D)
  BY <1>6, <1>9 DEF T
<1>11. D \cap S = S
  BY <1>1
<1>12. g[D] \in Nat /\ Cardinality(S) \in Nat
  BY <1>4, <1>6, <1>11
<1> QED BY <1>2, <1>3, <1>10, <1>11, <1>12

-----------------------------------------------------------------------------
(* Deliveries are accounted for *)

Pending == [a \in DOMAIN inboxes |-> Len(inboxes[a])]

LEMMA PendingType ==
  ASSUME TypeOK
  PROVE  /\ DOMAIN Pending = DOMAIN inboxes /\ IsFiniteSet(DOMAIN Pending)
         /\ \A a \in DOMAIN Pending : Pending[a] \in Nat
         /\ \A a \in DOMAIN inboxes : Pending[a] = Len(inboxes[a]) /\ inboxes[a] \in Seq(EntryType)
         /\ consumed \in Nat /\ stats \in StatsType
<1>1. DOMAIN inboxes \subseteq Agents /\ IsFiniteSet(Agents)
  BY BusAssumption DEF TypeOK
<1>2. IsFiniteSet(DOMAIN inboxes)
  BY <1>1, FS_Subset
<1>3. \A a \in DOMAIN inboxes : inboxes[a] \in Seq(EntryType)
  BY DEF TypeOK
<1> QED BY <1>2, <1>3 DEF Pending, TypeOK

LEMMA DeliverAccounted ==
  ASSUME TypeOK, DeliveriesAccounted, NEW e \in Envelopes,
         NEW targets \in SUBSET DOMAIN inboxes, Deliver(e, targets), consumed' = consumed
  PROVE  DeliveriesAccounted'
<1>1. PICK full : full = {a \in targets : Occupied(a)}
  OBVIOUS
<1>2. PICK entry : entry = [sequence |-> next_sequence + 1, envelope |-> e]
  OBVIOUS
<1>3. /\ inboxes' = [a \in DOMAIN inboxes |->
                        IF a \in targets THEN PushInbox(a, entry) ELSE inboxes[a]]
      /\ stats' = Tally(Cardinality(targets), Cardinality(full))
  BY <1>1, <1>2 DEF Deliver
<1>4. entry \in EntryType
  <2>1. e \in EnvelopeType /\ next_sequence + 1 \in Nat
    BY BusAssumption DEF TypeOK
  <2> QED BY <1>2, <2>1 DEF EntryType
<1>5. PICK S : S = targets \ full
  OBVIOUS
<1>6. ASSUME NEW a \in DOMAIN inboxes
      PROVE  Len(inboxes'[a]) = IF a \in S THEN Pending[a] + 1 ELSE Pending[a]
  <2>1. inboxes[a] \in Seq(EntryType) /\ Pending[a] = Len(inboxes[a])
    BY PendingType
  <2>2. CASE a \notin targets
    BY <1>3, <1>5, <2>1, <2>2
  <2>3. CASE a \in targets /\ ~Occupied(a)
    <3>1. inboxes'[a] = Append(inboxes[a], entry) /\ a \in S
      BY <1>1, <1>3, <1>5, <2>3 DEF PushInbox
    <3> QED BY <1>4, <2>1, <3>1
  <2>4. CASE a \in targets /\ Occupied(a)
    <3>1. inboxes'[a] = Append(Tail(inboxes[a]), entry) /\ a \notin S
      BY <1>1, <1>3, <1>5, <2>4 DEF PushInbox
    <3>2. inboxes[a] # <<>>
      BY <2>1, <2>4, InboxHead
    <3>3. Tail(inboxes[a]) \in Seq(EntryType) /\ Len(Tail(inboxes[a])) = Len(inboxes[a]) - 1
          /\ Len(inboxes[a]) \in Nat
      BY <2>1, <3>2
    <3>4. Len(Append(Tail(inboxes[a]), entry)) = Len(inboxes[a])
      BY <1>4, <3>3
    <3> QED BY <2>1, <3>1, <3>4
  <2> QED BY <2>2, <2>3, <2>4
<1>7. DOMAIN inboxes' = DOMAIN inboxes
  BY <1>3
<1>8. DOMAIN Pending' = DOMAIN Pending /\ S \in SUBSET DOMAIN Pending
      /\ \A a \in DOMAIN Pending : Pending'[a] = IF a \in S THEN Pending[a] + 1 ELSE Pending[a]
  BY <1>5, <1>6, <1>7, PendingType DEF Pending
<1>9. /\ SumFunction(Pending) \in Nat /\ Cardinality(S) \in Nat
      /\ SumFunction(Pending') = SumFunction(Pending) + Cardinality(S)
  <2>1. PICK f, h : f = Pending /\ h = Pending'
    OBVIOUS
  <2> QED BY <1>8, <2>1, PendingType, SumMore
<1>10. Cardinality(targets) = Cardinality(full) + Cardinality(S) /\ Cardinality(full) \in Nat
  <2>1. IsFiniteSet(targets) /\ IsFiniteSet(full) /\ Cardinality(targets) \in Nat
    BY <1>1, PendingType, FS_Subset, FS_CardinalityType
  <2>2. targets \cap full = full /\ Cardinality(full) \in Nat
    BY <1>1, <2>1, FS_CardinalityType
  <2>3. Cardinality(targets \ full) = Cardinality(targets) - Cardinality(targets \cap full)
    BY ONLY <2>1, FS_Difference
  <2>4. Cardinality(S) = Cardinality(targets) - Cardinality(full)
    BY <1>5, <2>2, <2>3
  <2> QED BY ONLY <2>1, <2>2, <2>4
<1>11. /\ stats'.deliveries_total = stats.deliveries_total + Cardinality(targets)
       /\ stats'.inbox_overflow_evictions_total
              = stats.inbox_overflow_evictions_total + Cardinality(full)
  BY <1>3 DEF Tally
<1>12. /\ stats.deliveries_total = SumFunction(Pending) + consumed
                                       + stats.inbox_overflow_evictions_total
       /\ stats.inbox_overflow_evictions_total \in Nat /\ consumed \in Nat
  BY PendingType DEF DeliveriesAccounted, Pending, StatsType
<1>13. PICK p, c, o, s, f : /\ p = SumFunction(Pending) /\ c = consumed
                            /\ o = stats.inbox_overflow_evictions_total
                            /\ s = Cardinality(S) /\ f = Cardinality(full)
  OBVIOUS
<1>14. p \in Nat /\ c \in Nat /\ o \in Nat /\ s \in Nat /\ f \in Nat
  BY <1>9, <1>10, <1>12, <1>13
<1>15. /\ stats'.deliveries_total = ((p + c) + o) + (f + s)
       /\ SumFunction(Pending') = p + s /\ consumed' = c
       /\ stats'.inbox_overflow_evictions_total = o + f
  BY <1>9, <1>10, <1>11, <1>12, <1>13
<1>16. ((p + c) + o) + (f + s) = ((p + s) + c) + (o + f)
  BY <1>14
<1> QED BY <1>15, <1>16 DEF DeliveriesAccounted, Pending

LEMMA NextAccounted == TypeOK /\ DeliveriesAccounted /\ [Next]_vars => DeliveriesAccounted'
<1> SUFFICES ASSUME TypeOK, DeliveriesAccounted, [Next]_vars PROVE DeliveriesAccounted'
  OBVIOUS
<1>0. PICK p, o : /\ p = SumFunction(Pending) /\ o = stats.inbox_overflow_evictions_total
                  /\ p \in Nat /\ o \in Nat /\ consumed \in Nat
                  /\ stats.deliveries_total = (p + consumed) + o
  BY PendingType, SumNatural DEF DeliveriesAccounted, Pending, StatsType
<1>1. ASSUME Pending' = Pending, consumed' = consumed,
             stats'.deliveries_total = stats.deliveries_total,
             stats'.inbox_overflow_evictions_total = stats.inbox_overflow_evictions_total
      PROVE  DeliveriesAccounted'
  BY <1>1 DEF DeliveriesAccounted, Pending
<1>2. ASSUME NEW a \in Agents, RegisterAgent(a) PROVE DeliveriesAccounted'
  <2>1. /\ DOMAIN inboxes' = DOMAIN inboxes \cup {a}
        /\ \A x \in DOMAIN inboxes' :
               inboxes'[x] = IF x \in DOMAIN inboxes THEN inboxes[x] ELSE <<>>
        /\ UNCHANGED <<stats, consumed>>
    BY <1>2 DEF RegisterAgent, history
  <2>2. CASE a \in DOMAIN inboxes
    <3>1. Pending' = Pending
      BY <2>1, <2>2 DEF Pending
    <3> QED BY <1>1, <2>1, <3>1
  <2>3. CASE a \notin DOMAIN inboxes
    <3>1. PICK f, h : f = Pending' /\ h = Pending
      OBVIOUS
    <3>2. /\ DOMAIN f = DOMAIN h \cup {a} /\ a \notin DOMAIN h /\ f[a] = 0
          /\ \A x \in DOMAIN h : h[x] = f[x] /\ f[x] \in Nat
      BY <2>1, <2>3, <3>1, PendingType DEF Pending
    <3>3. IsFiniteSet(DOMAIN f)
      BY <3>1, <3>2, PendingType, FS_AddElement
    <3>4. DOMAIN h = DOMAIN f \ {a} /\ \A x \in DOMAIN f : f[x] \in Nat
      BY <3>2, SMTT(40)
    <3>5. SumFunction(f) = f[a] + SumFunction(h) /\ SumFunction(h) \in Nat
      <4>1. /\ IsFiniteSet(DOMAIN f) /\ \A x \in DOMAIN f : f[x] \in Nat
            /\ a \in DOMAIN f /\ DOMAIN h = DOMAIN f \ {a} /\ \A x \in DOMAIN h : h[x] = f[x]
        BY <3>2, <3>3, <3>4
      <4> QED BY ONLY <4>1, SumAdd
    <3>6. SumFunction(f) = SumFunction(h)
      BY <3>2, <3>5
    <3> QED BY <1>0, <2>1, <3>1, <3>6 DEF DeliveriesAccounted, Pending
  <2> QED BY <2>2, <2>3
<1>3. ASSUME NEW a \in Agents, UnregisterAgent(a) PROVE DeliveriesAccounted'
  <2>1. /\ a \in DOMAIN inboxes /\ DOMAIN inboxes' = DOMAIN inboxes \ {a}
        /\ \A x \in DOMAIN inboxes' : inboxes'[x] = inboxes[x]
        /\ consumed' = consumed + Len(inboxes[a]) /\ stats' = stats
    BY <1>3 DEF UnregisterAgent, Restrict
  <2>2. PICK f, h : f = Pending /\ h = Pending'
    OBVIOUS
  <2>3. /\ a \in DOMAIN f /\ DOMAIN h = DOMAIN f \ {a} /\ f[a] = Len(inboxes[a])
        /\ \A x \in DOMAIN h : h[x] = f[x]
    BY <2>1, <2>2 DEF Pending
  <2>4. SumFunction(f) = f[a] + SumFunction(h) /\ SumFunction(h) \in Nat
    <3>1. /\ IsFiniteSet(DOMAIN f) /\ \A x \in DOMAIN f : f[x] \in Nat
          /\ a \in DOMAIN f /\ DOMAIN h = DOMAIN f \ {a} /\ \A x \in DOMAIN h : h[x] = f[x]
      BY <2>2, <2>3, PendingType
    <3> QED BY ONLY <3>1, SumAdd
  <2>5. PICK l, q : l = Len(inboxes[a]) /\ q = SumFunction(h)
    OBVIOUS
  <2>6. l \in Nat /\ q \in Nat /\ p = l + q
    BY <1>0, <2>1, <2>2, <2>3, <2>4, <2>5, PendingType
  <2>7. ((l + q) + consumed) + o = (q + (consumed + l)) + o
    BY <1>0, <2>6
  <2> QED BY <1>0, <2>1, <2>2, <2>5, <2>6, <2>7 DEF DeliveriesAccounted, Pending
<1>4. ASSUME NEW a \in Agents, NEW max \in 0..max_inbox_messages_per_agent,
             DrainForAgent(a, max)
      PROVE  DeliveriesAccounted'
  <2>1. PICK l, n : /\ l = Len(inboxes[a])
                    /\ n = IF max = 0 \/ max > l THEN l ELSE max
    OBVIOUS
  <2>2. /\ a \in DOMAIN inboxes /\ inboxes[a] \in Seq(EntryType)
        /\ inboxes' = [inboxes EXCEPT ![a] = SubSeq(@, n + 1, l)]
        /\ consumed' = consumed + n /\ stats' = stats
    BY <1>4, <2>1, PendingType DEF DrainForAgent
  <2>3. l \in Nat /\ max \in Nat
    BY <2>1, <2>2, LimitsPositive
  <2>4. n \in 0..l
    BY <2>1, <2>3
  <2>5. Len(SubSeq(inboxes[a], n + 1, l)) = l - n
    BY <2>1, <2>2, <2>3, <2>4
  <2>6. PICK f, k, h : f = Pending /\ k = Pending' /\ h = [x \in DOMAIN inboxes \ {a} |-> Pending[x]]
    OBVIOUS
  <2>7. /\ DOMAIN f = DOMAIN inboxes /\ DOMAIN k = DOMAIN inboxes
        /\ DOMAIN h = DOMAIN inboxes \ {a}
        /\ f[a] = l /\ k[a] = l - n
        /\ \A x \in DOMAIN h : h[x] = f[x] /\ k[x] = f[x]
    BY <2>1, <2>2, <2>5, <2>6 DEF Pending
  <2>8. \A x \in DOMAIN k : k[x] \in Nat
    BY <2>3, <2>4, <2>6, <2>7, PendingType
  <2>9. SumFunction(f) = f[a] + SumFunction(h) /\ SumFunction(h) \in Nat
    <3>1. /\ IsFiniteSet(DOMAIN f) /\ \A x \in DOMAIN f : f[x] \in Nat
          /\ a \in DOMAIN f /\ DOMAIN h = DOMAIN f \ {a} /\ \A x \in DOMAIN h : h[x] = f[x]
      BY <2>2, <2>6, <2>7, PendingType
    <3> QED BY ONLY <3>1, SumAdd
  <2>10. SumFunction(k) = k[a] + SumFunction(h)
    <3>1. /\ IsFiniteSet(DOMAIN k) /\ \A x \in DOMAIN k : k[x] \in Nat
          /\ a \in DOMAIN k /\ DOMAIN h = DOMAIN k \ {a} /\ \A x \in DOMAIN h : h[x] = k[x]
      BY <2>2, <2>6, <2>7, <2>8, PendingType
    <3> QED BY ONLY <3>1, SumAdd
  <2>11. PICK q : q = SumFunction(h)
    OBVIOUS
  <2>12. q \in Nat /\ p = l + q /\ SumFunction(Pending') = (l - n) + q
    BY <1>0, <2>6, <2>7, <2>9, <2>10, <2>11
  <2>13. ((l + q) + consumed) + o = (((l - n) + q) + (consumed + n)) + o
    BY <1>0, <2>3, <2>4, <2>12
  <2> QED BY <1>0, <2>2, <2>12, <2>13 DEF DeliveriesAccounted, Pending
<1>5. ASSUME NEW e \in Envelopes, PublishInvalid(e) \/ PublishDuplicate(e) \/ PublishConflict(e)
                                      \/ PublishUnknownTarget(e)
      PROVE  DeliveriesAccounted'
  <2>1. /\ UNCHANGED <<inboxes, consumed>>
        /\ stats' = stats \/ stats' = [stats EXCEPT !.publish_attempts_total = @ + 1]
    BY <1>5 DEF PublishInvalid, PublishDuplicate, PublishConflict, PublishUnknownTarget,
       Sequenced, Accept, mail, history
  <2>2. /\ stats'.deliveries_total = stats.deliveries_total
        /\ stats'.inbox_overflow_evictions_total = stats.inbox_overflow_evictions_total
    BY <2>1, PendingType DEF StatsType
  <2> QED BY <1>1, <2>1, <2>2 DEF Pending
<1>6. ASSUME NEW e \in Envelopes, PublishDirect(e) \/ PublishBroadcast(e)
      PROVE  DeliveriesAccounted'
  <2>1. /\ consumed' = consumed
        /\ \E targets \in SUBSET DOMAIN inboxes : Deliver(e, targets)
    BY <1>6 DEF PublishDirect, PublishBroadcast, Sequenced, Accept
  <2> QED BY <2>1, DeliverAccounted
<1>7. CASE UNCHANGED vars
  BY <1>1, <1>7 DEF vars, mail, history, Pending
<1> QED BY <1>2, <1>3, <1>4, <1>5, <1>6, <1>7 DEF Next, Publish

\* For any agents and limits, every delivery counted is pending, was consumed or
\* was dropped by a counted overflow (publish, drain_for_agent, unregister_agent).
THEOREM NothingIsLostUncounted == Spec => []DeliveriesAccounted
<1>1. Init => DeliveriesAccounted
  <2> SUFFICES ASSUME Init PROVE DeliveriesAccounted
    OBVIOUS
  <2>1. DOMAIN Pending = {}
    BY DEF Init, Pending
  <2>2. SumFunction(Pending) = 0
    BY <2>1, FS_EmptySet, SumNatural
  <2> QED BY <2>2 DEF Init, DeliveriesAccounted, Pending
<1> QED BY <1>1, NextAccounted, TypeCorrect, PTL DEF Spec

-----------------------------------------------------------------------------
(* The context lists its entries *)

\* The write order lists every stored key once.
Lists(c) == Distinct(c.order) /\ ToSet(c.order) = DOMAIN c.entries

LEMMA ContextTypes ==
  ASSUME NEW c, ContextTyped(c)
  PROVE  /\ c.order \in Seq(Keys) /\ c.delegates \in Seq(Keys)
         /\ c.by_correlation \in IndexType /\ c.delegates_by_correlation \in IndexType
         /\ c.correlation_of \in [Keys -> Correlations \cup {None}]
         /\ DOMAIN c.entries \subseteq Keys
         /\ c.entries \in [DOMAIN c.entries -> ContextEntryType]
BY DEF ContextTyped, ContextFields

LEMMA EvictLists ==
  ASSUME NEW c, ContextTyped(c), Lists(c), c.order # <<>>
  PROVE  /\ Lists(EvictOldest(c)) /\ Head(c.order) \in DOMAIN c.entries
         /\ DOMAIN EvictOldest(c).entries = DOMAIN c.entries \ {Head(c.order)}
         /\ \A x \in DOMAIN EvictOldest(c).entries : EvictOldest(c).entries[x] = c.entries[x]
<1>1. PICK r : r = EvictOldest(c)
  OBVIOUS
<1>2. /\ r.entries = Restrict(c.entries, DOMAIN c.entries \ {Head(c.order)})
      /\ r.order = Tail(c.order)
  BY <1>1 DEF EvictOldest
<1>3. c.order \in Seq(Keys) /\ Distinct(c.order) /\ ToSet(c.order) = DOMAIN c.entries
  BY ContextTypes DEF Lists
<1>4. Distinct(r.order) /\ ToSet(r.order) = DOMAIN c.entries \ {Head(c.order)}
  BY <1>2, <1>3, TailDistinct
<1>5. Head(c.order) \in DOMAIN c.entries
  <2>1. Len(c.order) \in Nat \ {0} /\ Head(c.order) = c.order[1]
    BY <1>3
  <2>2. c.order[1] \in ToSet(c.order)
    BY <1>3, <2>1, ToSetMember
  <2> QED BY <1>3, <2>1, <2>2
<1>6. /\ DOMAIN r.entries = DOMAIN c.entries \ {Head(c.order)}
      /\ \A x \in DOMAIN r.entries : r.entries[x] = c.entries[x]
  BY <1>2 DEF Restrict
<1> QED BY <1>1, <1>4, <1>5, <1>6 DEF Lists

LEMMA WriteLists ==
  ASSUME NEW c, ContextTyped(c), Lists(c), NEW e, NEW k \in Keys, k = e.key
  PROVE  /\ Lists(WriteEntry(c, e))
         /\ DOMAIN WriteEntry(c, e).entries = DOMAIN c.entries \cup {k}
         /\ WriteEntry(c, e).entries[k].version = Version(c, k) + 1
         /\ \A x \in DOMAIN c.entries \ {k} : WriteEntry(c, e).entries[x] = c.entries[x]
<1>1. PICK r : r = WriteEntry(c, e)
  OBVIOUS
<1>2. /\ r.entries = [x \in DOMAIN c.entries \cup {k} |->
                        IF x = k THEN [version |-> Version(c, k) + 1, last_message_id |-> e.id]
                        ELSE c.entries[x]]
      /\ r.order = Append(IF k \in DOMAIN c.entries THEN RemoveFirst(c.order, k)
                          ELSE c.order, k)
  BY <1>1 DEF WriteEntry
<1>3. c.order \in Seq(Keys) /\ Distinct(c.order) /\ ToSet(c.order) = DOMAIN c.entries
  BY ContextTypes DEF Lists
<1>4. PICK rest : /\ rest \in Seq(Keys) /\ Distinct(rest) /\ r.order = Append(rest, k)
                  /\ ToSet(rest) = DOMAIN c.entries \ {k}
  <2>1. CASE k \in DOMAIN c.entries
    BY <1>2, <1>3, <2>1, RemoveFirstType, RemoveFirstDistinct
  <2>2. CASE k \notin DOMAIN c.entries
    BY <1>2, <1>3, <2>2, SMTT(40)
  <2> QED BY <2>1, <2>2
<1>5. Distinct(r.order) /\ ToSet(r.order) = (DOMAIN c.entries \ {k}) \cup {k}
  <2>1. k \notin ToSet(rest)
    BY <1>4
  <2> QED BY <1>4, <2>1, AppendDistinct
<1>6. /\ DOMAIN r.entries = DOMAIN c.entries \cup {k}
      /\ r.entries[k].version = Version(c, k) + 1
      /\ \A x \in DOMAIN c.entries \ {k} : r.entries[x] = c.entries[x]
  BY <1>2
<1>7. ToSet(r.order) = DOMAIN r.entries
  BY <1>5, <1>6
<1> QED BY <1>1, <1>5, <1>6, <1>7 DEF Lists

-----------------------------------------------------------------------------
(* Refinement of VersionedStore *)

\* The instance has a cardinality of its own.
LEMMA StoreCardinality ==
  ASSUME NEW S
  PROVE  Store!Cardinality(S) = Cardinality(S)
BY DEF Store!Cardinality, Cardinality

LEMMA PatchStores ==
  ASSUME ContextTyped(ctx), Lists(ctx), NEW e, NEW k \in Keys, k = e.key,
         ctx' = ApplyPatch(ctx, e)
  PROVE  Lists(ctx') /\ Store!Next
<1> DEFINE store == [x \in DOMAIN ctx.entries |-> ctx.entries[x].version]
<1>1. Store!Current(k) = Version(ctx, k)
  BY DEF Store!Current, Version
<1>2. /\ ToSet(ctx.order) = DOMAIN ctx.entries /\ max_context_entries \in Nat \ {0}
      /\ ctx.order \in Seq(Keys)
  BY ContextTypes, LimitsPositive DEF Lists
<1>3. ASSUME NEW c, ContextTyped(c), Lists(c), ctx' = WriteEntry(c, e),
             NEW removed, DOMAIN c.entries \ {k} = (DOMAIN ctx.entries \ removed) \ {k},
             Version(c, k) = Version(ctx, k),
             \A x \in DOMAIN c.entries : c.entries[x] = ctx.entries[x]
      PROVE  Lists(ctx') /\ store' = Store!Without(removed, k)
  <2>1. /\ Lists(ctx') /\ DOMAIN ctx'.entries = DOMAIN c.entries \cup {k}
        /\ ctx'.entries[k].version = Version(ctx, k) + 1
        /\ \A x \in DOMAIN c.entries \ {k} : ctx'.entries[x] = c.entries[x]
    BY <1>3, WriteLists
  <2>2. DOMAIN ctx'.entries = (DOMAIN ctx.entries \ removed) \cup {k}
    BY <1>3, <2>1
  <2>3. \A x \in DOMAIN ctx'.entries :
           ctx'.entries[x].version = IF x = k THEN Version(ctx, k) + 1
                                     ELSE ctx.entries[x].version
    BY <1>3, <2>1
  <2>4. \A x \in DOMAIN ctx'.entries : x # k => x \in DOMAIN ctx.entries
    BY <2>2
  <2>5. store' = [x \in (DOMAIN ctx.entries \ removed) \cup {k} |->
                     IF x = k THEN Store!Current(k) + 1 ELSE store[x]]
    BY <1>1, <2>2, <2>3, <2>4
  <2> QED BY <2>1, <2>5 DEF Store!Without
<1>4. CASE k \in DOMAIN ctx.entries
  <2>1. ctx' = WriteEntry(ctx, e)
    BY <1>4 DEF ApplyPatch, NeedsEviction
  <2>2. Lists(ctx') /\ store' = Store!Without({}, k)
    BY <1>3, <2>1
  <2> QED BY <1>4, <2>2 DEF Store!Next, Store!Rewrite
<1>5. CASE k \notin DOMAIN ctx.entries /\ Cardinality(DOMAIN ctx.entries) < max_context_entries
  <2>0. IsFiniteSet(DOMAIN ctx.entries) /\ Cardinality(DOMAIN ctx.entries) \in Nat
    <3>1. Distinct(ctx.order)
      BY DEF Lists
    <3> QED BY <1>2, <3>1, DistinctCardinality
  <2>1. ctx' = WriteEntry(ctx, e)
    BY <1>2, <1>5, <2>0 DEF ApplyPatch, NeedsEviction
  <2>2. Lists(ctx') /\ store' = Store!Without({}, k)
    BY <1>3, <2>1
  <2>3. DOMAIN store = DOMAIN ctx.entries
        /\ Store!Cardinality(DOMAIN store) = Cardinality(DOMAIN ctx.entries)
    BY StoreCardinality
  <2>4. Store!Insert(k)
    BY <1>5, <2>2, <2>3 DEF Store!Insert
  <2> QED BY <2>2, <2>4 DEF Store!Next
<1>6. CASE k \notin DOMAIN ctx.entries /\ Cardinality(DOMAIN ctx.entries) >= max_context_entries
  <2>1. ctx.order # <<>>
    <3>1. ASSUME ctx.order = <<>> PROVE FALSE
      <4>1. Len(ctx.order) = 0 /\ Distinct(ctx.order)
        BY <3>1 DEF Lists
      <4>2. Cardinality(DOMAIN ctx.entries) = 0
        BY <1>2, <4>1, DistinctCardinality
      <4> QED BY <1>2, <1>6, <4>2
    <3> QED BY <3>1
  <2>2. ctx' = WriteEntry(EvictOldest(ctx), e)
    BY <1>6, <2>1 DEF ApplyPatch, NeedsEviction
  <2>3. PICK c, victim : c = EvictOldest(ctx) /\ victim = Head(ctx.order)
    OBVIOUS
  <2>4. /\ ContextTyped(c) /\ Lists(c) /\ victim \in DOMAIN ctx.entries
        /\ DOMAIN c.entries = DOMAIN ctx.entries \ {victim}
        /\ \A x \in DOMAIN c.entries : c.entries[x] = ctx.entries[x]
    BY <2>1, <2>3, EvictLists, EvictOldestType
  <2>5. Version(c, k) = Version(ctx, k)
    BY <1>6, <2>4 DEF Version
  <2>6. DOMAIN c.entries \ {k} = (DOMAIN ctx.entries \ {victim}) \ {k}
    BY <2>4
  <2>7. Lists(ctx') /\ store' = Store!Without({victim}, k)
    BY <1>3, <2>2, <2>3, <2>4, <2>5, <2>6
  <2>8. DOMAIN store = DOMAIN ctx.entries
        /\ Store!Cardinality(DOMAIN store) = Cardinality(DOMAIN ctx.entries)
    BY StoreCardinality
  <2>9. Store!Replace(k, victim)
    BY <1>6, <2>7, <2>8 DEF Store!Replace
  <2> QED BY <2>4, <2>7, <2>9 DEF Store!Next
<1>7. Cardinality(DOMAIN ctx.entries) \in Nat
  <2>1. Distinct(ctx.order)
    BY DEF Lists
  <2> QED BY <1>2, <2>1, DistinctCardinality
<1>8. \/ k \in DOMAIN ctx.entries
      \/ k \notin DOMAIN ctx.entries /\ Cardinality(DOMAIN ctx.entries) < max_context_entries
      \/ k \notin DOMAIN ctx.entries /\ Cardinality(DOMAIN ctx.entries) >= max_context_entries
  BY <1>2, <1>7
<1> QED BY <1>4, <1>5, <1>6, <1>8

\* A sequenced publish writes its patch; nothing else touches the context.
LEMMA SequencedStores ==
  ASSUME TypeOK, Lists(ctx), NEW e \in Envelopes, Sequenced(e)
  PROVE  Lists(ctx') /\ (Store!Next \/ ctx' = ctx)
<1>1. CASE e.payload # "ContextPatch"
  <2>1. ctx' = ctx
    BY <1>1 DEF Sequenced
  <2> QED BY <2>1
<1>2. CASE e.payload = "ContextPatch"
  <2>1. e \in EnvelopeType /\ e.key # None
    BY <1>2, BusAssumption
  <2>2. PICK k \in Keys : k = e.key
    BY <2>1 DEF EnvelopeType
  <2>3. ctx' = ApplyPatch(ctx, e) /\ ContextTyped(ctx)
    BY <1>2 DEF Sequenced, TypeOK
  <2> QED BY <2>2, <2>3, PatchStores
<1> QED BY <1>1, <1>2

LEMMA NextStore ==
  ASSUME TypeOK, Lists(ctx), [Next]_vars
  PROVE  Lists(ctx') /\ (Store!Next \/ ctx' = ctx)
<1>1. ASSUME ctx' = ctx PROVE Lists(ctx') /\ (Store!Next \/ ctx' = ctx)
  BY <1>1
<1>2. ASSUME NEW e \in Envelopes, Publish(e)
      PROVE  ctx' = ctx \/ Sequenced(e)
  BY <1>2 DEF Publish, PublishInvalid, PublishDuplicate, PublishConflict, PublishUnknownTarget,
       PublishDirect, PublishBroadcast
<1>3. ASSUME NEW a \in Agents, RegisterAgent(a) \/ UnregisterAgent(a)
      PROVE  ctx' = ctx
  BY <1>3 DEF RegisterAgent, UnregisterAgent
<1>4. ASSUME NEW a \in Agents, NEW max, DrainForAgent(a, max)
      PROVE  ctx' = ctx
  BY <1>4 DEF DrainForAgent
<1>5. CASE UNCHANGED vars
  BY <1>1, <1>5 DEF vars
<1>6. CASE Next
  <2>1. (\E e \in Envelopes : Publish(e)) \/ ctx' = ctx
    BY <1>3, <1>4, <1>6 DEF Next
  <2> QED BY <1>1, <1>2, <2>1, SequencedStores
<1> QED BY <1>5, <1>6

\* The shared context implements VersionedStore for every key set and capacity:
\* a write raises one key's version by one and costs another key its entry only
\* when the key is new and the store is full (apply_context_patch_locked).
THEOREM StoreImplemented == Spec => ImplementsStore
<1>1. Init => Lists(ctx) /\ Store!Init
  <2> SUFFICES ASSUME Init PROVE Lists(ctx) /\ Store!Init
    OBVIOUS
  <2>1. ctx.order = <<>> /\ ctx.entries = <<>>
    BY DEF Init, EmptyContext
  <2>2. Lists(ctx)
    BY <2>1 DEF Lists, Distinct, ToSet
  <2>3. DOMAIN ctx.entries = {}
    BY <2>1
  <2>4. [k \in DOMAIN ctx.entries |-> ctx.entries[k].version] = <<>>
    BY <2>3
  <2> QED BY <2>2, <2>4 DEF Store!Init
<1>2. TypeOK /\ Lists(ctx) /\ [Next]_vars => Lists(ctx)'
  BY NextStore DEF Lists
<1>3. TypeOK /\ Lists(ctx) /\ [Next]_vars
      => [Store!Next]_([k \in DOMAIN ctx.entries |-> ctx.entries[k].version])
  BY NextStore
<1> QED BY <1>1, <1>2, <1>3, TypeCorrect, PTL DEF Spec, ImplementsStore, Store!Spec

-----------------------------------------------------------------------------
(* The elements of a sequence that are in a set *)

\* kept lists what Matching has after each prefix of s.
Keeps(kept, s, S) ==
  /\ kept[0] = <<>>
  /\ \A i \in 1..Len(s) :
        kept[i] = IF s[i] \in S THEN Append(kept[i - 1], s[i]) ELSE kept[i - 1]

LEMMA MatchingUnfolds ==
  ASSUME NEW U, NEW s \in Seq(U), NEW S
  PROVE  \E kept : /\ Keeps(kept, s, S) /\ Matching(s, S) = kept[Len(s)]
                   /\ \A i \in 0..Len(s) : kept[i] \in Seq(U)
<1> PICK n : n = Len(s)
  OBVIOUS
<1> PICK step : step = [i \in 1..n |->
                   [x \in Seq(U) |-> IF s[i] \in S THEN Append(x, s[i]) ELSE x]]
  OBVIOUS
<1>1. n \in Nat /\ <<>> \in Seq(U)
      /\ \A i \in 1..n, x \in Seq(U) : (IF s[i] \in S THEN Append(x, s[i]) ELSE x) \in Seq(U)
  <2>1. n \in Nat /\ \A i \in 1..n : s[i] \in U
    BY ElementOfSeq
  <2> QED BY <2>1
<1>2. step \in [1..n -> [Seq(U) -> Seq(U)]]
  BY <1>1
<1>3. \A i \in 1..n, x \in Seq(U) : step[i][x] = IF s[i] \in S THEN Append(x, s[i]) ELSE x
  OBVIOUS
<1>4. PICK f : IsIteration(f, Seq(U), <<>>, n, step)
  BY <1>1, <1>2, Iteration
<1> DEFINE Kept(fn) == [i \in 0..Len(s) |->
                          IF i = 0 THEN <<>>
                          ELSE IF s[i] \in S THEN Append(fn[i - 1], s[i]) ELSE fn[i - 1]]
           kept == CHOOSE fn : fn = Kept(fn)
<1> HIDE DEF Kept
<1>5. f = Kept(f)
  <2>1. f \in [0..n -> Seq(U)] /\ f[0] = <<>> /\ \A i \in 1..n : f[i] = step[i][f[i - 1]]
    BY <1>4 DEF IsIteration
  <2>2. ASSUME NEW i \in 0..n PROVE f[i] = Kept(f)[i]
    <3>1. CASE i = 0
      BY <2>1, <3>1 DEF Kept
    <3>2. CASE i # 0
      <4>1. i \in 1..n /\ i - 1 \in 0..n
        BY <1>1, <3>2
      <4>2. f[i - 1] \in Seq(U)
        BY <2>1, <4>1
      <4> QED BY <1>3, <2>1, <3>2, <4>1, <4>2 DEF Kept
    <3> QED BY <3>1, <3>2
  <2> QED BY <2>1, <2>2 DEF Kept
<1>6. kept = Kept(kept)
  BY <1>5
<1>7. Matching(s, S) = kept[Len(s)]
  BY DEF Matching, kept, Kept
<1> HIDE DEF kept
<1>8. Keeps(kept, s, S)
  <2>1. \A i \in 0..n :
           kept[i] = IF i = 0 THEN <<>>
                     ELSE IF s[i] \in S THEN Append(kept[i - 1], s[i]) ELSE kept[i - 1]
    BY <1>6 DEF Kept
  <2>2. 0 \in 0..n /\ \A i \in 1..n : i \in 0..n /\ i # 0
    BY <1>1
  <2> QED BY <2>1, <2>2 DEF Keeps
<1> DEFINE T == {i \in Nat : i <= n => kept[i] \in Seq(U)}
<1>9. 0 \in T
  BY <1>1, <1>8 DEF Keeps
<1>10. ASSUME NEW i \in Nat, i \in T PROVE i + 1 \in T
  <2> SUFFICES ASSUME i + 1 <= n PROVE kept[i + 1] \in Seq(U)
    OBVIOUS
  <2>1. i + 1 \in 1..n /\ (i + 1) - 1 = i /\ kept[i] \in Seq(U)
    BY <1>1, <1>10
  <2>2. kept[i + 1] = IF s[i + 1] \in S THEN Append(kept[i], s[i + 1]) ELSE kept[i]
    BY <1>8, <2>1 DEF Keeps
  <2> QED BY <1>1, <2>1, <2>2
<1> HIDE DEF T
<1>11. \A i \in Nat : i \in T
  BY <1>9, <1>10, SetInduction
<1>12. \A i \in 0..Len(s) : kept[i] \in Seq(U)
  BY <1>1, <1>11 DEF T
<1> QED BY <1>7, <1>8, <1>12

LEMMA MatchingType ==
  ASSUME NEW U, NEW s \in Seq(U), NEW S
  PROVE  Matching(s, S) \in Seq(U)
<1>1. PICK kept : /\ Matching(s, S) = kept[Len(s)]
                  /\ \A i \in 0..Len(s) : kept[i] \in Seq(U)
  BY MatchingUnfolds
<1>2. Len(s) \in 0..Len(s)
  OBVIOUS
<1> QED BY <1>1, <1>2

LEMMA MatchingEmpty ==
  ASSUME NEW S
  PROVE  Matching(<<>>, S) = <<>>
<1>1. <<>> \in Seq({}) /\ Len(<<>>) = 0
  OBVIOUS
<1>2. PICK kept : Keeps(kept, <<>>, S) /\ Matching(<<>>, S) = kept[Len(<<>>)]
  BY <1>1, MatchingUnfolds
<1> QED BY <1>1, <1>2 DEF Keeps

LEMMA MatchingAppend ==
  ASSUME NEW U, NEW s \in Seq(U), NEW x \in U, NEW S
  PROVE  Matching(Append(s, x), S)
             = IF x \in S THEN Append(Matching(s, S), x) ELSE Matching(s, S)
<1> PICK t, n : t = Append(s, x) /\ n = Len(s)
  OBVIOUS
<1>1. /\ t \in Seq(U) /\ n \in Nat /\ Len(t) = n + 1 /\ t[n + 1] = x
      /\ \A i \in 1..n : t[i] = s[i]
  BY AppendProperties
<1>2. PICK f : Keeps(f, s, S) /\ Matching(s, S) = f[n]
  BY MatchingUnfolds
<1>3. PICK h : Keeps(h, t, S) /\ Matching(t, S) = h[n + 1]
  <2>1. t \in Seq(U) /\ Len(t) = n + 1
    BY <1>1
  <2>2. \E h : Keeps(h, t, S) /\ Matching(t, S) = h[Len(t)]
    BY ONLY <2>1, MatchingUnfolds
  <2> QED BY <2>1, <2>2
<1> DEFINE T == {i \in Nat : i <= n => h[i] = f[i]}
<1>4. 0 \in T
  BY <1>2, <1>3 DEF Keeps
<1>5. ASSUME NEW i \in Nat, i \in T PROVE i + 1 \in T
  <2> SUFFICES ASSUME i + 1 <= n PROVE h[i + 1] = f[i + 1]
    OBVIOUS
  <2>1. i + 1 \in 1..n /\ i + 1 \in 1..(n + 1) /\ (i + 1) - 1 = i /\ h[i] = f[i]
    BY <1>1, <1>5
  <2>2. h[i + 1] = IF t[i + 1] \in S THEN Append(h[i], t[i + 1]) ELSE h[i]
    BY <1>1, <1>3, <2>1 DEF Keeps
  <2>3. f[i + 1] = IF s[i + 1] \in S THEN Append(f[i], s[i + 1]) ELSE f[i]
    BY <1>2, <2>1 DEF Keeps
  <2> QED BY <1>1, <2>1, <2>2, <2>3
<1> HIDE DEF T
<1>6. h[n] = f[n]
  <2>1. \A i \in Nat : i \in T
    BY <1>4, <1>5, SetInduction
  <2> QED BY <1>1, <2>1 DEF T
<1>7. h[n + 1] = IF x \in S THEN Append(h[n], x) ELSE h[n]
  <2>1. n + 1 \in 1..Len(t) /\ (n + 1) - 1 = n
    BY <1>1
  <2> QED BY <1>1, <1>3, <2>1 DEF Keeps
<1> QED BY <1>2, <1>3, <1>6, <1>7

\* A set of sequences with the empty one, closed under Append, has them all.
LEMMA SeqInduction ==
  ASSUME NEW U, NEW T, <<>> \in T,
         \A s \in Seq(U), x \in U : s \in T => Append(s, x) \in T
  PROVE  \A s \in Seq(U) : s \in T
<1> DEFINE N == {n \in Nat : \A s \in Seq(U) : Len(s) = n => s \in T}
<1>1. 0 \in N
  <2>1. \A s \in Seq(U) : Len(s) = 0 => s = <<>>
    BY EmptySeq
  <2> QED BY <2>1
<1>2. ASSUME NEW n \in Nat, n \in N PROVE n + 1 \in N
  <2> SUFFICES ASSUME NEW s \in Seq(U), Len(s) = n + 1 PROVE s \in T
    OBVIOUS
  <2>1. PICK t : t = SubSeq(s, 1, n)
    OBVIOUS
  <2>2. /\ \A i \in 1..n : s[i] \in U
        /\ s[n + 1] \in U
    BY ElementOfSeq
  <2>3. t \in Seq(U) /\ Len(t) = n /\ \A i \in 1..n : t[i] = s[i]
    BY <2>1, <2>2, SubSeqProperties
  <2>4. PICK v : v = Append(t, s[n + 1])
    OBVIOUS
  <2>5. /\ v \in Seq(U) /\ Len(v) = n + 1 /\ v[n + 1] = s[n + 1]
        /\ \A i \in 1..n : v[i] = t[i]
    BY <2>2, <2>3, <2>4, AppendProperties
  <2>6. \A i \in 1..Len(s) : s[i] = v[i]
    <3>1. \A i \in 1..(n + 1) : i \in 1..n \/ i = n + 1
      OBVIOUS
    <3> QED BY <2>3, <2>5, <3>1
  <2>7. s = v
    BY <2>5, <2>6, SeqEqual
  <2>8. t \in T
    BY <1>2, <2>3
  <2> QED BY <2>2, <2>3, <2>4, <2>7, <2>8
<1> HIDE DEF N
<1>3. \A n \in Nat : n \in N
  BY <1>1, <1>2, SetInduction
<1> QED BY <1>3 DEF N

LEMMA ToSetEmpty == ToSet(<<>>) = {}
BY DEF ToSet

LEMMA ToSetAppend ==
  ASSUME NEW U, NEW s \in Seq(U), NEW x \in U
  PROVE  ToSet(Append(s, x)) = ToSet(s) \cup {x} /\ ToSet(s) \subseteq U
<1>1. /\ Append(s, x) \in Seq(U) /\ Len(Append(s, x)) = Len(s) + 1 /\ Len(s) \in Nat
      /\ \A i \in 1..Len(s) : Append(s, x)[i] = s[i]
      /\ Append(s, x)[Len(s) + 1] = x
  BY AppendProperties
<1>2. \A i \in 1..(Len(s) + 1) : i \in 1..Len(s) \/ i = Len(s) + 1
  BY <1>1
<1>3. Len(s) + 1 \in 1..(Len(s) + 1) /\ \A i \in 1..Len(s) : i \in 1..(Len(s) + 1)
  BY <1>1
<1>4. ASSUME NEW y PROVE y \in ToSet(Append(s, x)) <=> y \in ToSet(s) \/ y = x
  <2>1. PICK t : t = Append(s, x)
    OBVIOUS
  <2>2. y \in ToSet(t) <=> \E i \in 1..Len(t) : y = t[i]
    BY <1>1, <2>1, ToSetMember, ZenonT(40)
  <2>3. y \in ToSet(s) <=> \E i \in 1..Len(s) : y = s[i]
    BY ToSetMember
  <2> QED BY <1>1, <1>2, <1>3, <2>1, <2>2, <2>3
<1>5. \A i \in 1..Len(s) : s[i] \in U
  BY ElementOfSeq
<1>6. ToSet(s) \subseteq U
  BY <1>5, ToSetMember
<1> QED BY <1>4, <1>6

\* Matching twice is matching both.
LEMMA MatchingBoth ==
  ASSUME NEW U, NEW A, NEW B
  PROVE  \A s \in Seq(U) : Matching(Matching(s, A), B) = Matching(s, A \cap B)
<1> DEFINE T == {s \in Seq(U) : Matching(Matching(s, A), B) = Matching(s, A \cap B)}
<1>1. <<>> \in T
  BY MatchingEmpty
<1>2. ASSUME NEW s \in Seq(U), NEW x \in U, s \in T
      PROVE  Append(s, x) \in T
  <2>1. PICK m : m = Matching(s, A)
    OBVIOUS
  <2>2. m \in Seq(U) /\ Append(s, x) \in Seq(U)
    BY <2>1, MatchingType
  <2>3. Matching(Append(s, x), A) = IF x \in A THEN Append(m, x) ELSE m
    BY <2>1, MatchingAppend
  <2>4. Matching(Append(m, x), B) = IF x \in B THEN Append(Matching(m, B), x) ELSE Matching(m, B)
    BY <2>2, MatchingAppend
  <2>5. Matching(Append(s, x), A \cap B)
           = IF x \in A \cap B THEN Append(Matching(s, A \cap B), x) ELSE Matching(s, A \cap B)
    BY MatchingAppend
  <2>6. Matching(m, B) = Matching(s, A \cap B)
    BY <1>2, <2>1
  <2>7. CASE x \in A
    <3>1. Matching(Matching(Append(s, x), A), B)
             = IF x \in B THEN Append(Matching(m, B), x) ELSE Matching(m, B)
      BY <2>3, <2>4, <2>7
    <3>2. x \in A \cap B <=> x \in B
      BY <2>7
    <3>3. Matching(Matching(Append(s, x), A), B) = Matching(Append(s, x), A \cap B)
      BY ONLY <2>5, <2>6, <3>1, <3>2
    <3> QED BY <2>2, <3>3
  <2>8. CASE x \notin A
    BY <2>2, <2>3, <2>5, <2>6, <2>8
  <2> QED BY <2>7, <2>8
<1> HIDE DEF T
<1>3. \A s \in Seq(U) : s \in T
  BY <1>1, <1>2, SeqInduction
<1> QED BY <1>3 DEF T

\* Only the elements of s tell which set is matched.
LEMMA MatchingSame ==
  ASSUME NEW U, NEW A, NEW B
  PROVE  \A s \in Seq(U) : (\A x \in ToSet(s) : x \in A <=> x \in B)
                           => Matching(s, A) = Matching(s, B)
<1> DEFINE T == {s \in Seq(U) : (\A x \in ToSet(s) : x \in A <=> x \in B)
                                => Matching(s, A) = Matching(s, B)}
<1>1. <<>> \in T
  BY MatchingEmpty
<1>2. ASSUME NEW s \in Seq(U), NEW x \in U, s \in T
      PROVE  Append(s, x) \in T
  <2>1. ToSet(Append(s, x)) = ToSet(s) \cup {x} /\ Append(s, x) \in Seq(U)
    BY ToSetAppend
  <2>2. /\ Matching(Append(s, x), A)
               = IF x \in A THEN Append(Matching(s, A), x) ELSE Matching(s, A)
        /\ Matching(Append(s, x), B)
               = IF x \in B THEN Append(Matching(s, B), x) ELSE Matching(s, B)
    BY MatchingAppend
  <2> QED BY <1>2, <2>1, <2>2
<1> HIDE DEF T
<1>3. \A s \in Seq(U) : s \in T
  BY <1>1, <1>2, SeqInduction
<1> QED BY <1>3 DEF T

\* Matching every element keeps the sequence.
LEMMA MatchingAll ==
  ASSUME NEW U, NEW A
  PROVE  \A s \in Seq(U) : ToSet(s) \subseteq A => Matching(s, A) = s
<1> DEFINE T == {s \in Seq(U) : ToSet(s) \subseteq A => Matching(s, A) = s}
<1>1. <<>> \in T
  BY MatchingEmpty
<1>2. ASSUME NEW s \in Seq(U), NEW x \in U, s \in T
      PROVE  Append(s, x) \in T
  <2>1. ToSet(Append(s, x)) = ToSet(s) \cup {x} /\ Append(s, x) \in Seq(U)
    BY ToSetAppend
  <2>2. Matching(Append(s, x), A) = IF x \in A THEN Append(Matching(s, A), x) ELSE Matching(s, A)
    BY MatchingAppend
  <2> QED BY <1>2, <2>1, <2>2
<1> HIDE DEF T
<1>3. \A s \in Seq(U) : s \in T
  BY <1>1, <1>2, SeqInduction
<1> QED BY <1>3 DEF T

LEMMA MatchingElements ==
  ASSUME NEW U, NEW A
  PROVE  \A s \in Seq(U) : /\ ToSet(Matching(s, A)) = ToSet(s) \cap A
                           /\ Distinct(s) => Distinct(Matching(s, A))
<1> DEFINE T == {s \in Seq(U) : /\ ToSet(Matching(s, A)) = ToSet(s) \cap A
                                /\ Distinct(s) => Distinct(Matching(s, A))}
<1>1. <<>> \in T
  BY MatchingEmpty, ToSetEmpty
<1>2. ASSUME NEW s \in Seq(U), NEW x \in U, s \in T
      PROVE  Append(s, x) \in T
  <2>1. PICK m, t : m = Matching(s, A) /\ t = Append(s, x)
    OBVIOUS
  <2>2. m \in Seq(U) /\ t \in Seq(U) /\ ToSet(t) = ToSet(s) \cup {x}
    BY <2>1, MatchingType, ToSetAppend
  <2>3. Matching(t, A) = IF x \in A THEN Append(m, x) ELSE m
    BY <2>1, MatchingAppend
  <2>4. ToSet(m) = ToSet(s) \cap A /\ (Distinct(s) => Distinct(m))
    BY <1>2, <2>1
  <2>5. ToSet(Append(m, x)) = ToSet(m) \cup {x}
    BY <2>2, ToSetAppend
  <2>6. ToSet(Matching(t, A)) = ToSet(t) \cap A
    BY <2>2, <2>3, <2>4, <2>5
  <2>7. ASSUME Distinct(t) PROVE Distinct(s) /\ x \notin ToSet(s)
    <3>1. /\ Len(t) = Len(s) + 1 /\ Len(s) \in Nat /\ t[Len(s) + 1] = x
          /\ \A i \in 1..Len(s) : t[i] = s[i]
      BY <2>1, AppendProperties
    <3>2. Distinct(s)
      BY <2>7, <3>1 DEF Distinct
    <3>3. \A i \in 1..Len(s) : s[i] # x
      BY <2>7, <3>1 DEF Distinct
    <3> QED BY <3>2, <3>3, ToSetMember
  <2>8. Distinct(t) => Distinct(Matching(t, A))
    <3> SUFFICES ASSUME Distinct(t), x \in A PROVE Distinct(Append(m, x))
      BY <2>3, <2>4, <2>7
    <3>1. Distinct(m) /\ x \notin ToSet(m)
      BY <2>4, <2>7
    <3> QED BY ONLY <2>2, <3>1, x \in U, AppendDistinct
  <2> QED BY <2>1, <2>2, <2>6, <2>8
<1> HIDE DEF T
<1>3. \A s \in Seq(U) : s \in T
  BY <1>1, <1>2, SeqInduction
<1> QED BY <1>3 DEF T

\* Matching the tail of s takes the head of the match away, if it is the head of s.
LEMMA MatchingTail ==
  ASSUME NEW U, NEW A
  PROVE  \A s \in Seq(U) :
            s # <<>> => IF Head(s) \in A
                        THEN /\ Matching(s, A) # <<>> /\ Head(Matching(s, A)) = Head(s)
                             /\ Matching(Tail(s), A) = Tail(Matching(s, A))
                        ELSE Matching(Tail(s), A) = Matching(s, A)
<1> DEFINE P(s) == IF Head(s) \in A
                   THEN /\ Matching(s, A) # <<>> /\ Head(Matching(s, A)) = Head(s)
                        /\ Matching(Tail(s), A) = Tail(Matching(s, A))
                   ELSE Matching(Tail(s), A) = Matching(s, A)
           T == {s \in Seq(U) : s # <<>> => P(s)}
<1>1. <<>> \in T
  OBVIOUS
<1>2. ASSUME NEW s \in Seq(U), NEW x \in U, s \in T
      PROVE  Append(s, x) \in T
  <2>1. PICK t : t = Append(s, x)
    OBVIOUS
  <2>2. PICK m : m = Matching(s, A)
    OBVIOUS
  <2>3. t \in Seq(U) /\ m \in Seq(U) /\ t # <<>>
    BY <2>1, <2>2, MatchingType
  <2>4. Matching(t, A) = IF x \in A THEN Append(m, x) ELSE m
    BY <2>1, <2>2, MatchingAppend
  <2>5. CASE s = <<>>
    <3>1. Head(t) = x /\ Tail(t) = <<>> /\ m = <<>>
      BY <2>1, <2>2, <2>5, MatchingEmpty
    <3>2. Append(<<>>, x) # <<>> /\ Head(Append(<<>>, x)) = x /\ Tail(Append(<<>>, x)) = <<>>
      OBVIOUS
    <3>3. P(t)
      BY <2>4, <3>1, <3>2, MatchingEmpty
    <3> QED BY <2>1, <2>3, <3>3
  <2>6. CASE s # <<>>
    <3>1. Head(t) = Head(s) /\ Tail(t) = Append(Tail(s), x) /\ Tail(s) \in Seq(U)
      BY <2>1, <2>6
    <3>2. Matching(Tail(t), A) = IF x \in A THEN Append(Matching(Tail(s), A), x)
                                 ELSE Matching(Tail(s), A)
      <4>1. PICK q : q = Tail(s)
        OBVIOUS
      <4>2. q \in Seq(U) /\ x \in U
        BY <3>1, <4>1
      <4>3. Matching(Append(q, x), A) = IF x \in A THEN Append(Matching(q, A), x)
                                       ELSE Matching(q, A)
        BY ONLY <4>2, MatchingAppend
      <4> QED BY <3>1, <4>1, <4>3
    <3>3. P(s)
      BY <1>2, <2>6
    <3>4. m # <<>> => Head(Append(m, x)) = Head(m) /\ Tail(Append(m, x)) = Append(Tail(m), x)
                      /\ Append(m, x) # <<>>
      BY <2>3, SMTT(40)
    <3>5. CASE Head(s) \in A
      <4>1. m # <<>> /\ Head(m) = Head(s) /\ Matching(Tail(s), A) = Tail(m)
        BY <2>2, <3>3, <3>5
      <4>2. P(t)
        BY <2>4, <3>1, <3>2, <3>4, <3>5, <4>1
      <4> QED BY <2>1, <2>3, <4>2
    <3>6. CASE Head(s) \notin A
      <4>1. Matching(Tail(s), A) = m
        BY <2>2, <3>3, <3>6
      <4>2. P(t)
        BY <2>4, <3>1, <3>2, <3>6, <4>1
      <4> QED BY <2>1, <2>3, <4>2
    <3> QED BY <3>5, <3>6
  <2> QED BY <2>5, <2>6
<1> HIDE DEF T
<1>3. \A s \in Seq(U) : s \in T
  BY <1>1, <1>2, SeqInduction
<1> QED BY <1>3 DEF T

\* In a sequence without repetition, RemoveFirst matches everything else.
LEMMA RemoveMatching ==
  ASSUME NEW U, NEW e
  PROVE  \A s \in Seq(U) : Distinct(s) => RemoveFirst(s, e) = Matching(s, U \ {e})
<1> DEFINE T == {s \in Seq(U) : Distinct(s) => RemoveFirst(s, e) = Matching(s, U \ {e})}
<1>1. <<>> \in T
  <2>1. RemoveFirst(<<>>, e) = <<>>
    BY DEF RemoveFirst
  <2> QED BY <2>1, MatchingEmpty
<1>2. ASSUME NEW s \in Seq(U), NEW x \in U, s \in T
      PROVE  Append(s, x) \in T
  <2>1. PICK t, n : t = Append(s, x) /\ n = Len(s)
    OBVIOUS
  <2>2. /\ t \in Seq(U) /\ n \in Nat /\ Len(t) = n + 1 /\ t[n + 1] = x
        /\ \A i \in 1..n : t[i] = s[i] /\ i \in 1..(n + 1)
    BY <2>1, AppendProperties
  <2> SUFFICES ASSUME Distinct(t) PROVE RemoveFirst(t, e) = Matching(t, U \ {e})
    BY <2>1, <2>2
  <2>3. Distinct(s) /\ \A i \in 1..n : s[i] # x
    BY <2>1, <2>2 DEF Distinct
  <2>4. ToSet(s) \subseteq U /\ x \notin ToSet(s)
    BY <2>1, <2>3, ToSetAppend, ToSetMember
  <2>5. Matching(t, U \ {e}) = IF x # e THEN Append(RemoveFirst(s, e), x) ELSE RemoveFirst(s, e)
    BY <1>2, <2>1, <2>3, MatchingAppend
  <2>6. CASE /\ \A i \in 1..Len(t) : t[i] # e
             /\ RemoveFirst(t, e) = t
    <3>1. \A i \in 1..n : s[i] # e
      BY <2>2, <2>6
    <3>2. RemoveFirst(s, e) = s
      BY <2>1, <3>1, RemoveFirstCases
    <3>3. x # e
      BY <2>2, <2>6
    <3> QED BY <2>1, <2>5, <2>6, <3>2, <3>3
  <2>7. ASSUME NEW k \in 1..Len(t), t[k] = e, RemoveFirst(t, e) = RemoveAt(t, k)
        PROVE  RemoveFirst(t, e) = Matching(t, U \ {e})
    <3>1. PICK r : r = RemoveAt(t, k)
      OBVIOUS
    <3>2. /\ r \in Seq(U) /\ Len(r) = n
          /\ \A j \in 1..n : r[j] = IF j < k THEN t[j] ELSE t[j + 1]
      <4>1. t \in Seq(U) /\ k \in 1..Len(t) /\ Len(t) = n + 1 /\ n \in Nat
        BY <2>2
      <4>2. /\ RemoveAt(t, k) \in Seq(U) /\ Len(RemoveAt(t, k)) = Len(t) - 1
            /\ \A j \in 1..(Len(t) - 1) : RemoveAt(t, k)[j] = IF j < k THEN t[j] ELSE t[j + 1]
        BY ONLY <4>1, RemoveAtProperties
      <4>3. Len(t) - 1 = n
        BY <4>1
      <4> QED BY <3>1, <4>2, <4>3
    <3>3. CASE k = n + 1
      <4>1. x = e /\ \A i \in 1..n : s[i] # e
        BY <2>2, <2>3, <2>7, <3>3
      <4>2. RemoveFirst(s, e) = s
        BY <2>1, <4>1, RemoveFirstCases
      <4>3. \A j \in 1..n : r[j] = s[j]
        BY <2>2, <3>2, <3>3
      <4>4. r = s
        BY <2>1, <2>2, <3>2, <4>3, SeqEqual
      <4> QED BY <2>5, <2>7, <3>1, <4>1, <4>2, <4>4
    <3>4. CASE k # n + 1
      <4>1. k \in 1..n /\ s[k] = e /\ x # e
        BY <2>2, <2>3, <2>7, <3>4
      <4>2. RemoveFirst(s, e) = RemoveAt(s, k)
        <5>1. PICK i \in 1..n : s[i] = e /\ RemoveFirst(s, e) = RemoveAt(s, i)
          BY <2>1, <4>1, RemoveFirstCases
        <5>2. i = k
          BY <2>1, <2>3, <4>1, <5>1 DEF Distinct
        <5> QED BY <5>1, <5>2
      <4>3. PICK q : q = RemoveAt(s, k)
        OBVIOUS
      <4>4. /\ q \in Seq(U) /\ Len(q) = n - 1
            /\ \A j \in 1..(n - 1) : q[j] = IF j < k THEN s[j] ELSE s[j + 1]
        BY <2>1, <4>1, <4>3, RemoveAtProperties
      <4>5. PICK v : v = Append(q, x)
        OBVIOUS
      <4>6. /\ v \in Seq(U) /\ Len(v) = n
            /\ \A j \in 1..(n - 1) : v[j] = q[j]
            /\ v[n] = x
        <5>1. (n - 1) + 1 = n
          BY <2>2
        <5> QED BY <4>4, <4>5, <5>1, AppendProperties, SMTT(40)
      <4>7. ASSUME NEW j \in 1..n PROVE r[j] = v[j]
        <5>1. CASE j = n
          <6>1. r[j] = t[n + 1]
            BY <2>2, <3>2, <4>1, <5>1
          <6> QED BY <2>2, <4>6, <5>1, <6>1
        <5>2. CASE j # n /\ j < k
          <6>1. j \in 1..(n - 1)
            BY <2>2, <5>2
          <6> QED BY <2>2, <3>2, <4>4, <4>6, <5>2, <6>1
        <5>3. CASE j # n /\ ~(j < k)
          <6>1. j \in 1..(n - 1) /\ j + 1 \in 1..n
            BY <2>2, <5>3
          <6> QED BY <2>2, <3>2, <4>4, <4>6, <5>3, <6>1
        <5> QED BY <5>1, <5>2, <5>3
      <4>8. r = v
        BY <3>2, <4>6, <4>7, SeqEqual
      <4> QED BY <2>5, <2>7, <3>1, <4>1, <4>2, <4>3, <4>5, <4>8
    <3> QED BY <3>3, <3>4
  <2> QED BY <2>2, <2>6, <2>7, RemoveFirstCases
<1> HIDE DEF T
<1>3. \A s \in Seq(U) : s \in T
  BY <1>1, <1>2, SeqInduction
<1> QED BY <1>3 DEF T

-----------------------------------------------------------------------------
(* The indexes of the context *)

LEMMA KeySets ==
  ASSUME NEW order \in Seq(Keys)
  PROVE  ToSet(order) \subseteq Keys
<1>1. \A i \in 1..Len(order) : order[i] \in Keys
  BY ElementOfSeq
<1> QED BY <1>1, ToSetMember

\* What is left of a match when k goes.
LEMMA RemoveFromMatch ==
  ASSUME NEW order \in Seq(Keys), Distinct(order), NEW B, NEW k
  PROVE  RemoveFirst(Matching(order, B), k) = Matching(order, B \ {k})
<1>1. PICK m : m = Matching(order, B)
  OBVIOUS
<1>2. m \in Seq(Keys) /\ Distinct(m)
  BY <1>1, MatchingType, MatchingElements
<1>3. RemoveFirst(m, k) = Matching(m, Keys \ {k})
  BY ONLY <1>2, RemoveMatching
<1>4. Matching(m, Keys \ {k}) = Matching(order, B \cap (Keys \ {k}))
  BY <1>1, MatchingBoth
<1>5. \A x \in ToSet(order) : x \in B \cap (Keys \ {k}) <=> x \in B \ {k}
  BY KeySets
<1>6. Matching(order, B \cap (Keys \ {k})) = Matching(order, B \ {k})
  BY ONLY <1>5, order \in Seq(Keys), MatchingSame
<1> QED BY <1>1, <1>3, <1>4, <1>6

LEMMA AbsentFromMatch ==
  ASSUME NEW order \in Seq(Keys), NEW B, NEW k, k \notin B \/ k \notin ToSet(order)
  PROVE  Matching(order, B) = Matching(order, B \ {k})
<1>1. \A x \in ToSet(order) : x \in B <=> x \in B \ {k}
  OBVIOUS
<1> QED BY ONLY <1>1, order \in Seq(Keys), MatchingSame

LEMMA TailMatch ==
  ASSUME NEW order \in Seq(Keys), Distinct(order), order # <<>>, NEW B
  PROVE  Matching(Tail(order), B) = Matching(order, B \ {Head(order)})
<1>1. PICK h, t : h = Head(order) /\ t = Tail(order)
  OBVIOUS
<1>2. t \in Seq(Keys) /\ h \notin ToSet(t)
  BY <1>1, TailDistinct
<1>3. Matching(t, B) = Matching(t, B \ {h})
  BY ONLY <1>2, AbsentFromMatch
<1>4. h \notin B \ {h}
  OBVIOUS
<1>5. Matching(t, B \ {h}) = Matching(order, B \ {h})
  BY <1>1, <1>4, MatchingTail
<1> QED BY <1>1, <1>3, <1>5

LEMMA RestMatch ==
  ASSUME NEW order \in Seq(Keys), Distinct(order), NEW k \in Keys, NEW B, NEW rest,
         k \in ToSet(order) => rest = RemoveFirst(order, k),
         k \notin ToSet(order) => rest = order
  PROVE  rest \in Seq(Keys) /\ Matching(rest, B) = Matching(order, B \ {k})
<1>1. rest = Matching(order, Keys \ {k})
  <2>1. CASE k \in ToSet(order)
    BY <2>1, RemoveMatching
  <2>2. CASE k \notin ToSet(order)
    <3>1. ToSet(order) \subseteq Keys \ {k}
      BY <2>2, KeySets
    <3> QED BY <2>2, <3>1, MatchingAll
  <2> QED BY <2>1, <2>2
<1>2. rest \in Seq(Keys)
  BY <1>1, MatchingType
<1>3. Matching(rest, B) = Matching(order, (Keys \ {k}) \cap B)
  BY <1>1, MatchingBoth
<1>4. \A x \in ToSet(order) : x \in (Keys \ {k}) \cap B <=> x \in B \ {k}
  BY KeySets
<1>5. Matching(order, (Keys \ {k}) \cap B) = Matching(order, B \ {k})
  BY ONLY <1>4, order \in Seq(Keys), MatchingSame
<1> QED BY <1>2, <1>3, <1>5

\* The index without k, at one correlation.
LEMMA UnindexMatches ==
  ASSUME NEW index \in IndexType, NEW order \in Seq(Keys), Distinct(order),
         NEW corr \in Correlations \cup {None}, NEW k, NEW q \in Correlations, NEW A,
         index[q] = Matching(order, A), k \in A /\ k \in ToSet(order) => q = corr
  PROVE  Unindex(index, corr, k)[q] = Matching(order, A \ {k})
<1>1. q # None
  BY BusAssumption
<1>2. CASE q = corr
  <2>1. Unindex(index, corr, k)[q] = RemoveFirst(index[q], k)
    BY <1>1, <1>2 DEF Unindex, IndexType
  <2> QED BY <2>1, RemoveFromMatch
<1>3. CASE q # corr
  <2>1. Unindex(index, corr, k)[q] = index[q]
    BY <1>3 DEF Unindex, IndexType
  <2>2. k \notin A \/ k \notin ToSet(order)
    BY <1>3
  <2> QED BY <2>1, <2>2, AbsentFromMatch
<1> QED BY <1>2, <1>3

\* The index with k at the back, at one correlation.
LEMMA IndexAgain ==
  ASSUME NEW index \in IndexType, NEW order \in Seq(Keys), Distinct(order),
         NEW corr \in Correlations \cup {None}, NEW k \in Keys, NEW q \in Correlations,
         NEW B, NEW rest, k \in ToSet(order) => rest = RemoveFirst(order, k),
         k \notin ToSet(order) => rest = order,
         index[q] = Matching(order, B \ {k}), k \in B <=> q = corr
  PROVE  Index(index, corr, k)[q] = Matching(Append(rest, k), B)
<1>1. rest \in Seq(Keys) /\ Matching(rest, B) = index[q] /\ q # None
  BY RestMatch, BusAssumption, SMTT(40)
<1>2. Matching(Append(rest, k), B) = IF k \in B THEN Append(Matching(rest, B), k)
                                     ELSE Matching(rest, B)
  BY ONLY <1>1, k \in Keys, MatchingAppend
<1>3. CASE q = corr
  <2>1. Index(index, corr, k)[q] = Append(index[q], k)
    BY <1>1, <1>3 DEF Index, IndexType
  <2> QED BY <1>1, <1>2, <1>3, <2>1
<1>4. CASE q # corr
  <2>1. Index(index, corr, k)[q] = index[q]
    BY <1>4 DEF Index, IndexType
  <2> QED BY <1>1, <1>2, <1>4, <2>1
<1> QED BY <1>3, <1>4

-----------------------------------------------------------------------------
Labelled(c, q) == {k \in Keys : c.correlation_of[k] = q}
Assigned(q) == {k \in DelegateKeys : KeyCorrelation[k] = q}

\* Every index is the part of the write order it stands for; the keys that are
\* not stored have no correlation, and a stored delegate key has its own.
ContextIndexed(c) ==
  /\ Lists(c)
  /\ c.delegates = Matching(c.order, DelegateKeys)
  /\ \A q \in Correlations : c.by_correlation[q] = Matching(c.order, Labelled(c, q))
  /\ \A q \in Correlations : c.delegates_by_correlation[q] = Matching(c.order, Assigned(q))
  /\ \A k \in Keys \ DOMAIN c.entries : c.correlation_of[k] = None
  /\ \A k \in DelegateKeys \cap DOMAIN c.entries :
        c.correlation_of[k] = KeyCorrelation[k] /\ KeyCorrelation[k] # None

LEMMA IndexedFacts ==
  ASSUME NEW c, ContextTyped(c), ContextIndexed(c), NEW k \in Keys
  PROVE  /\ c.order \in Seq(Keys) /\ Distinct(c.order) /\ ToSet(c.order) = DOMAIN c.entries
         /\ c.by_correlation \in IndexType /\ c.delegates_by_correlation \in IndexType
         /\ c.correlation_of \in [Keys -> Correlations \cup {None}]
         /\ c.correlation_of[k] \in Correlations \cup {None}
<1>1. c.order \in Seq(Keys) /\ Distinct(c.order) /\ ToSet(c.order) = DOMAIN c.entries
  BY ContextTypes DEF ContextIndexed, Lists
<1>2. /\ c.by_correlation \in IndexType /\ c.delegates_by_correlation \in IndexType
      /\ c.correlation_of \in [Keys -> Correlations \cup {None}]
  BY ContextTypes
<1> QED BY <1>1, <1>2

\* What removing k leaves in the indexes, for an evicted and for a rewritten key.
IndexesWithout(c, k, q, old) ==
  /\ Unindex(c.by_correlation, old, k)[q] = Matching(c.order, Labelled(c, q) \ {k})
  /\ Unindex(c.delegates_by_correlation, old, k)[q] = Matching(c.order, Assigned(q) \ {k})
  /\ Unindex(c.by_correlation, old, k) \in IndexType
  /\ Unindex(c.delegates_by_correlation, old, k) \in IndexType
  /\ RemoveFirst(c.delegates, k) = Matching(c.order, DelegateKeys \ {k})

LEMMA WithoutKey ==
  ASSUME NEW c, ContextTyped(c), ContextIndexed(c), NEW k \in Keys, NEW q \in Correlations
  PROVE  IndexesWithout(c, k, q, c.correlation_of[k])
<1>1. PICK order, old, index, delegates, A, D :
         /\ order = c.order /\ old = c.correlation_of[k] /\ index = c.by_correlation
         /\ delegates = c.delegates_by_correlation
         /\ A = Labelled(c, q) /\ D = Assigned(q)
  OBVIOUS
<1>2. /\ order \in Seq(Keys) /\ Distinct(order)
      /\ index \in IndexType /\ delegates \in IndexType
      /\ old \in Correlations \cup {None}
  BY <1>1, IndexedFacts
<1>3. index[q] = Matching(order, A) /\ delegates[q] = Matching(order, D)
  BY <1>1 DEF ContextIndexed
<1>4. k \in A /\ k \in ToSet(order) => q = old
  BY <1>1 DEF Labelled
<1>5. k \in D /\ k \in ToSet(order) => q = old
  BY <1>1, IndexedFacts DEF ContextIndexed, Assigned
<1>6. Unindex(index, old, k)[q] = Matching(order, A \ {k})
  BY ONLY <1>2, <1>3, <1>4, q \in Correlations, UnindexMatches
<1>7. Unindex(delegates, old, k)[q] = Matching(order, D \ {k})
  BY ONLY <1>2, <1>3, <1>5, q \in Correlations, UnindexMatches
<1>8. Unindex(index, old, k) \in IndexType /\ Unindex(delegates, old, k) \in IndexType
  BY <1>2, UnindexType
<1>9. RemoveFirst(c.delegates, k) = Matching(order, DelegateKeys \ {k})
  <2>1. c.delegates = Matching(order, DelegateKeys)
    BY <1>1 DEF ContextIndexed
  <2> QED BY <1>2, <2>1, RemoveFromMatch
<1> QED BY <1>1, <1>6, <1>7, <1>8, <1>9 DEF IndexesWithout

LEMMA EvictIndexed ==
  ASSUME NEW c, ContextTyped(c), ContextIndexed(c), c.order # <<>>
  PROVE  ContextIndexed(EvictOldest(c))
<1>1. PICK r, k, old : r = EvictOldest(c) /\ k = Head(c.order) /\ old = c.correlation_of[k]
  OBVIOUS
<1>2. /\ r.order = Tail(c.order)
      /\ r.correlation_of = [c.correlation_of EXCEPT ![k] = None]
      /\ r.by_correlation = Unindex(c.by_correlation, old, k)
      /\ r.delegates = IF k \in DelegateKeys THEN RemoveFirst(c.delegates, k)
                       ELSE c.delegates
      /\ r.delegates_by_correlation =
             IF k \in DelegateKeys THEN Unindex(c.delegates_by_correlation, old, k)
             ELSE c.delegates_by_correlation
  BY <1>1 DEF EvictOldest
<1>3. /\ Lists(r) /\ k \in DOMAIN c.entries /\ k \in Keys
      /\ DOMAIN r.entries = DOMAIN c.entries \ {k}
  BY <1>1, ContextTypes, EvictLists DEF ContextIndexed
<1>4. /\ c.order \in Seq(Keys) /\ Distinct(c.order)
      /\ c.correlation_of \in [Keys -> Correlations \cup {None}]
  BY <1>3, IndexedFacts
<1>4a. ASSUME NEW q \in Correlations
      PROVE  /\ Unindex(c.by_correlation, old, k)[q] = Matching(c.order, Labelled(c, q) \ {k})
             /\ Unindex(c.delegates_by_correlation, old, k)[q] = Matching(c.order, Assigned(q) \ {k})
             /\ Unindex(c.by_correlation, old, k) \in IndexType
             /\ Unindex(c.delegates_by_correlation, old, k) \in IndexType
             /\ RemoveFirst(c.delegates, k) = Matching(c.order, DelegateKeys \ {k})
  <2>1. IndexesWithout(c, k, q, c.correlation_of[k])
    BY <1>3, WithoutKey
  <2> QED BY <1>1, <2>1 DEF IndexesWithout
<1>5. \A B : Matching(r.order, B) = Matching(c.order, B \ {k})
  BY <1>1, <1>2, <1>4, TailMatch
<1>6. r.delegates = Matching(r.order, DelegateKeys)
  <2>1. CASE k \in DelegateKeys
    <3>1. ASSUME NEW q \in Correlations PROVE r.delegates = Matching(r.order, DelegateKeys)
      BY <1>2, <1>4a, <1>5, <2>1
    <3>2. c.correlation_of[k] \in Correlations
      BY <1>3, <1>4, <2>1 DEF ContextIndexed
    <3> QED BY <3>1, <3>2
  <2>2. CASE k \notin DelegateKeys
    <3>1. DelegateKeys \ {k} = DelegateKeys /\ c.delegates = Matching(c.order, DelegateKeys)
      BY <2>2 DEF ContextIndexed
    <3> QED BY <1>2, <1>5, <2>2, <3>1
  <2> QED BY <2>1, <2>2
<1>7. ASSUME NEW q \in Correlations PROVE r.by_correlation[q] = Matching(r.order, Labelled(r, q))
  <2>1. r.by_correlation[q] = Matching(c.order, Labelled(c, q) \ {k})
    BY <1>2, <1>4a
  <2>2. Labelled(r, q) \ {k} = Labelled(c, q) \ {k}
    BY <1>2, <1>4 DEF Labelled
  <2> QED BY <1>5, <2>1, <2>2
<1>8. ASSUME NEW q \in Correlations
      PROVE  r.delegates_by_correlation[q] = Matching(r.order, Assigned(q))
  <2>1. CASE k \in DelegateKeys
    BY <1>2, <1>4a, <1>5, <2>1
  <2>2. CASE k \notin DelegateKeys
    <3>1. /\ Assigned(q) \ {k} = Assigned(q)
          /\ c.delegates_by_correlation[q] = Matching(c.order, Assigned(q))
      BY <2>2 DEF Assigned, ContextIndexed
    <3> QED BY <1>2, <1>5, <2>2, <3>1
  <2> QED BY <2>1, <2>2
<1>9. \A x \in Keys \ DOMAIN r.entries : r.correlation_of[x] = None
  BY <1>2, <1>3, <1>4 DEF ContextIndexed
<1>10. \A x \in DelegateKeys \cap DOMAIN r.entries :
          r.correlation_of[x] = KeyCorrelation[x] /\ KeyCorrelation[x] # None
  <2>1. DelegateKeys \subseteq Keys
    BY DEF Keys
  <2> QED BY <1>2, <1>3, <1>4, <2>1 DEF ContextIndexed
<1> QED BY <1>1, <1>3, <1>6, <1>7, <1>8, <1>9, <1>10 DEF ContextIndexed

LEMMA WriteIndexed ==
  ASSUME NEW c, ContextTyped(c), ContextIndexed(c), NEW e \in EnvelopeType,
         NEW k \in Keys, k = e.key,
         k \in DelegateKeys => KeyCorrelation[k] # None /\ KeyCorrelation[k] = Corr(e)
  PROVE  ContextIndexed(WriteEntry(c, e))
<1>1. PICK r, old, new, order, rest :
         /\ r = WriteEntry(c, e) /\ old = c.correlation_of[k] /\ new = Corr(e)
         /\ order = c.order
         /\ rest = IF k \in ToSet(order) THEN RemoveFirst(order, k) ELSE order
  OBVIOUS
<1>2. /\ r.order = Append(IF k \in DOMAIN c.entries THEN RemoveFirst(c.order, k)
                          ELSE c.order, k)
      /\ r.correlation_of = [c.correlation_of EXCEPT ![k] = new]
      /\ r.by_correlation = Index(Unindex(c.by_correlation, old, k), new, k)
      /\ r.delegates = IF k \in DelegateKeys THEN Append(RemoveFirst(c.delegates, k), k)
                       ELSE c.delegates
      /\ r.delegates_by_correlation =
             IF k \in DelegateKeys
             THEN Index(Unindex(c.delegates_by_correlation, old, k), new, k)
             ELSE c.delegates_by_correlation
  BY <1>1 DEF WriteEntry
<1>3. Lists(r) /\ DOMAIN r.entries = DOMAIN c.entries \cup {k}
  BY <1>1, WriteLists DEF ContextIndexed
<1>4. /\ order \in Seq(Keys) /\ Distinct(order) /\ r.order = Append(rest, k)
      /\ c.correlation_of \in [Keys -> Correlations \cup {None}]
      /\ new \in Correlations \cup {None}
  BY <1>1, <1>2, CorrType, IndexedFacts
<1>4a. ASSUME NEW q \in Correlations
      PROVE  /\ Unindex(c.by_correlation, old, k)[q] = Matching(c.order, Labelled(c, q) \ {k})
             /\ Unindex(c.delegates_by_correlation, old, k)[q] = Matching(c.order, Assigned(q) \ {k})
             /\ Unindex(c.by_correlation, old, k) \in IndexType
             /\ Unindex(c.delegates_by_correlation, old, k) \in IndexType
             /\ RemoveFirst(c.delegates, k) = Matching(c.order, DelegateKeys \ {k})
  <2>1. IndexesWithout(c, k, q, c.correlation_of[k])
    BY WithoutKey
  <2> QED BY <1>1, <2>1 DEF IndexesWithout
<1>5. ASSUME NEW B
      PROVE  Matching(r.order, B) = IF k \in B THEN Append(Matching(c.order, B \ {k}), k)
                                    ELSE Matching(c.order, B \ {k})
  <2>1. rest \in Seq(Keys) /\ Matching(rest, B) = Matching(order, B \ {k})
    <3>1. /\ order \in Seq(Keys) /\ Distinct(order) /\ k \in Keys
          /\ k \in ToSet(order) => rest = RemoveFirst(order, k)
          /\ k \notin ToSet(order) => rest = order
      BY <1>1, <1>4
    <3> QED BY ONLY <3>1, k \in Keys, RestMatch
  <2>2. Matching(Append(rest, k), B) = IF k \in B THEN Append(Matching(rest, B), k)
                                       ELSE Matching(rest, B)
    BY ONLY <2>1, k \in Keys, MatchingAppend, ZenonT(40)
  <2> QED BY <1>1, <1>4, <2>1, <2>2
<1>6. r.delegates = Matching(r.order, DelegateKeys)
  <2>1. CASE k \in DelegateKeys
    <3>1. new \in Correlations
      BY <1>1, <1>4, <2>1
    <3>2. RemoveFirst(c.delegates, k) = Matching(c.order, DelegateKeys \ {k})
      BY <1>1, <1>4a, <3>1
    <3> QED BY <1>2, <1>5, <2>1, <3>2
  <2>2. CASE k \notin DelegateKeys
    <3>1. DelegateKeys \ {k} = DelegateKeys /\ c.delegates = Matching(c.order, DelegateKeys)
      BY <2>2 DEF ContextIndexed
    <3> QED BY <1>2, <1>5, <2>2, <3>1
  <2> QED BY <2>1, <2>2
<1>7. ASSUME NEW q \in Correlations PROVE r.by_correlation[q] = Matching(r.order, Labelled(r, q))
  <2>1. PICK index, B : index = Unindex(c.by_correlation, old, k) /\ B = Labelled(r, q)
    OBVIOUS
  <2>2. index \in IndexType /\ index[q] = Matching(order, Labelled(c, q) \ {k})
    BY <1>1, <1>4a, <2>1
  <2>3. B \ {k} = Labelled(c, q) \ {k} /\ (k \in B <=> q = new)
    BY <1>2, <1>4, <2>1 DEF Labelled
  <2>4. index[q] = Matching(order, B \ {k})
    BY <2>2, <2>3
  <2>5. Index(index, new, k)[q] = Matching(Append(rest, k), B)
    <3>1. /\ order \in Seq(Keys) /\ Distinct(order) /\ k \in Keys
          /\ k \in ToSet(order) => rest = RemoveFirst(order, k)
          /\ k \notin ToSet(order) => rest = order
          /\ new \in Correlations \cup {None} /\ index \in IndexType
      BY <1>1, <1>4, <2>2
    <3> QED BY ONLY <2>3, <2>4, <3>1, q \in Correlations, IndexAgain
  <2> QED BY <1>2, <1>4, <2>1, <2>5
<1>8. ASSUME NEW q \in Correlations
      PROVE  r.delegates_by_correlation[q] = Matching(r.order, Assigned(q))
  <2>1. CASE k \in DelegateKeys
    <3>1. PICK index, B : index = Unindex(c.delegates_by_correlation, old, k) /\ B = Assigned(q)
      OBVIOUS
    <3>2. index \in IndexType /\ index[q] = Matching(order, B \ {k})
      BY <1>1, <1>4a, <3>1
    <3>3. k \in B <=> q = new
      BY <1>1, <2>1, <3>1 DEF Assigned
    <3>4. Index(index, new, k)[q] = Matching(Append(rest, k), B)
      <4>1. /\ order \in Seq(Keys) /\ Distinct(order) /\ k \in Keys
            /\ k \in ToSet(order) => rest = RemoveFirst(order, k)
            /\ k \notin ToSet(order) => rest = order
            /\ new \in Correlations \cup {None}
        BY <1>1, <1>4
      <4> QED BY ONLY <3>2, <3>3, <4>1, q \in Correlations, IndexAgain
    <3> QED BY <1>2, <1>4, <2>1, <3>1, <3>4
  <2>2. CASE k \notin DelegateKeys
    <3>1. /\ k \notin Assigned(q) /\ Assigned(q) \ {k} = Assigned(q)
          /\ c.delegates_by_correlation[q] = Matching(c.order, Assigned(q))
      BY <2>2 DEF Assigned, ContextIndexed
    <3> QED BY <1>2, <1>5, <2>2, <3>1
  <2> QED BY <2>1, <2>2
<1>9. \A x \in Keys \ DOMAIN r.entries : r.correlation_of[x] = None
  BY <1>2, <1>3, <1>4 DEF ContextIndexed
<1>10. \A x \in DelegateKeys \cap DOMAIN r.entries :
          r.correlation_of[x] = KeyCorrelation[x] /\ KeyCorrelation[x] # None
  <2>1. DelegateKeys \subseteq Keys
    BY DEF Keys
  <2> QED BY <1>1, <1>2, <1>3, <1>4, <2>1 DEF ContextIndexed
<1> QED BY <1>1, <1>3, <1>6, <1>7, <1>8, <1>9, <1>10 DEF ContextIndexed

LEMMA SequencedIndexed ==
  ASSUME TypeOK, ContextIndexed(ctx), NEW e \in Envelopes, Sequenced(e)
  PROVE  ContextIndexed(ctx')
<1>1. CASE e.payload # "ContextPatch"
  <2>1. ctx' = ctx
    BY <1>1 DEF Sequenced
  <2> QED BY <2>1
<1>2. CASE e.payload = "ContextPatch"
  <2>1. e \in EnvelopeType /\ e.key # None
    BY <1>2, BusAssumption
  <2>2. PICK k \in Keys : k = e.key
    BY <2>1 DEF EnvelopeType
  <2>3. ctx' = ApplyPatch(ctx, e) /\ ContextTyped(ctx) /\ PatchApplies(ctx, e)
    BY <1>2 DEF Sequenced, TypeOK
  <2>4. k \in DelegateKeys => KeyCorrelation[k] # None /\ KeyCorrelation[k] = Corr(e)
    BY <2>2, <2>3 DEF PatchApplies
  <2>5. PICK c : /\ c = IF NeedsEviction(ctx, k) THEN EvictOldest(ctx) ELSE ctx
                 /\ ctx' = WriteEntry(c, e)
    BY <2>2, <2>3 DEF ApplyPatch
  <2>6. ContextTyped(c) /\ ContextIndexed(c)
    <3>1. CASE NeedsEviction(ctx, k)
      <4>1. ctx.order # <<>>
        BY <3>1 DEF NeedsEviction
      <4> QED BY <2>3, <2>5, <3>1, <4>1, EvictOldestType, EvictIndexed
    <3>2. CASE ~NeedsEviction(ctx, k)
      BY <2>3, <2>5, <3>2
    <3> QED BY <3>1, <3>2
  <2>7. ContextIndexed(WriteEntry(c, e))
    BY ONLY <2>1, <2>2, <2>4, <2>6, WriteIndexed
  <2> QED BY <2>5, <2>7
<1> QED BY <1>1, <1>2

-----------------------------------------------------------------------------
(* The index of the dead letters *)

LettersOf(q) == {m \in DeadLetterType : Corr(m.envelope) = q}
EntriesOf(q) == {m \in EntryType : Corr(m.envelope) = q}

\* The index lists, for each correlation, its letters in the order they are kept.
DeadIndexed(d) ==
  \A q \in Correlations : d.by_correlation[q] = Matching(d.letters, LettersOf(q))

LEMMA BuryIndexed ==
  ASSUME NEW d \in DeadType, DeadIndexed(d), NEW e \in EnvelopeType, NEW reason \in Reasons
  PROVE  DeadIndexed(Bury(d, e, reason))
<1>1. PICK letters, index, full, oldest, letter, kept, left :
         /\ letters = d.letters /\ index = d.by_correlation
         /\ full = (Len(letters) >= max_dead_letters)
         /\ oldest = Corr(Head(letters).envelope)
         /\ letter = [envelope |-> e, reason |-> reason]
         /\ kept = IF full THEN Tail(letters) ELSE letters
         /\ left = IF full /\ oldest # None /\ index[oldest] # <<>>
                   THEN [index EXCEPT ![oldest] = Tail(@)] ELSE index
  OBVIOUS
<1>2. /\ letters \in Seq(DeadLetterType) /\ index \in [Correlations -> Seq(DeadLetterType)]
      /\ letter \in DeadLetterType /\ letter.envelope = e
      /\ \A q \in Correlations : index[q] = Matching(letters, LettersOf(q)) /\ q # None
  BY <1>1, BusAssumption DEF DeadType, DeadLetterType, DeadIndexed
<1>3. /\ Bury(d, e, reason).letters = Append(kept, letter)
      /\ Bury(d, e, reason).by_correlation
             = IF Corr(e) = None THEN left ELSE [left EXCEPT ![Corr(e)] = Append(@, letter)]
  BY <1>1 DEF Bury
<1>4. /\ kept \in Seq(DeadLetterType) /\ left \in [Correlations -> Seq(DeadLetterType)]
      /\ \A q \in Correlations : left[q] = Matching(kept, LettersOf(q))
  <2>1. CASE ~full
    BY <1>1, <1>2, <2>1
  <2>2. CASE full
    <3>1. letters # <<>>
      <4>1. Len(letters) >= max_dead_letters
        BY <1>1, <2>2, Zenon
      <4> QED BY <1>2, <4>1, LimitsPositive
    <3>2. kept = Tail(letters) /\ kept \in Seq(DeadLetterType) /\ Head(letters) \in DeadLetterType
      BY <1>1, <1>2, <2>2, <3>1
    <3>3. \A q \in Correlations : Head(letters) \in LettersOf(q) <=> q = oldest
      BY <1>1, <3>2 DEF LettersOf
    <3>4. ASSUME NEW q \in Correlations
          PROVE  IF q = oldest THEN index[q] # <<>> /\ Matching(kept, LettersOf(q)) = Tail(index[q])
                 ELSE Matching(kept, LettersOf(q)) = index[q]
      <4>1. IF Head(letters) \in LettersOf(q)
            THEN /\ Matching(letters, LettersOf(q)) # <<>>
                 /\ Head(Matching(letters, LettersOf(q))) = Head(letters)
                 /\ Matching(Tail(letters), LettersOf(q)) = Tail(Matching(letters, LettersOf(q)))
            ELSE Matching(Tail(letters), LettersOf(q)) = Matching(letters, LettersOf(q))
        BY <1>2, <3>1, MatchingTail
      <4> QED BY <1>2, <3>2, <3>3, <4>1
    <3>5. CASE oldest \in Correlations
      <4>1. left = [index EXCEPT ![oldest] = Tail(@)] /\ Tail(index[oldest]) \in Seq(DeadLetterType)
        BY <1>1, <1>2, <2>2, <3>4, <3>5
      <4> QED BY <1>2, <3>2, <3>4, <3>5, <4>1
    <3>6. CASE oldest \notin Correlations
      <4>1. oldest = None
        BY <1>1, <3>2, <3>6, CorrType DEF DeadLetterType
      <4>2. left = index
        BY <1>1, <4>1
      <4> QED BY <1>2, <3>2, <3>4, <3>6, <4>2
    <3> QED BY <3>5, <3>6
  <2> QED BY <2>1, <2>2
<1>5. Corr(e) \in Correlations \cup {None}
  BY CorrType
<1>6. ASSUME NEW q \in Correlations
      PROVE  Bury(d, e, reason).by_correlation[q]
                = Matching(Bury(d, e, reason).letters, LettersOf(q))
  <2>1. Matching(Append(kept, letter), LettersOf(q))
           = IF letter \in LettersOf(q) THEN Append(Matching(kept, LettersOf(q)), letter)
             ELSE Matching(kept, LettersOf(q))
    BY ONLY <1>2, <1>4, MatchingAppend
  <2>2. letter \in LettersOf(q) <=> q = Corr(e)
    BY <1>2 DEF LettersOf
  <2>3. Bury(d, e, reason).by_correlation[q] = IF q = Corr(e) THEN Append(left[q], letter) ELSE left[q]
    BY <1>2, <1>3, <1>4, <1>5
  <2> QED BY <1>3, <1>4, <2>1, <2>2, <2>3
<1> QED BY <1>6 DEF DeadIndexed

-----------------------------------------------------------------------------
(* The counters of the inboxes *)

\* The counters agree with the queue.
Counted(counts, queue) ==
  \A q \in Correlations : counts[q] = Len(Matching(queue, EntriesOf(q)))

LEMMA Decremented ==
  ASSUME NEW counts \in CountsType, NEW queue \in Seq(EntryType), queue # <<>>,
         Counted(counts, queue)
  PROVE  Counted(Decrement(counts, Head(queue).envelope), Tail(queue))
<1>1. PICK e : e = Head(queue).envelope
  OBVIOUS
<1>2. Head(queue) \in EntryType /\ Tail(queue) \in Seq(EntryType)
  OBVIOUS
<1>3. e \in EnvelopeType /\ Corr(e) \in Correlations \cup {None}
  BY <1>1, <1>2, CorrType DEF EntryType
<1>4. ASSUME NEW q \in Correlations
      PROVE  Decrement(counts, e)[q] = Len(Matching(Tail(queue), EntriesOf(q)))
  <2>1. PICK m, n : m = Matching(queue, EntriesOf(q)) /\ n = Matching(Tail(queue), EntriesOf(q))
    OBVIOUS
  <2>2. m \in Seq(EntryType) /\ n \in Seq(EntryType)
    BY <1>2, <2>1, MatchingType
  <2>3. IF Head(queue) \in EntriesOf(q) THEN m # <<>> /\ n = Tail(m) ELSE n = m
    <3>1. IF Head(queue) \in EntriesOf(q)
          THEN /\ Matching(queue, EntriesOf(q)) # <<>>
               /\ Head(Matching(queue, EntriesOf(q))) = Head(queue)
               /\ Matching(Tail(queue), EntriesOf(q)) = Tail(Matching(queue, EntriesOf(q)))
          ELSE Matching(Tail(queue), EntriesOf(q)) = Matching(queue, EntriesOf(q))
      BY MatchingTail
    <3> QED BY <2>1, <3>1
  <2>4. Head(queue) \in EntriesOf(q) <=> q = Corr(e)
    BY <1>1, <1>2 DEF EntriesOf
  <2>5. counts[q] = Len(m) /\ q # None
    BY <2>1, BusAssumption DEF Counted
  <2>6. CASE q = Corr(e)
    <3>1. m # <<>> /\ Len(n) = Len(m) - 1 /\ Len(m) \in Nat \ {0}
      BY <2>2, <2>3, <2>4, <2>6
    <3>2. Decrement(counts, e)[q] = IF counts[q] <= 1 THEN 0 ELSE counts[q] - 1
      BY <2>5, <2>6 DEF Decrement, CountsType
    <3> QED BY <2>1, <2>5, <3>1, <3>2
  <2>7. CASE q # Corr(e)
    <3>1. Decrement(counts, e)[q] = counts[q]
      BY <2>7 DEF Decrement, CountsType
    <3> QED BY <2>1, <2>3, <2>4, <2>5, <2>7, <3>1
  <2> QED BY <2>6, <2>7
<1> QED BY <1>1, <1>4 DEF Counted

LEMMA Incremented ==
  ASSUME NEW counts \in CountsType, NEW queue \in Seq(EntryType), NEW entry \in EntryType,
         Counted(counts, queue)
  PROVE  Counted(Increment(counts, entry.envelope), Append(queue, entry))
<1>1. PICK e : e = entry.envelope
  OBVIOUS
<1>2. e \in EnvelopeType /\ Corr(e) \in Correlations \cup {None}
  BY <1>1, CorrType DEF EntryType
<1>3. ASSUME NEW q \in Correlations
      PROVE  Increment(counts, e)[q] = Len(Matching(Append(queue, entry), EntriesOf(q)))
  <2>1. PICK m : m = Matching(queue, EntriesOf(q))
    OBVIOUS
  <2>2. m \in Seq(EntryType) /\ Len(Append(m, entry)) = Len(m) + 1
    BY <2>1, MatchingType
  <2>3. Matching(Append(queue, entry), EntriesOf(q))
           = IF entry \in EntriesOf(q) THEN Append(m, entry) ELSE m
    BY <2>1, MatchingAppend
  <2>4. entry \in EntriesOf(q) <=> q = Corr(e)
    BY <1>1 DEF EntriesOf
  <2>5. counts[q] = Len(m) /\ q # None
    BY <2>1, BusAssumption DEF Counted
  <2>6. CASE q = Corr(e)
    <3>1. Increment(counts, e)[q] = counts[q] + 1
      BY <2>5, <2>6 DEF Increment, CountsType
    <3> QED BY <2>2, <2>3, <2>4, <2>5, <2>6, <3>1
  <2>7. CASE q # Corr(e)
    <3>1. Increment(counts, e)[q] = counts[q]
      BY <2>7 DEF Increment, CountsType
    <3> QED BY <2>3, <2>4, <2>5, <2>7, <3>1
  <2> QED BY <2>6, <2>7
<1> QED BY <1>1, <1>3 DEF Counted

LEMMA PushCounted ==
  ASSUME TypeOK, NEW a \in DOMAIN inboxes, NEW entry \in EntryType,
         Counted(correlation_counts[a], inboxes[a])
  PROVE  Counted(PushCounts(a, entry), PushInbox(a, entry))
<1>1. PICK queue, counts : queue = inboxes[a] /\ counts = correlation_counts[a]
  OBVIOUS
<1>2. queue \in Seq(EntryType) /\ counts \in CountsType
  BY <1>1 DEF TypeOK
<1>3. CASE Occupied(a)
  <2>1. PICK rest, fewer : rest = Tail(queue) /\ fewer = Decrement(counts, Head(queue).envelope)
    OBVIOUS
  <2>2. queue # <<>> /\ rest \in Seq(EntryType) /\ fewer \in CountsType
    BY <1>1, <1>2, <1>3, <2>1, InboxHead, CountsType1
  <2>3. Counted(fewer, rest)
    BY <1>1, <1>2, <2>1, <2>2, Decremented
  <2>4. PushInbox(a, entry) = Append(rest, entry)
        /\ PushCounts(a, entry) = Increment(fewer, entry.envelope)
    BY <1>1, <1>3, <2>1 DEF PushInbox, PushCounts
  <2> QED BY <2>2, <2>3, <2>4, Incremented
<1>4. CASE ~Occupied(a)
  <2>1. PushInbox(a, entry) = Append(queue, entry)
        /\ PushCounts(a, entry) = Increment(counts, entry.envelope)
    BY <1>1, <1>4 DEF PushInbox, PushCounts
  <2> QED BY <1>1, <1>2, <2>1, Incremented
<1> QED BY <1>3, <1>4

LEMMA DrainCounted ==
  ASSUME TypeOK, NEW a \in DOMAIN inboxes, NEW n \in 0..Len(inboxes[a]),
         Counted(correlation_counts[a], inboxes[a])
  PROVE  Counted(DrainCounts(a, n), SubSeq(inboxes[a], n + 1, Len(inboxes[a])))
<1>1. PICK queue, counts, size :
         queue = inboxes[a] /\ counts = correlation_counts[a] /\ size = Len(queue)
  OBVIOUS
<1>2. queue \in Seq(EntryType) /\ counts \in CountsType /\ size \in Nat /\ n \in 0..size
  BY <1>1 DEF TypeOK
<1>3. PICK left : /\ left[0] = counts /\ DrainCounts(a, n) = left[n]
                  /\ \A i \in 0..n : left[i] \in CountsType
                  /\ \A i \in 0..(n - 1) : left[i + 1] = Decrement(left[i], queue[i + 1].envelope)
  <2>1. inboxes[a] \in Seq(EntryType) /\ correlation_counts[a] \in CountsType
        /\ n \in 0..Len(inboxes[a])
    BY <1>1, <1>2
  <2>2. \E left : /\ left[0] = correlation_counts[a] /\ DrainCounts(a, n) = left[n]
                  /\ \A i \in 0..n : left[i] \in CountsType
                  /\ \A i \in 0..(n - 1) :
                        left[i + 1] = Decrement(left[i], inboxes[a][i + 1].envelope)
    BY ONLY <2>1, DrainUnfolds
  <2> QED BY <1>1, <2>2
<1> DEFINE T == {i \in Nat : i <= n => Counted(left[i], SubSeq(queue, i + 1, size))}
<1>4. 0 \in T
  <2>1. SubSeq(queue, 1, size) = queue
    BY <1>1, <1>2
  <2>2. Counted(left[0], SubSeq(queue, 1, size))
    BY <1>1, <1>3, <2>1
  <2>3. 0 + 1 = 1
    OBVIOUS
  <2> QED BY <2>2, <2>3
<1>5. ASSUME NEW i \in Nat, i \in T PROVE i + 1 \in T
  <2> SUFFICES ASSUME i + 1 <= n PROVE Counted(left[i + 1], SubSeq(queue, (i + 1) + 1, size))
    OBVIOUS
  <2>1. PICK rest : rest = SubSeq(queue, i + 1, size)
    OBVIOUS
  <2>2. /\ i \in 0..n /\ i \in 0..(n - 1) /\ i + 1 \in 1..size /\ i + 1 <= size
        /\ left[i] \in CountsType /\ left[i + 1] = Decrement(left[i], queue[i + 1].envelope)
        /\ Counted(left[i], rest)
    BY <1>2, <1>3, <1>5, <2>1
  <2>3. /\ rest \in Seq(EntryType) /\ rest # <<>> /\ Head(rest) = queue[i + 1]
        /\ Tail(rest) = SubSeq(queue, (i + 1) + 1, size)
    <3>1. queue \in Seq(EntryType) /\ i + 1 \in 1..Len(queue) /\ size \in (i + 1)..Len(queue)
      BY <1>1, <1>2, <2>2
    <3>2. /\ Head(SubSeq(queue, i + 1, size)) = queue[i + 1]
          /\ Tail(SubSeq(queue, i + 1, size)) = SubSeq(queue, (i + 1) + 1, size)
      BY ONLY <3>1, HeadTailOfSubSeq
    <3>3. rest \in Seq(EntryType) /\ Len(rest) = size - i
      BY <1>2, <2>1, <2>2, <3>1
    <3>4. rest # <<>>
      BY <1>2, <2>2, <3>3
    <3> QED BY <2>1, <3>2, <3>3, <3>4
  <2>4. Counted(Decrement(left[i], Head(rest).envelope), Tail(rest))
    BY ONLY <2>2, <2>3, Decremented
  <2> QED BY <2>2, <2>3, <2>4
<1> HIDE DEF T
<1>6. \A i \in Nat : i \in T
  BY <1>4, <1>5, SetInduction
<1> QED BY <1>1, <1>2, <1>3, <1>6 DEF T

-----------------------------------------------------------------------------
(* Every index and counter, at every step *)

\* Inductive: what the queries answer from agrees with what they stand for.
QueryInv ==
  /\ TypeOK
  /\ \A a \in DOMAIN inboxes : Counted(correlation_counts[a], inboxes[a])
  /\ ContextIndexed(ctx)
  /\ DeadIndexed(dead)

LEMMA EmptyCounted == Counted([c \in Correlations |-> 0], <<>>)
<1>1. ASSUME NEW q \in Correlations PROVE Len(Matching(<<>>, EntriesOf(q))) = 0
  BY MatchingEmpty
<1> QED BY <1>1 DEF Counted

LEMMA InitQueries == Init => QueryInv
<1> SUFFICES ASSUME Init PROVE QueryInv
  OBVIOUS
<1>1. TypeOK /\ DOMAIN inboxes = {}
  BY InitTypeOK DEF Init
<1>2. ctx = EmptyContext /\ dead = NoDeadLetters
  BY DEF Init
<1>3. DeadIndexed(dead)
  BY <1>2, MatchingEmpty DEF DeadIndexed, NoDeadLetters
<1>4. /\ ctx.order = <<>> /\ ctx.entries = <<>> /\ ctx.delegates = <<>>
      /\ ctx.by_correlation = [c \in Correlations |-> <<>>]
      /\ ctx.delegates_by_correlation = [c \in Correlations |-> <<>>]
      /\ ctx.correlation_of = [k \in Keys |-> None]
  BY <1>2 DEF EmptyContext
<1>5. Lists(ctx) /\ DOMAIN ctx.entries = {}
  BY <1>4 DEF Lists, Distinct, ToSet
<1>6. ContextIndexed(ctx)
  <2>1. \A S : Matching(ctx.order, S) = <<>>
    BY <1>4, MatchingEmpty
  <2> QED BY <1>4, <1>5, <2>1 DEF ContextIndexed
<1> QED BY <1>1, <1>3, <1>6 DEF QueryInv

LEMMA DeliverQueries ==
  ASSUME QueryInv, TypeOK', NEW e \in Envelopes, Sequenced(e),
         NEW targets \in SUBSET DOMAIN inboxes, Deliver(e, targets)
  PROVE  QueryInv'
<1>1. TypeOK /\ ContextIndexed(ctx)
  BY DEF QueryInv
<1>2. PICK entry : entry = [sequence |-> next_sequence + 1, envelope |-> e]
  OBVIOUS
<1>3. /\ entry \in EntryType
      /\ inboxes' = [a \in DOMAIN inboxes |->
                       IF a \in targets THEN PushInbox(a, entry) ELSE inboxes[a]]
      /\ correlation_counts' =
             [a \in DOMAIN inboxes |->
                 IF a \in targets THEN PushCounts(a, entry) ELSE correlation_counts[a]]
  BY <1>1, <1>2, BusAssumption DEF TypeOK, EntryType, Deliver
<1>4. ASSUME NEW a \in DOMAIN inboxes' PROVE Counted(correlation_counts'[a], inboxes'[a])
  <2>1. a \in DOMAIN inboxes /\ Counted(correlation_counts[a], inboxes[a])
    BY <1>3 DEF QueryInv
  <2>2. CASE a \in targets
    <3>1. Counted(PushCounts(a, entry), PushInbox(a, entry))
      BY <1>1, <1>3, <2>1, PushCounted
    <3> QED BY <1>3, <2>1, <2>2, <3>1
  <2>3. CASE a \notin targets
    BY <1>3, <2>1, <2>3
  <2> QED BY <2>2, <2>3
<1>5. DeadIndexed(dead')
  <2> DEFINE S == {d \in DeadType : DeadIndexed(d)}
  <2>1. dead \in S
    BY <1>1 DEF QueryInv, TypeOK
  <2>2. \A d \in S, m \in EnvelopeType : Bury(d, m, "overflow") \in S
    BY BuryType, BuryIndexed DEF Reasons
  <2> HIDE DEF S
  <2>3. dead' \in S
    BY <1>1, <2>1, <2>2, Overflowed
  <2> QED BY <2>3 DEF S
<1>6. ContextIndexed(ctx')
  BY <1>1, SequencedIndexed
<1> QED BY <1>4, <1>5, <1>6 DEF QueryInv, ContextIndexed, DeadIndexed, Lists, Labelled

\* Steps that leave the inboxes alone.
LEMMA OtherQueries ==
  ASSUME QueryInv, TypeOK', UNCHANGED <<inboxes, correlation_counts>>,
         ContextIndexed(ctx'), DeadIndexed(dead')
  PROVE  QueryInv'
<1>1. ContextIndexed(ctx)' /\ DeadIndexed(dead)'
  BY DEF ContextIndexed, DeadIndexed, Lists, Labelled
<1>2. (\A a \in DOMAIN inboxes : Counted(correlation_counts[a], inboxes[a]))'
  BY DEF QueryInv, Counted
<1> QED BY <1>1, <1>2 DEF QueryInv

LEMMA NextQueries == QueryInv /\ [Next]_vars => QueryInv'
<1> SUFFICES ASSUME QueryInv, [Next]_vars PROVE QueryInv'
  OBVIOUS
<1>1. TypeOK /\ TypeOK' /\ ContextIndexed(ctx) /\ DeadIndexed(dead) /\ dead \in DeadType
  BY NextTypeOK DEF QueryInv, TypeOK
<1>2. ASSUME UNCHANGED <<ctx, dead>>,
             \A a \in DOMAIN inboxes' : Counted(correlation_counts'[a], inboxes'[a])
      PROVE  QueryInv'
  BY <1>1, <1>2 DEF QueryInv, ContextIndexed, DeadIndexed, Lists, Labelled
<1>3. ASSUME NEW e \in Envelopes, NEW reason \in Reasons, dead' = Bury(dead, e, reason)
      PROVE  DeadIndexed(dead')
  BY <1>1, <1>3, BusAssumption, BuryIndexed
<1>4. ASSUME NEW a \in Agents, RegisterAgent(a) PROVE QueryInv'
  <2>1. /\ DOMAIN inboxes' = DOMAIN inboxes \cup {a}
        /\ \A x \in DOMAIN inboxes : /\ inboxes'[x] = inboxes[x]
                                     /\ correlation_counts'[x] = correlation_counts[x]
        /\ a \notin DOMAIN inboxes => /\ inboxes'[a] = <<>>
                                      /\ correlation_counts'[a] = [c \in Correlations |-> 0]
        /\ UNCHANGED <<ctx, dead>>
    BY <1>4 DEF RegisterAgent
  <2>2. \A x \in DOMAIN inboxes' : Counted(correlation_counts'[x], inboxes'[x])
    BY <2>1, EmptyCounted DEF QueryInv
  <2> QED BY <1>2, <2>1, <2>2
<1>5. ASSUME NEW a \in Agents, UnregisterAgent(a) PROVE QueryInv'
  <2>1. /\ DOMAIN inboxes' = DOMAIN inboxes \ {a}
        /\ \A x \in DOMAIN inboxes' : inboxes'[x] = inboxes[x]
        /\ UNCHANGED <<ctx, dead>>
    BY <1>5 DEF UnregisterAgent, Restrict
  <2>2. DOMAIN correlation_counts = DOMAIN inboxes
    BY <1>1 DEF TypeOK
  <2>3. \A x \in DOMAIN inboxes' : correlation_counts'[x] = correlation_counts[x]
    BY <1>5, <2>1, <2>2 DEF UnregisterAgent, Restrict
  <2>4. \A x \in DOMAIN inboxes' : Counted(correlation_counts'[x], inboxes'[x])
    BY <2>1, <2>3 DEF QueryInv
  <2> QED BY <1>2, <2>1, <2>4
<1>6. ASSUME NEW a \in Agents, NEW max \in 0..max_inbox_messages_per_agent,
             DrainForAgent(a, max)
      PROVE  QueryInv'
  <2>1. PICK pending, n : /\ pending = Len(inboxes[a])
                          /\ n = IF max = 0 \/ max > pending THEN pending ELSE max
    OBVIOUS
  <2>2. /\ a \in DOMAIN inboxes
        /\ inboxes' = [inboxes EXCEPT ![a] = SubSeq(@, n + 1, pending)]
        /\ correlation_counts' = [correlation_counts EXCEPT ![a] = DrainCounts(a, n)]
        /\ UNCHANGED <<ctx, dead>>
    BY <1>6, <2>1 DEF DrainForAgent
  <2>3. DOMAIN correlation_counts = DOMAIN inboxes /\ inboxes[a] \in Seq(EntryType)
    BY <1>1, <2>2 DEF TypeOK
  <2>4. n \in 0..Len(inboxes[a])
    BY <2>1, <2>3, LimitsPositive
  <2>5. Counted(DrainCounts(a, n), SubSeq(inboxes[a], n + 1, Len(inboxes[a])))
    BY <1>1, <2>2, <2>4, DrainCounted DEF QueryInv
  <2>6. ASSUME NEW x \in DOMAIN inboxes' PROVE Counted(correlation_counts'[x], inboxes'[x])
    <3>1. x \in DOMAIN inboxes /\ Counted(correlation_counts[x], inboxes[x])
      BY <2>2 DEF QueryInv
    <3>2. CASE x = a
      BY <2>1, <2>2, <2>3, <2>5, <3>2
    <3>3. CASE x # a
      <4>1. inboxes'[x] = inboxes[x] /\ correlation_counts'[x] = correlation_counts[x]
        BY <2>2, <2>3, <3>1, <3>3
      <4> QED BY <3>1, <4>1
    <3> QED BY <3>2, <3>3
  <2> QED BY <1>2, <2>2, <2>6
<1>7. ASSUME NEW e \in Envelopes, PublishInvalid(e) PROVE QueryInv'
  <2>1. /\ UNCHANGED <<inboxes, correlation_counts, ctx>>
        /\ dead' = Bury(dead, e, "invalid")
    BY <1>7 DEF PublishInvalid, mail
  <2> QED BY <1>1, <1>3, <2>1, OtherQueries DEF Reasons
<1>8. ASSUME NEW e \in Envelopes, PublishDuplicate(e) PROVE QueryInv'
  <2>1. /\ UNCHANGED <<inboxes, correlation_counts, ctx>>
        /\ dead' = Bury(dead, e, "duplicate")
    BY <1>8 DEF PublishDuplicate, mail
  <2> QED BY <1>1, <1>3, <2>1, OtherQueries DEF Reasons
<1>9. ASSUME NEW e \in Envelopes, PublishConflict(e) PROVE QueryInv'
  <2>1. /\ UNCHANGED <<inboxes, correlation_counts, ctx>>
        /\ dead' = Bury(dead, e, "conflict")
    BY <1>9 DEF PublishConflict, mail
  <2> QED BY <1>1, <1>3, <2>1, OtherQueries DEF Reasons
<1>10. ASSUME NEW e \in Envelopes, PublishUnknownTarget(e) PROVE QueryInv'
  <2>1. /\ UNCHANGED <<inboxes, correlation_counts>> /\ Sequenced(e)
        /\ dead' = Bury(dead, e, "unknown target")
    BY <1>10 DEF PublishUnknownTarget
  <2>2. ContextIndexed(ctx')
    BY <1>1, <2>1, SequencedIndexed
  <2> QED BY <1>1, <1>3, <2>1, <2>2, OtherQueries DEF Reasons
<1>11. ASSUME NEW e \in Envelopes, PublishDirect(e) PROVE QueryInv'
  BY <1>1, <1>11, DeliverQueries DEF PublishDirect
<1>12. ASSUME NEW e \in Envelopes, PublishBroadcast(e) PROVE QueryInv'
  BY <1>1, <1>12, DeliverQueries DEF PublishBroadcast
<1>13. CASE UNCHANGED vars
  BY <1>1, <1>13, OtherQueries DEF vars, mail
<1> QED
  BY <1>4, <1>5, <1>6, <1>7, <1>8, <1>9, <1>10, <1>11, <1>12, <1>13
  DEF Next, Publish

-----------------------------------------------------------------------------
(* Pages *)

\* A page that lies within s, or is empty.
LEMMA WindowIs ==
  ASSUME NEW U, NEW s \in Seq(U), NEW offset \in Nat, NEW size \in Nat,
         size # 0 => offset + size <= Len(s)
  PROVE  /\ SubSeq(s, offset + 1, offset + size) = [i \in 1..size |-> s[offset + i]]
         /\ SubSeq(s, offset + 1, offset + size) \in Seq(U)
<1>1. CASE size = 0
  <2>1. SubSeq(s, offset + 1, offset + size) = <<>>
    BY <1>1, SubSeqEmpty
  <2>2. [i \in 1..size |-> s[offset + i]] = <<>>
    BY <1>1
  <2> QED BY <2>1, <2>2
<1>2. CASE size # 0
  <2>1. PICK w : w = SubSeq(s, offset + 1, offset + size)
    OBVIOUS
  <2>2. /\ offset + 1 \in Int /\ offset + size \in Int /\ Len(s) \in Nat
        /\ \A i \in (offset + 1)..(offset + size) : i \in 1..Len(s)
    BY <1>2
  <2>3. \A i \in (offset + 1)..(offset + size) : s[i] \in U
    BY <2>2, ElementOfSeq
  <2>4. /\ w \in Seq(U) /\ Len(w) = size
        /\ \A i \in 1..size : w[i] = s[offset + i]
    BY <1>2, <2>1, <2>2, <2>3
  <2>5. w = [i \in 1..size |-> s[offset + i]]
    BY <2>4
  <2> QED BY <2>1, <2>4, <2>5
<1> QED BY <1>1, <1>2

LEMMA PageSize ==
  ASSUME NEW len \in Nat, NEW offset \in Nat, NEW max \in Nat
  PROVE  /\ AtMost(max, Beyond(len, offset)) \in Nat
         /\ AtMost(max, Beyond(len, offset)) # 0
               => offset + AtMost(max, Beyond(len, offset)) <= len
BY DEF AtMost, Beyond

NewestOf(s, offset, max) ==
  [i \in 1..AtMost(max, Beyond(Len(s), offset)) |-> s[Len(s) - offset - i + 1]]

LEMMA RecentPageIs ==
  ASSUME NEW U, NEW s \in Seq(U), NEW offset \in Nat, NEW max \in Nat
  PROVE  /\ RecentPage(s, offset, max) = NewestOf(s, offset, max)
         /\ RecentPage(s, offset, max) \in Seq(U)
         /\ ToSet(RecentPage(s, offset, max)) \subseteq ToSet(s)
<1>1. PICK r, n, size : /\ r = Reverse(s) /\ n = Len(s)
                        /\ size = AtMost(max, Beyond(n, offset))
  OBVIOUS
<1>2. /\ n \in Nat /\ size \in Nat /\ (size # 0 => offset + size <= n)
      /\ \A i \in 1..n : s[i] \in U
  <2>1. n \in Nat /\ \A i \in 1..n : s[i] \in U
    BY <1>1, ElementOfSeq
  <2>2. size \in Nat /\ (size # 0 => offset + size <= n)
    BY <1>1, <2>1, PageSize
  <2> QED BY <2>1, <2>2
<1>3. r = [i \in 1..n |-> s[(n - i) + 1]]
  BY <1>1 DEF Reverse
<1>4. r \in Seq(U) /\ Len(r) = n
  <2>1. \A i \in 1..n : (n - i) + 1 \in 1..n
    BY <1>2
  <2> QED BY <1>2, <1>3, <2>1
<1>5. PICK page : page = RecentPage(s, offset, max)
  OBVIOUS
<1>6. page = SubSeq(r, offset + 1, offset + size)
  BY <1>1, <1>4, <1>5 DEF RecentPage, Page
<1>7. page = [i \in 1..size |-> r[offset + i]] /\ page \in Seq(U)
  BY ONLY <1>2, <1>4, <1>6, offset \in Nat, WindowIs
<1>8. ASSUME NEW i \in 1..size
      PROVE  /\ r[offset + i] = s[n - offset - i + 1]
             /\ n - offset - i + 1 \in 1..n
  <2>1. offset + i \in 1..n /\ (n - (offset + i)) + 1 = n - offset - i + 1
        /\ n - offset - i + 1 \in 1..n
    BY <1>2
  <2> QED BY <1>3, <2>1
<1>9. page = [i \in 1..size |-> s[n - offset - i + 1]]
  BY <1>7, <1>8
<1>10. ToSet(page) \subseteq ToSet(s)
  <2>1. Len(page) = size
    BY <1>2, <1>7
  <2>2. ASSUME NEW x \in ToSet(page) PROVE x \in ToSet(s)
    <3>1. PICK i \in 1..size : x = page[i]
      <4>1. page \in Seq(U) /\ x \in ToSet(page)
        BY <1>7, <2>2
      <4> QED BY ONLY <2>1, <4>1, ToSetMember
    <3> QED BY <1>1, <1>8, <1>9, <3>1, ToSetMember
  <2> QED BY <2>2
<1>11. page = NewestOf(s, offset, max)
  BY <1>1, <1>9 DEF NewestOf
<1> QED BY <1>5, <1>7, <1>10, <1>11

\* A page of an index whose keys are all stored.
LEMMA StoredPage ==
  ASSUME NEW s \in Seq(Keys), ToSet(s) \subseteq DOMAIN ctx.entries,
         NEW offset \in Nat, NEW max \in Nat
  PROVE  PresentKeys(RecentPage(s, offset, max)) = NewestOf(s, offset, max)
<1>1. PICK page : page = RecentPage(s, offset, max)
  OBVIOUS
<1>2. page \in Seq(Keys) /\ ToSet(page) \subseteq DOMAIN ctx.entries
  BY <1>1, RecentPageIs
<1>3. Matching(page, DOMAIN ctx.entries) = page
  BY <1>2, MatchingAll
<1> QED BY <1>1, <1>3, RecentPageIs DEF PresentKeys

LEMMA InCorrelationIs ==
  ASSUME NEW q
  PROVE  /\ \A s \in Seq(EntryType) : InCorrelation(s, q) = Matching(s, EntriesOf(q))
         /\ \A s \in Seq(DeadLetterType) : InCorrelation(s, q) = Matching(s, LettersOf(q))
<1>1. ASSUME NEW s \in Seq(EntryType) PROVE InCorrelation(s, q) = Matching(s, EntriesOf(q))
  <2>1. \A x \in ToSet(s) : x \in EntryType
    BY ElementOfSeq, ToSetMember
  <2>2. \A x \in ToSet(s) :
           x \in {m \in ToSet(s) : Corr(m.envelope) = q} <=> x \in EntriesOf(q)
    BY <2>1 DEF EntriesOf
  <2>3. Matching(s, {m \in ToSet(s) : Corr(m.envelope) = q}) = Matching(s, EntriesOf(q))
    BY ONLY <2>2, s \in Seq(EntryType), MatchingSame
  <2> QED BY <2>3 DEF InCorrelation
<1>2. ASSUME NEW s \in Seq(DeadLetterType) PROVE InCorrelation(s, q) = Matching(s, LettersOf(q))
  <2>1. \A x \in ToSet(s) : x \in DeadLetterType
    BY ElementOfSeq, ToSetMember
  <2>2. \A x \in ToSet(s) :
           x \in {m \in ToSet(s) : Corr(m.envelope) = q} <=> x \in LettersOf(q)
    BY <2>1 DEF LettersOf
  <2>3. Matching(s, {m \in ToSet(s) : Corr(m.envelope) = q}) = Matching(s, LettersOf(q))
    BY ONLY <2>2, s \in Seq(DeadLetterType), MatchingSame
  <2> QED BY <2>3 DEF InCorrelation
<1> QED BY <1>1, <1>2

LEMMA PeekIs ==
  ASSUME QueryInv, NEW a \in DOMAIN inboxes, NEW q \in Correlations,
         NEW offset \in Nat, NEW max \in Nat, NEW m, m = InCorrelation(inboxes[a], q)
  PROVE  /\ PendingCorrelation(a, q) = Len(m)
         /\ PeekCorrelation(a, q, offset, max)
               = [i \in 1..AtMost(max, Beyond(Len(m), offset)) |-> m[offset + i]]
<1>1. inboxes[a] \in Seq(EntryType)
  BY DEF QueryInv, TypeOK
<1>2. m = Matching(inboxes[a], EntriesOf(q))
  BY <1>1, InCorrelationIs
<1>3. m \in Seq(EntryType)
  BY <1>1, <1>2, MatchingType
<1>4. PendingCorrelation(a, q) = Len(m)
  BY <1>2 DEF PendingCorrelation, QueryInv, Counted
<1>5. PICK size, n : n = Len(m) /\ size = AtMost(max, Beyond(n, offset))
  OBVIOUS
<1>6. n \in Nat /\ size \in Nat /\ (size # 0 => offset + size <= n)
  BY <1>3, <1>5, PageSize
<1>7. PICK peek : peek = PeekCorrelation(a, q, offset, max)
  OBVIOUS
<1>8. peek = SubSeq(m, offset + 1, IF offset + size > n THEN n ELSE offset + size)
  BY <1>4, <1>5, <1>7 DEF PeekCorrelation
<1>9. peek = SubSeq(m, offset + 1, offset + size)
  <2>1. CASE offset + size > n
    <3>1. size = 0 /\ offset > n
      BY <1>6, <2>1
    <3>2. SubSeq(m, offset + 1, n) = <<>> /\ SubSeq(m, offset + 1, offset + size) = <<>>
      BY <1>6, <3>1, SubSeqEmpty
    <3> QED BY <1>8, <2>1, <3>2
  <2>2. CASE ~(offset + size > n)
    BY <1>8, <2>2
  <2> QED BY <2>1, <2>2
<1>10. peek = [i \in 1..size |-> m[offset + i]]
  <2>1. size # 0 => offset + size <= Len(m)
    BY <1>5, <1>6
  <2>2. SubSeq(m, offset + 1, offset + size) = [i \in 1..size |-> m[offset + i]]
    BY ONLY <1>3, <1>6, <2>1, offset \in Nat, WindowIs
  <2> QED BY <1>9, <2>2
<1> QED BY <1>4, <1>5, <1>7, <1>10

\* What the invariant says of one page.
LEMMA PagesMatch ==
  ASSUME QueryInv, NEW q \in Correlations, NEW offset \in Nat, NEW max \in Nat
  PROVE  ScanAnswers(q, offset, max)
<1>1. /\ ctx.order \in Seq(Keys) /\ ToSet(ctx.order) = DOMAIN ctx.entries
      /\ ctx.delegates = Matching(ctx.order, DelegateKeys)
      /\ ctx.by_correlation[q] = Matching(ctx.order, Labelled(ctx, q))
      /\ ctx.delegates_by_correlation[q] = Matching(ctx.order, Assigned(q))
      /\ dead.by_correlation[q] = Matching(dead.letters, LettersOf(q))
      /\ dead.letters \in Seq(DeadLetterType)
  BY ContextTypes DEF QueryInv, TypeOK, ContextIndexed, Lists, DeadIndexed, DeadType
<1>2. \A S : /\ Matching(ctx.order, S) \in Seq(Keys)
             /\ ToSet(Matching(ctx.order, S)) \subseteq DOMAIN ctx.entries
  BY <1>1, MatchingType, MatchingElements
<1>3. ContextRecent(offset, max) = NewestOf(ctx.order, offset, max)
  BY <1>1, StoredPage DEF ContextRecent
<1>4. ASSUME NEW s, NEW S, s = Matching(ctx.order, S)
      PROVE  PresentKeys(RecentPage(s, offset, max)) = NewestOf(s, offset, max)
  <2>1. s \in Seq(Keys) /\ ToSet(s) \subseteq DOMAIN ctx.entries
    BY <1>2, <1>4
  <2> QED BY ONLY <2>1, offset \in Nat, max \in Nat, StoredPage
<1>5. PICK letters : letters = Matching(dead.letters, LettersOf(q))
  OBVIOUS
<1>6. letters \in Seq(DeadLetterType) /\ InCorrelation(dead.letters, q) = letters
  BY <1>1, <1>5, MatchingType, InCorrelationIs
<1>7. DeadLettersRecentForCorrelation(q, offset, max) = NewestOf(letters, offset, max)
  BY <1>1, <1>5, <1>6, RecentPageIs DEF DeadLettersRecentForCorrelation
<1>8. /\ Labelled(ctx, q) = {k \in Keys : ctx.correlation_of[k] = q}
      /\ Assigned(q) = {k \in DelegateKeys : KeyCorrelation[k] = q}
  BY DEF Labelled, Assigned
<1>9. PICK x, y, z :
         /\ x = Matching(ctx.order, DelegateKeys)
         /\ y = Matching(ctx.order, {k \in Keys : ctx.correlation_of[k] = q})
         /\ z = Matching(ctx.order, {k \in DelegateKeys : KeyCorrelation[k] = q})
  OBVIOUS
<1>10. /\ DelegateContextRecent(offset, max) = NewestOf(x, offset, max)
       /\ ContextRecentForCorrelation(q, offset, max) = NewestOf(y, offset, max)
       /\ DelegateContextRecentForCorrelation(q, offset, max) = NewestOf(z, offset, max)
  <2>1. /\ ctx.delegates = x
        /\ ctx.by_correlation[q] = y
        /\ ctx.delegates_by_correlation[q] = z
    BY <1>1, <1>8, <1>9, Zenon
  <2>2. /\ PresentKeys(RecentPage(x, offset, max)) = NewestOf(x, offset, max)
        /\ PresentKeys(RecentPage(y, offset, max)) = NewestOf(y, offset, max)
        /\ PresentKeys(RecentPage(z, offset, max)) = NewestOf(z, offset, max)
    BY <1>4, <1>9
  <2> QED BY <2>1, <2>2, Zenon DEF DelegateContextRecent, ContextRecentForCorrelation,
     DelegateContextRecentForCorrelation
<1>11. \A a \in DOMAIN inboxes :
         /\ PendingCorrelation(a, q) = Len(InCorrelation(inboxes[a], q))
         /\ PeekCorrelation(a, q, offset, max)
               = [i \in 1..AtMost(max, Beyond(Len(InCorrelation(inboxes[a], q)), offset)) |->
                     InCorrelation(inboxes[a], q)[offset + i]]
  BY PeekIs
<1> QED BY <1>3, <1>6, <1>7, <1>9, <1>10, <1>11, Zenon DEF ScanAnswers, NewestOf

\* The counters and indexes the paged queries read answer what a scan of the
\* inboxes, the context and the dead letters would, for pages of every size and
\* offset (publish, drain_for_agent, register_agent, unregister_agent).
THEOREM QueriesAgreeWithScans ==
  Spec => [](/\ QueriesMatchFullScan
             /\ \A offset, max \in Nat, c \in Correlations : ScanAnswers(c, offset, max))
<1>1. QueryInv => /\ QueriesMatchFullScan
                  /\ \A offset, max \in Nat, c \in Correlations : ScanAnswers(c, offset, max)
  <2>1. 0..2 \subseteq Nat
    OBVIOUS
  <2> QED BY <2>1, PagesMatch DEF QueriesMatchFullScan
<1> QED BY <1>1, InitQueries, NextQueries, PTL DEF Spec
=============================================================================
