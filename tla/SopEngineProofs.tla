--------------------------- MODULE SopEngineProofs ---------------------------
(***************************************************************************)
(* Safety of SopEngine for any catalogs, any number of runs and any limits *)
(* and, for starts, batches of any length.                                 *)
(*                                                                         *)
(* A batch of starts is a recursive function (StartAll).  What is known of *)
(* it is the invariant of its steps, StartedFrom, by an induction stated   *)
(* over a set of positions.                                                *)
(***************************************************************************)
EXTENDS SopEngine, FiniteSetTheorems, SequenceTheorems,
        WellFoundedInduction, TLAPS

-----------------------------------------------------------------------------
(* Induction and sequences *)

\* Every position of 0..n is in a set that has 0 and, with each position below
\* n, the next one.
LEMMA PositionInduction ==
  ASSUME NEW n \in Nat, NEW S, 0 \in S,
         \A i \in Nat : i \in S /\ i < n => i + 1 \in S
  PROVE  n \in S
<1> DEFINE T == {i \in Nat : i <= n /\ i \notin S}
           R == OpToRel(<, Nat)
<1> SUFFICES ASSUME n \notin S PROVE FALSE
  OBVIOUS
<1>1. T # {} /\ T \subseteq Nat
  OBVIOUS
<1>2. IsWellFoundedOn(R, Nat)
  BY NatLessThanWellFounded
<1>3. \A x, y \in Nat : x < y => <<x, y>> \in R
  BY DEF OpToRel
<1> HIDE DEF R
<1>4. PICK x \in T : \A y \in T : ~(<<y, x>> \in R)
  <2> HIDE DEF T
  <2> QED BY <1>1, <1>2, WFMin
<1>5. x \in Nat /\ x # 0 /\ x <= n /\ x \notin S
  OBVIOUS
<1>6. x - 1 \in Nat /\ x - 1 < x /\ (x - 1) + 1 = x /\ x - 1 < n
  BY <1>5
<1>7. x - 1 \in T
  BY <1>5, <1>6
<1> QED BY <1>3, <1>4, <1>5, <1>6, <1>7

\* Removing a position shifts what follows it down by one.
LEMMA RemoveAtShifts ==
  ASSUME NEW S, NEW s \in Seq(S), NEW k \in 1..Len(s)
  PROVE  /\ RemoveAt(s, k) \in Seq(S)
         /\ Len(RemoveAt(s, k)) = Len(s) - 1
         /\ \A j \in 1..(Len(s) - 1) :
               RemoveAt(s, k)[j] = IF j < k THEN s[j] ELSE s[j + 1]
<1> DEFINE left == SubSeq(s, 1, k - 1)
           right == SubSeq(s, k + 1, Len(s))
<1>0. Len(s) \in Nat /\ k \in Nat
  OBVIOUS
<1>1. /\ left \in Seq(S) /\ Len(left) = k - 1
      /\ \A j \in 1..(k - 1) : left[j] = s[j]
  OBVIOUS
<1>2. /\ right \in Seq(S) /\ Len(right) = Len(s) - k
      /\ \A j \in 1..(Len(s) - k) : right[j] = s[k + j]
  OBVIOUS
<1>3. \A l, r \in Seq(S) :
         /\ l \o r \in Seq(S) /\ Len(l \o r) = Len(l) + Len(r)
         /\ \A j \in 1..(Len(l) + Len(r)) :
               (l \o r)[j] = IF j <= Len(l) THEN l[j] ELSE r[j - Len(l)]
  BY ConcatProperties
<1> DEFINE t == RemoveAt(s, k)
<1>4. t = left \o right
  BY DEF RemoveAt
<1> HIDE DEF left, right, t
<1>5. /\ t \in Seq(S) /\ Len(t) = Len(s) - 1
      /\ \A j \in 1..(Len(s) - 1) :
            t[j] = IF j <= k - 1 THEN left[j] ELSE right[j - (k - 1)]
  <2>1. /\ t \in Seq(S) /\ Len(t) = Len(left) + Len(right)
        /\ \A j \in 1..(Len(left) + Len(right)) :
              t[j] = IF j <= Len(left) THEN left[j] ELSE right[j - Len(left)]
    BY <1>1, <1>2, <1>3, <1>4
  <2>2. Len(left) = k - 1 /\ Len(left) + Len(right) = Len(s) - 1
    BY <1>0, <1>1, <1>2
  <2> QED BY <2>1, <2>2
<1>6. ASSUME NEW j \in 1..(Len(s) - 1)
      PROVE  t[j] = IF j < k THEN s[j] ELSE s[j + 1]
  <2>1. CASE j <= k - 1
    BY <1>0, <1>1, <1>5, <2>1
  <2>2. CASE j > k - 1
    <3>1. j - (k - 1) \in 1..(Len(s) - k) /\ k + (j - (k - 1)) = j + 1
      BY <1>0, <2>2
    <3> QED BY <1>0, <1>2, <1>5, <2>2, <3>1
  <2> QED BY <1>0, <2>1, <2>2
<1> QED BY <1>5, <1>6 DEF t

-----------------------------------------------------------------------------
(* Batches of starts *)

Before == [active |-> active, run_counter |-> run_counter]

\* The recursive function of StartAll exists and has its defining equations.
LEMMA StartAllIterates ==
  ASSUME NEW names \in Seq(Sops)
  PROVE  \E after :
            /\ after[0] = Before
            /\ \A i \in 1..Len(names) : after[i] = StartRun(after[i - 1], names[i])
            /\ StartAll(names) = after[Len(names)]
<1> PICK n : n = Len(names)
  OBVIOUS
<1>0. n \in Nat
  OBVIOUS
<1> DEFINE Body(f, m) == [i \in 0..m |-> IF i = 0 THEN Before
                                         ELSE StartRun(f[i - 1], names[i])]
           Exists(m) == \E f : f = Body(f, m)
           S == {m \in Nat : Exists(m)}
<1>1. 0 \in S
  <2> DEFINE f == [i \in 0..0 |-> Before]
  <2>1. f = Body(f, 0)
    OBVIOUS
  <2> QED BY <2>1
<1>2. ASSUME NEW m \in Nat, m \in S, m < n PROVE m + 1 \in S
  <2>1. PICK f : f = Body(f, m)
    BY <1>2
  <2> DEFINE h == [i \in 0..(m + 1) |-> IF i = m + 1 THEN StartRun(f[m], names[m + 1])
                                        ELSE f[i]]
  <2>2. ASSUME NEW i \in 0..(m + 1) PROVE h[i] = Body(h, m + 1)[i]
    <3>1. CASE i = m + 1
      <4>1. h[i] = StartRun(f[m], names[m + 1]) /\ h[m] = f[m] /\ i # 0 /\ i - 1 = m
        BY <3>1
      <4>2. Body(h, m + 1)[i] = StartRun(h[i - 1], names[i])
        BY <4>1
      <4> QED BY <3>1, <4>1, <4>2
    <3>2. CASE i = 0
      BY <2>1, <3>2
    <3>3. CASE i # 0 /\ i # m + 1
      <4>1. i \in 0..m /\ i - 1 \in 0..m /\ i - 1 # m + 1
        BY <3>3
      <4>2. f[i] = StartRun(f[i - 1], names[i])
        BY <2>1, <3>3, <4>1
      <4>3. h[i] = f[i] /\ h[i - 1] = f[i - 1]
        BY <4>1, <3>3
      <4>4. Body(h, m + 1)[i] = StartRun(h[i - 1], names[i])
        BY <3>3
      <4> QED BY <4>2, <4>3, <4>4
    <3> QED BY <3>1, <3>2, <3>3
  <2>3. h = Body(h, m + 1)
    <3> DEFINE b == Body(h, m + 1)
    <3>1. b = [i \in 0..(m + 1) |-> b[i]]
      OBVIOUS
    <3> HIDE DEF b
    <3>2. h = [i \in 0..(m + 1) |-> h[i]]
      OBVIOUS
    <3> HIDE DEF h
    <3> QED BY <2>2, <3>1, <3>2 DEF b
  <2> HIDE DEF h
  <2> QED BY <2>3
<1> HIDE DEF S
<1>3. Exists(n)
  <2>1. n \in S
    BY <1>0, <1>1, <1>2, PositionInduction
  <2> QED BY <2>1 DEF S
<1> HIDE DEF Body
<1> DEFINE after == CHOOSE f : f = Body(f, n)
<1>4. after = Body(after, n)
  BY <1>3
<1>5. StartAll(names) = after[n]
  BY DEF StartAll, Body, Before
<1> HIDE DEF after
<1>6. /\ after[0] = Before
      /\ \A i \in 1..n : after[i] = StartRun(after[i - 1], names[i])
  BY <1>0, <1>4 DEF Body
<1> QED BY <1>5, <1>6

\* What the steps of a batch keep: the runs there were stay as they are, the
\* new ones have the next numbers, and each of them was let in by can_start.
StartedFrom(e) ==
    /\ e.run_counter \in Nat
    /\ run_counter <= e.run_counter
    /\ DOMAIN e.active = DOMAIN active \cup (run_counter + 1)..e.run_counter
    /\ \A r \in DOMAIN active : e.active[r] = active[r]
    /\ \A r \in (run_counter + 1)..e.run_counter :
           \E s \in DOMAIN sops :
               /\ sops[s].confirm # <<>>
               /\ e.active[r] = NewRun(s, r)
               /\ Cardinality(ActiveOf(e.active, s)) <= sops[s].max_concurrent
               /\ Cardinality(DOMAIN e.active) <= MaxConcurrentTotal
               /\ ~(sops[s].cooldown /\ CoolingDown(s))

Numbered == run_counter \in Nat /\ DOMAIN active \subseteq 1..run_counter

LEMMA NewRunSop ==
  ASSUME NEW s, NEW id
  PROVE  NewRun(s, id).sop = s
BY DEF NewRun

\* What is known of the limits of a loaded SOP.
LEMMA LimitsType ==
  ASSUME sops \in Catalogs, NEW s \in DOMAIN sops
  PROVE  sops[s].max_concurrent \in Nat /\ MaxConcurrentTotal \in Nat
BY SopAssumption DEF Definition

LEMMA StartRunStep ==
  ASSUME NEW e, StartedFrom(e), Numbered, sops \in Catalogs, NEW s
  PROVE  StartedFrom(StartRun(e, s))
<1>1. CASE ~(CanStart(e.active, s) /\ sops[s].confirm # <<>>)
  BY <1>1 DEF StartRun
<1>2. CASE CanStart(e.active, s) /\ sops[s].confirm # <<>>
  <2> DEFINE id == e.run_counter + 1
             old == e.active
             new == Update(old, id, NewRun(s, id))
             n == run_counter
             c == e.run_counter
  <2>1. StartRun(e, s) = [active |-> new, run_counter |-> id]
    BY <1>2 DEF StartRun
  <2>2. /\ s \in DOMAIN sops
        /\ Cardinality(ActiveOf(old, s)) < sops[s].max_concurrent
        /\ Cardinality(DOMAIN old) < MaxConcurrentTotal
        /\ ~(sops[s].cooldown /\ CoolingDown(s))
        /\ sops[s].confirm # <<>>
    BY <1>2 DEF CanStart
  <2>3. /\ c \in Nat /\ n \in Nat /\ n <= c
        /\ DOMAIN active \subseteq 1..n
        /\ DOMAIN old = DOMAIN active \cup (n + 1)..c
        /\ \A r \in DOMAIN active : old[r] = active[r]
    BY DEF StartedFrom, Numbered
  <2>4. DOMAIN old \subseteq 1..c /\ id \in Nat /\ id \notin DOMAIN old /\ n <= id
    BY <2>3
  <2>5. /\ DOMAIN new = DOMAIN old \cup {id}
        /\ new[id] = NewRun(s, id)
        /\ \A r \in DOMAIN old : new[r] = old[r]
    BY <2>4 DEF Update
  <2>6. (n + 1)..id = (n + 1)..c \cup {id}
    BY <2>3
  <2>7. IsFiniteSet(DOMAIN old)
    <3>1. IsFiniteSet(1..c)
      BY <2>3, FS_Interval
    <3> QED BY <3>1, <2>4, FS_Subset
  <2> HIDE DEF new, old, id, c, n
  <2>8. Cardinality(DOMAIN new) <= MaxConcurrentTotal
    <3>1. Cardinality(DOMAIN new) = Cardinality(DOMAIN old) + 1
      BY <2>4, <2>5, <2>7, FS_AddElement
    <3>2. Cardinality(DOMAIN old) \in Nat
      BY <2>7, FS_CardinalityType
    <3> QED BY <2>2, <3>1, <3>2, LimitsType
  <2>9. Cardinality(ActiveOf(new, s)) <= sops[s].max_concurrent
    <3>1. ActiveOf(new, s) = ActiveOf(old, s) \cup {id}
      BY <2>4, <2>5, NewRunSop DEF ActiveOf
    <3>2. id \notin ActiveOf(old, s) /\ ActiveOf(old, s) \subseteq DOMAIN old
      BY <2>4 DEF ActiveOf
    <3>3. IsFiniteSet(ActiveOf(old, s))
      BY <2>7, <3>2, FS_Subset
    <3>4. Cardinality(ActiveOf(new, s)) = Cardinality(ActiveOf(old, s)) + 1
      BY <3>1, <3>2, <3>3, FS_AddElement
    <3>5. Cardinality(ActiveOf(old, s)) \in Nat
      BY <3>3, FS_CardinalityType
    <3> QED BY <2>2, <3>4, <3>5, LimitsType
  <2>10. \A q : q # s => ActiveOf(new, q) = ActiveOf(old, q)
    BY <2>4, <2>5, NewRunSop DEF ActiveOf
  <2>11. ASSUME NEW r \in (n + 1)..id
         PROVE  \E q \in DOMAIN sops :
                   /\ sops[q].confirm # <<>>
                   /\ new[r] = NewRun(q, r)
                   /\ Cardinality(ActiveOf(new, q)) <= sops[q].max_concurrent
                   /\ Cardinality(DOMAIN new) <= MaxConcurrentTotal
                   /\ ~(sops[q].cooldown /\ CoolingDown(q))
    <3>1. CASE r = id
      BY <2>2, <2>5, <2>8, <2>9, <3>1
    <3>2. CASE r # id
      <4>1. r \in (n + 1)..c /\ r \in DOMAIN old
        BY <2>3, <2>6, <3>2
      <4>2. PICK q \in DOMAIN sops :
               /\ sops[q].confirm # <<>>
               /\ old[r] = NewRun(q, r)
               /\ Cardinality(ActiveOf(old, q)) <= sops[q].max_concurrent
               /\ ~(sops[q].cooldown /\ CoolingDown(q))
        BY <4>1 DEF StartedFrom, old, c, n
      <4>3. new[r] = NewRun(q, r)
        BY <2>5, <4>1, <4>2
      <4>4. Cardinality(ActiveOf(new, q)) <= sops[q].max_concurrent
        BY <2>9, <2>10, <4>2
      <4> QED BY <2>8, <4>2, <4>3, <4>4
    <3> QED BY <3>1, <3>2
  <2> DEFINE u == [active |-> new, run_counter |-> id]
  <2>12. u.active = new /\ u.run_counter = id
    OBVIOUS
  <2> HIDE DEF u
  <2>13. DOMAIN new = DOMAIN active \cup (n + 1)..id
    BY <2>3, <2>5, <2>6
  <2>14. \A r \in DOMAIN active : new[r] = active[r]
    BY <2>3, <2>5
  <2>15. StartedFrom(u)
    BY <2>4, <2>11, <2>12, <2>13, <2>14 DEF StartedFrom, n
  <2> QED BY <2>1, <2>15 DEF u
<1> QED BY <1>1, <1>2

\* A batch of any length is started from the state it met.
LEMMA StartAllStarted ==
  ASSUME NEW names \in Seq(Sops), Numbered, sops \in Catalogs
  PROVE  StartedFrom(StartAll(names))
<1> PICK n : n = Len(names)
  OBVIOUS
<1>1. n \in Nat
  OBVIOUS
<1>2. PICK after : /\ after[0] = Before
                   /\ \A i \in 1..n : after[i] = StartRun(after[i - 1], names[i])
                   /\ StartAll(names) = after[n]
  BY StartAllIterates
<1> DEFINE S == {i \in Nat : i <= n => StartedFrom(after[i])}
<1>3. 0 \in S
  <2>1. StartedFrom(Before)
    <3>1. Before.active = active /\ Before.run_counter = run_counter
      BY DEF Before
    <3>2. run_counter \in Nat /\ (run_counter + 1)..run_counter = {}
      BY DEF Numbered
    <3>3. run_counter <= run_counter
      BY <3>2
    <3>4. DOMAIN active = DOMAIN active \cup (run_counter + 1)..run_counter
      BY <3>2
    <3> QED BY <3>1, <3>2, <3>3, <3>4, Zenon DEF StartedFrom
  <2> QED BY <1>2, <2>1
<1>4. ASSUME NEW i \in Nat, i \in S, i < n PROVE i + 1 \in S
  <2>1. i + 1 \in 1..n /\ (i + 1) - 1 = i /\ i <= n
    BY <1>1, <1>4
  <2>2. after[i + 1] = StartRun(after[i], names[i + 1])
    BY <1>2, <2>1
  <2>3. StartedFrom(after[i])
    BY <1>4, <2>1
  <2>4. StartedFrom(StartRun(after[i], names[i + 1]))
    BY <2>3, StartRunStep
  <2> QED BY <2>2, <2>4
<1> HIDE DEF S
<1>5. n \in S
  BY <1>1, <1>3, <1>4, PositionInduction
<1> QED BY <1>1, <1>2, <1>5 DEF S

-----------------------------------------------------------------------------
(* Types *)

Note == [id: Ids, status: Statuses]

\* Every run that is active has its own number and waits iff it says so.
ActiveOK ==
    /\ DOMAIN active \subseteq 1..run_counter
    /\ \A r \in DOMAIN active :
           /\ active[r] \in RunType
           /\ active[r].id = r
           /\ active[r].status = "WaitingApproval" <=> active[r].waiting # "no"
           /\ active[r].status \notin Terminal

FinishedOK ==
    /\ finished \in Seq(RunType)
    /\ MaxFinishedRuns > 0 => Len(finished) <= MaxFinishedRuns

\* A call that has nothing left to write is gone.
WritesOK == \A w \in writes : w \in Seq(Note) /\ w # <<>>

RestOK ==
    /\ sops \in Catalogs
    /\ run_counter \in 0..MaxRuns
    /\ panicked \in BOOLEAN
    /\ stored \in [Ids -> {"none"} \cup Statuses]
    /\ cooling \in Seq([id: Ids, sop: Sops])
    /\ approved \subseteq Ids \X Nat

TypeInv == ActiveOK /\ FinishedOK /\ WritesOK /\ RestOK

LEMMA TypeInvTypeOK == TypeInv => TypeOK
BY DEF TypeInv, ActiveOK, FinishedOK, WritesOK, RestOK, TypeOK, Note

LEMMA TypeInvNumbered == TypeInv => Numbered /\ sops \in Catalogs
BY DEF TypeInv, ActiveOK, RestOK, Numbered

\* The definitions of a loaded SOP.
LEMMA LoadedType ==
  ASSUME sops \in Catalogs, NEW s \in DOMAIN sops
  PROVE  s \in Sops /\ sops[s] \in Definition
BY SopAssumption

LEMMA NewRunType ==
  ASSUME sops \in Catalogs, NEW s \in DOMAIN sops, sops[s].confirm # <<>>,
         NEW id \in Ids
  PROVE  LET run == NewRun(s, id)
         IN /\ run \in RunType
            /\ run.id = id /\ run.sop = s /\ run.step = 1 /\ run.results = <<>>
            /\ run.status = "WaitingApproval" <=> run.waiting # "no"
            /\ run.status \notin Terminal
<1>1. s \in Sops /\ sops[s].confirm \in Seq(BOOLEAN)
  BY LoadedType DEF Definition
<1>2. Len(sops[s].confirm) \in Nat \ {0}
  BY <1>1
<1> DEFINE waits == NeedsApproval(sops[s], 1)
           total == Len(sops[s].confirm)
<1>3. CASE waits
  <2>1. NewRun(s, id) = [id |-> id, sop |-> s, step |-> 1, total |-> total,
                         status |-> "WaitingApproval", waiting |-> "recent",
                         results |-> <<>>]
    BY <1>3 DEF NewRun
  <2> QED BY <1>1, <1>2, <2>1 DEF RunType, Statuses, Terminal
<1>4. CASE ~waits
  <2>1. NewRun(s, id) = [id |-> id, sop |-> s, step |-> 1, total |-> total,
                         status |-> "Running", waiting |-> "no", results |-> <<>>]
    BY <1>4 DEF NewRun
  <2> QED BY <1>1, <1>2, <2>1 DEF RunType, Statuses, Terminal
<1> QED BY <1>3, <1>4

\* What is kept of a list of runs is part of it, and all of it without a limit.
LEMMA KeptPart ==
  ASSUME NEW S, NEW runs \in Seq(S)
  PROVE  /\ Kept(runs) \in Seq(S)
         /\ MaxFinishedRuns > 0 => Len(Kept(runs)) <= MaxFinishedRuns
         /\ \A i \in DOMAIN Kept(runs) : \E j \in DOMAIN runs : Kept(runs)[i] = runs[j]
         /\ MaxFinishedRuns = 0 => Kept(runs) = runs
<1>1. MaxFinishedRuns \in Nat /\ Len(runs) \in Nat
  BY SopAssumption
<1>2. CASE MaxFinishedRuns > 0 /\ Len(runs) > MaxFinishedRuns
  <2> DEFINE low == Len(runs) - MaxFinishedRuns + 1
             kept == SubSeq(runs, low, Len(runs))
  <2>1. Kept(runs) = kept
    BY <1>2 DEF Kept
  <2>2. low \in 1..Len(runs) /\ Len(runs) - low + 1 = MaxFinishedRuns
    BY <1>1, <1>2
  <2>3. /\ kept \in Seq(S) /\ Len(kept) = MaxFinishedRuns
        /\ \A i \in 1..MaxFinishedRuns : kept[i] = runs[low + i - 1]
    BY <1>1, <2>2
  <2> HIDE DEF kept, low
  <2>4. \A i \in 1..MaxFinishedRuns : low + i - 1 \in 1..Len(runs)
    BY <1>1, <2>2
  <2>5. DOMAIN kept = 1..MaxFinishedRuns /\ DOMAIN runs = 1..Len(runs)
    BY <2>3
  <2> QED BY <1>1, <1>2, <2>1, <2>3, <2>4, <2>5
<1>3. CASE ~(MaxFinishedRuns > 0 /\ Len(runs) > MaxFinishedRuns)
  BY <1>1, <1>3 DEF Kept
<1> QED BY <1>2, <1>3

\* The oldest runs go first, and none does before the memory is full.
TailOf(kept, runs, d) ==
    \A i \in DOMAIN kept : i \in Nat /\ i + d \in DOMAIN runs /\ kept[i] = runs[i + d]

LEMMA KeptTail ==
  ASSUME NEW runs \in Seq(RunType)
  PROVE  /\ \E d \in Nat : TailOf(Kept(runs), runs, d)
         /\ \/ MaxFinishedRuns > 0 /\ Len(Kept(runs)) = MaxFinishedRuns
            \/ Kept(runs) = runs /\ (MaxFinishedRuns > 0 => Len(runs) < MaxFinishedRuns)
<1>1. MaxFinishedRuns \in Nat /\ Len(runs) \in Nat /\ DOMAIN runs = 1..Len(runs)
  BY SopAssumption
<1>2. CASE MaxFinishedRuns > 0 /\ Len(runs) > MaxFinishedRuns
  <2> DEFINE d == Len(runs) - MaxFinishedRuns
             kept == SubSeq(runs, d + 1, Len(runs))
  <2>1. Kept(runs) = kept
    BY <1>2 DEF Kept
  <2>2. d \in Nat /\ d + 1 \in 1..Len(runs) /\ Len(runs) - (d + 1) + 1 = MaxFinishedRuns
    BY <1>1, <1>2
  <2>3. /\ kept \in Seq(RunType) /\ Len(kept) = MaxFinishedRuns
        /\ \A i \in 1..MaxFinishedRuns : kept[i] = runs[d + 1 + i - 1]
    BY <1>1, <2>2
  <2> HIDE DEF kept, d
  <2>4. \A i \in 1..MaxFinishedRuns : i + d \in 1..Len(runs) /\ d + 1 + i - 1 = i + d
    BY <1>1, <2>2
  <2>5. DOMAIN kept = 1..MaxFinishedRuns
    BY <2>3
  <2>6. TailOf(kept, runs, d)
    BY <1>1, <2>3, <2>4, <2>5 DEF TailOf
  <2> QED BY <1>2, <2>1, <2>2, <2>3, <2>6
<1>3. CASE ~(MaxFinishedRuns > 0 /\ Len(runs) > MaxFinishedRuns)
  <2>1. Kept(runs) = runs
    BY <1>3 DEF Kept
  <2>2. TailOf(runs, runs, 0) /\ 0 \in Nat
    BY <1>1 DEF TailOf
  <2>3. ASSUME NEW m \in Nat, NEW n \in Nat, ~(m > 0 /\ n > m)
        PROVE  (m > 0 /\ n = m) \/ (m > 0 => n < m)
    BY <2>3
  <2> QED BY <1>1, <1>3, <2>1, <2>2, <2>3
<1> QED BY <1>2, <1>3

\* finish_run: the run goes from the active ones to the finished ones.
LEMMA FinishEffect ==
  ASSUME TypeInv, NEW run \in RunType, NEW status \in Statuses, Finish(run, status)
  PROVE  LET ended == [run EXCEPT !.status = status]
         IN /\ ended \in RunType
            /\ FinishedOK'
            /\ \A i \in DOMAIN finished' :
                   \/ finished'[i] = ended
                   \/ \E j \in DOMAIN finished : finished'[i] = finished[j]
            /\ DOMAIN active' = DOMAIN active \ {run.id}
            /\ \A r \in DOMAIN active' : active'[r] = active[r]
            /\ cooling' = Append(cooling, [id |-> run.id, sop |-> run.sop])
            /\ cooling' \in Seq([id: Ids, sop: Sops])
<1> DEFINE ended == [run EXCEPT !.status = status]
           all == Append(finished, ended)
<1>1. ended \in RunType
  BY DEF RunType
<1>2. finished \in Seq(RunType) /\ cooling \in Seq([id: Ids, sop: Sops])
  BY DEF TypeInv, FinishedOK, RestOK
<1>3. finished' = Kept(all)
  BY DEF Finish
<1> HIDE DEF ended
<1>4. /\ all \in Seq(RunType) /\ DOMAIN all = 1..(Len(finished) + 1)
      /\ DOMAIN finished = 1..Len(finished) /\ Len(finished) \in Nat
      /\ all[Len(finished) + 1] = ended
      /\ \A j \in 1..Len(finished) : all[j] = finished[j]
  BY <1>1, <1>2
<1> HIDE DEF all
<1>5. FinishedOK'
  BY <1>3, <1>4, KeptPart DEF FinishedOK
<1>6. ASSUME NEW i \in DOMAIN finished'
      PROVE  finished'[i] = ended \/ \E j \in DOMAIN finished : finished'[i] = finished[j]
  <2>1. PICK j \in DOMAIN all : finished'[i] = all[j]
    BY <1>3, <1>4, KeptPart
  <2> QED BY <1>4, <2>1
<1>7. /\ DOMAIN active' = DOMAIN active \ {run.id}
      /\ \A r \in DOMAIN active' : active'[r] = active[r]
      /\ cooling' = Append(cooling, [id |-> run.id, sop |-> run.sop])
  BY DEF Finish
<1>8. [id |-> run.id, sop |-> run.sop] \in [id: Ids, sop: Sops]
  BY DEF RunType
<1> QED BY <1>1, <1>2, <1>5, <1>6, <1>7, <1>8 DEF ended

-----------------------------------------------------------------------------
(* The three ways of advance_step *)

Recorded(run, outcome) == [run EXCEPT !.results = Append(@, outcome)]
EndOf(outcome) == IF outcome = "failed" THEN "Failed" ELSE "Completed"

AdvanceEnds(r, outcome) ==
    /\ outcome = "failed" \/ active[r].step + 1 > active[r].total
    /\ Finish(Recorded(active[r], outcome), EndOf(outcome))
    /\ writes' = writes \cup {<<[id |-> r, status |-> EndOf(outcome)]>>}
    /\ UNCHANGED <<sops, run_counter, panicked, stored, approved>>

\* The run takes its next step, and waits or stays what it is.
Onward(run, next) ==
    {[run EXCEPT !.step = next],
     [run EXCEPT !.step = next, !.waiting = "recent", !.status = "WaitingApproval"]}

AdvanceGoesOn(r, outcome) ==
    /\ outcome # "failed" /\ ~(active[r].step + 1 > active[r].total)
    /\ \E run \in Onward(Recorded(active[r], outcome), active[r].step + 1) :
           active' = [active EXCEPT ![r] = run]
    /\ UNCHANGED <<sops, finished, run_counter, panicked, writes, stored, cooling,
                   approved>>

LEMMA RecordedType ==
  ASSUME NEW run \in RunType, NEW outcome \in Outcomes
  PROVE  /\ Recorded(run, outcome) \in RunType
         /\ Recorded(run, outcome).id = run.id
         /\ Recorded(run, outcome).sop = run.sop
         /\ Recorded(run, outcome).step = run.step
         /\ Recorded(run, outcome).total = run.total
         /\ Recorded(run, outcome).status = run.status
         /\ Recorded(run, outcome).waiting = run.waiting
         /\ Recorded(run, outcome).results = Append(run.results, outcome)
<1>1. run.results \in Seq(Outcomes)
  BY DEF RunType
<1>2. Append(run.results, outcome) \in Seq(Outcomes)
  BY <1>1
<1> HIDE DEF Outcomes
<1> QED BY <1>2 DEF Recorded, RunType

LEMMA OnwardType ==
  ASSUME NEW run \in RunType, NEW next \in Nat \ {0}, NEW onward \in Onward(run, next)
  PROVE  /\ onward \in RunType
         /\ onward.id = run.id /\ onward.sop = run.sop /\ onward.step = next
         /\ onward.total = run.total /\ onward.results = run.results
         /\ \/ onward.status = run.status /\ onward.waiting = run.waiting
            \/ onward.status = "WaitingApproval" /\ onward.waiting = "recent"
BY ZenonT(40) DEF Onward, RunType, Statuses, Terminal

LEMMA AdvanceCases ==
  ASSUME TypeInv, NEW r, NEW outcome \in Outcomes, AdvanceStep(r, outcome)
  PROVE  /\ r \in DOMAIN active
         /\ AdvanceEnds(r, outcome) \/ AdvanceGoesOn(r, outcome) \/ Panic
<1> DEFINE run == Recorded(active[r], outcome)
           next == run.step + 1
           def == sops[run.sop]
<1>1. r \in DOMAIN active /\ active[r] \in RunType
  BY DEF AdvanceStep, TypeInv, ActiveOK
<1>2. run.step = active[r].step /\ run.total = active[r].total
  BY <1>1, RecordedType
<1>3. CASE outcome = "failed" \/ next > run.total
  BY <1>1, <1>2, <1>3 DEF AdvanceStep, AdvanceEnds, Recorded, EndOf
<1>4. CASE ~(outcome = "failed" \/ next > run.total) /\ next > Len(def.confirm)
  BY <1>1, <1>4 DEF AdvanceStep, Recorded
<1>5. CASE ~(outcome = "failed" \/ next > run.total) /\ ~(next > Len(def.confirm))
  <2>1. /\ active' = [active EXCEPT
                         ![r] = IF NeedsApproval(def, next)
                                THEN [run EXCEPT !.step = next, !.waiting = "recent",
                                                 !.status = "WaitingApproval"]
                                ELSE [run EXCEPT !.step = next]]
        /\ UNCHANGED <<sops, finished, run_counter, panicked, writes, stored, cooling,
                       approved>>
    BY <1>5 DEF AdvanceStep, Recorded
  <2> HIDE DEF run
  <2> QED BY <1>1, <1>2, <1>5, <2>1 DEF AdvanceGoesOn, Onward, run
<1> QED BY <1>1, <1>3, <1>4, <1>5

-----------------------------------------------------------------------------
(* Type correctness *)

LEMMA InitTypeInv == Init => TypeInv
<1> SUFFICES ASSUME Init PROVE TypeInv
  OBVIOUS
<1>1. MaxRuns \in Nat /\ MaxFinishedRuns \in Nat
  BY SopAssumption
<1>2. DOMAIN active = {} /\ 0 \in 0..MaxRuns
  BY <1>1 DEF Init
<1>3. <<>> \in Seq(RunType) /\ <<>> \in Seq([id: Ids, sop: Sops]) /\ Len(<<>>) = 0
  OBVIOUS
<1>4. ActiveOK
  BY <1>2 DEF ActiveOK
<1>5. FinishedOK
  BY <1>1, <1>3 DEF Init, FinishedOK
<1>6. WritesOK
  BY DEF Init, WritesOK
<1>7. RestOK
  <2>1. stored \in [Ids -> {"none"} \cup Statuses]
    BY DEF Init
  <2>2. /\ sops \in Catalogs /\ run_counter \in 0..MaxRuns /\ panicked \in BOOLEAN
        /\ approved \subseteq Ids \X Nat
    BY <1>2 DEF Init
  <2> QED BY <1>3, <2>1, <2>2 DEF Init, RestOK
<1> QED BY <1>4, <1>5, <1>6, <1>7 DEF TypeInv

\* Runs that leave the active ones or change their fields within the type.
LEMMA ActiveKept ==
  ASSUME TypeInv, run_counter' = run_counter,
         DOMAIN active' \subseteq DOMAIN active,
         \A r \in DOMAIN active' : active'[r] = active[r]
  PROVE  ActiveOK'
BY DEF TypeInv, ActiveOK

LEMMA StartRunsType ==
  ASSUME TypeInv, NEW names \in Seq(Sops), StartRuns(names)
  PROVE  TypeInv'
<1> DEFINE after == StartAll(names)
           n == run_counter
           c == after.run_counter
           started == [i \in 1..(c - n) |-> after.active[n + i]]
<1>1. /\ c <= MaxRuns /\ active' = after.active /\ run_counter' = c
      /\ writes' = writes \cup Audit(started)
      /\ UNCHANGED <<sops, finished, panicked, stored, cooling, approved>>
  BY DEF StartRuns
<1>2. StartedFrom(after) /\ n \in Nat /\ sops \in Catalogs
  BY StartAllStarted, TypeInvNumbered DEF Numbered
<1> HIDE DEF after
<1>3. /\ c \in Nat /\ n <= c /\ MaxRuns \in Nat
      /\ DOMAIN active' = DOMAIN active \cup (n + 1)..c
      /\ \A r \in DOMAIN active : active'[r] = active[r]
  BY <1>1, <1>2, SopAssumption DEF StartedFrom
<1>4. ASSUME NEW r \in (n + 1)..c
      PROVE  /\ active'[r] \in RunType
             /\ active'[r].id = r
             /\ active'[r].status = "WaitingApproval" <=> active'[r].waiting # "no"
             /\ active'[r].status \notin Terminal
  <2>1. PICK s \in DOMAIN sops : sops[s].confirm # <<>> /\ active'[r] = NewRun(s, r)
    BY <1>1, <1>2 DEF StartedFrom
  <2>2. r \in Ids
    BY <1>1, <1>2, <1>3 DEF Ids
  <2> QED BY <1>2, <2>1, <2>2, NewRunType
<1>5. ActiveOK'
  <2>1. DOMAIN active \subseteq 1..n
    BY DEF TypeInv, ActiveOK
  <2>2. DOMAIN active' \subseteq 1..c
    BY <1>2, <1>3, <2>1
  <2>3. \A r \in DOMAIN active :
           /\ active[r] \in RunType
           /\ active[r].id = r
           /\ active[r].status = "WaitingApproval" <=> active[r].waiting # "no"
           /\ active[r].status \notin Terminal
    BY DEF TypeInv, ActiveOK
  <2> QED BY <1>1, <1>3, <1>4, <2>2, <2>3 DEF ActiveOK
<1>6. WritesOK'
  <2>1. \A i \in 1..(c - n) : started[i] \in RunType
    BY <1>1, <1>2, <1>3, <1>4
  <2>2. c - n \in Nat
    BY <1>2, <1>3
  <2> HIDE DEF started
  <2>3. ASSUME NEW w \in Audit(started) PROVE w \in Seq(Note) /\ w # <<>>
    <3>1. started # <<>> /\ w = [i \in DOMAIN started |-> Snapshot(started[i])]
      BY <2>3 DEF Audit
    <3>2. DOMAIN started = 1..(c - n)
      BY DEF started
    <3>3. \A i \in 1..(c - n) : Snapshot(started[i]) \in Note
      BY <2>1 DEF Snapshot, Note, RunType
    <3>4. c - n # 0
      BY <3>1, <3>2 DEF started
    <3>5. w \in Seq(Note) /\ Len(w) = c - n
      BY <2>2, <3>1, <3>2, <3>3
    <3> QED BY <3>4, <3>5
  <2> QED BY <1>1, <2>3 DEF TypeInv, WritesOK
<1>7. FinishedOK'
  BY <1>1 DEF TypeInv, FinishedOK
<1>8. RestOK'
  BY <1>1, <1>3 DEF TypeInv, RestOK
<1> QED BY <1>5, <1>6, <1>7, <1>8 DEF TypeInv

LEMMA AdvanceEndsType ==
  ASSUME TypeInv, NEW r \in Ids, NEW outcome \in Outcomes,
         r \in DOMAIN active, AdvanceEnds(r, outcome)
  PROVE  TypeInv'
<1> DEFINE run == Recorded(active[r], outcome)
<1>1. active[r] \in RunType /\ active[r].id = r
  BY DEF TypeInv, ActiveOK
<1>2. run \in RunType /\ EndOf(outcome) \in Statuses /\ Finish(run, EndOf(outcome))
  BY <1>1, RecordedType DEF AdvanceEnds, EndOf, Statuses, Terminal
<1> HIDE DEF run
<1>3. UNCHANGED <<sops, run_counter, panicked, stored, approved>>
  BY DEF AdvanceEnds
<1>4. FinishedOK'
  BY <1>2, FinishEffect
<1>5. ActiveOK'
  BY <1>2, <1>3, FinishEffect, ActiveKept
<1>6. WritesOK'
  <2>1. [id |-> r, status |-> EndOf(outcome)] \in Note
    BY <1>2 DEF Note
  <2>2. <<[id |-> r, status |-> EndOf(outcome)]>> \in Seq(Note)
    BY <2>1
  <2>3. <<[id |-> r, status |-> EndOf(outcome)]>> # <<>>
    OBVIOUS
  <2> QED BY <2>2, <2>3, Zenon DEF AdvanceEnds, TypeInv, WritesOK
<1>7. RestOK'
  BY <1>2, <1>3, FinishEffect DEF TypeInv, RestOK
<1> QED BY <1>4, <1>5, <1>6, <1>7 DEF TypeInv

LEMMA AdvanceGoesOnType ==
  ASSUME TypeInv, NEW r \in Ids, NEW outcome \in Outcomes,
         r \in DOMAIN active, AdvanceGoesOn(r, outcome)
  PROVE  TypeInv'
<1> DEFINE next == active[r].step + 1
<1>1. /\ active[r] \in RunType /\ active[r].id = r
      /\ active[r].status = "WaitingApproval" <=> active[r].waiting # "no"
      /\ active[r].status \notin Terminal
  BY DEF TypeInv, ActiveOK
<1>2. next \in Nat \ {0}
  BY <1>1 DEF RunType
<1>3. PICK run \in Onward(Recorded(active[r], outcome), next) :
         active' = [active EXCEPT ![r] = run]
  BY DEF AdvanceGoesOn
<1>4. UNCHANGED <<sops, finished, run_counter, panicked, writes, stored, cooling, approved>>
  BY DEF AdvanceGoesOn
<1>5. /\ run \in RunType /\ run.id = r
      /\ \/ run.status = active[r].status /\ run.waiting = active[r].waiting
         \/ run.status = "WaitingApproval" /\ run.waiting = "recent"
  <2> DEFINE recorded == Recorded(active[r], outcome)
  <2>1. /\ recorded \in RunType /\ recorded.id = r
        /\ recorded.status = active[r].status /\ recorded.waiting = active[r].waiting
    BY <1>1, RecordedType
  <2> HIDE DEF recorded, next
  <2> QED BY <1>2, <1>3, <2>1, OnwardType DEF recorded
<1>6. ActiveOK'
  <2>1. /\ DOMAIN active' = DOMAIN active
        /\ \A q \in DOMAIN active : active'[q] = IF q = r THEN run ELSE active[q]
    BY <1>3
  <2>2. /\ run.status = "WaitingApproval" <=> run.waiting # "no"
        /\ run.status \notin Terminal
    BY <1>1, <1>5 DEF Terminal
  <2> QED BY <1>4, <1>5, <2>1, <2>2 DEF TypeInv, ActiveOK
<1> QED BY <1>4, <1>6 DEF TypeInv, FinishedOK, WritesOK, RestOK

LEMMA ApproveType ==
  ASSUME TypeInv, NEW runs, runs \subseteq DOMAIN active, Approve(runs)
  PROVE  TypeInv'
<1>1. CASE Panic
  BY <1>1 DEF Panic, TypeInv, ActiveOK, FinishedOK, WritesOK, RestOK
<1>2. CASE ~Panic
  <2> DEFINE loaded == {r \in runs : active[r].sop \in DOMAIN sops}
  <2>1. /\ active' = [r \in DOMAIN active |->
                         IF r \in runs THEN ApprovedRun(active[r]) ELSE active[r]]
        /\ approved' = approved \cup {<<r, active[r].step>> : r \in loaded}
        /\ UNCHANGED <<sops, finished, run_counter, panicked, writes, stored, cooling>>
    BY <1>2 DEF Approve
  <2>2. \A r \in DOMAIN active : active[r] \in RunType /\ r \in Ids
    BY DEF TypeInv, ActiveOK, RunType
  <2>3. ASSUME NEW r \in DOMAIN active
        PROVE  /\ ApprovedRun(active[r]) \in RunType
               /\ ApprovedRun(active[r]).id = active[r].id
               /\ ApprovedRun(active[r]).status = "Running"
               /\ ApprovedRun(active[r]).waiting = "no"
    BY <2>2 DEF ApprovedRun, RunType, Statuses
  <2>4. ActiveOK'
    <3>1. DOMAIN active' = DOMAIN active
      BY <2>1
    <3>2. \A r \in DOMAIN active :
             active'[r] = active[r] \/ active'[r] = ApprovedRun(active[r])
      BY <2>1
    <3> QED BY <2>1, <2>3, <3>1, <3>2 DEF TypeInv, ActiveOK, Terminal
  <2>5. approved' \subseteq Ids \X Nat
    <3>1. \A r \in loaded : r \in Ids /\ active[r].step \in Nat
      BY <2>2 DEF RunType
    <3> QED BY <2>1, <3>1 DEF TypeInv, RestOK
  <2> QED BY <2>1, <2>4, <2>5 DEF TypeInv, FinishedOK, WritesOK, RestOK
<1> QED BY <1>1, <1>2

LEMMA WriteDoneType ==
  ASSUME TypeInv, NEW w \in writes
  PROVE  /\ \A v \in WriteDone(w) : v \in Seq(Note) /\ v # <<>>
         /\ Head(w) \in Note
<1>1. w \in Seq(Note) /\ w # <<>>
  BY DEF TypeInv, WritesOK
<1>2. Len(w) > 1 => Tail(w) \in Seq(Note) /\ Tail(w) # <<>>
  <2> SUFFICES ASSUME Len(w) > 1 PROVE Tail(w) \in Seq(Note) /\ Tail(w) # <<>>
    OBVIOUS
  <2> HIDE DEF Note
  <2>1. Tail(w) \in Seq(Note) /\ Len(Tail(w)) = Len(w) - 1 /\ Len(w) \in Nat
    BY <1>1
  <2>2. Len(Tail(w)) # 0 /\ Len(<<>>) = 0
    BY <2>1
  <2> QED BY <2>1, <2>2
<1>3. Head(w) \in Note
  BY <1>1
<1> QED BY <1>2, <1>3 DEF WriteDone, TypeInv, WritesOK

LEMMA NextTypeInv == TypeInv /\ [Next]_vars => TypeInv'
<1> SUFFICES ASSUME TypeInv, [Next]_vars PROVE TypeInv'
  OBVIOUS
<1> USE DEF engine
<1>1. ASSUME NEW names \in Triggered, StartRuns(names) PROVE TypeInv'
  BY <1>1, StartRunsType, SopAssumption
<1>2. ASSUME NEW r \in Ids, NEW outcome \in Outcomes, AdvanceStep(r, outcome)
      PROVE  TypeInv'
  <2>1. CASE AdvanceEnds(r, outcome)
    BY <1>2, <2>1, AdvanceCases, AdvanceEndsType
  <2>2. CASE AdvanceGoesOn(r, outcome)
    BY <1>2, <2>2, AdvanceCases, AdvanceGoesOnType
  <2>3. CASE Panic
    BY <2>3 DEF Panic, TypeInv, ActiveOK, FinishedOK, WritesOK, RestOK
  <2> QED BY <1>2, <2>1, <2>2, <2>3, AdvanceCases
<1>3. ASSUME NEW r \in Ids, CancelRun(r) PROVE TypeInv'
  <2>1. /\ r \in DOMAIN active /\ Finish(active[r], "Cancelled")
        /\ UNCHANGED <<sops, run_counter, panicked, writes, stored, approved>>
    BY <1>3 DEF CancelRun
  <2>2. active[r] \in RunType /\ "Cancelled" \in Statuses
    BY <2>1 DEF TypeInv, ActiveOK, Statuses, Terminal
  <2>3. FinishedOK'
    BY <2>1, <2>2, FinishEffect
  <2>4. ActiveOK'
    BY <2>1, <2>2, FinishEffect, ActiveKept
  <2>5. cooling' \in Seq([id: Ids, sop: Sops])
    BY <2>1, <2>2, FinishEffect
  <2> QED BY <2>1, <2>3, <2>4, <2>5 DEF TypeInv, WritesOK, RestOK
<1>4. ASSUME NEW r \in Ids, ApproveStep(r) PROVE TypeInv'
  BY <1>4, ApproveType DEF ApproveStep
<1>5. ASSUME NEW r \in Ids, WaitTimesOut(r) PROVE TypeInv'
  <2>1. /\ r \in DOMAIN active /\ active[r].waiting = "recent"
        /\ active' = [active EXCEPT ![r].waiting = "overdue"]
        /\ UNCHANGED <<sops, finished, run_counter, panicked, writes, stored, cooling,
                       approved>>
    BY <1>5 DEF WaitTimesOut
  <2> DEFINE run == [active[r] EXCEPT !.waiting = "overdue"]
  <2>2. active[r] \in RunType
    BY <2>1 DEF TypeInv, ActiveOK
  <2>3. /\ run \in RunType /\ run.id = active[r].id /\ run.status = active[r].status
        /\ run.waiting = "overdue"
    BY <2>2 DEF RunType
  <2>4. /\ DOMAIN active' = DOMAIN active
        /\ \A q \in DOMAIN active : active'[q] = IF q = r THEN run ELSE active[q]
    BY <2>1
  <2> HIDE DEF run
  <2>5. ActiveOK'
    BY <2>1, <2>3, <2>4 DEF TypeInv, ActiveOK
  <2> QED BY <2>1, <2>5 DEF TypeInv, FinishedOK, WritesOK, RestOK
<1>6. CASE CheckApprovalTimeouts
  BY <1>6, ApproveType DEF CheckApprovalTimeouts, TimedOut
<1>7. CASE Reload
  BY <1>7 DEF Reload, TypeInv, ActiveOK, FinishedOK, WritesOK, RestOK
<1>8. ASSUME NEW i \in DOMAIN cooling, CooldownElapses(i) PROVE TypeInv'
  <2>1. /\ cooling' = RemoveAt(cooling, i)
        /\ UNCHANGED <<engine, writes, stored, approved>>
    BY <1>8 DEF CooldownElapses
  <2>2. cooling \in Seq([id: Ids, sop: Sops]) /\ i \in 1..Len(cooling)
    BY DEF TypeInv, RestOK
  <2>3. cooling' \in Seq([id: Ids, sop: Sops])
    BY <2>1, <2>2, RemoveAtShifts
  <2> QED BY <2>1, <2>3 DEF TypeInv, ActiveOK, FinishedOK, WritesOK, RestOK
<1>9. ASSUME NEW w \in writes, StoreRecord(w) PROVE TypeInv'
  <2>1. /\ stored' = [stored EXCEPT ![Head(w).id] = Head(w).status]
        /\ writes' = WriteDone(w)
        /\ UNCHANGED <<engine, cooling, approved>>
    BY <1>9 DEF StoreRecord
  <2>2. stored' \in [Ids -> {"none"} \cup Statuses]
    BY <2>1, WriteDoneType DEF Note, TypeInv, RestOK
  <2>3. WritesOK'
    BY <2>1, WriteDoneType DEF WritesOK
  <2> QED BY <2>1, <2>2, <2>3 DEF TypeInv, ActiveOK, FinishedOK, RestOK
<1>10. ASSUME NEW w \in writes, StoreFails(w) PROVE TypeInv'
  <2>1. writes' = WriteDone(w) /\ UNCHANGED <<engine, stored, cooling, approved>>
    BY <1>10 DEF StoreFails
  <2>2. WritesOK'
    BY <2>1, WriteDoneType DEF WritesOK
  <2> QED BY <2>1, <2>2 DEF TypeInv, ActiveOK, FinishedOK, RestOK
<1>11. CASE UNCHANGED vars
  BY <1>11 DEF vars, TypeInv, ActiveOK, FinishedOK, WritesOK, RestOK
<1> QED BY <1>1, <1>2, <1>3, <1>4, <1>5, <1>6, <1>7, <1>8, <1>9, <1>10, <1>11
        DEF Next, RunStep, AuditStep

LEMMA TypeInvHolds == Spec => []TypeInv
BY InitTypeInv, NextTypeInv, PTL DEF Spec

\* The state of the engine, the audit writes and the records stays well typed,
\* for any catalogs that reloads may find and batches of any length.
THEOREM TypeCorrect == Spec => []TypeOK
BY TypeInvHolds, TypeInvTypeOK, PTL

-----------------------------------------------------------------------------
(* Results follow the steps *)

Clean(run, n) == Len(run.results) = n /\ \A i \in 1..n : run.results[i] # "failed"
InProgress(run) == run.step <= run.total /\ Clean(run, run.step - 1)
FailedLast(run) ==
    /\ Len(run.results) = run.step
    /\ \A i \in 1..run.step : run.results[i] = "failed" <=> i = run.step
EndedWell(run) ==
    \/ run.status = "Completed" /\ Clean(run, run.total)
    \/ run.status = "Failed" /\ FailedLast(run)
    \/ run.status = "Cancelled" /\ InProgress(run)

ResultsInv ==
    /\ \A r \in DOMAIN active : InProgress(active[r])
    /\ \A i \in DOMAIN finished : EndedWell(finished[i])

LEMMA ResultsInvImplies == ResultsInv => ResultsFollowSteps
BY DEF ResultsInv, ResultsFollowSteps, Clean, InProgress, FailedLast, EndedWell

\* Progress is a matter of the step, the total and the results.
LEMMA SameProgress ==
  ASSUME NEW run, NEW other, InProgress(run), other.step = run.step,
         other.total = run.total, other.results = run.results
  PROVE  InProgress(other)
BY DEF InProgress, Clean

\* Another result after clean ones.
LEMMA RecordedResults ==
  ASSUME NEW run \in RunType, InProgress(run), NEW outcome \in Outcomes,
         NEW results, results = Append(run.results, outcome)
  PROVE  /\ Len(results) = run.step
         /\ \A i \in 1..run.step : results[i] = IF i = run.step THEN outcome
                                                ELSE run.results[i]
         /\ \A i \in 1..run.step : i # run.step => results[i] # "failed"
<1>1. run.results \in Seq(Outcomes) /\ run.step \in Nat \ {0}
  BY DEF RunType
<1>2. Len(run.results) = run.step - 1
      /\ \A i \in 1..(run.step - 1) : run.results[i] # "failed"
  BY DEF InProgress, Clean
<1>3. /\ Len(results) = Len(run.results) + 1
      /\ \A i \in 1..Len(run.results) : results[i] = run.results[i]
      /\ results[Len(run.results) + 1] = outcome
  BY <1>1, AppendProperties
<1>4. \A i \in 1..run.step : i # run.step => i \in 1..(run.step - 1)
  BY <1>1
<1> QED BY <1>1, <1>2, <1>3, <1>4

LEMMA EndsResults ==
  ASSUME NEW run \in RunType, InProgress(run), NEW outcome \in Outcomes,
         outcome = "failed" \/ run.step + 1 > run.total
  PROVE  EndedWell([Recorded(run, outcome) EXCEPT !.status = EndOf(outcome)])
<1> DEFINE recorded == Recorded(run, outcome)
           ended == [recorded EXCEPT !.status = EndOf(outcome)]
<1>1. /\ recorded \in RunType /\ recorded.step = run.step
      /\ recorded.total = run.total /\ recorded.results = Append(run.results, outcome)
  BY RecordedType
<1> HIDE DEF recorded
<1>2. /\ ended.status = EndOf(outcome) /\ ended.step = run.step
      /\ ended.total = run.total /\ ended.results = Append(run.results, outcome)
  BY <1>1 DEF RunType
<1> HIDE DEF ended
<1>3. run.step \in Nat \ {0} /\ run.total \in Nat /\ run.step <= run.total
  BY DEF RunType, InProgress
<1>4. /\ Len(ended.results) = run.step
      /\ \A i \in 1..run.step : ended.results[i] = IF i = run.step THEN outcome
                                                   ELSE run.results[i]
      /\ \A i \in 1..run.step : i # run.step => ended.results[i] # "failed"
  BY <1>2, RecordedResults, SMTT(40)
<1>5. ASSUME outcome = "failed" PROVE EndedWell(ended)
  <2>1. \A i \in 1..run.step : ended.results[i] = "failed" <=> i = run.step
    BY <1>3, <1>4, <1>5
  <2>2. FailedLast(ended)
    BY <1>2, <1>4, <2>1 DEF FailedLast
  <2> QED BY <1>2, <1>5, <2>2 DEF EndedWell, EndOf
<1>6. ASSUME outcome # "failed" PROVE EndedWell(ended)
  <2>1. run.step = run.total
    BY <1>3, <1>6
  <2>2. \A i \in 1..run.step : ended.results[i] # "failed"
    BY <1>3, <1>4, <1>6
  <2>3. Clean(ended, ended.total)
    BY <1>2, <1>4, <2>1, <2>2 DEF Clean
  <2> QED BY <1>2, <1>6, <2>3 DEF EndedWell, EndOf
<1> QED BY <1>5, <1>6 DEF ended, recorded

LEMMA GoesOnResults ==
  ASSUME NEW run \in RunType, InProgress(run), NEW outcome \in Outcomes,
         outcome # "failed", ~(run.step + 1 > run.total),
         NEW onward \in Onward(Recorded(run, outcome), run.step + 1)
  PROVE  InProgress(onward)
<1> DEFINE recorded == Recorded(run, outcome)
<1>1. /\ recorded \in RunType
      /\ recorded.total = run.total /\ recorded.results = Append(run.results, outcome)
  BY RecordedType
<1>2. run.step \in Nat \ {0} /\ run.total \in Nat /\ run.step + 1 \in Nat \ {0}
  BY DEF RunType
<1> HIDE DEF recorded
<1>3. /\ onward.step = run.step + 1 /\ onward.total = run.total
      /\ onward.results = Append(run.results, outcome)
  BY <1>1, <1>2, OnwardType DEF recorded
<1>4. /\ Len(onward.results) = run.step
      /\ \A i \in 1..run.step : onward.results[i] = IF i = run.step THEN outcome
                                                    ELSE run.results[i]
      /\ \A i \in 1..run.step : i # run.step => onward.results[i] # "failed"
  BY <1>3, RecordedResults, SMTT(40)
<1>5. (run.step + 1) - 1 = run.step /\ run.step + 1 <= run.total
  BY <1>2
<1> QED BY <1>3, <1>4, <1>5 DEF InProgress, Clean

\* A run that is finished well joins runs that were.
LEMMA FinishResults ==
  ASSUME TypeInv, ResultsInv, NEW run \in RunType, NEW status \in Statuses,
         Finish(run, status), EndedWell([run EXCEPT !.status = status])
  PROVE  ResultsInv'
<1>1. /\ \A i \in DOMAIN finished' :
             \/ finished'[i] = [run EXCEPT !.status = status]
             \/ \E j \in DOMAIN finished : finished'[i] = finished[j]
      /\ DOMAIN active' = DOMAIN active \ {run.id}
      /\ \A r \in DOMAIN active' : active'[r] = active[r]
  BY FinishEffect
<1>2. \A i \in DOMAIN finished' : EndedWell(finished'[i])
  BY <1>1 DEF ResultsInv
<1>3. \A r \in DOMAIN active' : InProgress(active'[r])
  BY <1>1 DEF ResultsInv
<1> QED BY <1>2, <1>3 DEF ResultsInv

LEMMA NextResults == TypeInv /\ ResultsInv /\ [Next]_vars => ResultsInv'
<1> SUFFICES ASSUME TypeInv, ResultsInv, [Next]_vars PROVE ResultsInv'
  OBVIOUS
<1> USE DEF engine
<1>0. ASSUME UNCHANGED <<active, finished>> PROVE ResultsInv'
  BY <1>0 DEF ResultsInv
<1>1. ASSUME NEW names \in Triggered, StartRuns(names) PROVE ResultsInv'
  <2> DEFINE after == StartAll(names)
  <2>1. /\ active' = after.active /\ UNCHANGED finished /\ after.run_counter <= MaxRuns
    BY <1>1 DEF StartRuns
  <2>2. StartedFrom(after) /\ run_counter \in Nat /\ sops \in Catalogs
    BY SopAssumption, StartAllStarted, TypeInvNumbered DEF Numbered
  <2> HIDE DEF after
  <2>3. ASSUME NEW r \in DOMAIN active' PROVE InProgress(active'[r])
    <3>1. CASE r \in DOMAIN active
      BY <2>1, <2>2, <3>1 DEF StartedFrom, ResultsInv
    <3>2. CASE r \notin DOMAIN active
      <4>1. r \in (run_counter + 1)..after.run_counter
        BY <2>1, <2>2, <3>2 DEF StartedFrom
      <4>2. PICK s \in DOMAIN sops : sops[s].confirm # <<>> /\ active'[r] = NewRun(s, r)
        BY <2>1, <2>2, <4>1 DEF StartedFrom
      <4>3. r \in Ids
        BY <2>1, <2>2, <4>1, SopAssumption DEF Ids, StartedFrom
      <4> DEFINE run == NewRun(s, r)
      <4>4. run \in RunType /\ run.step = 1 /\ run.results = <<>>
        BY <2>2, <4>2, <4>3, NewRunType
      <4> HIDE DEF run
      <4>5. run.total \in Nat \ {0} /\ Len(run.results) = 0
        BY <4>4 DEF RunType
      <4>6. InProgress(run)
        BY <4>4, <4>5 DEF InProgress, Clean
      <4> QED BY <4>2, <4>6 DEF run
    <3> QED BY <3>1, <3>2
  <2> QED BY <2>1, <2>3 DEF ResultsInv
<1>2. ASSUME NEW r \in Ids, NEW outcome \in Outcomes, AdvanceStep(r, outcome)
      PROVE  ResultsInv'
  <2>1. r \in DOMAIN active /\ active[r] \in RunType /\ InProgress(active[r])
    BY <1>2, AdvanceCases DEF TypeInv, ActiveOK, ResultsInv
  <2>2. CASE AdvanceEnds(r, outcome)
    <3> DEFINE run == Recorded(active[r], outcome)
    <3>1. run \in RunType /\ EndOf(outcome) \in Statuses
      BY <2>1, RecordedType DEF EndOf, Statuses, Terminal
    <3>2. EndedWell([run EXCEPT !.status = EndOf(outcome)])
      BY <2>1, <2>2, EndsResults DEF AdvanceEnds
    <3>3. Finish(run, EndOf(outcome))
      BY <2>2 DEF AdvanceEnds
    <3> HIDE DEF run
    <3> QED BY <3>1, <3>2, <3>3, FinishResults
  <2>3. CASE AdvanceGoesOn(r, outcome)
    <3>1. PICK run \in Onward(Recorded(active[r], outcome), active[r].step + 1) :
             active' = [active EXCEPT ![r] = run]
      BY <2>3 DEF AdvanceGoesOn
    <3>2. InProgress(run)
      BY <2>1, <2>3, GoesOnResults DEF AdvanceGoesOn
    <3>3. UNCHANGED finished
      BY <2>3 DEF AdvanceGoesOn
    <3>4. /\ DOMAIN active' = DOMAIN active
          /\ \A q \in DOMAIN active : active'[q] = IF q = r THEN run ELSE active[q]
      BY <3>1
    <3> QED BY <3>2, <3>3, <3>4 DEF ResultsInv
  <2>4. CASE Panic
    BY <1>0, <2>4 DEF Panic
  <2> QED BY <1>2, <2>2, <2>3, <2>4, AdvanceCases
<1>3. ASSUME NEW r \in Ids, CancelRun(r) PROVE ResultsInv'
  <2>1. r \in DOMAIN active /\ Finish(active[r], "Cancelled")
    BY <1>3 DEF CancelRun
  <2>2. /\ active[r] \in RunType /\ InProgress(active[r]) /\ "Cancelled" \in Statuses
    BY <2>1 DEF TypeInv, ActiveOK, ResultsInv, Statuses, Terminal
  <2> DEFINE ended == [active[r] EXCEPT !.status = "Cancelled"]
  <2>3. /\ ended.status = "Cancelled" /\ ended.step = active[r].step
        /\ ended.total = active[r].total /\ ended.results = active[r].results
    BY <2>2 DEF RunType
  <2> HIDE DEF ended
  <2>4. EndedWell(ended)
    BY <2>2, <2>3, SameProgress DEF EndedWell
  <2> QED BY <2>1, <2>2, <2>4, FinishResults DEF ended
<1>4. ASSUME NEW runs, Approve(runs) PROVE ResultsInv'
  <2>1. CASE Panic
    BY <1>0, <2>1 DEF Panic
  <2>2. CASE ~Panic
    <3>1. /\ active' = [q \in DOMAIN active |->
                           IF q \in runs THEN ApprovedRun(active[q]) ELSE active[q]]
          /\ UNCHANGED finished
      BY <1>4, <2>2 DEF Approve
    <3>2. ASSUME NEW q \in DOMAIN active PROVE InProgress(ApprovedRun(active[q]))
      <4>1. active[q] \in RunType /\ InProgress(active[q])
        BY DEF TypeInv, ActiveOK, ResultsInv
      <4>2. /\ ApprovedRun(active[q]).step = active[q].step
            /\ ApprovedRun(active[q]).total = active[q].total
            /\ ApprovedRun(active[q]).results = active[q].results
        BY <4>1 DEF ApprovedRun, RunType
      <4> QED BY <4>1, <4>2, SameProgress
    <3> QED BY <3>1, <3>2 DEF ResultsInv
  <2> QED BY <2>1, <2>2
<1>5. ASSUME NEW r \in Ids, WaitTimesOut(r) PROVE ResultsInv'
  <2>1. /\ r \in DOMAIN active /\ UNCHANGED finished
        /\ active' = [active EXCEPT ![r].waiting = "overdue"]
    BY <1>5 DEF WaitTimesOut
  <2> DEFINE run == [active[r] EXCEPT !.waiting = "overdue"]
  <2>2. active[r] \in RunType /\ InProgress(active[r])
    BY <2>1 DEF TypeInv, ActiveOK, ResultsInv
  <2>3. /\ run.step = active[r].step /\ run.total = active[r].total
        /\ run.results = active[r].results
    BY <2>2 DEF RunType
  <2>4. /\ DOMAIN active' = DOMAIN active
        /\ \A q \in DOMAIN active : active'[q] = IF q = r THEN run ELSE active[q]
    BY <2>1
  <2> HIDE DEF run
  <2>5. InProgress(run)
    BY <2>2, <2>3, SameProgress
  <2> QED BY <2>1, <2>4, <2>5 DEF ResultsInv
<1>6. ASSUME NEW r \in Ids, RunStep(r) PROVE ResultsInv'
  BY <1>2, <1>3, <1>4, <1>5, <1>6 DEF RunStep, ApproveStep
<1>7. CASE CheckApprovalTimeouts
  BY <1>4, <1>7 DEF CheckApprovalTimeouts
<1>8. CASE Reload
  BY <1>0, <1>8 DEF Reload
<1>9. ASSUME NEW i \in DOMAIN cooling, CooldownElapses(i) PROVE ResultsInv'
  BY <1>0, <1>9 DEF CooldownElapses
<1>10. ASSUME NEW w \in writes, AuditStep(w) PROVE ResultsInv'
  BY <1>0, <1>10 DEF AuditStep, StoreRecord, StoreFails
<1>11. CASE UNCHANGED vars
  BY <1>0, <1>11 DEF vars
<1> QED BY <1>1, <1>6, <1>7, <1>8, <1>9, <1>10, <1>11 DEF Next

\* However runs are started, advanced, cancelled, approved and reloaded, a run
\* completes with a result for each of its steps and fails on its last one.
THEOREM ResultsAreInOrder == Spec => []ResultsFollowSteps
<1>1. Init => ResultsInv
  BY DEF Init, ResultsInv
<1> QED BY <1>1, NextResults, ResultsInvImplies, TypeInvHolds, PTL DEF Spec

-----------------------------------------------------------------------------
(* Records claim only ends that happened *)

\* An end that is written down, or about to be, is that of a run that was
\* started, is over, and ended that way.
EndKnown(id, status) ==
    status \in Terminal =>
        /\ id \in 1..run_counter
        /\ id \notin DOMAIN active
        /\ \A i \in DOMAIN finished :
               finished[i].id = id => finished[i].status = status

OutcomesInv ==
    /\ \A i \in DOMAIN finished :
           finished[i].id \in 1..run_counter /\ finished[i].id \notin DOMAIN active
    /\ \A r \in Ids : EndKnown(r, stored[r])
    /\ \A w \in writes : \A i \in DOMAIN w : EndKnown(w[i].id, w[i].status)

LEMMA OutcomesInvImplies == OutcomesInv => StoredOutcomesAreTrue
BY DEF OutcomesInv, EndKnown, StoredOutcomesAreTrue

\* Numbers are not used twice, and only active runs are finished.
RunsOnlyEnd ==
    /\ run_counter' \in Nat
    /\ run_counter <= run_counter'
    /\ DOMAIN active' \subseteq DOMAIN active \cup (run_counter + 1)..run_counter'
    /\ \A i \in DOMAIN finished' :
           \/ \E j \in DOMAIN finished : finished'[i] = finished[j]
           \/ finished'[i].id \in DOMAIN active \ DOMAIN active'

LEMMA EndsStayKnown ==
  ASSUME TypeInv, RunsOnlyEnd, NEW id, NEW status, EndKnown(id, status)
  PROVE  EndKnown(id, status)'
<1> SUFFICES ASSUME status \in Terminal
             PROVE  /\ id \in 1..run_counter'
                    /\ id \notin DOMAIN active'
                    /\ \A i \in DOMAIN finished' :
                           finished'[i].id = id => finished'[i].status = status
  BY DEF EndKnown
<1>1. /\ id \in 1..run_counter /\ id \notin DOMAIN active
      /\ \A i \in DOMAIN finished : finished[i].id = id => finished[i].status = status
  BY DEF EndKnown
<1>2. run_counter \in Nat /\ run_counter' \in Nat /\ run_counter <= run_counter'
  BY TypeInvNumbered DEF RunsOnlyEnd, Numbered
<1>3. id \in 1..run_counter' /\ id \notin DOMAIN active'
  BY <1>1, <1>2 DEF RunsOnlyEnd
<1>4. \A i \in DOMAIN finished' : finished'[i].id = id => finished'[i].status = status
  BY <1>1 DEF RunsOnlyEnd
<1> QED BY <1>3, <1>4

LEMMA FinishedStayKnown ==
  ASSUME TypeInv, OutcomesInv, RunsOnlyEnd
  PROVE  \A i \in DOMAIN finished' :
            finished'[i].id \in 1..run_counter' /\ finished'[i].id \notin DOMAIN active'
<1> SUFFICES ASSUME NEW i \in DOMAIN finished'
             PROVE  /\ finished'[i].id \in 1..run_counter'
                    /\ finished'[i].id \notin DOMAIN active'
  OBVIOUS
<1>1. run_counter \in Nat /\ run_counter' \in Nat /\ run_counter <= run_counter'
  BY TypeInvNumbered DEF RunsOnlyEnd, Numbered
<1>2. CASE \E j \in DOMAIN finished : finished'[i] = finished[j]
  <2>1. finished'[i].id \in 1..run_counter /\ finished'[i].id \notin DOMAIN active
    BY <1>2 DEF OutcomesInv
  <2> QED BY <1>1, <2>1 DEF RunsOnlyEnd
<1>3. CASE finished'[i].id \in DOMAIN active \ DOMAIN active'
  <2>1. finished'[i].id \in 1..run_counter
    BY <1>3, TypeInvNumbered DEF Numbered
  <2> QED BY <1>1, <1>3, <2>1
<1> QED BY <1>2, <1>3 DEF RunsOnlyEnd

\* A step that only ends runs keeps the outcomes if what it writes down next is
\* known to have happened.
LEMMA OutcomesStay ==
  ASSUME TypeInv, OutcomesInv, RunsOnlyEnd, UNCHANGED stored,
         \A w \in writes' : \/ w \in writes
                            \/ \A i \in DOMAIN w : EndKnown(w[i].id, w[i].status)'
  PROVE  OutcomesInv'
<1>1. \A r \in Ids : EndKnown(r, stored[r])'
  <2> SUFFICES ASSUME NEW r \in Ids PROVE EndKnown(r, stored[r])'
    OBVIOUS
  <2>1. PICK status : status = stored[r]
    OBVIOUS
  <2>2. EndKnown(r, status)'
    BY <2>1, EndsStayKnown DEF OutcomesInv
  <2> QED BY <2>1, <2>2 DEF EndKnown
<1>2. \A w \in writes' : \A i \in DOMAIN w : EndKnown(w[i].id, w[i].status)'
  <2> SUFFICES ASSUME NEW w \in writes', NEW i \in DOMAIN w
               PROVE  EndKnown(w[i].id, w[i].status)'
    OBVIOUS
  <2>1. CASE w \in writes
    BY <2>1, EndsStayKnown DEF OutcomesInv
  <2>2. CASE w \notin writes
    BY <2>2
  <2> QED BY <2>1, <2>2
<1> QED BY <1>1, <1>2, FinishedStayKnown DEF OutcomesInv

LEMMA FinishEnds ==
  ASSUME TypeInv, NEW r \in DOMAIN active, NEW run \in RunType, run.id = r,
         NEW status \in Statuses, Finish(run, status), UNCHANGED run_counter
  PROVE  /\ RunsOnlyEnd
         /\ OutcomesInv /\ status \in Terminal => EndKnown(r, status)'
<1> DEFINE ended == [run EXCEPT !.status = status]
<1>1. /\ \A i \in DOMAIN finished' :
             \/ finished'[i] = ended
             \/ \E j \in DOMAIN finished : finished'[i] = finished[j]
      /\ DOMAIN active' = DOMAIN active \ {r}
  BY FinishEffect
<1>2. ended.id = r /\ ended.status = status
  BY DEF RunType
<1>3. run_counter \in Nat /\ r \in 1..run_counter
  BY TypeInvNumbered DEF Numbered
<1> HIDE DEF ended
<1>4. RunsOnlyEnd
  BY <1>1, <1>2, <1>3 DEF RunsOnlyEnd
<1>5. ASSUME OutcomesInv, NEW i \in DOMAIN finished', finished'[i].id = r
      PROVE  finished'[i].status = status
  BY <1>1, <1>2, <1>5 DEF OutcomesInv
<1>6. OutcomesInv /\ status \in Terminal => EndKnown(r, status)'
  BY <1>1, <1>3, <1>5 DEF EndKnown
<1> QED BY <1>4, <1>6

\* What is left of a call's writes was part of them.
LEMMA WriteDonePart ==
  ASSUME TypeInv, OutcomesInv, NEW w \in writes
  PROVE  /\ \A v \in WriteDone(w) : \A i \in DOMAIN v : EndKnown(v[i].id, v[i].status)
         /\ EndKnown(Head(w).id, Head(w).status)
<1>1. w \in Seq(Note) /\ w # <<>>
  BY DEF TypeInv, WritesOK
<1>2. \A i \in DOMAIN w : EndKnown(w[i].id, w[i].status)
  BY DEF OutcomesInv
<1>3. Len(w) \in Nat \ {0} /\ DOMAIN w = 1..Len(w) /\ Head(w) = w[1]
  BY <1>1
<1>4. \A i \in DOMAIN Tail(w) : EndKnown(Tail(w)[i].id, Tail(w)[i].status)
  <2>1. /\ DOMAIN Tail(w) = 1..(Len(w) - 1)
        /\ \A i \in 1..(Len(w) - 1) : Tail(w)[i] = w[i + 1]
    BY <1>1
  <2> QED BY <1>2, <1>3, <2>1
<1> QED BY <1>2, <1>3, <1>4 DEF WriteDone, OutcomesInv

LEMMA NextOutcomes == TypeInv /\ OutcomesInv /\ [Next]_vars => OutcomesInv'
<1> SUFFICES ASSUME TypeInv, OutcomesInv, [Next]_vars PROVE OutcomesInv'
  OBVIOUS
<1> USE DEF engine
<1>a. run_counter \in Nat
  BY TypeInvNumbered DEF Numbered
<1>b. ASSUME UNCHANGED <<finished, run_counter>>, DOMAIN active' = DOMAIN active
      PROVE  RunsOnlyEnd
  BY <1>a, <1>b DEF RunsOnlyEnd
<1>0. ASSUME UNCHANGED <<finished, run_counter, stored, writes>>,
             DOMAIN active' = DOMAIN active
      PROVE  OutcomesInv'
  BY <1>b, <1>0, OutcomesStay
<1>1. ASSUME NEW names \in Triggered, StartRuns(names) PROVE OutcomesInv'
  <2> DEFINE after == StartAll(names)
             started == [i \in 1..(after.run_counter - run_counter) |->
                            after.active[run_counter + i]]
  <2>1. /\ active' = after.active /\ run_counter' = after.run_counter
        /\ writes' = writes \cup Audit(started)
        /\ UNCHANGED <<finished, stored>> /\ after.run_counter <= MaxRuns
    BY <1>1 DEF StartRuns
  <2>2. StartedFrom(after) /\ sops \in Catalogs
    BY SopAssumption, StartAllStarted, TypeInvNumbered DEF Numbered
  <2> HIDE DEF after
  <2>3. RunsOnlyEnd
    BY <2>1, <2>2 DEF StartedFrom, RunsOnlyEnd
  <2>4. ASSUME NEW w \in Audit(started), NEW i \in DOMAIN w
        PROVE  w[i].status \notin Terminal
    <3>1. w = [j \in DOMAIN started |-> Snapshot(started[j])]
      BY <2>4 DEF Audit
    <3>2. i \in 1..(after.run_counter - run_counter) /\ w[i].status = started[i].status
      BY <2>4, <3>1 DEF Snapshot
    <3>3. run_counter + i \in (run_counter + 1)..after.run_counter
          /\ run_counter + i \in Ids
      BY <1>a, <2>1, <2>2, <3>2, SopAssumption DEF StartedFrom, Ids
    <3>4. PICK s \in DOMAIN sops : /\ sops[s].confirm # <<>>
                                   /\ started[i] = NewRun(s, run_counter + i)
      BY <2>2, <3>2, <3>3 DEF StartedFrom
    <3> QED BY <2>2, <3>2, <3>3, <3>4, NewRunType
  <2> HIDE DEF started
  <2> QED BY <2>1, <2>3, <2>4, OutcomesStay DEF EndKnown
<1>2. ASSUME NEW r \in Ids, NEW outcome \in Outcomes, AdvanceStep(r, outcome)
      PROVE  OutcomesInv'
  <2>1. r \in DOMAIN active /\ active[r] \in RunType /\ active[r].id = r
    BY <1>2, AdvanceCases DEF TypeInv, ActiveOK
  <2>2. CASE AdvanceEnds(r, outcome)
    <3> DEFINE run == Recorded(active[r], outcome)
               end == EndOf(outcome)
    <3>1. run \in RunType /\ run.id = r
      BY <2>1, RecordedType
    <3>2. end \in Statuses /\ end \in Terminal
      BY DEF EndOf, Statuses, Terminal
    <3>3. Finish(run, end) /\ UNCHANGED <<run_counter, stored>>
          /\ writes' = writes \cup {<<[id |-> r, status |-> end]>>}
      BY <2>2 DEF AdvanceEnds
    <3> HIDE DEF run, end
    <3>4. RunsOnlyEnd /\ EndKnown(r, end)'
      BY <2>1, <3>1, <3>2, <3>3, FinishEnds
    <3>5. ASSUME NEW i \in DOMAIN <<[id |-> r, status |-> end]>>
          PROVE  EndKnown(<<[id |-> r, status |-> end]>>[i].id,
                          <<[id |-> r, status |-> end]>>[i].status)'
      <4>1. i = 1
        OBVIOUS
      <4>2. <<[id |-> r, status |-> end]>>[i] = [id |-> r, status |-> end]
        BY <4>1
      <4> QED BY <3>4, <4>2
    <3> QED BY <3>3, <3>4, <3>5, OutcomesStay
  <2>3. CASE AdvanceGoesOn(r, outcome)
    BY <1>0, <2>3 DEF AdvanceGoesOn
  <2>4. CASE Panic
    BY <1>0, <2>4 DEF Panic
  <2> QED BY <1>2, <2>2, <2>3, <2>4, AdvanceCases
<1>3. ASSUME NEW r \in Ids, CancelRun(r) PROVE OutcomesInv'
  <2>1. /\ r \in DOMAIN active /\ Finish(active[r], "Cancelled")
        /\ UNCHANGED <<run_counter, writes, stored>>
    BY <1>3 DEF CancelRun
  <2>2. active[r] \in RunType /\ active[r].id = r /\ "Cancelled" \in Statuses
    BY <2>1 DEF TypeInv, ActiveOK, Statuses, Terminal
  <2>3. RunsOnlyEnd
    BY <2>1, <2>2, FinishEnds
  <2> QED BY <2>1, <2>3, OutcomesStay
<1>4. ASSUME NEW runs, Approve(runs) PROVE OutcomesInv'
  <2>1. CASE Panic
    BY <1>0, <2>1 DEF Panic
  <2>2. CASE ~Panic
    BY <1>0, <1>4, <2>2 DEF Approve
  <2> QED BY <2>1, <2>2
<1>5. ASSUME NEW r \in Ids, RunStep(r) PROVE OutcomesInv'
  <2>1. CASE WaitTimesOut(r)
    BY <1>0, <2>1 DEF WaitTimesOut
  <2> QED BY <1>2, <1>3, <1>4, <1>5, <2>1 DEF RunStep, ApproveStep
<1>6. CASE CheckApprovalTimeouts
  BY <1>4, <1>6 DEF CheckApprovalTimeouts
<1>7. CASE Reload
  BY <1>0, <1>7 DEF Reload
<1>8. ASSUME NEW i \in DOMAIN cooling, CooldownElapses(i) PROVE OutcomesInv'
  BY <1>0, <1>8 DEF CooldownElapses
<1>9. ASSUME NEW w \in writes, AuditStep(w) PROVE OutcomesInv'
  <2>1. writes' = WriteDone(w) /\ UNCHANGED <<engine, cooling, approved>>
    BY <1>9 DEF AuditStep, StoreRecord, StoreFails
  <2>2. RunsOnlyEnd
    BY <1>b, <2>1
  <2>3. \A v \in writes' : \A i \in DOMAIN v : EndKnown(v[i].id, v[i].status)'
    <3>1. \A v \in writes' : \A i \in DOMAIN v : EndKnown(v[i].id, v[i].status)
      BY <2>1, WriteDonePart
    <3> QED BY <2>2, <3>1, EndsStayKnown
  <2>4. \A r \in Ids : EndKnown(r, stored[r])'
    <3> SUFFICES ASSUME NEW r \in Ids PROVE EndKnown(r, stored[r])'
      OBVIOUS
    <3>1. PICK status : status = stored'[r]
      OBVIOUS
    <3>2. EndKnown(r, status)
      <4>1. EndKnown(r, stored[r]) /\ EndKnown(Head(w).id, Head(w).status)
        BY WriteDonePart DEF OutcomesInv
      <4>2. CASE stored' = stored
        BY <3>1, <4>1, <4>2
      <4>3. CASE stored' = [stored EXCEPT ![Head(w).id] = Head(w).status]
        <5>1. r \in DOMAIN stored
          BY DEF TypeInv, RestOK
        <5>2. status = IF r = Head(w).id THEN Head(w).status ELSE stored[r]
          BY <3>1, <4>3, <5>1
        <5> QED BY <4>1, <5>2
      <4> QED BY <1>9, <4>2, <4>3 DEF AuditStep, StoreRecord, StoreFails
    <3>3. EndKnown(r, status)'
      BY <2>2, <3>2, EndsStayKnown
    <3> QED BY <3>1, <3>3 DEF EndKnown
  <2> QED BY <2>2, <2>3, <2>4, FinishedStayKnown DEF OutcomesInv
<1>10. CASE UNCHANGED vars
  BY <1>0, <1>10 DEF vars
<1> QED BY <1>1, <1>5, <1>6, <1>7, <1>8, <1>9, <1>10 DEF Next

\* Whatever the order in which the writes of the calls reach the memory backend,
\* no run record claims an end that did not happen.
THEOREM OutcomesAreTrue == Spec => []StoredOutcomesAreTrue
<1>1. Init => OutcomesInv
  BY DEF Init, OutcomesInv, EndKnown, Terminal
<1> QED BY <1>1, NextOutcomes, OutcomesInvImplies, TypeInvHolds, PTL DEF Spec

-----------------------------------------------------------------------------
(* Starts stay within the limits *)

\* What StartsWithinLimits says of the runs of one SOP, but for the cooldown.
Room(s) ==
    /\ Cardinality(ActiveOf(active', s)) <= sops[s].max_concurrent
    /\ Cardinality(DOMAIN active') <= MaxConcurrentTotal

\* Only batches start runs, and can_start let each of them in.
LEMMA StartsWereLetIn ==
  ASSUME TypeInv, [Next]_vars, NEW r \in DOMAIN active' \ DOMAIN active
  PROVE  /\ Room(active'[r].sop)
         /\ ~(sops[active'[r].sop].cooldown /\ CoolingDown(active'[r].sop))
<1> USE DEF engine
<1>0. DOMAIN active' \subseteq DOMAIN active => FALSE
  OBVIOUS
<1>1. ASSUME NEW names \in Triggered, StartRuns(names)
      PROVE  /\ Room(active'[r].sop)
             /\ ~(sops[active'[r].sop].cooldown /\ CoolingDown(active'[r].sop))
  <2> DEFINE after == StartAll(names)
  <2>1. active' = after.active
    BY <1>1 DEF StartRuns
  <2>2. StartedFrom(after)
    BY SopAssumption, StartAllStarted, TypeInvNumbered
  <2> HIDE DEF after
  <2>3. r \in (run_counter + 1)..after.run_counter
    BY <2>1, <2>2 DEF StartedFrom
  <2>4. PICK s \in DOMAIN sops :
           /\ after.active[r] = NewRun(s, r)
           /\ Cardinality(ActiveOf(after.active, s)) <= sops[s].max_concurrent
           /\ Cardinality(DOMAIN after.active) <= MaxConcurrentTotal
           /\ ~(sops[s].cooldown /\ CoolingDown(s))
    BY <2>2, <2>3 DEF StartedFrom
  <2>5. active'[r].sop = s
    BY <2>1, <2>4, NewRunSop
  <2> QED BY <2>1, <2>4, <2>5 DEF Room
<1>2. ASSUME NEW q \in Ids, NEW outcome \in Outcomes, AdvanceStep(q, outcome) PROVE FALSE
  <2>1. q \in DOMAIN active /\ active[q] \in RunType
    BY <1>2, AdvanceCases DEF TypeInv, ActiveOK
  <2>2. CASE AdvanceEnds(q, outcome)
    <3>1. Finish(Recorded(active[q], outcome), EndOf(outcome))
      BY <2>2 DEF AdvanceEnds
    <3> QED BY <1>0, <3>1 DEF Finish
  <2>3. CASE AdvanceGoesOn(q, outcome)
    BY <1>0, <2>3 DEF AdvanceGoesOn
  <2>4. CASE Panic
    BY <1>0, <2>4 DEF Panic
  <2> QED BY <1>2, <2>2, <2>3, <2>4, AdvanceCases
<1>3. ASSUME NEW runs, Approve(runs) PROVE FALSE
  <2>1. CASE Panic
    BY <1>0, <2>1 DEF Panic
  <2>2. CASE ~Panic
    BY <1>0, <1>3, <2>2 DEF Approve
  <2> QED BY <2>1, <2>2
<1>4. ASSUME NEW q \in Ids, RunStep(q) PROVE FALSE
  <2>1. CASE CancelRun(q)
    BY <1>0, <2>1 DEF CancelRun, Finish
  <2>2. CASE WaitTimesOut(q)
    BY <1>0, <2>2 DEF WaitTimesOut
  <2> QED BY <1>2, <1>3, <1>4, <2>1, <2>2 DEF RunStep, ApproveStep
<1>5. CASE CheckApprovalTimeouts
  BY <1>3, <1>5 DEF CheckApprovalTimeouts
<1>6. CASE Reload
  BY <1>0, <1>6 DEF Reload
<1>7. ASSUME NEW i \in DOMAIN cooling, CooldownElapses(i) PROVE FALSE
  BY <1>0, <1>7 DEF CooldownElapses
<1>8. ASSUME NEW w \in writes, AuditStep(w) PROVE FALSE
  BY <1>0, <1>8 DEF AuditStep, StoreRecord, StoreFails
<1>9. CASE UNCHANGED vars
  BY <1>0, <1>9 DEF vars
<1> QED BY <1>1, <1>4, <1>5, <1>6, <1>7, <1>8, <1>9 DEF Next

\* The concurrency limits, of the SOP and of all of them, hold after every batch
\* of starts, however many finished runs are kept.
StartsFindRoom == [][\A r \in DOMAIN active' \ DOMAIN active : Room(active'[r].sop)]_vars

\* A batch starts no run beyond a concurrency limit, for any limits and catalogs
\* and whatever is forgotten meanwhile (can_start, asked before each start).
THEOREM LimitsHoldForBatches == Spec => StartsFindRoom
<1>1. TypeInv /\ [Next]_vars
         => [\A r \in DOMAIN active' \ DOMAIN active : Room(active'[r].sop)]_vars
  BY StartsWereLetIn
<1> QED BY <1>1, TypeInvHolds, PTL DEF Spec, StartsFindRoom

-----------------------------------------------------------------------------
(* Cooldowns *)

Same(fin, cool, k, i) == cool[k].id = fin[i].id
Covers(fin, cool, i) == \E k \in DOMAIN cool : Same(fin, cool, k, i)

\* The finished runs that cool down are, for every SOP, the newest of them.
CoolsNewest(fin, cool) ==
    /\ \A i, j \in DOMAIN fin : fin[i].id = fin[j].id => i = j
    /\ \A k \in DOMAIN cool : \A i \in DOMAIN fin :
           Same(fin, cool, k, i) => cool[k].sop = fin[i].sop
    /\ \A k, l \in DOMAIN cool : \A i, j \in DOMAIN fin :
           k < l /\ Same(fin, cool, k, i) /\ Same(fin, cool, l, j) => i < j
    /\ \A i, j \in DOMAIN fin :
           i < j /\ fin[i].sop = fin[j].sop /\ Covers(fin, cool, i)
               => Covers(fin, cool, j)

\* Only a full memory has forgotten a run that still cools down.
Full == MaxFinishedRuns > 0 /\ Len(finished) = MaxFinishedRuns
NothingLost ==
    \A k \in DOMAIN cooling :
        /\ cooling[k].id \in 1..run_counter /\ cooling[k].id \notin DOMAIN active
        /\ Full \/ \E i \in DOMAIN finished : Same(finished, cooling, k, i)

CoolingInv == CoolsNewest(finished, cooling) /\ NothingLost

\* A non-empty set of positions has a last one.
LEMMA LastPosition ==
  ASSUME NEW n \in Nat, NEW T, T \subseteq 1..n, T # {}
  PROVE  \E m \in T : \A i \in T : i <= m
<1> DEFINE D == {n - i : i \in T}
           R == OpToRel(<, Nat)
<1>1. IsWellFoundedOn(R, Nat)
  BY NatLessThanWellFounded
<1>2. \A x, y \in Nat : x < y => <<x, y>> \in R
  BY DEF OpToRel
<1>3. D \subseteq Nat /\ D # {}
  <2>1. \A i \in T : n - i \in Nat
    OBVIOUS
  <2> QED BY <2>1
<1> HIDE DEF R
<1>4. PICK x \in D : \A y \in D : ~(<<y, x>> \in R)
  <2> HIDE DEF D
  <2> QED BY <1>1, <1>3, WFMin
<1>5. PICK m \in T : x = n - m
  OBVIOUS
<1>6. ASSUME NEW i \in T PROVE i <= m
  <2>1. n - i \in D /\ n - i \in Nat /\ x \in Nat
    BY <1>3
  <2>2. ~(n - i < n - m)
    BY <1>2, <1>4, <1>5, <2>1
  <2> QED BY <2>2
<1> QED BY <1>6

\* can_start asks the last finished run only: it cools down if any does that is
\* still in memory.
LEMMA NothingCools ==
  ASSUME TypeInv, CoolingInv, NEW s, ~CoolingDown(s)
  PROVE  \A k \in DOMAIN cooling : cooling[k].sop = s => Forgotten(cooling[k].id)
<1> SUFFICES ASSUME NEW k \in DOMAIN cooling, cooling[k].sop = s,
                    ~Forgotten(cooling[k].id)
             PROVE  FALSE
  OBVIOUS
<1> DEFINE own == {i \in DOMAIN finished : finished[i].sop = s}
<1>0. PICK i \in DOMAIN finished : Same(finished, cooling, k, i)
  BY DEF CoolingInv, NothingLost, Full, Forgotten, Same
<1>1. i \in own
  BY <1>0 DEF CoolingInv, CoolsNewest
<1>2. DOMAIN finished = 1..Len(finished) /\ Len(finished) \in Nat
  BY DEF TypeInv, FinishedOK
<1>3. PICK m \in own : \A j \in own : j <= m
  <2>1. own \subseteq 1..Len(finished) /\ own # {}
    BY <1>1, <1>2
  <2> HIDE DEF own
  <2> QED BY <1>2, <2>1, LastPosition
<1>4. Covers(finished, cooling, m)
  <2>1. CASE i = m
    BY <1>0, <2>1 DEF Covers
  <2>2. CASE i # m
    <3>1. i < m /\ Covers(finished, cooling, i)
      BY <1>0, <1>1, <1>2, <1>3, <2>2 DEF Covers
    <3>2. finished[i].sop = finished[m].sop
      BY <1>1
    <3> QED BY <3>1, <3>2 DEF CoolingInv, CoolsNewest
  <2> QED BY <2>1, <2>2
<1>5. CoolingDown(s)
  BY <1>3, <1>4 DEF CoolingDown, Covers, Same
<1> QED BY <1>5

\* Forgetting the oldest finished runs disturbs none of this.
LEMMA KeptCoolsNewest ==
  ASSUME NEW runs \in Seq(RunType), NEW cool, CoolsNewest(runs, cool),
         DOMAIN cool \subseteq Nat
  PROVE  CoolsNewest(Kept(runs), cool)
<1> DEFINE kept == Kept(runs)
<1>1. PICK d \in Nat : \A i \in DOMAIN kept :
          i \in Nat /\ i + d \in DOMAIN runs /\ kept[i] = runs[i + d]
  BY KeptTail DEF TailOf
<1> HIDE DEF kept
<1>2. \A k, i : i \in DOMAIN kept => (Same(kept, cool, k, i) <=> Same(runs, cool, k, i + d))
  BY <1>1 DEF Same
<1>3. \A i \in DOMAIN kept : Covers(kept, cool, i) <=> Covers(runs, cool, i + d)
  BY <1>2 DEF Covers
<1>4. \A i, j \in DOMAIN kept : /\ i < j <=> i + d < j + d
                                /\ i = j <=> i + d = j + d
  BY <1>1
<1>5. \A i, j \in DOMAIN kept : kept[i].id = kept[j].id => i = j
  BY <1>1, <1>4 DEF CoolsNewest
<1>6. \A k \in DOMAIN cool : \A i \in DOMAIN kept :
          Same(kept, cool, k, i) => cool[k].sop = kept[i].sop
  BY <1>1, <1>2 DEF CoolsNewest
<1>7. \A k, l \in DOMAIN cool : \A i, j \in DOMAIN kept :
          k < l /\ Same(kept, cool, k, i) /\ Same(kept, cool, l, j) => i < j
  BY <1>1, <1>2, <1>4 DEF CoolsNewest
<1>8. \A i, j \in DOMAIN kept :
          i < j /\ kept[i].sop = kept[j].sop /\ Covers(kept, cool, i)
              => Covers(kept, cool, j)
  BY <1>1, <1>3, <1>4 DEF CoolsNewest
<1>9. CoolsNewest(kept, cool)
  BY <1>5, <1>6, <1>7, <1>8 DEF CoolsNewest
<1> QED BY <1>9 DEF kept

\* finish_run: the run is the newest of the finished ones and of those that cool
\* down.
LEMMA FinishCooling ==
  ASSUME TypeInv, OutcomesInv, CoolingInv,
         NEW run \in RunType, NEW status \in Statuses, run.id \in DOMAIN active,
         Finish(run, status), run_counter' = run_counter
  PROVE  CoolingInv'
<1> DEFINE ended == [run EXCEPT !.status = status]
           cooled == [id |-> run.id, sop |-> run.sop]
           all == Append(finished, ended)
           cool == Append(cooling, cooled)
<1> PICK n, c : n = Len(finished) /\ c = Len(cooling)
  OBVIOUS
<1>1. ended \in RunType /\ ended.id = run.id /\ ended.sop = run.sop
  BY DEF RunType
<1>2. cooled.id = run.id /\ cooled.sop = run.sop /\ cooled \in [id: Ids, sop: Sops]
  BY DEF RunType
<1>3. finished \in Seq(RunType) /\ cooling \in Seq([id: Ids, sop: Sops])
  BY DEF TypeInv, FinishedOK, RestOK
<1>4. /\ finished' = Kept(all) /\ cooling' = cool
      /\ DOMAIN active' = DOMAIN active \ {run.id}
  BY DEF Finish
<1> HIDE DEF ended, cooled
<1>5. /\ n \in Nat /\ DOMAIN finished = 1..n /\ DOMAIN all = 1..(n + 1)
      /\ \A i \in 1..n : all[i] = finished[i]
      /\ all[n + 1] = ended /\ all \in Seq(RunType) /\ Len(all) = n + 1
  BY <1>1, <1>3
<1>6. /\ c \in Nat /\ DOMAIN cooling = 1..c /\ DOMAIN cool = 1..(c + 1)
      /\ \A k \in 1..c : cool[k] = cooling[k]
      /\ cool[c + 1] = cooled
  BY <1>2, <1>3
<1> HIDE DEF all, cool
<1>7. \A i \in 1..n : finished[i].id # run.id
  BY <1>5 DEF OutcomesInv
<1>8. \A k \in 1..c : cooling[k].id # run.id
  BY <1>6 DEF CoolingInv, NothingLost
<1>9. /\ \A k \in 1..c, i \in 1..n :
             Same(all, cool, k, i) <=> Same(finished, cooling, k, i)
      /\ \A k \in 1..c : ~Same(all, cool, k, n + 1)
      /\ \A i \in 1..n : ~Same(all, cool, c + 1, i)
      /\ Same(all, cool, c + 1, n + 1)
  <2>1. \A k \in 1..c, i \in 1..n :
            Same(all, cool, k, i) <=> Same(finished, cooling, k, i)
    BY <1>5, <1>6 DEF Same
  <2>2. \A k \in 1..c : ~Same(all, cool, k, n + 1)
    BY <1>1, <1>5, <1>6, <1>8 DEF Same
  <2>3. \A i \in 1..n : ~Same(all, cool, c + 1, i)
    BY <1>2, <1>5, <1>6, <1>7 DEF Same
  <2>4. Same(all, cool, c + 1, n + 1)
    BY <1>1, <1>2, <1>5, <1>6 DEF Same
  <2> QED BY <2>1, <2>2, <2>3, <2>4
<1>10. /\ \A i \in 1..(n + 1) : i \in 1..n \/ i = n + 1
       /\ \A k \in 1..(c + 1) : k \in 1..c \/ k = c + 1
       /\ n + 1 \in 1..(n + 1) /\ c + 1 \in 1..(c + 1)
  BY <1>5, <1>6
<1>11. \A i, j \in 1..(n + 1) : all[i].id = all[j].id => i = j
  <2>1. \A i, j \in 1..n : all[i].id = all[j].id => i = j
    BY <1>5 DEF CoolingInv, CoolsNewest
  <2>2. \A i \in 1..n : all[i].id # all[n + 1].id
    BY <1>1, <1>5, <1>7
  <2> QED BY <1>10, <2>1, <2>2
<1>12. ASSUME NEW k \in 1..(c + 1), NEW i \in 1..(n + 1), Same(all, cool, k, i)
       PROVE  cool[k].sop = all[i].sop
  <2>1. CASE k = c + 1
    BY <1>1, <1>2, <1>5, <1>6, <1>9, <1>10, <1>12, <2>1
  <2>2. CASE k \in 1..c
    <3>1. i \in 1..n /\ Same(finished, cooling, k, i)
      BY <1>9, <1>10, <1>12, <2>2
    <3> QED BY <1>5, <1>6, <2>2, <3>1 DEF CoolingInv, CoolsNewest
  <2> QED BY <1>10, <2>1, <2>2
<1>13. ASSUME NEW k \in 1..(c + 1), NEW l \in 1..(c + 1), NEW i \in 1..(n + 1),
              NEW j \in 1..(n + 1), k < l, Same(all, cool, k, i), Same(all, cool, l, j)
       PROVE  i < j
  <2>1. k \in 1..c /\ i \in 1..n
    BY <1>6, <1>9, <1>10, <1>13
  <2>2. CASE l = c + 1
    BY <1>5, <1>9, <1>10, <1>13, <2>1, <2>2
  <2>3. CASE l \in 1..c
    <3>1. j \in 1..n
      BY <1>9, <1>10, <1>13, <2>3
    <3> QED BY <1>5, <1>6, <1>9, <1>13, <2>1, <2>3, <3>1 DEF CoolingInv, CoolsNewest
  <2> QED BY <1>10, <2>2, <2>3
<1>14. ASSUME NEW i \in 1..(n + 1), NEW j \in 1..(n + 1), i < j,
              all[i].sop = all[j].sop, NEW k \in 1..(c + 1), Same(all, cool, k, i)
       PROVE  \E l \in 1..(c + 1) : Same(all, cool, l, j)
  <2>1. CASE j = n + 1
    BY <1>9, <1>10, <2>1
  <2>2. CASE j \in 1..n
    <3>1. i \in 1..n /\ k \in 1..c
      BY <1>5, <1>9, <1>10, <1>14, <2>2
    <3>2. PICK l \in 1..c : Same(finished, cooling, l, j)
      BY <1>5, <1>6, <1>9, <1>14, <2>2, <3>1 DEF CoolingInv, CoolsNewest, Covers
    <3>3. l \in 1..(c + 1)
      BY <1>6
    <3> QED BY <1>9, <2>2, <3>2, <3>3
  <2> QED BY <1>10, <2>1, <2>2
<1>15. CoolsNewest(all, cool)
  BY <1>5, <1>6, <1>11, <1>12, <1>13, <1>14, ZenonT(40) DEF CoolsNewest, Covers
<1>16. CoolsNewest(finished', cooling')
  BY <1>4, <1>5, <1>6, <1>15, KeptCoolsNewest
<1>17. NothingLost'
  <2> SUFFICES ASSUME NEW k \in 1..(c + 1)
               PROVE  /\ cool[k].id \in 1..run_counter /\ cool[k].id \notin DOMAIN active'
                      /\ Full' \/ \E i \in DOMAIN finished' : Same(finished', cool, k, i)
    BY <1>4, <1>6 DEF NothingLost
  <2>1. cool[k].id \in 1..run_counter /\ cool[k].id \notin DOMAIN active'
    <3>1. run.id \in 1..run_counter
      BY TypeInvNumbered DEF Numbered
    <3> QED BY <1>2, <1>4, <1>6, <1>10, <3>1 DEF CoolingInv, NothingLost
  <2>2. CASE Full'
    BY <2>1, <2>2
  <2>3. CASE ~Full'
    <3>1. finished' = all /\ ~Full
      <4>1. MaxFinishedRuns \in Nat
        BY SopAssumption
      <4> QED BY <1>4, <1>5, <2>3, <4>1, KeptTail DEF Full
    <3>2. \E i \in 1..(n + 1) : Same(all, cool, k, i)
      <4>1. CASE k = c + 1
        BY <1>9, <1>10, <4>1
      <4>2. CASE k \in 1..c
        <5>1. PICK i \in 1..n : Same(finished, cooling, k, i)
          BY <1>5, <1>6, <3>1, <4>2 DEF CoolingInv, NothingLost
        <5>2. i \in 1..(n + 1)
          BY <1>5
        <5> QED BY <1>9, <4>2, <5>1, <5>2
      <4> QED BY <1>10, <4>1, <4>2
    <3> QED BY <1>5, <2>1, <3>1, <3>2
  <2> QED BY <2>2, <2>3
<1> QED BY <1>16, <1>17 DEF CoolingInv

\* Of the runs of an SOP the oldest one that still cools down is through first.
LEMMA ElapsedCooling ==
  ASSUME TypeInv, CoolingInv, NEW x \in DOMAIN cooling, CooldownElapses(x)
  PROVE  CoolingInv'
<1> PICK c : c = Len(cooling)
  OBVIOUS
<1> PICK old : old = cooling
  OBVIOUS
<1>1. /\ cooling \in Seq([id: Ids, sop: Sops]) /\ c \in Nat
      /\ DOMAIN cooling = 1..c /\ x \in 1..c
  BY DEF TypeInv, RestOK
<1>2. /\ DOMAIN cooling' = 1..(c - 1)
      /\ \A k \in 1..(c - 1) : cooling'[k] = IF k < x THEN cooling[k] ELSE cooling[k + 1]
  <2>1. cooling' = RemoveAt(cooling, x)
    BY DEF CooldownElapses
  <2>2. /\ cooling' \in Seq([id: Ids, sop: Sops]) /\ Len(cooling') = c - 1
        /\ \A k \in 1..(c - 1) : cooling'[k] = IF k < x THEN cooling[k] ELSE cooling[k + 1]
    BY <1>1, <2>1, RemoveAtShifts
  <2> QED BY <2>2
<1>3. /\ UNCHANGED <<finished, active, run_counter>>
      /\ \A k \in 1..(x - 1) : cooling[k].sop # cooling[x].sop
  BY DEF CooldownElapses, engine
<1> DEFINE Was(k) == IF k < x THEN k ELSE k + 1
<1>4. \A k \in 1..(c - 1) : Was(k) \in 1..c /\ Was(k) # x /\ cooling'[k] = cooling[Was(k)]
  BY <1>1, <1>2
<1>5. \A k, l \in 1..(c - 1) : k < l => Was(k) < Was(l)
  BY <1>1
<1>6. \A k \in 1..c : k # x => \E l \in 1..(c - 1) : Was(l) = k
  <2> SUFFICES ASSUME NEW k \in 1..c, k # x PROVE \E l \in 1..(c - 1) : Was(l) = k
    OBVIOUS
  <2>1. CASE k < x
    BY <1>1, <2>1
  <2>2. CASE k > x
    <3>1. k - 1 \in 1..(c - 1) /\ Was(k - 1) = k
      BY <1>1, <2>2
    <3> QED BY <3>1
  <2> QED BY <1>1, <2>1, <2>2
<1> HIDE DEF Was
<1>7. \A k \in 1..(c - 1), i \in DOMAIN finished :
          Same(finished, cooling', k, i) <=> Same(finished, cooling, Was(k), i)
  BY <1>3, <1>4 DEF Same
<1>8. ASSUME NEW k \in 1..(c - 1), NEW i \in DOMAIN finished,
             Same(finished, cooling', k, i)
      PROVE  cooling'[k].sop = finished[i].sop
  BY <1>1, <1>4, <1>7, <1>8 DEF CoolingInv, CoolsNewest
<1>9. ASSUME NEW k \in 1..(c - 1), NEW l \in 1..(c - 1), NEW i \in DOMAIN finished,
             NEW j \in DOMAIN finished, k < l, Same(finished, cooling', k, i),
             Same(finished, cooling', l, j)
      PROVE  i < j
  <2>1. Was(k) < Was(l) /\ Same(finished, cooling, Was(k), i) /\ Same(finished, cooling, Was(l), j)
    BY <1>5, <1>7, <1>9
  <2> QED BY <1>1, <1>4, <2>1 DEF CoolingInv, CoolsNewest
<1>10. ASSUME NEW i \in DOMAIN finished, NEW j \in DOMAIN finished, i < j,
              finished[i].sop = finished[j].sop, NEW k \in 1..(c - 1), Same(finished, cooling', k, i)
       PROVE  \E l \in 1..(c - 1) : Same(finished, cooling', l, j)
  <2>1. Same(finished, cooling, Was(k), i) /\ Was(k) \in 1..c /\ Was(k) # x
    BY <1>4, <1>7, <1>10
  <2>2. PICK l \in 1..c : Same(finished, cooling, l, j)
    BY <1>1, <1>10, <2>1 DEF CoolingInv, CoolsNewest, Covers
  <2>3. cooling[Was(k)].sop = finished[i].sop /\ cooling[l].sop = finished[j].sop
    <3>1. \A m \in 1..c, a \in DOMAIN finished : Same(finished, cooling, m, a) => cooling[m].sop = finished[a].sop
      BY <1>1 DEF CoolingInv, CoolsNewest
    <3> QED BY <1>10, <2>1, <2>2, <3>1
  <2>4. Was(k) < l
    <3>0. i \in Nat /\ j \in Nat
      BY DEF TypeInv, FinishedOK
    <3>1. l # Was(k)
      <4>1. l = Was(k) => finished[i].id = finished[j].id
        BY <2>1, <2>2 DEF Same
      <4>2. finished[i].id # finished[j].id
        BY <1>10, <3>0 DEF CoolingInv, CoolsNewest
      <4> QED BY <4>1, <4>2
    <3>2. ~(l < Was(k))
      <4>1. l < Was(k) => j < i
        BY <1>1, <2>1, <2>2 DEF CoolingInv, CoolsNewest
      <4> QED BY <1>10, <3>0, <4>1
    <3> QED BY <1>1, <2>1, <2>2, <3>1, <3>2
  <2>5. l # x
    BY <1>1, <1>3, <1>10, <2>1, <2>3, <2>4
  <2>6. PICK m \in 1..(c - 1) : Was(m) = l
    BY <1>6, <2>2, <2>5
  <2> QED BY <1>7, <2>2, <2>6
<1>11. CoolsNewest(finished, cooling')
  BY <1>2, <1>8, <1>9, <1>10, ZenonT(40) DEF CoolingInv, CoolsNewest, Covers
<1>12. NothingLost'
  <2> SUFFICES ASSUME NEW k \in 1..(c - 1)
               PROVE  /\ cooling'[k].id \in 1..run_counter
                      /\ cooling'[k].id \notin DOMAIN active
                      /\ Full \/ \E i \in DOMAIN finished : Same(finished, cooling', k, i)
    BY <1>2, <1>3 DEF NothingLost, Full
  <2>1. /\ cooling[Was(k)].id \in 1..run_counter /\ cooling[Was(k)].id \notin DOMAIN active
        /\ Full \/ \E i \in DOMAIN finished : Same(finished, cooling, Was(k), i)
    BY <1>1, <1>4 DEF CoolingInv, NothingLost
  <2> QED BY <1>4, <1>7, <2>1
<1> QED BY <1>3, <1>11, <1>12 DEF CoolingInv

LEMMA NextCooling ==
  ASSUME TypeInv, OutcomesInv, CoolingInv, [Next]_vars
  PROVE  CoolingInv'
<1> USE DEF engine
<1>a. run_counter \in Nat
  BY TypeInvNumbered DEF Numbered
<1>b. ASSUME UNCHANGED <<finished, cooling>>, RunsOnlyEnd PROVE CoolingInv'
  <2>1. \A k \in DOMAIN cooling :
            cooling[k].id \in 1..run_counter' /\ cooling[k].id \notin DOMAIN active'
    BY <1>a, <1>b DEF RunsOnlyEnd, CoolingInv, NothingLost
  <2> QED BY <1>b, <2>1 DEF CoolingInv, NothingLost, Full
<1>0. ASSUME UNCHANGED <<finished, run_counter, cooling>>, DOMAIN active' = DOMAIN active
      PROVE  CoolingInv'
  BY <1>a, <1>b, <1>0 DEF RunsOnlyEnd
<1>1. ASSUME NEW names \in Triggered, StartRuns(names) PROVE CoolingInv'
  <2> DEFINE after == StartAll(names)
  <2>1. /\ active' = after.active /\ run_counter' = after.run_counter
        /\ UNCHANGED <<finished, cooling>>
    BY <1>1 DEF StartRuns
  <2>2. StartedFrom(after)
    BY SopAssumption, StartAllStarted, TypeInvNumbered DEF Numbered
  <2> HIDE DEF after
  <2> QED BY <1>b, <2>1, <2>2 DEF StartedFrom, RunsOnlyEnd
<1>2. ASSUME NEW r \in Ids, NEW outcome \in Outcomes, AdvanceStep(r, outcome)
      PROVE  CoolingInv'
  <2>1. r \in DOMAIN active /\ active[r] \in RunType /\ active[r].id = r
    BY <1>2, AdvanceCases DEF TypeInv, ActiveOK
  <2>2. CASE AdvanceEnds(r, outcome)
    <3> DEFINE run == Recorded(active[r], outcome)
    <3>1. run \in RunType /\ run.id = r /\ EndOf(outcome) \in Statuses
      BY <2>1, RecordedType DEF EndOf, Statuses, Terminal
    <3>2. Finish(run, EndOf(outcome)) /\ run_counter' = run_counter
      BY <2>2 DEF AdvanceEnds
    <3> HIDE DEF run
    <3> QED BY <2>1, <3>1, <3>2, FinishCooling
  <2>3. CASE AdvanceGoesOn(r, outcome)
    BY <1>0, <2>3 DEF AdvanceGoesOn
  <2>4. CASE Panic
    BY <1>0, <2>4 DEF Panic
  <2> QED BY <1>2, <2>2, <2>3, <2>4, AdvanceCases
<1>3. ASSUME NEW r \in Ids, CancelRun(r) PROVE CoolingInv'
  <2>1. /\ r \in DOMAIN active /\ Finish(active[r], "Cancelled")
        /\ run_counter' = run_counter
    BY <1>3 DEF CancelRun
  <2>2. active[r] \in RunType /\ active[r].id = r /\ "Cancelled" \in Statuses
    BY <2>1 DEF TypeInv, ActiveOK, Statuses, Terminal
  <2> QED BY <2>1, <2>2, FinishCooling
<1>4. ASSUME NEW runs, Approve(runs) PROVE CoolingInv'
  <2>1. CASE Panic
    BY <1>0, <2>1 DEF Panic
  <2> QED BY <1>0, <1>4, <2>1 DEF Approve
<1>5. ASSUME NEW r \in Ids, RunStep(r) PROVE CoolingInv'
  <2>1. CASE WaitTimesOut(r)
    BY <1>0, <2>1 DEF WaitTimesOut
  <2> QED BY <1>2, <1>3, <1>4, <1>5, <2>1 DEF RunStep, ApproveStep
<1>6. CASE CheckApprovalTimeouts
  BY <1>4, <1>6 DEF CheckApprovalTimeouts
<1>7. CASE Reload
  BY <1>0, <1>7 DEF Reload
<1>8. ASSUME NEW i \in DOMAIN cooling, CooldownElapses(i) PROVE CoolingInv'
  BY <1>8, ElapsedCooling
<1>9. ASSUME NEW w \in writes, AuditStep(w) PROVE CoolingInv'
  BY <1>0, <1>9 DEF AuditStep, StoreRecord, StoreFails
<1>10. CASE UNCHANGED vars
  BY <1>0, <1>10 DEF vars
<1> QED BY <1>1, <1>5, <1>6, <1>7, <1>8, <1>9, <1>10 DEF Next

\* A run starts only where there is room, and after every run of its SOP that
\* the engine remembers has cooled down: for any limit on the finished runs, and
\* whatever is loaded again meanwhile (can_start, finish_run, reload).
THEOREM StartsWaitForCooldowns == Spec => StartsWithinLimits
<1> DEFINE Within ==
      \A r \in DOMAIN active' \ DOMAIN active :
          LET s == active'[r].sop
          IN /\ Cardinality(ActiveOf(active', s)) <= sops[s].max_concurrent
             /\ Cardinality(DOMAIN active') <= MaxConcurrentTotal
             /\ sops[s].cooldown =>
                    \A k \in DOMAIN cooling :
                        cooling[k].sop = s => Forgotten(cooling[k].id)
<1>1. Init => CoolingInv
  BY DEF Init, CoolingInv, CoolsNewest, NothingLost, Covers
<1>2. TypeInv /\ OutcomesInv /\ CoolingInv /\ [Next]_vars => CoolingInv'
  BY NextCooling
<1>3. TypeInv /\ CoolingInv /\ [Next]_vars => [Within]_vars
  <2> SUFFICES ASSUME TypeInv, CoolingInv, [Next]_vars,
                      NEW r \in DOMAIN active' \ DOMAIN active
               PROVE  LET s == active'[r].sop
                      IN /\ Room(s)
                         /\ sops[s].cooldown =>
                                \A k \in DOMAIN cooling :
                                    cooling[k].sop = s => Forgotten(cooling[k].id)
    BY DEF Room
  <2> QED BY StartsWereLetIn, NothingCools
<1>4. Init => OutcomesInv
  BY DEF Init, OutcomesInv, EndKnown, Terminal
<1> HIDE DEF Within
<1>5. Spec => [][Within]_vars
  BY <1>1, <1>2, <1>3, <1>4, NextOutcomes, TypeInvHolds, PTL DEF Spec
<1> QED BY <1>5 DEF Within, StartsWithinLimits
=============================================================================
