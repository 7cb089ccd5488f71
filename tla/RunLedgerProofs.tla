--------------------------- MODULE RunLedgerProofs ---------------------------
(***************************************************************************)
(* Theorems about RunLedger for every set of runs, files, calls and        *)
(* patterns, every limit and any number of crashes.                        *)
(*                                                                         *)
(* LedgerInv has three parts.  DataInv says that every ledger, in memory   *)
(* or in a file, is sound: in order, honest, and Grounded, which is what   *)
(* keeps the verifier from taking old evidence for a step that the plan    *)
(* has since replaced.  RecordInv says how far the save of a run is that   *)
(* has its file for itself (InStep).  MirrorInv says that a ledger is on   *)
(* its way to the tasks of the list: with the calls recorded that were     *)
(* executed and are not recorded yet, it has them (Follows).               *)
(***************************************************************************)
EXTENDS RunLedger, SequenceTheorems, WellFoundedInduction, TLAPS

-----------------------------------------------------------------------------
(* Induction and sequences *)

\* Every number is in a set that has 0 and, with each number, the next one.
LEMMA SetInduction ==
  ASSUME NEW S, 0 \in S, \A n \in Nat : n \in S => n + 1 \in S
  PROVE  \A n \in Nat : n \in S
<1> DEFINE T == {n \in Nat : n \notin S}
           R == OpToRel(<, Nat)
<1>1. SUFFICES ASSUME T # {} PROVE FALSE
  OBVIOUS
<1>2. IsWellFoundedOn(R, Nat)
  BY NatLessThanWellFounded
<1>3. \A x, y \in Nat : x < y => <<x, y>> \in R
  BY DEF OpToRel
<1>4. T \subseteq Nat
  OBVIOUS
<1> HIDE DEF R
<1>5. PICK x \in T : \A y \in T : ~(<<y, x>> \in R)
  <2> HIDE DEF T
  <2> QED BY <1>1, <1>2, <1>4, WFMin
<1>6. x \in Nat /\ x # 0
  OBVIOUS
<1>7. x - 1 \in Nat /\ x - 1 < x /\ (x - 1) + 1 = x
  BY <1>6
<1>8. x - 1 \in T
  BY <1>6, <1>7
<1> QED BY <1>3, <1>5, <1>6, <1>7, <1>8

LEMMA SetMin ==
  ASSUME NEW T, T \subseteq Nat, T # {}
  PROVE  Min(T) \in T
<1> DEFINE R == OpToRel(<, Nat)
<1>1. IsWellFoundedOn(R, Nat)
  BY NatLessThanWellFounded
<1>2. \A x, y \in Nat : x < y => <<x, y>> \in R
  BY DEF OpToRel
<1> HIDE DEF R
<1>3. \E x \in T : \A y \in T : ~(<<y, x>> \in R)
  BY <1>1, WFMin
<1>4. PICK x \in T : \A y \in T : ~(<<y, x>> \in R)
  BY <1>3
<1>5. ASSUME NEW y \in T PROVE x <= y
  <2>1. x \in Nat /\ y \in Nat /\ ~(y < x)
    BY <1>2, <1>4
  <2> QED BY <2>1
<1> QED BY <1>4, <1>5 DEF Min

LEMMA SetMax ==
  ASSUME NEW T, T \subseteq Nat, NEW m \in T, \A x \in T : x <= m
  PROVE  Max(T) = m
<1>1. Max(T) \in T /\ \A y \in T : Max(T) >= y
  BY DEF Max
<1>2. m \in Nat /\ Max(T) \in Nat /\ Max(T) >= m /\ Max(T) <= m
  BY <1>1
<1> QED BY <1>2

-----------------------------------------------------------------------------
(* The verifier *)

\* The places of the steps that verify_steps finds to hold, among the first k.
Holds(V, k, plan, events) ==
  \A n \in 1..k :
     n \in V <=> /\ Earned(plan[n], events)
                 /\ \A d \in plan[n].depends_on :
                       \E m \in 1..(n - 1) : plan[m].id = d /\ m \in V

LEMMA SomeHold ==
  ASSUME NEW plan, NEW events, NEW k \in Nat
  PROVE  \E V \in SUBSET (1..k) : Holds(V, k, plan, events)
<1> DEFINE S == {n \in Nat : \E V \in SUBSET (1..n) : Holds(V, n, plan, events)}
<1>1. 0 \in S
  <2>1. Holds({}, 0, plan, events)
    BY DEF Holds
  <2> QED BY <2>1
<1>2. ASSUME NEW n \in Nat, n \in S PROVE n + 1 \in S
  <2>1. PICK V \in SUBSET (1..n) : Holds(V, n, plan, events)
    BY <1>2
  <2> DEFINE Next1 == /\ Earned(plan[n + 1], events)
                      /\ \A d \in plan[n + 1].depends_on :
                            \E m \in 1..n : plan[m].id = d /\ m \in V
             W == IF Next1 THEN V \cup {n + 1} ELSE V
  <2>2. W \in SUBSET (1..(n + 1))
    OBVIOUS
  <2>3. \A m \in 1..n : m \in W <=> m \in V
    OBVIOUS
  <2>4. n + 1 \in W <=> Next1
    BY <2>1
  <2> HIDE DEF W
  <2>5. ASSUME NEW i \in 1..(n + 1)
        PROVE  i \in W <=> /\ Earned(plan[i], events)
                           /\ \A d \in plan[i].depends_on :
                                 \E m \in 1..(i - 1) : plan[m].id = d /\ m \in W
    <3>1. CASE i = n + 1
      <4>1. (n + 1) - 1 = n
        OBVIOUS
      <4> QED BY <2>3, <2>4, <3>1, <4>1
    <3>2. CASE i \in 1..n
      <4>1. \A m \in 1..(i - 1) : m \in 1..n
        BY <3>2
      <4> QED BY <2>1, <2>3, <3>2, <4>1 DEF Holds
    <3> QED BY <3>1, <3>2
  <2>6. Holds(W, n + 1, plan, events)
    BY <2>5 DEF Holds
  <2> QED BY <2>2, <2>6
<1> HIDE DEF S
<1>3. k \in S
  BY <1>1, <1>2, SetInduction
<1> QED BY <1>3 DEF S

\* W is the plan with steps verified that were earned and rest on such ones.
Verification(plan, events, W) ==
  /\ W \in Seq(PlanStep) /\ Len(W) = Len(plan)
  /\ \A n \in 1..Len(plan) :
        /\ \E b \in BOOLEAN : W[n] = [plan[n] EXCEPT !.verified = b]
        /\ W[n].verified =>
              /\ Earned(plan[n], events)
              /\ \A d \in plan[n].depends_on :
                    \E m \in 1..(n - 1) : W[m].id = d /\ W[m].verified

LEMMA VerifierWorks ==
  ASSUME NEW plan \in Seq(PlanStep), NEW events
  PROVE  Verification(plan, events, VerifySteps(plan, events))
<1>0. PICK W : W = VerifySteps(plan, events)
  OBVIOUS
<1> DEFINE L == Len(plan)
           Ok(fn) == [n \in DOMAIN plan |->
                       /\ Earned(plan[n], events)
                       /\ \A d \in plan[n].depends_on :
                             \E m \in 1..(n - 1) : plan[m].id = d /\ fn[m]]
           ok == CHOOSE fn : fn = Ok(fn)
<1>1. L \in Nat /\ DOMAIN plan = 1..L /\ \A n \in 1..L : plan[n] \in PlanStep
  BY ElementOfSeq, LenProperties
<1>2. \E fn : fn = Ok(fn)
  <2>1. PICK V \in SUBSET (1..L) : Holds(V, L, plan, events)
    BY <1>1, SomeHold
  <2> DEFINE fn == [n \in 1..L |-> IF n \in V THEN TRUE ELSE FALSE]
  <2>2. ASSUME NEW n \in 1..L
        PROVE  n \in V <=> /\ Earned(plan[n], events)
                           /\ \A d \in plan[n].depends_on :
                                 \E m \in 1..(n - 1) : plan[m].id = d /\ fn[m]
    <3>1. \A m \in 1..(n - 1) : m \in 1..L
      BY <1>1
    <3>2. \A m \in 1..(n - 1) : fn[m] <=> m \in V
      BY <3>1
    <3> HIDE DEF fn
    <3>3. (\A d \in plan[n].depends_on :
              \E m \in 1..(n - 1) : plan[m].id = d /\ m \in V)
          <=> (\A d \in plan[n].depends_on :
                  \E m \in 1..(n - 1) : plan[m].id = d /\ fn[m])
      BY <3>2, Zenon
    <3>4. n \in V <=> /\ Earned(plan[n], events)
                      /\ \A d \in plan[n].depends_on :
                            \E m \in 1..(n - 1) : plan[m].id = d /\ m \in V
      BY <2>1, Zenon DEF Holds
    <3> QED BY <3>3, <3>4, Zenon
  <2>3. PICK other : other = Ok(fn)
    OBVIOUS
  <2>4. DOMAIN other = 1..L /\ other = [n \in DOMAIN other |-> other[n]]
    BY <1>1, <2>3
  <2>5. ASSUME NEW n \in 1..L PROVE other[n] = fn[n]
    <3>1. other[n] = (/\ Earned(plan[n], events)
                      /\ \A d \in plan[n].depends_on :
                            \E m \in 1..(n - 1) : plan[m].id = d /\ fn[m])
      BY <1>1, <2>3
    <3>2. fn[n] = IF n \in V THEN TRUE ELSE FALSE
      OBVIOUS
    <3> HIDE DEF fn
    <3>3. CASE n \in V
      <4>1. other[n] = TRUE
        BY <2>2, <3>1, <3>3, Zenon
      <4>2. fn[n] = TRUE
        BY <3>2, <3>3, Zenon
      <4> QED BY <4>1, <4>2
    <3>4. CASE n \notin V
      <4>1. other[n] = FALSE
        BY <2>2, <3>1, <3>4, Zenon
      <4>2. fn[n] = FALSE
        BY <3>2, <3>4
      <4> QED BY <4>1, <4>2
    <3> QED BY <3>3, <3>4
  <2>6. fn = other
    BY <2>4, <2>5
  <2> HIDE DEF fn, Ok
  <2> QED BY <2>3, <2>6
<1>3. ok = Ok(ok)
  <2> HIDE DEF Ok
  <2> QED BY <1>2
<1>4. W = [n \in DOMAIN plan |-> [plan[n] EXCEPT !.verified = ok[n]]]
  BY <1>0 DEF VerifySteps, ok, Ok
<1> HIDE DEF ok
<1>5. \A n \in 1..L :
        /\ ok[n] \in BOOLEAN
        /\ ok[n] => /\ Earned(plan[n], events)
                    /\ \A d \in plan[n].depends_on :
                          \E m \in 1..(n - 1) : plan[m].id = d /\ ok[m]
  BY <1>1, <1>3 DEF Ok
<1> HIDE DEF Ok
<1>6. \A n \in 1..L : [plan[n] EXCEPT !.verified = ok[n]] \in PlanStep
  BY <1>1, <1>5 DEF PlanStep
<1>7. W \in Seq(PlanStep) /\ Len(W) = L
      /\ \A n \in 1..L : W[n] = [plan[n] EXCEPT !.verified = ok[n]]
  BY <1>1, <1>4, <1>6
<1>8. \A n \in 1..L : W[n].id = plan[n].id /\ W[n].verified = ok[n]
  <2>1. ASSUME NEW n \in 1..L PROVE W[n].id = plan[n].id /\ W[n].verified = ok[n]
    <3> PICK step, b, w : step = plan[n] /\ b = ok[n] /\ w = W[n]
      OBVIOUS
    <3>1. step \in PlanStep /\ w = [step EXCEPT !.verified = b]
      BY <1>1, <1>7
    <3>2. w.id = step.id /\ w.verified = b
      BY <3>1 DEF PlanStep
    <3> QED BY <3>2
  <2> QED BY <2>1
<1>9. ASSUME NEW n \in 1..L, W[n].verified
      PROVE  /\ Earned(plan[n], events)
             /\ \A d \in plan[n].depends_on :
                   \E m \in 1..(n - 1) : W[m].id = d /\ W[m].verified
  <2>1. \A m \in 1..(n - 1) : m \in 1..L
    BY <1>1
  <2> QED BY <1>5, <1>8, <1>9, <2>1
<1>10. Verification(plan, events, W)
  BY <1>5, <1>7, <1>9 DEF Verification
<1> QED BY <1>0, <1>10

-----------------------------------------------------------------------------
(* Entries with a title *)

\* f lists what Titled has after each entry.
Keeps(f, n, s) ==
  /\ f[0] = <<>>
  /\ \A i \in 1..n : f[i] = IF s[i].title = NoTitle THEN f[i - 1]
                            ELSE Append(f[i - 1], s[i])

LEMMA SomeKeeps ==
  ASSUME NEW E, NEW s \in Seq(E), NEW k \in 0..Len(s)
  PROVE  \E f \in [0..k -> Seq(E)] : Keeps(f, k, s)
<1> DEFINE S == {n \in Nat : n <= Len(s) =>
                    \E f \in [0..n -> Seq(E)] : Keeps(f, n, s)}
<1>1. 0 \in S
  <2> DEFINE f == [i \in 0..0 |-> <<>>]
  <2>1. f \in [0..0 -> Seq(E)] /\ f[0] = <<>>
    OBVIOUS
  <2> HIDE DEF f
  <2>2. Keeps(f, 0, s)
    BY <2>1 DEF Keeps
  <2> QED BY <2>1, <2>2
<1>2. ASSUME NEW n \in Nat, n \in S PROVE n + 1 \in S
  <2> SUFFICES ASSUME n + 1 <= Len(s)
               PROVE  \E f \in [0..(n + 1) -> Seq(E)] : Keeps(f, n + 1, s)
    OBVIOUS
  <2>1. PICK f \in [0..n -> Seq(E)] : Keeps(f, n, s)
    BY <1>2
  <2> DEFINE last == IF s[n + 1].title = NoTitle THEN f[n] ELSE Append(f[n], s[n + 1])
             g == [i \in 0..(n + 1) |-> IF i = n + 1 THEN last ELSE f[i]]
  <2>2. f[n] \in Seq(E) /\ s[n + 1] \in E
    BY <2>1
  <2>3. last \in Seq(E)
    BY <2>2
  <2>4. \A i \in 0..n : f[i] \in Seq(E) /\ i # n + 1
    BY <2>1
  <2> HIDE DEF last
  <2>5. g \in [0..(n + 1) -> Seq(E)] /\ g[n + 1] = last /\ \A i \in 0..n : g[i] = f[i]
    BY <2>3, <2>4
  <2> HIDE DEF g
  <2>6. ASSUME NEW i \in 1..(n + 1)
        PROVE  g[i] = IF s[i].title = NoTitle THEN g[i - 1] ELSE Append(g[i - 1], s[i])
    <3>1. CASE i = n + 1
      <4>1. g[i - 1] = f[n]
        BY <2>5, <3>1
      <4> QED BY <2>5, <3>1, <4>1 DEF last
    <3>2. CASE i \in 1..n
      <4>1. i - 1 \in 0..n /\ i \in 0..n
        BY <3>2
      <4> QED BY <2>1, <2>5, <3>2, <4>1 DEF Keeps
    <3> QED BY <3>1, <3>2
  <2>7. g[0] = <<>>
    BY <2>1, <2>5 DEF Keeps
  <2>8. Keeps(g, n + 1, s)
    BY <2>6, <2>7 DEF Keeps
  <2> QED BY <2>5, <2>8
<1> HIDE DEF S
<1>3. \A n \in Nat : n \in S
  BY <1>1, <1>2, SetInduction
<1> QED BY <1>3 DEF S

LEMMA TitledUnfolds ==
  ASSUME NEW E, NEW s \in Seq(E)
  PROVE  \E f : Keeps(f, Len(s), s) /\ Titled(s) = f[Len(s)]
<1> DEFINE Kept(fn) == [n \in 0..Len(s) |->
                          IF n = 0 THEN <<>>
                          ELSE IF s[n].title = NoTitle THEN fn[n - 1]
                          ELSE Append(fn[n - 1], s[n])]
           titled == CHOOSE fn : fn = Kept(fn)
<1>0. Len(s) \in Nat /\ Len(s) \in 0..Len(s)
  OBVIOUS
<1>1. PICK f \in [0..Len(s) -> Seq(E)] : Keeps(f, Len(s), s)
  BY <1>0, SomeKeeps
<1>2. f = Kept(f)
  <2>1. ASSUME NEW n \in 0..Len(s) PROVE f[n] = Kept(f)[n]
    <3>1. CASE n = 0
      BY <1>1, <3>1 DEF Keeps
    <3>2. CASE n # 0
      <4>1. n \in 1..Len(s)
        BY <1>0, <3>2
      <4> QED BY <1>1, <3>2, <4>1 DEF Keeps
    <3> QED BY <3>1, <3>2
  <2> QED BY <1>1, <2>1
<1> HIDE DEF Kept
<1>3. titled = Kept(titled)
  BY <1>2
<1>4. Titled(s) = titled[Len(s)]
  BY DEF Titled, titled, Kept
<1> HIDE DEF titled
<1>5. Keeps(titled, Len(s), s)
  <2>1. \A n \in 0..Len(s) :
           titled[n] = IF n = 0 THEN <<>>
                       ELSE IF s[n].title = NoTitle THEN titled[n - 1]
                       ELSE Append(titled[n - 1], s[n])
    BY <1>3 DEF Kept
  <2>2. 0 \in 0..Len(s) /\ \A n \in 1..Len(s) : n \in 0..Len(s) /\ n # 0
    BY <1>0
  <2> QED BY <2>1, <2>2 DEF Keeps
<1> QED BY <1>4, <1>5

\* What is kept is some of the elements, in order.
Some(t, s, n) ==
  /\ \A i \in 1..Len(t) : \E m \in 1..n : t[i] = s[m]
  /\ (\A l, m \in 1..Len(s) : l < m => s[l].id < s[m].id)
     => \A i, j \in 1..Len(t) : i < j => t[i].id < t[j].id

LEMMA TitledKeeps ==
  ASSUME NEW E, NEW s \in Seq(E), \A x \in E : x.id \in Nat
  PROVE  /\ Titled(s) \in Seq(E)
         /\ (\A l, m \in DOMAIN s : l < m => s[l].id < s[m].id)
            => \A i, j \in DOMAIN Titled(s) : i < j => Titled(s)[i].id < Titled(s)[j].id
<1>0. /\ Len(s) \in Nat /\ DOMAIN s = 1..Len(s)
      /\ \A m \in 1..Len(s) : s[m] \in E /\ s[m].id \in Nat
  OBVIOUS
<1>1. PICK f : Keeps(f, Len(s), s) /\ Titled(s) = f[Len(s)]
  BY TitledUnfolds
<1> DEFINE S == {n \in Nat : n <= Len(s) => f[n] \in Seq(E) /\ Some(f[n], s, n)}
<1>2. 0 \in S
  <2>1. f[0] = <<>> /\ Len(<<>>) = 0 /\ <<>> \in Seq(E)
    BY <1>1 DEF Keeps
  <2>2. Some(<<>>, s, 0)
    BY <2>1 DEF Some
  <2> QED BY <2>1, <2>2
<1>3. ASSUME NEW n \in Nat, n \in S PROVE n + 1 \in S
  <2> SUFFICES ASSUME n + 1 <= Len(s)
               PROVE  f[n + 1] \in Seq(E) /\ Some(f[n + 1], s, n + 1)
    OBVIOUS
  <2> PICK t, u, x : t = f[n] /\ u = f[n + 1] /\ x = s[n + 1]
    OBVIOUS
  <2>1. t \in Seq(E) /\ Some(t, s, n) /\ x \in E /\ x.id \in Nat /\ n + 1 \in 1..Len(s)
    BY <1>0, <1>3
  <2>2. u = IF x.title = NoTitle THEN t ELSE Append(t, x)
    <3>1. (n + 1) - 1 = n
      OBVIOUS
    <3> QED BY <1>1, <2>1, <3>1 DEF Keeps
  <2>3. CASE u = t
    <3>1. Some(t, s, n + 1)
      <4>1. \A m \in 1..n : m \in 1..(n + 1)
        OBVIOUS
      <4> QED BY <2>1, <4>1 DEF Some
    <3> QED BY <2>1, <2>3, <3>1
  <2>4. CASE u = Append(t, x)
    <3>1. /\ u \in Seq(E) /\ Len(t) \in Nat /\ Len(u) = Len(t) + 1 /\ u[Len(t) + 1] = x
          /\ \A i \in 1..Len(t) : u[i] = t[i]
      BY <2>1, <2>4
    <3>2. \A i \in 1..Len(u) : i \in 1..Len(t) \/ i = Len(t) + 1
      BY <3>1
    <3>3. ASSUME NEW i \in 1..Len(u) PROVE \E m \in 1..(n + 1) : u[i] = s[m]
      <4>1. CASE i = Len(t) + 1
        BY <3>1, <4>1
      <4>2. CASE i \in 1..Len(t)
        <5>1. PICK m \in 1..n : t[i] = s[m]
          BY <2>1, <4>2 DEF Some
        <5> QED BY <3>1, <4>2, <5>1
      <4> QED BY <3>2, <4>1, <4>2
    <3>4. ASSUME \A l, m \in 1..Len(s) : l < m => s[l].id < s[m].id,
                 NEW i \in 1..Len(u), NEW j \in 1..Len(u), i < j
          PROVE  u[i].id < u[j].id
      <4>1. i \in 1..Len(t) /\ u[i] = t[i]
        BY <3>1, <3>4
      <4>2. CASE j \in 1..Len(t)
        BY <2>1, <3>1, <3>4, <4>1, <4>2 DEF Some
      <4>3. CASE j = Len(t) + 1
        <5>1. PICK m \in 1..n : t[i] = s[m]
          BY <2>1, <4>1 DEF Some
        <5>2. m \in 1..Len(s) /\ m < n + 1
          BY <1>0
        <5>3. s[m].id < s[n + 1].id
          BY <2>1, <3>4, <5>2
        <5> QED BY <3>1, <4>1, <4>3, <5>1, <5>3
      <4> QED BY <3>2, <4>2, <4>3
    <3>5. Some(u, s, n + 1)
      BY <3>3, <3>4 DEF Some
    <3> QED BY <3>1, <3>5
  <2> QED BY <2>2, <2>3, <2>4
<1> HIDE DEF S
<1>4. Len(s) \in S
  BY <1>0, <1>2, <1>3, SetInduction
<1>5. Titled(s) \in Seq(E) /\ Some(Titled(s), s, Len(s))
  BY <1>0, <1>1, <1>4 DEF S
<1>6. PICK t : t = Titled(s)
  OBVIOUS
<1>7. t \in Seq(E) /\ DOMAIN t = 1..Len(t) /\ Some(t, s, Len(s))
  BY <1>5, <1>6
<1> QED BY ONLY <1>0, <1>6, <1>7 DEF Some

LEMMA AllAreTitled ==
  ASSUME NEW E, NEW s \in Seq(E), AllTitled(s)
  PROVE  Titled(s) = s
<1>0. /\ Len(s) \in Nat
      /\ \A m \in 1..Len(s) : s[m] \in E /\ s[m].title # NoTitle
  BY DEF AllTitled
<1>1. PICK f : Keeps(f, Len(s), s) /\ Titled(s) = f[Len(s)]
  BY TitledUnfolds
<1> DEFINE S == {n \in Nat : n <= Len(s) =>
                    /\ f[n] \in Seq(E) /\ Len(f[n]) = n
                    /\ \A i \in 1..n : f[n][i] = s[i]}
<1>2. 0 \in S
  <2>1. f[0] = <<>> /\ Len(<<>>) = 0 /\ <<>> \in Seq(E)
    BY <1>1 DEF Keeps
  <2>2. Len(f[0]) = 0 /\ f[0] \in Seq(E) /\ \A i \in 1..0 : f[0][i] = s[i]
    BY <2>1
  <2> QED BY <2>2
<1>3. ASSUME NEW n \in Nat, n \in S PROVE n + 1 \in S
  <2> SUFFICES ASSUME n + 1 <= Len(s)
               PROVE  /\ f[n + 1] \in Seq(E) /\ Len(f[n + 1]) = n + 1
                      /\ \A i \in 1..(n + 1) : f[n + 1][i] = s[i]
    OBVIOUS
  <2> PICK t, u, x : t = f[n] /\ u = f[n + 1] /\ x = s[n + 1]
    OBVIOUS
  <2>1. /\ t \in Seq(E) /\ Len(t) = n /\ (\A i \in 1..n : t[i] = s[i])
        /\ x \in E /\ x.title # NoTitle /\ n + 1 \in 1..Len(s)
    BY <1>0, <1>3
  <2>2. u = Append(t, x)
    <3>1. (n + 1) - 1 = n
      OBVIOUS
    <3> QED BY <1>1, <2>1, <3>1 DEF Keeps
  <2>3. /\ u \in Seq(E) /\ Len(u) = n + 1 /\ u[n + 1] = x
        /\ \A i \in 1..n : u[i] = t[i]
    BY <2>1, <2>2
  <2>4. \A i \in 1..(n + 1) : i \in 1..n \/ i = n + 1
    OBVIOUS
  <2> QED BY <2>1, <2>3, <2>4
<1> HIDE DEF S
<1>4. Len(s) \in S
  BY <1>0, <1>2, <1>3, SetInduction
<1>5. /\ Titled(s) \in Seq(E) /\ Len(Titled(s)) = Len(s)
      /\ \A i \in 1..Len(s) : Titled(s)[i] = s[i]
  BY <1>0, <1>1, <1>4 DEF S
<1> QED BY <1>5, SeqEqual

-----------------------------------------------------------------------------
(* Ledgers *)

\* The numbers grow from place to place.
Growing(s) == \A m, n \in DOMAIN s : m < n => s[m].id < s[n].id

\* What every ledger is.
Sound(data) == Orderly(data) /\ Grounded(data) /\ Honest(data)

LEMMA SeqDomain ==
  ASSUME NEW S, NEW s \in Seq(S)
  PROVE  Len(s) \in Nat /\ DOMAIN s = 1..Len(s) /\ \A n \in 1..Len(s) : s[n] \in S
OBVIOUS

LEMMA TrimmedPatterns ==
  ASSUME NEW patterns \in SUBSET Patterns
  PROVE  Trimmed(patterns) \subseteq Patterns
BY LedgerAssumption DEF Trimmed

LEMMA TaskType ==
  ASSUME NEW entry, entry \in Entry \cup PlanStep, NEW id \in Nat
  PROVE  Task(id, entry) \in TaskItem
<1>1. /\ entry.title \in Titles \cup {NoTitle} /\ entry.status \in Statuses
      /\ entry.tools \subseteq Tools /\ entry.depends_on \subseteq Nat
      /\ entry.expected_evidence \subseteq Patterns
  BY DEF Entry, PlanStep
<1>2. Trimmed(entry.expected_evidence) \subseteq Patterns
  BY <1>1, TrimmedPatterns
<1> QED BY <1>1, <1>2 DEF Task, TaskItem

LEMMA NewStepType ==
  ASSUME NEW id \in Nat, NEW entry \in Entry
  PROVE  /\ NewStep(id, entry) \in PlanStep
         /\ NewStep(id, entry).id = id /\ NewStep(id, entry).evidence = {}
         /\ NewStep(id, entry).title = entry.title
         /\ Task(NewStep(id, entry).id, NewStep(id, entry)) = Task(id, entry)
BY DEF NewStep, Entry, PlanStep, Task

LEMMA TasksOfType ==
  ASSUME NEW plan \in Seq(PlanStep)
  PROVE  /\ TasksOf(plan) \in Seq(TaskItem) /\ Len(TasksOf(plan)) = Len(plan)
         /\ \A n \in 1..Len(plan) : /\ TasksOf(plan)[n] = Task(plan[n].id, plan[n])
                                    /\ TasksOf(plan)[n].id = plan[n].id
         /\ Ids(TasksOf(plan)) = Ids(plan)
<1>1. Len(plan) \in Nat /\ DOMAIN plan = 1..Len(plan)
      /\ \A n \in 1..Len(plan) : plan[n] \in PlanStep /\ plan[n].id \in Nat
  <2>1. Len(plan) \in Nat /\ DOMAIN plan = 1..Len(plan)
        /\ \A n \in 1..Len(plan) : plan[n] \in PlanStep
    BY SeqDomain
  <2>2. \A x \in PlanStep : x.id \in Nat
    BY DEF PlanStep
  <2> QED BY <2>1, <2>2
<1> PICK t : t = TasksOf(plan)
  OBVIOUS
<1>2. t = [n \in 1..Len(plan) |-> Task(plan[n].id, plan[n])]
  BY <1>1 DEF TasksOf
<1>3. \A n \in 1..Len(plan) : Task(plan[n].id, plan[n]) \in TaskItem
  BY <1>1, TaskType
<1>4. t \in Seq(TaskItem) /\ Len(t) = Len(plan) /\ DOMAIN t = 1..Len(plan)
  BY <1>1, <1>2, <1>3
<1>5. \A n \in 1..Len(plan) : t[n] = Task(plan[n].id, plan[n]) /\ t[n].id = plan[n].id
  BY <1>2 DEF Task
<1>6. Ids(t) = Ids(plan)
  BY <1>1, <1>4, <1>5 DEF Ids
<1> QED BY <1>4, <1>5, <1>6

\* v is data with its steps verified.
VerifiedTo(data, v) ==
  /\ v \in RunLedgerData /\ Sound(v)
  /\ v.status = data.status /\ v.events = data.events /\ v.proved = data.proved
  /\ TasksOf(v.plan) = TasksOf(data.plan)

LEMMA VerifiedData ==
  ASSUME NEW data \in RunLedgerData, Orderly(data), Grounded(data)
  PROVE  VerifiedTo(data, Verified(data))
<1> PICK plan, events, V : plan = data.plan /\ events = data.events
                           /\ V = VerifySteps(plan, events)
  OBVIOUS
<1>1. /\ plan \in Seq(PlanStep) /\ events \in Seq(ToolEvent) /\ data.proved \subseteq Nat
      /\ Len(plan) \in Nat /\ DOMAIN plan = 1..Len(plan)
      /\ \A n \in 1..Len(plan) : plan[n] \in PlanStep
  BY DEF RunLedgerData
<1>2. /\ V \in Seq(PlanStep) /\ Len(V) = Len(plan) /\ DOMAIN V = 1..Len(plan)
      /\ \A n \in 1..Len(plan) :
            /\ \E b \in BOOLEAN : V[n] = [plan[n] EXCEPT !.verified = b]
            /\ V[n].verified =>
                  /\ Earned(plan[n], events)
                  /\ \A d \in plan[n].depends_on :
                        \E m \in 1..(n - 1) : V[m].id = d /\ V[m].verified
  <2>1. /\ V \in Seq(PlanStep) /\ Len(V) = Len(plan)
        /\ \A n \in 1..Len(plan) :
              /\ \E b \in BOOLEAN : V[n] = [plan[n] EXCEPT !.verified = b]
              /\ V[n].verified =>
                    /\ Earned(plan[n], events)
                    /\ \A d \in plan[n].depends_on :
                          \E m \in 1..(n - 1) : V[m].id = d /\ V[m].verified
    <3>1. Verification(plan, events, V)
      BY <1>1, VerifierWorks
    <3> QED BY <3>1, Zenon DEF Verification
  <2>2. DOMAIN V = 1..Len(V)
    BY <2>1, SeqDomain
  <2> QED BY <2>1, <2>2, Zenon
<1>3. \A n \in 1..Len(plan) :
         /\ V[n].id = plan[n].id /\ V[n].status = plan[n].status
         /\ V[n].title = plan[n].title /\ V[n].tools = plan[n].tools
         /\ V[n].depends_on = plan[n].depends_on
         /\ V[n].expected_evidence = plan[n].expected_evidence
         /\ V[n].evidence = plan[n].evidence
  <2>1. \A x \in PlanStep, b \in BOOLEAN :
           LET y == [x EXCEPT !.verified = b]
           IN /\ y.id = x.id /\ y.status = x.status /\ y.title = x.title
              /\ y.tools = x.tools /\ y.depends_on = x.depends_on
              /\ y.expected_evidence = x.expected_evidence /\ y.evidence = x.evidence
    BY DEF PlanStep
  <2> SUFFICES ASSUME NEW n \in 1..Len(plan)
               PROVE  /\ V[n].id = plan[n].id /\ V[n].status = plan[n].status
                      /\ V[n].title = plan[n].title /\ V[n].tools = plan[n].tools
                      /\ V[n].depends_on = plan[n].depends_on
                      /\ V[n].expected_evidence = plan[n].expected_evidence
                      /\ V[n].evidence = plan[n].evidence
    OBVIOUS
  <2>2. PICK b \in BOOLEAN : V[n] = [plan[n] EXCEPT !.verified = b]
    BY <1>2
  <2> QED BY <1>1, <2>1, <2>2
<1> PICK v : v = Verified(data)
  OBVIOUS
<1>4. v = [data EXCEPT !.plan = V]
  BY DEF Verified
<1>5. /\ v \in RunLedgerData /\ v.plan = V /\ v.events = events
      /\ v.status = data.status /\ v.attempts = data.attempts /\ v.proved = data.proved
  BY <1>2, <1>4 DEF RunLedgerData
<1>6. Orderly(v)
  <2>1. /\ Len(events) <= MaxEvents
        /\ \A n \in 1..Len(plan) : plan[n].evidence \subseteq DOMAIN events
        /\ \A m, n \in 1..Len(plan) : m < n => plan[m].id < plan[n].id
    BY <1>1 DEF Orderly
  <2> QED BY <1>2, <1>3, <1>5, <2>1 DEF Orderly
<1>7. Grounded(v)
  BY <1>1, <1>2, <1>3, <1>5 DEF Grounded, Successful
<1>8. Honest(v)
  <2> SUFFICES ASSUME NEW n \in 1..Len(plan), V[n].verified
               PROVE  /\ V[n].status = "completed" /\ V[n].id \in data.proved
                      /\ \A pattern \in V[n].expected_evidence :
                            \E e \in V[n].evidence :
                                events[e].success /\ pattern \in events[e].shows
                      /\ \A d \in V[n].depends_on :
                            \E m \in 1..(n - 1) : V[m].id = d /\ V[m].verified
    BY <1>2, <1>5 DEF Honest
  <2>1. Earned(plan[n], events) /\ \A d \in plan[n].depends_on :
                        \E m \in 1..(n - 1) : V[m].id = d /\ V[m].verified
    BY <1>2
  <2>2. plan[n].status = "completed" /\ plan[n].id \in data.proved
    BY <1>1, <2>1 DEF Earned, Grounded
  <2>3. \A pattern \in plan[n].expected_evidence :
           \E e \in plan[n].evidence : events[e].success /\ pattern \in events[e].shows
    BY <2>1 DEF Earned, Successful
  <2> QED BY <1>3, <2>1, <2>2, <2>3
<1>9. TasksOf(V) = TasksOf(plan)
  <2>1. \A n \in 1..Len(plan) : Task(V[n].id, V[n]) = Task(plan[n].id, plan[n])
    BY <1>3 DEF Task
  <2> QED BY <1>1, <1>2, <2>1 DEF TasksOf
<1>10. VerifiedTo(data, v)
  BY <1>5, <1>6, <1>7, <1>8, <1>9 DEF Sound, VerifiedTo
<1> QED BY <1>10

LEMMA NextIdOfGrowing ==
  ASSUME NEW S, NEW s \in Seq(S), \A n \in 1..Len(s) : s[n].id \in Nat, Growing(s)
  PROVE  /\ NextStepId(s) \in Nat \ {0}
         /\ \A n \in 1..Len(s) : s[n].id < NextStepId(s)
         /\ s = <<>> => NextStepId(s) = 1
         /\ s # <<>> => NextStepId(s) = s[Len(s)].id + 1
<1>1. Len(s) \in Nat /\ DOMAIN s = 1..Len(s) /\ (s = <<>> <=> Len(s) = 0)
  OBVIOUS
<1> PICK I : I = {0} \cup Ids(s)
  OBVIOUS
<1>2. I \subseteq Nat /\ \A x \in I : x = 0 \/ \E n \in 1..Len(s) : x = s[n].id
  BY <1>1 DEF Ids
<1>3. CASE s = <<>>
  <2>1. I = {0}
    BY <1>1, <1>2, <1>3
  <2>2. Max(I) = 0
    <3>1. 0 \in I /\ \A x \in I : x <= 0
      BY <2>1
    <3> QED BY <1>2, <3>1, SetMax
  <2> QED BY <1>1, <1>3, <2>2 DEF NextStepId
<1>4. CASE s # <<>>
  <2> PICK m : m = s[Len(s)].id
    OBVIOUS
  <2>1. m \in I /\ m \in Nat /\ Len(s) \in 1..Len(s)
    BY <1>1, <1>4 DEF Ids
  <2>2. \A n \in 1..Len(s) : s[n].id <= m
    <3>1. ASSUME NEW n \in 1..Len(s) PROVE s[n].id <= m
      <4>1. CASE n = Len(s)
        BY <2>1, <4>1
      <4>2. CASE n # Len(s)
        <5> PICK k : k = Len(s)
          OBVIOUS
        <5>1. k \in Nat /\ n \in 1..k /\ n # k
          BY <1>1, <4>2
        <5>2. n < k
          BY ONLY <5>1
        <5>3. s[n].id < m
          BY <1>1, <2>1, <5>2 DEF Growing
        <5> QED BY <2>1, <5>3
      <4> QED BY <4>1, <4>2
    <3> QED BY <3>1
  <2>3. \A x \in I : x <= m
    BY <1>2, <2>1, <2>2
  <2>4. Max(I) = m
    BY <1>2, <2>1, <2>3, SetMax
  <2>5. NextStepId(s) = m + 1
    BY <2>4 DEF NextStepId
  <2> QED BY <1>4, <2>1, <2>2, <2>5
<1> QED BY <1>3, <1>4

-----------------------------------------------------------------------------
(* The mirror of a task_plan call *)

\* What a call does to the tasks that the tool would read from the plan.
MirroredTasks(tasks, call) ==
    CASE ~call.named -> tasks
      [] call.named /\ call.action = "create" ->
             TasksOf(Titled(Steps(call.entries)))
      [] call.named /\ call.action = "add" ->
             Append(tasks, Task(NextStepId(tasks), Pending(call.entry)))
      [] call.named /\ call.action = "update" ->
             Updated(tasks, call.id, Cleaned(call.change))
      [] call.named /\ call.action = "delete" -> <<>>

\* new is the plan after the call: its numbers still grow, its steps are new or
\* have the evidence that they had, and its tasks are those of the call.
Mirroring(plan, call, new) ==
    /\ new \in Seq(PlanStep) /\ Growing(new)
    /\ \A n \in 1..Len(new) :
          \/ new[n].evidence = {}
          \/ /\ ~(call.named /\ call.action \in {"create", "delete"})
             /\ \E m \in 1..Len(plan) : new[n].id = plan[m].id
                                        /\ new[n].evidence = plan[m].evidence
    /\ TasksOf(new) = MirroredTasks(TasksOf(plan), call)

LEMMA NumberedType ==
  ASSUME NEW entries \in Seq(Entry)
  PROVE  /\ Numbered(entries) \in Seq(TaskItem) /\ Len(Numbered(entries)) = Len(entries)
         /\ \A n \in 1..Len(entries) : Numbered(entries)[n].id = n
                                       /\ Numbered(entries)[n].title = entries[n].title
<1>1. /\ Len(entries) \in Nat /\ DOMAIN entries = 1..Len(entries)
      /\ \A n \in 1..Len(entries) : entries[n] \in Entry /\ n \in Nat
  OBVIOUS
<1> PICK t : t = Numbered(entries)
  OBVIOUS
<1>2. t = [n \in 1..Len(entries) |-> Task(n, entries[n])]
  BY <1>1 DEF Numbered
<1>3. \A n \in 1..Len(entries) : Task(n, entries[n]) \in TaskItem
  BY <1>1, TaskType
<1>4. t \in Seq(TaskItem) /\ Len(t) = Len(entries)
  BY <1>1, <1>2, <1>3
<1>5. \A n \in 1..Len(entries) : t[n].id = n /\ t[n].title = entries[n].title
  BY <1>2 DEF Task
<1> QED BY <1>4, <1>5

LEMMA StepsType ==
  ASSUME NEW entries \in Seq(Entry)
  PROVE  /\ Steps(entries) \in Seq(PlanStep) /\ Len(Steps(entries)) = Len(entries)
         /\ \A n \in 1..Len(entries) : /\ Steps(entries)[n].id = n
                                       /\ Steps(entries)[n].evidence = {}
                                       /\ Steps(entries)[n].title = entries[n].title
         /\ TasksOf(Steps(entries)) = Numbered(entries)
<1>1. /\ Len(entries) \in Nat /\ DOMAIN entries = 1..Len(entries)
      /\ \A n \in 1..Len(entries) : entries[n] \in Entry /\ n \in Nat
  OBVIOUS
<1> PICK t : t = Steps(entries)
  OBVIOUS
<1>2. t = [n \in 1..Len(entries) |-> NewStep(n, entries[n])]
  BY <1>1 DEF Steps
<1>3. t \in Seq(PlanStep) /\ Len(t) = Len(entries) /\ DOMAIN t = 1..Len(entries)
  BY <1>1, <1>2, NewStepType
<1>4. \A n \in 1..Len(entries) :
         /\ t[n].id = n /\ t[n].evidence = {} /\ t[n].title = entries[n].title
         /\ Task(t[n].id, t[n]) = Task(n, entries[n])
  BY <1>1, <1>2, NewStepType
<1>5. TasksOf(t) = [n \in 1..Len(entries) |-> Task(n, entries[n])]
  BY <1>3, <1>4 DEF TasksOf
<1>6. TasksOf(t) = Numbered(entries)
  BY <1>1, <1>5 DEF Numbered
<1> QED BY <1>3, <1>4, <1>6

\* What task_plan takes of a change is a change of the same fields.
LEMMA CleanedChange ==
  ASSUME NEW change, IsChange(change)
  PROVE  /\ IsChange(Cleaned(change)) /\ DOMAIN Cleaned(change) = DOMAIN change
         /\ "status" \in DOMAIN change => Cleaned(change).status = change.status
         /\ "tools" \in DOMAIN change => Cleaned(change).tools = change.tools
         /\ "depends_on" \in DOMAIN change =>
               Cleaned(change).depends_on = change.depends_on \ {0}
         /\ "expected_evidence" \in DOMAIN change =>
               Cleaned(change).expected_evidence = Trimmed(change.expected_evidence)
<1> PICK k : k = Cleaned(change)
  OBVIOUS
<1>1. k = [field \in DOMAIN change |->
              CASE field = "depends_on" -> change.depends_on \ {0}
                [] field = "expected_evidence" -> Trimmed(change.expected_evidence)
                [] OTHER -> change[field]]
  BY DEF Cleaned
<1>2. DOMAIN k = DOMAIN change
  BY <1>1
<1>3. "status" \in DOMAIN change => k.status = change.status
  BY <1>1
<1>4. "tools" \in DOMAIN change => k.tools = change.tools
  BY <1>1
<1>5. "depends_on" \in DOMAIN change => k.depends_on = change.depends_on \ {0}
  BY <1>1
<1>6. "expected_evidence" \in DOMAIN change =>
         k.expected_evidence = Trimmed(change.expected_evidence)
  BY <1>1
<1>7. "expected_evidence" \in DOMAIN change =>
         Trimmed(change.expected_evidence) \subseteq Patterns
  BY TrimmedPatterns DEF IsChange
<1>8. IsChange(k)
  BY <1>2, <1>3, <1>4, <1>5, <1>6, <1>7 DEF IsChange
<1> QED BY <1>2, <1>3, <1>4, <1>5, <1>6, <1>8

LEMMA ChangedTask ==
  ASSUME NEW change, IsChange(change), NEW task \in TaskItem
  PROVE  Changed(task, change) \in TaskItem /\ Changed(task, change).id = task.id
<1> PICK s, o, d, e :
      /\ s = (IF "status" \in DOMAIN change THEN change.status ELSE task.status)
      /\ o = (IF "tools" \in DOMAIN change THEN change.tools ELSE task.tools)
      /\ d = (IF "depends_on" \in DOMAIN change THEN change.depends_on ELSE task.depends_on)
      /\ e = (IF "expected_evidence" \in DOMAIN change THEN change.expected_evidence
              ELSE task.expected_evidence)
  OBVIOUS
<1>1. s \in Statuses /\ o \subseteq Tools /\ d \subseteq Nat /\ e \subseteq Patterns
  BY DEF IsChange, TaskItem
<1>2. Changed(task, change) = [task EXCEPT !.status = s, !.tools = o, !.depends_on = d,
                                           !.expected_evidence = e]
  BY DEF Changed
<1> QED BY <1>1, <1>2 DEF TaskItem

\* To change a step and have the tool read it is to have the tool read both.
LEMMA ChangedStep ==
  ASSUME NEW change, IsChange(change)
  PROVE  \A step \in PlanStep :
            /\ Changed(step, change) \in PlanStep
            /\ Changed(step, change).id = step.id
            /\ Changed(step, change).evidence = step.evidence
            /\ Task(step.id, Changed(step, change)) =
                  Changed(Task(step.id, step), Cleaned(change))
<1> TAKE step \in PlanStep
<1> PICK c, t, u, k : /\ c = Changed(step, change) /\ t = Task(step.id, step)
                      /\ k = Cleaned(change) /\ u = Changed(t, k)
  OBVIOUS
<1>1. c \in PlanStep /\ c.id = step.id /\ c.evidence = step.evidence
  <2> PICK s, o, d, e :
        /\ s = (IF "status" \in DOMAIN change THEN change.status ELSE step.status)
        /\ o = (IF "tools" \in DOMAIN change THEN change.tools ELSE step.tools)
        /\ d = (IF "depends_on" \in DOMAIN change THEN change.depends_on
                ELSE step.depends_on)
        /\ e = (IF "expected_evidence" \in DOMAIN change THEN change.expected_evidence
                ELSE step.expected_evidence)
    OBVIOUS
  <2>1. s \in Statuses /\ o \subseteq Tools /\ d \subseteq Nat /\ e \subseteq Patterns
    BY DEF IsChange, PlanStep
  <2>2. c = [step EXCEPT !.status = s, !.tools = o, !.depends_on = d,
                         !.expected_evidence = e]
    BY DEF Changed
  <2> QED BY <2>1, <2>2 DEF PlanStep
<1>2. /\ IsChange(k) /\ DOMAIN k = DOMAIN change
      /\ "status" \in DOMAIN change => k.status = change.status
      /\ "tools" \in DOMAIN change => k.tools = change.tools
      /\ "depends_on" \in DOMAIN change => k.depends_on = change.depends_on \ {0}
      /\ "expected_evidence" \in DOMAIN change =>
            k.expected_evidence = Trimmed(change.expected_evidence)
  BY CleanedChange
<1>3. step.id \in Nat
  BY DEF PlanStep
<1>4. t \in TaskItem /\ u \in TaskItem
  <2>1. t \in TaskItem
    BY <1>3, TaskType
  <2> QED BY <1>2, <2>1, ChangedTask
<1>5. /\ t.id = step.id /\ t.title = step.title /\ t.status = step.status
      /\ t.tools = step.tools /\ t.depends_on = step.depends_on \ {0}
      /\ t.expected_evidence = Trimmed(step.expected_evidence)
  BY DEF Task
<1>6. u.id = t.id /\ u.title = t.title /\ c.title = step.title
  BY <1>4 DEF Changed, PlanStep, TaskItem
<1>7. u.status = c.status /\ u.tools = c.tools
  BY <1>2, <1>4, <1>5 DEF Changed, PlanStep, TaskItem
<1>8. u.depends_on = c.depends_on \ {0}
  BY <1>2, <1>4, <1>5 DEF Changed, PlanStep, TaskItem
<1>9. u.expected_evidence = Trimmed(c.expected_evidence)
  BY <1>2, <1>4, <1>5 DEF Changed, PlanStep, TaskItem
<1> PICK w : w = Task(step.id, c)
  OBVIOUS
<1>10. w \in TaskItem
  BY <1>1, <1>3, TaskType
<1>11. /\ w.id = step.id /\ w.title = c.title /\ w.status = c.status
       /\ w.tools = c.tools /\ w.depends_on = c.depends_on \ {0}
       /\ w.expected_evidence = Trimmed(c.expected_evidence)
  BY DEF Task
<1>12. \A x, y \in TaskItem :
          /\ x.id = y.id /\ x.title = y.title /\ x.status = y.status
          /\ x.tools = y.tools /\ x.depends_on = y.depends_on
          /\ x.expected_evidence = y.expected_evidence
          => x = y
  BY DEF TaskItem
<1>13. w = u
  <2>1. /\ w.id = u.id /\ w.title = u.title /\ w.status = u.status
        /\ w.tools = u.tools /\ w.depends_on = u.depends_on
        /\ w.expected_evidence = u.expected_evidence
    BY <1>5, <1>6, <1>7, <1>8, <1>9, <1>11
  <2> QED BY <1>4, <1>10, <1>12, <2>1
<1> QED BY <1>1, <1>13

\* So an update of the list keeps its tasks and their numbers.
LEMMA CleanedOfTask ==
  ASSUME NEW change, IsChange(change)
  PROVE  \A task \in TaskItem : /\ Changed(task, Cleaned(change)) \in TaskItem
                                /\ Changed(task, Cleaned(change)).id = task.id
BY CleanedChange, ChangedTask

LEMMA MirrorsCreate ==
  ASSUME NEW plan \in Seq(PlanStep), NEW call, call.named, call.action = "create",
         call.entries \in Seq(Entry)
  PROVE  Mirroring(plan, call, MirroredPlan(plan, call))
<1> PICK new, s : new = Titled(s) /\ s = Steps(call.entries)
  OBVIOUS
<1>1. s \in Seq(PlanStep) /\ Len(s) \in Nat /\ DOMAIN s = 1..Len(s)
      /\ \A n \in 1..Len(s) : s[n].id = n /\ s[n].evidence = {}
  <2>1. s \in Seq(PlanStep) /\ \A n \in 1..Len(s) : s[n].id = n /\ s[n].evidence = {}
    BY StepsType
  <2> QED BY <2>1
<1> DEFINE Fresh == {x \in PlanStep : x.evidence = {}}
<1>2. \A x \in Fresh : x.id \in Nat
  BY DEF PlanStep
<1>3. s \in Seq(Fresh) /\ \A l, m \in DOMAIN s : l < m => s[l].id < s[m].id
  <2>1. \A n \in 1..Len(s) : s[n] \in Fresh
    BY <1>1
  <2> QED BY <1>1, <2>1
<1>4. new \in Seq(Fresh) /\ \A i, j \in DOMAIN new : i < j => new[i].id < new[j].id
  BY <1>1, <1>2, <1>3, TitledKeeps
<1>5. new \in Seq(PlanStep) /\ \A n \in 1..Len(new) : new[n].evidence = {}
  BY <1>4
<1>6. Growing(new)
  BY <1>4 DEF Growing
<1>7. MirroredPlan(plan, call) = new /\ MirroredTasks(TasksOf(plan), call) = TasksOf(new)
  BY DEF MirroredPlan, MirroredTasks
<1> QED BY <1>5, <1>6, <1>7 DEF Mirroring

LEMMA MirrorsAdd ==
  ASSUME NEW plan \in Seq(PlanStep), Growing(plan), NEW call, call.named,
         call.action = "add", call.entry \in Entry
  PROVE  Mirroring(plan, call, MirroredPlan(plan, call))
<1> PICK new, id, task : /\ new = MirroredPlan(plan, call) /\ id = NextStepId(plan)
                         /\ task = Task(id, Pending(call.entry))
  OBVIOUS
<1>1. /\ Len(plan) \in Nat /\ DOMAIN plan = 1..Len(plan)
      /\ \A n \in 1..Len(plan) : plan[n] \in PlanStep /\ plan[n].id \in Nat
  <2>1. Len(plan) \in Nat /\ DOMAIN plan = 1..Len(plan)
        /\ \A n \in 1..Len(plan) : plan[n] \in PlanStep
    BY SeqDomain
  <2>2. \A x \in PlanStep : x.id \in Nat
    BY DEF PlanStep
  <2> QED BY <2>1, <2>2
<1>2. id \in Nat /\ \A n \in 1..Len(plan) : plan[n].id < id
  BY <1>1, NextIdOfGrowing
<1>3. Pending(call.entry) \in Entry /\ task \in TaskItem /\ task.id = id
  <2>1. Pending(call.entry) \in Entry
    BY DEF Pending, Entry, Statuses
  <2> QED BY <1>2, <2>1, TaskType DEF Task
<1> PICK step : step = NewStep(id, Pending(call.entry))
  OBVIOUS
<1>4. step \in PlanStep /\ step.id = id /\ step.evidence = {} /\ Task(step.id, step) = task
  BY <1>2, <1>3, NewStepType
<1>5. new = Append(plan, step)
  BY DEF MirroredPlan
<1>6. /\ new \in Seq(PlanStep) /\ Len(new) = Len(plan) + 1 /\ DOMAIN new = 1..Len(new)
      /\ new[Len(plan) + 1] = step /\ \A n \in 1..Len(plan) : new[n] = plan[n]
  BY <1>1, <1>4, <1>5
<1>7. \A n \in 1..Len(new) : n \in 1..Len(plan) \/ n = Len(plan) + 1
  BY <1>1, <1>6
<1>8. Growing(new)
  <2> SUFFICES ASSUME NEW m \in 1..Len(new), NEW n \in 1..Len(new), m < n
               PROVE  new[m].id < new[n].id
    BY <1>6 DEF Growing
  <2>1. m \in 1..Len(plan)
    BY <1>1, <1>6
  <2>2. CASE n \in 1..Len(plan)
    BY <1>1, <1>6, <2>1, <2>2 DEF Growing
  <2>3. CASE n = Len(plan) + 1
    BY <1>2, <1>4, <1>6, <2>1, <2>3
  <2> QED BY <1>7, <2>2, <2>3
<1>9. \A n \in 1..Len(new) :
         \/ new[n].evidence = {}
         \/ \E m \in 1..Len(plan) : new[n].id = plan[m].id
                                    /\ new[n].evidence = plan[m].evidence
  BY <1>4, <1>6, <1>7
<1>10. TasksOf(new) = MirroredTasks(TasksOf(plan), call)
  <2> PICK t : t = TasksOf(plan)
    OBVIOUS
  <2>1. /\ t \in Seq(TaskItem) /\ Len(t) = Len(plan) /\ Ids(t) = Ids(plan)
        /\ \A n \in 1..Len(plan) : t[n] = Task(plan[n].id, plan[n])
    BY TasksOfType
  <2>2. MirroredTasks(t, call) = Append(t, task)
    <3>1. NextStepId(t) = id
      BY <2>1 DEF NextStepId
    <3> QED BY <3>1 DEF MirroredTasks
  <2>3. TasksOf(new) = [n \in 1..(Len(plan) + 1) |-> Task(new[n].id, new[n])]
    BY <1>6 DEF TasksOf
  <2>4. Append(t, task) = [n \in 1..(Len(plan) + 1) |-> IF n = Len(plan) + 1 THEN task ELSE t[n]]
    BY <2>1, <1>1, <1>3
  <2>5. \A n \in 1..(Len(plan) + 1) :
           Task(new[n].id, new[n]) = IF n = Len(plan) + 1 THEN task ELSE t[n]
    BY <1>4, <1>6, <1>7, <2>1
  <2>6. TasksOf(new) = Append(t, task)
    BY <2>3, <2>4, <2>5
  <2> QED BY <2>2, <2>6
<1>11. Mirroring(plan, call, new)
  BY <1>6, <1>8, <1>9, <1>10 DEF Mirroring
<1> QED BY <1>11

LEMMA UpdatedType ==
  ASSUME NEW S, NEW s \in Seq(S), NEW id, NEW change,
         \A x \in S : Changed(x, change) \in S /\ Changed(x, change).id = x.id
  PROVE  /\ Updated(s, id, change) \in Seq(S) /\ Len(Updated(s, id, change)) = Len(s)
         /\ \A n \in 1..Len(s) : Updated(s, id, change)[n].id = s[n].id
                                 /\ Updated(s, id, change)[n] =
                                        IF s[n].id = id THEN Changed(s[n], change) ELSE s[n]
<1>1. Len(s) \in Nat /\ DOMAIN s = 1..Len(s) /\ \A n \in 1..Len(s) : s[n] \in S
  OBVIOUS
<1> PICK u : u = Updated(s, id, change)
  OBVIOUS
<1>2. u = [n \in 1..Len(s) |-> IF s[n].id = id THEN Changed(s[n], change) ELSE s[n]]
  BY <1>1 DEF Updated
<1>3. \A n \in 1..Len(s) :
         (IF s[n].id = id THEN Changed(s[n], change) ELSE s[n]) \in S
  BY <1>1
<1>4. u \in Seq(S) /\ Len(u) = Len(s)
  BY <1>1, <1>2, <1>3
<1>5. \A n \in 1..Len(s) :
         u[n] = (IF s[n].id = id THEN Changed(s[n], change) ELSE s[n]) /\ u[n].id = s[n].id
  BY <1>1, <1>2
<1> QED BY <1>4, <1>5

LEMMA MirrorsUpdate ==
  ASSUME NEW plan \in Seq(PlanStep), Growing(plan), NEW call, call.named,
         call.action = "update", IsChange(call.change)
  PROVE  Mirroring(plan, call, MirroredPlan(plan, call))
<1> PICK new, id, change : /\ new = MirroredPlan(plan, call) /\ id = call.id
                           /\ change = call.change
  OBVIOUS
<1>1. /\ Len(plan) \in Nat /\ DOMAIN plan = 1..Len(plan)
      /\ \A n \in 1..Len(plan) : plan[n] \in PlanStep
  OBVIOUS
<1>2. new = Updated(plan, id, change)
  BY DEF MirroredPlan
<1>3. /\ \A step \in PlanStep :
            /\ Changed(step, change) \in PlanStep
            /\ Changed(step, change).id = step.id
            /\ Changed(step, change).evidence = step.evidence
            /\ Task(step.id, Changed(step, change)) =
                  Changed(Task(step.id, step), Cleaned(change))
  BY ChangedStep
<1>4. /\ new \in Seq(PlanStep) /\ Len(new) = Len(plan) /\ DOMAIN new = 1..Len(plan)
      /\ \A n \in 1..Len(plan) :
            /\ new[n].id = plan[n].id
            /\ new[n] = IF plan[n].id = id THEN Changed(plan[n], change) ELSE plan[n]
  BY <1>1, <1>2, <1>3, UpdatedType
<1>5. \A n \in 1..Len(plan) : new[n].evidence = plan[n].evidence
  BY <1>1, <1>3, <1>4
<1>6. Growing(new)
  BY <1>1, <1>4 DEF Growing
<1>7. TasksOf(new) = MirroredTasks(TasksOf(plan), call)
  <2> PICK t : t = TasksOf(plan)
    OBVIOUS
  <2>1. /\ t \in Seq(TaskItem) /\ Len(t) = Len(plan) /\ DOMAIN t = 1..Len(plan)
        /\ \A n \in 1..Len(plan) : t[n] = Task(plan[n].id, plan[n]) /\ t[n].id = plan[n].id
    BY <1>1, TasksOfType
  <2> PICK k : k = Cleaned(change)
    OBVIOUS
  <2>2. MirroredTasks(t, call) = Updated(t, id, k)
    BY DEF MirroredTasks
  <2>3. TasksOf(new) = [n \in 1..Len(plan) |-> Task(new[n].id, new[n])]
    BY <1>4 DEF TasksOf
  <2>4. Updated(t, id, k) =
           [n \in 1..Len(plan) |-> IF t[n].id = id THEN Changed(t[n], k) ELSE t[n]]
    BY <2>1 DEF Updated
  <2>5. \A n \in 1..Len(plan) :
           Task(new[n].id, new[n]) = IF t[n].id = id THEN Changed(t[n], k) ELSE t[n]
    BY <1>1, <1>3, <1>4, <2>1
  <2>6. TasksOf(new) = Updated(t, id, k)
    BY <2>3, <2>4, <2>5
  <2> QED BY <2>2, <2>6
<1>8. Mirroring(plan, call, new)
  BY <1>1, <1>4, <1>5, <1>6, <1>7 DEF Mirroring
<1> QED BY <1>8

LEMMA MirrorWorks ==
  ASSUME NEW plan \in Seq(PlanStep), Growing(plan), NEW call, WellFormed(call)
  PROVE  Mirroring(plan, call, MirroredPlan(plan, call))
<1> PICK new : new = MirroredPlan(plan, call)
  OBVIOUS
<1>1. CASE ~call.named
  <2>1. new = plan /\ MirroredTasks(TasksOf(plan), call) = TasksOf(plan)
    BY <1>1 DEF MirroredPlan, MirroredTasks
  <2> QED BY <1>1, <2>1 DEF Mirroring
<1>2. CASE call.named /\ call.action = "delete"
  <2>1. new = <<>> /\ MirroredTasks(TasksOf(plan), call) = <<>>
    BY <1>2 DEF MirroredPlan, MirroredTasks
  <2>2. TasksOf(<<>>) = <<>> /\ Growing(<<>>) /\ Len(<<>>) = 0 /\ <<>> \in Seq(PlanStep)
    BY DEF TasksOf, Growing
  <2> QED BY <2>1, <2>2 DEF Mirroring
<1>3. call.named => \/ call.action = "create" /\ call.entries \in Seq(Entry)
                    \/ call.action = "add" /\ call.entry \in Entry
                    \/ call.action = "update" /\ IsChange(call.change)
                    \/ call.action = "delete"
  BY DEF WellFormed
<1> QED BY <1>1, <1>2, <1>3, MirrorsCreate, MirrorsAdd, MirrorsUpdate

\* d is data after the mirror of a call.
MirroredTo(data, call, d) ==
  /\ d \in RunLedgerData /\ Sound(d)
  /\ d.status = data.status /\ d.events = data.events
  /\ TasksOf(d.plan) = MirroredTasks(TasksOf(data.plan), call)

LEMMA MirroredData ==
  ASSUME NEW data \in RunLedgerData, Sound(data), NEW call, WellFormed(call)
  PROVE  MirroredTo(data, call, Mirrored(data, call))
<1> PICK plan, new, proved, x :
      /\ plan = data.plan /\ new = MirroredPlan(plan, call)
      /\ proved = (IF call.named /\ call.action \in {"create", "delete"}
                   THEN {} ELSE data.proved)
      /\ x = [data EXCEPT !.plan = new, !.proved = proved]
  OBVIOUS
<1>1. /\ plan \in Seq(PlanStep) /\ Len(plan) \in Nat /\ DOMAIN plan = 1..Len(plan)
      /\ data.proved \subseteq Nat /\ data.events \in Seq(ToolEvent)
  <2>1. plan \in Seq(PlanStep) /\ data.proved \subseteq Nat
        /\ data.events \in Seq(ToolEvent)
    BY DEF RunLedgerData
  <2> QED BY <2>1
<1>2. /\ Len(data.events) <= MaxEvents
      /\ \A n \in 1..Len(plan) : plan[n].evidence \subseteq DOMAIN data.events
      /\ Growing(plan)
  BY <1>1 DEF Sound, Orderly, Growing
<1>3. Mirroring(plan, call, new)
  BY <1>1, <1>2, MirrorWorks
<1>4. /\ new \in Seq(PlanStep) /\ Growing(new) /\ DOMAIN new = 1..Len(new)
      /\ \A n \in 1..Len(new) :
            \/ new[n].evidence = {}
            \/ /\ ~(call.named /\ call.action \in {"create", "delete"})
               /\ \E m \in 1..Len(plan) : new[n].id = plan[m].id
                                          /\ new[n].evidence = plan[m].evidence
      /\ TasksOf(new) = MirroredTasks(TasksOf(plan), call)
  <2>1. new \in Seq(PlanStep)
    BY <1>3 DEF Mirroring
  <2> QED BY <1>3, <2>1, SeqDomain DEF Mirroring
<1>5. /\ x \in RunLedgerData /\ x.plan = new /\ x.events = data.events
      /\ x.status = data.status /\ x.proved = proved
  <2>1. proved \in SUBSET Nat
    BY <1>1
  <2> QED BY <1>4, <2>1 DEF RunLedgerData
<1>6. Orderly(x)
  <2>1. \A n \in 1..Len(new) : new[n].evidence \subseteq DOMAIN data.events
    BY <1>2, <1>4
  <2> QED BY <1>2, <1>4, <1>5, <2>1 DEF Orderly, Growing
<1>7. Grounded(x)
  <2> SUFFICES ASSUME NEW n \in 1..Len(new), Successful(new[n], data.events) # {}
               PROVE  new[n].id \in proved
    BY <1>4, <1>5 DEF Grounded
  <2>1. new[n].evidence # {}
    BY DEF Successful
  <2>2. PICK m \in 1..Len(plan) : new[n].id = plan[m].id
                                  /\ new[n].evidence = plan[m].evidence
    BY <1>4, <2>1
  <2>3. proved = data.proved
    BY <1>4, <2>1
  <2>4. Successful(plan[m], data.events) # {}
    BY <2>2 DEF Successful
  <2> QED BY <1>1, <2>2, <2>3, <2>4 DEF Sound, Grounded
<1> PICK d : d = Verified(x)
  OBVIOUS
<1>8. VerifiedTo(x, d)
  BY <1>5, <1>6, <1>7, VerifiedData
<1>9. Mirrored(data, call) = d
  BY DEF Mirrored
<1>10. MirroredTo(data, call, d)
  BY <1>4, <1>5, <1>8 DEF VerifiedTo, MirroredTo
<1> QED BY <1>9, <1>10

-----------------------------------------------------------------------------
(* The record of a call *)

LEMMA ServedSteps ==
  ASSUME NEW plan \in Seq(PlanStep), NEW call
  PROVE  Served(plan, call) \subseteq InProgress(plan)
         /\ (IsPlanCall(call) => Served(plan, call) = {})
<1>1. InProgress(plan) \subseteq Nat
  BY DEF InProgress
<1>2. CASE IsPlanCall(call) \/ InProgress(plan) = {}
  BY <1>2 DEF Served
<1>3. CASE ~(IsPlanCall(call) \/ InProgress(plan) = {})
  <2> PICK P, Q : P = Permitting(plan, call.tool) /\ Q = InProgress(plan)
    OBVIOUS
  <2>1. P \subseteq Q /\ Q \subseteq Nat /\ Q # {}
    BY <1>1, <1>3 DEF Permitting
  <2>2. Min(Q) \in Q
    BY <2>1, SetMin
  <2>3. P # {} => Min(P) \in P
    BY <2>1, SetMin
  <2>4. Served(plan, call) = IF P = {} THEN {Min(Q)} ELSE {Min(P)}
    BY <1>3 DEF Served
  <2> QED BY <1>3, <2>1, <2>2, <2>3, <2>4
<1> QED BY <1>2, <1>3

\* What the record of a call needs of it.
IsOutcome(outcome) ==
  /\ outcome.success \in BOOLEAN
  /\ ~IsPlanCall(outcome.call) => outcome.call.shows \subseteq Patterns

\* d is data with a call recorded.
RecordedTo(data, outcome, d) ==
  /\ d \in RunLedgerData /\ Sound(d)
  /\ d.status = data.status /\ d.events = Append(data.events, Event(outcome))
  /\ TasksOf(d.plan) = TasksOf(data.plan)

LEMMA DataWithEvent ==
  ASSUME NEW data \in RunLedgerData, Sound(data), Len(data.events) < MaxEvents,
         NEW outcome, IsOutcome(outcome)
  PROVE  RecordedTo(data, outcome, WithEvent(data, outcome))
<1> PICK plan, seq, event : /\ plan = data.plan /\ seq = Len(data.events) + 1
                            /\ event = Event(outcome)
  OBVIOUS
<1> PICK events, served : /\ events = Append(data.events, event)
                          /\ served = Served(plan, outcome.call)
  OBVIOUS
<1> PICK new, proved :
      /\ new = [n \in DOMAIN plan |->
                   IF n \in served THEN [plan[n] EXCEPT !.evidence = @ \cup {seq}]
                   ELSE plan[n]]
      /\ proved = (IF outcome.success /\ ~IsPlanCall(outcome.call)
                   THEN data.proved \cup {plan[n].id : n \in InProgress(plan)}
                   ELSE data.proved)
  OBVIOUS
<1> PICK x : x = [data EXCEPT !.events = events, !.plan = new, !.proved = proved]
  OBVIOUS
<1>1. /\ plan \in Seq(PlanStep) /\ Len(plan) \in Nat /\ DOMAIN plan = 1..Len(plan)
      /\ data.proved \subseteq Nat /\ data.events \in Seq(ToolEvent)
      /\ DOMAIN data.events = 1..Len(data.events) /\ Len(data.events) \in Nat
      /\ \A n \in 1..Len(plan) : plan[n] \in PlanStep /\ plan[n].id \in Nat
  <2>1. plan \in Seq(PlanStep) /\ data.proved \subseteq Nat
        /\ data.events \in Seq(ToolEvent)
    BY DEF RunLedgerData
  <2>2. \A s \in PlanStep : s.id \in Nat
    BY DEF PlanStep
  <2>3. Len(plan) \in Nat /\ DOMAIN plan = 1..Len(plan)
        /\ \A n \in 1..Len(plan) : plan[n] \in PlanStep
    BY <2>1
  <2> QED BY <2>1, <2>2, <2>3
<1>2. /\ Len(data.events) <= MaxEvents
      /\ \A n \in 1..Len(plan) : plan[n].evidence \subseteq 1..Len(data.events)
      /\ \A m, n \in 1..Len(plan) : m < n => plan[m].id < plan[n].id
      /\ \A n \in 1..Len(plan) :
            Successful(plan[n], data.events) # {} => plan[n].id \in data.proved
  BY <1>1 DEF Sound, Orderly, Grounded
<1>3. served \subseteq InProgress(plan) /\ (IsPlanCall(outcome.call) => served = {})
  BY <1>1, ServedSteps
<1>4. event \in ToolEvent /\ event.success = outcome.success
  BY DEF Event, ToolEvent, IsOutcome
<1>5. /\ events \in Seq(ToolEvent) /\ Len(events) = seq /\ DOMAIN events = 1..seq
      /\ events[seq] = event /\ \A n \in 1..Len(data.events) : events[n] = data.events[n]
      /\ seq \in Nat /\ seq <= MaxEvents
  BY <1>1, <1>4, LedgerAssumption
<1>6. \A n \in 1..Len(plan) :
         LET step == [plan[n] EXCEPT !.evidence = @ \cup {seq}]
         IN /\ step \in PlanStep /\ step.id = plan[n].id
            /\ step.evidence = plan[n].evidence \cup {seq}
            /\ Task(step.id, step) = Task(plan[n].id, plan[n])
  <2> SUFFICES ASSUME NEW s \in PlanStep
               PROVE  LET step == [s EXCEPT !.evidence = @ \cup {seq}]
                      IN /\ step \in PlanStep /\ step.id = s.id
                         /\ step.evidence = s.evidence \cup {seq}
                         /\ Task(step.id, step) = Task(s.id, s)
    BY <1>1
  <2> QED BY <1>5 DEF PlanStep, Task
<1>7. /\ new \in Seq(PlanStep) /\ Len(new) = Len(plan) /\ DOMAIN new = 1..Len(plan)
      /\ \A n \in 1..Len(plan) :
            /\ new[n].id = plan[n].id
            /\ new[n].evidence = IF n \in served THEN plan[n].evidence \cup {seq}
                                 ELSE plan[n].evidence
            /\ Task(new[n].id, new[n]) = Task(plan[n].id, plan[n])
  <2>1. new = [n \in 1..Len(plan) |-> IF n \in served THEN [plan[n] EXCEPT !.evidence = @ \cup {seq}]
                   ELSE plan[n]]
    BY <1>1
  <2>2. \A n \in 1..Len(plan) :
           new[n] = IF n \in served THEN [plan[n] EXCEPT !.evidence = @ \cup {seq}] ELSE plan[n]
    BY <2>1
  <2>3. \A n \in 1..Len(plan) : new[n] \in PlanStep
    BY <1>1, <1>6, <2>2
  <2>4. \A n \in 1..Len(plan) :
            /\ new[n].id = plan[n].id
            /\ new[n].evidence = IF n \in served THEN plan[n].evidence \cup {seq}
                                 ELSE plan[n].evidence
            /\ Task(new[n].id, new[n]) = Task(plan[n].id, plan[n])
    BY <1>1, <1>6, <2>2
  <2>5. DOMAIN new = 1..Len(plan) /\ new = [n \in 1..Len(plan) |-> new[n]]
    BY <2>1
  <2>6. new \in Seq(PlanStep) /\ Len(new) = Len(plan)
    <3>1. Len(plan) \in Nat
      BY <1>1
    <3>2. new \in [1..Len(plan) -> PlanStep]
      BY <2>3, <2>5
    <3> QED BY ONLY <3>1, <3>2
  <2> QED BY <2>4, <2>5, <2>6
<1>8. /\ x \in RunLedgerData /\ x.plan = new /\ x.events = events
      /\ x.status = data.status /\ x.proved = proved
  <2>1. proved \in SUBSET Nat
    BY <1>1 DEF InProgress
  <2> QED BY <1>5, <1>7, <2>1 DEF RunLedgerData
<1>9. Orderly(x)
  <2>1. \A n \in 1..Len(plan) : new[n].evidence \subseteq 1..seq
    <3>1. \A i \in 1..Len(data.events) : i \in 1..seq
      BY <1>1, <1>5
    <3>2. seq \in 1..seq
      BY <1>1
    <3> QED BY <1>2, <1>7, <3>1, <3>2
  <2>2. \A m, n \in 1..Len(plan) : m < n => new[m].id < new[n].id
    BY <1>2, <1>7
  <2>3. DOMAIN new = 1..Len(plan) /\ DOMAIN events = 1..seq /\ Len(events) <= MaxEvents
    BY <1>5, <1>7
  <2> QED BY ONLY <1>8, <2>1, <2>2, <2>3 DEF Orderly
<1>10. Grounded(x)
  <2> SUFFICES ASSUME NEW n \in 1..Len(plan), Successful(new[n], events) # {}
               PROVE  new[n].id \in proved
    BY <1>7, <1>8 DEF Grounded
  <2>1. PICK e : e \in new[n].evidence /\ events[e].success
    BY DEF Successful
  <2>2. CASE e \in plan[n].evidence
    <3>1. e \in 1..Len(data.events) /\ data.events[e].success
      BY <1>2, <1>5, <2>1, <2>2
    <3>2. Successful(plan[n], data.events) # {}
      BY <2>2, <3>1 DEF Successful
    <3>3. plan[n].id \in data.proved
      BY <1>2, <3>2
    <3> QED BY <1>7, <3>3
  <2>3. CASE e \notin plan[n].evidence
    <3>1. n \in served /\ e = seq
      BY <1>7, <2>1, <2>3
    <3>2. outcome.success /\ ~IsPlanCall(outcome.call) /\ n \in InProgress(plan)
      BY <1>3, <1>4, <1>5, <2>1, <3>1
    <3>3. plan[n].id \in proved
      BY <3>2
    <3> QED BY <1>7, <3>3
  <2> QED BY <2>2, <2>3
<1> PICK d : d = Verified(x)
  OBVIOUS
<1>11. VerifiedTo(x, d)
  BY <1>8, <1>9, <1>10, VerifiedData
<1>12. WithEvent(data, outcome) = d
  BY DEF WithEvent
<1>13. TasksOf(new) = TasksOf(plan)
  BY <1>1, <1>7 DEF TasksOf
<1>14. RecordedTo(data, outcome, d)
  BY <1>8, <1>11, <1>13 DEF VerifiedTo, RecordedTo
<1> QED BY <1>12, <1>14

-----------------------------------------------------------------------------
(* Openings and ends *)

LEMMA FreshIsSound == FreshData \in RunLedgerData /\ Sound(FreshData)
<1>1. FreshData \in RunLedgerData
  BY LedgerAssumption DEF FreshData, RunLedgerData
<1>2. Sound(FreshData)
  BY LedgerAssumption DEF FreshData, Sound, Orderly, Grounded, Honest
<1> QED BY <1>1, <1>2

LEMMA SameLedger ==
  ASSUME NEW data \in RunLedgerData, Sound(data), NEW other \in RunLedgerData,
         other.plan = data.plan, other.events = data.events, other.proved = data.proved
  PROVE  Sound(other)
<1>1. Orderly(other) /\ Grounded(other)
  BY DEF Sound, Orderly, Grounded
<1>2. Honest(other)
  <2>1. Honest(data)
    BY DEF Sound
  <2> QED BY <2>1 DEF Honest
<1> QED BY <1>1, <1>2 DEF Sound

LEMMA OpenedData ==
  ASSUME NEW content \in Content, content \in RunLedgerData => Sound(content)
  PROVE  /\ Opened(content) \in RunLedgerData /\ Sound(Opened(content))
         /\ Opened(content).status = "running"
         /\ Opened(content).events = Events(content)
<1>1. CASE content \in {NoFile, Torn}
  BY <1>1, FreshIsSound DEF Opened, Events, FreshData
<1>2. CASE content \notin {NoFile, Torn}
  <2>1. content \in RunLedgerData
    BY <1>2 DEF Content
  <2> PICK d : d = [content EXCEPT !.status = "running"]
    OBVIOUS
  <2>2. /\ d \in RunLedgerData /\ d.status = "running" /\ d.events = content.events
        /\ d.plan = content.plan /\ d.proved = content.proved
    BY <2>1 DEF RunLedgerData
  <2>3. Sound(d)
    BY <2>1, <2>2, SameLedger
  <2>4. Opened(content) = d /\ Events(content) = content.events
    BY <1>2 DEF Opened, Events
  <2> QED BY <2>2, <2>3, <2>4
<1> QED BY <1>1, <1>2

\* An unblocked ledger is done once it is verified.
LEMMA UnblockedIsDone ==
  ASSUME NEW data \in RunLedgerData, Orderly(data), Grounded(data), ~Blocked(data)
  PROVE  Done(Verified(data))
<1> PICK v : v = Verified(data)
  OBVIOUS
<1>1. v \in RunLedgerData
  BY VerifiedData DEF VerifiedTo
<1>2. \A n \in DOMAIN v.plan : ~Blocks(v.plan[n])
  BY DEF Blocked
<1>3. \A n \in DOMAIN v.plan : v.plan[n].status \in Statuses
  <2>1. v.plan \in Seq(PlanStep)
    BY <1>1 DEF RunLedgerData
  <2>2. \A s \in PlanStep : s.status \in Statuses
    BY DEF PlanStep
  <2> QED BY <2>1, <2>2
<1>4. Done(v)
  BY <1>2, <1>3 DEF Done, Blocks, Statuses
<1> QED BY <1>4

-----------------------------------------------------------------------------
(* The list *)

LEMMA TitledType ==
  ASSUME NEW E, NEW s \in Seq(E)
  PROVE  Titled(s) \in Seq(E)
<1>0. Len(s) \in Nat /\ \A m \in 1..Len(s) : s[m] \in E
  OBVIOUS
<1>1. PICK f : Keeps(f, Len(s), s) /\ Titled(s) = f[Len(s)]
  BY TitledUnfolds
<1> DEFINE S == {n \in Nat : n <= Len(s) => f[n] \in Seq(E)}
<1>2. 0 \in S
  <2>1. f[0] = <<>> /\ <<>> \in Seq(E)
    BY <1>1 DEF Keeps
  <2> QED BY <2>1
<1>3. ASSUME NEW n \in Nat, n \in S PROVE n + 1 \in S
  <2> SUFFICES ASSUME n + 1 <= Len(s) PROVE f[n + 1] \in Seq(E)
    OBVIOUS
  <2>1. f[n] \in Seq(E) /\ n + 1 \in 1..Len(s) /\ s[n + 1] \in E /\ (n + 1) - 1 = n
    BY <1>0, <1>3
  <2>2. f[n + 1] = IF s[n + 1].title = NoTitle THEN f[n] ELSE Append(f[n], s[n + 1])
    BY <1>1, <2>1 DEF Keeps
  <2> QED BY <2>1, <2>2
<1> HIDE DEF S
<1>4. Len(s) \in S
  BY <1>0, <1>2, <1>3, SetInduction
<1> QED BY <1>0, <1>1, <1>4 DEF S

LEMMA PlanCallsWellFormed ==
  ASSUME NEW outcome \in Outcome
  PROVE  IsOutcome(outcome) /\ (IsPlanCall(outcome.call) => WellFormed(outcome.call))
<1>1. outcome.success \in BOOLEAN
      /\ outcome.call \in ToolCalls \cup UNION {PlanCalls[p] : p \in Paths}
  BY DEF Outcome
<1>2. CASE outcome.call \in ToolCalls
  BY <1>1, <1>2, LedgerAssumption DEF IsOutcome
<1>3. CASE outcome.call \in UNION {PlanCalls[p] : p \in Paths}
  <2>1. WellFormed(outcome.call)
    BY <1>3, LedgerAssumption
  <2> QED BY <1>1, <2>1 DEF WellFormed, IsOutcome
<1> QED BY <1>1, <1>2, <1>3

LEMMA AddedType ==
  ASSUME NEW id \in Nat, NEW entry \in Entry
  PROVE  Task(id, Pending(entry)) \in TaskItem /\ Task(id, Pending(entry)).id = id
<1>1. Pending(entry) \in Entry
  BY DEF Pending, Entry, Statuses
<1> QED BY <1>1, TaskType DEF Task

LEMMA ChangedListType ==
  ASSUME list \in TaskList, NEW p \in Paths, NEW call, WellFormed(call)
  PROVE  ChangedList(call, p) \in TaskList
<1>1. list.tasks \in Seq(TaskItem) /\ list.next_id \in Nat
  BY DEF TaskList
<1>2. Owner(call, p) \in Paths \cup {NoPath}
  BY DEF Owner
<1>3. Tasks(call) \in Seq(TaskItem)
  <2>1. CASE call.action = "create"
    <3>1. Titled(call.entries) \in Seq(Entry)
      BY <2>1, TitledType DEF WellFormed
    <3>2. Numbered(Titled(call.entries)) \in Seq(TaskItem)
      BY <3>1, NumberedType
    <3> QED BY <2>1, <3>2 DEF Tasks
  <2>2. CASE call.action = "add"
    <3>1. Task(list.next_id, Pending(call.entry)) \in TaskItem
      BY <1>1, <2>2, AddedType DEF WellFormed
    <3>2. Append(list.tasks, Task(list.next_id, Pending(call.entry))) \in Seq(TaskItem)
      BY <1>1, <3>1
    <3> QED BY <2>2, <3>2 DEF Tasks
  <2>3. CASE call.action = "update"
    <3>1. \A task \in TaskItem : /\ Changed(task, Cleaned(call.change)) \in TaskItem
                                 /\ Changed(task, Cleaned(call.change)).id = task.id
      BY <2>3, CleanedOfTask DEF WellFormed
    <3>2. Updated(list.tasks, call.id, Cleaned(call.change)) \in Seq(TaskItem)
      BY <1>1, <3>1, UpdatedType
    <3> QED BY <2>3, <3>2 DEF Tasks
  <2>4. CASE call.action = "delete"
    BY <2>4 DEF Tasks
  <2> QED BY <2>1, <2>2, <2>3, <2>4 DEF WellFormed
<1>4. NextId(call) \in Nat
  <2>1. Len(Tasks(call)) \in Nat
    BY <1>3
  <2> QED BY <1>1, <2>1 DEF NextId, WellFormed
<1> QED BY <1>2, <1>3, <1>4 DEF ChangedList, TaskList

-----------------------------------------------------------------------------
(* Ledgers are in order *)

\* A ledger that says it is completed is done.
Truthful(data) == data.status = "completed" => Done(data)

\* Until its end a run goes on; one of an AutonomousLoop ends as it should.
EndInv(R) ==
  /\ R.at # "finalized" => R.data.status = "running"
  /\ R.path \in OwnPaths => Truthful(R.data)
  /\ R.path \in OwnPaths /\ R.at = "closing" /\ R.verdict = "completed"
     => ~Blocked(R.data)

\* What a run is up to, by where it is, and that its ledger is sound.
RunInv(R) ==
  /\ R \in RunType
  /\ R.path = NoPath <=> R.at \in {"none", "closed"}
  /\ R.at = "abandoned" => R.path \in OwnPaths
  /\ R.at \in {"none", "closed", "abandoned"} => R.save = "none"
  /\ R.save = "due" => R.at = "opening"
  /\ R.at \in {"recording", "mirrored"} => R.outcomes # <<>>
  /\ R.outcomes # <<>> => R.at \in {"working", "recording", "mirrored"}
  /\ R.at = "mirrored" => IsMirrored(Head(R.outcomes))
  /\ Sound(R.data)
  /\ EndInv(R)

LEMMA GoesOn ==
  ASSUME NEW R, R.data.status = "running",
         R.path \in OwnPaths /\ R.at = "closing" => R.verdict # "completed"
  PROVE  EndInv(R)
BY DEF EndInv, Truthful

\* EXCEPT changes one run of a function of all.
RunsInv == /\ run = [r \in Runs |-> run[r]]
           /\ \A r \in Runs : RunInv(run[r])

\* A content of a file is a sound ledger, if it is one.
Kept(content) == content \in RunLedgerData => Sound(content)
Ended(content) == content \in RunLedgerData => Truthful(content)

\* What is in the files, or about to be.
FilesInv == /\ file \in [Paths -> Content] /\ tmp \in [Paths -> Content]
            /\ \A p \in Paths : Kept(file[p]) /\ Kept(tmp[p])
            /\ \A p \in OwnPaths : Ended(file[p]) /\ Ended(tmp[p])

\* The rest is only typed.
OthersInv ==
  /\ list \in TaskList
  /\ live \in [Paths -> Runs \cup {NoRun}]
  /\ calls \in Nat /\ crashes \in Nat
  /\ contested \subseteq Paths
  /\ kept \in [Paths -> Seq(ToolEvent)]

\* Every ledger is sound.
DataInv == RunsInv /\ FilesInv /\ OthersInv

LEMMA DataInvImplies == DataInv => TypeOK
<1> SUFFICES ASSUME DataInv PROVE TypeOK
  OBVIOUS
<1>1. \A r \in Runs : run[r] \in RunType /\ Orderly(run[r].data)
  BY DEF DataInv, RunsInv, RunInv, Sound
<1>2. run \in [Runs -> RunType]
  BY <1>1 DEF DataInv, RunsInv
<1>3. \A p \in Paths : /\ file[p] \in RunLedgerData => Orderly(file[p])
                       /\ tmp[p] \in RunLedgerData => Orderly(tmp[p])
  BY DEF DataInv, FilesInv, Kept, Sound
<1> QED BY <1>1, <1>2, <1>3 DEF DataInv, FilesInv, OthersInv, TypeOK

LEMMA StepKeepsRuns ==
  ASSUME RunsInv, NEW r \in Runs, NEW next, RunInv(next), Step(r, next)
  PROVE  RunsInv'
<1>1. /\ run' = [q \in Runs |-> IF q = r THEN next ELSE run[q]]
  BY DEF Step, RunsInv
<1>2. \A q \in Runs : RunInv(run'[q])
  BY <1>1 DEF RunsInv
<1>3. run' = [q \in Runs |-> run'[q]]
  BY <1>1
<1>4. \A q \in Runs : RunInv(run[q])'
  BY <1>2 DEF RunInv
<1> QED BY <1>3, <1>4 DEF RunsInv

LEMMA SavesKeeps ==
  ASSUME RunsInv, FilesInv, NEW r \in Runs, NEW next, RunInv(next),
         next.at \notin {"none", "closed", "abandoned"}, Saves(r, next), UNCHANGED file
  PROVE  RunsInv' /\ FilesInv'
<1> PICK saving : saving = [next EXCEPT !.save = "open", !.writes = "tmp"]
  OBVIOUS
<1>1. next \in RunType
  BY DEF RunInv
<1>2. saving \in RunType /\ saving.save = "open" /\ saving.at = next.at
      /\ saving.path = next.path /\ saving.outcomes = next.outcomes
      /\ saving.data = next.data
  BY <1>1 DEF RunType
<1>3. RunInv(saving)
  <2>1. saving.verdict = next.verdict
    BY <1>1 DEF RunType
  <2>2. EndInv(saving)
    BY <1>2, <2>1 DEF RunInv, EndInv
  <2> QED BY <1>2, <2>2 DEF RunInv
<1>4. Step(r, saving)
  BY DEF Saves
<1>5. RunsInv'
  BY <1>3, <1>4, StepKeepsRuns
<1>6. tmp' = [tmp EXCEPT ![run[r].path] = Torn]
  BY DEF Saves
<1>7. Torn \in Content /\ Torn \notin RunLedgerData
  BY LedgerAssumption DEF Content
<1>8. tmp' \in [Paths -> Content] /\ \A p \in Paths : tmp'[p] = tmp[p] \/ tmp'[p] = Torn
  BY <1>6, <1>7 DEF FilesInv
<1>9. \A p \in Paths : Kept(tmp'[p]) /\ Kept(file'[p])
  BY <1>7, <1>8 DEF FilesInv, Kept
<1>10. \A p \in OwnPaths : Ended(tmp'[p]) /\ Ended(file'[p])
  BY <1>7, <1>8, LedgerAssumption DEF FilesInv, Ended
<1>11. FilesInv'
  BY <1>8, <1>9, <1>10 DEF FilesInv, Kept, Ended
<1> QED BY <1>5, <1>11

LEMMA SetAttempts ==
  ASSUME NEW data \in RunLedgerData, Sound(data), NEW n \in 0..RetryBudget
  PROVE  /\ [data EXCEPT !.attempts = n] \in RunLedgerData
         /\ Sound([data EXCEPT !.attempts = n])
         /\ [data EXCEPT !.attempts = n].plan = data.plan
         /\ [data EXCEPT !.attempts = n].events = data.events
         /\ [data EXCEPT !.attempts = n].status = data.status
<1> PICK d : d = [data EXCEPT !.attempts = n]
  OBVIOUS
<1>1. /\ d \in RunLedgerData /\ d.plan = data.plan /\ d.events = data.events
      /\ d.proved = data.proved /\ d.status = data.status
  BY DEF RunLedgerData
<1>2. Orderly(d) /\ Grounded(d)
  BY <1>1 DEF Sound, Orderly, Grounded
<1>3. Honest(d)
  <2>1. Honest(data)
    BY DEF Sound
  <2> QED BY <1>1, <2>1 DEF Honest
<1> QED BY <1>1, <1>2, <1>3 DEF Sound

LEMMA CountRouting ==
  ASSUME NEW data \in RunLedgerData, Sound(data)
  PROVE  /\ [data EXCEPT !.routed = @ + 1] \in RunLedgerData
         /\ Sound([data EXCEPT !.routed = @ + 1])
         /\ [data EXCEPT !.routed = @ + 1].plan = data.plan
         /\ [data EXCEPT !.routed = @ + 1].events = data.events
         /\ [data EXCEPT !.routed = @ + 1].status = data.status
<1> PICK d : d = [data EXCEPT !.routed = @ + 1]
  OBVIOUS
<1>1. /\ d \in RunLedgerData /\ d.plan = data.plan /\ d.events = data.events
      /\ d.proved = data.proved /\ d.status = data.status
  BY DEF RunLedgerData
<1>2. Orderly(d) /\ Grounded(d)
  BY <1>1 DEF Sound, Orderly, Grounded
<1>3. Honest(d)
  <2>1. Honest(data)
    BY DEF Sound
  <2> QED BY <1>1, <2>1 DEF Honest
<1> QED BY <1>1, <1>2, <1>3 DEF Sound

-----------------------------------------------------------------------------
(* Every step keeps the ledgers sound: saving, opening, executing *)

LEMMA TruncateKeepsData ==
  ASSUME DataInv, NEW r \in Runs, Truncate(r)
  PROVE  DataInv'
<1>1. RunInv(run[r]) /\ run[r].at = "opening"
  BY DEF DataInv, RunsInv, RunInv, Truncate
<1>2. RunsInv' /\ FilesInv'
  BY <1>1, SavesKeeps DEF DataInv, Truncate
<1> QED BY <1>2 DEF DataInv, OthersInv, Truncate

LEMMA FillKeepsData ==
  ASSUME DataInv, NEW r \in Runs, Fill(r)
  PROVE  DataInv'
<1>1. RunInv(run[r]) /\ run[r] \in RunType /\ run[r].save = "open"
      /\ run[r].data \in RunLedgerData
      /\ Sound(run[r].data) /\ run[r].at \notin {"none", "closed", "abandoned"}
  BY DEF DataInv, RunsInv, RunInv, RunType, Fill
<1> PICK next : next = [run[r] EXCEPT !.save = "written"]
  OBVIOUS
<1>2. /\ next \in RunType /\ next.at = run[r].at /\ next.path = run[r].path
      /\ next.save = "written"
      /\ next.outcomes = run[r].outcomes /\ next.data = run[r].data
      /\ next.verdict = run[r].verdict
  BY <1>1 DEF RunType
<1>3. RunInv(next)
  BY <1>1, <1>2 DEF RunInv, EndInv
<1>4. RunsInv'
  BY <1>3, StepKeepsRuns DEF DataInv, Fill
<1>5. Torn \in Content /\ Torn \notin RunLedgerData
  BY LedgerAssumption DEF Content
<1>6. \A content \in Written(r) : content \in Content /\ Kept(content)
  BY <1>1, <1>5 DEF Written, Kept, Content
<1> PICK p : p = run[r].path
  OBVIOUS
<1>7. \/ /\ \E content \in Written(r) : tmp' = [tmp EXCEPT ![p] = content]
         /\ UNCHANGED file
      \/ /\ \E content \in Written(r) : file' = [file EXCEPT ![p] = content]
         /\ UNCHANGED tmp
      \/ UNCHANGED <<file, tmp>>
  BY DEF Fill
<1>8. /\ file' \in [Paths -> Content] /\ tmp' \in [Paths -> Content]
      /\ \A q \in Paths : Kept(file'[q]) /\ Kept(tmp'[q])
  <2>1. CASE /\ \E content \in Written(r) : tmp' = [tmp EXCEPT ![p] = content]
             /\ UNCHANGED file
    BY <1>6, <2>1 DEF DataInv, FilesInv
  <2>2. CASE /\ \E content \in Written(r) : file' = [file EXCEPT ![p] = content]
             /\ UNCHANGED tmp
    BY <1>6, <2>2 DEF DataInv, FilesInv
  <2>3. CASE UNCHANGED <<file, tmp>>
    BY <2>3 DEF DataInv, FilesInv
  <2> QED BY <1>7, <2>1, <2>2, <2>3
<1>9. \A q \in OwnPaths : Ended(file'[q]) /\ Ended(tmp'[q])
  <2>1. p \in OwnPaths => \A content \in Written(r) : Ended(content)
    BY <1>1, <1>5 DEF Written, Ended, RunInv, EndInv
  <2>2. CASE /\ \E content \in Written(r) : tmp' = [tmp EXCEPT ![p] = content]
             /\ UNCHANGED file
    BY <2>1, <2>2, LedgerAssumption DEF DataInv, FilesInv
  <2>3. CASE /\ \E content \in Written(r) : file' = [file EXCEPT ![p] = content]
             /\ UNCHANGED tmp
    BY <2>1, <2>3, LedgerAssumption DEF DataInv, FilesInv
  <2>4. CASE UNCHANGED <<file, tmp>>
    BY <2>4 DEF DataInv, FilesInv
  <2> QED BY <1>7, <2>2, <2>3, <2>4
<1>10. FilesInv'
  BY <1>8, <1>9 DEF FilesInv, Kept, Ended
<1> QED BY <1>4, <1>10 DEF DataInv, OthersInv, Fill

LEMMA RenameKeepsData ==
  ASSUME DataInv, NEW r \in Runs, Rename(r)
  PROVE  DataInv'
<1> PICK p, saved : /\ p = run[r].path
                    /\ saved = [run[r] EXCEPT !.save = "none", !.writes = "none"]
  OBVIOUS
<1>1. RunInv(run[r]) /\ run[r] \in RunType
  BY DEF DataInv, RunsInv, RunInv
<1>2. /\ saved \in RunType /\ saved.at = run[r].at /\ saved.path = p
      /\ saved.save = "none" /\ saved.outcomes = run[r].outcomes /\ saved.data = run[r].data
      /\ saved.verdict = run[r].verdict
  BY <1>1 DEF RunType
<1>3. RunInv(saved)
  BY <1>1, <1>2 DEF RunInv, EndInv
<1>4. CASE /\ tmp[p] # NoFile
           /\ file' = [file EXCEPT ![p] = tmp[p]]
           /\ tmp' = [tmp EXCEPT ![p] = NoFile]
           /\ run' = [q \in Runs |->
                 IF q = r THEN saved
                 ELSE IF run[q].path = p
                      THEN [run[q] EXCEPT !.writes = Moved(@)] ELSE run[q]]
  <2>1. p \in Paths
    <3>1. run[r].save = "written"
      BY DEF Rename
    <3> QED BY <1>1, <3>1 DEF RunInv, RunType
  <2>2. ASSUME NEW q \in Runs PROVE RunInv(run'[q])
    <3>1. RunInv(run[q]) /\ run[q] \in RunType
      BY DEF DataInv, RunsInv, RunInv
    <3> PICK moved : moved = [run[q] EXCEPT !.writes = Moved(@)]
      OBVIOUS
    <3>2. /\ moved \in RunType /\ moved.at = run[q].at /\ moved.path = run[q].path
          /\ moved.save = run[q].save /\ moved.outcomes = run[q].outcomes
          /\ moved.data = run[q].data /\ moved.verdict = run[q].verdict
      BY <3>1 DEF RunType, Moved
    <3>3. RunInv(moved)
      BY <3>1, <3>2 DEF RunInv, EndInv
    <3> QED BY <1>3, <1>4, <3>1, <3>3
  <2>3. RunsInv'
    <3>1. \A q \in Runs : RunInv(run[q])'
      BY <2>2 DEF RunInv
    <3>2. run' = [q \in Runs |-> run'[q]]
      BY <1>4
    <3> QED BY <3>1, <3>2 DEF RunsInv
  <2>4. NoFile \in Content /\ NoFile \notin RunLedgerData
    BY LedgerAssumption DEF Content
  <2>5. /\ file' \in [Paths -> Content] /\ tmp' \in [Paths -> Content]
        /\ \A q \in Paths : Kept(file'[q]) /\ Kept(tmp'[q])
    BY <1>4, <2>1, <2>4 DEF DataInv, FilesInv, Kept
  <2>6. \A q \in OwnPaths : Ended(file'[q]) /\ Ended(tmp'[q])
    BY <1>4, <2>1, <2>4, LedgerAssumption DEF DataInv, FilesInv, Ended
  <2>7. FilesInv'
    BY <2>5, <2>6 DEF FilesInv, Kept, Ended
  <2> QED BY <2>3, <2>7 DEF DataInv, OthersInv, Rename
<1>5. CASE Step(r, saved) /\ UNCHANGED <<file, tmp>>
  <2>1. RunsInv'
    BY <1>3, <1>5, StepKeepsRuns DEF DataInv
  <2>2. FilesInv'
    BY <1>5 DEF DataInv, FilesInv, Kept, Ended
  <2> QED BY <2>1, <2>2 DEF DataInv, OthersInv, Rename
<1> QED BY <1>4, <1>5 DEF Rename

\* A step of one run that leaves the files alone.
LEMMA QuietStepKeeps ==
  ASSUME DataInv, NEW r \in Runs, NEW next, RunInv(next), Step(r, next),
         UNCHANGED <<file, tmp>>, OthersInv'
  PROVE  DataInv'
<1>1. RunsInv'
  BY StepKeepsRuns DEF DataInv
<1>2. FilesInv'
  BY DEF DataInv, FilesInv, Kept, Ended
<1> QED BY <1>1, <1>2 DEF DataInv

LEMMA OpenKeepsData ==
  ASSUME DataInv, NEW r \in Runs, OpenLedger(r)
  PROVE  DataInv'
<1>1. RunInv(run[r]) /\ run[r] \in RunType /\ run[r].at = "none"
  BY DEF DataInv, RunsInv, RunInv, OpenLedger
<1>2. PICK p \in Paths : Step(r, [run[r] EXCEPT !.at = "opening", !.path = p, !.save = "due",
                                                !.data = Opened(file[p])])
  BY DEF OpenLedger
<1> PICK next, data : /\ data = Opened(file[p])
                      /\ next = [run[r] EXCEPT !.at = "opening", !.path = p, !.save = "due",
                                               !.data = data]
  OBVIOUS
<1>3. data \in RunLedgerData /\ Sound(data) /\ data.status = "running"
  BY OpenedData DEF DataInv, FilesInv, Kept
<1>4. next \in RunType /\ next.at = "opening" /\ next.path = p /\ next.save = "due"
      /\ next.data = data /\ next.outcomes = run[r].outcomes
  BY <1>1, <1>3 DEF RunType
<1>5. RunInv(next)
  BY <1>1, <1>3, <1>4, GoesOn, LedgerAssumption DEF RunInv
<1>6. OthersInv'
  <2>1. contested' \subseteq Paths
    <3>1. \A q \in Runs : Open(q) => run[q].path \in Paths
      BY DEF Open, DataInv, RunsInv, RunInv, RunType
    <3> QED BY <3>1 DEF OpenLedger, DataInv, OthersInv
  <2> QED BY <2>1 DEF OpenLedger, DataInv, OthersInv
<1>7. UNCHANGED <<file, tmp>>
  BY DEF OpenLedger
<1> QED BY <1>2, <1>5, <1>6, <1>7, QuietStepKeeps

LEMMA RegisterKeepsData ==
  ASSUME DataInv, NEW r \in Runs, Register(r)
  PROVE  DataInv'
<1>1. RunInv(run[r]) /\ run[r] \in RunType /\ run[r].at = "opening" /\ run[r].save = "none"
      /\ run[r].data.status = "running"
  BY DEF DataInv, RunsInv, RunInv, EndInv, Register, Ready
<1> PICK next : next = [run[r] EXCEPT !.at = IF Autonomous(r) THEN "between" ELSE "routing"]
  OBVIOUS
<1>2. next \in RunType /\ next.at \in {"between", "routing"} /\ next.path = run[r].path
      /\ next.save = "none" /\ next.data = run[r].data /\ next.outcomes = run[r].outcomes
  BY <1>1 DEF RunType
<1>3. RunInv(next)
  BY <1>1, <1>2, GoesOn DEF RunInv
<1>4. OthersInv'
  BY DEF Register, DataInv, OthersInv
<1> QED BY <1>3, <1>4, QuietStepKeeps DEF Register

LEMMA RoutingKeepsData ==
  ASSUME DataInv, NEW r \in Runs, RecordRouting(r)
  PROVE  DataInv'
<1>1. /\ RunInv(run[r]) /\ run[r] \in RunType /\ run[r].at = "routing"
      /\ run[r].save = "none"
      /\ run[r].data \in RunLedgerData /\ run[r].data.status = "running"
  BY DEF DataInv, RunsInv, RunInv, EndInv, RecordRouting, Ready, RunType
<1> PICK next, data : /\ data = [run[r].data EXCEPT !.routed = @ + 1]
                      /\ next = [run[r] EXCEPT !.at = "working", !.data.routed = @ + 1]
  OBVIOUS
<1>2. data \in RunLedgerData /\ Sound(data) /\ data.status = "running"
  BY <1>1, CountRouting DEF RunInv
<1>3. next \in RunType /\ next.at = "working" /\ next.path = run[r].path
      /\ next.save = "none" /\ next.data = data /\ next.outcomes = run[r].outcomes
  BY <1>1, <1>2 DEF RunType
<1>4. RunInv(next)
  BY <1>1, <1>2, <1>3, GoesOn DEF RunInv
<1>5. RunsInv' /\ FilesInv'
  BY <1>3, <1>4, SavesKeeps DEF DataInv, RecordRouting
<1> QED BY <1>5 DEF RecordRouting, DataInv, OthersInv

LEMMA ExecuteKeepsData ==
  ASSUME DataInv, NEW r \in Runs, NEW outcome \in Outcome, Execute(r, outcome),
         list' \in TaskList
  PROVE  DataInv'
<1>1. RunInv(run[r]) /\ run[r] \in RunType /\ run[r].at = "working" /\ run[r].save = "none"
      /\ run[r].data.status = "running"
  BY DEF DataInv, RunsInv, RunInv, EndInv, Execute, Ready
<1> PICK next : next = [run[r] EXCEPT !.outcomes = Append(@, outcome)]
  OBVIOUS
<1>2. Append(run[r].outcomes, outcome) \in Seq(Outcome)
  BY <1>1 DEF RunType
<1>3. next \in RunType /\ next.at = "working" /\ next.path = run[r].path
      /\ next.save = "none" /\ next.data = run[r].data
  BY <1>1, <1>2 DEF RunType
<1>4. RunInv(next)
  BY <1>1, <1>3, GoesOn DEF RunInv
<1>5. OthersInv'
  BY DEF Execute, DataInv, OthersInv
<1> QED BY <1>4, <1>5, QuietStepKeeps DEF Execute

LEMMA ToolKeepsData ==
  ASSUME DataInv, NEW r \in Runs, ExecuteTool(r)
  PROVE  DataInv'
<1>1. PICK call \in ToolCalls : Execute(r, [call |-> call, success |-> call.success])
  BY DEF ExecuteTool
<1>2. [call |-> call, success |-> call.success] \in Outcome
  BY LedgerAssumption DEF Outcome
<1>3. list' \in TaskList
  BY DEF ExecuteTool, DataInv, OthersInv
<1> QED BY <1>1, <1>2, <1>3, ExecuteKeepsData

LEMMA RunPath ==
  ASSUME DataInv, NEW r \in Runs, run[r].at \notin {"none", "closed"}
  PROVE  run[r].path \in Paths
BY DEF DataInv, RunsInv, RunInv, RunType

LEMMA PlanCallKeepsData ==
  ASSUME DataInv, NEW r \in Runs, ExecutePlanCall(r)
  PROVE  DataInv'
<1>1. run[r].path \in Paths
  BY RunPath DEF ExecutePlanCall, Ready
<1>2. PICK call \in PlanCalls[run[r].path] :
         /\ Execute(r, [call |-> call, success |-> Accepts(call)])
         /\ list' = IF Accepts(call) THEN ChangedList(call, run[r].path) ELSE list
  BY DEF ExecutePlanCall
<1>3. WellFormed(call)
  BY <1>1, LedgerAssumption
<1>4. Accepts(call) \in BOOLEAN
  BY <1>3, Zenon DEF Accepts, WellFormed
<1>5. [call |-> call, success |-> Accepts(call)] \in Outcome
  BY <1>1, <1>4 DEF Outcome
<1>6. list \in TaskList
  BY DEF DataInv, OthersInv
<1>7. list' \in TaskList
  BY <1>1, <1>2, <1>3, <1>6, ChangedListType
<1> QED BY <1>2, <1>5, <1>7, ExecuteKeepsData

-----------------------------------------------------------------------------
(* Recording *)

\* The call that is recorded next.
LEMMA HeadOfOutcomes ==
  ASSUME DataInv, NEW r \in Runs, run[r].outcomes # <<>>
  PROVE  /\ Head(run[r].outcomes) \in Outcome
         /\ IsOutcome(Head(run[r].outcomes))
         /\ IsPlanCall(Head(run[r].outcomes).call) => WellFormed(Head(run[r].outcomes).call)
         /\ run[r].outcomes \in Seq(Outcome) /\ Tail(run[r].outcomes) \in Seq(Outcome)
<1>1. run[r].outcomes \in Seq(Outcome)
  BY DEF DataInv, RunsInv, RunInv, RunType
<1>2. Head(run[r].outcomes) \in Outcome /\ Tail(run[r].outcomes) \in Seq(Outcome)
  BY <1>1
<1> QED BY <1>1, <1>2, PlanCallsWellFormed

LEMMA RecordingHasOutcomes ==
  ASSUME DataInv, NEW r \in Runs, Ready(r, "mirrored") \/ Recording(r)
  PROVE  run[r].outcomes # <<>> /\ run[r].at \in {"working", "recording", "mirrored"}
         /\ run[r].save = "none"
BY DEF DataInv, RunsInv, RunInv, Ready, Recording

LEMMA RecordPlanCallKeepsData ==
  ASSUME DataInv, NEW r \in Runs, RecordPlanCall(r)
  PROVE  DataInv'
<1>1. /\ RunInv(run[r]) /\ run[r] \in RunType /\ run[r].outcomes # <<>>
      /\ run[r].at \in {"working", "recording", "mirrored"} /\ run[r].save = "none"
      /\ run[r].data \in RunLedgerData /\ Sound(run[r].data)
      /\ run[r].data.status = "running"
  BY RecordingHasOutcomes DEF DataInv, RunsInv, RunInv, EndInv, RunType, RecordPlanCall
<1> PICK call : call = Head(run[r].outcomes).call
  OBVIOUS
<1>2. WellFormed(call) /\ IsMirrored(Head(run[r].outcomes))
  BY <1>1, HeadOfOutcomes DEF RecordPlanCall, IsMirrored
<1> PICK next, data : /\ data = Mirrored(run[r].data, call)
                      /\ next = [run[r] EXCEPT !.at = "mirrored", !.data = Mirrored(@, call)]
  OBVIOUS
<1>3. data \in RunLedgerData /\ Sound(data) /\ data.status = "running"
  BY <1>1, <1>2, MirroredData DEF MirroredTo
<1>4. next \in RunType /\ next.at = "mirrored" /\ next.path = run[r].path
      /\ next.save = "none" /\ next.data = data /\ next.outcomes = run[r].outcomes
  BY <1>1, <1>3 DEF RunType
<1>5. RunInv(next)
  BY <1>1, <1>2, <1>3, <1>4, GoesOn DEF RunInv
<1>6. RunsInv' /\ FilesInv'
  BY <1>4, <1>5, SavesKeeps DEF DataInv, RecordPlanCall
<1> QED BY <1>6 DEF RecordPlanCall, DataInv, OthersInv

\* Where a run is once a call is recorded.
Further(r) ==
  [run[r] EXCEPT
      !.outcomes = Tail(@),
      !.at = IF Len(run[r].outcomes) = 1 THEN "working" ELSE "recording"]

LEMMA NextOutcome ==
  ASSUME DataInv, NEW r \in Runs, RecordEvent(r)
  PROVE  /\ RunInv(Further(r)) /\ Further(r) \in RunType
         /\ Further(r).at \in {"working", "recording"} /\ Further(r).path = run[r].path
         /\ Further(r).save = "none" /\ Further(r).data = run[r].data
         /\ Further(r).outcomes = Tail(run[r].outcomes)
<1>0. PICK next : next = Further(r)
  OBVIOUS
<1>1. /\ RunInv(run[r]) /\ run[r] \in RunType /\ run[r].outcomes # <<>>
      /\ run[r].at \in {"working", "recording", "mirrored"} /\ run[r].save = "none"
      /\ run[r].data \in RunLedgerData /\ Sound(run[r].data)
      /\ run[r].data.status = "running"
  BY RecordingHasOutcomes DEF DataInv, RunsInv, RunInv, EndInv, RunType, RecordEvent
<1>2. run[r].outcomes \in Seq(Outcome) /\ Tail(run[r].outcomes) \in Seq(Outcome)
  BY <1>1, HeadOfOutcomes
<1>3. Len(run[r].outcomes) # 1 => Tail(run[r].outcomes) # <<>>
  <2>1. \A s \in Seq(Outcome) : s # <<>> /\ Len(s) # 1 => Tail(s) # <<>>
    <3> SUFFICES ASSUME NEW s \in Seq(Outcome), s # <<>>, Len(s) # 1 PROVE Len(Tail(s)) # 0
      OBVIOUS
    <3> QED OBVIOUS
  <2> QED BY <1>1, <1>2, <2>1
<1>4. next \in RunType /\ next.path = run[r].path
      /\ next.save = "none" /\ next.data = run[r].data
      /\ next.outcomes = Tail(run[r].outcomes)
      /\ next.at = IF Len(run[r].outcomes) = 1 THEN "working" ELSE "recording"
  BY <1>0, <1>1, <1>2 DEF RunType, Further
<1>5. RunInv(next)
  BY <1>1, <1>3, <1>4, GoesOn DEF RunInv
<1> QED BY <1>0, <1>4, <1>5

LEMMA RecordEventKeepsData ==
  ASSUME DataInv, NEW r \in Runs, RecordEvent(r)
  PROVE  DataInv'
<1> PICK outcome, next, data :
      /\ outcome = Head(run[r].outcomes)
      /\ next = Further(r)
      /\ data = WithEvent(run[r].data, outcome)
  OBVIOUS
<1>1. /\ RunInv(next) /\ next \in RunType
      /\ next.at \in {"working", "recording"} /\ next.path = run[r].path
      /\ next.save = "none" /\ next.data = run[r].data
  BY NextOutcome
<1>2. run[r].data \in RunLedgerData /\ Sound(run[r].data) /\ IsOutcome(outcome)
      /\ run[r].path \in Paths /\ run[r].data.status = "running"
  <2>1. run[r].outcomes # <<>> /\ run[r].at \in {"working", "recording", "mirrored"}
    BY RecordingHasOutcomes DEF RecordEvent
  <2> QED BY <2>1, HeadOfOutcomes, RunPath DEF DataInv, RunsInv, RunInv, EndInv, RunType
<1>3. CASE Step(r, next) /\ UNCHANGED <<tmp, kept>>
  <2>1. OthersInv' /\ UNCHANGED <<file, tmp>>
    BY <1>3 DEF RecordEvent, DataInv, OthersInv
  <2> QED BY <1>1, <1>3, <2>1, QuietStepKeeps
<1>4. CASE /\ Len(run[r].data.events) < MaxEvents
           /\ Saves(r, [next EXCEPT !.data = data])
           /\ kept' = [kept EXCEPT ![run[r].path] = data.events]
  <2> PICK saved : saved = [next EXCEPT !.data = data]
    OBVIOUS
  <2>1. RecordedTo(run[r].data, outcome, data)
    BY <1>2, <1>4, DataWithEvent
  <2>2. data \in RunLedgerData /\ Sound(data) /\ data.events \in Seq(ToolEvent)
        /\ data.status = "running"
    BY <1>2, <2>1 DEF RecordedTo, RunLedgerData
  <2>3. saved \in RunType /\ saved.at = next.at /\ saved.path = next.path
        /\ saved.save = next.save /\ saved.data = data /\ saved.outcomes = next.outcomes
    BY <1>1, <2>2 DEF RunType
  <2>4. RunInv(saved)
    BY <1>1, <2>2, <2>3, GoesOn DEF RunInv
  <2>5. RunsInv' /\ FilesInv'
    BY <1>1, <1>4, <2>3, <2>4, SavesKeeps DEF DataInv, RecordEvent
  <2>6. kept' \in [Paths -> Seq(ToolEvent)]
    BY <1>2, <1>4, <2>2 DEF DataInv, OthersInv
  <2> QED BY <2>5, <2>6 DEF RecordEvent, DataInv, OthersInv
<1> QED BY <1>3, <1>4 DEF RecordEvent, Further

-----------------------------------------------------------------------------
(* Ending and closing *)

LEMMA EmptyOutcomes == <<>> \in Seq(Outcome) /\ 0 \in 0..(RetryBudget - 1)
<1>1. <<>> \in Seq(Outcome)
  OBVIOUS
<1> QED BY <1>1, LedgerAssumption

LEMMA AbandonedRun ==
  ASSUME DataInv, NEW r \in Runs, Autonomous(r), run[r].at = "working"
  PROVE  /\ RunInv(Abandoned(r)) /\ Abandoned(r).at = "abandoned"
         /\ Abandoned(r).path = run[r].path /\ Abandoned(r).data = run[r].data
<1>1. /\ run[r] \in RunType /\ Sound(run[r].data) /\ run[r].data.status = "running"
      /\ run[r].path # NoPath /\ run[r].path \in OwnPaths
  BY LedgerAssumption DEF DataInv, RunsInv, RunInv, EndInv, Autonomous
<1> PICK next : next = Abandoned(r)
  OBVIOUS
<1>2. /\ next.at = "abandoned" /\ next.path = run[r].path /\ next.data = run[r].data
      /\ next.save = "none" /\ next.outcomes = <<>>
  BY DEF Abandoned, NotOpened
<1>3. next \in RunType
  <2>1. run[r].path \in Paths /\ run[r].data \in RunLedgerData
    BY <1>1 DEF RunType
  <2>2. next = [at |-> "abandoned", path |-> run[r].path, save |-> "none", writes |-> "none",
                data |-> run[r].data, outcomes |-> <<>>, attempt |-> 0,
                verdict |-> "running"]
    BY DEF Abandoned, NotOpened
  <2> QED BY ONLY <2>1, <2>2, EmptyOutcomes DEF RunType
<1>4. RunInv(next)
  BY <1>1, <1>2, <1>3, GoesOn DEF RunInv
<1> QED BY <1>2, <1>4

LEMMA ClosingRun ==
  ASSUME DataInv, NEW r \in Runs, run[r].at \in {"working", "between"},
         NEW next \in RunType, next.at = "closing", next.save = "none",
         next.outcomes = <<>>, next.path = run[r].path, next.data = run[r].data,
         next.verdict = "completed" => ~Autonomous(r)
  PROVE  RunInv(next)
<1>1. RunInv(run[r]) /\ run[r].data.status = "running"
  BY DEF DataInv, RunsInv, RunInv, EndInv
<1>2. EndInv(next)
  BY <1>1, GoesOn DEF Autonomous
<1> QED BY <1>1, <1>2 DEF RunInv

LEMMA DisownedType ==
  ASSUME NEW r \in Runs, list \in TaskList
  PROVE  Disowned(r) \in TaskList
BY DEF Disowned, TaskList

LEMMA CancelledKeepsData ==
  ASSUME DataInv, NEW r \in Runs, LoopCancelled(r)
  PROVE  DataInv'
<1>1. run[r].at = "working" /\ run[r].save = "none"
  BY DEF LoopCancelled, Ready
<1>2. OthersInv'
  <2>1. list' \in TaskList
    BY DisownedType DEF LoopCancelled, DataInv, OthersInv
  <2> QED BY <2>1 DEF LoopCancelled, DataInv, OthersInv
<1>3. UNCHANGED <<file, tmp>>
  BY DEF LoopCancelled
<1>4. CASE Autonomous(r)
  <2>1. Step(r, Abandoned(r))
    BY <1>4 DEF LoopCancelled
  <2> QED BY <1>1, <1>2, <1>3, <1>4, <2>1, AbandonedRun, QuietStepKeeps
<1>5. CASE ~Autonomous(r)
  <2> PICK next : next = [run[r] EXCEPT !.at = "closing", !.outcomes = <<>>,
                                        !.verdict = "cancelled"]
    OBVIOUS
  <2>1. Step(r, next)
    BY <1>5 DEF LoopCancelled
  <2>2. run[r] \in RunType
    BY DEF DataInv, RunsInv, RunInv
  <2>3. /\ next \in RunType /\ next.at = "closing" /\ next.save = "none"
        /\ next.outcomes = <<>> /\ next.path = run[r].path /\ next.data = run[r].data
        /\ next.verdict = "cancelled"
    BY <1>1, <2>2, EmptyOutcomes DEF RunType
  <2>4. RunInv(next)
    BY <1>1, <2>3, ClosingRun
  <2> QED BY <1>2, <1>3, <2>1, <2>4, QuietStepKeeps
<1> QED BY <1>4, <1>5

LEMMA FailedKeepsData ==
  ASSUME DataInv, NEW r \in Runs, LoopFailed(r)
  PROVE  DataInv'
<1>1. run[r].at = "working" /\ run[r].save = "none" /\ run[r].outcomes = <<>>
  BY DEF LoopFailed, Ready
<1>2. OthersInv' /\ UNCHANGED <<file, tmp>>
  BY DEF LoopFailed, DataInv, OthersInv
<1>3. CASE Autonomous(r)
  <2>1. Step(r, Abandoned(r))
    BY <1>3 DEF LoopFailed
  <2> QED BY <1>1, <1>2, <1>3, <2>1, AbandonedRun, QuietStepKeeps
<1>4. CASE ~Autonomous(r)
  <2> PICK next : next = [run[r] EXCEPT !.at = "closing", !.verdict = "failed"]
    OBVIOUS
  <2>1. Step(r, next)
    BY <1>4 DEF LoopFailed
  <2>2. run[r] \in RunType
    BY DEF DataInv, RunsInv, RunInv
  <2>3. /\ next \in RunType /\ next.at = "closing" /\ next.save = "none"
        /\ next.outcomes = <<>> /\ next.path = run[r].path /\ next.data = run[r].data
        /\ next.verdict = "failed"
    BY <1>1, <2>2 DEF RunType
  <2>4. RunInv(next)
    BY <1>1, <2>3, ClosingRun
  <2> QED BY <1>2, <2>1, <2>4, QuietStepKeeps
<1> QED BY <1>3, <1>4

LEMMA AnsweredKeepsData ==
  ASSUME DataInv, NEW r \in Runs, TurnAnswered(r)
  PROVE  DataInv'
<1>1. run[r].at = "working" /\ run[r].save = "none" /\ run[r].outcomes = <<>>
  BY DEF TurnAnswered, Ready
<1>2. OthersInv' /\ UNCHANGED <<file, tmp>>
  BY DEF TurnAnswered, DataInv, OthersInv
<1> PICK next : next = [run[r] EXCEPT !.at = "closing", !.verdict = "completed"]
  OBVIOUS
<1>3. Step(r, next)
  BY DEF TurnAnswered
<1>4. run[r] \in RunType
  BY DEF DataInv, RunsInv, RunInv
<1>5. /\ next \in RunType /\ next.at = "closing" /\ next.save = "none"
      /\ next.outcomes = <<>> /\ next.path = run[r].path /\ next.data = run[r].data
  BY <1>1, <1>4 DEF RunType
<1>6. RunInv(next)
  BY <1>1, <1>5, ClosingRun DEF TurnAnswered
<1> QED BY <1>2, <1>3, <1>6, QuietStepKeeps

LEMMA BeginKeepsData ==
  ASSUME DataInv, NEW r \in Runs, BeginAttempt(r)
  PROVE  DataInv'
<1>1. RunInv(run[r]) /\ run[r] \in RunType /\ run[r].at = "between" /\ run[r].save = "none"
      /\ run[r].data.status = "running"
  BY DEF DataInv, RunsInv, RunInv, EndInv, BeginAttempt, Ready
<1> PICK next : next = [run[r] EXCEPT !.at = "working"]
  OBVIOUS
<1>2. next \in RunType /\ next.at = "working" /\ next.path = run[r].path
      /\ next.save = "none" /\ next.data = run[r].data /\ next.outcomes = run[r].outcomes
  BY <1>1 DEF RunType
<1>3. RunInv(next)
  BY <1>1, <1>2, GoesOn DEF RunInv
<1>4. OthersInv'
  BY DEF BeginAttempt, DataInv, OthersInv
<1> QED BY <1>3, <1>4, QuietStepKeeps DEF BeginAttempt

LEMMA CancelledBetweenKeepsData ==
  ASSUME DataInv, NEW r \in Runs, CancelledBetween(r)
  PROVE  DataInv'
<1>1. RunInv(run[r]) /\ run[r] \in RunType /\ run[r].at = "between" /\ run[r].save = "none"
      /\ run[r].outcomes = <<>>
  BY DEF DataInv, RunsInv, RunInv, CancelledBetween, Ready
<1>2. OthersInv' /\ UNCHANGED <<file, tmp>>
  BY DEF CancelledBetween, DataInv, OthersInv
<1> PICK next : next = [run[r] EXCEPT !.at = "closing", !.verdict = "cancelled"]
  OBVIOUS
<1>3. Step(r, next)
  BY DEF CancelledBetween
<1>4. /\ next \in RunType /\ next.at = "closing" /\ next.save = "none"
      /\ next.outcomes = <<>> /\ next.path = run[r].path /\ next.data = run[r].data
      /\ next.verdict = "cancelled"
  BY <1>1 DEF RunType
<1>5. RunInv(next)
  BY <1>1, <1>4, ClosingRun
<1> QED BY <1>2, <1>3, <1>5, QuietStepKeeps

\* What blocks a run is in its plan and its events.
LEMMA SameBlocks ==
  ASSUME NEW data \in RunLedgerData, NEW other \in RunLedgerData,
         other.plan = data.plan, other.events = data.events
  PROVE  Blocked(other) <=> Blocked(data)
<1> PICK plan : plan = VerifySteps(data.plan, data.events)
  OBVIOUS
<1>1. Verified(data).plan = plan /\ Verified(other).plan = plan
  BY DEF Verified, RunLedgerData
<1> QED BY <1>1 DEF Blocked

LEMMA ConcludeKeepsData ==
  ASSUME DataInv, NEW r \in Runs, run[r].at \in {"working", "between"}, run[r].save = "none",
         run[r].outcomes = <<>>, NEW attempts \in 0..RetryBudget,
         NEW verdict \in {"completed", "completed_unverified", "failed"},
         verdict = "completed" => ~Blocked(run[r].data),
         Conclude(r, attempts, verdict)
  PROVE  DataInv'
<1>1. /\ RunInv(run[r]) /\ run[r] \in RunType /\ run[r].data \in RunLedgerData
      /\ Sound(run[r].data) /\ run[r].data.status = "running"
  BY DEF DataInv, RunsInv, RunInv, EndInv, RunType
<1> PICK next, data :
       /\ data = [run[r].data EXCEPT !.attempts = attempts]
       /\ next = [run[r] EXCEPT !.at = "closing", !.verdict = verdict,
                                !.data.attempts = attempts]
  OBVIOUS
<1>2. /\ data \in RunLedgerData /\ Sound(data) /\ data.status = "running"
      /\ data.plan = run[r].data.plan /\ data.events = run[r].data.events
  BY <1>1, SetAttempts
<1>3. next \in RunType /\ next.at = "closing" /\ next.path = run[r].path
      /\ next.save = "none" /\ next.data = data /\ next.outcomes = <<>>
      /\ next.verdict = verdict
  BY <1>1, <1>2 DEF RunType
<1>4. RunInv(next)
  <2>1. Blocked(data) <=> Blocked(run[r].data)
    BY <1>1, <1>2, SameBlocks
  <2>2. EndInv(next)
    BY <1>2, <1>3, <2>1 DEF EndInv, Truthful
  <2> QED BY <1>1, <1>2, <1>3, <2>2 DEF RunInv
<1>5. RunsInv' /\ FilesInv'
  BY <1>3, <1>4, SavesKeeps DEF DataInv, Conclude
<1> QED BY <1>5 DEF Conclude, DataInv, OthersInv

LEMMA CapKeepsData ==
  ASSUME DataInv, NEW r \in Runs, WallClockCap(r)
  PROVE  DataInv'
<1>1. /\ run[r].at = "between" /\ run[r].save = "none" /\ run[r].outcomes = <<>>
      /\ run[r].attempt \in 0..RetryBudget
  BY LedgerAssumption DEF DataInv, RunsInv, RunInv, RunType, WallClockCap, Ready
<1>2. Conclude(r, run[r].attempt, "failed")
  BY DEF WallClockCap
<1> QED BY <1>1, <1>2, ConcludeKeepsData

LEMMA AttemptKeepsData ==
  ASSUME DataInv, NEW r \in Runs, NEW prose_complete \in BOOLEAN,
         AttemptAnswered(r, prose_complete)
  PROVE  DataInv'
<1>1. /\ RunInv(run[r]) /\ run[r] \in RunType
      /\ run[r].at = "working" /\ run[r].save = "none" /\ run[r].outcomes = <<>>
      /\ run[r].attempt \in 0..(RetryBudget - 1) /\ run[r].data.status = "running"
      /\ run[r].data \in RunLedgerData /\ Sound(run[r].data)
  BY DEF DataInv, RunsInv, RunInv, EndInv, RunType, AttemptAnswered, Ready
<1>2. run[r].attempt + 1 \in 0..RetryBudget /\ RetryBudget \in 0..RetryBudget
  BY <1>1, LedgerAssumption
<1>3. CASE Complete(r, prose_complete) /\ Conclude(r, run[r].attempt + 1, "completed")
  BY <1>1, <1>2, <1>3, ConcludeKeepsData DEF Complete
<1>4. CASE Conclude(r, RetryBudget, IF prose_complete THEN "completed_unverified" ELSE "failed")
  BY <1>1, <1>2, <1>4, ConcludeKeepsData
<1>5. CASE /\ run[r].attempt + 1 < RetryBudget
           /\ Saves(r, [run[r] EXCEPT !.at = "between", !.attempt = @ + 1,
                                      !.data.attempts = run[r].attempt + 1])
           /\ UNCHANGED <<list, file, live, calls, crashes, contested, kept>>
  <2> PICK next, data :
         /\ data = [run[r].data EXCEPT !.attempts = run[r].attempt + 1]
         /\ next = [run[r] EXCEPT !.at = "between", !.attempt = @ + 1,
                                  !.data.attempts = run[r].attempt + 1]
    OBVIOUS
  <2>1. data \in RunLedgerData /\ Sound(data) /\ data.status = "running"
    BY <1>1, <1>2, SetAttempts
  <2>2. run[r].attempt + 1 \in 0..(RetryBudget - 1)
    BY <1>1, <1>5, LedgerAssumption
  <2>3. next \in RunType /\ next.at = "between" /\ next.path = run[r].path
        /\ next.save = "none" /\ next.data = data /\ next.outcomes = <<>>
    BY <1>1, <2>1, <2>2 DEF RunType
  <2>4. RunInv(next)
    BY <1>1, <2>1, <2>3, GoesOn DEF RunInv
  <2>5. RunsInv' /\ FilesInv'
    BY <1>5, <2>3, <2>4, SavesKeeps DEF DataInv
  <2> QED BY <1>5, <2>5 DEF DataInv, OthersInv
<1> QED BY <1>3, <1>4, <1>5 DEF AttemptAnswered

LEMMA FinalizeKeepsData ==
  ASSUME DataInv, NEW r \in Runs, Finalize(r)
  PROVE  DataInv'
<1>1. /\ RunInv(run[r]) /\ run[r] \in RunType
      /\ run[r].at = "closing" /\ run[r].save = "none" /\ run[r].outcomes = <<>>
      /\ run[r].data \in RunLedgerData /\ Sound(run[r].data)
      /\ run[r].verdict \in {"running", "completed", "completed_unverified", "failed", "cancelled"}
  BY DEF DataInv, RunsInv, RunInv, RunType, Finalize, Ready
<1> PICK v : v = Verified(run[r].data)
  OBVIOUS
<1> PICK next, data : /\ data = [v EXCEPT !.status = run[r].verdict]
                      /\ next = [run[r] EXCEPT
                                   !.at = "finalized",
                                   !.data = [Verified(@) EXCEPT !.status = run[r].verdict]]
  OBVIOUS
<1>2. v \in RunLedgerData /\ Sound(v)
  BY <1>1, VerifiedData DEF Sound, VerifiedTo
<1>3. /\ data \in RunLedgerData /\ Sound(data) /\ data.plan = v.plan
      /\ data.status = run[r].verdict
  <2>1. /\ data \in RunLedgerData /\ data.plan = v.plan /\ data.events = v.events
        /\ data.proved = v.proved /\ data.status = run[r].verdict
    BY <1>1, <1>2 DEF RunLedgerData
  <2> QED BY <1>2, <2>1, SameLedger
<1>4. next \in RunType /\ next.at = "finalized" /\ next.path = run[r].path
      /\ next.save = "none" /\ next.data = data /\ next.outcomes = <<>>
  BY <1>1, <1>3 DEF RunType
<1>5. RunInv(next)
  <2>1. run[r].path \in OwnPaths /\ run[r].verdict = "completed" => Done(v)
    BY <1>1, UnblockedIsDone DEF RunInv, EndInv, Sound
  <2>2. Done(v) => Done(data)
    BY <1>3 DEF Done
  <2>3. next.path \in OwnPaths => Truthful(data)
    BY <1>3, <1>4, <2>1, <2>2 DEF Truthful
  <2>4. EndInv(next)
    BY <1>4, <2>3 DEF EndInv
  <2> QED BY <1>1, <1>3, <1>4, <2>4 DEF RunInv
<1>6. RunsInv' /\ FilesInv'
  BY <1>4, <1>5, SavesKeeps DEF DataInv, Finalize
<1> QED BY <1>6 DEF Finalize, DataInv, OthersInv

LEMMA ClosedRun == RunInv(Closed) /\ Closed.path = NoPath /\ Closed.at = "closed"
                   /\ Closed.save = "none" /\ Closed.data = FreshData
<1>1. /\ Closed.path = NoPath /\ Closed.at = "closed" /\ Closed.save = "none"
      /\ Closed.data = FreshData /\ Closed.outcomes = <<>>
  BY DEF Closed, NotOpened
<1>2. Closed \in RunType
  <2>1. Closed = [at |-> "closed", path |-> NoPath, save |-> "none", writes |-> "none",
                  data |-> FreshData, outcomes |-> <<>>, attempt |-> 0,
                  verdict |-> "running"]
    BY DEF Closed, NotOpened
  <2> QED BY ONLY <2>1, EmptyOutcomes, FreshIsSound DEF RunType
<1>3. EndInv(Closed)
  BY <1>1, GoesOn DEF FreshData
<1> QED BY <1>1, <1>2, <1>3, FreshIsSound DEF RunInv

LEMMA UnregisterKeepsData ==
  ASSUME DataInv, NEW r \in Runs, Unregister(r)
  PROVE  DataInv'
<1>1. OthersInv'
  BY DEF Unregister, DataInv, OthersInv
<1> QED BY <1>1, ClosedRun, QuietStepKeeps DEF Unregister

LEMMA CrashKeepsData ==
  ASSUME DataInv, Crash
  PROVE  DataInv'
<1>1. \A r \in Runs : RunInv(run'[r])
  BY ClosedRun DEF Crash, DataInv, RunsInv
<1>2. RunsInv'
  <2>1. \A r \in Runs : RunInv(run[r])'
    BY <1>1 DEF RunInv
  <2>2. run' = [r \in Runs |-> run'[r]]
    BY DEF Crash
  <2> QED BY <2>1, <2>2 DEF RunsInv
<1>3. FilesInv'
  BY DEF Crash, DataInv, FilesInv, Kept, Ended
<1>4. \A p \in Paths : Events(file[p]) \in Seq(ToolEvent)
  <2>1. \A p \in Paths : file[p] \in Content
    BY DEF DataInv, FilesInv
  <2>2. \A data \in RunLedgerData : data.events \in Seq(ToolEvent)
    BY DEF RunLedgerData
  <2> QED BY <2>1, <2>2 DEF Events, Content
<1>5. EmptyList \in TaskList
  BY DEF EmptyList, TaskList
<1>6. OthersInv'
  <2>1. kept' \in [Paths -> Seq(ToolEvent)]
    BY <1>4 DEF Crash, DataInv, OthersInv
  <2> QED BY <1>5, <2>1 DEF Crash, DataInv, OthersInv
<1> QED BY <1>2, <1>3, <1>6 DEF DataInv

-----------------------------------------------------------------------------
(* All of them *)

LEMMA DataInit == Init => DataInv
<1> SUFFICES ASSUME Init PROVE DataInv
  OBVIOUS
<1>1. PICK left \in Earlier : list = left.list /\ file = left.file
  BY DEF Init
<1>2. /\ list \in TaskList /\ file \in [Paths -> Content]
      /\ \A p \in Paths : Kept(file[p])
  BY <1>1, EarlierAssumption DEF Kept, Sound
<1>3. FilesInv
  <2>1. NoFile \in Content /\ NoFile \notin RunLedgerData
    BY LedgerAssumption DEF Content
  <2>2. \A p \in OwnPaths : file[p] = NoFile
    BY <1>1, EarlierAssumption
  <2> QED BY <1>2, <2>1, <2>2, LedgerAssumption DEF Init, FilesInv, Kept, Ended
<1>4. RunsInv
  <2>1. NotOpened \in RunType
    BY FreshIsSound, LedgerAssumption DEF NotOpened, RunType
  <2>2. NotOpened.path = NoPath /\ NotOpened.at = "none" /\ NotOpened.save = "none"
        /\ NotOpened.outcomes = <<>> /\ NotOpened.data = FreshData
    BY DEF NotOpened
  <2>3. EndInv(NotOpened)
    BY <2>2, GoesOn DEF FreshData
  <2>4. RunInv(NotOpened)
    BY <2>1, <2>2, <2>3, FreshIsSound DEF RunInv
  <2> QED BY <2>4 DEF Init, RunsInv
<1>5. \A p \in Paths : Events(file[p]) \in Seq(ToolEvent)
  <2>1. \A data \in RunLedgerData : data.events \in Seq(ToolEvent)
    BY DEF RunLedgerData
  <2> QED BY <1>2, <2>1 DEF Events, Content
<1>6. OthersInv
  BY <1>2, <1>5 DEF Init, OthersInv
<1> QED BY <1>3, <1>4, <1>6 DEF DataInv

LEMMA DataStep == DataInv /\ [Next]_vars => DataInv'
<1> SUFFICES ASSUME DataInv, [Next]_vars PROVE DataInv'
  OBVIOUS
<1>1. CASE UNCHANGED vars
  BY <1>1 DEF vars, DataInv, RunsInv, FilesInv, Kept, Ended, OthersInv
<1>2. CASE Crash
  BY <1>2, CrashKeepsData
<1>3. ASSUME NEW r \in Runs, RunStep(r) PROVE DataInv'
  <2>1. CASE SaveStep(r)
    BY <2>1, TruncateKeepsData, FillKeepsData, RenameKeepsData DEF SaveStep
  <2>2. CASE OpenLedger(r) \/ Register(r) \/ RecordRouting(r)
    BY <2>2, OpenKeepsData, RegisterKeepsData, RoutingKeepsData
  <2>3. CASE ExecuteTool(r) \/ ExecutePlanCall(r)
    BY <2>3, ToolKeepsData, PlanCallKeepsData
  <2>4. CASE RecordStep(r)
    BY <2>4, RecordPlanCallKeepsData, RecordEventKeepsData DEF RecordStep
  <2>5. CASE LoopCancelled(r) \/ LoopFailed(r) \/ TurnAnswered(r)
    BY <2>5, CancelledKeepsData, FailedKeepsData, AnsweredKeepsData
  <2>6. CASE AttemptStep(r)
    BY <2>6, BeginKeepsData, CapKeepsData, CancelledBetweenKeepsData, AttemptKeepsData
       DEF AttemptStep
  <2>7. CASE Finalize(r) \/ Unregister(r)
    BY <2>7, FinalizeKeepsData, UnregisterKeepsData
  <2> QED BY <1>3, <2>1, <2>2, <2>3, <2>4, <2>5, <2>6, <2>7 DEF RunStep
<1> QED BY <1>1, <1>2, <1>3 DEF Next

-----------------------------------------------------------------------------
(* The file keeps the record *)

\* How the save of a run stands that has its file for itself.
InStep(R, content, written, events) ==
  /\ R.data.events = events
  /\ R.save = "none" => content = R.data
  /\ R.save \in {"open", "written"} => R.writes = "tmp"
  /\ R.save = "written" => written = R.data

\* A file that was never contested has at most one run, abandoned ones included;
\* that run's save is on its way, or the file holds what was recorded.
RecordInv ==
  /\ contested \cap OwnPaths = {}
  /\ \A p \in Paths \ contested : \A q, r \in Runs :
        run[q].path = p /\ run[r].path = p => q = r
  /\ \A p \in Paths \ contested : \A r \in Runs :
        run[r].path = p => InStep(run[r], file[p], tmp[p], kept[p])
  /\ \A p \in Paths \ contested :
        (\A r \in Runs : run[r].path # p) => Events(file[p]) = kept[p]
  /\ \A p \in Paths \ contested : live[p] # NoRun => run[live[p]].path = p

\* A step of a run that keeps its file and stays in step with it.
StaysInStep(r, p) ==
  /\ run[r].path = p
  /\ \A q \in Runs : run'[q].path = run[q].path
  /\ \A q \in Runs : run[q].path # p => run'[q] = run[q]
  /\ \A o \in Paths :
        o # p => file'[o] = file[o] /\ tmp'[o] = tmp[o] /\ kept'[o] = kept[o]
  /\ contested' = contested
  /\ \A o \in Paths : live'[o] = live[o] \/ (o = p /\ live'[o] = r)
  /\ p \notin contested => InStep(run'[r], file'[p], tmp'[p], kept'[p])

LEMMA StepKeepsRecord ==
  ASSUME DataInv, RecordInv, NEW r \in Runs, NEW p \in Paths, StaysInStep(r, p)
  PROVE  RecordInv'
<1> USE DEF StaysInStep
<1>1. (contested \cap OwnPaths = {})'
  BY DEF RecordInv
<1>2. ASSUME NEW o \in Paths \ contested', NEW q \in Runs, NEW s \in Runs,
             run'[q].path = o, run'[s].path = o
      PROVE  q = s
  BY <1>2 DEF RecordInv
<1>3. ASSUME NEW o \in Paths \ contested', NEW q \in Runs, run'[q].path = o
      PROVE  InStep(run'[q], file'[o], tmp'[o], kept'[o])
  <2>1. CASE o = p
    <3>1. q = r
      BY <1>3, <2>1 DEF RecordInv
    <3> QED BY <1>3, <2>1, <3>1
  <2>2. CASE o # p
    <3>1. run'[q] = run[q] /\ run[q].path = o
      BY <1>3, <2>2
    <3>2. InStep(run[q], file[o], tmp[o], kept[o])
      BY <1>3, <3>1 DEF RecordInv
    <3> QED BY <1>3, <2>2, <3>1, <3>2
  <2> QED BY <2>1, <2>2
<1>4. ASSUME NEW o \in Paths \ contested', \A q \in Runs : run'[q].path # o
      PROVE  Events(file'[o]) = kept'[o]
  <2>1. o # p /\ \A q \in Runs : run[q].path # o
    BY <1>4
  <2>2. Events(file[o]) = kept[o]
    BY <1>4, <2>1 DEF RecordInv
  <2> QED BY <1>4, <2>1, <2>2
<1>5. ASSUME NEW o \in Paths \ contested', live'[o] # NoRun
      PROVE  run'[live'[o]].path = o
  <2>1. live[o] \in Runs \cup {NoRun}
    BY <1>5 DEF DataInv, OthersInv
  <2>2. CASE live'[o] = r /\ o = p
    BY <2>2
  <2>3. CASE live'[o] = live[o]
    BY <1>5, <2>1, <2>3 DEF RecordInv
  <2> QED BY <1>5, <2>2, <2>3
<1> QED BY <1>1, <1>2, <1>3, <1>4, <1>5 DEF RecordInv, InStep, Events

LEMMA StepRun ==
  ASSUME RunsInv, NEW r \in Runs, NEW next, Step(r, next)
  PROVE  run'[r] = next /\ \A q \in Runs : q # r => run'[q] = run[q]
BY DEF Step, RunsInv

\* A step that does not save.
LEMMA QuietStaysInStep ==
  ASSUME DataInv, RecordInv, NEW r \in Runs, run[r].path \in Paths, run[r].save = "none",
         NEW next, Step(r, next), next.path = run[r].path, next.save = "none",
         next.data = run[r].data,
         UNCHANGED <<file, tmp, contested, kept>>,
         live' = live \/ live' = [live EXCEPT ![run[r].path] = r]
  PROVE  StaysInStep(r, run[r].path)
<1>1. run'[r] = next /\ \A q \in Runs : q # r => run'[q] = run[q]
  BY StepRun DEF DataInv
<1> PICK p \in Paths : p = run[r].path
  OBVIOUS
<1>2. p \notin contested => InStep(next, file[p], tmp[p], kept[p])
  BY DEF RecordInv, InStep
<1>3. \A o \in Paths : live'[o] = live[o] \/ (o = p /\ live'[o] = r)
  <2>1. live \in [Paths -> Runs \cup {NoRun}]
    BY DEF DataInv, OthersInv
  <2>2. live' = live \/ live' = [live EXCEPT ![p] = r]
    OBVIOUS
  <2> QED BY ONLY <2>1, <2>2
<1>4. StaysInStep(r, p)
  BY <1>1, <1>2, <1>3 DEF StaysInStep
<1> QED BY <1>4

\* A step that saves: the file is behind until it is renamed.
LEMMA SaveStaysInStep ==
  ASSUME DataInv, RecordInv, NEW r \in Runs, run[r].path \in Paths,
         NEW next \in RunType, Saves(r, next), next.path = run[r].path,
         UNCHANGED <<file, contested, live>>,
         \/ next.data.events = run[r].data.events /\ UNCHANGED kept
         \/ kept' = [kept EXCEPT ![run[r].path] = next.data.events]
  PROVE  StaysInStep(r, run[r].path)
<1> PICK saving : saving = [next EXCEPT !.save = "open", !.writes = "tmp"]
  OBVIOUS
<1> PICK p \in Paths : p = run[r].path
  OBVIOUS
<1>1. saving.save = "open" /\ saving.writes = "tmp" /\ saving.path = p
      /\ saving.data = next.data
  BY DEF RunType
<1>2. run'[r] = saving /\ \A q \in Runs : q # r => run'[q] = run[q]
  BY StepRun DEF DataInv, Saves
<1>3. tmp' = [tmp EXCEPT ![p] = Torn]
  BY DEF Saves
<1>4. \A o \in Paths : o # p => tmp'[o] = tmp[o] /\ kept'[o] = kept[o]
  BY <1>3 DEF DataInv, FilesInv, OthersInv
<1>5. p \notin contested => saving.data.events = kept'[p]
  BY <1>1 DEF RecordInv, InStep, DataInv, OthersInv
<1>6. p \notin contested => InStep(saving, file'[p], tmp'[p], kept'[p])
  BY <1>1, <1>5 DEF InStep
<1>7. StaysInStep(r, p)
  BY <1>1, <1>2, <1>4, <1>6 DEF StaysInStep
<1> QED BY <1>7

LEMMA SavingStaysInStep ==
  ASSUME DataInv, RecordInv, NEW r \in Runs, SaveStep(r)
  PROVE  StaysInStep(r, run[r].path) /\ run[r].path \in Paths
<1>1. /\ run[r] \in RunType /\ run[r].path \in Paths /\ run[r].save # "none"
      /\ run[r].data \in RunLedgerData
  BY DEF DataInv, RunsInv, RunInv, RunType, SaveStep, Truncate, Fill, Rename
<1> PICK p \in Paths : p = run[r].path
  BY <1>1
<1>2. p \notin contested => InStep(run[r], file[p], tmp[p], kept[p])
  BY DEF RecordInv
<1>3. CASE Truncate(r)
  BY <1>1, <1>3, SaveStaysInStep DEF Truncate
<1>4. CASE Fill(r)
  <2> PICK next : next = [run[r] EXCEPT !.save = "written"]
    OBVIOUS
  <2>1. /\ next.save = "written" /\ next.writes = run[r].writes /\ next.path = p
        /\ next.data = run[r].data
    BY <1>1 DEF RunType
  <2>2. run'[r] = next /\ \A q \in Runs : q # r => run'[q] = run[q]
    BY <1>4, StepRun DEF DataInv, Fill
  <2>3. \A o \in Paths : o # p => file'[o] = file[o] /\ tmp'[o] = tmp[o]
    BY <1>4 DEF DataInv, FilesInv, Fill
  <2>4. p \notin contested => InStep(next, file'[p], tmp'[p], kept'[p])
    <3> SUFFICES ASSUME p \notin contested PROVE InStep(next, file'[p], tmp'[p], kept'[p])
      OBVIOUS
    <3>1. run[r].writes = "tmp" /\ run[r].data.events = kept[p]
      BY <1>2, <1>4 DEF InStep, Fill
    <3>2. \A q \in Runs \ {r} : run[q].path # p
      BY DEF RecordInv
    <3>3. Written(r) = {run[r].data}
      BY <3>2 DEF Written
    <3>4. tmp'[p] = run[r].data
      BY <1>4, <3>1, <3>3 DEF Fill, DataInv, FilesInv
    <3>5. kept' = kept
      BY <1>4 DEF Fill
    <3> QED BY <2>1, <3>1, <3>4, <3>5 DEF InStep
  <2>5. UNCHANGED <<contested, live, kept>>
    BY <1>4 DEF Fill
  <2>6. StaysInStep(r, p)
    BY <2>1, <2>2, <2>3, <2>4, <2>5 DEF StaysInStep
  <2> QED BY <1>1, <2>6
<1>5. CASE Rename(r)
  <2> PICK saved : saved = [run[r] EXCEPT !.save = "none", !.writes = "none"]
    OBVIOUS
  <2>1. /\ saved.save = "none" /\ saved.path = p /\ saved.data = run[r].data
    BY <1>1 DEF RunType
  <2>2. run'[r] = saved /\ \A q \in Runs : q # r /\ run[q].path # p => run'[q] = run[q]
    <3>1. CASE Step(r, saved)
      BY <3>1, StepRun DEF DataInv
    <3>2. CASE run' = [q \in Runs |->
                   IF q = r THEN saved
                   ELSE IF run[q].path = p
                        THEN [run[q] EXCEPT !.writes = Moved(@)] ELSE run[q]]
      BY <3>2
    <3> QED BY <1>5, <3>1, <3>2 DEF Rename
  <2>3. \A q \in Runs : run'[q].path = run[q].path
    <3>1. CASE Step(r, saved)
      <4>1. run'[r] = saved /\ \A q \in Runs : q # r => run'[q] = run[q]
        BY <3>1, StepRun DEF DataInv
      <4> QED BY <2>1, <4>1
    <3>2. CASE run' = [q \in Runs |->
                   IF q = r THEN saved
                   ELSE IF run[q].path = p
                        THEN [run[q] EXCEPT !.writes = Moved(@)] ELSE run[q]]
      <4>1. \A q \in Runs : [run[q] EXCEPT !.writes = Moved(@)].path = run[q].path
        BY DEF DataInv, RunsInv, RunInv, RunType
      <4> QED BY <2>1, <3>2, <4>1
    <3> QED BY <1>5, <3>1, <3>2 DEF Rename
  <2>4. \A o \in Paths : o # p => file'[o] = file[o] /\ tmp'[o] = tmp[o]
    BY <1>5 DEF DataInv, FilesInv, Rename
  <2>5. p \notin contested => InStep(saved, file'[p], tmp'[p], kept'[p])
    <3> SUFFICES ASSUME p \notin contested PROVE InStep(saved, file'[p], tmp'[p], kept'[p])
      OBVIOUS
    <3>1. tmp[p] = run[r].data /\ run[r].data.events = kept[p]
      BY <1>2, <1>5 DEF InStep, Rename
    <3>2. tmp[p] # NoFile
      BY <1>1, <3>1, LedgerAssumption
    <3>3. file'[p] = run[r].data
      BY <1>5, <3>1, <3>2 DEF Rename, DataInv, FilesInv
    <3>4. kept' = kept
      BY <1>5 DEF Rename
    <3> QED BY <2>1, <3>1, <3>3, <3>4 DEF InStep
  <2>6. UNCHANGED <<contested, live, kept>>
    BY <1>5 DEF Rename
  <2>7. StaysInStep(r, p)
    BY <2>1, <2>2, <2>3, <2>4, <2>5, <2>6 DEF StaysInStep
  <2> QED BY <1>1, <2>7
<1> QED BY <1>3, <1>4, <1>5 DEF SaveStep

LEMMA OpenKeepsRecord ==
  ASSUME DataInv, RecordInv, NEW r \in Runs, OpenLedger(r)
  PROVE  RecordInv'
<1>1. run[r] \in RunType /\ run[r].at = "none" /\ run[r].path = NoPath
  BY DEF DataInv, RunsInv, RunInv, OpenLedger
<1>2. PICK p \in Paths :
         /\ Openable(p)
         /\ Step(r, [run[r] EXCEPT !.at = "opening", !.path = p, !.save = "due",
                                   !.data = Opened(file[p])])
         /\ contested' = contested \cup
               {run[q].path : q \in {q \in Runs : Open(q) /\ run[q].path = p}}
  BY DEF OpenLedger
<1> PICK data, next : /\ data = Opened(file[p])
                      /\ next = [run[r] EXCEPT !.at = "opening", !.path = p, !.save = "due",
                                               !.data = data]
  OBVIOUS
<1>3. /\ next.path = p /\ next.save = "due" /\ next.data = data
  BY <1>1 DEF RunType
<1>4. run'[r] = next /\ \A q \in Runs : q # r => run'[q] = run[q]
  BY <1>2, StepRun DEF DataInv
<1>5. data.events = Events(file[p])
  BY OpenedData DEF DataInv, FilesInv, Kept
<1>6. contested \subseteq contested' /\ UNCHANGED <<file, tmp, live, kept>>
  BY <1>2 DEF OpenLedger
<1>7. p \notin contested' => \A q \in Runs : run[q].path # p
  <2> SUFFICES ASSUME NEW q \in Runs, run[q].path = p PROVE p \in contested'
    OBVIOUS
  <2>1. p # NoPath
    BY LedgerAssumption
  <2>2. p \notin OwnPaths
    BY <1>2 DEF Openable
  <2>3. Open(q)
    BY <2>1, <2>2 DEF DataInv, RunsInv, RunInv, Open
  <2> QED BY <1>2, <2>3
<1>8. contested' \cap OwnPaths = {}
  <2>1. ASSUME NEW o \in contested', o \in OwnPaths PROVE FALSE
    <3>1. o \notin contested
      BY <2>1 DEF RecordInv
    <3>2. o = p /\ \E q \in Runs : run[q].path = p
      BY <1>2, <2>1, <3>1
    <3> QED BY <1>2, <2>1, <3>2 DEF Openable
  <2> QED BY <2>1
<1>9. ASSUME NEW o \in Paths \ contested', NEW q \in Runs, NEW s \in Runs,
             run'[q].path = o, run'[s].path = o
      PROVE  q = s
  <2>1. CASE o = p
    BY <1>4, <1>7, <1>9, <2>1
  <2>2. CASE o # p
    <3>1. q # r /\ s # r
      BY <1>3, <1>4, <1>9, <2>2
    <3> QED BY <1>4, <1>6, <1>9, <3>1 DEF RecordInv
  <2> QED BY <2>1, <2>2
<1>10. ASSUME NEW o \in Paths \ contested', NEW q \in Runs, run'[q].path = o
       PROVE  InStep(run'[q], file'[o], tmp'[o], kept'[o])
  <2>1. CASE q = r
    <3>1. o = p
      BY <1>3, <1>4, <1>10, <2>1
    <3>2. p \notin contested /\ \A s \in Runs : run[s].path # p
      BY <1>6, <1>7, <1>10, <3>1
    <3>3. Events(file[p]) = kept[p]
      BY <3>2 DEF RecordInv
    <3> QED BY <1>3, <1>4, <1>5, <1>6, <2>1, <3>1, <3>3 DEF InStep
  <2>2. CASE q # r
    <3>1. run'[q] = run[q]
      BY <1>4, <2>2
    <3>2. InStep(run[q], file[o], tmp[o], kept[o])
      BY <1>6, <1>10, <3>1 DEF RecordInv
    <3> QED BY <1>6, <3>1, <3>2
  <2> QED BY <2>1, <2>2
<1>11. ASSUME NEW o \in Paths \ contested', \A q \in Runs : run'[q].path # o
       PROVE  Events(file'[o]) = kept'[o]
  <2>1. \A q \in Runs : run[q].path # o
    BY <1>1, <1>4, <1>11, LedgerAssumption
  <2>2. Events(file[o]) = kept[o]
    BY <1>6, <1>11, <2>1 DEF RecordInv
  <2> QED BY <1>6, <2>2
<1>12. ASSUME NEW o \in Paths \ contested', live'[o] # NoRun
       PROVE  run'[live'[o]].path = o
  <2>1. live[o] \in Runs /\ run[live[o]].path = o
    BY <1>6, <1>12 DEF RecordInv, DataInv, OthersInv
  <2>2. live[o] # r
    BY <1>1, <1>12, <2>1, LedgerAssumption
  <2> QED BY <1>4, <1>6, <2>1, <2>2
<1> QED BY <1>8, <1>9, <1>10, <1>11, <1>12 DEF RecordInv, InStep, Events

LEMMA UnregisterKeepsRecord ==
  ASSUME DataInv, RecordInv, NEW r \in Runs, Unregister(r)
  PROVE  RecordInv'
<1>1. run[r].path \in Paths /\ run[r].save = "none" /\ run[r].data \in RunLedgerData
  BY DEF DataInv, RunsInv, RunInv, RunType, Unregister, Ready
<1> PICK p \in Paths : p = run[r].path
  BY <1>1
<1>2. run'[r] = Closed /\ \A q \in Runs : q # r => run'[q] = run[q]
  BY StepRun DEF DataInv, Unregister
<1>3. run'[r].path = NoPath /\ NoPath \notin Paths
  BY <1>2, ClosedRun, LedgerAssumption
<1>4. UNCHANGED <<file, tmp, contested, kept>>
  BY DEF Unregister
<1>5. live' = [live EXCEPT ![p] = NoRun]
  BY DEF Unregister
<1>6. ASSUME NEW o \in Paths \ contested', NEW q \in Runs, run'[q].path = o
      PROVE  q # r /\ run'[q] = run[q] /\ run[q].path = o
  BY <1>2, <1>3, <1>6
<1>7. ASSUME NEW o \in Paths \ contested', \A q \in Runs : run'[q].path # o
      PROVE  Events(file'[o]) = kept'[o]
  <2>1. CASE o = p
    <3>1. InStep(run[r], file[p], tmp[p], kept[p])
      BY <1>4, <1>7, <2>1 DEF RecordInv
    <3>2. file[p] = run[r].data /\ run[r].data.events = kept[p]
      BY <1>1, <3>1 DEF InStep
    <3>3. Events(file[p]) = kept[p]
      BY <1>1, <3>2, LedgerAssumption DEF Events
    <3> QED BY <1>4, <2>1, <3>3
  <2>2. CASE o # p
    <3>1. \A q \in Runs : run[q].path # o
      BY <1>2, <1>7, <2>2
    <3>2. Events(file[o]) = kept[o]
      BY <1>4, <1>7, <3>1 DEF RecordInv
    <3> QED BY <1>4, <3>2
  <2> QED BY <2>1, <2>2
<1>8. ASSUME NEW o \in Paths \ contested', live'[o] # NoRun
      PROVE  run'[live'[o]].path = o
  <2>1. o # p /\ live'[o] = live[o]
    BY <1>5, <1>8 DEF DataInv, OthersInv
  <2>2. live[o] \in Runs /\ run[live[o]].path = o
    BY <1>4, <1>8, <2>1 DEF RecordInv, DataInv, OthersInv
  <2>3. live[o] # r
    BY <2>1, <2>2
  <2> QED BY <1>2, <2>1, <2>2, <2>3
<1>9. ASSUME NEW o \in Paths \ contested', NEW q \in Runs, run'[q].path = o
      PROVE  InStep(run'[q], file'[o], tmp'[o], kept'[o])
  <2>1. InStep(run[q], file[o], tmp[o], kept[o])
    BY <1>4, <1>6, <1>9 DEF RecordInv
  <2> QED BY <1>4, <1>6, <1>9, <2>1
<1>10. ASSUME NEW o \in Paths \ contested', NEW q \in Runs, NEW s \in Runs,
             run'[q].path = o, run'[s].path = o
       PROVE  q = s
  BY <1>4, <1>6, <1>10 DEF RecordInv
<1>11. contested' \cap OwnPaths = {}
  BY <1>4 DEF RecordInv
<1> QED BY <1>7, <1>8, <1>9, <1>10, <1>11 DEF RecordInv, InStep, Events

LEMMA CrashKeepsRecord ==
  ASSUME DataInv, RecordInv, Crash
  PROVE  RecordInv'
<1>1. \A r \in Runs : run'[r] = IF Open(r) THEN Closed ELSE run[r]
  BY DEF Crash
<1>2. UNCHANGED <<file, tmp, contested>>
  BY DEF Crash
<1>3. \A p \in Paths :
         kept'[p] = IF \E r \in Runs : run[r].path = p /\ run[r].save # "none"
                    THEN Events(file[p]) ELSE kept[p]
  BY DEF Crash
<1>4. ASSUME NEW p \in Paths, NEW r \in Runs, run'[r].path = p
      PROVE  run'[r] = run[r] /\ run[r].save = "none" /\ ~Open(r)
  <2>1. ~Open(r)
    BY <1>1, <1>4, ClosedRun, LedgerAssumption
  <2> QED BY <1>1, <2>1 DEF Open, DataInv, RunsInv, RunInv
<1>5. ASSUME NEW p \in Paths \ contested', NEW q \in Runs, NEW s \in Runs,
             run'[q].path = p, run'[s].path = p
      PROVE  q = s
  BY <1>2, <1>4, <1>5 DEF RecordInv
<1>6. ASSUME NEW p \in Paths \ contested', NEW r \in Runs, run'[r].path = p
      PROVE  InStep(run'[r], file'[p], tmp'[p], kept'[p])
  <2>1. run'[r] = run[r] /\ run[r].save = "none"
    BY <1>4, <1>6
  <2>2. InStep(run[r], file[p], tmp[p], kept[p])
    BY <1>2, <1>6, <2>1 DEF RecordInv
  <2>3. \A q \in Runs : run[q].path = p => q = r
    BY <1>2, <1>6, <2>1 DEF RecordInv
  <2>4. kept'[p] = kept[p]
    BY <1>3, <2>1, <2>3
  <2> QED BY <1>2, <2>1, <2>2, <2>4
<1>7. ASSUME NEW p \in Paths \ contested', \A q \in Runs : run'[q].path # p
      PROVE  Events(file'[p]) = kept'[p]
  <2>1. CASE \E r \in Runs : run[r].path = p /\ run[r].save # "none"
    BY <1>2, <1>3, <2>1
  <2>2. CASE ~\E r \in Runs : run[r].path = p /\ run[r].save # "none"
    <3>1. CASE \E r \in Runs : run[r].path = p
      <4>1. PICK r \in Runs : run[r].path = p /\ run[r].save = "none"
        BY <2>2, <3>1
      <4>2. InStep(run[r], file[p], tmp[p], kept[p])
        BY <1>2, <1>7, <4>1 DEF RecordInv
      <4>3. run[r].data \in RunLedgerData
        BY DEF DataInv, RunsInv, RunInv, RunType
      <4>4. Events(file[p]) = kept[p]
        BY <4>1, <4>2, <4>3, LedgerAssumption DEF InStep, Events
      <4> QED BY <1>2, <1>3, <2>2, <4>4
    <3>2. CASE \A r \in Runs : run[r].path # p
      BY <1>2, <1>3, <1>7, <2>2, <3>2 DEF RecordInv
    <3> QED BY <3>1, <3>2
  <2> QED BY <2>1, <2>2
<1>8. ASSUME NEW p \in Paths \ contested', live'[p] # NoRun
      PROVE  run'[live'[p]].path = p
  BY <1>8 DEF Crash
<1>9. contested' \cap OwnPaths = {}
  BY <1>2 DEF RecordInv
<1> QED BY <1>5, <1>6, <1>7, <1>8, <1>9 DEF RecordInv, InStep, Events

LEMMA RecordInvImplies == DataInv /\ RecordInv => FileKeepsTheRecord
<1> SUFFICES ASSUME DataInv, RecordInv, NEW p \in Paths \ contested,
                    \A r \in Runs : run[r].path = p => run[r].save = "none"
             PROVE  /\ Events(file[p]) = kept[p]
                    /\ Events(Inspected(p)) = kept[p]
                    /\ \A r \in Runs : run[r].path = p /\ Open(r) => file[p] = run[r].data
  BY DEF FileKeepsTheRecord
<1>1. ASSUME NEW r \in Runs, run[r].path = p
      PROVE  file[p] = run[r].data /\ Events(run[r].data) = kept[p]
  <2>1. InStep(run[r], file[p], tmp[p], kept[p])
    BY <1>1 DEF RecordInv
  <2>2. run[r].data \in RunLedgerData
    BY DEF DataInv, RunsInv, RunInv, RunType
  <2> QED BY <1>1, <2>1, <2>2, LedgerAssumption DEF InStep, Events
<1>2. Events(file[p]) = kept[p]
  <2>1. CASE \A r \in Runs : run[r].path # p
    BY <2>1 DEF RecordInv
  <2> QED BY <1>1, <2>1
<1>3. Events(Inspected(p)) = kept[p]
  <2>1. CASE live[p] = NoRun
    BY <1>2, <2>1 DEF Inspected
  <2>2. CASE live[p] # NoRun
    <3>1. live[p] \in Runs /\ run[live[p]].path = p
      BY <2>2 DEF RecordInv, DataInv, OthersInv
    <3> QED BY <1>1, <2>2, <3>1 DEF Inspected
  <2> QED BY <2>1, <2>2
<1> QED BY <1>1, <1>2, <1>3

-----------------------------------------------------------------------------
(* The plan mirrors the list *)

LEMMA CountedGrows ==
  ASSUME NEW tasks \in Seq(TaskItem), NEW next_id, Counted(tasks, next_id)
  PROVE  NextStepId(tasks) = next_id
<1>1. /\ Len(tasks) \in Nat /\ DOMAIN tasks = 1..Len(tasks) /\ next_id = Len(tasks) + 1
      /\ \A n \in 1..Len(tasks) : tasks[n].id = n /\ tasks[n].id \in Nat
  <2>1. Len(tasks) \in Nat /\ DOMAIN tasks = 1..Len(tasks)
    OBVIOUS
  <2> QED BY <2>1 DEF Counted
<1>2. Growing(tasks)
  BY <1>1 DEF Growing
<1>3. CASE tasks = <<>>
  <2>1. Len(tasks) = 0
    BY <1>3
  <2>2. NextStepId(tasks) = 1
    BY <1>1, <1>2, <1>3, NextIdOfGrowing
  <2> QED BY <1>1, <2>1, <2>2
<1>4. CASE tasks # <<>>
  <2>1. Len(tasks) \in 1..Len(tasks)
    BY <1>1, <1>4
  <2>2. NextStepId(tasks) = tasks[Len(tasks)].id + 1
    BY <1>1, <1>2, <1>4, NextIdOfGrowing
  <2> QED BY <1>1, <2>1, <2>2
<1> QED BY <1>3, <1>4

LEMMA CountedAfter ==
  ASSUME list \in TaskList, Counted(list.tasks, list.next_id), NEW call, WellFormed(call)
  PROVE  Counted(Tasks(call), NextId(call))
<1>1. list.tasks \in Seq(TaskItem) /\ Len(list.tasks) \in Nat
      /\ DOMAIN list.tasks = 1..Len(list.tasks)
  <2>1. list.tasks \in Seq(TaskItem)
    BY DEF TaskList
  <2> QED BY <2>1
<1>2. list.next_id = Len(list.tasks) + 1
      /\ \A n \in 1..Len(list.tasks) : list.tasks[n].id = n
  BY <1>1 DEF Counted
<1>3. CASE call.action = "create"
  <2> PICK titled : titled = Titled(call.entries)
    OBVIOUS
  <2>1. titled \in Seq(Entry)
    BY <1>3, TitledType DEF WellFormed
  <2> PICK t : t = Numbered(titled)
    OBVIOUS
  <2>2. t \in Seq(TaskItem) /\ Len(t) = Len(titled) /\ \A n \in 1..Len(titled) : t[n].id = n
    BY <2>1, NumberedType
  <2>3. DOMAIN t = 1..Len(t)
    BY <2>2
  <2>4. Tasks(call) = t /\ NextId(call) = Len(t) + 1
    BY <1>3 DEF Tasks, NextId
  <2> QED BY <2>2, <2>3, <2>4 DEF Counted
<1>4. CASE call.action = "add"
  <2> PICK task : task = Task(list.next_id, Pending(call.entry))
    OBVIOUS
  <2>1. task \in TaskItem /\ task.id = list.next_id
    BY <1>1, <1>2, <1>4, AddedType DEF WellFormed
  <2> PICK t : t = Append(list.tasks, task)
    OBVIOUS
  <2>2. /\ Len(t) = Len(list.tasks) + 1 /\ DOMAIN t = 1..(Len(list.tasks) + 1)
        /\ \A n \in 1..Len(list.tasks) : t[n] = list.tasks[n]
        /\ t[Len(list.tasks) + 1] = task
    BY <1>1, <2>1
  <2>3. \A n \in 1..(Len(list.tasks) + 1) : t[n].id = n
    <3>1. \A n \in 1..(Len(list.tasks) + 1) : n \in 1..Len(list.tasks) \/ n = Len(list.tasks) + 1
      BY <1>1
    <3> QED BY <1>2, <2>1, <2>2, <3>1
  <2>4. Tasks(call) = t /\ NextId(call) = Len(t) + 1
    BY <1>2, <1>4, <2>2 DEF Tasks, NextId
  <2> QED BY <2>2, <2>3, <2>4 DEF Counted
<1>5. CASE call.action = "update"
  <2> PICK change, t : change = Cleaned(call.change) /\ t = Updated(list.tasks, call.id, change)
    OBVIOUS
  <2>0. IsChange(call.change)
    BY <1>5 DEF WellFormed
  <2>1. \A task \in TaskItem : /\ Changed(task, change) \in TaskItem
                               /\ Changed(task, change).id = task.id
    BY <2>0, CleanedOfTask
  <2>2. /\ t \in Seq(TaskItem) /\ Len(t) = Len(list.tasks)
        /\ \A n \in 1..Len(list.tasks) : t[n].id = list.tasks[n].id
    BY <1>1, <2>1, UpdatedType
  <2>3. DOMAIN t = 1..Len(list.tasks)
    BY <2>2
  <2>4. Tasks(call) = t
    BY <1>5 DEF Tasks
  <2>5. NextId(call) = list.next_id
    BY <1>5 DEF NextId
  <2> QED BY <1>2, <2>2, <2>3, <2>4, <2>5 DEF Counted
<1>6. CASE call.action = "delete"
  BY <1>6 DEF Tasks, NextId, Counted
<1> QED BY <1>3, <1>4, <1>5, <1>6 DEF WellFormed

\* The ledger makes of its tasks what the tool makes of its list, if they agree
\* and the ledger can follow.
LEMMA MirrorAgrees ==
  ASSUME list \in TaskList, Counted(list.tasks, list.next_id), NEW p \in Paths,
         NEW call, WellFormed(call), NEW tasks, list.owner = p => tasks = list.tasks,
         Owner(call, p) = p
  PROVE  MirroredTasks(tasks, call) = Tasks(call)
<1>1. /\ call.named
      /\ \/ call.action = "delete"
         \/ call.action = "create" /\ AllTitled(call.entries)
         \/ call.action \in {"add", "update"} /\ list.owner = p
  BY LedgerAssumption DEF Owner
<1>2. CASE call.action = "delete"
  BY <1>1, <1>2 DEF MirroredTasks, Tasks
<1>3. CASE call.action = "create" /\ AllTitled(call.entries)
  <2> PICK entries, t : entries = call.entries /\ t = Steps(call.entries)
    OBVIOUS
  <2>1. entries \in Seq(Entry) /\ AllTitled(entries)
    BY <1>3 DEF WellFormed
  <2>2. Titled(entries) = entries
    BY <2>1, AllAreTitled
  <2>3. /\ t \in Seq(PlanStep) /\ Len(t) = Len(entries) /\ TasksOf(t) = Numbered(entries)
        /\ \A n \in 1..Len(entries) : t[n].title = entries[n].title
    BY <2>1, StepsType
  <2>4. AllTitled(t)
    <3>1. DOMAIN t = 1..Len(entries) /\ DOMAIN entries = 1..Len(entries)
      BY <2>1, <2>3
    <3> QED BY <2>1, <2>3, <3>1 DEF AllTitled
  <2>5. Titled(t) = t
    BY <2>3, <2>4, AllAreTitled
  <2>6. MirroredTasks(tasks, call) = TasksOf(Titled(t)) /\ Tasks(call) = Numbered(Titled(entries))
    BY <1>1, <1>3 DEF MirroredTasks, Tasks
  <2> QED BY <2>2, <2>3, <2>5, <2>6
<1>4. CASE call.action = "add" /\ list.owner = p
  <2>1. tasks = list.tasks /\ list.tasks \in Seq(TaskItem)
    BY <1>4 DEF TaskList
  <2>2. NextStepId(tasks) = list.next_id
    BY <2>1, CountedGrows
  <2> QED BY <1>1, <1>4, <2>1, <2>2 DEF MirroredTasks, Tasks
<1>5. CASE call.action = "update" /\ list.owner = p
  BY <1>1, <1>5 DEF MirroredTasks, Tasks
<1> QED BY <1>1, <1>2, <1>3, <1>4, <1>5

-----------------------------------------------------------------------------
(* What a ledger is on its way to *)

\* What the record of a call makes of the tasks of a ledger.
After(tasks, outcome) ==
  IF IsMirrored(outcome) THEN MirroredTasks(tasks, outcome.call) ELSE tasks

\* The tasks of a ledger while calls are recorded, one after the other.
Recorded(s, tasks, outcomes) ==
  /\ s[0] = tasks
  /\ \A n \in 1..Len(outcomes) : s[n] = After(s[n - 1], outcomes[n])

\* The executed calls whose effect on the plan is still to come.
Unmirrored(R) == IF R.at = "mirrored" THEN Tail(R.outcomes) ELSE R.outcomes

\* With them recorded, the plan of the run has the tasks of the list.
Follows(R, l) ==
  \E s : /\ Recorded(s, TasksOf(R.data.plan), Unmirrored(R))
         /\ l.owner = R.path => s[Len(Unmirrored(R))] = l.tasks

LEMMA RecordedNothing ==
  ASSUME NEW tasks
  PROVE  \E s : Recorded(s, tasks, <<>>) /\ s[Len(<<>>)] = tasks
<1> DEFINE s == [n \in {0} |-> tasks]
<1>1. s[0] = tasks /\ Len(<<>>) = 0
  OBVIOUS
<1> HIDE DEF s
<1> QED BY <1>1 DEF Recorded

LEMMA RecordedMore ==
  ASSUME NEW s, NEW tasks, NEW outcomes \in Seq(Outcome), Recorded(s, tasks, outcomes),
         NEW outcome \in Outcome
  PROVE  \E t : /\ Recorded(t, tasks, Append(outcomes, outcome))
                /\ t[Len(Append(outcomes, outcome))] = After(s[Len(outcomes)], outcome)
<1> PICK k, more : k = Len(outcomes) /\ more = Append(outcomes, outcome)
  OBVIOUS
<1>1. /\ k \in Nat /\ Len(more) = k + 1 /\ more[k + 1] = outcome
      /\ \A n \in 1..k : more[n] = outcomes[n]
  OBVIOUS
<1> DEFINE last == After(s[k], outcome)
           t == [n \in 0..(k + 1) |-> IF n = k + 1 THEN last ELSE s[n]]
<1> HIDE DEF last
<1>2. t[k + 1] = last /\ t[0] = s[0] /\ \A n \in 0..k : t[n] = s[n]
  BY <1>1
<1> HIDE DEF t
<1>3. ASSUME NEW n \in 1..(k + 1) PROVE t[n] = After(t[n - 1], more[n])
  <2>1. CASE n = k + 1
    <3>1. n - 1 = k /\ k \in 0..k
      BY <1>1, <2>1
    <3> QED BY <1>1, <1>2, <2>1, <3>1 DEF last
  <2>2. CASE n \in 1..k
    <3>1. n - 1 \in 0..k /\ n \in 0..k
      BY <1>1, <2>2
    <3> QED BY <1>1, <1>2, <2>2, <3>1 DEF Recorded
  <2> QED BY <1>1, <2>1, <2>2
<1>4. Recorded(t, tasks, more)
  BY <1>1, <1>2, <1>3 DEF Recorded
<1> QED BY <1>1, <1>2, <1>4 DEF last

LEMMA RecordedFirst ==
  ASSUME NEW s, NEW tasks, NEW outcomes \in Seq(Outcome), outcomes # <<>>,
         Recorded(s, tasks, outcomes)
  PROVE  \E t : /\ Recorded(t, After(tasks, Head(outcomes)), Tail(outcomes))
                /\ t[Len(Tail(outcomes))] = s[Len(outcomes)]
<1> PICK k, rest : k = Len(outcomes) /\ rest = Tail(outcomes)
  OBVIOUS
<1>1. /\ k \in Nat /\ k >= 1 /\ Len(rest) = k - 1 /\ Head(outcomes) = outcomes[1]
      /\ \A n \in 1..(k - 1) : rest[n] = outcomes[n + 1]
  <2>1. Len(outcomes) \in Nat /\ Len(outcomes) >= 1
    OBVIOUS
  <2> QED BY <2>1
<1> DEFINE t == [n \in 0..(k - 1) |-> s[n + 1]]
<1>2. t[0] = s[1] /\ \A n \in 0..(k - 1) : t[n] = s[n + 1]
  <2>1. 0 \in 0..(k - 1) /\ 0 + 1 = 1
    BY <1>1
  <2> QED BY <2>1
<1> HIDE DEF t
<1>3. s[1] = After(tasks, outcomes[1])
  <2>1. 1 \in 1..k /\ 1 - 1 = 0
    BY <1>1
  <2> QED BY <2>1 DEF Recorded
<1>4. ASSUME NEW n \in 1..(k - 1) PROVE t[n] = After(t[n - 1], rest[n])
  <2>1. n + 1 \in 1..k /\ (n + 1) - 1 = n /\ n \in 0..(k - 1) /\ n - 1 \in 0..(k - 1)
        /\ (n - 1) + 1 = n
    BY <1>1
  <2>2. s[n + 1] = After(s[n], outcomes[n + 1])
    BY <2>1 DEF Recorded
  <2> QED BY <1>1, <1>2, <2>1, <2>2
<1>5. Recorded(t, After(tasks, Head(outcomes)), rest)
  BY <1>1, <1>2, <1>3, <1>4 DEF Recorded
<1>6. t[k - 1] = s[k]
  <2>1. k - 1 \in 0..(k - 1) /\ (k - 1) + 1 = k
    BY <1>1
  <2> QED BY <1>2, <2>1
<1> QED BY <1>1, <1>5, <1>6

LEMMA RecordedInVain ==
  ASSUME NEW s, NEW tasks, NEW outcomes \in Seq(Outcome), Recorded(s, tasks, outcomes),
         \A n \in DOMAIN outcomes : ~IsMirrored(outcomes[n])
  PROVE  s[Len(outcomes)] = tasks
<1>1. Len(outcomes) \in Nat /\ DOMAIN outcomes = 1..Len(outcomes)
  OBVIOUS
<1> DEFINE S == {n \in Nat : n <= Len(outcomes) => s[n] = tasks}
<1>2. 0 \in S
  BY DEF Recorded
<1>3. ASSUME NEW n \in Nat, n \in S PROVE n + 1 \in S
  <2> SUFFICES ASSUME n + 1 <= Len(outcomes) PROVE s[n + 1] = tasks
    OBVIOUS
  <2>1. s[n] = tasks /\ n + 1 \in 1..Len(outcomes) /\ (n + 1) - 1 = n
    BY <1>1, <1>3
  <2>2. s[n + 1] = After(s[n], outcomes[n + 1])
    BY <2>1 DEF Recorded
  <2> QED BY <1>1, <2>1, <2>2 DEF After
<1> HIDE DEF S
<1>4. Len(outcomes) \in S
  BY <1>1, <1>2, <1>3, SetInduction
<1> QED BY <1>1, <1>4 DEF S

-----------------------------------------------------------------------------
(* The list is the tool's, and every ledger is on its way to it *)

\* A list that a run has changed last waits for it, or for its file once it is
\* over, in case another run opens it.
MirrorInv ==
  /\ Counted(list.tasks, list.next_id)
  /\ \A p \in Paths \ contested : \A r \in Runs :
        run[r].path = p => Follows(run[r], list)
  /\ \A p \in Paths \ contested :
        list.owner = p /\ (\A r \in Runs : run[r].path # p)
        => list.tasks = TasksOf(Opened(file[p]).plan)

LEMMA SameFollows ==
  ASSUME NEW R, NEW other, NEW l, Follows(R, l), other.path = R.path,
         TasksOf(other.data.plan) = TasksOf(R.data.plan), Unmirrored(other) = Unmirrored(R)
  PROVE  Follows(other, l)
BY DEF Follows

\* A list that belongs to another file, or to none, asks nothing.
LEMMA OtherFollows ==
  ASSUME NEW R, NEW l, NEW other, Follows(R, l), other.owner # R.path
  PROVE  Follows(R, other)
BY DEF Follows

\* A step of a run that keeps its file changes the list for itself or nobody.
LEMMA StepKeepsMirror ==
  ASSUME DataInv, RecordInv, MirrorInv, NEW r \in Runs, run[r].path \in Paths,
         StaysInStep(r, run[r].path),
         Counted(list'.tasks, list'.next_id),
         list' = list \/ list'.owner \in {run[r].path, NoPath},
         run[r].path \notin contested => Follows(run'[r], list')
  PROVE  RecordInv' /\ MirrorInv'
<1> PICK p \in Paths : p = run[r].path
  OBVIOUS
<1>1. RecordInv'
  BY StepKeepsRecord
<1>2. /\ \A q \in Runs : run'[q].path = run[q].path
      /\ \A q \in Runs : run[q].path # p => run'[q] = run[q]
      /\ \A o \in Paths : o # p => file'[o] = file[o]
      /\ contested' = contested
  BY DEF StaysInStep
<1>3. ASSUME NEW o \in Paths \ contested', NEW q \in Runs, run'[q].path = o
      PROVE  Follows(run'[q], list')
  <2>1. CASE o = p
    <3>1. q = r
      BY <1>2, <1>3, <2>1 DEF RecordInv
    <3> QED BY <1>2, <1>3, <2>1, <3>1
  <2>2. CASE o # p
    <3>1. run'[q] = run[q] /\ Follows(run[q], list)
      BY <1>2, <1>3, <2>2 DEF MirrorInv
    <3>2. CASE list' = list
      BY <3>1, <3>2
    <3>3. CASE list'.owner \in {p, NoPath}
      <4>1. list'.owner # run[q].path
        BY <1>2, <1>3, <2>2, <3>3, LedgerAssumption
      <4> QED BY <3>1, <4>1, OtherFollows
    <3> QED BY <3>2, <3>3
  <2> QED BY <2>1, <2>2
<1>4. ASSUME NEW o \in Paths \ contested', list'.owner = o, \A q \in Runs : run'[q].path # o
      PROVE  list'.tasks = TasksOf(Opened(file'[o]).plan)
  <2>1. o # p /\ o # NoPath
    BY <1>2, <1>4, LedgerAssumption
  <2>2. list' = list
    BY <1>4, <2>1
  <2>3. \A q \in Runs : run[q].path # o
    BY <1>2, <1>4
  <2>4. list.tasks = TasksOf(Opened(file[o]).plan)
    BY <1>2, <1>4, <2>2, <2>3 DEF MirrorInv
  <2> QED BY <1>2, <2>1, <2>2, <2>4
<1>5. MirrorInv'
  BY <1>3, <1>4 DEF MirrorInv, Follows, Opened
<1> QED BY <1>1, <1>5

\* The inductive invariant.
LedgerInv == DataInv /\ RecordInv /\ MirrorInv

\* A step that does not save and leaves the list alone.
LEMMA QuietKeeps ==
  ASSUME LedgerInv, NEW r \in Runs, run[r].path \in Paths, run[r].save = "none",
         NEW next, Step(r, next), next.path = run[r].path, next.save = "none",
         next.data = run[r].data, Unmirrored(next) = Unmirrored(run[r]),
         UNCHANGED <<list, file, tmp, contested, kept>>,
         live' = live \/ live' = [live EXCEPT ![run[r].path] = r]
  PROVE  RecordInv' /\ MirrorInv'
<1>1. StaysInStep(r, run[r].path)
  BY QuietStaysInStep DEF LedgerInv
<1>2. run'[r] = next
  BY StepRun DEF LedgerInv, DataInv
<1>3. run[r].path \notin contested => Follows(run'[r], list')
  BY <1>2, SameFollows DEF LedgerInv, MirrorInv
<1>4. Counted(list'.tasks, list'.next_id)
  BY DEF LedgerInv, MirrorInv
<1> QED BY <1>1, <1>3, <1>4, StepKeepsMirror DEF LedgerInv

\* A step that saves.
LEMMA SaveKeeps ==
  ASSUME LedgerInv, NEW r \in Runs, run[r].path \in Paths,
         NEW next \in RunType, Saves(r, next), next.path = run[r].path,
         UNCHANGED <<list, file, contested, live>>,
         \/ next.data.events = run[r].data.events /\ UNCHANGED kept
         \/ kept' = [kept EXCEPT ![run[r].path] = next.data.events],
         run[r].path \notin contested => Follows(next, list)
  PROVE  RecordInv' /\ MirrorInv'
<1>1. StaysInStep(r, run[r].path)
  BY SaveStaysInStep DEF LedgerInv
<1> PICK saving : saving = [next EXCEPT !.save = "open", !.writes = "tmp"]
  OBVIOUS
<1>2. run'[r] = saving
  BY StepRun DEF LedgerInv, DataInv, Saves
<1>3. /\ saving.path = next.path /\ saving.data = next.data
      /\ saving.at = next.at /\ saving.outcomes = next.outcomes
  BY DEF RunType
<1>4. TasksOf(saving.data.plan) = TasksOf(next.data.plan)
      /\ Unmirrored(saving) = Unmirrored(next)
  BY <1>3 DEF Unmirrored
<1>5. run[r].path \notin contested => Follows(run'[r], list')
  BY <1>2, <1>3, <1>4, SameFollows
<1>6. Counted(list'.tasks, list'.next_id)
  BY DEF LedgerInv, MirrorInv
<1> QED BY <1>1, <1>5, <1>6, StepKeepsMirror DEF LedgerInv

LEMMA SavingKeeps ==
  ASSUME LedgerInv, NEW r \in Runs, SaveStep(r)
  PROVE  RecordInv' /\ MirrorInv'
<1>1. StaysInStep(r, run[r].path) /\ run[r].path \in Paths
  BY SavingStaysInStep DEF LedgerInv
<1>2. run[r] \in RunType
  BY DEF LedgerInv, DataInv, RunsInv, RunInv
<1>3. /\ run'[r].path = run[r].path /\ run'[r].data = run[r].data
      /\ run'[r].at = run[r].at /\ run'[r].outcomes = run[r].outcomes
  <2>1. CASE Truncate(r)
    <3>1. run'[r] = [run[r] EXCEPT !.save = "open", !.writes = "tmp"]
      BY <2>1, StepRun DEF Truncate, Saves, LedgerInv, DataInv
    <3> QED BY <1>2, <3>1 DEF RunType
  <2>2. CASE Fill(r)
    <3>1. run'[r] = [run[r] EXCEPT !.save = "written"]
      BY <2>2, StepRun DEF Fill, LedgerInv, DataInv
    <3> QED BY <1>2, <3>1 DEF RunType
  <2>3. CASE Rename(r)
    <3> PICK saved : saved = [run[r] EXCEPT !.save = "none", !.writes = "none"]
      OBVIOUS
    <3>1. CASE Step(r, saved)
      <4>1. run'[r] = saved
        BY <3>1, StepRun DEF LedgerInv, DataInv
      <4> QED BY <1>2, <4>1 DEF RunType
    <3>2. CASE run' = [q \in Runs |->
                   IF q = r THEN saved
                   ELSE IF run[q].path = run[r].path
                        THEN [run[q] EXCEPT !.writes = Moved(@)] ELSE run[q]]
      <4>1. run'[r] = saved
        BY <3>2
      <4> QED BY <1>2, <4>1 DEF RunType
    <3> QED BY <2>3, <3>1, <3>2 DEF Rename
  <2> QED BY <2>1, <2>2, <2>3 DEF SaveStep
<1>4. list' = list
  BY DEF SaveStep, Truncate, Fill, Rename
<1>5. TasksOf(run'[r].data.plan) = TasksOf(run[r].data.plan)
      /\ Unmirrored(run'[r]) = Unmirrored(run[r])
  BY <1>3 DEF Unmirrored
<1>6. run[r].path \notin contested => Follows(run'[r], list')
  BY <1>1, <1>3, <1>4, <1>5, SameFollows DEF LedgerInv, MirrorInv
<1>7. Counted(list'.tasks, list'.next_id)
  BY <1>4 DEF LedgerInv, MirrorInv
<1> QED BY <1>1, <1>4, <1>6, <1>7, StepKeepsMirror DEF LedgerInv

LEMMA OpenKeeps ==
  ASSUME LedgerInv, NEW r \in Runs, OpenLedger(r)
  PROVE  RecordInv' /\ MirrorInv'
<1>1. RecordInv'
  BY OpenKeepsRecord DEF LedgerInv
<1>2. /\ run[r] \in RunType /\ run[r].at = "none" /\ run[r].outcomes = <<>>
      /\ run[r].path = NoPath
  BY DEF LedgerInv, DataInv, RunsInv, RunInv, OpenLedger
<1>3. PICK p \in Paths :
         Step(r, [run[r] EXCEPT !.at = "opening", !.path = p, !.save = "due",
                                !.data = Opened(file[p])])
         /\ contested' = contested \cup
               {run[q].path : q \in {q \in Runs : Open(q) /\ run[q].path = p}}
  BY DEF OpenLedger
<1> PICK data, next : /\ data = Opened(file[p])
                      /\ next = [run[r] EXCEPT !.at = "opening", !.path = p, !.save = "due",
                                               !.data = data]
  OBVIOUS
<1>4. next.path = p /\ next.data = data /\ next.outcomes = <<>> /\ next.at = "opening"
  BY <1>2 DEF RunType
<1>5. run'[r] = next /\ \A q \in Runs : q # r => run'[q] = run[q]
  BY <1>3, StepRun DEF LedgerInv, DataInv
<1>6. contested \subseteq contested' /\ UNCHANGED <<list, file>>
  BY <1>3 DEF OpenLedger
<1>7. ASSUME NEW o \in Paths \ contested', NEW q \in Runs, run'[q].path = o
      PROVE  Follows(run'[q], list')
  <2>1. CASE q = r
    <3>1. o = p /\ p \notin contested
      BY <1>4, <1>5, <1>6, <1>7, <2>1
    <3>2. ASSUME NEW s \in Runs PROVE run[s].path # p
      <4>1. CASE s = r
        BY <1>2, <4>1, LedgerAssumption
      <4>2. CASE s # r
        <5>1. run'[s] = run[s]
          BY <1>5, <4>2
        <5>2. run[s].path = p => s = r
          BY <1>1, <1>7, <2>1, <3>1, <5>1 DEF RecordInv
        <5> QED BY <4>2, <5>2
      <4> QED BY <4>1, <4>2
    <3>3. list.owner = p => list.tasks = TasksOf(data.plan)
      BY <3>1, <3>2 DEF LedgerInv, MirrorInv
    <3>4. PICK s : Recorded(s, TasksOf(data.plan), <<>>) /\ s[Len(<<>>)] = TasksOf(data.plan)
      BY RecordedNothing
    <3>5. Unmirrored(next) = <<>>
      BY <1>4 DEF Unmirrored
    <3>6. Follows(next, list)
      BY <1>4, <3>3, <3>4, <3>5 DEF Follows
    <3> QED BY <1>5, <1>6, <2>1, <3>6
  <2>2. CASE q # r
    <3>1. run'[q] = run[q] /\ o \notin contested
      BY <1>5, <1>6, <1>7, <2>2
    <3> QED BY <1>6, <1>7, <3>1 DEF LedgerInv, MirrorInv
  <2> QED BY <2>1, <2>2
<1>8. ASSUME NEW o \in Paths \ contested', list'.owner = o, \A q \in Runs : run'[q].path # o
      PROVE  list'.tasks = TasksOf(Opened(file'[o]).plan)
  <2>1. \A q \in Runs : run[q].path # o
    BY <1>2, <1>5, <1>8, LedgerAssumption
  <2>2. list.tasks = TasksOf(Opened(file[o]).plan)
    BY <1>6, <1>8, <2>1 DEF LedgerInv, MirrorInv
  <2> QED BY <1>6, <2>2
<1>9. Counted(list'.tasks, list'.next_id)
  BY <1>6 DEF LedgerInv, MirrorInv
<1>10. MirrorInv'
  BY <1>7, <1>8, <1>9 DEF MirrorInv, Follows, Opened
<1> QED BY <1>1, <1>10

LEMMA RegisterKeeps ==
  ASSUME LedgerInv, NEW r \in Runs, Register(r)
  PROVE  RecordInv' /\ MirrorInv'
<1>1. /\ run[r] \in RunType /\ run[r].at = "opening" /\ run[r].save = "none"
      /\ run[r].path \in Paths
  BY RunPath DEF LedgerInv, DataInv, RunsInv, RunInv, Register, Ready
<1> PICK next : next = [run[r] EXCEPT !.at = IF Autonomous(r) THEN "between" ELSE "routing"]
  OBVIOUS
<1>2. /\ next.at \in {"between", "routing"} /\ next.path = run[r].path /\ next.save = "none"
      /\ next.data = run[r].data /\ next.outcomes = run[r].outcomes
  BY <1>1 DEF RunType
<1>3. Unmirrored(next) = Unmirrored(run[r])
  BY <1>1, <1>2 DEF Unmirrored
<1> QED BY <1>1, <1>2, <1>3, QuietKeeps DEF Register

\* A step that neither records a call nor drops one, nor changes the plan.
LEMMA SameFollowing ==
  ASSUME LedgerInv, NEW r \in Runs, run[r].path \in Paths, NEW next, next.path = run[r].path,
         TasksOf(next.data.plan) = TasksOf(run[r].data.plan),
         Unmirrored(next) = Unmirrored(run[r])
  PROVE  run[r].path \notin contested => Follows(next, list)
<1>1. run[r].path \notin contested => Follows(run[r], list)
  BY DEF LedgerInv, MirrorInv
<1> QED BY <1>1, SameFollows

LEMMA RoutingKeeps ==
  ASSUME LedgerInv, NEW r \in Runs, RecordRouting(r)
  PROVE  RecordInv' /\ MirrorInv'
<1>1. /\ run[r] \in RunType /\ run[r].at = "routing" /\ run[r].save = "none"
      /\ run[r].path \in Paths /\ run[r].data \in RunLedgerData /\ Sound(run[r].data)
  BY RunPath DEF LedgerInv, DataInv, RunsInv, RunInv, RunType, RecordRouting, Ready
<1> PICK next, data : /\ data = [run[r].data EXCEPT !.routed = @ + 1]
                      /\ next = [run[r] EXCEPT !.at = "working", !.data.routed = @ + 1]
  OBVIOUS
<1>2. data \in RunLedgerData /\ data.plan = run[r].data.plan
      /\ data.events = run[r].data.events
  BY <1>1, CountRouting
<1>3. /\ next \in RunType /\ next.at = "working" /\ next.path = run[r].path
      /\ next.data = data /\ next.outcomes = run[r].outcomes
  BY <1>1, <1>2 DEF RunType
<1>4. Unmirrored(next) = Unmirrored(run[r])
      /\ TasksOf(next.data.plan) = TasksOf(run[r].data.plan)
  BY <1>1, <1>2, <1>3 DEF Unmirrored
<1>5. run[r].path \notin contested => Follows(next, list)
  BY <1>1, <1>3, <1>4, SameFollowing
<1> QED BY <1>1, <1>2, <1>3, <1>5, SaveKeeps DEF RecordRouting

LEMMA ExecuteKeeps ==
  ASSUME LedgerInv, NEW r \in Runs, NEW outcome \in Outcome, Execute(r, outcome),
         Counted(list'.tasks, list'.next_id),
         list' = list \/ list'.owner \in {run[r].path, NoPath},
         \A tasks : (list.owner = run[r].path => tasks = list.tasks)
                    => (list'.owner = run[r].path => After(tasks, outcome) = list'.tasks)
  PROVE  RecordInv' /\ MirrorInv'
<1>1. /\ run[r] \in RunType /\ run[r].at = "working" /\ run[r].save = "none"
      /\ run[r].path \in Paths /\ run[r].outcomes \in Seq(Outcome)
  BY RunPath DEF LedgerInv, DataInv, RunsInv, RunInv, RunType, Execute, Ready
<1> PICK next, outs : /\ outs = Append(run[r].outcomes, outcome)
                      /\ next = [run[r] EXCEPT !.outcomes = Append(@, outcome)]
  OBVIOUS
<1>2. /\ next.at = "working" /\ next.path = run[r].path /\ next.save = "none"
      /\ next.data = run[r].data /\ next.outcomes = outs
  BY <1>1 DEF RunType
<1>3. Step(r, next) /\ UNCHANGED <<file, tmp, live, contested, kept>>
  BY DEF Execute
<1>4. StaysInStep(r, run[r].path)
  BY <1>1, <1>2, <1>3, QuietStaysInStep DEF LedgerInv
<1>5. run'[r] = next
  BY <1>3, StepRun DEF LedgerInv, DataInv
<1>6. run[r].path \notin contested => Follows(next, list')
  <2> SUFFICES ASSUME run[r].path \notin contested PROVE Follows(next, list')
    OBVIOUS
  <2>1. Follows(run[r], list)
    BY <1>1 DEF LedgerInv, MirrorInv
  <2>2. Unmirrored(run[r]) = run[r].outcomes /\ Unmirrored(next) = outs
    BY <1>1, <1>2 DEF Unmirrored
  <2>3. PICK s : /\ Recorded(s, TasksOf(run[r].data.plan), run[r].outcomes)
                 /\ list.owner = run[r].path => s[Len(run[r].outcomes)] = list.tasks
    BY <2>1, <2>2 DEF Follows
  <2>4. PICK t : /\ Recorded(t, TasksOf(run[r].data.plan), outs)
                 /\ t[Len(outs)] = After(s[Len(run[r].outcomes)], outcome)
    BY <1>1, <2>3, RecordedMore
  <2>5. list'.owner = run[r].path => t[Len(outs)] = list'.tasks
    BY <2>3, <2>4
  <2> QED BY <1>2, <2>2, <2>4, <2>5 DEF Follows
<1> QED BY <1>1, <1>4, <1>5, <1>6, StepKeepsMirror DEF LedgerInv

LEMMA ToolKeeps ==
  ASSUME LedgerInv, NEW r \in Runs, ExecuteTool(r)
  PROVE  RecordInv' /\ MirrorInv'
<1>1. PICK call \in ToolCalls : Execute(r, [call |-> call, success |-> call.success])
  BY DEF ExecuteTool
<1> PICK outcome : outcome = [call |-> call, success |-> call.success]
  OBVIOUS
<1>2. outcome \in Outcome /\ outcome.call = call /\ ~IsPlanCall(call)
  BY LedgerAssumption DEF Outcome
<1>3. \A tasks : After(tasks, outcome) = tasks
  BY <1>2 DEF After, IsMirrored
<1>4. list' = list /\ Counted(list'.tasks, list'.next_id)
  BY DEF ExecuteTool, LedgerInv, MirrorInv
<1> QED BY <1>1, <1>2, <1>3, <1>4, ExecuteKeeps

LEMMA PlanCallKeeps ==
  ASSUME LedgerInv, NEW r \in Runs, ExecutePlanCall(r)
  PROVE  RecordInv' /\ MirrorInv'
<1> PICK p : p = run[r].path
  OBVIOUS
<1>1. p \in Paths
  BY RunPath DEF LedgerInv, ExecutePlanCall, Ready
<1>2. PICK call \in PlanCalls[p] :
         /\ Execute(r, [call |-> call, success |-> Accepts(call)])
         /\ list' = IF Accepts(call) THEN ChangedList(call, p) ELSE list
  BY DEF ExecutePlanCall
<1>3. WellFormed(call) /\ IsPlanCall(call)
  BY <1>1, LedgerAssumption DEF WellFormed
<1>4. Accepts(call) \in BOOLEAN
  BY <1>3, Zenon DEF Accepts, WellFormed
<1> PICK outcome : outcome = [call |-> call, success |-> Accepts(call)]
  OBVIOUS
<1>5. outcome \in Outcome
  BY <1>1, <1>4 DEF Outcome
<1>6. outcome.call = call /\ outcome.success = Accepts(call)
  OBVIOUS
<1>7. list \in TaskList /\ Counted(list.tasks, list.next_id)
  BY DEF LedgerInv, DataInv, OthersInv, MirrorInv
<1>8. CASE Accepts(call)
  <2>1. /\ list'.tasks = Tasks(call) /\ list'.next_id = NextId(call)
        /\ list'.owner = Owner(call, p)
    BY <1>2, <1>8 DEF ChangedList
  <2>2. Counted(list'.tasks, list'.next_id)
    BY <1>3, <1>7, <2>1, CountedAfter
  <2>3. list'.owner \in {p, NoPath}
    BY <2>1 DEF Owner
  <2>4. ASSUME NEW tasks, list.owner = p => tasks = list.tasks, list'.owner = p
        PROVE  After(tasks, outcome) = list'.tasks
    <3>1. MirroredTasks(tasks, call) = Tasks(call)
      BY <1>1, <1>3, <1>7, <2>1, <2>4, MirrorAgrees
    <3>2. After(tasks, outcome) = MirroredTasks(tasks, call)
      BY <1>3, <1>6, <1>8 DEF After, IsMirrored
    <3> QED BY <2>1, <3>1, <3>2
  <2> QED BY <1>2, <1>5, <2>2, <2>3, <2>4, ExecuteKeeps
<1>9. CASE ~Accepts(call)
  <2>1. list' = list
    BY <1>2, <1>9
  <2>2. \A tasks : After(tasks, outcome) = tasks
    BY <1>6, <1>9 DEF After, IsMirrored
  <2> QED BY <1>2, <1>5, <1>7, <2>1, <2>2, ExecuteKeeps
<1> QED BY <1>8, <1>9

\* With no call left to record, the plan has the tasks of the list.
LEMMA NothingLeft ==
  ASSUME NEW R, NEW l, Unmirrored(R) = <<>>
  PROVE  Follows(R, l) <=> (l.owner = R.path => l.tasks = TasksOf(R.data.plan))
<1>0. Len(<<>>) = 0
  OBVIOUS
<1>1. ASSUME Follows(R, l), l.owner = R.path PROVE l.tasks = TasksOf(R.data.plan)
  <2>1. PICK s : /\ Recorded(s, TasksOf(R.data.plan), <<>>)
                 /\ s[Len(<<>>)] = l.tasks
    BY <1>1 DEF Follows
  <2> QED BY <1>0, <2>1 DEF Recorded
<1>2. ASSUME l.owner = R.path => l.tasks = TasksOf(R.data.plan) PROVE Follows(R, l)
  <2>1. PICK s : Recorded(s, TasksOf(R.data.plan), <<>>) /\ s[Len(<<>>)] = TasksOf(R.data.plan)
    BY RecordedNothing
  <2> QED BY <1>2, <2>1 DEF Follows
<1> QED BY <1>1, <1>2

\* A step that records the first call of the batch in the plan.
LEMMA OneLess ==
  ASSUME LedgerInv, NEW r \in Runs, run[r].path \in Paths, run[r].outcomes # <<>>,
         Unmirrored(run[r]) = run[r].outcomes, NEW next, next.path = run[r].path,
         TasksOf(next.data.plan) = After(TasksOf(run[r].data.plan), Head(run[r].outcomes)),
         Unmirrored(next) = Tail(run[r].outcomes)
  PROVE  run[r].path \notin contested => Follows(next, list)
<1> SUFFICES ASSUME run[r].path \notin contested PROVE Follows(next, list)
  OBVIOUS
<1> PICK outs, tasks : outs = run[r].outcomes /\ tasks = TasksOf(run[r].data.plan)
  OBVIOUS
<1>1. outs \in Seq(Outcome) /\ outs # <<>>
  BY HeadOfOutcomes DEF LedgerInv
<1>2. Follows(run[r], list)
  BY DEF LedgerInv, MirrorInv
<1>3. PICK s : Recorded(s, tasks, outs) /\ (list.owner = run[r].path => s[Len(outs)] = list.tasks)
  BY <1>2 DEF Follows
<1>4. PICK t : /\ Recorded(t, After(tasks, Head(outs)), Tail(outs))
               /\ t[Len(Tail(outs))] = s[Len(outs)]
  BY <1>1, <1>3, RecordedFirst
<1> QED BY <1>3, <1>4 DEF Follows

LEMMA RecordPlanCallKeeps ==
  ASSUME LedgerInv, NEW r \in Runs, RecordPlanCall(r)
  PROVE  RecordInv' /\ MirrorInv'
<1>1. /\ run[r] \in RunType /\ run[r].at \in {"working", "recording"}
      /\ run[r].path \in Paths /\ run[r].outcomes # <<>>
      /\ run[r].data \in RunLedgerData /\ Sound(run[r].data)
  BY RunPath DEF LedgerInv, DataInv, RunsInv, RunInv, RunType, RecordPlanCall, Recording, Ready
<1> PICK outcome, call : outcome = Head(run[r].outcomes) /\ call = Head(run[r].outcomes).call
  OBVIOUS
<1>2. WellFormed(call) /\ IsMirrored(outcome)
  BY <1>1, HeadOfOutcomes DEF LedgerInv, RecordPlanCall, IsMirrored
<1> PICK next, data : /\ data = Mirrored(run[r].data, call)
                      /\ next = [run[r] EXCEPT !.at = "mirrored", !.data = Mirrored(@, call)]
  OBVIOUS
<1>3. MirroredTo(run[r].data, call, data)
  BY <1>1, <1>2, MirroredData
<1>4. /\ data \in RunLedgerData /\ data.events = run[r].data.events
      /\ TasksOf(data.plan) = After(TasksOf(run[r].data.plan), outcome)
  BY <1>2, <1>3 DEF MirroredTo, After
<1>5. /\ next \in RunType /\ next.at = "mirrored" /\ next.path = run[r].path
      /\ next.data = data /\ next.outcomes = run[r].outcomes
  BY <1>1, <1>4 DEF RunType
<1>6. Unmirrored(run[r]) = run[r].outcomes /\ Unmirrored(next) = Tail(run[r].outcomes)
  BY <1>1, <1>5 DEF Unmirrored
<1>7. run[r].path \notin contested => Follows(next, list)
  BY <1>1, <1>4, <1>5, <1>6, OneLess
<1> QED BY <1>1, <1>4, <1>5, <1>7, SaveKeeps DEF RecordPlanCall

LEMMA NextFollows ==
  ASSUME LedgerInv, NEW r \in Runs, RecordEvent(r), run[r].path \in Paths,
         NEW next, next.path = run[r].path, next.at \in {"working", "recording"},
         next.outcomes = Tail(run[r].outcomes),
         TasksOf(next.data.plan) = TasksOf(run[r].data.plan)
  PROVE  run[r].path \notin contested => Follows(next, list)
<1>1. Unmirrored(next) = Tail(run[r].outcomes)
  BY DEF Unmirrored
<1>2. CASE Ready(r, "mirrored")
  <2>1. Unmirrored(run[r]) = Tail(run[r].outcomes)
    BY <1>2 DEF Unmirrored, Ready
  <2> QED BY <1>1, <2>1, SameFollowing
<1>3. CASE Recording(r) /\ ~IsMirrored(Head(run[r].outcomes))
  <2>1. Unmirrored(run[r]) = run[r].outcomes /\ run[r].outcomes # <<>>
    BY <1>3 DEF Unmirrored, Recording, Ready
  <2>2. After(TasksOf(run[r].data.plan), Head(run[r].outcomes)) = TasksOf(run[r].data.plan)
    BY <1>3 DEF After
  <2> QED BY <1>1, <2>1, <2>2, OneLess
<1> QED BY <1>2, <1>3 DEF RecordEvent

LEMMA RecordEventKeeps ==
  ASSUME LedgerInv, NEW r \in Runs, RecordEvent(r)
  PROVE  RecordInv' /\ MirrorInv'
<1> PICK outcome, next, data :
      /\ outcome = Head(run[r].outcomes)
      /\ next = Further(r)
      /\ data = WithEvent(run[r].data, outcome)
  OBVIOUS
<1>1. /\ next \in RunType /\ next.at \in {"working", "recording"}
      /\ next.path = run[r].path /\ next.save = "none" /\ next.data = run[r].data
      /\ next.outcomes = Tail(run[r].outcomes)
  BY NextOutcome DEF LedgerInv
<1>2. /\ run[r].outcomes # <<>> /\ run[r].save = "none" /\ run[r].path \in Paths
      /\ run[r].data \in RunLedgerData /\ Sound(run[r].data) /\ IsOutcome(outcome)
  <2>1. /\ run[r].outcomes # <<>> /\ run[r].at \in {"working", "recording", "mirrored"}
        /\ run[r].save = "none"
    BY RecordingHasOutcomes DEF LedgerInv, RecordEvent
  <2> QED BY <2>1, HeadOfOutcomes, RunPath DEF LedgerInv, DataInv, RunsInv, RunInv, RunType
<1>3. CASE Step(r, next) /\ UNCHANGED <<tmp, kept>>
  <2>1. UNCHANGED <<list, file, live, contested>>
    BY DEF RecordEvent
  <2>2. StaysInStep(r, run[r].path)
    BY <1>1, <1>2, <1>3, <2>1, QuietStaysInStep DEF LedgerInv
  <2>3. run'[r] = next
    BY <1>3, StepRun DEF LedgerInv, DataInv
  <2>4. run[r].path \notin contested => Follows(next, list)
    BY <1>1, <1>2, NextFollows
  <2>5. Counted(list.tasks, list.next_id)
    BY DEF LedgerInv, MirrorInv
  <2> QED BY <1>2, <2>1, <2>2, <2>3, <2>4, <2>5, StepKeepsMirror DEF LedgerInv
<1>4. CASE /\ Len(run[r].data.events) < MaxEvents
           /\ Saves(r, [next EXCEPT !.data = data])
           /\ kept' = [kept EXCEPT ![run[r].path] = data.events]
  <2> PICK saved : saved = [next EXCEPT !.data = data]
    OBVIOUS
  <2>1. RecordedTo(run[r].data, outcome, data)
    BY <1>2, <1>4, DataWithEvent
  <2>2. data \in RunLedgerData /\ TasksOf(data.plan) = TasksOf(run[r].data.plan)
    BY <2>1 DEF RecordedTo
  <2>3. /\ saved \in RunType /\ saved.at = next.at /\ saved.path = run[r].path
        /\ saved.data = data /\ saved.outcomes = Tail(run[r].outcomes)
    BY <1>1, <2>2 DEF RunType
  <2>4. run[r].path \notin contested => Follows(saved, list)
    BY <1>1, <1>2, <2>2, <2>3, NextFollows
  <2> QED BY <1>2, <1>4, <2>3, <2>4, SaveKeeps DEF RecordEvent
<1> QED BY <1>3, <1>4 DEF RecordEvent, Further

LEMMA CancelledKeeps ==
  ASSUME LedgerInv, NEW r \in Runs, LoopCancelled(r)
  PROVE  RecordInv' /\ MirrorInv'
<1>1. /\ run[r] \in RunType /\ run[r].at = "working" /\ run[r].save = "none"
      /\ run[r].path \in Paths /\ run[r].outcomes \in Seq(Outcome)
  BY RunPath DEF LedgerInv, DataInv, RunsInv, RunInv, RunType, LoopCancelled, Ready
<1> PICK next : next = (IF Autonomous(r) THEN Abandoned(r)
                        ELSE [run[r] EXCEPT !.at = "closing", !.outcomes = <<>>,
                                            !.verdict = "cancelled"])
  OBVIOUS
<1>2. /\ next.at # "mirrored" /\ next.path = run[r].path /\ next.save = "none"
      /\ next.data = run[r].data /\ next.outcomes = <<>>
  <2>1. CASE Autonomous(r)
    BY <2>1 DEF Abandoned, NotOpened
  <2>2. CASE ~Autonomous(r)
    BY <1>1, <2>2 DEF RunType
  <2> QED BY <2>1, <2>2
<1>3. Step(r, next) /\ list' = Disowned(r) /\ UNCHANGED <<file, tmp, live, contested, kept>>
  BY DEF LoopCancelled
<1>4. StaysInStep(r, run[r].path)
  BY <1>1, <1>2, <1>3, QuietStaysInStep DEF LedgerInv
<1>5. run'[r] = next
  BY <1>3, StepRun DEF LedgerInv, DataInv
<1>6. Unmirrored(next) = <<>> /\ Unmirrored(run[r]) = run[r].outcomes
  BY <1>1, <1>2 DEF Unmirrored
<1>7. list \in TaskList /\ Counted(list.tasks, list.next_id)
  BY DEF LedgerInv, DataInv, OthersInv, MirrorInv
<1>8. CASE \E n \in DOMAIN run[r].outcomes : IsMirrored(run[r].outcomes[n])
  <2>1. list' = [list EXCEPT !.owner = NoPath]
    BY <1>3, <1>8 DEF Disowned
  <2>2. list'.owner = NoPath /\ list'.tasks = list.tasks /\ list'.next_id = list.next_id
    BY <1>7, <2>1 DEF TaskList
  <2>3. list'.owner # next.path
    BY <1>1, <1>2, <2>2, LedgerAssumption
  <2>4. Follows(next, list')
    BY <1>6, <2>3, NothingLeft
  <2> QED BY <1>1, <1>4, <1>5, <1>7, <2>2, <2>4, StepKeepsMirror DEF LedgerInv
<1>9. CASE \A n \in DOMAIN run[r].outcomes : ~IsMirrored(run[r].outcomes[n])
  <2>1. list' = list
    BY <1>3, <1>9 DEF Disowned
  <2>2. ASSUME run[r].path \notin contested PROVE Follows(next, list)
    <3>1. Follows(run[r], list)
      BY <1>1, <2>2 DEF LedgerInv, MirrorInv
    <3>2. PICK s : /\ Recorded(s, TasksOf(run[r].data.plan), run[r].outcomes)
                   /\ list.owner = run[r].path => s[Len(run[r].outcomes)] = list.tasks
      BY <1>6, <3>1 DEF Follows
    <3>3. s[Len(run[r].outcomes)] = TasksOf(run[r].data.plan)
      BY <1>1, <1>9, <3>2, RecordedInVain
    <3>4. list.owner = next.path => list.tasks = TasksOf(next.data.plan)
      BY <1>2, <3>2, <3>3
    <3> QED BY <1>6, <3>4, NothingLeft
  <2> QED BY <1>1, <1>4, <1>5, <1>7, <2>1, <2>2, StepKeepsMirror DEF LedgerInv
<1> QED BY <1>8, <1>9

LEMMA FailedKeeps ==
  ASSUME LedgerInv, NEW r \in Runs, LoopFailed(r)
  PROVE  RecordInv' /\ MirrorInv'
<1>1. /\ run[r] \in RunType /\ run[r].at = "working" /\ run[r].save = "none"
      /\ run[r].path \in Paths /\ run[r].outcomes = <<>>
  BY RunPath DEF LedgerInv, DataInv, RunsInv, RunInv, LoopFailed, Ready
<1> PICK next : next = (IF Autonomous(r) THEN Abandoned(r)
                        ELSE [run[r] EXCEPT !.at = "closing", !.verdict = "failed"])
  OBVIOUS
<1>2. /\ next.at # "mirrored" /\ next.path = run[r].path /\ next.save = "none"
      /\ next.data = run[r].data /\ next.outcomes = <<>>
  <2>1. CASE Autonomous(r)
    BY <2>1 DEF Abandoned, NotOpened
  <2>2. CASE ~Autonomous(r)
    BY <1>1, <2>2 DEF RunType
  <2> QED BY <2>1, <2>2
<1>3. Unmirrored(next) = Unmirrored(run[r])
  BY <1>1, <1>2 DEF Unmirrored
<1> QED BY <1>1, <1>2, <1>3, QuietKeeps DEF LoopFailed

LEMMA AnsweredKeeps ==
  ASSUME LedgerInv, NEW r \in Runs, TurnAnswered(r)
  PROVE  RecordInv' /\ MirrorInv'
<1>1. /\ run[r] \in RunType /\ run[r].at = "working" /\ run[r].save = "none"
      /\ run[r].path \in Paths
  BY RunPath DEF LedgerInv, DataInv, RunsInv, RunInv, TurnAnswered, Ready
<1> PICK next : next = [run[r] EXCEPT !.at = "closing", !.verdict = "completed"]
  OBVIOUS
<1>2. /\ next.at = "closing" /\ next.path = run[r].path /\ next.save = "none"
      /\ next.data = run[r].data /\ next.outcomes = run[r].outcomes
  BY <1>1 DEF RunType
<1>3. Unmirrored(next) = Unmirrored(run[r])
  BY <1>1, <1>2 DEF Unmirrored
<1> QED BY <1>1, <1>2, <1>3, QuietKeeps DEF TurnAnswered

LEMMA BeginKeeps ==
  ASSUME LedgerInv, NEW r \in Runs, BeginAttempt(r)
  PROVE  RecordInv' /\ MirrorInv'
<1>1. /\ run[r] \in RunType /\ run[r].at = "between" /\ run[r].save = "none"
      /\ run[r].path \in Paths
  BY RunPath DEF LedgerInv, DataInv, RunsInv, RunInv, BeginAttempt, Ready
<1> PICK next : next = [run[r] EXCEPT !.at = "working"]
  OBVIOUS
<1>2. /\ next.at = "working" /\ next.path = run[r].path /\ next.save = "none"
      /\ next.data = run[r].data /\ next.outcomes = run[r].outcomes
  BY <1>1 DEF RunType
<1>3. Unmirrored(next) = Unmirrored(run[r])
  BY <1>1, <1>2 DEF Unmirrored
<1> QED BY <1>1, <1>2, <1>3, QuietKeeps DEF BeginAttempt

LEMMA CancelledBetweenKeeps ==
  ASSUME LedgerInv, NEW r \in Runs, CancelledBetween(r)
  PROVE  RecordInv' /\ MirrorInv'
<1>1. /\ run[r] \in RunType /\ run[r].at = "between" /\ run[r].save = "none"
      /\ run[r].path \in Paths
  BY RunPath DEF LedgerInv, DataInv, RunsInv, RunInv, CancelledBetween, Ready
<1> PICK next : next = [run[r] EXCEPT !.at = "closing", !.verdict = "cancelled"]
  OBVIOUS
<1>2. /\ next.at = "closing" /\ next.path = run[r].path /\ next.save = "none"
      /\ next.data = run[r].data /\ next.outcomes = run[r].outcomes
  BY <1>1 DEF RunType
<1>3. Unmirrored(next) = Unmirrored(run[r])
  BY <1>1, <1>2 DEF Unmirrored
<1> QED BY <1>1, <1>2, <1>3, QuietKeeps DEF CancelledBetween

LEMMA ConcludeKeeps ==
  ASSUME LedgerInv, NEW r \in Runs, run[r].at \in {"working", "between"},
         NEW attempts \in 0..RetryBudget,
         NEW verdict \in {"completed", "completed_unverified", "failed"},
         Conclude(r, attempts, verdict)
  PROVE  RecordInv' /\ MirrorInv'
<1>1. /\ run[r] \in RunType /\ run[r].path \in Paths /\ run[r].data \in RunLedgerData
      /\ Sound(run[r].data)
  BY RunPath DEF LedgerInv, DataInv, RunsInv, RunInv, RunType
<1> PICK next, data :
       /\ data = [run[r].data EXCEPT !.attempts = attempts]
       /\ next = [run[r] EXCEPT !.at = "closing", !.verdict = verdict,
                                !.data.attempts = attempts]
  OBVIOUS
<1>2. /\ data \in RunLedgerData /\ data.plan = run[r].data.plan
      /\ data.events = run[r].data.events
  BY <1>1, SetAttempts
<1>3. /\ next \in RunType /\ next.at = "closing" /\ next.path = run[r].path
      /\ next.data = data /\ next.outcomes = run[r].outcomes
  BY <1>1, <1>2 DEF RunType
<1>4. Unmirrored(next) = Unmirrored(run[r])
      /\ TasksOf(next.data.plan) = TasksOf(run[r].data.plan)
  BY <1>2, <1>3 DEF Unmirrored
<1>5. run[r].path \notin contested => Follows(next, list)
  BY <1>1, <1>3, <1>4, SameFollowing
<1> QED BY <1>1, <1>2, <1>3, <1>5, SaveKeeps DEF Conclude

LEMMA CapKeeps ==
  ASSUME LedgerInv, NEW r \in Runs, WallClockCap(r)
  PROVE  RecordInv' /\ MirrorInv'
<1>1. run[r].at = "between" /\ run[r].attempt \in 0..RetryBudget
  BY LedgerAssumption DEF LedgerInv, DataInv, RunsInv, RunInv, RunType, WallClockCap, Ready
<1>2. Conclude(r, run[r].attempt, "failed")
  BY DEF WallClockCap
<1> QED BY <1>1, <1>2, ConcludeKeeps

LEMMA AttemptKeeps ==
  ASSUME LedgerInv, NEW r \in Runs, NEW prose_complete \in BOOLEAN,
         AttemptAnswered(r, prose_complete)
  PROVE  RecordInv' /\ MirrorInv'
<1>1. /\ run[r] \in RunType /\ run[r].at = "working" /\ run[r].path \in Paths
      /\ run[r].attempt \in 0..(RetryBudget - 1)
      /\ run[r].data \in RunLedgerData /\ Sound(run[r].data)
  BY RunPath DEF LedgerInv, DataInv, RunsInv, RunInv, RunType, AttemptAnswered, Ready
<1>2. run[r].attempt + 1 \in 0..RetryBudget /\ RetryBudget \in 0..RetryBudget
  BY <1>1, LedgerAssumption
<1>3. CASE Conclude(r, run[r].attempt + 1, "completed")
  BY <1>1, <1>2, <1>3, ConcludeKeeps
<1>4. CASE Conclude(r, RetryBudget, IF prose_complete THEN "completed_unverified" ELSE "failed")
  BY <1>1, <1>2, <1>4, ConcludeKeeps
<1>5. CASE /\ run[r].attempt + 1 < RetryBudget
           /\ Saves(r, [run[r] EXCEPT !.at = "between", !.attempt = @ + 1,
                                      !.data.attempts = run[r].attempt + 1])
           /\ UNCHANGED <<list, file, live, calls, crashes, contested, kept>>
  <2> PICK next, data :
         /\ data = [run[r].data EXCEPT !.attempts = run[r].attempt + 1]
         /\ next = [run[r] EXCEPT !.at = "between", !.attempt = @ + 1,
                                  !.data.attempts = run[r].attempt + 1]
    OBVIOUS
  <2>1. /\ data \in RunLedgerData /\ data.plan = run[r].data.plan
        /\ data.events = run[r].data.events
    BY <1>1, <1>2, SetAttempts
  <2>2. run[r].attempt + 1 \in 0..(RetryBudget - 1)
    BY <1>1, <1>5, LedgerAssumption
  <2>3. /\ next \in RunType /\ next.at = "between" /\ next.path = run[r].path
        /\ next.data = data /\ next.outcomes = run[r].outcomes
    BY <1>1, <2>1, <2>2 DEF RunType
  <2>4. Unmirrored(next) = Unmirrored(run[r])
        /\ TasksOf(next.data.plan) = TasksOf(run[r].data.plan)
    BY <1>1, <2>1, <2>3 DEF Unmirrored
  <2>5. run[r].path \notin contested => Follows(next, list)
    BY <1>1, <2>3, <2>4, SameFollowing
  <2> QED BY <1>1, <1>5, <2>1, <2>3, <2>5, SaveKeeps
<1> QED BY <1>3, <1>4, <1>5 DEF AttemptAnswered

LEMMA FinalizeKeeps ==
  ASSUME LedgerInv, NEW r \in Runs, Finalize(r)
  PROVE  RecordInv' /\ MirrorInv'
<1>1. /\ run[r] \in RunType /\ run[r].at = "closing" /\ run[r].path \in Paths
      /\ run[r].data \in RunLedgerData /\ Sound(run[r].data)
      /\ run[r].verdict \in {"running", "completed", "completed_unverified", "failed", "cancelled"}
  BY RunPath DEF LedgerInv, DataInv, RunsInv, RunInv, RunType, Finalize, Ready
<1> PICK v : v = Verified(run[r].data)
  OBVIOUS
<1> PICK next, data : /\ data = [v EXCEPT !.status = run[r].verdict]
                      /\ next = [run[r] EXCEPT
                                   !.at = "finalized",
                                   !.data = [Verified(@) EXCEPT !.status = run[r].verdict]]
  OBVIOUS
<1>2. VerifiedTo(run[r].data, v)
  BY <1>1, VerifiedData DEF Sound
<1>3. /\ data \in RunLedgerData /\ data.events = run[r].data.events
      /\ TasksOf(data.plan) = TasksOf(run[r].data.plan)
  <2>1. data \in RunLedgerData /\ data.plan = v.plan /\ data.events = v.events
    BY <1>1, <1>2 DEF VerifiedTo, RunLedgerData
  <2> QED BY <1>2, <2>1 DEF VerifiedTo
<1>4. /\ next \in RunType /\ next.at = "finalized" /\ next.path = run[r].path
      /\ next.data = data /\ next.outcomes = run[r].outcomes
  BY <1>1, <1>3 DEF RunType
<1>5. Unmirrored(next) = Unmirrored(run[r])
  BY <1>1, <1>4 DEF Unmirrored
<1>6. run[r].path \notin contested => Follows(next, list)
  BY <1>1, <1>3, <1>4, <1>5, SameFollowing
<1> QED BY <1>1, <1>3, <1>4, <1>6, SaveKeeps DEF Finalize

LEMMA UnregisterKeeps ==
  ASSUME LedgerInv, NEW r \in Runs, Unregister(r)
  PROVE  RecordInv' /\ MirrorInv'
<1>1. /\ run[r].at = "finalized" /\ run[r].save = "none" /\ run[r].outcomes = <<>>
      /\ run[r].path \in Paths /\ run[r].data \in RunLedgerData
  BY RunPath DEF LedgerInv, DataInv, RunsInv, RunInv, RunType, Unregister, Ready
<1> PICK p \in Paths : p = run[r].path
  BY <1>1
<1>2. RecordInv'
  BY UnregisterKeepsRecord DEF LedgerInv
<1>3. run'[r] = Closed /\ \A q \in Runs : q # r => run'[q] = run[q]
  BY StepRun DEF LedgerInv, DataInv, Unregister
<1>4. run'[r].path = NoPath /\ NoPath \notin Paths
  BY <1>3, ClosedRun, LedgerAssumption
<1>5. UNCHANGED <<list, file, contested>>
  BY DEF Unregister
<1>6. ASSUME NEW o \in Paths \ contested', NEW q \in Runs, run'[q].path = o
      PROVE  Follows(run'[q], list')
  <2>1. run'[q] = run[q] /\ run[q].path = o
    BY <1>3, <1>4, <1>6
  <2> QED BY <1>5, <1>6, <2>1 DEF LedgerInv, MirrorInv
<1>7. ASSUME NEW o \in Paths \ contested', list'.owner = o, \A q \in Runs : run'[q].path # o
      PROVE  list'.tasks = TasksOf(Opened(file'[o]).plan)
  <2>1. CASE o = p
    <3>1. InStep(run[r], file[p], tmp[p], kept[p]) /\ Follows(run[r], list)
      BY <1>5, <1>7, <2>1 DEF LedgerInv, RecordInv, MirrorInv
    <3>2. file[p] = run[r].data
      BY <1>1, <3>1 DEF InStep
    <3>3. Unmirrored(run[r]) = <<>>
      BY <1>1 DEF Unmirrored
    <3>4. list.tasks = TasksOf(run[r].data.plan)
      BY <1>5, <1>7, <2>1, <3>1, <3>3, NothingLeft
    <3>5. Opened(file[p]).plan = run[r].data.plan
      BY <1>1, <3>2, LedgerAssumption DEF Opened, RunLedgerData
    <3> QED BY <1>5, <2>1, <3>4, <3>5
  <2>2. CASE o # p
    <3>1. \A q \in Runs : run[q].path # o
      BY <1>3, <1>7, <2>2
    <3> QED BY <1>5, <1>7, <3>1 DEF LedgerInv, MirrorInv
  <2> QED BY <2>1, <2>2
<1>8. Counted(list'.tasks, list'.next_id)
  BY <1>5 DEF LedgerInv, MirrorInv
<1>9. MirrorInv'
  BY <1>6, <1>7, <1>8 DEF MirrorInv, Follows, Opened
<1> QED BY <1>2, <1>9

LEMMA CrashKeeps ==
  ASSUME LedgerInv, Crash
  PROVE  RecordInv' /\ MirrorInv'
<1>1. RecordInv'
  BY CrashKeepsRecord DEF LedgerInv
<1>2. list' = EmptyList /\ list'.owner = NoPath /\ NoPath \notin Paths
      /\ contested' = contested
  BY LedgerAssumption DEF Crash, EmptyList
<1>3. ASSUME NEW o \in Paths \ contested', NEW q \in Runs, run'[q].path = o
      PROVE  Follows(run'[q], list')
  <2>1. run'[q] = run[q]
    BY <1>2, <1>3, ClosedRun DEF Crash
  <2>2. Follows(run[q], list)
    BY <1>2, <1>3, <2>1 DEF LedgerInv, MirrorInv
  <2>3. list'.owner # run[q].path
    BY <1>2, <1>3, <2>1
  <2> QED BY <2>1, <2>2, <2>3, OtherFollows
<1>4. Counted(list'.tasks, list'.next_id)
  BY <1>2 DEF EmptyList, Counted
<1>5. MirrorInv'
  BY <1>2, <1>3, <1>4 DEF MirrorInv, Follows, Opened
<1> QED BY <1>1, <1>5

-----------------------------------------------------------------------------
(* The theorems *)

LEMMA LedgerInit == Init => LedgerInv
<1> SUFFICES ASSUME Init PROVE LedgerInv
  OBVIOUS
<1>1. PICK left \in Earlier : list = left.list /\ file = left.file
  BY DEF Init
<1>2. \A r \in Runs : run[r].path = NoPath
  BY DEF Init, NotOpened
<1>3. NoPath \notin Paths
  BY LedgerAssumption
<1>4. RecordInv
  BY <1>2, <1>3 DEF Init, RecordInv
<1>5. Counted(list.tasks, list.next_id)
  BY <1>1, EarlierAssumption
<1>6. \A p \in Paths : list.owner = p => list.tasks = TasksOf(Opened(file[p]).plan)
  <2>1. \A p \in Paths : list.owner = p => list.tasks = TasksOf(PlanIn(file[p]))
    BY <1>1, EarlierAssumption
  <2>2. \A p \in Paths : file[p] \in Content
    BY <1>1, EarlierAssumption
  <2>3. ASSUME NEW content \in Content PROVE Opened(content).plan = PlanIn(content)
    BY <2>3 DEF Opened, PlanIn, Content, RunLedgerData, FreshData
  <2> QED BY <2>1, <2>2, <2>3
<1>7. MirrorInv
  BY <1>2, <1>3, <1>5, <1>6 DEF MirrorInv
<1> QED BY <1>4, <1>7, DataInit DEF LedgerInv

LEMMA LedgerStep == LedgerInv /\ [Next]_vars => LedgerInv'
<1> SUFFICES ASSUME LedgerInv, [Next]_vars PROVE LedgerInv'
  OBVIOUS
<1>1. DataInv'
  BY DataStep DEF LedgerInv
<1>2. CASE UNCHANGED vars
  <2>1. RecordInv'
    BY <1>2 DEF vars, LedgerInv, RecordInv, InStep, Events
  <2>2. MirrorInv'
    BY <1>2 DEF vars, LedgerInv, MirrorInv, Follows, Unmirrored, Opened
  <2> QED BY <1>1, <2>1, <2>2 DEF LedgerInv
<1>3. CASE Crash
  BY <1>1, <1>3, CrashKeeps DEF LedgerInv
<1>4. ASSUME NEW r \in Runs, RunStep(r) PROVE RecordInv' /\ MirrorInv'
  <2>1. CASE SaveStep(r)
    BY <2>1, SavingKeeps
  <2>2. CASE OpenLedger(r) \/ Register(r) \/ RecordRouting(r)
    BY <2>2, OpenKeeps, RegisterKeeps, RoutingKeeps
  <2>3. CASE ExecuteTool(r) \/ ExecutePlanCall(r)
    BY <2>3, ToolKeeps, PlanCallKeeps
  <2>4. CASE RecordStep(r)
    BY <2>4, RecordPlanCallKeeps, RecordEventKeeps DEF RecordStep
  <2>5. CASE LoopCancelled(r) \/ LoopFailed(r) \/ TurnAnswered(r)
    BY <2>5, CancelledKeeps, FailedKeeps, AnsweredKeeps
  <2>6. CASE AttemptStep(r)
    BY <2>6, BeginKeeps, CapKeeps, CancelledBetweenKeeps, AttemptKeeps DEF AttemptStep
  <2>7. CASE Finalize(r) \/ Unregister(r)
    BY <2>7, FinalizeKeeps, UnregisterKeeps
  <2> QED BY <1>4, <2>1, <2>2, <2>3, <2>4, <2>5, <2>6, <2>7 DEF RunStep
<1> QED BY <1>1, <1>2, <1>3, <1>4 DEF Next, LedgerInv

LEMMA LedgerInvariant == Spec => []LedgerInv
BY LedgerInit, LedgerStep, PTL DEF Spec

\* Every ledger, in memory or in a file, is one: its events end at the limit,
\* evidence is of events, and its steps' numbers grow (load_or_default,
\* record_tool_event, mirror_task_plan).
THEOREM TypeCorrect == Spec => []TypeOK
<1>1. LedgerInv => TypeOK
  BY DataInvImplies DEF LedgerInv
<1> QED BY <1>1, LedgerInvariant, PTL

\* What a ledger marks verified was earned, and an autonomous run is completed
\* only when its plan is done (verify_steps, finalize).
THEOREM ProofIsEarned == Spec => []NothingIsDoneUnproved
<1>1. LedgerInv => NothingIsDoneUnproved
  <2> SUFFICES ASSUME LedgerInv PROVE NothingIsDoneUnproved
    OBVIOUS
  <2>1. \A p \in Paths : file[p] \in RunLedgerData => Honest(file[p])
    BY DEF LedgerInv, DataInv, FilesInv, Kept, Sound
  <2>2. \A r \in Runs : Honest(run[r].data)
    BY DEF LedgerInv, DataInv, RunsInv, RunInv, Sound
  <2>3. \A p \in OwnPaths :
           file[p] \in RunLedgerData /\ file[p].status = "completed" => Done(file[p])
    BY DEF LedgerInv, DataInv, FilesInv, Ended, Truthful
  <2> QED BY <2>1, <2>2, <2>3 DEF NothingIsDoneUnproved
<1> QED BY <1>1, LedgerInvariant, PTL

\* Between two operations a file is what its run has in memory, and it holds
\* every event that was recorded, whatever opened, crashed and closed before;
\* so does what the inspector shows (save, open_or_create, load_snapshot).
THEOREM RecordIsKept == Spec => []FileKeepsTheRecord
<1>1. LedgerInv => FileKeepsTheRecord
  BY RecordInvImplies DEF LedgerInv
<1> QED BY <1>1, LedgerInvariant, PTL

\* The list that the model updates is the plan that the verifier checks, number
\* by number and read as the tool reads its steps, whatever zeros, patterns and
\* spaces the calls name, as long as one file's runs change it (task_plan,
\* mirror_task_plan).
THEOREM PlanIsTheList == Spec => []PlanMirrorsList
<1>1. LedgerInv => PlanMirrorsList
  <2> SUFFICES ASSUME LedgerInv, NEW r \in Runs, Ready(r, "working"),
                      run[r].outcomes = <<>>, list.owner = run[r].path,
                      run[r].path \notin contested
               PROVE  list.tasks = TasksOf(run[r].data.plan)
    BY DEF PlanMirrorsList
  <2>1. run[r].path \in Paths
    BY RunPath DEF LedgerInv, Ready
  <2>2. Follows(run[r], list)
    BY <2>1 DEF LedgerInv, MirrorInv
  <2>3. Unmirrored(run[r]) = <<>>
    BY DEF Unmirrored
  <2> QED BY <2>2, <2>3, NothingLeft
<1> QED BY <1>1, LedgerInvariant, PTL

=============================================================================
