---------------------------- MODULE RunPageProofs ----------------------------
(***************************************************************************)
(* Theorems about module RunPage, for every set of jobs, every history of  *)
(* the run, every horizon, every skew of the browser's clock, and every    *)
(* number of overlapping fetches and of failing requests.                  *)
(***************************************************************************)
EXTENDS RunPage, FiniteSetTheorems, WellFoundedInduction, TLAPS

-----------------------------------------------------------------------------
(* Finite sets: images, extreme elements, and counting.                    *)

\* A family of subsets of a finite set has a member with no smaller member.
LEMMA SmallestSubset ==
  ASSUME NEW S, IsFiniteSet(S), NEW Bad \in SUBSET (SUBSET S), Bad # {}
  PROVE  \E T \in Bad : \A U \in Bad : U \subseteq T => U = T
<1> DEFINE R == StrictSubsetOrdering(S)
<1>1. IsWellFoundedOn(R, SUBSET S)
  BY FS_StrictSubsetOrderingWellFounded, FS_FiniteSubsetsOfFinite
<1>2. \E T \in Bad : \A U \in Bad : ~(<<U, T>> \in R)
  <2> HIDE DEF R
  <2> QED
    BY <1>1, WFMin
<1>3. PICK T \in Bad : \A U \in Bad : ~(<<U, T>> \in R)
  BY <1>2
<1>4. ASSUME NEW U \in Bad, U \subseteq T, U # T PROVE FALSE
  BY <1>3, <1>4 DEF StrictSubsetOrdering
<1> QED
  BY <1>4

LEMMA ValuesFinite ==
  ASSUME NEW S, IsFiniteSet(S), NEW f, DOMAIN f = S
  PROVE  IsFiniteSet({f[x] : x \in S})
<1> DEFINE T == {f[x] : x \in S}
           g == [x \in S |-> f[x]]
<1>1. g \in Surjection(S, T)
  BY DEF Surjection
<1> HIDE DEF T, g
<1>2. IsFiniteSet(T)
  BY <1>1, FS_Surjection
<1> QED
  BY <1>2 DEF T

\* A finite set of integers has a largest element; so Max is what it says.
LEMMA MaxIsLargest ==
  ASSUME NEW S, IsFiniteSet(S), S # {}, \A x \in S : x \in Int
  PROVE  Max(S) \in S /\ \A y \in S : y <= Max(S)
<1> DEFINE Bad == {T \in SUBSET S : T # {} /\ ~\E x \in T : \A y \in T : x >= y}
<1>1. Bad = {}
  <2> SUFFICES ASSUME Bad # {} PROVE FALSE
    OBVIOUS
  <2>1. PICK T \in Bad : \A U \in Bad : U \subseteq T => U = T
    <3>1. Bad \in SUBSET (SUBSET S)
      OBVIOUS
    <3> HIDE DEF Bad
    <3> QED
      BY <3>1, SmallestSubset
  <2>2. PICK x \in T : TRUE
    OBVIOUS
  <2>3. T \ {x} # {}
    <3>1. T = {x} => \E z \in T : \A y \in T : z >= y
      BY <2>2
    <3> QED
      BY <2>2, <3>1
  <2>4. T \ {x} \notin Bad /\ T \ {x} \in SUBSET S
    BY <2>1, <2>2
  <2>5. PICK z \in T \ {x} : \A y \in T \ {x} : z >= y
    BY <2>3, <2>4
  <2>6. x \in Int /\ z \in Int
    BY <2>2, <2>5
  <2>7. \E w \in T : \A y \in T : w >= y
    <3>1. CASE z >= x
      BY <2>5, <3>1
    <3>2. CASE x >= z
      <4>1. \A y \in T : x >= y
        BY <2>5, <2>6, <3>2
      <4> QED
        BY <2>2, <4>1
    <3> QED
      BY <2>6, <3>1, <3>2
  <2> QED
    BY <2>7
<1>2. \E x \in S : \A y \in S : x >= y
  BY <1>1
<1>3. Max(S) \in S /\ \A y \in S : Max(S) >= y
  BY <1>2 DEF Max
<1> QED
  BY <1>3

LEMMA MinIsSmallest ==
  ASSUME NEW S, IsFiniteSet(S), S # {}, \A x \in S : x \in Int
  PROVE  Min(S) \in S /\ \A y \in S : Min(S) <= y
<1> DEFINE f == [x \in S |-> -x]
           N == {f[x] : x \in S}
<1>1. IsFiniteSet(N)
  BY ValuesFinite
<1>2. N # {} /\ \A x \in N : x \in Int
  <2>1. \A x \in S : f[x] \in Int
    OBVIOUS
  <2> QED
    BY <2>1
<1>3. Max(N) \in N /\ \A y \in N : y <= Max(N)
  <2> HIDE DEF N
  <2> QED
    BY <1>1, <1>2, MaxIsLargest
<1>4. PICK x \in S : Max(N) = -x
  BY <1>3
<1>5. \A y \in S : -y <= -x
  <2>1. \A y \in S : f[y] = -y /\ f[y] \in N
    OBVIOUS
  <2> HIDE DEF f, N
  <2> QED
    BY <1>3, <1>4, <2>1
<1>6. \E z \in S : \A y \in S : z =< y
  BY <1>5
<1> QED
  BY <1>6 DEF Min

LEMMA EmptyCounts == Cardinality({}) = 0
BY FS_EmptySet

LEMMA PartCounts ==
  ASSUME NEW S, IsFiniteSet(S), NEW T \in SUBSET S
  PROVE  IsFiniteSet(T) /\ Cardinality(T) \in Nat /\ Cardinality(T) <= Cardinality(S)
BY FS_Subset, FS_CardinalityType

LEMMA DisjointCounts ==
  ASSUME NEW S, IsFiniteSet(S), NEW A \in SUBSET S, NEW B \in SUBSET S, A \cap B = {}
  PROVE  /\ Cardinality(A \cup B) = Cardinality(A) + Cardinality(B)
         /\ Cardinality(A) \in Nat /\ Cardinality(B) \in Nat /\ Cardinality(A \cup B) \in Nat
<1>1. /\ IsFiniteSet(A) /\ Cardinality(A) \in Nat
      /\ IsFiniteSet(B) /\ Cardinality(B) \in Nat
  BY PartCounts
<1>2. Cardinality(A \cup B) = Cardinality(A) + Cardinality(B) - Cardinality(A \cap B)
  BY <1>1, FS_Union
<1> QED
  BY <1>1, <1>2, EmptyCounts

-----------------------------------------------------------------------------
(* The peak of parallelism.                                                *)

Started(m) == {j \in DOMAIN m : m[j].isStarted}

\* The bars over moment t; those without length that have started by then;
\* and those that have ended by then and not started.
OpenAt(m, t)  == {j \in Started(m) : m[j].start <= t /\ t < m[j].end}
EmptyAt(m, t) == {j \in Started(m) : m[j].start <= t /\ m[j].end <= m[j].start}
LateAt(m, t)  == {j \in Started(m) : m[j].end <= t /\ t < m[j].start}
Empties(m)    == {j \in Started(m) : m[j].end <= m[j].start}
Late(m)       == {j \in Started(m) : m[j].end < m[j].start}

AreBars(m) ==
  /\ IsFiniteSet(DOMAIN m)
  /\ \A j \in DOMAIN m :
       /\ m[j].isStarted => m[j].start \in Nat /\ m[j].end \in Nat
       /\ ~m[j].isStarted => m[j].start = NoTime /\ m[j].end = NoTime

\* What the count along the bars is worth once it has passed moment t; K is
\* the largest number of bars over one moment.
Passed(m, acc, t, K) ==
  /\ acc.active \in Nat /\ acc.peak \in Nat /\ acc.active <= acc.peak
  /\ acc.active <= Cardinality(OpenAt(m, t)) + Cardinality(EmptyAt(m, t))
  /\ Cardinality(OpenAt(m, t)) <= acc.active + Cardinality(LateAt(m, t))
  /\ acc.peak <= K + Cardinality(Empties(m))
  /\ \A x \in Int : x <= t => Cardinality(OpenAt(m, x)) <= acc.peak + Cardinality(Late(m))

LEMMA BarsCount ==
  ASSUME NEW m, AreBars(m), NEW t
  PROVE  /\ IsFiniteSet(Started(m))
         /\ Cardinality(OpenAt(m, t)) \in Nat /\ Cardinality(EmptyAt(m, t)) \in Nat
         /\ Cardinality(LateAt(m, t)) \in Nat
         /\ Cardinality(Empties(m)) \in Nat /\ Cardinality(Late(m)) \in Nat
<1>1. IsFiniteSet(Started(m))
  BY PartCounts DEF AreBars, Started
<1>2. /\ OpenAt(m, t) \in SUBSET Started(m) /\ EmptyAt(m, t) \in SUBSET Started(m)
      /\ LateAt(m, t) \in SUBSET Started(m) /\ Empties(m) \in SUBSET Started(m)
      /\ Late(m) \in SUBSET Started(m)
  BY DEF OpenAt, EmptyAt, LateAt, Empties, Late
<1> QED
  BY <1>1, <1>2, PartCounts

\* Passing a moment: the bars that start or end at it, by where their other
\* end lies.
LEMMA MomentPassed ==
  ASSUME NEW m, AreBars(m), NEW t \in Int, NEW K \in Nat, Cardinality(OpenAt(m, t)) <= K,
         NEW acc, Passed(m, acc, t - 1, K)
  PROVE  Passed(m, PassMoment(m, acc, t), t, K)
<1> DEFINE S  == Started(m)
           OS == {j \in S : m[j].start = t /\ t < m[j].end}
           OE == {j \in S : m[j].end = t /\ m[j].start < t}
           E0 == {j \in S : m[j].start = t /\ m[j].end = t}
           EL == {j \in S : m[j].end = t /\ t < m[j].start}
           SL == {j \in S : m[j].start = t /\ m[j].end < t}
           starts == {j \in DOMAIN m : m[j].isStarted /\ m[j].start = t}
           ends   == {j \in DOMAIN m : m[j].isStarted /\ m[j].end = t}
<1>0. IsFiniteSet(S) /\ \A j \in S : m[j].start \in Nat /\ m[j].end \in Nat
  BY BarsCount DEF AreBars, Started
<1>1. Cardinality(starts) = Cardinality(OS) + Cardinality(E0) + Cardinality(SL)
  <2>1. starts = OS \cup (E0 \cup SL)
    BY <1>0 DEF Started
  <2>2. OS \cap (E0 \cup SL) = {} /\ E0 \cap SL = {}
    BY <1>0
  <2>3. OS \in SUBSET S /\ E0 \in SUBSET S /\ SL \in SUBSET S /\ E0 \cup SL \in SUBSET S
    OBVIOUS
  <2> HIDE DEF S, OS, E0, SL, starts
  <2>4. Cardinality(starts) = Cardinality(OS) + Cardinality(E0 \cup SL)
    BY <1>0, <2>1, <2>2, <2>3, DisjointCounts
  <2>5. Cardinality(E0 \cup SL) = Cardinality(E0) + Cardinality(SL)
    BY <1>0, <2>2, <2>3, DisjointCounts
  <2>6. Cardinality(OS) \in Nat /\ Cardinality(E0) \in Nat /\ Cardinality(SL) \in Nat
    BY <1>0, <2>3, PartCounts
  <2> QED
    BY <2>4, <2>5, <2>6
<1>2. Cardinality(ends) = Cardinality(OE) + Cardinality(E0) + Cardinality(EL)
  <2>1. ends = OE \cup (E0 \cup EL)
    BY <1>0 DEF Started
  <2>2. OE \cap (E0 \cup EL) = {} /\ E0 \cap EL = {}
    BY <1>0
  <2>3. OE \in SUBSET S /\ E0 \in SUBSET S /\ EL \in SUBSET S /\ E0 \cup EL \in SUBSET S
    OBVIOUS
  <2> HIDE DEF S, OE, E0, EL, ends
  <2>4. Cardinality(ends) = Cardinality(OE) + Cardinality(E0 \cup EL)
    BY <1>0, <2>1, <2>2, <2>3, DisjointCounts
  <2>5. Cardinality(E0 \cup EL) = Cardinality(E0) + Cardinality(EL)
    BY <1>0, <2>2, <2>3, DisjointCounts
  <2>6. Cardinality(OE) \in Nat /\ Cardinality(E0) \in Nat /\ Cardinality(EL) \in Nat
    BY <1>0, <2>3, PartCounts
  <2> QED
    BY <2>4, <2>5, <2>6
<1>3. /\ Cardinality(OpenAt(m, t - 1)) + Cardinality(OS)
           = Cardinality(OpenAt(m, t)) + Cardinality(OE)
      /\ Cardinality(OE) <= Cardinality(OpenAt(m, t - 1))
      /\ Cardinality(OS) <= Cardinality(OpenAt(m, t))
  <2> DEFINE O == OpenAt(m, t - 1)
             P == OpenAt(m, t)
  <2>1. O \cup OS = P \cup OE
    BY <1>0 DEF OpenAt
  <2>2. O \cap OS = {} /\ P \cap OE = {} /\ OE \subseteq O /\ OS \subseteq P
    BY <1>0 DEF OpenAt
  <2>3. O \in SUBSET S /\ OS \in SUBSET S /\ P \in SUBSET S /\ OE \in SUBSET S
    BY DEF OpenAt
  <2> HIDE DEF S, O, P, OS, OE
  <2>4. Cardinality(O \cup OS) = Cardinality(O) + Cardinality(OS)
    BY <1>0, <2>2, <2>3, DisjointCounts
  <2>5. Cardinality(P \cup OE) = Cardinality(P) + Cardinality(OE)
    BY <1>0, <2>2, <2>3, DisjointCounts
  <2>6. IsFiniteSet(O) /\ IsFiniteSet(P)
    BY <1>0, <2>3, PartCounts
  <2>7. Cardinality(OE) <= Cardinality(O) /\ Cardinality(OS) <= Cardinality(P)
    BY <2>2, <2>6, PartCounts
  <2> QED
    BY <2>1, <2>4, <2>5, <2>7 DEF O, P
<1>4. Cardinality(EmptyAt(m, t))
        = Cardinality(EmptyAt(m, t - 1)) + Cardinality(E0) + Cardinality(SL)
  <2> DEFINE E == EmptyAt(m, t - 1)
             F == EmptyAt(m, t)
  <2>1. F = E \cup (E0 \cup SL) /\ E \cap (E0 \cup SL) = {} /\ E0 \cap SL = {}
    BY <1>0 DEF EmptyAt
  <2>2. E \in SUBSET S /\ E0 \in SUBSET S /\ SL \in SUBSET S /\ E0 \cup SL \in SUBSET S
    BY DEF EmptyAt
  <2> HIDE DEF S, E, F, E0, SL
  <2>3. Cardinality(F) = Cardinality(E) + Cardinality(E0 \cup SL)
    BY <1>0, <2>1, <2>2, DisjointCounts
  <2>4. Cardinality(E0 \cup SL) = Cardinality(E0) + Cardinality(SL)
    BY <1>0, <2>1, <2>2, DisjointCounts
  <2>5. Cardinality(E) \in Nat /\ Cardinality(E0) \in Nat /\ Cardinality(SL) \in Nat
    BY <1>0, <2>2, PartCounts
  <2>6. Cardinality(F) = Cardinality(E) + Cardinality(E0) + Cardinality(SL)
    BY <2>3, <2>4, <2>5
  <2> QED
    BY <2>6 DEF E, F
<1>5. Cardinality(LateAt(m, t - 1)) + Cardinality(EL) = Cardinality(LateAt(m, t)) + Cardinality(SL)
  <2> DEFINE L == LateAt(m, t - 1)
             M == LateAt(m, t)
  <2>1. L \cup EL = M \cup SL /\ L \cap EL = {} /\ M \cap SL = {}
    BY <1>0 DEF LateAt
  <2>2. L \in SUBSET S /\ EL \in SUBSET S /\ M \in SUBSET S /\ SL \in SUBSET S
    BY DEF LateAt
  <2> HIDE DEF S, L, M, EL, SL
  <2>3. Cardinality(L \cup EL) = Cardinality(L) + Cardinality(EL)
    BY <1>0, <2>1, <2>2, DisjointCounts
  <2>4. Cardinality(M \cup SL) = Cardinality(M) + Cardinality(SL)
    BY <1>0, <2>1, <2>2, DisjointCounts
  <2> QED
    BY <2>1, <2>3, <2>4 DEF L, M
<1>6. /\ Cardinality(OS) \in Nat /\ Cardinality(OE) \in Nat /\ Cardinality(E0) \in Nat
      /\ Cardinality(EL) \in Nat /\ Cardinality(SL) \in Nat
  BY <1>0, PartCounts
<1>7. /\ Cardinality(OpenAt(m, t)) \in Nat /\ Cardinality(OpenAt(m, t - 1)) \in Nat
      /\ Cardinality(EmptyAt(m, t)) \in Nat /\ Cardinality(EmptyAt(m, t - 1)) \in Nat
      /\ Cardinality(LateAt(m, t)) \in Nat /\ Cardinality(LateAt(m, t - 1)) \in Nat
      /\ Cardinality(Empties(m)) \in Nat /\ Cardinality(Late(m)) \in Nat
  BY BarsCount
<1>8. /\ Cardinality(EmptyAt(m, t)) <= Cardinality(Empties(m))
      /\ Cardinality(LateAt(m, t)) <= Cardinality(Late(m))
  <2>1. /\ EmptyAt(m, t) \in SUBSET Empties(m) /\ LateAt(m, t) \in SUBSET Late(m)
        /\ Empties(m) \in SUBSET S /\ Late(m) \in SUBSET S
    BY <1>0 DEF EmptyAt, Empties, LateAt, Late
  <2>2. IsFiniteSet(Empties(m)) /\ IsFiniteSet(Late(m))
    BY <1>0, <2>1, PartCounts
  <2> QED
    BY <2>1, <2>2, PartCounts
<1> DEFINE ended  == AtLeastZero(acc.active - Cardinality(ends))
           active == ended + Cardinality(starts)
           peak   == Max({acc.peak, active})
<1>9. PassMoment(m, acc, t) = [active |-> active, peak |-> peak]
  BY DEF PassMoment, Count
<1>10. /\ acc.active \in Nat /\ acc.peak \in Nat
       /\ acc.active <= Cardinality(OpenAt(m, t - 1)) + Cardinality(EmptyAt(m, t - 1))
       /\ Cardinality(OpenAt(m, t - 1)) <= acc.active + Cardinality(LateAt(m, t - 1))
       /\ acc.peak <= K + Cardinality(Empties(m))
  BY DEF Passed
<1>11. \A x \in Int : x <= t - 1 => Cardinality(OpenAt(m, x)) <= acc.peak + Cardinality(Late(m))
  BY DEF Passed
<1> HIDE DEF S, OS, OE, E0, EL, SL, starts, ends
<1>12. /\ active \in Nat
       /\ active <= Cardinality(OpenAt(m, t)) + Cardinality(EmptyAt(m, t))
       /\ Cardinality(OpenAt(m, t)) <= active + Cardinality(LateAt(m, t))
  BY <1>1, <1>2, <1>3, <1>4, <1>5, <1>6, <1>7, <1>10 DEF AtLeastZero
<1> HIDE DEF active
<1>13. peak \in {acc.peak, active} /\ acc.peak <= peak /\ active <= peak
  <2> DEFINE T == {acc.peak, active}
  <2>1. IsFiniteSet(T) /\ T # {} /\ \A x \in T : x \in Int
    <3>1. IsFiniteSet({acc.peak} \cup {active})
      BY FS_Singleton, FS_Union
    <3>2. T = {acc.peak} \cup {active}
      OBVIOUS
    <3> QED
      BY <1>10, <1>12, <3>1, <3>2
  <2>2. Max(T) \in T /\ \A y \in T : y <= Max(T)
    <3> HIDE DEF T
    <3> QED
      BY <2>1, MaxIsLargest
  <2> QED
    BY <2>2
<1> HIDE DEF peak
<1>14. peak \in Nat /\ peak <= K + Cardinality(Empties(m))
  BY <1>7, <1>8, <1>10, <1>12, <1>13
<1>15. ASSUME NEW x \in Int, x <= t
       PROVE  Cardinality(OpenAt(m, x)) <= peak + Cardinality(Late(m))
  <2>0. Cardinality(OpenAt(m, x)) \in Nat
    BY BarsCount
  <2>1. CASE x <= t - 1
    BY <1>7, <1>10, <1>11, <1>13, <1>14, <2>0, <2>1
  <2>2. CASE x = t
    BY <1>7, <1>8, <1>12, <1>13, <1>14, <2>2
  <2> QED
    BY <1>15, <2>1, <2>2
<1> QED
  BY <1>9, <1>12, <1>13, <1>14, <1>15 DEF Passed

\* g is the count along the bars, for every set of moments passed.
Count0 == [active |-> 0, peak |-> 0]
Counts(g, S, m) ==
  g = [s \in SUBSET S |-> IF s = {} THEN Count0 ELSE PassMoment(m, g[s \ {Max(s)}], Max(s))]

LEMMA PeakIsCounted ==
  ASSUME NEW m
  PROVE  MaxParallelJobs(m) = (CHOOSE g : Counts(g, Turns(m), m))[Turns(m)].peak
BY DEF MaxParallelJobs, MapThenFoldSet, Counts, Count0

LEMMA LastMoment ==
  ASSUME NEW S, IsFiniteSet(S), \A x \in S : x \in Int, NEW s \in SUBSET S, s # {}
  PROVE  Max(s) \in s /\ \A y \in s : y <= Max(s)
<1>1. IsFiniteSet(s)
  BY FS_Subset
<1> QED
  BY <1>1, MaxIsLargest

LEMMA CountsAgree ==
  ASSUME NEW S, IsFiniteSet(S), \A x \in S : x \in Int, NEW m, NEW g, NEW h,
         NEW T \in SUBSET S, NEW U \in SUBSET T, Counts(g, S, m), Counts(h, T, m)
  PROVE  g[U] = h[U]
<1> DEFINE Bad == {s \in SUBSET T : g[s] # h[s]}
<1> SUFFICES ASSUME Bad # {} PROVE FALSE
  OBVIOUS
<1>1. PICK s \in Bad : \A t \in Bad : t \subseteq s => t = s
  <2>1. Bad \in SUBSET (SUBSET T) /\ IsFiniteSet(T)
    BY FS_Subset
  <2> HIDE DEF Bad
  <2> QED
    BY <2>1, SmallestSubset
<1>2. s # {}
  BY DEF Counts
<1> DEFINE t == s \ {Max(s)}
<1>3. t \in SUBSET T /\ t # s /\ t \subseteq s
  BY <1>2, LastMoment
<1>4. g[t] = h[t]
  BY <1>1, <1>3
<1>5. g[s] = PassMoment(m, g[t], Max(s)) /\ h[s] = PassMoment(m, h[t], Max(s))
  BY <1>2 DEF Counts
<1> QED
  BY <1>4, <1>5

LEMMA CountExists ==
  ASSUME NEW S, IsFiniteSet(S), \A x \in S : x \in Int, NEW m
  PROVE  \E g : Counts(g, S, m)
<1> DEFINE Bad == {T \in SUBSET S : ~\E g : Counts(g, T, m)}
<1> SUFFICES ASSUME Bad # {} PROVE FALSE
  OBVIOUS
<1>1. PICK T \in Bad : \A U \in Bad : U \subseteq T => U = T
  <2>1. Bad \in SUBSET (SUBSET S)
    OBVIOUS
  <2> HIDE DEF Bad
  <2> QED
    BY <2>1, SmallestSubset
<1> DEFINE G(U) == CHOOSE g : Counts(g, U, m)
           Before(s) == s \ {Max(s)}
           Value(s) == IF s = {} THEN Count0
                       ELSE PassMoment(m, G(Before(s))[Before(s)], Max(s))
           g == [s \in SUBSET T |-> Value(s)]
<1>2. \A U \in SUBSET T : U # T => Counts(G(U), U, m)
  BY <1>1
<1>3. \A s \in SUBSET T : s # {} => Max(s) \in s /\ Before(s) \in SUBSET s /\ Before(s) # s
  BY LastMoment
<1>4. ASSUME NEW s \in SUBSET T, s # {}
      PROVE  G(Before(s))[Before(s)] = Value(Before(s))
  <2> DEFINE t == Before(s)
             v == Before(t)
  <2>1. t \in SUBSET T /\ t # T
    BY <1>3, <1>4
  <2>2. Counts(G(t), t, m)
    BY <1>2, <2>1
  <2>3. CASE t = {}
    BY <2>2, <2>3 DEF Counts
  <2>4. CASE t # {}
    <3>1. v \in SUBSET t /\ v \in SUBSET T /\ v # T
      BY <1>3, <2>1, <2>4
    <3>2. Counts(G(v), v, m)
      BY <1>2, <3>1
    <3>3. IsFiniteSet(t) /\ \A x \in t : x \in Int
      BY <2>1, FS_Subset
    <3>4. G(t)[t] = PassMoment(m, G(t)[t \ {Max(t)}], Max(t))
      BY <2>2, <2>4 DEF Counts
    <3>5. v = t \ {Max(t)}
      OBVIOUS
    <3> HIDE DEF G, t, v, Before
    <3>6. G(t)[v] = G(v)[v]
      BY <2>2, <3>1, <3>2, <3>3, CountsAgree
    <3> QED
      BY <2>4, <3>4, <3>5, <3>6 DEF t, v
  <2> QED
    BY <2>3, <2>4
<1>5. Counts(g, T, m)
  <2>1. ASSUME NEW s \in SUBSET T
        PROVE  Value(s) = IF s = {} THEN Count0 ELSE PassMoment(m, g[s \ {Max(s)}], Max(s))
    <3>1. CASE s = {}
      BY <3>1
    <3>2. CASE s # {}
      <4>1. Before(s) \in SUBSET T /\ Before(s) = s \ {Max(s)}
        OBVIOUS
      <4>2. g[Before(s)] = Value(Before(s))
        BY <4>1
      <4>3. g[Before(s)] = G(Before(s))[Before(s)]
        BY <1>4, <3>2, <4>2
      <4>4. Value(s) = PassMoment(m, G(Before(s))[Before(s)], Max(s))
        BY <3>2
      <4> HIDE DEF G, g, Value, Before
      <4> QED
        BY <3>2, <4>1, <4>3, <4>4
    <3> QED
      BY <3>1, <3>2
  <2> HIDE DEF Value
  <2>2. g = [s \in SUBSET T |-> IF s = {} THEN Count0 ELSE PassMoment(m, g[s \ {Max(s)}], Max(s))]
    BY <2>1
  <2> QED
    BY <2>2 DEF Counts
<1> QED
  BY <1>1, <1>5

LEMMA TurnsAreTimes ==
  ASSUME NEW m, AreBars(m)
  PROVE  /\ IsFiniteSet(Turns(m)) /\ \A x \in Turns(m) : x \in Int
         /\ \A j \in Started(m) : m[j].start \in Turns(m) /\ m[j].end \in Turns(m)
<1> DEFINE f == [j \in DOMAIN m |-> m[j].start]
           h == [j \in DOMAIN m |-> m[j].end]
<1>1. IsFiniteSet({f[j] : j \in DOMAIN m}) /\ IsFiniteSet({h[j] : j \in DOMAIN m})
  BY ValuesFinite DEF AreBars
<1>2. /\ {f[j] : j \in DOMAIN m} = {m[j].start : j \in DOMAIN m}
      /\ {h[j] : j \in DOMAIN m} = {m[j].end : j \in DOMAIN m}
  OBVIOUS
<1>3. IsFiniteSet({m[j].start : j \in DOMAIN m} \cup {m[j].end : j \in DOMAIN m})
  BY <1>1, <1>2, FS_Union
<1>4. IsFiniteSet(Turns(m))
  BY <1>3, FS_Subset DEF Turns
<1>5. \A x \in Turns(m) : x \in Int
  BY DEF Turns, AreBars
<1>6. \A j \in Started(m) : m[j].start \in Turns(m) /\ m[j].end \in Turns(m)
  BY DEF Turns, AreBars, Started, NoTime
<1> QED
  BY <1>4, <1>5, <1>6

\* Between two moments at which no bar starts or ends nothing changes.
LEMMA NothingBetween ==
  ASSUME NEW m, AreBars(m), NEW u \in Int, NEW t \in Int,
         \A x \in Turns(m) : x <= u <=> x <= t
  PROVE  OpenAt(m, u) = OpenAt(m, t) /\ EmptyAt(m, u) = EmptyAt(m, t) /\ LateAt(m, u) = LateAt(m, t)
<1>1. \A j \in Started(m) : /\ m[j].start \in Int /\ m[j].end \in Int
                            /\ m[j].start <= u <=> m[j].start <= t
                            /\ m[j].end <= u <=> m[j].end <= t
  BY TurnsAreTimes DEF AreBars, Started
<1>2. \A j \in Started(m) : /\ u < m[j].start <=> t < m[j].start
                            /\ u < m[j].end <=> t < m[j].end
  BY <1>1
<1> QED
  BY <1>1, <1>2 DEF OpenAt, EmptyAt, LateAt

\* The peak that is counted, against the bars over every single moment.
LEMMA PeakBounds ==
  ASSUME NEW m, AreBars(m), NEW K \in Nat,
         \A t \in Int : Cardinality(OpenAt(m, t)) <= K
  PROVE  /\ MaxParallelJobs(m) \in Nat
         /\ MaxParallelJobs(m) <= K + Cardinality(Empties(m))
         /\ \A t \in Int : Cardinality(OpenAt(m, t)) <= MaxParallelJobs(m) + Cardinality(Late(m))
<1> DEFINE S == Turns(m)
           g == CHOOSE g : Counts(g, S, m)
           UpTo(t) == {x \in S : x <= t}
           Good(s) == \A t \in Int : s = UpTo(t) => Passed(m, g[s], t, K)
           Bad == {s \in SUBSET S : ~Good(s)}
<1>1. IsFiniteSet(S) /\ \A x \in S : x \in Int
  BY TurnsAreTimes
<1>2. Counts(g, S, m)
  <2>1. \E h : Counts(h, S, m)
    <3> HIDE DEF S
    <3> QED
      BY <1>1, CountExists
  <2> QED
    BY <2>1
<1>3. MaxParallelJobs(m) = g[S].peak
  BY PeakIsCounted
<1> HIDE DEF g
<1>4. Bad = {}
  <2> SUFFICES ASSUME Bad # {} PROVE FALSE
    OBVIOUS
  <2>1. PICK s \in Bad : \A t \in Bad : t \subseteq s => t = s
    <3>1. Bad \in SUBSET (SUBSET S)
      OBVIOUS
    <3> HIDE DEF Bad, S
    <3> QED
      BY <1>1, <3>1, SmallestSubset
  <2>2. PICK t \in Int : s = UpTo(t) /\ ~Passed(m, g[s], t, K)
    OBVIOUS
  <2>3. CASE s = {}
    <3>1. g[s] = Count0
      BY <1>2, <2>3 DEF Counts
    <3>2. \A j \in Started(m) : m[j].start \in Int /\ m[j].end \in Int /\ t < m[j].start /\ t < m[j].end
      BY <2>2, <2>3, TurnsAreTimes DEF AreBars, Started
    <3>3. EmptyAt(m, t) = {} /\ LateAt(m, t) = {} /\ \A x \in Int : x <= t => OpenAt(m, x) = {}
      BY <3>2 DEF EmptyAt, LateAt, OpenAt
    <3>4. Cardinality(Empties(m)) \in Nat /\ Cardinality(Late(m)) \in Nat
      BY BarsCount
    <3>5. /\ g[s].active = 0 /\ g[s].peak = 0
          /\ Cardinality(OpenAt(m, t)) = 0 /\ Cardinality(EmptyAt(m, t)) = 0
          /\ Cardinality(LateAt(m, t)) = 0
      BY <3>1, <3>3, EmptyCounts DEF Count0
    <3>6. \A x \in Int : x <= t => Cardinality(OpenAt(m, x)) = 0
      BY <3>3, EmptyCounts
    <3>7. Passed(m, g[s], t, K)
      BY <3>4, <3>5, <3>6 DEF Passed
    <3> QED
      BY <2>2, <3>7
  <2>4. CASE s # {}
    <3> DEFINE u == Max(s)
               r == s \ {u}
    <3>1. u \in s /\ \A y \in s : y <= u
      <4> HIDE DEF S
      <4> QED
        BY <1>1, <2>1, <2>4, LastMoment
    <3>2. u \in Int /\ u <= t /\ u \in S
      BY <1>1, <2>2, <3>1
    <3>3. r \in SUBSET S /\ r \subseteq s /\ r # s
      BY <2>2, <3>1
    <3>9. r = UpTo(u - 1)
      <4> HIDE DEF u
      <4>1. \A x \in S : x \in s <=> x <= t
        BY <2>2
      <4>2. \A x \in S : x \in Int /\ (x \in s => x <= u)
        BY <1>1, <3>1
      <4>3. \A x \in S : (x \in s /\ x # u) <=> x <= u - 1
        BY <3>2, <4>1, <4>2
      <4> QED
        BY <3>3, <4>3
    <3>10. Good(r)
      <4> HIDE DEF u, r, Good
      <4> QED
        BY <2>1, <3>3
    <3>4. g[s] = PassMoment(m, g[r], u)
      BY <1>2, <2>4 DEF Counts
    <3> HIDE DEF u, r
    <3>5. Passed(m, g[r], u - 1, K)
      <4> HIDE DEF UpTo
      <4>1. u - 1 \in Int
        BY <3>2
      <4> QED
        BY <3>9, <3>10, <4>1
    <3>6. Passed(m, g[s], u, K)
      BY <3>2, <3>4, <3>5, MomentPassed
    <3>7. ASSUME NEW x \in Int, u <= x, x <= t
          PROVE  /\ OpenAt(m, x) = OpenAt(m, u) /\ EmptyAt(m, x) = EmptyAt(m, u)
                 /\ LateAt(m, x) = LateAt(m, u)
      <4>1. \A y \in S : y <= u <=> y <= x
        <5>1. \A y \in S : y \in Int /\ (y <= t => y \in s)
          BY <1>1, <2>2
        <5>2. \A y \in S : y <= t => y <= u
          BY <3>1, <5>1
        <5> HIDE DEF S
        <5>3. ASSUME NEW y \in S
              PROVE  y <= u <=> y <= x
          BY <3>2, <3>7, <5>1, <5>2
        <5> QED
          BY <5>3
      <4> QED
        BY <3>2, <4>1, NothingBetween
    <3>8. Passed(m, g[s], t, K)
      <4>1. ASSUME NEW x \in Int, x <= t
            PROVE  Cardinality(OpenAt(m, x)) <= g[s].peak + Cardinality(Late(m))
        <5>1. CASE x <= u
          BY <3>6, <5>1 DEF Passed
        <5>2. CASE u <= x
          <6>1. Cardinality(OpenAt(m, u)) <= g[s].peak + Cardinality(Late(m))
            BY <3>2, <3>6 DEF Passed
          <6> QED
            BY <3>7, <4>1, <5>2, <6>1
        <5> QED
          BY <3>2, <5>1, <5>2
      <4>2. /\ OpenAt(m, t) = OpenAt(m, u) /\ EmptyAt(m, t) = EmptyAt(m, u)
            /\ LateAt(m, t) = LateAt(m, u)
        BY <3>2, <3>7
      <4> QED
        BY <3>6, <4>1, <4>2 DEF Passed
    <3> QED
      BY <2>2, <3>8
  <2> QED
    BY <2>3, <2>4
<1>5. PICK t \in Int : S = UpTo(t)
  <2>1. CASE S = {}
    BY <2>1
  <2>2. CASE S # {}
    <3>1. Max(S) \in S /\ \A y \in S : y <= Max(S)
      <4> HIDE DEF S
      <4> QED
        BY <1>1, <2>2, MaxIsLargest
    <3> QED
      BY <1>1, <3>1
  <2> QED
    BY <2>1, <2>2
<1>6. Passed(m, g[S], t, K)
  BY <1>4, <1>5
<1>7. ASSUME NEW x \in Int, ~(x <= t)
      PROVE  OpenAt(m, x) = {}
  BY <1>5, <1>7, TurnsAreTimes DEF OpenAt, AreBars, Started
<1>8. Cardinality(Late(m)) \in Nat
  BY BarsCount
<1> HIDE DEF S, UpTo
<1>9. /\ g[S].peak \in Nat /\ g[S].peak <= K + Cardinality(Empties(m))
      /\ \A x \in Int : x <= t => Cardinality(OpenAt(m, x)) <= g[S].peak + Cardinality(Late(m))
  BY <1>6 DEF Passed
<1>10. ASSUME NEW x \in Int
       PROVE  Cardinality(OpenAt(m, x)) <= g[S].peak + Cardinality(Late(m))
  <2>1. CASE x <= t
    BY <1>9, <2>1
  <2>2. CASE ~(x <= t)
    <3>1. OpenAt(m, x) = {}
      BY <1>7, <2>2
    <3> QED
      BY <1>8, <1>9, <3>1, EmptyCounts
  <2> QED
    BY <2>1, <2>2
<1> QED
  BY <1>3, <1>9, <1>10

-----------------------------------------------------------------------------
(* The inductive invariant.                                                *)

\* What has been read of an ended run was read after its end, its jobs last.
ReadAfterEnd(r) == r.status = "over" => \E t \in plan.run.to..clock : r = RunAt(t)
ReadInOrder(r, a) ==
  r.status = "over" =>
    \E t \in plan.run.to..clock : \E u \in t..clock : r = RunAt(t) /\ a = JobsAt(u)

FetchInv(f) ==
  /\ fetch[f].at \in {"idle", "run", "failed"} => fetch[f].run = NoRun
  /\ fetch[f].at \in {"jobs", "answered"} => ReadAfterEnd(fetch[f].run)
  /\ fetch[f].at = "answered" =>
       ReadInOrder(fetch[f].run, fetch[f].jobs) /\ fetch[f].jobs \in [Jobs -> Rows]

\* The chart is drawn from a row of every job, and by a clock that runs.
ShownInv == run # NoRun => jobs \in [Jobs -> Rows] /\ now \in Nat \ {0}

IInv ==
  TypeOK /\ (\A f \in Fetches : FetchInv(f)) /\ ReadInOrder(run, jobs) /\ ShownInv

-----------------------------------------------------------------------------
(* The server's history.                                                   *)

\* What a request reads is a row of the type the page expects.
LEMMA RowTyped ==
  ASSUME NEW span, span.from \in Moments \cup {Unset}, span.to \in Moments \cup {Unset},
         NEW t \in Moments
  PROVE  RowAt(span, t) \in Rows
BY DEF RowAt, Rows

LEMMA PlanTyped ==
  ASSUME TypeOK
  PROVE  /\ plan \in PossiblePlans /\ plan.run \in RunSpan
         /\ plan.job \in [Jobs -> JobSpan]
         /\ plan.run.to \in Moments /\ plan.run.to # Unset
         /\ plan.run.from \in Moments \cup {Unset} /\ plan.run.again \in Moments \cup {Unset}
         /\ plan.run.to \in Int /\ clock \in Int /\ Horizon \in Moments /\ clock <= Horizon
<1>1. plan \in PossiblePlans
  BY RunPageAssumption DEF TypeOK
<1>2. plan.run \in RunSpan /\ plan.job \in [Jobs -> JobSpan]
  BY <1>1 DEF PossiblePlans
<1>3. /\ plan.run.to \in Moments /\ plan.run.from \in Moments \cup {Unset}
      /\ plan.run.again \in Moments \cup {Unset}
  BY <1>2 DEF RunSpan
<1>4. /\ plan.run.to # Unset /\ plan.run.to \in Int /\ clock \in Int
      /\ Horizon \in Moments /\ clock <= Horizon
  BY <1>3, RunPageAssumption DEF TypeOK, Moments, FirstMoment, Unset
<1> QED
  BY <1>1, <1>2, <1>3, <1>4

\* A run that is read as ended has ended.
LEMMA EndedRunRead ==
  ASSUME TypeOK
  PROVE  RunAt(clock) \in Rows /\ ReadAfterEnd(RunAt(clock))
<1> DEFINE row == RowAt(plan.run, clock)
<1>1. clock \in Moments
  BY DEF TypeOK
<1>2. row \in Rows
  BY <1>1, PlanTyped, RowTyped
<1>3. RunAt(clock) \in Rows
  <2>1. CASE plan.run.again # Unset /\ plan.run.again <= clock
    <3>1. [row EXCEPT !.finished = plan.run.again] \in Rows
      BY <1>2, PlanTyped DEF Rows
    <3> QED
      BY <2>1, <3>1 DEF RunAt
  <2>2. CASE ~(plan.run.again # Unset /\ plan.run.again <= clock)
    BY <1>2, <2>2 DEF RunAt
  <2> QED
    BY <2>1, <2>2
<1>4. ASSUME RunAt(clock).status = "over"
      PROVE  plan.run.to <= clock
  <2>1. row.status = "over"
    BY <1>2, <1>4 DEF RunAt, Rows
  <2> QED
    BY <2>1 DEF RowAt
<1>5. plan.run.to <= clock => clock \in plan.run.to..clock
  BY PlanTyped
<1> QED
  BY <1>3, <1>4, <1>5 DEF ReadAfterEnd

\* The jobs are read now, which is not before the run was.
LEMMA EndedJobsRead ==
  ASSUME TypeOK, NEW r, ReadAfterEnd(r)
  PROVE  /\ JobsAt(clock) \in [Jobs -> Rows] /\ JobsAt(clock) \in JobRows
         /\ ReadInOrder(r, JobsAt(clock))
<1>1. clock \in Moments /\ clock \in Int /\ plan.run.to \in Int
  BY PlanTyped DEF TypeOK
<1>2. \A j \in Jobs : /\ plan.job[j].from \in Moments \cup {Unset}
                      /\ plan.job[j].to \in Moments \cup {Unset}
  BY PlanTyped DEF JobSpan
<1>3. JobsAt(clock) \in [Jobs -> Rows]
  BY <1>1, <1>2, RowTyped DEF JobsAt
<1>4. \A t \in plan.run.to..clock : clock \in t..clock
  BY <1>1
<1> QED
  BY <1>3, <1>4 DEF JobRows, ReadAfterEnd, ReadInOrder

\* What was read after the end stays so as time passes.
LEMMA StaysRead ==
  ASSUME TypeOK, UNCHANGED plan, clock' \in Int, clock <= clock'
  PROVE  /\ \A t \in plan.run.to..clock : t \in plan.run.to..clock'
         /\ \A t \in plan.run.to..clock : \A u \in t..clock : u \in t..clock'
         /\ \A t : RunAt(t)' = RunAt(t)
         /\ \A t : JobsAt(t)' = JobsAt(t)
<1>1. plan.run.to \in Int /\ clock \in Int
  BY PlanTyped
<1>2. \A t : RunAt(t)' = RunAt(t) /\ JobsAt(t)' = JobsAt(t)
  BY DEF RunAt, JobsAt
<1> QED
  BY <1>1, <1>2

\* The row of a job that ends with its run does not change after the end.
LEMMA RowIsFinal ==
  ASSUME TypeOK, NEW j \in Jobs, EndsWithRun(j), NEW u \in Int, plan.run.to <= u, u <= Horizon
  PROVE  RowAt(plan.job[j], u) = RowAt(plan.job[j], Horizon)
<1> DEFINE s == plan.job[j]
<1>1. s \in JobSpan /\ Horizon \in Int /\ plan.run.to \in Int
  BY PlanTyped, RunPageAssumption
<1>2. s.from = Unset \/ (s.from \in Int /\ s.from <= plan.run.to)
  BY <1>1, PlanTyped DEF PossiblePlans, JobSpan, Moments, FirstMoment
<1>3. s.to = Unset \/ (s.to \in Int /\ s.to <= plan.run.to)
  BY <1>1 DEF EndsWithRun, JobSpan, Moments, FirstMoment
<1> HIDE DEF s
<1>4. RowAt(s, u) = RowAt(s, Horizon)
  <2>1. CASE s.to = Unset
    <3>1. s.from # Unset => s.from <= u /\ s.from <= Horizon
      BY <1>1, <1>2
    <3> QED
      BY <2>1, <3>1 DEF RowAt
  <2>2. CASE s.to # Unset
    <3>1. s.to <= u /\ s.to <= Horizon
      BY <1>1, <1>3, <2>2
    <3> QED
      BY <2>2, <3>1 DEF RowAt
  <2> QED
    BY <2>1, <2>2
<1> QED
  BY <1>4 DEF s

LEMMA EndIsFinal ==
  ASSUME TypeOK, ReadInOrder(run, jobs)
  PROVE  EndedRunShowsEndedJobs
<1> SUFFICES ASSUME run.status = "over"
             PROVE  /\ ShowsEnd
                    /\ \A j \in Jobs : EndsWithRun(j) => jobs[j] = JobsAt(Horizon)[j]
  BY DEF EndedRunShowsEndedJobs
<1>1. PICK t \in plan.run.to..clock : \E u \in t..clock : run = RunAt(t) /\ jobs = JobsAt(u)
  BY DEF ReadInOrder
<1>2. PICK u \in t..clock : run = RunAt(t) /\ jobs = JobsAt(u)
  BY <1>1
<1>3. u \in Int /\ plan.run.to <= u /\ u <= Horizon
  BY <1>1, <1>2, PlanTyped, RunPageAssumption DEF Moments, FirstMoment
<1>4. \A j \in Jobs : EndsWithRun(j) => jobs[j] = JobsAt(Horizon)[j]
  BY <1>2, <1>3, RowIsFinal DEF JobsAt
<1> QED
  BY <1>1, <1>4 DEF ShowsEnd

-----------------------------------------------------------------------------
(* Type correctness.                                                       *)

LEMMA FetchStatesTyped ==
  /\ NoRun \in Rows \cup {NoRun} /\ NoJobs \in JobRows
  /\ Idle \in FetchState /\ Asked \in FetchState
  /\ [Idle EXCEPT !.at = "failed"] \in FetchState
  /\ Idle.at = "idle" /\ Idle.run = NoRun
  /\ Asked.at = "run" /\ Asked.run = NoRun
  /\ [Idle EXCEPT !.at = "failed"].at = "failed" /\ [Idle EXCEPT !.at = "failed"].run = NoRun
BY DEF Idle, Asked, FetchState, JobRows

LEMMA BrowserTyped ==
  ASSUME TypeOK
  PROVE  BrowserNow \in {Unset} \cup {t + s : t \in Moments, s \in Skews}
BY DEF TypeOK, BrowserNow

\* The browser's clock is never as far behind as the zero timestamp.
LEMMA BrowserRuns ==
  ASSUME TypeOK
  PROVE  BrowserNow \in Nat \ {0}
<1>1. clock \in Int /\ FirstMoment <= clock
  BY RunPageAssumption DEF TypeOK, Moments, FirstMoment
<1>2. skew \in Int /\ -FirstMoment < skew
  BY RunPageAssumption DEF TypeOK, Skews, FirstMoment
<1> QED
  BY <1>1, <1>2 DEF BrowserNow, FirstMoment

LEMMA Kept ==
  ASSUME TypeOK
  PROVE  /\ UNCHANGED error => error' \in BOOLEAN
         /\ UNCHANGED faults => faults' \in 0..MaxFaults
         /\ UNCHANGED run => run' \in Rows \cup {NoRun}
         /\ UNCHANGED jobs => jobs' \in JobRows
<1>1. /\ error \in BOOLEAN /\ faults \in 0..MaxFaults
      /\ run \in Rows \cup {NoRun} /\ jobs \in JobRows
  BY DEF TypeOK
<1> QED
  BY <1>1

LEMMA InitTyped == Init => TypeOK
<1> SUFFICES ASSUME Init PROVE TypeOK
  OBVIOUS
<1>1. plan.run \in RunSpan
  BY RunPageAssumption DEF Init, PossiblePlans
<1>2. plan.run.to \in Moments
  BY <1>1 DEF RunSpan
<1>3. clock \in Moments /\ faults \in 0..MaxFaults
  BY <1>2, RunPageAssumption DEF Init, Moments, FirstMoment
<1>4. fetch \in [Fetches -> FetchState]
  BY FetchStatesTyped DEF Init
<1>5. plan \in Plans /\ skew \in Skews /\ run \in Rows \cup {NoRun} /\ jobs \in JobRows
  BY FetchStatesTyped DEF Init
<1>6. /\ seen \in {"unmounted", "undefined", "pending", "running", "over"}
      /\ now \in {Unset} \cup {t + s : t \in Moments, s \in Skews}
  BY DEF Init
<1>7. error \in BOOLEAN /\ reload \in BOOLEAN
  BY DEF Init
<1> QED
  BY <1>3, <1>4, <1>5, <1>6, <1>7 DEF TypeOK

\* A step of fetch f that leaves the server, the clock and the effect alone.
LEMMA FetchTyped ==
  ASSUME TypeOK, NEW f \in Fetches, NEW c \in FetchState,
         fetch' = [fetch EXCEPT ![f] = c],
         UNCHANGED <<serverVars, effectVars>>,
         faults' \in 0..MaxFaults, run' \in Rows \cup {NoRun}, jobs' \in JobRows,
         error' \in BOOLEAN, now' \in {now, BrowserNow}
  PROVE  TypeOK'
<1>1. fetch' \in [Fetches -> FetchState]
  BY DEF TypeOK
<1>2. now' \in {Unset} \cup {t + s : t \in Moments, s \in Skews}
  BY BrowserTyped DEF TypeOK
<1> QED
  BY <1>1, <1>2 DEF TypeOK, serverVars, effectVars

-----------------------------------------------------------------------------
(* Every step preserves the invariant.                                     *)

\* A step of fetch f that sets neither the run nor the jobs of the page.
LEMMA FetchMoves ==
  ASSUME IInv, NEW f \in Fetches, NEW c \in FetchState,
         fetch' = [fetch EXCEPT ![f] = c],
         UNCHANGED <<serverVars, run, jobs, now, effectVars>>,
         faults' \in 0..MaxFaults, error' \in BOOLEAN,
         c.at \in {"idle", "run", "failed"} => c.run = NoRun,
         c.at \in {"jobs", "answered"} => ReadAfterEnd(c.run),
         c.at = "answered" => ReadInOrder(c.run, c.jobs) /\ c.jobs \in [Jobs -> Rows]
  PROVE  IInv'
<1>1. TypeOK'
  <2>1. run' \in Rows \cup {NoRun} /\ jobs' \in JobRows
    BY Kept DEF IInv
  <2>2. UNCHANGED <<serverVars, effectVars>> /\ now' \in {now, BrowserNow}
    OBVIOUS
  <2> QED
    BY <2>1, <2>2, FetchTyped DEF IInv
<1>2. fetch'[f] = c /\ \A g \in Fetches \ {f} : fetch'[g] = fetch[g]
  BY DEF IInv, TypeOK
<1>3. ASSUME NEW g \in Fetches
      PROVE  FetchInv(g)'
  <2>1. plan' = plan /\ clock' = clock
    BY DEF serverVars
  <2>2. (\A t : RunAt(t)' = RunAt(t)) /\ (\A t : JobsAt(t)' = JobsAt(t))
    BY <2>1 DEF RunAt, JobsAt
  <2>3. CASE g = f
    BY <1>2, <2>1, <2>2, <2>3 DEF FetchInv, ReadAfterEnd, ReadInOrder
  <2>4. CASE g # f
    <3>1. fetch'[g] = fetch[g] /\ FetchInv(g)
      BY <1>2, <2>4 DEF IInv
    <3> QED
      BY <2>1, <2>2, <3>1 DEF FetchInv, ReadAfterEnd, ReadInOrder
  <2> QED
    BY <2>3, <2>4
<1>4. ReadInOrder(run, jobs)'
  BY DEF IInv, ReadInOrder, RunAt, JobsAt, serverVars
<1>5. ShownInv'
  BY DEF IInv, ShownInv
<1> QED
  BY <1>1, <1>3, <1>4, <1>5 DEF IInv

LEMMA FetchPreserves ==
  ASSUME IInv, NEW f \in Fetches, FetchStep(f)
  PROVE  IInv'
<1> DEFINE c == fetch[f]
<1>0. c \in FetchState /\ FetchInv(f) /\ TypeOK
  BY DEF IInv, TypeOK
<1>1. CASE ReadRun(f)
  <2> DEFINE d == [c EXCEPT !.at = "jobs", !.run = RunAt(clock)]
  <2>1. d \in FetchState /\ d.at = "jobs" /\ d.run = RunAt(clock)
    BY <1>0, EndedRunRead DEF FetchState
  <2>2. fetch' = [fetch EXCEPT ![f] = d]
    BY <1>1 DEF ReadRun
  <2> QED
    <3>1. UNCHANGED <<serverVars, run, jobs, now, effectVars, error, faults>>
      BY <1>1 DEF ReadRun, shownVars
    <3>2. error' \in BOOLEAN /\ faults' \in 0..MaxFaults
      BY <1>0, <3>1, Kept
    <3>3. ReadAfterEnd(d.run)
      BY <1>0, <2>1, EndedRunRead
    <3> QED
      BY <2>1, <2>2, <3>1, <3>2, <3>3, FetchMoves
<1>2. CASE ReadJobs(f)
  <2> DEFINE d == [c EXCEPT !.at = "answered", !.jobs = JobsAt(clock)]
  <2>1. /\ d \in FetchState /\ d.at = "answered" /\ d.run = c.run
        /\ d.jobs = JobsAt(clock)
    <3>1. JobsAt(clock) \in JobRows
      BY <1>0, <1>2, EndedJobsRead DEF ReadJobs, FetchInv
    <3> QED
      BY <1>0, <3>1 DEF FetchState
  <2>2. fetch' = [fetch EXCEPT ![f] = d]
    BY <1>2 DEF ReadJobs
  <2>3. ReadAfterEnd(d.run)
    BY <1>0, <1>2, <2>1 DEF ReadJobs, FetchInv
  <2>4. ReadInOrder(d.run, d.jobs) /\ d.jobs \in [Jobs -> Rows]
    BY <1>0, <2>1, <2>3, EndedJobsRead
  <2> QED
    <3>1. UNCHANGED <<serverVars, run, jobs, now, effectVars, error, faults>>
      BY <1>2 DEF ReadJobs, shownVars
    <3>2. error' \in BOOLEAN /\ faults' \in 0..MaxFaults
      BY <1>0, <3>1, Kept
    <3> QED
      BY <2>1, <2>2, <2>3, <2>4, <3>1, <3>2, FetchMoves
<1>3. CASE RequestFails(f)
  <2> DEFINE d == [Idle EXCEPT !.at = "failed"]
  <2>1. d \in FetchState /\ d.at = "failed" /\ d.run = NoRun
    BY FetchStatesTyped
  <2>2. fetch' = [fetch EXCEPT ![f] = d]
    BY <1>3 DEF RequestFails
  <2>3. faults' \in 0..MaxFaults
    BY <1>0, <1>3, RunPageAssumption DEF RequestFails, TypeOK
  <2> QED
    <3>1. UNCHANGED <<serverVars, run, jobs, now, effectVars, error>>
      BY <1>3 DEF RequestFails, shownVars
    <3>2. error' \in BOOLEAN
      BY <1>0, <3>1, Kept
    <3> QED
      BY <2>1, <2>2, <2>3, <3>1, <3>2, FetchMoves
<1>4. CASE Apply(f)
  <2>1. /\ run' = c.run /\ jobs' = c.jobs /\ UNCHANGED <<serverVars, faults, effectVars>>
        /\ fetch' = [fetch EXCEPT ![f] = Idle] /\ now' \in {now, BrowserNow}
        /\ error' = FALSE /\ c.at = "answered"
    BY <1>4 DEF Apply
  <2>2. c.run \in Rows \cup {NoRun} /\ c.jobs \in JobRows
    BY <1>0 DEF FetchState
  <2>3. TypeOK'
    <3>1. faults' \in 0..MaxFaults /\ error' \in BOOLEAN
      BY <1>0, <2>1, Kept
    <3> QED
      BY <1>0, <2>1, <2>2, <3>1, FetchStatesTyped, FetchTyped
  <2>4. fetch'[f] = Idle /\ \A g \in Fetches \ {f} : fetch'[g] = fetch[g]
    BY <1>0, <2>1 DEF TypeOK
  <2>5. \A g \in Fetches : FetchInv(g)'
    BY <2>1, <2>4, FetchStatesTyped
       DEF IInv, FetchInv, ReadAfterEnd, ReadInOrder, RunAt, JobsAt, serverVars
  <2>6. ReadInOrder(run, jobs)'
    BY <1>0, <2>1 DEF FetchInv, ReadInOrder, RunAt, JobsAt, serverVars
  <2>7. ShownInv'
    <3>1. now' = (IF run = NoRun THEN BrowserNow ELSE now) /\ c.jobs \in [Jobs -> Rows]
      BY <1>0, <1>4 DEF Apply, FetchInv
    <3> QED
      BY <1>0, <2>1, <3>1, BrowserRuns DEF IInv, ShownInv
  <2> QED
    BY <2>3, <2>5, <2>6, <2>7 DEF IInv
<1>5. CASE ApplyError(f)
  <2>1. /\ fetch' = [fetch EXCEPT ![f] = Idle] /\ error' = TRUE
        /\ UNCHANGED <<serverVars, faults, run, jobs, now, effectVars>>
    BY <1>5 DEF ApplyError
  <2>2. faults' \in 0..MaxFaults
    BY <1>0, <2>1, Kept
  <2> QED
    BY <2>1, <2>2, FetchStatesTyped, FetchMoves
<1> QED
  BY <1>1, <1>2, <1>3, <1>4, <1>5 DEF FetchStep

\* The effect and its interval only start fetches that have read nothing.
LEMMA EffectPreserves ==
  ASSUME IInv, EffectRuns
  PROVE  IInv'
<1>1. run.status \in {"undefined", "pending", "running", "over"}
  BY DEF IInv, TypeOK, Rows, NoRun
<1>2. \A f \in Fetches : fetch'[f] \in {Asked, Idle}
  BY DEF EffectRuns
<1>3. fetch' \in [Fetches -> FetchState]
  BY FetchStatesTyped DEF EffectRuns
<1>4. TypeOK'
  <2>1. /\ UNCHANGED <<plan, skew, clock, faults, run, jobs, error, now>>
        /\ seen' = run.status /\ reload' = FALSE
    BY DEF EffectRuns, serverVars, shownVars
  <2>2. seen' \in {"unmounted", "undefined", "pending", "running", "over"} /\ reload' \in BOOLEAN
    BY <1>1, <2>1
  <2> QED
    BY <1>3, <2>1, <2>2 DEF IInv, TypeOK
<1>5. \A f \in Fetches : FetchInv(f)'
  BY <1>2, FetchStatesTyped DEF FetchInv
<1>6. ReadInOrder(run, jobs)'
  BY DEF EffectRuns, IInv, ReadInOrder, RunAt, JobsAt, serverVars, shownVars
<1>7. ShownInv'
  BY DEF EffectRuns, IInv, ShownInv, shownVars
<1> QED
  BY <1>4, <1>5, <1>6, <1>7 DEF IInv

LEMMA IntervalPreserves ==
  ASSUME IInv, IntervalTick
  PROVE  IInv'
<1>1. PICK f \in Fetches : fetch' = [fetch EXCEPT ![f] = Asked]
  BY DEF IntervalTick
<1>2. UNCHANGED <<serverVars, run, jobs, now, effectVars, error, faults>>
  BY DEF IntervalTick, shownVars
<1>3. faults' \in 0..MaxFaults /\ error' \in BOOLEAN
  BY <1>2, Kept DEF IInv
<1> QED
  BY <1>1, <1>2, <1>3, FetchStatesTyped, FetchMoves

\* Time, the button and the timeline's ticks.
LEMMA RestPreserves ==
  ASSUME IInv, ClockTicks \/ TryAgain \/ TimelineTicks \/ UNCHANGED vars
  PROVE  IInv'
<1>1. /\ UNCHANGED <<plan, skew, faults, fetch, run, jobs, error, seen>>
      /\ clock' = clock \/ (clock' = clock + 1 /\ clock < Horizon)
      /\ reload' = reload \/ reload' = TRUE
      /\ now' \in {now, BrowserNow}
  BY DEF ClockTicks, TryAgain, TimelineTicks, serverVars, shownVars, effectVars, vars
<1>2. clock' \in Moments /\ clock' >= clock
  BY <1>1, RunPageAssumption DEF IInv, TypeOK, Moments, FirstMoment
<1>3. now' \in {Unset} \cup {t + s : t \in Moments, s \in Skews}
  BY <1>1, BrowserTyped DEF IInv, TypeOK
<1>4. reload' \in BOOLEAN
  <2>1. reload \in BOOLEAN
    BY DEF IInv, TypeOK
  <2> QED
    BY <1>1, <2>1
<1>5. TypeOK'
  BY <1>1, <1>2, <1>3, <1>4 DEF IInv, TypeOK
<1>6. /\ \A t \in plan.run.to..clock : t \in plan.run.to..clock'
      /\ \A t \in plan.run.to..clock : \A u \in t..clock : u \in t..clock'
      /\ \A t : RunAt(t)' = RunAt(t)
      /\ \A t : JobsAt(t)' = JobsAt(t)
  <2>1. TypeOK /\ UNCHANGED plan /\ clock' \in Int /\ clock <= clock'
    BY <1>1, <1>2, RunPageAssumption DEF IInv, TypeOK, Moments, FirstMoment
  <2> QED
    BY <2>1, StaysRead
<1>7. ASSUME NEW f \in Fetches
      PROVE  FetchInv(f)'
  <2>1. FetchInv(f) /\ fetch'[f] = fetch[f] /\ plan' = plan
    BY <1>1 DEF IInv
  <2>2. ReadAfterEnd(fetch[f].run) => ReadAfterEnd(fetch[f].run)'
    BY <1>6, <2>1 DEF ReadAfterEnd
  <2>3. ReadInOrder(fetch[f].run, fetch[f].jobs) => ReadInOrder(fetch[f].run, fetch[f].jobs)'
    BY <1>6, <2>1 DEF ReadInOrder
  <2> QED
    BY <2>1, <2>2, <2>3 DEF FetchInv
<1>8. ReadInOrder(run, jobs)'
  <2>1. run' = run /\ jobs' = jobs /\ plan' = plan /\ ReadInOrder(run, jobs)
    BY <1>1 DEF IInv
  <2> QED
    BY <1>6, <2>1 DEF ReadInOrder
<1>9. ShownInv'
  BY <1>1, BrowserRuns DEF IInv, ShownInv
<1> QED
  BY <1>5, <1>7, <1>8, <1>9 DEF IInv

LEMMA InitIInv == Init => IInv
<1> SUFFICES ASSUME Init PROVE IInv
  OBVIOUS
<1>1. \A f \in Fetches : FetchInv(f)
  BY FetchStatesTyped DEF Init, FetchInv
<1>2. ReadInOrder(run, jobs)
  BY DEF Init, ReadInOrder, NoRun
<1>3. ShownInv
  BY DEF Init, ShownInv
<1> QED
  BY <1>1, <1>2, <1>3, InitTyped DEF IInv

LEMMA NextIInv ==
  ASSUME IInv, [Next]_vars
  PROVE  IInv'
BY FetchPreserves, EffectPreserves, IntervalPreserves, RestPreserves DEF Next, Rest

-----------------------------------------------------------------------------
(* The chart.                                                              *)

\* The window spans the start of every job and the end of every finished one.
LEMMA WindowSpansJobs ==
  ASSUME NEW r \in Rows, NEW a \in [Jobs -> Rows], NEW t \in Nat \ {0}
  PROVE  /\ TotalRunDuration(r, a, t) \in Nat
         /\ EffectiveStart(r, a) \in Int
         /\ \A j \in Jobs : a[j].started # Unset =>
              /\ EffectiveStart(r, a) # NoTime /\ EffectiveStart(r, a) <= a[j].started
              /\ a[j].finished # Unset =>
                   a[j].finished - EffectiveStart(r, a) <= TotalRunDuration(r, a, t)
<1> DEFINE starts  == {a[j].started : j \in DOMAIN a} \cup {RunStart(r)}
           ends    == {a[j].finished : j \in DOMAIN a} \ {Unset}
           start   == EffectiveStart(r, a)
           end     == EffectiveEnd(r, a, t)
           own     == IF RunStart(r) = NoTime THEN 0 ELSE AtLeastZero(RunEnd(r, t) - RunStart(r))
           total   == TotalRunDuration(r, a, t)
<1>1. /\ \A j \in Jobs : /\ a[j].started \in Moments \cup {Unset}
                         /\ a[j].finished \in Moments \cup {Unset}
      /\ r.started \in Moments \cup {Unset} /\ r.finished \in Moments \cup {Unset}
  BY DEF Rows
<1>2. \A x \in Moments : x \in Nat /\ x # Unset /\ x # NoTime
  BY RunPageAssumption DEF Moments, FirstMoment, Unset, NoTime
<1>3. RunStart(r) \in Moments \cup {NoTime} /\ RunEnd(r, t) \in Int
  BY <1>1, <1>2 DEF RunStart, RunEnd, IsValidTimestamp, Unset, NoTime
<1>4. IsFiniteSet({a[j].started : j \in DOMAIN a}) /\ IsFiniteSet({a[j].finished : j \in DOMAIN a})
  <2> DEFINE f == [j \in Jobs |-> a[j].started]
             h == [j \in Jobs |-> a[j].finished]
  <2>1. IsFiniteSet({f[j] : j \in Jobs}) /\ IsFiniteSet({h[j] : j \in Jobs})
    BY RunPageAssumption, ValuesFinite
  <2>2. /\ {f[j] : j \in Jobs} = {a[j].started : j \in DOMAIN a}
        /\ {h[j] : j \in Jobs} = {a[j].finished : j \in DOMAIN a}
    OBVIOUS
  <2> QED
    BY <2>1, <2>2
<1>0. IsFiniteSet(starts) /\ IsFiniteSet({RunEnd(r, t)} \cup ends)
  <2>1. IsFiniteSet({RunStart(r)}) /\ IsFiniteSet({RunEnd(r, t)})
    BY FS_Singleton
  <2>2. IsFiniteSet(ends)
    BY <1>4, FS_Subset
  <2> HIDE DEF ends
  <2> QED
    BY <1>4, <2>1, <2>2, FS_Union
<1>5. \A j \in Jobs : a[j].started # Unset => start # NoTime /\ start <= a[j].started
  <2> DEFINE known == starts \ {Unset, NoTime}
  <2> SUFFICES ASSUME NEW j \in Jobs, a[j].started # Unset
               PROVE  start # NoTime /\ start <= a[j].started
    OBVIOUS
  <2>1. a[j].started \in known
    BY <1>1, <1>2
  <2>2. IsFiniteSet(known)
    BY <1>0, FS_Subset
  <2>3. known \subseteq Moments
    BY <1>1, <1>3
  <2>4. \A x \in known : x \in Int
    BY <1>2, <2>3
  <2>5. start = Min(known)
    BY <2>1 DEF EffectiveStart
  <2> HIDE DEF known, start
  <2>6. Min(known) \in known /\ \A y \in known : Min(known) <= y
    BY <2>1, <2>2, <2>4, MinIsSmallest
  <2> QED
    BY <1>2, <2>1, <2>3, <2>5, <2>6
<1>6. start \in Int
  <2> DEFINE known == starts \ {Unset, NoTime}
  <2>1. CASE starts \subseteq {Unset, NoTime}
    <3>1. start = NoTime
      BY <2>1 DEF EffectiveStart
    <3> QED
      BY <3>1 DEF NoTime
  <2>2. CASE ~(starts \subseteq {Unset, NoTime})
    <3>1. known # {} /\ start = Min(known)
      BY <2>2 DEF EffectiveStart
    <3>2. IsFiniteSet(known)
      BY <1>0, FS_Subset
    <3>3. \A x \in known : x \in Moments /\ x \in Int
      <4>1. known \subseteq Moments
        BY <1>1, <1>3
      <4> QED
        BY <1>2, <4>1
    <3> HIDE DEF known, start
    <3> QED
      BY <3>1, <3>2, <3>3, MinIsSmallest
  <2> QED
    BY <2>1, <2>2
<1>7. end \in Int /\ \A j \in Jobs : a[j].finished # Unset => a[j].finished <= end
  <2> DEFINE all == {RunEnd(r, t)} \cup ends
  <2>1. IsFiniteSet(all) /\ all # {}
    BY <1>0
  <2>2. \A x \in all : x \in Int
    <3>1. ends \subseteq Moments
      BY <1>1
    <3> QED
      BY <1>2, <1>3, <3>1
  <2>3. end = Max(all)
    BY DEF EffectiveEnd
  <2>4. \A j \in Jobs : a[j].finished # Unset => a[j].finished \in all
    OBVIOUS
  <2> HIDE DEF all, end
  <2>5. Max(all) \in all /\ \A y \in all : y <= Max(all)
    BY <2>1, <2>2, MaxIsLargest
  <2> QED
    BY <2>2, <2>3, <2>4, <2>5
<1>8. own \in Nat
  BY <1>2, <1>3 DEF AtLeastZero, NoTime
<1>9. total = IF start # NoTime /\ end # NoTime THEN Max({own, end - start}) ELSE own
  BY DEF TotalRunDuration
<1> HIDE DEF start, end, own, total
<1>10. LET both == {own, end - start}
       IN Max(both) \in both /\ \A y \in both : y <= Max(both)
  <2> DEFINE both == {own} \cup {end - start}
  <2>1. IsFiniteSet(both) /\ both # {} /\ \A x \in both : x \in Int
    <3>1. IsFiniteSet(both)
      BY FS_Singleton, FS_Union
    <3> QED
      BY <1>6, <1>7, <1>8, <3>1
  <2>2. both = {own, end - start}
    OBVIOUS
  <2> HIDE DEF both
  <2> QED
    BY <2>1, <2>2, MaxIsLargest
<1>11. total \in Nat /\ (start # NoTime /\ end # NoTime => end - start <= total)
  BY <1>6, <1>7, <1>8, <1>9, <1>10
<1>12. ASSUME NEW j \in Jobs, a[j].started # Unset, a[j].finished # Unset
       PROVE  a[j].finished - start <= total
  <2>1. a[j].finished \in Nat /\ a[j].finished # NoTime /\ a[j].finished <= end
    BY <1>1, <1>2, <1>7, <1>12
  <2>2. end # NoTime
    BY <1>7, <2>1 DEF NoTime
  <2> QED
    BY <1>5, <1>6, <1>7, <1>11, <1>12, <2>1, <2>2
<1> QED
  BY <1>5, <1>6, <1>11, <1>12 DEF start, total

LEMMA BarsTyped ==
  ASSUME run # NoRun, TypeOK, ShownInv
  PROVE  /\ Summary.metrics = [j \in Jobs |-> CalculateJobTimeline(jobs[j],
                                 EffectiveStart(run, jobs), TotalRunDuration(run, jobs, now), now)]
         /\ run \in Rows /\ jobs \in [Jobs -> Rows] /\ now \in Nat \ {0}
         /\ AreBars(Summary.metrics)
<1>1. run \in Rows /\ jobs \in [Jobs -> Rows] /\ now \in Nat \ {0}
  BY DEF TypeOK, ShownInv
<1>2. Summary.metrics = [j \in Jobs |-> CalculateJobTimeline(jobs[j], EffectiveStart(run, jobs),
                                          TotalRunDuration(run, jobs, now), now)]
  BY <1>1 DEF Summary, CalculateRunTimelineSummary
<1>3. ASSUME NEW j \in Jobs, NEW start, NEW total
      PROVE  LET bar == CalculateJobTimeline(jobs[j], start, total, now)
             IN /\ bar.isStarted => bar.start \in Nat /\ bar.end \in Nat
                /\ ~bar.isStarted => bar.start = NoTime /\ bar.end = NoTime
  <2>1. jobs[j].started \in Nat /\ jobs[j].finished \in Nat
    BY <1>1, RunPageAssumption DEF Rows, Moments, FirstMoment, Unset
  <2>2. JobEnd(jobs[j], now) \in Nat
    BY <1>1, <2>1 DEF JobEnd
  <2> QED
    BY <2>1, <2>2 DEF CalculateJobTimeline, NotOnTrack
<1>4. AreBars(Summary.metrics)
  BY <1>2, <1>3, RunPageAssumption DEF AreBars
<1> QED
  BY <1>1, <1>2, <1>4

LEMMA BarsAreInPlace ==
  ASSUME run # NoRun, TypeOK, ShownInv
  PROVE  BarsInPlace(Summary)
<1> DEFINE start == EffectiveStart(run, jobs)
           total == TotalRunDuration(run, jobs, now)
<1>1. /\ Summary.start = start /\ Summary.total = total
      /\ Summary.hasValidTimeWindow = (start # NoTime /\ total > 0)
  BY DEF Summary, CalculateRunTimelineSummary
<1> SUFFICES ASSUME NEW j \in Jobs
             PROVE  LET bar == Summary.metrics[j]
                    IN /\ bar.offset + bar.width <= total
                       /\ jobs[j].finished # Unset /\ bar.duration > 0 =>
                            /\ start # NoTime /\ total > 0 /\ bar.width = bar.duration
                            /\ bar.offset = jobs[j].started - start
  BY <1>1 DEF BarsInPlace
<1>2. Summary.metrics[j] = CalculateJobTimeline(jobs[j], start, total, now)
  BY BarsTyped
<1>3. /\ total \in Nat /\ start \in Int
      /\ jobs[j].started # Unset =>
           /\ start # NoTime /\ start <= jobs[j].started
           /\ jobs[j].finished # Unset => jobs[j].finished - start <= total
  BY BarsTyped, WindowSpansJobs
<1>4. jobs[j].started \in Nat /\ jobs[j].finished \in Nat /\ now \in Nat
  BY BarsTyped, RunPageAssumption DEF Rows, Moments, FirstMoment, Unset
<1> HIDE DEF start, total
<1>5. CASE jobs[j].started = Unset
  BY <1>2, <1>3, <1>5 DEF CalculateJobTimeline, IsValidTimestamp, NotOnTrack
<1>6. CASE jobs[j].started # Unset
  <2> DEFINE end == JobEnd(jobs[j], now)
             duration == AtLeastZero(end - jobs[j].started)
             inWindow == start # NoTime /\ total > 0
             offset == IF inWindow THEN Least(total, AtLeastZero(jobs[j].started - start)) ELSE 0
             width == IF inWindow THEN Least(total - offset, duration) ELSE 0
  <2>1. /\ Summary.metrics[j].duration = duration /\ Summary.metrics[j].offset = offset
        /\ Summary.metrics[j].width = width
    BY <1>2, <1>6 DEF CalculateJobTimeline, IsValidTimestamp
  <2>2. end \in Nat /\ (jobs[j].finished # Unset => end = jobs[j].finished)
    BY <1>4 DEF JobEnd, IsValidTimestamp
  <2> HIDE DEF end
  <2>3. offset + width <= total
    BY <1>3, <1>4, <2>2 DEF AtLeastZero, Least
  <2>4. ASSUME jobs[j].finished # Unset, duration > 0
        PROVE  /\ start # NoTime /\ total > 0 /\ width = duration
               /\ offset = jobs[j].started - start
    BY <1>3, <1>4, <1>6, <2>2, <2>4 DEF AtLeastZero, Least
  <2> HIDE DEF duration, offset, width
  <2> QED
    BY <2>1, <2>3, <2>4
<1> QED
  BY <1>5, <1>6

LEMMA PeakIsBetween ==
  ASSUME run # NoRun, TypeOK, ShownInv
  PROVE  PeakIsTrue(Summary)
<1> DEFINE m == Summary.metrics
           over == {Overlap(m, t) : t \in Moments}
           overlap == Max(over \cup {0})
<1>1. AreBars(m) /\ \A j \in Jobs : m[j].isStarted => m[j].start \in Moments /\
                      (m[j].end \in Moments \/ m[j].end = now \/ m[j].end = m[j].start)
  <2>1. ASSUME NEW j \in Jobs, m[j].isStarted
        PROVE  m[j].start \in Moments /\
               (m[j].end \in Moments \/ m[j].end = now \/ m[j].end = m[j].start)
    BY <2>1, BarsTyped
       DEF CalculateJobTimeline, NotOnTrack, JobEnd, IsValidTimestamp, Rows
  <2> QED
    BY <2>1, BarsTyped
<1>2. DOMAIN m = Jobs
  BY BarsTyped
<1>3. Summary.maxParallelJobs = MaxParallelJobs(m)
  BY DEF Summary, CalculateRunTimelineSummary
<1> HIDE DEF m
<1>4. \A t : Overlap(m, t) = Cardinality(OpenAt(m, t))
  <2>1. ASSUME NEW t
        PROVE  OpenAt(m, t) = {j \in DOMAIN m : m[j].isStarted /\ m[j].start <= t /\ t < m[j].end}
    BY DEF OpenAt, Started
  <2>2. \A t : Overlap(m, t)
                 = Cardinality({j \in DOMAIN m : m[j].isStarted /\ m[j].start <= t /\ t < m[j].end})
    BY DEF Overlap, Count
  <2> QED
    BY <2>1, <2>2
<1>5. /\ Count(m, LAMBDA x : x.end < x.start) = Cardinality(Late(m))
      /\ Count(m, LAMBDA x : x.end <= x.start) = Cardinality(Empties(m))
  <2>1. /\ Late(m) = {j \in DOMAIN m : m[j].isStarted /\ m[j].end < m[j].start}
        /\ Empties(m) = {j \in DOMAIN m : m[j].isStarted /\ m[j].end <= m[j].start}
    BY DEF Late, Empties, Started
  <2> QED
    BY <2>1 DEF Count
<1>6. IsFiniteSet(over)
  <2> DEFINE f == [t \in Moments |-> Overlap(m, t)]
  <2>1. IsFiniteSet(Moments)
    BY RunPageAssumption, FS_Interval DEF Moments, FirstMoment
  <2>2. IsFiniteSet({f[t] : t \in Moments})
    BY <2>1, ValuesFinite
  <2>3. {f[t] : t \in Moments} = over
    OBVIOUS
  <2> QED
    BY <2>2, <2>3
<1>7. \A t : Overlap(m, t) \in Nat
  BY <1>1, <1>4, BarsCount
<1>8. overlap \in over \cup {0} /\ \A y \in over \cup {0} : y <= overlap
  <2>1. IsFiniteSet(over \cup {0}) /\ \A x \in over \cup {0} : x \in Int
    BY <1>6, <1>7, FS_AddElement
  <2> HIDE DEF over
  <2> QED
    BY <2>1, MaxIsLargest
<1>9. overlap \in Nat /\ \A t \in Moments : Overlap(m, t) <= overlap
  BY <1>7, <1>8
<1> HIDE DEF over, overlap
<1>10. ASSUME NEW t \in Int
       PROVE  Cardinality(OpenAt(m, t)) <= overlap
  <2>1. CASE t \in Moments
    BY <1>4, <1>9, <2>1
  <2>2. CASE t < FirstMoment
    <3>1. OpenAt(m, t) = {}
      BY <1>1, <1>2, <2>2, RunPageAssumption DEF OpenAt, Started, Moments, FirstMoment
    <3> QED
      BY <1>9, <3>1, EmptyCounts
  <2>3. CASE Horizon < t /\ Horizon \in Moments
    <3>1. OpenAt(m, t) \in SUBSET OpenAt(m, Horizon)
      <4>1. ASSUME NEW j \in OpenAt(m, t)
            PROVE  m[j].start <= Horizon /\ Horizon < m[j].end /\ j \in Started(m)
        BY <1>1, <1>2, <2>3, <4>1, RunPageAssumption DEF AreBars, OpenAt, Started, Moments, FirstMoment
      <4> QED
        BY <4>1 DEF OpenAt
    <3>2. IsFiniteSet(OpenAt(m, Horizon)) /\ OpenAt(m, t) \in SUBSET Started(m)
      <4>1. OpenAt(m, Horizon) \in SUBSET Started(m) /\ IsFiniteSet(Started(m))
        BY <1>1, BarsCount DEF OpenAt
      <4> QED
        BY <4>1, PartCounts DEF OpenAt
    <3>3. Cardinality(OpenAt(m, t)) <= Cardinality(OpenAt(m, Horizon))
      BY <3>1, <3>2, PartCounts
    <3>4. Cardinality(OpenAt(m, Horizon)) <= overlap
      BY <1>4, <1>9, <2>3
    <3>5. Cardinality(OpenAt(m, t)) \in Nat /\ Cardinality(OpenAt(m, Horizon)) \in Nat
      BY <1>1, BarsCount
    <3> QED
      BY <1>9, <3>3, <3>4, <3>5
  <2>4. CASE FirstMoment > Horizon
    <3>1. OpenAt(m, t) = {}
      BY <1>1, <1>2, <2>4, RunPageAssumption DEF OpenAt, Started, Moments, FirstMoment
    <3> QED
      BY <1>9, <3>1, EmptyCounts
  <2> QED
    BY <2>1, <2>2, <2>3, <2>4, RunPageAssumption DEF Moments, FirstMoment
<1>11. /\ MaxParallelJobs(m) \in Nat
       /\ MaxParallelJobs(m) <= overlap + Cardinality(Empties(m))
       /\ \A t \in Int : Cardinality(OpenAt(m, t)) <= MaxParallelJobs(m) + Cardinality(Late(m))
  BY <1>1, <1>9, <1>10, PeakBounds
<1>12. overlap <= MaxParallelJobs(m) + Cardinality(Late(m))
  <2>1. Cardinality(Late(m)) \in Nat /\ Moments \subseteq Int
    BY <1>1, BarsCount, RunPageAssumption DEF Moments, FirstMoment
  <2>2. \A t \in Moments : Overlap(m, t) <= MaxParallelJobs(m) + Cardinality(Late(m))
    BY <1>4, <1>11, <2>1
  <2>3. overlap = 0 \/ \E t \in Moments : overlap = Overlap(m, t)
    BY <1>8 DEF over
  <2> QED
    BY <1>11, <2>1, <2>2, <2>3
<1>13. overlap = Max({Overlap(m, t) : t \in Moments} \cup {0})
  BY DEF overlap, over
<1>14. /\ overlap <= MaxParallelJobs(m) + Count(m, LAMBDA x : x.end < x.start)
       /\ MaxParallelJobs(m) <= overlap + Count(m, LAMBDA x : x.end <= x.start)
  BY <1>5, <1>11, <1>12
<1> QED
  BY <1>3, <1>13, <1>14 DEF PeakIsTrue, m

-----------------------------------------------------------------------------
(* The theorems.                                                           *)

THEOREM Invariance == Spec => []IInv
BY InitIInv, NextIInv, PTL DEF Spec

\* The page's state only holds what the requests can answer.
THEOREM TypeCorrect == Spec => []TypeOK
<1>1. IInv => TypeOK
  BY DEF IInv
<1> QED
  BY <1>1, Invariance, PTL

\* A run shown as ended comes with its jobs as they were read after its end, and
\* so as they ended, all but the rows a recovery may still fail: the run is read
\* before its jobs, by every fetch, whichever is answered last (page.tsx:64-69).
THEOREM EndIsNotTorn == Spec => []EndedRunShowsEndedJobs
<1>1. IInv => EndedRunShowsEndedJobs
  BY EndIsFinal DEF IInv
<1> QED
  BY <1>1, Invariance, PTL

\* The Gantt chart is exact for every number of jobs, whatever two answers it
\* is drawn from: bars lie in the track and finished jobs have their true bars,
\* and the peak of parallelism is the largest number of bars over one moment,
\* but for bars without length and bars that end before they start
\* (timeline.ts:69-241).
THEOREM ChartIsTrue == Spec => []ChartIsExact
<1>1. IInv => ChartIsExact
  BY BarsAreInPlace, PeakIsBetween DEF IInv, ChartIsExact
<1> QED
  BY <1>1, Invariance, PTL
=============================================================================
