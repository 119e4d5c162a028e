---------------------------- MODULE RunsPageProofs ----------------------------
(***************************************************************************)
(* Theorems about the runs page, for every text, every row, every set of   *)
(* links and every number of overlapping requests.                         *)
(***************************************************************************)
EXTENDS RunsPage, FiniteSetTheorems, WellFoundedInduction, TLAPS

-----------------------------------------------------------------------------
(* The sort orders.                                                        *)

\* What the comparators look at: integers, the usable ones positive.
LEMMA TimesAreIntegers ==
    ASSUME NEW r \in RunRows
    PROVE  /\ r.id \in Int
           /\ StartTime(r) \in Nat
           /\ CompletedDuration(r) \in Int /\ CompletedDuration(r) >= NoDuration
  BY DEF RunRows, Stamps, Unusable, Missing, StartTime, CompletedDuration, NoDuration, Statuses

\* No row is put before itself.
THEOREM SortIrreflexive ==
    ASSUME NEW sort \in Sorts, NEW a \in RunRows
    PROVE  ~Before(a, a, sort)
  <1>. USE TimesAreIntegers DEF Before, NewestFirst
  <1>1. CASE sort = "newest" BY <1>1
  <1>2. CASE sort = "oldest" BY <1>2 DEF OldestFirst
  <1>3. CASE sort = "duration-desc" BY <1>3 DEF SlowestFirst
  <1>4. CASE sort = "duration-asc" BY <1>4 DEF FastestFirst
  <1>5. CASE sort = "failed-first" BY <1>5 DEF FailedFirst
  <1>. QED BY <1>1, <1>2, <1>3, <1>4, <1>5 DEF Sorts

\* Of two rows with different identifiers, one is put before the other.
THEOREM SortTotal ==
    ASSUME NEW sort \in Sorts, NEW a \in RunRows, NEW b \in RunRows, a.id # b.id
    PROVE  Before(a, b, sort) \/ Before(b, a, sort)
  <1>. USE TimesAreIntegers DEF Before, NewestFirst
  <1>1. CASE sort = "newest" BY <1>1
  <1>2. CASE sort = "oldest" BY <1>2 DEF OldestFirst
  <1>3. CASE sort = "duration-desc" BY <1>3 DEF SlowestFirst
  <1>4. CASE sort = "duration-asc" BY <1>4 DEF FastestFirst
  <1>5. CASE sort = "failed-first" BY <1>5 DEF FailedFirst
  <1>. QED BY <1>1, <1>2, <1>3, <1>4, <1>5 DEF Sorts

\* The order is transitive, across the groups too: rows with and without a
\* time, with and without a duration, failed and not.
THEOREM SortTransitive ==
    ASSUME NEW sort \in Sorts, NEW a \in RunRows, NEW b \in RunRows, NEW c \in RunRows,
           Before(a, b, sort), Before(b, c, sort)
    PROVE  Before(a, c, sort)
  <1>. USE TimesAreIntegers DEF Before, NewestFirst
  <1>1. CASE sort = "newest" BY <1>1
  <1>2. CASE sort = "oldest" BY <1>2 DEF OldestFirst
  <1>3. CASE sort = "duration-desc" BY <1>3 DEF SlowestFirst
  <1>4. CASE sort = "duration-asc" BY <1>4 DEF FastestFirst
  <1>5. CASE sort = "failed-first" BY <1>5 DEF FailedFirst
  <1>. QED BY <1>1, <1>2, <1>3, <1>4, <1>5 DEF Sorts

-----------------------------------------------------------------------------
(* The sorted list.                                                        *)

\* Rows as the daemon lists them: finitely many, with identifiers of their own.
AreRows(rows) ==
    /\ rows \subseteq RunRows /\ IsFiniteSet(rows)
    /\ \A r, s \in rows : r.id = s.id => r = s

Place(rows, sort, r) == Cardinality({s \in rows : Before(s, r, sort)})

\* A place is one of those there are, and rows that differ differ in place.
LEMMA PlacesDiffer ==
    ASSUME NEW rows, AreRows(rows), NEW sort \in Sorts
    PROVE  /\ \A r \in rows : Place(rows, sort, r) \in 0 .. (Cardinality(rows) - 1)
           /\ \A r, s \in rows : Before(r, s, sort) => Place(rows, sort, r) < Place(rows, sort, s)
  <1>1. Cardinality(rows) \in Nat
    BY FS_CardinalityType DEF AreRows
  <1>2. ASSUME NEW r \in rows
        PROVE  /\ IsFiniteSet({s \in rows : Before(s, r, sort)})
               /\ Place(rows, sort, r) \in 0 .. (Cardinality(rows) - 1)
    <2>1. r \notin {s \in rows : Before(s, r, sort)}
      BY SortIrreflexive DEF AreRows
    <2>2. {s \in rows : Before(s, r, sort)} \in SUBSET (rows \ {r})
      BY <2>1
    <2>3. IsFiniteSet(rows \ {r}) /\ Cardinality(rows \ {r}) = Cardinality(rows) - 1
      BY FS_RemoveElement DEF AreRows
    <2>4. /\ IsFiniteSet({s \in rows : Before(s, r, sort)})
          /\ Place(rows, sort, r) <= Cardinality(rows) - 1
      BY <2>2, <2>3, FS_Subset DEF Place
    <2> QED
      BY <1>1, <2>4, FS_CardinalityType DEF Place
  <1>3. ASSUME NEW r \in rows, NEW s \in rows, Before(r, s, sort)
        PROVE  Place(rows, sort, r) < Place(rows, sort, s)
    <2> DEFINE R == {t \in rows : Before(t, r, sort)}
               S == {t \in rows : Before(t, s, sort)}
    <2>1. r \in S /\ R \in SUBSET (S \ {r})
      BY <1>3, SortIrreflexive, SortTransitive DEF AreRows
    <2>2. IsFiniteSet(S) /\ IsFiniteSet(R)
      BY <1>2
    <2>3. Cardinality(S \ {r}) = Cardinality(S) - 1 /\ IsFiniteSet(S \ {r})
      BY <2>1, <2>2, FS_RemoveElement
    <2>4. Cardinality(R) <= Cardinality(S) - 1
      BY <2>1, <2>3, FS_Subset
    <2>5. Cardinality(R) \in Nat /\ Cardinality(S) \in Nat
      BY <2>2, FS_CardinalityType
    <2> QED
      BY <2>4, <2>5 DEF Place
  <1> QED
    BY <1>2, <1>3

\* Every place is taken.
LEMMA PlacesTaken ==
    ASSUME NEW rows, AreRows(rows), NEW sort \in Sorts, NEW i \in 1 .. Cardinality(rows)
    PROVE  \E r \in rows : Place(rows, sort, r) = i - 1
  <1> DEFINE n == Cardinality(rows)
             f == [r \in rows |-> Place(rows, sort, r) + 1]
  <1>1. n \in Nat
    BY FS_CardinalityType DEF AreRows
  <1>2. f \in [rows -> 1 .. n]
    BY <1>1, PlacesDiffer
  <1>3. ASSUME NEW r \in rows, NEW s \in rows, f[r] = f[s]
        PROVE  r = s
    <2>1. Place(rows, sort, r) = Place(rows, sort, s)
      BY <1>1, <1>3, PlacesDiffer
    <2>2. ~Before(r, s, sort) /\ ~Before(s, r, sort)
      BY <1>1, <2>1, PlacesDiffer
    <2> QED
      BY <2>2, SortTotal DEF AreRows
  <1>4. f \in Injection(rows, 1 .. n)
    BY <1>2, <1>3 DEF Injection, IsInjective
  <1>5. IsFiniteSet(1 .. n) /\ Cardinality(1 .. n) = n
    BY <1>1, FS_Interval
  <1>6. f \in Surjection(rows, 1 .. n)
    BY <1>4, <1>5, FS_Injection
  <1>7. PICK r \in rows : f[r] = i
    BY <1>6 DEF Surjection
  <1> QED
    BY <1>1, <1>7, PlacesDiffer

\* The list holds every row once, and each before those it is put before: it is
\* what Array.sort makes of the rows, whatever order they came in
\* (runs-filter.ts:91-168).
THEOREM ListIsSorted ==
    ASSUME NEW rows, AreRows(rows), NEW sort \in Sorts
    PROVE  LET list == SortedBy(rows, sort)
           IN /\ list \in [1 .. Cardinality(rows) -> rows]
              /\ \A r \in rows : \E i \in 1 .. Cardinality(rows) : list[i] = r
              /\ \A i, j \in 1 .. Cardinality(rows) : i < j => Before(list[i], list[j], sort)
  <1> DEFINE n == Cardinality(rows)
             list == SortedBy(rows, sort)
  <1>0. n \in Nat
    BY FS_CardinalityType DEF AreRows
  <1>1. list = [i \in 1 .. n |-> CHOOSE r \in rows : Place(rows, sort, r) = i - 1]
    BY DEF SortedBy, Place
  <1> HIDE DEF list
  <1>2. \A i \in 1 .. n : list[i] \in rows /\ Place(rows, sort, list[i]) = i - 1
    BY <1>1, PlacesTaken
  <1>3. list \in [1 .. n -> rows]
    BY <1>1, <1>2
  <1>4. ASSUME NEW r \in rows, NEW s \in rows, r # s,
               Place(rows, sort, r) <= Place(rows, sort, s)
        PROVE  Before(r, s, sort)
    <2>1. Before(r, s, sort) \/ Before(s, r, sort)
      BY <1>4, SortTotal DEF AreRows
    <2> QED
      BY <1>0, <1>4, <2>1, PlacesDiffer
  <1>5. \A i, j \in 1 .. n : i < j => Before(list[i], list[j], sort)
    <2> SUFFICES ASSUME NEW i \in 1 .. n, NEW j \in 1 .. n, i < j
                 PROVE  Before(list[i], list[j], sort)
      OBVIOUS
    <2>1. list[i] # list[j]
      BY <1>2
    <2>2. Place(rows, sort, list[i]) <= Place(rows, sort, list[j])
      BY <1>2
    <2> QED
      BY <1>2, <1>4, <2>1, <2>2
  <1>6. \A r \in rows : \E i \in 1 .. n : list[i] = r
    <2> SUFFICES ASSUME NEW r \in rows PROVE \E i \in 1 .. n : list[i] = r
      OBVIOUS
    <2> DEFINE i == Place(rows, sort, r) + 1
    <2>1. i \in 1 .. n
      BY <1>0, PlacesDiffer
    <2>2. list[i] \in rows /\ Place(rows, sort, list[i]) = Place(rows, sort, r)
      BY <1>0, <1>2, <2>1, PlacesDiffer
    <2>3. list[i] = r
      <3>1. ~Before(list[i], r, sort) /\ ~Before(r, list[i], sort)
        BY <1>0, <2>2, PlacesDiffer
      <3> QED
        BY <2>2, <3>1, SortTotal DEF AreRows
    <2> QED
      BY <2>1, <2>3
  <1> QED
    BY <1>3, <1>5, <1>6 DEF list

\* There is no other such list: an order that sorts the rows is the list the
\* page shows, so it does not depend on how Array.sort goes about it.
THEOREM SortedListIsUnique ==
    ASSUME NEW rows, AreRows(rows), NEW sort \in Sorts,
           NEW list \in [1 .. Cardinality(rows) -> rows],
           \A i, j \in 1 .. Cardinality(rows) : i < j => Before(list[i], list[j], sort)
    PROVE  list = SortedBy(rows, sort)
  <1> DEFINE n == Cardinality(rows)
  <1>0. n \in Nat /\ IsFiniteSet(1 .. n) /\ Cardinality(1 .. n) = n
    <2>1. n \in Nat
      BY FS_CardinalityType DEF AreRows
    <2> QED
      BY <2>1, FS_Interval
  <1>1. \A i \in 1 .. n : list[i] \in rows
    OBVIOUS
  <1>2. \A r \in rows : ~Before(r, r, sort)
    BY SortIrreflexive DEF AreRows
  <1>3. \A i, j \in 1 .. n : list[i] = list[j] => i = j
    BY <1>0, <1>1, <1>2
  <1>4. \A r \in rows : \E i \in 1 .. n : list[i] = r
    <2>1. list \in Injection(1 .. n, rows)
      BY <1>3 DEF Injection, IsInjective
    <2>2. list \in Surjection(1 .. n, rows)
      BY <1>0, <2>1, FS_Injection DEF AreRows
    <2> QED
      BY <2>2 DEF Surjection
  <1>5. ASSUME NEW i \in 1 .. n
        PROVE  Place(rows, sort, list[i]) = i - 1
    <2> DEFINE first == 1 .. (i - 1)
               put   == {s \in rows : Before(s, list[i], sort)}
               f     == [k \in first |-> list[k]]
    <2>1. first \subseteq 1 .. n /\ IsFiniteSet(first) /\ Cardinality(first) = i - 1
      <3>1. i - 1 \in Nat /\ i - 1 <= n
        BY <1>0
      <3>2. IsFiniteSet(1 .. (i - 1)) /\ Cardinality(1 .. (i - 1)) = i - 1
        BY <3>1, FS_Interval
      <3> QED
        BY <1>0, <3>1, <3>2
    <2>2. \A k \in 1 .. n : k \in first <=> list[k] \in put
      <3>1. ASSUME NEW k \in 1 .. n, k < i PROVE list[k] \in put
        BY <1>1, <3>1
      <3>2. ASSUME NEW k \in 1 .. n, i <= k PROVE list[k] \notin put
        <4>1. CASE k = i
          BY <1>1, <1>2, <4>1
        <4>2. CASE i < k
          <5>1. Before(list[i], list[k], sort)
            BY <4>2
          <5> QED
            BY <1>1, <1>2, <5>1, SortTransitive DEF AreRows
        <4> QED
          BY <1>0, <3>2, <4>1, <4>2
      <3> QED
        BY <1>0, <3>1, <3>2
    <2>3. f \in Surjection(first, put)
      <3>1. f \in [first -> put]
        BY <2>1, <2>2
      <3>2. \A s \in put : \E k \in first : f[k] = s
        BY <1>4, <2>2
      <3> QED
        BY <3>1, <3>2 DEF Surjection
    <2>4. f \in Injection(first, put)
      BY <1>3, <2>1, <2>3 DEF Surjection, Injection, IsInjective
    <2> HIDE DEF first, put, f
    <2>5. Cardinality(put) = Cardinality(first)
      BY <2>1, <2>3, <2>4, FS_Surjection
    <2> QED
      BY <2>1, <2>5 DEF Place, put
  <1>6. ASSUME NEW i \in 1 .. n, NEW r \in rows, Place(rows, sort, r) = i - 1
        PROVE  r = list[i]
    <2>1. PICK k \in 1 .. n : list[k] = r
      BY <1>4
    <2>2. Place(rows, sort, r) = k - 1
      BY <1>5, <2>1
    <2> QED
      BY <1>0, <1>6, <2>1, <2>2
  <1>7. SortedBy(rows, sort) = [i \in 1 .. n |-> CHOOSE r \in rows : Place(rows, sort, r) = i - 1]
    BY DEF SortedBy, Place
  <1>8. \A i \in 1 .. n : list[i] = CHOOSE r \in rows : Place(rows, sort, r) = i - 1
    BY <1>1, <1>5, <1>6
  <1> QED
    BY <1>7, <1>8

-----------------------------------------------------------------------------
(* Sums.                                                                   *)

\* Among the subsets of a finite set that have a property one is the smallest of
\* its kind: the induction principle of the lemmas below.
LEMMA SmallestSubset ==
    ASSUME NEW S, IsFiniteSet(S), NEW Bad \in SUBSET (SUBSET S), Bad # {}
    PROVE  \E T \in Bad : \A U \in Bad : U \subseteq T => U = T
  <1> DEFINE R == StrictSubsetOrdering(S)
  <1>1. IsWellFoundedOn(R, SUBSET S)
    BY FS_StrictSubsetOrderingWellFounded, FS_FiniteSubsetsOfFinite
  <1>2. \E T \in Bad : \A U \in Bad : ~(<<U, T>> \in R)
    <2> HIDE DEF R
    <2> QED
      BY <1>1, WFMin
  <1>3. PICK T \in Bad : \A U \in Bad : ~(<<U, T>> \in R)
    BY <1>2
  <1>4. ASSUME NEW U \in Bad, U \subseteq T, U # T PROVE FALSE
    BY <1>3, <1>4 DEF StrictSubsetOrdering
  <1> QED
    BY <1>4

Pick(s) == CHOOSE x \in s : TRUE

\* g adds up f over the subsets of S.
AddsUp(g, S, f) ==
    g = [s \in SUBSET S |-> IF s = {} THEN 0 ELSE f[Pick(s)] + g[s \ {Pick(s)}]]

LEMMA SumIsChosen ==
    ASSUME NEW f
    PROVE  SumFunction(f) = (CHOOSE g : AddsUp(g, DOMAIN f, f))[DOMAIN f]
  BY DEF SumFunction, SumFunctionOnSet, FoldFunctionOnSet, MapThenFoldSet, AddsUp, Pick

LEMMA PickInSet == ASSUME NEW s, s # {} PROVE Pick(s) \in s
  BY DEF Pick

LEMMA SumUnique ==
    ASSUME NEW S, IsFiniteSet(S), NEW f, NEW g, NEW h, NEW T \in SUBSET S, NEW U \in SUBSET T,
           AddsUp(g, S, f), AddsUp(h, T, f)
    PROVE  g[U] = h[U]
  <1> DEFINE Bad == {s \in SUBSET T : g[s] # h[s]}
  <1> SUFFICES ASSUME Bad # {} PROVE FALSE
    OBVIOUS
  <1>0. IsFiniteSet(T)
    BY FS_Subset
  <1>1. PICK s \in Bad : \A t \in Bad : t \subseteq s => t = s
    <2>1. Bad \in SUBSET (SUBSET T)
      OBVIOUS
    <2> HIDE DEF Bad
    <2> QED
      BY <1>0, <2>1, SmallestSubset
  <1>2. s # {}
    BY DEF AddsUp
  <1> DEFINE t == s \ {Pick(s)}
  <1>3. Pick(s) \in s /\ t \in SUBSET T /\ t # s /\ t \subseteq s
    BY <1>2, PickInSet
  <1>4. g[t] = h[t]
    BY <1>1, <1>3
  <1>5. g[s] = f[Pick(s)] + g[t]
    BY <1>2 DEF AddsUp
  <1>6. h[s] = f[Pick(s)] + h[t]
    BY <1>2 DEF AddsUp
  <1> QED
    BY <1>4, <1>5, <1>6

LEMMA SumExists ==
    ASSUME NEW S, IsFiniteSet(S), NEW f
    PROVE  \E g : AddsUp(g, S, f)
  <1> DEFINE Bad == {T \in SUBSET S : ~\E g : AddsUp(g, T, f)}
  <1> SUFFICES ASSUME Bad # {} PROVE FALSE
    OBVIOUS
  <1>1. PICK T \in Bad : \A U \in Bad : U \subseteq T => U = T
    <2>1. Bad \in SUBSET (SUBSET S)
      OBVIOUS
    <2> HIDE DEF Bad
    <2> QED
      BY <2>1, SmallestSubset
  <1>2. \A U \in SUBSET T : U # T => \E g : AddsUp(g, U, f)
    BY <1>1
  <1> DEFINE G(U) == CHOOSE g : AddsUp(g, U, f)
             Value(s) == IF s = {} THEN 0 ELSE f[Pick(s)] + G(s \ {Pick(s)})[s \ {Pick(s)}]
             g == [s \in SUBSET T |-> Value(s)]
  <1>3. \A U \in SUBSET T : U # T => AddsUp(G(U), U, f)
    BY <1>2
  <1>4. ASSUME NEW s \in SUBSET T, s # {}
        PROVE  G(s \ {Pick(s)})[s \ {Pick(s)}] = Value(s \ {Pick(s)})
    <2> DEFINE t == s \ {Pick(s)}
               v == t \ {Pick(t)}
    <2>1. Pick(s) \in s /\ t \in SUBSET T /\ t # T
      BY <1>4, PickInSet
    <2>2. AddsUp(G(t), t, f)
      BY <1>3, <2>1
    <2>3. CASE t = {}
      BY <2>2, <2>3 DEF AddsUp
    <2>4. CASE t # {}
      <3>1. Pick(t) \in t /\ v \in SUBSET t /\ v \in SUBSET T /\ v # T
        BY <2>1, <2>4, PickInSet
      <3>2. AddsUp(G(v), v, f)
        BY <1>3, <3>1
      <3>3. IsFiniteSet(t)
        BY <2>1, FS_Subset
      <3> HIDE DEF G, t, v
      <3>4. G(t)[v] = G(v)[v]
        BY <2>2, <3>1, <3>2, <3>3, SumUnique
      <3>5. G(t)[t] = f[Pick(t)] + G(t)[t \ {Pick(t)}]
        BY <2>2, <2>4 DEF AddsUp
      <3> QED
        BY <2>4, <3>4, <3>5 DEF t, v
    <2> QED
      BY <2>3, <2>4
  <1>5. AddsUp(g, T, f)
    <2>1. ASSUME NEW s \in SUBSET T
          PROVE  Value(s) = IF s = {} THEN 0 ELSE f[Pick(s)] + g[s \ {Pick(s)}]
      <3>1. CASE s = {}
        BY <3>1
      <3>2. CASE s # {}
        <4>1. s \ {Pick(s)} \in SUBSET T
          OBVIOUS
        <4> HIDE DEF G
        <4> QED
          BY <1>4, <3>2, <4>1
      <3> QED
        BY <3>1, <3>2
    <2> HIDE DEF Value
    <2>2. g = [s \in SUBSET T |-> IF s = {} THEN 0 ELSE f[Pick(s)] + g[s \ {Pick(s)}]]
      BY <2>1
    <2> QED
      BY <2>2 DEF AddsUp
  <1> QED
    BY <1>1, <1>5

\* A sum of integers between two bounds lies between as many times the bounds.
LEMMA SumBounds ==
    ASSUME NEW S, IsFiniteSet(S), NEW f, DOMAIN f = S, NEW lo \in Int, NEW hi \in Int,
           \A x \in S : f[x] \in Int /\ lo <= f[x] /\ f[x] <= hi
    PROVE  /\ SumFunction(f) \in Int
           /\ lo * Cardinality(S) <= SumFunction(f)
           /\ SumFunction(f) <= hi * Cardinality(S)
  <1>1. PICK g : AddsUp(g, S, f) /\ SumFunction(f) = g[S]
    BY SumExists, SumIsChosen
  <1> DEFINE Good(s) == /\ g[s] \in Int
                        /\ lo * Cardinality(s) <= g[s] /\ g[s] <= hi * Cardinality(s)
             Bad == {s \in SUBSET S : ~Good(s)}
  <1>2. SUFFICES ASSUME Bad # {} PROVE FALSE
    BY <1>1
  <1>3. PICK s \in Bad : \A t \in Bad : t \subseteq s => t = s
    <2>1. Bad \in SUBSET (SUBSET S)
      OBVIOUS
    <2> HIDE DEF Bad
    <2> QED
      BY <1>2, <2>1, SmallestSubset
  <1>4. IsFiniteSet(s) /\ Cardinality(s) \in Nat
    BY FS_Subset, FS_CardinalityType
  <1>5. CASE s = {}
    <2>1. g[s] = 0 /\ Cardinality(s) = 0
      BY <1>1, <1>5, FS_EmptySet DEF AddsUp
    <2> QED
      BY <2>1
  <1>6. CASE s # {}
    <2> DEFINE x == Pick(s)
               t == s \ {x}
    <2>1. x \in s /\ t \in SUBSET S /\ t # s /\ t \subseteq s
      BY <1>6, PickInSet
    <2>2. Good(t)
      BY <1>3, <2>1
    <2>3. g[s] = f[x] + g[t]
      BY <1>1, <1>6 DEF AddsUp
    <2>4. Cardinality(s) = Cardinality(t) + 1 /\ Cardinality(t) \in Nat
      <3>1. IsFiniteSet(t) /\ Cardinality(t) = Cardinality(s) - 1
        BY <1>4, <2>1, FS_RemoveElement
      <3>2. Cardinality(t) \in Nat
        BY <3>1, FS_CardinalityType
      <3> QED
        BY <1>4, <3>1, <3>2
    <2>5. f[x] \in Int /\ lo <= f[x] /\ f[x] <= hi
      BY <2>1
    <2> HIDE DEF t, x
    <2>6. lo * (Cardinality(t) + 1) = lo * Cardinality(t) + lo
      BY <2>4
    <2>7. hi * (Cardinality(t) + 1) = hi * Cardinality(t) + hi
      BY <2>4
    <2>8. Good(s)
      BY <2>2, <2>3, <2>4, <2>5, <2>6, <2>7
    <2> QED
      BY <2>8
  <1> QED
    BY <1>5, <1>6

\* Rounding does not leave the bounds between which the quotient lies.
LEMMA RoundedBounds ==
    ASSUME NEW n \in Int, NEW d \in Nat \ {0}, NEW lo \in Int, NEW hi \in Int,
           lo * d <= n, n <= hi * d
    PROVE  Rounded(n, d) \in lo .. hi
  <1> DEFINE m == 2 * n + d
             e == 2 * d
             q == m \div e
  <1>1. m \in Int /\ e \in Nat \ {0}
    OBVIOUS
  <1>2. q \in Int /\ e * q <= m /\ m < e * (q + 1)
    <2> HIDE DEF m, e
    <2> QED
      BY <1>1
  <1>3. lo * d \in Int /\ hi * d \in Int /\ e * lo = 2 * (lo * d) /\ e * hi = 2 * (hi * d)
    OBVIOUS
  <1> HIDE DEF q
  <1>4. ASSUME q < lo PROVE FALSE
    <2>1. q + 1 <= lo
      BY <1>2, <1>4
    <2>2. e * (q + 1) <= e * lo
      BY <1>1, <1>2, <2>1
    <2> QED
      BY <1>1, <1>2, <1>3, <2>2
  <1>5. ASSUME q > hi PROVE FALSE
    <2>1. hi + 1 <= q
      BY <1>2, <1>5
    <2>2. e * (hi + 1) <= e * q
      BY <1>1, <1>2, <2>1
    <2>3. e * (hi + 1) = e * hi + e
      OBVIOUS
    <2> QED
      BY <1>1, <1>2, <1>3, <2>2, <2>3
  <1> QED
    BY <1>2, <1>4, <1>5 DEF q, Rounded

-----------------------------------------------------------------------------
(* Types.                                                                  *)

USE TextAssumption, EmptyAssumption, PageAssumption

LEMMA RowsTyped == TypeOK => Rows \subseteq RunRows /\ IsFiniteSet(Rows)
<1> SUFFICES ASSUME TypeOK PROVE Rows \subseteq RunRows /\ IsFiniteSet(Rows)
  OBVIOUS
<1>1. CASE runs = 0
  BY <1>1, FS_EmptySet DEF Rows
<1>2. CASE runs # 0
  <2>1. runs \in 1..MaxVersion
    BY <1>2 DEF TypeOK
  <2> QED
    BY <1>2, <2>1 DEF Rows
<1> QED
  BY <1>1, <1>2

LEMMA ParseTyped == ASSUME NEW u \in Urls PROVE Parse(u) \in FilterStates
BY DEF Parse, Urls, FilterStates, Sorts, Statuses

LEMMA SerializeTyped ==
  ASSUME NEW s \in FilterStates, NEW u \in Urls
  PROVE  Serialize(s, u) \in Urls
BY DEF Serialize, Urls, FilterStates

LEMMA DefaultsTyped == Defaults \in FilterStates
BY DEF Defaults, FilterStates, Sorts

LEMMA BranchesTyped == TypeOK => UniqueBranches(Rows) \subseteq Texts
BY RowsTyped DEF UniqueBranches, RunRows

LEMMA NewControlsTyped == TypeOK => NewControls \subseteq FilterStates
<1> SUFFICES ASSUME TypeOK, NEW s \in NewControls PROVE s \in FilterStates
  OBVIOUS
<1>0. controls \in FilterStates
  BY DEF TypeOK
<1>1. ASSUME NEW x \in Texts
      PROVE  /\ [controls EXCEPT !.search = x] \in FilterStates
             /\ [controls EXCEPT !.branch = x] \in FilterStates
             /\ [controls EXCEPT !.pipeline = x] \in FilterStates
  BY <1>0 DEF FilterStates
<1>2. ASSUME NEW x \in Statuses \cup {"all"}
      PROVE  [controls EXCEPT !.status = x] \in FilterStates
  BY <1>0 DEF FilterStates
<1>3. ASSUME NEW x \in Sorts
      PROVE  [controls EXCEPT !.sort = x] \in FilterStates
  BY <1>0 DEF FilterStates
<1>4. Typed \cup {Empty} \subseteq Texts /\ {AllText} \cup UniqueBranches(Rows) \subseteq Texts
  BY BranchesTyped
<1>5. \/ \E x \in Texts : \/ s = [controls EXCEPT !.search = x]
                         \/ s = [controls EXCEPT !.branch = x]
                         \/ s = [controls EXCEPT !.pipeline = x]
      \/ \E x \in Statuses \cup {"all"} : s = [controls EXCEPT !.status = x]
      \/ \E x \in Sorts : s = [controls EXCEPT !.sort = x]
  BY <1>4, Zenon DEF NewControls
<1> QED
  BY <1>1, <1>2, <1>3, <1>5

\* The parts of the type invariant: the controls and the URL, the requests,
\* what is shown.
ControlsOK ==
    /\ controls \in FilterStates /\ armed \in BOOLEAN
    /\ url \in Urls /\ seen \in Urls
    /\ edits \in 0 .. MaxEdits
RequestsOK ==
    request \in [Requests -> [at : {"idle", "asked", "answered", "failed"}, got : 0 .. MaxVersion]]
ShownOK ==
    /\ version \in 1 .. MaxVersion /\ runs \in 0 .. MaxVersion
    /\ error \in BOOLEAN /\ loading \in BOOLEAN /\ retries \in 0 .. MaxRetries

LEMMA TypeOKParts == TypeOK <=> ControlsOK /\ RequestsOK /\ ShownOK
BY DEF TypeOK, ControlsOK, RequestsOK, ShownOK

\* Whatever the controls are set to, they stay controls.
LEMMA ShowTyped ==
  ASSUME TypeOK, NEW s \in FilterStates, Show(s)
  PROVE  controls' \in FilterStates /\ armed' \in BOOLEAN
<1>1. armed' \in BOOLEAN
  BY DEF Show, TypeOK
<1> QED
  BY <1>1 DEF Show

LEMMA OperatorStepTyped == TypeOK /\ OperatorStep => edits' \in 0 .. MaxEdits
BY DEF TypeOK, OperatorStep

LEMMA ControlsTyped == TypeOK /\ [Next]_vars => ControlsOK'
<1> SUFFICES ASSUME TypeOK, [Next]_vars PROVE ControlsOK'
  OBVIOUS
<1>0. /\ controls \in FilterStates /\ url \in Urls /\ seen \in Urls /\ edits \in 0 .. MaxEdits
      /\ armed \in BOOLEAN
  BY DEF TypeOK
<1>1. CASE Choose
  BY <1>0, <1>1, NewControlsTyped, ShowTyped, OperatorStepTyped DEF Choose, ControlsOK
<1>2. CASE Reset
  BY <1>0, <1>2, DefaultsTyped, SerializeTyped, ShowTyped, OperatorStepTyped DEF Reset, ControlsOK
<1>3. CASE FollowLink
  <2>1. PICK u \in Links : /\ url' = u /\ seen' = u
                           /\ IF u # seen THEN Show(Parse(u)) ELSE UNCHANGED <<controls, armed>>
    BY <1>3 DEF FollowLink
  <2>2. u \in Urls /\ Parse(u) \in FilterStates
    BY ParseTyped
  <2>3. controls' \in FilterStates /\ armed' \in BOOLEAN
    BY <1>0, <2>1, <2>2, ShowTyped
  <2> QED
    BY <1>3, <2>1, <2>2, <2>3, OperatorStepTyped DEF FollowLink, ControlsOK
<1>4. CASE PopState
  BY <1>0, <1>4, ParseTyped, ShowTyped, OperatorStepTyped DEF PopState, ControlsOK
<1>5. CASE TimerFires
  BY <1>0, <1>5, SerializeTyped DEF TimerFires, ControlsOK
<1>6. CASE RouterCatchesUp
  BY <1>0, <1>6, ParseTyped, ShowTyped DEF RouterCatchesUp, ControlsOK
<1>7. CASE UNCHANGED controlVars
  BY <1>0, <1>7 DEF controlVars, ControlsOK
<1> QED
  BY <1>1, <1>2, <1>3, <1>4, <1>5, <1>6, <1>7 DEF Next, vars, RowsChange, Poll, Retry, Serve, Fail, Apply

LEMMA RequestsTyped == TypeOK /\ [Next]_vars => RequestsOK'
<1> SUFFICES ASSUME TypeOK, [Next]_vars PROVE RequestsOK'
  OBVIOUS
<1> DEFINE R == [at : {"idle", "asked", "answered", "failed"}, got : 0 .. MaxVersion]
<1>0. request \in [Requests -> R] /\ version \in 0 .. MaxVersion /\ 0 \in 0 .. MaxVersion
  BY DEF TypeOK
<1>1. Idle \in R /\ Asked \in R /\ [at |-> "failed", got |-> 0] \in R
      /\ [at |-> "answered", got |-> version] \in R
  BY <1>0 DEF Idle, Asked
<1> HIDE DEF R
<1>2. request' \in [Requests -> R]
  <2>1. CASE Poll
    BY <1>0, <1>1, <2>1 DEF Poll
  <2>2. CASE Retry
    BY <1>1, <2>2 DEF Retry
  <2>3. CASE \E n \in Requests : Serve(n) \/ Fail(n) \/ Apply(n)
    BY <1>0, <1>1, <2>3 DEF Serve, Fail, Apply
  <2>4. CASE UNCHANGED request
    BY <1>0, <2>4
  <2> QED
    BY <2>1, <2>2, <2>3, <2>4 DEF Next, vars, fetchVars, Choose, Reset, FollowLink, PopState,
       TimerFires, RouterCatchesUp, RowsChange
<1> QED
  BY <1>2 DEF R, RequestsOK

LEMMA ShownTyped == TypeOK /\ [Next]_vars => ShownOK'
<1> SUFFICES ASSUME TypeOK, [Next]_vars PROVE ShownOK'
  OBVIOUS
<1> USE DEF TypeOK
<1>1. version' \in 1 .. MaxVersion
  <2>1. CASE RowsChange
    BY <2>1 DEF RowsChange
  <2>2. CASE UNCHANGED version
    BY <2>2
  <2> QED
    BY <2>1, <2>2 DEF Next, vars, Choose, Reset, FollowLink, PopState, TimerFires,
       RouterCatchesUp, Poll, Retry, Serve, Fail, Apply
<1>2. CASE \E n \in Requests : Apply(n)
  <2>1. PICK n \in Requests : Apply(n)
    BY <1>2
  <2>2. runs' \in 0 .. MaxVersion
    BY <2>1 DEF Apply
  <2>3. error' \in BOOLEAN /\ loading' \in BOOLEAN
    BY <2>1 DEF Apply
  <2> QED
    BY <1>1, <2>1, <2>2, <2>3 DEF Apply, ShownOK
<1>3. CASE Retry
  <2>1. loading' \in BOOLEAN
    BY <1>3 DEF Retry
  <2>2. retries' \in 0 .. MaxRetries
    BY <1>3 DEF Retry
  <2> QED
    BY <1>1, <1>3, <2>1, <2>2 DEF Retry, ShownOK
<1>4. CASE UNCHANGED <<runs, error, loading, retries>>
  BY <1>1, <1>4 DEF ShownOK
<1> QED
  BY <1>2, <1>3, <1>4 DEF Next, vars, fetchVars, Choose, Reset, FollowLink, PopState,
     TimerFires, RouterCatchesUp, RowsChange, Poll, Serve, Fail

LEMMA InitTyped == Init => TypeOK
<1> SUFFICES ASSUME Init PROVE TypeOK
  OBVIOUS
<1>1. ControlsOK
  BY ParseTyped DEF Init, ControlsOK
<1>2. RequestsOK
  <2>1. 0 \in 0 .. MaxVersion
    OBVIOUS
  <2> QED
    BY <2>1 DEF Init, RequestsOK, Idle, Asked
<1>3. ShownOK
  <2>1. version \in 1 .. MaxVersion /\ runs \in 0 .. MaxVersion /\ retries \in 0 .. MaxRetries
    BY DEF Init
  <2> QED
    BY <2>1 DEF Init, ShownOK
<1> QED
  BY <1>1, <1>2, <1>3, TypeOKParts

LEMMA NextTyped == TypeOK /\ [Next]_vars => TypeOK'
BY ControlsTyped, RequestsTyped, ShownTyped
DEF TypeOK, ControlsOK, RequestsOK, ShownOK

\* The controls hold a filter the page can show, and the URL and the answers
\* hold what they may, through any links, edits and requests (page.tsx:85-189).
THEOREM TypeCorrect == Spec => []TypeOK
BY InitTyped, NextTyped, PTL DEF Spec

-----------------------------------------------------------------------------
(* The URL is a link to the list.                                          *)

\* Two settings of the controls that keep the same rows in the same order.
SameFilter(a, b) ==
    /\ a.sort = b.sort /\ a.status = b.status
    /\ a.branch = AllText <=> b.branch = AllText
    /\ Lower[Trim[a.branch]] = Lower[Trim[b.branch]]
    /\ NoPipeline(a.pipeline) <=> NoPipeline(b.pipeline)
    /\ ~NoPipeline(a.pipeline) => Trim[a.pipeline] = Trim[b.pipeline]
    /\ Trim[a.search] = Trim[b.search]

\* A branch parameter whose blanks matter: blanks alone select the rows without
\* a branch, and "all" between blanks a branch of that name, until the page
\* writes the trimmed parameter, which selects everything.  The page itself
\* never writes one (runs-filter.ts:231, 277-279).
Plain(branch) == Trim[branch] \in {Empty, AllText} => branch = Trim[branch]

\* No link and no history entry has such a parameter.
PlainLinks == \A u \in Links : Plain(u.branch)

\* What the controls' branch is: "all", or a text with something in it.
Canonical(s) == Plain(s.branch) /\ s.branch # Empty

LEMMA SameList ==
  ASSUME NEW a, NEW b, SameFilter(a, b), NEW rows
  PROVE  FilterAndSort(rows, a) = FilterAndSort(rows, b)
<1>1. ASSUME NEW r \in rows PROVE Keeps(a, r) <=> Keeps(b, r)
  BY DEF SameFilter, Keeps, MatchesPipeline, MatchesSearch
<1>2. {r \in rows : Keeps(a, r)} = {r \in rows : Keeps(b, r)}
  BY <1>1
<1> QED
  BY <1>2 DEF FilterAndSort, SameFilter

LEMMA SameFilterReflexive == ASSUME NEW s PROVE SameFilter(s, s)
BY DEF SameFilter

LEMMA ParseCanonical ==
  ASSUME NEW u \in Urls, Plain(u.branch)
  PROVE  Canonical(Parse(u))
BY DEF Parse, Canonical, Plain

LEMMA SerializePlain ==
  ASSUME NEW s \in FilterStates, NEW u \in Urls
  PROVE  Plain(Serialize(s, u).branch)
<1>1. s.branch \in Texts
  BY DEF FilterStates
<1>2. Serialize(s, u).branch \in {Empty, Trim[s.branch]}
  BY DEF Serialize, Urls
<1> QED
  BY <1>1, <1>2 DEF Plain

\* What the page writes reads back as the filter it was written from.
LEMMA ReadsBack ==
  ASSUME NEW s \in FilterStates, Canonical(s), NEW u \in Urls
  PROVE  SameFilter(Parse(Serialize(s, u)), s)
<1> DEFINE w == Serialize(s, u)
           p == Parse(w)
<1>1. /\ s.search \in Texts /\ s.branch \in Texts /\ s.pipeline \in Texts
      /\ s.status \in Statuses \cup {"all"} /\ s.sort \in Sorts
  BY DEF FilterStates
<1>2. /\ w.q = Trim[s.search]
      /\ w.status = IF s.status = "all" THEN Empty ELSE s.status
      /\ w.branch = IF s.branch = AllText THEN Empty ELSE Trim[s.branch]
      /\ w.pipeline = IF NoPipeline(s.pipeline) THEN Empty ELSE Trim[s.pipeline]
      /\ w.sort = IF s.sort = "newest" THEN Empty ELSE s.sort
  BY DEF Serialize, Urls, Canonical
<1> HIDE DEF w
<1>3. p.sort = s.sort
  BY <1>1, <1>2 DEF Parse
<1>4. p.status = s.status
  BY <1>1, <1>2 DEF Parse
<1>5. Trim[p.search] = Trim[s.search]
  BY <1>1, <1>2 DEF Parse
<1>6. p.branch = IF s.branch = AllText THEN AllText ELSE Trim[s.branch]
  BY <1>1, <1>2 DEF Parse, Canonical, Plain
<1>7. /\ p.branch = AllText <=> s.branch = AllText
      /\ Trim[p.branch] = Trim[s.branch]
  BY <1>1, <1>6 DEF Canonical, Plain
<1>8. p.pipeline = IF Lower[Trim[w.pipeline]] = AllText THEN Empty ELSE Trim[w.pipeline]
  BY DEF Parse
<1> HIDE DEF p
<1>9. NoPipeline(s.pipeline) => NoPipeline(p.pipeline)
  BY <1>2, <1>8 DEF NoPipeline
<1>10. ASSUME ~NoPipeline(s.pipeline)
       PROVE  ~NoPipeline(p.pipeline) /\ Trim[p.pipeline] = Trim[s.pipeline]
  <2>1. w.pipeline = Trim[s.pipeline] /\ Trim[w.pipeline] = Trim[s.pipeline]
    BY <1>1, <1>2, <1>10
  <2>2. p.pipeline = Trim[s.pipeline] /\ Trim[p.pipeline] = Trim[s.pipeline]
    BY <1>1, <1>8, <1>10, <2>1 DEF NoPipeline
  <2> QED
    BY <1>10, <2>2 DEF NoPipeline
<1>11. SameFilter(p, s)
  BY <1>3, <1>4, <1>5, <1>7, <1>9, <1>10 DEF SameFilter
<1> QED
  BY <1>11 DEF p, w

\* Nothing waits to be written, unless the URL means what the controls say.
LinkInv ==
    /\ Plain(url.branch) /\ Plain(seen.branch) /\ Canonical(controls)
    /\ ~armed => SameFilter(Parse(url), controls)

LEMMA InitLink == PlainLinks /\ Init => LinkInv
BY ParseCanonical, SameFilterReflexive DEF PlainLinks, Init, LinkInv

LEMMA NewControlsCanonical ==
  ASSUME TypeOK, LinkInv, NEW s \in NewControls
  PROVE  Canonical(s)
<1>1. controls \in FilterStates /\ Canonical(controls)
  BY DEF TypeOK, LinkInv
<1>2. CASE s.branch = controls.branch
  BY <1>1, <1>2 DEF Canonical
<1>3. CASE s.branch \in {AllText} \cup UniqueBranches(Rows)
  <2>1. ASSUME NEW b \in UniqueBranches(Rows) PROVE Plain(b) /\ b # Empty
    <3>1. PICK r \in Rows : b = Trim[r.branch]
      BY DEF UniqueBranches
    <3>2. r.branch \in Texts
      BY RowsTyped DEF RunRows
    <3> QED
      BY <3>1, <3>2 DEF UniqueBranches, Plain
  <2> QED
    BY <1>3, <2>1 DEF Canonical, Plain
<1>4. s.branch = controls.branch \/ s.branch \in {AllText} \cup UniqueBranches(Rows)
  BY <1>1 DEF NewControls, FilterStates
<1> QED
  BY <1>2, <1>3, <1>4

\* After the controls were set, nothing waits only if they were set to what
\* they were.
LEMMA ShowLink ==
  ASSUME TypeOK, LinkInv, NEW s, Show(s)
  PROVE  ~armed' => s = controls /\ controls' = controls /\ ~armed
BY DEF Show

LEMMA NextLink == PlainLinks /\ TypeOK /\ LinkInv /\ [Next]_vars => LinkInv'
<1> SUFFICES ASSUME PlainLinks, TypeOK, LinkInv, [Next]_vars PROVE LinkInv'
  OBVIOUS
<1>0. controls \in FilterStates /\ url \in Urls /\ seen \in Urls
  BY DEF TypeOK
<1>1. CASE Choose
  <2>1. PICK s \in NewControls \ {controls} : Show(s)
    BY <1>1 DEF Choose
  <2> QED
    BY <1>1, <2>1, NewControlsCanonical, ShowLink DEF Choose, LinkInv, Show
<1>2. CASE Reset
  <2>1. Canonical(Defaults)
    BY DEF Defaults, Canonical, Plain
  <2>2. SameFilter(Parse(url'), Defaults) /\ Plain(url'.branch)
    BY <1>0, <1>2, <2>1, DefaultsTyped, ReadsBack, SerializePlain DEF Reset
  <2> QED
    BY <1>2, <2>1, <2>2 DEF Reset, LinkInv, Show
<1>3. CASE FollowLink
  <2>1. PICK u \in Links : /\ url' = u /\ seen' = u
                           /\ IF u # seen THEN Show(Parse(u)) ELSE UNCHANGED <<controls, armed>>
    BY <1>3 DEF FollowLink
  <2>2. u \in Urls /\ Plain(u.branch) /\ Canonical(Parse(u))
    BY ParseCanonical DEF PlainLinks
  <2>3. CASE u # seen
    BY <2>1, <2>2, <2>3, SameFilterReflexive DEF LinkInv, Show
  <2>4. CASE u = seen
    BY <1>3, <2>1, <2>2, <2>4 DEF LinkInv, FollowLink
  <2> QED
    BY <2>3, <2>4
<1>4. CASE PopState
  <2>1. PICK u \in Links : url' = u /\ Show(Parse(u))
    BY <1>4 DEF PopState
  <2>2. u \in Urls /\ Plain(u.branch) /\ Canonical(Parse(u))
    BY ParseCanonical DEF PlainLinks
  <2> QED
    BY <1>4, <2>1, <2>2, SameFilterReflexive DEF LinkInv, PopState, Show
<1>5. CASE TimerFires
  BY <1>0, <1>5, ReadsBack, SerializePlain DEF TimerFires, LinkInv
<1>6. CASE RouterCatchesUp
  BY <1>0, <1>6, ParseCanonical, SameFilterReflexive DEF RouterCatchesUp, LinkInv, Show
<1>7. CASE UNCHANGED controlVars
  BY <1>7 DEF controlVars, LinkInv
<1> QED
  BY <1>1, <1>2, <1>3, <1>4, <1>5, <1>6, <1>7 DEF Next, vars, RowsChange, Poll, Retry, Serve, Fail, Apply

\* A page whose timer is off, and which the router has caught up with, shows the
\* list that its URL describes, whatever links, history, timer and router did
\* before (page.tsx:98-142).
THEOREM LinkIsFaithful ==
  ASSUME PlainLinks
  PROVE  Spec => []LinkRestoresList
<1>1. Init => LinkInv
  BY InitLink
<1>2. TypeOK /\ LinkInv /\ [Next]_vars => LinkInv'
  BY NextLink
<1>3. LinkInv => LinkRestoresList
  BY SameList DEF LinkInv, LinkRestoresList
<1> QED
  BY <1>1, <1>2, <1>3, TypeCorrect, PTL DEF Spec

-----------------------------------------------------------------------------
(* The cards.                                                              *)

LEMMA RowsAreRows == TypeOK => AreRows(Rows)
<1> SUFFICES ASSUME TypeOK PROVE AreRows(Rows)
  OBVIOUS
<1>1. CASE runs = 0
  BY <1>1, FS_EmptySet DEF Rows, AreRows
<1>2. CASE runs # 0
  <2>1. runs \in 1 .. MaxVersion
    BY <1>2 DEF TypeOK
  <2> QED
    BY <1>2, <2>1 DEF Rows, AreRows
<1> QED
  BY <1>1, <1>2

LEMMA EmptyCounts == Cardinality({}) = 0
BY FS_EmptySet

\* Part of a finite set of rows.
LEMMA PartOf ==
  ASSUME NEW rows, IsFiniteSet(rows), NEW part \in SUBSET rows
  PROVE  /\ IsFiniteSet(part) /\ Cardinality(part) \in Nat
         /\ Cardinality(part) <= Cardinality(rows)
BY FS_Subset, FS_CardinalityType

With(rows, status) == {r \in rows : r.status = status}

\* With only its status filter set, the list holds the rows of that status.
LEMMA StatusFilter ==
  ASSUME NEW rows, IsFiniteSet(rows), NEW status \in Statuses \cup {"all"}
  PROVE  Len(FilterAndSort(rows, [Defaults EXCEPT !.status = status])) =
           IF status = "all" THEN Cardinality(rows) ELSE Cardinality(With(rows, status))
<1> DEFINE s == [Defaults EXCEPT !.status = status]
           kept == {r \in rows : Keeps(s, r)}
<1>1. /\ s.search = Empty /\ s.status = status /\ s.branch = AllText /\ s.pipeline = Empty
  BY DEF Defaults
<1> HIDE DEF s
<1>2. kept = IF status = "all" THEN rows ELSE With(rows, status)
  BY <1>1 DEF Keeps, NoPipeline, MatchesSearch, With, Statuses
<1>3. Cardinality(kept) \in Nat
  BY PartOf
<1> HIDE DEF kept
<1>4. Len(SortedBy(kept, s.sort)) = Cardinality(kept)
  BY <1>3 DEF SortedBy
<1>5. FilterAndSort(rows, s) = SortedBy(kept, s.sort)
  BY DEF FilterAndSort, kept
<1> QED
  BY <1>2, <1>4, <1>5 DEF s

\* Every row is in progress or completed.
LEMMA CompletedIsRest ==
  ASSUME NEW rows, AreRows(rows)
  PROVE  LET m == Metrics(rows) IN m.completed = m.total - m.active
<1> DEFINE completed == {r \in rows : r.status \in {"success", "failed", "cancelled"}}
           running == With(rows, "running")
           pending == With(rows, "pending")
           active == running \cup pending
<1>1. IsFiniteSet(completed) /\ IsFiniteSet(running) /\ IsFiniteSet(pending)
  BY PartOf DEF AreRows, With
<1>2. Cardinality(active) = Cardinality(running) + Cardinality(pending) /\ IsFiniteSet(active)
  <2>1. running \cap pending = {}
    BY DEF With
  <2>2. /\ IsFiniteSet(active)
        /\ Cardinality(active) =
             Cardinality(running) + Cardinality(pending) - Cardinality(running \cap pending)
    BY <1>1, FS_Union
  <2>3. Cardinality(running) \in Nat /\ Cardinality(pending) \in Nat
    BY <1>1, FS_CardinalityType
  <2>4. Cardinality(running \cap pending) = 0
    BY <2>1, EmptyCounts
  <2> HIDE DEF running, pending
  <2> QED
    BY <2>2, <2>3, <2>4
<1>3. Cardinality(rows) = Cardinality(completed) + Cardinality(active)
  <2>1. rows = completed \cup active
    BY DEF AreRows, RunRows, Statuses, With
  <2>2. completed \cap active = {}
    BY DEF With
  <2>3. Cardinality(completed \cup active) =
          Cardinality(completed) + Cardinality(active) - Cardinality(completed \cap active)
    BY <1>1, <1>2, FS_Union
  <2>4. Cardinality(completed) \in Nat /\ Cardinality(active) \in Nat
    BY <1>1, <1>2, FS_CardinalityType
  <2>5. Cardinality(completed \cap active) = 0
    BY <2>2, EmptyCounts
  <2> HIDE DEF completed, active
  <2> QED
    BY <2>1, <2>3, <2>4, <2>5
<1>4. Cardinality(completed) \in Nat /\ Cardinality(running) \in Nat /\ Cardinality(pending) \in Nat
  BY <1>1, FS_CardinalityType
<1>5. /\ Metrics(rows).completed = Cardinality(completed)
      /\ Metrics(rows).total = Cardinality(rows)
      /\ Metrics(rows).active = Cardinality(running) + Cardinality(pending)
  BY DEF Metrics, With
<1> HIDE DEF completed, running, pending, active
<1> QED
  BY <1>2, <1>3, <1>4, <1>5

LEMMA PassRateIsPercentage ==
  ASSUME NEW rows, AreRows(rows), Metrics(rows).completed > 0
  PROVE  Metrics(rows).passRate \in 0 .. 100
<1> DEFINE completed == {r \in rows : r.status \in {"success", "failed", "cancelled"}}
           c == Cardinality(completed)
           n == Cardinality(With(rows, "success"))
<1>1. IsFiniteSet(completed) /\ c \in Nat
  BY PartOf DEF AreRows
<1>2. n \in Nat /\ n <= c
  <2>1. With(rows, "success") \in SUBSET completed
    BY DEF With
  <2> QED
    BY <1>1, <2>1, PartOf
<1>3. c > 0 /\ completed # {}
  <2>1. c > 0
    BY DEF Metrics
  <2>2. completed = {} => c = 0
    BY EmptyCounts
  <2> QED
    BY <2>1, <2>2
<1>4. Metrics(rows).passRate = Rounded(100 * n, c)
  BY <1>3 DEF Metrics, With
<1> HIDE DEF c, n
<1>5. 100 * n \in Int /\ c \in Nat \ {0} /\ 0 * c <= 100 * n /\ 100 * n <= 100 * c
  BY <1>1, <1>2, <1>3
<1>6. Rounded(100 * n, c) \in 0 .. 100
  BY <1>5, RoundedBounds, 0 \in Int, 100 \in Int
<1> QED
  BY <1>4, <1>6

\* With only its order set, the list holds all rows, in that order.
LEMMA SortOnly ==
  ASSUME NEW rows, NEW sort \in Sorts
  PROVE  FilterAndSort(rows, [Defaults EXCEPT !.sort = sort]) = SortedBy(rows, sort)
<1> DEFINE s == [Defaults EXCEPT !.sort = sort]
<1>1. /\ s.search = Empty /\ s.status = "all" /\ s.branch = AllText /\ s.pipeline = Empty
      /\ s.sort = sort
  BY DEF Defaults
<1> HIDE DEF s
<1>2. {r \in rows : Keeps(s, r)} = rows
  BY <1>1 DEF Keeps, NoPipeline, MatchesSearch
<1>3. FilterAndSort(rows, s) = SortedBy(rows, sort)
  BY <1>1, <1>2 DEF FilterAndSort
<1> QED
  BY <1>3 DEF s

\* A row comes first that no other is put before.
LEMMA FirstRow ==
  ASSUME NEW rows, AreRows(rows), rows # {}, NEW sort \in Sorts
  PROVE  LET first == SortedBy(rows, sort)[1]
         IN first \in rows /\ \A r \in rows : r = first \/ Before(first, r, sort)
<1> DEFINE list == SortedBy(rows, sort)
           n == Cardinality(rows)
<1>1. n \in Nat /\ n # 0
  BY FS_CardinalityType, FS_EmptySet DEF AreRows
<1>2. /\ list \in [1 .. n -> rows]
      /\ \A r \in rows : \E i \in 1 .. n : list[i] = r
      /\ \A i, j \in 1 .. n : i < j => Before(list[i], list[j], sort)
  BY ListIsSorted
<1> HIDE DEF list, n
<1>3. 1 \in 1 .. n
  BY <1>1
<1>4. ASSUME NEW r \in rows PROVE r = list[1] \/ Before(list[1], r, sort)
  <2>1. PICK i \in 1 .. n : list[i] = r
    BY <1>2
  <2>2. i = 1 \/ 1 < i
    BY <1>1
  <2> QED
    BY <1>2, <1>3, <2>1, <2>2
<1> QED
  BY <1>2, <1>3, <1>4 DEF list

\* The rows the average is taken over, and what they took.
Timed(rows) == {r \in rows : CompletedDuration(r) # NoDuration}

LEMMA AverageIsOfTimed ==
  ASSUME NEW rows, AreRows(rows)
  PROVE  Metrics(rows).average =
           IF Timed(rows) = {} THEN NoValue
           ELSE Rounded(SumFunction([r \in Timed(rows) |-> CompletedDuration(r)]),
                        Cardinality(Timed(rows)))
<1> DEFINE completed == {r \in rows : r.status \in {"success", "failed", "cancelled"}}
           timed == {r \in completed : r.started > 0 /\ r.finished > 0 /\ r.finished >= r.started}
<1>1. timed = Timed(rows)
  <2>1. ASSUME NEW r \in rows
        PROVE  r \in timed <=> CompletedDuration(r) # NoDuration
    <3>1. r.started \in Int /\ r.finished \in Int /\ r.status \in Statuses
      BY DEF AreRows, RunRows, Stamps, Unusable
    <3> QED
      BY <3>1 DEF CompletedDuration, NoDuration, Statuses
  <2> QED
    BY <2>1 DEF Timed
<1>2. ASSUME NEW r \in timed PROVE r.finished - r.started = CompletedDuration(r)
  BY <1>2 DEF CompletedDuration, AreRows, RunRows, Stamps, Unusable
<1>3. [r \in timed |-> r.finished - r.started] = [r \in Timed(rows) |-> CompletedDuration(r)]
  BY <1>1, <1>2
<1>4. Metrics(rows).average =
        IF timed = {} THEN NoValue
        ELSE Rounded(SumFunction([r \in timed |-> r.finished - r.started]), Cardinality(timed))
  BY DEF Metrics
<1> HIDE DEF timed
<1> QED
  BY <1>1, <1>3, <1>4

LEMMA AverageIsBetween ==
  ASSUME NEW rows, AreRows(rows), Timed(rows) # {}
  PROVE  /\ Metrics(rows).average >= CompletedDuration(SortedBy(rows, "duration-asc")[1])
         /\ Metrics(rows).average <= CompletedDuration(SortedBy(rows, "duration-desc")[1])
<1> DEFINE fastest == SortedBy(rows, "duration-asc")[1]
           slowest == SortedBy(rows, "duration-desc")[1]
           lo == CompletedDuration(fastest)
           hi == CompletedDuration(slowest)
           timed == Timed(rows)
           f == [r \in timed |-> CompletedDuration(r)]
<1>0. rows # {} /\ timed \in SUBSET rows /\ "duration-asc" \in Sorts /\ "duration-desc" \in Sorts
  BY DEF Timed, Sorts
<1>1. fastest \in rows /\ \A r \in rows : r = fastest \/ Before(fastest, r, "duration-asc")
  BY <1>0, FirstRow
<1>2. slowest \in rows /\ \A r \in rows : r = slowest \/ Before(slowest, r, "duration-desc")
  BY <1>0, FirstRow
<1> HIDE DEF fastest, slowest
<1>3. \A r \in rows : CompletedDuration(r) \in Int
  BY TimesAreIntegers DEF AreRows
<1>4. ASSUME NEW r \in timed
      PROVE  f[r] \in Int /\ lo <= f[r] /\ f[r] <= hi
  <2>1. r \in rows /\ f[r] = CompletedDuration(r) /\ f[r] \in Int /\ f[r] # NoDuration
    BY <1>3 DEF Timed
  <2>2. lo <= f[r]
    BY <1>1, <1>3, <2>1 DEF Before, FastestFirst
  <2>3. f[r] <= hi
    BY <1>2, <1>3, <2>1 DEF Before, SlowestFirst
  <2> QED
    BY <2>1, <2>2, <2>3
<1>5. IsFiniteSet(timed) /\ Cardinality(timed) \in Nat \ {0}
  <2>1. IsFiniteSet(timed)
    BY <1>0, PartOf DEF AreRows
  <2> QED
    BY <2>1, FS_CardinalityType, FS_EmptySet
<1>6. lo \in Int /\ hi \in Int
  BY <1>1, <1>2, <1>3
<1>7. Metrics(rows).average = Rounded(SumFunction(f), Cardinality(timed))
  BY AverageIsOfTimed
<1>8. DOMAIN f = timed
  OBVIOUS
<1> HIDE DEF f, lo, hi, timed
<1>9. /\ SumFunction(f) \in Int
      /\ lo * Cardinality(timed) <= SumFunction(f) /\ SumFunction(f) <= hi * Cardinality(timed)
  BY <1>4, <1>5, <1>6, <1>8, SumBounds
<1>10. Rounded(SumFunction(f), Cardinality(timed)) \in lo .. hi
  BY <1>5, <1>6, <1>9, RoundedBounds
<1> QED
  BY <1>6, <1>7, <1>10 DEF lo, hi, fastest, slowest

\* The cards say of the rows what the list shows of them, for all rows: each
\* count is the length of a filtered list, the rate is one, and the average lies
\* between the first rows of the lists sorted by duration
\* (runs-filter.ts:312-365 against 42-56 and 91-210).
THEOREM CardsAgree == Spec => []CardsAgreeWithList
<1>1. TypeOK => CardsAgreeWithList
  <2> SUFFICES ASSUME TypeOK PROVE CardsAgreeWithList
    OBVIOUS
  <2> DEFINE m == Metrics(Rows)
             Count(status) == Len(FilterAndSort(Rows, [Defaults EXCEPT !.status = status]))
             First(sort) == FilterAndSort(Rows, [Defaults EXCEPT !.sort = sort])[1]
  <2>1. AreRows(Rows) /\ IsFiniteSet(Rows)
    BY RowsAreRows DEF AreRows
  <2>2. /\ m.total = Count("all") /\ m.succeeded = Count("success") /\ m.failed = Count("failed")
        /\ m.active = Count("running") + Count("pending")
    <3>1. /\ m.total = Cardinality(Rows)
          /\ m.succeeded = Cardinality(With(Rows, "success"))
          /\ m.failed = Cardinality(With(Rows, "failed"))
          /\ m.active = Cardinality(With(Rows, "running")) + Cardinality(With(Rows, "pending"))
      BY DEF Metrics, With
    <3>2. Count("all") = Cardinality(Rows)
      BY <2>1, StatusFilter
    <3>3. \A status \in Statuses : status # "all" /\ Count(status) = Cardinality(With(Rows, status))
      BY <2>1, StatusFilter DEF Statuses
    <3> HIDE DEF m, Count
    <3> QED
      BY <3>1, <3>2, <3>3 DEF Statuses
  <2>3. m.completed = m.total - m.active
    BY <2>1, CompletedIsRest
  <2>4. m.completed > 0 => m.passRate \in 0 .. 100
    BY <2>1, PassRateIsPercentage
  <2>5. CASE Timed(Rows) = {}
    <3>1. m.average = NoValue
      BY <2>1, <2>5, AverageIsOfTimed
    <3>2. \A r \in Rows : CompletedDuration(r) = NoDuration
      BY <2>5 DEF Timed
    <3> HIDE DEF m, Count
    <3> QED
      BY <2>2, <2>3, <2>4, <3>1, <3>2 DEF CardsAgreeWithList, m, Count
  <2>6. CASE Timed(Rows) # {}
    <3>1. /\ First("duration-asc") = SortedBy(Rows, "duration-asc")[1]
          /\ First("duration-desc") = SortedBy(Rows, "duration-desc")[1]
      BY SortOnly DEF Sorts
    <3>2. /\ m.average >= CompletedDuration(First("duration-asc"))
          /\ m.average <= CompletedDuration(First("duration-desc"))
      BY <2>1, <2>6, <3>1, AverageIsBetween
    <3> QED
      BY <2>2, <2>3, <2>4, <3>2 DEF CardsAgreeWithList
  <2> QED
    BY <2>5, <2>6
<1> QED
  BY <1>1, TypeCorrect, PTL

\* What is on the screen is what the URL says and what the cards say, for every
\* row and text; of the links it is assumed that they are plain.
THEOREM ScreenIsTrue ==
  ASSUME PlainLinks
  PROVE  Spec => []ScreenAgrees
<1>1. LinkRestoresList /\ CardsAgreeWithList => ScreenAgrees
  BY DEF ScreenAgrees
<1>2. Spec => []LinkRestoresList
  BY LinkIsFaithful
<1> QED
  BY <1>1, <1>2, CardsAgree, PTL
=============================================================================
