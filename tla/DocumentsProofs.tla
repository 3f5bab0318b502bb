---------------------------- MODULE DocumentsProofs ----------------------------
(***************************************************************************)
(* Theorems about Documents, for any components, packages, definitions and *)
(* rings, and whatever order packages are mirrored in.                     *)
(***************************************************************************)
EXTENDS Documents, FiniteSetTheorems, FunctionTheorems, WellFoundedInduction, TLAPS

-----------------------------------------------------------------------------
(***************************************************************************)
(* Induction and recursion.                                                *)
(***************************************************************************)
LEMMA LeastNumber ==
  ASSUME NEW N \in SUBSET Nat, N # {}
  PROVE  \E n \in N : \A m \in N : n <= m
<1> DEFINE Less == {p \in Nat \X Nat : p[1] < p[2]}
<1>1. Less = OpToRel(<, Nat)
  BY Zenon DEF OpToRel
<1>2. IsWellFoundedOn(Less, Nat)
  BY <1>1, NatLessThanWellFounded, Zenon
<1>3. PICK n \in N : \A m \in N : <<m, n>> \notin Less
  <2> HIDE DEF Less
  <2> QED BY <1>2, WFMin
<1>4. ASSUME NEW m \in N PROVE ~(m < n)
  <2>1. m < n => <<m, n>> \in Less
    OBVIOUS
  <2> QED BY <2>1, <1>3
<1> QED BY <1>4

LEMMA Induction ==
  ASSUME NEW N \in SUBSET Nat, 0 \in N, \A n \in N : n + 1 \in N
  PROVE  N = Nat
<1> SUFFICES ASSUME N # Nat PROVE FALSE
  OBVIOUS
<1>1. PICK n \in Nat \ N : \A m \in Nat \ N : n <= m
  <2>1. Nat \ N \in SUBSET Nat /\ Nat \ N # {}
    OBVIOUS
  <2> QED BY <2>1, LeastNumber
<1>2. n - 1 \in Nat /\ n - 1 \in N
  BY <1>1
<1> QED BY <1>1, <1>2

-----------------------------------------------------------------------------
(***************************************************************************)
(* Sorting and selecting.                                                  *)
(***************************************************************************)
IsOrder(S, order) ==
  /\ \A x \in S : <<x, x>> \notin order
  /\ \A x, y \in S : x # y => <<x, y>> \in order \/ <<y, x>> \in order
  /\ \A x, y, z \in S : <<x, y>> \in order /\ <<y, z>> \in order => <<x, z>> \in order

\* Each element has a place of its own, so every place is taken.
LEMMA SortedSet ==
  ASSUME NEW S, IsFiniteSet(S), NEW order, IsOrder(S, order)
  PROVE  /\ Cardinality(S) \in Nat
         /\ Sorted(S, order) \in [1 .. Cardinality(S) -> S]
         /\ ToSet(Sorted(S, order)) = S
         /\ \A m, n \in 1 .. Cardinality(S) :
              m < n <=> <<Sorted(S, order)[m], Sorted(S, order)[n]>> \in order
<1> DEFINE Before(x) == {y \in S : <<y, x>> \in order}
           before == [x \in S |-> Cardinality(Before(x))]
           count == Cardinality(S)
           sorted == [n \in 1 .. count |-> CHOOSE x \in S : before[x] = n - 1]
<1>1. count \in Nat
  BY FS_CardinalityType
<1>2. \A x \in S : IsFiniteSet(Before(x)) /\ Cardinality(Before(x)) \in 0 .. count - 1
  <2> SUFFICES ASSUME NEW x \in S
               PROVE  IsFiniteSet(Before(x)) /\ Cardinality(Before(x)) \in 0 .. count - 1
    OBVIOUS
  <2>1. Before(x) \in SUBSET S /\ Before(x) # S
    BY DEF IsOrder
  <2>2. IsFiniteSet(Before(x)) /\ Cardinality(Before(x)) \in Nat
    BY <2>1, FS_Subset, FS_CardinalityType
  <2>3. Cardinality(Before(x)) <= count /\ Cardinality(Before(x)) # count
    BY <2>1, FS_Subset
  <2> HIDE DEF Before
  <2> QED BY <1>1, <2>2, <2>3
<1>3. ASSUME NEW x \in S, NEW y \in S, <<x, y>> \in order
      PROVE  before[x] < before[y]
  <2>1. Before(x) \in SUBSET Before(y) /\ Before(x) # Before(y)
    BY <1>3 DEF IsOrder
  <2>2. Cardinality(Before(x)) <= Cardinality(Before(y))
        /\ Cardinality(Before(x)) # Cardinality(Before(y))
    BY <1>2, <2>1, FS_Subset
  <2> HIDE DEF Before
  <2> QED BY <1>1, <1>2, <2>2
<1>4. before \in Injection(S, 0 .. count - 1)
  <2>1. before \in [S -> 0 .. count - 1]
    <3> HIDE DEF Before
    <3> QED BY <1>2
  <2>2. \A x, y \in S : x # y => before[x] # before[y]
    <3> SUFFICES ASSUME NEW x \in S, NEW y \in S, x # y PROVE before[x] # before[y]
      OBVIOUS
    <3>1. before[x] \in Nat /\ before[y] \in Nat
      <4> HIDE DEF before
      <4> QED BY <2>1, <1>1
    <3>2. before[x] < before[y] \/ before[y] < before[x]
      <4> HIDE DEF before
      <4> QED BY <1>3 DEF IsOrder
    <3> HIDE DEF before
    <3> QED BY <3>1, <3>2
  <2> HIDE DEF before
  <2> QED BY <2>1, <2>2 DEF Injection, IsInjective
<1>5. before \in Surjection(S, 0 .. count - 1)
  <2>1. IsFiniteSet(0 .. count - 1) /\ Cardinality(0 .. count - 1) = count
    <3> HIDE DEF count
    <3> QED BY <1>1, FS_Interval
  <2> HIDE DEF before
  <2> QED BY <1>4, <2>1, FS_Injection
<1>6. \A n \in 1 .. count : sorted[n] \in S /\ before[sorted[n]] = n - 1
  <2> SUFFICES ASSUME NEW n \in 1 .. count
               PROVE  sorted[n] \in S /\ before[sorted[n]] = n - 1
    OBVIOUS
  <2>1. \E x \in S : before[x] = n - 1
    <3>1. n - 1 \in 0 .. count - 1
      <4> HIDE DEF count
      <4> QED BY <1>1
    <3> HIDE DEF before
    <3> QED BY <1>5, <3>1 DEF Surjection
  <2> HIDE DEF before, count
  <2> QED BY <2>1
<1>7. Sorted(S, order) = sorted
  BY DEF Sorted
<1>8. sorted \in [1 .. count -> S]
  <2> HIDE DEF before, count
  <2> QED BY <1>6
<1>9. \A x \in S : before[x] + 1 \in 1 .. count /\ sorted[before[x] + 1] = x
  <2> SUFFICES ASSUME NEW x \in S
               PROVE  before[x] + 1 \in 1 .. count /\ sorted[before[x] + 1] = x
    OBVIOUS
  <2>1. before[x] \in 0 .. count - 1 /\ before[x] + 1 \in 1 .. count
    <3>1. before[x] \in 0 .. count - 1
      <4> HIDE DEF before
      <4> QED BY <1>4 DEF Injection
    <3> HIDE DEF before, count
    <3> QED BY <3>1, <1>1
  <2>2. sorted[before[x] + 1] \in S /\ before[sorted[before[x] + 1]] = before[x]
    <3> HIDE DEF before, count, sorted
    <3> QED BY <2>1, <1>6, <1>1
  <2> HIDE DEF before, count, sorted
  <2> QED BY <2>1, <2>2, <1>4 DEF Injection, IsInjective
<1>10. ToSet(sorted) = S
  <2> HIDE DEF before, count, sorted
  <2> QED BY <1>8, <1>9 DEF ToSet
<1>11. ASSUME NEW m \in 1 .. count, NEW n \in 1 .. count
       PROVE  m < n <=> <<sorted[m], sorted[n]>> \in order
  <2>1. sorted[m] \in S /\ sorted[n] \in S /\ before[sorted[m]] = m - 1 /\ before[sorted[n]] = n - 1
    BY <1>6
  <2>2. <<sorted[m], sorted[n]>> \in order => m - 1 < n - 1
    <3> HIDE DEF before, sorted, count
    <3> QED BY <2>1, <1>3
  <2>3. <<sorted[n], sorted[m]>> \in order => n - 1 < m - 1
    <3> HIDE DEF before, sorted, count
    <3> QED BY <2>1, <1>3
  <2>4. sorted[m] = sorted[n] => m - 1 = n - 1 /\ <<sorted[m], sorted[n]>> \notin order
    <3> HIDE DEF before, sorted, count
    <3> QED BY <2>1 DEF IsOrder
  <2>5. m \in Int /\ n \in Int
    <3> HIDE DEF count
    <3> QED BY <1>1
  <2> HIDE DEF before, sorted, count
  <2> QED BY <2>1, <2>2, <2>3, <2>4, <2>5 DEF IsOrder
<1> HIDE DEF sorted
<1> QED BY <1>1, <1>7, <1>8, <1>10, <1>11

LEMMA IncreasingOrder ==
  ASSUME NEW N \in SUBSET Nat
  PROVE  IsOrder(N, Increasing(N))
<1>1. \A x, y \in N : <<x, y>> \in Increasing(N) <=> x < y
  BY DEF Increasing
<1> QED BY <1>1 DEF IsOrder

LEMMA SelectedSet ==
  ASSUME NEW S, NEW s \in Seq(S), NEW T
  PROVE  /\ Select(s, T) \in Seq(S)
         /\ ToSet(Select(s, T)) = ToSet(s) \cap T
<1> DEFINE taken == {i \in DOMAIN s : s[i] \in T}
           places == Sorted(taken, Increasing(taken))
<1>1. taken \in SUBSET (1 .. Len(s)) /\ taken \in SUBSET Nat /\ IsFiniteSet(taken)
  <2>1. taken \in SUBSET (1 .. Len(s)) /\ taken \in SUBSET Nat
    OBVIOUS
  <2>2. IsFiniteSet(1 .. Len(s))
    BY FS_Interval
  <2> HIDE DEF taken
  <2> QED BY <2>1, <2>2, FS_Subset
<1>2. /\ Cardinality(taken) \in Nat
      /\ places \in [1 .. Cardinality(taken) -> taken]
      /\ ToSet(places) = taken
  <2> HIDE DEF taken
  <2> QED BY <1>1, IncreasingOrder, SortedSet
<1>3. Select(s, T) = [n \in 1 .. Cardinality(taken) |-> s[places[n]]]
  <2>1. DOMAIN places = 1 .. Cardinality(taken)
    <3> HIDE DEF taken, places
    <3> QED BY <1>2
  <2> QED BY <2>1 DEF Select
<1>4. \A n \in 1 .. Cardinality(taken) : s[places[n]] \in S /\ s[places[n]] \in ToSet(s) \cap T
  <2>1. \A i \in taken : s[i] \in S /\ s[i] \in ToSet(s) \cap T
    BY DEF ToSet
  <2> HIDE DEF taken, places
  <2> QED BY <1>2, <2>1
<1>5. \A x \in ToSet(s) \cap T : \E n \in 1 .. Cardinality(taken) : s[places[n]] = x
  <2> SUFFICES ASSUME NEW x \in ToSet(s) \cap T
               PROVE  \E n \in 1 .. Cardinality(taken) : s[places[n]] = x
    OBVIOUS
  <2>1. PICK i \in taken : s[i] = x
    BY DEF ToSet
  <2>2. i \in ToSet(places)
    <3> HIDE DEF taken, places
    <3> QED BY <1>2
  <2>3. PICK n \in 1 .. Cardinality(taken) : places[n] = i
    <3> HIDE DEF taken, places
    <3> QED BY <1>2, <2>2 DEF ToSet
  <2> HIDE DEF taken, places
  <2> QED BY <2>1, <2>3
<1> HIDE DEF taken, places
<1>6. Select(s, T) \in Seq(S)
  BY <1>2, <1>3, <1>4
<1>7. ToSet(Select(s, T)) = {s[places[n]] : n \in 1 .. Cardinality(taken)}
  BY <1>2, <1>3 DEF ToSet
<1> QED BY <1>4, <1>5, <1>6, <1>7

LEMMA SelectNone == ASSUME NEW T PROVE Select(<< >>, T) = << >>
<1>1. << >> \in Seq({}) /\ ToSet(<< >>) = {}
  BY DEF ToSet
<1>2. Select(<< >>, T) \in Seq({})
  BY <1>1, SelectedSet
<1> QED BY <1>2

LEMMA SelectOne ==
  ASSUME NEW c, NEW T, c \in T
  PROVE  Select(<<c>>, T) = <<c>>
<1> DEFINE taken == {i \in DOMAIN <<c>> : <<c>>[i] \in T}
           places == Sorted(taken, Increasing(taken))
<1>1. taken = {1}
  OBVIOUS
<1>2. {1} \in SUBSET Nat /\ IsFiniteSet({1}) /\ Cardinality({1}) = 1
  <2>1. {1} \in SUBSET Nat
    OBVIOUS
  <2> QED BY <2>1, FS_Singleton
<1>3. places \in [1 .. 1 -> {1}]
  <2> HIDE DEF taken
  <2> QED BY <1>1, <1>2, IncreasingOrder, SortedSet
<1>4. DOMAIN places = 1 .. 1 /\ places[1] = 1
  <2> HIDE DEF places
  <2> QED BY <1>3
<1>5. Select(<<c>>, T) = [n \in DOMAIN places |-> <<c>>[places[n]]]
  BY DEF Select
<1> HIDE DEF places
<1> QED BY <1>4, <1>5

-----------------------------------------------------------------------------
(***************************************************************************)
(* Flattening.  The first pieces together, as FlattenSeq puts them, exist  *)
(* up to any number of pieces and so for all of them.                      *)
(***************************************************************************)
Flattening(seqs, flat, m) ==
  flat = [i \in 1 .. m |-> IF i = 1 THEN seqs[i] ELSE flat[i - 1] \o seqs[i]]

LEMMA FlatteningExists ==
  ASSUME NEW seqs, NEW count \in Nat
  PROVE  \E flat : Flattening(seqs, flat, count)
<1> DEFINE N == {m \in Nat : \E flat : Flattening(seqs, flat, m)}
<1>1. 0 \in N
  <2>1. Flattening(seqs, << >>, 0)
    BY DEF Flattening
  <2> QED BY <2>1
<1>2. ASSUME NEW m \in N PROVE m + 1 \in N
  <2>1. PICK flat : Flattening(seqs, flat, m)
    OBVIOUS
  <2> DEFINE more == [i \in 1 .. m + 1 |->
                        IF i \in 1 .. m THEN flat[i]
                        ELSE IF i = 1 THEN seqs[i] ELSE flat[m] \o seqs[i]]
  <2>2. m \in Nat
    OBVIOUS
  <2>3. ASSUME NEW i \in 1 .. m + 1
        PROVE  more[i] = IF i = 1 THEN seqs[i] ELSE more[i - 1] \o seqs[i]
    <3>1. \A j \in 1 .. m : flat[j] = IF j = 1 THEN seqs[j] ELSE flat[j - 1] \o seqs[j]
      BY <2>1 DEF Flattening
    <3>2. CASE i \in 1 .. m
      <4>1. more[i] = flat[i] /\ (i # 1 => more[i - 1] = flat[i - 1])
        BY <2>2, <3>2
      <4> QED BY <3>1, <3>2, <4>1
    <3>3. CASE i = m + 1
      <4>1. i # 1 => more[i - 1] = flat[m]
        BY <2>2, <3>3
      <4> QED BY <2>2, <3>3, <4>1
    <3> QED BY <2>2, <3>2, <3>3
  <2>4. Flattening(seqs, more, m + 1)
    <3>1. more = [i \in 1 .. m + 1 |-> more[i]]
      OBVIOUS
    <3> HIDE DEF more
    <3> QED BY <2>3, <3>1 DEF Flattening
  <2> QED BY <2>2, <2>4
<1>3. N = Nat
  <2>1. N \in SUBSET Nat
    OBVIOUS
  <2> HIDE DEF N
  <2> QED BY <1>1, <1>2, <2>1, Induction
<1> QED BY <1>3

LEMMA FlattenByStep ==
  ASSUME NEW seqs, NEW count \in Nat, DOMAIN seqs = 1 .. count, Len(seqs) = count, count # 0
  PROVE  \E flat : Flattening(seqs, flat, count) /\ FlattenSeq(seqs) = flat[count]
<1> DEFINE step(f) == [i \in 1 .. Len(seqs) |-> IF i = 1 THEN seqs[i] ELSE f[i - 1] \o seqs[i]]
           flat == CHOOSE f : f = step(f)
<1>1. PICK g : Flattening(seqs, g, count)
  BY FlatteningExists
<1>2. g = step(g)
  BY <1>1 DEF Flattening
<1>3. flat = step(flat)
  <2> HIDE DEF step
  <2> QED BY <1>2
<1>4. FlattenSeq(seqs) = flat[count]
  BY DEF FlattenSeq
<1>5. Flattening(seqs, flat, count)
  <2> HIDE DEF flat
  <2> QED BY <1>3 DEF Flattening
<1> QED BY <1>4, <1>5

LEMMA ConcatSet ==
  ASSUME NEW S, NEW s \in Seq(S), NEW t \in Seq(S)
  PROVE  s \o t \in Seq(S) /\ ToSet(s \o t) = ToSet(s) \cup ToSet(t)
<1>1. s \o t \in Seq(S) /\ Len(s \o t) = Len(s) + Len(t)
  OBVIOUS
<1>2. \A i \in 1 .. Len(s) : (s \o t)[i] = s[i]
  OBVIOUS
<1>3. \A i \in 1 .. Len(t) : (s \o t)[Len(s) + i] = t[i]
  OBVIOUS
<1>4. ASSUME NEW i \in 1 .. Len(s \o t)
      PROVE  (s \o t)[i] \in ToSet(s) \cup ToSet(t)
  <2>1. CASE i \in 1 .. Len(s)
    BY <1>2, <2>1 DEF ToSet
  <2>2. CASE i \notin 1 .. Len(s)
    <3>1. i - Len(s) \in 1 .. Len(t) /\ i = Len(s) + (i - Len(s))
      BY <1>1, <2>2
    <3>2. (s \o t)[i] = t[i - Len(s)]
      BY <1>3, <3>1
    <3> QED BY <3>1, <3>2 DEF ToSet
  <2> QED BY <2>1, <2>2
<1>5. ASSUME NEW x \in ToSet(s) \cup ToSet(t)
      PROVE  x \in ToSet(s \o t)
  <2>1. CASE x \in ToSet(s)
    <3>1. PICK i \in 1 .. Len(s) : x = s[i]
      BY <2>1 DEF ToSet
    <3> QED BY <1>1, <1>2, <3>1 DEF ToSet
  <2>2. CASE x \in ToSet(t)
    <3>1. PICK i \in 1 .. Len(t) : x = t[i]
      BY <2>2 DEF ToSet
    <3>2. Len(s) + i \in 1 .. Len(s \o t)
      BY <1>1
    <3> QED BY <1>1, <1>3, <3>1, <3>2 DEF ToSet
  <2> QED BY <2>1, <2>2
<1>6. ToSet(s \o t) \subseteq ToSet(s) \cup ToSet(t)
  <2>1. DOMAIN (s \o t) = 1 .. Len(s \o t)
    BY <1>1
  <2>2. ToSet(s \o t) = {(s \o t)[i] : i \in 1 .. Len(s \o t)}
    BY <2>1 DEF ToSet
  <2> QED BY <1>4, <2>2
<1> QED BY <1>1, <1>5, <1>6

LEMMA SeqOfItsSet ==
  ASSUME NEW S, NEW s \in Seq(S)
  PROVE  s \in Seq(ToSet(s))
<1>1. s = [i \in 1 .. Len(s) |-> s[i]] /\ Len(s) \in Nat /\ DOMAIN s = 1 .. Len(s)
  OBVIOUS
<1>2. \A i \in 1 .. Len(s) : s[i] \in ToSet(s)
  BY <1>1 DEF ToSet
<1> QED BY <1>1, <1>2

LEMMA SetOfSeqFinite ==
  ASSUME NEW S, NEW s \in Seq(S)
  PROVE  IsFiniteSet(ToSet(s))
<1>1. Len(s) \in Nat /\ s \in [1 .. Len(s) -> ToSet(s)] /\ DOMAIN s = 1 .. Len(s)
  <2>1. s \in Seq(ToSet(s))
    BY SeqOfItsSet
  <2> QED BY <2>1
<1>2. s \in Surjection(1 .. Len(s), ToSet(s))
  BY <1>1 DEF Surjection, ToSet
<1>3. IsFiniteSet(1 .. Len(s))
  BY <1>1, FS_Interval
<1> QED BY <1>2, <1>3, FS_Surjection

LEMMA KeysFinite == IsFiniteSet(Keys)
BY OverlapsAssumption, SetOfSeqFinite DEF Keys

LEMMA RingsFinite == IsFiniteSet(Rings)
BY OverlapsAssumption, SetOfSeqFinite DEF Rings

LEMMA FlattenNone == FlattenSeq(<< >>) = << >>
BY DEF FlattenSeq

LEMMA FlattenedSet ==
  ASSUME NEW S, NEW seqs \in Seq(Seq(S))
  PROVE  /\ FlattenSeq(seqs) \in Seq(S)
         /\ ToSet(FlattenSeq(seqs)) = UNION {ToSet(seqs[i]) : i \in DOMAIN seqs}
<1>1. CASE seqs = << >>
  <2>1. << >> \in Seq(S) /\ DOMAIN << >> = {}
    OBVIOUS
  <2>2. ToSet(<< >>) = {} /\ {ToSet(seqs[i]) : i \in {}} = {}
    BY <2>1 DEF ToSet
  <2> QED BY <1>1, <2>1, <2>2, FlattenNone
<1>2. CASE seqs # << >>
  <2>1. Len(seqs) \in Nat /\ DOMAIN seqs = 1 .. Len(seqs) /\ Len(seqs) # 0
    BY <1>2
  <2>2. PICK flat : Flattening(seqs, flat, Len(seqs)) /\ FlattenSeq(seqs) = flat[Len(seqs)]
    BY <2>1, FlattenByStep
  <2>3. \A i \in 1 .. Len(seqs) : flat[i] = IF i = 1 THEN seqs[i] ELSE flat[i - 1] \o seqs[i]
    BY <2>2 DEF Flattening
  <2> DEFINE Upto(m) == UNION {ToSet(seqs[i]) : i \in 1 .. m}
             N == {m \in Nat : m \in 1 .. Len(seqs) => flat[m] \in Seq(S) /\ ToSet(flat[m]) = Upto(m)}
  <2>4. 0 \in N
    OBVIOUS
  <2>5. ASSUME NEW m \in N PROVE m + 1 \in N
    <3> SUFFICES ASSUME m + 1 \in 1 .. Len(seqs)
                 PROVE  flat[m + 1] \in Seq(S) /\ ToSet(flat[m + 1]) = Upto(m + 1)
      OBVIOUS
    <3>1. seqs[m + 1] \in Seq(S) /\ m \in Nat
      BY <2>1
    <3>2. CASE m = 0
      <4>1. flat[1] = seqs[1]
        BY <2>1, <2>3
      <4>2. Upto(1) = ToSet(seqs[1])
        OBVIOUS
      <4> HIDE DEF Upto
      <4> QED BY <3>1, <3>2, <4>1, <4>2
    <3>3. CASE m # 0
      <4>1. m \in 1 .. Len(seqs) /\ m + 1 # 1 /\ (m + 1) - 1 = m
        <5> HIDE DEF N
        <5> QED BY <2>1, <3>1, <3>3
      <4>2. flat[m] \in Seq(S) /\ ToSet(flat[m]) = Upto(m)
        BY <4>1
      <4>3. flat[m + 1] = flat[m] \o seqs[m + 1]
        BY <2>3, <4>1
      <4>4. 1 .. m + 1 = (1 .. m) \cup {m + 1}
        OBVIOUS
      <4>5. Upto(m + 1) = Upto(m) \cup ToSet(seqs[m + 1])
        BY <4>4
      <4> HIDE DEF Upto, N
      <4>6. /\ flat[m] \o seqs[m + 1] \in Seq(S)
            /\ ToSet(flat[m] \o seqs[m + 1]) = ToSet(flat[m]) \cup ToSet(seqs[m + 1])
        BY <3>1, <4>2, ConcatSet
      <4> QED BY <4>2, <4>3, <4>5, <4>6
    <3> QED BY <3>2, <3>3
  <2>6. N = Nat
    <3>1. N \in SUBSET Nat
      OBVIOUS
    <3> HIDE DEF N
    <3> QED BY <2>4, <2>5, <3>1, Induction
  <2>7. flat[Len(seqs)] \in Seq(S) /\ ToSet(flat[Len(seqs)]) = Upto(Len(seqs))
    BY <2>1, <2>6
  <2> QED BY <2>1, <2>2, <2>7
<1> QED BY <1>1, <1>2

\* What is true of the pieces, one by one, is true of what they are put together to.
Alike(s, t, R) == Len(s) = Len(t) /\ \A i \in 1 .. Len(s) : <<s[i], t[i]>> \in R

LEMMA ConcatAlike ==
  ASSUME NEW S, NEW s \in Seq(S), NEW t \in Seq(S), NEW u \in Seq(S), NEW v \in Seq(S), NEW R,
         Alike(s, t, R), Alike(u, v, R)
  PROVE  Alike(s \o u, t \o v, R)
<1>1. Len(s \o u) = Len(s) + Len(u) /\ Len(t \o v) = Len(s) + Len(u)
  <2>1. Len(s \o u) = Len(s) + Len(u) /\ Len(t \o v) = Len(t) + Len(v)
    OBVIOUS
  <2> QED BY <2>1 DEF Alike
<1>2. ASSUME NEW i \in 1 .. Len(s) + Len(u)
      PROVE  <<(s \o u)[i], (t \o v)[i]>> \in R
  <2>1. CASE i <= Len(s)
    <3>1. i \in 1 .. Len(s) /\ i \in 1 .. Len(t)
      BY <2>1 DEF Alike
    <3>2. (s \o u)[i] = s[i] /\ (t \o v)[i] = t[i]
      BY <3>1
    <3> QED BY <3>1, <3>2 DEF Alike
  <2>2. CASE ~(i <= Len(s))
    <3>1. i - Len(s) \in 1 .. Len(u) /\ i - Len(s) \in 1 .. Len(v) /\ Len(t) = Len(s)
      BY <2>2 DEF Alike
    <3>2. (s \o u)[i] = u[i - Len(s)] /\ (t \o v)[i] = v[i - Len(s)]
      BY <2>2, <3>1
    <3> QED BY <3>1, <3>2 DEF Alike
  <2> QED BY <2>1, <2>2
<1> QED BY <1>1, <1>2 DEF Alike

LEMMA FlattenAlike ==
  ASSUME NEW S, NEW seqs \in Seq(Seq(S)), NEW others \in Seq(Seq(S)), NEW R,
         Len(seqs) = Len(others),
         \A i \in 1 .. Len(seqs) : Alike(seqs[i], others[i], R)
  PROVE  Alike(FlattenSeq(seqs), FlattenSeq(others), R)
<1>1. CASE seqs = << >>
  <2>1. others = << >>
    BY <1>1
  <2>2. Len(<< >>) = 0
    OBVIOUS
  <2> QED BY <1>1, <2>1, <2>2, FlattenNone DEF Alike
<1>2. CASE seqs # << >>
  <2>1. /\ Len(seqs) \in Nat /\ DOMAIN seqs = 1 .. Len(seqs) /\ Len(seqs) # 0
        /\ DOMAIN others = 1 .. Len(seqs)
    BY <1>2
  <2>2. PICK flat : Flattening(seqs, flat, Len(seqs)) /\ FlattenSeq(seqs) = flat[Len(seqs)]
    BY <2>1, FlattenByStep
  <2>3. PICK other : Flattening(others, other, Len(seqs)) /\ FlattenSeq(others) = other[Len(seqs)]
    BY <2>1, FlattenByStep
  <2>4. \A i \in 1 .. Len(seqs) :
          /\ flat[i] = IF i = 1 THEN seqs[i] ELSE flat[i - 1] \o seqs[i]
          /\ other[i] = IF i = 1 THEN others[i] ELSE other[i - 1] \o others[i]
    BY <2>2, <2>3 DEF Flattening
  <2> DEFINE N == {m \in Nat : m \in 1 .. Len(seqs) =>
                     flat[m] \in Seq(S) /\ other[m] \in Seq(S) /\ Alike(flat[m], other[m], R)}
  <2>5. 0 \in N
    OBVIOUS
  <2>6. ASSUME NEW m \in N PROVE m + 1 \in N
    <3> SUFFICES ASSUME m + 1 \in 1 .. Len(seqs)
                 PROVE  /\ flat[m + 1] \in Seq(S) /\ other[m + 1] \in Seq(S)
                        /\ Alike(flat[m + 1], other[m + 1], R)
      OBVIOUS
    <3>1. seqs[m + 1] \in Seq(S) /\ others[m + 1] \in Seq(S)
      BY <2>1
    <3>2. CASE m = 0
      BY <2>1, <2>4, <3>1, <3>2
    <3>3. CASE m # 0
      <4>1. m \in 1 .. Len(seqs) /\ m + 1 # 1 /\ (m + 1) - 1 = m
        BY <3>3
      <4>2. flat[m] \in Seq(S) /\ other[m] \in Seq(S) /\ Alike(flat[m], other[m], R)
        BY <4>1
      <4>3. flat[m + 1] = flat[m] \o seqs[m + 1] /\ other[m + 1] = other[m] \o others[m + 1]
        BY <2>4, <4>1
      <4>4. Alike(seqs[m + 1], others[m + 1], R)
        OBVIOUS
      <4> HIDE DEF N
      <4> QED BY <3>1, <4>2, <4>3, <4>4, ConcatAlike
    <3> QED BY <3>2, <3>3
  <2>7. N = Nat
    <3>1. N \in SUBSET Nat
      OBVIOUS
    <3> HIDE DEF N
    <3> QED BY <2>5, <2>6, <3>1, Induction
  <2>8. Alike(flat[Len(seqs)], other[Len(seqs)], R)
    <3>1. Len(seqs) \in N
      BY <2>1, <2>7
    <3>2. Len(seqs) \in 1 .. Len(seqs)
      BY <2>1
    <3> QED BY <3>1, <3>2
  <2> QED BY <2>2, <2>3, <2>8
<1> QED BY <1>1, <1>2

-----------------------------------------------------------------------------
(***************************************************************************)
(* Orders of mirroring, of packages and of sets of tags.                   *)
(***************************************************************************)
LEMMA Enumeration ==
  ASSUME NEW S, IsFiniteSet(S), NEW order \in Injection(1 .. Cardinality(S), S)
  PROVE  order \in Seq(S) /\ ToSet(order) = S
<1>1. Cardinality(S) \in Nat
  BY FS_CardinalityType
<1>2. Cardinality(1 .. Cardinality(S)) = Cardinality(S)
  BY <1>1, FS_Interval
<1>3. order \in Surjection(1 .. Cardinality(S), S)
  BY <1>2, FS_Injection
<1>4. order \in [1 .. Cardinality(S) -> S]
  BY DEF Injection
<1>5. order \in Seq(S)
  BY <1>1, <1>4
<1>6. ToSet(order) = S
  BY <1>3, <1>4 DEF ToSet, Surjection
<1> QED BY <1>5, <1>6

LEMMA SomeEnumeration ==
  ASSUME NEW S, IsFiniteSet(S)
  PROVE  SetToSeq(S) \in Seq(S) /\ ToSet(SetToSeq(S)) = S
<1>1. ExistsBijection(1 .. Cardinality(S), S)
  BY FS_CardinalityType
<1>2. PICK f \in [1 .. Cardinality(S) -> S] : IsInjective(f)
  BY <1>1 DEF ExistsBijection, Bijection, Injection
<1>3. SetToSeq(S) \in Injection(1 .. Cardinality(S), S)
  BY <1>2 DEF SetToSeq, Injection
<1> QED BY <1>3, Enumeration

LEMMA EveryEnumeration ==
  ASSUME NEW S, IsFiniteSet(S), NEW order \in SetToSeqs(S)
  PROVE  order \in Seq(S) /\ ToSet(order) = S
<1>1. order \in Injection(1 .. Cardinality(S), S)
  BY DEF SetToSeqs, Injection, IsInjective
<1> QED BY <1>1, Enumeration

LEMMA NewestFirstOrder ==
  ASSUME NEW R \in SUBSET Firmware
  PROVE  IsOrder(R, NewestFirst(R))
<1>1. \A f, g \in R : <<f, g>> \in NewestFirst(R) <=> Newer(f, g)
  BY DEF NewestFirst
<1>2. \A f, g \in R : /\ f.date \in Nat /\ f.checksum \in Nat
                      /\ f.date = g.date /\ f.checksum = g.checksum => f = g
  BY DocumentsAssumption
<1>3. \A f, g, h \in R : Newer(f, g) /\ Newer(g, h) => Newer(f, h)
  BY <1>2 DEF Newer
<1>4. \A f, g \in R : ~Newer(f, f) /\ (f # g => Newer(f, g) \/ Newer(g, f))
  BY <1>2 DEF Newer
<1> QED BY <1>1, <1>3, <1>4 DEF IsOrder

LEMMA MinOfNumbers ==
  ASSUME NEW N \in SUBSET Nat, N # {}
  PROVE  Min(N) \in N /\ \A n \in N : Min(N) <= n
BY LeastNumber DEF Min

\* Where two lists of tags part.
Parting(s, t) == (s \cup t) \ (s \cap t)

LEMMA TagsBeforeMeans ==
  ASSUME NEW s \in SUBSET Nat, NEW t \in SUBSET Nat, s # t
  PROVE  \E least \in Nat :
           /\ (least \in s /\ least \notin t) \/ (least \in t /\ least \notin s)
           /\ \A n \in Nat : n < least => (n \in s <=> n \in t)
           /\ least \in s => (TagsBefore(s, t) <=> \E ring \in t : ring > least)
           /\ least \in t => (TagsBefore(s, t) <=> ~\E ring \in s : ring > least)
<1> DEFINE least == Min(Parting(s, t))
<1>1. Parting(s, t) \in SUBSET Nat /\ Parting(s, t) # {}
  BY DEF Parting
<1>2. least \in Parting(s, t) /\ \A n \in Parting(s, t) : least <= n
  BY <1>1, MinOfNumbers
<1>3. TagsBefore(s, t) <=> IF least \in s THEN \E ring \in t : ring > least
                           ELSE ~\E ring \in s : ring > least
  BY DEF TagsBefore, Parting
<1> HIDE DEF least
<1>4. least \in Nat /\ ((least \in s /\ least \notin t) \/ (least \in t /\ least \notin s))
  BY <1>2 DEF Parting
<1>5. ASSUME NEW n \in Nat, n < least PROVE n \in s <=> n \in t
  BY <1>2, <1>4, <1>5 DEF Parting
<1> WITNESS least \in Nat
<1> QED BY <1>3, <1>4, <1>5

LEMMA TagsBeforeTotal ==
  ASSUME NEW s \in SUBSET Nat, NEW t \in SUBSET Nat
  PROVE  /\ ~TagsBefore(s, s)
         /\ s # t => TagsBefore(s, t) \/ TagsBefore(t, s)
<1>1. ~TagsBefore(s, s)
  BY DEF TagsBefore
<1>2. ASSUME s # t PROVE TagsBefore(s, t) \/ TagsBefore(t, s)
  <2>1. PICK a \in Nat : /\ (a \in s /\ a \notin t) \/ (a \in t /\ a \notin s)
                         /\ \A n \in Nat : n < a => (n \in s <=> n \in t)
                         /\ a \in s => (TagsBefore(s, t) <=> \E ring \in t : ring > a)
                         /\ a \in t => (TagsBefore(s, t) <=> ~\E ring \in s : ring > a)
    BY <1>2, TagsBeforeMeans
  <2>2. PICK b \in Nat : /\ (b \in t /\ b \notin s) \/ (b \in s /\ b \notin t)
                         /\ \A n \in Nat : n < b => (n \in t <=> n \in s)
                         /\ b \in t => (TagsBefore(t, s) <=> \E ring \in s : ring > b)
                         /\ b \in s => (TagsBefore(t, s) <=> ~\E ring \in t : ring > b)
    BY <1>2, TagsBeforeMeans
  <2>3. a = b
    BY <2>1, <2>2
  <2> QED BY <2>1, <2>2, <2>3
<1> QED BY <1>1, <1>2

LEMMA TagsBeforeTransitive ==
  ASSUME NEW s \in SUBSET Nat, NEW t \in SUBSET Nat, NEW u \in SUBSET Nat,
         TagsBefore(s, t), TagsBefore(t, u)
  PROVE  TagsBefore(s, u)
<1>1. s # t /\ t # u
  BY TagsBeforeTotal
<1>2. PICK a \in Nat : /\ (a \in s /\ a \notin t) \/ (a \in t /\ a \notin s)
                       /\ \A n \in Nat : n < a => (n \in s <=> n \in t)
                       /\ a \in s => \E ring \in t : ring > a
                       /\ a \in t => ~\E ring \in s : ring > a
  BY <1>1, TagsBeforeMeans
<1>3. PICK b \in Nat : /\ (b \in t /\ b \notin u) \/ (b \in u /\ b \notin t)
                       /\ \A n \in Nat : n < b => (n \in t <=> n \in u)
                       /\ b \in t => \E ring \in u : ring > b
                       /\ b \in u => ~\E ring \in t : ring > b
  BY <1>1, TagsBeforeMeans
<1>4. CASE a < b
  <2>1. a \in s => \E ring \in u : ring > a
    <3> SUFFICES ASSUME a \in s PROVE \E ring \in u : ring > a
      OBVIOUS
    <3>1. PICK ring \in t : ring > a
      BY <1>2
    <3>2. CASE ring < b
      BY <1>3, <3>1, <3>2
    <3>3. CASE ~(ring < b) /\ b \in u
      BY <1>3, <1>4, <3>3
    <3>4. CASE ~(ring < b) /\ b \notin u
      <4>1. PICK r \in u : r > b
        BY <1>3, <3>4
      <4> QED BY <1>4, <4>1
    <3> QED BY <3>2, <3>3, <3>4
  <2>2. (a \in s /\ a \notin u) \/ (a \in u /\ a \notin s)
    BY <1>2, <1>3, <1>4
  <2>3. PICK c \in Nat : /\ (c \in s /\ c \notin u) \/ (c \in u /\ c \notin s)
                         /\ \A n \in Nat : n < c => (n \in s <=> n \in u)
                         /\ c \in s => (TagsBefore(s, u) <=> \E ring \in u : ring > c)
                         /\ c \in u => (TagsBefore(s, u) <=> ~\E ring \in s : ring > c)
    BY <2>2, TagsBeforeMeans
  <2>4. c = a
    BY <1>2, <1>3, <1>4, <2>2, <2>3
  <2>5. a \in u => a \in t
    BY <1>3, <1>4
  <2> QED BY <1>2, <2>1, <2>2, <2>3, <2>4, <2>5
<1>5. CASE b < a
  <2>1. b \in s <=> b \in t
    BY <1>2, <1>5
  <2>2. s # u
    BY <1>3, <2>1
  <2>3. PICK c \in Nat : /\ (c \in s /\ c \notin u) \/ (c \in u /\ c \notin s)
                         /\ \A n \in Nat : n < c => (n \in s <=> n \in u)
                         /\ c \in s => (TagsBefore(s, u) <=> \E ring \in u : ring > c)
                         /\ c \in u => (TagsBefore(s, u) <=> ~\E ring \in s : ring > c)
    BY <2>2, TagsBeforeMeans
  <2>4. c = b
    BY <1>2, <1>3, <1>5, <2>1, <2>3
  <2>5. CASE b \in t
    BY <1>3, <2>1, <2>3, <2>4, <2>5
  <2>6. CASE b \in u
    <3>1. ~\E ring \in t : ring > b
      BY <1>3, <2>6
    <3>2. FALSE
      <4>1. a \notin t
        BY <1>5, <3>1
      <4>2. PICK ring \in t : ring > a
        BY <1>2, <4>1
      <4>3. ring \in Nat /\ ring > b
        BY <1>5, <4>2
      <4> QED BY <3>1, <4>3
    <3> QED BY <3>2
  <2> QED BY <1>3, <2>5, <2>6
<1>6. CASE a = b
  <2>1. a \in t /\ a \notin s /\ a \notin u
    BY <1>2, <1>3, <1>6
  <2>2. (\E ring \in u : ring > a) /\ ~\E ring \in s : ring > a
    BY <1>2, <1>3, <1>6, <2>1
  <2>3. s # u
    BY <2>2
  <2>4. PICK c \in Nat : /\ (c \in s /\ c \notin u) \/ (c \in u /\ c \notin s)
                         /\ \A n \in Nat : n < c => (n \in s <=> n \in u)
                         /\ c \in s => (TagsBefore(s, u) <=> \E ring \in u : ring > c)
                         /\ c \in u => (TagsBefore(s, u) <=> ~\E ring \in s : ring > c)
    BY <2>3, TagsBeforeMeans
  <2>5. c > a /\ c \in u
    BY <1>2, <1>3, <1>6, <2>1, <2>2, <2>4
  <2>6. ~\E ring \in s : ring > c
    BY <2>2, <2>5
  <2> QED BY <2>4, <2>5, <2>6
<1> QED BY <1>4, <1>5, <1>6

-----------------------------------------------------------------------------
(***************************************************************************)
(* Pooling, merging and sorting.  A component is told by its key, what its *)
(* head is one of, and the set of its releases.                            *)
(***************************************************************************)
Named(p, k, heads, R) ==
  IF R = {} THEN p = << >>
  ELSE \E head \in heads, releases \in Seq(Firmware) :
         /\ ToSet(releases) = R
         /\ p = <<[key |-> k, head |-> head, releases |-> releases]>>

OfKey(components, k) == {c \in ToSet(components) : c.key = k}

\* A sequence of components, each with releases.
Stocked(components) ==
  /\ components \in Seq(ToSet(components))
  /\ \A c \in ToSet(components) : c.releases \in Seq(Firmware) /\ ToSet(c.releases) # {}

LEMMA Pooling ==
  ASSUME NEW components, Stocked(components), NEW k
  PROVE  Named(PoolByKey(components, k), k, {c.head : c \in OfKey(components, k)},
               UNION {ToSet(c.releases) : c \in OfKey(components, k)})
<1> DEFINE mine == OfKey(components, k)
           pieces == Select(components, mine)
           flat == FlattenSeq([i \in DOMAIN pieces |-> pieces[i].releases])
<1>1. pieces \in Seq(ToSet(components)) /\ ToSet(pieces) = mine
  BY SelectedSet DEF Stocked, OfKey
<1>2. PoolByKey(components, k) =
        IF pieces = << >> THEN << >>
        ELSE <<[key |-> k, head |-> pieces[1].head, releases |-> flat]>>
  BY DEF PoolByKey, OfKey
<1> HIDE DEF pieces
<1>3. CASE pieces = << >>
  <2>1. mine = {}
    BY <1>1, <1>3 DEF ToSet
  <2> HIDE DEF mine
  <2>2. UNION {ToSet(c.releases) : c \in mine} = {}
    BY <2>1
  <2> QED BY <1>2, <1>3, <2>2 DEF Named, mine
<1>4. CASE pieces # << >>
  <2>1. Len(pieces) \in Nat /\ Len(pieces) # 0 /\ DOMAIN pieces = 1 .. Len(pieces)
    BY <1>1, <1>4
  <2>2. \A i \in DOMAIN pieces : pieces[i] \in mine
    BY <1>1 DEF ToSet
  <2>3. \A c \in mine : c.releases \in Seq(Firmware) /\ ToSet(c.releases) # {}
    BY DEF Stocked, OfKey
  <2> DEFINE parts == [i \in DOMAIN pieces |-> pieces[i].releases]
  <2>4. parts \in Seq(Seq(Firmware)) /\ DOMAIN parts = DOMAIN pieces
    <3> HIDE DEF mine
    <3> QED BY <2>1, <2>2, <2>3
  <2>5. flat \in Seq(Firmware) /\ ToSet(flat) = UNION {ToSet(parts[i]) : i \in DOMAIN pieces}
    <3> HIDE DEF parts
    <3> QED BY <2>4, FlattenedSet DEF parts
  <2>6. UNION {ToSet(parts[i]) : i \in DOMAIN pieces} = UNION {ToSet(c.releases) : c \in mine}
    <3>1. \A c \in mine : \E i \in DOMAIN pieces : pieces[i] = c
      BY <1>1 DEF ToSet
    <3> HIDE DEF mine
    <3> QED BY <2>2, <3>1
  <2>7. pieces[1] \in mine
    BY <2>1, <2>2
  <2>8. UNION {ToSet(c.releases) : c \in mine} # {}
    <3> HIDE DEF mine
    <3> QED BY <2>3, <2>7
  <2>9. pieces[1].head \in {c.head : c \in mine}
    <3> HIDE DEF mine
    <3> QED BY <2>7
  <2> HIDE DEF mine, flat, parts
  <2>10. PoolByKey(components, k) = <<[key |-> k, head |-> pieces[1].head, releases |-> flat]>>
    BY <1>2, <1>4
  <2> QED BY <2>5, <2>6, <2>8, <2>9, <2>10 DEF Named, mine
<1> QED BY <1>3, <1>4

\* What is mirrored is not stored, so nothing stored is superseded.
LEMMA Merging ==
  ASSUME NEW existing, NEW incoming, NEW replace \in BOOLEAN, NEW k,
         NEW H0, NEW H1, NEW R0, NEW R1, R0 \cap R1 = {},
         Named(PoolByKey(existing, k), k, H0, R0), Named(PoolByKey(incoming, k), k, H1, R1)
  PROVE  Named(MergeComponents(existing, incoming, replace, k), k,
               IF R0 # {} THEN H0 ELSE H1, R0 \cup R1)
<1> DEFINE new == PoolByKey(incoming, k)
           pooled == PoolByKey(existing, k)
           kept == [i \in DOMAIN pooled |->
                      [pooled[i] EXCEPT !.releases = Kept(pooled[i], new, replace)]]
           old == Select(kept, {c \in ToSet(kept) : c.releases # << >>})
<1>1. MergeComponents(existing, incoming, replace, k) =
        IF old = << >> \/ new = << >> THEN old \o new
        ELSE <<[old[1] EXCEPT !.releases = @ \o new[1].releases]>>
  BY DEF MergeComponents
<1>2. CASE R0 = {}
  <2>1. pooled = << >>
    BY <1>2 DEF Named
  <2>2. kept = << >>
    <3>1. DOMAIN pooled = {}
      BY <2>1
    <3> HIDE DEF pooled
    <3> QED BY <3>1
  <2>3. old = << >>
    <3> HIDE DEF kept
    <3> QED BY <2>2, SelectNone
  <2>4. new \in Seq(ToSet(new))
    <3> HIDE DEF new
    <3>1. CASE R1 = {}
      BY <3>1 DEF new, Named
    <3>2. CASE R1 # {}
      <4>1. PICK c : new = <<c>>
        BY <3>2 DEF new, Named
      <4> QED BY <4>1 DEF ToSet
    <3> QED BY <3>1, <3>2
  <2>5. << >> \o new = new
    <3> HIDE DEF new
    <3> QED BY <2>4
  <2>6. MergeComponents(existing, incoming, replace, k) = new
    <3> HIDE DEF new, old
    <3> QED BY <1>1, <2>3, <2>5
  <2> QED BY <1>2, <2>6 DEF Named
<1>3. CASE R0 # {}
  <2>1. PICK head \in H0, releases \in Seq(Firmware) :
          /\ ToSet(releases) = R0
          /\ pooled = <<[key |-> k, head |-> head, releases |-> releases]>>
    BY <1>3 DEF Named
  <2> DEFINE c == [key |-> k, head |-> head, releases |-> releases]
             left == Kept(c, new, replace)
             d == [key |-> k, head |-> head, releases |-> left]
  <2>2. \A e \in ToSet(new) : ToSet(e.releases) = R1
    <3> HIDE DEF new
    <3>1. CASE R1 = {}
      BY <3>1 DEF new, Named, ToSet
    <3>2. CASE R1 # {}
      <4>1. PICK e : new = <<e>> /\ ToSet(e.releases) = R1
        BY <3>2 DEF new, Named
      <4>2. ToSet(new) = {e}
        BY <4>1 DEF ToSet
      <4> QED BY <4>1, <4>2
    <3> QED BY <3>1, <3>2
  <2>3. left \in Seq(Firmware) /\ ToSet(left) = R0
    <3> DEFINE T == {f \in ToSet(releases) :
                       ~(replace /\ \E e \in ToSet(new) : f \in ToSet(e.releases))}
    <3>1. left = Select(releases, T)
      BY DEF Kept
    <3>2. T = R0
      <4> HIDE DEF new
      <4> QED BY <2>1, <2>2
    <3> HIDE DEF T
    <3>3. left = Select(releases, R0)
      BY <3>1, <3>2
    <3> HIDE DEF left
    <3>4. /\ Select(releases, R0) \in Seq(Firmware)
          /\ ToSet(Select(releases, R0)) = ToSet(releases) \cap R0
      <4> HIDE DEF c, d
      <4> QED BY <2>1, SelectedSet
    <3> HIDE DEF c, d
    <3> QED BY <2>1, <3>3, <3>4
  <2>4. kept = <<d>>
    <3>1. pooled = <<c>>
      BY <2>1
    <3>2. [c EXCEPT !.releases = left] = d
      <4> HIDE DEF left
      <4> QED OBVIOUS
    <3>3. kept = [i \in {1} |-> [c EXCEPT !.releases = left]]
      <4> HIDE DEF c, pooled, new
      <4>1. DOMAIN pooled = {1} /\ pooled[1] = c
        BY <3>1
      <4> QED BY <4>1
    <3> HIDE DEF kept, c, d, left
    <3> QED BY <3>2, <3>3
  <2>5. left # << >>
    <3> HIDE DEF left
    <3> QED BY <1>3, <2>3 DEF ToSet
  <2>6. old = <<d>>
    <3>1. d.releases # << >>
      <4> HIDE DEF left
      <4> QED BY <2>5
    <3>2. ToSet(<<d>>) = {d}
      BY DEF ToSet
    <3>3. d \in {e \in ToSet(kept) : e.releases # << >>}
      <4> HIDE DEF kept, d
      <4> QED BY <2>4, <3>1, <3>2
    <3> HIDE DEF kept, d
    <3> QED BY <2>4, <3>3, SelectOne
  <2>7. CASE R1 = {}
    <3>1. new = << >>
      BY <2>7 DEF Named
    <3>2. <<d>> \o << >> = <<d>>
      <4> HIDE DEF d
      <4> QED OBVIOUS
    <3>3. MergeComponents(existing, incoming, replace, k) = <<d>>
      <4> HIDE DEF new, old, d
      <4> QED BY <1>1, <2>6, <3>1, <3>2
    <3>4. d = [key |-> k, head |-> head, releases |-> left]
      OBVIOUS
    <3> HIDE DEF d, left
    <3> QED BY <1>3, <2>3, <2>7, <3>3, <3>4 DEF Named
  <2>8. CASE R1 # {}
    <3>1. PICK other \in H1, more \in Seq(Firmware) :
            /\ ToSet(more) = R1
            /\ new = <<[key |-> k, head |-> other, releases |-> more]>>
      BY <2>8 DEF Named
    <3>2. new # << >> /\ new[1].releases = more
      <4> HIDE DEF new
      <4> QED BY <3>1
    <3>3. MergeComponents(existing, incoming, replace, k)
            = <<[d EXCEPT !.releases = @ \o more]>>
      <4>1. <<d>> # << >> /\ <<d>>[1] = d
        <5> HIDE DEF d
        <5> QED OBVIOUS
      <4> HIDE DEF new, old, d
      <4> QED BY <1>1, <2>6, <3>2, <4>1
    <3>4. [d EXCEPT !.releases = @ \o more] = [key |-> k, head |-> head, releases |-> left \o more]
      <4> DEFINE both == left \o more
      <4> HIDE DEF both
      <4>1. [d EXCEPT !.releases = both] = [key |-> k, head |-> head, releases |-> both]
        <5> HIDE DEF left
        <5> QED OBVIOUS
      <4>2. d.releases = left
        <5> HIDE DEF left
        <5> QED OBVIOUS
      <4> HIDE DEF d, left
      <4> QED BY <4>1, <4>2 DEF both
    <3>5. left \o more \in Seq(Firmware) /\ ToSet(left \o more) = R0 \cup R1
      <4> HIDE DEF left
      <4> QED BY <2>3, <3>1, ConcatSet
    <3> HIDE DEF d, left
    <3> QED BY <1>3, <3>3, <3>4, <3>5 DEF Named
  <2> QED BY <2>7, <2>8
<1> QED BY <1>2, <1>3

Providing(M, k) == {f \in M : k \in f.provides}

\* The components of a package, each with it as its release.
Fresh(f, k) == [key |-> k, head |-> f, releases |-> <<f>>]

LEMMA NewPieces ==
  ASSUME NEW order \in Seq(Firmware)
  PROVE  /\ ToSet(NewComponents(order)) =
              {Fresh(p[1], p[2]) : p \in {p \in ToSet(order) \X Keys : p[2] \in p[1].provides}}
         /\ Stocked(NewComponents(order))
<1> DEFINE All == {Fresh(p[1], p[2]) : p \in Firmware \X Keys}
           keys(i) == SetToSeq(order[i].provides)
           part(i) == [j \in DOMAIN keys(i) |-> Fresh(order[i], keys(i)[j])]
           parts == [i \in DOMAIN order |-> part(i)]
<1>1. DOMAIN order = 1 .. Len(order) /\ Len(order) \in Nat /\ \A i \in DOMAIN order : order[i] \in Firmware
  OBVIOUS
<1>2. \A i \in DOMAIN order : /\ part(i) \in Seq(All)
                              /\ ToSet(part(i)) = {Fresh(order[i], k) : k \in order[i].provides}
  <2> SUFFICES ASSUME NEW i \in DOMAIN order
               PROVE  /\ part(i) \in Seq(All)
                      /\ ToSet(part(i)) = {Fresh(order[i], k) : k \in order[i].provides}
    OBVIOUS
  <2>1. order[i] \in Firmware /\ order[i].provides \in SUBSET Keys
    BY DocumentsAssumption
  <2>2. IsFiniteSet(order[i].provides)
    BY <2>1, KeysFinite, FS_Subset
  <2>3. keys(i) \in Seq(order[i].provides) /\ ToSet(keys(i)) = order[i].provides
    BY <2>2, SomeEnumeration
  <2> HIDE DEF keys
  <2>4. \A j \in DOMAIN keys(i) : keys(i)[j] \in order[i].provides
    BY <2>3
  <2>5. \A k \in order[i].provides : Fresh(order[i], k) \in All
    <3> SUFFICES ASSUME NEW k \in order[i].provides PROVE Fresh(order[i], k) \in All
      OBVIOUS
    <3>1. <<order[i], k>> \in Firmware \X Keys
      BY <2>1
    <3> QED BY <3>1
  <2>6. part(i) \in Seq(All)
    <3> HIDE DEF All
    <3>1. DOMAIN keys(i) = 1 .. Len(keys(i)) /\ Len(keys(i)) \in Nat
      BY <2>3
    <3> QED BY <2>4, <2>5, <3>1
  <2>7. ToSet(part(i)) = {Fresh(order[i], keys(i)[j]) : j \in DOMAIN keys(i)}
    BY DEF ToSet
  <2>8. ToSet(keys(i)) = {keys(i)[j] : j \in DOMAIN keys(i)}
    BY DEF ToSet
  <2> HIDE DEF part
  <2> QED BY <2>3, <2>6, <2>7, <2>8
<1>3. parts \in Seq(Seq(All)) /\ DOMAIN parts = DOMAIN order
  <2> HIDE DEF part, All
  <2> QED BY <1>1, <1>2
<1>4. NewComponents(order) = FlattenSeq(parts)
  BY DEF NewComponents, Fresh
<1>5. /\ NewComponents(order) \in Seq(All)
      /\ ToSet(NewComponents(order)) = UNION {ToSet(part(i)) : i \in DOMAIN order}
  <2>1. \A i \in DOMAIN order : parts[i] = part(i)
    <3> HIDE DEF part
    <3> QED OBVIOUS
  <2> HIDE DEF parts, part, All
  <2>2. {ToSet(parts[i]) : i \in DOMAIN parts} = {ToSet(part(i)) : i \in DOMAIN order}
    BY <1>3, <2>1
  <2> QED BY <1>3, <1>4, <2>2, FlattenedSet
<1>6. ToSet(NewComponents(order)) =
        {Fresh(p[1], p[2]) : p \in {p \in ToSet(order) \X Keys : p[2] \in p[1].provides}}
  <2>1. ToSet(order) = {order[i] : i \in DOMAIN order}
    BY DEF ToSet
  <2>2. \A f \in Firmware : f.provides \in SUBSET Keys
    BY DocumentsAssumption
  <2>3. ASSUME NEW i \in DOMAIN order, NEW k \in order[i].provides
        PROVE  Fresh(order[i], k) \in
                 {Fresh(p[1], p[2]) : p \in {p \in ToSet(order) \X Keys : p[2] \in p[1].provides}}
    <3>1. <<order[i], k>> \in ToSet(order) \X Keys
      BY <1>1, <2>1, <2>2
    <3> HIDE DEF Fresh
    <3> QED BY <3>1
  <2>4. ASSUME NEW p \in ToSet(order) \X Keys, p[2] \in p[1].provides
        PROVE  \E i \in DOMAIN order : Fresh(p[1], p[2]) \in ToSet(part(i))
    <3>1. PICK i \in DOMAIN order : order[i] = p[1]
      BY <2>1
    <3>2. Fresh(p[1], p[2]) \in {Fresh(order[i], k) : k \in order[i].provides}
      BY <2>4, <3>1
    <3> HIDE DEF part
    <3> QED BY <1>2, <3>2
  <2> HIDE DEF part
  <2> QED BY <1>2, <1>5, <2>3, <2>4
<1>7. Stocked(NewComponents(order))
  <2>1. ASSUME NEW f \in Firmware, NEW k
        PROVE  Fresh(f, k).releases \in Seq(Firmware) /\ ToSet(Fresh(f, k).releases) # {}
    <3>1. <<f>> \in Seq(Firmware) /\ f \in ToSet(<<f>>)
      BY DEF ToSet
    <3> QED BY <3>1 DEF Fresh
  <2>2. \A c \in All : c.releases \in Seq(Firmware) /\ ToSet(c.releases) # {}
    BY <2>1
  <2> HIDE DEF All
  <2>3. DOMAIN NewComponents(order) = 1 .. Len(NewComponents(order)) /\ Len(NewComponents(order)) \in Nat
        /\ \A i \in DOMAIN NewComponents(order) : NewComponents(order)[i] \in All
    BY <1>5
  <2>4. ToSet(NewComponents(order)) \subseteq All
    BY <2>3 DEF ToSet
  <2>5. NewComponents(order) \in Seq(ToSet(NewComponents(order)))
    BY <1>5, SeqOfItsSet
  <2> QED BY <2>2, <2>4, <2>5 DEF Stocked
<1> QED BY <1>6, <1>7

\* What a component is of a run that mirrored some packages.
LEMMA NewComponent ==
  ASSUME NEW order \in Seq(Firmware), NEW k \in Keys
  PROVE  Named(PoolByKey(NewComponents(order), k), k,
               Providing(ToSet(order), k), Providing(ToSet(order), k))
<1> DEFINE new == OfKey(NewComponents(order), k)
           R == Providing(ToSet(order), k)
<1>1. Named(PoolByKey(NewComponents(order), k), k, {c.head : c \in new},
            UNION {ToSet(c.releases) : c \in new})
  BY NewPieces, Pooling
<1>2. new = {Fresh(f, k) : f \in R}
  <2>1. ASSUME NEW f \in R PROVE Fresh(f, k) \in new
    <3>1. <<f, k>> \in ToSet(order) \X Keys /\ k \in f.provides
      BY DEF Providing
    <3>2. Fresh(f, k) \in ToSet(NewComponents(order))
      BY <3>1, NewPieces
    <3>3. Fresh(f, k).key = k
      BY DEF Fresh
    <3> QED BY <3>2, <3>3 DEF OfKey
  <2>2. ASSUME NEW c \in new PROVE \E f \in R : c = Fresh(f, k)
    <3>1. c \in ToSet(NewComponents(order)) /\ c.key = k
      BY DEF OfKey
    <3>2. PICK p \in ToSet(order) \X Keys : p[2] \in p[1].provides /\ c = Fresh(p[1], p[2])
      BY <3>1, NewPieces
    <3>3. p[2] = k
      BY <3>1, <3>2 DEF Fresh
    <3> QED BY <3>2, <3>3 DEF Providing
  <2> HIDE DEF new, R
  <2> QED BY <2>1, <2>2
<1>3. \A f : Fresh(f, k).head = f /\ ToSet(Fresh(f, k).releases) = {f}
  <2> SUFFICES ASSUME NEW f PROVE Fresh(f, k).head = f /\ ToSet(Fresh(f, k).releases) = {f}
    OBVIOUS
  <2>1. ToSet(<<f>>) = {f}
    BY DEF ToSet
  <2> QED BY <2>1 DEF Fresh
<1>4. {c.head : c \in new} = R /\ UNION {ToSet(c.releases) : c \in new} = R
  <2> HIDE DEF new, R
  <2>1. {c.head : c \in new} = R
    BY <1>2, <1>3
  <2>2. \A c \in new : \E f \in R : ToSet(c.releases) = {f}
    BY <1>2, <1>3
  <2>3. \A f \in R : \E c \in new : ToSet(c.releases) = {f}
    BY <1>2, <1>3
  <2>4. ASSUME NEW f \in R PROVE f \in UNION {ToSet(c.releases) : c \in new}
    BY <2>3
  <2>5. ASSUME NEW f \in UNION {ToSet(c.releases) : c \in new} PROVE f \in R
    <3>1. PICK c \in new : f \in ToSet(c.releases)
      OBVIOUS
    <3>2. PICK g \in R : ToSet(c.releases) = {g}
      BY <2>2
    <3> QED BY <3>1, <3>2
  <2>6. UNION {ToSet(c.releases) : c \in new} = R
    BY <2>4, <2>5
  <2> QED BY <2>1, <2>6
<1> HIDE DEF new, R
<1> QED BY <1>1, <1>4 DEF R

-----------------------------------------------------------------------------
(***************************************************************************)
(* The document.  It is determined by what was mirrored, the head of each  *)
(* component and the definitions.                                          *)
(***************************************************************************)
Sole(k, head, R) == [key |-> k, head |-> head, releases |-> Sorted(R, NewestFirst(R))]

\* The component of a key, if the packages provide it.
Part(heads, M, k) ==
  IF Providing(M, k) = {} THEN << >> ELSE <<Sole(k, heads[k], Providing(M, k))>>

Parts(heads, M) == FlattenSeq([i \in DOMAIN KeyOrder |-> Part(heads, M, KeyOrder[i])])

DocumentOf(heads, M, defs) == RenderMetadata(Parts(heads, M), defs)

\* The head of a component is one of its packages.
Heading(heads, M) == \A k \in Keys : Providing(M, k) # {} => heads[k] \in Providing(M, k)

LEMMA SortedReleases ==
  ASSUME NEW R \in SUBSET Firmware
  PROVE  /\ Sorted(R, NewestFirst(R)) \in Seq(Firmware)
         /\ ToSet(Sorted(R, NewestFirst(R))) = R
<1>1. IsFiniteSet(R) /\ IsOrder(R, NewestFirst(R))
  BY DocumentsAssumption, FS_Subset, NewestFirstOrder
<1> DEFINE s == Sorted(R, NewestFirst(R))
<1>2. Cardinality(R) \in Nat /\ s \in [1 .. Cardinality(R) -> R] /\ ToSet(s) = R
  BY <1>1, SortedSet
<1> HIDE DEF s
<1>3. s \in Seq(Firmware)
  BY <1>2
<1> QED BY <1>2, <1>3 DEF s

LEMMA Grouping ==
  ASSUME NEW k \in Keys, NEW head \in Firmware, NEW R \in SUBSET Firmware, NEW defs
  PROVE  /\ GroupByTags(Sole(k, head, R), defs) \in Seq(Piece)
         /\ \A p \in ToSet(GroupByTags(Sole(k, head, R), defs)) :
              /\ p \in Piece /\ p.key = k /\ p.head = head
              /\ \E f \in R : p.tags = TagsOf(Sole(k, head, R), defs, f)
              /\ ToSet(p.releases) = {f \in R : TagsOf(Sole(k, head, R), defs, f) = p.tags}
         /\ \A f \in R : \E p \in ToSet(GroupByTags(Sole(k, head, R), defs)) :
              p.tags = TagsOf(Sole(k, head, R), defs, f)
<1> DEFINE c == Sole(k, head, R)
           tags(f) == TagsOf(c, defs, f)
           releases == Sorted(R, NewestFirst(R))
           all == {tags(f) : f \in R}
           sets == Sorted(all, {p \in all \X all : TagsBefore(p[1], p[2])})
           having(set) == {f \in R : tags(f) = set}
           piece(set) == [key |-> k, head |-> head, tags |-> set,
                          releases |-> Select(releases, having(set))]
           group == [i \in DOMAIN sets |-> piece(sets[i])]
<1>1. c.key = k /\ c.head = head /\ c.releases = releases
  BY DEF Sole
<1>2. releases \in Seq(Firmware) /\ ToSet(releases) = R
  BY SortedReleases
<1> HIDE DEF c, releases
<1>3. GroupByTags(c, defs) = group
  BY <1>1, <1>2 DEF GroupByTags
<1>4. \A f : tags(f) \in SUBSET Rings /\ tags(f) \in SUBSET Nat
  BY DocumentsAssumption DEF TagsOf
<1>5. IsFiniteSet(all)
  <2>1. IsFiniteSet(SUBSET Rings)
    BY RingsFinite, FS_SUBSET
  <2>2. all \in SUBSET (SUBSET Rings)
    <3> HIDE DEF tags
    <3> QED BY <1>4
  <2> HIDE DEF all
  <2> QED BY <2>1, <2>2, FS_Subset
<1>6. IsOrder(all, {p \in all \X all : TagsBefore(p[1], p[2])})
  <2> DEFINE order == {p \in all \X all : TagsBefore(p[1], p[2])}
  <2>1. all \subseteq SUBSET Nat
    <3> HIDE DEF tags
    <3> QED BY <1>4
  <2> HIDE DEF all
  <2>2. \A s, t \in all : <<s, t>> \in order <=> TagsBefore(s, t)
    OBVIOUS
  <2> HIDE DEF order
  <2>3. \A s, t \in all : ~TagsBefore(s, s) /\ (s # t => TagsBefore(s, t) \/ TagsBefore(t, s))
    BY <2>1, TagsBeforeTotal
  <2>4. \A s, t, u \in all : TagsBefore(s, t) /\ TagsBefore(t, u) => TagsBefore(s, u)
    BY <2>1, TagsBeforeTransitive
  <2>5. IsOrder(all, order)
    BY <2>2, <2>3, <2>4 DEF IsOrder
  <2> QED BY <2>5 DEF order
<1>7. /\ Cardinality(all) \in Nat
      /\ sets \in [1 .. Cardinality(all) -> all]
      /\ ToSet(sets) = all
  <2> HIDE DEF all
  <2> QED BY <1>5, <1>6, SortedSet
<1>8. \A set \in all : /\ piece(set) \in Piece
                       /\ ToSet(piece(set).releases) = having(set)
  <2> SUFFICES ASSUME NEW set \in all
               PROVE  piece(set) \in Piece /\ ToSet(piece(set).releases) = having(set)
    OBVIOUS
  <2>1. set \in SUBSET Rings
    <3> HIDE DEF tags
    <3> QED BY <1>4
  <2>2. /\ Select(releases, having(set)) \in Seq(Firmware)
        /\ ToSet(Select(releases, having(set))) = having(set)
    <3>1. having(set) = ToSet(releases) \cap having(set)
      <4> HIDE DEF tags
      <4> QED BY <1>2
    <3> HIDE DEF having
    <3>2. /\ Select(releases, having(set)) \in Seq(Firmware)
          /\ ToSet(Select(releases, having(set))) = ToSet(releases) \cap having(set)
      BY <1>2, SelectedSet
    <3> QED BY <3>1, <3>2
  <2> HIDE DEF all, having
  <2> QED BY <2>1, <2>2 DEF Piece
<1>9. group \in Seq(Piece)
  <2> HIDE DEF all, piece, sets
  <2> QED BY <1>7, <1>8
<1>10. ToSet(group) = {piece(set) : set \in all}
  <2>1. ToSet(group) = {piece(sets[i]) : i \in DOMAIN sets}
    <3> HIDE DEF all, piece, sets
    <3> QED BY DEF ToSet
  <2>2. all = {sets[i] : i \in DOMAIN sets}
    <3> HIDE DEF all, piece, sets
    <3> QED BY <1>7 DEF ToSet
  <2> HIDE DEF all, piece, sets
  <2> QED BY <2>1, <2>2
<1>11. \A p \in ToSet(group) :
         /\ p \in Piece /\ p.key = k /\ p.head = head
         /\ \E f \in R : p.tags = tags(f)
         /\ ToSet(p.releases) = {f \in R : tags(f) = p.tags}
  <2> SUFFICES ASSUME NEW p \in ToSet(group)
               PROVE  /\ p \in Piece /\ p.key = k /\ p.head = head
                      /\ \E f \in R : p.tags = tags(f)
                      /\ ToSet(p.releases) = {f \in R : tags(f) = p.tags}
    OBVIOUS
  <2>1. PICK set \in all : p = piece(set)
    <3> HIDE DEF all, piece, group
    <3> QED BY <1>10
  <2>2. p.key = k /\ p.head = head /\ p.tags = set
    <3> HIDE DEF all, group, having
    <3> QED BY <2>1
  <2>3. p \in Piece /\ ToSet(p.releases) = having(set)
    <3> HIDE DEF all, group, having, piece
    <3> QED BY <2>1, <1>8
  <2> HIDE DEF tags
  <2> QED BY <2>2, <2>3
<1>12. \A f \in R : \E p \in ToSet(group) : p.tags = tags(f)
  <2> SUFFICES ASSUME NEW f \in R PROVE \E p \in ToSet(group) : p.tags = tags(f)
    OBVIOUS
  <2>1. tags(f) \in all /\ piece(tags(f)).tags = tags(f)
    <3> HIDE DEF tags
    <3> QED OBVIOUS
  <2>2. piece(tags(f)) \in ToSet(group)
    <3> HIDE DEF tags, piece, group, all
    <3> QED BY <1>10, <2>1
  <2> QED BY <2>1, <2>2
<1> HIDE DEF group
<1> QED BY <1>3, <1>9, <1>11, <1>12 DEF c

-----------------------------------------------------------------------------
(***************************************************************************)
(* The document that is built and published.                               *)
(***************************************************************************)
Component == [key : Keys, head : Firmware, releases : Seq(Firmware)]

LEMMA PartsOfKeys ==
  ASSUME NEW M \in SUBSET Firmware, NEW heads, Heading(heads, M)
  PROVE  /\ Parts(heads, M) \in Seq(Component)
         /\ \A c \in ToSet(Parts(heads, M)) :
              \E k \in Keys : /\ Providing(M, k) # {}
                              /\ c = Sole(k, heads[k], Providing(M, k))
         /\ \A k \in Keys : Providing(M, k) # {} =>
              Sole(k, heads[k], Providing(M, k)) \in ToSet(Parts(heads, M))
<1> DEFINE part(k) == Part(heads, M, k)
           parts == [i \in DOMAIN KeyOrder |-> part(KeyOrder[i])]
<1>1. /\ DOMAIN KeyOrder = 1 .. Len(KeyOrder) /\ Len(KeyOrder) \in Nat
      /\ Keys = {KeyOrder[i] : i \in DOMAIN KeyOrder}
  BY OverlapsAssumption DEF Keys, ToSet
<1>2. \A k \in Keys : Providing(M, k) # {} => Sole(k, heads[k], Providing(M, k)) \in Component
  <2> SUFFICES ASSUME NEW k \in Keys, Providing(M, k) # {}
               PROVE  Sole(k, heads[k], Providing(M, k)) \in Component
    OBVIOUS
  <2>1. Providing(M, k) \in SUBSET Firmware /\ heads[k] \in Firmware
    BY DEF Providing, Heading
  <2> DEFINE releases == Sorted(Providing(M, k), NewestFirst(Providing(M, k)))
  <2>2. releases \in Seq(Firmware)
    BY <2>1, SortedReleases
  <2> HIDE DEF releases
  <2>3. [key |-> k, head |-> heads[k], releases |-> releases] \in Component
    BY <2>1, <2>2 DEF Component
  <2> QED BY <2>3 DEF releases, Sole
<1>3. \A k \in Keys :
        /\ part(k) \in Seq(Component)
        /\ Providing(M, k) = {} => ToSet(part(k)) = {}
        /\ Providing(M, k) # {} => ToSet(part(k)) = {Sole(k, heads[k], Providing(M, k))}
  <2> SUFFICES ASSUME NEW k \in Keys
               PROVE  /\ part(k) \in Seq(Component)
                      /\ Providing(M, k) = {} => ToSet(part(k)) = {}
                      /\ Providing(M, k) # {} =>
                           ToSet(part(k)) = {Sole(k, heads[k], Providing(M, k))}
    OBVIOUS
  <2>1. CASE Providing(M, k) = {}
    BY <2>1 DEF Part, ToSet
  <2>2. CASE Providing(M, k) # {}
    <3> DEFINE c == Sole(k, heads[k], Providing(M, k))
    <3>1. c \in Component /\ part(k) = <<c>>
      BY <1>2, <2>2 DEF Part
    <3> HIDE DEF c, part
    <3> QED BY <2>2, <3>1 DEF ToSet, c
  <2> QED BY <2>1, <2>2
<1>4. parts \in Seq(Seq(Component)) /\ DOMAIN parts = DOMAIN KeyOrder
  <2> HIDE DEF part
  <2> QED BY <1>1, <1>3
<1>5. \A i \in DOMAIN KeyOrder : parts[i] = part(KeyOrder[i])
  <2> HIDE DEF part
  <2> QED OBVIOUS
<1>6. Parts(heads, M) = FlattenSeq(parts)
  BY DEF Parts
<1> HIDE DEF part, parts
<1>7. /\ Parts(heads, M) \in Seq(Component)
      /\ ToSet(Parts(heads, M)) = UNION {ToSet(parts[i]) : i \in DOMAIN parts}
  BY <1>4, <1>6, FlattenedSet
<1>8. ASSUME NEW c \in ToSet(Parts(heads, M))
      PROVE  \E k \in Keys : Providing(M, k) # {} /\ c = Sole(k, heads[k], Providing(M, k))
  <2>1. PICK i \in DOMAIN KeyOrder : c \in ToSet(part(KeyOrder[i]))
    BY <1>4, <1>5, <1>7
  <2> QED BY <1>1, <1>3, <2>1
<1>9. ASSUME NEW k \in Keys, Providing(M, k) # {}
      PROVE  Sole(k, heads[k], Providing(M, k)) \in ToSet(Parts(heads, M))
  <2>1. PICK i \in DOMAIN KeyOrder : k = KeyOrder[i]
    BY <1>1
  <2>2. Sole(k, heads[k], Providing(M, k)) \in ToSet(parts[i])
    BY <1>3, <1>5, <1>9, <2>1
  <2> QED BY <1>4, <1>7, <2>2
<1> QED BY <1>7, <1>8, <1>9

\* The tags of a release among those of its component.
Tags(k, R, defs, f) ==
  {ring \in Rings :
     /\ f \in R /\ f.version = defs[ring][k]
     /\ \A g \in R : g.version = f.version => g = f \/ Newer(f, g)}

LEMMA TagsOfSole ==
  ASSUME NEW k, NEW head, NEW R \in SUBSET Firmware, NEW defs, NEW f
  PROVE  TagsOf(Sole(k, head, R), defs, f) = Tags(k, R, defs, f)
<1> DEFINE c == Sole(k, head, R)
<1>1. c.key = k /\ ToSet(c.releases) = R
  BY SortedReleases DEF Sole
<1> HIDE DEF c
<1>2. ASSUME NEW ring
      PROVE  f \in TaggedReleases(c, defs[ring][c.key]) <=>
               /\ f \in R /\ f.version = defs[ring][k]
               /\ \A g \in R : g.version = f.version => g = f \/ Newer(f, g)
  BY <1>1 DEF TaggedReleases, ReleasesOf
<1>3. TagsOf(c, defs, f) = Tags(k, R, defs, f)
  BY <1>2 DEF TagsOf, Tags
<1> QED BY <1>3 DEF c

\* A piece of a component: its releases of some tags.
IsPiece(p, k, head, R, defs) ==
  /\ p \in Piece /\ p.key = k /\ p.head = head
  /\ \E f \in R : p.tags = Tags(k, R, defs, f)
  /\ ToSet(p.releases) = {f \in R : Tags(k, R, defs, f) = p.tags}

\* The pieces of each component, told by their tags.
LEMMA DocumentPieces ==
  ASSUME NEW M \in SUBSET Firmware, NEW heads, Heading(heads, M), NEW defs
  PROVE  /\ DocumentOf(heads, M, defs) \in Seq(Piece)
         /\ \A p \in ToSet(DocumentOf(heads, M, defs)) :
              p.key \in Keys /\ IsPiece(p, p.key, heads[p.key], Providing(M, p.key), defs)
         /\ \A k \in Keys : \A f \in Providing(M, k) :
              \E p \in ToSet(DocumentOf(heads, M, defs)) :
                p.key = k /\ p.tags = Tags(k, Providing(M, k), defs, f)
<1> DEFINE components == Parts(heads, M)
           group(c) == GroupByTags(c, defs)
           groups == [i \in DOMAIN components |-> group(components[i])]
           sole(k) == Sole(k, heads[k], Providing(M, k))
           tags(k, f) == Tags(k, Providing(M, k), defs, f)
           Right(p, k) == IsPiece(p, k, heads[k], Providing(M, k), defs)
<1>1. /\ components \in Seq(Component)
      /\ \A c \in ToSet(components) : \E k \in Keys : Providing(M, k) # {} /\ c = sole(k)
      /\ \A k \in Keys : Providing(M, k) # {} => sole(k) \in ToSet(components)
  BY PartsOfKeys
<1>2. ASSUME NEW k \in Keys, Providing(M, k) # {}
      PROVE  /\ group(sole(k)) \in Seq(Piece)
             /\ \A p \in ToSet(group(sole(k))) : Right(p, k)
             /\ \A f \in Providing(M, k) : \E p \in ToSet(group(sole(k))) : p.tags = tags(k, f)
  <2>1. Providing(M, k) \in SUBSET Firmware /\ heads[k] \in Firmware
    BY <1>2 DEF Providing, Heading
  <2>2. \A f : TagsOf(sole(k), defs, f) = tags(k, f)
    BY <2>1, TagsOfSole
  <2>3. \A p \in ToSet(group(sole(k))) :
          /\ p \in Piece /\ p.key = k /\ p.head = heads[k]
          /\ \E f \in Providing(M, k) : p.tags = TagsOf(sole(k), defs, f)
          /\ ToSet(p.releases) = {f \in Providing(M, k) : TagsOf(sole(k), defs, f) = p.tags}
    BY <2>1, Grouping
  <2>4. /\ group(sole(k)) \in Seq(Piece)
        /\ \A f \in Providing(M, k) : \E p \in ToSet(group(sole(k))) :
             p.tags = TagsOf(sole(k), defs, f)
    BY <2>1, Grouping
  <2> HIDE DEF group, sole
  <2> QED BY <2>2, <2>3, <2>4 DEF IsPiece
<1> HIDE DEF components, group, sole, tags, Right
<1>3. DOMAIN components = 1 .. Len(components) /\ Len(components) \in Nat
      /\ ToSet(components) = {components[i] : i \in DOMAIN components}
  BY <1>1 DEF ToSet
<1>4. groups \in Seq(Seq(Piece)) /\ DOMAIN groups = DOMAIN components
      /\ \A i \in DOMAIN components : groups[i] = group(components[i])
  <2>1. \A i \in DOMAIN components : group(components[i]) \in Seq(Piece)
    BY <1>1, <1>2, <1>3
  <2> QED BY <1>3, <2>1
<1>5. DocumentOf(heads, M, defs) = FlattenSeq(groups)
  BY DEF DocumentOf, RenderMetadata, components, group
<1> HIDE DEF groups
<1>6. /\ DocumentOf(heads, M, defs) \in Seq(Piece)
      /\ ToSet(DocumentOf(heads, M, defs)) = UNION {ToSet(groups[i]) : i \in DOMAIN groups}
  BY <1>4, <1>5, FlattenedSet
<1>7. ASSUME NEW p \in ToSet(DocumentOf(heads, M, defs)) PROVE p.key \in Keys /\ Right(p, p.key)
  <2>1. PICK i \in DOMAIN components : p \in ToSet(group(components[i]))
    BY <1>4, <1>6
  <2>2. PICK k \in Keys : Providing(M, k) # {} /\ components[i] = sole(k)
    BY <1>1, <1>3
  <2>3. Right(p, k)
    BY <1>2, <2>1, <2>2
  <2>4. p.key = k
    BY <2>3 DEF Right, IsPiece
  <2> QED BY <2>3, <2>4
<1>8. ASSUME NEW k \in Keys, NEW f \in Providing(M, k)
      PROVE  \E p \in ToSet(DocumentOf(heads, M, defs)) : p.key = k /\ p.tags = tags(k, f)
  <2>1. PICK i \in DOMAIN components : components[i] = sole(k)
    BY <1>1, <1>3
  <2>2. PICK p \in ToSet(group(sole(k))) : p.tags = tags(k, f)
    BY <1>2
  <2>3. p.key = k
    BY <1>2, <2>2 DEF Right, IsPiece
  <2>4. p \in ToSet(DocumentOf(heads, M, defs))
    BY <1>4, <1>6, <2>1, <2>2
  <2> QED BY <2>2, <2>3, <2>4
<1> QED BY <1>6, <1>7, <1>8 DEF Right, tags

LEMMA NamedOfMore ==
  ASSUME NEW p, NEW k, NEW H, NEW R, NEW more, Named(p, k, H, R), R # {} => H \subseteq more
  PROVE  Named(p, k, more, R)
BY DEF Named

\* A document that is read back gives every component again.
LEMMA ReadBack ==
  ASSUME NEW M \in SUBSET Firmware, NEW heads, Heading(heads, M), NEW defs, NEW k \in Keys
  PROVE  Named(PoolByKey(DocumentOf(heads, M, defs), k), k, {heads[k]}, Providing(M, k))
<1> DEFINE document == DocumentOf(heads, M, defs)
           mine == OfKey(document, k)
           c == Sole(k, heads[k], Providing(M, k))
<1>1. document \in Seq(Piece)
  BY DocumentPieces
<1>2. \A p \in ToSet(document) :
        p.key \in Keys /\ IsPiece(p, p.key, heads[p.key], Providing(M, p.key), defs)
  BY DocumentPieces
<1>3. ASSUME NEW f \in Providing(M, k)
      PROVE  \E p \in ToSet(document) : p.key = k /\ f \in ToSet(p.releases)
  <2>1. PICK p \in ToSet(document) : p.key = k /\ p.tags = Tags(k, Providing(M, k), defs, f)
    BY DocumentPieces
  <2> HIDE DEF document
  <2> QED BY <1>2, <2>1 DEF IsPiece
<1> HIDE DEF document
<1>4. Stocked(document)
  <2>1. document \in Seq(ToSet(document))
    BY <1>1, SeqOfItsSet
  <2>2. \A p \in ToSet(document) : p.releases \in Seq(Firmware) /\ ToSet(p.releases) # {}
    BY <1>2 DEF IsPiece, Piece
  <2> QED BY <2>1, <2>2 DEF Stocked
<1>5. Named(PoolByKey(document, k), k, {p.head : p \in mine}, UNION {ToSet(p.releases) : p \in mine})
  BY <1>4, Pooling
<1>6. {p.head : p \in mine} \subseteq {heads[k]}
  BY <1>2 DEF OfKey, IsPiece
<1>7. UNION {ToSet(p.releases) : p \in mine} = Providing(M, k)
  <2>1. ASSUME NEW p \in mine PROVE ToSet(p.releases) \subseteq Providing(M, k)
    BY <1>2 DEF OfKey, IsPiece
  <2>2. ASSUME NEW f \in Providing(M, k) PROVE \E p \in mine : f \in ToSet(p.releases)
    BY <1>3 DEF OfKey
  <2> HIDE DEF mine
  <2> QED BY <2>1, <2>2
<1> HIDE DEF mine
<1>8. Named(PoolByKey(document, k), k, {p.head : p \in mine}, Providing(M, k))
  BY <1>5, <1>7
<1>9. Named(PoolByKey(document, k), k, {heads[k]}, Providing(M, k))
  BY <1>6, <1>8, NamedOfMore
<1> QED BY <1>9 DEF document

\* The components of all that is mirrored, each with the head it had, if it had one.
Builds(components, heads, M, all) ==
  \E after : /\ Heading(after, all)
             /\ \A k \in Keys : Providing(M, k) # {} => after[k] = heads[k]
             /\ components = Parts(after, all)

LEMMA Building ==
  ASSUME NEW M \in SUBSET Firmware, NEW heads, Heading(heads, M), NEW defs,
         NEW order \in Seq(Firmware), M \cap ToSet(order) = {}, NEW replace \in BOOLEAN
  PROVE  Builds(BuildDocument(DocumentOf(heads, M, defs), NewComponents(order), replace),
                heads, M, M \cup ToSet(order))
<1> DEFINE all == M \cup ToSet(order)
           new == NewComponents(order)
           existing == DocumentOf(heads, M, defs)
           merged(k) == MergeComponents(existing, new, replace, k)
           built(k) == [i \in DOMAIN merged(k) |-> [merged(k)[i] EXCEPT !.releases = SortReleases(@)]]
           after == [k \in Keys |-> IF merged(k) = << >> THEN k ELSE merged(k)[1].head]
<1>1. all \in SUBSET Firmware /\ ToSet(order) \in SUBSET Firmware
  BY DEF ToSet
<1>2. ASSUME NEW k \in Keys
      PROVE  /\ Providing(M, k) \cap Providing(ToSet(order), k) = {}
             /\ Providing(M, k) \cup Providing(ToSet(order), k) = Providing(all, k)
  BY DEF Providing
<1>3. ASSUME NEW k \in Keys
      PROVE  Named(merged(k), k,
                   IF Providing(M, k) # {} THEN {heads[k]} ELSE Providing(ToSet(order), k),
                   Providing(all, k))
  <2>1. Named(PoolByKey(new, k), k, Providing(ToSet(order), k), Providing(ToSet(order), k))
    BY NewComponent
  <2>2. Providing(M, k) \cap Providing(ToSet(order), k) = {}
    BY <1>2
  <2>3. Named(PoolByKey(existing, k), k, {heads[k]}, Providing(M, k))
    BY ReadBack
  <2> HIDE DEF all, new, existing
  <2>4. Named(merged(k), k,
              IF Providing(M, k) # {} THEN {heads[k]} ELSE Providing(ToSet(order), k),
              Providing(M, k) \cup Providing(ToSet(order), k))
    BY <2>1, <2>2, <2>3, Merging
  <2> QED BY <1>2, <2>4
<1> HIDE DEF merged, new, existing
<1>4. ASSUME NEW k \in Keys, Providing(all, k) = {}
      PROVE  built(k) = << >>
  <2>1. merged(k) = << >>
    <3> HIDE DEF all
    <3> QED BY <1>3, <1>4 DEF Named
  <2>2. DOMAIN merged(k) = {}
    BY <2>1
  <2>3. \A F : [i \in {} |-> F[i]] = << >>
    OBVIOUS
  <2> QED BY <2>2
<1>5. ASSUME NEW k \in Keys, Providing(all, k) # {}
      PROVE  /\ after[k] \in Providing(all, k)
             /\ Providing(M, k) # {} => after[k] = heads[k]
             /\ built(k) = <<Sole(k, after[k], Providing(all, k))>>
  <2> DEFINE H == IF Providing(M, k) # {} THEN {heads[k]} ELSE Providing(ToSet(order), k)
  <2>1. PICK head \in H, releases \in Seq(Firmware) :
          /\ ToSet(releases) = Providing(all, k)
          /\ merged(k) = <<[key |-> k, head |-> head, releases |-> releases]>>
    <3> HIDE DEF H, all
    <3>1. Named(merged(k), k, H, Providing(all, k))
      BY <1>3 DEF H
    <3> QED BY <1>5, <3>1 DEF Named
  <2> DEFINE c == [key |-> k, head |-> head, releases |-> releases]
             sorted == SortReleases(releases)
  <2>2. after[k] = head
    <3>1. merged(k)[1].head = head /\ merged(k) # << >>
      BY <2>1
    <3> QED BY <3>1
  <2>3. [c EXCEPT !.releases = SortReleases(@)] = [key |-> k, head |-> head, releases |-> sorted]
    <3>1. c.releases = releases
      OBVIOUS
    <3> HIDE DEF sorted
    <3>2. [c EXCEPT !.releases = sorted] = [key |-> k, head |-> head, releases |-> sorted]
      OBVIOUS
    <3> HIDE DEF c
    <3> QED BY <3>1, <3>2 DEF sorted
  <2>4. built(k) = <<[c EXCEPT !.releases = SortReleases(@)]>>
    <3> DEFINE d == [c EXCEPT !.releases = SortReleases(@)]
    <3>1. DOMAIN merged(k) = {1} /\ merged(k)[1] = c
      BY <2>1
    <3>2. built(k) = [i \in {1} |-> d]
      <4> HIDE DEF c
      <4> QED BY <3>1
    <3> HIDE DEF d, built
    <3> QED BY <3>2 DEF d
  <2>5. sorted = Sorted(Providing(all, k), NewestFirst(Providing(all, k)))
    BY <2>1 DEF SortReleases
  <2>6. head \in Providing(all, k) /\ (Providing(M, k) # {} => head = heads[k])
    BY <1>2, <2>1 DEF Heading
  <2> HIDE DEF built, after, all, sorted, H
  <2> QED BY <2>2, <2>3, <2>4, <2>5, <2>6 DEF Sole
<1> HIDE DEF built, after, all
<1>6. Heading(after, all)
  BY <1>5 DEF Heading
<1>7. \A k \in Keys : built(k) = Part(after, all, k)
  BY <1>4, <1>5 DEF Part
<1>8. \A k \in Keys : Providing(M, k) # {} => after[k] = heads[k]
  BY <1>2, <1>5
<1>9. BuildDocument(existing, NewComponents(order), replace) = Parts(after, all)
  <2>1. BuildDocument(existing, NewComponents(order), replace)
          = FlattenSeq([i \in DOMAIN KeyOrder |-> built(KeyOrder[i])])
    BY DEF BuildDocument, built, merged, new
  <2>2. \A i \in DOMAIN KeyOrder : KeyOrder[i] \in Keys
    BY DEF Keys, ToSet
  <2>3. [i \in DOMAIN KeyOrder |-> built(KeyOrder[i])]
          = [i \in DOMAIN KeyOrder |-> Part(after, all, KeyOrder[i])]
    BY <1>7, <2>2
  <2> QED BY <2>1, <2>3 DEF Parts
<1> QED BY <1>6, <1>8, <1>9 DEF all, existing, Builds

LEMMA DocumentReleases ==
  ASSUME NEW M \in SUBSET Firmware, NEW heads, Heading(heads, M), NEW defs
  PROVE  UNION {ToSet(DocumentOf(heads, M, defs)[i].releases) : i \in DOMAIN DocumentOf(heads, M, defs)}
           = M
<1> DEFINE document == DocumentOf(heads, M, defs)
<1>1. \A p \in ToSet(document) :
        p.key \in Keys /\ IsPiece(p, p.key, heads[p.key], Providing(M, p.key), defs)
  BY DocumentPieces
<1>2. \A k \in Keys : \A f \in Providing(M, k) :
        \E p \in ToSet(document) : p.key = k /\ p.tags = Tags(k, Providing(M, k), defs, f)
  BY DocumentPieces
<1> HIDE DEF document
<1>3. ASSUME NEW p \in ToSet(document) PROVE ToSet(p.releases) \subseteq M
  BY <1>1 DEF IsPiece, Providing
<1>4. ASSUME NEW f \in M PROVE \E p \in ToSet(document) : f \in ToSet(p.releases)
  <2>1. PICK k \in Keys : f \in Providing(M, k)
    BY DocumentsAssumption DEF Providing
  <2>2. PICK p \in ToSet(document) : p.key = k /\ p.tags = Tags(k, Providing(M, k), defs, f)
    BY <1>2, <2>1
  <2> QED BY <1>1, <2>1, <2>2 DEF IsPiece
<1>5. UNION {ToSet(document[i].releases) : i \in DOMAIN document}
        = UNION {ToSet(p.releases) : p \in ToSet(document)}
  BY DEF ToSet
<1> QED BY <1>3, <1>4, <1>5 DEF document

LEMMA EmptyDocument ==
  ASSUME NEW heads, NEW defs
  PROVE  Heading(heads, {}) /\ DocumentOf(heads, {}, defs) = << >>
<1>1. Heading(heads, {}) /\ {} \in SUBSET Firmware /\ \A k : Providing({}, k) = {}
  BY DEF Heading, Providing
<1> DEFINE document == DocumentOf(heads, {}, defs)
<1>2. document \in Seq(Piece) /\ \A p \in ToSet(document) : \E f \in Providing({}, p.key) : TRUE
  <2>1. \A p \in ToSet(document) :
          p.key \in Keys /\ IsPiece(p, p.key, heads[p.key], Providing({}, p.key), defs)
    BY <1>1, DocumentPieces
  <2>2. document \in Seq(Piece)
    BY <1>1, DocumentPieces
  <2> HIDE DEF document
  <2> QED BY <2>1, <2>2 DEF IsPiece
<1> HIDE DEF document
<1>3. ToSet(document) = {}
  BY <1>1, <1>2
<1>4. document = << >>
  BY <1>2, <1>3 DEF ToSet
<1> QED BY <1>1, <1>4 DEF document

\* The heads of what is not mirrored do not matter.
LEMMA HeadsThatCount ==
  ASSUME NEW M, NEW heads, NEW others, NEW defs,
         \A k \in Keys : Providing(M, k) # {} => heads[k] = others[k]
  PROVE  DocumentOf(heads, M, defs) = DocumentOf(others, M, defs)
<1>1. \A k \in Keys : Part(heads, M, k) = Part(others, M, k)
  BY DEF Part
<1>2. \A i \in DOMAIN KeyOrder : KeyOrder[i] \in Keys
  BY DEF Keys, ToSet
<1>3. Parts(heads, M) = Parts(others, M)
  BY <1>1, <1>2 DEF Parts
<1> QED BY <1>3 DEF DocumentOf

-----------------------------------------------------------------------------
(***************************************************************************)
(* The invariant: the document is that of what was mirrored.               *)
(***************************************************************************)
\* What the next run keeps.
Held == IF outdated THEN {} ELSE mirrored

DocumentInv ==
  /\ outdated \in BOOLEAN
  /\ definitions \in Definitions /\ tagged \in Definitions
  /\ mirrored \subseteq Firmware
  /\ published \in Seq(Piece)
  /\ ~outdated => \E heads : /\ Heading(heads, mirrored)
                             /\ published = DocumentOf(heads, mirrored, tagged)

LEMMA ExistingDocument ==
  ASSUME DocumentInv
  PROVE  \E heads : Heading(heads, Held) /\ Existing = DocumentOf(heads, Held, tagged)
<1>1. CASE outdated
  <2>1. Held = {} /\ Existing = << >>
    BY <1>1 DEF Held, Existing
  <2> QED BY <2>1, EmptyDocument
<1>2. CASE ~outdated
  <2>1. Held = mirrored /\ Existing = published
    BY <1>2 DEF Held, Existing
  <2> QED BY <1>2, <2>1 DEF DocumentInv
<1> QED BY <1>1, <1>2

LEMMA IndexedIsHeld ==
  ASSUME DocumentInv
  PROVE  Indexed = Held
<1>1. PICK heads : Heading(heads, Held) /\ Existing = DocumentOf(heads, Held, tagged)
  BY ExistingDocument
<1>2. Held \in SUBSET Firmware
  BY DEF DocumentInv, Held
<1> DEFINE document == DocumentOf(heads, Held, tagged)
<1>3. UNION {ToSet(document[i].releases) : i \in DOMAIN document} = Held
  BY <1>1, <1>2, DocumentReleases
<1> HIDE DEF document
<1>4. Existing = document
  BY <1>1 DEF document
<1> QED BY <1>3, <1>4 DEF Indexed

LEMMA OrdersOfSome ==
  ASSUME NEW S, IsFiniteSet(S), NEW order \in SetToAllKPermutations(S)
  PROVE  order \in Seq(S) /\ ToSet(order) \subseteq S
<1>1. PICK T \in SUBSET S : order \in SetToSeqs(T)
  BY DEF SetToAllKPermutations
<1>2. IsFiniteSet(T)
  BY FS_Subset
<1>3. order \in Seq(T) /\ ToSet(order) = T
  BY <1>1, <1>2, EveryEnumeration
<1> QED BY <1>3

\* A refresh builds and publishes the document of what was and what is mirrored.
LEMMA Refreshing ==
  ASSUME DocumentInv,
         NEW order \in SetToAllKPermutations(Firmware \ Indexed), NEW replace \in BOOLEAN,
         Refresh(order, replace)
  PROVE  /\ mirrored' = Held \cup ToSet(order) /\ mirrored' \subseteq Firmware
         /\ \E heads, after :
              /\ Heading(heads, Held) /\ Existing = DocumentOf(heads, Held, tagged)
              /\ Heading(after, mirrored')
              /\ \A k \in Keys : Providing(Held, k) # {} => after[k] = heads[k]
              /\ BuildDocument(Existing, NewComponents(order), replace) = Parts(after, mirrored')
              /\ published' = DocumentOf(after, mirrored', tagged')
<1>1. order \in Seq(Firmware) /\ ToSet(order) \subseteq Firmware /\ Held \cap ToSet(order) = {}
  <2>1. IsFiniteSet(Firmware \ Indexed)
    BY DocumentsAssumption, FS_Subset
  <2>2. order \in Seq(Firmware \ Indexed) /\ ToSet(order) \subseteq Firmware \ Indexed
    BY <2>1, OrdersOfSome
  <2> QED BY <2>2, IndexedIsHeld
<1>2. mirrored' = Held \cup ToSet(order)
  BY DEF Refresh, Held
<1>3. Held \in SUBSET Firmware
  BY DEF DocumentInv, Held
<1>4. PICK heads : Heading(heads, Held) /\ Existing = DocumentOf(heads, Held, tagged)
  BY ExistingDocument
<1>5. PICK after :
        /\ Heading(after, Held \cup ToSet(order))
        /\ \A k \in Keys : Providing(Held, k) # {} => after[k] = heads[k]
        /\ BuildDocument(Existing, NewComponents(order), replace)
             = Parts(after, Held \cup ToSet(order))
  <2>1. Builds(BuildDocument(DocumentOf(heads, Held, tagged), NewComponents(order), replace),
               heads, Held, Held \cup ToSet(order))
    BY <1>1, <1>3, <1>4, Building
  <2> QED BY <1>4, <2>1 DEF Builds
<1>6. published' = DocumentOf(after, mirrored', tagged')
  BY <1>2, <1>5 DEF Refresh, DocumentOf
<1> QED BY <1>1, <1>2, <1>3, <1>4, <1>5, <1>6

LEMMA DocumentKept ==
  ASSUME DocumentInv, [Next]_vars
  PROVE  DocumentInv'
<1>1. CASE \E order \in SetToAllKPermutations(Firmware \ Indexed), replace \in BOOLEAN :
             Refresh(order, replace)
  <2>1. PICK order \in SetToAllKPermutations(Firmware \ Indexed), replace \in BOOLEAN :
          Refresh(order, replace)
    BY <1>1
  <2>2. /\ mirrored' \subseteq Firmware
        /\ \E after : /\ Heading(after, mirrored')
                      /\ published' = DocumentOf(after, mirrored', tagged')
    BY <2>1, Refreshing
  <2>3. published' \in Seq(Piece)
    BY <2>2, DocumentPieces
  <2> QED BY <2>1, <2>2, <2>3 DEF DocumentInv, Refresh
<1>2. CASE (\E defs \in Definitions : Edit(defs)) \/ UNCHANGED vars
  BY <1>2 DEF DocumentInv, Edit, vars
<1>3. CASE Upgrade
  BY <1>3 DEF DocumentInv, Upgrade
<1> QED BY <1>1, <1>2, <1>3 DEF Next

LEMMA DocumentCorrect == Spec => []DocumentInv
<1>1. Init => DocumentInv
  <2> SUFFICES ASSUME Init PROVE DocumentInv
    OBVIOUS
  <2>1. << >> \in Seq(Piece)
    OBVIOUS
  <2>2. \A heads : Heading(heads, {}) /\ << >> = DocumentOf(heads, {}, tagged)
    BY EmptyDocument
  <2> QED BY <2>1, <2>2 DEF Init, DocumentInv
<1>2. DocumentInv /\ [Next]_vars => DocumentInv'
  BY DocumentKept
<1> QED BY <1>1, <1>2, PTL DEF Spec

\* With nothing new and the definitions of the last time, what is read back, pooled,
\* merged, sorted, tagged and grouped again is the very document that was read.
THEOREM ReadsBackTheSameCorrect == Spec => ReadsBackTheSame
<1>1. ASSUME DocumentInv, [Next]_vars, ~outdated, mirrored' = mirrored, tagged' = tagged
      PROVE  published' = published
  <2>1. CASE \E order \in SetToAllKPermutations(Firmware \ Indexed), replace \in BOOLEAN :
               Refresh(order, replace)
    <3>1. PICK heads, after :
            /\ Existing = DocumentOf(heads, Held, tagged)
            /\ \A k \in Keys : Providing(Held, k) # {} => after[k] = heads[k]
            /\ published' = DocumentOf(after, mirrored', tagged')
      BY <1>1, <2>1, Refreshing
    <3>2. Held = mirrored /\ Existing = published
      BY <1>1 DEF Held, Existing
    <3>3. DocumentOf(after, mirrored, tagged) = DocumentOf(heads, mirrored, tagged)
      <4>1. \A k \in Keys : Providing(mirrored, k) # {} => after[k] = heads[k]
        BY <3>1, <3>2
      <4> QED BY <4>1, HeadsThatCount
    <3> QED BY <1>1, <3>1, <3>2, <3>3
  <2>2. CASE ~\E order \in SetToAllKPermutations(Firmware \ Indexed), replace \in BOOLEAN :
               Refresh(order, replace)
    BY <1>1, <2>2 DEF Next, Edit, Upgrade, vars
  <2> QED BY <2>1, <2>2
<1>2. DocumentInv /\ [Next]_vars =>
        [~outdated /\ mirrored' = mirrored /\ tagged' = tagged => published' = published]_vars
  BY <1>1
<1> QED BY <1>2, DocumentCorrect, PTL DEF Spec, ReadsBackTheSame

CarriedIn(document, ring, k) ==
  UNION {ToSet(p.releases) : p \in {p \in ToSet(document) : p.key = k /\ ring \in p.tags}}

NewestOf(R, version) ==
  {f \in R : f.version = version /\ ~\E g \in R : g.version = version /\ Newer(g, f)}

LEMMA TaggedOfDocument ==
  ASSUME NEW M \in SUBSET Firmware, NEW heads, Heading(heads, M), NEW defs,
         NEW ring \in Rings, NEW k \in Keys
  PROVE  CarriedIn(DocumentOf(heads, M, defs), ring, k) = NewestOf(Providing(M, k), defs[ring][k])
<1> DEFINE document == DocumentOf(heads, M, defs)
           R == Providing(M, k)
           carrying == {p \in ToSet(document) : p.key = k /\ ring \in p.tags}
           newest == {f \in R : f.version = defs[ring][k] /\
                        ~\E g \in R : g.version = defs[ring][k] /\ Newer(g, f)}
<1>1. \A p \in ToSet(document) :
        p.key \in Keys /\ IsPiece(p, p.key, heads[p.key], Providing(M, p.key), defs)
  BY DocumentPieces
<1>2. \A f \in R : \E p \in ToSet(document) : p.key = k /\ p.tags = Tags(k, R, defs, f)
  BY DocumentPieces
<1> HIDE DEF document
<1>3. \A f \in R : f \in newest <=> ring \in Tags(k, R, defs, f)
  <2>1. \A f, g \in R : /\ ~(Newer(f, g) /\ Newer(g, f))
                        /\ f # g => Newer(f, g) \/ Newer(g, f)
    <3>1. R \in SUBSET Firmware
      BY DEF Providing
    <3> HIDE DEF R
    <3>2. \A f, g \in R : /\ f.date \in Nat /\ f.checksum \in Nat
                          /\ f.date = g.date /\ f.checksum = g.checksum => f = g
      BY <3>1, DocumentsAssumption
    <3> QED BY <3>2 DEF Newer
  <2> HIDE DEF R
  <2>2. ASSUME NEW f \in R PROVE f \in newest <=> ring \in Tags(k, R, defs, f)
    BY <2>1 DEF Tags
  <2> QED BY <2>2
<1>4. ASSUME NEW p \in carrying PROVE ToSet(p.releases) \subseteq newest
  <2>1. IsPiece(p, k, heads[k], R, defs) /\ ring \in p.tags
    BY <1>1
  <2> HIDE DEF newest, R
  <2> QED BY <1>3, <2>1 DEF IsPiece
<1>5. ASSUME NEW f \in newest PROVE \E p \in carrying : f \in ToSet(p.releases)
  <2>1. f \in R /\ ring \in Tags(k, R, defs, f)
    BY <1>3
  <2>2. PICK p \in ToSet(document) : p.key = k /\ p.tags = Tags(k, R, defs, f)
    BY <1>2, <2>1
  <2>3. IsPiece(p, k, heads[k], R, defs)
    BY <1>1, <2>2
  <2> HIDE DEF R
  <2> QED BY <2>1, <2>2, <2>3 DEF IsPiece
<1> HIDE DEF carrying, newest
<1>6. UNION {ToSet(p.releases) : p \in carrying} = newest
  BY <1>4, <1>5
<1> QED BY <1>6 DEF carrying, newest, document, CarriedIn, NewestOf

\* A ring's tag is on the newest package of the version it serves and on nothing else,
\* for any packages, definitions and history of the document.
THEOREM TaggedAsDefinedCorrect == Spec => []TaggedAsDefined
<1>1. DocumentInv => TaggedAsDefined
  <2> SUFFICES ASSUME DocumentInv, ~outdated, NEW ring \in Rings, NEW k \in Keys
               PROVE  LET held == {f \in mirrored : k \in f.provides /\ f.version = tagged[ring][k]}
                      IN Carrying(ring, k) = {f \in held : ~\E g \in held : Newer(g, f)}
    BY DEF TaggedAsDefined
  <2>1. PICK heads : Heading(heads, mirrored) /\ published = DocumentOf(heads, mirrored, tagged)
    BY DEF DocumentInv
  <2>2. mirrored \in SUBSET Firmware
    BY DEF DocumentInv
  <2>3. CarriedIn(DocumentOf(heads, mirrored, tagged), ring, k)
          = NewestOf(Providing(mirrored, k), tagged[ring][k])
    BY <2>1, <2>2, TaggedOfDocument
  <2>4. Carrying(ring, k) = NewestOf(Providing(mirrored, k), tagged[ring][k])
    BY <2>1, <2>3 DEF Carrying, CarriedIn
  <2> QED BY <2>4 DEF NewestOf, Providing
<1> QED BY <1>1, DocumentCorrect, PTL

-----------------------------------------------------------------------------
(***************************************************************************)
(* What the document owes to the heads.                                    *)
(***************************************************************************)
SameButHead(c, d) == c.key = d.key /\ c.releases = d.releases

LEMMA GroupsAlike ==
  ASSUME NEW c, NEW d, NEW defs, SameButHead(c, d),
         GroupByTags(c, defs) \in Seq(Piece), GroupByTags(d, defs) \in Seq(Piece)
  PROVE  Alike(GroupByTags(c, defs), GroupByTags(d, defs),
               {p \in Piece \X Piece : SameButHead(p[1], p[2]) /\ p[1].tags = p[2].tags})
<1> DEFINE tags(f) == TagsOf(c, defs, f)
           all == {tags(f) : f \in ToSet(c.releases)}
           sets == Sorted(all, {p \in all \X all : TagsBefore(p[1], p[2])})
           having(set) == {f \in ToSet(c.releases) : tags(f) = set}
           piece(head, set) == [key |-> c.key, head |-> head, tags |-> set,
                                releases |-> Select(c.releases, having(set))]
<1>1. \A f : TagsOf(d, defs, f) = tags(f)
  <2>1. c.key = d.key /\ c.releases = d.releases
    BY DEF SameButHead
  <2>2. \A ring : TaggedReleases(d, defs[ring][d.key]) = TaggedReleases(c, defs[ring][c.key])
    BY <2>1 DEF TaggedReleases, ReleasesOf
  <2> QED BY <2>2 DEF TagsOf
<1>2. GroupByTags(c, defs) = [i \in DOMAIN sets |-> piece(c.head, sets[i])]
  BY DEF GroupByTags
<1>3. GroupByTags(d, defs) = [i \in DOMAIN sets |-> piece(d.head, sets[i])]
  <2> DEFINE those == {TagsOf(d, defs, f) : f \in ToSet(d.releases)}
             setsOfD == Sorted(those, {p \in those \X those : TagsBefore(p[1], p[2])})
             havingOfD(set) == {f \in ToSet(d.releases) : TagsOf(d, defs, f) = set}
  <2>1. d.key = c.key /\ d.releases = c.releases
    BY DEF SameButHead
  <2>2. GroupByTags(d, defs) =
          [i \in DOMAIN setsOfD |-> [key |-> d.key, head |-> d.head, tags |-> setsOfD[i],
                                     releases |-> Select(d.releases, havingOfD(setsOfD[i]))]]
    BY DEF GroupByTags
  <2> HIDE DEF tags
  <2>3. those = all
    BY <1>1, <2>1
  <2>4. \A set : havingOfD(set) = having(set)
    BY <1>1, <2>1
  <2> HIDE DEF those, havingOfD, all, having
  <2>5. setsOfD = sets
    BY <2>3
  <2> HIDE DEF setsOfD, sets
  <2> QED BY <2>1, <2>2, <2>4, <2>5
<1> HIDE DEF sets, having
<1>4. \A i \in DOMAIN sets : /\ SameButHead(piece(c.head, sets[i]), piece(d.head, sets[i]))
                             /\ piece(c.head, sets[i]).tags = piece(d.head, sets[i]).tags
  BY DEF SameButHead
<1> HIDE DEF piece
<1>5. /\ DOMAIN GroupByTags(c, defs) = DOMAIN GroupByTags(d, defs)
      /\ \A i \in DOMAIN GroupByTags(c, defs) :
           /\ SameButHead(GroupByTags(c, defs)[i], GroupByTags(d, defs)[i])
           /\ GroupByTags(c, defs)[i].tags = GroupByTags(d, defs)[i].tags
  BY <1>2, <1>3, <1>4
<1> QED BY <1>5 DEF Alike

LEMMA DocumentsAlike ==
  ASSUME NEW M \in SUBSET Firmware, NEW defs,
         NEW heads, Heading(heads, M), NEW others, Heading(others, M)
  PROVE  Headless(DocumentOf(heads, M, defs)) = Headless(DocumentOf(others, M, defs))
<1> DEFINE Same == {p \in Component \X Component : SameButHead(p[1], p[2])}
           SamePiece == {p \in Piece \X Piece : SameButHead(p[1], p[2]) /\ p[1].tags = p[2].tags}
           c == Parts(heads, M)
           d == Parts(others, M)
<1>1. Alike(c, d, Same) /\ c \in Seq(Component) /\ d \in Seq(Component)
  <2> DEFINE these == [i \in DOMAIN KeyOrder |-> Part(heads, M, KeyOrder[i])]
             those == [i \in DOMAIN KeyOrder |-> Part(others, M, KeyOrder[i])]
  <2>1. c = FlattenSeq(these) /\ d = FlattenSeq(those)
    BY DEF Parts
  <2>2. ASSUME NEW k \in Keys
        PROVE  /\ Part(heads, M, k) \in Seq(Component) /\ Part(others, M, k) \in Seq(Component)
               /\ Alike(Part(heads, M, k), Part(others, M, k), Same)
    <3>1. CASE Providing(M, k) = {}
      BY <3>1 DEF Part, Alike
    <3>2. CASE Providing(M, k) # {}
      <4> DEFINE a == Sole(k, heads[k], Providing(M, k))
                 b == Sole(k, others[k], Providing(M, k))
      <4>1. a \in Component /\ b \in Component
        <5>1. a \in ToSet(c) /\ c \in Seq(Component)
          BY <3>2, PartsOfKeys
        <5>2. b \in ToSet(d) /\ d \in Seq(Component)
          BY <3>2, PartsOfKeys
        <5> HIDE DEF a, b, c, d
        <5> QED BY <5>1, <5>2 DEF ToSet
      <4>2. SameButHead(a, b)
        BY DEF Sole, SameButHead
      <4>3. Part(heads, M, k) = <<a>> /\ Part(others, M, k) = <<b>>
        BY <3>2 DEF Part
      <4> HIDE DEF a, b
      <4>4. <<a, b>> \in Same
        BY <4>1, <4>2
      <4> HIDE DEF Same
      <4> QED BY <4>1, <4>3, <4>4 DEF Alike
    <3> QED BY <3>1, <3>2
  <2>3. /\ DOMAIN KeyOrder = 1 .. Len(KeyOrder) /\ Len(KeyOrder) \in Nat
        /\ \A i \in DOMAIN KeyOrder : KeyOrder[i] \in Keys
    BY OverlapsAssumption DEF Keys, ToSet
  <2>4. these \in Seq(Seq(Component)) /\ those \in Seq(Seq(Component))
        /\ Len(these) = Len(KeyOrder) /\ Len(those) = Len(KeyOrder)
    <3>1. \A i \in DOMAIN KeyOrder : /\ Part(heads, M, KeyOrder[i]) \in Seq(Component)
                                      /\ Part(others, M, KeyOrder[i]) \in Seq(Component)
      BY <2>2, <2>3
    <3> QED BY <2>3, <3>1
  <2>5. \A i \in 1 .. Len(these) : Alike(these[i], those[i], Same)
    <3> HIDE DEF Same
    <3> QED BY <2>2, <2>3, <2>4
  <2>6. Alike(FlattenSeq(these), FlattenSeq(those), Same)
    <3> HIDE DEF these, those, Same
    <3> QED BY <2>4, <2>5, FlattenAlike
  <2>7. c \in Seq(Component) /\ d \in Seq(Component)
    BY PartsOfKeys
  <2> HIDE DEF these, those, Same, c, d
  <2> QED BY <2>1, <2>6, <2>7
<1>2. ASSUME NEW i \in 1 .. Len(c)
      PROVE  GroupByTags(c[i], defs) \in Seq(Piece)
  <2>1. c[i] \in ToSet(c)
    <3> HIDE DEF c
    <3> QED BY <1>1 DEF ToSet
  <2>2. PICK k \in Keys : Providing(M, k) # {} /\ c[i] = Sole(k, heads[k], Providing(M, k))
    BY <2>1, PartsOfKeys
  <2>3. heads[k] \in Firmware /\ Providing(M, k) \in SUBSET Firmware
    BY <2>2 DEF Heading, Providing
  <2> QED BY <2>2, <2>3, Grouping
<1>3. ASSUME NEW i \in 1 .. Len(d)
      PROVE  GroupByTags(d[i], defs) \in Seq(Piece)
  <2>1. d[i] \in ToSet(d)
    <3> HIDE DEF d
    <3> QED BY <1>1 DEF ToSet
  <2>2. PICK k \in Keys : Providing(M, k) # {} /\ d[i] = Sole(k, others[k], Providing(M, k))
    BY <2>1, PartsOfKeys
  <2>3. others[k] \in Firmware /\ Providing(M, k) \in SUBSET Firmware
    BY <2>2 DEF Heading, Providing
  <2> QED BY <2>2, <2>3, Grouping
<1> HIDE DEF c, d
<1> DEFINE these == [i \in DOMAIN c |-> GroupByTags(c[i], defs)]
           those == [i \in DOMAIN d |-> GroupByTags(d[i], defs)]
<1>4. /\ Len(c) = Len(d) /\ Len(c) \in Nat /\ DOMAIN c = 1 .. Len(c) /\ DOMAIN d = 1 .. Len(c)
      /\ \A i \in 1 .. Len(c) : SameButHead(c[i], d[i])
  <2>1. Len(c) = Len(d) /\ \A i \in 1 .. Len(c) : <<c[i], d[i]>> \in Same
    BY <1>1 DEF Alike
  <2>2. Len(c) \in Nat /\ DOMAIN c = 1 .. Len(c) /\ DOMAIN d = 1 .. Len(d)
    BY <1>1
  <2> QED BY <2>1, <2>2
<1>5. /\ these \in Seq(Seq(Piece)) /\ those \in Seq(Seq(Piece))
      /\ Len(these) = Len(c) /\ Len(those) = Len(c)
  BY <1>2, <1>3, <1>4
<1>6. \A i \in 1 .. Len(these) : Alike(these[i], those[i], SamePiece)
  <2> SUFFICES ASSUME NEW i \in 1 .. Len(c) PROVE Alike(these[i], those[i], SamePiece)
    BY <1>5
  <2>1. Alike(GroupByTags(c[i], defs), GroupByTags(d[i], defs), SamePiece)
    BY <1>2, <1>3, <1>4, GroupsAlike
  <2>2. these[i] = GroupByTags(c[i], defs) /\ those[i] = GroupByTags(d[i], defs)
    BY <1>4
  <2> HIDE DEF these, those, SamePiece
  <2> QED BY <2>1, <2>2
<1>7. Alike(FlattenSeq(these), FlattenSeq(those), SamePiece)
      /\ FlattenSeq(these) \in Seq(Piece) /\ FlattenSeq(those) \in Seq(Piece)
  <2> HIDE DEF these, those, SamePiece
  <2> QED BY <1>5, <1>6, FlattenAlike, FlattenedSet
<1>8. DocumentOf(heads, M, defs) = FlattenSeq(these) /\ DocumentOf(others, M, defs) = FlattenSeq(those)
  BY DEF DocumentOf, RenderMetadata, c, d
<1> DEFINE s == FlattenSeq(these)
           t == FlattenSeq(those)
<1>9. /\ DOMAIN s = DOMAIN t
      /\ \A i \in DOMAIN s : <<s[i].key, s[i].tags, s[i].releases>> = <<t[i].key, t[i].tags, t[i].releases>>
  <2> HIDE DEF these, those
  <2>1. Len(s) = Len(t) /\ DOMAIN s = 1 .. Len(s) /\ DOMAIN t = 1 .. Len(t)
    BY <1>7 DEF Alike
  <2>2. \A i \in 1 .. Len(s) : <<s[i], t[i]>> \in SamePiece
    BY <1>7 DEF Alike
  <2> HIDE DEF s, t
  <2>3. \A i \in 1 .. Len(s) : SameButHead(s[i], t[i]) /\ s[i].tags = t[i].tags
    BY <2>2
  <2> QED BY <2>1, <2>3 DEF SameButHead
<1> HIDE DEF s, t
<1>10. Headless(s) = Headless(t)
  BY <1>9 DEF Headless
<1> QED BY <1>8, <1>10 DEF s, t

\* Only the fields of a component that its packages disagree on depend on the order in
\* which they were mirrored, on the runs that mirrored them and on what was stored before.
THEOREM SameHoweverMirroredCorrect == Spec => []SameHoweverMirrored
<1>1. DocumentInv => SameHoweverMirrored
  <2> SUFFICES ASSUME DocumentInv, ~outdated, NEW order \in SetToSeqs(mirrored)
               PROVE  Headless(published) =
                        Headless(RenderMetadata(BuildDocument(<< >>, NewComponents(order), FALSE), tagged))
    BY DEF SameHoweverMirrored
  <2>1. PICK heads : Heading(heads, mirrored) /\ published = DocumentOf(heads, mirrored, tagged)
    BY DEF DocumentInv
  <2>2. mirrored \in SUBSET Firmware
    BY DEF DocumentInv
  <2>3. order \in Seq(Firmware) /\ ToSet(order) = mirrored
    <3>1. IsFiniteSet(mirrored)
      BY <2>2, DocumentsAssumption, FS_Subset
    <3>2. order \in Seq(mirrored) /\ ToSet(order) = mirrored
      BY <3>1, EveryEnumeration
    <3> QED BY <2>2, <3>2
  <2>4. PICK after : /\ Heading(after, mirrored)
                     /\ BuildDocument(<< >>, NewComponents(order), FALSE) = Parts(after, mirrored)
    <3>1. Heading(heads, {}) /\ DocumentOf(heads, {}, tagged) = << >> /\ {} \in SUBSET Firmware
      BY EmptyDocument
    <3>2. {} \cap ToSet(order) = {} /\ {} \cup ToSet(order) = mirrored
      BY <2>3
    <3>3. Builds(BuildDocument(DocumentOf(heads, {}, tagged), NewComponents(order), FALSE),
                 heads, {}, {} \cup ToSet(order))
      BY <2>3, <3>1, <3>2, Building
    <3> QED BY <3>1, <3>2, <3>3 DEF Builds
  <2> QED BY <2>1, <2>2, <2>4, DocumentsAlike DEF DocumentOf
<1> QED BY <1>1, DocumentCorrect, PTL

-----------------------------------------------------------------------------
(***************************************************************************)
(* The overlaps.  A ring's components differ if a GUID of both is served   *)
(* two releases.                                                           *)
(***************************************************************************)
Differing(serves) ==
  {pair \in SUBSET DOMAIN serves :
     \E a, b \in pair : /\ pair = {a, b} /\ serves[a] # serves[b]
                        /\ a.guids \cap b.guids # {}}

\* Those of a GUID.
DifferingBy(serves, guid) == {pair \in Differing(serves) : \A k \in pair : guid \in k.guids}

LEMMA PlaceOfKey ==
  ASSUME NEW k \in Keys
  PROVE  Place[k] \in Nat /\ Place[k] \in DOMAIN KeyOrder /\ KeyOrder[Place[k]] = k
<1>1. \E i \in DOMAIN KeyOrder : KeyOrder[i] = k
  BY DEF Keys, ToSet
<1>2. Place[k] = CHOOSE i \in DOMAIN KeyOrder : KeyOrder[i] = k
  BY DEF Place
<1>3. Place[k] \in DOMAIN KeyOrder /\ KeyOrder[Place[k]] = k
  BY <1>1, <1>2
<1>4. DOMAIN KeyOrder \subseteq Nat
  BY OverlapsAssumption
<1> QED BY <1>3, <1>4

LEMMA ThroughFinite ==
  ASSUME NEW serves, DOMAIN serves \subseteq Keys, NEW guid
  PROVE  Through(serves, guid) \subseteq Keys /\ IsFiniteSet(Through(serves, guid))
<1>1. Through(serves, guid) \in SUBSET Keys
  BY DEF Through
<1> QED BY <1>1, KeysFinite, FS_Subset

\* Two components are of one group exactly if they are served one release.
LEMMA Groups ==
  ASSUME NEW serves, DOMAIN serves \subseteq Keys, NEW guid,
         NEW a \in Through(serves, guid), NEW b \in Through(serves, guid)
  PROVE  /\ Group(serves, guid, a) \in Nat
         /\ Group(serves, guid, a) = Group(serves, guid, b) <=> serves[a] = serves[b]
<1> DEFINE places(k) == {Place[o] : o \in {o \in Through(serves, guid) : serves[o] = serves[k]}}
<1>1. ASSUME NEW k \in Through(serves, guid)
      PROVE  /\ Group(serves, guid, k) \in Nat
             /\ \E o \in Through(serves, guid) : /\ serves[o] = serves[k] /\ o \in Keys
                                                /\ Place[o] = Group(serves, guid, k)
  <2>1. places(k) \in SUBSET Nat /\ places(k) # {}
    BY ThroughFinite, PlaceOfKey
  <2>2. Min(places(k)) \in places(k)
    <3> HIDE DEF places
    <3> QED BY <2>1, MinOfNumbers
  <2>3. Group(serves, guid, k) = Min(places(k))
    BY DEF Group
  <2>4. Group(serves, guid, k) \in places(k)
    <3> HIDE DEF places
    <3> QED BY <2>2, <2>3
  <2> QED BY <2>1, <2>4, ThroughFinite
<1>2. ASSUME serves[a] = serves[b] PROVE Group(serves, guid, a) = Group(serves, guid, b)
  BY <1>2 DEF Group
<1>3. ASSUME Group(serves, guid, a) = Group(serves, guid, b) PROVE serves[a] = serves[b]
  <2>1. PICK o \in Keys : serves[o] = serves[a] /\ Place[o] = Group(serves, guid, a)
    BY <1>1
  <2>2. PICK q \in Keys : serves[q] = serves[b] /\ Place[q] = Group(serves, guid, b)
    BY <1>1
  <2>3. o = q
    BY <1>3, <2>1, <2>2, PlaceOfKey
  <2> QED BY <2>1, <2>2, <2>3
<1> QED BY <1>1, <1>2, <1>3

\* The loops come by the pairs of a GUID in an order.
LEMMA PairOrder ==
  ASSUME NEW serves, DOMAIN serves \subseteq Keys, NEW guid, NEW pairs \in SUBSET Pairs(serves, guid)
  PROVE  /\ IsFiniteSet(pairs) /\ Cardinality(pairs) \in Nat
         /\ InOrder(serves, guid, pairs) \in [1 .. Cardinality(pairs) -> pairs]
         /\ ToSet(InOrder(serves, guid, pairs)) = pairs
<1> DEFINE place == [p \in pairs |-> PlaceOf(serves, guid, p)]
           before(p, q) == \E i \in 1 .. 4 : /\ place[p][i] < place[q][i]
                                            /\ \A j \in 1 .. i - 1 : place[p][j] = place[q][j]
           order == {pq \in pairs \X pairs : before(pq[1], pq[2])}
<1>1. \A p \in pairs : /\ p = <<p[1], p[2]>>
                       /\ p[1] \in Through(serves, guid) /\ p[2] \in Through(serves, guid)
                       /\ p[1] \in Keys /\ p[2] \in Keys
  BY ThroughFinite DEF Pairs
<1>2. ASSUME NEW p \in pairs
      PROVE  /\ place[p][1] \in Nat /\ place[p][2] \in Nat /\ place[p][3] \in Nat /\ place[p][4] \in Nat
             /\ place[p][3] = Place[p[1]] /\ place[p][4] = Place[p[2]]
  <2>1. place[p] = <<Group(serves, guid, p[1]), Group(serves, guid, p[2]), Place[p[1]], Place[p[2]]>>
    BY DEF PlaceOf
  <2>2. Group(serves, guid, p[1]) \in Nat /\ Group(serves, guid, p[2]) \in Nat
    BY <1>1, Groups
  <2>3. Place[p[1]] \in Nat /\ Place[p[2]] \in Nat
    BY <1>1, PlaceOfKey
  <2> HIDE DEF place
  <2> QED BY <2>1, <2>2, <2>3
<1> HIDE DEF place
<1>3. ASSUME NEW p \in pairs, NEW q \in pairs
      PROVE  before(p, q) <=>
               \/ place[p][1] < place[q][1]
               \/ place[p][1] = place[q][1] /\ place[p][2] < place[q][2]
               \/ place[p][1] = place[q][1] /\ place[p][2] = place[q][2] /\ place[p][3] < place[q][3]
               \/ /\ place[p][1] = place[q][1] /\ place[p][2] = place[q][2]
                  /\ place[p][3] = place[q][3] /\ place[p][4] < place[q][4]
  <2>1. 1 .. 4 = {1, 2, 3, 4} /\ 1 .. 1 - 1 = {} /\ 1 .. 2 - 1 = {1}
        /\ 1 .. 3 - 1 = {1, 2} /\ 1 .. 4 - 1 = {1, 2, 3}
    OBVIOUS
  <2> QED BY <2>1
<1>4. \A p, q \in pairs : p # q => place[p][3] # place[q][3] \/ place[p][4] # place[q][4]
  <2> SUFFICES ASSUME NEW p \in pairs, NEW q \in pairs,
                      place[p][3] = place[q][3], place[p][4] = place[q][4]
               PROVE  p = q
    OBVIOUS
  <2>1. Place[p[1]] = Place[q[1]] /\ Place[p[2]] = Place[q[2]]
    BY <1>2
  <2>2. p[1] = q[1] /\ p[2] = q[2]
    BY <1>1, <2>1, PlaceOfKey
  <2> QED BY <1>1, <2>2
<1> HIDE DEF before
<1>5. \A p, q \in pairs : ~before(p, p) /\ (p # q => before(p, q) \/ before(q, p))
  BY <1>2, <1>3, <1>4
<1>6. \A p, q, r \in pairs : before(p, q) /\ before(q, r) => before(p, r)
  <2> SUFFICES ASSUME NEW p \in pairs, NEW q \in pairs, NEW r \in pairs, before(p, q), before(q, r)
               PROVE  before(p, r)
    OBVIOUS
  <2> QED BY <1>2, <1>3
<1>7. \A p, q \in pairs : <<p, q>> \in order <=> before(p, q)
  OBVIOUS
<1>8. InOrder(serves, guid, pairs) = Sorted(pairs, order)
  BY DEF InOrder, order, before, place
<1> HIDE DEF order
<1>9. IsOrder(pairs, order)
  BY <1>5, <1>6, <1>7 DEF IsOrder
<1>10. IsFiniteSet(pairs)
  <2>1. IsFiniteSet(Pairs(serves, guid))
    BY ThroughFinite, FS_Product DEF Pairs
  <2> QED BY <2>1, FS_Subset
<1> QED BY <1>8, <1>9, <1>10, SortedSet

LEMMA Counting ==
  ASSUME NEW S, IsFiniteSet(S), NEW f, f = [x \in S |-> f[x]], \A x, y \in S : f[x] = f[y] => x = y
  PROVE  /\ IsFiniteSet({f[x] : x \in S}) /\ Cardinality({f[x] : x \in S}) = Cardinality(S)
<1> DEFINE T == {f[x] : x \in S}
<1>1. f \in Surjection(S, T) /\ f \in Injection(S, T)
  BY DEF Surjection, Injection, IsInjective
<1> QED BY <1>1, FS_Surjection

\* The flattened sequence is as long as its pieces count.
LEMMA FlattenCount ==
  ASSUME NEW S, NEW seqs \in Seq(Seq(S)), NEW T,
         \A i \in 1 .. Len(seqs) : IsFiniteSet(T[i]) /\ Cardinality(T[i]) = Len(seqs[i]),
         \A i, j \in 1 .. Len(seqs) : i # j => T[i] \cap T[j] = {}
  PROVE  LET all == UNION {T[i] : i \in 1 .. Len(seqs)}
         IN IsFiniteSet(all) /\ Cardinality(all) = Len(FlattenSeq(seqs))
<1> DEFINE Upto(m) == UNION {T[i] : i \in 1 .. m}
<1>1. CASE seqs = << >>
  <2>1. Len(seqs) = 0 /\ Upto(0) = {} /\ Len(FlattenSeq(seqs)) = 0
    BY <1>1, FlattenNone
  <2> HIDE DEF Upto
  <2>2. IsFiniteSet(Upto(Len(seqs))) /\ Cardinality(Upto(Len(seqs))) = Len(FlattenSeq(seqs))
    BY <2>1, FS_EmptySet
  <2> QED BY <2>2 DEF Upto
<1>2. CASE seqs # << >>
  <2>1. Len(seqs) \in Nat /\ DOMAIN seqs = 1 .. Len(seqs) /\ Len(seqs) # 0
    BY <1>2
  <2>2. PICK flat : Flattening(seqs, flat, Len(seqs)) /\ FlattenSeq(seqs) = flat[Len(seqs)]
    BY <2>1, FlattenByStep
  <2>3. \A i \in 1 .. Len(seqs) : flat[i] = IF i = 1 THEN seqs[i] ELSE flat[i - 1] \o seqs[i]
    BY <2>2 DEF Flattening
  <2> DEFINE Right(m) == /\ flat[m] \in Seq(S) /\ IsFiniteSet(Upto(m))
                         /\ Cardinality(Upto(m)) = Len(flat[m])
             N == {m \in Nat : m \in 1 .. Len(seqs) => Right(m)}
  <2>4. 0 \in N
    OBVIOUS
  <2>5. ASSUME NEW m \in N PROVE m + 1 \in N
    <3> SUFFICES ASSUME m + 1 \in 1 .. Len(seqs) PROVE Right(m + 1)
      OBVIOUS
    <3>1. seqs[m + 1] \in Seq(S) /\ m \in Nat
          /\ IsFiniteSet(T[m + 1]) /\ Cardinality(T[m + 1]) = Len(seqs[m + 1])
      BY <2>1
    <3>2. CASE m = 0
      <4>1. flat[1] = seqs[1] /\ Upto(1) = T[1]
        BY <2>1, <2>3
      <4> HIDE DEF Upto
      <4> QED BY <3>1, <3>2, <4>1
    <3>3. CASE m # 0
      <4>1. m \in 1 .. Len(seqs) /\ m + 1 # 1 /\ (m + 1) - 1 = m
        <5> HIDE DEF N
        <5> QED BY <2>1, <3>1, <3>3
      <4>2. Right(m)
        <5> HIDE DEF Right
        <5> QED BY <4>1
      <4>3. flat[m + 1] = flat[m] \o seqs[m + 1]
        BY <2>3, <4>1
      <4>4. Upto(m + 1) = Upto(m) \cup T[m + 1]
        <5>1. 1 .. m + 1 = (1 .. m) \cup {m + 1}
          BY <3>1
        <5> QED BY <5>1
      <4>5. Upto(m) \cap T[m + 1] = {}
        <5>1. \A i \in 1 .. m : i \in 1 .. Len(seqs) /\ i # m + 1
          BY <3>1, <4>1
        <5> QED BY <5>1
      <4> HIDE DEF Upto, N
      <4>6. /\ IsFiniteSet(Upto(m + 1))
            /\ Cardinality(Upto(m + 1)) = Cardinality(Upto(m)) + Cardinality(T[m + 1])
        <5>1. Cardinality(Upto(m)) \in Nat /\ Cardinality(T[m + 1]) \in Nat
          BY <3>1, <4>2, FS_CardinalityType
        <5>2. IsFiniteSet(Upto(m) \cup T[m + 1]) /\
              Cardinality(Upto(m) \cup T[m + 1])
                = Cardinality(Upto(m)) + Cardinality(T[m + 1]) - Cardinality(Upto(m) \cap T[m + 1])
          BY <3>1, <4>2, FS_Union
        <5>3. Cardinality(Upto(m) \cap T[m + 1]) = 0
          BY <4>5, FS_EmptySet
        <5> DEFINE u == Cardinality(Upto(m))
                   w == Cardinality(T[m + 1])
        <5>4. Cardinality(Upto(m) \cup T[m + 1]) = u + w
          <6>1. u \in Nat /\ w \in Nat /\ Cardinality(Upto(m) \cup T[m + 1]) = u + w - 0
            BY <5>1, <5>2, <5>3
          <6> HIDE DEF u, w
          <6> QED BY <6>1
        <5> QED BY <4>4, <5>2, <5>4
      <4>7. /\ flat[m] \o seqs[m + 1] \in Seq(S)
            /\ Len(flat[m] \o seqs[m + 1]) = Len(flat[m]) + Len(seqs[m + 1])
        BY <3>1, <4>2
      <4> QED BY <3>1, <4>2, <4>3, <4>6, <4>7
    <3> QED BY <3>2, <3>3
  <2>6. N = Nat
    <3>1. N \in SUBSET Nat
      OBVIOUS
    <3> HIDE DEF N
    <3> QED BY <2>4, <2>5, <3>1, Induction
  <2>7. Right(Len(seqs))
    <3> HIDE DEF Right
    <3> QED BY <2>1, <2>6
  <2> QED BY <2>2, <2>7
<1> QED BY <1>1, <1>2

\* The pairs a GUID is come by are those that differ in what it is given, each once.
LEMMA PairsOfGUID ==
  ASSUME NEW serves, DOMAIN serves \subseteq Keys, NEW guid
  PROVE  /\ PairsThrough(serves, guid) \in Seq(Keys \X Keys)
         /\ {Pair(p) : p \in ToSet(PairsThrough(serves, guid))} = DifferingBy(serves, guid)
         /\ IsFiniteSet(DifferingBy(serves, guid))
         /\ Cardinality(DifferingBy(serves, guid)) = Len(PairsThrough(serves, guid))
<1> DEFINE group(k) == Group(serves, guid, k)
           P == {p \in Pairs(serves, guid) : group(p[1]) < group(p[2])}
           pair == [p \in P |-> Pair(p)]
           through == PairsThrough(serves, guid)
<1>1. /\ IsFiniteSet(P) /\ Cardinality(P) \in Nat
      /\ through \in [1 .. Cardinality(P) -> P] /\ ToSet(through) = P
  <2>1. P \in SUBSET Pairs(serves, guid) /\ through = InOrder(serves, guid, P)
    BY DEF PairsThrough
  <2> HIDE DEF P, through
  <2> QED BY <2>1, PairOrder
<1>2. \A p \in P : /\ p = <<p[1], p[2]>> /\ group(p[1]) < group(p[2])
                   /\ p[1] \in Through(serves, guid) /\ p[2] \in Through(serves, guid)
  BY DEF Pairs
<1>3. \A a, b \in Through(serves, guid) : /\ group(a) \in Nat
                                          /\ group(a) = group(b) <=> serves[a] = serves[b]
  BY Groups
<1>4. ASSUME NEW a \in Through(serves, guid), NEW b \in Through(serves, guid), group(a) < group(b)
      PROVE  <<a, b>> \in P
  BY <1>4 DEF Pairs
<1> HIDE DEF group, P, through
<1>5. \A k \in Through(serves, guid) : k \in DOMAIN serves /\ k \in Keys /\ guid \in k.guids
  BY DEF Through
<1>6. ASSUME NEW p \in P PROVE Pair(p) \in DifferingBy(serves, guid)
  <2>1. serves[p[1]] # serves[p[2]]
    BY <1>2, <1>3
  <2>2. p[1].guids \cap p[2].guids # {} /\ Pair(p) \in SUBSET DOMAIN serves
    BY <1>2, <1>5 DEF Pair
  <2>3. Pair(p) \in Differing(serves)
    BY <2>1, <2>2 DEF Differing, Pair
  <2> QED BY <1>2, <1>5, <2>3 DEF DifferingBy, Pair
<1>7. ASSUME NEW d \in DifferingBy(serves, guid) PROVE \E p \in P : Pair(p) = d
  <2>1. PICK a, b \in d : d = {a, b} /\ serves[a] # serves[b]
    BY DEF DifferingBy, Differing
  <2>2. a \in Through(serves, guid) /\ b \in Through(serves, guid)
    BY DEF DifferingBy, Differing, Through
  <2>3. group(a) < group(b) \/ group(b) < group(a)
    BY <1>3, <2>1, <2>2
  <2>4. Pair(<<a, b>>) = d /\ Pair(<<b, a>>) = d
    BY <2>1 DEF Pair
  <2> QED BY <1>4, <2>2, <2>3, <2>4
<1>8. {Pair(p) : p \in P} = DifferingBy(serves, guid)
  BY <1>6, <1>7
<1>9. \A p, q \in P : Pair(p) = Pair(q) => p = q
  <2> SUFFICES ASSUME NEW p \in P, NEW q \in P, Pair(p) = Pair(q) PROVE p = q
    OBVIOUS
  <2>1. (p[1] = q[1] /\ p[2] = q[2]) \/ (p[1] = q[2] /\ p[2] = q[1])
    BY DEF Pair
  <2>2. ~(p[1] = q[2] /\ p[2] = q[1])
    BY <1>2, <1>3
  <2> QED BY <1>2, <2>1, <2>2
<1>10. IsFiniteSet({pair[p] : p \in P}) /\ Cardinality({pair[p] : p \in P}) = Cardinality(P)
  <2>1. pair = [p \in P |-> pair[p]] /\ \A p, q \in P : pair[p] = pair[q] => p = q
    BY <1>9
  <2> HIDE DEF pair
  <2> QED BY <1>1, <2>1, Counting
<1>11. {pair[p] : p \in P} = DifferingBy(serves, guid)
  BY <1>8
<1>12. through \in Seq(Keys \X Keys) /\ Len(through) = Cardinality(P)
  <2>1. P \subseteq Keys \X Keys
    BY <1>2, <1>5
  <2> QED BY <1>1, <2>1
<1> QED BY <1>1, <1>8, <1>10, <1>11, <1>12 DEF through

AllGUIDs == UNION {k.guids : k \in Keys}

\* Every time the loops come by a pair.
Seen(serves) == {v \in Differing(serves) \X AllGUIDs : \A k \in v[1] : v[2] \in k.guids}

LEMMA GUIDsFinite == IsFiniteSet(AllGUIDs)
<1> DEFINE guids == [k \in Keys |-> k.guids]
<1>1. guids \in Surjection(Keys, {k.guids : k \in Keys})
  BY DEF Surjection
<1>2. IsFiniteSet({k.guids : k \in Keys})
  BY <1>1, KeysFinite, FS_Surjection
<1>3. \A T \in {k.guids : k \in Keys} : IsFiniteSet(T)
  BY OverlapsAssumption
<1> QED BY <1>2, <1>3, FS_UNION DEF AllGUIDs

LEMMA CommonOrder ==
  ASSUME NEW serves, DOMAIN serves \subseteq Keys
  PROVE  /\ CommonGUIDs(serves) \in Seq(AllGUIDs)
         /\ \A d \in Differing(serves) : \A guid : (\A k \in d : guid \in k.guids) =>
              guid \in ToSet(CommonGUIDs(serves))
         /\ \A i, j \in DOMAIN CommonGUIDs(serves) :
              i # j => CommonGUIDs(serves)[i] # CommonGUIDs(serves)[j]
<1> DEFINE common == {g \in UNION {k.guids : k \in DOMAIN serves} : Cardinality(Through(serves, g)) > 1}
<1>1. common \subseteq AllGUIDs /\ common \in SUBSET Nat
  BY OverlapsAssumption DEF AllGUIDs
<1>2. IsFiniteSet(common)
  <2> HIDE DEF common
  <2> QED BY <1>1, GUIDsFinite, FS_Subset
<1>3. CommonGUIDs(serves) = Sorted(common, Increasing(common))
  BY DEF CommonGUIDs
<1>4. ASSUME NEW d \in Differing(serves), NEW guid, \A k \in d : guid \in k.guids
      PROVE  guid \in common
  <2>1. PICK a, b \in d : d = {a, b} /\ a # b
    BY DEF Differing
  <2>2. d \in SUBSET Through(serves, guid) /\ a \in DOMAIN serves
    BY <1>4 DEF Differing, Through
  <2>3. Cardinality(d) = 2
    <3>1. IsFiniteSet({a}) /\ Cardinality({a}) = 1
      BY FS_Singleton
    <3>2. Cardinality({a} \cup {b}) = 1 + 1
      BY <2>1, <3>1, FS_AddElement
    <3>3. {a} \cup {b} = d
      BY <2>1
    <3> QED BY <3>2, <3>3
  <2>4. Cardinality(d) <= Cardinality(Through(serves, guid))
    BY <2>2, ThroughFinite, FS_Subset
  <2>5. Cardinality(Through(serves, guid)) \in Nat
    BY ThroughFinite, FS_CardinalityType
  <2> QED BY <1>4, <2>1, <2>2, <2>3, <2>4, <2>5
<1> HIDE DEF common
<1>5. IsOrder(common, Increasing(common))
  BY <1>1, IncreasingOrder
<1>6. /\ Cardinality(common) \in Nat
      /\ CommonGUIDs(serves) \in [1 .. Cardinality(common) -> common]
      /\ ToSet(CommonGUIDs(serves)) = common
      /\ \A m, n \in 1 .. Cardinality(common) :
           m < n <=> <<CommonGUIDs(serves)[m], CommonGUIDs(serves)[n]>> \in Increasing(common)
  BY <1>2, <1>3, <1>5, SortedSet
<1>7. \A i, j \in 1 .. Cardinality(common) :
        i # j => CommonGUIDs(serves)[i] # CommonGUIDs(serves)[j]
  <2> SUFFICES ASSUME NEW i \in 1 .. Cardinality(common), NEW j \in 1 .. Cardinality(common), i # j
               PROVE  CommonGUIDs(serves)[i] # CommonGUIDs(serves)[j]
    OBVIOUS
  <2>1. i < j \/ j < i
    BY <1>6
  <2>2. \A x \in common : <<x, x>> \notin Increasing(common)
    BY <1>5 DEF IsOrder
  <2> QED BY <1>6, <2>1, <2>2
<1>8. CommonGUIDs(serves) \in Seq(AllGUIDs) /\ DOMAIN CommonGUIDs(serves) = 1 .. Cardinality(common)
  <2> DEFINE s == CommonGUIDs(serves)
             n == Cardinality(common)
  <2>1. n \in Nat /\ s \in [1 .. n -> common] /\ common \subseteq AllGUIDs
    BY <1>1, <1>6
  <2> HIDE DEF s, n
  <2>2. s \in Seq(AllGUIDs) /\ DOMAIN s = 1 .. n
    BY <2>1
  <2> QED BY <2>2 DEF s, n
<1> QED BY <1>4, <1>6, <1>7, <1>8

\* What the loops come by: every pair that differs and no other, as often as Seen has it.
LEMMA AllVisited ==
  ASSUME NEW serves, DOMAIN serves \subseteq Keys
  PROVE  /\ Visits(serves) \in Seq(Keys \X Keys)
         /\ {Pair(v) : v \in ToSet(Visits(serves))} = Differing(serves)
         /\ IsFiniteSet(Seen(serves)) /\ Cardinality(Seen(serves)) = Len(Visits(serves))
<1> DEFINE common == CommonGUIDs(serves)
           parts == [i \in DOMAIN common |-> PairsThrough(serves, common[i])]
           T == [i \in DOMAIN common |-> {<<d, common[i]>> : d \in DifferingBy(serves, common[i])}]
<1>1. /\ common \in Seq(AllGUIDs) /\ DOMAIN common = 1 .. Len(common) /\ Len(common) \in Nat
      /\ ToSet(common) = {common[i] : i \in DOMAIN common}
      /\ \A i, j \in DOMAIN common : i # j => common[i] # common[j]
  BY CommonOrder DEF ToSet
<1>2. \A d \in Differing(serves) : \A guid : (\A k \in d : guid \in k.guids) =>
        \E i \in DOMAIN common : common[i] = guid
  BY <1>1, CommonOrder
<1>3. Visits(serves) = FlattenSeq(parts)
  BY DEF Visits
<1> HIDE DEF common
<1>4. /\ parts \in Seq(Seq(Keys \X Keys)) /\ Len(parts) = Len(common)
      /\ \A i \in DOMAIN common : parts[i] = PairsThrough(serves, common[i])
  <2>1. \A i \in DOMAIN common : PairsThrough(serves, common[i]) \in Seq(Keys \X Keys)
    BY PairsOfGUID
  <2> QED BY <1>1, <2>1
<1> HIDE DEF parts
<1>5. DOMAIN parts = DOMAIN common
  BY <1>1, <1>4
<1>6. /\ Visits(serves) \in Seq(Keys \X Keys)
      /\ ToSet(Visits(serves)) = UNION {ToSet(parts[i]) : i \in DOMAIN common}
  <2>1. /\ FlattenSeq(parts) \in Seq(Keys \X Keys)
        /\ ToSet(FlattenSeq(parts)) = UNION {ToSet(parts[i]) : i \in DOMAIN parts}
    BY <1>4, FlattenedSet
  <2> QED BY <1>3, <1>5, <2>1
<1>7. \A i \in DOMAIN common : {Pair(v) : v \in ToSet(parts[i])} = DifferingBy(serves, common[i])
  BY <1>4, PairsOfGUID
<1>8. {Pair(v) : v \in ToSet(Visits(serves))} = Differing(serves)
  <2>1. ASSUME NEW v \in ToSet(Visits(serves)) PROVE Pair(v) \in Differing(serves)
    <3>1. PICK i \in DOMAIN common : v \in ToSet(parts[i])
      BY <1>6
    <3>2. Pair(v) \in DifferingBy(serves, common[i])
      BY <1>7, <3>1
    <3> QED BY <3>2 DEF DifferingBy
  <2>2. ASSUME NEW d \in Differing(serves)
        PROVE  \E v \in ToSet(Visits(serves)) : Pair(v) = d
    <3>1. PICK guid : \A k \in d : guid \in k.guids
      BY DEF Differing
    <3>2. PICK i \in DOMAIN common : common[i] = guid
      BY <1>2, <3>1
    <3>3. d \in DifferingBy(serves, common[i])
      BY <3>1, <3>2 DEF DifferingBy
    <3>4. PICK v \in ToSet(parts[i]) : Pair(v) = d
      BY <1>7, <3>3
    <3> QED BY <1>6, <3>4
  <2> QED BY <2>1, <2>2
<1>9. ASSUME NEW i \in 1 .. Len(parts)
      PROVE  IsFiniteSet(T[i]) /\ Cardinality(T[i]) = Len(parts[i])
  <2>1. i \in DOMAIN common /\ T[i] = {<<d, common[i]>> : d \in DifferingBy(serves, common[i])}
    BY <1>1, <1>4
  <2> HIDE DEF T
  <2> DEFINE D == DifferingBy(serves, common[i])
             f == [d \in D |-> <<d, common[i]>>]
  <2>2. IsFiniteSet(D) /\ Cardinality(D) = Len(parts[i])
    <3>1. /\ IsFiniteSet(DifferingBy(serves, common[i]))
          /\ Cardinality(DifferingBy(serves, common[i])) = Len(PairsThrough(serves, common[i]))
      BY PairsOfGUID
    <3> QED BY <1>4, <2>1, <3>1
  <2>3. f = [d \in D |-> f[d]] /\ (\A d, e \in D : f[d] = f[e] => d = e) /\ T[i] = {f[d] : d \in D}
    BY <2>1
  <2> HIDE DEF D, f
  <2>4. IsFiniteSet({f[d] : d \in D}) /\ Cardinality({f[d] : d \in D}) = Cardinality(D)
    BY <2>2, <2>3, Counting
  <2> QED BY <2>2, <2>3, <2>4
<1>10. \A i, j \in 1 .. Len(parts) : i # j => T[i] \cap T[j] = {}
  <2> SUFFICES ASSUME NEW i \in 1 .. Len(parts), NEW j \in 1 .. Len(parts), NEW v,
                      v \in T[i], v \in T[j]
               PROVE  i = j
    OBVIOUS
  <2>1. i \in DOMAIN common /\ j \in DOMAIN common
    BY <1>1, <1>4
  <2>2. v[2] = common[i] /\ v[2] = common[j]
    BY <2>1
  <2> QED BY <1>1, <2>1, <2>2
<1>11. UNION {T[i] : i \in 1 .. Len(parts)} = Seen(serves)
  <2>1. ASSUME NEW i \in 1 .. Len(parts), NEW v \in T[i] PROVE v \in Seen(serves)
    <3>1. i \in DOMAIN common /\ common[i] \in AllGUIDs
      BY <1>1, <1>4
    <3>2. PICK d \in DifferingBy(serves, common[i]) : v = <<d, common[i]>>
      BY <3>1
    <3> QED BY <3>1, <3>2 DEF Seen, DifferingBy
  <2>2. ASSUME NEW v \in Seen(serves) PROVE \E i \in 1 .. Len(parts) : v \in T[i]
    <3>1. v[1] \in Differing(serves) /\ v = <<v[1], v[2]>> /\ \A k \in v[1] : v[2] \in k.guids
      BY DEF Seen
    <3>2. PICK i \in DOMAIN common : common[i] = v[2]
      BY <1>2, <3>1
    <3>3. v[1] \in DifferingBy(serves, common[i])
      BY <3>1, <3>2 DEF DifferingBy
    <3>4. v \in T[i]
      BY <3>1, <3>2, <3>3
    <3> HIDE DEF T
    <3> QED BY <1>1, <1>4, <3>4
  <2> HIDE DEF T
  <2> QED BY <2>1, <2>2
<1> HIDE DEF T
<1>12. IsFiniteSet(Seen(serves)) /\ Cardinality(Seen(serves)) = Len(Visits(serves))
  <2>1. LET all == UNION {T[i] : i \in 1 .. Len(parts)}
        IN IsFiniteSet(all) /\ Cardinality(all) = Len(FlattenSeq(parts))
    BY <1>4, <1>9, <1>10, FlattenCount
  <2> QED BY <1>3, <1>11, <2>1
<1> QED BY <1>6, <1>8, <1>12

-----------------------------------------------------------------------------
(***************************************************************************)
(* What is found of the rings one after the other.                         *)
(***************************************************************************)
\* What is found at the first n rings, step by step.
Finding(served, found, n) ==
  found = [m \in 0 .. n |-> IF m = 0 THEN NothingFound
                            ELSE LookAt(found[m - 1], RingOrder[m], served[RingOrder[m]])]

LEMMA FindingExists ==
  ASSUME NEW served, NEW count \in Nat
  PROVE  \E found : Finding(served, found, count)
<1> DEFINE N == {n \in Nat : \E found : Finding(served, found, n)}
<1>1. 0 \in N
  <2> DEFINE found == [m \in 0 .. 0 |-> NothingFound]
  <2>1. found = [m \in 0 .. 0 |-> IF m = 0 THEN NothingFound
                                  ELSE LookAt(found[m - 1], RingOrder[m], served[RingOrder[m]])]
    <3>1. \A m \in 0 .. 0 : m = 0
      OBVIOUS
    <3> QED BY <3>1
  <2> HIDE DEF found
  <2>2. Finding(served, found, 0)
    BY <2>1 DEF Finding
  <2> QED BY <2>2
<1>2. ASSUME NEW n \in N PROVE n + 1 \in N
  <2>1. PICK found : Finding(served, found, n)
    OBVIOUS
  <2>2. n \in Nat
    OBVIOUS
  <2> DEFINE look(f, m) == LookAt(f[m - 1], RingOrder[m], served[RingOrder[m]])
             more == [m \in 0 .. n + 1 |-> IF m \in 0 .. n THEN found[m] ELSE look(found, m)]
  <2>3. ASSUME NEW m \in 0 .. n + 1
        PROVE  more[m] = IF m = 0 THEN NothingFound ELSE look(more, m)
    <3>1. \A j \in 0 .. n : found[j] = IF j = 0 THEN NothingFound ELSE look(found, j)
      BY <2>1 DEF Finding
    <3>2. m # 0 => m - 1 \in 0 .. n /\ more[m - 1] = found[m - 1]
      BY <2>2
    <3>3. m # 0 => look(more, m) = look(found, m)
      BY <3>2
    <3>4. CASE m \in 0 .. n
      <4>1. more[m] = found[m]
        BY <2>2, <3>4
      <4> HIDE DEF more, look
      <4> QED BY <3>1, <3>3, <3>4, <4>1
    <3>5. CASE m \notin 0 .. n
      <4>1. more[m] = look(found, m) /\ m # 0
        BY <2>2, <3>5
      <4> HIDE DEF more, look
      <4> QED BY <3>3, <4>1
    <3> QED BY <3>4, <3>5
  <2>4. Finding(served, more, n + 1)
    <3>1. more = [m \in 0 .. n + 1 |-> more[m]]
      OBVIOUS
    <3> HIDE DEF more
    <3> QED BY <2>3, <3>1 DEF Finding
  <2> QED BY <2>2, <2>4
<1>3. N = Nat
  <2>1. N \in SUBSET Nat
    OBVIOUS
  <2> HIDE DEF N
  <2> QED BY <1>1, <1>2, <2>1, Induction
<1> QED BY <1>3

LEMMA FoundByStep ==
  ASSUME NEW served
  PROVE  Len(RingOrder) \in Nat /\ Finding(served, FoundIn(served), Len(RingOrder))
<1> DEFINE step(f) == [m \in 0 .. Len(RingOrder) |->
                         IF m = 0 THEN NothingFound
                         ELSE LookAt(f[m - 1], RingOrder[m], served[RingOrder[m]])]
<1>1. Len(RingOrder) \in Nat
  BY OverlapsAssumption
<1>2. PICK g : Finding(served, g, Len(RingOrder))
  BY <1>1, FindingExists
<1>3. g = step(g)
  BY <1>2 DEF Finding
<1>4. FoundIn(served) = CHOOSE f : f = step(f)
  BY DEF FoundIn
<1>5. FoundIn(served) = step(FoundIn(served))
  <2> HIDE DEF step
  <2> QED BY <1>3, <1>4
<1> QED BY <1>1, <1>5 DEF Finding

\* A pair as it is found at a ring.
Overlap(ring, serves, pair) == [ring |-> ring, served |-> [k \in pair |-> serves[k]]]

LEMMA DifferingFinite ==
  ASSUME NEW serves, DOMAIN serves \subseteq Keys
  PROVE  IsFiniteSet(Differing(serves))
<1>1. Differing(serves) \in SUBSET (SUBSET Keys)
  BY DEF Differing
<1> QED BY <1>1, KeysFinite, FS_SUBSET, FS_Subset

\* What one ring adds to what was found before it: pairs that differ, all of them unless
\* a bound is reached, which is so only if there are more.
FindsRight(before, after, ring, serves) ==
  /\ after.visits \in Nat /\ after.visits <= before.visits + Cardinality(Seen(serves))
  /\ after.truncated \in BOOLEAN /\ (before.truncated => after.truncated)
  /\ \E pairs \in SUBSET Differing(serves) :
       /\ after.pairs = before.pairs \cup {Overlap(ring, serves, pair) : pair \in pairs}
       /\ ~after.truncated => pairs = Differing(serves)
  /\ after.truncated => \/ before.truncated
                        \/ Cardinality(Differing(serves)) > MaxPairs
                        \/ before.visits + Cardinality(Seen(serves)) > MaxVisits

LEMMA Looking ==
  ASSUME NEW serves, DOMAIN serves \subseteq Keys, NEW ring,
         NEW found, found.visits \in Nat, found.truncated \in BOOLEAN
  PROVE  FindsRight(found, LookAt(found, ring, serves), ring, serves)
<1> DEFINE visits == Visits(serves)
           beyond == Beyond(visits, found.visits)
           looked == IF beyond = {} THEN Len(visits) ELSE Min(beyond) - 1
           pairs == Shared(visits, looked)
           D == Differing(serves)
           after == LookAt(found, ring, serves)
<1>1. /\ visits \in Seq(Keys \X Keys) /\ Len(visits) \in Nat /\ DOMAIN visits = 1 .. Len(visits)
      /\ {Pair(v) : v \in ToSet(visits)} = D
      /\ Cardinality(Seen(serves)) = Len(visits)
  BY AllVisited
<1>2. after = [pairs |-> found.pairs \cup {Overlap(ring, serves, pair) : pair \in pairs},
               visits |-> found.visits + (IF beyond = {} THEN looked ELSE looked + 1),
               truncated |-> found.truncated \/ beyond # {}]
  BY DEF LookAt, Overlap
<1>3. D = {Pair(visits[i]) : i \in 1 .. Len(visits)}
  BY <1>1 DEF ToSet
<1> HIDE DEF visits, after, D
<1>4. beyond \in SUBSET Nat /\ beyond \subseteq 1 .. Len(visits)
  BY <1>1 DEF Beyond
<1>5. beyond # {} => Min(beyond) \in beyond
  <2> HIDE DEF beyond
  <2> QED BY <1>4, MinOfNumbers
<1>6. ASSUME NEW m \in beyond
      PROVE  Cardinality(D) > MaxPairs \/ found.visits + Cardinality(Seen(serves)) > MaxVisits
  <2>1. m \in 1 .. Len(visits)
    BY <1>4
  <2>2. CASE found.visits + m > MaxVisits
    BY <1>1, <2>1, <2>2, OverlapsAssumption
  <2>3. CASE /\ Pair(visits[m]) \notin Shared(visits, m - 1)
             /\ Cardinality(Shared(visits, m - 1)) >= MaxPairs
    <3> DEFINE before == Shared(visits, m - 1)
    <3>1. before \in SUBSET D /\ before \cup {Pair(visits[m])} \in SUBSET D
      BY <1>1, <1>3, <2>1 DEF Shared
    <3> HIDE DEF before
    <3>2. IsFiniteSet(D) /\ IsFiniteSet(before)
      BY <3>1, DifferingFinite, FS_Subset DEF D
    <3>3. Cardinality(before \cup {Pair(visits[m])}) = Cardinality(before) + 1
      BY <2>3, <3>2, FS_AddElement DEF before
    <3>4. Cardinality(before \cup {Pair(visits[m])}) <= Cardinality(D)
      BY <3>1, <3>2, FS_Subset
    <3>5. Cardinality(before) \in Nat /\ Cardinality(D) \in Nat
      BY <3>2, FS_CardinalityType
    <3>6. Cardinality(before) >= MaxPairs
      BY <2>3 DEF before
    <3> QED BY <3>3, <3>4, <3>5, <3>6, OverlapsAssumption
  <2> QED BY <2>2, <2>3 DEF Beyond
<1> HIDE DEF beyond
<1>7. looked \in 0 .. Len(visits) /\ (beyond # {} => looked + 1 <= Len(visits))
  <2> DEFINE first == Min(beyond)
  <2> HIDE DEF first
  <2>1. beyond # {} => first \in 1 .. Len(visits)
    BY <1>4, <1>5 DEF first
  <2>2. looked = IF beyond = {} THEN Len(visits) ELSE first - 1
    BY DEF first
  <2> HIDE DEF looked
  <2> QED BY <1>1, <2>1, <2>2
<1>8. pairs \in SUBSET D /\ (beyond = {} => pairs = D)
  BY <1>1, <1>3, <1>7 DEF Shared
<1>9. after.visits \in Nat /\ after.visits <= found.visits + Cardinality(Seen(serves))
  BY <1>1, <1>2, <1>7
<1> HIDE DEF looked, pairs
<1>10. /\ after.pairs = found.pairs \cup {Overlap(ring, serves, pair) : pair \in pairs}
       /\ after.truncated = (found.truncated \/ beyond # {})
  BY <1>2
<1>11. after.truncated \in BOOLEAN /\ (after.truncated <=> found.truncated \/ beyond # {})
  BY <1>10
<1>12. after.truncated => \/ found.truncated
                          \/ Cardinality(D) > MaxPairs
                          \/ found.visits + Cardinality(Seen(serves)) > MaxVisits
  BY <1>6, <1>11
<1>13. \E some \in SUBSET D :
         /\ after.pairs = found.pairs \cup {Overlap(ring, serves, pair) : pair \in some}
         /\ ~after.truncated => some = D
  <2> USE <1>8
  <2> WITNESS pairs \in SUBSET D
  <2> QED BY <1>8, <1>10, <1>11
<1>14. FindsRight(found, after, ring, serves)
  BY <1>9, <1>11, <1>12, <1>13 DEF FindsRight, D
<1> QED BY <1>14 DEF after

\* Every time the loops come by a pair at a ring, and at the first rings.
SeenAt(served, ring) == {<<ring, v[1], v[2]>> : v \in Seen(served[ring])}

SeenBy(served, n) == UNION {SeenAt(served, RingOrder[i]) : i \in 1 .. n}

LEMMA SeenCount ==
  ASSUME NEW served, \A ring \in Rings : DOMAIN served[ring] \subseteq Keys
  PROVE  /\ SeenBy(served, 0) = {}
         /\ \A n \in 0 .. Len(RingOrder) :
              /\ IsFiniteSet(SeenBy(served, n))
              /\ n # 0 => Cardinality(SeenBy(served, n)) =
                            Cardinality(SeenBy(served, n - 1)) + Cardinality(Seen(served[RingOrder[n]]))
<1>1. /\ Len(RingOrder) \in Nat /\ DOMAIN RingOrder = 1 .. Len(RingOrder)
      /\ \A i \in 1 .. Len(RingOrder) : RingOrder[i] \in Rings
      /\ \A i, j \in 1 .. Len(RingOrder) : i # j => RingOrder[i] # RingOrder[j]
  BY OverlapsAssumption DEF IsInjective
<1>2. \A ring \in Rings : /\ IsFiniteSet(SeenAt(served, ring))
                          /\ Cardinality(SeenAt(served, ring)) = Cardinality(Seen(served[ring]))
  <2> SUFFICES ASSUME NEW ring \in Rings
               PROVE  /\ IsFiniteSet(SeenAt(served, ring))
                      /\ Cardinality(SeenAt(served, ring)) = Cardinality(Seen(served[ring]))
    OBVIOUS
  <2> DEFINE V == Seen(served[ring])
             f == [v \in V |-> <<ring, v[1], v[2]>>]
  <2>1. IsFiniteSet(V)
    BY AllVisited
  <2>2. \A v \in V : v = <<v[1], v[2]>>
    BY DEF Seen
  <2> HIDE DEF V
  <2>3. f = [v \in V |-> f[v]] /\ \A v, w \in V : f[v] = f[w] => v = w
    BY <2>2
  <2>4. SeenAt(served, ring) = {f[v] : v \in V}
    BY DEF SeenAt, V
  <2> HIDE DEF f
  <2> QED BY <2>1, <2>3, <2>4, Counting DEF V
<1>3. SeenBy(served, 0) = {}
  BY DEF SeenBy
<1>4. \A n \in 0 .. Len(RingOrder) : IsFiniteSet(SeenBy(served, n))
  <2> SUFFICES ASSUME NEW n \in 0 .. Len(RingOrder) PROVE IsFiniteSet(SeenBy(served, n))
    OBVIOUS
  <2> DEFINE at == [i \in 1 .. n |-> SeenAt(served, RingOrder[i])]
  <2>1. IsFiniteSet(1 .. n)
    BY FS_Interval
  <2>2. at \in Surjection(1 .. n, {SeenAt(served, RingOrder[i]) : i \in 1 .. n})
    BY DEF Surjection
  <2>3. IsFiniteSet({SeenAt(served, RingOrder[i]) : i \in 1 .. n})
    BY <2>1, <2>2, FS_Surjection
  <2>4. \A T \in {SeenAt(served, RingOrder[i]) : i \in 1 .. n} : IsFiniteSet(T)
    BY <1>1, <1>2
  <2> QED BY <2>3, <2>4, FS_UNION DEF SeenBy
<1>5. ASSUME NEW n \in 0 .. Len(RingOrder), n # 0
      PROVE  Cardinality(SeenBy(served, n)) =
               Cardinality(SeenBy(served, n - 1)) + Cardinality(Seen(served[RingOrder[n]]))
  <2> DEFINE before == SeenBy(served, n - 1)
             here == SeenAt(served, RingOrder[n])
  <2>1. SeenBy(served, n) = before \cup here
    <3>1. 1 .. n = (1 .. n - 1) \cup {n}
      BY <1>5
    <3> QED BY <3>1 DEF SeenBy
  <2>2. before \cap here = {}
    <3> SUFFICES ASSUME NEW v \in before, v \in here PROVE FALSE
      OBVIOUS
    <3>1. PICK i \in 1 .. n - 1 : v \in SeenAt(served, RingOrder[i])
      BY DEF SeenBy
    <3>2. v[1] = RingOrder[i] /\ v[1] = RingOrder[n]
      BY <3>1 DEF SeenAt
    <3>3. i \in 1 .. Len(RingOrder) /\ n \in 1 .. Len(RingOrder) /\ i # n
      BY <1>1, <1>5
    <3> QED BY <1>1, <3>2, <3>3
  <2>3. IsFiniteSet(before) /\ IsFiniteSet(here) /\ Cardinality(here) = Cardinality(Seen(served[RingOrder[n]]))
    <3>1. n - 1 \in 0 .. Len(RingOrder) /\ RingOrder[n] \in Rings
      BY <1>1, <1>5
    <3> QED BY <1>2, <1>4, <3>1
  <2> HIDE DEF before, here
  <2>4. Cardinality(before \cup here)
          = Cardinality(before) + Cardinality(here) - Cardinality(before \cap here)
    BY <2>3, FS_Union
  <2>5. Cardinality(before \cap here) = 0 /\ Cardinality(before) \in Nat /\ Cardinality(here) \in Nat
    BY <2>2, <2>3, FS_EmptySet, FS_CardinalityType
  <2>6. Cardinality(before \cup here) = Cardinality(before) + Cardinality(here)
    <3> DEFINE u == Cardinality(before)
               w == Cardinality(here)
    <3>1. u \in Nat /\ w \in Nat /\ Cardinality(before \cup here) = u + w - 0
      BY <2>4, <2>5
    <3> HIDE DEF u, w
    <3>2. Cardinality(before \cup here) = u + w
      BY <3>1
    <3> QED BY <3>2 DEF u, w
  <2> QED BY <2>1, <2>3, <2>6 DEF before
<1> QED BY <1>3, <1>4, <1>5

\* What is found at the first n rings.
FindsAtRings(served, found, n) ==
  /\ found.visits \in Nat /\ found.visits <= Cardinality(SeenBy(served, n))
  /\ found.truncated \in BOOLEAN
  /\ \A o \in found.pairs : \E i \in 1 .. n : \E pair \in Differing(served[RingOrder[i]]) :
       o = Overlap(RingOrder[i], served[RingOrder[i]], pair)
  /\ ~found.truncated => \A i \in 1 .. n : \A pair \in Differing(served[RingOrder[i]]) :
       Overlap(RingOrder[i], served[RingOrder[i]], pair) \in found.pairs
  /\ found.truncated => \/ \E i \in 1 .. n : Cardinality(Differing(served[RingOrder[i]])) > MaxPairs
                        \/ Cardinality(SeenBy(served, n)) > MaxVisits

LEMMA FindsOneMore ==
  ASSUME NEW served, \A ring \in Rings : DOMAIN served[ring] \subseteq Keys,
         NEW n \in 1 .. Len(RingOrder), NEW before, NEW after,
         FindsAtRings(served, before, n - 1),
         FindsRight(before, after, RingOrder[n], served[RingOrder[n]])
  PROVE  FindsAtRings(served, after, n)
<1> DEFINE serves == served[RingOrder[n]]
           seen == Cardinality(SeenBy(served, n))
           earlier == Cardinality(SeenBy(served, n - 1))
           here == Cardinality(Seen(serves))
<1>1. /\ n \in Nat /\ n \in 0 .. Len(RingOrder) /\ n - 1 \in 0 .. Len(RingOrder) /\ n # 0
      /\ RingOrder[n] \in Rings
      /\ 1 .. n = (1 .. n - 1) \cup {n}
  BY OverlapsAssumption
<1>2. seen = earlier + here /\ earlier \in Nat /\ here \in Nat
  <2>1. IsFiniteSet(SeenBy(served, n - 1)) /\ IsFiniteSet(Seen(serves))
    BY <1>1, SeenCount, AllVisited
  <2>2. seen = earlier + here
    BY <1>1, SeenCount
  <2> QED BY <2>1, <2>2, FS_CardinalityType
<1> HIDE DEF seen, earlier, here
<1>3. /\ before.visits \in Nat /\ before.visits <= earlier /\ before.truncated \in BOOLEAN
      /\ before.truncated => \/ \E i \in 1 .. n - 1 : Cardinality(Differing(served[RingOrder[i]])) > MaxPairs
                             \/ earlier > MaxVisits
  BY DEF FindsAtRings, earlier
<1>4. /\ after.visits \in Nat /\ after.visits <= before.visits + here
      /\ after.truncated \in BOOLEAN /\ (before.truncated => after.truncated)
      /\ after.truncated => \/ before.truncated
                            \/ Cardinality(Differing(serves)) > MaxPairs
                            \/ before.visits + here > MaxVisits
  BY DEF FindsRight, here
<1>5. after.visits <= seen
  BY <1>2, <1>3, <1>4
<1>6. after.truncated => \/ \E i \in 1 .. n : Cardinality(Differing(served[RingOrder[i]])) > MaxPairs
                         \/ seen > MaxVisits
  <2>1. CASE before.truncated
    <3>1. CASE earlier > MaxVisits
      BY <1>2, <3>1, OverlapsAssumption
    <3>2. CASE \E i \in 1 .. n - 1 : Cardinality(Differing(served[RingOrder[i]])) > MaxPairs
      BY <1>1, <3>2
    <3> QED BY <1>3, <2>1, <3>1, <3>2
  <2>2. CASE before.visits + here > MaxVisits
    BY <1>2, <1>3, <2>2, OverlapsAssumption
  <2>3. CASE Cardinality(Differing(serves)) > MaxPairs
    BY <1>1, <2>3
  <2> QED BY <1>4, <2>1, <2>2, <2>3
<1>7. PICK pairs \in SUBSET Differing(serves) :
        /\ after.pairs = before.pairs \cup {Overlap(RingOrder[n], serves, pair) : pair \in pairs}
        /\ ~after.truncated => pairs = Differing(serves)
  BY DEF FindsRight
<1>8. ASSUME NEW o \in after.pairs
      PROVE  \E i \in 1 .. n : \E pair \in Differing(served[RingOrder[i]]) :
               o = Overlap(RingOrder[i], served[RingOrder[i]], pair)
  <2>1. CASE o \in before.pairs
    BY <1>1, <2>1 DEF FindsAtRings
  <2>2. CASE o \notin before.pairs
    BY <1>1, <1>7, <2>2
  <2> QED BY <2>1, <2>2
<1>9. ASSUME ~after.truncated, NEW i \in 1 .. n, NEW pair \in Differing(served[RingOrder[i]])
      PROVE  Overlap(RingOrder[i], served[RingOrder[i]], pair) \in after.pairs
  <2>1. CASE i = n
    BY <1>7, <1>9, <2>1
  <2>2. CASE i # n
    <3>1. i \in 1 .. n - 1 /\ ~before.truncated
      BY <1>1, <1>4, <1>9, <2>2
    <3>2. Overlap(RingOrder[i], served[RingOrder[i]], pair) \in before.pairs
      BY <3>1 DEF FindsAtRings
    <3> QED BY <1>7, <3>2
  <2> QED BY <2>1, <2>2
<1> QED BY <1>4, <1>5, <1>6, <1>8, <1>9 DEF FindsAtRings, seen

LEMMA FoundAtRings ==
  ASSUME NEW served, \A ring \in Rings : DOMAIN served[ring] \subseteq Keys
  PROVE  FindsAtRings(served, FoundIn(served)[Len(RingOrder)], Len(RingOrder))
<1> DEFINE found == FoundIn(served)
           count == Len(RingOrder)
           N == {n \in Nat : n \in 0 .. count => FindsAtRings(served, found[n], n)}
<1>1. /\ count \in Nat
      /\ \A n \in 0 .. count :
           found[n] = IF n = 0 THEN NothingFound
                      ELSE LookAt(found[n - 1], RingOrder[n], served[RingOrder[n]])
  <2> HIDE DEF found
  <2>1. count \in Nat /\ Finding(served, found, count)
    BY FoundByStep DEF found
  <2> HIDE DEF count
  <2> QED BY <2>1 DEF Finding
<1> HIDE DEF found, count
<1>2. 0 \in N
  <2>1. found[0] = NothingFound
    BY <1>1
  <2>2. FindsAtRings(served, NothingFound, 0)
    <3>1. IsFiniteSet(SeenBy(served, 0)) /\ Cardinality(SeenBy(served, 0)) = 0
      BY SeenCount, FS_EmptySet
    <3> QED BY <3>1 DEF FindsAtRings, NothingFound
  <2> QED BY <2>1, <2>2
<1>3. ASSUME NEW n \in N PROVE n + 1 \in N
  <2> SUFFICES ASSUME n + 1 \in 0 .. count PROVE FindsAtRings(served, found[n + 1], n + 1)
    OBVIOUS
  <2>1. n \in Nat /\ n \in 0 .. count /\ n + 1 \in 1 .. count /\ (n + 1) - 1 = n /\ n + 1 # 0
    BY <1>1
  <2>2. FindsAtRings(served, found[n], (n + 1) - 1)
    BY <2>1
  <2>3. found[n + 1] = LookAt(found[n], RingOrder[n + 1], served[RingOrder[n + 1]])
    BY <1>1, <2>1
  <2>4. RingOrder[n + 1] \in Rings
    BY <2>1, OverlapsAssumption DEF count
  <2>5. FindsRight(found[n], found[n + 1], RingOrder[n + 1], served[RingOrder[n + 1]])
    <3>1. found[n].visits \in Nat /\ found[n].truncated \in BOOLEAN
      BY <2>2 DEF FindsAtRings
    <3> QED BY <2>3, <2>4, <3>1, Looking
  <2> QED BY <2>1, <2>2, <2>5, FindsOneMore DEF count
<1>4. N = Nat
  <2>1. N \in SUBSET Nat
    OBVIOUS
  <2> HIDE DEF N
  <2> QED BY <1>2, <1>3, <2>1, Induction
<1>5. FindsAtRings(served, found[count], count)
  BY <1>1, <1>4
<1> QED BY <1>5 DEF found, count

LEMMA PairOfTwo ==
  ASSUME NEW serves, NEW pair \in Differing(serves)
  PROVE  Cardinality(pair) = 2
<1>1. PICK a, b \in pair : pair = {a, b} /\ a # b
  BY DEF Differing
<1>2. IsFiniteSet({a}) /\ Cardinality({a}) = 1
  BY FS_Singleton
<1>3. Cardinality({a} \cup {b}) = 1 + 1
  BY <1>1, <1>2, FS_AddElement
<1>4. {a} \cup {b} = pair
  BY <1>1
<1> QED BY <1>3, <1>4

\* The report names no pair that does not differ at each of its rings, all that do unless it
\* is truncated, and it is truncated only if there are more than its bounds allow.
ReportsRight(served, found) ==
  /\ found.truncated \in BOOLEAN
  /\ \A o \in found.overlaps :
       /\ o.rings \in (SUBSET Rings) \ {{}}
       /\ \A ring \in o.rings : /\ DOMAIN o.served \in Differing(served[ring])
                                /\ \A k \in DOMAIN o.served : o.served[k] = served[ring][k]
  /\ ~found.truncated => \A ring \in Rings : \A pair \in Differing(served[ring]) :
       \E o \in found.overlaps : ring \in o.rings /\ DOMAIN o.served = pair
  /\ found.truncated => \/ \E ring \in Rings : Cardinality(Differing(served[ring])) > MaxPairs
                        \/ Cardinality(SeenBy(served, Len(RingOrder))) > MaxVisits

LEMMA Reporting ==
  ASSUME NEW served, \A ring \in Rings : DOMAIN served[ring] \subseteq Keys
  PROVE  ReportsRight(served, FindOverlaps(served))
<1> DEFINE count == Len(RingOrder)
           found == FoundIn(served)[count]
           ringsOf(s) == {p.ring : p \in {p \in found.pairs : p.served = s}}
           result == FindOverlaps(served)
<1>1. FindsAtRings(served, found, count)
  BY FoundAtRings
<1>2. /\ result.overlaps = {[served |-> s, rings |-> ringsOf(s)] : s \in {p.served : p \in found.pairs}}
      /\ result.truncated = found.truncated
  BY DEF FindOverlaps
<1> HIDE DEF found, result
<1>3. Rings = {RingOrder[i] : i \in 1 .. count} /\ \A i \in 1 .. count : RingOrder[i] \in Rings
  <2>1. DOMAIN RingOrder = 1 .. count
    BY OverlapsAssumption
  <2> QED BY <2>1 DEF Rings, ToSet
<1> HIDE DEF count
<1>4. ASSUME NEW p \in found.pairs
      PROVE  /\ p.ring \in Rings /\ DOMAIN p.served \in Differing(served[p.ring])
             /\ \A k \in DOMAIN p.served : p.served[k] = served[p.ring][k]
  <2>1. PICK i \in 1 .. count : \E pair \in Differing(served[RingOrder[i]]) :
          p = Overlap(RingOrder[i], served[RingOrder[i]], pair)
    BY <1>1 DEF FindsAtRings
  <2>2. PICK pair \in Differing(served[RingOrder[i]]) :
          p = Overlap(RingOrder[i], served[RingOrder[i]], pair)
    BY <2>1
  <2>3. p.ring = RingOrder[i] /\ p.served = [k \in pair |-> served[RingOrder[i]][k]]
    BY <2>2 DEF Overlap
  <2> QED BY <1>3, <2>2, <2>3
<1>5. ASSUME NEW o \in result.overlaps
      PROVE  /\ o.rings \in (SUBSET Rings) \ {{}}
             /\ \A ring \in o.rings : /\ DOMAIN o.served \in Differing(served[ring])
                                      /\ \A k \in DOMAIN o.served : o.served[k] = served[ring][k]
  <2>1. PICK q \in found.pairs : o = [served |-> q.served, rings |-> ringsOf(q.served)]
    BY <1>2
  <2>2. o.served = q.served /\ o.rings = ringsOf(q.served)
    <3> HIDE DEF ringsOf
    <3> QED BY <2>1
  <2>3. q.ring \in o.rings
    BY <2>2
  <2>4. \A ring \in o.rings : \E p \in found.pairs : p.served = o.served /\ p.ring = ring
    BY <2>2
  <2> HIDE DEF ringsOf
  <2> QED BY <1>4, <2>3, <2>4
<1>6. ASSUME ~result.truncated, NEW ring \in Rings, NEW pair \in Differing(served[ring])
      PROVE  \E o \in result.overlaps : ring \in o.rings /\ DOMAIN o.served = pair
  <2>1. PICK i \in 1 .. count : ring = RingOrder[i]
    BY <1>3
  <2> DEFINE p == Overlap(ring, served[ring], pair)
             o == [served |-> p.served, rings |-> ringsOf(p.served)]
  <2>2. p \in found.pairs
    BY <1>1, <1>2, <1>6, <2>1 DEF FindsAtRings
  <2>3. p.ring = ring /\ DOMAIN p.served = pair
    BY DEF Overlap
  <2> HIDE DEF p
  <2>4. ring \in ringsOf(p.served)
    BY <2>2, <2>3
  <2>5. o \in result.overlaps
    <3> HIDE DEF ringsOf
    <3> QED BY <1>2, <2>2
  <2>6. o.rings = ringsOf(p.served) /\ o.served = p.served
    <3> HIDE DEF ringsOf
    <3> QED OBVIOUS
  <2> HIDE DEF o, ringsOf
  <2> QED BY <2>3, <2>4, <2>5, <2>6
<1>7. result.truncated \in BOOLEAN /\
      (result.truncated => \/ \E ring \in Rings : Cardinality(Differing(served[ring])) > MaxPairs
                           \/ Cardinality(SeenBy(served, count)) > MaxVisits)
  BY <1>1, <1>2, <1>3 DEF FindsAtRings
<1>8. ReportsRight(served, result)
  BY <1>5, <1>6, <1>7 DEF ReportsRight, count
<1> QED BY <1>8 DEF result

-----------------------------------------------------------------------------
(***************************************************************************)
(* What the rings serve, and the report of it.                             *)
(***************************************************************************)
ServedOf(M, defs, ring) ==
  [k \in {k \in Keys : NewestOf(Providing(M, k), defs[ring][k]) # {}} |->
     CHOOSE f \in Firmware : f \in NewestOf(Providing(M, k), defs[ring][k])]

LEMMA NewerTotal ==
  ASSUME NEW f \in Firmware, NEW g \in Firmware
  PROVE  ~(Newer(f, g) /\ Newer(g, f)) /\ (f # g => Newer(f, g) \/ Newer(g, f))
<1>1. /\ f.date \in Nat /\ f.checksum \in Nat /\ g.date \in Nat /\ g.checksum \in Nat
      /\ f.date = g.date /\ f.checksum = g.checksum => f = g
  BY DocumentsAssumption
<1> QED BY <1>1 DEF Newer

LEMMA TaggedOfSole ==
  ASSUME NEW k, NEW head, NEW R \in SUBSET Firmware, NEW version
  PROVE  TaggedReleases(Sole(k, head, R), version) = NewestOf(R, version)
<1> DEFINE c == Sole(k, head, R)
<1>1. ToSet(c.releases) = R
  BY SortedReleases DEF Sole
<1> HIDE DEF c
<1>2. TaggedReleases(c, version) =
        {f \in R : f.version = version /\ \A g \in R : g.version = version /\ g # f => Newer(f, g)}
  BY <1>1 DEF TaggedReleases, ReleasesOf
<1>3. \A f, g \in R : ~(Newer(f, g) /\ Newer(g, f)) /\ (f # g => Newer(f, g) \/ Newer(g, f))
  BY NewerTotal
<1>4. TaggedReleases(c, version) = NewestOf(R, version)
  BY <1>2, <1>3 DEF NewestOf
<1> QED BY <1>4 DEF c

LEMMA ServedMeans ==
  ASSUME NEW M \in SUBSET Firmware, NEW defs, NEW ring
  PROVE  /\ DOMAIN ServedOf(M, defs, ring) \subseteq Keys
         /\ \A k \in Keys :
              NewestOf(Providing(M, k), defs[ring][k])
                = IF k \in DOMAIN ServedOf(M, defs, ring) THEN {ServedOf(M, defs, ring)[k]} ELSE {}
<1> DEFINE serves == ServedOf(M, defs, ring)
<1>1. DOMAIN serves = {k \in Keys : NewestOf(Providing(M, k), defs[ring][k]) # {}}
  BY DEF ServedOf
<1>2. \A k \in DOMAIN serves :
        serves[k] = CHOOSE f \in Firmware : f \in NewestOf(Providing(M, k), defs[ring][k])
  BY DEF ServedOf
<1> HIDE DEF serves
<1>3. ASSUME NEW k \in Keys
      PROVE  NewestOf(Providing(M, k), defs[ring][k]) = IF k \in DOMAIN serves THEN {serves[k]} ELSE {}
  <2> DEFINE newest == NewestOf(Providing(M, k), defs[ring][k])
  <2>1. newest \subseteq Firmware /\ \A f, g \in newest : f = g
    BY NewerTotal DEF NewestOf, Providing
  <2>2. k \in DOMAIN serves <=> newest # {}
    BY <1>1
  <2>3. k \in DOMAIN serves => serves[k] = CHOOSE f \in Firmware : f \in newest
    BY <1>2
  <2> HIDE DEF newest
  <2>4. k \in DOMAIN serves => serves[k] \in newest
    BY <2>1, <2>2, <2>3
  <2>5. newest = IF k \in DOMAIN serves THEN {serves[k]} ELSE {}
    BY <2>1, <2>2, <2>4
  <2> QED BY <2>5 DEF newest
<1> QED BY <1>1, <1>3 DEF serves

\* What is served is found in the components as they are built.
LEMMA ServedOfParts ==
  ASSUME NEW M \in SUBSET Firmware, NEW heads, Heading(heads, M), NEW defs, NEW ring
  PROVE  Served(Parts(heads, M), defs, ring) = ServedOf(M, defs, ring)
<1> DEFINE components == Parts(heads, M)
           serves(c) == TaggedReleases(c, defs[ring][c.key])
           componentOf(k) == CHOOSE c \in ToSet(components) : c.key = k
           sole(k) == Sole(k, heads[k], Providing(M, k))
           newest(k) == NewestOf(Providing(M, k), defs[ring][k])
           served == {c.key : c \in {c \in ToSet(components) : serves(c) # {}}}
<1>1. /\ \A c \in ToSet(components) : \E k \in Keys : Providing(M, k) # {} /\ c = sole(k)
      /\ \A k \in Keys : Providing(M, k) # {} => sole(k) \in ToSet(components)
  BY PartsOfKeys
<1>2. \A k : sole(k).key = k
  BY DEF Sole
<1>3. \A k \in Keys : serves(sole(k)) = newest(k)
  <2> SUFFICES ASSUME NEW k \in Keys PROVE serves(sole(k)) = newest(k)
    OBVIOUS
  <2>1. Providing(M, k) \in SUBSET Firmware
    BY DEF Providing
  <2>2. TaggedReleases(sole(k), defs[ring][k]) = newest(k)
    BY <2>1, TaggedOfSole
  <2> HIDE DEF sole, newest
  <2> QED BY <1>2, <2>2
<1>4. \A k \in Keys : newest(k) # {} => Providing(M, k) # {}
  BY DEF NewestOf
<1>5. Served(components, defs, ring) =
        [k \in served |-> CHOOSE f \in Firmware : f \in serves(componentOf(k))]
  BY DEF Served
<1>6. ServedOf(M, defs, ring) =
        [k \in {k \in Keys : newest(k) # {}} |-> CHOOSE f \in Firmware : f \in newest(k)]
  BY DEF ServedOf
<1> HIDE DEF components, serves, sole, newest
<1>7. served = {k \in Keys : newest(k) # {}}
  <2>1. ASSUME NEW c \in ToSet(components), serves(c) # {} PROVE c.key \in Keys /\ newest(c.key) # {}
    <3>1. PICK k \in Keys : c = sole(k)
      BY <1>1
    <3> QED BY <1>2, <1>3, <2>1, <3>1
  <2>2. ASSUME NEW k \in Keys, newest(k) # {}
        PROVE  \E c \in ToSet(components) : serves(c) # {} /\ c.key = k
    BY <1>1, <1>2, <1>3, <1>4, <2>2
  <2> QED BY <2>1, <2>2
<1>8. ASSUME NEW k \in served PROVE serves(componentOf(k)) = newest(k)
  <2>1. k \in Keys /\ sole(k) \in ToSet(components)
    BY <1>1, <1>4, <1>7
  <2>2. componentOf(k) \in ToSet(components) /\ componentOf(k).key = k
    BY <1>2, <2>1
  <2>3. componentOf(k) = sole(k)
    BY <1>1, <1>2, <2>2
  <2> QED BY <1>3, <2>1, <2>3
<1> HIDE DEF served, componentOf
<1> QED BY <1>5, <1>6, <1>7, <1>8 DEF components

LEMMA CarryingMeans ==
  ASSUME DocumentInv, ~outdated, NEW ring \in Rings, NEW k \in Keys
  PROVE  Carrying(ring, k) = NewestOf(Providing(mirrored, k), tagged[ring][k])
<1>1. PICK heads : Heading(heads, mirrored) /\ published = DocumentOf(heads, mirrored, tagged)
  BY DEF DocumentInv
<1>2. mirrored \in SUBSET Firmware
  BY DEF DocumentInv
<1>3. CarriedIn(DocumentOf(heads, mirrored, tagged), ring, k)
        = NewestOf(Providing(mirrored, k), tagged[ring][k])
  BY <1>1, <1>2, TaggedOfDocument
<1> QED BY <1>1, <1>3 DEF Carrying, CarriedIn

\* A report of pairs, each with the rings that serve it.
ReportTyped(found) ==
  /\ found.truncated \in BOOLEAN
  /\ \A o \in found.overlaps : /\ Cardinality(DOMAIN o.served) = 2
                               /\ o.rings \in (SUBSET Rings) \ {{}}

LEMMA ReportOfPairs ==
  ASSUME NEW served, \A ring \in Rings : DOMAIN served[ring] \subseteq Keys
  PROVE  ReportTyped(FindOverlaps(served))
<1> DEFINE found == FindOverlaps(served)
<1>1. ReportsRight(served, found)
  BY Reporting
<1> HIDE DEF found
<1>2. ASSUME NEW o \in found.overlaps PROVE Cardinality(DOMAIN o.served) = 2
  <2>1. PICK ring \in o.rings : DOMAIN o.served \in Differing(served[ring])
    BY <1>1 DEF ReportsRight
  <2> QED BY <2>1, PairOfTwo
<1>3. ReportTyped(found)
  BY <1>1, <1>2 DEF ReportsRight, ReportTyped
<1> QED BY <1>3 DEF found

ServedNow == [ring \in Rings |-> ServedOf(mirrored, tagged, ring)]

\* The report is that of what the document serves.
ReportInv ==
  /\ ReportTyped(report)
  /\ ~outdated /\ published # << >> => report = FindOverlaps(ServedNow)

LEMMA ReportKept ==
  ASSUME DocumentInv, ReportInv, [Next]_vars
  PROVE  ReportInv'
<1>1. CASE \E order \in SetToAllKPermutations(Firmware \ Indexed), replace \in BOOLEAN :
             Refresh(order, replace)
  <2>1. PICK order \in SetToAllKPermutations(Firmware \ Indexed), replace \in BOOLEAN :
          Refresh(order, replace)
    BY <1>1
  <2> DEFINE components == BuildDocument(Existing, NewComponents(order), replace)
  <2>2. PICK after : Heading(after, mirrored') /\ components = Parts(after, mirrored')
    BY <2>1, Refreshing
  <2>3. mirrored' \in SUBSET Firmware
    BY <2>1, Refreshing
  <2>4. tagged' = definitions /\ report' = FindOverlaps([ring \in Rings |-> Served(components, definitions, ring)])
    BY <2>1 DEF Refresh
  <2>5. ServedNow' = [ring \in Rings |-> ServedOf(mirrored', tagged', ring)]
    BY DEF ServedNow
  <2> HIDE DEF components
  <2>6. \A ring \in Rings : Served(components, definitions, ring) = ServedOf(mirrored', tagged', ring)
    BY <2>2, <2>3, <2>4, ServedOfParts
  <2>7. report' = FindOverlaps(ServedNow')
    <3>1. [ring \in Rings |-> Served(components, definitions, ring)]
            = [ring \in Rings |-> ServedOf(mirrored', tagged', ring)]
      BY <2>6
    <3> QED BY <2>4, <2>5, <3>1
  <2>8. \A ring \in Rings : DOMAIN ServedNow'[ring] \subseteq Keys
    BY <2>3, <2>5, ServedMeans
  <2>9. ReportTyped(FindOverlaps(ServedNow'))
    BY <2>8, ReportOfPairs
  <2>10. ReportTyped(report')
    BY <2>7, <2>9
  <2> QED BY <2>7, <2>10 DEF ReportInv, ReportTyped
<1>2. CASE (\E defs \in Definitions : Edit(defs)) \/ UNCHANGED vars
  BY <1>2 DEF ReportInv, ReportTyped, ServedNow, Edit, vars
<1>3. CASE Upgrade
  BY <1>3 DEF ReportInv, ReportTyped, Upgrade
<1> QED BY <1>1, <1>2, <1>3 DEF Next

LEMMA ReportCorrect == Spec => [](DocumentInv /\ ReportInv)
<1>1. Init => ReportInv
  BY DEF Init, ReportInv, ReportTyped
<1>2. DocumentInv /\ ReportInv /\ [Next]_vars => ReportInv'
  BY ReportKept
<1> QED BY <1>1, <1>2, DocumentCorrect, PTL DEF Spec

\* The stored document, the definitions and the report keep their types.
THEOREM DocumentsTypeCorrect == Spec => []TypeOK
<1>1. DocumentInv /\ ReportInv => TypeOK
  BY DEF DocumentInv, ReportInv, ReportTyped, TypeOK
<1> QED BY <1>1, ReportCorrect, PTL

\* What overlaps by the tags of the document are the pairs that differ in what is served.
LEMMA OverlappingDiffers ==
  ASSUME DocumentInv, ~outdated, NEW ring \in Rings
  PROVE  OverlapsOf(ring) = Differing(ServedNow[ring])
<1> DEFINE serves == ServedNow[ring]
<1>1. /\ DOMAIN serves \subseteq Keys
      /\ \A k \in Keys : Carrying(ring, k) = IF k \in DOMAIN serves THEN {serves[k]} ELSE {}
  <2>1. mirrored \in SUBSET Firmware /\ serves = ServedOf(mirrored, tagged, ring)
    BY DEF DocumentInv, ServedNow
  <2>2. /\ DOMAIN serves \subseteq Keys
        /\ \A k \in Keys : NewestOf(Providing(mirrored, k), tagged[ring][k])
                            = IF k \in DOMAIN serves THEN {serves[k]} ELSE {}
    BY <2>1, ServedMeans
  <2> HIDE DEF serves
  <2>3. \A k \in Keys : Carrying(ring, k) = NewestOf(Providing(mirrored, k), tagged[ring][k])
    BY CarryingMeans
  <2> QED BY <2>2, <2>3
<1> HIDE DEF serves
<1>2. \A a, b \in Keys :
        Overlapping(ring, a, b) <=> /\ a \in DOMAIN serves /\ b \in DOMAIN serves
                                    /\ serves[a] # serves[b] /\ a.guids \cap b.guids # {}
  BY <1>1 DEF Overlapping
<1>3. ASSUME NEW a \in Keys, NEW b \in Keys, Overlapping(ring, a, b)
      PROVE  {a, b} \in Differing(serves)
  BY <1>2, <1>3 DEF Differing
<1>4. ASSUME NEW pair \in Differing(serves)
      PROVE  \E a, b \in Keys : pair = {a, b} /\ Overlapping(ring, a, b)
  <2>1. PICK a, b \in pair : /\ pair = {a, b} /\ serves[a] # serves[b]
                             /\ a.guids \cap b.guids # {}
    BY DEF Differing
  <2>2. a \in DOMAIN serves /\ b \in DOMAIN serves
    BY DEF Differing
  <2> QED BY <1>1, <1>2, <2>1, <2>2
<1>5. \A o : o \in OverlapsOf(ring) <=> \E a, b \in Keys : o = {a, b} /\ Overlapping(ring, a, b)
  <2> DEFINE overlapping == {p \in Keys \X Keys : Overlapping(ring, p[1], p[2])}
  <2>2. OverlapsOf(ring) = {{p[1], p[2]} : p \in overlapping}
    BY DEF OverlapsOf
  <2> HIDE DEF overlapping
  <2>3. \A o : o \in OverlapsOf(ring) <=> \E p \in overlapping : o = {p[1], p[2]}
    BY <2>2
  <2>4. \A a, b \in Keys : Overlapping(ring, a, b) => <<a, b>> \in overlapping
    BY DEF overlapping
  <2>5. \A p \in overlapping : p[1] \in Keys /\ p[2] \in Keys /\ Overlapping(ring, p[1], p[2])
    BY DEF overlapping
  <2>6. ASSUME NEW a \in Keys, NEW b \in Keys, Overlapping(ring, a, b)
        PROVE  {a, b} \in OverlapsOf(ring)
    <3>1. <<a, b>> \in overlapping /\ <<a, b>>[1] = a /\ <<a, b>>[2] = b
      BY <2>4, <2>6
    <3> QED BY <2>3, <3>1
  <2> QED BY <2>3, <2>5, <2>6
<1>6. OverlapsOf(ring) = Differing(serves)
  BY <1>3, <1>4, <1>5
<1> QED BY <1>6 DEF serves

LEMMA VisitsSeen ==
  ASSUME DocumentInv, ~outdated
  PROVE  AllVisits = Cardinality(SeenBy(ServedNow, Len(RingOrder)))
<1> DEFINE visits(ring) == {<<ring, pair, g>> : pair \in OverlapsOf(ring), g \in AllGUIDs}
           all == {v \in UNION {visits(ring) : ring \in Rings} : \A k \in v[2] : v[3] \in k.guids}
<1>1. AllVisits = Cardinality(all)
  BY DEF AllVisits, AllGUIDs
<1>2. \A v : v \in all <=> \E ring \in Rings : \E pair \in OverlapsOf(ring) : \E g \in AllGUIDs :
                             v = <<ring, pair, g>> /\ \A k \in pair : g \in k.guids
  OBVIOUS
<1>3. ASSUME NEW ring \in Rings
      PROVE  \A v : v \in SeenAt(ServedNow, ring) <=>
                      \E pair \in OverlapsOf(ring) : \E g \in AllGUIDs :
                        v = <<ring, pair, g>> /\ \A k \in pair : g \in k.guids
  <2>1. OverlapsOf(ring) = Differing(ServedNow[ring])
    BY OverlappingDiffers
  <2> DEFINE seen == Seen(ServedNow[ring])
  <2>2. \A w : w \in seen <=> \E pair \in OverlapsOf(ring) : \E g \in AllGUIDs :
                                w = <<pair, g>> /\ \A k \in pair : g \in k.guids
    BY <2>1 DEF Seen
  <2> HIDE DEF seen
  <2>3. \A v : v \in SeenAt(ServedNow, ring) <=> \E w \in seen : v = <<ring, w[1], w[2]>>
    BY DEF SeenAt, seen
  <2>4. ASSUME NEW w \in seen
        PROVE  \E pair \in OverlapsOf(ring) : \E g \in AllGUIDs :
                 <<ring, w[1], w[2]>> = <<ring, pair, g>> /\ \A k \in pair : g \in k.guids
    BY <2>2
  <2>5. ASSUME NEW pair \in OverlapsOf(ring), NEW g \in AllGUIDs, \A k \in pair : g \in k.guids
        PROVE  <<ring, pair, g>> \in SeenAt(ServedNow, ring)
    <3>1. <<pair, g>> \in seen
      BY <2>2, <2>5
    <3>2. <<pair, g>>[1] = pair /\ <<pair, g>>[2] = g
      OBVIOUS
    <3> QED BY <2>3, <3>1, <3>2
  <2> QED BY <2>3, <2>4, <2>5
<1>4. SeenBy(ServedNow, Len(RingOrder)) = UNION {SeenAt(ServedNow, ring) : ring \in Rings}
  <2>1. Rings = {RingOrder[i] : i \in 1 .. Len(RingOrder)}
    <3>1. DOMAIN RingOrder = 1 .. Len(RingOrder)
      BY OverlapsAssumption
    <3> QED BY <3>1 DEF Rings, ToSet
  <2> QED BY <2>1 DEF SeenBy
<1> HIDE DEF all
<1>5. all = SeenBy(ServedNow, Len(RingOrder))
  BY <1>2, <1>3, <1>4
<1> QED BY <1>1, <1>5

\* Every overlap a ring serves is reported, unless the report says that it is cut short, as
\* it does only beyond its bounds; and nothing else is reported, whatever bounds, rings and
\* components there are.
THEOREM OverlapsReportedCorrect == Spec => []OverlapsReported
<1>1. DocumentInv /\ ReportInv => OverlapsReported
  <2> SUFFICES ASSUME DocumentInv, ReportInv, ~outdated, published # << >>
               PROVE  /\ \A ring \in Rings : /\ Reported(ring) \subseteq OverlapsOf(ring)
                                             /\ report.truncated \/ Reported(ring) = OverlapsOf(ring)
                      /\ \A o \in report.overlaps, ring \in Rings : ring \in o.rings =>
                           \A k \in DOMAIN o.served : Carrying(ring, k) = {o.served[k]}
                      /\ report.truncated =>
                           \/ \E ring \in Rings : Cardinality(OverlapsOf(ring)) > MaxPairs
                           \/ AllVisits > MaxVisits
    BY DEF OverlapsReported
  <2>1. mirrored \in SUBSET Firmware
    BY DEF DocumentInv
  <2>2. \A ring \in Rings : ServedNow[ring] = ServedOf(mirrored, tagged, ring)
    BY DEF ServedNow
  <2>3. \A ring \in Rings :
          /\ DOMAIN ServedNow[ring] \subseteq Keys
          /\ \A k \in DOMAIN ServedNow[ring] : Carrying(ring, k) = {ServedNow[ring][k]}
    BY <2>1, <2>2, ServedMeans, CarryingMeans
  <2>4. ReportsRight(ServedNow, report)
    <3>1. ReportsRight(ServedNow, FindOverlaps(ServedNow))
      BY <2>3, Reporting
    <3> QED BY <3>1 DEF ReportInv
  <2>5. \A ring \in Rings : OverlapsOf(ring) = Differing(ServedNow[ring])
    BY OverlappingDiffers
  <2>6. ASSUME NEW ring \in Rings PROVE Reported(ring) \subseteq OverlapsOf(ring)
    BY <2>4, <2>5 DEF ReportsRight, Reported
  <2>7. ASSUME NEW ring \in Rings, ~report.truncated PROVE OverlapsOf(ring) \subseteq Reported(ring)
    <3>1. \A pair \in Differing(ServedNow[ring]) :
            \E o \in report.overlaps : ring \in o.rings /\ DOMAIN o.served = pair
      BY <2>4, <2>7 DEF ReportsRight
    <3> QED BY <2>5, <3>1 DEF Reported
  <2>8. ASSUME NEW o \in report.overlaps, NEW ring \in Rings, ring \in o.rings,
               NEW k \in DOMAIN o.served
        PROVE  Carrying(ring, k) = {o.served[k]}
    <3>1. DOMAIN o.served \in Differing(ServedNow[ring]) /\ o.served[k] = ServedNow[ring][k]
      BY <2>4, <2>8 DEF ReportsRight
    <3>2. k \in DOMAIN ServedNow[ring]
      BY <3>1 DEF Differing
    <3> QED BY <2>3, <3>1, <3>2
  <2>9. report.truncated => \/ \E ring \in Rings : Cardinality(OverlapsOf(ring)) > MaxPairs
                            \/ AllVisits > MaxVisits
    BY <2>4, <2>5, VisitsSeen DEF ReportsRight
  <2>10. report.truncated \in BOOLEAN
    BY <2>4 DEF ReportsRight
  <2> QED BY <2>6, <2>7, <2>8, <2>9, <2>10
<1> QED BY <1>1, ReportCorrect, PTL
=============================================================================
