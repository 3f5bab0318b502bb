------------------------------- MODULE Overlaps -------------------------------
(***************************************************************************)
(* The pairs of components that provide some of the same GUIDs and are     *)
(* served different releases, as bkc.overlaps looks for them: ring by      *)
(* ring, GUID by GUID, and no further than its two bounds.                 *)
(*                                                                         *)
(* A component is told by its key.  What a ring serves is a function from  *)
(* the keys it serves to the package of each one's release, whose location *)
(* tells it, also from another one of the same version.                    *)
(***************************************************************************)
EXTENDS Naturals, FiniteSets, SequencesExt

CONSTANTS
  KeyOrder,   \* the keys of the components, as ComponentKey sorts them
  RingOrder,  \* the rings, in promotion order
  MaxPairs,   \* overlapBounds.pairs: the pairs kept of a ring
  MaxVisits   \* overlapBounds.visits: the pairs looked at, the rings together

Keys == ToSet(KeyOrder)

Rings == ToSet(RingOrder)

\* A GUID is a number, as only their order counts.
ASSUME OverlapsAssumption ==
  /\ KeyOrder \in Seq(Keys) /\ IsInjective(KeyOrder)
  /\ RingOrder \in Seq(Rings) /\ IsInjective(RingOrder)
  /\ \A k \in Keys : k.guids \subseteq Nat /\ IsFiniteSet(k.guids)
  /\ MaxPairs \in Nat /\ MaxVisits \in Nat

(***************************************************************************)
(* Sequences and orders.  SortSeq and SelectSeq are not definitions the    *)
(* proof system knows.                                                     *)
(***************************************************************************)
\* The elements of a set by an order on it: each comes after as many as are before it.
Sorted(S, order) ==
  LET before == [x \in S |-> Cardinality({y \in S : <<y, x>> \in order})]
  IN [n \in 1 .. Cardinality(S) |-> CHOOSE x \in S : before[x] = n - 1]

Increasing(numbers) == {p \in numbers \X numbers : p[1] < p[2]}

\* The elements of a sequence that are in a set, in the order of the sequence.
Select(s, T) ==
  LET taken  == {i \in DOMAIN s : s[i] \in T}
      places == Sorted(taken, Increasing(taken))
  IN [n \in DOMAIN places |-> s[places[n]]]

-----------------------------------------------------------------------------
Place == [k \in Keys |-> CHOOSE i \in DOMAIN KeyOrder : KeyOrder[i] = k]

\* byGUID
Through(serves, guid) == {k \in DOMAIN serves : guid \in k.guids}

CommonGUIDs(serves) ==
  LET common == {g \in UNION {k.guids : k \in DOMAIN serves} : Cardinality(Through(serves, g)) > 1}
  IN Sorted(common, Increasing(common))

\* Slip: two packages of one version are one release.
GroupByVersion(serves, guid, k) ==
  Min({Place[o] : o \in {o \in Through(serves, guid) : serves[o].version = serves[k].version}})

\* The group of a component: those served the same release, by the first of them.
Group(serves, guid, k) ==
  Min({Place[o] : o \in {o \in Through(serves, guid) : serves[o] = serves[k]}})

\* Where the loops come by two components: by their groups, then by their own places.
PlaceOf(serves, guid, p) ==
  <<Group(serves, guid, p[1]), Group(serves, guid, p[2]), Place[p[1]], Place[p[2]]>>

InOrder(serves, guid, pairs) ==
  LET place == [p \in pairs |-> PlaceOf(serves, guid, p)]
      before(p, q) == \E i \in 1 .. 4 : /\ place[p][i] < place[q][i]
                                       /\ \A j \in 1 .. i - 1 : place[p][j] = place[q][j]
  IN Sorted(pairs, {pq \in pairs \X pairs : before(pq[1], pq[2])})

Pairs(serves, guid) == Through(serves, guid) \X Through(serves, guid)

\* Slip: a group is paired with itself too.
PairsThroughAndItself(serves, guid) ==
  InOrder(serves, guid,
          {p \in Pairs(serves, guid) : Group(serves, guid, p[1]) <= Group(serves, guid, p[2])})

\* The pairs of two groups.
PairsThrough(serves, guid) ==
  InOrder(serves, guid,
          {p \in Pairs(serves, guid) : Group(serves, guid, p[1]) < Group(serves, guid, p[2])})

Visits(serves) ==
  LET common == CommonGUIDs(serves)
  IN FlattenSeq([i \in DOMAIN common |-> PairsThrough(serves, common[i])])

Pair(visit) == {visit[1], visit[2]}

Shared(visits, n) == {Pair(visits[i]) : i \in 1 .. n}

\* The visits that are beyond a bound: the ring is given up at the first.
Beyond(visits, before) ==
  {n \in DOMAIN visits :
     \/ before + n > MaxVisits
     \/ /\ Pair(visits[n]) \notin Shared(visits, n - 1)
        /\ Cardinality(Shared(visits, n - 1)) >= MaxPairs}

NothingFound == [pairs |-> {}, visits |-> 0, truncated |-> FALSE]

\* One ring, after what the ones before it found.
LookAt(found, ring, serves) ==
  LET visits == Visits(serves)
      beyond == Beyond(visits, found.visits)
      looked == IF beyond = {} THEN Len(visits) ELSE Min(beyond) - 1
  IN [pairs |-> found.pairs \cup {[ring |-> ring, served |-> [k \in pair |-> serves[k]]] :
                                    pair \in Shared(visits, looked)},
      visits |-> found.visits + (IF beyond = {} THEN looked ELSE looked + 1),
      truncated |-> found.truncated \/ beyond # {}]

\* What was found in the first n rings.
FoundIn(served) ==
  LET found[n \in 0 .. Len(RingOrder)] ==
        IF n = 0 THEN NothingFound
        ELSE LookAt(found[n - 1], RingOrder[n], served[RingOrder[n]])
  IN found

\* A pair is reported once, with the rings that serve it the same two releases.
FindOverlaps(served) ==
  LET found == FoundIn(served)[Len(RingOrder)]
      ringsOf(s) == {p.ring : p \in {p \in found.pairs : p.served = s}}
  IN [overlaps |-> {[served |-> s, rings |-> ringsOf(s)] : s \in {p.served : p \in found.pairs}},
      truncated |-> found.truncated]
=============================================================================
