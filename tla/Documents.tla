------------------------------- MODULE Documents -------------------------------
(***************************************************************************)
(* The published document over the runs of firmirror: each reads it back,  *)
(* pools the pieces of every component, adds what it mirrored in whatever  *)
(* order its workers finished, sorts, tags and groups the releases again,  *)
(* and reports the overlaps it serves.                                     *)
(*                                                                         *)
(* What makes a run publish, or refuse to, is the module Publish; a        *)
(* refresh is one action here.  A release is the package of a firmware,    *)
(* the same of every component the package provides.  Rings are numbered   *)
(* in the order of their tags.                                             *)
(***************************************************************************)
EXTENDS Overlaps

CONSTANTS
  Firmware,     \* packages: records with a version, a date and a checksum, and
                \* the keys of the components they provide
  Definitions,  \* what the definitions file can say: the version each ring serves
  NoVersion     \* of a component

ASSUME DocumentsAssumption ==
  /\ Rings \subseteq Nat
  /\ IsFiniteSet(Firmware)
  /\ \A f \in Firmware :
       f.date \in Nat /\ f.checksum \in Nat /\ f.provides \in (SUBSET Keys) \ {{}}
  /\ \A f, g \in Firmware : f.date = g.date /\ f.checksum = g.checksum => f = g
  /\ \A defs \in Definitions : DOMAIN defs = Rings /\ \A r \in Rings : DOMAIN defs[r] = Keys

VARIABLES
  published,    \* the stored document: the pieces of its components, in order
  outdated,     \* whether it has another schema than this firmirror's
  definitions,  \* what the definitions file says
  tagged,       \* the definitions the document was published with
  report,       \* the overlaps the last run reported
  mirrored      \* the firmware mirrored with this schema

vars == <<published, outdated, definitions, tagged, report, mirrored>>

(***************************************************************************)
(* Components.  The fields other than the releases are those of one of the *)
(* packages, the component's head.                                         *)
(***************************************************************************)
\* Slip: the last piece of a component wins.
PoolLastByKey(components, k) ==
  LET pieces == Select(components, {c \in ToSet(components) : c.key = k})
  IN IF pieces = <<>> THEN <<>> ELSE <<Last(pieces)>>

\* The component of a key as the one element of a sequence, if there is one.
PoolByKey(components, k) ==
  LET pieces == Select(components, {c \in ToSet(components) : c.key = k})
  IN IF pieces = <<>> THEN <<>>
     ELSE <<[key |-> k, head |-> pieces[1].head,
             releases |-> FlattenSeq([i \in DOMAIN pieces |-> pieces[i].releases])]>>

\* What the stored component keeps.
Kept(component, incoming, replaceSuperseded) ==
  LET superseded(f) == \E c \in ToSet(incoming) : f \in ToSet(c.releases)
  IN Select(component.releases,
            {f \in ToSet(component.releases) : ~(replaceSuperseded /\ superseded(f))})

MergeComponents(existing, incoming, replaceSuperseded, k) ==
  LET new == PoolByKey(incoming, k)
      pooled == PoolByKey(existing, k)
      kept == [i \in DOMAIN pooled |->
                 [pooled[i] EXCEPT !.releases = Kept(pooled[i], new, replaceSuperseded)]]
      old == Select(kept, {c \in ToSet(kept) : c.releases # <<>>})
  IN IF old = <<>> \/ new = <<>> THEN old \o new
     ELSE <<[old[1] EXCEPT !.releases = @ \o new[1].releases]>>

Newer(a, b) == a.date > b.date \/ (a.date = b.date /\ a.checksum < b.checksum)

\* Slip: those of a day stay as they came.
SortReleasesByDate(releases) ==
  LET rank(i) == Cardinality({j \in DOMAIN releases :
                    \/ releases[j].date > releases[i].date
                    \/ releases[j].date = releases[i].date /\ j < i})
  IN [n \in DOMAIN releases |-> releases[CHOOSE i \in DOMAIN releases : rank(i) = n - 1]]

NewestFirst(releases) == {p \in releases \X releases : Newer(p[1], p[2])}

SortReleases(releases) == Sorted(ToSet(releases), NewestFirst(ToSet(releases)))

\* The components of the document, in the order of their keys.
BuildDocument(existing, incoming, replaceSuperseded) ==
  LET built(k) ==
        LET merged == MergeComponents(existing, incoming, replaceSuperseded, k)
        IN [i \in DOMAIN merged |-> [merged[i] EXCEPT !.releases = SortReleases(@)]]
  IN FlattenSeq([i \in DOMAIN KeyOrder |-> built(KeyOrder[i])])

(***************************************************************************)
(* Tags.                                                                   *)
(***************************************************************************)
ReleasesOf(component, version) == {f \in ToSet(component.releases) : f.version = version}

\* Slip: every release of the version is tagged.
TaggedReleasesAll(component, version) == ReleasesOf(component, version)

\* The newest release of the version, if the mirror has the version.
TaggedReleases(component, version) ==
  {f \in ReleasesOf(component, version) :
     \A g \in ReleasesOf(component, version) \ {f} : Newer(f, g)}

\* What a ring serves, as Apply finds it.
Served(components, defs, ring) ==
  LET serves(c) == TaggedReleases(c, defs[ring][c.key])
      componentOf(k) == CHOOSE c \in ToSet(components) : c.key = k
  IN [k \in {c.key : c \in {c \in ToSet(components) : serves(c) # {}}} |->
        CHOOSE f \in Firmware : f \in serves(componentOf(k))]

TagsOf(component, defs, f) ==
  {ring \in Rings : f \in TaggedReleases(component, defs[ring][component.key])}

\* The order of the tag lists, as strings.
TagsBefore(s, t) ==
  LET differ == (s \cup t) \ (s \cap t)
      least == Min(differ)
      goesOn(set) == \E ring \in set : ring > least
  IN /\ s # t
     /\ IF least \in s THEN goesOn(t) ELSE ~goesOn(s)

GroupByTags(component, defs) ==
  LET tags(f) == TagsOf(component, defs, f)
      all == {tags(f) : f \in ToSet(component.releases)}
      sets == Sorted(all, {p \in all \X all : TagsBefore(p[1], p[2])})
      having(set) == {f \in ToSet(component.releases) : tags(f) = set}
  IN [i \in DOMAIN sets |->
        [key |-> component.key, head |-> component.head, tags |-> sets[i],
         releases |-> Select(component.releases, having(sets[i]))]]

RenderMetadata(components, defs) ==
  FlattenSeq([i \in DOMAIN components |-> GroupByTags(components[i], defs)])

(***************************************************************************)
(* Runs.                                                                   *)
(***************************************************************************)
\* The components of the firmware mirrored, in the order it was done.
NewComponents(order) ==
  FlattenSeq([i \in DOMAIN order |->
    LET keys == SetToSeq(order[i].provides)
    IN [j \in DOMAIN keys |-> [key |-> keys[j], head |-> order[i], releases |-> <<order[i]>>]]])

\* LoadMetadata: a document of another schema is dropped.
Existing == IF outdated THEN <<>> ELSE published

Indexed == UNION {ToSet(Existing[i].releases) : i \in DOMAIN Existing}

\* Firmware that is stored is not mirrored again; some is not mirrored at all.
Refresh(order, replaceSuperseded) ==
  LET components == BuildDocument(Existing, NewComponents(order), replaceSuperseded)
  IN /\ Existing # <<>> \/ order # <<>>
     /\ published' = RenderMetadata(components, definitions)
     /\ report' = FindOverlaps([ring \in Rings |-> Served(components, definitions, ring)])
     /\ tagged' = definitions
     /\ outdated' = FALSE
     /\ mirrored' = ToSet(order) \cup (IF outdated THEN {} ELSE mirrored)
     /\ UNCHANGED definitions

Edit(defs) ==
  /\ definitions' = defs
  /\ UNCHANGED <<published, outdated, tagged, report, mirrored>>

\* Another firmirror is installed.
Upgrade ==
  /\ published # <<>>
  /\ outdated' = TRUE
  /\ UNCHANGED <<published, definitions, tagged, report, mirrored>>

Init ==
  /\ published = <<>>
  /\ outdated = FALSE
  /\ definitions \in Definitions
  /\ tagged = definitions
  /\ report = [overlaps |-> {}, truncated |-> FALSE]
  /\ mirrored = {}

Next ==
  \/ \E order \in SetToAllKPermutations(Firmware \ Indexed), replace \in BOOLEAN :
       Refresh(order, replace)
  \/ \E defs \in Definitions : Edit(defs)
  \/ Upgrade

Spec == Init /\ [][Next]_vars

-----------------------------------------------------------------------------
Piece == [key : Keys, head : Firmware, tags : SUBSET Rings, releases : Seq(Firmware)]

(***************************************************************************)
(* Type invariant.                                                         *)
(***************************************************************************)
TypeOK ==
  /\ \A i \in DOMAIN published : published[i] \in Piece
  /\ outdated \in BOOLEAN
  /\ definitions \in Definitions /\ tagged \in Definitions
  /\ \A o \in report.overlaps :
       /\ Cardinality(DOMAIN o.served) = 2
       /\ o.rings \in (SUBSET Rings) \ {{}}
  /\ report.truncated \in BOOLEAN
  /\ mirrored \subseteq Firmware

(***************************************************************************)
(* Publishing again, with the definitions of the last time and nothing     *)
(* new, gives the very same document: what is read, pooled, sorted, tagged *)
(* and grouped again comes out as it was, or clients would download the    *)
(* metadata after every refresh (SaveMetadata, GroupByTags, PoolByKey).    *)
(***************************************************************************)
ReadsBackTheSame ==
  [][ ~outdated /\ mirrored' = mirrored /\ tagged' = tagged => published' = published ]_vars

Headless(pieces) ==
  [i \in DOMAIN pieces |-> <<pieces[i].key, pieces[i].tags, pieces[i].releases>>]

(***************************************************************************)
(* The document has exactly what was mirrored, in the order and the pieces *)
(* it would have if one run had mirrored it all, whatever the order its    *)
(* workers finished in: only the fields of a component that its packages   *)
(* disagree on depend on that (SortReleases, "byte-stable across runs").   *)
(***************************************************************************)
SameHoweverMirrored ==
  ~outdated =>
    \A order \in SetToSeqs(mirrored) :
      Headless(published)
        = Headless(RenderMetadata(BuildDocument(<<>>, NewComponents(order), FALSE), tagged))

\* The releases of a component that carry the tag of a ring.
Carrying(ring, k) ==
  UNION {ToSet(p.releases) : p \in {p \in ToSet(published) : p.key = k /\ ring \in p.tags}}

(***************************************************************************)
(* A ring's tag is on the newest package of the version it serves of each  *)
(* component and on nothing else, whatever the tags were before and        *)
(* whichever pieces the releases were read from (Apply, AddTag).           *)
(***************************************************************************)
TaggedAsDefined ==
  ~outdated =>
    \A ring \in Rings, k \in Keys :
      LET held == {f \in mirrored : k \in f.provides /\ f.version = tagged[ring][k]}
      IN Carrying(ring, k) = {f \in held : ~\E g \in held : Newer(g, f)}

\* Whether a ring gives a host with a GUID of both one of two releases.
Overlapping(ring, a, b) ==
  /\ a.guids \cap b.guids # {}
  /\ Carrying(ring, a) # {} /\ Carrying(ring, b) # {}
  /\ Carrying(ring, a) # Carrying(ring, b)

OverlapsOf(ring) ==
  {{p[1], p[2]} : p \in {p \in Keys \X Keys : Overlapping(ring, p[1], p[2])}}

Reported(ring) == {DOMAIN o.served : o \in {o \in report.overlaps : ring \in o.rings}}

\* How often two components overlap through a GUID, the rings together.
AllVisits ==
  LET guids == UNION {k.guids : k \in Keys}
      visits(ring) == {<<ring, pair, g>> : pair \in OverlapsOf(ring), g \in guids}
  IN Cardinality({v \in UNION {visits(ring) : ring \in Rings} : \A k \in v[2] : v[3] \in k.guids})

(***************************************************************************)
(* The report names every overlap each ring serves, or says that it is not *)
(* all of them; it says so only when there are more than its bounds allow, *)
(* and names none that is not there (overlaps, Report.OverlapsTruncated).  *)
(***************************************************************************)
OverlapsReported ==
  ~outdated /\ published # <<>> =>
    /\ \A ring \in Rings :
         /\ Reported(ring) \subseteq OverlapsOf(ring)
         /\ report.truncated \/ Reported(ring) = OverlapsOf(ring)
    /\ \A o \in report.overlaps, ring \in Rings : ring \in o.rings =>
         \A k \in DOMAIN o.served : Carrying(ring, k) = {o.served[k]}
    /\ report.truncated =>
         \/ \E ring \in Rings : Cardinality(OverlapsOf(ring)) > MaxPairs
         \/ AllVisits > MaxVisits
=============================================================================
