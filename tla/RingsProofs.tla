------------------------------ MODULE RingsProofs ------------------------------
(***************************************************************************)
(* Theorems about Rings, for any components, releases, rings, definitions  *)
(* and options: what promotions and publishes keep.                        *)
(***************************************************************************)
EXTENDS Rings, FiniteSetTheorems, TLAPS

-----------------------------------------------------------------------------
(***************************************************************************)
(* Releases and the order of the rings.                                    *)
(***************************************************************************)
LEMMA NewestOf ==
  ASSUME NEW releases \in SUBSET Release, releases # {}
  PROVE  Newest(releases) \in releases
<1>1. \E r \in releases : \A s \in releases \ {r} : Newer(r, s)
  BY NewestAssumption
<1> QED BY <1>1 DEF Newest

LEMMA ReleaseOfVersion ==
  ASSUME NEW releases \in SUBSET Release, NEW version
  PROVE  \/ ReleaseOf(releases, version) = NoRelease
         \/ /\ ReleaseOf(releases, version) \in releases
            /\ ReleaseOf(releases, version).version = version
<1> DEFINE matching == {r \in releases : r.version = version}
<1>1. ASSUME matching # {} PROVE Newest(matching) \in matching
  BY <1>1, NewestOf
<1> QED BY <1>1 DEF ReleaseOf

\* A version the mirror has is one that is found.
LEMMA HasRelease ==
  ASSUME NEW releases \in SUBSET Release, NEW r \in releases
  PROVE  ReleaseOf(releases, r.version) \in Release
<1> DEFINE matching == {s \in releases : s.version = r.version}
<1>1. r \in matching
  OBVIOUS
<1>2. Newest(matching) \in matching
  BY <1>1, NewestOf
<1> QED BY <1>1, <1>2 DEF ReleaseOf

LEMMA RingBefore ==
  ASSUME NEW ring \in Rings, ~First(ring)
  PROVE  Upstream(ring) \in Rings /\ Upstream(ring) # ring
<1> USE RingsAssumption
<1>1. Len(RingOrder) \in Nat
  OBVIOUS
<1>2. PICK n \in 1 .. Len(RingOrder) : RingOrder[n] = ring
  BY DEF Rings
<1>3. n # 1
  BY <1>2 DEF First
<1>4. n - 1 \in 1 .. Len(RingOrder) - 1 /\ n - 1 + 1 = n
  BY <1>1, <1>2, <1>3
<1>5. RingOrder[n - 1] \in Rings
  BY <1>1, <1>4 DEF Rings
<1>6. \E up \in Rings :
        \E i \in 1 .. Len(RingOrder) - 1 : RingOrder[i] = up /\ RingOrder[i + 1] = ring
  BY <1>2, <1>4, <1>5
<1>7. /\ Upstream(ring) \in Rings
      /\ \E i \in 1 .. Len(RingOrder) - 1 :
           RingOrder[i] = Upstream(ring) /\ RingOrder[i + 1] = ring
  BY <1>6 DEF Upstream
<1>8. ASSUME NEW i \in 1 .. Len(RingOrder) - 1, RingOrder[i] = ring, RingOrder[i + 1] = ring
      PROVE  FALSE
  BY <1>1, <1>8
<1> QED BY <1>7, <1>8

-----------------------------------------------------------------------------
(***************************************************************************)
(* Adoption leaves every entry of a mirrored component alone, and gives    *)
(* the entry without a platform to one that had none.                      *)
(***************************************************************************)
LEMMA KeyParts ==
  /\ \A k \in Key : k[1] \in Ids
  /\ \A id \in Ids : Bare(id) \in Key /\ Bare(id)[1] = id
BY RingsAssumption DEF Key, Bare

LEMMA AdoptAtKey ==
  ASSUME NEW f \in File, NEW m \in Mirror, NEW only, NEW k \in Key
  PROVE  Adopt(f, m, only)[k] =
           IF k[1] \notin Adopting(f, m, only) THEN f[k]
           ELSE IF k = Bare(k[1]) THEN NoEntry
           ELSE IF k \in Unclaimed(f, m, k[1]) THEN f[Bare(k[1])]
           ELSE f[k]
BY DEF Adopt

LEMMA AdoptType ==
  ASSUME NEW f \in File, NEW m \in Mirror, NEW only
  PROVE  Adopt(f, m, only) \in File
<1>1. \A k \in Key : Adopt(f, m, only)[k] \in Entry \cup {NoEntry}
  BY AdoptAtKey, KeyParts DEF File
<1>2. Adopt(f, m, only) = [k \in Key |-> Adopt(f, m, only)[k]]
  BY DEF Adopt
<1> QED BY <1>1, <1>2 DEF File

\* What adoption changes was the entry of no mirrored component.
LEMMA AdoptLeaves ==
  ASSUME NEW f \in File, NEW m \in Mirror, NEW only, NEW k \in Mirrored(m), f[k] # NoEntry
  PROVE  Adopt(f, m, only)[k] = f[k]
<1>1. k \in Key /\ k \notin Unclaimed(f, m, k[1])
  BY DEF Mirrored, Unclaimed, Listed
<1>2. ASSUME k = Bare(k[1]) PROVE k[1] \notin Adopting(f, m, only)
  BY <1>2 DEF Adopting, Adoptable
<1> QED BY <1>1, <1>2, AdoptAtKey

LEMMA TargetType ==
  ASSUME NEW f \in File, NEW m \in Mirror, NEW ring \in Rings, NEW k \in Mirrored(m)
  PROVE  \/ Target(f, m, ring, k) = NoVersion
         \/ /\ Target(f, m, ring, k) \in Versions
            /\ ReleaseOf(m[k], Target(f, m, ring, k)) \in Release
<1>1. k \in Key /\ m[k] \in SUBSET Release /\ m[k] # {}
  BY DEF Mirrored, Mirror
<1>2. CASE First(ring)
  <2>1. Newest(m[k]) \in m[k]
    BY <1>1, NewestOf
  <2>2. Newest(m[k]).version \in Versions
    BY <1>1, <2>1, RingsAssumption
  <2> QED BY <1>1, <1>2, <2>1, <2>2, HasRelease DEF Target
<1>3. CASE ~First(ring) /\ f[k] # NoEntry
  <2>1. f[k].versions[Upstream(ring)] \in Versions \cup {NoVersion}
    BY <1>1, <1>3, RingBefore DEF File, Entry
  <2> DEFINE version == f[k].versions[Upstream(ring)]
  <2>2. ReleaseOf(m[k], version) = NoRelease
        \/ (ReleaseOf(m[k], version) \in Release /\ version \in Versions)
    <3>1. ASSUME ReleaseOf(m[k], version) \in m[k],
                 ReleaseOf(m[k], version).version = version
          PROVE  version \in Versions
      BY <1>1, <3>1, RingsAssumption
    <3> QED BY <1>1, <3>1, ReleaseOfVersion
  <2> QED BY <1>3, <2>2 DEF Target
<1>4. CASE ~First(ring) /\ f[k] = NoEntry
  BY <1>4 DEF Target
<1> QED BY <1>2, <1>3, <1>4

-----------------------------------------------------------------------------
(***************************************************************************)
(* Promotion, entry by entry.                                              *)
(***************************************************************************)
Moved(f, m, ring, only) ==
  {k \in Chosen(m, only) :
     ~HeldOut(Adopt(f, m, only), k) /\ Target(Adopt(f, m, only), m, ring, k) # NoVersion}

LEMMA PromoteAtKey ==
  ASSUME NEW f \in File, NEW m \in Mirror, NEW ring \in Rings, NEW only, NEW k \in Key
  PROVE  Promote(f, m, ring, only)[k] =
           LET adopted == Adopt(f, m, only)
           IN IF k \notin Moved(f, m, ring, only) THEN adopted[k]
              ELSE [hold |-> FALSE,
                    versions |-> [IF adopted[k] = NoEntry THEN NoVersions ELSE adopted[k].versions
                                  EXCEPT ![ring] = Target(adopted, m, ring, k)]]
BY DEF Promote, Moved

LEMMA MovedAreMirrored ==
  ASSUME NEW f, NEW m \in Mirror, NEW ring, NEW only
  PROVE  Moved(f, m, ring, only) \subseteq Mirrored(m) /\ Mirrored(m) \subseteq Key
BY DEF Moved, Chosen, Mirrored

\* What a promoted entry names: the target for its ring, the same as before for the others.
LEMMA MovedEntry ==
  ASSUME NEW f \in File, NEW m \in Mirror, NEW ring \in Rings, NEW only,
         NEW k \in Moved(f, m, ring, only)
  PROVE  LET adopted == Adopt(f, m, only)
             promoted == Promote(f, m, ring, only)
         IN /\ promoted[k] \in Entry
            /\ ~promoted[k].hold
            /\ promoted[k].versions[ring] = Target(adopted, m, ring, k)
            /\ Target(adopted, m, ring, k) # NoVersion
            /\ \A other \in Rings \ {ring} :
                 promoted[k].versions[other] =
                   IF adopted[k] = NoEntry THEN NoVersion ELSE adopted[k].versions[other]
<1> DEFINE adopted == Adopt(f, m, only)
           promoted == Promote(f, m, ring, only)
           versions == IF adopted[k] = NoEntry THEN NoVersions ELSE adopted[k].versions
           target == Target(adopted, m, ring, k)
<1>1. k \in Mirrored(m) /\ k \in Key
  BY MovedAreMirrored
<1>2. adopted \in File
  BY AdoptType
<1>3. versions \in [Rings -> Versions \cup {NoVersion}]
  BY <1>1, <1>2 DEF File, Entry, NoVersions
<1>4. target \in Versions \cup {NoVersion} /\ target # NoVersion
  BY <1>1, <1>2, TargetType DEF Moved
<1>5. promoted[k] = [hold |-> FALSE, versions |-> [versions EXCEPT ![ring] = target]]
  BY <1>1, PromoteAtKey
<1> HIDE DEF target, promoted
<1>6. [versions EXCEPT ![ring] = target] \in [Rings -> Versions \cup {NoVersion}]
  BY <1>3, <1>4
<1>7. promoted[k] \in Entry /\ ~promoted[k].hold
  BY <1>5, <1>6 DEF Entry
<1>8. /\ promoted[k].versions[ring] = target
      /\ \A other \in Rings \ {ring} : promoted[k].versions[other] = versions[other]
  BY <1>3, <1>5
<1> QED BY <1>4, <1>7, <1>8 DEF NoVersions, target, promoted

LEMMA PromoteType ==
  ASSUME NEW f \in File, NEW m \in Mirror, NEW ring \in Rings, NEW only
  PROVE  Promote(f, m, ring, only) \in File
<1>1. ASSUME NEW k \in Key PROVE Promote(f, m, ring, only)[k] \in Entry \cup {NoEntry}
  <2>1. CASE k \in Moved(f, m, ring, only)
    BY <2>1, MovedEntry
  <2>2. CASE k \notin Moved(f, m, ring, only)
    <3>1. Promote(f, m, ring, only)[k] = Adopt(f, m, only)[k]
      BY <2>2, PromoteAtKey
    <3>2. Adopt(f, m, only) \in File
      BY AdoptType
    <3> QED BY <3>1, <3>2 DEF File
  <2> QED BY <2>1, <2>2
<1>2. Promote(f, m, ring, only) = [k \in Key |-> Promote(f, m, ring, only)[k]]
  BY DEF Promote
<1> QED BY <1>1, <1>2 DEF File

LEMMA PruneType ==
  ASSUME NEW f \in File, NEW m \in Mirror
  PROVE  /\ Prune(f, m) \in File
         /\ \A k \in Mirrored(m) : Prune(f, m)[k] = f[k]
BY DEF Prune, File, Removed, KeptByPrune, Mirrored

LEMMA ResultType ==
  ASSUME NEW f \in File, NEW m \in Mirror, NEW o \in Options
  PROVE  /\ Result(f, m, o) \in File
         /\ \A k \in Mirrored(m) : Result(f, m, o)[k] = Promote(f, m, o.ring, o.only)[k]
<1>1. Promote(f, m, o.ring, o.only) \in File
  BY PromoteType DEF Options
<1> QED BY <1>1, PruneType DEF Result

LEMMA ServedVersion ==
  ASSUME NEW f \in File, NEW k \in Key, f[k] # NoEntry, NEW ring \in Rings
  PROVE  Served(f[k], ring) \in Versions \cup {NoVersion}
BY DEF Served, File, Entry

LEMMA ApplyType ==
  ASSUME NEW f \in File, NEW m \in Mirror
  PROVE  Apply(f, m) \in [Rings -> [Key -> Release \cup {NoRelease}]]
<1>1. ASSUME NEW k \in Key, NEW version
      PROVE  ReleaseOf(m[k], version) \in Release \cup {NoRelease}
  BY ReleaseOfVersion DEF Mirror
<1> QED BY <1>1 DEF Apply

-----------------------------------------------------------------------------
(***************************************************************************)
(* The invariant.  As long as nothing happened that the code does not      *)
(* vouch for, every release with the tag of a ring is of a component whose *)
(* entry is not held and names the ring a version the mirror has.          *)
(***************************************************************************)
TagsVouchedFor ==
  ~edited =>
    \A ring \in Rings, k \in Key :
      served[ring][k] # NoRelease =>
        /\ k \in Mirrored(mirror) \cap Listed(file)
        /\ ~file[k].hold
        /\ ReleaseOf(mirror[k], file[k].versions[ring]) # NoRelease

RingsInv ==
  /\ TypeOK
  /\ promotion # NoPromotion => promotion.options \in deployment.options
  /\ TagsVouchedFor

LEMMA RingsInvInit == Init => RingsInv
<1> SUFFICES ASSUME Init PROVE RingsInv
  OBVIOUS
<1>1. TypeOK
  <2>1. file \in File /\ mirror \in Mirror /\ edits \in 0 .. MaxEdits
    BY RingsAssumption DEF Init, Mirror, Deployment
  <2> QED BY <2>1 DEF Init, TypeOK
<1>2. TagsVouchedFor
  BY DEF Init, TagsVouchedFor
<1> QED BY <1>1, <1>2 DEF RingsInv, Init

\* What a deployment does is what can be done anywhere.
LEMMA Steps ==
  ASSUME RingsInv, [Next]_vars
  PROVE  /\ UNCHANGED deployment
         /\ \/ \E o \in deployment.options : PromoteReadsFile(o)
            \/ PromoteReadsMirror \/ PromoteWrites \/ PromoteEnds
            \/ RefreshStarts \/ RefreshEnds
            \/ \E k \in Key, gained \in SUBSET Release : \E force : Publish(k, gained, force)
            \/ \E k \in Key : EditHold(k)
            \/ \E k \in Key, r \in Release : Withdraw(k, r)
            \/ UNCHANGED vars
<1>1. deployment.components \subseteq Key /\ deployment.releases \subseteq Release
  BY RingsAssumption DEF RingsInv, TypeOK, Deployment
<1> QED BY <1>1 DEF Next, vars

LEMMA HostsAreRings ==
  ASSUME RingsInv
  PROVE  deployment.hosts \subseteq Rings
BY RingsAssumption DEF RingsInv, TypeOK, Deployment

\* What a promotion under way has read.
LEMMA PromotionRead ==
  ASSUME RingsInv, promotion # NoPromotion
  PROVE  /\ promotion.options \in Options
         /\ promotion.options.prune => promotion.options.only = {}
         /\ promotion.base \in File
         /\ promotion.components # NotRead => promotion.components \in Mirror
BY RingsAssumption DEF RingsInv, TypeOK, Promotion, Deployment

LEMMA TypeStep == ASSUME RingsInv, [Next]_vars PROVE TypeOK'
<1> deployment' = deployment
  BY Steps
<1> USE DEF RingsInv, history
<1>1. ASSUME NEW o \in deployment.options, PromoteReadsFile(o) PROVE TypeOK'
  BY <1>1, RingsAssumption DEF PromoteReadsFile, TypeOK, Promotion, Deployment
<1>2. CASE PromoteReadsMirror
  BY <1>2 DEF PromoteReadsMirror, TypeOK, Promotion
<1>3. CASE PromoteWrites
  <2>1. file' \in File
    BY <1>3, PromotionRead, ResultType DEF PromoteWrites
  <2>2. excused' \subseteq deployment.hosts \X Key
    BY <1>3 DEF PromoteWrites, Excuse, TypeOK
  <2>3. edited' \in BOOLEAN
    BY <1>3 DEF PromoteWrites, TypeOK
  <2>4. promotion' = NoPromotion /\ UNCHANGED <<mirror, served, refresh, installed, edits>>
    BY <1>3 DEF PromoteWrites
  <2> QED BY <2>1, <2>2, <2>3, <2>4 DEF TypeOK
<1>4. CASE PromoteEnds \/ RefreshStarts \/ RefreshEnds
  BY <1>4 DEF PromoteEnds, RefreshStarts, RefreshEnds, TypeOK
<1>5. ASSUME NEW k \in Key, NEW force, NEW gained \in SUBSET Release,
             Publish(k, gained, force)
      PROVE  TypeOK'
  <2>1. mirror' \in Mirror
    BY <1>5 DEF Publish, TypeOK, Mirror
  <2>2. PICK definitions \in {file, refresh} :
          /\ served' = Apply(definitions, mirror')
          /\ edited' = (definitions # file)
          /\ Excuse({p \in deployment.hosts \X Key : definitions[p[2]] # file[p[2]]})
    BY <1>5 DEF Publish
  <2>3. definitions \in File
    BY <1>5, <2>2 DEF Publish, TypeOK
  <2>4. served' \in [Rings -> [Key -> Release \cup {NoRelease}]]
    BY <2>1, <2>2, <2>3, ApplyType
  <2>5. installed' \in [deployment.hosts -> [Key -> Release \cup {NoRelease}]]
    <3>1. installed' = [h \in deployment.hosts |-> [c \in Key |->
                          IF served'[h][c] = NoRelease THEN installed[h][c] ELSE served'[h][c]]]
      BY <1>5 DEF Publish
    <3> QED BY <3>1, <2>4, HostsAreRings DEF TypeOK
  <2>6. excused' \subseteq deployment.hosts \X Key /\ edited' \in BOOLEAN
    BY <2>2 DEF Excuse, TypeOK
  <2>7. refresh' = NoRefresh /\ UNCHANGED <<file, promotion, edits>>
    BY <1>5 DEF Publish
  <2> QED BY <2>1, <2>4, <2>5, <2>6, <2>7 DEF TypeOK
<1>6. ASSUME NEW k \in Key, EditHold(k) PROVE TypeOK'
  <2>1. file' \in File
    <3>1. file \in File /\ NoVersions \in [Rings -> Versions \cup {NoVersion}]
      BY DEF TypeOK, NoVersions
    <3>2. file[k] # NoEntry => [file[k] EXCEPT !.hold = ~@] \in Entry
      BY <3>1 DEF File, Entry
    <3>3. [hold |-> TRUE, versions |-> NoVersions] \in Entry
      BY <3>1 DEF Entry
    <3> QED BY <1>6, <3>1, <3>2, <3>3 DEF EditHold, File
  <2>2. excused' \subseteq deployment.hosts \X Key
    BY <1>6 DEF EditHold, Excuse, TypeOK
  <2>3. edits' \in 0 .. MaxEdits
    BY <1>6, RingsAssumption DEF EditHold, TypeOK
  <2> QED BY <1>6, <2>1, <2>2, <2>3 DEF EditHold, TypeOK
<1>7. ASSUME NEW k \in Key, NEW r \in Release, Withdraw(k, r) PROVE TypeOK'
  <2>1. mirror' \in Mirror /\ served' \in [Rings -> [Key -> Release \cup {NoRelease}]]
    BY <1>7 DEF Withdraw, TypeOK, Mirror
  <2>2. excused' \subseteq deployment.hosts \X Key
    BY <1>7 DEF Withdraw, Excuse, TypeOK
  <2>3. edits' \in 0 .. MaxEdits
    BY <1>7, RingsAssumption DEF Withdraw, TypeOK
  <2> QED BY <1>7, <2>1, <2>2, <2>3 DEF Withdraw, TypeOK
<1>8. CASE UNCHANGED vars
  BY <1>8 DEF vars, TypeOK
<1> QED BY <1>1, <1>2, <1>3, <1>4, <1>5, <1>6, <1>7, <1>8, Steps

\* A version nothing names has no release.
LEMMA NothingOfNoVersion ==
  ASSUME NEW releases \in SUBSET Release
  PROVE  ReleaseOf(releases, NoVersion) = NoRelease
<1>1. ASSUME NEW r \in releases PROVE r.version # NoVersion
  BY RingsAssumption, NoneAssumption
<1>2. {r \in releases : r.version = NoVersion} = {}
  BY <1>1
<1> QED BY <1>2 DEF ReleaseOf

\* A promotion keeps what the entry of a component it goes by says, or gives a ring of
\* it a version there is, also of what has been published since.
LEMMA ResultKeepsTags ==
  ASSUME NEW f \in File, NEW m \in Mirror, NEW o \in Options, NEW ring \in Rings,
         NEW k \in Mirrored(m), f[k] # NoEntry, ~f[k].hold,
         NEW more \in SUBSET Release, m[k] \subseteq more,
         ReleaseOf(more, f[k].versions[ring]) # NoRelease
  PROVE  /\ Result(f, m, o)[k] # NoEntry /\ ~Result(f, m, o)[k].hold
         /\ ReleaseOf(more, Result(f, m, o)[k].versions[ring]) # NoRelease
<1> DEFINE promoted == Promote(f, m, o.ring, o.only)
           adopted == Adopt(f, m, o.only)
           target == Target(adopted, m, o.ring, k)
<1>1. k \in Key /\ o.ring \in Rings /\ adopted \in File /\ m[k] \in SUBSET Release
  BY AdoptType, MovedAreMirrored DEF Options, Mirror
<1>2. adopted[k] = f[k]
  BY AdoptLeaves
<1>3. promoted[k] # NoEntry /\ ~promoted[k].hold
      /\ ReleaseOf(more, promoted[k].versions[ring]) # NoRelease
  <2>1. CASE k \notin Moved(f, m, o.ring, o.only)
    <3>1. promoted[k] = f[k]
      BY <1>1, <1>2, <2>1, PromoteAtKey
    <3> QED BY <3>1
  <2>2. CASE k \in Moved(f, m, o.ring, o.only)
    <3>1. /\ promoted[k] \in Entry /\ ~promoted[k].hold
          /\ promoted[k].versions[o.ring] = target
          /\ target # NoVersion
          /\ ring # o.ring => promoted[k].versions[ring] = f[k].versions[ring]
      BY <1>1, <1>2, <2>2, MovedEntry
    <3>2. ReleaseOf(m[k], target) \in Release
      BY <1>1, <3>1, TargetType
    <3>3. ReleaseOf(m[k], target) \in more /\ ReleaseOf(m[k], target).version = target
      BY <1>1, <3>2, ReleaseOfVersion, NoneAssumption
    <3>4. ReleaseOf(more, target) \in Release
      BY <3>3, HasRelease
    <3> QED BY <3>1, <3>4, NoneAssumption
  <2> QED BY <2>1, <2>2
<1>4. Result(f, m, o)[k] = promoted[k]
  BY ResultType
<1> QED BY <1>3, <1>4

\* The entry of a component it does not go by stays, or is taken away.
LEMMA ResultOfOthers ==
  ASSUME NEW f \in File, NEW m \in Mirror, NEW o \in Options, NEW k \in Key,
         k \notin Mirrored(m)
  PROVE  Result(f, m, o)[k] \in {f[k], NoEntry}
<1> DEFINE promoted == Promote(f, m, o.ring, o.only)
           adopted == Adopt(f, m, o.only)
<1>1. k \notin Unclaimed(f, m, k[1]) /\ k \notin Moved(f, m, o.ring, o.only)
  BY MovedAreMirrored DEF Unclaimed
<1>2. promoted[k] = adopted[k]
  BY <1>1, PromoteAtKey DEF Options
<1>3. adopted[k] \in {f[k], NoEntry}
  BY <1>1, AdoptAtKey
<1> QED BY <1>2, <1>3 DEF Result, Prune

LEMMA TagsStep == ASSUME RingsInv, [Next]_vars PROVE TagsVouchedFor'
<1> USE DEF RingsInv, history
<1>1. CASE UNCHANGED <<file, mirror, served, edited>>
  BY <1>1 DEF TagsVouchedFor, Mirrored, Listed
<1>2. CASE PromoteWrites
  <2> SUFFICES ASSUME ~edited', NEW ring \in Rings, NEW k \in Key, served[ring][k] # NoRelease
               PROVE  /\ k \in Mirrored(mirror) /\ file'[k] # NoEntry /\ ~file'[k].hold
                      /\ ReleaseOf(mirror[k], file'[k].versions[ring]) # NoRelease
    BY <1>2 DEF PromoteWrites, TagsVouchedFor, Mirrored, Listed
  <2> DEFINE f == promotion.base
             m == promotion.components
  <2>1. ~edited /\ ~Overtaken
    BY <1>2 DEF PromoteWrites
  <2>2. /\ f \in File /\ m \in Mirror /\ promotion.options \in Options
        /\ file' = Result(f, m, promotion.options)
    BY <1>2, PromotionRead DEF PromoteWrites
  <2>3. /\ k \in Mirrored(mirror) /\ file[k] # NoEntry /\ ~file[k].hold
        /\ ReleaseOf(mirror[k], file[k].versions[ring]) # NoRelease
    BY <2>1 DEF TagsVouchedFor, Listed
  <2>4. f[k] = file[k] /\ m[k] \subseteq mirror[k] /\ mirror[k] \in SUBSET Release
    BY <2>1, <2>3, MovedAreMirrored DEF Overtaken, TypeOK, Mirror
  <2> HIDE DEF f, m
  <2>5. CASE k \in Mirrored(m)
    <3>1. /\ f[k] # NoEntry /\ ~f[k].hold
          /\ ReleaseOf(mirror[k], f[k].versions[ring]) # NoRelease
      BY <2>3, <2>4
    <3> QED BY <2>2, <2>3, <2>4, <2>5, <3>1, ResultKeepsTags
  <2>6. CASE k \notin Mirrored(m)
    <3>1. file'[k] # NoEntry
      BY <2>1, <2>3, <2>6 DEF Overtaken, m
    <3>2. file'[k] = file[k]
      BY <2>2, <2>4, <2>6, <3>1, ResultOfOthers
    <3> QED BY <2>3, <3>2
  <2> QED BY <2>5, <2>6
<1>3. ASSUME NEW c \in Key, NEW force, NEW gained \in SUBSET Release,
             Publish(c, gained, force)
      PROVE  TagsVouchedFor'
  <2> SUFFICES ASSUME ~edited', NEW ring \in Rings, NEW k \in Key, served'[ring][k] # NoRelease
               PROVE  /\ k \in Mirrored(mirror') /\ file[k] # NoEntry /\ ~file[k].hold
                      /\ ReleaseOf(mirror'[k], file[k].versions[ring]) # NoRelease
    BY <1>3 DEF Publish, TagsVouchedFor, Mirrored, Listed
  <2>1. served' = Apply(file, mirror') /\ mirror' \in Mirror
    BY <1>3, TypeStep DEF Publish, TypeOK
  <2>2. /\ k \in Mirrored(mirror') \cap Listed(file)
        /\ ReleaseOf(mirror'[k], Served(file[k], ring)) # NoRelease
    BY <2>1 DEF Apply
  <2>3. Served(file[k], ring) # NoVersion
    BY <2>1, <2>2, NothingOfNoVersion DEF Mirror
  <2> QED BY <2>2, <2>3 DEF Served, Listed
<1>4. CASE edited'
  BY <1>4 DEF TagsVouchedFor
<1>5. ASSUME NEW k \in Key, EditHold(k) PROVE edited'
  BY <1>5 DEF EditHold
<1>6. ASSUME NEW k \in Key, NEW r \in Release, Withdraw(k, r) PROVE edited'
  BY <1>6 DEF Withdraw
<1> QED
  BY <1>1, <1>2, <1>3, <1>4, <1>5, <1>6, Steps
  DEF PromoteReadsFile, PromoteReadsMirror, PromoteEnds, RefreshStarts, RefreshEnds, vars

LEMMA RingsStep == ASSUME RingsInv, [Next]_vars PROVE RingsInv'
<1>1. promotion' # NoPromotion => promotion'.options \in deployment'.options
  <2>0. deployment' = deployment
    BY Steps
  <2>1. ASSUME NEW o \in deployment.options, PromoteReadsFile(o)
        PROVE  promotion'.options \in deployment.options
    BY <2>1 DEF PromoteReadsFile
  <2>2. CASE PromoteReadsMirror
    <3>1. promotion \in Promotion /\ promotion.options \in deployment.options
      BY <2>2 DEF PromoteReadsMirror, RingsInv, TypeOK
    <3> QED BY <2>0, <2>2, <3>1 DEF PromoteReadsMirror, Promotion
  <2>3. CASE PromoteWrites \/ PromoteEnds
    BY <2>3 DEF PromoteWrites, PromoteEnds
  <2>4. CASE UNCHANGED promotion
    BY <2>0, <2>4 DEF RingsInv
  <2> QED
    BY <2>0, <2>1, <2>2, <2>3, <2>4, Steps
    DEF RefreshStarts, Publish, RefreshEnds, EditHold, Withdraw, vars
<1> QED BY <1>1, TypeStep, TagsStep DEF RingsInv

LEMMA RingsInvAlways == Spec => []RingsInv
BY RingsInvInit, RingsStep, PTL DEF Spec

-----------------------------------------------------------------------------
(***************************************************************************)
(* Type correctness, for any releases of which one is always the newest.   *)
(***************************************************************************)
THEOREM RingsTypeCorrect == Spec => []TypeOK
<1>1. RingsInv => TypeOK
  BY DEF RingsInv
<1> QED BY <1>1, RingsInvAlways, PTL

(***************************************************************************)
(* What promotions leave is a file the next publish accepts (checkTags),   *)
(* whatever they promote, adopt and prune and whatever was published since *)
(* they read the mirror, unless someone edited the file or withdrew a      *)
(* release, or a promotion takes away the entry of a component published   *)
(* for the first time since it read the mirror (Overtaken).                *)
(***************************************************************************)
THEOREM PromotionsArePublishedCorrect == Spec => []PromotionsArePublished
<1>1. ASSUME RingsInv, ~edited PROVE CheckTags(file, mirror)
  <2>1. file \in File /\ mirror \in Mirror
    BY <1>1 DEF RingsInv, TypeOK
  <2>2. ASSUME NEW ring \in Rings, NEW k \in Key, served[ring][k] # NoRelease
        PROVE  Serves(file, ring) /\ Apply(file, mirror)[ring][k] # NoRelease
    <3>1. /\ k \in Mirrored(mirror) \cap Listed(file)
          /\ ~file[k].hold
          /\ ReleaseOf(mirror[k], file[k].versions[ring]) # NoRelease
      BY <1>1, <2>2 DEF RingsInv, TagsVouchedFor
    <3>2. Served(file[k], ring) = file[k].versions[ring]
      BY <3>1 DEF Served
    <3>3. Served(file[k], ring) # NoVersion
      BY <2>1, <3>1, <3>2, NothingOfNoVersion DEF Mirror
    <3> QED BY <3>1, <3>2, <3>3 DEF Serves, Apply
  <2> QED BY <2>2 DEF CheckTags, Tags
<1>2. RingsInv => PromotionsArePublished
  BY <1>1 DEF PromotionsArePublished
<1> QED BY <1>2, RingsInvAlways, PTL

-----------------------------------------------------------------------------
(***************************************************************************)
(* Holds.                                                                  *)
(***************************************************************************)
\* What a hold of an ID covers is neither adopted nor promoted, and the hold stays.
LEMMA ResultKeepsHolds ==
  ASSUME NEW f \in File, NEW m \in Mirror, NEW o \in Options, NEW k \in Mirrored(m)
  PROVE  /\ f[k] # NoEntry /\ f[k].hold => Result(f, m, o)[k] = f[k]
         /\ HoldsWhole(f, k[1]) =>
              /\ Result(f, m, o)[Bare(k[1])] = f[Bare(k[1])]
              /\ f[k] = NoEntry => Result(f, m, o)[k] = NoEntry
<1> DEFINE bare == Bare(k[1])
           promoted == Promote(f, m, o.ring, o.only)
           adopted == Adopt(f, m, o.only)
<1>1. k \in Key /\ bare \in Key /\ bare[1] = k[1] /\ o.ring \in Rings
  BY MovedAreMirrored, KeyParts DEF Options
<1>2. ASSUME NEW c \in Key, HeldOut(adopted, c) PROVE promoted[c] = adopted[c]
  <2>1. c \notin Moved(f, m, o.ring, o.only)
    BY <1>2 DEF Moved
  <2> QED BY <1>1, <2>1, PromoteAtKey
<1>3. ASSUME f[k] # NoEntry, f[k].hold PROVE Result(f, m, o)[k] = f[k]
  <2>1. adopted[k] = f[k]
    BY <1>3, AdoptLeaves
  <2>2. promoted[k] = f[k]
    BY <1>1, <1>2, <1>3, <2>1 DEF HeldOut
  <2> QED BY <2>2, ResultType
<1>4. ASSUME HoldsWhole(f, k[1])
      PROVE  /\ Result(f, m, o)[bare] = f[bare]
             /\ f[k] = NoEntry => Result(f, m, o)[k] = NoEntry
  <2>1. k[1] \notin Adopting(f, m, o.only)
    BY <1>4 DEF Adopting, Adoptable, HoldsWhole
  <2>2. adopted[k] = f[k] /\ adopted[bare] = f[bare]
    BY <1>1, <2>1, AdoptAtKey
  <2>3. HoldsWhole(adopted, k[1])
    BY <1>4, <2>2 DEF HoldsWhole
  <2>4. promoted[bare] = f[bare]
    BY <1>1, <1>2, <2>2, <2>3 DEF HeldOut, HoldsWhole
  <2>5. bare \notin Removed(promoted, m)
    BY <1>1, <1>4, <2>4 DEF Removed, KeptByPrune, HoldsWhole, IdsOf
  <2>6. Result(f, m, o)[bare] = f[bare]
    BY <1>1, <2>4, <2>5 DEF Result, Prune
  <2>7. ASSUME f[k] = NoEntry PROVE Result(f, m, o)[k] = NoEntry
    <3>1. promoted[k] = NoEntry
      BY <1>1, <1>2, <2>2, <2>3, <2>7 DEF HeldOut
    <3> QED BY <3>1, ResultType
  <2> QED BY <2>6, <2>7
<1> QED BY <1>3, <1>4

\* A file that changes other than by hand is written by a promotion.
LEMMA PromotedByPromotion ==
  ASSUME RingsInv, [Next]_vars, Promoted
  PROVE  /\ promotion.options \in Options
         /\ promotion.options.prune => promotion.options.only = {}
         /\ promotion.base \in File /\ promotion.components \in Mirror
         /\ ~Refused(promotion.base, promotion.components, promotion.options)
         /\ file' = Result(promotion.base, promotion.components, promotion.options)
<1>1. PromoteWrites
  <2>1. ASSUME NEW k \in Key, EditHold(k) PROVE FALSE
    BY <2>1 DEF EditHold, Promoted, RingsInv, TypeOK
  <2> QED
    BY <2>1, Steps
    DEF PromoteReadsFile, PromoteReadsMirror, PromoteEnds, RefreshStarts, Publish, RefreshEnds,
        Withdraw, vars, Promoted
<1> QED BY <1>1, PromotionRead DEF PromoteWrites

(***************************************************************************)
(* Every promotion leaves the held entries of the file it read as they     *)
(* are, and gives what they hold whole no entry (Promote, Prune), be that  *)
(* file and the mirror it read still what there is or not.                 *)
(***************************************************************************)
THEOREM HoldsKeptCorrect == Spec => HoldsKept
<1>1. ASSUME RingsInv, [Next]_vars PROVE [KeepsHolds]_vars
  <2> DEFINE f == promotion.base
             m == promotion.components
  <2>1. ASSUME Promoted, NEW k \in Mirrored(m)
        PROVE  /\ f[k] # NoEntry /\ f[k].hold => file'[k] = f[k]
               /\ HoldsWhole(f, k[1]) =>
                    /\ file'[Bare(k[1])] = f[Bare(k[1])]
                    /\ f[k] = NoEntry => file'[k] = NoEntry
    BY <1>1, <2>1, PromotedByPromotion, ResultKeepsHolds
  <2> QED BY <2>1 DEF KeepsHolds
<1> QED BY <1>1, RingsInvAlways, PTL DEF Spec, HoldsKept

-----------------------------------------------------------------------------
(***************************************************************************)
(* Pruning.                                                                *)
(***************************************************************************)
\* What is served turns only on the entries of mirrored components.
LEMMA ApplyOfMirrored ==
  ASSUME NEW f \in File, NEW g \in File, NEW m \in Mirror, \A k \in Mirrored(m) : g[k] = f[k]
  PROVE  Apply(g, m) = Apply(f, m)
<1>1. ASSUME NEW ring \in Rings, NEW k \in Key PROVE Apply(g, m)[ring][k] = Apply(f, m)[ring][k]
  BY <1>1 DEF Apply, Mirrored, Listed
<1> QED BY <1>1 DEF Apply

LEMMA PruneKeeps ==
  ASSUME NEW f \in File, NEW m \in Mirror
  PROVE  /\ \A k \in Mirrored(m) : Prune(f, m)[k] = f[k]
         /\ \A k \in Key : Prune(f, m)[k] \in {f[k], NoEntry}
         /\ \A id \in Ids : Unclaimed(Prune(f, m), m, id) = Unclaimed(f, m, id)
         /\ \A id \in IdsOf(Mirrored(m)) :
              HoldsWhole(f, id) \/ Unclaimed(f, m, id) # {} =>
                Prune(f, m)[Bare(id)] = f[Bare(id)]
<1>1. /\ \A k \in Mirrored(m) : Prune(f, m)[k] = f[k]
      /\ \A k \in Key : Prune(f, m)[k] \in {f[k], NoEntry}
  BY PruneType DEF Prune
<1>2. ASSUME NEW id \in Ids PROVE Unclaimed(Prune(f, m), m, id) = Unclaimed(f, m, id)
  BY <1>1, MovedAreMirrored DEF Unclaimed, Listed
<1>3. ASSUME NEW id \in IdsOf(Mirrored(m)), HoldsWhole(f, id) \/ Unclaimed(f, m, id) # {}
      PROVE  Prune(f, m)[Bare(id)] = f[Bare(id)]
  <2>1. id \in Ids /\ Bare(id) \in Key /\ Bare(id)[1] = id
    BY <1>3, KeyParts, MovedAreMirrored DEF IdsOf
  <2>2. Bare(id) \notin Removed(f, m)
    BY <1>3, <2>1 DEF Removed, KeptByPrune
  <2> QED BY <2>1, <2>2 DEF Prune
<1> QED BY <1>1, <1>2, <1>3

LEMMA PruneHolds ==
  ASSUME NEW f \in File, NEW m \in Mirror, NEW k \in Mirrored(m)
  PROVE  /\ HoldsWhole(Prune(f, m), k[1]) <=> HoldsWhole(f, k[1])
         /\ HeldOut(Prune(f, m), k) <=> HeldOut(f, k)
<1>1. k \in Key /\ k[1] \in IdsOf(Mirrored(m)) /\ Bare(k[1]) \in Key
  BY MovedAreMirrored, KeyParts DEF IdsOf
<1>2. HoldsWhole(Prune(f, m), k[1]) <=> HoldsWhole(f, k[1])
  BY <1>1, PruneKeeps DEF HoldsWhole
<1> QED BY <1>2, PruneKeeps DEF HeldOut

\* Adoption comes to the same on a pruned file.
LEMMA PruneAdopts ==
  ASSUME NEW f \in File, NEW m \in Mirror, NEW only, NEW k \in Mirrored(m)
  PROVE  /\ Adopting(Prune(f, m), m, only) = Adopting(f, m, only)
         /\ Adopt(Prune(f, m), m, only)[k] = Adopt(f, m, only)[k]
         /\ HeldOut(Adopt(Prune(f, m), m, only), k) <=> HeldOut(Adopt(f, m, only), k)
<1> DEFINE pruned == Prune(f, m)
<1>1. pruned \in File /\ k \in Key /\ Bare(k[1]) \in Key /\ Bare(k[1])[1] = k[1]
  BY PruneType, MovedAreMirrored, KeyParts
<1>2. ASSUME NEW id \in IdsOf(Mirrored(m))
      PROVE  /\ Unclaimed(pruned, m, id) = Unclaimed(f, m, id)
             /\ Adoptable(pruned, m, id) /\ Unclaimed(f, m, id) # {}
                  <=> Adoptable(f, m, id) /\ Unclaimed(f, m, id) # {}
             /\ Unclaimed(f, m, id) # {} => pruned[Bare(id)] = f[Bare(id)]
  <2>1. id \in Ids /\ Bare(id) \in Key
    BY <1>2, KeyParts, MovedAreMirrored DEF IdsOf
  <2>2. /\ Unclaimed(pruned, m, id) = Unclaimed(f, m, id)
        /\ Unclaimed(f, m, id) # {} => pruned[Bare(id)] = f[Bare(id)]
    BY <2>1, PruneKeeps
  <2>3. Unclaimed(f, m, id) # {} => (Adoptable(pruned, m, id) <=> Adoptable(f, m, id))
    BY <2>1, <2>2 DEF Adoptable, Listed
  <2> QED BY <2>2, <2>3
<1>3. IdsOf(Chosen(m, only)) \subseteq IdsOf(Mirrored(m)) /\ k[1] \in IdsOf(Mirrored(m))
  BY DEF IdsOf, Chosen
<1>4. Adopting(pruned, m, only) = Adopting(f, m, only)
  BY <1>2, <1>3 DEF Adopting
<1>5. pruned[k] = f[k]
  BY PruneKeeps
<1>6. k[1] \in Adopting(f, m, only) => Unclaimed(f, m, k[1]) # {}
  BY DEF Adopting
<1>7. Adopt(pruned, m, only)[k] = Adopt(f, m, only)[k]
  BY <1>1, <1>2, <1>3, <1>4, <1>5, <1>6, AdoptAtKey
<1>8. HoldsWhole(Adopt(pruned, m, only), k[1]) <=> HoldsWhole(Adopt(f, m, only), k[1])
  <2>1. CASE k[1] \in Adopting(f, m, only)
    BY <1>1, <1>4, <2>1, AdoptAtKey DEF HoldsWhole
  <2>2. CASE k[1] \notin Adopting(f, m, only)
    <3>1. /\ Adopt(pruned, m, only)[Bare(k[1])] = pruned[Bare(k[1])]
          /\ Adopt(f, m, only)[Bare(k[1])] = f[Bare(k[1])]
      BY <1>1, <1>4, <2>2, AdoptAtKey
    <3> QED BY <3>1, PruneHolds DEF HoldsWhole
  <2> QED BY <2>1, <2>2
<1> QED BY <1>4, <1>7, <1>8 DEF HeldOut

\* And so does promotion, of whatever ring.
LEMMA PrunePromotes ==
  ASSUME NEW f \in File, NEW m \in Mirror, NEW ring \in Rings, NEW only, NEW k \in Mirrored(m)
  PROVE  Promote(Prune(f, m), m, ring, only)[k] = Promote(f, m, ring, only)[k]
<1> DEFINE pruned == Prune(f, m)
<1>1. pruned \in File /\ k \in Key
  BY PruneType, MovedAreMirrored
<1>2. /\ Adopt(pruned, m, only)[k] = Adopt(f, m, only)[k]
      /\ HeldOut(Adopt(pruned, m, only), k) <=> HeldOut(Adopt(f, m, only), k)
  BY PruneAdopts
<1>3. Target(Adopt(pruned, m, only), m, ring, k) = Target(Adopt(f, m, only), m, ring, k)
  BY <1>2 DEF Target
<1>4. k \in Moved(pruned, m, ring, only) <=> k \in Moved(f, m, ring, only)
  BY <1>2, <1>3 DEF Moved
<1>5. /\ Promote(pruned, m, ring, only)[k] =
           IF k \notin Moved(pruned, m, ring, only) THEN Adopt(pruned, m, only)[k]
           ELSE [hold |-> FALSE,
                 versions |-> [IF Adopt(pruned, m, only)[k] = NoEntry THEN NoVersions
                               ELSE Adopt(pruned, m, only)[k].versions
                               EXCEPT ![ring] = Target(Adopt(pruned, m, only), m, ring, k)]]
      /\ Promote(f, m, ring, only)[k] =
           IF k \notin Moved(f, m, ring, only) THEN Adopt(f, m, only)[k]
           ELSE [hold |-> FALSE,
                 versions |-> [IF Adopt(f, m, only)[k] = NoEntry THEN NoVersions
                               ELSE Adopt(f, m, only)[k].versions
                               EXCEPT ![ring] = Target(Adopt(f, m, only), m, ring, k)]]
  BY <1>1, PromoteAtKey
<1> QED BY <1>2, <1>3, <1>4, <1>5

(***************************************************************************)
(* Pruning removes only entries that make no difference to the mirror the  *)
(* promotion goes by: no ring is served anything else, nothing else is     *)
(* held, and the promotions that follow give the same.  It removes no more *)
(* than half of the entries of the file it read, unless allowed to.        *)
(***************************************************************************)
THEOREM PruneIsHarmlessCorrect == Spec => PruneIsHarmless
<1>1. ASSUME RingsInv, [Next]_vars PROVE [PrunesHarmlessly]_vars
  <2> DEFINE o == promotion.options
             m == promotion.components
             unpruned == Promote(promotion.base, m, o.ring, {})
  <2> SUFFICES ASSUME Promoted, o.prune
               PROVE  /\ Apply(file', m) = Apply(unpruned, m)
                      /\ \A k \in Mirrored(m) : HeldOut(file', k) = HeldOut(unpruned, k)
                      /\ \A ring \in Rings :
                           Apply(Promote(file', m, ring, {}), m)
                             = Apply(Promote(unpruned, m, ring, {}), m)
                      /\ o.allowMassPrune
                         \/ ~(Cardinality(Listed(unpruned) \ Listed(file')) * 2
                                > Cardinality(Listed(promotion.base)))
    BY DEF PrunesHarmlessly
  <2>1. m \in Mirror /\ unpruned \in File /\ file' = Prune(unpruned, m)
    <3>1. m \in Mirror /\ promotion.base \in File /\ o \in Options /\ o.only = {}
      BY <1>1, PromotedByPromotion
    <3>2. file' = Result(promotion.base, m, o)
      BY <1>1, PromotedByPromotion
    <3> QED BY <3>1, <3>2, PromoteType DEF Result, Options
  <2>6. o.allowMassPrune
        \/ ~(Cardinality(Listed(unpruned) \ Listed(file')) * 2
               > Cardinality(Listed(promotion.base)))
    <3>1. o.only = {} /\ ~Refused(promotion.base, m, o)
      BY <1>1, PromotedByPromotion
    <3>2. Listed(unpruned) \ Listed(file') = Removed(unpruned, m)
      BY <2>1 DEF Prune, Listed, Removed
    <3> QED BY <3>1, <3>2 DEF Refused
  <2> HIDE DEF m, unpruned
  <2>2. file' \in File
    BY <2>1, PruneType
  <2>3. Apply(file', m) = Apply(unpruned, m)
    BY <2>1, <2>2, PruneKeeps, ApplyOfMirrored
  <2>4. ASSUME NEW k \in Mirrored(m) PROVE HeldOut(file', k) = HeldOut(unpruned, k)
    <3>1. file'[k] = unpruned[k] /\ (HoldsWhole(file', k[1]) <=> HoldsWhole(unpruned, k[1]))
      BY <2>1, PruneKeeps, PruneHolds
    <3>2. CASE unpruned[k] # NoEntry
      BY <3>1, <3>2 DEF HeldOut
    <3>3. CASE unpruned[k] = NoEntry
      BY <3>1, <3>3 DEF HeldOut, HoldsWhole
    <3> QED BY <3>2, <3>3
  <2>5. ASSUME NEW ring \in Rings
        PROVE  Apply(Promote(file', m, ring, {}), m) = Apply(Promote(unpruned, m, ring, {}), m)
    BY <2>1, <2>2, PromoteType, PrunePromotes, ApplyOfMirrored
  <2> QED BY <2>3, <2>4, <2>5, <2>6
<1> QED BY <1>1, RingsInvAlways, PTL DEF Spec, PruneIsHarmless

-----------------------------------------------------------------------------
(***************************************************************************)
(* Promotions settle.                                                      *)
(***************************************************************************)
\* A file in which nothing is left to adopt.
Adopted(f, m, only) ==
  \A id \in IdsOf(Chosen(m, only)) : Adoptable(f, m, id) => Unclaimed(f, m, id) = {}

LEMMA AdoptedIsSettled ==
  ASSUME NEW f \in File, NEW m \in Mirror, NEW only, Adopted(f, m, only)
  PROVE  ~Ambiguous(f, m, only) /\ Adopt(f, m, only) = f
<1>1. ~Ambiguous(f, m, only)
  <2>1. Cardinality({}) = 0
    BY FS_EmptySet
  <2> QED BY <2>1 DEF Adopted, Ambiguous
<1>2. Adopting(f, m, only) = {}
  BY DEF Adopted, Adopting
<1>3. \A k \in Key : Adopt(f, m, only)[k] = f[k]
  BY <1>2, AdoptAtKey
<1>4. f = [k \in Key |-> f[k]] /\ Adopt(f, m, only) = [k \in Key |-> Adopt(f, m, only)[k]]
  BY DEF File, Adopt
<1> QED BY <1>1, <1>3, <1>4

LEMMA PromoteAdopts ==
  ASSUME NEW f \in File, NEW m \in Mirror, NEW ring \in Rings, NEW only
  PROVE  Adopted(Promote(f, m, ring, only), m, only)
<1> DEFINE promoted == Promote(f, m, ring, only)
           adopted == Adopt(f, m, only)
<1> SUFFICES ASSUME NEW id \in IdsOf(Chosen(m, only)), Adoptable(promoted, m, id),
                    NEW k \in Unclaimed(promoted, m, id)
             PROVE  FALSE
  BY DEF Adopted
<1>1. id \in Ids /\ Bare(id) \in Key /\ Bare(id)[1] = id
  BY KeyParts, MovedAreMirrored DEF IdsOf, Chosen
<1>2. promoted[Bare(id)] = adopted[Bare(id)] /\ Bare(id) \notin Mirrored(m)
      /\ promoted[Bare(id)] # NoEntry /\ ~promoted[Bare(id)].hold
  BY <1>1, PromoteAtKey, MovedAreMirrored DEF Adoptable, Listed
<1>3. id \notin Adopting(f, m, only)
  BY <1>1, <1>2, AdoptAtKey
<1>4. adopted[Bare(id)] = f[Bare(id)]
  BY <1>1, <1>3, AdoptAtKey
<1>5. Adoptable(f, m, id)
  BY <1>1, <1>2, <1>4 DEF Adoptable, Listed
<1>6. k \in Mirrored(m) /\ k \in Key /\ k[1] = id /\ promoted[k] = NoEntry
  BY MovedAreMirrored DEF Unclaimed, Listed
<1>7. k \notin Moved(f, m, ring, only)
  BY <1>6, MovedEntry, NoneAssumption
<1>8. adopted[k] = NoEntry
  BY <1>6, <1>7, PromoteAtKey
<1>9. f[k] = NoEntry
  BY <1>3, <1>6, <1>8, AdoptAtKey
<1>10. k \in Unclaimed(f, m, id)
  BY <1>6, <1>9 DEF Unclaimed, Listed
<1> QED BY <1>3, <1>5, <1>10 DEF Adopting

\* Promoting the promoted again gives every entry what it has.
LEMMA PromoteTwice ==
  ASSUME NEW f \in File, NEW m \in Mirror, NEW ring \in Rings, NEW only
  PROVE  LET promoted == Promote(f, m, ring, only)
         IN Promote(promoted, m, ring, only) = promoted
<1> DEFINE promoted == Promote(f, m, ring, only)
           adopted == Adopt(f, m, only)
<1>1. promoted \in File /\ adopted \in File /\ Adopt(promoted, m, only) = promoted
  BY PromoteType, AdoptType, PromoteAdopts, AdoptedIsSettled
<1>2. ASSUME NEW k \in Moved(promoted, m, ring, only)
      PROVE  /\ promoted[k] \in Entry /\ ~promoted[k].hold
             /\ promoted[k].versions[ring] = Target(promoted, m, ring, k)
  <2>1. k \in Mirrored(m) /\ k \in Key /\ k \in Chosen(m, only)
        /\ ~HeldOut(promoted, k) /\ Target(promoted, m, ring, k) # NoVersion
    BY <1>1, <1>2, MovedAreMirrored DEF Moved
  <2>2. ASSUME k \notin Moved(f, m, ring, only) PROVE FALSE
    <3>1. promoted[k] = adopted[k]
      BY <2>1, <2>2, PromoteAtKey
    <3>2. Target(adopted, m, ring, k) # NoVersion
      BY <2>1, <3>1 DEF Target
    <3>3. HeldOut(adopted, k)
      BY <2>1, <2>2, <3>2 DEF Moved
    <3>4. adopted[k] = NoEntry /\ HoldsWhole(adopted, k[1])
      BY <2>1, <3>1, <3>3 DEF HeldOut
    <3>5. Bare(k[1]) \in Key /\ Bare(k[1])[1] = k[1]
      BY <2>1, KeyParts
    <3>6. Bare(k[1]) \notin Moved(f, m, ring, only)
      BY <3>4 DEF Moved, HeldOut, HoldsWhole
    <3>7. promoted[Bare(k[1])] = adopted[Bare(k[1])]
      BY <3>5, <3>6, PromoteAtKey
    <3> QED BY <2>1, <3>1, <3>4, <3>7 DEF HeldOut, HoldsWhole
  <2>3. /\ promoted[k] \in Entry /\ ~promoted[k].hold
        /\ promoted[k].versions[ring] = Target(adopted, m, ring, k)
        /\ Target(adopted, m, ring, k) # NoVersion
        /\ \A other \in Rings \ {ring} :
             promoted[k].versions[other] =
               IF adopted[k] = NoEntry THEN NoVersion ELSE adopted[k].versions[other]
    BY <2>2, MovedEntry
  <2>4. Target(promoted, m, ring, k) = Target(adopted, m, ring, k)
    <3>1. CASE First(ring)
      BY <3>1 DEF Target
    <3>2. CASE ~First(ring)
      <4>1. adopted[k] # NoEntry /\ promoted[k] # NoEntry
        BY <2>3, <3>2, NoneAssumption DEF Target
      <4>2. promoted[k].versions[Upstream(ring)] = adopted[k].versions[Upstream(ring)]
        BY <2>3, <3>2, <4>1, RingBefore
      <4> QED BY <3>2, <4>1, <4>2 DEF Target
    <3> QED BY <3>1, <3>2
  <2> QED BY <2>3, <2>4
<1>3. ASSUME NEW k \in Key PROVE Promote(promoted, m, ring, only)[k] = promoted[k]
  <2> DEFINE versions == promoted[k].versions
  <2>1. CASE k \in Moved(promoted, m, ring, only)
    <3>1. promoted[k] \in Entry /\ ~promoted[k].hold
          /\ versions[ring] = Target(promoted, m, ring, k)
      BY <1>2, <2>1
    <3>2. promoted[k] # NoEntry
      BY <3>1, NoneAssumption
    <3>3. versions \in [Rings -> Versions \cup {NoVersion}]
          /\ promoted[k] = [hold |-> FALSE, versions |-> versions]
      BY <3>1 DEF Entry
    <3>4. [versions EXCEPT ![ring] = Target(promoted, m, ring, k)] = versions
      BY <3>1, <3>3
    <3>5. Promote(promoted, m, ring, only)[k] =
            [hold |-> FALSE,
             versions |-> [versions EXCEPT ![ring] = Target(promoted, m, ring, k)]]
      BY <1>1, <2>1, <3>2, PromoteAtKey
    <3> QED BY <3>3, <3>4, <3>5
  <2>2. CASE k \notin Moved(promoted, m, ring, only)
    BY <1>1, <2>2, PromoteAtKey
  <2> QED BY <2>1, <2>2
<1>4. Promote(promoted, m, ring, only) = [k \in Key |-> Promote(promoted, m, ring, only)[k]]
      /\ promoted = [k \in Key |-> promoted[k]]
  BY <1>1 DEF Promote, File
<1> QED BY <1>3, <1>4

LEMMA PruneSettles ==
  ASSUME NEW f \in File, NEW m \in Mirror, NEW ring \in Rings, NEW only,
         Adopted(f, m, only), Promote(f, m, ring, only) = f
  PROVE  LET pruned == Prune(f, m)
         IN /\ Adopted(pruned, m, only)
            /\ Promote(pruned, m, ring, only) = pruned
            /\ Prune(pruned, m) = pruned
<1> DEFINE pruned == Prune(f, m)
<1>1. pruned \in File
  BY PruneType
<1>2. Adopted(pruned, m, only)
  <2> SUFFICES ASSUME NEW id \in IdsOf(Chosen(m, only)), Adoptable(pruned, m, id)
               PROVE  Unclaimed(pruned, m, id) = {}
    BY DEF Adopted
  <2>1. id \in Ids /\ Bare(id) \in Key
    BY KeyParts, MovedAreMirrored DEF IdsOf, Chosen
  <2>2. pruned[Bare(id)] = f[Bare(id)] /\ Unclaimed(pruned, m, id) = Unclaimed(f, m, id)
    BY <2>1, PruneKeeps DEF Adoptable, Listed
  <2>3. Adoptable(f, m, id)
    BY <2>1, <2>2 DEF Adoptable, Listed
  <2> QED BY <2>2, <2>3 DEF Adopted
<1>3. Adopt(pruned, m, only) = pruned
  BY <1>1, <1>2, AdoptedIsSettled
<1>4. ASSUME NEW k \in Key PROVE Promote(pruned, m, ring, only)[k] = pruned[k]
  <2>1. CASE k \in Mirrored(m)
    BY <2>1, PrunePromotes, PruneKeeps
  <2>2. CASE k \notin Mirrored(m)
    <3>1. k \notin Moved(pruned, m, ring, only)
      BY <2>2, MovedAreMirrored
    <3>2. Promote(pruned, m, ring, only)[k] = Adopt(pruned, m, only)[k]
      BY <1>1, <3>1, PromoteAtKey
    <3> QED BY <1>3, <3>2
  <2> QED BY <2>1, <2>2
<1>5. Promote(pruned, m, ring, only) = pruned
  BY <1>1, <1>4 DEF Promote, File
<1>6. ASSUME NEW k \in Removed(pruned, m) PROVE FALSE
  <2>1. k \in Key /\ pruned[k] # NoEntry /\ ~KeptByPrune(pruned, m, k)
    BY <1>6 DEF Removed, Listed
  <2>2. k \in Listed(f) /\ KeptByPrune(f, m, k)
    BY <2>1 DEF Prune, Removed, Listed
  <2>3. k[1] \in Ids /\ Unclaimed(pruned, m, k[1]) = Unclaimed(f, m, k[1])
    BY <2>1, KeyParts, PruneKeeps
  <2>4. k[1] \in IdsOf(Mirrored(m)) /\ HoldsWhole(f, k[1]) => HoldsWhole(pruned, k[1])
    BY PruneKeeps DEF HoldsWhole
  <2> QED BY <2>1, <2>2, <2>3, <2>4 DEF KeptByPrune
<1>7. \A k \in Key : Prune(pruned, m)[k] = pruned[k]
  BY <1>6 DEF Prune
<1>8. Prune(pruned, m) = pruned
  BY <1>1, <1>7 DEF Prune, File
<1> QED BY <1>2, <1>5, <1>8

(***************************************************************************)
(* A promotion settles: made again of the same mirror it is not refused as *)
(* ambiguous and changes nothing, so what it adopted or pruned does not    *)
(* lead to another change (Promote, Prune).                                *)
(***************************************************************************)
THEOREM PromotionSettlesCorrect == Spec => PromotionSettles
<1>1. ASSUME RingsInv, [Next]_vars PROVE [Settles]_vars
  <2> DEFINE o == promotion.options
             m == promotion.components
             promoted == Promote(promotion.base, m, o.ring, o.only)
  <2> SUFFICES ASSUME Promoted
               PROVE  ~Ambiguous(file', m, o.only) /\ Result(file', m, o) = file'
    BY DEF Settles
  <2>1. m \in Mirror /\ promotion.base \in File /\ o.ring \in Rings
        /\ file' = Result(promotion.base, m, o)
    BY <1>1, PromotedByPromotion DEF Options
  <2>2. /\ promoted \in File
        /\ Adopted(promoted, m, o.only)
        /\ Promote(promoted, m, o.ring, o.only) = promoted
    BY <2>1, PromoteType, PromoteAdopts, PromoteTwice
  <2> HIDE DEF m, o, promoted
  <2>3. CASE ~o.prune
    <3>1. file' = promoted
      BY <2>1, <2>3 DEF Result, promoted
    <3> QED BY <2>1, <2>2, <2>3, <3>1, AdoptedIsSettled DEF Result
  <2>4. CASE o.prune
    <3>1. file' = Prune(promoted, m)
      BY <2>1, <2>4 DEF Result, promoted
    <3>2. /\ Prune(promoted, m) \in File
          /\ Adopted(file', m, o.only)
          /\ Promote(file', m, o.ring, o.only) = file'
          /\ Prune(file', m) = file'
      BY <2>1, <2>2, <3>1, PruneType, PruneSettles
    <3> QED BY <2>1, <2>4, <3>1, <3>2, AdoptedIsSettled DEF Result
  <2> QED BY <2>3, <2>4
<1> QED BY <1>1, RingsInvAlways, PTL DEF Spec, PromotionSettles

-----------------------------------------------------------------------------
(***************************************************************************)
(* The order of releases.                                                  *)
(***************************************************************************)
LEMMA NewerOrder ==
  /\ \A a, b, c \in Release : Newer(a, b) /\ Newer(b, c) => Newer(a, c)
  /\ \A a, b \in Release : a = b \/ Newer(a, b) \/ Newer(b, a)
  /\ \A a, b \in Release : Newer(a, b) /\ ~Undated(b) => ~Undated(a)
<1>1. \A a \in Release : a.date \in Nat /\ a.tie \in Nat
  BY RingsAssumption
<1>2. \A a, b \in Release : a.date = b.date /\ a.tie = b.tie => a = b
  BY RingsAssumption
<1>3. \A a, b, c \in Release : Newer(a, b) /\ Newer(b, c) => Newer(a, c)
  BY <1>1 DEF Newer
<1>4. \A a, b \in Release : a = b \/ Newer(a, b) \/ Newer(b, a)
  BY <1>1, <1>2 DEF Newer
<1>5. \A a, b \in Release : Newer(a, b) /\ ~Undated(b) => ~Undated(a)
  BY <1>1 DEF Newer, Undated
<1> QED BY <1>3, <1>4, <1>5

\* The release of a version is the newest of it.
LEMMA ReleaseOfNewest ==
  ASSUME NEW releases \in SUBSET Release, NEW version, NEW r \in releases, r.version = version
  PROVE  LET found == ReleaseOf(releases, version)
         IN found \in releases /\ found.version = version /\ (r = found \/ Newer(found, r))
<1> DEFINE matching == {s \in releases : s.version = version}
<1>1. r \in matching /\ matching \in SUBSET Release
  OBVIOUS
<1>2. \E s \in matching : \A t \in matching \ {s} : Newer(s, t)
  BY <1>1, NewestAssumption
<1>3. Newest(matching) \in matching /\ \A t \in matching \ {Newest(matching)} : Newer(Newest(matching), t)
  BY <1>2 DEF Newest
<1>4. ReleaseOf(releases, version) = Newest(matching)
  BY <1>1 DEF ReleaseOf
<1> QED BY <1>1, <1>3, <1>4

\* More releases can only give a version a newer one: a rebuild.
LEMMA ReleaseOfMore ==
  ASSUME NEW releases \in SUBSET Release, NEW more \in SUBSET Release, releases \subseteq more,
         NEW version, ReleaseOf(releases, version) # NoRelease
  PROVE  LET before == ReleaseOf(releases, version)
             after == ReleaseOf(more, version)
         IN /\ before \in Release /\ after \in Release /\ after \in more
            /\ before.version = version /\ after.version = version
            /\ after = before \/ Newer(after, before)
<1>1. ReleaseOf(releases, version) \in releases
      /\ ReleaseOf(releases, version).version = version
  BY ReleaseOfVersion
<1> QED BY <1>1, ReleaseOfNewest

LEMMA KnownNewerAfterRebuild ==
  ASSUME NEW i \in Release, NEW before \in Release, NEW after \in Release,
         before = i \/ KnownNewer(before, i),
         after.version = before.version, after = before \/ Newer(after, before)
  PROVE  after = i \/ KnownNewer(after, i)
BY NewerOrder DEF KnownNewer

-----------------------------------------------------------------------------
(***************************************************************************)
(* Hosts.  What an unexcused host runs is the newest release of its        *)
(* version, and what the file serves it, or the definitions a refresh      *)
(* started with did, is that or known to be newer.                         *)
(***************************************************************************)
AheadOf(f, h, k) ==
  LET release == ReleaseOf(mirror[k], f[k].versions[h])
  IN /\ f[k] # NoEntry
     /\ release # NoRelease
     /\ release = installed[h][k] \/ KnownNewer(release, installed[h][k])

HostInv(h, k) ==
  installed[h][k] # NoRelease /\ <<h, k>> \notin excused =>
    /\ ReleaseOf(mirror[k], installed[h][k].version) = installed[h][k]
    /\ AheadOf(file, h, k) /\ ~file[k].hold
    /\ refresh # NoRefresh => AheadOf(refresh, h, k)

HostsInv == RingsInv /\ \A h \in deployment.hosts, k \in Key : HostInv(h, k)

LEMMA HostsInvInit == Init => HostsInv
BY RingsInvInit DEF Init, HostsInv, HostInv

\* What a publish serves a host, by either definitions.
LEMMA PublishServes ==
  ASSUME RingsInv, NEW h \in deployment.hosts, NEW k \in Key, HostInv(h, k),
         installed[h][k] # NoRelease, <<h, k>> \notin excused,
         NEW more \in Mirror, mirror[k] \subseteq more[k],
         NEW f \in File, AheadOf(f, h, k)
  PROVE  LET release == ReleaseOf(more[k], f[k].versions[h])
         IN /\ release \in Release /\ release \in more[k]
            /\ release.version = f[k].versions[h]
            /\ release = installed[h][k] \/ KnownNewer(release, installed[h][k])
            /\ Apply(f, more)[h][k] = IF f[k].hold THEN NoRelease ELSE release
<1> DEFINE before == ReleaseOf(mirror[k], f[k].versions[h])
           release == ReleaseOf(more[k], f[k].versions[h])
<1>1. mirror[k] \in SUBSET Release /\ more[k] \in SUBSET Release /\ h \in Rings
      /\ installed[h][k] \in Release
  BY HostsAreRings DEF RingsInv, TypeOK, Mirror
<1>2. /\ before \in Release /\ release \in Release /\ release \in more[k]
      /\ before.version = f[k].versions[h] /\ release.version = f[k].versions[h]
      /\ release = before \/ Newer(release, before)
  BY <1>1, ReleaseOfMore DEF AheadOf
<1>3. release = installed[h][k] \/ KnownNewer(release, installed[h][k])
  BY <1>1, <1>2, KnownNewerAfterRebuild DEF AheadOf
<1>4. k \in Mirrored(more) \cap Listed(f)
  BY <1>2 DEF AheadOf, Mirrored, Listed
<1>5. Apply(f, more)[h][k] = ReleaseOf(more[k], Served(f[k], h))
  BY <1>1, <1>4 DEF Apply
<1>6. ReleaseOf(more[k], NoVersion) = NoRelease
  BY <1>1, NothingOfNoVersion
<1> QED BY <1>2, <1>3, <1>5, <1>6 DEF Served

LEMMA PublishKeepsHost ==
  ASSUME RingsInv, NEW h \in deployment.hosts, NEW k \in Key, HostInv(h, k),
         NEW c \in Key, NEW force, NEW gained \in SUBSET Release,
         [Next]_vars, Publish(c, gained, force)
  PROVE  HostInv(h, k)'
<1> SUFFICES ASSUME installed'[h][k] # NoRelease, <<h, k>> \notin excused'
             PROVE  /\ ReleaseOf(mirror'[k], installed'[h][k].version) = installed'[h][k]
                    /\ AheadOf(file, h, k)' /\ ~file'[k].hold
                    /\ refresh' = NoRefresh
  BY DEF HostInv
<1>1. PICK definitions \in {file, refresh} :
        /\ served' = Apply(definitions, mirror')
        /\ Excuse({p \in deployment.hosts \X Key : definitions[p[2]] # file[p[2]]})
  BY DEF Publish
<1>2. /\ file \in File /\ definitions \in File /\ mirror' \in Mirror /\ h \in Rings
      /\ mirror[k] \subseteq mirror'[k] /\ mirror'[k] \in SUBSET Release
      /\ file' = file /\ refresh' = NoRefresh
      /\ installed'[h][k] = IF served'[h][k] = NoRelease THEN installed[h][k] ELSE served'[h][k]
  <2>1. mirror' \in Mirror
    BY TypeStep DEF TypeOK
  <2>2. mirror[k] \subseteq mirror'[k]
    BY DEF Publish, RingsInv, TypeOK, Mirror
  <2> QED BY <2>1, <2>2, HostsAreRings DEF Publish, RingsInv, TypeOK, Mirror
<1>3. <<h, k>> \notin excused /\ definitions[k] = file[k]
  BY <1>1 DEF Excuse
<1>4. served'[h][k] = Apply(file, mirror')[h][k]
  BY <1>1, <1>2, <1>3 DEF Apply, Listed
<1> DEFINE release == ReleaseOf(mirror'[k], file[k].versions[h])
<1>5. /\ installed'[h][k] = release /\ release # NoRelease
      /\ release.version = file[k].versions[h]
      /\ file[k] # NoEntry /\ ~file[k].hold
  <2>1. CASE installed[h][k] # NoRelease
    <3>1. AheadOf(file, h, k) /\ ~file[k].hold
      BY <1>3, <2>1 DEF HostInv
    <3>2. /\ release \in Release /\ release.version = file[k].versions[h]
          /\ served'[h][k] = release
      BY <1>2, <1>3, <1>4, <2>1, <3>1, PublishServes
    <3> QED BY <1>2, <3>1, <3>2, NoneAssumption DEF AheadOf
  <2>2. CASE installed[h][k] = NoRelease
    <3>1. installed'[h][k] = served'[h][k] /\ served'[h][k] # NoRelease
      BY <1>2, <2>2
    <3>2. /\ k \in Listed(file)
          /\ served'[h][k] = ReleaseOf(mirror'[k], Served(file[k], h))
      BY <1>2, <1>4, <3>1 DEF Apply
    <3>3. Served(file[k], h) # NoVersion
      BY <1>2, <3>1, <3>2, NothingOfNoVersion
    <3>4. ~file[k].hold /\ served'[h][k] = release
      BY <3>2, <3>3 DEF Served
    <3> QED BY <1>2, <3>1, <3>2, <3>4, ReleaseOfVersion DEF Listed
  <2> QED BY <2>1, <2>2
<1> QED BY <1>2, <1>5 DEF AheadOf

\* A promotion that is neither stale nor allowed to downgrade moves an entry to a
\* release known to be newer, from one the mirror has.
LEMMA PromotionMovesForward ==
  ASSUME NEW f \in File, NEW m \in Mirror, NEW o \in Options,
         ~Refused(f, m, o), ~o.allowDowngrade,
         NEW h \in Rings, NEW k \in Mirrored(m), f[k] # NoEntry, ~f[k].hold,
         ReleaseOf(m[k], f[k].versions[h]) # NoRelease
  PROVE  LET from == f[k].versions[h]
             to == Result(f, m, o)[k].versions[h]
         IN /\ Result(f, m, o)[k] # NoEntry /\ ~Result(f, m, o)[k].hold
            /\ ReleaseOf(m[k], to) # NoRelease
            /\ to # from =>
                 LET first == ReleaseOf(m[k], to)
                     second == ReleaseOf(m[k], from)
                 IN Newer(first, second) /\ ~Undated(first) /\ ~Undated(second)
<1> DEFINE from == f[k].versions[h]
           to == Result(f, m, o)[k].versions[h]
           first == ReleaseOf(m[k], to)
           second == ReleaseOf(m[k], from)
           promoted == Promote(f, m, o.ring, o.only)
           adopted == Adopt(f, m, o.only)
<1>1. Result(f, m, o)[k] # NoEntry /\ ~Result(f, m, o)[k].hold /\ first # NoRelease
  <2>1. m[k] \in SUBSET Release /\ m[k] \subseteq m[k]
    BY MovedAreMirrored DEF Mirror
  <2> QED BY <2>1, ResultKeepsTags
<1>2. ASSUME to # from PROVE Newer(first, second) /\ ~Undated(first) /\ ~Undated(second)
  <2>1. k \in Key /\ m[k] \in SUBSET Release /\ o.ring \in Rings
    BY MovedAreMirrored DEF Mirror, Options
  <2>2. adopted[k] = f[k] /\ Result(f, m, o)[k] = promoted[k]
    BY AdoptLeaves, ResultType
  <2>3. k \in Moved(f, m, o.ring, o.only)
    BY <1>2, <2>1, <2>2, PromoteAtKey
  <2>4. h = o.ring
    BY <1>2, <2>1, <2>2, <2>3, MovedEntry
  <2>5. Current(promoted, o.ring, k) = to /\ Current(adopted, o.ring, k) = from
    BY <1>1, <2>2, <2>4 DEF Current
  <2>6. k \in Changes(f, m, o.ring, o.only)
    BY <1>2, <2>3, <2>5 DEF Changes, Moved
  <2>7. ~MovesBackwards(m[k], to, from)
    BY <2>5, <2>6 DEF Refused, Downgrades
  <2>8. from # NoVersion
    BY <2>1, NothingOfNoVersion
  <2>9. /\ first \in Release /\ second \in Release
        /\ first.version = to /\ second.version = from
    BY <1>1, <2>1, ReleaseOfVersion
  <2>10. ~Undated(first) /\ ~Undated(second) /\ ~Newer(second, first)
    BY <1>1, <2>7, <2>8 DEF MovesBackwards
  <2> QED BY <1>2, <2>9, <2>10, NewerOrder
<1> QED BY <1>1, <1>2

LEMMA PromotionKeepsHost ==
  ASSUME RingsInv, NEW h \in deployment.hosts, NEW k \in Key, HostInv(h, k), PromoteWrites
  PROVE  HostInv(h, k)'
<1> DEFINE o == promotion.options
           i == installed[h][k]
<1> SUFFICES ASSUME i # NoRelease, <<h, k>> \notin excused'
             PROVE  HostInv(h, k)'
  BY DEF PromoteWrites, HostInv
<1>1. /\ file' = Result(promotion.base, promotion.components, o)
      /\ ~Refused(promotion.base, promotion.components, o)
      /\ UNCHANGED <<mirror, refresh, installed>>
      /\ <<h, k>> \notin excused
      /\ o.allowDowngrade \/ ~Fresh => file'[k] = file[k]
  BY DEF PromoteWrites, Excuse
<1>2. /\ ReleaseOf(mirror[k], i.version) = i
      /\ AheadOf(file, h, k) /\ ~file[k].hold
      /\ refresh # NoRefresh => AheadOf(refresh, h, k)
  BY <1>1 DEF HostInv
<1>3. CASE file'[k] = file[k]
  BY <1>1, <1>2, <1>3 DEF HostInv, AheadOf
<1>4. CASE ~o.allowDowngrade /\ Fresh
  <2>1. /\ file \in File /\ mirror \in Mirror /\ o \in Options /\ h \in Rings
        /\ mirror[k] \in SUBSET Release /\ i \in Release
    BY PromotionRead, HostsAreRings DEF RingsInv, TypeOK, Mirror, PromoteWrites
  <2> DEFINE first == ReleaseOf(mirror[k], file'[k].versions[h])
             second == ReleaseOf(mirror[k], file[k].versions[h])
  <2>2. second \in Release /\ second \in mirror[k] /\ second.version = file[k].versions[h]
        /\ k \in Mirrored(mirror)
    BY <1>2, <2>1, ReleaseOfVersion DEF AheadOf, Mirrored
  <2>3. /\ file'[k] # NoEntry /\ ~file'[k].hold
        /\ first # NoRelease
        /\ file'[k].versions[h] # file[k].versions[h] =>
             Newer(first, second) /\ ~Undated(first) /\ ~Undated(second)
    BY <1>1, <1>2, <1>4, <2>1, <2>2, PromotionMovesForward DEF Fresh, AheadOf
  <2>4. first \in Release
    BY <2>1, <2>3, ReleaseOfVersion
  <2>5. second = i \/ (Newer(second, i) /\ ~Undated(second) /\ ~Undated(i))
    BY <1>2, <2>2 DEF AheadOf, KnownNewer
  <2>6. first = i \/ KnownNewer(first, i)
    <3>1. CASE file'[k].versions[h] = file[k].versions[h]
      BY <1>2, <3>1 DEF AheadOf
    <3>2. CASE file'[k].versions[h] # file[k].versions[h]
      BY <2>1, <2>2, <2>3, <2>4, <2>5, <3>2, NewerOrder DEF KnownNewer
    <3> QED BY <3>1, <3>2
  <2>7. AheadOf(file, h, k)' /\ ~file'[k].hold
    BY <1>1, <2>3, <2>6 DEF AheadOf
  <2> QED BY <1>1, <1>2, <2>7 DEF HostInv, AheadOf
<1> QED BY <1>1, <1>3, <1>4

LEMMA HostsStep == ASSUME HostsInv, [Next]_vars PROVE HostsInv'
<1> SUFFICES ASSUME NEW h \in deployment.hosts, NEW k \in Key PROVE HostInv(h, k)'
  BY RingsStep, Steps DEF HostsInv
<1>0. RingsInv /\ HostInv(h, k) /\ file \in File /\ mirror \in Mirror
  BY DEF HostsInv, RingsInv, TypeOK
<1>1. CASE UNCHANGED <<file, mirror, installed, excused>> /\ refresh' \in {refresh, NoRefresh, file}
  BY <1>0, <1>1 DEF HostInv, AheadOf
<1>2. CASE PromoteWrites
  BY <1>0, <1>2, PromotionKeepsHost
<1>3. ASSUME NEW c \in Key, NEW force, NEW gained \in SUBSET Release,
             Publish(c, gained, force)
      PROVE  HostInv(h, k)'
  BY <1>0, <1>3, PublishKeepsHost
<1>4. ASSUME NEW c \in Key, EditHold(c) PROVE HostInv(h, k)'
  <2>1. /\ excused' = excused \cup {p \in deployment.hosts \X Key : p[2][1] = c[1]}
        /\ k # c => file'[k] = file[k]
        /\ UNCHANGED <<mirror, refresh, installed>>
    BY <1>0, <1>4 DEF EditHold, Excuse, File
  <2>2. CASE k[1] = c[1]
    BY <2>1, <2>2 DEF HostInv
  <2>3. CASE k[1] # c[1]
    BY <1>0, <2>1, <2>3 DEF HostInv, AheadOf
  <2> QED BY <2>2, <2>3
<1>5. ASSUME NEW c \in Key, NEW r \in Release, Withdraw(c, r) PROVE HostInv(h, k)'
  <2>1. /\ excused' = excused \cup (deployment.hosts \X {c})
        /\ k # c => mirror'[k] = mirror[k]
        /\ UNCHANGED <<file, refresh, installed>>
    BY <1>0, <1>5 DEF Withdraw, Excuse, Mirror
  <2>2. CASE k = c
    BY <2>1, <2>2 DEF HostInv
  <2>3. CASE k # c
    BY <1>0, <2>1, <2>3 DEF HostInv, AheadOf
  <2> QED BY <2>2, <2>3
<1> QED
  BY <1>0, <1>1, <1>2, <1>3, <1>4, <1>5, Steps
  DEF PromoteReadsFile, PromoteReadsMirror, PromoteEnds, RefreshStarts, RefreshEnds, vars, history

LEMMA HostsInvAlways == Spec => []HostsInv
BY HostsInvInit, HostsStep, PTL DEF Spec

(***************************************************************************)
(* `fwupdmgr sync' never moves a host to a release not known to be newer   *)
(* unless it is excused: whatever rebuilds and undated releases appear,    *)
(* and whichever definitions a publish goes by (movesBackwards, the        *)
(* refusal of a promotion without --allow-downgrade).                      *)
(***************************************************************************)
THEOREM HostsMoveForwardCorrect == Spec => HostsMoveForward
<1>1. ASSUME HostsInv, [Next]_vars PROVE [MovesHostsForward]_vars
  <2> SUFFICES ASSUME NEW h \in deployment.hosts, NEW k \in Key,
                      installed[h][k] # NoRelease, installed'[h][k] # installed[h][k],
                      <<h, k>> \notin excused
               PROVE  KnownNewer(installed'[h][k], installed[h][k])
    BY DEF MovesHostsForward
  <2>1. PICK c \in Key, gained \in SUBSET Release : \E force : Publish(c, gained, force)
    BY <1>1, Steps
    DEF HostsInv, PromoteReadsFile, PromoteReadsMirror, PromoteWrites, PromoteEnds, RefreshStarts,
        RefreshEnds, EditHold, Withdraw, vars, history
  <2>2. PICK definitions \in {file, refresh} : served' = Apply(definitions, mirror')
    BY <2>1 DEF Publish
  <2>3. /\ RingsInv /\ HostInv(h, k)
        /\ definitions \in File /\ AheadOf(definitions, h, k)
        /\ mirror' \in Mirror /\ mirror[k] \subseteq mirror'[k]
    <3>1. RingsInv /\ HostInv(h, k) /\ mirror' \in Mirror
      BY <1>1, TypeStep DEF HostsInv, TypeOK
    <3>2. refresh # NoRefresh /\ file \in File /\ refresh \in File
      BY <2>1, <3>1 DEF Publish, RingsInv, TypeOK
    <3>3. mirror[k] \subseteq mirror'[k]
      BY <2>1, <3>1 DEF Publish, RingsInv, TypeOK, Mirror
    <3> QED BY <2>2, <3>1, <3>2, <3>3 DEF HostInv
  <2>4. installed'[h][k] = served'[h][k] /\ served'[h][k] # NoRelease
    BY <2>1 DEF Publish
  <2> QED BY <2>2, <2>3, <2>4, PublishServes
<1> QED BY <1>1, HostsInvAlways, PTL DEF Spec, HostsMoveForward
=============================================================================
