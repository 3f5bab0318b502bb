-------------------------------- MODULE Rings --------------------------------
(***************************************************************************)
(* The rollout rings: the definitions file, the promotions that edit it,   *)
(* and the refreshes that tag the releases of the mirror as it says.       *)
(*                                                                         *)
(* A promotion (cmd.runBKCPromote) reads the file, then the mirrored       *)
(* components, and writes the file back whole.  A refresh reads the file   *)
(* when it starts and again before it publishes.  Nothing orders the two,  *)
(* nor the edits made by hand.                                             *)
(***************************************************************************)
EXTENDS Naturals, Sequences, FiniteSets

CONSTANTS
  Ids,            \* component IDs
  Platforms,      \* digests of GUIDs, NoPlatform included
  NoPlatform,     \* the platform of a component, or an entry, that has none
  Versions,       \* release versions
  Release,        \* the releases a vendor can publish
  RingOrder,      \* the rings, in promotion order
  Deployments,    \* where firmirror is used, see below
  MaxEdits,       \* bound on edits by hand and releases withdrawn
  NoVersion, NoRelease, NoEntry, NoPromotion, NotRead, NoRefresh

Rings == {RingOrder[i] : i \in 1 .. Len(RingOrder)}

(***************************************************************************)
(* A component is told by its ID and platform, and so is an entry.  A      *)
(* release with the date 0 has none; `tie' is the rest of the order of     *)
(* compareReleases.                                                        *)
(***************************************************************************)
Key == Ids \X Platforms

Mirror == [Key -> SUBSET Release]

Entry == [hold : BOOLEAN, versions : [Rings -> Versions \cup {NoVersion}]]

File == [Key -> Entry \cup {NoEntry}]

Options == [ring : Rings, only : SUBSET Ids, allowDowngrade : BOOLEAN,
            prune : BOOLEAN, allowMassPrune : BOOLEAN]

(***************************************************************************)
(* A deployment: the components it mirrors and has entries edited of, the  *)
(* releases their vendor publishes, the rings on which a host is followed, *)
(* what the definitions file can say at first, the options that            *)
(* `bkc promote' is given, and whether publishes are forced.               *)
(***************************************************************************)
Deployment ==
  [components : SUBSET Key, releases : SUBSET Release, hosts : SUBSET Rings,
   files : SUBSET File, options : SUBSET {o \in Options : o.prune => o.only = {}},
   forces : SUBSET BOOLEAN]

ASSUME RingsAssumption ==
  /\ RingOrder \in Seq(Rings) /\ RingOrder # <<>>
  /\ \A i, j \in 1 .. Len(RingOrder) : i # j => RingOrder[i] # RingOrder[j]
  /\ NoPlatform \in Platforms
  /\ Release \subseteq [version : Versions, date : Nat, tie : Nat]
  /\ \A r, s \in Release : r.date = s.date /\ r.tie = s.tie => r = s
  /\ Deployments \subseteq Deployment
  /\ MaxEdits \in Nat

ASSUME NoneAssumption ==
  /\ NoVersion \notin Versions
  /\ NoRelease \notin Release
  /\ NoEntry \notin Entry
  /\ NotRead \notin Mirror
  /\ NoRefresh \notin File

VARIABLES
  deployment, \* where all of it happens
  file,       \* the definitions file
  mirror,     \* the components of the published metadata
  served,     \* the release each ring's tag is on, of each component
  promotion,  \* the promotion under way: its options and what it has read
  refresh,    \* the definitions the refresh under way started with
  installed,  \* what the followed hosts run: the last release served to them
  excused,    \* <<host, component>> whose moves nothing of the code vouches for
  edited,     \* whether the file or the mirror changed in such a way
  edits       \* how many edits by hand and withdrawals there were

history == <<installed, excused, edited, edits>>
vars    == <<deployment, file, mirror, served, promotion, refresh, history>>

(***************************************************************************)
(* Releases.                                                               *)
(***************************************************************************)
Newer(a, b) == a.date > b.date \/ (a.date = b.date /\ a.tie < b.tie)

\* No two releases are told apart by neither date nor tie, and a component has finitely
\* many, so one of them is the newest.
ASSUME NewestAssumption ==
  \A releases \in (SUBSET Release) \ {{}} :
    \E r \in releases : \A s \in releases \ {r} : Newer(r, s)

Newest(releases) == CHOOSE r \in releases : \A s \in releases \ {r} : Newer(r, s)

\* The newest release of a version: a rebuild takes over from what it rebuilds.
ReleaseOf(releases, version) ==
  LET matching == {r \in releases : r.version = version}
  IN IF matching = {} THEN NoRelease ELSE Newest(matching)

Undated(r) == r.date = 0

\* Slip: an undated release is placed by the order, as the oldest.
MovesBackwardsByOrder(releases, to, from) ==
  /\ from # NoVersion
  /\ LET first == ReleaseOf(releases, to)
         second == ReleaseOf(releases, from)
     IN /\ first # NoRelease
        /\ \/ second = NoRelease /\ Newest(releases).version # to
           \/ second # NoRelease /\ Newer(second, first)

MovesBackwards(releases, to, from) ==
  /\ from # NoVersion
  /\ LET first == ReleaseOf(releases, to)
         second == ReleaseOf(releases, from)
     IN /\ first # NoRelease
        /\ \/ second = NoRelease /\ Newest(releases).version # to
           \/ second # NoRelease
              /\ (Undated(second) \/ Undated(first) \/ Newer(second, first))

(***************************************************************************)
(* Entries and the components they are about.                              *)
(***************************************************************************)
Listed(f) == {k \in Key : f[k] # NoEntry}

Mirrored(m) == {k \in Key : m[k] # {}}

IdsOf(keys) == {k[1] : k \in keys}

Bare(id) == <<id, NoPlatform>>

HoldsWhole(f, id) == f[Bare(id)] # NoEntry /\ f[Bare(id)].hold

\* The mirrored components of an ID that no entry is about.
Unclaimed(f, m, id) == {k \in Mirrored(m) \ Listed(f) : k[1] = id}

\* The entry without a platform can be given the one of a mirrored component.
Adoptable(f, m, id) ==
  Bare(id) \in Listed(f) \ Mirrored(m) /\ ~f[Bare(id)].hold

Served(entry, ring) ==
  IF entry.hold THEN NoVersion ELSE entry.versions[ring]

Serves(f, ring) == \E k \in Listed(f) : Served(f[k], ring) # NoVersion

\* What every ring is served of every component: where Apply puts its tag.
Apply(f, m) ==
  [ring \in Rings |-> [k \in Key |->
     IF k \notin Mirrored(m) \cap Listed(f) THEN NoRelease
     ELSE ReleaseOf(m[k], Served(f[k], ring))]]

\* A component that is held out of every ring and of promotions.
HeldOut(f, k) ==
  IF f[k] # NoEntry THEN f[k].hold ELSE HoldsWhole(f, k[1])

(***************************************************************************)
(* Promote: what the promotion of one ring, for some IDs, makes of a file. *)
(***************************************************************************)
NoVersions == [ring \in Rings |-> NoVersion]

First(ring) == ring = RingOrder[1]

Upstream(ring) ==
  CHOOSE up \in Rings :
    \E i \in 1 .. Len(RingOrder) - 1 : RingOrder[i] = up /\ RingOrder[i + 1] = ring

Chosen(m, only) ==
  {k \in Mirrored(m) : only = {} \/ k[1] \in only}

Ambiguous(f, m, only) ==
  \E id \in IdsOf(Chosen(m, only)) :
    Adoptable(f, m, id) /\ Cardinality(Unclaimed(f, m, id)) > 1

\* The entries a promotion gives the platform of the only component left.
Adopting(f, m, only) ==
  {id \in IdsOf(Chosen(m, only)) : Adoptable(f, m, id) /\ Unclaimed(f, m, id) # {}}

Adopt(f, m, only) ==
  LET ids == Adopting(f, m, only)
  IN [k \in Key |->
        IF k[1] \notin ids THEN f[k]
        ELSE IF k = Bare(k[1]) THEN NoEntry
        ELSE IF k \in Unclaimed(f, m, k[1]) THEN f[Bare(k[1])]
        ELSE f[k]]

\* Slip: the newest release itself, and not its version.
TargetRelease(f, m, ring, k) ==
  IF First(ring) THEN Newest(m[k])
  ELSE IF f[k] = NoEntry THEN NoVersion ELSE f[k].versions[Upstream(ring)]

Target(f, m, ring, k) ==
  IF First(ring) THEN Newest(m[k]).version
  ELSE IF f[k] = NoEntry THEN NoVersion
  ELSE LET version == f[k].versions[Upstream(ring)]
       IN IF ReleaseOf(m[k], version) = NoRelease THEN NoVersion ELSE version

\* Slip: the ring before is looked up before the entry is adopted.
PromoteLookingUpFirst(f, m, ring, only) ==
  LET adopted == Adopt(f, m, only)
      moved == {k \in Chosen(m, only) :
                  ~HeldOut(adopted, k) /\ Target(f, m, ring, k) # NoVersion}
  IN [k \in Key |->
        IF k \notin moved THEN adopted[k]
        ELSE [hold |-> FALSE,
              versions |-> [IF adopted[k] = NoEntry THEN NoVersions ELSE adopted[k].versions
                            EXCEPT ![ring] = Target(f, m, ring, k)]]]

\* Slip: an entry that is promoted loses what it names for the other rings.
PromoteAfresh(f, m, ring, only) ==
  LET adopted == Adopt(f, m, only)
      moved == {k \in Chosen(m, only) :
                  ~HeldOut(adopted, k) /\ Target(adopted, m, ring, k) # NoVersion}
  IN [k \in Key |->
        IF k \notin moved THEN adopted[k]
        ELSE [hold |-> FALSE,
              versions |-> [NoVersions EXCEPT ![ring] = Target(adopted, m, ring, k)]]]

Promote(f, m, ring, only) ==
  LET adopted == Adopt(f, m, only)
      moved == {k \in Chosen(m, only) :
                  ~HeldOut(adopted, k) /\ Target(adopted, m, ring, k) # NoVersion}
  IN [k \in Key |->
        IF k \notin moved THEN adopted[k]
        ELSE [hold |-> FALSE,
              versions |-> [IF adopted[k] = NoEntry THEN NoVersions ELSE adopted[k].versions
                            EXCEPT ![ring] = Target(adopted, m, ring, k)]]]

Current(f, ring, k) == IF f[k] = NoEntry THEN NoVersion ELSE f[k].versions[ring]

Changes(f, m, ring, only) ==
  LET adopted == Adopt(f, m, only)
      promoted == Promote(f, m, ring, only)
  IN {k \in Chosen(m, only) : Current(promoted, ring, k) # Current(adopted, ring, k)}

Downgrades(f, m, ring, only) ==
  {k \in Changes(f, m, ring, only) :
     MovesBackwards(m[k], Current(Promote(f, m, ring, only), ring, k),
                    Current(Adopt(f, m, only), ring, k))}

\* Slip: an entry that holds its ID whole goes when no component is left to it.
KeptByPruneUnlessAllListed(f, m, k) ==
  \/ k \in Mirrored(m)
  \/ k = Bare(k[1]) /\ Unclaimed(f, m, k[1]) # {}

KeptByPrune(f, m, k) ==
  \/ k \in Mirrored(m)
  \/ k = Bare(k[1]) /\ Unclaimed(f, m, k[1]) # {}
  \/ k = Bare(k[1]) /\ HoldsWhole(f, k[1]) /\ k[1] \in IdsOf(Mirrored(m))

Removed(f, m) == {k \in Listed(f) : ~KeptByPrune(f, m, k)}

Prune(f, m) == [k \in Key |-> IF k \in Removed(f, m) THEN NoEntry ELSE f[k]]

Result(f, m, o) ==
  LET promoted == Promote(f, m, o.ring, o.only)
  IN IF o.prune THEN Prune(promoted, m) ELSE promoted

\* Slip: the half that may be removed is of the entries there are after the promotion.
RefusedByTheResult(f, m, o) ==
  LET promoted == Promote(f, m, o.ring, o.only)
  IN \/ ~(o.only \subseteq IdsOf(Mirrored(m)))
     \/ Ambiguous(f, m, o.only)
     \/ /\ o.prune /\ ~o.allowMassPrune
        /\ Cardinality(Removed(promoted, m)) * 2 > Cardinality(Listed(promoted))
     \/ ~o.allowDowngrade /\ Downgrades(f, m, o.ring, o.only) # {}

\* What runBKCPromote refuses to write.
Refused(f, m, o) ==
  \/ ~(o.only \subseteq IdsOf(Mirrored(m)))
  \/ Ambiguous(f, m, o.only)
  \/ /\ o.prune /\ ~o.allowMassPrune
     /\ Cardinality(Removed(Promote(f, m, o.ring, o.only), m)) * 2 > Cardinality(Listed(f))
  \/ ~o.allowDowngrade /\ Downgrades(f, m, o.ring, o.only) # {}

(***************************************************************************)
(* What a publish checks of the tags (checkTags).                          *)
(***************************************************************************)
Tags(s) == {ring \in Rings : \E k \in Key : s[ring][k] # NoRelease}

CheckTags(f, m) ==
  /\ Tags(served) \subseteq {ring \in Rings : Serves(f, ring)}
  /\ Tags(served) # {} => Tags(Apply(f, m)) # {}

(***************************************************************************)
(* Steps.                                                                  *)
(***************************************************************************)
Excuse(pairs) == excused' = excused \cup pairs

PromoteReadsFile(o) ==
  /\ promotion = NoPromotion
  /\ promotion' = [options |-> o, base |-> file, components |-> NotRead]
  /\ UNCHANGED <<file, mirror, served, refresh, history>>

\* The components of the published metadata, without which there is no promotion.
PromoteReadsMirror ==
  /\ promotion # NoPromotion
  /\ promotion.components = NotRead
  /\ Mirrored(mirror) # {}
  /\ promotion' = [promotion EXCEPT !.components = mirror]
  /\ UNCHANGED <<file, mirror, served, refresh, history>>

\* What the promotion read is still what there is.
Fresh == promotion.base = file /\ promotion.components = mirror

\* Something overtook it: an edit of the entry of a mirrored component, the withdrawal of
\* a release, or the first publish of a component whose entry it prunes or has adopted.
Overtaken ==
  \/ \E k \in Mirrored(mirror) : promotion.base[k] # file[k]
  \/ \E k \in Key : ~(promotion.components[k] \subseteq mirror[k])
  \/ \E k \in Mirrored(mirror) \ Mirrored(promotion.components) :
       file[k] # NoEntry /\ file'[k] = NoEntry

PromoteWrites ==
  /\ promotion # NoPromotion
  /\ promotion.components # NotRead
  /\ LET o == promotion.options
         f == promotion.base
         m == promotion.components
     IN /\ ~Refused(f, m, o)
        /\ Result(f, m, o) # f
        /\ file' = Result(f, m, o)
        /\ IF o.allowDowngrade \/ ~Fresh
           THEN Excuse({p \in deployment.hosts \X Key : file'[p[2]] # file[p[2]]})
           ELSE UNCHANGED excused
        /\ edited' = (edited \/ Overtaken)
  /\ promotion' = NoPromotion
  /\ UNCHANGED <<mirror, served, refresh, installed, edits>>

\* It is refused, has nothing to promote, is a dry run, or is ended.
PromoteEnds ==
  /\ promotion # NoPromotion
  /\ promotion' = NoPromotion
  /\ UNCHANGED <<file, mirror, served, refresh, history>>

RefreshStarts ==
  /\ refresh = NoRefresh
  /\ refresh' = file
  /\ UNCHANGED <<file, mirror, served, promotion, history>>

\* A refresh publishes with the definitions read again, or with those it started
\* with; a regeneration with the latter, and nothing new.
Publish(k, gained, force) ==
  /\ refresh # NoRefresh
  /\ mirror' = [mirror EXCEPT ![k] = @ \cup gained]
  /\ \E definitions \in {file, refresh} :
       /\ force \/ CheckTags(definitions, mirror')
       /\ served' = Apply(definitions, mirror')
       /\ edited' = (definitions # file)
       /\ Excuse({p \in deployment.hosts \X Key : definitions[p[2]] # file[p[2]]})
  /\ installed' = [h \in deployment.hosts |-> [c \in Key |->
                     IF served'[h][c] = NoRelease THEN installed[h][c] ELSE served'[h][c]]]
  /\ refresh' = NoRefresh
  /\ UNCHANGED <<file, promotion, edits>>

\* It is refused, or ends before it publishes.
RefreshEnds ==
  /\ refresh # NoRefresh
  /\ refresh' = NoRefresh
  /\ UNCHANGED <<file, mirror, served, promotion, history>>

\* Someone puts an entry on hold, or takes it off.
EditHold(k) ==
  /\ edits < MaxEdits
  /\ file' = IF file[k] = NoEntry
             THEN [file EXCEPT ![k] = [hold |-> TRUE, versions |-> NoVersions]]
             ELSE [file EXCEPT ![k].hold = ~@]
  /\ Excuse({p \in deployment.hosts \X Key : p[2][1] = k[1]})
  /\ edited' = TRUE
  /\ edits' = edits + 1
  /\ UNCHANGED <<mirror, served, promotion, refresh, installed>>

\* A release leaves the published metadata.
Withdraw(k, r) ==
  /\ edits < MaxEdits
  /\ r \in mirror[k]
  /\ mirror' = [mirror EXCEPT ![k] = @ \ {r}]
  /\ served' = [ring \in Rings |-> [c \in Key |->
                  IF c = k /\ served[ring][c] = r THEN NoRelease ELSE served[ring][c]]]
  /\ Excuse(deployment.hosts \X {k})
  /\ edited' = TRUE
  /\ edits' = edits + 1
  /\ UNCHANGED <<file, promotion, refresh, installed>>

Init ==
  /\ deployment \in Deployments
  /\ file \in deployment.files
  /\ mirror = [k \in Key |-> {}]
  /\ served = [ring \in Rings |-> [k \in Key |-> NoRelease]]
  /\ promotion = NoPromotion
  /\ refresh = NoRefresh
  /\ installed = [h \in deployment.hosts |-> [k \in Key |-> NoRelease]]
  /\ excused = {}
  /\ edited = FALSE
  /\ edits = 0

Next ==
  /\ UNCHANGED deployment
  /\ \/ \E o \in deployment.options : PromoteReadsFile(o)
     \/ PromoteReadsMirror
     \/ PromoteWrites
     \/ PromoteEnds
     \/ RefreshStarts
     \/ \E k \in deployment.components, force \in deployment.forces :
          \E gained \in SUBSET (deployment.releases \ mirror[k]) : Publish(k, gained, force)
     \/ RefreshEnds
     \/ \E k \in deployment.components : EditHold(k)
     \/ \E k \in Key, r \in Release : Withdraw(k, r)

Spec == Init /\ [][Next]_vars

-----------------------------------------------------------------------------
Promotion ==
  [options : Options, base : File, components : Mirror \cup {NotRead}]

(***************************************************************************)
(* Type invariant.                                                         *)
(***************************************************************************)
TypeOK ==
  /\ deployment \in Deployments
  /\ file \in File
  /\ mirror \in Mirror
  /\ served \in [Rings -> [Key -> Release \cup {NoRelease}]]
  /\ promotion \in Promotion \cup {NoPromotion}
  /\ refresh \in File \cup {NoRefresh}
  /\ installed \in [deployment.hosts -> [Key -> Release \cup {NoRelease}]]
  /\ excused \subseteq deployment.hosts \X Key
  /\ edited \in BOOLEAN
  /\ edits \in 0 .. MaxEdits

\* A rebuild of the same version, or a release dated later.
KnownNewer(a, b) ==
  Newer(a, b) /\ (a.version = b.version \/ ~(Undated(a) \/ Undated(b)))

\* A host is moved to a release known to be newer, or excused.
MovesHostsForward ==
  \A h \in deployment.hosts, k \in Key :
     /\ installed[h][k] # NoRelease
     /\ installed'[h][k] # installed[h][k]
     => KnownNewer(installed'[h][k], installed[h][k]) \/ <<h, k>> \in excused

(***************************************************************************)
(* `fwupdmgr sync' never installs an older release on a host unless        *)
(* someone asked for it, withdrew a release or edited the entry, or unless *)
(* a promotion or a publish went by what had changed meanwhile: whatever   *)
(* rebuilds and undated releases the vendor publishes between promotions   *)
(* (movesBackwards, releaseIndex, the refusal without --allow-downgrade).  *)
(***************************************************************************)
HostsMoveForward == [][MovesHostsForward]_vars

\* The file is changed by a promotion, and not by hand.
Promoted == file' # file /\ edits' = edits

\* The held entries are as the promotion read them, and what they hold is given no entry.
KeepsHolds ==
  Promoted =>
    LET f == promotion.base
    IN \A k \in Mirrored(promotion.components) :
         /\ f[k] # NoEntry /\ f[k].hold => file'[k] = f[k]
         /\ HoldsWhole(f, k[1]) =>
              /\ file'[Bare(k[1])] = f[Bare(k[1])]
              /\ f[k] = NoEntry => file'[k] = NoEntry

(***************************************************************************)
(* A promotion keeps every hold of the file it read while the mirror it    *)
(* read has a component of its ID, adoption and pruning included: the held *)
(* entry stays as it is, and a component an ID held whole covers is given  *)
(* no entry (Promote, Prune).  A hold put on, or taken off, between the    *)
(* read of the file (cmd/bkc.go:138) and its write (:201) is lost, as any  *)
(* edit is: the file is written back whole.                                *)
(***************************************************************************)
HoldsKept == [][KeepsHolds]_vars

\* The same promotion of the same mirror would change nothing more.
Settles ==
  Promoted =>
    LET o == promotion.options
        m == promotion.components
    IN ~Ambiguous(file', m, o.only) /\ Result(file', m, o) = file'

(***************************************************************************)
(* A promotion settles: made again of the same mirror it changes nothing,  *)
(* so what it adopted or pruned does not lead to another change.           *)
(***************************************************************************)
PromotionSettles == [][Settles]_vars

\* What is pruned made no difference to the mirror the promotion goes by.
PrunesHarmlessly ==
  Promoted /\ promotion.options.prune =>
    LET m == promotion.components
        unpruned == Promote(promotion.base, m, promotion.options.ring, {})
    IN /\ Apply(file', m) = Apply(unpruned, m)
       /\ \A k \in Mirrored(m) : HeldOut(file', k) = HeldOut(unpruned, k)
       /\ \A ring \in Rings :
            Apply(Promote(file', m, ring, {}), m)
              = Apply(Promote(unpruned, m, ring, {}), m)
       /\ promotion.options.allowMassPrune
          \/ ~(Cardinality(Listed(unpruned) \ Listed(file')) * 2
                 > Cardinality(Listed(promotion.base)))

(***************************************************************************)
(* Pruning removes only entries that make no difference to the mirror it   *)
(* goes by: no ring is served anything else, nothing else is held, and the *)
(* promotions that follow give the same.  It removes no more than half of  *)
(* the entries the file had before the promotion, unless it is allowed to, *)
(* whatever entries the promotion made.                                    *)
(***************************************************************************)
PruneIsHarmless == [][PrunesHarmlessly]_vars

(***************************************************************************)
(* A promotion, pruning or not, takes no ring's tag away that was          *)
(* published: the file it leaves is one the next publish accepts           *)
(* (checkTags), be it that components or releases were published since it  *)
(* read the mirror.  That is, unless the file was edited or a release was  *)
(* withdrawn since the last publish or since the promotion began, or it    *)
(* takes away the entry of a component that the mirror it read had not yet *)
(* (Overtaken); then the next publish can be refused, as the rings would   *)
(* lose a tag (firmirror.go:550).                                          *)
(***************************************************************************)
PromotionsArePublished == ~edited => CheckTags(file, mirror)
=============================================================================
