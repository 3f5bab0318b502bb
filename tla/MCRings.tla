------------------------------ MODULE MCRings ------------------------------
(***************************************************************************)
(* Two small deployments of Rings for TLC, in one run.                     *)
(***************************************************************************)
EXTENDS Rings, TLC

CONSTANTS dev, beta, v1, v2, p, q

TwoRings == <<dev, beta>>

\* A release, its rebuild under a later date, and another version between the two,
\* published with no date too.
Rebuilt == {[version |-> v1, date |-> 1, tie |-> 0],
            [version |-> v1, date |-> 3, tie |-> 0],
            [version |-> v2, date |-> 2, tie |-> 0],
            [version |-> v2, date |-> 0, tie |-> 1]}

Promotes(downgrades, prunes, mass) ==
  [ring : Rings, only : {{}}, allowDowngrade : downgrades, prune : prunes,
   allowMassPrune : mass]

\* One component with rebuilds and undated releases, a host on the second ring and
\* forced publishes.
HostDeployment ==
  [components |-> {Bare(id) : id \in Ids}, releases |-> Rebuilt, hosts |-> {beta},
   files |-> {[k \in Key |-> NoEntry]},
   options |-> Promotes(BOOLEAN, {FALSE}, {FALSE}), forces |-> {TRUE}]

OneEntry(k, e) == [c \in Key |-> IF c = k THEN e ELSE NoEntry]

\* No entry, or one without a platform, held or not, that names a version for the
\* first ring or none.
BareFiles ==
  {[c \in Key |-> NoEntry]} \cup
  {OneEntry(Bare(id), [hold |-> h, versions |-> [NoVersions EXCEPT ![dev] = v]]) :
     id \in Ids, h \in BOOLEAN, v \in {v1, NoVersion}}

\* The components of one ID on two platforms, entries without one, and promotions that
\* prune.
HoldDeployment ==
  [components |-> Key, releases |-> {[version |-> v1, date |-> 1, tie |-> 0]}, hosts |-> {},
   files |-> BareFiles,
   options |-> Promotes({FALSE}, BOOLEAN, {FALSE}) \cup Promotes({FALSE}, {TRUE}, {TRUE}),
   forces |-> {FALSE}]

TwoDeployments == {HostDeployment, HoldDeployment}

\* The platforms are told apart by nothing but themselves.
PlatformsAlike == Permutations({p, q})
=============================================================================
