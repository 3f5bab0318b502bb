# Verification of firmirror

firmirror mirrors vendor firmware into an LVFS-style repository: packages (CABs), a metadata file that
names them, and a JCAT beside it that holds the checksum of the metadata and, when keys are given, its
signature. `refresh` mirrors and publishes, `regen-metadata` publishes the stored document again, and
`bkc promote` edits the file that says which version each rollout ring is served.

This directory holds TLA+ specifications translated from `src/`, TLC configurations that check them on
small instances, and TLAPS proofs of the properties that matter most. A definition that stands for code
is listed in `PROJECT.json` under `map`, with the lines it stands for. A comment that starts with "Slip:"
marks a variant of the next definition with a plausible mistake in it; no specification uses one, and
each shows that a property would notice the mistake (`mutants` in `PROJECT.json`).

## Inventory

| Component | State | Operations | What is hard | What makes it correct |
|---|---|---|---|---|
| Publishing to the store (`pkg/firmirror/firmirror.go`, `jcat.go`, `regen.go`, `baseurl.go`) | the store: metadata, JCAT, packages; a `FirmirrorSyncer`: what it read, what it mirrored, its options | `LoadMetadata`, `Preflight`, `ProcessVendor`, `SaveMetadata`, `RegenerateMetadata`, `writeMetadata`, `settled`, `removeUnreferencedPackages` | two writes that belong together and can be interrupted between them; runs that overlap; a decision made from what was read hours before | no dangling package; no firmware, ring tag, signature or base URL lost unless asked; an interrupted publish is repaired; nothing is published needlessly |
| Store backends (`storage_local.go`, `storage_s3.go`) | objects | `Read`, `Write`, `List`, `Delete` | a write reported as failed that was made; retries; a power failure between a rename and the sync of its directory | one object is replaced whole, and what was reported as written lasts |
| Vendor processing (`ProcessVendor`, `processEntry`, `buildPackage`) | a semaphore, goroutines, a work directory for each file name, `newComponents` | one goroutine an entry | two entries of one file name; the end of the context during the wait for a slot | returns with every entry accounted for, and publishes what was verified |
| Commands and signals (`cmd/`) | the context, the signal channels | `run`, `runRefresh`, `runRegenMetadata`, `endOnSecondSignal` | signals between any two steps | a first signal does not end a publish, a second one does (both with an exception: see the findings) |
| Rollout rings (`pkg/bkc`, `cmd/bkc.go`) | the definitions file | `Apply`, `Promote`, `Prune`, `Write`, edits by hand | adoption of entries without a platform, holds, rebuilds, undated and withdrawn releases; a read-modify-write that nothing locks | hosts are never moved back unasked, holds are kept, promotions settle |
| LVFS documents (`pkg/lvfs`, `bkc.overlaps`) | none | `PoolByKey`, `MergeComponents`, `GroupByTags`, `SortReleases`, `AddTag`; the search for overlaps | what is written is read, pooled and ordered again by the next run; workers finish in any order; a bounded search | an unchanged document is rendered byte for byte as it was; a ring's tag is on one release of a component; the report says when it is not all |
| Dell and HPE vendors (`pkg/vendors`) | the catalog, entries | `FetchCatalog`, `ListEntries`, `RetrieveFirmware`, `ToAppstream` | file names that repeat; a sidecar that is missing or could not be had; a panic on a payload without devices | a download is verified by all there is to verify it with, before it is packaged |
| Downloads (`pkg/utils`) | none | `httpGet`, `DownloadFileToDest`, `WriteFileAtomic` | timeouts, retries, bodies cut short, the goroutines of several entries writing to one directory | requests end; a file is replaced whole |
| Helm chart (`chart/`) | none | CronJobs | `concurrencyPolicy: Forbid` covers one CronJob only | see "Overlap" |

How they interact: a command builds a `FirmirrorSyncer` over a store and drives it. A refresh reads the
definitions, loads the metadata, has `Preflight` refuse what the publish would refuse, runs
`ProcessVendor` for each vendor (which uploads packages and appends components), and then publishes under
a context of its own, with the definitions read again. Processes share nothing but the store and the
definitions file, and nothing locks either.

The hazards, each at its line, are in `PROJECT.json`.

## Modules

| Module | Models | State and actions |
|---|---|---|
| `Mirror` | what clients of the store are promised, abstract | the published document, the announced one (the JCAT's) and the packages; upload, reclaim, announce, commit |
| `Publish` | refreshes and regenerations of one store | one program counter a process, and an action for each access to the store |
| `MCPublish` | the values of its constants for TLC | |
| `PublishSafety` | safety of `Publish`, by how runs overlap | theorems `TypeCorrect`, `NoDanglingPackageCorrect`, `FirmwareKeptCorrect`, `MirrorPromiseKept`, `NoDanglingPackageApart`, `FirmwareKeptApart`, `MirrorPromiseKeptApart`, `NoDanglingPackageWithoutCleanup`, `JCATShowsNothingPublishedCorrect` |
| `PublishDecisions` | what runs decide, by how they overlap | theorems on signatures, ring tags, the base URL, refusals, success and needless publishes |
| `ObjectStore` | what the publisher relies on of `Storage.Write`, abstract | what each key holds, what a power failure can leave of it, the calls under way |
| `Files` | `LocalStorage.Write` and `WriteFileAtomic` | the files of a directory, those on disk, and a step of the write for each writer |
| `FilesProofs` | safety of `Files`, and that it implements `ObjectStore` | theorems `FilesTypeCorrect`, `WholeObjectsOnly`, `FilesKeepPromise` |
| `Downloads` | `httpGet`, `DownloadFileToDest`, `RetrieveFirmware` and `verifyDownload` of both vendors | a request, a body, a check and a conversion for each entry |
| `Delivery`, `MCDelivery` | runs on a local directory, from the vendors to the published metadata | `Downloads` and `Files` composed by the steps of a run |
| `DeliveryProofs` | safety of `Delivery` | theorems `DeliveryTypeCorrect`, `PackagesOutliveFailuresCorrect`, `PublishesWhatWasCheckedCorrect`, `DeliveryKeepsPromise` |
| `Overlaps` | `overlaps` of `pkg/bkc`, with its two bounds | operators |
| `Documents`, `MCDocuments` | the published document over any sequence of runs | the pieces of its components; a refresh, an edit of the definitions, another firmirror |
| `DocumentsProofs` | safety of `Documents`, and what the search of `Overlaps` finds | theorems `DocumentsTypeCorrect`, `ReadsBackTheSameCorrect`, `SameHoweverMirroredCorrect`, `TaggedAsDefinedCorrect`, `OverlapsReportedCorrect` |
| `Rings` | the definitions file, promotions, publishes as they tag releases, and a host that follows a ring | promotion in three steps (read the file, read the mirror, write), refresh in two |
| `MCRings` | two deployments of `Rings` | |
| `RingsProofs` | safety of `Rings` | theorems `RingsTypeCorrect`, `PromotionsArePublishedCorrect`, `HoldsKeptCorrect`, `PruneIsHarmlessCorrect`, `PromotionSettlesCorrect`, `HostsMoveForwardCorrect` |
| `Signals` | one process that publishes, and signals | the command, NotifyContext, the channel of `endOnSecondSignal` and its goroutine, one action for each statement that matters |
| `SignalsProofs` | type correctness and safety of `Signals` | theorems `SignalsTypeCorrect`, `FirstSignalNeverKillsUnlessHalfRelayedCorrect` |
| `Workers` | `ProcessVendor` over one catalog | the loop, the semaphore, a goroutine an entry, the work directories |
| `Mirroring` | what `ProcessVendor` gives the publish that follows, abstract | entries to do, stored, mirrored, failed, and the verdict |
| `WorkersProofs` | safety of `Workers` | theorems `WorkersTypeCorrect`, `NoMoreThanConcurrencyCorrect`, `EveryEntryAccountedForCorrect`, `NothingAfterReturnCorrect`, `PublishesWhatWasVerifiedCorrect`, `MirroringPromiseKept`, `NobodyWaitsInVainCorrect`, `OnlyForwardCorrect` |

Three abstract specifications are implemented. `Publish` implements `Mirror` (`MirrorPromise ==
Promise!Spec`, with `announced` the document of the JCAT), `Files` implements `ObjectStore`
(`KeepsPromise == Promised!Spec`, with an object what a reader gets of its file), also as `Delivery` uses it,
and `Workers` implements `Mirroring` (`MirroringPromise == Promise!Spec`, where an entry fails or is mirrored
when its goroutine counts it, and has a package once one with the checksum it took is stored).

`Delivery` composes `Downloads` and `Files`: it EXTENDS both, and each of its actions is one of theirs with
what the run does around it. `Publish` sees the store as `ObjectStore` promises it, a write of it being one
step. It sees `Workers` as `Mirroring` has it: the entries of the catalog in any order, each by one `Mirror`
(with the storing of its package) or `MirrorFails` step, until all are done or `Interrupt` drops the rest. It
sees `Signals` as `Interrupt` (a first signal) and `Abort` (a second one, or the first taken for it, a crash or
a failed access that ends the run). It sees `Rings` as the file `EditRings` changes at any time, and
`Documents` as the function from what a run has to its document, which `ReadsBackTheSame` and
`SameHoweverMirrored` are about.

### Publish and the code

A process is at `load` (LoadMetadata), `preflight`, `mirror` (ProcessVendor), `regenerate`, `readJCAT`
(the read in writeMetadata), `settle` (settled and the refusals after it), `writeJCAT`, `writeMetadata`,
`cleanup` (the listing) or `delete`. What a step does to memory is part of the access it leads to, as only
accesses can interleave. What the code writes into the fields of `FirmirrorSyncer` is `stored`,
`mirrored`, `document`, `seen` and `doomed`; they go with the process.

What data stands for:

- A document is its schema, the packages it names, the tags of their releases and whether its locations
  are URLs. Two documents are equal when their digests are, and compression is deterministic; a
  fingerprint is thus the document.
- A package is the firmware it was built from and a build, as building again can give another CAB.
- The tags of a document are what the definitions serve of the firmware it names. Definitions that serve a
  version the mirror does not have are a ring that is served firmware the document does not name.
- The JCAT is the document whose checksum it holds and whether it is signed, or is missing, malformed, or
  not readable.
- `cleanup` stands for `--s3.cleanup` on the S3 store; the local store never deletes.
- A stored metadata file that does not parse ends the run, which is one of the cases of `Abort`.

### Rings and the code

A component and an entry are told by ID and platform. A release is a version, a date (0: none) and a place in
the rest of `compareReleases`. `installed`, `excused` and `edited` are not in the code: the first is what
`fwupdmgr sync` leaves on a host of a followed ring, and the others say which moves the code does not vouch
for (`--allow-downgrade`, edits by hand, withdrawn releases, and promotions or publishes that go by what was
read before a change) and whether the next publish can be refused (edits by hand, withdrawn releases, and
promotions that were overtaken). Nor is `deployment`: it is where firmirror is used, that is the components
that are mirrored, what their vendor publishes, the rings on which a host is followed, what the file says at
first, and the options of promotions and publishes. It is chosen at the start and stays, so that one run
covers several, and what is proved holds for any. Names, notes and tables are left out; a dry run is a
promotion that ends.

A promotion reads the file (cmd/bkc.go:138), reads the mirror and writes the file back whole (:201), and
nothing locks the file meanwhile. An edit made in between is lost, a hold that was put on among them: the code
does this, no property denies it, and `HoldsKept` is about the holds of the file a promotion read, stale or
not. Nor is the mirror looked at again. `PromotionsArePublished` covers promotions that go by a mirror to
which was published since, but for what `Overtaken` says: the entry of a mirrored component was edited or a
release withdrawn in between, or the promotion takes away the entry of a component that its mirror had not
yet, as `--prune` does when a refresh publishes the component meanwhile. The next publish can then be refused,
as a ring would lose its tag (firmirror.go:550).

### Signals and the code

os/signal and NotifyContext are modelled by what the code relies on: a signal nothing is registered for
ends the process; any other is relayed, after a while, to the channels registered by then. It is sent to one
channel after the other, in any order (`Relay` takes it up, `Send` is one channel), and dropped where there
is no room. Between two sends everything else goes on, but `Notify` and `Stop`, which wait for the lock that
os/signal holds meanwhile. The context is done some time after its channel got a signal, be the other channel
still to get it or not. `arrived`, `heard`, `afterwards` and `halfRelayed` are not in the code: they count the
signals, and say whether the channel was drained before the signal that ended the context was sent to it.

### Workers and the code

A work directory, and the file in it, are named after the file of the entry. A download goes to the file
it created, also after the directory was cleared by another goroutine. `Verify` compares with the digest
of the catalog; an entry without one is only checked for its size in the code, and is not modelled. The
look for the file and its creation are one step, as are the two steps that clear a directory. The JCAT of
the package is left out.

### Files, Delivery and the code

`WriteFileAtomic` is a step for each call that can fail or that a power failure can fall behind: create,
copy, sync, chmod (and close), rename, sync of the directory. `names` is what readers see and `onDisk` what
a power failure can leave of each name: a rename adds to it, a sync of the directory leaves what is there,
for all names. A file that was not synced can lose its data. That a change of mode reaches the disk no later
than a rename after it is assumed, as journaled file systems do. The error of the directory's sync is dropped
by the code (utils.go:393), which is `SyncDirectoryFails`; `MayForget` says whether it can happen. The
`.firmirror-tmp-*` files that a kill leaves behind are not modelled: nothing reads them.

In `Downloads`, the content of a download is the firmware, another one of its size, or part of it, and an
offer is what the vendor publishes to check it against. Any failure to get HPE's sidecar is taken for there
being none (hpe.go:129). A payload without devices is a panic in the goroutine of the entry (hpe.go:346),
which ends the process. In `Delivery` the metadata is the set of packages it names, as whether to publish is
the matter of `Publish`. The goroutines of several entries interleave, each step of each write with those of
the others; work directories are those of unshared names, as shared ones are the matter of `Workers`. Every
write of an object is to one directory, as with `--output-dir`. The strict client, its redirects and the
redaction of URLs are left out.

`PackagesOutliveFailures` is claimed as long as fewer than two syncs of the directory failed. With one, the
package lasts by its own sync or by that of the JCAT, which comes between the packages and the metadata; with
two, both can be the ones that failed, and a power failure can leave metadata that names a package that is
gone.

### Documents, Overlaps and the code

A release is the package of a firmware, told by version, date and checksum; what else a component says is
its `head`, the package it was taken from. A refresh is one action: what makes it publish or refuse is
`Publish`, and what interleaves is the order its workers finished in, one of all orders. `replaceSuperseded`
is either, though firmware that is stored is not mirrored again and so nothing is ever superseded. What the
code sorts is `Sorted`, the sequence of a set in an order, and what it filters is `Select`: both are written
without recursion on sequences, so that they can be reasoned about.

What the code does and no property denies: the head of a component is that of the piece that came first, so
two stores that mirrored the same firmware in another order publish documents with other URLs, names and
descriptions of a component whose packages disagree on them. A file listed twice in one run, as by two HPE
generations, is mirrored twice, as `existingIndex` is only what was stored at the start (firmirror.go:180).

## Runs

| Run | Instance | Shows |
|---|---|---|
| `PublishAlone` | 2 firmware, 1 build, 1 ring, one refresh and one regeneration at a time, every set of options that a run can tell apart (definitions and force, cleanup, or signing and base URL), stored documents of both schemas with and without tags and URLs, 1 fault; 550 thousand states | `Mirror` is implemented; nothing dangles; ring tags, signatures and the base URL kept, refusals before mirroring, repair, no needless publish |
| `PublishApart` | 2 firmware, 2 builds, a refresh with or without cleanup and a regeneration that overlap, but never publish at once, 1 fault; 94 thousand states | nothing dangles, no firmware lost, and the JCAT tells whether something was published unless a run crashed |
| `PublishTogether` | two refreshes, no restriction, without cleanup and refusals, under fairness, 1 fault; 410 thousand states | metadata and JCAT match again and again; all firmware is published in the end |
| `PublishStaleJCAT` | as `PublishApart`, with definitions | violated: see the findings |
| `PublishSignatureLost` | one run at a time, with keys or not | violated: see the findings |
| `Rings` | two deployments. `HostDeployment`: 1 component, 4 releases (a rebuild, an undated one), 2 rings, 1 host. `HoldDeployment`: 1 ID with 2 platforms and entries without one, pruning; 400 thousand states | hosts move forward; the holds a promotion read are kept, promotions settle, pruning is harmless and takes no more than half, what a promotion leaves is published unless it was overtaken |
| `Signals` | both commands, up to 5 signals of 2 kinds, each sent to one channel after the other; 68 thousand states | the first signal ends the process only if it was drained for before it was sent; the publish can be ended |
| `SignalsFirst` | both commands, up to 2 signals | violated, by one signal: see the findings |
| `Workers` | 3 entries of 2 names, 2 slots, 1 fault, cancellation; 910 thousand states | `Mirroring` is implemented; slots, counts and verified firmware; under fairness it returns |
| `WorkersShared` | 2 entries of 1 name | violated: see the findings |
| `Delivery` | an HPE and a Dell entry with 6 of their offers, or two Dell entries at work at once, 1 retry, 1 fault at any step of any write, or a signal, a kill or a power failure; 150 thousand states | `ObjectStore` is implemented; what is published is whole, checked and outlives failures; a run ends |
| `Documents` | 3 components of 2 IDs that share GUIDs, 4 packages (a version built twice, two of one day), 2 rings, 6 definitions, 2 pairs and 6 visits; 2400 states with up to 65 orders of mirroring each | the document is a fixpoint, the same whatever the order, tagged as defined, and its overlaps are reported up to the bounds |

Bounds. Every hazard of `Publish` needs two documents to tell apart and one more run than the one it
disturbs; two firmware give that, processes start again without bound, and `MaxFaults` bounds only crashes,
failed accesses and the loss of the metadata. Two builds matter only to runs that overlap, where cleanup
must tell a package from its rebuild. With two faults `FirmwareKept` fails when runs overlap: the metadata
is lost while a run that found none is mirroring, which is why `PublishApart` has one. One ring tells "loses
its tag" from "keeps it". In `HostDeployment`, four releases include every case of `movesBackwards`;
publishes are forced, which allows everything an unforced one does; nothing is mirrored at first, which is
no metadata. In `HoldDeployment` the two platforms are symmetric, as nothing in the code orders them, and the
properties are safety properties. In `Workers`, two names give every catalog in which entries share a name
and one does not, and three entries make one wait for a slot. In `Signals`, kinds matter as two of one kind
can be merged while pending; the channel holds two. In `Delivery`, vendors go one after the other, so that
two entries of one are there for two goroutines that write at once; one fault is a lost sync, a failed write
or a crash at each point of each write, and the proofs cover any number; one retry tells an attempt that is
followed by another from the last. In `Documents`, the bounds of the search are small enough that some
documents exceed each of them and others none; `TypeOK` is over pieces, of which there are no more than
three components with as many sets of tags as releases.

Deadlock is checked but for `Signals` and `Workers`, whose process ends.

Overlap. The code does not stop two runs on one store. README.md:311 and chart/README.md:129 ask for one at
a time; `concurrencyPolicy: Forbid` (chart/templates/cronjob.yaml) does it for one CronJob only, and the
regeneration has its own. README.md:298 says that two runs that publish at once can replace one another's
metadata. `Overlap` is therefore "none" (as asked), "apart" (runs overlap, publishes do not) or "any"; a
process that is started, as one of `Refreshers`, does not overlap itself.

Fairness. `Publish`: a process that runs goes on until it ends, and each CronJob starts its refresh again;
nothing says that a regeneration is ever started, and failures are never required. `Signals`: every
goroutine that can run does and what is pending is relayed; the publish need not end, as it may hang on the
store. `Delivery`: a run takes its steps, as a request ends by the timeouts of the client, which retries a
bounded number of times, and reading and writing a local file end; nothing says that another run starts.
`Workers`: the loop and each goroutine go on; a download ends by the 10 minutes of the client
(src/pkg/utils/utils.go:50), and the tools that are run are taken to end.

## Findings

- `PublishStaleJCAT`: the comment in `settled` (src/pkg/firmirror/firmirror.go:898) takes a JCAT with the
  checksum of what the run read for proof that nothing was published since. With another publish and a
  third that crashes between its JCAT and its metadata, the JCAT is back while the metadata is newer.
- `PublishSignatureLost`: README.md:309 says a signed JCAT is never replaced by one holding only checksums
  unless `--stop-signing` says so. A run that finds no metadata does not look at the JCAT.
- `SignalsFirst`: `endOnSecondSignal` "ends the process on the signal after the first", and drains the channel
  of the signal that ended the context. os/signal sends a signal to one channel after the other: the one that
  ended the context can come to the channel after the drain, and is then taken for the second. A single
  signal thus ends the process, also between the JCAT and the metadata. `Signals` checks that nothing else
  makes a first signal end it.
- `WorkersShared`: `verifyDownload` is there so that "a truncated or corrupted download is never
  published". Two entries of a Dell catalog can have the same file name, as it is the last element of the
  path, and share a work directory: the second clears it and downloads to the file the first verified.

Beside these, a signal relayed before `endOnSecondSignal` registers its channel, by which the context is not
done yet at the look, is not counted: the second is then taken for the first, and a third is needed.
`SignalsEndThePublish` therefore counts the signals that arrive once the channel is registered.

## Proofs

`PublishSafety` proves `Spec => []TypeOK` for every value of the constants, in every regime of overlap. The
invariant is `TypeInv`: `TypeOK` says a document may be missing, and `HasDocument` says it is not while a
run publishes, without which the JCAT it writes would have no type.

It proves, when runs do not overlap (`Serial`), that nothing dangles, that no publish takes
firmware out of the metadata, and that `Publish` implements `Mirror`; for any firmware, rings, definitions,
options, processes and faults. None of the three is inductive: whether deleting is safe depends on what was
listed and against which document, and whether a publish is safe on what was read before. `SafetyInv`
relates what a process knows to the store, by where the process is: while it gathers, what it read and
what it uploaded is stored, and the metadata is what it read or lost; while it decides, what it built is
stored and names all the firmware it read; when it is to write the metadata, the JCAT is of its document;
while it deletes, the metadata is its document or lost, and what it deletes is not in it. `OneAtATime`
makes this hold over the steps of the others. Each proof has one lemma for a step of the process at work
(by action), one for those of the others (`Frame`, `OthersIdle`), and combines them with PTL. The proofs
rest on `ConfigAssumption` and `AbsentAssumption`, the assumptions on the constants that TLC evaluates in
each run.

The same three hold when runs overlap but never publish at once (`Apart`), with any number of regenerations
beside one process that refreshes (`OneRefresher`, which is what `concurrencyPolicy: Forbid` gives; two
refreshes that overlap delete each other's packages), as long as nobody deletes the metadata
(`MetadataLasts`; nothing in the code does, and with the metadata lost twice, or once and another fault, a
regeneration can put back a document whose packages were cleaned up). What a run knows may now be old, and
`OverlapInv` says what is true of it all the same. From the first metadata of the current schema on, what it
names only grows. A regeneration publishes what it read only beside a JCAT that it found to be of that
document, and the JCAT names no less than the metadata (`JCATCovers`), so that what it publishes is what the
metadata names still. Nothing else takes effect between what a refresh read and what it publishes, and what
it deletes it had not published. The lemma of the step of one run (`OverlapStep`) thus has to say what it
leaves true of the others, too.

Two things hold in wider regimes. When no refresh cleans up, nothing dangles however many runs overlap and
publish at once, and whatever is lost: packages only grow, and what a run has read, mirrored or built is
stored (`GrowingInv`). And unless a run crashed, a JCAT with the checksum of what a run read shows that
nothing was published since, for any number of refreshes and regenerations that do not publish at once: the
JCAT is that of the metadata whenever nobody is between its two writes (`JCATOfMetadata`). What becomes of
it with a crash is the finding of `PublishStaleJCAT`.

`SignalsProofs` proves, for any kinds and any number of signals, that the channel never holds more than its
buffer and that a first signal does not end the process, unless it was sent to the channel after that was
drained for it. That is not inductive, as it says nothing of signals on their way. `SignalsInv` counts those
relayed (arrived and not pending): what the channel holds or is about to be sent (`onTheWay`) was relayed, and
so was one more when the goroutine waits for the second signal only, be it the one it took or the one that
ended the context, which `Drain` took out if the channel had it; if the channel was still to get it, that is
`halfRelayed` (`Counted`). With `Listened` (something listens until a signal has arrived) this leaves no other
way to end the process by one signal. It rests on `SignalsAssumption`: the kinds are finitely many.

`PublishDecisions` proves the other properties of `PublishAlone`, also for runs that do not overlap and for
any options, definitions and faults. A decision is made on what was read, and takes effect later, between
which the definitions are edited and the run can be interrupted. `DecisionInv` carries what each check found
to the step it allows: what `Preflight` accepted still holds of what the run read (`Foreseen`), the JCAT it
looked at is the stored one or could not be read, a document that was not refused is not refused
(`Refuses`), and a refresh that is about to write has a reason (`NeedsWriting`). It rests on `SafetyInv`, by
which nothing else changes the store meanwhile.

Some of it holds when runs overlap but do not publish at once, by what `CheckedInv` says of a run that
publishes: nobody else changes the JCAT, so that what it concluded from it is still true. Signatures are kept
(`SignatureOfMetadataKeptCorrect`), for any number of refreshes and regenerations; a run that published leaves
metadata with its JCAT, and so does one that found nothing changed, unless a run crashed
(`SuccessIsConsistentUnlessCrashedCorrect`); and one refresh beside regenerations publishes nothing needlessly
(`NoNeedlessPublishApart`, by `OverlapInv`). The others do not hold there, as TLC shows with no fault at all
for `RingsKept`, `BaseURLKept` and `RefusedBeforeMirroring`: a refresh that mirrored something replaces what a
regeneration published since it read the metadata (`src/README.md:311` tells not to run them together), and
is refused by what it signed. With a crash `SuccessIsConsistent` fails, too, as `PublishStaleJCAT` shows.

`FilesProofs` proves that `WriteFileAtomic` implements `ObjectStore` and leaves only whole readable objects,
for any keys, values and number of goroutines that write at once, the same key included. `FilesInv` says of
each temporary file what the steps before have done to it (`TempReady`): at the rename it is whole, synced
and readable, and so is all that `names` and `onDisk` hold. The refinement maps the steps before the rename
to the call having begun, the rename to the put, the sync of the directory to its being done. It rests on
`FilesAssumption` and `NoneAssumption`: markers are no values.

`DeliveryProofs` proves, for any entries, offers, retries and faults, the four safety properties of the
`Delivery` run, `NeverHalfAnObject` through `FilesProofs` and `DeliveryKeepsPromise`. The hard one is
`PackagesOutliveFailures`: `DeliveryInv` says that with no sync forgotten a package that was stored is
`Durable`, that with one forgotten the packages of the run are when the JCAT has been written
(`JCATWritten`), and that those of the document the run loaded are in either case. It rests on
`DownloadsAssumption`, `DeliveryAssumption` and those of `Files`.

`WorkersProofs` proves all safety properties of `Workers` for any catalog, number of slots and faults. The
slots in use bound the goroutines at work, with one more for the loop when it is to begin a goroutine
(`SlotsHeld`); what the loop has come past is in the index or has begun (`Reached`); kept components and
errors together are the goroutines that are over (`Counted`). That what is published was verified is an
invariant on directories: one of a name that no other entry has is its goroutine's alone, with what its
phase has put there. `MirroringPromiseKept` takes in addition that no package has the name of an entry whose
checksum was not taken, and one has that of an entry about to be kept (`Named`): packages under the names of
entries only grow, so that each step of a goroutine stores, mirrors, fails or shows nothing, and the return
has the verdict of `Mirroring` by the counts. Of liveness it proves what takes no fairness: a slot that is
waited for is held by a goroutine at work (`NobodyWaitsInVain`), and each step takes the loop or one goroutine
on and none back (`OnlyForward`), so that the steps are bounded. All rest on `WorkersAssumption` and
`NothingAssumption`.

`DocumentsProofs` proves the properties of `Documents`, for any components, packages, definitions, bounds and
history of the document. `DocumentInv` says that, unless another firmirror wrote it, the document is
`DocumentOf` the packages that were mirrored, the definitions it was tagged by and some choice of a head for
each component, and that is a function without a history. That a refresh makes such a document of such a
document, in whatever order it mirrors, takes lemmas on each operator the code is made of: what pooling and
merging leave of the pieces of a key, that the releases of a component sorted are those of its packages
whatever the order they came in, that grouping by tags and reading back the groups loses nothing. The report
is that of what the document serves (`ReportInv`), and what the search finds is compared with all pairs that
overlap. Where the code loops, the proof is by a least counterexample, and a function defined by recursion
(`FlattenSeq` of the library, `FoundIn` of the proof) is shown to exist first, as the induction theorems of
the library cannot be used. It rests on `DocumentsAssumption` and `OverlapsAssumption`.

`RingsProofs` proves what the `Rings` run checks of its two deployments, for any components, platforms,
releases, rings, definitions, hosts and options, several IDs included, where an edit that overtakes a
promotion can be of an entry it has no part in. `RingsInv` adds `TagsVouchedFor` to the types: unless someone
edited the file or withdrew a release, or a promotion was overtaken, a release with a ring's tag is of a
component whose entry is not held and names the ring a version that is mirrored. A promotion keeps that though
it goes by an older mirror: a release it found there is mirrored still, and what it does not know it does not
touch but by pruning or adopting (`ResultKeepsTags`, `ResultOfOthers`). Holds are kept by what a promotion
makes of the file it read, so that it does not matter whether that is still the file (`ResultKeepsHolds`).
That promotions settle rests on lemmas about the three operators they are made of: `Adopt` leaves the entries
of what is mirrored as they are, promoting twice is promoting once, and what `Prune` takes away is invisible
to what is mirrored. That hosts move forward needs `HostInv`: a host that is not excused runs the newest
release of its version, and what its ring is served next, by the file or by the definitions a refresh has
already read, is that release or one known to be newer. It rests on `RingsAssumption`, `NoneAssumption` and
`NewestAssumption` (of any releases, one is the newest).

Only model-checked: liveness, as fairness and ENABLED are out of the reach of the prover (`AlwaysRepaired`,
`EventuallyAllMirrored`, `SignalsEndThePublish`, `RunEnds`, `Returns`).

## Not modelled

The XML of documents, the layout and parsing of the definitions file, the reports of `Apply` other than
overlaps, the conversion of vendor catalogs to components, proxies, redirects and credentials of requests,
the retries and multipart uploads inside a write to S3, the reading of options, the Helm chart (but for what
its `concurrencyPolicy` allows to overlap), the test helpers and logging. They are data, input and output, or
configuration, without steps of their own. `PROJECT.json` gives the reason for each component.

## Plan

Modelled first was what can lose something: publishing, then the file that decides what hosts are served,
then signals and workers; then what they stand on, the files, the downloads and the documents. What is left,
in the order it is worth:

1. What of `EventuallyAllMirrored`, `SignalsEndThePublish` and `RunEnds` needs no fairness, as `WorkersProofs`
   has it for `Returns`.
2. `Rings` with two IDs and `--component`; `Publish` with two rings, for a document that keeps one and loses
   another.
