------------------------------- MODULE Publish -------------------------------
(***************************************************************************)
(* Runs of firmirror that publish to one store: refreshes, which mirror    *)
(* firmware and then publish, and metadata regenerations, which publish    *)
(* the stored document again.  The store holds the metadata (the commit    *)
(* point), the JCAT beside it and the packages the metadata names.  Every  *)
(* access to the store is an action of its own, so that runs, crashes and  *)
(* the edits of the rollout rings fall between any two of them.            *)
(*                                                                         *)
(* A run is pkg/firmirror.FirmirrorSyncer driven by cmd.runRefresh or      *)
(* cmd.runRegenMetadata.  A CronJob whose concurrencyPolicy is Forbid is   *)
(* one element of Refreshers or Regenerators.                              *)
(***************************************************************************)
EXTENDS Naturals

CONSTANTS
  Firmware,          \* the entries of the vendors' catalogs, by file name
  Builds,            \* what building a package twice can give
  Rings,             \* the rollout rings
  RingFiles,         \* what the definitions file can say
  Refreshers,        \* processes that run `firmirror refresh`
  Regenerators,      \* processes that run `firmirror regen-metadata`
  RefreshConfigs,    \* the options a refresh can be started with
  RegenConfigs,      \* the options a regeneration can be started with
  InitialDocuments,  \* what an earlier firmirror can have left stored
  Overlap,           \* how far runs overlap, see below
  MaxFaults,         \* bound on crashes, failed accesses and deletions
  NoDocument, NoJCAT, MalformedJCAT, UnreadableJCAT

(***************************************************************************)
(* Data.  A package is the CAB of one firmware; its name holds the         *)
(* checksum of the build.  A document is what the metadata file says; two  *)
(* documents are equal exactly when their digests are.  `tags' gives, for  *)
(* each ring, the firmware whose release carries the ring's tag.           *)
(***************************************************************************)
Package == [firmware : Firmware, build : Builds]

\* What the definitions have each ring serve; a ring that serves nothing has
\* no entry that is not held.
Definitions == [Rings -> SUBSET Firmware]

\* The definitions of a run that has none.
NoRings == [ring \in Rings |-> {}]

Schema == {"current", "old"}

Document == [schema : Schema, packages : SUBSET Package,
             tags : Definitions, absolute : BOOLEAN]

\* The JCAT records the checksum of one metadata file, and may be signed.
JCAT == [file : Document, signed : BOOLEAN]

NotAJCAT == {NoJCAT, MalformedJCAT, UnreadableJCAT}

\* The options a run is started with.  `cleanup' is --s3.cleanup on a store
\* that can delete, `bkc' is --bkc.file.
Config == [signing : BOOLEAN, stopSigning : BOOLEAN, force : BOOLEAN,
           baseURL : BOOLEAN, dropBaseURL : BOOLEAN, cleanup : BOOLEAN,
           bkc : BOOLEAN]

IdleConfig == [signing |-> FALSE, stopSigning |-> FALSE, force |-> FALSE,
               baseURL |-> FALSE, dropBaseURL |-> FALSE, cleanup |-> FALSE,
               bkc |-> FALSE]

Runs == Refreshers \cup Regenerators

ASSUME ConfigAssumption ==
  /\ RefreshConfigs \subseteq Config
  /\ RegenConfigs \subseteq {c \in Config : ~c.cleanup}
  /\ RingFiles \subseteq Definitions
  /\ InitialDocuments \subseteq Document
  /\ \A doc \in InitialDocuments : doc.absolute => doc.packages # {}
  /\ Refreshers \cap Regenerators = {}
  /\ Overlap \in {"none", "apart", "any"}
  /\ MaxFaults \in Nat

ASSUME AbsentAssumption ==
  /\ NoDocument \notin Document
  /\ NotAJCAT \cap JCAT = {}
  /\ NoJCAT # MalformedJCAT
  /\ NoJCAT # UnreadableJCAT
  /\ MalformedJCAT # UnreadableJCAT

VARIABLES
  metadata,     \* the stored metadata.xml.zst
  jcat,         \* the stored metadata.xml.zst.jcat
  packages,     \* the stored .cab objects
  ringsFile,    \* what the definitions file says now
  pc,           \* where each run is
  config,       \* the options of each run
  definitions,  \* the definitions the run holds: Config.BKC
  stored,       \* the document the run read: f.stored, f.facts, f.existingMetadata
  todo,         \* the catalog entries not processed yet
  mirrored,     \* the packages of f.newComponents
  document,     \* the document the run is to publish
  seen,         \* the JCAT writeMetadata read
  doomed,       \* the listed packages that the run is to delete
  outcome,      \* how the last run of each process ended
  faults        \* how many faults there were

store == <<metadata, jcat, packages>>
work  == <<config, definitions, stored, todo, mirrored, document, seen, doomed>>
vars  == <<store, ringsFile, pc, work, outcome, faults>>

(***************************************************************************)
(* What a run knows and builds.                                            *)
(***************************************************************************)
FirmwareOf(pkgs) == {p.firmware : p \in pkgs}

DocumentTags(doc) == {ring \in Rings : doc.tags[ring] # {}}

Known(r) == stored[r] # NoDocument

\* f.existingMetadata is not nil: a document of another schema is dropped.
HasExisting(r) == Known(r) /\ stored[r].schema = "current"

Existing(r) == IF HasExisting(r) THEN stored[r].packages ELSE {}

StoredTags(r) == IF Known(r) THEN DocumentTags(stored[r]) ELSE {}

PossibleTags(defs) == {ring \in Rings : defs[ring] # {}}

\* A release whose firmware was mirrored again is superseded.
MergeComponents(existing, incoming, replaceSuperseded) ==
  {p \in existing : replaceSuperseded => p.firmware \notin FirmwareOf(incoming)}
    \cup incoming

BuildDocument(r, defs) ==
  LET pkgs == MergeComponents(Existing(r), mirrored[r], config[r].cleanup)
  IN [schema   |-> "current",
      packages |-> pkgs,
      tags     |-> [ring \in Rings |-> defs[ring] \cap FirmwareOf(pkgs)],
      absolute |-> config[r].baseURL /\ pkgs # {}]

(***************************************************************************)
(* What a publish refuses.                                                 *)
(***************************************************************************)
Untagging(r, defs) ==
  ~config[r].force /\ ~(StoredTags(r) \subseteq PossibleTags(defs))

NoRingTag(r, doc) ==
  /\ ~config[r].force
  /\ HasExisting(r)
  /\ StoredTags(r) # {}
  /\ DocumentTags(doc) = {}

\* Slip: only the built document is checked, not what the definitions serve.
CheckTagsWithoutUntagging(r, defs, doc) == ~NoRingTag(r, doc)

CheckTags(r, defs, doc) == ~Untagging(r, defs) /\ ~NoRingTag(r, doc)

\* Slip: the option that stops signing lets the base URL be dropped too.
BaseURLDroppedUnlessStopSigning(r) ==
  /\ Known(r)
  /\ stored[r].absolute
  /\ ~config[r].baseURL
  /\ ~config[r].dropBaseURL /\ ~config[r].stopSigning

BaseURLDropped(r) ==
  /\ Known(r)
  /\ stored[r].absolute
  /\ ~config[r].baseURL
  /\ ~config[r].dropBaseURL

HasChecksum(j, doc) == j \notin NotAJCAT /\ j.file = doc

Signed(j) == j \notin NotAJCAT /\ j.signed

\* Slip: a JCAT that could not be read is taken for one that is not signed.
SignatureKeptIfReadable(r, j) ==
  \/ config[r].signing
  \/ config[r].stopSigning
  \/ ~Signed(j)

SignatureKept(r, j) ==
  \/ config[r].signing
  \/ config[r].stopSigning
  \/ j # UnreadableJCAT /\ ~Signed(j)

(***************************************************************************)
(* What writeMetadata and settled decide.                                  *)
(***************************************************************************)
Unchanged(r) == r \in Refreshers /\ Known(r) /\ document[r] = stored[r]

ChecksState(r) == Known(r) /\ (Unchanged(r) \/ mirrored[r] = {})

\* Slip: the JCAT is there, whatever metadata it is of.
StoredJCATPresent(r) ==
  seen[r] \notin NotAJCAT /\ (config[r].signing => Signed(seen[r]))

\* Slip: a run with keys always signs again.
StoredJCATCurrentWithoutKeys(r) ==
  HasChecksum(seen[r], stored[r]) /\ ~config[r].signing

StoredJCATCurrent(r) ==
  HasChecksum(seen[r], stored[r]) /\ (config[r].signing => Signed(seen[r]))

\* Slip: another run's publish is not looked for.
SettledAlone(r) ==
  IF metadata # NoDocument /\ Unchanged(r) /\ StoredJCATCurrent(r)
  THEN "unchanged" ELSE "write"

\* Why there is nothing to write, or "write".
Settled(r) ==
  CASE metadata = NoDocument -> "write"
    [] metadata # NoDocument
       /\ ~HasChecksum(seen[r], stored[r])
       /\ metadata # stored[r] -> "republished"
    [] OTHER ->
       CASE seen[r] = UnreadableJCAT
            /\ Unchanged(r) /\ ~config[r].signing /\ ~config[r].stopSigning
              -> "unchecked"
         [] Unchanged(r) /\ StoredJCATCurrent(r) -> "unchanged"
         [] OTHER -> "write"

Refuses(r) ==
  \/ ~CheckTags(r, definitions[r], document[r])
  \/ BaseURLDropped(r)
  \/ Known(r) /\ ~SignatureKept(r, seen[r])

(***************************************************************************)
(* Steps.                                                                  *)
(***************************************************************************)
Fault == faults < MaxFaults /\ faults' = faults + 1

NoFault == UNCHANGED faults

\* The process ends; nothing of the run outlives it but what it stored.
Exit(r, how) ==
  /\ pc' = [pc EXCEPT ![r] = "idle"]
  /\ outcome' = [outcome EXCEPT ![r] = how]
  /\ config' = [config EXCEPT ![r] = IdleConfig]
  /\ definitions' = [definitions EXCEPT ![r] = NoRings]
  /\ stored' = [stored EXCEPT ![r] = NoDocument]
  /\ todo' = [todo EXCEPT ![r] = {}]
  /\ mirrored' = [mirrored EXCEPT ![r] = {}]
  /\ document' = [document EXCEPT ![r] = NoDocument]
  /\ seen' = [seen EXCEPT ![r] = NoJCAT]
  /\ doomed' = [doomed EXCEPT ![r] = {}]

Goto(r, label) == pc' = [pc EXCEPT ![r] = label] /\ UNCHANGED outcome

ConfigsOf(r) == IF r \in Refreshers THEN RefreshConfigs ELSE RegenConfigs

(***************************************************************************)
(* How the operators let runs overlap, which the code does not enforce:    *)
(*   "none"   one run at a time, as README.md:311 and chart/README.md:129  *)
(*            ask for;                                                     *)
(*   "apart"  a run may work while another does, but two never publish at  *)
(*            once, which README.md:298 says is not protected;             *)
(*   "any"    no restriction.                                              *)
(***************************************************************************)
Publishing(r) == pc[r] \in {"settle", "writeJCAT", "writeMetadata"}

MayStart == Overlap # "none" \/ \A q \in Runs : pc[q] = "idle"

MayPublish == Overlap = "any" \/ \A q \in Runs : ~Publishing(q)

\* A process starts and reads the rollout ring definitions.
Start(r, c) ==
  /\ pc[r] = "idle"
  /\ MayStart
  /\ pc' = [pc EXCEPT ![r] = "load"]
  /\ outcome' = [outcome EXCEPT ![r] = "none"]
  /\ config' = [config EXCEPT ![r] = c]
  /\ definitions' = [definitions EXCEPT ![r] = IF c.bkc THEN ringsFile ELSE NoRings]
  /\ UNCHANGED <<store, ringsFile, stored, todo, mirrored, document, seen, doomed, faults>>

LoadMetadata(r) ==
  /\ pc[r] = "load"
  /\ stored' = [stored EXCEPT ![r] = metadata]
  /\ Goto(r, IF r \in Refreshers THEN "preflight" ELSE "regenerate")
  /\ UNCHANGED <<store, ringsFile, config, definitions, todo, mirrored, document, seen, doomed, faults>>

\* What reading the JCAT can give; a read that fails three times is a fault.
ReadsJCAT(j) ==
  \/ j = jcat /\ NoFault
  \/ j = UnreadableJCAT /\ Fault

MayReadJCAT(needed, j) == IF needed THEN ReadsJCAT(j) ELSE j = NoJCAT /\ NoFault

PreflightRefuses(r, j) ==
  \/ Untagging(r, definitions[r])
  \/ BaseURLDropped(r)
  \/ Known(r) /\ ~SignatureKept(r, j)

\* Slip: what has a stored package is skipped, named by the metadata or not.
NotUploaded(r) == Firmware \ FirmwareOf(packages)

\* The entries ProcessVendor does not skip for being in the stored document.
NotIndexed(r) == Firmware \ FirmwareOf(Existing(r))

Preflight(r) ==
  /\ pc[r] = "preflight"
  /\ \E j \in {NoJCAT, jcat, UnreadableJCAT} :
       /\ MayReadJCAT(~config[r].signing /\ Known(r), j)
       /\ IF PreflightRefuses(r, j)
          THEN Exit(r, "refused")
          ELSE /\ Goto(r, "mirror")
               /\ todo' = [todo EXCEPT ![r] = NotIndexed(r)]
               /\ UNCHANGED <<config, definitions, stored, mirrored, document, seen, doomed>>
  /\ UNCHANGED <<store, ringsFile>>

\* processEntry: the package is stored, then its components are kept.
Mirror(r, f, b) ==
  /\ pc[r] = "mirror"
  /\ f \in todo[r]
  /\ packages' = packages \cup {[firmware |-> f, build |-> b]}
  /\ mirrored' = [mirrored EXCEPT ![r] = @ \cup {[firmware |-> f, build |-> b]}]
  /\ todo' = [todo EXCEPT ![r] = @ \ {f}]
  /\ UNCHANGED <<metadata, jcat, ringsFile, pc, config, definitions, stored, document, seen, doomed, outcome, faults>>

\* Slip: the components are kept before the package is known to be stored.
MirrorFailsKept(r, f) ==
  /\ pc[r] = "mirror"
  /\ f \in todo[r]
  /\ Fault
  /\ \E b \in Builds :
       mirrored' = [mirrored EXCEPT ![r] = @ \cup {[firmware |-> f, build |-> b]}]
  /\ todo' = [todo EXCEPT ![r] = @ \ {f}]
  /\ UNCHANGED <<store, ringsFile, pc, config, definitions, stored, document, seen, doomed, outcome>>

\* processEntry fails; a failed upload may still have stored the package.
MirrorFails(r, f) ==
  /\ pc[r] = "mirror"
  /\ f \in todo[r]
  /\ Fault
  /\ \/ UNCHANGED packages
     \/ \E b \in Builds : packages' = packages \cup {[firmware |-> f, build |-> b]}
  /\ todo' = [todo EXCEPT ![r] = @ \ {f}]
  /\ UNCHANGED <<metadata, jcat, ringsFile, pc, config, definitions, stored, mirrored, document, seen, doomed, outcome>>

\* A first signal: no further entry is processed, and what is mirrored is saved.
Interrupt(r) ==
  /\ pc[r] = "mirror"
  /\ todo[r] # {}
  /\ Fault
  /\ todo' = [todo EXCEPT ![r] = {}]
  /\ UNCHANGED <<store, ringsFile, pc, config, definitions, stored, mirrored, document, seen, doomed, outcome>>

\* Slip: the definitions read again are not checked before they are used.
ReloadedUnchecked(r, fresh) == IF config[r].bkc THEN fresh ELSE definitions[r]

\* The definitions a refresh publishes with: those read again, unless they
\* cannot be read or the document they give would be refused.
Reloaded(r, fresh) ==
  IF config[r].bkc /\ CheckTags(r, fresh, BuildDocument(r, fresh))
  THEN fresh ELSE definitions[r]

SaveMetadata(r) ==
  /\ pc[r] = "mirror"
  /\ todo[r] = {}
  /\ IF ~HasExisting(r) /\ mirrored[r] = {}
     THEN Exit(r, "nothing") /\ NoFault
     ELSE \E defs \in {Reloaded(r, ringsFile), definitions[r]} :
            /\ \/ defs = Reloaded(r, ringsFile) /\ NoFault
               \/ config[r].bkc /\ defs = definitions[r] /\ Fault
            /\ definitions' = [definitions EXCEPT ![r] = defs]
            /\ document' = [document EXCEPT ![r] = BuildDocument(r, defs)]
            /\ Goto(r, "readJCAT")
            /\ UNCHANGED <<config, stored, todo, mirrored, seen, doomed>>
  /\ UNCHANGED <<store, ringsFile>>

RegenerateMetadata(r) ==
  /\ pc[r] = "regenerate"
  /\ IF ~HasExisting(r)
     THEN Exit(r, "refused")
     ELSE /\ document' = [document EXCEPT ![r] = BuildDocument(r, definitions[r])]
          /\ Goto(r, "readJCAT")
          /\ UNCHANGED <<config, definitions, stored, todo, mirrored, seen, doomed>>
  /\ UNCHANGED <<store, ringsFile, faults>>

ReadStoredJCAT(r) ==
  /\ pc[r] = "readJCAT"
  /\ MayPublish
  /\ \E j \in {NoJCAT, jcat, UnreadableJCAT} :
       /\ MayReadJCAT(ChecksState(r) \/ (~config[r].signing /\ Known(r)), j)
       /\ seen' = [seen EXCEPT ![r] = j]
  /\ Goto(r, "settle")
  /\ UNCHANGED <<store, ringsFile, config, definitions, stored, todo, mirrored, document, doomed>>

\* The store cannot be asked whether the metadata was published meanwhile.
LeaveUnverified(r) ==
  /\ pc[r] = "settle"
  /\ ChecksState(r)
  /\ Fault
  /\ Exit(r, IF Unchanged(r) THEN "unchecked" ELSE "unverified")
  /\ UNCHANGED <<store, ringsFile>>

LeaveAlone(r) ==
  /\ pc[r] = "settle"
  /\ ChecksState(r)
  /\ Settled(r) \in {"republished", "unchecked"}
  /\ Exit(r, Settled(r))
  /\ UNCHANGED <<store, ringsFile, faults>>

\* After a publish, or none needed, a refresh deletes what is not referenced.
Reclaim(r, how) ==
  IF config[r].cleanup
  THEN /\ pc' = [pc EXCEPT ![r] = "cleanup"]
       /\ outcome' = [outcome EXCEPT ![r] = how]
       /\ UNCHANGED <<config, definitions, todo, mirrored, document, seen, doomed>>
       /\ stored' = [stored EXCEPT ![r] = document[r]]
  ELSE Exit(r, how)

KeepUnchanged(r) ==
  /\ pc[r] = "settle"
  /\ ChecksState(r)
  /\ Settled(r) = "unchanged"
  /\ Reclaim(r, "unchanged")
  /\ UNCHANGED <<store, ringsFile, faults>>

\* Slip: the JCAT is left for after the commit point.
DecideToWriteMetadataFirst(r) ==
  /\ pc[r] = "settle"
  /\ ChecksState(r) => Settled(r) = "write"
  /\ IF Refuses(r)
     THEN Exit(r, "refused")
     ELSE Goto(r, "writeMetadata") /\ UNCHANGED work
  /\ UNCHANGED <<store, ringsFile, faults>>

DecideToWrite(r) ==
  /\ pc[r] = "settle"
  /\ ChecksState(r) => Settled(r) = "write"
  /\ IF Refuses(r)
     THEN Exit(r, "refused")
     ELSE Goto(r, "writeJCAT") /\ UNCHANGED work
  /\ UNCHANGED <<store, ringsFile, faults>>

WriteJCAT(r) ==
  /\ pc[r] = "writeJCAT"
  /\ jcat' = [file |-> document[r], signed |-> config[r].signing]
  /\ Goto(r, "writeMetadata")
  /\ UNCHANGED <<metadata, packages, ringsFile, work, faults>>

\* The commit point.
WriteMetadata(r) ==
  /\ pc[r] = "writeMetadata"
  /\ metadata' = document[r]
  /\ Reclaim(r, "written")
  /\ UNCHANGED <<jcat, packages, ringsFile, faults>>

\* Slip: objects that are not packages are listed too.
ListObjects(r) ==
  /\ pc[r] = "cleanup"
  /\ doomed' = [doomed EXCEPT ![r] = (packages \cup {metadata}) \ document[r].packages]
  /\ Goto(r, "delete")
  /\ UNCHANGED <<store, ringsFile, config, definitions, stored, todo, mirrored, document, seen, faults>>

\* Slip: packages are compared with what this run mirrored.
ListPackagesNotMirrored(r) ==
  /\ pc[r] = "cleanup"
  /\ doomed' = [doomed EXCEPT ![r] = packages \ mirrored[r]]
  /\ Goto(r, "delete")
  /\ UNCHANGED <<store, ringsFile, config, definitions, stored, todo, mirrored, document, seen, faults>>

ListPackages(r) ==
  /\ pc[r] = "cleanup"
  /\ doomed' = [doomed EXCEPT ![r] = packages \ document[r].packages]
  /\ Goto(r, "delete")
  /\ UNCHANGED <<store, ringsFile, config, definitions, stored, todo, mirrored, document, seen, faults>>

DeletePackage(r, p) ==
  /\ pc[r] = "delete"
  /\ p \in doomed[r]
  /\ packages' = packages \ {p}
  /\ doomed' = [doomed EXCEPT ![r] = @ \ {p}]
  /\ UNCHANGED <<metadata, jcat, ringsFile, pc, config, definitions, stored, todo, mirrored, document, seen, outcome, faults>>

DeleteFails(r, p) ==
  /\ pc[r] = "delete"
  /\ p \in doomed[r]
  /\ Fault
  /\ doomed' = [doomed EXCEPT ![r] = @ \ {p}]
  /\ UNCHANGED <<store, ringsFile, pc, config, definitions, stored, todo, mirrored, document, seen, outcome>>

FinishCleanup(r) ==
  /\ pc[r] = "delete"
  /\ doomed[r] = {}
  /\ Exit(r, outcome[r])
  /\ UNCHANGED <<store, ringsFile, faults>>

\* A crash, a second signal, or an access to the store that keeps failing.  A
\* write that reports an error may have been made, which is the same as a crash
\* after it.
Abort(r) ==
  /\ pc[r] # "idle"
  /\ Fault
  /\ Exit(r, "aborted")
  /\ UNCHANGED <<store, ringsFile>>

\* The operators edit the definitions file, as `bkc promote' does.
EditRings(defs) ==
  /\ ringsFile' = defs
  /\ UNCHANGED <<store, pc, work, outcome, faults>>

\* The metadata file is deleted by something else than firmirror.
LoseMetadata ==
  /\ metadata # NoDocument
  /\ Fault
  /\ metadata' = NoDocument
  /\ UNCHANGED <<jcat, packages, ringsFile, pc, work, outcome>>

Init ==
  /\ metadata \in InitialDocuments \cup {NoDocument}
  /\ packages = IF metadata = NoDocument THEN {} ELSE metadata.packages
  /\ jcat \in IF metadata = NoDocument
              THEN {NoJCAT}
              ELSE NotAJCAT \cup [file : {metadata}, signed : BOOLEAN]
  /\ ringsFile \in RingFiles
  /\ pc = [r \in Runs |-> "idle"]
  /\ config = [r \in Runs |-> IdleConfig]
  /\ definitions = [r \in Runs |-> NoRings]
  /\ stored = [r \in Runs |-> NoDocument]
  /\ todo = [r \in Runs |-> {}]
  /\ mirrored = [r \in Runs |-> {}]
  /\ document = [r \in Runs |-> NoDocument]
  /\ seen = [r \in Runs |-> NoJCAT]
  /\ doomed = [r \in Runs |-> {}]
  /\ outcome = [r \in Runs |-> "none"]
  /\ faults = 0

\* What a process does of itself, once started.
Progress(r) ==
  \/ LoadMetadata(r)
  \/ Preflight(r)
  \/ \E f \in Firmware, b \in Builds : Mirror(r, f, b)
  \/ SaveMetadata(r)
  \/ RegenerateMetadata(r)
  \/ ReadStoredJCAT(r)
  \/ LeaveAlone(r)
  \/ KeepUnchanged(r)
  \/ DecideToWrite(r)
  \/ WriteJCAT(r)
  \/ WriteMetadata(r)
  \/ ListPackages(r)
  \/ \E p \in Package : DeletePackage(r, p)
  \/ FinishCleanup(r)

\* What goes wrong around a process.
Trouble(r) ==
  \/ \E f \in Firmware : MirrorFails(r, f)
  \/ Interrupt(r)
  \/ LeaveUnverified(r)
  \/ \E p \in Package : DeleteFails(r, p)
  \/ Abort(r)

Next ==
  \/ \E r \in Runs :
       \/ \E c \in ConfigsOf(r) : Start(r, c)
       \/ Progress(r)
       \/ Trouble(r)
  \/ \E defs \in RingFiles : EditRings(defs)
  \/ LoseMetadata

Spec == Init /\ [][Next]_vars

(***************************************************************************)
(* A started process runs until it ends, and the CronJob of a refresh      *)
(* starts the next one; a regeneration is started by hand, if ever.        *)
(***************************************************************************)
FairSpec ==
  /\ Spec
  /\ \A r \in Runs : WF_vars(Progress(r))
  /\ \A r \in Refreshers : WF_vars(\E c \in RefreshConfigs : Start(r, c))

-----------------------------------------------------------------------------
Labels == {"idle", "load", "preflight", "mirror", "regenerate", "readJCAT",
           "settle", "writeJCAT", "writeMetadata", "cleanup", "delete"}

Outcomes == {"none", "aborted", "refused", "nothing", "written", "unchanged",
             "republished", "unchecked", "unverified"}

(***************************************************************************)
(* Type invariant: what the store, the definitions file and the fields of  *)
(* FirmirrorSyncer can hold.                                               *)
(***************************************************************************)
TypeOK ==
  /\ metadata \in Document \cup {NoDocument}
  /\ jcat \in JCAT \cup NotAJCAT
  /\ packages \subseteq Package
  /\ ringsFile \in Definitions
  /\ pc \in [Runs -> Labels]
  /\ config \in [Runs -> Config]
  /\ definitions \in [Runs -> Definitions]
  /\ stored \in [Runs -> Document \cup {NoDocument}]
  /\ todo \in [Runs -> SUBSET Firmware]
  /\ mirrored \in [Runs -> SUBSET Package]
  /\ document \in [Runs -> Document \cup {NoDocument}]
  /\ seen \in [Runs -> JCAT \cup NotAJCAT]
  /\ doomed \in [Runs -> SUBSET Package]
  /\ outcome \in [Runs -> Outcomes]
  /\ faults \in 0 .. MaxFaults

(***************************************************************************)
(* Every package the stored metadata names is stored: uploads come before  *)
(* the publish that names them (processEntry before SaveMetadata), and     *)
(* removeUnreferencedPackages deletes only after it, against the document  *)
(* just published.                                                         *)
(***************************************************************************)
NoDanglingPackage ==
  metadata # NoDocument => metadata.packages \subseteq packages

(***************************************************************************)
(* The runs together keep the promise of Mirror to the clients of the      *)
(* store: they are shown the store and the document of the JCAT, and of a  *)
(* run nothing.                                                            *)
(***************************************************************************)
announced == IF jcat \in NotAJCAT THEN NoDocument ELSE jcat.file

Promise == INSTANCE Mirror
             WITH metadata <- metadata, announced <- announced, packages <- packages

MirrorPromise == Promise!Spec

(***************************************************************************)
(* A publish never takes firmware out of the metadata, whatever the run    *)
(* mirrored, failed to mirror or found changed (buildDocument merges with  *)
(* what the run loaded).  A document of another schema is dropped whole.   *)
(***************************************************************************)
FirmwareKept ==
  [][ metadata # NoDocument /\ metadata' # NoDocument /\ metadata.schema = "current"
        => FirmwareOf(metadata.packages) \subseteq FirmwareOf(metadata'.packages) ]_vars

Writing(r) == pc[r] = "writeMetadata" /\ pc'[r] # "writeMetadata"

(***************************************************************************)
(* A ring loses its tag only by force, or when the definitions still serve *)
(* it a version the mirror does not have; and a document with some tag is  *)
(* not replaced by one with none (untagging, noRingTag), also when the     *)
(* definitions were edited while the run was mirroring.                    *)
(***************************************************************************)
RingsKept ==
  [][ metadata # NoDocument /\ metadata' # NoDocument
        => \A ring \in DocumentTags(metadata) \ DocumentTags(metadata') :
             \E r \in Runs :
               /\ Writing(r)
               /\ \/ config[r].force
                  \/ /\ ring \in PossibleTags(definitions[r])
                     /\ metadata.schema = "current" => DocumentTags(metadata') # {} ]_vars

(***************************************************************************)
(* Locations that are URLs become bare names only when a run drops the     *)
(* base URL (baseURLDropped).                                              *)
(***************************************************************************)
BaseURLKept ==
  [][ metadata # NoDocument /\ metadata' # NoDocument
        /\ metadata.absolute /\ ~metadata'.absolute
        => \E r \in Runs : Writing(r) /\ config[r].dropBaseURL ]_vars

(***************************************************************************)
(* README.md:309, "A signed JCAT is never replaced by one holding only     *)
(* checksums unless --stop-signing says so".                               *)
(***************************************************************************)
SignedNeverReplaced ==
  [][ Signed(jcat) /\ ~Signed(jcat')
        => \E r \in Runs : pc[r] = "writeJCAT" /\ config[r].stopSigning ]_vars

(***************************************************************************)
(* What the code does of it (signatureKept): a JCAT that is or may be      *)
(* signed is replaced by one that is not only when signing stops on        *)
(* purpose, or over a store that had no metadata when the run read it,     *)
(* whose JCAT the run never looks at.                                      *)
(***************************************************************************)
SignatureOfMetadataKept ==
  [][ (Signed(jcat) \/ jcat = UnreadableJCAT) /\ jcat' # jcat /\ ~Signed(jcat')
        => \E r \in Runs :
             /\ pc[r] = "writeJCAT"
             /\ config[r].stopSigning \/ stored[r] = NoDocument ]_vars

(***************************************************************************)
(* Preflight "fails, before anything is mirrored, on what the final        *)
(* publish would refuse", whatever the definitions say by then: a refresh  *)
(* is refused after it mirrored firmware only when no ring tag is left, or *)
(* when the JCAT can no longer be read.                                    *)
(***************************************************************************)
RefusedBeforeMirroring ==
  [][ \A r \in Refreshers :
        pc[r] = "settle" /\ outcome'[r] = "refused" /\ mirrored[r] # {}
        => NoRingTag(r, document[r]) \/ seen[r] = UnreadableJCAT ]_vars

(***************************************************************************)
(* A run that says it published, or that nothing changed, leaves metadata  *)
(* with its own JCAT, signed when the run has keys; the interrupted        *)
(* publish of an earlier run is repaired, not taken for unchanged          *)
(* (settled, storedJCATCurrent).                                           *)
(***************************************************************************)
SuccessIsConsistent ==
  [][ \A r \in Runs :
        /\ pc[r] \in {"settle", "writeMetadata"}
        /\ outcome'[r] \in {"written", "unchanged"}
        => \/ metadata' = NoDocument
           \/ /\ HasChecksum(jcat', metadata')
              /\ config[r].signing => Signed(jcat') ]_vars

(***************************************************************************)
(* A refresh with an identical document leaves the store alone, so clients *)
(* do not download the metadata again (README.md:309): it writes only what *)
(* is different, not beside its JCAT, not signed as asked, or unreadable.  *)
(***************************************************************************)
NoNeedlessPublish ==
  \A r \in Refreshers :
    pc[r] = "writeJCAT" =>
      \/ document[r] # metadata
      \/ ~HasChecksum(jcat, metadata)
      \/ config[r].signing /\ ~Signed(jcat)
      \/ seen[r] = UnreadableJCAT

JCATTells(r) ==
  pc[r] = "readJCAT" /\ pc'[r] = "settle" /\ HasChecksum(seen'[r], stored[r])
    => metadata \in {stored[r], NoDocument}

(***************************************************************************)
(* The comment in settled, "A JCAT holding the checksum of the file this   *)
(* run read shows nothing was published since, as the JCAT is written      *)
(* before the metadata": what keeps a run that mirrored nothing from       *)
(* replacing what another one published while it worked.                   *)
(***************************************************************************)
JCATShowsNothingPublished ==
  [][ \A r \in Runs : JCATTells(r) ]_vars

(***************************************************************************)
(* It does as long as nothing failed: then the JCAT is the metadata's      *)
(* whenever nothing is being published.                                    *)
(***************************************************************************)
JCATShowsNothingPublishedUnlessCrashed ==
  [][ faults' = 0 => \A r \in Runs : JCATTells(r) ]_vars

(***************************************************************************)
(* Metadata and JCAT are always matched again, whatever crash came between *)
(* the two writes, as long as refreshes are started.                       *)
(***************************************************************************)
AlwaysRepaired ==
  []<>(metadata # NoDocument /\ HasChecksum(jcat, metadata))

(***************************************************************************)
(* Firmware whose mirroring failed or was interrupted is mirrored by a     *)
(* later refresh: from some time on the metadata names all of it.          *)
(***************************************************************************)
EventuallyAllMirrored ==
  <>[](metadata # NoDocument /\ FirmwareOf(metadata.packages) = Firmware)
=============================================================================
