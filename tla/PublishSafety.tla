--------------------------- MODULE PublishSafety ---------------------------
(***************************************************************************)
(* Theorems about Publish, for any firmware, rings, options and number of  *)
(* runs: the types, in every regime of overlap; no dangling package, no    *)
(* firmware lost and the promise of Mirror kept, of runs that do not       *)
(* overlap and, as long as nobody deletes the metadata, of runs that only  *)
(* publish one at a time; no dangling package of any runs that never       *)
(* delete; and what the JCAT tells about other runs.                       *)
(***************************************************************************)
EXTENDS Publish, TLAPS

-----------------------------------------------------------------------------
(***************************************************************************)
(* Types.                                                                  *)
(***************************************************************************)
\* No ring serves anything: what a run without --bkc.file holds.
LEMMA NoRingsType == NoRings \in Definitions
BY DEF NoRings, Definitions

\* A process that has ended has options too.
LEMMA IdleConfigType == IdleConfig \in Config
BY DEF IdleConfig, Config

\* Whatever process is started, its options are options.
LEMMA ConfigsType == \A r \in Runs : ConfigsOf(r) \subseteq Config
BY ConfigAssumption DEF ConfigsOf, Runs

\* What a run publishes is a document of the current schema.
LEMMA BuildDocumentType ==
  ASSUME TypeOK, NEW r \in Runs, NEW defs \in Definitions
  PROVE  /\ BuildDocument(r, defs) \in Document
         /\ BuildDocument(r, defs).schema = "current"
<1> DEFINE pkgs == MergeComponents(Existing(r), mirrored[r], config[r].cleanup)
<1>1. pkgs \subseteq Package
  BY DEF MergeComponents, Existing, HasExisting, Known, TypeOK, Document
<1>2. [ring \in Rings |-> defs[ring] \cap FirmwareOf(pkgs)] \in Definitions
  BY DEF Definitions
<1>3. (config[r].baseURL /\ pkgs # {}) \in BOOLEAN
  OBVIOUS
<1> QED
  BY <1>1, <1>2, <1>3 DEF BuildDocument, Document, Schema

\* What WriteJCAT stores is a JCAT.
LEMMA WrittenJCATType ==
  ASSUME TypeOK, NEW r \in Runs, document[r] \in Document
  PROVE  [file |-> document[r], signed |-> config[r].signing] \in JCAT
BY DEF TypeOK, JCAT, Config

\* What a process that ends leaves of its fields.
LEMMA ExitType ==
  ASSUME TypeOK, NEW r \in Runs, NEW how \in Outcomes, Exit(r, how)
  PROVE  /\ pc' \in [Runs -> Labels]
         /\ outcome' \in [Runs -> Outcomes]
         /\ config' \in [Runs -> Config]
         /\ definitions' \in [Runs -> Definitions]
         /\ stored' \in [Runs -> Document \cup {NoDocument}]
         /\ todo' \in [Runs -> SUBSET Firmware]
         /\ mirrored' \in [Runs -> SUBSET Package]
         /\ document' \in [Runs -> Document \cup {NoDocument}]
         /\ seen' \in [Runs -> JCAT \cup NotAJCAT]
         /\ doomed' \in [Runs -> SUBSET Package]
BY NoRingsType, IdleConfigType DEF TypeOK, Exit, Labels, NotAJCAT

\* What reading the JCAT gives, and the fault it may take.
LEMMA ReadsJCATType ==
  ASSUME TypeOK, NEW needed \in BOOLEAN, NEW j, MayReadJCAT(needed, j)
  PROVE  j \in JCAT \cup NotAJCAT /\ faults' \in 0 .. MaxFaults
BY ConfigAssumption DEF TypeOK, MayReadJCAT, ReadsJCAT, Fault, NoFault, NotAJCAT

-----------------------------------------------------------------------------
(***************************************************************************)
(* Type correctness.  WriteJCAT and WriteMetadata store document[r], so    *)
(* TypeOK is inductive only with the fact that a run that reached them has *)
(* built a document.                                                       *)
(***************************************************************************)
Built == {"readJCAT", "settle", "writeJCAT", "writeMetadata", "cleanup", "delete"}

HasDocument ==
  \A r \in Runs : pc[r] \in Built =>
    document[r] \in Document /\ document[r].schema = "current"

TypeInv == TypeOK /\ HasDocument

\* The types hold initially.
LEMMA TypeInit == Init => TypeInv
<1> SUFFICES ASSUME Init PROVE TypeInv
  OBVIOUS
<1>1. metadata \in Document \cup {NoDocument}
  BY ConfigAssumption DEF Init
<1>2. packages \subseteq Package
  BY <1>1 DEF Init, Document
<1>3. jcat \in JCAT \cup NotAJCAT
  BY <1>1 DEF Init, JCAT, NotAJCAT
<1>4. TypeOK
  BY <1>1, <1>2, <1>3, NoRingsType, IdleConfigType, ConfigAssumption
  DEF Init, TypeOK, Labels, Outcomes, NotAJCAT
<1>5. HasDocument
  BY DEF Init, HasDocument, Built
<1> QED
  BY <1>4, <1>5 DEF TypeInv

\* A process that ends keeps the types.
LEMMA ExitTypeInv ==
  ASSUME TypeInv, NEW r \in Runs, NEW how \in Outcomes, Exit(r, how),
         metadata' = metadata, jcat' = jcat, packages' = packages,
         ringsFile' = ringsFile, faults' \in 0 .. MaxFaults
  PROVE  TypeInv'
<1>1. TypeOK'
  BY ExitType DEF TypeInv, TypeOK
<1>2. HasDocument'
  BY DEF TypeInv, TypeOK, HasDocument, Exit, Built
<1> QED
  BY <1>1, <1>2 DEF TypeInv

\* A process that goes on to delete packages, or ends, keeps the types.
LEMMA ReclaimTypeInv ==
  ASSUME TypeInv, NEW r \in Runs, pc[r] \in Built, NEW how \in Outcomes, Reclaim(r, how),
         metadata' \in Document \cup {NoDocument}, jcat' = jcat, packages' = packages,
         ringsFile' = ringsFile, faults' = faults
  PROVE  TypeInv'
<1>1. CASE config[r].cleanup
  BY <1>1 DEF TypeInv, TypeOK, HasDocument, Reclaim, Labels, Built
<1>2. CASE ~config[r].cleanup
  <2>1. Exit(r, how)
    BY <1>2 DEF Reclaim
  <2>2. TypeOK'
    BY <2>1, ExitType DEF TypeInv, TypeOK
  <2>3. HasDocument'
    BY <2>1 DEF TypeInv, TypeOK, HasDocument, Exit, Built
  <2> QED
    BY <2>2, <2>3 DEF TypeInv
<1> QED
  BY <1>1, <1>2

\* One step of a process, started or not, keeps the types.
LEMMA TypeRun ==
  ASSUME TypeInv, NEW r \in Runs,
         (\E c \in ConfigsOf(r) : Start(r, c)) \/ Progress(r) \/ Trouble(r)
  PROVE  TypeInv'
<1> USE DEF TypeInv
<1>1. CASE \E c \in ConfigsOf(r) : Start(r, c)
  BY <1>1, ConfigsType, NoRingsType
  DEF Start, store, TypeOK, HasDocument, Labels, Outcomes, Built
<1>2. CASE LoadMetadata(r)
  BY <1>2 DEF LoadMetadata, Goto, store, TypeOK, HasDocument, Labels, Built
<1>3. CASE Preflight(r)
  <2>1. PICK j : /\ MayReadJCAT(~config[r].signing /\ Known(r), j)
                 /\ IF PreflightRefuses(r, j)
                    THEN Exit(r, "refused")
                    ELSE /\ Goto(r, "mirror")
                         /\ todo' = [todo EXCEPT ![r] = NotIndexed(r)]
                         /\ UNCHANGED <<config, definitions, stored, mirrored, document, seen, doomed>>
    BY <1>3 DEF Preflight
  <2>2. faults' \in 0 .. MaxFaults
    BY <2>1, ReadsJCATType DEF Known
  <2>3. UNCHANGED <<store, ringsFile>>
    BY <1>3 DEF Preflight
  <2>4. CASE PreflightRefuses(r, j)
    BY <2>1, <2>2, <2>3, <2>4, ExitTypeInv DEF store, Outcomes
  <2>5. CASE ~PreflightRefuses(r, j)
    BY <2>1, <2>2, <2>3, <2>5 DEF Goto, NotIndexed, store, TypeOK, HasDocument, Labels, Built
  <2> QED
    BY <2>4, <2>5
<1>4. CASE \E f \in Firmware, b \in Builds : Mirror(r, f, b)
  BY <1>4 DEF Mirror, TypeOK, HasDocument, Package, Built
<1>5. CASE SaveMetadata(r)
  <2>1. CASE ~HasExisting(r) /\ mirrored[r] = {}
    BY <1>5, <2>1, ExitTypeInv DEF SaveMetadata, NoFault, store, Outcomes, TypeOK
  <2>2. CASE ~(~HasExisting(r) /\ mirrored[r] = {})
    <3>1. PICK defs \in {Reloaded(r, ringsFile), definitions[r]} :
            /\ \/ defs = Reloaded(r, ringsFile) /\ NoFault
               \/ config[r].bkc /\ defs = definitions[r] /\ Fault
            /\ definitions' = [definitions EXCEPT ![r] = defs]
            /\ document' = [document EXCEPT ![r] = BuildDocument(r, defs)]
            /\ Goto(r, "readJCAT")
            /\ UNCHANGED <<config, stored, todo, mirrored, seen, doomed>>
      BY <1>5, <2>2 DEF SaveMetadata
    <3>2. defs \in Definitions
      BY <3>1 DEF Reloaded, TypeOK
    <3>3. BuildDocument(r, defs) \in Document /\ BuildDocument(r, defs).schema = "current"
      BY <3>2, BuildDocumentType
    <3>4. faults' \in 0 .. MaxFaults
      BY <3>1, ConfigAssumption DEF Fault, NoFault, TypeOK
    <3>5. UNCHANGED <<store, ringsFile>>
      BY <1>5 DEF SaveMetadata
    <3> QED
      BY <3>1, <3>2, <3>3, <3>4, <3>5 DEF Goto, store, TypeOK, HasDocument, Labels, Built
  <2> QED
    BY <2>1, <2>2
<1>6. CASE RegenerateMetadata(r)
  <2>1. CASE ~HasExisting(r)
    BY <1>6, <2>1, ExitTypeInv DEF RegenerateMetadata, store, Outcomes, TypeOK
  <2>2. CASE HasExisting(r)
    <3>1. BuildDocument(r, definitions[r]) \in Document
          /\ BuildDocument(r, definitions[r]).schema = "current"
      BY BuildDocumentType DEF TypeOK
    <3> QED
      BY <1>6, <2>2, <3>1
      DEF RegenerateMetadata, Goto, store, TypeOK, HasDocument, Labels, Built
  <2> QED
    BY <2>1, <2>2
<1>7. CASE ReadStoredJCAT(r)
  <2>1. PICK j : /\ MayReadJCAT(ChecksState(r) \/ (~config[r].signing /\ Known(r)), j)
                 /\ seen' = [seen EXCEPT ![r] = j]
    BY <1>7 DEF ReadStoredJCAT
  <2>2. j \in JCAT \cup NotAJCAT /\ faults' \in 0 .. MaxFaults
    BY <2>1, ReadsJCATType DEF ChecksState, Known
  <2> QED
    BY <1>7, <2>1, <2>2
    DEF ReadStoredJCAT, Goto, store, TypeOK, HasDocument, Labels, Built
<1>8. CASE LeaveUnverified(r)
  <2>1. faults' \in 0 .. MaxFaults
    BY <1>8, ConfigAssumption DEF LeaveUnverified, Fault, TypeOK
  <2> QED
    BY <1>8, <2>1, ExitTypeInv DEF LeaveUnverified, store, Outcomes
<1>9. CASE LeaveAlone(r)
  BY <1>9, ExitTypeInv DEF LeaveAlone, store, Outcomes, TypeOK
<1>10. CASE KeepUnchanged(r)
  BY <1>10, ReclaimTypeInv DEF KeepUnchanged, store, Outcomes, TypeOK, Built
<1>11. CASE DecideToWrite(r)
  <2>1. CASE Refuses(r)
    BY <1>11, <2>1, ExitTypeInv DEF DecideToWrite, store, Outcomes, TypeOK
  <2>2. CASE ~Refuses(r)
    BY <1>11, <2>2 DEF DecideToWrite, Goto, store, work, TypeOK, HasDocument, Labels, Built
  <2> QED
    BY <2>1, <2>2
<1>12. CASE WriteJCAT(r)
  <2>1. [file |-> document[r], signed |-> config[r].signing] \in JCAT
    BY <1>12, WrittenJCATType DEF WriteJCAT, HasDocument, Built
  <2> QED
    BY <1>12, <2>1 DEF WriteJCAT, Goto, work, TypeOK, HasDocument, Labels, Built
<1>13. CASE WriteMetadata(r)
  BY <1>13, ReclaimTypeInv DEF WriteMetadata, Outcomes, TypeOK, Built
<1>14. CASE ListPackages(r)
  BY <1>14 DEF ListPackages, Goto, store, TypeOK, HasDocument, Labels, Built
<1>15. CASE \E p \in Package : DeletePackage(r, p)
  BY <1>15 DEF DeletePackage, TypeOK, HasDocument, Built
<1>16. CASE FinishCleanup(r)
  BY <1>16, ExitTypeInv DEF FinishCleanup, store, TypeOK
<1>17. CASE \E f \in Firmware : MirrorFails(r, f)
  BY <1>17, ConfigAssumption DEF MirrorFails, Fault, TypeOK, HasDocument, Package, Built
<1>18. CASE Interrupt(r)
  BY <1>18, ConfigAssumption DEF Interrupt, Fault, store, TypeOK, HasDocument, Built
<1>19. CASE \E p \in Package : DeleteFails(r, p)
  BY <1>19, ConfigAssumption DEF DeleteFails, Fault, store, TypeOK, HasDocument, Built
<1>20. CASE Abort(r)
  <2>1. faults' \in 0 .. MaxFaults
    BY <1>20, ConfigAssumption DEF Abort, Fault, TypeOK
  <2> QED
    BY <1>20, <2>1, ExitTypeInv DEF Abort, store, Outcomes
<1> QED
  BY <1>1, <1>2, <1>3, <1>4, <1>5, <1>6, <1>7, <1>8, <1>9, <1>10, <1>11, <1>12,
     <1>13, <1>14, <1>15, <1>16, <1>17, <1>18, <1>19, <1>20
  DEF Progress, Trouble

\* Every step keeps the types.
LEMMA TypeStep == TypeInv /\ [Next]_vars => TypeInv'
<1> SUFFICES ASSUME TypeInv, [Next]_vars PROVE TypeInv'
  OBVIOUS
<1>1. CASE \E r \in Runs :
             (\E c \in ConfigsOf(r) : Start(r, c)) \/ Progress(r) \/ Trouble(r)
  BY <1>1, TypeRun
<1>2. CASE \E defs \in RingFiles : EditRings(defs)
  BY <1>2, ConfigAssumption DEF EditRings, store, work, TypeInv, TypeOK, HasDocument
<1>3. CASE LoseMetadata
  BY <1>3, ConfigAssumption DEF LoseMetadata, Fault, work, TypeInv, TypeOK, HasDocument
<1>4. CASE UNCHANGED vars
  BY <1>4 DEF vars, store, work, TypeInv, TypeOK, HasDocument
<1> QED
  BY <1>1, <1>2, <1>3, <1>4 DEF Next

(***************************************************************************)
(* Whatever runs overlap and whatever fails, the store, the definitions    *)
(* file and the fields of every run hold what they are declared to.        *)
(***************************************************************************)
THEOREM TypeCorrect == Spec => []TypeOK
<1>1. Init => TypeInv
  BY TypeInit
<1>2. TypeInv /\ [Next]_vars => TypeInv'
  BY TypeStep
<1>3. TypeInv => TypeOK
  BY DEF TypeInv
<1> QED
  BY <1>1, <1>2, <1>3, PTL DEF Spec

-----------------------------------------------------------------------------
(***************************************************************************)
(* Runs that do not overlap.                                               *)
(***************************************************************************)
Serial == Overlap = "none"

(***************************************************************************)
(* The inductive invariant.  While a run works, nothing but a loss of the  *)
(* metadata changes what it read; so what it builds names stored packages  *)
(* and the firmware of the document it replaces, is announced before it is *)
(* published, and is what the metadata is when packages are deleted.       *)
(***************************************************************************)
OneAtATime ==
  \A q, r \in Runs : pc[q] # "idle" /\ pc[r] # "idle" => q = r

Gathering == {"preflight", "mirror", "regenerate"}
Deciding  == {"readJCAT", "settle", "writeJCAT", "writeMetadata"}
Cleaning  == {"cleanup", "delete"}

RunInv(r) ==
  /\ pc[r] \in {"idle", "load"} => mirrored[r] = {}
  /\ pc[r] \in Gathering =>
       /\ mirrored[r] \subseteq packages
       /\ Known(r) => stored[r].packages \subseteq packages
  /\ pc[r] \in Gathering \cup Deciding => metadata \in {stored[r], NoDocument}
  /\ pc[r] \in Deciding \cup Cleaning => document[r].packages \subseteq packages
  /\ pc[r] \in Deciding => FirmwareOf(Existing(r)) \subseteq FirmwareOf(document[r].packages)
  /\ pc[r] = "writeMetadata" => HasChecksum(jcat, document[r])
  /\ pc[r] \in Cleaning => metadata \in {document[r], NoDocument}
  /\ pc[r] = "delete" => doomed[r] \cap document[r].packages = {}

SafetyInv ==
  /\ TypeInv
  /\ OneAtATime
  /\ NoDanglingPackage
  /\ \A r \in Runs : RunInv(r)

RunStep(r) == (\E c \in ConfigsOf(r) : Start(r, c)) \/ Progress(r) \/ Trouble(r)

\* No process works yet, and the packages are those of the document left.
LEMMA SafetyInit == Init => SafetyInv
<1> SUFFICES ASSUME Init PROVE SafetyInv
  OBVIOUS
<1>1. TypeInv
  BY TypeInit
<1>2. NoDanglingPackage
  BY DEF Init, NoDanglingPackage
<1>3. OneAtATime /\ \A r \in Runs : RunInv(r)
  BY DEF Init, OneAtATime, RunInv, Gathering, Deciding, Cleaning
<1> QED
  BY <1>1, <1>2, <1>3 DEF SafetyInv

\* A step of one process moves no other one.
LEMMA Frame ==
  ASSUME TypeOK, NEW r \in Runs, RunStep(r), NEW q \in Runs, q # r
  PROVE  /\ pc'[q] = pc[q] /\ config'[q] = config[q] /\ stored'[q] = stored[q]
         /\ todo'[q] = todo[q] /\ mirrored'[q] = mirrored[q] /\ document'[q] = document[q]
         /\ seen'[q] = seen[q] /\ doomed'[q] = doomed[q]
<1> USE DEF TypeOK, Exit, Goto, work
<1>1. CASE \E c \in ConfigsOf(r) : Start(r, c)
  BY <1>1 DEF Start
<1>2. CASE LoadMetadata(r) \/ Preflight(r) \/ SaveMetadata(r) \/ RegenerateMetadata(r)
  BY <1>2 DEF LoadMetadata, Preflight, SaveMetadata, RegenerateMetadata
<1>3. CASE \E f \in Firmware : (\E b \in Builds : Mirror(r, f, b)) \/ MirrorFails(r, f)
  BY <1>3 DEF Mirror, MirrorFails
<1>4. CASE ReadStoredJCAT(r) \/ LeaveAlone(r) \/ LeaveUnverified(r) \/ KeepUnchanged(r)
  BY <1>4 DEF ReadStoredJCAT, LeaveAlone, LeaveUnverified, KeepUnchanged, Reclaim
<1>5. CASE DecideToWrite(r) \/ WriteJCAT(r) \/ WriteMetadata(r)
  BY <1>5 DEF DecideToWrite, WriteJCAT, WriteMetadata, Reclaim
<1>6. CASE ListPackages(r) \/ FinishCleanup(r) \/ Interrupt(r) \/ Abort(r)
  BY <1>6 DEF ListPackages, FinishCleanup, Interrupt, Abort
<1>7. CASE \E p \in Package : DeletePackage(r, p) \/ DeleteFails(r, p)
  BY <1>7 DEF DeletePackage, DeleteFails
<1> QED
  BY <1>1, <1>2, <1>3, <1>4, <1>5, <1>6, <1>7 DEF RunStep, Progress, Trouble

\* The one that steps is the only one that works.
LEMMA OthersIdle ==
  ASSUME Serial, SafetyInv, NEW r \in Runs, RunStep(r), NEW q \in Runs, q # r
  PROVE  pc[q] = "idle"
<1>1. CASE pc[r] # "idle"
  BY <1>1 DEF SafetyInv, OneAtATime
<1>2. CASE pc[r] = "idle"
  <2>1. ~Progress(r) /\ ~Trouble(r)
    BY <1>2 DEF Progress, Trouble, LoadMetadata, Preflight, Mirror, SaveMetadata,
       RegenerateMetadata, ReadStoredJCAT, LeaveAlone, KeepUnchanged, DecideToWrite,
       WriteJCAT, WriteMetadata, ListPackages, DeletePackage, FinishCleanup, MirrorFails,
       Interrupt, LeaveUnverified, DeleteFails, Abort
  <2> QED
    BY <2>1 DEF RunStep, Start, MayStart, Serial
<1> QED
  BY <1>1, <1>2

\* What is built names what is stored, and all the firmware of what was read.
LEMMA BuildDocumentSafe ==
  ASSUME SafetyInv, NEW r \in Runs, pc[r] \in Gathering, NEW defs \in Definitions
  PROVE  /\ BuildDocument(r, defs).packages \subseteq packages
         /\ FirmwareOf(Existing(r)) \subseteq FirmwareOf(BuildDocument(r, defs).packages)
<1>1. mirrored[r] \subseteq packages /\ Existing(r) \subseteq packages
  BY DEF SafetyInv, RunInv, Existing, HasExisting
<1>2. BuildDocument(r, defs).packages
        = MergeComponents(Existing(r), mirrored[r], config[r].cleanup)
  BY DEF BuildDocument
<1> QED
  BY <1>1, <1>2 DEF MergeComponents, FirmwareOf

\* A process that ends owes nothing.
LEMMA ExitSafe ==
  ASSUME SafetyInv, NEW r \in Runs, NEW how, Exit(r, how), UNCHANGED store
  PROVE  RunInv(r)' /\ NoDanglingPackage'
<1>1. pc'[r] = "idle" /\ mirrored'[r] = {}
  BY DEF Exit, SafetyInv, TypeInv, TypeOK
<1> QED
  BY <1>1 DEF SafetyInv, RunInv, NoDanglingPackage, store, Gathering, Deciding, Cleaning

\* Packages are deleted once the metadata is the document of the run.
LEMMA ReclaimSafe ==
  ASSUME SafetyInv, NEW r \in Runs, pc[r] \in Deciding, NEW how, Reclaim(r, how),
         metadata' \in {document[r], NoDocument}, packages' = packages
  PROVE  RunInv(r)' /\ NoDanglingPackage'
<1>1. document[r].packages \subseteq packages
  BY DEF SafetyInv, RunInv
<1>2. NoDanglingPackage'
  BY <1>1 DEF NoDanglingPackage
<1>3. CASE config[r].cleanup
  BY <1>1, <1>2, <1>3 DEF Reclaim, SafetyInv, TypeInv, TypeOK, RunInv, Gathering, Deciding, Cleaning
<1>4. CASE ~config[r].cleanup
  <2>1. pc'[r] = "idle" /\ mirrored'[r] = {}
    BY <1>4 DEF Reclaim, Exit, SafetyInv, TypeInv, TypeOK
  <2> QED
    BY <1>2, <2>1 DEF RunInv, Gathering, Deciding, Cleaning
<1> QED
  BY <1>3, <1>4

\* A step of a process keeps its own part of the invariant.
LEMMA SafetyRun ==
  ASSUME SafetyInv, NEW r \in Runs, RunStep(r)
  PROVE  RunInv(r)' /\ NoDanglingPackage'
<1> TypeOK /\ RunInv(r) /\ NoDanglingPackage /\ r \in Runs
  BY DEF SafetyInv, TypeInv
<1> USE DEF TypeOK, Gathering, Deciding, Cleaning
<1>1. CASE \E c \in ConfigsOf(r) : Start(r, c)
  BY <1>1 DEF Start, store, RunInv, NoDanglingPackage
<1>2. CASE LoadMetadata(r)
  BY <1>2 DEF LoadMetadata, Goto, store, RunInv, NoDanglingPackage, Known
<1>3. CASE Preflight(r)
  <2>1. UNCHANGED store
    BY <1>3 DEF Preflight
  <2>2. PICK j : IF PreflightRefuses(r, j)
                 THEN Exit(r, "refused")
                 ELSE /\ Goto(r, "mirror")
                      /\ UNCHANGED <<config, definitions, stored, mirrored, document, seen, doomed>>
    BY <1>3 DEF Preflight
  <2>3. CASE PreflightRefuses(r, j)
    BY <2>1, <2>2, <2>3, ExitSafe
  <2>4. CASE ~PreflightRefuses(r, j)
    BY <1>3, <2>1, <2>2, <2>4 DEF Preflight, Goto, store, RunInv, NoDanglingPackage, Known
  <2> QED
    BY <2>3, <2>4
<1>4. CASE \E f \in Firmware, b \in Builds : Mirror(r, f, b)
  BY <1>4 DEF Mirror, RunInv, NoDanglingPackage, Known
<1>5. CASE SaveMetadata(r)
  <2>1. UNCHANGED store
    BY <1>5 DEF SaveMetadata
  <2>2. CASE ~HasExisting(r) /\ mirrored[r] = {}
    BY <1>5, <2>1, <2>2, ExitSafe DEF SaveMetadata
  <2>3. CASE ~(~HasExisting(r) /\ mirrored[r] = {})
    <3>1. PICK defs \in {Reloaded(r, ringsFile), definitions[r]} :
            /\ document' = [document EXCEPT ![r] = BuildDocument(r, defs)]
            /\ Goto(r, "readJCAT")
            /\ UNCHANGED <<config, stored, todo, mirrored, seen, doomed>>
      BY <1>5, <2>3 DEF SaveMetadata
    <3>2. defs \in Definitions
      BY <3>1 DEF Reloaded
    <3>3. pc[r] = "mirror"
      BY <1>5 DEF SaveMetadata
    <3>4. /\ BuildDocument(r, defs).packages \subseteq packages
          /\ FirmwareOf(Existing(r)) \subseteq FirmwareOf(BuildDocument(r, defs).packages)
      BY <3>2, <3>3, BuildDocumentSafe
    <3>5. Existing(r)' = Existing(r)
      BY <3>1 DEF Existing, HasExisting, Known
    <3> QED
      BY <2>1, <3>1, <3>3, <3>4, <3>5 DEF Goto, store, RunInv, NoDanglingPackage
  <2> QED
    BY <2>2, <2>3
<1>6. CASE RegenerateMetadata(r)
  <2>1. UNCHANGED store
    BY <1>6 DEF RegenerateMetadata
  <2>2. CASE ~HasExisting(r)
    BY <1>6, <2>1, <2>2, ExitSafe DEF RegenerateMetadata
  <2>3. CASE HasExisting(r)
    <3>1. /\ pc[r] = "regenerate"
          /\ document' = [document EXCEPT ![r] = BuildDocument(r, definitions[r])]
          /\ Goto(r, "readJCAT")
          /\ UNCHANGED <<config, definitions, stored, todo, mirrored, seen, doomed>>
      BY <1>6, <2>3 DEF RegenerateMetadata
    <3>2. /\ BuildDocument(r, definitions[r]).packages \subseteq packages
          /\ FirmwareOf(Existing(r))
               \subseteq FirmwareOf(BuildDocument(r, definitions[r]).packages)
      BY <3>1, BuildDocumentSafe
    <3>3. Existing(r)' = Existing(r)
      BY <3>1 DEF Existing, HasExisting, Known
    <3> QED
      BY <2>1, <3>1, <3>2, <3>3 DEF Goto, store, RunInv, NoDanglingPackage
  <2> QED
    BY <2>2, <2>3
<1>7. CASE ReadStoredJCAT(r)
  <2>1. Existing(r)' = Existing(r)
    BY <1>7 DEF ReadStoredJCAT, Existing, HasExisting, Known
  <2> QED
    BY <1>7, <2>1 DEF ReadStoredJCAT, Goto, store, RunInv, NoDanglingPackage
<1>8. CASE LeaveUnverified(r)
  BY <1>8, ExitSafe DEF LeaveUnverified
<1>9. CASE LeaveAlone(r)
  BY <1>9, ExitSafe DEF LeaveAlone
<1>10. CASE KeepUnchanged(r)
  <2>1. metadata \in {document[r], NoDocument}
    BY <1>10 DEF KeepUnchanged, Settled, Unchanged, RunInv
  <2>2. metadata' = metadata /\ packages' = packages
    BY <1>10 DEF KeepUnchanged, store
  <2> QED
    BY <1>10, <2>1, <2>2, ReclaimSafe DEF KeepUnchanged
<1>11. CASE DecideToWrite(r)
  <2>1. UNCHANGED store
    BY <1>11 DEF DecideToWrite
  <2>2. CASE Refuses(r)
    BY <1>11, <2>1, <2>2, ExitSafe DEF DecideToWrite
  <2>3. CASE ~Refuses(r)
    <3>1. Existing(r)' = Existing(r)
      BY <1>11, <2>3 DEF DecideToWrite, work, Existing, HasExisting, Known
    <3> QED
      BY <1>11, <2>1, <2>3, <3>1 DEF DecideToWrite, work, Goto, store, RunInv, NoDanglingPackage
  <2> QED
    BY <2>2, <2>3
<1>12. CASE WriteJCAT(r)
  <2>1. Existing(r)' = Existing(r)
    BY <1>12 DEF WriteJCAT, work, Existing, HasExisting, Known
  <2>2. HasChecksum(jcat', document[r])
    <3>1. document[r] \in Document
      BY <1>12 DEF WriteJCAT, SafetyInv, TypeInv, HasDocument, Built
    <3>2. jcat' \in JCAT /\ jcat'.file = document[r]
      BY <1>12, <3>1, WrittenJCATType DEF WriteJCAT
    <3> QED
      BY <3>2, AbsentAssumption DEF HasChecksum
  <2> QED
    BY <1>12, <2>1, <2>2 DEF WriteJCAT, work, Goto, RunInv, NoDanglingPackage, HasChecksum
<1>13. CASE WriteMetadata(r)
  BY <1>13, ReclaimSafe DEF WriteMetadata
<1>14. CASE ListPackages(r)
  BY <1>14 DEF ListPackages, Goto, store, RunInv, NoDanglingPackage
<1>15. CASE \E p \in Package : DeletePackage(r, p)
  BY <1>15 DEF DeletePackage, RunInv, NoDanglingPackage
<1>16. CASE FinishCleanup(r)
  BY <1>16, ExitSafe DEF FinishCleanup
<1>17. CASE \E f \in Firmware : MirrorFails(r, f)
  BY <1>17 DEF MirrorFails, RunInv, NoDanglingPackage, Known
<1>18. CASE Interrupt(r)
  BY <1>18 DEF Interrupt, store, RunInv, NoDanglingPackage, Known
<1>19. CASE \E p \in Package : DeleteFails(r, p)
  BY <1>19 DEF DeleteFails, store, RunInv, NoDanglingPackage
<1>20. CASE Abort(r)
  BY <1>20, ExitSafe DEF Abort
<1> QED
  BY <1>1, <1>2, <1>3, <1>4, <1>5, <1>6, <1>7, <1>8, <1>9, <1>10, <1>11, <1>12,
     <1>13, <1>14, <1>15, <1>16, <1>17, <1>18, <1>19, <1>20
  DEF RunStep, Progress, Trouble

\* The invariant is inductive when runs do not overlap.
LEMMA SafetyStep ==
  ASSUME Serial
  PROVE  SafetyInv /\ [Next]_vars => SafetyInv'
<1> SUFFICES ASSUME SafetyInv, [Next]_vars PROVE SafetyInv'
  OBVIOUS
<1>1. TypeInv'
  BY TypeStep DEF SafetyInv
<1>2. ASSUME NEW r \in Runs, RunStep(r) PROVE SafetyInv'
  <2>1. RunInv(r)' /\ NoDanglingPackage'
    BY <1>2, SafetyRun
  <2>2. ASSUME NEW q \in Runs, q # r PROVE pc'[q] = "idle" /\ mirrored'[q] = {}
    <3>1. pc[q] = "idle"
      BY <1>2, <2>2, OthersIdle
    <3>2. mirrored[q] = {}
      BY <3>1 DEF SafetyInv, RunInv
    <3> QED
      BY <1>2, <2>2, <3>1, <3>2, Frame DEF SafetyInv, TypeInv
  <2>3. ASSUME NEW q \in Runs PROVE RunInv(q)'
    BY <2>1, <2>2, <2>3 DEF RunInv, Gathering, Deciding, Cleaning
  <2>4. OneAtATime'
    BY <2>2 DEF OneAtATime
  <2> QED
    BY <1>1, <2>1, <2>3, <2>4 DEF SafetyInv
<1>3. ASSUME UNCHANGED <<packages, jcat, pc, work>>, metadata' \in {metadata, NoDocument}
      PROVE  SafetyInv'
  <2>1. OneAtATime' /\ NoDanglingPackage'
    BY <1>3 DEF SafetyInv, OneAtATime, NoDanglingPackage
  <2>2. ASSUME NEW q \in Runs PROVE RunInv(q)'
    <3>1. RunInv(q) /\ Known(q)' = Known(q) /\ Existing(q)' = Existing(q)
      BY <1>3 DEF work, SafetyInv, Known, Existing, HasExisting
    <3> QED
      BY <1>3, <3>1 DEF work, RunInv, HasChecksum
  <2> QED
    BY <1>1, <2>1, <2>2 DEF SafetyInv
<1>4. CASE \E r \in Runs : RunStep(r)
  BY <1>2, <1>4
<1>5. CASE (\E defs \in RingFiles : EditRings(defs)) \/ LoseMetadata \/ UNCHANGED vars
  BY <1>3, <1>5 DEF EditRings, LoseMetadata, vars, store, work
<1> QED
  BY <1>4, <1>5 DEF Next, RunStep

\* The actions of a process that change the store.
LEMMA StoreSteps ==
  ASSUME NEW r \in Runs, RunStep(r)
  PROVE  \/ UNCHANGED store
         \/ \E f \in Firmware, b \in Builds : Mirror(r, f, b)
         \/ \E f \in Firmware : MirrorFails(r, f)
         \/ WriteJCAT(r)
         \/ WriteMetadata(r)
         \/ \E p \in Package : DeletePackage(r, p)
BY DEF RunStep, Progress, Trouble, Start, LoadMetadata, Preflight, SaveMetadata,
   RegenerateMetadata, ReadStoredJCAT, LeaveUnverified, LeaveAlone, KeepUnchanged,
   DecideToWrite, ListPackages, FinishCleanup, Interrupt, DeleteFails, Abort

\* What is published names the firmware of the metadata it replaces.
LEMMA PublishKeepsFirmware ==
  ASSUME SafetyInv, NEW r \in Runs, pc[r] = "writeMetadata",
         metadata # NoDocument, metadata.schema = "current"
  PROVE  FirmwareOf(metadata.packages) \subseteq FirmwareOf(document[r].packages)
<1>1. metadata = stored[r]
  BY DEF SafetyInv, RunInv, Deciding
<1>2. Existing(r) = metadata.packages
  BY <1>1 DEF Existing, HasExisting, Known
<1> QED
  BY <1>2 DEF SafetyInv, RunInv, Deciding

-----------------------------------------------------------------------------
(***************************************************************************)
(* What the promise of Mirror takes, whoever else works: a run publishes   *)
(* only packages that are stored, the document the JCAT is of, and all     *)
(* the firmware of the metadata, and deletes nothing the metadata names.   *)
(***************************************************************************)
PublishesSafely(r) ==
  /\ pc[r] \in {"writeJCAT", "writeMetadata"} => document[r].packages \subseteq packages
  /\ pc[r] = "writeMetadata" =>
       /\ HasChecksum(jcat, document[r])
       /\ metadata # NoDocument /\ metadata.schema = "current" =>
            FirmwareOf(metadata.packages) \subseteq FirmwareOf(document[r].packages)
  /\ pc[r] = "delete" /\ metadata # NoDocument => metadata.packages \cap doomed[r] = {}

KeepsFirmware ==
  metadata # NoDocument /\ metadata' # NoDocument /\ metadata.schema = "current"
    => FirmwareOf(metadata.packages) \subseteq FirmwareOf(metadata'.packages)

\* A step takes no firmware out of the metadata.
LEMMA KeepsFirmwareStep ==
  (\A r \in Runs : PublishesSafely(r)) /\ [Next]_vars => KeepsFirmware
<1> SUFFICES ASSUME \A r \in Runs : PublishesSafely(r), [Next]_vars PROVE KeepsFirmware
  OBVIOUS
<1>1. ASSUME NEW r \in Runs, RunStep(r) PROVE KeepsFirmware
  <2>1. CASE WriteMetadata(r)
    BY <2>1 DEF WriteMetadata, PublishesSafely, KeepsFirmware
  <2>2. CASE ~WriteMetadata(r)
    <3>1. metadata' = metadata
      BY <1>1, <2>2, StoreSteps DEF store, Mirror, MirrorFails, WriteJCAT, DeletePackage
    <3> QED
      BY <3>1 DEF KeepsFirmware
  <2> QED
    BY <2>1, <2>2
<1>2. CASE (\E defs \in RingFiles : EditRings(defs)) \/ LoseMetadata \/ UNCHANGED vars
  BY <1>2 DEF EditRings, LoseMetadata, store, vars, KeepsFirmware
<1> QED
  BY <1>1, <1>2 DEF Next, RunStep

\* Clients are first shown the document of the JCAT, or none.
LEMMA PromiseInit == Init => Promise!Init
<1> SUFFICES ASSUME Init PROVE Promise!Init
  OBVIOUS
<1>1. metadata \in Document \cup {NoDocument}
  BY ConfigAssumption DEF Init
<1>2. announced \in {metadata, NoDocument}
  <2>1. CASE jcat \in NotAJCAT
    BY <2>1 DEF announced
  <2>2. CASE jcat \notin NotAJCAT
    <3>1. jcat \in [file : {metadata}, signed : BOOLEAN]
      BY <2>2 DEF Init, NotAJCAT
    <3>2. jcat.file = metadata
      BY <3>1
    <3> QED
      BY <2>2, <3>2 DEF announced
  <2> QED
    BY <2>1, <2>2
<1> QED
  BY <1>1, <1>2 DEF Init, Promise!Init

\* A step is one of Mirror's, or shows its clients nothing.
LEMMA PromiseStep ==
  TypeInv /\ (\A r \in Runs : PublishesSafely(r)) /\ [Next]_vars
    => [Promise!Next]_(Promise!mirrorVars)
<1> SUFFICES ASSUME TypeInv, \A r \in Runs : PublishesSafely(r), [Next]_vars
             PROVE  Promise!Next \/ UNCHANGED Promise!mirrorVars
  OBVIOUS
<1> USE DEF Promise!Next, Promise!mirrorVars, announced
<1>1. ASSUME NEW r \in Runs, RunStep(r)
      PROVE  Promise!Next \/ UNCHANGED Promise!mirrorVars
  <2>1. CASE UNCHANGED store
    BY <2>1 DEF store
  <2>2. CASE \E f \in Firmware, b \in Builds : Mirror(r, f, b)
    BY <2>2 DEF Mirror, Promise!Upload, Package
  <2>3. CASE \E f \in Firmware : MirrorFails(r, f)
    BY <2>3 DEF MirrorFails, Promise!Upload, Package
  <2>4. CASE WriteJCAT(r)
    <3>1. document[r] \in Document /\ document[r].packages \subseteq packages
      BY <2>4 DEF WriteJCAT, TypeInv, HasDocument, Built, PublishesSafely
    <3>2. jcat' \in JCAT /\ jcat'.file = document[r]
      BY <2>4, <3>1, WrittenJCATType DEF WriteJCAT, TypeInv
    <3>3. announced' = document[r]
      BY <3>2, AbsentAssumption
    <3>4. metadata' = metadata /\ packages' = packages
      BY <2>4 DEF WriteJCAT
    <3> QED
      BY <3>1, <3>3, <3>4 DEF Promise!Announce
  <2>5. CASE WriteMetadata(r)
    <3>1. /\ document[r] \in Document
          /\ document[r].schema = "current"
          /\ document[r].packages \subseteq packages
          /\ announced = document[r]
      BY <2>5 DEF WriteMetadata, TypeInv, HasDocument, Built, PublishesSafely, HasChecksum
    <3>2. metadata # NoDocument /\ metadata.schema = document[r].schema
            => Promise!FirmwareIn(metadata) \subseteq Promise!FirmwareIn(document[r])
      BY <2>5, <3>1 DEF WriteMetadata, PublishesSafely, FirmwareOf, Promise!FirmwareIn
    <3>3. metadata' = document[r] /\ jcat' = jcat /\ packages' = packages
      BY <2>5 DEF WriteMetadata
    <3> QED
      BY <3>1, <3>2, <3>3 DEF Promise!Commit
  <2>6. CASE \E p \in Package : DeletePackage(r, p)
    <3>1. PICK p \in Package : DeletePackage(r, p)
      BY <2>6
    <3>2. metadata # NoDocument => p \notin metadata.packages
      BY <3>1 DEF DeletePackage, PublishesSafely
    <3> QED
      BY <3>1, <3>2 DEF DeletePackage, Promise!Reclaim
  <2> QED
    BY <1>1, <2>1, <2>2, <2>3, <2>4, <2>5, <2>6, StoreSteps
<1>2. CASE (\E defs \in RingFiles : EditRings(defs)) \/ UNCHANGED vars
  BY <1>2 DEF EditRings, vars, store
<1>3. CASE LoseMetadata
  BY <1>3 DEF LoseMetadata, Promise!Lose
<1> QED
  BY <1>1, <1>2, <1>3 DEF Next, RunStep

\* Runs that do not overlap publish safely.
LEMMA SafetyPublishes ==
  ASSUME SafetyInv
  PROVE  \A r \in Runs : PublishesSafely(r)
BY PublishKeepsFirmware DEF SafetyInv, RunInv, PublishesSafely, Deciding, Cleaning

-----------------------------------------------------------------------------
\* The safety invariant holds of every behaviour without overlapping runs.
LEMMA SafetyCorrect ==
  ASSUME Serial
  PROVE  Spec => []SafetyInv
<1>1. Init => SafetyInv
  BY SafetyInit
<1>2. SafetyInv /\ [Next]_vars => SafetyInv'
  BY SafetyStep
<1> QED
  BY <1>1, <1>2, PTL DEF Spec

(***************************************************************************)
(* Whatever fails, crashes or is interrupted, and with --s3.cleanup or     *)
(* not, every package the stored metadata names is stored, as long as runs *)
(* do not overlap.                                                         *)
(***************************************************************************)
THEOREM NoDanglingPackageCorrect ==
  ASSUME Serial
  PROVE  Spec => []NoDanglingPackage
<1>1. SafetyInv => NoDanglingPackage
  BY DEF SafetyInv
<1> QED
  BY <1>1, SafetyCorrect, PTL

(***************************************************************************)
(* No publish takes firmware out of the metadata, as long as runs do not   *)
(* overlap.                                                                *)
(***************************************************************************)
THEOREM FirmwareKeptCorrect ==
  ASSUME Serial
  PROVE  Spec => FirmwareKept
<1>1. SafetyInv /\ [Next]_vars => [KeepsFirmware]_vars
  BY SafetyPublishes, KeepsFirmwareStep DEF SafetyInv
<1> QED
  BY <1>1, SafetyCorrect, PTL DEF Spec, FirmwareKept, KeepsFirmware

(***************************************************************************)
(* Runs that do not overlap implement Mirror: their clients see uploads,   *)
(* removals of packages no metadata names, a JCAT that announces only      *)
(* documents whose packages are stored, and publishes of the announced     *)
(* document that lose no firmware.                                         *)
(***************************************************************************)
THEOREM MirrorPromiseKept ==
  ASSUME Serial
  PROVE  Spec => MirrorPromise
<1>1. SafetyInv /\ [Next]_vars => [Promise!Next]_(Promise!mirrorVars)
  BY SafetyPublishes, PromiseStep DEF SafetyInv
<1> QED
  BY <1>1, PromiseInit, SafetyCorrect, PTL DEF Spec, MirrorPromise, Promise!Spec

-----------------------------------------------------------------------------
(***************************************************************************)
(* Runs that overlap, but never publish at once, with one process that     *)
(* refreshes, as its CronJob forbids another, and any number that          *)
(* regenerate the metadata.  The metadata file is deleted by nobody.       *)
(***************************************************************************)
Apart == Overlap \in {"none", "apart"}

OneRefresher == \A q, r \in Refreshers : q = r

MetadataLasts == [][metadata # NoDocument => metadata' # NoDocument]_metadata

Current(doc) == doc # NoDocument /\ doc.schema = "current"

(***************************************************************************)
(* The inductive invariant.  Once there is metadata of the current schema, *)
(* what it names only grows: a regeneration can publish what it read long  *)
(* ago only if that is what the metadata names still, as the JCAT it finds *)
(* names no less than the metadata does; and so what a refresh read is     *)
(* what the metadata names until it publishes, and what it published when  *)
(* it deletes.                                                             *)
(***************************************************************************)
OneAtATimePublishes ==
  \A q, r \in Runs : Publishing(q) /\ Publishing(r) => q = r

JCATCovers ==
  jcat \notin NotAJCAT /\ Current(metadata) => metadata.packages \subseteq jcat.file.packages

\* A regeneration mirrors and deletes nothing.
RegenerationInv(r) ==
  /\ mirrored[r] = {} /\ ~config[r].cleanup
  /\ pc[r] \notin Cleaning \cup {"preflight", "mirror"}
  /\ pc[r] \in Deciding => HasExisting(r)

\* What a run has read, in the metadata there is.
ReadInv(r) ==
  IF HasExisting(r)
  THEN /\ Current(metadata) /\ stored[r].packages \subseteq metadata.packages
       /\ r \in Refreshers \/ pc[r] \in {"writeJCAT", "writeMetadata"} =>
            stored[r].packages = metadata.packages
  ELSE r \in Refreshers => metadata = stored[r]

OverlapRun(r) ==
  /\ pc[r] \in {"idle", "load"} => mirrored[r] = {}
  /\ r \in Regenerators => RegenerationInv(r)
  /\ pc[r] \in Gathering \cup Deciding =>
       /\ ReadInv(r)
       /\ mirrored[r] \subseteq packages
       /\ FirmwareOf(mirrored[r]) \cap FirmwareOf(Existing(r)) = {}
  /\ pc[r] = "mirror" => todo[r] \cap FirmwareOf(Existing(r)) = {}
  /\ pc[r] \in Deciding => document[r].packages = Existing(r) \cup mirrored[r]
  /\ pc[r] = "settle" => seen[r] \in {jcat, NoJCAT, UnreadableJCAT}
  /\ pc[r] = "writeMetadata" => HasChecksum(jcat, document[r])
  /\ pc[r] \in Cleaning => Current(metadata) /\ metadata.packages = document[r].packages
  /\ pc[r] = "delete" => doomed[r] \cap document[r].packages = {}

OverlapInv ==
  /\ TypeInv
  /\ NoDanglingPackage
  /\ OneAtATimePublishes
  /\ JCATCovers
  /\ \A r \in Runs : OverlapRun(r)

\* Nothing was read or mirrored yet, and the JCAT is that of the metadata.
LEMMA OverlapInit == Init => OverlapInv
<1> SUFFICES ASSUME Init PROVE OverlapInv
  OBVIOUS
<1>1. TypeInv /\ NoDanglingPackage
  BY SafetyInit DEF SafetyInv
<1>2. OneAtATimePublishes
  BY DEF Init, OneAtATimePublishes, Publishing
<1>3. JCATCovers
  <2> SUFFICES ASSUME jcat \notin NotAJCAT, Current(metadata) PROVE jcat.file = metadata
    BY DEF JCATCovers
  <2>1. jcat \in [file : {metadata}, signed : BOOLEAN]
    BY DEF Init, NotAJCAT, Current
  <2> QED BY <2>1
<1>4. ASSUME NEW r \in Runs PROVE OverlapRun(r)
  BY DEF Init, OverlapRun, RegenerationInv, Gathering, Deciding, Cleaning, IdleConfig
<1> QED
  BY <1>1, <1>2, <1>3, <1>4 DEF OverlapInv

\* What a run that has something to publish names is stored.
LEMMA DocumentStored ==
  ASSUME OverlapInv, NEW r \in Runs, pc[r] \in Deciding
  PROVE  document[r].packages \subseteq packages
<1>1. Existing(r) \subseteq packages
  BY DEF OverlapInv, OverlapRun, ReadInv, Existing, Current, NoDanglingPackage
<1> QED
  BY <1>1 DEF OverlapInv, OverlapRun

\* What is about to be published names all that the metadata names.
LEMMA DocumentCovers ==
  ASSUME OverlapInv, NEW r \in Runs, pc[r] \in {"writeJCAT", "writeMetadata"}, Current(metadata)
  PROVE  metadata.packages \subseteq document[r].packages
<1>1. pc[r] \in Deciding
  BY DEF Deciding
<1>2. ReadInv(r) /\ document[r].packages = Existing(r) \cup mirrored[r]
  BY <1>1 DEF OverlapInv, OverlapRun
<1>3. HasExisting(r)
  <2>1. CASE r \in Regenerators
    BY <1>1, <2>1 DEF OverlapInv, OverlapRun, RegenerationInv
  <2>2. CASE r \in Refreshers
    BY <1>2, <2>2 DEF ReadInv, HasExisting, Known, Current
  <2> QED BY <2>1, <2>2 DEF Runs
<1> QED
  BY <1>2, <1>3 DEF ReadInv, Existing

\* A regeneration publishes the packages the metadata names already.
LEMMA RegenerationPublishes ==
  ASSUME OverlapInv, NEW r \in Regenerators, pc[r] \in {"writeJCAT", "writeMetadata"}
  PROVE  Current(metadata) /\ document[r].packages = metadata.packages
<1>1. r \in Runs /\ pc[r] \in Deciding
  BY DEF Runs, Deciding
<1>2. RegenerationInv(r) /\ ReadInv(r) /\ document[r].packages = Existing(r) \cup mirrored[r]
  BY <1>1 DEF OverlapInv, OverlapRun
<1> QED
  BY <1>1, <1>2 DEF RegenerationInv, ReadInv, Existing

\* The part of the invariant that another process's step leaves to a process.
LEMMA OverlapOther ==
  ASSUME OneRefresher, OverlapInv, NEW r \in Runs, RunStep(r), NEW q \in Runs, q # r
  PROVE  OverlapRun(q)'
<1>1. /\ pc'[q] = pc[q] /\ config'[q] = config[q] /\ stored'[q] = stored[q]
      /\ todo'[q] = todo[q] /\ mirrored'[q] = mirrored[q] /\ document'[q] = document[q]
      /\ seen'[q] = seen[q] /\ doomed'[q] = doomed[q]
  BY Frame DEF OverlapInv, TypeInv
<1>2. HasExisting(q)' = HasExisting(q) /\ Existing(q)' = Existing(q)
  BY <1>1 DEF HasExisting, Known, Existing
<1>3. RegenerationInv(q)' = RegenerationInv(q)
  BY <1>1, <1>2 DEF RegenerationInv
<1>4. OverlapRun(q) /\ OverlapRun(r)
  BY DEF OverlapInv
<1>5. CASE packages \subseteq packages' /\ metadata' = metadata /\ jcat' = jcat
  <2>1. ReadInv(q)' = ReadInv(q)
    BY <1>1, <1>2, <1>5 DEF ReadInv
  <2> QED
    BY <1>1, <1>2, <1>3, <1>4, <1>5, <2>1 DEF OverlapRun, HasChecksum
<1>6. CASE WriteJCAT(r)
  <2>1. ~Publishing(q)
    BY <1>6 DEF OverlapInv, OneAtATimePublishes, Publishing, WriteJCAT
  <2>2. metadata' = metadata /\ packages' = packages
    BY <1>6 DEF WriteJCAT
  <2>3. ReadInv(q)' = ReadInv(q)
    BY <1>1, <1>2, <2>2 DEF ReadInv
  <2> QED
    BY <1>1, <1>2, <1>3, <1>4, <2>1, <2>2, <2>3 DEF OverlapRun, Publishing
<1>7. CASE WriteMetadata(r)
  <2>1. /\ metadata' = document[r] /\ packages' = packages /\ jcat' = jcat
        /\ pc[r] = "writeMetadata" /\ Current(document[r])
    BY <1>7, AbsentAssumption DEF WriteMetadata, OverlapInv, TypeInv, HasDocument, Built, Current
  <2>2. ~Publishing(q)
    BY <2>1 DEF OverlapInv, OneAtATimePublishes, Publishing
  <2>3. q \in Refreshers => Current(metadata) /\ document[r].packages = metadata.packages
    <3>1. q \in Refreshers => r \in Regenerators
      BY DEF Runs, OneRefresher
    <3> QED
      BY <2>1, <3>1, RegenerationPublishes
  <2>4. CASE pc[q] \in Gathering \cup Deciding
    <3>1. ReadInv(q)
      BY <1>4, <2>4 DEF OverlapRun
    <3>2. CASE HasExisting(q)
      <4>1. Current(metadata) /\ stored[q].packages \subseteq metadata.packages
        BY <3>1, <3>2 DEF ReadInv
      <4>2. metadata.packages \subseteq document[r].packages
        BY <2>1, <4>1, DocumentCovers
      <4>3. q \in Refreshers => stored[q].packages = metadata.packages
        BY <3>1, <3>2 DEF ReadInv
      <4>4. ReadInv(q)'
        BY <1>1, <1>2, <2>1, <2>2, <2>3, <3>2, <4>1, <4>2, <4>3 DEF ReadInv, Publishing
      <4> QED
        BY <1>1, <1>2, <1>3, <1>4, <2>1, <2>2, <2>4, <4>4
        DEF OverlapRun, Publishing, Gathering, Deciding, Cleaning
    <3>3. CASE ~HasExisting(q)
      <4>1. q \notin Refreshers
        BY <2>3, <3>1, <3>3 DEF ReadInv, HasExisting, Known, Current
      <4>2. ReadInv(q)'
        BY <1>2, <3>3, <4>1 DEF ReadInv
      <4> QED
        BY <1>1, <1>2, <1>3, <1>4, <2>1, <2>2, <2>4, <4>2
        DEF OverlapRun, Publishing, Gathering, Deciding, Cleaning
    <3> QED
      BY <3>2, <3>3
  <2>5. CASE pc[q] \in Cleaning
    <3>1. q \in Refreshers
      BY <1>4, <2>5 DEF OverlapRun, RegenerationInv, Runs
    <3> QED
      BY <1>1, <1>2, <1>3, <1>4, <2>1, <2>3, <2>5, <3>1
      DEF OverlapRun, Gathering, Deciding, Cleaning
  <2>6. CASE pc[q] \notin Gathering \cup Deciding \cup Cleaning
    BY <1>1, <1>2, <1>3, <1>4, <2>6 DEF OverlapRun, Gathering, Deciding, Cleaning
  <2> QED
    BY <2>4, <2>5, <2>6
<1>8. CASE \E p \in Package : DeletePackage(r, p)
  <2>1. pc[r] = "delete" /\ metadata' = metadata /\ jcat' = jcat
    BY <1>8 DEF DeletePackage
  <2>2. r \in Refreshers /\ q \in Regenerators
    BY <1>4, <2>1 DEF OverlapRun, RegenerationInv, Cleaning, Runs, OneRefresher
  <2>3. mirrored[q] = {}
    BY <1>4, <2>2 DEF OverlapRun, RegenerationInv
  <2>4. ReadInv(q)' = ReadInv(q)
    BY <1>1, <1>2, <2>1 DEF ReadInv
  <2> QED
    BY <1>1, <1>2, <1>3, <1>4, <2>1, <2>3, <2>4 DEF OverlapRun, HasChecksum
<1>9. UNCHANGED store \/ (\E f \in Firmware, b \in Builds : Mirror(r, f, b))
      \/ (\E f \in Firmware : MirrorFails(r, f)) =>
        packages \subseteq packages' /\ metadata' = metadata /\ jcat' = jcat
  BY DEF store, Mirror, MirrorFails
<1> QED
  BY <1>5, <1>6, <1>7, <1>8, <1>9, StoreSteps

\* A process that ends owes nothing.
LEMMA ExitOverlap ==
  ASSUME TypeOK, NEW r \in Runs, NEW how, Exit(r, how)
  PROVE  OverlapRun(r)'
<1>1. pc'[r] = "idle" /\ mirrored'[r] = {} /\ ~config'[r].cleanup
  BY DEF Exit, TypeOK, IdleConfig
<1> QED
  BY <1>1 DEF OverlapRun, RegenerationInv, Gathering, Deciding, Cleaning

\* A process that goes on to delete does so by what the metadata is.
LEMMA ReclaimOverlap ==
  ASSUME OverlapInv, NEW r \in Runs, pc[r] \in Deciding, NEW how, Reclaim(r, how),
         Current(metadata'), metadata'.packages = document[r].packages
  PROVE  OverlapRun(r)'
<1> TypeOK /\ OverlapRun(r)
  BY DEF OverlapInv, TypeInv
<1>1. CASE config[r].cleanup
  <2>1. r \notin Regenerators
    BY <1>1 DEF OverlapRun, RegenerationInv
  <2>2. pc'[r] = "cleanup" /\ document'[r] = document[r]
    BY <1>1 DEF Reclaim, TypeOK
  <2> QED
    BY <2>1, <2>2 DEF OverlapRun, Gathering, Deciding, Cleaning
<1>2. CASE ~config[r].cleanup
  BY <1>2, ExitOverlap DEF Reclaim
<1> QED
  BY <1>1, <1>2

\* What is built is what was read and what was mirrored: nothing is superseded.
LEMMA BuiltPackages ==
  ASSUME OverlapInv, NEW r \in Runs, pc[r] \in Gathering, NEW defs
  PROVE  BuildDocument(r, defs).packages = Existing(r) \cup mirrored[r]
<1>1. FirmwareOf(mirrored[r]) \cap FirmwareOf(Existing(r)) = {}
  BY DEF OverlapInv, OverlapRun
<1>2. BuildDocument(r, defs).packages
        = MergeComponents(Existing(r), mirrored[r], config[r].cleanup)
  BY DEF BuildDocument
<1>3. \A p \in Existing(r) : p.firmware \notin FirmwareOf(mirrored[r])
  BY <1>1 DEF FirmwareOf
<1> QED
  BY <1>2, <1>3 DEF MergeComponents

\* What a run that read the current metadata decides to publish covers what there is.
LEMMA DecidedCurrent ==
  ASSUME OverlapInv, NEW r \in Runs, DecideToWrite(r), r \in Regenerators
  PROVE  stored[r].packages = metadata.packages
<1>1. pc[r] = "settle" /\ (ChecksState(r) => Settled(r) = "write")
  BY DEF DecideToWrite
<1>2. OverlapRun(r) /\ HasExisting(r) /\ mirrored[r] = {}
  BY <1>1 DEF OverlapInv, OverlapRun, RegenerationInv, Deciding
<1>3. Current(metadata) /\ stored[r].packages \subseteq metadata.packages
  BY <1>1, <1>2 DEF OverlapRun, ReadInv, Deciding
<1>4. Settled(r) = "write"
  BY <1>1, <1>2 DEF ChecksState, HasExisting
<1>5. HasChecksum(seen[r], stored[r]) \/ metadata = stored[r]
  BY <1>3, <1>4 DEF Settled, Current
<1>6. CASE HasChecksum(seen[r], stored[r])
  <2>1. seen[r] = jcat
    BY <1>1, <1>2, <1>6 DEF OverlapRun, HasChecksum, NotAJCAT
  <2>2. metadata.packages \subseteq stored[r].packages
    BY <1>3, <1>6, <2>1 DEF HasChecksum, OverlapInv, JCATCovers
  <2> QED
    BY <1>3, <2>2
<1> QED
  BY <1>5, <1>6

\* One package adds its own firmware.
LEMMA FirmwareOfOneMore ==
  ASSUME NEW S, NEW p
  PROVE  FirmwareOf(S \cup {p}) = FirmwareOf(S) \cup {p.firmware}
BY DEF FirmwareOf

\* A step of a process keeps its own part of the invariant.
LEMMA OverlapOwn ==
  ASSUME OverlapInv, NEW r \in Runs, RunStep(r)
  PROVE  OverlapRun(r)'
<1> TypeOK /\ OverlapRun(r) /\ r \in Runs
  BY DEF OverlapInv, TypeInv
<1> USE DEF TypeOK, Gathering, Deciding, Cleaning
<1>1. CASE \E c \in ConfigsOf(r) : Start(r, c)
  <2>1. PICK c \in ConfigsOf(r) : Start(r, c)
    BY <1>1
  <2>2. pc[r] = "idle" /\ pc'[r] = "load" /\ mirrored'[r] = mirrored[r] /\ config'[r] = c
    BY <2>1 DEF Start
  <2>3. r \in Regenerators => ~c.cleanup
    BY ConfigAssumption DEF ConfigsOf
  <2> QED
    BY <2>2, <2>3 DEF OverlapRun, RegenerationInv
<1>2. CASE LoadMetadata(r)
  <2>1. /\ pc[r] = "load" /\ stored'[r] = metadata /\ metadata' = metadata
        /\ pc'[r] = IF r \in Refreshers THEN "preflight" ELSE "regenerate"
        /\ mirrored'[r] = mirrored[r] /\ config'[r] = config[r]
    BY <1>2 DEF LoadMetadata, Goto, store
  <2>2. mirrored'[r] = {} /\ FirmwareOf(mirrored'[r]) = {}
    BY <2>1 DEF OverlapRun, FirmwareOf
  <2>3. ReadInv(r)'
    BY <2>1 DEF ReadInv, HasExisting, Known, Current
  <2>4. r \in Regenerators => RegenerationInv(r)'
    BY <2>1, <2>2, ConfigAssumption DEF OverlapRun, RegenerationInv
  <2> QED
    BY <2>1, <2>2, <2>3, <2>4 DEF OverlapRun
<1>3. CASE Preflight(r)
  <2>1. UNCHANGED store /\ pc[r] = "preflight"
    BY <1>3 DEF Preflight
  <2>2. PICK j : IF PreflightRefuses(r, j)
                 THEN Exit(r, "refused")
                 ELSE /\ Goto(r, "mirror")
                      /\ todo' = [todo EXCEPT ![r] = NotIndexed(r)]
                      /\ UNCHANGED <<config, definitions, stored, mirrored, document, seen, doomed>>
    BY <1>3 DEF Preflight
  <2>3. CASE PreflightRefuses(r, j)
    BY <2>2, <2>3, ExitOverlap
  <2>4. CASE ~PreflightRefuses(r, j)
    <3>1. /\ HasExisting(r)' = HasExisting(r) /\ Existing(r)' = Existing(r)
          /\ pc'[r] = "mirror" /\ mirrored'[r] = mirrored[r] /\ stored'[r] = stored[r]
          /\ todo'[r] = Firmware \ FirmwareOf(Existing(r))
      BY <2>2, <2>4 DEF HasExisting, Known, Existing, Goto, NotIndexed
    <3>2. ReadInv(r)' = ReadInv(r)
      BY <2>1, <3>1 DEF ReadInv, store
    <3>3. r \notin Regenerators
      BY <2>1 DEF OverlapRun, RegenerationInv
    <3> QED
      BY <2>1, <3>1, <3>2, <3>3 DEF OverlapRun, store
  <2> QED
    BY <2>3, <2>4
<1>4. CASE \E f \in Firmware, b \in Builds : Mirror(r, f, b)
  <2>1. PICK f \in Firmware, b \in Builds : Mirror(r, f, b)
    BY <1>4
  <2> DEFINE p == [firmware |-> f, build |-> b]
  <2>2. /\ pc[r] = "mirror" /\ pc'[r] = pc[r] /\ f \in todo[r]
        /\ packages' = packages \cup {p} /\ mirrored'[r] = mirrored[r] \cup {p}
        /\ todo'[r] \subseteq todo[r] /\ metadata' = metadata /\ stored'[r] = stored[r]
    BY <2>1 DEF Mirror
  <2>3. HasExisting(r)' = HasExisting(r) /\ Existing(r)' = Existing(r)
    BY <2>2 DEF HasExisting, Known, Existing
  <2>4. ReadInv(r)' = ReadInv(r)
    BY <2>2, <2>3 DEF ReadInv
  <2>5. FirmwareOf(mirrored'[r]) = FirmwareOf(mirrored[r]) \cup {f}
    <3>1. p.firmware = f
      OBVIOUS
    <3> HIDE DEF p
    <3> QED
      BY <2>2, <3>1, FirmwareOfOneMore
  <2>6. r \notin Regenerators
    BY <2>2 DEF OverlapRun, RegenerationInv
  <2>7. FirmwareOf(Existing(r))' = FirmwareOf(Existing(r)) /\ f \notin FirmwareOf(Existing(r))
    BY <2>2, <2>3 DEF OverlapRun, FirmwareOf
  <2> HIDE DEF p
  <2> QED
    BY <2>2, <2>3, <2>4, <2>5, <2>6, <2>7 DEF OverlapRun
<1>5. CASE SaveMetadata(r)
  <2>1. UNCHANGED store /\ pc[r] = "mirror"
    BY <1>5 DEF SaveMetadata
  <2>2. CASE ~HasExisting(r) /\ mirrored[r] = {}
    BY <1>5, <2>2, ExitOverlap DEF SaveMetadata
  <2>3. CASE ~(~HasExisting(r) /\ mirrored[r] = {})
    <3>1. PICK defs \in {Reloaded(r, ringsFile), definitions[r]} :
            /\ document' = [document EXCEPT ![r] = BuildDocument(r, defs)]
            /\ Goto(r, "readJCAT")
            /\ UNCHANGED <<config, stored, todo, mirrored, seen, doomed>>
      BY <1>5, <2>3 DEF SaveMetadata
    <3>2. BuildDocument(r, defs).packages = Existing(r) \cup mirrored[r]
      BY <2>1, BuiltPackages
    <3>3. HasExisting(r)' = HasExisting(r) /\ Existing(r)' = Existing(r)
      BY <3>1 DEF HasExisting, Known, Existing
    <3>4. ReadInv(r)' = ReadInv(r)
      BY <2>1, <3>1, <3>3 DEF ReadInv, store, Goto
    <3>5. r \notin Regenerators
      BY <2>1 DEF OverlapRun, RegenerationInv
    <3> QED
      BY <2>1, <3>1, <3>2, <3>3, <3>4, <3>5 DEF OverlapRun, Goto, store
  <2> QED
    BY <2>2, <2>3
<1>6. CASE RegenerateMetadata(r)
  <2>1. UNCHANGED store /\ pc[r] = "regenerate"
    BY <1>6 DEF RegenerateMetadata
  <2>2. CASE ~HasExisting(r)
    BY <1>6, <2>2, ExitOverlap DEF RegenerateMetadata
  <2>3. CASE HasExisting(r)
    <3>1. /\ document' = [document EXCEPT ![r] = BuildDocument(r, definitions[r])]
          /\ Goto(r, "readJCAT")
          /\ UNCHANGED <<config, definitions, stored, todo, mirrored, seen, doomed>>
      BY <1>6, <2>3 DEF RegenerateMetadata
    <3>2. BuildDocument(r, definitions[r]).packages = Existing(r) \cup mirrored[r]
      BY <2>1, BuiltPackages
    <3>3. HasExisting(r)' = HasExisting(r) /\ Existing(r)' = Existing(r)
      BY <3>1 DEF HasExisting, Known, Existing
    <3>4. ReadInv(r)' = ReadInv(r)
      BY <2>1, <3>1, <3>3 DEF ReadInv, store, Goto
    <3>5. r \in Regenerators => RegenerationInv(r)'
      BY <2>3, <3>1, <3>3 DEF OverlapRun, RegenerationInv, Goto
    <3> QED
      BY <2>1, <3>1, <3>2, <3>3, <3>4, <3>5 DEF OverlapRun, Goto, store
  <2> QED
    BY <2>2, <2>3
<1>7. CASE ReadStoredJCAT(r)
  <2>1. PICK j \in {NoJCAT, jcat, UnreadableJCAT} : seen' = [seen EXCEPT ![r] = j]
    BY <1>7 DEF ReadStoredJCAT
  <2>2. /\ pc[r] = "readJCAT" /\ UNCHANGED store /\ Goto(r, "settle")
        /\ UNCHANGED <<config, definitions, stored, todo, mirrored, document, doomed>>
    BY <1>7 DEF ReadStoredJCAT
  <2>3. HasExisting(r)' = HasExisting(r) /\ Existing(r)' = Existing(r)
    BY <2>2 DEF HasExisting, Known, Existing
  <2>4. ReadInv(r)' = ReadInv(r)
    BY <2>2, <2>3 DEF ReadInv, store, Goto
  <2>5. r \in Regenerators => RegenerationInv(r)'
    BY <2>2, <2>3 DEF OverlapRun, RegenerationInv, Goto
  <2> QED
    BY <2>1, <2>2, <2>3, <2>4, <2>5 DEF OverlapRun, Goto, store
<1>8. CASE LeaveUnverified(r) \/ LeaveAlone(r) \/ FinishCleanup(r) \/ Abort(r)
  <2>1. \E how : Exit(r, how)
    BY <1>8 DEF LeaveUnverified, LeaveAlone, FinishCleanup, Abort
  <2> QED
    BY <2>1, ExitOverlap
<1>9. CASE KeepUnchanged(r)
  <2>1. /\ pc[r] = "settle" /\ metadata' = metadata /\ Settled(r) = "unchanged"
        /\ Reclaim(r, "unchanged")
    BY <1>9 DEF KeepUnchanged, store
  <2>2. r \in Refreshers /\ Known(r) /\ document[r] = stored[r]
    BY <2>1 DEF Settled, Unchanged
  <2>3. document[r].schema = "current"
    BY <2>1 DEF OverlapInv, TypeInv, HasDocument, Built
  <2>4. Current(metadata) /\ stored[r].packages = metadata.packages
    BY <2>1, <2>2, <2>3 DEF OverlapRun, ReadInv, HasExisting
  <2> QED
    BY <2>1, <2>2, <2>4, ReclaimOverlap
<1>10. CASE DecideToWrite(r)
  <2>1. CASE Refuses(r)
    BY <1>10, <2>1, ExitOverlap DEF DecideToWrite
  <2>2. CASE ~Refuses(r)
    <3>1. pc[r] = "settle" /\ Goto(r, "writeJCAT") /\ UNCHANGED work /\ UNCHANGED store
      BY <1>10, <2>2 DEF DecideToWrite
    <3>2. HasExisting(r)' = HasExisting(r) /\ Existing(r)' = Existing(r)
      BY <3>1 DEF HasExisting, Known, Existing, work
    <3>3. ReadInv(r)'
      BY <1>10, <3>1, <3>2, DecidedCurrent DEF OverlapRun, ReadInv, store, work, Runs
    <3>4. r \in Regenerators => RegenerationInv(r)'
      BY <3>1, <3>2 DEF OverlapRun, RegenerationInv, Goto, work
    <3> QED
      BY <3>1, <3>2, <3>3, <3>4 DEF OverlapRun, Goto, store, work
  <2> QED
    BY <2>1, <2>2
<1>11. CASE WriteJCAT(r)
  <2>1. /\ pc[r] = "writeJCAT" /\ Goto(r, "writeMetadata") /\ UNCHANGED work
        /\ metadata' = metadata /\ packages' = packages
    BY <1>11 DEF WriteJCAT
  <2>2. HasExisting(r)' = HasExisting(r) /\ Existing(r)' = Existing(r)
    BY <2>1 DEF HasExisting, Known, Existing, work
  <2>3. HasChecksum(jcat', document[r])
    <3>1. document[r] \in Document
      BY <2>1 DEF OverlapInv, TypeInv, HasDocument, Built
    <3>2. jcat' \in JCAT /\ jcat'.file = document[r]
      BY <1>11, <3>1, WrittenJCATType DEF WriteJCAT
    <3> QED
      BY <3>2, AbsentAssumption DEF HasChecksum
  <2>4. ReadInv(r)' = ReadInv(r)
    BY <2>1, <2>2 DEF ReadInv, work, Goto
  <2>5. r \in Regenerators => RegenerationInv(r)'
    BY <2>1, <2>2 DEF OverlapRun, RegenerationInv, Goto, work
  <2> QED
    BY <2>1, <2>2, <2>3, <2>4, <2>5 DEF OverlapRun, Goto, work, HasChecksum
<1>12. CASE WriteMetadata(r)
  <2>1. pc[r] = "writeMetadata" /\ metadata' = document[r] /\ Reclaim(r, "written")
    BY <1>12 DEF WriteMetadata
  <2>2. Current(document[r])
    BY <2>1, AbsentAssumption DEF OverlapInv, TypeInv, HasDocument, Built, Current
  <2> QED
    BY <2>1, <2>2, ReclaimOverlap
<1>13. CASE ListPackages(r)
  BY <1>13 DEF ListPackages, Goto, store, OverlapRun, RegenerationInv
<1>14. CASE \E p \in Package : DeletePackage(r, p) \/ DeleteFails(r, p)
  BY <1>14 DEF DeletePackage, DeleteFails, store, OverlapRun, RegenerationInv
<1>15. CASE (\E f \in Firmware : MirrorFails(r, f)) \/ Interrupt(r)
  <2>1. /\ pc[r] = "mirror" /\ pc'[r] = pc[r] /\ packages \subseteq packages'
        /\ mirrored'[r] = mirrored[r] /\ todo'[r] \subseteq todo[r]
        /\ metadata' = metadata /\ stored'[r] = stored[r]
    BY <1>15 DEF MirrorFails, Interrupt, store
  <2>2. HasExisting(r)' = HasExisting(r) /\ Existing(r)' = Existing(r)
    BY <2>1 DEF HasExisting, Known, Existing
  <2>3. ReadInv(r)' = ReadInv(r)
    BY <2>1, <2>2 DEF ReadInv
  <2>4. r \notin Regenerators
    BY <2>1 DEF OverlapRun, RegenerationInv
  <2> QED
    BY <2>1, <2>2, <2>3, <2>4 DEF OverlapRun
<1> QED
  BY <1>1, <1>2, <1>3, <1>4, <1>5, <1>6, <1>7, <1>8, <1>9, <1>10, <1>11, <1>12,
     <1>13, <1>14, <1>15
  DEF RunStep, Progress, Trouble

\* What the store does to the parts of the invariant that no process owns.
LEMMA OverlapStore ==
  ASSUME OverlapInv, NEW r \in Runs, RunStep(r)
  PROVE  NoDanglingPackage' /\ JCATCovers'
<1> NoDanglingPackage /\ JCATCovers /\ OverlapRun(r) /\ TypeOK
  BY DEF OverlapInv, TypeInv
<1>1. CASE packages \subseteq packages' /\ metadata' = metadata /\ jcat' = jcat
  BY <1>1 DEF NoDanglingPackage, JCATCovers
<1>2. CASE WriteJCAT(r)
  <2>1. pc[r] = "writeJCAT" /\ metadata' = metadata /\ packages' = packages
    BY <1>2 DEF WriteJCAT
  <2>2. jcat'.file = document[r]
    BY <1>2 DEF WriteJCAT
  <2>3. JCATCovers'
    BY <2>1, <2>2, DocumentCovers DEF JCATCovers, Current
  <2> QED
    BY <2>1, <2>3 DEF NoDanglingPackage
<1>3. CASE WriteMetadata(r)
  <2>1. /\ pc[r] = "writeMetadata" /\ metadata' = document[r]
        /\ packages' = packages /\ jcat' = jcat
    BY <1>3 DEF WriteMetadata
  <2>2. HasChecksum(jcat, document[r])
    BY <2>1 DEF OverlapRun
  <2>3. document[r].packages \subseteq packages
    BY <2>1, DocumentStored DEF Deciding
  <2> QED
    BY <2>1, <2>2, <2>3 DEF NoDanglingPackage, JCATCovers, HasChecksum
<1>4. CASE \E p \in Package : DeletePackage(r, p)
  <2>1. PICK p \in Package : DeletePackage(r, p)
    BY <1>4
  <2>2. /\ pc[r] = "delete" /\ p \in doomed[r] /\ packages' = packages \ {p}
        /\ metadata' = metadata /\ jcat' = jcat
    BY <2>1 DEF DeletePackage
  <2>3. p \notin metadata.packages
    BY <2>2 DEF OverlapRun, Cleaning
  <2> QED
    BY <2>2, <2>3 DEF NoDanglingPackage, JCATCovers
<1>5. UNCHANGED store \/ (\E f \in Firmware, b \in Builds : Mirror(r, f, b))
      \/ (\E f \in Firmware : MirrorFails(r, f)) =>
        packages \subseteq packages' /\ metadata' = metadata /\ jcat' = jcat
  BY DEF store, Mirror, MirrorFails
<1> QED
  BY <1>1, <1>2, <1>3, <1>4, <1>5, StoreSteps

\* A process starts to publish only when no other does.
LEMMA PublishesAlone ==
  ASSUME Overlap # "any", TypeOK, OneAtATimePublishes, NEW r \in Runs, RunStep(r)
  PROVE  OneAtATimePublishes'
<1>1. CASE ReadStoredJCAT(r)
  <2>1. \A q \in Runs : ~Publishing(q)
    BY <1>1 DEF ReadStoredJCAT, MayPublish
  <2>2. \A q \in Runs : q # r => ~Publishing(q)'
    BY <2>1, Frame DEF Publishing
  <2> QED
    BY <2>2 DEF OneAtATimePublishes
<1>2. CASE ~ReadStoredJCAT(r)
  <2>1. Publishing(r)' => Publishing(r)
    BY <1>2 DEF RunStep, Progress, Trouble, Start, LoadMetadata, Preflight, Mirror,
       SaveMetadata, RegenerateMetadata, LeaveUnverified, LeaveAlone, KeepUnchanged,
       DecideToWrite, WriteJCAT, WriteMetadata, ListPackages, DeletePackage,
       FinishCleanup, MirrorFails, Interrupt, DeleteFails, Abort, Reclaim, Exit, Goto,
       TypeOK, Publishing
  <2>2. \A q \in Runs : q # r => Publishing(q)' = Publishing(q)
    BY Frame DEF Publishing
  <2> QED
    BY <2>1, <2>2 DEF OneAtATimePublishes
<1> QED
  BY <1>1, <1>2

\* The invariant is inductive while nobody deletes the metadata.
LEMMA OverlapStep ==
  ASSUME Apart, OneRefresher
  PROVE  OverlapInv /\ [Next]_vars /\ (metadata # NoDocument => metadata' # NoDocument)
           => OverlapInv'
<1> SUFFICES ASSUME OverlapInv, [Next]_vars, metadata # NoDocument => metadata' # NoDocument
             PROVE  OverlapInv'
  OBVIOUS
<1>1. TypeInv'
  BY TypeStep DEF OverlapInv
<1>2. ASSUME NEW r \in Runs, RunStep(r) PROVE OverlapInv'
  <2>1. NoDanglingPackage' /\ JCATCovers'
    BY <1>2, OverlapStore
  <2>2. OneAtATimePublishes'
    BY <1>2, PublishesAlone DEF Apart, OverlapInv, TypeInv
  <2>3. ASSUME NEW q \in Runs PROVE OverlapRun(q)'
    BY <1>2, OverlapOwn, OverlapOther
  <2> QED
    BY <1>1, <2>1, <2>2, <2>3 DEF OverlapInv
<1>3. CASE UNCHANGED <<store, pc, work>>
  <2>1. NoDanglingPackage' /\ JCATCovers' /\ OneAtATimePublishes'
    BY <1>3 DEF store, OverlapInv, NoDanglingPackage, JCATCovers, OneAtATimePublishes, Publishing
  <2>2. ASSUME NEW q \in Runs PROVE OverlapRun(q)'
    <3>1. OverlapRun(q) /\ HasExisting(q)' = HasExisting(q) /\ Existing(q)' = Existing(q)
      BY <1>3 DEF work, OverlapInv, HasExisting, Known, Existing
    <3>2. ReadInv(q)' = ReadInv(q) /\ RegenerationInv(q)' = RegenerationInv(q)
      BY <1>3, <3>1 DEF store, work, ReadInv, RegenerationInv
    <3> QED
      BY <1>3, <3>1, <3>2 DEF store, work, OverlapRun, HasChecksum
  <2> QED
    BY <1>1, <2>1, <2>2 DEF OverlapInv
<1>4. ~LoseMetadata
  BY DEF LoseMetadata
<1> QED
  BY <1>2, <1>3, <1>4 DEF Next, RunStep, EditRings, vars

\* The invariant holds of every behaviour whose metadata nobody deletes.
LEMMA OverlapCorrect ==
  ASSUME Apart, OneRefresher
  PROVE  Spec /\ MetadataLasts => []OverlapInv
<1> DEFINE Lasts == metadata # NoDocument => metadata' # NoDocument
<1>1. Init => OverlapInv
  BY OverlapInit
<1>2. OverlapInv /\ [Next]_vars /\ [Lasts]_metadata => OverlapInv'
  BY OverlapStep
<1>3. MetadataLasts => [][Lasts]_metadata
  BY DEF MetadataLasts
<1> HIDE DEF Lasts
<1> QED
  BY <1>1, <1>2, <1>3, PTL DEF Spec

\* Runs that publish one at a time publish safely.
LEMMA OverlapPublishes ==
  ASSUME OverlapInv
  PROVE  \A r \in Runs : PublishesSafely(r)
<1> SUFFICES ASSUME NEW r \in Runs PROVE PublishesSafely(r)
  OBVIOUS
<1>1. OverlapRun(r)
  BY DEF OverlapInv
<1>2. CASE pc[r] \in {"writeJCAT", "writeMetadata"}
  <2>1. document[r].packages \subseteq packages
    BY <1>2, DocumentStored DEF Deciding
  <2>2. metadata # NoDocument /\ metadata.schema = "current"
          => FirmwareOf(metadata.packages) \subseteq FirmwareOf(document[r].packages)
    BY <1>2, DocumentCovers DEF Current, FirmwareOf
  <2> QED
    BY <1>1, <1>2, <2>1, <2>2 DEF OverlapRun, PublishesSafely
<1>3. CASE pc[r] \notin {"writeJCAT", "writeMetadata"}
  BY <1>1, <1>3 DEF OverlapRun, PublishesSafely, Cleaning
<1> QED
  BY <1>2, <1>3

(***************************************************************************)
(* No package the metadata names is missing although regenerations, and a  *)
(* refresh that deletes what is superseded, work at once: what a           *)
(* regeneration read long ago it does not publish over newer metadata, as  *)
(* the JCAT or the metadata it finds tells (settled).                      *)
(***************************************************************************)
THEOREM NoDanglingPackageApart ==
  ASSUME Apart, OneRefresher
  PROVE  Spec /\ MetadataLasts => []NoDanglingPackage
<1>1. OverlapInv => NoDanglingPackage
  BY DEF OverlapInv
<1> QED
  BY <1>1, OverlapCorrect, PTL

(***************************************************************************)
(* Nor does any of their publishes take firmware out of the metadata.      *)
(***************************************************************************)
THEOREM FirmwareKeptApart ==
  ASSUME Apart, OneRefresher
  PROVE  Spec /\ MetadataLasts => FirmwareKept
<1>1. OverlapInv /\ [Next]_vars => [KeepsFirmware]_vars
  BY OverlapPublishes, KeepsFirmwareStep
<1> QED
  BY <1>1, OverlapCorrect, PTL DEF Spec, FirmwareKept, KeepsFirmware

(***************************************************************************)
(* And so such runs implement Mirror too.                                  *)
(***************************************************************************)
THEOREM MirrorPromiseKeptApart ==
  ASSUME Apart, OneRefresher
  PROVE  Spec /\ MetadataLasts => MirrorPromise
<1>1. OverlapInv /\ [Next]_vars => [Promise!Next]_(Promise!mirrorVars)
  BY OverlapPublishes, PromiseStep DEF OverlapInv
<1> QED
  BY <1>1, PromiseInit, OverlapCorrect, PTL DEF Spec, MirrorPromise, Promise!Spec

-----------------------------------------------------------------------------
(***************************************************************************)
(* Runs of any number and kind that overlap in any way, none of which      *)
(* deletes.                                                                *)
(***************************************************************************)
NoCleanup == \A c \in RefreshConfigs : ~c.cleanup

\* What a run holds is stored, and stays so.
HoldsStored(r) ==
  /\ ~config[r].cleanup /\ pc[r] \notin Cleaning
  /\ mirrored[r] \subseteq packages
  /\ Known(r) => stored[r].packages \subseteq packages
  /\ pc[r] \in Deciding => document[r].packages \subseteq packages

GrowingInv ==
  /\ TypeInv
  /\ NoDanglingPackage
  /\ \A r \in Runs : HoldsStored(r)

\* No process holds anything yet.
LEMMA GrowingInit == Init => GrowingInv
<1> SUFFICES ASSUME Init PROVE GrowingInv
  OBVIOUS
<1>1. TypeInv /\ NoDanglingPackage
  BY SafetyInit DEF SafetyInv
<1>2. ASSUME NEW r \in Runs PROVE HoldsStored(r)
  BY DEF Init, HoldsStored, Deciding, Cleaning, Known, IdleConfig
<1> QED
  BY <1>1, <1>2 DEF GrowingInv

\* A process that ends holds nothing.
LEMMA ExitHolds ==
  ASSUME TypeOK, NEW r \in Runs, NEW how, Exit(r, how)
  PROVE  HoldsStored(r)'
<1>1. pc'[r] = "idle" /\ mirrored'[r] = {} /\ ~config'[r].cleanup /\ stored'[r] = NoDocument
  BY DEF Exit, TypeOK, IdleConfig
<1> QED
  BY <1>1 DEF HoldsStored, Deciding, Cleaning, Known

\* Without cleanup packages are only added.
LEMMA PackagesGrow ==
  ASSUME GrowingInv, NEW r \in Runs, RunStep(r)
  PROVE  packages \subseteq packages'
<1>1. ASSUME NEW p, DeletePackage(r, p) PROVE FALSE
  BY <1>1 DEF DeletePackage, GrowingInv, HoldsStored, Cleaning
<1> QED
  BY <1>1, StoreSteps DEF store, Mirror, MirrorFails, WriteJCAT, WriteMetadata

\* What is built is stored.
LEMMA BuiltStored ==
  ASSUME GrowingInv, NEW r \in Runs, NEW defs
  PROVE  BuildDocument(r, defs).packages \subseteq packages
<1>1. mirrored[r] \subseteq packages /\ Existing(r) \subseteq packages
  BY DEF GrowingInv, HoldsStored, Existing, HasExisting
<1>2. BuildDocument(r, defs).packages
        = MergeComponents(Existing(r), mirrored[r], config[r].cleanup)
  BY DEF BuildDocument
<1> QED
  BY <1>1, <1>2 DEF MergeComponents

\* A step of a process leaves it holding what is stored, and nothing dangling.
LEMMA GrowingOwn ==
  ASSUME NoCleanup, GrowingInv, NEW r \in Runs, RunStep(r)
  PROVE  HoldsStored(r)' /\ NoDanglingPackage'
<1> TypeOK /\ HoldsStored(r) /\ NoDanglingPackage /\ packages \subseteq packages'
  BY PackagesGrow DEF GrowingInv, TypeInv
<1>1. NoDanglingPackage'
  <2>1. CASE WriteMetadata(r)
    BY <2>1 DEF WriteMetadata, HoldsStored, Deciding, NoDanglingPackage
  <2>2. CASE ~WriteMetadata(r)
    BY <2>2, StoreSteps DEF store, Mirror, MirrorFails, WriteJCAT, DeletePackage, NoDanglingPackage
  <2> QED
    BY <2>1, <2>2
<1>2. HoldsStored(r)'
  <2> USE DEF TypeOK, Deciding, Cleaning
  <2>1. CASE \E c \in ConfigsOf(r) : Start(r, c)
    <3>1. \A c \in ConfigsOf(r) : ~c.cleanup
      BY ConfigAssumption DEF NoCleanup, ConfigsOf
    <3> QED
      BY <2>1, <3>1 DEF Start, store, HoldsStored, Known
  <2>2. CASE LoadMetadata(r)
    BY <2>2 DEF LoadMetadata, Goto, store, HoldsStored, Known, NoDanglingPackage
  <2>3. CASE Preflight(r)
    <3>1. PICK j : IF PreflightRefuses(r, j)
                   THEN Exit(r, "refused")
                   ELSE /\ Goto(r, "mirror")
                        /\ UNCHANGED <<config, definitions, stored, mirrored, document, seen, doomed>>
      BY <2>3 DEF Preflight
    <3>2. CASE PreflightRefuses(r, j)
      BY <3>1, <3>2, ExitHolds
    <3>3. CASE ~PreflightRefuses(r, j)
      BY <3>1, <3>3 DEF Goto, HoldsStored, Known
    <3> QED
      BY <3>2, <3>3
  <2>4. CASE \E f \in Firmware, b \in Builds : Mirror(r, f, b)
    BY <2>4 DEF Mirror, HoldsStored, Known
  <2>5. CASE SaveMetadata(r)
    <3>1. CASE ~HasExisting(r) /\ mirrored[r] = {}
      BY <2>5, <3>1, ExitHolds DEF SaveMetadata
    <3>2. CASE ~(~HasExisting(r) /\ mirrored[r] = {})
      <4>1. PICK defs : /\ document' = [document EXCEPT ![r] = BuildDocument(r, defs)]
                        /\ Goto(r, "readJCAT")
                        /\ UNCHANGED <<config, stored, todo, mirrored, seen, doomed>>
        BY <2>5, <3>2 DEF SaveMetadata
      <4>2. BuildDocument(r, defs).packages \subseteq packages
        BY BuiltStored
      <4> QED
        BY <4>1, <4>2 DEF Goto, HoldsStored, Known
    <3> QED
      BY <3>1, <3>2
  <2>6. CASE RegenerateMetadata(r)
    <3>1. CASE ~HasExisting(r)
      BY <2>6, <3>1, ExitHolds DEF RegenerateMetadata
    <3>2. CASE HasExisting(r)
      BY <2>6, <3>2, BuiltStored DEF RegenerateMetadata, Goto, HoldsStored, Known
    <3> QED
      BY <3>1, <3>2
  <2>7. CASE ReadStoredJCAT(r)
    BY <2>7 DEF ReadStoredJCAT, Goto, HoldsStored, Known
  <2>8. CASE LeaveUnverified(r) \/ LeaveAlone(r) \/ FinishCleanup(r) \/ Abort(r)
    <3>1. \E how : Exit(r, how)
      BY <2>8 DEF LeaveUnverified, LeaveAlone, FinishCleanup, Abort
    <3> QED
      BY <3>1, ExitHolds
  <2>9. CASE KeepUnchanged(r) \/ WriteMetadata(r)
    <3>1. \E how : Exit(r, how)
      BY <2>9 DEF KeepUnchanged, WriteMetadata, Reclaim, HoldsStored
    <3> QED
      BY <3>1, ExitHolds
  <2>10. CASE DecideToWrite(r)
    <3>1. CASE Refuses(r)
      BY <2>10, <3>1, ExitHolds DEF DecideToWrite
    <3>2. CASE ~Refuses(r)
      BY <2>10, <3>2 DEF DecideToWrite, Goto, work, HoldsStored, Known
    <3> QED
      BY <3>1, <3>2
  <2>11. CASE WriteJCAT(r)
    BY <2>11 DEF WriteJCAT, Goto, work, HoldsStored, Known
  <2>12. CASE (\E f \in Firmware : MirrorFails(r, f)) \/ Interrupt(r)
    BY <2>12 DEF MirrorFails, Interrupt, HoldsStored, Known
  <2>13. CASE ListPackages(r) \/ (\E p \in Package : DeletePackage(r, p) \/ DeleteFails(r, p))
    BY <2>13 DEF ListPackages, DeletePackage, DeleteFails, HoldsStored
  <2> QED
    BY <2>1, <2>2, <2>3, <2>4, <2>5, <2>6, <2>7, <2>8, <2>9, <2>10, <2>11, <2>12, <2>13
    DEF RunStep, Progress, Trouble
<1> QED
  BY <1>1, <1>2

\* The invariant is inductive.
LEMMA GrowingStep ==
  ASSUME NoCleanup
  PROVE  GrowingInv /\ [Next]_vars => GrowingInv'
<1> SUFFICES ASSUME GrowingInv, [Next]_vars PROVE GrowingInv'
  OBVIOUS
<1>1. TypeInv'
  BY TypeStep DEF GrowingInv
<1>2. ASSUME NEW r \in Runs, RunStep(r) PROVE GrowingInv'
  <2>1. HoldsStored(r)' /\ NoDanglingPackage'
    BY <1>2, GrowingOwn
  <2>2. ASSUME NEW q \in Runs, q # r PROVE HoldsStored(q)'
    BY <1>2, <2>2, Frame, PackagesGrow DEF GrowingInv, TypeInv, HoldsStored, Known
  <2> QED
    BY <1>1, <2>1, <2>2 DEF GrowingInv
<1>3. CASE UNCHANGED <<packages, pc, work>> /\ metadata' \in {metadata, NoDocument}
  BY <1>1, <1>3 DEF work, GrowingInv, NoDanglingPackage, HoldsStored, Known
<1> QED
  BY <1>2, <1>3 DEF Next, RunStep, EditRings, LoseMetadata, vars, store

(***************************************************************************)
(* Runs may overlap in any way, and lose what another one published, but   *)
(* never name a package that is not stored, as long as none is started     *)
(* with --s3.cleanup.                                                      *)
(***************************************************************************)
THEOREM NoDanglingPackageWithoutCleanup ==
  ASSUME NoCleanup
  PROVE  Spec => []NoDanglingPackage
<1>1. GrowingInv => NoDanglingPackage
  BY DEF GrowingInv
<1> QED
  BY <1>1, GrowingInit, GrowingStep, PTL DEF Spec

-----------------------------------------------------------------------------
(***************************************************************************)
(* What the JCAT tells about other runs, of which there may be any number  *)
(* as long as two do not publish at once.                                  *)
(***************************************************************************)
JCATOfMetadata ==
  faults = 0 =>
    /\ \A r \in Runs : pc[r] = "writeMetadata" => HasChecksum(jcat, document[r])
    /\ (\A r \in Runs : pc[r] # "writeMetadata") =>
         jcat \in NotAJCAT \/ jcat.file = metadata

TellingInv == TypeInv /\ OneAtATimePublishes /\ JCATOfMetadata

\* Without a fault a run that is to write the metadata has written its JCAT.
LEMMA TellingStep ==
  ASSUME Overlap # "any"
  PROVE  TellingInv /\ [Next]_vars => TellingInv'
<1> SUFFICES ASSUME TellingInv, [Next]_vars PROVE TellingInv'
  OBVIOUS
<1>1. TypeInv' /\ TypeOK
  BY TypeStep DEF TellingInv, TypeInv
<1>2. ASSUME NEW r \in Runs, RunStep(r) PROVE TellingInv'
  <2>1. OneAtATimePublishes'
    BY <1>1, <1>2, PublishesAlone DEF TellingInv
  <2>2. ASSUME faults' = 0 PROVE JCATOfMetadata'
    <3> \A q \in Runs : q # r => pc'[q] = pc[q] /\ document'[q] = document[q]
      BY <1>1, <1>2, Frame
    <3>1. CASE WriteJCAT(r)
      <4>1. document[r] \in Document
        BY <3>1 DEF WriteJCAT, TellingInv, TypeInv, HasDocument, Built
      <4>2. jcat' \in JCAT /\ jcat'.file = document[r]
        BY <1>1, <3>1, <4>1, WrittenJCATType DEF WriteJCAT
      <4>3. HasChecksum(jcat', document[r])
        BY <4>2, AbsentAssumption DEF HasChecksum
      <4>4. pc'[r] = "writeMetadata" /\ document'[r] = document[r]
        BY <1>1, <3>1 DEF WriteJCAT, Goto, work, TypeOK
      <4>5. \A q \in Runs : q # r => pc[q] # "writeMetadata"
        BY <3>1 DEF WriteJCAT, TellingInv, OneAtATimePublishes, Publishing
      <4> QED
        BY <4>3, <4>4, <4>5 DEF JCATOfMetadata, HasChecksum
    <3>2. CASE WriteMetadata(r)
      <4>1. /\ pc[r] = "writeMetadata" /\ faults = 0
            /\ metadata' = document[r] /\ jcat' = jcat
        BY <2>2, <3>2 DEF WriteMetadata
      <4>2. HasChecksum(jcat, document[r])
        BY <4>1 DEF TellingInv, JCATOfMetadata
      <4>3. pc'[r] # "writeMetadata"
        BY <1>1, <3>2 DEF WriteMetadata, Reclaim, Exit, TypeOK
      <4>4. \A q \in Runs : q # r => pc[q] # "writeMetadata"
        BY <4>1 DEF TellingInv, OneAtATimePublishes, Publishing
      <4> QED
        BY <4>1, <4>2, <4>3, <4>4 DEF JCATOfMetadata, HasChecksum
    <3>3. CASE ~WriteJCAT(r) /\ ~WriteMetadata(r)
      <4>1. metadata' = metadata /\ jcat' = jcat
        BY <1>2, <3>3, StoreSteps DEF store, Mirror, MirrorFails, DeletePackage
      <4>2. ~Fault
        BY <1>1, <2>2 DEF Fault, TypeOK
      <4>3. faults = 0
        BY <1>1, <1>2, <2>2, <4>2 DEF RunStep, Progress, Trouble, Start, LoadMetadata, Preflight,
           MayReadJCAT, ReadsJCAT, NoFault, Mirror, SaveMetadata, RegenerateMetadata,
           ReadStoredJCAT, LeaveUnverified, LeaveAlone, KeepUnchanged, DecideToWrite, WriteJCAT,
           WriteMetadata, ListPackages, DeletePackage, FinishCleanup, MirrorFails, Interrupt,
           DeleteFails, Abort
      <4>4. pc'[r] = "writeMetadata" <=> pc[r] = "writeMetadata"
        BY <1>1, <1>2, <3>3, <4>2 DEF RunStep, Progress, Trouble, Start, LoadMetadata, Preflight,
           Mirror, SaveMetadata, RegenerateMetadata, ReadStoredJCAT, LeaveUnverified, LeaveAlone,
           KeepUnchanged, DecideToWrite, ListPackages, DeletePackage, FinishCleanup,
           MirrorFails, Interrupt, DeleteFails, Abort, Reclaim, Exit, Goto, TypeOK
      <4>5. pc[r] = "writeMetadata" => document'[r] = document[r]
        BY <1>2, <3>3, <4>2 DEF RunStep, Progress, Trouble, Start, LoadMetadata, Preflight,
           Mirror, SaveMetadata, RegenerateMetadata, ReadStoredJCAT, LeaveUnverified, LeaveAlone,
           KeepUnchanged, DecideToWrite, ListPackages, DeletePackage, FinishCleanup,
           MirrorFails, Interrupt, DeleteFails, Abort
      <4> QED
        BY <4>1, <4>3, <4>4, <4>5 DEF TellingInv, JCATOfMetadata, HasChecksum
    <3> QED
      BY <3>1, <3>2, <3>3
  <2> QED
    BY <1>1, <2>1, <2>2 DEF TellingInv, JCATOfMetadata
<1>3. CASE UNCHANGED <<store, pc, work, faults>>
  BY <1>1, <1>3
  DEF store, work, TellingInv, OneAtATimePublishes, Publishing, JCATOfMetadata, HasChecksum
<1>4. CASE LoseMetadata
  <2>1. faults' # 0
    BY <1>1, <1>4 DEF LoseMetadata, Fault, TypeOK
  <2> QED
    BY <1>1, <1>4, <2>1
    DEF LoseMetadata, TellingInv, OneAtATimePublishes, Publishing, JCATOfMetadata
<1> QED
  BY <1>2, <1>3, <1>4 DEF Next, RunStep, EditRings, vars

\* The JCAT left by an earlier firmirror is of the metadata it left.
LEMMA TellingInit == Init => TellingInv
<1> SUFFICES ASSUME Init PROVE TellingInv
  OBVIOUS
<1>1. jcat \notin NotAJCAT => jcat.file = metadata
  <2> SUFFICES ASSUME jcat \notin NotAJCAT PROVE jcat.file = metadata
    OBVIOUS
  <2>1. jcat \in [file : {metadata}, signed : BOOLEAN]
    BY DEF Init, NotAJCAT
  <2> QED
    BY <2>1
<1>2. OneAtATimePublishes /\ JCATOfMetadata
  BY <1>1 DEF Init, OneAtATimePublishes, Publishing, JCATOfMetadata
<1> QED
  BY <1>2, TypeInit DEF TellingInv

(***************************************************************************)
(* As long as nothing failed, a JCAT with the checksum of the file a run   *)
(* read shows that nothing was published since, however many runs work at  *)
(* once, if no two publish at once, and whatever they were started with.   *)
(***************************************************************************)
THEOREM JCATShowsNothingPublishedCorrect ==
  ASSUME Overlap # "any"
  PROVE  Spec => JCATShowsNothingPublishedUnlessCrashed
<1> DEFINE Tells == faults' = 0 => \A r \in Runs : JCATTells(r)
<1>1. TellingInv /\ [Next]_vars => [Tells]_vars
  <2> SUFFICES ASSUME TellingInv, Next, faults' = 0, NEW r \in Runs,
                      pc[r] = "readJCAT", pc'[r] = "settle", HasChecksum(seen'[r], stored[r])
               PROVE  metadata \in {stored[r], NoDocument}
    BY DEF JCATTells
  <2> TypeOK
    BY DEF TellingInv, TypeInv
  <2>1. ReadStoredJCAT(r)
    <3>1. PICK q \in Runs : RunStep(q)
      BY DEF Next, RunStep, EditRings, LoseMetadata
    <3>2. q = r
      BY <3>1, Frame
    <3> QED
      BY <3>1, <3>2 DEF RunStep, Progress, Trouble, Start, LoadMetadata, Preflight,
         Mirror, SaveMetadata, RegenerateMetadata, LeaveUnverified, LeaveAlone,
         KeepUnchanged, DecideToWrite, WriteJCAT, WriteMetadata, ListPackages,
         DeletePackage, FinishCleanup, MirrorFails, Interrupt, DeleteFails, Abort, Exit, TypeOK
  <2>2. \A q \in Runs : pc[q] # "writeMetadata"
    BY <2>1 DEF ReadStoredJCAT, MayPublish, Publishing
  <2>3. PICK j \in {NoJCAT, jcat, UnreadableJCAT} :
          /\ MayReadJCAT(ChecksState(r) \/ (~config[r].signing /\ Known(r)), j)
          /\ seen' = [seen EXCEPT ![r] = j]
    BY <2>1 DEF ReadStoredJCAT
  <2>4. faults = 0
    BY <2>3 DEF MayReadJCAT, ReadsJCAT, Fault, NoFault, TypeOK
  <2>5. jcat \notin NotAJCAT /\ jcat.file = stored[r]
    BY <2>3 DEF HasChecksum, NotAJCAT, TypeOK
  <2> QED
    BY <2>2, <2>4, <2>5 DEF TellingInv, JCATOfMetadata
<1> QED
  BY <1>1, TellingInit, TellingStep, PTL DEF Spec, JCATShowsNothingPublishedUnlessCrashed
=============================================================================
