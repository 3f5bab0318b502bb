--------------------------- MODULE PublishDecisions ---------------------------
(***************************************************************************)
(* Theorems about what runs decide, whatever their options and the         *)
(* definitions: signatures, ring tags and the base URL are kept, refusals  *)
(* come before mirroring, success means that metadata and JCAT match, and  *)
(* nothing is published needlessly; first for runs that do not overlap,    *)
(* then what of it holds of runs that do, but never publish at once.       *)
(*                                                                         *)
(* A decision is made on what was read, by SaveMetadata and then by        *)
(* writeMetadata, and takes effect later.  DecisionInv and Checked carry   *)
(* what each check found to the step it allows.                            *)
(***************************************************************************)
EXTENDS PublishSafety

Uncommitted == Gathering \cup Deciding \cup {"load"}

URLsNamePackages(doc) == doc # NoDocument /\ doc.absolute => doc.packages # {}

\* What readStoredJCAT is asked for.
NeedsJCAT(r) == ChecksState(r) \/ (~config[r].signing /\ Known(r))

\* What Preflight and reloadDefinitions have made sure of.
Foreseen(r) ==
  /\ ~Untagging(r, definitions[r])
  /\ ~BaseURLDropped(r)
  /\ Known(r) => SignatureKept(r, jcat)

NeedsWriting(r) ==
  \/ document[r] # metadata
  \/ ~HasChecksum(jcat, metadata)
  \/ config[r].signing /\ ~Signed(jcat)
  \/ seen[r] = UnreadableJCAT

DecisionInv(r) ==
  /\ pc[r] \in Uncommitted => outcome[r] = "none"
  /\ pc[r] \in Gathering \cup Deciding => URLsNamePackages(stored[r])
  /\ pc[r] \in Deciding =>
       /\ URLsNamePackages(document[r])
       /\ config[r].baseURL /\ Known(r) /\ stored[r].absolute => document[r].absolute
  /\ pc[r] \in {"settle", "writeJCAT"} /\ NeedsJCAT(r) => seen[r] \in {jcat, UnreadableJCAT}
  /\ pc[r] \in {"writeJCAT", "writeMetadata"} => ~Refuses(r)
  /\ pc[r] = "writeMetadata" /\ config[r].signing => Signed(jcat)
  /\ r \in Refreshers /\ pc[r] \in {"mirror", "readJCAT", "settle"} => Foreseen(r)
  /\ r \in Refreshers /\ pc[r] = "writeJCAT" => NeedsWriting(r)
  /\ r \in Refreshers => pc[r] # "regenerate"

DecisionsInv ==
  /\ SafetyInv
  /\ URLsNamePackages(metadata)
  /\ \A r \in Runs : DecisionInv(r)

-----------------------------------------------------------------------------
\* What is concluded from the options and the document read stays so with them.
LEMMA SameFacts ==
  ASSUME NEW r \in Runs, UNCHANGED <<config[r], stored[r]>>
  PROVE  /\ Known(r)' <=> Known(r)
         /\ HasExisting(r)' <=> HasExisting(r)
         /\ Existing(r)' = Existing(r)
         /\ StoredTags(r)' = StoredTags(r)
         /\ BaseURLDropped(r)' <=> BaseURLDropped(r)
         /\ URLsNamePackages(stored[r])' <=> URLsNamePackages(stored[r])
         /\ UNCHANGED jcat => (SignatureKept(r, jcat)' <=> SignatureKept(r, jcat))
BY DEF Known, HasExisting, Existing, StoredTags, DocumentTags, BaseURLDropped, URLsNamePackages,
   SignatureKept, Signed

LEMMA SameForeseen ==
  ASSUME NEW r \in Runs, UNCHANGED <<config[r], stored[r], definitions[r], jcat>>, Foreseen(r)
  PROVE  Foreseen(r)'
<1>1. Untagging(r, definitions[r])' <=> Untagging(r, definitions[r])
  BY SameFacts DEF Untagging, PossibleTags
<1> QED BY <1>1, SameFacts DEF Foreseen

LEMMA SameRefusal ==
  ASSUME NEW r \in Runs,
         UNCHANGED <<config[r], stored[r], definitions[r], document[r], mirrored[r], seen[r]>>
  PROVE  /\ Refuses(r)' <=> Refuses(r)
         /\ ChecksState(r)' <=> ChecksState(r)
         /\ NeedsJCAT(r)' <=> NeedsJCAT(r)
<1>1. CheckTags(r, definitions[r], document[r])' <=> CheckTags(r, definitions[r], document[r])
  BY SameFacts DEF CheckTags, Untagging, NoRingTag, PossibleTags, DocumentTags
<1>2. SignatureKept(r, seen[r])' <=> SignatureKept(r, seen[r])
  BY DEF SignatureKept, Signed
<1>3. Refuses(r)' <=> Refuses(r)
  BY <1>1, <1>2, SameFacts DEF Refuses
<1>4. ChecksState(r)' <=> ChecksState(r)
  BY SameFacts DEF ChecksState, Unchanged
<1> QED BY <1>3, <1>4, SameFacts DEF NeedsJCAT

\* A run that has published, or has ended, has no decision left to take.
LEMMA DecisionsTaken ==
  ASSUME DecisionsInv, NEW r \in Runs, pc'[r] \in Cleaning \cup {"idle"}
  PROVE  DecisionInv(r)'
BY DEF DecisionInv, Uncommitted, Gathering, Deciding, Cleaning

LEMMA ExitDecides ==
  ASSUME DecisionsInv, NEW r \in Runs, NEW how, Exit(r, how), UNCHANGED metadata
  PROVE  DecisionInv(r)' /\ URLsNamePackages(metadata)'
<1>1. pc'[r] = "idle"
  BY DEF Exit, DecisionsInv, SafetyInv, TypeInv, TypeOK
<1> QED BY <1>1, DecisionsTaken DEF DecisionsInv, URLsNamePackages

LEMMA ReclaimDecides ==
  ASSUME DecisionsInv, NEW r \in Runs, NEW how, Reclaim(r, how)
  PROVE  DecisionInv(r)'
<1>1. pc'[r] \in {"idle", "cleanup"}
  BY DEF Reclaim, Exit, DecisionsInv, SafetyInv, TypeInv, TypeOK
<1> QED BY <1>1, DecisionsTaken DEF Cleaning

\* What Preflight lets pass will be let pass.
LEMMA PreflightForesees ==
  ASSUME DecisionsInv, NEW r \in Runs, pc[r] = "preflight",
         NEW j, MayReadJCAT(~config[r].signing /\ Known(r), j), ~PreflightRefuses(r, j)
  PROVE  Foreseen(r)
<1>1. ~Untagging(r, definitions[r]) /\ ~BaseURLDropped(r) /\ (Known(r) => SignatureKept(r, j))
  BY DEF PreflightRefuses
<1>2. Known(r) => SignatureKept(r, jcat)
  <2>1. CASE config[r].signing
    BY <2>1 DEF SignatureKept
  <2>2. CASE ~config[r].signing /\ Known(r)
    <3>1. j \in {jcat, UnreadableJCAT}
      BY <2>2 DEF MayReadJCAT, ReadsJCAT
    <3> QED BY <1>1, <2>2, <3>1 DEF SignatureKept
  <2> QED BY <2>1, <2>2
<1> QED BY <1>1, <1>2 DEF Foreseen

\* A document built with a base URL has URLs wherever the one read had them.
LEMMA BuiltWithURLs ==
  ASSUME DecisionsInv, NEW r \in Runs, pc[r] \in Gathering, HasExisting(r) \/ mirrored[r] # {},
         NEW defs \in Definitions
  PROVE  /\ URLsNamePackages(BuildDocument(r, defs))
         /\ config[r].baseURL /\ Known(r) /\ stored[r].absolute
              => BuildDocument(r, defs).absolute
<1> DEFINE doc == BuildDocument(r, defs)
<1>1. /\ doc.packages = MergeComponents(Existing(r), mirrored[r], config[r].cleanup)
      /\ doc.absolute <=> config[r].baseURL /\ doc.packages # {}
  BY DEF BuildDocument
<1>2. FirmwareOf(Existing(r)) \subseteq FirmwareOf(doc.packages)
  BY BuildDocumentSafe DEF DecisionsInv
<1>3. ASSUME Known(r), stored[r].absolute
      PROVE  doc.packages # {}
  <2>1. CASE mirrored[r] # {}
    BY <1>1, <2>1 DEF MergeComponents
  <2>2. CASE HasExisting(r)
    <3>1. Existing(r) # {}
      BY <1>3, <2>2 DEF Existing, Known, DecisionsInv, DecisionInv, URLsNamePackages
    <3> QED BY <1>2, <3>1 DEF FirmwareOf
  <2> QED BY <2>1, <2>2
<1> QED BY <1>1, <1>3 DEF URLsNamePackages

\* What is written is different, or not beside its JCAT, or not signed as asked.
LEMMA DecidesForAReason ==
  ASSUME DecisionsInv, NEW r \in Refreshers, pc[r] = "settle",
         ChecksState(r) => Settled(r) = "write"
  PROVE  NeedsWriting(r)
<1>0. r \in Runs
  BY DEF Runs
<1>1. document[r] \in Document /\ metadata \in {stored[r], NoDocument}
  BY <1>0 DEF DecisionsInv, SafetyInv, TypeInv, HasDocument, Built, RunInv, Deciding
<1>2. CASE metadata = NoDocument
  BY <1>1, <1>2, AbsentAssumption DEF NeedsWriting
<1>3. CASE metadata # NoDocument /\ ~Unchanged(r)
  BY <1>1, <1>3 DEF NeedsWriting, Unchanged, Known
<1>4. CASE metadata # NoDocument /\ Unchanged(r)
  <2>1. ChecksState(r)
    BY <1>4 DEF ChecksState, Unchanged
  <2>2. ~StoredJCATCurrent(r)
    BY <1>1, <1>4, <2>1 DEF Settled
  <2>3. seen[r] \in {jcat, UnreadableJCAT}
    BY <1>0, <2>1 DEF DecisionsInv, DecisionInv, NeedsJCAT
  <2> QED BY <1>1, <1>4, <2>2, <2>3 DEF StoredJCATCurrent, NeedsWriting
<1> QED BY <1>2, <1>3, <1>4

\* A step of a process keeps what it knows about its decisions.
LEMMA DecisionRun ==
  ASSUME DecisionsInv, NEW r \in Runs, RunStep(r)
  PROVE  DecisionInv(r)' /\ URLsNamePackages(metadata)'
<1>0. TypeOK /\ DecisionInv(r) /\ URLsNamePackages(metadata)
  BY DEF DecisionsInv, SafetyInv, TypeInv
<1> USE DEF Uncommitted, Gathering, Deciding
<1>1. CASE \E c \in ConfigsOf(r) : Start(r, c)
  BY <1>0, <1>1 DEF Start, store, TypeOK, DecisionInv, URLsNamePackages
<1>2. CASE LoadMetadata(r)
  <2>1. /\ pc' = [pc EXCEPT ![r] = IF r \in Refreshers THEN "preflight" ELSE "regenerate"]
        /\ stored'[r] = metadata /\ UNCHANGED <<metadata, outcome>>
        /\ pc[r] = "load"
    BY <1>0, <1>2 DEF LoadMetadata, Goto, store, TypeOK
  <2> QED BY <1>0, <2>1 DEF TypeOK, DecisionInv, URLsNamePackages
<1>3. CASE Preflight(r)
  <2>1. UNCHANGED store /\ pc[r] = "preflight"
    BY <1>3 DEF Preflight
  <2>2. PICK j : /\ MayReadJCAT(~config[r].signing /\ Known(r), j)
                 /\ IF PreflightRefuses(r, j)
                    THEN Exit(r, "refused")
                    ELSE /\ Goto(r, "mirror")
                         /\ UNCHANGED <<config, definitions, stored, mirrored, document, seen, doomed>>
    BY <1>3 DEF Preflight
  <2>3. CASE PreflightRefuses(r, j)
    BY <2>1, <2>2, <2>3, ExitDecides DEF store
  <2>4. CASE ~PreflightRefuses(r, j)
    <3>1. Foreseen(r)
      BY <2>1, <2>2, <2>4, PreflightForesees
    <3>2. UNCHANGED <<config, definitions, stored, jcat, metadata, outcome>>
          /\ pc' = [pc EXCEPT ![r] = "mirror"]
      BY <2>1, <2>2, <2>4 DEF store, Goto
    <3>3. Foreseen(r)'
      BY <3>1, <3>2, SameForeseen
    <3> QED BY <1>0, <2>1, <3>2, <3>3 DEF TypeOK, DecisionInv, URLsNamePackages
  <2> QED BY <2>3, <2>4
<1>4. CASE \/ \E f \in Firmware, b \in Builds : Mirror(r, f, b)
           \/ \E f \in Firmware : MirrorFails(r, f)
           \/ Interrupt(r)
  <2>1. /\ pc[r] = "mirror"
        /\ UNCHANGED <<pc, outcome, config, definitions, stored, jcat, metadata>>
    BY <1>4 DEF Mirror, MirrorFails, Interrupt, store
  <2>2. Foreseen(r) => Foreseen(r)'
    BY <2>1, SameForeseen
  <2> QED BY <1>0, <2>1, <2>2 DEF DecisionInv, URLsNamePackages
<1>5. CASE SaveMetadata(r)
  <2>1. UNCHANGED store /\ pc[r] = "mirror"
    BY <1>5 DEF SaveMetadata
  <2>2. CASE ~HasExisting(r) /\ mirrored[r] = {}
    BY <1>5, <2>1, <2>2, ExitDecides DEF SaveMetadata, store
  <2>3. CASE HasExisting(r) \/ mirrored[r] # {}
    <3>1. PICK defs \in {Reloaded(r, ringsFile), definitions[r]} :
            /\ definitions' = [definitions EXCEPT ![r] = defs]
            /\ document' = [document EXCEPT ![r] = BuildDocument(r, defs)]
            /\ Goto(r, "readJCAT")
            /\ UNCHANGED <<config, stored, todo, mirrored, seen, doomed>>
      BY <1>5, <2>3 DEF SaveMetadata
    <3>2. defs \in Definitions
      BY <1>0, <3>1 DEF Reloaded, TypeOK
    <3>3. /\ definitions'[r] = defs
          /\ document'[r] = BuildDocument(r, defs)
          /\ pc' = [pc EXCEPT ![r] = "readJCAT"]
          /\ UNCHANGED <<outcome, config, stored, jcat, metadata>>
      BY <1>0, <2>1, <3>1 DEF TypeOK, Goto, store
    <3>4. /\ URLsNamePackages(document'[r])
          /\ config[r].baseURL /\ Known(r) /\ stored[r].absolute => document'[r].absolute
      BY <2>1, <2>3, <3>2, <3>3, BuiltWithURLs
    <3>5. r \in Refreshers => Foreseen(r)'
      <4>1. Foreseen(r) => ~Untagging(r, defs)
        BY <3>1 DEF Foreseen, Reloaded, CheckTags
      <4>2. Untagging(r, definitions[r])' <=> Untagging(r, defs)
        BY <3>3, SameFacts DEF Untagging, PossibleTags
      <4> QED BY <1>0, <2>1, <3>3, <4>1, <4>2, SameFacts DEF DecisionInv, Foreseen
    <3> QED BY <1>0, <2>1, <3>3, <3>4, <3>5 DEF TypeOK, DecisionInv, URLsNamePackages, Known
  <2> QED BY <2>2, <2>3
<1>6. CASE RegenerateMetadata(r)
  <2>1. UNCHANGED store /\ pc[r] = "regenerate" /\ r \notin Refreshers
    BY <1>0, <1>6 DEF RegenerateMetadata, DecisionInv
  <2>2. CASE ~HasExisting(r)
    BY <1>6, <2>1, <2>2, ExitDecides DEF RegenerateMetadata, store
  <2>3. CASE HasExisting(r)
    <3>1. /\ document'[r] = BuildDocument(r, definitions[r])
          /\ pc' = [pc EXCEPT ![r] = "readJCAT"]
          /\ UNCHANGED <<outcome, config, stored, jcat, metadata>>
      BY <1>0, <1>6, <2>1, <2>3 DEF RegenerateMetadata, TypeOK, Goto, store
    <3>2. /\ URLsNamePackages(document'[r])
          /\ config[r].baseURL /\ Known(r) /\ stored[r].absolute => document'[r].absolute
      BY <1>0, <2>1, <2>3, <3>1, BuiltWithURLs DEF TypeOK
    <3> QED BY <1>0, <2>1, <3>1, <3>2 DEF TypeOK, DecisionInv, URLsNamePackages, Known
  <2> QED BY <2>2, <2>3
<1>7. CASE ReadStoredJCAT(r)
  <2>1. PICK j : MayReadJCAT(NeedsJCAT(r), j) /\ seen' = [seen EXCEPT ![r] = j]
    BY <1>7 DEF ReadStoredJCAT, NeedsJCAT
  <2>2. /\ pc[r] = "readJCAT" /\ pc' = [pc EXCEPT ![r] = "settle"]
        /\ UNCHANGED <<outcome, config, definitions, stored, mirrored, document, jcat, metadata>>
    BY <1>7 DEF ReadStoredJCAT, Goto, store
  <2>3. NeedsJCAT(r)' <=> NeedsJCAT(r)
    BY <2>2, SameFacts DEF NeedsJCAT, ChecksState, Unchanged
  <2>4. NeedsJCAT(r) => seen'[r] \in {jcat, UnreadableJCAT}
    BY <1>0, <2>1 DEF MayReadJCAT, ReadsJCAT, TypeOK
  <2>5. Foreseen(r) => Foreseen(r)'
    BY <2>2, SameForeseen
  <2> QED BY <1>0, <2>2, <2>3, <2>4, <2>5 DEF TypeOK, DecisionInv, URLsNamePackages, Known
<1>8. CASE LeaveUnverified(r) \/ LeaveAlone(r)
  BY <1>8, ExitDecides DEF LeaveUnverified, LeaveAlone, store
<1>9. CASE KeepUnchanged(r)
  <2>1. UNCHANGED metadata
    BY <1>9 DEF KeepUnchanged, store
  <2> QED BY <1>0, <1>9, <2>1, ReclaimDecides DEF KeepUnchanged, URLsNamePackages
<1>10. CASE DecideToWrite(r)
  <2>1. CASE Refuses(r)
    BY <1>10, <2>1, ExitDecides DEF DecideToWrite, store
  <2>2. CASE ~Refuses(r)
    <3>1. /\ pc[r] = "settle" /\ pc' = [pc EXCEPT ![r] = "writeJCAT"]
          /\ UNCHANGED <<outcome, config, definitions, stored, mirrored, document, seen, jcat, metadata>>
          /\ ChecksState(r) => Settled(r) = "write"
      BY <1>10, <2>2 DEF DecideToWrite, Goto, work, store
    <3>2. ~Refuses(r)' /\ (NeedsJCAT(r)' <=> NeedsJCAT(r))
      BY <2>2, <3>1, SameRefusal
    <3>3. r \in Refreshers => NeedsWriting(r)'
      BY <3>1, DecidesForAReason DEF NeedsWriting, HasChecksum, Signed
    <3> QED BY <1>0, <3>1, <3>2, <3>3 DEF TypeOK, DecisionInv, URLsNamePackages, Known
  <2> QED BY <2>1, <2>2
<1>11. CASE WriteJCAT(r)
  <2>1. /\ pc[r] = "writeJCAT" /\ pc' = [pc EXCEPT ![r] = "writeMetadata"]
        /\ UNCHANGED <<outcome, config, definitions, stored, mirrored, document, seen, metadata>>
        /\ jcat' = [file |-> document[r], signed |-> config[r].signing]
    BY <1>11 DEF WriteJCAT, Goto, work
  <2>2. Refuses(r)' <=> Refuses(r)
    BY <2>1, SameRefusal
  <2>3. document[r] \in Document
    BY <2>1 DEF DecisionsInv, SafetyInv, TypeInv, HasDocument, Built
  <2>4. jcat' \in JCAT
    BY <1>0, <2>1, <2>3, WrittenJCATType
  <2>5. config'[r].signing => Signed(jcat')
    BY <2>1, <2>4, AbsentAssumption DEF Signed
  <2> QED BY <1>0, <2>1, <2>2, <2>5 DEF TypeOK, DecisionInv, URLsNamePackages, Known
<1>12. CASE WriteMetadata(r)
  <2>1. metadata' = document[r] /\ URLsNamePackages(document[r])
    BY <1>0, <1>12 DEF WriteMetadata, DecisionInv
  <2> QED BY <1>12, <2>1, ReclaimDecides DEF WriteMetadata, URLsNamePackages
<1>13. CASE ListPackages(r) \/ \E p \in Package : DeletePackage(r, p) \/ DeleteFails(r, p)
  <2>1. pc'[r] \in Cleaning /\ UNCHANGED metadata
    BY <1>0, <1>13 DEF ListPackages, DeletePackage, DeleteFails, Goto, store, Cleaning, TypeOK
  <2> QED BY <1>0, <2>1, DecisionsTaken DEF URLsNamePackages
<1>14. CASE FinishCleanup(r) \/ Abort(r)
  BY <1>14, ExitDecides DEF FinishCleanup, Abort, store
<1> QED
  BY <1>1, <1>2, <1>3, <1>4, <1>5, <1>6, <1>7, <1>8, <1>9, <1>10, <1>11, <1>12, <1>13, <1>14
  DEF RunStep, Progress, Trouble

\* The invariant is inductive when runs do not overlap.
LEMMA DecisionsStep ==
  ASSUME Serial
  PROVE  DecisionsInv /\ [Next]_vars => DecisionsInv'
<1> SUFFICES ASSUME DecisionsInv, [Next]_vars PROVE DecisionsInv'
  OBVIOUS
<1>1. SafetyInv'
  BY SafetyStep DEF DecisionsInv
<1>2. ASSUME NEW r \in Runs, RunStep(r) PROVE DecisionsInv'
  <2>1. ASSUME NEW q \in Runs, q # r PROVE DecisionInv(q)'
    <3>1. pc'[q] = "idle"
      BY <1>2, <2>1, OthersIdle, Frame DEF DecisionsInv, SafetyInv, TypeInv
    <3> QED BY <3>1, DecisionsTaken
  <2> QED BY <1>1, <1>2, <2>1, DecisionRun DEF DecisionsInv
<1>3. ASSUME UNCHANGED <<jcat, pc, outcome, work>>, metadata' \in {metadata, NoDocument}
      PROVE  DecisionsInv'
  <2>1. ASSUME NEW r \in Runs PROVE DecisionInv(r)'
    <3>1. DecisionInv(r) /\ UNCHANGED <<jcat, pc, outcome, config, definitions, stored, mirrored, document, seen>>
      BY <1>3 DEF DecisionsInv, work
    <3>2. /\ Refuses(r)' <=> Refuses(r)
          /\ NeedsJCAT(r)' <=> NeedsJCAT(r)
          /\ Foreseen(r) => Foreseen(r)'
          /\ URLsNamePackages(stored[r])' <=> URLsNamePackages(stored[r])
          /\ URLsNamePackages(document[r])' <=> URLsNamePackages(document[r])
          /\ Known(r)' <=> Known(r)
      BY <3>1, SameRefusal, SameForeseen, SameFacts DEF URLsNamePackages
    <3>3. pc[r] = "writeJCAT" /\ NeedsWriting(r) => NeedsWriting(r)'
      <4>1. pc[r] = "writeJCAT" => document[r] # NoDocument
        BY AbsentAssumption DEF DecisionsInv, SafetyInv, TypeInv, HasDocument, Built
      <4> QED BY <1>3, <3>1, <4>1 DEF NeedsWriting, HasChecksum, Signed
    <3>4. Signed(jcat)' <=> Signed(jcat)
      BY <3>1 DEF Signed
    <3> QED BY <3>1, <3>2, <3>3, <3>4 DEF DecisionInv
  <2>2. URLsNamePackages(metadata)'
    BY <1>3 DEF DecisionsInv, URLsNamePackages
  <2> QED BY <1>1, <2>1, <2>2 DEF DecisionsInv
<1>4. CASE (\E defs \in RingFiles : EditRings(defs)) \/ LoseMetadata \/ UNCHANGED vars
  BY <1>3, <1>4 DEF EditRings, LoseMetadata, vars, store, work
<1> QED BY <1>2, <1>4 DEF Next, RunStep

LEMMA DecisionsInit == Init => DecisionsInv
<1> SUFFICES ASSUME Init PROVE DecisionsInv
  OBVIOUS
<1>1. SafetyInv
  BY SafetyInit
<1>2. URLsNamePackages(metadata)
  BY ConfigAssumption DEF Init, URLsNamePackages
<1>3. \A r \in Runs : DecisionInv(r)
  BY DEF Init, DecisionInv, Uncommitted, Gathering, Deciding
<1> QED BY <1>1, <1>2, <1>3 DEF DecisionsInv

LEMMA DecisionsAlways ==
  ASSUME Serial
  PROVE  Spec => []DecisionsInv
BY DecisionsInit, DecisionsStep, PTL DEF Spec

-----------------------------------------------------------------------------
\* What a run does where it decides, and where it commits.
LEMMA StepsFrom ==
  ASSUME NEW r \in Runs, RunStep(r)
  PROVE  /\ pc[r] = "settle" =>
              LeaveUnverified(r) \/ LeaveAlone(r) \/ KeepUnchanged(r) \/ DecideToWrite(r) \/ Abort(r)
         /\ pc[r] = "writeMetadata" => WriteMetadata(r) \/ Abort(r)
BY DEF RunStep, Progress, Trouble, Start, LoadMetadata, Preflight, Mirror, MirrorFails, SaveMetadata,
   RegenerateMetadata, ReadStoredJCAT, WriteJCAT, ListPackages, DeletePackage, DeleteFails,
   FinishCleanup, Interrupt, LeaveUnverified, LeaveAlone, KeepUnchanged, DecideToWrite, WriteMetadata

\* How a run that ends, or publishes, is said to have ended.
LEMMA OutcomeOf ==
  ASSUME TypeOK, NEW r \in Runs, NEW how, Exit(r, how) \/ Reclaim(r, how)
  PROVE  outcome'[r] = how /\ pc'[r] \in {"idle", "cleanup"}
BY DEF Exit, Reclaim, TypeOK

\* Where a run decides or commits, only its own steps say how it ends.
LEMMA OwnOutcome ==
  ASSUME Serial, DecisionsInv, Next, NEW r \in Runs, pc[r] \in Uncommitted, outcome'[r] # "none"
  PROVE  RunStep(r)
<1>1. outcome[r] = "none"
  BY DEF DecisionsInv, DecisionInv
<1>2. ASSUME NEW q \in Runs, RunStep(q), q # r PROVE FALSE
  <2>1. pc[r] = "idle"
    BY <1>2, OthersIdle DEF DecisionsInv
  <2> QED BY <2>1 DEF Uncommitted, Gathering, Deciding
<1>3. (\E defs \in RingFiles : EditRings(defs)) \/ LoseMetadata => outcome' = outcome
  BY DEF EditRings, LoseMetadata
<1> QED BY <1>1, <1>2, <1>3 DEF Next, RunStep

\* Another document is published by none but the run that writes it.
LEMMA Commits ==
  ASSUME DecisionsInv, Next, metadata' # metadata, metadata' # NoDocument
  PROVE  \E r \in Runs : WriteMetadata(r) /\ Writing(r)
<1>1. PICK r \in Runs : RunStep(r)
  BY DEF Next, RunStep, EditRings, LoseMetadata, store
<1>2. WriteMetadata(r)
  BY <1>1, StoreSteps DEF store, Mirror, MirrorFails, WriteJCAT, DeletePackage
<1>3. pc'[r] \in {"idle", "cleanup"}
  BY <1>2, OutcomeOf DEF WriteMetadata, DecisionsInv, SafetyInv, TypeInv
<1> QED BY <1>2, <1>3 DEF WriteMetadata, Writing

\* What is replaced is what the run read and checked.
LEMMA CommitsChecked ==
  ASSUME DecisionsInv, NEW r \in Runs, WriteMetadata(r), metadata # NoDocument
  PROVE  /\ metadata = stored[r] /\ Known(r) /\ metadata' = document[r]
         /\ CheckTags(r, definitions[r], document[r])
         /\ ~BaseURLDropped(r)
<1>1. pc[r] = "writeMetadata" /\ metadata' = document[r]
  BY DEF WriteMetadata
<1>2. metadata = stored[r]
  BY <1>1 DEF DecisionsInv, SafetyInv, RunInv, Deciding
<1>3. ~Refuses(r)
  BY <1>1 DEF DecisionsInv, DecisionInv
<1> QED BY <1>1, <1>2, <1>3 DEF Refuses, Known

(***************************************************************************)
(* A refresh writes only what is different, not beside its JCAT, not       *)
(* signed as asked, or could not be read, as long as runs do not overlap.  *)
(***************************************************************************)
THEOREM NoNeedlessPublishCorrect ==
  ASSUME Serial
  PROVE  Spec => []NoNeedlessPublish
<1>1. DecisionsInv => NoNeedlessPublish
  BY DEF DecisionsInv, DecisionInv, NoNeedlessPublish, NeedsWriting, Runs
<1> QED BY <1>1, DecisionsAlways, PTL

(***************************************************************************)
(* Locations that are URLs become bare names only when a run drops the     *)
(* base URL.                                                               *)
(***************************************************************************)
THEOREM BaseURLKeptCorrect ==
  ASSUME Serial
  PROVE  Spec => BaseURLKept
<1> DEFINE Kept == metadata # NoDocument /\ metadata' # NoDocument
                     /\ metadata.absolute /\ ~metadata'.absolute
                   => \E r \in Runs : Writing(r) /\ config[r].dropBaseURL
<1>1. DecisionsInv /\ [Next]_vars => [Kept]_vars
  <2> SUFFICES ASSUME DecisionsInv, Next, metadata # NoDocument, metadata' # NoDocument,
                      metadata.absolute, ~metadata'.absolute
               PROVE  \E r \in Runs : Writing(r) /\ config[r].dropBaseURL
    OBVIOUS
  <2>1. PICK r \in Runs : WriteMetadata(r) /\ Writing(r)
    BY Commits
  <2>2. /\ metadata = stored[r] /\ Known(r) /\ metadata' = document[r]
        /\ ~BaseURLDropped(r)
    BY <2>1, CommitsChecked
  <2>3. ~config[r].baseURL
    BY <2>1, <2>2 DEF WriteMetadata, DecisionsInv, DecisionInv, Deciding
  <2> QED BY <2>1, <2>2, <2>3 DEF BaseURLDropped
<1> QED BY <1>1, DecisionsAlways, PTL DEF Spec, BaseURLKept

(***************************************************************************)
(* A ring loses its tag only by force, or when the definitions still serve *)
(* it a version the mirror does not have, and the last tag only by force.  *)
(***************************************************************************)
THEOREM RingsKeptCorrect ==
  ASSUME Serial
  PROVE  Spec => RingsKept
<1> DEFINE Kept == metadata # NoDocument /\ metadata' # NoDocument
                   => \A ring \in DocumentTags(metadata) \ DocumentTags(metadata') :
                        \E r \in Runs :
                          /\ Writing(r)
                          /\ \/ config[r].force
                             \/ /\ ring \in PossibleTags(definitions[r])
                                /\ metadata.schema = "current" => DocumentTags(metadata') # {}
<1>1. DecisionsInv /\ [Next]_vars => [Kept]_vars
  <2> SUFFICES ASSUME DecisionsInv, Next, metadata # NoDocument, metadata' # NoDocument,
                      NEW ring \in DocumentTags(metadata) \ DocumentTags(metadata')
               PROVE  \E r \in Runs :
                        /\ Writing(r)
                        /\ \/ config[r].force
                           \/ /\ ring \in PossibleTags(definitions[r])
                              /\ metadata.schema = "current" => DocumentTags(metadata') # {}
    OBVIOUS
  <2>1. PICK r \in Runs : WriteMetadata(r) /\ Writing(r)
    BY Commits
  <2>2. /\ metadata = stored[r] /\ Known(r) /\ metadata' = document[r]
        /\ CheckTags(r, definitions[r], document[r])
    BY <2>1, CommitsChecked
  <2>3. StoredTags(r) = DocumentTags(metadata) /\ ring \in StoredTags(r)
    BY <2>2 DEF StoredTags
  <2>4. config[r].force \/ ring \in PossibleTags(definitions[r])
    BY <2>2, <2>3 DEF CheckTags, Untagging
  <2>5. config[r].force \/ (metadata.schema = "current" => DocumentTags(metadata') # {})
    BY <2>2, <2>3 DEF CheckTags, NoRingTag, HasExisting
  <2> QED BY <2>1, <2>4, <2>5
<1> QED BY <1>1, DecisionsAlways, PTL DEF Spec, RingsKept

(***************************************************************************)
(* A refresh that mirrored firmware is refused only when no ring tag is    *)
(* left or the JCAT can no longer be read.                                 *)
(***************************************************************************)
THEOREM RefusedBeforeMirroringCorrect ==
  ASSUME Serial
  PROVE  Spec => RefusedBeforeMirroring
<1> DEFINE Early == \A r \in Refreshers :
                      pc[r] = "settle" /\ outcome'[r] = "refused" /\ mirrored[r] # {}
                      => NoRingTag(r, document[r]) \/ seen[r] = UnreadableJCAT
<1>1. DecisionsInv /\ [Next]_vars => [Early]_vars
  <2> SUFFICES ASSUME DecisionsInv, Next, NEW r \in Refreshers,
                      pc[r] = "settle", outcome'[r] = "refused"
               PROVE  NoRingTag(r, document[r]) \/ seen[r] = UnreadableJCAT
    OBVIOUS
  <2>0. r \in Runs /\ TypeOK
    BY DEF Runs, DecisionsInv, SafetyInv, TypeInv
  <2>1. RunStep(r)
    BY <2>0, OwnOutcome DEF Uncommitted, Deciding
  <2>2. DecideToWrite(r)
    <3>1. LeaveUnverified(r) => outcome'[r] \in {"unchecked", "unverified"}
      BY <2>0, OutcomeOf DEF LeaveUnverified
    <3>2. LeaveAlone(r) => outcome'[r] \in {"republished", "unchecked"}
      BY <2>0, OutcomeOf DEF LeaveAlone
    <3>3. KeepUnchanged(r) => outcome'[r] = "unchanged"
      BY <2>0, OutcomeOf DEF KeepUnchanged
    <3>4. Abort(r) => outcome'[r] = "aborted"
      BY <2>0, OutcomeOf DEF Abort
    <3> QED BY <2>0, <2>1, <3>1, <3>2, <3>3, <3>4, StepsFrom
  <2>3. Refuses(r)
    <3>1. outcome[r] = "none"
      BY <2>0 DEF DecisionsInv, DecisionInv, Uncommitted, Deciding
    <3> QED BY <2>2, <3>1 DEF DecideToWrite, Goto
  <2>4. Foreseen(r) /\ (NeedsJCAT(r) => seen[r] \in {jcat, UnreadableJCAT})
    BY <2>0 DEF DecisionsInv, DecisionInv
  <2>5. CASE ~CheckTags(r, definitions[r], document[r])
    BY <2>4, <2>5 DEF CheckTags, Foreseen
  <2>6. CASE Known(r) /\ ~SignatureKept(r, seen[r])
    BY <2>4, <2>6 DEF Foreseen, NeedsJCAT, SignatureKept
  <2> QED BY <2>3, <2>4, <2>5, <2>6 DEF Refuses, Foreseen
<1> QED BY <1>1, DecisionsAlways, PTL DEF Spec, RefusedBeforeMirroring

(***************************************************************************)
(* A run that says it published, or that nothing changed, leaves metadata  *)
(* with its own JCAT, signed when the run has keys.                        *)
(***************************************************************************)
THEOREM SuccessIsConsistentCorrect ==
  ASSUME Serial
  PROVE  Spec => SuccessIsConsistent
<1> DEFINE Consistent(r) == \/ metadata' = NoDocument
                            \/ /\ HasChecksum(jcat', metadata')
                               /\ config[r].signing => Signed(jcat')
           Succeeds(r) == /\ pc[r] \in {"settle", "writeMetadata"}
                          /\ outcome'[r] \in {"written", "unchanged"}
<1>1. DecisionsInv /\ [Next]_vars => [\A r \in Runs : Succeeds(r) => Consistent(r)]_vars
  <2> SUFFICES ASSUME DecisionsInv, Next, NEW r \in Runs, Succeeds(r) PROVE Consistent(r)
    OBVIOUS
  <2>0. TypeOK
    BY DEF DecisionsInv, SafetyInv, TypeInv
  <2>1. RunStep(r)
    BY OwnOutcome DEF Uncommitted, Deciding
  <2>2. CASE pc[r] = "settle"
    <3>1. LeaveUnverified(r) => outcome'[r] \in {"unchecked", "unverified"}
      BY <2>0, OutcomeOf DEF LeaveUnverified
    <3>2. LeaveAlone(r) => outcome'[r] \in {"republished", "unchecked"}
      BY <2>0, OutcomeOf DEF LeaveAlone
    <3>3. DecideToWrite(r) => outcome'[r] \in {"none", "refused"}
      <4>1. outcome[r] = "none"
        BY <2>2 DEF DecisionsInv, DecisionInv, Uncommitted, Deciding
      <4> QED BY <2>0, <4>1, OutcomeOf DEF DecideToWrite, Goto
    <3>4. Abort(r) => outcome'[r] = "aborted"
      BY <2>0, OutcomeOf DEF Abort
    <3>5. KeepUnchanged(r)
      BY <2>1, <2>2, <3>1, <3>2, <3>3, <3>4, StepsFrom
    <3>6. StoredJCATCurrent(r) /\ ChecksState(r) /\ UNCHANGED <<metadata, jcat>>
      BY <3>5 DEF KeepUnchanged, Settled, store
    <3>7. seen[r] = jcat
      BY <2>2, <3>6 DEF DecisionsInv, DecisionInv, NeedsJCAT, StoredJCATCurrent, HasChecksum, NotAJCAT
    <3>8. metadata \in {stored[r], NoDocument}
      BY <2>2 DEF DecisionsInv, SafetyInv, RunInv, Deciding
    <3> QED BY <3>6, <3>7, <3>8 DEF StoredJCATCurrent
  <2>3. CASE pc[r] = "writeMetadata"
    <3>1. Abort(r) => outcome'[r] = "aborted"
      BY <2>0, OutcomeOf DEF Abort
    <3>2. metadata' = document[r] /\ jcat' = jcat
      BY <2>1, <2>3, <3>1, StepsFrom DEF WriteMetadata
    <3>3. HasChecksum(jcat, document[r]) /\ (config[r].signing => Signed(jcat))
      BY <2>3 DEF DecisionsInv, DecisionInv, SafetyInv, RunInv
    <3> QED BY <3>2, <3>3
  <2> QED BY <2>2, <2>3
<1> QED BY <1>1, DecisionsAlways, PTL DEF Spec, SuccessIsConsistent

-----------------------------------------------------------------------------
(***************************************************************************)
(* Runs that overlap, but never publish at once.  What a run concludes     *)
(* from the JCAT it read while it publishes holds until it has published.  *)
(***************************************************************************)
Checked(r) ==
  /\ pc[r] \in Uncommitted => outcome[r] = "none"
  /\ pc[r] \in {"settle", "writeJCAT"} /\ NeedsJCAT(r) => seen[r] \in {jcat, UnreadableJCAT}
  /\ pc[r] = "writeJCAT" /\ Known(r) => SignatureKept(r, seen[r])
  /\ pc[r] = "writeMetadata" =>
       HasChecksum(jcat, document[r]) /\ (config[r].signing => Signed(jcat))

CheckedInv ==
  /\ TypeInv
  /\ OneAtATimePublishes
  /\ \A r \in Runs : Checked(r)

\* No process says how another one ended.
LEMMA OutcomeFrame ==
  ASSUME TypeOK, NEW r \in Runs, RunStep(r), NEW q \in Runs, q # r
  PROVE  outcome'[q] = outcome[q]
BY DEF RunStep, Progress, Trouble, Start, LoadMetadata, Preflight, Mirror, SaveMetadata,
   RegenerateMetadata, ReadStoredJCAT, LeaveUnverified, LeaveAlone, KeepUnchanged, DecideToWrite,
   WriteJCAT, WriteMetadata, ListPackages, DeletePackage, FinishCleanup, MirrorFails, Interrupt,
   DeleteFails, Abort, Reclaim, Exit, Goto, TypeOK

\* Until it decides, a run says nothing of how it ends.
LEMMA OutcomeStaysOpen ==
  ASSUME CheckedInv, NEW r \in Runs, RunStep(r), pc'[r] \in Uncommitted
  PROVE  outcome'[r] = "none"
<1> TypeOK /\ Checked(r)
  BY DEF CheckedInv, TypeInv
<1> USE DEF TypeOK, Uncommitted, Gathering, Deciding
<1>1. CASE \E c \in ConfigsOf(r) : Start(r, c)
  BY <1>1 DEF Start
<1>2. CASE outcome' = outcome /\ pc[r] \in Uncommitted
  BY <1>2 DEF Checked
<1>3. CASE \E how : Exit(r, how) \/ Reclaim(r, how)
  BY <1>3 DEF Exit, Reclaim
<1>4. CASE \E p \in Package : DeletePackage(r, p) \/ DeleteFails(r, p)
  BY <1>4 DEF DeletePackage, DeleteFails
<1>5. CASE ListPackages(r)
  BY <1>5 DEF ListPackages, Goto
<1>6. CASE Preflight(r) \/ SaveMetadata(r) \/ RegenerateMetadata(r) \/ DecideToWrite(r)
  BY <1>2, <1>3, <1>6 DEF Preflight, SaveMetadata, RegenerateMetadata, DecideToWrite, Goto
<1>7. CASE LoadMetadata(r) \/ ReadStoredJCAT(r) \/ WriteJCAT(r) \/ Interrupt(r)
  BY <1>2, <1>7 DEF LoadMetadata, ReadStoredJCAT, WriteJCAT, Interrupt, Goto
<1>8. CASE \E f \in Firmware : (\E b \in Builds : Mirror(r, f, b)) \/ MirrorFails(r, f)
  BY <1>2, <1>8 DEF Mirror, MirrorFails
<1>9. CASE LeaveUnverified(r) \/ LeaveAlone(r) \/ KeepUnchanged(r) \/ WriteMetadata(r)
           \/ FinishCleanup(r) \/ Abort(r)
  BY <1>3, <1>9 DEF LeaveUnverified, LeaveAlone, KeepUnchanged, WriteMetadata, FinishCleanup, Abort
<1> QED
  BY <1>1, <1>4, <1>5, <1>6, <1>7, <1>8, <1>9 DEF RunStep, Progress, Trouble

\* Where a run gets to settle, writeJCAT and writeMetadata from.
LEMMA StepsTo ==
  ASSUME TypeOK, NEW r \in Runs, RunStep(r)
  PROVE  /\ pc'[r] = "settle" => ReadStoredJCAT(r)
         /\ pc'[r] = "writeJCAT" => DecideToWrite(r)
         /\ pc'[r] = "writeMetadata" => WriteJCAT(r)
BY DEF RunStep, Progress, Trouble, Start, LoadMetadata, Preflight, Mirror, SaveMetadata,
   RegenerateMetadata, ReadStoredJCAT, LeaveUnverified, LeaveAlone, KeepUnchanged, DecideToWrite,
   WriteJCAT, WriteMetadata, ListPackages, DeletePackage, FinishCleanup, MirrorFails, Interrupt,
   DeleteFails, Abort, Reclaim, Exit, Goto, TypeOK

\* A run checks what it goes by.
LEMMA CheckedOwn ==
  ASSUME CheckedInv, NEW r \in Runs, RunStep(r)
  PROVE  Checked(r)'
<1> TypeOK /\ Checked(r)
  BY DEF CheckedInv, TypeInv
<1>1. pc'[r] \in Uncommitted => outcome'[r] = "none"
  BY OutcomeStaysOpen
<1>2. CASE pc'[r] \notin {"settle", "writeJCAT", "writeMetadata"}
  BY <1>1, <1>2 DEF Checked, Uncommitted
<1>3. CASE pc'[r] = "settle"
  <2>1. ReadStoredJCAT(r)
    BY <1>3, StepsTo
  <2>2. PICK j \in {NoJCAT, jcat, UnreadableJCAT} :
          MayReadJCAT(NeedsJCAT(r), j) /\ seen' = [seen EXCEPT ![r] = j]
    BY <2>1 DEF ReadStoredJCAT, NeedsJCAT
  <2>3. NeedsJCAT(r)' <=> NeedsJCAT(r)
    BY <2>1 DEF ReadStoredJCAT, NeedsJCAT, ChecksState, Unchanged, Known
  <2>4. NeedsJCAT(r) => seen'[r] \in {jcat', UnreadableJCAT}
    BY <2>1, <2>2 DEF ReadStoredJCAT, store, MayReadJCAT, ReadsJCAT, TypeOK
  <2> QED BY <1>1, <1>3, <2>3, <2>4 DEF Checked
<1>4. CASE pc'[r] = "writeJCAT"
  <2>1. DecideToWrite(r)
    BY <1>4, StepsTo
  <2>2. pc[r] = "settle" /\ ~Refuses(r) /\ UNCHANGED <<jcat, work>>
    BY <1>4, <2>1 DEF DecideToWrite, Exit, store, TypeOK
  <2>3. /\ NeedsJCAT(r)' <=> NeedsJCAT(r)
        /\ Known(r)' <=> Known(r)
        /\ SignatureKept(r, seen[r])' <=> SignatureKept(r, seen[r])
    BY <2>2 DEF work, NeedsJCAT, ChecksState, Unchanged, Known, SignatureKept, Signed
  <2>4. seen'[r] = seen[r] /\ jcat' = jcat
    BY <2>2 DEF work
  <2> QED BY <1>1, <1>4, <2>2, <2>3, <2>4 DEF Checked, Refuses
<1>5. CASE pc'[r] = "writeMetadata"
  <2>1. WriteJCAT(r)
    BY <1>5, StepsTo
  <2>2. document[r] \in Document
    BY <2>1 DEF WriteJCAT, CheckedInv, TypeInv, HasDocument, Built
  <2>3. jcat' \in JCAT /\ jcat'.file = document[r] /\ jcat'.signed = config[r].signing
    BY <2>1, <2>2, WrittenJCATType DEF WriteJCAT
  <2>4. document'[r] = document[r] /\ config'[r] = config[r]
    BY <2>1 DEF WriteJCAT, work
  <2> QED
    BY <1>1, <1>5, <2>3, <2>4, AbsentAssumption DEF Checked, HasChecksum, Signed
<1> QED
  BY <1>2, <1>3, <1>4, <1>5

\* The store does not change under a run that publishes.
LEMMA CheckedOther ==
  ASSUME CheckedInv, NEW r \in Runs, RunStep(r), NEW q \in Runs, q # r
  PROVE  Checked(q)'
<1> TypeOK /\ Checked(q)
  BY DEF CheckedInv, TypeInv
<1>1. /\ pc'[q] = pc[q] /\ config'[q] = config[q] /\ stored'[q] = stored[q]
      /\ mirrored'[q] = mirrored[q] /\ document'[q] = document[q] /\ seen'[q] = seen[q]
      /\ outcome'[q] = outcome[q]
  BY Frame, OutcomeFrame
<1>2. Publishing(q) => jcat' = jcat
  <2>1. ~WriteJCAT(r) => jcat' = jcat
    BY StoreSteps DEF store, Mirror, MirrorFails, WriteMetadata, DeletePackage
  <2>2. Publishing(q) => ~WriteJCAT(r)
    BY DEF CheckedInv, OneAtATimePublishes, Publishing, WriteJCAT
  <2> QED BY <2>1, <2>2
<1>3. /\ NeedsJCAT(q)' <=> NeedsJCAT(q)
      /\ Known(q)' <=> Known(q)
      /\ SignatureKept(q, seen[q])' <=> SignatureKept(q, seen[q])
  BY <1>1 DEF NeedsJCAT, ChecksState, Unchanged, Known, SignatureKept, Signed
<1> QED
  BY <1>1, <1>2, <1>3 DEF Checked, Publishing, HasChecksum, Signed

LEMMA CheckedStep ==
  ASSUME Overlap # "any"
  PROVE  CheckedInv /\ [Next]_vars => CheckedInv'
<1> SUFFICES ASSUME CheckedInv, [Next]_vars PROVE CheckedInv'
  OBVIOUS
<1>1. TypeInv'
  BY TypeStep DEF CheckedInv
<1>2. ASSUME NEW r \in Runs, RunStep(r) PROVE CheckedInv'
  <2>1. OneAtATimePublishes'
    BY <1>2, PublishesAlone DEF CheckedInv, TypeInv
  <2>2. ASSUME NEW q \in Runs PROVE Checked(q)'
    BY <1>2, CheckedOwn, CheckedOther
  <2> QED BY <1>1, <2>1, <2>2 DEF CheckedInv
<1>3. CASE UNCHANGED <<jcat, pc, outcome, work>>
  <2>1. OneAtATimePublishes'
    BY <1>3 DEF CheckedInv, OneAtATimePublishes, Publishing
  <2>2. ASSUME NEW q \in Runs PROVE Checked(q)'
    <3>1. /\ NeedsJCAT(q)' <=> NeedsJCAT(q)
          /\ Known(q)' <=> Known(q)
          /\ SignatureKept(q, seen[q])' <=> SignatureKept(q, seen[q])
      BY <1>3 DEF work, NeedsJCAT, ChecksState, Unchanged, Known, SignatureKept, Signed
    <3> QED BY <1>3, <3>1 DEF work, CheckedInv, Checked, HasChecksum, Signed
  <2> QED BY <1>1, <2>1, <2>2 DEF CheckedInv
<1> QED
  BY <1>2, <1>3 DEF Next, RunStep, EditRings, LoseMetadata, vars, store

\* Nothing was read yet.
LEMMA CheckedInit == Init => CheckedInv
BY TypeInit
DEF Init, CheckedInv, OneAtATimePublishes, Publishing, Checked, Uncommitted, Gathering, Deciding

LEMMA CheckedAlways ==
  ASSUME Overlap # "any"
  PROVE  Spec => []CheckedInv
BY CheckedInit, CheckedStep, PTL DEF Spec

(***************************************************************************)
(* A JCAT that is or may be signed gives way to one that is not only when  *)
(* signing stops on purpose or the run had read no metadata, however many  *)
(* runs work at once, if no two publish at once.                           *)
(***************************************************************************)
THEOREM SignatureOfMetadataKeptCorrect ==
  ASSUME Overlap # "any"
  PROVE  Spec => SignatureOfMetadataKept
<1> DEFINE Kept == (Signed(jcat) \/ jcat = UnreadableJCAT) /\ jcat' # jcat /\ ~Signed(jcat')
                   => \E r \in Runs : /\ pc[r] = "writeJCAT"
                                      /\ config[r].stopSigning \/ stored[r] = NoDocument
<1>1. CheckedInv /\ [Next]_vars => [Kept]_vars
  <2> SUFFICES ASSUME CheckedInv, Next, Signed(jcat) \/ jcat = UnreadableJCAT,
                      jcat' # jcat, ~Signed(jcat')
               PROVE  \E r \in Runs : /\ pc[r] = "writeJCAT"
                                      /\ config[r].stopSigning \/ stored[r] = NoDocument
    OBVIOUS
  <2>1. PICK r \in Runs : RunStep(r)
    BY DEF Next, RunStep, EditRings, LoseMetadata, store
  <2>2. WriteJCAT(r)
    BY <2>1, StoreSteps DEF store, Mirror, MirrorFails, WriteMetadata, DeletePackage
  <2>3. pc[r] = "writeJCAT" /\ Checked(r)
    BY <2>2 DEF WriteJCAT, CheckedInv
  <2>4. ~config[r].signing
    <3>1. jcat' = [file |-> document[r], signed |-> config[r].signing]
      BY <2>2 DEF WriteJCAT
    <3>2. jcat' \in JCAT
      BY <2>3, <3>1, WrittenJCATType DEF CheckedInv, TypeInv, HasDocument, Built
    <3> QED BY <3>1, <3>2, AbsentAssumption DEF Signed
  <2>5. Known(r) => config[r].stopSigning
    BY <2>3, <2>4 DEF Checked, NeedsJCAT, SignatureKept
  <2> QED BY <2>3, <2>5 DEF Known
<1> QED BY <1>1, CheckedAlways, PTL DEF Spec, SignatureOfMetadataKept

(***************************************************************************)
(* What a run that ends says of itself, also while others work: when it    *)
(* says that it published, the metadata is beside its own JCAT, signed     *)
(* when the run has keys; and when it says that nothing changed, unless a  *)
(* run crashed.                                                            *)
(***************************************************************************)
Succeeds(r, how) ==
  pc[r] \in {"settle", "writeMetadata"} /\ outcome'[r] = how

LeavesConsistent(r) ==
  \/ metadata' = NoDocument
  \/ HasChecksum(jcat', metadata') /\ (config[r].signing => Signed(jcat'))

SuccessIsConsistentUnlessCrashed ==
  [][ \A r \in Runs :
        Succeeds(r, "written") \/ (faults' = 0 /\ Succeeds(r, "unchanged"))
        => LeavesConsistent(r) ]_vars

THEOREM SuccessIsConsistentUnlessCrashedCorrect ==
  ASSUME Overlap # "any"
  PROVE  Spec => SuccessIsConsistentUnlessCrashed
<1>1. ASSUME CheckedInv, TellingInv, Next, NEW r \in Runs,
             Succeeds(r, "written") \/ (faults' = 0 /\ Succeeds(r, "unchanged"))
      PROVE  LeavesConsistent(r)
  <2> TypeOK /\ Checked(r)
    BY <1>1 DEF CheckedInv, TypeInv
  <2>1. outcome[r] = "none" /\ outcome'[r] \in {"written", "unchanged"}
    BY <1>1 DEF Checked, Succeeds, Uncommitted, Deciding
  <2>2. RunStep(r)
    BY <1>1, <2>1, OutcomeFrame DEF Next, RunStep, EditRings, LoseMetadata
  <2>3. Abort(r) => outcome'[r] = "aborted"
    BY OutcomeOf DEF Abort
  <2>4. CASE pc[r] = "settle"
    <3>1. LeaveUnverified(r) => outcome'[r] \in {"unchecked", "unverified"}
      BY OutcomeOf DEF LeaveUnverified
    <3>2. LeaveAlone(r) => outcome'[r] \in {"republished", "unchecked"}
      BY OutcomeOf DEF LeaveAlone
    <3>3. DecideToWrite(r) => outcome'[r] \in {"none", "refused"}
      BY <2>1, OutcomeOf DEF DecideToWrite, Goto
    <3>4. KeepUnchanged(r)
      BY <2>1, <2>2, <2>3, <2>4, <3>1, <3>2, <3>3, StepsFrom
    <3>5. outcome'[r] = "unchanged" /\ UNCHANGED <<metadata, jcat, faults>>
      BY <3>4, OutcomeOf DEF KeepUnchanged, store
    <3>6. faults = 0
      BY <1>1, <3>5 DEF Succeeds
    <3>7. StoredJCATCurrent(r) /\ ChecksState(r)
      BY <3>4 DEF KeepUnchanged, Settled
    <3>8. seen[r] = jcat
      BY <2>4, <3>7 DEF Checked, NeedsJCAT, StoredJCATCurrent, HasChecksum, NotAJCAT
    <3>9. \A q \in Runs : pc[q] # "writeMetadata"
      BY <1>1, <2>4 DEF CheckedInv, OneAtATimePublishes, Publishing
    <3>10. jcat \notin NotAJCAT /\ jcat.file = metadata
      BY <1>1, <3>6, <3>7, <3>8, <3>9
      DEF StoredJCATCurrent, HasChecksum, TellingInv, JCATOfMetadata
    <3> QED BY <3>5, <3>7, <3>8, <3>10 DEF LeavesConsistent, StoredJCATCurrent, HasChecksum, Signed
  <2>5. CASE pc[r] = "writeMetadata"
    <3>1. metadata' = document[r] /\ jcat' = jcat
      BY <2>1, <2>2, <2>3, <2>5, StepsFrom DEF WriteMetadata
    <3> QED BY <2>5, <3>1 DEF Checked, LeavesConsistent
  <2> QED BY <1>1, <2>4, <2>5 DEF Succeeds
<1> DEFINE Tells == \A r \in Runs :
              Succeeds(r, "written") \/ (faults' = 0 /\ Succeeds(r, "unchanged"))
              => LeavesConsistent(r)
<1>2. CheckedInv /\ TellingInv /\ [Next]_vars => [Tells]_vars
  BY <1>1
<1> QED
  BY <1>2, CheckedAlways, TellingInit, TellingStep, PTL DEF Spec, SuccessIsConsistentUnlessCrashed

-----------------------------------------------------------------------------
(***************************************************************************)
(* One process that refreshes, and regenerations, while the metadata is    *)
(* deleted by nobody.                                                      *)
(***************************************************************************)
NeededInv ==
  /\ OverlapInv
  /\ CheckedInv
  /\ NoNeedlessPublish

\* What the metadata names, and is not lost, a run knows or finds published by another.
LEMMA DecidesToWriteWhatIsNeeded ==
  ASSUME OverlapInv, CheckedInv, NEW r \in Refreshers, pc[r] = "settle",
         ChecksState(r) => Settled(r) = "write"
  PROVE  NeedsWriting(r)
<1> r \in Runs
  BY DEF Runs
<1>1. ReadInv(r) /\ document[r].packages = Existing(r) \cup mirrored[r]
      /\ FirmwareOf(mirrored[r]) \cap FirmwareOf(Existing(r)) = {}
  BY DEF OverlapInv, OverlapRun, Deciding
<1>2. document[r] \in Document /\ document[r].schema = "current" /\ document[r] # NoDocument
  BY AbsentAssumption DEF CheckedInv, TypeInv, HasDocument, Built
<1>3. CASE ~Known(r)
  BY <1>1, <1>2, <1>3 DEF ReadInv, HasExisting, Known, NeedsWriting
<1>4. CASE Known(r) /\ mirrored[r] # {}
  <2>1. CASE HasExisting(r)
    <3>1. Existing(r) = metadata.packages
      BY <1>1, <2>1 DEF ReadInv, Existing
    <3>2. mirrored[r] \cap Existing(r) = {}
      BY <1>1 DEF FirmwareOf
    <3> QED BY <1>1, <1>4, <3>1, <3>2 DEF NeedsWriting
  <2>2. CASE ~HasExisting(r)
    BY <1>1, <1>2, <2>2 DEF ReadInv, HasExisting, Known, NeedsWriting
  <2> QED BY <2>1, <2>2
<1>5. CASE Known(r) /\ mirrored[r] = {}
  <2>1. ChecksState(r) /\ seen[r] \in {jcat, UnreadableJCAT}
    BY <1>5 DEF ChecksState, CheckedInv, Checked, NeedsJCAT
  <2>2. CASE Unchanged(r)
    <3>1. metadata = NoDocument \/ ~StoredJCATCurrent(r)
      BY <2>1, <2>2 DEF Settled
    <3> QED BY <1>2, <2>1, <2>2, <3>1 DEF Unchanged, StoredJCATCurrent, NeedsWriting
  <2>3. CASE ~Unchanged(r)
    <3>1. document[r] # stored[r]
      BY <1>5, <2>3 DEF Unchanged
    <3>2. metadata = NoDocument \/ HasChecksum(seen[r], stored[r]) \/ metadata = stored[r]
      BY <2>1 DEF Settled
    <3> QED BY <1>2, <2>1, <3>1, <3>2 DEF NeedsWriting, HasChecksum
  <2> QED BY <2>2, <2>3
<1> QED BY <1>3, <1>4, <1>5

LEMMA NeededStep ==
  ASSUME Apart, OneRefresher
  PROVE  NeededInv /\ [Next]_vars /\ (metadata # NoDocument => metadata' # NoDocument)
           => NeededInv'
<1> SUFFICES ASSUME NeededInv, [Next]_vars, metadata # NoDocument => metadata' # NoDocument
             PROVE  NeededInv'
  OBVIOUS
<1>1. OverlapInv' /\ CheckedInv' /\ TypeOK
  BY OverlapStep, CheckedStep DEF NeededInv, Apart, OverlapInv, TypeInv
<1>2. SUFFICES ASSUME NEW q \in Refreshers, pc'[q] = "writeJCAT" PROVE NeedsWriting(q)'
  BY <1>1 DEF NeededInv, NoNeedlessPublish, NeedsWriting
<1> q \in Runs
  BY DEF Runs
<1>3. CASE DecideToWrite(q)
  <2>1. /\ pc[q] = "settle" /\ (ChecksState(q) => Settled(q) = "write")
        /\ UNCHANGED <<metadata, jcat, work>>
    BY <1>1, <1>2, <1>3 DEF DecideToWrite, Exit, store, TypeOK
  <2>2. NeedsWriting(q)
    BY <2>1, DecidesToWriteWhatIsNeeded DEF NeededInv
  <2> QED BY <2>1, <2>2 DEF work, NeedsWriting, HasChecksum, Signed
<1>4. ASSUME UNCHANGED <<metadata, jcat, pc[q], config[q], document[q], seen[q]>>
      PROVE  NeedsWriting(q)'
  BY <1>2, <1>4 DEF NeededInv, NoNeedlessPublish, NeedsWriting, HasChecksum, Signed
<1>5. ASSUME NEW r \in Runs, RunStep(r), r # q PROVE NeedsWriting(q)'
  <2>1. UNCHANGED <<pc[q], config[q], document[q], seen[q]>>
    BY <1>1, <1>5, Frame
  <2>2. ~Publishing(r)
    BY <1>2, <1>5, <2>1 DEF NeededInv, CheckedInv, OneAtATimePublishes, Publishing
  <2>3. UNCHANGED <<metadata, jcat>>
    BY <1>5, <2>2, StoreSteps
    DEF store, Publishing, Mirror, MirrorFails, WriteJCAT, WriteMetadata, DeletePackage
  <2> QED BY <1>4, <2>1, <2>3
<1>6. RunStep(q) => DecideToWrite(q)
  BY <1>1, <1>2, StepsTo
<1>7. ~LoseMetadata
  BY DEF LoseMetadata
<1> QED
  BY <1>3, <1>4, <1>5, <1>6, <1>7 DEF Next, RunStep, EditRings, vars, store, work

(***************************************************************************)
(* A refresh writes only what is different, not beside its JCAT, not       *)
(* signed as asked, or could not be read, also while regenerations work:   *)
(* it leaves alone what they published meanwhile, unless it mirrored       *)
(* something.                                                              *)
(***************************************************************************)
THEOREM NoNeedlessPublishApart ==
  ASSUME Apart, OneRefresher
  PROVE  Spec /\ MetadataLasts => []NoNeedlessPublish
<1> DEFINE Lasts == metadata # NoDocument => metadata' # NoDocument
<1>1. Init => NeededInv
  BY OverlapInit, CheckedInit DEF NeededInv, NoNeedlessPublish, Init, Runs
<1>2. NeededInv /\ [Next]_vars /\ [Lasts]_metadata => NeededInv'
  BY NeededStep
<1>3. MetadataLasts => [][Lasts]_metadata
  BY DEF MetadataLasts
<1>4. NeededInv => NoNeedlessPublish
  BY DEF NeededInv
<1> HIDE DEF Lasts
<1> QED
  BY <1>1, <1>2, <1>3, <1>4, PTL DEF Spec
=============================================================================
