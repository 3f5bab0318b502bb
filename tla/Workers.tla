------------------------------- MODULE Workers -------------------------------
(***************************************************************************)
(* How ProcessVendor mirrors the entries of one catalog: a loop that takes *)
(* a slot for each entry not in the stored document, a goroutine for each  *)
(* entry that has one, and the wait for all of them.  Each goroutine works *)
(* in a directory named after the file of its entry, which it clears,      *)
(* downloads to, packages in and removes.  Every access to a directory is  *)
(* a step, as two entries of a catalog can have the same file name.        *)
(***************************************************************************)
EXTENDS Naturals, FiniteSets

CONSTANTS
  Entries,        \* the number of entries of the catalog
  Names,          \* the file names they can have
  MaxConcurrency, \* --concurrency
  MaxFaults,      \* bound on the steps that fail and the downloads that do not give the file
  Nothing         \* no file, or no directory

ASSUME WorkersAssumption ==
  /\ {Entries, MaxFaults} \subseteq Nat
  /\ MaxConcurrency \in Nat \ {0}

Entry == 1 .. Entries

\* What a download to a file has given so far: the firmware of its entry, part
\* of it, or something else.
Content == [by : Entry, as : {"partial", "whole", "corrupt"}]

Firmware(e) == [by |-> e, as |-> "whole"]

\* The metainfo files of an entry, with the checksum of the firmware they are of.
Metainfo == [of : Entry, firmware : Content]

Cabinet == [firmware : Content, metainfo : Metainfo]

\* A work directory: the firmware, the metainfo files and the CAB in it.
Directory == [firmware : Content \cup {Nothing}, metainfo : Metainfo \cup {Nothing},
              cabinet : Cabinet \cup {Nothing}]

ASSUME NothingAssumption == Nothing \notin Directory \cup Content \cup Metainfo \cup Cabinet

Empty == [firmware |-> Nothing, metainfo |-> Nothing, cabinet |-> Nothing]

VARIABLES
  catalog,    \* the file name of each entry
  index,      \* the file names in the stored document
  cancelled,  \* the context is done
  loop,       \* where ProcessVendor is: "next", "check", "wait", "ok" or "failed"
  reached,    \* the entry the loop is at
  slots,      \* the slots of the semaphore that are taken
  worker,     \* where the goroutine of each entry is
  disk,       \* the work directories
  sealed,     \* the CAB each goroutine took the checksum of
  storage,    \* the packages stored: name and content
  new,        \* newComponents, by entry
  processed, errors, faults

goroutines == <<worker, disk, sealed, storage, new, processed, errors>>
vars == <<catalog, index, cancelled, loop, reached, slots, goroutines, faults>>

Working == {"clear", "download", "downloading", "verify", "metainfo", "build", "seal", "upload"}

Phase == {"none"} \cup Working \cup {"keep", "leave", "done"}

\* The directory of an entry, named after the file.
WorkDir(e) == catalog[e]

There(e) == disk[WorkDir(e)] # Nothing

\* The file in it, of those a goroutine writes.
Found(e, file) == IF There(e) THEN disk[WorkDir(e)][file] ELSE Nothing

Put(e, directory) == disk' = [disk EXCEPT ![WorkDir(e)] = directory]

Goto(e, phase) == worker' = [worker EXCEPT ![e] = phase]

Fault == faults < MaxFaults /\ faults' = faults + 1

(***************************************************************************)
(* The loop over the entries.                                              *)
(***************************************************************************)
Skip ==
  /\ loop = "next" /\ reached \in Entry
  /\ catalog[reached] \in index
  /\ reached' = reached + 1
  /\ UNCHANGED <<catalog, index, cancelled, loop, slots, goroutines, faults>>

\* Slip: one slot too many.
SelectOneMore ==
  /\ loop = "next" /\ reached \in Entry
  /\ catalog[reached] \notin index
  /\ \/ slots <= MaxConcurrency /\ slots' = slots + 1
     \/ cancelled /\ slots' = slots
  /\ loop' = "check"
  /\ UNCHANGED <<catalog, index, cancelled, reached, goroutines, faults>>

\* The select gives a slot, or tells that the context is done.
Select ==
  /\ loop = "next" /\ reached \in Entry
  /\ catalog[reached] \notin index
  /\ \/ slots < MaxConcurrency /\ slots' = slots + 1
     \/ cancelled /\ slots' = slots
  /\ loop' = "check"
  /\ UNCHANGED <<catalog, index, cancelled, reached, goroutines, faults>>

\* Slip: what ended the select is not looked at.
BeginAnyway ==
  /\ loop = "check"
  /\ Goto(reached, "clear")
  /\ reached' = reached + 1
  /\ loop' = "next"
  /\ UNCHANGED <<catalog, index, cancelled, slots, disk, sealed, storage, new, processed, errors, faults>>

Begin ==
  /\ loop = "check" /\ ~cancelled
  /\ Goto(reached, "clear")
  /\ reached' = reached + 1
  /\ loop' = "next"
  /\ UNCHANGED <<catalog, index, cancelled, slots, disk, sealed, storage, new, processed, errors, faults>>

Break ==
  /\ loop = "check" /\ cancelled
  /\ loop' = "wait"
  /\ UNCHANGED <<catalog, index, cancelled, reached, slots, goroutines, faults>>

EndOfCatalog ==
  /\ loop = "next" /\ reached \notin Entry
  /\ loop' = "wait"
  /\ UNCHANGED <<catalog, index, cancelled, reached, slots, goroutines, faults>>

Result == IF errors > 0 /\ processed = 0 THEN "failed" ELSE "ok"

\* Slip: a goroutine counts as done once its package is stored.
ReturnBeforeKept ==
  /\ loop = "wait"
  /\ \A e \in Entry : worker[e] \in {"none", "keep", "leave", "done"}
  /\ loop' = Result
  /\ UNCHANGED <<catalog, index, cancelled, reached, slots, goroutines, faults>>

Return ==
  /\ loop = "wait"
  /\ \A e \in Entry : worker[e] \in {"none", "done"}
  /\ loop' = Result
  /\ UNCHANGED <<catalog, index, cancelled, reached, slots, goroutines, faults>>

\* A signal ends the context; the commands run with it fail from then on.
Cancel ==
  /\ ~cancelled
  /\ cancelled' = TRUE
  /\ UNCHANGED <<catalog, index, loop, reached, slots, goroutines, faults>>

-----------------------------------------------------------------------------
(***************************************************************************)
(* The goroutine of an entry.                                              *)
(***************************************************************************)
TheLoop == <<catalog, index, cancelled, loop, reached, slots>>

Stays == UNCHANGED <<TheLoop, new, processed>>

\* processEntry returns nil: an error, whose directory is removed.
GivesUp(e) ==
  /\ Put(e, Nothing)
  /\ errors' = errors + 1
  /\ Goto(e, "leave")
  /\ UNCHANGED <<sealed, storage>>

\* Anything it does can fail, and can whenever the context is done.
Fails(e) ==
  /\ worker[e] \in Working
  /\ (cancelled /\ UNCHANGED faults) \/ Fault
  /\ GivesUp(e)
  /\ Stays

\* What an earlier run left there is removed.
Clear(e) ==
  /\ worker[e] = "clear"
  /\ Put(e, Empty)
  /\ Goto(e, "download")
  /\ Stays /\ UNCHANGED <<errors, sealed, storage, faults>>

\* A file that is there already is not downloaded.
Download(e) ==
  /\ worker[e] = "download"
  /\ \/ /\ There(e) /\ Found(e, "firmware") = Nothing
        /\ Put(e, [disk[WorkDir(e)] EXCEPT !.firmware = [by |-> e, as |-> "partial"]])
        /\ Goto(e, "downloading")
        /\ UNCHANGED <<errors, sealed, storage>>
     \/ /\ Found(e, "firmware") # Nothing
        /\ Goto(e, "verify")
        /\ UNCHANGED <<disk, errors, sealed, storage>>
     \/ /\ ~There(e)
        /\ GivesUp(e)
  /\ Stays /\ UNCHANGED faults

\* The download goes to the file it created, there or removed meanwhile.
Downloaded(e) ==
  /\ worker[e] = "downloading"
  /\ \E as \in {"whole", "corrupt"} :
       /\ IF as = "corrupt" THEN Fault ELSE UNCHANGED faults
       /\ IF Found(e, "firmware") = [by |-> e, as |-> "partial"]
          THEN Put(e, [disk[WorkDir(e)] EXCEPT !.firmware = [by |-> e, as |-> as]])
          ELSE UNCHANGED disk
  /\ Goto(e, "verify")
  /\ Stays /\ UNCHANGED <<errors, sealed, storage>>

\* Slip: the digest the catalog gives is not compared.
VerifyThere(e) ==
  /\ worker[e] = "verify"
  /\ IF Found(e, "firmware") # Nothing
     THEN /\ Goto(e, "metainfo")
          /\ UNCHANGED <<disk, errors, sealed, storage>>
     ELSE GivesUp(e)
  /\ Stays /\ UNCHANGED faults

Verify(e) ==
  /\ worker[e] = "verify"
  /\ IF Found(e, "firmware") = Firmware(e)
     THEN /\ Goto(e, "metainfo")
          /\ UNCHANGED <<disk, errors, sealed, storage>>
     ELSE GivesUp(e)
  /\ Stays /\ UNCHANGED faults

WriteMetainfo(e) ==
  /\ worker[e] = "metainfo"
  /\ LET firmware == Found(e, "firmware")
     IN IF firmware # Nothing
        THEN /\ Put(e, [disk[WorkDir(e)] EXCEPT !.metainfo = [of |-> e, firmware |-> firmware]])
             /\ Goto(e, "build")
             /\ UNCHANGED <<errors, sealed, storage>>
        ELSE GivesUp(e)
  /\ Stays /\ UNCHANGED faults

BuildCabinet(e) ==
  /\ worker[e] = "build"
  /\ LET firmware == Found(e, "firmware")
         metainfo == Found(e, "metainfo")
     IN IF Nothing \notin {firmware, metainfo}
        THEN /\ Put(e, [disk[WorkDir(e)] EXCEPT
                         !.cabinet = [firmware |-> firmware, metainfo |-> metainfo]])
             /\ Goto(e, "seal")
             /\ UNCHANGED <<errors, sealed, storage>>
        ELSE GivesUp(e)
  /\ Stays /\ UNCHANGED faults

\* The checksums of the CAB name it, and go to the releases of its components.
Seal(e) ==
  /\ worker[e] = "seal"
  /\ IF Found(e, "cabinet") # Nothing
     THEN /\ sealed' = [sealed EXCEPT ![e] = Found(e, "cabinet")]
          /\ Goto(e, "upload")
          /\ UNCHANGED <<disk, errors, storage>>
     ELSE GivesUp(e)
  /\ Stays /\ UNCHANGED faults

CabinetName(e) == <<sealed[e], catalog[e]>>

Upload(e) ==
  /\ worker[e] = "upload"
  /\ IF Found(e, "cabinet") # Nothing
     THEN /\ storage' = {package \in storage : package.name # CabinetName(e)}
                         \cup {[name |-> CabinetName(e), content |-> Found(e, "cabinet")]}
          /\ Goto(e, "keep")
          /\ UNCHANGED <<disk, errors, sealed>>
     ELSE GivesUp(e)
  /\ Stays /\ UNCHANGED faults

Keep(e) ==
  /\ worker[e] = "keep"
  /\ Put(e, Nothing)
  /\ new' = new \cup {e}
  /\ processed' = processed + 1
  /\ Goto(e, "leave")
  /\ UNCHANGED <<TheLoop, sealed, storage, errors, faults>>

\* The slot is given back, then the goroutine counts as done.
Leave(e) ==
  /\ worker[e] = "leave"
  /\ slots > 0
  /\ slots' = slots - 1
  /\ Goto(e, "done")
  /\ UNCHANGED <<catalog, index, cancelled, loop, reached, disk, sealed, storage, new,
                 processed, errors, faults>>

-----------------------------------------------------------------------------
Init ==
  /\ catalog \in [Entry -> Names]
  /\ index \in SUBSET Names
  /\ cancelled = FALSE
  /\ loop = "next"
  /\ reached = 1
  /\ slots = 0
  /\ worker = [e \in Entry |-> "none"]
  /\ disk = [n \in Names |-> Nothing]
  /\ sealed = [e \in Entry |-> Nothing]
  /\ storage = {}
  /\ new = {}
  /\ processed = 0
  /\ errors = 0
  /\ faults = 0

Loop == Skip \/ Select \/ Begin \/ Break \/ EndOfCatalog \/ Return

Goroutine(e) ==
  \/ Fails(e)
  \/ Clear(e)
  \/ Download(e)
  \/ Downloaded(e)
  \/ Verify(e)
  \/ WriteMetainfo(e)
  \/ BuildCabinet(e)
  \/ Seal(e)
  \/ Upload(e)
  \/ Keep(e)
  \/ Leave(e)

Next == Loop \/ Cancel \/ \E e \in Entry : Goroutine(e)

Spec == Init /\ [][Next]_vars

\* Downloads end, by the timeout of the client; so do the tools that are run.
FairSpec == Spec /\ WF_vars(Loop) /\ \A e \in Entry : WF_vars(Goroutine(e))

-----------------------------------------------------------------------------
Active == {e \in Entry : worker[e] \notin {"none", "done"}}

(***************************************************************************)
(* Type invariant; the semaphore holds MaxConcurrency slots at most.       *)
(***************************************************************************)
TypeOK ==
  /\ catalog \in [Entry -> Names]
  /\ index \subseteq Names
  /\ cancelled \in BOOLEAN
  /\ loop \in {"next", "check", "wait", "ok", "failed"}
  /\ reached \in 1 .. Entries + 1
  /\ slots \in 0 .. MaxConcurrency
  /\ worker \in [Entry -> Phase]
  /\ disk \in [Names -> Directory \cup {Nothing}]
  /\ sealed \in [Entry -> Cabinet \cup {Nothing}]
  /\ \A package \in storage :
       package.name \in Cabinet \X Names /\ package.content \in Cabinet
  /\ new \subseteq Entry
  /\ processed \in 0 .. Entries
  /\ errors \in 0 .. Entries
  /\ faults \in 0 .. MaxFaults

(***************************************************************************)
(* No more goroutines work at once than --concurrency says, also when the  *)
(* context ends while the loop waits for a slot (the look at the context   *)
(* after the select, as a goroutine without a slot takes another's).       *)
(***************************************************************************)
NoMoreThanConcurrency == Cardinality(Active) <= MaxConcurrency

Returned == loop \in {"ok", "failed"}

AloneInName(e) == \A other \in Entry : catalog[other] = catalog[e] => other = e

(***************************************************************************)
(* The package an entry is published with is stored, under the checksum it *)
(* has, and holds the firmware the catalog means with the metainfo of that *)
(* entry: what is published for an entry that shares its file name with    *)
(* none.                                                                   *)
(***************************************************************************)
PublishesWhatWasVerified ==
  \A e \in new : AloneInName(e) =>
    [name |-> CabinetName(e),
     content |-> [firmware |-> Firmware(e), metainfo |-> [of |-> e, firmware |-> Firmware(e)]]]
      \in storage

(***************************************************************************)
(* ProcessVendor mirrors as Publish takes it to, one entry at a time: what *)
(* it keeps components of is stored, it does not return while an entry may *)
(* still be mirrored, and what is published next from the new components   *)
(* and the packages does not change under the publish.                     *)
(***************************************************************************)
Over == {e \in Entry : worker[e] \in {"leave", "done"}}

Awaited == IF Returned THEN {} ELSE {e \in Entry : catalog[e] \notin index} \ Over

HasPackage == {e \in Entry : \E package \in storage : package.name = CabinetName(e)}

Promise == INSTANCE Mirroring
             WITH todo <- Awaited, stored <- HasPackage, mirrored <- new, failed <- Over \ new,
                  interrupted <- cancelled, verdict <- IF Returned THEN loop ELSE "none"

MirroringPromise == Promise!Spec

(***************************************************************************)
(* When it returns, each entry was skipped, kept or counted as an error,   *)
(* unless the context had ended: none of those it waits for is missing     *)
(* from what the publish adds to the document or from the verdict.         *)
(***************************************************************************)
EveryEntryAccountedFor ==
  Returned /\ ~cancelled =>
    /\ processed = Cardinality(new)
    /\ errors + processed = Cardinality({e \in Entry : catalog[e] \notin index})

(***************************************************************************)
(* ProcessVendor returns: no goroutine waits for a slot it does not have,  *)
(* and the loop is not left waiting for one.                               *)
(***************************************************************************)
Returns == <>Returned

(***************************************************************************)
(* The comment of verifyDownload at src/pkg/vendors/dell/dell.go:149:      *)
(* "a truncated or corrupted download is never published".                 *)
(***************************************************************************)
TruncatedNeverPublished ==
  \A e \in new : \A package \in storage :
    package.name = CabinetName(e) => package.content.firmware.as = "whole"
=============================================================================
