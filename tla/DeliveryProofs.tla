---------------------------- MODULE DeliveryProofs ----------------------------
(***************************************************************************)
(* Theorems about Delivery: whatever the vendors answer and whatever fails *)
(* of the writes, the process and the machine, for any entries.            *)
(*                                                                         *)
(* That a rename of the metadata leaves no package behind rests on what    *)
(* the run knows of each one it mirrored: it is in the directory, and will *)
(* stay there once a sync that did not fail came after it.  At most one    *)
(* was forgotten, so either the package's own sync did or the JCAT's.      *)
(***************************************************************************)
EXTENDS Delivery, FilesProofs

\* A power failure would leave the package.
Durable(p) == names[p] # Absent /\ Absent \notin onDisk[p]

AllDurable(pkgs) == \A p \in pkgs : Durable(p)

Checked(pkgs) ==
  \A p \in pkgs :
    /\ p[2] # "good" => p[1] \in unchecked
    /\ p[2] = "short" => offer[p[1]] # "size"

Active(e) == fetch[e].at \notin {"none", "done"}

\* What the work on an entry has made of its file, and of its package.
EntryInv(e) ==
  /\ Active(e) => vendor # "none" /\ e \in Of(vendor) \ Mirrored
  /\ fetch[e].at \in {"file", "fileBody", "verify", "convert", "ready"} => download[e] \in Content
  /\ fetch[e].at \in {"convert", "ready"} => Verified(e)
  /\ write[e] # Idle =>
       /\ In(e, "ready")
       /\ write[e].key = PackageOf(e)
       /\ Checked({PackageOf(e)})
       /\ write[e].at \in {"syncdir", "ok"} => names[PackageOf(e)] # Absent
       /\ write[e].at = "ok" /\ forgotten = 0 => Durable(PackageOf(e))

\* What is being published.
MainInv ==
  /\ vendor # "none" => run = "mirroring"
  /\ write[Main] # Idle =>
       \/ run = "jcat" /\ write[Main].key = jcat
       \/ run = "metadata" /\ write[Main].key = metadata /\ write[Main].value = NewDocument

\* The JCAT is written: one more sync has come after all packages.
JCATWritten ==
  \/ run \in {"commit", "metadata"}
  \/ run = "jcat" /\ write[Main] # Idle /\ write[Main].at = "ok"

PackagesInv ==
  /\ Checked(stored) /\ Checked(new)
  /\ forgotten < 2 => AllDurable(stored)
  /\ \A p \in new : names[p] # Absent
  /\ forgotten = 0 \/ (forgotten < 2 /\ JCATWritten) => AllDurable(new)

\* What can be left of the metadata.
MetadataInv ==
  \A f \in onDisk[metadata] :
    f # Absent =>
      /\ f.value \in Document
      /\ Checked(f.value.packages)
      /\ forgotten < 2 => AllDurable(f.value.packages)

DeliveryInv ==
  /\ TypeOK
  /\ FilesInv
  /\ \A e \in Entries : EntryInv(e)
  /\ MainInv
  /\ PackagesInv
  /\ MetadataInv

-----------------------------------------------------------------------------
(***************************************************************************)
(* What the steps of the files do to one of them.                          *)
(***************************************************************************)
LEMMA DurableKept ==
  ASSUME FilesInv, [FilesNext]_fileVars, NEW p \in Keys, Durable(p)
  PROVE  Durable(p)'
<1> USE DEF Durable, FilesInv
<1>1. CASE \E w \in Writers, k \in Keys, v \in Values : BeginWrite(w, k, v)
  BY <1>1 DEF BeginWrite
<1>2. ASSUME NEW w \in Writers, WriteStep(w) PROVE Durable(p)'
  <2>1. CASE Rename(w)
    <3>1. write[w] \in Write /\ write[w] # Idle /\ write[w].at = "rename"
      BY <2>1 DEF Rename, At, FilesTypeOK
    <3>2. temp[w] # Absent
      BY <3>1, NoneAssumption DEF TempReady
    <3>3. names'[p] \in {names[p], temp[w]} /\ onDisk'[p] \subseteq onDisk[p] \cup {temp[w]}
      BY <2>1 DEF Rename, FilesTypeOK
    <3> QED BY <3>2, <3>3
  <2>2. CASE SyncDirectory(w)
    BY <2>2 DEF SyncDirectory
  <2>3. CASE CreateTemp(w) \/ Copy(w) \/ SyncFile(w) \/ Chmod(w)
    BY <2>3 DEF CreateTemp, Copy, SyncFile, Chmod
  <2> QED BY <1>2, <2>1, <2>2, <2>3 DEF WriteStep
<1>3. ASSUME NEW w \in Writers, WriteFault(w) \/ EndWrite(w) PROVE Durable(p)'
  BY <1>3 DEF WriteFault, WriteFails, SyncDirectoryFails, EndWrite
<1>4. CASE KillWriters \/ UNCHANGED fileVars
  BY <1>4 DEF KillWriters, fileVars
<1>5. CASE PowerFailure
  <2>1. names'[p] \in onDisk[p] /\ onDisk'[p] = {names'[p]}
    BY <1>5, SettledKeys DEF PowerFailure
  <2> QED BY <2>1
<1> QED BY <1>1, <1>2, <1>3, <1>4, <1>5 DEF FilesNext

\* A step of the writers, none of which removes an object.
WritersStep(w) ==
  WriteStep(w) \/ WriteFault(w) \/ EndWrite(w)
  \/ \E k \in Keys, v \in Values : BeginWrite(w, k, v)

LEMMA PresentKept ==
  ASSUME FilesInv, NEW w \in Writers, WritersStep(w), NEW p \in Keys, names[p] # Absent
  PROVE  names'[p] # Absent
<1>1. CASE Rename(w)
  <2>1. write[w] \in Write /\ write[w] # Idle /\ write[w].at = "rename"
    BY <1>1 DEF Rename, At, FilesInv, FilesTypeOK
  <2>2. temp[w] # Absent
    BY <2>1, NoneAssumption DEF FilesInv, TempReady
  <2> QED BY <1>1, <2>2 DEF Rename, FilesInv, FilesTypeOK
<1>2. CASE UNCHANGED names
  BY <1>2
<1> QED
  BY <1>1, <1>2 DEF WritersStep, WriteStep, CreateTemp, Copy, SyncFile, Chmod, SyncDirectory,
     WriteFault, WriteFails, SyncDirectoryFails, EndWrite, BeginWrite

\* A sync of the directory that does not fail is one for all its objects.
LEMMA SyncMakesDurable ==
  ASSUME NEW w \in Writers, SyncDirectory(w), NEW p \in Keys, names[p] # Absent
  PROVE  Durable(p)'
BY DEF SyncDirectory, Durable

(***************************************************************************)
(* The work on one entry.                                                  *)
(***************************************************************************)
LEMMA RetrievalTypes ==
  ASSUME DownloadsTypeOK, NEW e \in Entries, RetrievalStep(e) \/ Retrieve(e)
  PROVE  /\ UNCHANGED <<offer, cancelled>>
         /\ fetch' = [fetch EXCEPT ![e] = fetch'[e]] /\ fetch'[e] \in Fetch
         /\ payload' = [payload EXCEPT ![e] = payload'[e]]
         /\ payload'[e] \in Checks \cup {Nothing}
         /\ download' = [download EXCEPT ![e] = download'[e]]
         /\ download'[e] \in Content \cup {Nothing}
<1>1. /\ offer \in [Entries -> Checks]
      /\ fetch \in [Entries -> Fetch]
      /\ payload \in [Entries -> Checks \cup {Nothing}]
      /\ download \in [Entries -> Content \cup {Nothing}]
  BY DownloadsAssumption DEF DownloadsTypeOK
<1>2. 0 \in 0 .. DownloadRetries
  BY DownloadsAssumption
<1> USE <1>1, <1>2 DEF GoOn, Over, In, Fetch, Requesting, Retrieving, Content
<1>3. CASE TryAgain(e)
  <2>1. fetch[e].retries + 1 \in 0 .. DownloadRetries
    BY <1>3, DownloadsAssumption DEF TryAgain
  <2> QED BY <1>3, <2>1 DEF TryAgain
<1>4. CASE GiveUp(e) \/ Answered(e)
  BY <1>4 DEF GiveUp, Answered
<1>5. CASE ReadSidecar(e) \/ CreateFile(e) \/ Retrieve(e)
  BY <1>5 DEF ReadSidecar, CreateFile, Retrieve
<1>6. CASE \E content \in Content : CopyBody(e, content)
  BY <1>6 DEF CopyBody
<1>7. CASE Verify(e) \/ Convert(e) \/ RetrievalFails(e)
  BY <1>7 DEF Verify, Convert, RetrievalFails
<1> QED BY <1>3, <1>4, <1>5, <1>6, <1>7 DEF RetrievalStep

\* What the work on an entry keeps true of its file.
LEMMA RetrievalKeeps ==
  ASSUME DownloadsTypeOK, NEW e \in Entries, RetrievalStep(e) \/ Retrieve(e),
         fetch[e].at \in {"file", "fileBody", "verify", "convert", "ready"}
           => download[e] \in Content,
         fetch[e].at \in {"convert", "ready"} => Verified(e)
  PROVE  /\ fetch'[e].at \in {"file", "fileBody", "verify", "convert", "ready"}
              => download'[e] \in Content
         /\ fetch'[e].at \in {"convert", "ready"} => Verified(e)'
<1>1. /\ fetch \in [Entries -> Fetch]
      /\ payload \in [Entries -> Checks \cup {Nothing}]
      /\ download \in [Entries -> Content \cup {Nothing}]
  BY DEF DownloadsTypeOK
<1> USE <1>1 DEF GoOn, Over, In, Requesting, Content
<1>2. CASE TryAgain(e)
  <2>1. fetch'[e].at = fetch[e].at
    BY <1>2 DEF TryAgain, Fetch
  <2> QED BY <1>2, <2>1 DEF TryAgain, Verified, CheckOf
<1>3. CASE GiveUp(e) \/ Answered(e)
  BY <1>3 DEF GiveUp, Answered
<1>4. CASE ReadSidecar(e) \/ CreateFile(e) \/ Retrieve(e)
  BY <1>4 DEF ReadSidecar, CreateFile, Retrieve
<1>5. CASE \E content \in Content : CopyBody(e, content)
  BY <1>5 DEF CopyBody
<1>6. CASE Verify(e)
  BY <1>6 DEF Verify, Verified, CheckOf
<1>7. CASE Convert(e)
  BY <1>7 DEF Convert, Verified, CheckOf
<1>8. CASE RetrievalFails(e)
  BY <1>8 DEF RetrievalFails
<1> QED BY <1>2, <1>3, <1>4, <1>5, <1>6, <1>7, <1>8 DEF RetrievalStep

(***************************************************************************)
(* What every step keeps.                                                  *)
(***************************************************************************)
LEMMA KeysAndValues ==
  /\ metadata \in Keys /\ jcat \in Keys /\ Package \subseteq Keys
  /\ Cabinet \in Values /\ Document \subseteq Values
  /\ Main \in Writers /\ Entries \subseteq Writers
BY DeliveryAssumption

LEMMA NewDocumentType ==
  ASSUME TypeOK
  PROVE  NewDocument \in Document
BY DEF TypeOK, NewDocument, Document

LEMMA PackageOfType ==
  ASSUME TypeOK, NEW e \in Entries, EntryInv(e), In(e, "ready")
  PROVE  PackageOf(e) \in Package
BY DEF EntryInv, In, PackageOf, Package

\* Every step is one of the files, or leaves them alone.
LEMMA StepOfFiles ==
  ASSUME DeliveryInv, Next
  PROVE  [FilesNext]_fileVars
<1> USE KeysAndValues DEF DeliveryInv
<1>1. CASE Start \/ Interrupt \/ EndVendor \/ \E v \in Vendors : BeginVendor(v)
  BY <1>1 DEF Start, Interrupt, EndVendor, BeginVendor
<1>2. CASE \E e \in Entries : Begin(e) \/ Retrieves(e)
  BY <1>2 DEF Begin, Retrieves
<1>3. ASSUME NEW e \in Entries, StorePackage(e)
      PROVE  FilesNext
  <2>1. PackageOf(e) \in Keys
    BY <1>3, PackageOfType DEF StorePackage
  <2> QED BY <1>3, <2>1 DEF StorePackage, FilesNext
<1>4. CASE \E e \in Entries : Keep(e)
  BY <1>4 DEF Keep, FilesNext
<1>5. CASE PublishBegins \/ Commit
  BY <1>5, NewDocumentType DEF PublishBegins, Commit, FilesNext
<1>6. CASE JCATEnds \/ MetadataEnds
  BY <1>6 DEF JCATEnds, MetadataEnds, FilesNext
<1>7. CASE \E w \in Writers : Writes(w)
  BY <1>7 DEF Writes, FilesNext, WriteFault
<1>8. CASE Panic \/ Crash
  BY <1>8 DEF Panic, Crash, FilesNext
<1> QED BY <1>1, <1>2, <1>3, <1>4, <1>5, <1>6, <1>7, <1>8 DEF Next, RunStep

\* What was checked stays checked, and nothing is remembered again.
LEMMA HistoryGrows ==
  ASSUME DeliveryInv, Next
  PROVE  /\ offer' = offer
         /\ unchecked \subseteq unchecked' /\ unchecked' \subseteq Entries
         /\ faults' \in 0 .. MaxFaults /\ forgotten' \in 0 .. faults'
         /\ forgotten' \in {forgotten, forgotten + 1}
<1>1. faults \in 0 .. MaxFaults /\ forgotten \in 0 .. faults /\ unchecked \subseteq Entries
      /\ MaxFaults \in Nat
  BY DeliveryAssumption DEF DeliveryInv, TypeOK
<1> USE <1>1 DEF NoFault, history, Fault, Anew, downloadVars, Gone
<1>2. CASE Start \/ Interrupt \/ EndVendor \/ \E v \in Vendors : BeginVendor(v)
  BY <1>2 DEF Start, Interrupt, Cancel, EndVendor, BeginVendor
<1>3. ASSUME NEW e \in Entries, Begin(e) \/ Retrieves(e)
      PROVE  UNCHANGED <<offer, history>>
  <2>1. RetrievalStep(e) \/ Retrieve(e)
    BY <1>3 DEF Begin, Retrieves
  <2>2. UNCHANGED offer
    BY <2>1, RetrievalTypes DEF DeliveryInv, TypeOK
  <2> QED BY <1>3, <2>2 DEF Begin, Retrieves
<1>4. CASE \E e \in Entries : StorePackage(e) \/ Keep(e)
  BY <1>4 DEF StorePackage, Keep
<1>5. CASE PublishBegins \/ Commit \/ JCATEnds \/ MetadataEnds
  BY <1>5 DEF PublishBegins, Commit, JCATEnds, MetadataEnds
<1>6. CASE \E w \in Writers : Writes(w)
  BY <1>6 DEF Writes
<1>7. CASE Panic \/ Crash
  BY <1>7 DEF Panic, Crash
<1> QED BY <1>2, <1>3, <1>4, <1>5, <1>6, <1>7 DEF Next, RunStep

LEMMA PackagesKept ==
  ASSUME DeliveryInv, Next, NEW pkgs, pkgs \subseteq Package
  PROVE  /\ Checked(pkgs) => Checked(pkgs)'
         /\ AllDurable(pkgs) => AllDurable(pkgs)'
<1>1. Checked(pkgs) => Checked(pkgs)'
  BY HistoryGrows DEF Checked
<1>2. AllDurable(pkgs) => AllDurable(pkgs)'
  BY StepOfFiles, DurableKept, KeysAndValues DEF DeliveryInv, AllDurable
<1> QED BY <1>1, <1>2

LEMMA RenameMoves ==
  ASSUME FilesInv, NEW w \in Writers, Rename(w)
  PROVE  write'[w] # Idle /\ write[w] # write'[w]
<1>1. write[w] \in Write /\ write[w].at = "rename"
  BY DEF Rename, At, FilesInv, FilesTypeOK
<1>2. write'[w] = [write[w] EXCEPT !.at = "syncdir"]
  BY DEF Rename, Step, FilesInv, FilesTypeOK
<1>3. write'[w] \in Write /\ write'[w].at = "syncdir"
  BY <1>1, <1>2 DEF Write, Steps
<1> QED BY <1>1, <1>3, NoneAssumption

\* The metadata is what it was unless it is the one renamed.
LEMMA MetadataKept ==
  ASSUME DeliveryInv, Next, ~(Rename(Main) /\ write[Main].key = metadata)
  PROVE  MetadataInv'
<1>1. onDisk'[metadata] \subseteq onDisk[metadata]
  <2> USE KeysAndValues DEF DeliveryInv, FilesInv, FilesTypeOK
  <2>1. CASE UNCHANGED onDisk
    BY <2>1
  <2>2. CASE PowerFailure
    BY <2>2, SettledKeys DEF PowerFailure
  <2>3. CASE \E w \in Writers : SyncDirectory(w)
    BY <2>3 DEF SyncDirectory
  <2>4. ASSUME NEW w \in Writers, Rename(w)
        PROVE  onDisk'[metadata] = onDisk[metadata]
    <3>1. write[w] # Idle
      BY <2>4 DEF Rename, At
    <3>2. write[w].key # metadata
      <4>1. CASE w = Main
        BY <2>4, <4>1
      <4>2. CASE w # Main
        <5>1. w \in Entries
          BY <4>2, DeliveryAssumption
        <5>2. write[w].key = PackageOf(w) /\ PackageOf(w) \in Package
          BY <3>1, <5>1, PackageOfType DEF EntryInv
        <5> QED BY <5>2, DeliveryAssumption
      <4> QED BY <4>1, <4>2
    <3> QED BY <2>4, <3>2 DEF Rename
  <2>5. FilesNext \/ UNCHANGED fileVars
    BY StepOfFiles
  <2> QED
    BY <2>1, <2>2, <2>3, <2>4, <2>5 DEF FilesNext, fileVars, BeginWrite, WriteStep, CreateTemp,
       Copy, SyncFile, Chmod, WriteFault, WriteFails, SyncDirectoryFails, EndWrite, KillWriters
<1>2. ASSUME NEW f \in onDisk[metadata], f # Absent
      PROVE  /\ f.value \in Document
             /\ Checked(f.value.packages)'
             /\ forgotten' < 2 => AllDurable(f.value.packages)'
  <2>1. f.value \in Document /\ Checked(f.value.packages)
        /\ (forgotten < 2 => AllDurable(f.value.packages))
    BY <1>2 DEF DeliveryInv, MetadataInv
  <2>2. f.value.packages \subseteq Package
    BY <2>1 DEF Document
  <2>3. forgotten' < 2 => forgotten < 2
    BY HistoryGrows DEF DeliveryInv, TypeOK
  <2> QED BY <2>1, <2>2, <2>3, PackagesKept
<1> QED BY <1>1, <1>2 DEF MetadataInv

LEMMA PresentStays ==
  ASSUME DeliveryInv, Next, ~Crash, NEW p \in Keys, names[p] # Absent
  PROVE  names'[p] # Absent
<1>1. CASE UNCHANGED names
  BY <1>1
<1>2. CASE \E w \in Writers : Writes(w)
  BY <1>2, PresentKept DEF DeliveryInv, Writes, WritersStep, WriteFault
<1> QED
  BY <1>1, <1>2 DEF Next, RunStep, Start, Interrupt, EndVendor, BeginVendor, Begin, Retrieves,
     StorePackage, Keep, PublishBegins, Commit, JCATEnds, MetadataEnds, BeginWrite, EndWrite,
     Panic, KillWriters, fileVars

\* An entry that a step does not work on.
LEMMA EntryUntouched ==
  ASSUME DeliveryInv, Next, ~Crash, NEW e \in Entries,
         UNCHANGED <<fetch[e], payload[e], download[e], write[e]>>,
         UNCHANGED <<vendor, stored>> \/ ~Active(e)
  PROVE  EntryInv(e)'
<1>1. EntryInv(e) /\ offer' = offer /\ (forgotten' = 0 => forgotten = 0)
  BY HistoryGrows DEF DeliveryInv, TypeOK
<1>2. PackageOf(e)' = PackageOf(e) /\ Verified(e)' = Verified(e) /\ In(e, "ready")' = In(e, "ready")
      /\ Active(e)' = Active(e)
  BY <1>1 DEF PackageOf, Verified, CheckOf, In, Active
<1>3. CASE write[e] = Idle
  BY <1>1, <1>2, <1>3 DEF EntryInv, Mirrored, Of
<1>4. CASE write[e] # Idle
  <2>1. In(e, "ready") /\ Active(e)
    BY <1>1, <1>4 DEF EntryInv, In, Active
  <2>2. PackageOf(e) \in Package
    BY <2>1, PackageOfType DEF DeliveryInv
  <2>3. Checked({PackageOf(e)}) => Checked({PackageOf(e)})'
    BY <2>2, <1>1, HistoryGrows, <1>2 DEF Checked, PackageOf
  <2>4. Durable(PackageOf(e)) => Durable(PackageOf(e))'
    <3>1. \A p \in Keys : Durable(p) => Durable(p)'
      BY StepOfFiles, DurableKept DEF DeliveryInv
    <3>2. PICK p \in Keys : p = PackageOf(e)
      BY <2>2, KeysAndValues
    <3>3. p = PackageOf(e)'
      BY <3>2, <1>2
    <3> QED BY <3>1, <3>2, <3>3 DEF Durable
  <2>5. names[PackageOf(e)] # Absent => names'[PackageOf(e)] # Absent
    BY <2>2, PresentStays, KeysAndValues
  <2> QED BY <1>1, <1>2, <1>4, <2>1, <2>3, <2>4, <2>5 DEF EntryInv, Mirrored, Of
<1> QED BY <1>3, <1>4

\* The packages in hand when the run does not change them.
LEMMA PackagesUntouched ==
  ASSUME DeliveryInv, Next, ~Crash, UNCHANGED <<stored, new>>,
         forgotten' = 0 \/ (forgotten' < 2 /\ JCATWritten')
           => forgotten = 0 \/ (forgotten < 2 /\ JCATWritten) \/ AllDurable(new)'
  PROVE  PackagesInv'
<1>1. stored \subseteq Package /\ new \subseteq Package /\ PackagesInv
  BY DEF DeliveryInv, TypeOK
<1>2. forgotten' < 2 => forgotten < 2
  BY HistoryGrows DEF DeliveryInv, TypeOK
<1>3. \A p \in new : names'[p] # Absent
  BY <1>1, PresentStays, KeysAndValues DEF PackagesInv
<1>4. /\ Checked(stored)' /\ Checked(new)'
      /\ AllDurable(stored) => AllDurable(stored)'
      /\ AllDurable(new) => AllDurable(new)'
  <2>1. \A pkgs \in SUBSET Package :
          /\ Checked(pkgs) => \A p \in pkgs : /\ p[2] # "good" => p[1] \in unchecked'
                                              /\ p[2] = "short" => offer'[p[1]] # "size"
          /\ AllDurable(pkgs) => \A p \in pkgs : names'[p] # Absent /\ Absent \notin onDisk'[p]
    BY PackagesKept DEF Checked, AllDurable, Durable
  <2> QED BY <1>1, <2>1 DEF PackagesInv, Checked, AllDurable, Durable
<1> QED BY <1>1, <1>2, <1>3, <1>4 DEF PackagesInv

\* The types, but for those of what the step is about.
LEMMA TypesFollow ==
  ASSUME DeliveryInv, Next, DownloadsTypeOK',
         run' \in {"off", "mirroring", "jcat", "commit", "metadata"},
         vendor' \in Vendors \cup {"none"}, seen' \subseteq Vendors,
         stored' \subseteq Package, new' \subseteq Package
  PROVE  TypeOK' /\ FilesInv'
<1>1. FilesInv'
  BY StepOfFiles, NextKeepsInv DEF DeliveryInv
<1>2. FilesTypeOK'
  BY <1>1 DEF FilesInv
<1> QED BY <1>1, <1>2, HistoryGrows DEF TypeOK

(***************************************************************************)
(* The steps of a run, one after the other.                                *)
(***************************************************************************)
\* Without a vendor there is no work on an entry, nor a write of one.
LEMMA NoVendorNoWork ==
  ASSUME DeliveryInv, vendor = "none", NEW e \in Entries
  PROVE  ~Active(e) /\ write[e] = Idle
BY DEF DeliveryInv, EntryInv, Active, In

LEMMA AnewTypes ==
  ASSUME DownloadsTypeOK, Anew
  PROVE  DownloadsTypeOK'
<1>1. fetch' \in [Entries -> Fetch]
  <2>1. [at |-> "none", retries |-> 0] \in Fetch
    BY DownloadsAssumption DEF Fetch
  <2> QED BY <2>1 DEF Anew, NotBegun
<1>2. /\ payload' \in [Entries -> Checks \cup {Nothing}]
      /\ download' \in [Entries -> Content \cup {Nothing}]
      /\ offer' \in Offers
  BY DEF Anew, NothingYet, DownloadsTypeOK
<1>3. cancelled' \in BOOLEAN
  BY Zenon DEF Anew
<1> QED BY <1>1, <1>2, <1>3 DEF DownloadsTypeOK

LEMMA StartKeeps ==
  ASSUME DeliveryInv, Next, Start
  PROVE  DeliveryInv'
<1>1. /\ run = "off" /\ run' = "mirroring" /\ vendor' = "none" /\ seen' = {}
      /\ stored' = Published(names[metadata]) /\ new' = {} /\ Anew
      /\ UNCHANGED <<fileVars, faults, forgotten, unchecked>>
  BY DEF Start, NoFault, history
<1>2. vendor = "none"
  BY <1>1 DEF DeliveryInv, MainInv
<1>3. ~Rename(Main)
  <2>1. write[Main] = Idle
    BY <1>1 DEF DeliveryInv, MainInv
  <2> QED BY <2>1 DEF Rename, At
<1>4. stored' \subseteq Package /\ Checked(stored') /\ (forgotten < 2 => AllDurable(stored'))
  <2>1. names[metadata] \in onDisk[metadata]
    BY KeysAndValues DEF DeliveryInv, FilesInv
  <2> QED BY <1>1, <2>1 DEF DeliveryInv, MetadataInv, Published, Document, Checked, AllDurable
<1>5. DownloadsTypeOK'
  BY <1>1, AnewTypes DEF DeliveryInv, TypeOK
<1>6. TypeOK' /\ FilesInv'
  BY <1>1, <1>4, <1>5, TypesFollow
<1>7. ASSUME NEW e \in Entries PROVE EntryInv(e)'
  <2>1. fetch'[e].at = "none"
    BY <1>1 DEF Anew, NotBegun
  <2>2. write'[e] = Idle
    BY <1>1, <1>2, NoVendorNoWork DEF fileVars
  <2> QED BY <2>1, <2>2 DEF EntryInv, Active
<1>8. MainInv'
  BY <1>1 DEF DeliveryInv, MainInv, fileVars
<1>9. PackagesInv'
  BY <1>1, <1>4 DEF Anew, fileVars, PackagesInv, Checked, AllDurable, Durable
<1>10. MetadataInv'
  BY <1>3, MetadataKept
<1> QED BY <1>6, <1>7, <1>8, <1>9, <1>10 DEF DeliveryInv

LEMMA VendorKeeps ==
  ASSUME DeliveryInv, Next, EndVendor \/ \E v \in Vendors : BeginVendor(v)
  PROVE  DeliveryInv'
<1>1. /\ UNCHANGED <<downloadVars, fileVars, run, stored, new, faults, forgotten, unchecked>>
      /\ run = "mirroring" /\ vendor' \in Vendors \cup {"none"} /\ seen' \subseteq Vendors
  BY DEF EndVendor, BeginVendor, NoFault, history, DeliveryInv, TypeOK, MainInv
<1>2. ~Rename(Main)
  <2>1. write[Main] = Idle
    BY <1>1 DEF DeliveryInv, MainInv
  <2> QED BY <2>1 DEF Rename, At
<1>3. ~Crash
  BY <1>1, DeliveryAssumption DEF Crash, Fault, DeliveryInv, TypeOK
<1>4. ASSUME NEW e \in Entries PROVE ~Active(e)
  <2>1. CASE \E v \in Vendors : BeginVendor(v)
    BY <2>1, NoVendorNoWork DEF BeginVendor
  <2>2. CASE EndVendor
    BY <2>2 DEF EndVendor, DeliveryInv, EntryInv, Active, In
  <2> QED BY <2>1, <2>2
<1>5. DownloadsTypeOK'
  BY <1>1 DEF DeliveryInv, TypeOK, DownloadsTypeOK, downloadVars
<1>6. TypeOK' /\ FilesInv'
  BY <1>1, <1>5, TypesFollow DEF DeliveryInv, TypeOK
<1>7. ASSUME NEW e \in Entries PROVE EntryInv(e)'
  BY <1>1, <1>3, <1>4, EntryUntouched DEF downloadVars, fileVars
<1>8. MainInv'
  BY <1>1 DEF DeliveryInv, MainInv, fileVars
<1>9. PackagesInv'
  BY <1>1, <1>3, PackagesUntouched DEF JCATWritten
<1>10. MetadataInv'
  BY <1>2, MetadataKept
<1> QED BY <1>6, <1>7, <1>8, <1>9, <1>10 DEF DeliveryInv

LEMMA InterruptKeeps ==
  ASSUME DeliveryInv, Next, Interrupt
  PROVE  DeliveryInv'
<1>1. /\ UNCHANGED <<offer, fetch, payload, download, fileVars, runVars, forgotten, unchecked>>
      /\ run = "mirroring" /\ cancelled' = TRUE
  BY DEF Interrupt, Cancel
<1>2. write[Main] = Idle
  BY <1>1 DEF DeliveryInv, MainInv
<1>3. ~Rename(Main)
  BY <1>2 DEF Rename, At
<1>4. ~Crash
  BY <1>1 DEF Interrupt, Crash, Gone, Anew
<1>5. DownloadsTypeOK'
  <2>1. cancelled' \in BOOLEAN
    BY <1>1, Zenon
  <2> QED BY <1>1, <2>1 DEF DeliveryInv, TypeOK, DownloadsTypeOK
<1>6. TypeOK' /\ FilesInv'
  BY <1>1, <1>5, TypesFollow DEF DeliveryInv, TypeOK, runVars
<1>7. ASSUME NEW e \in Entries PROVE EntryInv(e)'
  BY <1>1, <1>4, EntryUntouched DEF fileVars, runVars
<1>8. MainInv'
  BY <1>1, <1>2 DEF DeliveryInv, MainInv, fileVars, runVars
<1>9. PackagesInv'
  BY <1>1, <1>4, PackagesUntouched DEF JCATWritten, runVars
<1>10. MetadataInv'
  BY <1>3, MetadataKept
<1> QED BY <1>6, <1>7, <1>8, <1>9, <1>10 DEF DeliveryInv

LEMMA RetrievesKeeps ==
  ASSUME DeliveryInv, Next, NEW e \in Entries, Begin(e) \/ Retrieves(e)
  PROVE  DeliveryInv'
<1>1. /\ UNCHANGED <<fileVars, runVars, faults, forgotten, unchecked>>
      /\ vendor # "none" /\ e \in Of(vendor) \ Mirrored
      /\ write[e] = Idle
      /\ RetrievalStep(e) \/ Retrieve(e)
  <2>1. CASE Begin(e)
    BY <2>1 DEF Begin, Retrieve, NoFault, history, In, DeliveryInv, EntryInv
  <2>2. CASE Retrieves(e)
    <3>1. Active(e)
      BY <2>2, DownloadsAssumption DEF Retrieves, RetrievalStep, TryAgain, GiveUp, Answered,
         ReadSidecar, CreateFile, CopyBody, Verify, Convert, RetrievalFails, In, Active, Requesting
    <3> QED BY <2>2, <3>1 DEF Retrieves, NoFault, history, DeliveryInv, EntryInv
  <2> QED BY <2>1, <2>2
<1>2. run = "mirroring" /\ write[Main] = Idle
  BY <1>1 DEF DeliveryInv, MainInv
<1>3. ~Rename(Main)
  BY <1>2 DEF Rename, At
<1>4. ~Crash
  BY <1>1, DeliveryAssumption DEF Crash, Fault, DeliveryInv, TypeOK
<1>5. /\ UNCHANGED <<offer, cancelled>>
      /\ fetch' = [fetch EXCEPT ![e] = fetch'[e]] /\ fetch'[e] \in Fetch
      /\ payload' = [payload EXCEPT ![e] = payload'[e]]
      /\ payload'[e] \in Checks \cup {Nothing}
      /\ download' = [download EXCEPT ![e] = download'[e]]
      /\ download'[e] \in Content \cup {Nothing}
  BY <1>1, RetrievalTypes DEF DeliveryInv, TypeOK
<1>6. DownloadsTypeOK'
  <2>1. cancelled' \in BOOLEAN
    <3>1. cancelled \in BOOLEAN
      BY Zenon DEF DeliveryInv, TypeOK, DownloadsTypeOK
    <3> QED BY <1>5, <3>1, Zenon
  <2> QED BY <1>5, <2>1 DEF DeliveryInv, TypeOK, DownloadsTypeOK
<1>7. TypeOK' /\ FilesInv'
  BY <1>1, <1>6, TypesFollow DEF DeliveryInv, TypeOK, runVars
<1>8. EntryInv(e)'
  <2>1. /\ fetch'[e].at \in {"file", "fileBody", "verify", "convert", "ready"}
             => download'[e] \in Content
        /\ fetch'[e].at \in {"convert", "ready"} => Verified(e)'
    BY <1>1, RetrievalKeeps DEF DeliveryInv, TypeOK, EntryInv
  <2> QED BY <1>1, <1>5, <2>1 DEF EntryInv, fileVars, runVars, Mirrored, Of
<1>9. ASSUME NEW x \in Entries, x # e PROVE EntryInv(x)'
  <2>1. UNCHANGED <<fetch[x], payload[x], download[x], write[x], vendor, stored>>
    BY <1>1, <1>5, <1>9 DEF fileVars, runVars, DeliveryInv, TypeOK, DownloadsTypeOK
  <2> QED BY <1>4, <2>1, EntryUntouched
<1>10. MainInv'
  BY <1>1, <1>2 DEF DeliveryInv, MainInv, fileVars, runVars
<1>11. PackagesInv'
  BY <1>1, <1>2, <1>4, PackagesUntouched DEF JCATWritten, runVars
<1>12. MetadataInv'
  BY <1>3, MetadataKept
<1> QED BY <1>7, <1>8, <1>9, <1>10, <1>11, <1>12 DEF DeliveryInv

\* A download that was verified is what it can be told to be.
LEMMA StoredAsChecked ==
  ASSUME DeliveryInv, NEW e \in Entries, In(e, "ready")
  PROVE  /\ CheckOf(e) = "digest" => download[e] = "good"
         /\ download[e] = "short" => offer[e] # "size"
<1>1. Verified(e) /\ download[e] \in Content /\ offer \in Offers
  BY DEF DeliveryInv, EntryInv, In, TypeOK, DownloadsTypeOK
<1>2. e \in HPE => offer[e] # "size"
  BY <1>1, DownloadsAssumption
<1>3. e \notin HPE => CheckOf(e) = offer[e]
  BY DEF CheckOf
<1>4. CheckOf(e) = "digest" => download[e] = "good"
  BY <1>1 DEF Verified
<1>5. CheckOf(e) = "size" => download[e] # "short"
  BY <1>1 DEF Verified
<1> QED BY <1>2, <1>3, <1>4, <1>5

LEMMA StoreKeeps ==
  ASSUME DeliveryInv, Next, NEW e \in Entries, StorePackage(e)
  PROVE  DeliveryInv'
<1>1. /\ UNCHANGED <<downloadVars, runVars, names, onDisk, temp, faults, forgotten>>
      /\ In(e, "ready") /\ write[e] = Idle
      /\ write' = [write EXCEPT ![e] = [key |-> PackageOf(e), value |-> Cabinet, at |-> "create"]]
      /\ unchecked' = IF CheckOf(e) = "digest" THEN unchecked ELSE unchecked \cup {e}
  BY DEF StorePackage, BeginWrite
<1>2. Active(e) /\ EntryInv(e)
  BY <1>1 DEF Active, In, DeliveryInv
<1>3. run = "mirroring" /\ write[Main] = Idle
  BY <1>2 DEF DeliveryInv, MainInv, EntryInv
<1>4. ~Rename(Main)
  BY <1>3 DEF Rename, At
<1>5. ~Crash
  BY <1>1, DeliveryAssumption DEF Crash, Fault, DeliveryInv, TypeOK
<1>6. DownloadsTypeOK'
  BY <1>1 DEF DeliveryInv, TypeOK, DownloadsTypeOK, downloadVars
<1>7. TypeOK' /\ FilesInv'
  BY <1>1, <1>6, TypesFollow DEF DeliveryInv, TypeOK, runVars
<1>8. /\ write'[e] = [key |-> PackageOf(e), value |-> Cabinet, at |-> "create"]
      /\ \A x \in Writers \ {e} : write'[x] = write[x]
  BY <1>1, KeysAndValues DEF DeliveryInv, FilesInv, FilesTypeOK
<1>9. EntryInv(e)'
  <2>1. Checked({PackageOf(e)})'
    <3>1. PackageOf(e)' = <<e, download[e]>>
      BY <1>1 DEF PackageOf, downloadVars
    <3>2. download[e] # "good" => e \in unchecked'
      BY <1>1, StoredAsChecked
    <3>3. download[e] = "short" => offer'[e] # "size"
      BY <1>1, StoredAsChecked DEF downloadVars
    <3> QED BY <3>1, <3>2, <3>3 DEF Checked
  <2>2. PackageOf(e)' = PackageOf(e) /\ In(e, "ready")' /\ Verified(e)' = Verified(e)
    BY <1>1 DEF PackageOf, In, Verified, CheckOf, downloadVars
  <2> QED BY <1>1, <1>2, <1>8, <2>1, <2>2 DEF EntryInv, Active, Mirrored, Of, downloadVars, runVars
<1>10. ASSUME NEW x \in Entries, x # e PROVE EntryInv(x)'
  <2>1. UNCHANGED <<fetch[x], payload[x], download[x], write[x], vendor, stored>>
    BY <1>1, <1>8, <1>10, KeysAndValues DEF downloadVars, runVars
  <2> QED BY <1>5, <2>1, EntryUntouched
<1>11. MainInv'
  <2>1. write'[Main] = Idle
    BY <1>3, <1>8, DeliveryAssumption
  <2> QED BY <1>1, <2>1 DEF DeliveryInv, MainInv, runVars
<1>12. PackagesInv'
  BY <1>1, <1>3, <1>5, PackagesUntouched DEF JCATWritten, runVars
<1>13. MetadataInv'
  BY <1>4, MetadataKept
<1> QED BY <1>7, <1>9, <1>10, <1>11, <1>12, <1>13 DEF DeliveryInv

LEMMA KeepKeeps ==
  ASSUME DeliveryInv, Next, NEW e \in Entries, Keep(e)
  PROVE  DeliveryInv'
<1>1. /\ UNCHANGED <<offer, cancelled, run, vendor, seen, stored, faults, forgotten, unchecked>>
      /\ UNCHANGED <<names, onDisk, temp>>
      /\ At(e, "ok") \/ At(e, "failed")
      /\ write' = [write EXCEPT ![e] = Idle]
      /\ new' = IF At(e, "ok") THEN new \cup {PackageOf(e)} ELSE new
      /\ fetch' = [fetch EXCEPT ![e] = [at |-> "done", retries |-> 0]]
      /\ payload' = [payload EXCEPT ![e] = Nothing]
      /\ download' = [download EXCEPT ![e] = Nothing]
  BY DEF Keep, EndWrite, Over, GoOn, NoFault, history
<1>2. write[e] # Idle /\ EntryInv(e)
  BY <1>1 DEF At, DeliveryInv
<1>3. run = "mirroring" /\ write[Main] = Idle /\ In(e, "ready")
  BY <1>2 DEF DeliveryInv, MainInv, EntryInv, Active, In
<1>4. ~Rename(Main)
  BY <1>3 DEF Rename, At
<1>5. ~Crash
  BY <1>1, DeliveryAssumption DEF Crash, Fault, DeliveryInv, TypeOK
<1>6. DownloadsTypeOK'
  <2>1. [at |-> "done", retries |-> 0] \in Fetch
    BY DownloadsAssumption DEF Fetch
  <2>2. cancelled' \in BOOLEAN
    <3>1. cancelled \in BOOLEAN
      BY Zenon DEF DeliveryInv, TypeOK, DownloadsTypeOK
    <3> QED BY <1>1, <3>1, Zenon
  <2> QED BY <1>1, <2>1, <2>2 DEF DeliveryInv, TypeOK, DownloadsTypeOK
<1>7. PackageOf(e) \in Package
  BY <1>2, <1>3, PackageOfType DEF DeliveryInv
<1>8. new' \subseteq Package
  BY <1>1, <1>7 DEF DeliveryInv, TypeOK
<1>9. TypeOK' /\ FilesInv'
  BY <1>1, <1>6, <1>8, TypesFollow DEF DeliveryInv, TypeOK
<1>10. EntryInv(e)'
  <2>1. fetch'[e].at = "done" /\ write'[e] = Idle
    BY <1>1, KeysAndValues DEF DeliveryInv, TypeOK, DownloadsTypeOK, FilesInv, FilesTypeOK
  <2> QED BY <2>1 DEF EntryInv, Active
<1>11. ASSUME NEW x \in Entries, x # e PROVE EntryInv(x)'
  <2>1. UNCHANGED <<fetch[x], payload[x], download[x], write[x], vendor, stored>>
    BY <1>1, <1>11, KeysAndValues
       DEF DeliveryInv, TypeOK, DownloadsTypeOK, FilesInv, FilesTypeOK
  <2> QED BY <1>5, <2>1, EntryUntouched
<1>12. MainInv'
  <2>1. write'[Main] = Idle
    BY <1>1, <1>3, KeysAndValues, DeliveryAssumption DEF DeliveryInv, FilesInv, FilesTypeOK
  <2> QED BY <1>1, <2>1 DEF DeliveryInv, MainInv
<1>13. PackagesInv'
  <2>1. At(e, "ok") => /\ Checked({PackageOf(e)})
                       /\ names[PackageOf(e)] # Absent
                       /\ forgotten = 0 => Durable(PackageOf(e))
    BY <1>2 DEF EntryInv, At
  <2> DEFINE p == PackageOf(e)
  <2> HIDE DEF p
  <2>2. new' = new \/ (At(e, "ok") /\ new' = new \cup {p})
    BY <1>1 DEF p
  <2>3. At(e, "ok") => Checked({p}) /\ names[p] # Absent /\ (forgotten = 0 => Durable(p))
    BY <2>1 DEF p
  <2> QED BY <1>1, <1>3, <2>2, <2>3
          DEF DeliveryInv, PackagesInv, Checked, AllDurable, Durable, JCATWritten
<1>14. MetadataInv'
  BY <1>4, MetadataKept
<1> QED BY <1>9, <1>10, <1>11, <1>12, <1>13, <1>14 DEF DeliveryInv

\* The steps of the goroutine that publishes, between its writes.
LEMMA PublishKeeps ==
  ASSUME DeliveryInv, Next, PublishBegins \/ JCATEnds \/ Commit \/ MetadataEnds
  PROVE  DeliveryInv'
<1>1. /\ UNCHANGED <<downloadVars, vendor, seen, stored, new, faults, forgotten, unchecked>>
      /\ UNCHANGED <<names, onDisk, temp>>
      /\ run' \in {"off", "jcat", "commit", "metadata"}
      /\ vendor = "none"
  BY DEF PublishBegins, JCATEnds, Commit, MetadataEnds, NoFault, history, BeginWrite, EndWrite,
     fileVars, DeliveryInv, MainInv
<1>2. ~Rename(Main)
  <2>1. CASE PublishBegins \/ Commit
    <3>1. write[Main] = Idle
      BY <2>1 DEF PublishBegins, Commit, DeliveryInv, MainInv
    <3> QED BY <3>1 DEF Rename, At
  <2>2. CASE JCATEnds \/ MetadataEnds
    BY <2>2 DEF JCATEnds, MetadataEnds, EndWrite, Rename, At
  <2> QED BY <2>1, <2>2
<1>3. ~Crash
  BY <1>1, DeliveryAssumption DEF Crash, Fault, DeliveryInv, TypeOK
<1>4. DownloadsTypeOK'
  BY <1>1 DEF DeliveryInv, TypeOK, DownloadsTypeOK, downloadVars
<1>5. TypeOK' /\ FilesInv'
  BY <1>1, <1>4, TypesFollow DEF DeliveryInv, TypeOK
<1>6. \A x \in Writers \ {Main} : write'[x] = write[x]
  BY KeysAndValues DEF PublishBegins, JCATEnds, Commit, MetadataEnds, BeginWrite, EndWrite,
     fileVars, DeliveryInv, FilesInv, FilesTypeOK
<1>7. ASSUME NEW e \in Entries PROVE EntryInv(e)'
  <2>1. UNCHANGED <<fetch[e], payload[e], download[e], write[e], vendor, stored>>
    BY <1>1, <1>6, DeliveryAssumption DEF downloadVars
  <2> QED BY <1>3, <2>1, EntryUntouched
<1>8. MainInv'
  <2>1. CASE PublishBegins /\ new = {}
    BY <1>1, <2>1 DEF PublishBegins, fileVars, DeliveryInv, MainInv
  <2>2. CASE PublishBegins /\ new # {}
    <3>1. run' = "jcat" /\ write'[Main] = [key |-> jcat, value |-> NewDocument, at |-> "create"]
      BY <2>2, KeysAndValues DEF PublishBegins, BeginWrite, DeliveryInv, FilesInv, FilesTypeOK
    <3> QED BY <1>1, <3>1 DEF MainInv
  <2>3. CASE Commit
    <3>1. /\ run' = "metadata"
          /\ write'[Main] = [key |-> metadata, value |-> NewDocument, at |-> "create"]
      BY <2>3, KeysAndValues DEF Commit, BeginWrite, DeliveryInv, FilesInv, FilesTypeOK
    <3> QED BY <1>1, <3>1 DEF MainInv, NewDocument
  <2>4. CASE JCATEnds \/ MetadataEnds
    <3>1. write'[Main] = Idle
      BY <2>4, KeysAndValues DEF JCATEnds, MetadataEnds, EndWrite, DeliveryInv, FilesInv, FilesTypeOK
    <3> QED BY <1>1, <3>1 DEF MainInv
  <2> QED BY <2>1, <2>2, <2>3, <2>4
<1>9. PackagesInv'
  <2>1. JCATWritten' => JCATWritten
    <3>1. CASE PublishBegins
      <4>1. CASE new = {}
        BY <3>1, <4>1 DEF PublishBegins, JCATWritten
      <4>2. CASE new # {}
        <5>1. run' = "jcat" /\ write'[Main].at = "create"
          BY <3>1, <4>2, KeysAndValues DEF PublishBegins, BeginWrite, DeliveryInv, FilesInv, FilesTypeOK
        <5> QED BY <5>1 DEF JCATWritten
      <4> QED BY <4>1, <4>2
    <3>2. CASE JCATEnds
      BY <3>2 DEF JCATEnds, JCATWritten, At
    <3>3. CASE Commit \/ MetadataEnds
      BY <3>3 DEF Commit, MetadataEnds, JCATWritten
    <3> QED BY <3>1, <3>2, <3>3
  <2> QED BY <1>1, <1>3, <2>1, PackagesUntouched
<1>10. MetadataInv'
  BY <1>2, MetadataKept
<1> QED BY <1>5, <1>7, <1>8, <1>9, <1>10 DEF DeliveryInv

\* Whoever writes, the others do not.
LEMMA WritesAt ==
  ASSUME DeliveryInv, NEW w \in Writers, Writes(w)
  PROVE  /\ UNCHANGED <<downloadVars, runVars, unchecked>>
         /\ write[w] # Idle /\ write[w] \in Write
         /\ write' = [write EXCEPT ![w] = write'[w]]
         /\ write'[w] # Idle
         /\ write'[w].key = write[w].key /\ write'[w].value = write[w].value
         /\ write'[w].at \in {"syncdir", "ok"}
              => write[w].at = "syncdir" \/ Rename(w)
         /\ write'[w].at = "ok" => write[w].at = "syncdir"
                                   /\ (SyncDirectory(w) \/ forgotten' = forgotten + 1)
<1> USE DEF At, Step
<1>1. UNCHANGED <<downloadVars, runVars, unchecked>>
  BY DEF Writes, NoFault, history
<1>2. write[w] # Idle /\ write[w] \in Write
  BY DEF Writes, WriteStep, CreateTemp, Copy, SyncFile, Chmod, Rename, SyncDirectory, WriteFails,
     SyncDirectoryFails, DeliveryInv, FilesInv, FilesTypeOK
<1>3. PICK at \in Steps \cup {"ok", "failed"} : write' = [write EXCEPT ![w].at = at]
  BY DEF Writes, WriteStep, CreateTemp, Copy, SyncFile, Chmod, Rename, SyncDirectory, WriteFails,
     SyncDirectoryFails, Steps
<1>4. write'[w] = [write[w] EXCEPT !.at = at]
  BY <1>3 DEF DeliveryInv, FilesInv, FilesTypeOK
<1>5. write'[w] \in Write /\ write'[w].at = at
      /\ write'[w].key = write[w].key /\ write'[w].value = write[w].value
  BY <1>2, <1>4 DEF Write
<1>6. write' = [write EXCEPT ![w] = write'[w]]
  BY <1>3 DEF DeliveryInv, FilesInv, FilesTypeOK
<1>7. write'[w] # Idle
  BY <1>5, NoneAssumption
<1>8. write'[w].at \in {"syncdir", "ok"} => write[w].at = "syncdir" \/ Rename(w)
  <2>1. CASE CreateTemp(w) \/ Copy(w) \/ SyncFile(w) \/ Chmod(w) \/ WriteFails(w)
    <3>1. write'[w].at \in {"copy", "sync", "chmod", "rename", "failed"}
      BY <2>1, <1>2 DEF CreateTemp, Copy, SyncFile, Chmod, WriteFails, Write, DeliveryInv,
         FilesInv, FilesTypeOK
    <3> QED BY <3>1
  <2>2. CASE SyncDirectory(w) \/ SyncDirectoryFails(w)
    BY <2>2 DEF SyncDirectory, SyncDirectoryFails
  <2> QED BY <2>1, <2>2 DEF Writes, WriteStep
<1>9. write'[w].at = "ok" => write[w].at = "syncdir"
                             /\ (SyncDirectory(w) \/ forgotten' = forgotten + 1)
  <2>1. CASE WriteStep(w) \/ WriteFails(w)
    <3>1. SyncDirectory(w) \/ write'[w].at \in {"copy", "sync", "chmod", "rename", "syncdir", "failed"}
      BY <2>1, <1>2 DEF WriteStep, CreateTemp, Copy, SyncFile, Chmod, Rename, WriteFails, Write,
         DeliveryInv, FilesInv, FilesTypeOK
    <3> QED BY <3>1 DEF SyncDirectory
  <2>2. CASE SyncDirectoryFails(w) /\ forgotten' = forgotten + 1
    BY <2>2 DEF SyncDirectoryFails
  <2> QED BY <2>1, <2>2 DEF Writes
<1> QED BY <1>1, <1>2, <1>5, <1>6, <1>7, <1>8, <1>9

LEMMA WriterOfEntry ==
  ASSUME DeliveryInv, Next, NEW w \in Entries, Writes(w)
  PROVE  EntryInv(w)'
<1>0. w \in Writers
  BY KeysAndValues
<1>1. /\ UNCHANGED <<downloadVars, runVars, unchecked>>
      /\ write[w] # Idle /\ write'[w].key = write[w].key
      /\ write'[w].at \in {"syncdir", "ok"} => write[w].at = "syncdir" \/ Rename(w)
      /\ write'[w].at = "ok" => write[w].at = "syncdir"
                                /\ (SyncDirectory(w) \/ forgotten' = forgotten + 1)
  BY <1>0, WritesAt
<1>2. EntryInv(w) /\ In(w, "ready")
  BY <1>1 DEF DeliveryInv, EntryInv
<1>3. PICK p \in Package : p = PackageOf(w)
  BY <1>2, PackageOfType DEF DeliveryInv
<1>4. PackageOf(w)' = p /\ Verified(w)' = Verified(w) /\ In(w, "ready")' /\ Active(w)' = Active(w)
  BY <1>1, <1>2, <1>3 DEF PackageOf, Verified, CheckOf, In, Active, downloadVars
<1>5. Checked({PackageOf(w)})'
  BY <1>1, <1>2, <1>3, <1>4 DEF EntryInv, Checked, PackageOf, downloadVars
<1>6. write'[w].at \in {"syncdir", "ok"} => names'[p] # Absent
  <2>1. CASE write[w].at = "syncdir"
    <3>1. ~Crash
      BY <1>1 DEF Crash, Gone, runVars, DeliveryInv, EntryInv, MainInv, Active, In
    <3> QED BY <2>1, <3>1, <1>1, <1>2, <1>3, PresentStays, KeysAndValues DEF EntryInv
  <2>2. CASE Rename(w)
    <3>1. temp[w] # Absent
      BY <2>2, <1>0, <1>1, NoneAssumption DEF Rename, At, DeliveryInv, FilesInv, TempReady
    <3>2. write[w].key = p
      BY <1>1, <1>2, <1>3 DEF EntryInv
    <3> QED BY <2>2, <3>1, <3>2, <1>3, KeysAndValues DEF Rename, DeliveryInv, FilesInv, FilesTypeOK
  <2> QED BY <1>1, <2>1, <2>2
<1>7. write'[w].at = "ok" /\ forgotten' = 0 => Durable(p)'
  <2>1. SUFFICES ASSUME write'[w].at = "ok", forgotten' = 0
                 PROVE  Durable(p)'
    OBVIOUS
  <2>2. SyncDirectory(w)
    BY <1>1, <2>1 DEF DeliveryInv, TypeOK
  <2>3. names[p] # Absent
    BY <1>1, <1>2, <1>3, <2>1 DEF EntryInv
  <2> QED BY <1>0, <1>3, <2>2, <2>3, SyncMakesDurable, KeysAndValues
<1>8. Durable(PackageOf(w))' = Durable(p)'
  BY <1>4 DEF Durable
<1> QED BY <1>1, <1>2, <1>3, <1>4, <1>5, <1>6, <1>7, <1>8
       DEF EntryInv, Mirrored, Of, runVars, downloadVars

\* Once the JCAT is written, all packages in hand are there to stay.
LEMMA WriterOfJCAT ==
  ASSUME DeliveryInv, Next, ~Crash, Writes(Main), write[Main].at = "syncdir", write'[Main].at = "ok",
         forgotten' < 2
  PROVE  AllDurable(new)'
<1>1. UNCHANGED new /\ (SyncDirectory(Main) \/ forgotten' = forgotten + 1)
  BY WritesAt, KeysAndValues DEF runVars
<1>2. new \subseteq Package /\ new \subseteq Keys /\ PackagesInv
  BY KeysAndValues DEF DeliveryInv, TypeOK
<1>3. CASE SyncDirectory(Main)
  <2>1. \A p \in new : Durable(p)'
    BY <1>2, <1>3, SyncMakesDurable, KeysAndValues DEF PackagesInv
  <2> QED BY <1>1, <2>1 DEF AllDurable, Durable
<1>4. CASE forgotten' = forgotten + 1
  <2>1. forgotten = 0
    BY <1>4 DEF DeliveryInv, TypeOK
  <2>2. \A p \in new : Durable(p)
    BY <1>2, <2>1 DEF PackagesInv, AllDurable
  <2>3. \A p \in new : Durable(p)'
    BY <1>2, <2>2, StepOfFiles, DurableKept DEF DeliveryInv
  <2> QED BY <1>1, <2>3 DEF AllDurable, Durable
<1> QED BY <1>1, <1>3, <1>4

\* The commit: what is renamed into place names packages that are there to stay.
LEMMA RenamesMetadata ==
  ASSUME DeliveryInv, Rename(Main), write[Main].key = metadata, PackagesInv',
         UNCHANGED <<downloadVars, runVars, unchecked, forgotten>>, Next
  PROVE  MetadataInv'
<1>1. write[Main] # Idle /\ write[Main].at = "rename"
  BY DEF Rename, At
<1>2. run = "metadata" /\ write[Main].value = NewDocument
  BY <1>1, DeliveryAssumption DEF DeliveryInv, MainInv
<1>3. temp[Main].value = NewDocument
  BY <1>1, <1>2, KeysAndValues DEF DeliveryInv, FilesInv, TempReady
<1>4. onDisk'[metadata] = onDisk[metadata] \cup {temp[Main]}
  BY KeysAndValues DEF Rename, DeliveryInv, FilesInv, FilesTypeOK
<1>5. NewDocument \in Document /\ NewDocument.packages = stored \cup new
  BY NewDocumentType DEF NewDocument, DeliveryInv
<1>6. Checked(stored \cup new)' /\ (forgotten' < 2 => AllDurable(stored \cup new)')
  <2>1. JCATWritten'
    BY <1>2 DEF JCATWritten, runVars
  <2> QED BY <2>1 DEF PackagesInv, Checked, AllDurable
<1>7. UNCHANGED <<stored, new>>
  BY DEF runVars
<1>8. ASSUME NEW f \in onDisk[metadata], f # Absent
      PROVE  /\ f.value \in Document
             /\ Checked(f.value.packages)'
             /\ forgotten' < 2 => AllDurable(f.value.packages)'
  <2>1. f.value \in Document /\ Checked(f.value.packages)
        /\ (forgotten < 2 => AllDurable(f.value.packages))
    BY <1>8 DEF DeliveryInv, MetadataInv
  <2>2. f.value.packages \subseteq Package
    BY <2>1 DEF Document
  <2> QED BY <2>1, <2>2, PackagesKept
<1>9. ASSUME NEW f, f = temp[Main]
      PROVE  /\ f.value \in Document
             /\ Checked(f.value.packages)'
             /\ forgotten' < 2 => AllDurable(f.value.packages)'
  <2>1. f.value \in Document /\ f.value.packages = stored \cup new
    BY <1>3, <1>5, <1>9
  <2>2. ASSUME NEW p \in stored \cup new
        PROVE  /\ p[2] # "good" => p[1] \in unchecked'
               /\ p[2] = "short" => offer'[p[1]] # "size"
               /\ forgotten' < 2 => Durable(p)'
    BY <1>6, <1>7 DEF Checked, AllDurable
  <2> QED BY <2>1, <2>2 DEF Checked, AllDurable
<1> QED BY <1>4, <1>8, <1>9 DEF MetadataInv

LEMMA WritesKeeps ==
  ASSUME DeliveryInv, Next, NEW w \in Writers, Writes(w)
  PROVE  DeliveryInv'
<1>1. /\ UNCHANGED <<downloadVars, runVars, unchecked>>
      /\ write[w] # Idle
      /\ write' = [write EXCEPT ![w] = write'[w]]
      /\ write'[w].key = write[w].key /\ write'[w].value = write[w].value
      /\ write'[w].at = "ok" => write[w].at = "syncdir"
  BY WritesAt
<1>2. ~Crash
  <2>1. run # "off"
    <3>1. CASE w = Main
      BY <1>1, <3>1 DEF DeliveryInv, MainInv
    <3>2. CASE w \in Entries
      BY <1>1, <3>2 DEF DeliveryInv, EntryInv, MainInv, Active, In
    <3> QED BY <3>1, <3>2, DeliveryAssumption
  <2> QED BY <1>1, <2>1 DEF Crash, Gone, runVars
<1>3. DownloadsTypeOK'
  BY <1>1 DEF DeliveryInv, TypeOK, DownloadsTypeOK, downloadVars
<1>4. TypeOK' /\ FilesInv'
  BY <1>1, <1>3, TypesFollow DEF DeliveryInv, TypeOK, runVars
<1>5. \A x \in Writers \ {w} : write'[x] = write[x]
  BY <1>1 DEF DeliveryInv, FilesInv, FilesTypeOK
<1>6. ASSUME NEW e \in Entries PROVE EntryInv(e)'
  <2>1. CASE e = w
    BY <2>1, WriterOfEntry
  <2>2. CASE e # w
    <3>1. UNCHANGED <<fetch[e], payload[e], download[e], write[e], vendor, stored>>
      BY <1>1, <1>5, <2>2, KeysAndValues DEF downloadVars, runVars
    <3> QED BY <1>2, <3>1, EntryUntouched
  <2> QED BY <2>1, <2>2
<1>7. MainInv'
  <2>1. CASE w = Main
    <3>1. write'[Main].key = write[Main].key /\ write'[Main].value = write[Main].value
          /\ write[Main] # Idle
      BY <1>1, <2>1
    <3> QED BY <1>1, <3>1 DEF DeliveryInv, MainInv, NewDocument, runVars
  <2>2. CASE w # Main
    BY <1>1, <1>5, <2>2, KeysAndValues DEF DeliveryInv, MainInv, NewDocument, runVars
  <2> QED BY <2>1, <2>2
<1>8. PackagesInv'
  <2>1. forgotten' = 0 => forgotten = 0
    BY HistoryGrows DEF DeliveryInv, TypeOK
  <2>2. ASSUME forgotten' < 2, JCATWritten'
        PROVE  (forgotten < 2 /\ JCATWritten) \/ AllDurable(new)'
    <3>1. forgotten < 2
      BY <2>2, HistoryGrows DEF DeliveryInv, TypeOK
    <3>2. CASE w # Main
      BY <1>1, <1>5, <2>2, <3>1, <3>2, KeysAndValues DEF JCATWritten, runVars
    <3>3. CASE w = Main /\ run \in {"commit", "metadata"}
      BY <3>1, <3>3 DEF JCATWritten
    <3>4. CASE w = Main /\ run \notin {"commit", "metadata"}
      <4>1. write'[Main].at = "ok" /\ write[Main].at = "syncdir"
        BY <1>1, <2>2, <3>4 DEF JCATWritten, runVars
      <4> QED BY <1>2, <2>2, <3>4, <4>1, WriterOfJCAT
    <3> QED BY <3>2, <3>3, <3>4
  <2> QED BY <1>1, <1>2, <2>1, <2>2, PackagesUntouched DEF runVars
<1>9. MetadataInv'
  <2>1. CASE Rename(Main) /\ write[Main].key = metadata
    <3>1. w = Main
      BY <2>1, <1>5, RenameMoves, KeysAndValues DEF DeliveryInv
    <3>2. UNCHANGED forgotten
      <4>1. ~SyncDirectoryFails(w) /\ ~WriteFails(w)
        BY <2>1, <3>1, KeysAndValues
           DEF Rename, SyncDirectoryFails, WriteFails, At, Step, DeliveryInv, FilesInv, FilesTypeOK, Write
      <4> QED BY <4>1 DEF Writes, NoFault, history
    <3> QED BY <1>1, <1>8, <2>1, <3>2, RenamesMetadata
  <2>2. CASE ~(Rename(Main) /\ write[Main].key = metadata)
    BY <2>2, MetadataKept
  <2> QED BY <2>1, <2>2
<1> QED BY <1>4, <1>6, <1>7, <1>8, <1>9 DEF DeliveryInv

LEMMA EndsKeep ==
  ASSUME DeliveryInv, Next, Panic \/ Crash
  PROVE  DeliveryInv'
<1>1. /\ run' = "off" /\ vendor' = "none" /\ seen' = {} /\ stored' = {} /\ new' = {} /\ Anew
      /\ KillWriters \/ PowerFailure
  BY DEF Panic, Crash, Gone
<1>2. write' = [w \in Writers |-> Idle]
  BY <1>1 DEF KillWriters, PowerFailure, KillAll
<1>3. ~Rename(Main)
  <2>1. write'[Main] = Idle
    BY <1>2, KeysAndValues
  <2>2. Rename(Main) => write'[Main] # Idle
    BY KeysAndValues, RenameMoves DEF DeliveryInv
  <2> QED BY <2>1, <2>2
<1>4. DownloadsTypeOK'
  BY <1>1, AnewTypes DEF DeliveryInv, TypeOK
<1>5. TypeOK' /\ FilesInv'
  BY <1>1, <1>4, TypesFollow
<1>6. ASSUME NEW e \in Entries PROVE EntryInv(e)'
  <2>1. fetch'[e].at = "none" /\ write'[e] = Idle
    BY <1>1, <1>2, KeysAndValues DEF Anew, NotBegun
  <2> QED BY <2>1 DEF EntryInv, Active
<1>7. MainInv'
  BY <1>1, <1>2, KeysAndValues DEF MainInv
<1>8. PackagesInv'
  BY <1>1 DEF PackagesInv, Checked, AllDurable
<1>9. MetadataInv'
  BY <1>3, MetadataKept
<1> QED BY <1>5, <1>6, <1>7, <1>8, <1>9 DEF DeliveryInv

-----------------------------------------------------------------------------
LEMMA DeliveryInit ==
  Init => FilesInit /\ DeliveryInv
<1> SUFFICES ASSUME Init PROVE FilesInit /\ DeliveryInv
  OBVIOUS
<1>1. FilesInit
  BY DEF Init, FilesInit
<1>2. FilesInv
  BY <1>1, FilesInvInit
<1>3. DownloadsTypeOK
  <2>1. [at |-> "none", retries |-> 0] \in Fetch
    BY DownloadsAssumption DEF Fetch
  <2>2. cancelled \in BOOLEAN
    BY Zenon DEF Init, DownloadsInit
  <2> QED BY <2>1, <2>2 DEF Init, DownloadsInit, DownloadsTypeOK, NotBegun, NothingYet
<1>4. TypeOK
  BY <1>2, <1>3, DeliveryAssumption DEF Init, TypeOK, FilesInv
<1>5. ASSUME NEW e \in Entries PROVE EntryInv(e)
  BY KeysAndValues DEF Init, DownloadsInit, NotBegun, EntryInv, Active
<1>6. MainInv /\ PackagesInv /\ MetadataInv
  BY KeysAndValues DEF Init, MainInv, PackagesInv, MetadataInv, Checked, AllDurable
<1> QED BY <1>1, <1>2, <1>4, <1>5, <1>6 DEF DeliveryInv

LEMMA DeliveryStep ==
  DeliveryInv /\ [Next]_vars => DeliveryInv'
<1> SUFFICES ASSUME DeliveryInv, [Next]_vars PROVE DeliveryInv'
  OBVIOUS
<1>1. CASE Next
  BY <1>1, StartKeeps, VendorKeeps, InterruptKeeps, RetrievesKeeps, StoreKeeps, KeepKeeps,
     PublishKeeps, WritesKeeps, EndsKeep DEF Next, RunStep
<1>2. CASE UNCHANGED vars
  <2> USE <1>2 DEF vars, runVars, history, downloadVars, fileVars
  <2>1. UNCHANGED <<offer, fetch, payload, download, run, vendor, seen, stored, new, faults,
                    forgotten, unchecked, names, onDisk, temp, write>>
    OBVIOUS
  <2>2. DownloadsTypeOK'
    <3>1. cancelled' = cancelled
      OBVIOUS
    <3> QED BY <2>1, <3>1 DEF DeliveryInv, TypeOK, DownloadsTypeOK
  <2>3. FilesInv'
    BY NextKeepsInv DEF DeliveryInv
  <2>4. TypeOK'
    BY <2>1, <2>2, <2>3 DEF DeliveryInv, TypeOK, FilesInv
  <2>5. ASSUME NEW e \in Entries PROVE EntryInv(e)'
    BY <2>1 DEF DeliveryInv, EntryInv, Active, In, PackageOf, Verified, CheckOf, Checked, Of,
       Durable, Mirrored
  <2>6. MainInv' /\ PackagesInv' /\ MetadataInv'
    BY <2>1 DEF DeliveryInv, MainInv, PackagesInv, MetadataInv, JCATWritten, NewDocument,
       Checked, AllDurable, Durable
  <2> QED BY <2>3, <2>4, <2>5, <2>6 DEF DeliveryInv
<1> QED BY <1>1, <1>2

LEMMA DeliveryInvAlways == Spec => []DeliveryInv
BY DeliveryInit, DeliveryStep, PTL DEF Spec

\* The runs use the files as Files says.
LEMMA DeliveryWritesFiles == Spec => FilesSpec
<1>1. DeliveryInv /\ [Next]_vars => [FilesNext]_fileVars
  BY StepOfFiles DEF vars, fileVars
<1> QED BY <1>1, DeliveryInit, DeliveryInvAlways, PTL DEF Spec, FilesSpec

(***************************************************************************)
(* The state of the runs is of the types declared.                         *)
(***************************************************************************)
THEOREM DeliveryTypeCorrect == Spec => []TypeOK
<1>1. DeliveryInv => TypeOK
  BY DEF DeliveryInv
<1> QED BY <1>1, DeliveryInvAlways, PTL

(***************************************************************************)
(* Whatever metadata is published, or can be left by a power failure, its  *)
(* packages are there and would be left too, as long as fewer than two     *)
(* syncs of the directory failed unnoticed.                                *)
(***************************************************************************)
THEOREM PackagesOutliveFailuresCorrect == Spec => []PackagesOutliveFailures
<1>1. DeliveryInv => PackagesOutliveFailures
  <2> SUFFICES ASSUME DeliveryInv, forgotten < 2,
                      NEW file \in onDisk[metadata] \cup {names[metadata]},
                      NEW p \in Published(file)
               PROVE  names[p] # Absent /\ Absent \notin onDisk[p]
    BY DEF PackagesOutliveFailures
  <2>1. file \in onDisk[metadata]
    BY KeysAndValues DEF DeliveryInv, FilesInv
  <2>2. file # Absent /\ p \in file.value.packages
    BY DEF Published
  <2> QED BY <2>1, <2>2 DEF DeliveryInv, MetadataInv, AllDurable, Durable
<1> QED BY <1>1, DeliveryInvAlways, PTL

(***************************************************************************)
(* A download that is not the firmware is published only if nothing could  *)
(* tell when it was stored.                                                *)
(***************************************************************************)
THEOREM PublishesWhatWasCheckedCorrect == Spec => []PublishesWhatWasChecked
<1>1. DeliveryInv => PublishesWhatWasChecked
  <2> SUFFICES ASSUME DeliveryInv, NEW p \in Published(names[metadata])
               PROVE  /\ p[2] # "good" => p[1] \in unchecked
                      /\ p[2] = "short" => offer[p[1]] # "size"
    BY DEF PublishesWhatWasChecked
  <2>1. names[metadata] \in onDisk[metadata]
    BY KeysAndValues DEF DeliveryInv, FilesInv
  <2> QED BY <2>1 DEF DeliveryInv, MetadataInv, Published, Checked
<1> QED BY <1>1, DeliveryInvAlways, PTL

(***************************************************************************)
(* Runs, with their crashes and power failures, find their store keeping   *)
(* the promise of ObjectStore.                                             *)
(***************************************************************************)
THEOREM DeliveryKeepsPromise == Spec => KeepsPromise
BY DeliveryWritesFiles, FilesKeepPromise, PTL
=============================================================================
