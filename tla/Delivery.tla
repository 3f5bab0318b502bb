------------------------------- MODULE Delivery -------------------------------
(***************************************************************************)
(* A firmware's way from the vendor to the published metadata in a local   *)
(* directory: the runs of `firmirror refresh', one at a time, retrieve the *)
(* entries that are not published (Downloads), write their packages, then  *)
(* the JCAT, then the metadata (Files).  A run can be cancelled or killed, *)
(* and the machine can fail, at any point.                                 *)
(*                                                                         *)
(* The metadata is the set of packages it names.  What decides what a run  *)
(* publishes, and whether, is the module Publish.                          *)
(***************************************************************************)
EXTENDS Downloads, Files

CONSTANTS
  Main,           \* the goroutine that publishes, a writer as the entries are
  Cabinet,        \* the content of a package, which its key tells
  metadata, jcat, \* the keys of the metadata and of its JCAT
  MaxFaults       \* bound on the writes that fail, the cancellations and the crashes

Package == Entries \X Content

Document == [packages : SUBSET Package]

ASSUME DeliveryAssumption ==
  /\ Keys = Package \cup {metadata, jcat}
  /\ Values = Document \cup {Cabinet}
  /\ Writers = Entries \cup {Main}
  /\ Main \notin Entries
  /\ metadata \notin Package /\ jcat \notin Package /\ metadata # jcat
  /\ MaxFaults \in Nat

VARIABLES
  run,     \* where the run under way is: "off", "mirroring", "jcat" or "metadata"
  vendor,  \* the vendor it processes, "none" between two
  seen,    \* the vendors it has begun with
  stored,  \* the packages of the document it loaded
  new,     \* the packages it has mirrored: newComponents
  faults,
  forgotten, \* the syncs of the directory that failed
  unchecked  \* the entries whose package was stored unchecked

runVars == <<run, vendor, seen, stored, new>>
history == <<faults, forgotten, unchecked>>
vars == <<downloadVars, fileVars, runVars, history>>

Vendors == {"hpe", "dell"}

\* The entries of a vendor's catalog.
Of(v) == {e \in (IF v = "hpe" THEN HPE ELSE Dell) : offer[e] # "unlisted"}

Published(file) == IF file = Absent THEN {} ELSE file.value.packages

Mirrored == {p[1] : p \in stored}

PackageOf(e) == <<e, download[e]>>

NewDocument == [packages |-> stored \cup new]

Fault == faults < MaxFaults /\ faults' = faults + 1

NoFault == UNCHANGED history

(***************************************************************************)
(* A run: LoadMetadata, ProcessVendor for each vendor, SaveMetadata.       *)
(***************************************************************************)
Start ==
  /\ run = "off"
  /\ run' = "mirroring"
  /\ vendor' = "none" /\ seen' = {}
  /\ stored' = Published(names[metadata])
  /\ new' = {}
  /\ Anew
  /\ NoFault
  /\ UNCHANGED fileVars

\* Its catalog is fetched, or cannot be.
BeginVendor(v) ==
  /\ run = "mirroring" /\ vendor = "none" /\ ~cancelled
  /\ v \notin seen
  /\ seen' = seen \cup {v}
  /\ vendor' \in {v, "none"}
  /\ NoFault
  /\ UNCHANGED <<downloadVars, fileVars, run, stored, new>>

Begin(e) ==
  /\ vendor # "none" /\ e \in Of(vendor) \ Mirrored
  /\ ~cancelled
  /\ Retrieve(e)
  /\ NoFault
  /\ UNCHANGED <<fileVars, runVars>>

Retrieves(e) ==
  /\ vendor # "none"
  /\ write[e] = Idle
  /\ RetrievalStep(e)
  /\ NoFault
  /\ UNCHANGED <<fileVars, runVars>>

StorePackage(e) ==
  /\ In(e, "ready")
  /\ BeginWrite(e, PackageOf(e), Cabinet)
  /\ unchecked' = IF CheckOf(e) = "digest" THEN unchecked ELSE unchecked \cup {e}
  /\ UNCHANGED <<downloadVars, runVars, faults, forgotten>>

\* Slip: the package counts as mirrored though it could not be stored.
KeepAnyway(e) ==
  /\ EndWrite(e)
  /\ new' = new \cup {PackageOf(e)}
  /\ Over(e)
  /\ NoFault
  /\ UNCHANGED <<offer, cancelled, run, vendor, seen, stored>>

Keep(e) ==
  /\ EndWrite(e)
  /\ new' = IF At(e, "ok") THEN new \cup {PackageOf(e)} ELSE new
  /\ Over(e)
  /\ NoFault
  /\ UNCHANGED <<offer, cancelled, run, vendor, seen, stored>>

EndVendor ==
  /\ vendor # "none"
  /\ \A e \in Of(vendor) \ Mirrored : In(e, "done") \/ (cancelled /\ In(e, "none"))
  /\ vendor' = "none"
  /\ NoFault
  /\ UNCHANGED <<downloadVars, fileVars, run, seen, stored, new>>

\* A run that is cancelled publishes too.  Without anything new the document is the
\* stored one, and nothing is written.
PublishBegins ==
  /\ run = "mirroring" /\ vendor = "none"
  /\ seen = Vendors \/ cancelled
  /\ IF new = {}
     THEN run' = "off" /\ UNCHANGED fileVars
     ELSE run' = "jcat" /\ BeginWrite(Main, jcat, NewDocument)
  /\ NoFault
  /\ UNCHANGED <<downloadVars, vendor, seen, stored, new>>

JCATEnds ==
  /\ run = "jcat"
  /\ run' = IF At(Main, "ok") THEN "commit" ELSE "off"
  /\ EndWrite(Main)
  /\ NoFault
  /\ UNCHANGED <<downloadVars, vendor, seen, stored, new>>

\* The metadata is the commit point.
Commit ==
  /\ run = "commit"
  /\ run' = "metadata"
  /\ BeginWrite(Main, metadata, NewDocument)
  /\ NoFault
  /\ UNCHANGED <<downloadVars, vendor, seen, stored, new>>

MetadataEnds ==
  /\ run = "metadata"
  /\ run' = "off"
  /\ EndWrite(Main)
  /\ NoFault
  /\ UNCHANGED <<downloadVars, vendor, seen, stored, new>>

Writes(w) ==
  /\ \/ WriteStep(w) /\ NoFault
     \/ WriteFails(w) /\ Fault /\ UNCHANGED <<forgotten, unchecked>>
     \/ /\ SyncDirectoryFails(w)
        /\ Fault /\ forgotten' = forgotten + 1 /\ UNCHANGED unchecked
  /\ UNCHANGED <<downloadVars, runVars>>

\* The first signal.
Interrupt ==
  /\ run = "mirroring"
  /\ Cancel
  /\ Fault
  /\ UNCHANGED <<fileVars, runVars, forgotten, unchecked>>

\* The process is gone with all it had in hand: the next run starts anew.
Gone ==
  /\ run' = "off" /\ vendor' = "none" /\ seen' = {}
  /\ stored' = {} /\ new' = {}
  /\ Anew

\* A panic in the goroutine of an entry ends the process.
Panic ==
  /\ vendor # "none"
  /\ \E e \in Entries : Panics(e)
  /\ KillWriters
  /\ Gone
  /\ NoFault

\* The process is killed, or the machine fails.
Crash ==
  /\ run # "off"
  /\ Fault
  /\ KillWriters \/ PowerFailure
  /\ Gone
  /\ UNCHANGED <<forgotten, unchecked>>

Init ==
  /\ DownloadsInit
  /\ names = [k \in Keys |-> Absent]
  /\ onDisk = [k \in Keys |-> {Absent}]
  /\ temp = [w \in Writers |-> Absent]
  /\ write = [w \in Writers |-> Idle]
  /\ run = "off" /\ vendor = "none" /\ seen = {}
  /\ stored = {} /\ new = {}
  /\ faults = 0 /\ forgotten = 0 /\ unchecked = {}

RunStep ==
  \/ \E v \in Vendors : BeginVendor(v)
  \/ \E e \in Entries : Begin(e) \/ Retrieves(e) \/ StorePackage(e) \/ Keep(e)
  \/ EndVendor
  \/ Panic
  \/ PublishBegins \/ JCATEnds \/ Commit \/ MetadataEnds
  \/ \E w \in Writers : Writes(w)

Next == Start \/ RunStep \/ Interrupt \/ Crash

Spec == Init /\ [][Next]_vars

(***************************************************************************)
(* Every step of a run is taken in the end: a request has its timeouts     *)
(* (ResponseHeaderTimeout, the client's Timeout), and reading and writing  *)
(* a file end.  Nothing says that another run starts.                      *)
(***************************************************************************)
FairSpec == Spec /\ WF_vars(RunStep)

-----------------------------------------------------------------------------
(***************************************************************************)
(* Type invariant.                                                         *)
(***************************************************************************)
TypeOK ==
  /\ DownloadsTypeOK
  /\ FilesTypeOK
  /\ run \in {"off", "mirroring", "jcat", "commit", "metadata"}
  /\ vendor \in Vendors \cup {"none"}
  /\ seen \subseteq Vendors
  /\ stored \subseteq Package /\ new \subseteq Package
  /\ faults \in 0 .. MaxFaults /\ forgotten \in 0 .. faults
  /\ unchecked \subseteq Entries

(***************************************************************************)
(* Whatever metadata is published, or can be left by a power failure, all  *)
(* its packages are there, and would be left too: even if one sync of the  *)
(* directory failed, which WriteFileAtomic says nothing of (buildPackage   *)
(* before writeMetadata, the JCAT before the metadata).                    *)
(***************************************************************************)
PackagesOutliveFailures ==
  forgotten < 2 =>
    \A file \in onDisk[metadata] \cup {names[metadata]} :
      \A p \in Published(file) : names[p] # Absent /\ Absent \notin onDisk[p]

(***************************************************************************)
(* A download that is not the firmware is published only if nothing could  *)
(* tell when it was stored: the vendor has no digest of it, or HPE's       *)
(* sidecar was not obtained, whatever run published it (verifyDownload of  *)
(* both vendors).                                                          *)
(***************************************************************************)
PublishesWhatWasChecked ==
  \A p \in Published(names[metadata]) :
    /\ p[2] # "good" => p[1] \in unchecked
    /\ p[2] = "short" => offer[p[1]] # "size"

(***************************************************************************)
(* A run ends, whatever the vendors answer and whatever fails.             *)
(***************************************************************************)
RunEnds == run = "mirroring" ~> run = "off"
=============================================================================
