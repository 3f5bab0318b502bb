------------------------------- MODULE Downloads -------------------------------
(***************************************************************************)
(* How the vendors retrieve the firmware of an entry into its work         *)
(* directory: for HPE the sidecar JSON first, when there is one, then for  *)
(* both the file, which is checked against what the sidecar or the catalog *)
(* says of it, and the conversion of the entry.  Each request is tried     *)
(* again as httpGet does.                                                  *)
(***************************************************************************)
EXTENDS Naturals

CONSTANTS
  HPE, Dell,       \* the entries of the two vendors
  Offers,          \* what the vendors can publish of an entry
  DownloadRetries, \* maxRetries
  Nothing

Entries == HPE \cup Dell

\* What a download can give: the firmware, another content of the same size, or
\* part of the firmware, as of a copy still being made at the source.
Content == {"good", "altered", "short"}

\* What there is to check a download against; of a sidecar, it may also be that
\* it names no device, that it is no JSON, or that there is none; and of an entry,
\* that the vendor does not list it.
Checks == {"digest", "size", "none", "deviceless", "broken", "missing", "unlisted"}

ASSUME DownloadsAssumption ==
  /\ Offers \subseteq [Entries -> Checks]
  /\ \A o \in Offers :
       /\ \A e \in HPE : o[e] # "size"
       /\ \A e \in Dell : o[e] \notin {"deviceless", "broken", "missing"}
  /\ HPE \cap Dell = {}
  /\ DownloadRetries \in Nat
  /\ Nothing \notin Content \cup Checks

VARIABLES
  offer,     \* what the vendors publish
  fetch,     \* where the work on each entry is, and how often its request was retried
  payload,   \* PayloadJSON: what the sidecar in hand gives
  download,  \* the file in the work directory of each entry
  cancelled  \* the context is done

downloadVars == <<offer, fetch, payload, download, cancelled>>

Requesting == {"sidecar", "file"}

Retrieving == Requesting \cup {"sidecarBody", "create", "fileBody", "verify", "convert"}

Fetch == [at : Retrieving \cup {"none", "ready", "done"}, retries : 0 .. DownloadRetries]

In(e, at) == fetch[e].at = at

GoOn(e, at) == fetch' = [fetch EXCEPT ![e] = [at |-> at, retries |-> 0]]

\* The work on an entry is over: it and its work directory are gone.
Over(e) ==
  /\ GoOn(e, "done")
  /\ payload' = [payload EXCEPT ![e] = Nothing]
  /\ download' = [download EXCEPT ![e] = Nothing]

(***************************************************************************)
(* httpGet: a request is tried again after a network error, a 5xx or a     *)
(* 429, until the retries are used up or the context is done.              *)
(***************************************************************************)
\* Slip: one retry too many.
TryAgainOnceMore(e) ==
  /\ fetch[e].at \in Requesting /\ ~cancelled
  /\ fetch[e].retries <= DownloadRetries
  /\ fetch' = [fetch EXCEPT ![e].retries = @ + 1]
  /\ UNCHANGED <<offer, payload, download, cancelled>>

\* Slip: the last attempt is followed by another too.
TryAgainForever(e) ==
  /\ fetch[e].at \in Requesting /\ ~cancelled
  /\ fetch' = [fetch EXCEPT ![e].retries = IF @ < DownloadRetries THEN @ + 1 ELSE 0]
  /\ UNCHANGED <<offer, payload, download, cancelled>>

TryAgain(e) ==
  /\ fetch[e].at \in Requesting /\ ~cancelled
  /\ fetch[e].retries < DownloadRetries
  /\ fetch' = [fetch EXCEPT ![e].retries = @ + 1]
  /\ UNCHANGED <<offer, payload, download, cancelled>>

\* The last attempt fails, the status is one that is not tried again, or the
\* context is done, before an attempt or while waiting for the next.  HPE takes any
\* failure to get the sidecar for there being none.
GiveUp(e) ==
  /\ \/ In(e, "sidecar") /\ GoOn(e, "create") /\ UNCHANGED <<payload, download>>
     \/ In(e, "file") /\ Over(e)
  /\ UNCHANGED <<offer, cancelled>>

Answered(e) ==
  /\ fetch[e].at \in Requesting
  /\ In(e, "sidecar") => offer[e] # "missing"
  /\ GoOn(e, IF In(e, "sidecar") THEN "sidecarBody" ELSE "fileBody")
  /\ UNCHANGED <<offer, payload, download, cancelled>>

(***************************************************************************)
(* RetrieveFirmware and ToAppstream.                                       *)
(***************************************************************************)
Retrieve(e) ==
  /\ In(e, "none")
  /\ GoOn(e, IF e \in HPE THEN "sidecar" ELSE "create")
  /\ UNCHANGED <<offer, payload, download, cancelled>>

\* The body may end early, which is an error: the sidecar is then done without.
ReadSidecar(e) ==
  /\ In(e, "sidecarBody")
  /\ payload' = [payload EXCEPT ![e] = offer[e]] \/ UNCHANGED payload
  /\ GoOn(e, "create")
  /\ UNCHANGED <<offer, download, cancelled>>

\* The file is created before its source is asked for.
CreateFile(e) ==
  /\ In(e, "create")
  /\ download' = [download EXCEPT ![e] = "short"]
  /\ GoOn(e, "file")
  /\ UNCHANGED <<offer, payload, cancelled>>

CopyBody(e, content) ==
  /\ In(e, "fileBody")
  /\ download' = [download EXCEPT ![e] = content]
  /\ GoOn(e, "verify")
  /\ UNCHANGED <<offer, payload, cancelled>>

\* What the vendor's verifyDownload has to check the file against.
CheckOf(e) == IF e \in HPE THEN payload[e] ELSE offer[e]

\* Slip: the size is enough when there is one.
VerifiedBySize(e) ==
  CASE CheckOf(e) \in {"digest", "size"} -> download[e] # "short"
    [] OTHER -> TRUE

Verified(e) ==
  CASE CheckOf(e) = "digest" -> download[e] = "good"
    [] CheckOf(e) = "size" -> download[e] # "short"
    [] OTHER -> TRUE

Verify(e) ==
  /\ In(e, "verify")
  /\ IF Verified(e)
     THEN GoOn(e, "convert") /\ UNCHANGED <<payload, download>>
     ELSE Over(e)
  /\ UNCHANGED <<offer, cancelled>>

\* HPE describes the firmware by the sidecar, whatever it is, or else by what the
\* package, a zip with its directory at the end, has in it.
Convert(e) ==
  /\ In(e, "convert")
  /\ payload[e] \notin {"deviceless", "broken"}
  /\ e \in HPE /\ payload[e] = Nothing => download[e] # "short"
  /\ GoOn(e, "ready")
  /\ UNCHANGED <<offer, payload, download, cancelled>>

\* buildAppStream takes the version from the first device, and nothing recovers.
Panics(e) == In(e, "convert") /\ payload[e] = "deviceless"

\* Any of it, or packaging the file, fails.
RetrievalFails(e) ==
  /\ fetch[e].at \in {"create", "fileBody", "verify", "convert", "ready"}
  /\ Over(e)
  /\ UNCHANGED <<offer, cancelled>>

Cancel ==
  /\ ~cancelled
  /\ cancelled' = TRUE
  /\ UNCHANGED <<offer, fetch, payload, download>>

RetrievalStep(e) ==
  \/ TryAgain(e) \/ GiveUp(e) \/ Answered(e) \/ ReadSidecar(e) \/ CreateFile(e)
  \/ \E content \in Content : CopyBody(e, content)
  \/ Verify(e) \/ Convert(e) \/ RetrievalFails(e)

NotBegun == [e \in Entries |-> [at |-> "none", retries |-> 0]]

NothingYet == [e \in Entries |-> Nothing]

DownloadsInit ==
  /\ offer \in Offers
  /\ fetch = NotBegun
  /\ payload = NothingYet /\ download = NothingYet
  /\ cancelled = FALSE

\* Another run begins, with entries of its own and empty work directories.
Anew ==
  /\ fetch' = NotBegun
  /\ payload' = NothingYet /\ download' = NothingYet
  /\ cancelled' = FALSE
  /\ UNCHANGED offer

-----------------------------------------------------------------------------
(***************************************************************************)
(* Type invariant.                                                         *)
(***************************************************************************)
DownloadsTypeOK ==
  /\ offer \in Offers
  /\ fetch \in [Entries -> Fetch]
  /\ payload \in [Entries -> Checks \cup {Nothing}]
  /\ download \in [Entries -> Content \cup {Nothing}]
  /\ cancelled \in BOOLEAN
=============================================================================
