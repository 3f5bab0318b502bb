------------------------------- MODULE Mirror -------------------------------
(***************************************************************************)
(* What the store of firmirror promises its clients, with the runs left    *)
(* out: a client downloads the metadata, verifies it with the JCAT beside  *)
(* it and downloads the packages it names.  Publish implements it when     *)
(* runs do not overlap.                                                    *)
(***************************************************************************)
CONSTANTS
  Package,      \* packages that can be stored
  Document,     \* documents that can be published
  NoDocument    \* no metadata is stored

VARIABLES
  metadata,   \* the published document
  announced,  \* the document whose checksum the JCAT holds
  packages    \* the stored packages

FirmwareIn(doc) == {p.firmware : p \in doc.packages}

mirrorVars == <<metadata, announced, packages>>

Init ==
  /\ metadata \in Document \cup {NoDocument}
  /\ announced \in {metadata, NoDocument}
  /\ packages = IF metadata = NoDocument THEN {} ELSE metadata.packages

Upload(p) ==
  /\ packages' = packages \cup {p}
  /\ UNCHANGED <<metadata, announced>>

\* Only packages no client can be sent to are removed.
Reclaim(p) ==
  /\ metadata # NoDocument => p \notin metadata.packages
  /\ packages' = packages \ {p}
  /\ UNCHANGED <<metadata, announced>>

\* A document is announced once everything it names is stored.
Announce(doc) ==
  /\ doc.packages \subseteq packages
  /\ announced' = doc
  /\ UNCHANGED <<metadata, packages>>

\* Only the announced document is published, and it loses no firmware.
Commit(doc) ==
  /\ doc = announced
  /\ doc.packages \subseteq packages
  /\ metadata # NoDocument /\ metadata.schema = doc.schema
       => FirmwareIn(metadata) \subseteq FirmwareIn(doc)
  /\ metadata' = doc
  /\ UNCHANGED <<announced, packages>>

Lose ==
  /\ metadata' = NoDocument
  /\ UNCHANGED <<announced, packages>>

Next ==
  \/ \E p \in Package : Upload(p) \/ Reclaim(p)
  \/ \E doc \in Document : Announce(doc) \/ Commit(doc)
  \/ Lose

Spec == Init /\ [][Next]_mirrorVars
=============================================================================
