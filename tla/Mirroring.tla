------------------------------ MODULE Mirroring ------------------------------
(***************************************************************************)
(* What ProcessVendor gives the publish that follows it, as Publish takes  *)
(* it: entries of the catalog are mirrored or fail in any order, an entry  *)
(* is mirrored only once its package is stored, an interrupt leaves the    *)
(* rest for the next run, and once there is a verdict nothing is mirrored  *)
(* or stored any more.  Workers implements it.                             *)
(***************************************************************************)
CONSTANT Entry   \* the entries of the catalog

VARIABLES
  todo,         \* entries not in the stored document, to be mirrored yet
  stored,       \* those whose package is stored
  mirrored,     \* those whose components are kept for the document
  failed,       \* those given up
  interrupted,  \* whether a signal ended the context
  verdict       \* what ProcessVendor returned: "none" yet, "ok" or "failed"

mirroringVars == <<todo, stored, mirrored, failed, interrupted, verdict>>

Init ==
  /\ todo \in SUBSET Entry
  /\ stored = {} /\ mirrored = {} /\ failed = {}
  /\ interrupted = FALSE
  /\ verdict = "none"

\* A package is that of several entries if it was built from the same files.
Store(entries) ==
  /\ verdict = "none"
  /\ stored' = stored \cup entries
  /\ UNCHANGED <<todo, mirrored, failed, interrupted, verdict>>

Mirror(e) ==
  /\ verdict = "none"
  /\ e \in todo \cap stored
  /\ todo' = todo \ {e}
  /\ mirrored' = mirrored \cup {e}
  /\ UNCHANGED <<stored, failed, interrupted, verdict>>

\* It may have stored its package before it failed.
MirrorFails(e) ==
  /\ verdict = "none"
  /\ e \in todo
  /\ todo' = todo \ {e}
  /\ failed' = failed \cup {e}
  /\ UNCHANGED <<stored, mirrored, interrupted, verdict>>

Interrupt ==
  /\ interrupted' = TRUE
  /\ UNCHANGED <<todo, stored, mirrored, failed, verdict>>

\* It fails when all it tried did.
Return ==
  /\ verdict = "none"
  /\ interrupted \/ todo = {}
  /\ todo' = {}
  /\ verdict' = IF mirrored = {} /\ failed # {} THEN "failed" ELSE "ok"
  /\ UNCHANGED <<stored, mirrored, failed, interrupted>>

Next ==
  \/ \E entries \in SUBSET Entry : Store(entries)
  \/ \E e \in Entry : Mirror(e) \/ MirrorFails(e)
  \/ Interrupt
  \/ Return

Spec == Init /\ [][Next]_mirroringVars
=============================================================================
