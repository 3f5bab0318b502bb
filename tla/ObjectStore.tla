------------------------------ MODULE ObjectStore ------------------------------
(***************************************************************************)
(* What the publisher relies on of Storage.Write, whatever the backend:    *)
(* a write puts the whole object at once or, when it fails, nothing; once  *)
(* it has returned, a power failure does not undo it.  Until then one can, *)
(* and MayForget says whether it can later: LocalStorage takes no notice   *)
(* when the directory cannot be synced.                                    *)
(***************************************************************************)
EXTENDS Naturals

CONSTANTS Keys, Values, Writers, Absent, Idle, MayForget

VARIABLES
  objects,  \* what each key holds, as everyone reads it
  lasting,  \* what a power failure can leave of each
  calls     \* the call to Write each writer is in

vars == <<objects, lasting, calls>>

Call == [key : Keys, value : Values, state : {"begun", "put", "done", "refused"}]

To(w, state) == calls' = [calls EXCEPT ![w].state = state]

Init ==
  /\ objects \in [Keys -> Values \cup {Absent}]
  /\ lasting = [k \in Keys |-> {objects[k]}]
  /\ calls = [w \in Writers |-> Idle]

Begin(w) ==
  /\ calls[w] = Idle
  /\ calls'[w] \in Call /\ calls'[w].state = "begun"
  /\ calls' = [calls EXCEPT ![w] = calls'[w]]
  /\ UNCHANGED <<objects, lasting>>

Put(w) ==
  /\ calls[w] # Idle /\ calls[w].state = "begun"
  /\ objects' = [objects EXCEPT ![calls[w].key] = calls[w].value]
  /\ lasting' = [lasting EXCEPT ![calls[w].key] = @ \cup {calls[w].value}]
  /\ To(w, "put")

Done(w) ==
  /\ calls[w] # Idle /\ calls[w].state = "put"
  /\ \/ lasting' = [k \in Keys |-> {objects[k]}]
     \/ MayForget /\ UNCHANGED lasting
  /\ To(w, "done")
  /\ UNCHANGED objects

Refuse(w) ==
  /\ calls[w] # Idle /\ calls[w].state = "begun"
  /\ To(w, "refused")
  /\ UNCHANGED <<objects, lasting>>

End(w) ==
  /\ calls[w] # Idle /\ calls[w].state \in {"done", "refused"}
  /\ calls' = [calls EXCEPT ![w] = Idle]
  /\ UNCHANGED <<objects, lasting>>

\* The process is killed: what was put stays.
Kill ==
  /\ calls' = [w \in Writers |-> Idle]
  /\ UNCHANGED <<objects, lasting>>

PowerFailure ==
  /\ objects' \in [Keys -> Values \cup {Absent}]
  /\ \A k \in Keys : objects'[k] \in lasting[k]
  /\ lasting' = [k \in Keys |-> {objects'[k]}]
  /\ calls' = [w \in Writers |-> Idle]

Next ==
  \/ \E w \in Writers : Begin(w) \/ Put(w) \/ Done(w) \/ Refuse(w) \/ End(w)
  \/ Kill
  \/ PowerFailure

Spec == Init /\ [][Next]_vars
=============================================================================
