-------------------------------- MODULE Files --------------------------------
(***************************************************************************)
(* LocalStorage.Write on a directory: WriteFileAtomic makes a temporary    *)
(* file, syncs it, makes it readable, renames it over the object and syncs *)
(* the directory, while other goroutines do the same.                      *)
(*                                                                         *)
(* A power failure takes what was not synced: of a file its data, and of   *)
(* the directory any of the renames since it was last synced.  A change of *)
(* mode is assumed to reach the disk no later than a rename after it.      *)
(***************************************************************************)
EXTENDS Naturals, FiniteSets

CONSTANTS
  Keys,       \* the keys of the storage, all in one directory
  Values,     \* what the objects can hold
  Writers,    \* the goroutines that write
  MayForget,  \* whether syncing the directory can fail, of which nobody is told
  Absent, Idle, Garbage

ASSUME FilesAssumption ==
  /\ Absent \notin Values
  /\ Garbage \notin Values \cup {Absent}
  /\ MayForget \in BOOLEAN

File == [value : Values, data : {"part", "whole"}, synced : BOOLEAN,
         mode : {"private", "readable"}]

Steps == {"create", "copy", "sync", "chmod", "rename", "syncdir"}

Write == [key : Keys, value : Values, at : Steps \cup {"ok", "failed"}]

\* A call of Storage.Write, to the one who makes it.
Call == [key : Keys, value : Values, state : {"begun", "put", "done", "refused"}]

ASSUME NoneAssumption ==
  /\ Absent \notin File
  /\ Idle \notin Write \cup Call

VARIABLES
  names,   \* the file each key names
  onDisk,  \* the files each key can name after a power failure
  temp,    \* the temporary file of each writer
  write    \* where each writer is in WriteFileAtomic

fileVars == <<names, onDisk, temp, write>>

At(w, step) == write[w] # Idle /\ write[w].at = step

Step(w, step) == write' = [write EXCEPT ![w].at = step]

Temp(w, file) == temp' = [temp EXCEPT ![w] = file]

(***************************************************************************)
(* The steps of WriteFileAtomic.                                           *)
(***************************************************************************)
BeginWrite(w, k, v) ==
  /\ write[w] = Idle
  /\ write' = [write EXCEPT ![w] = [key |-> k, value |-> v, at |-> "create"]]
  /\ UNCHANGED <<names, onDisk, temp>>

CreateTemp(w) ==
  /\ At(w, "create")
  /\ Temp(w, [value |-> write[w].value, data |-> "part", synced |-> FALSE, mode |-> "private"])
  /\ Step(w, "copy")
  /\ UNCHANGED <<names, onDisk>>

\* Slip: the data is left to be written back later.
CopyAndGoOn(w) ==
  /\ At(w, "copy")
  /\ Temp(w, [temp[w] EXCEPT !.data = "whole"])
  /\ Step(w, "chmod")
  /\ UNCHANGED <<names, onDisk>>

Copy(w) ==
  /\ At(w, "copy")
  /\ Temp(w, [temp[w] EXCEPT !.data = "whole"])
  /\ Step(w, "sync")
  /\ UNCHANGED <<names, onDisk>>

SyncFile(w) ==
  /\ At(w, "sync")
  /\ Temp(w, [temp[w] EXCEPT !.synced = TRUE])
  /\ Step(w, "chmod")
  /\ UNCHANGED <<names, onDisk>>

\* It is closed too.
Chmod(w) ==
  /\ At(w, "chmod")
  /\ Temp(w, [temp[w] EXCEPT !.mode = "readable"])
  /\ Step(w, "rename")
  /\ UNCHANGED <<names, onDisk>>

\* Slip: the old file is removed first, as renames on some systems need.
RenameAfterRemoving(w) ==
  LET k == write[w].key
  IN /\ At(w, "rename")
     /\ \/ /\ names[k] # Absent
           /\ names' = [names EXCEPT ![k] = Absent]
           /\ onDisk' = [onDisk EXCEPT ![k] = @ \cup {Absent}]
           /\ UNCHANGED <<temp, write>>
        \/ /\ names[k] = Absent
           /\ names' = [names EXCEPT ![k] = temp[w]]
           /\ onDisk' = [onDisk EXCEPT ![k] = @ \cup {temp[w]}]
           /\ Temp(w, Absent)
           /\ Step(w, "syncdir")

Rename(w) ==
  LET k == write[w].key
  IN /\ At(w, "rename")
     /\ names' = [names EXCEPT ![k] = temp[w]]
     /\ onDisk' = [onDisk EXCEPT ![k] = @ \cup {temp[w]}]
     /\ Temp(w, Absent)
     /\ Step(w, "syncdir")

SyncDirectory(w) ==
  /\ At(w, "syncdir")
  /\ onDisk' = [k \in Keys |-> {names[k]}]
  /\ Step(w, "ok")
  /\ UNCHANGED <<names, temp>>

\* Its error is not looked at.
SyncDirectoryFails(w) ==
  /\ MayForget
  /\ At(w, "syncdir")
  /\ Step(w, "ok")
  /\ UNCHANGED <<names, onDisk, temp>>

\* Any step before the rename, or the rename, fails: the temporary file is removed.
WriteFails(w) ==
  /\ write[w] # Idle /\ write[w].at \in Steps \ {"syncdir"}
  /\ Temp(w, Absent)
  /\ Step(w, "failed")
  /\ UNCHANGED <<names, onDisk>>

EndWrite(w) ==
  /\ At(w, "ok") \/ At(w, "failed")
  /\ write' = [write EXCEPT ![w] = Idle]
  /\ UNCHANGED <<names, onDisk, temp>>

(***************************************************************************)
(* The end of the process, or of the machine.                              *)
(***************************************************************************)
\* What is left of a file.
Left(file) ==
  IF file = Absent \/ file.synced THEN {file}
  ELSE {file, [file EXCEPT !.data = "part"]}

KillAll ==
  /\ temp' = [w \in Writers |-> Absent]
  /\ write' = [w \in Writers |-> Idle]

KillWriters == KillAll /\ UNCHANGED <<names, onDisk>>

LeftOf(k) == UNION {Left(f) : f \in onDisk[k]}

Unsettled == {k \in Keys : LeftOf(k) # {names[k]}}

PowerFailure ==
  /\ \E left \in [Unsettled -> UNION {LeftOf(k) : k \in Unsettled}] :
       /\ \A k \in Unsettled : left[k] \in LeftOf(k)
       /\ names' = [k \in Keys |-> IF k \in Unsettled THEN left[k] ELSE names[k]]
  /\ onDisk' = [k \in Keys |-> {names'[k]}]
  /\ KillAll

Sound(file) ==
  file \in File /\ file.data = "whole" /\ file.synced /\ file.mode = "readable"

FilesInit ==
  /\ names \in [Keys -> {f \in File : Sound(f)} \cup {Absent}]
  /\ onDisk = [k \in Keys |-> {names[k]}]
  /\ temp = [w \in Writers |-> Absent]
  /\ write = [w \in Writers |-> Idle]

WriteStep(w) ==
  CreateTemp(w) \/ Copy(w) \/ SyncFile(w) \/ Chmod(w) \/ Rename(w) \/ SyncDirectory(w)

WriteFault(w) == WriteFails(w) \/ SyncDirectoryFails(w)

FilesNext ==
  \/ \E w \in Writers, k \in Keys, v \in Values : BeginWrite(w, k, v)
  \/ \E w \in Writers : WriteStep(w) \/ WriteFault(w) \/ EndWrite(w)
  \/ KillWriters
  \/ PowerFailure

FilesSpec == FilesInit /\ [][FilesNext]_fileVars

-----------------------------------------------------------------------------
(***************************************************************************)
(* Type invariant.                                                         *)
(***************************************************************************)
FilesTypeOK ==
  /\ names \in [Keys -> File \cup {Absent}]
  /\ onDisk \in [Keys -> SUBSET (File \cup {Absent})]
  /\ temp \in [Writers -> File \cup {Absent}]
  /\ write \in [Writers -> Write \cup {Idle}]

(***************************************************************************)
(* What anyone reads is a whole object that whatever serves the directory  *)
(* can read, and so is what a power failure can leave, "the old or the new *)
(* file, never an empty one" (WriteFileAtomic, LocalStorage.Write).        *)
(***************************************************************************)
NeverHalfAnObject ==
  \A k \in Keys :
    /\ names[k] = Absent \/ Sound(names[k])
    /\ \A f \in onDisk[k] : f = Absent \/ Sound(f)

\* What a file is to the one who reads it.
Object(file) ==
  IF file = Absent THEN Absent
  ELSE IF file.data = "whole" /\ file.mode = "readable" THEN file.value
  ELSE Garbage

Objects == [k \in Keys |-> Object(names[k])]

Lasting == [k \in Keys |-> {Object(f) : f \in LeftOf(k)}]

\* Where a writer is, to the one who called it.
CallState(at) ==
  CASE at \in Steps \ {"syncdir"} -> "begun"
    [] at = "syncdir" -> "put"
    [] at = "ok" -> "done"
    [] at = "failed" -> "refused"

Calls ==
  [w \in Writers |->
     IF write[w] = Idle THEN Idle
     ELSE [key |-> write[w].key, value |-> write[w].value, state |-> CallState(write[w].at)]]

Promised == INSTANCE ObjectStore WITH objects <- Objects, lasting <- Lasting, calls <- Calls

(***************************************************************************)
(* A write puts the whole object or nothing, at once for every reader; the *)
(* one that returned is not undone by a power failure, and the one that    *)
(* failed changed nothing (Storage.Write, LocalStorage.Write).             *)
(***************************************************************************)
KeepsPromise == Promised!Spec
=============================================================================
