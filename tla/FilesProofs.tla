----------------------------- MODULE FilesProofs -----------------------------
(***************************************************************************)
(* Whatever goroutines write through WriteFileAtomic, and however many, no *)
(* one ever finds half an object, and the files keep the promise of        *)
(* ObjectStore.                                                            *)
(*                                                                         *)
(* NeverHalfAnObject is not inductive: that a rename puts a sound file in  *)
(* place rests on what the steps before it did to the temporary file.      *)
(***************************************************************************)
EXTENDS Files, TLAPS

\* What the steps of a write have made of its temporary file.
TempReady(w) ==
  /\ write[w].at \in {"copy", "sync", "chmod", "rename"} =>
       temp[w] \in File /\ temp[w].value = write[w].value
  /\ write[w].at \in {"sync", "chmod", "rename"} => temp[w].data = "whole"
  /\ write[w].at \in {"chmod", "rename"} => temp[w].synced
  /\ write[w].at = "rename" => temp[w].mode = "readable"

FilesInv ==
  /\ FilesTypeOK
  /\ NeverHalfAnObject
  /\ \A k \in Keys : names[k] \in onDisk[k]
  /\ \A w \in Writers : write[w] # Idle => TempReady(w)

(***************************************************************************)
(* What a power failure leaves of an object is one of the files it can     *)
(* name, whole: each was synced before it was renamed.                     *)
(***************************************************************************)
LEMMA NothingIsCut ==
  ASSUME FilesInv, NEW k \in Keys
  PROVE  LeftOf(k) = onDisk[k]
<1>1. \A f \in onDisk[k] : f = Absent \/ f.synced
  BY DEF FilesInv, NeverHalfAnObject, Sound
<1>2. \A f \in onDisk[k] : Left(f) = {f}
  BY <1>1 DEF Left
<1> QED BY <1>2 DEF LeftOf

LEMMA SettledKeys ==
  ASSUME FilesInv, PowerFailure, NEW k \in Keys
  PROVE  names'[k] \in onDisk[k]
<1>1. PICK left \in [Unsettled -> UNION {LeftOf(j) : j \in Unsettled}] :
        /\ \A j \in Unsettled : left[j] \in LeftOf(j)
        /\ names' = [j \in Keys |-> IF j \in Unsettled THEN left[j] ELSE names[j]]
  BY DEF PowerFailure
<1>2. CASE k \in Unsettled
  BY <1>1, <1>2, NothingIsCut
<1>3. CASE k \notin Unsettled
  BY <1>1, <1>3 DEF FilesInv
<1> QED BY <1>2, <1>3

(***************************************************************************)
(* The invariant is inductive.                                             *)
(***************************************************************************)
LEMMA FilesInvInit == FilesInit => FilesInv
<1> SUFFICES ASSUME FilesInit PROVE FilesInv
  OBVIOUS
<1>1. \A k \in Keys : names[k] \in {f \in File : Sound(f)} \cup {Absent}
  BY DEF FilesInit
<1>2. FilesTypeOK
  BY <1>1 DEF FilesInit, FilesTypeOK
<1>3. NeverHalfAnObject
  BY <1>1 DEF FilesInit, NeverHalfAnObject
<1> QED BY <1>2, <1>3 DEF FilesInit, FilesInv

LEMMA StepKeepsInv ==
  ASSUME FilesInv, NEW w \in Writers, WriteStep(w)
  PROVE  FilesInv'
<1> USE DEF FilesInv, At, Step, Temp
<1>w. write[w] \in Write /\ write[w] # Idle
  BY DEF WriteStep, CreateTemp, Copy, SyncFile, Chmod, Rename, SyncDirectory, FilesTypeOK
<1>1. CASE CreateTemp(w)
  <2>1. temp' = [temp EXCEPT ![w] = temp'[w]] /\ temp'[w] \in File
        /\ temp'[w].value = write[w].value
    BY <1>1, <1>w DEF CreateTemp, FilesTypeOK, File, Write
  <2>2. write' = [write EXCEPT ![w] = write'[w]] /\ write'[w] \in Write
        /\ write'[w].at = "copy" /\ write'[w].value = write[w].value
    BY <1>1, <1>w DEF CreateTemp, FilesTypeOK, Write, Steps
  <2>3. UNCHANGED <<names, onDisk>>
    BY <1>1 DEF CreateTemp
  <2> QED BY <2>1, <2>2, <2>3 DEF FilesTypeOK, NeverHalfAnObject, TempReady
<1>2. CASE Copy(w)
  <2>1. temp' = [temp EXCEPT ![w] = temp'[w]] /\ temp'[w] \in File
        /\ temp'[w].value = write[w].value /\ temp'[w].data = "whole"
    BY <1>2, <1>w DEF Copy, FilesTypeOK, File, TempReady
  <2>2. write' = [write EXCEPT ![w] = write'[w]] /\ write'[w] \in Write
        /\ write'[w].at = "sync" /\ write'[w].value = write[w].value
    BY <1>2, <1>w DEF Copy, FilesTypeOK, Write, Steps
  <2>3. UNCHANGED <<names, onDisk>>
    BY <1>2 DEF Copy
  <2> QED BY <2>1, <2>2, <2>3 DEF FilesTypeOK, NeverHalfAnObject, TempReady
<1>3. CASE SyncFile(w)
  <2>1. temp' = [temp EXCEPT ![w] = temp'[w]] /\ temp'[w] \in File
        /\ temp'[w].value = write[w].value /\ temp'[w].data = "whole" /\ temp'[w].synced
    BY <1>3, <1>w DEF SyncFile, FilesTypeOK, File, TempReady
  <2>2. write' = [write EXCEPT ![w] = write'[w]] /\ write'[w] \in Write
        /\ write'[w].at = "chmod" /\ write'[w].value = write[w].value
    BY <1>3, <1>w DEF SyncFile, FilesTypeOK, Write, Steps
  <2>3. UNCHANGED <<names, onDisk>>
    BY <1>3 DEF SyncFile
  <2> QED BY <2>1, <2>2, <2>3 DEF FilesTypeOK, NeverHalfAnObject, TempReady
<1>4. CASE Chmod(w)
  <2>1. temp' = [temp EXCEPT ![w] = temp'[w]] /\ temp'[w] \in File
        /\ temp'[w].value = write[w].value /\ temp'[w].data = "whole" /\ temp'[w].synced
        /\ temp'[w].mode = "readable"
    BY <1>4, <1>w DEF Chmod, FilesTypeOK, File, TempReady
  <2>2. write' = [write EXCEPT ![w] = write'[w]] /\ write'[w] \in Write
        /\ write'[w].at = "rename" /\ write'[w].value = write[w].value
    BY <1>4, <1>w DEF Chmod, FilesTypeOK, Write, Steps
  <2>3. UNCHANGED <<names, onDisk>>
    BY <1>4 DEF Chmod
  <2> QED BY <2>1, <2>2, <2>3 DEF FilesTypeOK, NeverHalfAnObject, TempReady
<1>5. CASE Rename(w)
  <2> DEFINE k == write[w].key
  <2>1. k \in Keys
    BY <1>w DEF Write
  <2>2. Sound(temp[w])
    BY <1>5, <1>w DEF Rename, TempReady, Sound
  <2>3. /\ names' = [names EXCEPT ![k] = temp[w]]
        /\ onDisk' = [onDisk EXCEPT ![k] = @ \cup {temp[w]}]
        /\ temp' = [temp EXCEPT ![w] = Absent]
        /\ write' = [write EXCEPT ![w].at = "syncdir"]
    BY <1>5 DEF Rename
  <2>4. write' = [write EXCEPT ![w] = write'[w]] /\ write'[w] \in Write
        /\ write'[w].at = "syncdir"
    BY <2>3, <1>w DEF FilesTypeOK, Write, Steps
  <2>5. temp[w] \in File
    BY <2>2 DEF Sound
  <2>6. FilesTypeOK'
    BY <2>1, <2>3, <2>4, <2>5 DEF FilesTypeOK
  <2>7. NeverHalfAnObject'
    BY <2>1, <2>2, <2>3 DEF FilesTypeOK, NeverHalfAnObject, Sound
  <2>8. \A j \in Keys : names'[j] \in onDisk'[j]
    BY <2>1, <2>3 DEF FilesTypeOK
  <2>9. \A x \in Writers : write'[x] # Idle => TempReady(x)'
    BY <2>3, <2>4 DEF FilesTypeOK, TempReady
  <2> HIDE DEF k
  <2> QED BY <2>6, <2>7, <2>8, <2>9
<1>6. CASE SyncDirectory(w)
  <2>1. write' = [write EXCEPT ![w] = write'[w]] /\ write'[w] \in Write
        /\ write'[w].at = "ok"
    BY <1>6, <1>w DEF SyncDirectory, FilesTypeOK, Write, Steps
  <2>2. onDisk' = [j \in Keys |-> {names[j]}] /\ UNCHANGED <<names, temp>>
    BY <1>6 DEF SyncDirectory
  <2> QED BY <2>1, <2>2 DEF FilesTypeOK, NeverHalfAnObject, TempReady
<1> QED BY <1>1, <1>2, <1>3, <1>4, <1>5, <1>6 DEF WriteStep

LEMMA OthersKeepInv ==
  ASSUME FilesInv
  PROVE  /\ \A w \in Writers, k \in Keys, v \in Values : BeginWrite(w, k, v) => FilesInv'
         /\ \A w \in Writers : WriteFault(w) \/ EndWrite(w) => FilesInv'
         /\ KillWriters \/ PowerFailure => FilesInv'
<1> USE DEF FilesInv
<1>1. ASSUME NEW w \in Writers, NEW k \in Keys, NEW v \in Values, BeginWrite(w, k, v)
      PROVE  FilesInv'
  <2>1. write' = [write EXCEPT ![w] = write'[w]] /\ write'[w] \in Write
        /\ write'[w].at = "create"
    BY <1>1 DEF BeginWrite, FilesTypeOK, Write, Steps
  <2> QED BY <1>1, <2>1 DEF BeginWrite, FilesTypeOK, NeverHalfAnObject, TempReady
<1>2. ASSUME NEW w \in Writers, WriteFault(w)
      PROVE  FilesInv'
  <2>1. write[w] # Idle /\ write[w] \in Write
    BY <1>2 DEF WriteFault, WriteFails, SyncDirectoryFails, At, FilesTypeOK
  <2>2. /\ write' = [write EXCEPT ![w] = write'[w]]
        /\ write'[w] \in Write
        /\ write'[w].at \in {"ok", "failed"}
    BY <1>2, <2>1 DEF WriteFault, WriteFails, SyncDirectoryFails, Step, FilesTypeOK, Write, Steps
  <2>3. temp' = [temp EXCEPT ![w] = Absent] \/ UNCHANGED temp
    BY <1>2 DEF WriteFault, WriteFails, SyncDirectoryFails, Temp
  <2>4. UNCHANGED <<names, onDisk>>
    BY <1>2 DEF WriteFault, WriteFails, SyncDirectoryFails
  <2> QED BY <2>2, <2>3, <2>4 DEF FilesTypeOK, NeverHalfAnObject, TempReady
<1>3. ASSUME NEW w \in Writers, EndWrite(w)
      PROVE  FilesInv'
  BY <1>3 DEF EndWrite, FilesTypeOK, NeverHalfAnObject, TempReady
<1>4. ASSUME KillWriters
      PROVE  FilesInv'
  BY <1>4 DEF KillWriters, KillAll, FilesTypeOK, NeverHalfAnObject, TempReady
<1>5. ASSUME PowerFailure
      PROVE  FilesInv'
  <2>1. /\ names' = [k \in Keys |-> names'[k]]
        /\ onDisk' = [k \in Keys |-> {names'[k]}]
        /\ KillAll
    BY <1>5 DEF PowerFailure
  <2>2. \A k \in Keys : names'[k] \in onDisk[k]
    BY <1>5, SettledKeys
  <2> QED BY <2>1, <2>2 DEF KillAll, FilesTypeOK, NeverHalfAnObject, TempReady
<1> QED BY <1>1, <1>2, <1>3, <1>4, <1>5

LEMMA NextKeepsInv == FilesInv /\ [FilesNext]_fileVars => FilesInv'
<1> SUFFICES ASSUME FilesInv, [FilesNext]_fileVars PROVE FilesInv'
  OBVIOUS
<1>1. CASE FilesNext
  BY <1>1, StepKeepsInv, OthersKeepInv DEF FilesNext
<1>2. CASE UNCHANGED fileVars
  BY <1>2 DEF fileVars, FilesInv, FilesTypeOK, NeverHalfAnObject, TempReady
<1> QED BY <1>1, <1>2

LEMMA FilesInvAlways == FilesSpec => []FilesInv
BY FilesInvInit, NextKeepsInv, PTL DEF FilesSpec

(***************************************************************************)
(* The files and the steps of the writers are of the types declared.       *)
(***************************************************************************)
THEOREM FilesTypeCorrect == FilesSpec => []FilesTypeOK
<1>1. FilesInv => FilesTypeOK
  BY DEF FilesInv
<1> QED BY <1>1, FilesInvAlways, PTL

(***************************************************************************)
(* Whoever reads an object, and whatever a power failure leaves of it, it  *)
(* is whole and readable, or absent (WriteFileAtomic).                     *)
(***************************************************************************)
THEOREM WholeObjectsOnly == FilesSpec => []NeverHalfAnObject
<1>1. FilesInv => NeverHalfAnObject
  BY DEF FilesInv
<1> QED BY <1>1, FilesInvAlways, PTL

-----------------------------------------------------------------------------
(***************************************************************************)
(* Towards the promise of ObjectStore: what each step is to those who only *)
(* see the objects and the calls.                                          *)
(***************************************************************************)
LEMMA CallStates ==
  /\ \A at \in Steps \ {"syncdir"} : CallState(at) = "begun"
  /\ CallState("syncdir") = "put"
  /\ CallState("ok") = "done"
  /\ CallState("failed") = "refused"
BY DEF CallState, Steps

LEMMA ObjectOfSound ==
  ASSUME NEW file, Sound(file)
  PROVE  Object(file) = file.value /\ file # Absent
BY NoneAssumption DEF Sound, Object

LEMMA WhatLasts ==
  ASSUME FilesInv
  PROVE  Lasting = [k \in Keys |-> {Object(f) : f \in onDisk[k]}]
BY NothingIsCut DEF Lasting

\* A writer takes a step within its call.
LEMMA CallMoves ==
  ASSUME FilesTypeOK, NEW w \in Writers, write[w] # Idle,
         NEW at \in Steps \cup {"ok", "failed"}, write' = [write EXCEPT ![w].at = at]
  PROVE  /\ Calls[w] = [key |-> write[w].key, value |-> write[w].value,
                        state |-> CallState(write[w].at)]
         /\ Calls[w] # Idle
         /\ Calls' = [Calls EXCEPT ![w].state = CallState(at)]
<1>1. write[w] \in Write
  BY DEF FilesTypeOK
<1>2. Calls[w] = [key |-> write[w].key, value |-> write[w].value, state |-> CallState(write[w].at)]
  BY DEF Calls
<1>3. CallState(write[w].at) \in {"begun", "put", "done", "refused"}
  BY <1>1, CallStates DEF Write
<1>4. Calls[w] \in Call
  BY <1>1, <1>2, <1>3 DEF Write, Call
<1>5. Calls[w] # Idle
  BY <1>4, NoneAssumption
<1>6. write'[w] # Idle /\ write'[w].key = write[w].key /\ write'[w].value = write[w].value
      /\ write'[w].at = at
  <2>1. write'[w] = [write[w] EXCEPT !.at = at]
    BY DEF FilesTypeOK
  <2>2. write'[w] \in Write
    BY <1>1, <2>1 DEF Write
  <2> QED BY <2>1, <2>2, <1>1, NoneAssumption DEF Write
<1>7. \A x \in Writers \ {w} : write'[x] = write[x]
  BY DEF FilesTypeOK
<1>8. Calls'[w] = [Calls[w] EXCEPT !.state = CallState(at)]
  BY <1>2, <1>6 DEF Calls
<1>9. \A x \in Writers \ {w} : Calls'[x] = Calls[x]
  BY <1>7 DEF Calls
<1>10. /\ Calls = [x \in Writers |-> Calls[x]]
       /\ Calls' = [x \in Writers |-> Calls'[x]]
  BY DEF Calls
<1> QED BY <1>2, <1>5, <1>8, <1>9, <1>10

\* A writer takes a step the caller does not see.
LEMMA CallStays ==
  ASSUME FilesInv, NEW w \in Writers,
         CreateTemp(w) \/ Copy(w) \/ SyncFile(w) \/ Chmod(w)
  PROVE  UNCHANGED <<Objects, Lasting, Calls>>
<1>1. PICK at \in Steps \ {"syncdir"} :
        /\ write[w] # Idle /\ write[w].at \in Steps \ {"syncdir"}
        /\ write' = [write EXCEPT ![w].at = at]
  BY DEF CreateTemp, Copy, SyncFile, Chmod, At, Step, Steps
<1>2. /\ Calls[w] = [key |-> write[w].key, value |-> write[w].value, state |-> "begun"]
      /\ Calls' = [Calls EXCEPT ![w].state = "begun"]
  <2>1. FilesTypeOK /\ at \in Steps \cup {"ok", "failed"}
    BY <1>1 DEF FilesInv
  <2>2. /\ Calls[w] = [key |-> write[w].key, value |-> write[w].value,
                       state |-> CallState(write[w].at)]
        /\ Calls' = [Calls EXCEPT ![w].state = CallState(at)]
    BY <1>1, <2>1, CallMoves
  <2>3. CallState(at) = "begun" /\ CallState(write[w].at) = "begun"
    BY <1>1, CallStates
  <2> QED BY <2>2, <2>3
<1>3. Calls = [x \in Writers |-> Calls[x]]
  BY DEF Calls
<1>4. UNCHANGED Calls
  BY <1>2, <1>3
<1>5. UNCHANGED <<names, onDisk>>
  BY DEF CreateTemp, Copy, SyncFile, Chmod
<1> QED BY <1>4, <1>5 DEF Objects, Lasting, LeftOf

LEMMA OneMore ==
  ASSUME NEW files, NEW file
  PROVE  /\ {Object(f) : f \in files \cup {file}} = {Object(f) : f \in files} \cup {Object(file)}
         /\ UNION {Left(f) : f \in files \cup {file}}
               = (UNION {Left(f) : f \in files}) \cup Left(file)
<1>1. \A x : x \in {Object(f) : f \in files \cup {file}}
               <=> x \in {Object(f) : f \in files} \cup {Object(file)}
  OBVIOUS
<1>2. \A x : x \in UNION {Left(f) : f \in files \cup {file}}
               <=> x \in (UNION {Left(f) : f \in files}) \cup Left(file)
  OBVIOUS
<1> QED BY <1>1, <1>2

LEMMA RenamePuts ==
  ASSUME FilesInv, NEW w \in Writers, Rename(w)
  PROVE  Promised!Put(w)
<1>1. write[w] \in Write /\ write[w] # Idle /\ write[w].at = "rename"
  BY DEF Rename, At, FilesInv, FilesTypeOK
<1>2. PICK k \in Keys, v \in Values : write[w].key = k /\ write[w].value = v
  BY <1>1 DEF Write
<1>3. /\ Calls[w] = [key |-> k, value |-> v, state |-> "begun"]
      /\ Calls[w] # Idle
      /\ Calls' = [Calls EXCEPT ![w].state = "put"]
  <2>1. write' = [write EXCEPT ![w].at = "syncdir"]
    BY DEF Rename, Step
  <2>2. "syncdir" \in Steps /\ "rename" \in Steps \ {"syncdir"}
    BY DEF Steps
  <2>3. /\ Calls[w] = [key |-> k, value |-> v, state |-> CallState(write[w].at)]
        /\ Calls[w] # Idle
        /\ Calls' = [Calls EXCEPT ![w].state = CallState("syncdir")]
    BY <1>1, <1>2, <2>1, <2>2, CallMoves DEF FilesInv
  <2>4. CallState(write[w].at) = "begun" /\ CallState("syncdir") = "put"
    BY <1>1, <2>2, CallStates
  <2> QED BY <2>3, <2>4
<1>4. Sound(temp[w]) /\ Object(temp[w]) = v
  <2>1. Sound(temp[w]) /\ temp[w].value = v
    BY <1>1, <1>2 DEF FilesInv, TempReady, Sound
  <2> QED BY <2>1, ObjectOfSound
<1>5. /\ names' = [names EXCEPT ![k] = temp[w]]
      /\ onDisk' = [onDisk EXCEPT ![k] = @ \cup {temp[w]}]
  BY <1>2 DEF Rename
<1>6. Objects' = [Objects EXCEPT ![k] = v]
  BY <1>2, <1>4, <1>5 DEF Objects, FilesInv, FilesTypeOK
<1>7. Lasting' = [Lasting EXCEPT ![k] = @ \cup {v}]
  <2>1. Left(temp[w]) = {temp[w]}
    BY <1>4 DEF Sound, Left
  <2>2. LeftOf(k)' = LeftOf(k) \cup {temp[w]}
    <3>1. onDisk'[k] = onDisk[k] \cup {temp[w]}
      BY <1>2, <1>5 DEF FilesInv, FilesTypeOK
    <3>2. UNION {Left(f) : f \in onDisk[k] \cup {temp[w]}}
            = (UNION {Left(f) : f \in onDisk[k]}) \cup Left(temp[w])
      BY OneMore, Zenon
    <3> QED BY <2>1, <3>1, <3>2 DEF LeftOf
  <2>3. \A j \in Keys \ {k} : LeftOf(j)' = LeftOf(j)
    BY <1>2, <1>5 DEF LeftOf, FilesInv, FilesTypeOK
  <2>4. Lasting'[k] = Lasting[k] \cup {v}
    <3>1. /\ Lasting[k] = {Object(f) : f \in LeftOf(k)}
          /\ Lasting'[k] = {Object(f) : f \in LeftOf(k)'}
      BY <1>2 DEF Lasting
    <3>2. {Object(f) : f \in LeftOf(k) \cup {temp[w]}}
            = {Object(f) : f \in LeftOf(k)} \cup {Object(temp[w])}
      BY OneMore, Zenon
    <3> QED BY <1>4, <2>2, <3>1, <3>2
  <2>5. \A j \in Keys \ {k} : Lasting'[j] = Lasting[j]
    BY <2>3 DEF Lasting
  <2>6. Lasting = [j \in Keys |-> Lasting[j]] /\ Lasting' = [j \in Keys |-> Lasting'[j]]
    BY DEF Lasting
  <2> QED BY <1>2, <2>4, <2>5, <2>6
<1>8. Calls[w].key = k /\ Calls[w].value = v /\ Calls[w].state = "begun"
  BY <1>3
<1> QED BY <1>3, <1>6, <1>7, <1>8 DEF Promised!Put, Promised!To

\* A step that settles what each key names.
LEMMA Settles ==
  ASSUME FilesInv, onDisk' = [k \in Keys |-> {names'[k]}],
         \A k \in Keys : names'[k] \in onDisk[k]
  PROVE  Lasting' = [k \in Keys |-> {Objects'[k]}]
<1>1. ASSUME NEW k \in Keys
      PROVE  Lasting'[k] = {Objects'[k]}
  <2>1. names'[k] = Absent \/ names'[k].synced
    BY <1>1 DEF FilesInv, NeverHalfAnObject, Sound
  <2>2. Left(names'[k]) = {names'[k]}
    BY <2>1 DEF Left
  <2>3. onDisk'[k] = {names'[k]}
    OBVIOUS
  <2>4. LeftOf(k)' = {names'[k]}
    BY <2>2, <2>3 DEF LeftOf
  <2>5. Lasting'[k] = {Object(f) : f \in LeftOf(k)'} /\ Objects'[k] = Object(names'[k])
    BY DEF Lasting, Objects
  <2> QED BY <2>4, <2>5
<1>2. Lasting' = [k \in Keys |-> Lasting'[k]]
  BY DEF Lasting
<1> QED BY <1>1, <1>2

LEMMA CallEnds ==
  ASSUME FilesInv, NEW w \in Writers, WriteFault(w) \/ EndWrite(w) \/ SyncDirectory(w)
  PROVE  Promised!Refuse(w) \/ Promised!Done(w) \/ Promised!End(w)
<1> USE DEF FilesInv
<1>1. write[w] \in Write /\ write[w] # Idle
  BY DEF WriteFault, WriteFails, SyncDirectoryFails, EndWrite, SyncDirectory, At, FilesTypeOK
<1>2. Calls = [x \in Writers |-> Calls[x]]
  BY DEF Calls
<1>3. CASE WriteFails(w)
  <2>1. write[w].at \in Steps \ {"syncdir"} /\ write' = [write EXCEPT ![w].at = "failed"]
    BY <1>3 DEF WriteFails, Step
  <2>2. /\ Calls[w] = [key |-> write[w].key, value |-> write[w].value,
                       state |-> CallState(write[w].at)]
        /\ Calls[w] # Idle
        /\ Calls' = [Calls EXCEPT ![w].state = CallState("failed")]
    BY <1>1, <2>1, CallMoves
  <2>3. CallState(write[w].at) = "begun" /\ CallState("failed") = "refused"
    BY <2>1, CallStates
  <2>4. UNCHANGED <<Objects, Lasting>>
    BY <1>3 DEF WriteFails, Objects, Lasting, LeftOf
  <2>5. Calls[w].state = "begun" /\ Calls' = [Calls EXCEPT ![w].state = "refused"]
    <3>1. Calls[w].state = CallState(write[w].at)
      BY <2>2
    <3>2. Calls' = [Calls EXCEPT ![w].state = "refused"]
      BY <2>2, <2>3
    <3> QED BY <2>3, <3>1, <3>2
  <2> QED BY <2>2, <2>4, <2>5 DEF Promised!Refuse, Promised!To
<1>4. ASSUME SyncDirectory(w) \/ SyncDirectoryFails(w)
      PROVE  Promised!Done(w)
  <2>1. write[w].at = "syncdir" /\ write' = [write EXCEPT ![w].at = "ok"]
    BY <1>4 DEF SyncDirectory, SyncDirectoryFails, At, Step
  <2>2. /\ Calls[w] = [key |-> write[w].key, value |-> write[w].value,
                       state |-> CallState("syncdir")]
        /\ Calls[w] # Idle
        /\ Calls' = [Calls EXCEPT ![w].state = CallState("ok")]
    BY <1>1, <2>1, CallMoves
  <2>3. CallState("syncdir") = "put" /\ CallState("ok") = "done"
    BY CallStates
  <2>4. Calls[w].state = "put" /\ Calls' = [Calls EXCEPT ![w].state = "done"]
    <3>1. Calls[w].state = CallState("syncdir")
      BY <2>2
    <3>2. Calls' = [Calls EXCEPT ![w].state = "done"]
      BY <2>2, <2>3
    <3> QED BY <2>3, <3>1, <3>2
  <2>5. UNCHANGED names
    BY <1>4 DEF SyncDirectory, SyncDirectoryFails
  <2>6. UNCHANGED Objects
    BY <2>5 DEF Objects
  <2>7. CASE SyncDirectory(w)
    <3>1. onDisk' = [k \in Keys |-> {names'[k]}] /\ \A k \in Keys : names'[k] \in onDisk[k]
      BY <2>5, <2>7 DEF SyncDirectory
    <3>2. Lasting' = [k \in Keys |-> {Objects[k]}]
      BY <2>6, <3>1, Settles
    <3> QED BY <2>2, <2>4, <2>6, <3>2 DEF Promised!Done, Promised!To
  <2>8. CASE SyncDirectoryFails(w)
    <3>1. MayForget /\ UNCHANGED Lasting
      BY <2>8 DEF SyncDirectoryFails, Lasting, LeftOf
    <3> QED BY <2>2, <2>4, <2>6, <3>1 DEF Promised!Done, Promised!To
  <2> QED BY <1>4, <2>7, <2>8
<1>5. CASE EndWrite(w)
  <2>1. write[w].at \in {"ok", "failed"} /\ write' = [write EXCEPT ![w] = Idle]
    BY <1>5 DEF EndWrite, At
  <2>2. Calls[w] = [key |-> write[w].key, value |-> write[w].value,
                    state |-> CallState(write[w].at)]
    BY <1>1 DEF Calls
  <2>3. CallState(write[w].at) \in {"done", "refused"}
    BY <2>1, CallStates
  <2>4. Calls[w] \in Call
    BY <1>1, <2>2, <2>3 DEF Write, Call
  <2>5. Calls[w] # Idle /\ Calls[w].state \in {"done", "refused"}
    BY <2>2, <2>3, <2>4, NoneAssumption
  <2>6. Calls' = [Calls EXCEPT ![w] = Idle]
    BY <2>1 DEF Calls, FilesTypeOK
  <2>7. UNCHANGED <<Objects, Lasting>>
    BY <1>5 DEF EndWrite, Objects, Lasting, LeftOf
  <2> QED BY <2>5, <2>6, <2>7 DEF Promised!End
<1> QED BY <1>3, <1>4, <1>5 DEF WriteFault

LEMMA CallBegins ==
  ASSUME FilesInv, NEW w \in Writers, NEW k \in Keys, NEW v \in Values, BeginWrite(w, k, v)
  PROVE  Promised!Begin(w)
<1>1. write[w] = Idle /\ write' = [write EXCEPT ![w] = [key |-> k, value |-> v, at |-> "create"]]
  BY DEF BeginWrite
<1>2. Calls[w] = Idle
  BY <1>1 DEF Calls
<1>3. write'[w] = [key |-> k, value |-> v, at |-> "create"]
  BY <1>1 DEF FilesInv, FilesTypeOK
<1>4. write'[w] \in Write
  BY <1>3 DEF Write, Steps
<1>5. CallState("create") = "begun"
  BY CallStates DEF Steps
<1>6. Calls'[w] = [key |-> k, value |-> v, state |-> "begun"]
  BY <1>3, <1>4, <1>5, NoneAssumption DEF Calls
<1>7. \A x \in Writers \ {w} : Calls'[x] = Calls[x]
  BY <1>1 DEF Calls, FilesInv, FilesTypeOK
<1>8. Calls = [x \in Writers |-> Calls[x]] /\ Calls' = [x \in Writers |-> Calls'[x]]
  BY DEF Calls
<1>9. Calls' = [Calls EXCEPT ![w] = Calls'[w]]
  BY <1>7, <1>8
<1>10. Calls'[w] \in Promised!Call /\ Calls'[w].state = "begun"
  BY <1>6 DEF Promised!Call
<1>11. UNCHANGED <<Objects, Lasting>>
  BY DEF BeginWrite, Objects, Lasting, LeftOf
<1> QED BY <1>2, <1>9, <1>10, <1>11 DEF Promised!Begin

LEMMA EveryoneEnds ==
  ASSUME FilesInv, KillWriters \/ PowerFailure
  PROVE  Promised!Kill \/ Promised!PowerFailure
<1>1. Calls' = [w \in Writers |-> Idle]
  BY DEF KillWriters, PowerFailure, KillAll, Calls
<1>2. CASE KillWriters
  BY <1>1, <1>2 DEF KillWriters, Promised!Kill, Objects, Lasting, LeftOf
<1>3. CASE PowerFailure
  <2>1. onDisk' = [k \in Keys |-> {names'[k]}] /\ \A k \in Keys : names'[k] \in onDisk[k]
    BY <1>3, SettledKeys DEF PowerFailure
  <2>2. Lasting' = [k \in Keys |-> {Objects'[k]}]
    BY <2>1, Settles
  <2>3. \A k \in Keys : Objects'[k] \in Lasting[k]
    BY <2>1, WhatLasts DEF Objects
  <2>4. \A k \in Keys : Objects'[k] \in Values \cup {Absent}
    <3>1. \A k \in Keys : names'[k] = Absent \/ Sound(names'[k])
      BY <2>1 DEF FilesInv, NeverHalfAnObject
    <3>2. \A k \in Keys : Objects'[k] = Object(names'[k])
      BY DEF Objects
    <3>3. Object(Absent) = Absent
      BY DEF Object
    <3> QED BY <3>1, <3>2, <3>3, ObjectOfSound DEF Sound, File
  <2>5. Objects' \in [Keys -> Values \cup {Absent}]
    BY <2>4 DEF Objects
  <2> QED BY <1>1, <2>2, <2>3, <2>5 DEF Promised!PowerFailure
<1> QED BY <1>2, <1>3

LEMMA FilesInitPromised == FilesInit => Promised!Init
<1> SUFFICES ASSUME FilesInit PROVE Promised!Init
  OBVIOUS
<1>1. FilesInv
  BY FilesInvInit
<1>2. \A k \in Keys : names[k] = Absent \/ Sound(names[k])
  BY <1>1 DEF FilesInv, NeverHalfAnObject
<1>3. Object(Absent) = Absent
  BY DEF Object
<1>4. \A k \in Keys : Object(names[k]) \in Values \cup {Absent}
  BY <1>2, <1>3, ObjectOfSound DEF Sound, File
<1>5. Objects \in [Keys -> Values \cup {Absent}]
  BY <1>4 DEF Objects
<1>6. Lasting = [k \in Keys |-> {Objects[k]}]
  BY <1>1, WhatLasts DEF FilesInit, Objects
<1>7. Calls = [w \in Writers |-> Idle]
  BY DEF FilesInit, Calls
<1> QED BY <1>5, <1>6, <1>7 DEF Promised!Init

LEMMA FilesNextPromised ==
  FilesInv /\ [FilesNext]_fileVars => [Promised!Next]_(Promised!vars)
<1> SUFFICES ASSUME FilesInv, [FilesNext]_fileVars
             PROVE  Promised!Next \/ UNCHANGED <<Objects, Lasting, Calls>>
  BY DEF Promised!vars
<1>1. ASSUME NEW w \in Writers, NEW k \in Keys, NEW v \in Values, BeginWrite(w, k, v)
      PROVE  Promised!Next
  BY <1>1, CallBegins DEF Promised!Next
<1>2. ASSUME NEW w \in Writers, WriteStep(w) \/ WriteFault(w) \/ EndWrite(w)
      PROVE  Promised!Next \/ UNCHANGED <<Objects, Lasting, Calls>>
  BY <1>2, CallStays, RenamePuts, CallEnds DEF WriteStep, Promised!Next
<1>3. ASSUME KillWriters \/ PowerFailure
      PROVE  Promised!Next
  BY <1>3, EveryoneEnds DEF Promised!Next
<1>4. CASE UNCHANGED fileVars
  BY <1>4 DEF fileVars, Objects, Lasting, LeftOf, Calls
<1> QED BY <1>1, <1>2, <1>3, <1>4 DEF FilesNext

(***************************************************************************)
(* WriteFileAtomic implements Storage.Write as ObjectStore promises it,    *)
(* for any number of goroutines that write the same keys at once, and      *)
(* whatever fails.                                                         *)
(***************************************************************************)
THEOREM FilesKeepPromise == FilesSpec => KeepsPromise
BY FilesInvAlways, FilesInitPromised, FilesNextPromised, PTL
   DEF FilesSpec, KeepsPromise, Promised!Spec
=============================================================================
