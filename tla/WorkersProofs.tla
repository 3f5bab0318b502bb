---------------------------- MODULE WorkersProofs ----------------------------
(***************************************************************************)
(* Theorems about Workers, for any catalog, any number of slots and any    *)
(* faults: its safety invariants, that nothing works on once ProcessVendor *)
(* has returned, and that it implements Mirroring.                         *)
(***************************************************************************)
EXTENDS Workers, FiniteSetTheorems, TLAPS

-----------------------------------------------------------------------------
(***************************************************************************)
(* What a step of a goroutine is to the loop and to the counts: it works   *)
(* on, it gives up, it keeps its components, or it leaves.                 *)
(***************************************************************************)
WorksOn(e) ==
  /\ worker[e] \in Working
  /\ \E phase \in (Working \ {"clear"}) \cup {"keep"} : Goto(e, phase)
  /\ UNCHANGED <<TheLoop, new, processed, errors>>

GivesItUp(e) ==
  /\ worker[e] \in Working
  /\ Goto(e, "leave")
  /\ errors' = errors + 1
  /\ UNCHANGED <<TheLoop, new, processed>>

KeepsIt(e) ==
  /\ worker[e] = "keep"
  /\ Goto(e, "leave")
  /\ new' = new \cup {e}
  /\ processed' = processed + 1
  /\ UNCHANGED <<TheLoop, errors>>

Leaves(e) ==
  /\ worker[e] = "leave"
  /\ Goto(e, "done")
  /\ slots > 0 /\ slots' = slots - 1
  /\ UNCHANGED <<catalog, index, cancelled, loop, reached, new, processed, errors>>

LEMMA GoroutineSteps ==
  ASSUME NEW e \in Entry, Goroutine(e)
  PROVE  WorksOn(e) \/ GivesItUp(e) \/ KeepsIt(e) \/ Leaves(e)
<1> USE DEF Working, Goto, Stays
<1>1. CASE Fails(e)
  BY <1>1 DEF Fails, GivesUp, GivesItUp
<1>2. CASE Clear(e)
  BY <1>2 DEF Clear, WorksOn
<1>3. CASE Download(e)
  BY <1>3 DEF Download, GivesUp, WorksOn, GivesItUp
<1>4. CASE Downloaded(e)
  BY <1>4 DEF Downloaded, WorksOn
<1>5. CASE Verify(e)
  BY <1>5 DEF Verify, GivesUp, WorksOn, GivesItUp
<1>6. CASE WriteMetainfo(e)
  BY <1>6 DEF WriteMetainfo, GivesUp, WorksOn, GivesItUp
<1>7. CASE BuildCabinet(e)
  BY <1>7 DEF BuildCabinet, GivesUp, WorksOn, GivesItUp
<1>8. CASE Seal(e)
  BY <1>8 DEF Seal, GivesUp, WorksOn, GivesItUp
<1>9. CASE Upload(e)
  BY <1>9 DEF Upload, GivesUp, WorksOn, GivesItUp
<1>10. CASE Keep(e)
  BY <1>10 DEF Keep, KeepsIt
<1>11. CASE Leave(e)
  BY <1>11 DEF Leave, Leaves
<1> QED BY <1>1, <1>2, <1>3, <1>4, <1>5, <1>6, <1>7, <1>8, <1>9, <1>10, <1>11 DEF Goroutine

-----------------------------------------------------------------------------
(***************************************************************************)
(* The loop, its slots and its counts.  A goroutine holds a slot from when *)
(* it begins until it leaves, and the loop holds one more when it is to    *)
(* begin another: it may have none only when the context is done, and is   *)
(* not given back then, as nobody waits for one any more.                  *)
(***************************************************************************)
LoopTypeOK ==
  /\ catalog \in [Entry -> Names]
  /\ loop \in {"next", "check", "wait", "ok", "failed"}
  /\ reached \in 1 .. Entries + 1
  /\ slots \in 0 .. MaxConcurrency
  /\ worker \in [Entry -> Phase]
  /\ new \subseteq Entry
  /\ processed \in Nat /\ errors \in Nat

SlotsHeld ==
  /\ Cardinality(Active) <= slots
  /\ loop = "next" => slots = Cardinality(Active)
  /\ loop = "check" /\ ~cancelled => slots = Cardinality(Active) + 1

Reached ==
  /\ loop = "check" => reached \in Entry /\ catalog[reached] \notin index
  /\ \A e \in Entry : e >= reached => worker[e] = "none"
  /\ \A e \in Entry : e < reached => (worker[e] = "none" <=> catalog[e] \in index)
  /\ loop \in {"wait", "ok", "failed"} /\ ~cancelled => reached = Entries + 1
  /\ Returned => \A e \in Entry : worker[e] \in {"none", "done"}

Counted ==
  /\ new \subseteq Over
  /\ processed = Cardinality(new)
  /\ errors + processed = Cardinality(Over)

LoopInv == LoopTypeOK /\ SlotsHeld /\ Reached /\ Counted

LEMMA EntriesFinite ==
  /\ IsFiniteSet(Entry) /\ Cardinality(Entry) = Entries
  /\ \A S \in SUBSET Entry : IsFiniteSet(S) /\ Cardinality(S) \in 0 .. Entries
<1>1. Entries \in Nat
  BY WorkersAssumption
<1>2. IsFiniteSet(Entry) /\ Cardinality(Entry) = Entries
  BY <1>1, FS_Interval DEF Entry
<1>3. ASSUME NEW S \in SUBSET Entry
      PROVE  IsFiniteSet(S) /\ Cardinality(S) \in 0 .. Entries
  BY <1>1, <1>2, <1>3, FS_Subset, FS_CardinalityType
<1> QED BY <1>2, <1>3

LEMMA LoopInit == Init => LoopInv
<1> SUFFICES ASSUME Init PROVE LoopInv
  OBVIOUS
<1>1. Active = {} /\ Over = {}
  BY DEF Init, Active, Over
<1>2. Cardinality({}) = 0
  BY FS_EmptySet
<1>3. Entries \in Nat /\ MaxConcurrency \in Nat \ {0}
  BY WorkersAssumption
<1>4. LoopTypeOK
  BY <1>3 DEF Init, LoopTypeOK, Phase
<1>5. SlotsHeld
  BY <1>1, <1>2 DEF Init, SlotsHeld
<1>6. Reached
  BY <1>3 DEF Init, Reached, Entry, Returned
<1>7. Counted
  BY <1>1, <1>2 DEF Init, Counted
<1> QED BY <1>4, <1>5, <1>6, <1>7 DEF LoopInv

LEMMA LoopKeepsInv ==
  ASSUME LoopInv, Skip \/ Select \/ Break \/ EndOfCatalog \/ Return \/ Cancel
  PROVE  LoopInv'
<1> USE DEF LoopInv, goroutines
<1>1. UNCHANGED <<worker, new, processed, errors, catalog, index>>
  BY DEF Skip, Select, Break, EndOfCatalog, Return, Cancel
<1>2. Active' = Active /\ Over' = Over
  BY <1>1 DEF Active, Over
<1>3. Counted'
  BY <1>1, <1>2 DEF Counted
<1>4. Entries \in Nat /\ MaxConcurrency \in Nat \ {0} /\ Cardinality(Active) \in Nat
  BY WorkersAssumption, EntriesFinite DEF Active
<1>5. LoopTypeOK'
  BY <1>1, <1>4 DEF LoopTypeOK, Skip, Select, Break, EndOfCatalog, Return, Cancel, Entry, Result
<1>6. SlotsHeld'
  BY <1>1, <1>2, <1>4 DEF LoopTypeOK, SlotsHeld, Skip, Select, Break, EndOfCatalog, Return, Cancel, Result
<1>7. Reached'
  BY <1>1, <1>4 DEF LoopTypeOK, Reached, Skip, Select, Break, EndOfCatalog, Return, Cancel,
                    Returned, Entry, Result
<1> QED BY <1>3, <1>5, <1>6, <1>7

LEMMA BeginKeepsInv ==
  ASSUME LoopInv, Begin
  PROVE  LoopInv'
<1> USE DEF LoopInv
<1>1. /\ loop = "check" /\ ~cancelled
      /\ worker' = [worker EXCEPT ![reached] = "clear"]
      /\ reached' = reached + 1
      /\ loop' = "next"
      /\ UNCHANGED <<catalog, index, cancelled, slots, new, processed, errors>>
  BY DEF Begin, Goto
<1>2. reached \in Entry /\ worker[reached] = "none" /\ catalog[reached] \notin index
  BY <1>1, WorkersAssumption DEF Reached, LoopTypeOK, Entry
<1>3. Active' = Active \cup {reached} /\ reached \notin Active
  BY <1>1, <1>2 DEF Active, LoopTypeOK
<1>4. Over' = Over
  BY <1>1, <1>2 DEF Over, LoopTypeOK
<1>5. Cardinality(Active') = Cardinality(Active) + 1
  BY <1>3, EntriesFinite, FS_AddElement DEF Active
<1>6. LoopTypeOK'
  BY <1>1, <1>2, WorkersAssumption DEF LoopTypeOK, Phase, Working, Entry
<1>7. SlotsHeld'
  <2>1. Cardinality(Active) \in Nat
    BY EntriesFinite DEF Active
  <2> QED BY <1>1, <1>5, <2>1 DEF SlotsHeld
<1>8. Reached'
  BY <1>1, <1>2, WorkersAssumption DEF Reached, LoopTypeOK, Entry, Returned
<1>9. Counted'
  BY <1>1, <1>4 DEF Counted
<1> QED BY <1>6, <1>7, <1>8, <1>9

LEMMA GoroutineKeepsInv ==
  ASSUME LoopInv, NEW e \in Entry, Goroutine(e)
  PROVE  LoopInv'
<1> USE DEF LoopInv
<1>1. PICK phase \in (Working \ {"clear"}) \cup {"keep", "leave", "done"} :
        worker' = [worker EXCEPT ![e] = phase]
  BY GoroutineSteps DEF WorksOn, GivesItUp, KeepsIt, Leaves, Goto
<1>2. worker[e] \in Working \cup {"keep", "leave"}
  BY GoroutineSteps DEF WorksOn, GivesItUp, KeepsIt, Leaves
<1>3. UNCHANGED <<catalog, index, cancelled, loop, reached>>
  BY GoroutineSteps DEF WorksOn, GivesItUp, KeepsIt, Leaves, TheLoop
<1>4. worker[e] \notin {"none", "done"} /\ phase # "none" /\ phase \in Phase
  BY <1>2 DEF Working, Phase
<1>5. Reached'
  <2>1. loop \notin {"ok", "failed"}
    BY <1>4 DEF Reached, Returned
  <2>2. \A x \in Entry : (worker'[x] = "none") <=> (worker[x] = "none")
    BY <1>1, <1>4 DEF LoopTypeOK
  <2> QED BY <1>3, <2>1, <2>2 DEF Reached, Returned
<1>6. LoopTypeOK'
  <2>1. worker' \in [Entry -> Phase]
    BY <1>1, <1>4 DEF LoopTypeOK
  <2>2. slots' \in 0 .. MaxConcurrency
    BY GoroutineSteps, WorkersAssumption
       DEF WorksOn, GivesItUp, KeepsIt, Leaves, TheLoop, LoopTypeOK
  <2>3. new' \subseteq Entry /\ processed' \in Nat /\ errors' \in Nat
    BY GoroutineSteps DEF WorksOn, GivesItUp, KeepsIt, Leaves, LoopTypeOK
  <2> QED BY <1>3, <2>1, <2>2, <2>3 DEF LoopTypeOK
<1>7. e \in Active /\ IsFiniteSet(Active) /\ Cardinality(Active) \in Nat
  BY <1>4, EntriesFinite DEF Active
<1>8. SlotsHeld'
  <2>1. CASE Leaves(e)
    <3>1. Active' = Active \ {e}
      BY <2>1 DEF Leaves, Goto, Active, LoopTypeOK
    <3>2. Cardinality(Active') = Cardinality(Active) - 1
      BY <1>7, <3>1, FS_RemoveElement
    <3> QED BY <1>7, <2>1, <3>2 DEF Leaves, SlotsHeld, LoopTypeOK
  <2>2. CASE WorksOn(e) \/ GivesItUp(e) \/ KeepsIt(e)
    <3>1. worker'[e] \notin {"none", "done"}
      BY <2>2 DEF WorksOn, GivesItUp, KeepsIt, Goto, LoopTypeOK, Working
    <3>2. Active' = Active
      BY <1>1, <1>4, <3>1 DEF Active, LoopTypeOK
    <3>3. UNCHANGED slots
      BY <2>2 DEF WorksOn, GivesItUp, KeepsIt, TheLoop
    <3> QED BY <1>3, <3>2, <3>3 DEF SlotsHeld
  <2> QED BY <2>1, <2>2, GoroutineSteps
<1>9. Counted'
  <2>1. IsFiniteSet(Over) /\ IsFiniteSet(new) /\ Cardinality(Over) \in Nat
    BY EntriesFinite DEF Over, LoopTypeOK
  <2>2. CASE WorksOn(e)
    <3>1. Over' = Over
      BY <2>2 DEF WorksOn, Goto, Over, LoopTypeOK, Working
    <3> QED BY <2>2, <3>1 DEF WorksOn, Counted
  <2>3. CASE GivesItUp(e) \/ KeepsIt(e)
    <3>1. e \notin Over
      BY <2>3 DEF GivesItUp, KeepsIt, Over, Working
    <3>2. Over' = Over \cup {e}
      BY <2>3 DEF GivesItUp, KeepsIt, Goto, Over, LoopTypeOK
    <3>3. Cardinality(Over') = Cardinality(Over) + 1
      BY <2>1, <3>1, <3>2, FS_AddElement
    <3>4. e \notin new
      BY <3>1 DEF Counted
    <3>5. KeepsIt(e) => Cardinality(new') = Cardinality(new) + 1
      BY <2>1, <3>4, FS_AddElement DEF KeepsIt
    <3> QED BY <2>3, <3>2, <3>3, <3>5 DEF GivesItUp, KeepsIt, Counted, LoopTypeOK
  <2>4. CASE Leaves(e)
    <3>1. Over' = Over
      BY <2>4 DEF Leaves, Goto, Over, LoopTypeOK
    <3> QED BY <2>4, <3>1 DEF Leaves, Counted
  <2> QED BY <2>2, <2>3, <2>4, GoroutineSteps
<1> QED BY <1>5, <1>6, <1>8, <1>9

LEMMA LoopInvAlways == Spec => []LoopInv
<1>1. LoopInv /\ [Next]_vars => LoopInv'
  <2> SUFFICES ASSUME LoopInv, [Next]_vars PROVE LoopInv'
    OBVIOUS
  <2>1. CASE UNCHANGED vars
    BY <2>1 DEF vars, goroutines, LoopInv, LoopTypeOK, SlotsHeld, Active, Reached, Returned,
                Counted, Over
  <2> QED BY <2>1, LoopKeepsInv, BeginKeepsInv, GoroutineKeepsInv DEF Next, Loop
<1> QED BY <1>1, LoopInit, PTL DEF Spec

-----------------------------------------------------------------------------
(***************************************************************************)
(* The semaphore bounds the goroutines at work by --concurrency, also when *)
(* the context ends while the loop waits for a slot.                       *)
(***************************************************************************)
THEOREM NoMoreThanConcurrencyCorrect == Spec => []NoMoreThanConcurrency
<1>1. LoopInv => NoMoreThanConcurrency
  BY EntriesFinite, WorkersAssumption
     DEF LoopInv, LoopTypeOK, SlotsHeld, NoMoreThanConcurrency, Active
<1> QED BY <1>1, LoopInvAlways, PTL

(***************************************************************************)
(* A run whose context has not ended accounts for every entry that is not  *)
(* in the stored document: kept, or counted as an error.                   *)
(***************************************************************************)
THEOREM EveryEntryAccountedForCorrect == Spec => []EveryEntryAccountedFor
<1>1. LoopInv => EveryEntryAccountedFor
  <2> SUFFICES ASSUME LoopInv, Returned, ~cancelled
               PROVE  /\ processed = Cardinality(new)
                      /\ errors + processed = Cardinality({e \in Entry : catalog[e] \notin index})
    BY DEF EveryEntryAccountedFor
  <2>1. reached = Entries + 1
    BY DEF LoopInv, Reached, Returned
  <2>2. \A e \in Entry : e < reached
    BY <2>1, WorkersAssumption DEF Entry
  <2>3. \A e \in Entry : worker[e] \in {"none", "done"} /\ (worker[e] = "none" <=> catalog[e] \in index)
    BY <2>2 DEF LoopInv, Reached
  <2>4. Over = {e \in Entry : catalog[e] \notin index}
    BY <2>3 DEF Over
  <2> QED BY <2>4 DEF LoopInv, Counted
<1> QED BY <1>1, LoopInvAlways, PTL

(***************************************************************************)
(* What ProcessVendor returned is not changed by a goroutine of its own    *)
(* while it is published.                                                  *)
(***************************************************************************)
NothingAfterReturn ==
  [][Returned => UNCHANGED goroutines]_vars

THEOREM NothingAfterReturnCorrect == Spec => NothingAfterReturn
<1>1. LoopInv /\ [Next]_vars => [Returned => UNCHANGED goroutines]_vars
  <2> SUFFICES ASSUME LoopInv, Next, Returned PROVE UNCHANGED goroutines
    OBVIOUS
  <2>1. \A e \in Entry : worker[e] \in {"none", "done"}
    BY DEF LoopInv, Reached
  <2>2. \A e \in Entry : ~Goroutine(e)
    BY <2>1, GoroutineSteps DEF WorksOn, GivesItUp, KeepsIt, Leaves, Working
  <2>3. ~Begin
    BY DEF Begin, Returned
  <2> QED BY <2>2, <2>3 DEF Next, Loop, Skip, Select, Break, EndOfCatalog, Return, Cancel, goroutines
<1> QED BY <1>1, LoopInvAlways, PTL DEF Spec, NothingAfterReturn

-----------------------------------------------------------------------------
(***************************************************************************)
(* What is in the directories and the store.                               *)
(***************************************************************************)
DiskTypeOK ==
  /\ index \subseteq Names
  /\ disk \in [Names -> Directory \cup {Nothing}]
  /\ sealed \in [Entry -> Cabinet \cup {Nothing}]
  /\ \A package \in storage :
       package.name \in Cabinet \X Names /\ package.content \in Cabinet
  /\ faults \in 0 .. MaxFaults

LEMMA FoundTypes ==
  ASSUME LoopTypeOK, DiskTypeOK, NEW e \in Entry
  PROVE  /\ WorkDir(e) \in Names
         /\ There(e) => disk[WorkDir(e)] \in Directory
         /\ Found(e, "firmware") \in Content \cup {Nothing}
         /\ Found(e, "metainfo") \in Metainfo \cup {Nothing}
         /\ Found(e, "cabinet") \in Cabinet \cup {Nothing}
<1>1. WorkDir(e) \in Names
  BY DEF LoopTypeOK, WorkDir
<1>2. There(e) => disk[WorkDir(e)] \in Directory
  BY <1>1 DEF DiskTypeOK, There
<1>3. \A d \in Directory : /\ d["firmware"] \in Content \cup {Nothing}
                           /\ d["metainfo"] \in Metainfo \cup {Nothing}
                           /\ d["cabinet"] \in Cabinet \cup {Nothing}
  BY DEF Directory
<1> QED BY <1>1, <1>2, <1>3 DEF Found

\* What a step of a goroutine puts in its directory is a directory.
LEMMA PutTypes ==
  ASSUME LoopTypeOK, DiskTypeOK, NEW e \in Entry, NEW d \in Directory \cup {Nothing}, Put(e, d)
  PROVE  disk' \in [Names -> Directory \cup {Nothing}]
BY FoundTypes DEF DiskTypeOK, Put

\* A goroutine about to upload has taken the checksum of a CAB.
Sealed == \A e \in Entry : worker[e] = "upload" => sealed[e] # Nothing

LEMMA DiskInit == Init => DiskTypeOK /\ Sealed
BY WorkersAssumption DEF Init, DiskTypeOK, Sealed

LEMMA GoroutineKeepsDisk ==
  ASSUME LoopTypeOK, DiskTypeOK, Sealed, NEW e \in Entry, Goroutine(e)
  PROVE  DiskTypeOK'
<1> USE DEF Stays, TheLoop
<1>1. index' = index
  BY GoroutineSteps DEF WorksOn, GivesItUp, KeepsIt, Leaves
<1>2. faults' \in 0 .. MaxFaults
  BY WorkersAssumption DEF Goroutine, Fails, Clear, Download, Downloaded, Verify, WriteMetainfo,
     BuildCabinet, Seal, Upload, Keep, Leave, Fault, GivesUp, DiskTypeOK
<1>3. \A d : GivesUp(e) => disk' \in [Names -> Directory \cup {Nothing}] /\ UNCHANGED <<sealed, storage>>
  BY PutTypes DEF GivesUp
<1>4. ASSUME UNCHANGED <<sealed, storage>>, disk' \in [Names -> Directory \cup {Nothing}]
      PROVE  DiskTypeOK'
  BY <1>1, <1>2, <1>4 DEF DiskTypeOK
<1>5. CASE Fails(e)
  BY <1>3, <1>4, <1>5 DEF Fails
<1>6. CASE Clear(e)
  <2>1. Empty \in Directory
    BY DEF Empty, Directory
  <2> QED BY <1>4, <1>6, <2>1, PutTypes DEF Clear
<1>7. CASE Download(e)
  <2>1. [by |-> e, as |-> "partial"] \in Content
    BY DEF Content
  <2>2. There(e) => [disk[WorkDir(e)] EXCEPT !.firmware = [by |-> e, as |-> "partial"]] \in Directory
    BY <2>1, FoundTypes DEF Directory
  <2>3. CASE GivesUp(e)
    BY <1>3, <1>4, <2>3
  <2>4. CASE UNCHANGED <<disk, sealed, storage>>
    BY <1>4, <2>4 DEF DiskTypeOK
  <2>5. CASE /\ There(e) /\ Put(e, [disk[WorkDir(e)] EXCEPT !.firmware = [by |-> e, as |-> "partial"]])
             /\ UNCHANGED <<sealed, storage>>
    BY <1>4, <2>2, <2>5, PutTypes
  <2> QED BY <1>7, <2>3, <2>4, <2>5 DEF Download
<1>8. CASE Downloaded(e)
  <2>1. PICK as \in {"whole", "corrupt"} :
          IF Found(e, "firmware") = [by |-> e, as |-> "partial"]
          THEN Put(e, [disk[WorkDir(e)] EXCEPT !.firmware = [by |-> e, as |-> as]])
          ELSE UNCHANGED disk
    BY <1>8 DEF Downloaded
  <2>2. UNCHANGED <<sealed, storage>>
    BY <1>8 DEF Downloaded
  <2>3. CASE Found(e, "firmware") = [by |-> e, as |-> "partial"]
    <3>1. There(e) /\ [by |-> e, as |-> as] \in Content
      <4>1. [by |-> e, as |-> "partial"] \in Content
        BY DEF Content
      <4> QED BY <2>3, <4>1, NothingAssumption DEF Found, Content
    <3>2. [disk[WorkDir(e)] EXCEPT !.firmware = [by |-> e, as |-> as]] \in Directory
      BY <3>1, FoundTypes DEF Directory
    <3> QED BY <1>4, <2>1, <2>2, <2>3, <3>2, PutTypes
  <2>4. CASE Found(e, "firmware") # [by |-> e, as |-> "partial"]
    BY <1>4, <2>1, <2>2, <2>4 DEF DiskTypeOK
  <2> QED BY <2>3, <2>4
<1>9. CASE Verify(e)
  BY <1>3, <1>4, <1>9 DEF Verify, DiskTypeOK
<1>10. CASE WriteMetainfo(e)
  <2> DEFINE firmware == Found(e, "firmware")
             filled == [disk[WorkDir(e)] EXCEPT !.metainfo = [of |-> e, firmware |-> firmware]]
  <2>1. ASSUME firmware # Nothing PROVE filled \in Directory
    <3>1. firmware \in Content /\ disk[WorkDir(e)] \in Directory
      BY <2>1, FoundTypes DEF Found
    <3>2. [of |-> e, firmware |-> firmware] \in Metainfo
      BY <3>1 DEF Metainfo
    <3> HIDE DEF firmware
    <3> QED BY <3>1, <3>2 DEF Directory
  <2>2. CASE GivesUp(e)
    BY <1>3, <1>4, <2>2
  <2>3. CASE firmware # Nothing /\ Put(e, filled) /\ UNCHANGED <<sealed, storage>>
    BY <1>4, <2>1, <2>3, PutTypes
  <2> QED BY <1>10, <2>2, <2>3 DEF WriteMetainfo
<1>11. CASE BuildCabinet(e)
  <2> DEFINE firmware == Found(e, "firmware")
             metainfo == Found(e, "metainfo")
             filled == [disk[WorkDir(e)] EXCEPT
                         !.cabinet = [firmware |-> firmware, metainfo |-> metainfo]]
  <2>1. ASSUME Nothing \notin {firmware, metainfo} PROVE filled \in Directory
    <3>1. firmware \in Content /\ metainfo \in Metainfo /\ disk[WorkDir(e)] \in Directory
      BY <2>1, FoundTypes DEF Found
    <3>2. [firmware |-> firmware, metainfo |-> metainfo] \in Cabinet
      BY <3>1 DEF Cabinet
    <3> HIDE DEF firmware, metainfo
    <3> QED BY <3>1, <3>2 DEF Directory
  <2>2. CASE GivesUp(e)
    BY <1>3, <1>4, <2>2
  <2>3. CASE Nothing \notin {firmware, metainfo} /\ Put(e, filled) /\ UNCHANGED <<sealed, storage>>
    BY <1>4, <2>1, <2>3, PutTypes
  <2> QED BY <1>11, <2>2, <2>3 DEF BuildCabinet
<1>12. CASE Seal(e)
  <2>1. CASE GivesUp(e)
    BY <1>3, <1>4, <2>1
  <2>2. CASE /\ sealed' = [sealed EXCEPT ![e] = Found(e, "cabinet")]
             /\ UNCHANGED <<disk, storage>>
    BY <1>1, <1>2, <2>2, FoundTypes DEF DiskTypeOK
  <2> QED BY <1>12, <2>1, <2>2 DEF Seal
<1>13. CASE Upload(e)
  <2>1. CASE GivesUp(e)
    BY <1>3, <1>4, <2>1
  <2>2. CASE /\ worker[e] = "upload" /\ Found(e, "cabinet") # Nothing
             /\ storage' = {package \in storage : package.name # CabinetName(e)}
                           \cup {[name |-> CabinetName(e), content |-> Found(e, "cabinet")]}
             /\ UNCHANGED <<disk, sealed>>
    <3>1. Found(e, "cabinet") \in Cabinet /\ catalog[e] \in Names
      BY <2>2, FoundTypes DEF WorkDir
    <3>2. sealed[e] \in Cabinet
      BY <2>2 DEF DiskTypeOK, Sealed
    <3>3. CabinetName(e) \in Cabinet \X Names
      BY <3>1, <3>2 DEF CabinetName
    <3>4. \A package \in storage' :
             package.name \in Cabinet \X Names /\ package.content \in Cabinet
      BY <2>2, <3>1, <3>3 DEF DiskTypeOK
    <3> QED BY <1>1, <1>2, <2>2, <3>4 DEF DiskTypeOK
  <2> QED BY <1>13, <2>1, <2>2 DEF Upload
<1>14. CASE Keep(e)
  BY <1>4, <1>14, PutTypes DEF Keep
<1>15. CASE Leave(e)
  BY <1>4, <1>15 DEF Leave, DiskTypeOK
<1> QED BY <1>5, <1>6, <1>7, <1>8, <1>9, <1>10, <1>11, <1>12, <1>13, <1>14, <1>15 DEF Goroutine

LEMMA GoroutineKeepsSealed ==
  ASSUME LoopTypeOK, DiskTypeOK, Sealed, NEW e \in Entry, Goroutine(e)
  PROVE  Sealed'
<1>1. CASE Seal(e)
  BY <1>1, FoundTypes DEF Seal, GivesUp, Goto, LoopTypeOK, DiskTypeOK, Sealed
<1>2. CASE ~Seal(e)
  <2>1. UNCHANGED sealed
    BY <1>2 DEF Goroutine, Fails, Clear, Download, Downloaded, Verify, WriteMetainfo,
       BuildCabinet, Upload, Keep, Leave, GivesUp
  <2>2. PICK phase \in Phase \ {"upload"} : worker' = [worker EXCEPT ![e] = phase]
    BY <1>2 DEF Goroutine, Fails, Clear, Download, Downloaded, Verify, WriteMetainfo,
       BuildCabinet, Upload, Keep, Leave, GivesUp, Goto, Phase, Working
  <2> QED BY <2>1, <2>2 DEF LoopTypeOK, Sealed
<1> QED BY <1>1, <1>2

-----------------------------------------------------------------------------
(***************************************************************************)
(* What the goroutine of an entry that shares its file name with none has  *)
(* in its directory and in the store, at each point of its way.            *)
(***************************************************************************)
MetainfoFor(e) == [of |-> e, firmware |-> Firmware(e)]

CabinetFor(e) == [firmware |-> Firmware(e), metainfo |-> MetainfoFor(e)]

Stored(e) ==
  /\ sealed[e] = CabinetFor(e)
  /\ [name |-> CabinetName(e), content |-> CabinetFor(e)] \in storage

Verified(e) ==
  /\ worker[e] \in {"metainfo", "build", "seal", "upload"} => Found(e, "firmware") = Firmware(e)
  /\ worker[e] \in {"build", "seal", "upload"} => Found(e, "metainfo") = MetainfoFor(e)
  /\ worker[e] \in {"seal", "upload"} => Found(e, "cabinet") = CabinetFor(e)
  /\ worker[e] = "upload" => sealed[e] = CabinetFor(e)
  /\ worker[e] = "keep" \/ e \in new => Stored(e)

VerifiedInv == \A e \in Entry : AloneInName(e) => Verified(e)

\* The goroutine of another entry does not touch what one alone in its name has.
LEMMA OthersKeepVerified ==
  ASSUME LoopInv, DiskTypeOK, NEW e \in Entry, NEW other \in Entry \ {e},
         AloneInName(e), Verified(e), Goroutine(other)
  PROVE  Verified(e)'
<1>1. WorkDir(other) # WorkDir(e) /\ WorkDir(other) \in Names /\ WorkDir(e) \in Names
  BY DEF AloneInName, WorkDir, LoopInv, LoopTypeOK
<1>2. worker'[e] = worker[e] /\ (e \in new' <=> e \in new) /\ catalog' = catalog
  BY GoroutineSteps DEF WorksOn, GivesItUp, KeepsIt, Leaves, Goto, TheLoop, LoopInv, LoopTypeOK
<1>3. disk'[WorkDir(e)] = disk[WorkDir(e)]
  <2>1. \A d : Put(other, d) => disk'[WorkDir(e)] = disk[WorkDir(e)]
    BY <1>1 DEF Put, DiskTypeOK
  <2>2. disk' = disk \/ \E d : Put(other, d)
    BY DEF Goroutine, Fails, Clear, Download, Downloaded, Verify, WriteMetainfo,
       BuildCabinet, Seal, Upload, Keep, Leave, GivesUp
  <2> QED BY <2>1, <2>2
<1>4. There(e)' = There(e) /\ \A file : Found(e, file)' = Found(e, file)
  BY <1>2, <1>3 DEF There, Found, WorkDir
<1>5. sealed'[e] = sealed[e]
  BY DEF Goroutine, Fails, Clear, Download, Downloaded, Verify, WriteMetainfo,
     BuildCabinet, Seal, Upload, Keep, Leave, GivesUp, DiskTypeOK
<1>6. Stored(e) => Stored(e)'
  <2>1. CabinetName(other) # CabinetName(e) /\ CabinetName(e)' = CabinetName(e)
    BY <1>1, <1>2, <1>5 DEF CabinetName, WorkDir
  <2>2. storage' = storage \/ \E package : storage' = {p \in storage : p.name # CabinetName(other)} \cup {package}
    BY DEF Goroutine, Fails, Clear, Download, Downloaded, Verify, WriteMetainfo,
       BuildCabinet, Seal, Upload, Keep, Leave, GivesUp
  <2>3. [name |-> CabinetName(e), content |-> CabinetFor(e)].name = CabinetName(e)
    OBVIOUS
  <2> QED BY <1>5, <2>1, <2>2, <2>3 DEF Stored
<1> QED BY <1>2, <1>4, <1>5, <1>6 DEF Verified

\* Nor does its own break it.
LEMMA OwnKeepsVerified ==
  ASSUME LoopInv, DiskTypeOK, NEW e \in Entry, AloneInName(e), Verified(e), Goroutine(e)
  PROVE  Verified(e)'
<1> DEFINE name == WorkDir(e)
<1>1. name \in Names /\ catalog' = catalog /\ WorkDir(e)' = name
  BY GoroutineSteps DEF WorkDir, LoopInv, LoopTypeOK, WorksOn, GivesItUp, KeepsIt, Leaves, TheLoop
<1>2. \A d : Put(e, d) => disk'[name] = d
  BY <1>1 DEF Put, DiskTypeOK
<1>3. \A phase : Goto(e, phase) => worker'[e] = phase
  BY DEF Goto, LoopInv, LoopTypeOK
<1>4. /\ e \in new => worker[e] \in {"leave", "done"}
      /\ e \in new' => e \in new \/ worker[e] = "keep"
  BY GoroutineSteps DEF LoopInv, Counted, Over, WorksOn, GivesItUp, KeepsIt, Leaves
<1>5. Nothing \notin {Firmware(e), MetainfoFor(e), CabinetFor(e)}
  BY NothingAssumption DEF Firmware, MetainfoFor, CabinetFor, Content, Metainfo, Cabinet
<1>6. \A file : Found(e, file) # Nothing => There(e) /\ Found(e, file) = disk[name][file]
  BY DEF Found
<1>7. There(e) => disk[name] \in Directory
  BY FoundTypes DEF LoopInv
<1>8. \A file : Found(e, file)' = IF disk'[name] # Nothing THEN disk'[name][file] ELSE Nothing
  BY <1>1 DEF Found, There
<1> HIDE DEF name
<1>9. CASE worker'[e] \in {"leave", "done"} /\ (worker[e] # "keep") /\ UNCHANGED <<sealed, storage>>
  <2>1. Stored(e) => Stored(e)'
    BY <1>1, <1>9 DEF Stored, CabinetName
  <2> QED BY <1>4, <1>9, <2>1 DEF Verified
<1>10. CASE GivesUp(e) /\ worker[e] \in Working
  BY <1>3, <1>9, <1>10 DEF GivesUp, Working
<1>11. CASE worker'[e] \in {"download", "downloading", "verify"} /\ worker[e] \in Working
  BY <1>4, <1>11 DEF Verified, Working
<1>12. CASE Verify(e) /\ ~GivesUp(e)
  <2>1. worker[e] = "verify" /\ worker'[e] = "metainfo" /\ disk' = disk /\ Found(e, "firmware") = Firmware(e)
    BY <1>3, <1>12 DEF Verify
  <2>2. Found(e, "firmware")' = Found(e, "firmware")
    BY <1>1, <2>1 DEF Found, There, name
  <2> QED BY <1>4, <2>1, <2>2 DEF Verified
<1>13. CASE WriteMetainfo(e) /\ ~GivesUp(e)
  <2>1. /\ worker[e] = "metainfo" /\ worker'[e] = "build"
        /\ Found(e, "firmware") = Firmware(e)
        /\ disk'[name] = [disk[name] EXCEPT !.metainfo = MetainfoFor(e)]
    BY <1>2, <1>3, <1>13 DEF WriteMetainfo, Verified, name, MetainfoFor
  <2>2. disk[name] \in Directory /\ disk[name]["firmware"] = Firmware(e)
    BY <1>5, <1>6, <1>7, <2>1
  <2>3. disk'[name]["firmware"] = Firmware(e) /\ disk'[name]["metainfo"] = MetainfoFor(e)
    BY <2>1, <2>2 DEF Directory
  <2>4. disk'[name] # Nothing
    <3>1. MetainfoFor(e) \in Metainfo
      BY DEF MetainfoFor, Metainfo, Firmware, Content
    <3>2. disk'[name] \in Directory
      BY <2>1, <2>2, <3>1 DEF Directory
    <3> QED BY <3>2, NothingAssumption
  <2> QED BY <1>4, <1>8, <2>1, <2>3, <2>4 DEF Verified
<1>14. CASE BuildCabinet(e) /\ ~GivesUp(e)
  <2>1. /\ worker[e] = "build" /\ worker'[e] = "seal"
        /\ Found(e, "firmware") = Firmware(e) /\ Found(e, "metainfo") = MetainfoFor(e)
        /\ disk'[name] = [disk[name] EXCEPT !.cabinet = CabinetFor(e)]
    BY <1>2, <1>3, <1>14 DEF BuildCabinet, Verified, name, CabinetFor
  <2>2. /\ disk[name] \in Directory
        /\ disk[name]["firmware"] = Firmware(e) /\ disk[name]["metainfo"] = MetainfoFor(e)
    BY <1>5, <1>6, <1>7, <2>1
  <2>3. /\ disk'[name]["firmware"] = Firmware(e) /\ disk'[name]["metainfo"] = MetainfoFor(e)
        /\ disk'[name]["cabinet"] = CabinetFor(e)
    BY <2>1, <2>2 DEF Directory
  <2>4. disk'[name] # Nothing
    <3>1. CabinetFor(e) \in Cabinet
      BY DEF CabinetFor, Cabinet, MetainfoFor, Metainfo, Firmware, Content
    <3>2. disk'[name] \in Directory
      BY <2>1, <2>2, <3>1 DEF Directory
    <3> QED BY <3>2, NothingAssumption
  <2> QED BY <1>4, <1>8, <2>1, <2>3, <2>4 DEF Verified
<1>15. CASE Seal(e) /\ ~GivesUp(e)
  <2>1. /\ worker[e] = "seal" /\ worker'[e] = "upload" /\ disk' = disk
        /\ Found(e, "cabinet") = CabinetFor(e)
        /\ sealed'[e] = Found(e, "cabinet")
    BY <1>3, <1>15 DEF Seal, Verified, DiskTypeOK
  <2>2. \A file : Found(e, file)' = Found(e, file)
    BY <1>1, <2>1 DEF Found, There, name
  <2> QED BY <1>4, <2>1, <2>2 DEF Verified
<1>16. CASE Upload(e) /\ ~GivesUp(e)
  <2>1. /\ worker[e] = "upload" /\ worker'[e] = "keep" /\ sealed' = sealed
        /\ Found(e, "cabinet") = CabinetFor(e) /\ sealed[e] = CabinetFor(e)
        /\ [name |-> CabinetName(e), content |-> Found(e, "cabinet")] \in storage'
    BY <1>3, <1>16 DEF Upload, Verified
  <2>2. Stored(e)'
    BY <1>1, <2>1 DEF Stored, CabinetName
  <2> QED BY <2>1, <2>2 DEF Verified
<1>17. CASE Keep(e)
  <2>1. worker[e] = "keep" /\ worker'[e] = "leave" /\ UNCHANGED <<sealed, storage>>
    BY <1>3, <1>17 DEF Keep
  <2>2. Stored(e)'
    BY <1>1, <2>1 DEF Verified, Stored, CabinetName
  <2> QED BY <2>1, <2>2 DEF Verified
<1>18. CASE Fails(e)
  BY <1>10, <1>18 DEF Fails
<1>19. CASE Clear(e) \/ Download(e) \/ Downloaded(e)
  BY <1>3, <1>10, <1>11, <1>19 DEF Clear, Download, Downloaded, Working
<1>20. CASE Leave(e)
  BY <1>3, <1>9, <1>20 DEF Leave
<1>21. ASSUME GivesUp(e), Verify(e) \/ WriteMetainfo(e) \/ BuildCabinet(e) \/ Seal(e) \/ Upload(e)
       PROVE  Verified(e)'
  BY <1>10, <1>21 DEF Verify, WriteMetainfo, BuildCabinet, Seal, Upload, Working
<1> QED BY <1>12, <1>13, <1>14, <1>15, <1>16, <1>17, <1>18, <1>19, <1>20, <1>21 DEF Goroutine

LEMMA GoroutineKeepsVerified ==
  ASSUME LoopInv, DiskTypeOK, VerifiedInv, NEW e \in Entry, Goroutine(e)
  PROVE  VerifiedInv'
<1> SUFFICES ASSUME NEW x \in Entry, AloneInName(x)' PROVE Verified(x)'
  BY DEF VerifiedInv
<1>1. catalog' = catalog
  BY GoroutineSteps DEF WorksOn, GivesItUp, KeepsIt, Leaves, TheLoop
<1>2. AloneInName(x) /\ Verified(x)
  BY <1>1 DEF AloneInName, VerifiedInv
<1> QED BY <1>2, OwnKeepsVerified, OthersKeepVerified

-----------------------------------------------------------------------------
(***************************************************************************)
(* The invariant of all of it.                                             *)
(***************************************************************************)
Inv == LoopInv /\ DiskTypeOK /\ Sealed /\ VerifiedInv

LEMMA InvInit == Init => Inv
<1>1. Init => VerifiedInv
  BY DEF Init, VerifiedInv, Verified
<1> QED BY <1>1, LoopInit, DiskInit DEF Inv

\* What the loop does disturbs no directory and no package.
LEMMA LoopKeepsVerified ==
  ASSUME Inv, UNCHANGED <<catalog, index, disk, sealed, storage, new, faults>>,
         \A e \in Entry : worker'[e] \in {worker[e], "clear"}
  PROVE  DiskTypeOK' /\ Sealed' /\ VerifiedInv'
<1>1. DiskTypeOK' /\ Sealed'
  BY DEF Inv, DiskTypeOK, Sealed
<1>2. \A e \in Entry : /\ AloneInName(e)' = AloneInName(e)
                       /\ Stored(e)' = Stored(e)
                       /\ \A file : Found(e, file)' = Found(e, file)
  BY DEF AloneInName, Stored, CabinetName, Found, There, WorkDir
<1>3. VerifiedInv'
  BY <1>2 DEF Inv, VerifiedInv, Verified
<1> QED BY <1>1, <1>3

LEMMA NextKeepsInv ==
  ASSUME Inv, [Next]_vars
  PROVE  Inv'
<1> USE DEF Inv
<1>1. CASE UNCHANGED vars
  <2>1. LoopInv'
    BY <1>1 DEF vars, goroutines, LoopInv, LoopTypeOK, SlotsHeld, Active, Reached, Returned,
                Counted, Over
  <2> QED BY <1>1, <2>1, LoopKeepsVerified DEF vars, goroutines
<1>2. CASE Skip \/ Select \/ Break \/ EndOfCatalog \/ Return \/ Cancel
  <2>1. UNCHANGED <<catalog, index, worker, disk, sealed, storage, new, faults>>
    BY <1>2 DEF Skip, Select, Break, EndOfCatalog, Return, Cancel, goroutines
  <2> QED BY <1>2, <2>1, LoopKeepsInv, LoopKeepsVerified
<1>3. CASE Begin
  <2>1. \A e \in Entry : worker'[e] \in {worker[e], "clear"}
    BY <1>3 DEF Begin, Goto, LoopInv, LoopTypeOK
  <2> QED BY <1>3, <2>1, BeginKeepsInv, LoopKeepsVerified DEF Begin
<1>4. ASSUME NEW e \in Entry, Goroutine(e) PROVE Inv'
  BY <1>4, GoroutineKeepsInv, GoroutineKeepsDisk, GoroutineKeepsSealed, GoroutineKeepsVerified
     DEF LoopInv
<1> QED BY <1>1, <1>2, <1>3, <1>4 DEF Next, Loop

LEMMA InvAlways == Spec => []Inv
BY InvInit, NextKeepsInv, PTL DEF Spec

(***************************************************************************)
(* Type correctness; with the bounds on the counts, which follow from what *)
(* they count.                                                             *)
(***************************************************************************)
THEOREM WorkersTypeCorrect == Spec => []TypeOK
<1> DEFINE ContextTypeOK == cancelled \in BOOLEAN
<1>1. Init => ContextTypeOK
  BY DEF Init
<1>2. ContextTypeOK /\ [Next]_vars => ContextTypeOK'
  <2>1. Next => cancelled' \in {cancelled, TRUE}
    <3>1. \A e \in Entry : Goroutine(e) => cancelled' = cancelled
      BY GoroutineSteps DEF WorksOn, GivesItUp, KeepsIt, Leaves, TheLoop
    <3> QED BY <3>1 DEF Next, Loop, Skip, Select, Begin, Break, EndOfCatalog, Return, Cancel
  <2> QED BY <2>1 DEF vars
<1>3. Spec => []ContextTypeOK
  <2> HIDE DEF ContextTypeOK
  <2> QED BY <1>1, <1>2, PTL DEF Spec
<1>4. Inv => processed \in 0 .. Entries /\ errors \in 0 .. Entries
  BY EntriesFinite, WorkersAssumption DEF Inv, LoopInv, LoopTypeOK, Counted, Over
<1>5. Inv /\ ContextTypeOK => TypeOK
  BY <1>4, Zenon DEF Inv, LoopInv, LoopTypeOK, DiskTypeOK, TypeOK
<1> QED BY <1>3, <1>5, InvAlways, PTL

(***************************************************************************)
(* What an entry alone in its file name is published with is the firmware  *)
(* the catalog means, with its own metainfo, under the checksum it has,    *)
(* whatever the other goroutines, the faults and the end of the context    *)
(* interleave with.                                                        *)
(***************************************************************************)
THEOREM PublishesWhatWasVerifiedCorrect == Spec => []PublishesWhatWasVerified
<1>1. Inv => PublishesWhatWasVerified
  BY DEF Inv, LoopInv, LoopTypeOK, VerifiedInv, Verified, Stored, CabinetFor, MetainfoFor,
         PublishesWhatWasVerified
<1> QED BY <1>1, InvAlways, PTL
-----------------------------------------------------------------------------
(***************************************************************************)
(* The refinement.  A package has its name from the checksum its goroutine *)
(* took, so that it has none before.                                       *)
(***************************************************************************)
Named ==
  /\ \A e \in Entry : worker[e] \in {"none"} \cup (Working \ {"upload"}) => sealed[e] = Nothing
  /\ \A e \in Entry : worker[e] = "keep" => e \in HasPackage

\* What a step of a goroutine leaves of the checksums and the packages: it
\* takes one, it stores one, or it leaves them alone.
SealsIt(e) ==
  /\ worker[e] = "seal" /\ Goto(e, "upload")
  /\ \E cabinet : sealed' = [sealed EXCEPT ![e] = cabinet]
  /\ UNCHANGED storage

StoresIt(e) ==
  /\ worker[e] = "upload" /\ Goto(e, "keep")
  /\ \E content : storage' = {package \in storage : package.name # CabinetName(e)}
                              \cup {[name |-> CabinetName(e), content |-> content]}
  /\ UNCHANGED sealed

LEMMA PackageSteps ==
  ASSUME NEW e \in Entry, Goroutine(e)
  PROVE  \/ SealsIt(e)
         \/ StoresIt(e)
         \/ /\ \E phase \in Phase \ {"none", "clear", "upload", "keep"} : Goto(e, phase)
            /\ worker[e] # "none"
            /\ UNCHANGED <<sealed, storage>>
<1> USE DEF Working, Phase
<1>1. CASE Seal(e)
  BY <1>1 DEF Seal, GivesUp, SealsIt
<1>2. CASE Upload(e)
  BY <1>2 DEF Upload, GivesUp, StoresIt
<1>3. CASE ~Seal(e) /\ ~Upload(e)
  BY <1>3 DEF Goroutine, Fails, Clear, Download, Downloaded, Verify, WriteMetainfo, BuildCabinet,
              Keep, Leave, GivesUp
<1> QED BY <1>1, <1>2, <1>3

\* Packages stay, under their names.
LEMMA PackagesGrow ==
  ASSUME Inv, Named, NEW e \in Entry, Goroutine(e)
  PROVE  HasPackage \subseteq HasPackage' /\ Named'
<1>1. catalog' = catalog
  BY GoroutineSteps DEF WorksOn, GivesItUp, KeepsIt, Leaves, TheLoop
<1>2. \A phase : Goto(e, phase) => worker' = [worker EXCEPT ![e] = phase]
  BY DEF Goto
<1>3. worker \in [Entry -> Phase] /\ sealed \in [Entry -> Cabinet \cup {Nothing}]
  BY DEF Inv, LoopInv, LoopTypeOK, DiskTypeOK
<1>4. CASE SealsIt(e)
  <2>1. CabinetName(e) = <<Nothing, catalog[e]>>
    BY <1>4 DEF SealsIt, Named, CabinetName, Working
  <2>2. e \notin HasPackage
    BY <2>1, NothingAssumption DEF Inv, DiskTypeOK, HasPackage
  <2>3. \A x \in Entry \ {e} : CabinetName(x)' = CabinetName(x)
    BY <1>1, <1>3, <1>4 DEF SealsIt, CabinetName
  <2>4. HasPackage \subseteq HasPackage'
    BY <1>4, <2>2, <2>3 DEF SealsIt, HasPackage
  <2> QED BY <1>2, <1>3, <1>4, <2>4 DEF SealsIt, Named, Working
<1>5. CASE StoresIt(e)
  <2>1. \A x \in Entry : CabinetName(x)' = CabinetName(x)
    BY <1>1, <1>5 DEF StoresIt, CabinetName
  <2>2. PICK content : storage' = {package \in storage : package.name # CabinetName(e)}
                                   \cup {[name |-> CabinetName(e), content |-> content]}
    BY <1>5 DEF StoresIt
  <2>3. [name |-> CabinetName(e), content |-> content].name = CabinetName(e)
    OBVIOUS
  <2>4. HasPackage \subseteq HasPackage' /\ e \in HasPackage'
    BY <2>1, <2>2, <2>3 DEF HasPackage
  <2> QED BY <1>2, <1>3, <1>5, <2>4 DEF StoresIt, Named, Working
<1>6. CASE /\ \E phase \in Phase \ {"none", "clear", "upload", "keep"} : Goto(e, phase)
           /\ worker[e] # "none"
           /\ UNCHANGED <<sealed, storage>>
  <2>1. HasPackage' = HasPackage
    BY <1>1, <1>6 DEF HasPackage, CabinetName
  <2>2. worker[e] \in {"upload", "keep", "leave", "done"} => worker'[e] \in {"leave", "done"}
    BY <1>3, GoroutineSteps, <1>6 DEF Goroutine, Fails, Clear, Download, Downloaded, Verify,
       WriteMetainfo, BuildCabinet, Seal, Upload, Keep, Leave, GivesUp, Goto
  <2> QED BY <1>2, <1>3, <1>6, <2>1, <2>2 DEF Named, Working, Phase
<1> QED BY <1>4, <1>5, <1>6, PackageSteps

NamedInv == Inv /\ Named

LEMMA NamedAlways == Spec => []NamedInv
<1>1. Init => Named
  BY DEF Init, Named, Working
<1>2. NamedInv /\ [Next]_vars => Named'
  <2> SUFFICES ASSUME NamedInv, [Next]_vars PROVE Named'
    OBVIOUS
  <2>1. CASE /\ UNCHANGED <<catalog, sealed, storage>>
             /\ \A e \in Entry : \/ worker'[e] = worker[e]
                                 \/ worker[e] = "none" /\ worker'[e] = "clear"
    BY <2>1, Zenon DEF NamedInv, Named, HasPackage, CabinetName, Working
  <2>2. CASE UNCHANGED <<catalog, sealed, storage, worker>>
    BY <2>1, <2>2
  <2>3. CASE Begin
    <3>1. reached \in Entry /\ worker[reached] = "none" /\ worker' = [worker EXCEPT ![reached] = "clear"]
      BY <2>3, WorkersAssumption DEF NamedInv, Inv, LoopInv, LoopTypeOK, Reached, Begin, Goto, Entry
    <3> QED BY <2>1, <2>3, <3>1 DEF Begin, NamedInv, Inv, LoopInv, LoopTypeOK
  <2>4. ASSUME NEW e \in Entry, Goroutine(e) PROVE Named'
    BY <2>4, PackagesGrow DEF NamedInv
  <2> QED BY <2>2, <2>3, <2>4 DEF Next, Loop, Skip, Select, Break, EndOfCatalog, Return, Cancel,
                                  vars, goroutines
<1> QED BY <1>1, <1>2, InvInit, NextKeepsInv, PTL DEF Spec, NamedInv

\* What the mapping shows of a goroutine: it stores something, it mirrors or
\* fails its entry, or nothing.
LEMMA GoroutineImplements ==
  ASSUME NamedInv, NEW e \in Entry, Goroutine(e)
  PROVE  [Promise!Next]_(Promise!mirroringVars)
<1> USE DEF NamedInv, Inv, LoopInv
<1>1. UNCHANGED <<catalog, index, cancelled, loop>>
  BY GoroutineSteps DEF WorksOn, GivesItUp, KeepsIt, Leaves, TheLoop
<1>2. worker[e] \notin {"none", "done"} /\ worker \in [Entry -> Phase]
  BY GoroutineSteps DEF WorksOn, GivesItUp, KeepsIt, Leaves, Working, LoopTypeOK
<1>3. ~Returned /\ ~Returned'
  BY <1>1, <1>2 DEF Reached, Returned
<1>4. HasPackage \subseteq HasPackage' /\ HasPackage' \subseteq Entry
  BY PackagesGrow DEF HasPackage
<1>5. catalog[e] \notin index
  BY <1>2, WorkersAssumption DEF Reached, LoopTypeOK, Entry
<1>6. CASE WorksOn(e) \/ Leaves(e)
  <2>1. Over' = Over /\ new' = new
    BY <1>2, <1>6 DEF WorksOn, Leaves, Goto, Over, Working
  <2>2. Awaited' = Awaited
    BY <1>1, <1>3, <2>1 DEF Awaited
  <2>3. Promise!Store(HasPackage' \ HasPackage)
    BY <1>1, <1>3, <1>4, <2>1, <2>2 DEF Promise!Store
  <2> QED BY <1>4, <2>3 DEF Promise!Next
<1>7. CASE GivesItUp(e) \/ KeepsIt(e)
  <2>1. Over' = Over \cup {e} /\ e \in Awaited /\ e \notin new
    BY <1>2, <1>3, <1>5, <1>7 DEF GivesItUp, KeepsIt, Goto, Over, Working, Awaited, Counted
  <2>2. Awaited' = Awaited \ {e}
    BY <1>1, <1>3, <2>1 DEF Awaited
  <2>3. HasPackage' = HasPackage
    <3>1. worker'[e] = "leave"
      BY <1>2, <1>7 DEF GivesItUp, KeepsIt, Goto
    <3>2. UNCHANGED <<sealed, storage>>
      BY <1>2, <3>1, PackageSteps DEF SealsIt, StoresIt, Goto
    <3> QED BY <1>1, <3>2 DEF HasPackage, CabinetName
  <2>4. CASE GivesItUp(e)
    <3>1. Promise!MirrorFails(e)
      BY <1>1, <1>3, <2>1, <2>2, <2>3, <2>4 DEF Promise!MirrorFails, GivesItUp
    <3> QED BY <3>1 DEF Promise!Next
  <2>5. CASE KeepsIt(e)
    <3>1. e \in HasPackage
      BY <2>5 DEF KeepsIt, Named
    <3>2. (Over \ new)' = Over \ new
      BY <1>3, <2>1, <2>5 DEF KeepsIt, Awaited
    <3>3. Promise!Mirror(e)
      BY <1>1, <1>3, <2>1, <2>2, <2>3, <2>5, <3>1, <3>2 DEF Promise!Mirror, KeepsIt
    <3> QED BY <3>3 DEF Promise!Next
  <2> QED BY <1>7, <2>4, <2>5
<1> QED BY <1>6, <1>7, GoroutineSteps

LEMMA ReturnImplements ==
  ASSUME NamedInv, Return
  PROVE  Promise!Return
<1> USE DEF NamedInv, Inv, LoopInv
<1>1. /\ loop = "wait" /\ loop' = Result
      /\ \A e \in Entry : worker[e] \in {"none", "done"}
      /\ UNCHANGED <<catalog, index, cancelled, worker, sealed, storage, new>>
  BY DEF Return, goroutines
<1>2. ~Returned /\ Returned'
  BY <1>1 DEF Returned, Result
<1>3. Over' = Over /\ HasPackage' = HasPackage
  BY <1>1 DEF Over, HasPackage, CabinetName
<1>4. Awaited' = {}
  BY <1>2 DEF Awaited
<1>5. cancelled \/ Awaited = {}
  <2> SUFFICES ASSUME ~cancelled PROVE Awaited = {}
    OBVIOUS
  <2>1. \A e \in Entry : e < reached
    BY <1>1, WorkersAssumption DEF Reached, Entry
  <2> QED BY <1>1, <1>2, <2>1 DEF Reached, Awaited, Over
<1>6. Result = IF new = {} /\ Over \ new # {} THEN "failed" ELSE "ok"
  <2>1. IsFiniteSet(Over) /\ IsFiniteSet(new) /\ Cardinality(Over) \in Nat /\ Cardinality(new) \in Nat
    BY EntriesFinite DEF Over, LoopTypeOK
  <2>2. (processed = 0 <=> new = {}) /\ (errors + processed = 0 <=> Over = {})
    BY <2>1, FS_EmptySet DEF Counted
  <2> QED BY <2>2 DEF Result, Counted, LoopTypeOK
<1> QED BY <1>1, <1>2, <1>3, <1>4, <1>5, <1>6 DEF Promise!Return

LEMMA NextImplements ==
  ASSUME NamedInv, [Next]_vars
  PROVE  [Promise!Next]_(Promise!mirroringVars)
<1>1. CASE UNCHANGED <<catalog, index, worker, sealed, storage, new>> /\ Returned' = Returned
           /\ (Returned => loop' = loop) /\ cancelled' \in {cancelled, TRUE}
  <2>1. UNCHANGED <<Awaited, HasPackage, new, Over \ new, IF Returned THEN loop ELSE "none">>
    BY <1>1 DEF Awaited, Over, HasPackage, CabinetName
  <2>2. cancelled' = cancelled => UNCHANGED Promise!mirroringVars
    BY <2>1 DEF Promise!mirroringVars
  <2>3. cancelled' = TRUE => Promise!Interrupt
    BY <2>1 DEF Promise!Interrupt
  <2> QED BY <1>1, <2>2, <2>3 DEF Promise!Next
<1>2. CASE Begin
  <2>1. worker' = [worker EXCEPT ![reached] = "clear"] /\ reached \in Entry /\ worker[reached] = "none"
        /\ worker \in [Entry -> Phase]
    BY <1>2, WorkersAssumption
       DEF NamedInv, Inv, LoopInv, LoopTypeOK, Reached, Begin, Goto, Entry
  <2>2. Over' = Over /\ ~Returned /\ ~Returned'
    BY <1>2, <2>1 DEF Over, Begin, Returned
  <2> QED BY <1>2, <2>2 DEF Begin, Awaited, HasPackage, CabinetName, Promise!mirroringVars
<1>3. CASE Return
  BY <1>3, ReturnImplements DEF Promise!Next
<1>4. CASE UNCHANGED vars \/ Skip \/ Select \/ Break \/ EndOfCatalog \/ Cancel
  <2>1. /\ UNCHANGED <<catalog, index, worker, sealed, storage, new>>
        /\ cancelled' \in {cancelled, TRUE}
    BY <1>4 DEF Skip, Select, Break, EndOfCatalog, Cancel, goroutines, vars
  <2>2. Returned' = Returned /\ (Returned => loop' = loop)
    BY <1>4 DEF Skip, Select, Break, EndOfCatalog, Cancel, vars, Returned
  <2> QED BY <1>1, <2>1, <2>2
<1>5. ASSUME NEW e \in Entry, Goroutine(e) PROVE [Promise!Next]_(Promise!mirroringVars)
  BY <1>5, GoroutineImplements
<1> QED BY <1>2, <1>3, <1>4, <1>5 DEF Next, Loop

(***************************************************************************)
(* ProcessVendor with its slots, goroutines, directories and counts is, to *)
(* the publish that follows, entries that are mirrored or fail one at a    *)
(* time: what it keeps is stored, it returns only when nothing is awaited  *)
(* or the context ended, with the verdict that what it kept calls for, and *)
(* nothing changes afterwards.                                             *)
(***************************************************************************)
THEOREM MirroringPromiseKept == Spec => MirroringPromise
<1>1. Init => Promise!Init
  <2> SUFFICES ASSUME Init PROVE Promise!Init
    OBVIOUS
  <2>1. Over = {} /\ HasPackage = {} /\ ~Returned /\ Awaited \in SUBSET Entry
    BY DEF Init, Over, HasPackage, Returned, Awaited
  <2> QED BY <2>1 DEF Init, Promise!Init
<1>2. NamedInv /\ [Next]_vars => [Promise!Next]_(Promise!mirroringVars)
  BY NextImplements
<1> QED BY <1>1, <1>2, NamedAlways, PTL DEF Spec, MirroringPromise, Promise!Spec
-----------------------------------------------------------------------------
(***************************************************************************)
(* That ProcessVendor returns, but for fairness: nobody waits for a slot   *)
(* that nobody gives back, and no step leads back.                         *)
(***************************************************************************)
\* The loop waits for a slot only while a goroutine at work holds one; and a
\* goroutine that leaves has one to give back, as a receive from the empty
\* semaphore would never end.
NobodyWaitsInVain ==
  /\ loop = "next" /\ slots = MaxConcurrency => Active # {}
  /\ \A e \in Entry : worker[e] = "leave" => slots > 0

\* How far a goroutine is, and how far the loop is.
Way(phase) ==
  CASE phase = "none"        -> 0
    [] phase = "clear"       -> 1
    [] phase = "download"    -> 2
    [] phase = "downloading" -> 3
    [] phase = "verify"      -> 4
    [] phase = "metainfo"    -> 5
    [] phase = "build"       -> 6
    [] phase = "seal"        -> 7
    [] phase = "upload"      -> 8
    [] phase = "keep"        -> 9
    [] phase = "leave"       -> 10
    [] phase = "done"        -> 11

LoopWay ==
  CASE loop = "next"  -> 2 * reached
    [] loop = "check" -> 2 * reached + 1
    [] loop = "wait"  -> 2 * Entries + 3
    [] OTHER          -> 2 * Entries + 4

\* Each step of the loop or of a goroutine takes one of them on, and none back.
OnlyForward ==
  [][ /\ LoopWay <= LoopWay'
      /\ \A e \in Entry : Way(worker[e]) <= Way(worker'[e])
      /\ ~Cancel => LoopWay < LoopWay' \/ \E e \in Entry : Way(worker[e]) < Way(worker'[e]) ]_vars

(***************************************************************************)
(* The slots cannot be what ProcessVendor hangs on, however the end of the *)
(* context and the loop that waits for a slot meet.                        *)
(***************************************************************************)
THEOREM NobodyWaitsInVainCorrect == Spec => []NobodyWaitsInVain
<1>1. LoopInv => NobodyWaitsInVain
  <2> SUFFICES ASSUME LoopInv PROVE NobodyWaitsInVain
    OBVIOUS
  <2>1. IsFiniteSet(Active) /\ Cardinality(Active) \in Nat /\ (Cardinality(Active) = 0 <=> Active = {})
    BY EntriesFinite, FS_EmptySet DEF Active
  <2>2. \A e \in Entry : worker[e] = "leave" => Active # {}
    BY DEF Active
  <2> QED BY <2>1, <2>2, WorkersAssumption DEF LoopInv, LoopTypeOK, SlotsHeld, NobodyWaitsInVain
<1> QED BY <1>1, LoopInvAlways, PTL

LEMMA GoroutineForward ==
  ASSUME NEW e \in Entry, Goroutine(e)
  PROVE  \E phase \in Phase : Goto(e, phase) /\ Way(worker[e]) < Way(phase)
<1> USE DEF Way, Phase, Working
<1>1. CASE Fails(e)
  BY <1>1 DEF Fails, GivesUp
<1>2. CASE Clear(e) \/ Download(e) \/ Downloaded(e)
  BY <1>2 DEF Clear, Download, Downloaded, GivesUp
<1>3. CASE Verify(e) \/ WriteMetainfo(e) \/ BuildCabinet(e)
  BY <1>3 DEF Verify, WriteMetainfo, BuildCabinet, GivesUp
<1>4. CASE Seal(e) \/ Upload(e) \/ Keep(e) \/ Leave(e)
  BY <1>4 DEF Seal, Upload, Keep, Leave, GivesUp
<1> QED BY <1>1, <1>2, <1>3, <1>4 DEF Goroutine

LEMMA LoopForward ==
  ASSUME LoopInv, Loop
  PROVE  LoopWay < LoopWay' /\ LoopWay <= LoopWay'
<1> USE WorkersAssumption DEF LoopInv, LoopTypeOK, LoopWay, Entry
<1>1. CASE Skip \/ Select \/ EndOfCatalog
  BY <1>1 DEF Skip, Select, EndOfCatalog
<1>2. CASE Begin \/ Break
  BY <1>2 DEF Begin, Break, Reached
<1>3. CASE Return
  BY <1>3 DEF Return, Result
<1> QED BY <1>1, <1>2, <1>3 DEF Loop

(***************************************************************************)
(* ProcessVendor takes at most 10 steps for each entry in a goroutine and  *)
(* 2 in the loop, however they interleave and whatever fails: there is no  *)
(* retry of an entry and no way back.  A fair run of it thus ends.         *)
(***************************************************************************)
THEOREM OnlyForwardCorrect == Spec => OnlyForward
<1> DEFINE Forward ==
      /\ LoopWay <= LoopWay'
      /\ \A e \in Entry : Way(worker[e]) <= Way(worker'[e])
      /\ ~Cancel => LoopWay < LoopWay' \/ \E e \in Entry : Way(worker[e]) < Way(worker'[e])
<1>1. ASSUME LoopInv, Next PROVE Forward
  <2>1. LoopWay \in Nat /\ \A phase \in Phase : Way(phase) \in Nat
    BY <1>1, WorkersAssumption DEF LoopInv, LoopTypeOK, LoopWay, Way, Phase, Working
  <2>2. worker \in [Entry -> Phase]
    BY <1>1 DEF LoopInv, LoopTypeOK
  <2>3. CASE Cancel
    <3>1. LoopWay' = LoopWay /\ worker' = worker
      BY <2>3 DEF Cancel, goroutines, LoopWay
    <3> QED BY <2>1, <2>2, <2>3, <3>1
  <2>4. CASE Loop
    <3>1. \A e \in Entry : Way(worker[e]) <= Way(worker'[e])
      <4>1. CASE Begin
        <5>1. reached \in Entry /\ worker[reached] = "none"
          BY <1>1, <4>1, WorkersAssumption DEF LoopInv, LoopTypeOK, Reached, Begin, Entry
        <5>2. Way("none") <= Way("clear")
          BY DEF Way
        <5> QED BY <2>1, <2>2, <4>1, <5>1, <5>2 DEF Begin, Goto
      <4>2. CASE ~Begin
        <5>1. worker' = worker
          BY <2>4, <4>2 DEF Loop, Skip, Select, Break, EndOfCatalog, Return, goroutines
        <5> QED BY <2>1, <2>2, <5>1
      <4> QED BY <4>1, <4>2
    <3>2. LoopWay < LoopWay' /\ LoopWay <= LoopWay'
      BY <1>1, <2>4, LoopForward
    <3> QED BY <3>1, <3>2
  <2>5. ASSUME NEW e \in Entry, Goroutine(e) PROVE Forward
    <3>1. PICK phase \in Phase : Goto(e, phase) /\ Way(worker[e]) < Way(phase)
      BY <2>5, GoroutineForward
    <3>2. LoopWay' = LoopWay
      BY <2>5, GoroutineSteps DEF WorksOn, GivesItUp, KeepsIt, Leaves, TheLoop, LoopWay
    <3>3. worker'[e] = phase /\ \A x \in Entry \ {e} : worker'[x] = worker[x]
      BY <2>2, <3>1 DEF Goto
    <3> QED BY <2>1, <2>2, <3>1, <3>2, <3>3
  <2> QED BY <1>1, <2>3, <2>4, <2>5 DEF Next
<1>2. LoopInv /\ [Next]_vars => [Forward]_vars
  BY <1>1
<1> QED BY <1>2, LoopInvAlways, PTL DEF Spec, OnlyForward
=============================================================================
