---------------------------- MODULE SignalsProofs ----------------------------
(***************************************************************************)
(* Theorems about Signals, for any kinds and any number of signals: type   *)
(* correctness, and when the first signal can end the process.             *)
(***************************************************************************)
EXTENDS Signals, FiniteSetTheorems, TLAPS

\* The signals that were relayed or are being, when none has ended the process.
relayed == arrived - Cardinality(pending)

\* Those the channel of endOnSecondSignal holds or is about to be sent.
onTheWay == signals + (IF "second" \in relaying THEN 1 ELSE 0)

(***************************************************************************)
(* What the history of signals says.  One that was relayed is sent to the  *)
(* channel once at most, so what the channel holds or is about to be sent  *)
(* was relayed; and one more was, when the goroutine waits for the second  *)
(* signal only: it took the first from the channel, or the context was     *)
(* done, whose signal was drained if the channel had it, unless it was     *)
(* still on the way.                                                       *)
(***************************************************************************)
Counted ==
  /\ onTheWay <= relayed
  /\ relaying # {} \/ ctxQueued => relayed >= 1
  /\ ctxDone /\ phase \in {"working", "register", "look", "drain"} => relayed >= 1
  /\ phase \in {"drain", "watch"} /\ told => relayed >= 1
  /\ (phase = "watch" /\ told) \/ watcher = "second" =>
       halfRelayed \/ onTheWay < relayed

\* Without a signal, there is always something that listens.
Listened ==
  /\ phase \notin {"working", "register"} => listens
  /\ ~ctxListens => listens \/ arrived >= 1

\* The goroutine starts after the look at the context.
Watched == phase \notin {"stop", "publishing"} => watcher = "none"

SignalsInv ==
  /\ TypeOK
  /\ Counted
  /\ Listened
  /\ Watched
  /\ FirstSignalNeverKillsUnlessHalfRelayed

\* The pending signals are finitely many, as their kinds are.
LEMMA PendingFinite ==
  ASSUME TypeOK
  PROVE  IsFiniteSet(pending) /\ Cardinality(pending) \in Nat
<1>1. IsFiniteSet(pending)
  BY SignalsAssumption, FS_Subset DEF TypeOK
<1> QED
  BY <1>1, FS_CardinalityType

\* What is on its way to the channel is a number.
LEMMA OnTheWay == TypeOK => onTheWay \in Nat /\ onTheWay >= signals
BY DEF TypeOK, onTheWay, SignalBuffer

\* No signal has arrived yet.
LEMMA SignalsInit == Init => SignalsInv
<1> SUFFICES ASSUME Init PROVE SignalsInv
  OBVIOUS
<1>1. TypeOK
  <2>1. /\ signals \in 0 .. SignalBuffer /\ arrived \in 0 .. MaxArrivals
        /\ heard \in 0 .. arrived /\ afterwards \in 0 .. heard
    BY SignalsAssumption DEF Init, SignalBuffer
  <2> QED
    BY <2>1, Zenon DEF Init, TypeOK
<1>2. Cardinality(pending) = 0
  BY FS_EmptySet DEF Init
<1>3. Counted
  BY <1>2 DEF Init, Counted, relayed, onTheWay
<1>4. Listened /\ Watched /\ FirstSignalNeverKillsUnlessHalfRelayed
  BY DEF Init, Listened, Watched, FirstSignalNeverKillsUnlessHalfRelayed
<1> QED
  BY <1>1, <1>3, <1>4 DEF SignalsInv

\* A signal becomes pending; it ends the process only as the second one.
LEMMA ArrivesKeeps ==
  ASSUME SignalsInv, NEW kind \in Kinds, Arrives(kind)
  PROVE  SignalsInv'
<1> TypeOK /\ Counted /\ Listened /\ Watched /\ FirstSignalNeverKillsUnlessHalfRelayed
  BY DEF SignalsInv
<1>0. /\ UNCHANGED <<command, phase, relaying, ctxListens, ctxQueued, ctxDone, listens, signals,
                     told, watcher, halfRelayed>>
      /\ UNCHANGED <<onTheWay, Registered>>
      /\ arrived' = arrived + 1 /\ arrived < MaxArrivals
  BY DEF Arrives, onTheWay, Registered, context, channel
<1>1. TypeOK'
  <2>1. pending' \subseteq Kinds /\ ended' \in {"no", "returned", "killed"}
    BY DEF Arrives, TypeOK
  <2>2. arrived' \in 0 .. MaxArrivals /\ heard' \in 0 .. arrived'
    BY <1>0, SignalsAssumption DEF Arrives, TypeOK
  <2>3. afterwards' \in 0 .. heard'
    BY <1>0 DEF Arrives, TypeOK, Listened
  <2> QED
    BY <1>0, <2>1, <2>2, <2>3 DEF TypeOK
<1>2. Cardinality(pending)' \in {Cardinality(pending), Cardinality(pending) + 1}
  BY PendingFinite, FS_AddElement DEF Arrives
<1>3. relayed \in Int /\ relayed' \in {relayed, relayed + 1}
  BY <1>0, <1>2, PendingFinite DEF relayed, TypeOK
<1>4. Counted'
  BY <1>0, <1>3, OnTheWay DEF Counted
<1>5. Listened' /\ Watched'
  BY <1>0 DEF Listened, Watched, TypeOK
<1>6. FirstSignalNeverKillsUnlessHalfRelayed'
  BY <1>0 DEF Arrives, FirstSignalNeverKillsUnlessHalfRelayed, Listened, TypeOK, Running
<1> QED
  BY <1>1, <1>4, <1>5, <1>6 DEF SignalsInv

\* A signal whose turn it is counts, for any of the channels that are to get it.
LEMMA RelayKeeps ==
  ASSUME SignalsInv, NEW kind \in Kinds, Relay(kind)
  PROVE  SignalsInv'
<1> TypeOK /\ Counted /\ Listened /\ Watched /\ FirstSignalNeverKillsUnlessHalfRelayed
  BY DEF SignalsInv
<1>0. /\ UNCHANGED <<command, phase, ended, ctxListens, ctxQueued, ctxDone, listens, signals,
                     told, watcher, arrived, heard, afterwards, halfRelayed>>
      /\ UNCHANGED Registered
  BY DEF Relay, Registered, context, channel, history
<1>1. TypeOK'
  <2>1. pending' \subseteq Kinds /\ relaying' \subseteq Registered'
    BY <1>0 DEF Relay, TypeOK
  <2> QED
    BY <1>0, <2>1 DEF TypeOK
<1>2. Cardinality(pending)' = Cardinality(pending) - 1
  BY PendingFinite, FS_RemoveElement DEF Relay
<1>3. relayed \in Int /\ relayed' = relayed + 1 /\ Cardinality(pending)' \in Nat
  BY <1>0, <1>2, PendingFinite, FS_CardinalityType, FS_RemoveElement
  DEF Relay, relayed, TypeOK
<1>4. onTheWay = signals /\ onTheWay' \in {signals, signals + 1}
  BY <1>0 DEF Relay, onTheWay, TypeOK, SignalBuffer
<1>5. Counted'
  <2>1. signals \in Nat
    BY DEF TypeOK, SignalBuffer
  <2> QED
    BY <1>0, <1>3, <1>4, <2>1 DEF Counted
<1>6. Listened' /\ Watched' /\ FirstSignalNeverKillsUnlessHalfRelayed'
  BY <1>0 DEF Listened, Watched, FirstSignalNeverKillsUnlessHalfRelayed
<1> QED
  BY <1>1, <1>5, <1>6 DEF SignalsInv

\* What a channel is sent was on its way to it.
LEMMA SendKeeps ==
  ASSUME SignalsInv, NEW c, Send(c)
  PROVE  SignalsInv'
<1> TypeOK /\ Counted /\ Listened /\ Watched /\ FirstSignalNeverKillsUnlessHalfRelayed
  BY DEF SignalsInv
<1>0. /\ UNCHANGED <<command, phase, ended, pending, ctxListens, ctxDone, listens, told,
                     watcher, arrived, heard, afterwards, halfRelayed>>
      /\ UNCHANGED Registered
      /\ relaying' \subseteq relaying /\ relaying # {}
  BY DEF Send, Registered, history
<1>1. TypeOK'
  <2>1. /\ ctxQueued' \in BOOLEAN /\ signals' \in 0 .. SignalBuffer
        /\ relaying' \subseteq Registered'
    BY <1>0 DEF TypeOK, Send, SignalBuffer
  <2> QED
    BY <1>0, <2>1 DEF TypeOK
<1>2. relayed' = relayed /\ relayed >= 1 /\ relayed \in Int
  <2>1. relayed' = relayed
    BY <1>0 DEF relayed
  <2>2. relayed \in Int
    BY PendingFinite DEF relayed, TypeOK
  <2> QED
    BY <1>0, <2>1, <2>2 DEF Counted
<1>3. onTheWay' <= onTheWay /\ onTheWay \in Nat /\ onTheWay' \in Nat
  <2>1. signals \in Nat /\ signals' \in Nat
    BY <1>1 DEF TypeOK, SignalBuffer
  <2>2. CASE c = "second"
    BY <2>1, <2>2 DEF Send, onTheWay
  <2>3. CASE c # "second"
    BY <2>1, <2>3 DEF Send, onTheWay
  <2> QED
    BY <2>1, <2>2, <2>3
<1>4. Counted'
  BY <1>0, <1>2, <1>3 DEF Counted
<1>5. Listened' /\ Watched' /\ FirstSignalNeverKillsUnlessHalfRelayed'
  BY <1>0 DEF Listened, Watched, FirstSignalNeverKillsUnlessHalfRelayed
<1> QED
  BY <1>1, <1>4, <1>5 DEF SignalsInv

\* The context ends: that of a signal, whose goroutine then stops listening.
LEMMA ContextKeeps ==
  ASSUME SignalsInv, EndContext \/ StopListening
  PROVE  SignalsInv'
<1> TypeOK /\ Counted /\ Listened /\ Watched /\ FirstSignalNeverKillsUnlessHalfRelayed
  BY DEF SignalsInv
<1>0. /\ UNCHANGED <<command, phase, ended, pending, relaying, listens, signals, told, watcher,
                     arrived, heard, afterwards, halfRelayed, relayed, onTheWay>>
      /\ ctxListens' \in BOOLEAN /\ ctxQueued' \in BOOLEAN /\ ctxDone' \in BOOLEAN
  BY DEF EndContext, StopListening, relay, channel, history, relayed, onTheWay, TypeOK
<1>1. TypeOK'
  <2>1. relaying' \subseteq Registered'
    <3>1. CASE EndContext
      BY <1>0, <3>1 DEF EndContext, Registered, TypeOK
    <3>2. CASE StopListening
      BY <1>0, <3>2 DEF StopListening
    <3> QED
      BY <3>1, <3>2
  <2> QED
    BY <1>0, <2>1 DEF TypeOK
<1>2. Counted'
  BY <1>0 DEF Counted, EndContext, StopListening
<1>3. relayed >= 1 => arrived >= 1
  BY PendingFinite DEF relayed, TypeOK
<1>4. Listened'
  BY <1>0, <1>3 DEF Listened, Counted, EndContext, StopListening, TypeOK
<1> QED
  BY <1>0, <1>1, <1>2, <1>4 DEF SignalsInv, Watched, FirstSignalNeverKillsUnlessHalfRelayed

\* The drain takes the signal out that counts as the first, unless it is not there yet.
LEMMA DrainKeeps ==
  ASSUME SignalsInv, Drain
  PROVE  SignalsInv'
<1> TypeOK /\ Counted /\ Listened /\ Watched /\ FirstSignalNeverKillsUnlessHalfRelayed
  BY DEF SignalsInv
<1>0. /\ UNCHANGED <<command, ended, pending, relaying, ctxListens, ctxQueued, ctxDone, listens,
                     told, watcher, arrived, heard, afterwards, relayed, Registered>>
      /\ phase = "drain" /\ phase' = "watch" /\ halfRelayed' = NotSentYet
      /\ signals' = IF signals > 0 THEN signals - 1 ELSE 0
  BY DEF Drain, relay, context, relayed, Registered
<1>1. TypeOK'
  BY <1>0 DEF TypeOK, NotSentYet, SignalBuffer
<1>2. relayed \in Int /\ onTheWay \in Nat /\ onTheWay <= relayed /\ (told => relayed >= 1)
  BY <1>0, PendingFinite, OnTheWay DEF relayed, Counted, TypeOK
<1>3. /\ onTheWay' <= onTheWay
      /\ onTheWay' \in Nat
      /\ halfRelayed' \/ onTheWay' < onTheWay \/ onTheWay' = 0
  <2>1. signals \in Nat /\ signals' \in Nat
    BY <1>0 DEF TypeOK, SignalBuffer
  <2>2. CASE "second" \in relaying
    <3>1. signals = 0 => halfRelayed'
      BY <1>0, <2>2 DEF NotSentYet
    <3>2. onTheWay' <= onTheWay /\ onTheWay' \in Nat
      BY <1>0, <2>1, <2>2 DEF onTheWay
    <3>3. signals > 0 => onTheWay' < onTheWay
      BY <1>0, <2>1, <2>2 DEF onTheWay
    <3> QED
      BY <2>1, <3>1, <3>2, <3>3
  <2>3. CASE "second" \notin relaying
    BY <1>0, <2>1, <2>3 DEF onTheWay
  <2> QED
    BY <2>2, <2>3
<1>4. Counted'
  BY <1>0, <1>2, <1>3 DEF Counted, Watched
<1>5. Listened' /\ Watched'
  BY <1>0 DEF Listened, Watched
<1>6. FirstSignalNeverKillsUnlessHalfRelayed'
  BY <1>0 DEF Drain, Running, FirstSignalNeverKillsUnlessHalfRelayed
<1> QED
  BY <1>1, <1>4, <1>5, <1>6 DEF SignalsInv

\* The command registers, looks, starts the goroutine and publishes.
LEMMA CommandKeeps ==
  ASSUME SignalsInv, GiveUp \/ WorkEnds \/ Register \/ Look \/ Watch \/ Stop \/ Published
  PROVE  SignalsInv'
<1> TypeOK /\ Counted /\ Listened /\ Watched /\ FirstSignalNeverKillsUnlessHalfRelayed
  BY DEF SignalsInv
<1> USE DEF context, channel, relay, history
<1>1. /\ UNCHANGED <<command, pending, relaying, ctxQueued, signals, arrived, heard, afterwards,
                     halfRelayed, relayed, onTheWay>>
      /\ onTheWay \in Nat /\ relayed \in Int
  BY PendingFinite, OnTheWay
  DEF GiveUp, WorkEnds, Register, Look, Watch, Stop, Published, relayed, onTheWay, TypeOK
<1>2. CASE GiveUp \/ WorkEnds \/ Published
  <2>1. UNCHANGED <<listens, told, watcher, ctxListens, ctxDone, Registered>>
    BY <1>2 DEF GiveUp, WorkEnds, Published, Registered
  <2>2. TypeOK'
    BY <1>1, <1>2, <2>1 DEF GiveUp, WorkEnds, Published, TypeOK
  <2>3. Counted' /\ Listened' /\ Watched'
    BY <1>1, <1>2, <2>1 DEF GiveUp, WorkEnds, Published, Counted, Listened, Watched
  <2>4. ended' # "killed"
    BY <1>2 DEF GiveUp, WorkEnds, Published, Running
  <2> QED
    BY <2>2, <2>3, <2>4 DEF SignalsInv, FirstSignalNeverKillsUnlessHalfRelayed
<1>3. CASE Register
  <2>1. UNCHANGED <<ended, told, watcher, ctxListens, ctxDone>> /\ relaying = {} /\ phase' = "look"
    BY <1>3 DEF Register
  <2> QED
    BY <1>1, <1>3, <2>1 DEF Register, SignalsInv, TypeOK, Counted, Listened, Watched,
       FirstSignalNeverKillsUnlessHalfRelayed
<1>4. CASE Look
  <2>1. UNCHANGED <<ended, listens, watcher, ctxListens, ctxDone, Registered>>
    BY <1>4 DEF Look, Registered
  <2> QED
    BY <1>1, <1>4, <2>1 DEF Look, SignalsInv, TypeOK, Counted, Listened, Watched,
       FirstSignalNeverKillsUnlessHalfRelayed
<1>5. CASE Watch
  <2>1. UNCHANGED <<ended, listens, told, ctxListens, ctxDone, Registered>>
    BY <1>5 DEF Watch, Registered
  <2> QED
    BY <1>1, <1>5, <2>1 DEF Watch, SignalsInv, TypeOK, Counted, Listened, Watched,
       FirstSignalNeverKillsUnlessHalfRelayed
<1>6. CASE Stop
  <2>1. UNCHANGED <<ended, listens, told, watcher>> /\ relaying = {} /\ phase' = "publishing"
    BY <1>6 DEF Stop
  <2>2. ctxListens' = FALSE /\ ctxDone' = TRUE /\ listens
    BY <1>6 DEF Stop, Listened
  <2> QED
    BY <1>1, <2>1, <2>2 DEF SignalsInv, TypeOK, Counted, Listened, Watched,
       FirstSignalNeverKillsUnlessHalfRelayed
<1> QED
  BY <1>2, <1>3, <1>4, <1>5, <1>6

\* The goroutine takes the first signal, or ends the process at the second.
LEMMA GoroutineKeeps ==
  ASSUME SignalsInv, TakeFirst \/ TakeSecond
  PROVE  SignalsInv'
<1> TypeOK /\ Counted /\ Listened /\ Watched /\ FirstSignalNeverKillsUnlessHalfRelayed
  BY DEF SignalsInv
<1>1. /\ UNCHANGED <<command, phase, pending, relaying, ctxListens, ctxQueued, ctxDone, listens,
                     told, arrived, heard, afterwards, halfRelayed, relayed, Registered>>
      /\ signals > 0 /\ signals' = signals - 1
  BY DEF TakeFirst, TakeSecond, relayed, Registered, context, relay, history
<1>2. TypeOK'
  BY <1>1 DEF TakeFirst, TakeSecond, TypeOK, SignalBuffer
<1>3. relayed \in Int /\ onTheWay \in Nat /\ onTheWay' = onTheWay - 1 /\ onTheWay >= 1
  BY <1>1, PendingFinite, OnTheWay DEF relayed, onTheWay, TypeOK, SignalBuffer
<1>4. Counted' /\ Watched'
  BY <1>1, <1>3 DEF TakeFirst, TakeSecond, Counted, Watched
<1>5. TakeSecond => arrived >= 2 \/ halfRelayed
  <2>1. relayed <= arrived
    BY PendingFinite DEF relayed, TypeOK
  <2> QED
    BY <1>3, <2>1 DEF TakeSecond, Counted, TypeOK
<1>6. FirstSignalNeverKillsUnlessHalfRelayed'
  BY <1>1, <1>5 DEF TakeFirst, TakeSecond, Running, FirstSignalNeverKillsUnlessHalfRelayed
<1> QED
  BY <1>1, <1>2, <1>4, <1>6 DEF SignalsInv, Listened

LEMMA SignalsStep == SignalsInv /\ [Next]_vars => SignalsInv'
<1> SUFFICES ASSUME SignalsInv, [Next]_vars PROVE SignalsInv'
  OBVIOUS
<1>1. CASE Next
  BY <1>1, ArrivesKeeps, RelayKeeps, SendKeeps, ContextKeeps, DrainKeeps, CommandKeeps,
     GoroutineKeeps
  DEF Next, Progress
<1>2. CASE UNCHANGED vars
  BY <1>2 DEF vars, context, channel, relay, history, SignalsInv, TypeOK, Counted, Listened,
     Watched, FirstSignalNeverKillsUnlessHalfRelayed, relayed, onTheWay, Registered
<1> QED
  BY <1>1, <1>2

(***************************************************************************)
(* Type correctness: the channel never holds more than two signals, for    *)
(* any number that arrives (the buffer of endOnSecondSignal).              *)
(***************************************************************************)
THEOREM SignalsTypeCorrect == Spec => []TypeOK
<1>1. SignalsInv => TypeOK
  BY DEF SignalsInv
<1> QED
  BY <1>1, SignalsInit, SignalsStep, PTL DEF Spec

(***************************************************************************)
(* A first signal alone never ends the process, at whatever point of the   *)
(* registration, the look, the drain and the publish it arrives, unless    *)
(* it ended the context before it got to the channel that is then drained. *)
(***************************************************************************)
THEOREM FirstSignalNeverKillsUnlessHalfRelayedCorrect == Spec => []FirstSignalNeverKillsUnlessHalfRelayed
<1>1. SignalsInv => FirstSignalNeverKillsUnlessHalfRelayed
  BY DEF SignalsInv
<1> QED
  BY <1>1, SignalsInit, SignalsStep, PTL DEF Spec
=============================================================================
