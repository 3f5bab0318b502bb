------------------------------- MODULE Signals -------------------------------
(***************************************************************************)
(* How a firmirror process that publishes meets signals.  run registers a  *)
(* context for them, whose end asks the command to end; when the command   *)
(* is about to publish, endOnSecondSignal registers a channel of its own,  *)
(* so that a first signal does not end the process between the JCAT and    *)
(* the metadata, and a second one does.                                    *)
(*                                                                         *)
(* os/signal is modelled by what the code relies on: a signal nothing is   *)
(* registered for ends the process; any other is pending, once of each     *)
(* kind, until its turn comes, and is then sent to each channel that is    *)
(* registered, one after the other in any order and without waiting for    *)
(* room, while nothing is registered or stopped.  The context ends some    *)
(* time after its channel got one, be the other still to get it or not.    *)
(***************************************************************************)
EXTENDS Naturals, FiniteSets

CONSTANTS
  Kinds,       \* the kinds of signal sent: shutdownSignals, or some of them
  Commands,    \* the commands modelled, of "refresh" and "regen-metadata"
  MaxArrivals  \* bound on the signals sent

ASSUME SignalsAssumption ==
  /\ IsFiniteSet(Kinds)
  /\ Commands \subseteq {"refresh", "regen-metadata"}
  /\ MaxArrivals \in Nat

VARIABLES
  command,     \* what the process runs
  phase,       \* where the command is
  ended,       \* "no", "returned" or "killed"
  pending,     \* the signals not relayed yet
  relaying,    \* the channels that are still to get the one that is relayed
  ctxListens,  \* NotifyContext's channel is registered
  ctxQueued,   \* it holds a signal
  ctxDone,     \* the context is done
  listens,     \* the channel of endOnSecondSignal is registered
  signals,     \* how many signals it holds
  told,        \* what endOnSecondSignal saw of the context
  watcher,     \* the signal its goroutine waits for, if any
  arrived,     \* how many signals arrived
  heard,       \* how many did once the channel of endOnSecondSignal was registered
  afterwards,  \* how many did once the publish had begun
  halfRelayed  \* whether a signal was drained for before the channel got it

context == <<ctxListens, ctxQueued, ctxDone>>
channel == <<listens, signals, told, watcher>>
relay   == <<pending, relaying>>
history == <<arrived, heard, afterwards, halfRelayed>>
vars    == <<command, phase, ended, relay, context, channel, history>>

SignalBuffer == 2

Running == ended = "no"

(***************************************************************************)
(* Signals.                                                                *)
(***************************************************************************)
Arrives(kind) ==
  /\ Running
  /\ arrived < MaxArrivals
  /\ arrived' = arrived + 1
  /\ heard' = IF listens THEN heard + 1 ELSE heard
  /\ afterwards' = IF phase = "publishing" THEN afterwards + 1 ELSE afterwards
  /\ IF ctxListens \/ listens
     THEN /\ kind \notin pending
          /\ pending' = pending \cup {kind}
          /\ UNCHANGED ended
     ELSE /\ ended' = "killed"
          /\ UNCHANGED pending
  /\ UNCHANGED <<command, phase, relaying, context, channel, halfRelayed>>

Registered ==
  {c \in {"context", "second"} : IF c = "context" THEN ctxListens ELSE listens}

Relay(kind) ==
  /\ Running
  /\ relaying = {}
  /\ kind \in pending
  /\ pending' = pending \ {kind}
  /\ relaying' = Registered
  /\ UNCHANGED <<command, phase, ended, context, channel, history>>

\* Slip: the channel is taken to have room for any number of signals.
SendUnbounded(c) ==
  /\ Running
  /\ c \in relaying
  /\ relaying' = relaying \ {c}
  /\ ctxQueued' = (ctxQueued \/ c = "context")
  /\ signals' = IF c = "second" THEN signals + 1 ELSE signals
  /\ UNCHANGED <<command, phase, ended, pending, ctxListens, ctxDone, listens, told, watcher, history>>

Send(c) ==
  /\ Running
  /\ c \in relaying
  /\ relaying' = relaying \ {c}
  /\ ctxQueued' = (ctxQueued \/ c = "context")
  /\ signals' = IF c = "second" /\ signals < SignalBuffer THEN signals + 1 ELSE signals
  /\ UNCHANGED <<command, phase, ended, pending, ctxListens, ctxDone, listens, told, watcher, history>>

\* NotifyContext's goroutine ends the context.
EndContext ==
  /\ Running
  /\ ctxQueued /\ ~ctxDone
  /\ ctxDone' = TRUE
  /\ ctxQueued' = FALSE
  /\ UNCHANGED <<command, phase, ended, relay, ctxListens, channel, history>>

\* run's goroutine stops listening once the context is done.
StopListening ==
  /\ Running
  /\ relaying = {}
  /\ ctxDone /\ ctxListens
  /\ ctxListens' = FALSE
  /\ UNCHANGED <<command, phase, ended, relay, ctxQueued, ctxDone, channel, history>>

(***************************************************************************)
(* The command.                                                            *)
(***************************************************************************)
\* It fails before there is anything to publish.
GiveUp ==
  /\ Running
  /\ phase = "working"
  /\ ended' = "returned"
  /\ UNCHANGED <<command, phase, relay, context, channel, history>>

\* A refresh publishes what it mirrored, told to end or not; a regeneration told
\* to end during the load does not publish.
WorkEnds ==
  /\ Running
  /\ phase = "working"
  /\ IF command = "regen-metadata" /\ ctxDone
     THEN ended' = "returned" /\ UNCHANGED phase
     ELSE phase' = "register" /\ UNCHANGED ended
  /\ UNCHANGED <<command, relay, context, channel, history>>

Register ==
  /\ Running
  /\ phase = "register"
  /\ relaying = {}
  /\ listens' = TRUE
  /\ phase' = "look"
  /\ UNCHANGED <<command, ended, relay, context, signals, told, watcher, history>>

Look ==
  /\ Running
  /\ phase = "look"
  /\ told' = ctxDone
  /\ phase' = IF ctxDone THEN "drain" ELSE "watch"
  /\ UNCHANGED <<command, ended, relay, context, listens, signals, watcher, history>>

\* The one that ended the context is still to be sent to the channel.
NotSentYet == signals = 0 /\ "second" \in relaying

\* Slip: the signal that ended the context is left in the channel.
DrainNothing ==
  /\ Running
  /\ phase = "drain"
  /\ halfRelayed' = NotSentYet
  /\ phase' = "watch"
  /\ UNCHANGED <<command, ended, relay, context, channel, arrived, heard, afterwards>>

\* The signal that ended the context may be in the channel too.
Drain ==
  /\ Running
  /\ phase = "drain"
  /\ signals' = IF signals > 0 THEN signals - 1 ELSE 0
  /\ halfRelayed' = NotSentYet
  /\ phase' = "watch"
  /\ UNCHANGED <<command, ended, relay, context, listens, told, watcher, arrived, heard, afterwards>>

\* Slip: a context that is already done does not count as the first signal.
WatchFromFirst ==
  /\ Running
  /\ phase = "watch"
  /\ watcher' = "first"
  /\ phase' = IF command = "refresh" THEN "stop" ELSE "publishing"
  /\ UNCHANGED <<command, ended, relay, context, listens, signals, told, history>>

Watch ==
  /\ Running
  /\ phase = "watch"
  /\ watcher' = IF told THEN "second" ELSE "first"
  /\ phase' = IF command = "refresh" THEN "stop" ELSE "publishing"
  /\ UNCHANGED <<command, ended, relay, context, listens, signals, told, history>>

\* A refresh ends its context itself, and goes on without it.
Stop ==
  /\ Running
  /\ phase = "stop"
  /\ relaying = {}
  /\ ctxDone' = TRUE
  /\ ctxListens' = FALSE
  /\ phase' = "publishing"
  /\ UNCHANGED <<command, ended, relay, ctxQueued, channel, history>>

Published ==
  /\ Running
  /\ phase = "publishing"
  /\ ended' = "returned"
  /\ UNCHANGED <<command, phase, relay, context, channel, history>>

\* The goroutine of endOnSecondSignal.
TakeFirst ==
  /\ Running
  /\ watcher = "first" /\ signals > 0
  /\ signals' = signals - 1
  /\ watcher' = "second"
  /\ UNCHANGED <<command, phase, ended, relay, context, listens, told, history>>

TakeSecond ==
  /\ Running
  /\ watcher = "second" /\ signals > 0
  /\ signals' = signals - 1
  /\ ended' = "killed"
  /\ UNCHANGED <<command, phase, relay, context, listens, told, watcher, history>>

Init ==
  /\ command \in Commands
  /\ phase = "working"
  /\ ended = "no"
  /\ pending = {}
  /\ relaying = {}
  /\ ctxListens = TRUE
  /\ ctxQueued = FALSE
  /\ ctxDone = FALSE
  /\ listens = FALSE
  /\ signals = 0
  /\ told = FALSE
  /\ watcher = "none"
  /\ arrived = 0
  /\ heard = 0
  /\ afterwards = 0
  /\ halfRelayed = FALSE

\* What the process and the runtime do of themselves, but for the end of a
\* publish, which may hang on the store.
Progress ==
  \/ \E kind \in Kinds : Relay(kind)
  \/ \E c \in {"context", "second"} : Send(c)
  \/ EndContext
  \/ StopListening
  \/ WorkEnds
  \/ Register
  \/ Look
  \/ Drain
  \/ Watch
  \/ Stop
  \/ TakeFirst
  \/ TakeSecond

Next ==
  \/ \E kind \in Kinds : Arrives(kind)
  \/ Progress
  \/ GiveUp
  \/ Published

Spec == Init /\ [][Next]_vars

\* Every goroutine that can run does, and the runtime relays what is pending.
FairSpec ==
  /\ Spec
  /\ \A kind \in Kinds : WF_vars(Relay(kind))
  /\ \A c \in {"context", "second"} : WF_vars(Send(c))
  /\ WF_vars(EndContext)
  /\ WF_vars(StopListening)
  /\ WF_vars(WorkEnds \/ Register \/ Look \/ Drain \/ Watch \/ Stop)
  /\ WF_vars(TakeFirst \/ TakeSecond)

-----------------------------------------------------------------------------
(***************************************************************************)
(* Type invariant; the channel holds two signals at most.                  *)
(***************************************************************************)
TypeOK ==
  /\ command \in Commands
  /\ phase \in {"working", "register", "look", "drain", "watch", "stop", "publishing"}
  /\ ended \in {"no", "returned", "killed"}
  /\ pending \subseteq Kinds
  /\ relaying \subseteq Registered
  /\ ctxListens \in BOOLEAN /\ ctxQueued \in BOOLEAN /\ ctxDone \in BOOLEAN
  /\ listens \in BOOLEAN /\ told \in BOOLEAN
  /\ signals \in 0 .. SignalBuffer
  /\ watcher \in {"none", "first", "second"}
  /\ arrived \in 0 .. MaxArrivals
  /\ heard \in 0 .. arrived
  /\ afterwards \in 0 .. heard
  /\ halfRelayed \in BOOLEAN

(***************************************************************************)
(* A first signal alone ends the process neither by the default of a       *)
(* signal nothing listens for, nor for being taken twice (the order of     *)
(* Notify, the look at the context, the drain and stop), wherever it       *)
(* falls, with one exception: that it had ended the context but not        *)
(* reached the channel when that was drained.                              *)
(***************************************************************************)
FirstSignalNeverKillsUnlessHalfRelayed == ended = "killed" => arrived >= 2 \/ halfRelayed

(***************************************************************************)
(* The comment of endOnSecondSignal, which "ends the process on the signal *)
(* after the first" as "ending between the JCAT and the metadata leaves a  *)
(* JCAT that is not the metadata's": the first one does not end it.        *)
(***************************************************************************)
FirstSignalNeverKills == ended = "killed" => arrived >= 2

(***************************************************************************)
(* A publish that hangs can be ended: by two signals that arrive once      *)
(* endOnSecondSignal listens, wherever the look, the drain and stop fall   *)
(* between them, and by one that arrives while the publish runs when the   *)
(* command had been told to end before.                                    *)
(***************************************************************************)
SignalsEndThePublish ==
  phase = "publishing" /\ (heard >= 2 \/ (told /\ afterwards >= 1)) ~> ~Running
=============================================================================
