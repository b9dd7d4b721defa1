---------------------------- MODULE NodeLifecycle ----------------------------
(***************************************************************************)
(* cmd/node/main.go: main, Start and Stop, and the loops of the goroutines *)
(* that Start launches.  main runs Start and then waits for the goroutines *)
(* in n.wg; a goroutine of its own waits for a signal and runs Stop.  What *)
(* processBlock does with a block is the subject of Node.                  *)
(***************************************************************************)
EXTENDS Integers, Sequences, SequencesExt

CONSTANTS
    Launched,   \* the goroutines Start launches, in this order
    Receivers   \* those that read a channel which Stop closes

ASSUME LaunchedAssumption ==
    /\ Launched \in Seq(ToSet(Launched)) /\ Receivers \subseteq ToSet(Launched)

Goroutines == ToSet(Launched)

VARIABLES
    isRunning,    \* Node.isRunning
    cancelled,    \* n.context is done
    closed,       \* the channels are closed
    starting,     \* main: in Start before or after it sets isRunning, waiting, or at its end
    launched,     \* how many goroutines Start has launched
    loop,         \* what each of them does
    stopping,     \* the goroutine of the signal: what it does in Stop
    earlySignal,  \* history: Stop began while Start was launching
    nilReceived   \* history: a goroutine has read from a closed channel

lifecycleVars == <<isRunning, cancelled, closed, starting, launched, loop, stopping,
                   earlySignal, nilReceived>>

LifecycleTypeOK ==
    /\ {isRunning, cancelled, closed, earlySignal, nilReceived} \subseteq BOOLEAN
    /\ starting \in {"start", "launch", "wait", "exit"}
    /\ launched \in 0 .. Len(Launched)
    /\ loop \in [Goroutines -> {"none", "select", "busy", "done"}]
    /\ stopping \in {"waiting", "stop", "cancel", "wgWait", "close", "exit"}

LifecycleInit ==
    /\ isRunning = FALSE /\ cancelled = FALSE /\ closed = FALSE
    /\ starting = "start" /\ launched = 0
    /\ loop = [g \in Goroutines |-> "none"]
    /\ stopping = "waiting"
    /\ earlySignal = FALSE /\ nilReceived = FALSE

\* The process is over: os.Exit, the end of main, or a panic on a nil block.
Exited == starting = "exit" \/ stopping = "exit" \/ nilReceived

-----------------------------------------------------------------------------

Start ==
    /\ starting = "start"
    /\ isRunning' = TRUE
    /\ starting' = "launch"
    /\ UNCHANGED <<cancelled, closed, launched, loop, stopping, earlySignal, nilReceived>>

\* n.wg.Add(1); go ...
Launch ==
    /\ starting = "launch"
    /\ launched < Len(Launched)
    /\ launched' = launched + 1
    /\ loop' = [loop EXCEPT ![Launched[launched + 1]] = "select"]
    /\ starting' = IF launched + 1 = Len(Launched) THEN "wait" ELSE "launch"
    /\ UNCHANGED <<isRunning, cancelled, closed, stopping, earlySignal, nilReceived>>

WgIsZero == \A g \in Goroutines : loop[g] \in {"none", "done"}

\* main's own n.wg.Wait.
MainEnds ==
    /\ starting = "wait"
    /\ WgIsZero
    /\ starting' = "exit"
    /\ UNCHANGED <<isRunning, cancelled, closed, launched, loop, stopping, earlySignal, nilReceived>>

-----------------------------------------------------------------------------
(* The goroutines.                                                          *)

\* A block, a transaction, a request or a tick.
Receive(g) ==
    /\ loop[g] = "select"
    /\ g \in Receivers => ~ closed
    /\ loop' = [loop EXCEPT ![g] = "busy"]
    /\ UNCHANGED <<isRunning, cancelled, closed, starting, launched, stopping, earlySignal, nilReceived>>

Process(g) ==
    /\ loop[g] = "busy"
    /\ loop' = [loop EXCEPT ![g] = "select"]
    /\ UNCHANGED <<isRunning, cancelled, closed, starting, launched, stopping, earlySignal, nilReceived>>

\* A closed channel is always ready and yields nil.
ReceiveNil(g) ==
    /\ loop[g] = "select"
    /\ g \in Receivers
    /\ closed
    /\ nilReceived' = TRUE
    /\ UNCHANGED <<isRunning, cancelled, closed, starting, launched, loop, stopping, earlySignal>>

Done(g) ==
    /\ loop[g] = "select"
    /\ cancelled
    /\ loop' = [loop EXCEPT ![g] = "done"]
    /\ UNCHANGED <<isRunning, cancelled, closed, starting, launched, stopping, earlySignal, nilReceived>>

-----------------------------------------------------------------------------
(* The signal.                                                             *)

Signal ==
    /\ stopping = "waiting"
    /\ stopping' = "stop"
    /\ UNCHANGED <<isRunning, cancelled, closed, starting, launched, loop, earlySignal, nilReceived>>

\* Stop of a node that is not running returns, and the handler exits.
StopBegins ==
    /\ stopping = "stop"
    /\ stopping' = IF isRunning THEN "cancel" ELSE "exit"
    /\ isRunning' = FALSE
    /\ earlySignal' = (isRunning /\ starting = "launch")
    /\ UNCHANGED <<cancelled, closed, starting, launched, loop, nilReceived>>

\* Mutant: the context is not cancelled.
CancelForgotten ==
    /\ stopping = "cancel"
    /\ stopping' = "wgWait"
    /\ UNCHANGED <<isRunning, cancelled, closed, starting, launched, loop, earlySignal, nilReceived>>

Cancel ==
    /\ stopping = "cancel"
    /\ cancelled' = TRUE
    /\ stopping' = "wgWait"
    /\ UNCHANGED <<isRunning, closed, starting, launched, loop, earlySignal, nilReceived>>

\* Mutant: Stop does not wait.
StopWaitsNot ==
    /\ stopping = "wgWait"
    /\ stopping' = "close"
    /\ UNCHANGED <<isRunning, cancelled, closed, starting, launched, loop, earlySignal, nilReceived>>

StopWaits ==
    /\ stopping = "wgWait"
    /\ WgIsZero
    /\ stopping' = "close"
    /\ UNCHANGED <<isRunning, cancelled, closed, starting, launched, loop, earlySignal, nilReceived>>

CloseChannels ==
    /\ stopping = "close"
    /\ ~ closed
    /\ closed' = TRUE
    /\ UNCHANGED <<isRunning, cancelled, starting, launched, loop, stopping, earlySignal, nilReceived>>

\* Stop returns and the handler calls os.Exit.
StopReturns ==
    /\ stopping = "close"
    /\ closed
    /\ stopping' = "exit"
    /\ UNCHANGED <<isRunning, cancelled, closed, starting, launched, loop, earlySignal, nilReceived>>

StopStep == StopBegins \/ Cancel \/ StopWaits \/ CloseChannels \/ StopReturns

LifecycleNext ==
    /\ ~ Exited
    /\ \/ Start \/ Launch \/ MainEnds
       \/ \E g \in Goroutines : Receive(g) \/ Process(g) \/ ReceiveNil(g) \/ Done(g)
       \/ Signal
       \/ StopStep

\* Goroutines are scheduled.  A select takes a case that is ready again and
\* again in the end: Go chooses among the ready ones at random.
LifecycleFairness ==
    /\ WF_lifecycleVars(LifecycleNext /\ (Start \/ Launch))
    /\ WF_lifecycleVars(LifecycleNext /\ StopStep)
    /\ \A g \in Goroutines :
          /\ WF_lifecycleVars(LifecycleNext /\ Process(g))
          /\ SF_lifecycleVars(LifecycleNext /\ Done(g))

LifecycleSpec == LifecycleInit /\ [][LifecycleNext]_lifecycleVars /\ LifecycleFairness

-----------------------------------------------------------------------------

\* A goroutine reads nil from a closed channel, and panics on it, only when
\* the signal came while Start was still launching: then Stop finds n.wg at
\* zero, closes the channels, and Start launches readers of closed channels.
NilOnlyInStart == nilReceived => earlySignal

\* The process ends after a signal, whatever the goroutines are doing, and
\* with the channels closed only after the last of those launched before.
SignalEnds == stopping # "waiting" ~> Exited

=============================================================================
