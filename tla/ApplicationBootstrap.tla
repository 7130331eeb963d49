------------------------ MODULE ApplicationBootstrap ------------------------
(***************************************************************************)
(* openframe/core/runtime/bootstrap.py: start() and stop() around one      *)
(* PluginRegistry and the process's telemetry, as `async with` calls them: *)
(* stop() runs only after a start() that returned, and what either raises  *)
(* leaves the block.                                                       *)
(*                                                                         *)
(* start() runs configure() and the head of initialize_all, and stop() the *)
(* tail of shutdown_all and shutdown_telemetry(), without awaiting         *)
(* anything in between: each pair is one step.                             *)
(***************************************************************************)
EXTENDS Naturals, SequencesExt

CONSTANTS
  Clients, Ports, PortName, CapabilityOf, OwnInitTimeout, DefaultTimeout,
  CalledOnce, MayCancel,  \* as in PluginRegistry
  MaxSetups,              \* as in Telemetry
  Composed,               \* the ports given to compose()
  Configurations          \* the lists of ports that configure() may register

ASSUME BootstrapAssumption ==
  /\ Composed \in Seq(Ports)
  /\ Configurations \subseteq Seq(Ports)
  /\ MaxSetups \in Nat

VARIABLES
  plugins, initialized, pc, pos, batch, outcome, held,  \* PluginRegistry
  initialised, made, ours, global, closed, broken, buffered,  \* Telemetry
  phase,  \* where each task is: outside the block, starting, serving, stopping
  exit    \* how it last left the block

Reg == INSTANCE PluginRegistry
Otel == INSTANCE Telemetry

registryVars == <<plugins, initialized, pc, pos, batch, outcome, held>>
otelVars == <<initialised, made, ours, global, closed, broken, buffered>>
bootVars == <<phase, exit>>
vars == <<registryVars, otelVars, bootVars>>

\* compose(*ports) registers its ports when the bootstrap is built.
Init ==
  /\ plugins = Composed
  /\ Reg!NothingStarted
  /\ Otel!Init
  /\ phase = [t \in Clients |-> "out"]
  /\ exit = [t \in Clients |-> "none"]

\* configure() registers its ports in order, up to the first name that is
\* taken already, where it raises DuplicatePluginError.
Registrable(list, n) ==
  \A i \in 1..n :
    /\ ~Reg!NameTaken(PortName[list[i]])
    /\ \A j \in 1..(i - 1) : PortName[list[j]] # PortName[list[i]]

Accepted(list, n) ==
  /\ Registrable(list, n)
  /\ n < Len(list) => ~Registrable(list, n + 1)

Move(t, to, how) ==
  /\ phase' = [phase EXCEPT ![t] = to]
  /\ exit' = [exit EXCEPT ![t] = how]

\* Fault: a start that fails leaves the block before its rollback is over.
EnterBeforeRollback(t) ==
  /\ CASE pc'[t] = "initializing" -> Move(t, "starting", "none")
       [] pc'[t] = "rollingBack" -> Move(t, "out", "raised")
       [] outcome'[t] = "returned" -> Move(t, "serving", "none")
       [] OTHER -> Move(t, "out", outcome'[t])
  /\ UNCHANGED otelVars

\* Fault: a start that fails makes the next one set telemetry up anew.
EnterResetting(t) ==
  CASE pc'[t] # "idle" -> Move(t, "starting", "none") /\ UNCHANGED otelVars
    [] outcome'[t] = "returned" -> Move(t, "serving", "none") /\ UNCHANGED otelVars
    [] OTHER ->
         /\ Move(t, "out", outcome'[t])
         /\ initialised' = FALSE
         /\ ours' = [s \in Otel!Signals |-> Otel!None]
         /\ UNCHANGED <<made, global, closed, broken, buffered>>

\* Where start() is once its registry has made a step.
Enter(t) ==
  /\ CASE pc'[t] # "idle" -> Move(t, "starting", "none")
       [] outcome'[t] = "returned" -> Move(t, "serving", "none")
       [] OTHER -> Move(t, "out", outcome'[t])
  /\ UNCHANGED otelVars

\* Fault: stop() leaves the flush to the end of the process.
LeaveUnflushed(t) ==
  /\ UNCHANGED otelVars
  /\ CASE pc'[t] # "idle" -> Move(t, "stopping", "none")
       [] OTHER -> Move(t, "out", outcome'[t])

\* Fault: telemetry is shut down as soon as stop() is called.
LeaveFlushingFirst(t) ==
  /\ IF initialised
     THEN \E F \in SUBSET Otel!Signals : Otel!Shutdown(F)
     ELSE UNCHANGED otelVars
  /\ CASE pc'[t] # "idle" -> Move(t, "stopping", "none")
       [] OTHER -> Move(t, "out", outcome'[t])

\* Where stop() is once its registry has made a step: telemetry is shut down
\* when shutdown_all has returned.
Leave(t) ==
  \/ /\ pc'[t] # "idle"
     /\ Move(t, "stopping", "none")
     /\ UNCHANGED otelVars
  \/ /\ pc'[t] = "idle"
     /\ outcome'[t] = "returned"
     /\ Move(t, "out", "returned")
     /\ \E F \in SUBSET Otel!Signals : Otel!Shutdown(F)
  \/ /\ pc'[t] = "idle"
     /\ outcome'[t] = "cancelled"
     /\ Move(t, "out", "cancelled")
     /\ UNCHANGED otelVars

\* start(); what configure() registers may be decided at run time.
Start(t) ==
  /\ phase[t] = "out"
  /\ \E list \in Configurations : \E n \in 0..Len(list) :
       /\ Accepted(list, n)
       /\ plugins' = plugins \o SubSeq(list, 1, n)
       /\ \/ /\ n = Len(list)
             /\ Reg!BeginInitialize(t, plugins')
             /\ Enter(t)
          \/ /\ n < Len(list)
             /\ Move(t, "out", "raised")
             /\ UNCHANGED <<initialized, pc, pos, batch, outcome, held, otelVars>>

Starting(t) ==
  /\ phase[t] = "starting"
  /\ \/ Reg!InitOk(t)
     \/ Reg!InitRaises(t)
     \/ Reg!InitTimesOut(t)
     \/ Reg!PortDown(t)
     \/ Reg!Cancelled(t)
  /\ Enter(t)

\* stop()
Stop(t) ==
  /\ phase[t] = "serving"
  /\ Reg!ShutdownAll(t)
  /\ Leave(t)

Stopping(t) ==
  /\ phase[t] = "stopping"
  /\ Reg!PortDown(t) \/ Reg!Cancelled(t)
  /\ Leave(t)

\* register(), on the bootstrap or on its registry.
Register(p) ==
  /\ Reg!Register(p)
  /\ UNCHANGED <<otelVars, bootVars>>

\* The application sets telemetry up before it starts, and its ports and
\* requests record spans and measurements inside the block.
SetupTelemetry ==
  /\ \A t \in Clients : phase[t] = "out"
  /\ Otel!Setup
  /\ UNCHANGED <<registryVars, bootVars>>

Emit ==
  /\ \E t \in Clients : phase[t] # "out"
  /\ \E s \in Otel!Signals : Otel!Emit(s)
  /\ UNCHANGED <<registryVars, bootVars>>

Next ==
  \/ \E t \in Clients : Start(t) \/ Starting(t) \/ Stop(t) \/ Stopping(t)
  \/ \E p \in Ports : Register(p)
  \/ SetupTelemetry
  \/ Emit

Spec == Init /\ [][Next]_vars

\* Every shutdown() comes back.
FairSpec == Spec /\ \A t \in Clients : WF_vars(Stopping(t))

-----------------------------------------------------------------------------
\* The last conjunct: start() and stop() are where their registry calls are.
TypeOK ==
  /\ phase \in [Clients -> {"out", "starting", "serving", "stopping"}]
  /\ exit \in [Clients -> {"none", "returned", "raised", "cancelled"}]
  /\ \A t \in Clients :
       /\ pc[t] = "idle" <=> phase[t] \in {"out", "serving"}
       /\ pc[t] = "shuttingDown" <=> phase[t] = "stopping"

\* When start() returns, every port registered until then is up: also those
\* registered while it was already running.
ServesWithAllUp ==
  [][\A t \in Clients :
       phase[t] # "serving" /\ phase'[t] = "serving" => held' = Range(plugins)']_vars

\* Telemetry goes down only after the last port, whatever has happened in
\* earlier runs of the block: what the ports record while they shut down is
\* still exported (bootstrap.py:22-23).
TelemetryGoesLast == [][initialised /\ ~initialised' => held' = {}]_vars

\* A block that was left by a stop() that returned leaves nothing behind: no
\* port is up, nothing is waiting for an export that will not come.
LeavesNothing ==
  \A t \in Clients :
    (phase[t] = "out" /\ exit[t] = "returned") =>
      /\ held = {}
      /\ \A s \in Otel!Signals : buffered[s] \subseteq broken[s]

\* What a start() that failed inside `async with`, or a stop() that was
\* cancelled, has left unexported is never out of reach: the next stop() that
\* returns, or shutdown_telemetry() itself, still exports it.
UnflushedIsInReach ==
  \A s \in Otel!Signals : buffered[s] \subseteq {ours[s]} \cup broken[s]

\* A stop() that is not cancelled comes to its end and shuts telemetry down,
\* however many ports fail to shut down.
StopEnds ==
  \A t \in Clients :
    phase[t] = "stopping" ~>
      (phase[t] = "out" /\ (exit[t] = "cancelled" \/ ~initialised))
=============================================================================
