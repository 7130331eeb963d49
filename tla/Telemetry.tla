------------------------------ MODULE Telemetry ------------------------------
(***************************************************************************)
(* openframe/core/telemetry/setup.py: the process-wide state behind        *)
(* setup_telemetry and shutdown_telemetry.                                 *)
(*                                                                         *)
(* There is a provider for each of two signals, traces and metrics;        *)
(* `_tracer_provider` and `_meter_provider` are the two values of `ours`.  *)
(* The OpenTelemetry API is external: its global provider can be set once  *)
(* and a later set is silently rejected (README.md:317); a provider        *)
(* buffers what is recorded through it until it is exported, and drops it  *)
(* once it has been shut down.  get_tracer and get_meter lead to the       *)
(* global provider: their cache is cleared at shutdown, and a tracer taken *)
(* before the provider is set is bound by OpenTelemetry when it is set.    *)
(***************************************************************************)
EXTENDS Naturals

CONSTANT MaxSetups  \* bound: how often setup_telemetry creates providers

ASSUME TelemetryAssumption == MaxSetups \in Nat

VARIABLES
  initialised,  \* _INITIALISED
  made,         \* number of the last pair of providers created
  ours,         \* _tracer_provider and _meter_provider, or None
  global,       \* OpenTelemetry's global provider of each signal, or None
  closed,       \* the providers that have been shut down
  broken,       \* the providers whose shutdown() raised
  buffered      \* the providers that hold data not yet exported

otelVars == <<initialised, made, ours, global, closed, broken, buffered>>

Signals == {"traces", "metrics"}
None == 0
Foreign == MaxSetups + 1  \* a provider set by a test harness or a library
Providers == 1..Foreign

Init ==
  /\ initialised = FALSE
  /\ made = 0
  /\ ours = [s \in Signals |-> None]
  /\ global = [s \in Signals |-> None]
  /\ closed = [s \in Signals |-> {}]
  /\ broken = [s \in Signals |-> {}]
  /\ buffered = [s \in Signals |-> {}]

\* trace.set_tracer_provider, metrics.set_meter_provider
SetGlobal(S, p) ==
  global' = [s \in Signals |-> IF s \in S /\ global[s] = None THEN p ELSE global[s]]

SetByHarness(s) ==
  /\ SetGlobal({s}, Foreign)
  /\ UNCHANGED <<initialised, made, ours, closed, broken, buffered>>

Install ==
  /\ made < MaxSetups
  /\ made' = made + 1
  /\ ours' = [s \in Signals |-> made + 1]
  /\ SetGlobal(Signals, made + 1)
  /\ initialised' = TRUE
  /\ UNCHANGED <<closed, broken, buffered>>

\* Fault: without the _INITIALISED guard.
SetupAgain == Install

\* setup_telemetry; a call while initialised returns at once.
Setup == ~initialised /\ Install

\* Fault: one try block around both shutdowns, so that a tracer provider
\* that raises leaves the meter provider running.
ShutdownInOneTry(F) ==
  LET reached == IF "traces" \in F THEN {} ELSE Signals
  IN
  /\ closed' = [s \in Signals |->
       closed[s] \cup (IF s \in reached \ F THEN {ours[s]} \ {None} ELSE {})]
  /\ buffered' = [s \in Signals |->
       IF s \in reached \ F THEN buffered[s] \ {ours[s]} ELSE buffered[s]]
  /\ broken' = [s \in Signals |->
       broken[s] \cup (IF s \in F THEN {ours[s]} \ {None} ELSE {})]
  /\ ours' = [s \in Signals |-> None]
  /\ initialised' = FALSE
  /\ UNCHANGED <<made, global>>

\* Fault: the guard is not reset when a provider fails to shut down.
ShutdownKeepsGuard(F) ==
  /\ closed' = [s \in Signals |->
       closed[s] \cup (IF s \in F THEN {} ELSE {ours[s]} \ {None})]
  /\ buffered' = [s \in Signals |->
       IF s \in F THEN buffered[s] ELSE buffered[s] \ {ours[s]}]
  /\ broken' = [s \in Signals |->
       broken[s] \cup (IF s \in F THEN {ours[s]} \ {None} ELSE {})]
  /\ ours' = [s \in Signals |-> None]
  /\ initialised' = (initialised /\ F # {})
  /\ UNCHANGED <<made, global>>

\* shutdown_telemetry: each provider exports what it holds and stops, except
\* those of the signals F, whose shutdown() raises; the references and the
\* guard are reset in any case.
Shutdown(F) ==
  /\ closed' = [s \in Signals |->
       closed[s] \cup (IF s \in F THEN {} ELSE {ours[s]} \ {None})]
  /\ buffered' = [s \in Signals |->
       IF s \in F THEN buffered[s] ELSE buffered[s] \ {ours[s]}]
  /\ broken' = [s \in Signals |->
       broken[s] \cup (IF s \in F THEN {ours[s]} \ {None} ELSE {})]
  /\ ours' = [s \in Signals |-> None]
  /\ initialised' = FALSE
  /\ UNCHANGED <<made, global>>

\* A span ends, or a measurement is taken, through get_tracer or get_meter.
Emit(s) ==
  /\ buffered' =
       [buffered EXCEPT ![s] = @ \cup ({global[s]} \ (closed[s] \cup {None}))]
  /\ UNCHANGED <<initialised, made, ours, global, closed, broken>>

\* The exporter's background thread.
Export(s, p) ==
  /\ p \in buffered[s]
  /\ buffered' = [buffered EXCEPT ![s] = @ \ {p}]
  /\ UNCHANGED <<initialised, made, ours, global, closed, broken>>

Next ==
  \/ Setup
  \/ \E F \in SUBSET Signals : Shutdown(F)
  \/ \E s \in Signals :
       \/ SetByHarness(s)
       \/ Emit(s)
       \/ \E p \in Providers : Export(s, p)

Spec == Init /\ [][Next]_otelVars

-----------------------------------------------------------------------------
TypeOK ==
  /\ initialised \in BOOLEAN
  /\ made \in 0..MaxSetups
  /\ ours \in [Signals -> Providers \cup {None}]
  /\ global \in [Signals -> Providers \cup {None}]
  /\ closed \in [Signals -> SUBSET Providers]
  /\ broken \in [Signals -> SUBSET Providers]
  /\ buffered \in [Signals -> SUBSET Providers]
  /\ \A s \in Signals : initialised <=> ours[s] # None

\* What is buffered in a provider of setup_telemetry's is exported by the
\* next shutdown_telemetry: no repeated setup, repeated shutdown, provider
\* set by somebody else or failure of the other signal's provider puts it
\* out of reach.
NothingOrphaned ==
  \A s \in Signals : buffered[s] \subseteq {ours[s], Foreign} \cup broken[s]

\* What shutdown_telemetry says of itself and the code does not keep: it
\* resets the guard "so setup_telemetry() can run again".  What is recorded
\* while telemetry is initialised reaches a provider that is running.
SetupRevives ==
  initialised => \A s \in Signals : global[s] \notin closed[s]
=============================================================================
