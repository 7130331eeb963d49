--------------------- MODULE ApplicationBootstrapProofs ---------------------
(***************************************************************************)
(* Theorems about ApplicationBootstrap for every set of ports, lists that  *)
(* configure() may register, and number of setups: what holds however many *)
(* tasks use the bootstrap, and what holds for the one that does.          *)
(***************************************************************************)
EXTENDS ApplicationBootstrap, SequenceTheorems, TLAPS

(***************************************************************************)
(* Any number of tasks: start() and stop() are where their registry calls  *)
(* are, and what telemetry holds stays in reach.                           *)
(***************************************************************************)
Where == {"idle", "initializing", "rollingBack", "shuttingDown"}

How == {"none", "returned", "raised", "cancelled"}

BootInv ==
  /\ pc \in [Clients -> Where]
  /\ outcome \in [Clients -> How]
  /\ TypeOK

\* A registry step of one task, as the bootstrap sees it.
CallStep(t, where, how) ==
  /\ where = "idle" => how # "none"
  /\ pc' = [pc EXCEPT ![t] = where]
  /\ outcome' = [outcome EXCEPT ![t] = how]

LEMMA StartCall ==
  ASSUME NEW t \in Clients, NEW list, Reg!BeginInitialize(t, list)
  PROVE  \/ CallStep(t, "idle", "returned")
         \/ CallStep(t, "initializing", "none")
  BY DEF Reg!BeginInitialize, Reg!End, Reg!Suspend, CallStep

LEMMA StartingCall ==
  ASSUME BootInv, NEW t \in Clients, phase[t] = "starting",
         \/ Reg!InitOk(t) \/ Reg!InitRaises(t) \/ Reg!InitTimesOut(t)
         \/ Reg!PortDown(t) \/ Reg!Cancelled(t)
  PROVE  \/ \E how \in {"returned", "raised", "cancelled"} : CallStep(t, "idle", how)
         \/ \E where \in {"initializing", "rollingBack"} : CallStep(t, where, "none")
<1>1. pc[t] \in {"initializing", "rollingBack"}
  BY DEF BootInv, TypeOK, Where
<1>2. CASE Reg!InitOk(t)
  BY <1>2 DEF Reg!InitOk, Reg!End, Reg!Suspend, CallStep
<1>3. CASE Reg!InitRaises(t) \/ Reg!InitTimesOut(t)
  BY <1>3 DEF Reg!InitRaises, Reg!InitTimesOut, Reg!RollBack, Reg!End, Reg!Suspend, CallStep
<1>4. CASE Reg!PortDown(t)
  BY <1>1, <1>4 DEF Reg!PortDown, Reg!End, Reg!Suspend, CallStep
<1>5. CASE Reg!Cancelled(t)
  BY <1>5 DEF Reg!Cancelled, Reg!End, CallStep
<1> QED
  BY <1>2, <1>3, <1>4, <1>5

LEMMA StopCall ==
  ASSUME BootInv, NEW t \in Clients,
         \/ phase[t] = "serving" /\ Reg!ShutdownAll(t)
         \/ phase[t] = "stopping" /\ (Reg!PortDown(t) \/ Reg!Cancelled(t))
  PROVE  \/ \E how \in {"returned", "cancelled"} : CallStep(t, "idle", how)
         \/ CallStep(t, "shuttingDown", "none")
<1>1. CASE Reg!ShutdownAll(t)
  BY <1>1 DEF Reg!ShutdownAll, Reg!End, Reg!Suspend, CallStep
<1>2. CASE phase[t] = "stopping" /\ Reg!PortDown(t)
  <2>1. pc[t] = "shuttingDown"
    BY <1>2 DEF BootInv, TypeOK
  <2> QED
    BY <1>2, <2>1 DEF Reg!PortDown, Reg!End, Reg!Suspend, CallStep
<1>3. CASE Reg!Cancelled(t)
  BY <1>3 DEF Reg!Cancelled, Reg!End, CallStep
<1> QED
  BY <1>1, <1>2, <1>3

\* A task that is moved to the phase its registry call is in.
LEMMA Moved ==
  ASSUME BootInv, NEW t \in Clients, NEW where \in Where, NEW how \in How,
         NEW to \in {"out", "starting", "serving", "stopping"}, NEW left \in How,
         pc' = [pc EXCEPT ![t] = where], outcome' = [outcome EXCEPT ![t] = how],
         Move(t, to, left),
         where = "idle" <=> to \in {"out", "serving"},
         where = "shuttingDown" <=> to = "stopping"
  PROVE  BootInv'
<1>1. /\ pc'[t] = where /\ phase'[t] = to
      /\ \A u \in Clients \ {t} : pc'[u] = pc[u] /\ phase'[u] = phase[u]
  BY DEF BootInv, TypeOK, Move
<1>2. /\ pc' \in [Clients -> Where] /\ outcome' \in [Clients -> How]
      /\ phase' \in [Clients -> {"out", "starting", "serving", "stopping"}]
      /\ exit' \in [Clients -> {"none", "returned", "raised", "cancelled"}]
  BY DEF BootInv, TypeOK, Move, How
<1>3. ASSUME NEW u \in Clients
      PROVE  /\ pc'[u] = "idle" <=> phase'[u] \in {"out", "serving"}
             /\ pc'[u] = "shuttingDown" <=> phase'[u] = "stopping"
  BY <1>1 DEF BootInv, TypeOK
<1> QED
  BY <1>2, <1>3 DEF BootInv, TypeOK

LEMMA Entered ==
  ASSUME BootInv, NEW t \in Clients, Enter(t),
         \/ \E how \in {"returned", "raised", "cancelled"} : CallStep(t, "idle", how)
         \/ \E where \in {"initializing", "rollingBack"} : CallStep(t, where, "none")
  PROVE  BootInv'
<1>1. t \in DOMAIN pc /\ t \in DOMAIN outcome
  BY DEF BootInv
<1>2. ASSUME NEW how \in {"returned", "raised", "cancelled"}, CallStep(t, "idle", how)
      PROVE  BootInv'
  <2>1. pc'[t] = "idle" /\ outcome'[t] = how
    BY <1>1, <1>2 DEF CallStep
  <2>2. Move(t, "serving", "none") \/ Move(t, "out", how)
    BY <2>1 DEF Enter
  <2> QED
    BY <1>2, <2>2, Moved DEF CallStep, Where, How
<1>3. ASSUME NEW where \in {"initializing", "rollingBack"}, CallStep(t, where, "none")
      PROVE  BootInv'
  <2>1. pc'[t] # "idle" /\ outcome'[t] = "none"
    BY <1>1, <1>3 DEF CallStep
  <2>2. Move(t, "starting", "none")
    BY <2>1 DEF Enter
  <2> QED
    BY <1>3, <2>2, Moved DEF CallStep, Where, How
<1> QED
  BY <1>2, <1>3

LEMMA Left ==
  ASSUME BootInv, NEW t \in Clients, Leave(t),
         \/ \E how \in {"returned", "cancelled"} : CallStep(t, "idle", how)
         \/ CallStep(t, "shuttingDown", "none")
  PROVE  BootInv'
<1>1. t \in DOMAIN pc /\ t \in DOMAIN outcome
  BY DEF BootInv
<1>2. ASSUME NEW how \in {"returned", "cancelled"}, CallStep(t, "idle", how)
      PROVE  BootInv'
  <2>1. pc'[t] = "idle" /\ outcome'[t] = how
    BY <1>1, <1>2 DEF CallStep
  <2>2. Move(t, "out", how)
    BY <2>1 DEF Leave
  <2> QED
    BY <1>2, <2>2, Moved DEF CallStep, Where, How
<1>3. CASE CallStep(t, "shuttingDown", "none")
  <2>1. pc'[t] = "shuttingDown"
    BY <1>1, <1>3 DEF CallStep
  <2>2. Move(t, "stopping", "none")
    BY <2>1 DEF Leave
  <2> QED
    BY <1>3, <2>2, Moved DEF CallStep, Where, How
<1> QED
  BY <1>2, <1>3

LEMMA InitBootInv == Init => BootInv
  BY DEF Init, Reg!NothingStarted, BootInv, TypeOK, Where, How

LEMMA NextBootInv == BootInv /\ [Next]_vars => BootInv'
<1> SUFFICES ASSUME BootInv, [Next]_vars
             PROVE  BootInv'
  OBVIOUS
<1>1. ASSUME NEW t \in Clients, Start(t)
      PROVE  BootInv'
  <2>1. \/ Reg!BeginInitialize(t, plugins') /\ Enter(t)
        \/ Move(t, "out", "raised") /\ UNCHANGED <<pc, outcome>>
    BY <1>1 DEF Start
  <2>2. CASE Reg!BeginInitialize(t, plugins') /\ Enter(t)
    BY <2>2, StartCall, Entered
  <2>3. CASE Move(t, "out", "raised") /\ UNCHANGED <<pc, outcome>>
    <3>1. /\ pc[t] = "idle" /\ pc' = [pc EXCEPT ![t] = "idle"]
          /\ outcome[t] \in How /\ outcome' = [outcome EXCEPT ![t] = outcome[t]]
      BY <1>1, <2>3 DEF Start, BootInv, TypeOK
    <3> QED
      BY <2>3, <3>1, Moved DEF Where, How
  <2> QED
    BY <2>1, <2>2, <2>3
<1>2. ASSUME NEW t \in Clients, Starting(t)
      PROVE  BootInv'
  BY <1>2, StartingCall, Entered DEF Starting
<1>3. ASSUME NEW t \in Clients, Stop(t) \/ Stopping(t)
      PROVE  BootInv'
  BY <1>3, StopCall, Left DEF Stop, Stopping
<1>4. ASSUME NEW p \in Ports, Register(p)
      PROVE  UNCHANGED <<pc, outcome, phase, exit>>
  BY <1>4 DEF Register, Reg!Register, Reg!calls, bootVars
<1>5. CASE SetupTelemetry \/ Emit \/ UNCHANGED vars
  BY <1>5 DEF SetupTelemetry, Emit, registryVars, bootVars, vars, BootInv, TypeOK
<1> QED
  BY <1>1, <1>2, <1>3, <1>4, <1>5 DEF Next, BootInv, TypeOK

\* start() and stop() are where their registry calls are, for any number of
\* tasks that use the bootstrap (start, stop, __aenter__, __aexit__).
THEOREM BootTypeCorrect == Spec => []TypeOK
<1>1. BootInv => TypeOK
  BY DEF BootInv
<1> QED
  BY <1>1, InitBootInv, NextBootInv, PTL DEF Spec

-----------------------------------------------------------------------------
\* What get_tracer and get_meter lead to: nothing yet, the provider that is
\* referenced, or one that has been shut down or has failed to.
GlobalAccounted ==
  \A s \in Otel!Signals :
    global[s] \in {Otel!None, ours[s]} \cup closed[s] \cup broken[s]

OtelInv == Otel!TypeOK /\ UnflushedIsInReach /\ GlobalAccounted

LEMMA InitOtelInv == Init => OtelInv
<1> SUFFICES ASSUME Init
             PROVE  OtelInv
  OBVIOUS
<1>1. /\ initialised = FALSE /\ made = 0
      /\ ours = [s \in Otel!Signals |-> Otel!None]
      /\ global = [s \in Otel!Signals |-> Otel!None]
      /\ closed = [s \in Otel!Signals |-> {}]
      /\ broken = [s \in Otel!Signals |-> {}]
      /\ buffered = [s \in Otel!Signals |-> {}]
  BY DEF Init, Otel!Init
<1>2. made \in 0..MaxSetups
  BY <1>1, BootstrapAssumption
<1>3. Otel!TypeOK
  BY <1>1, <1>2 DEF Otel!TypeOK
<1> QED
  BY <1>1, <1>3 DEF OtelInv, UnflushedIsInReach, GlobalAccounted

\* What a step of the bootstrap does to telemetry.
LEMMA OtelStep ==
  ASSUME [Next]_vars
  PROVE  \/ Otel!Setup
         \/ \E F \in SUBSET Otel!Signals : Otel!Shutdown(F)
         \/ \E s \in Otel!Signals : Otel!Emit(s)
         \/ UNCHANGED otelVars
<1>1. ASSUME NEW t \in Clients, Start(t) \/ Starting(t)
      PROVE  UNCHANGED otelVars
  BY <1>1 DEF Start, Starting, Enter, otelVars
<1>2. ASSUME NEW t \in Clients, Stop(t) \/ Stopping(t)
      PROVE  UNCHANGED otelVars \/ \E F \in SUBSET Otel!Signals : Otel!Shutdown(F)
  BY <1>2 DEF Stop, Stopping, Leave
<1>3. CASE \E p \in Ports : Register(p)
  BY <1>3 DEF Register
<1>4. CASE SetupTelemetry \/ Emit \/ UNCHANGED vars
  BY <1>4 DEF SetupTelemetry, Emit, vars
<1> QED
  BY <1>1, <1>2, <1>3, <1>4 DEF Next

LEMMA NextOtelInv == OtelInv /\ [Next]_vars => OtelInv'
<1> SUFFICES ASSUME OtelInv, [Next]_vars
             PROVE  OtelInv'
  OBVIOUS
<1> USE BootstrapAssumption
    DEF OtelInv, Otel!TypeOK, UnflushedIsInReach, GlobalAccounted, Otel!None, Otel!Foreign,
        Otel!Providers
<1>1. CASE Otel!Setup
  <2>1. made + 1 \in Otel!Providers /\ made + 1 \in 0..MaxSetups
    BY <1>1 DEF Otel!Setup, Otel!Install
  <2>2. \A s \in Otel!Signals : ours[s] = Otel!None
    BY <1>1 DEF Otel!Setup
  <2>3. Otel!TypeOK'
    BY <1>1, <2>1 DEF Otel!Setup, Otel!Install, Otel!SetGlobal
  <2>4. UnflushedIsInReach' /\ GlobalAccounted'
    BY <1>1, <2>1, <2>2 DEF Otel!Setup, Otel!Install, Otel!SetGlobal
  <2> QED
    BY <2>3, <2>4
<1>2. ASSUME NEW F \in SUBSET Otel!Signals, Otel!Shutdown(F)
      PROVE  OtelInv'
  <2>1. /\ closed' \in [Otel!Signals -> SUBSET Otel!Providers]
        /\ broken' \in [Otel!Signals -> SUBSET Otel!Providers]
        /\ buffered' \in [Otel!Signals -> SUBSET Otel!Providers]
    BY <1>2 DEF Otel!Shutdown
  <2>2. initialised' = FALSE /\ ours' = [s \in Otel!Signals |-> Otel!None]
    BY <1>2 DEF Otel!Shutdown
  <2>3. Otel!TypeOK'
    BY <1>2, <2>1, <2>2 DEF Otel!Shutdown
  <2>4. UnflushedIsInReach'
    BY <1>2 DEF Otel!Shutdown
  <2>5. GlobalAccounted'
    BY <1>2 DEF Otel!Shutdown
  <2> QED
    BY <2>3, <2>4, <2>5
<1>3. ASSUME NEW s \in Otel!Signals, Otel!Emit(s)
      PROVE  OtelInv'
  BY <1>3 DEF Otel!Emit
<1>4. CASE UNCHANGED otelVars
  BY <1>4 DEF otelVars
<1> QED
  BY <1>1, <1>2, <1>3, <1>4, OtelStep

\* What failed starts and cancelled stops have left unexported is never out of
\* reach, for any number of tasks and setups (__aenter__, stop).
THEOREM BootKeepsTelemetryInReach == Spec => []UnflushedIsInReach
<1>1. OtelInv => UnflushedIsInReach
  BY DEF OtelInv
<1> QED
  BY <1>1, InitOtelInv, NextOtelInv, PTL DEF Spec

-----------------------------------------------------------------------------
(***************************************************************************)
(* Tasks that enter the block one after the other.  While a start is at a  *)
(* port the ports before that one are up and in _initialized, whatever an  *)
(* earlier, cancelled stop had left up; while its task serves all that is  *)
(* up is in _initialized; while its stop goes down the list only the ports *)
(* from there down are up.  Nothing in the code keeps tasks apart: the     *)
(* theorems say what it does for an application that does.                 *)
(***************************************************************************)
BlocksApart == \A t, u \in Clients : phase[t] # "out" /\ phase[u] # "out" => t = u

OneTask == \E c : Clients = {c}

Before(k) == {plugins[i] : i \in 1..(k - 1)}

Below(t) == {batch[t][i] : i \in 1..pos[t]}

NothingLeft == held = {} /\ \A s \in Otel!Signals : buffered[s] \subseteq broken[s]

PortsOf(t) ==
  /\ pc[t] = "initializing" =>
       /\ pos[t] \in 1..Len(plugins)
       /\ Before(pos[t]) \subseteq held \cap Range(initialized)
  /\ phase[t] = "serving" => held \subseteq Range(initialized)
  /\ phase[t] = "stopping" => pos[t] \in 1..Len(batch[t]) /\ held \subseteq Below(t)

ListsOK ==
  /\ plugins \in Seq(Ports)
  /\ initialized \in Seq(Ports)
  /\ held \subseteq Range(plugins)
  /\ pos \in [Clients -> Nat]
  /\ batch \in [Clients -> Seq(Ports)]

PortsInv == ListsOK /\ \A t \in Clients : PortsOf(t)

\* What a step does that starts to serve, shuts telemetry down, or returns from
\* stop().
Orderly(t) ==
  /\ phase[t] # "serving" /\ phase'[t] = "serving" => held' = Range(plugins')
  /\ initialised /\ ~initialised' => held' = {}
  /\ phase[t] # "out" /\ phase'[t] = "out" /\ exit'[t] = "returned" => NothingLeft'

\* Around a step of one task inside the block the others are outside.
LEMMA OthersAreOut ==
  ASSUME BlocksApart, BlocksApart', BootInv, BootInv', NEW t \in Clients,
         NEW to, NEW how, Move(t, to, how), phase[t] # "out" \/ to # "out"
  PROVE  \A u \in Clients : u # t => PortsOf(u)'
<1> SUFFICES ASSUME NEW u \in Clients, u # t
             PROVE  PortsOf(u)'
  OBVIOUS
<1>1. phase'[u] = phase[u] /\ phase'[t] = to
  BY DEF BootInv, TypeOK, Move
<1>2. phase'[u] = "out"
  BY <1>1 DEF BlocksApart
<1>3. pc'[u] = "idle"
  BY <1>2 DEF BootInv, TypeOK
<1> QED
  BY <1>2, <1>3 DEF PortsOf

\* A list of plugins that grows takes nothing away.
LEMMA GrownPorts ==
  ASSUME PortsInv, NEW t \in Clients, plugins' \in Seq(Ports),
         Len(plugins) <= Len(plugins'), \A i \in 1..Len(plugins) : plugins'[i] = plugins[i],
         UNCHANGED <<initialized, held, pos[t], batch[t], pc[t], phase[t]>>
  PROVE  PortsOf(t)'
<1>1. ASSUME pc[t] = "initializing"
      PROVE  /\ pos[t] \in 1..Len(plugins')
             /\ Before(pos[t])' \subseteq held \cap Range(initialized)
  <2>1. pos[t] \in 1..Len(plugins) /\ Before(pos[t]) \subseteq held \cap Range(initialized)
    BY <1>1 DEF PortsInv, PortsOf
  <2>2. Len(plugins) \in Nat /\ Len(plugins') \in Nat
    BY DEF PortsInv, ListsOK
  <2>3. \A i \in 1..(pos[t] - 1) : plugins'[i] = plugins[i]
    BY <2>1, <2>2
  <2>4. Before(pos[t])' = Before(pos[t])
    BY <2>3 DEF Before
  <2> QED
    BY <2>1, <2>2, <2>4
<1> QED
  BY <1>1 DEF PortsInv, PortsOf, Below

LEMMA EndedCall ==
  ASSUME BootInv, ListsOK, NEW t \in Clients, NEW how, Reg!End(t, how)
  PROVE  /\ pc'[t] = "idle" /\ outcome'[t] = how
         /\ pos' \in [Clients -> Nat] /\ batch' \in [Clients -> Seq(Ports)]
<1>1. <<>> \in Seq(Ports) /\ 0 \in Nat
  OBVIOUS
<1> QED
  BY <1>1 DEF BootInv, ListsOK, Reg!End

LEMMA SuspendedCall ==
  ASSUME BootInv, ListsOK, NEW t \in Clients, NEW where, NEW i \in Nat,
         NEW list \in Seq(Ports), Reg!Suspend(t, where, i, list)
  PROVE  /\ pc'[t] = where /\ pos'[t] = i /\ batch'[t] = list /\ outcome'[t] = "none"
         /\ pos' \in [Clients -> Nat] /\ batch' \in [Clients -> Seq(Ports)]
  BY DEF BootInv, ListsOK, Reg!Suspend

LEMMA MovedTo ==
  ASSUME BootInv, NEW t \in Clients, NEW to, NEW how, Move(t, to, how)
  PROVE  phase'[t] = to /\ exit'[t] = how
  BY DEF BootInv, TypeOK, Move

\* start(): configure() has registered what it could.
LEMMA StartPorts ==
  ASSUME BlocksApart, BlocksApart', BootInv, BootInv', PortsInv, NEW t \in Clients, Start(t)
  PROVE  PortsInv' /\ Orderly(t)
<1>1. PICK list \in Configurations :
        \E n \in 0..Len(list) :
          /\ plugins' = plugins \o SubSeq(list, 1, n)
          /\ \/ Reg!BeginInitialize(t, plugins') /\ Enter(t)
             \/ /\ Move(t, "out", "raised")
                /\ UNCHANGED <<initialized, pc, pos, batch, outcome, held, otelVars>>
  BY DEF Start
<1>2. PICK n \in 0..Len(list) :
        /\ plugins' = plugins \o SubSeq(list, 1, n)
        /\ \/ Reg!BeginInitialize(t, plugins') /\ Enter(t)
           \/ /\ Move(t, "out", "raised")
              /\ UNCHANGED <<initialized, pc, pos, batch, outcome, held, otelVars>>
  BY <1>1
<1>3. /\ plugins' \in Seq(Ports) /\ Range(plugins) \subseteq Range(plugins')
      /\ Len(plugins) <= Len(plugins')
      /\ \A i \in 1..Len(plugins) : plugins'[i] = plugins[i]
  <2>1. list \in Seq(Ports) /\ plugins \in Seq(Ports)
    BY BootstrapAssumption DEF PortsInv, ListsOK
  <2>2. SubSeq(list, 1, n) \in Seq(Ports)
    BY <2>1
  <2>3. Range(plugins \o SubSeq(list, 1, n)) = Range(plugins) \cup Range(SubSeq(list, 1, n))
    BY <2>1, <2>2, RangeConcatenation
  <2> QED
    BY <1>2, <2>1, <2>2, <2>3, ConcatProperties
<1>4. phase[t] = "out" /\ pc[t] = "idle"
  BY DEF Start, BootInv, TypeOK
<1>5. CASE Reg!BeginInitialize(t, plugins') /\ Enter(t)
  <2>1. /\ initialized' = <<>> /\ held' = held /\ UNCHANGED otelVars
        /\ IF plugins' = <<>> THEN Reg!End(t, "returned")
                              ELSE Reg!Suspend(t, "initializing", 1, <<>>)
    BY <1>5 DEF Reg!BeginInitialize, Enter
  <2>2. held' \subseteq Range(plugins') /\ initialized' \in Seq(Ports) /\ <<>> \in Seq(Ports)
    BY <1>3, <2>1 DEF PortsInv, ListsOK
  <2>3. CASE plugins' = <<>>
    <3>1. /\ pc'[t] = "idle" /\ outcome'[t] = "returned"
          /\ pos' \in [Clients -> Nat] /\ batch' \in [Clients -> Seq(Ports)]
      BY <2>1, <2>3, EndedCall DEF PortsInv
    <3>2. Move(t, "serving", "none")
      BY <1>5, <3>1 DEF Enter
    <3>3. phase'[t] = "serving" /\ exit'[t] = "none"
      BY <3>2, MovedTo
    <3>4. held' = {} /\ Range(plugins') = {}
      BY <2>2, <2>3 DEF Range
    <3>5. PortsOf(t)' /\ ListsOK'
      BY <1>3, <2>1, <2>2, <3>1, <3>3, <3>4 DEF ListsOK, PortsOf
    <3> QED
      BY <2>1, <3>2, <3>3, <3>4, <3>5, OthersAreOut DEF PortsInv, Orderly, otelVars
  <2>4. CASE plugins' # <<>>
    <3>1. /\ pc'[t] = "initializing" /\ pos'[t] = 1 /\ outcome'[t] = "none"
          /\ pos' \in [Clients -> Nat] /\ batch' \in [Clients -> Seq(Ports)]
      BY <2>1, <2>2, <2>4, SuspendedCall DEF PortsInv
    <3>2. Move(t, "starting", "none")
      BY <1>5, <3>1 DEF Enter
    <3>3. phase'[t] = "starting" /\ exit'[t] = "none"
      BY <3>2, MovedTo
    <3>4. 1 \in 1..Len(plugins') /\ Before(1)' = {}
      BY <1>3, <2>4 DEF Before
    <3>5. Before(pos[t])' = {}
      BY <3>1, <3>4 DEF Before
    <3>6. PortsOf(t)' /\ ListsOK'
      BY <1>3, <2>1, <2>2, <3>1, <3>3, <3>4, <3>5 DEF ListsOK, PortsOf
    <3> QED
      BY <2>1, <3>2, <3>3, <3>6, OthersAreOut DEF PortsInv, Orderly, otelVars
  <2> QED
    BY <2>3, <2>4
<1>6. CASE /\ Move(t, "out", "raised")
           /\ UNCHANGED <<initialized, pc, pos, batch, outcome, held, otelVars>>
  <2>1. phase' = phase /\ exit'[t] = "raised"
    BY <1>4, <1>6 DEF Move, BootInv, TypeOK
  <2>2. ListsOK'
    BY <1>3, <1>6 DEF PortsInv, ListsOK
  <2>3. ASSUME NEW u \in Clients
        PROVE  PortsOf(u)'
    BY <1>3, <1>6, <2>1, GrownPorts
  <2> QED
    BY <1>4, <1>6, <2>1, <2>2, <2>3 DEF PortsInv, Orderly, otelVars
<1> QED
  BY <1>2, <1>5, <1>6

\* A step after which no port of the list is being awaited and no stop() has
\* returned: only the lists have to be looked at.
LEMMA BetweenPorts ==
  ASSUME BlocksApart, BlocksApart', BootInv, BootInv', NEW t \in Clients,
         phase[t] # "out", ListsOK', UNCHANGED initialised,
         NEW to, NEW how, Move(t, to, how),
         \/ to = "starting" /\ pc'[t] = "rollingBack"
         \/ to = "out" /\ how # "returned"
  PROVE  PortsInv' /\ Orderly(t)
<1>1. phase'[t] = to /\ exit'[t] = how
  BY MovedTo
<1>2. to = "out" => pc'[t] = "idle"
  BY <1>1 DEF BootInv, TypeOK
<1>3. PortsOf(t)'
  BY <1>1, <1>2 DEF PortsOf
<1> QED
  BY <1>1, <1>3, OthersAreOut DEF PortsInv, Orderly

LEMMA BeforeNext ==
  ASSUME plugins \in Seq(Ports), NEW k \in 1..Len(plugins)
  PROVE  /\ Before(k + 1) = Before(k) \cup {plugins[k]}
         /\ k = Len(plugins) => Before(k + 1) = Range(plugins)
<1>1. Len(plugins) \in Nat /\ k \in Nat /\ k + 1 - 1 = k
  OBVIOUS
<1>2. Before(k + 1) = {plugins[i] : i \in 1..k}
  BY <1>1 DEF Before
<1>3. 1..k = 1..(k - 1) \cup {k}
  BY <1>1
<1>4. {plugins[i] : i \in 1..k} = {plugins[i] : i \in 1..(k - 1)} \cup {plugins[k]}
  BY <1>3
<1>5. Range(plugins) = {plugins[i] : i \in 1..Len(plugins)}
  BY RangeEquality
<1>6. Before(k + 1) = Before(k) \cup {plugins[k]}
  BY <1>2, <1>4 DEF Before
<1>7. k = Len(plugins) => Before(k + 1) = Range(plugins)
  BY <1>2, <1>5
<1> QED
  BY <1>6, <1>7

LEMMA RangeOfAppend ==
  ASSUME NEW S, NEW s \in Seq(S), NEW e \in S
  PROVE  Append(s, e) \in Seq(S) /\ Range(Append(s, e)) = Range(s) \cup {e}
<1>1. Append(s, e) = s \o <<e>> /\ <<e>> \in Seq(S)
  BY AppendIsConcat
<1>2. Range(<<e>>) = {e}
  BY DEF Range
<1>3. Range(s \o <<e>>) = Range(s) \cup Range(<<e>>)
  BY <1>1, RangeConcatenation
<1> QED
  BY <1>1, <1>2, <1>3, ConcatProperties

\* initialize() has returned.
LEMMA InitOkPorts ==
  ASSUME BlocksApart, BlocksApart', BootInv, BootInv', PortsInv,
         NEW t \in Clients, phase[t] = "starting",
         Reg!InitOk(t), Enter(t)
  PROVE  PortsInv' /\ Orderly(t)
<1> DEFINE k == pos[t]
<1>1. /\ pc[t] = "initializing" /\ k \in 1..Len(plugins)
      /\ plugins \in Seq(Ports) /\ initialized \in Seq(Ports)
      /\ Before(k) \subseteq held /\ Before(k) \subseteq Range(initialized)
      /\ held \subseteq Range(plugins)
  BY DEF Reg!InitOk, PortsInv, ListsOK, PortsOf
<1>2. plugins[k] \in Ports /\ plugins[k] \in Range(plugins)
  BY <1>1, RangeEquality
<1>3. /\ plugins' = plugins /\ UNCHANGED otelVars
      /\ held' = held \cup {plugins[k]}
      /\ initialized' = Append(initialized, plugins[k])
  BY DEF Reg!InitOk, Enter
<1>4. /\ initialized' \in Seq(Ports)
      /\ Range(initialized') = Range(initialized) \cup {plugins[k]}
  BY <1>1, <1>2, <1>3, RangeOfAppend
<1>5. /\ held' \subseteq Range(plugins')
      /\ Before(k + 1) \subseteq held' /\ Before(k + 1) \subseteq Range(initialized')
  BY <1>1, <1>2, <1>3, <1>4, BeforeNext
<1>6. CASE k < Len(plugins)
  <2>1. Reg!Suspend(t, "initializing", k + 1, <<>>) /\ k + 1 \in Nat /\ <<>> \in Seq(Ports)
    BY <1>1, <1>6 DEF Reg!InitOk
  <2>2. /\ pc'[t] = "initializing" /\ pos'[t] = k + 1 /\ outcome'[t] = "none"
        /\ pos' \in [Clients -> Nat] /\ batch' \in [Clients -> Seq(Ports)]
    BY <2>1, SuspendedCall DEF PortsInv
  <2>3. Move(t, "starting", "none") /\ phase'[t] = "starting" /\ exit'[t] = "none"
    <3>1. Move(t, "starting", "none")
      BY <2>2 DEF Enter
    <3> QED
      BY <3>1, MovedTo
  <2>4. ListsOK'
    BY <1>1, <1>3, <1>4, <1>5, <2>2 DEF ListsOK
  <2>5. Before(pos[t])' \subseteq held' \cap Range(initialized')
    BY <1>3, <1>5, <2>2 DEF Before
  <2>6. pos'[t] \in 1..Len(plugins')
    BY <1>1, <1>3, <1>6, <2>2
  <2>7. PortsOf(t)'
    BY <2>2, <2>3, <2>5, <2>6 DEF PortsOf
  <2> QED
    BY <1>3, <2>3, <2>4, <2>7, OthersAreOut DEF PortsInv, Orderly, otelVars
<1>7. CASE ~(k < Len(plugins))
  <2>1. Reg!End(t, "returned")
    BY <1>7 DEF Reg!InitOk
  <2>2. /\ pc'[t] = "idle" /\ outcome'[t] = "returned"
        /\ pos' \in [Clients -> Nat] /\ batch' \in [Clients -> Seq(Ports)]
    BY <2>1, EndedCall DEF PortsInv
  <2>3. Move(t, "serving", "none") /\ phase'[t] = "serving" /\ exit'[t] = "none"
    <3>1. Move(t, "serving", "none")
      BY <2>2 DEF Enter
    <3> QED
      BY <3>1, MovedTo
  <2>4. ListsOK'
    BY <1>1, <1>3, <1>4, <1>5, <2>2 DEF ListsOK
  <2>5. held' = Range(plugins') /\ held' \subseteq Range(initialized')
    <3>1. k = Len(plugins)
      BY <1>1, <1>7
    <3> QED
      BY <1>1, <1>3, <1>5, <3>1, BeforeNext
  <2>6. PortsOf(t)'
    BY <2>2, <2>3, <2>5 DEF PortsOf
  <2> QED
    BY <1>3, <2>3, <2>4, <2>5, <2>6, OthersAreOut DEF PortsInv, Orderly, otelVars
<1> QED
  BY <1>6, <1>7

\* initialize() has failed, or the rollback it led to goes on, or start() is
\* cancelled.
LEMMA FailingPorts ==
  ASSUME BlocksApart, BlocksApart', BootInv, BootInv', PortsInv,
         NEW t \in Clients, phase[t] = "starting", Enter(t),
         Reg!InitRaises(t) \/ Reg!InitTimesOut(t) \/ Reg!PortDown(t) \/ Reg!Cancelled(t)
  PROVE  PortsInv' /\ Orderly(t)
<1>1. pc[t] \in {"initializing", "rollingBack"}
  BY DEF BootInv, TypeOK, Where
<1>2. UNCHANGED otelVars /\ plugins' = plugins /\ initialized' = initialized
  BY <1>1 DEF Enter, Reg!InitRaises, Reg!InitTimesOut, Reg!RollBack, Reg!PortDown, Reg!Cancelled
<1>3. held' \subseteq Range(plugins')
  BY <1>2 DEF PortsInv, ListsOK, Reg!InitRaises, Reg!InitTimesOut, Reg!RollBack, Reg!PortDown,
              Reg!Cancelled
<1>4. /\ Len(initialized) \in Nat /\ initialized \in Seq(Ports)
      /\ pos[t] \in Nat /\ batch[t] \in Seq(Ports)
  BY DEF PortsInv, ListsOK
<1>5. \/ \E how \in {"raised", "cancelled"} : Reg!End(t, how)
      \/ \E i \in Nat : \E list \in Seq(Ports) : Reg!Suspend(t, "rollingBack", i, list)
  <2>1. CASE Reg!InitRaises(t) \/ Reg!InitTimesOut(t)
    BY <1>4, <2>1 DEF Reg!InitRaises, Reg!InitTimesOut, Reg!RollBack
  <2>2. CASE Reg!PortDown(t)
    <3>1. pos[t] > 1 => pos[t] - 1 \in Nat
      BY <1>4
    <3>2. pc[t] = "rollingBack"
      BY <1>1, <2>2 DEF Reg!PortDown
    <3> QED
      BY <1>4, <2>2, <3>1, <3>2 DEF Reg!PortDown
  <2>3. CASE Reg!Cancelled(t)
    BY <2>3 DEF Reg!Cancelled
  <2> QED
    BY <2>1, <2>2, <2>3
<1>6. ASSUME NEW how \in {"raised", "cancelled"}, Reg!End(t, how)
      PROVE  PortsInv' /\ Orderly(t)
  <2>1. /\ pc'[t] = "idle" /\ outcome'[t] = how
        /\ pos' \in [Clients -> Nat] /\ batch' \in [Clients -> Seq(Ports)]
    BY <1>6, EndedCall DEF PortsInv
  <2>2. Move(t, "out", how)
    BY <2>1 DEF Enter
  <2>3. ListsOK'
    BY <1>2, <1>3, <1>4, <2>1 DEF PortsInv, ListsOK
  <2> QED
    BY <1>2, <2>1, <2>2, <2>3, BetweenPorts DEF otelVars
<1>7. ASSUME NEW i \in Nat, NEW list \in Seq(Ports), Reg!Suspend(t, "rollingBack", i, list)
      PROVE  PortsInv' /\ Orderly(t)
  <2>1. /\ pc'[t] = "rollingBack" /\ outcome'[t] = "none"
        /\ pos' \in [Clients -> Nat] /\ batch' \in [Clients -> Seq(Ports)]
    BY <1>7, SuspendedCall DEF PortsInv
  <2>2. Move(t, "starting", "none")
    BY <2>1 DEF Enter
  <2>3. ListsOK'
    BY <1>2, <1>3, <1>4, <2>1 DEF PortsInv, ListsOK
  <2> QED
    BY <1>2, <2>1, <2>2, <2>3, BetweenPorts DEF otelVars
<1> QED
  BY <1>5, <1>6, <1>7

\* stop() has a port to await.
LEMMA StopGoesOn ==
  ASSUME BlocksApart, BlocksApart', BootInv, BootInv', PortsInv, NEW t \in Clients,
         phase[t] # "out", Leave(t), NEW list \in Seq(Ports), NEW i \in 1..Len(list),
         Reg!Suspend(t, "shuttingDown", i, list),
         held' \subseteq {list[j] : j \in 1..i}, held' \subseteq held,
         UNCHANGED <<plugins, initialized>>
  PROVE  PortsInv' /\ Orderly(t)
<1>1. /\ pc'[t] = "shuttingDown" /\ pos'[t] = i /\ batch'[t] = list
      /\ pos' \in [Clients -> Nat] /\ batch' \in [Clients -> Seq(Ports)]
  <2>1. i \in Nat
    OBVIOUS
  <2> QED
    BY <2>1, SuspendedCall DEF PortsInv
<1>2. Move(t, "stopping", "none") /\ UNCHANGED otelVars
  BY <1>1 DEF Leave
<1>3. phase'[t] = "stopping"
  BY <1>2, MovedTo
<1>4. ListsOK'
  BY <1>1 DEF PortsInv, ListsOK
<1>5. Below(t)' = {list[j] : j \in 1..i}
  BY <1>1 DEF Below
<1>6. PortsOf(t)'
  BY <1>1, <1>3, <1>5 DEF PortsOf
<1> QED
  BY <1>2, <1>3, <1>4, <1>6, OthersAreOut DEF PortsInv, Orderly, otelVars

\* stop() has returned.
LEMMA StopReturns ==
  ASSUME BlocksApart, BlocksApart', BootInv, BootInv', OtelInv, PortsInv,
         NEW t \in Clients,
         phase[t] # "out", Leave(t), Reg!End(t, "returned"),
         held' = {}, plugins' = plugins, initialized' \in Seq(Ports)
  PROVE  PortsInv' /\ Orderly(t)
<1>1. /\ pc'[t] = "idle" /\ outcome'[t] = "returned"
      /\ pos' \in [Clients -> Nat] /\ batch' \in [Clients -> Seq(Ports)]
  BY EndedCall DEF PortsInv
<1>2. PICK F \in SUBSET Otel!Signals : Otel!Shutdown(F) /\ Move(t, "out", "returned")
  BY <1>1 DEF Leave
<1>3. phase'[t] = "out" /\ exit'[t] = "returned"
  BY <1>2, MovedTo
<1>4. ListsOK'
  BY <1>1 DEF PortsInv, ListsOK
<1>5. \A s \in Otel!Signals : buffered'[s] \subseteq broken'[s]
  BY <1>2 DEF Otel!Shutdown, OtelInv, Otel!TypeOK, UnflushedIsInReach, Otel!None, Otel!Foreign,
              Otel!Providers
<1>6. PortsOf(t)'
  BY <1>1, <1>3 DEF PortsOf
<1> QED
  BY <1>2, <1>3, <1>4, <1>5, <1>6, OthersAreOut DEF PortsInv, Orderly, NothingLeft

\* stop(), from its call to its end.
LEMMA StopPorts ==
  ASSUME BlocksApart, BlocksApart', BootInv, BootInv', OtelInv, PortsInv,
         NEW t \in Clients, Stop(t)
  PROVE  PortsInv' /\ Orderly(t)
<1>1. /\ plugins' = plugins /\ initialized' = initialized /\ held' = held
      /\ initialized \in Seq(Ports)
      /\ held \subseteq Range(initialized) /\ Leave(t) /\ phase[t] # "out"
  BY DEF Stop, Reg!ShutdownAll, PortsInv, ListsOK, PortsOf
<1>2. Range(initialized) = {initialized[j] : j \in 1..Len(initialized)}
  BY <1>1, RangeEquality
<1>3. CASE initialized = <<>>
  <2>1. Reg!End(t, "returned") /\ held' = {}
    BY <1>1, <1>2, <1>3 DEF Stop, Reg!ShutdownAll
  <2> QED
    BY <1>1, <2>1, StopReturns
<1>4. CASE initialized # <<>>
  <2>1. Reg!Suspend(t, "shuttingDown", Len(initialized), initialized)
    BY <1>4 DEF Stop, Reg!ShutdownAll
  <2>2. Len(initialized) \in 1..Len(initialized)
    BY <1>1, <1>4
  <2> QED
    BY <1>1, <1>2, <2>1, <2>2, StopGoesOn
<1> QED
  BY <1>3, <1>4

LEMMA StoppingPorts ==
  ASSUME BlocksApart, BlocksApart', BootInv, BootInv', OtelInv, PortsInv,
         NEW t \in Clients, Stopping(t)
  PROVE  PortsInv' /\ Orderly(t)
<1> DEFINE k == pos[t]
<1>1. /\ pc[t] = "shuttingDown" /\ batch[t] \in Seq(Ports) /\ k \in 1..Len(batch[t])
      /\ held \subseteq {batch[t][j] : j \in 1..k} /\ phase[t] # "out"
  BY DEF Stopping, BootInv, TypeOK, PortsInv, ListsOK, PortsOf, Below
<1>2. CASE Reg!PortDown(t)
  <2>1. /\ plugins' = plugins /\ held' = held \ {batch[t][k]} /\ Leave(t)
        /\ held' \subseteq {batch[t][j] : j \in 1..(k - 1)}
    BY <1>1, <1>2 DEF Reg!PortDown, Stopping
  <2>2. CASE k > 1
    <3>1. k - 1 \in 1..Len(batch[t])
      BY <1>1, <2>2
    <3>2. Reg!Suspend(t, "shuttingDown", k - 1, batch[t]) /\ UNCHANGED <<plugins, initialized>>
      BY <1>1, <1>2, <2>2 DEF Reg!PortDown
    <3> QED
      BY <1>1, <2>1, <3>1, <3>2, StopGoesOn
  <2>3. CASE ~(k > 1)
    <3>1. k = 1 /\ held' = {}
      BY <1>1, <2>1, <2>3
    <3>2. Reg!End(t, "returned") /\ initialized' = <<>> /\ <<>> \in Seq(Ports)
      BY <1>1, <1>2, <2>3 DEF Reg!PortDown
    <3> QED
      BY <1>1, <2>1, <3>1, <3>2, StopReturns
  <2> QED
    BY <2>2, <2>3
<1>3. CASE Reg!Cancelled(t)
  <2>1. /\ Reg!End(t, "cancelled") /\ UNCHANGED <<plugins, initialized, held>> /\ Leave(t)
    BY <1>3 DEF Reg!Cancelled, Stopping
  <2>2. /\ pc'[t] = "idle" /\ outcome'[t] = "cancelled"
        /\ pos' \in [Clients -> Nat] /\ batch' \in [Clients -> Seq(Ports)]
    BY <2>1, EndedCall DEF PortsInv
  <2>3. Move(t, "out", "cancelled") /\ UNCHANGED otelVars
    BY <2>1, <2>2 DEF Leave
  <2>4. ListsOK'
    BY <2>1, <2>2 DEF PortsInv, ListsOK
  <2> QED
    BY <1>1, <2>3, <2>4, BetweenPorts DEF otelVars
<1> QED
  BY <1>2, <1>3 DEF Stopping

\* register(), setup_telemetry, and what is recorded inside the block.
LEMMA OtherPorts ==
  ASSUME BlocksApart, BlocksApart', BootInv, BootInv', PortsInv,
         \/ \E p \in Ports : Register(p)
         \/ SetupTelemetry
         \/ Emit
         \/ UNCHANGED vars
  PROVE  PortsInv' /\ \A t \in Clients : Orderly(t)
<1>1. UNCHANGED <<phase, exit, pc, pos, batch, initialized, held>>
  BY DEF Register, Reg!Register, Reg!calls, SetupTelemetry, Emit, registryVars, bootVars, vars
<1>2. /\ plugins' \in Seq(Ports) /\ Len(plugins) \in Nat
      /\ Len(plugins) <= Len(plugins')
      /\ \A i \in 1..Len(plugins) : plugins'[i] = plugins[i]
  <2>1. CASE \E p \in Ports : Register(p)
    BY <2>1 DEF Register, Reg!Register, PortsInv, ListsOK
  <2>2. CASE SetupTelemetry \/ Emit \/ UNCHANGED vars
    BY <2>2 DEF SetupTelemetry, Emit, registryVars, vars, PortsInv, ListsOK
  <2> QED
    BY <2>1, <2>2
<1>3. Range(plugins) \subseteq Range(plugins')
  <2>1. Range(plugins) = {plugins[i] : i \in 1..Len(plugins)}
    BY RangeEquality DEF PortsInv, ListsOK
  <2>2. Range(plugins') = {plugins'[i] : i \in 1..Len(plugins')}
    BY <1>2, RangeEquality
  <2> QED
    BY <1>2, <2>1, <2>2
<1>4. ListsOK'
  BY <1>1, <1>2, <1>3 DEF PortsInv, ListsOK
<1>5. ASSUME NEW t \in Clients
      PROVE  PortsOf(t)'
  BY <1>1, <1>2, GrownPorts
<1>6. initialised => initialised'
  BY DEF Register, otelVars, SetupTelemetry, Otel!Setup, Emit, Otel!Emit, vars
<1> QED
  BY <1>1, <1>4, <1>5, <1>6 DEF PortsInv, Orderly

LEMMA InitPortsInv == Init => PortsInv
<1> SUFFICES ASSUME Init
             PROVE  PortsInv
  OBVIOUS
<1>1. /\ plugins = Composed /\ initialized = <<>> /\ held = {}
      /\ pc = [t \in Clients |-> "idle"] /\ pos = [t \in Clients |-> 0]
      /\ batch = [t \in Clients |-> <<>>]
      /\ phase = [t \in Clients |-> "out"] /\ exit = [t \in Clients |-> "none"]
  BY DEF Init, Reg!NothingStarted
<1>2. ListsOK
  <2>1. Composed \in Seq(Ports) /\ <<>> \in Seq(Ports) /\ 0 \in Nat
    BY BootstrapAssumption
  <2> QED
    BY <1>1, <2>1 DEF ListsOK
<1> QED
  BY <1>1, <1>2 DEF PortsInv, PortsOf

LEMMA NextPortsInv ==
  ASSUME BlocksApart, BlocksApart', BootInv, BootInv', OtelInv, PortsInv, [Next]_vars
  PROVE  /\ PortsInv' /\ \A t \in Clients : Orderly(t)
         /\ initialised /\ ~initialised' => held' = {}
<1>1. ASSUME NEW t \in Clients, Start(t) \/ Starting(t) \/ Stop(t) \/ Stopping(t)
      PROVE  /\ PortsInv' /\ \A u \in Clients : Orderly(u)
             /\ initialised /\ ~initialised' => held' = {}
  <2>1. PortsInv' /\ Orderly(t)
    BY <1>1, StartPorts, InitOkPorts, FailingPorts, StopPorts, StoppingPorts DEF Starting
  <2>2. \E to, how : Move(t, to, how)
    BY <1>1 DEF Start, Starting, Stop, Stopping, Enter, Leave
  <2>3. \A u \in Clients : u # t => phase'[u] = phase[u]
    BY <2>2 DEF Move, BootInv, TypeOK
  <2> QED
    BY <2>1, <2>3 DEF Orderly
<1>2. CASE \/ \E p \in Ports : Register(p)
           \/ SetupTelemetry
           \/ Emit
           \/ UNCHANGED vars
  <2>1. initialised => initialised'
    BY <1>2 DEF Register, otelVars, SetupTelemetry, Otel!Setup, Emit, Otel!Emit, vars
  <2> QED
    BY <1>2, <2>1, OtherPorts
<1> QED
  BY <1>1, <1>2 DEF Next

LEMMA BlockInvariant == Spec /\ []BlocksApart => [](BootInv /\ OtelInv /\ PortsInv)
<1>1. BlocksApart /\ BlocksApart' /\ BootInv /\ OtelInv /\ PortsInv /\ [Next]_vars =>
        (BootInv /\ OtelInv /\ PortsInv)'
  BY NextBootInv, NextOtelInv, NextPortsInv
<1> QED
  BY <1>1, InitBootInv, InitOtelInv, InitPortsInv, PTL DEF Spec

\* When a start() returns every registered port is up, those registered while it
\* ran included, whatever the tasks before have left up (start, initialize_all).
THEOREM BlockServesWithAllUp == Spec /\ []BlocksApart => ServesWithAllUp
<1>1. /\ BlocksApart /\ BlocksApart' /\ BootInv /\ BootInv' /\ OtelInv /\ PortsInv
      /\ [Next]_vars
      => [\A t \in Clients :
            phase[t] # "serving" /\ phase'[t] = "serving" => held' = Range(plugins)']_vars
  BY NextPortsInv DEF Orderly
<1> QED
  BY <1>1, BlockInvariant, PTL DEF Spec, ServesWithAllUp

\* Telemetry is shut down only when no port is up, in every run of the block and
\* whichever task is in it (stop).
THEOREM TelemetryIsShutDownLast == Spec /\ []BlocksApart => TelemetryGoesLast
<1>1. /\ BlocksApart /\ BlocksApart' /\ BootInv /\ BootInv' /\ OtelInv /\ PortsInv
      /\ [Next]_vars
      => [initialised /\ ~initialised' => held' = {}]_vars
  BY NextPortsInv
<1> QED
  BY <1>1, BlockInvariant, PTL DEF Spec, TelemetryGoesLast

\* The step in which a stop() returns leaves no port up and nothing waiting for
\* an export that will not come, also of what earlier tasks had left (stop).
ReturnsWithNothingLeft ==
  [][\A t \in Clients :
       phase[t] # "out" /\ phase'[t] = "out" /\ exit'[t] = "returned" => NothingLeft']_vars

THEOREM StopsReturnClean == Spec /\ []BlocksApart => ReturnsWithNothingLeft
<1>1. /\ BlocksApart /\ BlocksApart' /\ BootInv /\ BootInv' /\ OtelInv /\ PortsInv
      /\ [Next]_vars
      => [\A t \in Clients :
            phase[t] # "out" /\ phase'[t] = "out" /\ exit'[t] = "returned" => NothingLeft']_vars
  BY NextPortsInv DEF Orderly
<1> QED
  BY <1>1, BlockInvariant, PTL DEF Spec, ReturnsWithNothingLeft

\* A single task's runs of the block do not overlap.
LEMMA OneTaskIsApart == OneTask => BlocksApart
  BY DEF OneTask, BlocksApart

LEMMA OneTaskStaysOut ==
  ASSUME OneTask, BootInv, BootInv', OtelInv, PortsInv, LeavesNothing, [Next]_vars
  PROVE  LeavesNothing'
<1> SUFFICES ASSUME NEW t \in Clients, phase'[t] = "out", exit'[t] = "returned"
             PROVE  NothingLeft'
  BY DEF LeavesNothing, NothingLeft
<1>1. \A u \in Clients : u = t
  BY DEF OneTask
<1>2. CASE phase[t] # "out"
  <2>1. BlocksApart /\ BlocksApart'
    BY <1>1 DEF BlocksApart
  <2> QED
    BY <1>2, <2>1, NextPortsInv DEF Orderly
<1>3. CASE phase[t] = "out"
  <2>1. ~Emit /\ \A u \in Clients : ~(Starting(u) \/ Stop(u) \/ Stopping(u))
    BY <1>1, <1>3 DEF Emit, Starting, Stop, Stopping
  <2>2. \A u \in Clients : ~Start(u)
    <3> SUFFICES ASSUME Start(t)
                 PROVE  FALSE
      BY <1>1
    <3>1. \/ Move(t, "out", "raised")
          \/ Reg!BeginInitialize(t, plugins') /\ Enter(t)
      BY DEF Start
    <3>2. Reg!BeginInitialize(t, plugins') => pc'[t] # "idle" \/ outcome'[t] = "returned"
      BY DEF Reg!BeginInitialize, Reg!End, Reg!Suspend, BootInv
    <3>3. Enter(t) => Move(t, "starting", "none") \/ Move(t, "serving", "none")
                      \/ (pc'[t] = "idle" /\ outcome'[t] # "returned")
      BY DEF Enter
    <3> QED
      BY <3>1, <3>2, <3>3, MovedTo
  <2>3. UNCHANGED <<phase, exit, held>>
    BY <2>1, <2>2 DEF Next, Register, Reg!Register, Reg!calls, SetupTelemetry, registryVars,
                      bootVars, vars
  <2>4. NothingLeft
    BY <1>3, <2>3 DEF LeavesNothing, NothingLeft
  <2>5. CASE SetupTelemetry
    BY <2>3, <2>4, <2>5 DEF SetupTelemetry, Otel!Setup, Otel!Install, NothingLeft
  <2>6. CASE (\E p \in Ports : Register(p)) \/ UNCHANGED vars
    BY <2>3, <2>4, <2>6 DEF Register, otelVars, vars, NothingLeft
  <2> QED
    BY <2>1, <2>2, <2>5, <2>6 DEF Next
<1> QED
  BY <1>2, <1>3

\* With a single task this lasts until it enters the block again: nothing is
\* started or recorded while it is outside (start, stop).
THEOREM BlockLeavesNothing ==
  ASSUME OneTask
  PROVE  Spec => []LeavesNothing
<1>1. Init => LeavesNothing
  BY DEF Init, LeavesNothing
<1>2. BootInv /\ BootInv' /\ OtelInv /\ PortsInv /\ LeavesNothing /\ [Next]_vars
      => LeavesNothing'
  BY OneTaskStaysOut
<1>3. BlocksApart
  BY OneTaskIsApart
<1> QED
  BY <1>1, <1>2, <1>3, BlockInvariant, PTL DEF Spec
=============================================================================
