--------------------------- MODULE TelemetryProofs ---------------------------
(***************************************************************************)
(* Nothing that telemetry has buffered gets out of reach, for any number   *)
(* of setups.                                                              *)
(***************************************************************************)
EXTENDS Telemetry, TLAPS

\* What get_tracer and get_meter lead to: nothing yet, a provider of somebody
\* else's, ours, or one of ours that has been shut down.
GlobalAccounted ==
  \A s \in Signals :
    global[s] \in {None, Foreign, ours[s]} \cup closed[s] \cup broken[s]

\* The inductive invariant.
TelemetryInv == TypeOK /\ NothingOrphaned /\ GlobalAccounted

\* Module globals at import time.
LEMMA InitTelemetryInv == Init => TelemetryInv
<1> SUFFICES ASSUME Init
             PROVE  TelemetryInv
  OBVIOUS
<1>1. MaxSetups \in Nat
  BY TelemetryAssumption DEF TelemetryAssumption
<1>2. initialised = FALSE /\ made = 0
  BY DEF Init
<1>3. /\ ours = [s \in Signals |-> None]
      /\ global = [s \in Signals |-> None]
      /\ closed = [s \in Signals |-> {}]
      /\ broken = [s \in Signals |-> {}]
      /\ buffered = [s \in Signals |-> {}]
  BY DEF Init
<1>4. TypeOK
  <2>1. made \in 0..MaxSetups
    BY <1>1, <1>2
  <2>2. /\ ours \in [Signals -> Providers \cup {None}]
        /\ global \in [Signals -> Providers \cup {None}]
        /\ closed \in [Signals -> SUBSET Providers]
        /\ broken \in [Signals -> SUBSET Providers]
        /\ buffered \in [Signals -> SUBSET Providers]
    BY <1>3
  <2>3. \A s \in Signals : initialised <=> ours[s] # None
    BY <1>2, <1>3
  <2>4. QED
    BY <1>2, <2>1, <2>2, <2>3 DEF TypeOK
<1>5. NothingOrphaned
  BY <1>3 DEF NothingOrphaned
<1>6. GlobalAccounted
  BY <1>3 DEF GlobalAccounted
<1>7. QED
  BY <1>4, <1>5, <1>6 DEF TelemetryInv

\* No setup, shutdown, foreign provider, measurement or export leaves it.
LEMMA NextTelemetryInv == TelemetryInv /\ [Next]_otelVars => TelemetryInv'
<1> SUFFICES ASSUME TelemetryInv, [Next]_otelVars
             PROVE  TelemetryInv'
  OBVIOUS
<1> USE TelemetryAssumption
    DEF TelemetryInv, TypeOK, NothingOrphaned, GlobalAccounted, None, Foreign, Providers
<1>1. CASE Setup
  <2>1. made + 1 \in Providers /\ made + 1 \in 0..MaxSetups
    BY <1>1 DEF Setup, Install
  <2>2. \A s \in Signals : ours[s] = None
    BY <1>1 DEF Setup
  <2>3. TypeOK'
    BY <1>1, <2>1 DEF Setup, Install, SetGlobal
  <2>4. NothingOrphaned' /\ GlobalAccounted'
    BY <1>1, <2>1, <2>2 DEF Setup, Install, SetGlobal
  <2>5. QED
    BY <2>3, <2>4
<1>2. ASSUME NEW F \in SUBSET Signals, Shutdown(F)
      PROVE  TelemetryInv'
  <2>1. TypeOK'
    <3>1. /\ closed' \in [Signals -> SUBSET Providers]
          /\ broken' \in [Signals -> SUBSET Providers]
          /\ buffered' \in [Signals -> SUBSET Providers]
      BY <1>2 DEF Shutdown
    <3>2. initialised' = FALSE /\ ours' = [s \in Signals |-> None]
      BY <1>2 DEF Shutdown
    <3>3. QED
      BY <1>2, <3>1, <3>2 DEF Shutdown
  <2>2. NothingOrphaned'
    BY <1>2 DEF Shutdown
  <2>3. GlobalAccounted'
    BY <1>2 DEF Shutdown
  <2>4. QED
    BY <2>1, <2>2, <2>3
<1>3. ASSUME NEW s \in Signals, SetByHarness(s)
      PROVE  TelemetryInv'
  BY <1>3 DEF SetByHarness, SetGlobal
<1>4. ASSUME NEW s \in Signals, Emit(s)
      PROVE  TelemetryInv'
  BY <1>4 DEF Emit
<1>5. ASSUME NEW s \in Signals, NEW p \in Providers, Export(s, p)
      PROVE  TelemetryInv'
  BY <1>5 DEF Export
<1>6. CASE UNCHANGED otelVars
  BY <1>6 DEF otelVars
<1>7. QED
  BY <1>1, <1>2, <1>3, <1>4, <1>5, <1>6 DEF Next

\* Whatever is buffered or installed globally is accounted for.
THEOREM TelemetryInvariant == Spec => []TelemetryInv
<1>1. QED
  BY InitTelemetryInv, NextTelemetryInv, PTL DEF Spec

\* A provider is referenced exactly while the guard says so, for each signal.
THEOREM TelemetryTypeCorrect == Spec => []TypeOK
<1>1. TelemetryInv => TypeOK
  BY DEF TelemetryInv
<1>2. QED
  BY <1>1, TelemetryInvariant, PTL

\* What is buffered in a provider of setup_telemetry's is flushed by the next
\* shutdown_telemetry, unless that provider's own shutdown raises.
THEOREM NothingGetsOrphaned == Spec => []NothingOrphaned
<1>1. TelemetryInv => NothingOrphaned
  BY DEF TelemetryInv
<1>2. QED
  BY <1>1, TelemetryInvariant, PTL

-----------------------------------------------------------------------------
(***************************************************************************)
(* How far "setup_telemetry() can run again" goes: the first setup works   *)
(* whatever happens around it, and what a shutdown has closed behind the   *)
(* global API no later setup brings back.                                  *)
(***************************************************************************)
\* Only providers of setup_telemetry's are closed, and the pair in use is the
\* last one made and is open.
PairInUse ==
  \A s \in Signals :
    /\ closed[s] \subseteq 1..made
    /\ initialised => ours[s] = made /\ ours[s] \notin closed[s]
    /\ ours[s] \in {None, made}

LEMMA NextPairInUse ==
  TelemetryInv /\ PairInUse /\ [Next]_otelVars => PairInUse'
<1> SUFFICES ASSUME TelemetryInv, PairInUse, [Next]_otelVars
             PROVE  PairInUse'
  OBVIOUS
<1> USE TelemetryAssumption
    DEF TelemetryAssumption, TelemetryInv, TypeOK, PairInUse, None, Foreign, Providers
<1>1. CASE Setup
  BY <1>1 DEF Setup, Install
<1>2. ASSUME NEW F \in SUBSET Signals, Shutdown(F)
      PROVE  PairInUse'
  BY <1>2 DEF Shutdown
<1>3. ASSUME NEW s \in Signals, SetByHarness(s) \/ Emit(s)
      PROVE  PairInUse'
  BY <1>3 DEF SetByHarness, Emit
<1>4. ASSUME NEW s \in Signals, NEW p \in Providers, Export(s, p)
      PROVE  PairInUse'
  BY <1>4 DEF Export
<1>5. CASE UNCHANGED otelVars
  BY <1>5 DEF otelVars
<1>6. QED
  BY <1>1, <1>2, <1>3, <1>4, <1>5 DEF Next

\* After the first setup what is recorded reaches a provider that is running,
\* whatever a test harness has set before or sets meanwhile (setup_telemetry).
THEOREM FirstSetupWorks == Spec => [](made <= 1 => SetupRevives)
<1>1. Init => PairInUse
  BY DEF Init, PairInUse, None
<1>2. TelemetryInv /\ PairInUse => (made <= 1 => SetupRevives)
  <2> SUFFICES ASSUME TelemetryInv, PairInUse, made <= 1, initialised, NEW s \in Signals
               PROVE  closed[s] = {}
    BY DEF SetupRevives
  <2>1. made \in Nat /\ ours[s] # None /\ ours[s] = made
    BY TelemetryAssumption DEF TelemetryAssumption, TelemetryInv, TypeOK, PairInUse
  <2>2. made = 1
    BY <2>1 DEF None
  <2>3. closed[s] \subseteq 1..1 /\ 1 \notin closed[s]
    BY <2>1, <2>2 DEF PairInUse
  <2>4. QED
    BY <2>3
<1>3. QED
  BY <1>1, <1>2, NextPairInUse, TelemetryInvariant, PTL DEF Spec

\* A signal whose global provider has been shut down stays without one: no
\* setup, however often it runs, replaces it (shutdown_telemetry).
NeverRevived ==
  [][\A s \in Signals : global[s] \in closed[s] => global'[s] \in closed'[s]]_otelVars

THEOREM ClosedStaysInPlace == Spec => NeverRevived
<1>1. TelemetryInv /\ [Next]_otelVars =>
        [\A s \in Signals : global[s] \in closed[s] => global'[s] \in closed'[s]]_otelVars
  <2> SUFFICES ASSUME TelemetryInv, Next, NEW s \in Signals, global[s] \in closed[s]
               PROVE  global'[s] = global[s] /\ closed[s] \subseteq closed'[s]
    OBVIOUS
  <2>1. global[s] # None
    BY TelemetryAssumption
       DEF TelemetryAssumption, TelemetryInv, TypeOK, Providers, Foreign, None
  <2>2. CASE Setup
    BY <2>1, <2>2 DEF Setup, Install, SetGlobal
  <2>3. ASSUME NEW F \in SUBSET Signals, Shutdown(F)
        PROVE  global'[s] = global[s] /\ closed[s] \subseteq closed'[s]
    BY <2>3 DEF Shutdown
  <2>4. ASSUME NEW t \in Signals, SetByHarness(t) \/ Emit(t)
        PROVE  global'[s] = global[s] /\ closed[s] \subseteq closed'[s]
    BY <2>1, <2>4 DEF SetByHarness, Emit, SetGlobal
  <2>5. ASSUME NEW t \in Signals, NEW p \in Providers, Export(t, p)
        PROVE  global'[s] = global[s] /\ closed[s] \subseteq closed'[s]
    BY <2>5 DEF Export
  <2>6. QED
    BY <2>2, <2>3, <2>4, <2>5 DEF Next
<1>2. QED
  BY <1>1, TelemetryInvariant, PTL DEF Spec, NeverRevived
=============================================================================
