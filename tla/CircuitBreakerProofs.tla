------------------------ MODULE CircuitBreakerProofs ------------------------
(***************************************************************************)
(* Theorems about CircuitBreaker for every set of callers, threshold and   *)
(* timeout, its refinement of CircuitMachine for a single caller, and both *)
(* for the breaker around a tracing proxy, in AdapterProxies.              *)
(***************************************************************************)
EXTENDS AdapterProxies, TLAPS

\* While the circuit is closed every failure since the last success has been
\* counted; afterwards failed probes are not.
ClosedCountsAgree == (state = CLOSED) => (failures = streak)

\* CountMatchesState and OpenIffConsecutiveFailures are not inductive apart:
\* the step that opens the circuit looks at the counter only, so the history
\* of failures must be tied to the counter until then.
BreakerInv ==
  /\ TypeOK
  /\ CountMatchesState
  /\ OpenIffConsecutiveFailures
  /\ ClosedCountsAgree

LEMMA CountUpRange ==
  ASSUME NEW n \in 0..MaxFailures
  PROVE  /\ CountUp(n) \in 0..MaxFailures
         /\ n < Threshold => CountUp(n) = n + 1
         /\ n >= Threshold => CountUp(n) >= Threshold
  BY BreakerAssumption DEF CountUp

\* The breaker starts in a state of its invariant (__init__).
LEMMA InitBreakerInv == Init => BreakerInv
  BY BreakerAssumption
     DEF Init, BreakerInv, TypeOK, CountMatchesState, ClosedCountsAgree,
         OpenIffConsecutiveFailures, CircuitState, Ended, CLOSED, OPEN, HALF_OPEN

\* What may happen to a breaker: a step of its own specification, or a call that
\* fails although the backend is up, as it does when its method is gone.
BreakerStep == [Next]_vars \/ \E c \in Callers : CountAsFailure(c)

LEMMA FailCounts ==
  ASSUME NEW c, Fail(c)
  PROVE  CountAsFailure(c)
  BY DEF Fail, CountAsFailure

\* No step of a caller, of the clock or of the backend leaves the invariant.
LEMMA NextBreakerInv == BreakerInv /\ BreakerStep => BreakerInv'
<1> SUFFICES ASSUME BreakerInv, BreakerStep
             PROVE  BreakerInv'
  OBVIOUS
<1> USE BreakerAssumption
    DEF BreakerInv, TypeOK, CountMatchesState, OpenIffConsecutiveFailures,
        ClosedCountsAgree, CircuitState, CLOSED, OPEN, HALF_OPEN
<1>1. ASSUME NEW c \in Callers, BeforeCall(c)
      PROVE  BreakerInv'
  BY <1>1 DEF BeforeCall, LetThrough, Refuse, Probe, LetIn, CoolingDown, Ended
<1>2. ASSUME NEW c \in Callers, Succeed(c)
      PROVE  BreakerInv'
  BY <1>2 DEF Succeed, Finish, RecordSuccess, Ended
<1>3. ASSUME NEW c \in Callers, CountAsFailure(c)
      PROVE  BreakerInv'
  <2>1. /\ call' \in [Callers -> Ended \cup {"running"}]
        /\ healthy' \in BOOLEAN
    BY <1>3 DEF CountAsFailure, Finish, Ended
  <2>2. /\ CountUp(failures) \in 0..MaxFailures
        /\ CountUp(streak) \in 0..MaxFailures
        /\ failures < Threshold => CountUp(failures) = failures + 1
        /\ streak < Threshold => CountUp(streak) = streak + 1
        /\ failures >= Threshold => CountUp(failures) >= Threshold
        /\ streak >= Threshold => CountUp(streak) >= Threshold
    BY CountUpRange
  <2>3. CASE state = HALF_OPEN
    BY <1>3, <2>1, <2>2, <2>3 DEF CountAsFailure, RecordFailure
  <2>4. CASE state # HALF_OPEN
    BY <1>3, <2>1, <2>2, <2>4 DEF CountAsFailure, RecordFailure
  <2>5. QED
    BY <2>3, <2>4
<1>4. ASSUME NEW c \in Callers, Cancel(c)
      PROVE  BreakerInv'
  BY <1>4 DEF Cancel, Finish, breaker, Ended
<1>5. CASE Tick
  BY <1>5 DEF Tick
<1>6. CASE BackendTurns
  BY <1>6 DEF BackendTurns, breaker
<1>7. CASE UNCHANGED vars
  BY <1>7 DEF vars
<1>8. QED
  BY <1>1, <1>2, <1>3, <1>4, <1>5, <1>6, <1>7, FailCounts DEF BreakerStep, Next, CallerStep

\* The inductive invariant holds in every reachable state.
THEOREM BreakerInvariant == Spec => []BreakerInv
<1>1. QED
  BY InitBreakerInv, NextBreakerInv, PTL DEF Spec, BreakerStep

\* Every variable keeps its type, the two counters their bound.
THEOREM TypeCorrect == Spec => []TypeOK
<1>1. BreakerInv => TypeOK
  BY DEF BreakerInv
<1>2. QED
  BY <1>1, BreakerInvariant, PTL

\* The counter and the state of the circuit never disagree.
THEOREM CounterTracksState == Spec => []CountMatchesState
<1>1. BreakerInv => CountMatchesState
  BY DEF BreakerInv
<1>2. QED
  BY <1>1, BreakerInvariant, PTL

\* The circuit is closed exactly while fewer than Threshold calls have failed
\* since the last success, whatever the interleaving of the callers.
THEOREM OpensOnConsecutiveFailures == Spec => []OpenIffConsecutiveFailures
<1>1. BreakerInv => OpenIffConsecutiveFailures
  BY DEF BreakerInv
<1>2. QED
  BY <1>1, BreakerInvariant, PTL

\* An open circuit whose reset_timeout has not elapsed lets no new call reach
\* the backend.
THEOREM Draining == Spec => DrainsWhileCooling
<1>1. BreakerInv /\ [Next]_vars =>
        [(state = OPEN /\ age < ResetTimeout) => Running' \subseteq Running]_vars
  <2> SUFFICES ASSUME BreakerInv, Next, state = OPEN, age < ResetTimeout,
                      NEW d \in Callers, call'[d] = "running"
               PROVE  call[d] = "running"
    BY DEF Running
  <2> USE DEF BreakerInv, TypeOK
  <2>1. ASSUME NEW c \in Callers, BeforeCall(c)
        PROVE  call[d] = "running"
    BY <2>1 DEF BeforeCall, LetThrough, Refuse, Probe, CoolingDown
  <2>2. ASSUME NEW c \in Callers, Succeed(c) \/ Fail(c) \/ Cancel(c)
        PROVE  call[d] = "running"
    BY <2>2 DEF Succeed, Fail, Cancel, Finish
  <2>3. CASE Tick \/ BackendTurns
    BY <2>3 DEF Tick, BackendTurns
  <2>4. QED
    BY <2>1, <2>2, <2>3 DEF Next, CallerStep
<1>2. QED
  BY <1>1, BreakerInvariant, PTL DEF Spec, DrainsWhileCooling

\* A circuit that is cooling down, with the last call from before gone.
Drained == state = OPEN /\ age < ResetTimeout /\ Running = {}

\* Nothing but the clock moves it any more.
DrainedStaysOpen ==
  [][Drained => state' = OPEN /\ failures' = failures /\ age' >= age /\ Running' = {}]_vars

LEMMA DrainedStep ==
  ASSUME BreakerInv, BreakerStep, Drained
  PROVE  state' = OPEN /\ failures' = failures /\ age' >= age /\ Running' = {}
<1> USE DEF BreakerInv, TypeOK, Drained, Running
<1>1. ASSUME NEW c \in Callers, BeforeCall(c)
      PROVE  state' = OPEN /\ failures' = failures /\ age' >= age /\ Running' = {}
  BY <1>1 DEF BeforeCall, LetThrough, Refuse, Probe, CoolingDown
<1>2. ASSUME NEW c \in Callers, Succeed(c) \/ CountAsFailure(c) \/ Cancel(c)
      PROVE  FALSE
  BY <1>2 DEF Succeed, CountAsFailure, Cancel, Finish
<1>3. CASE Tick \/ BackendTurns \/ UNCHANGED vars
  BY <1>3 DEF Tick, BackendTurns, breaker, vars
<1>4. QED
  BY <1>1, <1>2, <1>3, FailCounts DEF BreakerStep, Next, CallerStep

\* For any number of callers a circuit that has opened is timeout-gated from the
\* moment the last call that was let in before has ended: no refused call, and
\* nothing else, closes it, counts or restarts its timer (_before_call).
THEOREM DrainedIsTimeoutGated == Spec => DrainedStaysOpen
<1>1. BreakerInv /\ [Next]_vars =>
        [Drained => state' = OPEN /\ failures' = failures /\ age' >= age
                    /\ Running' = {}]_vars
  BY DrainedStep DEF BreakerStep
<1>2. QED
  BY <1>1, BreakerInvariant, PTL DEF Spec, DrainedStaysOpen

-----------------------------------------------------------------------------
(***************************************************************************)
(* One caller.                                                             *)
(***************************************************************************)
OneCaller == \A c, d \in Callers : c = d

\* The only caller is never inside the adapter while the circuit is open, and
\* the counter never passes the threshold.
SequentialInv ==
  /\ BreakerInv
  /\ state = OPEN => Running = {}
  /\ failures <= Threshold

LEMMA NextSequentialInv ==
  ASSUME OneCaller, SequentialInv, BreakerStep
  PROVE  SequentialInv'
<1>1. BreakerInv'
  BY NextBreakerInv DEF SequentialInv
<1> USE BreakerAssumption
    DEF SequentialInv, BreakerInv, TypeOK, Running, OneCaller, CircuitState,
        CLOSED, OPEN, HALF_OPEN
<1>2. ASSUME NEW c \in Callers, BeforeCall(c)
      PROVE  SequentialInv'
  BY <1>1, <1>2
     DEF BeforeCall, LetThrough, Refuse, Probe, LetIn, CoolingDown, Ended
<1>3. ASSUME NEW c \in Callers, Succeed(c)
      PROVE  SequentialInv'
  BY <1>1, <1>3 DEF Succeed, Finish, RecordSuccess
<1>4. ASSUME NEW c \in Callers, CountAsFailure(c)
      PROVE  SequentialInv'
  <2>1. state # OPEN
    BY <1>4 DEF CountAsFailure, Finish
  <2>2. \A d \in Callers : call'[d] # "running"
    BY <1>4 DEF CountAsFailure, Finish
  <2>3. failures' <= Threshold
    <3>1. CASE state = HALF_OPEN
      BY <1>4, <3>1 DEF CountAsFailure, RecordFailure
    <3>2. CASE state = CLOSED
      <4>1. failures < Threshold
        BY <3>2 DEF CountMatchesState
      <4>2. QED
        BY <1>4, <3>2, <4>1, CountUpRange DEF CountAsFailure, RecordFailure
    <3>3. QED
      BY <2>1, <3>1, <3>2
  <2>4. QED
    BY <1>1, <2>2, <2>3
<1>5. ASSUME NEW c \in Callers, Cancel(c)
      PROVE  SequentialInv'
  BY <1>1, <1>5 DEF Cancel, Finish, breaker
<1>6. CASE Tick \/ BackendTurns \/ UNCHANGED vars
  BY <1>1, <1>6 DEF Tick, BackendTurns, breaker, vars
<1>7. QED
  BY <1>2, <1>3, <1>4, <1>5, <1>6, FailCounts DEF BreakerStep, Next, CallerStep

\* Every step of the only caller, of the clock and of the backend is an edge
\* of the documented machine or a stutter.
LEMMA StepRefinesMachine ==
  ASSUME OneCaller, SequentialInv, BreakerStep
  PROVE  [Machine!Next]_Machine!machine
<1> USE BreakerAssumption
    DEF SequentialInv, BreakerInv, TypeOK, CircuitState, Machine!machine,
        CLOSED, OPEN, HALF_OPEN
<1>1. ASSUME NEW c \in Callers, BeforeCall(c)
      PROVE  [Machine!Next]_Machine!machine
  BY <1>1 DEF BeforeCall, LetThrough, Refuse, Probe, LetIn, CoolingDown,
              Machine!Next, Machine!StartProbing
<1>2. ASSUME NEW c \in Callers, Succeed(c)
      PROVE  [Machine!Next]_Machine!machine
  BY <1>2 DEF Succeed, Finish, RecordSuccess, Running, Machine!Next,
              Machine!ForgetFailures, Machine!ProbeSucceeds
<1>3. ASSUME NEW c \in Callers, CountAsFailure(c)
      PROVE  [Machine!Next]_Machine!machine
  <2>1. state # OPEN
    BY <1>3 DEF CountAsFailure, Finish, Running
  <2>2. CASE state = HALF_OPEN
    BY <1>3, <2>2 DEF CountAsFailure, RecordFailure, Machine!Next, Machine!ProbeFails
  <2>3. CASE state = CLOSED
    <3>1. failures < Threshold /\ CountUp(failures) = failures + 1
      BY <2>3, CountUpRange DEF CountMatchesState
    <3>2. CASE failures + 1 >= Threshold
      BY <1>3, <2>3, <3>1, <3>2
         DEF CountAsFailure, RecordFailure, Machine!Next, Machine!Trip
    <3>3. CASE ~(failures + 1 >= Threshold)
      BY <1>3, <2>3, <3>1, <3>3
         DEF CountAsFailure, RecordFailure, Machine!Next, Machine!CountFailure
    <3>4. QED
      BY <3>2, <3>3
  <2>4. QED
    BY <2>1, <2>2, <2>3
<1>4. ASSUME NEW c \in Callers, Cancel(c)
      PROVE  [Machine!Next]_Machine!machine
  BY <1>4 DEF Cancel, breaker
<1>5. CASE Tick
  BY <1>5 DEF Tick, Machine!Next, Machine!TimePasses
<1>6. CASE BackendTurns \/ UNCHANGED vars
  BY <1>6 DEF BackendTurns, breaker, vars
<1>7. QED
  BY <1>1, <1>2, <1>3, <1>4, <1>5, <1>6, FailCounts DEF BreakerStep, Next, CallerStep

\* A proxy used by one caller at a time is the documented state machine, for
\* every threshold and timeout.
THEOREM SequentialRefinement ==
  ASSUME OneCaller
  PROVE  Spec => ImplementsMachine
<1>1. Init => SequentialInv /\ Machine!Init
  BY InitBreakerInv, BreakerAssumption
     DEF Init, SequentialInv, Machine!Init, CLOSED, OPEN, Running
<1>2. SequentialInv /\ [Next]_vars => SequentialInv'
  BY NextSequentialInv DEF BreakerStep
<1>3. SequentialInv /\ [Next]_vars => [Machine!Next]_Machine!machine
  BY StepRefinesMachine DEF BreakerStep
<1>4. QED
  BY <1>1, <1>2, <1>3, PTL DEF Spec, ImplementsMachine, Machine!Spec

\* What the module's text claims of every proxy ("strictly threshold- and
\* timeout-gated") holds when calls do not overlap: no circuit closes before its
\* timeout, because nothing is left running in an open one (_on_success after
\* _before_call).
THEOREM SequentialClosingIsTimeoutGated ==
  ASSUME OneCaller
  PROVE  Spec => ClosingIsTimeoutGated
<1>1. Init => SequentialInv
  BY InitBreakerInv, BreakerAssumption DEF Init, SequentialInv, CLOSED, OPEN
<1>2. SequentialInv /\ [Next]_vars => SequentialInv'
  BY NextSequentialInv DEF BreakerStep
<1>3. SequentialInv /\ [Next]_vars =>
        [(state = OPEN /\ age < ResetTimeout) => state' # CLOSED]_vars
  BY DrainedStep DEF BreakerStep, SequentialInv, Drained, OPEN, CLOSED
<1>4. QED
  BY <1>1, <1>2, <1>3, PTL DEF Spec, ClosingIsTimeoutGated

-----------------------------------------------------------------------------
(***************************************************************************)
(* Behind both proxies.                                                    *)
(***************************************************************************)
\* Whatever the adapter does to its method, the circuit moves as a breaker does.
LEMMA ProxiesStep == [ProxiesNext]_proxyVars => BreakerStep
<1> SUFFICES ASSUME [ProxiesNext]_proxyVars
             PROVE  BreakerStep
  OBVIOUS
<1>1. ASSUME NEW c \in Callers, CallGuarded(c) \/ Return(c)
      PROVE  Next
  BY <1>1 DEF CallGuarded, Return, Next, CallerStep
<1>2. ASSUME NEW c \in Callers, AwaitFails(c) \/ LookupFails(c)
      PROVE  CountAsFailure(c)
  BY <1>2 DEF AwaitFails, LookupFails
<1>3. ASSUME NEW c \in Callers, CallAround(c) \/ EnterMethod(c)
      PROVE  UNCHANGED vars
  BY <1>3 DEF CallAround, EnterMethod
<1>4. CASE Environment
  BY <1>4 DEF Environment, Next, BreakerStep
<1>5. CASE Reconnect \/ UNCHANGED proxyVars
  BY <1>5 DEF Reconnect, proxyVars, BreakerStep
<1> QED
  BY <1>1, <1>2, <1>3, <1>4, <1>5 DEF ProxiesNext, BreakerStep

\* A breaker around a tracing proxy, used by one caller at a time, is still the
\* documented machine, although calls fail there that the backend never saw.
THEOREM ProxiesAreTheMachine ==
  ASSUME OneCaller
  PROVE  ProxiesSpec => ImplementsMachine
<1>1. ProxiesInit => SequentialInv /\ Machine!Init
  BY InitBreakerInv, BreakerAssumption
     DEF ProxiesInit, Init, SequentialInv, Machine!Init, CLOSED, OPEN, Running
<1>2. SequentialInv /\ [ProxiesNext]_proxyVars => SequentialInv'
  BY NextSequentialInv, ProxiesStep
<1>3. SequentialInv /\ [ProxiesNext]_proxyVars => [Machine!Next]_Machine!machine
  BY StepRefinesMachine, ProxiesStep
<1> QED
  BY <1>1, <1>2, <1>3, PTL DEF ProxiesSpec, ImplementsMachine, Machine!Spec

\* A call that is under way goes through the proxies, and the methods of the
\* adapter are numbered from one.
PathInv ==
  /\ method.number \in Nat \ {0}
  /\ ran \in [Callers -> Nat]
  /\ span \in [Callers -> BOOLEAN]
  /\ around \in [Callers -> BOOLEAN]
  /\ \A c \in Callers : call[c] = "running" => ~around[c]
  /\ SpansAreAdapterCalls

LEMMA InitPathInv == ProxiesInit => PathInv
  BY DEF ProxiesInit, Init, PathInv, SpansAreAdapterCalls, NotReached

LEMMA NextPathInv == BreakerInv /\ PathInv /\ [ProxiesNext]_proxyVars => PathInv'
<1> SUFFICES ASSUME BreakerInv, PathInv, [ProxiesNext]_proxyVars
             PROVE  PathInv'
  OBVIOUS
<1> USE DEF BreakerInv, TypeOK, PathInv, SpansAreAdapterCalls, NotReached
<1>1. ASSUME NEW c \in Callers, CallGuarded(c)
      PROVE  PathInv'
  <2>1. \A d \in Callers : d # c => call'[d] = call[d]
    BY <1>1 DEF CallGuarded, BeforeCall, LetThrough, Refuse, Probe, LetIn
  <2> QED
    BY <1>1, <2>1 DEF CallGuarded
<1>2. ASSUME NEW c \in Callers, CallAround(c)
      PROVE  PathInv'
  BY <1>2 DEF CallAround, vars, adapter, Ended
<1>3. ASSUME NEW c \in Callers, EnterMethod(c)
      PROVE  PathInv'
  BY <1>3 DEF EnterMethod, Entering, vars, adapter
<1>4. ASSUME NEW c \in Callers, AwaitFails(c)
      PROVE  PathInv'
  BY <1>4 DEF AwaitFails, CountAsFailure, Finish, Entering, adapter
<1>5. ASSUME NEW c \in Callers, LookupFails(c)
      PROVE  PathInv'
  BY <1>5 DEF LookupFails, CountAsFailure, Finish, adapter, path
<1>6. ASSUME NEW c \in Callers, Return(c)
      PROVE  PathInv'
  BY <1>6 DEF Return, Succeed, Fail, Cancel, Finish, adapter, path
<1>7. CASE Reconnect
  BY <1>7 DEF Reconnect, vars, path
<1>8. CASE Environment
  BY <1>8 DEF Environment, Tick, BackendTurns, adapter, path
<1>9. CASE UNCHANGED proxyVars
  BY <1>9 DEF proxyVars, vars, adapter, path
<1> QED
  BY <1>1, <1>2, <1>3, <1>4, <1>5, <1>6, <1>7, <1>8, <1>9 DEF ProxiesNext

\* The invariants of the breaker and of the calls, for any number of callers.
LEMMA ProxiesInvariant == ProxiesSpec => [](BreakerInv /\ PathInv)
<1>1. ProxiesInit => BreakerInv
  BY InitBreakerInv DEF ProxiesInit
<1>2. BreakerInv /\ [ProxiesNext]_proxyVars => BreakerInv'
  BY NextBreakerInv, ProxiesStep
<1> QED
  BY <1>1, <1>2, InitPathInv, NextPathInv, PTL DEF ProxiesSpec

\* With the breaker outside, spans are exactly the calls that reached the
\* adapter, for any number of callers and reconnects (_guarded, _traced).
THEOREM SpansAreExact == ProxiesSpec => []SpansAreAdapterCalls
<1>1. PathInv => SpansAreAdapterCalls
  BY DEF PathInv
<1> QED
  BY <1>1, ProxiesInvariant, PTL

\* While the circuit cools down no call of a method that was guarded once goes
\* around the breaker, whatever it has been replaced by (__getattr__).
THEOREM GuardedStaysShielded == ProxiesSpec => StaysShielded
<1>1. PathInv /\ [ProxiesNext]_proxyVars =>
        [\A c \in Callers :
           (guarded /\ state = OPEN /\ CoolingDown /\ call[c] # "running") =>
              ran'[c] \in {ran[c], NotReached} /\ ~(around'[c] /\ ~around[c])]_proxyVars
  <2> SUFFICES ASSUME PathInv, ProxiesNext, NEW c \in Callers,
                      guarded, call[c] # "running"
               PROVE  ran'[c] \in {ran[c], NotReached} /\ ~(around'[c] /\ ~around[c])
    OBVIOUS
  <2> USE DEF PathInv
  <2>1. ASSUME NEW d \in Callers, CallGuarded(d)
        PROVE  ran'[c] \in {ran[c], NotReached} /\ (around'[c] => around[c])
    BY <2>1 DEF CallGuarded
  <2>2. ASSUME NEW d \in Callers, CallAround(d)
        PROVE  FALSE
    BY <2>2 DEF CallAround, SeenAsCoroutine
  <2>3. ASSUME NEW d \in Callers, EnterMethod(d) \/ AwaitFails(d)
        PROVE  ran'[c] = ran[c] /\ around' = around
    BY <2>3 DEF EnterMethod, AwaitFails, Entering
  <2>4. ASSUME NEW d \in Callers, LookupFails(d) \/ Return(d)
        PROVE  ran' = ran /\ around' = around
    BY <2>4 DEF LookupFails, Return, path
  <2>5. CASE Reconnect \/ Environment
    BY <2>5 DEF Reconnect, Environment, path
  <2> QED
    BY <2>1, <2>2, <2>3, <2>4, <2>5 DEF ProxiesNext
<1> QED
  BY <1>1, ProxiesInvariant, PTL DEF ProxiesSpec, StaysShielded
=============================================================================
