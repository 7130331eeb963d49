--------------------------- MODULE CircuitBreaker ---------------------------
(***************************************************************************)
(* openframe/core/resilience/circuit_breaker.py: one CircuitBreakerProxy   *)
(* shared by several callers (asyncio tasks).                              *)
(*                                                                         *)
(* The critical sections under `_lock` contain no await, so each of        *)
(* _before_call, _on_success and _on_failure is one atomic step; between   *)
(* them a caller is suspended inside the wrapped method, and any number of *)
(* other callers, and time, may move.  Which method is called does not     *)
(* matter: all methods of a proxy share one state and one counter.         *)
(*                                                                         *)
(* The code reads the clock only in `time.monotonic() - _opened_at <       *)
(* _reset_timeout`; `age` is that difference, saturated at ResetTimeout.   *)
(* `_consecutive_failures` is only compared with the threshold; it is kept *)
(* exact up to MaxFailures and saturates there.                            *)
(***************************************************************************)
EXTENDS Naturals

CONSTANTS
  Callers,       \* the tasks that call methods of the proxy
  Threshold,     \* failure_threshold
  ResetTimeout,  \* reset_timeout, in clock ticks
  MaxFailures    \* where the two failure counters saturate

\* __init__ refuses failure_threshold < 1 and reset_timeout <= 0.
ASSUME BreakerAssumption ==
  /\ Threshold \in Nat \ {0}
  /\ ResetTimeout \in Nat \ {0}
  /\ MaxFailures \in Nat
  /\ MaxFailures >= Threshold

VARIABLES
  state,     \* _state
  failures,  \* _consecutive_failures
  age,       \* time.monotonic() - _opened_at, saturated
  call,      \* the last call of each caller: running, or how it ended
  healthy,   \* the wrapped backend: while TRUE it fails no call
  streak     \* history: calls that failed since the last one that succeeded

breaker == <<state, failures, age>>
vars == <<state, failures, age, call, healthy, streak>>

CLOSED == "CLOSED"
OPEN == "OPEN"
HALF_OPEN == "HALF_OPEN"
CircuitState == {CLOSED, OPEN, HALF_OPEN}

\* A call returned a value, raised the adapter's own error, was refused with
\* AdapterConnectionError by the breaker, or was cancelled by its caller.
Ended == {"none", "value", "error", "refused", "cancelled"}

Running == {c \in Callers : call[c] = "running"}

CountUp(n) == IF n < MaxFailures THEN n + 1 ELSE n

-----------------------------------------------------------------------------
Init ==
  /\ state = CLOSED
  /\ failures = 0
  /\ age = ResetTimeout
  /\ call = [c \in Callers |-> "none"]
  /\ healthy \in BOOLEAN
  /\ streak = 0

Finish(c, how) ==
  /\ call[c] = "running"
  /\ call' = [call EXCEPT ![c] = how]

LetIn(c) == call' = [call EXCEPT ![c] = "running"]

\* Fault: the boundary is off by one tick.
CoolingDownOffByOne == age + 1 < ResetTimeout

CoolingDown == age < ResetTimeout

\* _before_call in a circuit that is not open, in one that is still cooling
\* down, and in one whose reset_timeout has elapsed.
LetThrough(c) ==
  /\ state # OPEN
  /\ UNCHANGED <<state, age>>
  /\ LetIn(c)

\* Fault: a refused call restarts the timer.
RefuseRestartsTimer(c) ==
  /\ state = OPEN
  /\ CoolingDown
  /\ call' = [call EXCEPT ![c] = "refused"]
  /\ age' = 0
  /\ UNCHANGED state

Refuse(c) ==
  /\ state = OPEN
  /\ CoolingDown
  /\ call' = [call EXCEPT ![c] = "refused"]
  /\ UNCHANGED <<state, age>>

Probe(c) ==
  /\ state = OPEN
  /\ ~CoolingDown
  /\ state' = HALF_OPEN
  /\ LetIn(c)
  /\ UNCHANGED age

\* Fault: one probe at a time, with nothing to release the place of a probe
\* that is cancelled.
BeforeCallOneProbe(c) ==
  /\ call[c] \in Ended
  /\ \/ LetThrough(c) /\ state = CLOSED
     \/ state = HALF_OPEN /\ UNCHANGED vars
     \/ Refuse(c)
     \/ Probe(c)
  /\ UNCHANGED <<failures, healthy, streak>>

BeforeCall(c) ==
  /\ call[c] \in Ended
  /\ LetThrough(c) \/ Refuse(c) \/ Probe(c)
  /\ UNCHANGED <<failures, healthy, streak>>

\* Fault: a success takes one failure back instead of forgetting them all.
RecordSuccessDecrements ==
  /\ failures' = failures - 1
  /\ state' = CLOSED
  /\ UNCHANGED age

\* Fault: the counter is only reset when the circuit has to be closed.
RecordSuccessKeepsCount ==
  /\ IF state = CLOSED THEN UNCHANGED failures ELSE failures' = 0
  /\ state' = CLOSED
  /\ UNCHANGED age

\* The state change of _on_success, whatever state the circuit is in.
RecordSuccess ==
  /\ failures' = 0
  /\ state' = CLOSED
  /\ UNCHANGED age

\* Fault: a failed probe starts a new count.
RecordFailureResets ==
  \/ /\ state = HALF_OPEN
     /\ state' = OPEN
     /\ age' = 0
     /\ failures' = 0
  \/ /\ state # HALF_OPEN
     /\ failures' = CountUp(failures)
     /\ IF failures + 1 >= Threshold
        THEN state' = OPEN /\ age' = 0
        ELSE UNCHANGED <<state, age>>

\* The state change of _on_failure: a half-open circuit reopens at once and
\* leaves the counter alone, any other counts and compares.
RecordFailure ==
  \/ /\ state = HALF_OPEN
     /\ state' = OPEN
     /\ age' = 0
     /\ UNCHANGED failures
  \/ /\ state # HALF_OPEN
     /\ failures' = CountUp(failures)
     /\ IF failures + 1 >= Threshold
        THEN state' = OPEN /\ age' = 0
        ELSE UNCHANGED <<state, age>>

Succeed(c) ==
  /\ Finish(c, "value")
  /\ RecordSuccess
  /\ streak' = 0
  /\ UNCHANGED healthy

Fail(c) ==
  /\ ~healthy
  /\ Finish(c, "error")
  /\ RecordFailure
  /\ streak' = CountUp(streak)
  /\ UNCHANGED healthy

\* CancelledError is not an Exception: neither handler of _guarded runs.
Cancel(c) ==
  /\ Finish(c, "cancelled")
  /\ UNCHANGED <<breaker, healthy, streak>>

\* The monotonic clock advances.
Tick ==
  /\ age < ResetTimeout
  /\ age' = age + 1
  /\ UNCHANGED <<state, failures, call, healthy, streak>>

\* The backend behind the wrapped object breaks down or recovers.
BackendTurns ==
  /\ healthy' = ~healthy
  /\ UNCHANGED <<breaker, call, streak>>

CallerStep(c) == BeforeCall(c) \/ Succeed(c) \/ Fail(c) \/ Cancel(c)

Next ==
  \/ \E c \in Callers : CallerStep(c)
  \/ Tick
  \/ BackendTurns

Spec == Init /\ [][Next]_vars

\* Time passes; nothing is assumed of callers or of the backend.
TimedSpec == Spec /\ WF_vars(Tick)

\* Callers keep calling, and a caller of a backend that is up time and again is
\* not cancelled every time (adapters bound their calls by operation_timeout).
FairSpec ==
  /\ TimedSpec
  /\ \A c \in Callers : WF_vars(BeforeCall(c)) /\ SF_vars(healthy /\ Succeed(c))

-----------------------------------------------------------------------------
TypeOK ==
  /\ state \in CircuitState
  /\ failures \in 0..MaxFailures
  /\ age \in 0..ResetTimeout
  /\ call \in [Callers -> Ended \cup {"running"}]
  /\ healthy \in BOOLEAN
  /\ streak \in 0..MaxFailures

\* The counter and the state never disagree: the circuit is closed exactly
\* while the counter is below the threshold, through probes that fail without
\* being counted and through answers that arrive in a state later than the
\* one their call was made in (_on_success, _on_failure).
CountMatchesState == (state = CLOSED) <=> (failures < Threshold)

\* The circuit is closed exactly while fewer than failure_threshold calls have
\* failed since the last success: it neither opens on failures that were not
\* consecutive nor stays closed through a full run of them, in whatever order
\* concurrent calls end.
OpenIffConsecutiveFailures == (state = CLOSED) <=> (streak < Threshold)

\* Until reset_timeout has elapsed an open circuit lets no new call reach the
\* backend: the set of running calls can only shrink, even though late
\* answers may move the circuit meanwhile.
DrainsWhileCooling ==
  [][(state = OPEN /\ age < ResetTimeout) => Running' \subseteq Running]_vars

\* An open circuit does not refuse for ever: although every late failure
\* restarts the timer, reset_timeout elapses or a late success closes it.
CoolDownEnds == (state = OPEN) ~> (state # OPEN \/ age = ResetTimeout)

\* Once the backend stays healthy the circuit closes for good, even when
\* probes are cancelled and leave it half-open.
Recovers == (<>[]healthy) => (<>[](state = CLOSED))

-----------------------------------------------------------------------------
\* What circuit_breaker.py says of itself and the code does not keep.

\* "it does not affect the CLOSED/OPEN transitions, which are strictly
\* threshold- and timeout-gated": no open circuit closes before its timeout.
ClosingIsTimeoutGated ==
  [][(state = OPEN /\ age < ResetTimeout) => state' # CLOSED]_vars
=============================================================================
