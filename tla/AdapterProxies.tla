--------------------------- MODULE AdapterProxies ---------------------------
(***************************************************************************)
(* openframe/core/tracing/proxy.py and resilience/circuit_breaker.py: one  *)
(* method of an adapter behind both proxies in the recommended order,      *)
(*                                                                         *)
(*   CircuitBreakerProxy(TracingProxy(adapter, ...), ...)                  *)
(*                                                                         *)
(* Each proxy looks at the method once, in __getattr__: if it is then a    *)
(* coroutine function, a closure that guards (traces) every call is cached *)
(* under its name for good, otherwise the attribute itself is handed out   *)
(* and nothing is cached.  The adapter (external) replaces its method when *)
(* it reconnects, by one of any kind.                                      *)
(*                                                                         *)
(* The circuit and its callers are those of CircuitBreaker; here a running *)
(* call first reaches the method and then ends.                            *)
(***************************************************************************)
EXTENDS CircuitBreakerRefinement

CONSTANT MaxReconnects  \* bound on the methods the adapter may put in place

ASSUME ProxiesAssumption == MaxReconnects \in Nat

VARIABLES
  method,   \* the adapter's method of that name: its kind and its number
  guarded,  \* the name is in the breaker's _cache
  traced,   \* the name is in the tracing proxy's _cache
  ran,      \* the number of the method the last call of each caller ran
  span,     \* whether that call opened a span
  around    \* whether the last call of a caller went around the proxies

adapter == <<method, guarded, traced>>
path == <<ran, span, around>>
proxyVars == <<vars, adapter, path>>

\* A coroutine function; a plain function that returns an awaitable (a lambda,
\* a partial, a decorated coroutine); a synchronous function; no such attribute.
Kinds == {"coroutine", "awaitable", "sync", "absent"}

NotReached == 0

ProxiesInit ==
  /\ Init
  /\ method \in [kind : Kinds, number : {1}]
  /\ guarded = FALSE
  /\ traced = FALSE
  /\ ran = [c \in Callers |-> NotReached]
  /\ span = [c \in Callers |-> FALSE]
  /\ around = [c \in Callers |-> FALSE]

\* A guarded call that the circuit let in and that has not met the method yet.
Entering(c) == call[c] = "running" /\ ran[c] = NotReached

-----------------------------------------------------------------------------
(***************************************************************************)
(* __getattr__ of the two proxies.                                         *)
(***************************************************************************)
\* Fault: the kind of the method is looked at on every access.
SeenAsCoroutineNow == method.kind = "coroutine"

\* The breaker looks at what the tracing proxy hands out: its closure, which is
\* a coroutine function, or the adapter's own method.
SeenAsCoroutine == guarded \/ traced \/ method.kind = "coroutine"

\* await proxy.method(...), the name being cached or the method a coroutine
\* function: both closures exist from now on, and the circuit decides.
CallGuarded(c) ==
  /\ SeenAsCoroutine
  /\ BeforeCall(c)
  /\ guarded' = TRUE
  /\ traced' = TRUE
  /\ ran' = [ran EXCEPT ![c] = NotReached]
  /\ span' = [span EXCEPT ![c] = FALSE]
  /\ around' = [around EXCEPT ![c] = FALSE]
  /\ UNCHANGED method

\* The method has never been seen as a coroutine function: it is handed out
\* as it is, untraced and uncounted, and what becomes of the call is its affair.
CallAround(c) ==
  /\ ~SeenAsCoroutine
  /\ method.kind # "absent"    \* AttributeError otherwise
  /\ call[c] \in Ended
  /\ ran' = [ran EXCEPT ![c] = method.number]
  /\ span' = [span EXCEPT ![c] = FALSE]
  /\ around' = [around EXCEPT ![c] = TRUE]
  /\ UNCHANGED <<vars, adapter>>

-----------------------------------------------------------------------------
(***************************************************************************)
(* The closures _guarded and _traced.                                      *)
(***************************************************************************)
\* The method is looked up anew in every call.  What the closures await is
\* awaitable: the call is now inside the adapter.
EnterMethod(c) ==
  /\ Entering(c)
  /\ method.kind \in {"coroutine", "awaitable"}
  /\ ran' = [ran EXCEPT ![c] = method.number]
  /\ span' = [span EXCEPT ![c] = TRUE]
  /\ UNCHANGED <<vars, adapter, around>>

\* The breaker's part of a call that raises by no fault of the backend's.
CountAsFailure(c) ==
  /\ Finish(c, "error")
  /\ RecordFailure
  /\ streak' = CountUp(streak)
  /\ UNCHANGED healthy

\* The method has become synchronous: it runs, and `await` of its result
\* raises TypeError, which the breaker counts as a failure.
AwaitFails(c) ==
  /\ Entering(c)
  /\ method.kind = "sync"
  /\ CountAsFailure(c)
  /\ ran' = [ran EXCEPT ![c] = method.number]
  /\ span' = [span EXCEPT ![c] = TRUE]
  /\ UNCHANGED <<adapter, around>>

\* Fault: the span is opened before the method is looked up.
LookupFailsInSpan(c) ==
  /\ Entering(c)
  /\ method.kind = "absent"
  /\ CountAsFailure(c)
  /\ span' = [span EXCEPT ![c] = TRUE]
  /\ UNCHANGED <<adapter, ran, around>>

\* The method is gone: AttributeError, before the span is opened.
LookupFails(c) ==
  /\ Entering(c)
  /\ method.kind = "absent"
  /\ CountAsFailure(c)
  /\ UNCHANGED <<adapter, path>>

\* The call comes back from the adapter, or is cancelled there.
Return(c) ==
  /\ ran[c] # NotReached
  /\ Succeed(c) \/ Fail(c) \/ Cancel(c)
  /\ UNCHANGED <<adapter, path>>

\* The adapter replaces its method.  There is no await between the circuit's
\* decision and the look-up, so no call is half way.
Reconnect ==
  /\ \A c \in Callers : ~Entering(c)
  /\ method.number <= MaxReconnects
  /\ \E k \in Kinds : method' = [kind |-> k, number |-> method.number + 1]
  /\ UNCHANGED <<vars, guarded, traced, path>>

Environment == (Tick \/ BackendTurns) /\ UNCHANGED <<adapter, path>>

ProxiesNext ==
  \/ \E c \in Callers :
       \/ CallGuarded(c)
       \/ CallAround(c)
       \/ EnterMethod(c)
       \/ AwaitFails(c)
       \/ LookupFails(c)
       \/ Return(c)
  \/ Reconnect
  \/ Environment

ProxiesSpec == ProxiesInit /\ [][ProxiesNext]_proxyVars

-----------------------------------------------------------------------------
\* A method that has been guarded once stays guarded: while the circuit is
\* open and cooling down, no call of it reaches the adapter around the
\* breaker, whatever kind of function a reconnect has put in its place.
StaysShielded ==
  [][\A c \in Callers :
       (guarded /\ state = OPEN /\ CoolingDown /\ call[c] # "running") =>
          ran'[c] \in {ran[c], NotReached} /\ ~(around'[c] /\ ~around[c])]_proxyVars

\* With the breaker outside, the spans are exactly the calls that reached the
\* adapter: none for a call that was refused or found no method, and none
\* missing except for calls that went around the proxies altogether.
SpansAreAdapterCalls ==
  \A c \in Callers : span[c] <=> (ran[c] # NotReached /\ ~around[c])
=============================================================================
