# OpenFrame Core in TLA+

Specifications of the parts of `openframe/core` that keep state: the circuit breaker and the
tracing proxy, the plugin registry, the application bootstrap, the telemetry globals, error
recording, the telemetry middleware, and the fakes that stand in for adapters (consumer,
repository, vector and graph store, session) with the promises of their ports. TLC checks them
on small instances; TLAPS proves the most important invariants and most of the refinements for
every value of the constants.

```
tlc -config circuit_concurrent.cfg CircuitBreaker      # one run; the others are listed below
tlapm CircuitBreakerProofs.tla                         # one proof module
```

## 1. Inventory

OpenFrame Core is a library for asyncio services. Everything below runs in one event loop, so
code is interleaved only where it awaits; threads appear only inside OpenTelemetry.

| component (source) | state | operations | what is hard |
|---|---|---|---|
| `CircuitBreakerProxy` (`resilience/circuit_breaker.py`) | `_state`, `_consecutive_failures`, `_opened_at`, a cache of closures | a guarded call: `__getattr__`, `_before_call`, the wrapped method, `_on_success` or `_on_failure` | calls are admitted in one state and end in another; cancelled calls report nothing; a timer |
| `TracingProxy` (`tracing/proxy.py`) | a cache of closures | a traced call | a method replaced while its closure is cached |
| `PluginRegistry` (`plugins/registry.py`) | `_plugins` and maps by name, `_initialized`, principal and tenant | `register`, `get`, `get_all`, `list_plugins`, `initialize_all`, `shutdown_all`, `health_all`, `set_context` | three loops that await a port per iteration; failures and timeouts halfway; rollback; overlap; cancellation |
| `ApplicationBootstrap` (`runtime/bootstrap.py`) | a registry | `compose`, `configure`, `register`, `start`, `stop`, `async with` | order of port shutdown and flush; start that fails; restart |
| telemetry setup (`telemetry/setup.py`) | `_INITIALISED`, two providers, cached tracer and meter | `setup_telemetry`, `shutdown_telemetry`, `get_tracer`, `get_meter` | process-wide state, and OpenTelemetry globals that can be set once |
| error recording (`telemetry/setup.py`, `record_error`) | a flag and a trace id on each error object, a metric | `record_error` at each seam an error passes | the same object passes several seams and several requests; each half can fail |
| `TelemetryMiddleware` (`middleware/telemetry.py`) | instruments; per request the status and the span | `__call__`, `_handle_http`, `send_with_telemetry` | overlapping requests on shared counters; three ways to end |
| `FakeConsumer` (`testing/fakes/consumer.py`) | `_pending`, `acked`, `nacked`, the batch of each running `subscribe` | feed, subscribe, ack, nack | overlapping subscriptions; handlers that fail; a cancelled subscription |
| in-memory stores (`testing/fakes/repository.py`, `vector_store.py`, `graph_store.py`) | an ordered map of entities | CRUD, list, search, traverse, clear | reading by page while the store changes; ends of slices; vectors of unequal lengths |
| `InMemorySession` (`testing/fakes/inbound.py`) | `sent`, `closed`, `close_reason` | send, close | close between a check and a send; the first reason stays |
| contracts (`testing/contracts/`), ports (`ports/`, `inbound/`) | none | what adapters and transports must do | - |
| exceptions, config, schemas, media, remote, propagation | none that changes | - | - |

How they interact. The bootstrap owns a registry, calls its lifecycle and, after `shutdown_all`,
`shutdown_telemetry()`. The registry calls `record_error` when a port fails. A request passes
the middleware, reaches the application, which calls adapters through a `TracingProxy`, perhaps
inside a `CircuitBreakerProxy`; an error on its way back meets `record_error` in the proxy and
again in the middleware. All spans and metrics reach whatever provider OpenTelemetry holds
globally. A consumer calls a handler per message, and the handler calls a repository and a
session, each of which others use at the same time.

What makes each correct:

- circuit breaker: it opens after exactly `failure_threshold` consecutive failures, lets nobody
  through before `reset_timeout`, never refuses for ever, and recovers with its backend;
- the two proxies: they never let a guarded method out of the guard, whatever the adapter makes of
  it when it reconnects, and open a span for every call that reaches the adapter and no other;
- registry: ports come up in registration order and go down in reverse, the ports of a start
  under one principal and tenant; a failed start leaves nothing up; nothing that is up gets out
  of reach of `shutdown_all`; a lookup never silently changes its answer; a health report leaves
  out no port;
- bootstrap: what serves is completely up; telemetry is shut down last; a stop leaves nothing,
  and what a start that failed has left unexported stays in reach;
- telemetry: what was recorded is exported or in reach of the next shutdown;
- error recording and middleware: each error and each request is counted once, an error stays
  under its first trace, and the metrics agree with the spans;
- consumer: every message ends once, acknowledged, refused or with a cancelled subscription, and
  a subscription works off the batch it found and nothing else;
- stores: an operation touches the one entity with the id, an answer tells of all and only the
  entities there are, a walk through the pages misses nothing that was there;
- session: nothing is sent after the close, and nothing is acknowledged that was not sent.

The hazards, each at its line, are in `PROJECT.json`.

## 2. Modules

| module | models | state and actions |
|---|---|---|
| `CircuitBreaker` | `CircuitBreakerProxy` | `state`, `failures`, `age` are `_state`, `_consecutive_failures` and the time since `_opened_at`. `BeforeCall` (`LetThrough`, `Refuse`, `Probe`), `Succeed`, `Fail` are the three critical sections, which contain no await; `Cancel` is `CancelledError`, which passes both handlers of `_guarded`; `Tick` is the clock; `BackendTurns` breaks and heals the wrapped object. `streak` is a history variable |
| `CircuitMachine` | the state machine drawn in the module docstring | four edges, the run of failures, the wait |
| `CircuitBreakerRefinement` | - | maps the breaker to `CircuitMachine` |
| `AdapterProxies` | `__getattr__` and the closures of both proxies, in the order the docs recommend | extends the breaker. `guarded`, `traced` are the two `_cache`s; `CallGuarded` and `CallAround` are the two outcomes of `__getattr__`; `EnterMethod`, `AwaitFails`, `LookupFails` what the closures meet when they look the method up; `Reconnect` is the (external) adapter that replaces it |
| `PluginRegistry` | `PluginRegistry` | one action per segment between awaits: `InitializeAll`, `InitOk`, `InitRaises`, `InitTimesOut` (with `RollBack`), `ShutdownAll`, `PortDown`, `Cancelled`. `pc`, `pos`, `batch` are the suspended loop, its index and the list object it walks; `held` is what the (external) ports hold |
| `PortStack` | order promised by the class docstring | `Add`, `Up`, `Down` |
| `PluginRegistryRefinement` | - | maps the registry to `PortStack` |
| `RegistryService` | `set_context`, the contexts of `initialize_all`, `health_all` | extends the registry. `SetContext`; `Lifecycle` is a registry step that hands the next port its context (`given`); `BeginHealthAll`, `PortAnswers`, `HealthRaises`, `HealthCancelled` are the monitor at position `asked`. `settled` is a history variable |
| `Telemetry` | `setup_telemetry`, `shutdown_telemetry` | `Setup`, `Shutdown(F)` with the providers `F` that raise; OpenTelemetry (external) as a global that is set once and providers that buffer and close |
| `ApplicationBootstrap` | `ApplicationBootstrap` | instances of `PluginRegistry` and `Telemetry` sharing its variables; `Start`, `Starting`, `Stop`, `Stopping` take one registry step each and decide where the `async with` statement is |
| `ErrorRecording` | `record_error` | `Annotate` (span half) and `Count` (metric half), each of which may fail |
| `TelemetryMiddleware` | `TelemetryMiddleware` and a traced adapter call | extends `ErrorRecording`; `Receive`, `SendStart`, `CallAdapter`, `AdapterReturns`, `AdapterRaises`, `HandlerReturns`, `HandlerRaises`, `Cancelled` |
| `MessageDelivery` | what `BaseConsumer` asks of any adapter, whenever a subscription receives and however long it runs | `Arrive` (the broker), `Receive`, `Confirm`, `Refuse` (the message may come again), `Stop`; `handling[s]` is the one message the handler of a subscription has |
| `FakeConsumer` | `FakeConsumer` | `pending`, `taken[s]` are `_pending` and the rest of the list a `subscribe()` iterates; `Feed`, `Subscribe`, `HandlerReturns` (ack), `HandlerRaises` (nack), `SubscriptionCancelled`. `fed`, `dropped` are history variables. Seen from the port, `taken[s]` is what `s` has received and its head is at the handler |
| `SessionContract`, `InMemorySession` | `Session`, `InMemorySession` | `Send`, `SendRefused`, `Close` |
| `EntityStore` | what `BaseRepository`, `BaseVectorStore`, `BaseGraphStore` and their contracts ask | writes as actions on a set of entities, reads as predicates `IsGet`, `IsList`, `IsFound`, `IsNearest` (by the adapter's metric), `IsTraverse` (by id) on an answer |
| `InMemoryRepository` | the three in-memory stores | `store` is the dict in insertion order; `Create`, `Update`, `Delete`, `Clear`; `Get`, `List`, `Search` (with the distance over the shorter length and a stable ranking), `TraverseById` |
| `EventPipeline` | the three fakes at work together | extends them with a handler that stores and then sends (`Persist`, `Forward`, `ForwardTooLate`, `Complete`, `Break`), someone who closes the session, other writers (`RemoveEntity`, `ChangeEntity`, `ClearStore`) and a reader of pages (`StartWalk`, `NextPage`) |
| `MCPluginRegistry`, `MCRegistryService`, `MCApplicationBootstrap`, `MCEventPipeline` | - | names, lists and records of the instances |
| `CircuitBreakerProofs`, `PluginRegistryProofs`, `RegistryServiceProofs`, `ApplicationBootstrapProofs`, `TelemetryProofs`, `TelemetryMiddlewareProofs`, `FakeConsumerProofs`, `EventPipelineProofs` | - | theorems |

Each module keeps, in front of a definition, a few variants of it that are marked `Fault:`.
They are not used by any specification; each is a plausible mistake in that code which the
property named for it in `PROJECT.json` detects.

Abstractions. Data that no property tells apart is left out: arguments and results of guarded
calls, configuration and log lines, labels, headers, sizes and durations. Time is a saturating
age, because the code only compares it with `reset_timeout`; a failure counter saturates at
`MaxFailures`, because it is only compared with the threshold. A port holds resources from the
end of a successful `initialize()` to the end of `shutdown()`; what a port does about its own
half-finished `initialize()` is not modelled. Methods of a guarded adapter are not told apart in
`CircuitBreaker`, since the circuit is one per proxy; `AdapterProxies` follows the one method
whose closures are cached. A message stands for one delivery of it, so the instance sends two
messages about one entity. Distances are compared as their squares, of integer vectors.

## 3. Runs

| run (distinct states) | instance | shows |
|---|---|---|
| `circuit_concurrent` (5,654) | 3 callers, threshold 2, timeout 2 ticks | `TypeOK`, `CountMatchesState`, `OpenIffConsecutiveFailures`, `DrainsWhileCooling`, and under fairness `CoolDownEnds`, `Recovers` |
| `circuit_sequential` (2,076) | `AdapterProxies` with 1 caller, threshold 5 (the default), timeout 8, 2 reconnects to any kind of method | `ImplementsMachine`: without concurrency the breaker is exactly the documented machine; `StaysShielded`, `SpansAreAdapterCalls` of the closures |
| `circuit_late_success` (violated) | 2 callers | `ClosingIsTimeoutGated`: a call admitted earlier succeeds and closes an open circuit at once |
| `registry_sequential` (223,812) | `RegistryService` with 1 client and a monitor, 4 ports (two share a name, two a capability), 1 principal | `TypeOK`, `NothingForgotten`, `RollbackLeavesNothing`, `LookupIsStable`, `ImplementsStack`, `StartsUnderOneContext`, `ReportIsComplete`, and under fairness `StartEnds`, through failures, timeouts, cancellation, restarts, registrations and `set_context` at any time |
| `registry_status` (violated) | 1 client | `StatusIsTruthful`: ports rolled back are still reported INITIALIZED |
| `registry_stop_during_start` (violated) | 2 clients | `NothingForgotten`: a port that comes up while `shutdown_all` awaits is lost |
| `telemetry_guard` (1,299) | 3 setups | `TypeOK`, `NothingOrphaned` in every order of setup, shutdown, provider failure and foreign providers |
| `telemetry_second_setup` (violated) | 2 setups | `SetupRevives`: after setup, shutdown, setup everything recorded is dropped |
| `app_lifecycle` (14,447) | 1 task, 3 ports, 2 setups | `TypeOK`, `ServesWithAllUp`, `TelemetryGoesLast`, `LeavesNothing`, `UnflushedIsInReach`, and under fairness `StopEnds` |
| `middleware_metrics` (5,446) | 2 requests, 2 error objects (an `OpenFrameError`, and a foreign one that refuses attributes), 2 statuses, 2 adapter calls | `TypeOK`, `CountedOnce`, `CorrelationSticks`, `MetricsMatchSpans`, `ActiveDrift` |
| `middleware_active` (violated) | the same | `ActiveIsCurrent`: a cancelled request stays active for ever |
| `event_pipeline` (168,906) | 3 messages in two lists, 2 subscribers, 3 entities with 2 ids, pages of 1, 2 close reasons | `TypeOK`, `NothingTwice`, `NothingVanishes`, `AckedWasSent`, `BatchesAreClosed`, `AnswersArePromised`, `WalkIsSound`, `ImplementsDelivery`, `ImplementsContracts`, and under fairness `EveryMessageSettles` |

Why the bounds are enough. The interesting schedules of the breaker need one caller left over
from before the circuit opened, one probing and one arriving: three. A threshold of 2 is the
least that distinguishes "consecutive" from "any"; two ticks the least with a moment inside the
cool-down. The closures see a method three times: as it was cached, replaced, and replaced again. A
lifecycle loop has a first, a middle and a last port: three distinct names, the fourth port
exists to be refused. One principal makes two contexts, with it and without: the least at which
two ports of a start can differ (no tenant, and one status besides FAILED, since no property
compares those). Overlap needs two clients, sharing an error object two requests, a stale provider two
setups. A batch of two has a message behind the one being handled, the second list one that
arrives meanwhile, two subscribers compete for it; two ids are the least for which a page can
be followed by another, and one id with two entities a replacement that changes what is found. Their vectors
have two lengths: two of one length are there to be ranked by a query of that length, and the short
one is the case in which the distance looks at a part of a vector only.
The proofs remove the bounds from most of this.

Deadlock is checked everywhere except in the middleware runs, whose requests all end.

Fairness. `CircuitBreaker!TimedSpec`: time passes. `FairSpec` adds that callers keep calling
and that a caller of a backend that is up is not cancelled every single time; nothing is
assumed of a broken backend, and `Recovers` speaks of backends that stay healthy.
`PluginRegistry!FairSpec` and `FairServiceSpec`: a timeout that is set fires (`asyncio.timeout`),
and `shutdown()` comes back; `initialize()` and `health()` may hang. `ApplicationBootstrap!FairSpec`:
`shutdown()` comes back. That is the ports' contract and not enforced: `shutdown_all` has no
timeout. `EventPipeline!FairSpec`: subscribers subscribe again and again, and a handler that is
not cancelled comes to its end. Both are assumptions on the code around the fake, which a test
writes: the fake's `subscribe` returns when its batch is done, and has no timeout either.

The violated runs are disagreements between the code and what its documentation says; each is
quoted with its lines in `PROJECT.json`. Known and not made into runs of their own:

- a half-open circuit admits any number of calls while its probe is out
  (`circuit_breaker.py:200`; the models contain it);
- the breaker counts every `Exception` as a failure of the backend, an `AttributeError` or
  `TypeError` of the closure included (`circuit_breaker.py:178`; `LookupFails`, `AwaitFails`);
- a stop that is cancelled skips the flush, and a start that fails inside `async with` leaves
  without one (`bootstrap.py:276`, `294`; `app_lifecycle` contains both, so that `LeavesNothing` and
  `StopEnds` are about stops that return, and `UnflushedIsInReach` about the others);
- `setup_telemetry` raises on a malformed number (`setup.py:158`); an error that refuses
  attributes is counted at every seam (`setup.py:397`; `CountedOnce` leaves the `Frozen` errors
  out); the label of the metric is whatever `code` an error happens to have (`setup.py:389`);
- `set_context` resets the half it is not given to None (`registry.py:196`; `SetContext` does);
- the fake consumer's `close()` is a no-op while the port says that it stops consuming
  (`fakes/consumer.py:156`), and its `subscribe` returns when the batch is done where that of the
  port "typically runs until close() is called" (`ports/outbound/consumer.py:75`). `BatchesAreClosed`
  states what the fake's own docstring says of it (`fakes/consumer.py:113`);
  `docs/code/modules/testing.md:97-106` contradicts that: it feeds the consumer after `subscribe` has
  returned and expects the message to be handled, with an `inject()` there is not and a handler
  that is not a coroutine function;
- "an exact-match query vector always ranks first" (`fakes/vector_store.py:63-66`) is false of a
  store with vectors of several lengths: `zip()` cuts the longer one off (line 53), so that to the
  query `<<1, 1>>` a stored `<<1>>` is as near as a stored `<<1, 1>>`, and comes first if it was
  created first. The port requires the query to match the dimension of the collection and calls a mismatch
  an error (`ports/outbound/repository.py:259-264`); the fake raises none. `event_pipeline`
  reaches this store, and `AnswersArePromised` states what is left of the promise in it: what
  comes first agrees with the query as far as the shorter of the two goes;
- `traverse()` with other parameters than an id ignores the query and gives every node
  (`fakes/graph_store.py:103-105`), as its docstring says; no port promises that, so it is not
  compared with one and not modelled;
- `get_contract_meta` of an undecorated subclass returns what the decorated class was given, although it
  promises None (`schemas/__init__.py:125`).

## 4. Proofs

`CircuitBreakerProofs`, for every set of callers, threshold, timeout and saturation bound
(`BreakerAssumption`):

- `BreakerInv` is the inductive invariant. `OpenIffConsecutiveFailures` speaks of the history
  `streak`, which the code does not have; it is inductive only together with
  `CountMatchesState` and the fact that counter and history agree while the circuit is closed,
  since a failed probe lengthens the streak without being counted.
- `TypeCorrect`, `CounterTracksState`, `OpensOnConsecutiveFailures` follow from it.
- `Draining` is the action property: a running call of the next state was running before.
- `SequentialRefinement`: with one caller (`OneCaller`), every step is a step of
  `CircuitMachine` or a stutter. It needs that a running call and an open circuit exclude
  each other, which is what concurrency breaks. `ProxiesAreTheMachine` is the same for
  the breaker around a tracing proxy: the lemmas are about a `BreakerStep`, which may also be a
  call that fails without the backend's doing (`CountAsFailure`).
- `SequentialClosingIsTimeoutGated` and `DrainedIsTimeoutGated` say how far the module's "strictly
  timeout-gated" is true, which `circuit_late_success` refutes in general: without reservation for
  one caller, because then nothing is left running in an open circuit; for any number of callers
  from the moment the last call that was let in before has ended.
- `SpansAreExact` and `GuardedStaysShielded` hold for any number of callers and reconnects. `PathInv` adds that a call which is under way never went around the proxies.

`PluginRegistryProofs`:

- `RegistryTypeCorrect` and `NamesStayUnique` hold for any number of overlapping clients: in
  particular no loop indexes outside its list, although `_plugins` grows under it. So does the
  action property `LookupsAreStable`: a registration adds one position to the matches of its
  capability, and unique names keep two ports from being found at one.
- The others assume `CalledOnce` (a start only while nothing is up) and `[]NoOverlap`: any number of
  clients, of which one at a time is in a lifecycle call; a single client is the case that
  `registry_sequential` checks. The inductive invariant `StackInv` ties the suspended loop to the ports that
  are up: while a start is at index i the first i - 1 ports of the registration order are up and are
  what `_initialized` lists; while a loop goes down at index i, exactly the first i are; between
  calls what is up is a prefix that `_initialized` covers. From it follow `NoPortIsForgotten`,
  `StartIsAllOrNothing`, its action form `FailedStartsAreClean` (the very step that raises leaves
  nothing up, whoever called before) and the refinement `RegistryIsAStack`.
- `StatusIsTruthfulWithoutFailures`: a call that fails or is cancelled is the only way `list_plugins`
  comes to lie, as it does in `registry_status`. `ListIsHeld` adds to `StackInv` that between
  calls the ports of `_initialized` are the ones that are up.
- `registry_stop_during_start` shows that `NoOverlap` cannot simply be dropped.

`RegistryServiceProofs`:

- a step of `RegistryService` is a step of the registry or leaves it alone (`ServiceIsRegistry`),
  which carries the theorems above over to the specification `registry_sequential` checks:
  `ServiceForgetsNothing`, `ServiceStartIsAllOrNothing`, `ServiceIsAStack`, `ServiceLookupsAreStable`.
- `OneContextPerStart`: the inductive invariant `ContextInv` says that, as long as a start is
  settled, every port it has brought up and the one it awaits carry the current context, and
  that between starts the ports that are up carry one.
- `ReportsAreComplete` holds for calls that overlap, too: by `HealthInv` the report so far covers exactly the names of the
  ports before the one being asked, and the list only grows at its end.

`TelemetryProofs`, for any number of setups (`TelemetryAssumption`):

- `TelemetryInv` adds `GlobalAccounted`: the provider that `get_tracer` and `get_meter` lead to
  is somebody else's, the current one, or one that has been shut down or has failed to. Without it a
  measurement could be buffered in a provider nobody references.
- `TelemetryTypeCorrect` and `NothingGetsOrphaned` follow from it.
- `FirstSetupWorks` and `ClosedStaysInPlace` divide what `telemetry_second_setup` refutes: the
  first setup does lead to a provider that is running (`PairInUse`: until a second pair is made the
  current one has not been shut down), and a global provider that was shut down is never replaced.

`ApplicationBootstrapProofs`, for every set of ports, every family of lists that `configure()`
may register and any number of setups (`BootstrapAssumption`):

- `BootTypeCorrect` (by `BootInv`) and `BootKeepsTelemetryInReach` (by `OtelInv`, the invariant of `Telemetry`
  over the bootstrap's steps, in the stronger form its providers allow) hold for any number of tasks.
- The others assume `[]BlocksApart`: any number of tasks, of which one at a time is inside the block. They
  do not assume that a task starts only while nothing is up: a stop that was cancelled leaves ports
  up, and the next start goes over them. `PortsInv` says that while the start is at index i the ports
  before i are up and in `_initialized`, whatever else is still up; while the task serves everything that is
  up is in `_initialized`; while the stop is at index i only the ports from there down are up.
  `BlockServesWithAllUp`, `TelemetryIsShutDownLast` and `StopsReturnClean` (nothing is left in the
  step that returns, whoever had left it) follow, the last together with `OtelInv`.
- `BlockLeavesNothing` keeps one task (`OneTask`): that what was left clean stays so is false as soon as
  another task enters the block.

`TelemetryMiddlewareProofs`, for every finite set of requests and any errors, status codes and
adapter calls (`MiddlewareAssumption`, `ErrorAssumption`):

- `MiddlewareInv` adds `RequestShape` (a request that is in flight has no result and an unset
  span, a cancelled one keeps the unset span), so that the request a step moves from one set to
  another changes each cardinality by one (`OneMore`, `OneLess`).
- `MiddlewareTypeCorrect`, `ErrorsCountedOnce`, `MetricsAgreeWithSpans` and
  `ActiveDriftsByCancellation` follow from it; `CorrelationStays` is the action property.
- `ActiveIsCurrentWithoutCancellation` and `CancellationLosesTheGauge` make `middleware_active`
  exact: without cancellation the gauge is right, and the first cancellation puts it out for good.

`FakeConsumerProofs`, for every set of messages, lists and subscribers (`ConsumerAssumption`):
`ConsumerInv` (`NothingTwice`, `NothingVanishes` and types) is inductive as it stands; from it
`ConsumerTypeCorrect`, `MessagesStayApart`, `MessagesStayAccountedFor`. `ConsumerRefinement` shows
that the fake is one of the adapters the port allows (`MessageDelivery`): because no message is in a batch
twice, ending with the head of the list takes one message, and that one, out of what the
subscription has received (`HeadLeaves`, `PortView`), and the handler is next called with another of them
(`FirstIsCalled`). What the fake promises beyond the port is `BatchesStayClosed`.

`EventPipelineProofs`, in addition for every mapping of messages to entities and every page size
(`PipelineAssumption`, `RepositoryAssumption`):

- a step of the pipeline is a step of the consumer or leaves it alone (`PipelineConsumes`), which
  carries its theorems over: `PipelineNothingTwice`, `PipelineNothingVanishes`,
  `PipelineImplementsDelivery`, `PipelineBatchesStayClosed`.
- `PipelineAckedWasSent`: `SentInv` adds that a message a handler has not sent yet is in nobody's
  receipt, and one it is about to return from has been sent.
- `WalksAreSound`: `WalkInv` says that what the reader has seen are exactly the ids of the first
  positions of the store, up to its offset; it is preserved because a creation only adds at
  the end, and a creation over an existing id or an update leaves every id where it is
  (`StaysInPlace`).
- `ContractsAreImplemented`: each write of the ordered store is the write of the set, shown by
  what the three ways to change the list do to its range; the session likewise.
- `AnswersAreKept`: what the repository answers follows from the type of the store alone
  (`StoreInv`), but for every query. `Distance`, which stops at the shorter vector, and `Euclidean`, in
  which the promise is stated, are separate definitions: `DistanceLaws` shows that they are the same
  for vectors of one length, and that for others a distance of zero means that they agree as far
  as the shorter goes. Both are recursive functions, so that they first have to be shown to
  exist (`SumExists`) and to be zero only between lists that agree (`SumIsZero`). A
  ranking is any sorted permutation: the proof is that one exists (`SortingExists`) and that its first k
  leave out nothing nearer (`SearchIsPromised`). The induction theorems of the library cannot be
  used; these lemmas argue by a least counterexample instead, which exists because the order of the
  numbers is well-founded (`LeastNumber`).
- `PipelineTypeOK`: `SessionInv` adds that the session is closed exactly with a reason and that a
  subscription at rest is at no point of a handler.

Only model-checked: the liveness properties (`CoolDownEnds`, `Recovers`, `StartEnds`, `StopEnds`,
`EveryMessageSettles`), which need fairness and ENABLED. Every other property of a run is stated
by a theorem, those that a run refutes with the condition under which they hold
(`ClosingIsTimeoutGated`, `StatusIsTruthful`, `NothingForgotten` in `registry_stop_during_start`,
`SetupRevives`, `ActiveIsCurrent`).

## 5. Not modelled

- Data classes and protocols (ports, capabilities, schemas, media, settings, remote clients), the exception
  hierarchy (its constructors only fill a record), trace propagation (functions of a header) and log output keep
  no state that changes; a model of them would restate one assignment each.
- `FakeProducer`, the spies and `EchoUseCase` append to a list and do nothing else. The lifecycle
  flags and `health()` answers of the fakes are constants or the flag itself, and no fake looks at them.
- The protocols `SessionHandler` and use case have no code. `EventPipeline` takes from
  `inbound/session.py` how a handler uses a session.
- Messages and details of health answers and of errors; anything that is formatted.
- The exporter's retries and batching belong to OpenTelemetry, which is modelled as far as
  `telemetry/setup.py` relies on it.
- Hazards without a property are listed with the reason in `PROJECT.json`: among them a
  `shutdown()` that hangs, and `initialize_all` on a registry that is up, of which the code promises
  nothing.

## 6. Plan

Done, in this order: `CircuitBreaker` with its abstract machine and proofs; `PluginRegistry`
with `PortStack` and proofs; `Telemetry`; `ApplicationBootstrap` composing the two;
`ErrorRecording` and `TelemetryMiddleware`; `FakeConsumer`, `InMemorySession`,
`InMemoryRepository` with the specifications of their ports, composed in `EventPipeline`;
`AdapterProxies`; `RegistryService`; the proofs about all of them.

Left: what remains of the registry's promises when calls do overlap, of which so far only the
types, unique names, lookups and health reports are proved; the other nesting of the two proxies, which the
docstring advises against.
