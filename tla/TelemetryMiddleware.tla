------------------------- MODULE TelemetryMiddleware -------------------------
(***************************************************************************)
(* openframe/core/middleware/telemetry.py: concurrent HTTP requests        *)
(* through one TelemetryMiddleware, and the adapter calls that their       *)
(* handlers make through a TracingProxy (openframe/core/tracing/proxy.py). *)
(*                                                                         *)
(* A request can be interleaved with others where the wrapped application  *)
(* awaits something.  The application is external: it may send a response  *)
(* start, call adapters, catch what they raise, raise itself, return       *)
(* without having answered, and be cancelled.  Each request is a trace of  *)
(* its own; headers, routes, durations and body sizes are left out.        *)
(***************************************************************************)
EXTENDS ErrorRecording, Integers, FiniteSets

CONSTANTS
  Statuses,     \* status codes the application answers with
  MaxCalls,     \* bound: adapter calls of all requests together
  MayCancel     \* whether a request's task may be cancelled

ASSUME MiddlewareAssumption ==
  /\ Statuses \subseteq Nat
  /\ MaxCalls \in Nat
  /\ MayCancel \in BOOLEAN
  /\ IsFiniteSet(Traces)

Requests == Traces

VARIABLES
  at,            \* where each request is
  status,        \* status_code, 0 until a response start is sent
  result,        \* how it ended
  spanStatus,    \* the status of its span
  active,        \* http.server.active_requests
  requestCount,  \* http.server.request.count
  errorCount,    \* http.server.error.count
  callsMade      \* adapter calls so far

requestVars == <<at, status, result, spanStatus, active, requestCount, errorCount, callsMade>>
vars == <<requestVars, errorVars>>

Init ==
  /\ NothingRecorded
  /\ at = [r \in Requests |-> "new"]
  /\ status = [r \in Requests |-> 0]
  /\ result = [r \in Requests |-> "none"]
  /\ spanStatus = [r \in Requests |-> "UNSET"]
  /\ active = 0
  /\ requestCount = 0
  /\ errorCount = 0
  /\ callsMade = 0

InFlight == {r \in Requests : at[r] \in {"handler", "adapter"}}

Finished(how) == {r \in Requests : result[r] = how}

\* _handle_http up to the call of the application.
Receive(r) ==
  /\ at[r] = "new"
  /\ at' = [at EXCEPT ![r] = "handler"]
  /\ active' = active + 1
  /\ UNCHANGED <<status, result, spanStatus, requestCount, errorCount, callsMade, errorVars>>

\* TracingProxy._traced: a child span around the adapter's method; what the
\* method raises is recorded and raised again.
CallAdapter(r) ==
  /\ at[r] = "handler"
  /\ callsMade < MaxCalls
  /\ at' = [at EXCEPT ![r] = "adapter"]
  /\ callsMade' = callsMade + 1
  /\ UNCHANGED <<status, result, spanStatus, active, requestCount, errorCount, errorVars>>

AdapterReturns(r) ==
  /\ at[r] = "adapter"
  /\ at' = [at EXCEPT ![r] = "handler"]
  /\ UNCHANGED <<status, result, spanStatus, active, requestCount, errorCount, callsMade, errorVars>>

AdapterRaises(r, e) ==
  /\ at[r] = "adapter"
  /\ at' = [at EXCEPT ![r] = "handler"]
  /\ RecordError(e, r)
  /\ UNCHANGED <<status, result, spanStatus, active, requestCount, errorCount, callsMade>>

\* send_with_telemetry notes the status before it adds x-session-id and
\* passes the message on; the two may raise, to the application.
SendStart(r) ==
  /\ at[r] = "handler"
  /\ \E s \in Statuses : status' = [status EXCEPT ![r] = s]
  /\ UNCHANGED <<at, result, spanStatus, active, requestCount, errorCount, callsMade, errorVars>>

\* Fault: a request is noted as ended while its handler goes on.
EndTooEarly(r, how) ==
  /\ result' = [result EXCEPT ![r] = how]
  /\ UNCHANGED <<at, status, callsMade>>

End(r, how) ==
  /\ at' = [at EXCEPT ![r] = "done"]
  /\ result' = [result EXCEPT ![r] = how]
  /\ UNCHANGED <<status, callsMade>>

\* Fault: error responses are counted, failed handlers are only logged.
HandlerRaisesUncounted(r, e) ==
  /\ at[r] = "handler"
  /\ End(r, "raised")
  /\ active' = active - 1
  /\ requestCount' = requestCount + 1
  /\ spanStatus' = [spanStatus EXCEPT ![r] = "ERROR"]
  /\ RecordError(e, r)
  /\ UNCHANGED errorCount

\* Fault: active_requests is only taken back on the normal path.
HandlerRaisesLeaks(r, e) ==
  /\ at[r] = "handler"
  /\ End(r, "raised")
  /\ requestCount' = requestCount + 1
  /\ errorCount' = errorCount + 1
  /\ spanStatus' = [spanStatus EXCEPT ![r] = "ERROR"]
  /\ RecordError(e, r)
  /\ UNCHANGED active

\* The except branch of _handle_http.
HandlerRaises(r, e) ==
  /\ at[r] = "handler"
  /\ End(r, "raised")
  /\ active' = active - 1
  /\ requestCount' = requestCount + 1
  /\ errorCount' = errorCount + 1
  /\ spanStatus' = [spanStatus EXCEPT ![r] = "ERROR"]
  /\ RecordError(e, r)

\* The rest of _handle_http after the application has returned.
HandlerReturns(r) ==
  /\ at[r] = "handler"
  /\ End(r, "returned")
  /\ active' = active - 1
  /\ requestCount' = requestCount + 1
  /\ IF status[r] >= 400
     THEN /\ errorCount' = errorCount + 1
          /\ spanStatus' = [spanStatus EXCEPT ![r] = "ERROR"]
     ELSE /\ UNCHANGED errorCount
          /\ spanStatus' = [spanStatus EXCEPT ![r] = "OK"]
  /\ UNCHANGED errorVars

\* CancelledError is not an Exception: no except branch runs, here or in the
\* TracingProxy; the span ends with the `with` block.
Cancelled(r) ==
  /\ MayCancel
  /\ r \in InFlight
  /\ End(r, "cancelled")
  /\ UNCHANGED <<spanStatus, active, requestCount, errorCount, errorVars>>

Step(r) ==
  \/ Receive(r)
  \/ CallAdapter(r)
  \/ AdapterReturns(r)
  \/ SendStart(r)
  \/ HandlerReturns(r)
  \/ Cancelled(r)
  \/ \E e \in Errors : AdapterRaises(r, e) \/ HandlerRaises(r, e)

Next == \E r \in Requests : Step(r)

Spec == Init /\ [][Next]_vars

-----------------------------------------------------------------------------
TypeOK ==
  /\ ErrorTypeOK
  /\ at \in [Requests -> {"new", "handler", "adapter", "done"}]
  /\ status \in [Requests -> Statuses \cup {0}]
  /\ result \in [Requests -> {"none", "returned", "raised", "cancelled"}]
  /\ spanStatus \in [Requests -> {"UNSET", "OK", "ERROR"}]
  /\ active \in Int /\ requestCount \in Nat /\ errorCount \in Nat
  /\ callsMade \in 0..MaxCalls
  /\ \A r \in Requests : at[r] = "done" <=> result[r] # "none"

\* http.server.request.count and error.count agree with each other and with
\* the spans: each request that was not cancelled is counted once, and it is
\* counted as an error exactly when its span says ERROR.
MetricsMatchSpans ==
  /\ requestCount = Cardinality({r \in Requests : spanStatus[r] # "UNSET"})
  /\ errorCount = Cardinality({r \in Requests : spanStatus[r] = "ERROR"})

\* http.server.active_requests is off by exactly the requests that were
\* cancelled: errors and concurrent requests leave it right.
ActiveDrift ==
  active = Cardinality(InFlight) + Cardinality(Finished("cancelled"))

\* What telemetry.py says of active_requests, "Number of HTTP requests
\* currently being processed", and the code does not keep.
ActiveIsCurrent == active = Cardinality(InFlight)
=============================================================================
