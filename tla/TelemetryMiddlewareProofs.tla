---------------------- MODULE TelemetryMiddlewareProofs ----------------------
(***************************************************************************)
(* The request metrics agree with the spans, for any finite number of      *)
(* requests, error objects, status codes and adapter calls.                *)
(***************************************************************************)
EXTENDS TelemetryMiddleware, FiniteSetTheorems, TLAPS

\* Adding an element to a finite set, or taking one away, counts by one.
LEMMA OneMore ==
  ASSUME NEW S, IsFiniteSet(S), NEW T, NEW x, x \notin S, T = S \cup {x}
  PROVE  Cardinality(T) = Cardinality(S) + 1
  BY FS_AddElement

LEMMA OneLess ==
  ASSUME NEW S, IsFiniteSet(S), NEW T, NEW x, x \in S, T = S \ {x}
  PROVE  Cardinality(T) = Cardinality(S) - 1
  BY FS_RemoveElement

\* record_error leaves the metric and the flag in step.
LEMMA RecordErrorCounts ==
  ASSUME ErrorTypeOK, CountedOnce, NEW e \in Errors, NEW trace \in Traces,
         RecordError(e, trace)
  PROVE  ErrorTypeOK' /\ CountedOnce'
<1> USE DEF ErrorTypeOK
<1>1. correlation' \in [Errors -> Traces \cup {"none"}] /\ \A f \in Plain : correlation'[f] = "none"
  BY ErrorAssumption DEF RecordError, Annotate, ErrorAssumption
<1>2. counted' \in [Errors -> Nat] /\ recorded' \subseteq Errors \ Frozen
  BY DEF RecordError, Count
<1>3. CountedOnce'
  <2>1. CASE UNCHANGED <<counted, recorded>>
    BY <2>1 DEF CountedOnce
  <2>2. CASE /\ e \notin recorded
             /\ counted' = [counted EXCEPT ![e] = @ + 1]
             /\ recorded' = recorded \cup ({e} \ Frozen)
    BY <2>2 DEF CountedOnce
  <2>3. QED
    BY <2>1, <2>2 DEF RecordError, Count
<1>4. QED
  BY <1>1, <1>2, <1>3

\* What a request has done agrees with where it is.
RequestShape ==
  \A r \in Requests :
    /\ at[r] \in {"new", "handler", "adapter"} => result[r] = "none" /\ spanStatus[r] = "UNSET"
    /\ result[r] = "cancelled" => spanStatus[r] = "UNSET"

\* The inductive invariant.
MiddlewareInv ==
  TypeOK /\ CountedOnce /\ RequestShape /\ MetricsMatchSpans /\ ActiveDrift

LEMMA InitMiddlewareInv == Init => MiddlewareInv
<1> SUFFICES ASSUME Init PROVE MiddlewareInv
  OBVIOUS
<1>1. TypeOK
  BY MiddlewareAssumption, ErrorAssumption
     DEF Init, NothingRecorded, TypeOK, ErrorTypeOK, Requests, MiddlewareAssumption, ErrorAssumption
<1>2. CountedOnce /\ RequestShape
  BY DEF Init, NothingRecorded, CountedOnce, RequestShape
<1>3. MetricsMatchSpans /\ ActiveDrift
  <2>1. /\ {r \in Requests : spanStatus[r] # "UNSET"} = {}
        /\ {r \in Requests : spanStatus[r] = "ERROR"} = {}
        /\ InFlight = {} /\ Finished("cancelled") = {}
    BY DEF Init, InFlight, Finished
  <2>2. active = 0 /\ requestCount = 0 /\ errorCount = 0
    BY DEF Init
  <2>3. QED
    BY <2>1, <2>2, FS_EmptySet DEF MetricsMatchSpans, ActiveDrift
<1>4. QED
  BY <1>1, <1>2, <1>3 DEF MiddlewareInv

\* The requests of any kind are finitely many.
LEMMA FiniteKinds ==
  /\ IsFiniteSet({r \in Requests : spanStatus[r] # "UNSET"})
  /\ IsFiniteSet({r \in Requests : spanStatus[r] = "ERROR"})
  /\ IsFiniteSet(InFlight)
  /\ IsFiniteSet(Finished("cancelled"))
<1>1. IsFiniteSet(Requests)
  BY MiddlewareAssumption DEF MiddlewareAssumption, Requests
<1>2. QED
  BY <1>1, FS_Subset DEF InFlight, Finished

\* A step keeps the types, the error metric and the shape of each request.
LEMMA StepKeepsShape ==
  ASSUME MiddlewareInv, NEW r \in Requests, Step(r)
  PROVE  TypeOK' /\ CountedOnce' /\ RequestShape'
<1> USE MiddlewareAssumption
    DEF MiddlewareInv, TypeOK, RequestShape, MiddlewareAssumption
<1>1. CASE Receive(r)
  BY <1>1 DEF Receive, errorVars, ErrorTypeOK, CountedOnce
<1>2. CASE CallAdapter(r)
  BY <1>2 DEF CallAdapter, errorVars, ErrorTypeOK, CountedOnce
<1>3. CASE AdapterReturns(r)
  BY <1>3 DEF AdapterReturns, errorVars, ErrorTypeOK, CountedOnce
<1>4. CASE SendStart(r)
  BY <1>4 DEF SendStart, errorVars, ErrorTypeOK, CountedOnce
<1>5. CASE HandlerReturns(r)
  BY <1>5 DEF HandlerReturns, End, errorVars, ErrorTypeOK, CountedOnce
<1>6. CASE Cancelled(r)
  BY <1>6 DEF Cancelled, End, InFlight, errorVars, ErrorTypeOK, CountedOnce
<1>7. ASSUME NEW e \in Errors, AdapterRaises(r, e)
      PROVE  TypeOK' /\ CountedOnce' /\ RequestShape'
  <2>1. ErrorTypeOK' /\ CountedOnce'
    BY <1>7, RecordErrorCounts DEF AdapterRaises, Requests
  <2>2. QED
    BY <1>7, <2>1 DEF AdapterRaises
<1>8. ASSUME NEW e \in Errors, HandlerRaises(r, e)
      PROVE  TypeOK' /\ CountedOnce' /\ RequestShape'
  <2>1. ErrorTypeOK' /\ CountedOnce'
    BY <1>8, RecordErrorCounts DEF HandlerRaises, Requests
  <2>2. QED
    BY <1>8, <2>1 DEF HandlerRaises, End
<1>9. QED
  BY <1>1, <1>2, <1>3, <1>4, <1>5, <1>6, <1>7, <1>8 DEF Step

\* A step keeps the counters in agreement with the requests.
LEMMA StepKeepsCounters ==
  ASSUME MiddlewareInv, NEW r \in Requests, Step(r)
  PROVE  MetricsMatchSpans' /\ ActiveDrift'
<1> DEFINE Answered == {q \in Requests : spanStatus[q] # "UNSET"}
           Failed == {q \in Requests : spanStatus[q] = "ERROR"}
           Gone == Finished("cancelled")
<1> USE DEF MiddlewareInv, TypeOK, RequestShape
<1>0. /\ IsFiniteSet(Answered) /\ IsFiniteSet(Failed)
      /\ IsFiniteSet(InFlight) /\ IsFiniteSet(Gone)
  BY FiniteKinds
<1>c. /\ Cardinality(InFlight) \in Nat /\ Cardinality(Gone) \in Nat
      /\ Cardinality(Answered) \in Nat /\ Cardinality(Failed) \in Nat
  BY <1>0, FS_CardinalityType
<1>m. /\ requestCount = Cardinality(Answered)
      /\ errorCount = Cardinality(Failed)
      /\ active = Cardinality(InFlight) + Cardinality(Gone)
  BY DEF MetricsMatchSpans, ActiveDrift
<1>g. /\ MetricsMatchSpans' <=> requestCount' = Cardinality(Answered') /\ errorCount' = Cardinality(Failed')
      /\ ActiveDrift' <=> active' = Cardinality(InFlight') + Cardinality(Gone')
  BY DEF MetricsMatchSpans, ActiveDrift
<1>1. CASE Receive(r)
  <2>1. Answered' = Answered /\ Failed' = Failed /\ Gone' = Gone
    BY <1>1 DEF Receive, Finished
  <2>2. r \notin InFlight /\ InFlight' = InFlight \cup {r}
    BY <1>1 DEF Receive, InFlight
  <2>3. Cardinality(InFlight') = Cardinality(InFlight) + 1
    BY <1>0, <2>2, OneMore
  <2>4. active' = active + 1 /\ UNCHANGED <<requestCount, errorCount>>
    BY <1>1 DEF Receive
  <2>5. QED
    BY <1>c, <1>m, <1>g, <2>1, <2>3, <2>4
<1>2. CASE \/ CallAdapter(r) \/ AdapterReturns(r) \/ SendStart(r)
           \/ \E e \in Errors : AdapterRaises(r, e)
  <2>1. /\ UNCHANGED <<requestCount, errorCount, active, spanStatus, result>>
    BY <1>2 DEF CallAdapter, AdapterReturns, SendStart, AdapterRaises
  <2>2. InFlight' = InFlight
    BY <1>2 DEF CallAdapter, AdapterReturns, SendStart, AdapterRaises, InFlight
  <2>3. Answered' = Answered /\ Failed' = Failed /\ Gone' = Gone
    BY <2>1 DEF Finished
  <2>4. QED
    BY <1>m, <1>g, <2>1, <2>2, <2>3
<1>3. ASSUME \/ HandlerReturns(r) \/ \E e \in Errors : HandlerRaises(r, e)
      PROVE  MetricsMatchSpans' /\ ActiveDrift'
  <2>1. /\ at[r] = "handler" /\ at' = [at EXCEPT ![r] = "done"]
        /\ \E how \in {"returned", "raised"} : result' = [result EXCEPT ![r] = how]
        /\ active' = active - 1 /\ requestCount' = requestCount + 1
    BY <1>3 DEF HandlerReturns, HandlerRaises, End
  <2>2. \/ /\ spanStatus' = [spanStatus EXCEPT ![r] = "ERROR"]
           /\ errorCount' = errorCount + 1
        \/ /\ spanStatus' = [spanStatus EXCEPT ![r] = "OK"]
           /\ errorCount' = errorCount
    BY <1>3 DEF HandlerReturns, HandlerRaises
  <2>3. r \in InFlight /\ InFlight' = InFlight \ {r}
    BY <2>1 DEF InFlight
  <2>4. Gone' = Gone
    BY <2>1 DEF Finished
  <2>5. r \notin Answered /\ Answered' = Answered \cup {r}
    BY <2>1, <2>2
  <2>6. Cardinality(Answered') = Cardinality(Answered) + 1
    BY <1>0, <2>5, OneMore
  <2>7. Cardinality(InFlight') = Cardinality(InFlight) - 1
    BY <1>0, <2>3, OneLess
  <2>8. errorCount' = Cardinality(Failed')
    <3>1. CASE /\ spanStatus' = [spanStatus EXCEPT ![r] = "ERROR"]
               /\ errorCount' = errorCount + 1
      <4>1. r \notin Failed /\ Failed' = Failed \cup {r}
        BY <3>1, <2>1
      <4>2. Cardinality(Failed') = Cardinality(Failed) + 1
        BY <1>0, <4>1, OneMore
      <4>3. QED
        BY <1>m, <3>1, <4>2
    <3>2. CASE /\ spanStatus' = [spanStatus EXCEPT ![r] = "OK"]
               /\ errorCount' = errorCount
      <4>1. Failed' = Failed
        BY <3>2, <2>1
      <4>2. QED
        BY <1>m, <3>2, <4>1
    <3>3. QED
      BY <2>2, <3>1, <3>2
  <2>9. QED
    BY <1>c, <1>m, <1>g, <2>1, <2>4, <2>6, <2>7, <2>8
<1>4. CASE Cancelled(r)
  <2>1. /\ r \in InFlight /\ at' = [at EXCEPT ![r] = "done"]
        /\ result' = [result EXCEPT ![r] = "cancelled"]
        /\ UNCHANGED <<spanStatus, active, requestCount, errorCount>>
    BY <1>4 DEF Cancelled, End
  <2>2. InFlight' = InFlight \ {r}
    BY <2>1 DEF InFlight
  <2>3. r \notin Gone /\ Gone' = Gone \cup {r}
    BY <2>1 DEF InFlight, Finished
  <2>4. Answered' = Answered /\ Failed' = Failed
    BY <2>1
  <2>5. Cardinality(InFlight') = Cardinality(InFlight) - 1
    BY <1>0, <2>1, <2>2, OneLess
  <2>6. Cardinality(Gone') = Cardinality(Gone) + 1
    BY <1>0, <2>3, OneMore
  <2>7. QED
    BY <1>c, <1>m, <1>g, <2>1, <2>4, <2>5, <2>6
<1>5. QED
  BY <1>1, <1>2, <1>3, <1>4 DEF Step

LEMMA NextMiddlewareInv == MiddlewareInv /\ [Next]_vars => MiddlewareInv'
<1> SUFFICES ASSUME MiddlewareInv, [Next]_vars
             PROVE  MiddlewareInv'
  OBVIOUS
<1>1. CASE Next
  BY <1>1, StepKeepsShape, StepKeepsCounters DEF Next, MiddlewareInv
<1>2. CASE UNCHANGED vars
  BY <1>2 DEF vars, requestVars, errorVars, MiddlewareInv, TypeOK, ErrorTypeOK, CountedOnce,
              RequestShape, MetricsMatchSpans, ActiveDrift, InFlight, Finished
<1>3. QED
  BY <1>1, <1>2

\* The metrics, the error metric and the progress of every request agree.
THEOREM MiddlewareInvariant == Spec => []MiddlewareInv
<1>1. QED
  BY InitMiddlewareInv, NextMiddlewareInv, PTL DEF Spec

\* A request has a result exactly when it has ended.
THEOREM MiddlewareTypeCorrect == Spec => []TypeOK
<1>1. MiddlewareInv => TypeOK
  BY DEF MiddlewareInv
<1>2. QED
  BY <1>1, MiddlewareInvariant, PTL

\* An error object that accepts the flag is in openframe.error.count once,
\* however many seams and requests it passes.
THEOREM ErrorsCountedOnce == Spec => []CountedOnce
<1>1. MiddlewareInv => CountedOnce
  BY DEF MiddlewareInv
<1>2. QED
  BY <1>1, MiddlewareInvariant, PTL

\* The request and error counters of _handle_http agree with its spans.
THEOREM MetricsAgreeWithSpans == Spec => []MetricsMatchSpans
<1>1. MiddlewareInv => MetricsMatchSpans
  BY DEF MiddlewareInv
<1>2. QED
  BY <1>1, MiddlewareInvariant, PTL

\* http.server.active_requests is too high by the cancelled requests.
THEOREM ActiveDriftsByCancellation == Spec => []ActiveDrift
<1>1. MiddlewareInv => ActiveDrift
  BY DEF MiddlewareInv
<1>2. QED
  BY <1>1, MiddlewareInvariant, PTL

\* "Number of HTTP requests currently being processed" is right exactly as long
\* as no request has been cancelled: errors and concurrency never put it out.
ExactUntilCancelled == ActiveIsCurrent <=> Finished("cancelled") = {}

LEMMA DriftIsCancellation == MiddlewareInv => ExactUntilCancelled
<1> SUFFICES ASSUME MiddlewareInv PROVE ExactUntilCancelled
  OBVIOUS
<1>1. /\ Cardinality(InFlight) \in Nat
      /\ Cardinality(Finished("cancelled")) \in Nat
      /\ Cardinality(Finished("cancelled")) = 0 <=> Finished("cancelled") = {}
  BY FiniteKinds, FS_CardinalityType, FS_EmptySet
<1>2. QED
  BY <1>1 DEF MiddlewareInv, ActiveDrift, ExactUntilCancelled, ActiveIsCurrent

\* Where cancellations cannot happen http.server.active_requests is what its
\* description says, whatever handlers and adapters raise (_handle_http).
THEOREM ActiveIsCurrentWithoutCancellation ==
  ASSUME ~MayCancel
  PROVE  Spec => []ActiveIsCurrent
<1> DEFINE NoneCancelled == Finished("cancelled") = {}
<1>1. Init => NoneCancelled
  BY DEF Init, Finished
<1>2. MiddlewareInv /\ NoneCancelled /\ [Next]_vars => NoneCancelled'
  <2> SUFFICES ASSUME MiddlewareInv, NoneCancelled, [Next]_vars, NEW q \in Requests
               PROVE  result'[q] # "cancelled"
    BY DEF Finished
  <2> USE DEF MiddlewareInv, TypeOK, Finished
  <2>1. ASSUME NEW r \in Requests, Step(r)
        PROVE  result'[q] # "cancelled"
    BY <2>1 DEF Step, Receive, CallAdapter, AdapterReturns, SendStart, HandlerReturns,
                Cancelled, AdapterRaises, HandlerRaises, End
  <2>2. QED
    BY <2>1 DEF Next, vars, requestVars
<1>3. MiddlewareInv /\ NoneCancelled => ActiveIsCurrent
  BY DriftIsCancellation DEF ExactUntilCancelled
<1> HIDE DEF NoneCancelled
<1>4. QED
  BY <1>1, <1>2, <1>3, MiddlewareInvariant, PTL DEF Spec

\* The first cancelled request puts the gauge out for good: it is exact until
\* then and never again, whatever happens later (no branch takes the one back).
THEOREM CancellationLosesTheGauge ==
  Spec => []ExactUntilCancelled /\ [][~ActiveIsCurrent => ~ActiveIsCurrent']_vars
<1>1. MiddlewareInv => ExactUntilCancelled
  BY DriftIsCancellation
<1>2. MiddlewareInv /\ [Next]_vars /\ Finished("cancelled") # {} => Finished("cancelled")' # {}
  <2> SUFFICES ASSUME MiddlewareInv, [Next]_vars,
                      NEW q \in Requests, result[q] = "cancelled"
               PROVE  result'[q] = "cancelled"
    BY DEF Finished
  <2> USE DEF MiddlewareInv, TypeOK, Finished
  <2>1. ASSUME NEW r \in Requests, Step(r)
        PROVE  result'[q] = "cancelled"
    <3>1. at[q] = "done"
      BY DEF RequestShape
    <3>2. QED
      BY <2>1, <3>1 DEF Step, Receive, CallAdapter, AdapterReturns, SendStart, HandlerReturns,
                Cancelled, AdapterRaises, HandlerRaises, End, InFlight
  <2>2. QED
    BY <2>1 DEF Next, vars, requestVars
<1>3. MiddlewareInv /\ MiddlewareInv' /\ [Next]_vars =>
        [~ActiveIsCurrent => ~ActiveIsCurrent']_vars
  <2>1. MiddlewareInv' => ExactUntilCancelled'
    BY <1>1, PTL
  <2>2. QED
    BY <1>1, <1>2, <2>1 DEF ExactUntilCancelled
<1>4. QED
  BY <1>1, <1>3, MiddlewareInvariant, PTL DEF Spec

\* The trace id that the innermost seam stamped on an error stays.
THEOREM CorrelationStays == Spec => CorrelationSticks
<1>1. MiddlewareInv /\ [Next]_vars
      => [\A e \in Errors : correlation[e] # "none" => correlation'[e] = correlation[e]]_errorVars
  <2> SUFFICES ASSUME MiddlewareInv, [Next]_vars, NEW e \in Errors, correlation[e] # "none"
               PROVE  correlation'[e] = correlation[e]
    OBVIOUS
  <2>1. correlation \in [Errors -> Traces \cup {"none"}]
    BY DEF MiddlewareInv, TypeOK, ErrorTypeOK
  <2>2. \A f \in Errors, t \in Requests : RecordError(f, t) => correlation'[e] = correlation[e]
    BY <2>1 DEF RecordError, Annotate
  <2>3. UNCHANGED errorVars => correlation'[e] = correlation[e]
    BY DEF errorVars
  <2>4. UNCHANGED errorVars \/ \E f \in Errors, t \in Requests : RecordError(f, t)
    BY DEF vars, Next, Step, Receive, CallAdapter, AdapterReturns, SendStart, HandlerReturns,
           Cancelled, AdapterRaises, HandlerRaises
  <2>5. QED
    BY <2>2, <2>3, <2>4
<1>2. QED
  BY <1>1, MiddlewareInvariant, PTL DEF Spec, CorrelationSticks
=============================================================================
