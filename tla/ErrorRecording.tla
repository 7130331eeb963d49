---------------------------- MODULE ErrorRecording ----------------------------
(***************************************************************************)
(* openframe/core/telemetry/setup.py, record_error: what the seams an      *)
(* error bubbles through (TracingProxy, TelemetryMiddleware) do to the     *)
(* error object and to the openframe.error.count metric.                   *)
(*                                                                         *)
(* record_error never raises: it gives up its first half when the span     *)
(* cannot be annotated and its second half when the metric cannot be       *)
(* written or the object does not accept the flag.                         *)
(***************************************************************************)
EXTENDS Naturals

CONSTANTS
  Errors,      \* exception objects
  Plain,       \* those that are not an OpenFrameError: they have no correlation_id
  Frozen,      \* those that refuse new attributes
  Traces,      \* trace ids
  SinkMayFail  \* whether OpenTelemetry may raise, or have no valid trace

ASSUME ErrorAssumption ==
  /\ Plain \subseteq Errors
  /\ Frozen \subseteq Errors
  /\ "none" \notin Traces
  /\ SinkMayFail \in BOOLEAN

VARIABLES
  counted,     \* how often each error was added to openframe.error.count
  recorded,    \* the errors that bear _openframe_error_recorded
  correlation  \* their correlation_id, or "none"

errorVars == <<counted, recorded, correlation>>

NothingRecorded ==
  /\ counted = [e \in Errors |-> 0]
  /\ recorded = {}
  /\ correlation = [e \in Errors |-> "none"]

\* Fault: every seam stamps the trace that is active there.
AnnotateAlways(e, trace) ==
  \/ /\ SinkMayFail \/ e \in Plain
     /\ UNCHANGED correlation
  \/ /\ e \notin Plain
     /\ correlation' = [correlation EXCEPT ![e] = trace]

\* The active trace's id is stamped on an OpenFrameError that has none.
Annotate(e, trace) ==
  \/ /\ SinkMayFail \/ e \in Plain \/ correlation[e] # "none"
     /\ UNCHANGED correlation
  \/ /\ e \notin Plain
     /\ correlation[e] = "none"
     /\ correlation' = [correlation EXCEPT ![e] = trace]

\* Fault: the flag is set before the metric is written, so that a metric
\* that fails once is never written for this error.
CountFlagFirst(e) ==
  \/ e \in recorded /\ UNCHANGED <<counted, recorded>>
  \/ /\ e \notin recorded
     /\ recorded' = recorded \cup {e}
     /\ \/ SinkMayFail /\ UNCHANGED counted
        \/ counted' = [counted EXCEPT ![e] = @ + 1]

\* The metric is written, then the flag is set; an error that bears the flag
\* is left alone.
Count(e) ==
  \/ e \in recorded /\ UNCHANGED <<counted, recorded>>
  \/ /\ e \notin recorded
     /\ \/ SinkMayFail /\ UNCHANGED <<counted, recorded>>
        \/ /\ counted' = [counted EXCEPT ![e] = @ + 1]
           /\ recorded' = recorded \cup ({e} \ Frozen)

\* record_error
RecordError(e, trace) == Annotate(e, trace) /\ Count(e)

-----------------------------------------------------------------------------
ErrorTypeOK ==
  /\ counted \in [Errors -> Nat]
  /\ recorded \subseteq Errors \ Frozen
  /\ correlation \in [Errors -> Traces \cup {"none"}]
  /\ \A e \in Plain : correlation[e] = "none"

\* An error is in the metric exactly once from the first seam whose write
\* went through, however many seams and requests it passes.
CountedOnce ==
  \A e \in Errors \ Frozen : counted[e] = IF e \in recorded THEN 1 ELSE 0

\* An error is found under one trace: the id that its innermost seam stamped
\* survives the outer seams, and other requests that meet the same object.
CorrelationSticks ==
  [][\A e \in Errors :
       correlation[e] # "none" => correlation'[e] = correlation[e]]_errorVars
=============================================================================
