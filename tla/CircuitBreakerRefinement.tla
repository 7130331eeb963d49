---------------------- MODULE CircuitBreakerRefinement ----------------------
(***************************************************************************)
(* A proxy used by one caller at a time is the machine of CircuitMachine:  *)
(* the circuit and its timer are the code's, the run of failures is the    *)
(* code's counter.  With several callers it is not (ClosingIsTimeoutGated).*)
(***************************************************************************)
EXTENDS CircuitBreaker

Machine == INSTANCE CircuitMachine
             WITH circuit <- state, run <- failures, waited <- age

\* One caller: every step of the proxy is an edge of the documented state
\* machine or leaves the circuit as it is.
ImplementsMachine == Machine!Spec
=============================================================================
