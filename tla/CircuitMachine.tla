--------------------------- MODULE CircuitMachine ---------------------------
(***************************************************************************)
(* The circuit a CircuitBreakerProxy promises, without its callers: the    *)
(* four edges between CLOSED, OPEN and HALF_OPEN, the run of failures that *)
(* opens it and the time that must pass before a probe.  There is no edge  *)
(* from OPEN to CLOSED.                                                    *)
(***************************************************************************)
EXTENDS Naturals

CONSTANTS
  Threshold,    \* consecutive failures that open the circuit
  ResetTimeout  \* ticks an open circuit waits before it probes

VARIABLES
  circuit,  \* "CLOSED", "OPEN" or "HALF_OPEN"
  run,      \* failures in a row
  waited    \* ticks since the circuit opened, at most ResetTimeout

machine == <<circuit, run, waited>>

Init ==
  /\ circuit = "CLOSED"
  /\ run = 0
  /\ waited = ResetTimeout

CountFailure ==
  /\ circuit = "CLOSED"
  /\ run + 1 < Threshold
  /\ run' = run + 1
  /\ UNCHANGED <<circuit, waited>>

Trip ==
  /\ circuit = "CLOSED"
  /\ run + 1 = Threshold
  /\ circuit' = "OPEN"
  /\ run' = run + 1
  /\ waited' = 0

ForgetFailures ==
  /\ circuit = "CLOSED"
  /\ run' = 0
  /\ UNCHANGED <<circuit, waited>>

StartProbing ==
  /\ circuit = "OPEN"
  /\ waited = ResetTimeout
  /\ circuit' = "HALF_OPEN"
  /\ UNCHANGED <<run, waited>>

ProbeSucceeds ==
  /\ circuit = "HALF_OPEN"
  /\ circuit' = "CLOSED"
  /\ run' = 0
  /\ UNCHANGED waited

ProbeFails ==
  /\ circuit = "HALF_OPEN"
  /\ circuit' = "OPEN"
  /\ waited' = 0
  /\ UNCHANGED run

TimePasses ==
  /\ waited < ResetTimeout
  /\ waited' = waited + 1
  /\ UNCHANGED <<circuit, run>>

Next ==
  \/ CountFailure
  \/ Trip
  \/ ForgetFailures
  \/ StartProbing
  \/ ProbeSucceeds
  \/ ProbeFails
  \/ TimePasses

Spec == Init /\ [][Next]_machine
=============================================================================
