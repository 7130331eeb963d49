--------------------------- MODULE InMemorySession ---------------------------
(***************************************************************************)
(* openframe/core/testing/fakes/inbound.py: one InMemorySession.  send()   *)
(* and close() do not suspend, so each is one step, but whoever uses the   *)
(* session suspends between looking at `closed` and sending.               *)
(***************************************************************************)
EXTENDS Sequences

VARIABLES
  sent,    \* sent
  closed,  \* closed
  reason   \* close_reason, "None" while the session is open

session == <<sent, closed, reason>>

CloseReason == {"COMPLETED", "CLIENT_DISCONNECT", "SERVER_SHUTDOWN", "ERROR"}

SessionInit ==
  /\ sent = <<>>
  /\ closed = FALSE
  /\ reason = "None"

\* Fault: what is sent too late is ignored.
SendDropsSilently(event) ==
  /\ IF closed THEN UNCHANGED sent ELSE sent' = Append(sent, event)
  /\ UNCHANGED <<closed, reason>>

\* Fault: nobody looks at the flag.
SendUnchecked(event) ==
  /\ sent' = Append(sent, event)
  /\ UNCHANGED <<closed, reason>>

Send(event) ==
  /\ ~closed
  /\ sent' = Append(sent, event)
  /\ UNCHANGED <<closed, reason>>

\* The RuntimeError of send().
SendRefused ==
  /\ closed
  /\ UNCHANGED session

\* A second close() is a no-op that keeps the first reason.
Close(r) ==
  /\ ~closed
  /\ closed' = TRUE
  /\ reason' = r
  /\ UNCHANGED sent
=============================================================================
