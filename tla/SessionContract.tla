--------------------------- MODULE SessionContract ---------------------------
(***************************************************************************)
(* openframe/core/inbound/session.py: what Session asks of any transport.  *)
(* Events reach the remote end while the session is open, and none after   *)
(* it was closed; it is closed once, and the reason of the first close()   *)
(* is the reason.                                                          *)
(***************************************************************************)
CONSTANTS Event, Reason

VARIABLES
  received,  \* what has reached the remote end
  open,
  why        \* the reason, once it is closed

contract == <<received, open, why>>

Init ==
  /\ received = {}
  /\ open = TRUE
  /\ why = "None"

Send(event) ==
  /\ open
  /\ received' = received \cup {event}
  /\ UNCHANGED <<open, why>>

Close(r) ==
  /\ open
  /\ open' = FALSE
  /\ why' = r
  /\ UNCHANGED received

Next ==
  \/ \E event \in Event : Send(event)
  \/ \E r \in Reason : Close(r)

Spec == Init /\ [][Next]_contract
=============================================================================
