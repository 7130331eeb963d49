--------------------------- MODULE MessageDelivery ---------------------------
(***************************************************************************)
(* openframe/core/ports/outbound/consumer.py: what BaseConsumer asks of    *)
(* any adapter, however its broker queues and however long a subscription  *)
(* runs.  A subscription receives messages whenever they are there and     *)
(* passes each to its handler, which has one at a time; the message is     *)
(* then acknowledged, and never delivered again, or negatively             *)
(* acknowledged, and requeued, dead-lettered or discarded as the broker    *)
(* likes.  Only where a subscription is stopped may what it had received   *)
(* be lost: the port does not say.                                         *)
(***************************************************************************)
CONSTANTS Message, Subscription

VARIABLES
  waiting,    \* at the broker
  received,   \* per subscription what it has received and not finished with
  handling,   \* per subscription the message its handler has, if any
  confirmed,  \* acknowledged
  refused,    \* negatively acknowledged, once at least
  abandoned   \* lost with a subscription that was stopped

delivery == <<waiting, received, handling, confirmed, refused, abandoned>>

Known ==
  waiting \cup confirmed \cup refused \cup abandoned
          \cup (UNION {received[s] : s \in Subscription})

Busy(s) == handling[s] # {}

Init ==
  /\ waiting = {}
  /\ received = [s \in Subscription |-> {}]
  /\ handling = [s \in Subscription |-> {}]
  /\ confirmed = {}
  /\ refused = {}
  /\ abandoned = {}

Arrive(M) ==
  /\ M \cap Known = {}
  /\ waiting' = waiting \cup M
  /\ UNCHANGED <<received, handling, confirmed, refused, abandoned>>

\* The handler is called with one of the messages of its subscription, or is
\* left waiting for the next.
CallHandler(s, next) ==
  /\ \/ next = {}
     \/ \E m \in received'[s] : next = {m}
  /\ handling' = [handling EXCEPT ![s] = next]

Receive(s, M, next) ==
  /\ M \subseteq waiting
  /\ waiting' = waiting \ M
  /\ received' = [received EXCEPT ![s] = @ \cup M]
  /\ IF Busy(s) THEN UNCHANGED handling ELSE CallHandler(s, next)
  /\ UNCHANGED <<confirmed, refused, abandoned>>

\* The handler returned: ack().
Confirm(s, next) ==
  /\ Busy(s)
  /\ confirmed' = confirmed \cup handling[s]
  /\ received' = [received EXCEPT ![s] = @ \ handling[s]]
  /\ CallHandler(s, next)
  /\ UNCHANGED <<waiting, refused, abandoned>>

\* The handler raised: nack(), after which the message may wait again.
Refuse(s, back, next) ==
  /\ Busy(s)
  /\ back \subseteq handling[s]
  /\ refused' = refused \cup handling[s]
  /\ received' = [received EXCEPT ![s] = @ \ handling[s]]
  /\ waiting' = waiting \cup back
  /\ CallHandler(s, next)
  /\ UNCHANGED <<confirmed, abandoned>>

Stop(s, lost) ==
  /\ lost \subseteq received[s]
  /\ abandoned' = abandoned \cup lost
  /\ waiting' = waiting \cup (received[s] \ lost)
  /\ received' = [received EXCEPT ![s] = {}]
  /\ handling' = [handling EXCEPT ![s] = {}]
  /\ UNCHANGED <<confirmed, refused>>

Next ==
  \/ \E M \in SUBSET Message : Arrive(M)
  \/ \E s \in Subscription, M, next \in SUBSET Message :
       \/ Receive(s, M, next)
       \/ Confirm(s, next)
       \/ Refuse(s, M, next)
       \/ Stop(s, M)

Spec == Init /\ [][Next]_delivery
=============================================================================
