---------------------------- MODULE FakeConsumer ----------------------------
(***************************************************************************)
(* openframe/core/testing/fakes/consumer.py: one FakeConsumer, fed with    *)
(* messages by a test and subscribed to by several tasks.                  *)
(*                                                                         *)
(* subscribe() copies and empties `_pending` in one step, before its first *)
(* await, and is from then on suspended only inside the handler: ack() and *)
(* nack() append to a list and never suspend.  A step here is what the     *)
(* code does from one return of the handler to the next call of it.        *)
(*                                                                         *)
(* The handler is external: it comes back, raises, hangs, or its task is   *)
(* cancelled.  A message stands for one call of it: what is delivered      *)
(* again is another message.                                               *)
(***************************************************************************)
EXTENDS Naturals, SequencesExt

CONSTANTS
  Messages,     \* what may be fed
  Batches,      \* the lists that feed() is called with
  Subscribers   \* the tasks that call subscribe()

ASSUME ConsumerAssumption ==
  /\ Batches \subseteq Seq(Messages)
  /\ \A b \in Batches : IsInjective(b)

VARIABLES
  pending,  \* _pending
  taken,    \* per subscriber the rest of `messages`, from the one being handled
  acked,    \* acked
  nacked,   \* nacked
  fed,      \* history: every message that was fed
  dropped   \* history: messages of a batch whose subscription was cancelled

consumer == <<pending, taken, acked, nacked, fed, dropped>>

Handling(s) == taken[s] # <<>>

Taken == UNION {Range(taken[s]) : s \in Subscribers}

Settled == Range(acked) \cup Range(nacked) \cup dropped

-----------------------------------------------------------------------------
ConsumerInit ==
  /\ pending = <<>>
  /\ taken = [s \in Subscribers |-> <<>>]
  /\ acked = <<>>
  /\ nacked = <<>>
  /\ fed = {}
  /\ dropped = {}

\* Fault: a subscription iterates over the live queue.
FeedJoinsBatches(b) ==
  /\ Range(b) \cap fed = {}
  /\ fed' = fed \cup Range(b)
  /\ \/ \E s \in Subscribers :
          /\ Handling(s)
          /\ taken' = [taken EXCEPT ![s] = @ \o b]
          /\ UNCHANGED pending
     \/ /\ \A s \in Subscribers : ~Handling(s)
        /\ pending' = pending \o b
        /\ UNCHANGED taken
  /\ UNCHANGED <<acked, nacked, dropped>>

Feed(b) ==
  /\ Range(b) \cap fed = {}
  /\ fed' = fed \cup Range(b)
  /\ pending' = pending \o b
  /\ UNCHANGED <<taken, acked, nacked, dropped>>

\* Fault: the queue is copied and not emptied.
SubscribeKeepsQueue(s) ==
  /\ ~Handling(s)
  /\ taken' = [taken EXCEPT ![s] = pending]
  /\ UNCHANGED <<pending, acked, nacked, fed, dropped>>

\* With an empty queue subscribe() returns at once.
Subscribe(s) ==
  /\ ~Handling(s)
  /\ taken' = [taken EXCEPT ![s] = pending]
  /\ pending' = <<>>
  /\ UNCHANGED <<acked, nacked, fed, dropped>>

\* Fault: the queue is emptied when the loop ends.
HandlerReturnsClearingLate(s) ==
  /\ Handling(s)
  /\ acked' = Append(acked, Head(taken[s]))
  /\ taken' = [taken EXCEPT ![s] = Tail(@)]
  /\ pending' = IF Tail(taken[s]) = <<>> THEN <<>> ELSE pending
  /\ UNCHANGED <<nacked, fed, dropped>>

\* The loop of subscribe(): ack and go on, ...
HandlerReturns(s) ==
  /\ Handling(s)
  /\ acked' = Append(acked, Head(taken[s]))
  /\ taken' = [taken EXCEPT ![s] = Tail(@)]
  /\ UNCHANGED <<pending, nacked, fed, dropped>>

\* Fault: the exception leaves subscribe() after the nack.
HandlerRaisesThrough(s) ==
  /\ Handling(s)
  /\ nacked' = Append(nacked, Head(taken[s]))
  /\ taken' = [taken EXCEPT ![s] = <<>>]
  /\ UNCHANGED <<pending, acked, fed, dropped>>

\* ... or nack, swallow the exception and go on.
HandlerRaises(s) ==
  /\ Handling(s)
  /\ nacked' = Append(nacked, Head(taken[s]))
  /\ taken' = [taken EXCEPT ![s] = Tail(@)]
  /\ UNCHANGED <<pending, acked, fed, dropped>>

\* CancelledError is not an Exception: it leaves subscribe(), and the rest of
\* the batch, which is in no queue any more, with it.
SubscriptionCancelled(s) ==
  /\ Handling(s)
  /\ dropped' = dropped \cup Range(taken[s])
  /\ taken' = [taken EXCEPT ![s] = <<>>]
  /\ UNCHANGED <<pending, acked, nacked, fed>>

ConsumerNext ==
  \/ \E b \in Batches : Feed(b)
  \/ \E s \in Subscribers :
       \/ Subscribe(s)
       \/ HandlerReturns(s)
       \/ HandlerRaises(s)
       \/ SubscriptionCancelled(s)

ConsumerSpec == ConsumerInit /\ [][ConsumerNext]_consumer

-----------------------------------------------------------------------------
ConsumerTypeOK ==
  /\ pending \in Seq(Messages)
  /\ taken \in [Subscribers -> Seq(Messages)]
  /\ acked \in Seq(Messages)
  /\ nacked \in Seq(Messages)
  /\ fed \subseteq Messages
  /\ dropped \subseteq Messages

\* No message is in two places: not queued and taken, not taken by two
\* subscriptions, not acknowledged after it was refused, however feeding,
\* subscriptions, failures and cancellations interleave (subscribe).
NothingTwice ==
  /\ IsInjective(pending) /\ IsInjective(acked) /\ IsInjective(nacked)
  /\ \A s, r \in Subscribers : s # r => Range(taken[s]) \cap Range(taken[r]) = {}
  /\ \A s \in Subscribers : IsInjective(taken[s])
  /\ Range(pending) \cap (Taken \cup Settled) = {}
  /\ Taken \cap Settled = {}
  /\ Range(acked) \cap (Range(nacked) \cup dropped) = {}
  /\ Range(nacked) \cap dropped = {}

\* No message disappears: each that was fed is queued, at a handler,
\* acknowledged, refused, or was taken by a subscription that was cancelled.
NothingVanishes == fed = Range(pending) \cup Taken \cup Settled

\* A subscription works off the messages that waited when it began, one after
\* the other, and then ends: whatever is fed and whoever else subscribes
\* meanwhile, nothing joins its batch, overtakes in it or leaves it otherwise
\* ("messages fed after subscribe() starts are not processed in this call").
BatchesAreClosed ==
  [][\A s \in Subscribers :
       Handling(s) => taken'[s] \in {taken[s], Tail(taken[s]), <<>>}]_consumer

\* Seen from the port, a message that a subscription has taken is received, and
\* the first of them is at the handler.
Received == [s \in Subscribers |-> Range(taken[s])]

AtHandler == [s \in Subscribers |-> IF Handling(s) THEN {Head(taken[s])} ELSE {}]

Delivery == INSTANCE MessageDelivery
              WITH Message <- Messages, Subscription <- Subscribers,
                   waiting <- Range(pending), received <- Received, handling <- AtHandler,
                   confirmed <- Range(acked), refused <- Range(nacked),
                   abandoned <- dropped

\* Of all that the port leaves open to an adapter (when it receives what waits,
\* whether a refused message comes again) the fake does one thing: it delivers
\* each message to one handler at a time, settles it by how the handler ended,
\* never again after an ack(), and loses none except by a stop (subscribe).
ImplementsDelivery == Delivery!Spec
=============================================================================
