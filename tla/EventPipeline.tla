---------------------------- MODULE EventPipeline ----------------------------
(***************************************************************************)
(* The fakes of openframe/core/testing at work together: the forwarding    *)
(* that inbound/session.py describes, from a consumer into an open         *)
(* session, with a handler that stores what it forwards.                   *)
(*                                                                         *)
(*   async def handler(message):                                           *)
(*       await repository.create(entity_of(message))                       *)
(*       await session.send(message)                                       *)
(*                                                                         *)
(* The handler is external and may suspend before, between and after its   *)
(* two calls, fail, hang or be cancelled.  Others close the session, write *)
(* to the repository and read it page by page at the same time.            *)
(***************************************************************************)
EXTENDS FakeConsumer, InMemorySession, InMemoryRepository

CONSTANTS
  EntityOf,  \* the entity each message makes the handler store
  Reasons,   \* the reasons the session is closed for
  PageSize   \* the limit the reader passes to list()

ASSUME PipelineAssumption ==
  /\ EntityOf \in [Messages -> Entities]
  /\ Reasons \subseteq CloseReason
  /\ PageSize \in Nat \ {0}

VARIABLES
  stage,  \* how far the handler of each subscriber is with its message
  walk    \* a reader that walks through list(), page by page

vars == <<consumer, session, store, stage, walk>>

NoWalk == [at |-> "off", offset |-> 0, seen |-> <<>>, first |-> {}]

Init ==
  /\ ConsumerInit
  /\ SessionInit
  /\ StoreInit
  /\ stage = [s \in Subscribers |-> "called"]
  /\ walk = NoWalk

At(s, where) == Handling(s) /\ stage[s] = where

MoveTo(s, where) == stage' = [stage EXCEPT ![s] = where]

-----------------------------------------------------------------------------
FeedMore(b) ==
  /\ Feed(b)
  /\ UNCHANGED <<session, store, stage, walk>>

StartSubscription(s) ==
  /\ Subscribe(s)
  /\ UNCHANGED <<session, store, stage, walk>>

Persist(s) ==
  /\ At(s, "called")
  /\ Create(EntityOf[Head(taken[s])])
  /\ MoveTo(s, "stored")
  /\ UNCHANGED <<consumer, session, walk>>

Forward(s) ==
  /\ At(s, "stored")
  /\ Send(Head(taken[s]))
  /\ MoveTo(s, "sent")
  /\ UNCHANGED <<consumer, store, walk>>

\* The session was closed since: the RuntimeError leaves the handler.
ForwardTooLate(s) ==
  /\ At(s, "stored")
  /\ SendRefused
  /\ HandlerRaises(s)
  /\ MoveTo(s, "called")
  /\ UNCHANGED <<store, walk>>

Complete(s) ==
  /\ At(s, "sent")
  /\ HandlerReturns(s)
  /\ MoveTo(s, "called")
  /\ UNCHANGED <<session, store, walk>>

\* The handler fails wherever it is.
Break(s) ==
  /\ HandlerRaises(s)
  /\ MoveTo(s, "called")
  /\ UNCHANGED <<session, store, walk>>

Cancel(s) ==
  /\ SubscriptionCancelled(s)
  /\ MoveTo(s, "called")
  /\ UNCHANGED <<session, store, walk>>

CloseSession(r) ==
  /\ Close(r)
  /\ UNCHANGED <<consumer, store, stage, walk>>

-----------------------------------------------------------------------------
\* Other clients of the repository.  Nothing is promised of a walk during which
\* something is deleted, so it is not followed any further.
LoseWalk == walk' = IF walk.at = "on" THEN NoWalk ELSE walk

RemoveEntity(id) ==
  /\ id \in Stored
  /\ Delete(id)
  /\ LoseWalk
  /\ UNCHANGED <<consumer, session, stage>>

ClearStore ==
  /\ store # <<>>
  /\ Clear
  /\ LoseWalk
  /\ UNCHANGED <<consumer, session, stage>>

ChangeEntity(e) ==
  /\ Update(e)
  /\ UNCHANGED <<consumer, session, stage, walk>>

\* The reader asks for pages until offset + limit has reached the total.
StartWalk ==
  /\ walk.at = "off"
  /\ walk' = [NoWalk EXCEPT !.at = "on", !.first = Stored]
  /\ UNCHANGED <<consumer, session, store, stage>>

NextPage ==
  /\ walk.at = "on"
  /\ LET answer == List(PageSize, walk.offset)
     IN  walk' = [walk EXCEPT
                    !.at = IF walk.offset + PageSize < answer.total THEN "on" ELSE "done",
                    !.offset = @ + PageSize,
                    !.seen = @ \o [i \in DOMAIN answer.page |-> answer.page[i].id]]
  /\ UNCHANGED <<consumer, session, store, stage>>

HandlerStep(s) ==
  \/ Persist(s)
  \/ Forward(s)
  \/ ForwardTooLate(s)
  \/ Complete(s)

Next ==
  \/ \E b \in Batches : FeedMore(b)
  \/ \E s \in Subscribers :
       StartSubscription(s) \/ HandlerStep(s) \/ Break(s) \/ Cancel(s)
  \/ \E r \in Reasons : CloseSession(r)
  \/ \E id \in Ids : RemoveEntity(id)
  \/ ClearStore
  \/ \E e \in Entities : ChangeEntity(e)
  \/ StartWalk
  \/ NextPage

Spec == Init /\ [][Next]_vars

\* Every subscriber subscribes again and again, and handlers come to an end.
FairSpec ==
  /\ Spec
  /\ \A s \in Subscribers :
       WF_vars(StartSubscription(s)) /\ WF_vars(HandlerStep(s))

-----------------------------------------------------------------------------
TypeOK ==
  /\ ConsumerTypeOK
  /\ StoreTypeOK
  /\ sent \in Seq(Messages)
  /\ reason \in CloseReason \cup {"None"} /\ (closed <=> reason # "None")
  /\ stage \in [Subscribers -> {"called", "stored", "sent"}]
  /\ \A s \in Subscribers : ~Handling(s) => stage[s] = "called"

Channel == INSTANCE SessionContract
             WITH Event <- Messages, Reason <- CloseReason, received <- Range(sent),
                  open <- ~closed, why <- reason

\* The repository and the session keep the promises of their ports, with the
\* handlers, the reader and the other clients at work at the same time.
ImplementsContracts == Port!Spec /\ Channel!Spec

\* At most once and no false receipt: no message reaches the session twice,
\* and one that is acknowledged has reached it, although the session may close
\* between any two steps of a handler (subscribe, InMemorySession.send).
AckedWasSent == IsInjective(sent) /\ Range(acked) \subseteq Range(sent)

\* A walk through the pages during which nothing is deleted shows no entity
\* twice and misses none that was there when it began, whatever is created,
\* created again and updated meanwhile (list, create, update).
WalkIsSound ==
  /\ IsInjective(walk.seen)
  /\ walk.at = "done" => walk.first \subseteq Range(walk.seen)

\* A handler that fails does not stop the loop: every message ends
\* acknowledged or refused, or goes with a subscription that is cancelled.
EveryMessageSettles == \A m \in Messages : m \in fed ~> m \in Settled
=============================================================================
