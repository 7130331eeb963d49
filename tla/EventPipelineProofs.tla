------------------------- MODULE EventPipelineProofs -------------------------
(***************************************************************************)
(* Theorems about EventPipeline for every set of messages, batches,        *)
(* subscribers and entities: the consumer keeps its promises whatever the  *)
(* handlers do, what is acknowledged was sent, once, repository and        *)
(* session keep the promises of their ports, and so do the answers that    *)
(* get(), list(), search() and traverse() by id give.                      *)
(***************************************************************************)
EXTENDS EventPipeline, FakeConsumerProofs, SequenceTheorems, FunctionTheorems,
        FiniteSetTheorems, WellFoundedInduction

\* A step of the pipeline is a step of the consumer, or does not touch it.
LEMMA PipelineStep == [Next]_vars => [ConsumerNext]_consumer
<1> SUFFICES ASSUME [Next]_vars
             PROVE  [ConsumerNext]_consumer
  OBVIOUS
<1>1. ASSUME NEW b \in Batches, FeedMore(b)
      PROVE  ConsumerNext
  BY <1>1 DEF FeedMore, ConsumerNext
<1>2. ASSUME NEW s \in Subscribers,
             StartSubscription(s) \/ ForwardTooLate(s) \/ Complete(s) \/ Break(s) \/ Cancel(s)
      PROVE  ConsumerNext
  BY <1>2
     DEF StartSubscription, ForwardTooLate, Complete, Break, Cancel, ConsumerNext
<1>3. ASSUME NEW s \in Subscribers, Persist(s) \/ Forward(s)
      PROVE  UNCHANGED consumer
  BY <1>3 DEF Persist, Forward
<1>4. ASSUME NEW r \in Reasons, CloseSession(r)
      PROVE  UNCHANGED consumer
  BY <1>4 DEF CloseSession
<1>5. ASSUME NEW id \in Ids, RemoveEntity(id)
      PROVE  UNCHANGED consumer
  BY <1>5 DEF RemoveEntity
<1>6. ASSUME NEW e \in Entities, ChangeEntity(e)
      PROVE  UNCHANGED consumer
  BY <1>6 DEF ChangeEntity
<1>7. CASE ClearStore \/ StartWalk \/ NextPage
  BY <1>7 DEF ClearStore, StartWalk, NextPage
<1>8. CASE UNCHANGED vars
  BY <1>8 DEF vars
<1> QED
  BY <1>1, <1>2, <1>3, <1>4, <1>5, <1>6, <1>7, <1>8 DEF Next, HandlerStep

LEMMA PipelineConsumes == Spec => ConsumerSpec
<1>1. Init => ConsumerInit
  BY DEF Init
<1> QED
  BY <1>1, PipelineStep, PTL DEF Spec, ConsumerSpec

\* No message is queued, handled or settled twice (subscribe).
THEOREM PipelineNothingTwice == Spec => []NothingTwice
  BY PipelineConsumes, MessagesStayApart, PTL

\* Every message that was fed is accounted for (subscribe).
THEOREM PipelineNothingVanishes == Spec => []NothingVanishes
  BY PipelineConsumes, MessagesStayAccountedFor, PTL

\* The consumer keeps the promise of MessageDelivery among handlers that store,
\* send, fail, hang and are cancelled (subscribe).
THEOREM PipelineImplementsDelivery == Spec => ImplementsDelivery
  BY PipelineConsumes, ConsumerRefinement, PTL

\* Nothing joins the batch a subscription is at work on (subscribe).
THEOREM PipelineBatchesStayClosed == Spec => BatchesAreClosed
  BY PipelineConsumes, BatchesStayClosed, PTL

-----------------------------------------------------------------------------
(***************************************************************************)
(* What is acknowledged was sent.  What has been sent is the head of a     *)
(* batch whose handler is past send(), or is settled; everything that may  *)
(* still be handed to a handler has not been sent.                         *)
(***************************************************************************)
Unsent(s) == Range(Tail(taken[s])) \cap Range(sent) = {}

HandlerKnows(s) == stage[s] = "sent" <=> Head(taken[s]) \in Range(sent)

SentInv ==
  /\ sent \in Seq(Messages)
  /\ AckedWasSent
  /\ Range(sent) \subseteq fed
  /\ Range(pending) \cap Range(sent) = {}
  /\ stage \in [Subscribers -> {"called", "stored", "sent"}]
  /\ \A s \in Subscribers : ~Handling(s) => stage[s] = "called"
  /\ \A s \in Subscribers : Handling(s) => Unsent(s) /\ HandlerKnows(s)

LEMMA InitSentInv == Init => SentInv
<1> SUFFICES ASSUME Init
             PROVE  SentInv
  OBVIOUS
<1>1. /\ sent = <<>> /\ acked = <<>> /\ pending = <<>>
      /\ taken = [s \in Subscribers |-> <<>>] /\ stage = [s \in Subscribers |-> "called"]
  BY DEF Init, ConsumerInit, SessionInit
<1>2. sent \in Seq(Messages) /\ Range(sent) = {} /\ IsInjective(sent) /\ Range(acked) = {}
  BY <1>1, EmptyList
<1>3. \A s \in Subscribers : ~Handling(s)
  BY <1>1 DEF Handling
<1> QED
  BY <1>1, <1>2, <1>3 DEF SentInv, AckedWasSent

\* The batch of a handler at work, seen as its message and the rest.
LEMMA BatchInParts ==
  ASSUME ConsumerInv, NEW s \in Subscribers, Handling(s)
  PROVE  /\ Head(taken[s]) \in Messages
         /\ Tail(taken[s]) \in Seq(Messages)
         /\ Range(taken[s]) = {Head(taken[s])} \cup Range(Tail(taken[s]))
         /\ Head(taken[s]) \notin Range(Tail(taken[s]))
         /\ Range(taken[s]) \subseteq Taken
<1>1. taken[s] \in Seq(Messages) /\ taken[s] # <<>> /\ IsInjective(taken[s])
  BY DEF ConsumerInv, ConsumerTypeOK, NothingTwice, Handling
<1>2. Range(taken[s]) \subseteq Taken
  BY DEF Taken
<1> QED
  BY <1>1, <1>2, HeadAndTail

\* A subscription that goes on to its next message, or ends: nothing of what is
\* left of its batch was sent.
LEMMA NextMessage ==
  ASSUME ConsumerInv, SentInv, NEW s \in Subscribers, Handling(s),
         taken' = [taken EXCEPT ![s] = Tail(@)] \/ taken' = [taken EXCEPT ![s] = <<>>],
         stage' = [stage EXCEPT ![s] = "called"],
         sent' = sent
  PROVE  /\ stage' \in [Subscribers -> {"called", "stored", "sent"}]
         /\ \A r \in Subscribers : ~Handling(r)' => stage'[r] = "called"
         /\ \A r \in Subscribers : Handling(r)' => Unsent(r)' /\ HandlerKnows(r)'
<1> DEFINE q == Tail(taken[s])
<1>1. /\ q \in Seq(Messages) /\ Range(q) \cap Range(sent) = {}
      /\ taken \in [Subscribers -> Seq(Messages)]
  BY BatchInParts DEF SentInv, Unsent, ConsumerInv, ConsumerTypeOK
<1>2. /\ taken'[s] = q \/ taken'[s] = <<>>
      /\ \A r \in Subscribers \ {s} : taken'[r] = taken[r]
  BY <1>1
<1>3. /\ stage' \in [Subscribers -> {"called", "stored", "sent"}]
      /\ stage'[s] = "called"
      /\ \A r \in Subscribers \ {s} : stage'[r] = stage[r]
  BY DEF SentInv
<1>4. ASSUME NEW r \in Subscribers \ {s}
      PROVE  /\ ~Handling(r)' => stage'[r] = "called"
             /\ Handling(r)' => Unsent(r)' /\ HandlerKnows(r)'
  BY <1>2, <1>3 DEF SentInv, Handling, Unsent, HandlerKnows
<1>5. ASSUME Handling(s)'
      PROVE  Unsent(s)' /\ HandlerKnows(s)'
  <2>1. taken'[s] = q /\ q # <<>>
    BY <1>2, <1>5 DEF Handling
  <2>2. Head(q) \in Range(q) /\ Range(Tail(q)) \subseteq Range(q)
    <3>1. Head(q) = q[1] /\ 1 \in DOMAIN q
      BY <1>1, <2>1
    <3>2. \A i \in DOMAIN Tail(q) : i + 1 \in DOMAIN q /\ Tail(q)[i] = q[i + 1]
      BY <1>1, <2>1
    <3> QED
      BY <3>1, <3>2 DEF Range
  <2> HIDE DEF q
  <2> QED
    BY <1>1, <1>3, <2>1, <2>2 DEF Unsent, HandlerKnows
<1> QED
  BY <1>3, <1>4, <1>5

LEMMA NextSentInv == ConsumerInv /\ SentInv /\ [Next]_vars => SentInv'
<1> SUFFICES ASSUME ConsumerInv, SentInv, [Next]_vars
             PROVE  SentInv'
  OBVIOUS
<1>1. ASSUME NEW b \in Batches, FeedMore(b)
      PROVE  SentInv'
  <2>1. /\ sent' = sent /\ stage' = stage /\ taken' = taken /\ acked' = acked
        /\ fed' = fed \cup Range(b) /\ Range(b) \cap fed = {} /\ pending' = pending \o b
    BY <1>1 DEF FeedMore, Feed, session
  <2>2. Range(pending \o b) = Range(pending) \cup Range(b)
    <3>1. pending \in Seq(Messages) /\ b \in Seq(Messages)
      BY ConsumerAssumption DEF ConsumerInv, ConsumerTypeOK
    <3> QED
      BY <3>1, JoinedRange
  <2> QED
    BY <2>1, <2>2 DEF SentInv, AckedWasSent, Handling, Unsent, HandlerKnows
<1>2. ASSUME NEW s \in Subscribers, StartSubscription(s)
      PROVE  SentInv'
  <2>1. /\ sent' = sent /\ stage' = stage /\ acked' = acked /\ fed' = fed
        /\ ~Handling(s) /\ taken' = [taken EXCEPT ![s] = pending] /\ pending' = <<>>
    BY <1>2 DEF StartSubscription, Subscribe, session
  <2>2. pending \in Seq(Messages) /\ taken'[s] = pending /\ stage[s] = "called"
    BY <2>1 DEF SentInv, ConsumerInv, ConsumerTypeOK
  <2>3. \A r \in Subscribers \ {s} : taken'[r] = taken[r]
    BY <2>1 DEF ConsumerInv, ConsumerTypeOK
  <2>4. ASSUME pending # <<>>
        PROVE  Head(pending) \notin Range(sent) /\ Range(Tail(pending)) \cap Range(sent) = {}
    <3>1. Head(pending) \in Range(pending) /\ Range(Tail(pending)) \subseteq Range(pending)
      BY <2>2, <2>4, HeadAndTail DEF ConsumerInv, NothingTwice
    <3> QED
      BY <3>1 DEF SentInv
  <2>5. Handling(s)' => Unsent(s)' /\ HandlerKnows(s)'
    BY <2>1, <2>2, <2>4 DEF Handling, Unsent, HandlerKnows
  <2>6. Range(pending') = {}
    BY <2>1, EmptyList
  <2> QED
    BY <2>1, <2>2, <2>3, <2>5, <2>6
       DEF SentInv, AckedWasSent, Handling, Unsent, HandlerKnows
<1>3. ASSUME NEW s \in Subscribers, Persist(s)
      PROVE  SentInv'
  BY <1>3
     DEF Persist, At, MoveTo, consumer, session, SentInv, AckedWasSent, Handling, Unsent,
         HandlerKnows
<1>4. ASSUME NEW s \in Subscribers, Forward(s)
      PROVE  SentInv'
  <2> DEFINE m == Head(taken[s])
  <2>1. /\ Handling(s) /\ stage[s] = "stored" /\ sent' = Append(sent, m)
        /\ stage' = [stage EXCEPT ![s] = "sent"]
        /\ pending' = pending /\ taken' = taken /\ acked' = acked /\ fed' = fed
    BY <1>4 DEF Forward, At, MoveTo, Send, consumer
  <2>2. /\ m \in Messages /\ m \in Range(taken[s]) /\ m \in Taken
        /\ m \notin Range(Tail(taken[s]))
    BY <2>1, BatchInParts
  <2>3. m \notin Range(sent)
    BY <2>1 DEF SentInv, HandlerKnows
  <2>4. ASSUME NEW r \in Subscribers \ {s}, Handling(r)
        PROVE  m # Head(taken[r]) /\ m \notin Range(Tail(taken[r]))
    <3>1. m \notin Range(taken[r])
      BY <2>2 DEF ConsumerInv, NothingTwice
    <3> QED
      BY <2>4, <3>1, BatchInParts
  <2>5. m \in fed /\ m \notin Range(pending)
    BY <2>2 DEF ConsumerInv, NothingTwice, NothingVanishes
  <2>6. /\ Append(sent, m) \in Seq(Messages) /\ IsInjective(Append(sent, m))
        /\ Range(Append(sent, m)) = Range(sent) \cup {m}
    BY <2>2, <2>3, AppendedList DEF SentInv, AckedWasSent
  <2> HIDE DEF m
  <2>7. \A r \in Subscribers : Handling(r)' => Unsent(r)'
    BY <2>1, <2>2, <2>4, <2>6 DEF SentInv, Handling, Unsent
  <2>8. HandlerKnows(s)'
    BY <2>1, <2>6 DEF SentInv, HandlerKnows, m
  <2>9. \A r \in Subscribers \ {s} : Handling(r)' => HandlerKnows(r)'
    BY <2>1, <2>4, <2>6 DEF SentInv, Handling, HandlerKnows
  <2>10. AckedWasSent' /\ sent' \in Seq(Messages) /\ Range(sent') \subseteq fed'
         /\ Range(pending') \cap Range(sent') = {}
    BY <2>1, <2>5, <2>6 DEF SentInv, AckedWasSent
  <2>11. /\ stage' \in [Subscribers -> {"called", "stored", "sent"}]
         /\ \A r \in Subscribers : ~Handling(r)' => stage'[r] = "called"
    BY <2>1 DEF SentInv, Handling
  <2> QED
    BY <2>7, <2>8, <2>9, <2>10, <2>11 DEF SentInv
<1>5. ASSUME NEW s \in Subscribers, ForwardTooLate(s) \/ Break(s) \/ Cancel(s)
      PROVE  SentInv'
  <2>1. /\ Handling(s)
        /\ taken' = [taken EXCEPT ![s] = Tail(@)] \/ taken' = [taken EXCEPT ![s] = <<>>]
        /\ stage' = [stage EXCEPT ![s] = "called"]
        /\ sent' = sent /\ pending' = pending /\ acked' = acked /\ fed' = fed
    BY <1>5
       DEF ForwardTooLate, SendRefused, Break, Cancel, HandlerRaises, SubscriptionCancelled,
           MoveTo, session
  <2> QED
    BY <2>1, NextMessage DEF SentInv, AckedWasSent
<1>6. ASSUME NEW s \in Subscribers, Complete(s)
      PROVE  SentInv'
  <2> DEFINE m == Head(taken[s])
  <2>1. /\ Handling(s) /\ stage[s] = "sent"
        /\ taken' = [taken EXCEPT ![s] = Tail(@)] /\ acked' = Append(acked, m)
        /\ stage' = [stage EXCEPT ![s] = "called"]
        /\ sent' = sent /\ pending' = pending /\ fed' = fed
    BY <1>6 DEF Complete, At, HandlerReturns, MoveTo, session
  <2>2. m \in Range(sent) /\ m \in Messages /\ m \in Taken
    BY <2>1, BatchInParts DEF SentInv, HandlerKnows
  <2> HIDE DEF m
  <2>3. Range(acked') = Range(acked) \cup {m}
    <3>1. acked \in Seq(Messages) /\ IsInjective(acked) /\ m \notin Range(acked)
      BY <2>2 DEF ConsumerInv, ConsumerTypeOK, NothingTwice, Settled
    <3> QED
      BY <2>1, <2>2, <3>1, AppendedList
  <2>4. /\ stage' \in [Subscribers -> {"called", "stored", "sent"}]
        /\ \A r \in Subscribers : ~Handling(r)' => stage'[r] = "called"
        /\ \A r \in Subscribers : Handling(r)' => Unsent(r)' /\ HandlerKnows(r)'
    BY <2>1, NextMessage
  <2> QED
    BY <2>1, <2>2, <2>3, <2>4 DEF SentInv, AckedWasSent
<1>7. CASE \/ \E r \in Reasons : CloseSession(r)
           \/ \E id \in Ids : RemoveEntity(id)
           \/ \E e \in Entities : ChangeEntity(e)
           \/ ClearStore \/ StartWalk \/ NextPage
           \/ UNCHANGED vars
  <2>1. UNCHANGED <<consumer, sent, stage>>
    BY <1>7
       DEF CloseSession, Close, RemoveEntity, ChangeEntity, ClearStore, StartWalk, NextPage,
           session, vars
  <2> QED
    BY <2>1 DEF consumer, SentInv, AckedWasSent, Handling, Unsent, HandlerKnows
<1> QED
  BY <1>1, <1>2, <1>3, <1>4, <1>5, <1>6, <1>7 DEF Next, HandlerStep

\* At most once and no false receipt, although the session may close between
\* any two steps of a handler (subscribe, InMemorySession.send).
THEOREM PipelineAckedWasSent == Spec => []AckedWasSent
<1>1. Spec => []ConsumerInv
  BY PipelineConsumes, ConsumerInvHolds, PTL
<1>2. Spec => []SentInv
  BY <1>1, InitSentInv, NextSentInv, PTL DEF Spec
<1>3. SentInv => AckedWasSent
  BY DEF SentInv
<1> QED
  BY <1>2, <1>3, PTL
-----------------------------------------------------------------------------
(***************************************************************************)
(* The repository and the session, for every set of entities and every     *)
(* page size: each keeps the promise of its port, and a walk through the   *)
(* pages is sound.                                                         *)
(***************************************************************************)
DistinctIds(s) == \A i, j \in DOMAIN s : s[i].id = s[j].id => i = j

\* The three ways in which a write changes the list of entities: one is put in
\* the place of another with its id, ...
LEMMA ReplacedStore ==
  ASSUME StoreTypeOK, NEW e \in Entities, e.id \in Stored,
         store' = [store EXCEPT ![PositionOf(e.id)] = e]
  PROVE  /\ StoreTypeOK' /\ Len(store') = Len(store)
         /\ \A i \in DOMAIN store : store'[i].id = store[i].id
         /\ Range(store') = (Range(store) \ Port!WithId(e.id)) \cup {e}
<1> DEFINE k == PositionOf(e.id)
<1>1. k \in DOMAIN store /\ store[k].id = e.id
  BY DEF Stored, Range, PositionOf
<1> HIDE DEF k
<1>2. /\ store \in Seq(Entities) /\ DistinctIds(store)
      /\ store' = [store EXCEPT ![k] = e]
  BY DEF StoreTypeOK, DistinctIds, k
<1>3. /\ store' \in Seq(Entities) /\ Len(store') = Len(store) /\ DOMAIN store' = DOMAIN store
      /\ store'[k] = e /\ \A i \in DOMAIN store : i # k => store'[i] = store[i]
  <2>1. k \in 1..Len(store) /\ DOMAIN store = 1..Len(store)
    BY <1>1, <1>2
  <2> DEFINE t == [store EXCEPT ![k] = e]
  <2>2. /\ t \in Seq(Entities) /\ Len(t) = Len(store)
        /\ \A j \in 1..Len(store) : t[j] = IF j = k THEN e ELSE store[j]
    BY <1>2, <2>1, ExceptSeq
  <2>3. store' = t
    BY <1>2
  <2> HIDE DEF t
  <2>4. DOMAIN t = 1..Len(store)
    BY <2>2
  <2> QED
    BY <2>1, <2>2, <2>3, <2>4
<1>4. \A i \in DOMAIN store : store'[i].id = store[i].id
  BY <1>1, <1>3
<1>5. StoreTypeOK'
  BY <1>2, <1>3, <1>4 DEF StoreTypeOK, DistinctIds
<1>6. \A i \in DOMAIN store : store[i].id = e.id <=> i = k
  BY <1>1, <1>2 DEF DistinctIds
<1>7. Range(store') = (Range(store) \ Port!WithId(e.id)) \cup {e}
  <2>1. \A x \in Range(store') : x = e \/ (x \in Range(store) /\ x.id # e.id)
    BY <1>3, <1>6 DEF Range
  <2>2. \A x \in Range(store) : x.id # e.id => x \in Range(store')
    BY <1>1, <1>3, <1>6 DEF Range
  <2>3. e \in Range(store')
    BY <1>1, <1>3 DEF Range
  <2> QED
    BY <2>1, <2>2, <2>3 DEF Port!WithId
<1> QED
  BY <1>3, <1>4, <1>5, <1>7

\* ... one with a new id is put at the end, ...
LEMMA AppendedStore ==
  ASSUME StoreTypeOK, NEW e \in Entities, e.id \notin Stored, store' = Append(store, e)
  PROVE  /\ StoreTypeOK' /\ Len(store') = Len(store) + 1
         /\ \A i \in DOMAIN store : store'[i].id = store[i].id
         /\ Range(store') = (Range(store) \ Port!WithId(e.id)) \cup {e}
<1>1. store \in Seq(Entities) /\ DistinctIds(store)
  BY DEF StoreTypeOK, DistinctIds
<1>2. /\ store' \in Seq(Entities) /\ Len(store') = Len(store) + 1
      /\ store'[Len(store) + 1] = e /\ Len(store) + 1 \in DOMAIN store'
      /\ \A i \in DOMAIN store : store'[i] = store[i] /\ i \in DOMAIN store'
      /\ \A i \in DOMAIN store' : i \in DOMAIN store \/ i = Len(store) + 1
  BY <1>1
<1>3. \A i \in DOMAIN store : store[i].id # e.id
  BY DEF Stored, Range
<1>4. StoreTypeOK'
  BY <1>1, <1>2, <1>3 DEF StoreTypeOK, DistinctIds
<1>5. Port!WithId(e.id) = {}
  BY DEF Stored, Port!WithId
<1>6. Range(store') = Range(store) \cup {e}
  <2>1. \A x \in Range(store') : x = e \/ x \in Range(store)
    BY <1>2 DEF Range
  <2>2. \A x \in Range(store) : x \in Range(store')
    BY <1>2 DEF Range
  <2>3. e \in Range(store')
    BY <1>2 DEF Range
  <2> QED
    BY <2>1, <2>2, <2>3
<1> QED
  BY <1>2, <1>4, <1>5, <1>6

\* ... or one is taken out, and those behind it move up.
LEMMA ShortenedStore ==
  ASSUME StoreTypeOK, NEW id \in Stored, store' = RemoveAt(store, PositionOf(id))
  PROVE  StoreTypeOK' /\ Range(store') = Range(store) \ Port!WithId(id)
<1> DEFINE k == PositionOf(id)
           old(i) == IF i < k THEN i ELSE i + 1
<1>1. k \in DOMAIN store /\ store[k].id = id
  BY DEF Stored, Range, PositionOf
<1> HIDE DEF k
<1>2. /\ store \in Seq(Entities) /\ DistinctIds(store)
      /\ store' = SubSeq(store, 1, k - 1) \o SubSeq(store, k + 1, Len(store))
  BY DEF StoreTypeOK, DistinctIds, RemoveAt, k
<1>3. /\ store' \in Seq(Entities) /\ Len(store') = Len(store) - 1
      /\ \A i \in 1..(Len(store) - 1) : store'[i] = store[old(i)]
  <2> DEFINE p == SubSeq(store, 1, k - 1)
             q == SubSeq(store, k + 1, Len(store))
  <2>1. k \in 1..Len(store) /\ Len(store) \in Nat /\ \A i \in 1..Len(store) : store[i] \in Entities
    BY <1>1, <1>2
  <2>2. /\ p \in Seq(Entities) /\ Len(p) = k - 1
        /\ \A i \in 1..(k - 1) : p[i] = store[i]
    <3>1. 1 \in Int /\ k - 1 \in Int /\ \A i \in 1..(k - 1) : store[i] \in Entities
      BY <2>1
    <3>2. /\ p \in Seq(Entities) /\ Len(p) = IF 1 <= k - 1 THEN k - 1 - 1 + 1 ELSE 0
          /\ \A i \in 1..(k - 1 - 1 + 1) : p[i] = store[1 + i - 1]
      BY <3>1, SubSeqProperties
    <3> HIDE DEF p
    <3> QED
      BY <2>1, <3>2
  <2>3. /\ q \in Seq(Entities) /\ Len(q) = Len(store) - k
        /\ \A i \in 1..(Len(store) - k) : q[i] = store[k + i]
    <3>1. /\ k + 1 \in Int /\ Len(store) \in Int
          /\ \A i \in (k + 1)..Len(store) : store[i] \in Entities
      BY <2>1
    <3>2. /\ q \in Seq(Entities)
          /\ Len(q) = IF k + 1 <= Len(store) THEN Len(store) - (k + 1) + 1 ELSE 0
          /\ \A i \in 1..(Len(store) - (k + 1) + 1) : q[i] = store[(k + 1) + i - 1]
      BY <3>1, SubSeqProperties
    <3> HIDE DEF q
    <3> QED
      BY <2>1, <3>2
  <2>4. store' = p \o q
    BY <1>2
  <2> HIDE DEF p, q
  <2>5. /\ store' \in Seq(Entities) /\ Len(store') = Len(p) + Len(q)
        /\ \A i \in 1..(Len(p) + Len(q)) :
             store'[i] = IF i <= Len(p) THEN p[i] ELSE q[i - Len(p)]
    BY <2>2, <2>3, <2>4, ConcatProperties
  <2>6. ASSUME NEW i \in 1..(Len(store) - 1)
        PROVE  store'[i] = store[old(i)]
    <3>1. i \in 1..(Len(p) + Len(q))
      BY <2>1, <2>2, <2>3
    <3>2. CASE i < k
      BY <2>1, <2>2, <2>5, <3>1, <3>2
    <3>3. CASE i >= k
      <4>1. i - (k - 1) \in 1..(Len(store) - k) /\ k + (i - (k - 1)) = i + 1
        BY <2>1, <3>3
      <4>2. store'[i] = q[i - (k - 1)]
        BY <2>1, <2>2, <2>5, <3>1, <3>3
      <4>3. q[i - (k - 1)] = store[i + 1]
        BY <2>3, <4>1
      <4> QED
        BY <2>1, <3>3, <4>2, <4>3
    <3> QED
      BY <2>1, <3>2, <3>3
  <2> QED
    BY <2>1, <2>2, <2>3, <2>5, <2>6
<1>4. DOMAIN store' = 1..(Len(store) - 1) /\ DOMAIN store = 1..Len(store)
      /\ k \in 1..Len(store) /\ Len(store) \in Nat
  BY <1>1, <1>2, <1>3
<1>5. StoreTypeOK'
  <2>1. ASSUME NEW i \in DOMAIN store', NEW j \in DOMAIN store', store'[i].id = store'[j].id
        PROVE  i = j
    <3>1. old(i) \in DOMAIN store /\ old(j) \in DOMAIN store
      BY <1>4
    <3>2. store[old(i)].id = store[old(j)].id
      BY <1>3, <1>4, <2>1
    <3>3. old(i) = old(j)
      BY <1>2, <3>1, <3>2 DEF DistinctIds
    <3> QED
      BY <1>4, <3>3
  <2> QED
    BY <1>3, <2>1 DEF StoreTypeOK
<1>6. \A i \in DOMAIN store : store[i].id = id <=> i = k
  BY <1>1, <1>2 DEF DistinctIds
<1>7. \A x \in Range(store') : x \in Range(store) /\ x.id # id
  BY <1>3, <1>4, <1>6 DEF Range
<1>8. ASSUME NEW x \in Range(store), x.id # id
      PROVE  x \in Range(store')
  <2>1. PICK i \in DOMAIN store : store[i] = x
    BY DEF Range
  <2>2. i # k
    BY <1>1, <1>8, <2>1
  <2>3. CASE i < k
    <3>1. i \in DOMAIN store' /\ store'[i] = x
      BY <1>3, <1>4, <2>1, <2>3
    <3> QED
      BY <3>1 DEF Range
  <2>4. CASE i > k
    <3>1. i - 1 \in DOMAIN store' /\ store'[i - 1] = x
      BY <1>3, <1>4, <2>1, <2>4
    <3> QED
      BY <3>1 DEF Range
  <2> QED
    BY <1>4, <2>2, <2>3, <2>4
<1> QED
  BY <1>5, <1>7, <1>8 DEF Port!WithId

-----------------------------------------------------------------------------
(***************************************************************************)
(* The invariant: the store holds one entity per id, and the walk has seen *)
(* the ids of the first `offset` entities of a store that still has them,  *)
(* since no write but a deletion moves an entity.                          *)
(***************************************************************************)
StaysInPlace ==
  Len(store') >= Len(store) /\ \A i \in DOMAIN store : store'[i].id = store[i].id

WalkRecord ==
  [at : {"off", "on", "done"}, offset : Nat, seen : Seq(Ids), first : SUBSET Ids]

WalkInv ==
  /\ walk \in WalkRecord
  /\ walk.at = "off" => walk = NoWalk
  /\ walk.at = "on" =>
       /\ walk.offset <= Len(store) /\ Len(walk.seen) = walk.offset
       /\ \A i \in 1..walk.offset : walk.seen[i] = store[i].id
       /\ walk.first \subseteq Stored
  /\ walk.at = "done" => IsInjective(walk.seen) /\ walk.first \subseteq Range(walk.seen)

LEMMA CreateEffect ==
  ASSUME StoreTypeOK, NEW e \in Entities, Create(e)
  PROVE  StoreTypeOK' /\ Port!Create(e) /\ StaysInPlace
<1>1. store \in Seq(Entities)
  BY DEF StoreTypeOK
<1>2. CASE e.id \in Stored
  <2>1. store' = [store EXCEPT ![PositionOf(e.id)] = e]
    BY <1>2 DEF Create
  <2>2. /\ StoreTypeOK' /\ Len(store') = Len(store)
        /\ \A i \in DOMAIN store : store'[i].id = store[i].id
        /\ Range(store') = (Range(store) \ Port!WithId(e.id)) \cup {e}
    BY <1>2, <2>1, ReplacedStore
  <2>3. Port!Create(e)
    BY <2>2 DEF Port!Create
  <2>4. StaysInPlace
    BY <1>1, <2>2 DEF StaysInPlace
  <2> QED
    BY <2>2, <2>3, <2>4
<1>3. CASE e.id \notin Stored
  <2>1. store' = Append(store, e)
    BY <1>3 DEF Create
  <2>2. /\ StoreTypeOK' /\ Len(store') = Len(store) + 1
        /\ \A i \in DOMAIN store : store'[i].id = store[i].id
        /\ Range(store') = (Range(store) \ Port!WithId(e.id)) \cup {e}
    BY <1>3, <2>1, AppendedStore
  <2>3. Port!Create(e)
    BY <2>2 DEF Port!Create
  <2>4. StaysInPlace
    BY <1>1, <2>2 DEF StaysInPlace
  <2> QED
    BY <2>2, <2>3, <2>4
<1> QED
  BY <1>2, <1>3

LEMMA UpdateEffect ==
  ASSUME StoreTypeOK, NEW e \in Entities, Update(e)
  PROVE  StoreTypeOK' /\ (Port!Update(e) \/ UNCHANGED store) /\ StaysInPlace
<1>1. store \in Seq(Entities)
  BY DEF StoreTypeOK
<1>2. CASE e.id \in Stored
  <2>1. store' = [store EXCEPT ![PositionOf(e.id)] = e]
    BY <1>2 DEF Update
  <2>2. Port!WithId(e.id) # {}
    BY <1>2 DEF Stored, Port!WithId
  <2>3. /\ StoreTypeOK' /\ Len(store') = Len(store)
        /\ \A i \in DOMAIN store : store'[i].id = store[i].id
        /\ Range(store') = (Range(store) \ Port!WithId(e.id)) \cup {e}
    BY <1>2, <2>1, ReplacedStore
  <2>4. Port!Update(e)
    BY <2>3, <2>2 DEF Port!Update, Port!Create
  <2>5. StaysInPlace
    BY <1>1, <2>3 DEF StaysInPlace
  <2> QED
    BY <2>3, <2>4, <2>5
<1>3. CASE e.id \notin Stored
  BY <1>1, <1>3 DEF Update, StaysInPlace, StoreTypeOK
<1> QED
  BY <1>2, <1>3

\* A write that leaves the entities in place loses no id.
LEMMA SameIdsStored ==
  ASSUME store \in Seq(Entities), store' \in Seq(Entities), StaysInPlace
  PROVE  Stored \subseteq Stored'
<1>1. /\ Stored = {store[i].id : i \in 1..Len(store)}
      /\ Stored' = {store'[i].id : i \in 1..Len(store')}
  BY DEF Stored, Range
<1>2. \A i \in 1..Len(store) : i \in 1..Len(store') /\ store'[i].id = store[i].id
  BY DEF StaysInPlace
<1> QED
  BY <1>1, <1>2

\* A write that leaves every entity where it is does not disturb the walk, ...
LEMMA WalkUndisturbed ==
  ASSUME WalkInv, StoreTypeOK, StoreTypeOK', StaysInPlace, UNCHANGED walk
  PROVE  WalkInv'
<1>1. store \in Seq(Entities) /\ store' \in Seq(Entities)
  BY DEF StoreTypeOK
<1>2. Stored \subseteq Stored'
  BY <1>1, SameIdsStored
<1>3. ASSUME walk.at = "on"
      PROVE  /\ walk.offset <= Len(store') /\ Len(walk.seen) = walk.offset
             /\ \A i \in 1..walk.offset : walk.seen[i] = store'[i].id
             /\ walk.first \subseteq Stored'
  <2>1. walk.offset \in Nat /\ walk.offset <= Len(store) /\ Len(store) <= Len(store')
    BY <1>3 DEF WalkInv, WalkRecord, StaysInPlace
  <2>2. Len(store) \in Nat /\ Len(store') \in Nat /\ DOMAIN store = 1..Len(store)
    BY <1>1
  <2>3. \A i \in 1..walk.offset : i \in DOMAIN store
    BY <2>1, <2>2
  <2> QED
    BY <1>2, <1>3, <2>1, <2>2, <2>3 DEF WalkInv, StaysInPlace
<1> QED
  BY <1>3 DEF WalkInv

\* ... a deletion ends it, ...
LEMMA WalkLost ==
  ASSUME WalkInv, LoseWalk
  PROVE  WalkInv'
<1>1. NoWalk.at = "off" /\ NoWalk \in WalkRecord
  BY DEF NoWalk, WalkRecord
<1> QED
  BY <1>1 DEF WalkInv, LoseWalk

\* ... and each page shows the entities from the next position on.
LEMMA PageShown ==
  ASSUME WalkInv, StoreTypeOK, NextPage
  PROVE  WalkInv'
<1> DEFINE n == walk.offset
           m == IF n + PageSize < Len(store) THEN n + PageSize ELSE Len(store)
           page == SubSeq(store, n + 1, m)
           ids == [i \in DOMAIN page |-> page[i].id]
<1>1. /\ walk.at = "on" /\ n \in Nat /\ n <= Len(store) /\ Len(walk.seen) = n
      /\ walk.seen \in Seq(Ids) /\ \A i \in 1..n : walk.seen[i] = store[i].id
      /\ walk.first \subseteq Stored
  BY DEF NextPage, WalkInv, WalkRecord
<1>2. /\ store \in Seq(Entities) /\ DistinctIds(store) /\ Len(store) \in Nat
      /\ PageSize \in Nat \ {0} /\ \A i \in 1..Len(store) : store[i] \in Entities
  BY PipelineAssumption DEF StoreTypeOK, DistinctIds
<1>3. /\ walk' = [walk EXCEPT !.at = IF n + PageSize < Len(store) THEN "on" ELSE "done",
                              !.offset = n + PageSize,
                              !.seen = walk.seen \o ids]
      /\ store' = store
  BY DEF NextPage, List
<1>4. m \in Nat /\ n <= m /\ m <= Len(store)
  BY <1>1, <1>2
<1>5. /\ page \in Seq(Entities) /\ Len(page) = m - n
      /\ \A i \in 1..(m - n) : page[i] = store[n + i]
  <2>1. n + 1 \in Int /\ m \in Int /\ \A i \in (n + 1)..m : store[i] \in Entities
    BY <1>1, <1>2, <1>4
  <2>2. /\ page \in Seq(Entities) /\ Len(page) = IF n + 1 <= m THEN m - (n + 1) + 1 ELSE 0
        /\ \A i \in 1..(m - (n + 1) + 1) : page[i] = store[(n + 1) + i - 1]
    BY <2>1, SubSeqProperties
  <2> HIDE DEF page, m, n
  <2>3. n \in Nat
    BY <1>1
  <2> QED
    BY <1>4, <2>2, <2>3
<1>6. /\ ids \in Seq(Ids) /\ Len(ids) = m - n
      /\ \A i \in 1..(m - n) : ids[i] = store[n + i].id
  <2> HIDE DEF page
  <2>1. DOMAIN page = 1..(m - n) /\ m - n \in Nat
    BY <1>1, <1>4, <1>5
  <2>2. ids \in [1..(m - n) -> Ids]
    BY <1>5, <2>1 DEF Ids
  <2> QED
    BY <1>5, <2>1, <2>2
<1> HIDE DEF ids, page
<1>7. /\ walk.seen \o ids \in Seq(Ids) /\ Len(walk.seen \o ids) = m
      /\ \A i \in 1..m : (walk.seen \o ids)[i] = store[i].id
  <2>1. /\ walk.seen \o ids \in Seq(Ids)
        /\ Len(walk.seen \o ids) = Len(walk.seen) + Len(ids)
        /\ \A i \in 1..(Len(walk.seen) + Len(ids)) :
             (walk.seen \o ids)[i] = IF i <= Len(walk.seen) THEN walk.seen[i]
                                                            ELSE ids[i - Len(walk.seen)]
    BY <1>1, <1>6, ConcatProperties
  <2>2. Len(walk.seen) + Len(ids) = m
    BY <1>1, <1>4, <1>6
  <2>3. ASSUME NEW i \in 1..m
        PROVE  (walk.seen \o ids)[i] = store[i].id
    <3>1. (walk.seen \o ids)[i] = IF i <= n THEN walk.seen[i] ELSE ids[i - n]
      BY <1>1, <2>1, <2>2
    <3>2. CASE i <= n
      BY <1>1, <3>1, <3>2
    <3>3. CASE i > n
      <4>1. i - n \in 1..(m - n) /\ n + (i - n) = i
        BY <1>1, <1>4, <3>3
      <4>2. ids[i - n] = store[i].id
        BY <1>6, <4>1
      <4> QED
        BY <1>1, <3>1, <3>3, <4>2
    <3>4. i <= n \/ i > n
      <4>1. n \in Nat /\ m \in Nat
        BY <1>1, <1>4
      <4> HIDE DEF m, n
      <4> QED
        BY <4>1
    <3> QED
      BY <3>2, <3>3, <3>4
  <2> QED
    BY <2>1, <2>2, <2>3
<1>8. /\ walk'.at = (IF n + PageSize < Len(store) THEN "on" ELSE "done")
      /\ walk'.offset = n + PageSize /\ walk'.seen = walk.seen \o ids
      /\ walk'.first = walk.first
      /\ walk' \in WalkRecord
  <2> HIDE DEF m
  <2>1. n + PageSize \in Nat
    BY <1>1, <1>2
  <2> HIDE DEF n
  <2> QED
    BY <1>3, <1>7, <2>1 DEF WalkInv, WalkRecord
<1>9. CASE n + PageSize < Len(store)
  <2>1. m = n + PageSize
    BY <1>9
  <2> HIDE DEF m, n
  <2> QED
    BY <1>1, <1>3, <1>4, <1>7, <1>8, <1>9, <2>1 DEF WalkInv, Stored
<1>10. CASE ~(n + PageSize < Len(store))
  <2>1. m = Len(store)
    BY <1>10
  <2> HIDE DEF m, n
  <2>2. /\ walk'.at = "done" /\ Len(walk'.seen) = Len(store)
        /\ \A i \in 1..Len(store) : walk'.seen[i] = store[i].id
        /\ DOMAIN walk'.seen = 1..Len(store) /\ DOMAIN store = 1..Len(store)
    BY <1>2, <1>7, <1>8, <1>10, <2>1
  <2>3. IsInjective(walk'.seen)
    BY <1>2, <2>2 DEF IsInjective, DistinctIds
  <2>4. Stored \subseteq Range(walk'.seen)
    BY <2>2 DEF Stored, Range
  <2> QED
    BY <1>1, <1>8, <2>2, <2>3, <2>4 DEF WalkInv
<1> QED
  BY <1>9, <1>10

-----------------------------------------------------------------------------
StoreInv == StoreTypeOK /\ WalkInv

LEMMA InitStoreInv == Init => StoreInv /\ Port!Init
<1> SUFFICES ASSUME Init
             PROVE  StoreInv /\ Port!Init
  OBVIOUS
<1>1. store = <<>> /\ walk = NoWalk
  BY DEF Init, StoreInit
<1>2. Range(store) = {} /\ StoreTypeOK
  BY <1>1, EmptyList DEF StoreTypeOK
<1>3. NoWalk.at = "off" /\ NoWalk \in WalkRecord
  BY DEF NoWalk, WalkRecord
<1> QED
  BY <1>1, <1>2, <1>3 DEF StoreInv, WalkInv, Port!Init

\* Every step writes to the store as its port allows, and keeps the invariant.
LEMMA NextStoreInv ==
  ConsumerInv /\ StoreInv /\ [Next]_vars
    => StoreInv' /\ [Port!Next]_(Range(store))
<1> SUFFICES ASSUME ConsumerInv, StoreInv, [Next]_vars
             PROVE  StoreInv' /\ (Port!Next \/ UNCHANGED Range(store))
  OBVIOUS
<1> USE DEF StoreInv
<1>1. ASSUME NEW e \in Entities, Create(e), UNCHANGED walk
      PROVE  StoreInv' /\ Port!Next
  BY <1>1, CreateEffect, WalkUndisturbed DEF Port!Next
<1>2. ASSUME NEW e \in Entities, ChangeEntity(e)
      PROVE  StoreInv' /\ (Port!Next \/ UNCHANGED Range(store))
  <2>1. Update(e) /\ UNCHANGED walk
    BY <1>2 DEF ChangeEntity
  <2>2. StoreTypeOK' /\ (Port!Update(e) \/ UNCHANGED store) /\ StaysInPlace
    BY <2>1, UpdateEffect
  <2> QED
    BY <2>1, <2>2, WalkUndisturbed DEF Port!Next
<1>3. ASSUME NEW id \in Ids, RemoveEntity(id)
      PROVE  StoreInv' /\ Port!Next
  <2>1. id \in Stored /\ store' = RemoveAt(store, PositionOf(id)) /\ LoseWalk
    BY <1>3 DEF RemoveEntity, Delete
  <2>2. StoreTypeOK' /\ Range(store') = Range(store) \ Port!WithId(id)
    BY <2>1, ShortenedStore
  <2>3. Port!Delete(id)
    BY <2>2 DEF Port!Delete
  <2> QED
    BY <2>1, <2>2, <2>3, WalkLost DEF Port!Next, Ids
<1>4. ASSUME ClearStore
      PROVE  StoreInv' /\ Port!Next
  <2>1. store' = <<>> /\ LoseWalk
    BY <1>4 DEF ClearStore, Clear
  <2>2. StoreTypeOK' /\ Range(store') = {}
    BY <2>1, EmptyList DEF StoreTypeOK
  <2> QED
    BY <2>1, <2>2, WalkLost DEF Port!Next, Port!Clear
<1>5. ASSUME NextPage
      PROVE  StoreInv' /\ UNCHANGED Range(store)
  BY <1>5, PageShown DEF NextPage, StoreTypeOK
<1>6. ASSUME StartWalk
      PROVE  StoreInv' /\ UNCHANGED Range(store)
  <2>1. /\ walk' = [NoWalk EXCEPT !.at = "on", !.first = Stored]
        /\ store' = store
    BY <1>6 DEF StartWalk
  <2>2. /\ walk'.at = "on" /\ walk'.offset = 0 /\ walk'.seen = <<>> /\ walk'.first = Stored
    BY <2>1 DEF NoWalk
  <2>3. Stored \subseteq Ids
    BY DEF Stored, Ids, Range, StoreTypeOK
  <2>4. walk' \in WalkRecord
    <3>1. walk' = [at |-> "on", offset |-> 0, seen |-> <<>>, first |-> Stored]
      BY <2>1 DEF NoWalk
    <3>2. <<>> \in Seq(Ids)
      OBVIOUS
    <3> QED
      BY <2>3, <3>1, <3>2 DEF WalkRecord
  <2>5. Len(store) \in Nat /\ Len(walk'.seen) = 0
    BY <2>2 DEF StoreTypeOK
  <2>6. WalkInv'
    BY <2>1, <2>2, <2>4, <2>5 DEF WalkInv, Stored
  <2> QED
    BY <2>1, <2>6 DEF StoreTypeOK
<1>7. CASE UNCHANGED <<store, walk>>
  BY <1>7 DEF StoreTypeOK, WalkInv, Stored
<1>8. ASSUME NEW s \in Subscribers, Persist(s)
      PROVE  \E e \in Entities : Create(e) /\ UNCHANGED walk
  <2>1. /\ Handling(s) /\ Create(EntityOf[Head(taken[s])]) /\ UNCHANGED walk
    BY <1>8 DEF Persist, At
  <2>2. EntityOf[Head(taken[s])] \in Entities
    BY <2>1, BatchInParts, PipelineAssumption
  <2> QED
    BY <2>1, <2>2
<1>9. CASE \/ \E b \in Batches : FeedMore(b)
           \/ \E s \in Subscribers :
                \/ StartSubscription(s) \/ Forward(s) \/ ForwardTooLate(s) \/ Complete(s)
                \/ Break(s) \/ Cancel(s)
           \/ \E r \in Reasons : CloseSession(r)
           \/ UNCHANGED vars
  BY <1>7, <1>9
     DEF FeedMore, StartSubscription, Forward, ForwardTooLate, Complete, Break, Cancel,
         CloseSession, vars
<1> QED
  BY <1>1, <1>2, <1>3, <1>4, <1>5, <1>6, <1>8, <1>9 DEF Next, HandlerStep

\* Both invariants of the repository, in every reachable state.
LEMMA StoreInvHolds == Spec => []ConsumerInv /\ []StoreInv
<1>1. Spec => []ConsumerInv
  BY PipelineConsumes, ConsumerInvHolds, PTL
<1> QED
  BY <1>1, InitStoreInv, NextStoreInv, PTL DEF Spec

\* A walk through the pages of list() during which nothing is deleted shows no
\* entity twice and misses none that was there when it began (list, create,
\* update).
THEOREM WalksAreSound == Spec => []WalkIsSound
<1>1. StoreInv => WalkIsSound
  <2> SUFFICES ASSUME StoreInv
               PROVE  WalkIsSound
    OBVIOUS
  <2>1. CASE walk.at = "on"
    <3>1. /\ Len(walk.seen) = walk.offset /\ walk.offset \in Nat
          /\ walk.offset <= Len(store) /\ walk.seen \in Seq(Ids) /\ store \in Seq(Entities)
          /\ \A i \in 1..walk.offset : walk.seen[i] = store[i].id
          /\ DistinctIds(store)
      BY <2>1 DEF StoreInv, WalkInv, WalkRecord, StoreTypeOK, DistinctIds
    <3>2. DOMAIN walk.seen = 1..walk.offset /\ \A i \in 1..walk.offset : i \in DOMAIN store
      BY <3>1
    <3>3. IsInjective(walk.seen)
      BY <3>1, <3>2 DEF IsInjective, DistinctIds
    <3> QED
      BY <2>1, <3>3 DEF WalkIsSound
  <2>2. CASE walk.at = "off"
    <3>1. walk.seen = <<>>
      BY <2>2 DEF StoreInv, WalkInv, NoWalk
    <3> QED
      BY <2>2, <3>1, EmptyList DEF WalkIsSound
  <2>3. CASE walk.at = "done"
    BY <2>3 DEF StoreInv, WalkInv, WalkIsSound
  <2> QED
    BY <2>1, <2>2, <2>3 DEF StoreInv, WalkInv, WalkRecord
<1> QED
  BY <1>1, StoreInvHolds, PTL

\* A step sends one message into a session that is open, closes it for the first
\* time, or does not touch it.
LEMMA ChannelStep ==
  ConsumerInv /\ SentInv /\ [Next]_vars => [Channel!Next]_(Channel!contract)
<1> SUFFICES ASSUME ConsumerInv, SentInv, [Next]_vars
             PROVE  Channel!Next \/ UNCHANGED Channel!contract
  OBVIOUS
<1>1. ASSUME NEW s \in Subscribers, Forward(s)
      PROVE  Channel!Next
  <2> DEFINE m == Head(taken[s])
  <2>1. Handling(s) /\ stage[s] = "stored" /\ ~closed /\ sent' = Append(sent, m)
        /\ closed' = closed /\ reason' = reason
    BY <1>1 DEF Forward, At, Send
  <2>2. m \in Messages /\ m \notin Range(sent)
    BY <2>1, BatchInParts DEF SentInv, HandlerKnows
  <2>3. Range(Append(sent, m)) = Range(sent) \cup {m}
    BY <2>2, AppendedList DEF SentInv, AckedWasSent
  <2> QED
    BY <2>1, <2>2, <2>3 DEF Channel!Next, Channel!Send
<1>2. ASSUME NEW r \in Reasons, CloseSession(r)
      PROVE  Channel!Next
  <2>1. r \in CloseReason /\ ~closed /\ closed' = TRUE /\ reason' = r /\ sent' = sent
    BY <1>2, PipelineAssumption DEF CloseSession, Close
  <2> QED
    BY <2>1 DEF Channel!Next, Channel!Close
<1>3. CASE \/ \E b \in Batches : FeedMore(b)
           \/ \E s \in Subscribers :
                \/ StartSubscription(s) \/ Persist(s) \/ ForwardTooLate(s) \/ Complete(s)
                \/ Break(s) \/ Cancel(s)
           \/ \E id \in Ids : RemoveEntity(id)
           \/ \E e \in Entities : ChangeEntity(e)
           \/ ClearStore \/ StartWalk \/ NextPage
           \/ UNCHANGED vars
  <2>1. UNCHANGED session
    BY <1>3
       DEF FeedMore, StartSubscription, Persist, ForwardTooLate, SendRefused, Complete, Break,
           Cancel, RemoveEntity, ChangeEntity, ClearStore, StartWalk, NextPage, vars
  <2> QED
    BY <2>1 DEF session, Channel!contract
<1> QED
  BY <1>1, <1>2, <1>3 DEF Next, HandlerStep

\* The repository keeps the promise of BaseRepository and the session that of
\* Session, with handlers, a reader and other clients at work at the same time.
THEOREM ContractsAreImplemented == Spec => ImplementsContracts
<1>1. Init => Port!Init /\ Channel!Init
  <2>1. ASSUME Init
        PROVE  Channel!Init
    <3>1. sent = <<>> /\ closed = FALSE /\ reason = "None"
      BY <2>1 DEF Init, SessionInit
    <3> QED
      BY <3>1, EmptyList DEF Channel!Init
  <2> QED
    BY <2>1, InitStoreInv
<1>2. Spec => []SentInv
  BY StoreInvHolds, InitSentInv, NextSentInv, PTL DEF Spec
<1>3. Spec => Port!Spec
  BY <1>1, StoreInvHolds, NextStoreInv, PTL DEF Spec, Port!Spec
<1>4. Spec => Channel!Spec
  BY <1>1, <1>2, StoreInvHolds, ChannelStep, PTL DEF Spec, Channel!Spec
<1> QED
  BY <1>3, <1>4 DEF ImplementsContracts
-----------------------------------------------------------------------------
(***************************************************************************)
(* Numbers and lists.                                                      *)
(***************************************************************************)
\* Every set of natural numbers that is not empty has a least element.
LEMMA LeastNumber ==
  ASSUME NEW T \in SUBSET Nat, T # {}
  PROVE  \E n \in T : \A m \in T : n <= m
<1> DEFINE R == {p \in Nat \X Nat : p[1] < p[2]}
<1>1. IsWellFoundedOn(R, Nat)
  BY NatLessThanWellFounded DEF OpToRel
<1> HIDE DEF R
<1>2. PICK n \in T : \A m \in T : <<m, n>> \notin R
  BY <1>1, WFMin
<1>3. \A m \in T : n <= m
  <2> SUFFICES ASSUME NEW m \in T, ~(n <= m)
               PROVE  FALSE
    OBVIOUS
  <2>1. m \in Nat /\ n \in Nat /\ m < n
    OBVIOUS
  <2>2. <<m, n>> \in R
    BY <2>1 DEF R
  <2> QED
    BY <1>2, <2>2
<1> QED
  BY <1>3

\* A list without duplicates has as many elements as it is long.
LEMMA DistinctElements ==
  ASSUME NEW S, NEW q \in Seq(S), \A i, j \in 1..Len(q) : q[i] = q[j] => i = j
  PROVE  Cardinality(Port!Elements(q)) = Len(q)
<1>1. q \in Bijection(1..Len(q), Port!Elements(q))
  BY Fun_IsBij DEF Port!Elements
<1>2. Len(q) \in Nat
  OBVIOUS
<1> QED
  BY <1>1, <1>2, FS_CountingElements DEF ExistsBijection


\* FiniteSets as EntityStore sees it.
LEMMA PortCounts == \A S : Port!Cardinality(S) = Cardinality(S)
  BY DEF Port!Cardinality, Cardinality

\* A function from 1..n to 1..n that is injective reaches every number.
LEMMA OntoItself ==
  ASSUME NEW n \in Nat, NEW f \in [1..n -> 1..n],
         \A i, j \in 1..n : f[i] = f[j] => i = j
  PROVE  \A p \in 1..n : \E i \in 1..n : f[i] = p
<1>1. f \in Injection(1..n, 1..n)
  BY DEF Injection, IsInjective
<1>2. IsFiniteSet(1..n)
  BY FS_Interval
<1>3. f \in Surjection(1..n, 1..n)
  BY <1>1, <1>2, FS_Injection
<1> QED
  BY <1>3 DEF Surjection

-----------------------------------------------------------------------------
(***************************************************************************)
(* A stable sort.  The place of i is the number of those that come before  *)
(* it, and one.                                                            *)
(***************************************************************************)
Before(d, i, j) == d[i] < d[j] \/ (d[i] = d[j] /\ i < j)

Sorts(r, d, n) ==
  /\ r \in [1..n -> 1..n]
  /\ \A i, j \in 1..n : i < j => Before(d, r[i], r[j])

LEMMA BeforeIsAnOrder ==
  ASSUME NEW n \in Nat, NEW d \in [1..n -> Int]
  PROVE  /\ \A i \in 1..n : ~Before(d, i, i)
         /\ \A i, j \in 1..n : i = j \/ Before(d, i, j) \/ Before(d, j, i)
         /\ \A i, j, k \in 1..n : Before(d, i, j) /\ Before(d, j, k) => Before(d, i, k)
<1>1. \A i \in 1..n : d[i] \in Int /\ i \in Int
  OBVIOUS
<1> QED
  BY <1>1 DEF Before

LEMMA SortingExists ==
  ASSUME NEW n \in Nat, NEW d \in [1..n -> Int]
  PROVE  \E r : Sorts(r, d, n)
<1> DEFINE ahead(i) == {j \in 1..n : Before(d, j, i)}
           place == [i \in 1..n |-> Cardinality(ahead(i)) + 1]
           r == [p \in 1..n |-> CHOOSE i \in 1..n : place[i] = p]
<1>1. IsFiniteSet(1..n) /\ Cardinality(1..n) = n
  BY FS_Interval
<1>2. ASSUME NEW i \in 1..n, NEW S \in SUBSET (1..n), i \notin S
      PROVE  Cardinality(S) \in Nat /\ Cardinality(S) < n /\ IsFiniteSet(S)
  <2>1. /\ IsFiniteSet(S) /\ Cardinality(S) <= Cardinality(1..n)
        /\ Cardinality(1..n) = Cardinality(S) => 1..n = S
    BY <1>1, FS_Subset
  <2>2. Cardinality(S) \in Nat
    BY <2>1, FS_CardinalityType
  <2> QED
    BY <1>1, <1>2, <2>1, <2>2
<1>3. place \in [1..n -> 1..n]
  <2> SUFFICES ASSUME NEW i \in 1..n
               PROVE  Cardinality(ahead(i)) + 1 \in 1..n
    OBVIOUS
  <2>1. ahead(i) \in SUBSET (1..n) /\ i \notin ahead(i)
    BY BeforeIsAnOrder
  <2>2. Cardinality(ahead(i)) \in Nat /\ Cardinality(ahead(i)) < n
    BY <1>2, <2>1
  <2> QED
    BY <2>2
<1>4. ASSUME NEW i \in 1..n, NEW j \in 1..n, Before(d, i, j)
      PROVE  place[i] < place[j]
  <2>1. /\ ahead(i) \in SUBSET ahead(j) /\ i \in ahead(j) /\ i \notin ahead(i)
        /\ j \notin ahead(j) /\ ahead(j) \in SUBSET (1..n)
    BY <1>4, BeforeIsAnOrder
  <2>2. IsFiniteSet(ahead(j)) /\ Cardinality(ahead(j)) \in Nat
    BY <1>2, <2>1
  <2>3. /\ IsFiniteSet(ahead(i)) /\ Cardinality(ahead(i)) <= Cardinality(ahead(j))
        /\ Cardinality(ahead(j)) = Cardinality(ahead(i)) => ahead(j) = ahead(i)
    BY <2>1, <2>2, FS_Subset
  <2>4. Cardinality(ahead(i)) \in Nat
    BY <2>3, FS_CardinalityType
  <2>5. Cardinality(ahead(i)) # Cardinality(ahead(j))
    BY <2>1, <2>3
  <2>6. place[i] = Cardinality(ahead(i)) + 1 /\ place[j] = Cardinality(ahead(j)) + 1
    OBVIOUS
  <2> HIDE DEF ahead, place
  <2> QED
    BY <2>2, <2>3, <2>4, <2>5, <2>6
<1> HIDE DEF place
<1>5. ASSUME NEW i \in 1..n, NEW j \in 1..n, place[i] = place[j]
      PROVE  i = j
  <2>1. ~(place[i] < place[j]) /\ ~(place[j] < place[i])
    BY <1>3, <1>5
  <2>2. ~Before(d, i, j) /\ ~Before(d, j, i)
    BY <1>4, <2>1
  <2> QED
    BY <2>2, BeforeIsAnOrder
<1>6. \A p \in 1..n : r[p] \in 1..n /\ place[r[p]] = p
  <2>1. \A i, j \in 1..n : place[i] = place[j] => i = j
    BY <1>5
  <2>2. \A p \in 1..n : \E i \in 1..n : place[i] = p
    BY <1>3, <2>1, OntoItself
  <2> QED
    BY <2>2
<1>7. r \in [1..n -> 1..n]
  BY <1>6
<1> HIDE DEF r
<1>8. ASSUME NEW i \in 1..n, NEW j \in 1..n, i < j
      PROVE  Before(d, r[i], r[j])
  <2>1. place[r[i]] = i /\ place[r[j]] = j /\ r[i] \in 1..n /\ r[j] \in 1..n
    BY <1>6
  <2>2. ~Before(d, r[j], r[i])
    BY <1>4, <1>8, <2>1
  <2>3. r[i] # r[j]
    BY <1>8, <2>1
  <2> QED
    BY <2>1, <2>2, <2>3, BeforeIsAnOrder
<1> QED
  BY <1>7, <1>8 DEF Sorts

\* What is sorted is a permutation, and it ascends.
LEMMA SortedLaws ==
  ASSUME NEW n \in Nat, NEW d \in [1..n -> Int], NEW r, Sorts(r, d, n)
  PROVE  /\ \A i, j \in 1..n : r[i] = r[j] => i = j
         /\ \A p \in 1..n : \E i \in 1..n : r[i] = p
         /\ \A i, j \in 1..n : i <= j => d[r[i]] <= d[r[j]]
<1>1. r \in [1..n -> 1..n] /\ \A i, j \in 1..n : i < j => Before(d, r[i], r[j])
  BY DEF Sorts
<1>2. ASSUME NEW i \in 1..n, NEW j \in 1..n, r[i] = r[j]
      PROVE  i = j
  <2>1. ~(i < j) /\ ~(j < i)
    BY <1>1, <1>2, BeforeIsAnOrder
  <2> QED
    BY <2>1
<1>3. \A p \in 1..n : \E i \in 1..n : r[i] = p
  BY <1>1, <1>2, OntoItself
<1>4. ASSUME NEW i \in 1..n, NEW j \in 1..n, i <= j
      PROVE  d[r[i]] <= d[r[j]]
  <2>1. d[r[i]] \in Int /\ d[r[j]] \in Int
    BY <1>1
  <2>2. CASE i < j
    <3>1. Before(d, r[i], r[j])
      BY <1>1, <2>2
    <3> QED
      BY <2>1, <3>1 DEF Before
  <2>3. CASE i = j
    BY <2>1, <2>3
  <2> QED
    BY <1>4, <2>2, <2>3
<1> QED
  BY <1>2, <1>3, <1>4

-----------------------------------------------------------------------------
(***************************************************************************)
(* The distance: a sum of squares.                                         *)
(***************************************************************************)
IsSum(g, t, n) == \A i \in 0..n : g[i] = IF i = 0 THEN 0 ELSE g[i - 1] + t[i]

LEMMA SquareLaws ==
  ASSUME NEW x \in Int
  PROVE  x * x \in Nat /\ (x * x = 0 <=> x = 0)
<1>1. CASE x > 0
  <2>1. x * x > 0
    BY <1>1
  <2> QED
    BY <1>1, <2>1
<1>2. CASE x < 0
  <2>1. x * x > 0
    BY <1>2
  <2> QED
    BY <1>2, <2>1
<1>3. CASE x = 0
  BY <1>3
<1> QED
  BY <1>1, <1>2, <1>3

LEMMA SumExists ==
  ASSUME NEW n \in Nat, NEW t \in [1..n -> Nat]
  PROVE  \E g : IsSum(g, t, n)
<1> DEFINE T == {m \in 0..n : \A g : ~IsSum(g, t, m)}
<1>1. ASSUME T # {}
      PROVE  FALSE
  <2> T \in SUBSET Nat
    OBVIOUS
  <2>1. PICK m \in T : \A k \in T : m <= k
    <3> HIDE DEF T
    <3> QED
      BY <1>1, LeastNumber
  <2>2. m \in 0..n /\ \A g : ~IsSum(g, t, m)
    OBVIOUS
  <2>3. m # 0
    <3> DEFINE g == [i \in 0..0 |-> 0]
    <3>1. IsSum(g, t, 0)
      BY DEF IsSum
    <3> QED
      BY <2>2, <3>1
  <2>4. m - 1 \in 0..n /\ m - 1 \notin T
    BY <2>1, <2>2, <2>3
  <2>5. PICK g : IsSum(g, t, m - 1)
    BY <2>4
  <2> DEFINE h == [i \in 0..m |-> IF i = m THEN g[m - 1] + t[m] ELSE g[i]]
  <2>6. ASSUME NEW i \in 0..m
        PROVE  h[i] = IF i = 0 THEN 0 ELSE h[i - 1] + t[i]
    BY <2>2, <2>3, <2>5 DEF IsSum
  <2> HIDE DEF h
  <2> QED
    BY <2>2, <2>6 DEF IsSum
<1>2. ASSUME \A g : ~IsSum(g, t, n)
      PROVE  n \in T
  BY <1>2
<1> HIDE DEF T
<1> QED
  BY <1>1, <1>2

\* A sum of natural numbers is one, and is 0 if, and only if, all its terms are.
LEMMA SumIsZero ==
  ASSUME NEW n \in Nat, NEW t \in [1..n -> Nat], NEW g, IsSum(g, t, n)
  PROVE  g[n] \in Nat /\ (g[n] = 0 <=> \A i \in 1..n : t[i] = 0)
<1> DEFINE Holds(m) == g[m] \in Nat /\ (g[m] = 0 <=> \A i \in 1..m : t[i] = 0)
           T == {m \in 0..n : ~Holds(m)}
<1>1. ASSUME T # {}
      PROVE  FALSE
  <2> T \in SUBSET Nat
    OBVIOUS
  <2>1. PICK m \in T : \A k \in T : m <= k
    <3> HIDE DEF T
    <3> QED
      BY <1>1, LeastNumber
  <2>2. m \in 0..n /\ ~Holds(m)
    OBVIOUS
  <2>3. m # 0
    BY <2>2 DEF IsSum
  <2>4. m - 1 \in 0..n /\ Holds(m - 1)
    BY <2>1, <2>2, <2>3
  <2>5. g[m] = g[m - 1] + t[m] /\ g[m - 1] \in Nat /\ t[m] \in Nat
    BY <2>2, <2>3, <2>4 DEF IsSum
  <2>6. g[m] \in Nat /\ (g[m] = 0 <=> (g[m - 1] = 0 /\ t[m] = 0))
    BY <2>5
  <2>7. (\A i \in 1..m : t[i] = 0) <=> (\A i \in 1..(m - 1) : t[i] = 0) /\ t[m] = 0
    BY <2>2, <2>3
  <2> QED
    BY <2>2, <2>4, <2>6, <2>7
<1>2. T = {}
  BY <1>1
<1>3. n \in 0..n /\ n \notin T
  BY <1>2
<1> QED
  BY <1>3

LEMMA DistanceLaws ==
  ASSUME NEW v \in Seq(Int), NEW w \in Seq(Int)
  PROVE  /\ Distance(v, w) \in Nat
         /\ Distance(v, w) = 0 <=> Agree(v, w)
         /\ Len(v) = Len(w) => Distance(v, w) = Euclidean(v, w)
<1> DEFINE n == IF Len(v) < Len(w) THEN Len(v) ELSE Len(w)
           t == [i \in 1..n |-> (v[i] - w[i]) * (v[i] - w[i])]
           Step(g) == [i \in 0..n |-> IF i = 0 THEN 0
                                      ELSE g[i - 1] + (v[i] - w[i]) * (v[i] - w[i])]
           sum == CHOOSE g : g = Step(g)
<1>1. n \in Nat /\ \A i \in 1..n : v[i] \in Int /\ w[i] \in Int
  OBVIOUS
<1>2. \A i \in 1..n : /\ (v[i] - w[i]) * (v[i] - w[i]) \in Nat
                      /\ (v[i] - w[i]) * (v[i] - w[i]) = 0 <=> v[i] = w[i]
  <2> SUFFICES ASSUME NEW i \in 1..n
               PROVE  /\ (v[i] - w[i]) * (v[i] - w[i]) \in Nat
                      /\ (v[i] - w[i]) * (v[i] - w[i]) = 0 <=> v[i] = w[i]
    OBVIOUS
  <2>1. v[i] \in Int /\ w[i] \in Int
    BY <1>1
  <2> HIDE DEF n
  <2>2. v[i] - w[i] \in Int /\ (v[i] - w[i] = 0 <=> v[i] = w[i])
    BY <2>1
  <2> QED
    BY <2>2, SquareLaws
<1>3. Distance(v, w) = sum[n]
  BY DEF Distance
<1>4. Len(v) = Len(w) => Euclidean(v, w) = sum[n]
  <2> SUFFICES ASSUME Len(v) = Len(w)
               PROVE  Euclidean(v, w) = sum[n]
    OBVIOUS
  <2>1. n = Len(v)
    OBVIOUS
  <2> HIDE DEF n
  <2> QED
    BY <2>1 DEF Euclidean
<1>5. 1..n = DOMAIN v \cap DOMAIN w
  OBVIOUS
<1> HIDE DEF n
<1>6. t \in [1..n -> Nat] /\ \A i \in 1..n : t[i] = 0 <=> v[i] = w[i]
  BY <1>2
<1>7. PICK g : IsSum(g, t, n)
  BY <1>1, <1>6, SumExists
<1>8. sum = Step(sum)
  <2> DEFINE h == [i \in 0..n |-> g[i]]
  <2>1. ASSUME NEW i \in 0..n
        PROVE  h[i] = IF i = 0 THEN 0 ELSE h[i - 1] + (v[i] - w[i]) * (v[i] - w[i])
    <3>1. i # 0 => i \in 1..n /\ i - 1 \in 0..n
      BY <1>1
    <3>2. i # 0 => t[i] = (v[i] - w[i]) * (v[i] - w[i])
      BY <3>1
    <3>3. h[i] = g[i] /\ (i # 0 => h[i - 1] = g[i - 1])
      BY <3>1
    <3>4. g[i] = IF i = 0 THEN 0 ELSE g[i - 1] + t[i]
      BY <1>7 DEF IsSum
    <3> HIDE DEF h, t
    <3> QED
      BY <3>2, <3>3, <3>4
  <2>2. h = Step(h)
    BY <2>1
  <2> HIDE DEF h, Step
  <2> QED
    BY <2>2
<1>9. IsSum(sum, t, n)
  <2> HIDE DEF sum
  <2>1. \A i \in 0..n : sum[i] = Step(sum)[i]
    BY <1>8
  <2> QED
    BY <1>1, <2>1 DEF IsSum
<1> HIDE DEF sum
<1>10. sum[n] \in Nat /\ (sum[n] = 0 <=> \A i \in 1..n : v[i] = w[i])
  BY <1>1, <1>6, <1>9, SumIsZero
<1>11. Agree(v, w) <=> \A i \in 1..n : v[i] = w[i]
  BY <1>5 DEF Agree
<1> QED
  BY <1>3, <1>10, <1>11, <1>4

-----------------------------------------------------------------------------
(***************************************************************************)
(* The answers of the repository, in every state in which it holds one     *)
(* entity per id.                                                          *)
(***************************************************************************)
\* The entities as a list without duplicates.
LEMMA StoreAsList ==
  ASSUME StoreTypeOK
  PROVE  /\ store \in Seq(Entities) /\ Len(store) \in Nat /\ DOMAIN store = 1..Len(store)
         /\ \A i, j \in 1..Len(store) : store[i].id = store[j].id => i = j
         /\ \A i, j \in 1..Len(store) : store[i] = store[j] => i = j
         /\ Range(store) = Port!Elements(store)
         /\ Port!Cardinality(Range(store)) = Len(store)
<1>1. store \in Seq(Entities) /\ Len(store) \in Nat /\ DOMAIN store = 1..Len(store)
  BY DEF StoreTypeOK
<1>2. \A i, j \in 1..Len(store) : store[i].id = store[j].id => i = j
  BY <1>1 DEF StoreTypeOK
<1>3. \A i, j \in 1..Len(store) : store[i] = store[j] => i = j
  BY <1>2
<1>4. Range(store) = Port!Elements(store)
  BY DEF Range, Port!Elements
<1>5. Cardinality(Port!Elements(store)) = Len(store)
  BY <1>1, <1>3, DistinctElements
<1> QED
  BY <1>1, <1>2, <1>3, <1>4, <1>5, PortCounts

LEMMA GetIsPromised ==
  ASSUME StoreTypeOK, NEW id
  PROVE  /\ Port!IsGet(Get(id), id)
         /\ Port!IsTraverse(TraverseById(id), id)
<1> DEFINE k == PositionOf(id)
<1>1. CASE id \in Stored
  <2>1. k \in DOMAIN store /\ store[k].id = id
    BY <1>1 DEF Stored, Range, PositionOf
  <2> HIDE DEF k
  <2>2. Port!WithId(id) = {store[k]}
    BY <2>1, StoreAsList DEF Port!WithId, Range
  <2>3. Port!Elements(<<store[k]>>) = {store[k]}
    BY DEF Port!Elements
  <2> QED
    BY <1>1, <2>2, <2>3
       DEF Get, TraverseById, Port!IsGet, Port!IsTraverse, k
<1>2. CASE id \notin Stored
  <2>1. \A e \in Range(store) : e.id # id
    BY <1>2 DEF Stored
  <2>2. Port!Elements(<<>>) = {}
    BY DEF Port!Elements
  <2> QED
    BY <1>2, <2>1, <2>2
       DEF Get, TraverseById, Port!IsGet, Port!IsTraverse, Port!WithId
<1> QED
  BY <1>1, <1>2

\* A list of entities from different positions of the store.
LEMMA PickedFromStore ==
  ASSUME StoreTypeOK, NEW q \in Seq(Entities), NEW at,
         \A i \in 1..Len(q) : at[i] \in 1..Len(store) /\ q[i] = store[at[i]],
         \A i, j \in 1..Len(q) : at[i] = at[j] => i = j
  PROVE  /\ Port!Elements(q) \subseteq Range(store)
         /\ Port!Cardinality(Port!Elements(q)) = Len(q)
<1>1. DOMAIN q = 1..Len(q)
  OBVIOUS
<1>2. Port!Elements(q) = {store[at[i]] : i \in 1..Len(q)}
  BY <1>1 DEF Port!Elements
<1>3. Port!Elements(q) \subseteq Range(store)
  BY <1>2, StoreAsList DEF Range
<1>4. \A i, j \in 1..Len(q) : q[i] = q[j] => i = j
  BY StoreAsList
<1>5. Cardinality(Port!Elements(q)) = Len(q)
  BY <1>4, DistinctElements
<1> QED
  BY <1>3, <1>5, PortCounts

LEMMA ListIsPromised ==
  ASSUME StoreTypeOK, NEW limit \in Nat, NEW offset \in Nat
  PROVE  Port!IsList(List(limit, offset), limit, offset)
<1> DEFINE last == IF offset + limit < Len(store) THEN offset + limit ELSE Len(store)
           size == IF offset + 1 <= last THEN last - (offset + 1) + 1 ELSE 0
           page == SubSeq(store, offset + 1, last)
           at == [i \in 1..size |-> offset + i]
<1>1. /\ store \in Seq(Entities) /\ Len(store) \in Nat
      /\ \A i \in 1..Len(store) : store[i] \in Entities
  BY StoreAsList
<1>2. last \in Nat /\ last <= Len(store)
  BY <1>1
<1>3. /\ page \in Seq(Entities) /\ Len(page) = size
      /\ \A i \in 1..(last - (offset + 1) + 1) : page[i] = store[(offset + 1) + i - 1]
  <2>1. offset + 1 \in Int /\ last \in Int /\ \A i \in (offset + 1)..last : store[i] \in Entities
    BY <1>1, <1>2
  <2> HIDE DEF last
  <2> QED
    BY <2>1, SubSeqProperties
<1>4. List(limit, offset) = [page |-> page, total |-> Len(store)]
  BY DEF List
<1>5. size = IF limit < (IF offset < Len(store) THEN Len(store) - offset ELSE 0)
             THEN limit ELSE (IF offset < Len(store) THEN Len(store) - offset ELSE 0)
  BY <1>1
<1> HIDE DEF last, page
<1>6. size \in Nat /\ \A i \in 1..size : /\ i \in 1..(last - (offset + 1) + 1)
                                         /\ offset + i \in 1..Len(store)
                                         /\ (offset + 1) + i - 1 = offset + i
  BY <1>1, <1>2
<1> HIDE DEF size
<1>7. /\ \A i \in 1..size : at[i] \in 1..Len(store) /\ page[i] = store[at[i]]
      /\ \A i, j \in 1..size : at[i] = at[j] => i = j
  BY <1>3, <1>6
<1> HIDE DEF at
<1>8. /\ Port!Elements(page) \subseteq Range(store)
      /\ Port!Cardinality(Port!Elements(page)) = size
  BY <1>3, <1>7, PickedFromStore
<1> QED
  BY <1>3, <1>4, <1>5, <1>8, StoreAsList DEF Port!IsList, Port!Smaller

\* The order that search() works with: that of the positions by distance.
LEMMA RankingSorts ==
  ASSUME StoreTypeOK, NEW v,
         NEW d \in [1..Len(store) -> Int],
         \A i \in 1..Len(store) : d[i] = Distance(v, store[i].vector)
  PROVE  Sorts(Ranking(v), d, Len(store))
<1> DEFINE n == Len(store)
           dist(i) == Distance(v, store[i].vector)
           InOrder(r) == \A i, j \in 1..n : i < j =>
                           dist(r[i]) < dist(r[j]) \/ (dist(r[i]) = dist(r[j]) /\ r[i] < r[j])
<1>1. n \in Nat /\ DOMAIN store = 1..n
  BY StoreAsList
<1>2. Ranking(v) = CHOOSE r \in [1..n -> 1..n] : InOrder(r)
  BY <1>1 DEF Ranking
<1>3. \A r \in [1..n -> 1..n] : InOrder(r) <=> Sorts(r, d, n)
  <2> SUFFICES ASSUME NEW r \in [1..n -> 1..n]
               PROVE  InOrder(r) <=> Sorts(r, d, n)
    OBVIOUS
  <2>1. \A i \in 1..n : d[r[i]] = dist(r[i])
    OBVIOUS
  <2> HIDE DEF dist, n
  <2> QED
    BY <2>1 DEF Sorts, Before
<1>4. \E r : Sorts(r, d, n)
  BY <1>1, SortingExists
<1>5. \E r \in [1..n -> 1..n] : InOrder(r)
  BY <1>3, <1>4 DEF Sorts
<1> HIDE DEF InOrder, n
<1> QED
  BY <1>2, <1>3, <1>5 DEF n

LEMMA SearchIsPromised ==
  ASSUME StoreTypeOK, NEW v \in Seq(Int), NEW k \in Nat,
         NEW far, far = [e \in Range(store) |-> Euclidean(v, e.vector)]
  PROVE  /\ Port!IsFound(Search(v, k), k)
         /\ OfOneLength(v) => Port!IsNearest(Search(v, k), far)
         /\ (k > 0 /\ \E e \in Range(store) : e.vector = v) =>
              Agree(Search(v, k)[1].vector, v)
<1> DEFINE n == Len(store)
           m == IF k < n THEN k ELSE n
           r == Ranking(v)
           d == [i \in 1..n |-> Distance(v, store[i].vector)]
           best == SubSeq(r, 1, m)
           found == [i \in DOMAIN best |-> store[best[i]]]
<1>1. /\ store \in Seq(Entities) /\ n \in Nat
      /\ \A i \in 1..n : store[i] \in Entities /\ store[i].vector \in Seq(Int)
      /\ Range(store) = {store[i] : i \in 1..n}
  <2>1. store \in Seq(Entities) /\ n \in Nat /\ DOMAIN store = 1..n
    BY StoreAsList
  <2> QED
    BY <2>1, RepositoryAssumption DEF Range
<1>2. d \in [1..n -> Nat] /\ \A i \in 1..n : d[i] = Distance(v, store[i].vector)
  BY <1>1, DistanceLaws
<1>3. OfOneLength(v) => \A i \in 1..n : far[store[i]] = d[i]
  BY <1>1, <1>2, DistanceLaws DEF OfOneLength
<1> HIDE DEF d
<1>4. Sorts(r, d, n)
  BY <1>2, RankingSorts
<1>5. m \in Nat /\ m <= n /\ m <= k /\ (k > 0 /\ n > 0 => m > 0)
  BY <1>1
<1>6. Search(v, k) = found
  BY DEF Search
<1> HIDE DEF r, n, m
<1>7. r \in [1..n -> 1..n]
  BY <1>4 DEF Sorts
<1>8. /\ \A i, j \in 1..n : r[i] = r[j] => i = j
      /\ \A p \in 1..n : \E i \in 1..n : r[i] = p
      /\ \A i, j \in 1..n : i <= j => d[r[i]] <= d[r[j]]
  <2>1. d \in [1..n -> Int]
    BY <1>2
  <2> QED
    BY <1>1, <1>4, <2>1, SortedLaws
<1>9. best \in Seq(1..n) /\ Len(best) = m /\ \A i \in 1..m : best[i] = r[i]
  <2>1. 1 \in Int /\ m \in Int /\ \A i \in 1..m : r[i] \in 1..n
    BY <1>1, <1>5, <1>7
  <2> QED
    BY <1>5, <2>1, SubSeqProperties
<1> HIDE DEF best
<1>10. /\ found \in Seq(Entities) /\ Len(found) = m /\ DOMAIN found = 1..m
       /\ \A i \in 1..m : found[i] = store[r[i]]
  <2>1. DOMAIN best = 1..m
    BY <1>5, <1>9
  <2>2. found = [i \in 1..m |-> store[r[i]]]
    BY <1>9, <2>1
  <2>3. \A i \in 1..m : store[r[i]] \in Entities
    BY <1>1, <1>5, <1>7
  <2> HIDE DEF found
  <2> QED
    BY <1>5, <2>2, <2>3
<1> HIDE DEF found
<1>11. \A i \in 1..m : i \in 1..n /\ r[i] \in 1..n
  BY <1>1, <1>5, <1>7
<1>12. /\ Port!Elements(found) \subseteq Range(store)
       /\ Port!Cardinality(Port!Elements(found)) = m
  <2>1. \A i \in 1..m : r[i] \in 1..Len(store) /\ found[i] = store[r[i]]
    BY <1>10, <1>11 DEF n
  <2>2. \A i, j \in 1..m : r[i] = r[j] => i = j
    BY <1>8, <1>11
  <2> QED
    BY <1>10, <2>1, <2>2, PickedFromStore
<1>13. OfOneLength(v) => \A i \in 1..m : far[found[i]] = d[r[i]]
  BY <1>3, <1>10, <1>11
<1>14. OfOneLength(v) => \A i, j \in 1..m : i < j => far[found[i]] <= far[found[j]]
  <2> SUFFICES ASSUME OfOneLength(v), NEW i \in 1..m, NEW j \in 1..m, i < j
               PROVE  far[found[i]] <= far[found[j]]
    OBVIOUS
  <2>1. i \in 1..n /\ j \in 1..n /\ i <= j
    BY <1>11
  <2> QED
    BY <1>8, <1>13, <2>1
<1>15. OfOneLength(v) =>
         \A e \in Range(store) \ Port!Elements(found), f \in Port!Elements(found) :
           far[f] <= far[e]
  <2> SUFFICES ASSUME OfOneLength(v), NEW e \in Range(store) \ Port!Elements(found),
                      NEW f \in Port!Elements(found)
               PROVE  far[f] <= far[e]
    OBVIOUS
  <2>1. PICK p \in 1..n : e = store[p]
    BY <1>1
  <2>2. PICK q \in 1..n : r[q] = p
    BY <1>8
  <2>3. PICK i \in 1..m : f = found[i]
    BY <1>10 DEF Port!Elements
  <2>4. q \notin 1..m
    BY <1>10, <2>1, <2>2 DEF Port!Elements
  <2>5. i \in 1..n /\ i <= q
    BY <1>1, <1>5, <2>4
  <2>6. d[r[i]] <= d[r[q]]
    BY <1>8, <2>5
  <2>7. far[e] = d[r[q]]
    BY <1>3, <2>1, <2>2
  <2> QED
    BY <1>13, <2>3, <2>6, <2>7
<1>16. Port!IsFound(found, k) /\ (OfOneLength(v) => Port!IsNearest(found, far))
  BY <1>5, <1>10, <1>12, <1>14, <1>15 DEF Port!IsFound, Port!IsNearest
<1>17. ASSUME k > 0, NEW e \in Range(store), e.vector = v
       PROVE  Agree(found[1].vector, v)
  <2>1. PICK p \in 1..n : e = store[p]
    BY <1>1
  <2>2. PICK q \in 1..n : r[q] = p
    BY <1>8
  <2>3. 1 \in 1..m /\ 1 \in 1..n /\ 1 <= q
    BY <1>1, <1>5, <1>17
  <2>4. r[1] \in 1..n
    BY <1>7, <2>3
  <2>5. d[p] = 0
    BY <1>1, <1>2, <1>17, <2>1, DistanceLaws DEF Agree
  <2>6. d[r[1]] <= d[p]
    BY <1>8, <2>2, <2>3
  <2>7. d[r[1]] = Distance(v, store[r[1]].vector) /\ d[r[1]] \in Nat
    BY <1>2, <2>4
  <2>8. Distance(v, store[r[1]].vector) = 0
    BY <2>5, <2>6, <2>7
  <2>9. Agree(v, store[r[1]].vector)
    BY <1>1, <2>4, <2>8, DistanceLaws
  <2> QED
    BY <1>10, <2>3, <2>9 DEF Agree
<1> QED
  BY <1>6, <1>16, <1>17

LEMMA AnswersHold == StoreTypeOK => AnswersArePromised
<1> SUFFICES ASSUME StoreTypeOK
             PROVE  AnswersArePromised
  OBVIOUS
<1>1. \A id \in Ids : /\ Port!IsGet(Get(id), id)
                      /\ Port!IsTraverse(TraverseById(id), id)
  BY GetIsPromised
<1>2. 0..(Len(store) + 1) \subseteq Nat
  BY StoreAsList
<1>3. \A limit, offset \in 0..(Len(store) + 1) :
        Port!IsList(List(limit, offset), limit, offset)
  BY <1>2, ListIsPromised
<1>4. ASSUME NEW v \in Queries, NEW k \in 0..(Len(store) + 1)
      PROVE  LET found == Search(v, k)
             IN  /\ Port!IsFound(found, k)
                 /\ OfOneLength(v) =>
                      Port!IsNearest(found, [e \in Range(store) |-> Euclidean(v, e.vector)])
                 /\ (k > 0 /\ \E e \in Range(store) : e.vector = v) =>
                      Agree(found[1].vector, v)
  BY <1>2, RepositoryAssumption, SearchIsPromised
<1> QED
  BY <1>1, <1>3, <1>4 DEF AnswersArePromised

\* In every reachable state get(), list(), search() and traverse() by id answer
\* what their ports promise, for every id, page, query and number of results;
\* search() by the Euclidean distance where all vectors have the query's length,
\* and where they have not still with entities that are stored, none twice, and
\* first with one that agrees with an exact match (get, list, search, traverse).
THEOREM AnswersAreKept == Spec => []AnswersArePromised
<1>1. StoreInv => AnswersArePromised
  BY AnswersHold DEF StoreInv
<1> QED
  BY <1>1, StoreInvHolds, PTL

-----------------------------------------------------------------------------
(***************************************************************************)
(* The type invariant.  The one part that none of the invariants above     *)
(* says is that a session has a reason when it is closed, and only then.   *)
(***************************************************************************)
SessionInv ==
  /\ reason \in CloseReason \cup {"None"}
  /\ closed <=> reason # "None"

LEMMA NextSessionInv == SessionInv /\ [Next]_vars => SessionInv'
<1> SUFFICES ASSUME SessionInv, [Next]_vars
             PROVE  SessionInv'
  OBVIOUS
<1>1. ASSUME NEW r \in Reasons, CloseSession(r)
      PROVE  SessionInv'
  <2>1. r \in CloseReason /\ closed' = TRUE /\ reason' = r
    BY <1>1, PipelineAssumption DEF CloseSession, Close
  <2>2. r # "None"
    BY <2>1 DEF CloseReason
  <2> QED
    BY <2>1, <2>2 DEF SessionInv
<1>2. CASE \/ \E b \in Batches : FeedMore(b)
           \/ \E s \in Subscribers :
                \/ StartSubscription(s) \/ Persist(s) \/ Forward(s) \/ ForwardTooLate(s)
                \/ Complete(s) \/ Break(s) \/ Cancel(s)
           \/ \E id \in Ids : RemoveEntity(id)
           \/ \E e \in Entities : ChangeEntity(e)
           \/ ClearStore \/ StartWalk \/ NextPage
           \/ UNCHANGED vars
  <2>1. UNCHANGED <<closed, reason>>
    BY <1>2
       DEF FeedMore, StartSubscription, Persist, Forward, Send, ForwardTooLate, SendRefused,
           Complete, Break, Cancel, RemoveEntity, ChangeEntity, ClearStore, StartWalk,
           NextPage, session, vars
  <2> QED
    BY <2>1 DEF SessionInv
<1> QED
  BY <1>1, <1>2 DEF Next, HandlerStep

\* Every variable keeps to its values; a session that is closed has one of the
\* reasons, and a subscription that is not at work is at no point of a handler
\* (subscribe, close, create).
THEOREM PipelineTypeOK == Spec => []TypeOK
<1>1. Init => SessionInv
  <2> SUFFICES ASSUME Init
               PROVE  SessionInv
    OBVIOUS
  <2>1. closed = FALSE /\ reason = "None"
    BY DEF Init, SessionInit
  <2> QED
    BY <2>1 DEF SessionInv
<1>2. Spec => []SessionInv
  BY <1>1, NextSessionInv, PTL DEF Spec
<1>3. Spec => []SentInv
  BY StoreInvHolds, InitSentInv, NextSentInv, PTL DEF Spec
<1>4. ConsumerInv /\ StoreInv /\ SentInv /\ SessionInv => TypeOK
  BY DEF ConsumerInv, StoreInv, SentInv, SessionInv, TypeOK
<1> QED
  BY <1>2, <1>3, <1>4, StoreInvHolds, PTL
=============================================================================
