------------------------- MODULE FakeConsumerProofs -------------------------
(***************************************************************************)
(* Theorems about FakeConsumer for every set of messages, batches and      *)
(* subscribers, and its refinement of MessageDelivery.                     *)
(***************************************************************************)
EXTENDS FakeConsumer, TLAPS

(***************************************************************************)
(* Lists of messages as sets: what \o, Append and Tail do to Range and     *)
(* IsInjective.                                                            *)
(***************************************************************************)
LEMMA JoinedRange ==
  ASSUME NEW S, NEW p \in Seq(S), NEW q \in Seq(S)
  PROVE  Range(p \o q) = Range(p) \cup Range(q)
<1>1. ASSUME NEW x \in Range(p) \cup Range(q)
      PROVE  x \in Range(p \o q)
  <2>1. CASE x \in Range(p)
    <3>1. PICK i \in DOMAIN p : p[i] = x
      BY <2>1 DEF Range
    <3>2. i \in DOMAIN (p \o q) /\ (p \o q)[i] = x
      BY <3>1
    <3> QED
      BY <3>2 DEF Range
  <2>2. CASE x \in Range(q)
    <3>1. PICK i \in DOMAIN q : q[i] = x
      BY <2>2 DEF Range
    <3>2. i + Len(p) \in DOMAIN (p \o q) /\ (p \o q)[i + Len(p)] = x
      BY <3>1
    <3> QED
      BY <3>2 DEF Range
  <2> QED
    BY <1>1, <2>1, <2>2
<1>2. ASSUME NEW x \in Range(p \o q)
      PROVE  x \in Range(p) \cup Range(q)
  <2>1. PICK i \in DOMAIN (p \o q) : (p \o q)[i] = x
    BY <1>2 DEF Range
  <2>2. i \in DOMAIN p \/ i - Len(p) \in DOMAIN q
    BY <2>1
  <2>3. i \in DOMAIN p => p[i] = x
    BY <2>1
  <2>4. (i \notin DOMAIN p /\ i - Len(p) \in DOMAIN q) => q[i - Len(p)] = x
    BY <2>1
  <2> QED
    BY <2>2, <2>3, <2>4 DEF Range
<1> QED
  BY <1>1, <1>2

LEMMA JoinedInjective ==
  ASSUME NEW S, NEW p \in Seq(S), NEW q \in Seq(S),
         IsInjective(p), IsInjective(q), Range(p) \cap Range(q) = {}
  PROVE  IsInjective(p \o q)
<1> SUFFICES ASSUME NEW i \in DOMAIN (p \o q), NEW j \in DOMAIN (p \o q),
                    (p \o q)[i] = (p \o q)[j]
             PROVE  i = j
  BY DEF IsInjective
<1>1. CASE i \in DOMAIN p /\ j \in DOMAIN p
  BY <1>1 DEF IsInjective
<1>2. CASE i \in DOMAIN p /\ j \notin DOMAIN p
  <2>1. p[i] = q[j - Len(p)] /\ j - Len(p) \in DOMAIN q
    BY <1>2
  <2> QED
    BY <1>2, <2>1 DEF Range
<1>3. CASE i \notin DOMAIN p /\ j \in DOMAIN p
  <2>1. p[j] = q[i - Len(p)] /\ i - Len(p) \in DOMAIN q
    BY <1>3
  <2> QED
    BY <1>3, <2>1 DEF Range
<1>4. CASE i \notin DOMAIN p /\ j \notin DOMAIN p
  <2>1. /\ i - Len(p) \in DOMAIN q /\ j - Len(p) \in DOMAIN q
        /\ q[i - Len(p)] = q[j - Len(p)]
    BY <1>4
  <2>2. i - Len(p) = j - Len(p)
    BY <2>1 DEF IsInjective
  <2> QED
    BY <2>2
<1> QED
  BY <1>1, <1>2, <1>3, <1>4

LEMMA AppendedList ==
  ASSUME NEW S, NEW p \in Seq(S), NEW m \in S, IsInjective(p), m \notin Range(p)
  PROVE  /\ Append(p, m) \in Seq(S)
         /\ Range(Append(p, m)) = Range(p) \cup {m}
         /\ IsInjective(Append(p, m))
<1>1. /\ Append(p, m) = p \o <<m>>
      /\ <<m>> \in Seq(S)
      /\ Range(<<m>>) = {m}
      /\ IsInjective(<<m>>)
  BY DEF Range, IsInjective
<1>2. Range(p) \cap Range(<<m>>) = {}
  BY <1>1
<1>3. \A q \in Seq(S) : Range(p \o q) = Range(p) \cup Range(q)
  BY JoinedRange
<1>4. \A q \in Seq(S) :
        IsInjective(q) /\ Range(p) \cap Range(q) = {} => IsInjective(p \o q)
  BY JoinedInjective
<1>5. Append(p, m) \in Seq(S)
  OBVIOUS
<1> QED
  BY <1>1, <1>2, <1>3, <1>4, <1>5, Zenon

LEMMA HeadAndTail ==
  ASSUME NEW S, NEW p \in Seq(S), p # <<>>, IsInjective(p)
  PROVE  /\ Head(p) \in S
         /\ Tail(p) \in Seq(S)
         /\ IsInjective(Tail(p))
         /\ Range(p) = {Head(p)} \cup Range(Tail(p))
         /\ Head(p) \notin Range(Tail(p))
<1>1. Head(p) = p[1] /\ 1 \in DOMAIN p /\ Head(p) \in S /\ Tail(p) \in Seq(S)
  OBVIOUS
<1>2. \A i \in DOMAIN Tail(p) : i + 1 \in DOMAIN p /\ Tail(p)[i] = p[i + 1] /\ i # 0
  OBVIOUS
<1>3. \A i \in DOMAIN p : i = 1 \/ (i - 1 \in DOMAIN Tail(p) /\ p[i] = Tail(p)[i - 1])
  OBVIOUS
<1>4. \A i \in DOMAIN Tail(p) : i \in Nat
  OBVIOUS
<1>5. IsInjective(Tail(p))
  BY <1>2, <1>4 DEF IsInjective
<1>6. Head(p) \notin Range(Tail(p))
  BY <1>1, <1>2, <1>4 DEF IsInjective, Range
<1>7. Range(p) = {Head(p)} \cup Range(Tail(p))
  <2>1. \A x \in Range(p) : x = p[1] \/ x \in Range(Tail(p))
    <3> TAKE x \in Range(p)
    <3>1. PICK i \in DOMAIN p : p[i] = x
      BY DEF Range
    <3> QED
      BY <1>3, <3>1 DEF Range
  <2>2. p[1] \in Range(p)
    BY <1>1 DEF Range
  <2>3. \A x \in Range(Tail(p)) : x \in Range(p)
    BY <1>2 DEF Range
  <2> QED
    BY <1>1, <2>1, <2>2, <2>3
<1> QED
  BY <1>1, <1>5, <1>6, <1>7

LEMMA EmptyList ==
  ASSUME NEW S
  PROVE  <<>> \in Seq(S) /\ Range(<<>>) = {} /\ IsInjective(<<>>)
  BY DEF Range, IsInjective

-----------------------------------------------------------------------------
(***************************************************************************)
(* The invariant.  NothingTwice and NothingVanishes need each other: what  *)
(* is fed is new to every list because all that was ever fed is in one.    *)
(***************************************************************************)
ConsumerInv == ConsumerTypeOK /\ NothingTwice /\ NothingVanishes

\* What the subscribers other than s have taken.
Others(s) == UNION {Range(taken[r]) : r \in Subscribers \ {s}}

LEMMA TakenInParts ==
  ASSUME ConsumerTypeOK, NothingTwice, NEW s \in Subscribers
  PROVE  /\ Taken = Range(taken[s]) \cup Others(s)
         /\ Range(taken[s]) \cap Others(s) = {}
<1>1. Taken = Range(taken[s]) \cup Others(s)
  BY DEF Taken, Others
<1>2. \A r \in Subscribers \ {s} : Range(taken[s]) \cap Range(taken[r]) = {}
  BY DEF NothingTwice
<1> QED
  BY <1>1, <1>2 DEF Others

\* One subscriber gets another list, which is disjoint from the others'.
LEMMA BatchReplaced ==
  ASSUME ConsumerTypeOK, NothingTwice,
         NEW s \in Subscribers, NEW q \in Seq(Messages),
         IsInjective(q), Range(q) \cap Others(s) = {},
         taken' = [taken EXCEPT ![s] = q]
  PROVE  /\ taken' \in [Subscribers -> Seq(Messages)]
         /\ Taken' = Range(q) \cup Others(s)
         /\ \A r, t \in Subscribers : r # t => Range(taken'[r]) \cap Range(taken'[t]) = {}
         /\ \A r \in Subscribers : IsInjective(taken'[r])
<1>1. /\ taken \in [Subscribers -> Seq(Messages)]
      /\ taken' \in [Subscribers -> Seq(Messages)]
      /\ taken'[s] = q
      /\ \A r \in Subscribers \ {s} : taken'[r] = taken[r]
  BY DEF ConsumerTypeOK
<1>2. Taken' = Range(q) \cup Others(s)
  <2>1. Taken' = Range(taken'[s]) \cup UNION {Range(taken'[r]) : r \in Subscribers \ {s}}
    BY DEF Taken
  <2>2. {Range(taken'[r]) : r \in Subscribers \ {s}} = {Range(taken[r]) : r \in Subscribers \ {s}}
    BY <1>1
  <2> QED
    BY <1>1, <2>1, <2>2 DEF Others
<1>3. \A r \in Subscribers \ {s} : Range(q) \cap Range(taken[r]) = {}
  BY DEF Others
<1>4. \A r, t \in Subscribers : r # t => Range(taken'[r]) \cap Range(taken'[t]) = {}
  BY <1>1, <1>3 DEF NothingTwice
<1>5. \A r \in Subscribers : IsInjective(taken'[r])
  BY <1>1 DEF NothingTwice
<1> QED
  BY <1>1, <1>2, <1>4, <1>5

\* What the port sees of it, and of the others, of whom it sees no change.
LEMMA PortView ==
  ASSUME ConsumerTypeOK, NEW s \in Subscribers, NEW q \in Seq(Messages),
         taken' = [taken EXCEPT ![s] = q]
  PROVE  /\ Received' = [Received EXCEPT ![s] = Range(q)]
         /\ Received'[s] = Range(q) /\ Received[s] = Range(taken[s])
         /\ AtHandler' = [AtHandler EXCEPT ![s] = IF q # <<>> THEN {Head(q)} ELSE {}]
         /\ AtHandler[s] = IF Handling(s) THEN {Head(taken[s])} ELSE {}
<1>1. /\ taken'[s] = q
      /\ \A r \in Subscribers \ {s} : taken'[r] = taken[r]
  BY DEF ConsumerTypeOK
<1>2. /\ Received' = [r \in Subscribers |-> Range(taken'[r])]
      /\ AtHandler' = [r \in Subscribers |-> IF taken'[r] # <<>> THEN {Head(taken'[r])} ELSE {}]
  BY DEF Received, AtHandler, Handling
<1>3. /\ Received'[s] = Range(q) /\ Received[s] = Range(taken[s])
      /\ AtHandler[s] = IF Handling(s) THEN {Head(taken[s])} ELSE {}
  BY <1>1, <1>2 DEF Received, AtHandler
<1>4. \A r \in Subscribers \ {s} : Received'[r] = Received[r] /\ AtHandler'[r] = AtHandler[r]
  BY <1>1, <1>2 DEF Received, AtHandler, Handling
<1>5. Received' = [Received EXCEPT ![s] = Range(q)]
  BY <1>2, <1>3, <1>4 DEF Received
<1>6. AtHandler'[s] = IF q # <<>> THEN {Head(q)} ELSE {}
  BY <1>1, <1>2
<1>7. AtHandler' = [AtHandler EXCEPT ![s] = IF q # <<>> THEN {Head(q)} ELSE {}]
  BY <1>2, <1>4, <1>6 DEF AtHandler
<1> QED
  BY <1>3, <1>5, <1>7

\* A handler is called with the first message of a batch, if there is one.
LEMMA FirstIsCalled ==
  ASSUME NEW s \in Subscribers, NEW q \in Seq(Messages), IsInjective(q),
         Received'[s] = Range(q), NEW next,
         next = IF q # <<>> THEN {Head(q)} ELSE {},
         AtHandler' = [AtHandler EXCEPT ![s] = next]
  PROVE  next \in SUBSET Messages /\ Delivery!CallHandler(s, next)
<1>1. CASE q = <<>>
  BY <1>1 DEF Delivery!CallHandler
<1>2. CASE q # <<>>
  <2>1. Head(q) \in Messages /\ Head(q) \in Range(q)
    BY <1>2, HeadAndTail
  <2> QED
    BY <1>2, <2>1 DEF Delivery!CallHandler
<1> QED
  BY <1>1, <1>2

-----------------------------------------------------------------------------
\* feed() makes its messages wait.
LEMMA FeedEffect ==
  ASSUME ConsumerInv, NEW b \in Batches, Feed(b)
  PROVE  ConsumerInv' /\ Delivery!Arrive(Range(b))
<1> USE DEF ConsumerInv
<1>1. b \in Seq(Messages) /\ IsInjective(b) /\ Range(b) \subseteq Messages
  BY ConsumerAssumption DEF Range
<1>2. Range(b) \cap Range(pending) = {}
  BY DEF Feed, NothingVanishes
<1>3. /\ pending' \in Seq(Messages)
      /\ Range(pending') = Range(pending) \cup Range(b)
      /\ IsInjective(pending')
  <2>1. pending \in Seq(Messages) /\ IsInjective(pending) /\ pending' = pending \o b
    BY DEF ConsumerTypeOK, NothingTwice, Feed
  <2>2. pending \o b \in Seq(Messages)
    BY <1>1, <2>1
  <2>3. Range(pending \o b) = Range(pending) \cup Range(b)
    BY <1>1, <2>1, JoinedRange
  <2>4. IsInjective(pending \o b)
    BY <1>1, <1>2, <2>1, JoinedInjective
  <2> QED
    BY <2>1, <2>2, <2>3, <2>4, Zenon
<1>4. /\ taken' = taken /\ acked' = acked /\ nacked' = nacked /\ dropped' = dropped
      /\ fed' = fed \cup Range(b) /\ Range(b) \cap fed = {}
      /\ Taken' = Taken /\ Settled' = Settled
      /\ Received' = Received /\ AtHandler' = AtHandler
  BY DEF Feed, Taken, Settled, Received, AtHandler, Handling
<1>5. ConsumerTypeOK'
  BY <1>1, <1>3, <1>4 DEF ConsumerTypeOK
<1>6. NothingVanishes'
  BY <1>3, <1>4 DEF NothingVanishes
<1>7. NothingTwice'
  BY <1>3, <1>4 DEF NothingTwice, NothingVanishes
<1>8. Delivery!Arrive(Range(b))
  <2>1. UNION {Received[s] : s \in Subscribers} = Taken
    BY DEF Received, Taken
  <2> QED
    BY <1>3, <1>4, <2>1 DEF Delivery!Arrive, Delivery!Known, NothingVanishes, Settled
<1> QED
  BY <1>5, <1>6, <1>7, <1>8

\* subscribe() receives everything that waits and passes on the first of it.
LEMMA SubscribeEffect ==
  ASSUME ConsumerInv, NEW s \in Subscribers, Subscribe(s)
  PROVE  /\ ConsumerInv'
         /\ \E M, next \in SUBSET Messages : Delivery!Receive(s, M, next)
<1> USE DEF ConsumerInv
<1>1. /\ taken[s] = <<>> /\ taken' = [taken EXCEPT ![s] = pending] /\ pending' = <<>>
      /\ acked' = acked /\ nacked' = nacked /\ dropped' = dropped /\ fed' = fed
      /\ Settled' = Settled
  BY DEF Subscribe, Handling, Settled
<1>2. Taken = Others(s)
  BY <1>1, TakenInParts, EmptyList
<1>3. pending \in Seq(Messages) /\ IsInjective(pending) /\ Range(pending) \cap Others(s) = {}
  BY <1>2 DEF ConsumerTypeOK, NothingTwice
<1>4. /\ taken' \in [Subscribers -> Seq(Messages)]
      /\ Taken' = Range(pending) \cup Others(s)
      /\ \A r, t \in Subscribers : r # t => Range(taken'[r]) \cap Range(taken'[t]) = {}
      /\ \A r \in Subscribers : IsInjective(taken'[r])
  BY <1>1, <1>3, BatchReplaced
<1>5. pending' \in Seq(Messages) /\ Range(pending') = {} /\ IsInjective(pending')
  BY <1>1, EmptyList
<1>6. ConsumerTypeOK'
  BY <1>1, <1>4, <1>5 DEF ConsumerTypeOK
<1>7. NothingVanishes'
  BY <1>1, <1>2, <1>4, <1>5 DEF NothingVanishes
<1>8. NothingTwice'
  BY <1>1, <1>2, <1>4, <1>5 DEF NothingTwice
<1> DEFINE next == IF pending # <<>> THEN {Head(pending)} ELSE {}
<1>9. /\ Received' = [Received EXCEPT ![s] = Range(pending)]
      /\ Received'[s] = Range(pending) /\ Received[s] = {}
      /\ AtHandler' = [AtHandler EXCEPT ![s] = next] /\ AtHandler[s] = {}
  BY <1>1, <1>3, EmptyList, PortView DEF Handling
<1>10. next \in SUBSET Messages /\ Delivery!CallHandler(s, next)
  BY <1>3, <1>9, FirstIsCalled
<1> HIDE DEF next
<1>11. Delivery!Receive(s, Range(pending), next)
  BY <1>1, <1>5, <1>9, <1>10 DEF Delivery!Receive, Delivery!Busy
<1>12. Range(pending) \in SUBSET Messages
  BY <1>3 DEF Range
<1> QED
  BY <1>6, <1>7, <1>8, <1>10, <1>11, <1>12

\* What the end of a handler call takes off the batch of its subscription.
LEMMA HeadLeaves ==
  ASSUME ConsumerInv, NEW s \in Subscribers, Handling(s),
         taken' = [taken EXCEPT ![s] = Tail(@)]
  PROVE  /\ Head(taken[s]) \in Messages
         /\ Head(taken[s]) \in Taken
         /\ Taken' = Taken \ {Head(taken[s])}
         /\ taken' \in [Subscribers -> Seq(Messages)]
         /\ \A r, t \in Subscribers : r # t => Range(taken'[r]) \cap Range(taken'[t]) = {}
         /\ \A r \in Subscribers : IsInjective(taken'[r])
         /\ AtHandler[s] = {Head(taken[s])}
         /\ Received' = [Received EXCEPT ![s] = @ \ {Head(taken[s])}]
         /\ \E next \in SUBSET Messages : Delivery!CallHandler(s, next)
<1> DEFINE q == Tail(taken[s])
<1>1. /\ taken[s] \in Seq(Messages) /\ taken[s] # <<>> /\ IsInjective(taken[s])
      /\ taken' = [taken EXCEPT ![s] = q]
  BY DEF ConsumerInv, ConsumerTypeOK, NothingTwice, Handling
<1>2. /\ Head(taken[s]) \in Messages /\ q \in Seq(Messages) /\ IsInjective(q)
      /\ Range(taken[s]) = {Head(taken[s])} \cup Range(q)
      /\ Head(taken[s]) \notin Range(q)
  BY <1>1, HeadAndTail
<1>3. Taken = Range(taken[s]) \cup Others(s) /\ Range(taken[s]) \cap Others(s) = {}
  BY TakenInParts DEF ConsumerInv
<1>4. Range(q) \cap Others(s) = {}
  BY <1>2, <1>3
<1> HIDE DEF q
<1>5. /\ taken' \in [Subscribers -> Seq(Messages)]
      /\ Taken' = Range(q) \cup Others(s)
      /\ \A r, t \in Subscribers : r # t => Range(taken'[r]) \cap Range(taken'[t]) = {}
      /\ \A r \in Subscribers : IsInjective(taken'[r])
  BY <1>1, <1>2, <1>4, BatchReplaced DEF ConsumerInv
<1> DEFINE next == IF q # <<>> THEN {Head(q)} ELSE {}
<1>6. /\ Received' = [Received EXCEPT ![s] = Range(q)]
      /\ Received'[s] = Range(q) /\ Received[s] = Range(taken[s])
      /\ AtHandler' = [AtHandler EXCEPT ![s] = next] /\ AtHandler[s] = {Head(taken[s])}
  BY <1>1, <1>2, PortView DEF ConsumerInv
<1>7. next \in SUBSET Messages /\ Delivery!CallHandler(s, next)
  BY <1>2, <1>6, FirstIsCalled
<1>8. Range(q) = Received[s] \ {Head(taken[s])}
  BY <1>2, <1>6
<1> HIDE DEF next
<1> QED
  BY <1>2, <1>3, <1>5, <1>6, <1>7, <1>8

\* ack()
LEMMA ReturnEffect ==
  ASSUME ConsumerInv, NEW s \in Subscribers, HandlerReturns(s)
  PROVE  /\ ConsumerInv'
         /\ \E next \in SUBSET Messages : Delivery!Confirm(s, next)
<1> USE DEF ConsumerInv
<1> DEFINE m == Head(taken[s])
<1>1. /\ Handling(s) /\ taken' = [taken EXCEPT ![s] = Tail(@)] /\ acked' = Append(acked, m)
      /\ pending' = pending /\ nacked' = nacked /\ dropped' = dropped /\ fed' = fed
  BY DEF HandlerReturns
<1>2. /\ m \in Messages /\ m \in Taken /\ Taken' = Taken \ {m}
      /\ taken' \in [Subscribers -> Seq(Messages)]
      /\ \A r, t \in Subscribers : r # t => Range(taken'[r]) \cap Range(taken'[t]) = {}
      /\ \A r \in Subscribers : IsInjective(taken'[r])
      /\ AtHandler[s] = {m} /\ Received' = [Received EXCEPT ![s] = @ \ {m}]
      /\ \E next \in SUBSET Messages : Delivery!CallHandler(s, next)
  BY <1>1, HeadLeaves
<1> HIDE DEF m
<1>3. /\ m \notin Range(acked) /\ acked \in Seq(Messages) /\ IsInjective(acked)
      /\ m \notin Range(pending) \cup Range(nacked) \cup dropped
  BY <1>2 DEF NothingTwice, ConsumerTypeOK, Settled
<1>4. /\ acked' \in Seq(Messages) /\ Range(acked') = Range(acked) \cup {m}
      /\ IsInjective(acked')
  BY <1>1, <1>2, <1>3, AppendedList
<1>5. Settled' = Settled \cup {m}
  BY <1>1, <1>4 DEF Settled
<1>6. ConsumerTypeOK'
  BY <1>1, <1>2, <1>4 DEF ConsumerTypeOK
<1>7. NothingVanishes'
  BY <1>1, <1>2, <1>5 DEF NothingVanishes
<1>8. NothingTwice'
  <2>1. IsInjective(pending') /\ IsInjective(acked') /\ IsInjective(nacked')
    BY <1>1, <1>4 DEF NothingTwice
  <2>2. Range(pending') = Range(pending) /\ Range(nacked') = Range(nacked)
    BY <1>1
  <2>3. Range(pending') \cap (Taken' \cup Settled') = {} /\ Taken' \cap Settled' = {}
    BY <1>2, <1>3, <1>5, <2>2 DEF NothingTwice
  <2>4. /\ Range(acked') \cap (Range(nacked') \cup dropped') = {}
        /\ Range(nacked') \cap dropped' = {}
    BY <1>1, <1>3, <1>4, <2>2 DEF NothingTwice
  <2> QED
    BY <1>2, <2>1, <2>3, <2>4 DEF NothingTwice
<1>9. PICK next \in SUBSET Messages : Delivery!CallHandler(s, next)
  BY <1>2
<1>10. Delivery!Confirm(s, next)
  BY <1>1, <1>2, <1>4, <1>9 DEF Delivery!Confirm, Delivery!Busy
<1> QED
  BY <1>6, <1>7, <1>8, <1>9, <1>10

\* nack()
LEMMA RaiseEffect ==
  ASSUME ConsumerInv, NEW s \in Subscribers, HandlerRaises(s)
  PROVE  /\ ConsumerInv'
         /\ \E next \in SUBSET Messages : Delivery!Refuse(s, {}, next)
<1> USE DEF ConsumerInv
<1> DEFINE m == Head(taken[s])
<1>1. /\ Handling(s) /\ taken' = [taken EXCEPT ![s] = Tail(@)] /\ nacked' = Append(nacked, m)
      /\ pending' = pending /\ acked' = acked /\ dropped' = dropped /\ fed' = fed
  BY DEF HandlerRaises
<1>2. /\ m \in Messages /\ m \in Taken /\ Taken' = Taken \ {m}
      /\ taken' \in [Subscribers -> Seq(Messages)]
      /\ \A r, t \in Subscribers : r # t => Range(taken'[r]) \cap Range(taken'[t]) = {}
      /\ \A r \in Subscribers : IsInjective(taken'[r])
      /\ AtHandler[s] = {m} /\ Received' = [Received EXCEPT ![s] = @ \ {m}]
      /\ \E next \in SUBSET Messages : Delivery!CallHandler(s, next)
  BY <1>1, HeadLeaves
<1> HIDE DEF m
<1>3. /\ m \notin Range(nacked) /\ nacked \in Seq(Messages) /\ IsInjective(nacked)
      /\ m \notin Range(pending) \cup Range(acked) \cup dropped
  BY <1>2 DEF NothingTwice, ConsumerTypeOK, Settled
<1>4. /\ nacked' \in Seq(Messages) /\ Range(nacked') = Range(nacked) \cup {m}
      /\ IsInjective(nacked')
  BY <1>1, <1>2, <1>3, AppendedList
<1>5. Settled' = Settled \cup {m}
  BY <1>1, <1>4 DEF Settled
<1>6. ConsumerTypeOK'
  BY <1>1, <1>2, <1>4 DEF ConsumerTypeOK
<1>7. NothingVanishes'
  BY <1>1, <1>2, <1>5 DEF NothingVanishes
<1>8. NothingTwice'
  <2>1. IsInjective(pending') /\ IsInjective(acked') /\ IsInjective(nacked')
    BY <1>1, <1>4 DEF NothingTwice
  <2>2. Range(pending') = Range(pending) /\ Range(acked') = Range(acked)
    BY <1>1
  <2>3. Range(pending') \cap (Taken' \cup Settled') = {} /\ Taken' \cap Settled' = {}
    BY <1>2, <1>3, <1>5, <2>2 DEF NothingTwice
  <2>4. /\ Range(acked') \cap (Range(nacked') \cup dropped') = {}
        /\ Range(nacked') \cap dropped' = {}
    BY <1>1, <1>3, <1>4, <2>2 DEF NothingTwice
  <2> QED
    BY <1>2, <2>1, <2>3, <2>4 DEF NothingTwice
<1>9. PICK next \in SUBSET Messages : Delivery!CallHandler(s, next)
  BY <1>2
<1>10. Delivery!Refuse(s, {}, next)
  BY <1>1, <1>2, <1>4, <1>9 DEF Delivery!Refuse, Delivery!Busy
<1> QED
  BY <1>6, <1>7, <1>8, <1>9, <1>10

\* A cancelled subscription abandons the rest of its batch.
LEMMA CancelEffect ==
  ASSUME ConsumerInv, NEW s \in Subscribers, SubscriptionCancelled(s)
  PROVE  ConsumerInv' /\ Delivery!Stop(s, Range(taken[s]))
<1> USE DEF ConsumerInv
<1>1. /\ taken' = [taken EXCEPT ![s] = <<>>] /\ dropped' = dropped \cup Range(taken[s])
      /\ pending' = pending /\ acked' = acked /\ nacked' = nacked /\ fed' = fed
  BY DEF SubscriptionCancelled
<1>2. Taken = Range(taken[s]) \cup Others(s) /\ Range(taken[s]) \cap Others(s) = {}
  BY TakenInParts
<1>3. /\ taken' \in [Subscribers -> Seq(Messages)]
      /\ Taken' = Others(s)
      /\ \A r, t \in Subscribers : r # t => Range(taken'[r]) \cap Range(taken'[t]) = {}
      /\ \A r \in Subscribers : IsInjective(taken'[r])
  <2> DEFINE q == <<>>
  <2>1. q \in Seq(Messages) /\ IsInjective(q) /\ Range(q) = {}
    BY EmptyList
  <2>2. Range(q) \cap Others(s) = {} /\ taken' = [taken EXCEPT ![s] = q]
    BY <1>1, <2>1
  <2> HIDE DEF q
  <2>3. /\ taken' \in [Subscribers -> Seq(Messages)]
        /\ Taken' = Range(q) \cup Others(s)
        /\ \A r, t \in Subscribers : r # t => Range(taken'[r]) \cap Range(taken'[t]) = {}
        /\ \A r \in Subscribers : IsInjective(taken'[r])
    BY <2>1, <2>2, BatchReplaced
  <2> QED
    BY <2>1, <2>3
<1>4. Settled' = Settled \cup Range(taken[s]) /\ Taken' = Taken \ Range(taken[s])
  BY <1>1, <1>2, <1>3 DEF Settled
<1>5. Range(taken[s]) \subseteq Messages
  BY DEF ConsumerTypeOK, Range
<1>6. ConsumerTypeOK'
  BY <1>1, <1>3, <1>5 DEF ConsumerTypeOK
<1>7. NothingVanishes'
  BY <1>1, <1>2, <1>4 DEF NothingVanishes
<1>8. NothingTwice'
  BY <1>1, <1>2, <1>3, <1>4 DEF NothingTwice, Settled
<1>9. /\ Received' = [Received EXCEPT ![s] = {}] /\ Received[s] = Range(taken[s])
      /\ AtHandler' = [AtHandler EXCEPT ![s] = {}]
  <2> DEFINE q == <<>>
  <2>1. q \in Seq(Messages) /\ Range(q) = {} /\ taken' = [taken EXCEPT ![s] = q]
    BY <1>1, EmptyList
  <2>2. /\ Received' = [Received EXCEPT ![s] = Range(q)] /\ Received[s] = Range(taken[s])
        /\ AtHandler' = [AtHandler EXCEPT ![s] = IF q # <<>> THEN {Head(q)} ELSE {}]
    <3> HIDE DEF q
    <3> QED
      BY <2>1, PortView
  <2> QED
    BY <2>1, <2>2
<1>10. Delivery!Stop(s, Range(taken[s]))
  BY <1>1, <1>9 DEF Delivery!Stop
<1> QED
  BY <1>6, <1>7, <1>8, <1>10

-----------------------------------------------------------------------------
LEMMA InitConsumerInv == ConsumerInit => ConsumerInv /\ Delivery!Init
<1> SUFFICES ASSUME ConsumerInit
             PROVE  ConsumerInv /\ Delivery!Init
  OBVIOUS
<1>1. /\ pending = <<>> /\ acked = <<>> /\ nacked = <<>> /\ fed = {} /\ dropped = {}
      /\ taken = [s \in Subscribers |-> <<>>]
  BY DEF ConsumerInit
<1>2. \A s \in Subscribers : taken[s] = <<>>
  BY <1>1
<1>3. <<>> \in Seq(Messages) /\ Range(<<>>) = {} /\ IsInjective(<<>>)
  BY EmptyList
<1>4. /\ Taken = {} /\ Settled = {}
      /\ Received = [s \in Subscribers |-> {}] /\ AtHandler = [s \in Subscribers |-> {}]
  BY <1>1, <1>2, <1>3 DEF Taken, Settled, Received, AtHandler, Handling
<1>5. ConsumerTypeOK
  BY <1>1, <1>3 DEF ConsumerTypeOK
<1>6. NothingTwice
  BY <1>1, <1>2, <1>3, <1>4 DEF NothingTwice
<1> QED
  BY <1>1, <1>3, <1>4, <1>5, <1>6 DEF ConsumerInv, NothingVanishes, Delivery!Init

\* Every step keeps the invariant and is a step of MessageDelivery.
LEMMA NextConsumerInv ==
  ConsumerInv /\ [ConsumerNext]_consumer => ConsumerInv' /\ [Delivery!Next]_(Delivery!delivery)
<1> SUFFICES ASSUME ConsumerInv, [ConsumerNext]_consumer
             PROVE  ConsumerInv' /\ [Delivery!Next]_(Delivery!delivery)
  OBVIOUS
<1>1. ASSUME NEW b \in Batches, Feed(b)
      PROVE  ConsumerInv' /\ Delivery!Next
  <2>1. Range(b) \in SUBSET Messages
    BY ConsumerAssumption DEF Range
  <2> QED
    BY <1>1, <2>1, FeedEffect DEF Delivery!Next
<1>2. ASSUME NEW s \in Subscribers, Subscribe(s)
      PROVE  ConsumerInv' /\ Delivery!Next
  BY <1>2, SubscribeEffect DEF Delivery!Next
<1>3. ASSUME NEW s \in Subscribers, Handling(s)
      PROVE  Head(taken[s]) \in Messages /\ Range(taken[s]) \in SUBSET Messages
  BY <1>3 DEF Handling, ConsumerInv, ConsumerTypeOK, Range
<1>4. ASSUME NEW s \in Subscribers, HandlerReturns(s)
      PROVE  ConsumerInv' /\ Delivery!Next
  BY <1>3, <1>4, ReturnEffect DEF HandlerReturns, Delivery!Next
<1>5. ASSUME NEW s \in Subscribers, HandlerRaises(s)
      PROVE  ConsumerInv' /\ Delivery!Next
  BY <1>3, <1>5, RaiseEffect DEF HandlerRaises, Delivery!Next
<1>6. ASSUME NEW s \in Subscribers, SubscriptionCancelled(s)
      PROVE  ConsumerInv' /\ Delivery!Next
  BY <1>3, <1>6, CancelEffect DEF SubscriptionCancelled, Delivery!Next
<1>7. CASE UNCHANGED consumer
  BY <1>7
     DEF consumer, ConsumerInv, ConsumerTypeOK, NothingTwice, NothingVanishes, Taken,
         Settled, Received, AtHandler, Handling, Delivery!delivery
<1> QED
  BY <1>1, <1>2, <1>4, <1>5, <1>6, <1>7 DEF ConsumerNext

LEMMA ConsumerInvHolds == ConsumerSpec => []ConsumerInv
  BY InitConsumerInv, NextConsumerInv, PTL DEF ConsumerSpec

-----------------------------------------------------------------------------
\* Queues, batches and receipts hold messages (FakeConsumer).
THEOREM ConsumerTypeCorrect == ConsumerSpec => []ConsumerTypeOK
<1>1. ConsumerInv => ConsumerTypeOK
  BY DEF ConsumerInv
<1> QED
  BY <1>1, ConsumerInvHolds, PTL

\* No message is queued, handled or settled twice, however many subscriptions
\* overlap, fail and are cancelled (subscribe).
THEOREM MessagesStayApart == ConsumerSpec => []NothingTwice
<1>1. ConsumerInv => NothingTwice
  BY DEF ConsumerInv
<1> QED
  BY <1>1, ConsumerInvHolds, PTL

\* Every message that was fed is accounted for (subscribe).
THEOREM MessagesStayAccountedFor == ConsumerSpec => []NothingVanishes
<1>1. ConsumerInv => NothingVanishes
  BY DEF ConsumerInv
<1> QED
  BY <1>1, ConsumerInvHolds, PTL

\* FakeConsumer keeps what BaseConsumer promises of messages, MessageDelivery:
\* a handler has one at a time, what is acknowledged does not come again, and
\* only a stop loses any, for any number of subscriptions (subscribe).
THEOREM ConsumerRefinement == ConsumerSpec => ImplementsDelivery
<1>1. ConsumerInit => Delivery!Init
  BY InitConsumerInv
<1>2. ConsumerInv /\ [ConsumerNext]_consumer => [Delivery!Next]_(Delivery!delivery)
  BY NextConsumerInv
<1> QED
  BY <1>1, <1>2, ConsumerInvHolds, PTL DEF ConsumerSpec, ImplementsDelivery, Delivery!Spec

\* Nothing joins the batch a subscription is at work on (subscribe).
THEOREM BatchesStayClosed == ConsumerSpec => BatchesAreClosed
<1>1. ConsumerInv /\ [ConsumerNext]_consumer =>
        [\A s \in Subscribers :
           Handling(s) => taken'[s] \in {taken[s], Tail(taken[s]), <<>>}]_consumer
  <2> SUFFICES ASSUME ConsumerInv, ConsumerNext, NEW s \in Subscribers, Handling(s)
               PROVE  taken'[s] \in {taken[s], Tail(taken[s]), <<>>}
    OBVIOUS
  <2>1. ASSUME NEW b \in Batches, Feed(b)
        PROVE  taken'[s] = taken[s]
    BY <2>1 DEF Feed
  <2>2. ASSUME NEW r \in Subscribers, Subscribe(r)
        PROVE  taken'[s] = taken[s]
    BY <2>2 DEF Subscribe, ConsumerInv, ConsumerTypeOK
  <2>3. ASSUME NEW r \in Subscribers, HandlerReturns(r) \/ HandlerRaises(r)
        PROVE  taken'[s] = taken[s] \/ taken'[s] = Tail(taken[s])
    BY <2>3 DEF HandlerReturns, HandlerRaises, ConsumerInv, ConsumerTypeOK
  <2>4. ASSUME NEW r \in Subscribers, SubscriptionCancelled(r)
        PROVE  taken'[s] = taken[s] \/ taken'[s] = <<>>
    BY <2>4 DEF SubscriptionCancelled, ConsumerInv, ConsumerTypeOK
  <2> QED
    BY <2>1, <2>2, <2>3, <2>4 DEF ConsumerNext
<1> QED
  BY <1>1, ConsumerInvHolds, PTL DEF ConsumerSpec, BatchesAreClosed
=============================================================================
