----------------------------- MODULE EntityStore -----------------------------
(***************************************************************************)
(* openframe/core/ports/outbound/repository.py: what BaseRepository,       *)
(* BaseVectorStore and BaseGraphStore ask of any adapter, of a set of      *)
(* entities, whatever order or index it keeps them in.  An operation       *)
(* touches the one entity that bears the id; an answer tells of all and    *)
(* only the entities there are.                                            *)
(*                                                                         *)
(* The ports have no bodies: this is the meaning of their signatures that  *)
(* testing/contracts/repository.py, vector_store.py and graph_store.py     *)
(* test an adapter for.                                                    *)
(***************************************************************************)
EXTENDS Naturals, FiniteSets, Sequences

CONSTANT Entity  \* records with an id

VARIABLE entities

Elements(list) == {list[i] : i \in DOMAIN list}

Smaller(m, n) == IF m < n THEN m ELSE n

\* The entity with an id: a set of one, or of none for None.
WithId(id) == {e \in entities : e.id = id}

Init == entities = {}

\* The vector store's create() is an upsert; the plain one may be.
Create(e) == entities' = (entities \ WithId(e.id)) \cup {e}

Update(e) == WithId(e.id) # {} /\ Create(e)

Delete(id) == entities' = entities \ WithId(id)

\* Not an operation of the port: the owner of a store in memory empties it.
Clear == entities' = {}

Next ==
  \/ \E e \in Entity : Create(e) \/ Update(e)
  \/ \E id \in {e.id : e \in Entity} : Delete(id)
  \/ Clear

Spec == Init /\ [][Next]_entities

-----------------------------------------------------------------------------
\* get() finds what is there, and only that.
IsGet(answer, id) == answer = WithId(id)

\* list(): `limit` entities from the `offset`-th on, as far as they go, none
\* twice, and the size of the whole.
IsList(answer, limit, offset) ==
  /\ answer.total = Cardinality(entities)
  /\ Elements(answer.page) \subseteq entities
  /\ Cardinality(Elements(answer.page)) = Len(answer.page)
  /\ Len(answer.page) =
       Smaller(limit, IF offset < answer.total THEN answer.total - offset ELSE 0)

\* search(): at most k entities, none twice, ...
IsFound(answer, k) ==
  /\ Len(answer) <= k
  /\ Elements(answer) \subseteq entities
  /\ Cardinality(Elements(answer)) = Len(answer)

\* ... by the adapter's metric `far`: the most similar first, and none that is left
\* out more similar than one of them.
IsNearest(answer, far) ==
  /\ \A i, j \in DOMAIN answer : i < j => far[answer[i]] <= far[answer[j]]
  /\ \A e \in entities \ Elements(answer), f \in Elements(answer) : far[f] <= far[e]

\* traverse() with a query that matches by the id: that node, or none.
IsTraverse(answer, id) == Elements(answer) = WithId(id)
=============================================================================
