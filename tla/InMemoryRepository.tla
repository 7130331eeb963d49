------------------------- MODULE InMemoryRepository -------------------------
(***************************************************************************)
(* openframe/core/testing/fakes/repository.py, vector_store.py and         *)
(* graph_store.py: the store of one InMemoryRepository, which the other    *)
(* two inherit, and what each of them reads from it.                       *)
(*                                                                         *)
(* A Python dict keeps the order in which its keys were first inserted,    *)
(* and an assignment to a key it has leaves that key where it is: `store`  *)
(* is a sequence of entities with distinct ids.  An id is what             *)
(* _get_entity_id makes of an entity, so that ids that differ only in type *)
(* are one id.                                                             *)
(* No operation suspends.                                                  *)
(***************************************************************************)
EXTENDS Integers, SequencesExt

CONSTANTS
  Entities,  \* the entities that may be stored: records of an id and a vector
  Queries    \* the query vectors of search()

ASSUME RepositoryAssumption ==
  /\ \A e \in Entities : e.vector \in Seq(Int)
  /\ Queries \subseteq Seq(Int)

VARIABLE store  \* _store

Ids == {e.id : e \in Entities}

Stored == {e.id : e \in Range(store)}

PositionOf(id) == CHOOSE i \in DOMAIN store : store[i].id = id

StoreInit == store = <<>>

-----------------------------------------------------------------------------
(***************************************************************************)
(* The repository.                                                         *)
(***************************************************************************)
\* None is the empty set.
Get(id) == IF id \in Stored THEN {store[PositionOf(id)]} ELSE {}

\* list(): a slice in insertion order, which ends with the store, and the
\* size of the whole store.
List(limit, offset) ==
  [page |-> SubSeq(store, offset + 1,
                   IF offset + limit < Len(store) THEN offset + limit ELSE Len(store)),
   total |-> Len(store)]

\* Fault: an entity that is stored again is taken out and put at the end.
CreateMovesToEnd(e) ==
  store' = Append(SelectSeq(store, LAMBDA f : f.id # e.id), e)

\* Fault: the entities are kept in a list that is only appended to.
CreateAppends(e) == store' = Append(store, e)

\* create() replaces, without a word, an entity that has the same id.
Create(e) ==
  store' = IF e.id \in Stored
           THEN [store EXCEPT ![PositionOf(e.id)] = e]
           ELSE Append(store, e)

\* update() of a missing entity changes nothing and returns None.
Update(e) ==
  store' = IF e.id \in Stored
           THEN [store EXCEPT ![PositionOf(e.id)] = e]
           ELSE store

\* delete() of a missing entity changes nothing and returns False.
Delete(id) ==
  store' = IF id \in Stored THEN RemoveAt(store, PositionOf(id)) ELSE store

Clear == store' = <<>>

-----------------------------------------------------------------------------
(***************************************************************************)
(* The vector store and the graph store.                                   *)
(***************************************************************************)
\* The square of _euclidean_distance; zip() stops with the shorter vector.
Distance(v, w) ==
  LET shared == IF Len(v) < Len(w) THEN Len(v) ELSE Len(w)
      sum[i \in 0..shared] ==
        IF i = 0 THEN 0 ELSE sum[i - 1] + (v[i] - w[i]) * (v[i] - w[i])
  IN  sum[shared]

\* The positions of the store, nearest first; the sort is stable.
Ranking(v) ==
  LET d(i) == Distance(v, store[i].vector)
  IN  CHOOSE r \in [DOMAIN store -> DOMAIN store] :
        \A i, j \in DOMAIN store :
          i < j => d(r[i]) < d(r[j]) \/ (d(r[i]) = d(r[j]) /\ r[i] < r[j])

\* Fault: the first k entities are sorted, and not the store.
SearchCutsFirst(v, k) ==
  LET best == SelectSeq(Ranking(v), LAMBDA i : i <= k)
  IN  [i \in DOMAIN best |-> store[best[i]]]

Search(v, k) ==
  LET best == SubSeq(Ranking(v), 1, IF k < Len(store) THEN k ELSE Len(store))
  IN  [i \in DOMAIN best |-> store[best[i]]]

\* traverse() with {"id": id}.  Any other parameters return the whole store: no
\* query is interpreted.
TraverseById(id) == IF id \in Stored THEN <<store[PositionOf(id)]>> ELSE <<>>

-----------------------------------------------------------------------------
StoreTypeOK ==
  /\ store \in Seq(Entities)
  /\ \A i, j \in DOMAIN store : store[i].id = store[j].id => i = j

Port == INSTANCE EntityStore WITH Entity <- Entities, entities <- Range(store)

\* The metric that the vector store documents, squared, for vectors of one
\* length.
Euclidean(v, w) ==
  LET sum[i \in 0..Len(v)] ==
        IF i = 0 THEN 0 ELSE sum[i - 1] + (v[i] - w[i]) * (v[i] - w[i])
  IN  sum[Len(v)]

\* The port asks that a query match the dimension of the collection.
OfOneLength(v) == \A e \in Range(store) : Len(e.vector) = Len(v)

Agree(v, w) == \A i \in DOMAIN v \cap DOMAIN w : v[i] = w[i]

\* Whatever was created, replaced, updated and deleted, get(), list(), search()
\* and traverse() by id answer as the ports promise, for every page and every
\* number of results: search() with the nearest in a store of the query's length.
\* "An exact-match query vector always ranks first" is true of such stores; in
\* one of several lengths, which the port excludes and the fake accepts, what
\* comes first need only agree with the query as far as the shorter goes.
AnswersArePromised ==
  /\ \A id \in Ids : /\ Port!IsGet(Get(id), id)
                     /\ Port!IsTraverse(TraverseById(id), id)
  /\ \A limit, offset \in 0..(Len(store) + 1) :
       Port!IsList(List(limit, offset), limit, offset)
  /\ \A v \in Queries, k \in 0..(Len(store) + 1) :
       LET found == Search(v, k)
       IN  /\ Port!IsFound(found, k)
           /\ OfOneLength(v) =>
                Port!IsNearest(found, [e \in Range(store) |-> Euclidean(v, e.vector)])
           /\ (k > 0 /\ \E e \in Range(store) : e.vector = v) =>
                Agree(found[1].vector, v)
=============================================================================
