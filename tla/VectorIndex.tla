------------------------------ MODULE VectorIndex ------------------------------
(***************************************************************************)
(* internal/vectorindex/vectorindex.go: HNSWIndex, the index of node       *)
(* embeddings over the graph of coder/hnsw.  The graph's own Delete is     *)
(* never called: a deleted id becomes a tombstone, queries over-fetch to   *)
(* make up for the tombstones they drop, and the graph is rebuilt when     *)
(* there are too many.  Every method holds the index's lock from beginning *)
(* to end, so it is one step.                                              *)
(*                                                                         *)
(* The library (external): Add of a key it has replaces its vector, Search *)
(* returns as many distinct keys as it is asked for, in an order we leave  *)
(* open because the search is approximate.                                 *)
(***************************************************************************)
EXTENDS Integers, FiniteSets

CONSTANTS
  Ids,      \* node ids
  Vectors,  \* vectors of the configured dimension
  Invalid,  \* stands for an empty vector or one of another dimension
  Stored,   \* what the store's embeddings of a session may be
  MaxK      \* bound on the k of a query

ASSUME IdsAssumption == IsFiniteSet(Ids)
ASSUME VectorsAssumption == Invalid \notin Vectors
ASSUME StoredAssumption ==
  \A items \in Stored : \E S \in SUBSET Ids : items \in [S -> Vectors \cup {Invalid}]
ASSUME BoundsAssumption == MaxK \in Nat

VARIABLES
  vectors,     \* HNSWIndex.vectors
  tombstones,  \* HNSWIndex.tombstones
  graph,       \* HNSWIndex.graph, as the keys and vectors added to it
  answer       \* the hits of the latest Query, with the vectors they stand for

vars == <<vectors, tombstones, graph, answer>>

Empty == [i \in {} |-> Invalid]
Put(f, id, v) == [i \in DOMAIN f \cup {id} |-> IF i = id THEN v ELSE f[i]]
Only(f, S) == [i \in S |-> f[i]]
Least(a, b) == IF a <= b THEN a ELSE b

(* NewHNSW *)
Init ==
  /\ vectors = Empty
  /\ tombstones = {}
  /\ graph = Empty
  /\ answer = Empty

(* An invalid vector is refused with an error and changes nothing. *)
Insert(id, v) ==
  /\ v # Invalid
  /\ tombstones' = tombstones \ {id}
  /\ vectors' = Put(vectors, id, v)
  /\ graph' = Put(graph, id, v)
  /\ UNCHANGED answer

(* compactLocked, of the vectors in f with the tombstones in T. *)
CompactLocked(f, T) ==
  /\ vectors' = Only(f, DOMAIN f \ T)
  /\ graph' = vectors'
  /\ tombstones' = {}

(* Delete of an unknown id returns false and changes nothing. *)
Delete(id) ==
  LET dead == tombstones \cup {id} IN
  /\ id \in DOMAIN vectors
  /\ \/ /\ Cardinality(dead) * 5 > Cardinality(DOMAIN vectors)
        /\ CompactLocked(vectors, dead)
     \/ /\ Cardinality(dead) * 5 <= Cardinality(DOMAIN vectors)
        /\ tombstones' = dead
        /\ UNCHANGED <<vectors, graph>>
  /\ UNCHANGED answer

(* Invalid vectors among the items are skipped. *)
RebuildFromVectors(items) ==
  /\ CompactLocked(Only(items, {i \in DOMAIN items : items[i] # Invalid}), {})
  /\ UNCHANGED answer

(* Query takes the first k hits of the search that are not tombstones; an   *)
(* empty graph answers with nothing.                                        *)
(* Faulty variants of a definition, which the properties must tell from it, *)
(* stand just before it and bear its name with a suffix.                    *)
Fetch_NoOverFetch(k) == Least(k, Cardinality(DOMAIN graph))
Fetch(k) == Least(k + Cardinality(tombstones), Cardinality(DOMAIN graph))

Query(k) ==
  /\ \E found \in SUBSET DOMAIN graph :
       /\ Cardinality(found) = Fetch(k)
       /\ \E hits \in SUBSET (found \ tombstones) :
            /\ Cardinality(hits) = Least(k, Cardinality(found \ tombstones))
            /\ answer' = Only(graph, hits)
  /\ UNCHANGED <<vectors, tombstones, graph>>

Next ==
  \/ \E id \in Ids, v \in Vectors \cup {Invalid} : Insert(id, v)
  \/ \E id \in Ids : Delete(id)
  \/ \E items \in Stored : RebuildFromVectors(items)
  \/ \E k \in 1 .. MaxK : Query(k)

Spec == Init /\ [][Next]_vars
-----------------------------------------------------------------------------
(* Properties *)

Live == Only(vectors, DOMAIN vectors \ tombstones)

(* Only valid vectors get in, and the graph that is searched, which is      *)
(* rebuilt from time to time, never differs from the map it is rebuilt from. *)
TypeOK ==
  /\ \E S \in SUBSET Ids : vectors \in [S -> Vectors]
  /\ graph = vectors
  /\ tombstones \subseteq DOMAIN vectors
  /\ \E S \in SUBSET Ids : answer \in [S -> Vectors]

(* vectorindex.go:117, rebuilding "keeps Query fan-out from blowing up": a  *)
(* query never fetches more than a quarter again of the live entries.       *)
FewTombstones ==
  4 * Cardinality(tombstones) <= Cardinality(DOMAIN vectors \ tombstones)

(* Tombstones cannot be observed: to its callers the index is the map of    *)
(* LiveIndex, and no query comes back short because of what was deleted.    *)
LiveIndex == INSTANCE LiveIndex WITH live <- Live
ImplementsLiveIndex == LiveIndex!Spec
=============================================================================
