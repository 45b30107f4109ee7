--------------------------- MODULE VectorIndexProofs ---------------------------
(* Proofs about VectorIndex for every finite set of ids and every k. *)
EXTENDS VectorIndex, FiniteSetTheorems, TLAPS

-----------------------------------------------------------------------------
(* Maps *)

IsIndex(f) == \E S \in SUBSET Ids : f \in [S -> Vectors]

(* A map is an index iff its domain and its range are right... *)
LEMMA IndexMaps ==
  ASSUME NEW f, f = [i \in DOMAIN f |-> f[i]]
  PROVE  IsIndex(f) <=> DOMAIN f \subseteq Ids /\ \A i \in DOMAIN f : f[i] \in Vectors
BY DEF IsIndex

(* ... so restrictions and updates of an index are indexes. *)
LEMMA OnlyIsIndex ==
  ASSUME NEW f, IsIndex(f), NEW S \in SUBSET DOMAIN f
  PROVE  IsIndex(Only(f, S)) /\ DOMAIN Only(f, S) = S
BY DEF IsIndex, Only

(* The same for the update of an entry. *)
LEMMA PutIsIndex ==
  ASSUME NEW f, IsIndex(f), NEW id \in Ids, NEW v \in Vectors
  PROVE  IsIndex(Put(f, id, v)) /\ DOMAIN Put(f, id, v) = DOMAIN f \cup {id}
<1>1. DOMAIN f \subseteq Ids /\ \A i \in DOMAIN f : f[i] \in Vectors
  BY DEF IsIndex
<1>2. Put(f, id, v) \in [DOMAIN f \cup {id} -> Vectors]
  BY <1>1 DEF Put
<1> QED BY <1>1, <1>2 DEF IsIndex

(* The valid ones among stored embeddings make an index. *)
LEMMA StoredIsIndex ==
  ASSUME NEW items \in Stored
  PROVE  IsIndex(Only(items, {i \in DOMAIN items : items[i] # Invalid}))
<1>1. PICK S \in SUBSET Ids : items \in [S -> Vectors \cup {Invalid}]
  BY StoredAssumption
<1> DEFINE valid == {i \in DOMAIN items : items[i] # Invalid}
<1>2. valid \in SUBSET Ids /\ \A i \in valid : items[i] \in Vectors
  BY <1>1
<1> HIDE DEF valid
<1>3. Only(items, valid) \in [valid -> Vectors]
  BY <1>2 DEF Only
<1>4. IsIndex(Only(items, valid))
  BY <1>2, <1>3 DEF IsIndex
<1> QED BY <1>4 DEF valid

-----------------------------------------------------------------------------
(* Types *)

(* The graph that is searched and the map it is rebuilt from agree after     *)
(* every operation, and only ids of the map are tombstones.                  *)
LEMMA TypeInit == Init => TypeOK
<1>1. Empty \in [{} -> Vectors]
  BY DEF Empty
<1> QED BY <1>1 DEF Init, TypeOK

(* One step per operation. *)
LEMMA TypeNext == TypeOK /\ [Next]_vars => TypeOK'
<1> SUFFICES ASSUME TypeOK, [Next]_vars PROVE TypeOK'
  OBVIOUS
<1>0. IsIndex(vectors) /\ graph = vectors /\ tombstones \subseteq DOMAIN vectors
      /\ IsIndex(answer)
  BY DEF TypeOK, IsIndex
<1> DEFINE Goal == /\ IsIndex(vectors') /\ graph' = vectors'
                   /\ tombstones' \subseteq DOMAIN vectors' /\ IsIndex(answer')
<1> SUFFICES Goal
  BY DEF TypeOK, IsIndex
<1>1. ASSUME NEW id \in Ids, NEW v \in Vectors \cup {Invalid}, Insert(id, v) PROVE Goal
  <2>1. v \in Vectors
    BY <1>1 DEF Insert
  <2>2. IsIndex(Put(vectors, id, v))
        /\ DOMAIN Put(vectors, id, v) = DOMAIN vectors \cup {id}
    BY <1>0, <2>1, PutIsIndex
  <2>3. /\ vectors' = Put(vectors, id, v) /\ graph' = Put(graph, id, v)
        /\ tombstones' = tombstones \ {id} /\ answer' = answer
    BY <1>1 DEF Insert
  <2> QED BY <1>0, <2>2, <2>3
<1>2. ASSUME NEW id \in Ids, Delete(id) PROVE Goal
  <2>1. CASE CompactLocked(vectors, tombstones \cup {id})
    BY <1>0, <1>2, <2>1, OnlyIsIndex DEF Delete, CompactLocked
  <2>2. CASE tombstones' = tombstones \cup {id} /\ UNCHANGED <<vectors, graph>>
    BY <1>0, <1>2, <2>2 DEF Delete
  <2> QED BY <1>2, <2>1, <2>2 DEF Delete
<1>3. ASSUME NEW items \in Stored, RebuildFromVectors(items) PROVE Goal
  <2> DEFINE valid == Only(items, {i \in DOMAIN items : items[i] # Invalid})
  <2>1. IsIndex(valid)
    BY StoredIsIndex
  <2>2. CompactLocked(valid, {}) /\ UNCHANGED answer
    BY <1>3 DEF RebuildFromVectors
  <2> HIDE DEF valid
  <2> QED BY <1>0, <2>1, <2>2, OnlyIsIndex DEF CompactLocked
<1>4. ASSUME NEW k \in 1 .. MaxK, Query(k) PROVE Goal
  <2>1. PICK hits \in SUBSET DOMAIN graph : answer' = Only(graph, hits)
    BY <1>4 DEF Query
  <2> QED BY <1>0, <1>4, <2>1, OnlyIsIndex DEF Query
<1>5. CASE UNCHANGED vars
  BY <1>0, <1>5 DEF vars
<1> QED BY <1>1, <1>2, <1>3, <1>4, <1>5 DEF Next

(* Only valid vectors get in, and the search sees exactly what was inserted. *)
THEOREM TypeCorrect == Spec => []TypeOK
BY TypeInit, TypeNext, PTL DEF Spec

-----------------------------------------------------------------------------
(* Tombstones *)

(* What an index holds is finite. *)
LEMMA Finite ==
  ASSUME TypeOK
  PROVE  IsFiniteSet(DOMAIN vectors) /\ IsFiniteSet(tombstones)
<1>1. DOMAIN vectors \subseteq Ids /\ tombstones \subseteq DOMAIN vectors
  BY DEF TypeOK
<1> QED BY <1>1, IdsAssumption, FS_Subset

(* Counting what is left of a finite set without some of its elements. *)
LEMMA CountRest ==
  ASSUME NEW S, IsFiniteSet(S), NEW T \in SUBSET S
  PROVE  /\ IsFiniteSet(T) /\ Cardinality(T) \in Nat
         /\ IsFiniteSet(S \ T) /\ Cardinality(S \ T) \in Nat
         /\ Cardinality(S) = Cardinality(S \ T) + Cardinality(T)
<1>1. IsFiniteSet(T) /\ IsFiniteSet(S \ T)
  BY FS_Subset
<1>2. T \cap (S \ T) = {} /\ T \cup (S \ T) = S
  OBVIOUS
<1>3. Cardinality(S) = Cardinality(T) + Cardinality(S \ T) - Cardinality({})
  BY <1>1, <1>2, FS_Union
<1> QED BY <1>1, <1>3, FS_CardinalityType, FS_EmptySet

(* The threshold as Delete tests it says as much of the live entries. *)
LEMMA Threshold ==
  ASSUME NEW S, IsFiniteSet(S), NEW T \in SUBSET S
  PROVE  4 * Cardinality(T) <= Cardinality(S \ T)
           <=> Cardinality(T) * 5 <= Cardinality(S)
<1>1. /\ Cardinality(T) \in Nat /\ Cardinality(S \ T) \in Nat
      /\ Cardinality(S) = Cardinality(S \ T) + Cardinality(T)
  BY CountRest
<1> QED BY <1>1

(* Per action: Insert can only bury fewer under more, Delete compacts when   *)
(* it would bury too many, and a rebuild buries none.                        *)
LEMMA FewNext == TypeOK /\ FewTombstones /\ [Next]_vars => FewTombstones'
<1> SUFFICES ASSUME TypeOK, FewTombstones, [Next]_vars PROVE FewTombstones'
  OBVIOUS
<1> DEFINE S == DOMAIN vectors
<1>1. /\ IsIndex(vectors) /\ tombstones \in SUBSET S
      /\ IsFiniteSet(S) /\ IsFiniteSet(tombstones)
  BY Finite DEF TypeOK, IsIndex
<1>2. 4 * Cardinality(tombstones) <= Cardinality(S \ tombstones)
  BY DEF FewTombstones
<1>3. tombstones' = {} /\ IsFiniteSet(DOMAIN vectors') => FewTombstones'
  <2>1. ASSUME NEW D, IsFiniteSet(D) PROVE 4 * Cardinality({}) <= Cardinality(D \ {})
    BY <2>1, CountRest, FS_EmptySet
  <2> QED BY <2>1 DEF FewTombstones
<1>4. ASSUME NEW id \in Ids, NEW v \in Vectors \cup {Invalid}, Insert(id, v)
      PROVE  FewTombstones'
  <2>1. v \in Vectors /\ tombstones' = tombstones \ {id} /\ DOMAIN vectors' = S \cup {id}
    BY <1>1, <1>4, PutIsIndex DEF Insert
  <2>2. IsFiniteSet(S \ tombstones) /\ IsFiniteSet((S \cup {id}) \ (tombstones \ {id}))
    BY <1>1, FS_AddElement, FS_Difference
  <2>3. Cardinality(S \ tombstones) <= Cardinality((S \cup {id}) \ (tombstones \ {id}))
    BY <2>2, FS_Subset
  <2>4. Cardinality(tombstones \ {id}) <= Cardinality(tombstones)
    BY <1>1, FS_Subset
  <2>5. /\ Cardinality(S \ tombstones) \in Nat /\ Cardinality(tombstones) \in Nat
        /\ Cardinality(tombstones \ {id}) \in Nat
        /\ Cardinality((S \cup {id}) \ (tombstones \ {id})) \in Nat
    BY <1>1, <2>2, FS_RemoveElement, FS_CardinalityType
  <2>6. 4 * Cardinality(tombstones \ {id})
          <= Cardinality((S \cup {id}) \ (tombstones \ {id}))
    BY <1>2, <2>3, <2>4, <2>5
  <2> QED BY <2>1, <2>6 DEF FewTombstones
<1>5. ASSUME NEW id \in Ids, Delete(id) PROVE FewTombstones'
  <2> DEFINE dead == tombstones \cup {id}
  <2>1. id \in S /\ dead \in SUBSET S
    BY <1>1, <1>5 DEF Delete
  <2>2. CASE CompactLocked(vectors, dead)
    <3>1. tombstones' = {} /\ DOMAIN vectors' = S \ dead
      BY <1>1, <2>2, OnlyIsIndex DEF CompactLocked
    <3> QED BY <1>1, <1>3, <3>1, FS_Difference
  <2>3. CASE /\ Cardinality(dead) * 5 <= Cardinality(S)
             /\ tombstones' = dead /\ UNCHANGED vectors
    BY <1>1, <2>1, <2>3, Threshold DEF FewTombstones
  <2> QED BY <1>5, <2>2, <2>3 DEF Delete
<1>6. ASSUME NEW items \in Stored, RebuildFromVectors(items) PROVE FewTombstones'
  <2>1. tombstones' = {}
    BY <1>6 DEF RebuildFromVectors, CompactLocked
  <2>2. TypeOK'
    BY TypeNext
  <2>3. IsFiniteSet(DOMAIN vectors')
    BY <2>2, IdsAssumption, FS_Subset DEF TypeOK
  <2> QED BY <1>3, <2>1, <2>3
<1>7. ASSUME NEW k \in 1 .. MaxK, Query(k) PROVE FewTombstones'
  BY <1>7 DEF Query, FewTombstones
<1>8. CASE UNCHANGED vars
  BY <1>8 DEF vars, FewTombstones
<1> QED BY <1>4, <1>5, <1>6, <1>7, <1>8 DEF Next

(* A query never fetches more than a quarter again of the live entries.      *)
THEOREM QueriesStaySmall == Spec => []FewTombstones
<1>1. Init => TypeOK /\ FewTombstones
  <2>1. Init => FewTombstones
    BY FS_EmptySet DEF Init, Empty, FewTombstones
  <2> QED BY <2>1, TypeInit
<1>2. TypeOK /\ FewTombstones /\ [Next]_vars => (TypeOK /\ FewTombstones)'
  BY TypeNext, FewNext
<1> QED BY <1>1, <1>2, PTL DEF Spec

-----------------------------------------------------------------------------
(* The refinement *)

(* Whatever the library finds, as many live entries are among it as a search *)
(* of the live entries alone would have to return.                           *)
LEMMA OverFetchSuffices ==
  ASSUME NEW G, IsFiniteSet(G), NEW T \in SUBSET G, NEW k \in Nat,
         NEW F \in SUBSET G,
         Cardinality(F) = Least(k + Cardinality(T), Cardinality(G))
  PROVE  Least(k, Cardinality(F \ T)) = Least(k, Cardinality(G \ T))
<1>1. IsFiniteSet(F) /\ Cardinality(F) \in Nat /\ Cardinality(G) \in Nat
  BY FS_Subset, FS_CardinalityType
<1>2. /\ Cardinality(T) \in Nat /\ IsFiniteSet(G \ T) /\ Cardinality(G \ T) \in Nat
  BY CountRest
<1>3. CASE Cardinality(F) = Cardinality(G)
  BY <1>3, FS_Subset
<1>4. CASE Cardinality(F) = k + Cardinality(T)
  <2>1. F \cap T \in SUBSET F /\ F \ (F \cap T) = F \ T
    OBVIOUS
  <2>2. /\ Cardinality(F \cap T) \in Nat /\ Cardinality(F \ T) \in Nat
        /\ Cardinality(F) = Cardinality(F \ T) + Cardinality(F \cap T)
    BY <1>1, <2>1, CountRest
  <2>3. Cardinality(F \cap T) <= Cardinality(T)
    BY <1>2, CountRest, FS_Subset
  <2>4. Cardinality(F \ T) >= k
    BY <1>2, <1>4, <2>2, <2>3
  <2>5. F \ T \in SUBSET (G \ T)
    OBVIOUS
  <2>6. Cardinality(F \ T) <= Cardinality(G \ T)
    BY <1>2, <2>5, FS_Subset
  <2> QED BY <1>2, <2>2, <2>4, <2>6 DEF Least
<1> QED BY <1>1, <1>2, <1>3, <1>4 DEF Least

(* What Live is, entry by entry. *)
LEMMA LiveEntries ==
  /\ DOMAIN Live = DOMAIN vectors \ tombstones
  /\ Live = [i \in DOMAIN vectors \ tombstones |-> vectors[i]]
BY DEF Live, Only

(* Both modules count with the same operator. *)
LEMMA SameCardinality == \A S : LiveIndex!Cardinality(S) = Cardinality(S)
BY DEF LiveIndex!Cardinality, Cardinality

(* Per operation, what it does to the live entries: an insertion sets one. *)
LEMMA InsertLive ==
  ASSUME TypeOK, NEW id \in Ids, NEW v \in Vectors \cup {Invalid}, Insert(id, v)
  PROVE  v \in Vectors /\ LiveIndex!Insert(id, v)
<1>1. v \in Vectors /\ UNCHANGED answer
  BY DEF Insert
<1>2. DOMAIN vectors' \ tombstones' = (DOMAIN vectors \ tombstones) \cup {id}
  BY DEF Insert, Put
<1>3. Live' = [i \in DOMAIN vectors' \ tombstones' |-> vectors'[i]]
  BY DEF Live, Only
<1>4. Live' = [i \in (DOMAIN vectors \ tombstones) \cup {id} |->
                 IF i = id THEN v ELSE vectors[i]]
  BY <1>2, <1>3 DEF Insert, Put
<1>5. Live' = [i \in DOMAIN Live \cup {id} |-> IF i = id THEN v ELSE Live[i]]
  BY <1>4, LiveEntries
<1> QED BY <1>1, <1>5 DEF LiveIndex!Insert

(* A deletion takes away one entry, whether it compacts the graph or not. *)
LEMMA DeleteLive ==
  ASSUME TypeOK, NEW id \in Ids, Delete(id)
  PROVE  LiveIndex!Delete(id)
<1> DEFINE dead == tombstones \cup {id}
<1>1. Live' = [i \in DOMAIN vectors' \ tombstones' |-> vectors'[i]]
  BY DEF Live, Only
<1>2. Live' = [i \in DOMAIN vectors \ dead |-> vectors[i]]
  <2>1. CASE CompactLocked(vectors, dead)
    <3>1. vectors' = [i \in DOMAIN vectors \ dead |-> vectors[i]] /\ tombstones' = {}
      BY <2>1 DEF CompactLocked, Only
    <3> QED BY <1>1, <3>1
  <2>2. CASE tombstones' = dead /\ UNCHANGED vectors
    BY <1>1, <2>2
  <2> QED BY <2>1, <2>2 DEF Delete
<1>3. DOMAIN Live \ {id} = DOMAIN vectors \ dead
  BY LiveEntries
<1>4. \A i \in DOMAIN vectors \ dead : Live[i] = vectors[i]
  BY LiveEntries
<1>5. Live' = LiveIndex!Only(Live, DOMAIN Live \ {id})
  BY <1>2, <1>3, <1>4 DEF LiveIndex!Only
<1> QED BY <1>5 DEF LiveIndex!Delete, Delete

(* A rebuild leaves the valid ones of the items. *)
LEMMA RebuildLive ==
  ASSUME NEW items \in Stored, RebuildFromVectors(items)
  PROVE  LiveIndex!RebuildFromVectors
<1> DEFINE valid == Only(items, {i \in DOMAIN items : items[i] # Invalid})
<1>1. IsIndex(valid)
  BY StoredIsIndex
<1>2. CompactLocked(valid, {}) /\ UNCHANGED answer
  BY DEF RebuildFromVectors
<1> HIDE DEF valid
<1>3. vectors' = Only(valid, DOMAIN valid \ {}) /\ tombstones' = {}
  BY <1>2 DEF CompactLocked
<1>4. IsIndex(vectors')
  BY <1>1, <1>3, OnlyIsIndex
<1>5. PICK S \in SUBSET Ids : vectors' \in [S -> Vectors]
  BY <1>4 DEF IsIndex
<1>6. Live' \in [S -> Vectors]
  BY <1>3, <1>5 DEF Live, Only
<1> QED BY <1>2, <1>6 DEF LiveIndex!RebuildFromVectors

(* A query is a query of the live entries. *)
LEMMA QueryLive ==
  ASSUME TypeOK, NEW k \in 1 .. MaxK, Query(k)
  PROVE  LiveIndex!Query(k)
<1> DEFINE G == DOMAIN vectors
           L == G \ tombstones
<1>1. graph = vectors /\ tombstones \in SUBSET G /\ IsFiniteSet(G)
  BY Finite DEF TypeOK
<1>2. PICK found \in SUBSET G :
        /\ Cardinality(found) = Least(k + Cardinality(tombstones), Cardinality(G))
        /\ \E hits \in SUBSET (found \ tombstones) :
             /\ Cardinality(hits) = Least(k, Cardinality(found \ tombstones))
             /\ answer' = Only(vectors, hits)
  BY <1>1 DEF Query, Fetch
<1>3. PICK hits \in SUBSET (found \ tombstones) :
             /\ Cardinality(hits) = Least(k, Cardinality(found \ tombstones))
             /\ answer' = Only(vectors, hits)
  BY <1>2
<1>4. Cardinality(hits) = Least(k, Cardinality(L))
  <2>1. k \in Nat
    BY BoundsAssumption
  <2> QED BY <1>1, <1>2, <1>3, <2>1, OverFetchSuffices
<1>5. hits \in SUBSET L /\ DOMAIN Live = L /\ \A i \in hits : Live[i] = vectors[i]
  BY LiveEntries
<1>6. answer' = LiveIndex!Only(Live, hits)
  BY <1>3, <1>5 DEF Only, LiveIndex!Only
<1>7. Cardinality(hits) = LiveIndex!Least(k, Cardinality(DOMAIN Live))
  BY <1>4, <1>5, SameCardinality DEF Least, LiveIndex!Least
<1>8. UNCHANGED Live
  BY DEF Query, Live
<1> QED BY <1>5, <1>6, <1>7, <1>8, SameCardinality DEF LiveIndex!Query

(* Every step maps to a step of LiveIndex or to none. *)
LEMMA LiveNext == TypeOK /\ [Next]_vars => [LiveIndex!Next]_(LiveIndex!vars)
<1> SUFFICES ASSUME TypeOK, [Next]_vars PROVE [LiveIndex!Next]_(LiveIndex!vars)
  OBVIOUS
<1>1. ASSUME NEW id \in Ids, NEW v \in Vectors \cup {Invalid}, Insert(id, v)
      PROVE  LiveIndex!Next
  BY <1>1, InsertLive DEF LiveIndex!Next
<1>2. ASSUME NEW id \in Ids, Delete(id) PROVE LiveIndex!Next
  BY <1>2, DeleteLive DEF LiveIndex!Next
<1>3. ASSUME NEW items \in Stored, RebuildFromVectors(items) PROVE LiveIndex!Next
  BY <1>3, RebuildLive DEF LiveIndex!Next
<1>4. ASSUME NEW k \in 1 .. MaxK, Query(k) PROVE LiveIndex!Next
  BY <1>4, QueryLive DEF LiveIndex!Next
<1>5. CASE UNCHANGED vars
  BY <1>5 DEF vars, LiveIndex!vars, Live
<1> QED BY <1>1, <1>2, <1>3, <1>4, <1>5 DEF Next

(* Tombstones cannot be observed: the index implements LiveIndex, whatever   *)
(* the library's search returns.                                             *)
THEOREM ImplementsMap == Spec => ImplementsLiveIndex
<1>1. Init => LiveIndex!Init
  <2> SUFFICES ASSUME Init PROVE LiveIndex!Init
    OBVIOUS
  <2>1. Live = [i \in {} |-> vectors[i]] /\ answer = [i \in {} |-> Invalid]
    BY LiveEntries DEF Init, Empty
  <2>2. \A f : [i \in {} |-> f] \in [{} -> Vectors]
    OBVIOUS
  <2>3. [i \in {} |-> vectors[i]] \in [{} -> Vectors]
    OBVIOUS
  <2>4. answer \in [{} -> Vectors]
    BY <2>1, <2>2
  <2>5. Live \in [{} -> Vectors]
    BY <2>1, <2>3
  <2> QED BY <2>4, <2>5 DEF LiveIndex!Init
<1> QED BY <1>1, TypeInit, TypeNext, LiveNext, PTL
        DEF Spec, ImplementsLiveIndex, LiveIndex!Spec
=============================================================================
