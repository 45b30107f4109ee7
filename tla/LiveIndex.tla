------------------------------- MODULE LiveIndex -------------------------------
(***************************************************************************)
(* What internal/vectorindex promises its callers (the Index interface):   *)
(* a map from node ids to vectors, and queries that answer with as many    *)
(* of its entries as they ask for, or all of them.  Which entries are the  *)
(* nearest is left to the library.                                         *)
(***************************************************************************)
EXTENDS Integers, FiniteSets

CONSTANTS Ids, Vectors, MaxK

VARIABLES
  live,    \* the vector of each id in the index
  answer   \* the hits of the latest query

vars == <<live, answer>>

Least(a, b) == IF a <= b THEN a ELSE b

Only(f, S) == [i \in S |-> f[i]]

Init ==
  /\ live \in [{} -> Vectors]
  /\ answer \in [{} -> Vectors]

Insert(id, v) ==
  /\ live' = [i \in DOMAIN live \cup {id} |-> IF i = id THEN v ELSE live[i]]
  /\ UNCHANGED answer

Delete(id) ==
  /\ live' = Only(live, DOMAIN live \ {id})
  /\ UNCHANGED answer

(* With any contents. *)
RebuildFromVectors ==
  /\ \E S \in SUBSET Ids : live' \in [S -> Vectors]
  /\ UNCHANGED answer

Query(k) ==
  /\ \E hits \in SUBSET DOMAIN live :
       /\ Cardinality(hits) = Least(k, Cardinality(DOMAIN live))
       /\ answer' = Only(live, hits)
  /\ UNCHANGED live

Next ==
  \/ \E id \in Ids, v \in Vectors : Insert(id, v)
  \/ \E id \in Ids : Delete(id)
  \/ RebuildFromVectors
  \/ \E k \in 1 .. MaxK : Query(k)

Spec == Init /\ [][Next]_vars
=============================================================================
