----------------------------- MODULE MCVectorIndex -----------------------------
(* Instances of VectorIndex for TLC. *)
EXTENDS VectorIndex

(* The same vector for every id, but perhaps for one that is invalid. *)
MCStored ==
  {[i \in Ids |-> v] : v \in Vectors}
    \cup {[i \in Ids |-> IF i = bad THEN Invalid ELSE v] : bad \in Ids, v \in Vectors}
=============================================================================
