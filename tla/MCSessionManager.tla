---------------------------- MODULE MCSessionManager ----------------------------
(* Instances of SessionManager for TLC. *)
EXTENDS SessionManager, TLC

CONSTANTS c1, c2

(* Clients are interchangeable in every safety property. *)
Symmetry == Permutations(Clients)
=============================================================================
