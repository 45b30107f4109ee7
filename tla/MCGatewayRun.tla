---------------------------- MODULE MCGatewayRun ----------------------------
(* Instances of GatewayRun for TLC. *)
EXTENDS GatewayRun, TLC

CONSTANTS c1, c2

(* Clients are interchangeable in every property of the run. *)
Symmetry == Permutations(Clients)
=============================================================================
