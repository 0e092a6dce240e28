---------------------------- MODULE MCGatewayAccess ----------------------------
(* A small instance of GatewayAccess for TLC. *)
EXTENDS GatewayAccess, TLC

Symmetry == Permutations(Users)

================================================================================
