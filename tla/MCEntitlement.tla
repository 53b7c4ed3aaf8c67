--------------------------- MODULE MCEntitlement ---------------------------
(* Two connections of a user for TLC. *)
EXTENDS Entitlement

CONSTANTS c1, c2
=============================================================================
