--------------------------- MODULE MCGatewaySlots ---------------------------
(* Two instances of ws-gateway for TLC. *)
EXTENDS GatewaySlots

CONSTANTS g1, g2
=============================================================================
