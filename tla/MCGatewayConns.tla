--------------------------- MODULE MCGatewayConns ---------------------------
(* Two connections and two symbols for TLC. *)
EXTENDS GatewayConns

CONSTANTS c1, c2, k1, k2
=============================================================================
