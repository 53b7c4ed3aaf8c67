----------------------------- MODULE MCTickPush -----------------------------
(* Two partitions with a symbol each, and a K-line topic, for TLC. *)
EXTENDS TickPush

CONSTANTS a, b, g1, g2, p1, p2

Msg(s, t) == [sym |-> s, ts |-> t]
Ticks == [p \in {p1, p2} |-> IF p = p1 THEN <<Msg(a, 2), Msg(a, 1)>>
                                       ELSE <<Msg(b, 1)>>]
BarsOf == <<Msg(a, 1), Msg(a, 2)>>
=============================================================================
