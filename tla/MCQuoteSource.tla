--------------------------- MODULE MCQuoteSource ---------------------------
(* Three symbols in two batches; the second mirror is a version behind. *)
EXTENDS QuoteSource

MCDelay == [m \in 0..1 |-> m]
=============================================================================
