----------------------------- MODULE MCDispatch -----------------------------
(* Two workers, which are alike, and a user for TLC. *)
EXTENDS Dispatch, TLC

CONSTANTS w1, w2, u1

Alike == Permutations(Workers)
=============================================================================
