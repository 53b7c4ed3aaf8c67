---------------------------- MODULE MCAlertInbox ----------------------------
(* Instances of AlertInbox for TLC: one user, one partition of each topic  *)
(* unless a run says otherwise.                                            *)
EXTENDS AlertInbox, TLC

CONSTANTS e1, e2, u, a, b, r

MCOwnerOf == [e \in Events |-> u]
Symmetry  == Permutations({e1, e2})
=============================================================================
