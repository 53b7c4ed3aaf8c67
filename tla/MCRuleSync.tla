----------------------------- MODULE MCRuleSync -----------------------------
(* Instances of RuleSync for TLC; each run names the operations it allows. *)
EXTENDS RuleSync

CONSTANTS c1, c2, s1, s2
=============================================================================
