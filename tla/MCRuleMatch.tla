---------------------------- MODULE MCRuleMatch ----------------------------
(* One rule for TLC: rules do not meet in the matcher. *)
EXTENDS RuleMatch

CONSTANT r1
=============================================================================
