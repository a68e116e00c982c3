--------------------------- MODULE MCAlertRules ---------------------------
(* Instances of AlertRules for TLC. *)
EXTENDS AlertRules, TLC

CONSTANTS c1, c2, v1, v2, u1

MCOneRule == {1}
=============================================================================
