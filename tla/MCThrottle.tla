---------------------------- MODULE MCThrottle ----------------------------
(* Every condition is configured: a round that finds an earlier condition  *)
(* exceeded does not look at the later ones.                               *)
EXTENDS Throttle

MCConditions == Conditions
=============================================================================
