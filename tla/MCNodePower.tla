---------------------------- MODULE MCNodePower ----------------------------
(* Four nodes, as the lab has, one of which carries HA resources. *)
EXTENDS NodePower, TLC

CONSTANTS e, p, q, r

MCSymmetry == Permutations({q, r})
=============================================================================
