------------------------ MODULE MCLivenessChallenge ------------------------
(* LivenessChallenge on a small instance.  No symmetry: the run checks      *)
(* action and liveness properties.                                          *)
EXTENDS LivenessChallenge

CONSTANTS c1, c2, u1, u2, r1, r2
============================================================================
