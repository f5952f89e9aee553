------------------------- MODULE MCRuntimeSupervisor -------------------------
(* Values of the constants of RuntimeSupervisor for TLC.                   *)
EXTENDS RuntimeSupervisor, TLC

CONSTANTS s1, s2, s3

MCIds == {s1, s2, s3}
MCSymmetry == Permutations(MCIds)
=============================================================================
