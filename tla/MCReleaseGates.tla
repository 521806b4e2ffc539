--------------------------- MODULE MCReleaseGates ---------------------------
(* Small instances of ReleaseGates for TLC. *)
EXTENDS ReleaseGates, TLC

Symmetry == Permutations(Conns) \cup Permutations(Principals)
=============================================================================
