------------------------- MODULE MCFeatureSnapshot -------------------------
(* Instances of FeatureSnapshot for TLC. *)
EXTENDS FeatureSnapshot, TLC

Symmetry == Permutations(Readers)
=============================================================================
