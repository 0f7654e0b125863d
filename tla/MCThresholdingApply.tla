------------------------ MODULE MCThresholdingApply ------------------------
(* ThresholdingApply on two groups and one package, with the model values below.      *)
EXTENDS ThresholdingApply, TLC

CONSTANTS g1, g2, p1

GroupSymmetry == Permutations(Group)
=============================================================================
