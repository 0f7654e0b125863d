---------------------------- MODULE MCApplyRouter ----------------------------
(* ApplyRouter on three documents of up to three kinds, one of which halts inside.   *)
EXTENDS ApplyRouter, TLC

CONSTANTS d1, d2, d3, user, source, graph

MCRank == user :> 100 @@ source :> 200 @@ graph :> 390

Symmetry == Permutations({d1, d2, d3})
=============================================================================
