-------------------------- MODULE MCDocumentCycle --------------------------
\* Two names for whatever a kind has several of.
EXTENDS DocumentCycle, TLC

CONSTANTS f1, f2, u1, u2, r1, r2

Fids == {f1, f2}
Ueis == {u1, u2}
Roles == {r1, r2}
Symmetry == Permutations(Fids) \cup Permutations(Ueis) \cup Permutations(Roles)
=============================================================================
