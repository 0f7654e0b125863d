------------------------- MODULE MCMaintenanceApply -------------------------
(* MaintenanceApply on two windows, one node and one package: the documents below     *)
(* name a node beside an interface, or select nodes dynamically; the last is invalid.  *)
EXTENDS MaintenanceApply, TLC

Doc(ns, dynamic, interfaces, packages, notifications) ==
    [nodes |-> ns, dynamic |-> dynamic, interfaces |-> interfaces, packages |-> packages,
     notifications |-> notifications]

CONSTANTS w1, w2, n1, p1

WindowSymmetry == Permutations(Window)

MCDocument == {
    Doc({n1}, FALSE, "some", {p1}, TRUE),
    Doc({}, TRUE, "none", Absent, TRUE),
    Doc({}, TRUE, "any", Absent, TRUE) }
=============================================================================
