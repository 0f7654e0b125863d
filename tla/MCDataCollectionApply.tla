----------------------- MODULE MCDataCollectionApply -----------------------
(* DataCollectionApply on two sources and two profiles.  One document moves a source,  *)
(* one defines the profile that it uses, one defines it differently, one detaches.     *)
EXTENDS DataCollectionApply, TLC

CONSTANTS s1, s2, p1, p2

SourceSymmetry == Permutations(Source)

Doc(enabled, profiles, spec, setting) ==
    [enabled |-> enabled, profiles |-> profiles, spec |-> spec, setting |-> setting]

MCDocument == {
    Doc(FALSE, {p1}, Absent, "want"),
    Doc(TRUE, {p1, p2}, p2, "want"),
    Doc(TRUE, {p2}, p2, "alternative"),
    Doc(TRUE, {}, Absent, "want") }
=============================================================================
