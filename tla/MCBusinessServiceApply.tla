------------------------ MODULE MCBusinessServiceApply ------------------------
(* BusinessServiceApply on three services: a chain, a two-cycle across documents and   *)
(* a reversed edge are among the inputs.                                             *)
EXTENDS BusinessServiceApply, TLC

CONSTANTS a, b, c

MCDeclarable == a :> {{}, {b}, {b, c}} @@ b :> {{c}, {a}} @@ c :> {{}, {a}}

MCFound == a :> {{}} @@ b :> {{}, {a}} @@ c :> {{}}
=============================================================================
