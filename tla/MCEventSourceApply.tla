-------------------------- MODULE MCEventSourceApply --------------------------
(* EventSourceApply on two documents, one of them disabled, and a third source that    *)
(* is live or not; the order document lists created, live and missing ones, or is one  *)
(* that does not validate.                                                             *)
EXTENDS EventSourceApply

MCManifests == {<<"a", "b">>, <<"a", "a">>}
MCFirsts == {<<"a", "b">>, <<"c">>, <<"a", "a">>, <<"z", "a">>}
MCLives == {<<"z">>, <<"c", "z">>, <<"b", "c", "a", "z">>, <<"a", "b", "c", "z">>}
=============================================================================
