---------------------------- MODULE MCGraphApply ----------------------------
(* GraphApply on two graphs; uploads found on the server may be unparseable or live   *)
(* in a container of another name.                                                    *)
EXTENDS GraphApply, TLC

CONSTANTS g1, g2

MCFound ==
    g1 :> [spec : {"other", "broken"}, box : {g1, OtherBox}]
    @@ g2 :> {[spec |-> "other", box |-> g2]}
MCFoundOne == g1 :> {[spec |-> "other", box |-> g1]}
=============================================================================
