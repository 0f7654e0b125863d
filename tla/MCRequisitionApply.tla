------------------------- MODULE MCRequisitionApply -------------------------
(* RequisitionApply on a requisition found with or without a draft, of its nodes or of *)
(* its definition, and one to be created, applied twice.                               *)
EXTENDS RequisitionApply, TLC

MCDoc == {1, 2}

MCFound ==
    LET All == [pend : Content \cup {Absent}, deployed : Content \cup {Absent},
                fs : Definition \cup {NoFs}, scanned : Definition \cup {NoFs}]
        Imported == {f \in All : f.pend = Absent /\ f.scanned = f.fs}
        NodesDrafted == {f \in All : f.fs = "want" /\ f.scanned = "want"}
        DefinitionDrafted == {f \in All : f.pend = Absent /\ f.deployed \in {"want", "labels"}}
    IN  1 :> (Imported \cup NodesDrafted \cup DefinitionDrafted)
        @@ 2 :> {[pend |-> Absent, deployed |-> Absent, fs |-> NoFs, scanned |-> NoFs]}
=============================================================================
