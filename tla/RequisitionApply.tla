--------------------------- MODULE RequisitionApply ---------------------------
(***************************************************************************)
(* Applying `kind: Requisition` documents (onmsctl-provisioning/src/apply) *)
(* and applying them again.  The server keeps a pending and a deployed     *)
(* requisition and a foreign-source definition under one name; an import,  *)
(* which runs some time after its trigger was accepted, deploys what is    *)
(* pending and, when asked to, rescans what it already had.  A requisition *)
(* may be found with a draft: a pending one that was never imported, or a  *)
(* definition edited since the last rescan.  Requests may be served        *)
(* although their answer is lost, and other operators change requisitions. *)
(***************************************************************************)
EXTENDS Naturals, Sequences, FiniteSets

CONSTANTS
    Doc,        \* the documents, by their index in the input file
    Found,      \* what the server may hold for each: [pend, deployed, fs, scanned], the last
                \* being the definition its last rescan used
    Absent, NoFs, NotRead,
    MaxRuns,    \* how often the operator applies the file
    MaxOthers   \* how many requisitions other operators change, each once

\* The document's nodes; nodes that differ in what provisiond discovers; nodes that differ
\* in metadata only.  Every change of a definition matters to what is discovered.
Content == {"want", "other", "labels"}
Definition == {"want", "other"}

ASSUME RequisitionAssumption ==
    /\ Doc \subseteq 0..99
    /\ Absent \notin Content /\ NoFs \notin Definition /\ NotRead \notin Content \cup {Absent}
    /\ DOMAIN Found = Doc
    /\ \A r \in Doc :
          Found[r] \subseteq [pend : Content \cup {Absent}, deployed : Content \cup {Absent},
                              fs : Definition \cup {NoFs}, scanned : Definition \cup {NoFs}]
    /\ MaxRuns \in Nat \ {0} /\ MaxOthers \in Nat

VARIABLES
    docFs,      \* the foreign source each document declares, NoFs when it omits it
    found,      \* what the server held for each document at first
    pend, deployed, fsdef,
    imports,    \* the triggers accepted and not run yet: [doc, rescan]
    discovered, \* what the last rescan of each requisition was made of
    run, phase,
    readReq, readFs,    \* what the plan read
    results,    \* the documents execute_multi is done with, in that order
    step,       \* what the document being executed has to send next
    row,
    settled,    \* documents an earlier run reported as applied or in sync
    troubled,   \* documents a run reported Failed
    disturbed   \* requisitions another operator changed

input == <<docFs, found>>
server == <<pend, deployed, fsdef, imports, discovered>>
plan == <<readReq, readFs>>
history == <<run, settled, troubled>>
vars == <<input, server, history, phase, plan, results, step, row, disturbed>>

NotYet == "not yet"
Ok == {"Created", "Updated", "Unchanged"}

\* GET /requisitions/{fs} shows the pending requisition, if there is one.
Shown(r) == IF pend[r] # Absent THEN pend[r] ELSE deployed[r]

\* A rescan sees the nodes without their metadata, and the definition in force.
View(content) == IF content = "labels" THEN "want" ELSE content
Whole(r) == [nodes |-> "want", fs |-> docFs[r]]
Before(r) == [nodes |-> View(found[r].deployed), fs |-> found[r].scanned]

-----------------------------------------------------------------------------
\* Names of the form <definition>_<bug> are broken variants: slips the code could have
\* made, kept to show that the properties below would notice them.

\* classify_fs_action: an identical definition is not sent again.
FsAction_AlwaysSend(r) ==
    CASE docFs[r] # NoFs -> "post"
      [] docFs[r] = NoFs /\ readFs[r] # NoFs -> "delete"
      [] OTHER -> "none"
FsAction(r) ==
    CASE docFs[r] # NoFs /\ readFs[r] # docFs[r] -> "post"
      [] docFs[r] = NoFs /\ readFs[r] # NoFs -> "delete"
      [] OTHER -> "none"

Unchanged(r) == readReq[r] = "want" /\ FsAction(r) = "none"

\* rescanExisting: some changed leaf matters to what provisiond discovers.
Rescan_NodesOnly(r) == readReq[r] \in {"other", Absent}
Rescan(r) == FsAction(r) # "none" \/ readReq[r] \in {"other", Absent}

\* execute_plan: foreign source, requisition, import.
After_ImportFirst(sent) == IF sent = "fs" THEN "import" ELSE "end"
After(sent) ==
    CASE sent = "fs" -> "requisition" [] sent = "requisition" -> "import" [] OTHER -> "end"

Success(r) == IF readReq[r] = Absent THEN "Created" ELSE "Updated"

\* The document execute_multi works on: the next one of the input.
Reached(r) ==
    /\ \A i \in DOMAIN results : results[i] # r
    /\ \A q \in Doc : q < r => \E i \in DOMAIN results : results[i] = q

-----------------------------------------------------------------------------
(* The server. *)

\* An accepted import runs: it deploys what is pending and rescans if asked to.
RunImport(t) ==
    /\ t \in imports
    /\ imports' = imports \ {t}
    /\ deployed' = [deployed EXCEPT ![t.doc] = Shown(t.doc)]
    /\ discovered' = IF t.rescan \/ deployed[t.doc] = Absent
                     THEN [discovered EXCEPT ![t.doc] =
                              [nodes |-> View(Shown(t.doc)), fs |-> fsdef[t.doc]]]
                     ELSE discovered
    /\ UNCHANGED <<input, pend, fsdef, history, phase, plan, results, step, row, disturbed>>

\* Another operator edits a requisition or its definition, purges it, or imports it.
OtherOperator(r) ==
    /\ phase \in {"plan", "execute"}
    /\ r \notin disturbed /\ Cardinality(disturbed) < MaxOthers
    /\ disturbed' = disturbed \cup {r}
    /\ \/ /\ \E content \in Content \ {pend[r]} : pend' = [pend EXCEPT ![r] = content]
          /\ UNCHANGED <<deployed, fsdef, imports>>
       \/ /\ \E fs \in (Definition \cup {NoFs}) \ {fsdef[r]} : fsdef' = [fsdef EXCEPT ![r] = fs]
          /\ UNCHANGED <<pend, deployed, imports>>
       \/ /\ pend' = [pend EXCEPT ![r] = Absent] /\ deployed' = [deployed EXCEPT ![r] = Absent]
          /\ UNCHANGED <<fsdef, imports>>
       \/ /\ imports' = imports \cup {[doc |-> r, rescan |-> FALSE]}
          /\ UNCHANGED <<pend, deployed, fsdef>>
    /\ UNCHANGED <<input, discovered, history, phase, plan, results, step, row>>

-----------------------------------------------------------------------------
Init ==
    /\ docFs \in [Doc -> {"want", NoFs}]
    /\ found \in [Doc -> UNION {Found[r] : r \in Doc}] /\ \A r \in Doc : found[r] \in Found[r]
    /\ pend = [r \in Doc |-> found[r].pend]
    /\ deployed = [r \in Doc |-> found[r].deployed]
    /\ fsdef = [r \in Doc |-> found[r].fs]
    /\ imports = {}
    /\ discovered = [r \in Doc |-> Before(r)]
    /\ run = 1 /\ phase = "plan"
    /\ readReq = [r \in Doc |-> NotRead] /\ readFs = [r \in Doc |-> NotRead]
    /\ results = << >> /\ step = "idle"
    /\ row = [r \in Doc |-> NotYet]
    /\ settled = {} /\ troubled = {} /\ disturbed = {}

\* plan_parsed plans one document after the other.
Planning(r) ==
    /\ phase = "plan"
    /\ \A q \in Doc : q < r => readReq[q] # NotRead /\ readFs[q] # NotRead

\* The two reads of plan_requisition are concurrent.
ReadRequisition(r) ==
    /\ Planning(r) /\ readReq[r] = NotRead
    /\ readReq' = [readReq EXCEPT ![r] = Shown(r)]
    /\ UNCHANGED <<input, server, history, phase, readFs, results, step, row, disturbed>>

ReadForeignSource(r) ==
    /\ Planning(r) /\ readFs[r] = NotRead
    /\ readFs' = [readFs EXCEPT ![r] = fsdef[r]]
    /\ UNCHANGED <<input, server, history, phase, readReq, results, step, row, disturbed>>

\* A failed read refuses the apply.
EndPlan ==
    /\ phase = "plan"
    /\ \/ phase' = "done"
       \/ /\ \A r \in Doc : readReq[r] # NotRead /\ readFs[r] # NotRead
          /\ phase' = "execute"
    /\ UNCHANGED <<input, server, history, plan, results, step, row, disturbed>>

End(r, outcome) ==
    /\ row' = [row EXCEPT ![r] = outcome]
    /\ results' = Append(results, r)
    /\ step' = "idle"

Goto(next) == step' = next /\ UNCHANGED <<row, results>>

\* The next entry: nothing to send, or the first request.
Begin(r) ==
    /\ phase = "execute" /\ step = "idle" /\ Reached(r)
    /\ IF Unchanged(r) THEN End(r, "Unchanged")
       ELSE Goto(IF FsAction(r) = "none" THEN "requisition" ELSE "fs")
    /\ UNCHANGED <<input, server, history, phase, plan, disturbed>>

\* What a request leads to: an error ends the document, and the bucket goes on.
Answer(r, answered) ==
    IF ~answered THEN End(r, "Failed")
    ELSE IF After(step) = "end" THEN End(r, Success(r))
    ELSE Goto(After(step))

\* POST or DELETE of the foreign-source definition; there may be none left to delete.
SendForeignSource(r) ==
    /\ step = "fs" /\ Reached(r)
    /\ \E served, answered \in BOOLEAN :
          /\ answered => served
          /\ served /\ FsAction(r) = "delete" => fsdef[r] # NoFs
          /\ fsdef' = IF served THEN [fsdef EXCEPT ![r] = docFs[r]] ELSE fsdef
          /\ Answer(r, answered)
    /\ UNCHANGED <<input, pend, deployed, imports, discovered, history, phase, plan, disturbed>>

\* POST of the requisition, which replaces the pending one.
SendRequisition(r) ==
    /\ step = "requisition" /\ Reached(r)
    /\ \E served, answered \in BOOLEAN :
          /\ answered => served
          /\ pend' = IF served THEN [pend EXCEPT ![r] = "want"] ELSE pend
          /\ Answer(r, answered)
    /\ UNCHANGED <<input, deployed, fsdef, imports, discovered, history, phase, plan, disturbed>>

\* PUT of the import trigger.
TriggerImport(r) ==
    /\ step = "import" /\ Reached(r)
    /\ \E served, answered \in BOOLEAN :
          /\ answered => served
          /\ imports' = IF served THEN imports \cup {[doc |-> r, rescan |-> Rescan(r)]}
                        ELSE imports
          /\ Answer(r, answered)
    /\ UNCHANGED <<input, pend, deployed, fsdef, discovered, history, phase, plan, disturbed>>

Finish ==
    /\ phase = "execute" /\ Len(results) > 0 /\ \A r \in Doc : row[r] # NotYet
    /\ phase' = "done"
    /\ UNCHANGED <<input, server, history, plan, results, step, row, disturbed>>

\* The operator applies the same file again.
ApplyAgain ==
    /\ phase = "done" /\ run < MaxRuns
    /\ run' = run + 1
    /\ settled' = settled \cup {r \in Doc : row[r] \in Ok}
    /\ troubled' = troubled \cup {r \in Doc : row[r] = "Failed"}
    /\ phase' = "plan" /\ results' = << >>
    /\ readReq' = [r \in Doc |-> NotRead] /\ readFs' = [r \in Doc |-> NotRead]
    /\ row' = [r \in Doc |-> NotYet]
    /\ UNCHANGED <<input, server, step, disturbed>>

Next ==
    \/ EndPlan \/ Finish \/ ApplyAgain
    \/ \E r \in Doc :
          \/ ReadRequisition(r) \/ ReadForeignSource(r) \/ Begin(r)
          \/ SendForeignSource(r) \/ SendRequisition(r) \/ TriggerImport(r)
          \/ OtherOperator(r)
    \/ \E t \in imports : RunImport(t)

Spec == Init /\ [][Next]_vars

ImportWaits(r) == \E t \in imports : t.doc = r

-----------------------------------------------------------------------------
\* Type invariant of the applies of a file of Requisition documents.
TypeOK ==
    /\ docFs \in [Doc -> {"want", NoFs}]
    /\ \A r \in Doc : found[r] \in Found[r]
    /\ {pend, deployed} \subseteq [Doc -> Content \cup {Absent}]
    /\ fsdef \in [Doc -> Definition \cup {NoFs}]
    /\ imports \subseteq [doc : Doc, rescan : BOOLEAN]
    /\ discovered \in [Doc -> [nodes : Content \cup {Absent}, fs : Definition \cup {NoFs}]]
    /\ run \in 1..MaxRuns /\ phase \in {"plan", "execute", "done"}
    /\ readReq \in [Doc -> Content \cup {Absent, NotRead}]
    /\ readFs \in [Doc -> Definition \cup {NoFs, NotRead}]
    /\ \A i \in DOMAIN results : results[i] \in Doc
    /\ step \in {"idle", "fs", "requisition", "import"}
    /\ row \in [Doc -> Ok \cup {"Failed", NotYet}]
    /\ settled \subseteq Doc /\ troubled \subseteq Doc /\ disturbed \subseteq Doc

\* A row other than Failed means that the server holds the declared requisition and
\* the declared foreign source, also when an earlier run had stopped half way.
SuccessIsStored ==
    \A r \in Doc \ disturbed :
        row[r] \in Ok => Shown(r) = "want" /\ fsdef[r] = docFs[r]

\* The draft found equals the document, so that the plan, which compares with it, finds
\* nothing to do; nothing of it was imported (plan_requisition).
PassedOver(r) ==
    found[r].fs = docFs[r] /\ found[r].pend = "want" /\ found[r].deployed # "want"

\* The draft found differs from the document in metadata at most, so that the plan asks for
\* no rescan, but what was deployed, or the definition it was rescanned with, differs in more.
Hidden(r) ==
    /\ found[r].fs = docFs[r]
    /\ found[r].pend \in {"want", "labels"}
       \/ (found[r].pend = Absent /\ found[r].deployed \in {"want", "labels"})
    /\ found[r].deployed # Absent /\ Before(r) # Whole(r)

\* Created and Updated mean that the requisition is imported or about to be, also when an
\* earlier run had stopped half way and whatever draft was found.  When no earlier run failed,
\* Unchanged means it too, unless the draft found was the document itself; and the import
\* rescans where the change asks for it, unless a draft hid that change from the plan.
SuccessIsImported ==
    \A r \in Doc \ disturbed :
        /\ row[r] \in {"Created", "Updated"} => ImportWaits(r) \/ deployed[r] = "want"
        /\ row[r] \in Ok /\ r \notin troubled /\ ~PassedOver(r) =>
              /\ ImportWaits(r) \/ deployed[r] = "want"
              /\ Hidden(r) \/ ImportWaits(r) \/ discovered[r] = Whole(r)

\* A rescan never sees half a document, such as new nodes under the old detectors,
\* whichever request failed in between.
RescanSeesWholeDocument ==
    [][\A r \in Doc :
          discovered'[r] # discovered[r] /\ disturbed = {} => discovered'[r] = Whole(r)]_vars

\* Applying the same file again changes nothing: what an earlier run reported as
\* applied is reported in sync, and no request is sent for it.
ReapplyIsUnchanged ==
    \A r \in settled \ (troubled \cup disturbed) : row[r] \in {NotYet, "Unchanged"}

\* The state is well typed, and a success is one of both resources and, where the plan can
\* see that one is due, of their import.
RequisitionInv == TypeOK /\ SuccessIsStored /\ SuccessIsImported
=============================================================================
