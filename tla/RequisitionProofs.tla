-------------------------- MODULE RequisitionProofs --------------------------
(***************************************************************************)
(* Applies of requisitions, for any documents, number of applies and acts  *)
(* of others: a success is stored and, save for what a draft kept from the *)
(* plan, imported, a rescan never sees half a document, and what was       *)
(* applied is found unchanged.  The argument follows one requisition that  *)
(* nobody else has changed: what the server holds and has discovered of    *)
(* it, before, between and after the requests of its document, and with an *)
(* import that is still to run.                                            *)
(***************************************************************************)
EXTENDS RequisitionApply, SequenceTheorems, TLAPS

Finding == [nodes : Content \cup {Absent}, fs : Definition \cup {NoFs}]

\* The types in full, as functions and a sequence.
Typed ==
    /\ TypeOK
    /\ pend \in [Doc -> Content \cup {Absent}] /\ deployed \in [Doc -> Content \cup {Absent}]
    /\ results \in Seq(Doc)

Ended(r) == \E i \in DOMAIN results : results[i] = r

\* The rows are those of the results, and what is executed was read.
Control ==
    /\ \A r \in Doc : row[r] # NotYet <=> Ended(r)
    /\ step # "idle" => phase = "execute" /\ \E r \in Doc : Reached(r)
    /\ phase = "plan" => results = << >>
    /\ phase = "execute" => \A r \in Doc : readReq[r] # NotRead /\ readFs[r] # NotRead

\* The step of a document, "idle" before and after.
StepOf(r) == IF Reached(r) THEN step ELSE "idle"

\* Only what differs is sent.
Needed(r) ==
    /\ StepOf(r) # "idle" => ~Unchanged(r)
    /\ StepOf(r) = "fs" => FsAction(r) # "none"

\* What was read is there until it is replaced.
Reads(r) ==
    /\ row[r] = NotYet /\ StepOf(r) \in {"idle", "fs", "requisition"} /\ readReq[r] # NotRead =>
          Shown(r) = readReq[r]
    /\ row[r] = NotYet /\ StepOf(r) \in {"idle", "fs"} /\ readFs[r] # NotRead =>
          fsdef[r] = readFs[r]

IsStored(r) == Shown(r) = "want" /\ fsdef[r] = docFs[r]

\* What was sent is there, and stays while an import waits and in later applies; what was
\* sent in this apply is imported too.
Sent(r) ==
    /\ StepOf(r) \in {"requisition", "import"} => fsdef[r] = docFs[r]
    /\ StepOf(r) = "import" => pend[r] = "want"
    /\ row[r] \in Ok \/ ImportWaits(r) \/ r \in settled => IsStored(r)
    /\ row[r] \in {"Created", "Updated"} => ImportWaits(r) \/ deployed[r] = "want"
    /\ r \in settled => row[r] \in {NotYet, "Unchanged"} /\ StepOf(r) = "idle"

\* Nothing was imported since the requisition was found, and nothing waits.
NotImported(r) ==
    /\ ~ImportWaits(r) /\ deployed[r] = found[r].deployed /\ discovered[r] = Before(r)

\* The requisition is as it was found, with its drafts.
Fresh(r) == NotImported(r) /\ pend[r] = found[r].pend /\ fsdef[r] = found[r].fs

ShownAtFirst(r) == IF found[r].pend # Absent THEN found[r].pend ELSE found[r].deployed

\* Save for what a draft kept from the plan, the document is imported, or will be, and no
\* import that waits can miss a rescan.
Applied(r) ==
    /\ IsStored(r)
    /\ PassedOver(r) \/ ImportWaits(r) \/ deployed[r] = "want"
    /\ PassedOver(r) \/ Hidden(r) \/
          /\ ImportWaits(r) \/ discovered[r] = Whole(r)
          /\ \A t \in imports :
                t.doc = r => t.rescan \/ deployed[r] = Absent \/ discovered[r] = Whole(r)

\* A requisition that no apply failed on is as it was found, or applied as a whole.
Imported(r) ==
    /\ row[r] = NotYet /\ StepOf(r) = "idle" => Fresh(r) \/ Applied(r)
    /\ StepOf(r) \in {"fs", "requisition", "import"} =>
          NotImported(r) /\ readReq[r] = ShownAtFirst(r) /\ readFs[r] = found[r].fs
    /\ row[r] \in Ok => Applied(r)

Good(r) ==
    /\ Needed(r)
    /\ r \notin disturbed => Reads(r) /\ Sent(r) /\ (r \notin troubled => Imported(r))

IInv == Typed /\ Control /\ \A r \in Doc : Good(r)

-----------------------------------------------------------------------------
(* What documents and plans are, the initial states, and what a step leaves alone. *)

USE DEF input

Steps == {"idle", "fs", "requisition", "import"}
Outcome == Ok \cup {"Failed"}

LEMMA Constants ==
    /\ NoFs # "want" /\ Absent \notin Content /\ NotRead \notin Content \cup {Absent}
    /\ \A q, r \in Doc : q < r \/ r < q \/ q = r
<1>1. \A q \in Doc : q \in 0..99
  BY RequisitionAssumption DEF RequisitionAssumption
<1>2. \A q, r \in 0..99 : q < r \/ r < q \/ q = r
  OBVIOUS
<1> QED BY <1>1, <1>2, RequisitionAssumption DEF RequisitionAssumption, Definition

\* The documents are executed one at a time.
LEMMA ReachedOnce ==
    ASSUME NEW q \in Doc, NEW r \in Doc, Reached(q), Reached(r) PROVE q = r
BY Constants DEF Reached

LEMMA FsFacts ==
    ASSUME Typed, NEW r \in Doc
    PROVE  /\ FsAction(r) \in {"post", "delete", "none"}
           /\ FsAction(r) = "none" <=> readFs[r] = docFs[r]
           /\ docFs[r] \in {"want", NoFs} /\ docFs[r] \in Definition \cup {NoFs}
           /\ Shown(r) \in Content \cup {Absent}
<1>1. docFs[r] \in {"want", NoFs}
  BY DEF Typed, TypeOK
<1> QED BY <1>1 DEF FsAction, Definition, Shown, Typed

\* What was found and what is declared stay.
LEMMA SameInput ==
    ASSUME NEW r \in Doc, UNCHANGED input
    PROVE  /\ PassedOver(r)' = PassedOver(r) /\ Hidden(r)' = Hidden(r) /\ Whole(r)' = Whole(r)
           /\ Before(r)' = Before(r) /\ ShownAtFirst(r)' = ShownAtFirst(r)
BY DEF PassedOver, Hidden, Whole, Before, View, ShownAtFirst

LEMMA InitIInv == Init => IInv
<1> SUFFICES ASSUME Init PROVE IInv
  OBVIOUS
<1> USE DEF Init
<1>0. \A r \in Doc : /\ found[r] \in Found[r]
                    /\ found[r] \in [pend : Content \cup {Absent}, deployed : Content \cup {Absent},
                                    fs : Definition \cup {NoFs}, scanned : Definition \cup {NoFs}]
  BY RequisitionAssumption DEF RequisitionAssumption
<1>1. /\ pend \in [Doc -> Content \cup {Absent}] /\ deployed \in [Doc -> Content \cup {Absent}]
      /\ fsdef \in [Doc -> Definition \cup {NoFs}] /\ results \in Seq(Doc)
  BY <1>0
<1>2. discovered \in [Doc -> Finding]
  <2>1. \A r \in Doc : Before(r) \in Finding
    BY <1>0 DEF Before, Finding, View, Content
  <2> QED BY <2>1
<1>3. 1 \in 1..MaxRuns
  BY RequisitionAssumption DEF RequisitionAssumption
<1>4. Typed
  <2>1. /\ row \in [Doc -> Ok \cup {"Failed", NotYet}]
        /\ readReq \in [Doc -> Content \cup {Absent, NotRead}]
        /\ readFs \in [Doc -> Definition \cup {NoFs, NotRead}]
    OBVIOUS
  <2>2. /\ imports \subseteq [doc : Doc, rescan : BOOLEAN] /\ step \in {"idle"}
        /\ \A i \in DOMAIN results : results[i] \in Doc
    OBVIOUS
  <2> QED BY <1>0, <1>1, <1>2, <1>3, <2>1, <2>2 DEF Typed, TypeOK, Finding
<1>5. Control
  <2>1. DOMAIN results = {}
    OBVIOUS
  <2>2. \A r \in Doc : row[r] = NotYet
    OBVIOUS
  <2> QED BY <2>1, <2>2 DEF Control, Ended
<1>6. ASSUME NEW r \in Doc PROVE Good(r)
  <2>1. StepOf(r) = "idle" /\ row[r] = NotYet /\ ~ImportWaits(r)
    BY DEF StepOf, ImportWaits
  <2>2. Needed(r) /\ Reads(r) /\ Sent(r)
    BY <2>1 DEF Needed, Reads, Sent, Ok, NotYet
  <2>3. Imported(r)
    BY <2>1 DEF Imported, Fresh, NotImported, Ok, NotYet
  <2> QED BY <2>2, <2>3 DEF Good
<1> QED BY <1>4, <1>5, <1>6 DEF IInv

\* What is known of a requisition that a step leaves alone stays known.
LEMMA Frame ==
    ASSUME NEW r \in Doc, Good(r), UNCHANGED input, row'[r] = row[r], StepOf(r)' = StepOf(r),
           readReq'[r] = readReq[r], readFs'[r] = readFs[r],
           r \in settled' <=> r \in settled, r \in troubled => r \in troubled',
           r \notin disturbed' =>
               /\ r \notin disturbed /\ pend'[r] = pend[r] /\ deployed'[r] = deployed[r]
               /\ fsdef'[r] = fsdef[r] /\ discovered'[r] = discovered[r]
               /\ \A t \in imports \cup imports' : t.doc = r => (t \in imports' <=> t \in imports)
    PROVE  Good(r)'
<1>1. FsAction(r)' = FsAction(r) /\ Unchanged(r)' = Unchanged(r)
  BY DEF FsAction, Unchanged
<1>2. Needed(r)'
  BY <1>1 DEF Good, Needed
<1>3. ASSUME r \notin disturbed' PROVE Reads(r)' /\ Sent(r)' /\ (r \notin troubled' => Imported(r)')
  <2>1. Shown(r)' = Shown(r) /\ ImportWaits(r)' = ImportWaits(r) /\ IsStored(r)' = IsStored(r)
    BY <1>3 DEF Shown, ImportWaits, IsStored
  <2>2. Reads(r)' /\ Sent(r)'
    BY <1>3, <2>1 DEF Good, Reads, Sent
  <2>3. NotImported(r)' = NotImported(r) /\ Fresh(r)' = Fresh(r)
    BY <1>3, <2>1, SameInput DEF Fresh, NotImported
  <2>4. Applied(r) => Applied(r)'
    BY <1>3, <2>1, SameInput DEF Applied
  <2>5. r \notin troubled' => Imported(r)'
    BY <1>3, <2>1, <2>3, <2>4, SameInput DEF Good, Imported
  <2> QED BY <2>2, <2>5
<1> QED BY <1>2, <1>3 DEF Good

\* A step that changes the phase only.
LEMMA QuietStep ==
    ASSUME IInv, UNCHANGED <<input, server, history, plan, results, step, row, disturbed>>,
           phase' \in {"plan", "execute", "done"}, Control'
    PROVE  IInv'
<1> USE DEF server, history, plan
<1>1. Typed'
  BY DEF IInv, Typed, TypeOK
<1>2. ASSUME NEW r \in Doc PROVE Good(r)'
  <2>1. StepOf(r)' = StepOf(r)
    BY DEF StepOf, Reached
  <2> QED BY <2>1, Frame DEF IInv
<1> QED BY <1>1, <1>2 DEF IInv

LEMMA PhaseIInv == ASSUME IInv, EndPlan \/ Finish \/ UNCHANGED vars PROVE IInv'
<1>1. CASE EndPlan
  <2>1. Control'
    BY <1>1 DEF EndPlan, plan, IInv, Control, Ended, Reached
  <2> QED BY <1>1, <2>1, QuietStep DEF EndPlan
<1>2. CASE Finish
  <2>1. \A r \in Doc : ~Reached(r)
    BY <1>2 DEF Finish, IInv, Control, Ended, Reached
  <2>2. step = "idle"
    BY <2>1 DEF IInv, Control
  <2>3. Control'
    BY <1>2, <2>2 DEF Finish, plan, IInv, Control, Ended
  <2> QED BY <1>2, <2>3, QuietStep DEF Finish
<1>3. CASE UNCHANGED vars
  <2>1. UNCHANGED <<input, server, history, phase, plan, results, step, row, disturbed>>
    BY <1>3 DEF vars
  <2>2. Control' /\ phase' \in {"plan", "execute", "done"}
    BY <2>1 DEF plan, IInv, Typed, TypeOK, Control, Ended, Reached
  <2> QED BY <2>1, <2>2, QuietStep
<1> QED BY <1>1, <1>2, <1>3

LEMMA ApplyAgainIInv == ASSUME IInv, ApplyAgain PROVE IInv'
<1>1. /\ phase = "done" /\ run < MaxRuns /\ run' = run + 1
      /\ settled' = settled \cup {r \in Doc : row[r] \in Ok}
      /\ troubled' = troubled \cup {r \in Doc : row[r] = "Failed"}
      /\ phase' = "plan" /\ results' = << >>
      /\ readReq' = [r \in Doc |-> NotRead] /\ readFs' = [r \in Doc |-> NotRead]
      /\ row' = [r \in Doc |-> NotYet]
      /\ UNCHANGED <<input, pend, deployed, fsdef, imports, discovered, step, disturbed>>
  BY DEF ApplyAgain, server
<1>2. step = "idle"
  BY <1>1 DEF IInv, Control
<1>3. run' \in 1..MaxRuns
  BY <1>1, RequisitionAssumption DEF RequisitionAssumption, IInv, Typed, TypeOK
<1>4. Typed'
  <2>1. results' \in Seq(Doc)
    BY <1>1
  <2>2. /\ row' \in [Doc -> Ok \cup {"Failed", NotYet}]
        /\ readReq' \in [Doc -> Content \cup {Absent, NotRead}]
        /\ readFs' \in [Doc -> Definition \cup {NoFs, NotRead}]
        /\ settled' \subseteq Doc /\ troubled' \subseteq Doc
    BY <1>1 DEF IInv, Typed, TypeOK
  <2>3. \A i \in DOMAIN results' : results'[i] \in Doc
    BY <1>1
  <2>4. TypeOK'
    BY <1>1, <1>3, <2>2, <2>3 DEF IInv, Typed, TypeOK
  <2> QED BY <1>1, <2>1, <2>4 DEF IInv, Typed
<1>5. Control'
  <2>1. DOMAIN results' = {}
    BY <1>1
  <2>2. \A r \in Doc : row'[r] = NotYet
    BY <1>1
  <2> QED BY <1>1, <1>2, <2>1, <2>2 DEF Control, Ended
<1>6. ASSUME NEW r \in Doc PROVE Good(r)'
  <2>1. /\ StepOf(r)' = "idle" /\ StepOf(r) = "idle" /\ row'[r] = NotYet /\ readReq'[r] = NotRead
        /\ readFs'[r] = NotRead /\ Good(r) /\ row[r] \in Ok \cup {"Failed", NotYet}
    BY <1>1, <1>2 DEF StepOf, IInv, Typed, TypeOK
  <2>2. Shown(r)' = Shown(r) /\ ImportWaits(r)' = ImportWaits(r) /\ IsStored(r)' = IsStored(r)
        /\ Fresh(r)' = Fresh(r)
    BY <1>1, SameInput DEF Shown, ImportWaits, IsStored, Fresh, NotImported
  <2>3. Applied(r)' = Applied(r)
    BY <1>1, <2>2, SameInput DEF Applied
  <2>4. Needed(r)' /\ Reads(r)'
    BY <2>1 DEF Needed, Reads
  <2>5. r \notin disturbed => Sent(r)'
    BY <1>1, <2>1, <2>2 DEF Good, Sent, Ok, NotYet
  <2>6. r \notin disturbed /\ r \notin troubled' => Imported(r)'
    BY <1>1, <2>1, <2>2, <2>3 DEF Good, Imported, Ok, NotYet
  <2> QED BY <1>1, <2>4, <2>5, <2>6 DEF Good
<1> QED BY <1>4, <1>5, <1>6 DEF IInv

LEMMA ReadsIInv ==
    ASSUME IInv, NEW r \in Doc, ReadRequisition(r) \/ ReadForeignSource(r) PROVE IInv'
<1>1. /\ phase = "plan" /\ step = "idle"
      /\ UNCHANGED <<input, pend, deployed, fsdef, imports, discovered, run, settled, troubled,
                     phase, results, step, row, disturbed>>
      /\ \/ readReq' = [readReq EXCEPT ![r] = Shown(r)] /\ readFs' = readFs
         \/ readFs' = [readFs EXCEPT ![r] = fsdef[r]] /\ readReq' = readReq
  BY DEF ReadRequisition, ReadForeignSource, Planning, server, history, IInv, Control
<1>2. /\ readReq' \in [Doc -> Content \cup {Absent, NotRead}]
      /\ readFs' \in [Doc -> Definition \cup {NoFs, NotRead}]
      /\ readReq'[r] \in {readReq[r], Shown(r)} /\ readFs'[r] \in {readFs[r], fsdef[r]}
      /\ \A q \in Doc \ {r} : readReq'[q] = readReq[q] /\ readFs'[q] = readFs[q]
  BY <1>1, FsFacts DEF IInv, Typed, TypeOK
<1>3. Typed' /\ Control'
  BY <1>1, <1>2 DEF IInv, Typed, TypeOK, Control, Ended
<1>4. \A q \in Doc : StepOf(q)' = "idle" /\ StepOf(q) = "idle"
  BY <1>1 DEF StepOf
<1>5. ASSUME NEW q \in Doc, q # r PROVE Good(q)'
  BY <1>1, <1>2, <1>4, <1>5, Frame DEF IInv
<1>6. Good(r)'
  <2>1. Shown(r)' = Shown(r) /\ ImportWaits(r)' = ImportWaits(r) /\ IsStored(r)' = IsStored(r)
        /\ Fresh(r)' = Fresh(r) /\ Good(r)
    BY <1>1, SameInput DEF Shown, ImportWaits, IsStored, Fresh, NotImported, IInv
  <2>2. Applied(r)' = Applied(r)
    BY <1>1, <2>1, SameInput DEF Applied
  <2>3. Needed(r)'
    BY <1>4 DEF Needed
  <2>4. r \notin disturbed => Reads(r)'
    BY <1>1, <1>2, <1>4, <2>1 DEF Good, Reads
  <2>5. r \notin disturbed => Sent(r)'
    BY <1>1, <1>4, <2>1 DEF Good, Sent
  <2>6. r \notin disturbed /\ r \notin troubled => Imported(r)'
    BY <1>1, <1>4, <2>1, <2>2 DEF Good, Imported
  <2> QED BY <1>1, <2>3, <2>4, <2>5, <2>6 DEF Good
<1> QED BY <1>3, <1>5, <1>6 DEF IInv

-----------------------------------------------------------------------------
(* What a step on one requisition changes, on the operator's side and on the server's. *)

ClientStep(r) ==
    /\ row' \in [Doc -> Outcome \cup {NotYet}] /\ results' \in Seq(Doc) /\ step' \in Steps
    /\ Control'
    /\ \A q \in Doc \ {r} : row'[q] = row[q] /\ StepOf(q)' = StepOf(q)

ServerStep(r) ==
    /\ pend' \in [Doc -> Content \cup {Absent}] /\ deployed' \in [Doc -> Content \cup {Absent}]
    /\ fsdef' \in [Doc -> Definition \cup {NoFs}] /\ discovered' \in [Doc -> Finding]
    /\ imports' \subseteq [doc : Doc, rescan : BOOLEAN]
    /\ \A q \in Doc \ {r} :
          /\ pend'[q] = pend[q] /\ deployed'[q] = deployed[q]
          /\ fsdef'[q] = fsdef[q] /\ discovered'[q] = discovered[q]
          /\ \A t \in imports \cup imports' : t.doc = q => (t \in imports' <=> t \in imports)

\* The other documents stay as good as they were.
LEMMA DocStep ==
    ASSUME IInv, NEW r \in Doc, ClientStep(r), ServerStep(r), Good(r)',
           disturbed' \in {disturbed, disturbed \cup {r}},
           UNCHANGED <<input, history, phase, plan>>
    PROVE  IInv'
<1> USE DEF history, plan
<1>1. \A i \in DOMAIN results' : results'[i] \in Doc
  BY DEF ClientStep
<1>2. Typed'
  BY <1>1 DEF IInv, Typed, TypeOK, ClientStep, ServerStep, Finding, Steps, Outcome
<1>3. ASSUME NEW q \in Doc, q # r PROVE Good(q)'
  <2>1. Good(q) /\ row'[q] = row[q] /\ StepOf(q)' = StepOf(q)
    BY <1>3 DEF IInv, ClientStep
  <2>2. /\ pend'[q] = pend[q] /\ deployed'[q] = deployed[q]
        /\ fsdef'[q] = fsdef[q] /\ discovered'[q] = discovered[q]
        /\ \A t \in imports \cup imports' : t.doc = q => (t \in imports' <=> t \in imports)
        /\ q \in disturbed <=> q \in disturbed'
    BY <1>3 DEF ServerStep
  <2> QED BY <2>1, <2>2, Frame
<1> QED BY <1>2, <1>3 DEF IInv, ClientStep

LEMMA SameClient ==
    ASSUME IInv, NEW r \in Doc, UNCHANGED <<phase, plan, results, step, row>>
    PROVE  ClientStep(r) /\ StepOf(r)' = StepOf(r)
<1> USE DEF plan
<1>1. \A q \in Doc : (Reached(q)' <=> Reached(q)) /\ (Ended(q)' <=> Ended(q))
  BY DEF Reached, Ended
<1>2. Control'
  BY <1>1 DEF IInv, Control
<1> QED BY <1>1, <1>2 DEF ClientStep, StepOf, IInv, Typed, TypeOK, Outcome, Steps

LEMMA SameServer ==
    ASSUME IInv, NEW r \in Doc, UNCHANGED server PROVE ServerStep(r)
BY DEF ServerStep, server, IInv, Typed, TypeOK, Finding

\* The document being executed has no row yet, and was read.
LEMMA Executing ==
    ASSUME IInv, NEW r \in Doc, Reached(r), phase = "execute" \/ step # "idle"
    PROVE  /\ phase = "execute" /\ row[r] = NotYet /\ StepOf(r) = step
           /\ readReq[r] \in Content \cup {Absent} /\ readFs[r] \in Definition \cup {NoFs}
           /\ readReq[r] # NotRead /\ readFs[r] # NotRead
           /\ Good(r)
<1>1. phase = "execute" /\ ~Ended(r)
  BY DEF IInv, Control, Reached, Ended
<1>2. readReq[r] # NotRead /\ readFs[r] # NotRead /\ row[r] = NotYet
  BY <1>1 DEF IInv, Control
<1> QED BY <1>1, <1>2 DEF IInv, Typed, TypeOK, StepOf

\* A document's end.
LEMMA EndShape ==
    ASSUME IInv, NEW r \in Doc, Reached(r), phase = "execute", UNCHANGED <<phase, plan>>,
           NEW outcome \in Outcome, End(r, outcome)
    PROVE  ClientStep(r) /\ row'[r] = outcome /\ StepOf(r)' = "idle"
<1> USE DEF plan
<1>1. results \in Seq(Doc) /\ results' = Append(results, r) /\ step' = "idle"
  BY DEF IInv, Typed, End
<1>2. row' \in [Doc -> Outcome \cup {NotYet}] /\ row'[r] = outcome
      /\ \A q \in Doc \ {r} : row'[q] = row[q]
  BY DEF IInv, Typed, TypeOK, End, Outcome
<1>3. results' \in Seq(Doc) /\ \A q \in Doc : Ended(q)' <=> Ended(q) \/ q = r
  BY <1>1 DEF Ended
<1>4. outcome # NotYet
  BY DEF Outcome, Ok, NotYet
<1>5. Control'
  BY <1>1, <1>2, <1>3, <1>4 DEF IInv, Control
<1>6. \A q \in Doc : StepOf(q)' = "idle"
  BY <1>1 DEF StepOf
<1>7. ASSUME NEW q \in Doc, q # r PROVE StepOf(q) = "idle"
  BY <1>7, ReachedOnce DEF StepOf
<1> QED BY <1>1, <1>2, <1>3, <1>5, <1>6, <1>7 DEF ClientStep, Steps

\* Going on to the next request.
LEMMA GotoShape ==
    ASSUME IInv, NEW r \in Doc, Reached(r), phase = "execute", UNCHANGED <<phase, plan>>,
           NEW next \in Steps, Goto(next)
    PROVE  ClientStep(r) /\ row'[r] = row[r] /\ StepOf(r)' = next
<1> USE DEF plan, Goto
<1>1. \A q \in Doc : (Reached(q)' <=> Reached(q)) /\ (Ended(q)' <=> Ended(q))
  BY DEF Reached, Ended
<1>2. Control'
  BY <1>1 DEF IInv, Control
<1>3. ASSUME NEW q \in Doc, q # r PROVE StepOf(q)' = "idle" /\ StepOf(q) = "idle"
  BY <1>1, <1>3, ReachedOnce DEF StepOf
<1> QED BY <1>1, <1>2, <1>3 DEF ClientStep, StepOf, IInv, Typed, TypeOK, Outcome

\* A request that fails ends the document; what waits was stored, and still is.
LEMMA FailureIsGood ==
    ASSUME NEW r \in Doc, Good(r), StepOf(r) # "idle", StepOf(r)' = "idle", row'[r] = "Failed",
           disturbed' = disturbed, settled' = settled,
           r \notin disturbed /\ ImportWaits(r)' => IsStored(r)'
    PROVE  Good(r)'
BY DEF Good, Needed, Reads, Sent, Imported, Ok, NotYet

-----------------------------------------------------------------------------
(* The operator's steps. *)

LEMMA BeginIInv == ASSUME IInv, NEW r \in Doc, Begin(r) PROVE IInv'
<1>1. /\ phase = "execute" /\ step = "idle" /\ Reached(r)
      /\ UNCHANGED <<input, server, history, phase, plan, disturbed>>
  BY DEF Begin
<1>2. /\ row[r] = NotYet /\ StepOf(r) = "idle" /\ Good(r)
      /\ readReq[r] # NotRead /\ readFs[r] # NotRead
  BY <1>1, Executing
<1>3. ServerStep(r)
  BY <1>1, SameServer
<1>4. /\ Shown(r)' = Shown(r) /\ ImportWaits(r)' = ImportWaits(r) /\ IsStored(r)' = IsStored(r)
      /\ FsAction(r)' = FsAction(r) /\ Unchanged(r)' = Unchanged(r)
  BY <1>1 DEF server, plan, Shown, ImportWaits, IsStored, FsAction, Unchanged
<1>5. Applied(r)' = Applied(r)
  BY <1>1, <1>4, SameInput DEF server, Applied
<1>6. r \notin disturbed => /\ Shown(r) = readReq[r] /\ fsdef[r] = readFs[r]
                            /\ Sent(r) /\ (r \notin troubled => Fresh(r) \/ Applied(r))
  BY <1>2 DEF Good, Reads, Imported
<1>7. FsAction(r) = "none" <=> readFs[r] = docFs[r]
  BY FsFacts DEF IInv
<1>8. r \notin disturbed => (Unchanged(r) <=> IsStored(r))
  BY <1>6, <1>7 DEF Unchanged, IsStored
<1>9. CASE Unchanged(r)
  <2>1. End(r, "Unchanged") /\ "Unchanged" \in Outcome
    BY <1>9 DEF Begin, Outcome, Ok
  <2>2. ClientStep(r) /\ row'[r] = "Unchanged" /\ StepOf(r)' = "idle"
    BY <1>1, <2>1, EndShape
  \* Of a requisition as it was found, a draft is all that can keep it from being imported.
  <2>3. Fresh(r) /\ IsStored(r) => Applied(r)
    BY Constants DEF Fresh, NotImported, IsStored, Shown, Applied, ImportWaits, PassedOver,
       Hidden, Content
  <2>4. r \notin disturbed => Reads(r)' /\ Sent(r)'
    BY <1>9, <1>1, <1>4, <1>6, <1>8, <2>2 DEF Reads, Sent, NotYet, history
  <2>5. r \notin disturbed /\ r \notin troubled => Imported(r)'
    BY <1>9, <1>5, <1>6, <1>8, <2>2, <2>3 DEF Imported, NotYet
  <2>6. Good(r)'
    BY <1>1, <2>2, <2>4, <2>5 DEF Good, Needed, history
  <2> QED BY <1>1, <1>3, <2>2, <2>6, DocStep
<1>10. CASE ~Unchanged(r)
  <2>1. PICK next \in {"fs", "requisition"} :
           Goto(next) /\ (next = "fs" <=> FsAction(r) # "none")
    BY <1>10 DEF Begin
  <2>2. ClientStep(r) /\ row'[r] = NotYet /\ StepOf(r)' = next
    BY <1>1, <1>2, <2>1, GotoShape DEF Steps
  <2>3. Needed(r)'
    BY <1>4, <1>10, <2>1, <2>2 DEF Needed
  <2>4. r \notin disturbed => Reads(r)'
    BY <1>1, <1>4, <1>6 DEF Reads, plan, server
  <2>5. r \notin disturbed => Sent(r)'
    BY <1>1, <1>2, <1>4, <1>6, <1>7, <1>8, <1>10, <2>1, <2>2
       DEF Sent, server, history, Ok, NotYet
  <2>6. r \notin disturbed /\ r \notin troubled => Fresh(r)
    BY <1>6, <1>8, <1>10 DEF Applied
  <2>7. r \notin disturbed /\ r \notin troubled => Imported(r)'
    <3>1. Fresh(r) => Shown(r) = ShownAtFirst(r)
      BY DEF Fresh, NotImported, Shown, ShownAtFirst
    <3> QED BY <1>1, <1>4, <1>6, <2>1, <2>2, <2>6, <3>1, SameInput
            DEF Imported, Fresh, NotImported, server, plan, Ok, NotYet
  <2>8. Good(r)'
    BY <1>1, <2>3, <2>4, <2>5, <2>7 DEF Good, history
  <2> QED BY <1>1, <1>3, <2>2, <2>8, DocStep
<1> QED BY <1>9, <1>10

LEMMA SendForeignSourceIInv == ASSUME IInv, NEW r \in Doc, SendForeignSource(r) PROVE IInv'
<1>1. /\ step = "fs" /\ Reached(r)
      /\ UNCHANGED <<input, pend, deployed, imports, discovered, history, phase, plan, disturbed>>
  BY DEF SendForeignSource
<1>2. PICK served \in BOOLEAN, answered \in BOOLEAN :
         /\ answered => served
         /\ fsdef' = IF served THEN [fsdef EXCEPT ![r] = docFs[r]] ELSE fsdef
         /\ Answer(r, answered)
  BY DEF SendForeignSource
<1>3. /\ phase = "execute" /\ row[r] = NotYet /\ StepOf(r) = "fs" /\ Good(r)
  BY <1>1, Executing
<1>4. /\ fsdef' \in [Doc -> Definition \cup {NoFs}]
      /\ fsdef'[r] \in {fsdef[r], docFs[r]} /\ (answered => fsdef'[r] = docFs[r])
      /\ \A q \in Doc \ {r} : fsdef'[q] = fsdef[q]
  BY <1>2, FsFacts DEF IInv, Typed, TypeOK
<1>5. ServerStep(r)
  BY <1>1, <1>4 DEF ServerStep, IInv, Typed, TypeOK, Finding
<1>6. /\ Shown(r)' = Shown(r) /\ ImportWaits(r)' = ImportWaits(r) /\ Unchanged(r)' = Unchanged(r)
      /\ IsStored(r) => IsStored(r)'
  BY <1>1, <1>4 DEF plan, Shown, ImportWaits, IsStored, FsAction, Unchanged
<1>7. r \notin disturbed => Reads(r) /\ Sent(r) /\ (r \notin troubled => Imported(r))
  BY <1>3 DEF Good
<1>8. CASE ~answered
  <2>1. End(r, "Failed") /\ "Failed" \in Outcome
    BY <1>2, <1>8 DEF Answer, Outcome
  <2>2. ClientStep(r) /\ row'[r] = "Failed" /\ StepOf(r)' = "idle"
    BY <1>1, <1>3, <2>1, EndShape
  <2>3. Good(r)'
    BY <1>1, <1>3, <1>6, <1>7, <2>2, FailureIsGood DEF Sent, history
  <2> QED BY <1>1, <1>5, <2>2, <2>3, DocStep
<1>9. CASE answered
  <2>1. Goto("requisition") /\ "requisition" \in Steps
    BY <1>1, <1>2, <1>9 DEF Answer, After, Steps
  <2>2. ClientStep(r) /\ row'[r] = NotYet /\ StepOf(r)' = "requisition"
    BY <1>1, <1>3, <2>1, GotoShape
  <2>3. Needed(r)'
    BY <1>3, <1>6, <2>2 DEF Good, Needed
  <2>4. r \notin disturbed => Reads(r)'
    BY <1>1, <1>3, <1>6, <1>7, <2>2 DEF Reads, plan
  <2>5. r \notin disturbed => Sent(r)'
    BY <1>1, <1>3, <1>4, <1>6, <1>7, <1>9, <2>2 DEF Sent, history, Ok, NotYet
  <2>6. r \notin disturbed /\ r \notin troubled => Imported(r)'
    BY <1>1, <1>3, <1>6, <1>7, <2>2, SameInput DEF Imported, NotImported, plan, Ok, NotYet
  <2>7. Good(r)'
    BY <1>1, <2>3, <2>4, <2>5, <2>6 DEF Good, history
  <2> QED BY <1>1, <1>5, <2>2, <2>7, DocStep
<1> QED BY <1>8, <1>9

LEMMA SendRequisitionIInv == ASSUME IInv, NEW r \in Doc, SendRequisition(r) PROVE IInv'
<1>1. /\ step = "requisition" /\ Reached(r)
      /\ UNCHANGED <<input, deployed, fsdef, imports, discovered, history, phase, plan, disturbed>>
  BY DEF SendRequisition
<1>2. PICK served \in BOOLEAN, answered \in BOOLEAN :
         /\ answered => served
         /\ pend' = IF served THEN [pend EXCEPT ![r] = "want"] ELSE pend
         /\ Answer(r, answered)
  BY DEF SendRequisition
<1>3. phase = "execute" /\ row[r] = NotYet /\ StepOf(r) = "requisition" /\ Good(r)
  BY <1>1, Executing
<1>4. /\ pend' \in [Doc -> Content \cup {Absent}]
      /\ pend'[r] \in {pend[r], "want"} /\ (answered => pend'[r] = "want")
      /\ \A q \in Doc \ {r} : pend'[q] = pend[q]
  BY <1>2 DEF IInv, Typed, Content
<1>5. ServerStep(r)
  BY <1>1, <1>4 DEF ServerStep, IInv, Typed, TypeOK, Finding
<1>6. /\ ImportWaits(r)' = ImportWaits(r) /\ Unchanged(r)' = Unchanged(r)
      /\ IsStored(r) => IsStored(r)'
  BY <1>1, <1>4, Constants DEF plan, Shown, ImportWaits, IsStored, FsAction, Unchanged, Content
<1>7. r \notin disturbed => Reads(r) /\ Sent(r) /\ (r \notin troubled => Imported(r))
  BY <1>3 DEF Good
<1>8. CASE ~answered
  <2>1. End(r, "Failed") /\ "Failed" \in Outcome
    BY <1>2, <1>8 DEF Answer, Outcome
  <2>2. ClientStep(r) /\ row'[r] = "Failed" /\ StepOf(r)' = "idle"
    BY <1>1, <1>3, <2>1, EndShape
  <2>3. Good(r)'
    BY <1>1, <1>3, <1>6, <1>7, <2>2, FailureIsGood DEF Sent, history
  <2> QED BY <1>1, <1>5, <2>2, <2>3, DocStep
<1>9. CASE answered
  <2>1. Goto("import") /\ "import" \in Steps
    BY <1>1, <1>2, <1>9 DEF Answer, After, Steps
  <2>2. ClientStep(r) /\ row'[r] = NotYet /\ StepOf(r)' = "import"
    BY <1>1, <1>3, <2>1, GotoShape
  <2>3. Needed(r)'
    BY <1>3, <1>6, <2>2 DEF Good, Needed
  <2>4. r \notin disturbed => Reads(r)'
    BY <2>2 DEF Reads
  <2>5. r \notin disturbed => Sent(r)'
    BY <1>1, <1>3, <1>4, <1>6, <1>7, <1>9, <2>2 DEF Sent, history, Ok, NotYet
  <2>6. r \notin disturbed /\ r \notin troubled => Imported(r)'
    BY <1>1, <1>3, <1>6, <1>7, <2>2, SameInput DEF Imported, NotImported, plan, Ok, NotYet
  <2>7. Good(r)'
    BY <1>1, <2>3, <2>4, <2>5, <2>6 DEF Good, history
  <2> QED BY <1>1, <1>5, <2>2, <2>7, DocStep
<1> QED BY <1>8, <1>9

LEMMA TriggerImportIInv == ASSUME IInv, NEW r \in Doc, TriggerImport(r) PROVE IInv'
<1>1. /\ step = "import" /\ Reached(r)
      /\ UNCHANGED <<input, pend, deployed, fsdef, discovered, history, phase, plan, disturbed>>
  BY DEF TriggerImport
<1>2. PICK served \in BOOLEAN, answered \in BOOLEAN :
         /\ answered => served
         /\ imports' = IF served THEN imports \cup {[doc |-> r, rescan |-> Rescan(r)]} ELSE imports
         /\ Answer(r, answered)
  BY DEF TriggerImport
<1>3. phase = "execute" /\ row[r] = NotYet /\ StepOf(r) = "import" /\ Good(r)
  BY <1>1, Executing
<1>4. /\ imports' \subseteq [doc : Doc, rescan : BOOLEAN]
      /\ \A t \in imports' : t \in imports \/ (t.doc = r /\ t.rescan = Rescan(r))
      /\ imports \subseteq imports'
      /\ answered => [doc |-> r, rescan |-> Rescan(r)] \in imports'
  <2>1. Rescan(r) \in BOOLEAN
    BY DEF Rescan
  <2> QED BY <1>2, <2>1 DEF IInv, Typed, TypeOK
<1>5. ServerStep(r)
  <2>1. \A q \in Doc \ {r} : \A t \in imports \cup imports' :
           t.doc = q => (t \in imports' <=> t \in imports)
    BY <1>4
  <2> QED BY <1>1, <1>4, <2>1 DEF ServerStep, IInv, Typed, TypeOK, Finding
<1>6. /\ Shown(r)' = Shown(r)
      /\ IsStored(r)' = IsStored(r) /\ Unchanged(r)' = Unchanged(r)
  BY <1>1 DEF plan, Shown, IsStored, FsAction, Unchanged
<1>7. r \notin disturbed => Sent(r) /\ IsStored(r) /\ (r \notin troubled => Imported(r))
  BY <1>3, Constants DEF Good, Sent, IsStored, Shown, Content
<1>8. CASE ~answered
  <2>1. End(r, "Failed") /\ "Failed" \in Outcome
    BY <1>2, <1>8 DEF Answer, Outcome
  <2>2. ClientStep(r) /\ row'[r] = "Failed" /\ StepOf(r)' = "idle"
    BY <1>1, <1>3, <2>1, EndShape
  <2>3. Good(r)'
    BY <1>1, <1>3, <1>6, <1>7, <2>2, FailureIsGood DEF history
  <2> QED BY <1>1, <1>5, <2>2, <2>3, DocStep
<1>9. CASE answered
  <2>1. End(r, Success(r)) /\ Success(r) \in Outcome /\ Success(r) \in Ok
    BY <1>1, <1>2, <1>9 DEF Answer, After, Outcome, Success, Ok
  <2>2. ClientStep(r) /\ row'[r] \in Ok /\ row'[r] # NotYet /\ StepOf(r)' = "idle"
    BY <1>1, <1>3, <2>1, EndShape DEF Ok, NotYet
  <2>3. ImportWaits(r)'
    BY <1>4, <1>9 DEF ImportWaits
  <2>4. r \notin disturbed => Reads(r)' /\ Sent(r)'
    BY <1>1, <1>3, <1>6, <1>7, <2>2, <2>3 DEF Reads, Sent, history
  \* Without a rescan, only metadata differs from what was discovered, or from a draft.
  <2>5. r \notin disturbed /\ r \notin troubled /\ ~Rescan(r) =>
           Hidden(r) \/ deployed[r] = Absent \/ discovered[r] = Whole(r)
    <3>1. readReq[r] \in Content \cup {Absent}
      BY <1>1, Executing
    <3>2. ~Rescan(r) => readFs[r] = docFs[r] /\ readReq[r] \in {"want", "labels"}
      BY <3>1, FsFacts DEF Rescan, Content, IInv
    <3> QED BY <1>3, <1>7, <3>2, Constants DEF Imported, NotImported, ShownAtFirst, Hidden
  <2>6. r \notin disturbed /\ r \notin troubled => Applied(r)'
    <3>1. r \notin disturbed /\ r \notin troubled => ~ImportWaits(r)
      BY <1>3, <1>7 DEF Imported, NotImported
    <3> QED BY <1>1, <1>4, <1>6, <1>7, <2>3, <2>5, <3>1, SameInput DEF Applied, ImportWaits
  <2>7. r \notin disturbed /\ r \notin troubled => Imported(r)'
    BY <2>2, <2>6 DEF Imported
  <2>8. Good(r)'
    BY <1>1, <2>2, <2>4, <2>7 DEF Good, Needed, history
  <2> QED BY <1>1, <1>5, <2>2, <2>8, DocStep
<1> QED BY <1>8, <1>9

-----------------------------------------------------------------------------
(* The steps of the server and of other operators. *)

\* An import that runs deploys, and where asked to discovers, the whole document.
LEMMA ImportIsWhole ==
    ASSUME IInv, NEW t \in imports, RunImport(t), t.doc \notin disturbed
    PROVE  /\ IsStored(t.doc) /\ deployed'[t.doc] = "want"
           /\ discovered'[t.doc] # discovered[t.doc] => discovered'[t.doc] = Whole(t.doc)
           /\ t.rescan \/ deployed[t.doc] = Absent => discovered'[t.doc] = Whole(t.doc)
<1>1. t.doc \in Doc
  BY DEF IInv, Typed, TypeOK
<1>2. IsStored(t.doc)
  BY <1>1 DEF IInv, Good, Sent, ImportWaits
<1>3. /\ deployed \in [Doc -> Content \cup {Absent}]
      /\ discovered \in [Doc -> [nodes : Content \cup {Absent}, fs : Definition \cup {NoFs}]]
  BY DEF IInv, Typed, TypeOK
<1> QED BY <1>1, <1>2, <1>3 DEF RunImport, IsStored, Whole, View

LEMMA RunImportIInv == ASSUME IInv, NEW t \in imports, RunImport(t) PROVE IInv'
<1> DEFINE r == t.doc
<1>1. /\ r \in Doc /\ imports' = imports \ {t}
      /\ UNCHANGED <<input, pend, fsdef, history, phase, plan, results, step, row, disturbed>>
  BY DEF RunImport, IInv, Typed, TypeOK
<1>2. Shown(r) \in Content \cup {Absent} /\ fsdef[r] \in Definition \cup {NoFs}
      /\ [nodes |-> View(Shown(r)), fs |-> fsdef[r]] \in Finding
  BY <1>1, FsFacts DEF IInv, Typed, TypeOK, Finding, View, Content
<1>3. /\ deployed' \in [Doc -> Content \cup {Absent}] /\ discovered' \in [Doc -> Finding]
      /\ deployed'[r] = Shown(r)
      /\ \A q \in Doc \ {r} : deployed'[q] = deployed[q] /\ discovered'[q] = discovered[q]
  BY <1>1, <1>2 DEF RunImport, IInv, Typed, TypeOK, Finding
<1>4. ServerStep(r)
  BY <1>1, <1>3 DEF ServerStep, IInv, Typed, TypeOK
<1>5. ClientStep(r) /\ StepOf(r)' = StepOf(r) /\ Good(r)
  BY <1>1, SameClient DEF IInv
<1>6. /\ Shown(r)' = Shown(r) /\ IsStored(r)' = IsStored(r)
      /\ Unchanged(r)' = Unchanged(r) /\ FsAction(r)' = FsAction(r)
  BY <1>1, <1>3 DEF plan, Shown, IsStored, FsAction, Unchanged
<1>7. ImportWaits(r) /\ \A u \in imports' : u \in imports
  BY <1>1 DEF ImportWaits
<1>8. Needed(r)'
  BY <1>5, <1>6 DEF Good, Needed
<1>9. r \notin disturbed => Reads(r)' /\ Sent(r)'
  BY <1>1, <1>5, <1>6, <1>7, ImportIsWhole DEF Good, Reads, Sent, plan, history
<1>10. r \notin disturbed /\ r \notin troubled => Imported(r)'
  <2> SUFFICES ASSUME r \notin disturbed, r \notin troubled PROVE Imported(r)'
    OBVIOUS
  <2>1. StepOf(r) \notin {"fs", "requisition", "import"}
    BY <1>5, <1>7 DEF Good, Imported, NotImported
  <2>2. row[r] = NotYet /\ StepOf(r) = "idle" => Applied(r)
    BY <1>5, <1>7 DEF Good, Imported, Fresh, NotImported
  <2>3. ASSUME Applied(r) PROVE Applied(r)'
    <3>1. deployed'[r] = "want" /\ IsStored(r)
      BY ImportIsWhole
    <3>2. PassedOver(r) \/ Hidden(r) \/ discovered'[r] = Whole(r)
      BY <2>3, ImportIsWhole DEF Applied
    <3> QED BY <1>1, <1>6, <3>1, <3>2, SameInput DEF Applied
  <2> QED BY <1>1, <1>5, <2>1, <2>2, <2>3 DEF Good, Imported
<1>11. Good(r)'
  BY <1>1, <1>8, <1>9, <1>10 DEF Good, history
<1> QED BY <1>1, <1>4, <1>5, <1>11, DocStep

LEMMA OtherOperatorIInv == ASSUME IInv, NEW r \in Doc, OtherOperator(r) PROVE IInv'
<1>1. /\ disturbed' = disturbed \cup {r}
      /\ UNCHANGED <<input, discovered, history, phase, plan, results, step, row>>
  BY DEF OtherOperator
<1>2. /\ pend' \in [Doc -> Content \cup {Absent}] /\ deployed' \in [Doc -> Content \cup {Absent}]
      /\ fsdef' \in [Doc -> Definition \cup {NoFs}]
      /\ imports' \subseteq [doc : Doc, rescan : BOOLEAN]
      /\ \A q \in Doc \ {r} :
            /\ pend'[q] = pend[q] /\ deployed'[q] = deployed[q] /\ fsdef'[q] = fsdef[q]
            /\ \A t \in imports \cup imports' : t.doc = q => (t \in imports' <=> t \in imports)
  <2>1. pend' = pend \/ \E content \in Content \cup {Absent} : pend' = [pend EXCEPT ![r] = content]
    BY DEF OtherOperator
  <2>2. deployed' = deployed \/ deployed' = [deployed EXCEPT ![r] = Absent]
    BY DEF OtherOperator
  <2>3. \/ fsdef' = fsdef
        \/ \E fs \in Definition \cup {NoFs} : fsdef' = [fsdef EXCEPT ![r] = fs]
    BY DEF OtherOperator
  <2>4. imports' = imports \/ imports' = imports \cup {[doc |-> r, rescan |-> FALSE]}
    BY DEF OtherOperator
  <2>5. imports' \subseteq [doc : Doc, rescan : BOOLEAN]
    <3>1. imports \subseteq [doc : Doc, rescan : BOOLEAN]
      BY DEF IInv, Typed, TypeOK
    <3>2. [doc |-> r, rescan |-> FALSE] \in [doc : Doc, rescan : BOOLEAN]
      OBVIOUS
    <3> QED BY <2>4, <3>1, <3>2
  <2>6. /\ pend' \in [Doc -> Content \cup {Absent}]
        /\ \A q \in Doc \ {r} : pend'[q] = pend[q]
    BY <2>1 DEF IInv, Typed
  <2>7. /\ deployed' \in [Doc -> Content \cup {Absent}]
        /\ \A q \in Doc \ {r} : deployed'[q] = deployed[q]
    BY <2>2 DEF IInv, Typed
  <2>8. /\ fsdef' \in [Doc -> Definition \cup {NoFs}]
        /\ \A q \in Doc \ {r} : fsdef'[q] = fsdef[q]
    BY <2>3 DEF IInv, Typed, TypeOK
  <2>9. \A q \in Doc \ {r} : \A t \in imports \cup imports' :
           t.doc = q => (t \in imports' <=> t \in imports)
    BY <2>4
  <2> QED BY <2>5, <2>6, <2>7, <2>8, <2>9
<1>3. ServerStep(r)
  BY <1>1, <1>2 DEF ServerStep, IInv, Typed, TypeOK, Finding
<1>4. ClientStep(r) /\ StepOf(r)' = StepOf(r)
  BY <1>1, SameClient
<1>5. Unchanged(r)' = Unchanged(r) /\ FsAction(r)' = FsAction(r)
  BY <1>1 DEF plan, FsAction, Unchanged
<1>6. Good(r)'
  BY <1>1, <1>4, <1>5 DEF IInv, Good, Needed
<1> QED BY <1>1, <1>3, <1>4, <1>6, DocStep

-----------------------------------------------------------------------------
(* The theorems. *)

LEMMA NextIInv == ASSUME IInv, [Next]_vars PROVE IInv'
<1>1. ASSUME NEW r \in Doc,
             ReadRequisition(r) \/ ReadForeignSource(r) \/ Begin(r) \/ SendForeignSource(r)
             \/ SendRequisition(r) \/ TriggerImport(r) \/ OtherOperator(r)
      PROVE  IInv'
  BY <1>1, ReadsIInv, BeginIInv, SendForeignSourceIInv, SendRequisitionIInv, TriggerImportIInv,
     OtherOperatorIInv
<1> QED BY <1>1, PhaseIInv, ApplyAgainIInv, RunImportIInv DEF Next

\* In every behaviour of execute_multi and of the server's imports, what the plan read is there
\* until it is replaced, what was sent stays, and what is deployed was discovered or will be.
THEOREM Strengthened == Spec => []IInv
<1>1. IInv /\ [Next]_vars => IInv'
  BY NextIInv
<1> QED BY InitIInv, <1>1, PTL DEF Spec

\* Whatever was found, declared and lost, a row other than Failed means that the requisition and
\* its foreign source are stored, Created and Updated that they are imported or about to be, and
\* so does Unchanged when no run failed on it before and the draft found was not the document; a
\* change that asks for a rescan gets one, unless a draft hid it from the plan.
THEOREM RowsHold == Spec => []RequisitionInv
<1>1. IInv => RequisitionInv
  <2> SUFFICES ASSUME IInv PROVE RequisitionInv
    OBVIOUS
  <2>1. SuccessIsStored
    BY DEF IInv, Good, Sent, IsStored, SuccessIsStored
  <2>2. SuccessIsImported
    BY DEF IInv, Good, Sent, Imported, Applied, SuccessIsImported
  <2> QED BY <2>1, <2>2 DEF IInv, Typed, RequisitionInv
<1> QED BY <1>1, Strengthened, PTL

\* What an earlier run reported as applied is in sync in every later one: applying the file
\* again sends nothing for it.
THEOREM AppliedStays == Spec => []ReapplyIsUnchanged
<1>1. IInv => ReapplyIsUnchanged
  BY DEF IInv, Typed, TypeOK, Good, Sent, ReapplyIsUnchanged
<1> QED BY <1>1, Strengthened, PTL

\* Whichever of the three requests failed, an import that rescans finds the declared nodes
\* and the declared foreign source, never one of them under the other's predecessor.
THEOREM RescansAreWhole == Spec => RescanSeesWholeDocument
<1> DEFINE WholeStep ==
      \A r \in Doc : discovered'[r] # discovered[r] /\ disturbed = {} => discovered'[r] = Whole(r)
<1>1. IInv /\ [Next]_vars => WholeStep
  <2> SUFFICES ASSUME IInv, [Next]_vars, NEW r \in Doc, discovered'[r] # discovered[r],
                      disturbed = {}
               PROVE  discovered'[r] = Whole(r)
    OBVIOUS
  <2>1. PICK t \in imports : RunImport(t)
    BY DEF Next, EndPlan, Finish, ApplyAgain, ReadRequisition, ReadForeignSource, Begin,
       SendForeignSource, SendRequisition, TriggerImport, OtherOperator, server, vars
  <2>2. t.doc = r
    BY <2>1 DEF RunImport, IInv, Typed, TypeOK
  <2> QED BY <2>1, <2>2, ImportIsWhole
<1> QED BY <1>1, Strengthened, PTL DEF Spec, RescanSeesWholeDocument
=============================================================================
