--------------------------- MODULE MaintenanceProofs ---------------------------
(***************************************************************************)
(* What holds of every apply of maintenance windows, whatever the windows, *)
(* nodes and packages and however often other operators act: the rows are  *)
(* true, no daemon is attached to a definition that was not written, and   *)
(* the attachments spare the package documents of the same apply.          *)
(*                                                                         *)
(* The inductive invariant follows a window through its plan (Prepared),   *)
(* its write (Defined) and its attachments (Honoured), and a package       *)
(* between its read and its conditional write (Kept).                      *)
(***************************************************************************)
EXTENDS MaintenanceApply, TLAPS

ToDo == {"create", "update", "none"}
Planned == ToDo \cup {"failed"}
Writing == {"attaching", "Created", "Updated", "Unchanged"}

\* Ids are bounded by the steps of others, and only nodes that are there are matched.
Ids ==
    /\ \A n \in Node : id[n] <= changes + 1
    /\ \A n \in matched : id[n] # 0

\* Planning ends before execution begins, the windows come last, and one attaches only
\* between the write of its definition and its row.
Control ==
    /\ phase \in {"ThreshdPackage", "Maintenance"} =>
          \A x \in Described \cup packageDocs : plan[x] \in Planned
    /\ phase \notin {"Maintenance", "done"} => \A w \in Window : row[w] = NotYet
    /\ \A w \in Window : left[w] # {} => row[w] = "attaching"

\* What the plan has resolved: the present id of every node named, and something to cover;
\* a window planned as in sync is.
Prepared(w) ==
    /\ plan[w] \in ToDo \cup {"resolved", "searched"} =>
          \A n \in docs[w].nodes \ disturbed : id[n] \in resolved[w]
    /\ plan[w] \in ToDo \cup {"searched"} => Covers(docs[w], resolved[w])
    /\ plan[w] = "none" /\ w \notin disturbed => window[w] = Desired(w)

\* From the write of its definition on, the server has it, and had a plan.
Defined(w) ==
    row[w] \in Writing =>
        /\ plan[w] \in ToDo
        /\ w \notin disturbed => window[w] = Desired(w)

\* Every target is still to be attached, is attached, or has failed; a row that says success
\* leaves only the second.
Honoured(w) ==
    /\ row[w] \in Writing /\ w \notin disturbed =>
          \A t \in Targets(docs[w]) \ disturbed :
             t \in left[w] \/ <<w, t>> \in attached \/ <<w, t>> \in failedTarget
    /\ Succeeded(w) => left[w] = {} /\ \A t \in Target : <<w, t>> \notin failedTarget

\* Until it is written, a package that nobody else touched has the version that was read.
Kept(p) ==
    /\ phase \in {"plan", "ThreshdPackage"} /\ p \notin disturbed /\ plan[p] # NotYet /\ row[p] = NotYet =>
          version[p] = etag[p]
    /\ row[p] = "changed since plan" => p \in disturbed

IInv ==
    /\ TypeOK /\ Ids /\ Control
    /\ \A w \in Described : Prepared(w) /\ Defined(w) /\ Honoured(w)
    /\ \A p \in packageDocs : Kept(p)

-----------------------------------------------------------------------------
\* Window documents are of the type that the module assumes of them, and their targets are
\* targets.
LEMMA Documents ==
    ASSUME TypeOK
    PROVE  /\ Described \subseteq Window
           /\ \A w \in Described : docs[w] \in DocumentType /\ Targets(docs[w]) \subseteq Target
<1>1. PICK D \in SUBSET Window : docs \in [D -> Document] BY DEF TypeOK
<1>2. Described = D BY <1>1 DEF Described
<1>3. ASSUME NEW w \in Described PROVE docs[w] \in DocumentType
  BY <1>1, <1>2, <1>3, MaintenanceAssumption
<1>4. ASSUME NEW d \in DocumentType PROVE Targets(d) \subseteq Target
  BY <1>4 DEF DocumentType, Targets, Target
<1> QED BY <1>2, <1>3, <1>4

\* The variables start in their ranges.
LEMMA InitTyped == Init => TypeOK /\ Ids
<1> SUFFICES ASSUME Init PROVE TypeOK /\ Ids OBVIOUS
<1>1. docs \in UNION {[D -> Document] : D \in SUBSET Window} /\ packageDocs \subseteq Package
  BY DEF Init
<1>2. id \in [Node -> NodeId] /\ matched \subseteq Node
  BY MaintenanceAssumption DEF Init, NodeId
<1>3. window \in [Window -> {Absent} \cup Definition]
  <2>1. {1} \subseteq NodeId \ {0} BY MaintenanceAssumption DEF NodeId
  <2>2. Stored("none", FALSE) \in Definition /\ Stored("some", TRUE) \in Definition
    BY <2>1 DEF Definition, Stored
  <2>3. window \in [Window -> {Absent, Stored("none", FALSE), Stored("some", TRUE)}] BY DEF Init
  <2> QED BY <2>2, <2>3
<1>4. attached \subseteq Window \X Target /\ failedTarget \subseteq Window \X Target BY DEF Init
<1>5. version \in [Package -> Nat] /\ etag \in [Package -> Nat] BY DEF Init
<1>6. phase = "plan" BY DEF Init
<1>7. resolved \in [Window -> SUBSET (NodeId \ {0})] /\ left \in [Window -> SUBSET Target] BY DEF Init
<1>8. plan \in [Item -> {NotYet}] /\ row \in [Item -> {NotYet}] BY DEF Init
<1>9. disturbed \subseteq Node \cup Item /\ changes \in 0 .. MaxOthers BY MaintenanceAssumption DEF Init
<1>10. Ids BY DEF Init, Ids
<1> QED BY <1>1, <1>2, <1>3, <1>4, <1>5, <1>6, <1>7, <1>8, <1>9, <1>10 DEF TypeOK

-----------------------------------------------------------------------------
\* Nobody changes the documents; the apply's own steps change no node and disturb nothing.
LEMMA Frame ==
    /\ Next => UNCHANGED documents
    /\ Apply => UNCHANGED <<nodes, others>>
<1>1. Next => UNCHANGED documents
  BY DEF Next, Apply, Gate, PlanFails, StartExecute, NextKind, PlanPackage, WritePackage,
         ResolveNodes, SearchNodes, Compare, FailPlanned, WriteDefinition, Report, Attach,
         NodeChanges, WindowChanges, PackageChanges
<1>2. Apply => UNCHANGED <<nodes, others>>
  BY DEF Apply, Gate, PlanFails, StartExecute, NextKind, PlanPackage, WritePackage,
         ResolveNodes, SearchNodes, Compare, FailPlanned, WriteDefinition, Report, Attach
<1> QED BY <1>1, <1>2

\* The ids of nodes are ids of the bound.
LEMMA Numbers ==
    ASSUME TypeOK, Ids
    PROVE  \A n \in Node : id[n] \in Nat /\ (id[n] # 0 => id[n] \in NodeId \ {0})
<1>1. MaxOthers \in Nat /\ changes \in 0 .. MaxOthers BY MaintenanceAssumption DEF TypeOK
<1>2. \A n \in Node : id[n] \in 0 .. MaxOthers + 1 BY DEF TypeOK, NodeId
<1> QED BY <1>1, <1>2 DEF NodeId

\* What a window document declares, over the ids found for it, is a definition.
LEMMA DesiredTyped ==
    ASSUME TypeOK, NEW w \in Described
    PROVE  Desired(w) \in Definition
<1>1. w \in Window /\ docs[w] \in DocumentType BY Documents
<1>2. docs[w].interfaces \in {"none", "some", "any"} BY <1>1 DEF DocumentType
<1>3. resolved[w] \subseteq NodeId \ {0} BY <1>1 DEF TypeOK
<1> QED BY <1>2, <1>3 DEF Desired, Definition

\* The steps of the apply keep every variable in its range.
LEMMA ApplyTyped == ASSUME TypeOK, Ids, Apply PROVE TypeOK'
<1> USE DEF documents, nodes, server, planned, work, others
<1>0. docs' = docs /\ packageDocs' = packageDocs /\ id' = id /\ matched' = matched
      /\ disturbed' = disturbed /\ changes' = changes
  BY Frame DEF Next
<1>a. Described \subseteq Window /\ packageDocs \subseteq Package
      /\ \A w \in Described : Targets(docs[w]) \subseteq Target
  BY Documents DEF TypeOK
<1>c. version \in [Package -> Nat] BY DEF TypeOK
<1>1. CASE Gate \/ PlanFails \/ StartExecute \/ NextKind
  BY <1>1, <1>0 DEF Gate, PlanFails, StartExecute, NextKind, TypeOK, Kinds
<1>2. ASSUME NEW p \in Package, PlanPackage(p) PROVE TypeOK'
  <2>1. /\ etag' \in [Package -> Nat]
        /\ plan' \in [Item -> {NotYet, "resolved", "searched", "failed", "create", "update", "none"}]
    BY <1>2 DEF PlanPackage, TypeOK, Item
  <2> QED BY <1>0, <1>2, <2>1 DEF PlanPackage, TypeOK
<1>3. ASSUME NEW p \in Package, WritePackage(p) PROVE TypeOK'
  <2>1. version' \in [Package -> Nat]
    <3>1. version' = version \/ version' = [version EXCEPT ![p] = version[p] + 1]
      BY <1>3 DEF WritePackage
    <3> QED BY <1>c, <3>1
  <2>2. ASSUME NEW r \in {"failed", "changed since plan", "Created", "Updated", "Unchanged"}, SetRow(p, r)
        PROVE  row' \in [Item -> {NotYet, "attaching", "write failed", "failed", "Created", "Updated",
                                 "Unchanged", "changed since plan"}]
    BY <2>2 DEF SetRow, TypeOK, Item
  <2>3. Success(plan[p]) \in {"Created", "Updated", "Unchanged"} BY DEF Success
  <2>4. row' \in [Item -> {NotYet, "attaching", "write failed", "failed", "Created", "Updated",
                          "Unchanged", "changed since plan"}]
    BY <1>3, <2>2, <2>3 DEF WritePackage
  <2> QED BY <1>0, <1>3, <2>1, <2>4 DEF WritePackage, TypeOK
<1>4. ASSUME NEW w \in Window, ResolveNodes(w) PROVE TypeOK'
  <2>1. w \in Described BY <1>4 DEF ResolveNodes, Turn
  <2>2. docs[w].nodes \subseteq Node BY <2>1, Documents DEF DocumentType
  <2>3. {id[n] : n \in docs[w].nodes} \ {0} \subseteq NodeId \ {0} BY <2>2, Numbers
  <2>4. resolved' \in [Window -> SUBSET (NodeId \ {0})] BY <1>4, <2>3 DEF ResolveNodes, TypeOK
  <2>5. plan' \in [Item -> {NotYet, "resolved", "searched", "failed", "create", "update", "none"}]
    BY <1>4 DEF ResolveNodes, TypeOK, Item
  <2> QED BY <1>0, <1>4, <2>4, <2>5 DEF ResolveNodes, TypeOK
<1>5. ASSUME NEW w \in Window, SearchNodes(w) PROVE TypeOK'
  <2> DEFINE ids == resolved[w] \cup (IF docs[w].dynamic THEN {id[n] : n \in matched} ELSE {})
  <2>1. {id[n] : n \in matched} \subseteq NodeId \ {0} BY Numbers DEF TypeOK, Ids
  <2>2. ids \subseteq NodeId \ {0} BY <2>1 DEF TypeOK
  <2>3. resolved' = [resolved EXCEPT ![w] = ids]
        /\ plan' = [plan EXCEPT ![w] = IF Covers(docs[w], ids) THEN "searched" ELSE "failed"]
    BY <1>5 DEF SearchNodes
  <2> HIDE DEF ids
  <2>4. resolved' \in [Window -> SUBSET (NodeId \ {0})] BY <2>2, <2>3 DEF TypeOK
  <2>5. plan' \in [Item -> {NotYet, "resolved", "searched", "failed", "create", "update", "none"}]
    BY <2>3 DEF TypeOK, Item
  <2> QED BY <1>0, <1>5, <2>4, <2>5 DEF SearchNodes, TypeOK
<1>6. ASSUME NEW w \in Window, Compare(w) PROVE TypeOK'
  <2>1. PlannedAction(w, window[w]) \in {"create", "update", "none"} BY DEF PlannedAction
  <2>2. plan' \in [Item -> {NotYet, "resolved", "searched", "failed", "create", "update", "none"}]
    BY <1>6, <2>1 DEF Compare, TypeOK, Item
  <2> QED BY <1>0, <1>6, <2>2 DEF Compare, TypeOK
<1>7. ASSUME NEW w \in Window, FailPlanned(w) PROVE TypeOK'
  BY <1>0, <1>7 DEF FailPlanned, SetRow, TypeOK, Item
<1>8. ASSUME NEW w \in Window, WriteDefinition(w) PROVE TypeOK'
  <2>1. w \in Described BY <1>8 DEF WriteDefinition, Starts
  <2>2. Targets(docs[w]) \subseteq Target /\ AfterFailedWrite(docs[w]) \subseteq Target
    BY <2>1, Documents DEF AfterFailedWrite
  <2>3. Desired(w) \in Definition BY <2>1, DesiredTyped
  <2>4. left' \in [Window -> SUBSET Target] BY <1>8, <2>2 DEF WriteDefinition, TypeOK
  <2>5. window' \in [Window -> {Absent} \cup Definition] BY <1>8, <2>3 DEF WriteDefinition, TypeOK
  <2>6. row' \in [Item -> {NotYet, "attaching", "write failed", "failed", "Created", "Updated",
                          "Unchanged", "changed since plan"}]
    BY <1>8 DEF WriteDefinition, SetRow, TypeOK, Item
  <2> QED BY <1>0, <1>8, <2>4, <2>5, <2>6 DEF WriteDefinition, TypeOK
<1>9. ASSUME NEW w \in Window, Report(w) PROVE TypeOK'
  <2>1. Success(plan[w]) \in {"Created", "Updated", "Unchanged"} BY DEF Success
  <2>2. row' \in [Item -> {NotYet, "attaching", "write failed", "failed", "Created", "Updated",
                          "Unchanged", "changed since plan"}]
    BY <1>9, <2>1 DEF Report, SetRow, TypeOK, Item
  <2> QED BY <1>0, <1>9, <2>2 DEF Report, TypeOK
<1>10. ASSUME NEW w \in Window, NEW t \in Target, Attach(w, t) PROVE TypeOK'
  <2>1. /\ attached' \subseteq Window \X Target /\ failedTarget' \subseteq Window \X Target
    <3>1. attached \subseteq Window \X Target /\ failedTarget \subseteq Window \X Target BY DEF TypeOK
    <3>2. <<w, t>> \in Window \X Target OBVIOUS
    <3>3. attached' \subseteq attached \cup {<<w, t>>} /\ failedTarget' \subseteq failedTarget \cup {<<w, t>>}
      BY <1>10 DEF Attach
    <3> QED BY <3>1, <3>2, <3>3
  <2>2. version' \in [Package -> Nat] BY <1>c, <1>10 DEF Attach
  <2>3. left' \in [Window -> SUBSET Target] BY <1>10 DEF Attach, TypeOK
  <2> QED BY <1>0, <1>10, <2>1, <2>2, <2>3 DEF Attach, TypeOK
<1> QED BY <1>1, <1>2, <1>3, <1>4, <1>5, <1>6, <1>7, <1>8, <1>9, <1>10 DEF Apply

\* So do the steps of others; an id grows by one with each.
LEMMA TypeStep == ASSUME TypeOK, Ids, [Next]_vars PROVE TypeOK' /\ Ids'
<1> USE DEF documents, nodes, server, planned, work, others
<1>c. version \in [Package -> Nat] /\ changes \in Nat /\ MaxOthers \in Nat
  <2>1. MaxOthers \in Nat BY MaintenanceAssumption
  <2>2. changes \in 0 .. MaxOthers /\ version \in [Package -> Nat] BY DEF TypeOK
  <2> QED BY <2>1, <2>2
<1>d. ASSUME NEW things, Disturbs(things)
      PROVE  changes' = changes + 1 /\ changes' \in 0 .. MaxOthers
  BY <1>c, <1>d DEF Disturbs
<1>1. CASE Apply
  <2>1. id' = id /\ matched' = matched /\ changes' = changes BY <1>1, Frame
  <2> QED BY <1>1, <2>1, ApplyTyped DEF Ids
<1>2. ASSUME NEW n \in Node, NodeChanges(n) PROVE TypeOK' /\ Ids'
  <2>1. changes' = changes + 1 /\ changes' \in 0 .. MaxOthers BY <1>d, <1>2 DEF NodeChanges
  <2>2. PICK i \in {0, id[n] + 1} : id' = [id EXCEPT ![n] = i] BY <1>2 DEF NodeChanges
  <2>3. \A m \in Node : id[m] \in Nat /\ id[m] <= changes + 1 BY Numbers DEF Ids
  <2>4. i \in Nat /\ i <= changes' + 1 BY <1>c, <2>1, <2>2, <2>3
  <2>5. i \in NodeId BY <1>c, <2>1, <2>4 DEF NodeId
  <2>6. id' \in [Node -> NodeId] BY <2>2, <2>5 DEF TypeOK
  <2>7. \A m \in Node : id'[m] <= changes' + 1
    <3>1. \A m \in Node : id'[m] = IF m = n THEN i ELSE id[m] BY <2>2 DEF TypeOK
    <3>2. \A m \in Node : id[m] <= changes' + 1 BY <1>c, <2>1, <2>3
    <3> QED BY <2>4, <3>1, <3>2
  <2>8. matched' \subseteq Node /\ \A m \in matched' : id'[m] # 0
    <3>1. matched' = matched \ {n} \/ (id'[n] # 0 /\ matched' = matched \cup {n})
      BY <1>2 DEF NodeChanges
    <3>2. \A m \in Node \ {n} : id'[m] = id[m] BY <2>2 DEF TypeOK
    <3> QED BY <3>1, <3>2 DEF TypeOK, Ids
  <2>9. disturbed' \subseteq Node \cup Item BY <1>2 DEF NodeChanges, Disturbs, TypeOK
  <2>10. Ids' BY <2>7, <2>8 DEF Ids
  <2> QED BY <1>2, <2>1, <2>6, <2>8, <2>9, <2>10 DEF NodeChanges, TypeOK
<1>3. ASSUME NEW w \in Window, WindowChanges(w) PROVE TypeOK' /\ Ids'
  <2>1. changes' = changes + 1 /\ changes' \in 0 .. MaxOthers BY <1>d, <1>3 DEF WindowChanges
  <2>2. disturbed' \subseteq Node \cup Item BY <1>3 DEF WindowChanges, Disturbs, TypeOK, Item
  <2>3. window' \in [Window -> {Absent} \cup Definition]
    <3>1. window[w] \in Definition BY <1>3 DEF WindowChanges, TypeOK
    <3>2. [window[w] EXCEPT !.schedule = FALSE] \in Definition BY <3>1 DEF Definition
    <3>3. window' = [window EXCEPT ![w] = [window[w] EXCEPT !.schedule = FALSE]]
          \/ window' = [window EXCEPT ![w] = Absent]
      BY <1>3 DEF WindowChanges
    <3> QED BY <3>2, <3>3 DEF TypeOK
  <2>4. attached' \subseteq Window \X Target BY <1>3 DEF WindowChanges, TypeOK
  <2>5. version' \in [Package -> Nat]
    <3>1. version' = version \/ version' = [p \in Package |-> IF <<w, p>> \in attached THEN version[p] + 1
                                                             ELSE version[p]]
      BY <1>3 DEF WindowChanges
    <3>2. \A p \in Package : version[p] \in Nat /\ version[p] + 1 \in Nat BY <1>c
    <3> QED BY <1>c, <3>1, <3>2
  <2>6. Ids'
    <3>1. id' = id /\ matched' = matched BY <1>3 DEF WindowChanges
    <3>2. \A m \in Node : id[m] <= changes' + 1 BY <1>c, <2>1, Numbers DEF Ids
    <3> QED BY <3>1, <3>2 DEF Ids
  <2> QED BY <1>3, <2>1, <2>2, <2>3, <2>4, <2>5, <2>6 DEF WindowChanges, TypeOK
<1>4. ASSUME NEW p \in Package, PackageChanges(p) PROVE TypeOK' /\ Ids'
  <2>1. changes' = changes + 1 /\ changes' \in 0 .. MaxOthers BY <1>d, <1>4 DEF PackageChanges
  <2>2. disturbed' \subseteq Node \cup Item BY <1>4 DEF PackageChanges, Disturbs, TypeOK, Item
  <2>3. attached' \subseteq Window \X Target /\ version' \in [Package -> Nat]
    <3>1. attached' \subseteq attached BY <1>4 DEF PackageChanges
    <3>2. version' \in [Package -> Nat] BY <1>c, <1>4 DEF PackageChanges
    <3> QED BY <3>1, <3>2 DEF TypeOK
  <2>4. Ids'
    <3>1. id' = id /\ matched' = matched BY <1>4 DEF PackageChanges
    <3>2. \A m \in Node : id[m] <= changes' + 1 BY <1>c, <2>1, Numbers DEF Ids
    <3> QED BY <3>1, <3>2 DEF Ids
  <2> QED BY <1>4, <2>1, <2>2, <2>3, <2>4 DEF PackageChanges, TypeOK
<1>5. CASE UNCHANGED vars BY <1>5 DEF vars, TypeOK, Ids
<1> QED BY <1>1, <1>2, <1>3, <1>4, <1>5 DEF Next

-----------------------------------------------------------------------------
\* What it is to set one row, or one entry of the plan.
LEMMA OneRow ==
    ASSUME TypeOK, NEW x \in Item, NEW r, SetRow(x, r)
    PROVE  row'[x] = r /\ \A y \in Item \ {x} : row'[y] = row[y]
BY DEF TypeOK, SetRow

LEMMA OnePlan ==
    ASSUME TypeOK, NEW x \in Item, NEW r, plan' = [plan EXCEPT ![x] = r]
    PROVE  plan'[x] = r /\ \A y \in Item \ {x} : plan'[y] = plan[y]
BY DEF TypeOK

\* A window and a package are two items.
LEMMA Items ==
    ASSUME NEW w \in Window, NEW p \in Package
    PROVE  w \in Item /\ p \in Item /\ w # p
BY MaintenanceAssumption DEF Item

\* The write of a package sets its row, and says "changed since plan" only of an old version.
LEMMA PackageRow ==
    ASSUME TypeOK, NEW p \in Package, WritePackage(p)
    PROVE  /\ row'[p] \in {"Created", "Updated", "Unchanged", "failed", "changed since plan"}
           /\ row'[p] = "changed since plan" => version[p] # etag[p]
           /\ \A y \in Item \ {p} : row'[y] = row[y]
<1>1. p \in Item BY DEF Item
<1>2. Success(plan[p]) \in {"Created", "Updated", "Unchanged"} BY DEF Success
<1>3. CASE version[p] = etag[p] /\ SetRow(p, Success(plan[p])) BY <1>1, <1>2, <1>3, OneRow
<1>4. CASE SetRow(p, "failed")
  <2>1. row'[p] = "failed" /\ \A y \in Item \ {p} : row'[y] = row[y] BY <1>1, <1>4, OneRow
  <2> QED BY <2>1
<1>5. CASE version[p] # etag[p] /\ SetRow(p, "changed since plan") BY <1>1, <1>5, OneRow
<1> QED BY <1>3, <1>4, <1>5 DEF WritePackage

\* The steps that plan are steps of the phase "plan"; they set nothing but the plan.
PlanStep ==
    \/ \E p \in Package : PlanPackage(p)
    \/ \E w \in Window : ResolveNodes(w) \/ SearchNodes(w) \/ Compare(w)

LEMMA Plans ==
    ASSUME PlanStep
    PROVE  phase = "plan" /\ UNCHANGED <<documents, nodes, server, phase, row, work, others>>
BY DEF PlanStep, PlanPackage, ResolveNodes, SearchNodes, Compare, Turn, Planning

\* Execution begins with a full plan, windows come last, and one is attached only between
\* the write of its definition and its row.
LEMMA ControlStep == ASSUME TypeOK, Control, Next PROVE Control'
<1> USE DEF documents, nodes, server, planned, work, others
<1>0. Described' = Described /\ packageDocs' = packageDocs BY Frame DEF documents, Described
<1>d. Described \cup packageDocs \subseteq Item BY Documents DEF TypeOK, Item
<1>1. CASE Gate \/ PlanFails
  <2>1. phase' = "refused" /\ phase = "plan" /\ row' = row /\ left' = left
    BY <1>1 DEF Gate, PlanFails, Planning
  <2> QED BY <2>1 DEF Control
<1>2. CASE StartExecute
  <2>1. phase' = "ThreshdPackage" /\ phase = "plan" /\ row' = row /\ left' = left /\ plan' = plan
    BY <1>2 DEF StartExecute, Planning, Kinds
  <2>2. \A x \in Described \cup packageDocs : plan[x] \in Planned
    <3>1. \A x \in Described \cup packageDocs : plan[x] \notin {NotYet, "resolved", "searched"}
      BY <1>2 DEF StartExecute
    <3> QED BY <1>d, <3>1 DEF TypeOK, Planned, ToDo
  <2> QED BY <1>0, <2>1, <2>2 DEF Control
<1>3. CASE NextKind
  <2>1. row' = row /\ left' = left /\ plan' = plan BY <1>3 DEF NextKind
  <2>2. \/ phase = "ThreshdPackage" /\ phase' = "Maintenance"
        \/ phase' = "done"
    BY <1>3 DEF NextKind, Kinds
  <2> QED BY <1>0, <2>1, <2>2 DEF Control
<1>4. CASE PlanStep BY <1>4, Plans DEF Control
<1>5. ASSUME NEW p \in Package, WritePackage(p) PROVE Control'
  <2>1. \A w \in Window : row'[w] = row[w] BY <1>5, PackageRow, Items
  <2>2. phase' = phase /\ plan' = plan /\ left' = left BY <1>5 DEF WritePackage
  <2> QED BY <1>0, <2>1, <2>2 DEF Control
<1>6. ASSUME NEW w \in Window, FailPlanned(w) PROVE Control'
  <2>1. phase' = phase /\ phase = "Maintenance" /\ row[w] = NotYet /\ plan' = plan /\ left' = left
    BY <1>6 DEF FailPlanned, Starts
  <2>2. \A v \in Window \ {w} : row'[v] = row[v] BY <1>6, OneRow DEF FailPlanned, Item
  <2>3. left[w] = {} BY <2>1 DEF Control, NotYet
  <2> QED BY <1>0, <2>1, <2>2, <2>3 DEF Control
<1>7. ASSUME NEW w \in Window, WriteDefinition(w) PROVE Control'
  <2>1. phase' = phase /\ phase = "Maintenance" /\ plan' = plan BY <1>7 DEF WriteDefinition, Starts
  <2>2. left' = [left EXCEPT ![w] = left'[w]] /\ (row'[w] = "attaching" \/ left'[w] = {})
    <3>1. w \in Item BY DEF Item
    <3>2. CASE SetRow(w, "attaching")
      <4>1. row'[w] = "attaching" BY <3>1, <3>2, OneRow
      <4> QED BY <1>7, <4>1 DEF WriteDefinition, TypeOK
    <3>3. CASE left' = [left EXCEPT ![w] = AfterFailedWrite(docs[w])]
      BY <3>3 DEF AfterFailedWrite, TypeOK
    <3> QED BY <1>7, <3>2, <3>3 DEF WriteDefinition
  <2>3. \A v \in Window \ {w} : row'[v] = row[v] /\ left'[v] = left[v]
    BY <1>7, <2>2, OneRow DEF WriteDefinition, Item, TypeOK
  <2> QED BY <1>0, <2>1, <2>2, <2>3 DEF Control
<1>8. ASSUME NEW w \in Window, Report(w) PROVE Control'
  <2>1. phase' = phase /\ row[w] # NotYet /\ plan' = plan /\ left' = left /\ left[w] = {}
    BY <1>8 DEF Report, NotYet
  <2>2. \A v \in Window \ {w} : row'[v] = row[v] BY <1>8, OneRow DEF Report, Item
  <2>3. phase \in {"Maintenance", "done"} BY <2>1 DEF Control
  <2> QED BY <1>0, <2>1, <2>2, <2>3 DEF Control
<1>9. ASSUME NEW w \in Window, NEW t \in Target, Attach(w, t) PROVE Control'
  <2>1. phase' = phase /\ plan' = plan /\ row' = row BY <1>9 DEF Attach
  <2>2. \A v \in Window : left'[v] \subseteq left[v] BY <1>9 DEF Attach, TypeOK
  <2>3. \A v \in Window : left'[v] # {} => left[v] # {} BY <2>2
  <2> QED BY <1>0, <2>1, <2>3 DEF Control
<1>10. CASE \/ \E n \in Node : NodeChanges(n)
            \/ \E w \in Window : WindowChanges(w)
            \/ \E p \in Package : PackageChanges(p)
  <2>1. phase' = phase /\ plan' = plan /\ row' = row /\ left' = left
    BY <1>10 DEF NodeChanges, WindowChanges, PackageChanges
  <2> QED BY <1>0, <2>1 DEF Control
<1> QED BY <1>1, <1>2, <1>3, <1>4, <1>5, <1>6, <1>7, <1>8, <1>9, <1>10 DEF Next, Apply, PlanStep

-----------------------------------------------------------------------------
\* The documents are the same, and so is what a window whose ids are the same declares.
LEMMA SameDesired ==
    ASSUME Next, NEW w, resolved'[w] = resolved[w]
    PROVE  Desired(w)' = Desired(w)
BY Frame DEF Desired, documents

\* What others do only adds to what was disturbed, and the plan, the rows and the targets left
\* are not theirs.
Others ==
    \/ \E n \in Node : NodeChanges(n)
    \/ \E w \in Window : WindowChanges(w)
    \/ \E p \in Package : PackageChanges(p)

LEMMA OthersDisturb ==
    ASSUME Others
    PROVE  disturbed \subseteq disturbed' /\ UNCHANGED <<documents, phase, planned, row, work>>
<1>1. disturbed \subseteq disturbed' BY DEF Others, NodeChanges, WindowChanges, PackageChanges, Disturbs
<1>2. UNCHANGED <<documents, phase, planned, row, work>>
  BY DEF Others, NodeChanges, WindowChanges, PackageChanges
<1> QED BY <1>1, <1>2

\* A node that others did not touch keeps its id, a window its definition.
LEMMA OthersSpare ==
    ASSUME TypeOK, Others
    PROVE  /\ \A n \in Node \ disturbed' : id'[n] = id[n]
           /\ \A w \in Window \ disturbed' :
                 window'[w] = window[w] /\ \A t : <<w, t>> \in attached /\ t \notin disturbed' =>
                                                <<w, t>> \in attached'
           /\ \A p \in Package \ disturbed' : version'[p] = version[p]
<1> USE DEF nodes, server
<1>1. ASSUME NEW n \in Node, NodeChanges(n)
      PROVE  n \in disturbed' /\ server' = server /\ \A m \in Node \ {n} : id'[m] = id[m]
  <2>1. PICK i : id' = [id EXCEPT ![n] = i] BY <1>1 DEF NodeChanges
  <2>2. n \in disturbed' /\ server' = server BY <1>1 DEF NodeChanges, Disturbs
  <2> QED BY <2>1, <2>2 DEF TypeOK
<1>2. ASSUME NEW w \in Window, WindowChanges(w)
      PROVE  /\ w \in disturbed' /\ id' = id
             /\ \A v \in Window \ {w} : window'[v] = window[v]
             /\ \A a \in attached : a[1] # w => a \in attached'
             /\ \A p \in Package : <<w, p>> \in attached => p \in disturbed'
             /\ \A p \in Package : <<w, p>> \notin attached => version'[p] = version[p]
  <2>1. disturbed' = disturbed \cup ({w} \cup {p \in Package : <<w, p>> \in attached}) /\ id' = id
    BY <1>2 DEF WindowChanges, Disturbs
  <2>2. \A v \in Window \ {w} : window'[v] = window[v] BY <1>2 DEF WindowChanges, TypeOK
  <2>3. \A a \in attached : a[1] # w => a \in attached' BY <1>2 DEF WindowChanges
  <2>4. \A p \in Package : <<w, p>> \notin attached => version'[p] = version[p] BY <1>2 DEF WindowChanges
  <2> QED BY <2>1, <2>2, <2>3, <2>4
<1>3. ASSUME NEW p \in Package, PackageChanges(p)
      PROVE  /\ p \in disturbed' /\ id' = id /\ window' = window
             /\ \A a \in attached : a[2] # p => a \in attached'
             /\ \A q \in Package \ {p} : version'[q] = version[q]
  <2>1. disturbed' = disturbed \cup ({p} \cup {w \in Window : <<w, p>> \in attached}) /\ id' = id
        /\ window' = window /\ version' = [version EXCEPT ![p] = @ + 1]
        /\ attached' = {a \in attached : a[2] # p}
    BY <1>3 DEF PackageChanges, Disturbs
  <2> QED BY <2>1 DEF TypeOK
<1> QED BY <1>1, <1>2, <1>3 DEF Others

\* The plan of a window: the present ids of its nodes, something to cover, and "none" only
\* for a definition that is as declared.
LEMMA PreparedStep ==
    ASSUME TypeOK, Ids, Control, Next, NEW w \in Described, Prepared(w)
    PROVE  Prepared(w)'
<1> USE DEF documents, nodes, server, planned, work, others
<1>0. w \in Window /\ w \in Item /\ docs' = docs /\ docs[w].nodes \subseteq Node
  BY Documents, Frame DEF Item, DocumentType
<1>f. ASSUME plan'[w] = plan[w], resolved'[w] = resolved[w], disturbed \subseteq disturbed',
             \A n \in Node \ disturbed' : id'[n] = id[n],
             w \notin disturbed' /\ plan[w] = "none" => window'[w] = window[w]
      PROVE  Prepared(w)'
  <2>1. Desired(w)' = Desired(w) BY <1>f, SameDesired
  <2>2. plan'[w] \in ToDo \cup {"resolved", "searched"} =>
           \A n \in docs'[w].nodes \ disturbed' : id'[n] \in resolved'[w]
    BY <1>0, <1>f DEF Prepared
  <2>3. plan'[w] \in ToDo \cup {"searched"} => Covers(docs[w], resolved[w])'
    BY <1>0, <1>f DEF Prepared, Covers
  <2>4. plan'[w] = "none" /\ w \notin disturbed' => window'[w] = Desired(w)'
    BY <1>f, <2>1 DEF Prepared
  <2> QED BY <2>2, <2>3, <2>4 DEF Prepared, ToDo
<1>1. CASE \/ Gate \/ PlanFails \/ StartExecute \/ NextKind
           \/ \E p \in Package : WritePackage(p)
           \/ \E v \in Window : FailPlanned(v) \/ Report(v) \/ \E t \in Target : Attach(v, t)
  <2>1. UNCHANGED <<nodes, window, planned, others>>
    BY <1>1 DEF Gate, PlanFails, StartExecute, NextKind, WritePackage, FailPlanned, Report, Attach
  <2> QED BY <1>f, <2>1
<1>2. ASSUME NEW p \in Package, PlanPackage(p) PROVE Prepared(w)'
  <2>1. UNCHANGED <<nodes, window, resolved, others>> BY <1>2 DEF PlanPackage
  <2>2. plan'[w] = plan[w] BY <1>0, <1>2, Items DEF PlanPackage, TypeOK
  <2> QED BY <1>f, <2>1, <2>2
<1>3. ASSUME NEW v \in Window, ResolveNodes(v) PROVE Prepared(w)'
  <2>1. UNCHANGED <<nodes, window, others>> BY <1>3 DEF ResolveNodes
  <2>2. CASE v # w
    <3>1. plan'[w] = plan[w] /\ resolved'[w] = resolved[w]
      BY <1>0, <1>3, <2>2 DEF ResolveNodes, TypeOK, Item
    <3> QED BY <1>f, <2>1, <3>1
  <2>3. CASE v = w
    <3>1. resolved'[w] = {id[n] : n \in docs[w].nodes} \ {0} BY <1>0, <1>3, <2>3 DEF ResolveNodes, TypeOK
    <3>2. plan'[w] = IF \E n \in docs[w].nodes : id[n] = 0 THEN "failed" ELSE "resolved"
      BY <1>0, <1>3, <2>3 DEF ResolveNodes, TypeOK
    <3>3. CASE \E n \in docs[w].nodes : id[n] = 0 BY <3>2, <3>3 DEF Prepared, ToDo
    <3>4. CASE \A n \in docs[w].nodes : id[n] # 0
      <4>1. plan'[w] = "resolved" BY <3>2, <3>4
      <4>2. \A n \in docs'[w].nodes : id'[n] \in resolved'[w] BY <1>0, <2>1, <3>1, <3>4
      <4> QED BY <4>1, <4>2 DEF Prepared, ToDo
    <3> QED BY <3>3, <3>4
  <2> QED BY <2>2, <2>3
<1>4. ASSUME NEW v \in Window, SearchNodes(v) PROVE Prepared(w)'
  <2>1. UNCHANGED <<nodes, window, others>> BY <1>4 DEF SearchNodes
  <2> DEFINE ids == resolved[v] \cup (IF docs[v].dynamic THEN {id[n] : n \in matched} ELSE {})
  <2>2. /\ resolved' = [resolved EXCEPT ![v] = ids]
        /\ plan' = [plan EXCEPT ![v] = IF Covers(docs[v], ids) THEN "searched" ELSE "failed"]
        /\ plan[v] = "resolved" /\ resolved[v] \subseteq ids
    BY <1>4 DEF SearchNodes
  <2> HIDE DEF ids
  <2>3. CASE v # w
    <3>1. plan'[w] = plan[w] /\ resolved'[w] = resolved[w] BY <1>0, <2>2, <2>3 DEF TypeOK
    <3> QED BY <1>f, <2>1, <3>1
  <2>4. CASE v = w
    <3>1. resolved'[w] = ids /\ plan'[w] = IF Covers(docs[w], ids) THEN "searched" ELSE "failed"
      BY <1>0, <2>2, <2>4 DEF TypeOK
    <3>2. \A n \in docs[w].nodes \ disturbed : id[n] \in ids BY <2>2, <2>4 DEF Prepared
    <3>3. CASE Covers(docs[w], ids)
      <4>1. plan'[w] = "searched" /\ Covers(docs[w], resolved[w])'
        BY <1>0, <3>1, <3>3 DEF Covers
      <4> QED BY <1>0, <2>1, <3>1, <3>2, <4>1 DEF Prepared, ToDo
    <3>4. CASE ~Covers(docs[w], ids) BY <3>1, <3>4 DEF Prepared, ToDo
    <3> QED BY <3>3, <3>4
  <2> QED BY <2>3, <2>4
<1>5. ASSUME NEW v \in Window, Compare(v) PROVE Prepared(w)'
  <2>1. UNCHANGED <<nodes, window, resolved, others>> BY <1>5 DEF Compare
  <2>2. CASE v # w
    <3>1. plan'[w] = plan[w] BY <1>0, <1>5, <2>2 DEF Compare, TypeOK
    <3> QED BY <1>f, <2>1, <3>1
  <2>3. CASE v = w
    <3>1. plan'[w] = PlannedAction(w, window[w]) /\ plan[w] = "searched"
      BY <1>0, <1>5, <2>3 DEF Compare, TypeOK
    <3>2. PlannedAction(w, window[w]) = "none" => window[w] = Desired(w) BY DEF PlannedAction
    <3>3. Desired(w)' = Desired(w) BY <2>1, SameDesired
    <3>4. \A n \in docs'[w].nodes \ disturbed' : id'[n] \in resolved'[w]
      BY <1>0, <2>1, <3>1 DEF Prepared, ToDo
    <3>5. Covers(docs[w], resolved[w])' BY <1>0, <2>1, <3>1 DEF Prepared, Covers, ToDo
    <3>6. plan'[w] = "none" => window'[w] = Desired(w)' BY <2>1, <3>1, <3>2, <3>3
    <3> QED BY <3>4, <3>5, <3>6 DEF Prepared
  <2> QED BY <2>2, <2>3
<1>6. ASSUME NEW v \in Window, WriteDefinition(v) PROVE Prepared(w)'
  <2>1. UNCHANGED <<nodes, planned, others>> BY <1>6 DEF WriteDefinition
  <2>2. plan[w] = "none" => window'[w] = window[w] BY <1>0, <1>6 DEF WriteDefinition, TypeOK
  <2> QED BY <1>f, <2>1, <2>2
<1>7. CASE Others
  <2>1. w \notin disturbed' => window'[w] = window[w] BY <1>0, <1>7, OthersSpare
  <2>2. \A n \in Node \ disturbed' : id'[n] = id[n] BY <1>7, OthersSpare
  <2> QED BY <1>f, <1>7, <2>1, <2>2, OthersDisturb
<1> QED BY <1>1, <1>2, <1>3, <1>4, <1>5, <1>6, <1>7 DEF Next, Apply, Others

-----------------------------------------------------------------------------
\* Before the windows' turn none of them has a row.
LEMMA NoRowYet ==
    ASSUME Control, NEW w \in Window, phase \in {"plan", "ThreshdPackage"}
    PROVE  row[w] = NotYet /\ left[w] = {}
BY DEF Control, NotYet

\* From the write of its definition on, the server has what the window declares.
LEMMA DefinedStep ==
    ASSUME TypeOK, Ids, Control, Next, NEW w \in Described, Prepared(w), Defined(w)
    PROVE  Defined(w)'
<1> USE DEF documents, nodes, server, planned, work, others
<1>0. w \in Window /\ w \in Item /\ docs' = docs BY Documents, Frame DEF Item
<1>f. ASSUME row'[w] = row[w] \/ row'[w] \notin Writing, plan'[w] = plan[w], resolved'[w] = resolved[w],
             disturbed \subseteq disturbed', w \notin disturbed' => window'[w] = window[w]
      PROVE  Defined(w)'
  <2>1. Desired(w)' = Desired(w) BY <1>f, SameDesired
  <2> QED BY <1>f, <2>1 DEF Defined
<1>1. CASE Gate \/ PlanFails \/ StartExecute \/ NextKind \/ \E v \in Window, t \in Target : Attach(v, t)
  <2>1. UNCHANGED <<window, planned, row, others>>
    BY <1>1 DEF Gate, PlanFails, StartExecute, NextKind, Attach
  <2> QED BY <1>f, <2>1
<1>2. CASE PlanStep
  <2>1. row'[w] = NotYet BY <1>0, <1>2, Plans, NoRowYet
  <2> QED BY <2>1 DEF Defined, Writing, NotYet
<1>3. ASSUME NEW p \in Package, WritePackage(p) PROVE Defined(w)'
  <2>1. row'[w] = row[w] BY <1>0, <1>3, PackageRow, Items
  <2>2. UNCHANGED <<window, planned, others>> BY <1>3 DEF WritePackage
  <2> QED BY <1>f, <2>1, <2>2
<1>4. ASSUME NEW v \in Window, FailPlanned(v) PROVE Defined(w)'
  <2>1. UNCHANGED <<window, planned, others>> BY <1>4 DEF FailPlanned
  <2>2. v \in Item /\ SetRow(v, "failed") BY <1>4 DEF FailPlanned, Item
  <2>3. row'[w] = row[w] \/ row'[w] = "failed" BY <1>0, <2>2, OneRow
  <2> QED BY <1>f, <2>1, <2>3 DEF Writing
<1>5. ASSUME NEW v \in Window, WriteDefinition(v) PROVE Defined(w)'
  <2>1. UNCHANGED <<planned, others>> BY <1>5 DEF WriteDefinition
  <2>2. v \in Item /\ phase = "Maintenance" /\ v \in Described /\ plan[v] # "failed"
    BY <1>5 DEF WriteDefinition, Starts, Item
  <2>3. plan[v] \in ToDo BY <2>2 DEF Control, Planned
  <2>4. CASE v # w
    <3>1. row'[w] = row[w] BY <1>0, <1>5, <2>2, <2>4, OneRow DEF WriteDefinition
    <3>2. window'[w] = window[w] BY <1>0, <1>5, <2>4 DEF WriteDefinition, TypeOK
    <3> QED BY <1>f, <2>1, <3>1, <3>2
  <2>5. CASE v = w
    <3>1. Desired(w)' = Desired(w) BY <2>1, SameDesired
    <3>2. CASE SetRow(w, "write failed")
      <4>1. row'[w] = "write failed" BY <1>0, <3>2, OneRow
      <4> QED BY <4>1 DEF Defined, Writing
    <3>3. CASE plan[w] = "none" /\ window' = window
      BY <2>1, <2>3, <2>5, <3>1, <3>3 DEF Defined, Prepared
    <3>4. CASE window' = [window EXCEPT ![w] = Desired(w)]
      <4>1. window'[w] = Desired(w) BY <1>0, <3>4 DEF TypeOK
      <4> QED BY <2>1, <2>3, <2>5, <3>1, <4>1 DEF Defined
    <3> QED BY <1>5, <2>5, <3>2, <3>3, <3>4 DEF WriteDefinition
  <2> QED BY <2>4, <2>5
<1>6. ASSUME NEW v \in Window, Report(v) PROVE Defined(w)'
  <2>1. UNCHANGED <<window, planned, others>> BY <1>6 DEF Report
  <2>2. CASE v # w
    <3>1. row'[w] = row[w] BY <1>0, <1>6, <2>2, OneRow DEF Report, Item
    <3> QED BY <1>f, <2>1, <3>1
  <2>3. CASE v = w /\ row[w] = "attaching"
    <3>1. row[w] \in Writing BY <2>3 DEF Writing
    <3>2. Desired(w)' = Desired(w) BY <2>1, SameDesired
    <3> QED BY <2>1, <3>1, <3>2 DEF Defined
  <2>4. CASE v = w /\ row[w] = "write failed"
    <3>1. SetRow(w, "failed") BY <1>6, <2>4 DEF Report
    <3>2. row'[w] = "failed" BY <1>0, <3>1, OneRow
    <3> QED BY <3>2 DEF Defined, Writing
  <2> QED BY <1>6, <2>2, <2>3, <2>4 DEF Report
<1>7. CASE Others
  <2>1. w \notin disturbed' => window'[w] = window[w] BY <1>0, <1>7, OthersSpare
  <2> QED BY <1>f, <1>7, <2>1, OthersDisturb
<1> QED BY <1>1, <1>2, <1>3, <1>4, <1>5, <1>6, <1>7 DEF Next, Apply, Others, PlanStep

\* Each target of a window is still to be attached, attached or failed, and a window with a
\* failed target does not report success.
LEMMA HonouredStep ==
    ASSUME TypeOK, Control, Next, NEW w \in Described, Honoured(w)
    PROVE  Honoured(w)'
<1> USE DEF documents, nodes, server, planned, work, others
<1>0. w \in Window /\ w \in Item /\ docs' = docs /\ Targets(docs[w])' = Targets(docs[w])
      /\ Targets(docs[w]) \subseteq Target
  BY Documents, Frame DEF Item, Targets
<1>f. ASSUME row'[w] = row[w] \/ row'[w] = "failed" \/ row'[w] = "write failed",
             left'[w] = left[w], failedTarget' = failedTarget,
             disturbed \subseteq disturbed',
             w \notin disturbed' =>
                \A t : <<w, t>> \in attached /\ t \notin disturbed' => <<w, t>> \in attached'
      PROVE  Honoured(w)'
  BY <1>0, <1>f DEF Honoured, Writing, Succeeded
<1>1. CASE Gate \/ PlanFails \/ StartExecute \/ NextKind \/ PlanStep
  <2>1. UNCHANGED <<attached, row, work, others>>
    BY <1>1, Plans DEF Gate, PlanFails, StartExecute, NextKind
  <2> QED BY <1>f, <2>1
<1>2. ASSUME NEW p \in Package, WritePackage(p) PROVE Honoured(w)'
  <2>1. row'[w] = row[w] BY <1>0, <1>2, PackageRow, Items
  <2>2. UNCHANGED <<attached, work, others>> BY <1>2 DEF WritePackage
  <2> QED BY <1>f, <2>1, <2>2
<1>3. ASSUME NEW v \in Window, FailPlanned(v) PROVE Honoured(w)'
  <2>1. UNCHANGED <<attached, work, others>> BY <1>3 DEF FailPlanned
  <2>2. v \in Item /\ SetRow(v, "failed") BY <1>3 DEF FailPlanned, Item
  <2>3. row'[w] = row[w] \/ row'[w] = "failed" BY <1>0, <2>2, OneRow
  <2> QED BY <1>f, <2>1, <2>3
<1>4. ASSUME NEW v \in Window, WriteDefinition(v) PROVE Honoured(w)'
  <2>1. UNCHANGED <<attached, failedTarget, others>> BY <1>4 DEF WriteDefinition
  <2>2. v \in Item BY DEF Item
  <2>3. CASE v # w
    <3>1. row'[w] = row[w] BY <1>0, <1>4, <2>2, <2>3, OneRow DEF WriteDefinition
    <3>2. left'[w] = left[w] BY <1>0, <1>4, <2>3 DEF WriteDefinition, TypeOK
    <3> QED BY <1>f, <2>1, <3>1, <3>2
  <2>4. CASE v = w /\ SetRow(w, "write failed")
    <3>1. row'[w] = "write failed" BY <1>0, <2>4, OneRow
    <3> QED BY <3>1 DEF Honoured, Writing, Succeeded
  <2>5. CASE v = w /\ SetRow(w, "attaching") /\ left' = [left EXCEPT ![w] = Targets(docs[w])]
    <3>1. row'[w] = "attaching" BY <1>0, <2>5, OneRow
    <3>2. left'[w] = Targets(docs[w]) BY <1>0, <2>5 DEF TypeOK
    <3> QED BY <1>0, <3>1, <3>2 DEF Honoured, Succeeded
  <2> QED BY <1>4, <2>3, <2>4, <2>5 DEF WriteDefinition, Attaches
<1>5. ASSUME NEW v \in Window, Report(v) PROVE Honoured(w)'
  <2>1. UNCHANGED <<attached, work, others>> BY <1>5 DEF Report
  <2>2. v \in Item BY DEF Item
  <2>3. CASE v # w
    <3>1. row'[w] = row[w] BY <1>0, <1>5, <2>2, <2>3, OneRow DEF Report
    <3> QED BY <1>f, <2>1, <3>1
  <2>4. CASE v = w /\ (row[w] = "write failed" \/ \E t \in Target : <<w, t>> \in failedTarget)
    <3>1. SetRow(w, "failed") BY <1>5, <2>4 DEF Report
    <3>2. row'[w] = "failed" BY <1>0, <3>1, OneRow
    <3> QED BY <1>f, <2>1, <3>2
  <2>5. CASE v = w /\ ~(row[w] = "write failed" \/ \E t \in Target : <<w, t>> \in failedTarget)
    <3>1. row[w] = "attaching" /\ left[w] = {} BY <1>5, <2>5 DEF Report
    <3>2. row[w] \in Writing BY <3>1 DEF Writing
    <3>3. left'[w] = {} /\ \A t \in Target : <<w, t>> \notin failedTarget' BY <2>1, <2>5, <3>1
    <3>4. w \notin disturbed => \A t \in Targets(docs[w]) \ disturbed : <<w, t>> \in attached
      BY <1>0, <2>5, <3>1, <3>2 DEF Honoured
    <3> QED BY <1>0, <2>1, <3>3, <3>4 DEF Honoured
  <2> QED BY <2>3, <2>4, <2>5
<1>6. ASSUME NEW v \in Window, NEW t \in Target, Attach(v, t) PROVE Honoured(w)'
  <2>1. UNCHANGED <<row, others>> /\ attached \subseteq attached' BY <1>6 DEF Attach
  <2>2. t \in left[v] /\ left' = [left EXCEPT ![v] = @ \ {t}] BY <1>6 DEF Attach
  <2>3. /\ <<v, t>> \in attached' \cup failedTarget'
        /\ failedTarget \subseteq failedTarget' /\ failedTarget' \subseteq failedTarget \cup {<<v, t>>}
    BY <1>6 DEF Attach
  <2>4. CASE v # w
    <3>1. left'[w] = left[w] BY <1>0, <2>2, <2>4 DEF TypeOK
    <3>2. \A u : <<w, u>> \in failedTarget' <=> <<w, u>> \in failedTarget BY <2>3, <2>4
    <3> QED BY <1>0, <2>1, <3>1, <3>2 DEF Honoured, Succeeded
  <2>5. CASE v = w
    <3>1. row[w] = "attaching" BY <2>2, <2>5, <1>0 DEF Control
    <3>2. left'[w] = left[w] \ {t} BY <1>0, <2>2, <2>5 DEF TypeOK
    <3>3. \A u : u \in left[w] => u \in left'[w] \/ <<w, u>> \in attached' \/ <<w, u>> \in failedTarget'
      BY <2>3, <2>5, <3>2
    <3> QED BY <1>0, <2>1, <2>3, <3>1, <3>3 DEF Honoured, Succeeded
  <2> QED BY <2>4, <2>5
<1>7. CASE Others
  <2>1. w \notin disturbed' =>
           \A t : <<w, t>> \in attached /\ t \notin disturbed' => <<w, t>> \in attached'
    BY <1>0, <1>7, OthersSpare
  <2> QED BY <1>f, <1>7, <2>1, OthersDisturb
<1> QED BY <1>1, <1>2, <1>3, <1>4, <1>5, <1>6, <1>7 DEF Next, Apply, Others, PlanStep

\* A package that nobody else touched has, until it is written, the version that was read.
LEMMA KeptStep ==
    ASSUME TypeOK, Control, Next, NEW p \in packageDocs, Kept(p)
    PROVE  Kept(p)'
<1> USE DEF documents, nodes, server, planned, work, others
<1>0. p \in Package /\ p \in Item /\ p \in packageDocs' BY Frame DEF TypeOK, Item
<1>f. ASSUME row'[p] = row[p], plan'[p] = plan[p], etag' = etag, disturbed \subseteq disturbed',
             p \notin disturbed' => version'[p] = version[p],
             phase' \in {"plan", "ThreshdPackage"} => phase \in {"plan", "ThreshdPackage"}
      PROVE  Kept(p)'
  BY <1>f DEF Kept
<1>1. CASE Gate \/ PlanFails \/ StartExecute \/ NextKind
  <2>1. UNCHANGED <<version, etag, plan, row, others>>
    BY <1>1 DEF Gate, PlanFails, StartExecute, NextKind
  <2>2. phase' \in {"plan", "ThreshdPackage"} => phase \in {"plan", "ThreshdPackage"}
    BY <1>1 DEF Gate, PlanFails, StartExecute, NextKind, Planning, Kinds
  <2> QED BY <1>f, <2>1, <2>2
<1>2. ASSUME NEW w \in Window, ResolveNodes(w) \/ SearchNodes(w) \/ Compare(w) PROVE Kept(p)'
  <2>1. UNCHANGED <<version, etag, phase, row, others>> BY <1>2 DEF ResolveNodes, SearchNodes, Compare
  <2>2. w # p BY <1>0, Items
  <2>3. plan'[p] = plan[p] BY <1>0, <1>2, <2>2 DEF ResolveNodes, SearchNodes, Compare, TypeOK
  <2> QED BY <1>f, <2>1, <2>3
<1>3. ASSUME NEW q \in Package, PlanPackage(q) PROVE Kept(p)'
  <2>1. UNCHANGED <<version, phase, row, others>> BY <1>3 DEF PlanPackage
  <2>2. etag' = [etag EXCEPT ![q] = version[q]] BY <1>3 DEF PlanPackage
  <2>3. CASE q = p
    <3>1. etag'[p] = version'[p] BY <1>0, <2>1, <2>2, <2>3 DEF TypeOK
    <3> QED BY <2>1, <3>1 DEF Kept
  <2>4. CASE q # p
    <3>1. etag'[p] = etag[p] BY <1>0, <2>2, <2>4 DEF TypeOK
    <3>2. plan'[p] = plan[p] BY <1>0, <1>3, <2>4 DEF PlanPackage, TypeOK
    <3> QED BY <2>1, <3>1, <3>2 DEF Kept
  <2> QED BY <2>3, <2>4
<1>4. ASSUME NEW q \in Package, WritePackage(q) PROVE Kept(p)'
  <2>1. UNCHANGED <<etag, phase, plan, others>> /\ phase = "ThreshdPackage" /\ row[q] = NotYet
    BY <1>4 DEF WritePackage
  <2>2. CASE q # p
    <3>1. row'[p] = row[p] BY <1>0, <1>4, <2>2, PackageRow
    <3>2. version'[p] = version[p] BY <1>0, <1>4, <2>2 DEF WritePackage, TypeOK
    <3> QED BY <1>f, <2>1, <3>1, <3>2
  <2>3. CASE q = p
    <3>1. row'[p] # NotYet BY <1>4, <2>3, PackageRow DEF NotYet
    <3>2. plan[p] # NotYet BY <2>1 DEF Control, Planned, ToDo, NotYet
    <3>3. row'[p] = "changed since plan" => version[p] # etag[p] BY <1>4, <2>3, PackageRow
    <3>4. p \notin disturbed => version[p] = etag[p] BY <2>1, <2>3, <3>2 DEF Kept
    <3> QED BY <2>1, <3>1, <3>3, <3>4 DEF Kept
  <2> QED BY <2>2, <2>3
<1>5. ASSUME NEW w \in Window, FailPlanned(w) \/ WriteDefinition(w) \/ Report(w) PROVE Kept(p)'
  <2>1. UNCHANGED <<version, etag, plan, phase, others>> BY <1>5 DEF FailPlanned, WriteDefinition, Report
  <2>2. w # p /\ w \in Item BY <1>0, Items
  <2>3. row'[p] = row[p] BY <1>0, <1>5, <2>2, OneRow DEF FailPlanned, WriteDefinition, Report
  <2> QED BY <1>f, <2>1, <2>3
<1>6. ASSUME NEW w \in Window, NEW t \in Target, Attach(w, t) PROVE Kept(p)'
  <2>1. UNCHANGED <<row, phase, others>> /\ t \in left[w] BY <1>6 DEF Attach
  <2>2. phase \notin {"plan", "ThreshdPackage"} BY <2>1, NoRowYet
  <2> QED BY <2>1, <2>2 DEF Kept
<1>7. CASE Others
  <2>1. p \notin disturbed' => version'[p] = version[p] BY <1>0, <1>7, OthersSpare
  <2> QED BY <1>f, <1>7, <2>1, OthersDisturb
<1> QED BY <1>1, <1>2, <1>3, <1>4, <1>5, <1>6, <1>7 DEF Next, Apply, Others

-----------------------------------------------------------------------------
\* Before the plan nothing is promised of a window or a package.
LEMMA InitIInv == Init => IInv
<1> SUFFICES ASSUME Init PROVE IInv OBVIOUS
<1>1. TypeOK /\ Ids BY InitTyped
<1>2. phase = "plan" /\ \A x \in Item : plan[x] = NotYet /\ row[x] = NotYet BY DEF Init
<1>3. \A w \in Window : left[w] = {} BY DEF Init
<1>4. Control BY <1>2, <1>3 DEF Control, Item
<1>5. ASSUME NEW w \in Described PROVE Prepared(w) /\ Defined(w) /\ Honoured(w)
  <2>1. plan[w] = NotYet /\ row[w] = NotYet BY <1>1, <1>2, Documents DEF Item
  <2> QED BY <2>1 DEF Prepared, Defined, Honoured, ToDo, Writing, Succeeded, NotYet
<1>6. ASSUME NEW p \in packageDocs PROVE Kept(p)
  <2>1. plan[p] = NotYet /\ row[p] = NotYet BY <1>1, <1>2 DEF TypeOK, Item
  <2> QED BY <2>1 DEF Kept, NotYet
<1> QED BY <1>1, <1>4, <1>5, <1>6 DEF IInv

\* Every step keeps what is promised of every window and package.
LEMMA NextIInv == IInv /\ [Next]_vars => IInv'
<1> SUFFICES ASSUME IInv, [Next]_vars PROVE IInv' OBVIOUS
<1>1. CASE Next
  <2>1. TypeOK' /\ Ids' BY TypeStep DEF IInv
  <2>2. Control' BY <1>1, ControlStep DEF IInv
  <2>3. Described' = Described /\ packageDocs' = packageDocs BY <1>1, Frame DEF documents, Described
  <2>4. ASSUME NEW w \in Described PROVE Prepared(w)' /\ Defined(w)' /\ Honoured(w)'
    BY <1>1, PreparedStep, DefinedStep, HonouredStep DEF IInv
  <2>5. ASSUME NEW p \in packageDocs PROVE Kept(p)' BY <1>1, KeptStep DEF IInv
  <2> QED BY <2>1, <2>2, <2>3, <2>4, <2>5 DEF IInv
<1>2. CASE UNCHANGED vars
  BY <1>2 DEF vars, documents, nodes, server, planned, work, others, IInv, TypeOK, Ids, Control,
              Prepared, Defined, Honoured, Kept, Described, Desired, Succeeded
<1> QED BY <1>1, <1>2

\* What is promised of each window and package holds throughout every apply.
THEOREM Strengthened == Spec => []IInv
BY InitIInv, NextIInv, PTL DEF Spec

\* A window reported as applied is defined as declared, covers something and is honoured by
\* every daemon it names, and the windows never make the apply's own packages fail.
THEOREM RowsHold == Spec => []MaintenanceInv
<1>1. ASSUME IInv PROVE MaintenanceInv
  <2>1. TypeOK BY <1>1 DEF IInv
  <2>2. ASSUME NEW w \in Described, Succeeded(w), w \notin disturbed
        PROVE  /\ window[w] = Desired(w)
               /\ window[w].ids # {} \/ window[w].interfaces # "none"
               /\ \A n \in docs[w].nodes \ disturbed : id[n] \in window[w].ids
               /\ \A t \in Targets(docs[w]) \ disturbed : <<w, t>> \in attached
    <3>1. row[w] \in Writing BY <2>2 DEF Succeeded, Writing
    <3>2. Prepared(w) /\ Defined(w) /\ Honoured(w) BY <1>1 DEF IInv
    <3>3. window[w] = Desired(w) /\ plan[w] \in ToDo BY <2>2, <3>1, <3>2 DEF Defined
    <3>4. window[w].ids = resolved[w] /\ window[w].interfaces = docs[w].interfaces
      BY <3>3 DEF Desired
    <3>5. Covers(docs[w], resolved[w]) /\ \A n \in docs[w].nodes \ disturbed : id[n] \in resolved[w]
      BY <3>2, <3>3 DEF Prepared
    <3>6. \A t \in Targets(docs[w]) \ disturbed : <<w, t>> \in attached
      <4>1. Targets(docs[w]) \subseteq Target BY <2>1, Documents
      <4> QED BY <2>2, <3>1, <3>2, <4>1 DEF Honoured
    <3> QED BY <3>3, <3>4, <3>5, <3>6 DEF Covers
  <2>3. OwnAttachSparesPackages BY <1>1 DEF IInv, Kept, OwnAttachSparesPackages
  <2> QED BY <2>1, <2>2, <2>3 DEF MaintenanceInv, RowsAreTrue
<1> QED BY <1>1, Strengthened, PTL

\* No daemon is made to honour a definition that the apply has failed to write.
THEOREM AttachFollows == Spec => AttachFollowsDefinition
<1> DEFINE Follows == \A w \in Described : disturbed' = disturbed /\ w \notin disturbed =>
                         \A t \in Target : <<w, t>> \in attached' \ attached => window[w] = Desired(w)
<1>1. ASSUME IInv, [Next]_vars PROVE Follows
  <2> SUFFICES ASSUME NEW w \in Described, w \notin disturbed, NEW t \in Target,
                      <<w, t>> \in attached' \ attached
               PROVE  window[w] = Desired(w)
    OBVIOUS
  <2>1. \E v \in Window, u \in Target : Attach(v, u)
    <3>1. ASSUME ~\E v \in Window, u \in Target : Attach(v, u) PROVE attached' \subseteq attached
      <4> USE DEF server, documents, work, vars
      <4>1. CASE Others
        BY <4>1 DEF Others, NodeChanges, WindowChanges, PackageChanges
      <4>2. CASE PlanStep BY <4>2, Plans
      <4>3. CASE Apply /\ ~PlanStep
        BY <3>1, <4>3 DEF Apply, PlanStep, Gate, PlanFails, StartExecute, NextKind, WritePackage,
                          FailPlanned, WriteDefinition, Report
      <4> QED BY <1>1, <4>1, <4>2, <4>3 DEF Next, Others
    <3> QED BY <3>1
  <2>2. PICK v \in Window, u \in Target : Attach(v, u) BY <2>1
  <2>3. attached' \subseteq attached \cup {<<v, u>>} /\ u \in left[v] BY <2>2 DEF Attach
  <2>4. v = w BY <2>3
  <2>5. row[w] = "attaching" BY <1>1, <2>3, <2>4 DEF IInv, Control
  <2> QED BY <1>1, <2>5 DEF IInv, Defined, Writing
<1> QED BY <1>1, Strengthened, PTL DEF Spec, AttachFollowsDefinition
=============================================================================
