--------------------------- MODULE MaintenanceApply ---------------------------
(***************************************************************************)
(* Applying `kind: Maintenance` documents (onmsctl-maintenance/src) in the *)
(* same `onmsctl apply` as `kind: ThreshdPackage` documents.               *)
(*                                                                         *)
(* A window is a definition, which can be read and compared, and its       *)
(* attachments to daemon packages, which cannot be read: they are made     *)
(* again by every apply and never undone.  An attachment is stored in the  *)
(* package, so it changes the version that a package document's            *)
(* conditional write (If-Match) was planned against.                       *)
(***************************************************************************)
EXTENDS Naturals

CONSTANTS
    Window, Node,
    Package,    \* threshd packages; each is a target of an attachment
    Notifd,     \* the target without a package
    Document,   \* the window documents that may be applied
    Absent,
    MaxOthers   \* how often the server changes by another operator's hand

Target == Package \cup {Notifd}
NodeId == 0 .. MaxOthers + 1 \* a node gets a new id when it is imported again; 0: not imported

\* A window document: foreign references, whether category, location or asset selectors
\* are given, the interfaces ("any" is match-any), and the packages of `suppress`
\* (Absent when the daemon is not named) with its notifications flag.
DocumentType ==
    [nodes : SUBSET Node, dynamic : BOOLEAN, interfaces : {"none", "some", "any"},
     packages : {Absent} \cup SUBSET Package, notifications : BOOLEAN]

\* A stored definition: node ids, interfaces, and whether the schedule is as declared.
Definition ==
    [ids : SUBSET (NodeId \ {0}), interfaces : {"none", "some", "any"}, schedule : BOOLEAN]

ASSUME MaintenanceAssumption ==
    /\ Document \subseteq DocumentType
    /\ Window \cap Package = {}       \* a window and a package of one name are two things
    /\ Notifd \notin Package /\ Absent \notin Definition \cup Target
    /\ MaxOthers \in Nat

VARIABLES
    docs,         \* the windows that have a document, and which
    packageDocs,  \* the packages that have a document
    id,           \* the id of each node
    matched,      \* the nodes that the dynamic selectors match
    window,       \* the definitions on the server
    attached,     \* <<window, target>>: the daemons that honour it
    version,      \* of each package; 0 when there is no such package
    phase,        \* "plan", then the kind being executed, "done" or "refused"
    resolved,     \* the ids found for a window document so far
    etag,         \* the package version read while planning
    plan, row,    \* of windows and packages
    left,         \* the targets a window has still to be attached to
    failedTarget, \* the targets whose PUT failed
    disturbed,    \* windows, packages and nodes that another operator touched
    changes       \* and how often

documents == <<docs, packageDocs>>
nodes == <<id, matched>>
server == <<window, attached, version>>
planned == <<resolved, etag, plan>>
work == <<left, failedTarget>>
others == <<disturbed, changes>>
vars == <<documents, nodes, server, phase, planned, row, work, others>>

Item == Window \cup Package
NotYet == "not yet"
Described == DOMAIN docs
Idle == phase \in {"done", "refused"}

-----------------------------------------------------------------------------
\* Names of the form <definition>_<bug> are slips the code could have made.

\* validate, validate_devices and validate_suppress.
Valid(d) ==
    /\ d.nodes # {} \/ d.dynamic \/ d.interfaces # "none"
    /\ d.interfaces = "any" => d.nodes = {} /\ ~d.dynamic
    /\ d.packages # Absent \/ d.notifications
    /\ d.packages # {}

\* attachment_targets.
Targets(d) ==
    (IF d.packages = Absent THEN {} ELSE d.packages)
        \cup (IF d.notifications THEN {Notifd} ELSE {})

\* to_wire, over the ids that were resolved.
Desired(w) == [ids |-> resolved[w], interfaces |-> docs[w].interfaces, schedule |-> TRUE]

\* A window that would cover nothing is not written.
Covers(d, ids) == ids # {} \/ d.interfaces # "none"

PlannedAction(w, live) ==
    CASE live = Absent -> "create"
      [] live = Desired(w) -> "none"
      [] OTHER -> "update"

\* The attachments are made also when the definition is already in place.
Attaches_OnWriteOnly(action) == IF action = "none" THEN FALSE ELSE TRUE
Attaches(action) == TRUE

\* What follows a failed definition write: nothing.
AfterFailedWrite_Attaches(d) == Targets(d)
AfterFailedWrite(d) == {}

\* precedence::precedence: ThreshdPackage 230, Maintenance 350.
Kinds == <<"ThreshdPackage", "Maintenance">>

Success(action) ==
    CASE action = "create" -> "Created" [] action = "update" -> "Updated"
      [] OTHER -> "Unchanged"

-----------------------------------------------------------------------------
\* A definition from before the apply, over one node.
Stored(interfaces, schedule) ==
    [ids |-> {1}, interfaces |-> interfaces, schedule |-> schedule]

Init ==
    /\ docs \in UNION {[D -> Document] : D \in (SUBSET Window) \ {{}}}
    /\ packageDocs \in SUBSET Package
    /\ id \in [Node -> {0, 1}] /\ matched \in SUBSET {n \in Node : id[n] # 0}
    /\ window \in [Window -> {Absent, Stored("none", FALSE), Stored("some", TRUE)}]
    /\ version \in [Package -> {0, 1}]
    /\ attached \in SUBSET {a \in Window \X Target :
                               window[a[1]] # Absent /\ (a[2] \in Package => version[a[2]] # 0)}
    /\ phase = "plan"
    /\ resolved = [w \in Window |-> {}]
    /\ etag = [p \in Package |-> 0]
    /\ plan = [x \in Item |-> NotYet] /\ row = [x \in Item |-> NotYet]
    /\ left = [w \in Window |-> {}] /\ failedTarget = {}
    /\ disturbed = {} /\ changes = 0

(* What other operators do. *)

Disturbs(things) ==
    /\ changes < MaxOthers /\ ~Idle
    /\ changes' = changes + 1
    /\ disturbed' = disturbed \cup things

\* A node is imported, imported again, or removed; selectors match it or not.
NodeChanges(n) ==
    /\ Disturbs({n})
    /\ \E i \in {0, id[n] + 1} : id' = [id EXCEPT ![n] = i]
    /\ matched' \in {matched \ {n}} \cup (IF id'[n] = 0 THEN {} ELSE {matched \cup {n}})
    /\ UNCHANGED <<documents, server, phase, planned, row, work>>

\* A definition is edited, or torn down by `onmsctl maintenance delete`: it is removed
\* from every daemon as well.
WindowChanges(w) ==
    /\ Disturbs({w} \cup {p \in Package : <<w, p>> \in attached})
    /\ window[w] # Absent
    /\ \/ window' = [window EXCEPT ![w].schedule = FALSE] /\ UNCHANGED <<attached, version>>
       \/ /\ window' = [window EXCEPT ![w] = Absent]
          /\ attached' = {a \in attached : a[1] # w}
          /\ version' = [p \in Package |-> IF <<w, p>> \in attached THEN version[p] + 1
                                           ELSE version[p]]
    /\ UNCHANGED <<documents, nodes, phase, planned, row, work>>

\* A package is edited (it loses its attachments) or created.
PackageChanges(p) ==
    /\ Disturbs({p} \cup {w \in Window : <<w, p>> \in attached})
    /\ version' = [version EXCEPT ![p] = @ + 1]
    /\ attached' = {a \in attached : a[2] # p}
    /\ UNCHANGED <<documents, nodes, window, phase, planned, row, work>>

(* plan *)

\* Every document is parsed and validated before the first request.
Gate ==
    /\ phase = "plan" /\ \E w \in Described : ~Valid(docs[w])
    /\ phase' = "refused"
    /\ UNCHANGED <<documents, nodes, server, planned, row, work, others>>

\* Packages are planned before windows, and one document after the other.
Planning == phase = "plan" /\ \A w \in Described : Valid(docs[w])
Turn(w) ==
    /\ Planning /\ w \in Described /\ \A p \in packageDocs : plan[p] # NotYet
    /\ \A v \in Window \ {w} : plan[v] \notin {"resolved", "searched"}

\* The foreign references, one request each; one that does not resolve fails its window.
ResolveNodes(w) ==
    /\ Turn(w) /\ plan[w] = NotYet
    /\ resolved' = [resolved EXCEPT ![w] = {id[n] : n \in docs[w].nodes} \ {0}]
    /\ plan' = [plan EXCEPT ![w] = IF \E n \in docs[w].nodes : id[n] = 0
                                   THEN "failed" ELSE "resolved"]
    /\ UNCHANGED <<documents, nodes, server, phase, etag, row, work, others>>

\* The search of the dynamic selectors.
SearchNodes(w) ==
    /\ Turn(w) /\ plan[w] = "resolved"
    /\ LET ids == resolved[w] \cup (IF docs[w].dynamic THEN {id[n] : n \in matched} ELSE {})
       IN /\ resolved' = [resolved EXCEPT ![w] = ids]
          /\ plan' = [plan EXCEPT ![w] = IF Covers(docs[w], ids) THEN "searched" ELSE "failed"]
    /\ UNCHANGED <<documents, nodes, server, phase, etag, row, work, others>>

\* The deployed definition.
Compare(w) ==
    /\ Turn(w) /\ plan[w] = "searched"
    /\ plan' = [plan EXCEPT ![w] = PlannedAction(w, window[w])]
    /\ UNCHANGED <<documents, nodes, server, phase, resolved, etag, row, work, others>>

\* A package document of the same apply: this module only says that it is to be written.
PlanPackage(p) ==
    /\ Planning /\ p \in packageDocs /\ plan[p] = NotYet
    /\ etag' = [etag EXCEPT ![p] = version[p]]
    /\ plan' = [plan EXCEPT ![p] = IF version[p] = 0 THEN "create" ELSE "update"]
    /\ UNCHANGED <<documents, nodes, server, phase, resolved, row, work, others>>

\* A request of the plan fails, or a search is answered in part (truncated).
PlanFails ==
    /\ Planning /\ phase' = "refused"
    /\ UNCHANGED <<documents, nodes, server, planned, row, work, others>>

StartExecute ==
    /\ Planning
    /\ \A x \in Described \cup packageDocs : plan[x] \notin {NotYet, "resolved", "searched"}
    /\ phase' = Kinds[1]
    /\ UNCHANGED <<documents, nodes, server, planned, row, work, others>>

(* execute *)

SetRow(x, r) == row' = [row EXCEPT ![x] = r]

\* The package document's POST or conditional PUT.
WritePackage(p) ==
    /\ phase = "ThreshdPackage" /\ p \in packageDocs /\ row[p] = NotYet
    /\ \/ /\ version[p] = etag[p]
          /\ version' = [version EXCEPT ![p] = @ + 1]
          /\ SetRow(p, Success(plan[p])) \/ SetRow(p, "failed")
       \/ version[p] # etag[p] /\ SetRow(p, "changed since plan") /\ UNCHANGED version
       \/ SetRow(p, "failed") /\ UNCHANGED version
    /\ UNCHANGED <<documents, nodes, window, attached, phase, planned, work, others>>

Starts(w) ==
    /\ phase = "Maintenance" /\ w \in Described /\ row[w] = NotYet
    /\ \A v \in Window : row[v] \notin {"attaching", "write failed"}

FailPlanned(w) ==
    /\ Starts(w) /\ plan[w] = "failed" /\ SetRow(w, "failed")
    /\ UNCHANGED <<documents, nodes, server, phase, planned, work, others>>

\* The definition: POST creates or replaces it.
WriteDefinition(w) ==
    /\ Starts(w) /\ plan[w] # "failed"
    /\ \/ plan[w] = "none" /\ SetRow(w, "attaching") /\ UNCHANGED window
          /\ left' = [left EXCEPT ![w] = IF Attaches("none") THEN Targets(docs[w]) ELSE {}]
       \/ /\ plan[w] # "none" /\ SetRow(w, "attaching")
          /\ window' = [window EXCEPT ![w] = Desired(w)]
          /\ left' = [left EXCEPT ![w] = Targets(docs[w])]
       \/ /\ plan[w] # "none" /\ SetRow(w, "write failed")
          /\ window' \in {window, [window EXCEPT ![w] = Desired(w)]}
          /\ left' = [left EXCEPT ![w] = AfterFailedWrite(docs[w])]
    /\ UNCHANGED <<documents, nodes, attached, version, phase, planned, failedTarget, others>>

\* One PUT; the next target is tried whatever becomes of it.
Attach(w, t) ==
    /\ t \in left[w]
    /\ left' = [left EXCEPT ![w] = @ \ {t}]
    /\ \/ /\ window[w] # Absent /\ (t \in Package => version[t] # 0)
          /\ attached' = attached \cup {<<w, t>>}
          /\ version' = IF t \in Package THEN [version EXCEPT ![t] = @ + 1] ELSE version
          /\ failedTarget' \in {failedTarget, failedTarget \cup {<<w, t>>}}
       \/ failedTarget' = failedTarget \cup {<<w, t>>} /\ UNCHANGED <<attached, version>>
    /\ UNCHANGED <<documents, nodes, window, phase, planned, row, others>>

\* The window's one row.
Report(w) ==
    /\ row[w] \in {"attaching", "write failed"} /\ left[w] = {}
    /\ SetRow(w, IF row[w] = "write failed" \/ \E t \in Target : <<w, t>> \in failedTarget
                 THEN "failed" ELSE Success(plan[w]))
    /\ UNCHANGED <<documents, nodes, server, phase, planned, work, others>>

\* The router: a failed row ends the apply, unless it runs with --continue-on-error.
NextKind ==
    /\ \A x \in IF phase = "Maintenance" THEN Described ELSE packageDocs :
          row[x] \notin {NotYet, "attaching", "write failed"}
    /\ \/ phase = Kinds[1] /\ phase' = Kinds[2]
       \/ phase = Kinds[1] /\ \E x \in Item : row[x] = "failed" /\ phase' = "done"
       \/ phase = Kinds[2] /\ phase' = "done"
    /\ UNCHANGED <<documents, nodes, server, planned, row, work, others>>

Apply ==
    \/ Gate \/ PlanFails \/ StartExecute \/ NextKind
    \/ \E p \in Package : PlanPackage(p) \/ WritePackage(p)
    \/ \E w \in Window :
          \/ ResolveNodes(w) \/ SearchNodes(w) \/ Compare(w)
          \/ FailPlanned(w) \/ WriteDefinition(w) \/ Report(w)
          \/ \E t \in Target : Attach(w, t)

Next ==
    \/ Apply
    \/ \E n \in Node : NodeChanges(n)
    \/ \E w \in Window : WindowChanges(w)
    \/ \E p \in Package : PackageChanges(p)

Spec == Init /\ [][Next]_vars

-----------------------------------------------------------------------------
\* Type invariant of an apply of maintenance windows.
TypeOK ==
    /\ docs \in UNION {[D -> Document] : D \in SUBSET Window} /\ packageDocs \subseteq Package
    /\ id \in [Node -> NodeId] /\ matched \subseteq Node
    /\ window \in [Window -> {Absent} \cup Definition]
    /\ attached \subseteq Window \X Target /\ failedTarget \subseteq Window \X Target
    /\ version \in [Package -> Nat] /\ etag \in [Package -> Nat]
    /\ phase \in {"plan", "ThreshdPackage", "Maintenance", "done", "refused"}
    /\ resolved \in [Window -> SUBSET (NodeId \ {0})] /\ left \in [Window -> SUBSET Target]
    /\ plan \in [Item -> {NotYet, "resolved", "searched", "failed", "create", "update", "none"}]
    /\ row \in [Item -> {NotYet, "attaching", "write failed", "failed", "Created", "Updated",
                          "Unchanged", "changed since plan"}]
    /\ disturbed \subseteq Node \cup Item /\ changes \in 0 .. MaxOthers

Succeeded(x) == row[x] \in {"Created", "Updated", "Unchanged"}

\* A window that is reported as applied is defined as its document says, over the present
\* ids of the nodes that it names, covers something, and every daemon that it names honours it,
\* also when the definition had nothing to change; unless somebody else touched it since.
RowsAreTrue ==
    \A w \in Described : Succeeded(w) /\ w \notin disturbed =>
        /\ window[w] = Desired(w)
        /\ window[w].ids # {} \/ window[w].interfaces # "none"
        /\ \A n \in docs[w].nodes \ disturbed : id[n] \in window[w].ids
        /\ \A t \in Targets(docs[w]) \ disturbed : <<w, t>> \in attached

\* The apply makes a daemon honour a window only under the definition it declares: never
\* under an old one that it has failed to replace.
AttachFollowsDefinition ==
    [][\A w \in Described : disturbed' = disturbed /\ w \notin disturbed =>
          \A t \in Target : <<w, t>> \in attached' \ attached => window[w] = Desired(w)]_vars

\* Attaching a window changes the package it is attached to.  It never makes a package
\* document of the same apply fail: that fails for a change only when there was another's.
OwnAttachSparesPackages ==
    \A p \in packageDocs : row[p] = "changed since plan" => p \in disturbed

\* The state is well typed, rows are true, and the windows of an apply do not disturb its
\* own package documents.
MaintenanceInv == TypeOK /\ RowsAreTrue /\ OwnAttachSparesPackages
=============================================================================
