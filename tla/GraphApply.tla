------------------------------ MODULE GraphApply ------------------------------
(***************************************************************************)
(* Applying `kind: Graph` documents (onmsctl-graph/src/apply/handler.rs).  *)
(* The server keeps uploads, with no update call, and loads and unloads    *)
(* their containers in its own time; an update is DELETE, wait, POST, with *)
(* a rollback from the upload read while planning.  Requests may be served *)
(* although their answer is lost, and other operators change uploads.      *)
(***************************************************************************)
EXTENDS Naturals, FiniteSets

CONSTANTS
    Graph,      \* the documents, by metadata.name, which is also the upload's name
    OtherBox,   \* a container id that is not the upload's name
    Found,      \* what uploads other than the documents' own may hold
    Absent, Nobody,
    MaxOthers   \* how many uploads other operators change meanwhile

ASSUME GraphAssumption ==
    /\ OtherBox \notin Graph /\ Nobody \notin Graph
    /\ Absent \notin [spec : {"want", "other", "broken"}, box : Graph \cup {OtherBox}]
    /\ DOMAIN Found = Graph     \* container ids of different documents' uploads differ
    /\ \A g \in Graph : Found[g] \subseteq [spec : {"other", "broken"}, box : {g, OtherBox}]
    /\ MaxOthers \in Nat

VARIABLES
    keepGoing,  \* --continue-on-error
    foreign,    \* the documents whose namespace belongs to a foreign container
    stored,     \* the uploads
    shown,      \* the container each upload name has in api/v2/graphs
    stale,      \* those whose upload was deleted: still listed, on their way out
    stuck,      \* uploads POSTed before the old container had left: never loaded
    phase,
    plan,       \* the action planned for each document
    saved,      \* live_xml: the upload read while planning
    current,    \* the document execute is working on
    step,       \* where in its create or update it is
    row,        \* the outcomes
    warned,     \* documents for which a wait ended with a warning
    lost,       \* documents with a request whose answer was lost
    disturbed   \* documents whose upload another operator changed

input == <<keepGoing, foreign>>
server == <<stored, shown, stale, stuck>>
notes == <<warned, lost, disturbed>>
vars == <<input, server, phase, plan, saved, current, step, row, notes>>

NotYet == "not yet"
Want(g) == [spec |-> "want", box |-> g]
Contents(g) == Found[g] \cup {Want(g)}

\* The rows a document can end with; those of a Failed outcome by what their message says.
Failures == {"failed", "appeared since plan", "stored graph is unchanged",
             "rolled back", "now absent"}
Rows == {"Created", "Updated", "Unchanged", "Skipped"} \cup Failures

-----------------------------------------------------------------------------
\* Names of the form <definition>_<bug> are broken variants: slips the code could have
\* made, kept to show that the properties below would notice them.

\* create, update or nothing, from the upload read while planning.
PlannedAction(g) ==
    CASE saved[g] = Absent -> "create" [] saved[g] = Want(g) -> "none" [] OTHER -> "update"

\* The container a document's own upload produced, as far as onmsctl can tell: an
\* upload it cannot parse is taken to use its name.
OwnBox(g) == IF saved[g].spec = "broken" THEN g ELSE saved[g].box

\* A listed container other than the document's own has one of its namespaces.
Conflict(g) ==
    \/ g \in foreign
    \/ shown[g] # Absent /\ (saved[g] = Absent \/ shown[g].box # OwnBox(g))

\* The container the removal wait looks for.
OldBox(g) == IF saved[g] = Absent THEN g ELSE OwnBox(g)

Listed(box) == \E g \in Graph : shown[g] # Absent /\ shown[g].box = box

\* poll_container: the presence asked for is seen, or the deadline passes.
Polled_NoDeadline(reached, warns) == reached /\ ~warns
Polled(reached, warns) == warns \/ reached

\* An update waits for the old container to leave before it uploads the new one.
AfterDelete_NoWait == "post"
AfterDelete == "removal"

\* A create uploads, an update deletes first.
FirstStep_AlwaysReplace(action) == "delete"
FirstStep(action) == IF action = "create" THEN "post" ELSE "delete"

\* After a failed graph the rest of the bucket is skipped.
Halted == ~keepGoing /\ \E g \in Graph : row[g] \in Failures

\* Which outcome a failed upload leads to: a create, or an update whose upload had
\* vanished, just fails; otherwise the planned upload is restored.
AfterFailedPost_NeverRollBack(g, existed) == "failed"
AfterFailedPost(g, existed) == IF existed THEN "rollback" ELSE "failed"

-----------------------------------------------------------------------------
(* The server. *)

\* DELETE: the container leaves the list later.
Remove(g) ==
    /\ stored' = [stored EXCEPT ![g] = Absent]
    /\ stale' = IF shown[g] # Absent THEN stale \cup {g} ELSE stale
    /\ stuck' = stuck \ {g}
    /\ UNCHANGED shown

\* POST under a free name.  Before the old container has left it is never loaded.
Upload(g, content) ==
    /\ stored' = [stored EXCEPT ![g] = content]
    /\ stuck' = IF shown[g] # Absent THEN stuck \cup {g} ELSE stuck
    /\ UNCHANGED <<shown, stale>>

Load(g) ==
    /\ stored[g] # Absent /\ g \notin stuck /\ shown[g] = Absent
    /\ shown' = [shown EXCEPT ![g] = stored[g]]
    /\ UNCHANGED <<input, stored, stale, stuck, phase, plan, saved, current, step, row, notes>>

Unload(g) ==
    /\ g \in stale
    /\ shown' = [shown EXCEPT ![g] = Absent]
    /\ stale' = stale \ {g}
    /\ UNCHANGED <<input, stored, stuck, phase, plan, saved, current, step, row, notes>>

\* Another operator deletes an upload, or uploads one of their own.
OtherOperator(g) ==
    /\ phase \in {"plan", "execute"}
    /\ g \notin disturbed /\ Cardinality(disturbed) < MaxOthers
    /\ \/ stored[g] # Absent /\ Remove(g)
       \/ stored[g] = Absent /\ \E content \in Found[g] : Upload(g, content)
    /\ disturbed' = disturbed \cup {g}
    /\ UNCHANGED <<input, phase, plan, saved, current, step, row, warned, lost>>

-----------------------------------------------------------------------------
Init ==
    /\ keepGoing \in BOOLEAN
    /\ foreign \in SUBSET Graph
    /\ stored \in [Graph -> UNION {Contents(g) : g \in Graph} \cup {Absent}]
    /\ \A g \in Graph : stored[g] \in Contents(g) \cup {Absent}
    /\ shown \in [Graph -> {stored[g] : g \in Graph}]
    /\ \A g \in Graph : shown[g] \in {stored[g], Absent}
    /\ stale = {} /\ stuck = {}
    /\ phase = "plan"
    /\ plan = [g \in Graph |-> NotYet]
    /\ saved = [g \in Graph |-> Absent]
    /\ current = Nobody /\ step = "idle"
    /\ row = [g \in Graph |-> NotYet]
    /\ warned = {} /\ lost = {} /\ disturbed = {}

\* GET rest/graphml/{name} of one document, and what to do about it.  Documents come
\* in the order of the input, here as in Begin: any order stands for it.
ReadUpload(g) ==
    /\ phase = "plan" /\ plan[g] = NotYet
    /\ saved' = [saved EXCEPT ![g] = stored[g]]
    /\ plan' = [plan EXCEPT ![g] = PlannedAction(g)']
    /\ UNCHANGED <<input, server, phase, current, step, row, notes>>

\* The container list, and the namespace ownership gate.
CheckOwners ==
    /\ phase = "plan"
    /\ \A g \in Graph : plan[g] # NotYet
    /\ phase' = IF \E g \in Graph : Conflict(g) THEN "refused" ELSE "execute"
    /\ UNCHANGED <<input, server, plan, saved, current, step, row, notes>>

\* Any of the plan's requests fails.
PlanFails ==
    /\ phase = "plan"
    /\ phase' = "refused"
    /\ UNCHANGED <<input, server, plan, saved, current, step, row, notes>>

End(g, outcome) ==
    /\ row' = [row EXCEPT ![g] = outcome]
    /\ current' = Nobody /\ step' = "idle"

Goto(next) ==
    /\ step' = next
    /\ UNCHANGED <<current, row>>

\* execute reaches the next document.
Begin(g) ==
    /\ phase = "execute" /\ current = Nobody /\ row[g] = NotYet
    /\ \/ /\ Halted
          /\ row' = [row EXCEPT ![g] = "Skipped"]
          /\ UNCHANGED <<current, step>>
       \/ /\ ~Halted /\ plan[g] = "none"
          /\ row' = [row EXCEPT ![g] = "Unchanged"]
          /\ UNCHANGED <<current, step>>
       \/ /\ ~Halted /\ plan[g] # "none"
          /\ current' = g /\ step' = FirstStep(plan[g])
          /\ UNCHANGED row
    /\ UNCHANGED <<input, server, phase, plan, saved, notes>>

\* DELETE of an update.  404 carries on as a create.
Delete(g) ==
    /\ current = g /\ step = "delete"
    /\ \/ /\ stored[g] # Absent /\ Remove(g)
          /\ \/ Goto(AfterDelete) /\ UNCHANGED lost
             \/ End(g, "stored graph is unchanged") /\ lost' = lost \cup {g}
       \/ /\ stored[g] = Absent
          /\ Goto("post of vanished")
          /\ UNCHANGED <<server, lost>>
       \/ /\ End(g, "stored graph is unchanged")
          /\ UNCHANGED <<server, lost>>
    /\ UNCHANGED <<input, phase, plan, saved, warned, disturbed>>

\* wait_until_removed
AwaitRemoval(g) ==
    /\ current = g /\ step = "removal"
    /\ \E warns \in BOOLEAN :
          /\ Polled(~Listed(OldBox(g)), warns)
          /\ warned' = IF warns THEN warned \cup {g} ELSE warned
    /\ Goto("post")
    /\ UNCHANGED <<input, server, phase, plan, saved, lost, disturbed>>

\* POST of the new version.  A name that is taken is refused with "already exists".
Post(g) ==
    /\ current = g /\ step \in {"post", "post of vanished"}
    /\ LET existed == plan[g] = "update" /\ step = "post"
           fails == AfterFailedPost(g, existed)
           Fail == IF fails = "rollback" THEN Goto("rollback") ELSE End(g, fails)
       IN  \/ /\ stored[g] = Absent /\ Upload(g, Want(g))
              /\ \/ Goto("loading") /\ UNCHANGED lost
                 \/ Fail /\ lost' = lost \cup {g}
           \/ /\ stored[g] # Absent
              /\ IF plan[g] = "create" THEN End(g, "appeared since plan") ELSE Fail
              /\ UNCHANGED <<server, lost>>
           \/ /\ Fail
              /\ UNCHANGED <<server, lost>>
    /\ UNCHANGED <<input, phase, plan, saved, warned, disturbed>>

\* wait_until_loaded, after the new version or a rollback was uploaded.
AwaitLoad(g) ==
    /\ current = g /\ step \in {"loading", "reloading"}
    /\ \E warns \in BOOLEAN :
          /\ Polled(Listed(g), warns)
          /\ warned' = IF warns THEN warned \cup {g} ELSE warned
    /\ End(g, CASE step = "reloading" -> "rolled back"
                [] plan[g] = "create" -> "Created"
                [] OTHER -> "Updated")
    /\ UNCHANGED <<input, server, phase, plan, saved, lost, disturbed>>

\* POST of the planned upload after the new version was refused.
RollBack(g) ==
    /\ current = g /\ step = "rollback"
    /\ \/ /\ stored[g] = Absent /\ Upload(g, saved[g])
          /\ \/ Goto("reloading") /\ UNCHANGED lost
             \/ End(g, "now absent") /\ lost' = lost \cup {g}
       \/ /\ End(g, "now absent")
          /\ UNCHANGED <<server, lost>>
    /\ UNCHANGED <<input, phase, plan, saved, warned, disturbed>>

Finish ==
    /\ phase = "execute" /\ \A g \in Graph : row[g] # NotYet
    /\ phase' = "done"
    /\ UNCHANGED <<input, server, plan, saved, current, step, row, notes>>

Step ==
    \/ CheckOwners \/ PlanFails \/ Finish
    \/ \E g \in Graph :
          \/ ReadUpload(g) \/ Begin(g) \/ Delete(g) \/ AwaitRemoval(g)
          \/ Post(g) \/ AwaitLoad(g) \/ RollBack(g)

Next == Step \/ \E g \in Graph : Load(g) \/ Unload(g) \/ OtherOperator(g)

Spec == Init /\ [][Next]_vars

\* Every request and both waits have a deadline; the server owes nothing.
FairSpec == Spec /\ WF_vars(Step)

-----------------------------------------------------------------------------
\* Type invariant of an apply of Graph documents.
TypeOK ==
    /\ keepGoing \in BOOLEAN /\ foreign \subseteq Graph
    /\ \A g \in Graph : {stored[g], shown[g], saved[g]} \subseteq Contents(g) \cup {Absent}
    /\ stale \subseteq {g \in Graph : shown[g] # Absent}
    /\ stuck \subseteq {g \in Graph : stored[g] # Absent}
    /\ phase \in {"plan", "execute", "done", "refused"}
    /\ plan \in [Graph -> {NotYet, "create", "update", "none"}]
    /\ current \in Graph \cup {Nobody}
    /\ step \in {"idle", "delete", "removal", "post", "post of vanished", "loading",
                 "rollback", "reloading"}
    /\ row \in [Graph -> Rows \cup {NotYet}]
    /\ warned \subseteq Graph /\ lost \subseteq Graph /\ disturbed \subseteq Graph

\* A graph reported Created or Updated without a warning is stored as declared and the
\* topology shows that version, not the one it replaced (G17), unless somebody else
\* changed it.
SilentSuccessIsServed ==
    \A g \in Graph \ (warned \cup disturbed) :
        row[g] \in {"Created", "Updated"} => stored[g] = Want(g) /\ shown[g] = Want(g)

\* What a row says of the upload: the one read while planning is still there (or there
\* was none), is back, or is gone.
RowHolds(g) ==
    /\ row[g] \in {"stored graph is unchanged", "rolled back", "failed", "Skipped"} =>
          stored[g] = saved[g]
    /\ row[g] = "now absent" => stored[g] = Absent
    /\ row[g] \in {"Created", "Updated", "Unchanged"} => stored[g] = Want(g)

\* Every row says truly what became of the upload when no answer of its requests was
\* lost and nobody else changed it.
RowsTellTheTruth == \A g \in Graph \ (lost \cup disturbed) : RowHolds(g)

\* An upload that another operator created since the plan is never replaced by a
\* create, whatever fails and in whatever order.
CreateNeverReplaces ==
    [][\A g \in Graph :
          plan[g] = "create" /\ stored[g] # Absent /\ disturbed' = disturbed =>
              stored'[g] = stored[g]]_vars

\* Without --continue-on-error one failed graph is the last one attempted.
OneFailureHalts ==
    ~keepGoing => \A g, h \in Graph : row[g] \in Failures /\ row[h] \in Failures => g = h

\* Liveness: an apply ends even if the server never unloads or loads a container.
ApplyEnds == <>(phase \in {"done", "refused"})

\* The state is well typed, every row tells what became of the upload, and the first
\* failure is the last graph attempted.
GraphInv == TypeOK /\ RowsTellTheTruth /\ OneFailureHalts
=============================================================================
