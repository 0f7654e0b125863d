--------------------------- MODULE ThresholdingApply ---------------------------
(***************************************************************************)
(* Applying `kind: ThresholdGroup` and `kind: ThreshdPackage` documents    *)
(* (onmsctl-thresholding/src/apply) while somebody runs `onmsctl threshold *)
(* group delete` (cmd.rs) and another operator edits the same objects.     *)
(* The server versions its objects: a PUT or DELETE that carries the ETag  *)
(* of an older version is refused with 412, a POST of a taken name with    *)
(* 409.  Requests may be served although their answer is lost.             *)
(***************************************************************************)
EXTENDS Naturals, FiniteSets

CONSTANTS
    Group, Package, \* the names in play, on the server or in documents
    Absent,         \* no object of that name
    MaxOthers       \* how many objects another operator changes meanwhile

Name == Group \cup Package

\* What an object is to these properties.  Of a group, whether it is as declared or
\* contributed by an extension (readOnly).  Of a package, the group that its services
\* are bound to and what documents cannot declare: outage calendars, userDefined flags.
GroupBody == [spec : {"want", "other", "read only"}, calendars : {FALSE}]
PackageBody == [spec : Group, calendars : BOOLEAN]
Body(n) == IF n \in Group THEN GroupBody ELSE PackageBody

ASSUME ThresholdingAssumption ==
    /\ Group \cap Package = {} /\ Group \cap {"want", "other", "read only"} = {}
    /\ Absent \notin GroupBody \cup PackageBody
    /\ MaxOthers \in Nat

VARIABLES
    docs,      \* the objects that have a document
    binds,     \* the group that each package document binds
    keepGoing, \* --continue-on-error
    store,     \* the objects on the server
    version,   \* the version its ETag stands for
    phase,     \* "groups", "gate", "packages", then "execute", "done" or "refused"
    read,      \* the object read while planning
    etag,      \* and its version
    plan, row,
    wrote,     \* documents with a write the server served
    deletion,  \* the `threshold group delete` command: its step and what it has read
    changed,   \* objects changed by somebody since the deletion listed the packages
    disturbed  \* objects changed by somebody other than the apply

input == <<docs, binds, keepGoing>>
server == <<store, version>>
planned == <<read, etag, plan>>
notes == <<changed, disturbed>>
vars == <<input, server, phase, planned, row, wrote, deletion, notes>>

NotYet == "not yet"
Failures == {"failed", "changed since plan", "created since plan"}
Success(action) ==
    CASE action = "create" -> "Created" [] action = "update" -> "Updated"
      [] OTHER -> "Unchanged"

-----------------------------------------------------------------------------
\* Names of the form <definition>_<bug> are slips the code could have made.

\* The body of a document's write: package_to_wire carries over what the live object
\* has and a document cannot declare.
Declared(n) == IF n \in Group THEN "want" ELSE binds[n]
Desired(n, live) ==
    [spec |-> Declared(n), calendars |-> IF live = Absent THEN FALSE ELSE live.calendars]

ReadOnly(body) == IF body = Absent THEN FALSE ELSE body.spec = "read only"

PlannedAction_CreateOnly(n, live) == IF live = Absent THEN "create" ELSE "none"
PlannedAction(n, live) ==
    CASE live = Absent -> "create"
      [] live = Desired(n, live) -> "none"
      [] OTHER -> "update"

\* If-Match: the ETag of the read that the body was made from.
Matches_NoIfMatch(n) == store[n] # Absent
Matches(n) == store[n] # Absent /\ version[n] = etag[n]

\* A group may be bound when the server lists it or a document of this apply declares it.
Known_Any == Group
Known == {g \in Group : store[g] # Absent} \cup (docs \cap Group)

\* Failed groups end the apply before its packages (apply_documents).
Halted_Never == FALSE
Halted == ~keepGoing /\ \E g \in docs \cap Group : row[g] \in Failures

\* bound_by, over the packages a deletion has read in full.
Refused_Never(bound, force) == FALSE
Refused(bound, force) == bound # {} /\ ~force

Idle == [step |-> "idle", group |-> Absent, force |-> FALSE, left |-> {}, bound |-> {},
         etag |-> 0]
Ended == [Idle EXCEPT !.step = "ended"]

-----------------------------------------------------------------------------
\* The object changes on the server, by anybody's hand.
Put(n, body) ==
    /\ store' = [store EXCEPT ![n] = body]
    /\ version' = [version EXCEPT ![n] = @ + 1]
    /\ changed' = IF deletion = Idle THEN {} ELSE changed \cup {n}

OtherOperator(n) ==
    /\ Cardinality(disturbed) < MaxOthers /\ n \notin disturbed
    /\ phase \notin {"done", "refused"} /\ ~ReadOnly(store[n])
    /\ \E body \in Body(n) \cup {Absent} :
          body # store[n] /\ ~ReadOnly(body) /\ Put(n, body)
    /\ disturbed' = disturbed \cup {n}
    /\ UNCHANGED <<input, phase, planned, row, wrote, deletion>>

Init ==
    /\ docs \in SUBSET Name \ {{}} /\ binds \in [Package -> Group] /\ keepGoing \in BOOLEAN
    /\ store \in [Name -> GroupBody \cup PackageBody \cup {Absent}]
    /\ \A n \in Name : store[n] \in Body(n) \cup {Absent}
    /\ version = [n \in Name |-> 0]
    /\ phase = "groups"
    /\ read = [n \in Name |-> Absent] /\ etag = [n \in Name |-> 0]
    /\ plan = [n \in Name |-> NotYet] /\ row = [n \in Name |-> NotYet]
    /\ wrote = {} /\ changed = {} /\ disturbed = {}
    /\ deletion = Idle

(* plan: the group handler's, then the package handler's. *)

\* The live object and its ETag, and what to do about it.
PlanOne(n) ==
    /\ n \in docs /\ plan[n] = NotYet
    /\ phase = IF n \in Group THEN "groups" ELSE "packages"
    /\ read' = [read EXCEPT ![n] = store[n]]
    /\ etag' = [etag EXCEPT ![n] = version[n]]
    /\ plan' = [plan EXCEPT ![n] = PlannedAction(n, store[n])]
    /\ phase' = IF ReadOnly(store[n]) THEN "refused" ELSE phase
    /\ UNCHANGED <<input, server, row, wrote, deletion, notes>>

\* The groups are planned; the package handler lists the groups for its gate.
ListGroups ==
    /\ phase = "groups" /\ \A g \in docs \cap Group : plan[g] # NotYet
    /\ phase' = IF \E p \in docs \cap Package : binds[p] \notin Known
                THEN "refused" ELSE "packages"
    /\ UNCHANGED <<input, server, planned, row, wrote, deletion, notes>>

\* Any read of the plan fails, or an unknown dsType is found.
PlanFails ==
    /\ phase \in {"groups", "packages"}
    /\ phase' = "refused"
    /\ UNCHANGED <<input, server, planned, row, wrote, deletion, notes>>

StartExecute ==
    /\ phase = "packages" /\ \A n \in docs : plan[n] # NotYet
    /\ phase' = "execute"
    /\ UNCHANGED <<input, server, planned, row, wrote, deletion, notes>>

(* execute: the group bucket, then the package bucket, each document in any order. *)

Ready(n) ==
    /\ phase = "execute" /\ n \in docs /\ row[n] = NotYet
    /\ n \in Package => \A g \in docs \cap Group : row[g] # NotYet

SetRow(n, r) == row' = [row EXCEPT ![n] = r]

NoWrite(n) ==
    /\ Ready(n)
    /\ \/ n \in Package /\ Halted /\ SetRow(n, "Skipped")
       \/ ~(n \in Package /\ Halted) /\ plan[n] = "none" /\ SetRow(n, "Unchanged")
    /\ UNCHANGED <<input, server, phase, planned, wrote, deletion, notes>>

\* POST or PUT: served or refused, answered or not.
Write(n) ==
    /\ Ready(n) /\ plan[n] \in {"create", "update"} /\ ~(n \in Package /\ Halted)
    /\ LET free == IF plan[n] = "create" THEN store[n] = Absent ELSE Matches(n)
       IN \/ /\ free /\ Put(n, Desired(n, read[n]))
             /\ wrote' = wrote \cup {n}
             /\ SetRow(n, Success(plan[n])) \/ SetRow(n, "failed")
          \/ /\ ~free
             /\ SetRow(n, CASE plan[n] = "create" -> "created since plan"
                            [] store[n] = Absent -> "failed"
                            [] OTHER -> "changed since plan")
             /\ UNCHANGED <<server, wrote, changed>>
          \/ SetRow(n, "failed") /\ UNCHANGED <<server, wrote, changed>>
    /\ UNCHANGED <<input, phase, planned, deletion, disturbed>>

Finish ==
    /\ phase = "execute" /\ \A n \in docs : row[n] # NotYet
    /\ phase' = "done"
    /\ UNCHANGED <<input, server, planned, row, wrote, deletion, notes>>

(* `threshold group delete`, run by somebody else. *)

\* The names of all packages; each is then read by itself.
ListPackages(g) ==
    /\ deletion = Idle /\ phase \notin {"done", "refused"}
    /\ deletion' = [Idle EXCEPT !.step = "reading", !.group = g,
                                !.left = {p \in Package : store[p] # Absent}]
    /\ UNCHANGED <<input, server, phase, planned, row, wrote, notes>>

ReadPackage(p) ==
    /\ deletion.step = "reading" /\ p \in deletion.left
    /\ deletion' = [deletion EXCEPT
            !.left = @ \ {p},
            !.bound = IF store[p] # Absent /\ store[p].spec = deletion.group
                      THEN @ \cup {p} ELSE @]
    /\ UNCHANGED <<input, server, phase, planned, row, wrote, notes>>

\* The check, and the ETag that the DELETE will carry.
CheckBound ==
    /\ deletion.step = "reading" /\ deletion.left = {}
    /\ \E force \in BOOLEAN :     \* --force
          deletion' =
              IF Refused(deletion.bound, force) \/ store[deletion.group] = Absent THEN Ended
              ELSE [deletion EXCEPT !.step = "deleting", !.bound = {}, !.force = force,
                                    !.etag = version[deletion.group]]
    /\ UNCHANGED <<input, server, phase, planned, row, wrote, notes>>

DeleteGroup ==
    LET g == deletion.group IN
    /\ deletion.step = "deleting"
    /\ \/ /\ store[g] # Absent /\ ~ReadOnly(store[g]) /\ version[g] = deletion.etag
          /\ Put(g, Absent)
          /\ disturbed' = disturbed \cup {g}
          /\ deletion' = [deletion EXCEPT !.step = "deleted"]
       \/ deletion' = Ended /\ UNCHANGED <<server, notes>>
    /\ UNCHANGED <<input, phase, planned, row, wrote>>

Apply ==
    \/ ListGroups \/ PlanFails \/ StartExecute \/ Finish
    \/ \E n \in Name : PlanOne(n) \/ NoWrite(n) \/ Write(n)

Next ==
    \/ Apply
    \/ \E n \in Name : OtherOperator(n)
    \/ \E g \in Group : ListPackages(g)
    \/ \E p \in Package : ReadPackage(p)
    \/ CheckBound \/ DeleteGroup

Spec == Init /\ [][Next]_vars

-----------------------------------------------------------------------------
\* Type invariant of an apply of thresholding documents beside a deletion.
TypeOK ==
    /\ docs \subseteq Name /\ binds \in [Package -> Group] /\ keepGoing \in BOOLEAN
    /\ \A n \in Name : {store[n], read[n]} \subseteq Body(n) \cup {Absent}
    /\ version \in [Name -> Nat] /\ etag \in [Name -> Nat]
    /\ phase \in {"groups", "packages", "execute", "done", "refused"}
    /\ plan \in [Name -> {NotYet, "create", "update", "none"}]
    /\ row \in [Name -> {NotYet, "Created", "Updated", "Unchanged", "Skipped"} \cup Failures]
    /\ wrote \subseteq docs /\ changed \subseteq Name /\ disturbed \subseteq Name
    /\ deletion.step \in {"idle", "reading", "deleting", "deleted", "ended"}
    /\ deletion.left \cup deletion.bound \subseteq Package

\* A write of the apply replaces exactly the object its plan was made from: what another
\* operator did in between is never overwritten, whatever fails and in whatever order, and
\* the calendars of a package, which documents do not have, survive it.
NoLostUpdate ==
    [][\A n \in wrote' \ wrote :
          /\ store[n] = read[n]
          /\ n \in Package /\ store[n] # Absent =>
                 store'[n].calendars = store[n].calendars]_vars

\* What a row says is on the server, unless somebody else changed it since.  A 412 or 409
\* row means that nothing was written.
RowsAreTrue ==
    \A n \in docs :
        /\ row[n] \in {"Created", "Updated", "Unchanged"} /\ n \notin disturbed =>
               store[n] = Desired(n, store[n])
        /\ row[n] \in {"changed since plan", "created since plan", "Skipped", "Unchanged"} =>
               n \notin wrote
        /\ row[n] \in {"changed since plan", "created since plan"} => n \in disturbed

\* A package is written only after the group it binds: without --continue-on-error, and
\* unless somebody deletes groups, it never refers to a group that does not exist.
WrittenPackageIsBound ==
    \A p \in wrote \cap Package :
        ~keepGoing /\ binds[p] \notin disturbed => store[binds[p]] # Absent

\* A deletion that was not forced leaves a package without its group only if that package
\* was changed after the deletion had begun to look.
UnforcedDeleteIsSafe ==
    deletion.step = "deleted" /\ ~deletion.force =>
        \A p \in Package \ changed :
            store[p] # Absent => store[p].spec # deletion.group

\* The state is well typed and the rows are true.
ThresholdingInv == TypeOK /\ RowsAreTrue
=============================================================================
