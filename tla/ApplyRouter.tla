----------------------------- MODULE ApplyRouter -----------------------------
(***************************************************************************)
(* The plan -> gate -> execute scheduler behind `onmsctl apply -f`         *)
(* (onmsctl-core/src/kind/router.rs), driving one document handler per     *)
(* kind against a server that other operators may be changing.  A handler  *)
(* is modelled by the KindHandler contract: plan reads, execute writes its *)
(* documents one by one, and either returns one outcome per document or    *)
(* fails as a whole.  The concrete handlers have modules of their own.     *)
(***************************************************************************)
EXTENDS Naturals

CONSTANTS
    Doc,            \* the documents of the input
    Kind,           \* the kinds the registry holds
    Unregistered,   \* stands for every kind the registry does not hold
    Rank,           \* the precedence table
    HaltInside      \* the kinds whose execute stops at its first failed document

ASSUME RankAssumption ==
    /\ Rank \in [Kind -> Nat]
    /\ \A j, k \in Kind : Rank[j] = Rank[k] => j = k     \* ranks_are_total_order
    /\ Unregistered \notin Kind
    /\ HaltInside \subseteq Kind

VARIABLES
    kindOf, dryRun, keepGoing, readOnly,  \* the input, its flags, the context
    live,       \* how each document's object on the server compares to it
    disturbed,  \* documents whose object another operator changed meanwhile
    phase,
    plan,       \* the action planned for each document
    running,    \* the kind whose bucket is executing
    outcome,    \* the outcomes that bucket's execute has collected
    report,     \* the rows of the apply's result
    touched     \* documents whose write reached the server in this apply

input == <<kindOf, dryRun, keepGoing, readOnly>>
vars == <<input, live, disturbed, phase, plan, running, outcome, report, touched>>

Idle == "idle"
NotYet == "not yet"
Live == {"absent", "stale", "synced"}

\* The actions and statuses that handlers use: none plans a Delete or reports Deleted.
Action == {"create", "update", "none", "plan failed"}
Status == {"Created", "Updated", "Unchanged", "Failed", "Skipped"}

-----------------------------------------------------------------------------
\* The documents of one kind, handed to its handler as one slice.
Bucket(k) == {d \in Doc : kindOf[d] = k}

Buckets == {kindOf[d] : d \in Doc}

\* Broken variants, named <definition>_<bug>: each is a slip the code could have made,
\* kept to show that the properties below would notice it.
FirstOf_Reversed(k, Pending) == k \in Pending /\ \A j \in Pending : Rank[k] >= Rank[j]

\* k is the kind of lowest rank among those not Finished yet.
FirstOf(k, Pending) == k \in Pending /\ \A j \in Pending : Rank[k] <= Rank[j]

Unplanned == {k \in Buckets : \E d \in Bucket(k) : plan[d] = NotYet}

Unexecuted == {k \in Buckets : \E d \in Bucket(k) : report[d] = NotYet}

PlannedAction_CreateOnly(l) == IF l = "absent" THEN "create" ELSE "none"

\* The action a handler plans for a document it read in state l.
PlannedAction(l) ==
    CASE l = "absent" -> "create" [] l = "stale" -> "update" [] OTHER -> "none"

Preview_ActionAsStatus(a) == IF a = "plan failed" THEN "Failed" ELSE a

\* ApplyOutcome::would, or the Failed row of a document whose plan failed.
Preview(a) ==
    CASE a = "none" -> "Unchanged" [] a = "plan failed" -> "Failed" [] OTHER -> "Skipped"

Written(a) == IF a = "create" THEN "Created" ELSE "Updated"

Halts_Never(rows) == FALSE

\* The router stops after a bucket with a failed row unless told to continue.
Halts(rows) == ~keepGoing /\ \E d \in DOMAIN rows : rows[d] = "Failed"

NotAttempted_None(k) == {}

\* Documents of the buckets after k: the apply ends before it attempts them.
NotAttempted(k) == {d \in Doc : Rank[kindOf[d]] > Rank[k]}

\* The accounting loop starts at the halted bucket instead of the one after it.
Extended_SkipFromHalt(k, rows) ==
    [d \in Doc |-> IF Halts(rows) /\ Rank[kindOf[d]] >= Rank[k]
                     THEN IF d \in Bucket(k) /\ rows[d] = "Failed" THEN "Failed" ELSE "Skipped"
                   ELSE IF d \in Bucket(k) THEN rows[d] ELSE report[d]]

\* The report once bucket k ended with these rows.
Extended(k, rows) ==
    [d \in Doc |-> IF d \in Bucket(k) THEN rows[d]
                   ELSE IF Halts(rows) /\ d \in NotAttempted(k) THEN "Skipped"
                   ELSE report[d]]

-----------------------------------------------------------------------------
Init ==
    /\ kindOf \in [Doc -> Kind \cup {Unregistered}]
    /\ dryRun \in BOOLEAN
    /\ keepGoing \in BOOLEAN
    /\ readOnly \in BOOLEAN
    /\ live \in [Doc -> Live]
    /\ disturbed = {}
    /\ phase = "gate"
    /\ plan = [d \in Doc |-> NotYet]
    /\ running = Idle
    /\ outcome = [d \in Doc |-> NotYet]
    /\ report = [d \in Doc |-> NotYet]
    /\ touched = {}

Admissible_ReadOnlyUnchecked == \A d \in Doc : kindOf[d] \in Kind

\* A write in a read-only context is refused locally, an unknown kind before any HTTP.
Admissible == (readOnly => dryRun) /\ \A d \in Doc : kindOf[d] \in Kind

Gate ==
    /\ phase = "gate"
    /\ phase' = IF Admissible THEN "plan" ELSE "refused"
    /\ UNCHANGED <<input, live, disturbed, plan, running, outcome, report, touched>>

\* The next kind's handler reads the server; a document whose own plan fails is
\* carried in the preview and does not close the gate.
PlanBucket(k) ==
    /\ phase = "plan"
    /\ FirstOf(k, Unplanned)
    /\ \E bad \in SUBSET Bucket(k) :
          plan' = [d \in Doc |-> IF d \notin Bucket(k) THEN plan[d]
                                 ELSE IF d \in bad THEN "plan failed"
                                 ELSE PlannedAction(live[d])]
    /\ UNCHANGED <<input, live, disturbed, phase, running, outcome, report, touched>>

\* A handler's plan returns an error: nothing of the input is applied.
PlanRefused ==
    /\ phase = "plan"
    /\ Unplanned # {}
    /\ phase' = "refused"
    /\ UNCHANGED <<input, live, disturbed, plan, running, outcome, report, touched>>

\* Every bucket is planned: a dry run ends with the previews.
EndPlan ==
    /\ phase = "plan"
    /\ Unplanned = {}
    /\ IF dryRun
         THEN phase' = "done" /\ report' = [d \in Doc |-> Preview(plan[d])]
         ELSE phase' = "execute" /\ UNCHANGED report
    /\ UNCHANGED <<input, live, disturbed, plan, running, outcome, touched>>

StartBucket(k) ==
    /\ phase = "execute"
    /\ running = Idle
    /\ FirstOf(k, Unexecuted)
    /\ running' = k
    /\ UNCHANGED <<input, live, disturbed, phase, plan, outcome, report, touched>>

\* Some kinds stop writing their own bucket at its first failure.
HaltedInside(k) ==
    k \in HaltInside /\ ~keepGoing /\ \E d \in Bucket(k) : outcome[d] = "Failed"

\* execute reaches document d with nothing to send.
Settle(d) ==
    /\ running # Idle /\ kindOf[d] = running /\ outcome[d] = NotYet
    /\ \/ /\ HaltedInside(running)
          /\ outcome' = [outcome EXCEPT ![d] = "Skipped"]
       \/ /\ ~HaltedInside(running)
          /\ plan[d] \in {"none", "plan failed"}
          /\ outcome' = [outcome EXCEPT ![d] = Preview(plan[d])]
    /\ UNCHANGED <<input, live, disturbed, phase, plan, running, report, touched>>

\* execute writes document d.  A request that fails at the client may still have
\* been served: the 30 s deadline ends the wait, not the server's work.
Write(d) ==
    /\ running # Idle /\ kindOf[d] = running /\ outcome[d] = NotYet
    /\ ~HaltedInside(running)
    /\ plan[d] \in {"create", "update"}
    /\ \E served, answered \in BOOLEAN :
          /\ answered => served
          /\ outcome' = [outcome EXCEPT ![d] = IF answered THEN Written(plan[d]) ELSE "Failed"]
          /\ live' = IF served THEN [live EXCEPT ![d] = "synced"] ELSE live
          /\ touched' = IF served THEN touched \cup {d} ELSE touched
    /\ UNCHANGED <<input, disturbed, phase, plan, running, report>>

EndBucket(rows) ==
    /\ report' = Extended(running, rows)
    /\ phase' = IF Halts(rows) THEN "done" ELSE phase
    /\ running' = Idle
    /\ outcome' = [d \in Doc |-> NotYet]
    /\ UNCHANGED <<input, live, disturbed, plan, touched>>

\* execute returns one outcome per document.
BucketOk ==
    /\ running # Idle
    /\ \A d \in Bucket(running) : outcome[d] # NotYet
    /\ EndBucket([d \in Bucket(running) |-> outcome[d]])

\* execute fails as a whole: what it had collected is lost, every row is Failed.
BucketErr ==
    /\ running # Idle
    /\ EndBucket([d \in Bucket(running) |-> "Failed"])

Finish ==
    /\ phase = "execute" /\ running = Idle /\ Unexecuted = {}
    /\ phase' = "done"
    /\ UNCHANGED <<input, live, disturbed, plan, running, outcome, report, touched>>

\* Another operator changes d's object while the apply runs (at most once each).
OtherWriter(d) ==
    /\ phase \in {"plan", "execute"}
    /\ d \notin disturbed
    /\ \E l \in Live \ {live[d]} : live' = [live EXCEPT ![d] = l]
    /\ disturbed' = disturbed \cup {d}
    /\ UNCHANGED <<input, phase, plan, running, outcome, report, touched>>

\* The apply itself, as opposed to its environment.
Step ==
    \/ Gate \/ PlanRefused \/ EndPlan \/ BucketOk \/ BucketErr \/ Finish
    \/ \E k \in Kind : PlanBucket(k) \/ StartBucket(k)
    \/ \E d \in Doc : Settle(d) \/ Write(d)

Next == Step \/ \E d \in Doc : OtherWriter(d)

Spec == Init /\ [][Next]_vars

\* Exit status 0 of a real apply: no row of the report is Failed.
ExitsZero == phase = "done" /\ \A d \in Doc : report[d] # "Failed"

-----------------------------------------------------------------------------
\* Type invariant of the scheduler's state.
TypeOK ==
    /\ kindOf \in [Doc -> Kind \cup {Unregistered}]
    /\ {dryRun, keepGoing, readOnly} \subseteq BOOLEAN
    /\ live \in [Doc -> Live]
    /\ disturbed \subseteq Doc
    /\ phase \in {"gate", "plan", "execute", "done", "refused"}
    /\ plan \in [Doc -> Action \cup {NotYet}]
    /\ running \in Kind \cup {Idle}
    /\ outcome \in [Doc -> Status \cup {NotYet}]
    /\ report \in [Doc -> Status \cup {NotYet}]
    /\ touched \subseteq Doc

\* "Aborts before any mutation": a write reaches the server only in a real apply of
\* a writable context whose every document, of every kind, was planned.
GateIsAllOrNothing ==
    touched # {} =>
        /\ phase \in {"execute", "done"} /\ ~dryRun /\ ~readOnly
        /\ \A d \in Doc : kindOf[d] \in Kind /\ plan[d] # NotYet

\* Stop-on-error: without --continue-on-error no document is written after a
\* document of an earlier kind was reported Failed.
HaltStopsLaterKinds ==
    ~keepGoing =>
        \A d, e \in Doc :
            report[d] = "Failed" /\ e \in touched => Rank[kindOf[e]] <= Rank[kindOf[d]]

\* A row that says nothing was sent (Skipped, Unchanged) is true: the apply changed
\* nothing of that document, in its bucket or in one it never reached.
RowsHideNoWrite ==
    \A d \in Doc : report[d] \in {"Skipped", "Unchanged"} => d \notin touched

\* Every document has its row when the apply ends, whichever way it ended.
ReportIsComplete ==
    phase = "done" => \A d \in Doc : report[d] # NotYet

\* Exit status 0 of a real apply means every document was applied or in sync: its
\* object is as declared unless somebody else changed it meanwhile.
SuccessMeansApplied ==
    ExitsZero /\ ~dryRun =>
        \A d \in Doc :
            /\ report[d] # "Skipped"
            /\ live[d] = "synced" \/ d \in disturbed

-----------------------------------------------------------------------------
\* Refinement: the scheduler keeps the promise of ApplyPromise.
Promise == INSTANCE ApplyPromise WITH
    Kind <- Kind \cup {Unregistered},
    stage <- CASE phase \in {"gate", "plan"} -> "open"
               [] phase = "execute" -> "applying"
               [] OTHER -> "closed",
    changed <- touched,
    failed <- {d \in Doc : report[d] = "Failed"}

\* What the scheduler does is what ApplyPromise allows: admitted as a whole, written
\* in precedence order, ended by the first failing kind.
KeepsPromise == Promise!Spec
=============================================================================
