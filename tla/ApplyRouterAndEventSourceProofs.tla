------------------- MODULE ApplyRouterAndEventSourceProofs -------------------
(***************************************************************************)
(* The scheduler's safety, for any documents, kinds, ranks and handlers.   *)
(* The inductive invariant IInv says, phase by phase, which parts of the   *)
(* state an apply can have reached; the invariants that MCApplyRouter      *)
(* checks on a small instance, and the refinement of ApplyPromise, follow. *)
(*                                                                         *)
(* In the second half, the bucket that writes two kinds: event sources and *)
(* their order, for any documents, any order of the server and any number  *)
(* of applies.  It begins with what Pick, Without and TargetOrder make of  *)
(* any list, which is proved by induction on the places of the list.       *)
(***************************************************************************)
EXTENDS ApplyRouter, EventSourceApply, FiniteSetTheorems, WellFoundedInduction, SequenceTheorems, TLAPS

\* The rows, and the outcomes, that stand for a request that may have been served.
Attempted == {"Created", "Updated", "Failed"}

\* Until the gate opens nothing is written, reported or executing.
Quiet ==
    phase \in {"gate", "plan", "refused"} =>
        /\ touched = {} /\ running = Idle
        /\ \A d \in Doc : report[d] = NotYet

AdmittedInput ==
    /\ phase = "plan" => Admissible
    /\ phase = "execute" \/ (phase = "done" /\ ~dryRun) =>
          /\ Admissible /\ ~dryRun
          /\ \A d \in Doc : plan[d] # NotYet

Ended ==
    phase = "done" =>
        /\ running = Idle
        /\ \A d \in Doc : report[d] # NotYet
        /\ dryRun => touched = {}

OutcomesOfRunning ==
    \A d \in Doc : outcome[d] # NotYet => running # Idle /\ kindOf[d] = running

RunningIsNext ==
    running # Idle => phase = "execute" /\ FirstOf(running, Unexecuted)

\* Rows appear kind by kind, in rank order.
ReportedInOrder ==
    phase = "execute" =>
        \A d, e \in Doc :
            report[d] # NotYet /\ Rank[kindOf[e]] <= Rank[kindOf[d]] => report[e] # NotYet

TouchedIsAccounted ==
    \A d \in touched :
        report[d] \in Attempted \/ (report[d] = NotYet /\ outcome[d] \in Attempted)

NoFailureYet ==
    phase = "execute" /\ ~keepGoing => \A d \in Doc : report[d] # "Failed"

\* What an apply wrote, or found in sync, stays so unless somebody else changes it.
SyncedSince ==
    \A d \in Doc \ disturbed : d \in touched \/ plan[d] = "none" => live[d] = "synced"

RowsAreEarned ==
    ~dryRun =>
        \A d \in Doc :
            /\ {report[d], outcome[d]} \cap {"Created", "Updated"} # {} => d \in touched
            /\ "Unchanged" \in {report[d], outcome[d]} => plan[d] = "none"

SkippedBehindFailure ==
    ~dryRun =>
        \A d \in Doc :
            /\ outcome[d] = "Skipped" =>
                  ~keepGoing /\ \E e \in Bucket(running) : outcome[e] = "Failed"
            /\ report[d] = "Skipped" => \E e \in Doc : report[e] = "Failed"

IInv ==
    /\ TypeOK
    /\ Quiet /\ AdmittedInput /\ Ended
    /\ OutcomesOfRunning /\ RunningIsNext /\ ReportedInOrder
    /\ TouchedIsAccounted /\ NoFailureYet
    /\ HaltStopsLaterKinds
    /\ SyncedSince /\ RowsAreEarned /\ SkippedBehindFailure

-----------------------------------------------------------------------------
(* The initial states, then one lemma per action.  A lemma names first the  *)
(* conjuncts its action can disturb, then the ones it leaves alone.         *)

LEMMA InitIInv == Init => IInv
<1> SUFFICES ASSUME Init PROVE IInv
  OBVIOUS
<1> USE DEF Init, Idle, NotYet
<1>1. TypeOK
  BY DEF TypeOK
<1>2. Quiet /\ AdmittedInput /\ Ended /\ OutcomesOfRunning /\ RunningIsNext
  BY DEF Quiet, AdmittedInput, Ended, OutcomesOfRunning, RunningIsNext
<1>3. ReportedInOrder /\ TouchedIsAccounted /\ NoFailureYet /\ HaltStopsLaterKinds
  BY DEF ReportedInOrder, TouchedIsAccounted, NoFailureYet, HaltStopsLaterKinds
<1>4. SyncedSince /\ RowsAreEarned /\ SkippedBehindFailure
  BY DEF SyncedSince, RowsAreEarned, SkippedBehindFailure
<1> QED
  BY <1>1, <1>2, <1>3, <1>4 DEF IInv

LEMMA GateStep ==
  ASSUME IInv, Gate
  PROVE  IInv'
<1> USE DEF Gate, input, Idle, NotYet
<1>1. TypeOK'
  BY DEF IInv, TypeOK
<1>2. Quiet' /\ Ended'
  BY DEF IInv, Quiet, Ended
<1>3. AdmittedInput'
  BY DEF AdmittedInput, Admissible
<1>4. OutcomesOfRunning' /\ RunningIsNext'
  BY DEF IInv, OutcomesOfRunning, RunningIsNext, Quiet
<1>5. ReportedInOrder' /\ TouchedIsAccounted' /\ NoFailureYet' /\ HaltStopsLaterKinds'
  BY DEF IInv, ReportedInOrder, TouchedIsAccounted, NoFailureYet, HaltStopsLaterKinds
<1>6. SyncedSince' /\ RowsAreEarned'
  BY DEF IInv, SyncedSince, RowsAreEarned
<1>7. SkippedBehindFailure'
  BY DEF IInv, SkippedBehindFailure, Bucket
<1> QED
  BY <1>1, <1>2, <1>3, <1>4, <1>5, <1>6, <1>7 DEF IInv

LEMMA PlanRefusedStep ==
  ASSUME IInv, PlanRefused
  PROVE  IInv'
<1> USE DEF PlanRefused, input, Idle, NotYet
<1>1. TypeOK'
  BY DEF IInv, TypeOK
<1>2. Quiet' /\ AdmittedInput' /\ Ended'
  BY DEF IInv, Quiet, AdmittedInput, Ended
<1>3. OutcomesOfRunning' /\ RunningIsNext'
  BY DEF IInv, OutcomesOfRunning, RunningIsNext, Quiet
<1>4. ReportedInOrder' /\ TouchedIsAccounted' /\ NoFailureYet' /\ HaltStopsLaterKinds'
  BY DEF IInv, ReportedInOrder, TouchedIsAccounted, NoFailureYet, HaltStopsLaterKinds
<1>5. SyncedSince' /\ RowsAreEarned'
  BY DEF IInv, SyncedSince, RowsAreEarned
<1>6. SkippedBehindFailure'
  BY DEF IInv, SkippedBehindFailure, Bucket
<1> QED
  BY <1>1, <1>2, <1>3, <1>4, <1>5, <1>6 DEF IInv

\* A plan is decided from what the handler just read, so SyncedSince holds of it.
LEMMA PlanBucketStep ==
  ASSUME IInv, NEW k \in Kind, PlanBucket(k)
  PROVE  IInv'
<1> USE DEF PlanBucket, input, Idle, NotYet
<1>1. TypeOK'
  BY DEF IInv, TypeOK, PlannedAction, Action
<1>2. SyncedSince'
  BY DEF IInv, SyncedSince, TypeOK, Live, PlannedAction, Quiet
<1>3. RowsAreEarned'
  <2>1. \A d \in Doc : outcome[d] = NotYet /\ report[d] = NotYet
    BY DEF IInv, OutcomesOfRunning, Quiet
  <2> QED
    BY <2>1 DEF RowsAreEarned
<1>4. Quiet' /\ AdmittedInput' /\ Ended' /\ OutcomesOfRunning' /\ RunningIsNext'
  BY DEF IInv, Quiet, AdmittedInput, Admissible, Ended, OutcomesOfRunning, RunningIsNext
<1>5. ReportedInOrder' /\ TouchedIsAccounted' /\ NoFailureYet' /\ HaltStopsLaterKinds'
  BY DEF IInv, ReportedInOrder, TouchedIsAccounted, NoFailureYet, HaltStopsLaterKinds
<1>6. SkippedBehindFailure'
  BY DEF IInv, SkippedBehindFailure, Bucket
<1> QED
  BY <1>1, <1>2, <1>3, <1>4, <1>5, <1>6 DEF IInv

\* A dry run ends with its previews and no write; a real apply enters its loop with
\* every document planned.
LEMMA EndPlanStep ==
  ASSUME IInv, EndPlan
  PROVE  IInv'
<1> USE DEF EndPlan, input, Idle, NotYet
<1>1. TypeOK'
  BY DEF IInv, TypeOK, Preview, Status
<1>2. \A d \in Doc : plan[d] # NotYet
  BY DEF Unplanned, Buckets, Bucket
<1>3. touched = {} /\ running = Idle /\ \A d \in Doc : report[d] = NotYet /\ outcome[d] = NotYet
  BY DEF IInv, Quiet, OutcomesOfRunning
<1>4. Quiet' /\ AdmittedInput'
  BY <1>2, <1>3 DEF IInv, Quiet, AdmittedInput, Admissible
<1>5. Ended'
  BY <1>3 DEF Ended, Preview
<1>6. OutcomesOfRunning' /\ RunningIsNext'
  BY <1>3 DEF OutcomesOfRunning, RunningIsNext
<1>7. ReportedInOrder' /\ TouchedIsAccounted' /\ NoFailureYet' /\ HaltStopsLaterKinds'
  BY <1>3 DEF ReportedInOrder, TouchedIsAccounted, NoFailureYet, HaltStopsLaterKinds
<1>8. SyncedSince' /\ RowsAreEarned' /\ SkippedBehindFailure'
  BY <1>3 DEF IInv, SyncedSince, RowsAreEarned, SkippedBehindFailure
<1> QED
  BY <1>1, <1>4, <1>5, <1>6, <1>7, <1>8 DEF IInv

LEMMA StartBucketStep ==
  ASSUME IInv, NEW k \in Kind, StartBucket(k)
  PROVE  IInv'
<1> USE DEF StartBucket, input, Idle, NotYet
<1>1. TypeOK'
  BY DEF IInv, TypeOK
<1>2. \A d \in Doc : outcome[d] = NotYet
  BY DEF IInv, OutcomesOfRunning
<1>3. OutcomesOfRunning' /\ RunningIsNext'
  BY <1>2 DEF OutcomesOfRunning, RunningIsNext, FirstOf, Unexecuted, Buckets, Bucket
<1>4. SkippedBehindFailure'
  BY <1>2 DEF IInv, SkippedBehindFailure
<1>5. Quiet' /\ AdmittedInput' /\ Ended'
  BY DEF IInv, Quiet, AdmittedInput, Admissible, Ended
<1>6. ReportedInOrder' /\ TouchedIsAccounted' /\ NoFailureYet' /\ HaltStopsLaterKinds'
  BY DEF IInv, ReportedInOrder, TouchedIsAccounted, NoFailureYet, HaltStopsLaterKinds
<1>7. SyncedSince' /\ RowsAreEarned'
  BY DEF IInv, SyncedSince, RowsAreEarned
<1> QED
  BY <1>1, <1>3, <1>4, <1>5, <1>6, <1>7 DEF IInv

\* While a bucket executes, the documents of earlier kinds have their rows, those of
\* the bucket and of later kinds have none, and nothing of a later kind is written.
LEMMA Frontier ==
  ASSUME IInv, running # Idle
  PROVE  /\ phase = "execute" /\ running \in Kind /\ Admissible /\ ~dryRun
         /\ Bucket(running) \in SUBSET Doc
         /\ \A d \in Doc : Rank[kindOf[d]] \in Nat
         /\ \A d \in Doc : kindOf[d] = running <=> Rank[kindOf[d]] = Rank[running]
         /\ \A d \in Doc : report[d] # NotYet <=> Rank[kindOf[d]] < Rank[running]
         /\ \A d \in Bucket(running) : report[d] = NotYet
         /\ \A d \in touched : Rank[kindOf[d]] <= Rank[running]
<1>1. phase = "execute" /\ running \in Kind /\ Admissible /\ ~dryRun
  BY DEF IInv, TypeOK, RunningIsNext, AdmittedInput
<1>2. \A d \in Doc : Rank[kindOf[d]] \in Nat
  BY <1>1, RankAssumption DEF Admissible
<1>3. \A d \in Doc : kindOf[d] = running <=> Rank[kindOf[d]] = Rank[running]
  BY <1>1, RankAssumption DEF Admissible
<1>4. \A d \in Doc : Rank[kindOf[d]] < Rank[running] => report[d] # NotYet
  <2> SUFFICES ASSUME NEW d \in Doc, report[d] = NotYet
               PROVE  Rank[running] <= Rank[kindOf[d]]
    BY <1>1, <1>2, RankAssumption
  <2>1. kindOf[d] \in Unexecuted
    BY DEF Unexecuted, Buckets, Bucket
  <2> QED
    BY <2>1 DEF IInv, RunningIsNext, FirstOf
<1>5. \A d \in Doc : report[d] # NotYet => Rank[kindOf[d]] < Rank[running]
  <2> SUFFICES ASSUME NEW d \in Doc, report[d] # NotYet, Rank[running] <= Rank[kindOf[d]]
               PROVE  FALSE
    BY <1>1, <1>2, RankAssumption
  <2>1. PICK e \in Doc : kindOf[e] = running /\ report[e] = NotYet
    BY DEF IInv, RunningIsNext, FirstOf, Unexecuted, Bucket
  <2> QED
    BY <2>1, <1>1 DEF IInv, ReportedInOrder
<1>6. \A d \in touched : Rank[kindOf[d]] <= Rank[running]
  <2> SUFFICES ASSUME NEW d \in touched PROVE Rank[kindOf[d]] <= Rank[running]
    OBVIOUS
  <2>1. d \in Doc
    BY DEF IInv, TypeOK
  <2>2. CASE report[d] # NotYet
    BY <2>1, <2>2, <1>1, <1>2, <1>5, RankAssumption
  <2>3. CASE report[d] = NotYet
    <3>1. outcome[d] # NotYet
      BY <2>3 DEF IInv, TouchedIsAccounted, Attempted, NotYet
    <3> QED
      BY <3>1, <2>1, <1>1, <1>2 DEF IInv, OutcomesOfRunning
  <2> QED
    BY <2>2, <2>3
<1>7. \A d \in Bucket(running) : report[d] = NotYet
  <2> SUFFICES ASSUME NEW d \in Doc, kindOf[d] = running, report[d] # NotYet PROVE FALSE
    BY DEF Bucket
  <2>1. Rank[running] < Rank[running] /\ Rank[running] \in Nat
    BY <1>1, <1>5, RankAssumption
  <2> QED
    BY <2>1
<1> QED
  BY <1>1, <1>2, <1>3, <1>4, <1>5, <1>6, <1>7 DEF Bucket

LEMMA SettleStep ==
  ASSUME IInv, NEW d \in Doc, Settle(d)
  PROVE  IInv'
<1> USE DEF Settle, input
<1>1. phase = "execute" /\ d \notin touched
  <2>1. phase = "execute"
    BY Frontier
  <2>2. report[d] = NotYet
    BY Frontier DEF Bucket
  <2> QED
    BY <2>1, <2>2 DEF IInv, TouchedIsAccounted, Attempted, NotYet
<1>2. outcome'[d] \in Status
  BY DEF IInv, TypeOK, Preview, Status
<1>3. TypeOK'
  BY <1>2 DEF IInv, TypeOK
<1>4. OutcomesOfRunning' /\ RunningIsNext'
  BY DEF IInv, TypeOK, OutcomesOfRunning, RunningIsNext, FirstOf, Unexecuted, Buckets, Bucket
<1>5. TouchedIsAccounted'
  BY <1>1 DEF IInv, TypeOK, TouchedIsAccounted
<1>6. RowsAreEarned'
  BY DEF IInv, TypeOK, RowsAreEarned, Preview
<1>7. SkippedBehindFailure'
  <2> SUFFICES ASSUME NEW e \in Doc, outcome'[e] = "Skipped"
               PROVE  ~keepGoing /\ \E f \in Bucket(running) : outcome'[f] = "Failed"
    BY DEF IInv, SkippedBehindFailure, Bucket
  <2>1. ~keepGoing /\ \E f \in Bucket(running) : outcome[f] = "Failed"
    <3>1. CASE e = d
      BY <3>1 DEF IInv, TypeOK, HaltedInside, Preview
    <3>2. CASE e # d
      BY <3>2, Frontier DEF IInv, TypeOK, SkippedBehindFailure
    <3> QED
      BY <3>1, <3>2
  <2> QED
    BY <2>1 DEF IInv, TypeOK, Bucket, NotYet
<1>8. Quiet' /\ AdmittedInput' /\ Ended'
  BY <1>1 DEF IInv, Quiet, AdmittedInput, Admissible, Ended
<1>9. ReportedInOrder' /\ NoFailureYet' /\ HaltStopsLaterKinds' /\ SyncedSince'
  BY DEF IInv, ReportedInOrder, NoFailureYet, HaltStopsLaterKinds, SyncedSince
<1> QED
  BY <1>3, <1>4, <1>5, <1>6, <1>7, <1>8, <1>9 DEF IInv

LEMMA WriteStep ==
  ASSUME IInv, NEW d \in Doc, Write(d)
  PROVE  IInv'
<1> USE DEF Write, input
<1>1. phase = "execute" /\ ~dryRun /\ report[d] = NotYet
  BY Frontier DEF Bucket
<1>2. outcome' \in [Doc -> Status \cup {NotYet}] /\ outcome'[d] \in Attempted
  BY DEF IInv, TypeOK, Written, Status, Attempted
<1>3. touched' \subseteq touched \cup {d} /\ outcome'[d] # "Failed" => d \in touched'
  BY DEF IInv, TypeOK, Written
<1>4. TypeOK'
  BY <1>2, <1>3 DEF IInv, TypeOK, Live
<1>5. OutcomesOfRunning' /\ RunningIsNext'
  BY DEF IInv, TypeOK, OutcomesOfRunning, RunningIsNext, FirstOf, Unexecuted, Buckets, Bucket
<1>6. TouchedIsAccounted'
  BY <1>1, <1>2 DEF IInv, TypeOK, TouchedIsAccounted
<1>7. HaltStopsLaterKinds' /\ NoFailureYet'
  BY <1>1 DEF IInv, HaltStopsLaterKinds, NoFailureYet
<1>8. SyncedSince'
  BY DEF IInv, TypeOK, SyncedSince
<1>9. RowsAreEarned'
  <2> SUFFICES ASSUME NEW e \in Doc
               PROVE  /\ {report[e], outcome'[e]} \cap {"Created", "Updated"} # {} => e \in touched'
                      /\ "Unchanged" \in {report[e], outcome'[e]} => plan[e] = "none"
    BY DEF RowsAreEarned
  <2>1. CASE e = d
    BY <2>1, <1>1, <1>2, <1>3 DEF IInv, TypeOK, RowsAreEarned, Attempted, NotYet
  <2>2. CASE e # d
    BY <2>2, <1>1 DEF IInv, TypeOK, RowsAreEarned
  <2> QED
    BY <2>1, <2>2
<1>10. SkippedBehindFailure'
  <2> SUFFICES ASSUME NEW e \in Doc, outcome'[e] = "Skipped"
               PROVE  ~keepGoing /\ \E f \in Bucket(running) : outcome'[f] = "Failed"
    BY DEF IInv, SkippedBehindFailure, Bucket
  <2>1. outcome[e] = "Skipped"
    BY <1>2 DEF IInv, TypeOK, Attempted
  <2>2. PICK f \in Bucket(running) : ~keepGoing /\ outcome[f] = "Failed"
    BY <2>1, <1>1 DEF IInv, SkippedBehindFailure
  <2>3. f # d /\ f \in Doc
    BY <2>2 DEF NotYet, Bucket
  <2> QED
    BY <2>2, <2>3 DEF IInv, TypeOK, Bucket
<1>11. Quiet' /\ AdmittedInput' /\ Ended'
  BY <1>1 DEF IInv, Quiet, AdmittedInput, Admissible, Ended
<1>12. ReportedInOrder'
  BY DEF IInv, ReportedInOrder
<1> QED
  BY <1>4, <1>5, <1>6, <1>7, <1>8, <1>9, <1>10, <1>11, <1>12 DEF IInv

LEMMA OtherWriterStep ==
  ASSUME IInv, NEW d \in Doc, OtherWriter(d)
  PROVE  IInv'
<1> USE DEF OtherWriter, input
<1>1. TypeOK'
  BY DEF IInv, TypeOK
<1>2. SyncedSince'
  BY DEF IInv, TypeOK, SyncedSince
<1>3. Quiet' /\ AdmittedInput' /\ Ended' /\ OutcomesOfRunning'
  BY DEF IInv, Quiet, AdmittedInput, Admissible, Ended, OutcomesOfRunning
<1>4. RunningIsNext' /\ SkippedBehindFailure'
  BY DEF IInv, RunningIsNext, FirstOf, Unexecuted, Buckets, Bucket, SkippedBehindFailure
<1>5. ReportedInOrder' /\ TouchedIsAccounted' /\ NoFailureYet' /\ HaltStopsLaterKinds'
  BY DEF IInv, ReportedInOrder, TouchedIsAccounted, NoFailureYet, HaltStopsLaterKinds
<1>6. RowsAreEarned'
  BY DEF IInv, RowsAreEarned
<1> QED
  BY <1>1, <1>2, <1>3, <1>4, <1>5, <1>6 DEF IInv

LEMMA FinishStep ==
  ASSUME IInv, Finish
  PROVE  IInv'
<1> USE DEF Finish, input
<1>1. \A d \in Doc : report[d] # NotYet
  BY DEF Unexecuted, Buckets, Bucket
<1>2. Ended' /\ Quiet' /\ AdmittedInput'
  BY <1>1 DEF IInv, Ended, Quiet, AdmittedInput, Admissible
<1>3. TypeOK'
  BY DEF IInv, TypeOK
<1>4. OutcomesOfRunning' /\ RunningIsNext' /\ SkippedBehindFailure'
  BY DEF IInv, OutcomesOfRunning, RunningIsNext, SkippedBehindFailure, Bucket
<1>5. ReportedInOrder' /\ TouchedIsAccounted' /\ NoFailureYet' /\ HaltStopsLaterKinds'
  BY DEF IInv, ReportedInOrder, TouchedIsAccounted, NoFailureYet, HaltStopsLaterKinds
<1>6. SyncedSince' /\ RowsAreEarned'
  BY DEF IInv, SyncedSince, RowsAreEarned
<1> QED
  BY <1>2, <1>3, <1>4, <1>5, <1>6 DEF IInv

\* The end of a bucket, for rows that execute can have produced.
LEMMA EndBucketStep ==
  ASSUME IInv, running # Idle, NEW rows \in [Bucket(running) -> Status],
         \A d \in Bucket(running) :
            /\ d \in touched => rows[d] \in Attempted
            /\ rows[d] \in {"Created", "Updated"} => d \in touched
            /\ rows[d] = "Unchanged" => plan[d] = "none"
            /\ rows[d] = "Skipped" => ~keepGoing /\ \E e \in Bucket(running) : rows[e] = "Failed",
         EndBucket(rows)
  PROVE  IInv'
<1> USE DEF EndBucket, input
<1>1. \A d \in Doc : report'[d] =
          IF kindOf[d] = running THEN rows[d]
          ELSE IF Halts(rows) /\ Rank[kindOf[d]] > Rank[running] THEN "Skipped"
          ELSE report[d]
  BY DEF Extended, Bucket, NotAttempted
<1>2. TypeOK'
  BY DEF IInv, TypeOK, Extended, Status, Bucket
<1>a. /\ phase = "execute" /\ Admissible /\ ~dryRun
      /\ Halts(rows) <=> ~keepGoing /\ \E d \in Bucket(running) : rows[d] = "Failed"
      /\ \A d \in Doc : Rank[kindOf[d]] \in Nat
      /\ Rank[running] \in Nat
  BY Frontier, RankAssumption DEF Halts
<1>b. \A d \in Doc : rows[d] # NotYet \/ kindOf[d] # running
  BY DEF Bucket, Status, NotYet
<1>3. ReportedInOrder'
  <2> SUFFICES ASSUME phase' = "execute", NEW d \in Doc, NEW e \in Doc,
                      report'[d] # NotYet, Rank[kindOf[e]] <= Rank[kindOf[d]]
               PROVE  report'[e] # NotYet
    BY DEF ReportedInOrder
  <2>1. ~Halts(rows)
    OBVIOUS
  <2>2. Rank[kindOf[d]] <= Rank[running]
    BY <1>1, <1>a, <2>1, Frontier
  <2>3. kindOf[e] = running \/ report[e] # NotYet
    BY <1>a, <2>2, Frontier
  <2> QED
    BY <1>1, <1>b, <2>1, <2>3
<1>4. Quiet' /\ AdmittedInput'
  BY <1>a DEF IInv, Quiet, AdmittedInput, Admissible
<1>5. Ended'
  <2> SUFFICES ASSUME Halts(rows), NEW d \in Doc PROVE report'[d] # NotYet
    BY <1>a DEF Ended, Idle
  <2>1. CASE Rank[kindOf[d]] < Rank[running]
    BY <2>1, <1>1, <1>a, <1>b, Frontier
  <2>2. CASE Rank[kindOf[d]] = Rank[running]
    BY <2>2, <1>1, <1>b, Frontier
  <2>3. CASE Rank[kindOf[d]] > Rank[running]
    BY <2>3, <1>1, <1>b, <1>a DEF NotYet
  <2> QED
    BY <2>1, <2>2, <2>3, <1>a
<1>6. OutcomesOfRunning' /\ RunningIsNext'
  BY DEF OutcomesOfRunning, RunningIsNext
<1>7. \A d \in Doc : kindOf[d] # running /\ report'[d] # report[d] => Halts(rows) /\ d \notin touched
  <2> SUFFICES ASSUME NEW d \in Doc, kindOf[d] # running, report'[d] # report[d]
               PROVE  Halts(rows) /\ d \notin touched
    OBVIOUS
  <2>1. Halts(rows) /\ Rank[kindOf[d]] > Rank[running]
    BY <1>1
  <2> QED
    BY <2>1, <1>a, Frontier
<1>8. TouchedIsAccounted'
  <2> SUFFICES ASSUME NEW d \in touched PROVE report'[d] \in Attempted
    BY DEF TouchedIsAccounted
  <2>1. d \in Doc
    BY DEF IInv, TypeOK
  <2>2. CASE kindOf[d] = running
    BY <2>1, <2>2, <1>1 DEF Bucket
  <2>3. CASE kindOf[d] # running
    BY <2>1, <2>3, <1>7 DEF IInv, TouchedIsAccounted, OutcomesOfRunning, Attempted, NotYet
  <2> QED
    BY <2>2, <2>3
<1>9. NoFailureYet'
  <2> SUFFICES ASSUME phase' = "execute", ~keepGoing, NEW d \in Doc PROVE report'[d] # "Failed"
    BY DEF NoFailureYet
  <2>1. ~Halts(rows)
    OBVIOUS
  <2> QED
    BY <2>1, <1>1, <1>a DEF IInv, NoFailureYet, Bucket
<1>10. HaltStopsLaterKinds'
  <2> SUFFICES ASSUME ~keepGoing, NEW d \in Doc, NEW e \in Doc, report'[d] = "Failed", e \in touched
               PROVE  Rank[kindOf[e]] <= Rank[kindOf[d]]
    BY DEF HaltStopsLaterKinds
  <2>1. kindOf[d] = running
    BY <1>1, <1>a DEF IInv, NoFailureYet
  <2> QED
    BY <2>1, Frontier
<1>11. SyncedSince'
  BY DEF IInv, SyncedSince
<1>12. RowsAreEarned'
  BY <1>1, <1>a DEF IInv, RowsAreEarned, Bucket, NotYet
<1>13. SkippedBehindFailure'
  <2> SUFFICES ASSUME NEW d \in Doc, report'[d] = "Skipped"
               PROVE  \E e \in Doc : report'[e] = "Failed"
    BY DEF SkippedBehindFailure, NotYet
  <2>1. CASE \E e \in Bucket(running) : rows[e] = "Failed"
    BY <2>1, <1>1 DEF Bucket
  <2>2. CASE \A e \in Bucket(running) : rows[e] # "Failed"
    <3>1. ~Halts(rows) /\ kindOf[d] # running /\ report[d] = "Skipped"
      BY <2>2, <1>1, <1>a DEF Bucket
    <3>2. PICK e \in Doc : report[e] = "Failed"
      BY <3>1, <1>a DEF IInv, SkippedBehindFailure
    <3> QED
      BY <3>1, <3>2, <1>1, Frontier DEF Bucket, NotYet
  <2> QED
    BY <2>1, <2>2
<1> QED
  BY <1>2, <1>3, <1>4, <1>5, <1>6, <1>8, <1>9, <1>10, <1>11, <1>12, <1>13 DEF IInv

LEMMA BucketOkStep ==
  ASSUME IInv, BucketOk
  PROVE  IInv'
<1> DEFINE rows == [d \in Bucket(running) |-> outcome[d]]
<1>1. running # Idle /\ EndBucket(rows)
  BY DEF BucketOk
<1>2. rows \in [Bucket(running) -> Status]
  BY DEF BucketOk, IInv, TypeOK, Bucket
<1>3. ASSUME NEW d \in Bucket(running)
      PROVE  /\ d \in touched => rows[d] \in Attempted
             /\ rows[d] \in {"Created", "Updated"} => d \in touched
             /\ rows[d] = "Unchanged" => plan[d] = "none"
             /\ rows[d] = "Skipped" => ~keepGoing /\ \E e \in Bucket(running) : rows[e] = "Failed"
  <2>1. d \in Doc /\ rows[d] = outcome[d] /\ report[d] = NotYet /\ ~dryRun
    BY <1>1, Frontier DEF Bucket
  <2>2. d \in touched => outcome[d] \in Attempted
    BY <2>1 DEF IInv, TouchedIsAccounted, Attempted, NotYet
  <2>3. /\ outcome[d] \in {"Created", "Updated"} => d \in touched
        /\ outcome[d] = "Unchanged" => plan[d] = "none"
    BY <2>1 DEF IInv, RowsAreEarned
  <2>4. outcome[d] = "Skipped" => ~keepGoing /\ \E e \in Bucket(running) : outcome[e] = "Failed"
    BY <2>1 DEF IInv, SkippedBehindFailure
  <2> QED
    BY <2>1, <2>2, <2>3, <2>4
<1> HIDE DEF rows
<1> QED
  BY <1>1, <1>2, <1>3, EndBucketStep

LEMMA BucketErrStep ==
  ASSUME IInv, BucketErr
  PROVE  IInv'
<1> DEFINE rows == [d \in Bucket(running) |-> "Failed"]
<1>1. running # Idle /\ EndBucket(rows)
  BY DEF BucketErr
<1>2. rows \in [Bucket(running) -> Status]
  BY DEF Status
<1>3. \A d \in Bucket(running) : rows[d] = "Failed" /\ rows[d] \in Attempted
  BY DEF Attempted
<1> HIDE DEF rows
<1> QED
  BY <1>1, <1>2, <1>3, EndBucketStep

\* IInv is inductive: every step of the apply or of another operator preserves it.
LEMMA NextIInv == IInv /\ [Next]_vars => IInv'
<1> SUFFICES ASSUME IInv, [Next]_vars PROVE IInv'
  OBVIOUS
<1>1. CASE UNCHANGED vars
  <2> USE <1>1 DEF vars, input
  <2>1. TypeOK' /\ Quiet' /\ AdmittedInput' /\ Ended'
    BY DEF IInv, TypeOK, Quiet, AdmittedInput, Admissible, Ended
  <2>2. OutcomesOfRunning' /\ RunningIsNext' /\ ReportedInOrder' /\ TouchedIsAccounted'
    BY DEF IInv, OutcomesOfRunning, RunningIsNext, FirstOf, Unexecuted, Buckets, Bucket,
           ReportedInOrder, TouchedIsAccounted
  <2>3. NoFailureYet' /\ HaltStopsLaterKinds' /\ SyncedSince' /\ RowsAreEarned'
    BY DEF IInv, NoFailureYet, HaltStopsLaterKinds, SyncedSince, RowsAreEarned
  <2>4. SkippedBehindFailure'
    BY DEF IInv, SkippedBehindFailure, Bucket
  <2> QED
    BY <2>1, <2>2, <2>3, <2>4 DEF IInv
<1>2. CASE \E d \in Doc : OtherWriter(d)
  BY <1>2, OtherWriterStep
<1>3. CASE Step
  <2>1. CASE Gate \/ PlanRefused \/ EndPlan
    BY <2>1, GateStep, PlanRefusedStep, EndPlanStep
  <2>2. CASE BucketOk \/ BucketErr \/ Finish
    BY <2>2, BucketOkStep, BucketErrStep, FinishStep
  <2>3. CASE \E k \in Kind : PlanBucket(k) \/ StartBucket(k)
    BY <2>3, PlanBucketStep, StartBucketStep
  <2>4. CASE \E d \in Doc : Settle(d) \/ Write(d)
    BY <2>4, SettleStep, WriteStep
  <2> QED
    BY <1>3, <2>1, <2>2, <2>3, <2>4 DEF Step
<1> QED
  BY <1>1, <1>2, <1>3 DEF Next

-----------------------------------------------------------------------------
\* The strengthened invariant holds of every apply, whatever its input, its handlers'
\* failures and the other operators' changes (router.rs apply).
THEOREM Strengthened == Spec => []IInv
  BY InitIInv, NextIInv, PTL DEF Spec

\* The scheduler's state keeps its types.
THEOREM TypeCorrect == Spec => []TypeOK
<1>1. IInv => TypeOK
  BY DEF IInv
<1> QED
  BY <1>1, Strengthened, PTL

\* The all-or-nothing gate (router.rs:40-99, main.rs refuse_if_read_only): no write
\* before the whole input passed validation and plan, none in a dry run, none in a
\* read-only context.
THEOREM GateHolds == Spec => []GateIsAllOrNothing
<1>1. IInv => GateIsAllOrNothing
  BY DEF IInv, GateIsAllOrNothing, TypeOK, Quiet, AdmittedInput, Admissible, Ended
<1> QED
  BY <1>1, Strengthened, PTL

\* Stop-on-error (router.rs:156-189): without --continue-on-error no document of a
\* later kind is written once one of an earlier kind failed.
THEOREM HaltHolds == Spec => []HaltStopsLaterKinds
<1>1. IInv => HaltStopsLaterKinds
  BY DEF IInv
<1> QED
  BY <1>1, Strengthened, PTL

\* The result table never says "nothing was sent" of a document that was written.
THEOREM RowsAreTrue == Spec => []RowsHideNoWrite
<1>1. IInv => RowsHideNoWrite
  BY DEF IInv, RowsHideNoWrite, TouchedIsAccounted, Attempted, NotYet
<1> QED
  BY <1>1, Strengthened, PTL

\* The result table accounts for every document of the input (router.rs:178-189).
THEOREM ReportCompletes == Spec => []ReportIsComplete
<1>1. IInv => ReportIsComplete
  BY DEF IInv, ReportIsComplete, Ended
<1> QED
  BY <1>1, Strengthened, PTL

\* Exit status 0 means every document is applied, or was changed by somebody else.
THEOREM SuccessIsReal == Spec => []SuccessMeansApplied
<1>1. ASSUME IInv, ExitsZero, ~dryRun, NEW d \in Doc
      PROVE  report[d] # "Skipped" /\ (live[d] = "synced" \/ d \in disturbed)
  <2>1. report[d] # "Skipped" /\ report[d] # "Failed"
    BY <1>1 DEF IInv, ExitsZero, SkippedBehindFailure
  <2>2. report[d] \in {"Created", "Updated", "Unchanged"}
    BY <1>1, <2>1 DEF IInv, ExitsZero, Ended, TypeOK, Status
  <2>3. d \in touched \/ plan[d] = "none"
    BY <1>1, <2>2 DEF IInv, RowsAreEarned
  <2> QED
    BY <1>1, <2>1, <2>3 DEF IInv, SyncedSince
<1>2. IInv => SuccessMeansApplied
  BY <1>1 DEF SuccessMeansApplied
<1> QED
  BY <1>2, Strengthened, PTL

-----------------------------------------------------------------------------
(* The refinement.  Only the steps that change what the promise talks about  *)
(* need an argument: the end of planning, a write, the end of a bucket.      *)

\* What was written or has failed so far is not of a later kind than the running one.
LEMMA PastRanks ==
  ASSUME IInv, running # Idle,
         NEW e \in touched \cup {f \in Doc : report[f] = "Failed"}
  PROVE  e \in Doc /\ Rank[kindOf[e]] \in Nat /\ Rank[kindOf[e]] <= Rank[running]
<1>1. e \in Doc /\ Rank[running] \in Nat /\ Rank[kindOf[e]] \in Nat
  BY Frontier, RankAssumption DEF IInv, TypeOK
<1>2. CASE e \in touched
  BY <1>1, <1>2, Frontier
<1>3. CASE e \notin touched
  <2>1. report[e] # NotYet
    BY <1>3 DEF NotYet
  <2>2. Rank[kindOf[e]] < Rank[running]
    BY <1>1, <2>1, Frontier
  <2> QED
    BY <1>1, <2>2
<1> QED
  BY <1>2, <1>3

\* A served write is one the promise allows at this point.
LEMMA WriteRefines ==
  ASSUME IInv, NEW d \in Doc, Write(d)
  PROVE  [Promise!Next]_Promise!vars
<1> USE DEF Write, input
<1>1. phase = "execute" /\ kindOf[d] = running /\ Rank[running] \in Nat
  BY Frontier, RankAssumption
<1>2. \A e \in touched \cup {f \in Doc : report[f] = "Failed"} : ~(Rank[kindOf[d]] < Rank[kindOf[e]])
  BY <1>1, PastRanks
<1>3. keepGoing \/ {f \in Doc : report[f] = "Failed"} = {}
  BY <1>1 DEF IInv, NoFailureYet
<1>4. CASE touched' = touched \cup {d}
  <2>1. Promise!Change(d)
    BY <1>1, <1>2, <1>3, <1>4 DEF Promise!Change, Promise!Before
  <2> QED
    BY <2>1 DEF Promise!Next
<1>5. CASE touched' = touched
  BY <1>5 DEF Promise!vars
<1> QED
  BY <1>4, <1>5

\* The failed rows of a bucket fail together and, unless told to continue, last.
LEMMA EndBucketRefines ==
  ASSUME IInv, running # Idle, NEW rows \in [Bucket(running) -> Status], EndBucket(rows)
  PROVE  [Promise!Next]_Promise!vars
<1> DEFINE S == {d \in Bucket(running) : rows[d] = "Failed"}
           F == {d \in Doc : report[d] = "Failed"}
<1> USE DEF EndBucket, input
<1>1. phase = "execute" /\ Bucket(running) \in SUBSET Doc /\ Rank[running] \in Nat
  BY Frontier, RankAssumption
<1>2. {d \in Doc : report'[d] = "Failed"} = F \cup S
  <2>1. \A d \in Doc : report'[d] =
            IF kindOf[d] = running THEN rows[d]
            ELSE IF Halts(rows) /\ d \in NotAttempted(running) THEN "Skipped"
            ELSE report[d]
    BY DEF Extended, Bucket
  <2>2. \A d \in Doc : d \in NotAttempted(running) \/ kindOf[d] = running => report[d] = NotYet
    BY <1>1, Frontier DEF NotAttempted
  <2> QED
    BY <2>1, <2>2 DEF Bucket, NotYet
<1>3. phase' = IF S # {} /\ ~keepGoing THEN "done" ELSE "execute"
  BY <1>1 DEF Halts
<1>4. \A d \in S : kindOf[d] = running
  BY DEF Bucket
<1>5. \A e \in touched \cup F \cup S :
         Rank[kindOf[e]] <= Rank[running] /\ Rank[kindOf[e]] \in Nat
  BY <1>1, <1>4, PastRanks
<1>6. CASE S # {}
  <2>1. PICK T \in (SUBSET Doc) \ {{}} : T = S
    BY <1>1, <1>6
  <2>2. Promise!Fail(T)
    BY <1>1, <1>2, <1>3, <1>4, <1>5, <1>6, <2>1 DEF Promise!Fail, Promise!Before
  <2> QED
    BY <2>2 DEF Promise!Next
<1>7. CASE S = {}
  BY <1>1, <1>2, <1>3, <1>7 DEF Promise!vars
<1> QED
  BY <1>6, <1>7

LEMMA StepRefines == IInv /\ [Next]_vars => [Promise!Next]_Promise!vars
<1> SUFFICES ASSUME IInv, [Next]_vars PROVE [Promise!Next]_Promise!vars
  OBVIOUS
<1> USE DEF input, Promise!vars
<1>1. CASE UNCHANGED vars
  BY <1>1 DEF vars
<1>2. CASE \E d \in Doc : OtherWriter(d)
  BY <1>2 DEF OtherWriter
<1>3. CASE \E k \in Kind : PlanBucket(k) \/ StartBucket(k)
  BY <1>3 DEF PlanBucket, StartBucket
<1>4. ASSUME NEW d \in Doc, Settle(d) PROVE [Promise!Next]_Promise!vars
  BY <1>4 DEF Settle
<1>5. ASSUME NEW d \in Doc, Write(d) PROVE [Promise!Next]_Promise!vars
  BY <1>5, WriteRefines
<1>6. CASE Gate \/ PlanRefused
  BY <1>6 DEF Gate, PlanRefused, Promise!Next, Promise!CloseUntouched
<1>7. CASE EndPlan
  <2>1. Promise!CloseUntouched \/ Promise!Admit
    BY <1>7 DEF EndPlan, Promise!CloseUntouched, Promise!Admit
  <2> QED
    BY <2>1 DEF Promise!Next
<1>8. CASE BucketOk
  <2> DEFINE rows == [d \in Bucket(running) |-> outcome[d]]
  <2>1. rows \in [Bucket(running) -> Status] /\ running # Idle /\ EndBucket(rows)
    BY <1>8 DEF BucketOk, IInv, TypeOK, Bucket
  <2> HIDE DEF rows
  <2> QED
    BY <2>1, EndBucketRefines
<1>9. CASE BucketErr
  <2> DEFINE rows == [d \in Bucket(running) |-> "Failed"]
  <2>1. rows \in [Bucket(running) -> Status] /\ running # Idle /\ EndBucket(rows)
    BY <1>9 DEF BucketErr, Status
  <2> HIDE DEF rows
  <2> QED
    BY <2>1, EndBucketRefines
<1>10. CASE Finish
  BY <1>10 DEF Finish, Promise!Next, Promise!Close
<1> QED
  BY <1>1, <1>2, <1>3, <1>4, <1>5, <1>6, <1>7, <1>8, <1>9, <1>10 DEF Next, Step

\* The scheduler implements ApplyPromise: admitted as a whole, written in precedence
\* order, ended by the first failing kind (docs/concepts/declarative-apply.md).
THEOREM PromiseIsKept == Spec => KeepsPromise
<1>1. Init => Promise!Init
  BY DEF Init, Promise!Init, NotYet
<1> QED
  BY <1>1, StepRefines, Strengthened, PTL DEF Spec, KeepsPromise, Promise!Spec

-----------------------------------------------------------------------------
(* Lists: event sources and their order. *)

\* Induction over a bounded range, from the least number outside a set.
LEMMA RangeInduction ==
    ASSUME NEW N \in Nat, NEW T, 0 \in T, \A n \in 0 .. N : n + 1 \in 0 .. N /\ n \in T => n + 1 \in T
    PROVE  \A n \in 0 .. N : n \in T
  <1> DEFINE out == {0 .. n : n \in {m \in 0 .. N : m \notin T}}
             R == StrictSubsetOrdering(Nat)
             F == FiniteSubsetsOf(Nat)
  <1> SUFFICES ASSUME NEW k \in 0 .. N, k \notin T PROVE FALSE
    OBVIOUS
  <1>1. IsWellFoundedOn(R, F)
    BY FS_StrictSubsetOrderingWellFounded
  <1>2. out \subseteq F /\ out # {}
    <2>1. \A n \in 0 .. N : 0 .. n \in SUBSET Nat /\ IsFiniteSet(0 .. n)
      BY FS_Interval
    <2>2. \A n \in 0 .. N : 0 .. n \in F
      BY <2>1 DEF FiniteSubsetsOf
    <2> QED
      BY <2>2
  <1>3. PICK x \in out : \A y \in out : <<y, x>> \notin R
    <2> HIDE DEF out, R, F
    <2> QED
      BY <1>1, <1>2, WFMin
  <1>4. PICK n \in 0 .. N : n \notin T /\ x = 0 .. n
    BY <1>3
  <1>5. n # 0 /\ n - 1 \in 0 .. N /\ n - 1 \notin T
    BY <1>4
  <1>6. 0 .. (n - 1) \in out
    BY <1>5
  <1>7. 0 .. (n - 1) \subseteq x /\ 0 .. (n - 1) # x /\ x \in SUBSET Nat
    BY <1>4, <1>5
  <1>8. <<0 .. (n - 1), x>> \in R
    BY <1>7 DEF StrictSubsetOrdering
  <1> QED
    BY <1>3, <1>6, <1>8

-----------------------------------------------------------------------------
\* What Pick does place by place.
Places(names) == 0 .. Len(names)
Picks(p, names, places) ==
    /\ p[0] = << >>
    /\ \A n \in 1 .. Len(names) : p[n] = IF n \in places THEN Append(p[n - 1], names[n]) ELSE p[n - 1]

\* The recursive function that Pick is made of has a value at every place.
LEMMA PickIsDefined ==
    ASSUME NEW S, NEW names \in Seq(S), NEW places
    PROVE  \E p \in [Places(names) -> Seq(S)] : Picks(p, names, places) /\ Pick(names, places) = p[Len(names)]
  <1> DEFINE L == Len(names)
             body(f, n) == IF n = 0 THEN << >>
                           ELSE IF n \in places THEN Append(f[n - 1], names[n]) ELSE f[n - 1]
             T == {m \in 0 .. L : \E g \in [0 .. m -> Seq(S)] : \A n \in 0 .. m : g[n] = body(g, n)}
  <1>1. L \in Nat /\ \A n \in 1 .. L : names[n] \in S
    OBVIOUS
  <1>2. 0 \in T
    <2> DEFINE g == [n \in 0 .. 0 |-> << >>]
    <2>1. g \in [0 .. 0 -> Seq(S)] /\ \A n \in 0 .. 0 : g[n] = body(g, n)
      OBVIOUS
    <2>2. \E e \in [0 .. 0 -> Seq(S)] : \A n \in 0 .. 0 : e[n] = body(e, n)
      <3> HIDE DEF g, body
      <3> QED
        BY <2>1
    <2> QED
      BY <1>1, <2>2
  <1>3. \A m \in 0 .. L : m + 1 \in 0 .. L /\ m \in T => m + 1 \in T
    <2> SUFFICES ASSUME NEW m \in 0 .. L, m + 1 \in 0 .. L, m \in T PROVE m + 1 \in T
      OBVIOUS
    <2>1. PICK g \in [0 .. m -> Seq(S)] : \A n \in 0 .. m : g[n] = body(g, n)
      OBVIOUS
    <2> DEFINE h == [n \in 0 .. (m + 1) |-> IF n <= m THEN g[n] ELSE body(g, n)]
    <2>2. body(g, m + 1) \in Seq(S)
      BY <1>1
    <2>3. h \in [0 .. (m + 1) -> Seq(S)]
      <3>1. \A n \in 0 .. (m + 1) : n <= m => n \in 0 .. m
        OBVIOUS
      <3>2. \A n \in 0 .. (m + 1) : ~(n <= m) => n = m + 1
        OBVIOUS
      <3> HIDE DEF body
      <3> QED
        BY <2>2, <3>1, <3>2
    <2>4. \A n \in 0 .. m : h[n] = g[n]
      OBVIOUS
    <2>5. \A n \in 0 .. (m + 1) : body(h, n) = body(g, n)
      BY <2>4
    <2>6. \A n \in 0 .. (m + 1) : h[n] = body(g, n)
      <3>1. \A n \in 0 .. (m + 1) : n <= m => n \in 0 .. m
        OBVIOUS
      <3> HIDE DEF body
      <3> QED
        BY <2>1, <3>1
    <2>7. \A n \in 0 .. (m + 1) : h[n] = body(h, n)
      BY <2>5, <2>6
    <2> HIDE DEF h, body
    <2> QED
      BY <2>3, <2>7
  <1>4. L \in T
    <2>1. \A m \in 0 .. L : m \in T
      <3> HIDE DEF T, L
      <3> QED
        BY <1>1, <1>2, <1>3, RangeInduction
    <2> HIDE DEF T, L
    <2> QED
      BY <1>1, <2>1
  <1>5. PICK g \in [0 .. L -> Seq(S)] : \A n \in 0 .. L : g[n] = body(g, n)
    BY <1>4
  <1> DEFINE f == CHOOSE e : e = [n \in 0 .. L |-> body(e, n)]
  <1>6. f = [n \in 0 .. L |-> body(f, n)]
    <2>1. g = [n \in 0 .. L |-> body(g, n)]
      BY <1>5
    <2> HIDE DEF body
    <2> QED
      BY <2>1
  <1> HIDE DEF f
  <1>7. \A n \in 0 .. L : f[n] = g[n]
    <2> DEFINE U == {n \in 0 .. L : f[n] = g[n]}
    <2>1. 0 \in U
      BY <1>1, <1>5, <1>6
    <2>2. \A n \in 0 .. L : n + 1 \in 0 .. L /\ n \in U => n + 1 \in U
      <3> SUFFICES ASSUME NEW n \in 0 .. L, n + 1 \in 0 .. L, f[n] = g[n] PROVE f[n + 1] = g[n + 1]
        OBVIOUS
      <3>1. n + 1 # 0 /\ (n + 1) - 1 = n
        BY <1>1
      <3>2. body(f, n + 1) = body(g, n + 1)
        BY <3>1
      <3> HIDE DEF body
      <3> QED
        BY <1>5, <1>6, <3>2
    <2>3. \A n \in 0 .. L : n \in U
      <3> HIDE DEF U, L
      <3> QED
        BY <1>1, <2>1, <2>2, RangeInduction
    <2> QED
      BY <2>3
  <1>8. Pick(names, places) = f[L]
    BY DEF Pick, f
  <1>9. Picks(g, names, places)
    <2>1. g[0] = << >>
      BY <1>1, <1>5
    <2>2. \A n \in 1 .. L : n # 0 /\ n \in 0 .. L
      BY <1>1
    <2>3. \A n \in 1 .. L : g[n] = IF n \in places THEN Append(g[n - 1], names[n]) ELSE g[n - 1]
      BY <1>5, <2>2
    <2> QED
      BY <2>1, <2>3 DEF Picks
  <1> QED
    BY <1>1, <1>7, <1>8, <1>9 DEF Places

\* The places that a list took its names from, in their order.
Enumerates(f, list, names, places, n) ==
    /\ f \in [1 .. Len(list) -> 1 .. n]
    /\ \A k \in 1 .. Len(list) : f[k] \in places /\ list[k] = names[f[k]]
    /\ \A k, l \in 1 .. Len(list) : k < l => f[k] < f[l]
    /\ \A i \in 1 .. n : i \in places => \E k \in 1 .. Len(list) : f[k] = i

\* A picked list names the picked places, each once and in order.
LEMMA PickEnumerates ==
    ASSUME NEW S, NEW names \in Seq(S), NEW places
    PROVE  /\ Pick(names, places) \in Seq(S)
           /\ \E f : Enumerates(f, Pick(names, places), names, places, Len(names))
  <1>1. PICK p \in [Places(names) -> Seq(S)] : Picks(p, names, places) /\ Pick(names, places) = p[Len(names)]
    BY PickIsDefined
  <1> DEFINE L == Len(names)
             T == {n \in 0 .. L : \E f : Enumerates(f, p[n], names, places, n)}
  <1>2. L \in Nat /\ L \in 0 .. L /\ p \in [0 .. L -> Seq(S)]
    BY DEF Places
  <1>3. 0 \in T
    <2> DEFINE f == [k \in 1 .. 0 |-> 0]
    <2>1. p[0] = << >>
      BY <1>1 DEF Picks
    <2>2. Enumerates(f, p[0], names, places, 0)
      BY <2>1 DEF Enumerates
    <2> HIDE DEF f
    <2> QED
      BY <1>2, <2>2
  <1>4. \A n \in 0 .. L : n + 1 \in 0 .. L /\ n \in T => n + 1 \in T
    <2> SUFFICES ASSUME NEW n \in 0 .. L, n + 1 \in 0 .. L, NEW f, Enumerates(f, p[n], names, places, n)
                 PROVE  \E h : Enumerates(h, p[n + 1], names, places, n + 1)
      OBVIOUS
    <2>1. p[n] \in Seq(S) /\ n \in Nat /\ n + 1 \in 1 .. L /\ names[n + 1] \in S
      BY <1>2
    <2>2. p[n + 1] = IF n + 1 \in places THEN Append(p[n], names[n + 1]) ELSE p[n]
      <3>1. (n + 1) - 1 = n
        BY <2>1
      <3> QED
        BY <1>1, <2>1, <3>1 DEF Picks
    <2>3. CASE n + 1 \notin places
      <3>1. Enumerates(f, p[n], names, places, n + 1)
        <4>1. \A i \in 1 .. (n + 1) : i \in places => i \in 1 .. n
          BY <2>1, <2>3
        <4>2. f \in [1 .. Len(p[n]) -> 1 .. (n + 1)]
          BY <2>1 DEF Enumerates
        <4> QED
          BY <4>1, <4>2 DEF Enumerates
      <3> QED
        BY <2>2, <2>3, <3>1
    <2>4. CASE n + 1 \in places
      <3> DEFINE q == Append(p[n], names[n + 1])
                 m == Len(p[n])
                 h == [k \in 1 .. (m + 1) |-> IF k <= m THEN f[k] ELSE n + 1]
      <3>1. /\ m \in Nat /\ Len(q) = m + 1 /\ q[m + 1] = names[n + 1]
            /\ \A k \in 1 .. m : q[k] = p[n][k]
        BY <2>1
      <3>2. /\ \A k \in 1 .. m : h[k] = f[k] /\ f[k] \in 1 .. n
            /\ h[m + 1] = n + 1
        <4>1. f \in [1 .. m -> 1 .. n]
          BY DEF Enumerates
        <4>2. m + 1 \in 1 .. (m + 1) /\ ~(m + 1 <= m) /\ \A k \in 1 .. m : k \in 1 .. (m + 1) /\ k <= m
          BY <3>1
        <4> HIDE DEF m
        <4> QED
          BY <4>1, <4>2
      <3>3. \A k \in 1 .. (m + 1) : k \in 1 .. m \/ k = m + 1
        BY <3>1
      <3>4. h \in [1 .. (m + 1) -> 1 .. (n + 1)]
        <4>1. \A k \in 1 .. (m + 1) : h[k] \in 1 .. (n + 1)
          <5>1. n + 1 \in 1 .. (n + 1) /\ \A i \in 1 .. n : i \in 1 .. (n + 1)
            BY <2>1
          <5> HIDE DEF h, m
          <5> QED
            BY <3>2, <3>3, <5>1
        <4> QED
          BY <4>1
      <3> HIDE DEF q, h
      <3>5. \A k \in 1 .. (m + 1) : h[k] \in places /\ q[k] = names[h[k]]
        BY <2>4, <3>1, <3>2, <3>3 DEF Enumerates
      <3>6. \A k, l \in 1 .. (m + 1) : k < l => h[k] < h[l]
        <4> SUFFICES ASSUME NEW k \in 1 .. (m + 1), NEW l \in 1 .. (m + 1), k < l PROVE h[k] < h[l]
          OBVIOUS
        <4>1. k \in 1 .. m
          BY <3>1
        <4>2. CASE l = m + 1
          BY <2>1, <3>2, <4>1, <4>2
        <4>3. CASE l \in 1 .. m
          BY <3>2, <4>1, <4>3 DEF Enumerates
        <4> QED
          BY <3>3, <4>2, <4>3
      <3>7. \A i \in 1 .. (n + 1) : i \in places => \E k \in 1 .. (m + 1) : h[k] = i
        <4> SUFFICES ASSUME NEW i \in 1 .. (n + 1), i \in places PROVE \E k \in 1 .. (m + 1) : h[k] = i
          OBVIOUS
        <4>1. CASE i = n + 1
          BY <3>1, <3>2, <4>1
        <4>2. CASE i \in 1 .. n
          <5>1. PICK k \in 1 .. m : f[k] = i
            BY <4>2 DEF Enumerates
          <5>2. k \in 1 .. (m + 1)
            BY <3>1
          <5> QED
            BY <3>2, <5>1, <5>2
        <4> QED
          BY <2>1, <4>1, <4>2
      <3>8. Enumerates(h, q, names, places, n + 1)
        BY <3>1, <3>4, <3>5, <3>6, <3>7 DEF Enumerates
      <3> QED
        BY <2>2, <2>4, <3>8 DEF q
    <2> QED
      BY <2>3, <2>4
  <1>5. L \in T
    <2>1. \A n \in 0 .. L : n \in T
      <3> HIDE DEF T, L
      <3> QED
        BY <1>2, <1>3, <1>4, RangeInduction
    <2> HIDE DEF T, L
    <2> QED
      BY <1>2, <2>1
  <1> QED
    BY <1>1, <1>2, <1>5

\* What a picked list holds, and in which order.
LEMMA PickFacts ==
    ASSUME NEW S, NEW names \in Seq(S), NEW places \in SUBSET (DOMAIN names)
    PROVE  /\ Pick(names, places) \in Seq(S)
           /\ \A x : x \in ToSet(Pick(names, places)) <=> \E i \in places : names[i] = x
           /\ (\A i, j \in places : names[i] = names[j] => i = j) => IsInjective(Pick(names, places))
           /\ \A x, y : Before(Pick(names, places), x, y) <=>
                         \E i, j \in places : i < j /\ names[i] = x /\ names[j] = y
  <1> DEFINE s == Pick(names, places)
  <1>1. s \in Seq(S) /\ DOMAIN s = 1 .. Len(s) /\ DOMAIN names = 1 .. Len(names) /\ Len(s) \in Nat
    BY PickEnumerates
  <1>2. PICK f : Enumerates(f, s, names, places, Len(names))
    BY PickEnumerates
  <1> HIDE DEF s
  <1>3. /\ \A k \in DOMAIN s : f[k] \in places /\ s[k] = names[f[k]]
        /\ \A k, l \in DOMAIN s : k < l => f[k] < f[l]
        /\ \A i \in places : \E k \in DOMAIN s : f[k] = i
    BY <1>1, <1>2 DEF Enumerates
  <1>4. \A x : x \in ToSet(s) <=> \E i \in places : names[i] = x
    BY <1>3 DEF ToSet
  <1>5. (\A i, j \in places : names[i] = names[j] => i = j) => IsInjective(s)
    <2> SUFFICES ASSUME \A i, j \in places : names[i] = names[j] => i = j,
                        NEW k \in DOMAIN s, NEW l \in DOMAIN s, s[k] = s[l]
                 PROVE  k = l
      BY DEF IsInjective
    <2>1. f[k] = f[l] /\ f[k] \in Nat
      BY <1>1, <1>3
    <2> QED
      BY <1>1, <1>3, <2>1
  <1>6. ASSUME NEW x, NEW y, NEW i \in places, NEW j \in places, i < j, names[i] = x, names[j] = y
        PROVE  Before(s, x, y)
    <2>1. PICK k \in DOMAIN s : f[k] = i
      BY <1>3
    <2>2. PICK l \in DOMAIN s : f[l] = j
      BY <1>3
    <2>3. k < l
      <3>1. ~(l < k) /\ k # l
        BY <1>1, <1>3, <1>6, <2>1, <2>2
      <3> QED
        BY <1>1, <3>1
    <2> QED
      BY <1>3, <1>6, <2>1, <2>2, <2>3 DEF Before
  <1>7. ASSUME NEW x, NEW y, Before(s, x, y)
        PROVE  \E i, j \in places : i < j /\ names[i] = x /\ names[j] = y
    <2>1. PICK k \in DOMAIN s, l \in DOMAIN s : k < l /\ s[k] = x /\ s[l] = y
      BY <1>7 DEF Before
    <2> QED
      BY <1>3, <2>1
  <1> QED
    BY <1>1, <1>4, <1>5, <1>6, <1>7 DEF s

\* All places give the list itself.
LEMMA PickAll == ASSUME NEW S, NEW names \in Seq(S) PROVE Pick(names, DOMAIN names) = names
  <1> DEFINE L == Len(names)
  <1>1. PICK p \in [Places(names) -> Seq(S)] :
           Picks(p, names, DOMAIN names) /\ Pick(names, DOMAIN names) = p[L]
    BY PickIsDefined
  <1> DEFINE T == {n \in 0 .. L : Len(p[n]) = n /\ \A k \in 1 .. n : p[n][k] = names[k]}
  <1>2. L \in Nat /\ L \in 0 .. L /\ p \in [0 .. L -> Seq(S)] /\ DOMAIN names = 1 .. L
    BY DEF Places
  <1>3. 0 \in T
    BY <1>1, <1>2 DEF Picks
  <1>4. \A n \in 0 .. L : n + 1 \in 0 .. L /\ n \in T => n + 1 \in T
    <2> SUFFICES ASSUME NEW n \in 0 .. L, n + 1 \in 0 .. L, n \in T PROVE n + 1 \in T
      OBVIOUS
    <2>1. n \in Nat /\ n + 1 \in 1 .. L /\ (n + 1) - 1 = n /\ p[n] \in Seq(S) /\ names[n + 1] \in S
      BY <1>2
    <2>2. p[n + 1] = Append(p[n], names[n + 1])
      BY <1>1, <1>2, <2>1 DEF Picks
    <2>3. Len(p[n + 1]) = n + 1 /\ \A k \in 1 .. (n + 1) : p[n + 1][k] = names[k]
      BY <2>1, <2>2
    <2> QED
      BY <2>3
  <1>5. L \in T
    <2>1. \A n \in 0 .. L : n \in T
      <3> HIDE DEF T, L
      <3> QED
        BY <1>2, <1>3, <1>4, RangeInduction
    <2> HIDE DEF T, L
    <2> QED
      BY <1>2, <2>1
  <1>6. p[L] \in Seq(S) /\ Len(p[L]) = L /\ \A k \in 1 .. L : p[L][k] = names[k]
    BY <1>2, <1>5
  <1> QED
    BY <1>1, <1>6

LEMMA Members == \A s, x : x \in ToSet(s) <=> \E i \in DOMAIN s : s[i] = x
  BY DEF ToSet

LEMMA Orders == \A s, x, y : Before(s, x, y) <=> \E i, j \in DOMAIN s : i < j /\ s[i] = x /\ s[j] = y
  BY DEF Before

\* Appending to a joined list appends to its second part.
LEMMA AppendJoined ==
    \A S : \A x, y \in Seq(S) : \A e \in S : \A z : z = x \o Append(y, e) => z = Append(x \o y, e)
  <1> SUFFICES ASSUME NEW S, NEW x \in Seq(S), NEW y \in Seq(S), NEW e \in S
               PROVE  Append(x \o y, e) = x \o Append(y, e)
    OBVIOUS
  <1>1. x \o y \in Seq(S) /\ Append(y, e) \in Seq(S) /\ Len(Append(y, e)) = Len(y) + 1
    BY AppendProperties
  <1>2. Append(x \o y, e) \in Seq(S) /\ x \o Append(y, e) \in Seq(S)
    BY <1>1, ConcatProperties, AppendProperties
  <1>3. Len(Append(x \o y, e)) = Len(x) + Len(y) + 1 /\ Len(x \o Append(y, e)) = Len(x) + Len(y) + 1
    BY <1>1, ConcatProperties, AppendProperties
  <1>4. \A i \in 1 .. (Len(x) + Len(y) + 1) : Append(x \o y, e)[i] = (x \o Append(y, e))[i]
    BY <1>1
  <1> DEFINE f == Append(x \o y, e)
             g == x \o Append(y, e)
             n == Len(x) + Len(y) + 1
  <1>5. f \in Seq(S) /\ g \in Seq(S) /\ Len(f) = n /\ Len(g) = n /\ \A i \in 1 .. n : f[i] = g[i]
    BY <1>2, <1>3, <1>4
  <1> HIDE DEF f, g, n
  <1>6. f = g
    BY <1>5
  <1> QED
    BY <1>6 DEF f, g

\* Picking from two lists, one after the other.
LEMMA PickJoined ==
    ASSUME NEW S, NEW a \in Seq(S), NEW b \in Seq(S), NEW pa, NEW pb, NEW places,
           \A n \in DOMAIN a : n \in places <=> n \in pa,
           \A n \in DOMAIN b : Len(a) + n \in places <=> n \in pb
    PROVE  Pick(a \o b, places) = Pick(a, pa) \o Pick(b, pb)
  <1> DEFINE A == Len(a)
             B == Len(b)
             c == a \o b
  <1>1. /\ A \in Nat /\ B \in Nat /\ DOMAIN a = 1 .. A /\ DOMAIN b = 1 .. B
        /\ c \in Seq(S) /\ Len(c) = A + B
        /\ \A n \in 1 .. A : c[n] = a[n]
        /\ \A n \in 1 .. B : c[A + n] = b[n]
    OBVIOUS
  <1>2. PICK p \in [Places(a) -> Seq(S)] : Picks(p, a, pa) /\ Pick(a, pa) = p[A]
    BY PickIsDefined
  <1>3. PICK q \in [Places(b) -> Seq(S)] : Picks(q, b, pb) /\ Pick(b, pb) = q[B]
    BY PickIsDefined
  <1> HIDE DEF c
  <1>4. PICK r \in [Places(c) -> Seq(S)] : Picks(r, c, places) /\ Pick(c, places) = r[Len(c)]
    <2>1. c \in Seq(S)
      BY <1>1
    <2> QED
      BY <2>1, PickIsDefined
  <1>5. p \in [0 .. A -> Seq(S)] /\ q \in [0 .. B -> Seq(S)] /\ r \in [0 .. (A + B) -> Seq(S)]
    BY <1>1 DEF Places
  <1> DEFINE T == {n \in 0 .. A : r[n] = p[n]}
             U == {n \in 0 .. B : r[A + n] = p[A] \o q[n]}
  <1>6. r[A] = p[A]
    <2>1. 0 \in T
      BY <1>1, <1>2, <1>4 DEF Picks
    <2>2. \A n \in 0 .. A : n + 1 \in 0 .. A /\ n \in T => n + 1 \in T
      <3> SUFFICES ASSUME NEW n \in 0 .. A, n + 1 \in 0 .. A, r[n] = p[n] PROVE r[n + 1] = p[n + 1]
        OBVIOUS
      <3>1. n + 1 \in 1 .. A /\ n + 1 \in 1 .. (A + B) /\ (n + 1) - 1 = n
        BY <1>1
      <3>2. n + 1 \in places <=> n + 1 \in pa
        BY <1>1, <3>1
      <3>3. p[n + 1] = IF n + 1 \in pa THEN Append(p[n], a[n + 1]) ELSE p[n]
        BY <1>2, <3>1 DEF Picks
      <3>4. r[n + 1] = IF n + 1 \in places THEN Append(r[n], c[n + 1]) ELSE r[n]
        BY <1>1, <1>4, <3>1 DEF Picks
      <3> QED
        BY <1>1, <3>1, <3>2, <3>3, <3>4
    <2>3. \A n \in 0 .. A : n \in T
      <3> HIDE DEF T, A
      <3> QED
        BY <1>1, <2>1, <2>2, RangeInduction
    <2> QED
      BY <1>1, <2>3
  <1>7. r[A + B] = p[A] \o q[B]
    <2>1. 0 \in U
      <3>1. q[0] = << >> /\ A + 0 = A
        BY <1>1, <1>3 DEF Picks
      <3>2. p[A] \o << >> = p[A]
        BY <1>1, <1>5, ConcatEmptySeq
      <3>3. r[A + 0] = p[A] \o q[0]
        BY <1>6, <3>1, <3>2
      <3>4. 0 \in 0 .. B
        BY <1>1
      <3> QED
        BY <3>3, <3>4
    <2>2. \A n \in 0 .. B : n + 1 \in 0 .. B /\ n \in U => n + 1 \in U
      <3>a. SUFFICES ASSUME NEW n \in 0 .. B, n + 1 \in 0 .. B, r[A + n] = p[A] \o q[n]
                   PROVE  r[A + (n + 1)] = p[A] \o q[n + 1]
        OBVIOUS
      <3>1. /\ n + 1 \in 1 .. B /\ A + (n + 1) \in 1 .. (A + B) /\ (n + 1) - 1 = n
            /\ (A + (n + 1)) - 1 = A + n
        BY <1>1, <3>a
      <3>2. A + (n + 1) \in places <=> n + 1 \in pb
        BY <1>1, <3>1
      <3>3. q[n + 1] = IF n + 1 \in pb THEN Append(q[n], b[n + 1]) ELSE q[n]
        BY <1>3, <3>1 DEF Picks
      <3>4. r[A + (n + 1)] = IF A + (n + 1) \in places THEN Append(r[A + n], c[A + (n + 1)]) ELSE r[A + n]
        BY <1>1, <1>4, <3>1 DEF Picks
      <3>5. p[A] \in Seq(S) /\ q[n] \in Seq(S) /\ b[n + 1] \in S /\ c[A + (n + 1)] = b[n + 1]
        <4>1. A \in 0 .. A /\ n \in 0 .. B /\ p \in [0 .. A -> Seq(S)] /\ q \in [0 .. B -> Seq(S)]
          BY <1>1, <1>5
        <4>3. p[A] \in Seq(S) /\ q[n] \in Seq(S)
          <5> HIDE DEF A, B
          <5> QED
            BY <4>1
        <4>2. b[n + 1] \in S
          BY <3>1
        <4> QED
          BY <1>1, <3>1, <4>2, <4>3
      <3>6. Append(p[A] \o q[n], b[n + 1]) = p[A] \o Append(q[n], b[n + 1])
        <4> DEFINE x == p[A]
                   y == q[n]
                   e == b[n + 1]
        <4>1. x \in Seq(S) /\ y \in Seq(S) /\ e \in S
          BY <3>5
        <4> HIDE DEF x, y, e
        <4>2. Append(x \o y, e) = x \o Append(y, e)
          <5>1. \A z : z = x \o Append(y, e) => z = Append(x \o y, e)
            BY <4>1, AppendJoined, Zenon
          <5> QED
            BY <5>1, Zenon
        <4> QED
          BY <4>2 DEF x, y, e
      <3> QED
        BY <3>a, <3>2, <3>3, <3>4, <3>5, <3>6
    <2>3. \A n \in 0 .. B : n \in U
      <3> HIDE DEF U, A, B
      <3> QED
        BY <1>1, <2>1, <2>2, RangeInduction
    <2>4. B \in U
      <3> HIDE DEF U, A, B
      <3> QED
        BY <1>1, <2>3
    <2> QED
      BY <2>4
  <1> QED
    BY <1>1, <1>2, <1>3, <1>4, <1>7 DEF c

\* What is left of a list without some names.
LEMMA WithoutFacts ==
    ASSUME NEW S, NEW names \in Seq(S), NEW gone
    PROVE  /\ Without(names, gone) \in Seq(S)
           /\ ToSet(Without(names, gone)) = ToSet(names) \ gone
           /\ IsInjective(names) => IsInjective(Without(names, gone))
           /\ \A x, y : Before(Without(names, gone), x, y) <=>
                         Before(names, x, y) /\ x \notin gone /\ y \notin gone
           /\ ToSet(names) \cap gone = {} => Without(names, gone) = names
           /\ ToSet(names) \subseteq gone => Without(names, gone) = << >>
  <1> DEFINE places == {i \in DOMAIN names : names[i] \notin gone}
             s == Pick(names, places)
  <1>1. /\ s \in Seq(S)
        /\ \A x : x \in ToSet(s) <=> \E i \in places : names[i] = x
        /\ (\A i, j \in places : names[i] = names[j] => i = j) => IsInjective(s)
        /\ \A x, y : Before(s, x, y) <=> \E i, j \in places : i < j /\ names[i] = x /\ names[j] = y
    BY PickFacts
  <1>2. Without(names, gone) = s
    BY DEF Without
  <1> HIDE DEF s
  <1>3. ToSet(s) = ToSet(names) \ gone
    <2>1. \A x : x \in ToSet(names) <=> \E i \in DOMAIN names : names[i] = x
      BY Members
    <2> QED
      BY <1>1, <2>1
  <1>4. IsInjective(names) => IsInjective(s)
    BY <1>1 DEF IsInjective
  <1>5. \A x, y : Before(s, x, y) <=> Before(names, x, y) /\ x \notin gone /\ y \notin gone
    <2>1. \A x, y : Before(names, x, y) <=> \E i, j \in DOMAIN names : i < j /\ names[i] = x /\ names[j] = y
      BY Orders
    <2> QED
      BY <1>1, <2>1
  <1>6. ToSet(names) \cap gone = {} => s = names
    <2> SUFFICES ASSUME ToSet(names) \cap gone = {} PROVE s = names
      OBVIOUS
    <2>1. places = DOMAIN names
      BY DEF ToSet
    <2> QED
      BY <2>1, PickAll DEF s
  <1>7. ToSet(names) \subseteq gone => s = << >>
    BY <1>1, <1>3 DEF ToSet
  <1> QED
    BY <1>1, <1>2, <1>3, <1>4, <1>5, <1>6, <1>7

\* Keeping some names is leaving out the others.
LEMMA OnlyFacts ==
    ASSUME NEW S, NEW names \in Seq(S), NEW kept
    PROVE  /\ Only(names, kept) = Without(names, ToSet(names) \ kept)
           /\ Only(names, kept) \in Seq(S)
           /\ ToSet(Only(names, kept)) = ToSet(names) \cap kept
  <1>1. {i \in DOMAIN names : names[i] \in kept} = {i \in DOMAIN names : names[i] \notin ToSet(names) \ kept}
    BY DEF ToSet
  <1>2. Only(names, kept) = Without(names, ToSet(names) \ kept)
    BY <1>1 DEF Only, Without
  <1> QED
    BY <1>2, WithoutFacts

\* Leaving names out of two lists, one after the other.
LEMMA WithoutJoined ==
    ASSUME NEW S, NEW a \in Seq(S), NEW b \in Seq(S), NEW gone
    PROVE  Without(a \o b, gone) = Without(a, gone) \o Without(b, gone)
  <1> DEFINE c == a \o b
             pa == {i \in DOMAIN a : a[i] \notin gone}
             pb == {i \in DOMAIN b : b[i] \notin gone}
             places == {i \in DOMAIN c : c[i] \notin gone}
  <1>1. /\ DOMAIN a = 1 .. Len(a) /\ DOMAIN b = 1 .. Len(b) /\ DOMAIN c = 1 .. (Len(a) + Len(b))
        /\ Len(a) \in Nat /\ Len(b) \in Nat
        /\ \A n \in DOMAIN a : c[n] = a[n]
        /\ \A n \in DOMAIN b : c[Len(a) + n] = b[n]
    OBVIOUS
  <1>2. \A n \in DOMAIN a : n \in places <=> n \in pa
    BY <1>1
  <1>3. \A n \in DOMAIN b : Len(a) + n \in places <=> n \in pb
    <2>1. \A n \in DOMAIN b : Len(a) + n \in DOMAIN c
      BY <1>1
    <2> HIDE DEF c
    <2> QED
      BY <1>1, <2>1
  <1>4. Pick(c, places) = Pick(a, pa) \o Pick(b, pb)
    <2> HIDE DEF places, pa, pb
    <2> QED
      BY <1>2, <1>3, PickJoined
  <1> QED
    BY <1>4 DEF Without

\* What two lists hold together, and in which order.
LEMMA JoinedFacts ==
    ASSUME NEW S, NEW a \in Seq(S), NEW b \in Seq(S)
    PROVE  /\ a \o b \in Seq(S)
           /\ ToSet(a \o b) = ToSet(a) \cup ToSet(b)
           /\ IsInjective(a) /\ IsInjective(b) /\ ToSet(a) \cap ToSet(b) = {} => IsInjective(a \o b)
           /\ \A x, y : Before(a \o b, x, y) <=>
                         \/ Before(a, x, y) \/ Before(b, x, y)
                         \/ x \in ToSet(a) /\ y \in ToSet(b)
  <1> DEFINE c == a \o b
             A == Len(a)
  <1>1. /\ A \in Nat /\ Len(b) \in Nat /\ c \in Seq(S) /\ Len(c) = A + Len(b)
        /\ DOMAIN a = 1 .. A /\ DOMAIN b = 1 .. Len(b) /\ DOMAIN c = 1 .. (A + Len(b))
    OBVIOUS
  <1>2. \A n \in DOMAIN a : n \in DOMAIN c /\ c[n] = a[n]
    BY <1>1
  <1>3. \A n \in DOMAIN b : A + n \in DOMAIN c /\ c[A + n] = b[n]
    <2>1. \A n \in DOMAIN b : A + n \in DOMAIN c
      BY <1>1
    <2>2. \A n \in DOMAIN b : c[A + n] = b[n]
      BY <1>1
    <2> QED
      BY <2>1, <2>2
  <1> HIDE DEF c
  <1>4. \A i \in DOMAIN c : i \in DOMAIN a \/ \E n \in DOMAIN b : i = A + n
    <2> SUFFICES ASSUME NEW i \in DOMAIN c, i \notin DOMAIN a PROVE \E n \in DOMAIN b : i = A + n
      OBVIOUS
    <2>1. i - A \in DOMAIN b /\ i = A + (i - A)
      BY <1>1
    <2> QED
      BY <2>1
  <1>5. /\ \A x : x \in ToSet(a) <=> \E i \in DOMAIN a : a[i] = x
        /\ \A x : x \in ToSet(b) <=> \E i \in DOMAIN b : b[i] = x
        /\ \A x : x \in ToSet(c) <=> \E i \in DOMAIN c : c[i] = x
    BY Members
  <1>6. ToSet(c) = ToSet(a) \cup ToSet(b)
    <2>1. \A x : x \in ToSet(c) => x \in ToSet(a) \/ x \in ToSet(b)
      BY <1>2, <1>3, <1>4, <1>5
    <2>2. \A x : x \in ToSet(a) \/ x \in ToSet(b) => x \in ToSet(c)
      BY <1>2, <1>3, <1>5
    <2> QED
      BY <2>1, <2>2
  <1>7. IsInjective(a) /\ IsInjective(b) /\ ToSet(a) \cap ToSet(b) = {} => IsInjective(c)
    <2> SUFFICES ASSUME IsInjective(a), IsInjective(b), ToSet(a) \cap ToSet(b) = {},
                        NEW i \in DOMAIN c, NEW j \in DOMAIN c, c[i] = c[j]
                 PROVE  i = j
      BY DEF IsInjective
    <2>1. CASE i \in DOMAIN a /\ j \in DOMAIN a
      BY <1>2, <2>1 DEF IsInjective
    <2>2. CASE i \notin DOMAIN a /\ j \notin DOMAIN a
      BY <1>3, <1>4, <2>2 DEF IsInjective
    <2>3. CASE i \in DOMAIN a /\ j \notin DOMAIN a
      <3>1. PICK n \in DOMAIN b : j = A + n
        BY <1>4, <2>3
      <3>2. c[i] \in ToSet(a) /\ c[j] \in ToSet(b)
        BY <1>2, <1>3, <1>5, <2>3, <3>1
      <3> QED
        BY <3>2
    <2>4. CASE i \notin DOMAIN a /\ j \in DOMAIN a
      <3>1. PICK n \in DOMAIN b : i = A + n
        BY <1>4, <2>4
      <3>2. c[i] \in ToSet(b) /\ c[j] \in ToSet(a)
        BY <1>2, <1>3, <1>5, <2>4, <3>1
      <3> QED
        BY <3>2
    <2> QED
      BY <2>1, <2>2, <2>3, <2>4
  <1>8. ASSUME NEW x, NEW y
        PROVE  Before(c, x, y) <=> \/ Before(a, x, y) \/ Before(b, x, y)
                                   \/ x \in ToSet(a) /\ y \in ToSet(b)
    <2>1. ASSUME Before(c, x, y)
          PROVE  \/ Before(a, x, y) \/ Before(b, x, y)
                 \/ x \in ToSet(a) /\ y \in ToSet(b)
      <3>1. PICK i \in DOMAIN c, j \in DOMAIN c : i < j /\ c[i] = x /\ c[j] = y
        BY <2>1, Orders
      <3>2. CASE i \in DOMAIN a /\ j \in DOMAIN a
        BY <1>2, <3>1, <3>2, Orders
      <3>3. CASE i \notin DOMAIN a
        <4>1. PICK m \in DOMAIN b : i = A + m
          BY <1>4, <3>3
        <4>2. j \notin DOMAIN a
          BY <1>1, <3>1, <3>3
        <4>3. PICK n \in DOMAIN b : j = A + n
          BY <1>4, <4>2
        <4>4. m < n
          BY <1>1, <3>1, <4>1, <4>3
        <4> QED
          BY <1>3, <3>1, <4>1, <4>3, <4>4, Orders
      <3>4. CASE i \in DOMAIN a /\ j \notin DOMAIN a
        BY <1>2, <1>3, <1>4, <1>5, <3>1, <3>4
      <3> QED
        BY <3>2, <3>3, <3>4
    <2>2. ASSUME Before(a, x, y) PROVE Before(c, x, y)
      <3>1. PICK i \in DOMAIN a, j \in DOMAIN a : i < j /\ a[i] = x /\ a[j] = y
        BY <2>2, Orders
      <3> QED
        BY <1>2, <3>1, Orders
    <2>3. ASSUME Before(b, x, y) PROVE Before(c, x, y)
      <3>1. PICK i \in DOMAIN b, j \in DOMAIN b : i < j /\ b[i] = x /\ b[j] = y
        BY <2>3, Orders
      <3>2. A + i < A + j
        BY <1>1, <3>1
      <3> QED
        BY <1>3, <3>1, <3>2, Orders
    <2>4. ASSUME x \in ToSet(a), y \in ToSet(b) PROVE Before(c, x, y)
      <3>1. PICK i \in DOMAIN a : a[i] = x
        BY <1>5, <2>4
      <3>2. PICK j \in DOMAIN b : b[j] = y
        BY <1>5, <2>4
      <3>3. i < A + j
        BY <1>1
      <3> QED
        BY <1>2, <1>3, <3>1, <3>2, <3>3, Orders
    <2> QED
      BY <2>1, <2>2, <2>3, <2>4
  <1> QED
    BY <1>1, <1>6, <1>7, <1>8 DEF c

\* Lists of no or one name.
LEMMA EmptyFacts == ToSet(<< >>) = {} /\ IsInjective(<< >>) /\ \A x, y : ~Before(<< >>, x, y)
  BY DEF ToSet, IsInjective, Before

LEMMA SingleFacts ==
    ASSUME NEW s
    PROVE  ToSet(<<s>>) = {s} /\ IsInjective(<<s>>) /\ \A x, y : ~Before(<<s>>, x, y)
  BY DEF ToSet, IsInjective, Before

\* What stands before something is in the list, and not before itself when names are unique.
LEMMA BeforeMembers ==
    ASSUME NEW names, NEW x, NEW y, Before(names, x, y)
    PROVE  x \in ToSet(names) /\ y \in ToSet(names)
  BY DEF Before, ToSet

LEMMA InjectiveOrder ==
    ASSUME NEW S, NEW names \in Seq(S), IsInjective(names), NEW x
    PROVE  ~Before(names, x, x)
  BY DEF Before, IsInjective

\* All names of sources.
Names == Source \cup {CatchAll}

\* Moving the catch-all to the end moves nothing else.
LEMMA CatchAllLastFacts ==
    ASSUME NEW names \in Seq(Names), IsInjective(names)
    PROVE  /\ CatchAllLast(names) \in Seq(Names) /\ IsInjective(CatchAllLast(names))
           /\ ToSet(CatchAllLast(names)) = ToSet(names)
           /\ \A x : ~Before(CatchAllLast(names), CatchAll, x)
           /\ \A x, y : x # CatchAll /\ Before(names, x, y) => Before(CatchAllLast(names), x, y)
  <1> DEFINE a == Without(names, {CatchAll})
             b == Only(names, {CatchAll})
  <1>1. /\ a \in Seq(Names) /\ ToSet(a) = ToSet(names) \ {CatchAll} /\ IsInjective(a)
        /\ \A x, y : Before(a, x, y) <=> Before(names, x, y) /\ x \notin {CatchAll} /\ y \notin {CatchAll}
    BY WithoutFacts
  <1>2. b = Without(names, ToSet(names) \ {CatchAll}) /\ b \in Seq(Names) /\ ToSet(b) = ToSet(names) \cap {CatchAll}
    BY OnlyFacts
  <1>3. IsInjective(b)
    BY <1>2, WithoutFacts
  <1> HIDE DEF a, b
  <1>4. /\ a \o b \in Seq(Names) /\ ToSet(a \o b) = ToSet(a) \cup ToSet(b)
        /\ IsInjective(a) /\ IsInjective(b) /\ ToSet(a) \cap ToSet(b) = {} => IsInjective(a \o b)
        /\ \A x, y : Before(a \o b, x, y) <=>
                         \/ Before(a, x, y) \/ Before(b, x, y)
                         \/ x \in ToSet(a) /\ y \in ToSet(b)
    <2>1. a \in Seq(Names)
      BY <1>1
    <2>2. b \in Seq(Names)
      BY <1>2
    <2> QED
      BY <2>1, <2>2, JoinedFacts
  <1> DEFINE c == a \o b
  <1>5. c = CatchAllLast(names)
    BY DEF CatchAllLast, a, b
  <1> HIDE DEF c
  <1>6. c \in Seq(Names) /\ ToSet(c) = ToSet(names) /\ IsInjective(c)
    <2>1. ToSet(a) \cap ToSet(b) = {} /\ ToSet(a) \cup ToSet(b) = ToSet(names)
      BY <1>1, <1>2
    <2> QED
      BY <1>1, <1>3, <1>4, <2>1 DEF c
  <1>7. \A x, y : Before(c, x, y) <=> \/ Before(a, x, y) \/ Before(b, x, y)
                                      \/ x \in ToSet(a) /\ y \in ToSet(b)
    BY <1>4 DEF c
  <1>8. \A x : ~Before(c, CatchAll, x)
    <2> SUFFICES ASSUME NEW x, Before(c, CatchAll, x) PROVE FALSE
      OBVIOUS
    <2>1. Before(b, CatchAll, x)
      BY <1>1, <1>7
    <2>2. x \in ToSet(b)
      BY <2>1, BeforeMembers
    <2>3. x = CatchAll
      BY <1>2, <2>2
    <2> QED
      BY <1>2, <1>3, <2>1, <2>3, InjectiveOrder
  <1>9. ASSUME NEW x, NEW y, x # CatchAll, Before(names, x, y) PROVE Before(c, x, y)
    <2>1. x \in ToSet(names) /\ y \in ToSet(names)
      BY <1>9, BeforeMembers
    <2> QED
      BY <1>1, <1>2, <1>7, <1>9, <2>1
  <1> QED
    BY <1>5, <1>6, <1>8, <1>9

\* A list begins with its first part, and a target with the listed sources.
LEMMA PrefixFacts == ASSUME NEW S, NEW a \in Seq(S), NEW b \in Seq(S) PROVE IsPrefix(a, a \o b)
  <1>1. /\ a \o b \in Seq(S) /\ Len(a \o b) = Len(a) + Len(b) /\ Len(a) \in Nat /\ Len(b) \in Nat
        /\ \A i \in 1 .. Len(a) : (a \o b)[i] = a[i]
    OBVIOUS
  <1> DEFINE c == a \o b
  <1>2. c \in Seq(S) /\ Len(c) = Len(a) + Len(b) /\ \A i \in 1 .. Len(a) : c[i] = a[i]
    BY <1>1
  <1> HIDE DEF c
  <1>3. SubSeq(a, 1, Len(a)) = SubSeq(c, 1, Len(a)) /\ Len(a) <= Len(c)
    BY <1>1, <1>2
  <1> QED
    BY <1>3 DEF IsPrefix, c

LEMMA ListedFirst ==
    ASSUME first \in Seq(Names), NEW names \in Seq(Names)
    PROVE  IsPrefix(first, TargetOrder(names))
  <1> DEFINE m == Without(names, ToSet(first) \cup {CatchAll})
             o == Only(names, {CatchAll})
  <1>1. m \in Seq(Names)
    BY WithoutFacts
  <1>2. o \in Seq(Names)
    BY OnlyFacts
  <1>3. TargetOrder(names) = (first \o m) \o o
    BY DEF TargetOrder
  <1> HIDE DEF m, o
  <1>4. (first \o m) \o o = first \o (m \o o)
    BY <1>1, <1>2, ConcatAssociative
  <1>5. m \o o \in Seq(Names)
    BY <1>1, <1>2
  <1> QED
    BY <1>3, <1>4, <1>5, PrefixFacts

\* The target of an order: it holds the same sources and the listed ones, it is its own
\* target, and the unlisted sources keep their order.
LEMMA TargetFacts ==
    ASSUME first \in Seq(Names), CatchAll \notin ToSet(first), NEW names \in Seq(Names)
    PROVE  LET placed == TargetOrder(names) IN
           /\ placed \in Seq(Names)
           /\ ToSet(placed) = ToSet(first) \cup ToSet(names)
           /\ IsInjective(first) /\ IsInjective(names) => IsInjective(placed)
           /\ TargetOrder(placed) = placed
           /\ IsPrefix(first, placed)
           /\ \A x, y : /\ x \notin ToSet(first) /\ y \notin ToSet(first) /\ x # CatchAll
                        /\ Before(names, x, y)
                        => Before(placed, x, y)
  <1> DEFINE F == ToSet(first) \cup {CatchAll}
             m == Without(names, F)
             o == Only(names, {CatchAll})
             h == first \o m
             t == h \o o
  <1>1. TargetOrder(names) = t
    BY DEF TargetOrder
  <1>2. /\ m \in Seq(Names) /\ ToSet(m) = ToSet(names) \ F
        /\ IsInjective(names) => IsInjective(m)
        /\ \A x, y : Before(m, x, y) <=> Before(names, x, y) /\ x \notin F /\ y \notin F
    BY WithoutFacts
  <1>3. o = Without(names, ToSet(names) \ {CatchAll}) /\ o \in Seq(Names) /\ ToSet(o) = ToSet(names) \cap {CatchAll}
    BY OnlyFacts
  <1>4. IsInjective(names) => IsInjective(o)
    BY <1>3, WithoutFacts
  <1> HIDE DEF m, o
  <1>5. /\ h \in Seq(Names) /\ ToSet(h) = ToSet(first) \cup ToSet(m)
        /\ IsInjective(first) /\ IsInjective(m) /\ ToSet(first) \cap ToSet(m) = {} => IsInjective(h)
        /\ \A x, y : Before(h, x, y) <=>
                         \/ Before(first, x, y) \/ Before(m, x, y)
                         \/ x \in ToSet(first) /\ y \in ToSet(m)
    BY <1>2, JoinedFacts
  <1> HIDE DEF h
  <1>6. /\ t \in Seq(Names) /\ ToSet(t) = ToSet(h) \cup ToSet(o)
        /\ IsInjective(h) /\ IsInjective(o) /\ ToSet(h) \cap ToSet(o) = {} => IsInjective(t)
        /\ \A x, y : Before(t, x, y) <=>
                         \/ Before(h, x, y) \/ Before(o, x, y)
                         \/ x \in ToSet(h) /\ y \in ToSet(o)
    <2>1. h \in Seq(Names)
      BY <1>5
    <2>2. o \in Seq(Names)
      BY <1>3
    <2> QED
      BY <2>1, <2>2, JoinedFacts
  <1> HIDE DEF t
  <1>7. ToSet(t) = ToSet(first) \cup ToSet(names)
    BY <1>2, <1>3, <1>5, <1>6
  <1>8. IsInjective(first) /\ IsInjective(names) => IsInjective(t)
    <2>1. ToSet(first) \cap ToSet(m) = {}
      BY <1>2
    <2>2. CatchAll \notin ToSet(h)
      BY <1>2, <1>5
    <2>3. ToSet(h) \cap ToSet(o) = {}
      BY <1>3, <2>2
    <2> QED
      BY <1>2, <1>4, <1>5, <1>6, <2>1, <2>3
  <1>9. TargetOrder(t) = t
    <2>1. \A g : Without(t, g) = (Without(first, g) \o Without(m, g)) \o Without(o, g)
      <3>1. \A g : Without(h, g) = Without(first, g) \o Without(m, g)
        BY <1>2, WithoutJoined DEF h
      <3>2. \A g : Without(t, g) = Without(h, g) \o Without(o, g)
        <4>1. h \in Seq(Names)
          BY <1>5
        <4>2. o \in Seq(Names)
          BY <1>3
        <4> QED
          BY <4>1, <4>2, WithoutJoined DEF t
      <3> QED
        BY <3>1, <3>2
    <2>2. Without(t, F) = m
      <3>1. Without(first, F) = << >> /\ Without(o, F) = << >> /\ Without(m, F) = m
        BY <1>2, <1>3, WithoutFacts
      <3>2. << >> \o m = m /\ m \o << >> = m
        BY <1>2, ConcatEmptySeq
      <3> QED
        BY <2>1, <3>1, <3>2
    <2> DEFINE G == ToSet(t) \ {CatchAll}
    <2>3. Without(t, G) = o
      <3>1. ToSet(first) \subseteq G /\ ToSet(m) \subseteq G /\ ToSet(o) \cap G = {}
        BY <1>2, <1>3, <1>7
      <3> HIDE DEF G
      <3>2. Without(first, G) = << >> /\ Without(m, G) = << >> /\ Without(o, G) = o
        BY <1>2, <1>3, <3>1, WithoutFacts
      <3>3. << >> \o << >> = << >> /\ << >> \o o = o
        BY <1>3, ConcatEmptySeq
      <3> QED
        BY <2>1, <3>2, <3>3
    <2>4. Only(t, {CatchAll}) = o
      BY <1>6, <2>3, OnlyFacts
    <2> QED
      BY <2>2, <2>4 DEF TargetOrder, h, t
  <1>10. IsPrefix(first, t)
    BY <1>1, ListedFirst
  <1>11. ASSUME NEW x, NEW y, x \notin ToSet(first), y \notin ToSet(first), x # CatchAll, Before(names, x, y)
         PROVE  Before(t, x, y)
    <2>1. x \in ToSet(names) /\ y \in ToSet(names)
      BY <1>11, BeforeMembers
    <2> QED
      BY <1>2, <1>3, <1>5, <1>6, <1>11, <2>1
  <1> QED
    BY <1>1, <1>6, <1>7, <1>8, <1>9, <1>10, <1>11

\* The server keeps the first occurrence of every name it knows.
FirstOccurrences(names, present) ==
    {i \in DOMAIN names : names[i] \in present /\ \A j \in 1 .. (i - 1) : names[j] # names[i]}

\* Names that are unique and known are all kept.
LEMMA KnownFacts ==
    ASSUME NEW names \in Seq(Names), NEW present
    PROVE  LET known == Pick(names, FirstOccurrences(names, present)) IN
           /\ known \in Seq(Names) /\ IsInjective(known)
           /\ ToSet(known) = ToSet(names) \cap present
           /\ IsInjective(names) /\ ToSet(names) \subseteq present => known = names
  <1> DEFINE places == FirstOccurrences(names, present)
             known == Pick(names, places)
             L == Len(names)
  <1>1. L \in Nat /\ DOMAIN names = 1 .. L
    OBVIOUS
  <1>2. places \in SUBSET DOMAIN names
    BY DEF FirstOccurrences
  <1>3. \A i, j \in places : names[i] = names[j] => i = j
    <2> SUFFICES ASSUME NEW i \in places, NEW j \in places, names[i] = names[j], i # j PROVE FALSE
      OBVIOUS
    <2>1. i \in 1 .. L /\ j \in 1 .. L
      BY <1>1, <1>2
    <2>2. i \in 1 .. (j - 1) \/ j \in 1 .. (i - 1)
      BY <1>1, <2>1
    <2> QED
      BY <2>2 DEF FirstOccurrences
  <1>4. \A i \in DOMAIN names : names[i] \in present => \E j \in places : names[j] = names[i]
    <2> DEFINE T == {n \in 0 .. L : \A i \in 1 .. n : names[i] \in present => \E j \in places : names[j] = names[i]}
    <2>1. 0 \in T
      BY <1>1
    <2>2. \A n \in 0 .. L : n + 1 \in 0 .. L /\ n \in T => n + 1 \in T
      <3> SUFFICES ASSUME NEW n \in 0 .. L, n + 1 \in 0 .. L, n \in T,
                          NEW i \in 1 .. (n + 1), names[i] \in present
                   PROVE  \E j \in places : names[j] = names[i]
        OBVIOUS
      <3>1. CASE i \in 1 .. n
        BY <3>1
      <3>2. CASE i = n + 1
        <4>1. i \in DOMAIN names /\ i - 1 = n
          BY <1>1, <3>2
        <4>2. CASE \A j \in 1 .. (i - 1) : names[j] # names[i]
          BY <4>1, <4>2 DEF FirstOccurrences
        <4>3. CASE \E j \in 1 .. (i - 1) : names[j] = names[i]
          <5>1. PICK j \in 1 .. n : names[j] = names[i]
            BY <4>1, <4>3
          <5> QED
            BY <5>1
        <4> QED
          BY <4>2, <4>3
      <3> QED
        BY <1>1, <3>1, <3>2
    <2>3. \A n \in 0 .. L : n \in T
      <3> HIDE DEF T, L
      <3> QED
        BY <1>1, <2>1, <2>2, RangeInduction
    <2>4. L \in T
      <3> HIDE DEF T, L
      <3>1. L \in 0 .. L
        BY <1>1
      <3> QED
        BY <2>3, <3>1
    <2> QED
      BY <1>1, <2>4
  <1> HIDE DEF places
  <1>5. /\ known \in Seq(Names)
        /\ \A x : x \in ToSet(known) <=> \E i \in places : names[i] = x
        /\ (\A i, j \in places : names[i] = names[j] => i = j) => IsInjective(known)
    BY <1>2, PickFacts
  <1> HIDE DEF known
  <1>6. ToSet(known) = ToSet(names) \cap present
    <2>1. \A x : x \in ToSet(names) <=> \E i \in DOMAIN names : names[i] = x
      BY Members
    <2>2. \A i \in places : i \in DOMAIN names /\ names[i] \in present
      BY DEF places, FirstOccurrences
    <2> QED
      BY <1>4, <1>5, <2>1, <2>2
  <1>7. IsInjective(names) /\ ToSet(names) \subseteq present => known = names
    <2> SUFFICES ASSUME IsInjective(names), ToSet(names) \subseteq present PROVE known = names
      OBVIOUS
    <2>1. \A i \in DOMAIN names : names[i] \in present
      BY Members
    <2>2. \A i \in DOMAIN names : \A j \in 1 .. (i - 1) : names[j] # names[i]
      BY <1>1 DEF IsInjective
    <2>3. places = DOMAIN names
      BY <2>1, <2>2 DEF places, FirstOccurrences
    <2> QED
      BY <2>3, PickAll DEF known
  <1> QED
    BY <1>3, <1>5, <1>6, <1>7 DEF known, places

\* What another page adds to a listing.
LEMMA PageFacts ==
    ASSUME NEW o \in Seq(Names), NEW l \in Seq(Names)
    PROVE  LET read == l \o SubSeq(o, Len(l) + 1, Min({Len(o), Len(l) + PageSize})) IN
           /\ read \in Seq(Names)
           /\ Len(l) <= Len(o) /\ l = SubSeq(o, 1, Len(l)) =>
                 /\ Len(read) <= Len(o) /\ read = SubSeq(o, 1, Len(read))
                 /\ ~(Len(read) < Len(o)) => read = o
  <1> DEFINE m == Min({Len(o), Len(l) + PageSize})
             page == SubSeq(o, Len(l) + 1, m)
             read == l \o page
  <1>1. Len(o) \in Nat /\ Len(l) \in Nat /\ PageSize \in Nat /\ PageSize > 0
    BY EventSourceAssumption
  <1>2. m \in Nat /\ m <= Len(o) /\ (m = Len(o) \/ m = Len(l) + PageSize)
    <2>1. \E x \in {Len(o), Len(l) + PageSize} : \A y \in {Len(o), Len(l) + PageSize} : x <= y
      BY <1>1
    <2>2. m \in {Len(o), Len(l) + PageSize} /\ \A y \in {Len(o), Len(l) + PageSize} : m <= y
      BY <2>1 DEF Min
    <2> HIDE DEF m
    <2> QED
      BY <1>1, <2>2
  <1> HIDE DEF m
  <1>3. page \in Seq(Names)
    BY <1>1, <1>2, SubSeqProperties
  <1>4. read \in Seq(Names)
    BY <1>3
  <1>5. ASSUME Len(l) <= Len(o), l = SubSeq(o, 1, Len(l))
        PROVE  /\ Len(read) <= Len(o) /\ read = SubSeq(o, 1, Len(read))
               /\ ~(Len(read) < Len(o)) => read = o
    <2>1. Len(l) <= m
      BY <1>1, <1>2, <1>5
    <2>2. Len(page) = m - Len(l) /\ \A i \in 1 .. (m - Len(l)) : page[i] = o[Len(l) + i]
      <3>1. Len(page) = m - Len(l)
        BY <1>1, <1>2, <2>1
      <3>2. \A i \in 1 .. (m - Len(l)) : page[i] = o[(Len(l) + 1) + i - 1]
        BY <1>1, <1>2, <2>1
      <3>3. \A i \in 1 .. (m - Len(l)) : (Len(l) + 1) + i - 1 = Len(l) + i
        BY <1>1, <1>2
      <3> QED
        BY <3>1, <3>2, <3>3
    <2>3. \A i \in 1 .. Len(l) : l[i] = o[i]
      <3>1. \A i \in 1 .. Len(l) : SubSeq(o, 1, Len(l))[i] = o[i]
        BY <1>1, <1>5
      <3> QED
        BY <1>5, <3>1
    <2> HIDE DEF page
    <2>4. Len(read) = m
      BY <1>1, <1>2, <1>3, <2>1, <2>2
    <2>5. \A i \in 1 .. m : read[i] = o[i]
      <3> SUFFICES ASSUME NEW i \in 1 .. m PROVE read[i] = o[i]
        OBVIOUS
      <3>1. CASE i <= Len(l)
        <4>1. i \in 1 .. Len(l)
          BY <1>1, <1>2, <3>1
        <4>2. read[i] = l[i]
          BY <1>3, <4>1
        <4> QED
          BY <2>3, <4>1, <4>2
      <3>2. CASE ~(i <= Len(l))
        <4>1. i - Len(l) \in 1 .. (m - Len(l)) /\ Len(l) + (i - Len(l)) = i
          BY <1>1, <1>2, <3>2
        <4>2. read[i] = page[i - Len(l)]
          BY <1>1, <1>2, <1>3, <2>2, <3>2
        <4> QED
          BY <2>2, <4>1, <4>2
      <3> QED
        BY <3>1, <3>2
    <2> HIDE DEF read
    <2>6. read = SubSeq(o, 1, m)
      <3>1. Len(SubSeq(o, 1, m)) = m /\ SubSeq(o, 1, m) \in Seq(Names)
        BY <1>1, <1>2
      <3>2. \A i \in 1 .. m : SubSeq(o, 1, m)[i] = o[i]
        BY <1>1, <1>2
      <3> DEFINE part == SubSeq(o, 1, m)
      <3> HIDE DEF part
      <3>3. part \in Seq(Names) /\ Len(part) = m /\ \A i \in 1 .. m : part[i] = read[i]
        BY <2>5, <3>1, <3>2 DEF part
      <3>4. read = part
        BY <1>4, <2>4, <3>3
      <3> QED
        BY <3>4 DEF part
    <2>7. m = Len(o) => read = o
      BY <1>1, <1>4, <2>4, <2>5
    <2>8. ~(m < Len(o)) => m = Len(o)
      BY <1>1, <1>2
    <2> QED
      BY <1>2, <2>4, <2>6, <2>7, <2>8
  <1> QED
    BY <1>4, <1>5 DEF m

\* A plan that says "none" has nothing to create before it, and finds every source placed.
LEMMA PlannedNoneFacts ==
    ASSUME docs \in Seq(Source), first \in Seq(Names), ValidOrder, NEW names \in Seq(Names),
           PlannedOrder(names) = "None"
    PROVE  TargetOrder(names) = names /\ ToSet(docs) \subseteq ToSet(names)
  <1> DEFINE c == Created(names)
             p == c \o names
  <1>1. c \in Seq(Source) /\ ToSet(c) = ToSet(docs) \ ToSet(names)
    BY WithoutFacts DEF Created
  <1>2. c \in Seq(Names)
    BY <1>1 DEF Names
  <1>3. TargetOrder(p) = p /\ ToSet(first) \cap ToSet(c) = {}
    BY DEF PlannedOrder, Predicted
  <1> HIDE DEF c
  <1>4. p \in Seq(Names)
    BY <1>2
  <1>5. IsPrefix(first, p)
    <2>1. CatchAll \notin ToSet(first)
      BY DEF ValidOrder
    <2> HIDE DEF p
    <2> QED
      BY <1>3, <1>4, <2>1, TargetFacts
  <1>6. c = << >>
    <2> SUFFICES ASSUME c # << >> PROVE FALSE
      OBVIOUS
    <2>1. Len(c) \in Nat /\ Len(c) >= 1 /\ 1 \in DOMAIN c
      BY <1>2
    <2>2. first # << >> /\ Len(first) \in Nat /\ Len(first) >= 1 /\ 1 \in DOMAIN first
      BY DEF ValidOrder
    <2>3. p[1] = c[1]
      BY <1>2, <2>1
    <2>4. SubSeq(first, 1, Len(first)) = SubSeq(p, 1, Len(first)) /\ Len(first) <= Len(p)
      BY <1>5 DEF IsPrefix
    <2> HIDE DEF p
    <2>5. SubSeq(first, 1, Len(first))[1] = first[1] /\ SubSeq(p, 1, Len(first))[1] = p[1]
      BY <1>4, <2>2, <2>4
    <2>6. first[1] = c[1]
      BY <2>3, <2>4, <2>5
    <2> QED
      BY <1>3, <2>1, <2>2, <2>6, Members
  <1>7. p = names
    BY <1>6, ConcatEmptySeq
  <1>8. ToSet(c) = {}
    BY <1>6, EmptyFacts
  <1> QED
    BY <1>1, <1>3, <1>7, <1>8

\* What the order of the server always is.
GoodOrder(names) ==
    names \in Seq(Names) /\ IsInjective(names) /\ \A n : ~Before(names, CatchAll, n)

\* A new source lands on top.
LEMMA OnTop ==
    ASSUME NEW names, GoodOrder(names), NEW s \in Source, s \notin ToSet(names)
    PROVE  /\ GoodOrder(<<s>> \o names) /\ ToSet(<<s>> \o names) = {s} \cup ToSet(names)
           /\ \A m, n : Before(names, m, n) => Before(<<s>> \o names, m, n)
  <1>1. names \in Seq(Names) /\ <<s>> \in Seq(Names) /\ s # CatchAll
    BY EventSourceAssumption DEF Names, GoodOrder
  <1>2. ToSet(<<s>>) = {s} /\ IsInjective(<<s>>) /\ \A x, y : ~Before(<<s>>, x, y)
    BY SingleFacts
  <1>3. /\ <<s>> \o names \in Seq(Names)
        /\ ToSet(<<s>> \o names) = ToSet(<<s>>) \cup ToSet(names)
        /\ IsInjective(<<s>>) /\ IsInjective(names) /\ ToSet(<<s>>) \cap ToSet(names) = {}
              => IsInjective(<<s>> \o names)
        /\ \A x, y : Before(<<s>> \o names, x, y) <=>
                         \/ Before(<<s>>, x, y) \/ Before(names, x, y)
                         \/ x \in ToSet(<<s>>) /\ y \in ToSet(names)
    BY <1>1, JoinedFacts
  <1>4. ToSet(<<s>>) \cap ToSet(names) = {}
    BY <1>2
  <1>5. \A n : ~Before(<<s>> \o names, CatchAll, n)
    BY <1>1, <1>2, <1>3 DEF GoodOrder
  <1> QED
    BY <1>2, <1>3, <1>4, <1>5 DEF GoodOrder

\* Two parts of an order, with the catch-all moved to the end.
LEMMA TwoParts ==
    ASSUME NEW a \in Seq(Names), NEW b \in Seq(Names), IsInjective(a), IsInjective(b),
           ToSet(a) \cap ToSet(b) = {}
    PROVE  /\ GoodOrder(CatchAllLast(a \o b))
           /\ ToSet(CatchAllLast(a \o b)) = ToSet(a) \cup ToSet(b)
  <1>1. a \o b \in Seq(Names) /\ IsInjective(a \o b) /\ ToSet(a \o b) = ToSet(a) \cup ToSet(b)
    BY JoinedFacts
  <1> DEFINE c == a \o b
  <1>2. c \in Seq(Names) /\ IsInjective(c) /\ ToSet(c) = ToSet(a) \cup ToSet(b)
    BY <1>1
  <1> HIDE DEF c
  <1>3. /\ CatchAllLast(c) \in Seq(Names) /\ IsInjective(CatchAllLast(c))
        /\ ToSet(CatchAllLast(c)) = ToSet(c)
        /\ \A x : ~Before(CatchAllLast(c), CatchAll, x)
    BY <1>2, CatchAllLastFacts
  <1> QED
    BY <1>2, <1>3 DEF c, GoodOrder

\* What another operator makes of the order.
LEMMA OthersOrder ==
    ASSUME NEW names, GoodOrder(names), NEW s \in Source,
           NEW new \in {<<s>> \o Without(names, {s}),
                        CatchAllLast(Without(names, {s}) \o <<s>>), Without(names, {s})}
    PROVE  GoodOrder(new) /\ ToSet(names) \ {s} \subseteq ToSet(new)
  <1> DEFINE rest == Without(names, {s})
  <1>1. names \in Seq(Names) /\ <<s>> \in Seq(Names)
    BY DEF GoodOrder, Names
  <1>2. /\ rest \in Seq(Names) /\ ToSet(rest) = ToSet(names) \ {s}
        /\ IsInjective(names) => IsInjective(rest)
        /\ \A x, y : Before(rest, x, y) => Before(names, x, y)
    BY <1>1, WithoutFacts
  <1>3. new \in {<<s>> \o rest, CatchAllLast(rest \o <<s>>), rest}
    OBVIOUS
  <1> HIDE DEF rest
  <1>4. GoodOrder(rest)
    BY <1>2 DEF GoodOrder
  <1>5. s \notin ToSet(rest)
    BY <1>2
  <1>6. CASE new = <<s>> \o rest
    <2>1. GoodOrder(<<s>> \o rest) /\ ToSet(<<s>> \o rest) = {s} \cup ToSet(rest)
      BY <1>4, <1>5, OnTop
    <2> QED
      BY <1>2, <1>6, <2>1
  <1>7. CASE new = CatchAllLast(rest \o <<s>>)
    <2>1. ToSet(<<s>>) = {s} /\ IsInjective(<<s>>)
      BY SingleFacts
    <2>2. ToSet(rest) \cap ToSet(<<s>>) = {}
      BY <1>5, <2>1
    <2>3. IsInjective(rest)
      BY <1>4 DEF GoodOrder
    <2>4. GoodOrder(CatchAllLast(rest \o <<s>>)) /\ ToSet(CatchAllLast(rest \o <<s>>)) = ToSet(rest) \cup ToSet(<<s>>)
      BY <1>1, <1>2, <2>1, <2>2, <2>3, TwoParts
    <2> QED
      BY <1>2, <1>7, <2>4
  <1>8. CASE new = rest
    BY <1>2, <1>4, <1>8
  <1> QED
    BY <1>3, <1>6, <1>7, <1>8

\* What the upload of a whole order makes of the server's.
Sent(names, asked) ==
    LET known == Pick(asked, FirstOccurrences(asked, ToSet(names)))
        unlisted == Without(names, ToSet(asked))
    IN  {names, CatchAllLast(known \o unlisted), CatchAllLast(unlisted \o known)}

\* Whatever the server makes of it, it keeps its sources; a target that has them all is
\* either ignored or taken as asked.
LEMMA SentOrder ==
    ASSUME NEW names, GoodOrder(names), NEW asked \in Seq(Names), NEW new \in Sent(names, asked)
    PROVE  /\ GoodOrder(new) /\ ToSet(new) = ToSet(names)
           /\ IsInjective(asked) /\ ToSet(asked) = ToSet(names) => new \in {names, CatchAllLast(asked)}
  <1> DEFINE known == Pick(asked, FirstOccurrences(asked, ToSet(names)))
             unlisted == Without(names, ToSet(asked))
  <1>1. names \in Seq(Names) /\ IsInjective(names)
    BY DEF GoodOrder
  <1>2. /\ known \in Seq(Names) /\ IsInjective(known)
        /\ ToSet(known) = ToSet(asked) \cap ToSet(names)
        /\ IsInjective(asked) /\ ToSet(asked) \subseteq ToSet(names) => known = asked
    BY KnownFacts
  <1>3. /\ unlisted \in Seq(Names) /\ ToSet(unlisted) = ToSet(names) \ ToSet(asked)
        /\ IsInjective(names) => IsInjective(unlisted)
        /\ ToSet(names) \subseteq ToSet(asked) => unlisted = << >>
    BY <1>1, WithoutFacts
  <1>4. new \in {names, CatchAllLast(known \o unlisted), CatchAllLast(unlisted \o known)}
    BY DEF Sent
  <1> HIDE DEF known, unlisted
  <1>5. /\ IsInjective(unlisted) /\ ToSet(known) \cap ToSet(unlisted) = {}
        /\ ToSet(unlisted) \cap ToSet(known) = {}
        /\ ToSet(known) \cup ToSet(unlisted) = ToSet(names)
        /\ ToSet(unlisted) \cup ToSet(known) = ToSet(names)
    BY <1>1, <1>2, <1>3
  <1>6. GoodOrder(CatchAllLast(known \o unlisted)) /\ ToSet(CatchAllLast(known \o unlisted)) = ToSet(names)
    <2>1. /\ GoodOrder(CatchAllLast(known \o unlisted))
          /\ ToSet(CatchAllLast(known \o unlisted)) = ToSet(known) \cup ToSet(unlisted)
      BY <1>2, <1>3, <1>5, TwoParts
    <2> QED
      BY <1>5, <2>1
  <1>7. GoodOrder(CatchAllLast(unlisted \o known)) /\ ToSet(CatchAllLast(unlisted \o known)) = ToSet(names)
    <2>1. /\ GoodOrder(CatchAllLast(unlisted \o known))
          /\ ToSet(CatchAllLast(unlisted \o known)) = ToSet(unlisted) \cup ToSet(known)
      BY <1>2, <1>3, <1>5, TwoParts
    <2> QED
      BY <1>5, <2>1
  <1>8. IsInjective(asked) /\ ToSet(asked) = ToSet(names) => new \in {names, CatchAllLast(asked)}
    <2> SUFFICES ASSUME IsInjective(asked), ToSet(asked) = ToSet(names) PROVE new \in {names, CatchAllLast(asked)}
      OBVIOUS
    <2>1. known = asked /\ unlisted = << >>
      BY <1>2, <1>3
    <2>2. known \o unlisted = asked /\ unlisted \o known = asked
      BY <2>1, ConcatEmptySeq
    <2> QED
      BY <1>4, <2>2
  <1> QED
    BY <1>4, <1>6, <1>7, <1>8

-----------------------------------------------------------------------------
(* The inductive invariant of the applies of event sources and their order. *)

Nobody == interfered \cup rejected = {}

\* Where each stage can be; what follows the plan has unique names and a valid order.
Stages ==
    /\ stage = "plan" => step \in {"find", "download"}
    /\ stage = "order plan" => step \in {"list", "listed"}
    /\ stage = "sources" => step \in {"upload", "lookup", "disable"}
    /\ stage = "order" => step \in {"list", "listed", "send", "read back", "verify"}
    /\ stage = "done" => step = "idle"
    /\ step \in {"download", "lookup", "disable"} => at <= Len(docs)
    /\ stage \in {"order plan", "sources", "order"} => UniqueNames /\ ValidOrder
    /\ moved => interfered # {}

\* The documents are planned, and then executed, one after the other.
DocByDoc ==
    /\ stage # "done" => orderRow = Pending
    /\ stage \in {"plan", "order plan"} => orderPlan = Pending /\ \A s \in Source : row[s] = Pending
    /\ stage = "plan" => \A i \in DOMAIN docs : UniqueNames /\ i >= at => planned[docs[i]] = Pending
    /\ \A i \in DOMAIN docs :
          /\ stage \in {"order plan", "sources", "order"} \/ (stage = "plan" /\ i < at) => planned[docs[i]] # Pending
          /\ stage = "sources" => (row[docs[i]] = Pending <=> i >= at)
          /\ stage = "order" => row[docs[i]] # Pending
    /\ step \in {"lookup", "disable"} => planned[Current] \in {"Created", "Updated"} /\ Current \in Off

\* What is known of a source that nobody else changed and no answer refused.
HoldsAsDeclared(s) == s \in Present /\ stored[s] = Wanted(s)
SourcesAsClaimed ==
    \A s \in Source \ (interfered \cup rejected) :
        /\ row[s] \in Ok \/ planned[s] = "Unchanged" \/ s \in settled => HoldsAsDeclared(s)
        /\ s \in settled => planned[s] \in {Pending, "Unchanged"} /\ row[s] \in {Pending, "Unchanged"}
        /\ step = "download" /\ s = Current => s \in Present /\ found = stored[s].enabled
        /\ step \in {"lookup", "disable"} /\ s = Current => s \in Present /\ stored[s].events = "want"

\* What the listing under way has read is a prefix of the order, and then all of it.
ListedIsOrder ==
    ~moved =>
        /\ step \in {"list", "read back"} => Len(listed) <= Len(order) /\ listed = SubSeq(order, 1, Len(listed))
        /\ stage \in {"order plan", "order"} /\ step \in {"listed", "verify"} => listed = order

\* The target is a fixed point of the placement that produced it.
Placed(names) == ToSet(first) \subseteq ToSet(names) /\ TargetOrder(names) = names
Sending == step \in {"send", "read back", "verify"}
TargetIsPlaced ==
    /\ stage \in {"plan", "order plan", "sources"} \/ (stage = "order" /\ ~Sending) => target = << >>
    /\ Sending => Placed(target)
    /\ step = "send" /\ ~moved => target = TargetOrder(order) /\ ToSet(first) \subseteq Present
    /\ orderRow \in Ok /\ ~moved => Placed(order)

\* The gate lets no order document pass that lists a source nobody has or declares.
GateHeld ==
    stage \in {"sources", "order"} /\ interfered = {} => ToSet(first) \subseteq Present \cup ToSet(docs)

\* An order planned as in sync stays in sync, and every declared source exists already.
NoneMeansPlaced ==
    orderPlan = "None" /\ interfered = {} =>
        TargetOrder(order) = order /\ ToSet(docs) \subseteq Present /\ ~Sending /\ target = << >>

\* What an earlier run settled as a whole is in order, and is not sent again.
SettledStaysPlaced ==
    allSettled /\ Nobody =>
        /\ ToSet(docs) \subseteq settled /\ Placed(order) /\ ~Sending /\ target = << >>
        /\ orderRow \in {Pending, "Unchanged", "Failed"}

\* The inductive invariant.
SourcesIInv ==
    /\ SourcesTypeOK /\ GoodOrder(order) /\ Stages /\ DocByDoc
    /\ SourcesAsClaimed /\ ListedIsOrder /\ TargetIsPlaced
    /\ GateHeld /\ NoneMeansPlaced /\ SettledStaysPlaced /\ MissingOnlyByFailure

\* What the type invariant says of the lists.
LEMMA Typed ==
    ASSUME SourcesTypeOK
    PROVE  /\ docs \in Seq(Source) /\ first \in Seq(Names) /\ target \in Seq(Names) /\ listed \in Seq(Names)
           /\ Len(docs) \in Nat /\ DOMAIN docs = 1 .. Len(docs) /\ at \in Nat /\ at >= 1
           /\ at <= Len(docs) => at \in DOMAIN docs /\ at + 1 \in 1 .. (Len(docs) + 1)
           /\ \A i \in DOMAIN docs : docs[i] \in Source
  <1>1. docs \in Seq(Source) /\ first \in Seq(Names)
    BY EventSourceAssumption DEF SourcesTypeOK, Names
  <1>2. target \in Seq(Names) /\ listed \in Seq(Names)
    BY DEF SourcesTypeOK, Names
  <1>3. at \in 1 .. (Len(docs) + 1)
    BY DEF SourcesTypeOK
  <1>4. Len(docs) \in Nat /\ DOMAIN docs = 1 .. Len(docs) /\ \A i \in DOMAIN docs : docs[i] \in Source
    BY <1>1
  <1> QED
    BY <1>1, <1>2, <1>3, <1>4

\* No step repeats a name in the order or moves the catch-all up.
LEMMA OrderStep == SourcesIInv /\ SourcesNext => GoodOrder(order')
  <1> SUFFICES ASSUME SourcesIInv, SourcesNext PROVE GoodOrder(order')
    OBVIOUS
  <1>1. SourcesTypeOK /\ GoodOrder(order) /\ Stages
    BY DEF SourcesIInv
  <1>2. CASE UNCHANGED order
    BY <1>1, <1>2
  <1>3. CASE Upload
    <2>1. order' \in {order, <<Current>> \o order} /\ (order' = order \/ Current \notin Present)
      BY <1>3 DEF Upload, server
    <2>2. Current \in Source
      BY <1>1, <1>3, Typed DEF Upload, Executing, Current
    <2>3. CASE order' = order
      BY <1>1, <2>3
    <2>4. CASE order' = <<Current>> \o order /\ Current \notin ToSet(order)
      BY <1>1, <2>2, <2>4, OnTop
    <2> QED
      BY <2>1, <2>3, <2>4 DEF Present
  <1>4. CASE UploadOrder
    <2>1. order' \in Sent(order, target)
      BY <1>4 DEF UploadOrder, Sent, FirstOccurrences, Present
    <2> QED
      BY <1>1, <2>1, Typed, SentOrder
  <1>5. CASE \E s \in Source : OtherOperator(s)
    <2>1. PICK s \in Source : OtherOperator(s)
      BY <1>5
    <2>2. order' = order \/ order' \in {<<s>> \o Without(order, {s}),
                        CatchAllLast(Without(order, {s}) \o <<s>>), Without(order, {s})}
      BY <2>1 DEF OtherOperator
    <2> QED
      BY <1>1, <2>2, OthersOrder
  <1>6. UNCHANGED order \/ Upload \/ UploadOrder \/ \E s \in Source : OtherOperator(s)
    BY DEF SourcesNext, Refuse, Find, Download, PlanOrder, FetchPage, DecideOrder, Skip, Lookup, Disable, EndSources,
           ListingFails, Place, Verify, ApplyAgain, server
  <1> QED
    BY <1>2, <1>3, <1>4, <1>5, <1>6

\* Every step preserves the type invariant.
LEMMA TypeStep == SourcesIInv /\ SourcesNext => SourcesTypeOK'
  <1> SUFFICES ASSUME SourcesIInv, SourcesNext PROVE SourcesTypeOK'
    OBVIOUS
  <1>1. SourcesTypeOK /\ Stages /\ DocByDoc
    BY DEF SourcesIInv
  <1>2. order' \in Seq(Source \cup {CatchAll}) /\ IsInjective(order')
    BY OrderStep DEF GoodOrder, Names
  <1>3. /\ docs \in Seq(Source) /\ first \in Seq(Names) /\ target \in Seq(Names) /\ listed \in Seq(Names)
        /\ Len(docs) \in Nat /\ DOMAIN docs = 1 .. Len(docs) /\ at \in Nat /\ at >= 1
        /\ at <= Len(docs) => at \in DOMAIN docs /\ at + 1 \in 1 .. (Len(docs) + 1)
        /\ \A i \in DOMAIN docs : docs[i] \in Source
    BY <1>1, Typed
  <1>4. << >> \in Seq(Source \cup {CatchAll}) /\ 1 \in 1 .. (Len(docs) + 1)
    BY <1>3
  <1>5. at <= Len(docs) => Current \in Source
    BY <1>3 DEF Current
  <1>6. CASE Refuse
    BY <1>1, <1>2, <1>6 DEF Refuse, Goto, SourcesTypeOK, manifest, server, decisions, listing, reports, history, others
  <1>7. CASE Find
    BY <1>1, <1>2, <1>3, <1>5, <1>7
    DEF Find, Goto, Present, SourcesTypeOK, Ok, Pending, manifest, server, listing, reports, history, others
  <1>8. CASE Download
    <2>1. at <= Len(docs)
      BY <1>1, <1>8 DEF Download, Stages
    <2> QED
      BY <1>1, <1>2, <1>3, <1>5, <1>8, <2>1
      DEF Download, Goto, SourcesTypeOK, Ok, Pending, manifest, server, listing, reports, history, others
  <1>9. CASE PlanOrder
    BY <1>1, <1>2, <1>3, <1>4, <1>9
    DEF PlanOrder, BeginListing, Goto, SourcesTypeOK, manifest, server, decisions, reports, history
  <1>10. CASE FetchPage
    <2>1. listed' \in Seq(Names)
      BY <1>1, <1>3, <1>10, PageFacts DEF FetchPage, SourcesTypeOK, Names
    <2> QED
      BY <1>1, <1>2, <1>10, <2>1
      DEF FetchPage, SourcesTypeOK, Names, manifest, server, decisions, reports, history, others
  <1>11. CASE DecideOrder
    <2>1. PlannedOrder(listed) \in {"None", "Update"}
      BY DEF PlannedOrder
    <2> QED
      BY <1>1, <1>2, <1>4, <1>11, <2>1
      DEF DecideOrder, Goto, SourcesTypeOK, manifest, server, listing, reports, history, others
  <1>12. CASE Skip
    BY <1>1, <1>2, <1>3, <1>5, <1>12
    DEF Skip, Executing, EndDoc, SourcesTypeOK, Ok, Pending, manifest, server, decisions, listing, history, others
  <1>13. CASE Upload
    <2>1. stored' \in [Source -> [events : {"want", "other"}, enabled : BOOLEAN]]
      <3>1. stored' = stored \/ stored' = [stored EXCEPT ![Current] = [events |-> "want", enabled |-> TRUE]]
        BY <1>13 DEF Upload, server
      <3>2. stored \in [Source -> [events : {"want", "other"}, enabled : BOOLEAN]]
        BY <1>1 DEF SourcesTypeOK
      <3>3. [events |-> "want", enabled |-> TRUE] \in [events : {"want", "other"}, enabled : BOOLEAN]
        OBVIOUS
      <3> QED
        BY <3>1, <3>2, <3>3
    <2>2. rejected' \in SUBSET Source
      BY <1>1, <1>3, <1>5, <1>13 DEF Upload, Executing, SourcesTypeOK
    <2>3. row' \in [Source -> Ok \cup {"Failed", Pending}] /\ at' \in 1 .. (Len(docs) + 1)
          /\ step' \in {"upload", "lookup"}
      BY <1>1, <1>3, <1>5, <1>13 DEF Upload, Uploaded, Executing, EndDoc, SourcesTypeOK, Ok
    <2> QED
      BY <1>1, <1>2, <1>13, <2>1, <2>2, <2>3
      DEF Upload, SourcesTypeOK, manifest, decisions, listing, history, others
  <1>14. CASE Lookup
    BY <1>1, <1>2, <1>3, <1>5, <1>14
    DEF Lookup, Executing, EndDoc, SourcesTypeOK, Ok, Pending, manifest, server, decisions, listing, history, others
  <1>15. CASE Disable
    <2>1. stored' \in [Source -> [events : {"want", "other"}, enabled : BOOLEAN]]
      <3>1. stored' = stored \/ stored' = [stored EXCEPT ![Current].enabled = FALSE]
        BY <1>15 DEF Disable
      <3>2. stored \in [Source -> [events : {"want", "other"}, enabled : BOOLEAN]]
        BY <1>1 DEF SourcesTypeOK
      <3>3. Current \in Source
        BY <1>5, <1>15 DEF Disable, Executing
      <3>4. [stored[Current] EXCEPT !.enabled = FALSE] \in [events : {"want", "other"}, enabled : BOOLEAN]
        BY <3>2, <3>3
      <3> QED
        BY <3>1, <3>2, <3>3, <3>4
    <2>2. row' \in [Source -> Ok \cup {"Failed", Pending}] /\ at' \in 1 .. (Len(docs) + 1) /\ step' = "upload"
      <3>1. planned[Current] \in Ok
        BY <1>1, <1>15 DEF Disable, Executing, DocByDoc, Ok
      <3> QED
        BY <1>1, <1>3, <1>5, <1>15, <3>1 DEF Disable, Executing, EndDoc, SourcesTypeOK
    <2> QED
      BY <1>1, <1>2, <1>15, <2>1, <2>2
      DEF Disable, SourcesTypeOK, manifest, decisions, listing, history, others
  <1>16. CASE EndSources
    BY <1>1, <1>2, <1>4, <1>16
    DEF EndSources, BeginListing, Goto, SourcesTypeOK, manifest, server, decisions, history
  <1>17. CASE ListingFails
    BY <1>1, <1>2, <1>17
    DEF ListingFails, EndOrder, Goto, SourcesTypeOK, manifest, server, decisions, listing, history, others
  <1>18. CASE Place
    <2>1. target' \in Seq(Names)
      <3>1. TargetOrder(listed) \in Seq(Names)
        <4>1. CatchAll \notin ToSet(first)
          BY <1>1, <1>18 DEF Place, Stages, ValidOrder
        <4> QED
          BY <1>3, <4>1, TargetFacts
      <3> QED
        BY <1>3, <1>18, <3>1 DEF Place
    <2> QED
      BY <1>1, <1>2, <1>18, <2>1
      DEF Place, EndOrder, Goto, SourcesTypeOK, Ok, Names, manifest, server, decisions, history, others
  <1>19. CASE UploadOrder
    BY <1>1, <1>2, <1>4, <1>19
    DEF UploadOrder, EndOrder, BeginListing, Goto, SourcesTypeOK, manifest, decisions, history
  <1>20. CASE Verify
    BY <1>1, <1>2, <1>20
    DEF Verify, Verdict, EndOrder, Goto, SourcesTypeOK, Ok, manifest, server, decisions, listing, history, others
  <1>21. CASE \E s \in Source : OtherOperator(s)
    <2>1. PICK s \in Source : OtherOperator(s)
      BY <1>21
    <2>2. stored' \in [Source -> [events : {"want", "other"}, enabled : BOOLEAN]]
      BY <1>1, <2>1 DEF OtherOperator, SourcesTypeOK
    <2>3. moved' \in BOOLEAN /\ interfered' \subseteq Source
      BY <1>1, <2>1 DEF OtherOperator, SourcesTypeOK, others
    <2>4. UNCHANGED <<manifest, control, decisions, listing, reports, history, rejected>>
      BY <2>1 DEF OtherOperator
    <2>5. /\ stage' = stage /\ step' = step /\ at' = at /\ docs' = docs /\ first' = first /\ goesOn' = goesOn
          /\ found' = found /\ planned' = planned /\ orderPlan' = orderPlan
          /\ listed' = listed /\ target' = target /\ row' = row /\ orderRow' = orderRow
          /\ run' = run /\ settled' = settled /\ allSettled' = allSettled /\ rejected' = rejected
      BY <2>4 DEF manifest, control, decisions, listing, reports, history
    <2>6. /\ docs' \in Manifests /\ first' \in Firsts /\ goesOn' \in BOOLEAN
          /\ stage' \in {"plan", "order plan", "sources", "order", "done"}
          /\ step' \in {"find", "download", "list", "listed", "upload", "lookup", "disable",
                        "send", "read back", "verify", "idle"}
          /\ at' \in 1 .. (Len(docs') + 1) /\ found' \in BOOLEAN
      BY <1>1, <2>5 DEF SourcesTypeOK
    <2>7. /\ planned' \in [Source -> Ok \cup {Pending}] /\ orderPlan' \in {Pending, "None", "Update"}
          /\ {listed', target'} \subseteq Seq(Source \cup {CatchAll})
          /\ row' \in [Source -> Ok \cup {"Failed", Pending}]
          /\ orderRow' \in (Ok \ {"Created"}) \cup {"Failed", "Missing", "Skipped", Pending}
          /\ run' \in 1 .. MaxRuns /\ settled' \subseteq Source /\ allSettled' \in BOOLEAN
          /\ rejected' \subseteq Source
      BY <1>1, <2>5 DEF SourcesTypeOK
    <2> QED
      BY <1>2, <2>2, <2>3, <2>6, <2>7 DEF SourcesTypeOK
  <1>22. CASE ApplyAgain
    <2>1. run' \in 1 .. MaxRuns
      <3>1. run \in 1 .. MaxRuns /\ run' = run + 1 /\ run < MaxRuns
        BY <1>1, <1>22 DEF ApplyAgain, SourcesTypeOK
      <3>2. MaxRuns \in Nat
        BY EventSourceAssumption
      <3> QED
        BY <3>1, <3>2
    <2> QED
      BY <1>1, <1>2, <1>4, <1>22, <2>1
      DEF ApplyAgain, Goto, SourcesTypeOK, manifest, server, others
  <1> QED
    BY <1>6, <1>7, <1>8, <1>9, <1>10, <1>11, <1>12, <1>13, <1>14, <1>15, <1>16, <1>17, <1>18, <1>19, <1>20,
       <1>21, <1>22 DEF SourcesNext

\* Every step preserves Stages.
LEMMA StagesStep == SourcesIInv /\ SourcesNext => Stages'
  <1> SUFFICES ASSUME SourcesIInv, SourcesNext PROVE Stages'
    OBVIOUS
  <1>1. Stages
    BY DEF SourcesIInv
  <1> USE DEF Stages, UniqueNames, ValidOrder, manifest
  <1>2. CASE Refuse
    BY <1>1, <1>2 DEF Refuse, Goto, others
  <1>3. CASE Find
    BY <1>1, <1>3 DEF Find, Goto, others
  <1>4. CASE Download
    BY <1>1, <1>4 DEF Download, Goto, others
  <1>5. CASE PlanOrder
    BY <1>1, <1>5 DEF PlanOrder, BeginListing, Goto
  <1>6. CASE FetchPage
    BY <1>1, <1>6 DEF FetchPage, others
  <1>7. CASE DecideOrder
    BY <1>1, <1>7 DEF DecideOrder, Goto, others
  <1>8. CASE Skip
    BY <1>1, <1>8 DEF Skip, Executing, EndDoc, others
  <1>9. CASE Upload
    <2>1. step' = "upload" \/ (step' = "lookup" /\ at' = at)
      BY <1>9 DEF Upload, Uploaded, EndDoc
    <2> QED
      BY <1>1, <1>9, <2>1 DEF Upload, Executing, others
  <1>10. CASE Lookup
    BY <1>1, <1>10 DEF Lookup, Executing, EndDoc, others
  <1>11. CASE Disable
    BY <1>1, <1>11 DEF Disable, Executing, EndDoc, others
  <1>12. CASE EndSources
    BY <1>1, <1>12 DEF EndSources, BeginListing, Goto
  <1>13. CASE ListingFails
    BY <1>1, <1>13 DEF ListingFails, EndOrder, Goto, others
  <1>14. CASE Place
    BY <1>1, <1>14 DEF Place, EndOrder, Goto, others
  <1>15. CASE UploadOrder
    <2>1. /\ (stage' = "order" /\ step' = "read back" /\ moved' = FALSE)
                \/ (stage' = "done" /\ step' = "idle" /\ moved' = moved)
          /\ stage = "order" /\ step = "send" /\ UNCHANGED <<manifest, at, interfered>>
      BY <1>15 DEF UploadOrder, EndOrder, BeginListing, Goto
    <2>2. moved' => interfered' # {}
      BY <1>1, <2>1
    <2>3. UniqueNames' /\ ValidOrder'
      BY <1>1, <2>1
    <2> QED
      BY <2>1, <2>2, <2>3
  <1>16. CASE Verify
    BY <1>1, <1>16 DEF Verify, EndOrder, Goto, others
  <1>17. CASE \E s \in Source : OtherOperator(s)
    <2>1. PICK s \in Source : OtherOperator(s)
      BY <1>17
    <2>2. interfered' # {} /\ UNCHANGED <<manifest, control>>
      BY <2>1 DEF OtherOperator
    <2> QED
      BY <1>1, <2>2 DEF control
  <1>18. CASE ApplyAgain
    BY <1>1, <1>18 DEF ApplyAgain, Goto, others
  <1> QED
    BY <1>2, <1>3, <1>4, <1>5, <1>6, <1>7, <1>8, <1>9, <1>10, <1>11, <1>12, <1>13, <1>14, <1>15, <1>16, <1>17,
       <1>18 DEF SourcesNext

\* A document gets its row, or its next request is due.
LEMMA DocSteps ==
    ASSUME SourcesIInv, Skip \/ Upload \/ Lookup \/ Disable
    PROVE  /\ stage = "sources" /\ at <= Len(docs)
           /\ \/ EndDoc("Failed") /\ step # "upload"
              \/ EndDoc("Failed") /\ planned[Current] \in {"Created", "Updated"}
              \/ EndDoc(planned[Current])
              \/ /\ UNCHANGED <<row, at>> /\ step' \in {"lookup", "disable"}
                 /\ planned[Current] \in {"Created", "Updated"} /\ Current \in Off
           /\ UNCHANGED <<manifest, stage, decisions, listing, orderRow, history, others>>
  <1>1. DocByDoc
    BY DEF SourcesIInv
  <1>2. CASE Skip
    BY <1>2 DEF Skip, Executing
  <1>3. CASE Upload
    <2>1. Uploaded \/ EndDoc("Failed")
      BY <1>3 DEF Upload
    <2> QED
      BY <1>3, <2>1 DEF Upload, Uploaded, AfterUpload, Executing
  <1>4. CASE Lookup
    BY <1>1, <1>4 DEF Lookup, Executing, DocByDoc
  <1>5. CASE Disable
    BY <1>1, <1>5 DEF Disable, Executing
  <1> QED
    BY <1>2, <1>3, <1>4, <1>5

\* Every step preserves DocByDoc.
LEMMA DocByDocStep == SourcesIInv /\ SourcesNext => DocByDoc'
  <1> SUFFICES ASSUME SourcesIInv, SourcesNext PROVE DocByDoc'
    OBVIOUS
  <1>1. SourcesTypeOK /\ Stages /\ DocByDoc
    BY DEF SourcesIInv
  <1>2. /\ docs \in Seq(Source) /\ Len(docs) \in Nat /\ DOMAIN docs = 1 .. Len(docs) /\ at \in Nat /\ at >= 1
        /\ at <= Len(docs) => at \in DOMAIN docs
        /\ \A i \in DOMAIN docs : docs[i] \in Source
    BY <1>1, Typed
  <1>3. planned \in [Source -> Ok \cup {Pending}] /\ row \in [Source -> Ok \cup {"Failed", Pending}]
    BY <1>1 DEF SourcesTypeOK
  <1>4. CASE Refuse
    BY <1>1, <1>4 DEF Refuse, Goto, DocByDoc, manifest, decisions, reports
  <1>5. CASE Find
    <2>1. stage = "plan" /\ at \in DOMAIN docs /\ UniqueNames /\ UNCHANGED <<docs, row, orderRow, orderPlan>> /\ stage' = "plan"
      BY <1>2, <1>5 DEF Find, Goto, manifest, reports
    <2>2. step' \in {"find", "download"}
      BY <1>1, <1>5 DEF Find, Goto, Stages
    <2>3. CASE UNCHANGED <<planned, at>>
      BY <1>1, <2>1, <2>2, <2>3 DEF DocByDoc, UniqueNames
    <2>4. CASE planned' = [planned EXCEPT ![Current] = "Created"] /\ at' = at + 1
      <3>1. ASSUME NEW i \in DOMAIN docs, i >= at' PROVE planned'[docs[i]] = Pending
        <4>1. i >= at /\ i # at
          BY <1>2, <2>4, <3>1
        <4>2. docs[i] # Current
          BY <2>1, <4>1 DEF UniqueNames, IsInjective, Current
        <4> QED
          BY <1>1, <1>2, <1>3, <2>1, <2>4, <4>1, <4>2 DEF DocByDoc
      <3>2. ASSUME NEW i \in DOMAIN docs, i < at' PROVE planned'[docs[i]] # Pending
        <4>1. i < at \/ i = at
          BY <1>2, <2>4, <3>2
        <4>2. planned'[docs[i]] = "Created" \/ (planned'[docs[i]] = planned[docs[i]] /\ i # at)
          BY <1>2, <1>3, <2>4 DEF Current
        <4>3. i # at => planned[docs[i]] # Pending
          BY <1>1, <2>1, <4>1 DEF DocByDoc
        <4> QED
          BY <4>2, <4>3 DEF Pending
      <3> QED
        BY <1>1, <2>1, <2>2, <3>1, <3>2 DEF DocByDoc
    <2> QED
      BY <1>5, <2>3, <2>4 DEF Find
  <1>6. CASE Download
    <2>1. /\ stage = "plan" /\ at \in DOMAIN docs /\ UNCHANGED <<docs, row, orderRow, orderPlan>>
          /\ stage' = "plan" /\ step' = "find" /\ at' = at + 1
      BY <1>1, <1>2, <1>6 DEF Download, Goto, manifest, reports, Stages
    <2>2. PICK what \in {"Updated", "Unchanged"} : planned' = [planned EXCEPT ![Current] = what]
      BY <1>6 DEF Download
    <2>3. ASSUME NEW i \in DOMAIN docs, UniqueNames, i >= at' PROVE planned'[docs[i]] = Pending
      <3>1. i >= at /\ i # at
        BY <1>2, <2>1, <2>3
      <3>2. docs[i] # Current
        BY <2>1, <2>3, <3>1 DEF UniqueNames, IsInjective, Current
      <3> QED
        BY <1>1, <1>2, <1>3, <2>1, <2>2, <2>3, <3>1, <3>2 DEF DocByDoc
    <2>4. ASSUME NEW i \in DOMAIN docs, i < at' PROVE planned'[docs[i]] # Pending
      <3>1. i < at \/ i = at
        BY <1>2, <2>1, <2>4
      <3>2. planned'[docs[i]] = what \/ (planned'[docs[i]] = planned[docs[i]] /\ i # at)
        BY <1>2, <1>3, <2>2 DEF Current
      <3>3. i # at => planned[docs[i]] # Pending
        BY <1>1, <2>1, <3>1 DEF DocByDoc
      <3> QED
        BY <3>2, <3>3 DEF Pending
    <2>5. UniqueNames' <=> UniqueNames
      BY <2>1 DEF UniqueNames
    <2> QED
      BY <1>1, <2>1, <2>3, <2>4, <2>5 DEF DocByDoc
  <1>7. CASE PlanOrder
    <2>1. \A i \in DOMAIN docs : i < at
      <3>1. at = Len(docs) + 1
        BY <1>7 DEF PlanOrder
      <3> QED
        BY <1>2, <3>1
    <2> QED
      BY <1>1, <1>7, <2>1 DEF PlanOrder, BeginListing, Goto, DocByDoc, manifest, decisions, reports
  <1>8. CASE FetchPage
    <2>1. stage \in {"order plan", "order"} /\ step' \in {"list", "read back", "listed", "verify"}
      BY <1>1, <1>8 DEF FetchPage, Stages, SourcesTypeOK
    <2> QED
      BY <1>1, <1>8, <2>1 DEF FetchPage, DocByDoc, manifest, decisions, reports
  <1>9. CASE DecideOrder
    <2>1. stage' = "done" \/ (stage' = "sources" /\ step' = "upload" /\ at' = 1)
      BY <1>9 DEF DecideOrder, Goto
    <2>2. \A i \in DOMAIN docs : i >= 1 /\ row[docs[i]] = Pending
      <3>1. \A s \in Source : row[s] = Pending
        BY <1>1, <1>9 DEF DecideOrder, DocByDoc
      <3> QED
        BY <1>2, <3>1
    <2>3. stage = "order plan" /\ UNCHANGED <<docs, planned, row, orderRow>>
      BY <1>9 DEF DecideOrder, manifest, reports
    <2>4. step' \notin {"lookup", "disable"}
      BY <1>9 DEF DecideOrder, Goto
    <2> QED
      BY <1>1, <2>1, <2>2, <2>3, <2>4 DEF DocByDoc
  <1>10. CASE Skip \/ Upload \/ Lookup \/ Disable
    <2>1. /\ stage = "sources" /\ at \in DOMAIN docs /\ Current \in Source /\ UniqueNames
          /\ UNCHANGED <<docs, stage, planned, orderPlan, orderRow>>
      BY <1>1, <1>2, <1>10, DocSteps DEF Current, Stages, manifest, decisions
    <2>2. CASE UNCHANGED <<row, at>> /\ planned[Current] \in {"Created", "Updated"} /\ Current \in Off
      BY <1>1, <2>1, <2>2 DEF DocByDoc, Current
    <2>3. ASSUME NEW result, result # Pending, EndDoc(result) PROVE DocByDoc'
      <3>1. \A i \in DOMAIN docs : row'[docs[i]] = Pending <=> i >= at'
        <4> SUFFICES ASSUME NEW i \in DOMAIN docs PROVE row'[docs[i]] = Pending <=> i >= at'
          OBVIOUS
        <4>1. at' = at + 1 /\ i \in Nat
          BY <1>2, <2>3 DEF EndDoc
        <4>2. CASE i = at
          BY <1>2, <1>3, <2>1, <2>3, <4>1, <4>2 DEF EndDoc, Current
        <4>3. CASE i # at
          <5>1. docs[i] # Current
            BY <2>1, <4>3 DEF UniqueNames, IsInjective, Current
          <5>2. row'[docs[i]] = row[docs[i]]
            BY <1>2, <1>3, <2>3, <5>1 DEF EndDoc
          <5>3. i >= at <=> i >= at'
            BY <1>2, <4>1, <4>3
          <5> QED
            BY <1>1, <2>1, <5>2, <5>3 DEF DocByDoc
        <4> QED
          BY <4>2, <4>3
      <3>2. step' = "upload"
        BY <2>3 DEF EndDoc
      <3> QED
        BY <1>1, <2>1, <3>1, <3>2 DEF DocByDoc
    <2>4. planned[Current] # Pending
      BY <1>1, <2>1 DEF DocByDoc, Current
    <2> QED
      BY <1>10, <2>2, <2>3, <2>4, DocSteps DEF Pending
  <1>11. CASE EndSources
    <2>1. \A i \in DOMAIN docs : ~(i >= at)
      BY <1>2, <1>11 DEF EndSources
    <2>2. stage' \in {"done", "order"} /\ step' \in {"idle", "list"} /\ (stage' = "order" => orderRow' = orderRow)
      BY <1>11 DEF EndSources, BeginListing, Goto
    <2>3. stage = "sources" /\ UNCHANGED <<docs, planned, row, orderPlan>>
      BY <1>11 DEF EndSources, manifest, decisions
    <2> QED
      BY <1>1, <2>1, <2>2, <2>3 DEF DocByDoc
  <1>12. CASE ListingFails
    BY <1>1, <1>12 DEF ListingFails, EndOrder, Goto, DocByDoc, manifest, decisions
  <1>13. CASE Place
    BY <1>1, <1>13 DEF Place, EndOrder, Goto, DocByDoc, manifest, decisions
  <1>14. CASE UploadOrder
    BY <1>1, <1>14 DEF UploadOrder, EndOrder, BeginListing, Goto, DocByDoc, manifest, decisions
  <1>15. CASE Verify
    BY <1>1, <1>15 DEF Verify, EndOrder, Goto, DocByDoc, manifest, decisions
  <1>16. CASE \E s \in Source : OtherOperator(s)
    <2>1. UNCHANGED <<manifest, control, decisions, reports>>
      BY <1>16 DEF OtherOperator
    <2> QED
      BY <1>1, <2>1 DEF DocByDoc, UniqueNames, Current, manifest, control, decisions, reports
  <1>17. CASE ApplyAgain
    <2>1. \A i \in DOMAIN docs : ~(i < 1) /\ docs[i] \in Source
      BY <1>2
    <2> QED
      BY <1>1, <1>17, <2>1 DEF ApplyAgain, Goto, DocByDoc, manifest
  <1> QED
    BY <1>4, <1>5, <1>6, <1>7, <1>8, <1>9, <1>10, <1>11, <1>12, <1>13, <1>14, <1>15, <1>16, <1>17 DEF SourcesNext

\* What SourcesAsClaimed says of one source.
Claims(s) ==
    /\ row[s] \in Ok \/ planned[s] = "Unchanged" \/ s \in settled => HoldsAsDeclared(s)
    /\ s \in settled => planned[s] \in {Pending, "Unchanged"} /\ row[s] \in {Pending, "Unchanged"}
    /\ step = "download" /\ s = Current => s \in Present /\ found = stored[s].enabled
    /\ step \in {"lookup", "disable"} /\ s = Current => s \in Present /\ stored[s].events = "want"

\* Every step preserves SourcesAsClaimed, for each source that nobody interferes with.
LEMMA ClaimsStep == SourcesIInv /\ SourcesNext => SourcesAsClaimed'
  <1> SUFFICES ASSUME SourcesIInv, SourcesNext PROVE SourcesAsClaimed'
    OBVIOUS
  <1>1. SourcesTypeOK /\ GoodOrder(order) /\ Stages /\ DocByDoc
    BY DEF SourcesIInv
  <1>2. \A s \in Source \ (interfered \cup rejected) : Claims(s)
    BY DEF SourcesIInv, SourcesAsClaimed, Claims
  <1>3. /\ docs \in Seq(Source) /\ Len(docs) \in Nat /\ at \in Nat /\ DOMAIN docs = 1 .. Len(docs)
        /\ at <= Len(docs) => at \in DOMAIN docs /\ Current \in Source
        /\ target \in Seq(Names)
    BY <1>1, Typed DEF Current
  <1>4. /\ planned \in [Source -> Ok \cup {Pending}] /\ row \in [Source -> Ok \cup {"Failed", Pending}]
        /\ stored \in [Source -> [events : {"want", "other"}, enabled : BOOLEAN]]
        /\ settled \subseteq Source
    BY <1>1 DEF SourcesTypeOK
  <1> SUFFICES ASSUME NEW s \in Source, s \notin interfered', s \notin rejected' PROVE Claims(s)'
    BY DEF SourcesAsClaimed, Claims
  <1>5. s \notin interfered \cup rejected
    <2>1. interfered \subseteq interfered' /\ rejected \subseteq rejected'
      BY DEF SourcesNext, Refuse, Find, Download, PlanOrder, FetchPage, DecideOrder, Skip, Upload, Lookup, Disable,
             EndSources, ListingFails, Place, UploadOrder, Verify, OtherOperator, ApplyAgain, others
    <2> QED
      BY <2>1
  <1>6. Claims(s)
    BY <1>2, <1>5
  <1>7. CASE /\ UNCHANGED <<stored, planned, row, settled>> /\ Present' = Present
             /\ step' \notin {"download", "lookup", "disable"}
    BY <1>6, <1>7 DEF Claims, HoldsAsDeclared, Wanted
  <1>8. CASE Find
    <2>1. at \in DOMAIN docs /\ Current \in Source /\ UNCHANGED <<docs, order, stored, row, settled>>
      BY <1>3, <1>8 DEF Find, manifest, server, reports, history
    <2>2. Present' = Present
      BY <2>1 DEF Present
    <2>3. CASE Current \in Present
      <3>1. found' = stored[Current].enabled /\ UNCHANGED <<planned, at>> /\ step' = "download"
        BY <1>8, <2>3 DEF Find, Goto
      <3>2. Current' = Current
        BY <2>1, <3>1 DEF Current
      <3> QED
        BY <1>6, <2>1, <2>2, <2>3, <3>1, <3>2 DEF Claims, HoldsAsDeclared, Wanted
    <2>4. CASE Current \notin Present
      <3>1. planned' = [planned EXCEPT ![Current] = "Created"] /\ step' = "find"
        BY <1>1, <1>8, <2>4 DEF Find
      <3>2. s = Current => s \notin settled
        BY <1>6, <2>4 DEF Claims, HoldsAsDeclared
      <3>3. planned'[s] = "Unchanged" => planned[s] = "Unchanged"
        BY <1>4, <3>1
      <3>4. s \in settled => planned'[s] = planned[s]
        BY <1>4, <3>1, <3>2
      <3> QED
        BY <1>6, <2>1, <2>2, <3>1, <3>3, <3>4 DEF Claims, HoldsAsDeclared, Wanted
    <2> QED
      BY <2>3, <2>4
  <1>9. CASE Download
    <2>1. /\ at \in DOMAIN docs /\ Current \in Source /\ Current \in Present /\ step = "download" /\ step' = "find"
          /\ UNCHANGED <<docs, order, stored, row, settled>>
      BY <1>1, <1>3, <1>9 DEF Download, Goto, Stages, manifest, server, reports, history
    <2>2. Present' = Present
      BY <2>1 DEF Present
    <2>3. planned' = [planned EXCEPT ![Current] =
                         IF Differs(Current, stored[Current].events, found) THEN "Updated" ELSE "Unchanged"]
      BY <1>9 DEF Download
    <2>4. CASE s = Current
      <3>1. found = stored[s].enabled
        BY <1>6, <2>1, <2>4 DEF Claims
      <3>2. Differs(Current, stored[Current].events, found) <=> stored[s] # Wanted(s)
        <4>1. stored[s] = [events |-> stored[s].events, enabled |-> stored[s].enabled]
          BY <1>4
        <4> QED
          BY <2>4, <3>1, <4>1 DEF Differs
      <3>3. planned'[s] = IF stored[s] # Wanted(s) THEN "Updated" ELSE "Unchanged"
        BY <1>4, <2>3, <2>4, <3>2
      <3>4. Wanted(s)' = Wanted(s)
        BY DEF Wanted
      <3> QED
        BY <1>6, <2>1, <2>2, <2>4, <3>3, <3>4 DEF Claims, HoldsAsDeclared
    <2>5. CASE s # Current
      <3>1. planned'[s] = planned[s]
        BY <1>4, <2>3, <2>5
      <3> QED
        BY <1>6, <2>1, <2>2, <3>1 DEF Claims, HoldsAsDeclared, Wanted
    <2> QED
      BY <2>4, <2>5
  <1>10. CASE Skip
    <2>1. /\ at \in DOMAIN docs /\ Current \in Source /\ planned[Current] = "Unchanged"
          /\ row' = [row EXCEPT ![Current] = "Unchanged"] /\ step' = "upload"
          /\ UNCHANGED <<order, stored, planned, settled>>
      BY <1>3, <1>10 DEF Skip, Executing, EndDoc, server, decisions, history
    <2>2. Present' = Present
      BY <2>1 DEF Present
    <2>3. row'[s] = row[s] \/ (row'[s] = "Unchanged" /\ planned[s] = "Unchanged")
      BY <1>4, <2>1
    <2> QED
      BY <1>6, <2>1, <2>2, <2>3 DEF Claims, HoldsAsDeclared, Wanted
  <1>11. CASE Upload \/ Lookup \/ Disable
    <2>1. /\ stage = "sources" /\ at \in DOMAIN docs /\ Current \in Source
          /\ planned[Current] \in {"Created", "Updated"}
          /\ UNCHANGED <<docs, planned, settled>>
      <3>1. Executing("upload") \/ Executing("lookup") \/ Executing("disable")
        BY <1>11 DEF Upload, Lookup, Disable
      <3>2. planned[Current] \in {"Created", "Updated"}
        BY <1>1, <1>11 DEF Upload, Lookup, Disable, DocByDoc, Executing
      <3>3. UNCHANGED <<docs, planned, settled>>
        BY <1>11 DEF Upload, Lookup, Disable, manifest, decisions, history
      <3> QED
        BY <1>3, <3>1, <3>2, <3>3 DEF Executing
    <2>2. CASE s # Current
      <3>1. stored'[s] = stored[s]
        <4>1. \/ stored' = stored \/ stored' = [stored EXCEPT ![Current] = [events |-> "want", enabled |-> TRUE]]
              \/ stored' = [stored EXCEPT ![Current].enabled = FALSE]
          BY <1>11 DEF Upload, Lookup, Disable, server
        <4> QED
          BY <1>4, <2>2, <4>1
      <3>2. s \in Present => s \in Present'
        <4>1. order' = order \/ (order' = <<Current>> \o order /\ Current \notin ToSet(order))
          BY <1>11 DEF Upload, Lookup, Disable, server, Present
        <4>2. Current \notin ToSet(order) => ToSet(<<Current>> \o order) = {Current} \cup ToSet(order)
          BY <1>1, <2>1, OnTop
        <4> QED
          BY <4>1, <4>2 DEF Present
      <3>3. row'[s] = row[s]
        <4>1. row' = row \/ \E result : EndDoc(result)
          BY <1>11, DocSteps
        <4> QED
          BY <1>4, <2>2, <4>1 DEF EndDoc
      <3>4. step' = "upload" \/ (step' \in {"lookup", "disable"} /\ Current' = Current)
        BY <1>11, <2>1, DocSteps DEF EndDoc, Current
      <3> QED
        BY <1>6, <2>1, <2>2, <3>1, <3>2, <3>3, <3>4 DEF Claims, HoldsAsDeclared, Wanted
    <2>3. CASE s = Current
      <3>1. s \notin settled /\ planned'[s] # "Unchanged" /\ s \notin settled'
        BY <1>6, <2>1, <2>3 DEF Claims, Pending
      <3>2. ASSUME EndDoc("Failed") PROVE Claims(s)'
        <4>1. row'[s] = "Failed" /\ step' = "upload"
          BY <1>4, <3>2, <2>3 DEF EndDoc
        <4> QED
          BY <3>1, <4>1 DEF Claims, Ok
      <3>3. ASSUME EndDoc(planned[Current]), s \in Present', stored'[s] = Wanted(s) PROVE Claims(s)'
        <4>1. step' = "upload"
          BY <3>3 DEF EndDoc
        <4> QED
          BY <3>1, <3>3, <4>1 DEF Claims, HoldsAsDeclared, Wanted
      <3>4. CASE Upload
        <4>1. \/ /\ stored' = [stored EXCEPT ![Current] = [events |-> "want", enabled |-> TRUE]]
                 /\ order' = IF Current \in Present THEN order ELSE <<Current>> \o order
                 /\ Uploaded \/ EndDoc("Failed")
              \/ EndDoc("Failed")
          BY <2>3, <3>4 DEF Upload
        <4>2. CASE EndDoc("Failed")
          BY <3>2, <4>2
        <4>3. CASE /\ stored' = [stored EXCEPT ![Current] = [events |-> "want", enabled |-> TRUE]]
                   /\ order' = IF Current \in Present THEN order ELSE <<Current>> \o order
                   /\ Uploaded
          <5>1. stored'[s] = [events |-> "want", enabled |-> TRUE]
            BY <1>4, <2>3, <4>3
          <5>2. s \in Present'
            <6>1. CASE s \in Present
              BY <2>3, <4>3, <6>1 DEF Present
            <6>2. CASE s \notin ToSet(order)
              <7>1. order' = <<s>> \o order
                BY <2>3, <4>3, <6>2 DEF Present
              <7>2. ToSet(<<s>> \o order) = {s} \cup ToSet(order)
                BY <1>1, <6>2, OnTop
              <7> QED
                BY <7>1, <7>2 DEF Present
            <6> QED
              BY <6>1, <6>2 DEF Present
          <5>3. CASE s \in Off
            <6>1. step' = "lookup" /\ UNCHANGED <<row, at>>
              BY <2>3, <4>3, <5>3 DEF Uploaded, AfterUpload
            <6>2. row[s] = Pending
              BY <1>1, <1>3, <2>1, <2>3 DEF DocByDoc, Current
            <6>3. row'[s] = Pending /\ stored'[s].events = "want"
              BY <5>1, <6>1, <6>2
            <6> QED
              BY <3>1, <5>2, <6>1, <6>3 DEF Claims, Ok, Pending
          <5>4. CASE s \notin Off
            <6>1. EndDoc(planned[Current])
              BY <2>3, <4>3, <5>4 DEF Uploaded, AfterUpload
            <6>2. stored'[s] = Wanted(s)
              BY <5>1, <5>4 DEF Wanted
            <6> QED
              BY <3>3, <5>2, <6>1, <6>2
          <5> QED
            BY <5>3, <5>4
        <4> QED
          BY <4>1, <4>2, <4>3
      <3>5. CASE Lookup
        <4>1. step = "lookup" /\ UNCHANGED <<order, stored>>
          BY <3>5 DEF Lookup, Executing, server
        <4>2. CASE EndDoc("Failed")
          BY <3>2, <4>2
        <4>3. CASE step' = "disable" /\ UNCHANGED <<row, at>>
          <5>1. row[s] = Pending
            BY <1>1, <1>3, <2>1, <2>3 DEF DocByDoc, Current
          <5>2. s \in Present /\ stored[s].events = "want"
            BY <1>6, <2>3, <4>1 DEF Claims
          <5> QED
            BY <3>1, <4>1, <4>3, <5>1, <5>2 DEF Claims, Ok, Pending, Present
        <4> QED
          BY <3>5, <4>2, <4>3 DEF Lookup
      <3>6. CASE Disable
        <4>1. step = "disable" /\ UNCHANGED order
          BY <3>6 DEF Disable, Executing
        <4>2. s \in Present /\ stored[s].events = "want" /\ s \in Present' /\ s \in Off
          BY <1>1, <1>6, <2>3, <4>1 DEF Claims, Present, DocByDoc
        <4>3. CASE EndDoc("Failed")
          BY <3>2, <4>3
        <4>4. CASE stored' = [stored EXCEPT ![Current].enabled = FALSE] /\ EndDoc(planned[Current])
          <5>1. stored'[s] = [stored[s] EXCEPT !.enabled = FALSE]
            BY <1>4, <2>3, <4>4
          <5>2. stored'[s] = [events |-> "want", enabled |-> FALSE]
            BY <1>4, <4>2, <5>1
          <5>3. stored'[s] = Wanted(s)
            BY <4>2, <5>2 DEF Wanted
          <5> QED
            BY <3>3, <4>2, <4>4, <5>3
        <4> QED
          BY <2>3, <3>6, <4>2, <4>3, <4>4 DEF Disable
      <3> QED
        BY <1>11, <3>4, <3>5, <3>6
    <2> QED
      BY <2>2, <2>3
  <1>12. CASE \E t \in Source : OtherOperator(t)
    <2>1. PICK t \in Source : OtherOperator(t)
      BY <1>12
    <2>2. UNCHANGED <<manifest, control, decisions, reports, history>> /\ s # t
      BY <2>1 DEF OtherOperator
    <2>3. stored'[s] = stored[s]
      BY <1>4, <2>1, <2>2 DEF OtherOperator
    <2>4. s \in Present => s \in Present'
      <3>1. order' = order \/ order' \in {<<t>> \o Without(order, {t}),
                        CatchAllLast(Without(order, {t}) \o <<t>>), Without(order, {t})}
        BY <2>1 DEF OtherOperator
      <3>2. order' # order => ToSet(order) \ {t} \subseteq ToSet(order')
        BY <1>1, <3>1, OthersOrder
      <3> QED
        BY <2>2, <3>2 DEF Present
    <2>5. UNCHANGED <<row, planned, settled, step, found>> /\ Current' = Current
      BY <2>2 DEF manifest, control, decisions, reports, history, Current
    <2> QED
      BY <1>6, <2>3, <2>4, <2>5 DEF Claims, HoldsAsDeclared, Wanted
  <1>13. CASE ApplyAgain
    <2>1. /\ settled' = {x \in Source : row[x] \in Ok} /\ step' = "find"
          /\ planned' = [x \in Source |-> Pending] /\ row' = [x \in Source |-> Pending]
          /\ UNCHANGED <<order, stored>>
      BY <1>13 DEF ApplyAgain, Goto, server
    <2>2. planned'[s] = Pending /\ row'[s] = Pending
      BY <2>1
    <2>3. s \in settled' => HoldsAsDeclared(s)
      BY <1>6, <2>1 DEF Claims
    <2>4. s \in settled' => HoldsAsDeclared(s)'
      BY <2>1, <2>3 DEF HoldsAsDeclared, Present, Wanted
    <2> QED
      BY <2>1, <2>2, <2>4 DEF Claims, Ok, Pending
  <1>14. CASE UploadOrder
    <2>1. order' \in Sent(order, target)
      BY <1>14 DEF UploadOrder, Sent, FirstOccurrences, Present
    <2>2. Present' = Present
      BY <1>1, <1>3, <2>1, SentOrder DEF Present
    <2>3. UNCHANGED <<stored, planned, row, settled>> /\ step' \notin {"download", "lookup", "disable"}
      BY <1>14 DEF UploadOrder, EndOrder, BeginListing, Goto, decisions, history
    <2> QED
      BY <1>7, <2>2, <2>3
  <1>15. CASE Refuse \/ PlanOrder \/ FetchPage \/ DecideOrder \/ EndSources \/ ListingFails \/ Place \/ Verify
    <2>1. UNCHANGED <<stored, row, settled, order>>
      BY <1>15 DEF Refuse, PlanOrder, FetchPage, DecideOrder, EndSources, ListingFails, Place, Verify,
                   server, reports, history
    <2>2. UNCHANGED planned
      BY <1>15 DEF Refuse, PlanOrder, FetchPage, DecideOrder, EndSources, ListingFails, Place, Verify, decisions
    <2>3. step' \notin {"download", "lookup", "disable"}
      BY <1>15 DEF Refuse, PlanOrder, FetchPage, DecideOrder, EndSources, ListingFails, Place, Verify,
                   Goto, BeginListing, EndOrder
    <2> QED
      BY <1>7, <2>1, <2>2, <2>3 DEF Present
  <1> QED
    BY <1>8, <1>9, <1>10, <1>11, <1>12, <1>13, <1>14, <1>15 DEF SourcesNext

\* How a step may change the order.
LEMMA OrderMoves ==
    ASSUME SourcesIInv, SourcesNext
    PROVE  \/ order' = order
           \/ Upload /\ Current \notin Present /\ order' = <<Current>> \o order
           \/ UploadOrder
           \/ \E s \in Source : OtherOperator(s)
  BY DEF SourcesNext, Refuse, Find, Download, PlanOrder, FetchPage, DecideOrder, Skip, Upload, Lookup, Disable,
         EndSources, ListingFails, Place, Verify, ApplyAgain, server

\* Every step preserves ListedIsOrder.
LEMMA ListedStep == SourcesIInv /\ SourcesNext => ListedIsOrder'
  <1> SUFFICES ASSUME SourcesIInv, SourcesNext, ~moved' PROVE ListedIsOrder'
    BY DEF ListedIsOrder
  <1>1. SourcesTypeOK /\ GoodOrder(order) /\ Stages /\ ListedIsOrder
    BY DEF SourcesIInv
  <1>2. order \in Seq(Names) /\ order' \in Seq(Names) /\ listed \in Seq(Names)
    BY <1>1, Typed, OrderStep DEF GoodOrder
  <1>3. ASSUME listed' = << >>, step' \in {"list", "read back"} PROVE ListedIsOrder'
    <2>1. Len(<< >>) = 0 /\ Len(order') \in Nat
      BY <1>2
    <2>2. SubSeq(order', 1, 0) = << >>
      BY SubSeqEmpty
    <2>3. Len(listed') <= Len(order')
      <3>1. Len(listed') = 0
        BY <1>3, <2>1, Zenon
      <3> QED
        BY <2>1, <3>1
    <2>4. listed' = SubSeq(order', 1, Len(listed'))
      BY <1>3, <2>1, <2>2
    <2> QED
      BY <1>3, <2>3, <2>4 DEF ListedIsOrder
  <1>4. CASE stage' \notin {"order plan", "order"} /\ step' \notin {"list", "read back"}
    BY <1>4 DEF ListedIsOrder
  <1>5. CASE step' \in {"send", "idle"}
    BY <1>5 DEF ListedIsOrder
  <1>6. CASE PlanOrder
    BY <1>3, <1>6 DEF PlanOrder, BeginListing, Goto
  <1>7. CASE FetchPage
    <2>1. ~moved /\ order' = order /\ step \in {"list", "read back"} /\ stage' = stage
      BY <1>7 DEF FetchPage, others, server
    <2>2. Len(listed) <= Len(order) /\ listed = SubSeq(order, 1, Len(listed))
      BY <1>1, <2>1 DEF ListedIsOrder
    <2>3. listed' = listed \o SubSeq(order, Len(listed) + 1, Min({Len(order), Len(listed) + PageSize}))
      BY <1>7 DEF FetchPage
    <2>4. /\ Len(listed') <= Len(order) /\ listed' = SubSeq(order, 1, Len(listed'))
          /\ ~(Len(listed') < Len(order)) => listed' = order
      BY <1>2, <2>2, <2>3, PageFacts
    <2>5. step' \in {"listed", "verify"} => ~(Len(listed') < Len(order))
      BY <1>7, <2>1 DEF FetchPage
    <2> QED
      BY <2>1, <2>4, <2>5 DEF ListedIsOrder
  <1>8. CASE EndSources
    BY <1>3, <1>5, <1>8 DEF EndSources, BeginListing, Goto
  <1>9. CASE UploadOrder
    BY <1>3, <1>5, <1>9 DEF UploadOrder, EndOrder, BeginListing, Goto
  <1>10. CASE \E s \in Source : OtherOperator(s)
    <2>1. UNCHANGED <<order, listed, moved, stage, step>>
      BY <1>10 DEF OtherOperator, control, listing
    <2> QED
      BY <1>1, <2>1 DEF ListedIsOrder
  <1>11. CASE Refuse \/ ListingFails \/ Place \/ Verify
    BY <1>5, <1>11 DEF Refuse, ListingFails, Place, Verify, EndOrder, Goto
  <1>12. CASE Find \/ Download \/ ApplyAgain
    <2>1. stage' = "plan" /\ step' \in {"find", "download"}
      BY <1>1, <1>12 DEF Find, Download, ApplyAgain, Goto, Stages
    <2> QED
      BY <1>4, <2>1
  <1>13. CASE DecideOrder
    BY <1>4, <1>5, <1>13 DEF DecideOrder, Goto
  <1>14. CASE Skip \/ Upload \/ Lookup \/ Disable
    <2>1. stage' = "sources" /\ step' \in {"upload", "lookup", "disable"}
      BY <1>14, DocSteps, StagesStep DEF Stages
    <2> QED
      BY <1>4, <2>1
  <1> QED
    BY <1>6, <1>7, <1>8, <1>9, <1>10, <1>11, <1>12, <1>13, <1>14 DEF SourcesNext

\* The order that has just been listed.
LEMMA Listed ==
    ASSUME SourcesIInv, ~moved, Place \/ DecideOrder \/ Verify PROVE listed = order
  BY DEF SourcesIInv, ListedIsOrder, Place, DecideOrder, Verify

\* Every step preserves TargetIsPlaced.
LEMMA TargetStep == SourcesIInv /\ SourcesNext => TargetIsPlaced'
  <1> SUFFICES ASSUME SourcesIInv, SourcesNext PROVE TargetIsPlaced'
    OBVIOUS
  <1>1. SourcesTypeOK /\ Stages /\ DocByDoc /\ TargetIsPlaced
    BY DEF SourcesIInv
  <1>2. first \in Seq(Names) /\ listed \in Seq(Names)
    BY <1>1, Typed
  <1>3. CASE PlanOrder \/ FetchPage \/ EndSources \/ Find \/ Download \/ DecideOrder \/ Skip \/ Upload \/ Lookup \/ Disable
    <2>1. target' = target /\ first' = first
      BY <1>3 DEF PlanOrder, FetchPage, EndSources, Find, Download, DecideOrder, Skip, Upload, Lookup, Disable,
                  listing, manifest
    <2>2. orderRow = Pending /\ orderRow' \notin Ok
      <3>1. stage # "done"
        BY <1>1, <1>3 DEF PlanOrder, FetchPage, EndSources, Find, Download, DecideOrder, Skip, Upload, Lookup, Disable,
                     Executing, Stages
      <3>2. orderRow = Pending
        BY <1>1, <3>1 DEF DocByDoc
      <3>3. orderRow' \in {orderRow, "Skipped"}
        BY <1>3 DEF PlanOrder, FetchPage, EndSources, Find, Download, DecideOrder, Skip, Upload, Lookup, Disable,
                    reports
      <3> QED
        BY <3>2, <3>3 DEF Ok, Pending
    <2>3. /\ step' # "send"
          /\ Sending' => Sending
          /\ stage' \in {"plan", "order plan", "sources"} \/ (stage' = "order" /\ ~Sending')
                => stage \in {"plan", "order plan", "sources"} \/ (stage = "order" /\ ~Sending)
      <3>1. CASE FetchPage
        BY <1>1, <3>1 DEF FetchPage, Stages, Sending
      <3>2. CASE Skip \/ Upload \/ Lookup \/ Disable
        <4>1. stage = "sources" /\ stage' = "sources" /\ step' \in {"upload", "lookup", "disable"}
          BY <3>2, DocSteps, StagesStep DEF Stages
        <4> QED
          BY <4>1 DEF Sending
      <3>3. CASE PlanOrder \/ EndSources \/ Find \/ Download \/ DecideOrder
        BY <1>1, <3>3 DEF PlanOrder, EndSources, Find, Download, DecideOrder, BeginListing, Goto, Stages, Sending
      <3> QED
        BY <1>3, <3>1, <3>2, <3>3
    <2>4. TargetOrder(target)' = TargetOrder(target)
      BY <2>1 DEF TargetOrder
    <2> QED
      <3>1. (stage' \in {"plan", "order plan", "sources"} \/ (stage' = "order" /\ ~Sending')) => target' = << >>
        BY <1>1, <2>1, <2>3 DEF TargetIsPlaced
      <3>2. Sending' => Placed(target)'
        BY <1>1, <2>1, <2>3, <2>4 DEF TargetIsPlaced, Placed
      <3> QED
        BY <2>2, <2>3, <3>1, <3>2 DEF TargetIsPlaced
  <1>4. CASE Refuse \/ ListingFails
    <2>1. stage' = "done" /\ step' = "idle"
      BY <1>4 DEF Refuse, ListingFails, EndOrder, Goto
    <2>2. orderRow' \notin Ok
      <3>1. stage # "done" => orderRow = Pending
        BY <1>1 DEF DocByDoc
      <3> QED
        BY <1>4, <3>1 DEF Refuse, ListingFails, EndOrder, reports, Ok, Pending
    <2> QED
      BY <2>1, <2>2 DEF TargetIsPlaced, Sending
  <1>5. CASE Place
    <2>1. stage = "order" /\ step = "listed" /\ first' = first /\ order' = order /\ moved' = moved
      BY <1>5 DEF Place, manifest, server, others
    <2>2. CatchAll \notin ToSet(first)
      BY <1>1, <2>1 DEF Stages, ValidOrder
    <2>3. TargetOrder(TargetOrder(listed)) = TargetOrder(listed)
          /\ ToSet(TargetOrder(listed)) = ToSet(first) \cup ToSet(listed)
      BY <1>2, <2>2, TargetFacts
    <2>4. ~moved => listed = order
      BY <1>5, Listed
    <2>5. orderRow' \in Ok => /\ orderRow' = "Unchanged" /\ ToSet(first) \subseteq ToSet(listed)
                              /\ TargetOrder(listed) = listed /\ stage' = "done" /\ step' = "idle"
      <3>1. orderRow = Pending
        BY <1>1, <2>1 DEF DocByDoc
      <3> QED
        BY <1>5, <3>1 DEF Place, EndOrder, Goto, Ok, Pending
    <2>6. \/ stage' = "done" /\ step' = "idle"
          \/ /\ stage' = "order" /\ step' = "send" /\ target' = TargetOrder(listed)
             /\ ToSet(first) \subseteq ToSet(listed)
      BY <1>5 DEF Place, EndOrder, Goto
    <2>7. orderRow' \in Ok /\ ~moved' => Placed(order)'
      <3> SUFFICES ASSUME orderRow' \in Ok, ~moved' PROVE Placed(order)'
        OBVIOUS
      <3>1. ToSet(first) \subseteq ToSet(order) /\ TargetOrder(order) = order
        BY <2>1, <2>4, <2>5
      <3>2. TargetOrder(order)' = TargetOrder(order)
        BY <2>1 DEF TargetOrder
      <3> QED
        BY <2>1, <3>1, <3>2 DEF Placed
    <2>8. Sending' => Placed(target)'
      <3> SUFFICES ASSUME Sending' PROVE Placed(target)'
        OBVIOUS
      <3>1. target' = TargetOrder(listed)
        BY <2>6 DEF Sending
      <3>2. TargetOrder(target)' = target'
        BY <2>1, <2>3, <3>1 DEF TargetOrder
      <3> QED
        BY <2>1, <2>3, <3>1, <3>2 DEF Placed
    <2>9. step' = "send" /\ ~moved' => target' = TargetOrder(order)' /\ ToSet(first') \subseteq Present'
      <3> SUFFICES ASSUME step' = "send", ~moved' PROVE target' = TargetOrder(order)' /\ ToSet(first') \subseteq Present'
        OBVIOUS
      <3>1. listed = order /\ target' = TargetOrder(listed) /\ ToSet(first) \subseteq ToSet(listed)
        BY <2>1, <2>4, <2>6
      <3>2. TargetOrder(order)' = TargetOrder(order)
        BY <2>1 DEF TargetOrder
      <3> QED
        BY <2>1, <3>1, <3>2 DEF Present
    <2> QED
      BY <2>6, <2>7, <2>8, <2>9 DEF TargetIsPlaced, Sending
  <1>6. CASE UploadOrder
    <2>1. /\ target' = target /\ first' = first /\ step = "send"
          /\ \/ stage' = "order" /\ step' = "read back" /\ orderRow' = orderRow
             \/ stage' = "done" /\ step' = "idle" /\ orderRow' = "Failed"
      BY <1>6 DEF UploadOrder, BeginListing, EndOrder, Goto, manifest
    <2>2. orderRow' \notin Ok
      BY <1>1, <1>6, <2>1 DEF DocByDoc, Ok, Pending, UploadOrder
    <2>3. TargetOrder(target)' = TargetOrder(target)
      BY <2>1 DEF TargetOrder
    <2>4. Placed(target)
      BY <1>1, <2>1 DEF TargetIsPlaced, Sending
    <2> QED
      BY <2>1, <2>2, <2>3, <2>4 DEF TargetIsPlaced, Placed, Sending
  <1>7. CASE Verify
    <2>1. /\ target' = target /\ first' = first /\ order' = order /\ moved' = moved /\ step = "verify"
          /\ stage' = "done" /\ step' = "idle" /\ orderRow' = IF listed = target THEN "Updated" ELSE "Failed"
      BY <1>7 DEF Verify, Verdict, EndOrder, Goto, manifest, server, listing, others
    <2>2. orderRow' \in Ok /\ ~moved' => Placed(order)'
      <3> SUFFICES ASSUME orderRow' \in Ok, ~moved' PROVE Placed(order)'
        OBVIOUS
      <3>1. order = target
        BY <1>7, <2>1, Listed DEF Ok
      <3>2. Placed(target)
        BY <1>1, <2>1 DEF TargetIsPlaced, Sending
      <3>3. TargetOrder(order)' = TargetOrder(order)
        BY <2>1 DEF TargetOrder
      <3> QED
        BY <2>1, <3>1, <3>2, <3>3 DEF Placed
    <2> QED
      BY <2>1, <2>2 DEF TargetIsPlaced, Sending
  <1>8. CASE \E s \in Source : OtherOperator(s)
    <2>1. UNCHANGED <<manifest, control, decisions, listing, reports, history>> /\ stage # "done"
      BY <1>8 DEF OtherOperator
    <2>2. ~moved' => order' = order /\ moved' = moved
      BY <1>8 DEF OtherOperator
    <2>3. TargetOrder(target)' = TargetOrder(target) /\ (order' = order => TargetOrder(order)' = TargetOrder(order))
      BY <2>1 DEF TargetOrder, manifest, listing
    <2>4. orderRow' \notin Ok
      BY <1>1, <2>1 DEF DocByDoc, reports, Ok, Pending
    <2> QED
      BY <1>1, <2>1, <2>2, <2>3, <2>4 DEF TargetIsPlaced, Placed, Sending, Present, manifest, control, listing
  <1>9. CASE ApplyAgain
    BY <1>9 DEF ApplyAgain, Goto, TargetIsPlaced, Sending, Ok, Pending
  <1> QED
    BY <1>3, <1>4, <1>5, <1>6, <1>7, <1>8, <1>9 DEF SourcesNext

\* What no step changes, and what only other operators take away.
LEMMA Steady ==
    ASSUME SourcesIInv, SourcesNext
    PROVE  /\ docs' = docs /\ first' = first
           /\ interfered \subseteq interfered' /\ rejected \subseteq rejected'
           /\ interfered' = {} => Present \subseteq Present' /\ ~(\E s \in Source : OtherOperator(s))
  <1>1. docs' = docs /\ first' = first
    BY DEF SourcesNext, Refuse, Find, Download, PlanOrder, FetchPage, DecideOrder, Skip, Upload, Lookup, Disable,
           EndSources, ListingFails, Place, UploadOrder, Verify, OtherOperator, ApplyAgain, manifest
  <1>2. interfered \subseteq interfered' /\ rejected \subseteq rejected'
    BY DEF SourcesNext, Refuse, Find, Download, PlanOrder, FetchPage, DecideOrder, Skip, Upload, Lookup, Disable,
           EndSources, ListingFails, Place, UploadOrder, Verify, OtherOperator, ApplyAgain, others
  <1>3. GoodOrder(order) /\ SourcesTypeOK
    BY DEF SourcesIInv
  <1>4. (\E s \in Source : OtherOperator(s)) => interfered' # {}
    BY DEF OtherOperator
  <1>5. CASE order' = order
    BY <1>1, <1>2, <1>4, <1>5 DEF Present
  <1>6. CASE Upload /\ Current \notin Present /\ order' = <<Current>> \o order
    <2>1. Current \in Source
      BY <1>3, <1>6, Typed DEF Upload, Executing, Current
    <2>2. ToSet(order') = {Current} \cup ToSet(order)
      BY <1>3, <1>6, <2>1, OnTop DEF Present
    <2> QED
      BY <1>1, <1>2, <1>4, <2>2 DEF Present
  <1>7. CASE UploadOrder
    <2>1. order' \in Sent(order, target)
      BY <1>7 DEF UploadOrder, Sent, FirstOccurrences, Present
    <2>2. ToSet(order') = ToSet(order)
      BY <1>3, <2>1, Typed, SentOrder
    <2> QED
      BY <1>1, <1>2, <1>4, <2>2 DEF Present
  <1> QED
    BY <1>1, <1>2, <1>4, <1>5, <1>6, <1>7, OrderMoves

\* Every step preserves GateHeld.
LEMMA PlaceableStep == SourcesIInv /\ SourcesNext => GateHeld'
  <1> SUFFICES ASSUME SourcesIInv, SourcesNext, stage' \in {"sources", "order"}, interfered' = {}
               PROVE  ToSet(first') \subseteq Present' \cup ToSet(docs')
    BY DEF GateHeld
  <1>1. interfered = {} /\ Present \subseteq Present' /\ docs' = docs /\ first' = first
    BY Steady
  <1>2. Stages /\ GateHeld
    BY DEF SourcesIInv
  <1>3. CASE stage \in {"sources", "order"}
    BY <1>1, <1>2, <1>3 DEF GateHeld
  <1>4. CASE stage \notin {"sources", "order"}
    <2>1. DecideOrder
      <3>1. ~(\E s \in Source : OtherOperator(s))
        BY Steady
      <3>2. ~(Skip \/ Upload \/ Lookup \/ Disable)
        BY <1>4, DocSteps
      <3>3. ~Refuse /\ ~Find /\ ~Download /\ ~PlanOrder /\ ~FetchPage /\ ~EndSources /\ ~ListingFails /\ ~Place
            /\ ~UploadOrder /\ ~Verify /\ ~ApplyAgain
        BY <1>4 DEF Refuse, Find, Download, PlanOrder, FetchPage, EndSources, ListingFails, Place, UploadOrder,
                    Verify, ApplyAgain, Goto, BeginListing
      <3> QED
        BY <3>1, <3>2, <3>3 DEF SourcesNext
    <2>2. ~moved
      BY <1>1, <1>2 DEF Stages
    <2>3. listed = order /\ Placeable(listed)
      BY <2>1, <2>2, Listed DEF DecideOrder, Goto
    <2> QED
      BY <1>1, <2>3 DEF Placeable, Present
  <1> QED
    BY <1>3, <1>4

\* Every step preserves NoneMeansPlaced.
LEMMA NoneStep == SourcesIInv /\ SourcesNext => NoneMeansPlaced'
  <1> SUFFICES ASSUME SourcesIInv, SourcesNext, orderPlan' = "None", interfered' = {}
               PROVE  /\ TargetOrder(order)' = order' /\ ToSet(docs') \subseteq Present' /\ ~Sending'
                      /\ target' = << >>
    BY DEF NoneMeansPlaced
  <1>1. interfered = {} /\ Present \subseteq Present' /\ docs' = docs /\ first' = first
    BY Steady
  <1>2. SourcesTypeOK /\ GoodOrder(order) /\ Stages /\ DocByDoc /\ NoneMeansPlaced /\ TargetIsPlaced
    BY DEF SourcesIInv
  <1>3. ~moved
    BY <1>1, <1>2 DEF Stages
  <1>4. order' = order => TargetOrder(order)' = TargetOrder(order)
    BY <1>1 DEF TargetOrder
  <1>5. ~(\E s \in Source : OtherOperator(s))
    BY Steady
  <1>6. CASE DecideOrder
    <2>1. stage = "order plan" /\ orderPlan = Pending /\ order' = order /\ target' = target
      BY <1>2, <1>6 DEF DecideOrder, DocByDoc, server, listing
    <2>2. PlannedOrder(listed) = "None" /\ step' = "upload"
      BY <1>6, <2>1 DEF DecideOrder, Goto, Pending
    <2>3. listed = order
      BY <1>3, <1>6, Listed
    <2>4. ValidOrder /\ target = << >>
      BY <1>2, <2>1 DEF Stages, TargetIsPlaced
    <2>5. docs \in Seq(Source) /\ first \in Seq(Names) /\ order \in Seq(Names)
      BY <1>2, Typed DEF GoodOrder
    <2>6. TargetOrder(order) = order /\ ToSet(docs) \subseteq ToSet(order)
      BY <2>2, <2>3, <2>4, <2>5, PlannedNoneFacts
    <2> QED
      BY <1>1, <1>4, <2>1, <2>2, <2>4, <2>6 DEF Present, Sending
  <1>7. CASE ~DecideOrder
    <2>1. orderPlan = "None" /\ ~ApplyAgain
      BY <1>5, <1>7 DEF SourcesNext, Refuse, Find, Download, PlanOrder, FetchPage, Skip, Upload, Lookup, Disable,
           EndSources, ListingFails, Place, UploadOrder, Verify, ApplyAgain, decisions, Pending
    <2>2. TargetOrder(order) = order /\ ToSet(docs) \subseteq Present /\ ~Sending /\ target = << >>
      BY <1>1, <1>2, <2>1 DEF NoneMeansPlaced
    <2>3. ~UploadOrder /\ ~Verify
      BY <2>2 DEF UploadOrder, Verify, Sending
    <2>4. order' = order
      <3>1. ~(Upload /\ Current \notin Present)
        <4>1. Upload => Current \in ToSet(docs)
          BY <1>2, Typed, Members DEF Upload, Executing, Current
        <4> QED
          BY <2>2, <4>1
      <3> QED
        BY <1>5, <2>3, <3>1, OrderMoves
    <2>5. target' = target /\ ~Sending'
      <3>1. CASE Place
        <4>1. listed = order
          BY <1>3, <3>1, Listed
        <4>2. target' = target /\ step' = "idle"
          BY <2>2, <3>1, <4>1 DEF Place, EndOrder, Goto
        <4> QED
          BY <4>2 DEF Sending
      <3>2. CASE Skip \/ Upload \/ Lookup \/ Disable
        <4>1. stage' = "sources" /\ UNCHANGED listing
          BY <3>2, DocSteps
        <4>2. step' \in {"upload", "lookup", "disable"}
          BY <4>1, StagesStep DEF Stages
        <4> QED
          BY <4>1, <4>2 DEF listing, Sending
      <3>3. CASE FetchPage
        BY <1>2, <2>2, <3>3 DEF FetchPage, Sending
      <3>4. CASE Refuse \/ Find \/ Download \/ PlanOrder \/ EndSources \/ ListingFails
        BY <1>2, <3>4 DEF Refuse, Find, Download, PlanOrder, EndSources, ListingFails, EndOrder, BeginListing,
                          Goto, Stages, Sending, listing
      <3> QED
        BY <1>5, <1>7, <2>1, <2>3, <3>1, <3>2, <3>3, <3>4 DEF SourcesNext
    <2> QED
      BY <1>1, <1>4, <2>2, <2>4, <2>5
  <1> QED
    BY <1>6, <1>7

\* Every step preserves SettledStaysPlaced.
LEMMA SettledStep == SourcesIInv /\ SourcesNext => SettledStaysPlaced'
  <1> SUFFICES ASSUME SourcesIInv, SourcesNext, allSettled', Nobody'
               PROVE  /\ ToSet(docs') \subseteq settled' /\ Placed(order)' /\ ~Sending' /\ target' = << >>
                      /\ orderRow' \in {Pending, "Unchanged", "Failed"}
    BY DEF SettledStaysPlaced
  <1>1. interfered = {} /\ rejected = {} /\ Present \subseteq Present' /\ docs' = docs /\ first' = first
    BY Steady DEF Nobody
  <1>2. SourcesTypeOK /\ GoodOrder(order) /\ Stages /\ DocByDoc /\ SettledStaysPlaced /\ TargetIsPlaced /\ SourcesAsClaimed
    BY DEF SourcesIInv
  <1>3. ~moved
    BY <1>1, <1>2 DEF Stages
  <1>4. order' = order => TargetOrder(order)' = TargetOrder(order)
    BY <1>1 DEF TargetOrder
  <1>5. ~(\E s \in Source : OtherOperator(s))
    BY Steady DEF Nobody
  <1>6. CASE ApplyAgain
    <2>1. /\ orderRow \in Ok /\ settled' = ToSet(docs) /\ step' = "find" /\ target' = << >> /\ orderRow' = Pending
          /\ order' = order
      BY <1>6 DEF ApplyAgain, Goto, server
    <2>2. Placed(order)
      BY <1>2, <1>3, <2>1 DEF TargetIsPlaced
    <2> QED
      BY <1>1, <1>4, <2>1, <2>2 DEF Placed, Sending
  <1>7. CASE ~ApplyAgain
    <2>1. allSettled /\ settled' = settled
      BY <1>5, <1>7 DEF SourcesNext, Refuse, Find, Download, PlanOrder, FetchPage, DecideOrder, Skip, Upload, Lookup,
           Disable, EndSources, ListingFails, Place, UploadOrder, Verify, history
    <2>2. /\ ToSet(docs) \subseteq settled /\ Placed(order) /\ ~Sending /\ target = << >>
          /\ orderRow \in {Pending, "Unchanged", "Failed"}
      BY <1>1, <1>2, <2>1 DEF SettledStaysPlaced, Nobody
    <2>3. \A s \in ToSet(docs) : planned[s] \in {Pending, "Unchanged"} /\ row[s] \in {Pending, "Unchanged"}
      <3>1. \A s \in ToSet(docs) : s \in Source
        BY <1>2, Typed, Members
      <3> QED
        BY <1>1, <1>2, <2>2, <3>1 DEF SourcesAsClaimed
    <2>4. ~UploadOrder /\ ~Verify /\ ~Upload
      <3>1. ~UploadOrder /\ ~Verify
        BY <2>2 DEF UploadOrder, Verify, Sending
      <3>2. Upload => Current \in ToSet(docs)
        BY <1>2, Typed, Members DEF Upload, Executing, Current
      <3>3. Upload => planned[Current] \in {"Created", "Updated"}
        BY DEF Upload
      <3> QED
        BY <2>3, <3>1, <3>2, <3>3 DEF Pending
    <2>5. order' = order
      BY <1>5, <2>4, OrderMoves
    <2>6. target' = target /\ ~Sending' /\ orderRow' \in {orderRow, "Unchanged", "Failed"}
      <3>1. CASE Place
        <4>1. listed = order
          BY <1>3, <3>1, Listed
        <4>2. target' = target /\ step' = "idle" /\ orderRow' = "Unchanged"
          BY <2>2, <3>1, <4>1 DEF Place, EndOrder, Goto, Placed
        <4> QED
          BY <4>2 DEF Sending
      <3>2. CASE Skip \/ Lookup \/ Disable
        <4>1. stage' = "sources" /\ UNCHANGED <<listing, orderRow>>
          BY <3>2, DocSteps
        <4>2. step' \in {"upload", "lookup", "disable"}
          BY <4>1, StagesStep DEF Stages
        <4> QED
          BY <4>1, <4>2 DEF listing, Sending
      <3>3. CASE FetchPage
        BY <1>2, <2>2, <3>3 DEF FetchPage, Sending, reports
      <3>4. CASE EndSources
        <4>1. ~OrderIsHeld
          BY <2>3 DEF OrderIsHeld, Pending
        <4> QED
          BY <3>4, <4>1 DEF EndSources, BeginListing, Goto, Sending
      <3>5. CASE Refuse \/ Find \/ Download \/ PlanOrder \/ ListingFails \/ DecideOrder
        BY <1>2, <3>5 DEF Refuse, Find, Download, PlanOrder, ListingFails, DecideOrder, EndOrder, BeginListing,
                          Goto, Stages, Sending, listing, reports
      <3> QED
        BY <1>5, <1>7, <2>4, <3>1, <3>2, <3>3, <3>4, <3>5 DEF SourcesNext
    <2> QED
      BY <1>1, <1>4, <2>1, <2>2, <2>5, <2>6 DEF Placed
  <1> QED
    BY <1>6, <1>7

\* Every step preserves MissingOnlyByFailure.
LEMMA MissingStep == SourcesIInv /\ SourcesNext => MissingOnlyByFailure'
  <1> SUFFICES ASSUME SourcesIInv, SourcesNext, orderRow' = "Missing", interfered' \cup rejected' = {}
               PROVE  \E s \in ToSet(first') : row'[s] = "Failed"
    BY DEF MissingOnlyByFailure
  <1>1. interfered = {} /\ rejected = {} /\ docs' = docs /\ first' = first
    BY Steady
  <1>2. SourcesTypeOK /\ Stages /\ DocByDoc /\ SourcesAsClaimed /\ GateHeld
    BY DEF SourcesIInv
  <1>3. ~(\E s \in Source : OtherOperator(s))
    BY <1>1, Steady
  <1>4. Place
    <2>1. stage # "done" => orderRow = Pending
      BY <1>2 DEF DocByDoc
    <2>2. ~Refuse /\ ~Find /\ ~Download /\ ~PlanOrder /\ ~FetchPage /\ ~DecideOrder
      BY <1>2, <2>1 DEF Refuse, Find, Download, PlanOrder, FetchPage, DecideOrder, Stages, reports, Pending
    <2>3. ~Skip /\ ~Upload /\ ~Lookup /\ ~Disable /\ ~EndSources
      BY <2>1 DEF Skip, Upload, Lookup, Disable, EndSources, Executing, BeginListing, Pending
    <2>4. ~ListingFails /\ ~UploadOrder /\ ~Verify /\ ~ApplyAgain
      BY <2>1 DEF ListingFails, UploadOrder, Verify, Verdict, ApplyAgain, EndOrder, Pending
    <2> QED
      BY <1>3, <2>2, <2>3, <2>4 DEF SourcesNext
  <1>5. stage = "order" /\ row' = row /\ orderRow = Pending
    BY <1>2, <1>4 DEF Place, DocByDoc
  <1>6. listed = order
    BY <1>1, <1>2, <1>4, Listed DEF Stages
  <1>7. ~(ToSet(first) \subseteq Present)
    BY <1>4, <1>5, <1>6 DEF Place, EndOrder, Present, Pending
  <1>8. PICK s \in ToSet(first) : s \notin Present
    BY <1>7
  <1>9. s \in ToSet(docs)
    BY <1>1, <1>2, <1>5, <1>8 DEF GateHeld
  <1>10. s \in Source /\ row[s] # Pending
    <2>1. PICK i \in DOMAIN docs : docs[i] = s
      BY <1>9, Members
    <2> QED
      BY <1>2, <1>5, <2>1, Typed DEF DocByDoc
  <1>11. row[s] \notin Ok
    BY <1>1, <1>2, <1>8, <1>10 DEF SourcesAsClaimed, HoldsAsDeclared
  <1>12. row[s] = "Failed"
    BY <1>2, <1>10, <1>11 DEF SourcesTypeOK
  <1> QED
    BY <1>1, <1>5, <1>12

-----------------------------------------------------------------------------
\* The inductive invariant holds initially, and every step preserves it.
LEMMA SourcesInitIInv == SourcesInit => SourcesIInv
  <1> SUFFICES ASSUME SourcesInit PROVE SourcesIInv
    OBVIOUS
  <1>1. order \in Lives /\ docs \in Manifests /\ first \in Firsts
    BY DEF SourcesInit
  <1>2. /\ order \in Seq(Names) /\ IsInjective(order) /\ docs \in Seq(Source)
        /\ \A i \in DOMAIN order : order[i] = CatchAll => i = Len(order)
    BY <1>1, EventSourceAssumption DEF Names
  <1>3. \A n : ~Before(order, CatchAll, n)
    <2> SUFFICES ASSUME NEW n, Before(order, CatchAll, n) PROVE FALSE
      OBVIOUS
    <2>1. PICK i \in DOMAIN order, j \in DOMAIN order : i < j /\ order[i] = CatchAll
      BY Orders
    <2>2. i = Len(order) /\ j <= Len(order)
      BY <1>2, <2>1
    <2> QED
      BY <1>2, <2>1, <2>2
  <1>4. GoodOrder(order)
    BY <1>2, <1>3 DEF GoodOrder
  <1>5. Len(docs) \in Nat /\ DOMAIN docs = 1 .. Len(docs) /\ 1 \in 1 .. (Len(docs) + 1) /\ 1 \in 1 .. MaxRuns
    BY <1>2, EventSourceAssumption
  <1>6. SourcesTypeOK
    <2>1. order \in Seq(Source \cup {CatchAll}) /\ << >> \in Seq(Source \cup {CatchAll})
      BY <1>2 DEF Names
    <2> QED
      BY <1>2, <1>5, <2>1 DEF SourcesInit, SourcesTypeOK, Ok, Pending
  <1>7. Stages /\ ListedIsOrder
    BY DEF SourcesInit, Stages, ListedIsOrder
  <1>8. DocByDoc
    <2>1. \A i \in DOMAIN docs : ~(i < 1) /\ docs[i] \in Source
      BY <1>2, <1>5
    <2> QED
      BY <2>1 DEF SourcesInit, DocByDoc
  <1>9. SourcesAsClaimed
    BY DEF SourcesInit, SourcesAsClaimed, Ok, Pending
  <1>10. TargetIsPlaced /\ MissingOnlyByFailure
    BY DEF SourcesInit, TargetIsPlaced, Sending, MissingOnlyByFailure, Ok, Pending
  <1>11. GateHeld /\ NoneMeansPlaced /\ SettledStaysPlaced
    BY DEF SourcesInit, GateHeld, NoneMeansPlaced, SettledStaysPlaced, Pending
  <1> QED
    BY <1>4, <1>6, <1>7, <1>8, <1>9, <1>10, <1>11 DEF SourcesIInv

LEMMA SourcesNextIInv == SourcesIInv /\ [SourcesNext]_sourceVars => SourcesIInv'
  <1>1. ASSUME SourcesIInv, SourcesNext PROVE SourcesIInv'
    BY <1>1, OrderStep, TypeStep, StagesStep, DocByDocStep, ClaimsStep, ListedStep, TargetStep, PlaceableStep, NoneStep,
       SettledStep, MissingStep DEF SourcesIInv
  <1>2. ASSUME SourcesIInv, UNCHANGED sourceVars PROVE SourcesIInv'
    <2>1. /\ UNCHANGED <<docs, first, goesOn, order, stored, stage, step, at, found, planned, orderPlan, listed>>
          /\ UNCHANGED <<target, row, orderRow, run, settled, allSettled, rejected, interfered, moved>>
      BY <1>2 DEF sourceVars, manifest, server, control, decisions, listing, reports, history, others
    <2>2. SourcesTypeOK' /\ GoodOrder(order)' /\ Stages' /\ DocByDoc'
      <3>1. SourcesTypeOK'
        <4> USE DEF SourcesIInv, SourcesTypeOK
        <4>1. /\ docs' \in Manifests /\ first' \in Firsts /\ goesOn' \in BOOLEAN
              /\ order' \in Seq(Source \cup {CatchAll}) /\ IsInjective(order')
              /\ stored' \in [Source -> [events : {"want", "other"}, enabled : BOOLEAN]]
              /\ stage' \in {"plan", "order plan", "sources", "order", "done"}
              /\ step' \in {"find", "download", "list", "listed", "upload", "lookup", "disable",
                            "send", "read back", "verify", "idle"}
          BY <1>2, <2>1
        <4>2. /\ at' \in 1 .. (Len(docs') + 1) /\ found' \in BOOLEAN
              /\ planned' \in [Source -> Ok \cup {Pending}] /\ orderPlan' \in {Pending, "None", "Update"}
              /\ {listed', target'} \subseteq Seq(Source \cup {CatchAll})
              /\ row' \in [Source -> Ok \cup {"Failed", Pending}]
              /\ orderRow' \in (Ok \ {"Created"}) \cup {"Failed", "Missing", "Skipped", Pending}
          BY <1>2, <2>1
        <4>3. /\ run' \in 1 .. MaxRuns /\ settled' \subseteq Source /\ allSettled' \in BOOLEAN
              /\ rejected' \subseteq Source /\ interfered' \subseteq Source /\ moved' \in BOOLEAN
          BY <1>2, <2>1
        <4> QED
          BY <4>1, <4>2, <4>3
      <3>2. GoodOrder(order)' /\ Stages'
        BY <1>2, <2>1 DEF SourcesIInv, Stages, UniqueNames, ValidOrder, GoodOrder
      <3>3. DocByDoc'
        BY <1>2, <2>1 DEF SourcesIInv, DocByDoc, UniqueNames, Current
      <3> QED
        BY <3>1, <3>2, <3>3
    <2>3. SourcesAsClaimed' /\ ListedIsOrder' /\ GateHeld' /\ MissingOnlyByFailure'
      BY <1>2, <2>1 DEF SourcesIInv, SourcesAsClaimed, HoldsAsDeclared, Wanted, Present, Current, ListedIsOrder,
                        GateHeld, MissingOnlyByFailure
    <2>4. TargetIsPlaced' /\ NoneMeansPlaced' /\ SettledStaysPlaced'
      BY <1>2, <2>1 DEF SourcesIInv, TargetIsPlaced, Placed, TargetOrder, Sending, Present, NoneMeansPlaced,
                        SettledStaysPlaced, Nobody
    <2> QED
      BY <2>1, <2>2, <2>3, <2>4 DEF SourcesIInv
  <1> QED
    BY <1>1, <1>2

\* The strengthening is an invariant of the applies of event sources and their order.
THEOREM SourcesStrengthened == SourcesSpec => []SourcesIInv
  BY SourcesInitIInv, SourcesNextIInv, PTL DEF SourcesSpec

\* The rows of sources and their order are true, the plan's prediction holds where it must,
\* and what was settled stays unchanged.
THEOREM SourceRowsHold == SourcesSpec => []EventSourceInv
  <1>1. SourcesIInv => EventSourceInv
    <2> SUFFICES ASSUME SourcesIInv PROVE EventSourceInv
      OBVIOUS
    <2>1. SourcesTypeOK /\ MissingOnlyByFailure
      BY DEF SourcesIInv
    <2>2. SourcesAreTrue
      BY DEF SourcesIInv, SourcesAsClaimed, SourcesAreTrue, HoldsAsDeclared
    <2>3. PlannedNoneIsNotSent
      BY DEF SourcesIInv, NoneMeansPlaced, PlannedNoneIsNotSent
    <2>4. ReapplyIsUnchanged
      <3>1. settled \subseteq Source
        BY <2>1 DEF SourcesTypeOK
      <3> QED
        BY <3>1 DEF SourcesIInv, SourcesAsClaimed, SettledStaysPlaced, Nobody, ReapplyIsUnchanged
    <2> QED
      BY <2>1, <2>2, <2>3, <2>4 DEF EventSourceInv
  <1> QED
    BY <1>1, SourcesStrengthened, PTL

\* An order reported as written or in sync begins with the listed sources.
THEOREM OrdersAreVerified == SourcesSpec => []OrderIsVerified
  <1>1. SourcesIInv => OrderIsVerified
    <2> SUFFICES ASSUME SourcesIInv, orderRow \in Ok, ~moved PROVE IsPrefix(first, order)
      BY DEF OrderIsVerified
    <2>1. TargetOrder(order) = order
      BY DEF SourcesIInv, TargetIsPlaced, Placed
    <2>2. first \in Seq(Names) /\ order \in Seq(Names)
      BY Typed DEF SourcesIInv, GoodOrder
    <2>3. IsPrefix(first, TargetOrder(order))
      BY <2>2, ListedFirst
    <2> QED
      BY <2>1, <2>3
  <1> QED
    BY <1>1, SourcesStrengthened, PTL

\* No apply changes the order of the sources that its document does not list.
THEOREM UnlistedStayInOrder == SourcesSpec => UnlistedKeepOrder
  <1> DEFINE Kept == ~moved /\ ~moved' =>
                        \A m, n \in (Present \cap Present') \ ToSet(first) :
                            Before(order, m, n) => Before(order', m, n)
  <1>1. SourcesIInv /\ [SourcesNext]_sourceVars => [Kept]_sourceVars
    <2> SUFFICES ASSUME SourcesIInv, SourcesNext, ~moved, ~moved',
                        NEW m, NEW n, m \notin ToSet(first), n \notin ToSet(first), Before(order, m, n)
                 PROVE  Before(order', m, n)
      OBVIOUS
    <2>1. SourcesTypeOK /\ GoodOrder(order) /\ Stages /\ TargetIsPlaced
      BY DEF SourcesIInv
    <2>2. CASE order' = order
      BY <2>2
    <2>3. CASE Upload /\ Current \notin Present /\ order' = <<Current>> \o order
      <3>1. Current \in Source
        BY <2>1, <2>3, Typed DEF Upload, Executing, Current
      <3> QED
        BY <2>1, <2>3, <3>1, OnTop DEF Present
    <2>4. CASE UploadOrder
      <3>1. order' \in Sent(order, target)
        BY <2>4 DEF UploadOrder, Sent, FirstOccurrences, Present
      <3>2. target = TargetOrder(order) /\ ToSet(first) \subseteq ToSet(order) /\ ValidOrder
        BY <2>1, <2>4 DEF UploadOrder, TargetIsPlaced, Stages, Present
      <3>3. first \in Seq(Names) /\ order \in Seq(Names) /\ target \in Seq(Names)
        BY <2>1, Typed DEF GoodOrder
      <3>4. CatchAll \notin ToSet(first) /\ IsInjective(first) /\ IsInjective(order)
        BY <2>1, <3>2 DEF ValidOrder, GoodOrder
      <3>5. m # CatchAll
        BY <2>1 DEF GoodOrder
      <3>6. /\ ToSet(target) = ToSet(first) \cup ToSet(order) /\ IsInjective(target)
            /\ Before(target, m, n)
        BY <3>2, <3>3, <3>4, <3>5, TargetFacts
      <3>7. order' \in {order, CatchAllLast(target)}
        BY <2>1, <3>1, <3>2, <3>3, <3>6, SentOrder
      <3>8. Before(CatchAllLast(target), m, n)
        BY <3>3, <3>5, <3>6, CatchAllLastFacts
      <3> QED
        BY <3>7, <3>8
    <2>5. CASE \E s \in Source : OtherOperator(s)
      BY <2>5 DEF OtherOperator
    <2> QED
      BY <2>2, <2>3, <2>4, <2>5, OrderMoves
  <1> QED
    BY <1>1, SourcesStrengthened, PTL DEF SourcesSpec, UnlistedKeepOrder
==============================================================================
