-------------------- MODULE ThresholdingAndSessionProofs --------------------
(***************************************************************************)
(* The safety of thresholding applies beside other writers, for any number *)
(* of groups, packages and acts of others: no update is lost, rows are     *)
(* true, packages that were written have their groups, and a deletion that *)
(* was not forced leaves no package behind that it could have known of.    *)
(*                                                                         *)
(* In the second half, invocations of onmsctl: for any configuration,      *)
(* shell, verb and options, and any number of acts of others and of        *)
(* repetitions, what Session claims of them holds.  It begins with what is *)
(* true of every verb's program; then comes the inductive invariant        *)
(* Strong, which says what a command still owes by the steps it has left;  *)
(* then what each step does to it.                                         *)
(***************************************************************************)
EXTENDS ThresholdingApply, Session, FiniteSetTheorems, SequenceTheorems, WellFoundedInduction, TLAPS

AnyBody == GroupBody \cup PackageBody \cup {Absent}
Deletion ==
    [step : {"idle", "reading", "deleting", "deleted", "ended"}, group : Group \cup {Absent},
     force : BOOLEAN, left : SUBSET Package, bound : SUBSET Package, etag : Nat]

\* The types in full, as functions and records.
Typed ==
    /\ TypeOK
    /\ store \in [Name -> AnyBody] /\ read \in [Name -> AnyBody]
    /\ deletion \in Deletion
    /\ deletion.step \in {"reading", "deleting", "deleted"} => deletion.group \in Group

\* What a plan knows of an object: an ETag that is still the server's vouches for the body
\* that was read with it, and it is the server's unless the object was written since.
PlanVouches ==
    \A n \in Name : plan[n] # NotYet =>
        /\ etag[n] <= version[n]
        /\ etag[n] = version[n] => read[n] = store[n]
        /\ n \notin disturbed \cup wrote => etag[n] = version[n]

\* And what it concluded from it.
PlanFollows ==
    \A n \in Name :
        /\ plan[n] = "create" => read[n] = Absent
        /\ plan[n] = "update" => read[n] # Absent
        /\ plan[n] = "none" => read[n] = Desired(n, read[n])

\* A document without a row has not been written; only packages are skipped.
RowsInOrder ==
    \A n \in Name :
        /\ row[n] = NotYet => n \notin wrote
        /\ row[n] = "Skipped" => n \in Package

\* The gate let no package through whose group is neither there nor declared.
GateKnowsGroups ==
    phase \in {"packages", "execute", "done"} =>
        \A p \in docs \cap Package :
            binds[p] \in docs \cup disturbed \/ store[binds[p]] # Absent

\* A deletion has seen every package that binds its group, but those changed meanwhile.
DeletionSees ==
    /\ deletion.step = "reading" =>
          \A p \in Package \ changed :
              store[p] # Absent /\ store[p].spec = deletion.group =>
                  p \in deletion.left \cup deletion.bound
    /\ deletion.step \in {"deleting", "deleted"} /\ ~deletion.force =>
          \A p \in Package \ changed : store[p] # Absent => store[p].spec # deletion.group

IInv ==
    /\ Typed
    /\ PlanVouches /\ PlanFollows
    /\ RowsAreTrue /\ RowsInOrder
    /\ GateKnowsGroups /\ WrittenPackageIsBound
    /\ DeletionSees

-----------------------------------------------------------------------------
(* What bodies are, and the initial states.                                 *)

LEMMA NamesApart == Group \cap Package = {} /\ Absent \notin GroupBody \cup PackageBody
BY ThresholdingAssumption DEF ThresholdingAssumption

\* A document's body fits its object and is not the absence of one.
LEMMA DesiredIsBody ==
    ASSUME binds \in [Package -> Group], NEW n \in Name, NEW live \in Body(n) \cup {Absent}
    PROVE  Desired(n, live) \in Body(n) /\ Desired(n, live) # Absent
<1>1. CASE n \in Group
  <2>1. live # Absent => live.calendars = FALSE
    BY <1>1 DEF Body, GroupBody
  <2>2. Desired(n, live) = [spec |-> "want", calendars |-> FALSE]
    BY <1>1, <2>1 DEF Desired, Declared
  <2>3. Desired(n, live) \in GroupBody
    BY <2>2 DEF GroupBody
  <2> QED BY <1>1, <2>3, NamesApart DEF Body
<1>2. CASE n \in Package
  <2>1. n \notin Group
    BY <1>2, NamesApart
  <2>2. live # Absent => live.calendars \in BOOLEAN
    BY <2>1 DEF Body, PackageBody
  <2>3. Desired(n, live) \in PackageBody
    BY <1>2, <2>1, <2>2 DEF Desired, Declared, PackageBody
  <2> QED BY <2>1, <2>3, NamesApart DEF Body
<1> QED BY <1>1, <1>2 DEF Name

LEMMA BodyIsAny == \A n \in Name : Body(n) \cup {Absent} \subseteq AnyBody
BY DEF Body, AnyBody

LEMMA InitIInv == Init => IInv
<1> SUFFICES ASSUME Init PROVE IInv
  OBVIOUS
<1> USE DEF Init
<1>1. Typed
  <2>1. TypeOK
    BY DEF TypeOK, Idle, NotYet, Failures
  <2>2. deletion \in Deletion
    BY DEF Deletion, Idle
  <2> QED BY <2>1, <2>2 DEF Typed, AnyBody, Idle
<1>2. PlanVouches /\ PlanFollows
  BY DEF PlanVouches, PlanFollows, NotYet
<1>3. RowsAreTrue /\ RowsInOrder
  BY DEF RowsAreTrue, RowsInOrder, NotYet
<1>4. GateKnowsGroups /\ WrittenPackageIsBound
  BY DEF GateKnowsGroups, WrittenPackageIsBound
<1>5. DeletionSees
  BY DEF DeletionSees, Idle
<1> QED BY <1>1, <1>2, <1>3, <1>4, <1>5 DEF IInv

-----------------------------------------------------------------------------
(* The apply: planning, the steps between phases, and rows without a write.  *)

LEMMA PlanOneIInv == ASSUME IInv, NEW n \in Name, PlanOne(n) PROVE IInv'
<1> USE DEF IInv, PlanOne, input, server, notes
<1>1. store[n] \in Body(n) \cup {Absent}
  BY DEF Typed, TypeOK
<1>2. PlannedAction(n, store[n]) \in {"create", "update", "none"}
  BY DEF PlannedAction
<1>3. /\ PlannedAction(n, store[n]) = "create" => store[n] = Absent
      /\ PlannedAction(n, store[n]) = "update" => store[n] # Absent
      /\ PlannedAction(n, store[n]) = "none" => store[n] = Desired(n, store[n])
  <2>1. store[n] = Absent => store[n] # Desired(n, store[n])
    BY <1>1, DesiredIsBody DEF Typed, TypeOK
  <2> QED BY <2>1 DEF PlannedAction
<1>4. Typed'
  <2>1. TypeOK'
    BY <1>1, <1>2 DEF Typed, TypeOK
  <2> QED BY <2>1, <1>1, BodyIsAny DEF Typed
<1>5. PlanVouches'
  BY DEF PlanVouches, Typed, TypeOK
<1>6. PlanFollows'
  BY <1>3 DEF PlanFollows, Typed, TypeOK, Desired, Declared
<1>7. RowsAreTrue' /\ RowsInOrder'
  BY DEF RowsAreTrue, RowsInOrder, Desired, Declared
<1>8. GateKnowsGroups' /\ WrittenPackageIsBound'
  BY DEF GateKnowsGroups, WrittenPackageIsBound
<1>9. DeletionSees'
  BY DEF DeletionSees
<1> QED BY <1>4, <1>5, <1>6, <1>7, <1>8, <1>9

\* The gate of the package handler establishes GateKnowsGroups.
LEMMA ListGroupsIInv == ASSUME IInv, ListGroups PROVE IInv'
<1> USE DEF IInv, ListGroups, input, server, planned, notes
<1>1. Typed'
  BY DEF Typed, TypeOK
<1>2. GateKnowsGroups'
  BY DEF GateKnowsGroups, Known
<1>3. PlanVouches' /\ PlanFollows' /\ RowsAreTrue' /\ RowsInOrder'
  BY DEF PlanVouches, PlanFollows, RowsAreTrue, RowsInOrder, Desired, Declared
<1>4. WrittenPackageIsBound' /\ DeletionSees'
  BY DEF WrittenPackageIsBound, DeletionSees
<1> QED BY <1>1, <1>2, <1>3, <1>4

LEMMA PhaseIInv == ASSUME IInv, PlanFails \/ StartExecute \/ Finish PROVE IInv'
<1> USE DEF IInv, PlanFails, StartExecute, Finish, input, server, planned, notes
<1>1. Typed'
  BY DEF Typed, TypeOK
<1>2. GateKnowsGroups'
  BY DEF GateKnowsGroups
<1>3. PlanVouches' /\ PlanFollows' /\ RowsAreTrue' /\ RowsInOrder'
  BY DEF PlanVouches, PlanFollows, RowsAreTrue, RowsInOrder, Desired, Declared
<1>4. WrittenPackageIsBound' /\ DeletionSees'
  BY DEF WrittenPackageIsBound, DeletionSees
<1> QED BY <1>1, <1>2, <1>3, <1>4

LEMMA NoWriteIInv == ASSUME IInv, NEW n \in Name, NoWrite(n) PROVE IInv'
<1> USE DEF IInv, Ready, SetRow, input, server, planned, notes
<1>1. n \in docs /\ row[n] = NotYet /\ n \notin wrote
  BY DEF NoWrite, RowsInOrder
<1>2. PICK r \in {"Skipped", "Unchanged"} :
        /\ row' = [row EXCEPT ![n] = r]
        /\ r = "Skipped" => n \in Package
        /\ r = "Unchanged" => plan[n] = "none"
  <2>1. CASE n \in Package /\ Halted /\ SetRow(n, "Skipped")
    BY <2>1
  <2>2. CASE plan[n] = "none" /\ SetRow(n, "Unchanged")
    BY <2>2
  <2> QED BY <2>1, <2>2 DEF NoWrite
<1>3. UNCHANGED <<input, server, phase, planned, wrote, deletion, notes>>
  BY DEF NoWrite
<1>4. r = "Unchanged" /\ n \notin disturbed => store[n] = Desired(n, store[n])
  BY <1>1, <1>2 DEF PlanVouches, PlanFollows, NotYet
<1>5. Typed'
  BY <1>2, <1>3 DEF Typed, TypeOK
<1>6. RowsAreTrue'
  <2>1. \A m \in Name : Desired(m, store[m])' = Desired(m, store[m])
    BY <1>3 DEF Desired, Declared
  <2>2. \A m \in docs \ {n} : row'[m] = row[m]
    BY <1>2 DEF Typed, TypeOK
  <2>3. row'[n] = r
    BY <1>2 DEF Typed, TypeOK
  <2>4. docs \subseteq Name
    BY DEF Typed, TypeOK
  <2>5. ASSUME NEW m \in docs
        PROVE  /\ row'[m] \in {"Created", "Updated", "Unchanged"} /\ m \notin disturbed =>
                      store[m] = Desired(m, store[m])
               /\ row'[m] \in {"changed since plan", "created since plan", "Skipped", "Unchanged"} =>
                      m \notin wrote
               /\ row'[m] \in {"changed since plan", "created since plan"} => m \in disturbed
    <3>1. CASE m = n
      BY <3>1, <2>3, <1>1, <1>2, <1>4
    <3>2. CASE m # n
      BY <3>2, <2>2 DEF RowsAreTrue
    <3> QED BY <3>1, <3>2
  <2> QED BY <2>1, <2>4, <2>5, <1>3 DEF RowsAreTrue
<1>7. RowsInOrder'
  BY <1>1, <1>2, <1>3 DEF RowsInOrder, Typed, TypeOK, NotYet
<1>8. PlanVouches' /\ PlanFollows'
  BY <1>3 DEF PlanVouches, PlanFollows, Desired, Declared
<1>9. GateKnowsGroups' /\ WrittenPackageIsBound' /\ DeletionSees'
  BY <1>3 DEF GateKnowsGroups, WrittenPackageIsBound, DeletionSees
<1> QED BY <1>5, <1>6, <1>7, <1>8, <1>9

-----------------------------------------------------------------------------
(* Changes by others.  A Put of theirs is noted in "disturbed", and in       *)
(* "changed" once a deletion is under way.                                   *)

\* A step of the deletion alone disturbs what is said of the deletion, and nothing else.
LEMMA DeletionOnly ==
    ASSUME IInv, UNCHANGED <<input, server, phase, planned, row, wrote, notes>>,
           Typed', DeletionSees'
    PROVE  IInv'
<1> USE DEF IInv, input, server, planned, notes
<1>1. PlanVouches' /\ PlanFollows' /\ RowsInOrder'
  BY DEF PlanVouches, PlanFollows, RowsInOrder, Desired, Declared
<1>2. RowsAreTrue'
  BY DEF RowsAreTrue, Desired, Declared
<1>3. GateKnowsGroups' /\ WrittenPackageIsBound'
  BY DEF GateKnowsGroups, WrittenPackageIsBound
<1> QED BY <1>1, <1>2, <1>3

\* What is put while a deletion is under way is changed, and no longer its concern.
LEMMA PutSparesDeletion ==
    ASSUME IInv, NEW n \in Name, NEW body, Put(n, body), deletion' = deletion
    PROVE  DeletionSees'
<1>1. CASE deletion = Idle
  BY <1>1 DEF DeletionSees, Idle
<1>2. CASE deletion # Idle
  <2>1. changed' = changed \cup {n}
    BY <1>2 DEF Put
  <2>2. \A m \in Name \ {n} : store'[m] = store[m]
    BY DEF Put, IInv, Typed
  <2> QED BY <2>1, <2>2 DEF IInv, DeletionSees, Name
<1> QED BY <1>1, <1>2

\* What such a Put leaves of the apply's part of the invariant.
LEMMA PutByOthers ==
    ASSUME IInv, NEW n \in Name, NEW body \in Body(n) \cup {Absent}, Put(n, body),
           disturbed' = disturbed \cup {n}, UNCHANGED <<input, phase, planned, row, wrote>>
    PROVE  /\ \A m \in Name : store'[m] \in Body(m) \cup {Absent}
           /\ store' \in [Name -> AnyBody] /\ version' \in [Name -> Nat]
           /\ changed' \subseteq Name /\ disturbed' \subseteq Name
           /\ PlanVouches' /\ PlanFollows' /\ RowsAreTrue' /\ RowsInOrder'
           /\ GateKnowsGroups' /\ WrittenPackageIsBound'
<1> USE DEF IInv, input, planned
<1>1. /\ store' = [store EXCEPT ![n] = body] /\ version' = [version EXCEPT ![n] = @ + 1]
      /\ changed' \subseteq changed \cup {n}
  BY DEF Put
<1>2. /\ \A m \in Name : store'[m] \in Body(m) \cup {Absent}
      /\ store' \in [Name -> AnyBody] /\ version' \in [Name -> Nat]
      /\ changed' \subseteq Name /\ disturbed' \subseteq Name
  BY <1>1, BodyIsAny DEF Typed, TypeOK
<1>3. \A m \in Name \ {n} : store'[m] = store[m] /\ version'[m] = version[m]
  BY <1>1 DEF Typed, TypeOK
<1>4. PlanVouches'
  <2>1. version'[n] = version[n] + 1 /\ version[n] \in Nat /\ etag[n] \in Nat
    BY <1>1 DEF Typed, TypeOK
  <2> QED BY <1>3, <2>1 DEF PlanVouches
<1>5. PlanFollows' /\ RowsInOrder'
  BY DEF PlanFollows, RowsInOrder, Desired, Declared
<1>6. RowsAreTrue'
  <2>1. \A m \in Name \ {n} : Desired(m, store[m])' = Desired(m, store[m])
    BY <1>3 DEF Desired, Declared
  <2> QED BY <1>3, <2>1 DEF RowsAreTrue, Typed, TypeOK
<1>7. GateKnowsGroups' /\ WrittenPackageIsBound'
  <2>1. \A p \in Package : binds[p] \in Name
    BY DEF Typed, TypeOK, Name
  <2> QED BY <1>3, <2>1 DEF GateKnowsGroups, WrittenPackageIsBound, Typed, TypeOK
<1> QED BY <1>2, <1>4, <1>5, <1>6, <1>7

LEMMA OtherOperatorIInv == ASSUME IInv, NEW n \in Name, OtherOperator(n) PROVE IInv'
<1>1. PICK body \in Body(n) \cup {Absent} : Put(n, body)
  BY DEF OtherOperator
<1>2. /\ disturbed' = disturbed \cup {n}
      /\ UNCHANGED <<input, phase, planned, row, wrote>> /\ deletion' = deletion
  BY DEF OtherOperator
<1>3. /\ \A m \in Name : store'[m] \in Body(m) \cup {Absent}
      /\ store' \in [Name -> AnyBody] /\ version' \in [Name -> Nat]
      /\ changed' \subseteq Name /\ disturbed' \subseteq Name
      /\ PlanVouches' /\ PlanFollows' /\ RowsAreTrue' /\ RowsInOrder'
      /\ GateKnowsGroups' /\ WrittenPackageIsBound'
  BY <1>1, <1>2, PutByOthers
<1>4. Typed'
  BY <1>2, <1>3 DEF IInv, Typed, TypeOK, input, planned
<1>5. DeletionSees'
  BY <1>1, <1>2, PutSparesDeletion DEF IInv
<1> QED BY <1>3, <1>4, <1>5 DEF IInv

LEMMA ListPackagesIInv == ASSUME IInv, NEW g \in Group, ListPackages(g) PROVE IInv'
<1> USE DEF IInv, ListPackages, input, server, planned, notes
<1>1. /\ deletion'.step = "reading" /\ deletion'.group = g
      /\ deletion'.left = {p \in Package : store[p] # Absent} /\ deletion' \in Deletion
  BY DEF Deletion, Idle
<1>2. Typed'
  BY <1>1 DEF Typed, TypeOK, Deletion
<1>3. DeletionSees'
  BY <1>1 DEF DeletionSees
<1> QED BY <1>2, <1>3, DeletionOnly

LEMMA ReadPackageIInv == ASSUME IInv, NEW p \in Package, ReadPackage(p) PROVE IInv'
<1> USE DEF IInv, ReadPackage, input, server, planned, notes
<1>1. /\ deletion'.step = "reading" /\ deletion'.group = deletion.group
      /\ deletion'.left = deletion.left \ {p} /\ deletion' \in Deletion
      /\ deletion'.bound = IF store[p] # Absent /\ store[p].spec = deletion.group
                           THEN deletion.bound \cup {p} ELSE deletion.bound
  BY DEF Typed, Deletion
<1>2. Typed'
  BY <1>1 DEF Typed, TypeOK, Deletion
<1>3. DeletionSees'
  BY <1>1 DEF DeletionSees
<1> QED BY <1>2, <1>3, DeletionOnly

LEMMA CheckBoundIInv == ASSUME IInv, CheckBound PROVE IInv'
<1> USE DEF IInv, CheckBound, input, server, planned, notes
<1>1. PICK force \in BOOLEAN :
        deletion' =
            IF Refused(deletion.bound, force) \/ store[deletion.group] = Absent THEN Ended
            ELSE [deletion EXCEPT !.step = "deleting", !.bound = {}, !.force = force,
                                  !.etag = version[deletion.group]]
  OBVIOUS
<1>2. CASE deletion' = Ended
  <2>1. deletion' \in Deletion /\ deletion'.step = "ended"
    BY <1>2 DEF Ended, Idle, Deletion
  <2>2. Typed' /\ DeletionSees'
    BY <2>1 DEF Typed, TypeOK, Deletion, DeletionSees
  <2> QED BY <2>2, DeletionOnly
<1>3. CASE ~Refused(deletion.bound, force) /\ store[deletion.group] # Absent
  <2>1. version[deletion.group] \in Nat
    BY DEF Typed, TypeOK, Name
  <2>2. /\ deletion' \in Deletion /\ deletion'.step = "deleting"
        /\ deletion'.group = deletion.group /\ deletion'.force = force
    BY <1>1, <1>3, <2>1 DEF Typed, Deletion
  <2>3. ~force => deletion.bound = {}
    BY <1>3 DEF Refused
  <2>4. Typed'
    BY <2>2 DEF Typed, TypeOK, Deletion
  <2>5. DeletionSees'
    BY <2>2, <2>3 DEF DeletionSees
  <2> QED BY <2>4, <2>5, DeletionOnly
<1> QED BY <1>1, <1>2, <1>3

LEMMA DeleteGroupIInv == ASSUME IInv, DeleteGroup PROVE IInv'
<1> DEFINE g == deletion.group
<1>1. deletion.step = "deleting" /\ g \in Group /\ g \in Name
  BY DEF IInv, Typed, DeleteGroup, Name
<1>2. CASE /\ Put(g, Absent) /\ disturbed' = disturbed \cup {g}
           /\ deletion' = [deletion EXCEPT !.step = "deleted"]
  <2>1. UNCHANGED <<input, phase, planned, row, wrote>>
    BY DEF DeleteGroup
  <2>2. /\ \A m \in Name : store'[m] \in Body(m) \cup {Absent}
        /\ store' \in [Name -> AnyBody] /\ version' \in [Name -> Nat]
        /\ changed' \subseteq Name /\ disturbed' \subseteq Name
        /\ PlanVouches' /\ PlanFollows' /\ RowsAreTrue' /\ RowsInOrder'
        /\ GateKnowsGroups' /\ WrittenPackageIsBound'
    BY <1>1, <1>2, <2>1, PutByOthers
  <2>3. /\ deletion' \in Deletion /\ deletion'.step = "deleted"
        /\ deletion'.group = g /\ deletion'.force = deletion.force
    BY <1>2 DEF IInv, Typed, Deletion
  <2>4. Typed'
    BY <1>1, <2>1, <2>2, <2>3 DEF IInv, Typed, TypeOK, input, planned, Deletion
  <2>5. DeletionSees'
    <3>1. changed \subseteq changed'
      BY <1>1, <1>2 DEF Put, Idle
    <3>2. \A p \in Package : store'[p] = store[p]
      BY <1>1, <1>2, NamesApart DEF Put, IInv, Typed, Name
    <3> QED BY <1>1, <2>3, <3>1, <3>2 DEF IInv, DeletionSees
  <2> QED BY <2>2, <2>4, <2>5 DEF IInv
<1>3. CASE deletion' = Ended /\ UNCHANGED <<server, notes>>
  <2>1. UNCHANGED <<input, server, phase, planned, row, wrote, notes>>
    BY <1>3 DEF DeleteGroup
  <2>2. deletion' \in Deletion /\ deletion'.step = "ended"
    BY <1>3 DEF Ended, Idle, Deletion
  <2>3. Typed' /\ DeletionSees'
    BY <2>1, <2>2 DEF IInv, Typed, TypeOK, Deletion, DeletionSees, input, server, planned, notes
  <2> QED BY <2>1, <2>3, DeletionOnly
<1> QED BY <1>2, <1>3 DEF DeleteGroup

-----------------------------------------------------------------------------
(* The writes of the apply.                                                  *)

\* What a write finds: its document is planned, and without a row or a write so far.
LEMMA BeforeWrite ==
    ASSUME IInv, NEW n \in Name, Write(n)
    PROVE  /\ n \in docs /\ row[n] = NotYet /\ n \notin wrote
           /\ plan[n] \in {"create", "update"} /\ phase = "execute"
           /\ UNCHANGED <<input, phase, planned, deletion, disturbed>>
           /\ read[n] \in Body(n) \cup {Absent}
BY DEF Write, Ready, IInv, RowsInOrder, Typed, TypeOK

\* A request is served only over the body that was read: a create over none, an update
\* over the version whose ETag it carries.
LEMMA ServedOverRead ==
    ASSUME IInv, NEW n \in Name, plan[n] \in {"create", "update"},
           IF plan[n] = "create" THEN store[n] = Absent ELSE Matches(n)
    PROVE  store[n] = read[n] /\ (plan[n] = "create" <=> store[n] = Absent)
BY DEF IInv, PlanVouches, PlanFollows, Matches, NotYet

\* A request that was not served, or whose answer did not arrive.
LEMMA UnservedIInv ==
    ASSUME IInv, NEW n \in Name, Write(n), NEW r \in Failures, row' = [row EXCEPT ![n] = r],
           UNCHANGED <<server, wrote, changed>>,
           r # "failed" => n \in disturbed
    PROVE  IInv'
<1> USE DEF IInv, input, server, planned
<1>1. /\ n \in docs /\ n \notin wrote
      /\ UNCHANGED <<input, phase, planned, deletion, disturbed>>
  BY BeforeWrite
<1>2. r \in {"failed", "changed since plan", "created since plan"}
  BY DEF Failures
<1>3. Typed'
  BY <1>1, <1>2 DEF Typed, TypeOK, Failures
<1>4. RowsAreTrue'
  <2>1. \A m \in Name : Desired(m, store[m])' = Desired(m, store[m])
    BY <1>1 DEF Desired, Declared
  <2>2. docs \subseteq Name /\ \A m \in docs \ {n} : row'[m] = row[m]
    BY DEF Typed, TypeOK
  <2>3. row'[n] = r
    BY DEF Typed, TypeOK
  <2> QED BY <1>1, <1>2, <2>1, <2>2, <2>3 DEF RowsAreTrue
<1>5. RowsInOrder'
  BY <1>1, <1>2 DEF RowsInOrder, Typed, TypeOK, NotYet
<1>6. PlanVouches' /\ PlanFollows'
  BY <1>1 DEF PlanVouches, PlanFollows, Desired, Declared
<1>7. GateKnowsGroups' /\ WrittenPackageIsBound' /\ DeletionSees'
  BY <1>1 DEF GateKnowsGroups, WrittenPackageIsBound, DeletionSees
<1> QED BY <1>3, <1>4, <1>5, <1>6, <1>7

\* A request that was served, whatever the client saw of it.
LEMMA ServedIInv ==
    ASSUME IInv, NEW n \in Name, Write(n), NEW r \in {"Created", "Updated", "failed"},
           IF plan[n] = "create" THEN store[n] = Absent ELSE Matches(n),
           Put(n, Desired(n, read[n])), row' = [row EXCEPT ![n] = r], wrote' = wrote \cup {n}
    PROVE  IInv'
<1> USE DEF IInv, input, planned
<1>1. /\ n \in docs /\ n \notin wrote /\ row[n] = NotYet /\ phase = "execute"
      /\ plan[n] \in {"create", "update"}
      /\ UNCHANGED <<input, phase, planned, deletion, disturbed>>
      /\ read[n] \in Body(n) \cup {Absent}
  BY BeforeWrite
<1>2. /\ store' = [store EXCEPT ![n] = Desired(n, read[n])]
      /\ version' = [version EXCEPT ![n] = @ + 1] /\ changed' \subseteq changed \cup {n}
  BY DEF Put
<1>3. Desired(n, read[n]) \in Body(n) /\ Desired(n, read[n]) # Absent
  BY <1>1, DesiredIsBody DEF Typed, TypeOK
<1>4. /\ store'[n] = Desired(n, read[n]) /\ row'[n] = r /\ version'[n] = version[n] + 1
      /\ \A m \in Name \ {n} :
            store'[m] = store[m] /\ version'[m] = version[m] /\ row'[m] = row[m]
  BY <1>2 DEF Typed, TypeOK
<1>5. Typed'
  <2>1. r \in {NotYet, "Created", "Updated", "Unchanged", "Skipped"} \cup Failures
    BY DEF Failures
  <2>2. \A m \in Name : store'[m] \in Body(m) \cup {Absent}
    BY <1>3, <1>4 DEF Typed, TypeOK
  <2>3. version' \in [Name -> Nat] /\ changed' \subseteq Name
    BY <1>2 DEF Typed, TypeOK
  <2>4. TypeOK'
    BY <1>1, <2>1, <2>2, <2>3 DEF Typed, TypeOK
  <2>5. store' \in [Name -> AnyBody]
    BY <1>2, <1>3, BodyIsAny DEF Typed
  <2> QED BY <1>1, <2>4, <2>5 DEF Typed, Deletion
<1>6. PlanVouches'
  <2>1. version[n] \in Nat /\ etag[n] \in Nat
    BY DEF Typed, TypeOK
  <2> QED BY <1>1, <1>4, <2>1 DEF PlanVouches
<1>7. PlanFollows'
  BY <1>1 DEF PlanFollows, Desired, Declared
<1>8. RowsAreTrue'
  <2>1. Desired(n, store[n])' = store'[n]
    <3> DEFINE carried == IF read[n] = Absent THEN FALSE ELSE read[n].calendars
    <3>1. store'[n] = [spec |-> Declared(n), calendars |-> carried] /\ store'[n] # Absent
      BY <1>3, <1>4 DEF Desired
    <3>2. Desired(n, store[n])' = [spec |-> Declared(n), calendars |-> store'[n].calendars]
      BY <1>1, <3>1 DEF Desired, Declared
    <3>3. store'[n].calendars = carried
      BY <3>1
    <3> QED BY <3>1, <3>2, <3>3
  <2>2. \A m \in Name \ {n} : Desired(m, store[m])' = Desired(m, store[m])
    BY <1>1, <1>4 DEF Desired, Declared
  <2>3. docs \subseteq Name
    BY DEF Typed, TypeOK
  <2> QED BY <1>1, <1>4, <2>1, <2>2, <2>3 DEF RowsAreTrue
<1>9. RowsInOrder'
  BY <1>1, <1>4 DEF RowsInOrder, NotYet
<1>10. GateKnowsGroups'
  <2>1. \A p \in Package : binds[p] \in Name
    BY DEF Typed, TypeOK, Name
  <2> QED BY <1>1, <1>3, <1>4, <2>1 DEF GateKnowsGroups
<1>11. WrittenPackageIsBound'
  <2>1. \A p \in Package : binds[p] \in Name /\ binds[p] \in Group
    BY DEF Typed, TypeOK, Name
  <2>2. ASSUME n \in Package, ~keepGoing, binds[n] \notin disturbed
        PROVE  store[binds[n]] # Absent
    <3> DEFINE g == binds[n]
    <3>1. g \in docs \/ store[g] # Absent
      BY <1>1, <2>2 DEF GateKnowsGroups
    <3>2. ASSUME g \in docs PROVE store[g] # Absent
      <4>1. row[g] # NotYet /\ row[g] \notin Failures /\ row[g] # "Skipped"
        BY <2>1, <2>2, <3>2, NamesApart DEF Write, Ready, Halted, RowsInOrder
      <4>2. row[g] \in {"Created", "Updated", "Unchanged"}
        BY <2>1, <2>2, <4>1 DEF Typed, TypeOK
      <4>3. store[g] = Desired(g, store[g])
        BY <2>2, <3>2, <4>2 DEF RowsAreTrue
      <4> QED BY <2>1, <2>2, <4>3, DesiredIsBody DEF Typed, TypeOK
    <3> QED BY <3>1, <3>2
  <2>3. n \in Package => binds[n] # n
    BY <2>1, NamesApart
  <2> QED BY <1>1, <1>3, <1>4, <2>1, <2>2, <2>3 DEF WrittenPackageIsBound
<1>12. DeletionSees'
  BY <1>1, PutSparesDeletion
<1> QED BY <1>5, <1>6, <1>7, <1>8, <1>9, <1>10, <1>11, <1>12

LEMMA WriteIInv == ASSUME IInv, NEW n \in Name, Write(n) PROVE IInv'
<1> DEFINE free == IF plan[n] = "create" THEN store[n] = Absent ELSE Matches(n)
<1>1. /\ n \in docs /\ n \notin wrote /\ plan[n] \in {"create", "update"}
  BY BeforeWrite
<1>2. CASE /\ free /\ Put(n, Desired(n, read[n])) /\ wrote' = wrote \cup {n}
           /\ SetRow(n, Success(plan[n])) \/ SetRow(n, "failed")
  <2>1. Success(plan[n]) \in {"Created", "Updated"}
    BY <1>1 DEF Success
  <2> QED BY <1>2, <2>1, ServedIInv DEF SetRow
<1>3. CASE /\ ~free
           /\ SetRow(n, CASE plan[n] = "create" -> "created since plan"
                            [] store[n] = Absent -> "failed"
                            [] OTHER -> "changed since plan")
           /\ UNCHANGED <<server, wrote, changed>>
  <2> DEFINE r == CASE plan[n] = "create" -> "created since plan"
                    [] store[n] = Absent -> "failed"
                    [] OTHER -> "changed since plan"
  <2>1. r \in Failures
    BY DEF Failures
  <2>2. r # "failed" => n \in disturbed
    BY <1>1, <1>3 DEF IInv, PlanVouches, PlanFollows, Matches, NotYet
  <2>3. row' = [row EXCEPT ![n] = r] /\ UNCHANGED <<server, wrote, changed>>
    BY <1>3 DEF SetRow
  <2> HIDE DEF r
  <2> QED BY <2>1, <2>2, <2>3, UnservedIInv
<1>4. CASE SetRow(n, "failed") /\ UNCHANGED <<server, wrote, changed>>
  BY <1>4, UnservedIInv DEF SetRow, Failures
<1> QED BY <1>2, <1>3, <1>4 DEF Write

LEMMA NextIInv == IInv /\ [Next]_vars => IInv'
<1> SUFFICES ASSUME IInv, [Next]_vars PROVE IInv'
  OBVIOUS
<1>1. CASE Apply
  BY <1>1, ListGroupsIInv, PhaseIInv, PlanOneIInv, NoWriteIInv, WriteIInv DEF Apply
<1>2. CASE \E n \in Name : OtherOperator(n)
  BY <1>2, OtherOperatorIInv
<1>3. CASE \/ \E g \in Group : ListPackages(g)
           \/ \E p \in Package : ReadPackage(p)
           \/ CheckBound \/ DeleteGroup
  BY <1>3, ListPackagesIInv, ReadPackageIInv, CheckBoundIInv, DeleteGroupIInv
<1>4. CASE UNCHANGED vars
  <2>1. UNCHANGED <<input, server, phase, planned, row, wrote, notes>> /\ deletion' = deletion
    BY <1>4 DEF vars
  <2>2. Typed' /\ DeletionSees'
    BY <2>1 DEF IInv, Typed, TypeOK, Deletion, DeletionSees, input, server, planned, notes
  <2> QED BY <2>1, <2>2, DeletionOnly
<1> QED BY <1>1, <1>2, <1>3, <1>4 DEF Next

-----------------------------------------------------------------------------
(* The theorems.                                                             *)

\* Every reachable state of an apply beside other writers is one of the invariant.
THEOREM Strengthened == Spec => []IInv
<1>1. Init => IInv
  BY InitIInv
<1>2. IInv /\ [Next]_vars => IInv'
  BY NextIInv
<1> QED BY <1>1, <1>2, PTL DEF Spec

\* Rows are true: what the handlers report of a group or package is on the server unless
\* somebody else changed it, and a 412 or 409 is reported only where somebody did.
THEOREM RowsHold == Spec => []ThresholdingInv
<1>1. IInv => ThresholdingInv
  BY DEF IInv, Typed, ThresholdingInv
<1> QED BY <1>1, Strengthened, PTL

\* A package that the apply wrote has its group: the gate and the order of the kinds
\* suffice, however the group requests end, unless --continue-on-error or somebody else
\* interferes.
THEOREM PackagesAreBound == Spec => []WrittenPackageIsBound
<1>1. IInv => WrittenPackageIsBound
  BY DEF IInv
<1> QED BY <1>1, Strengthened, PTL

\* An unforced `threshold group delete` that went through orphaned no package but one
\* that was changed after it had begun to look.
THEOREM DeletionIsSafe == Spec => []UnforcedDeleteIsSafe
<1>1. IInv => UnforcedDeleteIsSafe
  BY DEF IInv, DeletionSees, UnforcedDeleteIsSafe
<1> QED BY <1>1, Strengthened, PTL

\* No write of the apply overwrites what somebody else did since the plan, and calendars
\* that documents cannot declare survive it.
THEOREM UpdatesAreKept == Spec => NoLostUpdate
<1> DEFINE Kept == \A n \in wrote' \ wrote :
                      /\ store[n] = read[n]
                      /\ n \in Package /\ store[n] # Absent =>
                             store'[n].calendars = store[n].calendars
<1>1. ASSUME IInv, [Next]_vars PROVE Kept
  <2>1. SUFFICES ASSUME NEW n \in wrote' \ wrote PROVE
                    /\ store[n] = read[n]
                    /\ n \in Package /\ store[n] # Absent =>
                           store'[n].calendars = store[n].calendars
    OBVIOUS
  <2>2. PICK m \in Name : Write(m)
    BY <1>1, <2>1 DEF Next, Apply, vars, PlanOne, ListGroups, PlanFails, StartExecute, Finish,
       NoWrite, OtherOperator, ListPackages, ReadPackage, CheckBound, DeleteGroup
  <2>3. /\ wrote' = wrote \cup {m} /\ Put(m, Desired(m, read[m]))
        /\ IF plan[m] = "create" THEN store[m] = Absent ELSE Matches(m)
    BY <2>1, <2>2 DEF Write
  <2>4. m = n
    BY <2>1, <2>3
  <2>5. store[n] = read[n]
    BY <1>1, <2>2, <2>3, <2>4, BeforeWrite, ServedOverRead
  <2>6. store'[n] = Desired(n, store[n])
    BY <1>1, <2>3, <2>4, <2>5 DEF Put, IInv, Typed
  <2>7. store[n] # Absent =>
          Desired(n, store[n]) = [spec |-> Declared(n), calendars |-> store[n].calendars]
    BY DEF Desired
  <2> QED BY <2>5, <2>6, <2>7
<1>2. Spec => [][Kept]_vars
  BY <1>1, Strengthened, PTL DEF Spec
<1> QED BY <1>2 DEF NoLostUpdate

-----------------------------------------------------------------------------
\* ---- Invocations.  The steps that programs are made of.
Policies == {"each", "guarded", "files", "export"}
Missing ==
    {"NotFound", "goOn", "noop", "noAsk", "Config", "Usage", "ApplyGate", "UserNotFound",
     "IamWhoamiUnavailable"}
Bodies == {"decoded", "drained", "raw", "page", "upload", "whoami", "told", "rows"}
Parts == {"none", "object", "never", "pending", "deployed", "asset", "import", "password",
          "reload", "documents"} \cup Policies
AnyStep ==
    [do : {"get", "write", "remove", "check", "terminal", "ask", "report", "emit"},
     missing : Missing, body : Bodies, part : Parts, tolerant : BOOLEAN]

\* A step that changes nothing on the server, in a program that goes step by step.
Quiet == {s \in AnyStep : s.do \notin {"write", "remove", "emit"}
                             /\ s.missing \notin {"noop", "noAsk"}}
\* One that may write, too.
Sender ==
    Quiet \cup {s \in AnyStep : \/ /\ s.do = "write" /\ s.missing = "NotFound"
                                   /\ s.body \in {"drained", "upload", "rows"}
                                \/ /\ s.do = "remove" /\ s.missing \in {"NotFound", "goOn", "Config"}
                                   /\ s.body = "drained" /\ ~s.tolerant}
Emitter(p) == Quiet \cup {Emit(p)}

LEMMA PlainSteps ==
    /\ List \in Quiet /\ Page \in Quiet /\ GetEach \in Quiet /\ Check \in Quiet /\ Usage \in Quiet
    /\ Terminal \in Quiet /\ Ask \in Quiet /\ Report \in Quiet
    /\ \A m \in Missing \ {"noop", "noAsk"} : Get(m) \in Quiet /\ Find(m) \in Quiet /\ Raw(m) \in Quiet
BY DEF List, Page, GetEach, Check, Usage, Terminal, Ask, Report, Get, Find, Raw, Quiet, AnyStep, Step,
       Missing, Bodies, Parts

LEMMA OtherSteps ==
    /\ Unimplemented \in Quiet
    /\ GetWhoami \in Quiet /\ ExportOne \in Quiet /\ FetchAll \in Quiet
    /\ [FilterSources EXCEPT !.missing = "Config"] \in Quiet
    /\ [Preflight EXCEPT !.part = "none"] \in Quiet
    /\ [FetchAll EXCEPT !.part = "none"] \in Quiet
    /\ Gate \in Quiet
BY DEF List, Page, Check, Get, Find, Raw, Quiet, AnyStep, Step, Missing, Bodies, Parts,
       Unimplemented, GetWhoami, ExportOne, FetchAll, FilterSources, Preflight, Gate, DownloadSourceXml

LEMMA SendingSteps ==
    /\ \A p \in Parts : Store(p) \in Sender /\ Remove(p) \in Sender /\ Purge(p) \in Sender
    /\ UploadSources \in Sender
    /\ [Reload EXCEPT !.tolerant = TRUE] \in Sender
    /\ [Store("documents") EXCEPT !.body = "rows"] \in Sender
    /\ [Remove("object") EXCEPT !.missing = "Config"] \in Sender
<1> USE DEF Sender, AnyStep, Step, Missing, Bodies, Parts
<1>1. ASSUME NEW p \in Parts PROVE Store(p) \in Sender
  BY <1>1 DEF Store
<1>2. ASSUME NEW p \in Parts PROVE Remove(p) \in Sender
  BY <1>2 DEF Remove
<1>3. ASSUME NEW p \in Parts PROVE Purge(p) \in Sender
  BY <1>3 DEF Remove, Purge
<1>4. UploadSources \in Sender
  BY DEF UploadSources, Store
<1>5. [Reload EXCEPT !.tolerant = TRUE] \in Sender
  BY DEF Reload, Store
<1>6. [Store("documents") EXCEPT !.body = "rows"] \in Sender
  BY DEF Store
<1>7. [Remove("object") EXCEPT !.missing = "Config"] \in Sender
  BY DEF Remove
<1> QED BY <1>1, <1>2, <1>3, <1>4, <1>5, <1>6, <1>7

LEMMA Tuples ==
    ASSUME NEW S
    PROVE  /\ << >> \in Seq(S)
           /\ \A a \in S : <<a>> \in Seq(S)
           /\ \A a, b \in S : <<a, b>> \in Seq(S)
           /\ \A a, b, c \in S : <<a, b, c>> \in Seq(S)
           /\ \A a, b, c, d \in S : <<a, b, c, d>> \in Seq(S)
           /\ \A s, t \in Seq(S) : s \o t \in Seq(S)
OBVIOUS

LEMMA Dispatch ==
    ASSUME NEW v, NEW o
    PROVE  /\ v \in RequisitionVerbs => Steps(v, o) = RequisitionSteps(v, o)
           /\ v \in NodeVerbs \cup InterfaceVerbs \cup ServiceVerbs \cup CategoryVerbs => Steps(v, o) = PartSteps(v)
           /\ v \in AssetVerbs => Steps(v, o) = AssetSteps(v)
           /\ v \in SourceVerbs => Steps(v, o) = SourceSteps(v, o)
           /\ v \in EventVerbs => Steps(v, o) = EventList(o)
           /\ v \in IamVerbs => Steps(v, o) = IamSteps(v, o)
           /\ v \in SnmpVerbs => Steps(v, o) = SnmpSteps(v, o)
           /\ v \in MaintenanceVerbs => Steps(v, o) = MaintenanceSteps(v)
           /\ v \in DatacollectionVerbs => Steps(v, o) = DatacollectionSteps(v, o)
           /\ v \in BusinessServiceVerbs => Steps(v, o) = BusinessServiceSteps(v)
           /\ v \in ThresholdVerbs => Steps(v, o) = ThresholdSteps(v, o)
           /\ v \in GraphVerbs => Steps(v, o) = GraphSteps(v)
           /\ v \in ApplyVerbs => Steps(v, o) = RunApply(v)
           /\ v \in {"config use-context"} => Steps(v, o) = UseContext
           /\ v \in {"config view"} => Steps(v, o) = << >>
<1> USE DEF RequisitionVerbs, NodeVerbs, InterfaceVerbs, ServiceVerbs, CategoryVerbs, AssetVerbs, SourceVerbs, EventVerbs, IamVerbs, SnmpVerbs, MaintenanceVerbs, DatacollectionVerbs, BusinessServiceVerbs, ThresholdVerbs, GraphVerbs, ApplyVerbs
<1>1. v \in RequisitionVerbs => Steps(v, o) = RequisitionSteps(v, o)
  BY DEF Steps
<1>2. v \in NodeVerbs \cup InterfaceVerbs \cup ServiceVerbs \cup CategoryVerbs => Steps(v, o) = PartSteps(v)
  BY DEF Steps
<1>3. v \in AssetVerbs => Steps(v, o) = AssetSteps(v)
  BY DEF Steps
<1>4. v \in SourceVerbs => Steps(v, o) = SourceSteps(v, o)
  BY DEF Steps
<1>5. v \in EventVerbs => Steps(v, o) = EventList(o)
  BY DEF Steps
<1>6. v \in IamVerbs => Steps(v, o) = IamSteps(v, o)
  BY DEF Steps
<1>7. v \in SnmpVerbs => Steps(v, o) = SnmpSteps(v, o)
  BY DEF Steps
<1>8. v \in MaintenanceVerbs => Steps(v, o) = MaintenanceSteps(v)
  BY DEF Steps
<1>9. v \in DatacollectionVerbs => Steps(v, o) = DatacollectionSteps(v, o)
  BY DEF Steps
<1>10. v \in BusinessServiceVerbs => Steps(v, o) = BusinessServiceSteps(v)
  BY DEF Steps
<1>11. v \in ThresholdVerbs => Steps(v, o) = ThresholdSteps(v, o)
  BY DEF Steps
<1>12. v \in GraphVerbs => Steps(v, o) = GraphSteps(v)
  BY DEF Steps
<1>13. v \in ApplyVerbs => Steps(v, o) = RunApply(v)
  BY DEF Steps
<1>14. v \in {"config use-context"} => Steps(v, o) = UseContext
  BY DEF Steps
<1>15. v \in {"config view"} => Steps(v, o) = << >>
  BY DEF Steps
<1> QED BY <1>1, <1>2, <1>3, <1>4, <1>5, <1>6, <1>7, <1>8, <1>9, <1>10, <1>11, <1>12, <1>13, <1>14, <1>15

-----------------------------------------------------------------------------
QuietIam == {"iam whoami", "iam group", "user list", "user get", "user export"}

LEMMA EmittingSteps ==
    \A p : Quiet \subseteq Emitter(p) /\ Emit(p) \in Emitter(p) /\ Quiet \subseteq Sender
BY DEF Emitter, Sender

LEMMA Joining ==
    ASSUME NEW a, NEW b, NEW c
    PROVE  /\ <<a>> \o <<b, c>> = <<a, b, c>> /\ <<a, b>> \o <<c>> = <<a, b, c>>
           /\ <<a>> \o <<b>> = <<a, b>>
<1> DEFINE S == {a, b, c}
<1>1. <<a>> \in Seq(S) /\ <<a, b>> \in Seq(S) /\ <<c>> \in Seq(S) /\ <<b, c>> \in Seq(S)
      /\ <<a, b, c>> \in Seq(S) /\ <<b>> \in Seq(S)
  OBVIOUS
<1> HIDE DEF S
<1>2. <<a>> \o <<b, c>> = <<a, b, c>>
  <2>1. <<a>> \o <<b, c>> \in Seq(S)
    BY <1>1
  <2>2. Len(<<a>> \o <<b, c>>) = 3
    OBVIOUS
  <2>3. \A i \in 1..3 : (<<a>> \o <<b, c>>)[i] = <<a, b, c>>[i]
    OBVIOUS
  <2> QED BY <1>1, <2>1, <2>2, <2>3, SeqEqual
<1>3. <<a, b>> \o <<c>> = <<a, b, c>>
  <2>1. <<a, b>> \o <<c>> \in Seq(S)
    BY <1>1
  <2>2. Len(<<a, b>> \o <<c>>) = 3
    OBVIOUS
  <2>3. \A i \in 1..3 : (<<a, b>> \o <<c>>)[i] = <<a, b, c>>[i]
    OBVIOUS
  <2> QED BY <1>1, <2>1, <2>2, <2>3, SeqEqual
<1>4. <<a>> \o <<b>> = <<a, b>>
  <2>1. <<a>> \o <<b>> \in Seq(S)
    BY <1>1
  <2>2. Len(<<a>> \o <<b>>) = 2
    OBVIOUS
  <2>3. \A i \in 1..2 : (<<a>> \o <<b>>)[i] = <<a, b>>[i]
    OBVIOUS
  <2> QED BY <1>1, <2>1, <2>2, <2>3, SeqEqual
<1> QED BY <1>2, <1>3, <1>4

LEMMA JoiningFour ==
    ASSUME NEW a, NEW b, NEW c, NEW d
    PROVE  <<a, b, c>> \o <<d>> = <<a, b, c, d>>
<1> DEFINE S == {a, b, c, d}
<1>1. <<a, b, c>> \in Seq(S) /\ <<d>> \in Seq(S) /\ <<a, b, c, d>> \in Seq(S)
  OBVIOUS
<1>2. Len(<<a, b, c>> \o <<d>>) = 4 /\ Len(<<a, b, c, d>>) = 4
  OBVIOUS
<1>3. \A i \in 1..4 : (<<a, b, c>> \o <<d>>)[i] = <<a, b, c, d>>[i]
  OBVIOUS
<1> HIDE DEF S
<1>4. <<a, b, c>> \o <<d>> \in Seq(S)
  BY <1>1, ConcatProperties
<1> QED BY <1>1, <1>2, <1>3, <1>4, SeqEqual

LEMMA JoiningFive ==
    ASSUME NEW a, NEW b, NEW c, NEW d, NEW e
    PROVE  <<a, b, c>> \o <<d, e>> = <<a, b, c, d, e>>
<1> DEFINE S == {a, b, c, d, e}
<1>1. <<a, b, c>> \in Seq(S) /\ <<d, e>> \in Seq(S) /\ <<a, b, c, d, e>> \in Seq(S)
  OBVIOUS
<1>2. Len(<<a, b, c>> \o <<d, e>>) = 5 /\ Len(<<a, b, c, d, e>>) = 5
  OBVIOUS
<1>3. \A i \in 1..5 : (<<a, b, c>> \o <<d, e>>)[i] = <<a, b, c, d, e>>[i]
  OBVIOUS
<1> HIDE DEF S
<1>4. <<a, b, c>> \o <<d, e>> \in Seq(S)
  BY <1>1, ConcatProperties
<1> QED BY <1>1, <1>2, <1>3, <1>4, SeqEqual

LEMMA JoiningOne ==
    ASSUME NEW a
    PROVE  << >> \o <<a>> = <<a>>
<1> DEFINE S == {a}
<1>1. << >> \in Seq(S) /\ <<a>> \in Seq(S) /\ <<a>> \in Seq(S)
  OBVIOUS
<1>2. Len(<< >> \o <<a>>) = 1 /\ Len(<<a>>) = 1
  OBVIOUS
<1>3. \A i \in 1..1 : (<< >> \o <<a>>)[i] = <<a>>[i]
  OBVIOUS
<1> HIDE DEF S
<1>4. << >> \o <<a>> \in Seq(S)
  BY <1>1, ConcatProperties
<1> QED BY <1>1, <1>2, <1>3, <1>4, SeqEqual

LEMMA JoiningTwo ==
    ASSUME NEW a, NEW b
    PROVE  << >> \o <<a, b>> = <<a, b>>
<1> DEFINE S == {a, b}
<1>1. << >> \in Seq(S) /\ <<a, b>> \in Seq(S) /\ <<a, b>> \in Seq(S)
  OBVIOUS
<1>2. Len(<< >> \o <<a, b>>) = 2 /\ Len(<<a, b>>) = 2
  OBVIOUS
<1>3. \A i \in 1..2 : (<< >> \o <<a, b>>)[i] = <<a, b>>[i]
  OBVIOUS
<1> HIDE DEF S
<1>4. << >> \o <<a, b>> \in Seq(S)
  BY <1>1, ConcatProperties
<1> QED BY <1>1, <1>2, <1>3, <1>4, SeqEqual

LEMMA Elements ==
    ASSUME NEW S, NEW s \in Seq(S)
    PROVE  Len(s) \in Nat /\ DOMAIN s = 1..Len(s) /\ \A i \in DOMAIN s : s[i] \in S
<1>1. Len(s) \in Nat /\ DOMAIN s = 1..Len(s)
  BY LenProperties
<1> QED BY <1>1, ElementOfSeq

LEMMA PositionsOne ==
    ASSUME NEW a, NEW s, s = <<a>>
    PROVE  DOMAIN s = 1..1 /\ s[1] = a
OBVIOUS

LEMMA PositionsTwo ==
    ASSUME NEW a, NEW b, NEW s, s = <<a, b>>
    PROVE  DOMAIN s = 1..2 /\ s[1] = a /\ s[2] = b
OBVIOUS

LEMMA PositionsThree ==
    ASSUME NEW a, NEW b, NEW c, NEW s, s = <<a, b, c>>
    PROVE  DOMAIN s = 1..3 /\ s[1] = a /\ s[2] = b /\ s[3] = c
OBVIOUS

LEMMA PositionsFour ==
    ASSUME NEW a, NEW b, NEW c, NEW d, NEW s, s = <<a, b, c, d>>
    PROVE  DOMAIN s = 1..4 /\ s[1] = a /\ s[2] = b /\ s[3] = c /\ s[4] = d
OBVIOUS

LEMMA PositionsFive ==
    ASSUME NEW a, NEW b, NEW c, NEW d, NEW e, NEW s, s = <<a, b, c, d, e>>
    PROVE  DOMAIN s = 1..5 /\ s[1] = a /\ s[2] = b /\ s[3] = c /\ s[4] = d /\ s[5] = e
OBVIOUS

LEMMA Fives ==
    ASSUME NEW S, NEW a \in S, NEW b \in S, NEW c \in S, NEW d \in S, NEW e \in S
    PROVE  <<a, b, c, d, e>> \in Seq(S)
OBVIOUS

LEMMA Appending ==
    ASSUME NEW S, NEW s \in Seq(S), NEW e \in S
    PROVE  s \o <<e>> \in Seq(S) /\ Len(s \o <<e>>) = Len(s) + 1 /\ (s \o <<e>>)[Len(s) + 1] = e
<1>1. <<e>> \in Seq(S) /\ Len(<<e>>) = 1 /\ <<e>>[1] = e
  OBVIOUS
<1>2. Len(s) \in Nat
  BY Elements
<1>3. /\ s \o <<e>> \in Seq(S)
      /\ Len(s \o <<e>>) = Len(s) + Len(<<e>>)
      /\ \A i \in 1..Len(s) + Len(<<e>>) :
            (s \o <<e>>)[i] = IF i <= Len(s) THEN s[i] ELSE <<e>>[i - Len(s)]
  BY <1>1, ConcatProperties
<1> QED BY <1>1, <1>2, <1>3

LEMMA RequisitionPrograms ==
    ASSUME NEW o
    PROVE  /\ \A v \in {"req status", "req list"} : Steps(v, o) \in Seq(Quiet)
           /\ Steps("req import", o) \in Seq(Sender)
           /\ \A v \in {"req export", "req convert"} : Steps(v, o) \in Seq(Emitter("each"))
           /\ Steps("req delete", o) = Confirmation(o) \o <<DeletePending, DeleteDeployed>>
<1>1. \A v \in RequisitionVerbs : Steps(v, o) = RequisitionSteps(v, o)
  BY Dispatch
<1>2. /\ GetRequisition \in Quiet /\ ListRequisitionNames \in Quiet
      /\ GetForeignSource \in Quiet /\ GetDefaultForeignSource \in Quiet
      /\ Check \in Quiet /\ Report \in Quiet
  BY PlainSteps DEF GetRequisition, ListRequisitionNames, GetForeignSource, GetDefaultForeignSource,
                    Missing
<1>3. ASSUME NEW v \in {"req status", "req list"} PROVE Steps(v, o) \in Seq(Quiet)
  <2>1. Steps(v, o) \in {<<GetRequisition>>, <<ListRequisitionNames>>}
    BY <1>1 DEF RequisitionSteps, RunStatus, RunListRequisitions, RequisitionVerbs
  <2> QED BY <2>1, <1>2, Tuples
<1>4. Steps("req import", o) \in Seq(Sender)
  <2>1. Steps("req import", o) = <<TriggerImport>>
    BY <1>1 DEF RequisitionSteps, RunImport, RequisitionVerbs
  <2>2. TriggerImport \in Sender
    BY SendingSteps DEF TriggerImport, Parts
  <2> QED BY <2>1, <2>2, Tuples
<1>5. Steps("req export", o) \in Seq(Emitter("each"))
  <2>1. Steps("req export", o) = RunExport(o)
    BY <1>1 DEF RequisitionSteps, RequisitionVerbs
  <2>2. ExportAllRequisitions(o) \in Seq(Emitter("each"))
    BY <1>2, EmittingSteps, Tuples DEF ExportAllRequisitions
  <2>3. ExportRequisition(o) \in Seq(Emitter("each"))
    BY <1>2, EmittingSteps, Tuples DEF ExportRequisition
  <2>4. <<Emit("each")>> \in Seq(Emitter("each"))
    BY EmittingSteps, Tuples
  <2>5. (IF o.all THEN ExportAllRequisitions(o) ELSE ExportRequisition(o)) \in Seq(Emitter("each"))
    BY <2>2, <2>3
  <2> HIDE DEF ExportAllRequisitions, ExportRequisition
  <2> QED BY <2>1, <2>4, <2>5, Tuples DEF RunExport
<1>6. Steps("req convert", o) \in Seq(Emitter("each"))
  <2>1. Steps("req convert", o) = <<Check, Emit("each"), Report>>
    BY <1>1 DEF RequisitionSteps, RunConvert, RequisitionVerbs
  <2>2. {Check, Emit("each"), Report} \subseteq Emitter("each")
    BY <1>2, EmittingSteps
  <2> QED BY <2>1, <2>2, Tuples
<1>7. Steps("req delete", o) = Confirmation(o) \o <<DeletePending, DeleteDeployed>>
  BY <1>1 DEF RequisitionSteps, RequisitionVerbs, RunDelete
<1> QED BY <1>3, <1>4, <1>5, <1>6, <1>7

LEMMA PartPrograms ==
    ASSUME NEW o, NEW v \in NodeVerbs \cup InterfaceVerbs \cup ServiceVerbs \cup CategoryVerbs
    PROVE  Steps(v, o) \in Seq(Quiet)
<1>1. Steps(v, o) = PartSteps(v)
  BY Dispatch
<1>2. GetRequisition \in Quiet /\ GetRequisitionNode \in Quiet /\ GetRequisitionInterface \in Quiet
  BY PlainSteps DEF GetRequisition, GetRequisitionNode, GetRequisitionInterface, Missing
<1>3. PartSteps(v) \in {<<GetRequisition>>, <<GetRequisitionNode>>, <<GetRequisitionInterface>>}
  BY DEF PartSteps, NodeVerbs, InterfaceVerbs, ServiceVerbs, CategoryVerbs, NodeList, NodeGet,
         InterfaceList, InterfaceGet, ServiceList, CategoryList
<1> QED BY <1>1, <1>2, <1>3, Tuples

LEMMA AssetPrograms ==
    ASSUME NEW o
    PROVE  /\ \A v \in {"asset list", "asset get"} : Steps(v, o) \in Seq(Quiet)
           /\ Steps("asset set", o) \in Seq(Sender)
<1>1. \A v \in AssetVerbs : Steps(v, o) = AssetSteps(v)
  BY Dispatch
<1>2. GetNodeAssetRecord \in Quiet /\ Check \in Quiet /\ PutNodeAssetRecord \in Sender
  BY PlainSteps, SendingSteps DEF GetNodeAssetRecord, PutNodeAssetRecord, Missing, Parts
<1>3. ASSUME NEW v \in {"asset list", "asset get"} PROVE Steps(v, o) \in Seq(Quiet)
  <2>1. Steps(v, o) = <<GetNodeAssetRecord, Check>>
    BY <1>1 DEF AssetVerbs, AssetSteps, AssetList, AssetGet
  <2> QED BY <2>1, <1>2, Tuples
<1>4. Steps("asset set", o) = <<GetNodeAssetRecord, Check, PutNodeAssetRecord>>
  BY <1>1 DEF AssetVerbs, AssetSteps, AssetSet, CoerceValue
<1> QED BY <1>2, <1>3, <1>4, Tuples, EmittingSteps

LEMMA SourcePrograms ==
    ASSUME NEW o
    PROVE  /\ \A v \in {"source list", "source get", "source names", "source names-and-ids"} :
                 Steps(v, o) \in Seq(Quiet)
           /\ Steps("source upload", o) \in Seq(Sender)
           /\ Steps("source delete", o) = <<Check, Remove("object")>>
           /\ \A v \in {"source download", "source convert"} : Steps(v, o) \in Seq(Emitter("guarded"))
           /\ Steps("source export", o) \in Seq(Emitter("export"))
           /\ Steps("event list", o) \in Seq(Quiet)
<1>1. \A v \in SourceVerbs : Steps(v, o) = SourceSteps(v, o)
  BY Dispatch
<1>2. /\ Check \in Quiet /\ Page \in Quiet /\ List \in Quiet /\ GetSource \in Quiet
      /\ Report \in Quiet /\ GetEach \in Quiet /\ ExportOne \in Quiet /\ Usage \in Quiet
      /\ DownloadSourceXml("NotFound") \in Quiet /\ UploadSources \in Sender
      /\ [FilterSources EXCEPT !.missing = "Config"] \in Quiet
  BY PlainSteps, OtherSteps, SendingSteps DEF GetSource, Missing, DownloadSourceXml
<1>3. ASSUME NEW v \in {"source list", "source get", "source names", "source names-and-ids"}
      PROVE  Steps(v, o) \in Seq(Quiet)
  <2>1. Steps(v, o) \in {<<Check, Page>>, <<Check, GetSource>>, <<List>>}
    BY <1>1 DEF SourceVerbs, SourceSteps, SourceList, SourceGet, EnsurePositiveId, FilterSources
  <2> QED BY <2>1, <1>2, Tuples
<1>4. Steps("source upload", o) = <<Check, UploadSources>>
  BY <1>1 DEF SourceVerbs, SourceSteps, SourceUpload, BuildUploadParts
<1>5. Steps("source delete", o) = <<Check, Remove("object")>>
  BY <1>1 DEF SourceVerbs, SourceSteps, SourceDelete, EnsurePositiveId, DeleteSources
<1>6. ResolveSourceSelector(o) \in Seq(Quiet)
  BY <1>2, Tuples DEF ResolveSourceSelector
<1>7. Steps("source download", o) \in Seq(Emitter("guarded"))
  <2>1. Steps("source download", o) = SourceDownload(o)
    BY <1>1 DEF SourceVerbs, SourceSteps
  <2>2. ResolveSourceSelector(o) \o <<DownloadSourceXml("NotFound"), Check>> \in Seq(Quiet)
    BY <1>2, <1>6, Tuples
  <2>3. (IF o.yaml THEN <<GetSource, Report>> ELSE << >>) \in Seq(Quiet)
    BY <1>2, Tuples
  <2>4. <<Emit("guarded")>> \in Seq(Emitter("guarded")) /\ Seq(Quiet) \subseteq Seq(Emitter("guarded"))
    BY EmittingSteps, Tuples
  <2>5. (ResolveSourceSelector(o) \o <<DownloadSourceXml("NotFound"), Check>>)
           \o (IF o.yaml THEN <<GetSource, Report>> ELSE << >>) \in Seq(Quiet)
    BY <2>2, <2>3, Tuples
  <2> DEFINE reads == (ResolveSourceSelector(o) \o <<DownloadSourceXml("NotFound"), Check>>)
                       \o (IF o.yaml THEN <<GetSource, Report>> ELSE << >>)
  <2>6. Steps("source download", o) = reads \o <<Emit("guarded")>>
    BY <2>1 DEF SourceDownload
  <2>7. reads \in Seq(Emitter("guarded"))
    BY <2>4, <2>5
  <2> HIDE DEF reads
  <2> QED BY <2>6, <2>7, <2>4, Tuples
<1>8. Steps("source convert", o) \in Seq(Emitter("guarded"))
  <2>1. Steps("source convert", o) = <<Usage, Emit("guarded"), Report>>
    BY <1>1 DEF SourceVerbs, SourceSteps, SourceConvert, ReadInputBytes
  <2>2. {Usage, Emit("guarded"), Report} \subseteq Emitter("guarded")
    BY <1>2, EmittingSteps
  <2> QED BY <2>1, <2>2, Tuples
<1>9. Steps("source export", o) \in Seq(Emitter("export"))
  <2>1. Steps("source export", o) = SourceExport(o)
    BY <1>1 DEF SourceVerbs, SourceSteps
  <2>2. (IF o.all THEN ExportAll ELSE ExportBySelector(o)) \in Seq(Quiet)
    <3>1. ExportAll \in Seq(Quiet)
      BY <1>2, Tuples DEF ExportAll
    <3>2. (IF o.byId THEN <<GetSource>> ELSE << >>) \in Seq(Quiet)
      BY <1>2, Tuples
    <3>3. ExportBySelector(o) \in Seq(Quiet)
      BY <1>2, <1>6, <3>2, Tuples DEF ExportBySelector
    <3> QED BY <3>1, <3>3
  <2>3. /\ Seq(Quiet) \subseteq Seq(Emitter("export"))
        /\ <<Emit("export"), Report>> \in Seq(Emitter("export"))
    BY <1>2, EmittingSteps, Tuples
  <2> QED BY <2>1, <2>2, <2>3, Tuples DEF SourceExport
<1>10. Steps("event list", o) \in Seq(Quiet)
  <2>1. Steps("event list", o) = EventList(o)
    BY Dispatch DEF EventVerbs
  <2> QED BY <2>1, <1>2, Tuples DEF EventList, ListEvents
<1> QED BY <1>2, <1>3, <1>4, <1>5, <1>7, <1>8, <1>9, <1>10, Tuples, EmittingSteps

LEMMA IamPrograms ==
    ASSUME NEW o
    PROVE  /\ \A v \in QuietIam : Steps(v, o) \in Seq(Quiet)
           /\ Steps("user set-password", o) \in Seq(Sender)
           /\ Steps("user delete", o) =
                 (IF o.yes THEN << >> ELSE <<Find("noop"), Terminal, Ask>>) \o <<Purge("object")>>
<1>1. \A v \in IamVerbs : Steps(v, o) = IamSteps(v, o)
  BY Dispatch
<1>2. /\ GetWhoami \in Quiet /\ Unimplemented \in Quiet /\ List \in Quiet
      /\ Find("UserNotFound") \in Quiet /\ Check \in Quiet /\ Store("password") \in Sender
  BY PlainSteps, OtherSteps, SendingSteps DEF Missing, Parts
<1>3. ASSUME NEW v \in QuietIam PROVE Steps(v, o) \in Seq(Quiet)
  <2>1. Steps(v, o) \in {<<GetWhoami>>, <<Unimplemented>>, <<List>>, <<Find("UserNotFound")>>}
    BY <1>1 DEF QuietIam, IamVerbs, IamSteps, Whoami, UserGet, UserExport, ListUsers, GetUser, RequireUser
  <2> QED BY <2>1, <1>2, Tuples
<1>4. Steps("user set-password", o) = <<Check, Find("UserNotFound"), Store("password")>>
  BY <1>1 DEF IamVerbs, IamSteps, SetPassword, ResolvePassword, RequireUser, PutPassword
<1>5. Steps("user delete", o) =
         (IF o.yes THEN << >> ELSE <<Find("noop"), Terminal, Ask>>) \o <<Purge("object")>>
  <2>1. Steps("user delete", o) = UserDelete(o)
    BY <1>1 DEF IamVerbs, IamSteps
  <2>2. <<Find("noop")>> \o <<Terminal, Ask>> = <<Find("noop"), Terminal, Ask>>
    BY Joining
  <2>3. GetUser("noop") = Find("noop") /\ ConfirmWithMessage = <<Terminal, Ask>>
        /\ DeleteUser = Purge("object")
    BY DEF GetUser, ConfirmWithMessage, DeleteUser
  <2>4. UserDelete(o) = (IF o.yes THEN << >> ELSE <<Find("noop")>> \o <<Terminal, Ask>>)
                           \o <<Purge("object")>>
    BY <2>3 DEF UserDelete
  <2>5. (IF o.yes THEN << >> ELSE <<Find("noop")>> \o <<Terminal, Ask>>) =
           (IF o.yes THEN << >> ELSE <<Find("noop"), Terminal, Ask>>)
    BY <2>2
  <2> QED BY <2>1, <2>4, <2>5
<1>6. Steps("user set-password", o) \in Seq(Sender)
  <2>1. Check \in Sender /\ Find("UserNotFound") \in Sender
    BY <1>2, EmittingSteps
  <2> QED BY <1>2, <1>4, <2>1, Tuples
<1> QED BY <1>3, <1>5, <1>6

QuietOthers ==
    SnmpVerbs \cup {"maint list", "maint status", "dc list", "dc export", "bs list", "bs get"}

LEMMA OtherPrograms ==
    ASSUME NEW o
    PROVE  /\ \A v \in QuietOthers : Steps(v, o) \in Seq(Quiet)
           /\ Steps("maint delete", o) = <<Remove("object")>>
           /\ Steps("dc delete", o) = <<Preflight, Remove("object")>>
           /\ Steps("bs delete", o) =
                 <<FetchAll, Remove("object"), [Reload EXCEPT !.tolerant = TRUE]>>
           /\ Preflight \in Quiet /\ FetchAll \in Quiet
<1>1. /\ \A v \in SnmpVerbs : Steps(v, o) = SnmpSteps(v, o)
      /\ \A v \in MaintenanceVerbs : Steps(v, o) = MaintenanceSteps(v)
      /\ \A v \in DatacollectionVerbs : Steps(v, o) = DatacollectionSteps(v, o)
      /\ \A v \in BusinessServiceVerbs : Steps(v, o) = BusinessServiceSteps(v)
  BY Dispatch
<1>2. /\ List \in Quiet /\ Check \in Quiet /\ Get("goOn") \in Quiet /\ Raw("NotFound") \in Quiet
      /\ FetchAll \in Quiet /\ [FetchAll EXCEPT !.part = "none"] \in Quiet
      /\ Preflight \in Quiet /\ [Preflight EXCEPT !.part = "none"] \in Quiet
  BY PlainSteps, OtherSteps DEF Missing, Preflight
<1>3. ASSUME NEW v \in SnmpVerbs PROVE Steps(v, o) \in Seq(Quiet)
  <2>1. (IF o.all THEN <<List>> ELSE << >>) \in Seq(Quiet) /\ <<Check, List>> \in Seq(Quiet)
    BY <1>2, Tuples
  <2>2. CollectLookups(o) \in Seq(Quiet)
    BY <2>1, Tuples DEF CollectLookups
  <2> QED BY <1>1, <1>2, <2>2, Tuples DEF SnmpSteps, SnmpExport
<1>4. ASSUME NEW v \in {"maint list", "maint status"} PROVE Steps(v, o) \in Seq(Quiet)
  <2>1. Steps(v, o) \in {<<List>>, MaintenanceStatus}
    BY <1>1 DEF MaintenanceVerbs, MaintenanceSteps
  <2>2. <<Check>> \in Seq(Quiet) /\ <<List, Check>> \in Seq(Quiet) /\ <<List>> \in Seq(Quiet)
    BY <1>2, Tuples
  <2> QED BY <2>1, <2>2, Tuples DEF MaintenanceStatus, CheckOutage
<1>5. ASSUME NEW v \in {"dc list", "dc export"} PROVE Steps(v, o) \in Seq(Quiet)
  <2>1. Steps(v, o) \in {<<List>>, <<[Preflight EXCEPT !.part = "none"]>>,
                         <<Preflight, Raw("NotFound")>>}
    BY <1>1, Joining DEF DatacollectionVerbs, DatacollectionSteps, DatacollectionList, DatacollectionExport,
                ResolveId, DownloadRaw
  <2> QED BY <2>1, <1>2, Tuples
<1>6. ASSUME NEW v \in {"bs list", "bs get"} PROVE Steps(v, o) \in Seq(Quiet)
  <2>1. Steps(v, o) \in {<<[FetchAll EXCEPT !.part = "none"]>>, <<FetchAll>>}
    BY <1>1 DEF BusinessServiceVerbs, BusinessServiceSteps, BusinessServiceList, BusinessServiceGet
  <2> QED BY <2>1, <1>2, Tuples
<1>7. Steps("maint delete", o) = <<Remove("object")>>
  BY <1>1 DEF MaintenanceVerbs, MaintenanceSteps, MaintenanceDelete
<1>8. Steps("dc delete", o) = <<Preflight, Remove("object")>>
  <2>1. <<Preflight>> \o <<Remove("object")>> = <<Preflight, Remove("object")>>
    BY Joining
  <2> QED BY <1>1, <2>1 DEF DatacollectionVerbs, DatacollectionSteps, DatacollectionDelete, ResolveId
<1>9. Steps("bs delete", o) = <<FetchAll, Remove("object"), [Reload EXCEPT !.tolerant = TRUE]>>
  BY <1>1 DEF BusinessServiceVerbs, BusinessServiceSteps, BusinessServiceDelete
<1> QED BY <1>2, <1>3, <1>4, <1>5, <1>6, <1>7, <1>8, <1>9 DEF QuietOthers

QuietThresholds == {"thr group list", "thr package list", "thr group get", "thr package get"}

LEMMA ThresholdPrograms ==
    ASSUME NEW o
    PROVE  /\ \A v \in QuietThresholds : Steps(v, o) \in Seq(Quiet)
           /\ Steps("thr export", o) \in Seq(Emitter("files"))
           /\ \A v \in {"thr group delete", "thr package delete"} :
                 \E before \in Seq(Quiet) : Steps(v, o) = before \o <<Remove("object")>>
<1>1. \A v \in ThresholdVerbs : Steps(v, o) = ThresholdSteps(v, o)
  BY Dispatch
<1>2. /\ Metadata \in Quiet /\ List \in Quiet /\ GetThresholds \in Quiet
      /\ Get("goOn") \in Quiet /\ Check \in Quiet
  BY PlainSteps DEF Metadata, GetThresholds, Missing
<1>3. ASSUME NEW v \in QuietThresholds PROVE Steps(v, o) \in Seq(Quiet)
  <2>1. \/ Steps(v, o) = <<Metadata>> \o <<List>>
        \/ Steps(v, o) = <<Metadata>> \o <<GetThresholds>>
    BY <1>1 DEF QuietThresholds, ThresholdVerbs, ThresholdSteps
  <2>2. /\ <<Metadata>> \in Seq(Quiet) /\ <<List>> \in Seq(Quiet)
        /\ <<GetThresholds>> \in Seq(Quiet)
    BY <1>2, Tuples
  <2> QED BY <2>1, <2>2, Tuples
<1>4. AllPackages \in Seq(Quiet) /\ BoundBy(o) \in Seq(Quiet) /\ <<Metadata>> \in Seq(Quiet)
  BY <1>2, Tuples DEF AllPackages, BoundBy
<1>5. Steps("thr export", o) \in Seq(Emitter("files"))
  <2>1. Steps("thr export", o) = <<Metadata>> \o ThresholdExport
    BY <1>1 DEF ThresholdVerbs, ThresholdSteps
  <2> DEFINE reads == <<List, Get("goOn")>> \o AllPackages
  <2>2. reads \in Seq(Quiet)
    BY <1>2, <1>4, Tuples
  <2>3. ThresholdExport = reads \o <<Emit("files")>>
    BY DEF ThresholdExport
  <2>4. <<Emit("files")>> \in Seq(Emitter("files")) /\ Seq(Quiet) \subseteq Seq(Emitter("files"))
    BY EmittingSteps, Tuples
  <2> HIDE DEF reads
  <2>5. reads \o <<Emit("files")>> \in Seq(Emitter("files"))
    BY <2>2, <2>4, Tuples
  <2> QED BY <1>4, <2>1, <2>3, <2>4, <2>5, Tuples
<1>6. \E before \in Seq(Quiet) : Steps("thr package delete", o) = before \o <<Remove("object")>>
  <2>1. Steps("thr package delete", o) = <<Metadata>> \o <<GetThresholds, DeleteThresholds>>
    BY <1>1 DEF ThresholdVerbs, ThresholdSteps
  <2>2. <<Metadata>> \o <<GetThresholds, DeleteThresholds>> =
            <<Metadata, GetThresholds>> \o <<DeleteThresholds>>
    <3>1. <<Metadata>> \o <<GetThresholds, DeleteThresholds>> =
             <<Metadata, GetThresholds, DeleteThresholds>>
      BY Joining
    <3>2. <<Metadata, GetThresholds>> \o <<DeleteThresholds>> =
             <<Metadata, GetThresholds, DeleteThresholds>>
      BY Joining
    <3> QED BY <3>1, <3>2
  <2> QED BY <1>2, <2>1, <2>2, Tuples DEF DeleteThresholds
<1>7. \E before \in Seq(Quiet) : Steps("thr group delete", o) = before \o <<Remove("object")>>
  <2>1. Steps("thr group delete", o) = <<Metadata>> \o ThresholdGroupDelete(o)
    BY <1>1 DEF ThresholdVerbs, ThresholdSteps
  <2> DEFINE reads == AllPackages \o BoundBy(o)
             before == <<Metadata>> \o (reads \o <<GetThresholds>>)
  <2>2. reads \in Seq(Quiet)
    BY <1>4, Tuples
  <2>3. ThresholdGroupDelete(o) = reads \o <<GetThresholds, Remove("object")>>
    BY DEF ThresholdGroupDelete, DeleteThresholds
  <2> HIDE DEF reads
  <2>4. before \in Seq(Quiet)
    BY <1>2, <1>4, <2>2, Tuples
  <2>5. <<Metadata>> \o (reads \o <<GetThresholds, Remove("object")>>) = before \o <<Remove("object")>>
    <3> DEFINE S == Quiet \cup {Remove("object")}
    <3>1. /\ <<Metadata>> \in Seq(S) /\ reads \in Seq(S) /\ <<GetThresholds>> \in Seq(S)
          /\ <<Remove("object")>> \in Seq(S)
      BY <1>2, <2>2
    <3>2. <<GetThresholds, Remove("object")>> = <<GetThresholds>> \o <<Remove("object")>>
      BY Joining
    <3> HIDE DEF S
    <3> QED BY <3>1, <3>2, ConcatAssociative, ConcatProperties
  <2> QED BY <2>1, <2>3, <2>4, <2>5
<1> QED BY <1>3, <1>5, <1>6, <1>7

QuietGraph == GraphVerbs \ {"graph delete"}

LEMMA GraphPrograms ==
    ASSUME NEW o
    PROVE  /\ \A v \in QuietGraph : Steps(v, o) \in Seq(Quiet)
           /\ Steps("graph delete", o) = <<[Remove("object") EXCEPT !.missing = "Config"]>>
           /\ Steps("apply --dry-run", o) \in Seq(Quiet)
           /\ Steps("apply", o) \in Seq(Sender)
<1>1. \A v \in GraphVerbs : Steps(v, o) = GraphSteps(v)
  BY Dispatch
<1>2. /\ List \in Quiet /\ Check \in Quiet /\ Gate \in Quiet /\ Get("NotFound") \in Quiet
      /\ GetXml("goOn") \in Quiet /\ GetXml("Config") \in Quiet
      /\ [Store("documents") EXCEPT !.body = "rows"] \in Sender
  BY PlainSteps, OtherSteps, SendingSteps DEF Missing, GetXml
<1>3. ASSUME NEW v \in QuietGraph PROVE Steps(v, o) \in Seq(Quiet)
  <2>1. Steps(v, o) \in {<<List, GetXml("goOn")>>, <<GetXml("Config"), Check>>, <<Get("NotFound")>>,
                         <<Check>>}
    BY <1>1 DEF QuietGraph, GraphVerbs, GraphSteps, ListRows, FetchDoc, View, Search, ConvertFile
  <2> QED BY <2>1, <1>2, Tuples
<1>4. Steps("graph delete", o) = <<[Remove("object") EXCEPT !.missing = "Config"]>>
  BY <1>1 DEF GraphVerbs, GraphSteps, GraphDelete
<1>5. \A v \in ApplyVerbs : Steps(v, o) = RunApply(v)
  BY Dispatch
<1>6. <<Check, Check, List, Gate>> \in Seq(Quiet) /\ <<Check, Check, List, Gate>> \in Seq(Sender)
  BY <1>2, Tuples, EmittingSteps
<1>7. Steps("apply --dry-run", o) = <<Check, Check, List, Gate>>
  BY <1>5, <1>6, ConcatEmptySeq DEF ApplyVerbs, RunApply, ResolveApplyInput, LoadDocuments
<1>8. Steps("apply", o) =
         <<Check, Check, List, Gate>> \o <<[Store("documents") EXCEPT !.body = "rows"]>>
  BY <1>5 DEF ApplyVerbs, RunApply, ResolveApplyInput, LoadDocuments
<1> QED BY <1>2, <1>3, <1>4, <1>6, <1>7, <1>8, Tuples

-----------------------------------------------------------------------------
ServerStep == Sender \cup {Emit(p) : p \in Policies} \cup {Find("noop"), Find("noAsk")}

Sends(step) == step.do \in {"write", "remove"}
Removes(step, part) == step.do = "remove" /\ step.part = part

LEMMA StepKinds ==
    /\ ServerStep \subseteq AnyStep
    /\ \A s \in Quiet : s.do \notin {"write", "remove", "emit"} /\ s.missing \notin {"noop", "noAsk"}
    /\ \A s \in Sender : s.do # "emit" /\ s.missing \notin {"noop", "noAsk"}
    /\ \A p \in Policies : \A s \in Emitter(p) :
          /\ s.do = "emit" => s.part = p
          /\ s.do \notin {"write", "remove"} /\ s.missing \notin {"noop", "noAsk"}
          /\ s \in ServerStep
    /\ Quiet \subseteq ServerStep /\ Sender \subseteq ServerStep
    /\ \A s \in ServerStep : s.missing \in {"noop", "noAsk"} =>
          s.do = "get" /\ s.part = "object" /\ s.body = "decoded" /\ ~s.tolerant
<1> USE DEF ServerStep, Sender, Quiet, AnyStep, Missing, Bodies, Parts, Policies, Emitter, Emit, Find,
            Get, Step
<1>1. ServerStep \subseteq AnyStep
  <2>1. Sender \subseteq AnyStep
    OBVIOUS
  <2>2. \A p \in Policies : Emit(p) \in AnyStep
    OBVIOUS
  <2>3. Find("noop") \in AnyStep /\ Find("noAsk") \in AnyStep
    OBVIOUS
  <2> HIDE DEF Sender, AnyStep, Find, Emit
  <2> QED BY <2>1, <2>2, <2>3 DEF ServerStep
<1>2. \A s \in Quiet : s.do \notin {"write", "remove", "emit"} /\ s.missing \notin {"noop", "noAsk"}
  OBVIOUS
<1>3. \A s \in Sender : s.do # "emit" /\ s.missing \notin {"noop", "noAsk"}
  OBVIOUS
<1>4. ASSUME NEW p \in Policies, NEW s \in Emitter(p)
      PROVE  /\ s.do = "emit" => s.part = p
             /\ s.do \notin {"write", "remove"} /\ s.missing \notin {"noop", "noAsk"}
             /\ s \in ServerStep
  OBVIOUS
<1>5. Quiet \subseteq ServerStep /\ Sender \subseteq ServerStep
  OBVIOUS
<1>6. \A s \in ServerStep : s.missing \in {"noop", "noAsk"} =>
          s.do = "get" /\ s.part = "object" /\ s.body = "decoded" /\ ~s.tolerant
  OBVIOUS
<1> QED BY <1>1, <1>2, <1>3, <1>4, <1>5, <1>6

\* What is true of the steps of a verb, wherever the command has got to.
Steady(v, o, s) ==
    /\ s \in Seq(ServerStep)
    /\ v \notin Writes => \A i \in DOMAIN s : ~Sends(s[i])
    /\ \A i, j \in DOMAIN s : s[i].do = "emit" /\ s[j].do = "emit" => s[i].part = s[j].part
    /\ \A i \in DOMAIN s : s[i].missing = "noAsk" => i + 1 \in DOMAIN s /\ s[i + 1].do = "ask"
    /\ (\E i \in DOMAIN s : s[i].missing = "noop") => \A i \in DOMAIN s : s[i].do # "write"
    /\ v = "req delete" => \A i, j \in DOMAIN s :
          i < j => ~(Removes(s[i], "deployed") /\ Removes(s[j], "pending"))

Asked(s) == \E i \in DOMAIN s : s[i].do = "ask" /\ \A j \in 1..i : s[j].do # "remove"

LEMMA QuietPrograms ==
    ASSUME NEW v, v # "req delete", NEW o, NEW s \in Seq(Quiet)
    PROVE  Steady(v, o, s)
<1>1. \A i \in DOMAIN s : s[i] \in Quiet
  BY Elements
<1>2. s \in Seq(ServerStep)
  BY StepKinds, SeqMonotonic
<1> QED BY <1>1, <1>2, StepKinds DEF Steady, Sends

LEMMA OrdinaryPrograms ==
    ASSUME NEW v, NEW o, NEW s,
           \/ s \in Seq(Quiet)
           \/ s \in Seq(Sender) /\ v \in Writes
           \/ \E p \in Policies : s \in Seq(Emitter(p)),
           v # "req delete"
    PROVE  Steady(v, o, s)
<1>1. CASE s \in Seq(Quiet)
  BY <1>1, QuietPrograms
<1>2. CASE s \in Seq(Sender) /\ v \in Writes
  <2>1. \A i \in DOMAIN s : s[i] \in Sender
    BY <1>2, Elements
  <2>2. s \in Seq(ServerStep)
    BY <1>2, StepKinds, SeqMonotonic
  <2> QED BY <1>2, <2>1, <2>2, StepKinds DEF Steady, Sends
<1>3. CASE \E p \in Policies : s \in Seq(Emitter(p))
  <2>1. PICK p \in Policies : s \in Seq(Emitter(p))
    BY <1>3
  <2>2. \A i \in DOMAIN s : s[i] \in Emitter(p)
    BY <2>1, Elements
  <2>3. s \in Seq(ServerStep)
    <3>1. Emitter(p) \subseteq ServerStep
      BY StepKinds
    <3> QED BY <2>1, <3>1, SeqMonotonic
  <2> QED BY <2>2, <2>3, StepKinds DEF Steady, Sends
<1> QED BY <1>1, <1>2, <1>3

LEMMA FirstOrSecond ==
    ASSUME NEW a, NEW b, NEW c
    PROVE  /\ 1 \in DOMAIN <<a>> /\ <<a>>[1] = a
           /\ 2 \in DOMAIN <<a, b>> /\ <<a, b>>[2] = b
           /\ 2 \in DOMAIN <<a, b, c>> /\ <<a, b, c>>[2] = b
OBVIOUS

LEMMA Successor == \A n, m \in Nat : m = n + 1 => n + 1 \in 1..m
OBVIOUS

LEMMA RemovalAlone ==
    ASSUME NEW v \in Writes, v # "req delete", NEW o, NEW r \in Sender,
           Removes(r, "object")
    PROVE  Steady(v, o, <<r>>) /\ \E i \in DOMAIN <<r>> : Removes(<<r>>[i], "object")
<1>1. <<r>> \in Seq(Sender)
  BY Tuples
<1>2. Steady(v, o, <<r>>)
  BY <1>1, OrdinaryPrograms
<1>3. 1 \in DOMAIN <<r>> /\ <<r>>[1] = r
  BY FirstOrSecond
<1> QED BY <1>2, <1>3

LEMMA RemovalSecond ==
    ASSUME NEW v \in Writes, v # "req delete", NEW o, NEW a \in Sender, NEW r \in Sender,
           Removes(r, "object")
    PROVE  Steady(v, o, <<a, r>>) /\ \E i \in DOMAIN <<a, r>> : Removes(<<a, r>>[i], "object")
<1>1. <<a, r>> \in Seq(Sender)
  BY Tuples
<1>2. Steady(v, o, <<a, r>>)
  BY <1>1, OrdinaryPrograms
<1>3. 2 \in DOMAIN <<a, r>> /\ <<a, r>>[2] = r
  BY FirstOrSecond
<1> QED BY <1>2, <1>3

LEMMA RemovalBetween ==
    ASSUME NEW v \in Writes, v # "req delete", NEW o, NEW a \in Sender, NEW r \in Sender, NEW b \in Sender,
           Removes(r, "object")
    PROVE  Steady(v, o, <<a, r, b>>) /\ \E i \in DOMAIN <<a, r, b>> : Removes(<<a, r, b>>[i], "object")
<1>1. <<a, r, b>> \in Seq(Sender)
  BY Tuples
<1>2. Steady(v, o, <<a, r, b>>)
  BY <1>1, OrdinaryPrograms
<1>3. 2 \in DOMAIN <<a, r, b>> /\ <<a, r, b>>[2] = r
  BY FirstOrSecond
<1> QED BY <1>2, <1>3

LEMMA DeletingPrograms ==
    ASSUME NEW v \in Deletes \ {"req delete", "user delete"}, NEW o
    PROVE  /\ Steady(v, o, Steps(v, o))
           /\ \E i \in DOMAIN Steps(v, o) : Removes(Steps(v, o)[i], "object")
<1>1. v \in Writes
  BY DEF Deletes, Writes, RequisitionWrites, AssetWrites, SourceWrites, IamWrites, MaintenanceWrites,
         DatacollectionWrites, BusinessServiceWrites, ThresholdWrites, GraphWrites, ApplyWrites
<1>2. /\ Remove("object") \in Sender /\ Removes(Remove("object"), "object")
      /\ [Reload EXCEPT !.tolerant = TRUE] \in Sender
      /\ [Remove("object") EXCEPT !.missing = "Config"] \in Sender
      /\ Removes([Remove("object") EXCEPT !.missing = "Config"], "object")
  <2>1. /\ Removes(Remove("object"), "object")
        /\ Removes([Remove("object") EXCEPT !.missing = "Config"], "object")
    BY DEF Remove, Removes, Step
  <2> QED BY <2>1, SendingSteps DEF Parts
<1>3. /\ Check \in Sender /\ Preflight \in Sender /\ FetchAll \in Sender
  BY PlainSteps, OtherPrograms, EmittingSteps
<1>4. ASSUME v \in {"source delete", "maint delete", "dc delete", "bs delete", "graph delete"}
      PROVE  /\ Steady(v, o, Steps(v, o))
             /\ \E i \in DOMAIN Steps(v, o) : Removes(Steps(v, o)[i], "object")
  <2> DEFINE r == Remove("object")
             R == [Remove("object") EXCEPT !.missing = "Config"]
             b == [Reload EXCEPT !.tolerant = TRUE]
  <2>1. v = "source delete" => Steps(v, o) = <<Check, r>>
    BY SourcePrograms
  <2>2. v = "maint delete" => Steps(v, o) = <<r>>
    BY OtherPrograms
  <2>3. v = "dc delete" => Steps(v, o) = <<Preflight, r>>
    BY OtherPrograms
  <2>4. v = "bs delete" => Steps(v, o) = <<FetchAll, r, b>>
    BY OtherPrograms
  <2>5. v = "graph delete" => Steps(v, o) = <<R>>
    BY GraphPrograms
  <2>6. v # "req delete"
    BY <1>4
  <2>7. r \in Sender /\ R \in Sender /\ b \in Sender /\ Removes(r, "object") /\ Removes(R, "object")
    BY <1>2
  <2> HIDE DEF r, R, b
  <2>8. CASE v = "source delete"
    BY <1>1, <1>3, <2>1, <2>6, <2>7, <2>8, RemovalSecond
  <2>9. CASE v = "maint delete"
    BY <1>1, <2>2, <2>6, <2>7, <2>9, RemovalAlone
  <2>10. CASE v = "dc delete"
    BY <1>1, <1>3, <2>3, <2>6, <2>7, <2>10, RemovalSecond
  <2>11. CASE v = "bs delete"
    <3>1. /\ Steady(v, o, <<FetchAll, r, b>>)
          /\ \E i \in DOMAIN <<FetchAll, r, b>> : Removes(<<FetchAll, r, b>>[i], "object")
      BY <1>1, <1>3, <2>6, <2>7, RemovalBetween
    <3> QED BY <2>4, <2>11, <3>1
  <2>12. CASE v = "graph delete"
    BY <1>1, <2>5, <2>6, <2>7, <2>12, RemovalAlone
  <2> QED BY <1>4, <2>8, <2>9, <2>10, <2>11, <2>12
<1>5. CASE v \in {"thr group delete", "thr package delete"}
  <2>1. PICK before \in Seq(Quiet) : Steps(v, o) = before \o <<Remove("object")>>
    BY <1>5, ThresholdPrograms
  <2>2. before \in Seq(Sender)
    BY EmittingSteps, SeqMonotonic
  <2>3. /\ Steps(v, o) \in Seq(Sender)
        /\ Len(Steps(v, o)) = Len(before) + 1
        /\ Steps(v, o)[Len(before) + 1] = Remove("object")
    <3>1. Remove("object") \in Sender
      BY <1>2
    <3>2. /\ before \o <<Remove("object")>> \in Seq(Sender)
          /\ Len(before \o <<Remove("object")>>) = Len(before) + 1
          /\ (before \o <<Remove("object")>>)[Len(before) + 1] = Remove("object")
      BY <2>2, <3>1, Appending
    <3> QED BY <2>1, <3>2
  <2>4. Len(before) + 1 \in DOMAIN Steps(v, o)
    <3>1. Len(before) \in Nat
      BY <2>2, Elements
    <3>2. DOMAIN Steps(v, o) = 1..Len(Steps(v, o))
      BY <2>3, Elements
    <3>3. Len(Steps(v, o)) = Len(before) + 1
      BY <2>3
    <3> HIDE DEF Deletes
    <3>4. Len(Steps(v, o)) \in Nat
      BY <2>3, Elements
    <3> QED BY <3>1, <3>2, <3>3, <3>4, Successor
  <2>5. v # "req delete"
    BY <1>5
  <2> QED BY <1>1, <1>2, <2>3, <2>4, <2>5, OrdinaryPrograms
<1> QED BY <1>4, <1>5 DEF Deletes

LEMMA UserDeletePrograms ==
    ASSUME NEW o
    PROVE  /\ Steady("user delete", o, Steps("user delete", o))
           /\ \E i \in DOMAIN Steps("user delete", o) : Removes(Steps("user delete", o)[i], "object")
           /\ ~o.yes => Asked(Steps("user delete", o))
<1> DEFINE s == Steps("user delete", o)
<1>1. s = (IF o.yes THEN << >> ELSE <<Find("noop"), Terminal, Ask>>) \o <<Purge("object")>>
  BY IamPrograms
<1>2. /\ Purge("object") \in Sender /\ Purge("object").do = "remove"
      /\ Purge("object").part = "object" /\ Purge("object").missing = "goOn"
  BY SendingSteps DEF Purge, Remove, Step, Parts
<1>3. /\ Terminal \in Quiet /\ Ask \in Quiet /\ Terminal.do = "terminal" /\ Ask.do = "ask"
      /\ Find("noop").do = "get" /\ Find("noop").missing = "noop"
  BY PlainSteps DEF Terminal, Ask, Find, Get, Step
<1>4. "user delete" \in Writes
  BY DEF Writes, IamWrites
<1>5. CASE o.yes
  <2>1. s = <<Purge("object")>>
    BY <1>1, <1>5, JoiningOne
  <2>2. s \in Seq(Sender)
    BY <1>2, <2>1, Tuples
  <2>3. 1 \in DOMAIN s /\ Removes(s[1], "object")
    <3>1. DOMAIN s = 1..1 /\ s[1] = Purge("object")
      BY <2>1, PositionsOne
    <3> HIDE DEF s
    <3> QED BY <1>2, <3>1 DEF Removes
  <2> HIDE DEF s
  <2> QED BY <1>4, <1>5, <2>2, <2>3, OrdinaryPrograms DEF s
<1>6. CASE ~o.yes
  <2>1. s = <<Find("noop"), Terminal, Ask>> \o <<Purge("object")>>
    BY <1>1, <1>6
  <2>2. /\ Find("noop") \in ServerStep /\ Terminal \in ServerStep /\ Ask \in ServerStep
        /\ Purge("object") \in ServerStep
    BY <1>2, <1>3, StepKinds DEF ServerStep
  <2>3. /\ s \in Seq(ServerStep) /\ Len(s) = 4
        /\ s[1] = Find("noop") /\ s[2] = Terminal /\ s[3] = Ask /\ s[4] = Purge("object")
    <3>1. s = <<Find("noop"), Terminal, Ask, Purge("object")>>
      BY <2>1, JoiningFour
    <3>2. <<Find("noop"), Terminal, Ask, Purge("object")>> \in Seq(ServerStep)
      BY <2>2, Tuples
    <3>3. /\ DOMAIN s = 1..4
          /\ s[1] = Find("noop") /\ s[2] = Terminal /\ s[3] = Ask /\ s[4] = Purge("object")
      <4> HIDE DEF s
      <4> QED BY <3>1
    <3>4. s \in Seq(ServerStep)
      BY <3>1, <3>2
    <3> HIDE DEF s
    <3>5. Len(s) \in Nat /\ DOMAIN s = 1..Len(s)
      BY <3>4, Elements
    <3> QED BY <3>3, <3>4, <3>5
  <2> HIDE DEF s
  <2>4. \A i \in DOMAIN s : i \in 1..4
    BY <2>3
  <2>5. \A i \in DOMAIN s : s[i].missing # "noAsk" /\ s[i].do \notin {"write", "emit"}
    BY <1>2, <1>3, <2>3, <2>4, StepKinds
  <2>6. Steady("user delete", o, s)
    BY <1>4, <2>3, <2>5 DEF Steady
  <2>7. 4 \in DOMAIN s /\ Removes(s[4], "object")
    BY <1>2, <2>3 DEF Removes
  <2>8. Asked(s)
    <3>1. \A j \in 1..3 : s[j].do # "remove"
      BY <1>3, <2>3
    <3> QED BY <1>3, <2>3, <3>1 DEF Asked
  <2> QED BY <2>6, <2>7, <2>8 DEF s
<1> QED BY <1>5, <1>6

LEMMA RequisitionDeletePrograms ==
    ASSUME NEW o
    PROVE  /\ Steady("req delete", o, Steps("req delete", o))
           /\ \A p \in {"pending", "deployed"} :
                 \E i \in DOMAIN Steps("req delete", o) : Removes(Steps("req delete", o)[i], p)
           /\ ~o.yes => Asked(Steps("req delete", o))
<1> DEFINE s == Steps("req delete", o)
<1>1. s = (IF o.yes THEN << >> ELSE <<Terminal, Find("noAsk"), Ask>>)
             \o <<Purge("pending"), Purge("deployed")>>
  BY RequisitionPrograms DEF Confirmation, DeletePending, DeleteDeployed
<1>2. /\ Purge("pending") \in Sender /\ Purge("deployed") \in Sender
      /\ \A p \in {"pending", "deployed"} : /\ Purge(p).do = "remove" /\ Purge(p).part = p
                                            /\ Purge(p).missing = "goOn"
  BY SendingSteps DEF Purge, Remove, Step, Parts
<1>3. /\ Terminal \in Quiet /\ Ask \in Quiet /\ Terminal.do = "terminal" /\ Ask.do = "ask"
      /\ Find("noAsk").do = "get" /\ Find("noAsk").missing = "noAsk"
  BY PlainSteps DEF Terminal, Ask, Find, Get, Step
<1>4. "req delete" \in Writes
  BY DEF Writes, RequisitionWrites
<1>5. \A p \in {"pending", "deployed"} : \A q : Removes(Purge(p), q) => q = p
  BY <1>2 DEF Removes
<1>6. CASE o.yes
  <2>1. s = <<Purge("pending"), Purge("deployed")>>
    BY <1>1, <1>6, JoiningTwo
  <2>2. Purge("pending") \in ServerStep /\ Purge("deployed") \in ServerStep
    BY <1>2, StepKinds
  <2>3. s \in Seq(ServerStep) /\ DOMAIN s = 1..2 /\ s[1] = Purge("pending") /\ s[2] = Purge("deployed")
    <3>1. <<Purge("pending"), Purge("deployed")>> \in Seq(ServerStep)
      BY <2>2, Tuples
    <3>2. s \in Seq(ServerStep)
      BY <2>1, <3>1
    <3> HIDE DEF s
    <3> QED BY <2>1, <3>2
  <2> HIDE DEF s
  <2>4. \A i \in DOMAIN s : s[i].missing \notin {"noAsk", "noop"} /\ s[i].do # "emit"
    BY <1>2, <2>3, StepKinds
  <2>5. Steady("req delete", o, s)
    <3>1. \A i, j \in DOMAIN s : i < j => ~(Removes(s[i], "deployed") /\ Removes(s[j], "pending"))
      BY <1>5, <2>3
    <3> QED BY <1>4, <2>3, <2>4, <3>1 DEF Steady
  <2>6. Removes(s[1], "pending") /\ Removes(s[2], "deployed")
    BY <1>2, <2>3 DEF Removes
  <2>7. \A p \in {"pending", "deployed"} : \E i \in DOMAIN s : Removes(s[i], p)
    <3>1. 1 \in DOMAIN s /\ 2 \in DOMAIN s
      BY <2>3
    <3> QED BY <2>6, <3>1
  <2> QED BY <1>6, <2>5, <2>7 DEF s
<1>7. CASE ~o.yes
  <2>1. s = <<Terminal, Find("noAsk"), Ask>> \o <<Purge("pending"), Purge("deployed")>>
    BY <1>1, <1>7
  <2>2. /\ Find("noAsk") \in ServerStep /\ Terminal \in ServerStep /\ Ask \in ServerStep
        /\ Purge("pending") \in ServerStep /\ Purge("deployed") \in ServerStep
    BY <1>2, <1>3, StepKinds DEF ServerStep
  <2>3. /\ s \in Seq(ServerStep) /\ Len(s) = 5
        /\ s[1] = Terminal /\ s[2] = Find("noAsk") /\ s[3] = Ask
        /\ s[4] = Purge("pending") /\ s[5] = Purge("deployed")
    <3>1. s = <<Terminal, Find("noAsk"), Ask, Purge("pending"), Purge("deployed")>>
      BY <2>1, JoiningFive
    <3>2. /\ DOMAIN s = 1..5
          /\ s[1] = Terminal /\ s[2] = Find("noAsk") /\ s[3] = Ask
          /\ s[4] = Purge("pending") /\ s[5] = Purge("deployed")
      <4> HIDE DEF s
      <4> QED BY <3>1
    <3>3. s \in Seq(ServerStep)
      BY <2>2, <3>1, Fives
    <3> HIDE DEF s
    <3>4. Len(s) \in Nat /\ DOMAIN s = 1..Len(s)
      BY <3>3, Elements
    <3> QED BY <3>2, <3>3, <3>4
  <2> HIDE DEF s
  <2>4. DOMAIN s = 1..5
    BY <2>3
  <2>5. \A i \in DOMAIN s : s[i].missing # "noop" /\ s[i].do # "emit"
    BY <1>2, <1>3, <2>3, <2>4, StepKinds
  <2>6. \A i \in DOMAIN s : s[i].missing = "noAsk" => i + 1 \in DOMAIN s /\ s[i + 1].do = "ask"
    BY <1>2, <1>3, <2>3, <2>4, StepKinds
  <2>7. \A i, j \in DOMAIN s : i < j => ~(Removes(s[i], "deployed") /\ Removes(s[j], "pending"))
    <3>1. \A i \in DOMAIN s : Removes(s[i], "deployed") => i = 5
      BY <1>2, <1>3, <2>3, <2>4 DEF Removes
    <3> QED BY <3>1, <2>4
  <2>8. Steady("req delete", o, s)
    BY <1>4, <2>3, <2>5, <2>6, <2>7 DEF Steady
  <2>9. Removes(s[4], "pending") /\ Removes(s[5], "deployed")
    BY <1>2, <2>3 DEF Removes
  <2>10. Asked(s)
    <3>1. \A j \in 1..3 : s[j].do # "remove"
      BY <1>3, <2>3
    <3> QED BY <1>3, <2>3, <2>4, <3>1 DEF Asked
  <2>11. \A p \in {"pending", "deployed"} : \E i \in DOMAIN s : Removes(s[i], p)
    <3>1. 4 \in DOMAIN s /\ 5 \in DOMAIN s
      BY <2>4
    <3> QED BY <2>9, <3>1
  <2> QED BY <2>8, <2>10, <2>11 DEF s
<1> QED BY <1>6, <1>7

LEMMA Programs ==
    ASSUME NEW v \in ServerVerbs, NEW o
    PROVE  /\ Steady(v, o, Steps(v, o))
           /\ v \in {"req delete", "user delete"} /\ ~o.yes => Asked(Steps(v, o))
           /\ v = "req delete" => \A p \in {"pending", "deployed"} :
                 \E i \in DOMAIN Steps(v, o) : Removes(Steps(v, o)[i], p)
           /\ v \in Deletes \ {"req delete"} =>
                 \E i \in DOMAIN Steps(v, o) : Removes(Steps(v, o)[i], "object")
<1>1. CASE v \in Deletes
  BY <1>1, DeletingPrograms, UserDeletePrograms, RequisitionDeletePrograms
<1>2. CASE v \notin Deletes
  <2> USE <1>2 DEF Deletes
  <2> DEFINE quiet == {"req status", "req list"} \cup NodeVerbs \cup InterfaceVerbs \cup ServiceVerbs
                      \cup CategoryVerbs \cup {"asset list", "asset get", "source list", "source get",
                      "source names", "source names-and-ids", "event list"} \cup QuietIam
                      \cup QuietOthers \cup QuietThresholds \cup QuietGraph \cup {"apply --dry-run"}
             senders == {"req import", "asset set", "source upload", "user set-password", "apply"}
             emitters == {"req export", "req convert", "source download", "source convert",
                          "source export", "thr export"}
  <2>1. v \in quiet \cup senders \cup emitters
    BY DEF ServerVerbs, RequisitionVerbs, NodeVerbs, InterfaceVerbs, ServiceVerbs, CategoryVerbs,
           AssetVerbs, SourceVerbs, EventVerbs, IamVerbs, SnmpVerbs, MaintenanceVerbs,
           DatacollectionVerbs, BusinessServiceVerbs, ThresholdVerbs, GraphVerbs, ApplyVerbs,
           QuietIam, QuietOthers, QuietThresholds, QuietGraph
  <2>2. v \in quiet => Steps(v, o) \in Seq(Quiet)
    BY RequisitionPrograms, PartPrograms, AssetPrograms, SourcePrograms, IamPrograms, OtherPrograms,
       ThresholdPrograms, GraphPrograms
  <2>3. v \in senders => Steps(v, o) \in Seq(Sender) /\ v \in Writes
    BY RequisitionPrograms, AssetPrograms, SourcePrograms, IamPrograms, GraphPrograms
       DEF Writes, RequisitionWrites, AssetWrites, SourceWrites, IamWrites, ApplyWrites
  <2>4. v \in emitters => \E p \in Policies : Steps(v, o) \in Seq(Emitter(p))
    BY RequisitionPrograms, SourcePrograms, ThresholdPrograms DEF Policies
  <2>5. v # "req delete" /\ v # "user delete"
    OBVIOUS
  <2> HIDE DEF quiet, senders, emitters
  <2>6. Steady(v, o, Steps(v, o))
    <3>1. CASE v \in quiet
      <4>1. Steps(v, o) \in Seq(Quiet) /\ v # "req delete"
        BY <2>2, <2>5, <3>1
      <4> HIDE DEF Deletes
      <4> QED BY <4>1, QuietPrograms
    <3>2. CASE v \in senders
      BY <2>3, <2>5, <3>2, OrdinaryPrograms
    <3>3. CASE v \in emitters
      BY <2>4, <2>5, <3>3, OrdinaryPrograms
    <3> QED BY <2>1, <3>1, <3>2, <3>3
  <2> QED BY <2>5, <2>6
<1> QED BY <1>1, <1>2

-----------------------------------------------------------------------------
Live == status \in {"running", "prompt"}
Demands(step, p) == step.do = "write" /\ ~step.tolerant /\ step.body # "rows" /\ step.part = p

\* ---- The inductive invariant, in parts.
Output ==
    [files : Seq(STRING), before : SUBSET STRING, written : SUBSET STRING, whole : BOOLEAN]

Invoked ==
    /\ status \in {"idle", "running", "prompt", "waiting", "ended", "crashed"}
    /\ run \in [verb : ServerVerbs \cup ConfigVerbs, opts : Options]
    /\ exit \in 0..15
    /\ parts \subseteq Objects /\ had \subseteq Objects /\ served \subseteq sent
    /\ confirmed \in BOOLEAN /\ touched \in BOOLEAN
    /\ others \in 0..MaxActs /\ again \in 0..MaxAgain
    /\ output \in Output
    /\ shell.env.context # None /\ shell.flags.readOnly \in BOOLEAN

\* What a command that has not begun, does not run or asks looks like.
Shaped ==
    /\ ~Live => rest = << >> /\ staged = None
    /\ status = "prompt" => rest # << >> /\ Here.do = "ask"
    /\ status = "waiting" => Waits
    /\ status \notin {"ended", "crashed"} => exit \in 0..2
    /\ status = "idle" => /\ sent = {} /\ served = {} /\ ~confirmed /\ ~touched
                          /\ had = parts /\ output.written = {} /\ exit = 0

\* Steps still to be taken are of the verb's own kind.
Programmed ==
    verb \in ServerVerbs =>
        /\ Steady(verb, opts, rest)
        /\ \A i \in DOMAIN rest : rest[i].do = "emit" => rest[i].part \in Policy
        /\ staged = None

\* Who may still send was not refused.
Gated ==
    /\ verb \in ConfigVerbs => sent = {}
    /\ sent # {} \/ status = "waiting" \/ (verb \in ServerVerbs /\ \E i \in DOMAIN rest : Sends(rest[i]))
          => ~(file # None /\ AskedReadOnly)
    /\ exit = 12 => status = "ended" /\ AskedReadOnly

\* What a delete has not removed it still will, and not unasked.
Due ==
    verb \in Deletes /\ ~touched /\ Live =>
        \A p \in parts : \E i \in DOMAIN rest : Removes(rest[i], p)
Confirmable ==
    verb \in {"req delete", "user delete"} /\ ~opts.yes /\ ~confirmed /\ ~touched /\ Live =>
        parts = {} \/ Asked(rest)

\* What a verb has to write and has not is still to be written.
Writing ==
    verb \in ServerVerbs /\ Live =>
        \A p \in Demanded : p \in served \/ \E i \in DOMAIN rest : Demands(rest[i], p)

\* How far config use-context has got, by the operations left to do.
Operations == <<"stage", "sync", "rename", "syncDir", "verify">>
Left == Len(rest)
Switching ==
    /\ rest \in Seq([do : {"stage", "sync", "rename", "syncDir", "verify"}, missing : {"NotFound"},
                     body : {"decoded"}, part : {"none"}, tolerant : {FALSE}])
    /\ Left <= 5
    /\ \A i \in 1..Left : rest[i].do = Operations[5 - Left + i]
    /\ status \notin {"prompt", "waiting"}
    /\ Live => loaded # None /\ Loads(loaded) /\ Target \in Names(loaded)
    /\ Live /\ Left = 4 => staged = [content |-> Rewritten, synced |-> FALSE]
    /\ Live /\ Left = 3 => staged = [content |-> Rewritten, synced |-> TRUE]
    /\ Live /\ Left <= 2 /\ ~touched => file.current = Target

Configured ==
    /\ {file, settled, loaded} \subseteq Configuration \cup {None}
    /\ verb # "config use-context" => settled = file
    /\ Loads(file) => Loads(settled)
    /\ loaded # None /\ Loads(loaded) => Loads(file)
    /\ verb = "config view" => rest = << >>
    /\ verb = "config use-context" => Switching

\* The server has run as many imports as were triggered and are no longer pending, its
\* last-import is that of the last of them, and the baseline is older than the own one.
Mine == IF "mine" \in accepted THEN 1 ELSE 0
Theirs == IF "other" \in accepted THEN 1 ELSE 0
Awaited ==
    /\ IW!TypeOK
    /\ clock + Mine + Theirs <= importers + (IF waitPhase \in {"snapshot", "trigger"} THEN 0 ELSE 1)
    /\ lastImport \in {None, clock}
    /\ snapshot # None => snapshot <= clock
    /\ waitPhase = "snapshot" => snapshot = None
    /\ waitPhase \in {"snapshot", "trigger"} => ~imported /\ "mine" \notin accepted
    /\ imported /\ snapshot # None => snapshot < clock
    /\ importers = 0 /\ ~imported =>
          "other" \notin accepted /\ clock = 0 /\ (waitPhase # "snapshot" => lastImport \in {None, snapshot})
    /\ IW!CompletedMeansImported

Strong ==
    /\ Invoked /\ Shaped /\ Programmed /\ Gated /\ Due /\ Confirmable /\ Writing /\ Configured /\ Awaited
    /\ DeletedIsGone /\ PendingGoesFirst /\ NothingUnconfirmed /\ ExitZeroIsServed /\ ConfigSurvives
    /\ FilesAreKept

-----------------------------------------------------------------------------
\* ---- What one step of a command that runs or asks may do to its program and the server.
Advances ==
    /\ rest # << >> /\ rest' = Tail(rest) /\ status' = "running" /\ exit' \in 0..2
    /\ Here.do = "ask" => confirmed'
    /\ Here.do = "remove" => Here.part \notin parts'
    /\ \A p \in Parts : Demands(Here, p) => p \in served'
Skips ==
    /\ rest # << >> /\ Here.missing = "noAsk" /\ parts = {}
    /\ rest' = Tail(Tail(rest)) /\ status' = "running" /\ exit' \in 0..2
Asks == rest # << >> /\ Here.do = "ask" /\ rest' = rest /\ status' = "prompt" /\ exit' = exit
Stops ==
    /\ rest' = << >>
    /\ \/ status' = "ended" /\ exit' \in (1..15) \ {12}
       \/ status' = "crashed" /\ exit' = exit
Ends ==
    /\ rest = << >> \/ (Here.missing = "noop" /\ parts = {})
    /\ rest' = << >> /\ status' = "ended" /\ exit' \in 0..2

Moves ==
    /\ Live
    /\ run' = run /\ had' = had /\ touched' = touched
    /\ sent' = sent \/ (verb \in ServerVerbs /\ rest # << >> /\ Sends(Here))
    /\ served \subseteq served' /\ served' \subseteq sent'
    /\ confirmed' \in BOOLEAN /\ (confirmed => confirmed')
    /\ \/ parts' = parts
       \/ rest # << >> /\ Here.do = "remove" /\ parts' = parts \ {Here.part}
    /\ verb \in ServerVerbs => staged' \in {staged, None}
    /\ Advances \/ Skips \/ Asks \/ Stops \/ Ends

LEMMA TailFacts ==
    ASSUME NEW S, NEW s \in Seq(S), s # << >>
    PROVE  /\ Tail(s) \in Seq(S) /\ Len(s) \in Nat /\ Len(s) >= 1 /\ Len(Tail(s)) = Len(s) - 1
           /\ Head(s) = s[1] /\ DOMAIN s = 1..Len(s) /\ DOMAIN Tail(s) = 1..(Len(s) - 1)
           /\ \A i \in 1..(Len(s) - 1) : Tail(s)[i] = s[i + 1] /\ i + 1 \in DOMAIN s
           /\ 1 \in DOMAIN s
           /\ \A i \in DOMAIN s : i # 1 => i - 1 \in 1..(Len(s) - 1) /\ Tail(s)[i - 1] = s[i]
<1>1. Tail(s) \in Seq(S) /\ Head(s) = s[1] /\ Len(s) \in Nat /\ Len(s) >= 1 /\ Len(Tail(s)) = Len(s) - 1
      /\ \A i \in 1..(Len(s) - 1) : Tail(s)[i] = s[i + 1]
  BY HeadTailProperties, EmptySeq
<1>2. DOMAIN s = 1..Len(s) /\ DOMAIN Tail(s) = 1..(Len(s) - 1)
  BY <1>1, LenProperties
<1> QED BY <1>1, <1>2

LEMMA SteadyTail ==
    ASSUME NEW v, NEW o, NEW s, Steady(v, o, s), s # << >>
    PROVE  Steady(v, o, Tail(s))
<1>1. s \in Seq(ServerStep)
  BY DEF Steady
<1> DEFINE t == Tail(s)
<1>2. /\ t \in Seq(ServerStep) /\ Len(s) \in Nat /\ DOMAIN t = 1..(Len(s) - 1) /\ DOMAIN s = 1..Len(s)
      /\ \A i \in DOMAIN t : t[i] = s[i + 1] /\ i + 1 \in DOMAIN s /\ i \in Nat
  BY <1>1, TailFacts
<1> HIDE DEF t
<1>3. v \notin Writes => \A i \in DOMAIN t : ~Sends(t[i])
  BY <1>2 DEF Steady
<1>4. \A i, j \in DOMAIN t : t[i].do = "emit" /\ t[j].do = "emit" => t[i].part = t[j].part
  <2>1. \A i, j \in DOMAIN s : s[i].do = "emit" /\ s[j].do = "emit" => s[i].part = s[j].part
    BY DEF Steady
  <2>2. SUFFICES ASSUME NEW i \in DOMAIN t, NEW j \in DOMAIN t PROVE
           t[i].do = "emit" /\ t[j].do = "emit" => t[i].part = t[j].part
    OBVIOUS
  <2>3. i + 1 \in DOMAIN s /\ j + 1 \in DOMAIN s /\ t[i] = s[i + 1] /\ t[j] = s[j + 1]
    BY <1>2
  <2> QED BY <2>1, <2>3
<1>5. ASSUME NEW i \in DOMAIN t, t[i].missing = "noAsk"
      PROVE  i + 1 \in DOMAIN t /\ t[i + 1].do = "ask"
  <2>1. s[i + 1].missing = "noAsk" /\ i + 1 \in DOMAIN s
    BY <1>2, <1>5
  <2>2. (i + 1) + 1 \in DOMAIN s /\ s[(i + 1) + 1].do = "ask"
    BY <2>1 DEF Steady
  <2>3. i + 1 \in DOMAIN t
    BY <1>2, <2>2
  <2> QED BY <1>2, <2>2, <2>3
<1>6. (\E i \in DOMAIN t : t[i].missing = "noop") => \A i \in DOMAIN t : t[i].do # "write"
  BY <1>2 DEF Steady
<1>7. \A i, j \in DOMAIN t : i < j => i + 1 \in DOMAIN s /\ j + 1 \in DOMAIN s /\ i + 1 < j + 1
  BY <1>2
<1>8. ASSUME v = "req delete", NEW i \in DOMAIN t, NEW j \in DOMAIN t, i < j
      PROVE  ~(Removes(t[i], "deployed") /\ Removes(t[j], "pending"))
  <2>1. i + 1 \in DOMAIN s /\ j + 1 \in DOMAIN s /\ i + 1 < j + 1
    BY <1>8, <1>7
  <2>2. ~(Removes(s[i + 1], "deployed") /\ Removes(s[j + 1], "pending"))
    BY <1>8, <2>1 DEF Steady
  <2> QED BY <1>2, <2>2
<1> QED BY <1>2, <1>3, <1>4, <1>5, <1>6, <1>8 DEF Steady, t

LEMMA SteadyEmpty ==
    ASSUME NEW v, NEW o
    PROVE  Steady(v, o, << >>)
<1>1. << >> \in Seq(ServerStep) /\ DOMAIN << >> = {}
  BY Tuples
<1> QED BY <1>1 DEF Steady

\* The step after a lookup that need not be confirmed is the question.
LEMMA SkipsAQuestion ==
    ASSUME NEW v, NEW o, NEW s, Steady(v, o, s), s # << >>, Head(s).missing = "noAsk"
    PROVE  /\ Tail(s) # << >> /\ Head(Tail(s)).do = "ask"
           /\ Head(s).do = "get"
<1>1. s \in Seq(ServerStep)
  BY DEF Steady
<1>2. Head(s) = s[1] /\ 1 \in DOMAIN s /\ DOMAIN s = 1..Len(s) /\ Len(s) \in Nat
      /\ Tail(s) \in Seq(ServerStep) /\ DOMAIN Tail(s) = 1..(Len(s) - 1)
      /\ \A i \in 1..(Len(s) - 1) : Tail(s)[i] = s[i + 1]
  BY <1>1, TailFacts
<1>3. 1 + 1 \in DOMAIN s /\ s[1 + 1].do = "ask"
  BY <1>2 DEF Steady
<1>4. 1 \in DOMAIN Tail(s)
  BY <1>2, <1>3
<1>5. Tail(s) # << >>
  BY <1>4
<1>6. Head(Tail(s)) = Tail(s)[1]
  BY <1>2, <1>5, TailFacts
<1>8. s[1] \in ServerStep
  BY <1>1, <1>2, Elements
<1> QED BY <1>2, <1>3, <1>4, <1>5, <1>6, <1>8, StepKinds

LEMMA SameRun ==
    run' = run =>
        /\ verb' = verb /\ opts' = opts /\ Policy' = Policy /\ Waits' = Waits
        /\ Objects' = Objects /\ Demanded' = Demanded
BY DEF verb, opts, Policy, Waits, Objects, Demanded

LEMMA RestShrinks ==
    ASSUME Programmed, verb \in ServerVerbs, Moves
    PROVE  /\ Steady(verb, opts, rest')
           /\ \A i \in DOMAIN rest' : \E j \in DOMAIN rest : rest'[i] = rest[j]
<1>1. Steady(verb, opts, rest) /\ rest \in Seq(ServerStep)
  BY DEF Programmed, Steady
<1>2. CASE rest # << >> /\ rest' = Tail(rest)
  <2>1. Steady(verb, opts, Tail(rest))
    BY <1>1, <1>2, SteadyTail
  <2>2. /\ DOMAIN Tail(rest) = 1..(Len(rest) - 1)
        /\ \A i \in 1..(Len(rest) - 1) : Tail(rest)[i] = rest[i + 1] /\ i + 1 \in DOMAIN rest
    BY <1>1, <1>2, TailFacts
  <2> QED BY <1>2, <2>1, <2>2
<1>3. CASE rest # << >> /\ Here.missing = "noAsk" /\ rest' = Tail(Tail(rest))
  <2> DEFINE t == Tail(rest)
  <2>1. t # << >>
    BY <1>1, <1>3, SkipsAQuestion DEF Here
  <2>2. Steady(verb, opts, t) /\ t \in Seq(ServerStep)
    <3>1. Steady(verb, opts, t)
      BY <1>1, <1>3, SteadyTail
    <3> QED BY <3>1 DEF Steady
  <2>3. Steady(verb, opts, Tail(t))
    BY <2>1, <2>2, SteadyTail
  <2>4. /\ DOMAIN Tail(t) = 1..(Len(t) - 1)
        /\ \A i \in 1..(Len(t) - 1) : Tail(t)[i] = t[i + 1] /\ i + 1 \in DOMAIN t
    BY <2>1, <2>2, TailFacts
  <2>5. /\ DOMAIN t = 1..(Len(rest) - 1)
        /\ \A i \in 1..(Len(rest) - 1) : t[i] = rest[i + 1] /\ i + 1 \in DOMAIN rest
    BY <1>1, <1>3, TailFacts
  <2>6. rest' = Tail(t)
    BY <1>3
  <2> HIDE DEF t
  <2> QED BY <2>3, <2>4, <2>5, <2>6
<1>4. CASE rest' = rest
  BY <1>1, <1>4
<1>5. CASE rest' = << >>
  BY <1>5, SteadyEmpty
<1> QED BY <1>2, <1>3, <1>4, <1>5 DEF Moves, Advances, Skips, Asks, Stops, Ends

LEMMA MovesProgrammed ==
    ASSUME Programmed, Moves
    PROVE  Programmed'
<1>1. run' = run
  BY DEF Moves
<1>2. verb' = verb /\ opts' = opts /\ Policy' = Policy
  BY <1>1, SameRun
<1> SUFFICES ASSUME verb \in ServerVerbs
             PROVE  /\ Steady(verb, opts, rest')
                    /\ \A i \in DOMAIN rest' : rest'[i].do = "emit" => rest'[i].part \in Policy
                    /\ staged' = None
  BY <1>2 DEF Programmed
<1>3. \A i \in DOMAIN rest : rest[i].do = "emit" => rest[i].part \in Policy
  BY DEF Programmed
<1>4. /\ Steady(verb, opts, rest')
      /\ \A i \in DOMAIN rest' : \E j \in DOMAIN rest : rest'[i] = rest[j]
  BY RestShrinks
<1>5. staged' = None
  BY DEF Moves, Programmed
<1> QED BY <1>3, <1>4, <1>5

LEMMA MovesShaped ==
    ASSUME Shaped, Moves, staged' = None \/ status' = "running" \/ status' = "prompt"
    PROVE  Shaped'
<1>1. Live' = (status' \in {"running", "prompt"})
  BY DEF Live
<1>2. status' \in {"running", "prompt", "ended", "crashed"}
  BY DEF Moves, Advances, Skips, Asks, Stops, Ends
<1>3. status' \notin {"running", "prompt"} => rest' = << >>
  BY DEF Moves, Advances, Skips, Asks, Stops, Ends
<1>4. status' = "prompt" => rest' # << >> /\ Head(rest').do = "ask"
  BY DEF Moves, Advances, Skips, Asks, Stops, Ends, Here
<1>5. exit \in 0..2
  BY DEF Shaped, Moves, Live
<1>6. status' \notin {"ended", "crashed"} => exit' \in 0..2
  BY <1>5 DEF Moves, Advances, Skips, Asks, Stops, Ends
<1> QED BY <1>1, <1>2, <1>3, <1>4, <1>6 DEF Shaped, Here

LEMMA MovesGated ==
    ASSUME Invoked, Programmed, Shaped, Gated, Moves,
           verb \in ServerVerbs => file' = file /\ shell' = shell
    PROVE  Gated'
<1>1. run' = run /\ verb' = verb
  BY SameRun DEF Moves
<1>2. verb \in ServerVerbs => AskedReadOnly' = AskedReadOnly
  BY DEF AskedReadOnly, AskedFor
<1>3. exit' # 12
  <2>1. exit \in 0..2
    BY DEF Shaped, Moves, Live
  <2> QED BY <2>1 DEF Moves, Advances, Skips, Asks, Stops, Ends
<1>4. status' # "waiting"
  BY DEF Moves, Advances, Skips, Asks, Stops, Ends
<1>5. CASE verb \in ConfigVerbs
  <2>1. verb \notin ServerVerbs
    BY <1>5 DEF ConfigVerbs, ServerVerbs, RequisitionVerbs, NodeVerbs, InterfaceVerbs, ServiceVerbs,
       CategoryVerbs, AssetVerbs, SourceVerbs, EventVerbs, IamVerbs, SnmpVerbs, MaintenanceVerbs,
       DatacollectionVerbs, BusinessServiceVerbs, ThresholdVerbs, GraphVerbs, ApplyVerbs
  <2>2. sent' = {}
    BY <1>5, <2>1 DEF Gated, Moves
  <2> QED BY <1>1, <1>2, <1>3, <1>4, <1>5, <2>1, <2>2 DEF Gated
<1>6. CASE verb \in ServerVerbs /\ verb \notin ConfigVerbs
  <2>1. \A i \in DOMAIN rest' : \E j \in DOMAIN rest : rest'[i] = rest[j]
    BY <1>6, RestShrinks
  <2>2. rest # << >> => 1 \in DOMAIN rest /\ Here = rest[1]
    BY <1>6, TailFacts DEF Programmed, Steady, Here
  <2>3. sent' # {} => sent # {} \/ \E i \in DOMAIN rest : Sends(rest[i])
    BY <2>2 DEF Moves
  <2> QED BY <1>1, <1>2, <1>3, <1>4, <1>6, <2>1, <2>3 DEF Gated
<1>7. verb \in ServerVerbs \cup ConfigVerbs
  BY DEF Invoked, verb
<1> QED BY <1>5, <1>6, <1>7

LEMMA DeletesAreVerbs == Deletes \subseteq Writes /\ Writes \subseteq ServerVerbs /\ ServerVerbs \cap ConfigVerbs = {}
BY DEF Deletes, Writes, ConfigVerbs, ServerVerbs, RequisitionVerbs, NodeVerbs, InterfaceVerbs, ServiceVerbs,
       CategoryVerbs, AssetVerbs, SourceVerbs, EventVerbs, IamVerbs, SnmpVerbs, MaintenanceVerbs,
       DatacollectionVerbs, BusinessServiceVerbs, ThresholdVerbs, GraphVerbs, ApplyVerbs,
       RequisitionWrites, AssetWrites, SourceWrites, IamWrites, MaintenanceWrites,
       DatacollectionWrites, BusinessServiceWrites, ThresholdWrites, GraphWrites, ApplyWrites

\* A step that is not the first is still to be taken after the first.
LEMMA Later ==
    ASSUME NEW S, NEW s \in Seq(S), s # << >>, NEW i \in DOMAIN s, s[i] # Head(s)
    PROVE  \E j \in DOMAIN Tail(s) : Tail(s)[j] = s[i]
BY TailFacts

LEMMA FirstOfAll ==
    ASSUME NEW S, NEW s \in Seq(S), s # << >>
    PROVE  s[1] = Head(s) /\ 1 \in DOMAIN s /\ \A i \in DOMAIN s : i # 1 => 1 < i
BY TailFacts

LEMMA EndsInRest ==
    ASSUME Moves, status' \notin {"running", "prompt"}
    PROVE  /\ status' = "ended" /\ exit' = 0 => Ends
           /\ ~Live'
BY DEF Moves, Advances, Skips, Asks, Stops, Ends, Live

LEMMA MovesDue ==
    ASSUME Invoked, Programmed, Due, PendingGoesFirst, Moves
    PROVE  Due' /\ DeletedIsGone' /\ PendingGoesFirst'
<1>1. run' = run /\ verb' = verb /\ had' = had /\ touched' = touched
  BY SameRun DEF Moves
<1>2. parts' \subseteq parts
  BY DEF Moves
<1>3. CASE verb \notin Deletes
  <2>1. verb # "req delete"
    BY <1>3 DEF Deletes
  <2> QED BY <1>1, <1>3, <2>1 DEF Due, DeletedIsGone, PendingGoesFirst
<1>4. CASE touched
  BY <1>1, <1>4 DEF Due, DeletedIsGone, PendingGoesFirst
<1>5. CASE verb \in Deletes /\ ~touched
  <2>1. verb \in ServerVerbs
    BY <1>5, DeletesAreVerbs
  <2>2. Steady(verb, opts, rest) /\ rest \in Seq(ServerStep)
    BY <2>1 DEF Programmed, Steady
  <2>3. \A p \in parts : \E i \in DOMAIN rest : Removes(rest[i], p)
    BY <1>5 DEF Due, Moves
  <2>4. Due'
    <3> SUFFICES ASSUME Live', NEW p \in parts'
                 PROVE  \E i \in DOMAIN rest' : Removes(rest'[i], p)
      BY <1>1 DEF Due
    <3>1. PICK i \in DOMAIN rest : Removes(rest[i], p)
      BY <1>2, <2>3
    <3>2. CASE Advances
      <4>1. rest # << >> /\ rest' = Tail(rest)
        BY <3>2 DEF Advances
      <4>2. rest[i] # Head(rest)
        BY <3>1, <3>2 DEF Advances, Removes, Here
      <4>3. PICK j \in DOMAIN Tail(rest) : Tail(rest)[j] = rest[i]
        BY <2>2, <4>1, <4>2, Later
      <4> QED BY <3>1, <4>1, <4>3
    <3>3. CASE Skips
      BY <1>2, <3>3 DEF Skips
    <3>4. CASE Asks
      BY <3>1, <3>4 DEF Asks
    <3> QED BY <3>2, <3>3, <3>4 DEF Moves, Stops, Ends, Live
  <2>5. DeletedIsGone'
    <3> SUFFICES ASSUME status' = "ended", exit' = 0
                 PROVE  parts' = {}
      BY <1>1 DEF DeletedIsGone, EndedWith
    <3>1. Ends
      BY EndsInRest
    <3>2. rest = << >> => DOMAIN rest = {}
      OBVIOUS
    <3>3. parts = {}
      BY <2>3, <3>1, <3>2 DEF Ends
    <3> QED BY <1>2, <3>3
  <2>6. PendingGoesFirst'
    <3> SUFFICES ASSUME verb = "req delete", "pending" \in parts'
                 PROVE  parts' = had
      BY <1>1 DEF PendingGoesFirst
    <3>1. parts = had /\ "pending" \in parts
      BY <1>2, <1>5 DEF PendingGoesFirst
    <3>2. SUFFICES ASSUME rest # << >>, Here.do = "remove", parts' = parts \ {Here.part}, Here.part \in parts
                   PROVE  FALSE
      BY <3>1 DEF Moves
    <3>3. PICK i \in DOMAIN rest : Removes(rest[i], "pending")
      BY <2>3, <3>1
    <3>4. Here.part # "pending"
      BY <3>2
    <3>5. /\ rest[1] = Here /\ 1 \in DOMAIN rest
          /\ \A j \in DOMAIN rest : j # 1 => 1 < j
      BY <2>2, <3>2, FirstOfAll DEF Here
    <3>6. i # 1 /\ 1 < i
      BY <3>3, <3>4, <3>5 DEF Removes
    <3>7. Here.part = "deployed"
      BY <3>2, <3>4 DEF Invoked, Objects, RequisitionVerbs
    <3>8. Removes(rest[1], "deployed")
      BY <3>2, <3>5, <3>7 DEF Removes
    <3>9. ~(Removes(rest[1], "deployed") /\ Removes(rest[i], "pending"))
      BY <2>2, <3>3, <3>5, <3>6 DEF Steady
    <3> QED BY <3>3, <3>8, <3>9
  <2> QED BY <2>4, <2>5, <2>6
<1> QED BY <1>3, <1>4, <1>5

LEMMA MovesConfirmable ==
    ASSUME Programmed, Confirmable, NothingUnconfirmed, Moves
    PROVE  Confirmable' /\ NothingUnconfirmed'
<1> DEFINE Holds == verb \in {"req delete", "user delete"} /\ ~opts.yes /\ ~confirmed' /\ ~touched
<1>1. /\ verb' = verb /\ opts' = opts /\ had' = had /\ touched' = touched
      /\ confirmed' \in BOOLEAN
  BY SameRun DEF Moves
<1>2. parts' \subseteq parts
  BY DEF Moves
<1>3. CASE ~Holds
  BY <1>1, <1>3 DEF Confirmable, NothingUnconfirmed
<1>4. CASE Holds
  <2>1. verb \in ServerVerbs
    BY <1>4, DeletesAreVerbs DEF Deletes
  <2>2. Steady(verb, opts, rest) /\ rest \in Seq(ServerStep)
    BY <2>1 DEF Programmed, Steady
  <2>3. ~confirmed
    BY <1>4 DEF Moves
  <2>4. parts = had
    BY <1>4, <2>3 DEF NothingUnconfirmed
  <2>5. parts = {} \/ Asked(rest)
    BY <1>4, <2>3 DEF Confirmable, Moves
  <2>6. Asked(rest) => rest # << >> /\ Here.do # "remove"
    <3> SUFFICES ASSUME Asked(rest) PROVE rest # << >> /\ Here.do # "remove"
      OBVIOUS
    <3>1. PICK i \in DOMAIN rest : rest[i].do = "ask" /\ \A j \in 1..i : rest[j].do # "remove"
      BY DEF Asked
    <3>2. rest # << >>
      BY <3>1
    <3>3. Here = rest[1] /\ 1 \in 1..i
      BY <2>2, <3>2, TailFacts DEF Here
    <3> QED BY <3>1, <3>2, <3>3
  <2>7. parts' = parts
    BY <2>5, <2>6 DEF Moves
  <2>8. NothingUnconfirmed'
    BY <1>1, <2>4, <2>7 DEF NothingUnconfirmed
  <2>9. Confirmable'
    <3> SUFFICES ASSUME Live', parts # {}
                 PROVE  Asked(rest')
      BY <1>1, <2>7 DEF Confirmable
    <3>1. PICK i \in DOMAIN rest : rest[i].do = "ask" /\ \A j \in 1..i : rest[j].do # "remove"
      BY <2>5 DEF Asked
    <3>2. CASE Advances
      <4>1. /\ rest # << >> /\ rest' = Tail(rest) /\ Here = rest[1] /\ Here.do # "ask"
            /\ DOMAIN rest = 1..Len(rest) /\ Len(rest) \in Nat
            /\ DOMAIN rest' = 1..(Len(rest) - 1)
            /\ \A j \in 1..(Len(rest) - 1) : rest'[j] = rest[j + 1]
        BY <1>4, <2>2, <3>2, TailFacts DEF Advances, Here
      <4>2. i # 1
        BY <3>1, <4>1
      <4>3. i - 1 \in DOMAIN rest' /\ rest'[i - 1] = rest[i]
        BY <4>1, <4>2
      <4>4. \A j \in 1..(i - 1) : rest'[j].do # "remove"
        <5> SUFFICES ASSUME NEW j \in 1..(i - 1) PROVE rest'[j].do # "remove"
          OBVIOUS
        <5>1. j \in 1..(Len(rest) - 1) /\ j + 1 \in 1..i
          BY <4>1
        <5> QED BY <3>1, <4>1, <5>1
      <4> QED BY <3>1, <4>3, <4>4 DEF Asked
    <3>3. CASE Skips
      BY <3>3 DEF Skips
    <3>4. CASE Asks
      BY <3>1, <3>4 DEF Asks, Asked
    <3> QED BY <3>2, <3>3, <3>4 DEF Moves, Stops, Ends, Live
  <2> QED BY <2>8, <2>9
<1> QED BY <1>3, <1>4

LEMMA MovesWriting ==
    ASSUME Invoked, Programmed, Writing, Moves, verb \in ServerVerbs => Demanded \subseteq Parts
    PROVE  Writing' /\ ExitZeroIsServed'
<1>1. /\ verb' = verb /\ Demanded' = Demanded /\ Waits' = Waits
      /\ served \subseteq served'
  BY SameRun DEF Moves
<1>2. CASE verb \in ConfigVerbs
  BY <1>1, <1>2, DeletesAreVerbs DEF Writing, ExitZeroIsServed
<1>3. CASE verb \in ServerVerbs /\ verb \notin ConfigVerbs
  <2>1. Steady(verb, opts, rest) /\ rest \in Seq(ServerStep)
    BY <1>3 DEF Programmed, Steady
  <2>2. \A p \in Demanded : p \in served \/ \E i \in DOMAIN rest : Demands(rest[i], p)
    BY <1>3 DEF Writing, Moves
  <2>3. Writing'
    <3> SUFFICES ASSUME Live', NEW p \in Demanded, p \notin served'
                 PROVE  \E i \in DOMAIN rest' : Demands(rest'[i], p)
      BY <1>1 DEF Writing
    <3>1. PICK i \in DOMAIN rest : Demands(rest[i], p)
      BY <1>1, <2>2
    <3>2. CASE Advances
      <4>1. rest # << >> /\ rest' = Tail(rest) /\ rest[i] # Head(rest)
        BY <1>3, <3>1, <3>2 DEF Advances, Here
      <4>2. PICK j \in DOMAIN Tail(rest) : Tail(rest)[j] = rest[i]
        BY <2>1, <4>1, Later
      <4> QED BY <3>1, <4>1, <4>2
    <3>3. CASE Skips
      <4> DEFINE t == Tail(rest)
      <4>1. rest # << >> /\ rest' = Tail(t) /\ Head(rest).missing = "noAsk"
        BY <3>3 DEF Skips, Here
      <4>2. t # << >> /\ Head(t).do = "ask" /\ Head(rest).do = "get"
        BY <2>1, <4>1, SkipsAQuestion
      <4>3. rest[i] # Head(rest) /\ rest[i] # Head(t)
        BY <3>1, <4>2 DEF Demands
      <4>4. PICK j \in DOMAIN t : t[j] = rest[i]
        BY <2>1, <4>1, <4>3, Later
      <4>5. t \in Seq(ServerStep)
        BY <2>1, <4>1, TailFacts
      <4> HIDE DEF t
      <4>6. PICK k \in DOMAIN Tail(t) : Tail(t)[k] = t[j]
        BY <4>2, <4>3, <4>4, <4>5, Later
      <4> QED BY <3>1, <4>1, <4>4, <4>6
    <3>4. CASE Asks
      BY <3>1, <3>4 DEF Asks
    <3> QED BY <3>2, <3>3, <3>4 DEF Moves, Stops, Ends, Live
  <2>4. ExitZeroIsServed'
    <3> SUFFICES ASSUME status' = "ended", exit' = 0, NEW p \in Demanded
                 PROVE  p \in served'
      BY <1>1 DEF ExitZeroIsServed, EndedWith
    <3>1. Ends
      BY EndsInRest
    <3>2. p \in served \/ \E i \in DOMAIN rest : Demands(rest[i], p)
      BY <2>2
    <3>3. \A i \in DOMAIN rest : rest[i].do # "write"
      <4>1. CASE rest = << >>
        BY <4>1
      <4>2. CASE rest # << >>
        <5>1. 1 \in DOMAIN rest /\ rest[1].missing = "noop"
          BY <2>1, <3>1, <4>2, FirstOfAll DEF Ends, Here
        <5> QED BY <2>1, <5>1 DEF Steady
      <4> QED BY <4>1, <4>2
    <3> QED BY <1>1, <3>2, <3>3 DEF Demands
  <2> QED BY <2>3, <2>4
<1> QED BY <1>2, <1>3 DEF Invoked, verb

LEMMA AwaitedFirst == IW!Init => Awaited
<1> SUFFICES ASSUME IW!Init PROVE Awaited
  OBVIOUS
<1>1. IW!TypeOK
  <2>1. MaxActs \in Nat /\ 0 \in 0..(MaxActs + 1) /\ 0 \in 0..MaxActs
    BY SessionAssumption
  <2> QED BY <2>1 DEF IW!Init, IW!TypeOK, IW!Waiting
<1>2. waitPhase = "snapshot" /\ accepted = {} /\ clock = 0 /\ importers = 0 /\ ~imported
      /\ lastImport \in {None, 0} /\ snapshot = None
  BY DEF IW!Init
<1>3. Mine = 0 /\ Theirs = 0
  BY <1>2 DEF Mine, Theirs
<1>4. clock + Mine + Theirs <= importers + (IF waitPhase \in {"snapshot", "trigger"} THEN 0 ELSE 1)
  BY <1>2, <1>3
<1> QED BY <1>1, <1>2, <1>4 DEF Awaited, IW!CompletedMeansImported

LEMMA AwaitedStays == Awaited /\ UNCHANGED waitVars => Awaited'
BY DEF Awaited, Mine, Theirs, waitVars, IW!TypeOK, IW!Waiting, IW!CompletedMeansImported

LEMMA AwaitedSteps == Awaited /\ IW!Next => Awaited'
<1> SUFFICES ASSUME Awaited, IW!Next PROVE Awaited'
  OBVIOUS
<1> USE SessionAssumption DEF Awaited, Mine, Theirs, IW!TypeOK, IW!Waiting, IW!CompletedMeansImported, IW!server
<1>1. CASE IW!Snapshot
  BY <1>1 DEF IW!Snapshot, IW!AfterSnapshot
<1>2. CASE IW!Trigger
  BY <1>2 DEF IW!Trigger
<1>3. CASE IW!PollOnce
  BY <1>3 DEF IW!PollOnce, IW!Poll, IW!AfterPoll, IW!Converged
<1>4. CASE IW!OtherTrigger
  BY <1>4 DEF IW!OtherTrigger
<1>5. CASE IW!Purge
  BY <1>5 DEF IW!Purge
<1>6. CASE IW!Clear
  BY <1>6 DEF IW!Clear
<1>7. ASSUME IW!RunImport("mine") PROVE Awaited'
  BY <1>7 DEF IW!RunImport
<1>8. ASSUME IW!RunImport("other") PROVE Awaited'
  BY <1>8 DEF IW!RunImport
<1> QED BY <1>1, <1>2, <1>3, <1>4, <1>5, <1>6, <1>7, <1>8 DEF IW!Next, IW!Step

-----------------------------------------------------------------------------
\* ---- Every step of a verb against the server is such a move.
LEMMA Statuses ==
    \A e : /\ ExitCode(e) \in 1..15
           /\ e # "ReadOnlyRefused" => ExitCode(e) # 12
BY DEF ExitCode, Dedicated

LEMMA NoneIsNoError == None \notin Errors
BY SessionAssumption

LEMMA SentIs ==
    \A a \in Answers : (a \in Served /\ Sent(a) = None) \/ (a \notin Served /\ Sent(a) \in Errors \ {"ReadOnlyRefused"})
<1> SUFFICES ASSUME NEW a \in Answers
             PROVE  (a \in Served /\ Sent(a) = None) \/ (a \notin Served /\ Sent(a) \in Errors \ {"ReadOnlyRefused"})
  OBVIOUS
<1>1. CASE a \in Served
  BY <1>1 DEF Sent
<1>2. CASE a \notin Served /\ a \in (Unconnected \cup Uncertain) \ {"5xx"}
  <2>1. Sent(a) = TransportError(a)
    BY <1>2 DEF Sent
  <2>2. a \in {"dns", "tls", "refused", "timeout", "redirect", "cut"}
    BY <1>2 DEF Unconnected, Uncertain
  <2>3. TransportError(a) \in Errors \ {"ReadOnlyRefused"}
    BY <2>2 DEF TransportError, Errors, Dedicated
  <2> QED BY <1>2, <2>1, <2>3
<1>3. CASE a \notin Served /\ a \notin (Unconnected \cup Uncertain) \ {"5xx"}
  BY <1>3 DEF Sent, Errors, Dedicated
<1> QED BY <1>1, <1>2, <1>3

LEMMA Answered ==
    ASSUME NEW a \in Answers, NEW b \in Bodies, NEW e \in ErrorsOf(a, b)
    PROVE  /\ e # "ReadOnlyRefused"
           /\ e = None /\ b \in {"drained", "upload"} => a \in Served
<1> DEFINE Fine == (Errors \ {"ReadOnlyRefused"}) \cup {None}
<1>1. (a \in Served /\ Sent(a) = None) \/ (a \notin Served /\ Sent(a) \in Errors \ {"ReadOnlyRefused"})
  BY SentIs
<1>2. Decoded(a) \in Fine /\ (Decoded(a) = None => a \in Served)
  BY <1>1, NoneIsNoError DEF Decoded, Errors, Dedicated
<1>3. Capped(a) \in Fine /\ Paged(a) \in Fine
  BY <1>1, <1>2 DEF Capped, Paged, Errors, Dedicated
<1>4. "ok" \in Served /\ {"PartialSuccess", "IamWhoamiUnavailable", "Config"} \subseteq Fine
  BY DEF Served, Errors, Dedicated
<1>5. Uploaded(a) \subseteq Fine /\ (None \in Uploaded(a) => a \in Served)
  BY <1>2, <1>4 DEF Uploaded
<1>6. WhoamiErrors(a) \subseteq Fine
  BY <1>2, <1>4 DEF WhoamiErrors
<1>7. /\ b = "decoded" => ErrorsOf(a, b) = {Decoded(a)}
      /\ b = "drained" => ErrorsOf(a, b) = {Sent(a)}
      /\ b = "raw" => ErrorsOf(a, b) = {Capped(a)}
      /\ b = "page" => ErrorsOf(a, b) = {Paged(a)}
      /\ b = "upload" => ErrorsOf(a, b) = Uploaded(a)
      /\ b = "whoami" => ErrorsOf(a, b) = WhoamiErrors(a)
      /\ b = "told" => ErrorsOf(a, b) = {IF Capped(a) = None THEN None ELSE "Config"}
      /\ b = "rows" => ErrorsOf(a, b) = {None, "PartialSuccess"}
  BY DEF ErrorsOf, Drained
<1>8. ErrorsOf(a, b) \subseteq Fine
  BY <1>1, <1>2, <1>3, <1>4, <1>5, <1>6, <1>7 DEF Bodies
<1>9. e # "ReadOnlyRefused"
  <2>1. "ReadOnlyRefused" \in Errors
    BY DEF Errors, Dedicated
  <2> QED BY <1>8, <2>1, NoneIsNoError
<1>10. b = "drained" /\ e = None => a \in Served
  BY <1>1, <1>7, NoneIsNoError
<1>11. b = "upload" /\ e = None => a \in Served
  BY <1>5, <1>7
<1> QED BY <1>9, <1>10, <1>11

LEMMA KindsOfChange ==
    \A s \in ServerStep :
        /\ s.do \in {"get", "write", "remove", "check", "terminal", "ask", "report", "emit"}
        /\ s.do = "remove" => ~s.tolerant /\ s.body = "drained" /\ s.missing \in {"NotFound", "goOn", "Config"}
        /\ s.do = "write" => s.missing = "NotFound" /\ s.body \in {"drained", "upload", "rows"}
        /\ s.do = "emit" => s.part \in Policies
        /\ s.tolerant \in BOOLEAN /\ s.body \in Bodies /\ s.missing \in Missing /\ s.part \in Parts
<1> USE DEF ServerStep, Sender, Quiet, AnyStep, Policies, Emit, Find, Get, Step, Bodies, Missing, Parts
<1>1. ASSUME NEW s \in Quiet
      PROVE  /\ s.do \notin {"remove", "write", "emit"}
  BY <1>1
<1>2. ASSUME NEW s \in Sender
      PROVE  /\ s.do = "remove" => ~s.tolerant /\ s.body = "drained" /\ s.missing \in {"NotFound", "goOn", "Config"}
             /\ s.do = "write" => s.missing = "NotFound" /\ s.body \in {"drained", "upload", "rows"}
             /\ s.do # "emit"
  BY <1>2
<1>3. ASSUME NEW p \in Policies PROVE Emit(p).do = "emit" /\ Emit(p).part = p
  BY <1>3
<1>4. Find("noop").do = "get" /\ Find("noAsk").do = "get"
  OBVIOUS
<1>5. \A s \in ServerStep : s \in AnyStep
  BY StepKinds
<1>6. \A s \in AnyStep : /\ s.do \in {"get", "write", "remove", "check", "terminal", "ask", "report", "emit"}
                         /\ s.tolerant \in BOOLEAN /\ s.body \in Bodies /\ s.missing \in Missing /\ s.part \in Parts
  OBVIOUS
<1> HIDE DEF Sender, Quiet, AnyStep, Policies, Emit, Find, Get, Step, Bodies, Missing, Parts
<1> QED BY <1>2, <1>3, <1>4, <1>5, <1>6

LEMMA HereIs ==
    ASSUME Programmed, verb \in ServerVerbs, rest # << >>
    PROVE  Here \in ServerStep /\ Here = rest[1] /\ 1 \in DOMAIN rest /\ rest \in Seq(ServerStep)
<1>1. rest \in Seq(ServerStep)
  BY DEF Programmed, Steady
<1>2. Here = rest[1] /\ 1 \in DOMAIN rest
  BY <1>1, FirstOfAll DEF Here
<1> QED BY <1>1, <1>2, Elements

\* The operations of config use-context are its own.
LEMMA WhoseStep ==
    ASSUME Invoked, Programmed, Configured, rest # << >>
    PROVE  IF verb \in ServerVerbs THEN Here \in ServerStep
           ELSE verb = "config use-context" /\ Here.do \in {"stage", "sync", "rename", "syncDir", "verify"}
<1>1. CASE verb \in ServerVerbs
  BY <1>1, HereIs
<1>2. CASE verb \notin ServerVerbs
  <2>1. verb \in ConfigVerbs
    BY <1>2 DEF Invoked, verb
  <2>2. verb = "config use-context" /\ Switching
    BY <2>1 DEF ConfigVerbs, Configured
  <2> DEFINE S == [do : {"stage", "sync", "rename", "syncDir", "verify"}, missing : {"NotFound"},
                   body : {"decoded"}, part : {"none"}, tolerant : {FALSE}]
  <2>3. rest \in Seq(S) /\ \A s \in S : s.do \in {"stage", "sync", "rename", "syncDir", "verify"}
    BY <2>2 DEF Switching
  <2> HIDE DEF S
  <2>4. Here \in S
    BY <2>3, FirstOfAll, Elements DEF Here
  <2> QED BY <1>2, <2>2, <2>3, <2>4
<1> QED BY <1>1, <1>2

LEMMA Continues ==
    ASSUME Programmed, verb \in ServerVerbs, Shaped, status = "running", rest # << >>,
           Here.do \in {"get", "write", "remove"}, NEW a \in Answers, NEW e \in ErrorsOf(a, Here.body),
           Continue(e, a)
    PROVE  \/ End(0) /\ a = "404" /\ Here.missing = "noop"
           \/ /\ rest' = Tail(Tail(rest)) /\ a = "404" /\ Here.missing = "noAsk"
              /\ UNCHANGED <<exit, staged, status>>
           \/ /\ rest' = Tail(rest) /\ UNCHANGED <<staged, status>> /\ exit' \in 0..2
              /\ e = None \/ (a = "404" /\ Here.missing = "goOn") \/ Here.tolerant
           \/ status' = "ended" /\ rest' = << >> /\ staged' = None /\ exit' \in (1..15) \ {12}
<1>1. Here \in ServerStep
  BY HereIs
<1>2. Here.body \in Bodies /\ Here.missing # "ReadOnlyRefused" /\ Here.tolerant \in BOOLEAN
  BY <1>1, KindsOfChange DEF Missing
<1>3. e # "ReadOnlyRefused"
  BY <1>2, Answered
<1>4. exit \in 0..2
  BY DEF Shaped
<1>5. \A x : x # "ReadOnlyRefused" /\ Failed(x) =>
            status' = "ended" /\ rest' = << >> /\ staged' = None /\ exit' \in (1..15) \ {12}
  BY Statuses DEF Failed, End
<1> QED BY <1>2, <1>3, <1>4, <1>5 DEF Continue, GoOn

\* A step of an invocation that talks to the server.
InOrder == Invoked /\ Shaped /\ Programmed /\ Configured

LEMMA Tried ==
    ASSUME InOrder, status = "running", rest # << >>,
           Here.do \in {"get", "write", "remove", "check", "terminal", "ask", "report", "emit"}
    PROVE  verb \in ServerVerbs /\ Here \in ServerStep /\ Live /\ exit \in 0..2
BY WhoseStep DEF InOrder, Live, Shaped

LEMMA ReadMoves ==
    ASSUME InOrder, Read
    PROVE  Moves /\ verb \in ServerVerbs /\ (staged' = None \/ status' = "running")
<1>1. status = "running" /\ rest # << >> /\ Here.do = "get"
  BY DEF Read, At
<1>2. verb \in ServerVerbs /\ Here \in ServerStep /\ Live
  BY <1>1, Tried
<1>3. PICK a \in Answers : Answerable(a) /\ \E e \in ErrorsOf(a, Here.body) : Continue(e, a)
  BY DEF Read
<1>4. PICK e \in ErrorsOf(a, Here.body) : Continue(e, a)
  BY <1>3
<1>5. Here.missing \in {"noop", "noAsk"} /\ a = "404" => parts = {}
  BY <1>2, <1>3, StepKinds DEF Answerable
<1>6. /\ parts' = parts /\ sent' = sent /\ served' = served /\ confirmed' = confirmed /\ touched' = touched
      /\ run' = run /\ had' = had
  BY DEF Read, effects, given, history
<1>7. served \subseteq sent /\ confirmed \in BOOLEAN /\ exit \in 0..2
  BY <1>1 DEF InOrder, Invoked, Shaped
<1>8. \/ End(0) /\ a = "404" /\ Here.missing = "noop"
      \/ /\ rest' = Tail(Tail(rest)) /\ a = "404" /\ Here.missing = "noAsk"
         /\ UNCHANGED <<exit, staged, status>>
      \/ /\ rest' = Tail(rest) /\ UNCHANGED <<staged, status>> /\ exit' \in 0..2
         /\ e = None \/ (a = "404" /\ Here.missing = "goOn") \/ Here.tolerant
      \/ status' = "ended" /\ rest' = << >> /\ staged' = None /\ exit' \in (1..15) \ {12}
  BY <1>1, <1>2, <1>4, Continues DEF InOrder
<1>9. staged = None
  BY <1>2 DEF InOrder, Programmed
<1>10. CASE End(0) /\ a = "404" /\ Here.missing = "noop"
  BY <1>2, <1>5, <1>6, <1>7, <1>10 DEF Moves, Ends, End
<1>11. CASE /\ rest' = Tail(Tail(rest)) /\ a = "404" /\ Here.missing = "noAsk"
            /\ UNCHANGED <<exit, staged, status>>
  BY <1>1, <1>2, <1>5, <1>6, <1>7, <1>11 DEF Moves, Skips
<1>12. CASE /\ rest' = Tail(rest) /\ UNCHANGED <<staged, status>> /\ exit' \in 0..2
  BY <1>1, <1>2, <1>6, <1>7, <1>12 DEF Moves, Advances, Demands
<1>13. CASE status' = "ended" /\ rest' = << >> /\ staged' = None /\ exit' \in (1..15) \ {12}
  BY <1>2, <1>6, <1>7, <1>13 DEF Moves, Stops
<1> QED BY <1>2, <1>8, <1>10, <1>11, <1>12, <1>13, <1>1 DEF End

LEMMA ChangeMoves ==
    ASSUME InOrder, Change
    PROVE  Moves /\ verb \in ServerVerbs /\ (staged' = None \/ status' = "running")
<1>1. status = "running" /\ rest # << >> /\ Here.do \in {"write", "remove"}
  BY DEF Change, At
<1>2. verb \in ServerVerbs /\ Here \in ServerStep /\ Live
  <2>1. Here.do \in {"get", "write", "remove", "check", "terminal", "ask", "report", "emit"}
    BY <1>1
  <2> QED BY <1>1, <2>1, Tried
<1>20. PICK a \in Answers : \E done \in MayBeServed(a) :
          /\ sent' = sent \cup {Here.part}
          /\ served' = IF done THEN served \cup {Here.part} ELSE served
          /\ parts' = IF done /\ Here.do = "remove" THEN parts \ {Here.part} ELSE parts
          /\ (Here.do = "remove" /\ Here.part \in parts => a # "404")
          /\ \E e \in ErrorsOf(a, Here.body) : Continue(e, a)
  BY DEF Change
<1>3. PICK done \in MayBeServed(a) :
          /\ sent' = sent \cup {Here.part}
          /\ served' = IF done THEN served \cup {Here.part} ELSE served
          /\ parts' = IF done /\ Here.do = "remove" THEN parts \ {Here.part} ELSE parts
          /\ (Here.do = "remove" /\ Here.part \in parts => a # "404")
          /\ \E e \in ErrorsOf(a, Here.body) : Continue(e, a)
  BY <1>20
<1>4. PICK e \in ErrorsOf(a, Here.body) : Continue(e, a)
  BY <1>3
<1>5. /\ Here.do = "remove" => ~Here.tolerant /\ Here.body = "drained" /\ Here.missing \in {"NotFound", "goOn", "Config"}
      /\ Here.do = "write" => Here.missing = "NotFound" /\ Here.body \in {"drained", "upload", "rows"}
      /\ Here.body \in Bodies
  BY <1>2, KindsOfChange
<1>6. /\ confirmed' = confirmed /\ touched' = touched /\ run' = run /\ had' = had
  BY DEF Change, given, history
<1>7. served \subseteq sent /\ confirmed \in BOOLEAN /\ exit \in 0..2
  BY <1>1 DEF InOrder, Invoked, Shaped
<1>8. a \in Served => done
  BY <1>3 DEF MayBeServed
<1>9. Here.body \in {"drained", "upload"} /\ e = None => done
  BY <1>4, <1>5, <1>8, Answered
<1>10. /\ Live /\ run' = run /\ had' = had /\ touched' = touched
       /\ sent' = sent \/ (verb \in ServerVerbs /\ rest # << >> /\ Sends(Here))
       /\ served \subseteq served' /\ served' \subseteq sent'
       /\ confirmed' \in BOOLEAN /\ (confirmed => confirmed')
       /\ \/ parts' = parts
          \/ rest # << >> /\ Here.do = "remove" /\ parts' = parts \ {Here.part}
  BY <1>1, <1>2, <1>3, <1>6, <1>7 DEF Sends
<1>11. \/ End(0) /\ a = "404" /\ Here.missing = "noop"
       \/ /\ rest' = Tail(Tail(rest)) /\ a = "404" /\ Here.missing = "noAsk"
          /\ UNCHANGED <<exit, staged, status>>
       \/ /\ rest' = Tail(rest) /\ UNCHANGED <<staged, status>> /\ exit' \in 0..2
          /\ e = None \/ (a = "404" /\ Here.missing = "goOn") \/ Here.tolerant
       \/ status' = "ended" /\ rest' = << >> /\ staged' = None /\ exit' \in (1..15) \ {12}
  BY <1>1, <1>2, <1>4, Continues DEF InOrder
<1>12. Here.missing \notin {"noop", "noAsk"}
  BY <1>1, <1>5
<1>13. CASE /\ rest' = Tail(rest) /\ UNCHANGED <<staged, status>> /\ exit' \in 0..2
            /\ e = None \/ (a = "404" /\ Here.missing = "goOn") \/ Here.tolerant
  <2>1. Here.do = "remove" => Here.part \notin parts'
    <3> SUFFICES ASSUME Here.do = "remove" PROVE Here.part \notin parts'
      OBVIOUS
    <3>1. CASE e = None
      BY <1>3, <1>5, <1>9, <3>1
    <3>2. CASE a = "404"
      BY <1>3, <3>2
    <3> QED BY <1>5, <1>13, <3>1, <3>2
  <2>2. ASSUME NEW p \in Parts, Demands(Here, p) PROVE p \in served'
    <3>1. Here.do = "write" /\ ~Here.tolerant /\ Here.body \in {"drained", "upload"} /\ Here.part = p
      BY <1>5, <2>2 DEF Demands
    <3>2. e = None
      BY <1>5, <1>13, <3>1
    <3> QED BY <1>3, <1>9, <3>1, <3>2
  <2>3. Advances
    BY <1>1, <1>13, <2>1, <2>2 DEF Advances
  <2> QED BY <1>1, <1>2, <1>10, <1>13, <2>3 DEF Moves
<1>14. CASE status' = "ended" /\ rest' = << >> /\ staged' = None /\ exit' \in (1..15) \ {12}
  BY <1>2, <1>10, <1>14 DEF Moves, Stops
<1> QED BY <1>11, <1>12, <1>13, <1>14

LEMMA LocalMoves ==
    ASSUME InOrder, Local
    PROVE  Moves /\ verb \in ServerVerbs /\ (staged' = None \/ status' \in {"running", "prompt"})
<1>1. status = "running" /\ rest # << >> /\ Here.do \in {"check", "terminal", "report", "ask"}
  BY DEF Local, At
<1>2. verb \in ServerVerbs /\ Here \in ServerStep /\ Live /\ exit \in 0..2
  BY <1>1, Tried
<1>3. /\ parts' = parts /\ sent' = sent /\ served' = served /\ confirmed' = confirmed /\ touched' = touched
      /\ run' = run /\ had' = had /\ served \subseteq sent /\ confirmed \in BOOLEAN
  BY DEF Local, effects, given, history, InOrder, Invoked
<1>4. Here.missing # "ReadOnlyRefused"
  BY <1>2, KindsOfChange DEF Missing
<1>5. \A x : x # "ReadOnlyRefused" /\ Failed(x) =>
            status' = "ended" /\ rest' = << >> /\ staged' = None /\ exit' \in (1..15) \ {12}
  BY Statuses DEF Failed, End
<1>6. CASE GoOn(exit) /\ Here.do # "ask"
  BY <1>1, <1>2, <1>3, <1>6 DEF GoOn, Moves, Advances, Demands
<1>7. CASE Failed(Here.missing) \/ Failed("Config")
  <2>1. status' = "ended" /\ rest' = << >> /\ staged' = None /\ exit' \in (1..15) \ {12}
    BY <1>4, <1>5, <1>7
  <2> QED BY <1>2, <1>3, <2>1 DEF Moves, Stops
<1>8. CASE At("report") /\ \E code \in 0..2 : GoOn(IF code > exit THEN code ELSE exit)
  <2>1. rest' = Tail(rest) /\ exit' \in 0..2 /\ staged' = staged /\ status' = status
    BY <1>2, <1>8 DEF GoOn
  <2> QED BY <1>1, <1>2, <1>3, <1>8, <2>1 DEF Moves, Advances, Demands, At
<1>9. CASE At("ask") /\ status' = "prompt" /\ UNCHANGED <<rest, exit, staged>>
  BY <1>1, <1>2, <1>3, <1>9 DEF Moves, Asks, At
<1> QED BY <1>6, <1>7, <1>8, <1>9 DEF Local, At

LEMMA ReplyMoves ==
    ASSUME InOrder, Reply
    PROVE  Moves /\ verb \in ServerVerbs /\ (staged' = None \/ status' = "running")
<1>1. status = "prompt" /\ rest # << >> /\ Here.do = "ask" /\ exit \in 0..2
  BY DEF Reply, InOrder, Shaped
<1>2. verb \in ServerVerbs
  BY <1>1, WhoseStep DEF InOrder
<1>3. /\ parts' = parts /\ sent' = sent /\ served' = served /\ touched' = touched
      /\ run' = run /\ had' = had /\ served \subseteq sent /\ confirmed \in BOOLEAN /\ Live
  BY <1>1 DEF Reply, effects, given, history, InOrder, Invoked, Live
<1>4. CASE status' = "running" /\ confirmed' = TRUE /\ rest' = Tail(rest) /\ UNCHANGED <<exit, staged>>
  BY <1>1, <1>2, <1>3, <1>4 DEF Moves, Advances, Demands
<1>5. CASE Failed("Config") /\ UNCHANGED confirmed
  <2>1. status' = "ended" /\ rest' = << >> /\ staged' = None /\ exit' \in (1..15) \ {12}
    BY <1>5, Statuses DEF Failed, End
  <2> QED BY <1>2, <1>3, <1>5, <2>1 DEF Moves, Stops
<1> QED BY <1>4, <1>5 DEF Reply

LEMMA EmitMoves ==
    ASSUME InOrder, EmitFiles
    PROVE  Moves /\ verb \in ServerVerbs /\ (staged' = None \/ status' = "running")
<1>1. status = "running" /\ rest # << >> /\ Here.do = "emit"
  BY DEF EmitFiles, At
<1>2. verb \in ServerVerbs /\ Live /\ exit \in 0..2
  BY <1>1, Tried
<1>3. /\ parts' = parts /\ sent' = sent /\ served' = served /\ confirmed' = confirmed /\ touched' = touched
      /\ run' = run /\ had' = had /\ served \subseteq sent /\ confirmed \in BOOLEAN
  BY DEF EmitFiles, effects, given, history, InOrder, Invoked
<1>4. GoOn(exit) \/ Failed("Config")
  BY DEF EmitFiles
<1>5. CASE GoOn(exit)
  BY <1>1, <1>2, <1>3, <1>5 DEF GoOn, Moves, Advances, Demands
<1>6. CASE Failed("Config")
  <2>1. status' = "ended" /\ rest' = << >> /\ staged' = None /\ exit' \in (1..15) \ {12}
    BY <1>6, Statuses DEF Failed, End
  <2> QED BY <1>2, <1>3, <2>1 DEF Moves, Stops
<1> QED BY <1>4, <1>5, <1>6

LEMMA EndMoves ==
    ASSUME InOrder, EndOfSteps
    PROVE  Moves /\ staged' = None /\ status' = "ended" /\ exit' = exit
<1>1. /\ parts' = parts /\ sent' = sent /\ served' = served /\ confirmed' = confirmed /\ touched' = touched
      /\ run' = run /\ had' = had /\ served \subseteq sent /\ confirmed \in BOOLEAN
  BY DEF EndOfSteps, effects, given, history, InOrder, Invoked
<1>2. status = "running" /\ Live /\ exit \in 0..2
  BY DEF EndOfSteps, Live, InOrder, Shaped
<1> QED BY <1>1, <1>2 DEF EndOfSteps, End, Moves, Ends

LEMMA CrashMoves ==
    ASSUME InOrder, Crash
    PROVE  Moves /\ staged' = None
<1>1. /\ parts' = parts /\ sent' = sent /\ served' = served /\ confirmed' = confirmed /\ touched' = touched
      /\ run' = run /\ had' = had /\ served \subseteq sent /\ confirmed \in BOOLEAN
  BY DEF Crash, effects, given, history, InOrder, Invoked
<1> QED BY <1>1 DEF Crash, Underway, Live, Moves, Stops

LEMMA UpwardsInRange ==
    ASSUME NEW N \in Nat, NEW T, 0 \in T, \A n \in 0..N : n + 1 \in 0..N /\ n \in T => n + 1 \in T
    PROVE  \A n \in 0..N : n \in T
  <1> DEFINE out == {0..n : n \in {m \in 0..N : m \notin T}}
             R == StrictSubsetOrdering(Nat)
             F == FiniteSubsetsOf(Nat)
  <1> SUFFICES ASSUME NEW k \in 0..N, k \notin T PROVE FALSE
    OBVIOUS
  <1>1. IsWellFoundedOn(R, F)
    BY FS_StrictSubsetOrderingWellFounded
  <1>2. out \subseteq F /\ out # {}
    <2>1. \A n \in 0..N : 0..n \in SUBSET Nat /\ IsFiniteSet(0..n)
      BY FS_Interval
    <2>2. \A n \in 0..N : 0..n \in F
      BY <2>1 DEF FiniteSubsetsOf
    <2> QED
      BY <2>2
  <1>3. PICK x \in out : \A y \in out : <<y, x>> \notin R
    <2> HIDE DEF out, R, F
    <2> QED
      BY <1>1, <1>2, WFMin
  <1>4. PICK n \in 0..N : n \notin T /\ x = 0..n
    BY <1>3
  <1>5. n # 0 /\ n - 1 \in 0..N /\ n - 1 \notin T
    BY <1>4
  <1>6. 0..(n - 1) \in out
    BY <1>5
  <1>7. 0..(n - 1) \subseteq x /\ 0..(n - 1) # x /\ x \in SUBSET Nat
    BY <1>4, <1>5
  <1>8. <<0..(n - 1), x>> \in R
    BY <1>7 DEF StrictSubsetOrdering
  <1> QED
    BY <1>3, <1>6, <1>8

-----------------------------------------------------------------------------
\* What Pick does place by place.
\* The first place of a range at which a set stops it.
LEMMA FirstStop ==
    ASSUME NEW N \in Nat, NEW T
    PROVE  \E k \in 0..N : (\A i \in 1..k : i \notin T) /\ (k < N => k + 1 \in T)
<1> SUFFICES ASSUME \A k \in 0..N : (\A i \in 1..k : i \notin T) => k < N /\ k + 1 \notin T
             PROVE  FALSE
  OBVIOUS
<1> DEFINE U == {k \in 0..N : \A i \in 1..k : i \notin T}
<1>1. 0 \in U
  OBVIOUS
<1>2. \A k \in 0..N : k + 1 \in 0..N /\ k \in U => k + 1 \in U
  <2> SUFFICES ASSUME NEW k \in 0..N, k + 1 \in 0..N, \A i \in 1..k : i \notin T, NEW i \in 1..(k + 1)
               PROVE  i \notin T
    OBVIOUS
  <2>1. i \in 1..k \/ i = k + 1
    OBVIOUS
  <2> QED BY <2>1
<1> HIDE DEF U
<1>3. N \in U
  <2>1. \A k \in 0..N : k \in U
    BY <1>1, <1>2, UpwardsInRange
  <2> QED BY <2>1
<1> QED BY <1>3 DEF U

\* As many different names as places, or fewer.
LEMMA NamesAtPlaces ==
    ASSUME NEW S, NEW s \in Seq(S)
    PROVE  LET T == {s[i] : i \in DOMAIN s}
           IN  /\ IsFiniteSet(T) /\ Cardinality(T) \in Nat /\ Cardinality(T) <= Len(s)
               /\ Cardinality(T) = Len(s) => \A i, j \in DOMAIN s : s[i] = s[j] => i = j
<1> DEFINE T == {s[i] : i \in DOMAIN s}
<1>1. Len(s) \in Nat /\ DOMAIN s = 1..Len(s) /\ s \in [1..Len(s) -> S]
  BY Elements, LenProperties
<1>2. IsFiniteSet(1..Len(s)) /\ Cardinality(1..Len(s)) = Len(s)
  BY <1>1, FS_Interval
<1>3. s \in Surjection(1..Len(s), T)
  BY <1>1 DEF Surjection
<1> HIDE DEF T
<1>4. /\ IsFiniteSet(T) /\ Cardinality(T) <= Len(s)
      /\ Cardinality(T) = Len(s) => s \in Injection(1..Len(s), T)
  BY <1>2, <1>3, FS_Surjection
<1>5. Cardinality(T) \in Nat
  BY <1>4, FS_CardinalityType
<1>6. Cardinality(T) = Len(s) => \A i, j \in DOMAIN s : s[i] = s[j] => i = j
  BY <1>1, <1>4 DEF Injection, IsInjective
<1> QED BY <1>4, <1>5, <1>6 DEF T

\* Files are written up to the first that may not be, or all at once.
LEMMA EachIsWritten ==
    ASSUME NEW files \in Seq(STRING), NEW before, NEW force
    PROVE  LET e == WriteEach(files, before, force)
           IN  e.written \subseteq STRING /\ e.all \in BOOLEAN
<1> DEFINE Stop(i) == files[i] = "unsafe"
           T == {i \in 1..Len(files) : Stop(i)}
           n == CHOOSE k \in 0..Len(files) :
                   /\ \A i \in 1..k : ~Stop(i)
                   /\ k < Len(files) => Stop(k + 1)
<1>1. Len(files) \in Nat /\ DOMAIN files = 1..Len(files) /\ \A i \in DOMAIN files : files[i] \in STRING
  BY Elements
<1>2. \E k \in 0..Len(files) : (\A i \in 1..k : i \notin T) /\ (k < Len(files) => k + 1 \in T)
  <2> HIDE DEF T
  <2> QED BY <1>1, FirstStop
<1>3. \E k \in 0..Len(files) : /\ \A i \in 1..k : ~Stop(i)
                               /\ k < Len(files) => Stop(k + 1)
  <2> HIDE DEF Stop
  <2> QED BY <1>1, <1>2
<1>4. n \in 0..Len(files)
  <2> HIDE DEF Stop
  <2> QED BY <1>3
<1>5. WriteEach(files, before, force) = [written |-> {files[i] : i \in 1..n}, all |-> n = Len(files)]
  BY DEF WriteEach, Upto
<1> HIDE DEF n, Stop, T
<1>6. {files[i] : i \in 1..n} \subseteq STRING
  BY <1>1, <1>4
<1> QED BY <1>5, <1>6

LEMMA GuardedIsWritten ==
    ASSUME NEW files \in Seq(STRING), NEW before, NEW force
    PROVE  LET e == WriteGuarded(files, before, force)
           IN  /\ e.written \subseteq STRING /\ e.all \in BOOLEAN
               /\ ~force => e.written \cap before = {}
<1> DEFINE Stop(i) == ~force /\ files[i] \in before \cup {files[j] : j \in 1..(i - 1)}
           T == {i \in 1..Len(files) : Stop(i)}
           n == CHOOSE k \in 0..Len(files) :
                   /\ \A i \in 1..k : ~Stop(i)
                   /\ k < Len(files) => Stop(k + 1)
<1>1. Len(files) \in Nat /\ DOMAIN files = 1..Len(files) /\ \A i \in DOMAIN files : files[i] \in STRING
  BY Elements
<1>2. \E k \in 0..Len(files) : (\A i \in 1..k : i \notin T) /\ (k < Len(files) => k + 1 \in T)
  <2> HIDE DEF T
  <2> QED BY <1>1, FirstStop
<1>3. \E k \in 0..Len(files) : /\ \A i \in 1..k : ~Stop(i)
                               /\ k < Len(files) => Stop(k + 1)
  <2> HIDE DEF Stop
  <2> QED BY <1>1, <1>2
<1>4. n \in 0..Len(files) /\ \A i \in 1..n : ~Stop(i)
  <2> HIDE DEF Stop
  <2> QED BY <1>3
<1>5. WriteGuarded(files, before, force) = [written |-> {files[i] : i \in 1..n}, all |-> n = Len(files)]
  BY DEF WriteGuarded, Upto
<1> HIDE DEF n
<1>6. ~force => \A i \in 1..n : files[i] \notin before
  BY <1>4
<1>7. {files[i] : i \in 1..n} \subseteq STRING
  BY <1>1, <1>4
<1>8. ~force => {files[i] : i \in 1..n} \cap before = {}
  BY <1>6
<1>9. (n = Len(files)) \in BOOLEAN
  OBVIOUS
<1> QED BY <1>5, <1>7, <1>8, <1>9

LEMMA AllAreWritten ==
    ASSUME NEW files \in Seq(STRING), NEW before, NEW force
    PROVE  \A e \in {WriteFiles(files, before, force), RenderExport(files, before, force)} :
               /\ e.written \subseteq STRING /\ e.all \in BOOLEAN
               /\ e.written # {} => e.all
               /\ ~force => e.written \cap before = {}
<1>1. DOMAIN files = 1..Len(files) /\ \A i \in DOMAIN files : files[i] \in STRING
  BY Elements
<1> DEFINE W == WriteFiles(files, before, force)
           Holds(e) == /\ e.written \subseteq STRING /\ e.all \in BOOLEAN
                       /\ e.written # {} => e.all
                       /\ ~force => e.written \cap before = {}
<1>2. Holds([written |-> {}, all |-> FALSE])
  OBVIOUS
<1>3. ASSUME \A i \in DOMAIN files : Writable(files[i], before, force)
      PROVE  Holds(W)
  <2>1. W = [written |-> {files[i] : i \in DOMAIN files}, all |-> TRUE]
    BY <1>3 DEF WriteFiles
  <2>2. ~force => \A i \in DOMAIN files : files[i] \notin before
    BY <1>3 DEF Writable
  <2>3. Holds([written |-> {files[i] : i \in DOMAIN files}, all |-> TRUE])
    BY <1>1, <2>2
  <2> QED BY <2>1, <2>3
<1>4. ASSUME ~\A i \in DOMAIN files : Writable(files[i], before, force)
      PROVE  Holds(W)
  <2>1. W = [written |-> {}, all |-> FALSE]
    BY <1>4 DEF WriteFiles
  <2> QED BY <1>2, <2>1
<1>5. RenderExport(files, before, force) \in {W, [written |-> {}, all |-> FALSE]}
  BY DEF RenderExport
<1>6. Holds(W)
  BY <1>3, <1>4
<1> HIDE DEF W, Holds
<1>7. \A e \in {W, RenderExport(files, before, force)} : Holds(e)
  BY <1>2, <1>5, <1>6
<1> QED BY <1>7 DEF W, Holds

LEMMA ExportIsWhole ==
    ASSUME NEW files \in Seq(STRING), NEW before, NEW force,
           RenderExport(files, before, force).written # {}
    PROVE  Cardinality(RenderExport(files, before, force).written) = Len(files)
<1> DEFINE T == {files[i] : i \in DOMAIN files}
<1>1. Len(files) \in Nat /\ Cardinality(T) \in Nat /\ Cardinality(T) <= Len(files)
  BY NamesAtPlaces, Elements
<1>2. /\ ~(Cardinality(T) < Len(files))
      /\ RenderExport(files, before, force).written = T
  BY DEF RenderExport, WriteFiles
<1> HIDE DEF T
<1> QED BY <1>1, <1>2

LEMMA EmittedIs ==
    ASSUME NEW p \in Policies, NEW files \in Seq(STRING), NEW before, NEW force
    PROVE  LET e == Emitted(p, files, before, force)
           IN  /\ e.written \subseteq STRING /\ e.all \in BOOLEAN
               /\ p \in {"guarded", "files", "export"} /\ ~force => e.written \cap before = {}
               /\ p \in {"files", "export"} /\ e.written # {} => e.all
               /\ p = "export" /\ e.written # {} => Cardinality(e.written) = Len(files)
<1>1. CASE p = "each"
  BY <1>1, EachIsWritten DEF Emitted
<1>2. CASE p = "guarded"
  BY <1>2, GuardedIsWritten DEF Emitted
<1>3. CASE p = "files"
  BY <1>3, AllAreWritten DEF Emitted
<1>4. CASE p = "export"
  BY <1>4, AllAreWritten, ExportIsWhole DEF Emitted
<1> QED BY <1>1, <1>2, <1>3, <1>4 DEF Policies

LEMMA DemandedAreParts ==
    ASSUME verb \in ServerVerbs
    PROVE  Demanded \subseteq Parts /\ \A p, q \in Policy : p = q
<1>1. Steady(verb, opts, Steps(verb, opts)) /\ Steps(verb, opts) \in Seq(ServerStep)
  BY Programs DEF Steady
<1>2. \A i \in DOMAIN Steps(verb, opts) : Steps(verb, opts)[i] \in ServerStep
  BY <1>1, Elements
<1>3. Demanded \subseteq Parts
  BY <1>2, KindsOfChange DEF Demanded
<1>4. \A p, q \in Policy : p = q
  BY <1>1 DEF Policy, Steady
<1> QED BY <1>3, <1>4

LEMMA GateHolds == Gated => ReadOnlyIsKept
BY DEF Gated, ReadOnlyIsKept, EndedWith

LEMMA MovesInvoked ==
    ASSUME Invoked, Shaped, Moves, others' \in 0..MaxActs, again' = again,
           output' \in Output, shell' = shell
    PROVE  Invoked'
<1>1. run' = run /\ Objects' = Objects /\ had' = had /\ touched' = touched /\ confirmed' \in BOOLEAN
      /\ parts' \subseteq parts /\ served' \subseteq sent'
  BY SameRun DEF Moves
<1>2. status' \in {"running", "prompt", "ended", "crashed"}
  BY DEF Moves, Advances, Skips, Asks, Stops, Ends
<1>3. exit \in 0..2
  BY DEF Shaped, Moves, Live
<1>4. exit' \in 0..15
  BY <1>3 DEF Moves, Advances, Skips, Asks, Stops, Ends
<1> QED BY <1>1, <1>2, <1>4 DEF Invoked

LEMMA StillConfigured ==
    ASSUME Configured, ConfigSurvives, verb \in ServerVerbs, run' = run,
           file' = file, settled' = settled, loaded' = loaded
    PROVE  Configured' /\ ConfigSurvives'
<1>1. verb' = verb /\ verb \notin ConfigVerbs
  BY SameRun, DeletesAreVerbs
<1>2. verb # "config use-context" /\ verb # "config view"
  BY <1>1 DEF ConfigVerbs
<1>3. Loads(file)' = Loads(file) /\ Loads(settled)' = Loads(settled) /\ Loads(loaded)' = Loads(loaded)
  BY DEF Loads
<1> QED BY <1>1, <1>2, <1>3 DEF Configured, ConfigSurvives

LEMMA FilesStay ==
    ASSUME FilesAreKept, run' = run, output' = output
    PROVE  FilesAreKept'
BY SameRun DEF FilesAreKept

LEMMA ServerMoves ==
    ASSUME Strong, Moves, verb \in ServerVerbs,
           staged' = None \/ status' \in {"running", "prompt"},
           file' = file, settled' = settled, loaded' = loaded, shell' = shell,
           others' = others, again' = again, output' \in Output, FilesAreKept',
           UNCHANGED waitVars
    PROVE  Strong'
<1> USE DEF Strong
<1>1. run' = run
  BY DEF Moves
<1>2. Invoked'
  BY MovesInvoked DEF Invoked
<1>3. Shaped' /\ Programmed' /\ Gated'
  <2>1. Shaped'
    BY MovesShaped
  <2> QED BY <2>1, MovesProgrammed, MovesGated
<1>4. Due' /\ DeletedIsGone' /\ PendingGoesFirst' /\ Confirmable' /\ NothingUnconfirmed'
  BY MovesDue, MovesConfirmable
<1>5. Writing' /\ ExitZeroIsServed'
  BY MovesWriting, DemandedAreParts
<1>6. Configured' /\ ConfigSurvives'
  BY <1>1, StillConfigured
<1>7. Awaited'
  BY AwaitedStays
<1> QED BY <1>2, <1>3, <1>4, <1>5, <1>6, <1>7

LEMMA ConfigMoves ==
    ASSUME Strong, Moves, verb \in ConfigVerbs,
           staged' = None \/ status' \in {"running", "prompt"},
           Configured', ConfigSurvives', shell' = shell,
           others' = others, again' = again, output' = output, UNCHANGED waitVars
    PROVE  Strong'
<1> USE DEF Strong
<1>1. run' = run /\ verb \notin ServerVerbs
  BY DeletesAreVerbs DEF Moves
<1>2. Invoked'
  BY MovesInvoked DEF Invoked
<1>3. Shaped' /\ Programmed' /\ Gated'
  <2>1. Shaped'
    BY MovesShaped
  <2> QED BY <1>1, <2>1, MovesProgrammed, MovesGated
<1>4. Due' /\ DeletedIsGone' /\ PendingGoesFirst' /\ Confirmable' /\ NothingUnconfirmed'
  BY MovesDue, MovesConfirmable
<1>5. Writing' /\ ExitZeroIsServed'
  BY <1>1, MovesWriting
<1>6. FilesAreKept'
  BY <1>1, FilesStay
<1>7. Awaited'
  BY AwaitedStays
<1> QED BY <1>2, <1>3, <1>4, <1>5, <1>6, <1>7

LEMMA Requests ==
    ASSUME Strong, Read \/ Change \/ Local \/ Reply
    PROVE  Strong'
<1>1. InOrder
  BY DEF Strong, InOrder
<1>2. Moves /\ verb \in ServerVerbs /\ (staged' = None \/ status' \in {"running", "prompt"})
  BY <1>1, ReadMoves, ChangeMoves, LocalMoves, ReplyMoves
<1>3. /\ file' = file /\ settled' = settled /\ loaded' = loaded /\ shell' = shell
      /\ others' = others /\ again' = again /\ output' = output /\ UNCHANGED waitVars
  BY DEF Read, Change, Local, Reply, disk, given, history
<1>4. FilesAreKept' /\ output' \in Output
  <2>1. run' = run
    BY <1>2 DEF Moves
  <2> QED BY <1>3, <2>1, FilesStay DEF Strong, Invoked
<1> QED BY <1>2, <1>3, <1>4, ServerMoves

LEMMA Emissions ==
    ASSUME Strong, EmitFiles
    PROVE  Strong'
<1>1. InOrder
  BY DEF Strong, InOrder
<1>2. Moves /\ verb \in ServerVerbs /\ (staged' = None \/ status' \in {"running", "prompt"}) /\ run' = run
  BY <1>1, EmitMoves DEF Moves
<1>3. /\ file' = file /\ settled' = settled /\ loaded' = loaded /\ shell' = shell
      /\ others' = others /\ again' = again /\ UNCHANGED waitVars
  BY DEF EmitFiles, disk, given, history
<1>4. rest # << >> /\ Here.do = "emit"
  BY DEF EmitFiles, At
<1>5. Here.part \in Policy /\ Here.part \in Policies
  <2>1. Here \in ServerStep /\ Here = rest[1] /\ 1 \in DOMAIN rest
    BY <1>2, <1>4, HereIs DEF Strong
  <2> QED BY <1>2, <1>4, <2>1, KindsOfChange DEF Strong, Programmed
<1> DEFINE p == Here.part
           e == Emitted(p, output.files, output.before, opts.force)
<1>6. Policy = {p}
  BY <1>2, <1>5, DemandedAreParts
<1>7. output \in Output
  BY DEF Strong, Invoked
<1>8. output' = [output EXCEPT !.written = e.written, !.whole = e.all]
  BY DEF EmitFiles
<1>9. /\ e.written \subseteq STRING /\ e.all \in BOOLEAN
      /\ p \in {"guarded", "files", "export"} /\ ~opts.force => e.written \cap output.before = {}
      /\ p \in {"files", "export"} /\ e.written # {} => e.all
      /\ p = "export" /\ e.written # {} => Cardinality(e.written) = Len(output.files)
  <2>1. output.files \in Seq(STRING)
    BY <1>7 DEF Output
  <2> QED BY <1>5, <2>1, EmittedIs
<1> HIDE DEF e
<1>10. /\ output' \in Output /\ output'.written = e.written /\ output'.whole = e.all
       /\ output'.before = output.before /\ output'.files = output.files
  BY <1>7, <1>8, <1>9 DEF Output
<1>11. FilesAreKept'
  <2>1. verb' = verb /\ opts' = opts /\ Policy' = {p}
    BY <1>2, <1>6, SameRun
  <2> HIDE DEF p
  <2> QED BY <1>9, <1>10, <2>1 DEF FilesAreKept
<1> QED BY <1>2, <1>3, <1>10, <1>11, ServerMoves

-----------------------------------------------------------------------------
\* ---- config use-context
FileSteps ==
    [do : {"stage", "sync", "rename", "syncDir", "verify"}, missing : {"NotFound"},
     body : {"decoded"}, part : {"none"}, tolerant : {FALSE}]

LEMMA UseContextIs ==
    /\ UseContext \in Seq(FileSteps) /\ Len(UseContext) = 5
    /\ \A i \in 1..5 : UseContext[i].do = Operations[i]
<1>1. \A d \in {"stage", "sync", "rename", "syncDir", "verify"} : Step(d) \in FileSteps /\ Step(d).do = d
  BY DEF Step, FileSteps
<1> DEFINE a == Step("stage")
           b == Step("sync")
           c == Step("rename")
           d == Step("syncDir")
           e == Step("verify")
<1>2. /\ a \in FileSteps /\ b \in FileSteps /\ c \in FileSteps /\ d \in FileSteps /\ e \in FileSteps
      /\ a.do = "stage" /\ b.do = "sync" /\ c.do = "rename" /\ d.do = "syncDir" /\ e.do = "verify"
  BY <1>1
<1>3. LocalSteps(<<"stage", "sync", "rename", "syncDir">>) = <<a, b, c, d>>
  BY DEF LocalSteps
<1>4. LocalSteps(<<"verify">>) = <<e>>
  BY DEF LocalSteps
<1>5. UseContext = <<a, b, c, d>> \o <<e>>
  BY <1>3, <1>4 DEF UseContext, WriteAtomic
<1> HIDE DEF a, b, c, d, e
<1>6. <<a, b, c, d>> \in Seq(FileSteps) /\ <<e>> \in Seq(FileSteps)
  BY <1>2, Tuples
<1>7. Len(<<a, b, c, d>>) = 4 /\ Len(<<e>>) = 1
  OBVIOUS
<1>8. /\ UseContext \in Seq(FileSteps) /\ Len(UseContext) = 4 + 1
      /\ \A i \in 1..5 : UseContext[i] = IF i <= 4 THEN <<a, b, c, d>>[i] ELSE <<e>>[i - 4]
  BY <1>5, <1>6, <1>7, ConcatProperties
<1>9. UseContext[1] = a /\ UseContext[2] = b /\ UseContext[3] = c /\ UseContext[4] = d /\ UseContext[5] = e
  BY <1>8
<1>10. \A i \in 1..5 : i = 1 \/ i = 2 \/ i = 3 \/ i = 4 \/ i = 5
  OBVIOUS
<1> QED BY <1>2, <1>8, <1>9, <1>10 DEF Operations

\* Which operation is next, by how many are left.
LEMMA NextOperation ==
    ASSUME Switching, rest # << >>
    PROVE  /\ Left \in 1..5 /\ Here.do = Operations[6 - Left]
           /\ Tail(rest) \in Seq(FileSteps) /\ Len(Tail(rest)) = Left - 1
           /\ \A i \in 1..(Left - 1) : Tail(rest)[i].do = Operations[5 - (Left - 1) + i]
<1>1. rest \in Seq(FileSteps) /\ Left <= 5 /\ \A i \in 1..Left : rest[i].do = Operations[5 - Left + i]
  BY DEF Switching, FileSteps
<1>2. /\ Tail(rest) \in Seq(FileSteps) /\ Left \in Nat /\ Left >= 1 /\ Len(Tail(rest)) = Left - 1
      /\ Here = rest[1] /\ \A i \in 1..(Left - 1) : Tail(rest)[i] = rest[i + 1]
  BY <1>1, TailFacts DEF Left, Here
<1>3. Left \in 1..5 /\ 5 - Left + 1 = 6 - Left /\ 1 \in 1..Left
  BY <1>1, <1>2
<1>4. Here.do = Operations[6 - Left]
  <2>1. rest[1].do = Operations[5 - Left + 1]
    BY <1>1, <1>3
  <2> QED BY <1>2, <1>3, <2>1
<1>5. ASSUME NEW i \in 1..(Left - 1)
      PROVE  Tail(rest)[i].do = Operations[5 - (Left - 1) + i]
  <2>1. i + 1 \in 1..Left /\ 5 - Left + (i + 1) = 5 - (Left - 1) + i
    BY <1>3
  <2> QED BY <1>1, <1>2, <2>1
<1> QED BY <1>2, <1>3, <1>4, <1>5

LEMMA OperationsLeft ==
    ASSUME NEW n \in 1..5
    PROVE  /\ Operations[6 - n] = "stage" => n = 5
           /\ Operations[6 - n] = "sync" => n = 4
           /\ Operations[6 - n] = "rename" => n = 3
           /\ Operations[6 - n] = "syncDir" => n = 2
           /\ Operations[6 - n] = "verify" => n = 1
<1>1. n = 1 \/ n = 2 \/ n = 3 \/ n = 4 \/ n = 5
  OBVIOUS
<1>2. /\ Operations[1] = "stage" /\ Operations[2] = "sync" /\ Operations[3] = "rename"
      /\ Operations[4] = "syncDir" /\ Operations[5] = "verify"
  BY DEF Operations
<1>3. CASE n = 1
  <2>1. 6 - n = 5
    BY <1>3
  <2> QED BY <1>2, <1>3, <2>1
<1>4. CASE n = 2
  <2>1. 6 - n = 4
    BY <1>4
  <2> QED BY <1>2, <1>4, <2>1
<1>5. CASE n = 3
  <2>1. 6 - n = 3
    BY <1>5
  <2> QED BY <1>2, <1>5, <2>1
<1>6. CASE n = 4
  <2>1. 6 - n = 2
    BY <1>6
  <2> QED BY <1>2, <1>6, <2>1
<1>7. CASE n = 5
  <2>1. 6 - n = 1
    BY <1>7
  <2> QED BY <1>2, <1>7, <2>1
<1> QED BY <1>1, <1>3, <1>4, <1>5, <1>6, <1>7

\* The rewritten file is one that loads, and its context is the target.
LEMMA RewrittenLoads ==
    ASSUME Configured, loaded # None, Loads(loaded), Target \in Names(loaded)
    PROVE  /\ Rewritten \in Configuration /\ Loads(Rewritten) /\ Rewritten.current = Target
           /\ Rewritten # None
<1>1. loaded \in Configuration /\ Target \in STRING
  BY SessionAssumption DEF Configured
<1>2. /\ Rewritten \in Configuration /\ Rewritten.current = Target
      /\ Rewritten.whole = loaded.whole /\ Rewritten.contexts = loaded.contexts
  BY <1>1 DEF Rewritten, Configuration
<1>3. Names(Rewritten) = Names(loaded)
  BY <1>2 DEF Names
<1>4. ValidFile(Rewritten) /\ Rewritten.whole
  BY <1>2, <1>3 DEF Loads, ValidFile
<1>5. Rewritten # None
  BY <1>2, SessionAssumption
<1> QED BY <1>2, <1>4, <1>5 DEF Loads

LEMMA WriteConfigKeeps ==
    ASSUME Strong, WriteConfig
    PROVE  Strong'
<1>1. status = "running" /\ rest # << >> /\ Here.do \in {"stage", "sync", "rename", "syncDir", "verify"}
  BY DEF WriteConfig, Operation, At
<1>2. verb = "config use-context" /\ verb \in ConfigVerbs /\ Switching
  <2>1. verb \notin ServerVerbs
    <3> SUFFICES ASSUME verb \in ServerVerbs PROVE FALSE
      OBVIOUS
    <3>1. Here \in ServerStep
      BY <1>1, HereIs DEF Strong
    <3>2. Here.do \in {"get", "write", "remove", "check", "terminal", "ask", "report", "emit"}
      BY <3>1, KindsOfChange
    <3> QED BY <1>1, <3>2
  <2>2. verb = "config use-context"
    BY <1>1, <2>1, WhoseStep DEF Strong
  <2> QED BY <2>2 DEF ConfigVerbs, Strong, Configured
<1>3. /\ Left \in 1..5 /\ Here.do = Operations[6 - Left]
      /\ Tail(rest) \in Seq(FileSteps) /\ Len(Tail(rest)) = Left - 1
      /\ \A i \in 1..(Left - 1) : Tail(rest)[i].do = Operations[5 - (Left - 1) + i]
  BY <1>1, <1>2, NextOperation
<1>4. /\ Here.do = "stage" => Left = 5
      /\ Here.do = "sync" => Left = 4
      /\ Here.do = "rename" => Left = 3
      /\ Here.do = "syncDir" => Left = 2
      /\ Here.do = "verify" => Left = 1
  BY <1>3, OperationsLeft
<1>5. /\ run' = run /\ had' = had /\ loaded' = loaded /\ shell' = shell /\ parts' = parts /\ sent' = sent
      /\ served' = served /\ touched' = touched /\ others' = others /\ again' = again
      /\ confirmed' = confirmed /\ output' = output /\ UNCHANGED waitVars
  BY DEF WriteConfig, given, effects, history
<1>6. Live /\ served \subseteq sent /\ confirmed \in BOOLEAN /\ exit \in 0..2
  BY <1>1 DEF Live, Strong, Invoked, Shaped
<1>7. verb \notin ServerVerbs
  BY <1>2, DeletesAreVerbs
<1>8. \/ Operation /\ rest' = Tail(rest) /\ UNCHANGED <<status, exit>>
      \/ status' = "ended" /\ rest' = << >> /\ staged' = None /\ exit' \in (1..15) \ {12} /\ UNCHANGED disk
  BY Statuses DEF WriteConfig, Failed, End
<1>9. Moves /\ (staged' = None \/ status' \in {"running", "prompt"})
  <2>1. CASE Operation /\ rest' = Tail(rest) /\ UNCHANGED <<status, exit>>
    <3>1. Advances
      BY <1>1, <1>6, <2>1 DEF Advances, Demands
    <3> QED BY <1>1, <1>5, <1>6, <1>7, <2>1, <3>1 DEF Moves
  <2>2. CASE status' = "ended" /\ rest' = << >> /\ staged' = None /\ exit' \in (1..15) \ {12} /\ UNCHANGED disk
    BY <1>5, <1>6, <1>7, <2>2 DEF Moves, Stops
  <2> QED BY <1>8, <2>1, <2>2
<1>10. /\ loaded # None /\ Loads(loaded) /\ Target \in Names(loaded)
       /\ Loads(file) /\ Loads(settled) /\ {file, settled, loaded} \subseteq Configuration \cup {None}
  <2>1. loaded # None /\ Loads(loaded) /\ Target \in Names(loaded)
    BY <1>2, <1>6 DEF Switching
  <2> QED BY <2>1 DEF Strong, Configured
<1>11. Rewritten \in Configuration /\ Loads(Rewritten) /\ Rewritten.current = Target /\ Rewritten # None
  BY <1>10, RewrittenLoads DEF Strong
<1>12. verb' = verb /\ Rewritten' = Rewritten
  BY <1>5, SameRun DEF Rewritten
<1>13. ASSUME Operation, rest' = Tail(rest), UNCHANGED <<status, exit>>
       PROVE  Configured' /\ ConfigSurvives'
  <2>1. /\ rest' \in Seq(FileSteps) /\ Len(rest') = Left - 1 /\ Len(rest') <= 5
        /\ \A i \in 1..Len(rest') : rest'[i].do = Operations[5 - Len(rest') + i]
    BY <1>3, <1>13
  <2>2. Left' = Left - 1
    BY <2>1 DEF Left
  <2>3. /\ Left = 4 => staged = [content |-> Rewritten, synced |-> FALSE]
        /\ Left = 3 => staged = [content |-> Rewritten, synced |-> TRUE]
        /\ Left <= 2 /\ ~touched => file.current = Target
    BY <1>2, <1>6 DEF Switching
  <2>4. Here.do = "stage" \/ Here.do = "sync" \/ Here.do = "rename" \/ Here.do = "syncDir" \/ Here.do = "verify"
    BY <1>1
  <2>5. /\ {file', settled'} \subseteq Configuration \cup {None} /\ Loads(file') /\ Loads(settled')
        /\ Left' = 4 => staged' = [content |-> Rewritten, synced |-> FALSE]
        /\ Left' = 3 => staged' = [content |-> Rewritten, synced |-> TRUE]
        /\ Left' <= 2 /\ ~touched => file'.current = Target
    <3>1. CASE Here.do = "stage"
      <4>1. Left' = 4
        BY <1>4, <2>2, <3>1
      <4>2. staged' = [content |-> Rewritten, synced |-> FALSE] /\ UNCHANGED disk
        BY <1>13, <3>1 DEF Operation, At
      <4> QED BY <1>10, <4>1, <4>2 DEF disk
    <3>2. CASE Here.do = "sync"
      <4>1. Left = 4 /\ Left' = 3
        BY <1>4, <2>2, <3>2
      <4>2. staged' = [staged EXCEPT !.synced = TRUE] /\ UNCHANGED disk
        BY <1>13, <3>2 DEF Operation, At
      <4>3. staged = [content |-> Rewritten, synced |-> FALSE]
        BY <2>3, <4>1
      <4>4. staged' = [content |-> Rewritten, synced |-> TRUE]
        BY <4>2, <4>3
      <4>5. file' = file /\ settled' = settled
        BY <4>2 DEF disk
      <4> QED BY <1>10, <4>1, <4>4, <4>5
    <3>3. CASE Here.do = "rename"
      <4>1. Left = 3 /\ Left' = 2
        BY <1>4, <2>2, <3>3
      <4>2. staged.content = Rewritten /\ staged.synced
        BY <2>3, <4>1
      <4>3. file' = Rewritten /\ settled' \in {settled, Rewritten}
        BY <1>13, <3>3, <4>2 DEF Operation, At
      <4> QED BY <1>10, <1>11, <4>1, <4>3
    <3>4. CASE Here.do = "syncDir"
      <4>1. Left = 2 /\ Left' = 1
        BY <1>4, <2>2, <3>4
      <4>2. file' = file /\ settled' \in {settled, file}
        BY <1>13, <3>4 DEF Operation, At
      <4> QED BY <1>10, <2>3, <4>1, <4>2
    <3>5. CASE Here.do = "verify"
      <4>1. Left = 1 /\ Left' = 0
        BY <1>4, <2>2, <3>5
      <4>2. UNCHANGED disk
        BY <1>13, <3>5 DEF Operation, At
      <4> QED BY <1>10, <2>3, <4>1, <4>2 DEF disk
    <3> QED BY <2>4, <3>1, <3>2, <3>3, <3>4, <3>5
  <2>6. status' = "running" /\ touched' = touched /\ loaded' = loaded
    BY <1>1, <1>5, <1>13
  <2>7. Loads(loaded') /\ Target \in Names(loaded')
    BY <1>10, <2>6
  <2>8. Switching'
    BY <1>10, <1>12, <2>1, <2>2, <2>5, <2>6, <2>7 DEF Switching, FileSteps, Left
  <2> QED BY <1>2, <1>10, <1>12, <2>5, <2>6, <2>8 DEF Configured, ConfigSurvives, EndedWith
<1>14. ASSUME status' = "ended", rest' = << >>, exit' \in (1..15) \ {12}, UNCHANGED disk
       PROVE  Configured' /\ ConfigSurvives'
  <2>1. file' = file /\ settled' = settled /\ ~Live' /\ exit' # 0
    BY <1>14 DEF disk, Live
  <2>2. Switching'
    <3>1. Len(rest') = 0 /\ rest' \in Seq(FileSteps) /\ \A i \in 1..Len(rest') : FALSE
      BY <1>14, Tuples
    <3> QED BY <1>14, <2>1, <3>1 DEF Switching, FileSteps, Left
  <2> QED BY <1>2, <1>5, <1>10, <1>12, <2>1, <2>2 DEF Configured, ConfigSurvives, EndedWith
<1>15. Configured' /\ ConfigSurvives'
  BY <1>8, <1>13, <1>14
<1> QED BY <1>2, <1>5, <1>9, <1>15, ConfigMoves

LEMMA NoneLeft == rest = << >> => Left <= 2
<1> SUFFICES ASSUME rest = << >> PROVE Left <= 2
  OBVIOUS
<1>1. Len(<< >>) = 0 /\ 0 <= 2
  OBVIOUS
<1> QED BY <1>1 DEF Left

LEMMA Endings ==
    ASSUME Strong, EndOfSteps
    PROVE  Strong'
<1>1. Moves /\ staged' = None /\ status' = "ended" /\ exit' = exit /\ run' = run
  BY EndMoves DEF Strong, InOrder, Moves
<1>2. /\ file' = file /\ settled' = settled /\ loaded' = loaded /\ shell' = shell /\ touched' = touched
      /\ others' = others /\ again' = again /\ output' = output /\ UNCHANGED waitVars
      /\ rest' = << >> /\ rest = << >> /\ Live
  BY DEF EndOfSteps, End, disk, given, history, Live
<1>3. CASE verb \in ServerVerbs
  <2>1. FilesAreKept' /\ output' \in Output
    BY <1>1, <1>2, FilesStay DEF Strong, Invoked
  <2> QED BY <1>1, <1>2, <1>3, <2>1, ServerMoves
<1>4. CASE verb \in ConfigVerbs
  <2>1. verb' = verb /\ Loads(loaded)' = Loads(loaded) /\ Loads(file)' = Loads(file) /\ Loads(settled)' = Loads(settled)
    BY <1>1, <1>2, SameRun DEF Loads
  <2>2. ~Live'
    BY <1>1 DEF Live
  <2>3. Switching => Switching'
    BY <1>1, <1>2, <2>2 DEF Switching, Left
  <2>4. Configured'
    BY <1>2, <2>1, <2>3 DEF Strong, Configured
  <2>5. verb = "config use-context" /\ ~touched => file.current = Target
    <3> SUFFICES ASSUME verb = "config use-context", ~touched PROVE file.current = Target
      OBVIOUS
    <3>1. Switching
      BY DEF Strong, Configured
    <3>2. Left <= 2
      BY <1>2, NoneLeft
    <3>3. Switching => (Live /\ Left <= 2 /\ ~touched => file.current = Target)
      BY DEF Switching
    <3> QED BY <1>2, <3>1, <3>2, <3>3
  <2>6. ConfigSurvives'
    BY <1>2, <2>1, <2>5 DEF Strong, ConfigSurvives
  <2> QED BY <1>1, <1>2, <1>4, <2>4, <2>6, ConfigMoves
<1> QED BY <1>3, <1>4 DEF Strong, Invoked, verb

LEMMA Crashes ==
    ASSUME Strong, Crash
    PROVE  Strong'
<1>1. Moves /\ staged' = None /\ run' = run
  BY CrashMoves DEF Strong, InOrder, Moves
<1>2. /\ file' \in {file, settled} /\ settled' = file' /\ loaded' = loaded /\ shell' = shell /\ touched' = touched
      /\ others' = others /\ again' = again /\ output' = output /\ UNCHANGED waitVars
      /\ rest' = << >> /\ status' = "crashed"
  BY DEF Crash, given, history
<1>3. CASE verb \in ServerVerbs
  <2>1. FilesAreKept' /\ output' \in Output
    BY <1>1, <1>2, FilesStay DEF Strong, Invoked
  <2>2. settled = file
    <3>1. verb # "config use-context"
      BY <1>3, DeletesAreVerbs DEF ConfigVerbs
    <3> QED BY <3>1 DEF Strong, Configured
  <2> QED BY <1>1, <1>2, <1>3, <2>1, <2>2, ServerMoves
<1>4. CASE verb \in ConfigVerbs
  <2>1. verb' = verb
    BY <1>1, SameRun
  <2>2. ~Live'
    BY <1>2 DEF Live
  <2>3. Switching'
    <3>1. Len(rest') = 0 /\ rest' \in Seq(FileSteps) /\ \A i \in 1..Len(rest') : FALSE
      BY <1>2, Tuples
    <3> QED BY <1>2, <2>2, <3>1 DEF Switching, FileSteps, Left
  <2>4. /\ {file, settled, loaded} \subseteq Configuration \cup {None}
        /\ verb # "config use-context" => settled = file
        /\ Loads(file) => Loads(settled)
        /\ loaded # None /\ Loads(loaded) => Loads(file)
    BY DEF Strong, Configured
  <2>5. /\ loaded # None /\ Loads(loaded) => Loads(file')
        /\ Loads(loaded)' = Loads(loaded) /\ Loads(file)' = Loads(file') /\ Loads(settled)' = Loads(file')
    BY <1>2, <2>4 DEF Loads
  <2>6. file' \in Configuration \cup {None}
    BY <1>2, <2>4
  <2>7. Configured'
    BY <1>2, <2>1, <2>3, <2>4, <2>5, <2>6 DEF Configured
  <2>8. ConfigSurvives'
    BY <1>2, <2>1, <2>4, <2>5 DEF ConfigSurvives, EndedWith
  <2> QED BY <1>1, <1>2, <1>4, <2>7, <2>8, ConfigMoves
<1> QED BY <1>3, <1>4 DEF Strong, Invoked, verb

-----------------------------------------------------------------------------
\* ---- Others, the next try and the wait.
LEMMA OthersKeep ==
    ASSUME Strong, Others
    PROVE  Strong'
<1>1. /\ Live /\ others' \in 0..MaxActs /\ touched' = TRUE
      /\ loaded' = loaded /\ shell' = shell /\ run' = run /\ had' = had /\ staged' = staged
      /\ rest' = rest /\ status' = status /\ exit' = exit /\ sent' = sent /\ served' = served
      /\ confirmed' = confirmed /\ output' = output /\ again' = again /\ UNCHANGED waitVars
  <2>1. others' \in 0..MaxActs
    <3>1. MaxActs \in Nat /\ others \in 0..MaxActs /\ others < MaxActs /\ others' = others + 1
      BY SessionAssumption DEF Others, Strong, Invoked
    <3> QED BY <3>1
  <2> QED BY <2>1 DEF Others, Underway, Live, given
<1>2. /\ verb' = verb /\ opts' = opts /\ Policy' = Policy /\ Waits' = Waits
      /\ Objects' = Objects /\ Demanded' = Demanded /\ Live' = Live /\ Here' = Here /\ Left' = Left
      /\ Rewritten' = Rewritten /\ Loads(loaded)' = Loads(loaded)
  BY <1>1, SameRun DEF Live, Here, Left, Rewritten, Loads
<1>3. \/ verb \in Writes /\ parts' \subseteq Objects /\ file' = file /\ settled' = settled
      \/ verb = "config use-context" /\ file' \in Edits /\ settled' = file' /\ parts' = parts
  BY DEF Others, disk
<1>4. Invoked'
  BY <1>1, <1>2, <1>3 DEF Strong, Invoked
<1>5. Shaped'
  BY <1>1, <1>2 DEF Strong, Shaped, Live
<1>6. Programmed'
  BY <1>1, <1>2 DEF Strong, Programmed
<1>7. status \notin {"ended", "waiting", "idle"} /\ exit # 12
  BY <1>1 DEF Strong, Gated, Live
<1>8. Gated'
  <2>1. CASE verb \in Writes /\ file' = file
    <3>1. AskedReadOnly' = AskedReadOnly
      BY <1>1, <2>1 DEF AskedReadOnly, AskedFor
    <3> QED BY <1>1, <1>2, <2>1, <3>1 DEF Strong, Gated
  <2>2. CASE verb = "config use-context"
    <3>1. verb \in ConfigVerbs /\ verb \notin ServerVerbs
      BY <2>2, DeletesAreVerbs DEF ConfigVerbs
    <3> QED BY <1>1, <1>2, <1>7, <3>1 DEF Strong, Gated
  <2> QED BY <1>3, <2>1, <2>2
<1>9. Due' /\ Confirmable' /\ DeletedIsGone' /\ PendingGoesFirst' /\ NothingUnconfirmed'
  BY <1>1 DEF Due, Confirmable, DeletedIsGone, PendingGoesFirst, NothingUnconfirmed
<1>10. Writing' /\ ExitZeroIsServed'
  BY <1>1, <1>2, <1>7 DEF Strong, Writing, ExitZeroIsServed, EndedWith
<1>11. Configured' /\ ConfigSurvives'
  <2>1. CASE verb \in Writes /\ file' = file /\ settled' = settled
    <3>1. verb # "config use-context" /\ verb # "config view" /\ Loads(file)' = Loads(file) /\ Loads(settled)' = Loads(settled)
      BY <2>1, DeletesAreVerbs DEF ConfigVerbs, Loads
    <3> QED BY <1>1, <1>2, <2>1, <3>1 DEF Strong, Configured, ConfigSurvives
  <2>2. CASE verb = "config use-context" /\ file' \in Edits /\ settled' = file'
    <3>1. file' \in Configuration /\ Loads(file') /\ Loads(file)' = Loads(file') /\ Loads(settled)' = Loads(file')
      BY <2>2, SessionAssumption DEF Loads
    <3>2. Switching'
      <4>1. Switching
        BY <2>2 DEF Strong, Configured
      <4>2. (Target \in Names(loaded))' <=> Target \in Names(loaded)
        BY <1>1
      <4> QED BY <1>1, <1>2, <4>1, <4>2 DEF Switching
    <3>3. Configured'
      BY <1>1, <1>2, <2>2, <3>1, <3>2 DEF Strong, Configured
    <3> QED BY <1>1, <3>1, <3>3 DEF ConfigSurvives
  <2> QED BY <1>3, <2>1, <2>2
<1>12. FilesAreKept'
  BY <1>1, FilesStay DEF Strong
<1>13. Awaited'
  BY <1>1, AwaitedStays DEF Strong
<1> QED BY <1>4, <1>5, <1>6, <1>8, <1>9, <1>10, <1>11, <1>12, <1>13 DEF Strong

LEMMA NothingToDo ==
    \A s : s = << >> => /\ s \in Seq(FileSteps) /\ Len(s) <= 5 /\ \A i \in 1..Len(s) : FALSE
                        /\ \A i \in DOMAIN s : FALSE
<1>1. << >> \in Seq(FileSteps) /\ Len(<< >>) = 0 /\ DOMAIN << >> = {} /\ 0 <= 5 /\ 1..0 = {}
  OBVIOUS
<1> QED BY <1>1

LEMMA AgainKeeps ==
    ASSUME Strong, Again
    PROVE  Strong'
<1>1. /\ status' = "idle" /\ exit' = 0 /\ had' = parts /\ sent' = {} /\ served' = {}
      /\ confirmed' = FALSE /\ touched' = FALSE /\ file' = file /\ settled' = settled
      /\ staged' = staged /\ loaded' = loaded /\ shell' = shell /\ rest' = rest /\ parts' = parts
      /\ others' = others /\ UNCHANGED waitVars
      /\ output' = [output EXCEPT !.before = @ \cup output.written, !.written = {}]
  BY DEF Again, disk
<1>17. exit' \in 0..15 /\ exit' \in 0..2 /\ confirmed' = FALSE /\ touched' = FALSE
  <2>1. exit' = 0 /\ confirmed' = FALSE /\ touched' = FALSE
    BY DEF Again
  <2> QED BY <2>1
<1>2. rest = << >> /\ staged = None
  BY DEF Again, Strong, Shaped, Live
<1>3. /\ run' \in [verb : ServerVerbs \cup ConfigVerbs, opts : Options]
      /\ verb' = verb
  <2>1. run \in [verb : ServerVerbs \cup ConfigVerbs, opts : Options]
        /\ run' = [run EXCEPT !.opts.yes = TRUE]
    BY DEF Again, Strong, Invoked
  <2> QED BY <2>1 DEF Options, verb
<1>4. /\ output' \in Output /\ output'.written = {}
  BY <1>1 DEF Strong, Invoked, Output
<1>5. again' \in 0..MaxAgain
  <2>1. MaxAgain \in Nat /\ again \in 0..MaxAgain /\ again < MaxAgain /\ again' = again + 1
    BY SessionAssumption DEF Again, Strong, Invoked
  <2> QED BY <2>1
<1>6. /\ ~Live' /\ Objects' = Objects /\ Loads(loaded)' = Loads(loaded) /\ Loads(file)' = Loads(file)
      /\ Loads(settled)' = Loads(settled)
  BY <1>1, <1>3 DEF Live, Objects, Loads
<1>7. Invoked'
  <2>1. exit' \in 0..15 /\ confirmed' \in BOOLEAN /\ touched' \in BOOLEAN
    BY <1>17
  <2>2. shell'.env.context # None /\ shell'.flags.readOnly \in BOOLEAN /\ others' \in 0..MaxActs
    BY <1>1 DEF Strong, Invoked
  <2>3. parts' \subseteq Objects' /\ had' \subseteq Objects' /\ served' \subseteq sent'
    BY <1>1, <1>6 DEF Strong, Invoked
  <2>4. status' \in {"idle", "running", "prompt", "waiting", "ended", "crashed"}
    BY <1>1
  <2> QED BY <1>3, <1>4, <1>5, <2>1, <2>2, <2>3, <2>4 DEF Invoked
<1>8. Shaped'
  <2>1. exit' \in 0..2 /\ ~confirmed' /\ ~touched'
    BY <1>17
  <2> QED BY <1>1, <1>2, <1>4, <1>6, <2>1 DEF Shaped
<1>9. /\ rest' \in Seq(FileSteps) /\ Left' <= 5 /\ \A i \in 1..Left' : FALSE
      /\ \A i \in DOMAIN rest' : FALSE
  BY <1>1, <1>2, NothingToDo DEF Left
<1>10. Programmed'
  <2>1. Steady(verb, opts, rest)'
    BY <1>1, <1>2, SteadyEmpty
  <2> QED BY <1>1, <1>2, <1>9, <2>1 DEF Programmed
<1>11. Gated'
  BY <1>1, <1>9 DEF Gated
<1>12. Due' /\ Confirmable' /\ DeletedIsGone' /\ PendingGoesFirst' /\ NothingUnconfirmed' /\ Writing'
       /\ ExitZeroIsServed'
  BY <1>1, <1>6 DEF Due, Confirmable, DeletedIsGone, PendingGoesFirst, NothingUnconfirmed, Writing,
                    ExitZeroIsServed, EndedWith
<1>13. Switching'
  BY <1>1, <1>6, <1>9 DEF Switching, FileSteps
<1>14. Configured' /\ ConfigSurvives'
  BY <1>1, <1>2, <1>3, <1>6, <1>13 DEF Strong, Configured, ConfigSurvives, EndedWith
<1>15. FilesAreKept'
  BY <1>4 DEF FilesAreKept
<1>16. Awaited'
  BY <1>1, AwaitedStays DEF Strong
<1> QED BY <1>7, <1>8, <1>10, <1>11, <1>12, <1>14, <1>15, <1>16 DEF Strong

LEMMA WaitedKeeps ==
    ASSUME Strong, Waited
    PROVE  Strong'
<1>1. /\ file' = file /\ settled' = settled /\ loaded' = loaded /\ shell' = shell /\ run' = run
      /\ had' = had /\ parts' = parts /\ sent' = sent /\ served' = served /\ touched' = touched
      /\ others' = others /\ again' = again /\ confirmed' = confirmed /\ output' = output
      /\ UNCHANGED waitVars
  BY DEF Waited, disk, given, effects, history
<1>2. Waits /\ verb = "req import" /\ rest = << >> /\ staged = None /\ status = "waiting"
  BY DEF Waited, Strong, Shaped, Live, Waits
<1>3. status' = "ended" /\ rest' = << >> /\ staged' = None /\ exit' \in (0..15) \ {12}
  <2>1. PICK code \in WaitedCode : End(code)
    BY DEF Waited
  <2>2. \A a \in Answers \ {"ok", "huge"} : Decoded(a) # "ReadOnlyRefused"
    <3> SUFFICES ASSUME NEW a \in Answers \ {"ok", "huge"} PROVE Decoded(a) # "ReadOnlyRefused"
      OBVIOUS
    <3>1. Decoded(a) \in ErrorsOf(a, "decoded") /\ "decoded" \in Bodies
      BY DEF ErrorsOf, Bodies
    <3> QED BY <3>1, Answered
  <2>3. WaitedCode \subseteq (0..15) \ {12}
    <3>1. waitPhase \in {"completed", "timeout", "vanished", "failed"}
      BY DEF Waited, Strong, Awaited, IW!TypeOK
    <3>2. {0, ExitCode("WaitTimeout"), ExitCode("AsyncOpFailed")} \subseteq (0..15) \ {12}
      BY Statuses
    <3>3. {ExitCode(Decoded(a)) : a \in Answers \ {"ok", "huge"}} \subseteq (0..15) \ {12}
      BY <2>2, Statuses
    <3> QED BY <3>1, <3>2, <3>3 DEF WaitedCode
  <2> QED BY <2>1, <2>3 DEF End
<1>4. verb' = verb /\ opts' = opts /\ Waits' = Waits /\ Objects' = Objects /\ ~Live'
  BY <1>1, <1>3, SameRun DEF Live
<1>5. verb \notin Deletes /\ verb \notin ConfigVerbs
  BY <1>2 DEF Deletes, ConfigVerbs
<1>6. Invoked'
  BY <1>1, <1>3, <1>4 DEF Strong, Invoked
<1>7. Shaped'
  BY <1>3, <1>4 DEF Shaped
<1>8. \A i \in DOMAIN rest' : FALSE
  BY <1>3, NothingToDo
<1>9. Programmed'
  <2>1. Steady(verb, opts, rest)'
    BY <1>3, SteadyEmpty
  <2> QED BY <1>3, <1>8, <2>1 DEF Programmed
<1>10. Gated'
  <2>1. AskedReadOnly' = AskedReadOnly
    BY <1>1 DEF AskedReadOnly, AskedFor
  <2> QED BY <1>1, <1>2, <1>3, <1>4, <1>5, <1>8, <2>1 DEF Strong, Gated
<1>11. Due' /\ Confirmable' /\ DeletedIsGone' /\ PendingGoesFirst' /\ NothingUnconfirmed' /\ Writing'
       /\ ExitZeroIsServed'
  BY <1>1, <1>2, <1>4, <1>5 DEF Due, Confirmable, DeletedIsGone, PendingGoesFirst, NothingUnconfirmed,
                                Writing, ExitZeroIsServed
<1>12. Configured' /\ ConfigSurvives'
  <2>1. verb \in ServerVerbs
    BY <1>5 DEF Strong, Invoked, verb
  <2> QED BY <1>1, <2>1, StillConfigured DEF Strong
<1>13. FilesAreKept'
  BY <1>1, FilesStay DEF Strong
<1>14. Awaited'
  BY <1>1, AwaitedStays DEF Strong
<1> QED BY <1>6, <1>7, <1>9, <1>10, <1>11, <1>12, <1>13, <1>14 DEF Strong

\* While it waits, and when nothing happens, the command itself stays as it is.
LEMMA CoreStays ==
    ASSUME Strong, UNCHANGED core, Awaited'
    PROVE  Strong'
<1>1. /\ file' = file /\ settled' = settled /\ loaded' = loaded /\ shell' = shell /\ run' = run
      /\ had' = had /\ parts' = parts /\ sent' = sent /\ served' = served /\ touched' = touched
      /\ others' = others /\ again' = again /\ confirmed' = confirmed /\ output' = output
      /\ staged' = staged /\ rest' = rest /\ status' = status /\ exit' = exit
  BY DEF core, disk, given, effects, history
<1>2. /\ verb' = verb /\ opts' = opts /\ Policy' = Policy /\ Waits' = Waits /\ Objects' = Objects
      /\ Demanded' = Demanded /\ Live' = Live /\ Here' = Here /\ Left' = Left /\ Rewritten' = Rewritten
      /\ Loads(loaded)' = Loads(loaded) /\ Loads(file)' = Loads(file) /\ Loads(settled)' = Loads(settled)
      /\ AskedReadOnly' = AskedReadOnly
  BY <1>1, SameRun DEF Live, Here, Left, Rewritten, Loads, AskedReadOnly, AskedFor
<1>3. Invoked' /\ Shaped' /\ Programmed' /\ Gated'
  BY <1>1, <1>2 DEF Strong, Invoked, Shaped, Programmed, Gated
<1>4. Due' /\ Confirmable' /\ DeletedIsGone' /\ PendingGoesFirst' /\ NothingUnconfirmed' /\ Writing'
      /\ ExitZeroIsServed'
  BY <1>1, <1>2 DEF Strong, Due, Confirmable, DeletedIsGone, PendingGoesFirst, NothingUnconfirmed,
                    Writing, ExitZeroIsServed, EndedWith
<1>5. Switching => Switching'
  BY <1>1, <1>2 DEF Switching
<1>6. Configured' /\ ConfigSurvives'
  BY <1>1, <1>2, <1>5 DEF Strong, Configured, ConfigSurvives, EndedWith
<1>7. FilesAreKept'
  BY <1>1, FilesStay DEF Strong
<1> QED BY <1>3, <1>4, <1>6, <1>7 DEF Strong

LEMMA WaitStepKeeps ==
    ASSUME Strong, WaitStep \/ ImportServer
    PROVE  Strong'
<1>1. UNCHANGED core /\ IW!Next
  BY DEF WaitStep, ImportServer, IW!Next
<1> QED BY <1>1, CoreStays, AwaitedSteps DEF Strong

LEMMA StutterKeeps ==
    ASSUME Strong, UNCHANGED sessionVars
    PROVE  Strong'
BY CoreStays, AwaitedStays DEF Strong, sessionVars

-----------------------------------------------------------------------------
\* ---- How an invocation begins.
\* No two contexts of a file that loads share their name.
LEMMA ContextsAreNamed ==
    ASSUME NEW f \in Configuration, Loads(f)
    PROVE  \A i, j \in DOMAIN f.contexts : f.contexts[i].name = f.contexts[j].name => i = j
<1>1. f.contexts \in Seq(Context) /\ Cardinality(Names(f)) = Len(f.contexts)
  BY DEF Configuration, Loads, ValidFile
<1>2. /\ Len(f.contexts) \in Nat /\ DOMAIN f.contexts = 1..Len(f.contexts)
      /\ \A i \in DOMAIN f.contexts : f.contexts[i].name \in STRING
  <2>1. \A c \in Context : c.name \in STRING
    BY DEF Context
  <2>2. /\ Len(f.contexts) \in Nat /\ DOMAIN f.contexts = 1..Len(f.contexts)
        /\ \A i \in DOMAIN f.contexts : f.contexts[i] \in Context
    BY <1>1, Elements
  <2> QED BY <2>1, <2>2
<1> DEFINE s == [i \in 1..Len(f.contexts) |-> f.contexts[i].name]
<1>3. s \in Seq(STRING) /\ Len(s) = Len(f.contexts) /\ DOMAIN s = DOMAIN f.contexts
      /\ \A i \in DOMAIN s : s[i] = f.contexts[i].name
  BY <1>2
<1> HIDE DEF s
<1>4. {s[i] : i \in DOMAIN s} = Names(f)
  BY <1>3 DEF Names
<1>5. \A i, j \in DOMAIN s : s[i] = s[j] => i = j
  BY <1>1, <1>3, <1>4, NamesAtPlaces
<1> QED BY <1>3, <1>5

\* A context resolves to what was asked for, and is read-only when that was.
LEMMA Resolves ==
    ASSUME Loads(file), file \in Configuration, shell.env.context # None,
           shell.flags.readOnly \in BOOLEAN, ResolveContext(file, shell) # None
    PROVE  ResolveContext(file, shell).readOnly <=> AskedReadOnly
<1> DEFINE over == Overrides(shell)
           name == ActiveName(file, over)
           at == CHOOSE i \in DOMAIN file.contexts : file.contexts[i].name = name
<1>1. over.context = Or(shell.flags.context, Var(shell.env.context))
      /\ over.readOnly = IF shell.flags.readOnly THEN TRUE ELSE EnvBool(shell.env.readOnly)
  BY DEF Overrides, WithFlags, FromEnv
<1>2. name = AskedFor
  BY <1>1 DEF ActiveName, AskedFor, Or, Var
<1>3. over.readOnly = IF shell.flags.readOnly \/ shell.env.readOnly = "1" THEN TRUE ELSE None
  BY <1>1 DEF EnvBool
<1>4. /\ name \in Names(file)
      /\ ResolveContext(file, shell).readOnly =
           IF over.readOnly # None THEN over.readOnly ELSE file.contexts[at].readOnly
  BY DEF ResolveContext, Resolve, FindContext
<1> HIDE DEF over
<1>5. at \in DOMAIN file.contexts /\ file.contexts[at].name = name
  BY <1>4 DEF Names
<1> HIDE DEF at, name
<1>6. \A i \in DOMAIN file.contexts : file.contexts[i].name = AskedFor => i = at
  BY <1>2, <1>5, ContextsAreNamed
<1>7. CASE shell.flags.readOnly \/ shell.env.readOnly = "1"
  BY <1>3, <1>4, <1>7, SessionAssumption DEF AskedReadOnly
<1>8. CASE ~(shell.flags.readOnly \/ shell.env.readOnly = "1")
  <2>1. ResolveContext(file, shell).readOnly = file.contexts[at].readOnly
    BY <1>3, <1>4, <1>8
  <2>2. AskedReadOnly <=> file.contexts[at].readOnly
    BY <1>2, <1>5, <1>6, <1>8 DEF AskedReadOnly
  <2> QED BY <2>1, <2>2
<1> QED BY <1>7, <1>8

\* Refused for read-only is who asked for it and would write; who is not refused either
\* does not write or did not ask.
LEMMA GateIs ==
    ASSUME Invoked, Configured, verb \in ServerVerbs
    PROVE  /\ Refusal = "ReadOnlyRefused" => AskedReadOnly
           /\ Refusal = None /\ verb \in Writes => ~(file # None /\ AskedReadOnly)
<1>1. None # "ReadOnlyRefused" /\ "Config" # "ReadOnlyRefused"
  BY NoneIsNoError DEF Errors, Dedicated
<1>2. verb \notin ConfigVerbs
  BY DeletesAreVerbs
<1>3. verb \in Writes => verb \notin LocalOnly
  BY DEF LocalOnly, Writes, RequisitionWrites, AssetWrites, SourceWrites, IamWrites, MaintenanceWrites,
         DatacollectionWrites, BusinessServiceWrites, ThresholdWrites, GraphWrites, ApplyWrites
<1> DEFINE c == ResolveContext(file, shell)
<1>4. ASSUME c # None PROVE c.readOnly <=> AskedReadOnly
  <2>1. Loads(file)
    BY <1>4 DEF ResolveContext
  <2>2. file \in Configuration
    BY <2>1 DEF Loads, Configured
  <2> QED BY <1>4, <2>1, <2>2, Resolves DEF Invoked
<1> HIDE DEF c
<1>5. Refusal = IF verb \in LocalOnly THEN None
                ELSE IF c = None THEN "Config"
                ELSE IF c.readOnly /\ Kind(verb) = "Write" THEN "ReadOnlyRefused" ELSE None
  BY <1>2 DEF Refusal, RefuseIfReadOnly, c
<1>6. Refusal = "ReadOnlyRefused" => c # None /\ c.readOnly
  BY <1>1, <1>5
<1>7. "Config" # None
  BY NoneIsNoError DEF Errors
<1>8. Refusal = None /\ verb \in Writes => c # None /\ ~c.readOnly
  <2>1. verb \in Writes => Kind(verb) = "Write"
    BY DEF Kind
  <2> QED BY <1>1, <1>3, <1>5, <1>7, <2>1
<1> QED BY <1>4, <1>6, <1>8

LEMMA RefusalsAre ==
    ASSUME Invoked
    PROVE  /\ Refusal \in {None, "Config", "ReadOnlyRefused"}
           /\ verb = "config use-context" /\ Refusal = None =>
                 Loads(file) /\ file # None /\ Target \in Names(file)
           /\ verb \in ConfigVerbs => Refusal # "ReadOnlyRefused"
<1>1. None # "ReadOnlyRefused" /\ "Config" # None
  BY NoneIsNoError DEF Errors, Dedicated
<1>2. verb \in ConfigVerbs => verb \notin LocalOnly
  BY DEF ConfigVerbs, LocalOnly
<1>3. "config use-context" \in ConfigVerbs
  BY DEF ConfigVerbs
<1>4. Refusal \in {None, "Config", "ReadOnlyRefused"}
  BY DEF Refusal
<1>5. verb \in ConfigVerbs =>
          Refusal = IF ~Loads(file) \/ (verb = "config use-context" /\ Target \notin Names(file))
                      THEN "Config" ELSE None
  BY <1>2 DEF Refusal
<1>6. verb \in ConfigVerbs => Refusal # "ReadOnlyRefused"
  BY <1>1, <1>5
<1>7. verb = "config use-context" /\ Refusal = None => Loads(file) /\ Target \in Names(file)
  BY <1>1, <1>3, <1>5
<1> QED BY <1>4, <1>6, <1>7 DEF Loads

\* What every start leaves as it was.
LEMMA StartLeaves ==
    ASSUME Strong, Start
    PROVE  /\ status = "idle" /\ file' = file /\ settled' = settled /\ shell' = shell /\ run' = run
           /\ had' = had /\ parts' = parts /\ sent' = sent /\ served' = served /\ touched' = touched
           /\ others' = others /\ again' = again /\ confirmed' = confirmed /\ output' = output
           /\ UNCHANGED waitVars
           /\ sent = {} /\ served = {} /\ ~confirmed /\ ~touched /\ had = parts
           /\ output.written = {} /\ exit = 0 /\ rest = << >> /\ staged = None
BY DEF Start, disk, effects, history, Strong, Shaped, Live

LEMMA RefusedKeeps ==
    ASSUME Strong, Start, Refusal # None
    PROVE  Strong'
<1>1. /\ status = "idle" /\ file' = file /\ settled' = settled /\ shell' = shell /\ run' = run
      /\ had' = had /\ parts' = parts /\ sent' = sent /\ served' = served /\ touched' = touched
      /\ others' = others /\ again' = again /\ confirmed' = confirmed /\ output' = output
      /\ UNCHANGED waitVars
      /\ sent = {} /\ had = parts /\ output.written = {}
  BY StartLeaves
<1>2. /\ status' = "ended" /\ rest' = << >> /\ staged' = None /\ loaded' = loaded
      /\ exit' = ExitCode(Refusal)
  BY DEF Start, Failed, End
<1>3. exit' \in 1..15 /\ exit' # 0 /\ (exit' = 12 => AskedReadOnly)
  <2>1. exit' \in 1..15 /\ (exit' = 12 => Refusal = "ReadOnlyRefused")
    BY <1>2, Statuses
  <2>2. exit' # 0
    BY <2>1
  <2>3. Refusal = "ReadOnlyRefused" => AskedReadOnly
    <3>1. verb \in ConfigVerbs => Refusal # "ReadOnlyRefused"
      BY RefusalsAre DEF Strong
    <3> QED BY <3>1, GateIs DEF Strong, Invoked, verb
  <2> QED BY <2>1, <2>2, <2>3
<1>4. /\ verb' = verb /\ opts' = opts /\ Waits' = Waits /\ Objects' = Objects /\ ~Live'
      /\ AskedReadOnly' = AskedReadOnly
      /\ Loads(loaded)' = Loads(loaded) /\ Loads(file)' = Loads(file) /\ Loads(settled)' = Loads(settled)
  BY <1>1, <1>2, SameRun DEF Live, AskedReadOnly, AskedFor, Loads
<1>5. Invoked'
  <2>1. exit' \in 0..15
    BY <1>3
  <2> QED BY <1>1, <1>2, <1>4, <2>1 DEF Strong, Invoked
<1>6. Shaped'
  BY <1>2, <1>4 DEF Shaped
<1>7. /\ rest' \in Seq(FileSteps) /\ Left' <= 5 /\ \A i \in 1..Left' : FALSE
      /\ \A i \in DOMAIN rest' : FALSE
  BY <1>2, NothingToDo DEF Left
<1>8. Programmed'
  <2>1. Steady(verb, opts, rest)'
    BY <1>2, SteadyEmpty
  <2> QED BY <1>2, <1>7, <2>1 DEF Programmed
<1>9. Gated'
  BY <1>1, <1>2, <1>3, <1>4, <1>7 DEF Gated
<1>10. Due' /\ Confirmable' /\ DeletedIsGone' /\ PendingGoesFirst' /\ NothingUnconfirmed' /\ Writing'
       /\ ExitZeroIsServed'
  BY <1>1, <1>3, <1>4 DEF Due, Confirmable, DeletedIsGone, PendingGoesFirst, NothingUnconfirmed,
                          Writing, ExitZeroIsServed, EndedWith
<1>11. Switching'
  BY <1>2, <1>4, <1>7 DEF Switching, FileSteps
<1>12. Configured' /\ ConfigSurvives'
  BY <1>1, <1>2, <1>3, <1>4, <1>11 DEF Strong, Configured, ConfigSurvives, EndedWith
<1>13. FilesAreKept'
  BY <1>1 DEF FilesAreKept
<1>14. Awaited'
  BY <1>1, AwaitedStays DEF Strong
<1> QED BY <1>5, <1>6, <1>8, <1>9, <1>10, <1>12, <1>13, <1>14 DEF Strong

\* What a verb of the server has before it when it is not refused.
LEMMA ProgramIsWhole ==
    ASSUME Strong, Start, Refusal = None, verb \in ServerVerbs, ~Waits
    PROVE  /\ rest' = Steps(verb, opts) /\ status' = "running"
           /\ Programmed' /\ Gated' /\ Due' /\ Confirmable' /\ Writing'
<1>1. /\ status = "idle" /\ file' = file /\ shell' = shell /\ run' = run
      /\ had' = had /\ parts' = parts /\ sent' = sent /\ served' = served /\ touched' = touched
      /\ confirmed' = confirmed /\ sent = {} /\ staged = None /\ had = parts
  BY StartLeaves
<1>2. exit = 0
  BY StartLeaves
<1>3. /\ rest' = Steps(verb, opts) /\ status' = "running" /\ exit' = exit /\ staged' = staged
  BY DEF Start
<1>4. /\ verb' = verb /\ opts' = opts /\ Waits' = Waits /\ Objects' = Objects /\ Policy' = Policy
      /\ Demanded' = Demanded /\ AskedReadOnly' = AskedReadOnly
  BY <1>1, SameRun DEF AskedReadOnly, AskedFor
<1>5. /\ Steady(verb, opts, rest')
      /\ verb \in {"req delete", "user delete"} /\ ~opts.yes => Asked(rest')
      /\ verb = "req delete" => \A p \in {"pending", "deployed"} :
            \E i \in DOMAIN rest' : Removes(rest'[i], p)
      /\ verb \in Deletes \ {"req delete"} => \E i \in DOMAIN rest' : Removes(rest'[i], "object")
  BY <1>3, Programs
<1>6. Programmed'
  <2>1. \A i \in DOMAIN rest' : rest'[i].do = "emit" => rest'[i].part \in Policy
    BY <1>3 DEF Policy
  <2> QED BY <1>1, <1>3, <1>4, <1>5, <2>1 DEF Programmed
<1>7. Gated'
  <2>1. (\E i \in DOMAIN rest' : Sends(rest'[i])) => verb \in Writes
    BY <1>5 DEF Steady
  <2>2. verb \in Writes => ~(file # None /\ AskedReadOnly)
    BY GateIs DEF Strong
  <2>3. exit' # 12
    BY <1>2, <1>3
  <2>4. verb \notin ConfigVerbs
    BY DeletesAreVerbs
  <2> QED BY <1>1, <1>3, <1>4, <2>1, <2>2, <2>3, <2>4 DEF Gated
<1>8. Due'
  <2> SUFFICES ASSUME verb \in Deletes, NEW p \in parts
               PROVE  \E i \in DOMAIN rest' : Removes(rest'[i], p)
    BY <1>1, <1>4 DEF Due
  <2>1. p \in Objects
    BY DEF Strong, Invoked
  <2>2. CASE verb = "req delete"
    <3>1. Objects = {"pending", "deployed"}
      BY <2>2 DEF Objects, RequisitionVerbs
    <3> QED BY <1>5, <2>1, <2>2, <3>1
  <2>3. CASE verb # "req delete"
    <3>1. verb \notin RequisitionVerbs
      BY <2>3 DEF Deletes, RequisitionVerbs
    <3>2. p = "object"
      BY <2>1, <3>1 DEF Objects
    <3> QED BY <1>5, <2>3, <3>2
  <2> QED BY <2>2, <2>3
<1>9. Confirmable'
  BY <1>1, <1>4, <1>5 DEF Confirmable
<1>10. Writing'
  <2>1. \A p \in Demanded : \E i \in DOMAIN rest' : Demands(rest'[i], p)
    BY <1>3 DEF Demanded, Demands
  <2> QED BY <1>4, <2>1 DEF Writing
<1> QED BY <1>3, <1>6, <1>7, <1>8, <1>9, <1>10

\* An import that is to be waited for.
LEMMA WaitIsBegun ==
    ASSUME Strong, Start, Refusal = None, Waits
    PROVE  /\ verb \in ServerVerbs /\ rest' = << >> /\ status' = "waiting"
           /\ Programmed' /\ Gated' /\ Due' /\ Confirmable' /\ Writing'
<1>1. /\ file' = file /\ shell' = shell /\ run' = run /\ sent' = sent /\ sent = {} /\ staged = None
  BY StartLeaves
<1>2. exit = 0
  BY StartLeaves
<1>3. /\ rest' = << >> /\ status' = "waiting" /\ exit' = exit /\ staged' = staged /\ ~Live'
  BY DEF Start, Live
<1>4. verb = "req import" /\ verb \in Writes /\ verb \in ServerVerbs /\ verb \notin ConfigVerbs
  <2>1. verb = "req import"
    BY DEF Waits
  <2>2. "req import" \in Writes
    BY DEF Writes, RequisitionWrites
  <2> QED BY <2>1, <2>2, DeletesAreVerbs
<1>5. /\ verb' = verb /\ opts' = opts /\ AskedReadOnly' = AskedReadOnly
  BY <1>1, SameRun DEF AskedReadOnly, AskedFor
<1>6. Steady(verb, opts, rest') /\ \A i \in DOMAIN rest' : FALSE
  BY <1>3, SteadyEmpty, NothingToDo
<1>7. Programmed'
  BY <1>1, <1>3, <1>5, <1>6 DEF Programmed
<1>8. Gated'
  <2>1. ~(file # None /\ AskedReadOnly)
    BY <1>4, GateIs DEF Strong
  <2>2. exit' # 12
    BY <1>2, <1>3
  <2> QED BY <1>1, <1>4, <1>5, <2>1, <2>2 DEF Gated
<1> QED BY <1>3, <1>4, <1>7, <1>8 DEF Due, Confirmable, Writing

\* A verb of `config`: its steps are those of the rewriting of the file, or none.
LEMMA SwitchIsWhole ==
    ASSUME Strong, Start, Refusal = None, verb \in ConfigVerbs
    PROVE  /\ status' = "running" /\ ~Waits
           /\ verb = "config view" => rest' = << >>
           /\ verb = "config use-context" => Switching'
           /\ Programmed' /\ Gated' /\ Due' /\ Confirmable' /\ Writing'
<1>1. /\ file' = file /\ run' = run /\ sent' = sent /\ sent = {}
  BY StartLeaves
<1>2. exit = 0
  BY StartLeaves
<1>3. ~Waits /\ verb \notin ServerVerbs /\ verb \notin Deletes
  BY DeletesAreVerbs DEF Waits, ConfigVerbs
<1>4. /\ rest' = Steps(verb, opts) /\ status' = "running" /\ exit' = exit /\ loaded' = file
  BY <1>3 DEF Start
<1>5. verb' = verb /\ opts' = opts
  BY <1>1, SameRun
<1>6. verb = "config view" => rest' = << >>
  BY <1>4, Dispatch
<1>7. ASSUME verb = "config use-context" PROVE Switching'
  <2>1. rest' = UseContext
    BY <1>4, <1>7, Dispatch
  <2>2. rest' \in Seq(FileSteps) /\ Left' = 5 /\ \A i \in 1..5 : rest'[i].do = Operations[i]
    BY <2>1, UseContextIs DEF Left
  <2>3. Left' <= 5 /\ Left' # 4 /\ Left' # 3 /\ ~(Left' <= 2) /\ 1..Left' = 1..5
        /\ \A i \in 1..5 : 5 - Left' + i = i
    BY <2>2
  <2>4. \A i \in 1..Left' : rest'[i].do = Operations[5 - Left' + i]
    BY <2>2, <2>3
  <2>5. loaded' # None /\ Loads(loaded') /\ Target \in Names(loaded')
    BY <1>4, <1>7, RefusalsAre DEF Strong
  <2> QED BY <1>4, <2>2, <2>3, <2>4, <2>5 DEF Switching, FileSteps
<1>8. Programmed' /\ Writing'
  BY <1>3, <1>5 DEF Programmed, Writing
<1>9. Gated'
  <2>1. exit' # 12
    BY <1>2, <1>4
  <2> QED BY <1>1, <1>3, <1>4, <1>5, <2>1 DEF Gated
<1>10. Due' /\ Confirmable'
  <2>1. verb \notin {"req delete", "user delete"}
    BY <1>3 DEF Deletes
  <2> QED BY <1>3, <1>5, <2>1 DEF Due, Confirmable
<1> QED BY <1>3, <1>4, <1>6, <1>7, <1>8, <1>9, <1>10

LEMMA AdmittedKeeps ==
    ASSUME Strong, Start, Refusal = None
    PROVE  Strong'
<1>1. /\ status = "idle" /\ file' = file /\ settled' = settled /\ shell' = shell /\ run' = run
      /\ had' = had /\ parts' = parts /\ sent' = sent /\ served' = served /\ touched' = touched
      /\ others' = others /\ again' = again /\ confirmed' = confirmed /\ output' = output
      /\ UNCHANGED waitVars
      /\ had = parts /\ output.written = {} /\ staged = None
  BY StartLeaves
<1>2. /\ loaded' = file /\ exit' = exit /\ staged' = staged /\ status' \in {"running", "waiting"}
      /\ (status' = "waiting" <=> Waits)
  BY DEF Start
<1>3. /\ verb' = verb /\ opts' = opts /\ Waits' = Waits /\ Objects' = Objects
      /\ Loads(loaded)' = Loads(file) /\ Loads(file)' = Loads(file) /\ Loads(settled)' = Loads(settled)
  BY <1>1, <1>2, SameRun DEF Loads
<1>4. /\ status' = "waiting" => rest' = << >>
      /\ Programmed' /\ Gated' /\ Due' /\ Confirmable' /\ Writing'
      /\ verb \in ConfigVerbs => /\ verb = "config view" => rest' = << >>
                                 /\ verb = "config use-context" => Switching'
  <2>1. CASE Waits
    <3>1. verb \in ServerVerbs
      BY <2>1, WaitIsBegun
    <3> QED BY <2>1, <3>1, WaitIsBegun, DeletesAreVerbs
  <2>2. CASE ~Waits /\ verb \in ServerVerbs
    BY <1>2, <2>2, ProgramIsWhole, DeletesAreVerbs
  <2>3. CASE verb \in ConfigVerbs
    BY <1>2, <2>3, SwitchIsWhole
  <2> QED BY <2>1, <2>2, <2>3 DEF Strong, Invoked, verb
<1>5. Invoked'
  BY <1>1, <1>2, <1>3 DEF Strong, Invoked
<1>6. Shaped'
  <2>1. exit' \in 0..2
    BY <1>1, <1>2 DEF Strong, Shaped
  <2> QED BY <1>1, <1>2, <1>3, <1>4, <2>1 DEF Shaped, Live
<1>7. DeletedIsGone' /\ PendingGoesFirst' /\ NothingUnconfirmed' /\ ExitZeroIsServed'
  BY <1>1, <1>2 DEF DeletedIsGone, PendingGoesFirst, NothingUnconfirmed, ExitZeroIsServed, EndedWith
<1>8. Configured' /\ ConfigSurvives'
  <2>1. "config view" \in ConfigVerbs /\ "config use-context" \in ConfigVerbs
    BY DEF ConfigVerbs
  <2> QED BY <1>1, <1>2, <1>3, <1>4, <2>1 DEF Strong, Configured, ConfigSurvives, EndedWith
<1>9. FilesAreKept'
  BY <1>1 DEF FilesAreKept
<1>10. Awaited'
  BY <1>1, AwaitedStays DEF Strong
<1> QED BY <1>4, <1>5, <1>6, <1>7, <1>8, <1>9, <1>10 DEF Strong

LEMMA FirstIsStrong == SessionInit => Strong
<1> SUFFICES ASSUME SessionInit PROVE Strong
  OBVIOUS
<1>1. PICK start \in Starts :
          /\ file = start.file /\ shell = start.shell
          /\ run = [verb |-> start.verb, opts |-> start.opts]
          /\ output = [files |-> start.files, before |-> start.before, written |-> {}, whole |-> FALSE]
  BY DEF SessionInit
<1>2. /\ start.verb \in ServerVerbs \cup ConfigVerbs /\ start.opts \in Options
      /\ start.file \in Configuration \cup {None}
      /\ start.shell.env.context # None /\ start.shell.flags.readOnly \in BOOLEAN
      /\ start.files \in Seq(STRING) /\ start.before \subseteq STRING
  BY SessionAssumption
<1>3. /\ settled = file /\ staged = None /\ loaded = None /\ rest = << >> /\ status = "idle"
      /\ parts \subseteq Objects /\ had = parts /\ sent = {} /\ served = {} /\ confirmed = FALSE
      /\ touched = FALSE /\ IW!Init
  BY DEF SessionInit
<1>4. exit = 0 /\ others = 0 /\ again = 0
  BY DEF SessionInit
<1>5. exit \in 0..15 /\ exit \in 0..2 /\ exit # 12 /\ others \in 0..MaxActs /\ again \in 0..MaxAgain
  BY <1>4, SessionAssumption
<1>6. run \in [verb : ServerVerbs \cup ConfigVerbs, opts : Options] /\ output \in Output
      /\ output.written = {}
  BY <1>1, <1>2 DEF Output
<1>7. Invoked
  BY <1>1, <1>2, <1>3, <1>5, <1>6 DEF Invoked
<1>8. ~Live
  BY <1>3 DEF Live
<1>9. Shaped
  BY <1>3, <1>4, <1>5, <1>6, <1>8 DEF Shaped
<1>10. /\ rest \in Seq(FileSteps) /\ Left <= 5 /\ \A i \in 1..Left : FALSE
       /\ \A i \in DOMAIN rest : FALSE
  BY <1>3, NothingToDo DEF Left
<1>11. Programmed
  <2>1. Steady(verb, opts, rest)
    BY <1>3, SteadyEmpty
  <2> QED BY <1>3, <1>10, <2>1 DEF Programmed
<1>12. Gated
  BY <1>3, <1>5, <1>10 DEF Gated
<1>13. Due /\ Confirmable /\ DeletedIsGone /\ PendingGoesFirst /\ NothingUnconfirmed /\ Writing
       /\ ExitZeroIsServed
  BY <1>3, <1>8 DEF Due, Confirmable, DeletedIsGone, PendingGoesFirst, NothingUnconfirmed, Writing,
                    ExitZeroIsServed, EndedWith
<1>14. Switching
  BY <1>3, <1>8, <1>10 DEF Switching, FileSteps
<1>15. Configured /\ ConfigSurvives
  BY <1>1, <1>2, <1>3, <1>14 DEF Configured, ConfigSurvives, EndedWith
<1>16. FilesAreKept
  BY <1>6 DEF FilesAreKept
<1> QED BY <1>3, <1>7, <1>9, <1>11, <1>12, <1>13, <1>15, <1>16, AwaitedFirst DEF Strong

LEMMA StrongIsKept == Strong /\ [SessionNext]_sessionVars => Strong'
<1> SUFFICES ASSUME Strong, [SessionNext]_sessionVars PROVE Strong'
  OBVIOUS
<1>1. CASE Start
  BY <1>1, RefusedKeeps, AdmittedKeeps
<1>2. CASE Read \/ Change \/ Local \/ Reply
  BY <1>2, Requests
<1>3. CASE EmitFiles
  BY <1>3, Emissions
<1>4. CASE EndOfSteps
  BY <1>4, Endings
<1>5. CASE WriteConfig
  BY <1>5, WriteConfigKeeps
<1>6. CASE Waited
  BY <1>6, WaitedKeeps
<1>7. CASE WaitStep \/ ImportServer
  BY <1>7, WaitStepKeeps
<1>8. CASE Others
  BY <1>8, OthersKeep
<1>9. CASE Crash
  BY <1>9, Crashes
<1>10. CASE Again
  BY <1>10, AgainKeeps
<1>11. CASE UNCHANGED sessionVars
  BY <1>11, StutterKeeps
<1> QED BY <1>1, <1>2, <1>3, <1>4, <1>5, <1>6, <1>7, <1>8, <1>9, <1>10, <1>11
        DEF SessionNext, Act

LEMMA StrongIsEnough == Strong => InvocationInv
<1> SUFFICES ASSUME Strong PROVE InvocationInv
  OBVIOUS
<1>1. SessionTypeOK
  BY DEF Strong, Invoked, SessionTypeOK
<1>2. IW!WaitInv
  BY DEF Strong, Awaited, IW!WaitInv
<1>3. ReadOnlyIsKept
  BY GateHolds DEF Strong
<1> QED BY <1>1, <1>2, <1>3 DEF Strong, InvocationInv

\* A command always has before it what it still owes.  The steps left are of the verb's own
\* program, no delete is left without its removal, no write is forgotten, no removal goes
\* unasked, and a configuration half written has its parts in order (Session: Start to Again).
THEOREM InvocationsAreStrong == SessionSpec => []Strong
<1> QED BY FirstIsStrong, StrongIsKept, PTL DEF SessionSpec

\* Every invocation is well typed; nothing is sent under read-only, a delete that ends well
\* left nothing, writes are carried out, the configuration survives crashes, exports keep
\* what is there, and a wait that ends well ends with its own import.
THEOREM InvocationsHold == SessionSpec => []InvocationInv
<1> QED BY InvocationsAreStrong, StrongIsEnough, PTL

\* A wait that times out has not seen its import: the deadline is checked after the poll,
\* against a baseline older than the trigger.
THEOREM TimeoutIsUnseen == SessionSpec => TimeoutMeansUnseen
<1> DEFINE A == waitPhase # "timeout" /\ waitPhase' = "timeout" =>
                    ~imported \/ lastImport = None
<1>1. ASSUME Strong, [SessionNext]_sessionVars PROVE [A]_sessionVars
  <2> SUFFICES ASSUME waitPhase # "timeout", waitPhase' = "timeout", imported, lastImport # None
               PROVE  FALSE
    BY DEF A
  <2>1. IW!Step
    BY <1>1 DEF SessionNext, Act, Start, Read, Change, Local, Reply, EmitFiles, EndOfSteps, WriteConfig,
           Waited, WaitStep, ImportServer, Others, Crash, Again, sessionVars, core, waitVars,
           IW!OtherTrigger, IW!Purge, IW!Clear, IW!RunImport
  <2>2. waitPhase = "poll" /\ waitPhase' \in IW!Poll(lastImport)
    BY <2>1 DEF IW!Step, IW!Snapshot, IW!AfterSnapshot, IW!Trigger, IW!PollOnce
  <2>3. ~IW!Converged(lastImport)
    BY <2>2 DEF IW!Poll
  <2>4. lastImport = snapshot
    BY <2>3 DEF IW!Converged
  <2>5. lastImport = clock /\ snapshot < clock /\ clock \in Nat
    BY <1>1, <2>4 DEF Strong, Awaited, IW!TypeOK
  <2> QED BY <2>4, <2>5
<1> HIDE DEF A
<1>2. SessionSpec => [][A]_sessionVars
  BY <1>1, InvocationsAreStrong, PTL DEF SessionSpec
<1> QED BY <1>2 DEF TimeoutMeansUnseen, A
=============================================================================
