------------------------ MODULE BusinessServiceProofs ------------------------
(***************************************************************************)
(* Applies of BusinessService documents, for any services, documents and   *)
(* number of acts of others: rows are true, what was written is what bsmd  *)
(* runs, a plan that passed its gates can be executed, what was settled    *)
(* has no cycle, and a service is only ever bare or whole.  The argument:  *)
(* FullBody is all that was declared once no child is missing, and no      *)
(* child is missing when each service that was not listed has been created *)
(* in pass 1 and found by the second listing.                              *)
(***************************************************************************)
EXTENDS BusinessServiceApply, TLAPS

Body == [body : {"old", "new"}, children : SUBSET Service]

\* Only the two listings have services left to read.
ReadsInOrder == pending # {} => phase \in {"get", "get again"}

\* A service that was found as declared stays so, unless others touch it or its children.
FoundAsDeclared ==
    \A s \in Applied : Untouched(s) /\ current[s] = Declared(s) => services[s] = Declared(s)

\* What the gates before execution have established.
Gated ==
    /\ phase \notin {"gate", "refused"} => ~HasCycle([s \in Applied |-> docs[s]])
    /\ phase \in {"create", "get again", "replace"} => \A s \in Applied : ~Unresolvable(s)

\* An outcome is written by pass 2, and before it by nobody.
RowsInOrder ==
    /\ \A s \in Service : row[s] # NotYet => phase \in {"replace", "done"}
    /\ failedCreate # {} => faulted

\* Without faults, each service that was not listed has been created in pass 1, and is found
\* by the listing after it.
NewAreFound ==
    ~faulted /\ disturbed = {} =>
        \A s \in Applied : current[s] = Absent =>
            /\ phase = "create" => s \in todo \/ services[s] # Absent
            /\ phase = "get again" => services[s] # Absent /\ s \in pending \cup found
            /\ phase = "replace" => s \in found

IInv ==
    /\ TypeOK
    /\ ReadsInOrder /\ FoundAsDeclared /\ Gated /\ RowsInOrder /\ NewAreFound
    /\ RowsAreTrue /\ WrittenIsActive /\ PlanPredictsExecute

-----------------------------------------------------------------------------
(* What bodies are, and the initial states.                                 *)

LEMMA DocIsSet == ASSUME TypeOK, NEW s \in Applied PROVE s \in Service /\ docs[s] \subseteq Service
<1>1. s \in Service /\ docs[s] \in Declarable[s]
  BY DEF TypeOK, Applied
<1> QED BY <1>1, ServiceAssumption DEF ServiceAssumption

LEMMA BodyIsThere == ASSUME NEW b \in Body PROVE b # Absent
BY ServiceAssumption DEF ServiceAssumption, Body

LEMMA DeclaredIsBody == ASSUME TypeOK, NEW s \in Applied PROVE Declared(s) \in Body
BY DocIsSet DEF Declared, Body

\* A body that pass 2 sends is the declared one.
LEMMA FullIsDeclared ==
    ASSUME TypeOK, NEW s \in Applied, ~Unsendable(s)
    PROVE  FullBody(s) = Declared(s)
<1>1. docs[s] \ Present(current) \subseteq found
  BY DEF Unsendable, Missing, Later
<1>2. (docs[s] \cap Present(current)) \cup (Later(s) \cap found) = docs[s]
  BY <1>1 DEF Later
<1> QED BY <1>2 DEF FullBody, Declared

LEMMA CreateMeansAbsent ==
    ASSUME TypeOK, NEW s \in Applied
    PROVE  /\ PlannedAction(s) = "create" <=> current[s] = Absent
           /\ PlannedAction(s) = "none" => current[s] = Declared(s)
<1>1. Declared(s) # Absent
  BY DeclaredIsBody, BodyIsThere
<1> QED BY <1>1 DEF PlannedAction

LEMMA InitIInv == Init => IInv
<1> SUFFICES ASSUME Init PROVE IInv
  OBVIOUS
<1> USE DEF Init
<1>1. services \in [Service -> Body \cup {Absent}]
  <2>1. UNION {Found[s] : s \in Service} \subseteq SUBSET Service
    BY ServiceAssumption DEF ServiceAssumption
  <2> QED BY <2>1 DEF Body
<1>2. TypeOK
  BY <1>1 DEF TypeOK, Body, NotYet
<1>3. ReadsInOrder /\ Gated /\ RowsInOrder /\ NewAreFound
  BY DEF ReadsInOrder, Gated, RowsInOrder, NewAreFound
<1>4. FoundAsDeclared
  BY <1>2, DeclaredIsBody, BodyIsThere DEF FoundAsDeclared, Applied
<1>5. RowsAreTrue /\ WrittenIsActive /\ PlanPredictsExecute
  BY DEF RowsAreTrue, WrittenIsActive, PlanPredictsExecute, NotYet, Ok, Applied
<1> QED BY <1>2, <1>3, <1>4, <1>5 DEF IInv

\* The definitions that read only what planning has settled.
LEMMA PlanSame ==
    ASSUME docs' = docs, current' = current
    PROVE  /\ Applied' = Applied /\ Present(current)' = Present(current)
           /\ \A s : /\ Declared(s)' = Declared(s) /\ Later(s)' = Later(s)
                     /\ PlannedAction(s)' = PlannedAction(s)
                     /\ Unresolvable(s)' = Unresolvable(s)
BY DEF Applied, Present, Declared, Later, PlannedAction, Unresolvable

-----------------------------------------------------------------------------
(* Planning.                                                                *)

\* A step that changes neither services nor outcomes, nor what was read for the plan.
LEMMA QuietStep ==
    ASSUME IInv, UNCHANGED <<docs, services, active, current, outcomes, disturbed>>,
           faulted => faulted', TypeOK', ReadsInOrder', Gated', NewAreFound',
           phase' = "done" => phase = "done" \/ \A s \in Service : row[s] \notin {"Created", "Updated"},
           phase \in {"replace", "done"} => phase' \in {"replace", "done"}
    PROVE  IInv'
<1> USE DEF IInv, outcomes
<1>1. /\ Applied' = Applied
      /\ \A s : Declared(s)' = Declared(s) /\ Untouched(s)' = Untouched(s)
  BY PlanSame DEF Untouched
<1>2. FoundAsDeclared' /\ RowsAreTrue'
  BY <1>1 DEF FoundAsDeclared, RowsAreTrue
<1>3. RowsInOrder' /\ PlanPredictsExecute'
  BY DEF RowsInOrder, PlanPredictsExecute
<1>4. WrittenIsActive'
  BY <1>1 DEF WrittenIsActive, Applied
<1> QED BY <1>2, <1>3, <1>4

LEMMA GateIInv == ASSUME IInv, Gate PROVE IInv'
<1> USE DEF IInv, Gate, fetch, outcomes
<1>1. Applied' = Applied
  BY PlanSame
<1>2. TypeOK' /\ ReadsInOrder'
  BY <1>1 DEF TypeOK, ReadsInOrder
<1>3. Gated'
  <2>1. [s \in Applied |-> docs[s]]' = [s \in Applied |-> docs[s]]
    BY <1>1
  <2> QED BY <2>1 DEF Gated, HasCycle
<1>4. NewAreFound'
  BY DEF NewAreFound
<1> QED BY <1>2, <1>3, <1>4, QuietStep

LEMMA GatedSame ==
    ASSUME Gated, docs' = docs, current' = current,
           phase' \notin {"gate", "refused"} => phase \notin {"gate", "refused"},
           phase' \in {"create", "get again", "replace"} =>
               phase \in {"create", "get again", "replace"} \/ \A s \in Applied : ~Unresolvable(s)
    PROVE  Gated'
<1>1. Applied' = Applied /\ \A s : Unresolvable(s)' = Unresolvable(s)
  BY PlanSame
<1>2. [s \in Applied |-> docs[s]]' = [s \in Applied |-> docs[s]]
  BY <1>1
<1> QED BY <1>1, <1>2 DEF Gated, HasCycle

LEMMA ListIInv == ASSUME IInv, List PROVE IInv'
<1> USE DEF IInv, List, fetch, outcomes
<1>1. Applied' = Applied
  BY PlanSame
<1>2. TypeOK' /\ ReadsInOrder'
  BY <1>1 DEF TypeOK, ReadsInOrder, Present
<1>3. Gated'
  BY GatedSame
<1>4. NewAreFound'
  BY <1>1 DEF NewAreFound, Present, Applied
<1> QED BY <1>2, <1>3, <1>4, QuietStep

LEMMA GetOneIInv == ASSUME IInv, NEW s \in Service, GetOne(s) PROVE IInv'
<1> USE DEF IInv
<1>1. /\ s \in pending /\ pending' = pending \ {s}
      /\ UNCHANGED <<docs, services, active, phase, todo, failedCreate, row, reload, faulted,
                     disturbed>>
  BY DEF GetOne, outcomes
<1>2. CASE phase = "get"
  <2>1. current' = [current EXCEPT ![s] = services[s]] /\ found' = found
    BY <1>2 DEF GetOne
  <2>2. Applied' = Applied /\ \A t : Declared(t)' = Declared(t) /\ Untouched(t)' = Untouched(t)
    BY <1>1 DEF Applied, Declared, Untouched
  <2>3. TypeOK'
    <3>1. current' \in [Service -> Body \cup {Absent}]
      BY <2>1 DEF TypeOK, Body
    <3> QED BY <1>1, <2>1, <2>2, <3>1 DEF TypeOK, Body
  <2>4. FoundAsDeclared'
    BY <1>1, <2>1, <2>2 DEF FoundAsDeclared, TypeOK, Applied
  <2>5. Gated'
    <3>1. [t \in Applied |-> docs[t]]' = [t \in Applied |-> docs[t]]
      BY <1>1, <2>2
    <3> QED BY <1>1, <1>2, <3>1 DEF Gated, HasCycle
  <2>6. ReadsInOrder' /\ RowsInOrder' /\ NewAreFound' /\ PlanPredictsExecute'
    BY <1>1, <1>2 DEF ReadsInOrder, RowsInOrder, NewAreFound, PlanPredictsExecute
  <2>7. RowsAreTrue' /\ WrittenIsActive'
    BY <1>1, <2>2 DEF RowsAreTrue, WrittenIsActive
  <2> QED BY <2>3, <2>4, <2>5, <2>6, <2>7
<1>3. CASE phase = "get again"
  <2>1. found' = (IF services[s] # Absent THEN found \cup {s} ELSE found) /\ current' = current
    BY <1>3 DEF GetOne
  <2>2. Applied' = Applied
    BY <1>1, <2>1, PlanSame
  <2>3. TypeOK' /\ ReadsInOrder'
    BY <1>1, <2>1, <2>2 DEF TypeOK, ReadsInOrder
  <2>4. Gated'
    BY <1>1, <2>1, GatedSame
  <2>5. NewAreFound'
    BY <1>1, <1>3, <2>1, <2>2 DEF NewAreFound
  <2> QED BY <1>1, <1>3, <2>1, <2>3, <2>4, <2>5, QuietStep DEF outcomes
<1> QED BY <1>1, <1>2, <1>3 DEF ReadsInOrder

\* A failed read ends the apply with no success to report.
LEMMA FetchFailsIInv == ASSUME IInv, FetchFails PROVE IInv'
<1> USE DEF IInv
<1>1. /\ UNCHANGED <<docs, services, active, current, found, todo, failedCreate, reload, disturbed>>
      /\ faulted' = TRUE /\ pending' = {}
  BY DEF FetchFails
<1>2. \/ phase' = "refused" /\ row' = row /\ phase \in {"list", "get"}
      \/ phase' = "done" /\ row' = [s \in Service |-> IF s \in Applied THEN "Failed" ELSE NotYet]
  BY DEF FetchFails
<1>3. /\ Applied' = Applied
      /\ \A s : Declared(s)' = Declared(s) /\ Untouched(s)' = Untouched(s)
  BY <1>1, PlanSame DEF Untouched
<1>4. \A s \in Service : row'[s] \in {NotYet, "Failed"}
  BY <1>2 DEF RowsInOrder
<1>5. row' \in [Service -> {NotYet, "Failed"}]
  BY <1>2, <1>4 DEF TypeOK
<1>6. TypeOK'
  BY <1>1, <1>2, <1>3, <1>5 DEF TypeOK
<1>7. ReadsInOrder' /\ RowsInOrder' /\ NewAreFound' /\ PlanPredictsExecute'
  BY <1>1, <1>2, <1>4 DEF ReadsInOrder, RowsInOrder, NewAreFound, PlanPredictsExecute
<1>8. FoundAsDeclared'
  BY <1>1, <1>3 DEF FoundAsDeclared
<1>9. Gated'
  BY <1>1, <1>2, GatedSame DEF FetchFails
<1>10. RowsAreTrue' /\ WrittenIsActive'
  BY <1>3, <1>4 DEF RowsAreTrue, WrittenIsActive, Ok, Applied, NotYet
<1> QED BY <1>6, <1>7, <1>8, <1>9, <1>10

LEMMA PlanIInv == ASSUME IInv, Plan PROVE IInv'
<1> USE DEF IInv, Plan, fetch, outcomes
<1>1. Applied' = Applied
  BY PlanSame
<1>2. TypeOK' /\ ReadsInOrder'
  BY <1>1 DEF TypeOK, ReadsInOrder
<1>3. Gated'
  BY GatedSame
<1>4. NewAreFound'
  BY <1>1, CreateMeansAbsent DEF NewAreFound
<1> QED BY <1>2, <1>3, <1>4, QuietStep

-----------------------------------------------------------------------------
(* The two passes and the reload.                                           *)

LEMMA CreateIInv == ASSUME IInv, NEW s \in Service, Create(s) PROVE IInv'
<1> USE DEF IInv
<1>1. /\ phase = "create" /\ s \in todo /\ s \in Applied /\ todo' = todo \ {s}
      /\ UNCHANGED <<docs, active, phase, pending, current, found, row, reload, disturbed>>
  BY DEF Create, fetch, TypeOK
<1>2. PICK served \in BOOLEAN, answered \in BOOLEAN :
        /\ served => services[s] = Absent
        /\ answered => served
        /\ services' = IF served THEN [services EXCEPT ![s] = Minimal] ELSE services
        /\ failedCreate' = IF answered THEN failedCreate ELSE failedCreate \cup {s}
        /\ faulted' = (faulted \/ ~answered)
  BY DEF Create
<1>3. /\ Applied' = Applied
      /\ \A t : Declared(t)' = Declared(t) /\ Untouched(t)' = Untouched(t)
  BY <1>1, PlanSame DEF Untouched
<1>4. Minimal \in Body /\ Minimal # Absent
  <2>1. Minimal \in Body
    BY DEF Minimal, Body
  <2> QED BY <2>1, BodyIsThere
<1>5. services' \in [Service -> Body \cup {Absent}]
  BY <1>2, <1>4 DEF TypeOK, Body
<1>6. \A t \in Service : services[t] # Absent => services'[t] = services[t]
  BY <1>2 DEF TypeOK
<1>7. TypeOK'
  BY <1>1, <1>2, <1>3, <1>5 DEF TypeOK, Body
<1>8. ReadsInOrder' /\ RowsInOrder' /\ PlanPredictsExecute'
  BY <1>1, <1>2 DEF ReadsInOrder, RowsInOrder, PlanPredictsExecute
<1>9. FoundAsDeclared'
  BY <1>1, <1>3, <1>6, DeclaredIsBody, BodyIsThere, DocIsSet DEF FoundAsDeclared
<1>10. Gated'
  BY <1>1, GatedSame
<1>11. NewAreFound'
  <2> SUFFICES ASSUME ~faulted', disturbed = {}, NEW t \in Applied, current[t] = Absent
               PROVE  t \in todo' \/ services'[t] # Absent
    BY <1>1, <1>3 DEF NewAreFound
  <2>1. served /\ ~faulted /\ t \in Service
    BY <1>2 DEF Applied
  <2>2. t = s => services'[t] = Minimal
    BY <1>2, <2>1 DEF TypeOK
  <2>3. t # s => t \in todo' \/ services[t] # Absent
    BY <1>1, <2>1 DEF NewAreFound
  <2> QED BY <1>4, <1>6, <2>1, <2>2, <2>3
<1>12. RowsAreTrue' /\ WrittenIsActive'
  <2>1. \A t \in Applied : row'[t] = NotYet
    BY <1>1 DEF RowsInOrder, Applied
  <2> QED BY <1>1, <1>3, <2>1 DEF RowsAreTrue, WrittenIsActive, Ok, NotYet
<1> QED BY <1>7, <1>8, <1>9, <1>10, <1>11, <1>12

LEMMA StartReplaceIInv == ASSUME IInv, StartReplace PROVE IInv'
<1> USE DEF IInv, StartReplace, fetch, outcomes
<1>1. Applied' = Applied
  BY PlanSame
<1>2. TypeOK' /\ ReadsInOrder'
  BY <1>1 DEF TypeOK, ReadsInOrder
<1>3. Gated'
  BY GatedSame
<1>4. NewAreFound'
  BY <1>1 DEF NewAreFound
<1> QED BY <1>2, <1>3, <1>4, QuietStep

\* What passed the gates has its children, unless a request failed or others intervened.
LEMMA NothingMissing ==
    ASSUME IInv, phase = "replace", ~faulted, disturbed = {}, NEW s \in Applied
    PROVE  ~Unsendable(s)
<1>1. failedCreate = {} /\ s \in Service /\ docs[s] \subseteq Service
  BY DocIsSet DEF IInv, RowsInOrder
<1>2. \A t \in Applied : current[t] = Absent => t \in found
  BY DEF IInv, NewAreFound
<1>3. docs[s] \subseteq Present(current) \cup Applied
  BY DEF IInv, Gated, Unresolvable
<1>4. \A t \in docs[s] \ Present(current) : current[t] = Absent
  BY <1>1 DEF Present
<1>5. Missing(s) = {}
  BY <1>2, <1>3, <1>4 DEF Missing, Later
<1> QED BY <1>1, <1>2, <1>5 DEF Unsendable

LEMMA SettleIInv == ASSUME IInv, NEW s \in Service, Settle(s) PROVE IInv'
<1> USE DEF IInv
<1>1. /\ phase = "replace" /\ s \in todo /\ s \in Applied /\ todo' = todo \ {s}
      /\ UNCHANGED <<docs, services, active, phase, pending, current, found, failedCreate,
                     reload, faulted, disturbed>>
  BY DEF Settle, fetch, TypeOK
<1>2. PICK r \in {"Unchanged", "Failed"} :
        /\ row' = [row EXCEPT ![s] = r]
        /\ r = "Unchanged" => PlannedAction(s) = "none"
        /\ r = "Failed" => Unsendable(s)
  BY DEF Settle, End
<1>3. /\ Applied' = Applied
      /\ \A t : Declared(t)' = Declared(t) /\ Untouched(t)' = Untouched(t)
  BY <1>1, PlanSame DEF Untouched
<1>4. row'[s] = r /\ \A t \in Service \ {s} : row'[t] = row[t]
  BY <1>2 DEF TypeOK
<1>5. TypeOK'
  BY <1>1, <1>2, <1>3 DEF TypeOK
<1>6. ReadsInOrder' /\ RowsInOrder'
  BY <1>1 DEF ReadsInOrder, RowsInOrder
<1>7. FoundAsDeclared'
  BY <1>1, <1>3 DEF FoundAsDeclared
<1>8. Gated'
  BY <1>1, GatedSame
<1>9. NewAreFound' /\ WrittenIsActive'
  BY <1>1, <1>3 DEF NewAreFound, WrittenIsActive
<1>10. PlanPredictsExecute'
  BY <1>1, <1>2, <1>4, NothingMissing DEF PlanPredictsExecute
<1>11. RowsAreTrue'
  <2>1. r = "Unchanged" /\ Untouched(s) => services[s] = Declared(s)
    BY <1>1, <1>2, CreateMeansAbsent DEF FoundAsDeclared
  <2>2. ASSUME NEW t \in Applied, row'[t] \in Ok, Untouched(t)
        PROVE  services[t] = Declared(t)
    <3>1. CASE t = s
      BY <1>2, <1>4, <2>1, <2>2, <3>1 DEF Ok
    <3>2. CASE t # s
      BY <1>4, <2>2, <3>2 DEF RowsAreTrue, Applied
    <3> QED BY <3>1, <3>2
  <2> QED BY <1>1, <1>3, <2>2 DEF RowsAreTrue
<1> QED BY <1>5, <1>6, <1>7, <1>8, <1>9, <1>10, <1>11

LEMMA ReplaceIInv == ASSUME IInv, NEW s \in Service, Replace(s) PROVE IInv'
<1> USE DEF IInv
<1>1. /\ phase = "replace" /\ s \in todo /\ s \in Applied /\ todo' = todo \ {s}
      /\ ~Unsendable(s) /\ FullBody(s) = Declared(s) /\ Declared(s) \in Body
      /\ UNCHANGED <<docs, active, phase, pending, current, found, failedCreate, reload,
                     disturbed>>
  BY FullIsDeclared, DeclaredIsBody DEF Replace, fetch, TypeOK
<1>2. PICK served \in BOOLEAN, answered \in BOOLEAN :
        /\ answered => served
        /\ services' = IF served THEN [services EXCEPT ![s] = Declared(s)] ELSE services
        /\ row' = [row EXCEPT ![s] = IF answered THEN Success(PlannedAction(s)) ELSE "Failed"]
        /\ faulted' = (faulted \/ ~answered)
  BY <1>1 DEF Replace, End
<1>3. /\ Applied' = Applied
      /\ \A t : Declared(t)' = Declared(t) /\ Untouched(t)' = Untouched(t)
  BY <1>1, PlanSame DEF Untouched
<1>4. /\ services' \in [Service -> Body \cup {Absent}]
      /\ services'[s] \in {services[s], Declared(s)}
      /\ answered => services'[s] = Declared(s)
      /\ \A t \in Service \ {s} : services'[t] = services[t]
  BY <1>1, <1>2 DEF TypeOK, Body
<1>5. /\ \A t \in Service \ {s} : row'[t] = row[t]
      /\ row'[s] \in {"Created", "Updated", "Failed"}
      /\ row'[s] # "Failed" => answered
      /\ row'[s] = "Failed" => faulted'
  BY <1>2 DEF TypeOK, Success
<1>6. TypeOK'
  BY <1>1, <1>2, <1>3, <1>4 DEF TypeOK, Success, Body
<1>7. ReadsInOrder' /\ RowsInOrder'
  BY <1>1, <1>2 DEF ReadsInOrder, RowsInOrder
<1>8. FoundAsDeclared'
  BY <1>1, <1>3, <1>4 DEF FoundAsDeclared, Applied
<1>9. Gated'
  BY <1>1, GatedSame
<1>10. NewAreFound' /\ WrittenIsActive'
  BY <1>1, <1>2, <1>3 DEF NewAreFound, WrittenIsActive
<1>11. PlanPredictsExecute'
  BY <1>1, <1>2, <1>5 DEF PlanPredictsExecute
<1>12. RowsAreTrue'
  <2>1. ASSUME NEW t \in Applied, row'[t] \in Ok, Untouched(t)
        PROVE  services'[t] = Declared(t)
    <3>1. CASE t = s
      BY <1>4, <1>5, <2>1, <3>1 DEF Ok
    <3>2. CASE t # s
      BY <1>4, <1>5, <2>1, <3>2 DEF RowsAreTrue, Applied
    <3> QED BY <3>1, <3>2
  <2> QED BY <1>3, <2>1 DEF RowsAreTrue
<1> QED BY <1>6, <1>7, <1>8, <1>9, <1>10, <1>11, <1>12

\* The reload makes active what the rows speak of.
LEMMA ReloadIInv == ASSUME IInv, Reload PROVE IInv'
<1> USE DEF IInv
<1>1. /\ phase = "replace" /\ phase' = "done" /\ pending = {}
      /\ UNCHANGED <<docs, services, pending, current, found, todo, failedCreate, row, faulted,
                     disturbed>>
  BY DEF Reload, fetch, ReadsInOrder
<1>2. PICK served \in BOOLEAN, answered \in BOOLEAN :
        /\ answered => served
        /\ active' = IF served THEN services ELSE active
        /\ reload' = IF answered THEN "done" ELSE "warned"
  BY DEF Reload
<1>3. /\ Applied' = Applied
      /\ \A t : Declared(t)' = Declared(t) /\ Untouched(t)' = Untouched(t)
  BY <1>1, PlanSame DEF Untouched
<1>4. TypeOK'
  BY <1>1, <1>2, <1>3 DEF TypeOK
<1>5. ReadsInOrder' /\ RowsInOrder' /\ NewAreFound' /\ PlanPredictsExecute'
  BY <1>1 DEF ReadsInOrder, RowsInOrder, NewAreFound, PlanPredictsExecute
<1>6. FoundAsDeclared' /\ RowsAreTrue'
  BY <1>1, <1>3 DEF FoundAsDeclared, RowsAreTrue
<1>7. Gated'
  BY <1>1, GatedSame
<1>8. WrittenIsActive'
  <2>1. reload' # "warned" => active' = services
    BY <1>2
  <2> QED BY <1>1, <1>3, <2>1 DEF WrittenIsActive, RowsAreTrue, Ok
<1> QED BY <1>4, <1>5, <1>6, <1>7, <1>8

LEMMA NoReloadIInv == ASSUME IInv, NoReload PROVE IInv'
<1> USE DEF IInv, NoReload, fetch, outcomes
<1>1. Applied' = Applied
  BY PlanSame
<1>2. TypeOK' /\ ReadsInOrder'
  BY <1>1 DEF TypeOK, ReadsInOrder
<1>3. Gated'
  BY GatedSame
<1>4. NewAreFound'
  BY DEF NewAreFound
<1>5. \A s \in Service : row[s] \notin {"Created", "Updated"}
  BY DEF ReloadDue
<1> QED BY <1>2, <1>3, <1>4, <1>5, QuietStep

\* What others delete takes with it the edges to it, and only those.
LEMMA OtherOperatorIInv == ASSUME IInv, NEW s \in Service, OtherOperator(s) PROVE IInv'
<1> USE DEF IInv
<1>1. /\ phase \notin {"gate", "done", "refused"} /\ disturbed' = disturbed \cup {s}
      /\ UNCHANGED <<docs, active, phase, pending, current, found, todo, failedCreate, row,
                     reload, faulted>>
  BY DEF OtherOperator, fetch, outcomes
<1>2. services \in [Service -> Body \cup {Absent}]
  BY DEF TypeOK, Body
<1>3. services' \in [Service -> Body \cup {Absent}]
  <2>1. CASE services[s] = Absent
    <3>1. [body |-> "old", children |-> {}] \in Body
      BY DEF Body
    <3> QED BY <1>2, <2>1, <3>1 DEF OtherOperator
  <2>2. CASE services[s] # Absent
    <3>1. \A t \in Service : services[t] # Absent =>
             [services[t] EXCEPT !.children = @ \ {s}] \in Body
      BY <1>2 DEF Body
    <3> QED BY <2>2, <3>1 DEF OtherOperator, Without
  <2> QED BY <2>1, <2>2
<1>4. \A t \in Service \ {s} :
         services[t] # Absent /\ s \notin services[t].children => services'[t] = services[t]
  <2> SUFFICES ASSUME NEW t \in Service \ {s}, services[t] # Absent, s \notin services[t].children
               PROVE  services'[t] = services[t]
    OBVIOUS
  <2>1. CASE services[s] = Absent
    BY <1>2, <2>1 DEF OtherOperator
  <2>2. CASE services[s] # Absent
    <3>1. services[t].children \ {s} = services[t].children
      OBVIOUS
    <3>2. [services[t] EXCEPT !.children = @ \ {s}] = services[t]
      BY <1>2, <3>1 DEF Body
    <3> QED BY <2>2, <3>2 DEF OtherOperator, Without
  <2> QED BY <2>1, <2>2
<1>5. \A t \in Applied : Untouched(t)' =>
         Untouched(t) /\ (services[t] = Declared(t) => services'[t] = Declared(t))
  <2> SUFFICES ASSUME NEW t \in Applied, Untouched(t)'
               PROVE  Untouched(t) /\ (services[t] = Declared(t) => services'[t] = Declared(t))
    OBVIOUS
  <2>1. t # s /\ s \notin docs[t] /\ Untouched(t) /\ t \in Service
    BY <1>1, DocIsSet DEF Untouched
  <2>2. Declared(t) # Absent /\ Declared(t).children = docs[t]
    BY DeclaredIsBody, BodyIsThere DEF Declared
  <2> QED BY <1>4, <2>1, <2>2
<1>6. Applied' = Applied /\ \A t : Declared(t)' = Declared(t)
  BY <1>1, PlanSame
<1>7. TypeOK'
  BY <1>1, <1>3, <1>6 DEF TypeOK, Body
<1>8. ReadsInOrder' /\ RowsInOrder'
  BY <1>1 DEF ReadsInOrder, RowsInOrder
<1>9. NewAreFound' /\ PlanPredictsExecute'
  BY <1>1 DEF NewAreFound, PlanPredictsExecute
<1>10. Gated'
  BY <1>1, GatedSame
<1>11. FoundAsDeclared' /\ RowsAreTrue' /\ WrittenIsActive'
  BY <1>1, <1>5, <1>6 DEF FoundAsDeclared, RowsAreTrue, WrittenIsActive
<1> QED BY <1>7, <1>8, <1>9, <1>10, <1>11

-----------------------------------------------------------------------------
(* The theorems.                                                            *)

\* Every step of the apply and of the other operators keeps the invariant.
THEOREM Strengthened == Spec => []IInv
<1>1. IInv /\ [Next]_vars => IInv'
  <2> SUFFICES ASSUME IInv, [Next]_vars PROVE IInv'
    OBVIOUS
  <2>1. CASE Gate
    BY <2>1, GateIInv
  <2>2. CASE List
    BY <2>2, ListIInv
  <2>3. CASE FetchFails
    BY <2>3, FetchFailsIInv
  <2>4. CASE Plan
    BY <2>4, PlanIInv
  <2>5. CASE StartReplace
    BY <2>5, StartReplaceIInv
  <2>6. CASE Reload \/ NoReload
    BY <2>6, ReloadIInv, NoReloadIInv
  <2>7. ASSUME NEW s \in Service, GetOne(s) \/ Create(s) \/ Settle(s) \/ Replace(s) \/ OtherOperator(s)
        PROVE  IInv'
    BY <2>7, GetOneIInv, CreateIInv, SettleIInv, ReplaceIInv, OtherOperatorIInv
  <2>8. CASE UNCHANGED vars
    <3>1. /\ UNCHANGED <<docs, services, active, phase, pending, current, found, todo, outcomes,
                         faulted, disturbed>>
          /\ Applied' = Applied
      BY <2>8, PlanSame DEF vars, fetch
    <3>2. TypeOK' /\ ReadsInOrder' /\ NewAreFound'
      BY <3>1 DEF IInv, TypeOK, ReadsInOrder, NewAreFound, outcomes
    <3>3. Gated'
      BY <3>1, GatedSame DEF IInv
    <3> QED BY <3>1, <3>2, <3>3, QuietStep
  <2> QED BY <2>1, <2>2, <2>3, <2>4, <2>5, <2>6, <2>7, <2>8 DEF Next
<1> QED BY InitIInv, <1>1, PTL DEF Spec

\* A cycle among settled services would be one among their documents.
LEMMA NoCycleSettled == IInv => SettledIsAcyclic
<1> SUFFICES ASSUME IInv, disturbed = {},
                    NEW S \in SUBSET {s \in Applied : row[s] \in Ok}, S # {},
                    \A s \in S : services[s].children \cap S # {}
             PROVE  FALSE
  BY DEF SettledIsAcyclic
<1> USE DEF IInv
<1> DEFINE edges == [s \in Applied |-> docs[s]]
<1>1. \A s \in S : services[s].children = docs[s]
  <2> SUFFICES ASSUME NEW s \in S PROVE services[s].children = docs[s]
    OBVIOUS
  <2>1. s \in Applied /\ row[s] \in Ok /\ Untouched(s)
    BY DEF Untouched
  <2>2. services[s] = Declared(s)
    BY <2>1 DEF RowsAreTrue
  <2> QED BY <2>2 DEF Declared
<1>2. S \in SUBSET DOMAIN edges /\ \A s \in S : edges[s] \cap S # {}
  BY <1>1
<1>3. HasCycle(edges)
  BY <1>2 DEF HasCycle
<1>4. phase \notin {"gate", "refused"}
  BY DEF RowsInOrder, Ok, Applied, NotYet
<1> QED BY <1>3, <1>4 DEF Gated

\* Rows are true, the plan foresees what the program itself would refuse, and what was
\* settled has no cycle (handler.rs plan and execute).
THEOREM RowsHold == Spec => []BusinessServiceInv
<1>1. IInv => BusinessServiceInv
  BY NoCycleSettled DEF IInv, BusinessServiceInv
<1> QED BY <1>1, Strengthened, PTL

\* Created and Updated are said of what bsmd runs, or of what a warning was given.
THEOREM WrittenRuns == Spec => []WrittenIsActive
<1>1. IInv => WrittenIsActive
  BY DEF IInv
<1> QED BY <1>1, Strengthened, PTL

\* No step of the apply leaves a service half written.
THEOREM NeverHalf == Spec => WholeOrBare
<1> DEFINE Whole == \A s \in Service : services'[s] # services[s] /\ disturbed' = disturbed =>
                        \/ services'[s] = Declared(s)
                        \/ services[s] = Absent /\ services'[s] = Minimal
<1>1. IInv /\ [Next]_vars => [Whole]_vars
  <2> SUFFICES ASSUME IInv, Next, disturbed' = disturbed,
                      NEW s \in Service, services'[s] # services[s]
               PROVE  services'[s] = Declared(s) \/ (services[s] = Absent /\ services'[s] = Minimal)
    OBVIOUS
  <2> USE DEF IInv
  <2>1. PICK t \in Service : Create(t) \/ Replace(t)
    <3>1. ~\E t \in Service : OtherOperator(t)
      BY DEF OtherOperator
    <3> QED BY <3>1 DEF Next, Gate, List, FetchFails, Plan, StartReplace, Reload, NoReload,
               GetOne, Settle
  <2>2. CASE Create(t)
    BY <2>2 DEF Create, TypeOK
  <2>3. CASE Replace(t)
    <3>1. t \in Applied /\ FullBody(t) = Declared(t)
      BY <2>3, FullIsDeclared DEF Replace, TypeOK
    <3> QED BY <2>3, <3>1 DEF Replace, TypeOK
  <2> QED BY <2>1, <2>2, <2>3
<1>2. Spec => [][Whole]_vars
  BY <1>1, Strengthened, PTL DEF Spec
<1> QED BY <1>2 DEF WholeOrBare
=============================================================================
