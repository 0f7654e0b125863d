------------------------- MODULE BusinessServiceApply -------------------------
(***************************************************************************)
(* Applying `kind: BusinessService` documents                              *)
(* (onmsctl-businessservice/src/apply/handler.rs).  Services refer to      *)
(* their children by server id, so a new service is written twice: pass 1  *)
(* creates it bare to obtain its id, pass 2 replaces it with its edges.    *)
(* bsmd runs what it loaded at its last reload.  Requests may be served    *)
(* although their answer is lost, and other operators create and delete    *)
(* services, each at most once, so that a name never changes its id twice. *)
(***************************************************************************)
EXTENDS Naturals, FiniteSets

CONSTANTS
    Service,
    Declarable,     \* the child sets a document of each service may declare
    Found,          \* the child sets of the services found on the server
    Absent, NoDoc,
    MaxOthers       \* how many services other operators create or delete

ASSUME ServiceAssumption ==
    /\ DOMAIN Declarable = Service /\ DOMAIN Found = Service
    /\ \A s \in Service :
          Declarable[s] \subseteq SUBSET Service /\ Found[s] \subseteq SUBSET Service
    /\ Absent \notin [body : {"old", "new"}, children : SUBSET Service]
    /\ \A s \in Service : NoDoc \notin Declarable[s]
    /\ MaxOthers \in Nat

VARIABLES
    docs,       \* the children each document declares
    services,   \* the services on the server
    active,     \* the services as bsmd runs them
    phase,
    pending,    \* the listed services a fetch_all still has to GET
    current,    \* what the plan's fetch_all returned
    found,      \* the names the second fetch_all returned
    todo,       \* the documents the current pass has still to reach
    failedCreate,
    row,        \* the outcomes
    reload,     \* "none", "done" or "warned"
    faulted,    \* some request failed
    disturbed   \* the services other operators created or deleted

fetch == <<pending, current, found>>
outcomes == <<failedCreate, row, reload>>
vars == <<docs, services, active, phase, fetch, todo, outcomes, faulted, disturbed>>

NotYet == "not yet"
Applied == {s \in Service : docs[s] # NoDoc}
Present(world) == {s \in Service : world[s] # Absent}
Declared(s) == [body |-> "new", children |-> docs[s]]

-----------------------------------------------------------------------------
\* Names of the form <definition>_<bug> are broken variants: slips the code could have
\* made, kept to show that the properties below would notice them.

\* detect_cycle: the child edges among the applied services form a cycle.
HasCycle(edges) ==
    \E S \in SUBSET DOMAIN edges : S # {} /\ \A s \in S : edges[s] \cap S # {}

\* A child neither on the server nor in the apply is a plan error.
Unresolvable(s) == ~(docs[s] \subseteq Present(current) \cup Applied)

\* Children created in this apply are resolved after pass 1, the others while planning.
Later_None(s) == {}
Later(s) == docs[s] \ Present(current)

PlannedAction(s) ==
    CASE current[s] = Absent -> "create"
      [] Later(s) = {} /\ current[s] = Declared(s) -> "none"
      [] OTHER -> "update"

\* Pass 1 sends the name, attributes and reduce function only.
Minimal == [body |-> "new", children |-> {}]

\* The body pass 2 sends, and the children it could not resolve.
FullBody(s) == [body |-> "new",
                children |-> (docs[s] \cap Present(current)) \cup (Later(s) \cap found)]

Missing_Ignored(s) == {}
Missing(s) == Later(s) \ found

\* Pass 2 gives up on s: its create failed, or it or a child has no id.
Unsendable(s) ==
    s \in failedCreate \/ Missing(s) # {} \/ (current[s] = Absent /\ s \notin found)

Success(action) == IF action = "create" THEN "Created" ELSE "Updated"

\* Whether execute ends with a reload: one of the PUTs was answered.
ReloadDue_Never == FALSE
ReloadDue == \E s \in Service : row[s] \in {"Created", "Updated"}

-----------------------------------------------------------------------------
Init ==
    /\ docs \in [Service -> UNION {Declarable[s] : s \in Service} \cup {NoDoc}]
    /\ \A s \in Service : docs[s] \in Declarable[s] \cup {NoDoc}
    /\ services \in [Service -> [body : {"old", "new"},
                                 children : UNION {Found[s] : s \in Service}] \cup {Absent}]
    /\ \A s \in Present(services) :
          services[s].children \in Found[s] /\ services[s].children \subseteq Present(services)
    /\ active = services
    /\ phase = "gate"
    /\ pending = {} /\ found = {}
    /\ current = [s \in Service |-> Absent]
    /\ todo = {}
    /\ failedCreate = {}
    /\ row = [s \in Service |-> NotYet]
    /\ reload = "none" /\ faulted = FALSE /\ disturbed = {}

\* The checks made before any HTTP.
Gate ==
    /\ phase = "gate"
    /\ phase' = IF HasCycle([s \in Applied |-> docs[s]]) THEN "refused" ELSE "list"
    /\ UNCHANGED <<docs, services, active, fetch, todo, outcomes, faulted, disturbed>>

\* fetch_all: the list of ids, then one GET per service; 404 drops it.
List ==
    /\ \/ phase = "list" /\ phase' = "get"
       \/ phase = "create" /\ todo = {} /\ phase' = "get again"
    /\ pending' = Present(services)
    /\ UNCHANGED <<docs, services, active, current, found, todo, outcomes, faulted, disturbed>>

GetOne(s) ==
    /\ s \in pending
    /\ pending' = pending \ {s}
    /\ IF phase = "get"
         THEN current' = [current EXCEPT ![s] = services[s]] /\ UNCHANGED found
         ELSE /\ found' = IF services[s] # Absent THEN found \cup {s} ELSE found
              /\ UNCHANGED current
    /\ UNCHANGED <<docs, services, active, phase, todo, outcomes, faulted, disturbed>>

\* A read fails: before the gate nothing is applied, after pass 1 execute fails as a
\* whole, which the router reports as one Failed row per document.
FetchFails ==
    /\ faulted' = TRUE
    /\ \/ /\ phase \in {"list", "get"}
          /\ phase' = "refused"
          /\ UNCHANGED row
       \/ /\ phase = "get again" \/ (phase = "create" /\ todo = {})
          /\ phase' = "done"
          /\ row' = [s \in Service |-> IF s \in Applied THEN "Failed" ELSE NotYet]
    /\ pending' = {}
    /\ UNCHANGED <<docs, services, active, current, found, todo, failedCreate, reload,
                   disturbed>>

\* plan_service for every document, then execute starts pass 1.
Plan ==
    /\ phase = "get" /\ pending = {}
    /\ IF \E s \in Applied : Unresolvable(s)
         THEN phase' = "refused" /\ UNCHANGED todo
         ELSE phase' = "create" /\ todo' = {s \in Applied : PlannedAction(s) = "create"}
    /\ UNCHANGED <<docs, services, active, fetch, outcomes, faulted, disturbed>>

\* Pass 1: POST of one new service.  A taken name is refused.  The passes go through
\* the documents in the order of the input: any order stands for it.
Create(s) ==
    /\ phase = "create" /\ s \in todo
    /\ todo' = todo \ {s}
    /\ \E served, answered \in BOOLEAN :
          /\ served => services[s] = Absent
          /\ answered => served
          /\ services' = IF served THEN [services EXCEPT ![s] = Minimal] ELSE services
          /\ failedCreate' = IF answered THEN failedCreate ELSE failedCreate \cup {s}
          /\ faulted' = (faulted \/ ~answered)
    /\ UNCHANGED <<docs, active, phase, fetch, row, reload, disturbed>>

StartReplace ==
    /\ phase = "get again" /\ pending = {}
    /\ phase' = "replace"
    /\ todo' = Applied
    /\ UNCHANGED <<docs, services, active, fetch, outcomes, faulted, disturbed>>

End(s, outcome) == row' = [row EXCEPT ![s] = outcome]

\* Pass 2 settles a document without a request.
Settle(s) ==
    /\ phase = "replace" /\ s \in todo
    /\ todo' = todo \ {s}
    /\ \/ PlannedAction(s) = "none" /\ End(s, "Unchanged")
       \/ /\ PlannedAction(s) # "none"
          /\ Unsendable(s)
          /\ End(s, "Failed")
    /\ UNCHANGED <<docs, services, active, phase, fetch, failedCreate, reload, faulted,
                   disturbed>>

\* Pass 2: PUT of the full body.  The server refuses an unknown service or child.
Replace(s) ==
    /\ phase = "replace" /\ s \in todo
    /\ PlannedAction(s) # "none" /\ ~Unsendable(s)
    /\ todo' = todo \ {s}
    /\ \E served, answered \in BOOLEAN :
          /\ served => {s} \cup FullBody(s).children \subseteq Present(services)
          /\ answered => served
          /\ services' = IF served THEN [services EXCEPT ![s] = FullBody(s)] ELSE services
          /\ End(s, IF answered THEN Success(PlannedAction(s)) ELSE "Failed")
          /\ faulted' = (faulted \/ ~answered)
    /\ UNCHANGED <<docs, active, phase, fetch, failedCreate, reload, disturbed>>

\* POST daemon/reload; its failure is a warning.
Reload ==
    /\ phase = "replace" /\ todo = {} /\ ReloadDue
    /\ phase' = "done"
    /\ \E served, answered \in BOOLEAN :
          /\ answered => served
          /\ active' = IF served THEN services ELSE active
          /\ reload' = IF answered THEN "done" ELSE "warned"
    /\ UNCHANGED <<docs, services, fetch, todo, failedCreate, row, faulted, disturbed>>

NoReload ==
    /\ phase = "replace" /\ todo = {} /\ ~ReloadDue
    /\ phase' = "done"
    /\ UNCHANGED <<docs, services, active, fetch, todo, outcomes, faulted, disturbed>>

\* The services once s and the edges to it are gone.
Without(s) ==
    [t \in Service |-> CASE t = s -> Absent
                         [] t # s /\ services[t] = Absent -> Absent
                         [] OTHER -> [services[t] EXCEPT !.children = @ \ {s}]]

\* Another operator creates a service, or deletes one and with it the edges to it.
OtherOperator(s) ==
    /\ phase \notin {"gate", "done", "refused"}
    /\ s \notin disturbed /\ Cardinality(disturbed) < MaxOthers
    /\ services' = IF services[s] = Absent
                     THEN [services EXCEPT ![s] = [body |-> "old", children |-> {}]]
                   ELSE Without(s)
    /\ disturbed' = disturbed \cup {s}
    /\ UNCHANGED <<docs, active, phase, fetch, todo, outcomes, faulted>>

Next ==
    \/ Gate \/ List \/ FetchFails \/ Plan \/ StartReplace \/ Reload \/ NoReload
    \/ \E s \in Service :
          GetOne(s) \/ Create(s) \/ Settle(s) \/ Replace(s) \/ OtherOperator(s)

Spec == Init /\ [][Next]_vars

Ok == {"Created", "Updated", "Unchanged"}

\* Neither s nor a child it declares was changed by somebody else.
Untouched(s) == disturbed \cap ({s} \cup docs[s]) = {}

-----------------------------------------------------------------------------
\* Type invariant of an apply of BusinessService documents.
TypeOK ==
    /\ \A s \in Service : docs[s] \in Declarable[s] \cup {NoDoc}
    /\ \A world \in {services, active, current} :
          world \in [Service -> [body : {"old", "new"}, children : SUBSET Service] \cup {Absent}]
    /\ phase \in {"gate", "list", "get", "create", "get again", "replace", "done", "refused"}
    /\ pending \subseteq Service /\ found \subseteq Service
    /\ todo \subseteq Applied /\ failedCreate \subseteq Applied
    /\ row \in [Service -> {NotYet, "Created", "Updated", "Unchanged", "Failed"}]
    /\ faulted \in BOOLEAN
    /\ reload \in {"none", "done", "warned"}
    /\ disturbed \subseteq Service

\* A row other than Failed means that the service has exactly the declared attributes
\* and edges, whatever became of the services around it.
RowsAreTrue ==
    \A s \in Applied : row[s] \in Ok /\ Untouched(s) => services[s] = Declared(s)

\* Created or Updated means that bsmd runs the declared service at the end of the
\* apply, unless the reload warned.
WrittenIsActive ==
    phase = "done" /\ reload # "warned" =>
        \A s \in Applied :
            row[s] \in {"Created", "Updated"} /\ Untouched(s) => active[s] = Declared(s)

\* A document that passed the plan's gates cannot fail in execute on its own account:
\* without a failed request or another operator, no row of the apply is Failed.
PlanPredictsExecute ==
    ~faulted /\ disturbed = {} => \A s \in Service : row[s] # "Failed"

\* A service is replaced as a whole object: whatever fails around it, it is what it
\* was, a bare service this apply created, or everything its document declares.
WholeOrBare ==
    [][\A s \in Service : services'[s] # services[s] /\ disturbed' = disturbed =>
           \/ services'[s] = Declared(s)
           \/ services[s] = Absent /\ services'[s] = Minimal]_vars

\* The services an apply settled have no cycle of children among them, in whatever
\* order they were written and whatever their edges were before.
SettledIsAcyclic ==
    LET Settled == {s \in Applied : row[s] \in Ok}
    IN  disturbed = {} =>
            ~\E S \in SUBSET Settled :
                 S # {} /\ \A s \in S : services[s].children \cap S # {}

\* The state is well typed, rows are true, the plan foresees what the program itself
\* would refuse, and no cycle of children is settled.
BusinessServiceInv == TypeOK /\ RowsAreTrue /\ PlanPredictsExecute /\ SettledIsAcyclic
=============================================================================
