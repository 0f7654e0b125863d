------------------------------ MODULE UserApply ------------------------------
(***************************************************************************)
(* Applying `kind: User` documents (onmsctl-iam/src/apply): a snapshot of  *)
(* all users, one read per declared user, the lockout checks, then the     *)
(* atomic actions of all users in one global order.  At most MaxOthers     *)
(* accounts are changed by other administrators while the apply runs.      *)
(* Document names are distinct (PR-IAM-002 refuses the others up front).   *)
(***************************************************************************)
EXTENDS Naturals, FiniteSets

CONSTANTS
    User, Role,
    Protected,      \* iam.protected-roles
    Self,           \* the calling user
    NameRank,       \* alphabetical order of the names
    Declarable,     \* what a document may declare: [roles, profile, password]
    Account,        \* what the server may hold of a user: [roles, profile]
    Absent, NoDoc, NoRole,
    MaxOthers

ASSUME UserAssumption ==
    /\ Protected \subseteq Role
    /\ Self \in User
    /\ NameRank \in [User -> Nat]
    /\ \A u, v \in User : NameRank[u] = NameRank[v] => u = v
    /\ Declarable \subseteq [roles : SUBSET Role, profile : {"any", "new"}, password : BOOLEAN]
    /\ Account \subseteq [roles : SUBSET Role, profile : {"old", "new"}]
    /\ Absent \notin [roles : SUBSET Role, profile : {"old", "new"}]
    /\ NoDoc \notin Declarable /\ NoRole \notin Role
    /\ MaxOthers \in Nat

VARIABLES
    docs, dryRun, override,   \* the input and iam.allow-admin-lockout
    users,      \* the accounts on the server
    snapshot,   \* GET /users at the start of planning
    phase,
    plans,      \* the actions planned for each user
    unplanned,  \* the declared users not read yet
    planFailed, \* the users whose plan has errors
    todo,       \* the actions still to run
    failed,     \* the actions whose call failed
    disturbed   \* the users other administrators changed meanwhile

vars == <<docs, dryRun, override, users, snapshot, phase, plans, unplanned,
          planFailed, todo, failed, disturbed>>
setup == <<docs, dryRun, override>>

Op == {"create", "update", "add", "remove"}
Act == [user : User, op : Op, role : Role \cup {NoRole}]

Declared == {u \in User : docs[u] # NoDoc}

Holders(accounts, r) == {u \in User : accounts[u] # Absent /\ r \in accounts[u].roles}

-----------------------------------------------------------------------------
\* Names of the form <definition>_<bug> are broken variants: slips the code could have
\* made, kept to show that the properties below would notice them.

\* plan_user of an existing account: the changed scalars, then the exact role delta.
PlanExisting_AddOnly(u, doc, account) ==
    {[user |-> u, op |-> "add", role |-> r] : r \in doc.roles \ account.roles}

PlanExisting(u, doc, account) ==
    (IF doc.profile \in {"any", account.profile} THEN {}
       ELSE {[user |-> u, op |-> "update", role |-> NoRole]})
      \cup {[user |-> u, op |-> "add", role |-> r] : r \in doc.roles \ account.roles}
      \cup {[user |-> u, op |-> "remove", role |-> r] : r \in account.roles \ doc.roles}

\* plan_user: a create carries its roles and needs a passwordRef (PR-IAM-005).
PlanUser(u, doc, account) ==
    IF account = Absent THEN {[user |-> u, op |-> "create", role |-> NoRole]}
    ELSE PlanExisting(u, doc, account)

PlanErrors(doc, account) == account = Absent /\ ~doc.password

Planned == UNION {plans[u] : u \in User}

\* The users the plan takes protected role r from, and those it gives it to.
Removed(r) == {a.user : a \in {b \in Planned : b.op = "remove" /\ b.role = r}}

Added(r) ==
    {a.user : a \in {b \in Planned :
                        \/ b.op = "add" /\ b.role = r
                        \/ b.op = "create" /\ r \in docs[b.user].roles}}

\* admin_lockout_roles: a role already without holders is not this apply's doing.
AdminLockout ==
    {r \in Protected :
        Holders(snapshot, r) # {} /\ (Holders(snapshot, r) \ Removed(r)) \cup Added(r) = {}}

\* self_lockout_candidates
Candidates_None == {}
Candidates == UNION {Removed(r) : r \in Protected}

\* execute_rank, then the user's name.
ExecuteRank_RemoveFirst(op) ==
    CASE op = "remove" -> 0 [] op = "create" -> 1 [] op = "update" -> 2 [] OTHER -> 3

ExecuteRank(op) ==
    CASE op = "create" -> 0 [] op = "update" -> 1 [] op = "add" -> 2 [] OTHER -> 3

NotAfter(a, b) ==
    \/ ExecuteRank(a.op) < ExecuteRank(b.op)
    \/ ExecuteRank(a.op) = ExecuteRank(b.op) /\ NameRank[a.user] <= NameRank[b.user]

\* The account once the server has served action a.

Served(a) ==
    CASE a.op = "create" ->
            [roles |-> docs[a.user].roles,
             profile |-> IF docs[a.user].profile = "any" THEN "old" ELSE "new"]
      [] a.op = "update" -> [users[a.user] EXCEPT !.profile = "new"]
      [] a.op = "add"    -> [users[a.user] EXCEPT !.roles = @ \cup {a.role}]
      [] OTHER           -> [users[a.user] EXCEPT !.roles = @ \ {a.role}]

\* Requests about a user who is gone, or a role not held, are answered 404 and 400.
Servable(a) ==
    /\ a.op # "create" => users[a.user] # Absent
    /\ a.op = "remove" => a.role \in users[a.user].roles

-----------------------------------------------------------------------------
Init ==
    /\ docs \in [User -> Declarable \cup {NoDoc}]
    /\ dryRun \in BOOLEAN
    /\ override \in BOOLEAN
    /\ users \in [User -> Account \cup {Absent}]
    /\ users[Self] # Absent
    /\ snapshot = [u \in User |-> Absent]
    /\ phase = "snapshot"
    /\ plans = [u \in User |-> {}]
    /\ unplanned = Declared
    /\ planFailed = {}
    /\ todo = {}
    /\ failed = {}
    /\ disturbed = {}

\* GET /users; without it the lockout checks cannot be made and the apply is refused.
Snapshot ==
    /\ phase = "snapshot"
    /\ \/ phase' = "plan" /\ snapshot' = users
       \/ phase' = "refused" /\ UNCHANGED snapshot
    /\ UNCHANGED <<setup, users, plans, unplanned, planFailed, todo, failed, disturbed>>

\* GET /users/{name} of one declared user; its failure fails that user's plan only.
ReadUser(u) ==
    /\ phase = "plan" /\ u \in unplanned
    /\ unplanned' = unplanned \ {u}
    /\ \/ /\ ~PlanErrors(docs[u], users[u])
          /\ plans' = [plans EXCEPT ![u] = PlanUser(u, docs[u], users[u])]
          /\ UNCHANGED planFailed
       \/ /\ planFailed' = planFailed \cup {u}
          /\ UNCHANGED plans
    /\ UNCHANGED <<setup, users, snapshot, phase, todo, failed, disturbed>>

\* The lockout checks of a real apply.  Without a usable whoami answer (known is
\* FALSE) a plan that takes a protected role from anybody is refused (IAM-002).
CheckLockout ==
    /\ phase = "plan" /\ unplanned = {}
    /\ \E known \in BOOLEAN :
          LET refused ==
                \/ AdminLockout # {} /\ ~override
                \/ Candidates # {} /\ (~known \/ Self \in Candidates)
          IN  phase' = IF dryRun THEN "done" ELSE IF refused THEN "refused" ELSE "execute"
    /\ todo' = IF phase' = "execute" THEN Planned ELSE {}
    /\ UNCHANGED <<setup, users, snapshot, plans, unplanned, planFailed, failed, disturbed>>

\* One action.  The bucket always goes on after a failed one.
Execute(a) ==
    /\ phase = "execute"
    /\ a \in todo /\ \A b \in todo : NotAfter(a, b)
    /\ todo' = todo \ {a}
    /\ \E served, answered \in BOOLEAN :
          /\ served => Servable(a)
          /\ answered => served
          /\ users' = IF served THEN [users EXCEPT ![a.user] = Served(a)] ELSE users
          /\ failed' = IF answered THEN failed ELSE failed \cup {a}
    /\ UNCHANGED <<setup, snapshot, phase, plans, unplanned, planFailed, disturbed>>

Finish ==
    /\ phase = "execute" /\ todo = {}
    /\ phase' = "done"
    /\ UNCHANGED <<setup, users, snapshot, plans, unplanned, planFailed, todo, failed, disturbed>>

\* Another administrator changes, creates or deletes an account.
OtherAdmin(u) ==
    /\ phase \in {"plan", "execute"}
    /\ u # Self /\ u \notin disturbed /\ Cardinality(disturbed) < MaxOthers
    /\ \E account \in Account \cup {Absent} : users' = [users EXCEPT ![u] = account]
    /\ disturbed' = disturbed \cup {u}
    /\ UNCHANGED <<setup, snapshot, phase, plans, unplanned, planFailed, todo, failed>>

Next ==
    \/ Snapshot \/ CheckLockout \/ Finish
    \/ \E u \in User : ReadUser(u) \/ OtherAdmin(u)
    \/ \E a \in todo : Execute(a)

Spec == Init /\ [][Next]_vars

\* A user's row: UserResult, as outcome_of and preview_for print it.
Row(u) ==
    IF u \in planFailed \/ \E a \in failed : a.user = u THEN "Failed"
    ELSE CASE plans[u] = {} -> "Unchanged"
           [] \E a \in plans[u] : a.op = "create" -> "Created"
           [] OTHER -> "Updated"

Matches(doc, account) ==
    /\ account # Absent
    /\ account.roles = doc.roles
    /\ doc.profile \in {"any", account.profile}

-----------------------------------------------------------------------------
\* Type invariant of an apply of User documents.
TypeOK ==
    /\ docs \in [User -> Declarable \cup {NoDoc}]
    /\ {dryRun, override} \subseteq BOOLEAN
    /\ \A u \in User :
          users[u] # Absent =>
              users[u].roles \subseteq Role /\ users[u].profile \in {"old", "new"}
    /\ snapshot \in [User -> Account \cup {Absent}]
    /\ phase \in {"snapshot", "plan", "execute", "done", "refused"}
    /\ plans \in [User -> SUBSET Act]
    /\ unplanned \subseteq User /\ planFailed \subseteq User /\ disturbed \subseteq User
    /\ todo \subseteq Act /\ failed \subseteq Act

\* Every grant of role r the plan relies on was answered as served.
GrantsHold(r) ==
    \A a \in failed :
        /\ a.op = "add" => a.role # r
        /\ a.op = "create" => r \notin docs[a.user].roles

\* IAM-001, at every moment of the apply and not only at its end: a protected role
\* that had a holder keeps one, unless a grant failed, the operator overrode the
\* check or other administrators interfered.
ProtectedRoleKept ==
    phase \in {"execute", "done"} /\ ~override /\ disturbed = {} =>
        \A r \in Protected :
            Holders(snapshot, r) # {} /\ GrantsHold(r) => Holders(users, r) # {}

\* IAM-002: no step of the apply takes a protected role from the caller, not even
\* under the override or with stale reads or failed calls.
SelfKeepsProtected ==
    [][disturbed' = disturbed =>
          \A r \in Protected : Self \in Holders(users, r) => Self \in Holders(users', r)]_vars

\* A row other than Failed means that the account is as declared, roles and profile,
\* unless another administrator changed it.
RowsAreTrue ==
    phase = "done" /\ ~dryRun =>
        \A u \in Declared \ disturbed : Row(u) # "Failed" => Matches(docs[u], users[u])

\* The state is well typed and no row claims more than what was done.
UserInv == TypeOK /\ RowsAreTrue
=============================================================================
