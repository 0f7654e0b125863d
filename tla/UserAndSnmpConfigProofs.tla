----------------------- MODULE UserAndSnmpConfigProofs -----------------------
(***************************************************************************)
(* The two kinds whose documents refer to credentials.                     *)
(*                                                                         *)
(* User: the lockout rules of applies and the truth of their rows, for any *)
(* users, roles, documents and number of other administrators.  The        *)
(* argument: a plan is made from the account the snapshot has of a user,   *)
(* unless somebody else changed it; actions run in one order, grants       *)
(* before removals; so while a grant is due no role has been taken away,   *)
(* and once none is due the holders that the check counted on are there.   *)
(*                                                                         *)
(* SnmpConfig: what the one row of the two halves means and what becomes   *)
(* of the secrets, for any tiers, parameters and documents.  The argument: *)
(* a half is planned once and sent once, the agent's before the trap       *)
(* daemon's, and the server has what was sent unless somebody replaced it. *)
(***************************************************************************)
EXTENDS UserApply, SnmpConfigApply, TLAPS


AnyAccount == [roles : SUBSET Role, profile : {"old", "new"}]

Typed ==
    /\ TypeOK
    /\ users \in [User -> AnyAccount \cup {Absent}]
    /\ unplanned \subseteq Declared

\* A real apply that passed the checks.
Real == phase = "execute" \/ (phase = "done" /\ ~dryRun)

\* The caller has an account, so no plan creates it.
SelfIsThere == users[Self] # Absent /\ \A a \in plans[Self] : a.op # "create"

\* Plans are about their own user, and give and take what its document says.
PlansFit ==
    \A u \in User : \A a \in plans[u] :
        /\ a.user = u /\ u \in Declared
        /\ a.op = "add" => a.role \in docs[u].roles
        /\ a.op = "remove" => a.role \notin docs[u].roles

\* The plan of a user nobody else changed is the one for the account in the snapshot.
PlansFollow ==
    \A u \in User \ disturbed :
        plans[u] # {} \/ u \in Declared \ (unplanned \cup planFailed) =>
            plans[u] = PlanUser(u, docs[u], snapshot[u])

\* Phase by phase: nothing is planned before the snapshot, to do or failed before the
\* checks, and the plan is checked before it runs.
ByPhase ==
    /\ phase = "snapshot" =>
          /\ users \in [User -> Account \cup {Absent}] /\ snapshot = [u \in User |-> Absent]
          /\ unplanned = Declared /\ \A u \in User : plans[u] = {}
    /\ phase # "execute" => todo = {}
    /\ phase = "plan" \/ (phase = "done" /\ dryRun) =>
          failed = {} /\ \A u \in User \ disturbed : users[u] = snapshot[u]
    /\ phase = "snapshot" => failed = {} /\ disturbed = {}
    /\ Real =>
          /\ ~dryRun /\ unplanned = {} /\ todo \subseteq Planned
          /\ Self \notin Candidates
          /\ ~override => AdminLockout = {}

\* What has run comes before what is still to do.
InOrder == \A a \in Planned \ todo : \A b \in todo : NotAfter(a, b)

\* A holder in the snapshot holds the role until its removal runs.
Kept ==
    Real => \A u \in User \ disturbed : \A r \in Role :
        /\ u \in Holders(snapshot, r)
        /\ \A b \in plans[u] : b.op = "remove" /\ b.role = r => b \in todo
        => u \in Holders(users, r)

\* A grant that ran and did not fail has given its roles.
Granted ==
    Real => \A u \in User \ disturbed : \A a \in plans[u] \ (todo \cup failed) :
        /\ a.op = "add" => u \in Holders(users, a.role)
        /\ a.op = "create" => \A r \in docs[u].roles : u \in Holders(users, r)

\* The account of a user of whose actions none failed is what the actions that ran make
\* of the one in the snapshot.
AsPlanned ==
    Real => \A u \in Declared \ (disturbed \cup planFailed) :
        (\A a \in failed : a.user # u) =>
            /\ snapshot[u] = Absent /\ (\A a \in plans[u] : a \notin todo) =>
                  Matches(docs[u], users[u])
            /\ snapshot[u] # Absent =>
                  /\ users[u] # Absent
                  /\ \A r \in Role :
                        r \in users[u].roles <=>
                            \/ r \in snapshot[u].roles
                               /\ \A b \in plans[u] : b.op = "remove" /\ b.role = r => b \in todo
                            \/ \E b \in plans[u] \ todo : b.op = "add" /\ b.role = r
                  /\ users[u].profile = IF \E b \in plans[u] \ todo : b.op = "update"
                                        THEN "new" ELSE snapshot[u].profile

IInv ==
    /\ Typed /\ SelfIsThere
    /\ PlansFit /\ PlansFollow /\ ByPhase /\ InOrder
    /\ Kept /\ Granted /\ AsPlanned

-----------------------------------------------------------------------------
(* What accounts, documents and plans are.                                  *)

LEMMA AbsentIsNoAccount == Absent \notin AnyAccount /\ Account \subseteq AnyAccount
BY UserAssumption DEF UserAssumption, AnyAccount

LEMMA DocIsRecord ==
    ASSUME Typed, NEW u \in Declared
    PROVE  /\ u \in User /\ docs[u] \in Declarable
           /\ docs[u].roles \subseteq Role /\ docs[u].profile \in {"any", "new"}
<1>1. docs[u] \in Declarable
  BY DEF Typed, TypeOK, Declared
<1>2. docs[u] \in [roles : SUBSET Role, profile : {"any", "new"}, password : BOOLEAN]
  BY <1>1, UserAssumption DEF UserAssumption
<1> QED BY <1>1, <1>2 DEF Declared

\* A user's plan is made of actions of that user, that give what the document declares
\* and take what it does not; only an absent user's creates.
LEMMA PlanFits ==
    ASSUME Typed, NEW u \in Declared, NEW account \in AnyAccount \cup {Absent}
    PROVE  /\ PlanUser(u, docs[u], account) \subseteq Act
           /\ \A a \in PlanUser(u, docs[u], account) :
                 /\ a.user = u
                 /\ a.op = "add" => a.role \in docs[u].roles
                 /\ a.op = "remove" => a.role \notin docs[u].roles
                 /\ a.op = "create" => account = Absent
<1>1. u \in User /\ docs[u].roles \subseteq Role
  BY DocIsRecord
<1>2. CASE account = Absent
  BY <1>1, <1>2 DEF PlanUser, Act, Op
<1>3. CASE account # Absent
  <2>1. account.roles \subseteq Role
    BY <1>3 DEF AnyAccount
  <2> QED BY <1>1, <1>3, <2>1 DEF PlanUser, PlanExisting, Act, Op
<1> QED BY <1>2, <1>3

\* An action of the plan is in the plan of its user.
LEMMA OwnPlan ==
    ASSUME PlansFit, NEW a \in Planned
    PROVE  a \in plans[a.user] /\ a.user \in Declared
BY DEF PlansFit, Planned

\* What the checks read does not change once the plan is made.
LEMMA ChecksSame ==
    ASSUME UNCHANGED <<docs, snapshot, plans>>
    PROVE  /\ Planned' = Planned /\ Declared' = Declared
           /\ AdminLockout' = AdminLockout /\ Candidates' = Candidates
<1>1. Planned' = Planned /\ Declared' = Declared
  BY DEF Planned, Declared
<1>2. \A r : Removed(r)' = Removed(r) /\ Added(r)' = Added(r)
  BY <1>1 DEF Removed, Added
<1>3. \A r : Holders(snapshot, r)' = Holders(snapshot, r)
  BY DEF Holders
<1> QED BY <1>1, <1>2, <1>3 DEF AdminLockout, Candidates

LEMMA InitIInv == Init => IInv
<1> SUFFICES ASSUME Init PROVE IInv
  OBVIOUS
<1> USE DEF Init
<1>1. users \in [User -> AnyAccount \cup {Absent}]
  BY AbsentIsNoAccount
<1>2. Typed
  <2>1. \A u \in User : users[u] # Absent => users[u] \in AnyAccount
    BY <1>1
  <2>2. \A x \in AnyAccount : x.roles \subseteq Role /\ x.profile \in {"old", "new"}
    BY DEF AnyAccount
  <2>3. TypeOK
    BY <2>1, <2>2 DEF TypeOK, Declared
  <2> QED BY <1>1, <2>3 DEF Typed
<1>3. SelfIsThere /\ PlansFit /\ PlansFollow
  BY UserAssumption DEF UserAssumption, SelfIsThere, PlansFit, PlansFollow
<1>4. ByPhase /\ InOrder
  BY DEF ByPhase, Real, InOrder, Planned
<1>5. Kept /\ Granted /\ AsPlanned
  BY DEF Kept, Granted, AsPlanned, Real
<1> QED BY <1>2, <1>3, <1>4, <1>5 DEF IInv

-----------------------------------------------------------------------------
(* Planning and the checks.                                                 *)

LEMMA SnapshotIInv == ASSUME IInv, Snapshot PROVE IInv'
<1> USE DEF IInv, Snapshot, setup
<1>1. Typed'
  BY DEF Typed, TypeOK, ByPhase, Declared
<1>2. SelfIsThere' /\ PlansFit'
  BY DEF SelfIsThere, PlansFit, Declared
<1>3. PlansFollow'
  BY DEF PlansFollow, ByPhase, Declared
<1>4. ByPhase'
  BY DEF ByPhase, Real, Declared
<1>5. InOrder' /\ Kept' /\ Granted' /\ AsPlanned'
  BY DEF InOrder, ByPhase, Kept, Granted, AsPlanned, Real, Planned
<1> QED BY <1>1, <1>2, <1>3, <1>4, <1>5

LEMMA ReadUserIInv == ASSUME IInv, NEW u \in User, ReadUser(u) PROVE IInv'
<1> USE DEF IInv
<1>1. /\ phase = "plan" /\ u \in Declared /\ unplanned' = unplanned \ {u}
      /\ UNCHANGED <<docs, dryRun, override, users, snapshot, phase, todo, failed, disturbed>>
  BY DEF ReadUser, Typed, setup
<1>2. users[u] \in AnyAccount \cup {Absent} /\ Declared' = Declared
  BY <1>1 DEF Typed, Declared
<1>3. PICK new : /\ plans' = [plans EXCEPT ![u] = new]
                 /\ \/ new = PlanUser(u, docs[u], users[u]) /\ planFailed' = planFailed
                    \/ new = plans[u] /\ planFailed' = planFailed \cup {u}
  <2>1. CASE plans' = [plans EXCEPT ![u] = PlanUser(u, docs[u], users[u])] /\ planFailed' = planFailed
    BY <2>1
  <2>2. CASE planFailed' = planFailed \cup {u} /\ plans' = plans
    <3>1. plans' = [plans EXCEPT ![u] = plans[u]]
      BY <2>2 DEF Typed, TypeOK
    <3> QED BY <2>2, <3>1
  <2> QED BY <2>1, <2>2 DEF ReadUser
<1>4. /\ new \subseteq Act
      /\ \A a \in new :
            /\ a.user = u
            /\ a.op = "add" => a.role \in docs[u].roles
            /\ a.op = "remove" => a.role \notin docs[u].roles
            /\ u = Self => a.op # "create"
  <2>1. CASE new = PlanUser(u, docs[u], users[u])
    BY <1>1, <1>2, <2>1, PlanFits DEF SelfIsThere
  <2>2. CASE new = plans[u]
    BY <2>2 DEF Typed, TypeOK, PlansFit, SelfIsThere
  <2> QED BY <1>3, <2>1, <2>2
<1>5. plans' \in [User -> SUBSET Act] /\ plans'[u] = new /\ \A v \in User \ {u} : plans'[v] = plans[v]
  BY <1>3, <1>4 DEF Typed, TypeOK
<1>6. Typed'
  BY <1>1, <1>2, <1>3, <1>5 DEF Typed, TypeOK
<1>7. SelfIsThere'
  BY <1>1, <1>4, <1>5, UserAssumption DEF SelfIsThere, UserAssumption
<1>8. PlansFit'
  BY <1>1, <1>2, <1>4, <1>5 DEF PlansFit
<1>9. PlansFollow'
  <2>1. u \notin disturbed => users[u] = snapshot[u]
    BY <1>1 DEF ByPhase
  <2>2. ASSUME NEW v \in User \ disturbed,
               plans'[v] # {} \/ v \in Declared \ (unplanned' \cup planFailed')
        PROVE  plans'[v] = PlanUser(v, docs[v], snapshot[v])
    <3>1. CASE v = u
      BY <1>1, <1>3, <1>5, <2>1, <2>2, <3>1 DEF PlansFollow
    <3>2. CASE v # u
      BY <1>1, <1>3, <1>5, <2>2, <3>2 DEF PlansFollow
    <3> QED BY <3>1, <3>2
  <2>3. \A v : PlanUser(v, docs[v], snapshot[v])' = PlanUser(v, docs[v], snapshot[v])
    BY <1>1 DEF PlanUser, PlanExisting
  <2> QED BY <1>1, <1>2, <2>2, <2>3 DEF PlansFollow
<1>10. ByPhase' /\ InOrder'
  BY <1>1 DEF ByPhase, InOrder, Real
<1>11. Kept' /\ Granted' /\ AsPlanned'
  BY <1>1 DEF Kept, Granted, AsPlanned, Real
<1> QED BY <1>6, <1>7, <1>8, <1>9, <1>10, <1>11

LEMMA CheckLockoutIInv == ASSUME IInv, CheckLockout PROVE IInv'
<1> USE DEF IInv
<1>1. /\ phase = "plan" /\ unplanned = {} /\ todo = {} /\ failed = {}
      /\ UNCHANGED <<docs, dryRun, override, users, snapshot, plans, unplanned, planFailed,
                     failed, disturbed>>
  BY DEF CheckLockout, setup, ByPhase
<1>2. \/ phase' = "done" /\ dryRun
      \/ phase' = "refused"
      \/ /\ phase' = "execute" /\ ~dryRun
         /\ AdminLockout = {} \/ override
         /\ Self \notin Candidates
  BY DEF CheckLockout
<1>3. todo' = IF phase' = "execute" THEN Planned ELSE {}
  BY DEF CheckLockout
<1>4. /\ Planned' = Planned /\ Declared' = Declared
      /\ AdminLockout' = AdminLockout /\ Candidates' = Candidates
  BY <1>1, ChecksSame
<1>5. \A u \in User \ disturbed : users[u] = snapshot[u]
  BY <1>1 DEF ByPhase
<1>6. Typed'
  <2>1. Planned \subseteq Act
    BY DEF Typed, TypeOK, Planned
  <2> QED BY <1>1, <1>2, <1>3, <1>4, <2>1 DEF Typed, TypeOK
<1>7. SelfIsThere' /\ PlansFit'
  BY <1>1, <1>4 DEF SelfIsThere, PlansFit
<1>8. PlansFollow'
  <2>1. \A v : PlanUser(v, docs[v], snapshot[v])' = PlanUser(v, docs[v], snapshot[v])
    BY <1>1 DEF PlanUser, PlanExisting
  <2> QED BY <1>1, <1>4, <2>1 DEF PlansFollow
<1>9. ByPhase'
  BY <1>1, <1>2, <1>3, <1>4, <1>5 DEF ByPhase, Real
<1>10. Real' => todo' = Planned
  BY <1>1, <1>2, <1>3 DEF Real
<1>11. InOrder'
  BY <1>3, <1>4 DEF InOrder
<1>12. \A u \in User : \A a \in plans[u] : a \in Planned
  BY DEF Planned
<1>13. Kept' /\ Granted'
  BY <1>1, <1>5, <1>10, <1>12 DEF Kept, Granted, Holders
<1>14. AsPlanned'
  <2> SUFFICES ASSUME Real', NEW u \in Declared \ (disturbed \cup planFailed)
               PROVE  /\ snapshot[u] = Absent => plans[u] # {} /\ plans[u] \subseteq todo'
                      /\ snapshot[u] # Absent =>
                            users[u] = snapshot[u] /\ plans[u] \subseteq todo'
    BY <1>1, <1>4 DEF AsPlanned, Matches
  <2>1. plans[u] \subseteq todo' /\ u \in User /\ users[u] = snapshot[u]
    BY <1>5, <1>10, <1>12 DEF Declared
  <2>2. snapshot[u] = Absent => plans[u] # {}
    BY <1>1, <2>1 DEF PlansFollow, PlanUser
  <2> QED BY <2>1, <2>2
<1> QED BY <1>6, <1>7, <1>8, <1>9, <1>11, <1>13, <1>14

LEMMA FinishIInv == ASSUME IInv, Finish PROVE IInv'
<1> USE DEF IInv, Finish, setup
<1>1. Planned' = Planned /\ Declared' = Declared /\ AdminLockout' = AdminLockout
      /\ Candidates' = Candidates
  BY ChecksSame
<1>2. ~dryRun
  BY DEF ByPhase, Real
<1>3. Real /\ Real'
  BY <1>2 DEF Real
<1>4. Typed' /\ SelfIsThere' /\ PlansFit'
  BY <1>1 DEF Typed, TypeOK, SelfIsThere, PlansFit
<1>5. PlansFollow'
  BY <1>1 DEF PlansFollow, PlanUser, PlanExisting
<1>6. ByPhase' /\ InOrder'
  BY <1>1, <1>2, <1>3 DEF ByPhase, InOrder
<1>7. Kept' /\ Granted' /\ AsPlanned'
  BY <1>1, <1>3 DEF Kept, Granted, AsPlanned, Holders, Matches
<1> QED BY <1>4, <1>5, <1>6, <1>7

\* What others change is no longer the apply's concern, and is never the caller's account.
LEMMA OtherAdminIInv == ASSUME IInv, NEW u \in User, OtherAdmin(u) PROVE IInv'
<1> USE DEF IInv
<1>1. /\ phase \in {"plan", "execute"} /\ u # Self /\ disturbed' = disturbed \cup {u}
      /\ UNCHANGED <<docs, dryRun, override, snapshot, phase, plans, unplanned, planFailed,
                     todo, failed>>
  BY DEF OtherAdmin, setup
<1>2. PICK account \in Account \cup {Absent} : users' = [users EXCEPT ![u] = account]
  BY DEF OtherAdmin
<1>3. /\ users' \in [User -> AnyAccount \cup {Absent}]
      /\ \A v \in User \ {u} : users'[v] = users[v]
  BY <1>2, AbsentIsNoAccount DEF Typed
<1>4. /\ Planned' = Planned /\ Declared' = Declared
      /\ AdminLockout' = AdminLockout /\ Candidates' = Candidates
  BY <1>1, ChecksSame
<1>5. Typed'
  <2>1. \A v \in User : users'[v] # Absent => users'[v] \in AnyAccount
    BY <1>3
  <2>2. \A x \in AnyAccount : x.roles \subseteq Role /\ x.profile \in {"old", "new"}
    BY DEF AnyAccount
  <2>3. TypeOK'
    BY <1>1, <2>1, <2>2 DEF Typed, TypeOK
  <2> QED BY <1>1, <1>3, <1>4, <2>3 DEF Typed
<1>6. SelfIsThere' /\ PlansFit'
  BY <1>1, <1>3, <1>4, UserAssumption DEF SelfIsThere, PlansFit, UserAssumption
<1>7. PlansFollow'
  BY <1>1, <1>4 DEF PlansFollow, PlanUser, PlanExisting
<1>8. ByPhase' /\ InOrder'
  BY <1>1, <1>3, <1>4 DEF ByPhase, InOrder, Real
<1>9. Kept' /\ Granted'
  BY <1>1, <1>3 DEF Kept, Granted, Real, Holders
<1>10. AsPlanned'
  <2>1. \A v \in Declared : v \in User
    BY DEF Declared
  <2> QED BY <1>1, <1>3, <1>4, <2>1 DEF AsPlanned, Real, Matches
<1> QED BY <1>5, <1>6, <1>7, <1>8, <1>9, <1>10

-----------------------------------------------------------------------------
(* Execution.                                                               *)

\* The action that creates a user is the only one planned for that user.
LEMMA CreateAlone ==
    ASSUME PlansFit, PlansFollow, NEW u \in User \ disturbed,
           NEW a \in plans[u], a.op = "create"
    PROVE  snapshot[u] = Absent /\ plans[u] = {a}
<1>1. plans[u] = PlanUser(u, docs[u], snapshot[u])
  BY DEF PlansFollow
<1> QED BY <1>1 DEF PlanUser, PlanExisting

\* The server makes an account of an account.
LEMMA ServedAccount ==
    ASSUME Typed, NEW a \in Act, Servable(a), a.user \in Declared,
           a.op = "add" => a.role \in docs[a.user].roles
    PROVE  /\ Served(a) \in AnyAccount
           /\ a.op = "create" => /\ Served(a).roles = docs[a.user].roles
                                 /\ Matches(docs[a.user], Served(a))
           /\ a.op = "update" => /\ Served(a).roles = users[a.user].roles
                                 /\ Served(a).profile = "new"
           /\ a.op = "add" => /\ Served(a).roles = users[a.user].roles \cup {a.role}
                              /\ Served(a).profile = users[a.user].profile
           /\ a.op = "remove" => /\ Served(a).roles = users[a.user].roles \ {a.role}
                                 /\ Served(a).profile = users[a.user].profile
<1>1. a.user \in User /\ docs[a.user].roles \subseteq Role
      /\ docs[a.user].profile \in {"any", "new"}
  BY DocIsRecord
<1>2. CASE a.op = "create"
  <2>1. Served(a) = [roles |-> docs[a.user].roles,
                     profile |-> IF docs[a.user].profile = "any" THEN "old" ELSE "new"]
    BY <1>2 DEF Served
  <2>2. Served(a) \in AnyAccount
    BY <1>1, <2>1 DEF AnyAccount
  <2> QED BY <1>1, <1>2, <2>1, <2>2, AbsentIsNoAccount DEF Matches
<1>3. CASE a.op # "create"
  <2>1. users[a.user] \in AnyAccount
    BY <1>1, <1>3 DEF Typed, Servable
  <2>2. CASE a.op = "update"
    BY <2>1, <2>2 DEF Served, AnyAccount
  <2>3. CASE a.op = "add"
    <3>1. Served(a) = [users[a.user] EXCEPT !.roles = @ \cup {a.role}]
      BY <2>3 DEF Served
    <3>2. a.role \in Role
      BY <1>1, <2>3
    <3> QED BY <2>1, <2>3, <3>1, <3>2 DEF AnyAccount
  <2>4. CASE a.op = "remove"
    <3>1. Served(a) = [users[a.user] EXCEPT !.roles = @ \ {a.role}]
      BY <2>4 DEF Served
    <3> QED BY <2>1, <2>4, <3>1 DEF AnyAccount
  <2> QED BY <1>3, <2>2, <2>3, <2>4 DEF Act, Op
<1> QED BY <1>2, <1>3

\* One action: an answered one is served, and only the account of its user changes.
LEMMA ExecuteStep ==
    ASSUME IInv, NEW a \in todo, Execute(a)
    PROVE  /\ UNCHANGED <<docs, dryRun, override, snapshot, phase, plans, unplanned,
                          planFailed, disturbed>>
           /\ Real /\ Real' /\ a \in Act /\ a \in plans[a.user] /\ a.user \in Declared
           /\ todo' = todo \ {a} /\ failed \subseteq failed' /\ failed' \subseteq failed \cup {a}
           /\ users' \in [User -> AnyAccount \cup {Absent}]
           /\ \A u \in User \ {a.user} : users'[u] = users[u]
           /\ \/ users' = users /\ a \in failed'
              \/ users'[a.user] = Served(a) /\ Servable(a)
<1> USE DEF IInv
<1>1. UNCHANGED <<docs, dryRun, override, snapshot, phase, plans, unplanned, planFailed,
                  disturbed>>
  BY DEF Execute, setup
<1>2. Real /\ Real' /\ a \in Planned
  BY <1>1 DEF Execute, Real, ByPhase
<1>3. a \in Act /\ a \in plans[a.user] /\ a.user \in Declared /\ a.user \in User
  BY <1>2, OwnPlan DEF Typed, TypeOK, Declared
<1>4. a.op = "add" => a.role \in docs[a.user].roles
  BY <1>3 DEF PlansFit
<1>5. PICK served \in BOOLEAN, answered \in BOOLEAN :
        /\ served => Servable(a)
        /\ answered => served
        /\ users' = IF served THEN [users EXCEPT ![a.user] = Served(a)] ELSE users
        /\ failed' = IF answered THEN failed ELSE failed \cup {a}
  BY DEF Execute
<1>6. todo' = todo \ {a}
  BY DEF Execute
<1>7. failed \subseteq failed' /\ failed' \subseteq failed \cup {a}
  BY <1>5
<1>8. CASE served
  <2>1. Served(a) \in AnyAccount
    BY <1>3, <1>4, <1>5, <1>8, ServedAccount
  <2>2. users' = [users EXCEPT ![a.user] = Served(a)]
    BY <1>5, <1>8
  <2>3. /\ users' \in [User -> AnyAccount \cup {Absent}]
        /\ users'[a.user] = Served(a)
        /\ \A u \in User \ {a.user} : users'[u] = users[u]
    BY <1>3, <2>1, <2>2 DEF Typed
  <2> QED BY <1>1, <1>2, <1>3, <1>5, <1>6, <1>7, <1>8, <2>3
<1>9. CASE ~served
  <2>1. users' = users /\ a \in failed'
    BY <1>5, <1>9
  <2> QED BY <1>1, <1>2, <1>3, <1>6, <1>7, <2>1 DEF Typed
<1> QED BY <1>8, <1>9

\* The account of an undisturbed user after an action of that user that was served.
LEMMA ServedStep ==
    ASSUME IInv, NEW a \in todo, Execute(a), users'[a.user] = Served(a), Servable(a)
    PROVE  /\ users'[a.user] # Absent
           /\ a.op = "create" => /\ users'[a.user].roles = docs[a.user].roles
                                 /\ Matches(docs[a.user], users'[a.user])
           /\ a.op = "update" => /\ users'[a.user].roles = users[a.user].roles
                                 /\ users'[a.user].profile = "new"
           /\ a.op = "add" => /\ users'[a.user].roles = users[a.user].roles \cup {a.role}
                              /\ users'[a.user].profile = users[a.user].profile
           /\ a.op = "remove" => /\ users'[a.user].roles = users[a.user].roles \ {a.role}
                                 /\ users'[a.user].profile = users[a.user].profile
<1>1. a \in Act /\ a \in plans[a.user] /\ a.user \in Declared /\ a.user \in User
  BY ExecuteStep DEF Declared
<1>2. a.op = "add" => a.role \in docs[a.user].roles
  BY <1>1 DEF IInv, PlansFit
<1> QED BY <1>1, <1>2, ServedAccount, AbsentIsNoAccount DEF IInv

LEMMA ExecuteKept == ASSUME IInv, NEW a \in todo, Execute(a) PROVE Kept'
<1> USE DEF IInv
<1>1. /\ UNCHANGED <<snapshot, plans, disturbed>> /\ Real
      /\ todo' = todo \ {a} /\ a \in plans[a.user] /\ a \in Act
      /\ \A u \in User \ {a.user} : users'[u] = users[u]
      /\ \/ users' = users
         \/ users'[a.user] = Served(a) /\ Servable(a)
  BY ExecuteStep
<1> SUFFICES ASSUME NEW u \in User \ disturbed, NEW r \in Role,
                    u \in Holders(snapshot, r),
                    \A b \in plans[u] : b.op = "remove" /\ b.role = r => b \in todo'
             PROVE  users'[u] # Absent /\ r \in users'[u].roles
  BY <1>1 DEF Kept, Holders
<1>2. users[u] # Absent /\ r \in users[u].roles
  BY <1>1 DEF Kept, Holders
<1>3. CASE u # a.user \/ users' = users
  BY <1>1, <1>2, <1>3
<1>4. CASE u = a.user /\ users'[a.user] = Served(a) /\ Servable(a)
  <2>1. a.op # "create"
    BY <1>1, <1>4, CreateAlone DEF Holders
  <2>2. ~(a.op = "remove" /\ a.role = r)
    BY <1>1, <1>4
  <2>3. a.op \in {"update", "add", "remove"}
    BY <1>1, <2>1 DEF Act, Op
  <2> QED BY <1>2, <1>4, <2>2, <2>3, ServedStep
<1> QED BY <1>1, <1>3, <1>4

LEMMA ExecuteGranted == ASSUME IInv, NEW a \in todo, Execute(a) PROVE Granted'
<1> USE DEF IInv
<1>1. /\ UNCHANGED <<docs, snapshot, plans, disturbed>> /\ Real
      /\ todo' = todo \ {a} /\ a \in plans[a.user] /\ a \in Act /\ failed \subseteq failed'
      /\ \A u \in User \ {a.user} : users'[u] = users[u]
      /\ \/ users' = users /\ a \in failed'
         \/ users'[a.user] = Served(a) /\ Servable(a)
  BY ExecuteStep
<1> SUFFICES ASSUME NEW u \in User \ disturbed, NEW b \in plans[u] \ (todo' \cup failed')
             PROVE  /\ b.op = "add" => users'[u] # Absent /\ b.role \in users'[u].roles
                    /\ b.op = "create" => \A r \in docs[u].roles :
                                             users'[u] # Absent /\ r \in users'[u].roles
  <2>1. docs' = docs /\ plans' = plans /\ disturbed' = disturbed
    BY <1>1
  <2> QED BY <2>1 DEF Granted, Holders
<1>2. b.user = u /\ u \in Declared /\ docs[u].roles \subseteq Role
  BY DocIsRecord DEF PlansFit
<1>3. b # a => /\ b.op = "add" => users[u] # Absent /\ b.role \in users[u].roles
               /\ b.op = "create" => \A r \in docs[u].roles :
                                        users[u] # Absent /\ r \in users[u].roles
  <2>1. b # a => b \in plans[u] \ (todo \cup failed)
    BY <1>1
  <2> QED BY <1>1, <1>2, <2>1 DEF Granted, Holders
<1>4. CASE u # a.user
  BY <1>1, <1>2, <1>3, <1>4
<1>5. CASE u = a.user /\ users' = users /\ a \in failed'
  BY <1>3, <1>5
<1>6. CASE u = a.user /\ users'[a.user] = Served(a) /\ Servable(a)
  <2>1. CASE b = a
    BY <1>6, <2>1, ServedStep
  <2>2. CASE b # a
    <3>1. a.op # "create" /\ b.op # "create"
      BY <1>1, <1>6, <2>2, CreateAlone
    <3>2. b.op = "add" /\ a.op = "remove" => a.role # b.role
      BY <1>1, <1>6 DEF PlansFit
    <3>3. a.op \in {"update", "add", "remove"}
      BY <1>1, <3>1 DEF Act, Op
    <3> QED BY <1>3, <1>6, <2>2, <3>1, <3>2, <3>3, ServedStep
  <2> QED BY <2>1, <2>2
<1> QED BY <1>1, <1>4, <1>5, <1>6

\* What of the plan of user u has been done when the actions in "left" are still due.
RemovedBy(u, r, left) == \E b \in plans[u] \ left : b.op = "remove" /\ b.role = r
GivenBy(u, r, left) == \E b \in plans[u] \ left : b.op = "add" /\ b.role = r
SetBy(u, left) == \E b \in plans[u] \ left : b.op = "update"

LEMMA ExecuteAsPlanned == ASSUME IInv, NEW a \in todo, Execute(a) PROVE AsPlanned'
<1> USE DEF IInv
<1>1. /\ UNCHANGED <<docs, snapshot, plans, planFailed, disturbed>> /\ Real
      /\ todo' = todo \ {a} /\ a \in plans[a.user] /\ a \in Act
      /\ failed \subseteq failed' /\ failed' \subseteq failed \cup {a}
      /\ \A u \in User \ {a.user} : users'[u] = users[u]
      /\ \/ users' = users /\ a \in failed'
         \/ users'[a.user] = Served(a) /\ Servable(a)
  BY ExecuteStep
<1> SUFFICES ASSUME NEW u \in Declared \ (disturbed \cup planFailed),
                    \A b \in failed' : b.user # u
             PROVE  /\ snapshot[u] = Absent /\ (\A b \in plans[u] : b \notin todo') =>
                          Matches(docs[u], users'[u])
                    /\ snapshot[u] # Absent =>
                          /\ users'[u] # Absent
                          /\ \A r \in Role :
                                r \in users'[u].roles <=>
                                    \/ r \in snapshot[u].roles /\ ~RemovedBy(u, r, todo')
                                    \/ GivenBy(u, r, todo')
                          /\ users'[u].profile =
                                IF SetBy(u, todo') THEN "new" ELSE snapshot[u].profile
  <2>1. /\ docs' = docs /\ snapshot' = snapshot /\ plans' = plans
        /\ planFailed' = planFailed /\ disturbed' = disturbed /\ Declared' = Declared
    BY <1>1 DEF Declared
  <2> QED BY <2>1 DEF AsPlanned, Matches, RemovedBy, GivenBy, SetBy
<1>2. /\ u \in User \ disturbed
      /\ plans[u] = PlanUser(u, docs[u], snapshot[u])
      /\ \A b \in plans[u] : b.user = u
  BY <1>1 DEF Declared, ByPhase, PlansFollow, PlansFit
<1>3. /\ snapshot[u] = Absent /\ (\A b \in plans[u] : b \notin todo) => Matches(docs[u], users[u])
      /\ snapshot[u] # Absent =>
            /\ users[u] # Absent
            /\ \A r \in Role :
                  r \in users[u].roles <=>
                      \/ r \in snapshot[u].roles /\ ~RemovedBy(u, r, todo)
                      \/ GivenBy(u, r, todo)
            /\ users[u].profile = IF SetBy(u, todo) THEN "new" ELSE snapshot[u].profile
  BY <1>1 DEF AsPlanned, RemovedBy, GivenBy, SetBy
<1>4. CASE u # a.user
  <2>1. plans[u] \ todo' = plans[u] \ todo
    BY <1>1, <1>2, <1>4
  <2>2. users'[u] = users[u]
    BY <1>1, <1>2, <1>4
  <2> QED BY <1>3, <2>1, <2>2 DEF RemovedBy, GivenBy, SetBy
<1>5. CASE u = a.user
  <2>1. users'[u] = Served(a) /\ Servable(a)
    BY <1>1, <1>5
  <2>2. plans[u] \ todo' = (plans[u] \ todo) \cup {a}
    BY <1>1, <1>5
  <2>3. CASE snapshot[u] = Absent
    <3>1. a.op = "create"
      BY <1>1, <1>2, <1>5, <2>3 DEF PlanUser
    <3> QED BY <1>5, <2>1, <2>3, <3>1, ServedStep
  <2>4. CASE snapshot[u] # Absent
    <3>1. a.op # "create"
      BY <1>1, <1>2, <1>5, <2>4, CreateAlone
    <3>2. /\ \A r : RemovedBy(u, r, todo') <=>
                       RemovedBy(u, r, todo) \/ (a.op = "remove" /\ a.role = r)
          /\ \A r : GivenBy(u, r, todo') <=>
                       GivenBy(u, r, todo) \/ (a.op = "add" /\ a.role = r)
          /\ SetBy(u, todo') <=> SetBy(u, todo) \/ a.op = "update"
      BY <2>2 DEF RemovedBy, GivenBy, SetBy
    <3>3. \A r : a.op = "remove" /\ a.role = r => ~GivenBy(u, r, todo)
      BY <1>1, <1>2, <1>5 DEF GivenBy, PlansFit
    <3>4. CASE a.op = "update"
      BY <1>3, <1>5, <2>1, <2>4, <3>2, <3>4, ServedStep
    <3>5. CASE a.op = "add"
      BY <1>3, <1>5, <2>1, <2>4, <3>2, <3>5, ServedStep
    <3>6. CASE a.op = "remove"
      BY <1>3, <1>5, <2>1, <2>4, <3>2, <3>3, <3>6, ServedStep
    <3> QED BY <1>1, <3>1, <3>4, <3>5, <3>6 DEF Act, Op
  <2> QED BY <2>3, <2>4
<1> QED BY <1>4, <1>5

LEMMA ExecuteIInv == ASSUME IInv, NEW a \in todo, Execute(a) PROVE IInv'
<1> USE DEF IInv
<1>1. /\ UNCHANGED <<docs, dryRun, override, snapshot, phase, plans, unplanned,
                     planFailed, disturbed>>
      /\ Real /\ Real' /\ a \in Act /\ a \in plans[a.user] /\ a.user \in Declared
      /\ todo' = todo \ {a} /\ failed \subseteq failed' /\ failed' \subseteq failed \cup {a}
      /\ users' \in [User -> AnyAccount \cup {Absent}]
      /\ \A u \in User \ {a.user} : users'[u] = users[u]
      /\ \/ users' = users
         \/ users'[a.user] = Served(a) /\ Servable(a)
  BY ExecuteStep
<1>2. /\ Planned' = Planned /\ Declared' = Declared
      /\ AdminLockout' = AdminLockout /\ Candidates' = Candidates
  BY <1>1, ChecksSame
<1>3. Typed'
  <2>1. \A u \in User : users'[u] # Absent => users'[u] \in AnyAccount
    BY <1>1
  <2>2. \A x \in AnyAccount : x.roles \subseteq Role /\ x.profile \in {"old", "new"}
    BY DEF AnyAccount
  <2>3. TypeOK'
    BY <1>1, <2>1, <2>2 DEF Typed, TypeOK
  <2> QED BY <1>1, <1>2, <2>3 DEF Typed
<1>4. SelfIsThere' /\ PlansFit'
  <2>1. users'[Self] # Absent
    <3>1. CASE a.user = Self
      BY <1>1, <3>1, ServedStep DEF SelfIsThere
    <3>2. CASE a.user # Self
      BY <1>1, <3>2, UserAssumption DEF SelfIsThere, UserAssumption
    <3> QED BY <3>1, <3>2
  <2> QED BY <1>1, <1>2, <2>1 DEF SelfIsThere, PlansFit
<1>5. PlansFollow'
  BY <1>1, <1>2 DEF PlansFollow, PlanUser, PlanExisting
<1>6. ByPhase'
  BY <1>1, <1>2 DEF ByPhase, Execute, Real
<1>7. InOrder'
  BY <1>1, <1>2 DEF InOrder, Execute, NotAfter
<1>8. Kept' /\ Granted' /\ AsPlanned'
  BY ExecuteKept, ExecuteGranted, ExecuteAsPlanned
<1> QED BY <1>3, <1>4, <1>5, <1>6, <1>7, <1>8

-----------------------------------------------------------------------------
(* The theorems.                                                            *)

\* Every step of the apply and of the other administrators keeps the invariant.
THEOREM Strengthened == Spec => []IInv
<1>1. IInv /\ [Next]_vars => IInv'
  <2> SUFFICES ASSUME IInv, [Next]_vars PROVE IInv'
    OBVIOUS
  <2>1. CASE Snapshot
    BY <2>1, SnapshotIInv
  <2>2. CASE CheckLockout
    BY <2>2, CheckLockoutIInv
  <2>3. CASE Finish
    BY <2>3, FinishIInv
  <2>4. CASE \E u \in User : ReadUser(u) \/ OtherAdmin(u)
    BY <2>4, ReadUserIInv, OtherAdminIInv
  <2>5. CASE \E a \in todo : Execute(a)
    BY <2>5, ExecuteIInv
  <2>6. CASE UNCHANGED vars
    <3>1. Planned' = Planned /\ Declared' = Declared /\ AdminLockout' = AdminLockout
          /\ Candidates' = Candidates
      BY <2>6, ChecksSame DEF vars, setup
    <3>2. Typed' /\ SelfIsThere' /\ PlansFit' /\ PlansFollow' /\ ByPhase' /\ InOrder'
      BY <2>6, <3>1 DEF vars, setup, IInv, Typed, TypeOK, SelfIsThere, PlansFit, PlansFollow,
         ByPhase, InOrder, Real, PlanUser, PlanExisting
    <3>3. Kept' /\ Granted' /\ AsPlanned'
      BY <2>6, <3>1 DEF vars, setup, IInv, Kept, Granted, AsPlanned, Real, Holders, Matches
    <3> QED BY <3>2, <3>3 DEF IInv
  <2> QED BY <2>1, <2>2, <2>3, <2>4, <2>5, <2>6 DEF Next
<1> QED BY InitIInv, <1>1, PTL DEF Spec

\* A row other than Failed is true of the account.
LEMMA RowsFollow == IInv => RowsAreTrue
<1> SUFFICES ASSUME IInv, phase = "done", ~dryRun,
                    NEW u \in Declared \ disturbed, Row(u) # "Failed"
             PROVE  Matches(docs[u], users[u])
  BY DEF RowsAreTrue
<1> USE DEF IInv
<1>1. Real /\ todo = {} /\ u \notin planFailed /\ \A a \in failed : a.user # u
  <2>1. Real /\ todo = {}
    BY DEF Real, ByPhase
  <2>2. u \in planFailed \/ (\E a \in failed : a.user = u) => Row(u) = "Failed"
    BY DEF Row
  <2> QED BY <2>1, <2>2
<1>2. plans[u] = PlanUser(u, docs[u], snapshot[u])
  BY <1>1 DEF ByPhase, PlansFollow, Declared
<1>3. docs[u].roles \subseteq Role /\ docs[u].profile \in {"any", "new"} /\ u \in User
  BY DocIsRecord
<1>4. CASE snapshot[u] = Absent
  BY <1>1, <1>4 DEF AsPlanned
<1>5. CASE snapshot[u] # Absent
  <2>1. plans[u] = PlanExisting(u, docs[u], snapshot[u])
    BY <1>2, <1>5 DEF PlanUser
  <2>2. /\ \A r \in Role : RemovedBy(u, r, todo) <=> r \in snapshot[u].roles \ docs[u].roles
        /\ \A r \in Role : GivenBy(u, r, todo) <=> r \in docs[u].roles \ snapshot[u].roles
        /\ SetBy(u, todo) <=> docs[u].profile \notin {"any", snapshot[u].profile}
    <3>1. \A b \in plans[u] :
             /\ b.op = "update" => docs[u].profile \notin {"any", snapshot[u].profile}
             /\ b.op = "add" => b.role \in docs[u].roles \ snapshot[u].roles
             /\ b.op = "remove" => b.role \in snapshot[u].roles \ docs[u].roles
      BY <2>1 DEF PlanExisting
    <3>2. /\ docs[u].profile \notin {"any", snapshot[u].profile} =>
                [user |-> u, op |-> "update", role |-> NoRole] \in plans[u]
          /\ \A r \in docs[u].roles \ snapshot[u].roles :
                [user |-> u, op |-> "add", role |-> r] \in plans[u]
          /\ \A r \in snapshot[u].roles \ docs[u].roles :
                [user |-> u, op |-> "remove", role |-> r] \in plans[u]
      BY <2>1 DEF PlanExisting
    <3>3. plans[u] \ todo = plans[u]
      BY <1>1
    <3>4. ASSUME NEW r \in Role
          PROVE  /\ RemovedBy(u, r, todo) <=> r \in snapshot[u].roles \ docs[u].roles
                 /\ GivenBy(u, r, todo) <=> r \in docs[u].roles \ snapshot[u].roles
      <4> DEFINE add == [user |-> u, op |-> "add", role |-> r]
                 rem == [user |-> u, op |-> "remove", role |-> r]
      <4>1. add.op = "add" /\ add.role = r /\ rem.op = "remove" /\ rem.role = r
        OBVIOUS
      <4>2. r \in snapshot[u].roles \ docs[u].roles => rem \in plans[u]
        BY <3>2
      <4>3. r \in docs[u].roles \ snapshot[u].roles => add \in plans[u]
        BY <3>2
      <4> HIDE DEF add, rem
      <4> QED BY <3>1, <3>3, <4>1, <4>2, <4>3 DEF RemovedBy, GivenBy
    <3>5. SetBy(u, todo) <=> docs[u].profile \notin {"any", snapshot[u].profile}
      <4> DEFINE set == [user |-> u, op |-> "update", role |-> NoRole]
      <4>1. set.op = "update"
        OBVIOUS
      <4>2. docs[u].profile \notin {"any", snapshot[u].profile} => set \in plans[u]
        BY <3>2
      <4> HIDE DEF set
      <4> QED BY <3>1, <3>3, <4>1, <4>2 DEF SetBy
    <3> QED BY <3>4, <3>5
  <2>3. /\ users[u] # Absent
        /\ \A r \in Role :
              r \in users[u].roles <=>
                  \/ r \in snapshot[u].roles /\ ~RemovedBy(u, r, todo)
                  \/ GivenBy(u, r, todo)
        /\ users[u].profile = IF SetBy(u, todo) THEN "new" ELSE snapshot[u].profile
    BY <1>1, <1>5 DEF AsPlanned, RemovedBy, GivenBy, SetBy
  <2>4. users[u].roles \subseteq Role
    BY <1>3, <2>3 DEF Typed, AnyAccount
  <2>5. users[u].roles = docs[u].roles
    BY <1>3, <2>2, <2>3, <2>4
  <2>6. docs[u].profile \in {"any", users[u].profile}
    BY <1>3, <2>2, <2>3
  <2> QED BY <2>3, <2>5, <2>6 DEF Matches
<1> QED BY <1>4, <1>5

\* The accounts are well typed at every moment, and the rows of a real apply true of them.
THEOREM RowsHold == Spec => []UserInv
<1>1. IInv => UserInv
  BY RowsFollow DEF UserInv, IInv, Typed
<1> QED BY <1>1, Strengthened, PTL

\* IAM-001: grants run before removals, so a protected role is never without a holder.
THEOREM RoleIsKept == Spec => []ProtectedRoleKept
<1>1. IInv => ProtectedRoleKept
  <2> SUFFICES ASSUME IInv, phase \in {"execute", "done"}, ~override, disturbed = {},
                      NEW r \in Protected, Holders(snapshot, r) # {}, GrantsHold(r)
               PROVE  Holders(users, r) # {}
    BY DEF ProtectedRoleKept
  <2> USE DEF IInv
  <2>1. r \in Role
    BY UserAssumption DEF UserAssumption
  <2>2. PICK h \in User : h \in Holders(snapshot, r)
    BY DEF Holders
  <2>3. CASE ~Real
    <3>1. users[h] = snapshot[h]
      BY <2>3 DEF Real, ByPhase
    <3> QED BY <2>2, <3>1 DEF Holders
  <2>4. CASE Real
    <3>1. PICK w : w \in (Holders(snapshot, r) \ Removed(r)) \cup Added(r)
      BY <2>2, <2>4 DEF ByPhase, AdminLockout
    <3>2. CASE w \in Holders(snapshot, r) \ Removed(r)
      <4>1. w \in User
        BY <3>2 DEF Holders
      <4>2. \A b \in plans[w] : ~(b.op = "remove" /\ b.role = r)
        BY <3>2, <4>1 DEF Removed, Planned, PlansFit
      <4> QED BY <2>1, <2>4, <3>2, <4>1, <4>2 DEF Kept
    <3>3. CASE w \in Added(r)
      <4>1. PICK b \in Planned : \/ b.op = "add" /\ b.role = r
                                 \/ b.op = "create" /\ r \in docs[b.user].roles
        BY <3>3 DEF Added
      <4>2. b \in plans[b.user] /\ b.user \in User /\ b \notin failed
        BY <4>1, OwnPlan DEF Declared, GrantsHold
      <4>3. CASE b \notin todo
        BY <2>4, <4>1, <4>2, <4>3 DEF Granted
      <4>4. CASE b \in todo
        <5>1. \A c \in plans[h] : c.op = "remove" => c \in Planned
          BY DEF Planned
        <5>2. \A c \in Planned \ todo : c.op # "remove"
          <6>1. \A c \in Planned \ todo : NotAfter(c, b)
            BY <4>4 DEF InOrder
          <6> QED BY <4>1, <6>1 DEF NotAfter, ExecuteRank
        <5> QED BY <2>1, <2>2, <2>4, <5>1, <5>2 DEF Kept
      <4> QED BY <4>3, <4>4
    <3> QED BY <3>1, <3>2, <3>3
  <2> QED BY <2>3, <2>4
<1> QED BY <1>1, Strengthened, PTL

\* IAM-002: no step of the apply takes a protected role from the caller.
THEOREM SelfIsSpared == Spec => SelfKeepsProtected
<1> DEFINE Spares == disturbed' = disturbed =>
                        \A r \in Protected : Self \in Holders(users, r) => Self \in Holders(users', r)
<1>1. IInv /\ [Next]_vars => [Spares]_vars
  <2> SUFFICES ASSUME IInv, Next, disturbed' = disturbed,
                      NEW r \in Protected, Self \in Holders(users, r)
               PROVE  Self \in Holders(users', r)
    OBVIOUS
  <2>1. CASE users' = users
    BY <2>1
  <2>2. CASE \E u \in User : OtherAdmin(u)
    BY <2>2 DEF OtherAdmin
  <2>3. CASE \E a \in todo : Execute(a)
    <3>1. PICK a \in todo : Execute(a)
      BY <2>3
    <3>2. /\ Real /\ a \in Act /\ a \in plans[a.user]
          /\ \A u \in User \ {a.user} : users'[u] = users[u]
          /\ users' = users \/ (users'[a.user] = Served(a) /\ Servable(a))
      BY <3>1, ExecuteStep
    <3>3. Self \in User /\ users[Self] # Absent /\ r \in users[Self].roles
      BY DEF Holders
    <3>4. CASE a.user # Self
      BY <3>2, <3>3, <3>4 DEF Holders
    <3>5. CASE a.user = Self /\ users'[a.user] = Served(a) /\ Servable(a)
      <4>1. a.op # "create"
        BY <3>2, <3>5 DEF IInv, SelfIsThere
      <4>2. ~(a.op = "remove" /\ a.role = r)
        <5>1. a \in Planned
          BY <3>2, <3>3, <3>5 DEF Planned
        <5>2. Self \notin Candidates
          BY <3>2 DEF IInv, ByPhase
        <5> QED BY <3>5, <5>1, <5>2 DEF Candidates, Removed
      <4>3. a.op \in {"update", "add", "remove"}
        BY <3>2, <4>1 DEF Act, Op
      <4>4. users'[Self] # Absent /\ r \in users'[Self].roles
        BY <3>1, <3>3, <3>5, <4>2, <4>3, ServedStep
      <4> QED BY <3>3, <4>4 DEF Holders
    <3> QED BY <2>1, <3>2, <3>4, <3>5
  <2> QED BY <2>1, <2>2, <2>3 DEF Next, Snapshot, CheckLockout, Finish, ReadUser
<1>2. Spec => [][Spares]_vars
  BY <1>1, Strengthened, PTL DEF Spec
<1> QED BY <1>2 DEF SelfKeepsProtected

-----------------------------------------------------------------------------
\* SnmpConfig.

\* Where the document comes from: an export has the tiers and parameters of its origin, and
\* each of its placeholders was set to a secret that it stands for.
Provenance ==
    origin # Nothing => \A h \in Halves :
        /\ origin[h] \in Config(h) /\ doc[h] = Exported(h, origin[h])
        /\ \A t \in DOMAIN origin[h] :
              origin[h][t].secret # Nothing => env[Placeholder(h, t)] \in Returns(h, t)

Sent == stage \in {"trapd", "report"} \/ (stage = "done" /\ row # "failed")
BothSent == stage = "report" \/ (stage = "done" /\ row # "failed")

\* How far the apply is: nothing is planned before the plan, sent before it is planned or
\* reported before it is sent; what was to be written was sent, and the agent's half only
\* with all its secrets.
ByStage ==
    /\ stage \in {"plan", "refused"} => \A h \in Half : sync[h] = "no block"
    /\ stage \notin {"plan", "refused"} => \A h \in Half :
          /\ sync[h] = "no block" <=> h \notin Halves
          /\ force /\ h \in Halves => sync[h] = "write"
    /\ stage \in {"plan", "refused", "agent"} => result["agent"] = "none"
    /\ stage \in {"plan", "refused", "agent", "trapd"} => result["trapd"] = "none"
    /\ \A h \in Half : sync[h] # "write" => result[h] = "none"
    /\ stage # "done" => row = NotYet
    /\ Sent /\ sync["agent"] = "write" => result["agent"] # "none" /\ Resolves("agent")
    /\ BothSent /\ sync["trapd"] = "write" => result["trapd"] # "none"
    /\ stage = "done" /\ row # "failed" => \A h \in Half : result[h] # "failed"

\* What the server has while nobody else replaced it: a half that no request was sent for is
\* as it was found, one in sync is as it was planned, and one that was written is the
\* document's.  What was found decides which is which.
AsSent ==
    ~replaced =>
        /\ \A h \in Half : result[h] = "none" => config[h] = found[h]
        /\ \A h \in Halves :
              /\ stage \notin {"plan", "refused"} =>
                    (sync[h] = "write" <=> force \/ ~Agrees(doc[h], found[h]))
              /\ stage \notin {"plan", "refused"} /\ sync[h] = "in sync" => InSync(h)
              /\ stage = "agent" /\ sync[h] = "write" => Writes(h)
              /\ result[h] = "ok" => config[h] = Stored(h)

AnyHalf == UNION {Config(h) : h \in Half}
AnyConfig == AnyHalf \cup {Nothing}
SnmpIInv ==
    /\ SnmpTypeOK
    /\ config \in [Half -> AnyConfig]
    /\ Provenance /\ ByStage /\ AsSent

-----------------------------------------------------------------------------
LEMMA NothingIsApart == \A h \in Half : Nothing \notin Config(h) /\ Nothing \notin Local(h)
  <1>1. \A h \in Half : Nothing \notin Config(h) \cup Local(h)
    BY SnmpAssumption
  <1> QED
    BY <1>1

LEMMA ConfigIsAny == Nothing \in AnyConfig /\ \A h \in Half : Config(h) \subseteq AnyConfig
  <1>1. ASSUME NEW h \in Half, NEW c \in Config(h) PROVE c \in AnyHalf
    <2>1. Config(h) \in {Config(g) : g \in Half}
      OBVIOUS
    <2> QED
      BY <2>1 DEF AnyHalf
  <1> QED
    BY <1>1 DEF AnyConfig

LEMMA ServerShape ==
    ASSUME NEW c \in Servers
    PROVE  /\ c \in [Half -> AnyConfig]
           /\ c["agent"] \in Config("agent") /\ c["trapd"] \in Config("trapd") \cup {Nothing}
           /\ \A h \in Half : c[h] \in Config(h) \cup {Nothing}
  <1>1. PICK a \in Config("agent"), t \in {Nothing} \cup Config("trapd") :
           c = [h \in Half |-> IF h = "agent" THEN a ELSE t]
    BY DEF Servers
  <1>2. c["agent"] = a /\ c["trapd"] = t
    BY <1>1 DEF Half
  <1>3. \A h \in Half : c[h] \in AnyConfig /\ c[h] \in Config(h) \cup {Nothing}
    BY <1>2, ConfigIsAny DEF Half
  <1> QED
    BY <1>1, <1>2, <1>3

LEMMA HalfHasScalars == \A h \in Half : \A ts \in Tiers(h) : Scalars \in ts /\ ts \subseteq Tier(h)
  BY DEF Tiers, Tier

\* A configuration is a function from one of the sets of tiers.
LEMMA ConfigShape ==
    ASSUME NEW h \in Half, NEW c
    PROVE  c \in Config(h) <=>
             /\ \E ts \in Tiers(h) : c \in [ts -> Params]
             /\ h = "trapd" => c[Scalars].secret = Nothing
  BY DEF Config

\* An exported configuration is a document of its half.
LEMMA ExportedFits ==
    ASSUME NEW h \in Half, NEW c \in Config(h)
    PROVE  /\ Exported(h, c) \in Local(h) /\ DOMAIN Exported(h, c) = DOMAIN c
           /\ DOMAIN c \in Tiers(h)
           /\ \A t \in DOMAIN c : c[t] \in Params /\ Exported(h, c)[t] \in LocalParams
                                    /\ Exported(h, c)[t].plain = c[t].plain /\ c[t].plain # Nothing
  <1>1. PICK ts \in Tiers(h) : c \in [ts -> Params]
    BY ConfigShape
  <1>2. DOMAIN c = ts /\ ts \subseteq Tier(h) /\ Scalars \in ts
    BY <1>1, HalfHasScalars
  <1>3. \A t \in ts : c[t] \in Params /\ c[t].plain \in Value /\ c[t].plain # Nothing
    BY <1>1, SnmpAssumption DEF Params
  <1>4. \A t \in ts : Placeholder(h, t) \in EnvName
    BY <1>2 DEF Placeholder, EnvName
  <1>5. \A t \in ts : [plain |-> c[t].plain,
                       secret |-> IF c[t].secret = Nothing THEN Nothing ELSE Placeholder(h, t)] \in LocalParams
    BY <1>3, <1>4 DEF LocalParams
  <1>6. Exported(h, c) \in [ts -> LocalParams]
    BY <1>2, <1>5 DEF Exported
  <1>7. \A t \in ts : Exported(h, c)[t].plain = c[t].plain
    BY <1>2 DEF Exported
  <1>8. h = "trapd" => Exported(h, c)[Scalars].secret = Nothing
    BY <1>2, ConfigShape DEF Exported
  <1>9. Exported(h, c) \in Local(h)
    BY <1>6, <1>8, <1>1 DEF Local
  <1> QED
    BY <1>1, <1>2, <1>3, <1>5, <1>6, <1>7, <1>9

\* What is uploaded of a half is a configuration of it, and is in sync with the document.
LEMMA StoredFits ==
    ASSUME SnmpTypeOK, NEW h \in Halves
    PROVE  /\ Stored(h) \in Config(h) /\ Stored(h) # Nothing /\ DOMAIN Stored(h) = DOMAIN doc[h]
           /\ \A t \in DOMAIN doc[h] :
                 /\ SameTier(doc[h][t], Stored(h)[t])
                 /\ Stored(h)[t].secret = Resolved(doc[h][t].secret)
  <1> DEFINE ts == DOMAIN doc[h]
  <1>1. h \in Half /\ ts \in Tiers(h) /\ \A t \in ts : doc[h][t] \in LocalParams
    BY DEF SnmpTypeOK, Halves
  <1>2. \A t \in ts : doc[h][t].plain \in {Nothing} \cup Value /\ doc[h][t].secret \in {Nothing} \cup EnvName
    BY <1>1 DEF LocalParams
  <1>3. \A t \in ts : Resolved(doc[h][t].secret) \in {Nothing} \cup Secret
    BY <1>2 DEF Resolved, SnmpTypeOK
  <1>4. ASSUME NEW t \in ts
        PROVE  /\ Stored(h)[t].plain = IF doc[h][t].plain = Nothing THEN Default ELSE doc[h][t].plain
               /\ Stored(h)[t].secret = Resolved(doc[h][t].secret)
               /\ Stored(h)[t] = [plain |-> Stored(h)[t].plain, secret |-> Stored(h)[t].secret]
    BY DEF Stored
  <1>5. \A t \in ts : (IF doc[h][t].plain = Nothing THEN Default ELSE doc[h][t].plain) \in Value
    <2>1. Default \in Value
      BY SnmpAssumption
    <2> QED
      BY <1>2, <2>1
  <1>6. Stored(h) \in [ts -> Params]
    BY <1>3, <1>5 DEF Stored, Params
  <1>7. Scalars \in ts
    BY <1>1, HalfHasScalars
  <1>8. h = "trapd" => Stored(h)[Scalars].secret = Nothing
    <2>1. h = "trapd" => doc[h][Scalars].secret = Nothing
      BY DEF SnmpTypeOK
    <2> QED
      BY <2>1, <1>7, <1>4 DEF Resolved
  <1>9. Stored(h) \in Config(h)
    BY <1>1, <1>6, <1>8, ConfigShape
  <1>10. Stored(h) # Nothing
    BY <1>9, <1>1, NothingIsApart
  <1>11. ASSUME NEW t \in ts
         PROVE  SameTier(doc[h][t], Stored(h)[t]) /\ Stored(h)[t].secret = Resolved(doc[h][t].secret)
    BY <1>4 DEF SameTier
  <1> QED
    BY <1>9, <1>10, <1>11, <1>6

LEMMA StoredInSync ==
    ASSUME SnmpTypeOK, NEW h \in Halves, config[h] = Stored(h)
    PROVE  InSync(h) /\ \A t \in DOMAIN doc[h] : Resolved(doc[h][t].secret) = config[h][t].secret
  <1>1. /\ config[h] # Nothing /\ DOMAIN config[h] = DOMAIN doc[h]
        /\ \A t \in DOMAIN doc[h] : /\ SameTier(doc[h][t], config[h][t])
                                    /\ config[h][t].secret = Resolved(doc[h][t].secret)
    BY StoredFits
  <1> QED
    BY <1>1 DEF InSync, Agrees

\* A document agrees with what its origin agrees with.
LEMMA ExportAgrees ==
    ASSUME Provenance, origin # Nothing, NEW h \in Halves, NEW c
    PROVE  Agrees(doc[h], c) <=> Agrees(origin[h], c)
  <1>1. origin[h] \in Config(h) /\ doc[h] = Exported(h, origin[h]) /\ h \in Half
    BY DEF Provenance, Halves
  <1>2. /\ DOMAIN doc[h] = DOMAIN origin[h]
        /\ \A t \in DOMAIN doc[h] : doc[h][t].plain = origin[h][t].plain
    BY <1>1, ExportedFits
  <1> QED
    BY <1>2 DEF Agrees, SameTier

\* A document is in sync with what it was exported from.
LEMMA ExportInSync ==
    ASSUME Provenance, origin # Nothing, config = origin, NEW h \in Halves
    PROVE  InSync(h)
  <1>1. origin[h] \in Config(h) /\ h \in Half
    BY DEF Provenance, Halves
  <1>2. origin[h] # Nothing
    BY <1>1, NothingIsApart
  <1>3. Agrees(origin[h], origin[h])
    BY <1>2 DEF Agrees, SameTier
  <1> QED
    BY <1>3, ExportAgrees DEF InSync
-----------------------------------------------------------------------------
LEMMA BlankFits ==
    /\ Blank \in [Half -> AnyConfig]
    /\ Blank["agent"] \in Config("agent") /\ Blank["trapd"] = Nothing
  <1>1. {Scalars} \in Tiers("agent")
    <2>1. {Scalars} = {Scalars} \cup {} /\ {} \in SUBSET Member["agent"]
      OBVIOUS
    <2> QED
      BY <2>1 DEF Tiers
  <1>2. [plain |-> Default, secret |-> Nothing] \in Params
    BY SnmpAssumption DEF Params
  <1>3. Blank["agent"] \in [{Scalars} -> Params] /\ Blank["trapd"] = Nothing
    BY <1>2 DEF Blank, Half
  <1>4. Blank["agent"] \in Config("agent")
    BY <1>1, <1>3, ConfigShape DEF Half
  <1>5. \A h \in Half : Blank[h] \in AnyConfig
    BY <1>3, <1>4, ConfigIsAny DEF Half
  <1>6. Blank = [h \in Half |-> Blank[h]]
    BY DEF Blank
  <1> QED
    BY <1>3, <1>4, <1>5, <1>6

\* A placeholder that is set stands for a secret of a tier that has it.
LEMMA PlaceholdersReturn ==
    ASSUME FromExport, NEW h \in Half, origin[h] \in Config(h), NEW t \in DOMAIN origin[h],
           origin[h][t].secret # Nothing
    PROVE  env[Placeholder(h, t)] \in Returns(h, t)
  <1> DEFINE n == Placeholder(h, t)
  <1>1. DOMAIN origin[h] \subseteq Tier(h) /\ origin[h] # Nothing
    BY ExportedFits, HalfHasScalars, NothingIsApart
  <1>2. n \in EnvName /\ <<h, t>> \in Occurrence
    BY <1>1 DEF Placeholder, EnvName, Occurrence
  <1>3. origin[h][t].secret \in Behind(n)
    <2>1. Carries(origin, <<h, t>>) /\ <<h, t>>[1] = h /\ <<h, t>>[2] = t
      BY DEF Carries
    <2> QED
      BY <1>1, <1>2, <2>1 DEF Behind
  <1>4. env[n] \in Behind(n)
    BY <1>2, <1>3 DEF FromExport
  <1>5. PICK o \in Occurrence : /\ env[n] = origin[o[1]][o[2]].secret /\ Carries(origin, o)
                                /\ Placeholder(o[1], o[2]) = n
    BY <1>4 DEF Behind
  <1>6. o[1] = h /\ Scope[o[2]] = Scope[t]
    BY <1>5 DEF Placeholder
  <1>7. o[2] \in DOMAIN origin[h] /\ origin[h][o[2]].secret # Nothing
    BY <1>5, <1>6 DEF Carries
  <1> QED
    BY <1>5, <1>6, <1>7 DEF Returns

\* What a document of either origin is.
LEMMA DocFits ==
    ASSUME FromExport \/ FromHand
    PROVE  /\ doc["agent"] \in Local("agent") /\ doc["trapd"] \in Local("trapd") \cup {Nothing}
           /\ env \in [EnvName -> {Nothing} \cup Secret]
           /\ config \in [Half -> AnyConfig]
           /\ config["agent"] \in Config("agent") /\ config["trapd"] \in Config("trapd") \cup {Nothing}
           /\ Provenance
  <1>1. CASE FromHand
    <2>1. doc["agent"] \in Local("agent") /\ doc["trapd"] \in Local("trapd") \cup {Nothing}
      BY <1>1, SnmpAssumption DEF FromHand
    <2>2. config \in Servers
      BY <1>1 DEF FromHand
    <2>5. Provenance /\ env \in [EnvName -> {Nothing} \cup Secret]
      BY <1>1 DEF FromHand, Provenance
    <2> QED
      BY <2>1, <2>2, <2>5, ServerShape
  <1>2. CASE FromExport
    <2>1. /\ origin["agent"] \in Config("agent") /\ origin["trapd"] \in Config("trapd") \cup {Nothing}
          /\ \A h \in Half : origin[h] \in Config(h) \cup {Nothing}
      BY <1>2, ServerShape DEF FromExport
    <2>2. \A h \in Half : doc[h] = IF origin[h] = Nothing THEN Nothing ELSE Exported(h, origin[h])
      BY <1>2 DEF FromExport
    <2>3. origin["agent"] # Nothing
      BY <2>1, NothingIsApart DEF Half
    <2>4. \A h \in Half : doc[h] # Nothing => origin[h] \in Config(h) /\ doc[h] = Exported(h, origin[h])
      BY <2>1, <2>2
    <2>5. /\ doc["agent"] = Exported("agent", origin["agent"]) /\ "agent" \in Half /\ "trapd" \in Half
          /\ doc["trapd"] = Nothing
             \/ (origin["trapd"] \in Config("trapd") /\ doc["trapd"] = Exported("trapd", origin["trapd"]))
      BY <2>1, <2>2, <2>3 DEF Half
    <2>6. doc["agent"] \in Local("agent") /\ doc["trapd"] \in Local("trapd") \cup {Nothing}
      BY <2>1, <2>5, ExportedFits
    <2>7. Provenance
      BY <1>2, <2>4, PlaceholdersReturn DEF Provenance, Halves
    <2>8. /\ config \in [Half -> AnyConfig]
          /\ config["agent"] \in Config("agent") /\ config["trapd"] \in Config("trapd") \cup {Nothing}
      <3>1. origin \in Servers /\ (config = Blank \/ config \in Servers)
        BY <1>2, SnmpAssumption DEF FromExport
      <3> QED
        BY <3>1, ServerShape, BlankFits
    <2>9. env \in [EnvName -> {Nothing} \cup Secret]
      BY <1>2 DEF FromExport
    <2> QED
      BY <2>6, <2>7, <2>8, <2>9
  <1> QED
    BY <1>1, <1>2

LEMMA InitSnmpIInv == SnmpInit => SnmpIInv
  <1> SUFFICES ASSUME SnmpInit PROVE SnmpIInv
    OBVIOUS
  <1>1. FromExport \/ FromHand
    BY DEF SnmpInit
  <1>2. \A h \in Halves :
           /\ DOMAIN doc[h] \in Tiers(h) /\ \A t \in DOMAIN doc[h] : doc[h][t] \in LocalParams
           /\ h = "trapd" => doc[h][Scalars].secret = Nothing
    <2>1. \A h \in Halves : doc[h] \in Local(h)
      BY <1>1, DocFits DEF Halves, Half
    <2> QED
      BY <2>1 DEF Local
  <1>3. config["agent"] # Nothing /\ doc["agent"] # Nothing
    BY <1>1, DocFits, NothingIsApart DEF Half
  <1>4. \A h \in Half : config[h] = Nothing \/ config[h] \in Config(h)
    BY <1>1, DocFits DEF Half
  <1>5. SnmpTypeOK
    BY <1>1, <1>2, <1>3, <1>4, DocFits DEF SnmpInit, SnmpTypeOK, Half
  <1>6. ByStage
    BY DEF SnmpInit, ByStage, Half, Sent, BothSent, Halves, NotYet
  <1>7. AsSent
    BY DEF SnmpInit, AsSent, Halves
  <1> QED
    BY <1>1, <1>5, <1>6, <1>7, DocFits DEF SnmpIInv

\* What the input says stays as it is.
LEMMA SameInput ==
    ASSUME SnmpIInv, UNCHANGED input
    PROVE  /\ Halves' = Halves /\ Provenance' /\ \A h \in Half : Stored(h)' = Stored(h)
           /\ \A h \in Half : Resolves(h)' = Resolves(h)
           /\ \A h \in Halves :
                 /\ DOMAIN doc'[h] \in Tiers(h) /\ \A t \in DOMAIN doc'[h] : doc'[h][t] \in LocalParams
                 /\ h = "trapd" => doc'[h][Scalars].secret = Nothing
           /\ doc'["agent"] # Nothing /\ env' \in [EnvName -> {Nothing} \cup Secret]
           /\ "agent" \in Halves
           /\ doc' = doc /\ found' = found /\ force' = force
  <1>1. doc' = doc /\ origin' = origin /\ env' = env /\ found' = found /\ force' = force
    BY DEF input
  <1>2. Halves' = Halves /\ (\A h \in Half : Stored(h)' = Stored(h)) /\ (\A h \in Half : Resolves(h)' = Resolves(h))
    BY <1>1 DEF Halves, Stored, Resolves, Resolved
  <1>3. Provenance'
    BY <1>1, <1>2 DEF SnmpIInv, Provenance, Halves, Returns
  <1> QED
    BY <1>1, <1>2, <1>3 DEF SnmpIInv, SnmpTypeOK, Halves, Half

\* A half that is the same is in sync as before.
LEMMA SameSync ==
    ASSUME UNCHANGED input, NEW h \in Half, config'[h] = config[h]
    PROVE  (InSync(h) => InSync(h)') /\ (Writes(h) => Writes(h)')
  <1>1. doc' = doc /\ force' = force
    BY DEF input
  <1> QED
    BY <1>1 DEF InSync, Agrees, Writes, SameTier

LEMMA OtherOperatorSnmp == ASSUME SnmpIInv, OtherOperator PROVE SnmpIInv'
  <1>1. UNCHANGED input /\ stage' = stage /\ sync' = sync /\ result' = result /\ row' = row /\ force' = force
    BY DEF OtherOperator, input
  <1>2. SnmpTypeOK' /\ (config \in [Half -> AnyConfig])'
    <2>1. config' = Blank /\ Blank["agent"] # Nothing
      BY BlankFits, NothingIsApart DEF OtherOperator, Half
    <2>2. \A h \in Half : config'[h] = Nothing \/ config'[h] \in Config(h)
      BY <2>1, BlankFits DEF Half
    <2> QED
      BY <1>1, <2>1, <2>2, BlankFits, SameInput DEF SnmpIInv, SnmpTypeOK
  <1>3. ByStage'
    BY <1>1, SameInput DEF SnmpIInv, ByStage, Sent, BothSent, Half
  <1>4. AsSent'
    BY DEF OtherOperator, AsSent
  <1> QED
    BY <1>1, <1>2, <1>3, <1>4, SameInput DEF SnmpIInv

LEMMA PlanSnmp == ASSUME SnmpIInv, Plan PROVE SnmpIInv'
  <1>1. /\ UNCHANGED input /\ stage = "plan" /\ stage' = "agent" /\ config' = config /\ result' = result
        /\ row' = row /\ replaced' = replaced /\ force' = force
        /\ sync' = [h \in Half |-> IF h \notin Halves THEN "no block"
                                   ELSE IF Writes(h) THEN "write" ELSE "in sync"]
    BY DEF Plan, input
  <1>2. SnmpTypeOK'
    <2>1. sync' \in [Half -> {"in sync", "write", "no block"}]
      BY <1>1
    <2> QED
      BY <1>1, <2>1, SameInput DEF SnmpIInv, SnmpTypeOK, Half
  <1>3. ByStage'
    <2>1. \A h \in Half : (sync'[h] = "no block" <=> h \notin Halves) /\ (force /\ h \in Halves => sync'[h] = "write")
      BY <1>1 DEF Writes
    <2>2. \A h \in Half : result'[h] = "none"
      BY <1>1 DEF SnmpIInv, ByStage, Half
    <2> QED
      BY <1>1, <2>1, <2>2, SameInput DEF SnmpIInv, ByStage, Sent, BothSent, Half
  <1>4. AsSent'
    <2>1. \A h \in Half : result'[h] = "none"
      BY <1>1 DEF SnmpIInv, ByStage, Half
    <2>2. \A h \in Halves : (sync'[h] = "in sync" => InSync(h)) /\ (sync'[h] = "write" => Writes(h))
      BY <1>1 DEF Writes, Halves
    <2>3. \A h \in Halves : (InSync(h) => InSync(h)') /\ (Writes(h) => Writes(h)')
      <3>1. doc' = doc /\ config' = config /\ force' = force
        BY <1>1 DEF input
      <3> QED
        BY <3>1 DEF InSync, Agrees, Writes, SameTier
    <2>4. ~replaced => \A h \in Half : config[h] = found[h]
      BY <2>1, <1>1 DEF SnmpIInv, AsSent, ByStage, Half
    <2>5. ~replaced => \A h \in Halves :
             sync'[h] = "write" <=> force \/ ~Agrees(doc[h], found[h])
      BY <1>1, <2>4 DEF Writes, InSync, Halves
    <2> QED
      BY <1>1, <2>1, <2>2, <2>3, <2>4, <2>5, SameInput DEF AsSent, Halves
  <1> QED
    BY <1>1, <1>2, <1>3, <1>4, SameInput DEF SnmpIInv

LEMMA PlanFailsSnmp == ASSUME SnmpIInv, PlanFails PROVE SnmpIInv'
  <1>1. /\ UNCHANGED input /\ stage = "plan" /\ stage' = "refused" /\ config' = config /\ result' = result
        /\ row' = row /\ replaced' = replaced /\ force' = force /\ sync' = sync
    BY DEF PlanFails, input
  <1>2. SnmpTypeOK'
    BY <1>1, SameInput DEF SnmpIInv, SnmpTypeOK
  <1>3. ByStage'
    BY <1>1, SameInput DEF SnmpIInv, ByStage, Sent, BothSent
  <1>4. AsSent'
    BY <1>1, SameInput DEF SnmpIInv, AsSent, Halves
  <1> QED
    BY <1>1, <1>2, <1>3, <1>4, SameInput DEF SnmpIInv

\* Between the plan and the end, a half that is not written by a step is as it was.
LEMMA UnresolvedSnmp == ASSUME SnmpIInv, NEW h \in Half, Unresolved(h) PROVE SnmpIInv'
  <1>1. /\ UNCHANGED input /\ config' = config /\ sync' = sync /\ replaced' = replaced /\ force' = force
        /\ stage = h
    BY DEF Unresolved, input
  <1>2. CASE h = "agent"
    <2>1. stage = "agent" /\ stage' = "done" /\ row' = "failed" /\ result' = result
      BY <1>1, <1>2 DEF Unresolved
    <2>2. SnmpTypeOK'
      BY <1>1, <2>1, SameInput DEF SnmpIInv, SnmpTypeOK
    <2>3. ByStage'
      BY <1>1, <2>1, SameInput DEF SnmpIInv, ByStage, Sent, BothSent, NotYet
    <2>4. AsSent'
      BY <1>1, <2>1, SameInput, SameSync DEF SnmpIInv, AsSent, Halves
    <2> QED
      BY <1>1, <2>2, <2>3, <2>4, SameInput DEF SnmpIInv
  <1>3. CASE h = "trapd"
    <2>1. /\ stage = "trapd" /\ stage' = "report" /\ row' = row /\ sync["trapd"] = "write"
          /\ result' = [result EXCEPT !["trapd"] = "failed"]
      BY <1>1, <1>3 DEF Unresolved, After
    <2>2. SnmpTypeOK'
      BY <1>1, <2>1, SameInput DEF SnmpIInv, SnmpTypeOK
    <2>3. result'["trapd"] = "failed" /\ result'["agent"] = result["agent"]
      BY <2>1 DEF SnmpIInv, SnmpTypeOK, Half
    <2>4. ByStage'
      BY <1>1, <2>1, <2>3, SameInput DEF SnmpIInv, ByStage, Sent, BothSent, NotYet, Half
    <2>5. AsSent'
      BY <1>1, <2>1, <2>3, SameInput, SameSync DEF SnmpIInv, AsSent, Halves, Half
    <2> QED
      BY <1>1, <2>2, <2>4, <2>5, SameInput DEF SnmpIInv
  <1> QED
    BY <1>2, <1>3 DEF Half

\* The apply moves on: from the agent's half to the trap daemon's, and from there to the report.
LEMMA MovesOn ==
    ASSUME NEW h \in Half, stage = h, stage' = After(h)
    PROVE  \/ h = "agent" /\ stage = "agent" /\ stage' = "trapd"
           \/ h = "trapd" /\ stage = "trapd" /\ stage' = "report"
  BY DEF Half, After

LEMMA UploadSnmp == ASSUME SnmpIInv, NEW h \in Half, Upload(h) PROVE SnmpIInv'
  <1>1. /\ UNCHANGED input /\ stage = h /\ stage' = After(h) /\ sync[h] = "write" /\ sync' = sync
        /\ Resolves(h) /\ row' = row /\ replaced' = replaced /\ force' = force
    BY DEF Upload, input
  <1>2. \/ config' = [config EXCEPT ![h] = Stored(h)] /\ \E r \in {"ok", "failed"} : result' = [result EXCEPT ![h] = r]
        \/ result' = [result EXCEPT ![h] = "failed"] /\ config' = config
    BY DEF Upload
  <1>3. /\ result' \in [Half -> {"none", "ok", "failed"}] /\ result'[h] \in {"ok", "failed"}
        /\ \A g \in Half \ {h} : result'[g] = result[g]
    BY <1>2 DEF SnmpIInv, SnmpTypeOK
  <1>4. /\ result'[h] = "ok" => config'[h] = Stored(h)
        /\ config'[h] = Stored(h) \/ config'[h] = config[h]
        /\ \A g \in Half \ {h} : config'[g] = config[g]
    BY <1>2 DEF SnmpIInv, SnmpTypeOK
  <1>5. h \in Halves
    BY <1>1 DEF SnmpIInv, ByStage, Half
  <1>6. Stored(h) \in Config(h) /\ Stored(h) # Nothing
    BY <1>5, StoredFits DEF SnmpIInv
  <1>7. SnmpTypeOK' /\ (config \in [Half -> AnyConfig])'
    <2>1. \A g \in Half : config'[g] = Nothing \/ config'[g] \in Config(g)
      BY <1>4, <1>6 DEF SnmpIInv, SnmpTypeOK
    <2>2. config'["agent"] # Nothing
      BY <1>4, <1>6 DEF SnmpIInv, SnmpTypeOK, Half
    <2>3. config' \in [Half -> AnyConfig]
      BY <1>2, <1>6, ConfigIsAny DEF SnmpIInv
    <2>4. stage' \in Half \cup {"plan", "report", "done", "refused"}
      BY <1>1, MovesOn DEF Half
    <2> QED
      BY <1>1, <1>3, <2>1, <2>2, <2>3, <2>4, SameInput DEF SnmpIInv, SnmpTypeOK
  <1>8. ByStage'
    BY <1>1, <1>3, SameInput DEF SnmpIInv, ByStage, Sent, BothSent, NotYet, Half, After
  <1>9. AsSent'
    BY <1>1, <1>3, <1>4, SameInput, SameSync DEF SnmpIInv, AsSent, Halves, Half, After
  <1> QED
    BY <1>1, <1>7, <1>8, <1>9, SameInput DEF SnmpIInv

LEMMA LeaveSnmp == ASSUME SnmpIInv, NEW h \in Half, Leave(h) PROVE SnmpIInv'
  <1>1. /\ UNCHANGED input /\ stage = h /\ stage' = After(h) /\ sync[h] # "write" /\ sync' = sync
        /\ config' = config /\ result' = result /\ row' = row /\ replaced' = replaced /\ force' = force
    BY DEF Leave, input
  <1>2. SnmpTypeOK'
    <2>1. stage' \in Half \cup {"plan", "report", "done", "refused"}
      BY <1>1, MovesOn DEF Half
    <2> QED
      BY <1>1, <2>1, SameInput DEF SnmpIInv, SnmpTypeOK
  <1>3. ByStage'
    <2>1. CASE h = "agent" /\ stage = "agent" /\ stage' = "trapd"
      BY <1>1, <2>1, SameInput DEF SnmpIInv, ByStage, Sent, BothSent, NotYet, Half
    <2>2. CASE h = "trapd" /\ stage = "trapd" /\ stage' = "report"
      BY <1>1, <2>2, SameInput DEF SnmpIInv, ByStage, Sent, BothSent, NotYet, Half
    <2> QED
      BY <1>1, <2>1, <2>2, MovesOn
  <1>4. AsSent'
    BY <1>1, SameInput, SameSync DEF SnmpIInv, AsSent, Halves, Half, After
  <1> QED
    BY <1>1, <1>2, <1>3, <1>4, SameInput DEF SnmpIInv

LEMMA ReportSnmp == ASSUME SnmpIInv, Report PROVE SnmpIInv'
  <1>1. /\ UNCHANGED input /\ stage = "report" /\ stage' = "done" /\ row' = SnmpRow /\ sync' = sync
        /\ config' = config /\ result' = result /\ replaced' = replaced /\ force' = force
    BY DEF Report, input
  <1>2. SnmpRow \in {"Updated", "Unchanged", "failed"} /\ (SnmpRow # "failed" => \A h \in Half : result[h] # "failed")
    BY DEF SnmpRow
  <1>3. SnmpTypeOK'
    BY <1>1, <1>2, SameInput DEF SnmpIInv, SnmpTypeOK
  <1>4. ByStage'
    BY <1>1, <1>2, SameInput DEF SnmpIInv, ByStage, Sent, BothSent, Half, NotYet
  <1>5. AsSent'
    BY <1>1, SameInput, SameSync DEF SnmpIInv, AsSent, Halves
  <1> QED
    BY <1>1, <1>3, <1>4, <1>5, SameInput DEF SnmpIInv

-----------------------------------------------------------------------------
\* The inductive invariant: who wrote the document, how far the apply is and what the server
\* has of what was sent (apply/handler.rs, execute).
THEOREM SnmpStrengthened == SnmpSpec => []SnmpIInv
  <1>1. ASSUME SnmpIInv, [SnmpNext]_snmpVars PROVE SnmpIInv'
    <2>1. CASE UNCHANGED snmpVars
      <3>1. /\ UNCHANGED input /\ stage' = stage /\ sync' = sync /\ config' = config /\ result' = result
            /\ row' = row /\ replaced' = replaced /\ force' = force
        BY <2>1 DEF snmpVars, input
      <3>2. SnmpTypeOK'
        BY <1>1, <3>1, SameInput DEF SnmpIInv, SnmpTypeOK
      <3>4. ByStage'
        BY <1>1, <3>1, SameInput DEF SnmpIInv, ByStage, Sent, BothSent, Half, NotYet
      <3>3. AsSent'
        BY <1>1, <3>1, SameInput, SameSync DEF SnmpIInv, AsSent, Halves
      <3> QED
        BY <1>1, <3>1, <3>2, <3>3, <3>4, SameInput DEF SnmpIInv
    <2> QED
      BY <1>1, <2>1, OtherOperatorSnmp, PlanSnmp, PlanFailsSnmp, ReportSnmp, UnresolvedSnmp,
         UploadSnmp, LeaveSnmp DEF SnmpNext
  <1> QED
    BY <1>1, InitSnmpIInv, PTL DEF SnmpSpec

\* What the invariant says of a success.
LEMMA SuccessIsSent ==
    ASSUME SnmpIInv, Applied, NEW h \in Halves
    PROVE  /\ sync[h] = "in sync" \/ (sync[h] = "write" /\ config[h] = Stored(h))
           /\ InSync(h) /\ (force => sync[h] = "write")
  <1>1. stage = "done" /\ row # "failed" /\ ~replaced /\ h \in Half
    BY DEF SnmpIInv, ByStage, Applied, Halves, NotYet
  <1>2. sync[h] # "no block" /\ (force => sync[h] = "write")
    BY <1>1 DEF SnmpIInv, ByStage
  <1>3. sync[h] = "write" => result[h] = "ok"
    BY <1>1 DEF SnmpIInv, ByStage, SnmpTypeOK, Half, Sent, BothSent
  <1>4. sync[h] = "write" => config[h] = Stored(h)
    BY <1>1, <1>3 DEF SnmpIInv, AsSent
  <1>5. sync[h] \in {"in sync", "write"}
    BY <1>1, <1>2 DEF SnmpIInv, SnmpTypeOK
  <1>6. InSync(h)
    BY <1>1, <1>4, <1>5, StoredInSync DEF SnmpIInv, AsSent
  <1> QED
    BY <1>2, <1>4, <1>5, <1>6

\* The state is well typed, a success is one of both halves, and an exported document is in
\* sync with the server it came from, for any tiers, parameters and documents.
THEOREM SnmpRowsHold == SnmpSpec => []SnmpConfigInv
  <1>1. SnmpIInv => SnmpConfigInv
    <2> SUFFICES ASSUME SnmpIInv PROVE SnmpConfigInv
      OBVIOUS
    <2>1. RowIsTrue
      <3>1. SUFFICES ASSUME Applied, NEW h \in Halves
                     PROVE  /\ InSync(h)
                            /\ force => \A t \in DOMAIN doc[h] : Resolved(doc[h][t].secret) = config[h][t].secret
        BY DEF RowIsTrue
      <3> QED
        BY <3>1, SuccessIsSent, StoredInSync DEF SnmpIInv
    <2>2. ExportIsInSync
      <3>1. SUFFICES ASSUME stage = "agent", ~replaced, ~force, origin # Nothing, config = origin,
                            NEW h \in Half, sync[h] = "write"
                     PROVE  FALSE
        BY DEF ExportIsInSync
      <3>2. h \in Halves
        BY <3>1 DEF SnmpIInv, ByStage
      <3>3. Writes(h) /\ InSync(h)
        BY <3>1, <3>2, ExportInSync DEF SnmpIInv, AsSent
      <3> QED
        BY <3>1, <3>3 DEF Writes
    <2> QED
      BY <2>1, <2>2 DEF SnmpConfigInv, SnmpIInv
  <1> QED
    BY <1>1, SnmpStrengthened, PTL

\* An export applies back onto any server: a half that has its tiers and parameters is left
\* alone unless forced, and any other gets the tiers, the parameters and, of each tier, a secret
\* that its placeholder stands for.
THEOREM ExportsApplyBack == SnmpSpec => []ExportAppliesBack
  <1>1. SnmpIInv => ExportAppliesBack
    <2> SUFFICES ASSUME SnmpIInv, Applied, origin # Nothing PROVE ExportAppliesBack
      BY DEF ExportAppliesBack
    <2>1. stage = "done" /\ ~replaced
      BY DEF SnmpIInv, ByStage, Applied, NotYet
    <2>2. ASSUME NEW h \in Half, sync[h] # "write" PROVE config[h] = found[h]
      BY <2>1, <2>2 DEF SnmpIInv, ByStage, AsSent
    <2>3. ASSUME NEW h \in Half \ Halves PROVE config[h] = found[h]
      <3>1. sync[h] = "no block"
        BY <2>1 DEF SnmpIInv, ByStage
      <3> QED
        BY <2>2, <3>1
    <2>4. ASSUME NEW h \in Halves
          PROVE  sync[h] = "write" <=> force \/ ~Agrees(origin[h], found[h])
      <3>1. sync[h] = "write" <=> force \/ ~Agrees(doc[h], found[h])
        BY <2>1 DEF SnmpIInv, AsSent
      <3> QED
        BY <3>1, ExportAgrees DEF SnmpIInv
    <2>5. ASSUME NEW h \in Halves, sync[h] = "write"
          PROVE  /\ Agrees(origin[h], config[h])
                 /\ \A t \in DOMAIN origin[h] : config[h][t].secret \in Returns(h, t)
      <3>1. config[h] = Stored(h) /\ Agrees(doc[h], config[h])
        BY <2>5, SuccessIsSent DEF InSync
      <3>2. Agrees(origin[h], config[h])
        BY <3>1, ExportAgrees DEF SnmpIInv
      <3>3. origin[h] \in Config(h) /\ doc[h] = Exported(h, origin[h]) /\ h \in Half
        BY DEF SnmpIInv, Provenance, Halves
      <3>4. ASSUME NEW t \in DOMAIN origin[h] PROVE config[h][t].secret \in Returns(h, t)
        <4>1. /\ t \in DOMAIN doc[h] /\ config[h][t].secret = Resolved(doc[h][t].secret)
              /\ doc[h][t].secret = IF origin[h][t].secret = Nothing THEN Nothing ELSE Placeholder(h, t)
          BY <3>1, <3>3, ExportedFits, StoredFits DEF SnmpIInv, Exported
        <4>2. CASE origin[h][t].secret = Nothing
          BY <4>1, <4>2 DEF Resolved, Returns
        <4>3. CASE origin[h][t].secret # Nothing
          <5>1. Placeholder(h, t) # Nothing
            <6>1. t \in Tier(h)
              BY <3>3, ExportedFits, HalfHasScalars
            <6>2. Placeholder(h, t) \in EnvName
              BY <3>3, <6>1 DEF Placeholder, EnvName
            <6> QED
              BY <6>2, SnmpAssumption
          <5>2. env[Placeholder(h, t)] \in Returns(h, t)
            BY <4>3 DEF SnmpIInv, Provenance
          <5> QED
            BY <4>1, <4>3, <5>1, <5>2 DEF Resolved
        <4> QED
          BY <4>2, <4>3
      <3> QED
        BY <3>2, <3>4
    <2>6. \A h \in Halves : h \in Half
      BY DEF Halves
    <2> QED
      BY <2>2, <2>3, <2>4, <2>5, <2>6 DEF ExportAppliesBack
  <1> QED
    BY <1>1, SnmpStrengthened, PTL

\* No upload lacks a secret that its document refers to, and nothing is uploaded when a
\* secret of the agent's half does not resolve.
THEOREM SecretsAreKept == SnmpSpec => NoSecretIsErased
  <1> DEFINE Erases(h) ==
        config'[h] # config[h] /\ replaced' = replaced =>
          /\ \A t \in DOMAIN doc[h] : doc[h][t].secret # Nothing => config'[h][t].secret # Nothing
          /\ sync["agent"] = "write" =>
                \A t \in DOMAIN doc["agent"] :
                    doc["agent"][t].secret # Nothing => Resolved(doc["agent"][t].secret) # Nothing
  <1>1. ASSUME SnmpIInv, SnmpNext PROVE \A h \in Half : Erases(h)
    <2>1. SUFFICES ASSUME NEW h \in Half, config'[h] # config[h], replaced' = replaced PROVE Erases(h)
      OBVIOUS
    <2>2. PICK g \in Half : Upload(g)
      BY <1>1, <2>1 DEF SnmpNext, OtherOperator, Plan, PlanFails, Report, Unresolved, Leave, SnmpIInv, SnmpTypeOK
    <2>3. g = h /\ config'[h] = Stored(h)
      BY <1>1, <2>1, <2>2 DEF Upload, SnmpIInv
    <2>4. sync[h] = "write" /\ Resolves(h) /\ stage = h
      BY <2>2, <2>3 DEF Upload
    <2>5. h \in Halves
      BY <1>1, <2>4 DEF SnmpIInv, ByStage, Half
    <2>6. \A t \in DOMAIN doc[h] : config'[h][t].secret = Resolved(doc[h][t].secret)
      BY <1>1, <2>3, <2>5, StoredFits DEF SnmpIInv
    <2>7. \A t \in DOMAIN doc[h] : doc[h][t].secret # Nothing => config'[h][t].secret # Nothing
      BY <2>4, <2>6 DEF Resolves
    <2>8. sync["agent"] = "write" => Resolves("agent")
      <3>1. CASE h = "agent"
        BY <2>4, <3>1
      <3>2. CASE h = "trapd"
        <4>1. Sent
          <5>1. stage = "trapd"
            BY <2>4, <3>2
          <5> QED
            BY <5>1 DEF Sent
        <4> QED
          BY <1>1, <4>1 DEF SnmpIInv, ByStage
      <3> QED
        BY <3>1, <3>2 DEF Half
    <2> QED
      BY <2>7, <2>8 DEF Resolves
  <1>2. ASSUME SnmpIInv, [SnmpNext]_snmpVars
        PROVE  [\A h \in Half : Erases(h)]_snmpVars
    BY <1>1, <1>2
  <1> QED
    BY <1>2, SnmpStrengthened, PTL DEF SnmpSpec, NoSecretIsErased
==============================================================================
