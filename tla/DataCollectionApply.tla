-------------------------- MODULE DataCollectionApply --------------------------
(***************************************************************************)
(* Applying `kind: DataCollectionSource` documents                         *)
(* (onmsctl-datacollection/src).  A document is reconciled in parts, one   *)
(* request each and no transaction around them: its inline profile, the    *)
(* source's tree, the profiles that include the source, its enabled flag.  *)
(* The first part that fails ends the document, and its one row names the  *)
(* parts that were done.  Requests may be served although their answer is  *)
(* lost, and another operator may work on the same objects.                *)
(***************************************************************************)
EXTENDS FiniteSets, Naturals

CONSTANTS
    Source, Profile,
    Document,   \* the documents that may be applied
    Absent,
    MaxOthers   \* how many objects another operator changes meanwhile

\* A document: the enabled flag, the profiles that shall include the source, the profile
\* that it defines inline and the settings it gives it.  Its tree is the one to be wanted.
Setting == {"want", "alternative", "other"}
DocumentType ==
    [enabled : BOOLEAN, profiles : SUBSET Profile, spec : {Absent} \cup Profile,
     setting : Setting]

SourceType == [tree : {"want", "other"}, enabled : BOOLEAN]

ASSUME DataCollectionAssumption ==
    /\ Document \subseteq DocumentType
    /\ Absent \notin Profile \cup Setting \cup SourceType
    /\ MaxOthers \in Nat

VARIABLES
    docs, keepGoing,
    source,       \* the sources on the server
    profile,      \* the settings of its profiles
    included,     \* <<source, profile>>: the source belongs to the profile
    phase,        \* "preflight", "profiles", "plan", "execute", "done", "refused"
    listed,       \* the sources of the preflight
    seen,         \* the profiles and associations listed while planning
    plan,
    fresh,        \* the profile names known while executing
    step,         \* what a document being executed does next
    todo,         \* the profiles it has still to attach to and detach from
    parts,        \* the parts its row will name
    row,
    disturbed     \* the sources and profiles that another operator touched

input == <<docs, keepGoing>>
server == <<source, profile, included>>
reads == <<listed, seen, plan>>
work == <<fresh, step, todo, parts>>
vars == <<input, server, phase, reads, work, row, disturbed>>

NotYet == "not yet"
Described == DOMAIN docs
Nothing == [profile |-> [p \in Profile |-> Absent], included |-> {}]
NoPlan == [exists |-> FALSE, same |-> FALSE, spec |-> "none", attach |-> {}, detach |-> {},
           switch |-> FALSE, error |-> FALSE, made |-> FALSE]
NoTodo == [attach |-> {}, detach |-> {}]

-----------------------------------------------------------------------------
\* Names of the form <definition>_<bug> are slips the code could have made.

ProfilesOf(s, pairs) == {p \in Profile : <<s, p>> \in pairs}

\* What to do with the inline profile (ProfilePlan).
SpecPlan(d, settings) ==
    IF d.spec = Absent THEN "none"
    ELSE CASE settings[d.spec] = Absent -> "create"
           [] settings[d.spec] = d.setting -> "in sync"
           [] OTHER -> "update"

\* A new source needs a profile; each profile must be there or be the inline one.
PlanError(d, exists, settings) ==
    \/ ~exists /\ d.profiles = {}
    \/ \E p \in d.profiles : settings[p] = Absent /\ d.spec # p

\* The associations to remove: the profiles that the document does not list.
Detached(d, now) == now \ d.profiles

\* A new source is enabled; it is disabled afterwards.
Switch_Never(d, live) == live # Absent /\ live.enabled # d.enabled
Switch(d, live) == d.enabled # (IF live = Absent THEN TRUE ELSE live.enabled)

PlanOf(s) ==
    LET d == docs[s]
        exists == s \in listed
        live == IF exists THEN source[s] ELSE Absent
        now == ProfilesOf(s, seen.included)
        p == [exists |-> exists,
              same |-> IF exists THEN live.tree = "want" ELSE FALSE,
              spec |-> SpecPlan(d, seen.profile),
              attach |-> d.profiles \ now, detach |-> Detached(d, now),
              switch |-> Switch(d, live), made |-> FALSE,
              error |-> PlanError(d, exists, seen.profile)]
    IN [p EXCEPT !.made = \/ ~p.exists \/ ~p.same \/ p.attach \cup p.detach # {}
                          \/ p.switch \/ p.spec \in {"create", "update"}]

\* The order of the parts of a document that exists, and of one that does not.
After_DetachFirst(part, p) ==
    CASE part = "profile" -> IF p.exists THEN "replace" ELSE "create"
      [] part = "replace" -> "detach"
      [] part = "detach" -> "attach"
      [] part \in {"create", "attach"} -> "switch"
      [] OTHER -> "report"
After(part, p) ==
    CASE part = "profile" -> IF p.exists THEN "replace" ELSE "create"
      [] part = "replace" -> "attach"
      [] part = "attach" -> "detach"
      [] part \in {"create", "detach"} -> "switch"
      [] OTHER -> "report"

Success(p) ==
    IF ~p.exists THEN "Created" ELSE IF p.made THEN "Updated" ELSE "Unchanged"

\* A failed document halts the rest of its bucket.
Halted == ~keepGoing /\ \E s \in Described : row[s] = "failed"

-----------------------------------------------------------------------------
Init ==
    /\ \E D \in (SUBSET Source) \ {{}} : docs \in [D -> Document]
    /\ keepGoing \in BOOLEAN
    /\ source \in [Source -> {Absent} \cup {[tree |-> t, enabled |-> t = "want"] :
                                            t \in {"want", "other"}}]
    /\ profile \in [Profile -> {Absent, "want", "other"}]
    /\ included \in SUBSET {i \in Source \X Profile :
                               source[i[1]] # Absent /\ profile[i[2]] # Absent}
    /\ \A s \in Source : source[s] # Absent => ProfilesOf(s, included) # {}
    /\ phase = "preflight" /\ listed = {} /\ seen = Nothing
    /\ plan = [s \in Source |-> NoPlan] /\ fresh = {}
    /\ step = [s \in Source |-> NotYet] /\ todo = [s \in Source |-> NoTodo]
    /\ parts = [s \in Source |-> {}]
    /\ row = [s \in Source |-> NotYet] /\ disturbed = {}

\* Another operator edits, deletes or switches a source, or edits or deletes a profile.
Disturbs(things) ==
    /\ phase \notin {"done", "refused"} /\ Cardinality(disturbed) < MaxOthers
    /\ disturbed' = disturbed \cup things

OtherOperator ==
    /\ \/ \E s \in Source : source[s] # Absent /\ Disturbs({s}) /\ UNCHANGED profile /\
             \/ source' = [source EXCEPT ![s].tree = "other"] /\ UNCHANGED included
             \/ /\ source' = [source EXCEPT ![s] = Absent]
                /\ included' = {i \in included : i[1] # s}
       \/ \E p \in Profile : profile[p] # Absent /\ Disturbs({p}) /\ UNCHANGED source /\
             \/ profile' = [profile EXCEPT ![p] = "other"] /\ UNCHANGED included
             \/ /\ profile' = [profile EXCEPT ![p] = Absent]
                /\ included' = {i \in included : i[2] # p}
    /\ UNCHANGED <<input, phase, reads, work, row>>

(* plan *)

\* preflight: the names and ids of the sources; an old server has no such list.
Preflight ==
    /\ phase = "preflight" /\ phase' = "profiles"
    /\ listed' = {s \in Source : source[s] # Absent}
    /\ UNCHANGED <<input, server, seen, plan, work, row, disturbed>>

ListProfiles ==
    /\ phase = "profiles" /\ phase' = "plan"
    /\ seen' = [profile |-> profile, included |-> included]
    /\ UNCHANGED <<input, server, listed, plan, work, row, disturbed>>

\* A source that was listed is downloaded, and its flag is read.
PlanOne(s) ==
    /\ phase = "plan" /\ s \in Described /\ step[s] = NotYet
    /\ s \in listed => source[s] # Absent
    /\ plan' = [plan EXCEPT ![s] = PlanOf(s)]
    /\ step' = [step EXCEPT ![s] = "planned"]
    /\ UNCHANGED <<input, server, phase, listed, seen, fresh, todo, parts, row, disturbed>>

\* A read fails, or a listed source is gone.
PlanFails ==
    /\ phase \in {"preflight", "profiles", "plan"} /\ phase' = "refused"
    /\ UNCHANGED <<input, server, reads, work, row, disturbed>>

\* The profiles are listed again.
StartExecute ==
    /\ phase = "plan" /\ \A s \in Described : step[s] = "planned"
    /\ phase' = "execute"
    /\ fresh' = {p \in Profile : profile[p] # Absent}
    /\ listed' = {} /\ seen' = Nothing
    /\ UNCHANGED <<input, server, plan, step, todo, parts, row, disturbed>>

(* execute: one document after the other *)

SetRow(s, r) == row' = [row EXCEPT ![s] = r] /\ step' = [step EXCEPT ![s] = "ended"]
Turn(s) ==
    /\ phase = "execute" /\ s \in Described /\ row[s] = NotYet
    /\ \A t \in Source \ {s} : step[t] \in {NotYet, "planned", "ended"}

Begin(s) ==
    /\ Turn(s) /\ step[s] = "planned"
    /\ \/ Halted /\ SetRow(s, "Skipped") /\ UNCHANGED todo
       \/ ~Halted /\ plan[s].error /\ SetRow(s, "failed") /\ UNCHANGED todo
       \/ /\ ~Halted /\ ~plan[s].error
          /\ step' = [step EXCEPT ![s] = "profile"]
          /\ todo' = [todo EXCEPT ![s] = [attach |-> plan[s].attach, detach |-> plan[s].detach]]
          /\ UNCHANGED row
    /\ UNCHANGED <<input, server, phase, reads, fresh, parts, disturbed>>

Does(s, part) == Turn(s) /\ step[s] = part
Advance(s) == step' = [step EXCEPT ![s] = After(step[s], plan[s])] /\ UNCHANGED row
Done(s, part) == parts' = [parts EXCEPT ![s] = @ \cup {part}]

\* A part that failed ends the document; the parts before it stay in the row.
\* The answer of the request of a part: that it was served, with or without an answer, or
\* that it was not.
Answered(s, part) == Advance(s) /\ Done(s, part)
Lost(s) == SetRow(s, "failed") /\ UNCHANGED <<parts, fresh>>
Outcome(s, part) == (Answered(s, part) /\ UNCHANGED fresh) \/ Lost(s)
Refused(s) == Lost(s) /\ UNCHANGED server

WriteProfile(s) ==
    LET p == docs[s].spec
        free == IF plan[s].spec = "create" THEN profile[p] = Absent ELSE profile[p] # Absent
    IN /\ Does(s, "profile") /\ plan[s].spec \in {"create", "update"}
       /\ \/ /\ free /\ profile' = [profile EXCEPT ![p] = docs[s].setting]
             /\ \/ Answered(s, "profile") /\ fresh' = fresh \cup {p}
                \/ Lost(s)
             /\ UNCHANGED <<source, included>>
          \/ Refused(s)
       /\ UNCHANGED <<input, phase, reads, todo, disturbed>>

\* The upload of a new source attaches it to its profiles; that of a source which exists
\* names none, and the server takes no source without a profile.
Upload(s) ==
    LET names == IF plan[s].exists THEN {} ELSE docs[s].profiles
        flag == IF source[s] = Absent THEN TRUE ELSE source[s].enabled
    IN /\ (Does(s, "replace") /\ ~plan[s].same) \/ Does(s, "create")
       /\ \/ /\ source[s] # Absent \/ names # {}
             /\ \A p \in names : profile[p] # Absent
             /\ source' = [source EXCEPT ![s] = [tree |-> "want", enabled |-> flag]]
             /\ included' = included \cup ({s} \X names)
             /\ Outcome(s, "tree")
             /\ UNCHANGED profile
          \/ Refused(s)
       /\ UNCHANGED <<input, phase, reads, todo, disturbed>>

\* The part is listed when its last profile is done.
OneDone(s, part, remaining) ==
    /\ IF remaining = {} THEN Done(s, part) ELSE UNCHANGED parts
    /\ UNCHANGED <<step, row, fresh>>

Attach(s) ==
    /\ Does(s, "attach")
    /\ \E p \in todo[s].attach :
          /\ todo' = [todo EXCEPT ![s].attach = @ \ {p}]
          /\ \/ /\ p \in fresh /\ source[s] # Absent /\ profile[p] # Absent
                /\ included' = included \cup {<<s, p>>}
                /\ OneDone(s, "attach", todo'[s].attach) \/ Lost(s)
                /\ UNCHANGED <<source, profile>>
             \/ Refused(s)
    /\ UNCHANGED <<input, phase, reads, disturbed>>

Detach(s) ==
    /\ Does(s, "detach")
    /\ \E p \in todo[s].detach :
          /\ todo' = [todo EXCEPT ![s].detach = @ \ {p}]
          /\ \/ /\ profile[p] # Absent
                /\ included' = included \ {<<s, p>>}
                /\ OneDone(s, "detach", todo'[s].detach) \/ Lost(s)
                /\ UNCHANGED <<source, profile>>
             \/ Refused(s)
    /\ UNCHANGED <<input, phase, reads, disturbed>>

\* A new source is looked up by its name first: it may have gone again.
SwitchSource(s) ==
    /\ Does(s, "switch") /\ plan[s].switch
    /\ \/ /\ source[s] # Absent
          /\ source' = [source EXCEPT ![s].enabled = docs[s].enabled]
          /\ Outcome(s, "switch")
          /\ UNCHANGED <<profile, included>>
       \/ Refused(s)
    /\ UNCHANGED <<input, phase, reads, todo, disturbed>>

\* A part that has nothing (left) to do.
Pass(s) ==
    /\ \/ Does(s, "profile") /\ plan[s].spec \in {"none", "in sync"}
       \/ Does(s, "replace") /\ plan[s].same
       \/ Does(s, "attach") /\ todo[s].attach = {}
       \/ Does(s, "detach") /\ todo[s].detach = {}
       \/ Does(s, "switch") /\ ~plan[s].switch
    /\ Advance(s)
    /\ UNCHANGED <<input, server, phase, reads, fresh, todo, parts, disturbed>>

Report(s) ==
    /\ Does(s, "report") /\ SetRow(s, Success(plan[s]))
    /\ UNCHANGED <<input, server, phase, reads, fresh, todo, parts, disturbed>>

Finish ==
    /\ phase = "execute" /\ \A s \in Described : row[s] # NotYet
    /\ phase' = "done"
    /\ UNCHANGED <<input, server, reads, work, row, disturbed>>

Next ==
    \/ OtherOperator
    \/ Preflight \/ ListProfiles \/ PlanFails \/ StartExecute \/ Finish
    \/ \E s \in Source :
          \/ PlanOne(s) \/ Begin(s) \/ Pass(s) \/ Report(s)
          \/ WriteProfile(s) \/ Upload(s) \/ Attach(s) \/ Detach(s) \/ SwitchSource(s)

Spec == Init /\ [][Next]_vars

-----------------------------------------------------------------------------
\* Type invariant of an apply of data collection sources.
TypeOK ==
    /\ docs \in UNION {[D -> Document] : D \in SUBSET Source} /\ keepGoing \in BOOLEAN
    /\ \A s \in Source : source[s] \in {Absent} \cup SourceType
    /\ \A p \in Profile : profile[p] \in {Absent} \cup Setting
    /\ included \subseteq Source \X Profile /\ listed \subseteq Source
    /\ phase \in {"preflight", "profiles", "plan", "execute", "done", "refused"}
    /\ \A s \in Source :
          /\ step[s] \in {NotYet, "planned", "profile", "create", "replace", "attach",
                          "detach", "switch", "report", "ended"}
          /\ parts[s] \subseteq {"profile", "tree", "attach", "detach", "switch"}
          /\ row[s] \in {NotYet, "Created", "Updated", "Unchanged", "failed", "Skipped"}
    /\ fresh \subseteq Profile /\ disturbed \subseteq Source \cup Profile

Succeeded(s) == row[s] \in {"Created", "Updated", "Unchanged"}
Touched(s) == s \in disturbed \/ \E p \in Profile : p \in disturbed

\* No other document of the apply gives the profile other settings.
Agreed(s) ==
    \A t \in Described : docs[t].spec = docs[s].spec => docs[t].setting = docs[s].setting

\* Whatever state an earlier apply was left in by a failure, a document that is reported as
\* applied is applied in all its parts: tree, flag, exactly its profiles, inline profile.
RowsAreTrue ==
    \A s \in Described : Succeeded(s) /\ ~Touched(s) =>
        /\ source[s] = [tree |-> "want", enabled |-> docs[s].enabled]
        /\ ProfilesOf(s, included) = docs[s].profiles
        /\ docs[s].spec # Absent /\ Agreed(s) => profile[docs[s].spec] = docs[s].setting

\* The parts that a row names were done, also when a later part failed.
PartsAreTrue ==
    \A s \in Described : ~Touched(s) =>
        /\ "tree" \in parts[s] => source[s] # Absent /\ source[s].tree = "want"
        /\ "attach" \in parts[s] => docs[s].profiles \subseteq ProfilesOf(s, included)
        /\ "detach" \in parts[s] => ProfilesOf(s, included) \subseteq docs[s].profiles
        /\ "switch" \in parts[s] => source[s].enabled = docs[s].enabled

\* A source that is moved from one profile to another is never without a profile in
\* between: collection does not stop while it is moved, also when a request fails.
NeverOrphaned ==
    \A s \in Described :
        docs[s].profiles # {} /\ ~Touched(s) /\ source[s] # Absent =>
            ProfilesOf(s, included) # {}

\* The state is well typed, and rows and the parts that they name are true.
DataCollectionInv == TypeOK /\ RowsAreTrue /\ PartsAreTrue
=============================================================================
