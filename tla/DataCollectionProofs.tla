------------------------ MODULE DataCollectionProofs ------------------------
(***************************************************************************)
(* Applies of data collection sources, for any sources, profiles,          *)
(* documents and number of acts of others: a row is true in all its parts, *)
(* the parts it names were done, and a source that moves is never without  *)
(* a profile.  The argument follows one source through its steps: what is  *)
(* left to attach and detach is the difference between what the document   *)
(* lists and what is, and each step leaves its part as declared.           *)
(***************************************************************************)
EXTENDS DataCollectionApply, TLAPS

PlanType ==
    [exists : BOOLEAN, same : BOOLEAN, spec : {"none", "create", "in sync", "update"},
     attach : SUBSET Profile, detach : SUBSET Profile, switch : BOOLEAN, error : BOOLEAN,
     made : BOOLEAN]
TodoType == [attach : SUBSET Profile, detach : SUBSET Profile]
Step == {NotYet, "planned", "profile", "create", "replace", "attach", "detach", "switch",
         "report", "ended"}
Parts == {"profile", "tree", "attach", "detach", "switch"}
Result == {NotYet, "Created", "Updated", "Unchanged", "failed", "Skipped"}

\* The types in full, as functions and records.
Typed ==
    /\ TypeOK
    /\ source \in [Source -> {Absent} \cup SourceType]
    /\ profile \in [Profile -> {Absent} \cup Setting]
    /\ seen \in [profile : [Profile -> {Absent} \cup Setting], included : SUBSET (Source \X Profile)]
    /\ plan \in [Source -> PlanType] /\ todo \in [Source -> TodoType]
    /\ step \in [Source -> Step]
    /\ parts \in [Source -> SUBSET Parts]
    /\ row \in [Source -> Result]

\* The server associates what is there.
Placed == \A s \in Source : \A p \in Profile :
              <<s, p>> \in included => source[s] # Absent /\ profile[p] # Absent

\* What planning has read is so, but for what others touched since.
ReadsHold ==
    /\ phase \in {"profiles", "plan"} =>
          \A s \in Source : /\ s \notin listed => source[s] = Absent
                            /\ s \in listed \ disturbed => source[s] # Absent
    /\ phase = "plan" /\ disturbed \cap Profile = {} =>
          /\ seen.profile = profile
          /\ \A s \in Source \ disturbed :
                ProfilesOf(s, seen.included) = ProfilesOf(s, included)

\* A row ends the steps of a source, and its path is that of its plan.
StepOrder(s) ==
    /\ row[s] # NotYet <=> step[s] = "ended"
    /\ step[s] \notin {NotYet, "planned"} => phase \in {"execute", "done"}
    /\ phase \in {"preflight", "profiles"} => step[s] = NotYet
    /\ step[s] = "create" => ~plan[s].exists
    /\ step[s] \in {"replace", "attach", "detach"} => plan[s].exists

\* A plan attaches what is declared, detaches what is not, and creates what is not there.
PlanFits(s) ==
    /\ step[s] # NotYet => (plan[s].spec = "none" <=> docs[s].spec = Absent)
    /\ plan[s].attach \subseteq docs[s].profiles /\ plan[s].detach \cap docs[s].profiles = {}
    /\ todo[s].attach \subseteq docs[s].profiles /\ todo[s].detach \cap docs[s].profiles = {}
    /\ step[s] \in {"planned", "profile", "create"} /\ ~plan[s].exists =>
          source[s] = Absent /\ plan[s].switch = ~docs[s].enabled

\* What is left to do is the difference between what is declared and what is.
LeftIsDifference(s) ==
    LET now == ProfilesOf(s, included)
    IN  /\ step[s] = "planned" /\ plan[s].exists =>
              plan[s].attach = docs[s].profiles \ now /\ plan[s].detach = now \ docs[s].profiles
        /\ step[s] \in {"profile", "replace", "attach"} /\ plan[s].exists =>
              todo[s].attach = docs[s].profiles \ now /\ todo[s].detach = now \ docs[s].profiles
        /\ step[s] = "detach" =>
              docs[s].profiles \subseteq now /\ todo[s].detach = now \ docs[s].profiles
        /\ step[s] \in {"switch", "report"} \/ Succeeded(s) => now = docs[s].profiles

Unwritten(s) == step[s] \in {"planned", "profile", "replace"} /\ plan[s].exists

\* The tree and the flag, before and after they are written.
SourceFollows(s) ==
    /\ Unwritten(s) => source[s] # Absent /\ (plan[s].same => source[s].tree = "want")
    /\ step[s] \in {"attach", "detach", "switch", "report"} \/ Succeeded(s) =>
          source[s] # Absent /\ source[s].tree = "want"
    /\ Unwritten(s) \/ step[s] \in {"attach", "detach", "switch"} =>
          plan[s].switch = (docs[s].enabled # source[s].enabled)
    /\ step[s] = "report" \/ Succeeded(s) => source[s].enabled = docs[s].enabled

\* The inline profile has the settings it was given, unless documents disagree.
InlineHolds(s) ==
    /\ docs[s].spec # Absent /\ Agreed(s)
    /\ \/ plan[s].spec = "in sync"
       \/ step[s] \notin {NotYet, "planned", "profile", "ended"} \/ Succeeded(s)
    => profile[docs[s].spec] = docs[s].setting

\* The parts that a row will name.
PartsHold(s) ==
    /\ "tree" \in parts[s] => source[s] # Absent /\ source[s].tree = "want"
    /\ "attach" \in parts[s] => docs[s].profiles \subseteq ProfilesOf(s, included)
    /\ "detach" \in parts[s] => ProfilesOf(s, included) \subseteq docs[s].profiles
    /\ "switch" \in parts[s] => source[s] # Absent /\ source[s].enabled = docs[s].enabled

Held(s) == docs[s].profiles # {} /\ source[s] # Absent => ProfilesOf(s, included) # {}

\* What is known of a source that nobody else touched.
Followed(s) ==
    ~Touched(s) =>
        LeftIsDifference(s) /\ SourceFollows(s) /\ InlineHolds(s) /\ PartsHold(s) /\ Held(s)

Good(s) == StepOrder(s) /\ PlanFits(s) /\ Followed(s)

IInv ==
    /\ Typed /\ Placed /\ ReadsHold
    /\ \A s \in Described : Good(s)

-----------------------------------------------------------------------------
(* What documents are, the initial states, and what a step leaves alone.    *)

LEMMA DocIsRecord ==
    ASSUME TypeOK, NEW s \in Described
    PROVE  s \in Source /\ docs[s] \in DocumentType
<1>1. PICK D \in SUBSET Source : docs \in [D -> Document]
  BY DEF TypeOK
<1> QED BY <1>1, DataCollectionAssumption DEF Described, DataCollectionAssumption

LEMMA AbsentApart ==
    /\ Absent \notin Profile /\ Absent \notin Setting
    /\ \A x \in SourceType : x # Absent
BY DataCollectionAssumption DEF DataCollectionAssumption

LEMMA InitIInv == Init => IInv
<1> SUFFICES ASSUME Init PROVE IInv
  OBVIOUS
<1> USE DEF Init
<1>1. source \in [Source -> {Absent} \cup SourceType]
  <2>1. ASSUME NEW t \in {"want", "other"} PROVE [tree |-> t, enabled |-> t = "want"] \in SourceType
    <3>1. (t = "want") \in BOOLEAN
      OBVIOUS
    <3> QED BY <3>1 DEF SourceType
  <2>2. {[tree |-> t, enabled |-> t = "want"] : t \in {"want", "other"}} \subseteq SourceType
    BY <2>1
  <2> QED BY <2>2
<1>2. profile \in [Profile -> {Absent} \cup Setting]
  BY DEF Setting
<1>3. docs \in UNION {[D -> Document] : D \in SUBSET Source}
  OBVIOUS
<1>4. included \subseteq Source \X Profile
  OBVIOUS
<1>5. TypeOK
  BY <1>1, <1>2, <1>3, <1>4 DEF TypeOK, NotYet
<1>6. Typed
  <2>1. seen \in [profile : [Profile -> {Absent} \cup Setting], included : SUBSET (Source \X Profile)]
    BY DEF Nothing
  <2>2. plan \in [Source -> PlanType] /\ todo \in [Source -> TodoType]
    BY DEF NoPlan, PlanType, NoTodo, TodoType
  <2>3. step \in [Source -> Step] /\ parts \in [Source -> SUBSET Parts]
    BY DEF Step
  <2>4. row \in [Source -> Result]
    BY DEF Result
  <2> QED BY <1>1, <1>2, <1>5, <2>1, <2>2, <2>3, <2>4 DEF Typed
<1>7. Placed
  BY DEF Placed
<1>8. ReadsHold
  BY DEF ReadsHold
<1>9. ASSUME NEW s \in Described PROVE Good(s)
  <2>1. /\ s \in Source /\ step[s] = NotYet /\ row[s] = NotYet /\ plan[s] = NoPlan
        /\ todo[s] = NoTodo /\ parts[s] = {}
    BY <1>5, DocIsRecord
  <2>2. StepOrder(s)
    BY <2>1 DEF StepOrder, NotYet
  <2>3. PlanFits(s)
    BY <2>1 DEF PlanFits, NotYet, NoPlan, NoTodo
  <2>4. LeftIsDifference(s) /\ SourceFollows(s) /\ InlineHolds(s) /\ PartsHold(s)
    BY <2>1 DEF LeftIsDifference, SourceFollows, InlineHolds, PartsHold, NotYet, NoPlan,
       Succeeded, Unwritten
  <2>5. Held(s)
    BY <2>1 DEF Held
  <2> QED BY <2>2, <2>3, <2>4, <2>5 DEF Good, Followed
<1> QED BY <1>6, <1>7, <1>8, <1>9 DEF IInv

\* What is known of a source that a step leaves alone stays known.
LEMMA Frame ==
    ASSUME NEW s \in Described, Good(s), docs' = docs,
           plan'[s] = plan[s], step'[s] = step[s], todo'[s] = todo[s],
           parts'[s] = parts[s], row'[s] = row[s],
           phase \in {"execute", "done"} => phase' \in {"execute", "done"},
           phase' \in {"preflight", "profiles"} => phase \in {"preflight", "profiles"},
           source[s] = Absent => source'[s] = Absent,
           ~Touched(s)' =>
               /\ ~Touched(s) /\ source'[s] = source[s]
               /\ ProfilesOf(s, included)' = ProfilesOf(s, included)
               /\ docs[s].spec # Absent /\ Agreed(s) =>
                      profile'[docs[s].spec] \in {profile[docs[s].spec], docs[s].setting}
    PROVE  Good(s)'
<1> USE DEF Good
<1>1. Succeeded(s)' = Succeeded(s) /\ Agreed(s)' = Agreed(s) /\ Unwritten(s)' = Unwritten(s)
  BY DEF Succeeded, Agreed, Described, Unwritten
<1>2. StepOrder(s)' /\ PlanFits(s)'
  BY DEF StepOrder, PlanFits
<1>3. ~Touched(s)' => LeftIsDifference(s)'
  BY <1>1 DEF Followed, LeftIsDifference
<1>4. ~Touched(s)' => SourceFollows(s)'
  BY <1>1 DEF Followed, SourceFollows
<1>5. ~Touched(s)' => InlineHolds(s)'
  BY <1>1 DEF Followed, InlineHolds
<1>6. ~Touched(s)' => PartsHold(s)' /\ Held(s)'
  BY DEF Followed, PartsHold, Held
<1> QED BY <1>2, <1>3, <1>4, <1>5, <1>6 DEF Followed

-----------------------------------------------------------------------------
(* Others, and planning.                                                    *)

-----------------------------------------------------------------------------
(* Others, and planning.                                                    *)

\* What another operator's act may change, and what it records as touched.
LEMMA OthersChange ==
    ASSUME IInv, OtherOperator
    PROVE  /\ source' \in [Source -> {Absent} \cup SourceType]
           /\ profile' \in [Profile -> {Absent} \cup Setting]
           /\ included' \subseteq included /\ Placed'
           /\ disturbed \subseteq disturbed' /\ disturbed' \subseteq Source \cup Profile
           /\ \A s \in Source : source[s] = Absent => source'[s] = Absent
           /\ \A s \in Source \ disturbed' : source'[s] = source[s]
           /\ disturbed' \cap Profile = {} =>
                 /\ profile' = profile
                 /\ \A s \in Source \ disturbed' : \A p \in Profile :
                       <<s, p>> \in included' <=> <<s, p>> \in included
<1> DEFINE Goal ==
           /\ source' \in [Source -> {Absent} \cup SourceType]
           /\ profile' \in [Profile -> {Absent} \cup Setting]
           /\ included' \subseteq included /\ Placed'
           /\ disturbed \subseteq disturbed' /\ disturbed' \subseteq Source \cup Profile
           /\ \A s \in Source : source[s] = Absent => source'[s] = Absent
           /\ \A s \in Source \ disturbed' : source'[s] = source[s]
           /\ disturbed' \cap Profile = {} =>
                 /\ profile' = profile
                 /\ \A s \in Source \ disturbed' : \A p \in Profile :
                       <<s, p>> \in included' <=> <<s, p>> \in included
<1> SUFFICES Goal
  OBVIOUS
<1>1. /\ source \in [Source -> {Absent} \cup SourceType]
      /\ profile \in [Profile -> {Absent} \cup Setting]
      /\ included \subseteq Source \X Profile /\ disturbed \subseteq Source \cup Profile
      /\ Placed
  BY DEF IInv, Typed, TypeOK
<1>2. ASSUME NEW s \in Source, source[s] # Absent, disturbed' = disturbed \cup {s},
             profile' = profile, included' = included,
             source' = [source EXCEPT ![s].tree = "other"]
      PROVE  Goal
  <2>1. source[s] \in SourceType
    BY <1>1, <1>2
  <2>2. [source[s] EXCEPT !.tree = "other"] \in SourceType
    BY <2>1 DEF SourceType
  <2>3. source' = [source EXCEPT ![s] = [source[s] EXCEPT !.tree = "other"]]
    BY <1>2
  <2>4. /\ source' \in [Source -> {Absent} \cup SourceType]
        /\ \A t \in Source : t # s => source'[t] = source[t]
        /\ source'[s] # Absent
    <3> HIDE <1>2
    <3> QED BY <1>1, <2>2, <2>3, AbsentApart
  <2>5. Placed'
    BY <1>1, <1>2, <2>4 DEF Placed
  <2> QED BY <1>1, <1>2, <2>4, <2>5
<1>3. ASSUME NEW s \in Source, source[s] # Absent, disturbed' = disturbed \cup {s},
             profile' = profile, source' = [source EXCEPT ![s] = Absent],
             included' = {i \in included : i[1] # s}
      PROVE  Goal
  <2>1. /\ source' \in [Source -> {Absent} \cup SourceType]
        /\ \A t \in Source : t # s => source'[t] = source[t]
        /\ source'[s] = Absent
    BY <1>1, <1>3
  <2>2. \A t \in Source : \A p \in Profile : <<t, p>> \in included' <=> t # s /\ <<t, p>> \in included
    BY <1>3
  <2>3. Placed'
    BY <1>1, <1>3, <2>1, <2>2 DEF Placed
  <2> QED BY <1>1, <1>3, <2>1, <2>2, <2>3
<1>4. ASSUME NEW q \in Profile, profile[q] # Absent, disturbed' = disturbed \cup {q},
             source' = source, included' = included, profile' = [profile EXCEPT ![q] = "other"]
      PROVE  Goal
  <2>1. /\ profile' \in [Profile -> {Absent} \cup Setting]
        /\ \A p \in Profile : p # q => profile'[p] = profile[p]
        /\ profile'[q] # Absent
    BY <1>1, <1>4, AbsentApart DEF Setting
  <2>2. Placed'
    BY <1>1, <1>4, <2>1 DEF Placed
  <2> QED BY <1>1, <1>4, <2>1, <2>2
<1>5. ASSUME NEW q \in Profile, profile[q] # Absent, disturbed' = disturbed \cup {q},
             source' = source, profile' = [profile EXCEPT ![q] = Absent],
             included' = {i \in included : i[2] # q}
      PROVE  Goal
  <2>1. /\ profile' \in [Profile -> {Absent} \cup Setting]
        /\ \A p \in Profile : p # q => profile'[p] = profile[p]
    BY <1>1, <1>5
  <2>2. \A t \in Source : \A p \in Profile : <<t, p>> \in included' <=> p # q /\ <<t, p>> \in included
    BY <1>5
  <2>3. Placed'
    BY <1>1, <1>5, <2>1, <2>2 DEF Placed
  <2> QED BY <1>1, <1>5, <2>1, <2>2, <2>3
<1> HIDE DEF Goal
<1>6. CASE \E s \in Source : source[s] # Absent /\ Disturbs({s}) /\ UNCHANGED profile /\
             \/ source' = [source EXCEPT ![s].tree = "other"] /\ UNCHANGED included
             \/ /\ source' = [source EXCEPT ![s] = Absent]
                /\ included' = {i \in included : i[1] # s}
  BY <1>2, <1>3, <1>6 DEF Disturbs
<1>7. CASE \E p \in Profile : profile[p] # Absent /\ Disturbs({p}) /\ UNCHANGED source /\
             \/ profile' = [profile EXCEPT ![p] = "other"] /\ UNCHANGED included
             \/ /\ profile' = [profile EXCEPT ![p] = Absent]
                /\ included' = {i \in included : i[2] # p}
  BY <1>4, <1>5, <1>7 DEF Disturbs
<1> QED BY <1>6, <1>7 DEF OtherOperator

LEMMA OtherOperatorIInv == ASSUME IInv, OtherOperator PROVE IInv'
<1>1. UNCHANGED <<docs, keepGoing, phase, listed, seen, plan, fresh, step, todo, parts, row>>
  BY DEF OtherOperator, input, reads, work
<1>2. Typed'
  BY <1>1, OthersChange DEF IInv, Typed, TypeOK
<1>3. ReadsHold'
  <2>1. phase \in {"profiles", "plan"} => \A s \in Source : s \notin listed => source'[s] = Absent
    BY OthersChange DEF IInv, ReadsHold
  <2>2. phase \in {"profiles", "plan"} => \A s \in Source : s \in listed \ disturbed' => source'[s] # Absent
    BY OthersChange DEF IInv, ReadsHold
  <2>3. phase = "plan" /\ disturbed' \cap Profile = {} =>
           /\ seen.profile = profile'
           /\ \A s \in Source \ disturbed' : ProfilesOf(s, seen.included) = ProfilesOf(s, included')
    BY OthersChange DEF IInv, ReadsHold, ProfilesOf
  <2> QED BY <1>1, <2>1, <2>2, <2>3 DEF ReadsHold
<1>4. ASSUME NEW s \in Described' PROVE Good(s)'
  <2>1. s \in Described /\ s \in Source /\ Good(s)
    BY <1>1, DocIsRecord DEF IInv, Described, Typed
  <2>2. ~Touched(s)' => ~Touched(s) /\ source'[s] = source[s] /\ profile' = profile
                        /\ ProfilesOf(s, included)' = ProfilesOf(s, included)
    BY <2>1, OthersChange DEF Touched, ProfilesOf
  <2> QED BY <1>1, <2>1, <2>2, OthersChange, Frame
<1> QED BY <1>2, <1>3, <1>4, OthersChange DEF IInv

\* A step that changes no source of its own leaves what is known of each.
LEMMA QuietStep ==
    ASSUME IInv, UNCHANGED <<docs, keepGoing, server, plan, step, todo, parts, row, disturbed>>,
           phase \in {"execute", "done"} => phase' \in {"execute", "done"},
           phase' \in {"preflight", "profiles"} => phase \in {"preflight", "profiles"},
           phase' \in {"preflight", "profiles", "plan", "execute", "done", "refused"},
           listed' \subseteq Source, fresh' \subseteq Profile,
           seen' \in [profile : [Profile -> {Absent} \cup Setting], included : SUBSET (Source \X Profile)],
           ReadsHold'
    PROVE  IInv'
<1>1. Typed'
  BY DEF IInv, Typed, TypeOK, server
<1>2. Placed'
  BY DEF IInv, Placed, server
<1>3. ASSUME NEW s \in Described' PROVE Good(s)'
  <2>1. s \in Described /\ Good(s)
    BY DEF IInv, Described
  <2>2. Touched(s)' = Touched(s) /\ source' = source /\ profile' = profile
        /\ ProfilesOf(s, included)' = ProfilesOf(s, included)
    BY DEF Touched, server, ProfilesOf
  <2> QED BY <2>1, <2>2, Frame
<1> QED BY <1>1, <1>2, <1>3 DEF IInv

LEMMA PlanningIInv ==
    ASSUME IInv, Preflight \/ ListProfiles \/ PlanFails \/ StartExecute \/ Finish
    PROVE  IInv'
<1> USE DEF input, reads, work
<1>1. /\ listed \subseteq Source /\ fresh \subseteq Profile /\ included \subseteq Source \X Profile
      /\ profile \in [Profile -> {Absent} \cup Setting]
      /\ seen \in [profile : [Profile -> {Absent} \cup Setting], included : SUBSET (Source \X Profile)]
  BY DEF IInv, Typed, TypeOK
<1>2. CASE Preflight
  <2>1. ReadsHold'
    BY <1>2 DEF Preflight, ReadsHold, server
  <2> QED BY <1>1, <1>2, <2>1, QuietStep DEF Preflight
<1>3. CASE ListProfiles
  <2>1. seen'.profile = profile' /\ seen'.included = included'
    BY <1>3 DEF ListProfiles, server
  <2>2. ReadsHold'
    BY <1>3, <2>1 DEF ListProfiles, ReadsHold, IInv, server
  <2>3. seen' \in [profile : [Profile -> {Absent} \cup Setting], included : SUBSET (Source \X Profile)]
    BY <1>1, <1>3 DEF ListProfiles
  <2> QED BY <1>1, <1>3, <2>2, <2>3, QuietStep DEF ListProfiles
<1>4. CASE PlanFails
  <2>1. ReadsHold'
    BY <1>4 DEF PlanFails, ReadsHold
  <2> QED BY <1>1, <1>4, <2>1, QuietStep DEF PlanFails
<1>5. CASE StartExecute
  <2>1. ReadsHold'
    BY <1>5 DEF StartExecute, ReadsHold
  <2>2. seen' \in [profile : [Profile -> {Absent} \cup Setting], included : SUBSET (Source \X Profile)]
    BY <1>5 DEF StartExecute, Nothing
  <2> QED BY <1>1, <1>5, <2>1, <2>2, QuietStep DEF StartExecute
<1>6. CASE Finish
  <2>1. ReadsHold'
    BY <1>6 DEF Finish, ReadsHold
  <2> QED BY <1>1, <1>6, <2>1, QuietStep DEF Finish
<1> QED BY <1>2, <1>3, <1>4, <1>5, <1>6

\* What a plan says, field by field.
LEMMA PlanOfFields ==
    ASSUME IInv, NEW s \in Described
    PROVE  /\ PlanOf(s) \in PlanType
           /\ PlanOf(s).exists <=> s \in listed
           /\ s \in listed => (PlanOf(s).same <=> source[s].tree = "want")
           /\ PlanOf(s).spec = SpecPlan(docs[s], seen.profile)
           /\ PlanOf(s).attach = docs[s].profiles \ ProfilesOf(s, seen.included)
           /\ PlanOf(s).detach = ProfilesOf(s, seen.included) \ docs[s].profiles
           /\ PlanOf(s).switch <=> Switch(docs[s], IF s \in listed THEN source[s] ELSE Absent)
<1> DEFINE d == docs[s]
           exists == s \in listed
           live == IF exists THEN source[s] ELSE Absent
           now == ProfilesOf(s, seen.included)
           p == [exists |-> exists,
                 same |-> IF exists THEN live.tree = "want" ELSE FALSE,
                 spec |-> SpecPlan(d, seen.profile),
                 attach |-> d.profiles \ now, detach |-> Detached(d, now),
                 switch |-> Switch(d, live), made |-> FALSE,
                 error |-> PlanError(d, exists, seen.profile)]
           made == \/ ~p.exists \/ ~p.same \/ p.attach \cup p.detach # {}
                   \/ p.switch \/ p.spec \in {"create", "update"}
           full == [exists |-> exists,
                    same |-> IF exists THEN live.tree = "want" ELSE FALSE,
                    spec |-> SpecPlan(d, seen.profile),
                    attach |-> d.profiles \ now, detach |-> Detached(d, now),
                    switch |-> Switch(d, live), made |-> made,
                    error |-> PlanError(d, exists, seen.profile)]
<1>1. d \in DocumentType /\ d.profiles \subseteq Profile
  BY DocIsRecord DEF IInv, Typed, DocumentType
<1>2. PlanOf(s) = [p EXCEPT !.made = made]
  BY DEF PlanOf
<1>3. PlanOf(s) = full
  <2> HIDE DEF d, exists, live, now, made
  <2> QED BY <1>2
<1>4. SpecPlan(d, seen.profile) \in {"none", "create", "in sync", "update"}
  BY DEF SpecPlan
<1>5. now \subseteq Profile
  BY DEF ProfilesOf
<1>6. /\ exists \in BOOLEAN /\ (IF exists THEN live.tree = "want" ELSE FALSE) \in BOOLEAN
      /\ Switch(d, live) \in BOOLEAN /\ made \in BOOLEAN
      /\ PlanError(d, exists, seen.profile) \in BOOLEAN
  <2>1. exists \in BOOLEAN
    OBVIOUS
  <2>2. (IF exists THEN live.tree = "want" ELSE FALSE) \in BOOLEAN
    <3> HIDE DEF exists, live
    <3> QED OBVIOUS
  <2>3. Switch(d, live) \in BOOLEAN
    <3> HIDE DEF d, live
    <3> QED BY DEF Switch
  <2>4. made \in BOOLEAN
    <3> HIDE DEF p
    <3> QED OBVIOUS
  <2>5. PlanError(d, exists, seen.profile) \in BOOLEAN
    <3> HIDE DEF d, exists
    <3> QED BY DEF PlanError
  <2> QED BY <2>1, <2>2, <2>3, <2>4, <2>5
<1>7. full \in PlanType
  <2> HIDE DEF d, exists, live, now, made
  <2>1. d.profiles \ now \in SUBSET Profile /\ Detached(d, now) \in SUBSET Profile
    BY <1>1, <1>5 DEF Detached
  <2> DEFINE same == IF exists THEN live.tree = "want" ELSE FALSE
             spec == SpecPlan(d, seen.profile)
             attach == d.profiles \ now
             detach == Detached(d, now)
             switch == Switch(d, live)
             error == PlanError(d, exists, seen.profile)
  <2>2. /\ same \in BOOLEAN /\ switch \in BOOLEAN /\ error \in BOOLEAN /\ exists \in BOOLEAN
        /\ spec \in {"none", "create", "in sync", "update"} /\ made \in BOOLEAN
        /\ attach \in SUBSET Profile /\ detach \in SUBSET Profile
    BY <1>4, <1>6, <2>1
  <2>3. full = [exists |-> exists, same |-> same, spec |-> spec, attach |-> attach,
                detach |-> detach, switch |-> switch, made |-> made, error |-> error]
    OBVIOUS
  <2> HIDE DEF same, spec, attach, detach, switch, error, full
  <2> QED BY <2>2, <2>3 DEF PlanType
<1>8. /\ full.exists = exists /\ full.same = (IF exists THEN live.tree = "want" ELSE FALSE)
      /\ full.spec = SpecPlan(d, seen.profile) /\ full.attach = d.profiles \ now
      /\ full.detach = Detached(d, now) /\ full.switch = Switch(d, live)
  <2> HIDE DEF d, exists, live, now, made
  <2> QED OBVIOUS
<1>9. s \in listed => (full.same <=> source[s].tree = "want")
  <2> HIDE DEF full
  <2> QED BY <1>8
<1>10. full.detach = ProfilesOf(s, seen.included) \ docs[s].profiles
  <2> HIDE DEF full
  <2> QED BY <1>8 DEF Detached
<1>11. (full.exists <=> s \in listed) /\ (full.switch <=> Switch(docs[s], IF s \in listed THEN source[s] ELSE Absent))
  <2> HIDE DEF full
  <2> QED BY <1>8
<1> HIDE DEF full
<1> QED BY <1>3, <1>7, <1>8, <1>9, <1>10, <1>11

LEMMA PlanOneIInv == ASSUME IInv, NEW s \in Source, PlanOne(s) PROVE IInv'
<1>1. /\ phase = "plan" /\ s \in Described /\ step[s] = NotYet
      /\ plan' = [plan EXCEPT ![s] = PlanOf(s)] /\ step' = [step EXCEPT ![s] = "planned"]
      /\ UNCHANGED <<docs, keepGoing, source, profile, included, phase, listed, seen, fresh, todo,
                     parts, row, disturbed>>
  BY DEF PlanOne, input, server
<1> DEFINE f == PlanOf(s)
<1>2. f \in PlanType
  BY <1>1, PlanOfFields
<1>3. /\ plan'[s] = f /\ step'[s] = "planned" /\ plan' \in [Source -> PlanType] /\ step' \in [Source -> Step]
      /\ \A t \in Source \ {s} : plan'[t] = plan[t] /\ step'[t] = step[t]
  <2>1. /\ plan \in [Source -> PlanType] /\ step \in [Source -> Step] /\ "planned" \in Step
    BY DEF IInv, Typed, Step
  <2>2. plan' = [plan EXCEPT ![s] = f]
    BY <1>1
  <2> HIDE DEF f
  <2> QED BY <1>1, <1>2, <2>1, <2>2
<1>4. Typed' /\ Placed' /\ ReadsHold'
  BY <1>1, <1>3 DEF IInv, Typed, TypeOK, Placed, ReadsHold, Step
<1>5. ASSUME NEW t \in Described, t # s PROVE Good(t)'
  <2>1. t \in Source /\ Good(t)
    BY DocIsRecord DEF IInv, Typed
  <2> QED BY <1>1, <1>3, <1>5, <2>1, Frame DEF Touched
<1>6. Good(s)'
  <2>1. Good(s) /\ row[s] = NotYet /\ docs[s] \in DocumentType /\ ReadsHold
    BY <1>1, DocIsRecord DEF IInv, Typed, Good, StepOrder, NotYet
  <2>2. StepOrder(s)'
    BY <1>1, <1>3, <2>1 DEF StepOrder, NotYet
  <2>3. docs[s].enabled \in BOOLEAN /\ (docs[s].spec # Absent => docs[s].spec \in Profile)
    BY <2>1 DEF DocumentType
  <2>4. s \notin listed => source[s] = Absent /\ f.switch = ~docs[s].enabled
    <3>1. ASSUME s \notin listed PROVE f.switch <=> docs[s].enabled # TRUE
      BY <1>1, <3>1, PlanOfFields DEF Switch
    <3>2. s \notin listed => source[s] = Absent
      BY <1>1, <2>1 DEF ReadsHold
    <3> QED BY <1>2, <2>3, <3>1, <3>2 DEF PlanType
  <2>5. f.spec = "none" <=> docs[s].spec = Absent
    BY <1>1, PlanOfFields DEF SpecPlan
  <2>6. PlanFits(s)'
    BY <1>1, <1>3, <2>1, <2>4, <2>5, PlanOfFields DEF PlanFits, Good
  <2>7. ASSUME ~Touched(s) PROVE (LeftIsDifference(s) /\ SourceFollows(s) /\ InlineHolds(s) /\ PartsHold(s) /\ Held(s))'
    <3>1. seen.profile = profile /\ ProfilesOf(s, seen.included) = ProfilesOf(s, included)
      BY <1>1, <2>1, <2>7 DEF ReadsHold, Touched
    <3>2. LeftIsDifference(s)'
      BY <1>1, <1>3, <2>1, <3>1, PlanOfFields DEF LeftIsDifference, Succeeded, NotYet
    <3>3. f.exists => source[s] # Absent /\ source[s] \in SourceType
      BY <1>1, <2>1, <2>7, PlanOfFields DEF ReadsHold, Touched, IInv, Typed
    <3>4. f.exists => f.switch = (docs[s].enabled # source[s].enabled)
      <4>1. f.exists => (f.switch <=> docs[s].enabled # source[s].enabled)
        BY <1>1, <3>3, PlanOfFields DEF Switch
      <4> QED BY <1>2, <4>1 DEF PlanType
    <3>5. f.exists => (f.same <=> source[s].tree = "want")
      BY <1>1, PlanOfFields
    <3>6. SourceFollows(s)'
      BY <1>1, <1>3, <2>1, <3>3, <3>4, <3>5 DEF SourceFollows, Succeeded, NotYet, Unwritten
    <3>7. f.spec = "in sync" => profile[docs[s].spec] = docs[s].setting
      BY <1>1, <3>1, PlanOfFields DEF SpecPlan
    <3>8. InlineHolds(s)'
      BY <1>1, <1>3, <2>1, <3>7 DEF InlineHolds, Agreed, Described, Succeeded, NotYet
    <3>9. PartsHold(s)' /\ Held(s)'
      BY <1>1, <2>1, <2>7 DEF PartsHold, Held, Good, Followed
    <3> QED BY <3>2, <3>6, <3>8, <3>9
  <2> QED BY <1>1, <2>2, <2>6, <2>7 DEF Good, Followed, Touched
<1> QED BY <1>1, <1>4, <1>5, <1>6 DEF IInv, Described

-----------------------------------------------------------------------------
(* Executing: a step is one source's; Frame keeps the others.               *)

\* A step of one source keeps the invariant if it keeps what is known of that source.
LEMMA SourceStep ==
    ASSUME IInv, NEW s \in Described, phase = "execute",
           UNCHANGED <<docs, keepGoing, phase, listed, seen, plan, disturbed>>,
           source' \in [Source -> {Absent} \cup SourceType],
           profile' \in [Profile -> {Absent} \cup Setting],
           included' \subseteq Source \X Profile, Placed', fresh' \subseteq Profile,
           todo' \in [Source -> TodoType], step' \in [Source -> Step],
           parts' \in [Source -> SUBSET Parts],
           row' \in [Source -> Result],
           \A t \in Source \ {s} :
               /\ todo'[t] = todo[t] /\ step'[t] = step[t] /\ parts'[t] = parts[t]
               /\ row'[t] = row[t] /\ source'[t] = source[t]
               /\ ProfilesOf(t, included)' = ProfilesOf(t, included),
           \A p \in Profile :
               profile'[p] # profile[p] => docs[s].spec = p /\ profile'[p] = docs[s].setting,
           Good(s)'
    PROVE  IInv'
<1>1. Typed' /\ ReadsHold'
  BY DEF IInv, Typed, TypeOK, ReadsHold, Step, Parts, Result
<1>2. ASSUME NEW t \in Described, t # s PROVE Good(t)'
  <2>1. t \in Source /\ Good(t) /\ docs[t] \in DocumentType
    BY DocIsRecord DEF IInv, Typed
  <2>2. docs[t].spec # Absent /\ Agreed(t) =>
            profile'[docs[t].spec] \in {profile[docs[t].spec], docs[t].setting}
    <3>1. docs[t].spec # Absent => docs[t].spec \in Profile
      BY <2>1 DEF DocumentType
    <3> QED BY <3>1 DEF Agreed
  <2> QED BY <1>2, <2>1, <2>2, Frame DEF Touched
<1> QED BY <1>1, <1>2 DEF IInv, Described

\* The order of the parts.
LEMMA AfterOf ==
    ASSUME NEW p
    PROVE  /\ After("profile", p) = (IF p.exists THEN "replace" ELSE "create")
           /\ After("replace", p) = "attach" /\ After("attach", p) = "detach"
           /\ After("create", p) = "switch" /\ After("detach", p) = "switch"
           /\ After("switch", p) = "report"
BY DEF After

\* What is known of a source whose turn it is.
LEMMA DoesFacts ==
    ASSUME IInv, NEW s \in Source, NEW part, Does(s, part)
    PROVE  /\ s \in Described /\ phase = "execute" /\ row[s] = NotYet /\ step[s] = part /\ Good(s)
           /\ docs[s].enabled \in BOOLEAN /\ docs[s].profiles \subseteq Profile
           /\ docs[s].spec \in {Absent} \cup Profile /\ docs[s].setting \in Setting
           /\ plan[s] \in PlanType /\ todo[s] \in TodoType
           /\ source[s] \in {Absent} \cup SourceType
<1>1. s \in Described /\ phase = "execute" /\ row[s] = NotYet /\ step[s] = part
  BY DEF Does, Turn
<1>2. docs[s] \in DocumentType
  BY <1>1, DocIsRecord DEF IInv, Typed
<1> QED BY <1>1, <1>2 DEF IInv, Typed, DocumentType

LEMMA AnsweredShape ==
    ASSUME IInv, NEW s \in Source, NEW part \in Parts, Answered(s, part),
           After(step[s], plan[s]) \in Step
    PROVE  /\ step' \in [Source -> Step] /\ parts' \in [Source -> SUBSET Parts] /\ row' = row
           /\ step'[s] = After(step[s], plan[s]) /\ parts'[s] = parts[s] \cup {part}
           /\ \A t \in Source \ {s} : step'[t] = step[t] /\ parts'[t] = parts[t]
<1>1. /\ step' = [step EXCEPT ![s] = After(step[s], plan[s])]
      /\ parts' = [parts EXCEPT ![s] = parts[s] \cup {part}] /\ row' = row
  BY DEF Answered, Advance, Done
<1>2. step \in [Source -> Step] /\ parts \in [Source -> SUBSET Parts]
  BY DEF IInv, Typed, Parts
<1>3. parts[s] \cup {part} \in SUBSET Parts
  BY <1>2
<1> QED BY <1>1, <1>2, <1>3

LEMMA LostShape ==
    ASSUME IInv, NEW s \in Source, Lost(s)
    PROVE  /\ step' \in [Source -> Step] /\ parts' = parts /\ fresh' = fresh
           /\ row' \in [Source -> Result]
           /\ step'[s] = "ended" /\ row'[s] = "failed"
           /\ \A t \in Source \ {s} : step'[t] = step[t] /\ row'[t] = row[t]
<1>1. /\ step' = [step EXCEPT ![s] = "ended"] /\ row' = [row EXCEPT ![s] = "failed"]
      /\ parts' = parts /\ fresh' = fresh
  BY DEF Lost, SetRow
<1>2. /\ step \in [Source -> Step] /\ "ended" \in Step
      /\ row \in [Source -> Result]
  BY DEF IInv, Typed, Step
<1> QED BY <1>1, <1>2 DEF Result

\* What is known of a source whose document has failed or is skipped: its parts still hold.
LEMMA EndsWell ==
    ASSUME NEW s \in Described, Good(s), UNCHANGED <<docs, plan, disturbed, phase>>, phase = "execute",
           step[s] # NotYet, step'[s] = "ended", row'[s] \in {"failed", "Skipped"}, parts'[s] = parts[s],
           todo'[s].attach \subseteq todo[s].attach, todo'[s].detach \subseteq todo[s].detach,
           ~Touched(s) =>
               /\ PartsHold(s)' /\ Held(s)'
               /\ plan[s].spec = "in sync" =>
                     profile'[docs[s].spec] \in {profile[docs[s].spec], docs[s].setting}
    PROVE  Good(s)'
<1>1. Touched(s)' = Touched(s) /\ Agreed(s)' = Agreed(s) /\ ~Succeeded(s)'
  BY DEF Touched, Agreed, Succeeded, Described
<1>2. StepOrder(s)' /\ PlanFits(s)'
  BY DEF Good, StepOrder, PlanFits, NotYet
<1>3. LeftIsDifference(s)' /\ SourceFollows(s)'
  BY <1>1 DEF LeftIsDifference, SourceFollows, Unwritten
<1>4. ~Touched(s) => InlineHolds(s)'
  BY <1>1 DEF InlineHolds, Good, Followed
<1> QED BY <1>1, <1>2, <1>3, <1>4 DEF Good, Followed

\* A part that was refused changes nothing on the server.
LEMMA RefusedIInv ==
    ASSUME IInv, NEW s \in Described, s \in Source, phase = "execute", step[s] # NotYet, Refused(s),
           UNCHANGED <<docs, keepGoing, phase, listed, seen, plan, disturbed>>,
           todo' \in [Source -> TodoType], \A t \in Source \ {s} : todo'[t] = todo[t],
           todo'[s].attach \subseteq todo[s].attach, todo'[s].detach \subseteq todo[s].detach
    PROVE  IInv'
<1>1. Lost(s) /\ UNCHANGED <<source, profile, included>>
  BY DEF Refused, server
<1>2. /\ Good(s) /\ Placed /\ source \in [Source -> {Absent} \cup SourceType]
      /\ profile \in [Profile -> {Absent} \cup Setting] /\ included \subseteq Source \X Profile
      /\ fresh \subseteq Profile /\ parts \in [Source -> SUBSET Parts]
  BY DEF IInv, Typed, TypeOK, Parts
<1>3. Placed'
  BY <1>1, <1>2 DEF Placed
<1>4. Good(s)'
  <2>1. ~Touched(s) => PartsHold(s)' /\ Held(s)'
    BY <1>1, <1>2, LostShape DEF Good, Followed, PartsHold, Held, ProfilesOf
  <2> QED BY <1>1, <1>2, <2>1, LostShape, EndsWell
<1>5. \A t \in Source : ProfilesOf(t, included)' = ProfilesOf(t, included)
  BY <1>1 DEF ProfilesOf
<1> QED BY <1>1, <1>2, <1>3, <1>4, <1>5, LostShape, SourceStep

LEMMA BeginIInv == ASSUME IInv, NEW s \in Source, Begin(s) PROVE IInv'
<1>1. /\ s \in Described /\ phase = "execute" /\ row[s] = NotYet /\ step[s] = "planned" /\ Good(s)
      /\ UNCHANGED <<docs, keepGoing, source, profile, included, phase, listed, seen, plan, fresh,
                     parts, disturbed>>
  BY DEF Begin, Turn, IInv, input, server, reads
<1>2. /\ source \in [Source -> {Absent} \cup SourceType] /\ plan[s] \in PlanType
      /\ profile \in [Profile -> {Absent} \cup Setting] /\ included \subseteq Source \X Profile
      /\ fresh \subseteq Profile /\ parts \in [Source -> SUBSET Parts] /\ Placed
      /\ todo \in [Source -> TodoType] /\ step \in [Source -> Step]
      /\ row \in [Source -> Result]
  BY DEF IInv, Typed, TypeOK, Parts
<1>3. Placed' /\ \A t \in Source : ProfilesOf(t, included)' = ProfilesOf(t, included)
  BY <1>1, <1>2 DEF Placed, ProfilesOf
<1>4. PartsHold(s)' = PartsHold(s) /\ Held(s)' = Held(s)
  BY <1>1 DEF PartsHold, Held, ProfilesOf
<1>5. ASSUME NEW r \in {"Skipped", "failed"}, SetRow(s, r), UNCHANGED todo PROVE IInv'
  <2>1. /\ step' \in [Source -> Step] /\ step'[s] = "ended" /\ row'[s] = r
        /\ row' \in [Source -> Result]
        /\ \A t \in Source \ {s} : step'[t] = step[t] /\ row'[t] = row[t]
    BY <1>2, <1>5 DEF SetRow, Step, Result
  <2>2. Good(s)'
    BY <1>1, <1>4, <1>5, <2>1, EndsWell DEF Good, Followed, NotYet
  <2> QED BY <1>1, <1>2, <1>3, <1>5, <2>1, <2>2, SourceStep
<1>6. ASSUME step' = [step EXCEPT ![s] = "profile"], UNCHANGED row,
             todo' = [todo EXCEPT ![s] = [attach |-> plan[s].attach, detach |-> plan[s].detach]]
      PROVE  IInv'
  <2>1. [attach |-> plan[s].attach, detach |-> plan[s].detach] \in TodoType
    BY <1>2 DEF PlanType, TodoType
  <2>2. /\ step' \in [Source -> Step] /\ step'[s] = "profile" /\ todo' \in [Source -> TodoType]
        /\ todo'[s].attach = plan[s].attach /\ todo'[s].detach = plan[s].detach
        /\ \A t \in Source \ {s} : step'[t] = step[t] /\ todo'[t] = todo[t]
    BY <1>2, <1>6, <2>1 DEF Step
  <2>3. Touched(s)' = Touched(s) /\ Agreed(s)' = Agreed(s) /\ ~Succeeded(s)'
    BY <1>1, <1>6 DEF Touched, Agreed, Succeeded, Described, NotYet
  <2>4. StepOrder(s)' /\ PlanFits(s)'
    BY <1>1, <1>6, <2>2 DEF Good, StepOrder, PlanFits, NotYet
  <2>5. ~Touched(s) => LeftIsDifference(s)' /\ SourceFollows(s)'
    BY <1>1, <1>3, <2>2, <2>3 DEF Good, Followed, LeftIsDifference, SourceFollows, Unwritten
  <2>6. ~Touched(s) => InlineHolds(s)'
    BY <1>1, <2>2, <2>3 DEF Good, Followed, InlineHolds
  <2>7. Good(s)'
    BY <1>1, <1>4, <2>3, <2>4, <2>5, <2>6 DEF Good, Followed
  <2> QED BY <1>1, <1>2, <1>3, <1>6, <2>2, <2>7, SourceStep
<1> QED BY <1>5, <1>6 DEF Begin

LEMMA WriteProfileIInv == ASSUME IInv, NEW s \in Source, WriteProfile(s) PROVE IInv'
<1> DEFINE q == docs[s].spec
<1>1. /\ s \in Described /\ phase = "execute" /\ row[s] = NotYet /\ step[s] = "profile" /\ Good(s)
      /\ docs[s].setting \in Setting /\ plan[s] \in PlanType /\ q \in {Absent} \cup Profile
      /\ UNCHANGED <<docs, keepGoing, phase, listed, seen, plan, todo, disturbed>>
  BY DoesFacts DEF WriteProfile, input, reads
<1>2. q \in Profile
  BY <1>1 DEF WriteProfile, Good, PlanFits, NotYet
<1>3. /\ source \in [Source -> {Absent} \cup SourceType] /\ todo \in [Source -> TodoType]
      /\ profile \in [Profile -> {Absent} \cup Setting] /\ included \subseteq Source \X Profile
      /\ fresh \subseteq Profile /\ Placed /\ parts \in [Source -> SUBSET Parts]
      /\ row \in [Source -> Result]
  BY DEF IInv, Typed, TypeOK, Parts
<1>4. Touched(s)' = Touched(s) /\ Agreed(s)' = Agreed(s)
  BY <1>1 DEF Touched, Agreed, Described
<1>5. ASSUME profile' = [profile EXCEPT ![q] = docs[s].setting], UNCHANGED <<source, included>>,
             \/ Answered(s, "profile") /\ fresh' = fresh \cup {q}
             \/ Lost(s)
      PROVE  IInv'
  <2>1. /\ profile' \in [Profile -> {Absent} \cup Setting] /\ profile'[q] = docs[s].setting
        /\ profile'[q] # Absent /\ \A p \in Profile : p # q => profile'[p] = profile[p]
    BY <1>1, <1>2, <1>3, <1>5, AbsentApart
  <2>2. Placed' /\ \A t \in Source : ProfilesOf(t, included)' = ProfilesOf(t, included)
    BY <1>3, <1>5, <2>1 DEF Placed, ProfilesOf
  <2>3. CASE Lost(s)
    <3>1. ~Touched(s) => PartsHold(s)' /\ Held(s)'
      BY <1>1, <1>5, <2>3, LostShape DEF Good, Followed, PartsHold, Held, ProfilesOf
    <3>2. Good(s)'
      BY <1>1, <2>1, <2>3, <3>1, LostShape, EndsWell DEF NotYet
    <3> QED BY <1>1, <1>3, <1>5, <2>1, <2>2, <2>3, <3>2, LostShape, SourceStep
  <2>4. CASE Answered(s, "profile") /\ fresh' = fresh \cup {q}
    <3>1. /\ After(step[s], plan[s]) = (IF plan[s].exists THEN "replace" ELSE "create")
          /\ After(step[s], plan[s]) \in Step /\ "profile" \in Parts
      BY <1>1, AfterOf DEF Step, Parts
    <3>2. /\ step' \in [Source -> Step] /\ parts' \in [Source -> SUBSET Parts] /\ row' = row
          /\ step'[s] = (IF plan[s].exists THEN "replace" ELSE "create")
          /\ parts'[s] = parts[s] \cup {"profile"}
          /\ \A t \in Source \ {s} : step'[t] = step[t] /\ parts'[t] = parts[t]
      BY <2>4, <3>1, AnsweredShape
    <3>3. ~Succeeded(s)'
      BY <1>1, <3>2 DEF Succeeded, NotYet
    <3>4. StepOrder(s)' /\ PlanFits(s)'
      BY <1>1, <1>5, <3>2 DEF Good, StepOrder, PlanFits, NotYet
    <3>5. ~Touched(s) => LeftIsDifference(s)' /\ SourceFollows(s)'
      BY <1>1, <1>5, <2>2, <3>2, <3>3 DEF Good, Followed, LeftIsDifference, SourceFollows, Unwritten
    <3>6. InlineHolds(s)'
      BY <1>1, <2>1 DEF InlineHolds
    <3>7. ~Touched(s) => PartsHold(s)' /\ Held(s)'
      BY <1>1, <1>5, <2>2, <3>2 DEF Good, Followed, PartsHold, Held
    <3>8. Good(s)'
      BY <1>4, <3>4, <3>5, <3>6, <3>7 DEF Good, Followed
    <3>9. fresh' \subseteq Profile
      BY <1>2, <1>3, <2>4
    <3> QED BY <1>1, <1>3, <1>5, <2>1, <2>2, <3>2, <3>8, <3>9, SourceStep
  <2> QED BY <1>5, <2>3, <2>4
<1>6. CASE Refused(s)
  BY <1>1, <1>3, <1>6, RefusedIInv DEF NotYet
<1> QED BY <1>5, <1>6 DEF WriteProfile

LEMMA UploadIInv == ASSUME IInv, NEW s \in Source, Upload(s) PROVE IInv'
<1>0. PICK names, flag : /\ names = (IF plan[s].exists THEN {} ELSE docs[s].profiles)
                         /\ flag = (IF source[s] = Absent THEN TRUE ELSE source[s].enabled)
  OBVIOUS
<1> DEFINE before == ProfilesOf(s, included)
           after == ProfilesOf(s, included')
<1>1. /\ s \in Described /\ phase = "execute" /\ row[s] = NotYet /\ Good(s)
      /\ \/ step[s] = "replace" /\ plan[s].exists
         \/ step[s] = "create" /\ ~plan[s].exists
      /\ docs[s].profiles \subseteq Profile /\ plan[s] \in PlanType /\ docs[s].enabled \in BOOLEAN
      /\ source[s] \in {Absent} \cup SourceType
      /\ UNCHANGED <<docs, keepGoing, phase, listed, seen, plan, todo, disturbed>>
  <2>1. Does(s, "replace") \/ Does(s, "create")
    BY DEF Upload
  <2>2. Good(s) /\ step[s] \in {"replace", "create"}
    BY <2>1, DoesFacts
  <2> QED BY <2>1, <2>2, DoesFacts DEF Upload, Good, StepOrder, input, reads
<1>2. /\ source \in [Source -> {Absent} \cup SourceType] /\ todo \in [Source -> TodoType]
      /\ profile \in [Profile -> {Absent} \cup Setting] /\ included \subseteq Source \X Profile
      /\ fresh \subseteq Profile /\ Placed /\ parts \in [Source -> SUBSET Parts]
      /\ row \in [Source -> Result]
  BY DEF IInv, Typed, TypeOK, Parts
<1>3. Touched(s)' = Touched(s) /\ Agreed(s)' = Agreed(s)
  BY <1>1 DEF Touched, Agreed, Described
<1>4. ASSUME source[s] # Absent \/ names # {}, \A p \in names : profile[p] # Absent,
             source' = [source EXCEPT ![s] = [tree |-> "want", enabled |-> flag]],
             included' = included \cup ({s} \X names), UNCHANGED profile,
             (Answered(s, "tree") /\ UNCHANGED fresh) \/ Lost(s)
      PROVE  IInv'
  <2>1. flag \in BOOLEAN /\ names \subseteq Profile
    BY <1>0, <1>1 DEF SourceType
  <2>2. [tree |-> "want", enabled |-> flag] \in SourceType
    <3> QED BY <2>1 DEF SourceType
  <2>3. /\ source' \in [Source -> {Absent} \cup SourceType] /\ source'[s] # Absent
        /\ source'[s].tree = "want" /\ source'[s].enabled = flag
        /\ \A t \in Source \ {s} : source'[t] = source[t]
    <3> QED BY <1>2, <1>4, <2>2, AbsentApart
  <2>4. /\ included' \subseteq Source \X Profile
        /\ \A t \in Source : \A p \in Profile :
              <<t, p>> \in included' <=> <<t, p>> \in included \/ (t = s /\ p \in names)
    <3>1. \A t \in Source : \A p \in Profile : <<t, p>> \in {s} \X names <=> t = s /\ p \in names
      <4> QED OBVIOUS
    <3>2. included' \subseteq Source \X Profile
      <4> QED BY <1>2, <1>4, <2>1
    <3>3. \A i : i \in included' <=> i \in included \/ i \in {s} \X names
      <4> QED BY <1>4
    <3> QED BY <3>1, <3>2, <3>3
  <2>5. Placed'
    BY <1>2, <1>4, <2>3, <2>4 DEF Placed
  <2>6. \A t \in Source \ {s} : ProfilesOf(t, included)' = ProfilesOf(t, included)
    <3>1. \A t \in Source \ {s} : \A p \in Profile : <<t, p>> \in included' <=> <<t, p>> \in included
      BY <2>4
    <3> QED BY <3>1 DEF ProfilesOf
  <2>7. after = before \cup names
    <3>1. \A p \in Profile : <<s, p>> \in included' <=> <<s, p>> \in included \/ p \in names
      BY <2>4
    <3> QED BY <2>1, <3>1 DEF ProfilesOf
  <2>8. source[s] = Absent => before = {}
    BY <1>2 DEF Placed, ProfilesOf
  <2>10. ASSUME ~Touched(s), PartsHold(s), Held(s), parts'[s] \subseteq parts[s] \cup {"tree"}
         PROVE  PartsHold(s)' /\ Held(s)'
    <3>1. PartsHold(s)'
      <4>1. "attach" \in parts'[s] => docs[s].profiles \subseteq after
        BY <1>0, <2>7, <2>10 DEF PartsHold
      <4>2. "detach" \in parts'[s] => after \subseteq docs[s].profiles
        BY <1>0, <2>7, <2>10 DEF PartsHold
      <4>3. "switch" \in parts'[s] => source'[s].enabled = docs[s].enabled
        BY <1>0, <2>3, <2>10 DEF PartsHold
      <4> QED BY <1>1, <2>3, <4>1, <4>2, <4>3 DEF PartsHold
    <3>2. Held(s)'
      <4>1. docs[s].profiles # {} => after # {}
        BY <1>0, <1>4, <2>7, <2>10 DEF Held
      <4> QED BY <1>1, <4>1 DEF Held
    <3> QED BY <3>1, <3>2
  <2>11. CASE Lost(s)
    <3>1. parts'[s] = parts[s]
      BY <2>11, LostShape
    <3>2. ~Touched(s) => PartsHold(s)' /\ Held(s)'
      BY <1>1, <2>10, <3>1 DEF Good, Followed
    <3>3. Good(s)'
      BY <1>1, <1>4, <2>11, <3>1, <3>2, LostShape, EndsWell DEF NotYet
    <3>4. profile' = profile
      BY <1>4
    <3> QED BY <1>1, <1>2, <2>3, <2>4, <2>5, <2>6, <2>11, <3>3, <3>4, LostShape, SourceStep
  <2>12. CASE Answered(s, "tree") /\ UNCHANGED fresh
    <3>1. /\ After(step[s], plan[s]) = (IF plan[s].exists THEN "attach" ELSE "switch")
          /\ After(step[s], plan[s]) \in Step /\ "tree" \in Parts
      BY <1>1, AfterOf DEF Step, Parts
    <3>2. /\ step' \in [Source -> Step] /\ parts' \in [Source -> SUBSET Parts] /\ row' = row
          /\ step'[s] = (IF plan[s].exists THEN "attach" ELSE "switch")
          /\ parts'[s] = parts[s] \cup {"tree"}
          /\ \A t \in Source \ {s} : step'[t] = step[t] /\ parts'[t] = parts[t]
      BY <2>12, <3>1, AnsweredShape
    <3>3. ~Succeeded(s)'
      BY <1>1, <3>2 DEF Succeeded, NotYet
    <3>4. StepOrder(s)' /\ PlanFits(s)'
      BY <1>1, <3>2 DEF Good, StepOrder, PlanFits, NotYet
    <3>5. ASSUME ~Touched(s) PROVE (LeftIsDifference(s) /\ SourceFollows(s) /\ InlineHolds(s))'
      <4>1. LeftIsDifference(s) /\ SourceFollows(s) /\ InlineHolds(s)
        BY <1>1, <3>5 DEF Good, Followed
      <4>2. CASE plan[s].exists
        <5>1. step[s] = "replace" /\ step'[s] = "attach" /\ after = before /\ source[s] # Absent
          BY <1>0, <1>1, <2>7, <3>2, <4>1, <4>2 DEF SourceFollows, Unwritten
        <5>2. LeftIsDifference(s)'
          BY <1>1, <3>3, <4>1, <4>2, <5>1 DEF LeftIsDifference
        <5>3. SourceFollows(s)'
          BY <1>0, <1>1, <2>3, <3>3, <4>1, <4>2, <5>1 DEF SourceFollows, Unwritten
        <5> QED BY <1>1, <1>3, <1>4, <3>3, <4>1, <5>1, <5>2, <5>3 DEF InlineHolds, NotYet
      <4>3. CASE ~plan[s].exists
        <5>1. /\ step[s] = "create" /\ step'[s] = "switch" /\ source[s] = Absent
              /\ plan[s].switch = ~docs[s].enabled
          BY <1>1, <3>2, <4>3 DEF Good, PlanFits
        <5>2. after = docs[s].profiles /\ flag = TRUE
          BY <1>0, <2>7, <2>8, <4>3, <5>1
        <5>3. LeftIsDifference(s)'
          BY <1>1, <3>3, <5>1, <5>2 DEF LeftIsDifference
        <5>4. plan'[s].switch = (docs'[s].enabled # source'[s].enabled)
          BY <1>1, <2>3, <5>1, <5>2
        <5>5. SourceFollows(s)'
          BY <2>3, <3>3, <5>1, <5>4 DEF SourceFollows, Unwritten
        <5> QED BY <1>1, <1>3, <1>4, <3>3, <4>1, <5>1, <5>3, <5>5 DEF InlineHolds, NotYet
      <4> QED BY <4>2, <4>3
    <3>6. ~Touched(s) => PartsHold(s)' /\ Held(s)'
      BY <1>1, <2>10, <3>2 DEF Good, Followed
    <3>7. Good(s)'
      BY <1>3, <3>4, <3>5, <3>6 DEF Good, Followed
    <3>8. fresh' \subseteq Profile /\ profile' = profile
      BY <1>2, <1>4, <2>12
    <3> QED BY <1>1, <1>2, <2>3, <2>4, <2>5, <2>6, <3>2, <3>7, <3>8, SourceStep
  <2> QED BY <1>4, <2>11, <2>12
<1>5. CASE Refused(s)
  BY <1>1, <1>2, <1>5, RefusedIInv DEF NotYet
<1> QED BY <1>0, <1>4, <1>5 DEF Upload, Outcome

LEMMA SwitchSourceIInv == ASSUME IInv, NEW s \in Source, SwitchSource(s) PROVE IInv'
<1>1. /\ s \in Described /\ phase = "execute" /\ row[s] = NotYet /\ step[s] = "switch" /\ Good(s)
      /\ docs[s].enabled \in BOOLEAN /\ source[s] \in {Absent} \cup SourceType
      /\ UNCHANGED <<docs, keepGoing, phase, listed, seen, plan, todo, disturbed>>
  BY DoesFacts DEF SwitchSource, input, reads
<1>2. /\ source \in [Source -> {Absent} \cup SourceType] /\ todo \in [Source -> TodoType]
      /\ profile \in [Profile -> {Absent} \cup Setting] /\ included \subseteq Source \X Profile
      /\ fresh \subseteq Profile /\ Placed /\ parts \in [Source -> SUBSET Parts]
      /\ row \in [Source -> Result]
  BY DEF IInv, Typed, TypeOK, Parts
<1>3. Touched(s)' = Touched(s) /\ Agreed(s)' = Agreed(s)
  BY <1>1 DEF Touched, Agreed, Described
<1>4. ASSUME source[s] # Absent, source' = [source EXCEPT ![s].enabled = docs[s].enabled],
             UNCHANGED <<profile, included>>,
             (Answered(s, "switch") /\ UNCHANGED fresh) \/ Lost(s)
      PROVE  IInv'
  <2>1. source[s] \in SourceType
    BY <1>1, <1>4
  <2>2. /\ [source[s] EXCEPT !.enabled = docs[s].enabled] \in SourceType
        /\ [source[s] EXCEPT !.enabled = docs[s].enabled].tree = source[s].tree
        /\ [source[s] EXCEPT !.enabled = docs[s].enabled].enabled = docs[s].enabled
    BY <1>1, <2>1 DEF SourceType
  <2>3. source' = [source EXCEPT ![s] = [source[s] EXCEPT !.enabled = docs[s].enabled]]
    BY <1>4
  <2>4. /\ source' \in [Source -> {Absent} \cup SourceType] /\ source'[s] # Absent
        /\ source'[s].tree = source[s].tree /\ source'[s].enabled = docs[s].enabled
        /\ \A t \in Source \ {s} : source'[t] = source[t]
    <3> HIDE <1>4
    <3> QED BY <1>2, <2>2, <2>3, AbsentApart
  <2>5. Placed' /\ \A t \in Source : ProfilesOf(t, included)' = ProfilesOf(t, included)
    BY <1>2, <1>4, <2>4 DEF Placed, ProfilesOf
  <2>6. ASSUME ~Touched(s), PartsHold(s), Held(s), parts'[s] \subseteq parts[s] \cup {"switch"}
         PROVE  PartsHold(s)' /\ Held(s)'
    BY <1>1, <1>4, <2>4, <2>5, <2>6 DEF PartsHold, Held
  <2>7. CASE Lost(s)
    <3>1. parts'[s] = parts[s]
      BY <2>7, LostShape
    <3>2. ~Touched(s) => PartsHold(s)' /\ Held(s)'
      BY <1>1, <2>6, <3>1 DEF Good, Followed
    <3>3. Good(s)'
      BY <1>1, <1>4, <2>7, <3>1, <3>2, LostShape, EndsWell DEF NotYet
    <3> QED BY <1>1, <1>2, <1>4, <2>4, <2>5, <2>7, <3>3, LostShape, SourceStep
  <2>8. CASE Answered(s, "switch") /\ UNCHANGED fresh
    <3>1. After(step[s], plan[s]) = "report" /\ After(step[s], plan[s]) \in Step /\ "switch" \in Parts
      BY <1>1, AfterOf DEF Step, Parts
    <3>2. /\ step' \in [Source -> Step] /\ parts' \in [Source -> SUBSET Parts] /\ row' = row
          /\ step'[s] = "report" /\ parts'[s] = parts[s] \cup {"switch"}
          /\ \A t \in Source \ {s} : step'[t] = step[t] /\ parts'[t] = parts[t]
      BY <2>8, <3>1, AnsweredShape
    <3>3. ~Succeeded(s)'
      BY <1>1, <3>2 DEF Succeeded, NotYet
    <3>4. StepOrder(s)' /\ PlanFits(s)'
      BY <1>1, <3>2 DEF Good, StepOrder, PlanFits, NotYet
    <3>5. ~Touched(s) => LeftIsDifference(s)' /\ SourceFollows(s)'
      BY <1>1, <2>4, <2>5, <3>2, <3>3 DEF Good, Followed, LeftIsDifference, SourceFollows, Unwritten
    <3>6. ~Touched(s) => InlineHolds(s)'
      BY <1>1, <1>3, <1>4, <3>2, <3>3 DEF Good, Followed, InlineHolds, NotYet
    <3>7. ~Touched(s) => PartsHold(s)' /\ Held(s)'
      BY <1>1, <2>6, <3>2 DEF Good, Followed
    <3>8. Good(s)'
      BY <1>3, <3>4, <3>5, <3>6, <3>7 DEF Good, Followed
    <3>9. fresh' \subseteq Profile
      BY <1>2, <2>8
    <3> QED BY <1>1, <1>2, <1>4, <2>4, <2>5, <3>2, <3>8, <3>9, SourceStep
  <2> QED BY <1>4, <2>7, <2>8
<1>5. CASE Refused(s)
  BY <1>1, <1>2, <1>5, RefusedIInv DEF NotYet
<1> QED BY <1>4, <1>5 DEF SwitchSource, Outcome

\* What a step on one profile of a source changes: the step, the row and the parts.
LEMMA OneDoneShape ==
    ASSUME IInv, NEW s \in Source, NEW part \in Parts, NEW left, OneDone(s, part, left)
    PROVE  /\ step' = step /\ row' = row /\ fresh' = fresh
           /\ parts' \in [Source -> SUBSET Parts]
           /\ parts'[s] = IF left = {} THEN parts[s] \cup {part} ELSE parts[s]
           /\ \A t \in Source \ {s} : parts'[t] = parts[t]
<1>1. parts \in [Source -> SUBSET Parts] /\ parts[s] \cup {part} \in SUBSET Parts
  BY DEF IInv, Typed, Parts
<1>2. CASE left = {}
  <2>1. parts' = [parts EXCEPT ![s] = parts[s] \cup {part}]
    BY <1>2 DEF OneDone, Done
  <2> QED BY <1>1, <1>2, <2>1 DEF OneDone
<1>3. CASE left # {}
  BY <1>1, <1>3 DEF OneDone
<1> QED BY <1>2, <1>3

LEMMA AttachIInv == ASSUME IInv, NEW s \in Source, Attach(s) PROVE IInv'
<1> DEFINE before == ProfilesOf(s, included)
           after == ProfilesOf(s, included')
<1>1. /\ s \in Described /\ phase = "execute" /\ row[s] = NotYet /\ step[s] = "attach" /\ Good(s)
      /\ plan[s].exists /\ todo[s] \in TodoType /\ docs[s].profiles \subseteq Profile
      /\ UNCHANGED <<docs, keepGoing, phase, listed, seen, plan, disturbed>>
  <2>1. Does(s, "attach")
    BY DEF Attach
  <2> QED BY <2>1, DoesFacts DEF Attach, Good, StepOrder, input, reads
<1>2. /\ source \in [Source -> {Absent} \cup SourceType] /\ todo \in [Source -> TodoType]
      /\ profile \in [Profile -> {Absent} \cup Setting] /\ included \subseteq Source \X Profile
      /\ fresh \subseteq Profile /\ Placed /\ parts \in [Source -> SUBSET Parts]
      /\ step \in [Source -> Step]
      /\ row \in [Source -> Result]
  BY DEF IInv, Typed, TypeOK, Parts
<1>3. Touched(s)' = Touched(s) /\ Agreed(s)' = Agreed(s)
  BY <1>1 DEF Touched, Agreed, Described
<1>4. PICK q \in todo[s].attach :
         /\ todo' = [todo EXCEPT ![s].attach = @ \ {q}]
         /\ \/ /\ q \in fresh /\ source[s] # Absent /\ profile[q] # Absent
               /\ included' = included \cup {<<s, q>>}
               /\ OneDone(s, "attach", todo'[s].attach) \/ Lost(s)
               /\ UNCHANGED <<source, profile>>
            \/ Refused(s)
  BY DEF Attach
<1>5. /\ todo' \in [Source -> TodoType] /\ \A t \in Source \ {s} : todo'[t] = todo[t]
      /\ todo'[s].attach = todo[s].attach \ {q} /\ todo'[s].detach = todo[s].detach
  <2>1. todo' = [todo EXCEPT ![s] = [todo[s] EXCEPT !.attach = todo[s].attach \ {q}]]
    BY <1>4
  <2>2. /\ [todo[s] EXCEPT !.attach = todo[s].attach \ {q}] \in TodoType
        /\ [todo[s] EXCEPT !.attach = todo[s].attach \ {q}].attach = todo[s].attach \ {q}
        /\ [todo[s] EXCEPT !.attach = todo[s].attach \ {q}].detach = todo[s].detach
    BY <1>1 DEF TodoType
  <2> QED BY <1>2, <2>1, <2>2
<1>6. q \in Profile /\ q \in docs[s].profiles
  BY <1>1 DEF TodoType, Good, PlanFits
<1>7. ASSUME source[s] # Absent, profile[q] # Absent, included' = included \cup {<<s, q>>},
             UNCHANGED <<source, profile>>,
             OneDone(s, "attach", todo'[s].attach) \/ Lost(s)
      PROVE  IInv'
  <2>1. /\ included' \subseteq Source \X Profile
        /\ \A t \in Source : \A p \in Profile :
              <<t, p>> \in included' <=> (<<t, p>> \in included \/ (t = s /\ p = q))
    BY <1>2, <1>6, <1>7
  <2>2. Placed'
    BY <1>2, <1>7, <2>1 DEF Placed
  <2>3. \A t \in Source \ {s} : ProfilesOf(t, included)' = ProfilesOf(t, included)
    <3>1. \A t \in Source \ {s} : \A p \in Profile : <<t, p>> \in included' <=> <<t, p>> \in included
      BY <2>1
    <3> QED BY <3>1 DEF ProfilesOf
  <2>4. after = before \cup {q}
    BY <1>6, <2>1 DEF ProfilesOf
  <2>5. ASSUME ~Touched(s), PartsHold(s), Held(s),
               \/ parts'[s] = parts[s]
               \/ parts'[s] = parts[s] \cup {"attach"} /\ docs[s].profiles \subseteq after
        PROVE  PartsHold(s)' /\ Held(s)'
    BY <1>1, <1>6, <1>7, <2>4, <2>5 DEF PartsHold, Held
  <2>6. CASE Lost(s)
    <3>1. parts'[s] = parts[s]
      BY <2>6, LostShape
    <3>2. ~Touched(s) => PartsHold(s)' /\ Held(s)'
      BY <1>1, <2>5, <3>1 DEF Good, Followed
    <3>3. Good(s)'
      BY <1>1, <1>5, <1>7, <2>6, <3>1, <3>2, LostShape, EndsWell DEF NotYet
    <3>4. source' = source /\ profile' = profile
      BY <1>7
    <3>5. /\ step' \in [Source -> Step] /\ parts' = parts /\ fresh' = fresh
          /\ row' \in [Source -> Result]
          /\ \A t \in Source \ {s} : step'[t] = step[t] /\ row'[t] = row[t]
      BY <2>6, LostShape
    <3> QED BY <1>1, <1>2, <1>5, <2>1, <2>2, <2>3, <3>3, <3>4, <3>5, SourceStep
  <2>7. CASE OneDone(s, "attach", todo'[s].attach)
    <3>1. /\ step' = step /\ row' = row /\ fresh' = fresh /\ parts' \in [Source -> SUBSET Parts]
          /\ parts'[s] = IF todo'[s].attach = {} THEN parts[s] \cup {"attach"} ELSE parts[s]
          /\ \A t \in Source \ {s} : parts'[t] = parts[t]
      BY <2>7, OneDoneShape DEF Parts
    <3>2. ~Succeeded(s)' /\ ~Succeeded(s)
      BY <1>1, <3>1 DEF Succeeded, NotYet
    <3>3. StepOrder(s)' /\ PlanFits(s)'
      BY <1>1, <1>5, <1>7, <3>1 DEF Good, StepOrder, PlanFits, NotYet
    <3>4. ASSUME ~Touched(s)
          PROVE (LeftIsDifference(s) /\ SourceFollows(s) /\ InlineHolds(s) /\ PartsHold(s) /\ Held(s))'
      <4>1. LeftIsDifference(s) /\ SourceFollows(s) /\ InlineHolds(s) /\ PartsHold(s) /\ Held(s)
        BY <1>1, <3>4 DEF Good, Followed
      <4>2. todo[s].attach = docs[s].profiles \ before /\ todo[s].detach = before \ docs[s].profiles
        BY <1>1, <4>1 DEF LeftIsDifference
      <4>3. todo'[s].attach = docs[s].profiles \ after /\ todo'[s].detach = after \ docs[s].profiles
        BY <1>5, <1>6, <2>4, <4>2
      <4>4. LeftIsDifference(s)'
        BY <1>1, <3>1, <3>2, <4>3 DEF LeftIsDifference
      <4>5. SourceFollows(s)' /\ InlineHolds(s)'
        BY <1>1, <1>3, <1>7, <3>1, <3>2, <4>1 DEF SourceFollows, InlineHolds, Unwritten
      <4>6. todo'[s].attach = {} => docs[s].profiles \subseteq after
        BY <4>3
      <4>7. PartsHold(s)' /\ Held(s)'
        BY <2>5, <3>1, <3>4, <4>1, <4>6
      <4> QED BY <4>4, <4>5, <4>7
    <3>5. Good(s)'
      BY <1>3, <3>3, <3>4 DEF Good, Followed
    <3> QED BY <1>1, <1>2, <1>5, <1>7, <2>1, <2>2, <2>3, <3>1, <3>5, SourceStep
  <2> QED BY <1>7, <2>6, <2>7
<1>8. CASE Refused(s)
  BY <1>1, <1>2, <1>5, <1>8, RefusedIInv DEF NotYet
<1> QED BY <1>4, <1>7, <1>8

LEMMA DetachIInv == ASSUME IInv, NEW s \in Source, Detach(s) PROVE IInv'
<1> DEFINE before == ProfilesOf(s, included)
           after == ProfilesOf(s, included')
<1>1. /\ s \in Described /\ phase = "execute" /\ row[s] = NotYet /\ step[s] = "detach" /\ Good(s)
      /\ plan[s].exists /\ todo[s] \in TodoType /\ docs[s].profiles \subseteq Profile
      /\ UNCHANGED <<docs, keepGoing, phase, listed, seen, plan, disturbed>>
  <2>1. Does(s, "detach")
    BY DEF Detach
  <2> QED BY <2>1, DoesFacts DEF Detach, Good, StepOrder, input, reads
<1>2. /\ source \in [Source -> {Absent} \cup SourceType] /\ todo \in [Source -> TodoType]
      /\ profile \in [Profile -> {Absent} \cup Setting] /\ included \subseteq Source \X Profile
      /\ fresh \subseteq Profile /\ Placed /\ parts \in [Source -> SUBSET Parts]
      /\ step \in [Source -> Step]
      /\ row \in [Source -> Result]
  BY DEF IInv, Typed, TypeOK, Parts
<1>3. Touched(s)' = Touched(s) /\ Agreed(s)' = Agreed(s)
  BY <1>1 DEF Touched, Agreed, Described
<1>4. PICK q \in todo[s].detach :
         /\ todo' = [todo EXCEPT ![s].detach = @ \ {q}]
         /\ \/ /\ profile[q] # Absent
               /\ included' = included \ {<<s, q>>}
               /\ OneDone(s, "detach", todo'[s].detach) \/ Lost(s)
               /\ UNCHANGED <<source, profile>>
            \/ Refused(s)
  BY DEF Detach
<1>5. /\ todo' \in [Source -> TodoType] /\ \A t \in Source \ {s} : todo'[t] = todo[t]
      /\ todo'[s].detach = todo[s].detach \ {q} /\ todo'[s].attach = todo[s].attach
  <2>1. todo' = [todo EXCEPT ![s] = [todo[s] EXCEPT !.detach = todo[s].detach \ {q}]]
    BY <1>4
  <2>2. /\ [todo[s] EXCEPT !.detach = todo[s].detach \ {q}] \in TodoType
        /\ [todo[s] EXCEPT !.detach = todo[s].detach \ {q}].detach = todo[s].detach \ {q}
        /\ [todo[s] EXCEPT !.detach = todo[s].detach \ {q}].attach = todo[s].attach
    BY <1>1 DEF TodoType
  <2> QED BY <1>2, <2>1, <2>2
<1>6. q \in Profile /\ q \notin docs[s].profiles
  BY <1>1 DEF TodoType, Good, PlanFits
<1>7. ASSUME included' = included \ {<<s, q>>}, UNCHANGED <<source, profile>>,
             OneDone(s, "detach", todo'[s].detach) \/ Lost(s)
      PROVE  IInv'
  <2>1. /\ included' \subseteq Source \X Profile
        /\ \A t \in Source : \A p \in Profile :
              <<t, p>> \in included' <=> (<<t, p>> \in included /\ ~(t = s /\ p = q))
    BY <1>2, <1>6, <1>7
  <2>2. Placed'
    BY <1>2, <1>7, <2>1 DEF Placed
  <2>3. \A t \in Source \ {s} : ProfilesOf(t, included)' = ProfilesOf(t, included)
    <3>1. \A t \in Source \ {s} : \A p \in Profile : <<t, p>> \in included' <=> <<t, p>> \in included
      BY <2>1
    <3> QED BY <3>1 DEF ProfilesOf
  <2>4. after = before \ {q}
    BY <1>6, <2>1 DEF ProfilesOf
  <2>5. ASSUME ~Touched(s), PartsHold(s), LeftIsDifference(s),
               \/ parts'[s] = parts[s]
               \/ parts'[s] = parts[s] \cup {"detach"} /\ after \subseteq docs[s].profiles
        PROVE  PartsHold(s)' /\ Held(s)'
    <3>1. docs[s].profiles \subseteq after
      BY <1>1, <1>6, <2>4, <2>5 DEF LeftIsDifference
    <3>2. Held(s)'
      BY <1>1, <3>1 DEF Held
    <3> QED BY <1>1, <1>7, <2>4, <2>5, <3>1, <3>2 DEF PartsHold
  <2>6. CASE Lost(s)
    <3>1. parts'[s] = parts[s]
      BY <2>6, LostShape
    <3>2. ~Touched(s) => PartsHold(s)' /\ Held(s)'
      BY <1>1, <2>5, <3>1 DEF Good, Followed
    <3>3. Good(s)'
      BY <1>1, <1>5, <1>7, <2>6, <3>1, <3>2, LostShape, EndsWell DEF NotYet
    <3>4. source' = source /\ profile' = profile
      BY <1>7
    <3>5. /\ step' \in [Source -> Step] /\ parts' = parts /\ fresh' = fresh
          /\ row' \in [Source -> Result]
          /\ \A t \in Source \ {s} : step'[t] = step[t] /\ row'[t] = row[t]
      BY <2>6, LostShape
    <3> QED BY <1>1, <1>2, <1>5, <2>1, <2>2, <2>3, <3>3, <3>4, <3>5, SourceStep
  <2>7. CASE OneDone(s, "detach", todo'[s].detach)
    <3>1. /\ step' = step /\ row' = row /\ fresh' = fresh /\ parts' \in [Source -> SUBSET Parts]
          /\ parts'[s] = IF todo'[s].detach = {} THEN parts[s] \cup {"detach"} ELSE parts[s]
          /\ \A t \in Source \ {s} : parts'[t] = parts[t]
      BY <2>7, OneDoneShape DEF Parts
    <3>2. ~Succeeded(s)' /\ ~Succeeded(s)
      BY <1>1, <3>1 DEF Succeeded, NotYet
    <3>3. StepOrder(s)' /\ PlanFits(s)'
      BY <1>1, <1>5, <1>7, <3>1 DEF Good, StepOrder, PlanFits, NotYet
    <3>4. ASSUME ~Touched(s)
          PROVE (LeftIsDifference(s) /\ SourceFollows(s) /\ InlineHolds(s) /\ PartsHold(s) /\ Held(s))'
      <4>1. LeftIsDifference(s) /\ SourceFollows(s) /\ InlineHolds(s) /\ PartsHold(s)
        BY <1>1, <3>4 DEF Good, Followed
      <4>2. docs[s].profiles \subseteq before /\ todo[s].detach = before \ docs[s].profiles
        BY <1>1, <4>1 DEF LeftIsDifference
      <4>3. docs[s].profiles \subseteq after /\ todo'[s].detach = after \ docs[s].profiles
        BY <1>5, <1>6, <2>4, <4>2
      <4>4. LeftIsDifference(s)'
        BY <1>1, <3>1, <3>2, <4>3 DEF LeftIsDifference
      <4>5. SourceFollows(s)' /\ InlineHolds(s)'
        BY <1>1, <1>3, <1>7, <3>1, <3>2, <4>1 DEF SourceFollows, InlineHolds, Unwritten
      <4>6. todo'[s].detach = {} => after \subseteq docs[s].profiles
        BY <4>3
      <4>7. PartsHold(s)' /\ Held(s)'
        BY <2>5, <3>1, <3>4, <4>1, <4>6
      <4> QED BY <4>4, <4>5, <4>7
    <3>5. Good(s)'
      BY <1>3, <3>3, <3>4 DEF Good, Followed
    <3> QED BY <1>1, <1>2, <1>5, <1>7, <2>1, <2>2, <2>3, <3>1, <3>5, SourceStep
  <2> QED BY <1>7, <2>6, <2>7
<1>8. CASE Refused(s)
  BY <1>1, <1>2, <1>5, <1>8, RefusedIInv DEF NotYet
<1> QED BY <1>4, <1>7, <1>8

LEMMA PassIInv == ASSUME IInv, NEW s \in Source, Pass(s) PROVE IInv'
<1>1. PICK part \in {"profile", "replace", "attach", "detach", "switch"} : Does(s, part)
  BY DEF Pass
<1>2. /\ s \in Described /\ phase = "execute" /\ row[s] = NotYet /\ step[s] = part /\ Good(s)
      /\ docs[s].enabled \in BOOLEAN /\ plan[s] \in PlanType /\ source[s] \in {Absent} \cup SourceType
      /\ step' = [step EXCEPT ![s] = After(step[s], plan[s])] /\ row' = row
      /\ UNCHANGED <<docs, keepGoing, phase, listed, seen, plan, todo, disturbed, source, profile,
                     included, fresh, parts>>
  BY <1>1, DoesFacts DEF Pass, Advance, input, server, reads
<1>3. /\ source \in [Source -> {Absent} \cup SourceType] /\ todo \in [Source -> TodoType]
      /\ profile \in [Profile -> {Absent} \cup Setting] /\ included \subseteq Source \X Profile
      /\ fresh \subseteq Profile /\ Placed /\ parts \in [Source -> SUBSET Parts]
      /\ step \in [Source -> Step]
      /\ row \in [Source -> Result]
  BY DEF IInv, Typed, TypeOK, Parts
<1>4. Touched(s)' = Touched(s) /\ Agreed(s)' = Agreed(s) /\ ~Succeeded(s)' /\ ~Succeeded(s)
  BY <1>2 DEF Touched, Agreed, Described, Succeeded, NotYet
<1>5. Placed' /\ \A t \in Source : ProfilesOf(t, included)' = ProfilesOf(t, included)
  BY <1>2, <1>3 DEF Placed, ProfilesOf
<1>6. \/ /\ step[s] = "profile" /\ plan[s].spec \in {"none", "in sync"}
         /\ After(step[s], plan[s]) = (IF plan[s].exists THEN "replace" ELSE "create")
      \/ step[s] = "replace" /\ plan[s].same /\ After(step[s], plan[s]) = "attach"
      \/ step[s] = "attach" /\ todo[s].attach = {} /\ After(step[s], plan[s]) = "detach"
      \/ step[s] = "detach" /\ todo[s].detach = {} /\ After(step[s], plan[s]) = "switch"
      \/ step[s] = "switch" /\ ~plan[s].switch /\ After(step[s], plan[s]) = "report"
  BY AfterOf DEF Pass, Does
<1>7. /\ step' \in [Source -> Step] /\ step'[s] = After(step[s], plan[s])
      /\ \A t \in Source \ {s} : step'[t] = step[t]
  <2>1. After(step[s], plan[s]) \in Step
    BY <1>6 DEF Step
  <2> QED BY <1>2, <1>3, <2>1
<1>8. StepOrder(s)' /\ PlanFits(s)'
  BY <1>2, <1>6, <1>7 DEF Good, StepOrder, PlanFits, NotYet
<1>9. ASSUME ~Touched(s) PROVE (LeftIsDifference(s) /\ SourceFollows(s) /\ InlineHolds(s))'
  <2>1. LeftIsDifference(s) /\ SourceFollows(s) /\ InlineHolds(s)
    BY <1>2, <1>9 DEF Good, Followed
  <2>2. plan[s].exists <=> step[s] \in {"replace", "attach", "detach"} \/ (step[s] \in {"profile", "switch"} /\ plan[s].exists)
    BY <1>2, <1>6 DEF Good, StepOrder
  <2>3. LeftIsDifference(s)'
    BY <1>2, <1>4, <1>6, <1>7, <2>1, <2>2 DEF LeftIsDifference, ProfilesOf
  <2>4. step[s] = "switch" => (plan[s].switch <=> docs[s].enabled # source[s].enabled)
    BY <1>2, <2>1 DEF SourceFollows
  <2>5. step[s] = "switch" => source[s] # Absent /\ source[s] \in SourceType
    BY <1>2, <2>1 DEF SourceFollows
  <2>6. step'[s] = "report" => source[s].enabled = docs[s].enabled
    BY <1>2, <1>6, <1>7, <2>4, <2>5 DEF SourceType
  <2>7. SourceFollows(s)'
    BY <1>2, <1>4, <1>6, <1>7, <2>1, <2>2, <2>6 DEF SourceFollows, Unwritten
  <2>8. plan[s].spec = "none" => docs[s].spec = Absent
    BY <1>2, <1>6 DEF Good, PlanFits, NotYet
  <2>9. InlineHolds(s)'
    BY <1>2, <1>4, <1>6, <1>7, <2>1, <2>8 DEF InlineHolds, NotYet
  <2> QED BY <2>3, <2>7, <2>9
<1>10. ~Touched(s) => PartsHold(s)' /\ Held(s)'
  BY <1>2, <1>5 DEF Good, Followed, PartsHold, Held
<1>11. Good(s)'
  BY <1>4, <1>8, <1>9, <1>10 DEF Good, Followed
<1> QED BY <1>2, <1>3, <1>5, <1>7, <1>11, SourceStep

LEMMA ReportIInv == ASSUME IInv, NEW s \in Source, Report(s) PROVE IInv'
<1>1. /\ s \in Described /\ phase = "execute" /\ row[s] = NotYet /\ step[s] = "report" /\ Good(s)
      /\ step' = [step EXCEPT ![s] = "ended"] /\ row' = [row EXCEPT ![s] = Success(plan[s])]
      /\ UNCHANGED <<docs, keepGoing, phase, listed, seen, plan, todo, disturbed, source, profile,
                     included, fresh, parts>>
  BY DoesFacts DEF Report, SetRow, input, server, reads
<1>2. /\ source \in [Source -> {Absent} \cup SourceType] /\ todo \in [Source -> TodoType]
      /\ profile \in [Profile -> {Absent} \cup Setting] /\ included \subseteq Source \X Profile
      /\ fresh \subseteq Profile /\ Placed /\ parts \in [Source -> SUBSET Parts]
      /\ step \in [Source -> Step]
      /\ row \in [Source -> Result]
  BY DEF IInv, Typed, TypeOK, Parts
<1>3. Placed' /\ \A t \in Source : ProfilesOf(t, included)' = ProfilesOf(t, included)
  BY <1>1, <1>2 DEF Placed, ProfilesOf
<1>4. Success(plan[s]) \in {"Created", "Updated", "Unchanged"}
  BY DEF Success
<1>5. /\ step' \in [Source -> Step] /\ step'[s] = "ended" /\ row'[s] = Success(plan[s])
      /\ row' \in [Source -> Result]
      /\ \A t \in Source \ {s} : step'[t] = step[t] /\ row'[t] = row[t]
  BY <1>1, <1>2, <1>4 DEF Step, Result
<1>6. Touched(s)' = Touched(s) /\ Agreed(s)' = Agreed(s)
  BY <1>1 DEF Touched, Agreed, Described
<1>7. StepOrder(s)' /\ PlanFits(s)'
  BY <1>1, <1>4, <1>5 DEF Good, StepOrder, PlanFits, NotYet
<1>8. ~Touched(s) => LeftIsDifference(s)' /\ SourceFollows(s)'
  BY <1>1, <1>3, <1>5 DEF Good, Followed, LeftIsDifference, SourceFollows, Unwritten
<1>9. ~Touched(s) => InlineHolds(s)'
  BY <1>1, <1>6 DEF Good, Followed, InlineHolds, NotYet
<1>10. ~Touched(s) => PartsHold(s)' /\ Held(s)'
  BY <1>1, <1>3 DEF Good, Followed, PartsHold, Held
<1>11. Good(s)'
  BY <1>6, <1>7, <1>8, <1>9, <1>10 DEF Good, Followed
<1> QED BY <1>1, <1>2, <1>3, <1>5, <1>11, SourceStep

-----------------------------------------------------------------------------
(* The theorems.                                                             *)

LEMMA NextIInv == ASSUME IInv, [Next]_vars PROVE IInv'
<1>1. CASE UNCHANGED vars
  <2>1. UNCHANGED <<docs, keepGoing, server, phase, listed, seen, plan, fresh, step, todo, parts,
                    row, disturbed>>
    BY <1>1 DEF vars, input, reads, work
  <2>2. ReadsHold'
    BY <2>1 DEF IInv, ReadsHold, server
  <2>3. /\ listed \subseteq Source /\ fresh \subseteq Profile
        /\ phase \in {"preflight", "profiles", "plan", "execute", "done", "refused"}
        /\ seen \in [profile : [Profile -> {Absent} \cup Setting], included : SUBSET (Source \X Profile)]
    BY DEF IInv, Typed, TypeOK
  <2> QED BY <2>1, <2>2, <2>3, QuietStep
<1> QED BY <1>1, OtherOperatorIInv, PlanningIInv, PlanOneIInv, BeginIInv, PassIInv, ReportIInv,
           WriteProfileIInv, UploadIInv, AttachIInv, DetachIInv, SwitchSourceIInv DEF Next

\* What the step of each source says about it holds throughout every apply.
THEOREM Strengthened == Spec => []IInv
<1>1. IInv /\ [Next]_vars => IInv'
  BY NextIInv
<1> QED BY InitIInv, <1>1, PTL DEF Spec

\* A row that reports a document as applied is true in all its parts, and the parts that a
\* row names were done: nobody else touching them, after any failure of an earlier apply or
\* of this one, for any documents.
THEOREM RowsHold == Spec => []DataCollectionInv
<1>1. ASSUME IInv PROVE DataCollectionInv
  <2>1. TypeOK
    BY <1>1 DEF IInv, Typed
  <2>2. ASSUME NEW s \in Described, Succeeded(s), ~Touched(s)
        PROVE  /\ source[s] = [tree |-> "want", enabled |-> docs[s].enabled]
               /\ ProfilesOf(s, included) = docs[s].profiles
               /\ docs[s].spec # Absent /\ Agreed(s) => profile[docs[s].spec] = docs[s].setting
    <3>1. LeftIsDifference(s) /\ SourceFollows(s) /\ InlineHolds(s)
      BY <1>1, <2>2 DEF IInv, Good, Followed
    <3>2. source[s] # Absent /\ source[s].tree = "want" /\ source[s].enabled = docs[s].enabled
      BY <2>2, <3>1 DEF SourceFollows
    <3>3. s \in Source /\ source[s] \in SourceType
      BY <1>1, <2>1, <3>2, DocIsRecord DEF IInv, Typed
    <3>4. source[s] = [tree |-> "want", enabled |-> docs[s].enabled]
      BY <3>2, <3>3 DEF SourceType
    <3> QED BY <2>2, <3>1, <3>4 DEF LeftIsDifference, InlineHolds
  <2>3. RowsAreTrue
    BY <2>2 DEF RowsAreTrue
  <2>4. PartsAreTrue
    BY <1>1 DEF PartsAreTrue, IInv, Good, Followed, PartsHold
  <2> QED BY <2>1, <2>3, <2>4 DEF DataCollectionInv
<1> QED BY <1>1, Strengthened, PTL

\* A source that is moved between profiles stays in one at every moment, whatever fails.
THEOREM SourceIsHeld == Spec => []NeverOrphaned
<1>1. IInv => NeverOrphaned
  BY DEF NeverOrphaned, IInv, Good, Followed, Held
<1> QED BY <1>1, Strengthened, PTL
=============================================================================
