----------------------------- MODULE GraphProofs -----------------------------
(***************************************************************************)
(* Applies of graphs, for any documents, uploads and number of acts of     *)
(* others: a row tells what became of the upload, a success without a      *)
(* warning is what the topology shows, a create replaces nothing and one   *)
(* failure is the last.  The argument follows one upload nobody else has   *)
(* touched through the steps of its document, and what the server lists    *)
(* of it meanwhile.                                                        *)
(***************************************************************************)
EXTENDS GraphApply, TLAPS

Box == [spec : {"want", "other", "broken"}, box : Graph \cup {OtherBox}]

\* The types in full, as functions.
Typed ==
    /\ TypeOK
    /\ stored \in [Graph -> Box \cup {Absent}] /\ shown \in [Graph -> Box \cup {Absent}]
    /\ saved \in [Graph -> Box \cup {Absent}]

\* One document is worked on at a time, and only while the apply executes.
OneAtATime ==
    /\ current = Nobody <=> step = "idle"
    /\ current # Nobody => phase = "execute"

\* The failure that halts is the only one, and nothing is worked on after it.
Halting ==
    ~keepGoing =>
        /\ \A g, h \in Graph : row[g] \in Failures /\ row[h] \in Failures => g = h
        /\ current # Nobody => \A g \in Graph : row[g] \notin Failures

\* The step of a document, "idle" before and after.
StepOf(g) == IF current = g THEN step ELSE "idle"

\* A document is worked on as planned, and its row ends it.
Shape(g) ==
    /\ plan[g] # NotYet => plan[g] = PlannedAction(g)
    /\ phase \in {"execute", "done"} => plan[g] # NotYet
    /\ phase = "plan" => row[g] = NotYet
    /\ StepOf(g) # "idle" => row[g] = NotYet /\ plan[g] \in {"create", "update"}
    /\ StepOf(g) \in {"delete", "removal", "post of vanished", "rollback", "reloading"} =>
          plan[g] = "update"

Untried(g) == StepOf(g) = "delete" \/ (StepOf(g) = "idle" /\ row[g] = NotYet)

\* The upload of a document that nobody else touched, at each step and after each row.
Stored(g) ==
    /\ Untried(g) /\ plan[g] # NotYet => stored[g] = saved[g]
    /\ StepOf(g) \in {"removal", "post"} => stored[g] = Absent
    /\ StepOf(g) # "post of vanished"
    /\ StepOf(g) = "loading" \/ row[g] \in {"Created", "Updated", "Unchanged"} =>
          stored[g] = Want(g)
    /\ StepOf(g) = "rollback" \/ row[g] = "now absent" => g \in lost \/ stored[g] = Absent
    /\ StepOf(g) = "reloading" \/ row[g] \in {"Skipped", "rolled back"} => stored[g] = saved[g]
    /\ row[g] \in {"stored graph is unchanged", "failed"} => g \in lost \/ stored[g] = saved[g]

\* The container that is listed for it.
Shown(g) ==
    /\ Untried(g) => shown[g] \in {Absent, stored[g]}
    /\ StepOf(g) = "removal" => shown[g] \in {Absent, saved[g]}
    /\ StepOf(g) = "post" /\ g \notin warned => shown[g] = Absent \/ shown[g].box # g
    /\ StepOf(g) = "loading" /\ g \notin warned /\ shown[g] # Absent /\ shown[g].box = g =>
          shown[g] = Want(g) /\ g \notin stale
    /\ row[g] \in {"Created", "Updated"} /\ g \notin warned => shown[g] = Want(g) /\ g \notin stale

Good(g) == Shape(g) /\ (g \notin disturbed => Stored(g) /\ Shown(g))

IInv ==
    /\ Typed /\ OneAtATime /\ Halting
    /\ \A g \in Graph : Good(g)

-----------------------------------------------------------------------------
(* What the server may hold, the initial states, and what a step leaves alone. *)

Steps == {"idle", "delete", "removal", "post", "post of vanished", "loading", "rollback",
          "reloading"}

LEMMA ContentsFacts ==
    ASSUME NEW g \in Graph
    PROVE  /\ Contents(g) \subseteq Box /\ Absent \notin Box /\ Want(g) \in Contents(g)
           /\ Absent \notin Contents(g) /\ Want(g) # Absent
           /\ \A c \in Contents(g) : c.box \in {g, OtherBox}
           /\ OtherBox \notin Graph /\ Nobody \notin Graph
<1>1. /\ OtherBox \notin Graph /\ Nobody \notin Graph /\ Absent \notin Box
      /\ Found[g] \subseteq [spec : {"other", "broken"}, box : {g, OtherBox}]
  BY GraphAssumption DEF GraphAssumption, Box
<1>2. Want(g) \in Box /\ Want(g).box = g
  BY DEF Want, Box
<1>3. \A c \in Found[g] : c \in Box /\ c.box \in {g, OtherBox}
  BY <1>1 DEF Box
<1> QED BY <1>1, <1>2, <1>3 DEF Contents

\* What is planned says what was read.
LEMMA PlannedFacts ==
    ASSUME NEW g \in Graph
    PROVE  /\ PlannedAction(g) \in {"create", "none", "update"}
           /\ PlannedAction(g) = "create" <=> saved[g] = Absent
           /\ PlannedAction(g) = "none" <=> saved[g] = Want(g)
<1>1. Want(g) # Absent
  BY ContentsFacts
<1> QED BY <1>1 DEF PlannedAction

LEMMA ContentTypes ==
    ASSUME IInv, NEW g \in Graph
    PROVE  /\ stored[g] \in Contents(g) \cup {Absent} /\ shown[g] \in Contents(g) \cup {Absent}
           /\ saved[g] \in Contents(g) \cup {Absent}
<1>1. {stored[g], shown[g], saved[g]} \subseteq Contents(g) \cup {Absent}
  BY DEF IInv, Typed, TypeOK
<1> QED BY <1>1

LEMMA InitIInv == Init => IInv
<1> SUFFICES ASSUME Init PROVE IInv
  OBVIOUS
<1> USE DEF Init
<1>1. stored \in [Graph -> Box \cup {Absent}] /\ shown \in [Graph -> Box \cup {Absent}]
  <2>1. \A g \in Graph : stored[g] \in Box \cup {Absent} /\ shown[g] \in Box \cup {Absent}
    BY ContentsFacts
  <2> QED BY <2>1
<1>2. saved \in [Graph -> Box \cup {Absent}]
  OBVIOUS
<1>3. \A g \in Graph : {stored[g], shown[g], saved[g]} \subseteq Contents(g) \cup {Absent}
  OBVIOUS
<1>4. TypeOK
  BY <1>3 DEF TypeOK, NotYet
<1>5. OneAtATime /\ Halting
  BY DEF OneAtATime, Halting, Failures, NotYet
<1>6. ASSUME NEW g \in Graph PROVE Good(g)
  <2>1. StepOf(g) = "idle" /\ row[g] = NotYet /\ plan[g] = NotYet /\ phase = "plan"
    BY DEF StepOf
  <2>2. Shape(g)
    BY <2>1 DEF Shape
  <2>3. Stored(g) /\ Shown(g)
    BY <2>1 DEF Stored, Shown, Untried, NotYet
  <2> QED BY <2>2, <2>3 DEF Good
<1> QED BY <1>1, <1>2, <1>4, <1>5, <1>6 DEF IInv, Typed

\* What is known of an upload that a step leaves alone stays known.
LEMMA Frame ==
    ASSUME NEW g \in Graph, Good(g), StepOf(g)' = StepOf(g),
           row'[g] = row[g], plan'[g] = plan[g], saved'[g] = saved[g],
           phase' = "plan" => phase = "plan",
           phase' \in {"execute", "done"} => plan[g] # NotYet,
           g \notin disturbed' =>
               /\ g \notin disturbed /\ stored'[g] = stored[g] /\ shown'[g] = shown[g]
               /\ g \in stale' => g \in stale,
           g \in lost => g \in lost', g \in warned => g \in warned'
    PROVE  Good(g)'
<1>1. PlannedAction(g)' = PlannedAction(g) /\ Want(g)' = Want(g) /\ Untried(g)' = Untried(g)
  BY DEF PlannedAction, Want, Untried
<1>2. Shape(g)'
  BY <1>1 DEF Good, Shape
<1>3. g \notin disturbed' => Stored(g)'
  BY <1>1 DEF Good, Stored
<1>4. g \notin disturbed' => Shown(g)'
  BY <1>1 DEF Good, Shown
<1> QED BY <1>2, <1>3, <1>4 DEF Good

\* A step that changes neither the server nor what is worked on.
LEMMA QuietStep ==
    ASSUME IInv, UNCHANGED <<input, server, plan, saved, current, step, row, notes>>,
           phase' \in {"execute", "done", "refused"},
           phase' \in {"execute", "done"} => \A g \in Graph : plan[g] # NotYet,
           current # Nobody => phase' = "execute"
    PROVE  IInv'
<1> USE DEF input, server, notes
<1>1. Typed'
  BY DEF IInv, Typed, TypeOK, Contents
<1>2. OneAtATime' /\ Halting'
  BY DEF IInv, OneAtATime, Halting
<1>3. ASSUME NEW g \in Graph PROVE Good(g)'
  <2>1. StepOf(g)' = StepOf(g)
    BY DEF StepOf
  <2> QED BY <2>1, Frame DEF IInv
<1> QED BY <1>1, <1>2, <1>3 DEF IInv

LEMMA PlanEndsIInv == ASSUME IInv, CheckOwners \/ PlanFails \/ Finish PROVE IInv'
<1>1. CASE CheckOwners
  <2>1. current = Nobody
    BY <1>1 DEF CheckOwners, IInv, OneAtATime
  <2> QED BY <1>1, <2>1, QuietStep DEF CheckOwners
<1>2. CASE PlanFails
  <2>1. current = Nobody
    BY <1>2 DEF PlanFails, IInv, OneAtATime
  <2> QED BY <1>2, <2>1, QuietStep DEF PlanFails
<1>3. CASE Finish
  <2>1. current = Nobody
    <3>1. ASSUME current # Nobody PROVE FALSE
      <4>1. current \in Graph /\ step # "idle" /\ Shape(current)
        BY <3>1 DEF IInv, Typed, TypeOK, OneAtATime, Good
      <4> QED BY <1>3, <4>1 DEF Finish, Shape, StepOf
    <3> QED BY <3>1
  <2>2. \A g \in Graph : plan[g] # NotYet
    BY <1>3 DEF Finish, IInv, Good, Shape
  <2> QED BY <1>3, <2>1, <2>2, QuietStep DEF Finish
<1> QED BY <1>1, <1>2, <1>3

-----------------------------------------------------------------------------
(* The server, others, and planning.                                         *)

LEMMA RemoveShape ==
    ASSUME IInv, NEW g \in Graph, Remove(g)
    PROVE  /\ stored' \in [Graph -> Box \cup {Absent}] /\ stored'[g] = Absent
           /\ shown' = shown /\ stale' \subseteq {h \in Graph : shown'[h] # Absent}
           /\ stuck' \subseteq {h \in Graph : stored'[h] # Absent}
           /\ \A h \in Graph \ {g} : stored'[h] = stored[h] /\ (h \in stale' <=> h \in stale)
<1>1. /\ stored \in [Graph -> Box \cup {Absent}] /\ stale \subseteq {h \in Graph : shown[h] # Absent}
      /\ stuck \subseteq {h \in Graph : stored[h] # Absent}
  BY DEF IInv, Typed, TypeOK
<1> QED BY <1>1 DEF Remove

LEMMA UploadShape ==
    ASSUME IInv, NEW g \in Graph, NEW c \in Contents(g), Upload(g, c)
    PROVE  /\ stored' \in [Graph -> Box \cup {Absent}] /\ stored'[g] = c
           /\ shown' = shown /\ stale' = stale
           /\ stuck' \subseteq {h \in Graph : stored'[h] # Absent}
           /\ \A h \in Graph \ {g} : stored'[h] = stored[h]
<1>1. /\ stored \in [Graph -> Box \cup {Absent}]
      /\ stuck \subseteq {h \in Graph : stored[h] # Absent}
  BY DEF IInv, Typed, TypeOK
<1>2. c \in Box /\ c # Absent
  BY ContentsFacts
<1> QED BY <1>1, <1>2 DEF Upload

LEMMA OtherOperatorIInv == ASSUME IInv, NEW g \in Graph, OtherOperator(g) PROVE IInv'
<1>1. /\ UNCHANGED <<keepGoing, foreign, phase, plan, saved, current, step, row, warned, lost>>
      /\ disturbed' = disturbed \cup {g}
      /\ Remove(g) \/ \E c \in Found[g] : Upload(g, c)
  BY DEF OtherOperator, input
<1>2. \E c \in Contents(g) \cup {Absent} :
         /\ stored' \in [Graph -> Box \cup {Absent}] /\ stored'[g] = c
         /\ shown' = shown /\ stale' \subseteq {h \in Graph : shown'[h] # Absent}
         /\ stuck' \subseteq {h \in Graph : stored'[h] # Absent}
         /\ \A h \in Graph \ {g} : stored'[h] = stored[h] /\ (h \in stale' <=> h \in stale)
  <2>1. CASE Remove(g)
    BY <2>1, RemoveShape
  <2>2. CASE \E c \in Found[g] : Upload(g, c)
    <3>1. PICK c \in Found[g] : Upload(g, c)
      BY <2>2
    <3>2. c \in Contents(g) /\ stale \subseteq {h \in Graph : shown[h] # Absent}
      BY DEF Contents, IInv, Typed, TypeOK
    <3> QED BY <3>1, <3>2, UploadShape
  <2> QED BY <1>1, <2>1, <2>2
<1>3. \A h \in Graph : stored'[h] \in Contents(h) \cup {Absent}
  BY <1>2 DEF IInv, Typed, TypeOK
<1>4. Typed'
  <2>1. ASSUME NEW h \in Graph
        PROVE  {stored'[h], shown'[h], saved'[h]} \subseteq Contents(h) \cup {Absent}
    <3>1. /\ stored'[h] \in Contents(h) \cup {Absent} /\ shown'[h] \in Contents(h) \cup {Absent}
          /\ saved'[h] \in Contents(h) \cup {Absent}
      BY <1>1, <1>2, <1>3, ContentTypes
    <3> QED BY <3>1
  <2> QED BY <1>1, <1>2, <2>1 DEF IInv, Typed, TypeOK, Contents, Want
<1>5. OneAtATime' /\ Halting'
  BY <1>1 DEF IInv, OneAtATime, Halting
<1>6. ASSUME NEW h \in Graph PROVE Good(h)'
  <2>1. StepOf(h)' = StepOf(h) /\ Good(h)
    BY <1>1 DEF StepOf, IInv
  <2>2. h \notin disturbed' =>
            /\ h \notin disturbed /\ stored'[h] = stored[h] /\ shown'[h] = shown[h]
            /\ h \in stale' => h \in stale
    BY <1>1, <1>2
  <2> QED BY <1>1, <2>1, <2>2, Frame DEF Good, Shape
<1> QED BY <1>4, <1>5, <1>6 DEF IInv

LEMMA ListIInv == ASSUME IInv, NEW g \in Graph, Load(g) \/ Unload(g) PROVE IInv'
<1>1. /\ UNCHANGED <<keepGoing, foreign, stored, stuck, phase, plan, saved, current, step, row,
                     warned, lost, disturbed>>
      /\ \/ shown[g] = Absent /\ shown' = [shown EXCEPT ![g] = stored[g]] /\ stale' = stale
         \/ g \in stale /\ shown' = [shown EXCEPT ![g] = Absent] /\ stale' = stale \ {g}
  BY DEF Load, Unload, input, notes
<1>2. /\ shown' \in [Graph -> Box \cup {Absent}] /\ shown'[g] \in {stored[g], Absent}
      /\ \A h \in Graph \ {g} : shown'[h] = shown[h] /\ (h \in stale' <=> h \in stale)
      /\ stale' \subseteq {h \in Graph : shown'[h] # Absent} /\ g \notin stale'
  BY <1>1 DEF IInv, Typed, TypeOK
<1>3. Typed'
  <2>1. ASSUME NEW h \in Graph
        PROVE  {stored'[h], shown'[h], saved'[h]} \subseteq Contents(h) \cup {Absent}
    <3>1. /\ stored'[h] \in Contents(h) \cup {Absent} /\ shown'[h] \in Contents(h) \cup {Absent}
          /\ saved'[h] \in Contents(h) \cup {Absent}
      BY <1>1, <1>2, ContentTypes
    <3> QED BY <3>1
  <2> QED BY <1>1, <1>2, <2>1 DEF IInv, Typed, TypeOK, Contents, Want
<1>4. OneAtATime' /\ Halting'
  BY <1>1 DEF IInv, OneAtATime, Halting
<1>5. ASSUME NEW h \in Graph, h # g PROVE Good(h)'
  <2>1. StepOf(h)' = StepOf(h) /\ Good(h)
    BY <1>1 DEF StepOf, IInv
  <2> QED BY <1>1, <1>2, <1>5, <2>1, Frame DEF Good, Shape
<1>6. Good(g)'
  <2>1. StepOf(g)' = StepOf(g) /\ Good(g) /\ PlannedAction(g)' = PlannedAction(g)
        /\ Want(g)' = Want(g) /\ Untried(g)' = Untried(g)
    BY <1>1 DEF StepOf, IInv, PlannedAction, Want, Untried
  <2>2. Shape(g)'
    BY <1>1, <2>1 DEF Good, Shape
  <2>3. ASSUME g \notin disturbed PROVE Stored(g)' /\ Shown(g)'
    <3>1. Stored(g) /\ Shown(g)
      BY <2>1, <2>3 DEF Good
    <3>2. Stored(g)'
      BY <1>1, <2>1, <3>1 DEF Stored
    <3>3. CASE shown[g] = Absent /\ shown'[g] = stored[g]
      <4>1. row[g] \in {"Created", "Updated"} /\ g \notin warned => FALSE
        BY <3>1, <3>3, ContentsFacts DEF Shown
      <4>2. StepOf(g) \in {"removal", "post"} => shown'[g] = Absent
        BY <3>1, <3>3 DEF Stored
      <4>3. StepOf(g) = "loading" => shown'[g] = Want(g)
        BY <3>1, <3>3 DEF Stored
      <4> QED BY <1>1, <1>2, <2>1, <3>1, <3>2, <3>3, <4>1, <4>2, <4>3 DEF Shown
    <3>4. CASE g \in stale /\ shown'[g] = Absent
      BY <1>1, <1>2, <2>1, <3>1, <3>2, <3>4 DEF Shown
    <3> QED BY <1>1, <1>2, <3>3, <3>4 DEF IInv, Typed
  <2> QED BY <1>1, <2>2, <2>3 DEF Good
<1> QED BY <1>3, <1>4, <1>5, <1>6 DEF IInv

LEMMA ReadUploadIInv == ASSUME IInv, NEW g \in Graph, ReadUpload(g) PROVE IInv'
<1>1. /\ phase = "plan" /\ saved' = [saved EXCEPT ![g] = stored[g]]
      /\ plan' = [plan EXCEPT ![g] = PlannedAction(g)']
      /\ UNCHANGED <<keepGoing, foreign, stored, shown, stale, stuck, phase, current, step, row,
                     warned, lost, disturbed>>
  BY DEF ReadUpload, input, server, notes
<1>2. /\ saved' \in [Graph -> Box \cup {Absent}] /\ saved'[g] = stored[g]
      /\ \A h \in Graph \ {g} : saved'[h] = saved[h]
  BY <1>1 DEF IInv, Typed
<1>3. PlannedAction(g)' \in {"create", "none", "update"}
  BY <1>2, ContentsFacts DEF PlannedAction, Want
<1>4. /\ plan' \in [Graph -> {NotYet, "create", "update", "none"}] /\ plan'[g] = PlannedAction(g)'
      /\ \A h \in Graph \ {g} : plan'[h] = plan[h]
  BY <1>1, <1>3 DEF IInv, Typed, TypeOK
<1>5. Typed'
  <2>1. ASSUME NEW h \in Graph
        PROVE  {stored'[h], shown'[h], saved'[h]} \subseteq Contents(h) \cup {Absent}
    <3>1. /\ stored'[h] \in Contents(h) \cup {Absent} /\ shown'[h] \in Contents(h) \cup {Absent}
          /\ saved'[h] \in Contents(h) \cup {Absent}
      BY <1>1, <1>2, ContentTypes
    <3> QED BY <3>1
  <2> QED BY <1>1, <1>2, <1>4, <2>1 DEF IInv, Typed, TypeOK, Contents, Want
<1>6. OneAtATime' /\ Halting'
  BY <1>1 DEF IInv, OneAtATime, Halting
<1>7. ASSUME NEW h \in Graph, h # g PROVE Good(h)'
  <2>1. StepOf(h)' = StepOf(h) /\ Good(h)
    BY <1>1 DEF StepOf, IInv
  <2> QED BY <1>1, <1>2, <1>4, <1>7, <2>1, Frame
<1>8. Good(g)'
  <2>1. current = Nobody /\ Nobody \notin Graph
    BY <1>1, ContentsFacts DEF IInv, OneAtATime
  <2>2. StepOf(g)' = "idle" /\ StepOf(g) = "idle" /\ row[g] = NotYet /\ Good(g)
    BY <1>1, <2>1 DEF StepOf, IInv, Good, Shape
  <2>3. Shape(g)'
    BY <1>1, <1>4, <2>2 DEF Shape
  <2>4. g \notin disturbed => Stored(g)' /\ Shown(g)'
    BY <1>1, <1>2, <2>2 DEF Good, Stored, Shown, Untried, NotYet
  <2> QED BY <1>1, <2>3, <2>4 DEF Good
<1> QED BY <1>5, <1>6, <1>7, <1>8 DEF IInv

-----------------------------------------------------------------------------
(* Executing: a step is one document's, on the server and in the client.     *)

\* The server's part of a step changes one upload, and lists no other container.
ServerStep(g) ==
    /\ stored' \in [Graph -> Box \cup {Absent}] /\ stored'[g] \in Contents(g) \cup {Absent}
    /\ shown' = shown /\ stale' \subseteq {h \in Graph : shown'[h] # Absent}
    /\ stuck' \subseteq {h \in Graph : stored'[h] # Absent}
    /\ \A h \in Graph \ {g} : stored'[h] = stored[h] /\ (h \in stale' <=> h \in stale)

\* The client's part changes what is worked on and one row.
ClientStep(g) ==
    /\ current \in {g, Nobody} /\ current' \in {g, Nobody} /\ step' \in Steps
    /\ current' = Nobody <=> step' = "idle"
    /\ row' \in [Graph -> Rows \cup {NotYet}] /\ \A h \in Graph \ {g} : row'[h] = row[h]
    /\ Halting'

LEMMA GraphStep ==
    ASSUME IInv, NEW g \in Graph, phase = "execute", ServerStep(g), ClientStep(g),
           UNCHANGED <<keepGoing, foreign, phase, plan, saved, disturbed>>,
           warned \subseteq warned', warned' \subseteq Graph, lost \subseteq lost', lost' \subseteq Graph,
           Good(g)'
    PROVE  IInv'
<1>1. Nobody \notin Graph
  BY ContentsFacts
<1>2. Typed'
  <2>1. ASSUME NEW h \in Graph
        PROVE  {stored'[h], shown'[h], saved'[h]} \subseteq Contents(h) \cup {Absent}
    <3>1. /\ stored'[h] \in Contents(h) \cup {Absent} /\ shown'[h] \in Contents(h) \cup {Absent}
          /\ saved'[h] \in Contents(h) \cup {Absent}
      BY ContentTypes DEF ServerStep
    <3> QED BY <3>1
  <2>2. TypeOK'
    BY <2>1 DEF IInv, Typed, TypeOK, ServerStep, ClientStep, Steps, Contents, Want
  <2> QED BY <2>2 DEF IInv, Typed, ServerStep
<1>3. OneAtATime' /\ Halting'
  BY DEF OneAtATime, ClientStep
<1>4. ASSUME NEW h \in Graph, h # g PROVE Good(h)'
  <2>1. StepOf(h)' = StepOf(h) /\ Good(h)
    BY <1>1, <1>4 DEF StepOf, IInv, ClientStep
  <2> QED BY <1>4, <2>1, Frame DEF ServerStep, ClientStep, Good, Shape
<1> QED BY <1>2, <1>3, <1>4 DEF IInv

LEMMA SameServer == ASSUME IInv, NEW g \in Graph, UNCHANGED server PROVE ServerStep(g)
BY ContentTypes DEF IInv, Typed, TypeOK, server, ServerStep

LEMMA GotoShape ==
    ASSUME IInv, NEW g \in Graph, current = g, NEW next \in Steps \ {"idle"}, Goto(next),
           UNCHANGED keepGoing
    PROVE  ClientStep(g) /\ StepOf(g)' = next /\ row' = row
<1>1. Nobody \notin Graph
  BY ContentsFacts
<1> QED BY <1>1 DEF Goto, ClientStep, StepOf, IInv, Typed, TypeOK, Halting

LEMMA EndShape ==
    ASSUME IInv, NEW g \in Graph, current = g, NEW outcome \in Rows, End(g, outcome),
           UNCHANGED keepGoing
    PROVE  ClientStep(g) /\ StepOf(g)' = "idle" /\ row'[g] = outcome
<1>1. Nobody \notin Graph /\ row \in [Graph -> Rows \cup {NotYet}]
  BY ContentsFacts DEF IInv, Typed, TypeOK
<1>2. /\ row' \in [Graph -> Rows \cup {NotYet}] /\ row'[g] = outcome
      /\ \A h \in Graph \ {g} : row'[h] = row[h]
  BY <1>1 DEF End
<1>3. Halting'
  BY <1>1, <1>2 DEF Halting, IInv, End
<1> QED BY <1>1, <1>2, <1>3 DEF End, ClientStep, StepOf, Steps

\* The graph that is worked on.
LEMMA CurrentFacts ==
    ASSUME IInv, NEW g \in Graph, current = g, step # "idle"
    PROVE  /\ phase = "execute" /\ StepOf(g) = step /\ row[g] = NotYet /\ Good(g)
           /\ plan[g] \in {"create", "update"} /\ plan[g] = PlannedAction(g)
           /\ plan[g] = "create" <=> saved[g] = Absent
           /\ warned \subseteq Graph /\ lost \subseteq Graph
<1>1. phase = "execute" /\ Good(g) /\ StepOf(g) = step
  BY ContentsFacts DEF IInv, OneAtATime, StepOf
<1>2. Shape(g) /\ plan[g] # NotYet
  BY <1>1 DEF Good, Shape, NotYet
<1> QED BY <1>1, <1>2, PlannedFacts DEF Shape, NotYet, IInv, Typed, TypeOK

LEMMA BeginIInv == ASSUME IInv, NEW g \in Graph, Begin(g) PROVE IInv'
<1>1. /\ phase = "execute" /\ current = Nobody /\ row[g] = NotYet /\ Good(g) /\ StepOf(g) = "idle"
      /\ Nobody \notin Graph /\ step = "idle"
      /\ UNCHANGED <<keepGoing, foreign, stored, shown, stale, stuck, phase, plan, saved, warned,
                     lost, disturbed>>
  BY ContentsFacts DEF Begin, IInv, OneAtATime, StepOf, input, server, notes
<1>2. /\ row \in [Graph -> Rows \cup {NotYet}] /\ warned \subseteq Graph /\ lost \subseteq Graph
      /\ plan[g] # NotYet /\ plan[g] = PlannedAction(g)
  BY <1>1 DEF IInv, Typed, TypeOK, Good, Shape
<1>3. ServerStep(g)
  BY <1>1, SameServer DEF server
<1>4. PlannedAction(g)' = PlannedAction(g) /\ Want(g)' = Want(g)
  BY <1>1 DEF PlannedAction, Want
<1>5. ASSUME NEW r \in {"Skipped", "Unchanged"}, row' = [row EXCEPT ![g] = r],
             UNCHANGED <<current, step>>, r = "Unchanged" => plan[g] = "none"
      PROVE  IInv'
  <2>1. /\ row' \in [Graph -> Rows \cup {NotYet}] /\ row'[g] = r
        /\ \A h \in Graph \ {g} : row'[h] = row[h]
    BY <1>2, <1>5 DEF Rows
  <2>2. ClientStep(g)
    <3>1. Halting'
      BY <1>1, <1>5, <2>1 DEF IInv, Halting, Failures
    <3> QED BY <1>1, <1>5, <2>1, <3>1 DEF ClientStep, Steps
  <2>3. StepOf(g)' = "idle"
    BY <1>1, <1>5 DEF StepOf
  <2>4. Shape(g)'
    BY <1>1, <1>2, <1>4, <2>3 DEF Shape
  <2>5. g \notin disturbed => Stored(g)' /\ Shown(g)'
    <3>1. r = "Unchanged" => saved[g] = Want(g)
      BY <1>2, <1>5, PlannedFacts
    <3> QED BY <1>1, <1>2, <1>4, <2>1, <2>3, <3>1 DEF Good, Stored, Shown, Untried, NotYet
  <2>6. Good(g)'
    BY <1>1, <2>4, <2>5 DEF Good
  <2> QED BY <1>1, <1>2, <1>3, <2>2, <2>6, GraphStep
<1>6. ASSUME ~Halted, plan[g] # "none", current' = g, step' = FirstStep(plan[g]), UNCHANGED row
      PROVE  IInv'
  <2>1. plan[g] \in {"create", "update"} /\ (plan[g] = "create" <=> saved[g] = Absent)
    BY <1>2, <1>6, PlannedFacts
  <2>2. step' = (IF plan[g] = "create" THEN "post" ELSE "delete")
    BY <1>6 DEF FirstStep
  <2>3. ClientStep(g)
    <3>1. Halting'
      BY <1>1, <1>6 DEF IInv, Halting, Halted
    <3> QED BY <1>1, <1>2, <1>6, <2>2, <3>1 DEF ClientStep, Steps
  <2>4. StepOf(g)' = step'
    BY <1>6 DEF StepOf
  <2>5. Shape(g)'
    BY <1>1, <1>2, <1>4, <1>6, <2>1, <2>2, <2>4 DEF Shape
  <2>6. g \notin disturbed => Stored(g)' /\ Shown(g)'
    BY <1>1, <1>2, <1>4, <1>6, <2>1, <2>2, <2>4 DEF Good, Stored, Shown, Untried, NotYet
  <2>7. Good(g)'
    BY <1>1, <2>5, <2>6 DEF Good
  <2> QED BY <1>1, <1>2, <1>3, <2>3, <2>7, GraphStep
<1> QED BY <1>5, <1>6 DEF Begin

LEMMA DeleteIInv == ASSUME IInv, NEW g \in Graph, Delete(g) PROVE IInv'
<1>1. /\ current = g /\ step = "delete"
      /\ UNCHANGED <<keepGoing, foreign, phase, plan, saved, warned, disturbed>>
      /\ \/ /\ stored[g] # Absent /\ Remove(g)
            /\ \/ Goto("removal") /\ UNCHANGED lost
               \/ End(g, "stored graph is unchanged") /\ lost' = lost \cup {g}
         \/ /\ stored[g] = Absent /\ Goto("post of vanished") /\ UNCHANGED <<server, lost>>
         \/ End(g, "stored graph is unchanged") /\ UNCHANGED <<server, lost>>
  BY DEF Delete, AfterDelete, input
<1>2. /\ phase = "execute" /\ StepOf(g) = "delete" /\ row[g] = NotYet /\ Good(g) /\ plan[g] = "update"
      /\ plan[g] = PlannedAction(g) /\ saved[g] # Absent /\ warned \subseteq Graph /\ lost \subseteq Graph
  BY <1>1, CurrentFacts DEF Good, Shape
<1>3. PlannedAction(g)' = PlannedAction(g) /\ Want(g)' = Want(g)
  BY <1>1 DEF PlannedAction, Want
<1>4. g \notin disturbed => stored[g] = saved[g] /\ shown[g] \in {Absent, saved[g]}
  BY <1>2 DEF Good, Stored, Shown, Untried, NotYet
<1>5. "stored graph is unchanged" \in Rows
  BY DEF Rows, Failures
<1>6. CASE Remove(g) /\ Goto("removal") /\ UNCHANGED lost
  <2>1. ServerStep(g) /\ stored'[g] = Absent /\ shown' = shown
    BY <1>6, RemoveShape DEF ServerStep
  <2>2. ClientStep(g) /\ StepOf(g)' = "removal" /\ row' = row
    BY <1>1, <1>6, GotoShape DEF Steps
  <2>3. Shape(g)'
    BY <1>1, <1>2, <1>3, <2>2 DEF Shape, NotYet
  <2>4. g \notin disturbed => Stored(g)' /\ Shown(g)'
    BY <1>1, <1>2, <1>4, <2>1, <2>2 DEF Stored, Shown, Untried, NotYet
  <2>5. Good(g)'
    BY <1>1, <2>3, <2>4 DEF Good
  <2> QED BY <1>1, <1>2, <1>6, <2>1, <2>2, <2>5, GraphStep
<1>7. CASE Remove(g) /\ End(g, "stored graph is unchanged") /\ lost' = lost \cup {g}
  <2>1. ServerStep(g) /\ stored'[g] = Absent /\ shown' = shown
    BY <1>7, RemoveShape DEF ServerStep
  <2>2. ClientStep(g) /\ StepOf(g)' = "idle" /\ row'[g] = "stored graph is unchanged"
    BY <1>1, <1>5, <1>7, EndShape
  <2>3. Shape(g)'
    BY <1>1, <1>2, <1>3, <2>2 DEF Shape, NotYet
  <2>4. Stored(g)' /\ Shown(g)'
    BY <1>7, <2>2 DEF Stored, Shown, Untried, NotYet
  <2>5. Good(g)'
    BY <1>1, <2>3, <2>4 DEF Good
  <2> QED BY <1>1, <1>2, <1>7, <2>1, <2>2, <2>5, GraphStep
<1>8. CASE stored[g] = Absent /\ Goto("post of vanished") /\ UNCHANGED <<server, lost>>
  <2>1. ServerStep(g)
    BY <1>8, SameServer
  <2>2. ClientStep(g) /\ StepOf(g)' = "post of vanished" /\ row' = row
    BY <1>1, <1>8, GotoShape DEF Steps
  <2>3. Shape(g)'
    BY <1>1, <1>2, <1>3, <2>2 DEF Shape, NotYet
  <2>4. Good(g)'
    BY <1>1, <1>2, <1>4, <1>8, <2>3 DEF Good
  <2> QED BY <1>1, <1>2, <1>8, <2>1, <2>2, <2>4, GraphStep
<1>9. CASE End(g, "stored graph is unchanged") /\ UNCHANGED <<server, lost>>
  <2>1. ServerStep(g) /\ stored' = stored
    BY <1>9, SameServer DEF server
  <2>2. ClientStep(g) /\ StepOf(g)' = "idle" /\ row'[g] = "stored graph is unchanged"
    BY <1>1, <1>5, <1>9, EndShape
  <2>3. Shape(g)'
    BY <1>1, <1>2, <1>3, <2>2 DEF Shape, NotYet
  <2>4. g \notin disturbed => Stored(g)' /\ Shown(g)'
    BY <1>1, <1>4, <2>1, <2>2 DEF Stored, Shown, Untried, NotYet
  <2>5. Good(g)'
    BY <1>1, <2>3, <2>4 DEF Good
  <2> QED BY <1>1, <1>2, <1>9, <2>1, <2>2, <2>5, GraphStep
<1> QED BY <1>1, <1>6, <1>7, <1>8, <1>9

\* A container that is listed under the name of a document is that document's.
LEMMA ListedIsOwn ==
    ASSUME IInv, NEW g \in Graph
    PROVE  /\ Listed(g) <=> shown[g] # Absent /\ shown[g].box = g
           /\ shown[g] # Absent /\ ~Listed(shown[g].box) => FALSE
<1>1. \A h \in Graph : shown[h] # Absent => shown[h].box \in {h, OtherBox}
  BY ContentTypes, ContentsFacts
<1>2. OtherBox \notin Graph
  BY ContentsFacts
<1> QED BY <1>1, <1>2 DEF Listed

LEMMA AwaitRemovalIInv == ASSUME IInv, NEW g \in Graph, AwaitRemoval(g) PROVE IInv'
<1>1. PICK warns \in BOOLEAN : /\ Polled(~Listed(OldBox(g)), warns)
                               /\ warned' = IF warns THEN warned \cup {g} ELSE warned
  BY DEF AwaitRemoval
<1>2. /\ current = g /\ step = "removal" /\ Goto("post")
      /\ UNCHANGED <<keepGoing, foreign, server, phase, plan, saved, lost, disturbed>>
  BY DEF AwaitRemoval, input
<1>3. /\ phase = "execute" /\ StepOf(g) = "removal" /\ row[g] = NotYet /\ Good(g) /\ plan[g] = "update"
      /\ plan[g] = PlannedAction(g) /\ saved[g] # Absent /\ warned \subseteq Graph /\ lost \subseteq Graph
  BY <1>2, CurrentFacts DEF Good, Shape
<1>4. PlannedAction(g)' = PlannedAction(g) /\ Want(g)' = Want(g)
  BY <1>2 DEF PlannedAction, Want
<1>5. ServerStep(g) /\ stored' = stored /\ shown' = shown
  BY <1>2, SameServer DEF server
<1>6. ClientStep(g) /\ StepOf(g)' = "post" /\ row' = row
  BY <1>2, GotoShape DEF Steps
<1>7. warned \subseteq warned' /\ warned' \subseteq Graph
  BY <1>1, <1>3
<1>8. ASSUME g \notin disturbed, g \notin warned', shown[g] # Absent PROVE shown[g].box # g
  <2>1. ~warns /\ ~Listed(OldBox(g))
    BY <1>1, <1>8 DEF Polled
  <2>2. shown[g] = saved[g]
    BY <1>3, <1>8 DEF Good, Shown
  <2>3. OldBox(g) = OwnBox(g)
    BY <1>3 DEF OldBox
  <2>4. OwnBox(g) = saved[g].box => FALSE
    BY <1>8, <2>1, <2>2, <2>3, ListedIsOwn
  <2>5. OwnBox(g) = g
    BY <2>4 DEF OwnBox
  <2> QED BY <2>2, <2>4, <2>5
<1>9. Shape(g)'
  BY <1>2, <1>3, <1>4, <1>6 DEF Shape, NotYet
<1>10. g \notin disturbed => Stored(g)' /\ Shown(g)'
  BY <1>2, <1>3, <1>5, <1>6, <1>8 DEF Good, Stored, Shown, Untried, NotYet
<1>11. Good(g)'
  BY <1>2, <1>9, <1>10 DEF Good
<1> QED BY <1>2, <1>3, <1>5, <1>6, <1>7, <1>11, GraphStep

LEMMA PostIInv == ASSUME IInv, NEW g \in Graph, Post(g) PROVE IInv'
<1> DEFINE existed == plan[g] = "update" /\ step = "post"
           Fail == IF existed THEN Goto("rollback") ELSE End(g, "failed")
<1>1. /\ current = g /\ step \in {"post", "post of vanished"}
      /\ UNCHANGED <<keepGoing, foreign, phase, plan, saved, warned, disturbed>>
      /\ \/ /\ stored[g] = Absent /\ Upload(g, Want(g))
            /\ \/ Goto("loading") /\ UNCHANGED lost
               \/ Fail /\ lost' = lost \cup {g}
         \/ plan[g] = "create" /\ End(g, "appeared since plan") /\ UNCHANGED <<server, lost>>
         \/ Fail /\ UNCHANGED <<server, lost>>
  BY DEF Post, AfterFailedPost, input
<1> HIDE DEF Fail
<1>2. /\ phase = "execute" /\ StepOf(g) = step /\ row[g] = NotYet /\ Good(g)
      /\ plan[g] \in {"create", "update"} /\ (plan[g] = "create" <=> saved[g] = Absent)
      /\ plan[g] = PlannedAction(g) /\ warned \subseteq Graph /\ lost \subseteq Graph
  BY <1>1, CurrentFacts
<1>3. PlannedAction(g)' = PlannedAction(g) /\ Want(g)' = Want(g)
  BY <1>1 DEF PlannedAction, Want
<1>4. g \notin disturbed =>
         /\ step = "post" /\ stored[g] = Absent
         /\ g \notin warned => shown[g] = Absent \/ shown[g].box # g
  BY <1>1, <1>2 DEF Good, Stored, Shown
<1>5. {"failed", "appeared since plan"} \subseteq Rows
  BY DEF Rows, Failures
<1>6. ASSUME Upload(g, Want(g)) PROVE ServerStep(g) /\ stored'[g] = Want(g) /\ shown' = shown
  <2>1. Want(g) \in Contents(g) /\ stale \subseteq {h \in Graph : shown[h] # Absent}
    BY ContentsFacts DEF IInv, Typed, TypeOK
  <2> QED BY <1>6, <2>1, UploadShape DEF ServerStep
\* The answer says, or the client believes, that nothing was uploaded.
<1>7. ASSUME Fail, ServerStep(g), lost' = lost \cup {g} \/ (lost' = lost /\ UNCHANGED server)
      PROVE  IInv'
  <2>1. CASE existed /\ Goto("rollback")
    <3>1. ClientStep(g) /\ StepOf(g)' = "rollback" /\ row' = row
      BY <1>1, <2>1, GotoShape DEF Steps
    <3>2. Shape(g)'
      BY <1>1, <1>2, <1>3, <2>1, <3>1 DEF Shape, NotYet
    <3>3. g \notin disturbed => Stored(g)' /\ Shown(g)'
      BY <1>1, <1>2, <1>4, <1>7, <3>1 DEF Stored, Shown, Untried, NotYet, server
    <3>4. Good(g)'
      BY <1>1, <3>2, <3>3 DEF Good
    <3> QED BY <1>1, <1>2, <1>7, <3>1, <3>4, GraphStep
  <2>2. CASE ~existed /\ End(g, "failed")
    <3>1. ClientStep(g) /\ StepOf(g)' = "idle" /\ row'[g] = "failed"
      BY <1>1, <1>5, <2>2, EndShape
    <3>2. Shape(g)'
      BY <1>1, <1>2, <1>3, <3>1 DEF Shape, NotYet
    <3>3. g \notin disturbed => saved[g] = Absent
      BY <1>2, <1>4, <2>2
    <3>4. g \notin disturbed => Stored(g)' /\ Shown(g)'
      BY <1>1, <1>4, <1>7, <3>1, <3>3 DEF Stored, Shown, Untried, NotYet, server
    <3>5. Good(g)'
      BY <1>1, <3>2, <3>4 DEF Good
    <3> QED BY <1>1, <1>2, <1>7, <3>1, <3>5, GraphStep
  <2> QED BY <1>7, <2>1, <2>2 DEF Fail
<1>8. CASE Upload(g, Want(g)) /\ Goto("loading") /\ UNCHANGED lost
  <2>1. ClientStep(g) /\ StepOf(g)' = "loading" /\ row' = row
    BY <1>1, <1>8, GotoShape DEF Steps
  <2>2. Shape(g)'
    BY <1>1, <1>2, <1>3, <2>1 DEF Shape, NotYet
  <2>3. g \notin disturbed => Stored(g)' /\ Shown(g)'
    BY <1>1, <1>2, <1>3, <1>4, <1>6, <1>8, <2>1 DEF Stored, Shown, Untried, NotYet
  <2>4. Good(g)'
    BY <1>1, <2>2, <2>3 DEF Good
  <2> QED BY <1>1, <1>2, <1>6, <1>8, <2>1, <2>4, GraphStep
<1>9. CASE plan[g] = "create" /\ End(g, "appeared since plan") /\ UNCHANGED <<server, lost>>
  <2>1. ServerStep(g)
    BY <1>9, SameServer
  <2>2. ClientStep(g) /\ StepOf(g)' = "idle" /\ row'[g] = "appeared since plan"
    BY <1>1, <1>5, <1>9, EndShape
  <2>3. Shape(g)'
    BY <1>1, <1>2, <1>3, <2>2 DEF Shape, NotYet
  <2>4. Stored(g)' /\ Shown(g)'
    BY <2>2 DEF Stored, Shown, Untried, NotYet
  <2>5. Good(g)'
    BY <2>3, <2>4 DEF Good
  <2> QED BY <1>1, <1>2, <1>9, <2>1, <2>2, <2>5, GraphStep
<1>10. CASE Fail /\ UNCHANGED <<server, lost>>
  BY <1>7, <1>10, SameServer
<1>11. CASE Upload(g, Want(g)) /\ Fail /\ lost' = lost \cup {g}
  BY <1>6, <1>7, <1>11
<1> QED BY <1>1, <1>8, <1>9, <1>10, <1>11

LEMMA AwaitLoadIInv == ASSUME IInv, NEW g \in Graph, AwaitLoad(g) PROVE IInv'
<1> DEFINE outcome == CASE step = "reloading" -> "rolled back"
                        [] plan[g] = "create" -> "Created"
                        [] OTHER -> "Updated"
<1>1. PICK warns \in BOOLEAN : /\ Polled(Listed(g), warns)
                               /\ warned' = IF warns THEN warned \cup {g} ELSE warned
  BY DEF AwaitLoad
<1>2. /\ current = g /\ step \in {"loading", "reloading"} /\ End(g, outcome)
      /\ UNCHANGED <<keepGoing, foreign, server, phase, plan, saved, lost, disturbed>>
  BY DEF AwaitLoad, input
<1>3. /\ phase = "execute" /\ StepOf(g) = step /\ row[g] = NotYet /\ Good(g)
      /\ plan[g] \in {"create", "update"} /\ plan[g] = PlannedAction(g)
      /\ warned \subseteq Graph /\ lost \subseteq Graph
  BY <1>2, CurrentFacts
<1>4. step = "reloading" => plan[g] = "update"
  BY <1>3 DEF Good, Shape
<1>5. IF step = "reloading" THEN outcome = "rolled back" ELSE outcome \in {"Created", "Updated"}
  BY <1>3, <1>4
<1>6. PlannedAction(g)' = PlannedAction(g) /\ Want(g)' = Want(g)
  BY <1>2 DEF PlannedAction, Want
<1>7. ServerStep(g) /\ stored' = stored /\ shown' = shown /\ stale' = stale
  BY <1>2, SameServer DEF server
<1> HIDE DEF outcome
<1>8. ClientStep(g) /\ StepOf(g)' = "idle" /\ row'[g] = outcome
  <2>1. outcome \in Rows
    BY <1>5 DEF Rows, Failures
  <2> QED BY <1>2, <2>1, EndShape
<1>9. warned \subseteq warned' /\ warned' \subseteq Graph
  BY <1>1, <1>3
<1>10. Shape(g)'
  BY <1>2, <1>3, <1>6, <1>8 DEF Shape, NotYet
<1>11. ASSUME g \notin disturbed PROVE Stored(g)' /\ Shown(g)'
  <2>1. Stored(g) /\ Shown(g)
    BY <1>3, <1>11 DEF Good
  <2>2. CASE step = "reloading"
    BY <1>2, <1>3, <1>5, <1>6, <1>7, <1>8, <2>1, <2>2 DEF Stored, Shown, Untried, NotYet
  <2>3. CASE step = "loading"
    <3>1. outcome \in {"Created", "Updated"}
      BY <1>5, <2>3
    <3>2. stored'[g] = Want(g)'
      BY <1>3, <1>6, <1>7, <2>1, <2>3 DEF Stored
    <3>3. Stored(g)'
      BY <1>8, <3>1, <3>2 DEF Stored, Untried, NotYet
    <3>4. g \notin warned' => shown'[g] = Want(g)' /\ g \notin stale'
      <4>1. g \notin warned' => Listed(g) /\ g \notin warned
        BY <1>1 DEF Polled
      <4> QED BY <1>3, <1>6, <1>7, <2>1, <2>3, <4>1, ListedIsOwn DEF Shown
    <3>5. Shown(g)'
      BY <1>8, <3>1, <3>4 DEF Shown, Untried, NotYet
    <3> QED BY <3>3, <3>5
  <2> QED BY <1>2, <2>2, <2>3
<1>12. Good(g)'
  BY <1>2, <1>10, <1>11 DEF Good
<1> QED BY <1>2, <1>3, <1>7, <1>8, <1>9, <1>12, GraphStep

LEMMA RollBackIInv == ASSUME IInv, NEW g \in Graph, RollBack(g) PROVE IInv'
<1>1. /\ current = g /\ step = "rollback"
      /\ UNCHANGED <<keepGoing, foreign, phase, plan, saved, warned, disturbed>>
      /\ \/ /\ stored[g] = Absent /\ Upload(g, saved[g])
            /\ \/ Goto("reloading") /\ UNCHANGED lost
               \/ End(g, "now absent") /\ lost' = lost \cup {g}
         \/ End(g, "now absent") /\ UNCHANGED <<server, lost>>
  BY DEF RollBack, input
<1>2. /\ phase = "execute" /\ StepOf(g) = "rollback" /\ row[g] = NotYet /\ Good(g) /\ plan[g] = "update"
      /\ plan[g] = PlannedAction(g) /\ saved[g] # Absent /\ warned \subseteq Graph /\ lost \subseteq Graph
  BY <1>1, CurrentFacts DEF Good, Shape
<1>3. PlannedAction(g)' = PlannedAction(g) /\ Want(g)' = Want(g)
  BY <1>1 DEF PlannedAction, Want
<1>4. "now absent" \in Rows
  BY DEF Rows, Failures
<1>5. ASSUME Upload(g, saved[g]) PROVE ServerStep(g) /\ stored'[g] = saved[g]
  <2>1. saved[g] \in Contents(g) /\ stale \subseteq {h \in Graph : shown[h] # Absent}
    BY <1>2, ContentTypes DEF IInv, Typed, TypeOK
  <2> QED BY <1>5, <2>1, UploadShape DEF ServerStep
<1>6. CASE Upload(g, saved[g]) /\ Goto("reloading") /\ UNCHANGED lost
  <2>1. ClientStep(g) /\ StepOf(g)' = "reloading" /\ row' = row
    BY <1>1, <1>6, GotoShape DEF Steps
  <2>2. Shape(g)'
    BY <1>1, <1>2, <1>3, <2>1 DEF Shape, NotYet
  <2>3. Stored(g)' /\ Shown(g)'
    BY <1>1, <1>2, <1>5, <1>6, <2>1 DEF Stored, Shown, Untried, NotYet
  <2>4. Good(g)'
    BY <2>2, <2>3 DEF Good
  <2> QED BY <1>1, <1>2, <1>5, <1>6, <2>1, <2>4, GraphStep
<1>7. ASSUME End(g, "now absent"), ServerStep(g), lost' = lost \cup {g} \/ (lost' = lost /\ UNCHANGED server)
      PROVE  IInv'
  <2>1. ClientStep(g) /\ StepOf(g)' = "idle" /\ row'[g] = "now absent"
    BY <1>1, <1>4, <1>7, EndShape
  <2>2. Shape(g)'
    BY <1>1, <1>2, <1>3, <2>1 DEF Shape, NotYet
  <2>3. g \notin disturbed => Stored(g)' /\ Shown(g)'
    BY <1>1, <1>2, <1>7, <2>1 DEF Good, Stored, Shown, Untried, NotYet, server
  <2>4. Good(g)'
    BY <1>1, <2>2, <2>3 DEF Good
  <2> QED BY <1>1, <1>2, <1>7, <2>1, <2>4, GraphStep
<1> QED BY <1>1, <1>5, <1>6, <1>7, SameServer

-----------------------------------------------------------------------------
(* The theorems.                                                             *)

LEMMA NextIInv == ASSUME IInv, [Next]_vars PROVE IInv'
<1>1. CASE UNCHANGED vars
  <2>1. UNCHANGED <<input, server, phase, plan, saved, current, step, row, notes>>
    BY <1>1 DEF vars
  <2>2. Typed' /\ OneAtATime' /\ Halting'
    BY <2>1 DEF input, server, notes, IInv, Typed, TypeOK, Contents, Want, OneAtATime, Halting
  <2>3. ASSUME NEW g \in Graph PROVE Good(g)'
    <3>1. StepOf(g)' = StepOf(g) /\ Good(g)
      BY <2>1 DEF StepOf, IInv
    <3> QED BY <2>1, <3>1, Frame DEF server, notes, Good, Shape
  <2> QED BY <2>2, <2>3 DEF IInv
<1> QED BY <1>1, PlanEndsIInv, ReadUploadIInv, BeginIInv, DeleteIInv, AwaitRemovalIInv, PostIInv,
           AwaitLoadIInv, RollBackIInv, ListIInv, OtherOperatorIInv DEF Next, Step

\* What each step says of the upload and of its container holds throughout every apply.
THEOREM Strengthened == Spec => []IInv
<1>1. IInv /\ [Next]_vars => IInv'
  BY NextIInv
<1> QED BY InitIInv, <1>1, PTL DEF Spec

\* Whatever fails or is lost, every row tells what became of the upload (the one that was
\* read is there, is back, or is gone), and the first failure is the last attempt unless
\* the apply shall go on.
THEOREM RowsHold == Spec => []GraphInv
<1>1. ASSUME IInv PROVE GraphInv
  <2>1. ASSUME NEW g \in Graph, g \notin lost, g \notin disturbed PROVE RowHolds(g)
    <3>1. Stored(g)
      BY <1>1, <2>1 DEF IInv, Good
    <3> QED BY <2>1, <3>1 DEF Stored, RowHolds
  <2> QED BY <1>1, <2>1 DEF GraphInv, IInv, Typed, RowsTellTheTruth, OneFailureHalts, Halting
<1> QED BY <1>1, Strengthened, PTL

\* A graph that is reported as applied without a warning is stored and listed as declared,
\* for every order of unloading, loading and answers.
THEOREM SilentSuccess == Spec => []SilentSuccessIsServed
<1>1. IInv => SilentSuccessIsServed
  BY DEF IInv, Good, Stored, Shown, SilentSuccessIsServed
<1> QED BY <1>1, Strengthened, PTL

\* A create never replaces an upload that appeared since the plan.
THEOREM CreatesSpare == Spec => CreateNeverReplaces
<1> DEFINE Spares == \A g \in Graph :
                        plan[g] = "create" /\ stored[g] # Absent /\ disturbed' = disturbed =>
                            stored'[g] = stored[g]
<1>1. ASSUME IInv, [Next]_vars PROVE Spares
  <2> SUFFICES ASSUME NEW g \in Graph, plan[g] = "create", stored[g] # Absent,
                      disturbed' = disturbed
               PROVE  stored'[g] = stored[g]
    OBVIOUS
  <2>1. ASSUME NEW h \in Graph, OtherOperator(h) PROVE FALSE
    BY <2>1 DEF OtherOperator
  <2>2. ASSUME NEW h \in Graph, Delete(h) PROVE stored'[g] = stored[g]
    <3>1. stored' = stored \/ Remove(h)
      BY <2>2 DEF Delete, server
    <3>2. plan[h] = "update"
      BY <1>1, <2>2, CurrentFacts DEF Delete, Good, Shape
    <3>3. h # g
      BY <3>2
    <3> QED BY <1>1, <3>1, <3>3, RemoveShape
  <2>3. ASSUME NEW h \in Graph, Post(h) \/ RollBack(h) PROVE stored'[g] = stored[g]
    <3>1. stored' = stored \/ (stored[h] = Absent /\ \E c : stored' = [stored EXCEPT ![h] = c])
      BY <2>3 DEF Post, RollBack, Upload, server
    <3>2. stored \in [Graph -> Box \cup {Absent}]
      BY <1>1 DEF IInv, Typed
    <3> QED BY <3>1, <3>2
  <2>4. CASE UNCHANGED vars
    BY <2>4 DEF vars, server
  <2>5. ASSUME NEW h \in Graph, Load(h) \/ Unload(h) \/ ReadUpload(h) \/ Begin(h) \/ AwaitRemoval(h)
                                \/ AwaitLoad(h)
        PROVE  stored'[g] = stored[g]
    BY <2>5 DEF Load, Unload, ReadUpload, Begin, AwaitRemoval, AwaitLoad, server
  <2>6. CASE CheckOwners \/ PlanFails \/ Finish
    BY <2>6 DEF CheckOwners, PlanFails, Finish, server
  <2> QED BY <1>1, <2>1, <2>2, <2>3, <2>4, <2>5, <2>6 DEF Next, Step
<1>2. IInv /\ [Next]_vars => [Spares]_vars
  BY <1>1
<1> QED BY <1>2, Strengthened, PTL DEF Spec, CreateNeverReplaces
=============================================================================
