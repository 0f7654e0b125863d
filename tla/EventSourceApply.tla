--------------------------- MODULE EventSourceApply ---------------------------
(***************************************************************************)
(* Applying `kind: EventSource` documents and the `EventSourceOrder`       *)
(* document of the same input (onmsctl-eventconf/src/apply and src/order). *)
(* The server keeps sources in the order it evaluates them in; an upload   *)
(* replaces a source and enables it, a new source lands on top, and the    *)
(* catch-all stays last.  The order document places sources that the same  *)
(* apply may have created, so its plan is about an order nobody has seen.  *)
(***************************************************************************)
EXTENDS Naturals, Sequences, FiniteSets, SequencesExt

CONSTANTS
    Source,         \* the names of sources, the catch-all apart
    CatchAll,
    Manifests,      \* the names the EventSource documents may declare, in input order
    Off,            \* the sources declared with `enabled: false`
    Firsts,         \* the `spec.first` lists the order document may have
    Lives,          \* the orders the server may start with
    PageSize,       \* how many sources one answer of the server lists
    MaxRuns,        \* how often the operator applies the input
    MaxOthers       \* how many sources other operators touch, each once

ASSUME EventSourceAssumption ==
    /\ CatchAll \notin Source /\ Off \subseteq Source
    /\ Manifests \subseteq Seq(Source)
    /\ Firsts \subseteq Seq(Source \cup {CatchAll})
    /\ \A live \in Lives :
          /\ live \in Seq(Source \cup {CatchAll}) /\ IsInjective(live)
          /\ \A i \in DOMAIN live : live[i] = CatchAll => i = Len(live)
    /\ PageSize \in Nat \ {0} /\ MaxRuns \in Nat \ {0} /\ MaxOthers \in Nat

VARIABLES
    docs, first, goesOn,     \* the input, and --continue-on-error
    order,      \* the server's sources, first evaluated first
    stored,     \* what the server has of each: [events, enabled]
    stage, step,
    at,         \* the EventSource document being planned or executed
    found,      \* the enabled flag the lookup returned
    planned,    \* what the plan decided for each document
    orderPlan,
    listed,     \* the names the listing under way has read so far
    target,     \* the order the client uploads
    row, orderRow,
    run,
    settled,    \* sources an earlier run reported as applied or in sync
    allSettled, \* every row of the earlier run said so
    rejected,   \* sources whose upload the server refused in the body of its answer
    interfered,    \* sources other operators changed
    moved       \* others changed the order since the last listing began

manifest == <<docs, first, goesOn>>
server == <<order, stored>>
control == <<stage, step, at>>
decisions == <<found, planned, orderPlan>>
listing == <<listed, target>>
reports == <<row, orderRow>>
history == <<run, settled, allSettled>>
others == <<interfered, moved>>
sourceVars == <<manifest, server, control, decisions, listing, reports, history, rejected, others>>

Pending == "not yet"
Ok == {"Created", "Updated", "Unchanged"}
Present == ToSet(order)
Current == docs[at]
Wanted(s) == [events |-> "want", enabled |-> s \notin Off]

\* The names at some of the places of a list, in its order.  (SelectSeq, written as a
\* function because the provers know no facts about the library's recursive operator.)
Pick(names, places) ==
    LET picked[n \in 0 .. Len(names)] ==
            IF n = 0 THEN << >>
            ELSE IF n \in places THEN Append(picked[n - 1], names[n]) ELSE picked[n - 1]
    IN picked[Len(names)]
Only(names, kept) == Pick(names, {i \in DOMAIN names : names[i] \in kept})
Without(names, gone) == Pick(names, {i \in DOMAIN names : names[i] \notin gone})

\* The server evaluates the catch-all last, whatever it is asked for.
CatchAllLast(names) ==
    Without(names, {CatchAll}) \o Only(names, {CatchAll})

-----------------------------------------------------------------------------
\* Names of the form <definition>_<bug> are broken variants: slips the code could have
\* made, kept to show that the properties below would notice them.

\* check_unique_names of the handler, and validate of the order document.
UniqueNames == IsInjective(docs)
ValidOrder == first # << >> /\ CatchAll \notin ToSet(first) /\ IsInjective(first)

\* diff_source, as far as it decides between Unchanged and Update.
Differs(s, events, enabled) == [events |-> events, enabled |-> enabled] # Wanted(s)

\* The step after an answered upload: the server enables what it stores.
AfterUpload_UpdateOnly(s) == IF s \in Off /\ planned[s] = "Updated" THEN "lookup" ELSE "end"
AfterUpload(s) == IF s \in Off THEN "lookup" ELSE "end"

\* Sources the same apply creates, in manifest order.
Created(live) == Without(docs, ToSet(live))

\* predict_order and target_order.
Predicted(live) == Created(live) \o live
TargetOrder_Ascending(current) ==
    first \o Without(Reverse(current), ToSet(first) \cup {CatchAll}) \o Only(current, {CatchAll})
TargetOrder(current) ==
    first \o Without(current, ToSet(first) \cup {CatchAll}) \o Only(current, {CatchAll})

\* The name gate: every listed source is live or declared in the same input.
Placeable(live) == ToSet(first) \subseteq ToSet(live) \cup ToSet(docs)

\* A plan that lists a created source is an update, wherever it is predicted to land.
PlannedOrder(live) ==
    IF /\ TargetOrder(Predicted(live)) = Predicted(live)
       /\ ToSet(first) \cap ToSet(Created(live)) = {}
    THEN "None" ELSE "Update"

\* The order read back after the upload decides.
Verdict_Unread(after) == "Updated"
Verdict(after) == IF after = target THEN "Updated" ELSE "Failed"

\* Whether the failed rows of the EventSource bucket keep the order from being applied.
OrderIsHeld == ~goesOn /\ \E s \in ToSet(docs) : row[s] = "Failed"

-----------------------------------------------------------------------------
SourcesInit ==
    /\ docs \in Manifests /\ first \in Firsts /\ goesOn \in BOOLEAN
    /\ order \in Lives
    /\ stored \in [Source -> [events : {"want", "other"}, enabled : BOOLEAN]]
    /\ \A s \in Source : s \notin Present \cap ToSet(docs) =>
                            stored[s] = [events |-> "other", enabled |-> FALSE]
    /\ stage = "plan" /\ step = "find" /\ at = 1 /\ found = FALSE
    /\ planned = [s \in Source |-> Pending] /\ orderPlan = Pending
    /\ listed = << >> /\ target = << >>
    /\ row = [s \in Source |-> Pending] /\ orderRow = Pending
    /\ run = 1 /\ settled = {} /\ allSettled = FALSE
    /\ rejected = {} /\ interfered = {} /\ moved = FALSE

Goto(p, s) == stage' = p /\ step' = s

(* Planning. *)

\* Any read may fail, a name may be ambiguous, a name may be declared twice, the order
\* document may be invalid.
Refuse ==
    /\ stage \in {"plan", "order plan"}
    /\ Goto("done", "idle")
    /\ UNCHANGED <<manifest, server, at, decisions, listing, reports, history, rejected, others>>

\* The first half of fetch_remote.
Find ==
    /\ stage = "plan" /\ step = "find" /\ at <= Len(docs) /\ UniqueNames
    /\ IF Current \in Present
       THEN /\ found' = stored[Current].enabled /\ Goto("plan", "download")
            /\ UNCHANGED <<planned, at>>
       ELSE /\ planned' = [planned EXCEPT ![Current] = "Created"]
            /\ at' = at + 1
            /\ UNCHANGED <<found, stage, step>>
    /\ UNCHANGED <<manifest, server, orderPlan, listing, reports, history, rejected, others>>

\* The second half: the events, compared together with the flag read before.
Download ==
    /\ stage = "plan" /\ step = "download" /\ Current \in Present
    /\ planned' = [planned EXCEPT ![Current] =
                      IF Differs(Current, stored[Current].events, found) THEN "Updated" ELSE "Unchanged"]
    /\ at' = at + 1 /\ Goto("plan", "find") /\ found' = FALSE
    /\ UNCHANGED <<manifest, server, orderPlan, listing, reports, history, rejected, others>>

\* list_source_order begins; what others did before does not matter to it.
BeginListing(p, s) ==
    /\ Goto(p, s)
    /\ listed' = << >> /\ moved' = FALSE

PlanOrder ==
    /\ stage = "plan" /\ at = Len(docs) + 1 /\ UniqueNames /\ ValidOrder
    /\ BeginListing("order plan", "list")
    /\ UNCHANGED <<manifest, server, at, decisions, target, reports, history, rejected, interfered>>

\* One page, by offset; the listing ends when as many names are read as there are.
FetchPage ==
    /\ step \in {"list", "read back"}
    /\ listed' = listed \o SubSeq(order, Len(listed) + 1, Min({Len(order), Len(listed) + PageSize}))
    /\ IF Len(listed') < Len(order) THEN UNCHANGED step
       ELSE step' = IF step = "list" THEN "listed" ELSE "verify"
    /\ UNCHANGED <<manifest, server, stage, at, decisions, target, reports, history, rejected, others>>

DecideOrder ==
    /\ stage = "order plan" /\ step = "listed"
    /\ IF Placeable(listed)
       THEN orderPlan' = PlannedOrder(listed) /\ Goto("sources", "upload") /\ at' = 1
       ELSE Goto("done", "idle") /\ UNCHANGED <<orderPlan, at>>
    /\ UNCHANGED <<manifest, server, found, planned, listing, reports, history, rejected, others>>

-----------------------------------------------------------------------------
(* The EventSource bucket. *)

EndDoc(outcome) ==
    /\ row' = [row EXCEPT ![Current] = outcome]
    /\ at' = at + 1 /\ step' = "upload"

Executing(s) == stage = "sources" /\ at <= Len(docs) /\ step = s

Skip ==
    /\ Executing("upload") /\ planned[Current] = "Unchanged"
    /\ EndDoc("Unchanged")
    /\ UNCHANGED <<manifest, server, stage, decisions, listing, orderRow, history, rejected, others>>

\* What an answered upload leads to, whatever its body says.
Uploaded == IF AfterUpload(Current) = "end" THEN EndDoc(planned[Current])
            ELSE step' = "lookup" /\ UNCHANGED <<row, at>>

\* POST eventconf/upload.
Upload ==
    /\ Executing("upload") /\ planned[Current] \in {"Created", "Updated"}
    /\ \/ /\ stored' = [stored EXCEPT ![Current] = [events |-> "want", enabled |-> TRUE]]
          /\ order' = IF Current \in Present THEN order ELSE <<Current>> \o order
          /\ Uploaded \/ EndDoc("Failed")
          /\ UNCHANGED rejected
       \/ /\ rejected' = rejected \cup {Current}
          /\ Uploaded
          /\ UNCHANGED server
       \/ EndDoc("Failed") /\ UNCHANGED <<server, rejected>>
    /\ UNCHANGED <<manifest, stage, decisions, listing, orderRow, history, others>>

\* The new id is needed to disable the source.
Lookup ==
    /\ Executing("lookup")
    /\ \/ Current \in Present /\ step' = "disable" /\ UNCHANGED <<row, at>>
       \/ EndDoc("Failed")
    /\ UNCHANGED <<manifest, server, stage, decisions, listing, orderRow, history, rejected, others>>

\* PATCH eventconf/sources/status, by the id looked up; the source may be gone by then.
Disable ==
    /\ Executing("disable")
    /\ \/ /\ Current \in Present
          /\ stored' = [stored EXCEPT ![Current].enabled = FALSE]
          /\ EndDoc(planned[Current]) \/ EndDoc("Failed")
       \/ Current \notin Present /\ EndDoc(planned[Current]) /\ UNCHANGED stored
       \/ EndDoc("Failed") /\ UNCHANGED stored
    /\ UNCHANGED <<manifest, order, stage, decisions, listing, orderRow, history, rejected, others>>

\* The router goes on to the order document unless the bucket failed.
EndSources ==
    /\ stage = "sources" /\ at = Len(docs) + 1
    /\ IF OrderIsHeld
       THEN /\ Goto("done", "idle") /\ orderRow' = "Skipped"
            /\ UNCHANGED <<listed, moved>>
       ELSE BeginListing("order", "list") /\ UNCHANGED orderRow
    /\ UNCHANGED <<manifest, server, at, decisions, target, row, history, rejected, interfered>>

-----------------------------------------------------------------------------
(* The EventSourceOrder document. *)

EndOrder(outcome) == orderRow' = outcome /\ Goto("done", "idle")

\* An error of either listing fails the bucket.
ListingFails ==
    /\ stage = "order" /\ step \in {"list", "read back"}
    /\ EndOrder("Failed")
    /\ UNCHANGED <<manifest, server, at, decisions, listing, row, history, rejected, others>>

\* The target is computed anew.  Missing is the Failed row that names missing sources.
Place ==
    /\ stage = "order" /\ step = "listed"
    /\ IF ~(ToSet(first) \subseteq ToSet(listed))
       THEN EndOrder("Missing") /\ UNCHANGED target
       ELSE IF TargetOrder(listed) = listed
       THEN EndOrder("Unchanged") /\ UNCHANGED target
       ELSE target' = TargetOrder(listed) /\ Goto("order", "send") /\ UNCHANGED orderRow
    /\ UNCHANGED <<manifest, server, at, decisions, listed, row, history, rejected, others>>

\* The upload of the whole order, in which a name may be missing, unknown or repeated if
\* others acted while it was read.  Sources it does not list end up on either side, and a
\* server that does not know how leaves the order alone.
UploadOrder ==
    /\ stage = "order" /\ step = "send"
    /\ LET known == Pick(target, {i \in DOMAIN target :
                                    /\ target[i] \in Present
                                    /\ \A j \in 1 .. (i - 1) : target[j] # target[i]})
           unlisted == Without(order, ToSet(target))
       IN  order' \in {order, CatchAllLast(known \o unlisted), CatchAllLast(unlisted \o known)}
    /\ \/ BeginListing("order", "read back") /\ UNCHANGED orderRow
       \/ EndOrder("Failed") /\ UNCHANGED <<listed, moved>>
    /\ UNCHANGED <<manifest, stored, at, decisions, target, row, history, rejected, interfered>>

Verify ==
    /\ stage = "order" /\ step = "verify"
    /\ EndOrder(Verdict(listed))
    /\ UNCHANGED <<manifest, server, at, decisions, listing, row, history, rejected, others>>

-----------------------------------------------------------------------------
\* Another operator adds, deletes, moves, edits or switches a source.  What a source holds
\* that no document declares matters to no apply.
OtherOperator(s) ==
    /\ stage # "done" /\ s \notin interfered /\ Cardinality(interfered) < MaxOthers
    /\ interfered' = interfered \cup {s}
    /\ LET rest == Without(order, {s}) IN
       \/ /\ order' \in {<<s>> \o rest, CatchAllLast(rest \o <<s>>), rest} \ {order}
          /\ moved' = TRUE
          /\ UNCHANGED stored
       \/ /\ s \in Present \cap ToSet(docs)
          /\ \E it \in [events : {"want", "other"}, enabled : BOOLEAN] \ {stored[s]} :
                stored' = [stored EXCEPT ![s] = it]
          /\ UNCHANGED <<order, moved>>
    /\ UNCHANGED <<manifest, control, decisions, listing, reports, history, rejected>>

\* The operator applies the same input again.
ApplyAgain ==
    /\ stage = "done" /\ run < MaxRuns
    /\ run' = run + 1
    /\ settled' = {s \in Source : row[s] \in Ok}
    /\ allSettled' = (orderRow \in Ok /\ settled' = ToSet(docs))
    /\ Goto("plan", "find") /\ at' = 1 /\ found' = FALSE
    /\ planned' = [s \in Source |-> Pending] /\ orderPlan' = Pending
    /\ row' = [s \in Source |-> Pending] /\ orderRow' = Pending
    /\ listed' = << >> /\ target' = << >>
    /\ UNCHANGED <<manifest, server, rejected, others>>

SourcesNext ==
    \/ Refuse \/ Find \/ Download \/ PlanOrder \/ FetchPage \/ DecideOrder
    \/ Skip \/ Upload \/ Lookup \/ Disable \/ EndSources
    \/ ListingFails \/ Place \/ UploadOrder \/ Verify
    \/ \E s \in Source : OtherOperator(s)
    \/ ApplyAgain

SourcesSpec == SourcesInit /\ [][SourcesNext]_sourceVars

Before(names, m, n) ==
    \E i, j \in DOMAIN names : i < j /\ names[i] = m /\ names[j] = n

-----------------------------------------------------------------------------
\* Type invariant of the applies of event sources and their order.
SourcesTypeOK ==
    /\ docs \in Manifests /\ first \in Firsts /\ goesOn \in BOOLEAN
    /\ order \in Seq(Source \cup {CatchAll}) /\ IsInjective(order)
    /\ stored \in [Source -> [events : {"want", "other"}, enabled : BOOLEAN]]
    /\ stage \in {"plan", "order plan", "sources", "order", "done"}
    /\ step \in {"find", "download", "list", "listed", "upload", "lookup", "disable",
                 "send", "read back", "verify", "idle"}
    /\ at \in 1..(Len(docs) + 1) /\ found \in BOOLEAN
    /\ planned \in [Source -> Ok \cup {Pending}] /\ orderPlan \in {Pending, "None", "Update"}
    /\ {listed, target} \subseteq Seq(Source \cup {CatchAll})
    /\ row \in [Source -> Ok \cup {"Failed", Pending}]
    /\ orderRow \in (Ok \ {"Created"}) \cup {"Failed", "Missing", "Skipped", Pending}
    /\ run \in 1..MaxRuns /\ settled \subseteq Source /\ allSettled \in BOOLEAN
    /\ rejected \subseteq Source /\ interfered \subseteq Source /\ moved \in BOOLEAN

\* A row other than Failed means that the server holds the source as declared, switched off
\* too when it was declared so, which takes two more requests after the upload.
SourcesAreTrue ==
    \A s \in Source \ (interfered \cup rejected) :
        row[s] \in Ok => s \in Present /\ stored[s] = Wanted(s)

\* A row Updated or Unchanged of the order document means that the server evaluates the
\* listed sources first, unless somebody moved one since the last listing began.
OrderIsVerified ==
    orderRow \in Ok /\ ~moved => IsPrefix(first, order)

\* The order document owns the positions of the sources it lists only: no apply changes the
\* order of the others among themselves, unless somebody moved one while it was reading.
UnlistedKeepOrder ==
    [][~moved /\ ~moved' =>
          \A m, n \in (Present \cap Present') \ ToSet(first) :
              Before(order, m, n) => Before(order', m, n)]_sourceVars

\* The preview is a prediction, but one that says "none" is kept: when nobody interferes,
\* an order planned as in sync is not written, although sources are created in between.
PlannedNoneIsNotSent ==
    orderPlan = "None" /\ interfered = {} => target = << >>

\* A listed source is missing at execution only if its own document failed or was refused,
\* or somebody else acted: the gate has caught every other name before the first write.
MissingOnlyByFailure ==
    orderRow = "Missing" =>
        interfered \cup rejected # {} \/ \E s \in ToSet(first) : row[s] = "Failed"

\* Applying again reports what was settled as unchanged: the sources one by one, and the
\* order when every row was.
ReapplyIsUnchanged ==
    /\ \A s \in settled \ (interfered \cup rejected) : row[s] \in {Pending, "Unchanged"}
    /\ allSettled /\ interfered \cup rejected = {} =>
          orderRow \in {Pending, "Unchanged", "Failed"} /\ target = << >>

\* The state is well typed, the rows of sources and order are true, the plan's prediction
\* holds where it must, and what was settled stays unchanged.
EventSourceInv ==
    SourcesTypeOK /\ SourcesAreTrue /\ PlannedNoneIsNotSent /\ MissingOnlyByFailure /\ ReapplyIsUnchanged
=============================================================================
