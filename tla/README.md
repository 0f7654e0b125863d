# Verification of onmsctl

`onmsctl` applies YAML documents to an OpenNMS server over REST, and has verbs to read,
export, convert and delete what is there. It keeps no state of its own between two runs
but its configuration file: what can go wrong lies in the order of its reads and writes,
in requests that fail half way, in answers that never arrive, in what other operators do
to the same server meanwhile, in what a conversion loses, and in what the program then
tells its user. These TLA+ modules model that, TLC checks them on small instances, and
TLAPS proves the safety properties of the scheduler, of every kind of apply (users,
graphs, business services, requisitions, event sources and their order, thresholding,
maintenance windows, data collection and SNMP configurations) and of an invocation from the
shell for every instance.

## Inventory

| Part | State | Operations | Hard behaviours | Modules |
|---|---|---|---|---|
| Apply scheduler (`onmsctl-core/src/kind`, `run_apply`) | documents by kind, one plan per kind, outcomes | gate, plan by rank, dry run, execute by rank, halt, account | failing in the middle, handlers that fail as a whole, stale plans | `ApplyPromise`, `ApplyRouter`, `ApplyInput`, `ApplyRouterAndEventSourceProofs` |
| Command line, contexts, configuration, HTTP client (`onmsctl/src/main.rs`, `onmsctl-core/src`) | the configuration file | resolve, gate, request, exit status, `config use-context` | precedence of flags over variables over files, crash in a rewrite, answers lost after the request was served | `Invocation`, `Session`, `ThresholdingAndSessionProofs` |
| Verbs of all capabilities (`*/src/cmd*`, `*/src/api.rs`, `export.rs`) | none | list, get, delete, export, convert, download, upload, set-password, asset set | two requests that belong together, confirmation, several output files | `Verbs`, `Session`, `ThresholdingAndSessionProofs` |
| Requisition import and wait | last-import before the trigger | trigger, poll | asynchronous imports of several people, deadline | `ImportWait`, `Session`, `ThresholdingAndSessionProofs` |
| User (`onmsctl-iam/src/apply`) | snapshot of the users, one plan per user, a list of actions | snapshot, read, lockout checks, actions in global order | lockout under failures and stale reads | `UserApply`, `UserAndSnmpConfigProofs`, `UserDocument` |
| Graph (`onmsctl-graph`) | stored upload read while planning | create, delete-wait-upload, roll back | asynchronous loading, lost answers, rollback | `GraphApply`, `GraphProofs`, `GraphDocument` |
| BusinessService | ids by name, pending children | create bare, replace with edges, reload | two passes, cycles, partial failure, reload | `BusinessServiceApply`, `BusinessServiceProofs`, `BusinessServiceDocument` |
| Requisition (`onmsctl-provisioning`) | requisition and foreign source read while planning | post foreign source, post requisition, trigger import | three requests that belong together, pending against deployed, repeated runs | `RequisitionApply`, `RequisitionProofs`, `RequisitionDocument` |
| EventSource, EventSourceOrder (`onmsctl-eventconf`) | source read while planning, order of sources | upload, disable, reorder | enabled flag in between, predicted order, paged listing | `EventSourceApply`, `ApplyRouterAndEventSourceProofs`, `EventSourceDocument` |
| ThresholdGroup, ThreshdPackage | ETags | create, conditional update, delete | concurrent writers, references between the two kinds | `ThresholdingApply`, `ThresholdingAndSessionProofs`, `ThresholdGroupDocument`, `ThreshdPackageDocument` |
| Maintenance | resolved nodes | write the definition, attach (delete: detach) | several requests for one row, packages of the same apply | `MaintenanceApply`, `MaintenanceProofs`, `MaintenanceDocument` |
| DataCollection | catalogue of sources and profiles | profile, source, associations, flag | composite reconcile, partial failure, sources that move | `DataCollectionApply`, `DataCollectionProofs`, `DataCollectionDocument` |
| SnmpConfig | both halves, read while planning | upload of a half | secrets that are never exported, replacement of a whole half | `SnmpConfigApply`, `UserAndSnmpConfigProofs` |
| Rendering, schemas | none | | no decision is taken | not modelled |

The parts interact in three ways. The scheduler hands each `KindHandler` all documents of
its kind; `plan` reads the server, `execute` writes to it and returns one outcome per
document. Handlers do not call each other; they meet on the server, which is why every
model has the server's state and the other operators in it. And a document goes round:
export and convert make documents, apply compares them with the server through the same
conversions. `PROJECT.json` lists the hazards line by line, with the properties that watch
them.

What makes each part correct, in one sentence each: the scheduler admits all or nothing,
never goes on to later kinds after a failure and has a true row for every document; the
lockout rules hold at each step of an apply; a row of any kind says what is on the server;
what was reported as a success is also in effect (loaded, reloaded, imported); no update
is lost where the API has conditions; no credential is erased; applying again changes
nothing, and neither does applying an export; read-only is kept; an exit status of 0 means
that it was done; every command ends.

## The modules and the code

In all modules a request has two independent results, whether the server served it and
whether the client saw the answer, with `answered => served`: the 30 s deadline of the
client ends the wait and not the server's work. Reads have no effect, so a lost answer of
a read is a failed read. The server itself is external: its actions are modelled from what
the code, its comments and the integration tests say of it. Operators named
`<definition>_<bug>` are slips the code could have made, defined next to the right
definition; each property is violated when one of them takes its place.

### The scheduler

**`ApplyRouter`** translates `apply_documents` and what `run_apply` does around it. `Gate`
is the read-only check and the kind gate, `PlanBucket` one iteration of the plan loop,
`EndPlan` the dry-run branch, `StartBucket`, `BucketOk`, `BucketErr` the execute loop,
`Extended` the rows a bucket adds, the not-attempted ones included. A handler is its
contract: `Settle` and `Write` take its documents one at a time, in any order, and
`BucketErr` may end it at any point. `HaltInside` names the kinds that stop inside their
own bucket (Graph and DataCollection). The contract says that a document planned as in
sync is not written; Maintenance, which re-sends idempotent attachments in that case, is
outside it.

**`ApplyPromise`** is what the documentation promises of an apply, with no handlers, plans
or rows: admission, changes in rank order, and a failure that closes the apply.
`ApplyRouter!KeepsPromise` is the refinement; its mapping is at the end of `ApplyRouter`.

### The command line

**`Invocation`** has the configuration file and its validation (`ValidFile`, `Loads`), the
surroundings of an invocation (variables, flags, readable secrets), `ResolveContext` with
its order of precedence and its errors, `RefuseIfReadOnly`, and everything a request may
come back with: `ErrorsOf` gives for each sort of request (decoded, drained, raw, paged,
uploaded) the errors that an answer becomes, `ExitCode` their exit status.

**`Verbs`** gives each verb the steps it takes, in order: its requests (an operator per
method of the API clients, named like it), what a 404 means to it, where it asks for a
confirmation and how it writes files. A loop of reads stands for one of its turns.
`Kind` is the classification as Read or Write.

**`Session`** runs a verb: `Start` loads, resolves and gates; `Read`, `Change`, `Local`,
`Reply`, `EmitFiles` take the next step; `WriteConfig` is one file operation of
`write_atomic`; `WaitStep` is a step of `ImportWait`, which it instantiates. `Others` act
on the object or the file meanwhile, `Crash` cuts a command short at any step (of a rename
that was not synced either side may survive), `Again` is a second try.

**`ImportWait`**: `Snapshot`, `Trigger` and `PollOnce` are `run_import` and
`wait_for_import_completion`; `Clear`, `Purge`, `OtherTrigger` are what the comments of
the wait loop say may happen meanwhile.

### The handlers

**`UserApply`**: `Snapshot` and `ReadUser` are `plan_users`, `PlanUser` is `plan_user`,
`CheckLockout` the two checks of `UserHandler::plan`, `Execute` one turn of
`execute_plans`, `Row` is `outcome_of`. All scalar fields are one, the profile.

**`GraphApply`**: `ReadUpload` and `CheckOwners` are `plan`, `Delete`, `AwaitRemoval`,
`Post`, `AwaitLoad`, `RollBack` the requests and waits of `create` and `update` in their
order. An upload is what it says (the declared graph, another, one that cannot be parsed)
and the container id it yields. The server's loading and unloading are `Load` and `Unload`.

**`BusinessServiceApply`**: `Gate`, `List`, `GetOne` and `Plan` are `plan`; `Create` is
pass 1, `Settle` and `Replace` pass 2, `Reload` its end. A service is its body and its
children; ids are names, since a service keeps its id for as long as it exists and each
service is created or deleted by others at most once.

**`RequisitionApply`**: `ReadRequisition`, `ReadForeignSource` and `EndPlan` are
`plan_requisition` under `plan_parsed`, the three `Send`/`Trigger` actions the writes of
`execute_plan`, `Begin`, `End` and `Finish` the loop of `execute_multi`. `ApplyAgain` is
the operator running the command once more. `RunImport` is the server's side of an import.
`found` keeps what the server held at first, which may be a draft: a pending requisition that
was never imported, whatever is deployed, or a definition edited since the last rescan.
`PassedOver` and `Hidden` name the drafts that keep an import or a rescan from being asked for.

**`EventSourceApply`** has two kinds in one module, because the order document is planned
over sources that the other documents will create. `Find` and `Download` are
`fetch_remote`, `PlanOrder` to `DecideOrder` the plan of `EventSourceOrderHandler`,
`Upload`, `Lookup` and `Disable` are `upload_then_optionally_disable`. An order document
with a name twice, or with the catch-all anywhere but last, is refused (`ValidOrder`). `Place`,
`UploadOrder` and `Verify` its execution; `FetchPage` is one turn of `list_source_order`
wherever it is called, and `EndSources` is what the router does between the two kinds. A
server that refuses a file says so in the body of its answer (`rejected`); where it puts
sources that an uploaded order does not list is left open, as the code leaves it. The filters
and picks of sequences (`Pick`, `Without`, `Only`) are recursive functions, which can be
reasoned about.

**`ThresholdingApply`** also has two kinds, and beside the apply the `group delete`
command: `ListGroups` to `Finish` are the plans and executions of both handlers with their
ETags, `CheckBound` and `DeleteGroup` the command. The server refuses a PUT or DELETE of an
old version and a POST of a taken name.

**`MaintenanceApply`** plans windows over nodes that are named or selected, writes the
definition, then attaches one daemon at a time. Attaching to a package changes the package,
and package documents of the same apply take part with their ETags, in the order of
`precedence.rs`. `changes` counts what others did, and `disturbed` says what they touched: a
node gets a higher id with each new import, so that only the count bounds the ids.

**`DataCollectionApply`**: the steps of `reconcile_one` are actions of their own (profile,
create or replace, attach, detach, switch, report), each of which may fail; `parts` is what
the outcome names. Several documents may share a profile.

**`SnmpConfigApply`**: `Export` gives each secret a placeholder, `Plan` compares what the
document sets, `Upload` replaces a half. Environment variables are state: unset, right or
wrong. `Scope` is the fragment that a label gives a placeholder, the same for labels that
sanitize alike; the operator then sets the placeholder to one of the secrets it stands for
(`Behind`). An export is applied to the server it came from, a blank one or one `Elsewhere`.

### The documents

A module per kind has what a document says, what the server can hold, and the conversions
between them, each reduced to the parts that its conversions treat differently:
`EventSourceDocument` (parts of an event in the legacy XML, the wire form and the YAML, with
the alarm data and what `from_wire` drops; the findings of `convert`, the event diff),
`RequisitionDocument` (canonical form, diff, rescan classification, `preserve_unmodeled`,
legacy XML with its findings, the comment that records the foreign source's date, and a
foreign source whose requisition is missing), `UserDocument`, `GraphDocument` (GraphML
parse and render), `BusinessServiceDocument` (references, templates),
`ThresholdGroupDocument`, `ThreshdPackageDocument` (units of intervals),
`DataCollectionDocument` (canonical form of both sides), `MaintenanceDocument` (outage times
of each kind, in the forms `render` and `parse` know, nodes and interfaces). `ApplyInput` is
what comes before all of them: the files and YAML documents of an `apply` and their envelope,
what is refused of them and which kind each goes to.

**`DocumentCycle`** composes them. A document is written by somebody (`Author`), exported
from a server (`Export`) or converted from a file (`Convert`), refused, or applied to a
server and applied again; the operators of its kind decide what each of them does. `Preview`
of a kind is the diff that a dry run prints, reduced to the parts it names, and `Tells` what
the preview of an update must not leave out.

## What the runs check

| Run | Instance | Shows |
|---|---|---|
| `router_safety` | 3 documents, 3 kinds, any kind per document, unknown ones included | the scheduler's invariants and the refinement |
| `invocations` | every verb with its options; 17 configurations and about 100 shells; 1 act of others, 1 crash, 2 tries | read-only is kept, what ends well was done, deletes are confirmed and in order, configuration and files survive, the wait is honest, commands end |
| `documents` | 10 kinds, every written document, server and file of the modules | a re-apply is silent, an apply serves what was declared and spares the rest, an export without warnings has lost nothing, what an update changes is in its preview |
| `user_apply` | 3 users, 2 roles, 1 other administrator | lockout rules at every step; rows are true |
| `graph_apply` | 2 graphs, 1 other operator | rows are true, success is visible, creates replace nothing, applies end |
| `business_service_apply` | 3 services, 1 other operator | rows, reload, whole objects, plan predicts execute, no cycles |
| `requisition_apply` | 2 requisitions, 2 runs, 1 other operator | stored, imported, idempotent, no rescan of half a document |
| `event_source_apply` | 2 documents, 3 sources, pages of 2, 2 runs, 1 other operator | sources are as declared, the order is verified, planned honestly, and disturbs nothing else |
| `thresholding_apply` | 2 groups, 1 package, 1 delete command, 1 other operator | no lost update, no dangling package, a safe delete, true rows |
| `maintenance_apply` | 2 windows, 1 node, 1 package, 1 other operator | a row covers definition and attachments, none is attached under an old definition, own attachments spare own packages |
| `datacollection_apply` | 2 sources, 2 profiles, 4 documents, 1 other operator | rows and parts are true, a source that moves is never without a profile |
| `snmp_config_apply` | 2 profiles, 1 v3 user, 2 secrets | no credential is erased, a success is one of both halves, what an export applied back restores and what not |

An invariant named `<Component>Inv` is the conjunction of the type invariant and the
smaller invariants of its module, each stated and commented by itself.

**Bounds.** Three documents let a bucket have two documents and a kind come before or after it;
with three kinds a halted bucket can have one before it and one after it. Three users are the
caller, whose roles the check protects, and two more, so that a protected role can be taken from
one, granted to the other or created with it, in either order of the names. Two graphs suffice
for a halt and for a wait that looks at a container of the other. Three services allow a chain,
a self-contained cycle over two documents and a third outside it. Two requisitions, one found in
any state without a draft, with any draft of its nodes or of its definition, and one to be
created, allow a bucket that goes on after a failure, and two runs the re-run after it. Two
profiles whose labels sanitize alike, beside the defaults, give a placeholder of its own and one
that is shared, over all values of the secrets. Three event sources let the order document list created, live and missing ones
and leave two out; a listing of up to four names in pages of two is read in several requests, as
more than a thousand sources would be. Two groups are one that a package binds and one that it
leaves; two windows one that fails and one that goes on; two sources and two profiles let a
source move while another document writes the profile it moves to. The documents have each part
once in every shape that a conversion tells apart, and two of whatever a kind has several of, so
that order and repetition matter. `MaxOthers` (`MaxActs` in `Session`) bounds what other
operators do: one act at an arbitrary moment reaches every interleaving of it with each read and
write. `MaxRuns`, `MaxClears`, `MaxAgain` bound the loops. `Declarable`, `Found`, `Account`,
`Starts` pick, for the larger states, the contents that matter. `CHECK_DEADLOCK FALSE` stands in
every configuration because commands end.

**Fairness.** `FairSpec` of `GraphApply` and of `Session` asks weak fairness of the
program's own steps only. The code justifies it: it is sequential, each request has a
deadline and the waits check theirs after every poll. Nothing is asked of the server, of the
operator at a prompt or of others: a container that is never loaded and an import that never
runs still let the command end, and an unanswered prompt may stay. In `Session` the last
conjunct says that polling does not go on for ever, which is the deadline of the wait; in
`GraphApply` giving up is part of the wait's one step.

## Disagreements

What the modelling showed of the code and what is said of it. The properties are stated so
that they hold of the code as it is; where one had to leave a case out, it is listed here.
Paths are below `src/crates/`.

- `onmsctl-iam/src/apply/handler.rs:125`: execution goes on after a failed action, so when
  the grant that was to replace the last holder of a protected role fails, the removal still
  runs. `ProtectedRoleKept` speaks of applies in which no grant failed.
- `onmsctl-businessservice/src/apply/handler.rs:264`: services created in pass 1 do not lead
  to a reload when their replacement fails; and `business-service delete` ends with 0
  although its reload failed (`cmd.rs:138`).
- `onmsctl-provisioning/src/apply/mod.rs:295`: the plan compares with the pending requisition.
  After a failed import trigger the next run therefore says Unchanged, and so does the first
  run when somebody left the document itself as a draft that was never imported (`PassedOver`):
  nothing is imported. A draft that differs from the document in metadata only, or a definition
  edited since the last rescan, likewise leads to an import without rescan, whatever the
  deployed requisition was discovered with (`Hidden`).
- `onmsctl-provisioning/src/apply/multi.rs:420`: an assertion about the order of labels
  fails from the tenth document of a file on, in debug builds.
- `onmsctl-eventconf/src/apply/target.rs:150`: the list of refused files in the answer to an
  upload is not looked at; `docs/concepts/declarative-apply.md:69` promises otherwise.
- `onmsctl-snmp/src/convert.rs:187`: labels that differ only in case or punctuation get the
  same placeholder, which the comment at 195 says cannot happen: applied back, such tiers all
  get one of their secrets. And since secrets are not compared (`apply/handler.rs:82`), an export applied
  without `--force` to a server whose parameters agree leaves its secrets missing or different.
- `onmsctl-maintenance/src/model.rs`: a time of day may have signed fields (`+5`), since
  they are parsed as `u8`, and a day of a date is checked against 31 whatever the month.
- `onmsctl-provisioning/src/model/convert.rs:295`: an interface without `snmpPrimary` is sent
  as `N` but compared as if it were left out, so re-applies are never Unchanged and rescan;
  the same holds of a detector without a class. A user document with an empty scalar and a
  graph focus with blanks in a vertex id do not settle either. `Settles` names these.
- `onmsctl-eventconf/src/apply/diff.rs:192`: removing `snmp` from an event is not noticed,
  although documents can say it. The slow path of the diff ignores the order of events with
  different UEIs.
- `onmsctl-eventconf/src/apply/from_wire.rs` announces a warning for what it drops and gives
  none; `onmsctl-graph/src/graphml.rs:13` announces one for edges that move to another
  layer, and `parse` adds none.
- The export of a disabled event source does not say so: applied back, it is enabled.
- `onmsctl-provisioning/src/cmd/mod.rs:865`: after a 404 of its first GET, `requisition
  delete` does not ask, and deletes.
- `onmsctl-core/src/config.rs`: the advice for a missing file is `config use-context`, which
  needs the file; nor can it repair a current context that does not exist.
- `onmsctl-eventconf/src/cmd/source.rs`: `build_upload_parts` says that duplicate UEIs are
  refused, and does not check; a batch `convert --force` writes inputs with equal stems over
  each other.
- The conversion of requisition XML does not check for repeated foreign ids, addresses or
  empty labels, which an apply then refuses.
- `onmsctl-datacollection`: of two groups of one name only the last is compared; profiles
  are always sent as enabled; references to groups are not checked inside groups.
- `onmsctl-thresholding/src/diff.rs:53`: the diff of a package prints no more than its header
  when all that changes is a repeated entry of a list, a second bound group or a second
  service of one name. The preview of an event source does not show an `snmp` element that
  goes, nor the order of events. `Tells` leaves these out.
- An import that somebody else triggered before ends the import wait as well, and the
  message of a failed graph update takes a request without an answer not to have been served.

## What is proved

Eight modules hold theorems, about the modules of the scheduler, of the kinds and of the
command line. For each they first prove that an invariant `IInv` (of `Session`: `Strong`) is
inductive (`Init => IInv`, one lemma per action
or per conjunct, `Strengthened`), since no property below is inductive by itself; TLC checked
each `IInv` on the instance of its run before it was proved. Properties hold for any constants
that satisfy the assumption of the module (`RankAssumption`, `UserAssumption`, ...): names of
different things differ, documents and found contents are of their type, bounds are numbers.
Two say more: the graphs' (`GraphAssumption`) that uploads of different documents found on
the server yield different containers, and the requisitions' that a run has at most a hundred
documents, whose labels keep their order (`multi.rs:420` above).

**`ApplyRouterAndEventSourceProofs`**. Of the scheduler, from `RankAssumption` (ranks are
numbers and differ between kinds): for any documents, kinds, ranks, handlers and changes by
others, `TypeOK`, `GateIsAllOrNothing`, `HaltStopsLaterKinds`, `RowsHideNoWrite`,
`ReportIsComplete`, `SuccessMeansApplied` and the refinement `KeepsPromise`. `IInv` says, phase
by phase, what an apply can have reached: nothing is written before the gate opens (`Quiet`),
the bucket that runs is the next in rank order (`RunningIsNext`), rows appear in that order
(`ReportedInOrder`), every write has a row or an outcome to come (`TouchedIsAccounted`), and a
row is earned (`RowsAreEarned`, `SyncedSince`, `SkippedBehindFailure`). The lemmas about the
frontier between executed and unexecuted kinds (`Frontier`, `PastRanks`) carry the two
properties about order; the refinement is proved action by action.

Of the event sources, from `EventSourceAssumption` (an order that is found on the server lists
no source twice and has the catch-all, if any, last): `EventSourceInv`,
`OrderIsVerified` and `UnlistedKeepOrder`, for any number of sources, page sizes, runs and
acts of others. `GoodOrder` says what an order on the server always is. `TargetIsPlaced` says
what an order document is on the way to: once what it lists exists, the target of the current
order is the order itself, so that "none" and a verified upload mean the same
(`NoneMeansPlaced`, `SettledStaysPlaced`), and a source that is still missing has a failed
document behind it (`MissingOnlyByFailure`). `ListedIsOrder` says that pages read so far are a
prefix of the order as long as nobody interferes; `SourcesAsClaimed` gives the rows of the
sources. The lemmas are about sequences without repetition: filters keep the order
(`PickFacts`, `WithoutFacts`), two of them concatenated (`JoinedFacts`), and that computing a
target twice changes nothing (`TargetFacts`). Where they need an induction over the length of
a list it is done by `RangeInduction`, which is proved from the well-foundedness of the finite
sets and not from an induction theorem with an operator parameter.

**`ThresholdingAndSessionProofs`**. Of thresholding, from `ThresholdingAssumption` (groups and
packages are told apart, as are bodies and the absence of one): `ThresholdingInv`,
`WrittenPackageIsBound`, `UnforcedDeleteIsSafe` and `NoLostUpdate`, for any number of groups,
packages and acts of others. The core is `PlanVouches`: an ETag that is still the server's
vouches for the body that was read with it. It turns the server's precondition into
`NoLostUpdate` and, with `PlanFollows`, into true rows. `GateKnowsGroups` keeps what the gate
saw until a package is written; `DeletionSees` says which packages a deletion in progress has
yet to see. The lemma `PutSparesDeletion` says that what others put while a deletion is under
way is the only thing it can miss.

Of invocations, from `SessionAssumption` (verbs are the program's, a variable that is unset is
empty, the file found and those that others write are configurations, theirs load):
`InvocationInv` and `TimeoutMeansUnseen`, for any configurations, shells, verbs, options,
numbers of acts of others and repetitions. `Strong` says what a command is in the middle of a
verb: the steps left end the verb's program, with what that implies for their order
(`Programmed`, from the lemma `Programs`, which goes through the verbs); whatever is still to
be deleted has its request to come, and its question before it (`Due`, `Confirmable`);
whatever is still to be written has its write to come (`Writing`); a command that may still
send was not refused (`Gated`, with `Resolves` and `GateIs` about contexts and the gate). For
`config use-context`, the operations left tell what the file, the temporary file and the disk
hold, so that a crash at any of them leaves a configuration that loads (`Configured`,
`OperationsLeft`). `Awaited` is the wait's: imports that ran or wait are bounded by the triggers,
and the baseline is older than the command's own import, which gives `TimeoutMeansUnseen`.
Reads, writes, questions and outputs do one of a few things to what is left and to the server;
these are named in `Moves`, each action is shown to be such a move, and what a move keeps is
proved once.

**`UserAndSnmpConfigProofs`**. Of users, from `UserAssumption`: `UserInv`, `ProtectedRoleKept` and
`SelfKeepsProtected`, for any users, roles, documents and number of other administrators.
`PlansFollow` says that the plan of a user nobody else changed is the one for the account in
the snapshot, which the checks relied on; `InOrder`, that what ran comes before what is
due. `Kept` and `Granted` split the history: a holder in the snapshot holds until its own
removal runs, and a grant that was answered is in effect. So, while a grant is due no
removal has run, and afterwards the holders that the check counted are there: that is
`ProtectedRoleKept`. `AsPlanned` says what an account is in the middle of a plan, and gives
true rows at its end. The proof needs `ExecuteRank` (grants before removals), and
`SelfIsThere`, without which a create could take the place of the caller's account.

Of SNMP configurations: `SnmpConfigInv`, `NoSecretIsErased` and `ExportAppliesBack`, for any
profiles, users, secrets and labels. `Provenance` follows each secret from the server through
its placeholder and the environment back, to one of those the placeholder stands for
(`PlaceholdersReturn`), `ByStage` says what has been read and sent by then, and `AsSent` what the
server holds after each half, and that what was found decides which half is written.

**`BusinessServiceProofs`**, from `ServiceAssumption`: `BusinessServiceInv`, `WholeOrBare`
and `WrittenIsActive`. What pass 2 sends (`FullBody`) is all that was declared once no child
is missing, and none is when each service that was not listed has been created in pass 1 and
found by the second listing (`NewAreFound`); this is why a row fails only for a failed request
or another operator. `FoundAsDeclared` keeps services that were in sync, `Gated` what the
cycle gate and the resolution of children have excluded.

**`GraphProofs`**, from `GraphAssumption`: `GraphInv`, `SilentSuccessIsServed` and
`CreateNeverReplaces`. One graph is worked on at a time (`OneAtATime`), as planned (`Shape`),
and nothing after a failure that halts (`Halting`). `Stored` says what the server keeps of an
upload at each step of its create, update or rollback and after each row, `Shown` which
container is listed for it meanwhile, since the server loads and unloads at any moment.

**`RequisitionProofs`**, from `RequisitionAssumption`: `RequisitionInv`, `ReapplyIsUnchanged`
and `RescanSeesWholeDocument`, for any number of runs of the command. What was read is there
until it is replaced (`Reads`), what was sent stays (`Sent`). A requisition on which no run
failed is as it was found, drafts included (`Fresh`), or applied as a whole save for what such a
draft kept from the plan (`Applied`: no import that waits can miss a rescan), in this and in
every later run (`Imported`).

**`DataCollectionProofs`**, from `DataCollectionAssumption`: `DataCollectionInv` and
`NeverOrphaned`. A source is followed through its steps (`StepOrder`, `PlanFits`):
`LeftIsDifference` says that what is left to attach and detach is what still differs,
`SourceFollows` and `InlineHolds` that tree, flag and inline profile are as declared once
written, the last also when documents share the profile and agree on it; `PartsHold` and
`Held` carry that to the parts that a row names and to the profile a source is never without.

**`MaintenanceProofs`**, from `MaintenanceAssumption` (a window and a package are two things,
even of one name): `MaintenanceInv` and `AttachFollowsDefinition`. A window is followed
through its plan (`Prepared`: the ids found are present ones, they cover something, and
"none" means in sync), its write (`Defined`) and its attachments (`Honoured`: each target is
still due, attached, or failed); `Control` puts windows after packages, so that attaching
comes too late to move a version on which a write depends (`Kept`). The first attempt at
`Ids` showed that ids were not bounded by the number of things touched: hence `changes`.

**Model-checked only:** `DocumentCycle` (its three properties), which compares conversions over
all documents of finite shapes and goes through them completely; and all liveness (`ApplyEnds`,
`CommandEnds`), which is out of the prover's reach. No module has a `RECURSIVE` operator:
recursion is bounded iteration over sets or a fold.

## What is not modelled

Syntax (YAML, XML, JSON), tables and messages, TLS and logging options, byte limits, JSON
schemas. Within the models: the scalars of a user, the attributes of a service and the nodes of
a requisition are small values in the handlers' modules, and have parts only in the document
modules; warnings that change no outcome are left out. That a service could be deleted and
created again by others, twice within one apply, is excluded. SNMP address ranges and SNMP value
semantics are labels. `status` and `check` verbs that only read are single steps. Docs, the
website, fuzz targets and the integration tests are not components; the tests were read for what
the server does.

## Plan

1. A specification of the `KindHandler` contract and the handlers shown to implement it,
   which closes the gap between `ApplyRouter` and the modules of the kinds.
2. The depth-first search of `detect_cycle` against the definition of a cycle, over all
   graphs of a few services.
3. Proofs that each conversion of `DocumentCycle` loses nothing, for documents of any size.
