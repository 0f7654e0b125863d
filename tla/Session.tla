------------------------------- MODULE Session -------------------------------
(***************************************************************************)
(* Invocations of onmsctl from the shell: the configuration is loaded, the *)
(* context resolved and writes to a read-only one refused; then the verb's *)
(* program (Verbs) runs against a server that may fail at any request and  *)
(* that others use too, up to an exit status.  `config use-context`        *)
(* rewrites the configuration through a temporary file, and the machine    *)
(* may crash between any two steps.  `requisition import --wait` is        *)
(* ImportWait.  A verb may be run again, for instance after a failure.     *)
(***************************************************************************)
EXTENDS Verbs

CONSTANTS
    Starts,         \* how an invocation may begin: [verb, opts, file, shell, files, before]
    Edits,          \* configuration files that others may write
    Target,         \* the argument of `config use-context`
    MaxActs,        \* how often others touch the object or the configuration
    MaxAgain        \* how often the verb is run again

\* What a configuration file may say.
Auth ==
    [schemes : SUBSET {"basic", "bearer"}, username : STRING, secrets : SUBSET Secrets,
     keyringNamed : BOOLEAN]
Context == [name : STRING, url : STRING, auth : Auth, roles : SUBSET STRING, readOnly : BOOLEAN]
Configuration == [whole : BOOLEAN, current : STRING \cup {None}, contexts : Seq(Context)]

\* The flags of the verbs that change what they do.
Options ==
    [yes : BOOLEAN, wait : BOOLEAN, force : BOOLEAN, all : BOOLEAN, byId : BOOLEAN,
     yaml : BOOLEAN, defaults : BOOLEAN, vendorOnly : BOOLEAN]

\* Every verb is one of the verbs, a variable that is unset is empty, and nobody leaves a
\* configuration behind that does not load.
ASSUME SessionAssumption ==
    /\ None \notin Nat /\ None \notin Errors /\ None # TRUE /\ None \notin Configuration
    /\ MaxActs \in Nat /\ MaxAgain \in Nat
    /\ \A start \in Starts :
          /\ start.verb \in ServerVerbs \cup ConfigVerbs /\ start.opts \in Options
          /\ start.file \in Configuration \cup {None}
          /\ start.shell.env.context # None /\ start.shell.flags.readOnly \in BOOLEAN
          /\ start.files \in Seq(STRING) /\ start.before \subseteq STRING
    /\ Edits \subseteq Configuration /\ \A edit \in Edits : Loads(edit)
    /\ Target \in STRING

VARIABLES
    file,           \* the configuration on disk, as the file system shows it
    settled,        \* what of it a crash leaves: differs from "file" until its directory is synced
    staged,         \* the temporary file: None, or [content, synced]
    loaded,         \* the configuration as this invocation read it
    shell, run,     \* this invocation's surroundings, verb and options
    rest,           \* the steps still to be taken
    status,         \* idle, running, prompt, waiting, ended or crashed
    exit,           \* exit status, so far
    parts, had,     \* the parts of the verb's object on the server, now and at the start
    sent, served,   \* the parts this invocation asked to write, and those it wrote
    confirmed,      \* the operator said yes
    output,         \* [files, before, written, whole]
    touched,        \* others touched the object or the file, since the start
    others, again   \* so far

disk == <<file, settled>>
given == <<loaded, shell, run, had>>
effects == <<parts, sent, served>>
history == <<touched, others, again>>
core == <<disk, given, effects, history, staged, rest, status, exit, confirmed, output>>

\* The wait of `requisition import --wait`, and the server it waits for.
VARIABLES lastImport, clock, accepted, importers, clears, present, imported, snapshot, waitPhase
waitVars == <<lastImport, clock, accepted, importers, clears, present, imported, snapshot, waitPhase>>
sessionVars == <<core, waitVars>>

IW == INSTANCE ImportWait WITH MaxOthers <- MaxActs, MaxClears <- MaxActs,
                               others <- importers, phase <- waitPhase

verb == run.verb
opts == run.opts
Waits == verb = "req import" /\ opts.wait

-----------------------------------------------------------------------------
Objects == IF verb \in RequisitionVerbs THEN {"pending", "deployed"} ELSE {"object"}

SessionInit ==
    /\ \E start \in Starts :
          /\ file = start.file /\ shell = start.shell
          /\ run = [verb |-> start.verb, opts |-> start.opts]
          /\ output = [files |-> start.files, before |-> start.before, written |-> {}, whole |-> FALSE]
    /\ settled = file /\ staged = None /\ loaded = None
    /\ rest = << >> /\ status = "idle" /\ exit = 0
    /\ parts \in SUBSET Objects /\ had = parts
    /\ sent = {} /\ served = {} /\ confirmed = FALSE
    /\ touched = FALSE /\ others = 0 /\ again = 0
    /\ IW!Init
    /\ ~Waits => lastImport = None /\ ~present

End(code) ==
    /\ status' = "ended" /\ exit' = code
    /\ rest' = << >> /\ staged' = None
Failed(error) == End(ExitCode(error))

\* Each capability's arm of the dispatch: context first, then the read-only gate.
Refusal ==
    LET context == ResolveContext(file, shell)
    IN IF verb \in LocalOnly THEN None
       ELSE IF verb \in ConfigVerbs THEN
            IF ~Loads(file) \/ (verb = "config use-context" /\ Target \notin Names(file))
              THEN "Config" ELSE None
       ELSE IF context = None THEN "Config"
       ELSE IF RefuseIfReadOnly(context, Kind(verb)) THEN "ReadOnlyRefused" ELSE None

Start ==
    /\ status = "idle"
    /\ IF Refusal # None
         THEN Failed(Refusal) /\ UNCHANGED loaded
         ELSE /\ rest' = IF Waits THEN << >> ELSE Steps(verb, opts)
              /\ status' = IF Waits THEN "waiting" ELSE "running"
              /\ loaded' = file
              /\ UNCHANGED <<exit, staged>>
    /\ UNCHANGED <<disk, effects, history, shell, run, had, confirmed, output, waitVars>>

Here == Head(rest)
At(do) == status = "running" /\ rest # << >> /\ Here.do = do

\* The step is done: go on with the rest, remembering a status for the end.
GoOn(code) ==
    /\ rest' = Tail(rest) /\ exit' = code
    /\ UNCHANGED <<staged, status>>

\* What becomes of a step that is answered so.
Continue(error, answer) ==
    IF answer = "404" /\ Here.missing = "noop" THEN End(0)
    ELSE IF answer = "404" /\ Here.missing = "noAsk"
      THEN rest' = Tail(Tail(rest)) /\ UNCHANGED <<exit, staged, status>>
    ELSE IF answer = "404" /\ Here.missing = "goOn" THEN GoOn(exit)
    ELSE IF error = None THEN GoOn(exit)
    ELSE IF Here.tolerant THEN GoOn(IF Here.do = "get" THEN 1 ELSE exit)
    ELSE Failed(IF answer = "404" THEN Here.missing ELSE error)

\* An object that is there is not answered with 404, nor one that is not with a body.
Answerable(a) ==
    Here.part = "object" => IF parts = {} THEN a \notin Served ELSE a # "404"

Read ==
    /\ At("get")
    /\ \E a \in Answers :
          /\ Answerable(a)
          /\ \E e \in ErrorsOf(a, Here.body) : Continue(e, a)
    /\ UNCHANGED <<disk, given, effects, history, confirmed, output, waitVars>>

\* A request that changes the server, carried out or not, and its answer.
Change ==
    /\ At("write") \/ At("remove")
    /\ \E a \in Answers : \E done \in MayBeServed(a) :
          /\ sent' = sent \cup {Here.part}
          /\ served' = IF done THEN served \cup {Here.part} ELSE served
          /\ parts' = IF done /\ Here.do = "remove" THEN parts \ {Here.part} ELSE parts
          /\ Here.do = "remove" /\ Here.part \in parts => a # "404"
          /\ \E e \in ErrorsOf(a, Here.body) : Continue(e, a)
    /\ UNCHANGED <<disk, given, history, confirmed, output, waitVars>>

\* Checks of the input, the terminal and what was read.
Local ==
    /\ \/ At("check") /\ ((Here.part # "never" /\ GoOn(exit)) \/ Failed(Here.missing))
       \/ At("terminal") /\ (GoOn(exit) \/ Failed("Config"))
       \/ At("report") /\ \E code \in 0..2 : GoOn(IF code > exit THEN code ELSE exit)
       \/ /\ At("ask") /\ status' = "prompt"
          /\ UNCHANGED <<rest, exit, staged>>
    /\ UNCHANGED <<disk, given, effects, history, confirmed, output, waitVars>>

Reply ==
    /\ status = "prompt"
    /\ \/ /\ status' = "running" /\ confirmed' = TRUE
          /\ rest' = Tail(rest)
          /\ UNCHANGED <<exit, staged>>
       \/ Failed("Config") /\ UNCHANGED confirmed
    /\ UNCHANGED <<disk, given, effects, history, output, waitVars>>

\* Output files; an I/O error while they are written is left out.
EmitFiles ==
    /\ At("emit")
    /\ LET emitted == Emitted(Here.part, output.files, output.before, opts.force)
       IN /\ output' = [output EXCEPT !.written = emitted.written, !.whole = emitted.all]
          /\ IF emitted.all THEN GoOn(exit) ELSE Failed("Config")
    /\ UNCHANGED <<disk, given, effects, history, confirmed, waitVars>>

EndOfSteps ==
    /\ status = "running" /\ rest = << >>
    /\ End(exit)
    /\ UNCHANGED <<disk, given, effects, history, confirmed, output, waitVars>>

-----------------------------------------------------------------------------
\* ---- config use-context: each file operation may fail, which drops the temporary file.
Rewritten == [loaded EXCEPT !.current = Target]
Torn(content) == [content EXCEPT !.whole = FALSE]

Operation ==
    \/ /\ At("stage")
       /\ staged' = [content |-> Rewritten, synced |-> FALSE]
       /\ UNCHANGED <<disk>>
    \/ /\ At("sync")
       /\ staged' = [staged EXCEPT !.synced = TRUE]
       /\ UNCHANGED <<disk>>
    \/ /\ At("rename")
       /\ file' = staged.content
       /\ settled' \in {settled, IF staged.synced THEN staged.content ELSE Torn(staged.content)}
       /\ staged' = None
    \/ /\ At("syncDir")
       /\ settled' = IF settled = Torn(file) THEN settled ELSE file
       /\ UNCHANGED <<file, staged>>
    \/ /\ At("verify") /\ Loads(file)
       /\ UNCHANGED <<disk, staged>>

WriteConfig ==
    /\ \/ Operation /\ rest' = Tail(rest) /\ UNCHANGED <<status, exit>>
       \/ /\ \/ At("stage") \/ At("sync") \/ At("rename") \/ At("syncDir")
             \/ At("verify") /\ ~Loads(file)
          /\ Failed("Config") /\ UNCHANGED <<disk>>
    /\ UNCHANGED <<given, effects, history, confirmed, output, waitVars>>

-----------------------------------------------------------------------------
\* ---- the wait
WaitStep ==
    /\ status = "waiting" /\ waitPhase \in IW!Waiting
    /\ IW!Step
    /\ UNCHANGED core

WaitedCode ==
    CASE waitPhase = "completed" -> {0} [] waitPhase = "timeout" -> {ExitCode("WaitTimeout")}
      [] waitPhase = "vanished" -> {ExitCode("AsyncOpFailed")}
      [] waitPhase = "failed" -> {ExitCode(Decoded(a)) : a \in Answers \ {"ok", "huge"}}

Waited ==
    /\ status = "waiting" /\ waitPhase \notin IW!Waiting
    /\ \E code \in WaitedCode : End(code)
    /\ UNCHANGED <<disk, given, effects, history, confirmed, output, waitVars>>

ImportServer ==
    /\ status = "waiting"
    /\ IW!OtherTrigger \/ IW!Purge \/ IW!Clear \/ \E who \in {"mine", "other"} : IW!RunImport(who)
    /\ UNCHANGED core

-----------------------------------------------------------------------------
\* ---- others, crashes, and the next try
Underway == status \in {"running", "prompt"}

\* Others create or purge parts of the object, or edit the configuration file.
Others ==
    /\ Underway /\ others < MaxActs /\ others' = others + 1 /\ touched' = TRUE
    /\ \/ /\ verb \in Writes /\ parts' \in (SUBSET Objects) \ {parts}
          /\ UNCHANGED <<disk>>
       \/ /\ verb = "config use-context"
          /\ file' \in Edits /\ settled' = file'
          /\ UNCHANGED parts
    /\ UNCHANGED <<given, staged, rest, status, exit, sent, served, confirmed, output, again, waitVars>>

\* The machine stops; of a rename whose directory is not synced either side may survive.
Crash ==
    /\ Underway
    /\ status' = "crashed" /\ rest' = << >> /\ staged' = None
    /\ file' \in {file, settled} /\ settled' = file'
    /\ UNCHANGED <<given, effects, history, exit, confirmed, output, waitVars>>

\* The same verb again, confirmed beforehand.
Again ==
    /\ status \in {"ended", "crashed"} /\ ~Waits /\ again < MaxAgain /\ again' = again + 1
    /\ run' = [run EXCEPT !.opts.yes = TRUE]
    /\ status' = "idle" /\ exit' = 0 /\ had' = parts
    /\ sent' = {} /\ served' = {} /\ confirmed' = FALSE /\ touched' = FALSE
    /\ output' = [output EXCEPT !.before = @ \cup output.written, !.written = {}]
    /\ UNCHANGED <<disk, staged, loaded, shell, rest, parts, others, waitVars>>

Act == Start \/ Read \/ Change \/ Local \/ EmitFiles \/ EndOfSteps \/ WriteConfig \/ Waited

SessionNext == Act \/ WaitStep \/ Reply \/ ImportServer \/ Others \/ Crash \/ Again

SessionSpec == SessionInit /\ [][SessionNext]_sessionVars

\* The shell and the client take their next step, requests and polls have deadlines, and
\* the operator, the server and others owe nothing.
FairSpec ==
    /\ SessionSpec
    /\ WF_sessionVars(Act)
    /\ WF_sessionVars(WaitStep /\ waitPhase \in {"snapshot", "trigger"})
    /\ WF_sessionVars(WaitStep /\ waitPhase' \in {"completed", "timeout", "vanished"})

-----------------------------------------------------------------------------
\* Type invariant of invocations.
SessionTypeOK ==
    /\ status \in {"idle", "running", "prompt", "waiting", "ended", "crashed"}
    /\ exit \in 0..15
    /\ {parts, had} \subseteq SUBSET Objects
    /\ served \subseteq sent
    /\ confirmed \in BOOLEAN /\ touched \in BOOLEAN
    /\ others \in 0..MaxActs /\ again \in 0..MaxAgain

EndedWith(code) == status = "ended" /\ exit = code

\* What the operator asked for: the context named by the flag, else the variable, else the
\* file; and whether the flag, the variable or that context says read-only.
AskedFor ==
    IF shell.flags.context # None THEN shell.flags.context
    ELSE IF shell.env.context # "" THEN shell.env.context ELSE file.current
AskedReadOnly ==
    \/ shell.flags.readOnly \/ shell.env.readOnly = "1"
    \/ \E i \in DOMAIN file.contexts :
          file.contexts[i].name = AskedFor /\ file.contexts[i].readOnly

\* Nothing that changes the server is ever sent under read-only, whichever way it was
\* asked for and whatever the verb; and only then is a verb refused for it.
ReadOnlyIsKept ==
    /\ file # None /\ AskedReadOnly => sent = {} /\ status # "waiting"
    /\ EndedWith(12) => AskedReadOnly

\* A delete that ends well left nothing of its object, unless others put it back; one cut
\* short never leaves the deployed half of a requisition removed and the pending one
\* there; and what was there when the command began is not removed without --yes or a
\* confirmation.
Deletes == {"req delete", "source delete", "user delete", "maint delete", "dc delete",
            "bs delete", "thr group delete", "thr package delete", "graph delete"}
DeletedIsGone == verb \in Deletes /\ EndedWith(0) /\ ~touched => parts = {}
PendingGoesFirst ==
    verb = "req delete" /\ ~touched /\ "pending" \in parts => parts = had
NothingUnconfirmed ==
    verb \in {"req delete", "user delete"} /\ ~opts.yes /\ ~confirmed /\ ~touched => parts = had

\* A verb that ends well has had every write carried out that it does not tolerate to fail.
Demanded ==
    {step.part : step \in {st \in {Steps(verb, opts)[i] : i \in DOMAIN Steps(verb, opts)} :
        st.do = "write" /\ ~st.tolerant /\ st.body # "rows"}}
ExitZeroIsServed ==
    verb \notin ConfigVerbs /\ ~Waits /\ EndedWith(0) => Demanded \subseteq served

\* Whatever fails or crashes, a configuration that loaded still loads, and a switch that
\* ends well has switched, unless others edited the file.
ConfigSurvives ==
    /\ loaded # None /\ Loads(loaded) => Loads(file)
    /\ verb = "config use-context" /\ EndedWith(0) /\ ~touched => file.current = Target

\* Exports never write over a file without --force, where they check at all, write all of
\* their files or none, and no two objects into one file.
Policy == {Steps(verb, opts)[i].part : i \in {j \in DOMAIN Steps(verb, opts) :
                                                Steps(verb, opts)[j].do = "emit"}}
FilesAreKept ==
    verb \in ServerVerbs /\ output.written # {} =>
        /\ Policy \cap {"guarded", "files", "export"} # {} /\ ~opts.force =>
              output.written \cap output.before = {}
        /\ Policy \cap {"files", "export"} # {} => output.whole
        /\ Policy = {"export"} => Cardinality(output.written) = Len(output.files)

\* The state is well typed; what is said of import waits, read-only, deletions, writes,
\* the configuration and output files holds.
InvocationInv ==
    /\ SessionTypeOK /\ IW!WaitInv
    /\ ReadOnlyIsKept
    /\ DeletedIsGone /\ PendingGoesFirst /\ NothingUnconfirmed
    /\ ExitZeroIsServed
    /\ ConfigSurvives
    /\ FilesAreKept

\* The wait never times out on an import that a poll could see to be complete, its
\* last-import set: the deadline is checked after the poll, against a baseline older than
\* the trigger.
TimeoutMeansUnseen ==
    [][waitPhase # "timeout" /\ waitPhase' = "timeout" =>
          ~imported \/ lastImport = None]_sessionVars

\* Liveness: a command that runs or waits ends, or asks, or is cut short.
CommandEnds == status \in {"running", "waiting"} ~> status \notin {"running", "waiting"}
=============================================================================
