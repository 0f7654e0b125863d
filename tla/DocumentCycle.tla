--------------------------- MODULE DocumentCycle ---------------------------
(***************************************************************************)
(* The life of a document of any kind: somebody writes it, exports it from *)
(* a server or converts it from a file of the legacy format, and applies   *)
(* it to a server, and then once more.  The documents of one apply,        *)
(* together, are one more kind (ApplyInput).                               *)
(*                                                                         *)
(* What a document of each kind is, when it is accepted and what applying  *)
(* it leaves is in a module of its own; they have the same operators.  The *)
(* calls that an apply makes, and what may fail between them, are in the   *)
(* modules named <kind>Apply.                                              *)
(***************************************************************************)
EXTENDS Naturals, FiniteSets

CONSTANTS Absent, Fid, Uei, Role

ES == INSTANCE EventSourceDocument
RQ == INSTANCE RequisitionDocument
US == INSTANCE UserDocument
GR == INSTANCE GraphDocument
BS == INSTANCE BusinessServiceDocument
TG == INSTANCE ThresholdGroupDocument
TP == INSTANCE ThreshdPackageDocument
DC == INSTANCE DataCollectionDocument
MT == INSTANCE MaintenanceDocument
AI == INSTANCE ApplyInput

Kind == {"EventSource", "Requisition", "User", "Graph", "BusinessService", "ThresholdGroup", "ThreshdPackage", "DataCollection",
         "Maintenance", "ApplyInput"}

\* What a server can hold of the kind, what files of the legacy format can, and the
\* documents that somebody writes.
Server(k) ==
    CASE k = "EventSource" -> ES!Server
      [] k = "Requisition" -> RQ!Server
      [] k = "User" -> US!Server
      [] k = "Graph" -> GR!Server
      [] k = "BusinessService" -> BS!Server
      [] k = "ThresholdGroup" -> TG!Server
      [] k = "ThreshdPackage" -> TP!Server
      [] k = "DataCollection" -> DC!Server
      [] k = "Maintenance" -> MT!Server
      [] k = "ApplyInput" -> AI!Server
File(k) ==
    CASE k = "EventSource" -> ES!File
      [] k = "Requisition" -> RQ!File
      [] k = "Graph" -> GR!File
      [] OTHER -> {}
Written(k) ==
    CASE k = "EventSource" -> ES!Written
      [] k = "Requisition" -> RQ!Written
      [] k = "User" -> US!Written
      [] k = "Graph" -> GR!Written
      [] k = "BusinessService" -> BS!Written
      [] k = "ThresholdGroup" -> TG!Written
      [] k = "ThreshdPackage" -> TP!Written
      [] k = "DataCollection" -> DC!Written
      [] k = "Maintenance" -> MT!Written
      [] k = "ApplyInput" -> AI!Written
\* Where documents from elsewhere are applied, besides where they come from.
Fresh(k) ==
    CASE k = "EventSource" -> ES!Fresh
      [] k = "Requisition" -> RQ!Fresh
      [] k = "User" -> US!Fresh
      [] k = "Graph" -> GR!Fresh
      [] k = "BusinessService" -> BS!Fresh
      [] k = "ThresholdGroup" -> TG!Fresh
      [] k = "ThreshdPackage" -> TP!Fresh
      [] k = "DataCollection" -> DC!Fresh
      [] k = "Maintenance" -> MT!Fresh
      [] k = "ApplyInput" -> AI!Fresh

\* Local validation.
Valid(k, d) ==
    CASE k = "EventSource" -> ES!Valid(d)
      [] k = "Requisition" -> RQ!Valid(d)
      [] k = "User" -> US!Valid(d)
      [] k = "Graph" -> GR!Valid(d)
      [] k = "BusinessService" -> BS!Valid(d)
      [] k = "ThresholdGroup" -> TG!Valid(d)
      [] k = "ThreshdPackage" -> TP!Valid(d)
      [] k = "DataCollection" -> DC!Valid(d)
      [] k = "Maintenance" -> MT!Valid(d)
      [] k = "ApplyInput" -> AI!Valid(d)

\* The documents that the export verb gives of a server, with and without its options, and
\* the one it gives with none.
Exports(k, s) ==
    CASE k = "EventSource" -> ES!Exports(s)
      [] k = "Requisition" -> RQ!Exports(s)
      [] k = "User" -> US!Exports(s)
      [] k = "Graph" -> GR!Exports(s)
      [] k = "ThresholdGroup" -> TG!Exports(s)
      [] k = "ThreshdPackage" -> TP!Exports(s)
      [] OTHER -> {}
Exported(k, s) ==
    CASE k = "EventSource" -> ES!Exported(s)
      [] k = "Requisition" -> RQ!Exported(s)
      [] k = "User" -> US!Exported(s)
      [] k = "Graph" -> GR!Exported(s)
      [] k = "ThresholdGroup" -> TG!Exported(s)
      [] k = "ThreshdPackage" -> TP!Exported(s)
      [] OTHER -> Absent
\* What that export, or the conversion of a file, reports: its exit code, and 1 for warnings
\* that a kind only prints.
ExportCode(k, s) ==
    CASE k = "EventSource" -> ES!ExportCode(s)
      [] k = "User" -> US!ExportCode(s)
      [] k = "Graph" -> GR!ExportCode(s)
      [] k = "ThresholdGroup" -> TG!ExportCode(s)
      [] k = "ThreshdPackage" -> TP!ExportCode(s)
      [] OTHER -> 0
ConvertCode(k, f) ==
    CASE k = "EventSource" -> ES!ExitCode(f)
      [] k = "Requisition" -> RQ!ExitCode(f)
      [] k = "Graph" -> GR!ExitCode(f)
      [] OTHER -> 0
Converted(k, f) ==
    CASE k = "EventSource" -> ES!Converted(f)
      [] k = "Requisition" -> RQ!Converted(f)
      [] k = "Graph" -> GR!Converted(f)
      [] OTHER -> {}

\* What a plan refuses and what it compares, and what an apply leaves.
Accepted(k, d, s) ==
    CASE k = "User" -> US!Accepted(d, s)
      [] k = "BusinessService" -> BS!Accepted(d, s)
      [] k = "ThresholdGroup" -> TG!Accepted(d, s)
      [] k = "ThreshdPackage" -> TP!Accepted(d, s)
      [] k = "DataCollection" -> DC!Accepted(d, s)
      [] k = "Maintenance" -> MT!Accepted(d, s)
      [] k = "ApplyInput" -> AI!Accepted(d, s)
      [] OTHER -> TRUE
Unchanged(k, d, s) ==
    CASE k = "EventSource" -> ES!Unchanged(d, s)
      [] k = "Requisition" -> RQ!Unchanged(d, s)
      [] k = "User" -> US!Unchanged(d, s)
      [] k = "Graph" -> GR!Unchanged(d, s)
      [] k = "BusinessService" -> BS!Unchanged(d, s)
      [] k = "ThresholdGroup" -> TG!Unchanged(d, s)
      [] k = "ThreshdPackage" -> TP!Unchanged(d, s)
      [] k = "DataCollection" -> DC!Unchanged(d, s)
      [] k = "Maintenance" -> MT!Unchanged(d, s)
      [] k = "ApplyInput" -> AI!Unchanged(d, s)
Applied(k, d, s) ==
    CASE k = "EventSource" -> ES!Applied(d, s)
      [] k = "Requisition" -> RQ!Applied(d, s)
      [] k = "User" -> US!Applied(d, s)
      [] k = "Graph" -> GR!Applied(d, s)
      [] k = "BusinessService" -> BS!Applied(d, s)
      [] k = "ThresholdGroup" -> TG!Applied(d, s)
      [] k = "ThreshdPackage" -> TP!Applied(d, s)
      [] k = "DataCollection" -> DC!Applied(d, s)
      [] k = "Maintenance" -> MT!Applied(d, s)
      [] k = "ApplyInput" -> AI!Applied(d, s)

-----------------------------------------------------------------------------
VARIABLES
    kind,
    doc,        \* the document, Absent before there is one
    origin,     \* the server or file that it is from, Absent if somebody wrote it
    report,     \* what the verb that made it reported: 0 nothing, 1 warnings, 2 an error
    before,     \* the server when the document was applied
    server,     \* and now
    row,        \* the outcome of the last apply
    phase

vars == <<kind, doc, origin, report, before, server, row, phase>>

Init ==
    /\ kind \in Kind
    /\ doc = Absent /\ origin = Absent /\ before = Absent /\ server = Absent
    /\ report = 0 /\ row = "none" /\ phase = "start"

Author ==
    /\ phase = "start"
    /\ phase' = "held" /\ doc' \in Written(kind)
    /\ UNCHANGED <<kind, origin, report, before, server, row>>

\* The export verb of the kind, on a server.
Export ==
    /\ phase = "start"
    /\ \E s \in Server(kind) :
          /\ origin' = s /\ report' = ExportCode(kind, s)
          /\ IF Exports(kind, s) = {} THEN phase' = "refused" /\ UNCHANGED doc
             ELSE phase' = "held" /\ doc' \in Exports(kind, s)
    /\ UNCHANGED <<kind, before, server, row>>

\* The convert verb, on a file.
Convert ==
    /\ phase = "start"
    /\ \E f \in File(kind) :
          /\ origin' = f /\ report' = ConvertCode(kind, f)
          /\ IF Converted(kind, f) = {} THEN phase' = "refused" /\ UNCHANGED doc
             ELSE phase' = "held" /\ doc' \in Converted(kind, f)
    /\ UNCHANGED <<kind, before, server, row>>

\* A document that somebody wrote meets any server, one from elsewhere a fresh one, or the
\* one that it is from.
Targets ==
    IF origin = Absent THEN Server(kind)
    ELSE Fresh(kind) \cup ({origin} \cap Server(kind))

\* One apply: a document that does not validate reaches no server; one that the server
\* shows already is not sent.
Run(s) ==
    IF Unchanged(kind, doc, s) THEN row' = "Unchanged" /\ server' = s
    ELSE row' = "Applied" /\ server' = Applied(kind, doc, s)

Apply ==
    /\ phase = "held" /\ Valid(kind, doc)
    /\ phase' = "applied"
    /\ \E s \in Targets : Accepted(kind, doc, s) /\ before' = s /\ Run(s)
    /\ UNCHANGED <<kind, doc, origin, report>>

Refuse ==
    /\ phase = "held" /\ ~Valid(kind, doc)
    /\ phase' = "refused"
    /\ UNCHANGED <<kind, doc, origin, report, before, server, row>>

\* A plan that the server's state rules out fails the document.
Reject ==
    /\ phase = "held" /\ Valid(kind, doc)
    /\ phase' = "rejected"
    /\ \E s \in Targets : ~Accepted(kind, doc, s) /\ before' = s
    /\ UNCHANGED <<kind, doc, origin, report, server, row>>

ApplyAgain ==
    /\ phase = "applied" /\ Accepted(kind, doc, server)
    /\ phase' = "again"
    /\ Run(server)
    /\ UNCHANGED <<kind, doc, origin, report, before>>

Next == Author \/ Export \/ Convert \/ Apply \/ Reject \/ Refuse \/ ApplyAgain

Spec == Init /\ [][Next]_vars

-----------------------------------------------------------------------------
TypeOK ==
    /\ kind \in Kind
    /\ report \in 0 .. 2
    /\ row \in {"none", "Unchanged", "Applied"}
    /\ phase \in {"start", "held", "refused", "rejected", "applied", "again"}

Settles(k, d) ==
    CASE k = "Requisition" -> RQ!Settles(d)
      [] k = "User" -> US!Settles(d)
      [] k = "Graph" -> GR!Settles(d)
      [] OTHER -> TRUE
Carried(k, o) ==
    CASE k = "EventSource" -> ES!Carried(o)
      [] k = "Requisition" -> RQ!Carried(o)
      [] k = "User" -> US!Carried(o)
      [] k = "Graph" -> GR!Carried(o)
      [] k = "ThresholdGroup" -> TG!Carried(o)
      [] k = "ThreshdPackage" -> TP!Carried(o)
      [] OTHER -> FALSE
Shows(k, d, s) ==
    CASE k = "EventSource" -> ES!Shows(d, s)
      [] k = "Requisition" -> RQ!Shows(d, s)
      [] k = "User" -> US!Shows(d, s)
      [] k = "Graph" -> GR!Shows(d, s)
      [] k = "BusinessService" -> BS!Shows(d, s)
      [] k = "ThresholdGroup" -> TG!Shows(d, s)
      [] k = "ThreshdPackage" -> TP!Shows(d, s)
      [] k = "DataCollection" -> DC!Shows(d, s)
      [] k = "Maintenance" -> MT!Shows(d, s)
      [] k = "ApplyInput" -> AI!Shows(d, s)
Spares(k, d, b, s) ==
    CASE k = "Requisition" -> RQ!Spares(d, b, s)
      [] k = "User" -> US!Spares(d, b, s)
      [] k = "BusinessService" -> BS!Spares(d, b, s)
      [] k = "ThresholdGroup" -> TG!Spares(d, b, s)
      [] k = "ThreshdPackage" -> TP!Spares(d, b, s)
      [] k = "DataCollection" -> DC!Spares(d, b, s)
      [] k = "ApplyInput" -> AI!Spares(d, b, s)
      [] OTHER -> TRUE
Same(k, s, o) ==
    CASE k = "EventSource" -> ES!Same(s, o)
      [] k = "Requisition" -> RQ!Same(s, o)
      [] k = "User" -> US!Same(s, o)
      [] k = "Graph" -> GR!Same(s, o)
      [] k = "ThresholdGroup" -> TG!Same(s, o)
      [] k = "ThreshdPackage" -> TP!Same(s, o)
      [] OTHER -> FALSE

Tells(k, d, b, s) ==
    CASE k = "EventSource" -> ES!Tells(d, b, s)
      [] k = "ThresholdGroup" -> TG!Tells(d, b, s)
      [] k = "ThreshdPackage" -> TP!Tells(d, b, s)
      [] k = "DataCollection" -> DC!Tells(d, b, s)
      [] OTHER -> TRUE

\* Whatever a plan refuses is refused for what the server has: a document that passes the
\* local validation is one that some server would accept.
LocalChecksSuffice == phase = "rejected" => \E s \in Server(kind) : Accepted(kind, doc, s)

\* A document that was applied is unchanged when it is applied again (the diff of a kind and
\* its conversions agree on what makes no difference), unless it is one of the few that
\* Settles names; and what export and convert give of something that documents can carry is
\* a document that apply accepts.
ReapplyIsUnchanged == phase = "again" /\ Settles(kind, doc) => row = "Unchanged"
ExportIsAccepted == phase = "refused" => doc = Absent \/ origin = Absent \/ ~Carried(kind, origin)

\* What --diff shows of a plan leaves out nothing that the apply then changes on the server.
ChangesAreShown == phase = "applied" => Tells(kind, doc, before, server)

DocumentsInv ==
    TypeOK /\ LocalChecksSuffice /\ ReapplyIsUnchanged /\ ExportIsAccepted /\ ChangesAreShown

\* After an apply the server shows everything that the document says, even when the diff
\* found nothing to send, and has kept what documents of the kind have no say in.
AppliedIsServed ==
    phase \in {"applied", "again"} =>
        Shows(kind, doc, server) /\ Spares(kind, doc, before, server)

\* An export or a conversion that reports nothing has lost nothing that
\* documents can carry: applied elsewhere it makes the same, and where it is from it is
\* unchanged.
ExportAppliesBack ==
    phase = "applied" /\ origin # Absent /\ report = 0 /\ Carried(kind, origin) =>
        /\ Same(kind, server, origin)
        /\ before = origin /\ doc = Exported(kind, origin) => row = "Unchanged"
=============================================================================
