-------------------------------- MODULE Verbs --------------------------------
(***************************************************************************)
(* What every verb of onmsctl does once its context is resolved, as a      *)
(* program of steps: the requests it makes in order, how it takes a 404,   *)
(* where it asks, and how it writes files; and which verbs are classified  *)
(* as writes (the cmd modules of the capability crates and main.rs).  A    *)
(* loop of reads is represented by one of its turns: reads change nothing. *)
(* Session runs these programs.                                            *)
(***************************************************************************)
EXTENDS Invocation

-----------------------------------------------------------------------------
\* ---- steps.  "missing" is what a 404 becomes: an error, "goOn" (absence is an answer
\* like any other), "noop" (nothing to do: exit 0) or "noAsk" (go on without asking).
Step(do) == [do |-> do, missing |-> "NotFound", body |-> "decoded", part |-> "none",
             tolerant |-> FALSE]

Get(missing) == [Step("get") EXCEPT !.missing = missing]
\* The object the verb is about is looked up.
Find(missing) == [Get(missing) EXCEPT !.part = "object"]
Raw(missing) == [Get(missing) EXCEPT !.body = "raw"]
List == Get("NotFound")
Page == [List EXCEPT !.body = "page"]
\* A loop that captures the failures of its reads and goes on; they make the exit status 1.
GetEach == [List EXCEPT !.tolerant = TRUE]

\* A write of one part of the object, its answer drained unread; a removal is a write too.
Store(part) == [Step("write") EXCEPT !.part = part, !.body = "drained"]
Remove(part) == [Step("remove") EXCEPT !.part = part, !.body = "drained"]
\* A removal that takes a 404 as done.
Purge(part) == [Remove(part) EXCEPT !.missing = "goOn"]

\* Local steps: a check of the input, the terminal, the operator's answer, output files.
Check == [Step("check") EXCEPT !.missing = "Config"]
Usage == [Step("check") EXCEPT !.missing = "Usage"]
Terminal == Step("terminal")
Ask == Step("ask")
Report == Step("report")

-----------------------------------------------------------------------------
\* ---- output files: what is written of "files" (a sequence of names) into a directory
\* that holds "before", and whether all of it was.
Upto(files, Stops(_)) ==
    LET n == CHOOSE k \in 0..Len(files) :
            /\ \A i \in 1..k : ~Stops(i)
            /\ k < Len(files) => Stops(k + 1)
    IN [written |-> {files[i] : i \in 1..n}, all |-> n = Len(files)]

\* requisition export and convert: one by one, over what is there, up to a name that is
\* no file name.
WriteEach(files, before, force) == Upto(files, LAMBDA i : files[i] = "unsafe")

\* event-source convert and download: one by one, up to a file that exists.
WriteGuarded(files, before, force) ==
    Upto(files, LAMBDA i : ~force /\ files[i] \in before \cup {files[j] : j \in 1..(i - 1)})

\* threshold export (write_files): every target is checked before the first is written.
Writable_UpToFirst(f, before, force) == f # "unsafe"
Writable(f, before, force) == f # "unsafe" /\ (force \/ f \notin before)
WriteFiles(files, before, force) ==
    IF \A i \in DOMAIN files : Writable(files[i], before, force)
      THEN [written |-> {files[i] : i \in DOMAIN files}, all |-> TRUE]
      ELSE [written |-> {}, all |-> FALSE]

\* event-source export (render_export): so too, and no two sources share a file.
RenderExport(files, before, force) ==
    IF Cardinality({files[i] : i \in DOMAIN files}) < Len(files)
      THEN [written |-> {}, all |-> FALSE]
      ELSE WriteFiles(files, before, force)

Emit(policy) == [Step("emit") EXCEPT !.part = policy]

Emitted(policy, files, before, force) ==
    CASE policy = "each" -> WriteEach(files, before, force)
      [] policy = "guarded" -> WriteGuarded(files, before, force)
      [] policy = "files" -> WriteFiles(files, before, force)
      [] policy = "export" -> RenderExport(files, before, force)

-----------------------------------------------------------------------------
\* ---- requisition.  The requests first, each with what a 404 becomes.
ListRequisitionNames == List
GetRequisition == Get("Config")
GetRequisitionNode == Get("Config")
GetRequisitionInterface == Get("Config")
GetNodeAssetRecord == Get("NotFound")
PutNodeAssetRecord == Store("asset")
TriggerImport == Store("import")
GetForeignSource == Get("goOn")
GetDefaultForeignSource == Get("NotFound")
DeletePending == Purge("pending")
DeleteDeployed == Purge("deployed")

RequisitionVerbs ==
    {"req import", "req status", "req list", "req delete", "req export", "req convert"}
RequisitionWrites == {"req import", "req delete"}

RunImport(opts) == <<TriggerImport>>
RunStatus(opts) == <<GetRequisition>>
RunListRequisitions(opts) == <<ListRequisitionNames>>
\* --out names are checked as they are reached.
ExportAllRequisitions(opts) ==
    <<ListRequisitionNames>> \o (IF opts.defaults THEN <<GetDefaultForeignSource>> ELSE << >>)
        \o <<GetRequisition, GetForeignSource>>
ExportRequisition(opts) ==
    <<GetRequisition, GetForeignSource>>
        \o IF opts.defaults THEN <<GetDefaultForeignSource>> ELSE << >>
RunExport(opts) ==
    (IF opts.all THEN ExportAllRequisitions(opts) ELSE ExportRequisition(opts)) \o <<Emit("each")>>
RunConvert(opts) == <<Check, Emit("each"), Report>>
\* --yes, or a terminal and a confirmation unless nothing is there; then both snapshots.
Confirmation(opts) == IF opts.yes THEN << >> ELSE <<Terminal, Find("noAsk"), Ask>>
RunDelete_DeployedFirst(opts) == Confirmation(opts) \o <<DeleteDeployed, DeletePending>>
RunDelete(opts) == Confirmation(opts) \o <<DeletePending, DeleteDeployed>>

RequisitionSteps(v, opts) ==
    CASE v = "req import" -> RunImport(opts) [] v = "req status" -> RunStatus(opts)
      [] v = "req list" -> RunListRequisitions(opts) [] v = "req delete" -> RunDelete(opts)
      [] v = "req export" -> RunExport(opts) [] v = "req convert" -> RunConvert(opts)

\* Parts of a requisition are read from the embedding document.
NodeVerbs == {"node list", "node get"}
InterfaceVerbs == {"interface list", "interface get"}
ServiceVerbs == {"service list"}
CategoryVerbs == {"category list"}
NodeList == <<GetRequisition>>
NodeGet == <<GetRequisitionNode>>
InterfaceList == <<GetRequisitionNode>>
InterfaceGet == <<GetRequisitionInterface>>
ServiceList == <<GetRequisitionInterface>>
CategoryList == <<GetRequisitionNode>>

PartSteps(v) ==
    CASE v = "node list" -> NodeList [] v = "node get" -> NodeGet
      [] v = "interface list" -> InterfaceList [] v = "interface get" -> InterfaceGet
      [] v = "service list" -> ServiceList [] v = "category list" -> CategoryList

\* An asset record is read, changed in one field whose type must fit, and put back whole.
AssetVerbs == {"asset list", "asset get", "asset set"}
AssetWrites == {"asset set"}
CoerceValue == Check
AssetList == <<GetNodeAssetRecord, Check>>
AssetGet == <<GetNodeAssetRecord, Check>>
AssetSet == <<GetNodeAssetRecord, CoerceValue, PutNodeAssetRecord>>

AssetSteps(v) ==
    CASE v = "asset list" -> AssetList [] v = "asset get" -> AssetGet
      [] v = "asset set" -> AssetSet

-----------------------------------------------------------------------------
\* ---- event-source, event
GetSource == Get("NotFound")
FilterSources == Page
DownloadSourceXml(missing) == Raw(missing)
\* Of no identifiers at all no request is made.
DeleteSources == Remove("object")
\* Refused files are listed in the answer.
UploadSources == [Store("object") EXCEPT !.body = "upload"]
\* Of a source or by a filter; what a vendor has is the one list that may not be empty.
ListEvents(opts) == IF opts.vendorOnly THEN List ELSE Page

SourceVerbs ==
    {"source list", "source get", "source names", "source names-and-ids", "source delete",
     "source upload", "source download", "source export", "source convert"}
SourceWrites == {"source delete", "source upload"}
EventVerbs == {"event list"}

\* By number, or by an exact name that only one source has.
ResolveSourceSelector(opts) ==
    IF opts.byId THEN << >> ELSE <<[FilterSources EXCEPT !.missing = "Config"]>>

EnsurePositiveId == Check
SourceList == <<Check, FilterSources>>
SourceGet == <<EnsurePositiveId, GetSource>>
SourceDelete == <<EnsurePositiveId, DeleteSources>>
\* The files are read and parsed before the request.
BuildUploadParts == Check
SourceUpload == <<BuildUploadParts, UploadSources>>
SourceDownload(opts) ==
    ResolveSourceSelector(opts) \o <<DownloadSourceXml("NotFound"), Check>>
        \o (IF opts.yaml THEN <<GetSource, Report>> ELSE << >>) \o <<Emit("guarded")>>
\* Whatever fails of one source is told in words.
ExportOne == [DownloadSourceXml("Config") EXCEPT !.body = "told"]
ExportBySelector(opts) ==
    ResolveSourceSelector(opts) \o (IF opts.byId THEN <<GetSource>> ELSE << >>) \o <<ExportOne>>
\* A source that cannot be downloaded is passed over and told.
ExportAll == <<List, GetEach>>
SourceExport(opts) ==
    (IF opts.all THEN ExportAll ELSE ExportBySelector(opts)) \o <<Emit("export"), Report>>
\* Usage errors, and inputs that cannot be read, are exit 3.
ReadInputBytes == Usage
SourceConvert == <<ReadInputBytes, Emit("guarded"), Report>>
\* A filter is given, and no number is negative.
EventList(opts) == <<Check, ListEvents(opts)>>

SourceSteps(v, opts) ==
    CASE v = "source list" -> SourceList [] v = "source get" -> SourceGet
      [] v \in {"source names", "source names-and-ids"} -> <<List>>
      [] v = "source delete" -> SourceDelete [] v = "source upload" -> SourceUpload
      [] v = "source download" -> SourceDownload(opts) [] v = "source export" -> SourceExport(opts)
      [] v = "source convert" -> SourceConvert

-----------------------------------------------------------------------------
\* ---- iam
ListUsers == List
GetUser(missing) == Find(missing)
GetWhoami == [Get("IamWhoamiUnavailable") EXCEPT !.body = "whoami"]
RequireUser == Find("UserNotFound")
PutPassword == Store("password")
DeleteUser == Purge("object")

IamVerbs ==
    {"iam whoami", "iam group", "user list", "user get", "user delete", "user set-password",
     "user export"}
IamWrites == {"user delete", "user set-password"}

Unimplemented == [Check EXCEPT !.part = "never"]
Whoami == <<GetWhoami>>
UserGet == <<GetUser("UserNotFound")>>
ConfirmWithMessage == <<Terminal, Ask>>
\* Without --yes an absent user ends the command before it asks.
UserDelete(opts) ==
    (IF opts.yes THEN << >> ELSE <<GetUser("noop")>> \o ConfirmWithMessage) \o <<DeleteUser>>
\* The password is read before the account is looked up.
ResolvePassword == Check
SetPassword == <<ResolvePassword, RequireUser, PutPassword>>
UserExport(opts) == IF opts.all THEN <<ListUsers>> ELSE <<RequireUser>>

IamSteps(v, opts) ==
    CASE v = "iam whoami" -> Whoami [] v = "iam group" -> <<Unimplemented>>
      [] v = "user list" -> <<ListUsers>> [] v = "user get" -> UserGet
      [] v = "user delete" -> UserDelete(opts) [] v = "user set-password" -> SetPassword
      [] v = "user export" -> UserExport(opts)

-----------------------------------------------------------------------------
\* ---- snmp, maintenance, datacollection, business-service
SnmpVerbs == {"snmp export", "snmp lookup"}
SnmpExport == <<List, Get("goOn")>>
\* Where the agent's location is not given, the stored configuration tells it.
CollectLookups(opts) == (IF opts.all THEN <<List>> ELSE << >>) \o <<Check, List>>

MaintenanceVerbs == {"maint list", "maint status", "maint delete"}
MaintenanceWrites == {"maint delete"}
\* Anything but true or false is no answer.
CheckOutage == <<List, Check>>
MaintenanceStatus == <<Check>> \o CheckOutage
MaintenanceDelete == <<Remove("object")>>

DatacollectionVerbs == {"dc list", "dc export", "dc delete"}
DatacollectionWrites == {"dc delete"}
\* The listing of sources also shows that the endpoint is there.
Preflight == Find("Config")
DownloadRaw == Raw("NotFound")
DatacollectionList(opts) == IF opts.all THEN <<List>> ELSE <<[Preflight EXCEPT !.part = "none"]>>
ResolveId == <<Preflight>>
DatacollectionExport == ResolveId \o <<DownloadRaw>>
DatacollectionDelete == ResolveId \o <<Remove("object")>>

BusinessServiceVerbs == {"bs list", "bs get", "bs delete"}
BusinessServiceWrites == {"bs delete"}
FetchAll == [Find("Config") EXCEPT !.body = "page"]
Reload == Store("reload")
BusinessServiceList == <<[FetchAll EXCEPT !.part = "none"]>>
BusinessServiceGet == <<FetchAll>>
\* The removal has been committed: a failed reload is only told.
BusinessServiceDelete == <<FetchAll, Remove("object"), [Reload EXCEPT !.tolerant = TRUE]>>

SnmpSteps(v, opts) == IF v = "snmp export" THEN SnmpExport ELSE CollectLookups(opts)
MaintenanceSteps(v) ==
    CASE v = "maint list" -> <<List>> [] v = "maint status" -> MaintenanceStatus
      [] v = "maint delete" -> MaintenanceDelete
DatacollectionSteps(v, opts) ==
    CASE v = "dc list" -> DatacollectionList(opts) [] v = "dc export" -> DatacollectionExport
      [] v = "dc delete" -> DatacollectionDelete
BusinessServiceSteps(v) ==
    CASE v = "bs list" -> BusinessServiceList [] v = "bs get" -> BusinessServiceGet
      [] v = "bs delete" -> BusinessServiceDelete

-----------------------------------------------------------------------------
\* ---- threshold, graph
ThresholdVerbs ==
    {"thr group list", "thr group get", "thr group delete", "thr package list",
     "thr package get", "thr package delete", "thr export"}
ThresholdWrites == {"thr group delete", "thr package delete"}

Metadata == Get("Config")
GetThresholds == Find("Config")
DeleteThresholds == Remove("object")
\* Listed, and each read in full; one that is gone by then is passed over.
AllPackages == <<List, Get("goOn")>>
\* A group is removed only if no package was found to bind it, or by force.
BoundBy(opts) == IF opts.force THEN << >> ELSE <<Check>>
ThresholdGroupDelete(opts) == AllPackages \o BoundBy(opts) \o <<GetThresholds, DeleteThresholds>>
ThresholdExport == <<List, Get("goOn")>> \o AllPackages \o <<Emit("files")>>

\* Every verb asks for the metadata first.
ThresholdSteps(v, opts) ==
    <<Metadata>> \o
    CASE v \in {"thr group list", "thr package list"} -> <<List>>
      [] v \in {"thr group get", "thr package get"} -> <<GetThresholds>>
      [] v = "thr group delete" -> ThresholdGroupDelete(opts)
      [] v = "thr package delete" -> <<GetThresholds, DeleteThresholds>>
      [] v = "thr export" -> ThresholdExport

GraphVerbs ==
    {"graph list", "graph get", "graph export", "graph convert", "graph view", "graph search",
     "graph delete"}
GraphWrites == {"graph delete"}

\* An upload that is not text, or not GraphML, is no document.
GetXml(missing) == Raw(missing)
ListRows == <<List, GetXml("goOn")>>
FetchDoc == <<GetXml("Config"), Check>>
View == Get("NotFound")
Search == Get("NotFound")
GraphDelete == <<[Remove("object") EXCEPT !.missing = "Config"]>>
ConvertFile == <<Check>>

GraphSteps(v) ==
    CASE v = "graph list" -> ListRows
      [] v \in {"graph get", "graph export"} -> FetchDoc
      [] v = "graph view" -> <<View>> [] v = "graph search" -> <<Search>>
      [] v = "graph delete" -> GraphDelete [] v = "graph convert" -> ConvertFile

-----------------------------------------------------------------------------
\* ---- config use-context: a program of file operations (write_atomic, then a reload).
LocalSteps(ops) == [i \in DOMAIN ops |-> Step(ops[i])]
WriteAtomic_Unsynced == LocalSteps(<<"stage", "rename", "syncDir">>)
WriteAtomic == LocalSteps(<<"stage", "sync", "rename", "syncDir">>)
UseContext == WriteAtomic \o LocalSteps(<<"verify">>)

-----------------------------------------------------------------------------
\* ---- apply, and all verbs together.  A dry run is a read; what a real apply sends is
\* ApplyRouter's, and stands here for one write.
ApplyVerbs == {"apply", "apply --dry-run"}
ApplyWrites == {"apply"}
\* Documents that cannot be loaded are exit 2, documents the gate refuses exit 1.
ResolveApplyInput == Check
LoadDocuments == Check
Gate == [Check EXCEPT !.missing = "ApplyGate"]
RunApply(v) ==
    <<ResolveApplyInput, LoadDocuments, List, Gate>>
        \o IF v = "apply" THEN <<[Store("documents") EXCEPT !.body = "rows"]>> ELSE << >>

ServerVerbs ==
    RequisitionVerbs \cup NodeVerbs \cup InterfaceVerbs \cup ServiceVerbs \cup CategoryVerbs
        \cup AssetVerbs \cup SourceVerbs \cup EventVerbs \cup IamVerbs \cup SnmpVerbs
        \cup MaintenanceVerbs \cup DatacollectionVerbs \cup BusinessServiceVerbs
        \cup ThresholdVerbs \cup GraphVerbs \cup ApplyVerbs

Writes ==
    RequisitionWrites \cup AssetWrites \cup SourceWrites \cup IamWrites \cup MaintenanceWrites
        \cup DatacollectionWrites \cup BusinessServiceWrites \cup ThresholdWrites
        \cup GraphWrites \cup ApplyWrites

Kind(v) == IF v \in Writes THEN "Write" ELSE "Read"

\* Verbs that run without a context: config reads the file only.
ConfigVerbs == {"config view", "config use-context"}
LocalOnly == {"req convert", "source convert", "graph convert"}

Steps(v, opts) ==
    CASE v = "config use-context" -> UseContext [] v = "config view" -> << >>
      [] v \in RequisitionVerbs -> RequisitionSteps(v, opts)
      [] v \in NodeVerbs \cup InterfaceVerbs \cup ServiceVerbs \cup CategoryVerbs -> PartSteps(v)
      [] v \in AssetVerbs -> AssetSteps(v)
      [] v \in SourceVerbs -> SourceSteps(v, opts) [] v \in EventVerbs -> EventList(opts)
      [] v \in IamVerbs -> IamSteps(v, opts) [] v \in SnmpVerbs -> SnmpSteps(v, opts)
      [] v \in MaintenanceVerbs -> MaintenanceSteps(v)
      [] v \in DatacollectionVerbs -> DatacollectionSteps(v, opts)
      [] v \in BusinessServiceVerbs -> BusinessServiceSteps(v)
      [] v \in ThresholdVerbs -> ThresholdSteps(v, opts)
      [] v \in GraphVerbs -> GraphSteps(v) [] v \in ApplyVerbs -> RunApply(v)
=============================================================================
